----------------------------- MODULE DeployScript -----------------------------
(***************************************************************************)
(* How a vault goes live: scripts/deploy_strategy_mainnet.ts, or its       *)
(* rehearsal deploy_strategy_testnet.ts, deploys a strategy and a share    *)
(* token for each asset, wires them, and writes their addresses to a file  *)
(* at the very end; wire_{mainnet,testnet}_vaults.ts copies the file into  *)
(* the list the frontend offers.  A run that broke off is started again.   *)
(*                                                                         *)
(* Factors are in hundredths, health factors in 1e-4.  The dry run is a    *)
(* run that breaks off at the first transaction; warnings are left out.    *)
(***************************************************************************)
EXTENDS Integers, Sequences

CONSTANTS Assets,       \* ASSETS, a sequence of [symbol, c, loops, minHf, orange, rate]
          Risks,        \* risk parameters, [c, l], a reserve may have
          Launches,     \* bounds: runs of the script, changes of the pool's
          Shifts,       \* parameters, calls and transactions that are lost
          Mishaps

ASSUME DeployConstantsOK ==
    /\ Assets \in Seq([symbol : STRING, c : Nat, loops : Nat, minHf : Nat, orange : Nat, rate : Nat])
    /\ Assets # <<>>
    /\ Launches \in Nat \ {0} /\ Shifts \in Nat /\ Mishaps \in Nat

Unset == 0
Symbols == {Assets[i].symbol : i \in DOMAIN Assets}

VARIABLES venue,        \* the network, and whether the admin is the deployer
          run,          \* the script: pc, the asset it is at, what it holds
          queued,       \* its transactions the ledger may still take
          strategies, tokens,           \* contracts by address: 1, 2, ...
          reserve,                      \* risk parameters by symbol
          file, offered,                 \* deployed-vaults.json; defindex.ts
          odds                          \* launches, shifts, mishaps to come

deployVars == <<venue, run, queued, strategies, tokens, reserve, file, offered, odds>>
deployed == <<strategies, tokens>>

Draws(o) == odds[o] > 0 /\ odds' = [odds EXCEPT ![o] = @ - 1]
Asset == Assets[run.at]
Moved(pc) == [run EXCEPT !.pc = pc, !.answer = "", !.sent = FALSE]
Nothing == [s \in Symbols |-> [strategy |-> Unset, token |-> Unset]]
(* Only mainnet has a preflight.                                           *)
Launched == [pc |-> IF venue.net = "mainnet" THEN "preflight" ELSE "strategy wasm", at |-> 1, passed |-> TRUE,
             sent |-> FALSE, answer |-> "", value |-> 0, strategy |-> Unset, token |-> Unset, out |-> Nothing]
BrokenOff == [Launched EXCEPT !.pc = "exited"]

(*------------------------------- preflight ------------------------------*)
(* designHf: the layers of target_loops on a reference notional.           *)
DesignHf(a, l) ==
    LET Layer[i \in Nat] == IF i = 0 THEN 10000 ELSE (Layer[i - 1] * a.c) \div 100
        Sum[i \in Nat] == Layer[i] + IF i = 0 THEN 0 ELSE Sum[i - 1]
    IN  (Sum[a.loops] * a.c * l) \div (Sum[a.loops] - Layer[0])
(* A position at min_hf, in Blend's terms.                                 *)
BlendRatio(a, r) == (a.minHf * r.c * r.l) \div (100 * a.c)
Sound(a, r) == a.c <= r.c /\ BlendRatio(a, r) > 10000 /\ DesignHf(a, r.l) > a.orange

NextAsset(pc, end) == IF run.at < Len(Assets) THEN [Moved(pc) EXCEPT !.at = @ + 1]
                      ELSE [Moved(end) EXCEPT !.at = 1]
(* One read per asset; failures are collected and end the run before       *)
(* anything is deployed.                                                   *)
Preflight ==
    /\ run.pc = "preflight"
    /\ \E ok \in {TRUE, FALSE} :
          /\ \/ ok = Sound(Asset, reserve[Asset.symbol]) /\ UNCHANGED odds
             \/ ~ok /\ Draws("mishaps")
          /\ LET passed == run.passed /\ ok
                 next == NextAsset("preflight", "strategy wasm")
             IN  run' = IF run.at = Len(Assets) /\ ~passed THEN BrokenOff
                        ELSE [next EXCEPT !.passed = passed]
    /\ UNCHANGED <<venue, queued, deployed, reserve, file, offered>>

(*------------------------------ signSubmit ------------------------------*)
Calls == {"strategy wasm", "token wasm", "strategy", "token",
          "set_share_token", "set_swap_account", "set_min_harvest_rate"}
(* What a call finds wrong when it is simulated, and when it executes: the *)
(* constructor compares c_factors; nobody signed for another admin.        *)
Reverts(job, at) == job = "strategy" /\ Assets[at].c > reserve[Assets[at].symbol].c
Unsigned(job) == job \in {"set_share_token", "set_swap_account", "set_min_harvest_rate"} /\ ~venue.own
Job == [pc |-> run.pc, at |-> run.at, strategy |-> run.strategy, token |-> run.token, awaited |-> TRUE]
SignSubmit ==
    /\ run.pc \in Calls /\ run.sent = FALSE
    /\ IF Reverts(run.pc, run.at)
       THEN run' = BrokenOff /\ UNCHANGED queued
       ELSE run' = [run EXCEPT !.sent = TRUE] /\ queued' = queued \union {Job}
    /\ UNCHANGED <<venue, deployed, reserve, file, offered, odds>>
(* The status of sendTransaction is not looked at: what was not taken is   *)
(* polled for like the rest, without an end.                               *)
Untaken ==
    /\ run.pc \in Calls /\ run.sent = FALSE /\ ~Reverts(run.pc, run.at) /\ Draws("mishaps")
    /\ run' = [run EXCEPT !.sent = TRUE]
    /\ UNCHANGED <<venue, queued, deployed, reserve, file, offered>>
(* An await throws: main's catch, and the process ends.                    *)
RunThrows ==
    /\ run.pc \in Calls /\ Draws("mishaps")
    /\ run' = BrokenOff /\ queued' = {[t EXCEPT !.awaited = FALSE] : t \in queued}
    /\ UNCHANGED <<venue, deployed, reserve, file, offered>>

(*------------------------------- the ledger -----------------------------*)
(* What a call does when it executes.                                      *)
Effect(t) ==
    \/ t.pc \in {"strategy wasm", "token wasm"} /\ UNCHANGED deployed
    \/ /\ t.pc = "strategy" /\ UNCHANGED tokens
       /\ strategies' = Append(strategies, [symbol |-> Assets[t.at].symbol, token |-> Unset,
                                            swap |-> FALSE, rate |-> Unset])
    \/ t.pc = "token" /\ tokens' = Append(tokens, t.strategy) /\ UNCHANGED strategies
    \/ t.pc = "set_share_token" /\ strategies' = [strategies EXCEPT ![t.strategy].token = t.token] /\ UNCHANGED tokens
    \/ t.pc = "set_swap_account" /\ strategies' = [strategies EXCEPT ![t.strategy].swap = TRUE] /\ UNCHANGED tokens
    \/ /\ t.pc = "set_min_harvest_rate" /\ UNCHANGED tokens
       /\ strategies' = [strategies EXCEPT ![t.strategy].rate = Assets[t.at].rate]
Made(t) == IF t.pc = "strategy" THEN Len(strategies) + 1 ELSE Len(tokens) + 1
Told(t, answer) == IF t.awaited THEN [run EXCEPT !.answer = answer, !.value = Made(t)] ELSE run
(* All that is queued bears one sequence number: one is taken at most.     *)
Runs(t) ==
    LET fails == Reverts(t.pc, t.at) \/ Unsigned(t.pc)
    IN  /\ t \in queued /\ queued' = {}
        /\ \/ fails /\ UNCHANGED deployed /\ run' = Told(t, "FAILED")
           \/ ~fails /\ Effect(t) /\ run' = Told(t, "SUCCESS")
        /\ UNCHANGED <<venue, reserve, file, offered, odds>>
Lost == /\ \E t \in queued : queued' = queued \ {t}
        /\ Draws("mishaps")
        /\ UNCHANGED <<venue, run, deployed, reserve, file, offered>>
(* The pool's admin gives a reserve other parameters.                      *)
Shift(s) == /\ \E r \in Risks : r # reserve[s] /\ reserve' = [reserve EXCEPT ![s] = r]
            /\ Draws("shifts")
            /\ UNCHANGED <<venue, run, queued, deployed, file, offered>>

(*--------------------------------- main ---------------------------------*)
(* out[a.symbol], once the asset is wired.                                 *)
Noted == [run.out EXCEPT ![Asset.symbol] = [strategy |-> run.strategy, token |-> run.token]]
AssetDone == [NextAsset("strategy", "write") EXCEPT !.out = Noted]
(* On mainnet an asset without a rate leaves its Broker path closed; the   *)
(* rehearsal gives each one a nominal rate.                                *)
HasRate == venue.net = "testnet" \/ Asset.rate # Unset
AfterCall ==
    \/ run.pc = "strategy wasm" /\ run' = Moved("token wasm")
    \/ run.pc = "token wasm" /\ run' = Moved("strategy")
    \/ run.pc = "strategy" /\ run' = [Moved("token") EXCEPT !.strategy = run.value]
    \/ run.pc = "token" /\ run' = [Moved("set_share_token") EXCEPT !.token = run.value]
    \/ run.pc = "set_share_token" /\ run' = Moved("set_swap_account")
    \/ run.pc = "set_swap_account" /\ HasRate /\ run' = Moved("set_min_harvest_rate")
    \/ run.pc = "set_swap_account" /\ ~HasRate /\ run' = AssetDone
    \/ run.pc = "set_min_harvest_rate" /\ run' = AssetDone
Answered ==
    /\ \/ run.answer = "SUCCESS" /\ AfterCall
       \/ run.answer = "FAILED" /\ run' = BrokenOff
    /\ UNCHANGED <<venue, queued, deployed, reserve, file, offered, odds>>
(* The file is written once, with every asset in it.                       *)
WriteFile ==
    /\ run.pc = "write"
    /\ file' = run.out /\ run' = Moved("done")
    /\ UNCHANGED <<venue, queued, deployed, reserve, offered, odds>>

(* The operator kills a run that hangs, and starts another.                *)
Relaunch ==
    /\ Draws("launches")
    /\ run' = Launched /\ queued' = {[t EXCEPT !.awaited = FALSE] : t \in queued}
    /\ UNCHANGED <<venue, deployed, reserve, file, offered>>

(*--------------------------- wire_*_vaults.ts ---------------------------*)
(* Mutant: a share token that is offered already is left as it is. *)
EntryKept(old, ids) ==
    IF ids.strategy = Unset THEN old
    ELSE [strategy |-> ids.strategy, token |-> IF old.token # Unset THEN old.token ELSE ids.token]
Entry(old, ids) == IF ids.strategy = Unset THEN old ELSE ids
WireVaults ==
    /\ file # Nothing
    /\ offered' = [s \in Symbols |-> Entry(offered[s], file[s])]
    /\ offered' # offered
    /\ UNCHANGED <<venue, run, queued, deployed, reserve, file, odds>>

DeployInit ==
    /\ venue \in [net : {"mainnet", "testnet"}, own : BOOLEAN]
    /\ run = Launched /\ queued = {} /\ strategies = <<>> /\ tokens = <<>>
    /\ reserve \in [Symbols -> Risks]
    /\ file = Nothing /\ offered = Nothing
    /\ odds = [launches |-> Launches - 1, shifts |-> Shifts, mishaps |-> Mishaps]
DeployNext ==
    \/ Preflight \/ SignSubmit \/ Untaken \/ RunThrows \/ Answered \/ WriteFile \/ Relaunch \/ WireVaults
    \/ (\E t \in queued : Runs(t)) \/ Lost \/ (\E s \in Symbols : Shift(s))
DeploySpec == DeployInit /\ [][DeployNext]_deployVars

-----------------------------------------------------------------------------
(* Whatever runs broke off, and whichever of their transactions landed     *)
(* afterwards, a vault the frontend offers is a strategy for that asset    *)
(* whose ledger is the offered token, which only it may mint, and which has *)
(* a swap account; and on mainnet, unless the pool changed, it is one      *)
(* whose deposits open above its rebalance band (main, preflight,          *)
(* wire_mainnet_vaults.ts).                                                *)
OfferedIsWired ==
    \A i \in DOMAIN Assets :
        LET a == Assets[i]
            ids == offered[a.symbol]
        IN  ids.strategy # Unset =>
               /\ strategies[ids.strategy].symbol = a.symbol
               /\ strategies[ids.strategy].token = ids.token
               /\ tokens[ids.token] = ids.strategy
               /\ strategies[ids.strategy].swap
               /\ venue.net = "mainnet" /\ odds.shifts = Shifts => Sound(a, reserve[a.symbol])
=============================================================================

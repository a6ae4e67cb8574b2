------------------------------ MODULE LoopScript ------------------------------
(***************************************************************************)
(* scripts/mainnet_loop.ts: opens a leveraged CETES position by an         *)
(* approval and one list of requests, or, with --monitor, watches it and   *)
(* deleverages.  testnet_loop.ts, its rehearsal, buys USDC first and opens *)
(* without a check.  The dry run only prints and is left out, and so is    *)
(* the monitor's reading of the utilization, which it only warns of.       *)
(*                                                                         *)
(* One step lies between two awaits.  c_factors are in hundredths here.    *)
(***************************************************************************)
EXTENDS BlendClient

CONSTANTS Reserves,    \* reserves the pool may have, as everyone else made it
          Held,         \* positions the account may have when monitored
          CFactors,     \* c_factors the pool may have, in hundredths
          Initial, NumLoops,              \* --initial, --loops
          HfThreshold,                    \* --hf-threshold, in 1e-4
          Interest,                       \* steps in which a debt grows
          Accruals, Outages               \* bounds

MAX_SAFE_UTILIZATION == 85
DefaultCFactor == 80
(* The rehearsal's, where the reserve cannot be read.                      *)
RehearsalCFactor == 98

VARIABLES script,       \* mode, pc, and what it has read
          flight,       \* its transactions that may still land
          etherfuse,    \* the reserve, without the account
          position, approved,             \* of the account
          upsets        \* accruals and outages still to come

scriptVars == <<script, flight, etherfuse, position, approved, upsets>>
onLedger == <<etherfuse, position, approved>>

Strikes(b) == upsets[b] > 0 /\ upsets' = [upsets EXCEPT ![b] = @ - 1]
At(pc) == script.pc = pc
Becomes(s) == script' = s
Step(pc) == [script EXCEPT !.pc = pc]
Exit == Step("exited")

(*------------------------------ the arithmetic --------------------------*)
(* buildRequestList: n times supply and borrow, and a last supply.         *)
RECURSIVE RequestList(_, _, _)
RequestList(balance, c, n) ==
    IF n = 0 THEN <<Supply(balance)>>
    ELSE LET borrow == (balance * c) \div 100
         IN  <<Supply(balance), Borrow(borrow)>> \o RequestList(borrow, c, n - 1)
TotalOf(kind, reqs) == FoldLeft(LAMBDA sum, q : IF q[1] = kind THEN sum + q[2] ELSE sum, 0, reqs)
(* hfAt(loops, c) >= 1.03: (1 - c^(n+1)) / (1 - c^n), no l_factor.         *)
RefusesHf(c) == 100^(NumLoops + 1) - c^(NumLoops + 1) < 103 * (100^NumLoops - c^NumLoops)
(* Mutant: the collateral is not weighted by its factor. *)
InDangerUnweighted(p) == p.debt > 0 /\ p.col * 10000 < HfThreshold * p.debt
(* fetchPosition, hf < hfThreshold: again without the l_factor.            *)
InDanger(p) == p.debt > 0 /\ p.col * etherfuse.cf * 100 < HfThreshold * p.debt
(* A quarter of the debt and 0.5 % of that.                                *)
Quarter(p) == (RoundDiv(p.debt * 25, 100) * 1005) \div 1000
DeleverageRequests(amount) == <<Withdraw(amount), Repay(amount)>>

(* What get_reserve reports.                                               *)
PoolSupply == etherfuse.supply + position.col
PoolBorrow == etherfuse.borrow + position.debt
AboveCap(borrow, supply) == supply > 0 /\ borrow * 100 > MAX_SAFE_UTILIZATION * supply
(* fetchUtilization takes dSupply for the supply and bSupply for the       *)
(* borrowed, and checkSafety does the same.                                *)
UtilizationAboveCap == AboveCap(PoolSupply, PoolBorrow)
ProjectedAboveCap(reqs) ==
    AboveCap(PoolSupply + TotalOf("borrow", reqs), PoolBorrow + TotalOf("supply", reqs))

(*------------------------------- opening --------------------------------*)
Rehearsing == script.mode = "rehearse"
(* The rehearsal's executeLoop: straight to the approval, no check.        *)
Rehearse == [Step("send") EXCEPT !.job = "approve"]
Plan == RequestList(Initial, script.c, NumLoops)
(* fetchCFactor; a default when it cannot be read.                         *)
FetchCFactor ==
    /\ At("cfactor") /\ ~Rehearsing
    /\ \/ Becomes([Step("balance") EXCEPT !.c = etherfuse.cf]) /\ UNCHANGED upsets
       \/ Becomes([Step("balance") EXCEPT !.c = DefaultCFactor]) /\ Strikes("outages")
    /\ UNCHANGED <<flight, onLedger>>
FetchRehearsalCFactor ==
    /\ At("cfactor") /\ Rehearsing
    /\ \/ Becomes([Step("purchase") EXCEPT !.c = etherfuse.cf]) /\ UNCHANGED upsets
       \/ Becomes([Step("purchase") EXCEPT !.c = RehearsalCFactor]) /\ Strikes("outages")
    /\ UNCHANGED <<flight, onLedger>>
(* ensureUsdcBalance: the missing USDC by a path payment, which Horizon    *)
(* answers with success or a failure that ends the program.                *)
EnsureUsdcBalance ==
    /\ At("purchase")
    /\ \/ Becomes(Rehearse) /\ UNCHANGED upsets
       \/ Becomes(Exit) /\ Strikes("outages")
    /\ UNCHANGED <<flight, onLedger>>
(* checkCetesBalance; 0 when it cannot be read.                            *)
CheckBalance ==
    /\ At("balance")
    /\ \/ Becomes(Step("utilization")) /\ UNCHANGED upsets
       \/ Becomes(Exit) /\ Strikes("outages")
    /\ UNCHANGED <<flight, onLedger>>
(* checkSafety: a reserve that cannot be read is no objection.             *)
CheckUtilization ==
    /\ At("utilization")
    /\ \/ Becomes(Step(IF UtilizationAboveCap THEN "refused" ELSE "projection")) /\ UNCHANGED upsets
       \/ Becomes(Step("projection")) /\ Strikes("outages")
    /\ UNCHANGED <<flight, onLedger>>
CheckProjection ==
    /\ At("projection")
    /\ \/ Becomes(Step(IF ProjectedAboveCap(Plan) THEN "refused" ELSE "hf")) /\ UNCHANGED upsets
       \/ Becomes(Step("hf")) /\ Strikes("outages")
    /\ UNCHANGED <<flight, onLedger>>
CheckHf ==
    /\ At("hf")
    /\ Becomes(IF RefusesHf(script.c) THEN Exit ELSE [Step("send") EXCEPT !.job = "approve"])
    /\ UNCHANGED <<flight, onLedger, upsets>>

(*------------------------------- monitoring -----------------------------*)
(* A look at the position; a debt that is in danger is deleveraged, by an  *)
(* amount that follows from a second look.                                 *)
Look ==
    /\ At("watch") /\ InDanger(position)
    /\ Becomes(Step("size"))
    /\ UNCHANGED <<flight, onLedger, upsets>>
Size ==
    /\ At("size")
    /\ Becomes(IF position.debt = 0 THEN Step("watch")
               ELSE [Step("send") EXCEPT !.job = "deleverage", !.amount = Quarter(position)])
    /\ UNCHANGED <<flight, onLedger, upsets>>

(*--------------------------- simulateAndSubmit --------------------------*)
Tx == [job |-> script.job, amount |-> script.amount, c |-> script.c, awaited |-> TRUE]
EffectOf(tx) ==
    IF tx.job = "approve" THEN [err |-> ""]
    ELSE Submitted(etherfuse, position, IF tx.job = "submit" THEN RequestList(Initial, tx.c, NumLoops)
                                   ELSE DeleverageRequests(tx.amount), approved)
(* After a confirmation: the next transaction, the end, or the next look.  *)
Confirmed == CASE script.job = "approve" -> [Step("send") EXCEPT !.job = "submit"]
               [] script.job = "submit" -> Step("done")
               [] script.job = "deleverage" -> [Step("watch") EXCEPT !.amount = 0]
Abandoned == {[t EXCEPT !.awaited = FALSE] : t \in flight}
SendTx ==
    /\ At("send")
    /\ IF EffectOf(Tx).err = ""
       THEN Becomes([Step("poll") EXCEPT !.answer = ""]) /\ flight' = flight \union {Tx}
       ELSE Becomes(Exit) /\ UNCHANGED flight
    /\ UNCHANGED <<onLedger, upsets>>
(* DUPLICATE or TRY_AGAIN_LATER falls through to the end, as a success.    *)
NotTaken ==
    /\ At("send") /\ EffectOf(Tx).err = "" /\ Strikes("outages")
    /\ Becomes(Confirmed)
    /\ UNCHANGED <<flight, onLedger>>
Answer ==
    /\ At("poll") /\ script.answer # ""
    /\ Becomes(IF script.answer = "SUCCESS" THEN Confirmed ELSE Exit)
    /\ UNCHANGED <<flight, onLedger, upsets>>
(* An await throws: the end of the program, but the monitor goes on.       *)
AwaitThrows ==
    /\ script.pc \in {"cfactor", "purchase", "balance", "utilization", "projection", "send", "poll", "size"}
    /\ Strikes("outages")
    /\ Becomes(IF script.mode = "monitor" THEN [Step("watch") EXCEPT !.amount = 0] ELSE Exit)
    /\ flight' = Abandoned
    /\ UNCHANGED onLedger

(*-------------------------------- the ledger ----------------------------*)
(* All that is in flight bears one sequence number.                        *)
Takes(t) ==
    LET out == EffectOf(t)
    IN  /\ t \in flight /\ flight' = {}
        /\ IF t.job = "approve" THEN approved' = Initial + 1 /\ UNCHANGED position
           ELSE IF out.err = ""
           THEN /\ position' = [col |-> out.col, debt |-> out.debt]
                /\ approved' = IF out.net > 0 THEN approved - out.net ELSE approved
           ELSE UNCHANGED <<position, approved>>
        /\ script' = IF t.awaited THEN [script EXCEPT !.answer = IF out.err = "" THEN "SUCCESS" ELSE "FAILED"]
                     ELSE script
        /\ UNCHANGED <<etherfuse, upsets>>
(* A transaction is dropped, or its 60 s are over.                         *)
Drops == /\ \E t \in flight : flight' = flight \ {t}
         /\ Strikes("outages")
         /\ UNCHANGED <<script, onLedger>>
Accrues == /\ position.debt > 0 /\ Strikes("accruals")
           /\ \E i \in Interest : position' = [position EXCEPT !.debt = @ + i]
           /\ UNCHANGED <<script, flight, etherfuse, approved>>

Started(mode) == [mode |-> mode, pc |-> IF mode = "monitor" THEN "watch" ELSE "cfactor",
                  c |-> DefaultCFactor, job |-> "approve", amount |-> 0, answer |-> ""]
ScriptInit ==
    /\ script \in {Started("open"), Started("rehearse"), Started("monitor")}
    /\ flight = {} /\ approved = 0
    /\ etherfuse \in {[r EXCEPT !.cf = c] : r \in Reserves, c \in CFactors}
    /\ position \in IF script.mode = "monitor" THEN Held ELSE {[col |-> 0, debt |-> 0]}
    /\ upsets = [accruals |-> Accruals, outages |-> Outages]
ScriptRuns == \/ FetchCFactor \/ FetchRehearsalCFactor \/ EnsureUsdcBalance \/ CheckBalance \/ CheckUtilization \/ CheckProjection \/ CheckHf
              \/ Look \/ Size \/ SendTx \/ Answer
Taking == \E t \in flight : Takes(t)
ScriptNext == ScriptRuns \/ Taking \/ NotTaken \/ AwaitThrows \/ Drops \/ Accrues
(* The process runs, or the network takes what it accepted.                *)
Going == ScriptRuns \/ Taking
ScriptSpec == ScriptInit /\ [][ScriptNext]_scriptVars /\ WF_scriptVars(Going)

-----------------------------------------------------------------------------
Monitored == script.mode = "monitor"
BelowThreshold == position.debt > 0 /\ position.col * etherfuse.cf * 100 < HfThreshold * position.debt
(* It polls, without an end, for a transaction no ledger will take.        *)
Wedged == At("poll") /\ script.answer = "" /\ \A t \in flight : ~t.awaited

(* A monitored position does not stay below the threshold, whatever        *)
(* lapsed or was answered wrongly, unless the process has ended (a         *)
(* simulation or a transaction that fails is its end) or polls for a       *)
(* transaction that is gone (monitorLoop, deleverage, simulateAndSubmit).  *)
MonitorRestores == (Monitored /\ BelowThreshold) ~> (~BelowThreshold \/ At("exited") \/ Wedged)

(* "Maximum pool utilization at which new positions are allowed.": below   *)
(* it, before and after, a new position is not refused for it.             *)
RefusedOnlyAboveCap ==
    At("refused") =>
        \/ AboveCap(PoolBorrow, PoolSupply)
        \/ AboveCap(PoolBorrow + TotalOf("borrow", Plan), PoolSupply + TotalOf("supply", Plan))
=============================================================================

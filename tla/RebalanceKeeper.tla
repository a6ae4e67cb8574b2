---------------------------- MODULE RebalanceKeeper ----------------------------
(***************************************************************************)
(* The off-chain keeper of scripts/rebalance_keeper.ts (--execute --loop): *)
(* one pass after another over the vaults, one await after another within  *)
(* a vault, against strategies whose health factor moves meanwhile.        *)
(*                                                                         *)
(* A vault is what the keeper sees of it: a health factor on a scale of    *)
(* levels.  StrategyVault is the arithmetic behind that number.            *)
(***************************************************************************)
EXTENDS Integers, Sequences, FiniteSets

CONSTANTS Vaults,          \* sequence of VAULTS_JSON
          Unreadable,      \* vaults whose reads always fail
          OldVaults,       \* vaults that have no config() view
          OrangeHf,        \* config.orange_hf of every vault
          DesignHf,        \* the health factor of target_loops
          HfBuffer,        \* RELEVERAGE_HF_BUFFER
          FallbackOrange,  \* FALLBACK_ORANGE_HF
          Top              \* the health factor without debt (i128::MAX)

VaultSet == {Vaults[i] : i \in 1..Len(Vaults)}
Watched == VaultSet \ Unreadable
Methods == {"rebalance_keeper", "releverage"}
Empty == Top + 1   \* a vault without collateral
Levels == 0..Empty

ASSUME KeeperAssumption ==
    /\ Vaults \in Seq(VaultSet) /\ Vaults # <<>>
    /\ Unreadable \subseteq VaultSet /\ OldVaults \subseteq VaultSet
    /\ OrangeHf \in Nat /\ HfBuffer \in Nat \ {0} /\ DesignHf \in Nat /\ FallbackOrange \in Nat
    /\ Top \in Nat /\ Top >= DesignHf + HfBuffer /\ Top >= OrangeHf + 2 * HfBuffer

VARIABLES hf,       \* [Watched -> Levels]: on chain
          cooling,  \* vaults and methods within their cooldown
          net,      \* the keeper's transactions that may still land; they share a sequence number
          keeper,   \* where the pass is and what it has read
          turned,   \* [vault -> "levered" if releverage moved it last, "chased" if it was then unwound]
          calm      \* nothing fails from here on
chain == <<hf, cooling, turned>>
vars == <<hf, cooling, net, keeper, turned, calm>>

-----------------------------------------------------------------------------
(* The strategy's two entrypoints, as the keeper meets them. *)

HasDebt(v) == hf[v] < Top
Orange(v) == hf[v] < OrangeHf
Max2(a, b) == IF a > b THEN a ELSE b

ReleverageTarget == Max2(DesignHf, OrangeHf + HfBuffer)
Slack(v) == hf[v] # Empty /\ hf[v] >= ReleverageTarget + HfBuffer

\* Mutant: an unwind is not checked against the health factor once more.
ActsOnDecision(v, m) == IF m = "releverage" THEN Slack(v) ELSE HasDebt(v)
\* The check on chain, when the call lands.
Acts(v, m) == IF m = "releverage" THEN Slack(v) ELSE Orange(v)

\* Where a call leaves the health factor; a releverage never below the orange zone.
Outcome(v, m) == IF m = "releverage" THEN {ReleverageTarget} \cap OrangeHf..Top ELSE OrangeHf..Top
\* A call reverts within its cooldown, or where there is nowhere to leave the vault.
Reverts(v, m) == <<v, m>> \in cooling \/ Outcome(v, m) = {}

\* A call that lands: nothing to do, or the health factor it aims for and a cooldown.
CallLands(v, m) ==
    IF Acts(v, m) /\ ~Reverts(v, m)
    THEN /\ \E h \in Outcome(v, m) : hf' = [hf EXCEPT ![v] = h]
         /\ cooling' = cooling \cup {<<v, m>>}
         /\ turned' = [turned EXCEPT ![v] = IF m = "releverage" THEN "levered"
                                           ELSE IF @ = "levered" THEN "chased" ELSE "other"]
    ELSE UNCHANGED chain

-----------------------------------------------------------------------------
(* The world: prices, holders, and ledgers that close. *)

Market(v) == /\ \E h \in Levels \ {hf[v]} : hf' = [hf EXCEPT ![v] = h]
             /\ turned' = [turned EXCEPT ![v] = "other"]
             /\ UNCHANGED <<cooling, net, keeper, calm>>

CoolsDown(c) == /\ c \in cooling /\ cooling' = cooling \ {c}
                /\ UNCHANGED <<hf, net, keeper, turned, calm>>

\* One of the keeper's transactions lands; the others bear a used sequence number.
\* It may revert: the pool has too little liquidity, or is utilized too far.
Land(t) ==
    /\ t \in net
    /\ CallLands(t.vault, t.method) \/ (~calm /\ UNCHANGED chain)
    /\ net' = {}
    /\ UNCHANGED <<keeper, calm>>

\* A transaction past its time bounds.
Lapse == /\ ~calm /\ \E t \in net : net' = net \ {t}
         /\ UNCHANGED <<chain, keeper, calm>>

OutagesEnd == ~calm /\ calm' = TRUE /\ UNCHANGED <<chain, net, keeper>>

-----------------------------------------------------------------------------
(* A pass. *)

Sleeping == [pc |-> "sleep", at |-> 1, seen |-> 0, orange |-> 0, method |-> "releverage"]
V == Vaults[keeper.at]
Goto(pc) == [keeper EXCEPT !.pc = pc]
Decide(pc, method) == [Sleeping EXCEPT !.pc = pc, !.at = keeper.at, !.method = method]
\* The loop of pass(), which sleeps for INTERVAL_S after its last vault.
NextVault == IF keeper.at = Len(Vaults) THEN Sleeping
             ELSE [Sleeping EXCEPT !.pc = "read", !.at = keeper.at + 1]

\* The running call's transaction, while it may land; a call that is over, whatever
\* ended it, leaves it behind.
Mine == {t \in net : t.awaited}
CallOver == net' = {[t EXCEPT !.awaited = FALSE] : t \in net}

StartPass == /\ keeper.pc = "sleep"
             /\ keeper' = [Sleeping EXCEPT !.pc = "read"]
             /\ UNCHANGED <<chain, net, calm>>

\* config() and health_factor(); any failure of config() reads as an old vault.
ReadRisk ==
    /\ keeper.pc = "read" /\ V \notin Unreadable
    /\ \E fallback \in {V \in OldVaults} \cup (IF calm THEN {} ELSE {TRUE}) :
         keeper' = [Goto("position") EXCEPT !.seen = hf[V],
                                            !.orange = IF fallback THEN FallbackOrange ELSE OrangeHf]
    /\ UNCHANGED <<chain, net, calm>>

\* position(), a later read than health_factor(): debt and a low health factor
\* unwind; a vault without collateral is skipped; any other asks for leverage.
ReadPosition ==
    /\ keeper.pc = "position"
    /\ keeper' = IF HasDebt(V) /\ keeper.seen < keeper.orange THEN Decide("submit", "rebalance_keeper")
                 ELSE IF hf[V] = Empty THEN NextVault
                 ELSE Decide("simulate", "releverage")
    /\ UNCHANGED <<chain, net, calm>>

\* Mutant: a vault that cannot be read ends the pass.
ReadEndsPass == /\ keeper.pc \in {"read", "position"} /\ (V \in Unreadable \/ ~calm)
                /\ keeper' = Sleeping
                /\ UNCHANGED <<chain, net, calm>>
ReadFails == /\ keeper.pc \in {"read", "position"} /\ (V \in Unreadable \/ ~calm)
             /\ keeper' = NextVault
             /\ UNCHANGED <<chain, net, calm>>

\* The simulated releverage: an error (the cooldown, the pool) or a 0 is nothing to do.
Simulate ==
    /\ keeper.pc = "simulate"
    /\ \/ ~Reverts(V, "releverage") /\ Slack(V) /\ keeper' = Goto("submit")
       \/ ~(calm /\ ~Reverts(V, "releverage") /\ Slack(V)) /\ keeper' = NextVault
    /\ UNCHANGED <<chain, net, calm>>

\* prepareTransaction throws where the call would revert; sendTransaction.
Submit ==
    /\ keeper.pc = "submit"
    /\ IF Reverts(V, keeper.method)
       THEN keeper' = NextVault /\ UNCHANGED net
       ELSE /\ keeper' = Goto("poll")
            /\ net' = net \cup {[vault |-> V, method |-> keeper.method, awaited |-> TRUE]}
    /\ UNCHANGED <<chain, calm>>

\* sendTransaction answers ERROR: the row says so.
SendError == /\ ~calm /\ keeper.pc = "submit" /\ keeper' = NextVault
             /\ UNCHANGED <<chain, net, calm>>

\* getTransaction answers for a transaction that landed, or says nothing of one
\* whose sequence number is used up.
Answered == /\ keeper.pc = "poll" /\ Mine = {}
            /\ CallOver
            /\ keeper' = NextVault
            /\ UNCHANGED <<chain, calm>>

\* 30 polls of 2 s, on a transaction valid for 120 s: it may land later.
TimesOut == /\ ~calm /\ keeper.pc = "poll" /\ Mine # {}
            /\ CallOver
            /\ keeper' = NextVault
            /\ UNCHANGED <<chain, calm>>

\* An RPC error in one of the awaits: pass() logs the error and goes on.
Throws == /\ ~calm /\ keeper.pc \in {"submit", "poll"}
          /\ keeper' = NextVault /\ CallOver
          /\ UNCHANGED <<chain, calm>>

\* The process ends and is started again.
Restart == /\ ~calm /\ keeper' = Sleeping /\ CallOver
           /\ UNCHANGED <<chain, calm>>

-----------------------------------------------------------------------------
Init == /\ hf \in [Watched -> Levels]
        /\ cooling = {} /\ net = {}
        /\ keeper = Sleeping
        /\ turned = [v \in Watched |-> "other"]
        /\ calm = FALSE

KeeperStep == \/ StartPass \/ ReadRisk \/ ReadPosition \/ Simulate \/ Submit \/ Answered
              \/ V \in Unreadable /\ ReadFails
Faults == ReadFails \/ SendError \/ TimesOut \/ Throws \/ Restart \/ Lapse
World == \/ OutagesEnd \/ \E v \in Watched : Market(v)
         \/ \E c \in cooling : CoolsDown(c)
Landing == \E t \in net : Land(t)
Next == KeeperStep \/ Faults \/ World \/ Landing

\* The loop runs on, a transaction accepted into a calm network lands, cooldowns
\* pass and outages end.  The market may move for ever.
Fairness == /\ WF_vars(KeeperStep) /\ WF_vars(Landing) /\ WF_vars(OutagesEnd)
            /\ \A c \in Watched \X Methods : WF_vars(CoolsDown(c))
Spec == Init /\ [][Next]_vars
FairSpec == Spec /\ Fairness

-----------------------------------------------------------------------------
(* Properties. *)

\* The two jobs never chase each other: what a releverage did is not unwound until
\* the market has moved, not even by a call that was decided, or sent, before it
\* (the stretch between the target and the orange zone, lib.rs 658-663).
NoPingPong == \A v \in Watched : turned[v] # "chased"

\* A vault does not stay in the orange zone, and does not stay under-levered, whatever
\* failed before, whatever the other vaults do, and however the market moves.
VaultsAreTended == \A v \in Watched : /\ Orange(v) ~> ~Orange(v)
                                      /\ Slack(v) ~> ~Slack(v)
=============================================================================

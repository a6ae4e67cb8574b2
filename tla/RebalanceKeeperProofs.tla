------------------------ MODULE RebalanceKeeperProofs ------------------------
(***************************************************************************)
(* What the rebalance keeper does to the vaults, for every list of them,   *)
(* every scale of health factors and thresholds, and every order of reads, *)
(* sends, landings, timeouts and restarts.                                 *)
(***************************************************************************)
EXTENDS RebalanceKeeper, TLAPS

PassStates == {"sleep", "read", "position", "simulate", "submit", "poll"}
Transactions == [vault : Watched, method : Methods, awaited : BOOLEAN]

KeeperStates == [pc : PassStates, at : 1..Len(Vaults), seen : Levels,
                 orange : {0, OrangeHf, FallbackOrange}, method : Methods]

KeeperTypeOK ==
    /\ hf \in [Watched -> Levels]
    /\ cooling \subseteq Watched \X Methods
    /\ net \subseteq Transactions
    /\ keeper \in KeeperStates
    /\ turned \in [Watched -> {"levered", "chased", "other"}]
    /\ calm \in BOOLEAN

\* Past its first read, a pass is on a vault that could be read.
OnWatched == keeper.pc \in {"position", "simulate", "submit", "poll"} => V \in Watched
\* Only a call that polls awaits a transaction.
AwaitedIsPolled == Mine # {} => keeper.pc = "poll"
\* What a releverage left behind is out of the orange zone, and untouched since.
LeveredIsSafe == \A v \in Watched : turned[v] = "levered" => hf[v] >= OrangeHf

IInv == KeeperTypeOK /\ OnWatched /\ AwaitedIsPolled /\ LeveredIsSafe /\ NoPingPong

-----------------------------------------------------------------------------
\* Where a releverage and an unwind leave a vault.
LEMMA OutcomeIsSafe ==
    ASSUME NEW v, NEW m \in Methods, NEW h \in Outcome(v, m)
    PROVE  h \in Levels /\ h >= OrangeHf
<1>1. /\ OrangeHf \in Nat /\ HfBuffer \in Nat \ {0} /\ DesignHf \in Nat /\ Top \in Nat
      /\ Top >= DesignHf + HfBuffer /\ Top >= OrangeHf + 2 * HfBuffer
    BY KeeperAssumption
<1>2. ReleverageTarget \in Nat /\ ReleverageTarget >= OrangeHf /\ ReleverageTarget <= Top
    BY <1>1 DEF ReleverageTarget, Max2
<1> QED BY <1>1, <1>2 DEF Outcome, Levels, Empty

\* A call that lands keeps the vault's type and the two facts about its turns,
\* whoever sent it and whenever it was decided.
LEMMA CallIsSafe ==
    ASSUME IInv, NEW v \in Watched, NEW m \in Methods, CallLands(v, m)
    PROVE  /\ hf' \in [Watched -> Levels]
           /\ cooling' \subseteq Watched \X Methods
           /\ turned' \in [Watched -> {"levered", "chased", "other"}]
           /\ LeveredIsSafe' /\ NoPingPong'
<1>1. /\ hf \in [Watched -> Levels] /\ cooling \subseteq Watched \X Methods
      /\ turned \in [Watched -> {"levered", "chased", "other"}]
    BY DEF IInv, KeeperTypeOK
<1>2. CASE Acts(v, m) /\ ~Reverts(v, m)
  <2>1. PICK h \in Outcome(v, m) : hf' = [hf EXCEPT ![v] = h]
    BY <1>2 DEF CallLands
  <2>2. /\ cooling' = cooling \cup {<<v, m>>}
        /\ turned' = [turned EXCEPT ![v] = IF m = "releverage" THEN "levered"
                                           ELSE IF turned[v] = "levered" THEN "chased" ELSE "other"]
    BY <1>2 DEF CallLands
  <2>3. h \in Levels /\ h >= OrangeHf
    BY OutcomeIsSafe
  <2>4. m # "releverage" => turned[v] # "levered"
    <3>1. SUFFICES ASSUME m # "releverage", turned[v] = "levered" PROVE FALSE
      OBVIOUS
    <3>2. hf[v] < OrangeHf
      BY <1>2, <3>1 DEF Acts, Orange
    <3>3. hf[v] >= OrangeHf
      BY <3>1 DEF IInv, LeveredIsSafe
    <3>4. hf[v] \in Int /\ OrangeHf \in Int
      BY <1>1, KeeperAssumption DEF Levels, Empty
    <3> QED BY <3>2, <3>3, <3>4
  <2>5. LeveredIsSafe' /\ NoPingPong'
    BY <1>1, <2>1, <2>2, <2>3, <2>4 DEF IInv, LeveredIsSafe, NoPingPong
  <2> QED BY <1>1, <2>1, <2>2, <2>3, <2>5
<1>3. CASE ~(Acts(v, m) /\ ~Reverts(v, m))
  BY <1>1, <1>3 DEF CallLands, chain, IInv, LeveredIsSafe, NoPingPong
<1> QED BY <1>2, <1>3

\* Where a pass goes after a vault, and what a decision makes of its state.
LEMMA PassSteps ==
    ASSUME IInv
    PROVE  /\ Sleeping \in KeeperStates /\ Sleeping.pc = "sleep"
           /\ NextVault \in KeeperStates /\ NextVault.pc \in {"sleep", "read"}
           /\ \A pc \in PassStates, m \in Methods :
                /\ Goto(pc) \in KeeperStates /\ Goto(pc).pc = pc /\ Goto(pc).at = keeper.at
                /\ Decide(pc, m) \in KeeperStates /\ Decide(pc, m).pc = pc
                /\ Decide(pc, m).at = keeper.at
<1>1. Len(Vaults) \in Nat /\ Len(Vaults) >= 1
    BY KeeperAssumption
<1>2. 0 \in Levels
    BY KeeperAssumption DEF Levels, Empty
<1>3. Sleeping \in KeeperStates /\ Sleeping.pc = "sleep"
    BY <1>1, <1>2 DEF Sleeping, KeeperStates, PassStates, Methods
<1>4. keeper \in KeeperStates
    BY DEF IInv, KeeperTypeOK, KeeperStates
<1>5. NextVault \in KeeperStates /\ NextVault.pc \in {"sleep", "read"}
  <2>1. CASE keeper.at = Len(Vaults)
    BY <1>3, <2>1 DEF NextVault
  <2>2. CASE keeper.at # Len(Vaults)
    <3>1. keeper.at \in 1..Len(Vaults) /\ keeper.at + 1 \in 1..Len(Vaults)
      BY <1>1, <1>4, <2>2 DEF KeeperStates
    <3>2. NextVault = [Sleeping EXCEPT !.pc = "read", !.at = keeper.at + 1]
      BY <2>2 DEF NextVault
    <3> QED BY <1>3, <3>1, <3>2 DEF Sleeping, KeeperStates, PassStates
  <2> QED BY <2>1, <2>2
<1>6. ASSUME NEW pc \in PassStates, NEW m \in Methods
      PROVE  /\ Goto(pc) \in KeeperStates /\ Goto(pc).pc = pc /\ Goto(pc).at = keeper.at
             /\ Decide(pc, m) \in KeeperStates /\ Decide(pc, m).pc = pc
             /\ Decide(pc, m).at = keeper.at
    BY <1>2, <1>4 DEF Goto, Decide, Sleeping, KeeperStates
<1> QED BY <1>3, <1>5, <1>6

\* What the end of a call leaves in the network: nothing that is awaited.
LEMMA GivenUp ==
    ASSUME IInv, CallOver
    PROVE  net' \subseteq Transactions /\ Mine' = {}
<1>1. ASSUME NEW u \in net' PROVE u \in Transactions /\ ~u.awaited
  <2>1. PICK t \in net : u = [t EXCEPT !.awaited = FALSE]
    BY DEF CallOver
  <2> QED BY <2>1 DEF IInv, KeeperTypeOK, Transactions
<1> QED BY <1>1 DEF Mine

-----------------------------------------------------------------------------
LEMMA InitIInv == Init => IInv
<1> SUFFICES ASSUME Init PROVE IInv
    OBVIOUS
<1>1. Len(Vaults) \in Nat /\ Len(Vaults) >= 1 /\ 0 \in Levels
    BY KeeperAssumption DEF Levels, Empty
<1>2. Sleeping \in KeeperStates /\ Sleeping.pc = "sleep"
    BY <1>1 DEF Sleeping, KeeperStates, PassStates, Methods
<1>3. KeeperTypeOK
    BY <1>2 DEF Init, KeeperTypeOK
<1>4. OnWatched /\ AwaitedIsPolled /\ LeveredIsSafe /\ NoPingPong
    BY <1>2 DEF Init, OnWatched, AwaitedIsPolled, Mine, LeveredIsSafe, NoPingPong
<1> QED BY <1>3, <1>4 DEF IInv

\* A step of the pass that leaves the chain and the network alone.
LEMMA PassKeeps ==
    ASSUME IInv, UNCHANGED <<chain, net, calm>>, keeper' \in KeeperStates,
           keeper.pc # "poll", OnWatched'
    PROVE  IInv'
BY DEF IInv, KeeperTypeOK, AwaitedIsPolled, Mine, LeveredIsSafe, NoPingPong, chain

\* The end of a call, on a vault or with the process: nothing is awaited any more.
LEMMA CallEnds ==
    ASSUME IInv, UNCHANGED <<chain, calm>>, keeper' \in KeeperStates,
           keeper'.pc \in {"sleep", "read"}, CallOver
    PROVE  IInv'
<1>1. net' \subseteq Transactions /\ Mine' = {}
  BY GivenUp
<1> QED BY <1>1 DEF IInv, KeeperTypeOK, OnWatched, AwaitedIsPolled, Mine, LeveredIsSafe, NoPingPong, chain

LEMMA KeeperStepKeeps == ASSUME IInv, KeeperStep PROVE IInv'
<1>0. /\ keeper \in KeeperStates /\ OnWatched /\ hf \in [Watched -> Levels]
    BY DEF IInv, KeeperTypeOK
<1>v. V \in VaultSet
    BY <1>0, KeeperAssumption DEF V, VaultSet, KeeperStates
<1>1. CASE StartPass
  <2>1. keeper' \in KeeperStates /\ keeper'.pc = "read" /\ keeper.pc = "sleep"
    BY <1>1, PassSteps DEF StartPass, KeeperStates, PassStates
  <2> QED BY <1>1, <2>1, PassKeeps DEF StartPass, OnWatched
<1>2. CASE ReadRisk
  <2>1. PICK fallback \in BOOLEAN :
          keeper' = [Goto("position") EXCEPT !.seen = hf[V],
                                             !.orange = IF fallback THEN FallbackOrange ELSE OrangeHf]
    BY <1>2 DEF ReadRisk
  <2>2. V \in Watched
    BY <1>2, <1>v DEF ReadRisk, Watched
  <2>3. /\ Goto("position") \in KeeperStates /\ Goto("position").pc = "position"
        /\ Goto("position").at = keeper.at
    BY PassSteps DEF PassStates, Methods
  <2>4. keeper' \in KeeperStates /\ keeper'.pc = "position" /\ keeper'.at = keeper.at
    BY <1>0, <2>1, <2>2, <2>3 DEF KeeperStates
  <2>5. OnWatched'
    BY <2>2, <2>4 DEF OnWatched, V
  <2> QED BY <1>2, <2>4, <2>5, PassKeeps DEF ReadRisk
<1>3. CASE ReadPosition
  <2>1. keeper' \in KeeperStates
    BY <1>3, PassSteps DEF ReadPosition, PassStates, Methods
  <2>2. keeper'.pc \in {"sleep", "read"} \/ keeper'.at = keeper.at
    BY <1>3, PassSteps DEF ReadPosition, PassStates, Methods
  <2>3. V \in Watched
    BY <1>0, <1>3 DEF ReadPosition, OnWatched
  <2>4. OnWatched'
    BY <2>2, <2>3 DEF OnWatched, V
  <2> QED BY <1>3, <2>1, <2>4, PassKeeps DEF ReadPosition
<1>4. CASE Simulate
  <2>1. keeper' \in KeeperStates /\ (keeper'.pc \in {"sleep", "read"} \/ keeper'.at = keeper.at)
    BY <1>4, PassSteps DEF Simulate, PassStates, Methods
  <2>2. V \in Watched
    BY <1>0, <1>4 DEF Simulate, OnWatched
  <2>3. OnWatched'
    BY <2>1, <2>2 DEF OnWatched, V
  <2> QED BY <1>4, <2>1, <2>3, PassKeeps DEF Simulate
<1>5. CASE Submit
  <2>0. V \in Watched /\ keeper.pc = "submit"
    BY <1>0, <1>5 DEF Submit, OnWatched
  <2>1. CASE ~Reverts(V, keeper.method)
    <3>1. /\ keeper' = Goto("poll") /\ UNCHANGED <<chain, calm>>
          /\ net' = net \cup {[vault |-> V, method |-> keeper.method, awaited |-> TRUE]}
      BY <1>5, <2>1 DEF Submit
    <3>2. keeper' \in KeeperStates /\ keeper'.pc = "poll" /\ keeper'.at = keeper.at
      BY <3>1, PassSteps DEF PassStates, Methods
    <3>3. [vault |-> V, method |-> keeper.method, awaited |-> TRUE] \in Transactions
      BY <1>0, <2>0 DEF Transactions, KeeperStates
    <3>4. OnWatched' /\ AwaitedIsPolled'
      BY <2>0, <3>2 DEF OnWatched, AwaitedIsPolled, Mine, V
    <3> QED BY <3>1, <3>2, <3>3, <3>4 DEF IInv, KeeperTypeOK, LeveredIsSafe, NoPingPong, chain
  <2>2. CASE Reverts(V, keeper.method)
    BY <1>5, <2>0, <2>2, PassSteps, PassKeeps DEF Submit, OnWatched
  <2> QED BY <2>1, <2>2
<1>6. CASE Answered
  BY <1>6, PassSteps, CallEnds DEF Answered
<1>7. CASE V \in Unreadable /\ ReadFails
  BY <1>7, PassSteps, PassKeeps DEF ReadFails, OnWatched
<1> QED BY <1>1, <1>2, <1>3, <1>4, <1>5, <1>6, <1>7 DEF KeeperStep

LEMMA FaultKeeps == ASSUME IInv, Faults PROVE IInv'
<1>1. CASE ReadFails
  BY <1>1, PassSteps, PassKeeps DEF ReadFails, OnWatched
<1>2. CASE SendError
  BY <1>2, PassSteps, PassKeeps DEF SendError, OnWatched
<1>3. CASE TimesOut
  BY <1>3, PassSteps, CallEnds DEF TimesOut
<1>4. CASE Throws
  BY <1>4, PassSteps, CallEnds DEF Throws
<1>5. CASE Restart
  BY <1>5, PassSteps, CallEnds DEF Restart
<1>6. CASE Lapse
  BY <1>6 DEF Lapse, IInv, KeeperTypeOK, OnWatched, AwaitedIsPolled, Mine, LeveredIsSafe, NoPingPong, chain, V
<1> QED BY <1>1, <1>2, <1>3, <1>4, <1>5, <1>6 DEF Faults

LEMMA WorldKeeps == ASSUME IInv, World PROVE IInv'
<1>1. CASE OutagesEnd
  BY <1>1 DEF OutagesEnd, IInv, KeeperTypeOK, OnWatched, AwaitedIsPolled, Mine, LeveredIsSafe, NoPingPong, chain, V
<1>2. ASSUME NEW v \in Watched, Market(v) PROVE IInv'
  <2>1. PICK h \in Levels : hf' = [hf EXCEPT ![v] = h]
    BY <1>2 DEF Market
  <2>2. turned' = [turned EXCEPT ![v] = "other"] /\ UNCHANGED <<cooling, net, keeper, calm>>
    BY <1>2 DEF Market
  <2>3. KeeperTypeOK'
    BY <2>1, <2>2 DEF IInv, KeeperTypeOK
  <2>4. LeveredIsSafe' /\ NoPingPong'
    BY <2>1, <2>2 DEF IInv, KeeperTypeOK, LeveredIsSafe, NoPingPong
  <2> QED BY <2>2, <2>3, <2>4 DEF IInv, OnWatched, AwaitedIsPolled, Mine, V
<1>3. ASSUME NEW c \in cooling, CoolsDown(c) PROVE IInv'
  BY <1>3 DEF CoolsDown, IInv, KeeperTypeOK, OnWatched, AwaitedIsPolled, Mine, LeveredIsSafe, NoPingPong, V
<1> QED BY <1>1, <1>2, <1>3 DEF World

\* A transaction that lands voids the others; nobody awaits one any more.
LEMMA LandingKeeps == ASSUME IInv, Landing PROVE IInv'
<1>1. PICK t \in net : Land(t)
  BY DEF Landing
<1>2. t \in Transactions /\ net \subseteq Transactions
  BY DEF IInv, KeeperTypeOK
<1>3. /\ net' = {} /\ UNCHANGED <<keeper, calm>>
  BY <1>1 DEF Land
<1>4. OnWatched' /\ AwaitedIsPolled'
  BY <1>1, <1>2, <1>3 DEF IInv, OnWatched, AwaitedIsPolled, Mine, V, Transactions
<1>5. CASE CallLands(t.vault, t.method)
  <2>1. /\ hf' \in [Watched -> Levels] /\ cooling' \subseteq Watched \X Methods
        /\ turned' \in [Watched -> {"levered", "chased", "other"}] /\ LeveredIsSafe' /\ NoPingPong'
    BY <1>2, <1>5, CallIsSafe DEF Transactions
  <2> QED BY <1>2, <1>3, <1>4, <2>1 DEF IInv, KeeperTypeOK, Transactions
<1>6. CASE UNCHANGED chain
  BY <1>2, <1>3, <1>4, <1>6 DEF IInv, KeeperTypeOK, Transactions, LeveredIsSafe, NoPingPong, chain
<1> QED BY <1>1, <1>5, <1>6 DEF Land

LEMMA NextIInv == IInv /\ [Next]_vars => IInv'
<1> SUFFICES ASSUME IInv, [Next]_vars PROVE IInv'
    OBVIOUS
<1>1. CASE UNCHANGED vars
  BY <1>1 DEF vars, IInv, KeeperTypeOK, OnWatched, AwaitedIsPolled, Mine, LeveredIsSafe, NoPingPong, V
<1> QED BY <1>1, KeeperStepKeeps, FaultKeeps, WorldKeeps, LandingKeeps DEF Next

LEMMA IInvAlways == Spec => []IInv
BY InitIInv, NextIInv, PTL DEF Spec

-----------------------------------------------------------------------------
\* The keeper's record of a pass, its transactions and the vaults' states keep their
\* types, and past its first read a pass is on a vault that could be read.
THEOREM RebalanceKeeperTypeCorrect == Spec => [](KeeperTypeOK /\ OnWatched)
<1>1. IInv => KeeperTypeOK /\ OnWatched
  BY DEF IInv
<1> QED BY <1>1, IInvAlways, PTL

\* What a releverage did is never unwound before the market has moved, by whatever
\* call that was decided or sent earlier, for every list of vaults and every scale.
THEOREM NoPingPongAlways == Spec => []NoPingPong
<1>1. IInv => NoPingPong
  BY DEF IInv
<1> QED BY <1>1, IInvAlways, PTL
=============================================================================

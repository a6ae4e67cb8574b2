-------------------------- MODULE AlertWorkerProofs --------------------------
(***************************************************************************)
(* What subscribers get from the alert worker, for every set of            *)
(* subscriptions, assets, brackets and rates, and every order of visits,   *)
(* selects, sends, latches, failures and ends of a tick; and what a reader *)
(* of the time series collects, for every page size, whatever is written   *)
(* and pruned between two pages.                                           *)
(***************************************************************************)
EXTENDS AlertWorker, RateLog, FiniteSetTheorems, SequenceTheorems, WellFoundedInduction, TLAPS

Rows == [id : 0..2, verified : BOOLEAN, linked : BOOLEAN, active : BOOLEAN, since : 0..Floor]
Copies == [key : Keys, id : 1..2, active : BOOLEAN, since : 0..Floor]
TickStates == {"idle", "fetch", "select", "send", "latch"}
Crons == [pc : TickStates, row : 1..Len(Assets), job : 1..Jobs, seen : RateValues,
          todo : SUBSET Copies, cur : SUBSET Copies]

WorkerTypeOK ==
    /\ subs \in [Keys -> Rows]
    /\ rates \in [AssetSet -> RateValues]
    /\ cron \in Crons
    /\ mailed \in [Keys -> 0..1]
    /\ told \in [Keys -> BOOLEAN]
    /\ quiet \in [Keys -> 0..Floor]
    /\ calm \in BOOLEAN

\* The row a copy was read of is still there.
Same(c) == subs[c.key].id = c.id
\* What a tick holds: one copy per subscription, the one whose message was accepted
\* apart from those to be sent, and each of a metric that is breached as the tick saw it.
CopiesFit ==
    /\ cron.pc # "latch" => cron.cur = {}
    /\ cron.pc \notin {"send", "latch"} => cron.todo = {}
    /\ \A c, d \in InFlight : c.key = d.key => c = d
    /\ cron.cur \cap cron.todo = {} /\ \A c, d \in cron.cur : c = d
    /\ \A c \in InFlight : /\ AssetOf[c.key] = Asset
                           /\ Kind[c.key] # "hf" => NetApy(cron.seen, BracketOf[c.key]) < 0

\* A latch is of a row that was told, and so is the one about to be written.
LatchesFit ==
    /\ LatchMeansTold
    /\ \A c \in cron.cur : Same(c) => told[c.key]

\* A row that was messaged in this episode is latched, or about to be; and one about
\* to be messaged is neither.
Eligible(c) == Kind[c.key] # "hf" \/ (~c.active /\ c.since >= Floor)
Pending(k) == \E c \in cron.cur : c.key = k /\ Same(c)
MessagedIsLatched ==
    \A k \in Keys : mailed[k] = 1 => ~Present(k) \/ subs[k].active \/ Pending(k)
DueIsSilent ==
    \A c \in cron.todo : Same(c) /\ Eligible(c) =>
        ~subs[c.key].active /\ subs[c.key].since >= Floor /\ mailed[c.key] = 0
\* What the tick saw recovered starts a new episode.
RecoveredIsOver ==
    cron.pc \notin {"idle", "fetch"} =>
        \A k \in Keys : AssetOf[k] = Asset /\ Recovered(k, cron.seen) => mailed[k] = 0
\* The row's timestamp is no older than its last message, once its latch is written.
QuietIsCounted ==
    \A k \in Keys : Present(k) => quiet[k] >= subs[k].since \/ Pending(k)

IInv == /\ WorkerTypeOK /\ CopiesFit /\ LatchesFit
        /\ MessagedIsLatched /\ DueIsSilent /\ RecoveredIsOver /\ QuietIsCounted

-----------------------------------------------------------------------------
(* Facts about the tick. *)

LEMMA Constants ==
    /\ Len(Assets) \in Nat /\ Len(Assets) >= 1 /\ Jobs \in Nat /\ Jobs >= 2
    /\ Floor \in Nat /\ Floor >= 1 /\ Never = Floor
    /\ \A i \in 1..Len(Assets) : Assets[i] \in AssetSet
BY AlertAssumption DEF Jobs, Never, AssetSet

LEMMA IdleFits ==
    /\ Idle \in Crons /\ Idle.pc = "idle" /\ Idle.todo = {} /\ Idle.cur = {} /\ Idle.row = 1
<1>1. (CHOOSE r \in RateValues : TRUE) \in RateValues
  BY AlertAssumption
<1> QED BY <1>1, Constants DEF Idle, Crons, TickStates

\* Where a tick goes on: with some of the copies it held, or with none and at the
\* next job of this row or the next row.
LEMMA NextRowFits ==
    ASSUME cron \in Crons
    PROVE  /\ NextRow \in Crons /\ NextRow.pc \in {"idle", "fetch"}
           /\ NextRow.todo = {} /\ NextRow.cur = {}
<1>1. CASE cron.row = Len(Assets)
  BY <1>1, IdleFits DEF NextRow
<1>2. CASE cron.row # Len(Assets)
  <2>1. cron.row + 1 \in 1..Len(Assets)
    BY <1>2, Constants DEF Crons
  <2>2. NextRow = [Idle EXCEPT !.pc = "fetch", !.row = cron.row + 1]
    BY <1>2 DEF NextRow
  <2> QED BY <2>1, <2>2, IdleFits DEF Crons, TickStates
<1> QED BY <1>1, <1>2

LEMMA NextJobFits ==
    ASSUME cron \in Crons
    PROVE  /\ NextJob \in Crons /\ NextJob.todo = {} /\ NextJob.cur = {}
           /\ \/ NextJob.pc \in {"idle", "fetch"}
              \/ NextJob.pc = "select" /\ NextJob.row = cron.row /\ NextJob.seen = cron.seen
<1>1. CASE cron.job = Jobs
  BY <1>1, NextRowFits DEF NextJob
<1>2. CASE cron.job # Jobs
  <2>1. cron.job + 1 \in 1..Jobs
    BY <1>2, Constants DEF Crons
  <2>2. NextJob = [cron EXCEPT !.pc = "select", !.job = cron.job + 1, !.todo = {}, !.cur = {}]
    BY <1>2 DEF NextJob
  <2> QED BY <2>1, <2>2 DEF Crons, TickStates
<1> QED BY <1>1, <1>2

LEMMA ProceedFits ==
    ASSUME cron \in Crons, NEW rest \in SUBSET Copies
    PROVE  /\ Proceed(rest) \in Crons /\ Proceed(rest).cur = {}
           /\ Proceed(rest).todo \subseteq rest
           /\ \/ Proceed(rest).pc \in {"idle", "fetch"} /\ Proceed(rest).todo = {}
              \/ /\ Proceed(rest).pc \in {"select", "send"}
                 /\ Proceed(rest).pc = "select" => Proceed(rest).todo = {}
                 /\ Proceed(rest).row = cron.row /\ Proceed(rest).seen = cron.seen
<1>1. CASE rest = {}
  BY <1>1, NextJobFits DEF Proceed
<1>2. CASE rest # {}
  BY <1>2 DEF Proceed, Crons, TickStates
<1> QED BY <1>1, <1>2

\* A metric is not breached and recovered at once.
LEMMA BreachedOrRecovered ==
    ASSUME NEW k \in Keys, NEW r \in RateValues, Breached(k, r)
    PROVE  ~Recovered(k, r)
<1>0. /\ Kind[k] \in {"apy", "hf", "push"} /\ BracketOf[k] \in Nat /\ Threshold[k] \in Nat
      /\ {r.supply, r.cost, r.cf, r.lf} \subseteq Int
  BY AlertAssumption
<1>1. CASE Kind[k] = "hf"
  <2> DEFINE b == BracketOf[k]   t == Threshold[k]   w == b * r.cf * r.lf
  <2>1. b > 1 /\ w < t * (b - 1)
    <3>1. ~(b <= 1 \/ w >= t * (b - 1))
      BY <1>1 DEF Breached, HfAtLeast
    <3>2. w \in Int /\ t * (b - 1) \in Int
      BY <1>0, SMT
    <3> QED BY <1>0, <3>1, <3>2
  <2>2. (t + 200) * (b - 1) = t * (b - 1) + 200 * (b - 1)
    BY <1>0, Z3
  <2>3. w \in Int /\ t * (b - 1) \in Int /\ b \in Nat
    BY <1>0, Z3
  <2>4. ~(b <= 1 \/ w >= (t + 200) * (b - 1))
    <3> HIDE DEF w, t, b
    <3>1. t \in Int
      BY <1>0 DEF t
    <3>2. 200 * (b - 1) >= 200
      BY <2>1, <2>3
    <3> QED BY <2>1, <2>2, <2>3, <3>1, <3>2
  <2> QED BY <1>1, <2>4 DEF Recovered, HfAtLeast, HF_REARM_MARGIN
<1>2. CASE Kind[k] # "hf"
  <2> DEFINE n == NetApy(r, BracketOf[k])
  <2>1. n \in Int
    BY <1>0, Z3 DEF NetApy
  <2> HIDE DEF n
  <2>2. n < 0 /\ (Recovered(k, r) => n >= 25)
    BY <1>2 DEF Breached, Recovered, n, APY_REARM_MARGIN
  <2> QED BY <2>1, <2>2
<1> QED BY <1>1, <1>2

\* An UPDATE by id writes the row the copy was read of, or nothing.
LEMMA FreshFits ==
    ASSUME IInv, NEW k \in Keys
    PROVE  /\ FreshId(k) \in 1..2
           /\ \A c \in InFlight : c.key = k => c.id # FreshId(k)
<1>1. InFlight \subseteq Copies
  BY DEF IInv, WorkerTypeOK, Crons, InFlight
<1>2. \A c, d \in InFlight : c.key = d.key => c = d
  BY DEF IInv, CopiesFit
<1> QED BY <1>1, <1>2 DEF FreshId, Copies

-----------------------------------------------------------------------------
LEMMA InitIInv == Init => IInv
<1> SUFFICES ASSUME Init PROVE IInv
    OBVIOUS
<1>1. /\ subs = [k \in Keys |-> NoRow] /\ rates \in [AssetSet -> RateValues] /\ cron = Idle
      /\ mailed = [k \in Keys |-> 0] /\ told = [k \in Keys |-> FALSE]
      /\ quiet = [k \in Keys |-> Never] /\ calm = FALSE
  BY DEF Init
<1>2. NoRow \in Rows /\ NoRow.id = 0 /\ NoRow.active = FALSE
  BY Constants DEF NoRow, Rows
<1>3. WorkerTypeOK
  <2>1. cron \in Crons
    BY <1>1, IdleFits
  <2>2. subs \in [Keys -> Rows] /\ mailed \in [Keys -> 0..1] /\ told \in [Keys -> BOOLEAN]
    BY <1>1, <1>2
  <2>3. quiet \in [Keys -> 0..Floor]
    BY <1>1, Constants
  <2> QED BY <1>1, <2>1, <2>2, <2>3 DEF WorkerTypeOK
<1>4. CopiesFit /\ LatchesFit /\ MessagedIsLatched /\ DueIsSilent /\ RecoveredIsOver /\ QuietIsCounted
  BY <1>1, <1>2, IdleFits DEF CopiesFit, LatchesFit, LatchMeansTold, MessagedIsLatched, DueIsSilent,
                               RecoveredIsOver, QuietIsCounted, InFlight, Present
<1> QED BY <1>3, <1>4 DEF IInv

-----------------------------------------------------------------------------
(* Visits, which may come between any two steps of a tick. *)

LEMMA UpsertKeeps ==
    ASSUME IInv, NEW k \in Keys, NEW v \in BOOLEAN, NEW l \in BOOLEAN,
           Upsert(k, [verified |-> v, linked |-> l])
    PROVE  IInv'
<1> DEFINE row == [id |-> IF Present(k) THEN subs[k].id ELSE FreshId(k),
                   verified |-> v, linked |-> l, active |-> FALSE, since |-> Never]
<1>1. /\ subs' = [subs EXCEPT ![k] = row] /\ mailed' = [mailed EXCEPT ![k] = 0]
      /\ quiet' = [quiet EXCEPT ![k] = Never] /\ told' = [told EXCEPT ![k] = Present(k) /\ told[k]]
      /\ UNCHANGED <<rates, cron, calm>>
  BY DEF Upsert
<1>2. WorkerTypeOK /\ CopiesFit
  BY DEF IInv
<1>3. row \in Rows /\ row.active = FALSE /\ row.since = Floor
  BY <1>2, FreshFits, Constants DEF WorkerTypeOK, Rows, Present
<1>4. \A c \in InFlight : c.key = k /\ c.id = row.id => Present(k) /\ Same(c)
  BY FreshFits DEF Same
<1> HIDE DEF row
<1>5. WorkerTypeOK'
  BY <1>1, <1>2, <1>3, Constants DEF WorkerTypeOK
<1>6. CopiesFit'
  BY <1>1, <1>2 DEF CopiesFit, InFlight, Asset
<1>7. \A c \in InFlight : Same(c)' => Same(c) /\ (c.key = k => Present(k))
  BY <1>1, <1>2, <1>4 DEF Same, WorkerTypeOK, InFlight, Crons, Copies
<1>8. LatchesFit'
  BY <1>1, <1>2, <1>3, <1>7 DEF IInv, LatchesFit, LatchMeansTold, WorkerTypeOK, InFlight, Crons, Copies
<1>9. MessagedIsLatched' /\ QuietIsCounted'
  <2>1. ASSUME NEW j \in Keys, j # k, Pending(j) PROVE Pending(j)'
    BY <1>1, <1>2, <2>1 DEF Pending, Same, WorkerTypeOK
  <2> QED BY <1>1, <1>2, <1>3, <2>1, Constants
          DEF IInv, MessagedIsLatched, QuietIsCounted, WorkerTypeOK, Present
<1>10. DueIsSilent'
  BY <1>1, <1>2, <1>3, <1>7, Constants DEF IInv, DueIsSilent, WorkerTypeOK, InFlight, Crons, Copies, Eligible
<1>11. RecoveredIsOver'
  BY <1>1, <1>2 DEF IInv, RecoveredIsOver, WorkerTypeOK, Asset
<1> QED BY <1>5, <1>6, <1>8, <1>9, <1>10, <1>11 DEF IInv

\* A row that goes, or changes what no invariant depends on.
LEMMA RowKeeps ==
    ASSUME IInv, NEW k \in Keys, NEW row \in Rows, subs' = [subs EXCEPT ![k] = row],
           row.id = 0 \/ (row.id = subs[k].id /\ row.active = subs[k].active /\ row.since = subs[k].since),
           row.id = 0 => ~row.active,
           UNCHANGED <<rates, ghosts, calm, cron>>
    PROVE  IInv'
<1>2. WorkerTypeOK /\ CopiesFit
  BY DEF IInv
<1>5. WorkerTypeOK'
  BY <1>2 DEF WorkerTypeOK, ghosts
<1>6. CopiesFit'
  BY <1>2 DEF CopiesFit, InFlight, Asset
<1>7. ASSUME NEW c \in InFlight, Same(c)' PROVE Same(c)
  <2>1. c \in Copies /\ subs \in [Keys -> Rows]
    BY <1>2 DEF WorkerTypeOK, InFlight, Crons
  <2>2. c.id # 0 /\ c.key \in Keys
    BY <2>1 DEF Copies
  <2>3. CASE c.key = k
    BY <1>7, <2>1, <2>2, <2>3 DEF Same
  <2>4. CASE c.key # k
    BY <1>7, <2>1, <2>2, <2>4 DEF Same
  <2> QED BY <2>3, <2>4
<1>8. LatchesFit'
  BY <1>2, <1>7 DEF IInv, LatchesFit, LatchMeansTold, WorkerTypeOK, InFlight, ghosts
<1>9. MessagedIsLatched' /\ QuietIsCounted'
  <2>1. ASSUME NEW j \in Keys, Present(j)', Pending(j) PROVE Pending(j)'
    BY <1>2, <2>1 DEF Pending, Same, WorkerTypeOK, Present
  <2> QED BY <1>2, <2>1 DEF IInv, MessagedIsLatched, QuietIsCounted, WorkerTypeOK, Present, ghosts
<1>10. DueIsSilent'
  BY <1>2, <1>7 DEF IInv, DueIsSilent, WorkerTypeOK, InFlight, Crons, Copies, Eligible, ghosts, Same
<1>11. RecoveredIsOver'
  BY <1>2 DEF IInv, RecoveredIsOver, Asset, ghosts
<1> QED BY <1>5, <1>6, <1>8, <1>9, <1>10, <1>11 DEF IInv

LEMMA VisitorKeeps == ASSUME IInv, Visitor PROVE IInv'
<1>0. subs \in [Keys -> Rows] /\ NoRow \in Rows /\ NoRow.id = 0 /\ ~NoRow.active
  BY Constants DEF IInv, WorkerTypeOK, NoRow, Rows
<1>1. PICK k \in Keys : \/ Subscribe(k) \/ Verify(k) \/ Unsubscribe(k)
                         \/ PushSubscribe(k) \/ PushUnsubscribe(k)
  BY DEF Visitor
<1>2. CASE Subscribe(k) \/ PushSubscribe(k)
  BY <1>2, UpsertKeeps DEF Subscribe, PushSubscribe
<1>3. CASE Verify(k)
  <2>1. /\ subs' = [subs EXCEPT ![k] = [subs[k] EXCEPT !.verified = TRUE, !.linked = FALSE]]
        /\ UNCHANGED <<rates, ghosts, calm, cron>>
    BY <1>0, <1>3 DEF Verify
  <2> DEFINE row == [subs[k] EXCEPT !.verified = TRUE, !.linked = FALSE]
  <2>2. /\ row \in Rows /\ row.id = subs[k].id /\ row.active = subs[k].active
        /\ row.since = subs[k].since /\ row.id # 0
    BY <1>0, <1>3 DEF Rows, Verify, Present
  <2> HIDE DEF row
  <2> QED BY <2>1, <2>2, RowKeeps DEF row
<1>4. CASE Unsubscribe(k) \/ PushUnsubscribe(k)
  BY <1>0, <1>4, RowKeeps DEF Unsubscribe, PushUnsubscribe, Drop
<1> QED BY <1>1, <1>2, <1>3, <1>4

-----------------------------------------------------------------------------
(* The tick. *)

\* What a step without a message may do to a row: nothing, delete it, or clear the
\* latch of one that starts a new episode.
Settles(k) ==
    \/ subs'[k] = subs[k]
    \/ subs'[k].id = 0 /\ ~subs'[k].active
    \/ /\ subs'[k].id = subs[k].id /\ ~subs'[k].active
       /\ subs'[k].since = subs[k].since /\ mailed[k] = 0

LEMMA TickMoves ==
    ASSUME IInv, cron.cur = {}, cron' \in Crons, cron'.cur = {}, cron'.todo \subseteq cron.todo,
           \/ cron'.pc \in {"idle", "fetch"} /\ cron'.todo = {}
           \/ /\ cron'.pc \in {"select", "send"} /\ cron.pc \notin {"idle", "fetch"}
              /\ cron'.pc = "select" => cron'.todo = {}
              /\ cron'.row = cron.row /\ cron'.seen = cron.seen,
           subs' \in [Keys -> Rows], told' \in [Keys -> BOOLEAN], UNCHANGED <<rates, mailed, quiet, calm>>,
           \A k \in Keys : Settles(k) /\ (told'[k] = told[k] \/ ~subs'[k].active)
    PROVE  IInv'
<1>1. WorkerTypeOK /\ CopiesFit
  BY DEF IInv
<1>2. WorkerTypeOK'
  BY <1>1 DEF WorkerTypeOK
<1>3. CopiesFit'
  BY <1>1 DEF CopiesFit, InFlight, Asset
<1>4. LatchesFit'
  BY DEF IInv, LatchesFit, LatchMeansTold, Settles
<1>5. MessagedIsLatched' /\ QuietIsCounted'
  BY <1>1 DEF IInv, MessagedIsLatched, QuietIsCounted, Settles, Pending, Present
<1>6. ASSUME NEW c \in cron.todo, Same(c)'
      PROVE  Same(c) /\ (subs'[c.key] = subs[c.key] \/ (~subs'[c.key].active /\ subs'[c.key].since = subs[c.key].since))
  <2>1. c.key \in Keys /\ c.id # 0
    BY <1>1 DEF WorkerTypeOK, Crons, Copies
  <2> QED BY <1>6, <2>1 DEF Same, Settles
<1>7. DueIsSilent'
  BY <1>6 DEF IInv, DueIsSilent, Eligible
<1>8. RecoveredIsOver'
  BY <1>1 DEF IInv, RecoveredIsOver, Asset
<1> QED BY <1>2, <1>3, <1>4, <1>5, <1>7, <1>8 DEF IInv

LEMMA StartTickKeeps == ASSUME IInv, StartTick PROVE IInv'
<1>1. /\ WorkerTypeOK /\ CopiesFit /\ cron.pc = "idle" /\ cron.cur = {} /\ cron.todo = {}
  BY DEF IInv, CopiesFit, StartTick
<1>2. /\ subs' = [k \in Keys |-> [subs[k] EXCEPT !.since = Older(subs[k].since)]]
      /\ quiet' = [k \in Keys |-> Older(quiet[k])] /\ UNCHANGED <<rates, mailed, told, calm>>
  BY <1>1 DEF StartTick, WorkerTypeOK, Rows
<1>3. cron' \in Crons /\ cron'.pc = "fetch" /\ cron'.cur = {} /\ cron'.todo = {}
  BY IdleFits DEF StartTick, Crons, TickStates
<1>4. \A n \in 0..Floor : Older(n) \in 0..Floor /\ \A m \in 0..Floor : n >= m => Older(n) >= Older(m)
  BY Constants DEF Older
<1>5. \A k \in Keys : /\ subs'[k] \in Rows /\ subs'[k].id = subs[k].id /\ subs'[k].active = subs[k].active
                      /\ subs'[k].since = Older(subs[k].since) /\ quiet'[k] \in 0..Floor
  BY <1>1, <1>2, <1>4 DEF WorkerTypeOK, Rows
<1>6. WorkerTypeOK'
  BY <1>1, <1>2, <1>3, <1>5 DEF WorkerTypeOK
<1>7. CopiesFit' /\ DueIsSilent' /\ RecoveredIsOver'
  BY <1>3 DEF CopiesFit, DueIsSilent, RecoveredIsOver, InFlight
<1>8. LatchesFit'
  BY <1>2, <1>3, <1>5 DEF IInv, LatchesFit, LatchMeansTold
<1>9. MessagedIsLatched'
  BY <1>1, <1>2, <1>3, <1>5 DEF IInv, MessagedIsLatched, Pending, Present
<1>10. QuietIsCounted'
  <2>1. ASSUME NEW k \in Keys, Present(k)' PROVE quiet'[k] >= subs'[k].since
    <3>1. Present(k) /\ ~Pending(k)
      BY <1>1, <1>5, <2>1 DEF Present, Pending
    <3>2. quiet[k] >= subs[k].since /\ quiet[k] \in 0..Floor /\ subs[k].since \in 0..Floor
      BY <1>1, <3>1 DEF IInv, QuietIsCounted, WorkerTypeOK, Rows
    <3> QED BY <1>2, <1>4, <1>5, <3>2
  <2> QED BY <2>1 DEF QuietIsCounted
<1> QED BY <1>6, <1>7, <1>8, <1>9, <1>10 DEF IInv

LEMMA FetchKeeps == ASSUME IInv, NEW a \in AssetSet, Fetch(a) PROVE IInv'
<1>1. /\ WorkerTypeOK /\ CopiesFit /\ cron.pc = "fetch" /\ cron.cur = {} /\ cron.todo = {} /\ Asset = a
  BY DEF IInv, CopiesFit, Fetch
<1>2. /\ cron' = [cron EXCEPT !.pc = "select", !.seen = rates[a]] /\ UNCHANGED <<subs, rates, told, quiet, calm>>
      /\ mailed' = [k \in Keys |-> IF AssetOf[k] = a /\ Recovered(k, rates[a]) THEN 0 ELSE mailed[k]]
  BY DEF Fetch
<1>3. /\ cron' \in Crons /\ cron'.pc = "select" /\ cron'.cur = {} /\ cron'.todo = {}
      /\ cron'.row = cron.row /\ cron'.seen = rates[a]
  BY <1>1, <1>2 DEF WorkerTypeOK, Crons, TickStates
<1>4. WorkerTypeOK'
  BY <1>1, <1>2, <1>3 DEF WorkerTypeOK
<1>5. CopiesFit' /\ DueIsSilent' /\ LatchesFit'
  BY <1>2, <1>3 DEF IInv, CopiesFit, DueIsSilent, LatchesFit, LatchMeansTold, InFlight
<1>6. MessagedIsLatched' /\ QuietIsCounted'
  BY <1>1, <1>2, <1>3 DEF IInv, MessagedIsLatched, QuietIsCounted, Pending, Present, WorkerTypeOK
<1>7. RecoveredIsOver'
  BY <1>1, <1>2, <1>3 DEF RecoveredIsOver, Asset
<1> QED BY <1>4, <1>5, <1>6, <1>7 DEF IInv

\* A copy says what the row said when the tick selected it.
LEMMA SelectKeeps ==
    ASSUME IInv, NEW a \in AssetSet, NEW j \in 1..Jobs, Select(a, j)
    PROVE  IInv'
<1>1. /\ WorkerTypeOK /\ CopiesFit /\ cron.pc = "select" /\ cron.cur = {} /\ cron.todo = {} /\ Asset = a
  BY DEF IInv, CopiesFit, Select
<1>2. UNCHANGED <<subs, rates, mailed, told, quiet, calm>>
  BY DEF Select, ghosts
<1>3. PICK ks \in SUBSET Keys :
        /\ cron' = Proceed({Copy(k) : k \in ks})
        /\ \A k \in ks : /\ Present(k) /\ AssetOf[k] = Asset
                         /\ Kind[k] # "hf" => /\ NetApy(cron.seen, BracketOf[k]) < 0
                                              /\ ~subs[k].active /\ subs[k].since >= Floor
  <2> DEFINE ks == IF JobKind(j) = "hf" THEN Watching("hf", a)
                   ELSE IF NetApy(cron.seen, JobBracket(j)) < 0 THEN Due(JobKind(j), a, JobBracket(j))
                   ELSE {}
  <2>1. cron' = Proceed({Copy(k) : k \in ks})
    BY DEF Select
  <2>2. ks \in SUBSET Keys
    BY DEF Watching, Due
  <2>3. ASSUME NEW k \in ks
        PROVE  /\ Present(k) /\ AssetOf[k] = Asset
               /\ Kind[k] # "hf" => /\ NetApy(cron.seen, BracketOf[k]) < 0
                                    /\ ~subs[k].active /\ subs[k].since >= Floor
    BY <1>1, <2>3 DEF Watching, Due
  <2> HIDE DEF ks
  <2> QED BY <2>1, <2>2, <2>3
<1> DEFINE copies == {Copy(k) : k \in ks}
<1>4. \A k \in ks : /\ Copy(k) \in Copies /\ Copy(k).key = k /\ Copy(k).id = subs[k].id
                    /\ Copy(k).active = subs[k].active /\ Copy(k).since = subs[k].since
  BY <1>1, <1>3 DEF Copy, Copies, WorkerTypeOK, Rows, Present
<1>5. /\ copies \in SUBSET Copies
      /\ \A c \in copies : c = Copy(c.key) /\ c.key \in ks
  BY <1>4
<1> HIDE DEF copies
<1>6. /\ cron' \in Crons /\ cron'.cur = {} /\ cron'.todo \subseteq copies
      /\ \/ cron'.pc \in {"idle", "fetch"} /\ cron'.todo = {}
         \/ /\ cron'.pc \in {"select", "send"}
            /\ cron'.pc = "select" => cron'.todo = {}
            /\ cron'.row = cron.row /\ cron'.seen = cron.seen
  BY <1>1, <1>3, <1>5, ProceedFits DEF WorkerTypeOK, copies
<1>7. WorkerTypeOK'
  BY <1>1, <1>2, <1>6 DEF WorkerTypeOK
<1>8. CopiesFit'
  <2>1. \A c \in copies : AssetOf[c.key] = Asset /\ (Kind[c.key] # "hf" => NetApy(cron.seen, BracketOf[c.key]) < 0)
    BY <1>3, <1>5
  <2>2. \A c, d \in copies : c.key = d.key => c = d
    BY <1>5
  <2> QED BY <1>6, <2>1, <2>2 DEF CopiesFit, InFlight, Asset
<1>9. LatchesFit' /\ MessagedIsLatched' /\ QuietIsCounted'
  BY <1>1, <1>2, <1>6 DEF IInv, LatchesFit, LatchMeansTold, MessagedIsLatched, QuietIsCounted, Pending, Present
<1>10. DueIsSilent'
  <2>1. ASSUME NEW c \in copies, Eligible(c)
        PROVE  ~subs[c.key].active /\ subs[c.key].since >= Floor /\ mailed[c.key] = 0
    <3>1. c.key \in ks /\ c.active = subs[c.key].active /\ c.since = subs[c.key].since
      BY <1>4, <1>5
    <3>2. ~subs[c.key].active /\ subs[c.key].since >= Floor /\ Present(c.key)
      BY <1>3, <2>1, <3>1 DEF Eligible
    <3>3. mailed[c.key] = 0
      BY <1>1, <3>1, <3>2 DEF IInv, MessagedIsLatched, Pending, WorkerTypeOK
    <3> QED BY <3>2, <3>3
  <2> QED BY <1>2, <1>6, <2>1 DEF DueIsSilent, Eligible
<1>11. RecoveredIsOver'
  BY <1>1, <1>2, <1>6 DEF IInv, RecoveredIsOver, Asset
<1> QED BY <1>7, <1>8, <1>9, <1>10, <1>11 DEF IInv

LEMMA RearmKeeps == ASSUME IInv, NEW a \in AssetSet, Rearm(a) PROVE IInv'
<1>1. /\ WorkerTypeOK /\ CopiesFit /\ cron.pc = "select" /\ cron.cur = {} /\ cron.todo = {} /\ Asset = a
  BY DEF IInv, CopiesFit, Rearm
<1>2. /\ subs' = [k \in Keys |-> [subs[k] EXCEPT !.active = subs[k].active /\ k \notin Rearmed(a)]]
      /\ told' = [k \in Keys |-> told[k] /\ k \notin Rearmed(a)]
      /\ cron' = NextJob /\ UNCHANGED <<rates, mailed, quiet, calm>>
  BY <1>1 DEF Rearm, WorkerTypeOK, Rows
<1>3. \A k \in Rearmed(a) : mailed[k] = 0
  BY <1>1 DEF IInv, RecoveredIsOver, Rearmed, Recovered
<1>4. /\ subs' \in [Keys -> Rows]
      /\ \A k \in Keys : /\ subs'[k].id = subs[k].id /\ subs'[k].since = subs[k].since
                         /\ subs'[k].active = (subs[k].active /\ k \notin Rearmed(a))
                         /\ k \notin Rearmed(a) => subs'[k] = subs[k]
  BY <1>1, <1>2 DEF WorkerTypeOK, Rows
<1>5. \A k \in Keys : Settles(k) /\ (told'[k] = told[k] \/ ~subs'[k].active)
  BY <1>1, <1>2, <1>3, <1>4 DEF Settles, WorkerTypeOK
<1>6. told' \in [Keys -> BOOLEAN]
  BY <1>1, <1>2 DEF WorkerTypeOK
<1> QED BY <1>1, <1>2, <1>4, <1>5, <1>6, NextJobFits, TickMoves DEF WorkerTypeOK

\* A step that goes on past a copy with, at most, its row settled.
LEMMA PassingKeeps ==
    ASSUME IInv, NEW c \in cron.todo, cron.pc = "send", cron' = Proceed(cron.todo \ {c}),
           subs' \in [Keys -> Rows], told' \in [Keys -> BOOLEAN], UNCHANGED <<rates, mailed, quiet, calm>>,
           \A k \in Keys : Settles(k) /\ (told'[k] = told[k] \/ ~subs'[k].active)
    PROVE  IInv'
<1>1. cron \in Crons /\ cron.todo \subseteq Copies /\ cron.cur = {}
  BY DEF IInv, WorkerTypeOK, CopiesFit, Crons
<1>2. cron.todo \ {c} \in SUBSET Copies
  BY <1>1
<1> QED BY <1>1, <1>2, ProceedFits, TickMoves

LEMMA PassHfKeeps == ASSUME IInv, NEW c \in InFlight, PassHf(c) PROVE IInv'
<1>1. /\ WorkerTypeOK /\ CopiesFit /\ cron.pc = "send" /\ c \in cron.todo /\ c \in Copies
  BY DEF IInv, PassHf, WorkerTypeOK, Crons
<1> DEFINE rearms == c.active /\ Recovered(c.key, cron.seen)
<1>2. /\ subs' = IF rearms THEN WithRow(c, LAMBDA s : [s EXCEPT !.active = FALSE]) ELSE subs
      /\ told' = [told EXCEPT ![c.key] = told[c.key] /\ ~(rearms /\ Same(c))]
      /\ cron' = Proceed(cron.todo \ {c}) /\ UNCHANGED <<rates, mailed, quiet, calm>>
  BY DEF PassHf, Same
<1>3. told' \in [Keys -> BOOLEAN] /\ c.key \in Keys
  BY <1>1, <1>2 DEF WorkerTypeOK, Copies
<1>4. CASE rearms /\ Same(c)
  <2>1. subs' = [subs EXCEPT ![c.key] = [subs[c.key] EXCEPT !.active = FALSE]]
    BY <1>2, <1>4 DEF WithRow, Same
  <2>2. mailed[c.key] = 0
    BY <1>1, <1>3, <1>4 DEF IInv, RecoveredIsOver, CopiesFit, InFlight
  <2> DEFINE row == [subs[c.key] EXCEPT !.active = FALSE]
  <2>a. subs \in [Keys -> Rows] /\ subs[c.key] \in Rows /\ told \in [Keys -> BOOLEAN]
    BY <1>1, <1>3 DEF WorkerTypeOK
  <2>b. row \in Rows /\ row.id = subs[c.key].id /\ ~row.active /\ row.since = subs[c.key].since
    BY <2>a DEF Rows
  <2> HIDE DEF row
  <2>c. subs' = [subs EXCEPT ![c.key] = row]
    BY <2>1 DEF row
  <2>3. subs' \in [Keys -> Rows] /\ \A k \in Keys : Settles(k) /\ (told'[k] = told[k] \/ ~subs'[k].active)
    BY <1>2, <1>3, <2>2, <2>a, <2>b, <2>c DEF Settles
  <2> QED BY <1>1, <1>2, <1>3, <2>3, PassingKeeps
<1>5. CASE ~(rearms /\ Same(c))
  <2>1. subs' = subs /\ told' = told
    BY <1>1, <1>2, <1>5 DEF WithRow, Same, WorkerTypeOK
  <2> QED BY <1>1, <1>2, <2>1, PassingKeeps DEF Settles, WorkerTypeOK
<1> QED BY <1>4, <1>5

LEMMA RefusedKeeps == ASSUME IInv, NEW c \in InFlight, Refused(c) \/ Gone(c) PROVE IInv'
<1>1. /\ WorkerTypeOK /\ cron.pc = "send" /\ c \in cron.todo /\ c.key \in Keys
      /\ cron' = Proceed(cron.todo \ {c}) /\ UNCHANGED <<rates, ghosts, calm>>
  BY DEF IInv, Refused, Gone, WorkerTypeOK, Crons, Copies
<1>2. NoRow \in Rows /\ NoRow.id = 0 /\ ~NoRow.active
  BY Constants DEF NoRow, Rows
<1>3. subs' = subs \/ subs' = [subs EXCEPT ![c.key] = NoRow]
  BY DEF Refused, Gone, WithRow
<1>4. subs' \in [Keys -> Rows] /\ \A k \in Keys : Settles(k)
  BY <1>1, <1>2, <1>3 DEF WorkerTypeOK, Settles
<1> QED BY <1>1, <1>4, PassingKeeps DEF WorkerTypeOK, ghosts

\* A message is sent only where the episode has had none and the floor is over.
LEMMA SendIsDue ==
    ASSUME IInv, NEW c \in cron.todo, cron.pc = "send", Sends(c)
    PROVE  /\ c.key \in Keys /\ ~Recovered(c.key, cron.seen)
           /\ Same(c) => /\ Present(c.key) /\ ~subs[c.key].active
                         /\ subs[c.key].since >= Floor /\ mailed[c.key] = 0
<1>1. /\ c \in Copies /\ c.key \in Keys /\ c.id # 0 /\ cron.seen \in RateValues
  BY DEF IInv, WorkerTypeOK, Crons, Copies
<1>2. Eligible(c) /\ Breached(c.key, cron.seen)
  BY DEF IInv, CopiesFit, Eligible, Sends, HfDue, Breached, InFlight
<1> QED BY <1>1, <1>2, BreachedOrRecovered DEF IInv, DueIsSilent, Same, Present

LEMMA AcceptedKeeps == ASSUME IInv, NEW c \in InFlight, Accepted(c) PROVE IInv'
<1>1. /\ WorkerTypeOK /\ CopiesFit /\ cron.pc = "send" /\ cron.cur = {} /\ c \in cron.todo
      /\ c \in Copies /\ c.key \in Keys /\ Sends(c)
  BY DEF IInv, CopiesFit, Accepted, WorkerTypeOK, Crons, Copies
<1>2. /\ cron' = [cron EXCEPT !.pc = "latch", !.cur = {c}, !.todo = cron.todo \ {c}]
      /\ UNCHANGED <<subs, rates, calm>>
  BY <1>1 DEF Accepted
<1>3. /\ cron' \in Crons /\ cron'.pc = "latch" /\ cron'.cur = {c} /\ cron'.todo = cron.todo \ {c}
      /\ cron'.row = cron.row /\ cron'.seen = cron.seen
  BY <1>1, <1>2 DEF WorkerTypeOK, Crons, TickStates
<1>4. CopiesFit'
  BY <1>1, <1>3 DEF CopiesFit, InFlight, Asset
<1>5. \A d \in cron'.todo : d.key # c.key
  BY <1>1, <1>3 DEF CopiesFit, InFlight
<1>6. CASE Same(c)
  <2>1. /\ mailed' = [mailed EXCEPT ![c.key] = 1] /\ told' = [told EXCEPT ![c.key] = TRUE]
        /\ quiet' = [quiet EXCEPT ![c.key] = 0]
    BY <1>1, <1>6, SendIsDue DEF Accepted, Same
  <2>2. WorkerTypeOK'
    BY <1>1, <1>2, <1>3, <2>1, Constants DEF WorkerTypeOK
  <2>3. LatchesFit'
    BY <1>1, <1>2, <1>3, <2>1 DEF IInv, LatchesFit, LatchMeansTold, WorkerTypeOK
  <2>4. Pending(c.key)'
    BY <1>2, <1>3, <1>6 DEF Pending, Same
  <2>5. MessagedIsLatched' /\ QuietIsCounted'
    BY <1>1, <1>2, <1>3, <2>1, <2>4 DEF IInv, MessagedIsLatched, QuietIsCounted, WorkerTypeOK, Present, Pending
  <2>6. DueIsSilent'
    BY <1>1, <1>2, <1>3, <1>5, <2>1 DEF IInv, DueIsSilent, Same, Eligible, WorkerTypeOK, Crons, Copies
  <2>7. RecoveredIsOver'
    BY <1>1, <1>3, <2>1, SendIsDue DEF IInv, RecoveredIsOver, Asset, WorkerTypeOK
  <2> QED BY <1>4, <2>2, <2>3, <2>5, <2>6, <2>7 DEF IInv
<1>7. CASE ~Same(c)
  <2>1. UNCHANGED ghosts
    BY <1>7 DEF Accepted, Same
  <2>2. WorkerTypeOK' /\ LatchesFit'
    BY <1>1, <1>2, <1>3, <1>7, <2>1 DEF IInv, WorkerTypeOK, LatchesFit, LatchMeansTold, ghosts, Same
  <2>3. MessagedIsLatched' /\ QuietIsCounted' /\ DueIsSilent'
    BY <1>1, <1>2, <1>3, <2>1
       DEF IInv, MessagedIsLatched, QuietIsCounted, DueIsSilent, Present, Pending, Same, Eligible, ghosts
  <2>4. RecoveredIsOver'
    BY <1>1, <1>3, <2>1 DEF IInv, RecoveredIsOver, Asset, ghosts
  <2> QED BY <1>4, <2>2, <2>3, <2>4 DEF IInv
<1> QED BY <1>6, <1>7

\* The UPDATE that latches: by now the row may be another one, or gone.
LEMMA LatchKeeps == ASSUME IInv, NEW c \in InFlight, Latch(c) PROVE IInv'
<1>1. /\ WorkerTypeOK /\ CopiesFit /\ cron.pc = "latch" /\ c \in cron.cur
      /\ c \in Copies /\ c.key \in Keys /\ c.id # 0
  BY DEF IInv, Latch, WorkerTypeOK, Crons, Copies
<1>2. /\ subs' = WithRow(c, LAMBDA s : [s EXCEPT !.active = TRUE, !.since = 0])
      /\ cron' = Proceed(cron.todo) /\ UNCHANGED <<rates, mailed, told, quiet, calm>>
  BY DEF Latch, ghosts
<1>3. /\ cron' \in Crons /\ cron'.cur = {} /\ cron'.todo \subseteq cron.todo
      /\ \/ cron'.pc \in {"idle", "fetch"} /\ cron'.todo = {}
         \/ /\ cron'.pc \in {"select", "send"}
            /\ cron'.pc = "select" => cron'.todo = {}
            /\ cron'.row = cron.row /\ cron'.seen = cron.seen
  <2>1. cron \in Crons /\ cron.todo \in SUBSET Copies
    BY <1>1 DEF WorkerTypeOK, Crons
  <2> QED BY <1>2, <2>1, ProceedFits
<1>4. /\ \A d \in cron.cur : d = c \/ d.key # c.key
      /\ \A d \in cron.todo : d.key # c.key
  BY <1>1 DEF CopiesFit, InFlight
<1>5. CopiesFit' /\ RecoveredIsOver'
  BY <1>1, <1>2, <1>3 DEF IInv, CopiesFit, RecoveredIsOver, InFlight, Asset
<1>6. /\ subs' \in [Keys -> Rows]
      /\ \A k \in Keys : /\ subs'[k].id = subs[k].id
                         /\ k # c.key \/ ~Same(c) => subs'[k] = subs[k]
                         /\ k = c.key /\ Same(c) => subs'[k].active /\ subs'[k].since = 0
  <2>1. CASE Same(c)
    <3> DEFINE row == [subs[c.key] EXCEPT !.active = TRUE, !.since = 0]
    <3>1. subs \in [Keys -> Rows] /\ subs[c.key] \in Rows
      BY <1>1 DEF WorkerTypeOK
    <3>2. row \in Rows /\ row.id = subs[c.key].id /\ row.active /\ row.since = 0
      <4>1. 0 \in 0..Floor
        BY Constants
      <4> QED BY <3>1, <4>1 DEF Rows
    <3>3. subs' = [subs EXCEPT ![c.key] = row]
      BY <1>2, <2>1 DEF WithRow, Same
    <3> HIDE DEF row
    <3> QED BY <1>1, <2>1, <3>1, <3>2, <3>3
  <2>2. CASE ~Same(c)
    BY <1>1, <1>2, <2>2 DEF WithRow, Same, WorkerTypeOK
  <2> QED BY <2>1, <2>2
<1>7. \A k \in Keys : Pending(k) => k = c.key /\ Same(c)
  BY <1>1 DEF CopiesFit, Pending
<1>8. WorkerTypeOK'
  BY <1>1, <1>2, <1>3, <1>6 DEF WorkerTypeOK
<1>9. LatchesFit'
  BY <1>1, <1>2, <1>3, <1>6 DEF IInv, LatchesFit, LatchMeansTold
<1>10. MessagedIsLatched'
  BY <1>2, <1>6, <1>7 DEF IInv, MessagedIsLatched, Present
<1>11. DueIsSilent'
  BY <1>1, <1>2, <1>3, <1>4, <1>6 DEF IInv, DueIsSilent, Same, Eligible, WorkerTypeOK, Crons, Copies
<1>12. QuietIsCounted'
  <2>1. ASSUME NEW k \in Keys, Present(k)' PROVE quiet'[k] >= subs'[k].since
    <3>1. quiet[k] \in 0..Floor /\ Present(k)
      BY <1>1, <1>6, <2>1 DEF WorkerTypeOK, Present
    <3>2. CASE Pending(k)
      BY <1>2, <1>6, <1>7, <3>1, <3>2
    <3>3. CASE ~Pending(k)
      <4>1. quiet[k] >= subs[k].since
        BY <3>1, <3>3 DEF IInv, QuietIsCounted
      <4>2. k # c.key \/ ~Same(c)
        BY <1>1, <3>3 DEF Pending
      <4> QED BY <1>2, <1>6, <4>1, <4>2
    <3> QED BY <3>2, <3>3
  <2> QED BY <2>1 DEF QuietIsCounted
<1> QED BY <1>5, <1>8, <1>9, <1>10, <1>11, <1>12 DEF IInv

\* A tick that ends where it is: a message whose latch it takes along is excused.
LEMMA AbortKeeps == ASSUME IInv, Abort PROVE IInv'
<1>1. WorkerTypeOK /\ CopiesFit
  BY DEF IInv
<1> DEFINE lost == {c.key : c \in cron.cur}
<1>2. /\ mailed' = [k \in Keys |-> IF k \in lost THEN 0 ELSE mailed[k]]
      /\ quiet' = [k \in Keys |-> IF k \in lost THEN Never ELSE quiet[k]]
      /\ cron' = Idle /\ UNCHANGED <<subs, rates, told, calm>>
  BY DEF Abort
<1>3. /\ cron' \in Crons /\ cron'.pc = "idle" /\ cron'.cur = {} /\ cron'.todo = {}
  BY <1>2, IdleFits
<1>4. \A k \in Keys : Pending(k) => k \in lost
  BY DEF Pending
<1> HIDE DEF lost
<1>5. WorkerTypeOK'
  BY <1>1, <1>2, <1>3, Constants DEF WorkerTypeOK
<1>6. CopiesFit' /\ DueIsSilent' /\ RecoveredIsOver' /\ LatchesFit'
  BY <1>2, <1>3 DEF IInv, CopiesFit, DueIsSilent, RecoveredIsOver, LatchesFit, LatchMeansTold, InFlight
<1>7. MessagedIsLatched'
  BY <1>1, <1>2, <1>4 DEF IInv, MessagedIsLatched, Present
<1>8. QuietIsCounted'
  BY <1>1, <1>2, <1>4, Constants DEF IInv, QuietIsCounted, Present, WorkerTypeOK, Rows
<1> QED BY <1>5, <1>6, <1>7, <1>8 DEF IInv

LEMMA NextIInv == IInv /\ [Next]_vars => IInv'
<1> SUFFICES ASSUME IInv, [Next]_vars PROVE IInv'
    OBVIOUS
<1>0. WorkerTypeOK /\ CopiesFit
  BY DEF IInv
<1>1. CASE Tick
  <2>1. CASE \E a \in AssetSet : Fetch(a) \/ Rearm(a) \/ \E j \in 1..Jobs : Select(a, j)
    BY <2>1, FetchKeeps, RearmKeeps, SelectKeeps
  <2>2. CASE \E k \in Keys : OnCopy(k) \/ OnLatch(k)
    BY <2>2, AcceptedKeeps, PassHfKeeps, LatchKeeps DEF OnCopy, OnLatch
  <2> QED BY <1>1, <2>1, <2>2, StartTickKeeps DEF Tick
<1>2. CASE Faults
  <2>1. CASE FetchFails
    BY <1>0, <2>1, NextRowFits, TickMoves DEF FetchFails, CopiesFit, WorkerTypeOK, Settles, ghosts
  <2>2. CASE RearmFails
    BY <1>0, <2>2, NextJobFits, TickMoves DEF RearmFails, CopiesFit, WorkerTypeOK, Settles, ghosts
  <2>3. CASE \E c \in InFlight : Refused(c) \/ Gone(c)
    BY <2>3, RefusedKeeps
  <2> QED BY <1>2, <2>1, <2>2, <2>3, AbortKeeps DEF Faults
<1>3. CASE OutagesEnd \/ (\E a \in AssetSet : RatesMove(a)) \/ UNCHANGED vars
  <2>1. UNCHANGED <<subs, cron, mailed, told, quiet>> /\ calm' \in BOOLEAN
    BY <1>0, <1>3 DEF OutagesEnd, RatesMove, vars, ghosts, WorkerTypeOK
  <2>2. rates' \in [AssetSet -> RateValues]
    BY <1>0, <1>3 DEF OutagesEnd, RatesMove, vars, WorkerTypeOK
  <2> QED BY <2>1, <2>2 DEF IInv, WorkerTypeOK, CopiesFit, LatchesFit, LatchMeansTold, MessagedIsLatched,
                DueIsSilent, RecoveredIsOver, QuietIsCounted, InFlight, Asset, Same, Pending, Present
<1> QED BY <1>1, <1>2, <1>3, VisitorKeeps DEF Next

LEMMA IInvAlways == Spec => []IInv
BY InitIInv, NextIInv, PTL DEF Spec

-----------------------------------------------------------------------------
\* Rows, copies and timestamps keep their types, and a tick holds one copy per
\* subscription, all of the asset it is at.
THEOREM AlertWorkerTypeCorrect == Spec => [](WorkerTypeOK /\ CopiesFit)
<1>1. IInv => WorkerTypeOK /\ CopiesFit
  BY DEF IInv
<1> QED BY <1>1, IInvAlways, PTL

\* No subscriber is told twice of one episode, for every number of subscriptions and
\* whatever handlers do between a tick's select, its sends and its latches.
THEOREM OneAlertPerEpisodeAlways == Spec => []OneAlertPerEpisode
<1>1. IInv => OneAlertPerEpisode
  BY DEF IInv, WorkerTypeOK, OneAlertPerEpisode
<1> QED BY <1>1, IInvAlways, PTL

\* No row is latched, and so silenced, whose address was not told since it was armed.
THEOREM LatchMeansToldAlways == Spec => []LatchMeansTold
<1>1. IInv => LatchMeansTold
  BY DEF IInv, LatchesFit
<1> QED BY <1>1, IInvAlways, PTL

\* Two messages to one row are the floor apart, whatever was latched, re-armed,
\* deleted or subscribed again between them.
THEOREM FloorBetweenAlertsAlways == Spec => FloorBetweenAlerts
<1>1. ASSUME IInv, Next, NEW k \in Keys, mailed'[k] > mailed[k] PROVE quiet[k] >= Floor
  <2>0. WorkerTypeOK /\ CopiesFit
    BY <1>1 DEF IInv
  <2>1. CASE \E c \in InFlight : Accepted(c)
    <3>1. PICK c \in InFlight : Accepted(c)
      BY <2>1
    <3>2. c \in cron.todo /\ cron.pc = "send" /\ Sends(c) /\ c.key \in Keys /\ cron.cur = {}
      BY <2>0, <3>1, <1>1, SendIsDue DEF Accepted, CopiesFit
    <3>3. Same(c) /\ k = c.key
      BY <1>1, <2>0, <3>1, <3>2 DEF Accepted, Same, ghosts, WorkerTypeOK
    <3>4. Present(k) /\ subs[k].since >= Floor
      BY <1>1, <3>2, <3>3, SendIsDue
    <3>5. quiet[k] >= subs[k].since
      BY <1>1, <3>2, <3>4 DEF IInv, QuietIsCounted, Pending
    <3>6. quiet[k] \in Int /\ subs[k].since \in Int /\ Floor \in Int
      BY <2>0, Constants DEF WorkerTypeOK, Rows
    <3> QED BY <3>4, <3>5, <3>6
  <2>2. CASE ~\E c \in InFlight : Accepted(c)
    <3>0. mailed \in [Keys -> 0..1] /\ mailed[k] \in 0..1
      BY <2>0 DEF WorkerTypeOK
    <3>1. SUFFICES mailed'[k] \in {0, mailed[k]}
      BY <1>1, <3>0
    <3>3. CASE Visitor
      <4>1. PICK j \in Keys : \/ Subscribe(j) \/ Verify(j) \/ Unsubscribe(j)
                               \/ PushSubscribe(j) \/ PushUnsubscribe(j)
        BY <3>3 DEF Visitor
      <4>2. mailed' = [mailed EXCEPT ![j] = 0] \/ mailed' = mailed
        BY <4>1 DEF Subscribe, PushSubscribe, Upsert, Verify, Unsubscribe, PushUnsubscribe, Drop, ghosts
      <4> QED BY <3>0, <4>2
    <3>4. CASE Tick
      <4>1. CASE \E a \in AssetSet : Fetch(a)
        BY <4>1 DEF Fetch
      <4>2. CASE ~\E a \in AssetSet : Fetch(a)
        BY <2>2, <3>4, <4>2 DEF Tick, StartTick, Rearm, Select, OnCopy, OnLatch, PassHf, Latch, ghosts
      <4> QED BY <4>1, <4>2
    <3>5. CASE Faults
      BY <2>0, <3>5 DEF Faults, FetchFails, RearmFails, Abort, Refused, Gone, ghosts
    <3>6. CASE OutagesEnd \/ \E a \in AssetSet : RatesMove(a)
      BY <2>0, <3>6 DEF OutagesEnd, RatesMove, ghosts
    <3> QED BY <1>1, <3>3, <3>4, <3>5, <3>6 DEF Next
  <2> QED BY <2>1, <2>2
<1>2. IInv /\ [Next]_vars =>
        [\A k \in Keys : mailed'[k] > mailed[k] => quiet[k] >= Floor]_vars
  BY <1>1
<1> QED BY <1>2, IInvAlways, PTL DEF Spec, FloorBetweenAlerts

-----------------------------------------------------------------------------
\* A set of naturals has a least element, and a bounded one a greatest.
LEMMA LeastNatural ==
    ASSUME NEW T \in SUBSET Nat, T # {}
    PROVE  \E m \in T : \A n \in T : m <= n
<1>1. PICK m \in T : \A n \in T : ~(<<n, m>> \in OpToRel(<, Nat))
  BY NatLessThanWellFounded, WFMin
<1>2. \A n \in T : ~(n < m)
  BY <1>1 DEF OpToRel
<1> QED BY <1>2

LEMMA GreatestNatural ==
    ASSUME NEW T \in SUBSET Nat, T # {}, NEW b \in Nat, \A n \in T : n <= b
    PROVE  \E m \in T : \A n \in T : n <= m
<1> DEFINE D == {d \in Nat : b - d \in T}
<1>1. \A n \in T : b - n \in D
  OBVIOUS
<1>2. PICK d \in D : \A e \in D : d <= e
  <2>1. D # {} /\ D \in SUBSET Nat
    BY <1>1
  <2> HIDE DEF D
  <2> QED BY <2>1, LeastNatural
<1>3. ASSUME NEW n \in T PROVE n <= b - d
  <2>1. b - n \in D
    BY <1>1
  <2>2. d <= b - n /\ d \in Nat /\ n \in Nat
    BY <1>2, <2>1
  <2> QED BY <2>2, SMT
<1>4. b - d \in T
  BY <1>2
<1> QED BY <1>3, <1>4

IsDescending(s, S) == /\ {s[i] : i \in 1..Cardinality(S)} = S
                      /\ \A i, j \in 1..Cardinality(S) : i < j => s[i] > s[j]

\* ORDER BY sorts every finite set: by induction on its size, the least element last.
LEMMA DescendingSorts ==
    ASSUME NEW S \in SUBSET Nat, IsFiniteSet(S)
    PROVE  /\ Cardinality(S) \in Nat
           /\ Descending(S) \in [1..Cardinality(S) -> S]
           /\ IsDescending(Descending(S), S)
<1> DEFINE Sorted(T) == \E s \in [1..Cardinality(T) -> T] : IsDescending(s, T)
           Bad == {n \in Nat : \E T \in SUBSET Nat : IsFiniteSet(T) /\ Cardinality(T) = n /\ ~Sorted(T)}
<1>1. Bad = {}
  <2>1. SUFFICES ASSUME Bad # {} PROVE FALSE
    OBVIOUS
  <2>2. PICK n \in Bad : \A k \in Bad : n <= k
    <3>1. Bad \in SUBSET Nat
      OBVIOUS
    <3> HIDE DEF Bad
    <3> QED BY <2>1, <3>1, LeastNatural
  <2>3. PICK T \in SUBSET Nat : IsFiniteSet(T) /\ Cardinality(T) = n /\ ~Sorted(T)
    BY <2>2
  <2>4. n \in Nat
    BY <2>2
  <2>5. CASE n = 0
    <3>1. T = {}
      BY <2>3, <2>5, FS_EmptySet
    <3>2. [i \in 1..0 |-> 0] \in [1..0 -> T] /\ IsDescending([i \in 1..0 |-> 0], T)
      BY <2>3, <2>5, <3>1 DEF IsDescending
    <3> QED BY <2>3, <2>5, <3>2
  <2>6. CASE n > 0
    <3>1. T # {}
      BY <2>3, <2>6, FS_EmptySet
    <3>2. PICK m \in T : \A k \in T : m <= k
      BY <3>1, LeastNatural
    <3> DEFINE R == T \ {m}
    <3>3. IsFiniteSet(R) /\ Cardinality(R) = n - 1 /\ R \in SUBSET Nat
      BY <2>3, <2>4, <3>2, FS_RemoveElement
    <3>4. n - 1 \notin Bad /\ n - 1 \in Nat
      BY <2>2, <2>4, <2>6
    <3>5. PICK s \in [1..(n - 1) -> R] : IsDescending(s, R)
      BY <3>3, <3>4
    <3> DEFINE t == [i \in 1..n |-> IF i = n THEN m ELSE s[i]]
    <3>6. t \in [1..n -> T]
      BY <2>4, <2>6, <3>5
    <3>7. {t[i] : i \in 1..n} = T
      <4>1. ASSUME NEW x \in T PROVE \E i \in 1..n : t[i] = x
        <5>1. CASE x = m
          BY <2>4, <2>6, <5>1
        <5>2. CASE x # m
          <6>1. PICK i \in 1..(n - 1) : s[i] = x
            <7>1. x \in R
              BY <5>2
            <7> HIDE DEF R
            <7> QED BY <3>3, <3>5, <7>1 DEF IsDescending
          <6>2. i \in 1..n /\ i # n
            BY <2>4
          <6> QED BY <6>1, <6>2
        <5> QED BY <5>1, <5>2
      <4> HIDE DEF t
      <4> QED BY <3>6, <4>1
    <3>8. ASSUME NEW i \in 1..n, NEW j \in 1..n, i < j PROVE t[i] > t[j]
      <4>1. i \in 1..(n - 1) /\ t[i] = s[i] /\ s[i] \in R
        BY <2>4, <3>5, <3>8
      <4>2. CASE j = n
        <5>1. m <= s[i] /\ s[i] # m /\ t[j] = m /\ m \in Nat /\ s[i] \in Nat
          BY <2>4, <3>2, <4>1, <4>2
        <5> HIDE DEF t
        <5> QED BY <4>1, <5>1
      <4>3. CASE j # n
        <5>1. j \in 1..(n - 1) /\ t[j] = s[j]
          BY <2>4, <4>3
        <5>2. s[i] > s[j]
          <6> HIDE DEF R, t
          <6> QED BY <3>3, <3>5, <3>8, <4>1, <5>1 DEF IsDescending
        <5> HIDE DEF t, R
        <5> QED BY <4>1, <5>1, <5>2
      <4> QED BY <4>2, <4>3
    <3>9. Sorted(T)
      <4> HIDE DEF t
      <4> QED BY <2>3, <3>6, <3>7, <3>8 DEF IsDescending
    <3> QED BY <2>3, <3>9
  <2> QED BY <2>4, <2>5, <2>6
<1>2. Cardinality(S) \in Nat
  BY FS_CardinalityType
<1>3. Sorted(S)
  BY <1>1, <1>2
<1> QED BY <1>2, <1>3 DEF Descending, IsDescending

-----------------------------------------------------------------------------
Entries == [id : Nat \ {0}, series : Series]

\* A page is the newest end of what matches, and it is full where something is left.
LEMMA PageIsTheNewest ==
    ASSUME NEW b \in Nat, log \in SUBSET Entries, NEW ss
    PROVE  LET M == Matching(ss, b)
               P == PageOf(ss, b)
           IN /\ M \in SUBSET (1..(b - 1))
              /\ IsFiniteSet(P) /\ P \in SUBSET M
              /\ \A i \in P, j \in M : i <= j => j \in P
              /\ Cardinality(P) # Limit => P = M
<1> DEFINE M == Matching(ss, b)
           P == PageOf(ss, b)
           Above(i) == {j \in M : j > i}
<1>1. M \in SUBSET (1..(b - 1))
  BY DEF Matching, Entries
<1>2. IsFiniteSet(M)
  <2>1. IsFiniteSet(1..(b - 1))
    BY FS_Interval
  <2> HIDE DEF M
  <2> QED BY <1>1, <2>1, FS_Subset
<1>3. P = {i \in M : Cardinality(Above(i)) < Limit}
  BY DEF PageOf
<1>4. \A i : Above(i) \in SUBSET M /\ IsFiniteSet(Above(i)) /\ Cardinality(Above(i)) \in Nat
  <2> HIDE DEF M
  <2>1. \A i : Above(i) \in SUBSET M
    OBVIOUS
  <2> HIDE DEF Above
  <2>2. \A i : IsFiniteSet(Above(i))
    BY <1>2, <2>1, FS_Subset
  <2> QED BY <2>1, <2>2, FS_CardinalityType
<1>5. P \in SUBSET M /\ IsFiniteSet(P) /\ Cardinality(P) \in Nat
  <2> HIDE DEF M, Above, P
  <2>1. P \in SUBSET M
    BY <1>3
  <2>2. IsFiniteSet(P)
    BY <1>2, <2>1, FS_Subset
  <2> QED BY <2>1, <2>2, FS_CardinalityType
<1> HIDE DEF M, P
<1>0. M \in SUBSET Nat /\ (\A k \in M : k <= b)
  BY <1>1
<1>6. ASSUME NEW i \in P, NEW j \in M, i <= j PROVE j \in P
  <2>1. Above(j) \in SUBSET Above(i)
    <3>1. i \in Nat /\ j \in Nat
      BY <1>0, <1>5
    <3>2. ASSUME NEW k \in M, k > j PROVE k > i
      BY <1>0, <1>6, <3>1, <3>2
    <3> QED BY <3>2
  <2>2. Cardinality(Above(j)) <= Cardinality(Above(i))
    <3> HIDE DEF Above
    <3> QED BY <1>4, <2>1, FS_Subset
  <2> HIDE DEF Above
  <2>3. Cardinality(Above(i)) < Limit
    BY <1>3
  <2> QED BY <1>3, <1>4, <2>2, <2>3, LogAssumption
<1>7. Cardinality(P) <= Limit
  <2>1. CASE P = {}
    BY <2>1, FS_EmptySet, LogAssumption
  <2>2. CASE P # {}
    <3>1. PICK m \in P : \A k \in P : m <= k
      BY <1>1, <1>5, <2>2, LeastNatural
    <3>2. P \ {m} \in SUBSET Above(m)
      BY <1>1, <1>5, <3>1
    <3> HIDE DEF Above
    <3>3. Cardinality(P \ {m}) <= Cardinality(Above(m))
      BY <1>4, <3>2, FS_Subset
    <3>4. Cardinality(P \ {m}) = Cardinality(P) - 1
      BY <1>5, FS_RemoveElement
    <3>5. Cardinality(Above(m)) < Limit
      BY <1>3
    <3> QED BY <1>4, <1>5, <3>3, <3>4, <3>5, LogAssumption
  <2> QED BY <2>1, <2>2
<1>8. ASSUME P # M PROVE Limit <= Cardinality(P)
  <2> DEFINE Out == M \ P
  <2>1. Out \in SUBSET Nat /\ Out # {} /\ \A k \in Out : k <= b
    BY <1>0, <1>5, <1>8
  <2>2. PICK g \in Out : \A k \in Out : k <= g
    <3> HIDE DEF Out
    <3> QED BY <2>1, GreatestNatural
  <2>3. Above(g) \in SUBSET P
    <3>1. ASSUME NEW k \in M, k > g PROVE k \in P
      <4>1. k \in Nat /\ g \in Nat /\ ~(k <= g)
        BY <1>0, <2>1, <2>2, <3>1
      <4> QED BY <2>2, <4>1
    <3> QED BY <3>1
  <2> HIDE DEF Above
  <2>4. Cardinality(Above(g)) <= Cardinality(P)
    BY <1>5, <2>3, FS_Subset
  <2>5. ~(Cardinality(Above(g)) < Limit)
    BY <1>3, <2>2
  <2> QED BY <1>4, <1>5, <2>4, <2>5, LogAssumption
<1>9. Cardinality(P) # Limit => P = M
  BY <1>5, <1>7, <1>8, LogAssumption
<1> QED BY <1>1, <1>5, <1>6, <1>9 DEF M, P

\* One page: newest first, all of what matches from the next cursor on.
LEMMA PageFits ==
    ASSUME NEW b \in Nat, log \in SUBSET Entries, NEW ss
    PROVE  LET M == Matching(ss, b)
               page == Page(ss, b)
           IN /\ M \in SUBSET (1..(b - 1))
              /\ page.ids \in Seq(M)
              /\ \A i, j \in 1..Len(page.ids) : i < j => page.ids[i] > page.ids[j]
              /\ page.next \in Nat /\ page.next <= b
              /\ page.next # 0 => page.next \in M
              /\ \A i \in 1..Len(page.ids) : page.next <= page.ids[i]
              /\ \A m \in M : page.next <= m => \E i \in 1..Len(page.ids) : page.ids[i] = m
<1> DEFINE M == Matching(ss, b)
           P == PageOf(ss, b)
           n == Cardinality(P)
           ids == Descending(P)
           next == IF n = Limit THEN Min(P) ELSE 0
<1>1. Page(ss, b).ids = ids /\ Page(ss, b).next = next
  BY DEF Page
<1>2. /\ M \in SUBSET (1..(b - 1)) /\ IsFiniteSet(P) /\ P \in SUBSET M
      /\ \A i \in P, j \in M : i <= j => j \in P
      /\ n # Limit => P = M
  BY PageIsTheNewest
<1> HIDE DEF M, P
<1>3. n \in Nat /\ ids \in [1..n -> P] /\ IsDescending(ids, P)
  BY <1>2, DescendingSorts
<1>4. n = Limit => next \in P /\ \A k \in P : next <= k
  <2>1. SUFFICES ASSUME n = Limit PROVE Min(P) \in P /\ \A k \in P : Min(P) <= k
    OBVIOUS
  <2>2. P # {}
    BY <2>1, LogAssumption, FS_EmptySet
  <2>3. P \in SUBSET Nat
    BY <1>2
  <2>4. \E m \in P : \A k \in P : m <= k
    BY <2>2, <2>3, LeastNatural
  <2> QED BY <2>4 DEF Min
<1>5. n # Limit => next = 0
  OBVIOUS
<1> HIDE DEF next
<1>6. ids \in Seq(P) /\ Len(ids) = n
  <2> HIDE DEF ids, n
  <2> QED BY <1>3
<1>7. /\ \A i, j \in 1..n : i < j => ids[i] > ids[j]
      /\ \A k \in P : \E i \in 1..n : ids[i] = k
      /\ \A i \in 1..n : ids[i] \in P
  <2>1. {ids[i] : i \in 1..n} = P /\ \A i, j \in 1..n : i < j => ids[i] > ids[j]
    BY <1>3 DEF IsDescending
  <2> HIDE DEF ids, n
  <2> QED BY <1>3, <2>1
<1> HIDE DEF ids, n
<1>8. next \in Nat /\ next <= b /\ (next # 0 => next \in M)
  <2>1. \A k \in M : k \in Nat /\ k <= b
    BY <1>2
  <2>2. CASE n = Limit
    BY <1>2, <1>4, <2>1, <2>2
  <2>3. CASE n # Limit
    BY <1>5, <2>3
  <2> QED BY <2>2, <2>3
<1>9. \A i \in 1..n : next <= ids[i]
  <2>1. \A k \in P : next <= k
    <3>1. \A k \in P : k \in Nat
      BY <1>2
    <3>2. CASE n = Limit
      BY <1>4, <3>2
    <3>3. CASE n # Limit
      BY <1>5, <3>1, <3>3
    <3> QED BY <3>2, <3>3
  <2> QED BY <1>7, <2>1
<1>10. \A m \in M : next <= m => m \in P
  BY <1>2, <1>4, <1>5
<1>11. ids \in Seq(M)
  BY <1>2, <1>6, SeqMonotonic
<1> QED BY <1>1, <1>2, <1>6, <1>7, <1>8, <1>9, <1>10, <1>11 DEF M

\* What a reader has and still misses, its cursor at b: everything owed that is at or
\* above the cursor is collected, everything that matches below it is owed.
Collected(rows, ss, b, got, owed) ==
    /\ ss \in SUBSET Series /\ b \in Nat /\ b <= lastId + 1
    /\ owed \in SUBSET (1..lastId) /\ got \in Seq(Nat)
    /\ \A i, j \in 1..Len(got) : i < j => got[i] > got[j]
    /\ \A i \in 1..Len(got) : got[i] \in owed /\ b <= got[i]
    /\ \A r \in rows : /\ r.id < b /\ r.series \in ss => r.id \in owed
                       /\ r.id \in owed => r.series \in ss
                       /\ r.id \in owed /\ b <= r.id => \E i \in 1..Len(got) : got[i] = r.id

Readers == [paging : BOOLEAN, series : SUBSET Series, before : Nat, got : Seq(Nat), owed : SUBSET Nat]
LogTypeOK == /\ lastId \in Nat /\ log \in SUBSET Entries /\ \A r \in log : r.id <= lastId
             /\ \A r, q \in log : r.id = q.id => r = q
             /\ reader \in Readers
PagesFit == Collected(log, reader.series, reader.before, reader.got, reader.owed)
LogInv == LogTypeOK /\ PagesFit /\ (~reader.paging => reader.before = 0)

\* A turn of the page keeps what the reader has collected in step with its cursor.
LEMMA TurnFits ==
    ASSUME LogTypeOK, NEW ss, NEW b, NEW got, NEW owed, Collected(log, ss, b, got, owed),
           Turn(ss, b, got, owed), UNCHANGED <<log, lastId>>
    PROVE  LogInv'
<1> DEFINE M == Matching(ss, b)
           ids == Page(ss, b).ids
           next == Page(ss, b).next
           all == got \o ids
           Below == 1..(b - 1)
<1>1. b \in Nat /\ log \in SUBSET Entries /\ got \in Seq(Nat) /\ lastId \in Nat /\ ss \in SUBSET Series
  BY DEF Collected, LogTypeOK
<1>2. reader' = [paging |-> next # 0, series |-> ss, before |-> next, got |-> all, owed |-> owed]
  BY DEF Turn
<1>3. /\ M \in SUBSET Below /\ ids \in Seq(M)
      /\ \A i, j \in 1..Len(ids) : i < j => ids[i] > ids[j]
      /\ next \in Nat /\ next <= b
      /\ \A i \in 1..Len(ids) : next <= ids[i]
      /\ \A m \in M : next <= m => \E i \in 1..Len(ids) : ids[i] = m
  BY <1>1, PageFits
<1>4. \A m : m \in M <=> \E r \in log : r.series \in ss /\ r.id < b /\ r.id = m
  BY DEF Matching
<1> HIDE DEF M, ids, next
<1>5. ids \in Seq(Nat)
  <2>1. M \subseteq Nat
    BY <1>3
  <2> QED BY <1>3, <2>1, SeqMonotonic
<1>6. /\ all \in Seq(Nat) /\ Len(all) = Len(got) + Len(ids)
      /\ \A i \in 1..(Len(got) + Len(ids)) : all[i] = IF i <= Len(got) THEN got[i] ELSE ids[i - Len(got)]
  BY <1>1, <1>5, ConcatProperties
<1>7. Len(got) \in Nat /\ Len(ids) \in Nat
  BY <1>1, <1>5, LenProperties
<1> HIDE DEF all
<1>8. \A i \in 1..Len(got) : got[i] \in owed /\ b <= got[i] /\ got[i] \in Nat
  BY <1>1 DEF Collected
<1>9. \A i \in 1..Len(ids) : ids[i] \in M /\ ids[i] < b /\ ids[i] \in Nat /\ ids[i] \in owed
  <2>1. \A i \in 1..Len(ids) : ids[i] \in M
    BY <1>3, ElementOfSeq
  <2>2. \A m \in M : m < b /\ m \in Nat
    BY <1>1, <1>3
  <2>3. \A m \in M : m \in owed
    BY <1>4 DEF Collected
  <2> QED BY <2>1, <2>2, <2>3
<1>10. ASSUME NEW i \in 1..Len(all), NEW j \in 1..Len(all), i < j PROVE all[i] > all[j]
  <2>1. CASE j <= Len(got)
    <3>1. i \in 1..Len(got) /\ j \in 1..Len(got) /\ all[i] = got[i] /\ all[j] = got[j]
      BY <1>6, <1>7, <1>10, <2>1
    <3> QED BY <1>10, <3>1 DEF Collected
  <2>2. CASE i <= Len(got) /\ ~(j <= Len(got))
    <3>1. i \in 1..Len(got) /\ j - Len(got) \in 1..Len(ids) /\ all[i] = got[i] /\ all[j] = ids[j - Len(got)]
      BY <1>6, <1>7, <1>10, <2>2
    <3> QED BY <1>1, <1>8, <1>9, <3>1
  <2>3. CASE ~(i <= Len(got))
    <3>1. /\ i - Len(got) \in 1..Len(ids) /\ j - Len(got) \in 1..Len(ids) /\ i - Len(got) < j - Len(got)
          /\ all[i] = ids[i - Len(got)] /\ all[j] = ids[j - Len(got)]
      BY <1>6, <1>7, <1>10, <2>3
    <3> QED BY <1>3, <3>1
  <2> QED BY <1>7, <2>1, <2>2, <2>3
<1>11. ASSUME NEW i \in 1..Len(all) PROVE all[i] \in owed /\ next <= all[i]
  <2>1. CASE i <= Len(got)
    <3>1. i \in 1..Len(got) /\ all[i] = got[i]
      BY <1>6, <1>7, <2>1
    <3> QED BY <1>1, <1>3, <1>8, <3>1
  <2>2. CASE ~(i <= Len(got))
    <3>1. i - Len(got) \in 1..Len(ids) /\ all[i] = ids[i - Len(got)]
      BY <1>6, <1>7, <2>2
    <3> QED BY <1>3, <1>9, <3>1
  <2> QED BY <2>1, <2>2
<1>12. \A i \in 1..Len(got) : \E k \in 1..Len(all) : all[k] = got[i]
  BY <1>6, <1>7
<1>13. ASSUME NEW i \in 1..Len(ids) PROVE \E k \in 1..Len(all) : all[k] = ids[i]
  <2>1. i + Len(got) \in 1..Len(all) /\ all[i + Len(got)] = ids[i]
    <3>1. i + Len(got) \in 1..(Len(got) + Len(ids)) /\ ~(i + Len(got) <= Len(got))
          /\ i + Len(got) - Len(got) = i
      BY <1>7
    <3> QED BY <1>6, <3>1
  <2> QED BY <2>1
<1>14. ASSUME NEW r \in log
       PROVE  /\ r.id < next /\ r.series \in ss => r.id \in owed
              /\ r.id \in owed => r.series \in ss
              /\ r.id \in owed /\ next <= r.id => \E i \in 1..Len(all) : all[i] = r.id
  <2>1. r.id \in Nat /\ r.id < next => r.id < b
    BY <1>1, <1>3 DEF Entries
  <2>2. r.id \in Nat
    BY <1>1 DEF Entries
  <2>3. /\ r.id < b /\ r.series \in ss => r.id \in owed
        /\ r.id \in owed => r.series \in ss
        /\ r.id \in owed /\ b <= r.id => \E i \in 1..Len(got) : got[i] = r.id
    BY DEF Collected
  <2>4. ASSUME r.id \in owed, next <= r.id PROVE \E i \in 1..Len(all) : all[i] = r.id
    <3>1. CASE b <= r.id
      BY <1>12, <2>3, <2>4, <3>1
    <3>2. CASE r.id < b
      <4>1. r.id \in M
        BY <1>4, <2>3, <2>4, <3>2
      <4> QED BY <1>3, <1>13, <2>4, <4>1
    <3> QED BY <1>1, <2>2, <3>1, <3>2
  <2> QED BY <2>1, <2>2, <2>3, <2>4
<1>15. owed \in SUBSET (1..lastId) /\ owed \in SUBSET Nat /\ next <= lastId + 1
  BY <1>1, <1>3 DEF Collected
<1>16. Collected(log, ss, next, all, owed)
  BY <1>1, <1>3, <1>6, <1>10, <1>11, <1>14, <1>15 DEF Collected
<1>17. PagesFit'
  BY <1>2, <1>16 DEF PagesFit, Collected
<1>18. LogTypeOK'
  BY <1>1, <1>2, <1>3, <1>6, <1>15 DEF LogTypeOK, Readers
<1>19. (~reader.paging => reader.before = 0)'
  BY <1>2
<1> QED BY <1>17, <1>18, <1>19 DEF LogInv

\* The cron tick appends and prunes between two pages: no row it adds is owed.
LEMMA AppendFits ==
    ASSUME LogInv, NEW s \in Series, WriteSnapshot(s)
    PROVE  LogInv'
<1> DEFINE row == [id |-> lastId + 1, series |-> s]
<1>1. log' = log \cup {row} /\ lastId' = lastId + 1 /\ reader' = reader
  BY DEF WriteSnapshot
<1>2. row \in Entries /\ row.id = lastId + 1 /\ lastId \in Nat
  BY DEF LogInv, LogTypeOK, Entries
<1> HIDE DEF row
<1>3. LogTypeOK'
  <2>1. \A r \in log : r.id <= lastId + 1
    BY DEF LogInv, LogTypeOK, Entries
  <2>2. \A r \in log : r.id # row.id
    BY <1>2 DEF LogInv, LogTypeOK, Entries
  <2> QED BY <1>1, <1>2, <2>1, <2>2 DEF LogInv, LogTypeOK
<1>4. row.id \notin reader.owed /\ ~(row.id < reader.before)
  BY <1>2 DEF LogInv, LogTypeOK, PagesFit, Collected, Readers
<1>5. PagesFit'
  <2>1. Collected(log, reader.series, reader.before, reader.got, reader.owed)
    BY DEF LogInv, PagesFit
  <2> HIDE DEF row
  <2>2. /\ reader.before <= lastId' + 1 /\ reader.owed \in SUBSET (1..lastId')
        /\ \A r \in log' : r \in log \/ r = row
    BY <1>1, <1>2, <2>1 DEF Collected
  <2> QED BY <1>1, <1>4, <2>1, <2>2 DEF PagesFit, Collected
<1> QED BY <1>1, <1>3, <1>5 DEF LogInv

LEMMA PruneFits ==
    ASSUME LogInv, PruneSnapshots
    PROVE  LogInv'
<1>1. log' \subseteq log /\ lastId' = lastId /\ reader' = reader
  BY DEF PruneSnapshots
<1>2. LogTypeOK'
  BY <1>1 DEF LogInv, LogTypeOK
<1>3. PagesFit'
  BY <1>1 DEF LogInv, PagesFit, Collected
<1> QED BY <1>1, <1>2, <1>3 DEF LogInv

\* The first page: the reader is owed what matches now.
LEMMA FirstPageFits ==
    ASSUME LogInv, HandleSnapshots
    PROVE  LogInv'
<1>1. PICK ss \in SUBSET Series : Turn(ss, lastId + 1, <<>>, Matching(ss, lastId + 1))
  BY DEF HandleSnapshots
<1>2. UNCHANGED <<log, lastId>>
  BY DEF HandleSnapshots
<1> DEFINE M == Matching(ss, lastId + 1)
<1>3. lastId \in Nat /\ log \in SUBSET Entries /\ \A r \in log : r.id <= lastId
  BY DEF LogInv, LogTypeOK
<1>4. /\ M \in SUBSET (1..lastId)
      /\ \A r \in log : r.series \in ss => r.id \in M
  BY <1>3 DEF Matching, Entries
<1>5. \A r \in log : r.id \in M => r.series \in ss
  BY DEF LogInv, LogTypeOK, Matching
<1> HIDE DEF M
<1>6. Collected(log, ss, lastId + 1, <<>>, M)
  <2>1. \A r \in log : ~(lastId + 1 <= r.id)
    BY <1>3 DEF Entries
  <2>2. <<>> \in Seq(Nat) /\ Len(<<>>) = 0
    BY EmptySeq
  <2> QED BY <1>3, <1>4, <1>5, <2>1, <2>2 DEF Collected
<1> QED BY <1>1, <1>2, <1>6, TurnFits DEF M, LogInv

\* The reader comes back with the cursor of the last page.
LEMMA NextPageFits ==
    ASSUME LogInv, NextPage
    PROVE  LogInv'
<1>1. Turn(reader.series, reader.before, reader.got, reader.owed) /\ UNCHANGED <<log, lastId>>
  BY DEF NextPage
<1>2. LogTypeOK /\ Collected(log, reader.series, reader.before, reader.got, reader.owed)
  BY DEF LogInv, PagesFit
<1> QED BY <1>1, <1>2, TurnFits

LEMMA PagesAreTheSeriesOfInv ==
    ASSUME LogInv PROVE PagesAreTheSeries
<1>1. PagesFit /\ (~reader.paging => reader.before = 0) /\ \A r \in log : r.id \in Nat
  BY DEF LogInv, LogTypeOK, Entries
<1>2. ASSUME ~reader.paging, NEW k \in reader.owed \cap Ids(log)
      PROVE  \E n \in 1..Len(reader.got) : reader.got[n] = k
  <2>1. PICK r \in log : r.id = k
    BY <1>2 DEF Ids
  <2> QED BY <1>1, <1>2, <2>1 DEF PagesFit, Collected
<1> QED BY <1>1, <1>2 DEF PagesAreTheSeries, PagesFit, Collected

\* What a reader collects page by page is the series as it stood at the first page, whatever
\* the cron tick writes and prunes between two pages, for every page size.
THEOREM PagesAreTheSeriesAlways == LogSpec => []PagesAreTheSeries
<1>1. LogInit => LogInv
  <2>1. <<>> \in Seq(Nat) /\ Len(<<>>) = 0
    BY EmptySeq
  <2> QED BY <2>1 DEF LogInit, Idling, LogInv, LogTypeOK, PagesFit, Collected, Readers
<1>2. LogInv /\ [LogNext]_logVars => LogInv'
  <2> SUFFICES ASSUME LogInv, [LogNext]_logVars PROVE LogInv'
    OBVIOUS
  <2>1. ASSUME NEW s \in Series, WriteSnapshot(s) PROVE LogInv'
    BY <2>1, AppendFits
  <2>2. CASE PruneSnapshots
    BY <2>2, PruneFits
  <2>3. CASE HandleSnapshots
    BY <2>3, FirstPageFits
  <2>4. CASE NextPage
    BY <2>4, NextPageFits
  <2>5. CASE UNCHANGED logVars
    BY <2>5 DEF logVars, LogInv, LogTypeOK, PagesFit, Collected
  <2> QED BY <2>1, <2>2, <2>3, <2>4, <2>5 DEF LogNext
<1> QED BY <1>1, <1>2, PagesAreTheSeriesOfInv, PTL DEF LogSpec
=============================================================================

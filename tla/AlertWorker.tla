------------------------------ MODULE AlertWorker ------------------------------
(***************************************************************************)
(* The alert worker (alerts/src): the subscriptions its HTTP handlers keep *)
(* and the cron tick that reads them, mails and latches them.  A tick is   *)
(* not a transaction: it selects rows, sends one message after another,    *)
(* and only then writes the latch of each, while handlers change the rows. *)
(***************************************************************************)
EXTENDS Integers, Sequences, FiniteSets

CONSTANTS Keys,        \* subscriptions: what the tables' UNIQUE constraints tell apart
          Kind,        \* [Keys -> {"apy", "hf", "push"}]; "hf" stands for "liquidation" too
          AssetOf,     \* [Keys -> elements of Assets]
          BracketOf,   \* [Keys -> elements of Brackets]
          Threshold,   \* [Keys -> Nat]: the health factor of an "hf" row, times 10^4
          Assets,      \* sequence of the pool/asset rows one tick covers
          Brackets,    \* sequence LEVERAGE_BRACKETS
          RateValues,  \* [supply, cost] in 0.01 %, [cf, lf] in 0.01
          Floor        \* MIN_REALERT_HOURS in ticks; a query's < and a row's >= differ by no tick

APY_REARM_MARGIN == 25    \* 0.25 %
HF_REARM_MARGIN  == 200   \* 0.02
Never == Floor            \* a NULL timestamp, or one as old as the floor: counting stops here
AssetSet == {Assets[i] : i \in 1..Len(Assets)}

ASSUME AlertAssumption ==
    /\ Floor \in Nat \ {0}
    /\ Kind \in [Keys -> {"apy", "hf", "push"}]
    /\ Assets \in Seq(AssetSet) /\ Assets # <<>>
    /\ AssetOf \in [Keys -> AssetSet]
    /\ BracketOf \in [Keys -> Nat] /\ Threshold \in [Keys -> Nat]
    /\ Brackets \in Seq(Nat)
    /\ RateValues # {}
    /\ \A r \in RateValues : {r.supply, r.cost, r.cf, r.lf} \subseteq Int

VARIABLES subs,    \* the rows of subscriptions and push_subscriptions
          rates,   \* the pools' current rates
          cron,    \* the tick: where it is, what it read, what it has still to send
          mailed,  \* messages to a row since its metric was last seen recovered
          told,    \* whether a message was accepted for the key since the row was (re)armed
          quiet,   \* ticks since the last message to the row, up to Never
          calm     \* nothing fails from here on
vars == <<subs, rates, cron, mailed, told, quiet, calm>>
ghosts == <<mailed, told, quiet>>

-----------------------------------------------------------------------------
(* What a row's rates mean at a leverage. *)

NetApy(r, lev) == r.supply * lev - r.cost * (lev - 1)
\* The health factor lev * cf * lf / (lev - 1), compared without dividing.
HfAtLeast(r, lev, t) == lev <= 1 \/ lev * r.cf * r.lf >= t * (lev - 1)

Breached(k, r) == IF Kind[k] = "hf" THEN ~HfAtLeast(r, BracketOf[k], Threshold[k])
                                    ELSE NetApy(r, BracketOf[k]) < 0
Recovered(k, r) == IF Kind[k] = "hf"
                   THEN HfAtLeast(r, BracketOf[k], Threshold[k] + HF_REARM_MARGIN)
                   ELSE NetApy(r, BracketOf[k]) >= APY_REARM_MARGIN

-----------------------------------------------------------------------------
(* The tables.  An absent row has id 0. *)

NoRow == [id |-> 0, verified |-> FALSE, linked |-> FALSE, active |-> FALSE, since |-> Never]
Present(k) == subs[k].id # 0

\* Rows' ids are never reused; what matters of one is that it differs from
\* that of any copy the running tick holds.
Copy(k) == [key |-> k, id |-> subs[k].id, active |-> subs[k].active, since |-> subs[k].since]
InFlight == cron.todo \cup cron.cur
\* Mutant: a row inserted again takes the id of the one deleted.
SameId(k) == 1
FreshId(k) == IF \E c \in InFlight : c.key = k /\ c.id = 1 THEN 2 ELSE 1

\* UPDATE ... WHERE id = ?: no row, no effect.
WithRow(c, f(_)) == IF subs[c.key].id = c.id
                    THEN [subs EXCEPT ![c.key] = f(subs[c.key])] ELSE subs

-----------------------------------------------------------------------------
(* Handlers. *)

\* The upsert of both tables: it re-arms the row and forgets when it last fired.
Upsert(k, row) ==
    /\ subs' = [subs EXCEPT ![k] = [id |-> IF Present(k) THEN subs[k].id ELSE FreshId(k),
                                    verified |-> row.verified, linked |-> row.linked,
                                    active |-> FALSE, since |-> Never]]
    /\ mailed' = [mailed EXCEPT ![k] = 0]
    /\ quiet' = [quiet EXCEPT ![k] = Never]
    /\ told' = [told EXCEPT ![k] = Present(k) /\ @]
    /\ UNCHANGED <<rates, cron, calm>>

\* POST /subscribe.  The verification mail may not get through; the row stays.
Subscribe(k) ==
    /\ Kind[k] # "push"
    /\ \E delivered \in BOOLEAN : Upsert(k, [verified |-> FALSE, linked |-> delivered])

\* POST /push/subscribe.  The browser's endpoint needs no verification.
PushSubscribe(k) == Kind[k] = "push" /\ Upsert(k, [verified |-> TRUE, linked |-> FALSE])

\* GET /verify with the token of the last mail that got through.
Verify(k) ==
    /\ Present(k) /\ subs[k].linked
    /\ subs' = [subs EXCEPT ![k].verified = TRUE, ![k].linked = FALSE]
    /\ UNCHANGED <<rates, cron, ghosts, calm>>

\* DELETE by the row's current token, from either table.
Drop(k) == /\ Present(k)
           /\ subs' = [subs EXCEPT ![k] = NoRow]
           /\ UNCHANGED <<rates, cron, ghosts, calm>>
Unsubscribe(k) == Kind[k] # "push" /\ Drop(k)
PushUnsubscribe(k) == Kind[k] = "push" /\ Drop(k)

RatesMove(a) == /\ \E r \in RateValues \ {rates[a]} : rates' = [rates EXCEPT ![a] = r]
                /\ UNCHANGED <<subs, cron, ghosts, calm>>

-----------------------------------------------------------------------------
(* The tick: for each asset a fetch, then its jobs: mail and push per
   bracket, the re-arming of the recovered brackets, the health factors. *)

Idle == [pc |-> "idle", row |-> 1, job |-> 1, seen |-> CHOOSE r \in RateValues : TRUE,
         todo |-> {}, cur |-> {}]
Asset == Assets[cron.row]
Jobs == 2 * Len(Brackets) + 2
JobKind(j) == IF j = Jobs THEN "hf" ELSE IF j = Jobs - 1 THEN "rearm"
              ELSE IF j % 2 = 1 THEN "apy" ELSE "push"
JobBracket(j) == Brackets[(j + 1) \div 2]

NextRow == IF cron.row = Len(Assets) THEN Idle
           ELSE [Idle EXCEPT !.pc = "fetch", !.row = cron.row + 1]
NextJob == IF cron.job = Jobs THEN NextRow
           ELSE [cron EXCEPT !.pc = "select", !.job = @ + 1, !.todo = {}, !.cur = {}]
\* The tick goes on to the next copy, or to the next job after the last.
Proceed(rest) == IF rest = {} THEN NextJob
                 ELSE [cron EXCEPT !.pc = "send", !.todo = rest, !.cur = {}]

Older(n) == IF n < Never THEN n + 1 ELSE Never

\* The scheduler starts a tick every 15 minutes.
StartTick ==
    /\ cron.pc = "idle"
    /\ cron' = [Idle EXCEPT !.pc = "fetch"]
    /\ subs' = [k \in Keys |-> [subs[k] EXCEPT !.since = Older(@)]]
    /\ quiet' = [k \in Keys |-> Older(quiet[k])]
    /\ UNCHANGED <<rates, mailed, told, calm>>

FetchFails == /\ ~calm /\ cron.pc = "fetch" /\ cron' = NextRow
              /\ UNCHANGED <<subs, rates, ghosts, calm>>

Fetch(a) ==
    /\ cron.pc = "fetch" /\ Asset = a
    /\ cron' = [cron EXCEPT !.pc = "select", !.seen = rates[a]]
    /\ mailed' = [k \in Keys |-> IF AssetOf[k] = a /\ Recovered(k, rates[a]) THEN 0 ELSE mailed[k]]
    /\ UNCHANGED <<subs, rates, told, quiet, calm>>

Watching(kind, a) == {k \in Keys : Kind[k] = kind /\ AssetOf[k] = a /\ Present(k) /\ subs[k].verified}

\* Mutants: level-triggered, as before migration 0003; and the floor left out.
DueAgain(kind, a, b) == {k \in Watching(kind, a) : BracketOf[k] = b /\ subs[k].since >= Floor}
DueAtOnce(kind, a, b) == {k \in Watching(kind, a) : BracketOf[k] = b /\ ~subs[k].active}

\* The rows an APY job selects: armed, and not messaged within the floor.
Due(kind, a, b) == {k \in Watching(kind, a) :
                      BracketOf[k] = b /\ ~subs[k].active /\ subs[k].since >= Floor}

Select(a, j) ==
    /\ cron.pc = "select" /\ Asset = a /\ cron.job = j /\ JobKind(j) # "rearm"
    /\ LET ks == IF JobKind(j) = "hf" THEN Watching("hf", a)
                 ELSE IF NetApy(cron.seen, JobBracket(j)) < 0 THEN Due(JobKind(j), a, JobBracket(j))
                 ELSE {}
       IN cron' = Proceed({Copy(k) : k \in ks})
    /\ UNCHANGED <<subs, rates, ghosts, calm>>

\* Mutant: the batch leaves the push table out.
RearmedMail(a) == {k \in Keys : /\ Kind[k] = "apy" /\ AssetOf[k] = a /\ subs[k].active
                                /\ NetApy(cron.seen, BracketOf[k]) >= APY_REARM_MARGIN}
\* One batch that clears the latches of the recovered brackets.
Rearmed(a) == {k \in Keys : /\ Kind[k] # "hf" /\ AssetOf[k] = a /\ subs[k].active
                            /\ NetApy(cron.seen, BracketOf[k]) >= APY_REARM_MARGIN}
Rearm(a) ==
    /\ cron.pc = "select" /\ Asset = a /\ JobKind(cron.job) = "rearm"
    /\ subs' = [k \in Keys |-> [subs[k] EXCEPT !.active = @ /\ k \notin Rearmed(a)]]
    /\ told' = [k \in Keys |-> told[k] /\ k \notin Rearmed(a)]
    /\ cron' = NextJob
    /\ UNCHANGED <<rates, mailed, quiet, calm>>
RearmFails == /\ ~calm /\ cron.pc = "select" /\ JobKind(cron.job) = "rearm" /\ cron' = NextJob
              /\ UNCHANGED <<subs, rates, ghosts, calm>>

\* A health-factor row is judged by what the job read of it.
\* Mutant: the floor left out.
HfDueAtOnce(c) == Breached(c.key, cron.seen) /\ ~c.active
HfDue(c) == Breached(c.key, cron.seen) /\ ~c.active /\ c.since >= Floor
Sends(c) == Kind[c.key] # "hf" \/ HfDue(c)

\* A row that does not alert: its latch is cleared if it recovered.
PassHf(c) ==
    /\ cron.pc = "send" /\ c \in cron.todo /\ ~Sends(c)
    /\ LET rearms == c.active /\ Recovered(c.key, cron.seen)
       IN /\ subs' = IF rearms THEN WithRow(c, LAMBDA s : [s EXCEPT !.active = FALSE]) ELSE subs
          /\ told' = [told EXCEPT ![c.key] = @ /\ ~(rearms /\ subs[c.key].id = c.id)]
    /\ cron' = Proceed(cron.todo \ {c})
    /\ UNCHANGED <<rates, mailed, quiet, calm>>

\* The provider accepts the message.  A message to a row deleted meanwhile
\* belongs to no subscription any more.
Accepted(c) ==
    /\ cron.pc = "send" /\ c \in cron.todo /\ Sends(c)
    /\ cron' = [cron EXCEPT !.pc = "latch", !.cur = {c}, !.todo = @ \ {c}]
    /\ IF subs[c.key].id = c.id
       THEN /\ mailed' = [mailed EXCEPT ![c.key] = @ + 1]
            /\ quiet' = [quiet EXCEPT ![c.key] = 0]
            /\ told' = [told EXCEPT ![c.key] = TRUE]
       ELSE UNCHANGED ghosts
    /\ UNCHANGED <<subs, rates, calm>>

Refused(c) == /\ ~calm /\ cron.pc = "send" /\ c \in cron.todo /\ Sends(c)
              /\ cron' = Proceed(cron.todo \ {c})
              /\ UNCHANGED <<subs, rates, ghosts, calm>>

\* The push service answers 404 or 410: the row goes.
Gone(c) == /\ ~calm /\ cron.pc = "send" /\ c \in cron.todo /\ Kind[c.key] = "push"
           /\ subs' = WithRow(c, LAMBDA s : NoRow)
           /\ cron' = Proceed(cron.todo \ {c})
           /\ UNCHANGED <<rates, ghosts, calm>>

Latch(c) == /\ cron.pc = "latch" /\ c \in cron.cur
            /\ subs' = WithRow(c, LAMBDA s : [s EXCEPT !.active = TRUE, !.since = 0])
            /\ cron' = Proceed(cron.todo)
            /\ UNCHANGED <<rates, ghosts, calm>>

\* A send that throws, a query outside a try, or the end of the invocation
\* ends the tick where it is.  A message whose latch is lost so is excused.
Abort ==
    /\ ~calm /\ cron.pc # "idle"
    /\ cron' = Idle
    /\ LET lost == {c.key : c \in cron.cur}
       IN /\ mailed' = [k \in Keys |-> IF k \in lost THEN 0 ELSE mailed[k]]
          /\ quiet' = [k \in Keys |-> IF k \in lost THEN Never ELSE quiet[k]]
    /\ UNCHANGED <<subs, rates, told, calm>>

-----------------------------------------------------------------------------
Init ==
    /\ subs = [k \in Keys |-> NoRow]
    /\ rates \in [AssetSet -> RateValues]
    /\ cron = Idle
    /\ mailed = [k \in Keys |-> 0]
    /\ told = [k \in Keys |-> FALSE]
    /\ quiet = [k \in Keys |-> Never]
    /\ calm = FALSE

OutagesEnd == /\ ~calm /\ calm' = TRUE
              /\ UNCHANGED <<subs, rates, cron, ghosts>>

Visitor == \E k \in Keys : \/ Subscribe(k) \/ Verify(k) \/ Unsubscribe(k)
                            \/ PushSubscribe(k) \/ PushUnsubscribe(k)
OnCopy(k) == \E c \in InFlight : c.key = k /\ (Accepted(c) \/ PassHf(c))
OnLatch(k) == \E c \in InFlight : c.key = k /\ Latch(c)
Faults == FetchFails \/ RearmFails \/ Abort \/ \E c \in InFlight : Refused(c) \/ Gone(c)
Tick == \/ StartTick
        \/ \E a \in AssetSet : Fetch(a) \/ Rearm(a) \/ \E j \in 1..Jobs : Select(a, j)
        \/ \E k \in Keys : OnCopy(k) \/ OnLatch(k)
Next == Visitor \/ Tick \/ Faults \/ OutagesEnd \/ \E a \in AssetSet : RatesMove(a)

\* Ticks are started for ever and run on; at some time the last fetch, message,
\* query or invocation has failed.
Fairness == WF_vars(Tick) /\ WF_vars(OutagesEnd)

Spec == Init /\ [][Next]_vars
FairSpec == Spec /\ Fairness

-----------------------------------------------------------------------------
(* Properties. *)

\* A breach episode produces one message per subscription, whatever the handlers
\* do while a tick is sending (index.ts 28-31): a second one only after the metric
\* was seen recovered past the margin, a new subscription, or a latch lost between
\* send and UPDATE.
OneAlertPerEpisode == \A k \in Keys : mailed[k] <= 1

\* A row is silenced only if its address was told: no reordering of a send with a
\* re-subscription, an unsubscription or a re-arming latches a row nobody was
\* messaged about, which would hide the next breach (rows are latched by id).
LatchMeansTold == \A k \in Keys : subs[k].active => told[k]

\* Two messages to one row are MIN_REALERT_HOURS apart, across episodes too.
FloorBetweenAlerts ==
    [][\A k \in Keys : mailed'[k] > mailed[k] => quiet[k] >= Floor]_vars

Latched(k) == subs[k].active /\ subs[k].verified /\ Recovered(k, rates[AssetOf[k]])
Alerting(k) == Present(k) /\ subs[k].verified /\ Breached(k, rates[AssetOf[k]])
\* The latch follows the metric: a verified subscription whose metric stays breached
\* ends up alerted, and a latched one whose metric stays recovered is armed again,
\* however visitors re-subscribe and verify meanwhile.
LatchFollowsMetric ==
    \A k \in Keys : /\ Alerting(k) ~> (subs[k].active \/ ~Alerting(k))
                   /\ Latched(k) ~> ~Latched(k)
=============================================================================

-------------------------------- MODULE RateLog --------------------------------
(***************************************************************************)
(* The time series of the alert worker: the rows the cron tick appends to  *)
(* rate_snapshots and prunes, and GET /snapshots, which hands them out page *)
(* by page to a reader who comes back with the cursor of the last page.    *)
(***************************************************************************)
EXTENDS Integers, Sequences, FiniteSets, FiniteSetsExt

CONSTANTS Series,   \* the pool/asset pairs
          Limit,    \* rows per page, 1..500 in the code
          MaxRow    \* bound: rows ever written

ASSUME LogAssumption == Limit \in Nat \ {0}

VARIABLES log,      \* [id, series] of the rows in rate_snapshots
          lastId,   \* the AUTOINCREMENT counter
          reader    \* a visitor: where the paging is, what it got, what it had to get
logVars == <<log, lastId, reader>>

Ids(rows) == {r.id : r \in rows}
Idling == [paging |-> FALSE, series |-> {}, before |-> 0, got |-> <<>>, owed |-> {}]

\* One row per covered pool/asset and tick; an insert that fails is logged.
WriteSnapshot(s) ==
    /\ lastId < MaxRow
    /\ lastId' = lastId + 1
    /\ log' = log \cup {[id |-> lastId + 1, series |-> s]}
    /\ UNCHANGED reader

\* The rows past the retention window: the clock runs with the ids.
PruneSnapshots == /\ log # {}
                  /\ \E cut \in Ids(log) : log' = {r \in log : r.id > cut}
                  /\ UNCHANGED <<lastId, reader>>

\* SELECT ... WHERE series AND id < before ORDER BY id DESC LIMIT: the newest first.
Matching(ss, before) == {r.id : r \in {x \in log : x.series \in ss /\ x.id < before}}
\* Mutant: the cursor itself is on the next page.
PageFromCursor(ss, before) == {i \in Matching(ss, before + 1) :
                                 Cardinality({j \in Matching(ss, before + 1) : j > i}) < Limit}
PageOf(ss, before) == {i \in Matching(ss, before) :
                         Cardinality({j \in Matching(ss, before) : j > i}) < Limit}

\* ORDER BY id DESC.
Descending(S) == CHOOSE s \in [1..Cardinality(S) -> S] :
                   /\ {s[i] : i \in 1..Cardinality(S)} = S
                   /\ \A i, j \in 1..Cardinality(S) : i < j => s[i] > s[j]

\* nextCursor: none after a page that was not full.
Page(ss, before) ==
    LET page == PageOf(ss, before)
    IN [ids |-> Descending(page),
        next |-> IF Cardinality(page) = Limit THEN Min(page) ELSE 0]

Turn(ss, before, got, owed) ==
    LET page == Page(ss, before)
    IN reader' = [paging |-> page.next # 0, series |-> ss, before |-> page.next,
                  got |-> got \o page.ids, owed |-> owed]

\* The first page of one series, or of all.
HandleSnapshots ==
    /\ ~reader.paging
    /\ \E ss \in {{s} : s \in Series} \cup {Series} :
         Turn(ss, lastId + 1, <<>>, Matching(ss, lastId + 1))
    /\ UNCHANGED <<log, lastId>>
NextPage == /\ reader.paging
            /\ Turn(reader.series, reader.before, reader.got, reader.owed)
            /\ UNCHANGED <<log, lastId>>

LogInit == log = {} /\ lastId = 0 /\ reader = Idling
LogNext == (\E s \in Series : WriteSnapshot(s)) \/ PruneSnapshots \/ HandleSnapshots \/ NextPage
LogSpec == LogInit /\ [][LogNext]_logVars

-----------------------------------------------------------------------------
\* What a reader collects page by page is the series as it stood at the first page:
\* newest first, nothing twice, nothing newer, and nothing left out but what the
\* retention window dropped meanwhile, however many rows are written in between.
PagesAreTheSeries ==
    LET got == reader.got
        kept == reader.owed \cap Ids(log)
    IN /\ \A i, j \in 1..Len(got) : i < j => got[i] > got[j]
       /\ \A i \in 1..Len(got) : got[i] \in reader.owed
       /\ ~reader.paging => \A i \in kept : \E n \in 1..Len(got) : got[n] = i
=============================================================================

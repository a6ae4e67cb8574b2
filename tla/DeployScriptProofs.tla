-------------------------- MODULE DeployScriptProofs --------------------------
(***************************************************************************)
(* What the deployment scripts put on offer is wired, for any list of      *)
(* assets and any number of runs, lost calls and changes of the pool.      *)
(***************************************************************************)
EXTENDS DeployScript, SequenceTheorems, TLAPS

-----------------------------------------------------------------------------
(* The inductive invariant.                                                *)

Places == DOMAIN Assets
Late == {"token", "set_share_token", "set_swap_account", "set_min_harvest_rate"}
Stages == Calls \union {"preflight", "write", "done", "exited"}
Ids == [strategy : Nat, token : Nat]
Contract == [symbol : Symbols, token : Nat, swap : BOOLEAN, rate : Nat]

RunType == run \in [pc : Stages, at : Places, passed : BOOLEAN, sent : BOOLEAN,
                    answer : {"", "SUCCESS", "FAILED"}, value : Nat, strategy : Nat, token : Nat,
                    out : [Symbols -> Ids]]
ChainType == strategies \in Seq(Contract) /\ tokens \in Seq(Nat)
FilesType == file \in [Symbols -> Ids] /\ offered \in [Symbols -> Ids]
OddsType == odds \in [launches : Nat, shifts : 0..Shifts, mishaps : Nat]
QueueType == queued \subseteq [pc : Calls, at : Places, strategy : Nat, token : Nat, awaited : BOOLEAN]

(* What a call presupposes of the contracts it is about.                   *)
Deployed(at, s) == s \in DOMAIN strategies /\ strategies[s].symbol = Assets[at].symbol
Issued(s, t) == t \in DOMAIN tokens /\ tokens[t] = s
Ready(pc, at, s, t) ==
    /\ pc \in Late => Deployed(at, s)
    /\ pc = "token" => strategies[s].token = Unset
    /\ pc \in Late \ {"token"} => Issued(s, t) /\ strategies[s].token \in {Unset, t}
    /\ pc \in {"set_swap_account", "set_min_harvest_rate"} => strategies[s].token = t
    /\ pc = "set_min_harvest_rate" => strategies[s].swap
Prepared ==
    /\ Ready(run.pc, run.at, run.strategy, run.token)
    /\ \A t \in queued : Ready(t.pc, t.at, t.strategy, t.token)
(* What a call that succeeded leaves behind for the script to go on with.  *)
Fulfilled ==
    run.answer = "SUCCESS" =>
        /\ run.pc = "strategy" => Deployed(run.at, run.value) /\ strategies[run.value].token = Unset
        /\ run.pc = "token" => Issued(run.strategy, run.value)
        /\ run.pc = "set_share_token" => strategies[run.strategy].token = run.token
        /\ run.pc = "set_swap_account" => strategies[run.strategy].swap
(* The calls in the queue: none once one was answered, one awaited at most, *)
(* one for each strategy at most.                                          *)
Awaited ==
    /\ run.answer # "" => queued = {} /\ run.sent /\ run.pc \in Calls
    /\ \A t \in queued : t.awaited => t = Job /\ run.sent
    /\ \A t \in queued : t.pc \in Late /\ run.pc \in Late /\ t.strategy = run.strategy => t.awaited
    /\ \A t, u \in queued : t.pc \in Late /\ u.pc \in Late /\ t.strategy = u.strategy => t = u

Wired(ids, sym) ==
    ids.strategy # Unset =>
        /\ ids.strategy \in DOMAIN strategies /\ ids.token \in DOMAIN tokens
        /\ strategies[ids.strategy].symbol = sym
        /\ strategies[ids.strategy].token = ids.token
        /\ tokens[ids.token] = ids.strategy
        /\ strategies[ids.strategy].swap
Wirings == \A s \in Symbols : Wired(run.out[s], s) /\ Wired(file[s], s) /\ Wired(offered[s], s)

SoundAt(i) == Sound(Assets[i], reserve[Assets[i].symbol])
Judged ==
    venue.net = "mainnet" /\ odds.shifts = Shifts =>
        /\ run.pc = "preflight" /\ run.passed => \A i \in 1..(run.at - 1) : SoundAt(i)
        /\ \/ run.pc \notin {"preflight", "exited"}
           \/ \E s \in Symbols : run.out[s].strategy # Unset \/ file[s].strategy # Unset \/ offered[s].strategy # Unset
           => \A i \in Places : SoundAt(i)

TypesOK == RunType /\ ChainType /\ FilesType /\ OddsType /\ QueueType
DInv == TypesOK /\ Prepared /\ Fulfilled /\ Awaited /\ Wirings /\ Judged

-----------------------------------------------------------------------------
LEMMA SomeAsset == 1 \in Places /\ Places = 1..Len(Assets) /\ Len(Assets) \in Nat
                   /\ \A i \in Places : Assets[i].symbol \in Symbols /\ Assets[i].rate \in Nat
<1>1. /\ Assets \in Seq([symbol : STRING, c : Nat, loops : Nat, minHf : Nat, orange : Nat, rate : Nat])
      /\ Assets # <<>>
  BY DeployConstantsOK
<1>2. DOMAIN Assets = 1..Len(Assets) /\ Len(Assets) \in Nat /\ Len(Assets) # 0
  BY <1>1, EmptySeq, LenProperties
<1>3. \A i \in DOMAIN Assets : Assets[i] \in [symbol : STRING, c : Nat, loops : Nat, minHf : Nat, orange : Nat, rate : Nat]
  BY <1>1, <1>2, ElementOfSeq
<1> QED
  BY <1>2, <1>3 DEF Places, Symbols

(* The state a run starts in has nothing behind it.                        *)
LEMMA FreshRun ==
  ASSUME NEW r, r = Launched \/ r = BrokenOff
  PROVE  /\ r \in [pc : Stages, at : Places, passed : BOOLEAN, sent : BOOLEAN,
                   answer : {"", "SUCCESS", "FAILED"}, value : Nat, strategy : Nat, token : Nat,
                   out : [Symbols -> Ids]]
         /\ r.pc \notin Late /\ r.answer = "" /\ r.sent = FALSE /\ r.at = 1
         /\ \A s \in Symbols : r.out[s].strategy = Unset
         /\ r = Launched => r.pc # "exited" /\ (venue.net = "mainnet" => r.pc = "preflight")
         /\ r = BrokenOff => r.pc = "exited"
         /\ r = Launched => r.pc \in {"preflight", "strategy wasm"}
<1>1. PICK pc \in {"preflight", "strategy wasm", "exited"} :
        /\ r = [pc |-> pc, at |-> 1, passed |-> TRUE, sent |-> FALSE, answer |-> "", value |-> 0,
                strategy |-> Unset, token |-> Unset, out |-> Nothing]
        /\ r = Launched => pc # "exited" /\ (venue.net = "mainnet" => pc = "preflight")
        /\ r = BrokenOff => pc = "exited"
  <2>1. CASE r = Launched /\ venue.net = "mainnet"
    <3>1. Launched # BrokenOff
      BY <2>1 DEF Launched, BrokenOff
    <3> QED BY <2>1, <3>1 DEF Launched
  <2>2. CASE r = Launched /\ venue.net # "mainnet"
    <3>1. Launched # BrokenOff
      BY <2>2 DEF Launched, BrokenOff
    <3> QED BY <2>2, <3>1 DEF Launched
  <2>3. CASE r = BrokenOff
    <3>1. Launched # BrokenOff
      BY DEF Launched, BrokenOff
    <3> QED BY <2>3, <3>1 DEF Launched, BrokenOff
  <2> QED BY <2>1, <2>2, <2>3
<1>2. Nothing \in [Symbols -> Ids] /\ \A s \in Symbols : Nothing[s].strategy = Unset
  BY DEF Nothing, Ids, Unset
<1>3. pc \in Stages /\ pc \notin Late
  BY DEF Stages, Late, Calls
<1> QED
  BY <1>1, <1>2, <1>3, SomeAsset DEF Unset

LEMMA DeployInitOK == DeployInit => DInv
<1> SUFFICES ASSUME DeployInit PROVE DInv OBVIOUS
<1>1. run = Launched /\ queued = {} /\ strategies = <<>> /\ tokens = <<>> /\ file = Nothing /\ offered = Nothing
      /\ odds = [launches |-> Launches - 1, shifts |-> Shifts, mishaps |-> Mishaps]
  BY DEF DeployInit
<1>2. TypesOK
  <2>1. RunType /\ FilesType
    BY <1>1, FreshRun DEF RunType, FilesType, Nothing, Ids, Unset
  <2>2. ChainType
    BY <1>1, EmptySeq DEF ChainType
  <2>3. OddsType /\ QueueType
    BY <1>1, DeployConstantsOK DEF OddsType, QueueType
  <2> QED BY <2>1, <2>2, <2>3 DEF TypesOK
<1>3. Prepared /\ Fulfilled /\ Awaited
  BY <1>1, FreshRun DEF Prepared, Ready, Fulfilled, Awaited
<1>4. Wirings
  BY <1>1, FreshRun DEF Wirings, Wired, Nothing, Unset
<1>5. Judged
  <2>1. \A s \in Symbols : run.out[s].strategy = Unset /\ file[s].strategy = Unset /\ offered[s].strategy = Unset
    BY <1>1, FreshRun DEF Nothing
  <2>2. run.at = 1 /\ (venue.net = "mainnet" => run.pc = "preflight")
    BY <1>1, FreshRun
  <2> QED BY <2>1, <2>2 DEF Judged
<1> QED BY <1>2, <1>3, <1>4, <1>5 DEF DInv

(* While the contracts are as they were, what is wired stays wired and what *)
(* is ready stays ready.                                                   *)
LEMMA ContractsStay ==
  ASSUME strategies' = strategies, tokens' = tokens
  PROVE  /\ ChainType => ChainType'
         /\ \A pc, at, s, t : Ready(pc, at, s, t) => Ready(pc, at, s, t)'
         /\ \A ids, sym : Wired(ids, sym) => Wired(ids, sym)'
BY DEF ChainType, Ready, Deployed, Issued, Wired

(* A run that ends, or another one that begins, abandons what is queued.   *)
LEMMA AbandonKeeps ==
  ASSUME DInv, run' = BrokenOff \/ run' = Launched,
         UNCHANGED <<venue, strategies, tokens, reserve, file, offered>>,
         queued' = {[t EXCEPT !.awaited = FALSE] : t \in queued} \/ (queued' = queued /\ \A t \in queued : ~t.awaited),
         OddsType', odds'.shifts = odds.shifts
  PROVE  DInv'
<1> USE DEF DInv
<1>1. RunType' /\ run'.pc \notin Late /\ run'.answer = "" /\ (\A s \in Symbols : run'.out[s].strategy = Unset)
      /\ run'.at = 1 /\ (venue.net = "mainnet" => run'.pc \in {"preflight", "exited"})
  BY FreshRun DEF RunType
<1>2. /\ QueueType'
      /\ \A t \in queued' : ~t.awaited
      /\ \A t \in queued' : \E u \in queued : t.pc = u.pc /\ t.at = u.at /\ t.strategy = u.strategy /\ t.token = u.token
      /\ \A t, u \in queued' : t.pc \in Late /\ u.pc \in Late /\ t.strategy = u.strategy => t = u
  <2>1. CASE queued' = queued /\ \A t \in queued : ~t.awaited
    BY <2>1 DEF QueueType, TypesOK, Awaited
  <2>2. CASE queued' = {[t EXCEPT !.awaited = FALSE] : t \in queued}
    <3>1. \A t \in queued : t \in [pc : Calls, at : Places, strategy : Nat, token : Nat, awaited : BOOLEAN]
      BY DEF QueueType, TypesOK
    <3>2. \A t \in queued' : \E u \in queued : t = [u EXCEPT !.awaited = FALSE]
      BY <2>2
    <3>3. \A t, u \in queued : t.pc \in Late /\ u.pc \in Late /\ t.strategy = u.strategy => t = u
      BY DEF Awaited
    <3>4. \A t \in queued' :
            /\ t \in [pc : Calls, at : Places, strategy : Nat, token : Nat, awaited : BOOLEAN] /\ ~t.awaited
            /\ \E u \in queued : t = [u EXCEPT !.awaited = FALSE] /\ t.pc = u.pc /\ t.at = u.at
                                 /\ t.strategy = u.strategy /\ t.token = u.token
      BY <3>1, <3>2
    <3>5. ASSUME NEW t \in queued', NEW u \in queued', t.pc \in Late, u.pc \in Late, t.strategy = u.strategy
          PROVE  t = u
      <4>1. PICK a \in queued : t = [a EXCEPT !.awaited = FALSE] /\ t.pc = a.pc /\ t.strategy = a.strategy
        BY <3>4
      <4>2. PICK b \in queued : u = [b EXCEPT !.awaited = FALSE] /\ u.pc = b.pc /\ u.strategy = b.strategy
        BY <3>4
      <4>3. a = b
        BY <4>1, <4>2, <3>3, <3>5
      <4> QED BY <4>1, <4>2, <4>3
    <3> QED BY <3>4, <3>5 DEF QueueType
  <2> QED BY <2>1, <2>2
<1>3. TypesOK'
  BY <1>1, <1>2, ContractsStay DEF TypesOK, FilesType
<1>4. Prepared'
  <2>1. Ready(run.pc, run.at, run.strategy, run.token)'
    BY <1>1 DEF Ready, Late
  <2>2. \A t \in queued' : Ready(t.pc, t.at, t.strategy, t.token)'
    BY <1>2, ContractsStay DEF Prepared
  <2> QED BY <2>1, <2>2 DEF Prepared
<1>5. Fulfilled' /\ Awaited'
  BY <1>1, <1>2 DEF Fulfilled, Awaited
<1>6. Wirings'
  BY <1>1, ContractsStay DEF Wirings, Wired
<1>7. Judged'
  <2> SUFFICES ASSUME venue.net = "mainnet", odds.shifts = Shifts
               PROVE  /\ \A i \in 1..(run'.at - 1) : SoundAt(i)'
                      /\ \/ run'.pc \notin {"preflight", "exited"}
                         \/ \E s \in Symbols : \/ run'.out[s].strategy # Unset \/ file[s].strategy # Unset
                                              \/ offered[s].strategy # Unset
                         => \A i \in Places : SoundAt(i)'
    BY DEF Judged
  <2>1. \A i : SoundAt(i)' = SoundAt(i)
    BY DEF SoundAt
  <2>2. 1..(run'.at - 1) = {}
    <3>1. run'.at = 1
      BY <1>1
    <3>2. \A n : n = 1 => 1..(n - 1) = {}
      OBVIOUS
    <3> QED BY <3>1, <3>2
  <2>3. (\E s \in Symbols : file[s].strategy # Unset \/ offered[s].strategy # Unset) => \A i \in Places : SoundAt(i)
    BY DEF Judged
  <2> QED BY <1>1, <2>1, <2>2, <2>3
<1> QED BY <1>3, <1>4, <1>5, <1>6, <1>7

(* A step in which nothing happens to the contracts, the calls and the     *)
(* entries, and the run stays at its call.                                 *)
LEMMA PauseKeeps ==
  ASSUME DInv, UNCHANGED <<venue, strategies, tokens, file, offered>>,
         queued' \subseteq queued,
         run' = run \/ (run' = [run EXCEPT !.sent = TRUE] /\ run.pc \in Calls),
         OddsType', (odds'.shifts = odds.shifts /\ reserve' = reserve) \/ odds'.shifts < odds.shifts
  PROVE  DInv'
<1> USE DEF DInv
<1>1. /\ RunType' /\ run'.pc = run.pc /\ run'.at = run.at /\ run'.strategy = run.strategy /\ run'.token = run.token
      /\ run'.answer = run.answer /\ run'.value = run.value /\ run'.out = run.out /\ run'.passed = run.passed
      /\ run.sent => run'.sent
  BY DEF TypesOK, RunType
<1>2. TypesOK'
  BY <1>1, ContractsStay DEF TypesOK, FilesType, QueueType
<1>3. Prepared'
  BY <1>1, ContractsStay DEF Prepared
<1>4. Fulfilled'
  BY <1>1 DEF Fulfilled, Deployed, Issued
<1>5. Awaited'
  BY <1>1 DEF Awaited, Job
<1>6. Wirings'
  BY <1>1, ContractsStay DEF Wirings
<1>7. Judged'
  <2>1. CASE odds'.shifts = odds.shifts /\ reserve' = reserve
    BY <2>1, <1>1 DEF Judged, SoundAt
  <2>2. CASE odds'.shifts < odds.shifts
    <3>1. odds.shifts \in 0..Shifts /\ Shifts \in Nat
      BY DeployConstantsOK DEF TypesOK, OddsType
    <3>2. odds'.shifts # Shifts
      <4>1. odds'.shifts \in 0..Shifts
        BY DEF OddsType
      <4> QED BY <2>2, <3>1, <4>1
    <3> QED BY <3>2 DEF Judged
  <2> QED BY <2>1, <2>2
<1> QED BY <1>2, <1>3, <1>4, <1>5, <1>6, <1>7

(* A draw takes one from its odds and leaves the others.                   *)
LEMMA DrawsOne ==
  ASSUME OddsType, NEW o \in {"launches", "shifts", "mishaps"}, Draws(o)
  PROVE  OddsType' /\ (o # "shifts" => odds'.shifts = odds.shifts) /\ (o = "shifts" => odds'.shifts < odds.shifts)
<1>1. odds[o] > 0 /\ odds' = [odds EXCEPT ![o] = odds[o] - 1]
  BY DEF Draws
<1>2. odds \in [launches : Nat, shifts : 0..Shifts, mishaps : Nat] /\ Shifts \in Nat
  BY DeployConstantsOK DEF OddsType
<1>3. CASE o = "launches"
  BY <1>1, <1>2, <1>3 DEF OddsType
<1>4. CASE o = "shifts"
  BY <1>1, <1>2, <1>4 DEF OddsType
<1>5. CASE o = "mishaps"
  BY <1>1, <1>2, <1>5 DEF OddsType
<1> QED BY <1>3, <1>4, <1>5

LEMMA SignSubmitKeeps == DInv /\ SignSubmit => DInv'
<1> SUFFICES ASSUME DInv, SignSubmit PROVE DInv' OBVIOUS
<1>u. UNCHANGED <<venue, strategies, tokens, reserve, file, offered, odds>> /\ run.pc \in Calls /\ run.sent = FALSE
  BY DEF SignSubmit, deployed
<1>o. OddsType' /\ odds'.shifts = odds.shifts
  BY <1>u DEF DInv, TypesOK, OddsType
<1>1. CASE run' = BrokenOff /\ UNCHANGED queued
  <2>1. \A t \in queued : ~t.awaited
    BY <1>u DEF DInv, Awaited
  <2> QED BY <1>1, <1>u, <1>o, <2>1, AbandonKeeps
<1>2. CASE run' = [run EXCEPT !.sent = TRUE] /\ queued' = queued \union {Job}
  <2> USE DEF DInv
  <2>1. /\ RunType' /\ run'.pc = run.pc /\ run'.at = run.at /\ run'.strategy = run.strategy /\ run'.token = run.token
        /\ run'.answer = run.answer /\ run'.value = run.value /\ run'.out = run.out /\ run'.passed = run.passed
        /\ run'.sent
    BY <1>2 DEF TypesOK, RunType
  <2>2. Job \in [pc : Calls, at : Places, strategy : Nat, token : Nat, awaited : BOOLEAN]
        /\ Job.pc = run.pc /\ Job.at = run.at /\ Job.strategy = run.strategy /\ Job.token = run.token /\ Job.awaited /\ Job' = Job
    BY <1>u, <2>1 DEF Job, TypesOK, RunType
  <2>3. TypesOK'
    BY <1>2, <1>u, <2>1, <2>2, ContractsStay DEF TypesOK, FilesType, QueueType, OddsType
  <2>4. Prepared'
    BY <1>2, <1>u, <2>1, <2>2, ContractsStay DEF Prepared
  <2>5. run.answer = "" /\ \A t \in queued : ~t.awaited
    BY <1>u DEF Awaited
  <2>6. Fulfilled' /\ Awaited'
    <3>1. Fulfilled'
      BY <2>1, <2>5 DEF Fulfilled
    <3>2. run'.answer = ""
      BY <2>1, <2>5
    <3>3. \A t \in queued' : t.awaited => t = Job' /\ run'.sent
      BY <1>2, <2>1, <2>2, <2>5
    <3>4. \A t \in queued' : t.pc \in Late /\ run'.pc \in Late /\ t.strategy = run'.strategy => t.awaited
      BY <1>2, <2>1, <2>2 DEF Awaited
    <3>5. ASSUME NEW t \in queued', NEW u \in queued', t.pc \in Late, u.pc \in Late, t.strategy = u.strategy
          PROVE  t = u
      <4>1. CASE t = Job \/ u = Job
        BY <4>1, <1>2, <2>1, <2>2, <2>5, <3>5 DEF Awaited
      <4>2. CASE t # Job /\ u # Job
        BY <4>2, <1>2, <3>5 DEF Awaited
      <4> QED BY <4>1, <4>2
    <3> QED BY <3>1, <3>2, <3>3, <3>4, <3>5 DEF Awaited
  <2>7. Wirings' /\ Judged'
    BY <1>u, <2>1, ContractsStay DEF Wirings, Judged, SoundAt
  <2> QED BY <2>3, <2>4, <2>6, <2>7
<1> QED BY <1>1, <1>2 DEF SignSubmit

LEMMA MishapsKeep == DInv /\ (Untaken \/ RunThrows \/ Lost \/ (\E s \in Symbols : Shift(s)) \/ Relaunch) => DInv'
<1> SUFFICES ASSUME DInv, Untaken \/ RunThrows \/ Lost \/ (\E s \in Symbols : Shift(s)) \/ Relaunch PROVE DInv' OBVIOUS
<1>o. OddsType BY DEF DInv, TypesOK
<1>1. CASE Untaken
  BY <1>1, <1>o, DrawsOne, PauseKeeps DEF Untaken, deployed
<1>2. CASE RunThrows
  BY <1>2, <1>o, DrawsOne, AbandonKeeps DEF RunThrows, deployed
<1>3. CASE Lost
  BY <1>3, <1>o, DrawsOne, PauseKeeps DEF Lost, deployed
<1>4. CASE \E s \in Symbols : Shift(s)
  BY <1>4, <1>o, DrawsOne, PauseKeeps DEF Shift, deployed
<1>5. CASE Relaunch
  BY <1>5, <1>o, DrawsOne, AbandonKeeps DEF Relaunch, deployed
<1> QED BY <1>1, <1>2, <1>3, <1>4, <1>5
(* A run that goes on to something it is ready for, when none of the queued *)
(* calls is its own.                                                       *)
LEMMA ProceedKeeps ==
  ASSUME DInv, UNCHANGED <<queued, strategies, tokens>>, OddsType',
         \A t \in queued : ~t.awaited,
         \A t \in queued : t.pc \in Late /\ run'.pc \in Late => t.strategy # run'.strategy,
         RunType', FilesType', run'.answer = "",
         Ready(run'.pc, run'.at, run'.strategy, run'.token),
         Wirings', Judged'
  PROVE  DInv'
<1> USE DEF DInv
<1>1. TypesOK'
  BY ContractsStay DEF TypesOK, QueueType, OddsType
<1>2. Prepared'
  BY ContractsStay DEF Prepared
<1>3. Fulfilled' /\ Awaited'
  BY DEF Fulfilled, Awaited
<1> QED BY <1>1, <1>2, <1>3

(* A run that is at no call awaits none.                                   *)
LEMMA NotCalling == DInv /\ run.pc \notin Calls => \A t \in queued : ~t.awaited
<1> SUFFICES ASSUME DInv, run.pc \notin Calls, NEW t \in queued, t.awaited PROVE FALSE OBVIOUS
<1>1. t = Job /\ t.pc \in Calls
  BY DEF DInv, Awaited, TypesOK, QueueType
<1>2. Job.pc = run.pc
  BY DEF Job
<1> QED BY <1>1, <1>2

LEMMA MovedIs ==
  ASSUME RunType, NEW pc \in Stages
  PROVE  /\ Moved(pc) \in [pc : Stages, at : Places, passed : BOOLEAN, sent : BOOLEAN,
                    answer : {"", "SUCCESS", "FAILED"}, value : Nat, strategy : Nat, token : Nat,
                    out : [Symbols -> Ids]]
         /\ Moved(pc).pc = pc /\ Moved(pc).answer = "" /\ Moved(pc).at = run.at /\ Moved(pc).passed = run.passed
         /\ Moved(pc).strategy = run.strategy /\ Moved(pc).token = run.token /\ Moved(pc).out = run.out
BY DEF Moved, RunType

LEMMA NextAssetIs ==
  ASSUME RunType, NEW pc \in Stages, NEW end \in Stages
  PROVE  /\ NextAsset(pc, end) \in [pc : Stages, at : Places, passed : BOOLEAN, sent : BOOLEAN,
                    answer : {"", "SUCCESS", "FAILED"}, value : Nat, strategy : Nat, token : Nat,
                    out : [Symbols -> Ids]]
         /\ NextAsset(pc, end).answer = "" /\ NextAsset(pc, end).sent = FALSE
         /\ NextAsset(pc, end).out = run.out /\ NextAsset(pc, end).passed = run.passed
         /\ \/ run.at # Len(Assets) /\ NextAsset(pc, end).at = run.at + 1 /\ NextAsset(pc, end).pc = pc
            \/ run.at = Len(Assets) /\ NextAsset(pc, end).at = 1 /\ NextAsset(pc, end).pc = end
<1>1. run.at \in 1..Len(Assets) /\ Len(Assets) \in Nat /\ Places = 1..Len(Assets) /\ 1 \in Places
  BY SomeAsset DEF RunType
<1>2. CASE run.at < Len(Assets)
  <2>1. run.at # Len(Assets) /\ run.at + 1 \in Places
    BY <1>1, <1>2
  <2> QED BY <1>2, <2>1 DEF NextAsset, Moved, RunType
<1>3. CASE ~(run.at < Len(Assets))
  <2>1. run.at = Len(Assets)
    BY <1>1, <1>3
  <2> QED BY <1>1, <1>3, <2>1 DEF NextAsset, Moved, RunType
<1> QED BY <1>2, <1>3

LEMMA PreflightKeeps == DInv /\ Preflight => DInv'
<1> SUFFICES ASSUME DInv, Preflight PROVE DInv' OBVIOUS
<1> USE DEF DInv
<1>u. UNCHANGED <<venue, queued, strategies, tokens, reserve, file, offered>> /\ run.pc = "preflight"
  BY DEF Preflight, deployed
<1>n. \A t \in queued : ~t.awaited
  BY <1>u, NotCalling DEF Calls
<1>1. PICK ok \in {TRUE, FALSE} :
        /\ \/ ok = Sound(Asset, reserve[Asset.symbol]) /\ UNCHANGED odds
           \/ ~ok /\ Draws("mishaps")
        /\ run' = IF run.at = Len(Assets) /\ ~(run.passed /\ ok) THEN BrokenOff
                  ELSE [NextAsset("preflight", "strategy wasm") EXCEPT !.passed = run.passed /\ ok]
  BY DEF Preflight
<1>o. OddsType' /\ odds'.shifts = odds.shifts
  BY <1>1, DrawsOne DEF TypesOK, OddsType
<1>2. CASE run.at = Len(Assets) /\ ~(run.passed /\ ok)
  BY <1>1, <1>2, <1>u, <1>n, <1>o, AbandonKeeps
<1>3. CASE ~(run.at = Len(Assets) /\ ~(run.passed /\ ok))
  <2>1. /\ RunType' /\ run'.answer = "" /\ run'.out = run.out /\ run'.passed = (run.passed /\ ok)
        /\ \/ run.at # Len(Assets) /\ run'.at = run.at + 1 /\ run'.pc = "preflight"
           \/ run.at = Len(Assets) /\ run'.pc = "strategy wasm"
    <3>1. run' = [NextAsset("preflight", "strategy wasm") EXCEPT !.passed = run.passed /\ ok]
      BY <1>1, <1>3
    <3>2. "preflight" \in Stages /\ "strategy wasm" \in Stages /\ run.passed \in BOOLEAN
      BY DEF Stages, Calls, TypesOK, RunType
    <3> DEFINE na == NextAsset("preflight", "strategy wasm")
    <3>3. /\ na \in [pc : Stages, at : Places, passed : BOOLEAN, sent : BOOLEAN, answer : {"", "SUCCESS", "FAILED"},
                     value : Nat, strategy : Nat, token : Nat, out : [Symbols -> Ids]]
          /\ na.answer = "" /\ na.out = run.out
          /\ \/ run.at # Len(Assets) /\ na.at = run.at + 1 /\ na.pc = "preflight"
             \/ run.at = Len(Assets) /\ na.pc = "strategy wasm"
      BY <3>2, NextAssetIs DEF TypesOK
    <3>4. run' = [na EXCEPT !.passed = run.passed /\ ok]
      BY <3>1
    <3>5. (run.passed /\ ok) \in BOOLEAN
      OBVIOUS
    <3> HIDE DEF na
    <3> QED BY <3>3, <3>4, <3>5 DEF RunType
  <2>2. run'.pc \notin Late
    BY <2>1 DEF Late
  <2>3. Wirings'
    BY <1>u, <2>1, ContractsStay DEF Wirings
  <2>4. Judged'
    <3> SUFFICES ASSUME venue.net = "mainnet", odds.shifts = Shifts
                 PROVE  /\ run'.pc = "preflight" /\ run'.passed => \A i \in 1..(run'.at - 1) : SoundAt(i)
                        /\ \/ run'.pc \notin {"preflight", "exited"}
                           \/ \E s \in Symbols : \/ run.out[s].strategy # Unset \/ file[s].strategy # Unset
                                                \/ offered[s].strategy # Unset
                           => \A i \in Places : SoundAt(i)
      BY <1>u, <1>o, <2>1 DEF Judged, SoundAt
    <3>1. run.at \in 1..Len(Assets) /\ Places = 1..Len(Assets) /\ Len(Assets) \in Nat
      BY SomeAsset DEF TypesOK, RunType
    <3>2. ok => SoundAt(run.at)
      BY <1>1 DEF SoundAt, Asset
    <3>3. run.passed => \A i \in 1..(run.at - 1) : SoundAt(i)
      BY <1>u DEF Judged
    <3>4. run.passed /\ ok => \A i \in 1..run.at : SoundAt(i)
      BY <3>1, <3>2, <3>3
    <3>5. CASE run.at # Len(Assets)
      <4>1. run'.at - 1 = run.at
        <5>1. run'.at = run.at + 1 /\ run.at \in Nat
          <6>1. run'.at = run.at + 1
            BY <2>1, <3>5
          <6>2. \A m, n : m \in 1..n => m \in Nat
            OBVIOUS
          <6> QED BY <3>1, <6>1, <6>2
        <5>2. \A m, n : n \in Nat /\ m = n + 1 => m - 1 = n
          OBVIOUS
        <5> QED BY <5>1, <5>2
      <4> QED BY <1>u, <2>1, <3>4, <3>5, <4>1 DEF Judged
    <3>6. CASE run.at = Len(Assets)
      BY <1>3, <2>1, <3>1, <3>4, <3>6
    <3> QED BY <3>5, <3>6
  <2> QED BY <1>u, <1>n, <1>o, <2>1, <2>2, <2>3, <2>4, ProceedKeeps DEF Ready, TypesOK, FilesType
<1> QED BY <1>2, <1>3

LEMMA WriteFileKeeps == DInv /\ WriteFile => DInv'
<1> SUFFICES ASSUME DInv, WriteFile PROVE DInv' OBVIOUS
<1> USE DEF DInv
<1>u. UNCHANGED <<venue, queued, strategies, tokens, reserve, offered, odds>> /\ run.pc = "write"
      /\ file' = run.out /\ run' = Moved("done")
  BY DEF WriteFile, deployed
<1>1. RunType' /\ FilesType' /\ OddsType' /\ run'.answer = "" /\ run'.out = run.out /\ run'.pc = "done"
  BY <1>u DEF TypesOK, RunType, FilesType, OddsType, Moved, Stages
<1>2. Wirings' /\ Judged'
  BY <1>u, <1>1, ContractsStay DEF Wirings, Judged, SoundAt
<1>3. \A t \in queued : ~t.awaited
  BY <1>u, NotCalling DEF Calls
<1> QED BY <1>u, <1>1, <1>2, <1>3, ProceedKeeps DEF Ready, Late

LEMMA WireVaultsKeeps == DInv /\ WireVaults => DInv'
<1> SUFFICES ASSUME DInv, WireVaults PROVE DInv' OBVIOUS
<1> USE DEF DInv
<1>u. UNCHANGED <<venue, run, queued, strategies, tokens, reserve, file, odds>>
      /\ offered' = [s \in Symbols |-> Entry(offered[s], file[s])]
  BY DEF WireVaults, deployed
<1>1. \A s \in Symbols : offered'[s] = offered[s] \/ offered'[s] = file[s]
  BY <1>u DEF Entry
<1>2. TypesOK'
  BY <1>u, <1>1 DEF TypesOK, RunType, ChainType, FilesType, OddsType, QueueType
<1>3. Prepared' /\ Fulfilled' /\ Awaited'
  BY <1>u DEF Prepared, Ready, Fulfilled, Deployed, Issued, Awaited, Job
<1>4. Wirings' /\ Judged'
  BY <1>u, <1>1, ContractsStay DEF Wirings, Judged, SoundAt
<1> QED BY <1>2, <1>3, <1>4

LEMMA AnsweredKeeps == DInv /\ Answered => DInv'
<1> SUFFICES ASSUME DInv, Answered PROVE DInv' OBVIOUS
<1> USE DEF DInv
<1>u. UNCHANGED <<venue, queued, strategies, tokens, reserve, file, offered, odds>> /\ run.answer # ""
      /\ queued = {} /\ run.pc \in Calls
  BY DEF Answered, deployed, Awaited
<1>o. OddsType' /\ FilesType' /\ odds'.shifts = odds.shifts
  BY <1>u DEF TypesOK, OddsType, FilesType
<1>1. CASE run' = BrokenOff
  BY <1>1, <1>u, <1>o, AbandonKeeps
<1>2. CASE run.answer = "SUCCESS" /\ AfterCall
  <2>r. run.pc \in Late => Deployed(run.at, run.strategy)
    BY DEF Prepared, Ready
  <2>1. /\ RunType' /\ run'.answer = "" /\ run'.passed = run.passed /\ run'.pc \notin {"preflight", "exited"}
        /\ Ready(run'.pc, run'.at, run'.strategy, run'.token)
        /\ \/ run'.out = run.out
           \/ run'.out = Noted /\ Wired(Noted[Asset.symbol], Asset.symbol)
    <3>0. RunType /\ run.at \in Places /\ run.value \in Nat /\ Asset.symbol \in Symbols
      BY SomeAsset DEF TypesOK, RunType, Asset
    <3>1. CASE run.pc = "strategy wasm" /\ run' = Moved("token wasm")
      <4>m. /\ RunType' /\ run'.pc = "token wasm" /\ run'.at = run.at /\ run'.strategy = run.strategy
            /\ run'.token = run.token /\ run'.answer = "" /\ run'.passed = run.passed /\ run'.out = run.out
        BY <3>0, <3>1, MovedIs DEF Stages, Calls, RunType
      <4> QED BY <4>m DEF Ready, Late
    <3>2. CASE run.pc = "token wasm" /\ run' = Moved("strategy")
      <4>m. /\ RunType' /\ run'.pc = "strategy" /\ run'.at = run.at /\ run'.strategy = run.strategy
            /\ run'.token = run.token /\ run'.answer = "" /\ run'.passed = run.passed /\ run'.out = run.out
        BY <3>0, <3>2, MovedIs DEF Stages, Calls, RunType
      <4> QED BY <4>m DEF Ready, Late
    <3>3. CASE run.pc = "strategy" /\ run' = [Moved("token") EXCEPT !.strategy = run.value]
      <4>1. Deployed(run.at, run.value) /\ strategies[run.value].token = Unset
        BY <1>2, <3>3 DEF Fulfilled
      <4>2. RunType' /\ run'.pc = "token" /\ run'.at = run.at /\ run'.strategy = run.value /\ run'.answer = ""
            /\ run'.passed = run.passed /\ run'.out = run.out
        BY <3>0, <3>3, MovedIs DEF Stages, Calls, RunType
      <4> QED BY <4>1, <4>2 DEF Ready
    <3>4. CASE run.pc = "token" /\ run' = [Moved("set_share_token") EXCEPT !.token = run.value]
      <4>1. Issued(run.strategy, run.value) /\ strategies[run.strategy].token = Unset
        BY <1>2, <3>4 DEF Fulfilled, Prepared, Ready
      <4>2. RunType' /\ run'.pc = "set_share_token" /\ run'.at = run.at /\ run'.strategy = run.strategy
            /\ run'.token = run.value /\ run'.answer = "" /\ run'.passed = run.passed /\ run'.out = run.out
        BY <3>0, <3>4, MovedIs DEF Stages, Calls, RunType
      <4> QED BY <2>r, <3>4, <4>1, <4>2 DEF Ready, Late
    <3>5. CASE run.pc = "set_share_token" /\ run' = Moved("set_swap_account")
      <4>1. strategies[run.strategy].token = run.token /\ Issued(run.strategy, run.token)
        BY <1>2, <3>5 DEF Fulfilled, Prepared, Ready, Late
      <4>m. /\ RunType' /\ run'.pc = "set_swap_account" /\ run'.at = run.at /\ run'.strategy = run.strategy
            /\ run'.token = run.token /\ run'.answer = "" /\ run'.passed = run.passed /\ run'.out = run.out
        BY <3>0, <3>5, MovedIs DEF Stages, Calls, RunType
      <4> QED BY <2>r, <3>5, <4>1, <4>m DEF Ready, Late
    <3>6. CASE run.pc = "set_swap_account" /\ run' = Moved("set_min_harvest_rate")
      <4>1. strategies[run.strategy].token = run.token /\ Issued(run.strategy, run.token)
            /\ strategies[run.strategy].swap
        BY <1>2, <3>6 DEF Fulfilled, Prepared, Ready, Late
      <4>m. /\ RunType' /\ run'.pc = "set_min_harvest_rate" /\ run'.at = run.at /\ run'.strategy = run.strategy
            /\ run'.token = run.token /\ run'.answer = "" /\ run'.passed = run.passed /\ run'.out = run.out
        BY <3>0, <3>6, MovedIs DEF Stages, Calls, RunType
      <4> QED BY <2>r, <3>6, <4>1, <4>m DEF Ready, Late
    <3>7. CASE run.pc \in {"set_swap_account", "set_min_harvest_rate"} /\ run' = AssetDone
      <4>1. strategies[run.strategy].token = run.token /\ Issued(run.strategy, run.token)
            /\ strategies[run.strategy].swap /\ Deployed(run.at, run.strategy)
        BY <1>2, <3>7 DEF Fulfilled, Prepared, Ready, Late
      <4>2. Noted \in [Symbols -> Ids] /\ Noted[Asset.symbol] = [strategy |-> run.strategy, token |-> run.token]
        BY <3>0 DEF Noted, RunType, Ids
      <4>3. Wired(Noted[Asset.symbol], Asset.symbol)
        BY <4>1, <4>2 DEF Wired, Deployed, Issued, Asset
      <4> DEFINE na == NextAsset("strategy", "write")
      <4>4. /\ na \in [pc : Stages, at : Places, passed : BOOLEAN, sent : BOOLEAN, answer : {"", "SUCCESS", "FAILED"},
                       value : Nat, strategy : Nat, token : Nat, out : [Symbols -> Ids]]
            /\ na.answer = "" /\ na.passed = run.passed /\ na.pc \in {"strategy", "write"}
        <5>1. "strategy" \in Stages /\ "write" \in Stages
          BY DEF Stages, Calls
        <5> QED BY <3>0, <5>1, NextAssetIs
      <4>5. run' = [na EXCEPT !.out = Noted]
        BY <3>7 DEF AssetDone
      <4> HIDE DEF na
      <4>6. RunType' /\ run'.answer = "" /\ run'.passed = run.passed /\ run'.pc \in {"strategy", "write"} /\ run'.out = Noted
        BY <4>2, <4>4, <4>5 DEF RunType
      <4> QED BY <4>3, <4>6 DEF Ready, Late
    <3> QED BY <1>2, <3>1, <3>2, <3>3, <3>4, <3>5, <3>6, <3>7 DEF AfterCall
  <2>2. Wirings'
    <3>1. \A s \in Symbols : run'.out[s] = run.out[s] \/ Wired(run'.out[s], s)
      BY <2>1 DEF Noted, TypesOK, RunType
    <3> QED BY <1>u, <3>1, ContractsStay DEF Wirings
  <2>3. Judged'
    BY <1>u, <2>1 DEF Judged, SoundAt, Calls
  <2> QED BY <1>u, <1>o, <2>1, <2>2, <2>3, ProceedKeeps
<1> QED BY <1>1, <1>2 DEF Answered

(* The strategy that was made is the asset's, and has no token yet.        *)
MadeIs(t) == /\ Made(t) \in DOMAIN strategies' /\ strategies'[Made(t)].symbol = Assets[t.at].symbol
             /\ strategies'[Made(t)].token = Unset

(* What a call does to the contracts, seen from the other calls: nothing is *)
(* taken back, and only the strategy it is for may change.                 *)
LEMMA EffectKeeps ==
  ASSUME ChainType, NEW t \in [pc : Calls, at : Places, strategy : Nat, token : Nat, awaited : BOOLEAN],
         Ready(t.pc, t.at, t.strategy, t.token), Effect(t)
  PROVE  /\ ChainType'
         /\ \A s \in DOMAIN strategies :
               /\ s \in DOMAIN strategies'
               /\ strategies'[s].symbol = strategies[s].symbol
               /\ strategies[s].swap => strategies'[s].swap
               /\ strategies[s].token # Unset => strategies'[s].token = strategies[s].token
               /\ t.pc \notin Late \/ t.pc = "token" \/ s # t.strategy => strategies'[s] = strategies[s]
         /\ \A k \in DOMAIN tokens : k \in DOMAIN tokens' /\ tokens'[k] = tokens[k]
         /\ t.pc = "strategy" => MadeIs(t)
         /\ t.pc = "token" => Made(t) \in DOMAIN tokens' /\ tokens'[Made(t)] = t.strategy
         /\ t.pc = "set_share_token" => strategies'[t.strategy].token = t.token
         /\ t.pc = "set_swap_account" => strategies'[t.strategy].swap
<1>c. strategies \in Seq(Contract) /\ tokens \in Seq(Nat) /\ Len(strategies) \in Nat /\ Len(tokens) \in Nat
      /\ DOMAIN strategies = 1..Len(strategies) /\ DOMAIN tokens = 1..Len(tokens)
  BY LenProperties DEF ChainType
<1>e. \A s \in DOMAIN strategies : strategies[s] \in Contract
  BY <1>c, ElementOfSeq
<1>s. Assets[t.at].symbol \in Symbols /\ Assets[t.at].rate \in Nat
  BY SomeAsset
<1>1. CASE t.pc \in {"strategy wasm", "token wasm"} /\ UNCHANGED deployed
  BY <1>1 DEF deployed, ChainType, Late
<1>2. CASE t.pc = "strategy" /\ UNCHANGED tokens /\ strategies' = Append(strategies, [symbol |-> Assets[t.at].symbol,
                                                                  token |-> Unset, swap |-> FALSE, rate |-> Unset])
  <2> DEFINE new == [symbol |-> Assets[t.at].symbol, token |-> Unset, swap |-> FALSE, rate |-> Unset]
  <2>1. new \in Contract
    BY <1>s DEF Contract, Unset
  <2>2. new.symbol = Assets[t.at].symbol /\ new.token = Unset
    OBVIOUS
  <2> HIDE DEF new
  <2>3. /\ strategies' \in Seq(Contract) /\ Len(strategies') = Len(strategies) + 1
        /\ \A s \in 1..Len(strategies) : strategies'[s] = strategies[s]
        /\ strategies'[Len(strategies) + 1] = new
    BY <1>2, <1>c, <2>1, AppendProperties DEF new
  <2>4. DOMAIN strategies' = 1..(Len(strategies) + 1)
    BY <2>3, LenProperties
  <2>5. Made(t) = Len(strategies) + 1
    BY <1>2 DEF Made
  <2>6. Len(strategies) + 1 \in DOMAIN strategies' /\ DOMAIN strategies \subseteq DOMAIN strategies'
    BY <1>c, <2>4
  <2>8. MadeIs(t)
    <3>1. Made(t) \in DOMAIN strategies' /\ strategies'[Made(t)] = new
      BY <2>3, <2>5, <2>6
    <3>2. strategies'[Made(t)].symbol = Assets[t.at].symbol /\ strategies'[Made(t)].token = Unset
      BY <3>1, <2>2
    <3> QED BY <3>1, <3>2 DEF MadeIs
  <2> QED BY <1>2, <1>c, <2>3, <2>6, <2>8 DEF ChainType, Late
<1>3. CASE t.pc = "token" /\ tokens' = Append(tokens, t.strategy) /\ UNCHANGED strategies
  <2>1. /\ tokens' \in Seq(Nat) /\ Len(tokens') = Len(tokens) + 1
        /\ \A k \in 1..Len(tokens) : tokens'[k] = tokens[k]
        /\ tokens'[Len(tokens) + 1] = t.strategy
    BY <1>3, <1>c, AppendProperties
  <2>2. DOMAIN tokens' = 1..(Len(tokens) + 1)
    BY <2>1, LenProperties
  <2>3. Len(tokens) + 1 \in DOMAIN tokens' /\ DOMAIN tokens \subseteq DOMAIN tokens'
    BY <1>c, <2>2
  <2>4. Made(t) = Len(tokens) + 1
    BY <1>3 DEF Made
  <2>5. Made(t) \in DOMAIN tokens' /\ tokens'[Made(t)] = t.strategy
    BY <2>1, <2>3, <2>4
  <2> QED BY <1>3, <1>c, <2>1, <2>3, <2>5 DEF ChainType, Late
<1>4. CASE t.pc \in Late \ {"token"} /\ UNCHANGED tokens
           /\ \E c \in Contract :
                 /\ strategies' = [strategies EXCEPT ![t.strategy] = c]
                 /\ c.symbol = strategies[t.strategy].symbol
                 /\ strategies[t.strategy].swap => c.swap
                 /\ strategies[t.strategy].token # Unset => c.token = strategies[t.strategy].token
                 /\ t.pc = "set_share_token" => c.token = t.token
                 /\ t.pc = "set_swap_account" => c.swap
  <2>1. PICK c \in Contract :
          /\ strategies' = [strategies EXCEPT ![t.strategy] = c]
          /\ c.symbol = strategies[t.strategy].symbol
          /\ strategies[t.strategy].swap => c.swap
          /\ strategies[t.strategy].token # Unset => c.token = strategies[t.strategy].token
          /\ t.pc = "set_share_token" => c.token = t.token
          /\ t.pc = "set_swap_account" => c.swap
    BY <1>4
  <2>2. t.strategy \in DOMAIN strategies
    BY <1>4 DEF Ready, Deployed
  <2>3. strategies' \in Seq(Contract)
    BY <1>c, <2>1, <2>2, ExceptSeq
  <2>4. DOMAIN strategies' = DOMAIN strategies /\ strategies'[t.strategy] = c
        /\ \A s \in DOMAIN strategies : s # t.strategy => strategies'[s] = strategies[s]
    BY <2>1, <2>2
  <2>5. t.pc \in Late /\ t.pc # "token" /\ t.pc # "strategy"
    BY <1>4 DEF Late
  <2>6. ChainType' /\ tokens' = tokens
    BY <1>4, <2>3 DEF ChainType
  <2>7. ASSUME NEW s \in DOMAIN strategies
        PROVE  /\ s \in DOMAIN strategies'
               /\ strategies'[s].symbol = strategies[s].symbol
               /\ strategies[s].swap => strategies'[s].swap
               /\ strategies[s].token # Unset => strategies'[s].token = strategies[s].token
               /\ t.pc \notin Late \/ t.pc = "token" \/ s # t.strategy => strategies'[s] = strategies[s]
    BY <2>1, <2>4, <2>5
  <2> QED BY <2>1, <2>4, <2>5, <2>6, <2>7
<1>5. t.pc = "set_share_token" => t.strategy \in DOMAIN strategies /\ strategies[t.strategy].token \in {Unset, t.token}
  BY DEF Ready, Deployed, Late
<1>6. t.pc \in Late => t.strategy \in DOMAIN strategies
  BY DEF Ready, Deployed
<1>7. CASE t.pc = "set_share_token" /\ UNCHANGED tokens
           /\ strategies' = [strategies EXCEPT ![t.strategy].token = t.token]
  <2> DEFINE c == [strategies[t.strategy] EXCEPT !.token = t.token]
  <2>1. c \in Contract /\ c.symbol = strategies[t.strategy].symbol /\ c.swap = strategies[t.strategy].swap /\ c.token = t.token
    BY <1>5, <1>7, <1>e DEF Contract
  <2>2. strategies' = [strategies EXCEPT ![t.strategy] = c]
    BY <1>7
  <2> HIDE DEF c
  <2> QED BY <1>4, <1>5, <1>7, <2>1, <2>2 DEF Late
<1>8. CASE t.pc = "set_swap_account" /\ UNCHANGED tokens
           /\ strategies' = [strategies EXCEPT ![t.strategy].swap = TRUE]
  <2> DEFINE c == [strategies[t.strategy] EXCEPT !.swap = TRUE]
  <2>0. t.strategy \in DOMAIN strategies
    BY <1>6, <1>8 DEF Late
  <2>1. c \in Contract /\ c.symbol = strategies[t.strategy].symbol /\ c.swap = TRUE /\ c.token = strategies[t.strategy].token
    BY <2>0, <1>e DEF Contract
  <2>2. strategies' = [strategies EXCEPT ![t.strategy] = c]
    BY <1>8
  <2> HIDE DEF c
  <2> QED BY <1>4, <1>8, <2>1, <2>2 DEF Late
<1>9. CASE t.pc = "set_min_harvest_rate" /\ UNCHANGED tokens
           /\ strategies' = [strategies EXCEPT ![t.strategy].rate = Assets[t.at].rate]
  <2> DEFINE c == [strategies[t.strategy] EXCEPT !.rate = Assets[t.at].rate]
  <2>0. t.strategy \in DOMAIN strategies
    BY <1>6, <1>9 DEF Late
  <2>1. c \in Contract /\ c.symbol = strategies[t.strategy].symbol /\ c.swap = strategies[t.strategy].swap
        /\ c.token = strategies[t.strategy].token
    BY <2>0, <1>e, <1>s DEF Contract
  <2>2. strategies' = [strategies EXCEPT ![t.strategy] = c]
    BY <1>9
  <2> HIDE DEF c
  <2> QED BY <1>4, <1>9, <2>1, <2>2 DEF Late
<1> HIDE DEF Made
<1> QED BY <1>1, <1>2, <1>3, <1>7, <1>8, <1>9 DEF Effect

(* The one call that lands keeps the invariant: the run's own call is the  *)
(* one it awaits, and every other call is for another strategy.            *)
LEMMA RunsKeeps == \A t \in queued : DInv /\ Runs(t) => DInv'
<1> SUFFICES ASSUME NEW t \in queued, DInv, Runs(t) PROVE DInv' OBVIOUS
<1> USE DEF DInv
<1>u. UNCHANGED <<venue, reserve, file, offered, odds>> /\ queued' = {}
  BY DEF Runs
<1>t. t \in [pc : Calls, at : Places, strategy : Nat, token : Nat, awaited : BOOLEAN]
      /\ Ready(t.pc, t.at, t.strategy, t.token)
  BY DEF TypesOK, QueueType, Prepared
<1>c. Len(strategies) \in Nat /\ Len(tokens) \in Nat
      /\ DOMAIN strategies = 1..Len(strategies) /\ DOMAIN tokens = 1..Len(tokens)
  BY LenProperties DEF TypesOK, ChainType
<1>a. t.awaited => /\ t.pc = run.pc /\ t.at = run.at /\ t.strategy = run.strategy /\ t.token = run.token
                   /\ run.sent
  <2>1. t.awaited => t = Job /\ run.sent
    BY DEF Awaited
  <2>2. Job.pc = run.pc /\ Job.at = run.at /\ Job.strategy = run.strategy /\ Job.token = run.token
    BY DEF Job
  <2> QED BY <2>1, <2>2
<1>b. ~t.awaited => ~(t.pc \in Late /\ run.pc \in Late /\ t.strategy = run.strategy)
  BY DEF Awaited
<1>1. \/ UNCHANGED <<strategies, tokens>> /\ run' = Told(t, "FAILED")
      \/ Effect(t) /\ run' = Told(t, "SUCCESS")
  BY DEF Runs, deployed
<1>m. Made(t) \in Nat
  BY <1>c DEF Made
<1>n. run.answer = ""
  BY DEF Awaited
<1>r. /\ RunType' /\ run'.pc = run.pc /\ run'.at = run.at /\ run'.strategy = run.strategy /\ run'.token = run.token
      /\ run'.out = run.out /\ run'.passed = run.passed /\ run'.sent = run.sent
      /\ ~t.awaited => run' = run
      /\ t.awaited => run'.value = Made(t) /\ run'.answer \in {"SUCCESS", "FAILED"}
  <2> HIDE DEF Made
  <2> QED BY <1>1, <1>m, <1>t DEF Told, TypesOK, RunType
<1>2. Awaited'
  BY <1>u, <1>r, <1>n, <1>a, <1>t DEF Awaited
<1>3. Judged'
  BY <1>u, <1>r DEF Judged, SoundAt
<1>4. RunType' /\ FilesType' /\ OddsType' /\ QueueType'
  BY <1>u, <1>r DEF TypesOK, FilesType, OddsType, QueueType
<1>5. SUFFICES ChainType' /\ Ready(run.pc, run.at, run.strategy, run.token)' /\ Fulfilled'
               /\ \A ids, sym : Wired(ids, sym) /\ ids \in Ids => Wired(ids, sym)'
  <2>1. \A s \in Symbols : run.out[s] \in Ids /\ file[s] \in Ids /\ offered[s] \in Ids
    BY DEF TypesOK, FilesType, RunType
  <2>2. Wirings'
    BY <1>5, <1>u, <1>r, <2>1 DEF Wirings
  <2>3. Prepared'
    BY <1>5, <1>u DEF Prepared
  <2> QED BY <1>2, <1>3, <1>4, <1>5, <2>2, <2>3 DEF TypesOK
<1>6. Ready(run.pc, run.at, run.strategy, run.token)
  BY DEF Prepared
<1>7. CASE UNCHANGED <<strategies, tokens>> /\ run' = Told(t, "FAILED")
  <2>1. ChainType' /\ Ready(run.pc, run.at, run.strategy, run.token)' /\ \A ids, sym : Wired(ids, sym) => Wired(ids, sym)'
    <3>1. Ready(run.pc, run.at, run.strategy, run.token)'
      BY <1>7, <1>6, <1>r DEF Ready, Deployed, Issued
    <3> QED BY <3>1, <1>7, ContractsStay DEF TypesOK
  <2>2. run'.answer # "SUCCESS"
    BY <1>7, <1>n DEF Told, TypesOK, RunType
  <2> QED BY <2>1, <2>2 DEF Fulfilled
<1>8. CASE Effect(t) /\ run' = Told(t, "SUCCESS")
  <2>e. /\ ChainType'
        /\ \A s \in DOMAIN strategies :
              /\ s \in DOMAIN strategies'
              /\ strategies'[s].symbol = strategies[s].symbol
              /\ strategies[s].swap => strategies'[s].swap
              /\ strategies[s].token # Unset => strategies'[s].token = strategies[s].token
              /\ t.pc \notin Late \/ t.pc = "token" \/ s # t.strategy => strategies'[s] = strategies[s]
        /\ \A k \in DOMAIN tokens : k \in DOMAIN tokens' /\ tokens'[k] = tokens[k]
        /\ t.pc = "strategy" => MadeIs(t)
        /\ t.pc = "token" => Made(t) \in DOMAIN tokens' /\ tokens'[Made(t)] = t.strategy
        /\ t.pc = "set_share_token" => strategies'[t.strategy].token = t.token
        /\ t.pc = "set_swap_account" => strategies'[t.strategy].swap
    BY <1>t, <1>8, EffectKeeps DEF TypesOK
  <2>z. \A k \in DOMAIN tokens : k # Unset
    BY <1>c DEF Unset
  <2>1. \A ids, sym : Wired(ids, sym) => Wired(ids, sym)'
    BY <2>e, <2>z DEF Wired
  <2>2. Ready(run.pc, run.at, run.strategy, run.token)'
    <3> SUFFICES ASSUME run.pc \in Late
                 PROVE  /\ Deployed(run.at, run.strategy)'
                        /\ run.pc = "token" => strategies'[run.strategy].token = Unset
                        /\ run.pc # "token" => Issued(run.strategy, run.token)'
                                               /\ strategies'[run.strategy].token \in {Unset, run.token}
                        /\ run.pc \in {"set_swap_account", "set_min_harvest_rate"} => strategies'[run.strategy].token = run.token
                        /\ run.pc = "set_min_harvest_rate" => strategies'[run.strategy].swap
      BY <1>r DEF Ready, Late, Deployed, Issued
    <3>1. /\ Deployed(run.at, run.strategy)
          /\ run.pc = "token" => strategies[run.strategy].token = Unset
          /\ run.pc # "token" => Issued(run.strategy, run.token) /\ strategies[run.strategy].token \in {Unset, run.token}
          /\ run.pc \in {"set_swap_account", "set_min_harvest_rate"} => strategies[run.strategy].token = run.token
          /\ run.pc = "set_min_harvest_rate" => strategies[run.strategy].swap
      BY <1>6 DEF Ready
    <3>2. Deployed(run.at, run.strategy)' /\ (Issued(run.strategy, run.token) => Issued(run.strategy, run.token)')
      BY <1>r, <2>e, <3>1 DEF Deployed, Issued
    <3>3. CASE t.awaited
      <4>1. run.strategy \in DOMAIN strategies /\ t.pc = run.pc /\ t.strategy = run.strategy /\ t.token = run.token
        BY <1>a, <3>1, <3>3 DEF Deployed
      <4>2. run.pc # "token" => run.token # Unset
        BY <2>z, <3>1 DEF Issued
      <4>3. CASE run.pc = "token"
        BY <2>e, <3>1, <3>2, <4>1, <4>3
      <4>4. CASE run.pc = "set_share_token"
        BY <2>e, <3>1, <3>2, <4>1, <4>4
      <4>5. CASE run.pc \in {"set_swap_account", "set_min_harvest_rate"}
        BY <2>e, <3>1, <3>2, <4>1, <4>2, <4>5
      <4> QED BY <4>3, <4>4, <4>5 DEF Late
    <3>4. CASE ~t.awaited
      <4>1. strategies'[run.strategy] = strategies[run.strategy]
        BY <1>b, <2>e, <3>1, <3>4 DEF Deployed
      <4> QED BY <3>1, <3>2, <4>1
    <3> QED BY <3>3, <3>4
  <2>3. Fulfilled'
    <3> SUFFICES ASSUME run'.answer = "SUCCESS"
                 PROVE  /\ run.pc = "strategy" => /\ run'.value \in DOMAIN strategies'
                                                   /\ strategies'[run'.value].symbol = Assets[run.at].symbol
                                                   /\ strategies'[run'.value].token = Unset
                        /\ run.pc = "token" => run'.value \in DOMAIN tokens' /\ tokens'[run'.value] = run.strategy
                        /\ run.pc = "set_share_token" => strategies'[run.strategy].token = run.token
                        /\ run.pc = "set_swap_account" => strategies'[run.strategy].swap
      BY <1>r DEF Fulfilled, Deployed, Issued
    <3>1. t.awaited
      BY <1>r, <1>n
    <3> HIDE DEF Made
    <3> QED BY <1>a, <1>r, <2>e, <3>1 DEF MadeIs
  <2> QED BY <2>e, <2>1, <2>2, <2>3
<1> QED BY <1>1, <1>7, <1>8

LEMMA RestKeeps == DInv /\ UNCHANGED deployVars => DInv'
<1> SUFFICES ASSUME DInv, UNCHANGED deployVars PROVE DInv' OBVIOUS
<1>1. UNCHANGED <<venue, run, queued, strategies, tokens, reserve, file, offered, odds>>
  BY DEF deployVars
<1>2. OddsType' /\ odds'.shifts = odds.shifts
  BY <1>1 DEF DInv, TypesOK, OddsType
<1> QED BY <1>1, <1>2, PauseKeeps

LEMMA DeployNextKeeps == DInv /\ [DeployNext]_deployVars => DInv'
<1> SUFFICES ASSUME DInv, [DeployNext]_deployVars PROVE DInv' OBVIOUS
<1>1. CASE Preflight
  BY <1>1, PreflightKeeps
<1>2. CASE SignSubmit
  BY <1>2, SignSubmitKeeps
<1>3. CASE Answered
  BY <1>3, AnsweredKeeps
<1>4. CASE WriteFile
  BY <1>4, WriteFileKeeps
<1>5. CASE WireVaults
  BY <1>5, WireVaultsKeeps
<1>6. CASE \E t \in queued : Runs(t)
  BY <1>6, RunsKeeps
<1>7. CASE Untaken \/ RunThrows \/ Lost \/ Relaunch \/ \E s \in Symbols : Shift(s)
  BY <1>7, MishapsKeep
<1>8. CASE UNCHANGED deployVars
  BY <1>8, RestKeeps
<1> QED BY <1>1, <1>2, <1>3, <1>4, <1>5, <1>6, <1>7, <1>8 DEF DeployNext

(* The calls, the contracts and the files agree with each other, however   *)
(* runs break off and calls are lost (main, signSubmit).                   *)
THEOREM DeployInvAlways == DeploySpec => []DInv
<1>1. DeployInit => DInv
  BY DeployInitOK
<1>2. DInv /\ [DeployNext]_deployVars => DInv'
  BY DeployNextKeeps
<1> QED BY <1>1, <1>2, PTL DEF DeploySpec

(* Whatever runs broke off and whichever of their transactions landed      *)
(* afterwards, a vault on offer is wired, and sound as long as the pool is *)
(* as it was (main, preflight, wire_mainnet_vaults.ts).                    *)
THEOREM OfferedIsWiredAlways == DeploySpec => []OfferedIsWired
<1>1. DInv => OfferedIsWired
  <2> SUFFICES ASSUME DInv, NEW i \in DOMAIN Assets, offered[Assets[i].symbol].strategy # Unset
               PROVE  LET a == Assets[i]
                          ids == offered[a.symbol]
                      IN  /\ strategies[ids.strategy].symbol = a.symbol
                          /\ strategies[ids.strategy].token = ids.token
                          /\ tokens[ids.token] = ids.strategy
                          /\ strategies[ids.strategy].swap
                          /\ venue.net = "mainnet" /\ odds.shifts = Shifts => Sound(a, reserve[a.symbol])
    BY DEF OfferedIsWired
  <2>1. Assets[i].symbol \in Symbols /\ i \in Places
    BY DEF Symbols, Places
  <2>2. Wired(offered[Assets[i].symbol], Assets[i].symbol)
    BY <2>1 DEF DInv, Wirings
  <2>3. venue.net = "mainnet" /\ odds.shifts = Shifts => SoundAt(i)
    BY <2>1 DEF DInv, Judged
  <2> QED BY <2>2, <2>3 DEF Wired, SoundAt
<1> QED BY <1>1, DeployInvAlways, PTL
==============================================================================

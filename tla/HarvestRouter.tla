---------------------------- MODULE HarvestRouter ----------------------------
(***************************************************************************)
(* The harvest router (scripts/harvest_router.ts --execute --loop) as the  *)
(* keeper and swap account of one strategy: it claims, quotes, sells the   *)
(* BLND through the Broker or on chain, and settles.                       *)
(*                                                                         *)
(* The chain side is SplitHarvest, whole.  The router only ever submits    *)
(* transactions and polls for them, and gives up polling (60 s) before a   *)
(* transaction expires (120 s): what it took for lost may still land.  All *)
(* its transactions carry the next sequence number of one account, so of   *)
(* those in flight one lands and the others are void.  What the ledger     *)
(* does between two awaits of the router is any interleaving.              *)
(***************************************************************************)
EXTENDS SplitHarvest

CONSTANTS
  Keeper,      \* the account of the router
  HarvestMin,  \* HARVEST_MIN_BLND
  Prices,      \* underlying per BLND, on either market, at any moment
  Basis,       \* SLIPPAGE is Slippage / Basis
  Slippage,
  OwnBlnd,     \* what the account holds for other purposes
  OwnAsset,
  Faults,      \* what may go wrong, of "timeout", "crash", "quote", "market", "late"
  MaxFaults,   \* bound: how many things go wrong
  MaxEmitted   \* bound: BLND emitted to the strategy over time

ASSUME RouterConstantsOK ==
  /\ Keeper \in Accounts
  /\ HarvestMin \in Nat \ {0}
  /\ Prices \subseteq Nat \ {0}
  /\ Basis \in Nat \ {0}
  /\ Slippage \in 0..Basis
  /\ OwnBlnd \in Nat /\ OwnAsset \in Nat
  /\ Faults \subseteq {"timeout", "crash", "quote", "market", "late"}
  /\ MaxFaults \in Nat
  /\ MaxEmitted \in Nat

VARIABLES
  kBlnd,     \* BLND balance of the keeper
  kAsset,    \* underlying balance of the keeper
  pc,        \* where processVault awaits, "rest" between passes
  job,       \* the local variables of processVault and executeBroker
  flying,    \* transactions of the keeper that may still land
  answer,    \* what `invoke` returns
  selling,   \* BLND the Broker session may still sell
  reported,  \* executed_out over all rows logged as executed
  emitted,   \* BLND emitted so far
  faults     \* things gone wrong so far

held == <<kBlnd, kAsset>>
code == <<pc, job, answer>>
allVars == <<vars, held, code, flying, selling, reported, emitted, faults>>

NoJob == [rate |-> 0, claimed |-> 0, route |-> "none", outMin |-> 0,
          blndBefore |-> 0, assetBefore |-> 0, unsold |-> 0, bought |-> 0]

Unanswered == [status |-> "none", result |-> 0]

RouterInit ==
  /\ Init
  /\ kBlnd = OwnBlnd /\ kAsset = OwnAsset
  /\ pc = "rest" /\ job = NoJob /\ answer = Unanswered
  /\ flying = {} /\ selling = 0
  /\ reported = 0 /\ emitted = 0 /\ faults = 0

\* One more thing goes wrong.
Unlucky(kind) ==
  /\ kind \in Faults
  /\ faults < MaxFaults
  /\ faults' = faults + 1

-----------------------------------------------------------------------------
(* Transactions *)

\* A transaction is old once nobody polls for it any more.
Call(call, n) == [call |-> call, n |-> n, old |-> FALSE]

Claim == Call("claim", 0)

SwapOut(price) == IF blnd < RewardThreshold THEN 0 ELSE blnd * price

\* The market is past the amount_out_min of an on-chain swap.
MarketMoved(tx, price) ==
  tx.call = "swap" /\ blnd >= RewardThreshold /\ SwapOut(price) < tx.n

\* What a transaction does when it lands.
Applied(tx, price) ==
  \/ tx.call = "claim" /\ HarvestClaim /\ UNCHANGED held
  \/ tx.call = "swap" /\ ReinvestViaSoroswap(tx.n, SwapOut(price)) /\ UNCHANGED held
  \/ tx.call = "reinvest" /\ ReinvestViaBroker(tx.n) /\ UNCHANGED held
  \/ tx.call = "pull" /\ Pull(Keeper, tx.n) /\ kBlnd' = kBlnd + tx.n /\ UNCHANGED kAsset
  \/ /\ tx.call = "return" /\ tx.n <= kBlnd
     /\ ReturnBlnd(tx.n) /\ kBlnd' = kBlnd - tx.n /\ UNCHANGED kAsset
  \/ /\ tx.call = "push" /\ tx.n <= kAsset
     /\ Deliver(tx.n) /\ kAsset' = kAsset - tx.n /\ UNCHANGED kBlnd

\* The open claim, if there is one, settles with so much BLND left and so much
\* realized.
Settles(blndAfter, realized) ==
  pending # NoPending =>
    DeliveredBefore + realized
      >= ProrateFloor(pending.floor, pending.blnd_claimed - blndAfter, pending.blnd_claimed)

\* What a simulation answers: whether the call would go through, and hence
\* whether Applied can happen.
Succeeds(tx, price) ==
  \/ tx.call = "claim" /\ (pending # NoPending => now >= pending.expiration)
  \/ /\ tx.call = "swap" /\ tx.n > 0
     /\ IF blnd < RewardThreshold THEN Settles(blnd, 0)
        ELSE /\ SwapOut(price) >= tx.n
             /\ idle + levered + SwapOut(price) <= MaxUnderlying
             /\ Settles(0, SwapOut(price))
  \/ tx.call = "reinvest" /\ tx.n > 0 /\ tx.n <= idle /\ Settles(blnd, 0)
  \/ tx.call = "pull" /\ tx.n <= Live(Keeper) /\ tx.n <= blnd
  \/ tx.call = "return" /\ tx.n <= kBlnd /\ accrued + blnd + tx.n <= MaxBlnd
  \/ tx.call = "push" /\ tx.n <= kAsset /\ idle + levered + tx.n <= MaxUnderlying

Returned(tx, price) ==
  IF tx.call = "claim" THEN blnd + accrued
  ELSE IF tx.call = "swap" THEN SwapOut(price) ELSE tx.n

\* The transaction lands, and spends the sequence number, whether it succeeds
\* or reverts.
Land(tx, price) ==
  /\ \/ /\ Applied(tx, price)
        /\ answer' = IF tx.old THEN answer
                     ELSE [status |-> "success", result |-> Returned(tx, price)]
        /\ UNCHANGED faults
     \/ /\ ~Succeeds(tx, price)
        /\ answer' = IF tx.old THEN answer ELSE [status |-> "failed", result |-> 0]
        /\ IF ~tx.old /\ MarketMoved(tx, price) THEN Unlucky("market") ELSE UNCHANGED faults
        /\ UNCHANGED <<vars, held>>
  /\ flying' = {}
  /\ UNCHANGED <<pc, job, selling, reported, emitted>>

\* Its time bound passes.
Lapse(tx) ==
  /\ tx.old
  /\ flying' = flying \ {tx}
  /\ UNCHANGED <<vars, held, code, selling, reported, emitted, faults>>

\* Nobody polls for what is in flight any more.
Forgotten == {[tx EXCEPT !.old = TRUE] : tx \in flying}

-----------------------------------------------------------------------------
(* The router *)

\* processVault returns or throws; `pass` catches either way.
Over == pc' = "rest" /\ job' = NoJob /\ answer' = Unanswered

\* Mutant: one throw ends the loop.
OverForGood == pc' = "dead" /\ job' = NoJob /\ answer' = Unanswered

\* Leaving by a throw.
Thrown == Over

Goto(at, j) == pc' = at /\ job' = j /\ answer' = Unanswered

\* The first half of `invoke`: prepareTransaction throws on a call that fails
\* in simulation; else the transaction is on its way.
Submit(tx, at, j) == \E price \in Prices :
  \/ /\ Succeeds(tx, price)
     /\ Goto(at, j)
     /\ flying' = flying \cup {tx}
     /\ UNCHANGED faults
  \/ /\ ~Succeeds(tx, price)
     /\ IF MarketMoved(tx, price) THEN Unlucky("market") ELSE UNCHANGED faults
     /\ Thrown
     /\ UNCHANGED flying

\* A new pass reads swap_account and min_harvest_rate, a failed read disabling
\* the Broker route (rate 0), and claims.
StartPass ==
  /\ pc = "rest"
  /\ Submit(Claim, "claim",
            [NoJob EXCEPT !.rate = IF swapAccount = Keeper THEN minRate ELSE 0])
  /\ UNCHANGED <<vars, held, selling, reported, emitted>>

\* The second half of `invoke`, when 30 polls found nothing: the transaction is
\* void, or is late.
TimesOut ==
  /\ pc \in {"claim", "pull", "return", "push", "reinvest", "swap"}
  /\ answer = Unanswered
  /\ IF \E tx \in flying : ~tx.old THEN Unlucky("timeout") ELSE UNCHANGED faults
  /\ answer' = [status |-> "timeout", result |-> 0]
  /\ flying' = Forgotten
  /\ UNCHANGED <<vars, held, pc, job, selling, reported, emitted>>

\* An RPC call throws, or the process is restarted.
Crash ==
  /\ pc # "rest"
  /\ Unlucky("crash")
  /\ Thrown
  /\ flying' = Forgotten
  /\ selling' = IF "late" \in Faults THEN selling ELSE 0
  /\ UNCHANGED <<vars, held, reported, emitted>>

ClaimAnswered ==
  /\ pc = "claim" /\ answer # Unanswered
  /\ IF answer.status = "success" /\ answer.result >= HarvestMin
     THEN Goto("quote", [job EXCEPT !.claimed = answer.result])
     ELSE Over
  /\ UNCHANGED <<vars, held, flying, selling, reported, emitted, faults>>

\* Quotes for an amount; 0 stands for no quote.
Quotes(n) == {0} \cup {n * p : p \in Prices}

\* The slippage floor `decide` puts on a quote.
MinOut(quote) == (quote * (Basis - Slippage)) \div Basis

\* The router's reading of the contract's settlement floor.
SettlementFloor == (job.claimed * job.rate) \div Scalar

\* quoteBoth and `decide`: the better quote, the Broker's only if it is
\* executable, and no trade that may fetch less than the settlement floor.
Decide ==
  /\ pc = "quote"
  /\ \E broker, soroswap \in Quotes(job.claimed) :
       LET viaBroker == broker > soroswap /\ job.rate > 0
           quote == IF viaBroker THEN broker ELSE soroswap
       IN /\ IF 0 \in {broker, soroswap} THEN Unlucky("quote") ELSE UNCHANGED faults
          /\ IF quote = 0 \/ MinOut(quote) < SettlementFloor THEN Over
             ELSE Goto("trade", [job EXCEPT
                    !.outMin = MinOut(quote),
                    !.route = IF viaBroker THEN "broker" ELSE "soroswap"])
  /\ UNCHANGED <<vars, held, flying, selling, reported, emitted>>

\* The chosen route starts: on chain in one call, or with a look at the
\* keeper's balances and the pull.
Trade ==
  /\ pc = "trade"
  /\ IF job.route = "broker"
     THEN Submit(Call("pull", job.claimed), "pull",
                 [job EXCEPT !.blndBefore = kBlnd, !.assetBefore = kAsset])
     ELSE Submit(Call("swap", job.outMin), "swap", job)
  /\ UNCHANGED <<vars, held, selling, reported, emitted>>

\* What is left to do with BLND the Broker did not sell.
Leftover(j) ==
  /\ IF j.unsold > 0 THEN Goto("fallback", j) ELSE Over
  /\ UNCHANGED <<flying, faults>>

PullAnswered ==
  /\ pc = "pull" /\ answer # Unanswered
  /\ \/ /\ answer.status = "success"
        /\ Goto("session", job)
        /\ selling' = job.claimed
        /\ UNCHANGED <<flying, faults>>
     \/ /\ answer.status # "success"
        /\ Leftover([job EXCEPT !.unsold = job.claimed])
        /\ UNCHANGED selling
  /\ UNCHANGED <<vars, held, reported, emitted>>

\* The Broker sells part of the order on the keeper's account.
BrokerFill(n, price) ==
  /\ n <= selling /\ n <= kBlnd
  /\ selling' = selling - n
  /\ kBlnd' = kBlnd - n
  /\ kAsset' = kAsset + n * price
  /\ UNCHANGED <<vars, code, flying, reported, emitted, faults>>

\* brokerTrade resolves: finished, failed, or stopped on its timeout, in which
\* case what the Broker has submitted may still be filled.
TradeEnds ==
  /\ pc = "session"
  /\ Goto("blnd", job)
  /\ \/ selling' = 0 /\ UNCHANGED faults
     \/ selling > 0 /\ Unlucky("late") /\ UNCHANGED selling
  /\ UNCHANGED <<vars, held, flying, reported, emitted>>

SessionCloses ==
  /\ pc # "session" /\ selling > 0
  /\ selling' = 0
  /\ UNCHANGED <<vars, held, code, flying, reported, emitted, faults>>

\* Unsold BLND by the balance delta, capped at the claim.
Unsold == IF Larger(kBlnd - job.blndBefore, 0) > job.claimed
          THEN job.claimed ELSE Larger(kBlnd - job.blndBefore, 0)

\* Mutant: the balance is taken for the proceeds.
BoughtBalance == kAsset

\* Proceeds by the balance delta.
Bought == Larger(kAsset - job.assetBefore, 0)

ReadBlnd ==
  /\ pc = "blnd"
  /\ Goto("asset", [job EXCEPT !.unsold = Unsold])
  /\ UNCHANGED <<vars, held, flying, selling, reported, emitted, faults>>

\* Mutant: the minimum the trade was checked for is pushed.
PushPromised(j) ==
  IF j.bought = 0 THEN Leftover(j) ELSE Submit(Call("push", j.outMin), "push", j)

\* Proceeds are pushed to the strategy.
PushProceeds(j) ==
  IF j.bought = 0 THEN Leftover(j) ELSE Submit(Call("push", j.bought), "push", j)

\* Unsold BLND goes back first.
SettleTrade(j) ==
  IF j.unsold > 0 THEN Submit(Call("return", j.unsold), "return", j) ELSE PushProceeds(j)

ReadAsset ==
  /\ pc = "asset"
  /\ SettleTrade([job EXCEPT !.bought = Bought])
  /\ UNCHANGED <<vars, held, selling, reported, emitted>>

\* A return that failed is logged as CRITICAL and otherwise ignored.
ReturnAnswered ==
  /\ pc = "return" /\ answer # Unanswered
  /\ PushProceeds(job)
  /\ UNCHANGED <<vars, held, selling, reported, emitted>>

PushAnswered ==
  /\ pc = "push" /\ answer # Unanswered
  /\ IF answer.status = "success"
     THEN Submit(Call("reinvest", job.bought), "reinvest", job)
     ELSE Leftover(job)
  /\ UNCHANGED <<vars, held, selling, reported, emitted>>

\* Mutant: a call that timed out is taken for done.
ExecutedUnlessFailed(out) == IF answer.status = "failed" THEN 0 ELSE out

\* What is logged as executed.
Executed(out) == IF answer.status = "success" THEN out ELSE 0

ReinvestAnswered ==
  /\ pc = "reinvest" /\ answer # Unanswered
  /\ Leftover(job)
  /\ reported' = reported + Executed(job.bought)
  /\ UNCHANGED <<vars, held, selling, emitted>>

\* Step 4: the unsold BLND is quoted again and swapped on chain.
Fallback ==
  /\ pc = "fallback"
  /\ \E quote \in Quotes(job.unsold) :
       IF quote = 0 THEN Unlucky("quote") /\ Over
       ELSE /\ Goto("trade", [job EXCEPT !.outMin = MinOut(quote), !.route = "soroswap"])
            /\ UNCHANGED faults
  /\ UNCHANGED <<vars, held, flying, selling, reported, emitted>>

SwapAnswered ==
  /\ pc = "swap" /\ answer # Unanswered
  /\ reported' = reported + Executed(answer.result)
  /\ Over
  /\ UNCHANGED <<vars, held, flying, selling, emitted, faults>>

-----------------------------------------------------------------------------
(* The rest of the world *)

\* Ledgers matter only while a claim has its deadline ahead.
Clock == pending # NoPending /\ now < pending.expiration /\ Tick

Emission(n) == emitted + n <= MaxEmitted /\ Emit(n) /\ emitted' = emitted + n

Elsewhere ==
  /\ \/ Clock /\ UNCHANGED emitted
     \/ SetSwapAccount(Keeper) /\ UNCHANGED emitted
     \/ (\E rate \in Rates : SetMinHarvestRate(rate)) /\ UNCHANGED emitted
     \/ \E n \in 1..MaxEmitted : Emission(n)
  /\ UNCHANGED <<held, code, flying, selling, reported, faults>>

RouterStep ==
  \/ StartPass \/ TimesOut \/ ClaimAnswered \/ Decide \/ Trade
  \/ PullAnswered \/ TradeEnds \/ ReadBlnd \/ ReadAsset
  \/ ReturnAnswered \/ PushAnswered \/ ReinvestAnswered
  \/ Fallback \/ SwapAnswered

NetworkStep ==
  \/ \E tx \in flying, price \in Prices : Land(tx, price)
  \/ \E tx \in flying : Lapse(tx)

BrokerStep ==
  \/ \E n \in 1..selling, price \in Prices : BrokerFill(n, price)
  \/ SessionCloses

RouterNext == RouterStep \/ Crash \/ NetworkStep \/ BrokerStep \/ Elsewhere

RouterSpec == RouterInit /\ [][RouterNext]_allVars

\* The loop runs on, what is polled for lands unless it is late, time passes.
RouterFairness ==
  /\ WF_allVars(RouterStep)
  /\ WF_allVars(\E tx \in flying, price \in Prices : ~tx.old /\ Land(tx, price))
  /\ WF_allVars(Clock /\ UNCHANGED <<held, code, flying, selling, reported, emitted, faults>>)

LiveRouterSpec == RouterSpec /\ RouterFairness

-----------------------------------------------------------------------------
(* Properties *)

Txs == [call : {"claim", "pull", "return", "push", "reinvest", "swap"},
        n : Nat, old : BOOLEAN]

Jobs == [rate : Nat, claimed : Nat, route : {"none", "broker", "soroswap"},
         outMin : Nat, blndBefore : Nat, assetBefore : Nat, unsold : Nat, bought : Nat]

\* The type invariant; in particular no balance and no amount the router
\* computes goes below zero.
RouterTypeOK ==
  /\ kBlnd \in Nat /\ kAsset \in Nat
  /\ pc \in {"rest", "claim", "quote", "trade", "pull", "session", "blnd", "asset",
             "return", "push", "reinvest", "fallback", "swap"}
  /\ job \in Jobs
  /\ flying \subseteq Txs
  /\ answer \in [status : {"none", "success", "failed", "timeout"}, result : Nat]
  /\ selling \in Nat /\ reported \in Nat /\ emitted \in Nat
  /\ faults \in 0..MaxFaults

\* The evidence log never overstates: all executed_out ever logged has been
\* levered, whatever timed out and landed later.
ReportedIsLevered == reported <= levered

\* The router never settles with what its account held before.  (Where the
\* Broker may fill after brokerTrade has resolved, between the two balance
\* reads, this does not hold; see the README.)
KeeperKeepsItsOwn == kBlnd >= OwnBlnd /\ kAsset >= OwnAsset

\* harvest_router.ts:34-36 says that unsold BLND goes back to the strategy "so
\* funds are never stranded on the keeper": between passes nothing of the
\* strategy's is left there.
NeverStranded == pc = "rest" => kBlnd = OwnBlnd /\ kAsset = OwnAsset

\* Partial fills and moving quotes are no reason to lose a claim: unless a fault
\* occurs, nothing of the strategy's stays on the router between passes, and
\* each claim is settled before the next one is made.  (With a rate no price
\* falls below: what was sold for less than its floor is not settled.)
LossOnlyByFault == faults = 0 => NeverStranded /\ event.kind # "unsettled"

\* BLND worth harvesting does not stay in the strategy: some later pass sells
\* it, however many passes failed before.
BlndIsSold ==
  (accrued + blnd >= HarvestMin) ~> (accrued + blnd < HarvestMin)
=============================================================================

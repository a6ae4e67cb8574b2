---------------------------- MODULE SplitHarvest ----------------------------
(***************************************************************************)
(* The harvest entrypoints of the blend_leverage strategy, as the ledger   *)
(* sees them: the atomic trait `harvest`, and the split harvest            *)
(* `harvest_claim` ... `harvest_reinvest` during which BLND leaves the     *)
(* vault for an off-chain swap.  Whoever is keeper may make any keeper     *)
(* call in any order; the swap accounts may pull what they are allowed,    *)
(* and anyone may send BLND or underlying to the vault, at any ledger.     *)
(*                                                                         *)
(* One action is one committed transaction.  A transaction that reverts    *)
(* changes nothing and is not a step.  The leverage loop a harvest ends in *)
(* is one number here, `levered`; StrategyVault models it in full.         *)
(***************************************************************************)
EXTENDS Integers

CONSTANTS
  Accounts,         \* addresses the admin may name as swap account
  NoAccount,        \* swap account not configured
  ApprovalLedgers,  \* HARVEST_APPROVAL_LEDGERS
  Scalar,           \* SCALAR_7, the unit of min_harvest_rate
  RewardThreshold,  \* config.reward_threshold
  Rates,            \* rates the admin may set
  MaxLedger,        \* bound: last ledger explored
  MaxBlnd,          \* bound: BLND claimable and held together
  MaxUnderlying     \* bound: underlying idle and levered together

ASSUME ConstantsOK ==
  /\ NoAccount \notin Accounts
  /\ ApprovalLedgers \in Nat \ {0}
  /\ Scalar \in Nat \ {0}
  /\ RewardThreshold \in Nat \ {0}
  /\ Rates \subseteq Nat \ {0}
  /\ MaxLedger \in Nat
  /\ MaxBlnd \in Nat
  /\ MaxUnderlying \in Nat

VARIABLES
  now,          \* e.ledger().sequence()
  swapAccount,  \* DataKey::SwapAccount
  minRate,      \* DataKey::MinHarvestRate, 0 when unset
  pending,      \* DataKey::PendingHarvest, NoPending when absent
  allowance,    \* the BLND token's allowances granted by the strategy
  accrued,      \* BLND the pool owes the strategy
  blnd,         \* BLND balance of the strategy
  idle,         \* underlying balance of the strategy
  levered,      \* underlying the harvests have put into the pool
  event,        \* the settlement event of the last transaction
  flow,         \* ghost: what moved under the last claim that was approved
  credited      \* ghost: underlying all settlements have asked for so far

chain == <<now, accrued, blnd, idle>>
config == <<swapAccount, minRate>>
vars == <<now, swapAccount, minRate, pending, allowance, accrued,
          blnd, idle, levered, event, flow, credited>>

-----------------------------------------------------------------------------
(* The settlement arithmetic of leverage.rs *)

\* Mutant: the floors round down.
FloorDiv(a, b) == a \div b
CeilDiv(a, b) == (a + b - 1) \div b

\* harvest_floor: the least underlying owed for an amount of BLND.
HarvestFloor(amount, rate) ==
  IF amount <= 0 \/ rate <= 0 THEN 0 ELSE CeilDiv(amount * rate, Scalar)

\* prorate_floor: the part of the floor owed for the BLND that left.
ProrateFloor(floor, spent, claimed) ==
  IF floor <= 0 \/ spent <= 0 \/ claimed <= 0 THEN 0
  ELSE IF spent >= claimed THEN floor
  ELSE CeilDiv(floor * spent, claimed)

Larger(a, b) == IF a >= b THEN a ELSE b

-----------------------------------------------------------------------------
(* Records *)

NoPending == [blnd_claimed |-> 0, underlying_before |-> 0, floor |-> 0,
              expiration |-> 0]
NoAllowance == [amount |-> 0, expiration |-> 0]
NoEvent == [kind |-> "none", blnd |-> 0, owed |-> 0]
NoFlow == [left |-> 0, bought |-> 0]

\* An allowance can be spent through its expiration ledger, inclusive.
Live(a) == IF allowance[a].expiration >= now THEN allowance[a].amount ELSE 0

\* Mutant: nothing is revoked.
RevokedNever == allowance

\* revoke_swap_allowance: zero what the account configured NOW was granted.
Revoked ==
  IF swapAccount = NoAccount THEN allowance
  ELSE [allowance EXCEPT ![swapAccount] = NoAllowance]

\* What comes in counts towards the claim it comes in under; what is pulled
\* counts always.
Moved(out, in) ==
  IF pending = NoPending THEN flow
  ELSE [left |-> flow.left + out, bought |-> flow.bought + in]

Init ==
  /\ now = 0
  /\ swapAccount = NoAccount
  /\ minRate = 0
  /\ pending = NoPending
  /\ allowance = [a \in Accounts |-> NoAllowance]
  /\ accrued = 0 /\ blnd = 0 /\ idle = 0 /\ levered = 0
  /\ event = NoEvent
  /\ flow = NoFlow
  /\ credited = 0

-----------------------------------------------------------------------------
(* Keeper entrypoints *)

\* Mutant: the shortfall is read after the new emissions are claimed.
UnsettledAfterClaim == Larger(pending.blnd_claimed - (blnd + accrued), 0)

\* What is missing from a stale claim, as harvest_claim measures it before it
\* claims again.
Unsettled == Larger(pending.blnd_claimed - blnd, 0)

\* harvest_claim: refused while the previous claim's deadline is ahead; drops
\* an expired one, revokes, claims, and approves only with a floor on record.
HarvestClaim ==
  LET bal == blnd + accrued
      approves == bal > 0 /\ swapAccount # NoAccount /\ minRate > 0
      deadline == now + ApprovalLedgers
  IN /\ pending # NoPending => now >= pending.expiration
     /\ event' = IF pending # NoPending /\ Unsettled > 0
                 THEN [kind |-> "unsettled", blnd |-> Unsettled, owed |-> pending.floor]
                 ELSE NoEvent
     /\ blnd' = bal
     /\ accrued' = 0
     /\ pending' = IF approves
                   THEN [blnd_claimed |-> bal,
                         underlying_before |-> idle,
                         floor |-> HarvestFloor(bal, minRate),
                         expiration |-> deadline]
                   ELSE NoPending
     /\ allowance' = IF approves
                     THEN [Revoked EXCEPT ![swapAccount] =
                             [amount |-> bal, expiration |-> deadline]]
                     ELSE Revoked
     /\ flow' = NoFlow
     /\ UNCHANGED <<config, now, idle, levered, credited>>

\* Mutant: the baseline of the claim is forgotten.
DeliveredNoBaseline == IF pending = NoPending THEN 0 ELSE idle

\* Proceeds of the open claim that are already here when harvest_reinvest starts.
DeliveredBefore ==
  IF pending = NoPending THEN 0 ELSE Larger(idle - pending.underlying_before, 0)

\* The tail of harvest_reinvest: measure what left and what came, and close the
\* claim only if the prorated floor is met.  The BLND balance is read after the
\* leg, and `realized` is what an on-chain swap in this call brought.
Settle(blndAfter, realized) ==
  LET spent == pending.blnd_claimed - blndAfter
      required == ProrateFloor(pending.floor, spent, pending.blnd_claimed)
  IN \/ /\ pending = NoPending
        /\ event' = NoEvent
        /\ UNCHANGED <<pending, allowance, flow, credited>>
     \/ /\ pending # NoPending
        /\ DeliveredBefore + realized >= required
        /\ pending' = NoPending
        /\ allowance' = Revoked
        /\ event' = [kind |-> "settle", blnd |-> spent, owed |-> required]
        /\ flow' = Moved(blnd - blndAfter, realized)
        /\ credited' = credited + required

\* Mutant: the amount the keeper names is not checked against the balance.
ReinvestUnheld(amountIn) ==
  /\ amountIn > 0
  /\ idle' = idle - amountIn
  /\ levered' = levered + amountIn
  /\ Settle(blnd, 0)
  /\ UNCHANGED <<config, now, accrued, blnd>>

\* harvest_reinvest(amount_in, via_soroswap = false, _): lever `amountIn` of the
\* underlying already held.
ReinvestViaBroker(amountIn) ==
  /\ amountIn > 0
  /\ idle >= amountIn
  /\ idle' = idle - amountIn
  /\ levered' = levered + amountIn
  /\ Settle(blnd, 0)
  /\ UNCHANGED <<config, now, accrued, blnd>>

\* harvest_reinvest(_, via_soroswap = true, outMin): swap the whole BLND balance
\* on chain for `out` and lever it.  Below the reward threshold nothing is
\* swapped, and the claim is settled all the same.
ReinvestViaSoroswap(outMin, out) ==
  /\ outMin > 0
  /\ \/ /\ blnd < RewardThreshold
        /\ out = 0
        /\ UNCHANGED <<blnd, levered>>
     \/ /\ blnd >= RewardThreshold
        /\ out >= outMin
        /\ idle + levered + out <= MaxUnderlying
        /\ blnd' = 0
        /\ levered' = levered + out
  /\ Settle(blnd', out)
  /\ UNCHANGED <<config, now, accrued, idle>>

\* The minimum the trait harvest passes to the router for a balance of BLND.
TraitFloor(balance, callerMin) ==
  IF balance >= RewardThreshold
  THEN Larger(callerMin, HarvestFloor(balance, minRate))
  ELSE Larger(callerMin, 0)

\* The trait `harvest`: refused while a claim is open, and when neither the
\* admin nor the caller gives the swap a floor.
Harvest(callerMin, out) ==
  LET bal == blnd + accrued
  IN /\ pending = NoPending
     /\ \/ /\ bal < RewardThreshold
           /\ out = 0
           /\ blnd' = bal
           /\ UNCHANGED levered
        \/ /\ bal >= RewardThreshold
           /\ TraitFloor(bal, callerMin) > 0
           /\ out >= TraitFloor(bal, callerMin)
           /\ idle + levered + out <= MaxUnderlying
           /\ blnd' = 0
           /\ levered' = levered + out
     /\ accrued' = 0
     /\ event' = NoEvent
     /\ UNCHANGED <<config, now, idle, pending, allowance, flow, credited>>

-----------------------------------------------------------------------------
(* Administration *)

\* set_swap_account: stores the address and nothing else.
SetSwapAccount(a) ==
  /\ swapAccount' = a
  /\ event' = NoEvent
  /\ UNCHANGED <<chain, minRate, pending, allowance, levered, flow, credited>>

\* set_min_harvest_rate: any positive rate, at any time.
SetMinHarvestRate(rate) ==
  /\ minRate' = rate
  /\ event' = NoEvent
  /\ UNCHANGED <<chain, swapAccount, pending, allowance, levered, flow, credited>>

-----------------------------------------------------------------------------
(* The rest of the ledger *)

\* A new ledger closes.
Tick ==
  /\ now < MaxLedger
  /\ now' = now + 1
  /\ event' = NoEvent
  /\ UNCHANGED <<config, pending, allowance, accrued, blnd, idle, levered, flow, credited>>

\* The pool accrues emissions to the strategy's position.
Emit(n) ==
  /\ accrued + blnd + n <= MaxBlnd
  /\ accrued' = accrued + n
  /\ event' = NoEvent
  /\ UNCHANGED <<config, now, blnd, idle, pending, allowance, levered, flow, credited>>

\* transfer_from of the BLND token by an account the strategy approved.
Pull(a, n) ==
  /\ n <= Live(a)
  /\ n <= blnd
  /\ blnd' = blnd - n
  /\ allowance' = [allowance EXCEPT ![a].amount = @ - n]
  /\ flow' = [flow EXCEPT !.left = @ + n]
  /\ event' = NoEvent
  /\ UNCHANGED <<config, now, accrued, idle, pending, levered, credited>>

\* BLND sent to the strategy: unsold BLND coming back, or anyone's transfer.
ReturnBlnd(n) ==
  /\ accrued + blnd + n <= MaxBlnd
  /\ blnd' = blnd + n
  /\ flow' = Moved(-n, 0)
  /\ event' = NoEvent
  /\ UNCHANGED <<config, now, accrued, idle, pending, allowance, levered, credited>>

\* Underlying sent to the strategy: the proceeds, in time or late.
Deliver(n) ==
  /\ idle + levered + n <= MaxUnderlying
  /\ idle' = idle + n
  /\ flow' = Moved(0, n)
  /\ event' = NoEvent
  /\ UNCHANGED <<config, now, accrued, blnd, pending, allowance, levered, credited>>

-----------------------------------------------------------------------------

KeeperStep ==
  \/ HarvestClaim
  \/ \E n \in 1..MaxUnderlying : ReinvestViaBroker(n)
  \/ \E m \in 1..MaxUnderlying, out \in 0..MaxUnderlying : ReinvestViaSoroswap(m, out)
  \/ \E m \in 0..MaxUnderlying, out \in 0..MaxUnderlying : Harvest(m, out)

AdminStep ==
  \/ \E a \in Accounts : SetSwapAccount(a)
  \/ \E r \in Rates : SetMinHarvestRate(r)

LedgerStep ==
  \/ Tick
  \/ \E n \in 1..MaxBlnd : Emit(n)
  \/ \E a \in Accounts, n \in 1..MaxBlnd : Pull(a, n)
  \/ \E n \in 1..MaxBlnd : ReturnBlnd(n)
  \/ \E n \in 1..MaxUnderlying : Deliver(n)

Next == KeeperStep \/ AdminStep \/ LedgerStep

Spec == Init /\ [][Next]_vars

\* The admin re-points the swap account only while no claim is open.
RewiresBetweenClaims == swapAccount' # swapAccount => pending = NoPending

\* The strategy under an admin who keeps to that order; the contract does not
\* enforce it.
OrderlySpec == Init /\ [][Next /\ RewiresBetweenClaims]_vars

-----------------------------------------------------------------------------
(* Properties *)

PendingRecords ==
  [blnd_claimed : Nat, underlying_before : Nat, floor : Nat, expiration : Nat]

\* The type invariant.  In particular no balance, allowance or floor of the
\* split harvest is ever negative.
TypeOK ==
  /\ now \in Nat
  /\ swapAccount \in Accounts \cup {NoAccount}
  /\ minRate \in Nat
  /\ pending \in PendingRecords
  /\ allowance \in [Accounts -> [amount : Nat, expiration : Nat]]
  /\ accrued \in Nat /\ blnd \in Nat /\ idle \in Nat /\ levered \in Nat
  /\ event \in [kind : {"none", "settle", "unsettled"}, blnd : Int, owed : Nat]
  /\ flow \in [left : Int, bought : Nat]
  /\ credited \in Nat

\* "BLND must never be pullable without a live floor attached to it"
\* (lib.rs:1185): whatever can be pulled at this ledger can be pulled by one
\* account only, under an open claim, and is no more than its floor covers.
PullsAreFloored ==
  \A a \in Accounts : Live(a) > 0 =>
    /\ pending # NoPending
    /\ Live(a) <= pending.blnd_claimed
    /\ \A b \in Accounts : Live(b) > 0 => b = a

\* No underlying is counted towards two settlements, and none that the vault
\* held before a claim is: all the floors ever enforced are backed by
\* underlying that did reach the vault.
CreditBacked == credited <= idle + levered

\* A claim never just disappears: when it ends with BLND gone, either its
\* share of the floor has arrived since it was made, or the missing BLND is
\* reported in full (harvest_unsettled).
ClaimAccountedStep ==
  pending # NoPending /\ pending' # pending =>
    \/ /\ event'.kind = "settle"
       /\ \/ flow'.left <= 0
          \/ flow'.bought * pending.blnd_claimed >= pending.floor * flow'.left
    \/ /\ event'.kind # "settle"
       /\ flow.left <= (IF event'.kind = "unsettled" THEN event'.blnd ELSE 0)
ClaimAccounted == [][ClaimAccountedStep]_vars

-----------------------------------------------------------------------------
\* The split harvest seen as a sale with a floor.
Sale == INSTANCE FlooredSale WITH
  offered <- pending.blnd_claimed,
  floor   <- pending.floor,
  out     <- flow.left,
  paid    <- flow.bought,
  report  <- IF event.kind = "unsettled" THEN event.blnd ELSE 0

\* Under an orderly admin, the split harvest keeps the promises of FlooredSale.
SaleKept == Sale!SaleSpec
=============================================================================

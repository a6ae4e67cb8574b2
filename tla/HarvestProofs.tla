---------------------------- MODULE HarvestProofs ----------------------------
(***************************************************************************)
(* Proofs about SplitHarvest, for every set of accounts, every approval    *)
(* window, scalar and rate, and every bound; and about HarvestRouter, for  *)
(* every market, every slippage, every number and kind of fault, and       *)
(* whatever the keeper's account held.  What a theorem needs beyond that   *)
(* is among its hypotheses.                                                *)
(***************************************************************************)
EXTENDS HarvestRouter, TLAPS

(* Rounding *)

\* Rounding up a quotient of naturals gives a natural that covers it: what
\* makes both floors favour the vault.
LEMMA CeilDivCovers ==
  ASSUME NEW a \in Nat, NEW b \in Nat \ {0}
  PROVE  /\ CeilDiv(a, b) \in Nat
         /\ CeilDiv(a, b) * b >= a
<1>1. DEFINE n == a + b - 1
             q == n \div b
<1>2. n \in Nat /\ q \in Nat /\ n = b * q + (n % b) /\ n % b \in 0..(b - 1)
  BY Z3
<1>3. QED
  BY <1>2 DEF CeilDiv

\* harvest_floor is never negative.
LEMMA HarvestFloorNat ==
  ASSUME NEW amount \in Nat, NEW rate \in Nat
  PROVE  HarvestFloor(amount, rate) \in Nat
<1>1. amount * rate \in Nat
  OBVIOUS
<1>2. CeilDiv(amount * rate, Scalar) \in Nat
  BY <1>1, CeilDivCovers, ConstantsOK
<1>3. QED
  BY <1>2 DEF HarvestFloor

\* prorate_floor never asks for a negative amount, and what it asks for covers
\* the floor's share of the BLND that left.
LEMMA ProrateCovers ==
  ASSUME NEW floor \in Nat, NEW claimed \in Nat \ {0}, NEW spent \in Int,
         spent <= claimed
  PROVE  /\ ProrateFloor(floor, spent, claimed) \in Nat
         /\ spent <= 0 \/ ProrateFloor(floor, spent, claimed) * claimed >= floor * spent
<1>1. CASE floor = 0 \/ spent <= 0
  <2>1. ProrateFloor(floor, spent, claimed) = 0
    BY <1>1 DEF ProrateFloor
  <2>2. spent <= 0 \/ 0 * claimed >= floor * spent
    BY <1>1
  <2>3. QED
    BY <2>1, <2>2
<1>2. CASE floor > 0 /\ spent = claimed
  BY <1>2 DEF ProrateFloor
<1>3. CASE floor > 0 /\ spent > 0 /\ spent < claimed
  <2>1. ProrateFloor(floor, spent, claimed) = CeilDiv(floor * spent, claimed)
    BY <1>3 DEF ProrateFloor
  <2>2. floor * spent \in Nat
    BY <1>3
  <2>3. QED
    BY <2>1, <2>2, CeilDivCovers
<1>4. QED
  BY <1>1, <1>2, <1>3

-----------------------------------------------------------------------------
(* Types, and the measurements the settlement rests on *)

\* What the contract measures at settlement is what moved since the claim:
\* the BLND balance has fallen short of the claim by exactly what left, and
\* the underlying balance exceeds the baseline by exactly what arrived.
Measured ==
  pending # NoPending =>
    /\ pending.blnd_claimed > 0
    /\ blnd = pending.blnd_claimed - flow.left
    /\ idle = pending.underlying_before + flow.bought

\* The settlements are paid for out of what arrived, and the open claim's
\* baseline excludes what has arrived since.
Backed ==
  credited <= levered + (IF pending = NoPending THEN idle ELSE pending.underlying_before)

IInv == TypeOK /\ Measured /\ Backed

LEMMA InitIInv == Init => IInv
BY ConstantsOK DEF Init, IInv, TypeOK, Measured, Backed, PendingRecords, NoPending,
                   NoAllowance, NoEvent, NoFlow

LEMMA RevokedType ==
  ASSUME TypeOK
  PROVE  Revoked \in [Accounts -> [amount : Nat, expiration : Nat]]
BY DEF TypeOK, Revoked, NoAllowance

LEMMA ClaimIInv == IInv /\ HarvestClaim => IInv'
<1> SUFFICES ASSUME IInv, HarvestClaim
             PROVE  IInv'
  OBVIOUS
<1> USE DEF IInv
<1> DEFINE bal == blnd + accrued
           deadline == now + ApprovalLedgers
           approves == bal > 0 /\ swapAccount # NoAccount /\ minRate > 0
<1>0. /\ bal \in Nat /\ deadline \in Nat /\ minRate \in Nat
  BY ConstantsOK DEF TypeOK
<1>1. HarvestFloor(bal, minRate) \in Nat
  BY <1>0, HarvestFloorNat
<1>2. /\ now' = now /\ swapAccount' = swapAccount /\ minRate' = minRate
      /\ idle' = idle /\ levered' = levered /\ credited' = credited
      /\ accrued' = 0 /\ blnd' = bal /\ flow' = NoFlow
  BY DEF HarvestClaim, config
<1>3. CASE approves
  <2>1. /\ pending' = [blnd_claimed |-> bal, underlying_before |-> idle,
                       floor |-> HarvestFloor(bal, minRate), expiration |-> deadline]
        /\ allowance' = [Revoked EXCEPT ![swapAccount] =
                            [amount |-> bal, expiration |-> deadline]]
    BY <1>3 DEF HarvestClaim
  <2>2. pending' # NoPending
    BY <2>1, <1>3 DEF NoPending
  <2>3. TypeOK'
    BY <1>0, <1>1, <1>2, <2>1, RevokedType
    DEF TypeOK, PendingRecords, HarvestClaim, NoEvent, NoFlow, Unsettled, Larger
  <2>4. Measured' /\ Backed'
    BY <1>0, <1>1, <1>2, <2>1, <2>2, <1>3 DEF TypeOK, PendingRecords, Measured, Backed, NoFlow
  <2>5. QED
    BY <2>3, <2>4
<1>4. CASE ~approves
  <2>1. pending' = NoPending /\ allowance' = Revoked
    BY <1>4 DEF HarvestClaim
  <2>2. TypeOK'
    BY <1>0, <1>1, <1>2, <2>1, RevokedType
    DEF TypeOK, PendingRecords, HarvestClaim, NoEvent, NoFlow, Unsettled, Larger, NoPending
  <2>3. Measured' /\ Backed'
    BY <1>0, <1>1, <1>2, <2>1 DEF TypeOK, PendingRecords, Measured, Backed
  <2>4. QED
    BY <2>2, <2>3
<1>5. QED
  BY <1>3, <1>4

\* What Settle takes from the state before and after the leg: the types and
\* the payment, given how the leg moved the balances.
LEMMA SettleEffect ==
  ASSUME IInv, NEW after \in Nat, NEW realized \in Nat, after <= blnd,
         Settle(after, realized)
  PROVE  /\ pending' = NoPending
         /\ allowance' \in [Accounts -> [amount : Nat, expiration : Nat]]
         /\ event' \in [kind : {"none", "settle", "unsettled"}, blnd : Int, owed : Nat]
         /\ flow' \in [left : Int, bought : Nat]
         /\ credited' \in Nat
         /\ credited' <= levered + idle + realized
<1> USE DEF IInv
<1>1. CASE pending = NoPending
  BY <1>1 DEF Settle, TypeOK, Backed, NoEvent
<1>2. CASE pending # NoPending
  <2> DEFINE spent == pending.blnd_claimed - after
             required == ProrateFloor(pending.floor, spent, pending.blnd_claimed)
  <2>1. /\ pending.floor \in Nat
        /\ pending.blnd_claimed \in Nat \ {0}
        /\ pending.underlying_before \in Nat
        /\ spent \in Int /\ spent <= pending.blnd_claimed
    BY <1>2 DEF TypeOK, PendingRecords, Measured
  <2>2. required \in Nat
    BY <2>1, ProrateCovers
  <2>3. /\ DeliveredBefore + realized >= required
        /\ pending' = NoPending
        /\ allowance' = Revoked
        /\ event' = [kind |-> "settle", blnd |-> spent, owed |-> required]
        /\ flow' = Moved(blnd - after, realized)
        /\ credited' = credited + required
    BY <1>2 DEF Settle
  <2>4. DeliveredBefore = idle - pending.underlying_before
    BY <1>2, <2>1 DEF DeliveredBefore, Larger, TypeOK, Measured
  <2>5. flow' \in [left : Int, bought : Nat]
    BY <1>2, <2>3 DEF Moved, TypeOK
  <2>6. credited' \in Nat /\ credited' <= levered + idle + realized
    BY <1>2, <2>1, <2>2, <2>3, <2>4 DEF TypeOK, Backed
  <2>7. QED
    BY <2>1, <2>2, <2>3, <2>5, <2>6, RevokedType
<1>3. QED
  BY <1>1, <1>2

LEMMA BrokerIInv ==
  ASSUME IInv, NEW n \in 1..MaxUnderlying, ReinvestViaBroker(n)
  PROVE  IInv'
<1>1. /\ idle >= n /\ idle' = idle - n /\ levered' = levered + n
      /\ Settle(blnd, 0)
      /\ UNCHANGED <<swapAccount, minRate, now, accrued, blnd>>
  BY DEF ReinvestViaBroker, config
<1>2. n \in Nat /\ blnd \in Nat /\ idle \in Nat /\ levered \in Nat
  BY ConstantsOK DEF IInv, TypeOK
<1>3. /\ pending' = NoPending
      /\ allowance' \in [Accounts -> [amount : Nat, expiration : Nat]]
      /\ event' \in [kind : {"none", "settle", "unsettled"}, blnd : Int, owed : Nat]
      /\ flow' \in [left : Int, bought : Nat]
      /\ credited' \in Nat
      /\ credited' <= levered + idle + 0
  BY <1>1, <1>2, SettleEffect
<1>4. TypeOK'
  BY <1>1, <1>2, <1>3 DEF IInv, TypeOK, PendingRecords, NoPending
<1>5. Measured' /\ Backed'
  BY <1>1, <1>2, <1>3 DEF Measured, Backed
<1>6. QED
  BY <1>4, <1>5 DEF IInv

LEMMA SoroswapIInv ==
  ASSUME IInv, NEW m \in 1..MaxUnderlying, NEW out \in 0..MaxUnderlying,
         ReinvestViaSoroswap(m, out)
  PROVE  IInv'
<1>1. /\ out \in Nat /\ blnd \in Nat /\ idle \in Nat /\ levered \in Nat
  BY ConstantsOK DEF IInv, TypeOK
<1>2. /\ blnd' = blnd \/ blnd' = 0
      /\ levered' = levered + out
      /\ Settle(blnd', out)
      /\ UNCHANGED <<swapAccount, minRate, now, accrued, idle>>
  BY <1>1 DEF ReinvestViaSoroswap, config
<1>3. blnd' \in Nat /\ blnd' <= blnd
  BY <1>1, <1>2
<1>4. /\ pending' = NoPending
      /\ allowance' \in [Accounts -> [amount : Nat, expiration : Nat]]
      /\ event' \in [kind : {"none", "settle", "unsettled"}, blnd : Int, owed : Nat]
      /\ flow' \in [left : Int, bought : Nat]
      /\ credited' \in Nat
      /\ credited' <= levered + idle + out
  BY <1>1, <1>2, <1>3, SettleEffect
<1>5. TypeOK'
  BY <1>1, <1>2, <1>3, <1>4 DEF IInv, TypeOK, PendingRecords, NoPending
<1>6. Measured' /\ Backed'
  BY <1>1, <1>2, <1>4 DEF Measured, Backed
<1>7. QED
  BY <1>5, <1>6 DEF IInv

LEMMA HarvestIInv ==
  ASSUME IInv, NEW m \in 0..MaxUnderlying, NEW out \in 0..MaxUnderlying,
         Harvest(m, out)
  PROVE  IInv'
<1>1. /\ out \in Nat /\ blnd \in Nat /\ accrued \in Nat /\ idle \in Nat /\ levered \in Nat
  BY ConstantsOK DEF IInv, TypeOK
<1>2. /\ pending = NoPending
      /\ blnd' = blnd + accrued \/ blnd' = 0
      /\ levered' = levered + out
      /\ accrued' = 0
      /\ event' = NoEvent
      /\ UNCHANGED <<swapAccount, minRate, now, idle, pending, allowance, flow, credited>>
  BY <1>1 DEF Harvest, config
<1>3. blnd' \in Nat
  BY <1>1, <1>2
<1>4. TypeOK'
  BY <1>1, <1>2, <1>3 DEF IInv, TypeOK, NoEvent
<1>5. Measured' /\ Backed'
  BY <1>1, <1>2 DEF IInv, TypeOK, Measured, Backed
<1>6. QED
  BY <1>4, <1>5 DEF IInv

LEMMA AdminIInv == IInv /\ AdminStep => IInv'
BY ConstantsOK DEF IInv, TypeOK, Measured, Backed, AdminStep, SetSwapAccount,
                   SetMinHarvestRate, chain, NoEvent

LEMMA LedgerIInv == IInv /\ LedgerStep => IInv'
<1> SUFFICES ASSUME IInv, LedgerStep
             PROVE  IInv'
  OBVIOUS
<1> USE DEF IInv, config
<1>1. CASE Tick
  BY <1>1 DEF Tick, TypeOK, Measured, Backed, NoEvent
<1>2. ASSUME NEW n \in 1..MaxBlnd, Emit(n)
      PROVE  IInv'
  BY <1>2, ConstantsOK DEF Emit, TypeOK, Measured, Backed, NoEvent
<1>3. ASSUME NEW a \in Accounts, NEW n \in 1..MaxBlnd, Pull(a, n)
      PROVE  IInv'
  <2>1. n \in Nat /\ n <= allowance[a].amount
    BY <1>3, ConstantsOK DEF Pull, Live, TypeOK
  <2>2. allowance' \in [Accounts -> [amount : Nat, expiration : Nat]]
    BY <1>3, <2>1 DEF Pull, TypeOK
  <2>3. flow' \in [left : Int, bought : Nat]
    BY <1>3, <2>1 DEF Pull, TypeOK, Moved
  <2>4. TypeOK'
    BY <1>3, <2>1, <2>2, <2>3 DEF Pull, TypeOK, NoEvent
  <2>5. Measured' /\ Backed'
    BY <1>3, <2>1 DEF Pull, TypeOK, PendingRecords, Measured, Backed, Moved
  <2>6. QED
    BY <2>4, <2>5
<1>4. ASSUME NEW n \in 1..MaxBlnd, ReturnBlnd(n)
      PROVE  IInv'
  <2>1. n \in Nat /\ flow' \in [left : Int, bought : Nat]
    BY <1>4, ConstantsOK DEF ReturnBlnd, TypeOK, Moved
  <2>2. TypeOK'
    BY <1>4, <2>1 DEF ReturnBlnd, TypeOK, NoEvent
  <2>3. Measured' /\ Backed'
    BY <1>4, <2>1 DEF ReturnBlnd, TypeOK, PendingRecords, Measured, Backed, Moved
  <2>4. QED
    BY <2>2, <2>3
<1>5. ASSUME NEW n \in 1..MaxUnderlying, Deliver(n)
      PROVE  IInv'
  <2>1. n \in Nat /\ flow' \in [left : Int, bought : Nat]
    BY <1>5, ConstantsOK DEF Deliver, TypeOK, Moved
  <2>2. TypeOK'
    BY <1>5, <2>1 DEF Deliver, TypeOK, NoEvent
  <2>3. Measured' /\ Backed'
    BY <1>5, <2>1 DEF Deliver, TypeOK, PendingRecords, Measured, Backed, Moved
  <2>4. QED
    BY <2>2, <2>3
<1>6. QED
  BY <1>1, <1>2, <1>3, <1>4, <1>5 DEF LedgerStep

LEMMA NextIInv == IInv /\ [Next]_vars => IInv'
<1> SUFFICES ASSUME IInv, [Next]_vars
             PROVE  IInv'
  OBVIOUS
<1>1. CASE KeeperStep
  BY <1>1, ClaimIInv, BrokerIInv, SoroswapIInv, HarvestIInv DEF KeeperStep
<1>2. CASE AdminStep
  BY <1>2, AdminIInv
<1>3. CASE LedgerStep
  BY <1>3, LedgerIInv
<1>4. CASE UNCHANGED vars
  BY <1>4 DEF vars, IInv, TypeOK, Measured, Backed
<1>5. QED
  BY <1>1, <1>2, <1>3, <1>4 DEF Next

\* Type correctness: in particular the unchecked subtractions of the claim and
\* of the settlement never take a balance, an allowance or a floor below zero.
THEOREM TypeCorrect == Spec => []TypeOK
<1>1. IInv => TypeOK
  BY DEF IInv
<1>2. QED
  BY InitIInv, NextIInv, <1>1, PTL DEF Spec

\* No underlying pays for two claims, and none pays for a claim that was made
\* after it arrived, whatever the keeper, the admin and the accounts do.
THEOREM SettlementsAreBacked == Spec => []CreditBacked
<1>1. IInv => CreditBacked
  BY DEF IInv, TypeOK, PendingRecords, Measured, Backed, CreditBacked
<1>2. QED
  BY InitIInv, NextIInv, <1>1, PTL DEF Spec

-----------------------------------------------------------------------------
(* Every claim is accounted for *)

\* Only harvest_claim and harvest_reinvest touch the claim on record.
OnlyKeeperEndsClaims ==
  pending' # pending => \/ HarvestClaim
                       \/ \E after, realized \in Nat : /\ after <= blnd
                                                      /\ Settle(after, realized)

LEMMA NextOnlyKeeperEndsClaims ==
  ASSUME IInv, Next
  PROVE  OnlyKeeperEndsClaims
<1>1. CASE HarvestClaim
  BY <1>1 DEF OnlyKeeperEndsClaims
<1>2. ASSUME NEW n \in 1..MaxUnderlying, ReinvestViaBroker(n)
      PROVE  OnlyKeeperEndsClaims
  <2>1. Settle(blnd, 0)
    BY <1>2 DEF ReinvestViaBroker
  <2>2. blnd \in Nat
    BY DEF IInv, TypeOK
  <2>3. QED
    BY <2>1, <2>2 DEF OnlyKeeperEndsClaims
<1>3. ASSUME NEW m \in 1..MaxUnderlying, NEW out \in 0..MaxUnderlying,
             ReinvestViaSoroswap(m, out)
      PROVE  OnlyKeeperEndsClaims
  <2>1. /\ out \in Nat /\ blnd \in Nat
        /\ blnd' = blnd \/ blnd' = 0
        /\ Settle(blnd', out)
    BY <1>3, ConstantsOK DEF ReinvestViaSoroswap, IInv, TypeOK
  <2>2. blnd' \in Nat /\ blnd' <= blnd
    BY <2>1
  <2>3. QED
    BY <2>1, <2>2 DEF OnlyKeeperEndsClaims
<1>4. ASSUME NEW m \in 0..MaxUnderlying, NEW out \in 0..MaxUnderlying, Harvest(m, out)
      PROVE  OnlyKeeperEndsClaims
  BY <1>4 DEF Harvest, OnlyKeeperEndsClaims
<1>5. CASE AdminStep
  BY <1>5 DEF AdminStep, SetSwapAccount, SetMinHarvestRate, OnlyKeeperEndsClaims
<1>6. CASE LedgerStep
  BY <1>6 DEF LedgerStep, Tick, Emit, Pull, ReturnBlnd, Deliver, OnlyKeeperEndsClaims
<1>7. QED
  BY <1>1, <1>2, <1>3, <1>4, <1>5, <1>6 DEF Next, KeeperStep

LEMMA ClaimAccountedNext == IInv /\ [Next]_vars => [ClaimAccountedStep]_vars
<1> SUFFICES ASSUME IInv, Next, pending # NoPending, pending' # pending
             PROVE  ClaimAccountedStep
  BY DEF ClaimAccountedStep
<1> USE DEF IInv
<1>1. /\ pending.blnd_claimed \in Nat \ {0} /\ pending.floor \in Nat
      /\ blnd \in Nat /\ flow.left \in Int /\ flow.bought \in Nat
      /\ flow.left = pending.blnd_claimed - blnd
      /\ flow.bought = idle - pending.underlying_before
  BY DEF TypeOK, PendingRecords, Measured
<1>2. CASE HarvestClaim
  <2>1. event' = IF Unsettled > 0
                 THEN [kind |-> "unsettled", blnd |-> Unsettled, owed |-> pending.floor]
                 ELSE NoEvent
    BY <1>2 DEF HarvestClaim
  <2>2. Unsettled >= flow.left
    BY <1>1 DEF Unsettled, Larger
  <2>3. QED
    BY <2>1, <2>2, <1>1 DEF ClaimAccountedStep, NoEvent, Unsettled, Larger
<1>3. ASSUME NEW after \in Nat, NEW realized \in Nat, after <= blnd, Settle(after, realized)
      PROVE  ClaimAccountedStep
  <2> DEFINE spent == pending.blnd_claimed - after
             required == ProrateFloor(pending.floor, spent, pending.blnd_claimed)
  <2>1. /\ DeliveredBefore + realized >= required
        /\ event' = [kind |-> "settle", blnd |-> spent, owed |-> required]
        /\ flow' = [left |-> flow.left + (blnd - after), bought |-> flow.bought + realized]
    BY <1>3 DEF Settle, Moved
  <2>2. flow'.left = spent /\ flow'.bought = flow.bought + realized
    BY <1>1, <2>1
  <2>3. DeliveredBefore = flow.bought
    BY <1>1 DEF DeliveredBefore, Larger
  <2>4. /\ spent \in Int /\ spent <= pending.blnd_claimed
    BY <1>1
  <2>5. /\ required \in Nat
        /\ spent <= 0 \/ required * pending.blnd_claimed >= pending.floor * spent
    BY <1>1, <2>4, ProrateCovers
  <2>6. flow'.bought \in Nat /\ flow'.bought >= required
    BY <1>1, <2>1, <2>2, <2>3, <2>5
  <2>7. flow'.bought * pending.blnd_claimed >= required * pending.blnd_claimed
    BY <1>1, <2>5, <2>6
  <2>8. spent <= 0 \/ flow'.bought * pending.blnd_claimed >= pending.floor * spent
    <3>1. /\ flow'.bought * pending.blnd_claimed \in Int
          /\ required * pending.blnd_claimed \in Int
          /\ pending.floor * spent \in Int
      BY <1>1, <2>4, <2>5, <2>6
    <3>2. QED
      BY <2>5, <2>7, <3>1
  <2>9. QED
    BY <2>1, <2>2, <2>8 DEF ClaimAccountedStep
<1>4. QED
  BY <1>2, <1>3, NextOnlyKeeperEndsClaims DEF OnlyKeeperEndsClaims

\* No claim ends with BLND gone that was neither paid for, pro rata of its
\* floor, nor reported missing in full.
THEOREM ClaimsAreAccounted == Spec => ClaimAccounted
BY InitIInv, NextIInv, ClaimAccountedNext, PTL DEF Spec, ClaimAccounted

-----------------------------------------------------------------------------
(* Under an orderly admin *)

\* What the contract says of itself and keeps only if the swap account is not
\* re-pointed under an open claim: the account configured now is the only one
\* that holds an allowance, and only for the open claim.
OneAllowance ==
  \A a \in Accounts : allowance[a].amount > 0 =>
    /\ pending # NoPending
    /\ a = swapAccount
    /\ allowance[a].amount <= pending.blnd_claimed

LEMMA InitOneAllowance == Init => OneAllowance
BY DEF Init, OneAllowance, NoAllowance

LEMMA RevokedIsEmpty ==
  ASSUME IInv, OneAllowance
  PROVE  \A a \in Accounts : Revoked[a].amount = 0
<1> TAKE a \in Accounts
<1>1. allowance[a].amount \in Nat
  BY DEF IInv, TypeOK
<1>2. CASE a = swapAccount
  <2>1. Revoked[a] = NoAllowance
    BY <1>2, ConstantsOK DEF Revoked, IInv, TypeOK
  <2>2. QED
    BY <2>1 DEF NoAllowance
<1>3. CASE a # swapAccount
  <2>1. Revoked[a] = allowance[a]
    BY <1>3 DEF Revoked, IInv, TypeOK
  <2>2. QED
    BY <1>1, <1>3, <2>1 DEF OneAllowance
<1>4. QED
  BY <1>2, <1>3

LEMMA NextOneAllowance ==
  IInv /\ OneAllowance /\ [Next /\ RewiresBetweenClaims]_vars => OneAllowance'
<1> SUFFICES ASSUME IInv, OneAllowance, [Next /\ RewiresBetweenClaims]_vars
             PROVE  OneAllowance'
  OBVIOUS
<1>0. IInv'
  BY NextIInv
<1>1. CASE HarvestClaim
  <2> DEFINE bal == blnd + accrued
             deadline == now + ApprovalLedgers
             approves == bal > 0 /\ swapAccount # NoAccount /\ minRate > 0
  <2>1. swapAccount' = swapAccount
    BY <1>1 DEF HarvestClaim, config
  <2>2. CASE ~approves
    <3>1. allowance' = Revoked
      BY <1>1, <2>2 DEF HarvestClaim
    <3>2. QED
      BY <3>1, RevokedIsEmpty DEF OneAllowance
  <2>3. CASE approves
    <3>1. /\ allowance' = [Revoked EXCEPT ![swapAccount] =
                              [amount |-> bal, expiration |-> deadline]]
          /\ pending'.blnd_claimed = bal
          /\ bal > 0
      BY <1>1, <2>3 DEF HarvestClaim
    <3>2. pending' # NoPending
      BY <3>1 DEF NoPending
    <3>3. SUFFICES ASSUME NEW a \in Accounts, allowance'[a].amount > 0
                   PROVE  a = swapAccount /\ allowance'[a].amount <= bal
      BY <3>1, <3>2, <2>1 DEF OneAllowance
    <3>4. CASE a = swapAccount
      <4>1. bal \in Nat /\ allowance'[a].amount = bal
        BY <3>1, <3>4, RevokedType DEF IInv, TypeOK
      <4>2. QED
        BY <3>4, <4>1
    <3>5. CASE a # swapAccount
      <4>1. allowance'[a] = Revoked[a]
        BY <3>1, <3>5, RevokedType DEF IInv
      <4>2. QED
        BY <4>1, <3>3, RevokedIsEmpty
    <3>6. QED
      BY <3>4, <3>5
  <2>4. QED
    BY <2>2, <2>3
<1>2. ASSUME NEW after, NEW realized, Settle(after, realized), swapAccount' = swapAccount
      PROVE  OneAllowance'
  <2>1. CASE pending = NoPending
    BY <1>2, <2>1 DEF Settle, OneAllowance
  <2>2. CASE pending # NoPending
    BY <1>2, <2>2, RevokedIsEmpty DEF Settle, OneAllowance
  <2>3. QED
    BY <2>1, <2>2
<1>3. ASSUME NEW n \in 1..MaxUnderlying, ReinvestViaBroker(n)
      PROVE  OneAllowance'
  <2>1. Settle(blnd, 0) /\ swapAccount' = swapAccount
    BY <1>3 DEF ReinvestViaBroker, config
  <2>2. QED
    BY <1>2, <2>1
<1>4. ASSUME NEW m \in 1..MaxUnderlying, NEW out \in 0..MaxUnderlying,
             ReinvestViaSoroswap(m, out)
      PROVE  OneAllowance'
  <2>1. Settle(blnd', out) /\ swapAccount' = swapAccount
    BY <1>4 DEF ReinvestViaSoroswap, config
  <2>2. QED
    BY <1>2, <2>1
<1>5. ASSUME NEW m \in 0..MaxUnderlying, NEW out \in 0..MaxUnderlying, Harvest(m, out)
      PROVE  OneAllowance'
  BY <1>5 DEF Harvest, config, OneAllowance
<1>6. ASSUME NEW a \in Accounts, SetSwapAccount(a), RewiresBetweenClaims
      PROVE  OneAllowance'
  <2>1. CASE swapAccount' = swapAccount
    BY <1>6, <2>1 DEF SetSwapAccount, OneAllowance
  <2>2. CASE swapAccount' # swapAccount
    BY <1>6, <2>2 DEF SetSwapAccount, RewiresBetweenClaims, OneAllowance
  <2>3. QED
    BY <2>1, <2>2
<1>7. ASSUME NEW r \in Rates, SetMinHarvestRate(r)
      PROVE  OneAllowance'
  BY <1>7 DEF SetMinHarvestRate, OneAllowance
<1>8. ASSUME NEW a \in Accounts, NEW n \in 1..MaxBlnd, Pull(a, n)
      PROVE  OneAllowance'
  <2>1. /\ allowance' = [allowance EXCEPT ![a].amount = @ - n]
        /\ pending' = pending /\ swapAccount' = swapAccount
        /\ n \in Nat
    BY <1>8, ConstantsOK DEF Pull, config
  <2>2. SUFFICES ASSUME NEW b \in Accounts, allowance'[b].amount > 0
                 PROVE  /\ pending # NoPending /\ b = swapAccount
                        /\ allowance'[b].amount <= pending.blnd_claimed
    BY <2>1 DEF OneAllowance
  <2>3. /\ allowance[b].amount \in Nat /\ pending.blnd_claimed \in Nat
        /\ allowance'[b].amount <= allowance[b].amount
    BY <2>1 DEF IInv, TypeOK, PendingRecords
  <2>4. allowance[b].amount > 0 /\ allowance'[b].amount \in Nat
    BY <2>2, <2>3, <1>0 DEF IInv, TypeOK
  <2>5. QED
    BY <2>3, <2>4 DEF OneAllowance
<1>9. CASE Tick \/ (\E n \in 1..MaxBlnd : Emit(n) \/ ReturnBlnd(n))
           \/ (\E n \in 1..MaxUnderlying : Deliver(n))
  BY <1>9 DEF Tick, Emit, ReturnBlnd, Deliver, config, OneAllowance
<1>10. CASE UNCHANGED vars
  BY <1>10 DEF vars, OneAllowance
<1>11. QED
  BY <1>1, <1>3, <1>4, <1>5, <1>6, <1>7, <1>8, <1>9, <1>10
  DEF Next, KeeperStep, AdminStep, LedgerStep

LEMMA OrderlyInvariant == OrderlySpec => [](IInv /\ OneAllowance)
<1>1. Init => IInv /\ OneAllowance
  BY InitIInv, InitOneAllowance
<1>2. IInv /\ OneAllowance /\ [Next /\ RewiresBetweenClaims]_vars => (IInv /\ OneAllowance)'
  <2>1. [Next /\ RewiresBetweenClaims]_vars => [Next]_vars
    OBVIOUS
  <2>2. QED
    BY <2>1, NextIInv, NextOneAllowance
<1>3. QED
  BY <1>1, <1>2, PTL DEF OrderlySpec

\* As long as the admin re-points the swap account only between claims, BLND is
\* never pullable without a live floor that covers it.
THEOREM OrderlyPullsAreFloored == OrderlySpec => []PullsAreFloored
<1>1. IInv /\ OneAllowance => PullsAreFloored
  <2> SUFFICES ASSUME IInv, OneAllowance, NEW a \in Accounts, Live(a) > 0
               PROVE  /\ pending # NoPending
                      /\ Live(a) <= pending.blnd_claimed
                      /\ \A b \in Accounts : Live(b) > 0 => b = a
    BY DEF PullsAreFloored
  <2>1. \A b \in Accounts : Live(b) > 0 => /\ allowance[b].amount > 0
                                          /\ Live(b) = allowance[b].amount
    BY DEF Live, IInv, TypeOK
  <2>2. QED
    BY <2>1 DEF OneAllowance
<1>2. QED
  BY <1>1, OrderlyInvariant, PTL

-----------------------------------------------------------------------------
(* The split harvest implements the floored sale *)

\* A step that leaves the claim and its flow alone is a quiet step of the sale.
LEMMA QuietSaleStep ==
  ASSUME UNCHANGED <<pending, flow>>, event' = NoEvent
  PROVE  Sale!Hush
BY DEF Sale!Hush, NoEvent

LEMMA ClaimIsSaleStep ==
  ASSUME IInv, IInv', HarvestClaim
  PROVE  Sale!SaleNext
<1>1. /\ pending.blnd_claimed \in Nat /\ pending'.blnd_claimed \in Nat
      /\ pending'.floor \in Nat
      /\ pending # NoPending => pending.blnd_claimed > 0
      /\ pending' # NoPending => pending'.blnd_claimed > 0
      /\ flow' = NoFlow
  BY DEF IInv, TypeOK, PendingRecords, Measured, HarvestClaim
<1>2. Sale!NewSale \/ (Sale!NoSale /\ flow'.left = 0 /\ flow'.bought = 0)
  BY <1>1 DEF Sale!NewSale, Sale!NoSale, NoPending, NoFlow
<1>3. CASE pending = NoPending
  <2>1. event' = NoEvent
    BY <1>3 DEF HarvestClaim
  <2>2. pending.blnd_claimed = 0
    BY <1>3 DEF NoPending
  <2>3. QED
    BY <2>1, <2>2, <1>2 DEF Sale!SaleNext, Sale!Open, Sale!Rest, NoEvent
<1>4. CASE pending # NoPending
  <2>1. event' = IF Unsettled > 0
                 THEN [kind |-> "unsettled", blnd |-> Unsettled, owed |-> pending.floor]
                 ELSE NoEvent
    BY <1>4 DEF HarvestClaim
  <2>2. Unsettled \in Nat /\ Unsettled >= flow.left
    BY <1>4 DEF Unsettled, Larger, IInv, TypeOK, PendingRecords, Measured
  <2>3. flow.left \in Int
    BY DEF IInv, TypeOK
  <2>4. CASE Unsettled > 0
    BY <2>1, <2>2, <2>4, <1>1, <1>2, <1>4 DEF Sale!SaleNext, Sale!Abandon
  <2>5. CASE Unsettled = 0
    BY <2>1, <2>2, <2>3, <2>5, <1>1, <1>2, <1>4 DEF Sale!SaleNext, Sale!Abandon, NoEvent
  <2>6. QED
    BY <2>2, <2>4, <2>5
<1>5. QED
  BY <1>3, <1>4

LEMMA SettleIsSaleStep ==
  ASSUME IInv, NEW after \in Nat, NEW realized \in Nat, after <= blnd,
         Settle(after, realized)
  PROVE  Sale!SaleNext
<1>1. CASE pending = NoPending
  BY <1>1, QuietSaleStep DEF Settle, Sale!SaleNext
<1>2. CASE pending # NoPending
  <2> DEFINE spent == pending.blnd_claimed - after
             required == ProrateFloor(pending.floor, spent, pending.blnd_claimed)
  <2>1. /\ pending.blnd_claimed \in Nat \ {0} /\ pending.floor \in Nat
        /\ blnd \in Nat /\ flow.left \in Int /\ flow.bought \in Nat
        /\ flow.left = pending.blnd_claimed - blnd
        /\ flow.bought = idle - pending.underlying_before
    BY <1>2 DEF IInv, TypeOK, PendingRecords, Measured
  <2>2. /\ DeliveredBefore + realized >= required
        /\ pending' = NoPending
        /\ event' = [kind |-> "settle", blnd |-> spent, owed |-> required]
        /\ flow' = [left |-> flow.left + (blnd - after), bought |-> flow.bought + realized]
    BY <1>2 DEF Settle, Moved
  <2>3. /\ flow'.left = spent /\ spent \in Int /\ spent >= flow.left
        /\ spent <= pending.blnd_claimed
        /\ flow'.bought \in Nat /\ flow'.bought >= flow.bought
        /\ flow'.bought = DeliveredBefore + realized
    BY <1>2, <2>1, <2>2 DEF DeliveredBefore, Larger
  <2>4. /\ required \in Nat
        /\ spent <= 0 \/ required * pending.blnd_claimed >= pending.floor * spent
    BY <2>1, <2>3, ProrateCovers
  <2>5. spent <= 0 \/ flow'.bought * pending.blnd_claimed >= pending.floor * spent
    <3>1. flow'.bought * pending.blnd_claimed >= required * pending.blnd_claimed
      BY <2>1, <2>2, <2>3, <2>4
    <3>2. /\ flow'.bought * pending.blnd_claimed \in Int
          /\ required * pending.blnd_claimed \in Int
          /\ pending.floor * spent \in Int
      BY <2>1, <2>3, <2>4
    <3>3. QED
      BY <2>4, <3>1, <3>2
  <2>6. Sale!NoSale
    BY <2>2 DEF Sale!NoSale, NoPending
  <2>7. Sale!Close
    BY <2>1, <2>2, <2>3, <2>5, <2>6 DEF Sale!Close
  <2>8. QED
    BY <2>7 DEF Sale!SaleNext
<1>3. QED
  BY <1>1, <1>2

LEMMA LedgerIsSaleStep ==
  ASSUME IInv, OneAllowance, LedgerStep
  PROVE  Sale!SaleNext
<1>1. /\ pending.blnd_claimed \in Nat /\ flow.left \in Int /\ flow.bought \in Nat
      /\ blnd \in Nat
      /\ pending # NoPending => pending.blnd_claimed > 0 /\ blnd = pending.blnd_claimed - flow.left
  BY DEF IInv, TypeOK, PendingRecords, Measured
<1>2. CASE Tick
  BY <1>2, QuietSaleStep DEF Tick, Sale!SaleNext
<1>3. ASSUME NEW n \in 1..MaxBlnd, Emit(n)
      PROVE  Sale!SaleNext
  BY <1>3, QuietSaleStep DEF Emit, Sale!SaleNext
<1>4. ASSUME NEW a \in Accounts, NEW n \in 1..MaxBlnd, Pull(a, n)
      PROVE  Sale!SaleNext
  <2>1. n \in Nat /\ n > 0 /\ n <= Live(a) /\ n <= blnd
    BY <1>4, ConstantsOK DEF Pull
  <2>2. allowance[a].amount > 0
    BY <2>1 DEF Live, IInv, TypeOK
  <2>3. pending # NoPending
    BY <2>2 DEF OneAllowance
  <2>4. /\ flow'.left = flow.left + n /\ flow'.bought = flow.bought
        /\ pending' = pending /\ event' = NoEvent
    BY <1>4 DEF Pull, IInv, TypeOK
  <2>5. Sale!Take
    BY <1>1, <2>1, <2>3, <2>4 DEF Sale!Take, NoEvent
  <2>6. QED
    BY <2>5 DEF Sale!SaleNext
<1>5. ASSUME NEW n \in 1..MaxBlnd, ReturnBlnd(n)
      PROVE  Sale!SaleNext
  <2>0. /\ n \in Nat /\ flow' = Moved(-n, 0) /\ pending' = pending /\ event' = NoEvent
    BY <1>5, ConstantsOK DEF ReturnBlnd
  <2>1. CASE pending = NoPending
    BY <2>0, <2>1, QuietSaleStep DEF Moved, Sale!SaleNext
  <2>2. CASE pending # NoPending
    <3>1. flow'.left = flow.left - n /\ flow'.bought = flow.bought
      BY <2>0, <2>2, <1>1 DEF Moved
    <3>2. Sale!Take
      BY <1>1, <2>0, <2>2, <3>1 DEF Sale!Take, NoEvent
    <3>3. QED
      BY <3>2 DEF Sale!SaleNext
  <2>3. QED
    BY <2>1, <2>2
<1>6. ASSUME NEW n \in 1..MaxUnderlying, Deliver(n)
      PROVE  Sale!SaleNext
  <2>0. /\ n \in Nat /\ flow' = Moved(0, n) /\ pending' = pending /\ event' = NoEvent
    BY <1>6, ConstantsOK DEF Deliver
  <2>1. CASE pending = NoPending
    BY <2>0, <2>1, QuietSaleStep DEF Moved, Sale!SaleNext
  <2>2. CASE pending # NoPending
    <3>1. flow'.left = flow.left /\ flow'.bought = flow.bought + n
      BY <2>0, <2>2, <1>1 DEF Moved
    <3>2. Sale!Pay
      BY <1>1, <2>0, <2>2, <3>1 DEF Sale!Pay, NoEvent
    <3>3. QED
      BY <3>2 DEF Sale!SaleNext
  <2>3. QED
    BY <2>1, <2>2
<1>7. QED
  BY <1>2, <1>3, <1>4, <1>5, <1>6 DEF LedgerStep

LEMMA StepIsSaleStep ==
  IInv /\ OneAllowance /\ IInv' /\ [Next /\ RewiresBetweenClaims]_vars
    => [Sale!SaleNext]_(Sale!saleVars)
<1> SUFFICES ASSUME IInv, OneAllowance, IInv', [Next /\ RewiresBetweenClaims]_vars
             PROVE  Sale!SaleNext \/ UNCHANGED Sale!saleVars
  OBVIOUS
<1>1. CASE HarvestClaim
  BY <1>1, ClaimIsSaleStep
<1>2. ASSUME NEW n \in 1..MaxUnderlying, ReinvestViaBroker(n)
      PROVE  Sale!SaleNext
  <2>1. Settle(blnd, 0) /\ blnd \in Nat
    BY <1>2 DEF ReinvestViaBroker, IInv, TypeOK
  <2>2. QED
    BY <2>1, SettleIsSaleStep
<1>3. ASSUME NEW m \in 1..MaxUnderlying, NEW out \in 0..MaxUnderlying,
             ReinvestViaSoroswap(m, out)
      PROVE  Sale!SaleNext
  <2>1. /\ out \in Nat /\ blnd \in Nat
        /\ blnd' = blnd \/ blnd' = 0
        /\ Settle(blnd', out)
    BY <1>3, ConstantsOK DEF ReinvestViaSoroswap, IInv, TypeOK
  <2>2. blnd' \in Nat /\ blnd' <= blnd
    BY <2>1
  <2>3. QED
    BY <2>1, <2>2, SettleIsSaleStep
<1>4. ASSUME NEW m \in 0..MaxUnderlying, NEW out \in 0..MaxUnderlying, Harvest(m, out)
      PROVE  Sale!SaleNext
  BY <1>4, QuietSaleStep DEF Harvest, Sale!SaleNext
<1>5. CASE AdminStep
  BY <1>5, QuietSaleStep DEF AdminStep, SetSwapAccount, SetMinHarvestRate, Sale!SaleNext
<1>6. CASE LedgerStep
  BY <1>6, LedgerIsSaleStep
<1>7. CASE UNCHANGED vars
  BY <1>7 DEF vars, Sale!saleVars
<1>8. QED
  BY <1>1, <1>2, <1>3, <1>4, <1>5, <1>6, <1>7 DEF Next, KeeperStep

LEMMA InitIsSaleInit == Init => Sale!SaleInit
BY DEF Init, Sale!SaleInit, NoPending, NoEvent, NoFlow

\* Under an orderly admin the split harvest, with its clock, allowances and
\* measured balances, is a sale with a floor.
THEOREM SplitHarvestIsFlooredSale == OrderlySpec => SaleKept
<1>1. IInv /\ OneAllowance /\ (IInv /\ OneAllowance)' /\ [Next /\ RewiresBetweenClaims]_vars
        => [Sale!SaleNext]_(Sale!saleVars)
  BY StepIsSaleStep
<1>2. QED
  BY <1>1, InitIsSaleInit, OrderlyInvariant, PTL DEF OrderlySpec, SaleKept, Sale!SaleSpec

-----------------------------------------------------------------------------
(* The router *)

\* What the router's proofs need to know of the contract's types.
VaultAmounts ==
  /\ accrued \in Nat /\ blnd \in Nat /\ idle \in Nat /\ levered \in Nat
  /\ minRate \in Nat

\* At most the call the router is waiting for is still polled, and until it is
\* answered.
Polled ==
  \A tx \in flying : ~tx.old =>
    /\ tx.call = pc
    /\ answer = Unanswered
    /\ pc = "reinvest" => tx.n = job.bought

\* Levered by the call just answered, and not logged yet.
Due ==
  IF answer.status # "success" THEN 0
  ELSE IF pc = "reinvest" THEN job.bought
  ELSE IF pc = "swap" THEN answer.result ELSE 0

RIInv ==
  /\ RouterTypeOK
  /\ VaultAmounts
  /\ Polled
  /\ reported + Due <= levered

LEMMA RouterInitRIInv == RouterInit => RIInv
BY RouterConstantsOK
DEF RouterInit, Init, RIInv, RouterTypeOK, VaultAmounts, Polled, Due, Jobs, NoJob,
    Unanswered, Txs

-----------------------------------------------------------------------------
(* The two halves of invoke *)

LEMMA CountedFault ==
  ASSUME RouterTypeOK, NEW kind, Unlucky(kind)
  PROVE  faults' \in 0..MaxFaults
BY RouterConstantsOK DEF RouterTypeOK, Unlucky

\* Going on to another await keeps what is in flight out of sight.
LEMMA OverEffect ==
  ASSUME Over
  PROVE  pc' = "rest" /\ job' \in Jobs /\ answer' = Unanswered
BY DEF Over, NoJob, Jobs

\* A submission happens with nothing else polled, and leaves only what it
\* submitted.
LEMMA SubmitEffect ==
  ASSUME RIInv, NEW tx \in Txs, ~tx.old, NEW at, tx.call = at, NEW j \in Jobs,
         at = "reinvest" => tx.n = j.bought,
         \A other \in flying : other.old,
         Submit(tx, at, j)
  PROVE  /\ pc' \in {at, "rest"} /\ job' \in Jobs /\ answer' = Unanswered
         /\ flying' \subseteq Txs
         /\ faults' \in 0..MaxFaults
         /\ Polled'
<1>1. PICK price \in Prices :
        \/ /\ Goto(at, j)
           /\ flying' = flying \cup {tx}
           /\ UNCHANGED faults
        \/ /\ Unlucky("market") \/ UNCHANGED faults
           /\ Thrown
           /\ UNCHANGED flying
  BY DEF Submit
<1>2. flying \subseteq Txs /\ faults \in 0..MaxFaults
  BY DEF RIInv, RouterTypeOK
<1>3. faults' \in 0..MaxFaults
  BY <1>1, <1>2, CountedFault DEF RIInv
<1>4. CASE Goto(at, j) /\ flying' = flying \cup {tx}
  BY <1>2, <1>3, <1>4 DEF Goto, Polled
<1>5. CASE Thrown /\ UNCHANGED flying
  BY <1>2, <1>3, <1>5, OverEffect DEF Thrown, Polled
<1>6. QED
  BY <1>1, <1>4, <1>5

\* Where the router is not polling, or has its answer, all in flight is old.
LEMMA NothingPolled ==
  ASSUME RIInv, answer # Unanswered \/ pc \in {"rest", "trade", "asset", "quote", "fallback"}
  PROVE  \A tx \in flying : tx.old
BY DEF RIInv, RouterTypeOK, Txs, Polled

\* The contract under the router's transactions: amounts stay natural, and
\* what is levered never shrinks.
LEMMA AppliedEffect ==
  ASSUME RIInv, NEW tx \in Txs, NEW price \in Prices, Applied(tx, price)
  PROVE  /\ VaultAmounts'
         /\ kBlnd' \in Nat /\ kAsset' \in Nat
         /\ levered' >= levered
         /\ tx.call = "reinvest" => levered' = levered + tx.n
         /\ tx.call = "swap" => levered' = levered + SwapOut(price)
<1>1. /\ tx.n \in Nat /\ SwapOut(price) \in Nat
      /\ kBlnd \in Nat /\ kAsset \in Nat /\ VaultAmounts
  BY RouterConstantsOK DEF RIInv, RouterTypeOK, VaultAmounts, Txs, SwapOut
<1>2. CASE tx.call = "claim" /\ HarvestClaim /\ UNCHANGED held
  BY <1>1, <1>2 DEF HarvestClaim, VaultAmounts, held, config
<1>3. CASE tx.call = "swap" /\ ReinvestViaSoroswap(tx.n, SwapOut(price)) /\ UNCHANGED held
  <2>1. /\ blnd' = blnd \/ blnd' = 0
        /\ levered' = levered + SwapOut(price)
        /\ UNCHANGED <<accrued, idle, minRate>>
    BY <1>1, <1>3 DEF ReinvestViaSoroswap, VaultAmounts, config
  <2>2. QED
    BY <1>1, <1>3, <2>1 DEF VaultAmounts, held
<1>4. CASE tx.call = "reinvest" /\ ReinvestViaBroker(tx.n) /\ UNCHANGED held
  BY <1>1, <1>4 DEF ReinvestViaBroker, VaultAmounts, held, config
<1>5. CASE tx.call = "pull" /\ Pull(Keeper, tx.n) /\ kBlnd' = kBlnd + tx.n /\ UNCHANGED kAsset
  BY <1>1, <1>5 DEF Pull, VaultAmounts, config
<1>6. CASE /\ tx.call = "return" /\ tx.n <= kBlnd
           /\ ReturnBlnd(tx.n) /\ kBlnd' = kBlnd - tx.n /\ UNCHANGED kAsset
  BY <1>1, <1>6 DEF ReturnBlnd, VaultAmounts, config
<1>7. CASE /\ tx.call = "push" /\ tx.n <= kAsset
           /\ Deliver(tx.n) /\ kAsset' = kAsset - tx.n /\ UNCHANGED kBlnd
  BY <1>1, <1>7 DEF Deliver, VaultAmounts, config
<1>8. QED
  BY <1>2, <1>3, <1>4, <1>5, <1>6, <1>7 DEF Applied

-----------------------------------------------------------------------------
(* The network *)

LEMMA LandRIInv ==
  ASSUME RIInv, NEW tx \in flying, NEW price \in Prices, Land(tx, price)
  PROVE  RIInv'
<1>0. /\ tx \in Txs /\ tx.n \in Nat /\ faults \in 0..MaxFaults
      /\ levered \in Nat /\ reported \in Nat /\ job.bought \in Nat
      /\ answer \in [status : {"none", "success", "failed", "timeout"}, result : Nat]
      /\ reported + Due <= levered
  BY DEF RIInv, RouterTypeOK, Txs, Jobs, VaultAmounts
<1>1. flying' = {} /\ UNCHANGED <<pc, job, selling, reported, emitted>>
  BY DEF Land
<1>2. Returned(tx, price) \in Nat /\ SwapOut(price) \in Nat
  BY <1>0, RouterConstantsOK DEF RIInv, VaultAmounts, Returned, SwapOut
<1>3. CASE /\ Applied(tx, price)
           /\ answer' = IF tx.old THEN answer
                        ELSE [status |-> "success", result |-> Returned(tx, price)]
           /\ UNCHANGED faults
  <2>1. /\ VaultAmounts' /\ kBlnd' \in Nat /\ kAsset' \in Nat
        /\ levered' >= levered
        /\ tx.call = "reinvest" => levered' = levered + tx.n
        /\ tx.call = "swap" => levered' = levered + SwapOut(price)
    BY <1>0, <1>3, AppliedEffect
  <2>2. RouterTypeOK'
    BY <1>0, <1>1, <1>2, <1>3, <2>1 DEF RIInv, RouterTypeOK
  <2>3. levered' \in Nat
    BY <2>1 DEF VaultAmounts
  <2>4. CASE tx.old
    <3>1. Due' = Due
      BY <1>1, <1>3, <2>4 DEF Due
    <3>2. Due \in Nat
      BY <1>0 DEF Due
    <3>3. QED
      BY <1>0, <1>1, <2>1, <2>2, <2>3, <3>1, <3>2 DEF RIInv, Polled
  <2>5. CASE ~tx.old
    <3>1. tx.call = pc /\ answer = Unanswered /\ (pc = "reinvest" => tx.n = job.bought)
      BY <2>5 DEF RIInv, Polled
    <3>2. Due = 0
      BY <3>1 DEF Due, Unanswered
    <3>3. Due' = IF pc = "reinvest" THEN job.bought
                 ELSE IF pc = "swap" THEN SwapOut(price) ELSE 0
      BY <1>1, <1>3, <2>5, <3>1 DEF Due, Returned
    <3>4. Due' + levered <= levered'
      BY <1>0, <1>2, <2>1, <2>3, <3>1, <3>3
    <3>5. QED
      BY <1>0, <1>1, <1>2, <2>1, <2>2, <2>3, <3>2, <3>3, <3>4 DEF RIInv, Polled
  <2>6. QED
    BY <2>4, <2>5
<1>4. CASE /\ answer' = IF tx.old THEN answer ELSE [status |-> "failed", result |-> 0]
           /\ Unlucky("market") \/ UNCHANGED faults
           /\ UNCHANGED <<vars, held>>
  <2>1. faults' \in 0..MaxFaults
    BY <1>0, <1>4, CountedFault DEF RIInv
  <2>2. RouterTypeOK' /\ VaultAmounts' /\ levered' = levered
    BY <1>0, <1>1, <1>4, <2>1 DEF RIInv, RouterTypeOK, VaultAmounts, vars, held
  <2>3. Due' = Due \/ Due' = 0
    BY <1>1, <1>4 DEF Due
  <2>4. Due \in Nat
    BY <1>0 DEF Due
  <2>5. QED
    BY <1>0, <1>1, <2>2, <2>3, <2>4 DEF RIInv, Polled
<1>5. QED
  BY <1>3, <1>4 DEF Land

LEMMA ForgottenEffect ==
  ASSUME RIInv
  PROVE  Forgotten \subseteq Txs /\ \A tx \in Forgotten : tx.old
BY DEF RIInv, RouterTypeOK, Forgotten, Txs

LEMMA NetworkRIInv ==
  ASSUME RIInv, NetworkStep
  PROVE  RIInv'
<1>1. ASSUME NEW tx \in flying, Lapse(tx)
      PROVE  RIInv'
  BY <1>1 DEF Lapse, RIInv, RouterTypeOK, VaultAmounts, Polled, Due, vars, held, code
<1>2. QED
  BY <1>1, LandRIInv DEF NetworkStep

-----------------------------------------------------------------------------
(* The router *)

\* A step of the router that ends in a submission or in another await: the
\* facts about its outcome that the invariant needs.
LEMMA StepRIInv ==
  ASSUME RIInv,
         pc' \in {"rest", "claim", "quote", "trade", "pull", "session", "blnd", "asset",
                  "return", "push", "reinvest", "fallback", "swap"},
         job' \in Jobs, answer' = Unanswered, flying' \subseteq Txs,
         faults' \in 0..MaxFaults, Polled', selling' \in Nat,
         reported' \in Nat, reported' <= reported + Due,
         UNCHANGED <<vars, held, emitted>>
  PROVE  RIInv'
<1>1. Due' = 0
  BY DEF Due, Unanswered
<1>2. /\ levered' = levered /\ levered \in Nat /\ Due \in Nat
      /\ VaultAmounts'
  BY DEF RIInv, RouterTypeOK, VaultAmounts, vars, Due, Jobs
<1>3. RouterTypeOK'
  BY DEF RIInv, RouterTypeOK, held, Unanswered
<1>4. reported \in Nat /\ reported + Due <= levered
  BY DEF RIInv, RouterTypeOK
<1>5. reported' + Due' <= levered'
  <2>1. \A a, b, c, d \in Nat : a <= b + c /\ b + c <= d => a + 0 <= d
    OBVIOUS
  <2>2. reported' + 0 <= levered
    BY <1>2, <1>4, <2>1
  <2>3. QED
    BY <1>1, <1>2, <2>2
<1>6. QED
  BY <1>2, <1>3, <1>5 DEF RIInv

\* Nothing in flight is polled after a step that leaves the network alone.
LEMMA StillOld ==
  ASSUME \A tx \in flying : tx.old, UNCHANGED flying
  PROVE  Polled'
BY DEF Polled

LEMMA LeftoverEffect ==
  ASSUME RIInv, NEW j \in Jobs, Leftover(j), \A tx \in flying : tx.old
  PROVE  /\ pc' \in {"fallback", "rest"} /\ job' \in Jobs /\ answer' = Unanswered
         /\ flying' \subseteq Txs /\ faults' \in 0..MaxFaults /\ Polled'
<1>1. flying' \subseteq Txs /\ faults' \in 0..MaxFaults /\ Polled'
  BY StillOld DEF Leftover, RIInv, RouterTypeOK
<1>2. QED
  BY <1>1, OverEffect DEF Leftover, Goto

LEMMA PushEffect ==
  ASSUME RIInv, NEW j \in Jobs, PushProceeds(j), \A tx \in flying : tx.old
  PROVE  /\ pc' \in {"push", "fallback", "rest"} /\ job' \in Jobs /\ answer' = Unanswered
         /\ flying' \subseteq Txs /\ faults' \in 0..MaxFaults /\ Polled'
<1>1. CASE j.bought = 0
  BY <1>1, LeftoverEffect DEF PushProceeds
<1>2. CASE j.bought # 0
  <2>1. Call("push", j.bought) \in Txs /\ ~Call("push", j.bought).old
        /\ Call("push", j.bought).call = "push"
    BY DEF Call, Txs, Jobs
  <2>2. Submit(Call("push", j.bought), "push", j)
    BY <1>2 DEF PushProceeds
  <2>3. QED
    BY <2>1, <2>2, SubmitEffect
<1>3. QED
  BY <1>1, <1>2

LEMMA MinOutNat ==
  ASSUME NEW quote \in Nat
  PROVE  MinOut(quote) \in Nat
<1>1. quote * (Basis - Slippage) \in Nat /\ Basis \in Nat \ {0}
  BY RouterConstantsOK
<1>2. \A a \in Nat, b \in Nat \ {0} : a \div b \in Nat
  BY Z3
<1>3. QED
  BY <1>1, <1>2 DEF MinOut

LEMMA StartPassRIInv == RIInv /\ StartPass => RIInv'
<1> SUFFICES ASSUME RIInv, StartPass
             PROVE  RIInv'
  OBVIOUS
<1> DEFINE j == [NoJob EXCEPT !.rate = IF swapAccount = Keeper THEN minRate ELSE 0]
<1>1. j \in Jobs
  BY DEF NoJob, Jobs, RIInv, VaultAmounts
<1>2. Claim \in Txs /\ ~Claim.old /\ Claim.call = "claim"
  BY DEF Claim, Call, Txs
<1>3. \A tx \in flying : tx.old
  BY NothingPolled DEF StartPass
<1>4. Submit(Claim, "claim", j) /\ UNCHANGED <<vars, held, selling, reported, emitted>>
  BY DEF StartPass
<1> HIDE DEF j
<1>5. /\ pc' \in {"claim", "rest"} /\ job' \in Jobs /\ answer' = Unanswered
      /\ flying' \subseteq Txs /\ faults' \in 0..MaxFaults /\ Polled'
  BY <1>1, <1>2, <1>3, <1>4, SubmitEffect
<1>6. reported' \in Nat /\ reported' <= reported + Due /\ selling' \in Nat
  BY <1>4 DEF RIInv, RouterTypeOK, Due, Jobs
<1>7. QED
  BY <1>4, <1>5, <1>6, StepRIInv

LEMMA TimesOutRIInv == RIInv /\ TimesOut => RIInv'
<1> SUFFICES ASSUME RIInv, TimesOut
             PROVE  RIInv'
  OBVIOUS
<1>1. /\ answer = Unanswered /\ answer' = [status |-> "timeout", result |-> 0]
      /\ flying' = Forgotten
      /\ Unlucky("timeout") \/ UNCHANGED faults
      /\ UNCHANGED <<vars, held, pc, job, selling, reported, emitted>>
  BY DEF TimesOut
<1>2. faults' \in 0..MaxFaults
  BY <1>1, CountedFault DEF RIInv, RouterTypeOK
<1>3. flying' \subseteq Txs /\ Polled'
  BY <1>1, ForgottenEffect DEF Polled
<1>4. RouterTypeOK' /\ VaultAmounts'
  BY <1>1, <1>2, <1>3 DEF RIInv, RouterTypeOK, VaultAmounts, vars, held
<1>5. Due = 0 /\ Due' = 0
  BY <1>1 DEF Due, Unanswered
<1>6. QED
  BY <1>1, <1>3, <1>4, <1>5 DEF RIInv, vars

LEMMA CrashRIInv == RIInv /\ Crash => RIInv'
<1> SUFFICES ASSUME RIInv, Crash
             PROVE  RIInv'
  OBVIOUS
<1>1. /\ Unlucky("crash") /\ Over /\ flying' = Forgotten
      /\ selling' \in {selling, 0}
      /\ UNCHANGED <<vars, held, reported, emitted>>
  BY DEF Crash, Thrown
<1>2. faults' \in 0..MaxFaults /\ flying' \subseteq Txs /\ Polled'
  BY <1>1, CountedFault, ForgottenEffect DEF Polled, RIInv
<1>3. reported' \in Nat /\ reported' <= reported + Due /\ selling' \in Nat
  BY <1>1 DEF RIInv, RouterTypeOK, Due, Jobs
<1>4. QED
  BY <1>1, <1>2, <1>3, OverEffect, StepRIInv

LEMMA ClaimAnsweredRIInv == RIInv /\ ClaimAnswered => RIInv'
<1> SUFFICES ASSUME RIInv, ClaimAnswered
             PROVE  RIInv'
  OBVIOUS
<1>1. /\ answer # Unanswered
      /\ \/ Goto("quote", [job EXCEPT !.claimed = answer.result])
         \/ Over
      /\ UNCHANGED <<vars, held, flying, selling, reported, emitted, faults>>
  BY DEF ClaimAnswered
<1>2. [job EXCEPT !.claimed = answer.result] \in Jobs
  BY DEF RIInv, RouterTypeOK, Jobs
<1>3. pc' \in {"quote", "rest"} /\ job' \in Jobs /\ answer' = Unanswered
  BY <1>1, <1>2, OverEffect DEF Goto
<1>4. flying' \subseteq Txs /\ faults' \in 0..MaxFaults /\ Polled'
  BY <1>1, NothingPolled, StillOld DEF RIInv, RouterTypeOK
<1>5. reported' \in Nat /\ reported' <= reported + Due /\ selling' \in Nat
  BY <1>1 DEF RIInv, RouterTypeOK, Due, Jobs
<1>6. QED
  BY <1>1, <1>3, <1>4, <1>5, StepRIInv

LEMMA QuotesNat ==
  ASSUME NEW n \in Nat
  PROVE  Quotes(n) \subseteq Nat
BY RouterConstantsOK DEF Quotes

LEMMA DecideRIInv == RIInv /\ Decide => RIInv'
<1> SUFFICES ASSUME RIInv, Decide
             PROVE  RIInv'
  OBVIOUS
<1>1. /\ pc = "quote"
      /\ UNCHANGED <<vars, held, flying, selling, reported, emitted>>
  BY DEF Decide
<1>2. PICK broker \in Quotes(job.claimed), soroswap \in Quotes(job.claimed) :
        LET viaBroker == broker > soroswap /\ job.rate > 0
            quote == IF viaBroker THEN broker ELSE soroswap
        IN /\ IF 0 \in {broker, soroswap} THEN Unlucky("quote") ELSE UNCHANGED faults
           /\ IF quote = 0 \/ MinOut(quote) < SettlementFloor THEN Over
              ELSE Goto("trade", [job EXCEPT
                     !.outMin = MinOut(quote),
                     !.route = IF viaBroker THEN "broker" ELSE "soroswap"])
  BY DEF Decide
<1> DEFINE viaBroker == broker > soroswap /\ job.rate > 0
           quote == IF viaBroker THEN broker ELSE soroswap
           j == [job EXCEPT !.outMin = MinOut(quote),
                            !.route = IF viaBroker THEN "broker" ELSE "soroswap"]
<1>3. quote \in Nat
  BY QuotesNat DEF RIInv, RouterTypeOK, Jobs
<1>4. MinOut(quote) \in Nat
  BY <1>3, MinOutNat
<1>5. j \in Jobs
  BY <1>4 DEF RIInv, RouterTypeOK, Jobs
<1>6. /\ Unlucky("quote") \/ UNCHANGED faults
      /\ Over \/ Goto("trade", j)
  BY <1>2
<1> HIDE DEF j, quote, viaBroker
<1>7. pc' \in {"trade", "rest"} /\ job' \in Jobs /\ answer' = Unanswered
  BY <1>5, <1>6, OverEffect DEF Goto
<1>8. flying' \subseteq Txs /\ faults' \in 0..MaxFaults /\ Polled'
  BY <1>1, <1>6, NothingPolled, StillOld, CountedFault DEF RIInv, RouterTypeOK
<1>9. reported' \in Nat /\ reported' <= reported + Due /\ selling' \in Nat
  BY <1>1 DEF RIInv, RouterTypeOK, Due, Jobs
<1>10. QED
  BY <1>1, <1>7, <1>8, <1>9, StepRIInv

LEMMA TradeRIInv == RIInv /\ Trade => RIInv'
<1> SUFFICES ASSUME RIInv, Trade
             PROVE  RIInv'
  OBVIOUS
<1> DEFINE pull == Call("pull", job.claimed)
           swap == Call("swap", job.outMin)
           j == [job EXCEPT !.blndBefore = kBlnd, !.assetBefore = kAsset]
<1>1. /\ pc = "trade"
      /\ Submit(pull, "pull", j) \/ Submit(swap, "swap", job)
      /\ UNCHANGED <<vars, held, selling, reported, emitted>>
  BY DEF Trade
<1>2. /\ pull \in Txs /\ ~pull.old /\ pull.call = "pull"
      /\ swap \in Txs /\ ~swap.old /\ swap.call = "swap"
      /\ job \in Jobs /\ j \in Jobs
  BY DEF RIInv, RouterTypeOK, Jobs, Txs, Call
<1>3. \A tx \in flying : tx.old
  BY <1>1, NothingPolled
<1> HIDE DEF pull, swap, j
<1>4. /\ pc' \in {"pull", "swap", "rest"} /\ job' \in Jobs /\ answer' = Unanswered
      /\ flying' \subseteq Txs /\ faults' \in 0..MaxFaults /\ Polled'
  <2>1. CASE Submit(pull, "pull", j)
    BY <1>2, <1>3, <2>1, SubmitEffect
  <2>2. CASE Submit(swap, "swap", job)
    BY <1>2, <1>3, <2>2, SubmitEffect
  <2>3. QED
    BY <1>1, <2>1, <2>2
<1>5. reported' \in Nat /\ reported' <= reported + Due /\ selling' \in Nat
  BY <1>1 DEF RIInv, RouterTypeOK, Due, Jobs
<1>6. QED
  BY <1>1, <1>4, <1>5, StepRIInv

LEMMA PullAnsweredRIInv == RIInv /\ PullAnswered => RIInv'
<1> SUFFICES ASSUME RIInv, PullAnswered
             PROVE  RIInv'
  OBVIOUS
<1> DEFINE j == [job EXCEPT !.unsold = job.claimed]
<1>1. /\ answer # Unanswered
      /\ \/ Goto("session", job) /\ selling' = job.claimed /\ UNCHANGED <<flying, faults>>
         \/ Leftover(j) /\ UNCHANGED selling
      /\ UNCHANGED <<vars, held, reported, emitted>>
  BY DEF PullAnswered
<1>2. j \in Jobs /\ job \in Jobs /\ job.claimed \in Nat /\ selling \in Nat
  BY DEF RIInv, RouterTypeOK, Jobs
<1>3. \A tx \in flying : tx.old
  BY <1>1, NothingPolled
<1> HIDE DEF j
<1>4. /\ pc' \in {"session", "fallback", "rest"} /\ job' \in Jobs /\ answer' = Unanswered
      /\ flying' \subseteq Txs /\ faults' \in 0..MaxFaults /\ Polled'
      /\ selling' \in Nat
  <2>1. CASE Goto("session", job) /\ selling' = job.claimed /\ UNCHANGED <<flying, faults>>
    BY <1>2, <1>3, <2>1, StillOld DEF Goto, RIInv, RouterTypeOK
  <2>2. CASE Leftover(j) /\ UNCHANGED selling
    BY <1>2, <1>3, <2>2, LeftoverEffect
  <2>3. QED
    BY <1>1, <2>1, <2>2
<1>5. reported' \in Nat /\ reported' <= reported + Due
  BY <1>1 DEF RIInv, RouterTypeOK, Due, Jobs
<1>6. QED
  BY <1>1, <1>4, <1>5, StepRIInv

LEMMA TradeEndsRIInv == RIInv /\ TradeEnds => RIInv'
<1> SUFFICES ASSUME RIInv, TradeEnds
             PROVE  RIInv'
  OBVIOUS
<1>1. /\ pc = "session" /\ Goto("blnd", job)
      /\ selling' \in {0, selling}
      /\ Unlucky("late") \/ UNCHANGED faults
      /\ UNCHANGED <<vars, held, flying, reported, emitted>>
  BY DEF TradeEnds
<1>2. \A tx \in flying : tx.old
  BY <1>1 DEF RIInv, RouterTypeOK, Txs, Polled
<1>3. /\ pc' = "blnd" /\ job' \in Jobs /\ answer' = Unanswered
      /\ flying' \subseteq Txs /\ faults' \in 0..MaxFaults /\ Polled'
  BY <1>1, <1>2, StillOld, CountedFault DEF Goto, RIInv, RouterTypeOK
<1>4. reported' \in Nat /\ reported' <= reported + Due /\ selling' \in Nat
  BY <1>1 DEF RIInv, RouterTypeOK, Due, Jobs
<1>5. QED
  BY <1>1, <1>3, <1>4, StepRIInv

LEMMA DeltasNat ==
  ASSUME RIInv
  PROVE  Unsold \in Nat /\ Bought \in Nat
BY DEF RIInv, RouterTypeOK, Jobs, Unsold, Bought, Larger

LEMMA ReadBlndRIInv == RIInv /\ ReadBlnd => RIInv'
<1> SUFFICES ASSUME RIInv, ReadBlnd
             PROVE  RIInv'
  OBVIOUS
<1>1. /\ pc = "blnd" /\ Goto("asset", [job EXCEPT !.unsold = Unsold])
      /\ UNCHANGED <<vars, held, flying, selling, reported, emitted, faults>>
  BY DEF ReadBlnd
<1>2. [job EXCEPT !.unsold = Unsold] \in Jobs
  BY DeltasNat DEF RIInv, RouterTypeOK, Jobs
<1>3. \A tx \in flying : tx.old
  BY <1>1 DEF RIInv, RouterTypeOK, Txs, Polled
<1>4. /\ pc' = "asset" /\ job' \in Jobs /\ answer' = Unanswered
      /\ flying' \subseteq Txs /\ faults' \in 0..MaxFaults /\ Polled'
  BY <1>1, <1>2, <1>3, StillOld DEF Goto, RIInv, RouterTypeOK
<1>5. reported' \in Nat /\ reported' <= reported + Due /\ selling' \in Nat
  BY <1>1 DEF RIInv, RouterTypeOK, Due, Jobs
<1>6. QED
  BY <1>1, <1>4, <1>5, StepRIInv

LEMMA ReadAssetRIInv == RIInv /\ ReadAsset => RIInv'
<1> SUFFICES ASSUME RIInv, ReadAsset
             PROVE  RIInv'
  OBVIOUS
<1> DEFINE j == [job EXCEPT !.bought = Bought]
           back == Call("return", j.unsold)
<1>1. /\ pc = "asset"
      /\ Submit(back, "return", j) \/ PushProceeds(j)
      /\ UNCHANGED <<vars, held, selling, reported, emitted>>
  BY DEF ReadAsset, SettleTrade
<1>2. j \in Jobs
  BY DeltasNat DEF RIInv, RouterTypeOK, Jobs
<1>3. back \in Txs /\ ~back.old /\ back.call = "return"
  BY <1>2 DEF Jobs, Txs, Call
<1>4. \A tx \in flying : tx.old
  BY <1>1, NothingPolled
<1> HIDE DEF back, j
<1>5. /\ pc' \in {"return", "push", "fallback", "rest"} /\ job' \in Jobs
      /\ answer' = Unanswered /\ flying' \subseteq Txs /\ faults' \in 0..MaxFaults /\ Polled'
  <2>1. CASE Submit(back, "return", j)
    BY <1>2, <1>3, <1>4, <2>1, SubmitEffect
  <2>2. CASE PushProceeds(j)
    BY <1>2, <1>4, <2>2, PushEffect
  <2>3. QED
    BY <1>1, <2>1, <2>2
<1>6. reported' \in Nat /\ reported' <= reported + Due /\ selling' \in Nat
  BY <1>1 DEF RIInv, RouterTypeOK, Due, Jobs
<1>7. QED
  BY <1>1, <1>5, <1>6, StepRIInv

LEMMA ReturnAnsweredRIInv == RIInv /\ ReturnAnswered => RIInv'
<1> SUFFICES ASSUME RIInv, ReturnAnswered
             PROVE  RIInv'
  OBVIOUS
<1>1. /\ answer # Unanswered /\ PushProceeds(job)
      /\ UNCHANGED <<vars, held, selling, reported, emitted>>
  BY DEF ReturnAnswered
<1>2. job \in Jobs /\ \A tx \in flying : tx.old
  BY <1>1, NothingPolled DEF RIInv, RouterTypeOK
<1>3. /\ pc' \in {"push", "fallback", "rest"} /\ job' \in Jobs
      /\ answer' = Unanswered /\ flying' \subseteq Txs /\ faults' \in 0..MaxFaults /\ Polled'
  BY <1>1, <1>2, PushEffect
<1>4. reported' \in Nat /\ reported' <= reported + Due /\ selling' \in Nat
  BY <1>1 DEF RIInv, RouterTypeOK, Due, Jobs
<1>5. QED
  BY <1>1, <1>3, <1>4, StepRIInv

LEMMA PushAnsweredRIInv == RIInv /\ PushAnswered => RIInv'
<1> SUFFICES ASSUME RIInv, PushAnswered
             PROVE  RIInv'
  OBVIOUS
<1> DEFINE tx == Call("reinvest", job.bought)
<1>1. /\ answer # Unanswered
      /\ Submit(tx, "reinvest", job) \/ Leftover(job)
      /\ UNCHANGED <<vars, held, selling, reported, emitted>>
  BY DEF PushAnswered
<1>2. job \in Jobs /\ \A other \in flying : other.old
  BY <1>1, NothingPolled DEF RIInv, RouterTypeOK
<1>3. tx \in Txs /\ ~tx.old /\ tx.call = "reinvest" /\ tx.n = job.bought
  BY <1>2 DEF Jobs, Txs, Call
<1> HIDE DEF tx
<1>4. /\ pc' \in {"reinvest", "fallback", "rest"} /\ job' \in Jobs
      /\ answer' = Unanswered /\ flying' \subseteq Txs /\ faults' \in 0..MaxFaults /\ Polled'
  <2>1. CASE Submit(tx, "reinvest", job)
    BY <1>2, <1>3, <2>1, SubmitEffect
  <2>2. CASE Leftover(job)
    BY <1>2, <2>2, LeftoverEffect
  <2>3. QED
    BY <1>1, <2>1, <2>2
<1>5. reported' \in Nat /\ reported' <= reported + Due /\ selling' \in Nat
  BY <1>1 DEF RIInv, RouterTypeOK, Due, Jobs
<1>6. QED
  BY <1>1, <1>4, <1>5, StepRIInv

LEMMA ReinvestAnsweredRIInv == RIInv /\ ReinvestAnswered => RIInv'
<1> SUFFICES ASSUME RIInv, ReinvestAnswered
             PROVE  RIInv'
  OBVIOUS
<1>1. /\ pc = "reinvest" /\ answer # Unanswered /\ Leftover(job)
      /\ reported' = reported + Executed(job.bought)
      /\ UNCHANGED <<vars, held, selling, emitted>>
  BY DEF ReinvestAnswered
<1>2. job \in Jobs /\ \A tx \in flying : tx.old
  BY <1>1, NothingPolled DEF RIInv, RouterTypeOK
<1>3. /\ pc' \in {"fallback", "rest"} /\ job' \in Jobs
      /\ answer' = Unanswered /\ flying' \subseteq Txs /\ faults' \in 0..MaxFaults /\ Polled'
  BY <1>1, <1>2, LeftoverEffect
<1>4. Executed(job.bought) = Due /\ Due \in Nat
  BY <1>1, <1>2 DEF Executed, Due, Jobs
<1>5. reported' \in Nat /\ reported' <= reported + Due /\ selling' \in Nat
  BY <1>1, <1>4 DEF RIInv, RouterTypeOK
<1>6. QED
  BY <1>1, <1>3, <1>5, StepRIInv

LEMMA FallbackRIInv == RIInv /\ Fallback => RIInv'
<1> SUFFICES ASSUME RIInv, Fallback
             PROVE  RIInv'
  OBVIOUS
<1>1. /\ pc = "fallback"
      /\ UNCHANGED <<vars, held, flying, selling, reported, emitted>>
  BY DEF Fallback
<1>2. PICK quote \in Quotes(job.unsold) :
        \/ Unlucky("quote") /\ Over
        \/ /\ Goto("trade", [job EXCEPT !.outMin = MinOut(quote), !.route = "soroswap"])
           /\ UNCHANGED faults
  BY DEF Fallback
<1>3. MinOut(quote) \in Nat
  BY QuotesNat, MinOutNat DEF RIInv, RouterTypeOK, Jobs
<1>4. [job EXCEPT !.outMin = MinOut(quote), !.route = "soroswap"] \in Jobs
  BY <1>3 DEF RIInv, RouterTypeOK, Jobs
<1>5. pc' \in {"trade", "rest"} /\ job' \in Jobs /\ answer' = Unanswered
  BY <1>2, <1>4, OverEffect DEF Goto
<1>6. flying' \subseteq Txs /\ faults' \in 0..MaxFaults /\ Polled'
  BY <1>1, <1>2, NothingPolled, StillOld, CountedFault DEF RIInv, RouterTypeOK
<1>7. reported' \in Nat /\ reported' <= reported + Due /\ selling' \in Nat
  BY <1>1 DEF RIInv, RouterTypeOK, Due, Jobs
<1>8. QED
  BY <1>1, <1>5, <1>6, <1>7, StepRIInv

LEMMA SwapAnsweredRIInv == RIInv /\ SwapAnswered => RIInv'
<1> SUFFICES ASSUME RIInv, SwapAnswered
             PROVE  RIInv'
  OBVIOUS
<1>1. /\ pc = "swap" /\ answer # Unanswered /\ Over
      /\ reported' = reported + Executed(answer.result)
      /\ UNCHANGED <<vars, held, flying, selling, emitted, faults>>
  BY DEF SwapAnswered
<1>2. flying' \subseteq Txs /\ faults' \in 0..MaxFaults /\ Polled'
  BY <1>1, NothingPolled, StillOld DEF RIInv, RouterTypeOK
<1>3. Executed(answer.result) = Due /\ Due \in Nat
  BY <1>1 DEF Executed, Due, RIInv, RouterTypeOK
<1>4. reported' \in Nat /\ reported' <= reported + Due /\ selling' \in Nat
  BY <1>1, <1>3 DEF RIInv, RouterTypeOK
<1>5. QED
  BY <1>1, <1>2, <1>4, OverEffect, StepRIInv

-----------------------------------------------------------------------------
(* The Broker, the administration and the ledger *)

\* What goes on around the router while it waits.
LEMMA AroundRIInv ==
  ASSUME RIInv, UNCHANGED <<code, flying, reported, faults, levered>>, VaultAmounts',
         kBlnd' \in Nat, kAsset' \in Nat, selling' \in Nat, emitted' \in Nat
  PROVE  RIInv'
<1>1. RouterTypeOK' /\ Polled' /\ Due' = Due
  BY DEF RIInv, RouterTypeOK, Polled, Due, code
<1>2. QED
  BY <1>1 DEF RIInv

LEMMA BrokerRIInv == RIInv /\ BrokerStep => RIInv'
<1> SUFFICES ASSUME RIInv, BrokerStep
             PROVE  RIInv'
  OBVIOUS
<1>1. ASSUME NEW n \in 1..selling, NEW price \in Prices, BrokerFill(n, price)
      PROVE  RIInv'
  <2>1. n * price \in Nat /\ n \in Nat
    BY RouterConstantsOK DEF RIInv, RouterTypeOK
  <2>2. kBlnd' \in Nat /\ kAsset' \in Nat /\ selling' \in Nat
    BY <1>1, <2>1 DEF BrokerFill, RIInv, RouterTypeOK
  <2>3. UNCHANGED <<code, flying, reported, faults, levered, emitted, vars>>
    BY <1>1 DEF BrokerFill, vars
  <2>4. VaultAmounts' /\ emitted' \in Nat
    BY <2>3 DEF RIInv, RouterTypeOK, VaultAmounts, vars
  <2>5. QED
    BY <2>2, <2>3, <2>4, AroundRIInv
<1>2. CASE SessionCloses
  <2>1. /\ UNCHANGED <<code, flying, reported, faults, levered, emitted, held>>
        /\ selling' = 0 /\ VaultAmounts'
    BY <1>2 DEF SessionCloses, vars, RIInv, VaultAmounts
  <2>2. kBlnd' \in Nat /\ kAsset' \in Nat /\ selling' \in Nat /\ emitted' \in Nat
    BY <2>1 DEF RIInv, RouterTypeOK, held
  <2>3. QED
    BY <2>1, <2>2, AroundRIInv
<1>3. QED
  BY <1>1, <1>2 DEF BrokerStep

LEMMA ElsewhereRIInv == RIInv /\ Elsewhere => RIInv'
<1> SUFFICES ASSUME RIInv, Elsewhere
             PROVE  RIInv'
  OBVIOUS
<1>1. UNCHANGED <<held, code, flying, selling, reported, faults>>
  BY DEF Elsewhere
<1>2. UNCHANGED levered /\ VaultAmounts' /\ emitted' \in Nat
  <2>1. CASE Clock /\ UNCHANGED emitted
    BY <2>1 DEF Clock, Tick, config, RIInv, RouterTypeOK, VaultAmounts
  <2>2. CASE SetSwapAccount(Keeper) /\ UNCHANGED emitted
    BY <2>2 DEF SetSwapAccount, chain, RIInv, RouterTypeOK, VaultAmounts
  <2>3. ASSUME NEW rate \in Rates, SetMinHarvestRate(rate), UNCHANGED emitted
        PROVE  UNCHANGED levered /\ VaultAmounts' /\ emitted' \in Nat
    BY <2>3, ConstantsOK DEF SetMinHarvestRate, chain, RIInv, RouterTypeOK, VaultAmounts
  <2>4. ASSUME NEW n \in 1..MaxEmitted, Emission(n)
        PROVE  UNCHANGED levered /\ VaultAmounts' /\ emitted' \in Nat
    BY <2>4, RouterConstantsOK
    DEF Emission, Emit, config, RIInv, RouterTypeOK, VaultAmounts
  <2>5. QED
    BY <2>1, <2>2, <2>3, <2>4 DEF Elsewhere
<1>3. kBlnd' \in Nat /\ kAsset' \in Nat /\ selling' \in Nat
  BY <1>1 DEF RIInv, RouterTypeOK, held
<1>4. QED
  BY <1>1, <1>2, <1>3, AroundRIInv

-----------------------------------------------------------------------------

LEMMA RouterNextRIInv == RIInv /\ [RouterNext]_allVars => RIInv'
<1> SUFFICES ASSUME RIInv, [RouterNext]_allVars
             PROVE  RIInv'
  OBVIOUS
<1>1. CASE RouterStep
  BY <1>1, StartPassRIInv, TimesOutRIInv, ClaimAnsweredRIInv, DecideRIInv, TradeRIInv,
     PullAnsweredRIInv, TradeEndsRIInv, ReadBlndRIInv, ReadAssetRIInv,
     ReturnAnsweredRIInv, PushAnsweredRIInv, ReinvestAnsweredRIInv, FallbackRIInv,
     SwapAnsweredRIInv DEF RouterStep
<1>2. CASE Crash
  BY <1>2, CrashRIInv
<1>3. CASE NetworkStep
  BY <1>3, NetworkRIInv
<1>4. CASE BrokerStep
  BY <1>4, BrokerRIInv
<1>5. CASE Elsewhere
  BY <1>5, ElsewhereRIInv
<1>6. CASE UNCHANGED allVars
  BY <1>6 DEF allVars, vars, held, code, RIInv, RouterTypeOK, VaultAmounts, Polled, Due
<1>7. QED
  BY <1>1, <1>2, <1>3, <1>4, <1>5, <1>6 DEF RouterNext

\* No balance of the keeper and no amount the router computes is ever negative.
THEOREM RouterTypeCorrect == RouterSpec => []RouterTypeOK
<1>1. RIInv => RouterTypeOK
  BY DEF RIInv
<1>2. QED
  BY RouterInitRIInv, RouterNextRIInv, <1>1, PTL DEF RouterSpec

\* All that the evidence log calls executed has been levered in the strategy,
\* whatever throws, times out, lands late or is sold late.
THEOREM ReportedIsLeveredAlways == RouterSpec => []ReportedIsLevered
<1>1. RIInv => ReportedIsLevered
  BY DEF RIInv, RouterTypeOK, VaultAmounts, Due, Jobs, ReportedIsLevered
<1>2. QED
  BY RouterInitRIInv, RouterNextRIInv, <1>1, PTL DEF RouterSpec

-----------------------------------------------------------------------------
(***************************************************************************)
(* What the account held before.  A fill that comes after brokerTrade has  *)
(* resolved may fall between the two balance reads, and then the router    *)
(* does pay with what was there before: all below is for an account on     *)
(* which the Broker fills nothing late.                                    *)
(***************************************************************************)

\* Each of these transactions takes no more than came in.
Within(txs) ==
  \A tx \in txs :
    /\ tx.call = "return" => OwnBlnd + tx.n <= kBlnd
    /\ tx.call = "push" => OwnAsset + tx.n <= kAsset

\* Whatever may still land takes no more than came in, and the Broker sells
\* no more than came in.
Covered ==
  /\ KeeperKeepsItsOwn
  /\ Within(flying)
  /\ selling > 0 => pc = "session"
  /\ pc = "session" => OwnBlnd + selling <= kBlnd

\* The local variables the settlement is computed from tell the account's own
\* from the strategy's.
Bookkeeping ==
  /\ pc \in {"pull", "session", "blnd", "asset"} =>
       job.blndBefore >= OwnBlnd /\ job.assetBefore >= OwnAsset
  /\ pc = "pull" /\ answer.status = "success" => OwnBlnd + job.claimed <= kBlnd
  /\ pc = "asset" => OwnBlnd + job.unsold <= kBlnd
  /\ pc = "return" => OwnAsset + job.bought <= kAsset

\* A success spends the sequence number, so nothing else is in flight after
\* it: from the pull to the return, balances change by the Broker alone.
Alone ==
  /\ answer.status = "success" => flying = {}
  /\ pc \in {"session", "blnd", "asset"} => flying = {}
  /\ pc = "return" => \A tx \in flying : tx.call = "return"
  /\ \A tx \in flying : ~tx.old /\ tx.call = "pull" => tx.n = job.claimed

Kept == Covered /\ Bookkeeping /\ Alone

OwnInv == RIInv /\ Kept

LEMMA RouterInitKept == RouterInit => Kept
BY RouterConstantsOK
   DEF RouterInit, Kept, Covered, KeeperKeepsItsOwn, Within, Bookkeeping, Alone,
       Unanswered

\* A step that moves no balance and leads to an await before the pull or after
\* the return.
LEMMA QuietStep ==
  ASSUME OwnInv, UNCHANGED held, answer' = Unanswered,
         pc' \notin {"pull", "session", "blnd", "asset", "return"},
         Within(flying'), \A tx \in flying' : tx.old \/ tx.call # "pull",
         selling' = 0
  PROVE  Kept'
<1>1. Covered'
  BY DEF OwnInv, Kept, Covered, KeeperKeepsItsOwn, Within, held
<1>2. Bookkeeping' /\ Alone'
  BY DEF Bookkeeping, Alone, Unanswered
<1>3. QED
  BY <1>1, <1>2 DEF Kept

LEMMA NothingSold ==
  ASSUME OwnInv, pc # "session"
  PROVE  selling = 0
BY DEF OwnInv, Kept, Covered, RIInv, RouterTypeOK

LEMMA SubmitCases ==
  ASSUME NEW tx, NEW at, NEW j, Submit(tx, at, j)
  PROVE  /\ answer' = Unanswered
         /\ \/ pc' = at /\ job' = j /\ flying' = flying \cup {tx}
            \/ pc' = "rest" /\ flying' = flying
BY DEF Submit, Goto, Thrown, Over

\* The router throws, or submits a call that takes nothing from the account
\* beyond what came in.
LEMMA QuietSubmit ==
  ASSUME OwnInv, NEW tx, NEW at, NEW j, Submit(tx, at, j),
         at \notin {"pull", "session", "blnd", "asset", "return"},
         tx.call # "pull", Within({tx}), pc # "session",
         \A other \in flying : other.old,
         UNCHANGED held, UNCHANGED selling
  PROVE  Kept'
<1>1. Within(flying)
  BY DEF OwnInv, Kept, Covered
<1>2. selling' = 0
  BY NothingSold
<1>3. Within(flying \cup {tx})
  BY <1>1 DEF Within
<1>4. QED
  BY <1>1, <1>2, <1>3, SubmitCases, QuietStep

\* The router goes on, or gives up, without a submission.
LEMMA QuietGoto ==
  ASSUME OwnInv, answer' = Unanswered, UNCHANGED <<held, flying, selling>>,
         pc' \notin {"pull", "session", "blnd", "asset", "return"},
         pc # "session", \A other \in flying : other.old
  PROVE  Kept'
<1>1. Within(flying)
  BY DEF OwnInv, Kept, Covered
<1>2. selling' = 0
  BY NothingSold
<1>3. QED
  BY <1>1, <1>2, QuietStep

LEMMA LeftoverKept ==
  ASSUME OwnInv, NEW j, Leftover(j), UNCHANGED <<held, selling>>,
         pc # "session", \A other \in flying : other.old
  PROVE  Kept'
<1>1. /\ answer' = Unanswered /\ UNCHANGED <<held, flying, selling>>
      /\ pc' \in {"fallback", "rest"}
  BY DEF Leftover, Goto, Over
<1>2. QED
  BY <1>1, QuietGoto

LEMMA PushKept ==
  ASSUME OwnInv, NEW j, PushProceeds(j), OwnAsset + j.bought <= kAsset,
         UNCHANGED <<held, selling>>,
         pc # "session", \A other \in flying : other.old
  PROVE  Kept'
<1>1. CASE j.bought = 0
  BY <1>1, LeftoverKept DEF PushProceeds
<1>2. CASE j.bought # 0
  <2>1. Submit(Call("push", j.bought), "push", j)
    BY <1>2 DEF PushProceeds
  <2>2. Within({Call("push", j.bought)}) /\ Call("push", j.bought).call # "pull"
    BY DEF Within, Call
  <2>3. QED
    BY <2>1, <2>2, QuietSubmit
<1>3. QED
  BY <1>1, <1>2

LEMMA StartPassKept == OwnInv /\ StartPass => Kept'
<1> SUFFICES ASSUME OwnInv, StartPass
             PROVE  Kept'
  OBVIOUS
<1>1. pc = "rest" /\ UNCHANGED held /\ UNCHANGED selling
  BY DEF StartPass
<1>2. PICK j : Submit(Claim, "claim", j)
  BY DEF StartPass
<1>3. Claim.call = "claim" /\ Within({Claim})
  BY DEF Claim, Call, Within
<1>4. \A tx \in flying : tx.old
  BY <1>1, NothingPolled DEF OwnInv
<1>5. QED
  BY <1>1, <1>2, <1>3, <1>4, QuietSubmit

LEMMA ForgottenKept ==
  ASSUME OwnInv
  PROVE  /\ Within(Forgotten) /\ \A tx \in Forgotten : tx.old
         /\ flying = {} => Forgotten = {}
         /\ (\A tx \in flying : tx.call = "return")
              => \A tx \in Forgotten : tx.call = "return"
BY DEF OwnInv, RIInv, RouterTypeOK, Kept, Covered, Within, Forgotten, Txs

LEMMA TimesOutKept == OwnInv /\ TimesOut => Kept'
<1> SUFFICES ASSUME OwnInv, TimesOut
             PROVE  Kept'
  OBVIOUS
<1>1. /\ pc \in {"claim", "pull", "return", "push", "reinvest", "swap"}
      /\ answer' = [status |-> "timeout", result |-> 0]
      /\ flying' = Forgotten
      /\ UNCHANGED <<held, pc, job, selling>>
  BY DEF TimesOut
<1>2. Covered'
  BY <1>1, ForgottenKept DEF OwnInv, Kept, Covered, KeeperKeepsItsOwn, Within, held
<1>3. Bookkeeping'
  BY <1>1 DEF OwnInv, Kept, Bookkeeping, held
<1>4. Alone'
  BY <1>1, ForgottenKept DEF OwnInv, Kept, Alone
<1>5. QED
  BY <1>2, <1>3, <1>4 DEF Kept

LEMMA CrashKept ==
  ASSUME "late" \notin Faults, OwnInv, Crash
  PROVE  Kept'
<1>1. /\ pc' = "rest" /\ answer' = Unanswered /\ flying' = Forgotten
      /\ selling' = 0 /\ UNCHANGED held
  BY DEF Crash, Thrown, Over
<1>2. QED
  BY <1>1, ForgottenKept, QuietStep

LEMMA ClaimAnsweredKept == OwnInv /\ ClaimAnswered => Kept'
<1> SUFFICES ASSUME OwnInv, ClaimAnswered
             PROVE  Kept'
  OBVIOUS
<1>1. /\ pc = "claim" /\ answer # Unanswered
      /\ pc' \in {"quote", "rest"} /\ answer' = Unanswered
      /\ UNCHANGED <<held, flying, selling>>
  BY DEF ClaimAnswered, Goto, Over
<1>2. QED
  BY <1>1, NothingPolled, QuietGoto DEF OwnInv

LEMMA DecideKept == OwnInv /\ Decide => Kept'
<1> SUFFICES ASSUME OwnInv, Decide
             PROVE  Kept'
  OBVIOUS
<1>1. /\ pc = "quote" /\ UNCHANGED <<held, flying, selling>>
      /\ pc' \in {"trade", "rest"} /\ answer' = Unanswered
  BY DEF Decide, Goto, Over
<1>2. QED
  BY <1>1, NothingPolled, QuietGoto DEF OwnInv

LEMMA FallbackKept == OwnInv /\ Fallback => Kept'
<1> SUFFICES ASSUME OwnInv, Fallback
             PROVE  Kept'
  OBVIOUS
<1>1. /\ pc = "fallback" /\ UNCHANGED <<held, flying, selling>>
      /\ pc' \in {"trade", "rest"} /\ answer' = Unanswered
  BY DEF Fallback, Goto, Over
<1>2. QED
  BY <1>1, NothingPolled, QuietGoto DEF OwnInv

LEMMA TradeKept == OwnInv /\ Trade => Kept'
<1> SUFFICES ASSUME OwnInv, Trade
             PROVE  Kept'
  OBVIOUS
<1> DEFINE pull == Call("pull", job.claimed)
           swap == Call("swap", job.outMin)
           j == [job EXCEPT !.blndBefore = kBlnd, !.assetBefore = kAsset]
<1>1. /\ pc = "trade"
      /\ Submit(pull, "pull", j) \/ Submit(swap, "swap", job)
      /\ UNCHANGED <<held, selling>>
  BY DEF Trade
<1>2. /\ pull.call = "pull" /\ pull.n = job.claimed
      /\ swap.call = "swap" /\ Within({swap}) /\ Within({pull})
      /\ j.blndBefore = kBlnd /\ j.assetBefore = kAsset /\ j.claimed = job.claimed
  BY DEF Call, Within, OwnInv, RIInv, RouterTypeOK, Jobs
<1>3. \A tx \in flying : tx.old
  BY <1>1, NothingPolled DEF OwnInv
<1>4. Covered
  BY DEF OwnInv, Kept
<1>5. selling = 0
  BY <1>1, NothingSold
<1> HIDE DEF pull, swap, j
<1>6. CASE Submit(swap, "swap", job)
  BY <1>1, <1>2, <1>3, <1>6, QuietSubmit
<1>7. CASE Submit(pull, "pull", j)
  <2>1. CASE pc' = "rest" /\ flying' = flying
    BY <1>1, <1>3, <1>7, <2>1, SubmitCases, QuietGoto
  <2>2. CASE pc' = "pull" /\ job' = j /\ flying' = flying \cup {pull}
    <3>1. answer' = Unanswered
      BY <1>7, SubmitCases
    <3>2. Covered'
      BY <1>1, <1>2, <1>4, <1>5, <2>2 DEF Covered, KeeperKeepsItsOwn, Within, held
    <3>3. Bookkeeping'
      BY <1>1, <1>2, <1>4, <2>2, <3>1
      DEF Bookkeeping, Unanswered, Covered, KeeperKeepsItsOwn, held
    <3>4. Alone'
      BY <1>2, <1>3, <2>2, <3>1 DEF Alone, Unanswered
    <3>5. QED
      BY <3>2, <3>3, <3>4 DEF Kept
  <2>3. QED
    BY <1>7, <2>1, <2>2, SubmitCases
<1>8. QED
  BY <1>1, <1>6, <1>7

LEMMA PullAnsweredKept == OwnInv /\ PullAnswered => Kept'
<1> SUFFICES ASSUME OwnInv, PullAnswered
             PROVE  Kept'
  OBVIOUS
<1>1. /\ pc = "pull" /\ answer # Unanswered /\ UNCHANGED held
  BY DEF PullAnswered
<1>2. CASE /\ answer.status = "success" /\ Goto("session", job)
           /\ selling' = job.claimed /\ UNCHANGED flying
  <2>1. /\ flying' = {} /\ pc' = "session" /\ answer' = Unanswered /\ job' = job
        /\ OwnBlnd + selling' <= kBlnd'
        /\ job'.blndBefore >= OwnBlnd /\ job'.assetBefore >= OwnAsset
    BY <1>1, <1>2 DEF Goto, OwnInv, Kept, Alone, Bookkeeping, held
  <2>2. Covered'
    BY <1>1, <2>1 DEF OwnInv, Kept, Covered, KeeperKeepsItsOwn, Within, held
  <2>3. Bookkeeping' /\ Alone'
    BY <2>1 DEF Bookkeeping, Alone, Unanswered
  <2>4. QED
    BY <2>2, <2>3 DEF Kept
<1>3. CASE Leftover([job EXCEPT !.unsold = job.claimed]) /\ UNCHANGED selling
  <2>1. \A tx \in flying : tx.old
    BY <1>1, NothingPolled DEF OwnInv
  <2>2. QED
    BY <1>1, <1>3, <2>1, LeftoverKept
<1>4. QED
  BY <1>2, <1>3 DEF PullAnswered

LEMMA TradeEndsKept ==
  ASSUME "late" \notin Faults, OwnInv, TradeEnds
  PROVE  Kept'
<1>1. /\ pc = "session" /\ pc' = "blnd" /\ job' = job /\ answer' = Unanswered
      /\ selling' = 0 /\ UNCHANGED <<held, flying>>
  BY DEF TradeEnds, Goto, Unlucky
<1>2. Covered'
  BY <1>1 DEF OwnInv, Kept, Covered, KeeperKeepsItsOwn, Within, held
<1>3. Bookkeeping'
  BY <1>1 DEF OwnInv, Kept, Bookkeeping, Unanswered
<1>4. Alone'
  BY <1>1 DEF OwnInv, Kept, Alone, Unanswered
<1>5. QED
  BY <1>2, <1>3, <1>4 DEF Kept

\* A balance delta counts what came in only.
LEMMA DeltasAreOurs ==
  ASSUME OwnInv, pc \in {"blnd", "asset"}
  PROVE  OwnBlnd + Unsold <= kBlnd /\ OwnAsset + Bought <= kAsset
<1>1. /\ kBlnd \in Nat /\ kAsset \in Nat /\ kBlnd >= OwnBlnd /\ kAsset >= OwnAsset
      /\ job.blndBefore \in Nat /\ job.assetBefore \in Nat /\ job.claimed \in Nat
      /\ job.blndBefore >= OwnBlnd /\ job.assetBefore >= OwnAsset
  BY DEF OwnInv, RIInv, RouterTypeOK, Jobs, Kept, Covered, KeeperKeepsItsOwn, Bookkeeping
<1>2. QED
  BY <1>1, RouterConstantsOK DEF Unsold, Bought, Larger

LEMMA ReadBlndKept == OwnInv /\ ReadBlnd => Kept'
<1> SUFFICES ASSUME OwnInv, ReadBlnd
             PROVE  Kept'
  OBVIOUS
<1> DEFINE j == [job EXCEPT !.unsold = Unsold]
<1>1. /\ pc = "blnd" /\ pc' = "asset" /\ job' = j /\ answer' = Unanswered
      /\ UNCHANGED <<held, flying, selling>>
  BY DEF ReadBlnd, Goto
<1>2. /\ j.unsold = Unsold /\ j.blndBefore = job.blndBefore
      /\ j.assetBefore = job.assetBefore
  BY DEF OwnInv, RIInv, RouterTypeOK, Jobs
<1>3. OwnBlnd + Unsold <= kBlnd /\ selling = 0
  BY <1>1, DeltasAreOurs, NothingSold
<1> HIDE DEF j
<1>4. Covered'
  BY <1>1, <1>3 DEF OwnInv, Kept, Covered, KeeperKeepsItsOwn, Within, held
<1>5. Bookkeeping'
  BY <1>1, <1>2, <1>3 DEF OwnInv, Kept, Bookkeeping, Unanswered, held
<1>6. Alone'
  BY <1>1 DEF OwnInv, Kept, Alone, Unanswered
<1>7. QED
  BY <1>4, <1>5, <1>6 DEF Kept

LEMMA ReadAssetKept == OwnInv /\ ReadAsset => Kept'
<1> SUFFICES ASSUME OwnInv, ReadAsset
             PROVE  Kept'
  OBVIOUS
<1> DEFINE j == [job EXCEPT !.bought = Bought]
           back == Call("return", j.unsold)
<1>1. /\ pc = "asset"
      /\ Submit(back, "return", j) \/ PushProceeds(j)
      /\ UNCHANGED <<held, selling>>
  BY DEF ReadAsset, SettleTrade
<1>2. flying = {} /\ selling = 0 /\ Covered
  BY <1>1, NothingSold DEF OwnInv, Kept, Alone
<1>3. OwnAsset + j.bought <= kAsset /\ OwnBlnd + j.unsold <= kBlnd
  BY <1>1, DeltasAreOurs DEF OwnInv, RIInv, RouterTypeOK, Jobs, Kept, Bookkeeping
<1>4. back.call = "return" /\ back.n = j.unsold
  BY DEF Call
<1> HIDE DEF back, j
<1>5. CASE PushProceeds(j)
  BY <1>1, <1>2, <1>3, <1>5, PushKept
<1>6. CASE Submit(back, "return", j)
  <2>1. CASE pc' = "rest" /\ flying' = flying
    BY <1>1, <1>2, <1>6, <2>1, SubmitCases, QuietGoto
  <2>2. CASE pc' = "return" /\ job' = j /\ flying' = flying \cup {back}
    <3>1. answer' = Unanswered
      BY <1>6, SubmitCases
    <3>2. Covered'
      BY <1>1, <1>2, <1>3, <1>4, <2>2 DEF Covered, KeeperKeepsItsOwn, Within, held
    <3>3. Bookkeeping'
      BY <1>1, <1>3, <2>2, <3>1 DEF Bookkeeping, Unanswered, held
    <3>4. Alone'
      BY <1>2, <1>4, <2>2, <3>1 DEF Alone, Unanswered
    <3>5. QED
      BY <3>2, <3>3, <3>4 DEF Kept
  <2>3. QED
    BY <1>6, <2>1, <2>2, SubmitCases
<1>7. QED
  BY <1>1, <1>5, <1>6

LEMMA ReturnAnsweredKept == OwnInv /\ ReturnAnswered => Kept'
<1> SUFFICES ASSUME OwnInv, ReturnAnswered
             PROVE  Kept'
  OBVIOUS
<1>1. pc = "return" /\ answer # Unanswered /\ PushProceeds(job) /\ UNCHANGED <<held, selling>>
  BY DEF ReturnAnswered
<1>2. OwnAsset + job.bought <= kAsset
  BY <1>1 DEF OwnInv, Kept, Bookkeeping
<1>3. QED
  BY <1>1, <1>2, NothingPolled, PushKept DEF OwnInv

LEMMA PushAnsweredKept == OwnInv /\ PushAnswered => Kept'
<1> SUFFICES ASSUME OwnInv, PushAnswered
             PROVE  Kept'
  OBVIOUS
<1> DEFINE tx == Call("reinvest", job.bought)
<1>1. /\ pc = "push" /\ answer # Unanswered /\ UNCHANGED <<held, selling>>
      /\ Submit(tx, "reinvest", job) \/ Leftover(job)
  BY DEF PushAnswered
<1>2. tx.call = "reinvest" /\ Within({tx})
  BY DEF Call, Within
<1>3. \A other \in flying : other.old
  BY <1>1, NothingPolled DEF OwnInv
<1> HIDE DEF tx
<1>4. QED
  BY <1>1, <1>2, <1>3, QuietSubmit, LeftoverKept

LEMMA ReinvestAnsweredKept == OwnInv /\ ReinvestAnswered => Kept'
<1> SUFFICES ASSUME OwnInv, ReinvestAnswered
             PROVE  Kept'
  OBVIOUS
<1>1. /\ pc = "reinvest" /\ answer # Unanswered /\ Leftover(job)
      /\ UNCHANGED <<held, selling>>
  BY DEF ReinvestAnswered
<1>2. QED
  BY <1>1, NothingPolled, LeftoverKept DEF OwnInv

LEMMA SwapAnsweredKept == OwnInv /\ SwapAnswered => Kept'
<1> SUFFICES ASSUME OwnInv, SwapAnswered
             PROVE  Kept'
  OBVIOUS
<1>1. /\ pc = "swap" /\ answer # Unanswered /\ pc' = "rest" /\ answer' = Unanswered
      /\ UNCHANGED <<held, flying, selling>>
  BY DEF SwapAnswered, Over
<1>2. QED
  BY <1>1, NothingPolled, QuietGoto DEF OwnInv

\* One call lands and voids all others.  None takes more than came in, and a
\* call the books depend on is the only one that can have moved a balance.
LEMMA LandKept ==
  ASSUME OwnInv, NEW tx \in flying, NEW price \in Prices, Land(tx, price)
  PROVE  Kept'
<1>1. /\ flying' = {} /\ UNCHANGED <<pc, job, selling>>
      /\ tx \in Txs /\ tx.n \in Nat
      /\ kBlnd \in Nat /\ kAsset \in Nat /\ OwnBlnd \in Nat /\ OwnAsset \in Nat
      /\ pc \notin {"session", "blnd", "asset"}
  BY RouterConstantsOK
  DEF Land, OwnInv, RIInv, RouterTypeOK, Txs, Kept, Alone
<1>2. selling = 0
  BY <1>1, NothingSold
<1>3. \/ UNCHANGED held
      \/ tx.call = "pull" /\ kBlnd' = kBlnd + tx.n /\ UNCHANGED kAsset
      \/ tx.call = "return" /\ kBlnd' = kBlnd - tx.n /\ UNCHANGED kAsset
      \/ tx.call = "push" /\ kAsset' = kAsset - tx.n /\ UNCHANGED kBlnd
  BY DEF Land, Applied, held
<1>4. kBlnd' >= OwnBlnd /\ kAsset' >= OwnAsset
  BY <1>1, <1>3 DEF OwnInv, Kept, Covered, KeeperKeepsItsOwn, Within, held
<1>5. Covered'
  BY <1>1, <1>2, <1>4 DEF Covered, KeeperKeepsItsOwn, Within
<1>6. pc = "return" => kAsset' = kAsset
  BY <1>3 DEF OwnInv, Kept, Alone, held
<1>7. pc = "pull" /\ answer'.status = "success" => OwnBlnd + job.claimed <= kBlnd'
  <2> SUFFICES ASSUME pc = "pull", answer'.status = "success"
               PROVE  OwnBlnd + job.claimed <= kBlnd'
    OBVIOUS
  <2>1. ~tx.old
    <3>1. SUFFICES ASSUME tx.old
                   PROVE  FALSE
      OBVIOUS
    <3>2. answer.status = "success"
      BY <3>1 DEF Land
    <3>3. QED
      BY <3>2 DEF OwnInv, Kept, Alone
  <2>2. tx.call = "pull" /\ tx.n = job.claimed
    BY <2>1 DEF OwnInv, RIInv, Polled, Kept, Alone
  <2>3. kBlnd' = kBlnd + tx.n
    BY <2>1, <2>2 DEF Land, Applied
  <2>4. QED
    BY <1>1, <2>2, <2>3 DEF OwnInv, Kept, Covered, KeeperKeepsItsOwn
<1>8. Bookkeeping'
  BY <1>1, <1>6, <1>7 DEF OwnInv, Kept, Bookkeeping
<1>9. Alone'
  BY <1>1 DEF Alone
<1>10. QED
  BY <1>5, <1>8, <1>9 DEF Kept

LEMMA LapseKept ==
  ASSUME OwnInv, NEW tx \in flying, Lapse(tx)
  PROVE  Kept'
<1>1. flying' \subseteq flying /\ UNCHANGED <<held, code, selling>>
  BY DEF Lapse
<1>2. Covered'
  BY <1>1 DEF OwnInv, Kept, Covered, KeeperKeepsItsOwn, Within, held, code
<1>3. Bookkeeping' /\ Alone'
  BY <1>1 DEF OwnInv, Kept, Bookkeeping, Alone, held, code
<1>4. QED
  BY <1>2, <1>3 DEF Kept

\* A fill sells BLND that was pulled, while nothing else is in flight.
LEMMA FillKept ==
  ASSUME OwnInv, NEW n \in 1..selling, NEW price \in Prices, BrokerFill(n, price)
  PROVE  Kept'
<1>1. /\ n \in Nat /\ n >= 1 /\ n <= selling /\ selling \in Nat
      /\ n * price \in Nat /\ kBlnd \in Nat /\ kAsset \in Nat
      /\ OwnBlnd \in Nat /\ OwnAsset \in Nat
  BY RouterConstantsOK DEF OwnInv, RIInv, RouterTypeOK
<1>2. pc = "session" /\ flying = {} /\ OwnBlnd + selling <= kBlnd /\ kAsset >= OwnAsset
      /\ job.blndBefore >= OwnBlnd /\ job.assetBefore >= OwnAsset
  BY <1>1 DEF OwnInv, Kept, Covered, KeeperKeepsItsOwn, Bookkeeping, Alone
<1>3. /\ selling' = selling - n /\ kBlnd' = kBlnd - n /\ kAsset' = kAsset + n * price
      /\ UNCHANGED <<code, flying>>
  BY DEF BrokerFill
<1>4. OwnBlnd + selling' <= kBlnd' /\ kBlnd' >= OwnBlnd /\ kAsset' >= OwnAsset
  <2>1. \A a, b, m \in Nat : a >= b => a + m >= b
    OBVIOUS
  <2>2. kAsset' >= OwnAsset
    BY <1>1, <1>2, <1>3, <2>1
  <2>3. QED
    BY <1>1, <1>2, <1>3, <2>2
<1>5. Covered'
  BY <1>2, <1>3, <1>4 DEF Covered, KeeperKeepsItsOwn, Within, code
<1>6. Bookkeeping' /\ Alone'
  BY <1>2, <1>3 DEF Bookkeeping, Alone, code
<1>7. QED
  BY <1>5, <1>6 DEF Kept

LEMMA AroundKept ==
  ASSUME OwnInv, UNCHANGED <<held, code, flying>>, selling' \in {selling, 0}
  PROVE  Kept'
<1>1. Covered'
  <2>1. UNCHANGED <<kBlnd, kAsset, pc, flying>>
    BY DEF held, code
  <2>2. OwnBlnd + 0 <= kBlnd
    BY RouterConstantsOK
    DEF OwnInv, RIInv, RouterTypeOK, Kept, Covered, KeeperKeepsItsOwn
  <2>3. CASE selling' = selling
    BY <2>1, <2>3 DEF OwnInv, Kept, Covered, KeeperKeepsItsOwn, Within
  <2>4. CASE selling' = 0
    BY <2>1, <2>2, <2>4 DEF OwnInv, Kept, Covered, KeeperKeepsItsOwn, Within
  <2>5. QED
    BY <2>3, <2>4
<1>2. Bookkeeping' /\ Alone'
  BY DEF OwnInv, Kept, Bookkeeping, Alone, held, code
<1>3. QED
  BY <1>1, <1>2 DEF Kept

LEMMA RouterNextOwnInv ==
  ASSUME "late" \notin Faults, OwnInv, [RouterNext]_allVars
  PROVE  OwnInv'
<1>1. RIInv'
  BY RouterNextRIInv DEF OwnInv
<1>2. CASE RouterStep
  BY <1>2, <1>1, StartPassKept, TimesOutKept, ClaimAnsweredKept, DecideKept, TradeKept,
     PullAnsweredKept, TradeEndsKept, ReadBlndKept, ReadAssetKept, ReturnAnsweredKept,
     PushAnsweredKept, ReinvestAnsweredKept, FallbackKept, SwapAnsweredKept
  DEF RouterStep, OwnInv
<1>3. CASE Crash
  BY <1>1, <1>3, CrashKept DEF OwnInv
<1>4. CASE NetworkStep
  BY <1>1, <1>4, LandKept, LapseKept DEF NetworkStep, OwnInv
<1>5. CASE BrokerStep
  BY <1>1, <1>5, FillKept, AroundKept DEF BrokerStep, SessionCloses, OwnInv
<1>6. CASE Elsewhere \/ UNCHANGED allVars
  <2>1. UNCHANGED <<held, code, flying>> /\ selling' = selling
    BY <1>6 DEF Elsewhere, allVars, held, code
  <2>2. QED
    BY <1>1, <2>1, AroundKept DEF OwnInv
<1>7. QED
  BY <1>2, <1>3, <1>4, <1>5, <1>6 DEF RouterNext

\* The router never settles with what its account held before: however calls
\* time out, land late or fail, what it returns, pushes and sells had come in.
THEOREM KeeperKeepsItsOwnAlways ==
  ASSUME "late" \notin Faults
  PROVE  RouterSpec => []KeeperKeepsItsOwn
<1>1. RouterInit => OwnInv
  BY RouterInitRIInv, RouterInitKept DEF OwnInv
<1>2. OwnInv /\ [RouterNext]_allVars => OwnInv'
  BY RouterNextOwnInv
<1>3. OwnInv => KeeperKeepsItsOwn
  BY DEF OwnInv, Kept, Covered
<1>4. QED
  BY <1>1, <1>2, <1>3, PTL DEF RouterSpec

-----------------------------------------------------------------------------
(***************************************************************************)
(* The router loses nothing but by a fault.  As long as nothing goes       *)
(* wrong, at most the awaited call is in flight, and each await knows      *)
(* where the claimed BLND and its proceeds are: in the strategy, on the    *)
(* router, or sold for at least the part of the floor they owe.  Then      *)
(* every call that moves them succeeds, and the claim settles.  Two        *)
(* hypotheses on the market and the bounds: no price is below a rate the   *)
(* admin may set (a sale below its floor is not settled, by design), and   *)
(* the model's bounds leave room for what is emitted and sold.             *)
(***************************************************************************)

\* The bounds leave room for all the BLND that is emitted and for what it is
\* sold for.
Roomy(max) ==
  /\ \A p \in Prices : p <= max
  /\ MaxEmitted <= MaxBlnd
  /\ MaxEmitted * max <= MaxUnderlying

\* No price falls below a rate the admin may set.
FloorsAreFair == \A p \in Prices, r \in Rates : r <= p * Scalar

\* BLND sold so far, and what it was sold for.
Sold == emitted + OwnBlnd - (accrued + blnd + kBlnd)
Made == idle + levered + kAsset - OwnAsset

Balanced(max) == emitted <= MaxEmitted /\ Sold >= 0 /\ Made <= max * Sold

\* The strategy, as the router's admin and keeper leave it.
Orderly ==
  /\ now \in Nat
  /\ swapAccount \in {Keeper, NoAccount}
  /\ minRate \in Rates \cup {0}
  /\ pending \in PendingRecords
  /\ allowance \in [Accounts -> [amount : Nat, expiration : Nat]]
  /\ event.kind # "unsettled"

\* Awaits of a call.
Awaits == {"claim", "pull", "return", "push", "reinvest", "swap"}

\* The call the router waits for.
Awaited ==
  Call(pc, CASE pc = "claim" -> 0 [] pc = "pull" -> job.claimed [] pc = "return" -> job.unsold
             [] pc = "swap" -> job.outMin [] OTHER -> job.bought)

\* It is in flight until it is answered, and nothing else is.
InFlight ==
  /\ flying = IF pc \in Awaits /\ answer = Unanswered
              THEN {Awaited} ELSE {}
  /\ answer # Unanswered => pc \in Awaits
                            /\ answer.status \in {"success", "failed"}
  /\ pc # "session" => selling = 0

Home == kBlnd = OwnBlnd /\ kAsset = OwnAsset

\* The open claim is for n BLND, and no price is below its floor.
Open(n) ==
  /\ n > 0 /\ pending.blnd_claimed = n
  /\ pending.floor > 0 /\ \A p \in Prices : pending.floor <= p * n

\* All of it can be pulled until the claim expires.
Granted(n) ==
  /\ Open(n)
  /\ blnd = n /\ idle = pending.underlying_before
  /\ now <= pending.expiration
  /\ allowance[Keeper] = [amount |-> n, expiration |-> pending.expiration]

\* All of it but `left` was sold, for `got`, which covers the floor's part.
Dealt(left, got) ==
  /\ Open(job.claimed)
  /\ left \in 0..job.claimed /\ got \in Nat
  /\ got * job.claimed >= pending.floor * (job.claimed - left)

\* The strategy has none of the claimed BLND nor its proceeds.
Away == blnd = 0 /\ idle = pending.underlying_before

\* Where the claimed BLND and its proceeds are, at each await.
Stage ==
  /\ pc \in {"rest", "claim", "quote", "trade", "fallback", "swap"} => Home /\ pending.blnd_claimed <= blnd
  /\ pc = "claim" /\ job.rate > 0 =>
       IF answer = Unanswered THEN swapAccount = Keeper /\ minRate > 0
       ELSE answer.status = "success" /\ answer.result > 0 => Granted(answer.result)
  /\ pc = "quote" /\ job.rate > 0 => Granted(job.claimed)
  /\ pc = "trade" /\ job.route = "broker" => Granted(job.claimed)
  /\ pc \in {"pull", "session", "blnd", "asset"} => job.blndBefore = OwnBlnd /\ job.assetBefore = OwnAsset
  /\ pc = "pull" /\ answer = Unanswered => Home /\ Granted(job.claimed)
  /\ pc = "pull" /\ answer # Unanswered => answer.status = "success" /\ kBlnd = OwnBlnd + job.claimed
  /\ (pc = "pull" /\ answer # Unanswered) \/ pc \in {"session", "blnd", "asset"} =>
       Away /\ Dealt(kBlnd - OwnBlnd, kAsset - OwnAsset)
  /\ pc = "session" => selling <= kBlnd - OwnBlnd
  /\ pc = "asset" => job.unsold = kBlnd - OwnBlnd
  /\ pc \in {"return", "push", "reinvest"} /\ answer # Unanswered => answer.status = "success"
  /\ pc \in {"return", "push"} \/ (pc = "reinvest" /\ answer = Unanswered) => Dealt(job.unsold, job.bought)
  /\ pc = "return" =>
       /\ kAsset = OwnAsset + job.bought /\ idle = pending.underlying_before /\ job.unsold > 0
       /\ IF answer = Unanswered THEN kBlnd = OwnBlnd + job.unsold /\ blnd = 0
          ELSE kBlnd = OwnBlnd /\ blnd = job.unsold
  /\ pc = "push" =>
       /\ kBlnd = OwnBlnd /\ blnd = job.unsold /\ job.bought > 0
       /\ IF answer = Unanswered
          THEN kAsset = OwnAsset + job.bought /\ idle = pending.underlying_before
          ELSE kAsset = OwnAsset /\ idle = pending.underlying_before + job.bought
  /\ pc = "reinvest" =>
       /\ Home /\ job.bought > 0
       /\ IF answer = Unanswered THEN blnd = job.unsold /\ idle = pending.underlying_before + job.bought
          ELSE pending = NoPending

Smooth(max) == Orderly /\ Balanced(max) /\ InFlight /\ Stage

LossInv(max) == RIInv /\ (faults = 0 => Smooth(max))

-----------------------------------------------------------------------------
(* Floors and faults *)

\* Rounding up to what a multiple covers.
LEMMA CeilDivWithin ==
  ASSUME NEW a \in Nat, NEW b \in Nat \ {0}, NEW k \in Int, a <= k * b
  PROVE  CeilDiv(a, b) <= k /\ (a > 0 => CeilDiv(a, b) > 0)
<1> DEFINE n == a + b - 1
           q == n \div b
<1>1. n \in Nat /\ q \in Nat /\ n = b * q + (n % b) /\ n % b \in 0..(b - 1)
  BY Z3
<1>2. CeilDiv(a, b) = q
  BY DEF CeilDiv
<1>3. q <= k
  <2>1. b * q <= n
    BY <1>1
  <2>2. k * b \in Int /\ b * q \in Int
    BY <1>1, Z3
  <2>3. \A x, y \in Int, z \in Nat \ {0} : z * x < y * z + z => x <= y
    BY Z3
  <2>4. b * q < k * b + b
    BY <2>1, <2>2
  <2> HIDE DEF q, n
  <2> QED BY <1>1, <2>3, <2>4
<1>4. a > 0 => q > 0
  <2> SUFFICES ASSUME a > 0, q = 0 PROVE FALSE
    BY <1>1
  <2>1. n < b
    BY <1>1
  <2> QED BY <2>1
<1> QED BY <1>2, <1>3, <1>4

\* A floor is positive, and no price is below it.
LEMMA FloorIsFair ==
  ASSUME FloorsAreFair, NEW n \in Nat \ {0}, NEW r \in Rates
  PROVE  /\ HarvestFloor(n, r) \in Nat \ {0}
         /\ \A p \in Prices : HarvestFloor(n, r) <= p * n
<1>1. Scalar \in Nat \ {0} /\ r \in Nat \ {0} /\ \A p \in Prices : p \in Nat \ {0} /\ r <= p * Scalar
  BY ConstantsOK, RouterConstantsOK DEF FloorsAreFair
<1>2. n * r \in Nat \ {0}
  BY <1>1, Z3
<1>3. HarvestFloor(n, r) = CeilDiv(n * r, Scalar)
  BY <1>1 DEF HarvestFloor
<1>4. CeilDiv(n * r, Scalar) \in Nat
  BY <1>1, <1>2, CeilDivCovers
<1>5. CeilDiv(n * r, Scalar) > 0
  <2>1. \A x \in Nat \ {0}, y \in Nat \ {0} : x <= x * y
    BY Z3
  <2>2. n * r <= (n * r) * Scalar
    BY <1>1, <1>2, <2>1
  <2> QED BY <1>1, <1>2, <2>2, CeilDivWithin
<1>6. ASSUME NEW p \in Prices PROVE CeilDiv(n * r, Scalar) <= p * n
  <2>1. \A x, y, z \in Nat : y <= z => x * y <= x * z
    BY Z3
  <2>2. p \in Nat /\ p * Scalar \in Nat /\ n * r <= n * (p * Scalar)
    <3>1. p \in Nat /\ p * Scalar \in Nat
      BY <1>1, Z3
    <3> QED BY <1>1, <2>1, <3>1
  <2>3. n * (p * Scalar) = (p * n) * Scalar /\ p * n \in Int
    BY <1>1, <2>2, Z3
  <2>4. n * r <= (p * n) * Scalar
    BY <2>2, <2>3
  <2> QED BY <1>1, <1>2, <2>3, <2>4, CeilDivWithin
<1> QED BY <1>3, <1>4, <1>5, <1>6

\* What covers the part of the floor meets the prorated floor.
LEMMA ProrateWithin ==
  ASSUME NEW floor \in Nat, NEW claimed \in Nat \ {0}, NEW spent \in 0..claimed, NEW got \in Nat,
         got * claimed >= floor * spent
  PROVE  ProrateFloor(floor, spent, claimed) <= got
<1>1. CASE floor = 0 \/ spent = 0
  BY <1>1 DEF ProrateFloor
<1>2. CASE floor > 0 /\ spent = claimed
  <2>1. \A x, y \in Nat, z \in Nat \ {0} : x * z >= y * z => y <= x
    BY Z3
  <2>2. floor <= got
    BY <1>2, <2>1
  <2> QED BY <1>2, <2>2 DEF ProrateFloor
<1>3. CASE floor > 0 /\ spent > 0 /\ spent < claimed
  <2>1. ProrateFloor(floor, spent, claimed) = CeilDiv(floor * spent, claimed)
    BY <1>3 DEF ProrateFloor
  <2>2. floor * spent \in Nat
    BY Z3
  <2>3. CeilDiv(floor * spent, claimed) <= got
    BY <2>2, CeilDivWithin
  <2> QED BY <2>1, <2>3
<1> QED BY <1>1, <1>2, <1>3

\* Nothing has gone wrong if nothing had and nothing does.
LEMMA NoFaultYet ==
  ASSUME RouterTypeOK, faults' = 0
  PROVE  /\ UNCHANGED faults => faults = 0
         /\ \A kind : ~Unlucky(kind)
BY RouterConstantsOK DEF RouterTypeOK, Unlucky

\* Selling s for at most p each, or moving without selling, keeps the balance.
LEMMA BalanceKept ==
  ASSUME NEW max \in Nat, Roomy(max), Balanced(max), NEW s \in Nat, NEW p \in {0} \cup Prices,
         Sold \in Int, Made \in Int, Made' \in Int,
         Sold' = Sold + s, Made' <= Made + s * p, emitted' <= MaxEmitted
  PROVE  Balanced(max)'
<1>1. p \in Nat /\ p <= max
  BY RouterConstantsOK DEF Roomy
<1>2. s * p <= max * s /\ s * p \in Int /\ max * s \in Int
  <2>1. \A x, y, z \in Nat : y <= z => x * y <= z * x /\ x * y \in Int /\ z * x \in Int
    BY Z3
  <2> QED BY <1>1, <2>1
<1>3. max * (Sold + s) = max * Sold + max * s /\ max * Sold \in Int
  BY Z3
<1>4. Sold + s >= 0 /\ Made' <= max * (Sold + s)
  BY <1>2, <1>3 DEF Balanced
<1> QED BY <1>4 DEF Balanced

-----------------------------------------------------------------------------
(* The two halves of invoke *)

\* What a submission leads to when nothing goes wrong.
LEMMA SubmitOutcome ==
  ASSUME RouterTypeOK, faults' = 0, NEW tx, NEW at, NEW j, Submit(tx, at, j)
  PROVE  /\ answer' = Unanswered
         /\ \/ pc' = at /\ job' = j /\ flying' = flying \cup {tx}
            \/ /\ pc' = "rest" /\ flying' = flying
               /\ \E price \in Prices : ~Succeeds(tx, price)
<1>1. PICK price \in Prices :
        \/ Goto(at, j) /\ flying' = flying \cup {tx}
        \/ ~Succeeds(tx, price) /\ Thrown /\ UNCHANGED flying
  BY DEF Submit
<1> QED BY <1>1 DEF Goto, Thrown, Over

\* Nothing is in flight where the router submits.
LEMMA NoneInFlight ==
  ASSUME InFlight, answer # Unanswered \/ pc \notin Awaits
  PROVE  flying = {}
BY DEF InFlight, Awaits

\* The strategy stays orderly while only the router moves.
LEMMA StrategyRests ==
  ASSUME NEW max, Orderly, Balanced(max), UNCHANGED <<vars, held, emitted>>
  PROVE  Orderly' /\ Balanced(max)'
BY DEF Orderly, Balanced, Sold, Made, vars, held, PendingRecords

\* The router goes on without a call, or gives up.
LEMMA GoesOn ==
  ASSUME NEW max, Smooth(max), UNCHANGED <<vars, held, emitted, flying>>,
         answer # Unanswered \/ pc \notin Awaits,
         answer' = Unanswered, pc' \notin Awaits, pc' # "session" => selling' = 0, Stage'
  PROVE  Smooth(max)'
<1>1. Orderly' /\ Balanced(max)'
  BY StrategyRests DEF Smooth
<1>2. InFlight'
  BY NoneInFlight DEF Smooth, InFlight, Awaits
<1> QED BY <1>1, <1>2 DEF Smooth

\* The router submits a call and awaits it.
LEMMA AwaitsCall ==
  ASSUME NEW max, Smooth(max), UNCHANGED <<vars, held, emitted>>,
         answer # Unanswered \/ pc \notin Awaits, NEW tx, flying' = flying \cup {tx},
         answer' = Unanswered, pc' \in Awaits, tx = Awaited', selling' = 0, Stage'
  PROVE  Smooth(max)'
<1>1. Orderly' /\ Balanced(max)'
  BY StrategyRests DEF Smooth
<1>2. flying' = {Awaited'}
  BY NoneInFlight DEF Smooth
<1>3. InFlight'
  BY <1>2 DEF InFlight, Awaits
<1> QED BY <1>1, <1>3 DEF Smooth

\* Between passes, and before the fallback, the strategy has what it claimed.
LEMMA RestsWell ==
  ASSUME NEW max, Smooth(max), UNCHANGED <<vars, held, emitted, flying>>,
         answer # Unanswered \/ pc \notin Awaits,
         answer' = Unanswered, pc' \in {"rest", "fallback"}, selling' = 0,
         Home, pending.blnd_claimed <= blnd
  PROVE  Smooth(max)'
<1>1. Stage'
  BY DEF Stage, Home, vars, held
<1> QED BY <1>1, GoesOn DEF Awaits

-----------------------------------------------------------------------------
(* The steps of the router *)

LEMMA StartPassSmooth ==
  ASSUME NEW max \in Nat, RIInv, Smooth(max), StartPass, faults' = 0
  PROVE  Smooth(max)'
<1> DEFINE j == [NoJob EXCEPT !.rate = IF swapAccount = Keeper THEN minRate ELSE 0]
<1>1. pc = "rest" /\ Submit(Claim, "claim", j) /\ UNCHANGED <<vars, held, selling, reported, emitted>>
  BY DEF StartPass
<1>2. Home /\ pending.blnd_claimed <= blnd /\ selling = 0
  BY <1>1 DEF Smooth, Stage, InFlight, Awaits
<1>3. j.rate > 0 => swapAccount = Keeper /\ minRate > 0
  BY DEF NoJob
<1> HIDE DEF j
<1>4. CASE pc' = "claim" /\ job' = j /\ flying' = flying \cup {Claim} /\ answer' = Unanswered
  <2>1. Claim = Awaited'
    BY <1>4 DEF Awaited, Claim
  <2>2. Stage'
    BY <1>1, <1>2, <1>3, <1>4 DEF Stage, Home, vars, held
  <2> QED BY <1>1, <1>2, <1>4, <2>1, <2>2, AwaitsCall DEF Awaits
<1>5. CASE pc' = "rest" /\ flying' = flying /\ answer' = Unanswered
  BY <1>1, <1>2, <1>5, RestsWell DEF Awaits
<1> QED BY <1>1, <1>4, <1>5, SubmitOutcome DEF RIInv

LEMMA ClaimAnsweredSmooth ==
  ASSUME NEW max \in Nat, RIInv, Smooth(max), ClaimAnswered, faults' = 0
  PROVE  Smooth(max)'
<1> DEFINE j == [job EXCEPT !.claimed = answer.result]
<1>1. /\ pc = "claim" /\ answer # Unanswered
      /\ UNCHANGED <<vars, held, flying, selling, reported, emitted, faults>>
  BY DEF ClaimAnswered
<1>2. Home /\ pending.blnd_claimed <= blnd /\ selling = 0
  BY <1>1 DEF Smooth, Stage, InFlight, Awaits
<1>3. CASE answer.status = "success" /\ answer.result >= HarvestMin /\ Goto("quote", j)
  <2>1. job' = j /\ j.claimed = answer.result /\ j.rate = job.rate /\ answer.result > 0
    BY <1>3, RouterConstantsOK DEF Goto, RIInv, RouterTypeOK, Jobs
  <2>2. pc' = "quote" /\ answer' = Unanswered
    BY <1>3 DEF Goto
  <2>3. job.rate > 0 => Granted(answer.result)
    BY <1>1, <1>3, <2>1 DEF Smooth, Stage
  <2> HIDE DEF j
  <2>4. Stage'
    BY <1>1, <1>2, <2>1, <2>2, <2>3 DEF Stage, Home, Granted, Open, vars, held
  <2> QED BY <1>1, <1>2, <2>2, <2>4, GoesOn DEF Awaits
<1>4. CASE Over
  BY <1>1, <1>2, <1>4, RestsWell DEF Over
<1> QED BY <1>3, <1>4 DEF ClaimAnswered

LEMMA DecideSmooth ==
  ASSUME NEW max \in Nat, RIInv, Smooth(max), Decide, faults' = 0
  PROVE  Smooth(max)'
<1>1. /\ pc = "quote" /\ answer' = Unanswered
      /\ UNCHANGED <<vars, held, flying, selling, reported, emitted>>
  BY DEF Decide, Over, Goto
<1>2. Home /\ pending.blnd_claimed <= blnd /\ selling = 0 /\ (job.rate > 0 => Granted(job.claimed))
  BY <1>1 DEF Smooth, Stage, InFlight, Awaits
<1>3. CASE pc' = "rest"
  BY <1>1, <1>2, <1>3, RestsWell DEF Awaits
<1>4. CASE /\ pc' = "trade" /\ job'.claimed = job.claimed
           /\ job'.route = "broker" => job.rate > 0
  <2>1. Stage'
    BY <1>1, <1>2, <1>4 DEF Stage, Home, Granted, Open, vars, held
  <2> QED BY <1>1, <1>2, <1>4, <2>1, GoesOn DEF Awaits
<1>5. \/ pc' = "rest"
      \/ /\ pc' = "trade" /\ job'.claimed = job.claimed
         /\ job'.route = "broker" => job.rate > 0
  <2>1. PICK broker \in Quotes(job.claimed), soroswap \in Quotes(job.claimed) :
          LET viaBroker == broker > soroswap /\ job.rate > 0
              quote == IF viaBroker THEN broker ELSE soroswap
          IN IF quote = 0 \/ MinOut(quote) < SettlementFloor THEN Over
             ELSE Goto("trade", [job EXCEPT
                    !.outMin = MinOut(quote),
                    !.route = IF viaBroker THEN "broker" ELSE "soroswap"])
    BY DEF Decide
  <2>2. \A min, r : LET j == [job EXCEPT !.outMin = min, !.route = r]
                   IN j.claimed = job.claimed /\ j.route = r
    BY DEF RIInv, RouterTypeOK, Jobs
  <2> DEFINE viaBroker == broker > soroswap /\ job.rate > 0
             quote == IF viaBroker THEN broker ELSE soroswap
             route == IF viaBroker THEN "broker" ELSE "soroswap"
  <2>3. \/ Over
        \/ Goto("trade", [job EXCEPT !.outMin = MinOut(quote), !.route = route])
    BY <2>1
  <2>4. route = "broker" => job.rate > 0
    OBVIOUS
  <2> DEFINE j == [job EXCEPT !.outMin = MinOut(quote), !.route = route]
  <2>5. j.claimed = job.claimed /\ j.route = route
    BY <2>2
  <2>6. Over \/ Goto("trade", j)
    BY <2>3
  <2> HIDE DEF route, j
  <2> QED BY <2>4, <2>5, <2>6 DEF Over, Goto
<1> QED BY <1>3, <1>4, <1>5

LEMMA FallbackSmooth ==
  ASSUME NEW max \in Nat, RIInv, Smooth(max), Fallback, faults' = 0
  PROVE  Smooth(max)'
<1>1. /\ pc = "fallback" /\ answer' = Unanswered
      /\ UNCHANGED <<vars, held, flying, selling, reported, emitted>>
  BY DEF Fallback, Over, Goto
<1>2. Home /\ pending.blnd_claimed <= blnd /\ selling = 0
  BY <1>1 DEF Smooth, Stage, InFlight, Awaits
<1>3. pc' = "rest" \/ (pc' = "trade" /\ job'.route = "soroswap")
  <2>1. \/ pc' = "rest"
        \/ pc' = "trade" /\ \E min : job' = [job EXCEPT !.outMin = min, !.route = "soroswap"]
    BY DEF Fallback, Over, Goto
  <2>2. \A min : [job EXCEPT !.outMin = min, !.route = "soroswap"].route = "soroswap"
    BY DEF RIInv, RouterTypeOK, Jobs
  <2> QED BY <2>1, <2>2
<1>4. CASE pc' = "rest"
  BY <1>1, <1>2, <1>4, RestsWell DEF Awaits
<1>5. CASE pc' = "trade" /\ job'.route = "soroswap"
  <2>1. Stage'
    BY <1>1, <1>2, <1>5 DEF Stage, Home, vars, held
  <2> QED BY <1>1, <1>2, <1>5, <2>1, GoesOn DEF Awaits
<1> QED BY <1>3, <1>4, <1>5

LEMMA SwapAnsweredSmooth ==
  ASSUME NEW max \in Nat, RIInv, Smooth(max), SwapAnswered, faults' = 0
  PROVE  Smooth(max)'
<1>1. /\ pc = "swap" /\ answer # Unanswered /\ pc' = "rest" /\ answer' = Unanswered
      /\ UNCHANGED <<vars, held, flying, selling, emitted>>
  BY DEF SwapAnswered, Over
<1>2. Home /\ pending.blnd_claimed <= blnd /\ selling = 0
  BY <1>1 DEF Smooth, Stage, InFlight, Awaits
<1> QED BY <1>1, <1>2, RestsWell

-----------------------------------------------------------------------------
(* The calls that move the claim cannot fail *)

\* A simulation refuses only what would revert.
LEMMA OnlyWhatSucceedsLands ==
  ASSUME RIInv, NEW tx, NEW price, Applied(tx, price)
  PROVE  Succeeds(tx, price)
<1>1. CASE tx.call = "swap" /\ ReinvestViaSoroswap(tx.n, SwapOut(price))
  <2> DEFINE out == SwapOut(price)
  <2>1. blnd \in Nat /\ RewardThreshold \in Nat
    BY ConstantsOK DEF RIInv, VaultAmounts
  <2>2. /\ tx.n > 0 /\ Settle(blnd', out)
        /\ \/ blnd < RewardThreshold /\ out = 0 /\ blnd' = blnd
           \/ /\ blnd >= RewardThreshold /\ blnd' = 0
              /\ out >= tx.n /\ idle + levered + out <= MaxUnderlying
    <3> HIDE DEF out
    <3>1. ReinvestViaSoroswap(tx.n, out)
      BY <1>1 DEF out
    <3> QED BY <3>1 DEF ReinvestViaSoroswap
  <2>3. Settles(blnd', out)
    <3> HIDE DEF out
    <3> QED BY <2>2 DEF Settle, Settles
  <2> HIDE DEF out
  <2>4. IF blnd < RewardThreshold THEN Settles(blnd, 0)
        ELSE out >= tx.n /\ idle + levered + out <= MaxUnderlying /\ Settles(0, out)
    BY <2>1, <2>2, <2>3
  <2> QED BY <1>1, <2>2, <2>4 DEF Succeeds, out
<1>2. CASE tx.call = "reinvest" /\ ReinvestViaBroker(tx.n)
  BY <1>2 DEF ReinvestViaBroker, Settle, Settles, Succeeds
<1>3. CASE tx.call \notin {"swap", "reinvest"}
  BY <1>3 DEF Applied, HarvestClaim, Pull, ReturnBlnd, Deliver, Succeeds
<1> QED BY <1>1, <1>2, <1>3 DEF Applied

\* What was granted can be pulled.
LEMMA PullSucceeds ==
  ASSUME RIInv, Orderly, NEW n \in Nat, Granted(n), NEW price
  PROVE  Succeeds(Call("pull", n), price)
<1>1. Live(Keeper) = n /\ n <= blnd
  BY DEF Granted, Live, Orderly, PendingRecords, RIInv, VaultAmounts
<1> QED BY <1>1 DEF Succeeds, Call

\* There is room for what was not sold.
LEMMA ReturnSucceeds ==
  ASSUME NEW max \in Nat, Roomy(max), RIInv, Balanced(max), NEW n \in Nat,
         kBlnd = OwnBlnd + n, NEW price
  PROVE  Succeeds(Call("return", n), price)
<1>1. accrued + blnd + n <= MaxBlnd /\ n <= kBlnd
  BY RouterConstantsOK, ConstantsOK DEF Balanced, Roomy, Sold, RIInv, VaultAmounts, RouterTypeOK
<1> QED BY <1>1 DEF Succeeds, Call

\* There is room for the proceeds.
LEMMA PushSucceeds ==
  ASSUME NEW max \in Nat, Roomy(max), RIInv, Balanced(max), NEW n \in Nat,
         kBlnd >= OwnBlnd, kAsset = OwnAsset + n, NEW price
  PROVE  Succeeds(Call("push", n), price)
<1>1. /\ Sold \in Nat /\ Sold <= MaxEmitted /\ n <= kAsset
      /\ idle + levered + n = Made /\ Made \in Int
  BY RouterConstantsOK, ConstantsOK DEF Balanced, Sold, Made, RIInv, VaultAmounts, RouterTypeOK
<1>2. \A x, y, z \in Nat : x <= y => z * x <= y * z /\ z * x \in Int /\ y * z \in Int
  BY Z3
<1>3. max * Sold <= MaxEmitted * max /\ max * Sold \in Int /\ MaxEmitted * max \in Int
  BY <1>1, <1>2, RouterConstantsOK
<1>4. idle + levered + n <= MaxUnderlying
  BY <1>1, <1>3, ConstantsOK DEF Balanced, Roomy
<1> QED BY <1>1, <1>4 DEF Succeeds, Call

\* The proceeds settle the claim.
LEMMA ReinvestSucceeds ==
  ASSUME RIInv, Orderly, NEW n \in Nat \ {0}, NEW left \in Nat, Dealt(left, n), blnd = left,
         idle = pending.underlying_before + n, NEW price
  PROVE  /\ Succeeds(Call("reinvest", n), price)
         /\ pending # NoPending
<1> DEFINE claimed == pending.blnd_claimed
           spent == claimed - left
<1>1. /\ claimed \in Nat \ {0} /\ claimed = job.claimed /\ pending.floor \in Nat
      /\ pending.underlying_before \in Nat /\ spent \in 0..claimed
      /\ n * claimed >= pending.floor * spent
  BY DEF Dealt, Open, Orderly, PendingRecords, RIInv, RouterTypeOK, Jobs
<1>2. pending # NoPending
  BY <1>1 DEF NoPending
<1>3. DeliveredBefore = n
  BY <1>1, <1>2 DEF DeliveredBefore, Larger
<1>4. ProrateFloor(pending.floor, spent, claimed) <= n
  <2> HIDE DEF spent, claimed
  <2> QED BY <1>1, ProrateWithin
<1>5. Settles(blnd, 0)
  <2>1. ProrateFloor(pending.floor, spent, claimed) \in Nat
    <3> HIDE DEF spent, claimed
    <3>1. spent \in Int /\ spent <= claimed
      BY <1>1
    <3> QED BY <1>1, <3>1, ProrateCovers
  <2> QED BY <1>3, <1>4, <2>1 DEF Settles
<1>6. n <= idle
  BY <1>1
<1> QED BY <1>2, <1>5, <1>6 DEF Succeeds, Call

-----------------------------------------------------------------------------
(* The steps of the router, from the trade on *)

LEMMA TradeSmooth ==
  ASSUME NEW max \in Nat, RIInv, Smooth(max), Trade, faults' = 0
  PROVE  Smooth(max)'
<1> DEFINE pull == Call("pull", job.claimed)
           swap == Call("swap", job.outMin)
           j == [job EXCEPT !.blndBefore = kBlnd, !.assetBefore = kAsset]
<1>1. pc = "trade" /\ UNCHANGED <<vars, held, selling, reported, emitted>>
  BY DEF Trade
<1>2. Home /\ pending.blnd_claimed <= blnd /\ selling = 0
  BY <1>1 DEF Smooth, Stage, InFlight, Awaits
<1>3. CASE job.route = "broker" /\ Submit(pull, "pull", j)
  <2>1. Granted(job.claimed) /\ job.claimed \in Nat /\ Orderly
    BY <1>1, <1>3 DEF Smooth, Stage, RIInv, RouterTypeOK, Jobs
  <2>2. pc' = "pull" /\ job' = j /\ flying' = flying \cup {pull} /\ answer' = Unanswered
    <3>1. \A price : Succeeds(pull, price)
      BY <2>1, PullSucceeds
    <3> HIDE DEF pull, j
    <3> QED BY <1>3, <3>1, SubmitOutcome DEF RIInv
  <2>3. j.claimed = job.claimed /\ j.blndBefore = OwnBlnd /\ j.assetBefore = OwnAsset
    BY <1>2 DEF Home, RIInv, RouterTypeOK, Jobs
  <2> HIDE DEF j
  <2>4. pull = Awaited'
    BY <2>2, <2>3 DEF Awaited
  <2>5. Stage'
    BY <1>1, <1>2, <2>1, <2>2, <2>3 DEF Stage, Home, Granted, Open, vars, held
  <2> QED BY <1>1, <1>2, <2>2, <2>4, <2>5, AwaitsCall DEF Awaits
<1>4. CASE Submit(swap, "swap", job)
  <2> HIDE DEF swap
  <2>1. CASE pc' = "swap" /\ job' = job /\ flying' = flying \cup {swap} /\ answer' = Unanswered
    <3>1. swap = Awaited'
      BY <2>1 DEF Awaited, swap
    <3>2. Stage'
      BY <1>1, <1>2, <2>1 DEF Stage, Home, vars, held
    <3> QED BY <1>1, <1>2, <2>1, <3>1, <3>2, AwaitsCall DEF Awaits
  <2>2. CASE pc' = "rest" /\ flying' = flying /\ answer' = Unanswered
    BY <1>1, <1>2, <2>2, RestsWell DEF Awaits
  <2> QED BY <1>4, <2>1, <2>2, SubmitOutcome DEF RIInv
<1> QED BY <1>3, <1>4 DEF Trade

LEMMA PullAnsweredSmooth ==
  ASSUME NEW max \in Nat, RIInv, Smooth(max), PullAnswered, faults' = 0
  PROVE  Smooth(max)'
<1>1. /\ pc = "pull" /\ answer # Unanswered /\ UNCHANGED <<vars, held, reported, emitted>>
  BY DEF PullAnswered
<1>2. /\ answer.status = "success" /\ kBlnd = OwnBlnd + job.claimed
      /\ Away /\ Dealt(kBlnd - OwnBlnd, kAsset - OwnAsset)
      /\ job.blndBefore = OwnBlnd /\ job.assetBefore = OwnAsset
  BY <1>1 DEF Smooth, Stage
<1>3. /\ pc' = "session" /\ job' = job /\ answer' = Unanswered /\ selling' = job.claimed
      /\ UNCHANGED flying
  BY <1>2 DEF PullAnswered, Goto
<1>4. selling' <= kBlnd - OwnBlnd
  BY <1>2, <1>3, RouterConstantsOK DEF RIInv, RouterTypeOK, Jobs
<1>5. Stage'
  BY <1>1, <1>2, <1>3, <1>4 DEF Stage, Away, Dealt, Open, vars, held
<1> QED BY <1>1, <1>3, <1>5, GoesOn DEF Awaits

LEMMA TradeEndsSmooth ==
  ASSUME NEW max \in Nat, RIInv, Smooth(max), TradeEnds, faults' = 0
  PROVE  Smooth(max)'
<1>1. /\ pc = "session" /\ pc' = "blnd" /\ job' = job /\ answer' = Unanswered
      /\ selling' = 0 /\ UNCHANGED <<vars, held, flying, reported, emitted>>
  BY NoFaultYet DEF TradeEnds, Goto, RIInv
<1>2. /\ Away /\ Dealt(kBlnd - OwnBlnd, kAsset - OwnAsset)
      /\ job.blndBefore = OwnBlnd /\ job.assetBefore = OwnAsset
  BY <1>1 DEF Smooth, Stage
<1>3. Stage'
  BY <1>1, <1>2 DEF Stage, Away, Dealt, Open, vars, held
<1> QED BY <1>1, <1>3, GoesOn DEF Awaits

LEMMA ReadBlndSmooth ==
  ASSUME NEW max \in Nat, RIInv, Smooth(max), ReadBlnd, faults' = 0
  PROVE  Smooth(max)'
<1> DEFINE j == [job EXCEPT !.unsold = Unsold]
<1>1. /\ pc = "blnd" /\ pc' = "asset" /\ job' = j /\ answer' = Unanswered
      /\ UNCHANGED <<vars, held, flying, selling, reported, emitted>>
  BY DEF ReadBlnd, Goto
<1>2. /\ Away /\ Dealt(kBlnd - OwnBlnd, kAsset - OwnAsset) /\ selling = 0
      /\ job.blndBefore = OwnBlnd /\ job.assetBefore = OwnAsset
  BY <1>1 DEF Smooth, Stage, InFlight, Awaits
<1>3. Unsold = kBlnd - OwnBlnd
  BY <1>2, RouterConstantsOK DEF Unsold, Larger, Dealt, RIInv, RouterTypeOK, Jobs
<1>4. /\ j.unsold = kBlnd - OwnBlnd /\ j.claimed = job.claimed
      /\ j.blndBefore = OwnBlnd /\ j.assetBefore = OwnAsset
  BY <1>2, <1>3 DEF RIInv, RouterTypeOK, Jobs
<1> HIDE DEF j
<1>5. Stage'
  BY <1>1, <1>2, <1>4 DEF Stage, Away, Dealt, Open, vars, held
<1> QED BY <1>1, <1>2, <1>5, GoesOn DEF Awaits

\* What the router does with the proceeds once the unsold BLND is back.
LEMMA ProceedsPushed ==
  ASSUME NEW max \in Nat, Roomy(max), RIInv, Smooth(max), faults' = 0,
         UNCHANGED <<vars, held, selling, emitted>>,
         pc \in {"asset", "return"}, answer # Unanswered \/ pc \notin Awaits,
         NEW j \in Jobs, PushProceeds(j), j.claimed = job.claimed,
         kBlnd = OwnBlnd, kAsset = OwnAsset + j.bought,
         blnd = j.unsold, idle = pending.underlying_before, Dealt(j.unsold, j.bought)
  PROVE  Smooth(max)'
<1>1. selling = 0
  BY DEF Smooth, InFlight, Awaits
<1>2. CASE j.bought = 0
  <2>1. Leftover(j)
    BY <1>2 DEF PushProceeds
  <2>2. /\ pc' \in {"rest", "fallback"} /\ answer' = Unanswered /\ UNCHANGED flying
    BY <2>1 DEF Leftover, Over, Goto
  <2>3. kAsset = OwnAsset
    BY <1>2, RouterConstantsOK
  <2>4. pending.blnd_claimed <= blnd
    <3> DEFINE claimed == pending.blnd_claimed
               floor == pending.floor
               left == j.unsold
    <3>1. /\ claimed \in Nat \ {0} /\ floor \in Nat \ {0} /\ left \in 0..claimed
          /\ 0 * claimed >= floor * (claimed - left)
      BY <1>2 DEF Dealt, Open, Smooth, Orderly, PendingRecords
    <3>2. \A x \in Nat \ {0}, y \in Nat : y > 0 => x * y > 0
      BY Z3
    <3> HIDE DEF claimed, floor, left
    <3>3. claimed - left \in Nat /\ ~(claimed - left > 0)
      BY <3>1, <3>2
    <3>4. claimed <= left
      BY <3>1, <3>3
    <3> QED BY <3>4 DEF claimed, left
  <2> QED BY <1>1, <2>2, <2>3, <2>4, RestsWell DEF Home
<1>3. CASE j.bought # 0
  <2> DEFINE push == Call("push", j.bought)
  <2>1. Submit(push, "push", j) /\ j.bought \in Nat /\ j.bought > 0
    BY <1>3 DEF PushProceeds, Jobs
  <2>2. \A price : Succeeds(push, price)
    BY <2>1, PushSucceeds, RouterConstantsOK DEF Smooth
  <2>3. pc' = "push" /\ job' = j /\ flying' = flying \cup {push} /\ answer' = Unanswered
    <3> HIDE DEF push
    <3> QED BY <2>1, <2>2, SubmitOutcome DEF RIInv
  <2>4. push = Awaited'
    BY <2>3 DEF Awaited
  <2> HIDE DEF push
  <2>5. Stage'
    BY <2>1, <2>3 DEF Stage, Dealt, Open, vars, held
  <2> QED BY <1>1, <2>3, <2>4, <2>5, AwaitsCall DEF Awaits
<1> QED BY <1>2, <1>3

LEMMA ReadAssetSmooth ==
  ASSUME NEW max \in Nat, Roomy(max), RIInv, Smooth(max), ReadAsset, faults' = 0
  PROVE  Smooth(max)'
<1> DEFINE j == [job EXCEPT !.bought = Bought]
           back == Call("return", j.unsold)
<1>1. /\ pc = "asset" /\ SettleTrade(j)
      /\ UNCHANGED <<vars, held, selling, reported, emitted>>
  BY DEF ReadAsset
<1>2. /\ Away /\ Dealt(kBlnd - OwnBlnd, kAsset - OwnAsset) /\ selling = 0
      /\ job.blndBefore = OwnBlnd /\ job.assetBefore = OwnAsset
      /\ job.unsold = kBlnd - OwnBlnd
  BY <1>1 DEF Smooth, Stage, InFlight, Awaits
<1>3. /\ Bought = kAsset - OwnAsset /\ Bought \in Nat
      /\ kBlnd \in Nat /\ kAsset \in Nat /\ job.unsold \in Nat
      /\ kBlnd = OwnBlnd + job.unsold /\ kAsset = OwnAsset + Bought
  BY <1>2, RouterConstantsOK DEF Bought, Larger, Dealt, RIInv, RouterTypeOK, Jobs
<1>4. j.unsold = job.unsold /\ j.claimed = job.claimed /\ j.bought = Bought /\ j \in Jobs
  BY <1>3 DEF RIInv, RouterTypeOK, Jobs
<1>5. Dealt(j.unsold, j.bought)
  BY <1>2, <1>3, <1>4
<1> HIDE DEF j
<1>6. CASE j.unsold > 0 /\ Submit(back, "return", j)
  <2>1. \A price : Succeeds(back, price)
    BY <1>3, <1>4, ReturnSucceeds DEF Smooth
  <2>2. pc' = "return" /\ job' = j /\ flying' = flying \cup {back} /\ answer' = Unanswered
    <3> HIDE DEF back
    <3> QED BY <1>6, <2>1, SubmitOutcome DEF RIInv
  <2>3. back = Awaited'
    BY <2>2 DEF Awaited
  <2> HIDE DEF back
  <2>4. Stage'
    BY <1>1, <1>2, <1>3, <1>4, <1>5, <1>6, <2>2 DEF Stage, Away, Dealt, Open, vars, held
  <2> QED BY <1>1, <1>2, <2>2, <2>3, <2>4, AwaitsCall DEF Awaits
<1>7. CASE j.unsold = 0 /\ PushProceeds(j)
  <2>1. kBlnd = OwnBlnd
    BY <1>3, <1>4, <1>7, RouterConstantsOK
  <2>2. blnd = j.unsold /\ idle = pending.underlying_before
    BY <1>2, <1>7 DEF Away
  <2> HIDE DEF back
  <2> QED BY <1>1, <1>3, <1>4, <1>5, <1>7, <2>1, <2>2, ProceedsPushed DEF Awaits
<1> QED BY <1>1, <1>3, <1>4, <1>6, <1>7 DEF SettleTrade

LEMMA ReturnAnsweredSmooth ==
  ASSUME NEW max \in Nat, Roomy(max), RIInv, Smooth(max), ReturnAnswered, faults' = 0
  PROVE  Smooth(max)'
<1>1. /\ pc = "return" /\ answer # Unanswered /\ PushProceeds(job)
      /\ UNCHANGED <<vars, held, selling, reported, emitted>>
  BY DEF ReturnAnswered
<1>2. /\ kBlnd = OwnBlnd /\ kAsset = OwnAsset + job.bought /\ blnd = job.unsold
      /\ idle = pending.underlying_before /\ Dealt(job.unsold, job.bought)
  BY <1>1 DEF Smooth, Stage
<1>3. job \in Jobs
  BY DEF RIInv, RouterTypeOK
<1> QED BY <1>1, <1>2, <1>3, ProceedsPushed

LEMMA PushAnsweredSmooth ==
  ASSUME NEW max \in Nat, RIInv, Smooth(max), PushAnswered, faults' = 0
  PROVE  Smooth(max)'
<1> DEFINE reinvest == Call("reinvest", job.bought)
<1>1. /\ pc = "push" /\ answer # Unanswered
      /\ UNCHANGED <<vars, held, selling, reported, emitted>>
  BY DEF PushAnswered
<1>2. /\ answer.status = "success" /\ Dealt(job.unsold, job.bought)
      /\ kBlnd = OwnBlnd /\ blnd = job.unsold /\ job.bought > 0
      /\ kAsset = OwnAsset /\ idle = pending.underlying_before + job.bought
      /\ selling = 0 /\ job.unsold \in Nat /\ job.bought \in Nat \ {0}
  BY <1>1 DEF Smooth, Stage, InFlight, RIInv, RouterTypeOK, Jobs, Awaits
<1>3. Submit(reinvest, "reinvest", job)
  BY <1>2 DEF PushAnswered
<1>4. \A price : Succeeds(reinvest, price)
  BY <1>2, ReinvestSucceeds DEF Smooth
<1>5. pc' = "reinvest" /\ job' = job /\ flying' = flying \cup {reinvest} /\ answer' = Unanswered
  <2> HIDE DEF reinvest
  <2> QED BY <1>3, <1>4, SubmitOutcome DEF RIInv
<1>6. reinvest = Awaited'
  BY <1>5 DEF Awaited
<1> HIDE DEF reinvest
<1>7. Stage'
  BY <1>1, <1>2, <1>5 DEF Stage, Home, Dealt, Open, vars, held
<1> QED BY <1>1, <1>2, <1>5, <1>6, <1>7, AwaitsCall DEF Awaits

LEMMA ReinvestAnsweredSmooth ==
  ASSUME NEW max \in Nat, RIInv, Smooth(max), ReinvestAnswered, faults' = 0
  PROVE  Smooth(max)'
<1>1. /\ pc = "reinvest" /\ answer # Unanswered
      /\ UNCHANGED <<vars, held, flying, selling, emitted>>
      /\ pc' \in {"rest", "fallback"} /\ answer' = Unanswered
  BY DEF ReinvestAnswered, Leftover, Goto, Over
<1>2. Home /\ pending = NoPending /\ selling = 0
  BY <1>1 DEF Smooth, Stage, InFlight, Awaits
<1>3. pending.blnd_claimed <= blnd
  BY <1>2 DEF NoPending, RIInv, VaultAmounts
<1> QED BY <1>1, <1>2, <1>3, RestsWell

-----------------------------------------------------------------------------
(* Landing *)

\* What landing comes to when nothing goes wrong: the awaited call is done, or
\* is answered with a failure.
LEMMA LandOutcome ==
  ASSUME NEW max, RIInv, Smooth(max), faults' = 0, NEW tx \in flying, NEW price, Land(tx, price)
  PROVE  /\ tx = Awaited /\ pc \in Awaits /\ answer = Unanswered
         /\ flying' = {} /\ UNCHANGED <<pc, job, selling, reported, emitted>>
         /\ \/ /\ Applied(tx, price)
               /\ answer' = [status |-> "success", result |-> Returned(tx, price)]
            \/ /\ ~Succeeds(tx, price)
               /\ answer' = [status |-> "failed", result |-> 0]
               /\ UNCHANGED <<vars, held>>
<1>1. tx = Awaited /\ pc \in Awaits /\ answer = Unanswered
  BY DEF Smooth, InFlight, Awaits
<1>2. ~tx.old
  BY <1>1 DEF Awaited, Call
<1> QED BY <1>1, <1>2 DEF Land

\* An answer leaves nothing in flight.
LEMMA LandsWell ==
  ASSUME NEW max, Smooth(max), pc \in Awaits, flying' = {}, UNCHANGED <<pc, selling>>,
         answer'.status \in {"success", "failed"}, Orderly', Balanced(max)', Stage'
  PROVE  Smooth(max)'
<1>1. InFlight'
  BY DEF Smooth, InFlight, Awaits, Unanswered
<1> QED BY <1>1 DEF Smooth

\* A claim or a swap may fail: the strategy keeps what it claimed.
LEMMA FailureIsHarmless ==
  ASSUME NEW max, RIInv, Smooth(max), pc \in {"claim", "swap"}, flying' = {},
         UNCHANGED <<pc, job, selling, emitted, vars, held>>,
         answer' = [status |-> "failed", result |-> 0]
  PROVE  Smooth(max)'
<1>1. Home /\ pending.blnd_claimed <= blnd
  BY DEF Smooth, Stage
<1>2. Stage'
  BY <1>1 DEF Stage, Home, Unanswered, vars, held
<1>3. Orderly' /\ Balanced(max)'
  BY StrategyRests DEF Smooth
<1> QED BY <1>2, <1>3, LandsWell DEF Awaits

\* The allowances after a revocation.
LEMMA RevokedRecords ==
  ASSUME Orderly
  PROVE  Revoked \in [Accounts -> [amount : Nat, expiration : Nat]]
BY DEF Orderly, Revoked, NoAllowance

\* A claim finds the last one settled, or all of it still there, and opens
\* what the router may pull.
LEMMA ClaimLands ==
  ASSUME NEW max, FloorsAreFair, RIInv, Smooth(max), pc = "claim", answer = Unanswered,
         flying' = {}, UNCHANGED <<pc, job, selling, emitted, held>>, HarvestClaim,
         answer' = [status |-> "success", result |-> blnd + accrued]
  PROVE  Smooth(max)'
<1> DEFINE bal == blnd + accrued
           deadline == now + ApprovalLedgers
           approves == bal > 0 /\ swapAccount # NoAccount /\ minRate > 0
<1>1. /\ blnd \in Nat /\ accrued \in Nat /\ bal \in Nat /\ now \in Nat
      /\ deadline \in Nat /\ now <= deadline /\ idle \in Nat /\ Keeper # NoAccount
      /\ Orderly /\ pending \in PendingRecords
  BY ConstantsOK, RouterConstantsOK DEF RIInv, VaultAmounts, Smooth, Orderly
<1>2. /\ Home /\ pending.blnd_claimed <= blnd
      /\ job.rate > 0 => swapAccount = Keeper /\ minRate > 0
  BY DEF Smooth, Stage
<1>3. /\ UNCHANGED <<now, swapAccount, minRate, idle, levered, kBlnd, kAsset>>
      /\ accrued' = 0 /\ blnd' = bal
  BY DEF HarvestClaim, config, held
<1>4. event'.kind # "unsettled"
  BY <1>1, <1>2 DEF HarvestClaim, Unsettled, Larger, NoEvent, PendingRecords
<1>5. CASE approves
  <2> DEFINE floor == HarvestFloor(bal, minRate)
  <2>1. bal \in Nat \ {0} /\ minRate \in Rates
    BY <1>1, <1>5 DEF Orderly
  <2>2. floor \in Nat \ {0} /\ \A p \in Prices : floor <= p * bal
    BY <2>1, FloorIsFair
  <2>3. /\ pending' = [blnd_claimed |-> bal, underlying_before |-> idle, floor |-> floor,
                       expiration |-> deadline]
        /\ allowance' = [Revoked EXCEPT ![swapAccount] =
                            [amount |-> bal, expiration |-> deadline]]
    BY <1>5 DEF HarvestClaim
  <2> HIDE DEF floor, bal, deadline
  <2>4. Orderly'
    <3>1. allowance' \in [Accounts -> [amount : Nat, expiration : Nat]]
      BY <1>1, <2>3, RevokedRecords
    <3>2. pending' \in PendingRecords
      BY <1>1, <2>2, <2>3 DEF PendingRecords
    <3> QED BY <1>1, <1>3, <1>4, <3>1, <3>2 DEF Orderly
  <2>5. answer'.result = bal
    BY DEF bal
  <2>6. swapAccount = Keeper => Granted(answer.result)'
    <3>1. swapAccount = Keeper => allowance'[Keeper] = [amount |-> bal, expiration |-> deadline]
      BY <1>1, <2>3, RevokedRecords, RouterConstantsOK
    <3>2. Open(answer.result)'
      BY <2>1, <2>2, <2>3, <2>5 DEF Open
    <3> QED BY <1>1, <1>3, <2>3, <2>5, <3>1, <3>2 DEF Granted
  <2>7. Stage'
    BY <1>1, <1>2, <1>3, <2>3, <2>6 DEF Stage, Home, Unanswered
  <2>8. Balanced(max)'
    BY <1>1, <1>3 DEF Smooth, Balanced, Sold, Made, bal
  <2> QED BY <2>4, <2>7, <2>8, LandsWell DEF Awaits
<1>6. CASE ~approves
  <2>1. pending' = NoPending /\ allowance' = Revoked
    BY <1>6 DEF HarvestClaim
  <2>2. Orderly'
    BY <1>1, <1>3, <1>4, <2>1, RevokedRecords DEF Orderly, NoPending, PendingRecords
  <2>3. job.rate > 0 => answer'.result = 0
    BY <1>1, <1>2, <1>6
  <2>4. Stage'
    BY <1>1, <1>2, <1>3, <2>1, <2>3 DEF Stage, Home, Unanswered, NoPending
  <2>5. Balanced(max)'
    BY <1>1, <1>3 DEF Smooth, Balanced, Sold, Made
  <2> QED BY <2>2, <2>4, <2>5, LandsWell DEF Awaits
<1> QED BY <1>5, <1>6

\* A swap sells all the BLND at one price, or none, and ends the claim.
LEMMA SwapLands ==
  ASSUME NEW max \in Nat, Roomy(max), RIInv, Smooth(max), pc = "swap", answer = Unanswered,
         flying' = {}, UNCHANGED <<pc, job, selling, emitted, held>>, answer'.status = "success",
         answer' # Unanswered, NEW price \in Prices, NEW min,
         ReinvestViaSoroswap(min, SwapOut(price))
  PROVE  Smooth(max)'
<1> DEFINE out == SwapOut(price)
           sold == blnd - blnd'
<1>1. /\ blnd \in Nat /\ accrued \in Nat /\ idle \in Nat /\ levered \in Nat /\ price \in Nat
      /\ Orderly /\ Home /\ kBlnd \in Nat /\ kAsset \in Nat /\ emitted \in Nat
      /\ OwnBlnd \in Nat /\ OwnAsset \in Nat /\ Balanced(max)
  BY RouterConstantsOK DEF RIInv, VaultAmounts, RouterTypeOK, Smooth, Stage
<1>2. /\ blnd' \in Nat /\ sold \in Nat /\ out = sold * price /\ levered' = levered + out
      /\ UNCHANGED <<now, swapAccount, minRate, accrued, idle>> /\ Settle(blnd', out)
  <2>1. ReinvestViaSoroswap(min, out)
    OBVIOUS
  <2>2. blnd >= RewardThreshold => out = blnd * price
    BY <1>1, ConstantsOK DEF SwapOut
  <2>3. /\ UNCHANGED <<now, swapAccount, minRate, accrued, idle>> /\ Settle(blnd', out)
        /\ \/ out = 0 /\ UNCHANGED <<blnd, levered>>
           \/ blnd >= RewardThreshold /\ blnd' = 0 /\ levered' = levered + out
    <3> HIDE DEF out
    <3> QED BY <2>1 DEF ReinvestViaSoroswap, config
  <2> HIDE DEF out
  <2>4. CASE out = 0 /\ UNCHANGED <<blnd, levered>>
    BY <1>1, <2>3, <2>4
  <2>5. CASE blnd >= RewardThreshold /\ blnd' = 0 /\ levered' = levered + out
    BY <1>1, <2>2, <2>3, <2>5
  <2> QED BY <2>3, <2>4, <2>5
<1>3. pending' = NoPending /\ allowance' \in {allowance, Revoked} /\ event'.kind # "unsettled"
  <2> HIDE DEF out
  <2> QED BY <1>2 DEF Settle, NoEvent
<1>4. Orderly'
  BY <1>1, <1>2, <1>3, RevokedRecords DEF Orderly, PendingRecords, NoPending
<1>5. Balanced(max)'
  <2>1. sold * price \in Nat
    <3>1. \A x, y \in Nat : x * y \in Nat
      BY Z3
    <3> QED BY <1>1, <1>2, <3>1
  <2>2. Sold' = Sold + sold /\ Sold \in Int
    BY <1>1, <1>2 DEF Sold, held
  <2>3. Made' = Made + sold * price /\ Made \in Int /\ Made' \in Int
    <3> HIDE DEF out, sold
    <3> QED BY <1>1, <1>2, <2>1 DEF Made, held
  <2>4. emitted' <= MaxEmitted
    BY <1>1 DEF Balanced
  <2> HIDE DEF sold
  <2> QED BY <1>1, <1>2, <2>1, <2>2, <2>3, <2>4, BalanceKept
<1>6. Stage'
  BY <1>1, <1>2, <1>3 DEF Stage, Home, Unanswered, NoPending, held
<1> QED BY <1>4, <1>5, <1>6, LandsWell DEF Awaits

\* The pull takes all that was claimed.
LEMMA PullLands ==
  ASSUME NEW max, RIInv, Smooth(max), pc = "pull", answer = Unanswered,
         flying' = {}, UNCHANGED <<pc, job, selling, emitted, kAsset>>,
         answer'.status = "success", answer' # Unanswered,
         Pull(Keeper, job.claimed), kBlnd' = kBlnd + job.claimed
  PROVE  Smooth(max)'
<1> DEFINE n == job.claimed
<1>1. /\ Home /\ Granted(n) /\ Orderly /\ n \in Nat /\ n > 0
      /\ job.blndBefore = OwnBlnd /\ job.assetBefore = OwnAsset
      /\ blnd \in Nat /\ accrued \in Nat /\ kBlnd \in Nat /\ emitted \in Nat
      /\ OwnBlnd \in Nat /\ OwnAsset \in Nat
  BY RouterConstantsOK DEF Smooth, Stage, RIInv, VaultAmounts, RouterTypeOK, Jobs, Granted, Open
<1>2. /\ UNCHANGED <<now, swapAccount, minRate, accrued, idle, pending, levered>>
      /\ allowance' = [allowance EXCEPT ![Keeper].amount = @ - n]
      /\ event' = NoEvent /\ blnd' = blnd - n
  BY DEF Pull, config
<1>3. allowance' \in [Accounts -> [amount : Nat, expiration : Nat]]
  BY <1>1, <1>2, RouterConstantsOK DEF Orderly, Granted
<1>4. Orderly'
  BY <1>1, <1>2, <1>3 DEF Orderly, NoEvent
<1>5. Balanced(max)'
  BY <1>1, <1>2 DEF Smooth, Balanced, Sold, Made
<1>6. Away' /\ kBlnd' - OwnBlnd = n /\ kAsset' - OwnAsset = 0 /\ kBlnd' = OwnBlnd + n
  BY <1>1, <1>2 DEF Away, Granted, Home
<1>7. Dealt(kBlnd - OwnBlnd, kAsset - OwnAsset)'
  <2>1. Open(job.claimed)' /\ pending'.floor \in Nat
    BY <1>1, <1>2 DEF Granted, Open, Orderly, PendingRecords
  <2>2. 0 * n >= pending'.floor * (n - n)
    BY <1>1, <2>1
  <2>3. job'.claimed = n /\ n - n = 0 /\ n - 0 = n
    BY <1>1
  <2> HIDE DEF n
  <2> QED BY <1>1, <1>6, <2>1, <2>2, <2>3 DEF Dealt
<1>8. Stage'
  BY <1>1, <1>2, <1>6, <1>7 DEF Stage, Unanswered
<1> QED BY <1>4, <1>5, <1>8, LandsWell DEF Awaits

\* What was not sold comes back.
LEMMA ReturnLands ==
  ASSUME NEW max, RIInv, Smooth(max), pc = "return", answer = Unanswered,
         flying' = {}, UNCHANGED <<pc, job, selling, emitted, kAsset>>,
         answer'.status = "success", answer' # Unanswered,
         ReturnBlnd(job.unsold), kBlnd' = kBlnd - job.unsold
  PROVE  Smooth(max)'
<1> DEFINE n == job.unsold
<1>1. /\ kAsset = OwnAsset + job.bought /\ idle = pending.underlying_before /\ n > 0
      /\ kBlnd = OwnBlnd + n /\ blnd = 0 /\ Dealt(n, job.bought) /\ Orderly
      /\ n \in Nat /\ accrued \in Nat /\ emitted \in Nat /\ OwnBlnd \in Nat
  BY RouterConstantsOK DEF Smooth, Stage, RIInv, VaultAmounts, RouterTypeOK, Jobs
<1>2. /\ UNCHANGED <<now, swapAccount, minRate, accrued, idle, pending, allowance, levered>>
      /\ event' = NoEvent /\ blnd' = n /\ kBlnd' = OwnBlnd
  BY <1>1 DEF ReturnBlnd, config
<1>3. Orderly'
  BY <1>1, <1>2 DEF Orderly, NoEvent
<1>4. Balanced(max)'
  BY <1>1, <1>2 DEF Smooth, Balanced, Sold, Made
<1>5. Stage'
  BY <1>1, <1>2 DEF Stage, Dealt, Open
<1> QED BY <1>3, <1>4, <1>5, LandsWell DEF Awaits

\* The proceeds arrive.
LEMMA PushLands ==
  ASSUME NEW max, RIInv, Smooth(max), pc = "push", answer = Unanswered,
         flying' = {}, UNCHANGED <<pc, job, selling, emitted, kBlnd>>,
         answer'.status = "success", answer' # Unanswered,
         Deliver(job.bought), kAsset' = kAsset - job.bought
  PROVE  Smooth(max)'
<1> DEFINE n == job.bought
<1>1. /\ kBlnd = OwnBlnd /\ blnd = job.unsold /\ n > 0
      /\ kAsset = OwnAsset + n /\ idle = pending.underlying_before
      /\ Dealt(job.unsold, n) /\ Orderly
      /\ n \in Nat /\ idle \in Nat /\ levered \in Nat /\ OwnAsset \in Nat
  BY RouterConstantsOK DEF Smooth, Stage, RIInv, VaultAmounts, RouterTypeOK, Jobs
<1>2. /\ UNCHANGED <<now, swapAccount, minRate, accrued, blnd, pending, allowance, levered>>
      /\ event' = NoEvent /\ idle' = idle + n /\ kAsset' = OwnAsset
  BY <1>1 DEF Deliver, config
<1>3. Orderly'
  BY <1>1, <1>2 DEF Orderly, NoEvent
<1>4. Balanced(max)'
  BY <1>1, <1>2 DEF Smooth, Balanced, Sold, Made
<1>5. Stage'
  BY <1>1, <1>2 DEF Stage, Dealt, Open
<1> QED BY <1>3, <1>4, <1>5, LandsWell DEF Awaits

\* The claim is settled.
LEMMA ReinvestLands ==
  ASSUME NEW max, RIInv, Smooth(max), pc = "reinvest", answer = Unanswered,
         flying' = {}, UNCHANGED <<pc, job, selling, emitted, held>>,
         answer'.status = "success", answer' # Unanswered,
         ReinvestViaBroker(job.bought)
  PROVE  Smooth(max)'
<1> DEFINE n == job.bought
<1>1. /\ Home /\ n > 0 /\ Orderly
      /\ n \in Nat /\ blnd \in Nat /\ idle \in Nat /\ levered \in Nat /\ kAsset \in Nat
      /\ OwnAsset \in Nat
  BY RouterConstantsOK DEF Smooth, Stage, RIInv, VaultAmounts, RouterTypeOK, Jobs
<1>2. /\ UNCHANGED <<now, swapAccount, minRate, accrued, blnd>>
      /\ idle' = idle - n /\ levered' = levered + n
      /\ pending' = NoPending /\ allowance' \in {allowance, Revoked}
      /\ event'.kind # "unsettled"
  BY DEF ReinvestViaBroker, Settle, NoEvent, config
<1>3. Orderly'
  BY <1>1, <1>2, RevokedRecords DEF Orderly, PendingRecords, NoPending
<1>4. Balanced(max)'
  BY <1>1, <1>2 DEF Smooth, Balanced, Sold, Made, held
<1>5. Stage'
  BY <1>1, <1>2 DEF Stage, Home, NoPending, held
<1> QED BY <1>3, <1>4, <1>5, LandsWell DEF Awaits

LEMMA LandSmooth ==
  ASSUME NEW max \in Nat, Roomy(max), FloorsAreFair, RIInv, Smooth(max), faults' = 0,
         NEW tx \in flying, NEW price \in Prices, Land(tx, price)
  PROVE  Smooth(max)'
<1>1. /\ tx = Awaited /\ pc \in Awaits /\ answer = Unanswered
      /\ flying' = {} /\ UNCHANGED <<pc, job, selling, reported, emitted>>
  BY LandOutcome
<1>2. tx.call = pc
  BY <1>1 DEF Awaited, Call
<1>3. CASE Applied(tx, price) /\ answer' = [status |-> "success", result |-> Returned(tx, price)]
  <2>1. answer'.status = "success" /\ answer' # Unanswered
    BY <1>3 DEF Unanswered
  <2>2. CASE pc = "claim"
    <3>1. HarvestClaim /\ UNCHANGED held /\ Returned(tx, price) = blnd + accrued
      BY <1>2, <1>3, <2>2 DEF Applied, Returned
    <3> QED BY <1>1, <1>3, <2>2, <3>1, ClaimLands
  <2>3. CASE pc = "swap"
    <3>1. ReinvestViaSoroswap(tx.n, SwapOut(price)) /\ UNCHANGED held
      BY <1>2, <1>3, <2>3 DEF Applied
    <3> QED BY <1>1, <2>1, <2>3, <3>1, SwapLands
  <2>4. CASE pc = "pull"
    <3>1. Pull(Keeper, tx.n) /\ kBlnd' = kBlnd + tx.n /\ UNCHANGED kAsset /\ tx.n = job.claimed
      BY <1>1, <1>2, <1>3, <2>4 DEF Applied, Awaited, Call
    <3> QED BY <1>1, <2>1, <2>4, <3>1, PullLands
  <2>5. CASE pc = "return"
    <3>1. ReturnBlnd(tx.n) /\ kBlnd' = kBlnd - tx.n /\ UNCHANGED kAsset /\ tx.n = job.unsold
      BY <1>1, <1>2, <1>3, <2>5 DEF Applied, Awaited, Call
    <3> QED BY <1>1, <2>1, <2>5, <3>1, ReturnLands
  <2>6. CASE pc = "push"
    <3>1. Deliver(tx.n) /\ kAsset' = kAsset - tx.n /\ UNCHANGED kBlnd /\ tx.n = job.bought
      BY <1>1, <1>2, <1>3, <2>6 DEF Applied, Awaited, Call
    <3> QED BY <1>1, <2>1, <2>6, <3>1, PushLands
  <2>7. CASE pc = "reinvest"
    <3>1. ReinvestViaBroker(tx.n) /\ UNCHANGED held /\ tx.n = job.bought
      BY <1>1, <1>2, <1>3, <2>7 DEF Applied, Awaited, Call
    <3> QED BY <1>1, <2>1, <2>7, <3>1, ReinvestLands
  <2> QED BY <1>1, <2>2, <2>3, <2>4, <2>5, <2>6, <2>7 DEF Awaits
<1>4. CASE /\ ~Succeeds(tx, price) /\ answer' = [status |-> "failed", result |-> 0]
           /\ UNCHANGED <<vars, held>>
  <2>1. CASE pc \in {"claim", "swap"}
    BY <1>1, <1>4, <2>1, FailureIsHarmless
  <2>2. pc # "pull"
    <3> SUFFICES ASSUME pc = "pull" PROVE FALSE
      OBVIOUS
    <3>1. tx = Call("pull", job.claimed) /\ Granted(job.claimed) /\ job.claimed \in Nat
      BY <1>1 DEF Awaited, Smooth, Stage, RIInv, RouterTypeOK, Jobs
    <3> QED BY <1>4, <3>1, PullSucceeds DEF Smooth
  <2>3. pc # "return"
    <3> SUFFICES ASSUME pc = "return" PROVE FALSE
      OBVIOUS
    <3>1. tx = Call("return", job.unsold) /\ kBlnd = OwnBlnd + job.unsold /\ job.unsold \in Nat
      BY <1>1 DEF Awaited, Smooth, Stage, RIInv, RouterTypeOK, Jobs
    <3> QED BY <1>4, <3>1, ReturnSucceeds DEF Smooth
  <2>4. pc # "push"
    <3> SUFFICES ASSUME pc = "push" PROVE FALSE
      OBVIOUS
    <3>1. /\ tx = Call("push", job.bought) /\ kBlnd = OwnBlnd /\ kAsset = OwnAsset + job.bought
          /\ job.bought \in Nat /\ kBlnd >= OwnBlnd
      BY <1>1, RouterConstantsOK DEF Awaited, Smooth, Stage, RIInv, RouterTypeOK, Jobs
    <3> QED BY <1>4, <3>1, PushSucceeds DEF Smooth
  <2>5. pc # "reinvest"
    <3> SUFFICES ASSUME pc = "reinvest" PROVE FALSE
      OBVIOUS
    <3>1. /\ tx = Call("reinvest", job.bought) /\ job.bought \in Nat \ {0} /\ job.unsold \in Nat
          /\ Dealt(job.unsold, job.bought) /\ blnd = job.unsold
          /\ idle = pending.underlying_before + job.bought
      BY <1>1 DEF Awaited, Smooth, Stage, RIInv, RouterTypeOK, Jobs
    <3> QED BY <1>4, <3>1, ReinvestSucceeds DEF Smooth
  <2> QED BY <1>1, <2>1, <2>2, <2>3, <2>4, <2>5 DEF Awaits
<1> QED BY <1>3, <1>4, LandOutcome

\* A fill fetches at least the floor's part of what it sells.
LEMMA FillSmooth ==
  ASSUME NEW max \in Nat, Roomy(max), RIInv, Smooth(max), NEW n \in 1..selling,
         NEW price \in Prices, BrokerFill(n, price)
  PROVE  Smooth(max)'
<1> DEFINE left == kBlnd - OwnBlnd
           got == kAsset - OwnAsset
           made == n * price
<1>1. /\ selling \in Nat /\ n \in Nat /\ n > 0 /\ n <= selling /\ price \in Nat
      /\ kBlnd \in Nat /\ kAsset \in Nat /\ OwnBlnd \in Nat /\ OwnAsset \in Nat
      /\ accrued \in Nat /\ blnd \in Nat /\ idle \in Nat /\ levered \in Nat /\ emitted \in Nat
      /\ job.claimed \in Nat
  BY RouterConstantsOK DEF RIInv, RouterTypeOK, VaultAmounts, Jobs
<1>2. pc = "session"
  BY <1>1 DEF Smooth, InFlight, Awaits
<1>3. /\ Orderly /\ Balanced(max) /\ flying = {} /\ answer = Unanswered
      /\ Away /\ Dealt(left, got) /\ selling <= left
      /\ job.blndBefore = OwnBlnd /\ job.assetBefore = OwnAsset
  BY <1>2 DEF Smooth, Stage, InFlight, Awaits
<1>4. /\ selling' = selling - n /\ kBlnd' = kBlnd - n /\ kAsset' = kAsset + made
      /\ UNCHANGED <<vars, code, flying, emitted>>
  BY DEF BrokerFill
<1>5. made \in Nat
  <2>1. \A x, y \in Nat : x * y \in Nat
    BY Z3
  <2> QED BY <1>1, <2>1
<1>6. Orderly'
  BY <1>3, <1>4 DEF Orderly, vars
<1>7. Balanced(max)'
  <2>1. Sold' = Sold + n /\ Sold \in Int
    BY <1>1, <1>4 DEF Sold, vars
  <2>2. Made' = Made + n * price /\ Made \in Int /\ Made' \in Int
    <3>1. Made' = Made + made /\ Made \in Int /\ Made' \in Int
      <4> HIDE DEF made
      <4> QED BY <1>1, <1>4, <1>5 DEF Made, vars
    <3> QED BY <3>1
  <2>3. emitted' <= MaxEmitted
    BY <1>3, <1>4 DEF Balanced
  <2> QED BY <1>1, <1>3, <2>1, <2>2, <2>3, BalanceKept
<1>8. Dealt(left - n, got + made)
  <2> DEFINE claimed == job.claimed
             floor == pending.floor
  <2>1. /\ Open(claimed) /\ claimed \in Nat /\ floor \in Nat /\ floor <= price * claimed
        /\ left \in 0..claimed /\ got \in Nat /\ got * claimed >= floor * (claimed - left)
    BY <1>1, <1>3 DEF Dealt, Open, Orderly, PendingRecords
  <2>2. left - n \in 0..claimed /\ got + made \in Nat
    <3> HIDE DEF left, got, made, claimed
    <3> QED BY <1>1, <1>3, <1>5, <2>1
  <2>3. (got + made) * claimed >= floor * (claimed - (left - n))
    <3>1. \A x, y, z \in Nat : x <= y => z * x <= z * y
      BY Z3
    <3>2. n * floor <= n * (price * claimed)
      <4>1. price * claimed \in Nat
        BY <1>1, <2>1, Z3
      <4> QED BY <1>1, <2>1, <3>1, <4>1
    <3>3. /\ (got + made) * claimed = got * claimed + n * (price * claimed)
          /\ floor * (claimed - (left - n)) = floor * (claimed - left) + n * floor
      <4>1. \A g, m, q, c \in Int : (g + m * q) * c = g * c + m * (q * c)
        BY Z3
      <4>2. \A f, c, l, m \in Int : f * (c - (l - m)) = f * (c - l) + m * f
        BY Z3
      <4>3. left \in Int
        BY <2>1
      <4> HIDE DEF left, got, claimed, floor
      <4> QED BY <1>1, <2>1, <4>1, <4>2, <4>3
    <3>4. /\ got * claimed \in Int /\ n * (price * claimed) \in Int
          /\ floor * (claimed - left) \in Int /\ n * floor \in Int
      <4>1. \A x, y \in Int : x * y \in Int
        BY Z3
      <4>2. left \in Int /\ claimed - left \in Int /\ price * claimed \in Int
        BY <1>1, <2>1, <4>1
      <4> HIDE DEF left, got, claimed, floor
      <4> QED BY <1>1, <2>1, <4>1, <4>2
    <3> HIDE DEF left, got, made, claimed, floor
    <3> QED BY <2>1, <3>2, <3>3, <3>4
  <2> QED BY <2>1, <2>2, <2>3 DEF Dealt
<1>9. kBlnd' - OwnBlnd = left - n /\ kAsset' - OwnAsset = got + made /\ selling' <= left - n
  <2> HIDE DEF made
  <2> QED BY <1>1, <1>3, <1>4, <1>5
<1>10. InFlight'
  BY <1>2, <1>3, <1>4 DEF InFlight, code, Awaits
<1>11. Dealt(kBlnd - OwnBlnd, kAsset - OwnAsset)'
  <2> HIDE DEF left, got, made
  <2> QED BY <1>4, <1>8, <1>9 DEF Dealt, Open, vars, code
<1>12. Stage'
  <2> HIDE DEF left, got, made
  <2> QED BY <1>2, <1>3, <1>4, <1>9, <1>11 DEF Stage, Away, vars, code
<1> QED BY <1>6, <1>7, <1>10, <1>12 DEF Smooth

\* Time, the admin and the emissions leave what was claimed alone.
LEMMA ElsewhereSmooth ==
  ASSUME NEW max \in Nat, RIInv, Smooth(max), Elsewhere
  PROVE  Smooth(max)'
<1>1. /\ UNCHANGED <<held, code, flying, selling>>
      /\ UNCHANGED <<blnd, idle, levered, pending, allowance>> /\ event' = NoEvent
      /\ swapAccount' \in {swapAccount, Keeper}
      /\ minRate' = minRate \/ minRate' \in Rates
      /\ now' = now \/ (now' = now + 1 /\ now < pending.expiration)
      /\ \/ UNCHANGED <<accrued, emitted>>
         \/ \E n \in 1..MaxEmitted : /\ accrued' = accrued + n
                                     /\ emitted' = emitted + n /\ emitted + n <= MaxEmitted
  BY DEF Elsewhere, Clock, Tick, SetSwapAccount, SetMinHarvestRate, Emission, Emit, config, chain
<1>2. now \in Nat /\ minRate \in Nat /\ accrued \in Nat /\ blnd \in Nat /\ emitted \in Nat
      /\ pending \in PendingRecords /\ Rates \subseteq Nat \ {0}
      /\ kBlnd \in Nat /\ OwnBlnd \in Nat /\ MaxEmitted \in Nat
  BY ConstantsOK, RouterConstantsOK DEF RIInv, VaultAmounts, RouterTypeOK, Smooth, Orderly
<1>3. Orderly'
  BY <1>1, <1>2 DEF Smooth, Orderly, NoEvent
<1>4. Balanced(max)'
  BY <1>1, <1>2 DEF Smooth, Balanced, Sold, Made, held
<1>5. InFlight'
  BY <1>1 DEF Smooth, InFlight, Awaited, code, Awaits
<1>6. \A n : Granted(n) => Open(n) /\ blnd = n /\ idle = pending.underlying_before
           /\ now' <= pending.expiration
           /\ allowance[Keeper] = [amount |-> n, expiration |-> pending.expiration]
  BY <1>1, <1>2 DEF Granted, PendingRecords
<1>7. Stage'
  <2>1. swapAccount = Keeper /\ minRate > 0 => swapAccount' = Keeper /\ minRate' > 0
    <3>1. swapAccount = Keeper => swapAccount' = Keeper
      BY <1>1
    <3>2. \A rate \in Rates : rate > 0
      BY <1>2
    <3>3. minRate > 0 => minRate' > 0
      BY <1>1, <3>2
    <3> QED BY <3>1, <3>3
  <2> QED BY <1>1, <1>6, <2>1 DEF Smooth, Stage, Home, Away, Dealt, Open, Granted, held, code
<1> QED BY <1>3, <1>4, <1>5, <1>7 DEF Smooth

LEMMA InitLossInv ==
  ASSUME NEW max \in Nat, RouterInit
  PROVE  LossInv(max)
<1>1. RIInv
  BY RouterInitRIInv
<1>2. /\ pending = NoPending /\ pc = "rest" /\ answer = Unanswered /\ flying = {} /\ selling = 0
      /\ kBlnd = OwnBlnd /\ kAsset = OwnAsset /\ emitted = 0
      /\ accrued = 0 /\ blnd = 0 /\ idle = 0 /\ levered = 0
  BY DEF RouterInit, Init
<1>3. Orderly
  BY DEF RouterInit, Init, Orderly, NoPending, NoAllowance, NoEvent, PendingRecords
<1>4. Balanced(max)
  <2>1. Sold = 0 /\ Made = 0 /\ MaxEmitted \in Nat
    BY <1>2, RouterConstantsOK DEF Sold, Made
  <2> QED BY <1>2, <2>1 DEF Balanced
<1>5. InFlight /\ Stage
  BY <1>2 DEF InFlight, Stage, Home, NoPending, Awaits
<1> QED BY <1>1, <1>3, <1>4, <1>5 DEF LossInv, Smooth

LEMMA NextSmooth ==
  ASSUME NEW max \in Nat, Roomy(max), FloorsAreFair, RIInv, Smooth(max), [RouterNext]_allVars,
         faults' = 0
  PROVE  Smooth(max)'
<1>1. \A kind : ~Unlucky(kind)
  BY NoFaultYet DEF RIInv
<1>2. ~TimesOut /\ ~Crash
  <2>1. TimesOut => \E tx \in flying : ~tx.old
    BY DEF TimesOut, Smooth, InFlight, Awaited, Call, Awaits
  <2> QED BY <1>1, <2>1 DEF TimesOut, Crash
<1>3. ~SessionCloses /\ \A tx \in flying : ~Lapse(tx)
  BY DEF SessionCloses, Lapse, Smooth, InFlight, Awaited, Call, Awaits
<1>4. CASE RouterStep
  BY <1>2, <1>4, StartPassSmooth, ClaimAnsweredSmooth, DecideSmooth, TradeSmooth,
     PullAnsweredSmooth, TradeEndsSmooth, ReadBlndSmooth, ReadAssetSmooth,
     ReturnAnsweredSmooth, PushAnsweredSmooth, ReinvestAnsweredSmooth, FallbackSmooth,
     SwapAnsweredSmooth
  DEF RouterStep
<1>5. CASE NetworkStep
  BY <1>3, <1>5, LandSmooth DEF NetworkStep
<1>6. CASE BrokerStep
  BY <1>3, <1>6, FillSmooth DEF BrokerStep
<1>7. CASE Elsewhere
  BY <1>7, ElsewhereSmooth
<1>8. CASE UNCHANGED allVars
  <2>1. Orderly' /\ Balanced(max)'
    BY <1>8, StrategyRests DEF allVars, Smooth
  <2>2. InFlight'
    BY <1>8 DEF allVars, code, Smooth, InFlight, Awaited, Awaits
  <2>3. Stage'
    BY <1>8 DEF allVars, vars, held, code, Smooth, Stage, Home, Away, Dealt, Open, Granted
  <2> QED BY <2>1, <2>2, <2>3 DEF Smooth
<1> QED BY <1>2, <1>4, <1>5, <1>6, <1>7, <1>8 DEF RouterNext

\* Things gone wrong are never undone.
LEMMA FaultsStay ==
  ASSUME RIInv, [RouterNext]_allVars, faults' = 0
  PROVE  faults = 0
<1>1. \A kind : ~Unlucky(kind)
  BY NoFaultYet DEF RIInv
<1>2. \A tx, at, j : Submit(tx, at, j) => UNCHANGED faults
  BY <1>1 DEF Submit
<1>3. \A j : Leftover(j) \/ PushProceeds(j) \/ SettleTrade(j) => UNCHANGED faults
  BY <1>2 DEF Leftover, PushProceeds, SettleTrade
<1>4. UNCHANGED faults
  BY <1>1, <1>2, <1>3
  DEF RouterNext, RouterStep, Crash, NetworkStep, BrokerStep, Elsewhere, allVars,
      StartPass, TimesOut, ClaimAnswered, Decide, Trade, PullAnswered, TradeEnds, ReadBlnd,
      ReadAsset, ReturnAnswered, PushAnswered, ReinvestAnswered, Fallback, SwapAnswered,
      Land, Lapse, BrokerFill, SessionCloses
<1> QED BY <1>4

LEMMA NextLossInv ==
  ASSUME NEW max \in Nat, Roomy(max), FloorsAreFair, LossInv(max), [RouterNext]_allVars
  PROVE  LossInv(max)'
<1>1. RIInv'
  BY RouterNextRIInv DEF LossInv
<1>2. ASSUME faults' = 0
      PROVE  Smooth(max)'
  BY <1>2, FaultsStay, NextSmooth DEF LossInv
<1> QED BY <1>1, <1>2 DEF LossInv

\* Partial fills and moving quotes are no reason to lose a claim: as long as
\* nothing goes wrong, whatever the calls, the fills and the ledgers interleave
\* to, nothing of the strategy's stays on the router between passes and each
\* claim is settled before the next one is made.
THEOREM LossOnlyByFaultAlways ==
  ASSUME NEW max \in Nat, Roomy(max), FloorsAreFair
  PROVE  RouterSpec => []LossOnlyByFault
<1>1. RouterInit => LossInv(max)
  BY InitLossInv
<1>2. LossInv(max) /\ [RouterNext]_allVars => LossInv(max)'
  BY NextLossInv
<1>3. LossInv(max) => LossOnlyByFault
  BY DEF LossInv, Smooth, Stage, Home, Orderly, LossOnlyByFault, NeverStranded
<1> QED BY <1>1, <1>2, <1>3, PTL DEF RouterSpec

=============================================================================

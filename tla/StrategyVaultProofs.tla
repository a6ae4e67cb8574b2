------------------------ MODULE StrategyVaultProofs -------------------------
(***************************************************************************)
(* Theorems about StrategyVault, for every number of holders, every        *)
(* configuration, every rate and every scale of the arithmetic: first      *)
(* about its books, then about what its transactions leave of the value of *)
(* the shares of those who take no part in them.                           *)
(***************************************************************************)
EXTENDS StrategyVault, SumProofs

\* The inductive invariant.  The tracked totals stay non-negative only because
\* they are never below the position, and a commit writes the settled position.
IInv == TypeOK /\ LossesArePriced /\ SharesAccounted

-----------------------------------------------------------------------------
(* Arithmetic *)

\* Floor division by a positive number.
LEMMA DivBounds ==
  ASSUME NEW a \in Int, NEW b \in Nat \ {0}
  PROVE  /\ a \div b \in Int
         /\ b * (a \div b) <= a
         /\ a < b * (a \div b) + b
<1>1. a = b * (a \div b) + (a % b) /\ a % b \in 0..(b - 1) /\ a \div b \in Int
  BY Z3
<1> QED BY <1>1

\* A quotient is no larger than what bounds its dividend.
LEMMA DivAtMost ==
  ASSUME NEW a \in Int, NEW b \in Nat \ {0}, NEW k \in Int, a < b * (k + 1)
  PROVE  a \div b <= k
<1>1. a \div b \in Int /\ b * (a \div b) <= a
  BY DivBounds
<1>2. SUFFICES ASSUME a \div b >= k + 1 PROVE FALSE
  BY <1>1
<1>3. \A q \in Int : q >= k + 1 => b * q >= b * (k + 1)
  BY Z3
<1> QED BY <1>1, <1>2, <1>3

\* Withdrawing what s shares are worth burns at most s of them: ceil undoes
\* floor.
LEMMA RoundTrip ==
  ASSUME NEW s \in Nat, NEW equity \in Nat \ {0}, NEW total \in Nat \ {0}
  PROVE  MulCeil(MulFloor(s, equity, total), total, equity) <= s
<1> DEFINE v == (s * equity) \div total
<1>1. s * equity \in Int
  BY Z3
<1>2. v \in Int /\ total * v <= s * equity
  BY <1>1, DivBounds
<1> HIDE DEF v
<1>3. v * total + equity - 1 \in Int /\ v * total = total * v
  BY <1>2, Z3
<1>4. s * equity + equity = equity * (s + 1)
  BY Z3
<1>5. v * total + equity - 1 < equity * (s + 1)
  BY <1>1, <1>2, <1>3, <1>4
<1>6. (v * total + equity - 1) \div equity <= s
  BY <1>3, <1>5, DivAtMost
<1> QED BY <1>6 DEF MulCeil, MulFloor, v

\* A deposit priced at x and taken out at once pays no more than x: floor after
\* floor gains nothing, also on the total the deposit itself has grown.
LEMMA NoRoundTripGain ==
  ASSUME NEW x \in Nat, NEW equity \in Nat \ {0}, NEW total \in Nat \ {0}
  PROVE  MulFloor(MulFloor(x, total, equity), equity + x,
                  total + MulFloor(x, total, equity)) <= x
<1> DEFINE n == (x * total) \div equity
<1>1. x * total \in Nat
  BY Z3
<1>2. n \in Int /\ equity * n <= x * total /\ x * total < equity * n + equity
  BY <1>1, DivBounds
<1>3. n >= 0
  <2>1. SUFFICES ASSUME n <= -1 PROVE FALSE
    BY <1>2
  <2> HIDE DEF n
  <2>2. equity * n <= equity * (-1)
    BY <1>2, <2>1, Z3
  <2> QED BY <1>1, <1>2, <2>2
<1> HIDE DEF n
<1>4. total + n \in Nat \ {0}
  BY <1>2, <1>3
<1>5. n * (equity + x) = equity * n + x * n
  BY <1>2, Z3
<1>6. (total + n) * (x + 1) = x * total + x * n + total + n
  BY <1>2, Z3
<1>7. n * (equity + x) \in Int /\ x * n \in Int
  BY <1>2, Z3
<1>8. n * (equity + x) < (total + n) * (x + 1)
  BY <1>2, <1>3, <1>5, <1>6, <1>7
<1>9. (n * (equity + x)) \div (total + n) <= x
  BY <1>4, <1>7, <1>8, DivAtMost
<1> QED BY <1>9 DEF MulFloor, n

\* A quotient of at least k needs a dividend of at least k divisors.
LEMMA DivAtLeast ==
  ASSUME NEW a \in Int, NEW b \in Nat \ {0}, NEW k \in Int, a \div b >= k
  PROVE  a >= b * k
<1>1. a \div b \in Int /\ b * (a \div b) <= a
  BY DivBounds
<1>2. \A q \in Int : q >= k => b * q >= b * k
  BY Z3
<1>3. b * k \in Int
  BY Z3
<1> QED BY <1>1, <1>2, <1>3

\* A dividend of at least k divisors has a quotient of at least k.
LEMMA DivReaches ==
  ASSUME NEW a \in Int, NEW b \in Nat \ {0}, NEW k \in Int, b * k <= a
  PROVE  a \div b >= k
<1>1. a \div b \in Int /\ a < b * (a \div b) + b
  BY DivBounds
<1>2. SUFFICES ASSUME a \div b <= k - 1 PROVE FALSE
  BY <1>1
<1>3. \A q \in Int : q <= k - 1 => b * q + b <= b * k
  BY Z3
<1> QED BY <1>1, <1>2, <1>3

\* compute_equity of integers is an integer.
LEMMA EquityIsInt ==
  ASSUME NEW p, p.b \in Int, p.d \in Int, NEW r, r.b \in Nat, r.d \in Nat
  PROVE  Equity(p, r) \in Int
<1>1. \A x, y \in Int, z \in Nat \ {0} : (x * y) \div z \in Int
  BY Z3
<1>2. Supply(p, r) \in Int
  BY <1>1, MathConstantsOK DEF Supply, MulFloor
<1>3. Debt(p, r) \in Int
  BY <1>1, MathConstantsOK DEF Debt, MulFloor
<1> QED BY <1>2, <1>3 DEF Equity

-----------------------------------------------------------------------------
(* The invariant *)

\* The accounts are finitely many, and the strategy is none of the holders.
LEMMA AccountsFinite ==
  /\ IsFiniteSet(Accounts)
  /\ Holders \subseteq Accounts /\ Self \in Accounts /\ Self \notin Holders
<1>1. IsFiniteSet(Holders) /\ Self \notin Holders
  BY VaultConstantsOK
<1>2. IsFiniteSet(Holders \cup {Self})
  BY <1>1, FS_AddElement
<1> QED BY <1>1, <1>2 DEF Accounts

\* What all accounts hold moves by what one of them does.
LEMMA HoldingsMove ==
  ASSUME NEW f \in [Accounts -> Int], NEW g \in [Accounts -> Int], NEW h \in Accounts, NEW n \in Int,
         \A a \in Accounts : g[a] = IF a = h THEN f[a] + n ELSE f[a]
  PROVE  SumOver(g, Accounts) = SumOver(f, Accounts) + n
<1>1. IsFiniteSet(Accounts)
  BY AccountsFinite
<1> QED BY <1>1, SumMoves, Zenon

\* A vault nobody has used yet satisfies the invariant.
LEMMA InitIInv == Init => IInv
<1> SUFFICES ASSUME Init PROVE IInv
  OBVIOUS
<1>1. TypeOK /\ LossesArePriced
  BY MathConstantsOK, VaultConstantsOK
  DEF Init, TypeOK, LossesArePriced, Positions, Reconciled, Smaller, Accounts
<1>2. SumOver([a \in Accounts |-> 0], Accounts) = 0
  BY AccountsFinite, SumOfZeros
<1>3. SharesAccounted
  BY <1>2, AccountsFinite DEF Init, SharesAccounted
<1> QED BY <1>1, <1>3 DEF IInv

\* What no step of the shares' books touches keeps them in order.
LEMMA BooksSame == SharesAccounted /\ UNCHANGED <<totalShares, shares, supply, burned, given>> => SharesAccounted'
  BY DEF SharesAccounted

\* When the invariant holds, what a transaction commits is what the pool holds.
LEMMA CommitIsPosition ==
  ASSUME IInv, NEW q, Settled(q) \in Positions, Commit(q), position' = Settled(q)
  PROVE  /\ position' \in Positions
         /\ tracked' \in Positions
         /\ Reconciled' = position'
<1>1. Reconciled = position /\ position \in Positions
  BY DEF IInv, LossesArePriced, TypeOK
<1>2. tracked' = Settled(q)
  BY <1>1 DEF Commit, Plus, Minus, Positions
<1> QED BY <1>2 DEF Reconciled, Smaller, Positions

\* The books balance: the shares counted are no negative number, they are all
\* that any account holds, and with none counted no account holds any.
LEMMA BooksBalance ==
  ASSUME TypeOK, SharesAccounted
  PROVE  /\ totalShares \in Nat /\ supply \in Nat /\ supply <= totalShares
         /\ \A a \in Accounts : shares[a] <= supply
<1>1. shares \in [Accounts -> Nat] /\ burned \in Nat
  BY DEF TypeOK
<1>2. SumOver(shares, Accounts) \in Nat
  BY <1>1, AccountsFinite, SumIsNatural
<1>3. ASSUME NEW a \in Accounts PROVE shares[a] <= SumOver(shares, Accounts)
  BY <1>1, AccountsFinite, TwoWithin
<1> QED BY <1>1, <1>2, <1>3 DEF SharesAccounted

\* No holder has all the shares: the lockup is not his.
LEMMA NobodyHasAll ==
  ASSUME IInv, NEW h \in Holders, totalShares # 0
  PROVE  shares[h] \in Nat /\ shares[h] < totalShares
<1>1. /\ shares \in [Accounts -> Nat] /\ burned \in Nat /\ totalShares = supply + burned
      /\ supply = SumOver(shares, Accounts) /\ given \in Nat /\ shares[Self] = Lockup + given
  BY DEF IInv, TypeOK, SharesAccounted
<1>2. Self \in Accounts /\ h \in Accounts /\ h # Self /\ Lockup \in Nat \ {0} /\ IsFiniteSet(Accounts)
  BY AccountsFinite, VaultConstantsOK DEF Accounts
<1>3. shares[h] + shares[Self] <= SumOver(shares, Accounts) /\ SumOver(shares, Accounts) \in Nat
  BY <1>1, <1>2, TwoWithin, SumIsNatural
<1>4. shares[h] \in Nat
  BY <1>1, <1>2
<1> QED BY <1>1, <1>2, <1>3, <1>4

\* A deposit keeps the invariant: it commits what the pool holds, and mints to
\* the depositor, and once to nobody, what it adds to the supply.
LEMMA DepositKeeps ==
  ASSUME IInv, NEW h \in Holders, NEW n \in Amounts, NEW o \in Others, Deposit(h, n, o)
  PROVE  IInv'
<1> DEFINE loop == LeverageLoop(position, n, rates)
           delta == Minus(Settled(loop), position)
           minted == SharesFor(Equity(delta, rates))
<1>1. Settled(loop) \in Positions /\ Commit(loop) /\ position' = Settled(loop)
  BY DEF Deposit, Accepts
<1>2. position' \in Positions /\ tracked' \in Positions /\ Reconciled' = position'
  BY <1>1, CommitIsPosition
<1>3. /\ Lockup \in Nat /\ Unit12 \in Nat \ {0}
      /\ rates.b \in Nat /\ rates.d \in Nat
      /\ totalShares \in Int /\ supply \in Int /\ shares \in [Accounts -> Nat]
      /\ h \in Accounts /\ Self \in Accounts
  BY MathConstantsOK, VaultConstantsOK DEF IInv, TypeOK, Accounts
<1>4. position \in Positions /\ Reconciled = position
  BY DEF IInv, TypeOK, LossesArePriced
<1>5. delta.b \in Int /\ delta.d \in Int
  BY <1>1, <1>4 DEF Minus, Positions
<1>6. Equity(delta, rates) \in Int
  <2> HIDE DEF delta
  <2> QED BY <1>3, <1>5, EquityIsInt
<1>7. Equity(Reconciled, rates) \in Int
  BY <1>3, <1>4, EquityIsInt DEF Positions
<1>8. minted \in Int
  <2>1. \A x, y \in Int, z \in Nat \ {0} : MulFloor(x, y, z) \in Int
    BY Z3 DEF MulFloor
  <2> HIDE DEF delta
  <2> QED BY <1>3, <1>6, <1>7, <2>1 DEF SharesFor, UnderlyingToShares
<1>9. LockedOf \in Nat
  BY <1>3 DEF LockedOf
<1>10. /\ minted > LockedOf
       /\ totalShares' = totalShares + minted
       /\ supply' = supply + minted
       /\ shares' = [shares EXCEPT ![h] = @ + minted - LockedOf, ![Self] = @ + LockedOf]
       /\ steps' = steps + 1
       /\ UNCHANGED <<rates, risk, now, lastRebalance, lastReleverage, burned, given>>
  BY DEF Deposit, Mint, Counted, market, cooldowns
<1> HIDE DEF minted
<1>11. totalShares' \in Int /\ supply' \in Int /\ shares' \in [Accounts -> Nat]
  BY <1>3, <1>8, <1>9, <1>10
<1>12. SumOver(shares', Accounts) = SumOver(shares, Accounts) + minted
  <2> DEFINE locked == LockedOf
             credit == minted - locked
             mid == [shares EXCEPT ![h] = @ + credit]
  <2>1. h # Self /\ credit \in Nat /\ credit \in Int /\ locked \in Int /\ minted = credit + locked
    BY <1>8, <1>9, <1>10, AccountsFinite
  <2>2. /\ mid \in [Accounts -> Int] /\ shares \in [Accounts -> Int] /\ shares' \in [Accounts -> Int]
        /\ \A a \in Accounts : mid[a] = IF a = h THEN shares[a] + credit ELSE shares[a]
        /\ \A a \in Accounts : shares'[a] = IF a = Self THEN mid[a] + locked ELSE mid[a]
    BY <1>3, <1>8, <1>9, <1>10, <1>11, <2>1
  <2> HIDE DEF mid, credit, locked
  <2>3. h \in Accounts /\ Self \in Accounts /\ credit \in Int /\ locked \in Int
    BY <1>3, <2>1
  <2>4. SumOver(mid, Accounts) = SumOver(shares, Accounts) + credit
    BY <2>2, <2>3, HoldingsMove, ZenonT(30)
  <2>5. SumOver(shares', Accounts) = SumOver(mid, Accounts) + locked
    BY <2>2, <2>3, HoldingsMove, ZenonT(30)
  <2>6. SumOver(shares, Accounts) \in Int
    BY <2>2, AccountsFinite, SumIsInteger
  <2> QED BY <2>1, <2>4, <2>5, <2>6
<1>13. SharesAccounted
  BY DEF IInv
<1>14. shares'[Self] = Lockup + given
  <2>1. shares'[Self] = shares[Self] + LockedOf
    BY <1>3, <1>10, AccountsFinite
  <2>2. CASE totalShares = 0
    <3>1. shares[Self] = given /\ given \in Nat
      BY <1>13, <2>2 DEF IInv, TypeOK, SharesAccounted
    <3> QED BY <1>3, <2>1, <2>2, <3>1 DEF LockedOf
  <2>3. CASE totalShares # 0
    <3>1. shares[Self] = Lockup + given /\ given \in Nat
      BY <1>13, <2>3 DEF IInv, TypeOK, SharesAccounted
    <3> QED BY <1>3, <2>1, <2>3, <3>1 DEF LockedOf
  <2> QED BY <2>2, <2>3
<1>15. SharesAccounted'
  <2>1. totalShares' # 0
    BY <1>3, <1>8, <1>9, <1>10, BooksBalance DEF IInv
  <2> QED BY <1>3, <1>8, <1>10, <1>12, <1>13, <1>14, <2>1 DEF IInv, TypeOK, SharesAccounted
<1> QED BY <1>2, <1>10, <1>11, <1>15 DEF IInv, TypeOK, LossesArePriced

\* So does a withdrawal, which burns from the caller.
LEMMA WithdrawKeeps ==
  ASSUME IInv, NEW h \in Holders, NEW amount \in Int, Withdraw(h, amount)
  PROVE  IInv'
<1> DEFINE n == SharesToBurn(amount)
           q == UnwindOf(n)
<1>1. Settled(q) \in Positions /\ Commit(q) /\ position' = Settled(q)
  BY DEF Withdraw, Accepts
<1>2. position' \in Positions /\ tracked' \in Positions /\ Reconciled' = position'
  BY <1>1, CommitIsPosition
<1>3. totalShares \in Int /\ supply \in Int /\ shares \in [Accounts -> Nat] /\ h \in Accounts
  BY DEF IInv, TypeOK, Accounts
<1>4. Equity(Reconciled, rates) \in Nat \ {0}
  <2>1. /\ Unit12 \in Nat \ {0} /\ rates.b \in Nat /\ rates.d \in Nat
        /\ position.b \in Nat /\ position.d \in Nat /\ Reconciled = position
    BY MathConstantsOK DEF IInv, TypeOK, LossesArePriced, Positions
  <2>2. Equity(Reconciled, rates) \in Int
    BY <2>1, EquityIsInt
  <2> QED BY <2>2 DEF Withdraw
<1>5. n \in Int
  <2>1. \A x, y \in Int, z \in Nat \ {0} : MulCeil(x, y, z) \in Int
    BY Z3 DEF MulCeil
  <2> QED BY <1>3, <1>4, <2>1 DEF SharesToBurn
<1>6. /\ n <= shares[h]
      /\ totalShares' = totalShares - n
      /\ supply' = supply - n
      /\ shares' = [shares EXCEPT ![h] = @ - n]
      /\ steps' = steps + 1
      /\ UNCHANGED <<rates, risk, now, lastRebalance, lastReleverage, burned, given>>
  BY DEF Withdraw, Counted, market, cooldowns
<1> HIDE DEF n
<1>7. totalShares' \in Int /\ supply' \in Int /\ shares' \in [Accounts -> Nat]
  BY <1>3, <1>5, <1>6
<1>8. SumOver(shares, Accounts) = SumOver(shares', Accounts) + n
  <2>1. /\ shares \in [Accounts -> Int] /\ shares' \in [Accounts -> Int]
        /\ \A a \in Accounts : shares[a] = IF a = h THEN shares'[a] + n ELSE shares'[a]
    BY <1>3, <1>5, <1>6, <1>7
  <2> QED BY <1>3, <1>5, <2>1, HoldingsMove
<1>9. SumOver(shares', Accounts) \in Int /\ SharesAccounted
  <2>1. shares' \in [Accounts -> Int]
    BY <1>7
  <2> QED BY <2>1, AccountsFinite, SumIsInteger DEF IInv
<1>10. shares'[Self] = (IF totalShares' = 0 THEN 0 ELSE Lockup) + given
  <2>1. shares'[Self] = shares[Self] /\ shares[h] <= totalShares /\ totalShares \in Nat
    BY <1>3, <1>6, <1>9, AccountsFinite, BooksBalance DEF IInv
  <2>2. totalShares # 0
    <3>1. ASSUME totalShares = 0 PROVE FALSE
      <4>1. Balance(h) = 0 /\ shares[h] = 0
        BY <1>3, <2>1, <3>1 DEF Balance, SharesToUnderlying, IInv, TypeOK
      <4> QED BY <4>1 DEF Withdraw
    <3> QED BY <3>1
  <2>3. totalShares' # 0
    BY <1>3, <1>5, <1>6, <2>2, NobodyHasAll
  <2> QED BY <1>9, <2>1, <2>2, <2>3 DEF SharesAccounted
<1>11. SharesAccounted'
  BY <1>3, <1>5, <1>6, <1>8, <1>9, <1>10 DEF IInv, TypeOK, SharesAccounted
<1> QED BY <1>2, <1>6, <1>7, <1>11 DEF IInv, TypeOK, LossesArePriced

\* An unwind, whoever asked for it, and at whatever target.
LEMMA UnwindKeeps ==
  ASSUME IInv, NEW t, UnwindTo(t), lastRebalance' \in {lastRebalance, now}
  PROVE  IInv'
<1> DEFINE q == Deleveraged(position, UnwindLoops(position, rates, risk.l, t), rates)
<1>1. Settled(q) \in Positions /\ Commit(q) /\ position' = Settled(q)
  BY DEF UnwindTo
<1>2. position' \in Positions /\ tracked' \in Positions /\ Reconciled' = position'
  BY <1>1, CommitIsPosition
<1>3. /\ steps' = steps + 1
      /\ UNCHANGED <<rates, risk, now, totalShares, shares, supply, burned, given, lastReleverage>>
  BY DEF UnwindTo, Counted, market, ledger
<1> QED BY <1>2, <1>3, BooksSame DEF IInv, TypeOK, LossesArePriced

\* So does a harvest, which moves no share.
LEMMA HarvestKeeps ==
  ASSUME IInv, NEW n \in Amounts, Harvest(n)
  PROVE  IInv'
<1> DEFINE q == LeverageLoop(position, n, rates)
<1>1. Settled(q) \in Positions /\ Commit(q) /\ position' = Settled(q)
  BY DEF Harvest, Accepts
<1>2. position' \in Positions /\ tracked' \in Positions /\ Reconciled' = position'
  BY <1>1, CommitIsPosition
<1>3. /\ steps' = steps + 1
      /\ UNCHANGED <<rates, risk, now, totalShares, shares, supply, burned, given, lastRebalance, lastReleverage>>
  BY DEF Harvest, Counted, market, ledger, cooldowns
<1> QED BY <1>2, <1>3, BooksSame DEF IInv, TypeOK, LossesArePriced

\* So does a re-leverage.
LEMMA ReleverageKeeps ==
  ASSUME IInv, NEW o \in Others, Releverage(o)
  PROVE  IInv'
<1> DEFINE q == Releveraged(position, ComputeReleverage(position, rates, risk.l, ReleverageTarget), rates)
<1>1. Settled(q) \in Positions /\ Commit(q) /\ position' = Settled(q)
  BY DEF Releverage, Accepts
<1>2. position' \in Positions /\ tracked' \in Positions /\ Reconciled' = position'
  BY <1>1, CommitIsPosition
<1>3. /\ steps' = steps + 1 /\ lastReleverage' = now
      /\ UNCHANGED <<rates, risk, now, totalShares, shares, supply, burned, given, lastRebalance>>
  BY DEF Releverage, Counted, market, ledger
<1> QED BY <1>2, <1>3, BooksSame DEF IInv, TypeOK, LossesArePriced

\* What moves only the position, and only down, leaves the tracked totals above
\* it.
LEMMA SeizureKeeps ==
  ASSUME IInv, position' \in Positions,
         position'.b <= position.b, position'.d <= position.d,
         steps' = steps + 1,
         UNCHANGED <<rates, risk, tracked, totalShares, shares, supply, burned, given, now,
                     lastRebalance, lastReleverage>>
  PROVE  IInv'
<1>1. /\ position \in Positions /\ tracked \in Positions
      /\ position.b <= tracked.b /\ position.d <= tracked.d
  BY DEF IInv, TypeOK, LossesArePriced, Reconciled, Smaller, Positions
<1>2. Reconciled' = position'
  BY <1>1 DEF Reconciled, Smaller, Positions
<1> QED BY <1>2, BooksSame DEF IInv, TypeOK, LossesArePriced

\* So does whatever a holder does.
LEMMA HolderStepKeeps == IInv /\ HolderStep => IInv'
<1> SUFFICES ASSUME IInv, HolderStep PROVE IInv'
  OBVIOUS
<1>1. CASE \E h \in Holders, n \in Amounts, o \in Others : Deposit(h, n, o)
  BY <1>1, DepositKeeps
<1>2. CASE \E h \in Holders : \E n \in (Amounts \cup {Balance(h)}) \cap (Nat \ {0}) : Withdraw(h, n)
  BY <1>2, WithdrawKeeps
<1>3. CASE \E h \in Holders, k \in Accounts, n \in Amounts : h # k /\ Transfer(h, k, n)
  <2>1. PICK h \in Holders, k \in Accounts, n \in Amounts : h # k /\ Transfer(h, k, n)
    BY <1>3
  <2>2. n \in Nat /\ n <= shares[h] /\ h \in Accounts /\ k \in Accounts
        /\ shares \in [Accounts -> Nat]
    BY <2>1, VaultConstantsOK DEF Transfer, IInv, TypeOK, Accounts
  <2>3. shares' \in [Accounts -> Nat]
    BY <2>1, <2>2 DEF Transfer
  <2>4. SumOver(shares', Accounts) = SumOver(shares, Accounts)
    <3> DEFINE mid == [shares EXCEPT ![h] = @ - n]
    <3>1. /\ mid \in [Accounts -> Int] /\ shares \in [Accounts -> Int] /\ shares' \in [Accounts -> Int]
          /\ \A a \in Accounts : shares[a] = IF a = h THEN mid[a] + n ELSE mid[a]
          /\ \A a \in Accounts : shares'[a] = IF a = k THEN mid[a] + n ELSE mid[a]
          /\ n \in Int
      BY <2>1, <2>2, <2>3 DEF Transfer
    <3> HIDE DEF mid
    <3>2. SumOver(shares, Accounts) = SumOver(mid, Accounts) + n
      BY <2>2, <3>1, HoldingsMove
    <3>3. SumOver(shares', Accounts) = SumOver(mid, Accounts) + n
      BY <2>2, <3>1, HoldingsMove
    <3> QED BY <3>2, <3>3
  <2>5. shares'[Self] - given' = shares[Self] - given /\ given' \in Nat
    BY <2>1, <2>2, AccountsFinite DEF Transfer, IInv, TypeOK
  <2>6. SharesAccounted'
    BY <2>1, <2>2, <2>3, <2>4, <2>5, AccountsFinite, VaultConstantsOK DEF Transfer, IInv, TypeOK, SharesAccounted
  <2> QED BY <2>1, <2>3, <2>5, <2>6
      DEF Transfer, IInv, TypeOK, LossesArePriced, Reconciled, Counted, market, cooldowns
<1>4. CASE \E h \in Holders, n \in Amounts : Burn(h, n)
  <2>1. PICK h \in Holders, n \in Amounts : Burn(h, n)
    BY <1>4
  <2>2. n \in Nat /\ n <= shares[h] /\ h \in Accounts /\ shares \in [Accounts -> Nat]
    BY <2>1, VaultConstantsOK DEF Burn, IInv, TypeOK, Accounts
  <2>3. shares' \in [Accounts -> Nat]
    BY <2>1, <2>2 DEF Burn
  <2>4. /\ shares \in [Accounts -> Int] /\ shares' \in [Accounts -> Int] /\ n \in Int
        /\ \A a \in Accounts : shares[a] = IF a = h THEN shares'[a] + n ELSE shares'[a]
    BY <2>1, <2>2, <2>3 DEF Burn
  <2>5. /\ SumOver(shares, Accounts) = SumOver(shares', Accounts) + n
        /\ SumOver(shares', Accounts) \in Int
        /\ shares'[Self] = shares[Self]
    <3>1. SumOver(shares, Accounts) = SumOver(shares', Accounts) + n
      BY <2>2, <2>4, HoldingsMove
    <3>2. SumOver(shares', Accounts) \in Int
      BY <2>4, AccountsFinite, SumIsInteger
    <3>3. shares'[Self] = shares[Self]
      BY <2>1, <2>2, AccountsFinite DEF Burn
    <3> QED BY <3>1, <3>2, <3>3
  <2>6. SharesAccounted'
    BY <2>1, <2>2, <2>4, <2>5 DEF Burn, IInv, TypeOK, SharesAccounted
  <2> QED BY <2>1, <2>2, <2>3, <2>6
      DEF Burn, IInv, TypeOK, LossesArePriced, Reconciled, Counted, market, cooldowns
<1> QED BY <1>1, <1>2, <1>3, <1>4 DEF HolderStep

\* So does whatever a keeper does.
LEMMA KeeperStepKeeps == IInv /\ KeeperStep => IInv'
<1> SUFFICES ASSUME IInv, KeeperStep PROVE IInv'
  OBVIOUS
<1>1. CASE \E n \in Amounts : Harvest(n)
  BY <1>1, HarvestKeeps
<1>2. CASE Rebalance
  BY <1>2, UnwindKeeps DEF Rebalance
<1>3. CASE RebalanceKeeper
  BY <1>3, UnwindKeeps DEF RebalanceKeeper
<1>4. CASE \E k \in BOOLEAN, t \in Targets : PartialUnwind(k, t)
  BY <1>4, UnwindKeeps DEF PartialUnwind
<1>5. CASE \E o \in Others : Releverage(o)
  BY <1>5, ReleverageKeeps
<1>6. CASE SyncReserves
  BY <1>6 DEF SyncReserves, Counted, market, ledger, cooldowns,
              IInv, TypeOK, LossesArePriced, SharesAccounted, Reconciled, Smaller, Positions
<1> QED BY <1>1, <1>2, <1>3, <1>4, <1>5, <1>6 DEF KeeperStep

\* So does whatever happens to the pool.
LEMMA PoolStepKeeps == IInv /\ PoolStep => IInv'
<1> SUFFICES ASSUME IInv, PoolStep PROVE IInv'
  OBVIOUS
<1>1. CASE \E r \in RatesSeen : Accrue(r)
  BY <1>1, VaultConstantsOK
  DEF Accrue, Counted, ledger, cooldowns, IInv, TypeOK, LossesArePriced, SharesAccounted, Reconciled
<1>2. CASE \E part \in 1..2 : Seize(part)
  <2>1. PICK part \in 1..2 : Seize(part)
    BY <1>2
  <2>2. position.b \in Nat /\ position.d \in Nat
    BY DEF IInv, TypeOK, Positions
  <2>3. \A x \in Nat : x \div part \in 0..x
    BY <2>1, Z3
  <2>4. position' \in Positions /\ position'.b <= position.b /\ position'.d <= position.d
    BY <2>1, <2>2, <2>3 DEF Seize, Positions
  <2> QED BY <2>1, <2>4, SeizureKeeps DEF Seize, Counted, market, ledger, cooldowns
<1>3. CASE \E n \in Amounts : RepayForVault(n)
  <2>1. PICK n \in Amounts : RepayForVault(n)
    BY <1>3
  <2>2. position' \in Positions /\ position'.b <= position.b /\ position'.d <= position.d
    BY <2>1 DEF RepayForVault, IInv, TypeOK, Positions
  <2> QED BY <2>1, <2>2, SeizureKeeps DEF RepayForVault, Counted, market, ledger, cooldowns
<1>4. CASE \E r \in Risks : SetRisk(r)
  BY <1>4 DEF SetRisk, Counted, ledger, cooldowns, IInv, TypeOK, LossesArePriced, SharesAccounted, Reconciled
<1> QED BY <1>1, <1>2, <1>3, <1>4 DEF PoolStep

\* The invariant is inductive.
LEMMA NextIInv == IInv /\ [Next]_vars => IInv'
<1>1. IInv /\ UNCHANGED vars => IInv'
  BY DEF vars, IInv, TypeOK, LossesArePriced, SharesAccounted, Reconciled
<1> QED BY <1>1, HolderStepKeeps, KeeperStepKeeps, PoolStepKeeps DEF Next

\* The invariant holds of every reachable state.
LEMMA InvariantHolds == Spec => []IInv
  BY InitIInv, NextIInv, PTL DEF Spec

-----------------------------------------------------------------------------
(* The theorems about the books *)

\* No tracked total, balance or position of the vault is ever negative: the
\* saturating subtractions of commit_withdraw and deleverage never bite.
THEOREM VaultTypeCorrect == Spec => []TypeOK
<1>1. IInv => TypeOK
  BY DEF IInv
<1> QED BY <1>1, InvariantHolds, PTL

\* Shares are always priced on the position the pool holds (reconcile), so a
\* seizure or a write-off is shared by all holders from the moment it happens.
THEOREM LossesArePricedAlways == Spec => []LossesArePriced
<1>1. IInv => LossesArePriced
  BY DEF IInv
<1> QED BY <1>1, InvariantHolds, PTL

\* total_shares exceeds the token's supply by exactly what holders burned.
THEOREM SharesAccountedAlways == Spec => []SharesAccounted
<1>1. IInv => SharesAccounted
  BY DEF IInv
<1> QED BY <1>1, InvariantHolds, PTL

\* Whatever balance() quotes can be asked of withdraw, which never finds that
\* the holder has too few shares for it: ceil undoes floor.
THEOREM ExitIsCoveredAlways == Spec => []ExitIsCovered
<1>1. IInv => ExitIsCovered
  <2> SUFFICES ASSUME IInv, NEW h \in Holders, Balance(h) > 0
               PROVE  SharesToBurn(Balance(h)) <= shares[h]
    BY DEF ExitIsCovered
  <2>1. /\ Unit12 \in Nat \ {0} /\ rates.b \in Nat /\ rates.d \in Nat
        /\ position.b \in Nat /\ position.d \in Nat /\ Reconciled = position
        /\ shares[h] \in Nat /\ totalShares \in Int
    BY MathConstantsOK DEF IInv, TypeOK, LossesArePriced, Positions, Accounts
  <2>2. Equity(Reconciled, rates) \in Int
    BY <2>1, EquityIsInt
  <2>3. Equity(Reconciled, rates) \in Nat \ {0} /\ totalShares \in Nat \ {0}
    BY <2>1, <2>2, BooksBalance DEF IInv, Balance, SharesToUnderlying
  <2>4. Balance(h) = MulFloor(shares[h], Equity(Reconciled, rates), totalShares)
    BY <2>3 DEF Balance, SharesToUnderlying
  <2> QED BY <2>1, <2>3, <2>4, RoundTrip DEF SharesToBurn
<1> QED BY <1>1, InvariantHolds, PTL

\* What a health factor of at least x says of the collateral and the debt.
LEMMA HfMeans ==
  ASSUME IInv, NEW x \in Nat, Hf(position) >= x
  PROVE  LET s == Supply(position, rates)
             d == Debt(position, rates)
         IN /\ s \in Nat /\ d \in Nat /\ d * Unit7 \in Nat
            /\ (s * CFactor) * risk.l \in Nat
            /\ (s * CFactor) * risk.l >= x * (d * Unit7)
<1> DEFINE s == Supply(position, rates)
           d == Debt(position, rates)
<1>1. /\ Unit12 \in Nat \ {0} /\ Unit7 \in Nat \ {0} /\ CFactor \in Nat
      /\ rates.b \in Nat /\ rates.d \in Nat /\ position.b \in Nat /\ position.d \in Nat
      /\ risk.l \in Nat
  BY MathConstantsOK, VaultConstantsOK DEF IInv, TypeOK, Positions
<1>2. s \in Nat /\ d \in Nat
  <2>1. \A a, b \in Nat, z \in Nat \ {0} : MulFloor(a, b, z) \in Nat
    BY Z3 DEF MulFloor
  <2> QED BY <1>1, <2>1 DEF Supply, Debt
<1>3. Hf(position) = IF d = 0 THEN Infinite ELSE (((s * CFactor) * risk.l) \div Unit7) \div d
  BY DEF Hf, HealthFactor, MulFloor
<1> HIDE DEF s, d
<1>4. (s * CFactor) * risk.l \in Nat /\ d * Unit7 \in Nat
  BY <1>1, <1>2, Z3
<1>5. (s * CFactor) * risk.l >= x * (d * Unit7)
  <2>1. CASE d = 0
    <3>1. x * (0 * Unit7) = 0
      BY <1>1
    <3> QED BY <1>4, <2>1, <3>1
  <2>2. CASE d # 0
    <3> DEFINE v == ((s * CFactor) * risk.l) \div Unit7
    <3>1. v \div d >= x
      BY <1>3, <2>2
    <3>2. v \in Int /\ d \in Nat \ {0} /\ x \in Int
      BY <1>1, <1>2, <1>4, <2>2, DivBounds
    <3>3. v >= d * x
      <4> HIDE DEF v
      <4> QED BY <3>1, <3>2, DivAtLeast
    <3>4. d * x \in Int
      BY <1>2, Z3
    <3>5. (s * CFactor) * risk.l >= Unit7 * (d * x)
      BY <1>1, <1>4, <3>3, <3>4, DivAtLeast
    <3>6. Unit7 * (d * x) = x * (d * Unit7)
      BY <1>1, <1>2, Z3
    <3> QED BY <3>5, <3>6
  <2> QED BY <2>1, <2>2
<1> QED BY <1>2, <1>4, <1>5 DEF s, d

-----------------------------------------------------------------------------
(* Steps of a recursive function *)

\* What holds at 0 and of i whenever it holds of i - 1 holds up to n.
LEMMA EveryStep ==
  ASSUME NEW n \in Nat, NEW K, 0 \in K, \A i \in 1..n : i - 1 \in K => i \in K
  PROVE  \A i \in 0..n : i \in K
<1> DEFINE T == {i \in 0..n : i \notin K}
<1>1. SUFFICES ASSUME T # {} PROVE FALSE
  OBVIOUS
<1>2. PICK m \in T : \A i \in T : ~(<<i, m>> \in OpToRel(<, Nat))
  <2>1. T \subseteq Nat
    OBVIOUS
  <2> HIDE DEF T
  <2> QED BY <1>1, <2>1, NatLessThanWellFounded, WFMin
<1>3. m \in 1..n /\ m \notin K
  <2>1. m \in 0..n /\ m \notin K
    OBVIOUS
  <2>2. m # 0
    BY <2>1
  <2> HIDE DEF T
  <2> QED BY <2>1, <2>2
<1>4. m - 1 \in T
  BY <1>3
<1>5. <<m - 1, m>> \in OpToRel(<, Nat)
  BY <1>3 DEF OpToRel
<1> QED BY <1>2, <1>4, <1>5

\* n steps of G from a, all at once, as a function.
Steps(n, Q, a, G) ==
  \E f \in [0..n -> Q] : f[0] = a /\ \A i \in 1..n : f[i] = G[<<i, f[i - 1]>>]

\* A function that starts at a and takes n steps of G exists.
LEMMA StepsExist ==
  ASSUME NEW n \in Nat, NEW Q, NEW a \in Q, NEW G \in [(1..n) \X Q -> Q]
  PROVE  Steps(n, Q, a, G)
<1> DEFINE UpTo(f, m) == f[0] = a /\ \A i \in 1..m : f[i] = G[<<i, f[i - 1]>>]
           K == {m \in 0..n : \E f \in [0..n -> Q] : UpTo(f, m)}
<1>1. 0 \in K
  <2> DEFINE g == [i \in 0..n |-> a]
  <2>1. g \in [0..n -> Q] /\ UpTo(g, 0)
    OBVIOUS
  <2> HIDE DEF g, UpTo
  <2> QED BY <2>1
<1>2. ASSUME NEW m \in 1..n, m - 1 \in K PROVE m \in K
  <2>1. PICK f \in [0..n -> Q] : UpTo(f, m - 1)
    BY <1>2
  <2> DEFINE g == [i \in 0..n |-> IF i = m THEN G[<<m, f[m - 1]>>] ELSE f[i]]
  <2>2. f[m - 1] \in Q /\ G[<<m, f[m - 1]>>] \in Q
    OBVIOUS
  <2>3. g \in [0..n -> Q]
    BY <2>2
  <2>4. g[0] = a
    BY <2>1
  <2>5. ASSUME NEW i \in 1..m PROVE g[i] = G[<<i, g[i - 1]>>]
    <3>1. g[i - 1] = f[i - 1]
      OBVIOUS
    <3>2. CASE i = m
      <4>1. g[i] = G[<<i, f[i - 1]>>]
        BY <3>2
      <4> HIDE DEF g
      <4> QED BY <3>1, <4>1
    <3>3. CASE i # m
      <4>1. i \in 1..(m - 1) /\ g[i] = f[i]
        BY <3>3
      <4>2. f[i] = G[<<i, f[i - 1]>>]
        BY <2>1, <4>1
      <4> HIDE DEF g
      <4> QED BY <3>1, <4>1, <4>2
    <3> QED BY <3>2, <3>3
  <2>6. UpTo(g, m)
    BY <2>4, <2>5
  <2> HIDE DEF g, UpTo
  <2> QED BY <2>3, <2>6
<1>3. n \in K
  <2>1. \A i \in 0..n : i \in K
    <3> HIDE DEF K
    <3> QED BY <1>1, <1>2, EveryStep
  <2> QED BY <2>1
<1> QED BY <1>3 DEF Steps

-----------------------------------------------------------------------------
(* The requests the pool settles, and what they cost *)

\* fixed_mul_floor and fixed_mul_ceil are off by less than one divisor.
LEMMA MulFloorBounds ==
  ASSUME NEW x \in Int, NEW y \in Int, NEW z \in Nat \ {0}
  PROVE  /\ MulFloor(x, y, z) \in Int
         /\ MulFloor(x, y, z) * z <= x * y
         /\ x * y < MulFloor(x, y, z) * z + z
<1> DEFINE a == x * y
           v == a \div z
<1>1. a \in Int
  BY Z3
<1>2. v \in Int /\ z * v <= a /\ a < z * v + z
  <2> HIDE DEF a
  <2> QED BY <1>1, DivBounds
<1> HIDE DEF v
<1>3. z * v = v * z
  BY <1>2, Z3
<1>4. MulFloor(x, y, z) = v
  BY DEF MulFloor, v
<1> HIDE DEF a
<1>5. v * z \in Int
  BY <1>2, Z3
<1>6. v \in Int /\ v * z <= a /\ a < v * z + z
  BY <1>1, <1>2, <1>3, <1>5
<1> QED BY <1>4, <1>6 DEF a

\* What mul_ceil rounds away is less than one unit of the quotient.
LEMMA MulCeilBounds ==
  ASSUME NEW x \in Int, NEW y \in Int, NEW z \in Nat \ {0}
  PROVE  /\ MulCeil(x, y, z) \in Int
         /\ x * y <= MulCeil(x, y, z) * z
         /\ MulCeil(x, y, z) * z < x * y + z
<1> DEFINE a == x * y
           v == (a + z - 1) \div z
<1>1. a \in Int
  BY Z3
<1>2. v \in Int /\ z * v <= a + z - 1 /\ a + z - 1 < z * v + z
  <2> HIDE DEF a
  <2>1. a + z - 1 \in Int
    BY <1>1
  <2> QED BY <2>1, DivBounds
<1> HIDE DEF v
<1>3. z * v = v * z /\ v * z \in Int
  BY <1>2, Z3
<1>4. MulCeil(x, y, z) = v
  BY DEF MulCeil, v
<1> HIDE DEF a
<1>5. a <= v * z /\ v * z < a + z
  BY <1>1, <1>2, <1>3
<1> QED BY <1>2, <1>4, <1>5 DEF a

\* The position between two requests, with what they have paid out so far; and
\* what it is worth, in Unit12ths of the underlying, without rounding.
Running == [b : Int, d : Int, cash : Int]
PoolRates == [b : Nat \ {0}, d : Nat \ {0}]
Worth(q, r) == q.b * r.b - q.d * r.d + q.cash * Unit12

\* A request that exchanges tokens of a kind for cash changes the worth by the
\* difference of the two.
LEMMA WorthMoves ==
  ASSUME NEW q \in Running, NEW n \in Running, NEW r \in PoolRates,
         NEW b \in Int, NEW d \in Int, NEW c \in Int,
         n.b = q.b + b, n.d = q.d + d, n.cash = q.cash + c
  PROVE  /\ Worth(q, r) \in Int /\ Worth(n, r) \in Int
         /\ b * r.b \in Int /\ d * r.d \in Int /\ c * Unit12 \in Int
         /\ Worth(n, r) = Worth(q, r) + b * r.b - d * r.d + c * Unit12
<1>1. /\ q.b \in Int /\ q.d \in Int /\ q.cash \in Int
      /\ r.b \in Int /\ r.d \in Int /\ Unit12 \in Int
  BY MathConstantsOK DEF Running, PoolRates
<1>2. \A x, y, z \in Int : (x + y) * z = x * z + y * z /\ x * z \in Int
  BY Z3
<1>3. /\ n.b * r.b = q.b * r.b + b * r.b /\ q.b * r.b \in Int /\ b * r.b \in Int
      /\ n.d * r.d = q.d * r.d + d * r.d /\ q.d * r.d \in Int /\ d * r.d \in Int
      /\ n.cash * Unit12 = q.cash * Unit12 + c * Unit12 /\ q.cash * Unit12 \in Int /\ c * Unit12 \in Int
  BY <1>1, <1>2
<1>4. \A a1, a2, a3, b1, b2, b3 \in Int :
         (a1 + b1) - (a2 + b2) + (a3 + b3) = (a1 - a2 + a3) + b1 - b2 + b3
  OBVIOUS
<1>5. Worth(n, r) = Worth(q, r) + b * r.b - d * r.d + c * Unit12
  BY <1>3, <1>4 DEF Worth
<1>6. Worth(q, r) \in Int
  BY <1>3 DEF Worth
<1> QED BY <1>3, <1>5, <1>6

\* The kinds of the numbers a request is computed from.
LEMMA UnitsAreInts == /\ Unit12 \in Nat \ {0} /\ Unit12 \in Int
                      /\ \A q \in Running : q.b \in Int /\ q.d \in Int /\ q.cash \in Int
                      /\ \A r \in PoolRates : r.b \in Nat \ {0} /\ r.d \in Nat \ {0}
  BY MathConstantsOK DEF Running, PoolRates

\* What each request does to the position and to its worth: the pool keeps less
\* than one token.
LEMMA SupplyCosts ==
  ASSUME NEW q \in Running, NEW r \in PoolRates, NEW a \in Int,
         NEW n, n = SupplyRequest(q, a, r)
  PROVE  /\ n \in Running
         /\ n.d = q.d /\ n.cash = q.cash - a
         /\ Worth(q, r) \in Int /\ Worth(n, r) \in Int
         /\ Worth(n, r) > Worth(q, r) - r.b
<1> DEFINE x == MulFloor(a, Unit12, r.b)
<1>1. x \in Int /\ a * Unit12 < x * r.b + r.b
  BY UnitsAreInts, MulFloorBounds
<1>2. n = [q EXCEPT !.b = @ + x, !.cash = @ - a]
  BY DEF SupplyRequest
<1> HIDE DEF x
<1>3. n \in Running /\ n.b = q.b + x /\ n.d = q.d /\ n.cash = q.cash - a
  <2> DEFINE u == q.b + x
             v2 == q.cash - a
  <2>1. u \in Int /\ v2 \in Int
    BY <1>1, UnitsAreInts
  <2>2. n = [q EXCEPT !.b = u, !.cash = v2]
    BY <1>2
  <2> HIDE DEF u, v2
  <2>3. n \in Running /\ n.b = u /\ n.d = q.d /\ n.cash = v2
    BY <2>1, <2>2 DEF Running
  <2> QED BY <2>3 DEF u, v2
<1>4. n.d = q.d + 0 /\ n.cash = q.cash + (-a)
  BY <1>3, UnitsAreInts
<1>5. /\ Worth(q, r) \in Int /\ Worth(n, r) \in Int
      /\ x * r.b \in Int
      /\ Worth(n, r) = Worth(q, r) + x * r.b - 0 * r.d + (-a) * Unit12
  BY <1>1, <1>3, <1>4, WorthMoves
<1>6. 0 * r.d = 0 /\ (-a) * Unit12 = -(a * Unit12) /\ a * Unit12 \in Int
  BY UnitsAreInts, Z3
<1> QED BY <1>1, <1>3, <1>5, <1>6, UnitsAreInts

\* A borrowing, rounded up to whole debt tokens, costs less than one of them.
LEMMA BorrowCosts ==
  ASSUME NEW q \in Running, NEW r \in PoolRates, NEW a \in Int,
         NEW n, n = BorrowRequest(q, a, r)
  PROVE  /\ n \in Running
         /\ n.cash = q.cash + a
         /\ Worth(q, r) \in Int /\ Worth(n, r) \in Int
         /\ Worth(n, r) > Worth(q, r) - r.d
<1> DEFINE x == MulCeil(a, Unit12, r.d)
<1>1. x \in Int /\ x * r.d < a * Unit12 + r.d
  BY UnitsAreInts, MulCeilBounds
<1>2. n = [q EXCEPT !.d = @ + x, !.cash = @ + a]
  BY DEF BorrowRequest
<1> HIDE DEF x
<1>3. n \in Running /\ n.b = q.b /\ n.d = q.d + x /\ n.cash = q.cash + a
  <2> DEFINE u == q.d + x
             v2 == q.cash + a
  <2>1. u \in Int /\ v2 \in Int
    BY <1>1, UnitsAreInts
  <2>2. n = [q EXCEPT !.d = u, !.cash = v2]
    BY <1>2
  <2> HIDE DEF u, v2
  <2>3. n \in Running /\ n.b = q.b /\ n.d = u /\ n.cash = v2
    BY <2>1, <2>2 DEF Running
  <2> QED BY <2>3 DEF u, v2
<1>4. n.b = q.b + 0
  BY <1>3, UnitsAreInts
<1>5. /\ Worth(q, r) \in Int /\ Worth(n, r) \in Int
      /\ x * r.d \in Int /\ a * Unit12 \in Int
      /\ Worth(n, r) = Worth(q, r) + 0 * r.b - x * r.d + a * Unit12
  BY <1>1, <1>3, <1>4, WorthMoves
<1>6. 0 * r.b = 0
  BY UnitsAreInts, Z3
<1> QED BY <1>1, <1>3, <1>5, <1>6, UnitsAreInts

\* A withdrawal pays no more than was asked, also where the collateral does not
\* cover it.
LEMMA WithdrawCosts ==
  ASSUME NEW q \in Running, NEW r \in PoolRates, r.b >= Unit12, NEW a \in Int,
         NEW n, n = WithdrawRequest(q, a, r)
  PROVE  /\ n \in Running
         /\ n.d = q.d /\ n.cash <= q.cash + a
         /\ Worth(q, r) \in Int /\ Worth(n, r) \in Int
         /\ Worth(n, r) > Worth(q, r) - r.b
<1> DEFINE x == MulCeil(a, Unit12, r.b)
           v == MulFloor(q.b, r.b, Unit12)
<1>1. x \in Int /\ a * Unit12 <= x * r.b /\ x * r.b < a * Unit12 + r.b
  BY UnitsAreInts, MulCeilBounds
<1>2. v \in Int /\ v * Unit12 <= q.b * r.b /\ q.b * r.b < v * Unit12 + Unit12
  <2>1. r.b \in Int
    BY UnitsAreInts
  <2> QED BY <2>1, UnitsAreInts, MulFloorBounds
<1>3. n = IF x > q.b THEN [q EXCEPT !.b = 0, !.cash = @ + v]
          ELSE [q EXCEPT !.b = @ - x, !.cash = @ + a]
  BY DEF WithdrawRequest
<1> HIDE DEF x, v
<1>4. CASE x > q.b
  <2>1. n \in Running /\ n.b = 0 /\ n.d = q.d /\ n.cash = q.cash + v
    <3> DEFINE u == 0
               v2 == q.cash + v
    <3>1. u \in Int /\ v2 \in Int
      BY <1>2, UnitsAreInts
    <3>2. n = [q EXCEPT !.b = u, !.cash = v2]
      BY <1>3, <1>4
    <3> HIDE DEF u, v2
    <3>3. n \in Running /\ n.b = u /\ n.d = q.d /\ n.cash = v2
      BY <3>1, <3>2 DEF Running
    <3> QED BY <3>3 DEF u, v2
  <2>2. n.b = q.b + (-q.b) /\ n.d = q.d + 0
    BY <2>1, UnitsAreInts
  <2>3. -q.b \in Int
    BY UnitsAreInts
  <2>4. /\ Worth(q, r) \in Int /\ Worth(n, r) \in Int
        /\ v * Unit12 \in Int
        /\ Worth(n, r) = Worth(q, r) + (-q.b) * r.b - 0 * r.d + v * Unit12
    BY <1>2, <2>1, <2>2, <2>3, WorthMoves
  <2>5. 0 * r.d = 0 /\ (-q.b) * r.b = -(q.b * r.b) /\ q.b * r.b \in Int
    BY UnitsAreInts, Z3
  <2>6. Worth(n, r) > Worth(q, r) - r.b
    BY <1>2, <2>4, <2>5, UnitsAreInts
  <2>7. v <= a
    <3>1. \A s, t \in Int, z \in Nat \ {0} : s <= t - 1 => s * z <= t * z - z
      BY Z3
    <3>2. q.b * r.b <= x * r.b - r.b /\ x * r.b \in Int
      <4>1. q.b <= x - 1
        BY <1>1, <1>4, UnitsAreInts
      <4>2. x * r.b \in Int
        BY <1>1, UnitsAreInts, Z3
      <4> QED BY <1>1, <3>1, <4>1, <4>2, UnitsAreInts
    <3>3. a * Unit12 \in Int
      BY UnitsAreInts, Z3
    <3>4. v * Unit12 < a * Unit12
      BY <1>1, <1>2, <2>4, <2>5, <3>2, <3>3, UnitsAreInts
    <3>5. \A s, t \in Int, z \in Nat \ {0} : s * z < t * z => s <= t
      BY Z3
    <3> QED BY <1>2, <3>4, <3>5, UnitsAreInts
  <2> QED BY <1>2, <2>1, <2>4, <2>6, <2>7, UnitsAreInts
<1>5. CASE ~(x > q.b)
  <2>1. n \in Running /\ n.b = q.b - x /\ n.d = q.d /\ n.cash = q.cash + a
    <3> DEFINE u == q.b - x
               v2 == q.cash + a
    <3>1. u \in Int /\ v2 \in Int
      BY <1>1, UnitsAreInts
    <3>2. n = [q EXCEPT !.b = u, !.cash = v2]
      BY <1>3, <1>5
    <3> HIDE DEF u, v2
    <3>3. n \in Running /\ n.b = u /\ n.d = q.d /\ n.cash = v2
      BY <3>1, <3>2 DEF Running
    <3> QED BY <3>3 DEF u, v2
  <2>2. n.b = q.b + (-x) /\ n.d = q.d + 0 /\ -x \in Int
    BY <1>1, <2>1, UnitsAreInts
  <2>3. /\ Worth(q, r) \in Int /\ Worth(n, r) \in Int
        /\ a * Unit12 \in Int
        /\ Worth(n, r) = Worth(q, r) + (-x) * r.b - 0 * r.d + a * Unit12
    BY <2>1, <2>2, WorthMoves
  <2>4. 0 * r.d = 0 /\ (-x) * r.b = -(x * r.b) /\ x * r.b \in Int
    BY <1>1, UnitsAreInts, Z3
  <2>5. Worth(n, r) > Worth(q, r) - r.b
    BY <1>1, <2>3, <2>4, UnitsAreInts
  <2> QED BY <2>1, <2>3, <2>5, UnitsAreInts
<1> QED BY <1>4, <1>5

\* A repayment the debt covers is taken as it is.
LEMMA RepayCosts ==
  ASSUME NEW q \in Running, NEW r \in PoolRates, NEW a \in Nat,
         a * Unit12 <= q.d * r.d,
         NEW n, n = RepayRequest(q, a, r)
  PROVE  /\ n \in Running
         /\ n.d <= q.d /\ n.cash = q.cash - a
         /\ n.d * r.d \in Int /\ n.d * r.d >= q.d * r.d - a * Unit12
         /\ Worth(q, r) \in Int /\ Worth(n, r) \in Int
         /\ Worth(n, r) > Worth(q, r) - r.d
<1> DEFINE x == MulFloor(a, Unit12, r.d)
<1>1. x \in Int /\ x * r.d <= a * Unit12 /\ a * Unit12 < x * r.d + r.d
  <2>1. a \in Int
    OBVIOUS
  <2> QED BY <2>1, UnitsAreInts, MulFloorBounds
<1>2. n = IF x > q.d THEN RepayAllRequest(q, r) ELSE [q EXCEPT !.d = @ - x, !.cash = @ - a]
  BY DEF RepayRequest
<1> HIDE DEF x
<1>3. a * Unit12 \in Nat /\ x * r.d \in Int /\ q.d * r.d \in Int /\ r.d \in Nat \ {0} /\ q.d \in Int
  <2>1. r.d \in Nat \ {0} /\ q.d \in Int
    BY UnitsAreInts
  <2> QED BY <1>1, <2>1, UnitsAreInts, Z3
<1>4. ~(x > q.d) /\ x >= 0
  <2>1. \A s, t \in Int, z \in Nat \ {0} : s * z <= t * z => s <= t
    BY Z3
  <2>2. x * r.d <= q.d * r.d
    BY <1>1, <1>3
  <2>3. \A s \in Int, z \in Nat \ {0} : s * z + z > 0 => s >= 0
    BY Z3
  <2>4. x * r.d + r.d > 0
    BY <1>1, <1>3
  <2> QED BY <1>1, <1>3, <2>1, <2>2, <2>3, <2>4
<1>5. n \in Running /\ n.b = q.b /\ n.d = q.d - x /\ n.cash = q.cash - a
  <2> DEFINE u == q.d - x
             v2 == q.cash - a
  <2>1. u \in Int /\ v2 \in Int
    BY <1>1, UnitsAreInts
  <2>2. n = [q EXCEPT !.d = u, !.cash = v2]
    BY <1>2, <1>4
  <2> HIDE DEF u, v2
  <2>3. n \in Running /\ n.b = q.b /\ n.d = u /\ n.cash = v2
    BY <2>1, <2>2 DEF Running
  <2> QED BY <2>3 DEF u, v2
<1>6. n.b = q.b + 0 /\ n.d = q.d + (-x) /\ n.cash = q.cash + (-a) /\ -x \in Int
  BY <1>1, <1>5, UnitsAreInts
<1>7. /\ Worth(q, r) \in Int /\ Worth(n, r) \in Int
      /\ Worth(n, r) = Worth(q, r) + 0 * r.b - (-x) * r.d + (-a) * Unit12
  BY <1>5, <1>6, WorthMoves
<1>8. /\ 0 * r.b = 0 /\ (-x) * r.d = -(x * r.d) /\ (-a) * Unit12 = -(a * Unit12)
      /\ (q.d - x) * r.d = q.d * r.d - x * r.d
  BY <1>1, <1>3, UnitsAreInts, Z3
<1>9. n.d * r.d = q.d * r.d - x * r.d
  BY <1>5, <1>8
<1>10. Worth(n, r) > Worth(q, r) - r.d
  BY <1>1, <1>3, <1>7, <1>8
<1> QED BY <1>1, <1>3, <1>4, <1>5, <1>7, <1>9, <1>10, UnitsAreInts

\* A withdrawal and the repayment it funds leave no cash, and take a token of
\* each kind at most.
LEMMA PairCosts ==
  ASSUME NEW q \in Running, NEW r \in PoolRates, r.b >= Unit12, NEW a \in Nat,
         a * Unit12 <= q.d * r.d,
         NEW n, n = RepayRequest(WithdrawRequest(q, a, r), a, r)
  PROVE  /\ n \in Running
         /\ n.d <= q.d /\ n.cash <= q.cash
         /\ n.d * r.d \in Int /\ n.d * r.d >= q.d * r.d - a * Unit12
         /\ Worth(q, r) \in Int /\ Worth(n, r) \in Int
         /\ Worth(n, r) + (r.b + r.d) >= Worth(q, r)
<1> DEFINE w == WithdrawRequest(q, a, r)
<1>0. a \in Int
  OBVIOUS
<1>1. /\ w \in Running
      /\ w.d = q.d /\ w.cash <= q.cash + a
      /\ Worth(q, r) \in Int /\ Worth(w, r) \in Int
      /\ Worth(w, r) > Worth(q, r) - r.b
  BY <1>0, WithdrawCosts
<1>2. n = RepayRequest(w, a, r)
  OBVIOUS
<1> HIDE DEF w
<1>3. a * Unit12 <= w.d * r.d
  BY <1>1
<1>4. /\ n \in Running
      /\ n.d <= w.d /\ n.cash = w.cash - a
      /\ n.d * r.d \in Int /\ n.d * r.d >= w.d * r.d - a * Unit12
      /\ Worth(n, r) \in Int
      /\ Worth(n, r) > Worth(w, r) - r.d
  BY <1>1, <1>2, <1>3, RepayCosts
<1>5. n.cash <= q.cash
  BY <1>1, <1>4, UnitsAreInts
<1>6. Worth(n, r) + (r.b + r.d) >= Worth(q, r)
  BY <1>1, <1>4, UnitsAreInts
<1> QED BY <1>1, <1>4, <1>5, <1>6

\* compute_equity rounds both sides down: it is off the worth by less than one,
\* and not at all while a token of either kind is worth exactly one.
Rounding(r) == IF r.b = Unit12 /\ r.d = Unit12 THEN 0 ELSE Unit12

\* Nothing is rounded off a multiple.
LEMMA FloorOfMultiple ==
  ASSUME NEW x \in Int, NEW z \in Nat \ {0}
  PROVE  MulFloor(x, z, z) = x
<1>1. MulFloor(x, z, z) \in Int /\ MulFloor(x, z, z) * z <= x * z /\ x * z < MulFloor(x, z, z) * z + z
  <2>1. z \in Int
    OBVIOUS
  <2> QED BY <2>1, MulFloorBounds
<1>2. \A s, t \in Int : s * z <= t * z => s <= t
  BY Z3
<1>3. \A s, t \in Int : t * z < s * z + z => t <= s
  BY Z3
<1> QED BY <1>1, <1>2, <1>3

\* The equity of a position is its worth, up to the rounding.
LEMMA EquityIsWorth ==
  ASSUME NEW p, p.b \in Int, p.d \in Int, NEW r \in PoolRates
  PROVE  /\ Equity(p, r) \in Int
         /\ p.b * r.b - p.d * r.d \in Int /\ Equity(p, r) * Unit12 \in Int
         /\ Equity(p, r) * Unit12 <= p.b * r.b - p.d * r.d + Rounding(r)
         /\ Equity(p, r) * Unit12 >= p.b * r.b - p.d * r.d - Rounding(r)
<1> DEFINE s == MulFloor(p.b, r.b, Unit12)
           d == MulFloor(p.d, r.d, Unit12)
<1>1. r.b \in Int /\ r.d \in Int
  BY UnitsAreInts
<1>2. /\ s \in Int /\ s * Unit12 <= p.b * r.b /\ p.b * r.b < s * Unit12 + Unit12
      /\ d \in Int /\ d * Unit12 <= p.d * r.d /\ p.d * r.d < d * Unit12 + Unit12
  BY <1>1, UnitsAreInts, MulFloorBounds
<1>3. r.b = Unit12 /\ r.d = Unit12 => s = p.b /\ d = p.d
  BY UnitsAreInts, FloorOfMultiple
<1>4. Equity(p, r) = s - d
  BY DEF Equity, Supply, Debt
<1> HIDE DEF s, d
<1>5. /\ (s - d) * Unit12 = s * Unit12 - d * Unit12
      /\ s * Unit12 \in Int /\ d * Unit12 \in Int
      /\ p.b * r.b \in Int /\ p.d * r.d \in Int
  BY <1>1, <1>2, UnitsAreInts, Z3
<1>6. CASE r.b = Unit12 /\ r.d = Unit12
  <2>1. s * Unit12 = p.b * r.b /\ d * Unit12 = p.d * r.d
    BY <1>3, <1>6
  <2> QED BY <1>2, <1>4, <1>5, <1>6, <2>1 DEF Rounding
<1>7. CASE ~(r.b = Unit12 /\ r.d = Unit12)
  BY <1>2, <1>4, <1>5, <1>7, UnitsAreInts DEF Rounding
<1> QED BY <1>6, <1>7

\* One pair of tokens covers three roundings.
PairOf(r) == MulCeil(r.b + r.d, 1, Unit12)

\* It does, at rates that are not below par.
LEMMA PairCovers ==
  ASSUME NEW r \in PoolRates, r.b >= Unit12, r.d >= Unit12
  PROVE  /\ PairOf(r) \in Nat \ {0} /\ PairOf(r) * Unit12 \in Int
         /\ r.b + r.d <= PairOf(r) * Unit12
         /\ Rounding(r) \in Nat /\ 3 * Rounding(r) <= PairOf(r) * Unit12
<1> DEFINE P == PairOf(r)
<1>1. r.b + r.d \in Int /\ (r.b + r.d) * 1 = r.b + r.d /\ Unit12 \in Nat \ {0} /\ 1 \in Int
  BY UnitsAreInts
<1>2. P \in Int /\ r.b + r.d <= P * Unit12
  <2>1. P \in Int /\ (r.b + r.d) * 1 <= P * Unit12
    BY <1>1, MulCeilBounds DEF PairOf
  <2> HIDE DEF P
  <2> QED BY <1>1, <2>1
<1> HIDE DEF P
<1>3. P * Unit12 \in Int
  BY <1>1, <1>2, Z3
<1>4. \A x \in Int, k \in Int, z \in Nat \ {0} : x * z > k * z => x >= k + 1
  BY Z3
<1>5. P * Unit12 > 0 * Unit12
  BY <1>1, <1>2, <1>3, UnitsAreInts
<1>6. P >= 1
  BY <1>1, <1>2, <1>4, <1>5
<1>7. CASE r.b = Unit12 /\ r.d = Unit12
  BY <1>1, <1>2, <1>3, <1>6, <1>7, UnitsAreInts DEF Rounding, P
<1>8. CASE ~(r.b = Unit12 /\ r.d = Unit12)
  <2>1. P * Unit12 > 2 * Unit12
    BY <1>2, <1>3, <1>8, UnitsAreInts
  <2>2. P >= 3
    BY <1>1, <1>2, <1>4, <2>1
  <2>3. \A x \in Int, z \in Nat \ {0} : x >= 3 => x * z >= 3 * z
    BY Z3
  <2>4. P * Unit12 >= 3 * Unit12
    BY <1>1, <1>2, <2>2, <2>3
  <2> QED BY <1>1, <1>2, <1>3, <1>6, <1>8, <2>4, UnitsAreInts DEF Rounding, P
<1> QED BY <1>7, <1>8

-----------------------------------------------------------------------------
(* Levering up *)

\* What a loop over i rounds is worth falls by at most a pair of tokens a round.
LEMMA LossPerStep ==
  ASSUME NEW n \in Nat, NEW k \in Int, NEW z \in Int, NEW f \in [0..n -> Int],
         f[0] + k >= z,
         \A i \in 1..n : f[i] + k >= f[i - 1]
  PROVE  \A i \in 0..n : f[i] + (i + 1) * k >= z
<1> DEFINE K == {i \in 0..n : f[i] + (i + 1) * k >= z}
<1>1. 0 \in K
  <2>1. (0 + 1) * k = k
    OBVIOUS
  <2> QED BY <2>1
<1>2. ASSUME NEW i \in 1..n, i - 1 \in K PROVE i \in K
  <2>1. i \in Int /\ f[i] \in Int /\ f[i - 1] \in Int /\ i \in 0..n
    OBVIOUS
  <2>2. f[i - 1] + ((i - 1) + 1) * k >= z /\ f[i] + k >= f[i - 1]
    BY <1>2
  <2>3. ((i - 1) + 1) * k \in Int /\ (i + 1) * k = ((i - 1) + 1) * k + k
    BY <2>1, Z3
  <2>4. f[i] + (i + 1) * k >= z
    BY <2>1, <2>2, <2>3
  <2> QED BY <2>1, <2>4
<1> HIDE DEF K
<1>3. \A i \in 0..n : i \in K
  BY <1>1, <1>2, EveryStep
<1> QED BY <1>3 DEF K

\* A loop has at least one layer.
LEMMA LoopsAreNat == TargetLoops \in Nat /\ TargetLoops >= 1 /\ 0 \in 0..TargetLoops
  BY MathConstantsOK

\* compute_step
LayersFrom(a, f) ==
  f = [i \in 0..TargetLoops |-> IF i = 0 THEN a ELSE MulFloor(f[i - 1], CFactor, Unit7)]

\* The layers of compute_step exist, and are integers.
LEMMA LayersAre ==
  ASSUME NEW a \in Int
  PROVE  /\ LayersFrom(a, Layers(a))
         /\ \A i \in 0..TargetLoops : Layers(a)[i] \in Int
         /\ Layers(a)[0] = a
<1>1. CFactor \in Int /\ Unit7 \in Nat \ {0}
  BY MathConstantsOK
<1>2. \A x \in Int : MulFloor(x, CFactor, Unit7) \in Int
  BY <1>1, MulFloorBounds
<1> DEFINE G == [x \in (1..TargetLoops) \X Int |-> MulFloor(x[2], CFactor, Unit7)]
<1>3. G \in [(1..TargetLoops) \X Int -> Int]
  BY <1>2
<1>4. PICK f \in [0..TargetLoops -> Int] :
        f[0] = a /\ \A i \in 1..TargetLoops : f[i] = G[<<i, f[i - 1]>>]
  <2> HIDE DEF G
  <2>1. TargetLoops \in Nat
    BY LoopsAreNat
  <2>2. Steps(TargetLoops, Int, a, G)
    BY <1>3, <2>1, StepsExist
  <2> QED BY <2>2 DEF Steps
<1>5. ASSUME NEW i \in 1..TargetLoops PROVE f[i] = MulFloor(f[i - 1], CFactor, Unit7)
  <2> HIDE DEF G
  <2>1. i - 1 \in 0..TargetLoops
    BY LoopsAreNat
  <2>2. f[i - 1] \in Int /\ f[i] = G[<<i, f[i - 1]>>]
    BY <1>4, <2>1
  <2> USE DEF G
  <2> QED BY <2>2
<1> HIDE DEF G
<1>6. LayersFrom(a, f)
  <2>1. \A i \in 0..TargetLoops : i # 0 => i \in 1..TargetLoops
    BY LoopsAreNat
  <2> QED BY <1>4, <1>5, <2>1 DEF LayersFrom
<1>7. Layers(a) = CHOOSE g : LayersFrom(a, g)
  BY DEF Layers, LayersFrom
<1>8. LayersFrom(a, Layers(a))
  BY <1>6, <1>7
<1> DEFINE K == {i \in 0..TargetLoops : Layers(a)[i] \in Int}
<1>9. Layers(a)[0] = a
  BY <1>8, LoopsAreNat DEF LayersFrom
<1>10. ASSUME NEW i \in 1..TargetLoops, i - 1 \in K PROVE i \in K
  <2>1. Layers(a)[i] = MulFloor(Layers(a)[i - 1], CFactor, Unit7) /\ i \in 0..TargetLoops
    BY <1>8, LoopsAreNat DEF LayersFrom
  <2> QED BY <1>2, <1>10, <2>1
<1>11. 0 \in K
  BY <1>9, LoopsAreNat
<1>12. \A i \in 0..TargetLoops : i \in K
  <2> HIDE DEF K
  <2> QED BY <1>10, <1>11, LoopsAreNat, EveryStep
<1> QED BY <1>8, <1>9, <1>12

\* submit_leverage_loop, from the layers of the loop.
LoopFrom(p, a, r, f) ==
  f = [i \in 0..TargetLoops |->
         LET before == IF i = 0 THEN Ask(p) ELSE BorrowRequest(f[i - 1], Layers(a)[i], r)
         IN SupplyRequest(before, Layers(a)[i], r)]

\* Before its first request a list has paid out nothing.
LEMMA AskIsRunning ==
  ASSUME NEW p \in Positions, NEW r \in PoolRates
  PROVE  /\ Ask(p) \in Running /\ Ask(p).b = p.b /\ Ask(p).d = p.d /\ Ask(p).cash = 0
         /\ p.b * r.b - p.d * r.d \in Int
         /\ Worth(Ask(p), r) = p.b * r.b - p.d * r.d
<1>1. p.b \in Nat /\ p.d \in Nat
  BY DEF Positions
<1>2. Ask(p) \in Running /\ Ask(p).b = p.b /\ Ask(p).d = p.d /\ Ask(p).cash = 0
  BY <1>1 DEF Ask, Running
<1>3. p.b * r.b \in Int /\ p.d * r.d \in Int /\ 0 * Unit12 = 0
  BY <1>1, UnitsAreInts, Z3
<1> QED BY <1>2, <1>3 DEF Worth

\* A leverage loop takes the amount it is given, and costs a pair of tokens per
\* layer.
LEMMA LoopCosts ==
  ASSUME NEW p \in Positions, NEW a \in Int, NEW r \in PoolRates,
         NEW q, q = LeverageLoop(p, a, r)
  PROVE  /\ q \in Running /\ q.cash = -a
         /\ Worth(q, r) \in Int
         /\ Worth(q, r) + (TargetLoops + 1) * (r.b + r.d) >= p.b * r.b - p.d * r.d
<1> DEFINE Q == {s \in Running : s.cash = -a}
           First == SupplyRequest(Ask(p), Layers(a)[0], r)
           Step(i, s) == SupplyRequest(BorrowRequest(s, Layers(a)[i], r), Layers(a)[i], r)
           k == r.b + r.d
           W == p.b * r.b - p.d * r.d
<1>0. /\ r.b \in Nat \ {0} /\ r.d \in Nat \ {0} /\ k \in Int /\ W \in Int
      /\ Ask(p) \in Running /\ Ask(p).cash = 0 /\ Worth(Ask(p), r) = W
  BY UnitsAreInts, AskIsRunning
<1>1. \A i \in 0..TargetLoops : Layers(a)[i] \in Int
  BY LayersAre
<1>2. First \in Q /\ Worth(First, r) \in Int /\ Worth(First, r) + k >= W
  <2>1. First = SupplyRequest(Ask(p), a, r)
    BY LayersAre
  <2> HIDE DEF First
  <2>0. Ask(p) \in Running
    BY <1>0
  <2>2. /\ First \in Running /\ First.cash = Ask(p).cash - a
        /\ Worth(First, r) \in Int /\ Worth(First, r) > Worth(Ask(p), r) - r.b
    BY <2>0, <2>1, SupplyCosts
  <2>3. 0 - a = -a
    OBVIOUS
  <2> HIDE DEF First, W
  <2> QED BY <1>0, <2>2, <2>3
<1>3. ASSUME NEW i \in 1..TargetLoops, NEW s \in Q
      PROVE  /\ Step(i, s) \in Q
             /\ Worth(s, r) \in Int /\ Worth(Step(i, s), r) \in Int
             /\ Worth(Step(i, s), r) + k >= Worth(s, r)
  <2> DEFINE b == BorrowRequest(s, Layers(a)[i], r)
             n == SupplyRequest(b, Layers(a)[i], r)
  <2>1. Layers(a)[i] \in Int
    BY <1>1, LoopsAreNat
  <2>2. /\ b \in Running /\ b.cash = s.cash + Layers(a)[i]
        /\ Worth(s, r) \in Int /\ Worth(b, r) \in Int /\ Worth(b, r) > Worth(s, r) - r.d
    BY <2>1, BorrowCosts
  <2>7. n = SupplyRequest(b, Layers(a)[i], r)
    OBVIOUS
  <2> HIDE DEF b, n
  <2>3. /\ n \in Running /\ n.cash = b.cash - Layers(a)[i]
        /\ Worth(n, r) \in Int /\ Worth(n, r) > Worth(b, r) - r.b
    <3>1. b \in Running
      BY <2>2
    <3> QED BY <2>1, <2>7, <3>1, SupplyCosts
  <2>4. n.cash = -a
    BY <2>1, <2>2, <2>3
  <2>5. Worth(n, r) + k >= Worth(s, r)
    BY <1>0, <2>2, <2>3
  <2>6. Step(i, s) = n
    BY DEF n, b
  <2> HIDE DEF Step, k
  <2> QED BY <2>2, <2>3, <2>4, <2>5, <2>6
<1> HIDE DEF Q, First, Step, k, W
<1> DEFINE G == [x \in (1..TargetLoops) \X Q |-> Step(x[1], x[2])]
<1>4. G \in [(1..TargetLoops) \X Q -> Q]
  BY <1>3
<1>5. PICK f \in [0..TargetLoops -> Q] :
        f[0] = First /\ \A i \in 1..TargetLoops : f[i] = G[<<i, f[i - 1]>>]
  <2> HIDE DEF G
  <2>1. TargetLoops \in Nat /\ First \in Q
    BY <1>2, LoopsAreNat
  <2>2. Steps(TargetLoops, Q, First, G)
    BY <1>4, <2>1, StepsExist
  <2> QED BY <2>2 DEF Steps
<1>6. ASSUME NEW i \in 1..TargetLoops PROVE f[i] = Step(i, f[i - 1])
  <2> HIDE DEF G
  <2>1. i - 1 \in 0..TargetLoops
    BY LoopsAreNat
  <2>2. f[i - 1] \in Q /\ f[i] = G[<<i, f[i - 1]>>]
    BY <1>5, <2>1
  <2> USE DEF G
  <2> QED BY <2>2
<1> HIDE DEF G
<1>7. LoopFrom(p, a, r, f)
  <2>1. \A i \in 0..TargetLoops : i # 0 => i \in 1..TargetLoops
    BY LoopsAreNat
  <2> QED BY <1>5, <1>6, <2>1 DEF LoopFrom, First, Step
<1> DEFINE g == CHOOSE h : LoopFrom(p, a, r, h)
<1>8. q = g[TargetLoops]
  BY DEF LeverageLoop, LoopFrom
<1>9. LoopFrom(p, a, r, g)
  BY <1>7
<1> HIDE DEF g
<1>10. g[0] = First /\ \A i \in 1..TargetLoops : g[i] = Step(i, g[i - 1])
  BY <1>9, LoopsAreNat DEF LoopFrom, First, Step
<1>11. \A i \in 0..TargetLoops : g[i] \in Q
  <2> DEFINE K == {i \in 0..TargetLoops : g[i] \in Q}
  <2>1. 0 \in K
    BY <1>2, <1>10, LoopsAreNat
  <2>2. ASSUME NEW i \in 1..TargetLoops, i - 1 \in K PROVE i \in K
    <3>1. i \in 0..TargetLoops
      OBVIOUS
    <3> QED BY <1>3, <1>10, <2>2, <3>1
  <2> HIDE DEF K
  <2>3. \A i \in 0..TargetLoops : i \in K
    BY <2>1, <2>2, LoopsAreNat, EveryStep
  <2> QED BY <2>3 DEF K
<1> DEFINE w == [i \in 0..TargetLoops |-> Worth(g[i], r)]
<1>12. w \in [0..TargetLoops -> Int]
  <2>1. \A s \in Q : Worth(s, r) \in Int
    BY <1>3, LoopsAreNat
  <2> QED BY <1>11, <2>1
<1>13. w[0] + k >= W /\ \A i \in 1..TargetLoops : w[i] + k >= w[i - 1]
  <2>1. w[0] = Worth(First, r)
    BY <1>10, LoopsAreNat
  <2>2. ASSUME NEW i \in 1..TargetLoops PROVE w[i] + k >= w[i - 1]
    <3>1. i - 1 \in 0..TargetLoops /\ i \in 0..TargetLoops
      BY LoopsAreNat
    <3>2. w[i] = Worth(Step(i, g[i - 1]), r) /\ w[i - 1] = Worth(g[i - 1], r)
      BY <1>10, <3>1
    <3>3. g[i - 1] \in Q
      BY <1>11, <3>1
    <3> HIDE DEF w
    <3> QED BY <1>3, <3>2, <3>3
  <2> HIDE DEF w
  <2> QED BY <1>2, <2>1, <2>2
<1>14. \A i \in 0..TargetLoops : w[i] + (i + 1) * k >= W
  <2> HIDE DEF w
  <2> QED BY <1>0, <1>12, <1>13, LoopsAreNat, LossPerStep
<1>15. TargetLoops \in 0..TargetLoops /\ w[TargetLoops] = Worth(q, r)
  BY <1>8, LoopsAreNat
<1>16. Worth(q, r) \in Int /\ Worth(q, r) + (TargetLoops + 1) * k >= W
  <2> HIDE DEF w
  <2>1. w[TargetLoops] \in Int
    BY <1>12, <1>15
  <2> QED BY <1>14, <1>15, <2>1
<1>17. q \in Q
  BY <1>8, <1>11, <1>15
<1> QED BY <1>16, <1>17 DEF Q, k, W

\* Layers of a natural amount are natural.
LEMMA LayersAreNat ==
  ASSUME NEW a \in Nat
  PROVE  \A i \in 0..TargetLoops : Layers(a)[i] \in Nat
<1> DEFINE K == {i \in 0..TargetLoops : Layers(a)[i] \in Nat}
<1>1. LayersFrom(a, Layers(a)) /\ Layers(a)[0] = a
  BY LayersAre
<1>2. 0 \in K
  BY <1>1, LoopsAreNat
<1>3. ASSUME NEW i \in 1..TargetLoops, i - 1 \in K PROVE i \in K
  <2>1. Layers(a)[i] = MulFloor(Layers(a)[i - 1], CFactor, Unit7) /\ i \in 0..TargetLoops
    BY <1>1, LoopsAreNat DEF LayersFrom
  <2>2. \A x, y \in Nat, z \in Nat \ {0} : (x * y) \div z \in Nat
    BY Z3
  <2>3. CFactor \in Nat /\ Unit7 \in Nat \ {0} /\ Layers(a)[i - 1] \in Nat
    BY <1>3, MathConstantsOK
  <2> QED BY <2>1, <2>2, <2>3 DEF MulFloor
<1>4. \A i \in 0..TargetLoops : i \in K
  <2> HIDE DEF K
  <2> QED BY <1>2, <1>3, LoopsAreNat, EveryStep
<1> QED BY <1>4

\* compute_totals
Totals == [supply : Nat, borrow : Nat]
TotalsFrom(a, f) ==
  f = [i \in 0..TargetLoops |->
         IF i = 0 THEN [supply |-> a, borrow |-> 0]
         ELSE [supply |-> f[i - 1].supply + Layers(a)[i],
               borrow |-> f[i - 1].borrow + Layers(a)[i]]]

\* So is what they add up to.
LEMMA TotalsAreNat ==
  ASSUME NEW a \in Nat
  PROVE  ComputeTotals(a) \in Totals
<1> DEFINE First == [supply |-> a, borrow |-> 0]
           Step(i, s) == [supply |-> s.supply + Layers(a)[i], borrow |-> s.borrow + Layers(a)[i]]
           G == [x \in (1..TargetLoops) \X Totals |-> Step(x[1], x[2])]
           g == CHOOSE f : TotalsFrom(a, f)
<1>1. First \in Totals
  BY DEF Totals
<1>2. ASSUME NEW i \in 1..TargetLoops, NEW s \in Totals PROVE Step(i, s) \in Totals
  <2>1. Layers(a)[i] \in Nat
    BY LayersAreNat, LoopsAreNat
  <2> QED BY <2>1 DEF Totals
<1> HIDE DEF First, Step
<1>3. G \in [(1..TargetLoops) \X Totals -> Totals]
  BY <1>2
<1>4. PICK f \in [0..TargetLoops -> Totals] :
        f[0] = First /\ \A i \in 1..TargetLoops : f[i] = G[<<i, f[i - 1]>>]
  <2> HIDE DEF G
  <2>1. TargetLoops \in Nat
    BY LoopsAreNat
  <2>2. Steps(TargetLoops, Totals, First, G)
    BY <1>1, <1>3, <2>1, StepsExist
  <2> QED BY <2>2 DEF Steps
<1>5. ASSUME NEW i \in 1..TargetLoops PROVE f[i] = Step(i, f[i - 1])
  <2> HIDE DEF G
  <2>1. i - 1 \in 0..TargetLoops
    BY LoopsAreNat
  <2>2. f[i - 1] \in Totals /\ f[i] = G[<<i, f[i - 1]>>]
    BY <1>4, <2>1
  <2> USE DEF G
  <2> QED BY <2>2
<1> HIDE DEF G
<1>6. TotalsFrom(a, f)
  <2>1. \A i \in 0..TargetLoops : i # 0 => i \in 1..TargetLoops
    BY LoopsAreNat
  <2> QED BY <1>4, <1>5, <2>1 DEF TotalsFrom, First, Step
<1>7. ComputeTotals(a) = g[TargetLoops]
  BY DEF ComputeTotals, TotalsFrom
<1>8. TotalsFrom(a, g)
  BY <1>6
<1> HIDE DEF g
<1>9. g[0] = First /\ \A i \in 1..TargetLoops : g[i] = Step(i, g[i - 1])
  BY <1>8, LoopsAreNat DEF TotalsFrom, First, Step
<1> DEFINE K == {i \in 0..TargetLoops : g[i] \in Totals}
<1>10. 0 \in K
  BY <1>1, <1>9, LoopsAreNat
<1>11. ASSUME NEW i \in 1..TargetLoops, i - 1 \in K PROVE i \in K
  <2>1. g[i] = Step(i, g[i - 1]) /\ g[i - 1] \in Totals /\ i \in 0..TargetLoops
    BY <1>9, <1>11, LoopsAreNat
  <2> QED BY <1>2, <2>1
<1>12. \A i \in 0..TargetLoops : i \in K
  <2> HIDE DEF K
  <2> QED BY <1>10, <1>11, LoopsAreNat, EveryStep
<1> QED BY <1>7, <1>12, LoopsAreNat

\* The targets of an unwind and of a re-leverage clear the collateral factor the
\* pool discounts with, so the divisions of leverage.rs by their distance are by
\* a positive number.
LEMMA TargetsClear ==
  ASSUME NEW r \in Risks
  PROVE  /\ EffectiveCFactor(r.l) \in Nat /\ EffectiveCFactor(r.l) < OrangeHf
         /\ DesignHealthFactor(r.l) \in Int
<1>1. r.l \in Nat /\ r.l <= Unit7 /\ CFactor \in Nat /\ CFactor < Unit7 /\ Unit7 \in Nat \ {0}
      /\ OrangeHf \in Nat /\ OrangeHf > Unit7 /\ Unit12 \in Nat \ {0} /\ Infinite \in Int
      /\ DesignNotional \in Nat
  BY MathConstantsOK, VaultConstantsOK
<1>2. EffectiveCFactor(r.l) \in Nat /\ EffectiveCFactor(r.l) <= CFactor
  <2>1. CFactor * r.l \in Int /\ CFactor * r.l < Unit7 * (CFactor + 1)
    <3>1. \A x, y, z \in Nat : y <= z => x * y \in Int /\ x * y <= x * z /\ x * z \in Int
      BY Z3
    <3>2. CFactor * r.l \in Int /\ CFactor * r.l <= CFactor * Unit7 /\ CFactor * Unit7 \in Int
      BY <1>1, <3>1
    <3>3. Unit7 * (CFactor + 1) = CFactor * Unit7 + Unit7
      BY <1>1, Z3
    <3> QED BY <1>1, <3>2, <3>3
  <2>2. (CFactor * r.l) \div Unit7 <= CFactor
    BY <1>1, <2>1, DivAtMost
  <2>3. \A x, y \in Nat, z \in Nat \ {0} : (x * y) \div z \in Nat
    BY Z3
  <2> QED BY <1>1, <2>2, <2>3 DEF EffectiveCFactor, MulFloor
<1>3. DesignHealthFactor(r.l) \in Int
  <2> DEFINE t == ComputeTotals(DesignNotional)
             p == [b |-> t.supply, d |-> t.borrow]
             one == [b |-> Unit12, d |-> Unit12]
  <2>1. t.supply \in Nat /\ t.borrow \in Nat
    BY <1>1, TotalsAreNat DEF Totals
  <2> HIDE DEF t
  <2>2. \A x, y \in Nat, z \in Nat \ {0} : MulFloor(x, y, z) \in Nat
    BY Z3 DEF MulFloor
  <2>3. Supply(p, one) \in Nat /\ Debt(p, one) \in Nat
    BY <1>1, <2>1, <2>2 DEF Supply, Debt
  <2>4. DesignHealthFactor(r.l) = HealthFactor(p, one, r.l)
    BY DEF DesignHealthFactor, t
  <2> HIDE DEF p, one
  <2>5. Supply(p, one) * CFactor \in Nat
    BY <1>1, <2>3, Z3
  <2>6. MulFloor(Supply(p, one) * CFactor, r.l, Unit7) \in Nat
    BY <1>1, <2>2, <2>5
  <2>7. \A x \in Nat, z \in Nat \ {0} : x \div z \in Int
    BY Z3
  <2>8. CASE Debt(p, one) = 0
    BY <1>1, <2>4, <2>8 DEF HealthFactor
  <2>9. CASE Debt(p, one) # 0
    BY <2>3, <2>4, <2>6, <2>7, <2>9 DEF HealthFactor
  <2> QED BY <2>8, <2>9
<1> QED BY <1>1, <1>2, <1>3

-----------------------------------------------------------------------------
(* Levering down *)

\* Whatever is asked of it, the pool answers with a position.
LEMMA RepaysRun ==
  ASSUME NEW q \in Running, NEW r \in PoolRates, NEW a \in Int
  PROVE  RepayAllRequest(q, r) \in Running /\ RepayRequest(q, a, r) \in Running
<1> DEFINE x == MulFloor(a, Unit12, r.d)
           y == MulCeil(q.d, r.d, Unit12)
<1>1. x \in Int
  BY UnitsAreInts, MulFloorBounds
<1>2. y \in Int
  <2>1. r.d \in Int
    BY UnitsAreInts
  <2> QED BY <2>1, UnitsAreInts, MulCeilBounds
<1> HIDE DEF x, y
<1>3. RepayAllRequest(q, r) \in Running
  <2>1. RepayAllRequest(q, r) = [q EXCEPT !.d = 0, !.cash = @ - y]
    BY DEF RepayAllRequest, y
  <2> DEFINE u == 0
             v == q.cash - y
  <2>2. u \in Int /\ v \in Int
    BY <1>2, UnitsAreInts
  <2>3. RepayAllRequest(q, r) = [q EXCEPT !.d = u, !.cash = v]
    BY <2>1
  <2> HIDE DEF u, v
  <2> QED BY <2>2, <2>3 DEF Running
<1>4. CASE x > q.d
  BY <1>3, <1>4 DEF RepayRequest, x
<1>5. CASE ~(x > q.d)
  <2>1. RepayRequest(q, a, r) = [q EXCEPT !.d = @ - x, !.cash = @ - a]
    BY <1>5 DEF RepayRequest, x
  <2> DEFINE u == q.d - x
             v == q.cash - a
  <2>2. u \in Int /\ v \in Int
    BY <1>1, UnitsAreInts
  <2>3. RepayRequest(q, a, r) = [q EXCEPT !.d = u, !.cash = v]
    BY <2>1
  <2> HIDE DEF u, v
  <2>4. RepayRequest(q, a, r) \in Running
    BY <2>2, <2>3 DEF Running
  <2> QED BY <1>3, <2>4
<1> QED BY <1>3, <1>4, <1>5

\* A withdrawal and the repayment of the same amount.
Pair(q, a, r) == RepayRequest(WithdrawRequest(q, a, r), a, r)

\* The pool answers a pair of requests with a position.
LEMMA PairRuns ==
  ASSUME NEW q \in Running, NEW r \in PoolRates, r.b >= Unit12, NEW a \in Int
  PROVE  Pair(q, a, r) \in Running
<1>1. WithdrawRequest(q, a, r) \in Running
  BY WithdrawCosts
<1> QED BY <1>1, RepaysRun DEF Pair

\* Pairs of the amounts m, which take left[0] of debt down to left[n], from a
\* position that owes at least that much: none of them repays more than there
\* is, so no cash is left, and each costs a token of each kind at most.
LEMMA PairsCost ==
  ASSUME NEW p \in Positions, NEW r \in PoolRates, r.b >= Unit12, NEW n \in Nat,
         NEW m \in [1..n -> Nat], NEW left \in [0..n -> Nat], NEW g,
         left[0] * Unit12 <= p.d * r.d,
         \A i \in 1..n : left[i] = left[i - 1] - m[i],
         g[0] = Ask(p),
         \A i \in 1..n : g[i] = Pair(g[i - 1], m[i], r)
  PROVE  \A i \in 0..n :
           /\ g[i] \in Running /\ g[i].cash <= 0 /\ g[i].d <= p.d
           /\ g[i].d * r.d \in Int /\ left[i] * Unit12 <= g[i].d * r.d
           /\ Worth(g[i], r) \in Int
           /\ Worth(g[i], r) + i * (r.b + r.d) >= p.b * r.b - p.d * r.d
<1> DEFINE k == r.b + r.d
           W == p.b * r.b - p.d * r.d
           Good(i) == /\ g[i] \in Running /\ g[i].cash <= 0 /\ g[i].d <= p.d
                      /\ g[i].d * r.d \in Int /\ left[i] * Unit12 <= g[i].d * r.d
                      /\ Worth(g[i], r) \in Int
           K == {i \in 0..n : Good(i)}
<1>0. /\ r.b \in Nat \ {0} /\ r.d \in Nat \ {0} /\ k \in Int /\ p.d \in Nat
      /\ W \in Int
  BY UnitsAreInts, AskIsRunning DEF Positions
<1>1. 0 \in K /\ Worth(g[0], r) = W
  <2>1. /\ Ask(p) \in Running /\ Ask(p).d = p.d /\ Ask(p).cash = 0 /\ Worth(Ask(p), r) = W
    BY AskIsRunning
  <2>2. p.d * r.d \in Int
    BY <1>0, Z3
  <2> HIDE DEF W
  <2>3. Good(0)
    BY <1>0, <2>1, <2>2
  <2> QED BY <2>1, <2>3
<1> HIDE DEF W, k
<1>2. ASSUME NEW i \in 1..n, i - 1 \in K
      PROVE  i \in K /\ Worth(g[i - 1], r) \in Int /\ Worth(g[i], r) + k >= Worth(g[i - 1], r)
  <2> DEFINE a == m[i]
             q == g[i - 1]
             l == left[i - 1]
  <2>1. /\ a \in Nat /\ l \in Nat /\ left[i] \in Nat /\ left[i] = l - a
        /\ q \in Running /\ q.cash <= 0 /\ q.d <= p.d
        /\ q.d * r.d \in Int /\ l * Unit12 <= q.d * r.d
    <3>1. i - 1 \in 0..n /\ i \in 0..n
      OBVIOUS
    <3>2. a \in Nat /\ l \in Nat /\ left[i] \in Nat /\ left[i] = l - a
      BY <3>1
    <3>3. /\ q \in Running /\ q.cash <= 0 /\ q.d <= p.d
          /\ q.d * r.d \in Int /\ l * Unit12 <= q.d * r.d
      BY <1>2
    <3> QED BY <3>2, <3>3
  <2>2. g[i] = RepayRequest(WithdrawRequest(q, a, r), a, r)
    BY DEF Pair
  <2> HIDE DEF a, q, l
  <2>3. /\ l * Unit12 \in Int /\ a * Unit12 \in Int /\ a * Unit12 <= l * Unit12
        /\ left[i] * Unit12 = l * Unit12 - a * Unit12
    <3>1. a <= l
      BY <2>1
    <3>2. \A x, y \in Nat, z \in Nat \ {0} :
            x <= y => x * z \in Int /\ y * z \in Int /\ x * z <= y * z /\ (y - x) * z = y * z - x * z
      BY Z3
    <3>3. /\ l * Unit12 \in Int /\ a * Unit12 \in Int /\ a * Unit12 <= l * Unit12
          /\ (l - a) * Unit12 = l * Unit12 - a * Unit12
      BY <2>1, <3>1, <3>2, UnitsAreInts
    <3> QED BY <2>1, <3>3
  <2>4. a * Unit12 <= q.d * r.d
    BY <2>1, <2>3
  <2>5. /\ g[i] \in Running
        /\ g[i].d <= q.d /\ g[i].cash <= q.cash
        /\ g[i].d * r.d \in Int /\ g[i].d * r.d >= q.d * r.d - a * Unit12
        /\ Worth(q, r) \in Int /\ Worth(g[i], r) \in Int
        /\ Worth(g[i], r) + (r.b + r.d) >= Worth(q, r)
    BY <2>1, <2>2, <2>4, PairCosts
  <2>6. left[i] * Unit12 <= g[i].d * r.d
    BY <2>1, <2>3, <2>5
  <2>7. g[i].cash <= 0 /\ g[i].d <= p.d
    <3>1. /\ g[i].d \in Int /\ g[i].cash \in Int /\ q.d \in Int /\ q.cash \in Int
      BY <2>1, <2>5, UnitsAreInts
    <3>2. g[i].d <= q.d /\ g[i].cash <= q.cash /\ q.cash <= 0 /\ q.d <= p.d
      BY <2>1, <2>5
    <3>3. \A x, y, z \in Int : x <= y /\ y <= z => x <= z
      OBVIOUS
    <3>4. p.d \in Int /\ 0 \in Int
      BY <1>0
    <3>5. g[i].cash <= 0
      BY <3>1, <3>2, <3>3, <3>4
    <3>6. g[i].d <= p.d
      BY <3>1, <3>2, <3>3, <3>4
    <3> QED BY <3>5, <3>6
  <2>8. Good(i) /\ i \in 0..n
    BY <2>5, <2>6, <2>7
  <2> HIDE DEF Good
  <2> QED BY <2>5, <2>8 DEF q, k
<1>3. \A i \in 0..n : i \in K
  <2> HIDE DEF K
  <2> QED BY <1>1, <1>2, EveryStep
<1>4. \A i \in 0..n : Good(i)
  BY <1>3
<1> DEFINE w == [i \in 0..n |-> Worth(g[i], r)]
<1>5. w \in [0..n -> Int]
  BY <1>4
<1>6. w[0] + k >= W + k /\ \A i \in 1..n : w[i] + k >= w[i - 1]
  <2>1. ASSUME NEW i \in 1..n PROVE w[i] + k >= w[i - 1]
    <3>1. i - 1 \in 0..n /\ i \in 0..n
      OBVIOUS
    <3>2. i - 1 \in K
      BY <1>3, <3>1
    <3> HIDE DEF K
    <3> QED BY <1>2, <3>1, <3>2
  <2>2. w[0] = W
    BY <1>1
  <2> HIDE DEF w
  <2>3. w[0] + k >= W + k
    BY <1>0, <2>2
  <2> QED BY <2>1, <2>3
<1> HIDE DEF K
<1>7. \A i \in 0..n : w[i] + (i + 1) * k >= W + k
  <2>1. W + k \in Int
    BY <1>0
  <2> HIDE DEF w, Good
  <2> QED BY <1>0, <1>5, <1>6, <2>1, LossPerStep
<1>8. ASSUME NEW i \in 0..n PROVE Worth(g[i], r) + i * k >= W
  <2>1. w[i] = Worth(g[i], r) /\ w[i] \in Int
    BY <1>5
  <2>2. (i + 1) * k = i * k + k /\ i * k \in Int
    BY <1>0, Z3
  <2>3. w[i] + (i + 1) * k >= W + k
    BY <1>7
  <2> HIDE DEF w, Good
  <2> QED BY <1>0, <2>1, <2>2, <2>3
<1>9. ASSUME NEW i \in 0..n
      PROVE  Good(i) /\ Worth(g[i], r) + i * k >= W
  <2> HIDE DEF Good
  <2> QED BY <1>4, <1>8
<1> QED BY <1>9 DEF k, W

\* A withdrawal pays what it is asked for unless it takes all the collateral.
LEMMA WithdrawTakes ==
  ASSUME NEW q \in Running, q.b \in Nat, NEW r \in PoolRates, NEW a \in Nat,
         NEW n, n = WithdrawRequest(q, a, r)
  PROVE  /\ n.b \in Nat
         /\ q.b = 0 => n.b = 0
         /\ n.b = 0 \/ n.cash = q.cash + a
<1> DEFINE x == MulCeil(a, Unit12, r.b)
           v == MulFloor(q.b, r.b, Unit12)
<1>1. x \in Int /\ x >= 0
  <2>1. x \in Int /\ a * Unit12 <= x * r.b
    <3>1. a \in Int
      OBVIOUS
    <3> QED BY <3>1, UnitsAreInts, MulCeilBounds
  <2>2. a * Unit12 \in Nat
    BY UnitsAreInts, Z3
  <2>3. \A y \in Int, z \in Nat \ {0} : y * z >= 0 => y >= 0
    BY Z3
  <2>4. \A y \in Int, z \in Nat \ {0} : y * z \in Int
    BY Z3
  <2> HIDE DEF x
  <2>5. x * r.b \in Int /\ x * r.b >= 0
    BY <2>1, <2>2, <2>4, UnitsAreInts
  <2> QED BY <2>1, <2>3, <2>5, UnitsAreInts
<1>2. n = IF x > q.b THEN [q EXCEPT !.b = 0, !.cash = @ + v]
          ELSE [q EXCEPT !.b = @ - x, !.cash = @ + a]
  BY DEF WithdrawRequest
<1> HIDE DEF x, v
<1>3. CASE x > q.b
  <2>1. n.b = 0
    BY <1>2, <1>3 DEF Running
  <2> QED BY <2>1
<1>4. CASE ~(x > q.b)
  <2> DEFINE u == q.b - x
             c == q.cash + a
  <2>1. n = [q EXCEPT !.b = u, !.cash = c]
    BY <1>2, <1>4
  <2>2. u \in Nat /\ (q.b = 0 => u = 0)
    BY <1>1, <1>4
  <2> HIDE DEF u, c
  <2>3. n.b = u /\ n.cash = c
    BY <2>1 DEF Running
  <2> QED BY <2>2, <2>3 DEF c
<1> QED BY <1>3, <1>4

\* A repayment the debt covers is taken to less than a token.
LEMMA RepayTakes ==
  ASSUME NEW q \in Running, NEW r \in PoolRates, NEW a \in Nat,
         a * Unit12 <= q.d * r.d,
         NEW n, n = RepayRequest(q, a, r)
  PROVE  /\ n.b = q.b /\ n.d >= 0 /\ n.cash = q.cash - a
         /\ n.d * r.d < q.d * r.d - a * Unit12 + r.d
<1> DEFINE x == MulFloor(a, Unit12, r.d)
<1>1. x \in Int /\ x * r.d <= a * Unit12 /\ a * Unit12 < x * r.d + r.d
  <2>1. a \in Int
    OBVIOUS
  <2> QED BY <2>1, UnitsAreInts, MulFloorBounds
<1>2. n = IF x > q.d THEN RepayAllRequest(q, r) ELSE [q EXCEPT !.d = @ - x, !.cash = @ - a]
  BY DEF RepayRequest
<1> HIDE DEF x
<1>3. a * Unit12 \in Nat /\ x * r.d \in Int /\ q.d * r.d \in Int /\ r.d \in Nat \ {0} /\ q.d \in Int
  <2>1. r.d \in Nat \ {0} /\ q.d \in Int
    BY UnitsAreInts
  <2> QED BY <1>1, <2>1, UnitsAreInts, Z3
<1>4. ~(x > q.d)
  <2>1. \A s, t \in Int, z \in Nat \ {0} : s * z <= t * z => s <= t
    BY Z3
  <2>2. x * r.d <= q.d * r.d
    BY <1>1, <1>3
  <2> QED BY <1>1, <1>3, <2>1, <2>2
<1>5. n.b = q.b /\ n.d = q.d - x /\ n.cash = q.cash - a
  <2> DEFINE u == q.d - x
             v == q.cash - a
  <2>1. n = [q EXCEPT !.d = u, !.cash = v]
    BY <1>2, <1>4
  <2> HIDE DEF u, v
  <2>2. n.b = q.b /\ n.d = u /\ n.cash = v
    BY <2>1 DEF Running
  <2> QED BY <2>2 DEF u, v
<1>6. (q.d - x) * r.d = q.d * r.d - x * r.d
  BY <1>1, <1>3, UnitsAreInts, Z3
<1> QED BY <1>1, <1>3, <1>4, <1>5, <1>6

\* So do the two of a pair.
LEMMA PairTakes ==
  ASSUME NEW q \in Running, q.b \in Nat, NEW r \in PoolRates, r.b >= Unit12, NEW a \in Nat,
         a * Unit12 <= q.d * r.d,
         NEW n, n = Pair(q, a, r)
  PROVE  /\ n.b \in Nat /\ n.d >= 0
         /\ q.b = 0 => n.b = 0
         /\ n.b = 0 \/ n.cash = q.cash
         /\ n.d * r.d < q.d * r.d - a * Unit12 + r.d
<1> DEFINE w == WithdrawRequest(q, a, r)
<1>1. w \in Running /\ w.d = q.d
  <2>1. a \in Int
    OBVIOUS
  <2> QED BY <2>1, WithdrawCosts
<1>2. w.b \in Nat /\ (q.b = 0 => w.b = 0) /\ (w.b = 0 \/ w.cash = q.cash + a)
  BY WithdrawTakes
<1>3. n = RepayRequest(w, a, r)
  BY DEF Pair
<1> HIDE DEF w
<1>4. a * Unit12 <= w.d * r.d
  BY <1>1
<1>5. /\ n.b = w.b /\ n.d >= 0 /\ n.cash = w.cash - a
      /\ n.d * r.d < w.d * r.d - a * Unit12 + r.d
  BY <1>1, <1>3, <1>4, RepayTakes
<1>6. n.b = 0 \/ n.cash = q.cash
  BY <1>1, <1>2, <1>5, UnitsAreInts
<1> QED BY <1>1, <1>2, <1>5, <1>6

\* Pairs of the amounts m, as in PairsCost, repay what they are to but for a
\* debt token each, and move no cash unless all the collateral is gone.
LEMMA PairsTake ==
  ASSUME NEW p \in Positions, NEW r \in PoolRates, r.b >= Unit12, NEW n \in Nat,
         NEW m \in [1..n -> Nat], NEW left \in [0..n -> Nat], NEW g,
         left[0] * Unit12 <= p.d * r.d,
         \A i \in 1..n : left[i] = left[i - 1] - m[i],
         g[0] = Ask(p),
         \A i \in 1..n : g[i] = Pair(g[i - 1], m[i], r)
  PROVE  \A i \in 0..n :
           /\ g[i].b \in Nat /\ g[i].d >= 0
           /\ g[i].b = 0 \/ g[i].cash = 0
           /\ g[i].d * r.d + left[0] * Unit12 <= p.d * r.d + left[i] * Unit12 + i * r.d
<1> DEFINE Took(i) == /\ g[i].b \in Nat /\ g[i].d >= 0
                      /\ g[i].b = 0 \/ g[i].cash = 0
                      /\ g[i].d * r.d + left[0] * Unit12 <= p.d * r.d + left[i] * Unit12 + i * r.d
           K == {i \in 0..n : Took(i)}
<1>0. /\ r.d \in Nat \ {0} /\ Unit12 \in Nat \ {0} /\ p.b \in Nat /\ p.d \in Nat
      /\ \A i \in 0..n : left[i] \in Nat
  BY UnitsAreInts DEF Positions
<1>1. \A i \in 0..n : g[i] \in Running /\ g[i].d * r.d \in Int /\ left[i] * Unit12 <= g[i].d * r.d
  BY PairsCost
<1>2. 0 \in K
  <2>1. g[0].b = p.b /\ g[0].d = p.d /\ g[0].cash = 0
    BY AskIsRunning
  <2>2. 0 * r.d = 0 /\ p.d * r.d \in Int
    BY <1>0, Z3
  <2>3. left[0] \in Nat /\ 0 \in 0..n
    BY <1>0
  <2>4. left[0] * Unit12 \in Int
    BY <1>0, <2>3, Z3
  <2>5. /\ g[0].b \in Nat /\ g[0].d >= 0 /\ g[0].cash = 0
        /\ g[0].d * r.d = p.d * r.d
    BY <1>0, <2>1
  <2>6. g[0].d * r.d + left[0] * Unit12 <= p.d * r.d + left[0] * Unit12 + 0 * r.d
    BY <2>2, <2>4, <2>5
  <2>7. Took(0)
    BY <2>5, <2>6
  <2> HIDE DEF Took
  <2> QED BY <2>3, <2>7
<1>3. ASSUME NEW i \in 1..n, i - 1 \in K PROVE i \in K
  <2> DEFINE a == m[i]
             q == g[i - 1]
             l == left[i - 1]
             top == left[0]
             s == g[i]
             l2 == left[i]
  <2>1. /\ i - 1 \in 0..n /\ i \in 0..n /\ 0 \in 0..n /\ i \in Int
    OBVIOUS
  <2>2. /\ a \in Nat /\ l \in Nat /\ l2 \in Nat /\ top \in Nat /\ l2 = l - a
    BY <1>0, <2>1
  <2>3. /\ q \in Running /\ q.d * r.d \in Int /\ l * Unit12 <= q.d * r.d
        /\ s \in Running /\ s.d * r.d \in Int
    BY <1>1, <2>1
  <2>4. /\ q.b \in Nat /\ (q.b = 0 \/ q.cash = 0)
        /\ q.d * r.d + top * Unit12 <= p.d * r.d + l * Unit12 + (i - 1) * r.d
    BY <1>3
  <2>5. s = Pair(q, a, r)
    OBVIOUS
  <2> HIDE DEF a, q, l, s, l2, top
  <2>6. /\ l * Unit12 \in Int /\ a * Unit12 \in Int /\ a * Unit12 <= l * Unit12
        /\ l2 * Unit12 = l * Unit12 - a * Unit12
        /\ top * Unit12 \in Int /\ p.d * r.d \in Int
        /\ (i - 1) * r.d = i * r.d - r.d /\ i * r.d \in Int
    <3>1. a <= l
      BY <2>2
    <3>2. \A x, y \in Nat, z \in Nat \ {0} :
            x <= y => x * z \in Int /\ y * z \in Int /\ x * z <= y * z /\ (y - x) * z = y * z - x * z
      BY Z3
    <3>3. /\ l * Unit12 \in Int /\ a * Unit12 \in Int /\ a * Unit12 <= l * Unit12
          /\ (l - a) * Unit12 = l * Unit12 - a * Unit12
      BY <1>0, <2>2, <3>1, <3>2
    <3>4. \A x \in Int, z \in Nat \ {0} : x * z \in Int /\ (x - 1) * z = x * z - z
      BY Z3
    <3>5. (i - 1) * r.d = i * r.d - r.d /\ i * r.d \in Int
      BY <1>0, <2>1, <3>4
    <3>6. top * Unit12 \in Int /\ p.d * r.d \in Int
      <4>1. top \in Int /\ p.d \in Int
        BY <1>0, <2>2
      <4> QED BY <1>0, <3>4, <4>1
    <3>7. l2 * Unit12 = l * Unit12 - a * Unit12
      BY <2>2, <3>3
    <3> QED BY <3>3, <3>5, <3>6, <3>7
  <2>7. a * Unit12 <= q.d * r.d
    BY <2>3, <2>6
  <2>8. /\ s.b \in Nat /\ s.d >= 0
        /\ q.b = 0 => s.b = 0
        /\ s.b = 0 \/ s.cash = q.cash
        /\ s.d * r.d < q.d * r.d - a * Unit12 + r.d
    <3>1. q \in Running /\ q.b \in Nat /\ a \in Nat /\ a * Unit12 <= q.d * r.d
      BY <2>2, <2>3, <2>4, <2>7
    <3> QED BY <2>5, <3>1, PairTakes
  <2>9. s.b = 0 \/ s.cash = 0
    BY <2>4, <2>8
  <2>10. s.d * r.d + top * Unit12 <= p.d * r.d + l2 * Unit12 + i * r.d
    <3> DEFINE x == q.d * r.d
               y == s.d * r.d
               A == l2 * Unit12
               B == top * Unit12
               C == p.d * r.d
               D == l * Unit12
               E == i * r.d
               F == r.d
               G == a * Unit12
               H == (i - 1) * r.d
    <3>1. /\ x \in Int /\ y \in Int /\ A \in Int /\ B \in Int /\ C \in Int
          /\ D \in Int /\ E \in Int /\ F \in Int /\ G \in Int
      BY <1>0, <2>3, <2>6
    <3>2. x + B <= C + D + H /\ H = E - F /\ y < x - G + F /\ A = D - G
      BY <2>4, <2>6, <2>8
    <3> HIDE DEF x, y, A, B, C, D, E, F, G, H
    <3>3. y + B <= C + A + E
      BY <3>1, <3>2
    <3> QED BY <3>3 DEF y, A, B, C, E
  <2>11. Took(i)
    BY <2>8, <2>9, <2>10 DEF s, l2, top
  <2> HIDE DEF Took
  <2> QED BY <2>1, <2>11
<1>4. \A i \in 0..n : i \in K
  <2> HIDE DEF K
  <2> QED BY <1>2, <1>3, EveryStep
<1> QED BY <1>4

\* submit_deleverage: the debt the layers still have to repay, and the pairs
\* that repay it.
LeftFrom(p, k, r, f) ==
  f = [i \in 0..k |-> IF i = 0 THEN Debt(p, r) ELSE f[i - 1] - Smaller(UnwindLayer(p, r), f[i - 1])]
LeftOf(p, k, r) == CHOOSE f : LeftFrom(p, k, r, f)
DelevFrom(p, k, r, f) ==
  f = [i \in 0..k |->
         IF i = 0 THEN Ask(p)
         ELSE LET amount == Smaller(UnwindLayer(p, r), LeftOf(p, k, r)[i - 1])
              IN RepayRequest(WithdrawRequest(f[i - 1], amount, r), amount, r)]

\* A debt rounds down to at most what its tokens are worth.
LEMMA DebtIsNat ==
  ASSUME NEW x \in Nat, NEW r \in PoolRates
  PROVE  /\ MulFloor(x, r.d, Unit12) \in Nat
         /\ x * r.d \in Int
         /\ MulFloor(x, r.d, Unit12) * Unit12 <= x * r.d
<1> DEFINE v == MulFloor(x, r.d, Unit12)
<1>1. x \in Int /\ r.d \in Int /\ r.d \in Nat
  BY UnitsAreInts
<1>2. v \in Int /\ v * Unit12 <= x * r.d /\ x * r.d < v * Unit12 + Unit12
  BY <1>1, UnitsAreInts, MulFloorBounds
<1> HIDE DEF v
<1>3. x * r.d \in Int /\ x * r.d >= 0 /\ v * Unit12 \in Int
  BY <1>1, <1>2, UnitsAreInts, Z3
<1>4. \A s \in Int, z \in Nat \ {0} : s * z + z > 0 => s >= 0
  BY Z3
<1>5. v * Unit12 + Unit12 > 0
  BY <1>2, <1>3, UnitsAreInts
<1>6. v >= 0
  BY <1>2, <1>4, <1>5, UnitsAreInts
<1> QED BY <1>2, <1>3, <1>6 DEF v

\* The debt and the layer of compute_partial_unwind are not negative.
LEMMA LayerIsNat ==
  ASSUME NEW p \in Positions, NEW r \in PoolRates
  PROVE  /\ Debt(p, r) \in Nat /\ UnwindLayer(p, r) \in Nat
         /\ Debt(p, r) * Unit12 <= p.d * r.d
<1>1. p.d \in Nat /\ Debt(p, r) \in Nat /\ Debt(p, r) * Unit12 <= p.d * r.d
  <2>1. p.d \in Nat
    BY DEF Positions
  <2> QED BY <2>1, DebtIsNat DEF Debt
<1>2. UnwindLayer(p, r) \in Nat
  <2>1. Unit7 - CFactor \in Nat /\ Unit7 \in Nat \ {0}
    BY MathConstantsOK
  <2>2. \A x, y \in Nat, z \in Nat \ {0} : (x * y) \div z \in Nat
    BY Z3
  <2> QED BY <1>1, <2>1, <2>2 DEF UnwindLayer, MulFloor
<1> QED BY <1>1, <1>2

\* What the layers leave of the debt is never negative.
LEMMA LeftsAre ==
  ASSUME NEW p \in Positions, NEW r \in PoolRates, NEW k \in Nat
  PROVE  LET left == LeftOf(p, k, r)
         IN /\ left \in [0..k -> Nat]
            /\ left[0] = Debt(p, r)
            /\ \A i \in 1..k : left[i] = left[i - 1] - Smaller(UnwindLayer(p, r), left[i - 1])
<1> DEFINE layer == UnwindLayer(p, r)
           debt == Debt(p, r)
           left == LeftOf(p, k, r)
           G == [x \in (1..k) \X Nat |-> x[2] - Smaller(layer, x[2])]
<1>1. debt \in Nat /\ layer \in Nat
  BY LayerIsNat
<1>2. \A x \in Nat : x - Smaller(layer, x) \in Nat
  BY <1>1 DEF Smaller
<1> HIDE DEF layer, debt, left
<1>3. G \in [(1..k) \X Nat -> Nat]
  BY <1>2
<1>4. PICK f \in [0..k -> Nat] : f[0] = debt /\ \A i \in 1..k : f[i] = G[<<i, f[i - 1]>>]
  <2> HIDE DEF G
  <2>1. Steps(k, Nat, debt, G)
    BY <1>1, <1>3, StepsExist
  <2> QED BY <2>1 DEF Steps
<1>5. ASSUME NEW i \in 1..k PROVE f[i] = f[i - 1] - Smaller(layer, f[i - 1])
  <2> HIDE DEF G
  <2>1. i - 1 \in 0..k
    OBVIOUS
  <2>2. f[i - 1] \in Nat /\ f[i] = G[<<i, f[i - 1]>>]
    BY <1>4, <2>1
  <2> USE DEF G
  <2> QED BY <2>2
<1> HIDE DEF G
<1>6. LeftFrom(p, k, r, f)
  <2>1. \A i \in 0..k : i # 0 => i \in 1..k
    OBVIOUS
  <2> QED BY <1>4, <1>5, <2>1 DEF LeftFrom, layer, debt
<1>7. LeftFrom(p, k, r, left)
  BY <1>6 DEF LeftOf, left
<1>8. left[0] = debt /\ \A i \in 1..k : left[i] = left[i - 1] - Smaller(layer, left[i - 1])
  BY <1>7 DEF LeftFrom, layer, debt
<1>9. \A i \in 0..k : left[i] \in Nat
  <2> DEFINE K == {i \in 0..k : left[i] \in Nat}
  <2>1. 0 \in K
    BY <1>1, <1>8
  <2>2. ASSUME NEW i \in 1..k, i - 1 \in K PROVE i \in K
    <3>1. left[i - 1] \in Nat /\ i \in 0..k
      BY <2>2
    <3>2. left[i] \in Nat
      BY <1>2, <1>8, <3>1
    <3> QED BY <3>1, <3>2
  <2> HIDE DEF K
  <2>3. \A i \in 0..k : i \in K
    BY <2>1, <2>2, EveryStep
  <2> QED BY <2>3 DEF K
<1>10. left \in [0..k -> Nat]
  <2>1. left = [i \in 0..k |-> left[i]]
    BY <1>7 DEF LeftFrom
  <2> QED BY <1>9, <2>1
<1> QED BY <1>8, <1>10 DEF layer, debt, left

\* The pairs of an unwind of k layers: m what each repays, left what is still to
\* repay after it, g the pool's answers.
DeleverageBy(p, k, r, m, left, g) ==
  /\ m \in [1..k -> Nat] /\ left \in [0..k -> Nat]
  /\ left[0] = Debt(p, r)
  /\ \A i \in 1..k : m[i] = Smaller(UnwindLayer(p, r), left[i - 1]) /\ left[i] = left[i - 1] - m[i]
  /\ g[0] = Ask(p)
  /\ \A i \in 1..k : g[i] = Pair(g[i - 1], m[i], r)
  /\ Deleveraged(p, k, r) = g[k]

\* There are such pairs.
LEMMA DeleveragePairs ==
  ASSUME NEW p \in Positions, NEW r \in PoolRates, r.b >= Unit12, NEW k \in Nat
  PROVE  \E m, left, g : DeleverageBy(p, k, r, m, left, g)
<1> DEFINE layer == UnwindLayer(p, r)
           left == LeftOf(p, k, r)
           m == [i \in 1..k |-> Smaller(layer, left[i - 1])]
           G == [x \in (1..k) \X Running |-> Pair(x[2], m[x[1]], r)]
           g == CHOOSE f : DelevFrom(p, k, r, f)
<1>1. /\ left \in [0..k -> Nat] /\ layer \in Nat
      /\ left[0] = Debt(p, r)
      /\ \A i \in 1..k : left[i] = left[i - 1] - Smaller(layer, left[i - 1])
  BY LeftsAre, LayerIsNat
<1> HIDE DEF layer, left
<1>2. m \in [1..k -> Nat] /\ \A i \in 1..k : m[i] = Smaller(layer, left[i - 1])
  <2>1. \A i \in 1..k : left[i - 1] \in Nat
    BY <1>1
  <2> QED BY <1>1, <2>1 DEF Smaller
<1>3. \A i \in 1..k : left[i] = left[i - 1] - m[i]
  BY <1>1
<1> HIDE DEF m
<1>4. ASSUME NEW s \in Running, NEW i \in 1..k PROVE Pair(s, m[i], r) \in Running
  <2>1. m[i] \in Int
    BY <1>2
  <2> QED BY <2>1, PairRuns
<1>5. G \in [(1..k) \X Running -> Running]
  BY <1>4
<1>6. PICK f \in [0..k -> Running] : f[0] = Ask(p) /\ \A i \in 1..k : f[i] = G[<<i, f[i - 1]>>]
  <2> HIDE DEF G
  <2>1. Ask(p) \in Running
    BY AskIsRunning
  <2>2. Steps(k, Running, Ask(p), G)
    BY <1>5, <2>1, StepsExist
  <2> QED BY <2>2 DEF Steps
<1>7. ASSUME NEW i \in 1..k PROVE f[i] = Pair(f[i - 1], m[i], r)
  <2> HIDE DEF G
  <2>1. i - 1 \in 0..k
    OBVIOUS
  <2>2. f[i - 1] \in Running /\ f[i] = G[<<i, f[i - 1]>>]
    BY <1>6, <2>1
  <2> USE DEF G
  <2> QED BY <2>2
<1> HIDE DEF G
<1>8. DelevFrom(p, k, r, f)
  <2>1. \A i \in 0..k : i # 0 => i \in 1..k
    OBVIOUS
  <2> QED BY <1>2, <1>6, <1>7, <2>1 DEF DelevFrom, Pair, layer, left
<1>9. Deleveraged(p, k, r) = g[k]
  BY DEF Deleveraged, DelevFrom, LeftOf, LeftFrom
<1>10. DelevFrom(p, k, r, g)
  BY <1>8
<1> HIDE DEF g
<1>11. g[0] = Ask(p) /\ \A i \in 1..k : g[i] = Pair(g[i - 1], m[i], r)
  BY <1>2, <1>10 DEF DelevFrom, Pair, layer, left
<1>12. DeleverageBy(p, k, r, m, left, g)
  BY <1>1, <1>2, <1>3, <1>9, <1>11 DEF DeleverageBy, layer
<1> QED BY <1>12

\* An unwind of k layers leaves no cash, and costs k pairs of tokens.
LEMMA DeleverageCosts ==
  ASSUME NEW p \in Positions, NEW r \in PoolRates, r.b >= Unit12, NEW k \in Nat,
         NEW q, q = Deleveraged(p, k, r)
  PROVE  /\ q \in Running /\ q.cash <= 0
         /\ Worth(q, r) \in Int
         /\ Worth(q, r) + k * (r.b + r.d) >= p.b * r.b - p.d * r.d
<1>1. PICK m, left, g : DeleverageBy(p, k, r, m, left, g)
  BY DeleveragePairs
<1>2. left[0] * Unit12 <= p.d * r.d
  BY <1>1, LayerIsNat DEF DeleverageBy
<1>3. /\ m \in [1..k -> Nat] /\ left \in [0..k -> Nat]
      /\ \A i \in 1..k : left[i] = left[i - 1] - m[i]
      /\ g[0] = Ask(p) /\ q = g[k]
      /\ \A i \in 1..k : g[i] = Pair(g[i - 1], m[i], r)
  BY <1>1 DEF DeleverageBy
<1>4. \A i \in 0..k :
        /\ g[i] \in Running /\ g[i].cash <= 0 /\ g[i].d <= p.d
        /\ g[i].d * r.d \in Int /\ left[i] * Unit12 <= g[i].d * r.d
        /\ Worth(g[i], r) \in Int
        /\ Worth(g[i], r) + i * (r.b + r.d) >= p.b * r.b - p.d * r.d
  BY <1>2, <1>3, PairsCost
<1>5. k \in 0..k
  OBVIOUS
<1> QED BY <1>3, <1>4, <1>5

\* It repays k layers, or all there is, but for a debt token each.
LEMMA DeleverageTakes ==
  ASSUME NEW p \in Positions, NEW r \in PoolRates, r.b >= Unit12, NEW k \in Nat,
         NEW q, q = Deleveraged(p, k, r),
         NEW rest, rest = Larger(Debt(p, r) - k * UnwindLayer(p, r), 0)
  PROVE  /\ rest \in Nat /\ q.b \in Nat /\ q.d \in Nat
         /\ rest * Unit12 <= q.d * r.d
         /\ q.d * r.d + Debt(p, r) * Unit12 <= p.d * r.d + rest * Unit12 + k * r.d
<1> DEFINE debt == Debt(p, r)
           layer == UnwindLayer(p, r)
           After(i) == Larger(debt - i * layer, 0)
<1>1. PICK m, left, g : DeleverageBy(p, k, r, m, left, g)
  BY DeleveragePairs
<1>2. debt \in Nat /\ layer \in Nat /\ debt * Unit12 <= p.d * r.d
  BY LayerIsNat
<1>3. /\ m \in [1..k -> Nat] /\ left \in [0..k -> Nat] /\ left[0] = debt
      /\ \A i \in 1..k : left[i] = left[i - 1] - m[i]
      /\ \A i \in 1..k : m[i] = Smaller(layer, left[i - 1])
      /\ g[0] = Ask(p) /\ q = g[k]
      /\ \A i \in 1..k : g[i] = Pair(g[i - 1], m[i], r)
  BY <1>1 DEF DeleverageBy
<1>4. rest = After(k)
  OBVIOUS
<1> HIDE DEF debt, layer
<1>5. left[k] = After(k)
  <2> DEFINE K == {i \in 0..k : left[i] = After(i)}
  <2>1. 0 \in K
    <3>1. 0 * layer = 0
      BY <1>2
    <3> QED BY <1>2, <1>3, <3>1 DEF Larger
  <2>2. ASSUME NEW i \in 1..k, i - 1 \in K PROVE i \in K
    <3>1. i \in 0..k /\ left[i - 1] = After(i - 1)
      BY <2>2
    <3>2. left[i] = left[i - 1] - Smaller(layer, left[i - 1])
      BY <1>3
    <3>3. (i - 1) * layer = i * layer - layer /\ i * layer \in Int
      BY <1>2, Z3
    <3>4. left[i] = After(i)
      BY <1>2, <3>1, <3>2, <3>3 DEF Larger, Smaller
    <3> HIDE DEF After
    <3> QED BY <3>1, <3>4
  <2>3. \A i \in 0..k : i \in K
    <3> HIDE DEF K
    <3> QED BY <2>1, <2>2, EveryStep
  <2>4. k \in 0..k
    OBVIOUS
  <2> HIDE DEF After
  <2> QED BY <2>3, <2>4
<1> HIDE DEF After
<1>6. k \in 0..k /\ left[k] = rest /\ rest \in Nat
  BY <1>3, <1>4, <1>5
<1>7. left[0] * Unit12 <= p.d * r.d
  BY <1>2, <1>3
<1>8. g[k] \in Running /\ left[k] * Unit12 <= g[k].d * r.d
  <2>1. \A i \in 0..k :
          /\ g[i] \in Running /\ g[i].cash <= 0 /\ g[i].d <= p.d
          /\ g[i].d * r.d \in Int /\ left[i] * Unit12 <= g[i].d * r.d
          /\ Worth(g[i], r) \in Int
          /\ Worth(g[i], r) + i * (r.b + r.d) >= p.b * r.b - p.d * r.d
    BY <1>3, <1>7, PairsCost
  <2> QED BY <1>6, <2>1
<1>9. /\ g[k].b \in Nat /\ g[k].d >= 0
      /\ g[k].d * r.d + left[0] * Unit12 <= p.d * r.d + left[k] * Unit12 + k * r.d
  <2>1. \A i \in 0..k :
          /\ g[i].b \in Nat /\ g[i].d >= 0
          /\ g[i].b = 0 \/ g[i].cash = 0
          /\ g[i].d * r.d + left[0] * Unit12 <= p.d * r.d + left[i] * Unit12 + i * r.d
    BY <1>3, <1>7, PairsTake
  <2> QED BY <1>6, <2>1
<1>10. q.d \in Int
  BY <1>3, <1>8, UnitsAreInts
<1> QED BY <1>3, <1>6, <1>8, <1>9, <1>10 DEF debt

\* submit_releverage: one borrowing, supplied again.
LEMMA ReleverageCosts ==
  ASSUME NEW p \in Positions, NEW r \in PoolRates, NEW a \in Int,
         NEW q, q = Releveraged(p, a, r)
  PROVE  /\ q \in Running /\ q.cash = 0
         /\ Worth(q, r) \in Int
         /\ Worth(q, r) + (r.b + r.d) >= p.b * r.b - p.d * r.d
<1> DEFINE c == BorrowRequest(Ask(p), a, r)
           W == p.b * r.b - p.d * r.d
<1>1. Ask(p) \in Running /\ Ask(p).cash = 0 /\ Worth(Ask(p), r) = W /\ W \in Int
  BY AskIsRunning
<1> HIDE DEF W
<1>2. /\ c \in Running /\ c.cash = Ask(p).cash + a
      /\ Worth(c, r) \in Int /\ Worth(c, r) > Worth(Ask(p), r) - r.d
  <2>1. Ask(p) \in Running
    BY <1>1
  <2> QED BY <2>1, BorrowCosts
<1>3. q = SupplyRequest(c, a, r)
  BY DEF Releveraged
<1> HIDE DEF c
<1>4. /\ q \in Running /\ q.cash = c.cash - a
      /\ Worth(q, r) \in Int /\ Worth(q, r) > Worth(c, r) - r.b
  <2>1. c \in Running
    BY <1>2
  <2> QED BY <1>3, <2>1, SupplyCosts
<1>5. q.cash = 0
  BY <1>1, <1>2, <1>4
<1>6. Worth(q, r) + (r.b + r.d) >= W
  BY <1>1, <1>2, <1>4, UnitsAreInts
<1> QED BY <1>4, <1>5, <1>6 DEF W

\* compute_partial_unwind and compute_releverage divide by a positive number.
LEMMA LoopsOfUnwind ==
  ASSUME NEW p \in Positions, NEW r \in PoolRates, NEW k \in Risks, NEW t \in Nat, t >= OrangeHf
  PROVE  UnwindLoops(p, r, k.l, t) \in Int
<1> DEFINE cl == EffectiveCFactor(k.l)
           short == t * Debt(p, r) - Supply(p, r) * cl
           layer == UnwindLayer(p, r)
           need == RepayNeeded(p, r, k.l, t)
<1>1. cl \in Nat /\ t - cl \in Nat \ {0}
  BY TargetsClear, VaultConstantsOK
<1>2. Debt(p, r) \in Nat /\ layer \in Nat
  BY LayerIsNat
<1>3. Supply(p, r) \in Int
  <2>1. p.b \in Int /\ r.b \in Int
    BY UnitsAreInts DEF Positions
  <2> QED BY <2>1, UnitsAreInts, MulFloorBounds DEF Supply
<1>4. short \in Int
  BY <1>1, <1>2, <1>3, Z3
<1>5. need \in Int
  <2>1. \A x \in Int, z \in Nat \ {0} : x \div z \in Int
    BY Z3
  <2>2. short \div (t - cl) \in Int
    <3> HIDE DEF short, cl
    <3> QED BY <1>1, <1>4, <2>1
  <2>3. need = Smaller(short \div (t - cl) + 1, Debt(p, r))
    BY DEF RepayNeeded
  <2> HIDE DEF short, cl, need
  <2> QED BY <1>2, <2>2, <2>3 DEF Smaller
<1> HIDE DEF short, cl, need, layer
<1>6. CASE layer = 0
  BY <1>6 DEF UnwindLoops, layer
<1>7. CASE layer # 0
  <2> DEFINE c == MulCeil(need, 1, layer)
  <2>1. c \in Int
    BY <1>2, <1>5, <1>7, MulCeilBounds
  <2>2. UnwindLoops(p, r, k.l, t) \in {0, Larger(1, Smaller(MaxLayers, c))}
    BY <1>7 DEF UnwindLoops, layer, need
  <2> HIDE DEF c
  <2> QED BY <2>1, <2>2, MathConstantsOK DEF Larger, Smaller
<1> QED BY <1>6, <1>7

\* What compute_releverage asks to borrow is a number.
LEMMA ReleverageAmount ==
  ASSUME NEW p \in Positions, NEW r \in PoolRates, NEW k \in Risks, NEW t \in Int, t >= OrangeHf
  PROVE  ComputeReleverage(p, r, k.l, t) \in Int
<1> DEFINE cl == EffectiveCFactor(k.l)
           slack == Supply(p, r) * cl - t * Debt(p, r)
<1>1. cl \in Nat /\ t - cl \in Nat \ {0}
  BY TargetsClear, VaultConstantsOK
<1>2. Debt(p, r) \in Nat
  BY LayerIsNat
<1>3. Supply(p, r) \in Int
  <2>1. p.b \in Int /\ r.b \in Int
    BY UnitsAreInts DEF Positions
  <2> QED BY <2>1, UnitsAreInts, MulFloorBounds DEF Supply
<1>4. slack \in Int
  BY <1>1, <1>2, <1>3, Z3
<1>5. slack \div (t - cl) \in Int
  <2>1. \A x \in Int, z \in Nat \ {0} : x \div z \in Int
    BY Z3
  <2> HIDE DEF slack, cl
  <2> QED BY <1>1, <1>4, <2>1
<1>6. ComputeReleverage(p, r, k.l, t) \in {0, slack \div (t - cl) - 1}
  BY DEF ComputeReleverage, Larger
<1> HIDE DEF slack, cl
<1> QED BY <1>5, <1>6

\* Repaying a debt in full pays at least what part of it would have cost.
LEMMA RepayAllCosts ==
  ASSUME NEW q \in Running, NEW r \in PoolRates, r.d >= Unit12, NEW a \in Nat,
         a * Unit12 <= q.d * r.d,
         NEW n, n = RepayAllRequest(q, r)
  PROVE  /\ n \in Running
         /\ n.cash <= q.cash - a
         /\ Worth(q, r) \in Int /\ Worth(n, r) \in Int
         /\ Worth(n, r) > Worth(q, r) - r.d
<1> DEFINE y == MulCeil(q.d, r.d, Unit12)
           u == 0
           v == q.cash - y
<1>0. r.d \in Int /\ q.d \in Int /\ q.cash \in Int
  BY UnitsAreInts
<1>1. y \in Int /\ q.d * r.d <= y * Unit12 /\ y * Unit12 < q.d * r.d + Unit12
  BY <1>0, UnitsAreInts, MulCeilBounds
<1>3. n = [q EXCEPT !.d = u, !.cash = v]
  BY DEF RepayAllRequest
<1>4. u \in Int /\ v \in Int
  BY <1>0, <1>1
<1> HIDE DEF y
<1>5. n \in Running /\ n.b = q.b /\ n.d = u /\ n.cash = v
  <2> HIDE DEF u, v
  <2> QED BY <1>3, <1>4 DEF Running
<1>6. n.b = q.b + 0 /\ n.d = q.d + (-q.d) /\ n.cash = q.cash + (-y) /\ -y \in Int /\ -q.d \in Int
  BY <1>0, <1>1, <1>5, UnitsAreInts
<1>7. /\ Worth(q, r) \in Int /\ Worth(n, r) \in Int
      /\ Worth(n, r) = Worth(q, r) + 0 * r.b - (-q.d) * r.d + (-y) * Unit12
  BY <1>5, <1>6, WorthMoves
<1>8. /\ 0 * r.b = 0 /\ (-q.d) * r.d = -(q.d * r.d) /\ q.d * r.d \in Int
      /\ (-y) * Unit12 = -(y * Unit12) /\ y * Unit12 \in Int /\ a * Unit12 \in Int
  BY <1>0, <1>1, UnitsAreInts, Z3
<1>9. Worth(n, r) > Worth(q, r) - r.d
  BY <1>0, <1>1, <1>7, <1>8, UnitsAreInts
<1>10. a <= y
  <2>1. \A s, t \in Int, z \in Nat \ {0} : s * z <= t * z => s <= t
    BY Z3
  <2>2. a * Unit12 <= y * Unit12
    BY <1>1, <1>8
  <2> QED BY <1>1, <2>1, <2>2, UnitsAreInts
<1> QED BY <1>0, <1>1, <1>5, <1>7, <1>9, <1>10

\* submit_unwind: the pairs of one unwind, of equal steps but for the last, that
\* repays all where all is to be repaid.
StepOf(debt) == debt \div TargetLoops
RestOf(debt) == debt - StepOf(debt) * (TargetLoops - 1)
LastPair(p, dRem, q, a, r) ==
  LET w == WithdrawRequest(q, a, r)
  IN IF dRem >= p.d THEN RepayAllRequest(w, r) ELSE RepayRequest(w, a, r)
UnwoundFrom(p, dRem, r, f) ==
  LET debt == MulFloor(dRem, r.d, Unit12)
      step == debt \div TargetLoops
      rest == debt - step * (TargetLoops - 1)
  IN f = [i \in 0..TargetLoops |->
            IF i = 0 THEN Ask(p)
            ELSE IF i < TargetLoops
            THEN RepayRequest(WithdrawRequest(f[i - 1], step, r), step, r)
            ELSE LET w == WithdrawRequest(f[i - 1], rest, r)
                 IN IF dRem >= p.d THEN RepayAllRequest(w, r)
                    ELSE RepayRequest(w, rest, r)]

\* The equal steps of an unwind fit in its debt, and the last takes the rest.
LEMMA StepsFit ==
  ASSUME NEW debt \in Nat
  PROVE  /\ StepOf(debt) \in Nat /\ RestOf(debt) \in Nat
         /\ \A i \in 0..(TargetLoops - 1) : debt - i * StepOf(debt) \in Nat
         /\ debt - (TargetLoops - 1) * StepOf(debt) = RestOf(debt)
<1> DEFINE s == StepOf(debt)
<1>1. TargetLoops \in Nat \ {0}
  BY LoopsAreNat
<1>2. s \in Nat /\ TargetLoops * s <= debt
  <2>1. \A x \in Nat, z \in Nat \ {0} : x \div z \in Nat
    BY Z3
  <2>2. TargetLoops * (debt \div TargetLoops) <= debt
    <3>1. debt \in Int
      OBVIOUS
    <3> QED BY <1>1, <3>1, DivBounds
  <2> QED BY <1>1, <2>1, <2>2 DEF StepOf
<1> HIDE DEF s
<1>3. ASSUME NEW i \in 0..(TargetLoops - 1) PROVE debt - i * s \in Nat
  <2>1. \A x, y, z \in Nat : x <= y => x * z <= y * z /\ x * z \in Nat
    BY Z3
  <2>2. i \in Nat /\ i <= TargetLoops
    BY <1>1
  <2>3. i * s <= TargetLoops * s /\ i * s \in Nat /\ TargetLoops * s \in Nat
    BY <1>1, <1>2, <2>1, <2>2
  <2> QED BY <1>2, <2>3
<1>4. (TargetLoops - 1) * s = s * (TargetLoops - 1)
  BY <1>1, <1>2, Z3
<1>5. debt - (TargetLoops - 1) * s = RestOf(debt)
  BY <1>4 DEF RestOf, s
<1>6. TargetLoops - 1 \in 0..(TargetLoops - 1)
  BY <1>1
<1>7. RestOf(debt) \in Nat
  BY <1>3, <1>5, <1>6
<1> QED BY <1>2, <1>3, <1>5, <1>7 DEF s

\* The steps of submit_unwind exist, whatever it is asked to repay.
LEMMA UnwoundExists ==
  ASSUME NEW p \in Positions, NEW r \in PoolRates, r.b >= Unit12, NEW dRem \in Nat
  PROVE  \E f : UnwoundFrom(p, dRem, r, f)
<1> DEFINE debt == MulFloor(dRem, r.d, Unit12)
           step == StepOf(debt)
           rest == RestOf(debt)
           Step(i, s) == IF i < TargetLoops THEN Pair(s, step, r) ELSE LastPair(p, dRem, s, rest, r)
           G == [x \in (1..TargetLoops) \X Running |-> Step(x[1], x[2])]
<1>1. step \in Int /\ rest \in Int
  <2>1. debt \in Nat
    BY DebtIsNat
  <2> HIDE DEF debt
  <2>2. step \in Nat /\ rest \in Nat
    BY <2>1, StepsFit
  <2> QED BY <2>2
<1> HIDE DEF step, rest
<1>2. ASSUME NEW i \in 1..TargetLoops, NEW s \in Running PROVE Step(i, s) \in Running
  <2>1. Pair(s, step, r) \in Running
    BY <1>1, PairRuns
  <2>2. WithdrawRequest(s, rest, r) \in Running
    BY <1>1, WithdrawCosts
  <2>3. LastPair(p, dRem, s, rest, r) \in Running
    BY <1>1, <2>2, RepaysRun DEF LastPair
  <2> QED BY <2>1, <2>3
<1> HIDE DEF Step
<1>3. G \in [(1..TargetLoops) \X Running -> Running]
  BY <1>2
<1>4. PICK f \in [0..TargetLoops -> Running] :
        f[0] = Ask(p) /\ \A i \in 1..TargetLoops : f[i] = G[<<i, f[i - 1]>>]
  <2> HIDE DEF G
  <2>1. Ask(p) \in Running
    BY AskIsRunning
  <2>2. TargetLoops \in Nat
    BY LoopsAreNat
  <2>3. Steps(TargetLoops, Running, Ask(p), G)
    BY <1>3, <2>1, <2>2, StepsExist
  <2> QED BY <2>3 DEF Steps
<1>5. ASSUME NEW i \in 1..TargetLoops PROVE f[i] = Step(i, f[i - 1])
  <2> HIDE DEF G
  <2>1. i - 1 \in 0..TargetLoops
    BY LoopsAreNat
  <2>2. f[i - 1] \in Running /\ f[i] = G[<<i, f[i - 1]>>]
    BY <1>4, <2>1
  <2> USE DEF G
  <2> QED BY <2>2
<1> HIDE DEF G
<1>6. UnwoundFrom(p, dRem, r, f)
  <2>1. \A i \in 0..TargetLoops : i # 0 => i \in 1..TargetLoops
    BY LoopsAreNat
  <2> QED BY <1>4, <1>5, <2>1 DEF UnwoundFrom, Step, Pair, LastPair, step, rest, StepOf, RestOf
<1> QED BY <1>6

\* The pairs of submit_unwind and the request that ends it: m what each pair but
\* the last repays, left what is still to repay after it, g the pool's answers.
UnwoundBy(p, bRem, dRem, r, m, left, g) ==
  LET L == TargetLoops
      debt == MulFloor(dRem, r.d, Unit12)
  IN /\ m \in [1..(L - 1) -> Nat] /\ left \in [0..(L - 1) -> Nat]
     /\ left[0] = debt
     /\ \A i \in 1..(L - 1) : left[i] = left[i - 1] - m[i]
     /\ g[0] = Ask(p)
     /\ \A i \in 1..(L - 1) : g[i] = Pair(g[i - 1], m[i], r)
     /\ g[L] = LastPair(p, dRem, g[L - 1], left[L - 1], r)
     /\ Unwound(p, bRem, dRem, r) =
          WithdrawRequest(g[L], Larger(MulFloor(bRem, r.b, Unit12) - debt, 0), r)

\* Part of the debt is no more than all of it.
LEMMA PartOfDebt ==
  ASSUME NEW p \in Positions, NEW r \in PoolRates, NEW dRem \in Nat, dRem <= p.d
  PROVE  LET debt == MulFloor(dRem, r.d, Unit12)
         IN debt \in Nat /\ debt * Unit12 <= p.d * r.d /\ debt * Unit12 <= dRem * r.d
<1> DEFINE debt == MulFloor(dRem, r.d, Unit12)
<1>1. debt \in Nat /\ dRem * r.d \in Int /\ debt * Unit12 <= dRem * r.d
  BY DebtIsNat
<1>2. \A x, y, z \in Nat : x <= y => x * z <= y * z /\ y * z \in Nat
  BY Z3
<1>3. dRem * r.d <= p.d * r.d /\ p.d * r.d \in Nat
  BY <1>2, UnitsAreInts DEF Positions
<1>4. debt * Unit12 \in Int
  BY <1>1, UnitsAreInts, Z3
<1> HIDE DEF debt
<1> QED BY <1>1, <1>3, <1>4 DEF debt

\* There are such pairs, whatever the unwind is asked to repay.
LEMMA UnwoundPairs ==
  ASSUME NEW p \in Positions, NEW r \in PoolRates, r.b >= Unit12,
         NEW bRem \in Nat, NEW dRem \in Nat, dRem <= p.d
  PROVE  \E m, left, g : UnwoundBy(p, bRem, dRem, r, m, left, g)
<1> DEFINE L == TargetLoops
           debt == MulFloor(dRem, r.d, Unit12)
           step == StepOf(debt)
           rest == RestOf(debt)
           left == [i \in 0..(L - 1) |-> debt - i * step]
           m == [i \in 1..(L - 1) |-> step]
           g == CHOOSE f : UnwoundFrom(p, dRem, r, f)
<1>0. L \in Nat \ {0} /\ L - 1 \in Nat
  BY LoopsAreNat
<1>1. debt \in Nat
  BY PartOfDebt
<1>2. Unwound(p, bRem, dRem, r) = WithdrawRequest(g[L], Larger(MulFloor(bRem, r.b, Unit12) - debt, 0), r)
  BY DEF Unwound, UnwoundFrom
<1>3. UnwoundFrom(p, dRem, r, g)
  BY UnwoundExists
<1> HIDE DEF g
<1>4. /\ g[0] = Ask(p)
      /\ \A i \in 1..(L - 1) : g[i] = Pair(g[i - 1], step, r)
      /\ g[L] = LastPair(p, dRem, g[L - 1], rest, r)
  <2>1. /\ L \in 0..L /\ L # 0 /\ ~(L < L) /\ 0 \in 0..L
        /\ \A i \in 1..(L - 1) : i \in 0..L /\ i # 0 /\ i < L
    BY <1>0
  <2>2. g[0] = Ask(p)
    BY <1>3, <2>1 DEF UnwoundFrom
  <2>3. \A i \in 1..(L - 1) : g[i] = Pair(g[i - 1], step, r)
    BY <1>3, <2>1 DEF UnwoundFrom, Pair, StepOf
  <2>4. g[L] = LastPair(p, dRem, g[L - 1], rest, r)
    BY <1>3, <2>1 DEF UnwoundFrom, LastPair, StepOf, RestOf
  <2> QED BY <2>2, <2>3, <2>4
<1> HIDE DEF debt
<1>5. /\ step \in Nat /\ rest \in Nat
      /\ \A i \in 0..(L - 1) : debt - i * step \in Nat
      /\ debt - (L - 1) * step = rest
  BY <1>1, StepsFit
<1> HIDE DEF step, rest
<1>6. /\ m \in [1..(L - 1) -> Nat] /\ left \in [0..(L - 1) -> Nat]
      /\ \A i \in 1..(L - 1) : m[i] = step
      /\ left[0] = debt /\ left[L - 1] = rest
      /\ \A i \in 1..(L - 1) : left[i] = left[i - 1] - m[i]
  <2>1. 0 \in 0..(L - 1) /\ L - 1 \in 0..(L - 1)
    BY <1>0
  <2>2. 0 * step = 0 /\ debt - 0 = debt
    BY <1>1, <1>5
  <2>3. ASSUME NEW i \in 1..(L - 1) PROVE left[i] = left[i - 1] - m[i]
    <3>1. i \in 0..(L - 1) /\ i - 1 \in 0..(L - 1) /\ i \in Int
      BY <1>0
    <3>2. (i - 1) * step = i * step - step /\ i * step \in Int
      BY <1>5, <3>1, Z3
    <3>3. left[i] = debt - i * step /\ left[i - 1] = debt - (i - 1) * step /\ m[i] = step
      BY <3>1
    <3> HIDE DEF left, m
    <3> QED BY <1>1, <1>5, <3>2, <3>3
  <2> QED BY <1>5, <2>1, <2>2, <2>3
<1> HIDE DEF left, m
<1>7. UnwoundBy(p, bRem, dRem, r, m, left, g)
  BY <1>2, <1>4, <1>6 DEF UnwoundBy, debt
<1> QED BY <1>7

\* The cash a withdrawal leaves is at most the equity it asks for, and what it
\* costs besides is a token of each kind per pair, and one for the last request.
LEMMA UnwoundCosts ==
  ASSUME NEW p \in Positions, NEW r \in PoolRates, r.b >= Unit12, r.d >= Unit12,
         NEW bRem \in Nat, NEW dRem \in Nat, dRem <= p.d,
         NEW q, q = Unwound(p, bRem, dRem, r)
  PROVE  /\ q \in Running
         /\ q.cash <= Larger(MulFloor(bRem, r.b, Unit12) - MulFloor(dRem, r.d, Unit12), 0)
         /\ Worth(q, r) \in Int
         /\ Worth(q, r) + TargetLoops * (r.b + r.d) + r.b >= p.b * r.b - p.d * r.d
<1> DEFINE L == TargetLoops
           k == r.b + r.d
           W == p.b * r.b - p.d * r.d
           debt == MulFloor(dRem, r.d, Unit12)
           out == Larger(MulFloor(bRem, r.b, Unit12) - debt, 0)
<1>0. /\ r.b \in Nat \ {0} /\ r.d \in Nat \ {0} /\ k \in Int /\ W \in Int /\ p.d \in Nat
      /\ L \in Nat \ {0} /\ L - 1 \in Nat
  BY UnitsAreInts, AskIsRunning, LoopsAreNat DEF Positions
<1>1. debt \in Nat /\ debt * Unit12 <= p.d * r.d
  BY PartOfDebt
<1>2. PICK m, left, g : UnwoundBy(p, bRem, dRem, r, m, left, g)
  BY UnwoundPairs
<1> DEFINE rest == left[L - 1]
<1>3. out \in Int
  <2>1. r.b \in Int /\ bRem \in Int
    BY <1>0
  <2>2. MulFloor(bRem, r.b, Unit12) \in Int
    BY <2>1, UnitsAreInts, MulFloorBounds
  <2> HIDE DEF debt
  <2> QED BY <1>1, <2>2 DEF Larger
<1>4. q = WithdrawRequest(g[L], out, r) /\ g[L] = LastPair(p, dRem, g[L - 1], rest, r)
  BY <1>2 DEF UnwoundBy
<1>5. /\ m \in [1..(L - 1) -> Nat] /\ left \in [0..(L - 1) -> Nat]
      /\ left[0] = debt
      /\ \A i \in 1..(L - 1) : left[i] = left[i - 1] - m[i]
      /\ g[0] = Ask(p)
      /\ \A i \in 1..(L - 1) : g[i] = Pair(g[i - 1], m[i], r)
  BY <1>2 DEF UnwoundBy
<1> HIDE DEF debt, out
<1>6. rest \in Nat
  <2>1. L - 1 \in 0..(L - 1)
    BY <1>0
  <2> QED BY <1>5, <2>1
<1>8. /\ g[L - 1] \in Running /\ g[L - 1].cash <= 0
      /\ g[L - 1].d * r.d \in Int /\ rest * Unit12 <= g[L - 1].d * r.d
      /\ Worth(g[L - 1], r) \in Int
      /\ Worth(g[L - 1], r) + (L - 1) * k >= W
  <2>1. L - 1 \in Nat /\ left[0] * Unit12 <= p.d * r.d
    BY <1>0, <1>1, <1>5
  <2>2. \A i \in 0..(L - 1) :
          /\ g[i] \in Running /\ g[i].cash <= 0 /\ g[i].d <= p.d
          /\ g[i].d * r.d \in Int /\ left[i] * Unit12 <= g[i].d * r.d
          /\ Worth(g[i], r) \in Int
          /\ Worth(g[i], r) + i * (r.b + r.d) >= p.b * r.b - p.d * r.d
    <3> HIDE DEF L
    <3> QED BY <1>5, <2>1, PairsCost
  <2>3. L - 1 \in 0..(L - 1)
    BY <1>0
  <2> QED BY <2>2, <2>3
<1> HIDE DEF rest, k, W
<1>9. /\ g[L] \in Running /\ g[L].cash <= 0
      /\ Worth(g[L], r) \in Int /\ Worth(g[L], r) + k >= Worth(g[L - 1], r)
  <2> DEFINE s == g[L - 1]
             w == WithdrawRequest(s, rest, r)
             n == LastPair(p, dRem, s, rest, r)
  <2>1. s \in Running /\ rest \in Int
    BY <1>6, <1>8
  <2>2. /\ w \in Running /\ w.d = s.d /\ w.cash <= s.cash + rest
        /\ Worth(w, r) \in Int /\ Worth(w, r) > Worth(s, r) - r.b
    <3> HIDE DEF s
    <3> QED BY <2>1, WithdrawCosts
  <2>3. rest * Unit12 <= w.d * r.d
    BY <1>8, <2>2
  <2>4. n = IF dRem >= p.d THEN RepayAllRequest(w, r) ELSE RepayRequest(w, rest, r)
    BY DEF LastPair
  <2>5. g[L] = n /\ s.cash <= 0 /\ Worth(s, r) \in Int
    BY <1>4, <1>8
  <2> HIDE DEF s, w, n
  <2>6. /\ n \in Running /\ n.cash <= w.cash - rest
        /\ Worth(n, r) \in Int /\ Worth(n, r) > Worth(w, r) - r.d
    <3>1. CASE dRem >= p.d
      BY <1>6, <2>2, <2>3, <2>4, <3>1, RepayAllCosts
    <3>2. CASE ~(dRem >= p.d)
      <4>1. /\ n \in Running /\ n.cash = w.cash - rest
            /\ Worth(n, r) \in Int /\ Worth(n, r) > Worth(w, r) - r.d
        BY <1>6, <2>2, <2>3, <2>4, <3>2, RepayCosts
      <4>2. w.cash - rest \in Int
        BY <1>6, <2>2, UnitsAreInts
      <4> QED BY <4>1, <4>2
    <3> QED BY <3>1, <3>2
  <2>7. n.cash <= 0
    <3>1. \A x, y, z, c \in Int : x <= y - c /\ y <= z + c /\ z <= 0 => x <= 0
      OBVIOUS
    <3>2. n.cash \in Int /\ w.cash \in Int /\ s.cash \in Int
      BY <2>1, <2>2, <2>6, UnitsAreInts
    <3> QED BY <2>1, <2>2, <2>5, <2>6, <3>1, <3>2
  <2>8. Worth(n, r) + k >= Worth(s, r)
    BY <1>0, <2>2, <2>5, <2>6 DEF k
  <2> QED BY <2>5, <2>6, <2>7, <2>8 DEF s
<1>10. /\ q \in Running /\ q.cash <= g[L].cash + out
       /\ Worth(q, r) \in Int /\ Worth(q, r) > Worth(g[L], r) - r.b
  <2>1. g[L] \in Running
    BY <1>9
  <2> QED BY <1>3, <1>4, <2>1, WithdrawCosts
<1>11. q.cash <= out
  <2>1. \A x, y, z \in Int : x <= y + z /\ y <= 0 => x <= z
    OBVIOUS
  <2>2. q.cash \in Int /\ g[L].cash \in Int
    BY <1>9, <1>10, UnitsAreInts
  <2> QED BY <1>3, <1>9, <1>10, <2>1, <2>2
<1>12. Worth(q, r) + L * k + r.b >= W
  <2>1. L * k = (L - 1) * k + k /\ (L - 1) * k \in Int
    BY <1>0, Z3
  <2> QED BY <1>0, <1>8, <1>9, <1>10, <2>1
<1> QED BY <1>10, <1>11, <1>12 DEF out, debt, k, W

\* The other side of what an unwind of part of a position costs: it repays what
\* it is to but for a debt token a pair, and pays out all it should unless the
\* collateral is gone.
LEMMA UnwoundTakes ==
  ASSUME NEW p \in Positions, NEW r \in PoolRates, r.b >= Unit12, r.d >= Unit12,
         NEW bRem \in Nat, NEW dRem \in Nat, dRem <= p.d, dRem >= p.d => p.d <= 0,
         NEW q, q = Unwound(p, bRem, dRem, r),
         NEW debt, debt = MulFloor(dRem, r.d, Unit12)
  PROVE  /\ q.b \in Nat /\ q.d \in Nat
         /\ q.b = 0 \/ q.cash = Larger(MulFloor(bRem, r.b, Unit12) - debt, 0)
         /\ q.d * r.d + debt * Unit12 <= p.d * r.d + TargetLoops * r.d
<1> DEFINE L == TargetLoops
           out == Larger(MulFloor(bRem, r.b, Unit12) - debt, 0)
<1>0. /\ r.b \in Nat \ {0} /\ r.d \in Nat \ {0} /\ p.d \in Nat
      /\ L \in Nat \ {0} /\ L - 1 \in Nat
  BY UnitsAreInts, LoopsAreNat DEF Positions
<1>1. debt \in Nat /\ debt * Unit12 <= p.d * r.d
  BY PartOfDebt
<1>2. PICK m, left, g : UnwoundBy(p, bRem, dRem, r, m, left, g)
  BY UnwoundPairs
<1> DEFINE rest == left[L - 1]
           s == g[L - 1]
           w == WithdrawRequest(s, rest, r)
           n == LastPair(p, dRem, s, rest, r)
<1>3. out \in Nat
  <2>1. r.b \in Int /\ bRem \in Int
    BY <1>0
  <2>2. MulFloor(bRem, r.b, Unit12) \in Int
    BY <2>1, UnitsAreInts, MulFloorBounds
  <2> QED BY <1>1, <2>2 DEF Larger
<1>4. q = WithdrawRequest(g[L], out, r) /\ g[L] = n
  BY <1>2 DEF UnwoundBy
<1>5. /\ m \in [1..(L - 1) -> Nat] /\ left \in [0..(L - 1) -> Nat]
      /\ left[0] = debt
      /\ \A i \in 1..(L - 1) : left[i] = left[i - 1] - m[i]
      /\ g[0] = Ask(p)
      /\ \A i \in 1..(L - 1) : g[i] = Pair(g[i - 1], m[i], r)
  BY <1>2 DEF UnwoundBy
<1>6. rest \in Nat /\ L - 1 \in 0..(L - 1) /\ left[0] * Unit12 <= p.d * r.d
  <2>1. L - 1 \in 0..(L - 1)
    BY <1>0
  <2> QED BY <1>1, <1>5, <2>1
<1>7. /\ s \in Running /\ s.d <= p.d
      /\ s.d * r.d \in Int /\ rest * Unit12 <= s.d * r.d
  <2>1. \A i \in 0..(L - 1) :
          /\ g[i] \in Running /\ g[i].cash <= 0 /\ g[i].d <= p.d
          /\ g[i].d * r.d \in Int /\ left[i] * Unit12 <= g[i].d * r.d
          /\ Worth(g[i], r) \in Int
          /\ Worth(g[i], r) + i * (r.b + r.d) >= p.b * r.b - p.d * r.d
    <3> HIDE DEF L
    <3> QED BY <1>0, <1>5, <1>6, PairsCost
  <2> QED BY <1>6, <2>1
<1>8. /\ s.b \in Nat /\ s.d >= 0 /\ (s.b = 0 \/ s.cash = 0)
      /\ s.d * r.d + debt * Unit12 <= p.d * r.d + rest * Unit12 + (L - 1) * r.d
  <2>1. \A i \in 0..(L - 1) :
          /\ g[i].b \in Nat /\ g[i].d >= 0
          /\ g[i].b = 0 \/ g[i].cash = 0
          /\ g[i].d * r.d + left[0] * Unit12 <= p.d * r.d + left[i] * Unit12 + i * r.d
    <3> HIDE DEF L
    <3> QED BY <1>0, <1>5, <1>6, PairsTake
  <2> QED BY <1>5, <1>6, <2>1
<1> HIDE DEF out
<1>9. w \in Running /\ w.d = s.d
  <2>1. rest \in Int
    BY <1>6
  <2> HIDE DEF s, rest
  <2> QED BY <1>7, <2>1, WithdrawCosts
<1>10. w.b \in Nat /\ (s.b = 0 => w.b = 0) /\ (w.b = 0 \/ w.cash = s.cash + rest)
  <2> HIDE DEF s, rest
  <2> QED BY <1>6, <1>7, <1>8, WithdrawTakes
<1>11. n = IF dRem >= p.d THEN RepayAllRequest(w, r) ELSE RepayRequest(w, rest, r)
  BY DEF LastPair
<1> HIDE DEF s, rest, w, n
<1>12. rest * Unit12 <= w.d * r.d /\ rest * Unit12 \in Int
  BY <1>6, <1>7, <1>9, UnitsAreInts, Z3
<1>13. /\ n \in Running /\ n.b = w.b /\ n.d >= 0 /\ n.cash = w.cash - rest
       /\ n.d * r.d \in Int
       /\ n.d * r.d < s.d * r.d - rest * Unit12 + r.d
  <2>1. CASE ~(dRem >= p.d)
    <3>1. n = RepayRequest(w, rest, r)
      BY <1>11, <2>1
    <3>2. n \in Running /\ n.d * r.d \in Int
      BY <1>6, <1>9, <1>12, <3>1, RepayCosts
    <3>3. n.b = w.b /\ n.d >= 0 /\ n.cash = w.cash - rest /\ n.d * r.d < w.d * r.d - rest * Unit12 + r.d
      BY <1>6, <1>9, <1>12, <3>1, RepayTakes
    <3> QED BY <1>9, <3>2, <3>3
  <2>2. CASE dRem >= p.d
    <3>1. p.d = 0
      BY <1>0, <2>2
    <3>2. s.d = 0
      <4>1. s.d \in Int
        BY <1>7, UnitsAreInts
      <4> QED BY <1>7, <1>8, <3>1, <4>1
    <3>3. rest = 0
      <4>1. \A x \in Nat, z \in Nat \ {0} : x * z <= 0 => x = 0
        BY Z3
      <4>2. 0 * r.d = 0
        BY <1>0
      <4> QED BY <1>6, <1>7, <3>2, <4>1, <4>2, UnitsAreInts
    <3> DEFINE y == MulCeil(0, r.d, Unit12)
               u == 0
               v == w.cash - y
    <3>4. y = 0
      <4>1. y \in Int /\ 0 * r.d <= y * Unit12 /\ y * Unit12 < 0 * r.d + Unit12
        <5>1. 0 \in Int /\ r.d \in Int
          BY <1>0
        <5> QED BY <5>1, UnitsAreInts, MulCeilBounds
      <4>2. \A x \in Int, z \in Nat \ {0} : 0 <= x * z /\ x * z < z => x = 0
        BY Z3
      <4>3. 0 * r.d = 0 /\ y * Unit12 \in Int
        BY <1>0, <4>1, UnitsAreInts, Z3
      <4> HIDE DEF y
      <4>4. 0 <= y * Unit12 /\ y * Unit12 < Unit12
        BY <4>1, <4>3, UnitsAreInts
      <4> QED BY <4>1, <4>2, <4>4, UnitsAreInts
    <3>5. n = [w EXCEPT !.d = u, !.cash = v]
      BY <1>9, <1>11, <2>2, <3>2 DEF RepayAllRequest
    <3> HIDE DEF y
    <3>6. u \in Int /\ v \in Int
      BY <1>9, <3>4, UnitsAreInts
    <3>7. n \in Running /\ n.b = w.b /\ n.d = u /\ n.cash = v
      <4> HIDE DEF u, v
      <4> QED BY <1>9, <3>5, <3>6 DEF Running
    <3>8. 0 * r.d = 0 /\ 0 * Unit12 = 0
      BY <1>0, UnitsAreInts
    <3>9. n.d * r.d = 0 /\ s.d * r.d = 0 /\ rest * Unit12 = 0
      BY <3>2, <3>3, <3>7, <3>8
    <3>10. n.cash = w.cash - rest
      BY <1>9, <3>3, <3>4, <3>7, UnitsAreInts
    <3>11. n.d >= 0 /\ n.d * r.d \in Int
      BY <3>7, <3>9
    <3>12. n.d * r.d < s.d * r.d - rest * Unit12 + r.d
      <4>1. \A z \in Nat \ {0} : 0 < 0 - 0 + z
        OBVIOUS
      <4> QED BY <1>0, <3>9, <4>1
    <3> QED BY <3>7, <3>10, <3>11, <3>12
  <2> QED BY <2>1, <2>2
<1>14. q = WithdrawRequest(n, out, r) /\ n.b \in Nat /\ out \in Int
  BY <1>3, <1>4, <1>10, <1>13
<1>15. q.b \in Nat /\ (n.b = 0 => q.b = 0) /\ (q.b = 0 \/ q.cash = n.cash + out)
  BY <1>3, <1>13, <1>14, WithdrawTakes
<1>16. q \in Running /\ q.d = n.d
  <2>1. n \in Running
    BY <1>13
  <2> QED BY <1>14, <2>1, WithdrawCosts
<1>17. q.d \in Nat
  <2>1. q.d \in Int
    BY <1>16, UnitsAreInts
  <2> QED BY <1>13, <1>16, <2>1
<1>18. q.b = 0 \/ q.cash = out
  <2>1. SUFFICES ASSUME q.b # 0 PROVE q.cash = out
    OBVIOUS
  <2>2. n.b # 0 /\ w.b # 0 /\ s.b # 0
    BY <1>10, <1>13, <1>15, <2>1
  <2>3. s.cash = 0 /\ w.cash = s.cash + rest /\ n.cash = w.cash - rest /\ q.cash = n.cash + out
    BY <1>8, <1>10, <1>13, <1>15, <2>1, <2>2
  <2> QED BY <1>3, <1>6, <2>3
<1>19. q.d * r.d + debt * Unit12 <= p.d * r.d + L * r.d
  <2>1. (L - 1) * r.d = L * r.d - r.d /\ L * r.d \in Int /\ p.d * r.d \in Int /\ debt * Unit12 \in Int
    BY <1>0, <1>1, UnitsAreInts, Z3
  <2> DEFINE a == n.d * r.d
             b == s.d * r.d
             c == rest * Unit12
             d == debt * Unit12
             e == p.d * r.d
             f == L * r.d
             h == r.d
             j == (L - 1) * r.d
  <2>2. a \in Int /\ b \in Int /\ c \in Int /\ d \in Int /\ e \in Int /\ f \in Int /\ h \in Int
    BY <1>0, <1>7, <1>12, <1>13, <2>1
  <2>3. a < b - c + h /\ b + d <= e + c + j /\ j = f - h
    BY <1>8, <1>13, <2>1
  <2>4. q.d * r.d = a
    BY <1>16
  <2> HIDE DEF a, b, c, d, e, f, h, j
  <2>5. a + d <= e + f
    BY <2>2, <2>3
  <2> QED BY <2>4, <2>5 DEF d, e, f
<1> QED BY <1>15, <1>17, <1>18, <1>19 DEF out

-----------------------------------------------------------------------------
(* What the shares of others are worth *)

\* A submission that leaves no cash and costs n pairs of tokens leaves the
\* equity, but for one more.
LEMMA EquityKept ==
  ASSUME NEW p \in Positions, NEW r \in PoolRates, r.b >= Unit12, r.d >= Unit12,
         NEW q \in Running, q.cash <= 0, NEW n \in Nat,
         Worth(q, r) + n * (r.b + r.d) >= p.b * r.b - p.d * r.d
  PROVE  /\ Equity(Settled(q), r) \in Int /\ Equity(p, r) \in Int
         /\ Equity(Settled(q), r) + (n + 1) * PairOf(r) >= Equity(p, r)
<1> DEFINE E == Equity(p, r)
           e == Equity(Settled(q), r)
           W == p.b * r.b - p.d * r.d
           w == q.b * r.b - q.d * r.d
           P == PairOf(r)
           k == r.b + r.d
           s == Rounding(r)
<1>1. q.b \in Int /\ q.d \in Int /\ q.cash \in Int /\ p.b \in Int /\ p.d \in Int /\ k \in Int
  BY UnitsAreInts DEF Positions
<1>2. E \in Int /\ W \in Int /\ E * Unit12 \in Int /\ E * Unit12 <= W + s
  BY <1>1, EquityIsWorth
<1>3. e \in Int /\ w \in Int /\ e * Unit12 \in Int /\ e * Unit12 >= w - s
  <2>1. Settled(q).b = q.b /\ Settled(q).d = q.d
    BY DEF Settled
  <2>2. Settled(q).b \in Int /\ Settled(q).d \in Int
    BY <1>1, <2>1
  <2> QED BY <2>1, <2>2, EquityIsWorth
<1>4. P \in Nat \ {0} /\ P * Unit12 \in Int /\ k <= P * Unit12 /\ s \in Nat /\ 3 * s <= P * Unit12
  BY PairCovers
<1>5. w >= Worth(q, r) /\ Worth(q, r) \in Int
  <2>1. q.cash * Unit12 \in Int /\ q.cash * Unit12 <= 0
    <3>1. \A x \in Int, z \in Nat \ {0} : x <= 0 => x * z \in Int /\ x * z <= 0
      BY Z3
    <3> QED BY <1>1, <3>1, UnitsAreInts
  <2>2. Worth(q, r) = w + q.cash * Unit12
    BY DEF Worth
  <2> QED BY <1>3, <2>1, <2>2
<1>6. Worth(q, r) + n * k >= W
  OBVIOUS
<1> HIDE DEF E, e, W, w, P, k, s
<1>7. n * k <= n * (P * Unit12) /\ n * k \in Int /\ n * (P * Unit12) \in Int
  <2>1. \A x \in Nat, y, z \in Int : y <= z => x * y <= x * z /\ x * y \in Int /\ x * z \in Int
    BY Z3
  <2> QED BY <1>1, <1>4, <2>1
<1>8. e * Unit12 + n * (P * Unit12) + P * Unit12 >= E * Unit12
  BY <1>2, <1>3, <1>4, <1>5, <1>6, <1>7
<1>9. (e + (n + 1) * P) * Unit12 = e * Unit12 + n * (P * Unit12) + P * Unit12 /\ (n + 1) * P \in Int
  BY <1>3, <1>4, UnitsAreInts, Z3
<1>10. \A x, y \in Int, z \in Nat \ {0} : x * z <= y * z => x <= y
  BY Z3
<1>11. e + (n + 1) * P >= E
  BY <1>2, <1>3, <1>8, <1>9, <1>10, UnitsAreInts
<1> QED BY <1>2, <1>3, <1>11 DEF E, e, P

\* Where no share is minted or burned, what is left of the equity is left of
\* every share.
LEMMA SharesKept ==
  ASSUME NEW e \in Int, NEW d \in Nat, NEW E \in Int, e + d >= E, NEW t \in Nat
  PROVE  (Larger(e, 0) + d) * t >= Larger(E, 0) * t
<1> DEFINE x == Larger(E, 0)
           y == Larger(e, 0) + d
<1>1. x \in Nat /\ y \in Nat /\ x <= y
  BY DEF Larger
<1> HIDE DEF x, y
<1>2. x * t <= y * t /\ x * t \in Int /\ y * t \in Int
  BY <1>1, Z3
<1>3. y * t >= x * t
  BY <1>2
<1> QED BY <1>3 DEF x, y

\* What a withdrawal of n of t shares takes out is their part of the worth, but
\* for the rounding of the debt tokens it repays.
LEMMA PartTaken ==
  ASSUME NEW p \in Positions, NEW r \in PoolRates, NEW t \in Nat \ {0}, NEW n \in Nat, n < t,
         Equity(p, r) > 0,
         NEW bRem, bRem = MulFloor(n, p.b, t), NEW dRem, dRem = MulFloor(n, p.d, t),
         NEW out, out = Larger(MulFloor(bRem, r.b, Unit12) - MulFloor(dRem, r.d, Unit12), 0)
  PROVE  /\ bRem \in Nat /\ dRem \in Nat /\ dRem <= p.d /\ out \in Nat
         /\ t * (out * Unit12) <= n * (p.b * r.b - p.d * r.d) + t * (r.d + Rounding(r))
<1> DEFINE W == p.b * r.b - p.d * r.d
           s == Rounding(r)
           X == MulFloor(bRem, r.b, Unit12) - MulFloor(dRem, r.d, Unit12)
<1>0. /\ p.b \in Nat /\ p.d \in Nat /\ r.b \in Nat \ {0} /\ r.d \in Nat \ {0}
      /\ Unit12 \in Nat \ {0} /\ s \in Nat /\ s <= Unit12
  BY UnitsAreInts DEF Positions, Rounding
<1>1. /\ bRem \in Nat /\ bRem * t <= n * p.b /\ n * p.b \in Int
      /\ dRem \in Nat /\ dRem * t <= n * p.d /\ n * p.d < dRem * t + t /\ n * p.d \in Int
  <2>1. \A x \in Nat : MulFloor(n, x, t) \in Nat /\ n * x \in Int
    BY Z3 DEF MulFloor
  <2>2. \A x \in Nat : MulFloor(n, x, t) * t <= n * x /\ n * x < MulFloor(n, x, t) * t + t
    <3>1. n \in Int /\ Nat \subseteq Int
      OBVIOUS
    <3> QED BY <3>1, MulFloorBounds
  <2> QED BY <1>0, <2>1, <2>2
<1>2. dRem <= p.d
  <2>1. n * p.d <= p.d * t
    <3>1. \A x, y, z \in Nat : x <= y => x * z <= z * y
      BY Z3
    <3> QED BY <1>0, <3>1
  <2>2. \A x, y \in Nat, z \in Nat \ {0} : x * z <= y * z => x <= y
    BY Z3
  <2>3. dRem * t <= p.d * t
    <3>1. dRem * t \in Int /\ p.d * t \in Int
      BY <1>0, <1>1, Z3
    <3> QED BY <1>1, <2>1, <3>1
  <2> QED BY <1>0, <1>1, <2>2, <2>3
<1>3. /\ X \in Int /\ X * Unit12 \in Int
      /\ bRem * r.b - dRem * r.d \in Int
      /\ X * Unit12 <= bRem * r.b - dRem * r.d + s
  <2> DEFINE part == [b |-> bRem, d |-> dRem]
  <2>1. part.b = bRem /\ part.d = dRem /\ part.b \in Int /\ part.d \in Int
    BY <1>1
  <2>2. Equity(part, r) = X
    BY DEF Equity, Supply, Debt
  <2> HIDE DEF X, part
  <2> QED BY <2>1, <2>2, EquityIsWorth
<1>4. out = Larger(X, 0)
  OBVIOUS
<1>5. W \in Int /\ W >= 0
  <2>1. p.b \in Int /\ p.d \in Int
    BY <1>0
  <2>2. Equity(p, r) \in Int /\ W \in Int /\ Equity(p, r) * Unit12 \in Int /\ Equity(p, r) * Unit12 <= W + s
    BY <2>1, EquityIsWorth
  <2>3. \A x \in Int, z \in Nat \ {0} : x > 0 => x * z >= z
    BY Z3
  <2>4. Equity(p, r) * Unit12 >= Unit12
    BY <1>0, <2>2, <2>3
  <2> HIDE DEF W, s
  <2> QED BY <1>0, <2>2, <2>4
<1> HIDE DEF X, s
<1>6. t * (X * Unit12) <= n * W + t * (r.d + s)
  <2>1. /\ t * (bRem * r.b) <= n * (p.b * r.b) /\ t * (bRem * r.b) \in Int /\ n * (p.b * r.b) \in Int
    <3>1. \A x, y, z \in Nat : x <= y => x * z <= y * z
      BY Z3
    <3>2. (bRem * t) * r.b <= (n * p.b) * r.b
      <4>1. bRem * t \in Nat /\ n * p.b \in Nat
        BY <1>0, <1>1, Z3
      <4> QED BY <1>0, <1>1, <3>1, <4>1
    <3>3. (bRem * t) * r.b = t * (bRem * r.b) /\ (n * p.b) * r.b = n * (p.b * r.b)
      BY <1>0, <1>1, Z3
    <3>4. t * (bRem * r.b) \in Int /\ n * (p.b * r.b) \in Int
      BY <1>0, <1>1, Z3
    <3> QED BY <3>2, <3>3, <3>4
  <2>2. /\ n * (p.d * r.d) <= t * (dRem * r.d) + t * r.d
        /\ t * (dRem * r.d) \in Int /\ n * (p.d * r.d) \in Int /\ t * r.d \in Int
    <3>1. \A x, y, z \in Nat : x <= y => x * z <= y * z
      BY Z3
    <3>2. (n * p.d) * r.d <= (dRem * t + t) * r.d
      <4>1. dRem * t + t \in Nat /\ n * p.d \in Nat
        BY <1>0, <1>1, Z3
      <4> QED BY <1>0, <1>1, <3>1, <4>1
    <3>3. (dRem * t + t) * r.d = t * (dRem * r.d) + t * r.d /\ (n * p.d) * r.d = n * (p.d * r.d)
      BY <1>0, <1>1, Z3
    <3>4. t * (dRem * r.d) \in Int /\ n * (p.d * r.d) \in Int /\ t * r.d \in Int
      BY <1>0, <1>1, Z3
    <3> QED BY <3>2, <3>3, <3>4
  <2>3. t * (X * Unit12) <= t * (bRem * r.b) - t * (dRem * r.d) + t * s /\ t * (X * Unit12) \in Int /\ t * s \in Int
    <3>1. \A x, y \in Int : x <= y => t * x <= t * y /\ t * x \in Int /\ t * y \in Int
      BY Z3
    <3> DEFINE y == bRem * r.b - dRem * r.d + s
    <3>2. y \in Int /\ X * Unit12 <= y
      BY <1>0, <1>3
    <3>3. t * y = t * (bRem * r.b) - t * (dRem * r.d) + t * s /\ t * s \in Int
      BY <1>0, <1>1, Z3
    <3> HIDE DEF y
    <3>4. t * (X * Unit12) <= t * y /\ t * (X * Unit12) \in Int
      BY <1>3, <3>1, <3>2
    <3> QED BY <3>3, <3>4
  <2>4. n * W = n * (p.b * r.b) - n * (p.d * r.d) /\ t * (r.d + s) = t * r.d + t * s
    BY <1>0, Z3
  <2> HIDE DEF W
  <2> QED BY <2>1, <2>2, <2>3, <2>4
<1> HIDE DEF W
<1>7. n * W + t * (r.d + s) \in Nat
  <2>1. \A x, y \in Nat : x * y \in Nat
    BY Z3
  <2>2. W \in Nat /\ r.d + s \in Nat
    BY <1>0, <1>5
  <2> QED BY <2>1, <2>2
<1>8. out \in Nat /\ t * (out * Unit12) <= n * W + t * (r.d + s)
  <2>1. CASE X >= 0
    BY <1>3, <1>4, <1>6, <2>1 DEF Larger
  <2>2. CASE ~(X >= 0)
    <3>1. out = 0
      BY <1>3, <1>4, <2>2 DEF Larger
    <3>2. t * (0 * Unit12) = 0
      BY <1>0
    <3> QED BY <1>7, <3>1, <3>2
  <2> QED BY <2>1, <2>2
<1> QED BY <1>1, <1>2, <1>8 DEF W, s

\* What n of t shares are of a position, from below: the cash to pay out and the
\* debt to repay, but for roundings.
LEMMA PartAsked ==
  ASSUME NEW p \in Positions, NEW r \in PoolRates, NEW t \in Nat \ {0}, NEW n \in Nat, n < t,
         NEW bRem, bRem = MulFloor(n, p.b, t), NEW dRem, dRem = MulFloor(n, p.d, t),
         NEW debt, debt = MulFloor(dRem, r.d, Unit12),
         NEW x, x = MulFloor(bRem, r.b, Unit12) - debt
  PROVE  /\ dRem >= p.d => p.d <= 0
         /\ x \in Int
         /\ t * (x * Unit12) + t * (r.b + Rounding(r)) >= n * (p.b * r.b - p.d * r.d)
         /\ t * (debt * Unit12) + t * (r.d + Unit12) >= n * (p.d * r.d)
<1> DEFINE W == p.b * r.b - p.d * r.d
           s == Rounding(r)
<1>0. /\ p.b \in Nat /\ p.d \in Nat /\ r.b \in Nat \ {0} /\ r.d \in Nat \ {0}
      /\ Unit12 \in Nat \ {0} /\ s \in Nat
  BY UnitsAreInts DEF Positions, Rounding
<1>1. /\ bRem \in Nat /\ n * p.b < bRem * t + t /\ n * p.b \in Nat /\ bRem * t \in Nat
      /\ dRem \in Nat /\ dRem * t <= n * p.d /\ n * p.d < dRem * t + t /\ n * p.d \in Nat /\ dRem * t \in Nat
  <2>1. \A x1 \in Nat : MulFloor(n, x1, t) \in Nat /\ n * x1 \in Nat /\ MulFloor(n, x1, t) * t \in Nat
    BY Z3 DEF MulFloor
  <2>2. \A x1 \in Nat : MulFloor(n, x1, t) * t <= n * x1 /\ n * x1 < MulFloor(n, x1, t) * t + t
    <3>1. n \in Int /\ Nat \subseteq Int
      OBVIOUS
    <3> QED BY <3>1, MulFloorBounds
  <2> QED BY <1>0, <2>1, <2>2
<1>2. dRem >= p.d => p.d <= 0
  <2>1. \A a, b, c \in Nat, z \in Nat \ {0} : a >= b /\ a * z <= c * b /\ c < z => b <= 0
    BY Z3
  <2> QED BY <1>0, <1>1, <2>1
<1>3. /\ debt \in Int /\ debt * Unit12 \in Int /\ dRem * r.d \in Int /\ dRem * r.d < debt * Unit12 + Unit12
  <2>1. dRem \in Int /\ r.d \in Int
    BY <1>0, <1>1
  <2>2. debt \in Int /\ dRem * r.d < debt * Unit12 + Unit12
    BY <2>1, UnitsAreInts, MulFloorBounds
  <2>3. debt * Unit12 \in Int /\ dRem * r.d \in Int
    BY <1>0, <2>1, <2>2, Z3
  <2> QED BY <2>2, <2>3
<1>4. /\ x \in Int /\ x * Unit12 \in Int
      /\ bRem * r.b - dRem * r.d \in Int
      /\ x * Unit12 >= bRem * r.b - dRem * r.d - s
  <2> DEFINE part == [b |-> bRem, d |-> dRem]
  <2>1. part.b = bRem /\ part.d = dRem /\ part.b \in Int /\ part.d \in Int
    BY <1>1
  <2>2. Equity(part, r) = x
    BY DEF Equity, Supply, Debt
  <2> HIDE DEF part
  <2> QED BY <2>1, <2>2, EquityIsWorth
<1> HIDE DEF s
<1>5. /\ t * (bRem * r.b) + t * r.b >= n * (p.b * r.b)
      /\ t * (bRem * r.b) \in Int /\ n * (p.b * r.b) \in Int /\ t * r.b \in Int
  <2>1. \A a, b, z \in Nat : a <= b => a * z <= b * z
    BY Z3
  <2>2. (n * p.b) * r.b <= (bRem * t + t) * r.b
    <3>1. bRem * t + t \in Nat /\ n * p.b <= bRem * t + t
      BY <1>1
    <3> QED BY <1>0, <1>1, <2>1, <3>1
  <2>3. (bRem * t + t) * r.b = t * (bRem * r.b) + t * r.b /\ (n * p.b) * r.b = n * (p.b * r.b)
    BY <1>0, <1>1, Z3
  <2>4. t * (bRem * r.b) \in Int /\ n * (p.b * r.b) \in Int /\ t * r.b \in Int
    BY <1>0, <1>1, Z3
  <2> QED BY <2>2, <2>3, <2>4
<1>6. /\ t * (dRem * r.d) <= n * (p.d * r.d)
      /\ n * (p.d * r.d) <= t * (dRem * r.d) + t * r.d
      /\ t * (dRem * r.d) \in Int /\ n * (p.d * r.d) \in Int /\ t * r.d \in Int
  <2>1. \A a, b, z \in Nat : a <= b => a * z <= b * z
    BY Z3
  <2>2. (n * p.d) * r.d <= (dRem * t + t) * r.d
    <3>1. dRem * t + t \in Nat /\ n * p.d <= dRem * t + t
      BY <1>1
    <3> QED BY <1>0, <1>1, <2>1, <3>1
  <2>3. (dRem * t) * r.d <= (n * p.d) * r.d
    BY <1>0, <1>1, <2>1
  <2>4. /\ (dRem * t + t) * r.d = t * (dRem * r.d) + t * r.d /\ (n * p.d) * r.d = n * (p.d * r.d)
        /\ (dRem * t) * r.d = t * (dRem * r.d)
    BY <1>0, <1>1, Z3
  <2>5. t * (dRem * r.d) \in Int /\ n * (p.d * r.d) \in Int /\ t * r.d \in Int
    BY <1>0, <1>1, Z3
  <2> QED BY <2>2, <2>3, <2>4, <2>5
<1>7. \A a, b \in Int : a <= b => t * a <= t * b /\ t * a \in Int /\ t * b \in Int
  BY Z3
<1>8. t * (x * Unit12) + t * (r.b + s) >= n * W
  <2> DEFINE y == bRem * r.b - dRem * r.d - s
  <2>1. y \in Int /\ y <= x * Unit12
    BY <1>0, <1>4
  <2>2. t * y = t * (bRem * r.b) - t * (dRem * r.d) - t * s /\ t * s \in Int
    BY <1>0, <1>1, Z3
  <2>3. n * W = n * (p.b * r.b) - n * (p.d * r.d) /\ t * (r.b + s) = t * r.b + t * s
    BY <1>0, Z3
  <2> HIDE DEF y, W
  <2>4. t * y <= t * (x * Unit12) /\ t * (x * Unit12) \in Int
    BY <1>4, <1>7, <2>1
  <2> QED BY <1>5, <1>6, <2>2, <2>3, <2>4
<1>9. t * (debt * Unit12) + t * (r.d + Unit12) >= n * (p.d * r.d)
  <2>1. dRem * r.d <= debt * Unit12 + Unit12 /\ debt * Unit12 + Unit12 \in Int
    BY <1>0, <1>3
  <2>2. t * (dRem * r.d) <= t * (debt * Unit12 + Unit12)
    BY <1>3, <1>7, <2>1
  <2>3. /\ t * (debt * Unit12 + Unit12) = t * (debt * Unit12) + t * Unit12
        /\ t * (r.d + Unit12) = t * r.d + t * Unit12
        /\ t * (debt * Unit12) \in Int /\ t * Unit12 \in Int
    BY <1>0, <1>3, Z3
  <2> QED BY <1>6, <2>2, <2>3
<1> QED BY <1>2, <1>4, <1>8, <1>9 DEF W, s

\* The rates start at par and only grow.
RatesAbovePar == rates.b >= Unit12 /\ rates.d >= Unit12

\* No step takes them below it.
LEMMA RatesStayAbovePar ==
  ASSUME IInv, RatesAbovePar, [Next]_vars
  PROVE  RatesAbovePar'
<1>1. CASE \E r \in RatesSeen : Accrue(r)
  <2>1. PICK r \in RatesSeen : rates' = r /\ r.b >= rates.b /\ r.d >= rates.d
    BY <1>1 DEF Accrue
  <2>2. r.b \in Nat /\ r.d \in Nat /\ rates.b \in Nat /\ rates.d \in Nat /\ Unit12 \in Nat
    BY VaultConstantsOK, MathConstantsOK DEF IInv, TypeOK
  <2> QED BY <2>1, <2>2 DEF RatesAbovePar
<1>2. CASE ~\E r \in RatesSeen : Accrue(r)
  <2>1. rates' = rates
    <3>1. CASE HolderStep
      BY <3>1 DEF HolderStep, Deposit, Withdraw, Transfer, Burn, market
    <3>2. CASE KeeperStep
      BY <3>2 DEF KeeperStep, Harvest, Rebalance, RebalanceKeeper, PartialUnwind, UnwindTo, Releverage, SyncReserves, market
    <3>3. CASE PoolStep
      BY <1>2, <3>3 DEF PoolStep, Seize, RepayForVault, SetRisk, market
    <3>4. CASE UNCHANGED vars
      BY <3>4 DEF vars
    <3> QED BY <3>1, <3>2, <3>3, <3>4 DEF Next
  <2> QED BY <2>1 DEF RatesAbovePar
<1> QED BY <1>1, <1>2

\* The value of every share kept, in a transaction that sent so many pairs.
Kept(pairs) ==
  (Value(position', rates) + DustOf(pairs)) * totalShares >= Value(position, rates) * totalShares'

\* What the invariant gives the steps below.
LEMMA TypesHold ==
  ASSUME IInv, RatesAbovePar
  PROVE  /\ position \in Positions /\ rates \in PoolRates
         /\ rates.b >= Unit12 /\ rates.d >= Unit12
         /\ totalShares \in Int /\ Reconciled = position
         /\ TokenPair = PairOf(rates) /\ TokenPair \in Nat \ {0}
         /\ \A n \in Nat : DustOf(n) = (n + 2) * TokenPair /\ DustOf(n) \in Nat
         /\ Equity(position, rates) \in Int
<1>1. /\ position \in Positions /\ rates \in PoolRates
      /\ rates.b >= Unit12 /\ rates.d >= Unit12
      /\ totalShares \in Int /\ Reconciled = position
  BY DEF IInv, TypeOK, LossesArePriced, RatesAbovePar, PoolRates
<1>2. TokenPair = PairOf(rates)
  BY DEF TokenPair, PairOf
<1>3. TokenPair \in Nat \ {0}
  BY <1>1, <1>2, PairCovers
<1>4. \A n \in Nat : DustOf(n) = (n + 2) * TokenPair
  BY DEF DustOf
<1>5. \A n \in Nat : (n + 2) * TokenPair \in Nat
  BY <1>3, Z3
<1>6. Equity(position, rates) \in Int
  <2>1. position.b \in Int /\ position.d \in Int
    BY <1>1 DEF Positions
  <2> QED BY <1>1, <2>1, EquityIsWorth
<1> QED BY <1>1, <1>2, <1>3, <1>4, <1>5, <1>6

\* The unwinds and the re-leverage: a request list that leaves no cash.
LEMMA SubmissionKeeps ==
  ASSUME IInv, RatesAbovePar, totalShares > 0, totalShares' = totalShares,
         NEW q \in Running, position' = Settled(q), q.cash <= 0, NEW n \in Nat, NEW pairs \in Nat,
         Worth(q, rates) + n * (rates.b + rates.d) >= position.b * rates.b - position.d * rates.d,
         n <= pairs + 1
  PROVE  Kept(pairs)
<1> DEFINE E == Equity(position, rates)
           e == Equity(position', rates)
           P == TokenPair
<1>1. /\ position \in Positions /\ rates \in PoolRates
      /\ rates.b >= Unit12 /\ rates.d >= Unit12
      /\ totalShares \in Nat /\ P = PairOf(rates) /\ P \in Nat \ {0}
      /\ DustOf(pairs) = (pairs + 2) * P /\ DustOf(pairs) \in Nat
  BY TypesHold
<1>2. Equity(Settled(q), rates) \in Int /\ E \in Int /\ Equity(Settled(q), rates) + (n + 1) * PairOf(rates) >= E
  BY <1>1, EquityKept
<1>3. e = Equity(Settled(q), rates)
  OBVIOUS
<1>4. e \in Int /\ E \in Int /\ e + (n + 1) * P >= E
  BY <1>1, <1>2, <1>3
<1> HIDE DEF E, e, P
<1>5. (n + 1) * P <= (pairs + 2) * P /\ (n + 1) * P \in Int
  <2>1. \A x, y, z \in Nat : x <= y => x * z <= y * z /\ x * z \in Int
    BY Z3
  <2>2. n + 1 \in Nat /\ pairs + 2 \in Nat /\ n + 1 <= pairs + 2
    OBVIOUS
  <2> QED BY <1>1, <2>1, <2>2
<1>6. e + DustOf(pairs) >= E
  BY <1>1, <1>4, <1>5
<1>7. (Larger(e, 0) + DustOf(pairs)) * totalShares >= Larger(E, 0) * totalShares
  BY <1>1, <1>4, <1>6, SharesKept
<1> QED BY <1>7 DEF Kept, Value, E, e

\* An unwind, whoever asked for it.
LEMMA UnwindIsFair ==
  ASSUME IInv, RatesAbovePar, NEW t \in Nat, t >= OrangeHf, UnwindTo(t), totalShares > 0
  PROVE  event'.kind = "rebalance" /\ event'.shares \in Nat /\ Kept(event'.shares)
<1> DEFINE n == UnwindLoops(position, rates, risk.l, t)
           q == Deleveraged(position, n, rates)
<1>1. n > 0 /\ position' = Settled(q) /\ totalShares' = totalShares
      /\ event'.kind = "rebalance" /\ event'.shares = n
  BY DEF UnwindTo, Did, ledger
<1>2. position \in Positions /\ rates \in PoolRates /\ rates.b >= Unit12
  BY TypesHold
<1>3. n \in Nat
  <2>1. n \in Int
    <3>1. risk \in Risks
      BY DEF IInv, TypeOK
    <3> QED BY <1>2, <3>1, LoopsOfUnwind
  <2> HIDE DEF n
  <2> QED BY <1>1, <2>1
<1> HIDE DEF n
<1>4. /\ q \in Running /\ q.cash <= 0
      /\ Worth(q, rates) + n * (rates.b + rates.d) >= position.b * rates.b - position.d * rates.d
  BY <1>2, <1>3, DeleverageCosts
<1> HIDE DEF q
<1>5. n <= n + 1
  BY <1>3
<1>6. Kept(n)
  BY <1>1, <1>3, <1>4, <1>5, SubmissionKeeps
<1> QED BY <1>1, <1>3, <1>6

\* A re-leverage costs the shares a pair of tokens at most.
LEMMA ReleverageIsFair ==
  ASSUME IInv, RatesAbovePar, NEW o, Releverage(o), totalShares > 0
  PROVE  event'.kind = "releverage" /\ Kept(TargetLoops)
<1> DEFINE a == ComputeReleverage(position, rates, risk.l, ReleverageTarget)
           q == Releveraged(position, a, rates)
<1>1. /\ position' = Settled(q) /\ totalShares' = totalShares /\ event'.kind = "releverage"
      /\ a > 0
  BY DEF Releverage, Did, ledger
<1>2. position \in Positions /\ rates \in PoolRates
  BY TypesHold
<1>3. a \in Int
  <2>1. risk \in Risks
    BY DEF IInv, TypeOK
  <2>2. ReleverageTarget \in Int /\ ReleverageTarget >= OrangeHf
    BY <2>1, TargetsClear, VaultConstantsOK DEF ReleverageTarget, Larger
  <2> QED BY <1>2, <2>1, <2>2, ReleverageAmount
<1> HIDE DEF a
<1>4. /\ q \in Running /\ q.cash = 0
      /\ Worth(q, rates) \in Int
      /\ Worth(q, rates) + (rates.b + rates.d) >= position.b * rates.b - position.d * rates.d
  BY <1>2, <1>3, ReleverageCosts
<1> HIDE DEF q
<1>5. 1 * (rates.b + rates.d) = rates.b + rates.d
  BY <1>2, UnitsAreInts
<1>6. q.cash <= 0 /\ TargetLoops \in Nat /\ 1 \in Nat /\ 1 <= TargetLoops + 1
  BY <1>4, LoopsAreNat
<1>7. Worth(q, rates) + 1 * (rates.b + rates.d) >= position.b * rates.b - position.d * rates.d
  BY <1>4, <1>5
<1>8. Kept(TargetLoops)
  BY <1>1, <1>4, <1>6, <1>7, SubmissionKeeps
<1> QED BY <1>1, <1>8

\* A sync costs them nothing.
LEMMA SyncIsFair ==
  ASSUME IInv, RatesAbovePar, SyncReserves, totalShares > 0
  PROVE  event'.kind = "sync" /\ Kept(TargetLoops)
<1>1. position' = position /\ totalShares' = totalShares /\ event'.kind = "sync"
  BY DEF SyncReserves, Did, ledger
<1>2. totalShares \in Nat /\ DustOf(TargetLoops) \in Nat /\ Equity(position, rates) \in Int
  BY TypesHold, LoopsAreNat
<1>3. (Larger(Equity(position, rates), 0) + DustOf(TargetLoops)) * totalShares
         >= Larger(Equity(position, rates), 0) * totalShares
  <2>1. Equity(position, rates) + DustOf(TargetLoops) >= Equity(position, rates)
    BY <1>2
  <2> QED BY <1>2, <2>1, SharesKept
<1> QED BY <1>1, <1>3 DEF Kept, Value

\* A harvest only pays in.
LEMMA HarvestIsFair ==
  ASSUME IInv, RatesAbovePar, NEW a \in Amounts, Harvest(a), totalShares > 0
  PROVE  event'.kind = "harvest" /\ Kept(TargetLoops)
<1> DEFINE q == LeverageLoop(position, a, rates)
<1>1. position' = Settled(q) /\ totalShares' = totalShares /\ event'.kind = "harvest"
  BY DEF Harvest, Did, ledger
<1>2. position \in Positions /\ rates \in PoolRates
  BY TypesHold
<1>3. a \in Nat /\ a \in Int
  BY VaultConstantsOK
<1>4. /\ q \in Running /\ q.cash = -a
      /\ Worth(q, rates) \in Int
      /\ Worth(q, rates) + (TargetLoops + 1) * (rates.b + rates.d) >= position.b * rates.b - position.d * rates.d
  BY <1>2, <1>3, LoopCosts
<1> HIDE DEF q
<1>5. q.cash <= 0 /\ TargetLoops \in Nat /\ TargetLoops + 1 \in Nat /\ TargetLoops + 1 <= TargetLoops + 1
  BY <1>3, <1>4, LoopsAreNat
<1>6. Kept(TargetLoops)
  BY <1>1, <1>4, <1>5, SubmissionKeeps
<1> QED BY <1>1, <1>6

\* What a deposit adds to the equity, one rounding apart.
LEMMA EquityAdds ==
  ASSUME NEW p \in Positions, NEW r \in PoolRates, NEW s \in Positions
  PROVE  /\ Equity(p, r) \in Int /\ Equity(s, r) \in Int /\ Equity(Minus(s, p), r) \in Int
         /\ Equity(s, r) >= Equity(p, r) + Equity(Minus(s, p), r) - 1
<1> DEFINE d == Minus(s, p)
<1>1. /\ p.b \in Int /\ p.d \in Int /\ s.b \in Int /\ s.d \in Int
      /\ r.b \in Int /\ r.d \in Int /\ Unit12 \in Nat \ {0}
      /\ d.b = s.b - p.b /\ d.d = s.d - p.d /\ d.b \in Int /\ d.d \in Int
      /\ s.b = p.b + d.b /\ s.d = p.d + d.d
  BY UnitsAreInts DEF Positions, Minus
<1>2. \A x, y, z \in Int :
        /\ MulFloor(x, z, Unit12) \in Int
        /\ MulFloor(x + y, z, Unit12) >= MulFloor(x, z, Unit12) + MulFloor(y, z, Unit12)
        /\ MulFloor(x + y, z, Unit12) <= MulFloor(x, z, Unit12) + MulFloor(y, z, Unit12) + 1
  <2> SUFFICES ASSUME NEW x \in Int, NEW y \in Int, NEW z \in Int
               PROVE  /\ MulFloor(x, z, Unit12) \in Int
                      /\ MulFloor(x + y, z, Unit12) >= MulFloor(x, z, Unit12) + MulFloor(y, z, Unit12)
                      /\ MulFloor(x + y, z, Unit12) <= MulFloor(x, z, Unit12) + MulFloor(y, z, Unit12) + 1
    OBVIOUS
  <2> DEFINE u == MulFloor(x, z, Unit12)
             v == MulFloor(y, z, Unit12)
             w == MulFloor(x + y, z, Unit12)
  <2>1. /\ u \in Int /\ u * Unit12 <= x * z /\ x * z < u * Unit12 + Unit12
        /\ v \in Int /\ v * Unit12 <= y * z /\ y * z < v * Unit12 + Unit12
    BY <1>1, MulFloorBounds
  <2>2. w \in Int /\ w * Unit12 <= (x + y) * z /\ (x + y) * z < w * Unit12 + Unit12
    <3>1. x + y \in Int
      OBVIOUS
    <3> QED BY <1>1, <3>1, MulFloorBounds
  <2> HIDE DEF u, v, w
  <2>3. /\ (x + y) * z = x * z + y * z /\ x * z \in Int /\ y * z \in Int
        /\ (u + v) * Unit12 = u * Unit12 + v * Unit12
        /\ (w + 1) * Unit12 = w * Unit12 + Unit12
        /\ (u + v + 2) * Unit12 = u * Unit12 + v * Unit12 + Unit12 + Unit12
        /\ u * Unit12 \in Int /\ v * Unit12 \in Int /\ w * Unit12 \in Int
    BY <1>1, <2>1, <2>2, Z3
  <2>4. \A a, b \in Int, k \in Nat \ {0} : a * k < b * k => a < b
    BY Z3
  <2>5. (u + v) * Unit12 < (w + 1) * Unit12 /\ w * Unit12 < (u + v + 2) * Unit12
    BY <1>1, <2>1, <2>2, <2>3
  <2>6. u + v \in Int /\ w + 1 \in Int /\ u + v + 2 \in Int
    BY <2>1, <2>2
  <2>7. u + v < w + 1 /\ w < u + v + 2
    BY <1>1, <2>2, <2>4, <2>5, <2>6
  <2>8. u \in Int /\ w >= u + v /\ w <= u + v + 1
    BY <2>1, <2>2, <2>7
  <2> QED BY <2>8 DEF u, v, w
<1> HIDE DEF d
<1>3. /\ Supply(p, r) \in Int /\ Supply(d, r) \in Int /\ Supply(s, r) \in Int
      /\ Supply(s, r) >= Supply(p, r) + Supply(d, r)
  BY <1>1, <1>2 DEF Supply
<1>4. /\ Debt(p, r) \in Int /\ Debt(d, r) \in Int /\ Debt(s, r) \in Int
      /\ Debt(s, r) <= Debt(p, r) + Debt(d, r) + 1
  BY <1>1, <1>2 DEF Debt
<1> QED BY <1>3, <1>4 DEF Equity, d

\* A position without collateral is worth nothing.
LEMMA EmptyIsWorthless ==
  ASSUME NEW p \in Positions, NEW r \in PoolRates, p.b = 0
  PROVE  Equity(p, r) \in Int /\ Equity(p, r) <= 0
<1>1. Debt(p, r) \in Nat
  BY LayerIsNat
<1>2. Supply(p, r) = 0
  <2>1. \A x \in Nat, z \in Nat \ {0} : (0 * x) \div z = 0
    BY Z3
  <2>2. r.b \in Nat /\ Unit12 \in Nat \ {0}
    BY UnitsAreInts
  <2> QED BY <2>1, <2>2 DEF Supply, MulFloor
<1> QED BY <1>1, <1>2 DEF Equity

\* A deposit is priced on the equity it found, rounded down.
LEMMA DepositIsFair ==
  ASSUME IInv, RatesAbovePar, NEW h, NEW a, NEW o, Deposit(h, a, o), totalShares > 0
  PROVE  event'.kind = "deposit" /\ Kept(TargetLoops)
<1> DEFINE delta == Minus(position', position)
           eq == Equity(delta, rates)
           E == Equity(position, rates)
           e == Equity(position', rates)
           minted == SharesFor(eq)
           D == DustOf(TargetLoops)
           T == totalShares
<1>1. /\ position' \in Positions /\ eq > 0
      /\ totalShares' = T + minted /\ event'.kind = "deposit"
  BY DEF Deposit, Accepts, Did
<1>2. /\ position \in Positions /\ rates \in PoolRates /\ Reconciled = position
      /\ T \in Nat \ {0} /\ D \in Nat /\ D >= 1
  <2>1. TokenPair \in Nat \ {0} /\ DustOf(TargetLoops) = (TargetLoops + 2) * TokenPair
    BY TypesHold, LoopsAreNat
  <2>2. \A x \in Nat, y \in Nat \ {0} : (x + 2) * y >= 1
    BY Z3
  <2>3. DustOf(TargetLoops) >= 1
    BY <2>1, <2>2, LoopsAreNat
  <2> QED BY <2>3, TypesHold, LoopsAreNat
<1>3. E \in Int /\ e \in Int /\ eq \in Int /\ e >= E + eq - 1
  BY <1>1, <1>2, EquityAdds
<1>4. minted = IF position.b = 0 \/ E <= 0 THEN eq ELSE MulFloor(eq, T, E)
  BY <1>2 DEF SharesFor, UnderlyingToShares
<1>5. position.b = 0 => E <= 0
  BY <1>2, EmptyIsWorthless
<1> HIDE DEF E, e, eq, delta, minted, D
<1>6. minted \in Int
  <2>1. CASE E <= 0
    BY <1>3, <1>4, <2>1
  <2>2. CASE E > 0
    <3>1. E \in Nat \ {0} /\ T \in Int
      BY <1>2, <1>3, <2>2
    <3>2. MulFloor(eq, T, E) \in Int
      BY <1>3, <3>1, MulFloorBounds
    <3> QED BY <1>3, <1>4, <3>2
  <2> QED BY <1>3, <2>1, <2>2
<1>7. (Larger(e, 0) + D) * T >= Larger(E, 0) * (T + minted)
  <2> DEFINE y == Larger(e, 0) + D
  <2>1. y \in Nat /\ y >= e + 1
    BY <1>2, <1>3 DEF Larger
  <2>2. CASE E <= 0
    <3>1. Larger(E, 0) = 0
      BY <1>3, <2>2 DEF Larger
    <3>2. 0 * (T + minted) = 0
      BY <1>2, <1>6
    <3>3. y * T >= 0
      <4> HIDE DEF y
      <4> QED BY <1>2, <2>1, Z3
    <3> QED BY <3>1, <3>2, <3>3
  <2>3. CASE E > 0
    <3>1. E \in Nat \ {0} /\ T \in Int /\ Larger(E, 0) = E
      BY <1>2, <1>3, <2>3 DEF Larger
    <3>2. minted = MulFloor(eq, T, E)
      BY <1>3, <1>4, <1>5, <2>3
    <3>3. minted * E <= eq * T
      BY <1>3, <3>1, <3>2, MulFloorBounds
    <3>4. y * T >= (E + eq) * T
      <4>1. \A u, v \in Int, z \in Nat \ {0} : u >= v => u * z >= v * z
        BY Z3
      <4>2. y >= E + eq
        BY <1>3, <2>1
      <4> HIDE DEF y
      <4> QED BY <1>2, <1>3, <2>1, <4>1, <4>2
    <3>5. /\ (E + eq) * T = E * T + eq * T /\ E * (T + minted) = E * T + minted * E
          /\ E * T \in Int /\ eq * T \in Int /\ minted * E \in Int
      BY <1>2, <1>3, <1>6, Z3
    <3>6. y * T \in Int
      <4> HIDE DEF y
      <4> QED BY <1>2, <2>1, Z3
    <3> HIDE DEF y
    <3>7. y * T >= E * (T + minted)
      BY <3>3, <3>4, <3>5, <3>6
    <3> QED BY <3>1, <3>7 DEF y
  <2> QED BY <1>3, <2>2, <2>3
<1> QED BY <1>1, <1>7 DEF Kept, Value, E, e, D

\* A withdrawal of n of t shares that leaves a position worth w out of W leaves
\* those who stay their part of the equity.
LEMMA StayersKeep ==
  ASSUME NEW U \in Nat \ {0}, NEW t \in Nat \ {0}, NEW n \in Nat, n < t,
         NEW E \in Nat \ {0}, NEW e \in Int, NEW W \in Int, NEW w \in Int,
         NEW out \in Nat, NEW cost \in Int, NEW s \in Nat, NEW D \in Nat,
         E * U <= W + s, e * U >= w - s,
         NEW last \in Int,
         w + cost + out * U >= W,
         t * (out * U) <= n * W + t * (last + s),
         cost + last + 3 * s <= D * U
  PROVE  t * (e + D) >= (t - n) * E
<1>1. /\ t * (w + cost + out * U) >= t * W
      /\ t * (w + cost + out * U) = t * w + t * cost + t * (out * U)
      /\ t * W \in Int /\ t * w \in Int /\ t * cost \in Int /\ t * (out * U) \in Int
  <2>1. out * U \in Int /\ w + cost + out * U \in Int
    BY Z3
  <2>2. \A x, y \in Int : x >= y => t * x >= t * y /\ t * x \in Int /\ t * y \in Int
    BY Z3
  <2>3. \A x, y, z \in Int : t * (x + y + z) = t * x + t * y + t * z /\ t * x \in Int /\ t * y \in Int /\ t * z \in Int
    BY Z3
  <2> QED BY <2>1, <2>2, <2>3
<1>2. /\ (t - n) * W = t * W - n * W /\ n * W \in Int
      /\ t * (last + s) = t * last + t * s /\ t * last \in Int /\ t * s \in Int
  BY Z3
<1>3. t * w + t * cost + t * last + t * s >= (t - n) * W
  BY <1>1, <1>2
<1>4. /\ t * (e * U) >= t * w - t * s /\ t * (e * U) \in Int
  <2>1. \A x, y \in Int : x >= y => t * x >= t * y /\ t * x \in Int /\ t * y \in Int
    BY Z3
  <2>2. e * U \in Int /\ w - s \in Int /\ t * (w - s) = t * w - t * s
    BY Z3
  <2> QED BY <2>1, <2>2
<1>5. (t - n) * W + t * s >= (t - n) * (E * U) /\ (t - n) * (E * U) \in Int
  <2>1. \A x \in Nat, y, z \in Int : y >= z => x * y >= x * z /\ x * y \in Int /\ x * z \in Int
    BY Z3
  <2>2. E * U \in Int /\ W + s \in Int /\ t - n \in Nat
    BY Z3
  <2>3. (t - n) * (W + s) >= (t - n) * (E * U) /\ (t - n) * (E * U) \in Int
    BY <2>1, <2>2
  <2>4. (t - n) * (W + s) = (t - n) * W + t * s - n * s /\ n * s >= 0 /\ n * s \in Int /\ (t - n) * W \in Int
    BY Z3
  <2> QED BY <1>2, <2>3, <2>4
<1>6. t * (D * U) >= t * cost + t * last + 3 * (t * s) /\ t * (D * U) \in Int
  <2>1. \A x, y \in Int : x >= y => t * x >= t * y /\ t * x \in Int /\ t * y \in Int
    BY Z3
  <2>2. D * U \in Int /\ cost + last + 3 * s \in Int
        /\ t * (cost + last + 3 * s) = t * cost + t * last + 3 * (t * s)
    BY Z3
  <2> QED BY <2>1, <2>2
<1>7. t * (e * U) + t * (D * U) >= (t - n) * (E * U)
  BY <1>1, <1>2, <1>3, <1>4, <1>5, <1>6
<1>8. /\ t * (e * U) + t * (D * U) = (t * (e + D)) * U /\ (t - n) * (E * U) = ((t - n) * E) * U
      /\ t * (e + D) \in Int /\ (t - n) * E \in Int
  BY Z3
<1>9. \A x, y \in Int : x * U >= y * U => x >= y
  BY Z3
<1> QED BY <1>7, <1>8, <1>9

\* The unwind of n shares is of the part of the position they are, and leaves the
\* others theirs up to the dust.
LEMMA StayersKeepTheirs ==
  ASSUME IInv, RatesAbovePar, Equity(position, rates) > 0,
         NEW n \in Nat, n < totalShares, NEW q, q = UnwindOf(n)
  PROVE  /\ q \in Running /\ Equity(Settled(q), rates) \in Int
         /\ totalShares * (Equity(Settled(q), rates) + DustOf(TargetLoops))
              >= (totalShares - n) * Equity(position, rates)
<1> DEFINE T == totalShares
           E == Equity(position, rates)
           e == Equity(Settled(q), rates)
           bRem == MulFloor(n, position.b, T)
           dRem == MulFloor(n, position.d, T)
           out == Larger(MulFloor(bRem, rates.b, Unit12) - MulFloor(dRem, rates.d, Unit12), 0)
           k == rates.b + rates.d
           s == Rounding(rates)
           W == position.b * rates.b - position.d * rates.d
           w == q.b * rates.b - q.d * rates.d
           P == TokenPair
           D == DustOf(TargetLoops)
<1>1. /\ position \in Positions /\ rates \in PoolRates /\ Reconciled = position
      /\ rates.b >= Unit12 /\ rates.d >= Unit12
      /\ T \in Nat \ {0} /\ P = PairOf(rates) /\ P \in Nat \ {0}
      /\ D = (TargetLoops + 2) * P /\ D \in Nat /\ E \in Int
  BY TypesHold, LoopsAreNat
<1>2. E > 0 /\ n \in Nat /\ n < T
  OBVIOUS
<1>3. E \in Nat \ {0}
  BY <1>1, <1>2
<1>5. q = Unwound(position, bRem, dRem, rates)
  BY <1>1 DEF UnwindOf
<1>6. /\ bRem \in Nat /\ dRem \in Nat /\ dRem <= position.d /\ out \in Nat
      /\ T * (out * Unit12) <= n * W + T * (rates.d + s)
  <2> HIDE DEF T
  <2> QED BY <1>1, <1>2, PartTaken
<1>7. /\ q \in Running /\ q.cash <= out
      /\ Worth(q, rates) \in Int
      /\ Worth(q, rates) + TargetLoops * k + rates.b >= W
  <2> HIDE DEF bRem, dRem
  <2> QED BY <1>1, <1>5, <1>6, UnwoundCosts
<1>8. E * Unit12 \in Int /\ W \in Int /\ E * Unit12 <= W + s
  <2>1. position.b \in Int /\ position.d \in Int
    BY <1>1 DEF Positions
  <2> QED BY <1>1, <2>1, EquityIsWorth
<1>9. e \in Int /\ w \in Int /\ e * Unit12 \in Int /\ e * Unit12 >= w - s
  <2>1. Settled(q).b = q.b /\ Settled(q).d = q.d /\ q.b \in Int /\ q.d \in Int
    BY <1>7, UnitsAreInts DEF Settled
  <2>2. Settled(q).b \in Int /\ Settled(q).d \in Int
    BY <2>1
  <2> QED BY <1>1, <2>1, <2>2, EquityIsWorth
<1> HIDE DEF out, bRem, dRem, T, E, e
<1>10. w + (TargetLoops * k + rates.b) + out * Unit12 >= W
  <2>1. Worth(q, rates) = w + q.cash * Unit12
    BY DEF Worth
  <2>2. q.cash * Unit12 <= out * Unit12 /\ q.cash * Unit12 \in Int /\ out * Unit12 \in Int
    <3>1. \A x, y \in Int, z \in Nat \ {0} : x <= y => x * z <= y * z /\ x * z \in Int /\ y * z \in Int
      BY Z3
    <3>2. q.cash \in Int /\ out \in Int /\ q.cash <= out
      BY <1>6, <1>7, UnitsAreInts
    <3> QED BY <3>1, <3>2, UnitsAreInts
  <2>3. TargetLoops * k \in Int /\ rates.b \in Int
    <3>1. k \in Int /\ rates.b \in Int
      BY <1>1, UnitsAreInts
    <3> HIDE DEF k
    <3> QED BY <3>1, LoopsAreNat, Z3
  <2> HIDE DEF w, W, k
  <2> QED BY <1>7, <1>8, <1>9, <2>1, <2>2, <2>3
<1>11. (TargetLoops * k + rates.b) + rates.d + 3 * s <= D * Unit12
  <2>1. P * Unit12 \in Int /\ k <= P * Unit12 /\ s \in Nat /\ 3 * s <= P * Unit12
    BY <1>1, PairCovers
  <2>2. k \in Int /\ k = rates.b + rates.d /\ rates.b \in Int /\ rates.d \in Int
    BY <1>1, UnitsAreInts
  <2> HIDE DEF k, s, P
  <2>3. TargetLoops * k <= TargetLoops * (P * Unit12) /\ TargetLoops * k \in Int /\ TargetLoops * (P * Unit12) \in Int
    <3>1. \A x \in Nat, y, z \in Int : y <= z => x * y <= x * z /\ x * y \in Int /\ x * z \in Int
      BY Z3
    <3> QED BY <2>1, <2>2, <3>1, LoopsAreNat
  <2>4. ((TargetLoops + 2) * P) * Unit12 = TargetLoops * (P * Unit12) + P * Unit12 + P * Unit12
    BY <1>1, LoopsAreNat, UnitsAreInts, Z3
  <2>5. D * Unit12 = TargetLoops * (P * Unit12) + P * Unit12 + P * Unit12
    BY <1>1, <2>4
  <2> QED BY <2>1, <2>2, <2>3, <2>5
<1>12. T * (e + D) >= (T - n) * E
  <2>1. TargetLoops * k + rates.b \in Int /\ rates.d \in Int
    <3>1. k \in Int /\ rates.b \in Int /\ rates.d \in Int
      BY <1>1, UnitsAreInts
    <3>2. TargetLoops * k \in Int
      <4> HIDE DEF k
      <4> QED BY <3>1, LoopsAreNat, Z3
    <3> HIDE DEF k
    <3> QED BY <3>1, <3>2
  <2>2. s \in Nat
    BY UnitsAreInts DEF Rounding
  <2> HIDE DEF k, s, W, w, D
  <2> QED BY <1>1, <1>2, <1>3, <1>6, <1>8, <1>9, <1>10, <1>11, <2>1, <2>2, UnitsAreInts, StayersKeep
<1> QED BY <1>7, <1>9, <1>12 DEF T, E, e, D

\* A withdrawal takes the part of the position its shares are, and leaves the
\* others theirs up to the dust.
LEMMA WithdrawIsFair ==
  ASSUME IInv, RatesAbovePar, NEW h, NEW a \in Int, a > 0, Withdraw(h, a),
         totalShares > 0, totalShares' > 0
  PROVE  event'.kind = "withdraw" /\ Kept(TargetLoops)
<1> DEFINE T == totalShares
           E == Equity(position, rates)
           e == Equity(position', rates)
           n == SharesToBurn(a)
           q == UnwindOf(n)
           D == DustOf(TargetLoops)
<1>1. /\ position \in Positions /\ rates \in PoolRates /\ Reconciled = position
      /\ rates.b >= Unit12 /\ rates.d >= Unit12
      /\ T \in Nat \ {0} /\ D \in Nat /\ E \in Int
  BY TypesHold, LoopsAreNat
<1>2. /\ E > 0 /\ Settled(q) \in Positions /\ position' = Settled(q)
      /\ totalShares' = T - n /\ event'.kind = "withdraw"
  BY <1>1 DEF Withdraw, Accepts, Did
<1>3. E \in Nat \ {0}
  BY <1>1, <1>2
<1>4. n \in Nat /\ n < T
  <2>1. n = MulCeil(a, T, E)
    BY <1>1 DEF SharesToBurn
  <2>2. n \in Int /\ a * T <= n * E
    <3>1. T \in Int
      BY <1>1
    <3> HIDE DEF E, n, T
    <3> QED BY <1>3, <2>1, <3>1, MulCeilBounds
  <2>3. a * T > 0 /\ a * T \in Int
    <3>1. \A x, y \in Nat \ {0} : x * y > 0 /\ x * y \in Int
      BY Z3
    <3> HIDE DEF T
    <3> QED BY <1>1, <3>1
  <2>4. \A x \in Int, z \in Nat \ {0} : x * z > 0 => x >= 0
    BY Z3
  <2> HIDE DEF n, E
  <2>5. n * E > 0
    <3>1. n * E \in Int
      BY <1>3, <2>2, Z3
    <3> QED BY <2>2, <2>3, <3>1
  <2>6. n >= 0
    BY <1>3, <2>2, <2>4, <2>5
  <2> QED BY <1>1, <1>2, <2>2, <2>6
<1>5. e \in Int /\ T * (e + D) >= (T - n) * E
  <2>1. q = UnwindOf(n) /\ e = Equity(Settled(q), rates)
    BY <1>2
  <2> HIDE DEF n, q, e
  <2> QED BY <1>2, <1>4, <2>1, StayersKeepTheirs
<1> HIDE DEF n, q, T, E, e
<1> HIDE DEF D
<1>6. (Larger(e, 0) + D) * T >= Larger(E, 0) * (T - n)
  <2>1. Larger(E, 0) = E /\ Larger(e, 0) + D >= e + D /\ Larger(e, 0) + D \in Int /\ e + D \in Int
    BY <1>1, <1>3, <1>5 DEF Larger
  <2> DEFINE y == Larger(e, 0) + D
             x == e + D
  <2>2. y * T >= T * x
    <3>1. \A u, v \in Int, z \in Nat : u >= v => u * z >= z * v
      BY Z3
    <3> HIDE DEF x, y
    <3>2. x \in Int /\ y \in Int /\ y >= x
      BY <2>1 DEF x, y
    <3> QED BY <1>1, <3>1, <3>2
  <2>3. y * T \in Int /\ T * x \in Int /\ (T - n) * E = E * (T - n) /\ (T - n) * E \in Int
    <3>1. x \in Int /\ y \in Int
      BY <2>1
    <3> HIDE DEF x, y
    <3> QED BY <1>1, <1>3, <1>4, <3>1, Z3
  <2>4. T * x >= (T - n) * E
    BY <1>5
  <2> HIDE DEF x, y
  <2>5. y * T >= E * (T - n)
    BY <2>2, <2>3, <2>4
  <2> QED BY <2>1, <2>5 DEF y
<1>7. totalShares' = totalShares - n
  BY <1>2 DEF T
<1> QED BY <1>2, <1>6, <1>7 DEF Kept, Value, E, e, T, D

\* The steps the property is about are the strategy's; the others are marked
\* otherwise.
LEMMA StepsAreFair ==
  ASSUME IInv, RatesAbovePar, Next,
         event'.kind \in {"deposit", "withdraw", "harvest", "rebalance", "releverage", "sync"},
         totalShares > 0, totalShares' > 0
  PROVE  Kept(PairsSent')
<1>0. /\ \A n \in Amounts : n \in Int
      /\ OrangeHf \in Nat
      /\ \A t \in Targets : t \in Nat
      /\ PairsSent' = IF event'.kind = "rebalance" THEN event'.shares ELSE TargetLoops
  BY VaultConstantsOK DEF PairsSent
<1>1. CASE \E h \in Holders, n \in Amounts, o \in Others : Deposit(h, n, o)
  BY <1>0, <1>1, DepositIsFair
<1>2. CASE \E h \in Holders : \E n \in (Amounts \cup {Balance(h)}) \cap (Nat \ {0}) : Withdraw(h, n)
  <2>1. PICK h \in Holders, n \in Nat \ {0} : Withdraw(h, n)
    BY <1>2
  <2>2. n \in Int /\ n > 0
    OBVIOUS
  <2> QED BY <1>0, <2>1, <2>2, WithdrawIsFair
<1>3. CASE \E n \in Amounts : Harvest(n)
  BY <1>0, <1>3, HarvestIsFair
<1>4. CASE Rebalance \/ RebalanceKeeper
  <2>1. UnwindTo(OrangeHf) /\ OrangeHf >= OrangeHf
    BY <1>0, <1>4 DEF Rebalance, RebalanceKeeper
  <2> QED BY <1>0, <2>1, UnwindIsFair
<1>5. CASE \E k \in BOOLEAN, t \in Targets : PartialUnwind(k, t)
  <2>1. PICK k \in BOOLEAN, t \in Targets : PartialUnwind(k, t)
    BY <1>5
  <2> DEFINE u == IF k THEN Larger(t, OrangeHf) ELSE OrangeHf
  <2>2. UnwindTo(u)
    BY <2>1 DEF PartialUnwind
  <2>3. u \in Nat /\ u >= OrangeHf
    BY <1>0 DEF Larger
  <2> HIDE DEF u
  <2> QED BY <1>0, <2>2, <2>3, UnwindIsFair
<1>6. CASE \E o \in Others : Releverage(o)
  BY <1>0, <1>6, ReleverageIsFair
<1>7. CASE SyncReserves
  BY <1>0, <1>7, SyncIsFair
<1>8. CASE (\E h \in Holders, k \in Accounts, n \in Amounts : h # k /\ Transfer(h, k, n)) \/ \E h \in Holders, n \in Amounts : Burn(h, n)
  BY <1>8 DEF Transfer, Burn, Did
<1>9. CASE PoolStep
  BY <1>9 DEF PoolStep, Accrue, Seize, RepayForVault, SetRisk, Did
<1> QED BY <1>1, <1>2, <1>3, <1>4, <1>5, <1>6, <1>7, <1>8, <1>9 DEF Next, HolderStep, KeeperStep

\* However many holders there are, whatever the rates and however the pool
\* rounds, no transaction of the strategy takes more from those who take no part
\* in it than a token of each kind per pair of requests, and two more.
THEOREM OthersKeepValueAlways == Spec => OthersKeepValue
<1>1. Init => IInv /\ RatesAbovePar
  BY InitIInv, MathConstantsOK DEF Init, RatesAbovePar
<1>2. IInv /\ RatesAbovePar /\ [Next]_vars => (IInv /\ RatesAbovePar)'
  BY NextIInv, RatesStayAbovePar
<1>3. IInv /\ RatesAbovePar /\ [Next]_vars =>
        [event'.kind \in {"deposit", "withdraw", "harvest", "rebalance", "releverage", "sync"}
           /\ totalShares > 0 /\ totalShares' > 0 =>
             (Value(position', rates) + DustOf(PairsSent')) * totalShares >= Value(position, rates) * totalShares']_vars
  BY StepsAreFair DEF Kept
<1> QED BY <1>1, <1>2, <1>3, PTL DEF Spec, OthersKeepValue

-----------------------------------------------------------------------------
(* What a deposit is worth *)

\* The first shares are worth what was put in for them, but for a unit.
LEMMA FirstShares ==
  ASSUME NEW e \in Nat \ {0}, NEW n \in Nat, n <= e, NEW E1 \in Int, E1 >= e - 1
  PROVE  MulFloor(n, E1, e) >= n - 1
<1>1. \A x, y, z \in Int : x >= 0 /\ y <= z => x * y <= x * z /\ x * y \in Int /\ x * z \in Int
  BY Z3
<1>2. n * (e - 1) <= n * E1 /\ n * E1 \in Int
  BY <1>1
<1>3. n * (e - 1) = n * e - n /\ e * (n - 1) = n * e - e /\ n * e \in Int
  BY Z3
<1>4. e * (n - 1) <= n * E1
  BY <1>2, <1>3
<1>5. n - 1 \in Int
  OBVIOUS
<1>6. (n * E1) \div e >= n - 1
  BY <1>2, <1>4, <1>5, DivReaches
<1> QED BY <1>6 DEF MulFloor

\* Shares minted at the price of those outstanding are worth what was put in
\* for them, but for a unit and the part of a share rounded away.
LEMMA NextShares ==
  ASSUME NEW e \in Nat \ {0}, NEW E \in Nat \ {0}, NEW T \in Nat \ {0}, NEW n, n = MulFloor(e, T, E), n > 0,
         NEW E1 \in Int, E1 >= E + e - 1
  PROVE  /\ n \in Nat
         /\ MulCeil(E1, 1, T + n) \in Int
         /\ MulFloor(n, E1, T + n) >= e - 1 - MulCeil(E1, 1, T + n)
<1>1. n \in Int /\ e * T < n * E + E
  BY MulFloorBounds
<1>2. n \in Nat /\ T + n \in Nat \ {0}
  BY <1>1
<1> DEFINE m == T + n
           c == MulCeil(E1, 1, T + n)
<1>3. c \in Int /\ E1 <= c * (T + n)
  <2>1. m \in Nat \ {0} /\ c = MulCeil(E1, 1, m) /\ E1 \in Int /\ 1 \in Int
    BY <1>2
  <2> HIDE DEF m, c
  <2>2. c \in Int /\ E1 * 1 <= c * m
    BY <2>1, MulCeilBounds
  <2>3. E1 <= c * m
    BY <2>2
  <2> QED BY <2>2, <2>3 DEF m
<1> HIDE DEF c
<1>4. n * E1 >= n * (E + e - 1) /\ n * E1 \in Int
  <2>1. \A x, y, z \in Int : x >= 0 /\ y <= z => x * y <= x * z /\ x * z \in Int
    BY Z3
  <2>2. E + e - 1 \in Int
    OBVIOUS
  <2> QED BY <1>2, <2>1, <2>2
<1>5. /\ n * (E + e - 1) = n * E + e * n - n
      /\ (T + n) * (e - 1 - c) = e * T + e * n - T - n - c * (T + n)
      /\ n * E \in Int /\ e * n \in Int /\ e * T \in Int /\ c * (T + n) \in Int
      /\ (T + n) * (e - 1 - c) \in Int
  BY <1>2, <1>3, Z3
<1>6. (T + n) * (e - 1 - c) <= n * E1
  BY <1>1, <1>2, <1>3, <1>4, <1>5
<1>7. e - 1 - c \in Int
  BY <1>3
<1>8. (n * E1) \div (T + n) >= e - 1 - c
  BY <1>2, <1>4, <1>6, <1>7, DivReaches
<1> QED BY <1>2, <1>3, <1>8 DEF MulFloor, c

\* A deposit is worth what it added, to a vault that was not wiped out.
LEMMA DepositGives ==
  ASSUME IInv, RatesAbovePar, NEW h, NEW a, NEW o, Deposit(h, a, o),
         Equity(position, rates) >= 0, Equity(position, rates) = 0 => totalShares = 0
  PROVE  SharesToUnderlying(event'.shares, position', rates, totalShares')
           >= event'.amount - LockedOf - 1 - MulCeil(Equity(position', rates), 1, totalShares')
<1> DEFINE eq == Equity(Minus(position', position), rates)
           E == Equity(position, rates)
           E1 == Equity(position', rates)
           minted == SharesFor(eq)
           T == totalShares
           v == SharesToUnderlying(event'.shares, position', rates, totalShares')
           c == MulCeil(E1, 1, totalShares')
<1>1. /\ position' \in Positions /\ eq > 0 /\ minted > LockedOf
      /\ totalShares' = T + minted
      /\ event'.shares = minted - LockedOf /\ event'.amount = eq
  BY DEF Deposit, Accepts, Did
<1>2. /\ position \in Positions /\ rates \in PoolRates /\ Reconciled = position
      /\ T \in Nat
  <2>1. T \in Nat
    BY BooksBalance DEF IInv
  <2> QED BY <2>1, TypesHold
<1>3. E \in Int /\ E1 \in Int /\ eq \in Int /\ E1 >= E + eq - 1
  BY <1>1, <1>2, EquityAdds
<1>4. minted = IF T = 0 \/ position.b = 0 \/ E <= 0 THEN eq ELSE MulFloor(eq, T, E)
  BY <1>2 DEF SharesFor, UnderlyingToShares
<1>5. position.b = 0 => E <= 0
  BY <1>2, EmptyIsWorthless
<1>6. E >= 0 /\ (E = 0 => T = 0)
  OBVIOUS
<1>7. v = IF T + minted = 0 \/ E1 <= 0 THEN 0 ELSE MulFloor(minted - LockedOf, E1, T + minted)
  BY <1>1 DEF SharesToUnderlying
<1>8. LockedOf = IF T = 0 THEN Lockup ELSE 0
  BY DEF LockedOf
<1>9. Lockup \in Nat \ {0}
  BY VaultConstantsOK
<1>10. c = MulCeil(E1, 1, T + minted)
  BY <1>1
<1>11. v >= eq - LockedOf - 1 - c
  <2> HIDE DEF eq, E, E1, minted, T, v, c
  <2>1. CASE T = 0
    <3>1. minted = eq /\ LockedOf = Lockup /\ eq \in Nat \ {0} /\ eq >= 2 /\ T + minted = eq
      BY <1>1, <1>3, <1>4, <1>8, <1>9, <2>1
    <3>2. E1 >= eq - 1 /\ E1 > 0
      BY <1>3, <1>6, <3>1
    <3>3. v = MulFloor(eq - Lockup, E1, eq) /\ eq - Lockup \in Nat /\ eq - Lockup <= eq
      BY <1>1, <1>3, <1>7, <1>9, <3>1, <3>2
    <3>4. v >= eq - Lockup - 1
      <4> DEFINE n == eq - Lockup
      <4>1. n \in Nat /\ n <= eq /\ v = MulFloor(n, E1, eq)
        BY <3>3
      <4> HIDE DEF n
      <4>2. v >= n - 1
        BY <1>3, <3>1, <3>2, <4>1, FirstShares
      <4> QED BY <4>2 DEF n
    <3>5. c \in Int /\ c >= 0
      <4>1. c \in Int /\ E1 * 1 <= c * eq
        BY <1>3, <1>10, <3>1, MulCeilBounds
      <4>2. \A x \in Int, z \in Nat \ {0} : x * z > 0 => x >= 0
        BY Z3
      <4>3. c * eq \in Int
        BY <3>1, <4>1, Z3
      <4>4. c * eq > 0
        BY <1>3, <3>2, <4>1, <4>3
      <4> QED BY <3>1, <4>1, <4>2, <4>4
    <3>6. v \in Int
      <4>1. eq - Lockup \in Int
        BY <3>3
      <4> QED BY <1>3, <3>1, <3>3, <4>1, MulFloorBounds
    <3> QED BY <1>3, <1>9, <3>1, <3>4, <3>5, <3>6
  <2>2. CASE T # 0
    <3>1. T \in Nat \ {0} /\ E \in Nat \ {0} /\ eq \in Nat \ {0} /\ LockedOf = 0
      BY <1>1, <1>2, <1>3, <1>6, <1>8, <2>2
    <3>2. minted = MulFloor(eq, T, E) /\ minted > 0
      BY <1>1, <1>4, <1>5, <3>1
    <3>3. E1 > 0
      BY <1>3, <3>1
    <3>4. /\ minted \in Nat /\ MulCeil(E1, 1, T + minted) \in Int
          /\ MulFloor(minted, E1, T + minted) >= eq - 1 - MulCeil(E1, 1, T + minted)
      BY <1>3, <3>1, <3>2, NextShares
    <3>5. v = MulFloor(minted, E1, T + minted)
      BY <1>3, <1>7, <3>1, <3>2, <3>3, <3>4
    <3>6. eq - LockedOf - 1 - c = eq - 1 - c
      BY <1>3, <1>10, <3>1, <3>4
    <3> QED BY <1>10, <3>4, <3>5, <3>6
  <2> QED BY <2>1, <2>2
<1> QED BY <1>1, <1>11

\* Whatever the rates, the loop and the size of the deposit, its shares are
\* worth what it added, but for the lockup, a unit and a part of a share.
THEOREM SolventDepositKeepsValueAlways == Spec => SolventDepositKeepsValue
<1>1. Init => IInv /\ RatesAbovePar
  BY InitIInv, MathConstantsOK DEF Init, RatesAbovePar
<1>2. IInv /\ RatesAbovePar /\ [Next]_vars => (IInv /\ RatesAbovePar)'
  BY NextIInv, RatesStayAbovePar
<1>3. IInv /\ RatesAbovePar /\ [Next]_vars =>
        [event'.kind = "deposit" /\ Equity(position, rates) >= 0 /\ (Equity(position, rates) = 0 => totalShares = 0) =>
           SharesToUnderlying(event'.shares, position', rates, totalShares')
             >= event'.amount - LockedOf - 1 - MulCeil(Equity(position', rates), 1, totalShares')]_vars
  <2> SUFFICES ASSUME IInv, RatesAbovePar, Next, event'.kind = "deposit",
                      Equity(position, rates) >= 0, Equity(position, rates) = 0 => totalShares = 0
               PROVE  SharesToUnderlying(event'.shares, position', rates, totalShares')
                        >= event'.amount - LockedOf - 1 - MulCeil(Equity(position', rates), 1, totalShares')
    OBVIOUS
  <2>1. CASE \E h \in Holders, n \in Amounts, o \in Others : Deposit(h, n, o)
    BY <2>1, DepositGives
  <2>2. CASE (\E h \in Holders : \E n \in (Amounts \cup {Balance(h)}) \cap (Nat \ {0}) : Withdraw(h, n))
             \/ (\E h \in Holders, k \in Accounts, n \in Amounts : h # k /\ Transfer(h, k, n))
             \/ \E h \in Holders, n \in Amounts : Burn(h, n)
    BY <2>2 DEF Withdraw, Transfer, Burn, Did
  <2>3. CASE KeeperStep
    BY <2>3 DEF KeeperStep, Harvest, Rebalance, RebalanceKeeper, PartialUnwind, UnwindTo, Releverage, SyncReserves, Did
  <2>4. CASE PoolStep
    BY <2>4 DEF PoolStep, Accrue, Seize, RepayForVault, SetRisk, Did
  <2> QED BY <2>1, <2>2, <2>3, <2>4 DEF Next, HolderStep
<1> QED BY <1>1, <1>2, <1>3, PTL DEF Spec, SolventDepositKeepsValue

-----------------------------------------------------------------------------
(* What an unwind restores *)

\* compute_partial_unwind: layers short of their cap cover what is to be repaid,
\* which is all of the debt, or enough for the target.
LEMMA LayersCover ==
  ASSUME NEW p \in Positions, NEW r \in PoolRates, NEW k \in Risks, NEW t \in Nat, t >= OrangeHf,
         NEW n, n = UnwindLoops(p, r, k.l, t), n > 0, n < MaxLayers, UnwindLayer(p, r) > 0
  PROVE  /\ n \in Nat /\ n * UnwindLayer(p, r) \in Nat
         /\ \/ n * UnwindLayer(p, r) >= Debt(p, r)
            \/ n * UnwindLayer(p, r) * (t - EffectiveCFactor(k.l))
                 > t * Debt(p, r) - Supply(p, r) * EffectiveCFactor(k.l)
<1> DEFINE cl == EffectiveCFactor(k.l)
           short == t * Debt(p, r) - Supply(p, r) * cl
           layer == UnwindLayer(p, r)
           need == RepayNeeded(p, r, k.l, t)
           c == MulCeil(need, 1, layer)
           gap == t - cl
           s == short \div gap
<1>1. cl \in Nat /\ gap \in Nat \ {0}
  BY TargetsClear, VaultConstantsOK
<1>2. Debt(p, r) \in Nat /\ layer \in Nat \ {0}
  BY LayerIsNat
<1>3. short \in Int
  <2>1. Supply(p, r) \in Int
    <3>1. p.b \in Int /\ r.b \in Int
      BY UnitsAreInts DEF Positions
    <3> QED BY <3>1, UnitsAreInts, MulFloorBounds DEF Supply
  <2> QED BY <1>1, <1>2, <2>1, Z3
<1>4. s \in Int /\ s * gap + gap > short
  <2> HIDE DEF short, gap
  <2>1. s \in Int /\ short < gap * s + gap
    BY <1>1, <1>3, DivBounds
  <2>2. gap * s = s * gap /\ s * gap \in Int
    BY <1>1, <2>1, Z3
  <2> HIDE DEF s
  <2> QED BY <1>1, <1>3, <2>1, <2>2
<1>5. need = Smaller(s + 1, Debt(p, r))
  BY DEF RepayNeeded
<1>6. n = Larger(1, Smaller(MaxLayers, c))
  BY <1>2 DEF UnwindLoops
<1> HIDE DEF cl, short, need, layer, c, gap, s
<1>7. need \in Int
  BY <1>2, <1>4, <1>5 DEF Smaller
<1>8. c \in Int /\ need <= c * layer
  <2>1. c \in Int /\ need * 1 <= c * layer
    BY <1>2, <1>7, MulCeilBounds DEF c
  <2> QED BY <1>7, <2>1
<1>9. n \in Nat /\ c <= n
  BY <1>6, <1>8, MathConstantsOK DEF Larger, Smaller
<1>10. n * layer \in Nat /\ n * layer >= need
  <2>1. \A x \in Int, y, z \in Nat : x <= y => x * z \in Int /\ y * z \in Nat /\ x * z <= y * z
    BY Z3
  <2>2. c * layer \in Int /\ n * layer \in Nat /\ c * layer <= n * layer
    BY <1>2, <1>8, <1>9, <2>1
  <2> QED BY <1>7, <1>8, <2>2
<1>11. CASE need = Debt(p, r)
  BY <1>9, <1>10, <1>11 DEF layer
<1>12. CASE need = s + 1
  <2>1. \A x, y \in Int, z \in Nat : x <= y => x * z \in Int /\ y * z \in Int /\ x * z <= y * z
    BY Z3
  <2>2. (s + 1) * gap \in Int /\ n * layer * gap \in Int /\ (s + 1) * gap <= n * layer * gap
    BY <1>1, <1>4, <1>10, <1>12, <2>1
  <2>3. (s + 1) * gap = s * gap + gap /\ s * gap \in Int
    BY <1>1, <1>4, Z3
  <2>4. n * layer * gap > short
    BY <1>1, <1>3, <1>4, <2>2, <2>3
  <2> QED BY <1>9, <1>10, <2>4 DEF layer, gap, short, cl
<1> QED BY <1>5, <1>11, <1>12 DEF Smaller

\* What the pool keeps of an unwind of k layers is dust: the debt falls by the
\* layers, and the collateral by no more.
LEMMA DeleverageLeaves ==
  ASSUME NEW p \in Positions, NEW r \in PoolRates, r.b >= Unit12, r.d >= Unit12, NEW k \in Nat,
         NEW q, q = Deleveraged(p, k, r), Settled(q) \in Positions,
         NEW rest, rest = Larger(Debt(p, r) - k * UnwindLayer(p, r), 0),
         NEW dust, dust = (k + 2) * PairOf(r)
  PROVE  /\ rest \in Nat /\ dust \in Nat
         /\ Supply(p, r) \in Int /\ Debt(p, r) \in Nat
         /\ Supply(Settled(q), r) \in Nat /\ Debt(Settled(q), r) \in Nat
         /\ Debt(Settled(q), r) <= rest + dust
         /\ Supply(Settled(q), r) + dust >= Supply(p, r) - Debt(p, r) + rest
<1> DEFINE P == PairOf(r)
           u == Unit12
           S == Supply(p, r)
           D == Debt(p, r)
           S1 == Supply(Settled(q), r)
           D1 == Debt(Settled(q), r)
           pb == p.b * r.b
           pd == p.d * r.d
           qb == q.b * r.b
           qd == q.d * r.d
           cu == q.cash * u
           loss == k * (r.b + r.d)
<1>1. /\ rest \in Nat /\ q.b \in Nat /\ q.d \in Nat
      /\ rest * u <= qd
      /\ qd + D * u <= pd + rest * u + k * r.d
  BY DeleverageTakes
<1>2. q \in Running /\ q.cash <= 0 /\ qb - qd + cu + loss >= pb - pd
  BY DeleverageCosts DEF Worth
<1>3. /\ P \in Nat \ {0} /\ P * u \in Int /\ r.b + r.d <= P * u
      /\ u \in Nat \ {0} /\ r.b \in Nat \ {0} /\ r.d \in Nat \ {0}
      /\ p.b \in Nat /\ p.d \in Nat /\ q.cash \in Int
  BY <1>2, PairCovers, UnitsAreInts DEF Positions
<1>4. /\ S \in Int /\ S * u <= pb
      /\ D \in Int /\ pd < D * u + u
      /\ S1 \in Int /\ qb < S1 * u + u
      /\ D1 \in Int /\ D1 * u <= qd
  <2>1. Settled(q).b = q.b /\ Settled(q).d = q.d
    BY DEF Settled
  <2>2. /\ p.b \in Int /\ p.d \in Int /\ q.b \in Int /\ q.d \in Int
        /\ r.b \in Int /\ r.d \in Int
    BY <1>1, <1>3
  <2>3. /\ MulFloor(p.b, r.b, u) \in Int /\ MulFloor(p.b, r.b, u) * u <= p.b * r.b
        /\ MulFloor(p.d, r.d, u) \in Int /\ p.d * r.d < MulFloor(p.d, r.d, u) * u + u
        /\ MulFloor(q.b, r.b, u) \in Int /\ q.b * r.b < MulFloor(q.b, r.b, u) * u + u
        /\ MulFloor(q.d, r.d, u) \in Int /\ MulFloor(q.d, r.d, u) * u <= q.d * r.d
    BY <1>3, <2>2, MulFloorBounds
  <2> QED BY <2>1, <2>3 DEF Supply, Debt
<1>5. D \in Nat /\ D1 \in Nat /\ S1 \in Nat
  <2>1. \A x, y \in Nat, z \in Nat \ {0} : MulFloor(x, y, z) \in Nat
    BY Z3 DEF MulFloor
  <2>2. Settled(q).b \in Nat /\ Settled(q).d \in Nat
    BY DEF Positions
  <2> QED BY <1>3, <2>1, <2>2 DEF Supply, Debt
<1>6. dust = (k + 2) * P
  OBVIOUS
<1> HIDE DEF P, S, D, S1, D1
<1>7. dust \in Nat /\ dust * u \in Int /\ dust * u = k * (P * u) + 2 * (P * u)
  <2>1. \A x, y, z \in Nat : (x + 2) * y \in Nat /\ (x + 2) * y * z \in Int
                             /\ (x + 2) * y * z = x * (y * z) + 2 * (y * z)
    BY Z3
  <2> QED BY <1>3, <1>6, <2>1
<1>8. /\ k * r.d \in Int /\ k * r.d <= k * (P * u)
      /\ loss \in Int /\ loss <= k * (P * u) /\ k * (P * u) \in Int
  <2>1. \A x \in Nat, y, z \in Int : y <= z => x * y \in Int /\ x * z \in Int /\ x * y <= x * z
    BY Z3
  <2>2. r.d <= P * u /\ r.b + r.d \in Int /\ r.d \in Int
    BY <1>3
  <2> QED BY <1>3, <2>1, <2>2
<1>9. cu \in Int /\ cu <= 0
  <2>1. \A x \in Int, y \in Nat : x <= 0 => x * y \in Int /\ x * y <= 0
    BY Z3
  <2> QED BY <1>2, <1>3, <2>1
<1>10. pb \in Int /\ pd \in Int /\ qb \in Int /\ qd \in Int /\ rest * u \in Int /\ D * u \in Int
       /\ S * u \in Int /\ S1 * u \in Int /\ D1 * u \in Int
  BY <1>1, <1>3, <1>4, Z3
<1>11. u <= P * u
  BY <1>3
<1> HIDE DEF u, pb, pd, qb, qd, cu, loss
<1>12. D1 * u < rest * u + dust * u
  BY <1>1, <1>3, <1>4, <1>7, <1>8, <1>10, <1>11
<1>13. S1 * u + dust * u > S * u - D * u + rest * u
  BY <1>1, <1>2, <1>3, <1>4, <1>7, <1>8, <1>9, <1>10, <1>11
<1>14. \A x, y \in Int : x * u < y * u => x < y
  BY <1>3, Z3
<1>15. D1 <= rest + dust
  <2>1. (rest + dust) * u = rest * u + dust * u /\ rest + dust \in Int
    BY <1>1, <1>3, <1>7, Z3
  <2>2. D1 < rest + dust
    BY <1>4, <1>12, <1>14, <2>1
  <2> QED BY <1>4, <2>1, <2>2
<1>16. S1 + dust >= S - D + rest
  <2>1. /\ (S1 + dust) * u = S1 * u + dust * u /\ S1 + dust \in Int
        /\ (S - D + rest) * u = S * u - D * u + rest * u /\ S - D + rest \in Int
    BY <1>1, <1>3, <1>4, <1>7, Z3
  <2>2. S - D + rest < S1 + dust
    BY <1>13, <1>14, <2>1
  <2> QED BY <2>1, <2>2
<1> QED BY <1>1, <1>4, <1>5, <1>7, <1>15, <1>16 DEF S, D, S1, D1

\* Repaying x out of the collateral reaches the target t, if x covers what it
\* was short of, or there is nothing left to repay.
LEMMA RepaidEnough ==
  ASSUME NEW t \in Nat, NEW cl \in Nat, NEW S \in Int, NEW D \in Nat, NEW S1 \in Nat, NEW D1 \in Nat,
         NEW dust \in Nat, NEW x \in Nat, NEW rest \in Nat, rest = Larger(D - x, 0),
         D1 <= rest + dust, S1 + dust >= S - D + rest,
         x >= D \/ x * (t - cl) > t * D - S * cl
  PROVE  t * (D1 - dust) <= (S1 + dust) * cl
<1>1. t * (D1 - dust) <= t * rest /\ t * rest \in Nat /\ t * (D1 - dust) \in Int
  <2>1. \A a \in Nat, b, c \in Int : b <= c => a * b \in Int /\ a * b <= a * c
    BY Z3
  <2>2. \A a, b \in Nat : a * b \in Nat
    BY Z3
  <2>3. D1 - dust \in Int /\ D1 - dust <= rest
    OBVIOUS
  <2> QED BY <2>1, <2>2, <2>3
<1>2. (S1 + dust) * cl \in Nat
  <2>1. \A a, b \in Nat : a * b \in Nat
    BY Z3
  <2> QED BY <2>1
<1>3. CASE x >= D
  <2>1. rest = 0
    BY <1>3 DEF Larger
  <2>2. t * rest = 0
    BY <2>1
  <2> DEFINE l == t * (D1 - dust)
             e == (S1 + dust) * cl
             o == t * rest
  <2>3. l \in Int /\ l <= o /\ o = 0 /\ e \in Nat
    BY <1>1, <1>2, <2>2
  <2> HIDE DEF l, e, o
  <2>4. l <= e
    BY <2>3
  <2> QED BY <2>4 DEF l, e
<1>4. CASE x < D /\ x * (t - cl) > t * D - S * cl
  <2>1. rest = D - x
    BY <1>4 DEF Larger
  <2>2. S1 + dust >= S - x
    BY <2>1
  <2>3. (S1 + dust) * cl >= (S - x) * cl
    <3>1. \A a \in Nat, b, c \in Int : b <= c => b * a <= c * a
      BY Z3
    <3> QED BY <2>2, <3>1
  <2>4. /\ (S - x) * cl = S * cl - x * cl /\ t * (D - x) = t * D - t * x
        /\ x * (t - cl) = t * x - x * cl
        /\ S * cl \in Int /\ x * cl \in Int /\ t * D \in Int /\ t * x \in Int
    BY Z3
  <2>5. t * rest <= (S - x) * cl
    BY <1>4, <2>1, <2>4
  <2>6. (S - x) * cl \in Int
    BY <2>4
  <2> QED BY <1>1, <1>2, <2>3, <2>5, <2>6
<1> QED BY <1>3, <1>4

\* An unwind, whoever asked for it.
LEMMA UnwindReaches ==
  ASSUME IInv, RatesAbovePar, NEW t \in Nat, t >= OrangeHf, UnwindTo(t),
         event'.shares < MaxLayers, UnwindLayer(position, rates) > 0
  PROVE  event'.kind = "rebalance"
         /\ event'.amount * (Debt(position', rates) - DustOf(event'.shares))
              <= (Supply(position', rates) + DustOf(event'.shares)) * EffectiveCFactor(risk.l)
<1> DEFINE n == UnwindLoops(position, rates, risk.l, t)
           q == Deleveraged(position, n, rates)
           x == n * UnwindLayer(position, rates)
           rest == Larger(Debt(position, rates) - x, 0)
           cl == EffectiveCFactor(risk.l)
           dust == DustOf(n)
           S == Supply(position, rates)
           D == Debt(position, rates)
           S1 == Supply(position', rates)
           D1 == Debt(position', rates)
<1>1. n > 0 /\ position' = Settled(q) /\ Settled(q) \in Positions
      /\ event'.kind = "rebalance" /\ event'.shares = n /\ event'.amount = t
  BY DEF UnwindTo, Did
<1>2. /\ position \in Positions /\ rates \in PoolRates /\ rates.b >= Unit12 /\ rates.d >= Unit12
      /\ TokenPair = PairOf(rates) /\ \A m \in Nat : DustOf(m) = (m + 2) * TokenPair
      /\ risk \in Risks
  BY TypesHold DEF IInv, TypeOK
<1>3. n = UnwindLoops(position, rates, risk.l, t) /\ q = Deleveraged(position, n, rates) /\ n < MaxLayers
  BY <1>1
<1> HIDE DEF n
<1>4. /\ n \in Nat /\ x \in Nat
      /\ x >= D \/ x * (t - cl) > t * D - S * cl
  BY <1>1, <1>2, <1>3, LayersCover
<1>5. cl \in Nat
  BY <1>2, TargetsClear
<1>6. dust = (n + 2) * PairOf(rates) /\ rest = Larger(D - n * UnwindLayer(position, rates), 0)
  BY <1>2, <1>4
<1> HIDE DEF q, dust, rest
<1>7. /\ rest \in Nat /\ dust \in Nat
      /\ S \in Int /\ D \in Nat
      /\ Supply(Settled(q), rates) \in Nat /\ Debt(Settled(q), rates) \in Nat
      /\ Debt(Settled(q), rates) <= rest + dust
      /\ Supply(Settled(q), rates) + dust >= S - D + rest
  BY <1>1, <1>2, <1>3, <1>4, <1>6, DeleverageLeaves
<1>8. S1 \in Nat /\ D1 \in Nat /\ D1 <= rest + dust /\ S1 + dust >= S - D + rest
  BY <1>1, <1>7
<1>9. rest = Larger(D - x, 0)
  BY DEF rest
<1> HIDE DEF x, cl, S, D, S1, D1
<1>10. t * (D1 - dust) <= (S1 + dust) * cl
  BY <1>4, <1>5, <1>7, <1>8, <1>9, RepaidEnough
<1> QED BY <1>1, <1>10 DEF S1, D1, dust, cl

\* The steps the property is about are the unwinds; the others are marked
\* otherwise.
LEMMA UnwindsReach ==
  ASSUME IInv, RatesAbovePar, Next,
         event'.kind = "rebalance", event'.shares < MaxLayers, UnwindLayer(position, rates) > 0
  PROVE  event'.amount * (Debt(position', rates) - DustOf(PairsSent'))
           <= (Supply(position', rates) + DustOf(PairsSent')) * EffectiveCFactor(risk.l)
<1>0. /\ OrangeHf \in Nat
      /\ \A t \in Targets : t \in Nat
      /\ PairsSent' = event'.shares
  BY VaultConstantsOK DEF PairsSent
<1>1. CASE HolderStep
  BY <1>1 DEF HolderStep, Deposit, Withdraw, Transfer, Burn, Did
<1>2. CASE (\E n \in Amounts : Harvest(n)) \/ (\E o \in Others : Releverage(o)) \/ SyncReserves
  BY <1>2 DEF Harvest, Releverage, SyncReserves, Did
<1>3. CASE Rebalance \/ RebalanceKeeper
  <2>1. UnwindTo(OrangeHf) /\ OrangeHf >= OrangeHf
    BY <1>0, <1>3 DEF Rebalance, RebalanceKeeper
  <2> QED BY <1>0, <2>1, UnwindReaches
<1>4. CASE \E k \in BOOLEAN, t \in Targets : PartialUnwind(k, t)
  <2>1. PICK k \in BOOLEAN, t \in Targets : PartialUnwind(k, t)
    BY <1>4
  <2> DEFINE u == IF k THEN Larger(t, OrangeHf) ELSE OrangeHf
  <2>2. UnwindTo(u)
    BY <2>1 DEF PartialUnwind
  <2>3. u \in Nat /\ u >= OrangeHf
    BY <1>0 DEF Larger
  <2> HIDE DEF u
  <2> QED BY <1>0, <2>2, <2>3, UnwindReaches
<1>5. CASE PoolStep
  BY <1>5 DEF PoolStep, Accrue, Seize, RepayForVault, SetRisk, Did
<1> QED BY <1>1, <1>2, <1>3, <1>4, <1>5 DEF Next, HolderStep, KeeperStep

\* Whatever the rates, the target and the position, an unwind its cap does not
\* stop repays enough for the health factor it was asked for, but for dust.
THEOREM UnwindRestoresAlways == Spec => UnwindRestores
<1>1. Init => IInv /\ RatesAbovePar
  BY InitIInv, MathConstantsOK DEF Init, RatesAbovePar
<1>2. IInv /\ RatesAbovePar /\ [Next]_vars => (IInv /\ RatesAbovePar)'
  BY NextIInv, RatesStayAbovePar
<1>3. IInv /\ RatesAbovePar /\ [Next]_vars =>
        [event'.kind = "rebalance" /\ event'.shares < MaxLayers /\ UnwindLayer(position, rates) > 0 =>
           event'.amount * (Debt(position', rates) - DustOf(PairsSent'))
             <= (Supply(position', rates) + DustOf(PairsSent')) * EffectiveCFactor(risk.l)]_vars
  BY UnwindsReach
<1> QED BY <1>1, <1>2, <1>3, PTL DEF Spec, UnwindRestores

-----------------------------------------------------------------------------
(* Leaving the vault *)

\* The cash n of t shares are worth is what was quoted for them, but for dust.
LEMMA QuoteIsPaid ==
  ASSUME NEW U \in Nat \ {0}, NEW t \in Nat \ {0}, NEW n \in Nat, n < t,
         NEW E \in Nat, NEW W \in Int, NEW s \in Nat, E * U <= W + s,
         NEW quote \in Int, quote * t <= n * E,
         NEW x \in Int, NEW cost \in Nat, t * (x * U) + t * (cost + s) >= n * W,
         NEW D \in Nat, cost + 2 * s <= D * U
  PROVE  x >= quote - D
<1>1. /\ n * (E * U) <= n * (W + s) /\ n * (E * U) \in Int /\ n * (W + s) \in Int
      /\ n * (W + s) = n * W + n * s /\ n * W \in Int /\ n * s \in Int /\ n * s <= t * s /\ t * s \in Int
  <2>1. \A a \in Nat, b, c \in Int : b <= c => a * b <= a * c /\ a * b \in Int /\ a * c \in Int
    BY Z3
  <2>2. E * U \in Int /\ W + s \in Int
    BY Z3
  <2>3. n * (E * U) <= n * (W + s) /\ n * (E * U) \in Int /\ n * (W + s) \in Int
    BY <2>1, <2>2
  <2>4. s * n <= s * t /\ s * n = n * s /\ s * t = t * s /\ n * s \in Int /\ t * s \in Int
    <3>1. n \in Int /\ t \in Int /\ n <= t
      OBVIOUS
    <3>2. s * n <= s * t
      BY <2>1, <3>1
    <3> QED BY <3>2, Z3
  <2>5. n * (W + s) = n * W + n * s /\ n * W \in Int
    BY Z3
  <2> QED BY <2>3, <2>4, <2>5
<1>2. (quote * t) * U <= (n * E) * U /\ (quote * t) * U = t * (quote * U) /\ (n * E) * U = n * (E * U) /\ t * (quote * U) \in Int
  <2>1. \A a, b \in Int : a <= b => a * U <= b * U
    BY Z3
  <2>2. quote * t \in Int /\ n * E \in Int
    BY Z3
  <2>3. (quote * t) * U = t * (quote * U) /\ (n * E) * U = n * (E * U) /\ t * (quote * U) \in Int
    BY Z3
  <2> QED BY <2>1, <2>2, <2>3
<1>3. t * (D * U) >= t * (cost + 2 * s) /\ t * (cost + 2 * s) = t * (cost + s) + t * s
      /\ t * (D * U) \in Int /\ t * (cost + s) \in Int
  <2>1. \A a, b \in Int : a <= b => t * a <= t * b
    BY Z3
  <2>2. D * U \in Int /\ cost + 2 * s \in Int
    BY Z3
  <2>3. t * (cost + 2 * s) <= t * (D * U)
    BY <2>1, <2>2
  <2>4. t * (cost + 2 * s) = t * (cost + s) + t * s /\ t * (D * U) \in Int /\ t * (cost + s) \in Int
    BY Z3
  <2>5. t * (cost + 2 * s) \in Int
    BY Z3
  <2> QED BY <2>3, <2>4, <2>5
<1>4. t * (x * U) \in Int
  BY Z3
<1>5. t * (x * U) + t * (D * U) >= t * (quote * U)
  BY <1>1, <1>2, <1>3, <1>4
<1>6. t * (x * U) + t * (D * U) = (x + D) * (t * U) /\ t * (quote * U) = quote * (t * U) /\ t * U \in Nat \ {0}
  BY Z3
<1>7. \A a, b \in Int, z \in Nat \ {0} : a * z >= b * z => a >= b
  BY Z3
<1>8. x + D >= quote
  BY <1>5, <1>6, <1>7
<1> QED BY <1>8

\* The margin of the orange zone over liquidation absorbs the dust: what is left
\* of a position with collateral factor k over U * U (the two factors), debt d
\* and equity E, out of the zone at o, once n of t shares have left, is solvent.
LEMMA MarginAbsorbs ==
  ASSUME NEW U \in Nat \ {0}, NEW o \in Nat, o > U, NEW k \in Nat, k <= U * U,
         NEW E \in Nat, NEW d \in Nat, k * (E + d) >= o * (d * U),
         NEW t \in Nat \ {0}, NEW n \in Nat, n < t,
         NEW left \in Int, (t - n) * E > t * (left - 1),
         NEW dust \in Nat, NEW e \in Int, t * (e + dust) >= (t - n) * E,
         NEW f \in Nat, t * f <= (t - n) * d + t * dust,
         NEW more \in Nat, more >= dust + 1,
         left * (k * (o - U)) >= more * (U * U * o)
  PROVE  k * (e + f) >= f * (U * U)
<1> DEFINE Q == U * U
           M == Q - k
           R == o * U - k
           m == t - n
           V == k * (o - U)
           Z == Q * o
<1>0. /\ Q \in Nat \ {0} /\ o * U \in Nat /\ o * U > Q /\ V \in Nat /\ Z \in Nat \ {0}
      /\ m \in Nat \ {0} /\ m <= t
  <2>1. Q \in Nat \ {0} /\ o * U \in Nat
    BY Z3
  <2>2. o * U > U * U
    BY Z3
  <2>3. o - U \in Nat /\ o \in Nat \ {0}
    OBVIOUS
  <2>4. V \in Nat /\ Z \in Nat \ {0}
    <3>1. \A a, b \in Nat : a * b \in Nat
      BY Z3
    <3>2. \A a, b \in Nat \ {0} : a * b \in Nat \ {0}
      BY Z3
    <3> HIDE DEF Q
    <3> QED BY <2>1, <2>3, <3>1, <3>2
  <2> QED BY <2>1, <2>2, <2>4
<1>1. M \in Nat /\ R \in Nat \ {0} /\ R <= o * U /\ R - M = o * U - Q
  BY <1>0
<1>2. V <= Z
  <2>1. V <= k * o
    <3>1. \A a \in Nat, b, c \in Int : b <= c => a * b <= a * c
      BY Z3
    <3>2. o - U <= o /\ o - U \in Int /\ o \in Int
      OBVIOUS
    <3> QED BY <3>1, <3>2
  <2>2. k * o <= Q * o /\ k * o \in Int
    <3>1. \A a, b, c \in Nat : a <= b => a * c <= b * c /\ a * c \in Int
      BY Z3
    <3> HIDE DEF Q
    <3>2. k <= Q
      BY DEF Q
    <3> QED BY <1>0, <3>1, <3>2
  <2> HIDE DEF V, Q
  <2>3. Q * o \in Int
    BY <1>0 DEF Z
  <2> QED BY <1>0, <2>1, <2>2, <2>3 DEF Z
\* R D <= k E
<1>3. R * d <= k * E /\ R * d \in Int /\ k * E \in Int
  <2>1. R * d = o * (d * U) - k * d /\ k * (E + d) = k * E + k * d
        /\ k * d \in Int /\ k * E \in Int /\ o * (d * U) \in Int
    BY Z3
  <2> HIDE DEF R
  <2> QED BY <2>1
\* R (k E - M d) >= U V E
<1> DEFINE G == k * E - M * d
<1>4. R * G >= (U * V) * E /\ G \in Int
  <2>1. M * (R * d) <= M * (k * E) /\ M * (R * d) \in Int /\ M * (k * E) \in Int
    <3>1. \A a \in Nat, b, c \in Int : b <= c => a * b <= a * c /\ a * b \in Int /\ a * c \in Int
      BY Z3
    <3> HIDE DEF M, R
    <3> QED BY <1>1, <1>3, <3>1
  <2>2. R * G = R * (k * E) - M * (R * d) /\ G \in Int /\ R * (k * E) \in Int
    <3> HIDE DEF R, M
    <3>1. G \in Int /\ R * (k * E) \in Int
      BY <1>1, Z3
    <3>2. R * (k * E - M * d) = R * (k * E) - M * (R * d)
      BY <1>1, Z3
    <3> QED BY <3>1, <3>2
  <2>3. R * (k * E) - M * (k * E) = (U * V) * E
    <3>1. R * (k * E) - M * (k * E) = (R - M) * (k * E)
      <4> HIDE DEF R, M
      <4> QED BY <1>1, Z3
    <3>2. (o * U - U * U) * (k * E) = (U * (k * (o - U))) * E
      BY Z3
    <3> QED BY <1>1, <3>1, <3>2
  <2>4. (U * V) * E \in Int
    <3> HIDE DEF V
    <3> QED BY <1>0, Z3
  <2> HIDE DEF R, M, G, V
  <2> QED BY <2>1, <2>2, <2>3, <2>4
\* V (left - 1) >= Z dust
<1>5. V * (left - 1) >= Z * dust /\ V * (left - 1) \in Int /\ Z * dust \in Int
  <2>1. left * V >= more * Z
    OBVIOUS
  <2> HIDE DEF V, Z
  <2>2. more * Z >= (dust + 1) * Z /\ more * Z \in Int
    <3>1. \A a, b, c \in Nat : a >= b => a * c >= b * c /\ a * c \in Int
      BY Z3
    <3>2. dust + 1 \in Nat
      OBVIOUS
    <3> QED BY <1>0, <3>1, <3>2
  <2>3. (dust + 1) * Z = Z * dust + Z /\ V * (left - 1) = left * V - V /\ left * V \in Int /\ Z * dust \in Int
    BY <1>0, Z3
  <2> QED BY <1>0, <1>2, <2>1, <2>2, <2>3
\* R (m G) >= U (t Z dust) >= R (t Q dust)
<1>6. m * G >= t * (Q * dust) /\ m * G \in Int /\ t * (Q * dust) \in Int
  <2> HIDE DEF m, G, V, M
  <2>1. R * (m * G) >= m * ((U * V) * E) /\ R * (m * G) \in Int /\ m * ((U * V) * E) \in Int
    <3> HIDE DEF R
    <3>1. \A a \in Nat, b, c \in Int : b <= c => a * b <= a * c /\ a * b \in Int /\ a * c \in Int
      BY Z3
    <3>2. R * G \in Int /\ (U * V) * E \in Int
      BY <1>0, <1>1, <1>4, Z3
    <3>3. m * ((U * V) * E) <= m * (R * G) /\ m * ((U * V) * E) \in Int /\ m * (R * G) \in Int
      BY <1>0, <1>4, <3>1, <3>2
    <3>4. m * (R * G) = R * (m * G)
      BY <1>0, <1>1, <1>4, Z3
    <3> QED BY <3>3, <3>4
  <2>2. m * ((U * V) * E) >= U * (t * (V * (left - 1))) /\ U * (t * (V * (left - 1))) \in Int
    <3>1. m * E >= t * (left - 1) /\ m * E \in Int /\ t * (left - 1) \in Int
      <4>1. (t - n) * E \in Int /\ t * (left - 1) \in Int
        BY Z3
      <4> QED BY <4>1 DEF m
    <3>2. \A a \in Nat, b, c \in Int : b <= c => a * b <= a * c /\ a * b \in Int /\ a * c \in Int
      BY Z3
    <3>3. U * V \in Nat
      BY <1>0, Z3
    <3>4. (U * V) * (t * (left - 1)) <= (U * V) * (m * E) /\ (U * V) * (t * (left - 1)) \in Int
      BY <3>1, <3>2, <3>3
    <3>5. (U * V) * (m * E) = m * ((U * V) * E) /\ (U * V) * (t * (left - 1)) = U * (t * (V * (left - 1)))
      BY <1>0, Z3
    <3> QED BY <3>4, <3>5
  <2>3. U * (t * (V * (left - 1))) >= U * (t * (Z * dust)) /\ U * (t * (Z * dust)) \in Int
    <3> HIDE DEF Z
    <3>1. \A a \in Nat, b, c \in Int : b <= c => a * b <= a * c /\ a * b \in Int /\ a * c \in Int
      BY Z3
    <3>2. t * (Z * dust) <= t * (V * (left - 1)) /\ t * (Z * dust) \in Int /\ t * (V * (left - 1)) \in Int
      BY <1>5, <3>1
    <3> QED BY <3>1, <3>2
  <2>4. U * (t * (Z * dust)) = (o * U) * (t * (Q * dust))
    <3> HIDE DEF Q
    <3> QED BY <1>0, Z3
  <2>5. (o * U) * (t * (Q * dust)) >= R * (t * (Q * dust)) /\ t * (Q * dust) \in Int /\ R * (t * (Q * dust)) \in Int
    <3> HIDE DEF Q, R
    <3>1. t * (Q * dust) \in Nat
      BY <1>0, Z3
    <3>2. \A a, b, c \in Nat : a <= b => a * c <= b * c /\ a * c \in Int
      BY Z3
    <3> QED BY <1>0, <1>1, <3>1, <3>2
  <2> HIDE DEF Z, Q, R
  <2>6. R * (m * G) >= R * (t * (Q * dust))
    BY <2>1, <2>2, <2>3, <2>4, <2>5
  <2>7. m * G \in Int
    BY <1>0, <1>4, Z3
  <2>8. \A a, b \in Int, z \in Nat \ {0} : z * a >= z * b => a >= b
    BY Z3
  <2> QED BY <1>1, <2>5, <2>6, <2>7, <2>8
\* k t e - M t f >= m G - t Q dust >= 0
<1>7. k * (t * e) + t * (k * dust) >= m * (k * E) /\ k * (t * e) \in Int /\ t * (k * dust) \in Int
  <2>1. \A a \in Nat, b, c \in Int : b <= c => a * b <= a * c /\ a * b \in Int /\ a * c \in Int
    BY Z3
  <2>2. t * (e + dust) >= m * E
    OBVIOUS
  <2> HIDE DEF m
  <2>3. t * (e + dust) \in Int /\ m * E \in Int
    BY <1>0, Z3
  <2>4. k * (m * E) <= k * (t * (e + dust))
    BY <2>1, <2>2, <2>3
  <2>5. k * (m * E) = m * (k * E) /\ k * (t * (e + dust)) = k * (t * e) + t * (k * dust)
        /\ k * (t * e) \in Int /\ t * (k * dust) \in Int
    BY <1>0, Z3
  <2> QED BY <2>4, <2>5
<1>8. M * (t * f) <= m * (M * d) + t * (M * dust) /\ M * (t * f) \in Int /\ t * (M * dust) \in Int
  <2>1. \A a \in Nat, b, c \in Int : b <= c => a * b <= a * c /\ a * b \in Int /\ a * c \in Int
    BY Z3
  <2>2. t * f <= m * d + t * dust
    OBVIOUS
  <2> HIDE DEF m, M
  <2>3. t * f \in Int /\ m * d + t * dust \in Int
    BY <1>0, Z3
  <2>4. M * (t * f) <= M * (m * d + t * dust)
    BY <1>1, <2>1, <2>2, <2>3
  <2>5. M * (m * d + t * dust) = m * (M * d) + t * (M * dust)
        /\ M * (t * f) \in Int /\ t * (M * dust) \in Int
    BY <1>0, <1>1, Z3
  <2> QED BY <2>4, <2>5
<1>9. m * G = m * (k * E) - m * (M * d) /\ m * (k * E) \in Int /\ m * (M * d) \in Int
  <2> HIDE DEF m, M
  <2> QED BY <1>0, <1>1, Z3
<1>10. t * (k * dust) + t * (M * dust) = t * (Q * dust)
  <2> HIDE DEF Q
  <2> QED BY <1>0, Z3
<1>11. k * (t * e) - M * (t * f) >= 0
  <2> HIDE DEF m, M, G, Q
  <2> QED BY <1>6, <1>7, <1>8, <1>9, <1>10
<1>12. k * (t * e) - M * (t * f) = t * (k * (e + f) - f * Q) /\ k * (e + f) - f * Q \in Int
  <2> HIDE DEF Q
  <2> QED BY <1>0, Z3
<1>13. \A a \in Int : t * a >= 0 => a >= 0
  BY Z3
<1>14. k * (e + f) - f * Q >= 0
  <2> HIDE DEF M, Q
  <2> QED BY <1>11, <1>12, <1>13
<1>15. k * (e + f) \in Int /\ f * Q \in Int
  <2> HIDE DEF Q
  <2> QED BY <1>0, Z3
<1> QED BY <1>14, <1>15

\* What balance() quotes a holder, and the shares withdraw burns for it.
LEMMA QuoteIs ==
  ASSUME IInv, RatesAbovePar, NEW h \in Holders, Balance(h) > 0
  PROVE  LET E == Equity(position, rates)
             n == SharesToBurn(Balance(h))
             left == E - Balance(h)
         IN /\ E \in Nat \ {0} /\ totalShares \in Nat \ {0}
            /\ Balance(h) \in Nat /\ left \in Nat
            /\ n \in Nat /\ n <= shares[h] /\ n < totalShares
            /\ Balance(h) * totalShares <= n * E
            /\ (totalShares - n) * E > totalShares * (left - 1)
<1> DEFINE E == Equity(position, rates)
           T == totalShares
           m == shares[h]
           y == Balance(h)
           n == SharesToBurn(y)
<1>1. Reconciled = position /\ T \in Nat /\ E \in Int
  BY TypesHold, BooksBalance DEF IInv
<1>2. T \in Nat \ {0} /\ E \in Nat \ {0} /\ y = MulFloor(m, E, T)
  BY <1>1 DEF Balance, SharesToUnderlying
<1>3. m \in Nat /\ m < T
  BY <1>2, NobodyHasAll
<1>4. n = MulCeil(y, T, E) /\ n <= m
  <2>1. n = MulCeil(y, T, E)
    BY <1>1 DEF SharesToBurn
  <2> HIDE DEF n, E, T, m, y
  <2> QED BY <1>2, <1>3, <2>1, RoundTrip
<1>5. y > 0
  OBVIOUS
<1> HIDE DEF n, E, T, m, y
<1>6. y \in Int /\ y * T <= m * E /\ m * E < y * T + T
  <2>1. m \in Int /\ E \in Int
    BY <1>2, <1>3
  <2> QED BY <1>2, <2>1, MulFloorBounds
<1>7. n \in Int /\ y * T <= n * E
  <2>1. T \in Int
    BY <1>2
  <2> QED BY <1>2, <1>4, <1>6, <2>1, MulCeilBounds
<1>8. y * T > 0 /\ y * T \in Int /\ n * E \in Int /\ m * E \in Int
  <2>1. \A a, b \in Nat \ {0} : a * b \in Nat \ {0}
    BY Z3
  <2>2. y \in Nat \ {0}
    BY <1>5, <1>6
  <2>3. n * E \in Int /\ m * E \in Int
    BY <1>2, <1>3, <1>7, Z3
  <2>4. y * T \in Nat \ {0}
    BY <1>2, <2>1, <2>2
  <2> QED BY <2>3, <2>4
<1>9. n >= 0
  <2>1. \A a \in Int, z \in Nat \ {0} : a * z > 0 => a >= 0
    BY Z3
  <2>2. n * E > 0
    BY <1>7, <1>8
  <2> QED BY <1>2, <1>7, <2>1, <2>2
<1>10. y <= E
  <2>1. \A a, b \in Int, z \in Nat \ {0} : a * z <= b * z => a <= b
    BY Z3
  <2>2. \A a, b, c \in Nat : a <= b => a * c <= c * b /\ c * b \in Int
    BY Z3
  <2>3. m * E <= E * T /\ E * T \in Int
    BY <1>2, <1>3, <2>2
  <2>4. y * T <= E * T
    BY <1>6, <1>8, <2>3
  <2> QED BY <1>2, <1>6, <2>1, <2>4
<1>11. (T - n) * E > T * (E - y - 1)
  <2>1. \A a, b, c \in Nat : a <= b => a * c <= b * c
    BY Z3
  <2>2. n * E <= m * E
    BY <1>2, <1>3, <1>4, <1>7, <1>9, <2>1
  <2>3. /\ (T - n) * E = T * E - n * E /\ T * (E - y - 1) = T * E - y * T - T
        /\ T * E \in Int
    BY <1>2, <1>6, <1>7, Z3
  <2> QED BY <1>2, <1>6, <1>8, <2>2, <2>3
<1>12. E - y \in Nat /\ n \in Nat /\ n < T /\ y \in Nat
  BY <1>2, <1>3, <1>4, <1>5, <1>6, <1>7, <1>9, <1>10
<1> QED BY <1>2, <1>4, <1>7, <1>11, <1>12 DEF E, T, m, n, y

\* What the unwind leaves of the debt is the part of those who stay, but for
\* dust.
LEMMA StayersOwe ==
  ASSUME IInv, RatesAbovePar, Equity(position, rates) > 0,
         NEW n \in Nat, n < totalShares, NEW q, q = UnwindOf(n)
  PROVE  /\ q.b \in Nat /\ q.d \in Nat
         /\ Debt(position, rates) \in Nat /\ Debt(Settled(q), rates) \in Nat
         /\ totalShares * Debt(Settled(q), rates)
              <= (totalShares - n) * Debt(position, rates) + totalShares * DustOf(TargetLoops)
         /\ q.b = 0 \/ q.cash >= MulFloor(MulFloor(n, position.b, totalShares), rates.b, Unit12)
                                 - MulFloor(MulFloor(n, position.d, totalShares), rates.d, Unit12)
<1> DEFINE T == totalShares
           bRem == MulFloor(n, position.b, T)
           dRem == MulFloor(n, position.d, T)
           debt == MulFloor(dRem, rates.d, Unit12)
           x == MulFloor(bRem, rates.b, Unit12) - debt
           out == Larger(x, 0)
           P == TokenPair
           D == DustOf(TargetLoops)
           V == position.d * rates.d
           v == q.d * rates.d
           c == rates.d
           u == Unit12
           O == Debt(position, rates)
           o == Debt(Settled(q), rates)
<1>1. /\ position \in Positions /\ rates \in PoolRates /\ Reconciled = position
      /\ rates.b >= Unit12 /\ rates.d >= Unit12
      /\ T \in Nat \ {0} /\ P = PairOf(rates) /\ P \in Nat \ {0}
      /\ D = (TargetLoops + 2) * P /\ D \in Nat
  BY TypesHold, LoopsAreNat
<1>2. bRem \in Nat /\ dRem \in Nat /\ dRem <= position.d
  <2>1. n < T /\ n \in Nat
    OBVIOUS
  <2> HIDE DEF T
  <2> QED BY <1>1, <2>1, PartTaken
<1>3. /\ dRem >= position.d => position.d <= 0
      /\ x \in Int
      /\ T * (debt * Unit12) + T * (rates.d + Unit12) >= n * V
  <2>1. n < T /\ n \in Nat
    OBVIOUS
  <2> HIDE DEF T
  <2> QED BY <1>1, <2>1, PartAsked
<1>4. q = Unwound(position, bRem, dRem, rates)
  BY <1>1 DEF UnwindOf
<1>5. /\ q.b \in Nat /\ q.d \in Nat
      /\ q.b = 0 \/ q.cash = out
      /\ v + debt * Unit12 <= V + TargetLoops * rates.d
  <2> HIDE DEF bRem, dRem
  <2> QED BY <1>1, <1>2, <1>3, <1>4, UnwoundTakes
<1>6. q.b = 0 \/ q.cash >= x
  <2>1. x <= out /\ out \in Int
    BY <1>3 DEF Larger
  <2> HIDE DEF x, out
  <2> QED BY <1>3, <1>5, <2>1
<1>7. debt \in Nat
  BY <1>1, <1>2, DebtIsNat
<1>8. O \in Nat /\ V < O * u + u /\ V \in Int
  <2>1. position.d \in Nat /\ position.d \in Int /\ rates.d \in Int
    BY <1>1, UnitsAreInts DEF Positions
  <2>2. O \in Nat /\ V \in Int
    BY <1>1, <2>1, DebtIsNat DEF Debt
  <2>3. V < O * u + u
    BY <2>1, UnitsAreInts, MulFloorBounds DEF Debt
  <2> QED BY <2>2, <2>3
<1>9. o \in Nat /\ o * u <= v /\ v \in Int
  <2>1. Settled(q).d = q.d
    BY DEF Settled
  <2>2. o = MulFloor(q.d, rates.d, Unit12)
    BY <2>1 DEF Debt
  <2> HIDE DEF o
  <2> QED BY <1>1, <1>5, <2>2, DebtIsNat
<1>10. TargetLoops * c + c + 2 * u <= D * u /\ TargetLoops * c \in Int /\ D * u \in Int
  <2>1. P * Unit12 \in Int /\ rates.b + rates.d <= P * Unit12
    BY <1>1, PairCovers
  <2>2. c \in Nat /\ u \in Nat \ {0} /\ rates.b \in Nat /\ rates.b >= u /\ c >= u
    BY <1>1, UnitsAreInts
  <2> HIDE DEF c, u, P
  <2>3. c <= P * u
    BY <2>1, <2>2 DEF c, u
  <2>4. TargetLoops * c <= TargetLoops * (P * u) /\ TargetLoops * c \in Int /\ TargetLoops * (P * u) \in Int
    <3>1. \A a \in Nat, b1, b2 \in Int : b1 <= b2 => a * b1 <= a * b2 /\ a * b1 \in Int /\ a * b2 \in Int
      BY Z3
    <3>2. P * u \in Int /\ c \in Int
      BY <2>1, <2>2 DEF u
    <3> QED BY <2>3, <3>1, <3>2, LoopsAreNat
  <2>5. ((TargetLoops + 2) * P) * u = TargetLoops * (P * u) + P * u + P * u
    BY <1>1, <2>2, LoopsAreNat, Z3
  <2>6. D * u = TargetLoops * (P * u) + P * u + P * u
    BY <1>1, <2>5
  <2>7. c + 2 * u <= P * u + P * u
    BY <2>1, <2>2 DEF c, u
  <2>8. P * u \in Int
    BY <2>1 DEF u
  <2> DEFINE a1 == TargetLoops * c
             a2 == TargetLoops * (P * u)
             a3 == P * u
             a4 == D * u
  <2>9. a1 \in Int /\ a2 \in Int /\ a3 \in Int /\ c \in Int /\ u \in Int
    BY <2>2, <2>4, <2>8
  <2>10. a1 <= a2 /\ a4 = a2 + a3 + a3 /\ c + 2 * u <= a3 + a3
    BY <2>4, <2>6, <2>7
  <2> HIDE DEF a1, a2, a3, a4
  <2>11. a1 + c + 2 * u <= a4 /\ a4 \in Int
    BY <2>9, <2>10
  <2> QED BY <2>9, <2>11 DEF a1, a4
<1>11. n \in Nat /\ T - n \in Nat /\ n < T /\ c \in Nat \ {0} /\ u \in Nat \ {0} /\ TargetLoops \in Nat
  BY <1>1, LoopsAreNat, UnitsAreInts
<1>12. T * (debt * u) + T * (c + u) >= n * V /\ v + debt * u <= V + TargetLoops * c
  BY <1>3, <1>5
<1> HIDE DEF T, debt, V, v, c, u, O, o, D
<1>13. /\ T * v + T * (debt * u) <= T * V + T * (TargetLoops * c)
       /\ T * v \in Int /\ T * (debt * u) \in Int /\ T * V \in Int /\ T * (TargetLoops * c) \in Int
  <2>1. \A a, b \in Int : a <= b => T * a <= T * b
    BY <1>1, Z3
  <2>2. v + debt * u \in Int /\ V + TargetLoops * c \in Int
    <3>1. debt * u \in Int
      BY <1>7, <1>11, Z3
    <3> QED BY <1>8, <1>9, <1>10, <3>1
  <2>3. T * (v + debt * u) <= T * (V + TargetLoops * c)
    BY <1>12, <2>1, <2>2
  <2>4. /\ T * (v + debt * u) = T * v + T * (debt * u) /\ T * (V + TargetLoops * c) = T * V + T * (TargetLoops * c)
        /\ T * v \in Int /\ T * (debt * u) \in Int /\ T * V \in Int /\ T * (TargetLoops * c) \in Int
    BY <1>1, <1>7, <1>8, <1>9, <1>10, <1>11, Z3
  <2> QED BY <2>3, <2>4
<1>14. (T - n) * V = T * V - n * V /\ n * V \in Int /\ T * (c + u) = T * c + T * u /\ T * c \in Int /\ T * u \in Int
  BY <1>1, <1>8, <1>11, Z3
<1>15. (T - n) * V <= (T - n) * (O * u) + T * u /\ (T - n) * (O * u) \in Int
  <2>1. \A a \in Nat, b1, b2 \in Int : b1 <= b2 => a * b1 <= a * b2 /\ a * b1 \in Int /\ a * b2 \in Int
    BY Z3
  <2>2. O * u \in Int
    BY <1>8, <1>11, Z3
  <2>3. V <= O * u + u /\ O * u + u \in Int
    BY <1>8, <1>11, <2>2
  <2>4. (T - n) * V <= (T - n) * (O * u + u)
    BY <1>8, <1>11, <2>1, <2>3
  <2>5. (T - n) * (O * u + u) = (T - n) * (O * u) + T * u - n * u /\ n * u \in Nat /\ (T - n) * (O * u) \in Int
    BY <1>1, <1>8, <1>11, Z3
  <2> DEFINE a1 == (T - n) * V
             a2 == (T - n) * (O * u)
             a3 == T * u
             a4 == n * u
             a5 == (T - n) * (O * u + u)
  <2>6. a1 \in Int /\ a2 \in Int /\ a3 \in Int /\ a4 \in Nat
    BY <1>8, <1>11, <1>14, <2>1, <2>5
  <2>7. a1 <= a5 /\ a5 = a2 + a3 - a4
    BY <2>4, <2>5
  <2> HIDE DEF a1, a2, a3, a4, a5
  <2>8. a1 <= a2 + a3
    BY <2>6, <2>7
  <2> QED BY <2>6, <2>8 DEF a1, a2, a3
<1>16. T * (TargetLoops * c) + T * c + 2 * (T * u) <= T * (D * u) /\ T * (D * u) \in Int
  <2>1. \A a, b \in Int : a <= b => T * a <= T * b /\ T * b \in Int
    BY <1>1, Z3
  <2>2. TargetLoops * c + c + 2 * u \in Int
    BY <1>10, <1>11
  <2>3. T * (TargetLoops * c + c + 2 * u) <= T * (D * u) /\ T * (D * u) \in Int
    BY <1>10, <2>1, <2>2
  <2>4. T * (TargetLoops * c + c + 2 * u) = T * (TargetLoops * c) + T * c + 2 * (T * u)
    BY <1>1, <1>10, <1>11, Z3
  <2> QED BY <2>3, <2>4
<1>17. T * v <= (T - n) * (O * u) + T * (D * u)
  BY <1>12, <1>13, <1>14, <1>15, <1>16
<1>18. T * (o * u) <= T * v /\ T * (o * u) \in Int
  <2>1. \A a, b \in Int : a <= b => T * a <= T * b /\ T * a \in Int
    BY <1>1, Z3
  <2>2. o * u \in Int
    BY <1>9, <1>11, Z3
  <2> QED BY <1>9, <2>1, <2>2
<1>19. T * o <= (T - n) * O + T * D
  <2>1. /\ T * (o * u) = (T * o) * u /\ (T - n) * (O * u) + T * (D * u) = ((T - n) * O + T * D) * u
        /\ T * o \in Int /\ (T - n) * O + T * D \in Int
    BY <1>1, <1>8, <1>9, <1>11, Z3
  <2>2. \A a, b \in Int, z \in Nat \ {0} : a * z <= b * z => a <= b
    BY Z3
  <2>3. (T * o) * u <= ((T - n) * O + T * D) * u
    BY <1>13, <1>15, <1>16, <1>17, <1>18, <2>1
  <2> QED BY <1>11, <2>1, <2>2, <2>3
<1> QED BY <1>5, <1>6, <1>8, <1>9, <1>19 DEF T, O, o, D, x, debt, bRem, dRem

\* The unwind pays out what balance() quoted, but for dust: what the shares are
\* worth, or, where it takes all the collateral there is, all the equity there is.
LEMMA ExitPays ==
  ASSUME IInv, RatesAbovePar, NEW h \in Holders, Balance(h) > 0
  PROVE  UnwindOf(SharesToBurn(Balance(h))).cash >= Balance(h) - Dust
<1> DEFINE T == totalShares
           E == Equity(position, rates)
           y == Balance(h)
           n == SharesToBurn(y)
           q == UnwindOf(n)
           bRem == MulFloor(n, position.b, T)
           dRem == MulFloor(n, position.d, T)
           x == MulFloor(bRem, rates.b, Unit12) - MulFloor(dRem, rates.d, Unit12)
           W == position.b * rates.b - position.d * rates.d
           k == rates.b + rates.d
           s == Rounding(rates)
           P == TokenPair
           D == DustOf(TargetLoops)
           u == Unit12
           c == rates.b
<1>1. /\ position \in Positions /\ rates \in PoolRates /\ Reconciled = position
      /\ rates.b >= Unit12 /\ rates.d >= Unit12
      /\ P = PairOf(rates) /\ P \in Nat \ {0}
      /\ D = (TargetLoops + 2) * P /\ D \in Nat
  BY TypesHold, LoopsAreNat
<1>2. /\ E \in Nat \ {0} /\ T \in Nat \ {0} /\ y \in Nat /\ E - y \in Nat
      /\ n \in Nat /\ n < T /\ y * T <= n * E
  BY QuoteIs
<1>3. q = Unwound(position, bRem, dRem, rates)
  BY <1>1 DEF UnwindOf
<1> HIDE DEF n, q
<1>4. bRem \in Nat /\ dRem \in Nat /\ dRem <= position.d
  <2>1. Equity(position, rates) > 0
    BY <1>2
  <2> HIDE DEF T
  <2> QED BY <1>1, <1>2, <2>1, PartTaken
<1>5. x \in Int /\ T * (x * u) + T * (c + s) >= n * W
  <2> HIDE DEF T
  <2> QED BY <1>1, <1>2, PartAsked
<1>6. /\ q \in Running /\ Worth(q, rates) \in Int
      /\ Worth(q, rates) + TargetLoops * k + c >= W
  <2> HIDE DEF bRem, dRem
  <2> QED BY <1>1, <1>3, <1>4, UnwoundCosts
<1>7. q.d \in Nat /\ (q.b = 0 \/ q.cash >= x)
  <2>1. q = UnwindOf(n) /\ Equity(position, rates) > 0
    BY <1>2 DEF q
  <2> QED BY <1>2, <2>1, StayersOwe
<1>8. E * u \in Int /\ W \in Int /\ E * u <= W + s
  <2>1. position.b \in Int /\ position.d \in Int
    BY <1>1 DEF Positions
  <2> QED BY <1>1, <2>1, EquityIsWorth
<1>9. /\ k \in Nat /\ k <= P * u /\ s \in Nat /\ 3 * s <= P * u /\ P * u \in Int
      /\ c \in Nat /\ c <= k /\ u \in Nat \ {0} /\ TargetLoops \in Nat
  <2>1. k <= P * u /\ s \in Nat /\ 3 * s <= P * u /\ P * u \in Int
    BY <1>1, PairCovers
  <2>2. rates.b \in Nat /\ rates.d \in Nat /\ u \in Nat \ {0}
    BY <1>1, UnitsAreInts
  <2> QED BY <2>1, <2>2, LoopsAreNat
<1>10. q.cash \in Int
  BY <1>6, UnitsAreInts
<1>11. q.b = 0 => q.cash * u + TargetLoops * k + c >= W
  <2>1. q.d * rates.d \in Nat /\ 0 * rates.b = 0 /\ q.cash * u \in Int
    <3>1. \A a, b \in Nat : a * b \in Nat
      BY Z3
    <3>2. rates.d \in Nat /\ rates.b \in Nat
      BY <1>1, UnitsAreInts
    <3>3. q.cash * u \in Int
      BY <1>9, <1>10, Z3
    <3> QED BY <1>7, <3>1, <3>2, <3>3
  <2>2. Worth(q, rates) = q.b * rates.b - q.d * rates.d + q.cash * u
    BY DEF Worth
  <2>3. TargetLoops * k \in Int
    <3> HIDE DEF k
    <3> QED BY <1>9, Z3
  <2> SUFFICES ASSUME q.b = 0 PROVE q.cash * u + TargetLoops * k + c >= W
    OBVIOUS
  <2>4. Worth(q, rates) = q.cash * u - q.d * rates.d
    BY <2>1, <2>2
  <2> DEFINE a1 == q.d * rates.d
             a2 == q.cash * u
             a3 == TargetLoops * k
             a4 == Worth(q, rates)
  <2>5. a1 \in Nat /\ a2 \in Int /\ a3 \in Int /\ a4 = a2 - a1 /\ a4 + a3 + c >= W
    BY <1>6, <2>1, <2>3, <2>4
  <2> HIDE DEF a1, a2, a3, a4, W, c
  <2>6. a2 + a3 + c >= W
    BY <1>8, <1>9, <2>5
  <2> QED BY <2>6 DEF a2, a3
<1>12. TargetLoops * k + c + s <= D * u /\ c + 2 * s <= D * u /\ D * u \in Int /\ TargetLoops * k \in Int
  <2> HIDE DEF k, c, s, P, u
  <2>1. TargetLoops * k <= TargetLoops * (P * u) /\ TargetLoops * k \in Int /\ TargetLoops * (P * u) \in Nat
    <3>1. \A a \in Nat, b1, b2 \in Nat : b1 <= b2 => a * b1 <= a * b2 /\ a * b1 \in Int /\ a * b2 \in Nat
      BY Z3
    <3>2. P * u \in Nat
      BY <1>9
    <3> QED BY <1>9, <3>1, <3>2
  <2>2. ((TargetLoops + 2) * P) * u = TargetLoops * (P * u) + P * u + P * u
    BY <1>1, <1>9, Z3
  <2>3. D * u = TargetLoops * (P * u) + P * u + P * u
    BY <1>1, <2>2
  <2> HIDE DEF D
  <2> DEFINE a1 == TargetLoops * k
             a2 == TargetLoops * (P * u)
             a3 == P * u
             a4 == D * u
  <2>4. /\ a1 \in Int /\ a2 \in Nat /\ a3 \in Int /\ a1 <= a2 /\ a4 = a2 + a3 + a3
        /\ c <= a3 /\ s \in Nat /\ 3 * s <= a3 /\ c \in Nat
    BY <1>9, <2>1, <2>3
  <2> HIDE DEF a1, a2, a3, a4
  <2>5. a1 + c + s <= a4 /\ c + 2 * s <= a4 /\ a4 \in Int /\ a1 \in Int
    BY <2>4
  <2> QED BY <2>5 DEF a1, a4
<1> HIDE DEF T, E, y, x, W, k, s, P, D, u, c, bRem, dRem
<1>13. q.cash >= y - D
  <2>1. CASE q.b # 0
    <3>1. E \in Nat /\ y \in Int
      BY <1>2
    <3>2. x >= y - D
      BY <1>1, <1>2, <1>5, <1>8, <1>9, <1>12, <3>1, QuoteIsPaid
    <3> QED BY <1>1, <1>2, <1>5, <1>7, <1>10, <2>1, <3>2
  <2>2. CASE q.b = 0
    <3>1. q.cash * u + D * u >= E * u
      <4>1. q.cash * u \in Int
        BY <1>9, <1>10, Z3
      <4> QED BY <1>8, <1>9, <1>11, <1>12, <2>2, <4>1
    <3>2. q.cash * u + D * u = (q.cash + D) * u
      BY <1>1, <1>9, <1>10, Z3
    <3>3. \A a, b \in Int, z \in Nat \ {0} : a * z >= b * z => a >= b
      BY Z3
    <3>4. q.cash + D >= E
      BY <1>1, <1>2, <1>9, <1>10, <3>1, <3>2, <3>3
    <3> QED BY <1>1, <1>2, <1>10, <3>4
  <2> QED BY <2>1, <2>2
<1> QED BY <1>13 DEF q, n, y, D, Dust

\* The pool accepts the unwind: what it leaves is solvent, where the vault was
\* out of the orange zone and those who stay are worth enough.
LEMMA ExitIsAccepted ==
  ASSUME IInv, RatesAbovePar, risk.c >= CFactor,
         NEW h \in Holders, Balance(h) > 0, Hf(position) >= OrangeHf,
         NEW left, left = Equity(position, rates) - Balance(h),
         left * CFactor * risk.l * (OrangeHf - Unit7)
           >= DustOf(TargetLoops + 1) * Unit7 * Unit7 * OrangeHf
  PROVE  Accepts(UnwindOf(SharesToBurn(Balance(h))))
<1> DEFINE T == totalShares
           E == Equity(position, rates)
           n == SharesToBurn(Balance(h))
           q == UnwindOf(n)
           S == Supply(position, rates)
           d == Debt(position, rates)
           e == Equity(Settled(q), rates)
           f == Debt(Settled(q), rates)
           k == CFactor * risk.l
           D == DustOf(TargetLoops)
           more == DustOf(TargetLoops + 1)
           U == Unit7
           o == OrangeHf
<1>1. /\ E \in Nat \ {0} /\ T \in Nat \ {0} /\ left \in Nat
      /\ n \in Nat /\ n < T
      /\ (T - n) * E > T * (left - 1)
  BY QuoteIs
<1>2. /\ D \in Nat /\ more \in Nat /\ more >= D + 1
  <2> DEFINE P == TokenPair
             L == TargetLoops
  <2>1. P \in Nat \ {0} /\ L \in Nat /\ L + 1 \in Nat
    BY TypesHold, LoopsAreNat
  <2>2. \A i \in Nat : DustOf(i) = (i + 2) * P /\ DustOf(i) \in Nat
    BY TypesHold
  <2>3. D = (L + 2) * P /\ D \in Nat /\ more = (L + 1 + 2) * P /\ more \in Nat
    BY <2>1, <2>2
  <2> HIDE DEF P, L, D, more
  <2>4. (L + 1 + 2) * P = (L + 2) * P + P
    BY <2>1, Z3
  <2> QED BY <2>1, <2>3, <2>4
<1>3. /\ q \in Running /\ e \in Int
      /\ T * (e + D) >= (T - n) * E
  <2>1. n < T /\ n \in Nat /\ E > 0 /\ q = UnwindOf(n)
    BY <1>1
  <2> HIDE DEF n, q
  <2> QED BY <2>1, StayersKeepTheirs
<1>4. /\ q.b \in Nat /\ q.d \in Nat /\ d \in Nat /\ f \in Nat
      /\ T * f <= (T - n) * d + T * D
  <2>1. n < T /\ n \in Nat /\ E > 0 /\ q = UnwindOf(n)
    BY <1>1
  <2> HIDE DEF n, q
  <2> QED BY <2>1, StayersOwe
<1>5. /\ U \in Nat \ {0} /\ o \in Nat /\ o > U /\ CFactor \in Nat /\ CFactor <= U
      /\ risk.l \in Nat /\ risk.l <= U /\ risk.c \in Nat /\ risk.c >= CFactor
  BY MathConstantsOK, VaultConstantsOK DEF IInv, TypeOK
<1>6. /\ S \in Nat /\ S = E + d
      /\ (S * CFactor) * risk.l >= o * (d * U)
  <2>1. OrangeHf \in Nat
    BY <1>5
  <2>2. S \in Nat /\ (S * CFactor) * risk.l >= o * (d * U)
    BY <2>1, HfMeans
  <2>3. E = S - d
    BY DEF Equity
  <2> HIDE DEF S, E, d
  <2> QED BY <1>1, <1>4, <2>2, <2>3
<1>7. Supply(Settled(q), rates) = e + f
  <2>1. e = Supply(Settled(q), rates) - f
    BY DEF Equity
  <2>2. Supply(Settled(q), rates) \in Int
    <3>1. Settled(q).b = q.b
      BY DEF Settled
    <3>2. rates.b \in Int /\ q.b \in Int
      BY <1>4, TypesHold, UnitsAreInts
    <3>3. Supply(Settled(q), rates) = MulFloor(q.b, rates.b, Unit12)
      BY <3>1 DEF Supply
    <3> QED BY <3>2, <3>3, UnitsAreInts, MulFloorBounds
  <2> HIDE DEF e, f
  <2> QED BY <1>4, <2>1, <2>2
<1>8. left * CFactor * risk.l * (o - U) >= more * U * U * o
  OBVIOUS
<1> HIDE DEF T, E, n, q, S, d, e, f, D, more, U, o
<1>9. k \in Nat /\ k <= U * U
  <2>1. \A a, b, c \in Nat : a <= c /\ b <= c => a * b \in Nat /\ a * b <= c * c
    BY Z3
  <2> QED BY <1>5, <2>1
<1>10. k * (E + d) >= o * (d * U)
  <2>1. k * (E + d) = (S * CFactor) * risk.l
    BY <1>1, <1>4, <1>5, <1>6, Z3
  <2> QED BY <1>6, <2>1
<1>11. left * (k * (o - U)) >= more * (U * U * o)
  <2>1. left * CFactor * risk.l * (o - U) = left * (k * (o - U)) /\ more * U * U * o = more * (U * U * o)
    BY <1>1, <1>2, <1>5, Z3
  <2> HIDE DEF k
  <2> QED BY <1>8, <2>1
<1>12. k * (e + f) >= f * (U * U)
  <2>1. E \in Nat /\ left \in Int
    BY <1>1
  <2> HIDE DEF k
  <2> QED BY <1>1, <1>2, <1>3, <1>4, <1>5, <1>9, <1>10, <1>11, <2>1, MarginAbsorbs
<1>13. Solvent(Settled(q))
  <2> DEFINE g == e + f
  <2>1. g >= 0 /\ g \in Int
    <3>1. \A a \in Int : k * a >= 0 /\ k > 0 => a >= 0
      <4> HIDE DEF k
      <4> QED BY <1>9, Z3
    <3>2. Settled(q).b = q.b
      BY DEF Settled
    <3>3. \A a, b \in Nat, z \in Nat \ {0} : (a * b) \div z \in Nat
      BY Z3
    <3>4. rates.b \in Nat
      BY TypesHold, UnitsAreInts
    <3>5. Supply(Settled(q), rates) \in Nat
      BY <1>4, <3>2, <3>3, <3>4, UnitsAreInts DEF Supply, MulFloor
    <3> QED BY <1>7, <3>5
  <2>2. g * risk.c * risk.l >= k * g
    <3> HIDE DEF g
    <3>1. \A a, b, c, i \in Nat : a <= b => i * b * c >= (a * c) * i
      BY Z3
    <3>2. g \in Nat
      BY <2>1
    <3> QED BY <1>5, <3>1, <3>2
  <2>3. f * (U * U) = f * U * U /\ f * U * U \in Int /\ k * g \in Int /\ g * risk.c * risk.l \in Int
    <3> HIDE DEF g, k
    <3> QED BY <1>4, <1>5, <1>9, <2>1, Z3
  <2>4. g * risk.c * risk.l >= f * U * U
    <3>1. k * g >= f * (U * U)
      BY <1>12
    <3> HIDE DEF g, k
    <3> QED BY <2>2, <2>3, <3>1
  <2>5. Supply(Settled(q), rates) = g
    BY <1>7
  <2> HIDE DEF g
  <2> QED BY <2>4, <2>5 DEF Solvent, f, U
<1>14. Settled(q) \in Positions
  BY <1>4 DEF Settled, Positions
<1> QED BY <1>13, <1>14 DEF Accepts, q, n

\* While the pool's collateral factor is not below the configured one, whoever holds shares worth something can take it all out of a
\* vault out of the orange zone, and gets it but for dust.
THEOREM ExitIsPossibleAlways == Spec => []ExitIsPossible
<1>1. IInv /\ RatesAbovePar /\ ExitIsCovered => ExitIsPossible
  <2> SUFFICES ASSUME IInv, RatesAbovePar, ExitIsCovered, NEW h \in Holders,
                      Balance(h) > 0, risk.c >= CFactor, Hf(position) >= OrangeHf,
                      (Equity(Reconciled, rates) - Balance(h)) * CFactor * risk.l * (OrangeHf - Unit7)
                        >= DustOf(TargetLoops + 1) * Unit7 * Unit7 * OrangeHf
               PROVE  /\ Accepts(UnwindOf(SharesToBurn(Balance(h))))
                      /\ UnwindOf(SharesToBurn(Balance(h))).cash >= Balance(h) - Dust
    BY DEF ExitIsPossible
  <2>1. Reconciled = position
    BY TypesHold
  <2>2. Accepts(UnwindOf(SharesToBurn(Balance(h))))
    BY <2>1, ExitIsAccepted
  <2> QED BY <2>2, ExitPays
<1>2. Init => RatesAbovePar
  BY MathConstantsOK DEF Init, RatesAbovePar
<1>3. IInv /\ RatesAbovePar /\ [Next]_vars => RatesAbovePar'
  BY RatesStayAbovePar
<1> QED BY <1>1, <1>2, <1>3, InvariantHolds, ExitIsCoveredAlways, PTL DEF Spec
=============================================================================

--------------------------- MODULE StrategyVault ----------------------------
(***************************************************************************)
(* The accounting of the blend_leverage strategy: what its holders' shares *)
(* are worth while deposits, withdrawals, harvests, unwinds and            *)
(* re-leverages move its position in the Blend pool, and while the pool    *)
(* moves it on its own: interest accrues, collateral is seized, debt is    *)
(* written off or repaid by others, governance changes the risk factors.   *)
(*                                                                         *)
(* One action is one committed transaction; a call that reverts, or that   *)
(* returns without effect, is not a step.  The emissions and the sale that *)
(* come before a harvest are in SplitHarvest: a harvest here is the        *)
(* underlying it levers.                                                   *)
(***************************************************************************)
EXTENDS LeverageMath, Sums

CONSTANTS
  Holders,             \* accounts that hold shares
  Self,                \* the strategy's own address, holder of the lockup
  MinHf,               \* config.min_hf
  OrangeHf,            \* config.orange_hf
  HfBuffer,            \* RELEVERAGE_HF_BUFFER
  Lockup,              \* FIRST_DEPOSIT_LOCKUP
  MaxUtilization,      \* MAX_SAFE_UTILIZATION
  RebalanceCooldown,   \* REBALANCE_COOLDOWN_LEDGERS
  ReleverageCooldown,  \* RELEVERAGE_COOLDOWN_LEDGERS
  Amounts,             \* amounts of underlying deposited, withdrawn, harvested
  Targets,             \* health factors partial_unwind is asked for
  Others,              \* what everyone else has supplied and borrowed, [b, d]
  RatesSeen,           \* rates [b, d] the pool may reach
  Risks,               \* risk factors [c, l] the pool may be given
  Never,               \* no transaction yet (Option::None)
  MaxSteps             \* bound: transactions explored

Accounts == Holders \cup {Self}

ASSUME VaultConstantsOK ==
  /\ IsFiniteSet(Holders) /\ Self \notin Holders
  /\ MinHf \in Nat /\ MinHf > Unit7 /\ OrangeHf \in Nat /\ OrangeHf > MinHf
  /\ HfBuffer \in Nat /\ Lockup \in Nat \ {0} /\ MaxUtilization \in Nat
  /\ RebalanceCooldown \in Nat /\ ReleverageCooldown \in Nat
  /\ Amounts \subseteq Nat \ {0} /\ Targets \subseteq Nat
  /\ Others \subseteq Positions
  /\ RatesSeen \subseteq [b : Nat \ {0}, d : Nat \ {0}]
  /\ Risks \subseteq [c : Nat, l : 1..Unit7]
  /\ [b |-> Unit12, d |-> Unit12] \in RatesSeen
  /\ Never \notin Nat
  /\ MaxSteps \in Nat

VARIABLES
  position,        \* the strategy's collateral and debt tokens in the pool
  rates,           \* b_rate and d_rate of the reserve
  risk,            \* c_factor and l_factor of the reserve
  tracked,         \* LeverageReserves.total_b_tokens and total_d_tokens
  totalShares,     \* LeverageReserves.total_shares
  shares,          \* balances of the share token
  supply,          \* total_supply of the share token
  burned,          \* ghost: shares their holders burned themselves
  given,           \* ghost: shares their holders sent to the strategy's address
  now,             \* ledger sequence
  lastRebalance,   \* DataKey::LastRebalance
  lastReleverage,  \* DataKey::LastReleverage
  event,           \* what the last transaction did
  steps            \* bound: transactions so far

ledger == <<totalShares, shares, supply, burned, given>>
market == <<rates, risk, now>>
cooldowns == <<lastRebalance, lastReleverage>>
vars == <<position, rates, risk, tracked, totalShares, shares, supply, burned, given,
          now, lastRebalance, lastReleverage, event, steps>>

Hf(p) == HealthFactor(p, rates, risk.l)

\* The pool's own test of solvency: it liquidates once B c < D / l.
Solvent(p) == Supply(p, rates) * risk.c * risk.l >= Debt(p, rates) * Unit7 * Unit7

\* The pool settles a request list or reverts the transaction.
Accepts(q) == Settled(q) \in Positions /\ (q.d > 0 => Solvent(Settled(q)))

\* Mutant: the tracked totals are trusted.
ReconciledTracked == tracked

\* reconcile: the tracked position, clamped down to the pool's.
Reconciled == [b |-> Smaller(tracked.b, position.b), d |-> Smaller(tracked.d, position.d)]

Plus(p, q) == [b |-> p.b + q.b, d |-> p.d + q.d]
Minus(p, q) == [b |-> p.b - q.b, d |-> p.d - q.d]

\* Mutant: the snapshot is read again once the pool has settled.
CommitReread(q) ==
  tracked' = Plus([b |-> Smaller(tracked.b, q.b), d |-> Smaller(tracked.d, q.d)],
                  Minus(Settled(q), position))

\* What the strategy writes back: the snapshot from before the transaction and
\* what the pool moved in it, as measured.
Commit(q) == tracked' = Plus(Reconciled, Minus(Settled(q), position))

Counted == steps < MaxSteps /\ steps' = steps + 1
Did(kind, n, amount) == event' = [kind |-> kind, shares |-> n, amount |-> amount]

Init ==
  /\ position = [b |-> 0, d |-> 0]
  /\ rates = [b |-> Unit12, d |-> Unit12]
  /\ risk \in Risks /\ risk.c >= CFactor
  /\ tracked = [b |-> 0, d |-> 0]
  /\ totalShares = 0
  /\ shares = [a \in Accounts |-> 0]
  /\ supply = 0
  /\ burned = 0
  /\ given = 0
  /\ now = 0
  /\ lastRebalance = Never
  /\ lastReleverage = Never
  /\ event = [kind |-> "none", shares |-> 0, amount |-> 0]
  /\ steps = 0

-----------------------------------------------------------------------------
(* Deposits *)

\* check_deposit_safety: the pool is not too utilized, before and after, and
\* the projected position p clears min_hf.
DepositIsSafe(others, more, p) ==
  LET pool == Plus(position, others)
      lent == Supply(pool, rates)
      owed == Debt(pool, rates)
      Utilized(s, b) == IF s > 0 THEN MulFloor(b, Unit7, s) ELSE 0
  IN /\ Utilized(lent, owed) <= MaxUtilization
     /\ Utilized(lent + more.supply, owed + more.borrow) <= MaxUtilization
     /\ Hf(p) >= MinHf

\* The position of p with amounts of underlying added to each side, as the
\* strategy projects it.
Projected(p, more) ==
  [b |-> p.b + MulFloor(more.supply, Unit12, rates.b),
   d |-> p.d + MulFloor(more.borrow, Unit12, rates.d)]

\* Mutant: the deposit is priced against a vault it is already part of.
SharesForAfter(equity) ==
  IF totalShares = 0 THEN equity
  ELSE MulFloor(equity, totalShares, Equity(Reconciled, rates) + equity)

\* The shares a deposit that added `equity` is worth.
SharesFor(equity) == UnderlyingToShares(equity, Reconciled, rates, totalShares)

\* The part of the first deposit that is locked.
LockedOf == IF totalShares = 0 THEN Lockup ELSE 0

\* Mutant: the lockup is counted and never minted.
MintNoLockup(from, minted) ==
  /\ supply' = supply + minted - LockedOf
  /\ shares' = [shares EXCEPT ![from] = @ + minted - LockedOf]

Mint(from, minted) ==
  /\ supply' = supply + minted
  /\ shares' = [shares EXCEPT ![from] = @ + minted - LockedOf, ![Self] = @ + LockedOf]

\* deposit(amount, from)
Deposit(from, amount, others) ==
  LET loop == LeverageLoop(position, amount, rates)
      delta == Minus(Settled(loop), position)
      equity == Equity(delta, rates)
      minted == SharesFor(equity)
  IN /\ Counted
     /\ DepositIsSafe(others, ComputeTotals(amount), Projected(Reconciled, ComputeTotals(amount)))
     /\ Accepts(loop)
     /\ delta.b > 0
     /\ equity > 0
     /\ minted > LockedOf
     /\ position' = Settled(loop)
     /\ Commit(loop)
     /\ totalShares' = totalShares + minted
     /\ Mint(from, minted)
     /\ Did("deposit", minted - LockedOf, equity)
     /\ UNCHANGED <<market, cooldowns, burned, given>>

-----------------------------------------------------------------------------
(* Withdrawals *)

\* balance(from)
Balance(h) == SharesToUnderlying(shares[h], Reconciled, rates, totalShares)

\* The shares a withdrawal of `amount` burns.
SharesToBurn(amount) == MulCeil(amount, totalShares, Equity(Reconciled, rates))

\* The pool's answer to the unwind of that many shares.
UnwindOf(n) ==
  Unwound(position, MulFloor(n, Reconciled.b, totalShares),
          MulFloor(n, Reconciled.d, totalShares), rates)

\* withdraw(amount, from, to): the tracked totals take what the pool removed,
\* not what was asked of it.
Withdraw(from, amount) ==
  LET n == SharesToBurn(amount)
      q == UnwindOf(n)
  IN /\ Counted
     /\ shares[from] > 0
     /\ Equity(Reconciled, rates) > 0
     /\ n <= shares[from]
     /\ Accepts(q)
     /\ q.cash >= 0
     /\ position' = Settled(q)
     /\ Commit(q)
     /\ totalShares' = totalShares - n
     /\ supply' = supply - n
     /\ shares' = [shares EXCEPT ![from] = @ - n]
     /\ Did("withdraw", n, q.cash)
     /\ UNCHANGED <<market, cooldowns, burned, given>>

-----------------------------------------------------------------------------
(* Harvests *)

\* The end of harvest and harvest_reinvest: lever `out` and mint nothing.
Harvest(out) ==
  LET loop == LeverageLoop(position, out, rates)
  IN /\ Counted
     /\ Accepts(loop)
     /\ Settled(loop).b > position.b
     /\ position' = Settled(loop)
     /\ Commit(loop)
     /\ Did("harvest", 0, out)
     /\ UNCHANGED <<market, cooldowns, ledger>>

-----------------------------------------------------------------------------
(* Liquidation protection *)

\* unwind_to: unwind the layers that bring the position up to `target`.
UnwindTo(target) ==
  LET loops == UnwindLoops(position, rates, risk.l, target)
      q == Deleveraged(position, loops, rates)
  IN /\ Counted
     /\ loops > 0
     /\ Settled(q) \in Positions
     /\ UnwindLayer(position, rates) > 0 => Accepts(q)
     /\ position' = Settled(q)
     /\ Commit(q)
     /\ Did("rebalance", loops, target)
     /\ UNCHANGED <<market, ledger, lastReleverage>>

\* rebalance: anyone.
Rebalance == UnwindTo(OrangeHf) /\ UNCHANGED lastRebalance

Elapsed(last, cooldown) == last # Never => now >= last + cooldown

\* rebalance_keeper
RebalanceKeeper ==
  /\ Elapsed(lastRebalance, RebalanceCooldown)
  /\ UnwindTo(OrangeHf)
  /\ lastRebalance' = now

\* partial_unwind: the keeper names a target, anyone else gets OrangeHf and
\* only in the orange zone.
PartialUnwind(isKeeper, target) ==
  /\ position.d > 0
  /\ isKeeper \/ Hf(position) < OrangeHf
  /\ UnwindTo(IF isKeeper THEN Larger(target, OrangeHf) ELSE OrangeHf)
  /\ UNCHANGED lastRebalance

-----------------------------------------------------------------------------
(* Re-leverage *)

\* Mutant: the leverage of target_loops does not bound it.
ReleverageTargetNoDesign == OrangeHf + HfBuffer

\* The health factor releverage aims for: design leverage, clear of the
\* orange zone.
ReleverageTarget == Larger(DesignHealthFactor(risk.l), OrangeHf + HfBuffer)

\* releverage(keeper)
Releverage(others) ==
  LET amount == ComputeReleverage(position, rates, risk.l, ReleverageTarget)
      more == [supply |-> amount, borrow |-> amount]
      q == Releveraged(position, amount, rates)
  IN /\ Counted
     /\ Elapsed(lastReleverage, ReleverageCooldown)
     /\ position.b > 0
     /\ Hf(position) >= ReleverageTarget + HfBuffer
     /\ amount > 0
     /\ DepositIsSafe(others, more, Projected(position, more))
     /\ Accepts(q)
     /\ Hf(Settled(q)) >= OrangeHf
     /\ position' = Settled(q)
     /\ Commit(q)
     /\ lastReleverage' = now
     /\ Did("releverage", 0, amount)
     /\ UNCHANGED <<market, ledger, lastRebalance>>

\* sync_reserves: anyone.
SyncReserves ==
  /\ Counted
  /\ tracked # Reconciled
  /\ tracked' = Reconciled
  /\ Did("sync", 0, 0)
  /\ UNCHANGED <<position, market, ledger, cooldowns>>

-----------------------------------------------------------------------------
(* The share token, as its holders use it *)

\* transfer: to anyone, also to the strategy's own address, from which nothing
\* ever leaves.
Transfer(from, to, n) ==
  /\ Counted
  /\ n \in 1..shares[from]
  /\ shares' = [shares EXCEPT ![from] = @ - n, ![to] = @ + n]
  /\ given' = given + (IF to = Self THEN n ELSE 0)
  /\ Did("transfer", n, 0)
  /\ UNCHANGED <<position, market, tracked, totalShares, supply, burned, cooldowns>>

\* burn, by the holder: the strategy is not told.
Burn(h, n) ==
  /\ Counted
  /\ n \in 1..shares[h]
  /\ shares' = [shares EXCEPT ![h] = @ - n]
  /\ supply' = supply - n
  /\ burned' = burned + n
  /\ Did("burn", n, 0)
  /\ UNCHANGED <<position, market, tracked, totalShares, given, cooldowns>>

-----------------------------------------------------------------------------
(* The pool, moving on its own *)

\* A ledger closes; interest may have accrued.
Accrue(r) ==
  /\ Counted
  /\ r.b >= rates.b /\ r.d >= rates.d
  /\ rates' = r
  /\ now' = now + 1
  /\ Did("none", 0, 0)
  /\ UNCHANGED <<position, risk, tracked, ledger, cooldowns>>

\* A liquidation seizes collateral against part of the debt, or all of it goes
\* and what debt is left is written off.
Seize(part) ==
  /\ Counted
  /\ ~ Solvent(position)
  /\ position' = [b |-> position.b - (position.b \div part),
                  d |-> position.d - (position.d \div part)]
  /\ Did("none", 0, 0)
  /\ UNCHANGED <<tracked, market, ledger, cooldowns>>

\* Someone repays part of the strategy's debt.
RepayForVault(n) ==
  /\ Counted
  /\ n \in 1..position.d
  /\ position' = [position EXCEPT !.d = @ - n]
  /\ Did("none", 0, 0)
  /\ UNCHANGED <<tracked, market, ledger, cooldowns>>

\* Blend governance re-parameterises the reserve.
SetRisk(r) ==
  /\ Counted
  /\ r # risk
  /\ risk' = r
  /\ Did("none", 0, 0)
  /\ UNCHANGED <<position, rates, now, tracked, ledger, cooldowns>>

-----------------------------------------------------------------------------

HolderStep ==
  \/ \E h \in Holders, n \in Amounts, o \in Others : Deposit(h, n, o)
  \/ \E h \in Holders : \E n \in (Amounts \cup {Balance(h)}) \cap (Nat \ {0}) : Withdraw(h, n)
  \/ \E h \in Holders, k \in Accounts, n \in Amounts : h # k /\ Transfer(h, k, n)
  \/ \E h \in Holders, n \in Amounts : Burn(h, n)

KeeperStep ==
  \/ \E n \in Amounts : Harvest(n)
  \/ Rebalance
  \/ RebalanceKeeper
  \/ \E k \in BOOLEAN, t \in Targets : PartialUnwind(k, t)
  \/ \E o \in Others : Releverage(o)
  \/ SyncReserves

PoolStep ==
  \/ \E r \in RatesSeen : Accrue(r)
  \/ \E part \in 1..2 : Seize(part)
  \/ \E n \in Amounts : RepayForVault(n)
  \/ \E r \in Risks : SetRisk(r)

Next == HolderStep \/ KeeperStep \/ PoolStep

Spec == Init /\ [][Next]_vars

-----------------------------------------------------------------------------
(* Properties *)

\* The type invariant.  In particular the tracked totals and the balances never
\* go negative, although saturating_sub on i128 would let them.
TypeOK ==
  /\ position \in Positions
  /\ rates \in [b : Nat \ {0}, d : Nat \ {0}]
  /\ risk \in Risks
  /\ tracked \in Positions
  /\ totalShares \in Int
  /\ shares \in [Accounts -> Nat]
  /\ supply \in Int
  /\ burned \in Nat
  /\ given \in Nat
  /\ now \in Nat
  /\ lastRebalance \in Nat \cup {Never}
  /\ lastReleverage \in Nat \cup {Never}
  /\ steps \in Nat

\* Every loss is priced from the moment it happens, and no debt is ever left
\* out: what the shares are priced on is the position the pool holds.
LossesArePriced == Reconciled = position

\* A share leaves the strategy's books only through withdraw: what the token's
\* supply lacks is what holders burned themselves, the supply is what all
\* accounts hold, and the strategy holds what the first deposit locked, once and
\* for good, and what holders have sent to it.
SharesAccounted ==
  /\ totalShares = supply + burned
  /\ supply = SumOver(shares, Accounts)
  /\ shares[Self] = (IF totalShares = 0 THEN 0 ELSE Lockup) + given

\* What one token of each kind is worth, rounded up.
TokenPair == MulCeil(rates.b + rates.d, 1, Unit12)

\* What the pool's rounding can cost in one transaction of so many pairs of
\* requests: a token of each kind per pair, and two more for the requests and
\* the roundings around them.
DustOf(pairs) == (pairs + 2) * TokenPair
Dust == DustOf(TargetLoops)

Value(p, r) == Larger(Equity(p, r), 0)

\* The pairs of requests of the last transaction: an unwind has one per layer.
PairsSent == IF event.kind = "rebalance" THEN event.shares ELSE TargetLoops

\* No transaction of the strategy, by whomever, makes the shares of those who
\* take no part in it worth less, but for dust.
OthersKeepValue ==
  [][ event'.kind \in {"deposit", "withdraw", "harvest", "rebalance", "releverage", "sync"}
      /\ totalShares > 0 /\ totalShares' > 0 =>
        (Value(position', rates) + DustOf(PairsSent')) * totalShares >= Value(position, rates) * totalShares' ]_vars

\* "mint proportional shares" (lib.rs:181): the shares a deposit mints are
\* worth the equity it added, but for the lockup, a unit and the part of a share
\* rounded away, as long as the vault has not been wiped out.
SolventDepositKeepsValue ==
  [][ event'.kind = "deposit" /\ Equity(position, rates) >= 0 /\ (Equity(position, rates) = 0 => totalShares = 0) =>
        SharesToUnderlying(event'.shares, position', rates, totalShares')
          >= event'.amount - LockedOf - 1 - MulCeil(Equity(position', rates), 1, totalShares') ]_vars

\* No deposit, harvest or re-leverage takes the position past the leverage of
\* target_loops, or further past it than it was.
DebtIsAddedByDesign ==
  [][ position'.d > position.d =>
        Hf(position)' >= Smaller(Hf(position), DesignHealthFactor(risk.l)) - 1 ]_vars

\* An unwind restores the health factor it was asked for, of a position dust
\* away from the one it leaves, unless the cap on its layers stops it: what it
\* repays covers what is needed, although it does so in whole layers.
UnwindRestores ==
  [][ event'.kind = "rebalance" /\ event'.shares < MaxLayers /\ UnwindLayer(position, rates) > 0 =>
        event'.amount * (Debt(position', rates) - DustOf(PairsSent'))
          <= (Supply(position', rates) + DustOf(PairsSent')) * EffectiveCFactor(risk.l) ]_vars

\* Taking out exactly what balance() quotes never asks for more shares than the
\* holder has, whatever the two conversions round.
ExitIsCovered ==
  \A h \in Holders : Balance(h) > 0 => SharesToBurn(Balance(h)) <= shares[h]

\* While the vault is out of the orange zone and the pool's collateral factor has
\* not fallen below the strategy's, whoever holds shares worth something can take
\* all of it out at once and gets it but for dust, provided that what stays behind
\* is worth enough: the orange zone's margin over liquidation, on the collateral of
\* that worth, absorbs that dust and a pair's.
ExitIsPossible ==
  ExitIsCovered /\ \A h \in Holders :
    LET n == SharesToBurn(Balance(h))
        left == Equity(Reconciled, rates) - Balance(h)
    IN /\ Balance(h) > 0
       /\ risk.c >= CFactor
       /\ Hf(position) >= OrangeHf
       /\ left * CFactor * risk.l * (OrangeHf - Unit7) >= DustOf(TargetLoops + 1) * Unit7 * Unit7 * OrangeHf
       => /\ Accepts(UnwindOf(n))
          /\ UnwindOf(n).cash >= Balance(h) - Dust
=============================================================================

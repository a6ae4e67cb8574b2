---------------------------- MODULE LeverageMath ----------------------------
(***************************************************************************)
(* The arithmetic of the blend_leverage strategy (leverage.rs) and of the  *)
(* request lists it submits to the Blend pool (blend_pool.rs), as pure     *)
(* operators.  A position is a record of collateral and debt tokens,       *)
(* [b, d]; `rates` gives the value of one token of each, in Unit12ths of   *)
(* the underlying; c and l factors and health factors are in Unit7ths.     *)
(***************************************************************************)
EXTENDS Integers

CONSTANTS
  Unit7,           \* SCALAR_7
  Unit12,          \* SCALAR_12
  CFactor,         \* config.c_factor
  TargetLoops,     \* config.target_loops
  MaxLayers,       \* the cap of 20 on the layers of one unwind
  DesignNotional,  \* DESIGN_NOTIONAL
  Infinite         \* i128::MAX, the health factor of a debt-free position

ASSUME MathConstantsOK ==
  /\ Unit7 \in Nat \ {0} /\ Unit12 \in Nat \ {0}
  /\ CFactor \in 1..(Unit7 - 1)
  /\ MaxLayers \in Nat \ {0}
  /\ TargetLoops \in 1..MaxLayers
  /\ DesignNotional \in Nat \ {0}
  /\ Infinite \in Nat

\* fixed_mul_floor and fixed_mul_ceil: x * y / z.
MulFloor(x, y, z) == (x * y) \div z
MulCeil(x, y, z) == (x * y + z - 1) \div z
Smaller(a, b) == IF a <= b THEN a ELSE b
Larger(a, b) == IF a >= b THEN a ELSE b

Positions == [b : Nat, d : Nat]

-----------------------------------------------------------------------------
(* Values *)

\* Supply and debt of a position in underlying, both rounded down.
Supply(p, rates) == MulFloor(p.b, rates.b, Unit12)
Debt(p, rates) == MulFloor(p.d, rates.d, Unit12)

\* compute_equity
Equity(p, rates) == Supply(p, rates) - Debt(p, rates)

\* effective_c_factor
EffectiveCFactor(l) == MulFloor(CFactor, l, Unit7)

\* compute_health_factor
HealthFactor(p, rates, l) ==
  IF Debt(p, rates) = 0 THEN Infinite
  ELSE MulFloor(Supply(p, rates) * CFactor, l, Unit7) \div Debt(p, rates)

\* shares_to_underlying
SharesToUnderlying(s, p, rates, total) ==
  IF total = 0 \/ Equity(p, rates) <= 0 THEN 0
  ELSE MulFloor(s, Equity(p, rates), total)

\* Mutant: a share always costs one unit.
UnderlyingToSharesFlat(amount, p, rates, total) == amount

\* underlying_to_shares
UnderlyingToShares(amount, p, rates, total) ==
  IF total = 0 \/ p.b = 0 \/ Equity(p, rates) <= 0 THEN amount
  ELSE MulFloor(amount, total, Equity(p, rates))

-----------------------------------------------------------------------------
(* What the pool does with a request, on a position and the cash the       *)
(* requests have paid out so far.  The pool rounds in its own favour.      *)

SupplyRequest(q, amount, rates) ==
  [q EXCEPT !.b = @ + MulFloor(amount, Unit12, rates.b), !.cash = @ - amount]

BorrowRequest(q, amount, rates) ==
  [q EXCEPT !.d = @ + MulCeil(amount, Unit12, rates.d), !.cash = @ + amount]

\* More than the collateral holds withdraws all of it.
WithdrawRequest(q, amount, rates) ==
  LET burnt == MulCeil(amount, Unit12, rates.b)
  IN IF burnt > q.b
     THEN [q EXCEPT !.b = 0, !.cash = @ + MulFloor(q.b, rates.b, Unit12)]
     ELSE [q EXCEPT !.b = @ - burnt, !.cash = @ + amount]

\* More than the debt repays all of it and gives the rest back.
RepayAllRequest(q, rates) ==
  [q EXCEPT !.d = 0, !.cash = @ - MulCeil(q.d, rates.d, Unit12)]
RepayRequest(q, amount, rates) ==
  LET burnt == MulFloor(amount, Unit12, rates.d)
  IN IF burnt > q.d THEN RepayAllRequest(q, rates)
     ELSE [q EXCEPT !.d = @ - burnt, !.cash = @ - amount]

Ask(p) == [b |-> p.b, d |-> p.d, cash |-> 0]
Settled(q) == [b |-> q.b, d |-> q.d]

-----------------------------------------------------------------------------
(* Levering up *)

\* compute_step: what layer i of a loop over `amount` supplies; layer i
\* borrows what layer i + 1 supplies.
Layers(amount) ==
  LET layer[i \in 0..TargetLoops] ==
        IF i = 0 THEN amount ELSE MulFloor(layer[i - 1], CFactor, Unit7)
  IN layer

\* compute_totals
ComputeTotals(amount) ==
  LET total[i \in 0..TargetLoops] ==
        IF i = 0 THEN [supply |-> amount, borrow |-> 0]
        ELSE [supply |-> total[i - 1].supply + Layers(amount)[i],
              borrow |-> total[i - 1].borrow + Layers(amount)[i]]
  IN total[TargetLoops]

\* submit_leverage_loop: the pool's answer to supply, borrow, ..., supply.
LeverageLoop(p, amount, rates) ==
  LET after[i \in 0..TargetLoops] ==
        LET before == IF i = 0 THEN Ask(p)
                      ELSE BorrowRequest(after[i - 1], Layers(amount)[i], rates)
        IN SupplyRequest(before, Layers(amount)[i], rates)
  IN after[TargetLoops]

\* design_health_factor
DesignHealthFactor(l) ==
  LET t == ComputeTotals(DesignNotional)
  IN HealthFactor([b |-> t.supply, d |-> t.borrow], [b |-> Unit12, d |-> Unit12], l)

\* compute_releverage: what to borrow and supply to bring the health factor
\* down to `target`.
ComputeReleverage(p, rates, l, target) ==
  LET cl == EffectiveCFactor(l)
      slack == Supply(p, rates) * cl - target * Debt(p, rates)
  IN IF slack <= 0 THEN 0 ELSE Larger(slack \div (target - cl) - 1, 0)

\* submit_releverage
Releveraged(p, amount, rates) ==
  SupplyRequest(BorrowRequest(Ask(p), amount, rates), amount, rates)

-----------------------------------------------------------------------------
(* Levering down *)

\* Mutant: token amounts are sent to the pool as if they were underlying.
UnwoundInTokens(p, bRem, dRem, rates) ==
  LET r == RepayRequest(WithdrawRequest(Ask(p), dRem, rates), dRem, rates)
  IN WithdrawRequest(r, Larger(bRem - dRem, 0), rates)

\* submit_unwind: repay the debt tokens dRem in TargetLoops steps, each funded
\* by a withdrawal of the same amount, then withdraw what the bRem collateral
\* tokens are worth beyond the debt repaid.
Unwound(p, bRem, dRem, rates) ==
  LET debt == MulFloor(dRem, rates.d, Unit12)
      equity == MulFloor(bRem, rates.b, Unit12) - debt
      step == debt \div TargetLoops
      rest == debt - step * (TargetLoops - 1)
      after[i \in 0..TargetLoops] ==
        IF i = 0 THEN Ask(p)
        ELSE IF i < TargetLoops
        THEN RepayRequest(WithdrawRequest(after[i - 1], step, rates), step, rates)
        ELSE LET w == WithdrawRequest(after[i - 1], rest, rates)
             IN IF dRem >= p.d THEN RepayAllRequest(w, rates)
                ELSE RepayRequest(w, rest, rates)
  IN WithdrawRequest(after[TargetLoops], Larger(equity, 0), rates)

\* The size of one layer of an unwind, in underlying.
UnwindLayer(p, rates) == MulFloor(Debt(p, rates), Unit7 - CFactor, Unit7)

\* compute_partial_unwind: the least to repay for the health factor `target`,
\* for a position below it.
RepayNeeded(p, rates, l, target) ==
  LET cl == EffectiveCFactor(l)
      short == target * Debt(p, rates) - Supply(p, rates) * cl
  IN Smaller(short \div (target - cl) + 1, Debt(p, rates))

\* Mutant: a layer not filled is not unwound.
UnwindLoopsShort(p, rates, l, target) ==
  IF HealthFactor(p, rates, l) >= target THEN 0
  ELSE IF UnwindLayer(p, rates) = 0 THEN 1
  ELSE Larger(1, Smaller(MaxLayers,
         RepayNeeded(p, rates, l, target) \div UnwindLayer(p, rates)))

\* compute_partial_unwind: and the layers that cover it.
UnwindLoops(p, rates, l, target) ==
  IF HealthFactor(p, rates, l) >= target THEN 0
  ELSE IF UnwindLayer(p, rates) = 0 THEN 1
  ELSE Larger(1, Smaller(MaxLayers,
         MulCeil(RepayNeeded(p, rates, l, target), 1, UnwindLayer(p, rates))))

\* submit_deleverage: that many withdraw and repay pairs of one layer, capped
\* at the debt.
Deleveraged(p, loops, rates) ==
  LET layer == UnwindLayer(p, rates)
      left[i \in 0..loops] ==
        IF i = 0 THEN Debt(p, rates) ELSE left[i - 1] - Smaller(layer, left[i - 1])
      after[i \in 0..loops] ==
        IF i = 0 THEN Ask(p)
        ELSE LET amount == Smaller(layer, left[i - 1])
             IN RepayRequest(WithdrawRequest(after[i - 1], amount, rates), amount, rates)
  IN after[loops]
=============================================================================

----------------------------- MODULE BlendClient -----------------------------
(***************************************************************************)
(* What the browser computes about a Blend pool (src/frontend/src/         *)
(* blend.ts): the health factor and leverage limits, and the lists of      *)
(* requests it sends; and what the pool does with such a list, external to *)
(* the repository, as those builders rely on it.                           *)
(*                                                                         *)
(* Amounts are integers (the code's 7-decimal floats rounded to stroops),  *)
(* factors are in hundredths, leverage in tenths, health factors in 1e-4.  *)
(***************************************************************************)
EXTENDS Integers, Sequences, SequencesExt

CONSTANT MinHF     \* minHF(): 1.01, or 1.00001 in expert mode

ASSUME BlendClientAssumption == MinHF >= 10000

RoundDiv(a, b) == (2 * a + b) \div (2 * b)         \* Math.round(a / b)
AtMost(a, b) == IF a < b THEN a ELSE b

(*------------------------------- reserves -------------------------------*)
(* A reserve: [supply, borrow, cf, lf, maxUtil].                           *)
Available(r) == LET a == ((r.supply * r.maxUtil) \div 100) - r.borrow IN IF a > 0 THEN a ELSE 0

(*------------------------ health factor and leverage ---------------------*)
(* hfForLeverage(lev, c, l) >= hf: no debt at or below 1x, else            *)
(* c * l * lev / (lev - 1).                                                *)
HfForLeverageAtLeast(lev, cf, lf, hf) == lev <= 10 \/ cf * lf * lev >= hf * (lev - 10)
(* maxLeverageFor, then the form's floor to a tenth and at least 1x.       *)
MaxLeverageFor(cf, lf) ==
    IF cf * lf >= MinHF THEN 1000
    ELSE LET m == (10 * MinHF) \div (MinHF - cf * lf) IN IF m < 10 THEN 10 ELSE m

Equity(p) == p.col - p.debt
(* Math.round(pos.leverage * 10) / 10; 0 when there is no equity.          *)
Leverage(p) == IF Equity(p) > 0 THEN RoundDiv(10 * p.col, Equity(p)) ELSE 0
(* The account's own health factor, hf: collateral * c over debt / l.      *)
HealthAtLeast(p, cf, lf, hf) == p.debt = 0 \/ p.col * cf * lf >= hf * p.debt

(*-------------------------------- requests ------------------------------*)
MAX == 1000000                                     \* i64::MAX: the pool caps it
Supply(a) == <<"supply", a>>
Withdraw(a) == <<"withdraw", a>>
Borrow(a) == <<"borrow", a>>
Repay(a) == <<"repay", a>>

(* buildOpenRequests: supply what is in hand, borrow against it, again,    *)
(* until the target debt is reached or nothing more can be borrowed.       *)
OpenLoop(balance, needed, cf) ==
    LET loop[b \in Nat, n \in Nat] ==
            LET borrow == AtMost((b * cf) \div 100, n)
            IN  IF n = 0 THEN <<Supply(b)>>
                ELSE IF borrow = 0 THEN <<Supply(b), Supply(b)>>
                ELSE <<Supply(b), Borrow(borrow)>> \o loop[borrow, n - borrow]
    IN  loop[balance, needed]
TargetBorrow(amount, lev) == RoundDiv((lev - 10) * amount, 10)
(* Mutant: what was borrowed last stays in the wallet. *)
OpenRequestsShort(amount, lev, cf) == Front(OpenLoop(amount, TargetBorrow(amount, lev), cf))
OpenRequests(amount, lev, cf) == OpenLoop(amount, TargetBorrow(amount, lev), cf)

(* buildIncreaseLeverageXdr: the first borrow is all of it, for nothing    *)
(* was supplied before it, so the loop it is written as runs once.         *)
IncreaseBy(p, lev) == RoundDiv(Equity(p) * lev, 10) - p.col
IncreaseRequests(p, lev) == <<Borrow(IncreaseBy(p, lev)), Supply(IncreaseBy(p, lev))>>
DecreaseBy(p, lev) == p.debt - RoundDiv(Equity(p) * (lev - 10), 10)
DecreaseRequests(p, lev) == <<Withdraw(DecreaseBy(p, lev)), Repay(DecreaseBy(p, lev))>>

(* Mutant: only the equity is withdrawn. *)
CloseRequestsEquity(p) == <<Repay(MAX), Withdraw(Equity(p))>>
CloseRequests(p) == IF p.debt > 0 THEN <<Repay(MAX), Withdraw(MAX)>> ELSE <<Withdraw(MAX)>>
(* buildRepayXdr: the debt as the page read it, plus one for rounding.     *)
RepayRequests(p) == <<Withdraw(p.debt + 1), Repay(MAX)>>
WithdrawRequests == <<Withdraw(MAX)>>
(* removeFundsAmounts, buildRemoveFundsXdr: the fraction amount / equity   *)
(* of the debt and of the collateral.                                      *)
RemoveRequests(p, amount) ==
    LET repay == RoundDiv(amount * p.debt, Equity(p))
        withdraw == RoundDiv(amount * p.col, Equity(p))
    IN  IF p.debt > 0 THEN <<Repay(repay), Withdraw(withdraw)>> ELSE <<Withdraw(withdraw)>>

(*------------------------------- the pool -------------------------------*)
(* submit_with_allowance, as the builders rely on it: requests are applied *)
(* in order, REPAY and WITHDRAW capped at what there is; a borrow may not  *)
(* leave the reserve above its utilization limit, nor a withdrawal above   *)
(* 100 %; health is judged once, at the end; the transfers are netted and  *)
(* a net payment comes out of the allowance.                               *)
(* s: [col, debt, net, err], net being what the user owes; the reserve r    *)
(* holds what all the others supplied and borrowed.                        *)
Room(r, s, pct) == (r.borrow + s.debt) * 100 <= (r.supply + s.col) * pct
Transferred(s, q) ==
    LET paid == AtMost(q[2], s.debt)
        out == AtMost(q[2], s.col)
    IN  CASE q[1] = "supply" -> [s EXCEPT !.col = @ + q[2], !.net = @ + q[2]]
          [] q[1] = "borrow" -> [s EXCEPT !.debt = @ + q[2], !.net = @ - q[2]]
          [] q[1] = "repay" -> [s EXCEPT !.debt = @ - paid, !.net = @ + paid]
          [] q[1] = "withdraw" -> [s EXCEPT !.col = @ - out, !.net = @ - out]
Applied(r, s, q) ==
    LET n == Transferred(s, q)
    IN  IF s.err # "" THEN s
        ELSE IF \/ q[1] = "borrow" /\ ~Room(r, n, r.maxUtil)
                \/ q[1] = "withdraw" /\ ~Room(r, n, 100) THEN [n EXCEPT !.err = "util"]
        ELSE n
(* The requests one after the other.                                       *)
Apply(r, start, reqs) ==
    LET after[n \in 0..Len(reqs)] == IF n = 0 THEN start ELSE Applied(r, after[n - 1], reqs[n])
    IN  after[Len(reqs)]
(* The outcome for an account with this position: err is "util", "hf",    *)
(* "funds" or "" when it goes through.                                     *)
Submitted(r, p, reqs, funds) ==
    LET s == Apply(r, [col |-> p.col, debt |-> p.debt, net |-> 0, err |-> ""], reqs)
    IN  IF s.err # "" THEN s
        ELSE IF ~HealthAtLeast(s, r.cf, r.lf, 10000) THEN [s EXCEPT !.err = "hf"]
        ELSE IF s.net > funds THEN [s EXCEPT !.err = "funds"]
        ELSE s
=============================================================================

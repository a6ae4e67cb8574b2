------------------------------ MODULE TradeDesk ------------------------------
(***************************************************************************)
(* The trade screen (src/frontend/src/views/trade.ts) with the wallet      *)
(* layer (app/wallet.ts), the shared session state (app/state.ts) and the  *)
(* transaction builders and submission of blend.ts, over Blend pools.      *)
(*                                                                         *)
(* Everything between two awaits is one step: the steps of page loads, of  *)
(* money paths, of wallet and network switches and of the user interleave. *)
(* The desk trades one asset, listed by every pool.                        *)
(***************************************************************************)
EXTENDS BlendClient, FiniteSets

CONSTANTS Pools, Accounts,
          Market,       \* the reserve of a pool, as everyone else made it
          Inflow,       \* what others may bring to a pool
          Start,        \* positions the accounts start with
          Purse,        \* the tokens in each wallet
          Flows, Loads, \* money paths, and page loads, that may be in flight
          Amounts, Leverages,                       \* what the form may hold
          Frozen,       \* pools whose status is not 1
          Budgets       \* bounds: paths, moves, market steps, faults; and
                        \* the buttons the user may press

(* A reserve and a position are what the pool says of them, factors in     *)
(* hundredths.                                                             *)
ASSUME TradeDeskAssumption ==
    /\ Market \in [Pools -> [supply : Nat, borrow : Nat, cf : 0..100, lf : 0..100, maxUtil : 0..100]]
    /\ Start \subseteq [Accounts -> [Pools -> [col : Nat, debt : Nat]]]

None == "none"
(* In half minutes: setTimeout(60), 180 for trustlines; 30 polls x 3 s.    *)
Classic(kind) == kind \in {"trust", "swap"}
TxLife(kind) == IF kind = "trust" THEN 6 ELSE 2
POLLSTooFew == 1
POLLS == 3

VARIABLES
    net,        \* the active network; the pools are on mainnet
    user,       \* state.userAddress
    ts,         \* TradeState: pool, reserve, pos, and pos as last rendered
    loads,      \* loadAll in flight
    flows,      \* money paths in flight, and the verdict of the last one
    market,     \* what everyone else has in the pools
    chain,      \* positions, by account and pool
    wallet,     \* tokens held, by account
    allowed,    \* allowances, by account and pool
    blnd,       \* BLND held; -1 while there is no trustline for it
    due,        \* BLND to claim, by account and pool
    budget      \* money paths, moves, market steps, faults still to come

vars == <<net, user, ts, loads, flows, market, chain, wallet, allowed, blnd, due, budget>>
chainVars == <<market, chain, wallet, allowed, blnd, due>>

NoPos == [col |-> 0, debt |-> 0]
NoReserve == [supply |-> -1]
NoTx == [src |-> None]
Idle == [op |-> None, told |-> ""]
NoLoad == [stage |-> None]

(* What get_reserve reports, and what it leaves to the others than a.      *)
Total(amounts) == FoldFunction(+, 0, amounts)
Reserve(p) ==
    [market[p] EXCEPT !.supply = @ + Total([a \in Accounts |-> chain[a][p].col]),
                      !.borrow = @ + Total([a \in Accounts |-> chain[a][p].debt])]
OthersIn(p, a) ==
    [Reserve(p) EXCEPT !.supply = @ - chain[a][p].col, !.borrow = @ - chain[a][p].debt]

ReadOf(pool) == [stage |-> "reserves", addr |-> user, pool |-> pool]
Init ==
    /\ net = "mainnet" /\ user \in Accounts
    /\ ts \in [pool : Pools, reserve : {NoReserve}, pos : {NoPos}, shown : {NoPos}, due : {0}]
    /\ \E l \in Loads : loads = [k \in Loads |-> IF k = l THEN ReadOf(ts.pool) ELSE NoLoad]
    /\ flows = [f \in Flows |-> Idle]
    /\ market = Market /\ chain \in Start /\ wallet = Purse
    /\ allowed = [a \in Accounts |-> [p \in Pools |-> 0]]
    /\ blnd \in [Accounts -> {-1, 0}]
    /\ due = [a \in Accounts |-> [p \in Pools |-> IF chain[a][p] = NoPos THEN 0 ELSE 1]]
    /\ budget \in Budgets

Spend(b) == budget[b] > 0 /\ budget' = [budget EXCEPT ![b] = @ - 1]
Confirming == \E f \in Flows : flows[f].op # None /\ flows[f].told = "" /\ flows[f].step = "confirm"

(*------------------------------ page loads ------------------------------*)
(* loadAll: reads the reserves of the pool selected now; then the          *)
(* positions, of the pool selected by then; each result is stored whatever *)
(* was selected in the meantime.  It begins by rendering what there is.    *)
LoadAll(l, pool) == loads[l] = NoLoad /\ loads' = [loads EXCEPT ![l] = ReadOf(pool)]

Reachable == net = "mainnet"
GotReserves(l) ==
    LET ld == loads[l]
    IN  /\ ld.stage = "reserves"
        /\ ts' = [ts EXCEPT !.reserve = IF Reachable THEN Reserve(ld.pool) ELSE NoReserve,
                            !.pos = IF ld.addr = None THEN NoPos ELSE @,
                            !.shown = IF ld.addr = None THEN NoPos ELSE @]
        /\ loads' = [loads EXCEPT ![l] = IF ld.addr = None THEN NoLoad
                                         ELSE [@ EXCEPT !.stage = "positions", !.pool = ts.pool]]
        /\ UNCHANGED <<net, user, flows, chainVars, budget>>
(* A read that fails is null, and null is no position at all.              *)
GotPositions(l) ==
    LET ld == loads[l]
    IN  /\ ld.stage = "positions"
        /\ \/ /\ ts' = [ts EXCEPT !.pos = IF Reachable THEN chain[ld.addr][ld.pool] ELSE NoPos]
              /\ UNCHANGED budget
           \/ ts' = [ts EXCEPT !.pos = NoPos] /\ Spend("faults")
        /\ loads' = [loads EXCEPT ![l].stage = "extras"]
        /\ UNCHANGED <<net, user, flows, chainVars>>
(* fetchPoolPendingBlnd: a claim of all the account's tokens, simulated.    *)
Pending(a, p) == IF Reachable THEN due[a][p] ELSE 0
(* Balance and pending BLND; then the mode follows the position, rendered. *)
Loaded(l) ==
    /\ loads[l].stage = "extras"
    /\ loads' = [loads EXCEPT ![l] = NoLoad]
    /\ ts' = [ts EXCEPT !.shown = ts.pos,
                        !.due = IF ts.pos # NoPos THEN Pending(loads[l].addr, ts.pool) ELSE 0]
    /\ UNCHANGED <<net, user, flows, chainVars, budget>>

(*-------------------------- wallet and selection ------------------------*)
(* Only selectPool, and a money path that ended, load again.               *)
SelectPool(p, l) ==
    /\ p # ts.pool /\ ~Confirming /\ Spend("moves")
    /\ ts' = [pool |-> p, reserve |-> NoReserve, pos |-> NoPos, shown |-> NoPos, due |-> 0]
    /\ LoadAll(l, p)
    /\ UNCHANGED <<net, user, flows, chainVars>>
(* connect, switchWallet, disconnect: the kit's dialog, then the session state.        *)
Connect(a) ==
    /\ a \in Accounts \union {None} /\ a # user /\ ~Confirming /\ Spend("moves")
    /\ user' = a
    /\ UNCHANGED <<net, ts, loads, flows, chainVars>>
(* switchNetwork also disconnects; the screen keeps its pool.              *)
SwitchNetwork ==
    /\ ~Confirming /\ Spend("moves")
    /\ net' = IF net = "mainnet" THEN "testnet" ELSE "mainnet"
    /\ user' = None
    /\ UNCHANGED <<ts, loads, flows, chainVars>>

(*------------------------------ money paths -----------------------------*)
(* The screen's view of the reserve: rsFor, or the defaults of the pool.   *)
Factors == IF ts.reserve = NoReserve THEN Market[ts.pool] ELSE ts.reserve
Healthy(lev) == HfForLeverageAtLeast(lev, Factors.cf, Factors.lf, MinHF)
MaxLev == MaxLeverageFor(Factors.cf, Factors.lf)
LiquidityOk(amount, lev) ==
    ts.reserve # NoReserve =>
        100 * AtMost((amount * ts.reserve.cf) \div 100, TargetBorrow(amount, lev))
            <= 100 * Available(ts.reserve) + amount * ts.reserve.maxUtil

(* A flow carries what its closure captured when the button was pressed.   *)
Press(f, op, step, amount, lev, pos, cf) ==
    /\ flows[f] = Idle /\ \A g \in Flows : g < f => flows[g] # Idle
    /\ user # None /\ ~Confirming /\ op \in budget.ops /\ Spend("paths")
    /\ flows' = [flows EXCEPT ![f] =
          [op |-> op, step |-> step, told |-> "", addr |-> user, amount |-> amount, lev |-> lev,
           pos |-> pos, cf |-> cf, tx |-> NoTx]]
    /\ UNCHANGED <<net, user, ts, loads, chainVars>>

(* The forms follow the position as rendered, the buttons the one that is  *)
(* stored.                                                                 *)
HasPosition == ts.shown # NoPos /\ ts.pos # NoPos
IsFrozen == ts.pool \in Frozen
(* The slider, and the gates of the button under it.                       *)
Offered == {lev \in Leverages : lev <= MaxLev}
CanOpen(amount, lev) == ts.shown = NoPos /\ ~IsFrozen /\ Healthy(lev) /\ LiquidityOk(amount, lev)
CanAdjust(lev) == HasPosition /\ ~IsFrozen /\ Healthy(lev) /\ lev # Leverage(ts.shown)
(* New capital is looped at the leverage there is, within the limits.      *)
AddLeverage == AtMost(IF Leverage(ts.shown) < 10 THEN 10 ELSE Leverage(ts.shown), MaxLev)
CanAdd(amount) == HasPosition /\ ~IsFrozen /\ Healthy(AddLeverage) /\ LiquidityOk(amount, AddLeverage)
CanRemove(amount) == HasPosition /\ ~IsFrozen /\ amount < Equity(ts.shown)

OpenPosition(f) ==
    \E amount \in Amounts, lev \in Offered :
        CanOpen(amount, lev) /\ Press(f, "open", "confirm", amount, lev, NoPos, Factors.cf)
AddFunds(f) ==
    \E amount \in Amounts :
        CanAdd(amount) /\ Press(f, "add", "approve", amount, AddLeverage, ts.pos, Factors.cf)
(* The button compares tenths; the builders refuse what is no change.      *)
AdjustLeverage(f) ==
    \E lev \in Offered :
        /\ CanAdjust(lev) /\ Equity(ts.pos) > 0
        /\ \/ /\ lev > Leverage(ts.pos) /\ IncreaseBy(ts.pos, lev) > 0
              /\ Press(f, "increase", "submit", 0, lev, ts.pos, Factors.cf)
           \/ /\ lev < Leverage(ts.pos) /\ DecreaseBy(ts.pos, lev) > 0
              /\ Press(f, "decrease", "submit", 0, lev, ts.pos, Factors.cf)
RemoveFunds(f) ==
    \E amount \in Amounts :
        /\ CanRemove(amount) /\ amount < Equity(ts.pos)
        /\ Press(f, "remove", "submit", amount, 0, ts.pos, Factors.cf)
(* askClose: the position is the one that was rendered.                    *)
ClosePosition(f) ==
    ts.shown # NoPos /\ Press(f, "close", "submit", 0, 0, ts.shown, Factors.cf)
ClaimAndConvert(f) ==
    HasPosition /\ ts.due > 0 /\ Press(f, "claim", "claim", 0, 0, ts.pos, Factors.cf)

(* getMissingTrustlines: only the one for BLND is ever required.           *)
MissingTrustline(a) == blnd[a] < 0
(* The review dialog, then the trustline check, which may fail.            *)
Confirm(f) ==
    LET fl == flows[f]
    IN  /\ fl.op # None /\ fl.told = "" /\ fl.step = "confirm"
        /\ flows' = [flows EXCEPT ![f] =
              IF Reachable THEN [@ EXCEPT !.step = IF MissingTrustline(fl.addr) THEN "trust" ELSE "approve"]
              ELSE Idle]
        /\ UNCHANGED <<net, user, ts, loads, chainVars, budget>>
Cancel(f) ==
    /\ flows[f].op # None /\ flows[f].told = "" /\ flows[f].step = "confirm"
    /\ flows' = [flows EXCEPT ![f] = Idle]
    /\ UNCHANGED <<net, user, ts, loads, chainVars, budget>>

(*---------------------------- one transaction ---------------------------*)
AwaitsBuild(fl) == fl.op # None /\ fl.told = "" /\ fl.step # "confirm" /\ fl.tx = NoTx
Requests(fl) ==
    CASE fl.op \in {"open", "add"} -> OpenRequests(fl.amount, fl.lev, fl.cf)
      [] fl.op = "increase" -> IncreaseRequests(fl.pos, fl.lev)
      [] fl.op = "decrease" -> DecreaseRequests(fl.pos, fl.lev)
      [] fl.op = "remove" -> RemoveRequests(fl.pos, fl.amount)
      [] fl.op = "close" /\ fl.step = "submit" -> CloseRequests(fl.pos)
      [] fl.op = "close" /\ fl.step = "repay" -> RepayRequests(fl.pos)
      [] fl.op = "close" /\ fl.step = "withdraw" -> WithdrawRequests
(* What a transaction does when it executes, or the error it meets.        *)
Outcome(tx) ==
    IF tx.kind = "claim" /\ MissingTrustline(tx.src) THEN [err |-> "trust"]
    ELSE IF tx.kind # "submit" THEN [err |-> ""]
    ELSE Submitted(OthersIn(tx.pool, tx.src), chain[tx.src][tx.pool], tx.reqs,
                   AtMost(allowed[tx.src][tx.pool], wallet[tx.src]))
(* What the transaction of a step is for: the allowance, one unit more    *)
(* than is entered; all the BLND there is; or the list of requests.        *)
Allowance(fl) == fl.amount + 1
SwapAmount(fl) == blnd[fl.addr]
TxOf(fl) ==
    [src |-> fl.addr, pool |-> ts.pool, step |-> fl.step, age |-> 0, asked |-> 0, state |-> "built",
     kind |-> IF fl.step \in {"trust", "approve", "claim", "swap"} THEN fl.step ELSE "submit",
     reqs |-> CASE fl.step = "approve" -> Allowance(fl)
                [] fl.step \in {"trust", "claim"} -> 0
                [] fl.step = "swap" -> SwapAmount(fl)
                [] OTHER -> Requests(fl)]

(* A path that is over is kept only while its transaction may still land.  *)
CanLand(tx) == tx # NoTx /\ tx.state = "sent" /\ tx.age <= TxLife(tx.kind)
Ended(f, told) ==
    flows' = [flows EXCEPT ![f] = IF CanLand(@.tx) THEN [@ EXCEPT !.told = told] ELSE Idle]
(* The screen loads again after a success, and after a fallback failed.    *)
Reload(again) ==
    IF again THEN \E l \in Loads : LoadAll(l, ts.pool) /\ ts' = [ts EXCEPT !.shown = ts.pos]
    ELSE UNCHANGED <<loads, ts>>

(* Build: the account's sequence number and a simulation, which refuses    *)
(* what would fail now.  A close refused for liquidity or health is tried  *)
(* in two steps when the page saw a debt.                                  *)
Build(f) ==
    LET fl == flows[f]
        tx == TxOf(fl)
        err == IF Reachable THEN Outcome(tx).err ELSE "rpc"
        twoSteps == fl.op = "close" /\ fl.step = "submit" /\ err \in {"util", "hf"} /\ fl.pos.debt > 0
    IN  /\ AwaitsBuild(fl)
        /\ tx.kind = "swap" => tx.reqs > 0
        /\ \/ err = "" /\ flows' = [flows EXCEPT ![f].tx = tx] /\ Reload(FALSE)
           \/ err # "" /\ twoSteps /\ flows' = [flows EXCEPT ![f].step = "repay"] /\ Reload(FALSE)
           \/ err # "" /\ ~twoSteps /\ Ended(f, "failed") /\ Reload(fl.step \in {"repay", "withdraw"})
        /\ UNCHANGED <<net, user, chainVars, budget>>
(* Nothing was claimed and nothing held: claimAndConvert stops there.      *)
NothingToSwap(f) ==
    /\ AwaitsBuild(flows[f]) /\ flows[f].step = "swap" /\ SwapAmount(flows[f]) <= 0
    /\ Ended(f, "nothing") /\ Reload(TRUE)
    /\ UNCHANGED <<net, user, chainVars, budget>>

InHand(f, state) == flows[f].op # None /\ flows[f].told = "" /\ flows[f].tx # NoTx /\ flows[f].tx.state = state
Mark(f, state) == flows' = [flows EXCEPT ![f].tx.state = state]
Failed(f, told) == Ended(f, told) /\ Reload(flows[f].step \in {"repay", "withdraw"})

(* sign: for the network and as the account of this moment, whatever the   *)
(* transaction was built for.                                              *)
Sign(f) ==
    /\ InHand(f, "built") /\ user # None
    /\ Mark(f, IF user = flows[f].tx.src /\ net = "mainnet" THEN "signed" ELSE "spoilt")
    /\ UNCHANGED <<net, user, ts, loads, chainVars, budget>>
Refuse(f) ==
    /\ InHand(f, "built") /\ Failed(f, "failed")
    /\ UNCHANGED <<net, user, chainVars, budget>>
(* sendTransaction: an ERROR at once for a bad signature, an old sequence  *)
(* number or one whose time is over.                                       *)
Send(f) ==
    LET tx == flows[f].tx
    IN  /\ InHand(f, "signed") \/ InHand(f, "spoilt")
        /\ \/ tx.state = "signed" /\ Reachable /\ tx.age <= TxLife(tx.kind) /\ Mark(f, "sent") /\ Reload(FALSE)
           \/ ~(tx.state = "signed" /\ Reachable /\ tx.age <= TxLife(tx.kind)) /\ Failed(f, "failed")
        /\ UNCHANGED <<net, user, chainVars, budget>>
(* The call fails three times although one of them got through.            *)
SendLost(f) ==
    /\ InHand(f, "signed") /\ Reachable /\ flows[f].tx.age <= TxLife(flows[f].tx.kind) /\ Spend("faults")
    /\ flows' = [flows EXCEPT ![f].tx.state = "sent", ![f].told = "unknown"]
    /\ Reload(flows[f].step \in {"repay", "withdraw"})
    /\ UNCHANGED <<net, user, chainVars>>

(* The ledger takes it, at most once and while it lives; the sequence      *)
(* number it uses makes every other one built by then worthless.           *)
Outrun(fl, src) ==
    IF fl = Idle \/ fl.tx = NoTx \/ fl.tx.src # src \/ fl.tx.state \notin {"built", "signed", "sent"} THEN fl
    ELSE IF fl.told # "" THEN Idle
    ELSE [fl EXCEPT !.tx.state = IF @ = "sent" THEN "failed" ELSE "spoilt"]
Land(f) ==
    LET tx == flows[f].tx
        out == Outcome(tx)
    IN  /\ flows[f].op # None /\ CanLand(tx)
        /\ flows' = [g \in Flows |->
              CASE g = f /\ flows[f].told # "" -> Idle
                [] g = f /\ flows[f].told = "" ->
                     [flows[f] EXCEPT !.tx.state = IF out.err = "" THEN "landed" ELSE "failed"]
                [] g # f -> Outrun(flows[g], tx.src)]
        /\ \/ /\ tx.kind = "submit" /\ out.err = ""
              /\ chain' = [chain EXCEPT ![tx.src][tx.pool] = [col |-> out.col, debt |-> out.debt]]
              /\ wallet' = [wallet EXCEPT ![tx.src] = @ - out.net]
              /\ allowed' = [allowed EXCEPT ![tx.src][tx.pool] = IF out.net > 0 THEN @ - out.net ELSE @]
              /\ UNCHANGED <<market, blnd, due>>
           \/ tx.kind = "submit" /\ out.err # "" /\ UNCHANGED chainVars
           \/ /\ tx.kind = "approve" /\ allowed' = [allowed EXCEPT ![tx.src][tx.pool] = tx.reqs]
              /\ UNCHANGED <<market, chain, wallet, blnd, due>>
           \/ /\ tx.kind = "trust" /\ blnd' = [blnd EXCEPT ![tx.src] = IF @ < 0 THEN 0 ELSE @]
              /\ UNCHANGED <<market, chain, wallet, allowed, due>>
           \/ /\ tx.kind = "claim"
              /\ blnd' = [blnd EXCEPT ![tx.src] = @ + due[tx.src][tx.pool]]
              /\ due' = [due EXCEPT ![tx.src][tx.pool] = 0]
              /\ UNCHANGED <<market, chain, wallet, allowed>>
           \/ /\ tx.kind = "swap"
              /\ blnd' = [blnd EXCEPT ![tx.src] = @ - tx.reqs]
              /\ wallet' = [wallet EXCEPT ![tx.src] = @ + tx.reqs]
              /\ UNCHANGED <<market, chain, allowed, due>>
        /\ UNCHANGED <<net, user, ts, loads, budget>>

NextStep(step) ==
    CASE step = "trust" -> "approve" [] step = "approve" -> "submit" [] step = "claim" -> "swap" [] step = "repay" -> "withdraw"
      [] OTHER -> None
(* getTransaction answers; the next transaction is built, or it is over.   *)
(* A first attempt to close that fails on chain says no #1205 or #1207:    *)
(* the result is in base64, and there is no second one.                    *)
Poll(f) ==
    LET fl == flows[f]
    IN  /\ Reachable
        /\ \/ /\ InHand(f, "landed") /\ NextStep(fl.step) # None
              /\ flows' = [flows EXCEPT ![f].tx = NoTx, ![f].step = NextStep(fl.step)]
              /\ Reload(FALSE)
           \/ InHand(f, "landed") /\ NextStep(fl.step) = None /\ Ended(f, "confirmed") /\ Reload(TRUE)
           \/ InHand(f, "failed") /\ Failed(f, "failed")
        /\ UNCHANGED <<net, user, chainVars, budget>>
PollLost(f) ==
    /\ \E s \in {"sent", "landed", "failed"} : InHand(f, s)
    /\ Spend("faults") /\ Failed(f, "unknown")
    /\ UNCHANGED <<net, user, chainVars>>
(* Mutant: it is polled until it is found. *)
TimedOutNever(f) == InHand(f, "sent") /\ flows[f].tx.asked > POLLS /\ Failed(f, "timeout") /\ UNCHANGED vars
(* The last poll; on the wrong network nothing is ever found.  Horizon     *)
(* gives a classic transaction half a minute and then answers 504.         *)
TimedOut(f) ==
    /\ \/ InHand(f, "sent")
       \/ ~Reachable /\ (InHand(f, "landed") \/ InHand(f, "failed"))
    /\ flows[f].tx.asked >= IF Classic(flows[f].tx.kind) THEN 1 ELSE POLLS
    /\ Failed(f, IF Classic(flows[f].tx.kind) THEN "unknown" ELSE "timeout")
    /\ UNCHANGED <<net, user, chainVars, budget>>

(* Half a minute passes.  A loop that polls does not wait past its last.   *)
Older(fl) ==
    IF fl = Idle \/ fl.tx = NoTx THEN fl
    ELSE LET tx == [fl.tx EXCEPT !.age = AtMost(@ + 1, TxLife(fl.tx.kind) + 1),
                                 !.asked = IF fl.tx.state \in {"sent", "landed", "failed"}
                                           THEN AtMost(@ + 1, POLLS) ELSE @]
         IN  IF fl.told # "" /\ ~CanLand(tx) THEN Idle ELSE [fl EXCEPT !.tx = tx]
Polling(fl) == fl # Idle /\ fl.tx # NoTx /\ fl.told = "" /\ fl.tx.state \in {"sent", "landed", "failed"}
Tick ==
    /\ \A f \in Flows : Polling(flows[f]) =>
          /\ flows[f].tx.asked < POLLS
          /\ ~Reachable \/ flows[f].tx.state = "sent"
    /\ LET next == [f \in Flows |-> Older(flows[f])] IN next # flows /\ flows' = next
    /\ UNCHANGED <<net, user, ts, loads, chainVars, budget>>
(* An approval is for 120 ledgers, ten minutes.                            *)
Lapse(a, p) ==
    /\ allowed[a][p] > 0 /\ allowed' = [allowed EXCEPT ![a][p] = 0]
    /\ UNCHANGED <<net, user, ts, loads, flows, market, chain, wallet, blnd, due, budget>>
(* Interest on a pool's debts; liquidity that others bring.                *)
Accrue(p) ==
    /\ Spend("market")
    /\ chain' = [a \in Accounts |-> [chain[a] EXCEPT ![p].debt = IF @ > 0 THEN @ + 1 ELSE 0]]
    /\ chain' # chain
    /\ UNCHANGED <<net, user, ts, loads, flows, market, wallet, allowed, blnd, due>>
Others(p) ==
    /\ Spend("market") /\ Inflow > 0
    /\ market' = [market EXCEPT ![p].supply = @ + Inflow]
    /\ UNCHANGED <<net, user, ts, loads, flows, chain, wallet, allowed, blnd, due>>

User == \/ \E p \in Pools, l \in Loads : SelectPool(p, l)
        \/ \E a \in Accounts \union {None} : Connect(a)
        \/ SwitchNetwork
        \/ \E f \in Flows : \/ OpenPosition(f) \/ AddFunds(f) \/ AdjustLeverage(f) \/ RemoveFunds(f)
                            \/ ClosePosition(f) \/ ClaimAndConvert(f) \/ Confirm(f) \/ Cancel(f)
                            \/ Sign(f) \/ Refuse(f)
Reads == \E l \in Loads : GotReserves(l) \/ GotPositions(l) \/ Loaded(l)
Answers == \E f \in Flows : Send(f) \/ Poll(f) \/ TimedOut(f)
Faults == \E f \in Flows : SendLost(f) \/ PollLost(f)
Ledger == (\E f \in Flows : Land(f)) \/ Tick
          \/ (\E p \in Pools : Accrue(p) \/ Others(p)) \/ (\E a \in Accounts, p \in Pools : Lapse(a, p))
Next == User \/ Reads \/ (\E f \in Flows : Build(f) \/ NothingToSwap(f)) \/ Answers \/ Faults \/ Ledger
(* Promises settle and time passes; users, faults and the ledger need not. *)
Settling == Reads \/ Answers \/ Tick
Spec == Init /\ [][Next]_vars /\ WF_vars(Settling)

-----------------------------------------------------------------------------
(* What the user is told is final: once a path is over, only one whose     *)
(* last answer was lost can still land (submitSignedXdr polls longer than  *)
(* a transaction lives), and that one was not called a failure.            *)
VerdictIsFinal == \A f \in Flows : flows[f].told \in {"", "unknown"}

Lands(f, ops) == chain' # chain /\ flows[f].op \in ops /\ Land(f)

(* Whatever lands in between, an open or a top-up takes what was entered   *)
(* and at most one unit more, and borrows what the leverage says           *)
(* (buildOpenRequests, buildApproveXdr).                                   *)
OpenIsAsEntered ==
    [][\A f \in Flows : Lands(f, {"open", "add"}) =>
          LET tx == flows[f].tx
          IN  /\ wallet[tx.src] - wallet'[tx.src] \in {flows[f].amount, flows[f].amount + 1}
              /\ chain'[tx.src][tx.pool].debt - chain[tx.src][tx.pool].debt
                     = TargetBorrow(flows[f].amount, flows[f].lev)]_vars

(* A close leaves neither debt nor collateral, however old the page was    *)
(* and whatever it showed, of every position that is not beyond the amount *)
(* that means all of it (buildCloseSubmitXdr, buildWithdrawXdr).           *)
CloseLeavesNothing ==
    [][\A f \in Flows : Lands(f, {"close"}) /\ flows[f].step \in {"submit", "withdraw"} =>
          LET tx == flows[f].tx
          IN  chain[tx.src][tx.pool] \in [col : 0..MAX, debt : 0..MAX] => chain'[tx.src][tx.pool] = NoPos]_vars

(* Once it is signed, a transaction's fate is told.                        *)
FateIsTold ==
    \A f \in Flows : (flows[f].op # None /\ flows[f].told = "" /\ flows[f].tx # NoTx
                          /\ flows[f].tx.state \in {"signed", "spoilt", "sent"})
                     ~> (flows[f].op = None \/ flows[f].told # "" \/ flows[f].tx = NoTx)

(* Remove Funds promises that "your leverage and Health Factor stay the    *)
(* same": up to the rounding of the two amounts.                           *)
RemovalKeepsLeverage ==
    [][\A f \in Flows : Lands(f, {"remove"}) =>
          LET p == chain[flows[f].tx.src][flows[f].tx.pool]
              q == chain'[flows[f].tx.src][flows[f].tx.pool]
              d == p.col * q.debt - q.col * p.debt
          IN  d <= p.col + p.debt /\ d >= -(p.col + p.debt)]_vars
=============================================================================

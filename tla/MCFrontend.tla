------------------------------ MODULE MCFrontend ------------------------------
(* The user's ways to the pools and vaults, for TLC: the three screens that  *)
(* move money, of which the router (app/router.ts) mounts one at a time, the *)
(* command-line script, and the scripts that put a vault on offer.  A        *)
(* behaviour is one visit to one of them.                                    *)
EXTENDS TradeDesk, VaultDesk, SwapDesk, LoopScript, DeployScript

VARIABLE view
frontVars == <<view, vars, deskVars, swapVars, scriptVars, deployVars>>

(* Two pools that list the same asset; two accounts have positions in one.  *)
MCMarket == [p \in Pools |->
    IF p = "fixed" THEN [supply |-> 1000, borrow |-> 1250, cf |-> 90, lf |-> 100, maxUtil |-> 95]
                   ELSE [supply |-> 1000, borrow |-> 600, cf |-> 75, lf |-> 95, maxUtil |-> 95]]
MCStart == {[a \in Accounts |-> [p \in Pools |->
    CASE a = "ana" /\ p = "fixed" -> [col |-> 400, debt |-> 150]
      [] a = "bob" /\ p = "fixed" -> [col |-> 300, debt |-> 100]
      [] OTHER -> [col |-> 0, debt |-> 0]]]}
MCPurse == [a \in Accounts |-> 120]
(* One path while the user moves, or the market does, or a call is lost;    *)
(* or two paths at a time.                                                  *)
Buttons == {"open", "add", "increase", "decrease", "remove", "close", "claim"}
MCBudgets == {[paths |-> 1, moves |-> 1, market |-> 0, faults |-> 1, ops |-> Buttons],
              [paths |-> 1, moves |-> 0, market |-> 1, faults |-> 1, ops |-> Buttons],
              [paths |-> 2, moves |-> 0, market |-> 0, faults |-> 0, ops |-> {"add", "close"}]}
(* Three vaults picked in turn around a transaction, or the sell field.     *)
MCChances == {[picks |-> 2, amends |-> 0, signs |-> 1], [picks |-> 1, amends |-> 2, signs |-> 0],
              [picks |-> 0, amends |-> 2, signs |-> 1]}

(* Swaps that fail as often as it takes to give up and once more; a tab that *)
(* is closed, with three swaps in a row; a screen left and entered; edits.   *)
Leeway(e, s, c, m, f) == [edits |-> e, swaps |-> s, closings |-> c, remounts |-> m, failures |-> f]
MCLeeways == {Leeway(1, 2, 0, 0, 6), Leeway(2, 3, 1, 0, 0), Leeway(2, 2, 0, 1, 1),
              Leeway(3, 1, 0, 0, 0)}

(* An unused reserve, a quiet one and one above the cap; a position that is  *)
(* fine, one below the threshold and one the pool calls bad already.         *)
MCReserves == {[supply |-> 50000, borrow |-> b, cf |-> 80, lf |-> 95, maxUtil |-> 95] : b \in {0, 20000, 45000}}
MCHeld == {[col |-> 5000, debt |-> d] : d \in {3600, 3900, 4100}}

(* Two of ASSETS, at a reserve that suits them, one whose c_factor is below  *)
(* that of the first, and one whose l_factor puts its deposits too low.      *)
MCAssets == <<[symbol |-> "USDC", c |-> 90, loops |-> 4, minHf |-> 10500, orange |-> 11000, rate |-> 0],
              [symbol |-> "CETES", c |-> 75, loops |-> 3, minHf |-> 10500, orange |-> 11000, rate |-> 1]>>
MCSuited == [c |-> 95, l |-> 95]
MCRisks == {MCSuited, [c |-> 80, l |-> 95], [c |-> 95, l |-> 90]}

FrontInit ==
    /\ Init /\ DeskInit /\ SwapInit /\ ScriptInit /\ DeployInit
    /\ view \in {"trade", "vault", "swap", "script", "deploy"}
    /\ user = "ana" /\ ts.pool = "fixed" /\ blnd["ana"] = 0 /\ blnd["bob"] = -1
    /\ view # "trade" => budget = CHOOSE b \in Budgets : TRUE
    /\ view # "vault" => picked = CHOOSE v \in Vaults : TRUE
    /\ view # "vault" => chances = CHOOSE c \in Chances : TRUE
    /\ view # "swap" => left = CHOOSE l \in Leeways : TRUE
    /\ script.mode # "open" => etherfuse.borrow = 20000 /\ etherfuse.cf = 80
    /\ view # "script" => script.mode = "monitor" /\ position.debt = 3600
    /\ reserve["CETES"] = MCSuited
    /\ view # "deploy" => venue = [net |-> "mainnet", own |-> TRUE] /\ reserve["USDC"] = MCSuited
Trade(A) == view = "trade" /\ A /\ UNCHANGED <<view, deskVars, swapVars, scriptVars, deployVars>>
Vault(A) == view = "vault" /\ A /\ UNCHANGED <<view, vars, swapVars, scriptVars, deployVars>>
Swap(A) == view = "swap" /\ A /\ UNCHANGED <<view, vars, deskVars, scriptVars, deployVars>>
Script(A) == view = "script" /\ A /\ UNCHANGED <<view, vars, deskVars, swapVars, deployVars>>
Deploy(A) == view = "deploy" /\ A /\ UNCHANGED <<view, vars, deskVars, swapVars, scriptVars>>
FrontNext == Trade(Next) \/ Vault(DeskNext) \/ Swap(SwapNext) \/ Script(ScriptNext) \/ Deploy(DeployNext)
(* The fairness of each of them, while it is the one that is visited.       *)
FrontSpec ==
    /\ FrontInit /\ [][FrontNext]_frontVars
    /\ WF_frontVars(Trade(Settling)) /\ WF_frontVars(Swap(Returning)) /\ WF_frontVars(Script(Going))
=============================================================================

---------------------------- MODULE MCAlertWorker ----------------------------
(* A push and a health-factor subscription to one pool/asset; and the time *)
(* series.  The two use different tables: each is run with the other idle.  *)
EXTENDS AlertWorker, RateLog, TLC

MCKind == [k \in Keys |-> k]
MCAssetOf == [k \in Keys |-> "usdc"]
MCBracketOf == [k \in Keys |-> 5]
MCThreshold == [k \in Keys |-> 10500]
MCAssets == <<"usdc">>
MCBrackets == <<5>>
\* At 5x: -4 % and HF 1.025; 0.2 % and HF 1.0625; 4 % and HF 1.1875.
MCRates == {[supply |-> 400, cost |-> 600, cf |-> 82, lf |-> 100],
            [supply |-> 484, cost |-> 600, cf |-> 85, lf |-> 100],
            [supply |-> 560, cost |-> 600, cf |-> 95, lf |-> 100]}

VARIABLE half
MCInit == half \in {"alerts", "log"} /\ Init /\ LogInit
MCNext == /\ UNCHANGED half
          /\ \/ half = "alerts" /\ Next /\ UNCHANGED logVars
             \/ half = "log" /\ LogNext /\ UNCHANGED vars
MCSpec == MCInit /\ [][MCNext]_<<half, vars, logVars>> /\ (half = "alerts" => Fairness)
=============================================================================

---------------------------- MODULE FlooredSale -----------------------------
(***************************************************************************)
(* What the split harvest promises the vault's holders, with no ledger, no *)
(* allowance and no balance in it: BLND leaves only as part of an open     *)
(* sale and never more of it than was offered; a sale is closed only when  *)
(* what left has been paid for at the floor, pro rata; and a sale that is  *)
(* abandoned reports what it did not get back.                             *)
(***************************************************************************)
EXTENDS Integers

VARIABLES
  offered,  \* BLND offered by the open sale, 0 when none is open
  floor,    \* underlying owed if all of it goes
  out,      \* BLND gone, less what was returned, in the last sale
  paid,     \* underlying received in the last sale
  report    \* BLND the last step reported missing

saleVars == <<offered, floor, out, paid, report>>

NoSale == offered' = 0 /\ floor' = 0

NewSale ==
  /\ offered' \in Nat \ {0}
  /\ floor' \in Nat
  /\ out' = 0 /\ paid' = 0

SaleInit == offered = 0 /\ floor = 0 /\ out = 0 /\ paid = 0 /\ report = 0

Open == offered = 0 /\ NewSale /\ report' = 0

\* Part of the offer leaves, or BLND comes in.
Take ==
  /\ offered > 0
  /\ out' \in Int /\ out' <= offered
  /\ report' = 0
  /\ UNCHANGED <<offered, floor, paid>>

Pay ==
  /\ offered > 0
  /\ paid' \in Nat /\ paid' >= paid
  /\ report' = 0
  /\ UNCHANGED <<offered, floor, out>>

\* Close a sale that is paid for; the closing step may itself sell the rest.
Close ==
  /\ offered > 0
  /\ out' \in Int /\ out' >= out /\ out' <= offered
  /\ paid' \in Nat /\ paid' >= paid
  /\ out' <= 0 \/ paid' * offered >= floor * out'
  /\ NoSale
  /\ report' = 0

\* Give up on a sale: everything still out is reported.
Abandon ==
  /\ offered > 0
  /\ report' \in Nat /\ report' >= out
  /\ NewSale \/ (NoSale /\ out' = 0 /\ paid' = 0)

\* With no sale open nothing leaves.
Rest ==
  /\ offered = 0 /\ NoSale
  /\ (out' = 0 /\ paid' = 0) \/ UNCHANGED <<out, paid>>
  /\ report' = 0

\* A report stands for one step.
Hush == report' = 0 /\ UNCHANGED <<offered, floor, out, paid>>

SaleNext == Open \/ Take \/ Pay \/ Close \/ Abandon \/ Rest \/ Hush

SaleSpec == SaleInit /\ [][SaleNext]_saleVars
=============================================================================

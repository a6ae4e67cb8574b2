----------------------------- MODULE ShareToken ------------------------------
(***************************************************************************)
(* The vault-share token (SEP-41): balances, supply, allowances that       *)
(* expire, and the minter that the admin may rotate.                       *)
(*                                                                         *)
(* One action is one committed call; a call that returns an error, or for  *)
(* which an account did not authorise what it must, is not a step.         *)
(* Amounts are i128 in the code, 0..MaxAmount here, and every addition     *)
(* that would leave that range is an error, as in the code.                *)
(***************************************************************************)
EXTENDS Sums

CONSTANTS
  Accounts,    \* addresses
  MaxAmount,   \* i128::MAX
  Spenders,    \* addresses that are given allowances
  Amounts,     \* amounts of the calls explored
  Deadlines,   \* ledgers at which the allowances explored expire
  MaxLedger,   \* bound: the last ledger explored
  MaxSteps     \* bound: calls explored

ASSUME TokenConstantsOK ==
  /\ Accounts # {} /\ IsFiniteSet(Accounts)
  /\ MaxAmount \in Nat
  /\ Spenders \subseteq Accounts
  /\ Amounts \subseteq 1..MaxAmount
  /\ MaxLedger \in Nat /\ MaxSteps \in Nat
  /\ Deadlines \subseteq 0..MaxLedger

VARIABLES
  balance,    \* DataKey::Balance
  supply,     \* DataKey::TotalSupply
  allowance,  \* DataKey::Allowance by owner and spender
  minter,     \* DataKey::Minter
  admin,      \* the admin-sep admin
  now,        \* ledger sequence
  caller,     \* who authorised the last call
  grant,      \* ghost: what the owner approved last
  spent,      \* ghost: what the spender took since, and when last
  steps       \* bound: calls so far

roles == <<minter, admin>>
approvals == <<allowance, grant, spent>>
vars == <<balance, supply, allowance, minter, admin, now, caller, grant, spent, steps>>

Pairs == Accounts \X Spenders
Approvals == [amount : 0..MaxAmount, expires : 0..MaxLedger]

Init ==
  /\ balance = [a \in Accounts |-> 0]
  /\ supply = 0
  /\ allowance = [p \in Pairs |-> [amount |-> 0, expires |-> 0]]
  /\ minter \in Accounts
  /\ admin \in Accounts
  /\ now = 0
  /\ caller = admin
  /\ grant = allowance
  /\ spent = [p \in Pairs |-> [amount |-> 0, at |-> 0]]
  /\ steps = 0

By(a) == steps < MaxSteps /\ steps' = steps + 1 /\ caller' = a

-----------------------------------------------------------------------------
(* Balances *)

\* receive and spend, on the balances as they stand.
Received(bal, to, n) == [bal EXCEPT ![to] = @ + n]
Spent(bal, from, n) == [bal EXCEPT ![from] = @ - n]
CanReceive(bal, to, n) == bal[to] + n <= MaxAmount
CanSpend(bal, from, n) == bal[from] >= n

\* spend, then receive on what spend wrote: the two may be one account.
Moves(from, to, n) ==
  /\ CanSpend(balance, from, n)
  /\ CanReceive(Spent(balance, from, n), to, n)
  /\ balance' = Received(Spent(balance, from, n), to, n)

\* Shares leave `from` and the supply.
Leaves(from, n) ==
  /\ CanSpend(balance, from, n)
  /\ balance' = Spent(balance, from, n)
  /\ supply - n >= -MaxAmount - 1
  /\ supply' = supply - n

-----------------------------------------------------------------------------
(* Allowances *)

\* Mutant: what is left of an allowance is approved anew, to the last ledger.
UsesAllowanceRenewed(owner, spender, n) ==
  LET p == <<owner, spender>> IN
  /\ allowance[p].expires >= now
  /\ allowance[p].amount >= n
  /\ allowance' = [allowance EXCEPT ![p] = [amount |-> @.amount - n, expires |-> MaxLedger]]
  /\ spent' = [spent EXCEPT ![p] = [amount |-> @.amount + n, at |-> now]]
  /\ UNCHANGED grant

\* Mutant: an allowance is checked and not used up.
UsesAllowanceKept(owner, spender, n) ==
  LET p == <<owner, spender>> IN
  /\ allowance[p].expires >= now
  /\ allowance[p].amount >= n
  /\ spent' = [spent EXCEPT ![p] = [amount |-> @.amount + n, at |-> now]]
  /\ UNCHANGED <<allowance, grant>>

\* spend_allowance
UsesAllowance(owner, spender, n) ==
  LET p == <<owner, spender>> IN
  /\ allowance[p].expires >= now
  /\ allowance[p].amount >= n
  /\ allowance' = [allowance EXCEPT ![p].amount = @ - n]
  /\ spent' = [spent EXCEPT ![p] = [amount |-> @.amount + n, at |-> now]]
  /\ UNCHANGED grant

\* approve: an amount replaces the one before, and a positive one may not have
\* expired already.
Approve(owner, spender, n, expires) ==
  LET p == <<owner, spender>> IN
  /\ By(owner)
  /\ n > 0 => expires >= now
  /\ allowance' = [allowance EXCEPT ![p] = [amount |-> n, expires |-> expires]]
  /\ grant' = [grant EXCEPT ![p] = [amount |-> n, expires |-> expires]]
  /\ spent' = [spent EXCEPT ![p] = [amount |-> 0, at |-> now]]
  /\ UNCHANGED <<balance, supply, roles, now>>

-----------------------------------------------------------------------------
(* Calls of holders and spenders *)

Transfer(from, to, n) ==
  /\ By(from)
  /\ Moves(from, to, n)
  /\ UNCHANGED <<supply, approvals, roles, now>>

TransferFrom(spender, from, to, n) ==
  /\ By(spender)
  /\ UsesAllowance(from, spender, n)
  /\ Moves(from, to, n)
  /\ UNCHANGED <<supply, roles, now>>

Burn(from, n) ==
  /\ By(from)
  /\ Leaves(from, n)
  /\ UNCHANGED <<approvals, roles, now>>

BurnFrom(spender, from, n) ==
  /\ By(spender)
  /\ UsesAllowance(from, spender, n)
  /\ Leaves(from, n)
  /\ UNCHANGED <<roles, now>>

-----------------------------------------------------------------------------
(* Calls of the minter and the admin *)

\* Mutant: only the balance is checked for room.
MintRoomForBalance(to, n) ==
  /\ By(minter)
  /\ CanReceive(balance, to, n)
  /\ balance' = Received(balance, to, n)
  /\ supply' = supply + n
  /\ UNCHANGED <<approvals, roles, now>>

\* mint
Mint(to, n) ==
  /\ By(minter)
  /\ CanReceive(balance, to, n)
  /\ balance' = Received(balance, to, n)
  /\ supply + n <= MaxAmount
  /\ supply' = supply + n
  /\ UNCHANGED <<approvals, roles, now>>

\* burn_by_minter: a withdrawal from the strategy.
BurnByMinter(from, n) ==
  /\ By(minter)
  /\ Leaves(from, n)
  /\ UNCHANGED <<approvals, roles, now>>

SetMinter(a) ==
  /\ By(admin)
  /\ minter' = a
  /\ UNCHANGED <<balance, supply, approvals, admin, now>>

\* set_admin of admin-sep
SetAdmin(a) ==
  /\ By(admin)
  /\ admin' = a
  /\ UNCHANGED <<balance, supply, approvals, minter, now>>

\* A ledger closes.
CloseLedger ==
  /\ now < MaxLedger
  /\ now' = now + 1
  /\ UNCHANGED <<balance, supply, approvals, roles, caller, steps>>

-----------------------------------------------------------------------------

HolderCall ==
  \E from \in Accounts, n \in Amounts :
    \/ \E to \in Accounts : Transfer(from, to, n)
    \/ Burn(from, n)
    \/ \E s \in Spenders, expires \in Deadlines : Approve(from, s, n, expires)
    \/ \E s \in Spenders : Approve(from, s, 0, 0)

SpenderCall ==
  \E spender \in Spenders, from \in Accounts, n \in Amounts :
    \/ \E to \in Accounts : TransferFrom(spender, from, to, n)
    \/ BurnFrom(spender, from, n)

MinterCall == \E a \in Accounts, n \in Amounts : Mint(a, n) \/ BurnByMinter(a, n)

AdminCall == \E a \in Accounts : SetMinter(a) \/ SetAdmin(a)

Next == HolderCall \/ SpenderCall \/ MinterCall \/ AdminCall \/ CloseLedger

Spec == Init /\ [][Next]_vars

-----------------------------------------------------------------------------
(* Properties *)

\* The supply is what all accounts hold together
\* (test_total_supply_conserved_across_transfers); ShareMigration checks it.
SupplyIsHeld == supply = SumOver(balance, Accounts)

\* A transfer that the sender can pay never fails for lack of room at the
\* receiver: mint keeps the whole supply, and so every sum, within i128.
TransfersHaveRoom ==
  \A from, to \in Accounts, n \in Amounts :
    CanSpend(balance, from, n) => CanReceive(Spent(balance, from, n), to, n)

\* A spender takes no more than the owner's last approval, however it is
\* split, and nothing once that approval has expired.
ApprovalsBind ==
  \A p \in Pairs :
    /\ spent[p].amount <= grant[p].amount
    /\ spent[p].amount > 0 => spent[p].at <= grant[p].expires

\* A balance falls, and a supply grows, only by the consent it takes: of the
\* holder, of the minter of that moment, or of a spender with an allowance that
\* is reduced by as much.
ConsentIsNeeded ==
  [][ /\ supply' > supply => caller' = minter
      /\ \A h \in Accounts : balance'[h] < balance[h] =>
           \/ caller' \in {h, minter}
           \/ LET p == <<h, caller'>> IN
              p \in Pairs /\ allowance[p].amount - allowance'[p].amount = balance[h] - balance'[h] ]_vars
=============================================================================

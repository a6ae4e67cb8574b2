-------------------------- MODULE ShareTokenProofs ---------------------------
(***************************************************************************)
(* What a spender may take, that supplies are what accounts hold, and what *)
(* a vault's move onto its token leaves of each share, for every number of *)
(* accounts, every amount, every ledger and every order of the calls.      *)
(***************************************************************************)
EXTENDS ShareMigration, SumProofs

\* The inductive invariant: an allowance and what was taken of it always make up
\* the last approval, whose deadline it keeps.
Balanced(p) ==
  /\ allowance[p].amount + spent[p].amount = grant[p].amount
  /\ allowance[p].expires = grant[p].expires
  /\ spent[p].amount > 0 => spent[p].at <= grant[p].expires

ApprovalsTyped ==
  /\ allowance \in [Pairs -> Approvals]
  /\ grant \in [Pairs -> Approvals]
  /\ spent \in [Pairs -> [amount : Nat, at : 0..MaxLedger]]
  /\ now \in 0..MaxLedger

IInv == ApprovalsTyped /\ \A p \in Pairs : Balanced(p)

LEMMA InitIInv == Init => IInv
  BY TokenConstantsOK DEF Init, IInv, ApprovalsTyped, Balanced, Approvals

\* A call that leaves approvals alone.
LEMMA Untouched ==
  ASSUME IInv, UNCHANGED <<approvals, now>>
  PROVE  IInv'
  BY DEF IInv, ApprovalsTyped, Balanced, approvals

LEMMA ApproveKeeps ==
  ASSUME IInv, NEW o \in Accounts, NEW s \in Spenders, NEW n \in 0..MaxAmount,
         NEW x \in 0..MaxLedger, Approve(o, s, n, x)
  PROVE  IInv'
<1> DEFINE q == <<o, s>>
<1>1. q \in Pairs
  BY DEF Pairs
<1>2. /\ allowance' = [allowance EXCEPT ![q] = [amount |-> n, expires |-> x]]
      /\ grant' = [grant EXCEPT ![q] = [amount |-> n, expires |-> x]]
      /\ spent' = [spent EXCEPT ![q] = [amount |-> 0, at |-> now]]
      /\ now' = now
  BY DEF Approve
<1> HIDE DEF q
<1>3. ApprovalsTyped'
  BY <1>1, <1>2 DEF IInv, ApprovalsTyped, Approvals
<1>4. ASSUME NEW p \in Pairs PROVE Balanced(p)'
  <2>1. CASE p = q
    BY <1>1, <1>2, <2>1 DEF IInv, ApprovalsTyped, Balanced
  <2>2. CASE p # q
    BY <1>1, <1>2, <2>2 DEF IInv, ApprovalsTyped, Balanced
  <2> QED BY <2>1, <2>2
<1> QED BY <1>3, <1>4 DEF IInv

LEMMA UseKeeps ==
  ASSUME IInv, NEW o \in Accounts, NEW s \in Spenders, NEW n \in Amounts,
         UsesAllowance(o, s, n), UNCHANGED now
  PROVE  IInv'
<1> DEFINE q == <<o, s>>
<1>1. q \in Pairs /\ n \in 1..MaxAmount
  BY TokenConstantsOK DEF Pairs
<1>2. /\ allowance[q].expires >= now
      /\ allowance[q].amount >= n
      /\ allowance' = [allowance EXCEPT ![q].amount = @ - n]
      /\ spent' = [spent EXCEPT ![q] = [amount |-> @.amount + n, at |-> now]]
      /\ grant' = grant
  BY DEF UsesAllowance
<1> HIDE DEF q
<1>3. /\ allowance[q] \in Approvals /\ spent[q].amount \in Nat /\ now \in 0..MaxLedger
      /\ MaxAmount \in Nat
  BY <1>1, TokenConstantsOK DEF IInv, ApprovalsTyped
<1>4. [allowance[q] EXCEPT !.amount = @ - n] \in Approvals
  BY <1>1, <1>2, <1>3 DEF Approvals
<1>5. ApprovalsTyped'
  BY <1>1, <1>2, <1>3, <1>4 DEF IInv, ApprovalsTyped
<1>6. ASSUME NEW p \in Pairs PROVE Balanced(p)'
  <2>1. CASE p = q
    <3>1. Balanced(q) /\ grant[q] \in Approvals
      BY <1>1 DEF IInv, ApprovalsTyped
    <3>2. /\ allowance'[q].amount = allowance[q].amount - n
          /\ allowance'[q].expires = allowance[q].expires
          /\ spent'[q].amount = spent[q].amount + n /\ spent'[q].at = now
          /\ grant'[q] = grant[q]
      BY <1>1, <1>2, <1>3 DEF IInv, ApprovalsTyped, Approvals
    <3> QED BY <1>1, <1>2, <1>3, <2>1, <3>1, <3>2 DEF Balanced, Approvals
  <2>2. CASE p # q
    BY <1>1, <1>2, <2>2 DEF IInv, ApprovalsTyped, Balanced
  <2> QED BY <2>1, <2>2
<1> QED BY <1>5, <1>6 DEF IInv

LEMMA NextIInv == IInv /\ [Next]_vars => IInv'
<1> SUFFICES ASSUME IInv, [Next]_vars PROVE IInv'
  OBVIOUS
<1>1. CASE HolderCall
  <2>1. PICK from \in Accounts, n \in Amounts :
          \/ \E to \in Accounts : Transfer(from, to, n)
          \/ Burn(from, n)
          \/ \E s \in Spenders, expires \in Deadlines : Approve(from, s, n, expires)
          \/ \E s \in Spenders : Approve(from, s, 0, 0)
    BY <1>1 DEF HolderCall
  <2>2. n \in 0..MaxAmount /\ 0 \in 0..MaxAmount /\ 0 \in 0..MaxLedger
        /\ Deadlines \subseteq 0..MaxLedger
    BY TokenConstantsOK
  <2>3. CASE \E to \in Accounts : Transfer(from, to, n)
    BY <2>3, Untouched DEF Transfer
  <2>4. CASE Burn(from, n)
    BY <2>4, Untouched DEF Burn
  <2>5. CASE \E s \in Spenders, expires \in Deadlines : Approve(from, s, n, expires)
    BY <2>2, <2>5, ApproveKeeps
  <2>6. CASE \E s \in Spenders : Approve(from, s, 0, 0)
    BY <2>2, <2>6, ApproveKeeps
  <2> QED BY <2>1, <2>3, <2>4, <2>5, <2>6
<1>2. CASE SpenderCall
  <2>1. PICK spender \in Spenders, from \in Accounts, n \in Amounts :
          \/ \E to \in Accounts : TransferFrom(spender, from, to, n)
          \/ BurnFrom(spender, from, n)
    BY <1>2 DEF SpenderCall
  <2>2. UsesAllowance(from, spender, n) /\ UNCHANGED now
    BY <2>1 DEF TransferFrom, BurnFrom
  <2> QED BY <2>2, UseKeeps
<1>3. CASE MinterCall
  BY <1>3, Untouched DEF MinterCall, Mint, BurnByMinter
<1>4. CASE AdminCall
  BY <1>4, Untouched DEF AdminCall, SetMinter, SetAdmin
<1>5. CASE CloseLedger
  BY <1>5, TokenConstantsOK DEF CloseLedger, IInv, ApprovalsTyped, Balanced, approvals
<1>6. CASE UNCHANGED vars
  BY <1>6, Untouched DEF vars, approvals
<1> QED BY <1>1, <1>2, <1>3, <1>4, <1>5, <1>6 DEF Next

\* A spender takes no more than the owner's last approval and nothing after its
\* deadline, however many calls and ledgers it is spread over.
THEOREM ApprovalsBindAlways == Spec => []ApprovalsBind
<1>1. IInv => ApprovalsBind
  BY DEF IInv, ApprovalsTyped, Approvals, Balanced, ApprovalsBind
<1> QED BY <1>1, InitIInv, NextIInv, PTL DEF Spec

-----------------------------------------------------------------------------
(* Sums over all accounts *)

\* The lemmas of SumProofs, for all accounts.
LEMMA SumAdds ==
    ASSUME NEW f \in [Accounts -> Int], NEW g \in [Accounts -> Int],
           NEW h \in [Accounts -> Int], \A a \in Accounts : h[a] = f[a] + g[a]
    PROVE  SumOf(h) = SumOf(f) + SumOf(g)
BY TokenConstantsOK, SumsAdd DEF SumOf

LEMMA SumOne ==
    ASSUME NEW h \in Accounts, NEW n \in Int
    PROVE  To(h, n) \in [Accounts -> Int] /\ SumOf(To(h, n)) = n
<1>1. To(h, n) = One(Accounts, h, n)
  BY DEF To, One
<1> QED BY <1>1, TokenConstantsOK, SumAtOne DEF SumOf

LEMMA SumOfNaturals ==
    ASSUME NEW f \in [Accounts -> Nat]
    PROVE  SumOf(f) \in Nat
BY TokenConstantsOK, SumIsNatural DEF SumOf

LEMMA TwoWithinSum ==
    ASSUME NEW f \in [Accounts -> Nat], NEW a \in Accounts, NEW b \in Accounts
    PROVE  IF a = b THEN f[a] <= SumOf(f) ELSE f[a] + f[b] <= SumOf(f)
BY TokenConstantsOK, TwoWithin DEF SumOf

LEMMA SumChanges ==
    ASSUME NEW f \in [Accounts -> Int], NEW h \in Accounts, NEW n \in Int
    PROVE  /\ [f EXCEPT ![h] = @ + n] \in [Accounts -> Int]
           /\ SumOf([f EXCEPT ![h] = @ + n]) = SumOf(f) + n
<1> DEFINE g == [f EXCEPT ![h] = @ + n]
<1>1. g \in [Accounts -> Int] /\ \A a \in Accounts : g[a] = IF a = h THEN f[a] + n ELSE f[a]
  OBVIOUS
<1> HIDE DEF g
<1>2. IsFiniteSet(Accounts)
  BY TokenConstantsOK
<1>3. SumOver(g, Accounts) = SumOver(f, Accounts) + n
  BY <1>1, <1>2, SumMoves, Zenon
<1> QED BY <1>1, <1>3 DEF g, SumOf

LEMMA SumOfNone == SumOf([a \in Accounts |-> 0]) = 0
BY TokenConstantsOK, SumOfZeros DEF SumOf

LEMMA SumIsInt == \A f \in [Accounts -> Int] : SumOf(f) \in Int
BY TokenConstantsOK, SumIsInteger DEF SumOf

-----------------------------------------------------------------------------
(* Balances and the supply *)

\* Balances are never negative, the supply is their sum and stays within i128.
Held == /\ balance \in [Accounts -> 0..MaxAmount]
        /\ supply \in 0..MaxAmount
        /\ supply = SumOf(balance)

LEMMA SupplyIsSum == SupplyIsHeld <=> supply = SumOf(balance)
BY DEF SupplyIsHeld, SumOf

LEMMA HeldSame == Held /\ UNCHANGED <<balance, supply>> => Held'
BY DEF Held

\* A transfer, also one to oneself.
LEMMA MovesHold ==
    ASSUME Held, NEW from \in Accounts, NEW to \in Accounts, NEW n \in 1..MaxAmount,
           Moves(from, to, n), UNCHANGED supply
    PROVE  Held'
<1> DEFINE less == Spent(balance, from, n)
<1>1. balance \in [Accounts -> Int] /\ MaxAmount \in Nat
  BY TokenConstantsOK DEF Held
<1>2. less \in [Accounts -> Int] /\ SumOf(less) = SumOf(balance) - n
  <2>1. less = [balance EXCEPT ![from] = @ + (-n)]
    BY <1>1 DEF Spent
  <2>2. -n \in Int
    OBVIOUS
  <2> HIDE DEF less
  <2>3. less \in [Accounts -> Int] /\ SumOf(less) = SumOf(balance) + (-n)
    BY <1>1, <2>1, <2>2, SumChanges
  <2>4. SumOf(balance) \in Int
    BY DEF Held
  <2> QED BY <2>3, <2>4
<1>3. /\ balance' = Received(less, to, n) /\ balance[from] >= n
      /\ less[to] + n <= MaxAmount
  BY DEF Moves, CanSpend, CanReceive
<1>4. less \in [Accounts -> 0..MaxAmount]
  BY <1>1, <1>3 DEF Held, Spent
<1> HIDE DEF less
<1>5. SumOf(balance') = SumOf(less) + n
  <2>1. balance' = [less EXCEPT ![to] = @ + n] /\ n \in Int
    BY <1>3 DEF Received
  <2> QED BY <1>2, <2>1, SumChanges
<1>6. balance' \in [Accounts -> 0..MaxAmount]
  BY <1>1, <1>3, <1>4 DEF Received
<1> QED BY <1>2, <1>5, <1>6 DEF Held

LEMMA LeavesHold ==
    ASSUME Held, NEW from \in Accounts, NEW n \in 1..MaxAmount, Leaves(from, n)
    PROVE  Held'
<1>1. balance \in [Accounts -> Int] /\ MaxAmount \in Nat
  BY TokenConstantsOK DEF Held
<1>2. balance' = [balance EXCEPT ![from] = @ + (-n)] /\ balance[from] >= n /\ supply' = supply - n
  BY <1>1 DEF Leaves, Spent, CanSpend
<1>3. -n \in Int
  OBVIOUS
<1>4. SumOf(balance') = SumOf(balance) + (-n)
  BY <1>1, <1>2, <1>3, SumChanges
<1>5. balance' \in [Accounts -> 0..MaxAmount]
  BY <1>1, <1>2 DEF Held
<1>6. SumOf(balance') \in Nat
  <2>1. balance' \in [Accounts -> Nat]
    BY <1>1, <1>5
  <2> QED BY <2>1, SumOfNaturals
<1> QED BY <1>1, <1>2, <1>4, <1>5, <1>6 DEF Held

LEMMA MintHolds ==
    ASSUME Held, NEW to \in Accounts, NEW n \in 1..MaxAmount, Mint(to, n)
    PROVE  Held'
<1>1. balance \in [Accounts -> Int] /\ MaxAmount \in Nat
  BY TokenConstantsOK DEF Held
<1>2. /\ balance' = [balance EXCEPT ![to] = @ + n] /\ balance[to] + n <= MaxAmount
      /\ supply' = supply + n /\ supply + n <= MaxAmount
  BY DEF Mint, Received, CanReceive
<1>3. SumOf(balance') = SumOf(balance) + n
  <2>1. n \in Int
    OBVIOUS
  <2> QED BY <1>1, <1>2, <2>1, SumChanges
<1>4. balance' \in [Accounts -> 0..MaxAmount]
  BY <1>1, <1>2 DEF Held
<1> QED BY <1>1, <1>2, <1>3, <1>4 DEF Held

LEMMA HeldStep == Held /\ [Next]_vars => Held'
<1> SUFFICES ASSUME Held, [Next]_vars PROVE Held'
  OBVIOUS
<1>0. Amounts \subseteq 1..MaxAmount /\ Spenders \subseteq Accounts
  BY TokenConstantsOK
<1>1. CASE HolderCall
  BY <1>0, <1>1, MovesHold, LeavesHold, HeldSame DEF HolderCall, Transfer, Burn, Approve
<1>2. CASE SpenderCall
  BY <1>0, <1>2, MovesHold, LeavesHold DEF SpenderCall, TransferFrom, BurnFrom
<1>3. CASE MinterCall
  BY <1>0, <1>3, MintHolds, LeavesHold DEF MinterCall, BurnByMinter
<1>4. CASE AdminCall \/ CloseLedger
  BY <1>4, HeldSame DEF AdminCall, SetMinter, SetAdmin, CloseLedger
<1>5. CASE UNCHANGED vars
  BY <1>5, HeldSame DEF vars
<1> QED BY <1>1, <1>2, <1>3, <1>4, <1>5 DEF Next

LEMMA HeldStart == Init => Held
BY TokenConstantsOK, SumOfNone DEF Init, Held

LEMMA HeldHasRoom == Held => TransfersHaveRoom
<1> SUFFICES ASSUME Held, NEW from \in Accounts, NEW to \in Accounts, NEW n \in Amounts,
                    CanSpend(balance, from, n)
             PROVE  CanReceive(Spent(balance, from, n), to, n)
  BY DEF TransfersHaveRoom
<1>1. balance \in [Accounts -> Nat] /\ n \in 1..MaxAmount /\ MaxAmount \in Nat
  BY TokenConstantsOK DEF Held
<1>2. IF from = to THEN balance[from] <= SumOf(balance) ELSE balance[from] + balance[to] <= SumOf(balance)
  BY <1>1, TwoWithinSum
<1>3. SumOf(balance) <= MaxAmount /\ balance[from] >= n /\ SumOf(balance) \in Nat
  BY DEF Held, CanSpend
<1>4. CASE from = to
  BY <1>1, <1>2, <1>3, <1>4 DEF CanReceive, Spent
<1>5. CASE from # to
  BY <1>1, <1>2, <1>3, <1>5 DEF CanReceive, Spent
<1> QED BY <1>4, <1>5

\* A transfer that the sender can pay never fails for lack of room at the
\* receiver, for every number of accounts and every history of calls.
THEOREM TransfersHaveRoomAlways == Spec => []TransfersHaveRoom
  BY HeldStart, HeldStep, HeldHasRoom, PTL DEF Spec


Consent ==
    /\ supply' > supply => caller' = minter
    /\ \A h \in Accounts : balance'[h] < balance[h] =>
         \/ caller' \in {h, minter}
         \/ LET p == <<h, caller'>> IN
            p \in Pairs /\ allowance[p].amount - allowance'[p].amount = balance[h] - balance'[h]

\* What a spender takes is taken off its allowance.
LEMMA TakenOff ==
    ASSUME IInv, NEW o \in Accounts, NEW s \in Spenders, NEW n \in Amounts, UsesAllowance(o, s, n)
    PROVE  <<o, s>> \in Pairs /\ allowance[<<o, s>>].amount - allowance'[<<o, s>>].amount = n
<1> DEFINE q == <<o, s>>
<1>1. q \in Pairs /\ n \in Int
  BY TokenConstantsOK DEF Pairs
<1>2. allowance' = [allowance EXCEPT ![q].amount = @ - n]
  BY DEF UsesAllowance
<1>3. allowance[q] \in Approvals /\ DOMAIN allowance = Pairs /\ MaxAmount \in Nat
  BY <1>1, TokenConstantsOK DEF IInv, ApprovalsTyped
<1> HIDE DEF q
<1>4. allowance'[q].amount = allowance[q].amount - n /\ allowance[q].amount \in Nat
  BY <1>1, <1>2, <1>3 DEF Approvals
<1> QED BY <1>1, <1>4 DEF q

LEMMA MovedFrom ==
    ASSUME Held, NEW from \in Accounts, NEW n \in 1..MaxAmount,
           (\E to \in Accounts : Moves(from, to, n)) \/ Leaves(from, n)
    PROVE  \A h \in Accounts : balance'[h] < balance[h] => h = from /\ balance[h] - balance'[h] = n
<1>1. balance \in [Accounts -> Int] /\ MaxAmount \in Nat
  BY TokenConstantsOK DEF Held
<1>2. ASSUME NEW to \in Accounts, Moves(from, to, n), NEW h \in Accounts, balance'[h] < balance[h]
      PROVE  h = from /\ balance[h] - balance'[h] = n
  BY <1>1, <1>2 DEF Moves, Received, Spent
<1>3. ASSUME Leaves(from, n), NEW h \in Accounts, balance'[h] < balance[h]
      PROVE  h = from /\ balance[h] - balance'[h] = n
  BY <1>1, <1>3 DEF Leaves, Spent
<1> QED BY <1>2, <1>3

LEMMA ConsentStep == Held /\ IInv /\ [Next]_vars => Consent \/ UNCHANGED vars
<1> SUFFICES ASSUME Held, IInv, Next PROVE Consent
  OBVIOUS
<1>0. Amounts \subseteq 1..MaxAmount /\ Spenders \subseteq Accounts /\ MaxAmount \in Nat
      /\ supply \in Int /\ balance \in [Accounts -> Int]
  BY TokenConstantsOK DEF Held
<1>1. CASE HolderCall
  <2>1. ASSUME NEW from \in Accounts, NEW n \in Amounts,
               (\E to \in Accounts : Transfer(from, to, n)) \/ Burn(from, n)
        PROVE  Consent
    <3>1. caller' = from /\ ~(supply' > supply)
      BY <1>0, <2>1 DEF Transfer, Burn, Leaves, By
    <3>2. (\E to \in Accounts : Moves(from, to, n)) \/ Leaves(from, n)
      BY <2>1 DEF Transfer, Burn
    <3> QED BY <1>0, <3>1, <3>2, MovedFrom DEF Consent
  <2>2. ASSUME NEW from \in Accounts, NEW s, NEW n, NEW x, Approve(from, s, n, x)
        PROVE  Consent
    BY <1>0, <2>2 DEF Approve, Consent
  <2> QED BY <1>1, <2>1, <2>2 DEF HolderCall
<1>2. CASE SpenderCall
  <2>1. PICK spender \in Spenders, from \in Accounts, n \in Amounts :
          (\E to \in Accounts : TransferFrom(spender, from, to, n)) \/ BurnFrom(spender, from, n)
    BY <1>2 DEF SpenderCall
  <2>2. caller' = spender /\ ~(supply' > supply)
    BY <1>0, <2>1 DEF TransferFrom, BurnFrom, Leaves, By
  <2>3. (\E to \in Accounts : Moves(from, to, n)) \/ Leaves(from, n)
    BY <2>1 DEF TransferFrom, BurnFrom
  <2>4. <<from, spender>> \in Pairs /\ allowance[<<from, spender>>].amount - allowance'[<<from, spender>>].amount = n
    BY <2>1, TakenOff DEF TransferFrom, BurnFrom
  <2>5. n \in 1..MaxAmount
    BY <1>0
  <2> QED BY <2>2, <2>3, <2>4, <2>5, MovedFrom DEF Consent
<1>3. CASE MinterCall
  <2>1. PICK a \in Accounts, n \in Amounts : Mint(a, n) \/ BurnByMinter(a, n)
    BY <1>3 DEF MinterCall
  <2>2. caller' = minter
    BY <2>1 DEF Mint, BurnByMinter, By
  <2> QED BY <2>2 DEF Consent
<1>4. CASE AdminCall \/ CloseLedger
  <2>1. UNCHANGED <<balance, supply>>
    BY <1>4 DEF AdminCall, SetMinter, SetAdmin, CloseLedger
  <2> QED BY <1>0, <2>1 DEF Consent
<1> QED BY <1>1, <1>2, <1>3, <1>4 DEF Next

\* A balance falls, and the supply grows, only by the consent of the holder, of the
\* minter, or of a spender whose allowance is reduced by as much.
THEOREM ConsentIsNeededAlways == Spec => ConsentIsNeeded
<1>1. Held /\ IInv /\ [Next]_vars => [Consent]_vars
  BY ConsentStep
<1> QED BY <1>1, HeldStart, HeldStep, InitIInv, NextIInv, PTL DEF Spec, ConsentIsNeeded, Consent

-----------------------------------------------------------------------------
(* The vault's move onto its token *)

\* Both tokens and the legacy entries together make up what the vault counts and what
\* the token's holders and other minters did without it.
MigrationInv ==
    /\ Held
    /\ legacy \in [Accounts -> Nat] /\ second \in [Accounts -> Int]
    /\ totalShares \in Int /\ foreign \in Int
    /\ SumOf(legacy) + supply + SumOf(second) = totalShares + foreign

\* Whichever token is wired, what is minted is added once.
LEMMA MintsFit ==
    ASSUME Held, second \in [Accounts -> Int], NEW shares \in [Accounts -> Nat], TokenMints(shares)
    PROVE  /\ Held' /\ second' \in [Accounts -> Int]
           /\ supply' + SumOf(second') = supply + SumOf(second) + SumOf(shares)
<1>1. /\ SumOf(shares) \in Nat /\ SumOf(second) \in Int /\ supply \in Nat /\ MaxAmount \in Nat
      /\ balance \in [Accounts -> Int] /\ shares \in [Accounts -> Int]
  BY SumOfNaturals, SumIsInt, TokenConstantsOK DEF Held
<1>2. CASE /\ wired = "token" /\ minter = Strategy
           /\ \A a \in Accounts : CanReceive(balance, a, shares[a])
           /\ supply + SumOf(shares) <= MaxAmount
           /\ balance' = [a \in Accounts |-> balance[a] + shares[a]]
           /\ supply' = supply + SumOf(shares)
           /\ UNCHANGED second
  <2>1. balance' \in [Accounts -> 0..MaxAmount] /\ balance' \in [Accounts -> Int]
    <3>1. ASSUME NEW a \in Accounts PROVE balance[a] + shares[a] \in 0..MaxAmount
      BY <1>1, <1>2 DEF CanReceive, Held
    <3>2. 0..MaxAmount \subseteq Int
      BY <1>1
    <3>3. balance' = [a \in Accounts |-> balance[a] + shares[a]]
      BY <1>2
    <3>4. balance' \in [Accounts -> 0..MaxAmount]
      BY <3>1, <3>3
    <3>5. balance' \in [Accounts -> Int]
      BY <1>1, <3>3
    <3> QED BY <3>4, <3>5
  <2>2. \A a \in Accounts : balance'[a] = balance[a] + shares[a]
    BY <1>2
  <2>3. SumOf(balance') = SumOf(balance) + SumOf(shares)
    BY <1>1, <2>1, <2>2, SumAdds
  <2>4. supply' = supply + SumOf(shares) /\ supply' <= MaxAmount /\ second' = second
    BY <1>2
  <2>5. supply = SumOf(balance)
    BY DEF Held
  <2>6. Held'
    BY <1>1, <2>1, <2>3, <2>4, <2>5 DEF Held
  <2>7. SumOf(second') = SumOf(second)
    BY <2>4
  <2> QED BY <1>1, <2>4, <2>6, <2>7
<1>3. CASE second' = [a \in Accounts |-> second[a] + shares[a]] /\ UNCHANGED <<balance, supply>>
  <2>1. second' \in [Accounts -> Int] /\ \A a \in Accounts : second'[a] = second[a] + shares[a]
    BY <1>1, <1>3
  <2>2. SumOf(second') = SumOf(second) + SumOf(shares)
    BY <1>1, <2>1, SumAdds
  <2> QED BY <1>1, <1>3, <2>1, <2>2 DEF Held
<1> QED BY <1>2, <1>3 DEF TokenMints

LEMMA BurnsFit ==
    ASSUME Held, second \in [Accounts -> Int], NEW h \in Accounts, NEW n \in 1..MaxAmount, TokenBurns(h, n)
    PROVE  /\ Held' /\ second' \in [Accounts -> Int]
           /\ supply' + SumOf(second') = supply + SumOf(second) - n
<1>1. SumOf(second) \in Int /\ supply \in Nat
  BY SumIsInt DEF Held
<1>2. CASE BurnByMinter(h, n) /\ UNCHANGED second
  <2>1. Leaves(h, n) /\ supply' = supply - n
    BY <1>2 DEF BurnByMinter, Leaves
  <2> QED BY <1>1, <1>2, <2>1, LeavesHold
<1>3. CASE second' = Spent(second, h, n) /\ UNCHANGED <<balance, supply>>
  <2>1. second' = [second EXCEPT ![h] = @ + (-n)] /\ -n \in Int
    <3>1. second[h] - n = second[h] + (-n) /\ -n \in Int
      OBVIOUS
    <3> QED BY <1>3, <3>1 DEF Spent
  <2>2. second' \in [Accounts -> Int] /\ SumOf(second') = SumOf(second) + (-n)
    BY <2>1, SumChanges
  <2> QED BY <1>1, <1>3, <2>2, HeldSame
<1> QED BY <1>2, <1>3 DEF TokenBurns

\* A depositor's shares and the lockup are together what the vault counts.
LEMMA DepositFits ==
    ASSUME MigrationInv, NEW h \in Holders, NEW n \in Amounts, Deposit(h, n)
    PROVE  MigrationInv'
<1> DEFINE lockup == IF totalShares = 0 THEN Lockup ELSE 0
           shares == [a \in Accounts |-> IF a = h THEN n - lockup ELSE IF a = Strategy THEN lockup ELSE 0]
<1>1. n \in 1..MaxAmount /\ h \in Accounts /\ h # Strategy /\ Strategy \in Accounts
  BY TokenConstantsOK, MigrationConstantsOK DEF Holders
<1>2. lockup \in 0..1 /\ n - lockup \in Nat
  BY <1>1 DEF Lockup
<1>3. TokenMints(shares) /\ totalShares' = totalShares + n /\ UNCHANGED <<legacy, foreign>>
  BY DEF Deposit
<1> HIDE DEF lockup
<1>4. shares \in [Accounts -> Nat]
  BY <1>2
<1>5. SumOf(shares) = n
  <2>1. \A a \in Accounts : shares[a] = To(h, n - lockup)[a] + To(Strategy, lockup)[a]
    BY <1>1, <1>2 DEF To
  <2>2. /\ To(h, n - lockup) \in [Accounts -> Int] /\ SumOf(To(h, n - lockup)) = n - lockup
        /\ To(Strategy, lockup) \in [Accounts -> Int] /\ SumOf(To(Strategy, lockup)) = lockup
    BY <1>1, <1>2, SumOne
  <2>3. shares \in [Accounts -> Int]
    BY <1>4
  <2> HIDE DEF shares
  <2>4. SumOf(shares) = SumOf(To(h, n - lockup)) + SumOf(To(Strategy, lockup))
    BY <2>1, <2>2, <2>3, SumAdds
  <2> QED BY <1>1, <1>2, <2>2, <2>4
<1> HIDE DEF shares
<1>6. /\ Held' /\ second' \in [Accounts -> Int]
      /\ supply' + SumOf(second') = supply + SumOf(second) + n
  BY <1>3, <1>4, <1>5, MintsFit DEF MigrationInv
<1>7. SumOf(legacy) \in Int /\ SumOf(second) \in Int /\ SumOf(second') \in Int /\ supply \in Int /\ supply' \in Int
  BY <1>6, SumIsInt, SumOfNaturals DEF MigrationInv, Held
<1> QED BY <1>1, <1>3, <1>6, <1>7 DEF MigrationInv

LEMMA WithdrawFits ==
    ASSUME MigrationInv, NEW h \in Holders, NEW n \in Amounts, Withdraw(h, n)
    PROVE  MigrationInv'
<1>1. n \in 1..MaxAmount /\ h \in Accounts
  BY TokenConstantsOK DEF Holders
<1>2. TokenBurns(h, n) /\ totalShares' = totalShares - n /\ UNCHANGED <<legacy, foreign>>
  BY DEF Withdraw
<1>3. /\ Held' /\ second' \in [Accounts -> Int]
      /\ supply' + SumOf(second') = supply + SumOf(second) - n
  BY <1>1, <1>2, BurnsFit DEF MigrationInv
<1>4. SumOf(legacy) \in Int /\ SumOf(second) \in Int /\ SumOf(second') \in Int /\ supply \in Int /\ supply' \in Int
  BY <1>3, SumIsInt, SumOfNaturals DEF MigrationInv, Held
<1> QED BY <1>1, <1>2, <1>3, <1>4 DEF MigrationInv

\* A legacy entry is emptied by what it becomes in the token.
LEMMA MigrateFits ==
    ASSUME MigrationInv, NEW h \in Holders, MigratePosition(h)
    PROVE  MigrationInv'
<1> DEFINE n == legacy[h]
<1>1. h \in Accounts /\ n \in Nat /\ legacy \in [Accounts -> Int]
  BY DEF Holders, MigrationInv
<1>2. TokenMints(To(h, n)) /\ UNCHANGED <<totalShares, foreign>>
  BY DEF MigratePosition
<1>3. legacy' = [legacy EXCEPT ![h] = 0] /\ legacy' = [legacy EXCEPT ![h] = @ + (-n)]
  <2>1. legacy[h] + (-n) = 0
    BY <1>1
  <2> QED BY <2>1 DEF MigratePosition
<1>4. To(h, n) \in [Accounts -> Nat] /\ SumOf(To(h, n)) = n /\ legacy' \in [Accounts -> Nat]
  <2>1. To(h, n) \in [Accounts -> Nat] /\ legacy' \in [Accounts -> Nat]
    BY <1>1, <1>3 DEF To, MigrationInv
  <2> HIDE DEF n
  <2> QED BY <1>1, <2>1, SumOne
<1> HIDE DEF n
<1>5. SumOf(legacy') = SumOf(legacy) + (-n)
  <2>1. -n \in Int
    BY <1>1
  <2>2. SumOf([legacy EXCEPT ![h] = @ + (-n)]) = SumOf(legacy) + (-n)
    BY <1>1, <2>1, SumChanges
  <2> QED BY <1>3, <2>2
<1>6. /\ Held' /\ second' \in [Accounts -> Int]
      /\ supply' + SumOf(second') = supply + SumOf(second) + n
  BY <1>2, <1>4, MintsFit DEF MigrationInv
<1>7. SumOf(legacy) \in Int /\ SumOf(second) \in Int /\ SumOf(second') \in Int /\ supply \in Int /\ supply' \in Int
  BY <1>1, <1>6, SumIsInt DEF MigrationInv, Held
<1> QED BY <1>1, <1>2, <1>4, <1>5, <1>6, <1>7 DEF MigrationInv

LEMMA MeanwhileFits ==
    ASSUME MigrationInv, Meanwhile
    PROVE  MigrationInv'
<1>0. Amounts \subseteq 1..MaxAmount /\ Holders \subseteq Accounts
  BY TokenConstantsOK DEF Holders
<1>1. Held'
  <2>1. \/ \E h \in Holders, to \in Accounts, n \in Amounts : Transfer(h, to, n)
        \/ \E h \in Holders, n \in Amounts : Burn(h, n)
        \/ MinterCall
        \/ \E a \in Accounts : SetMinter(a)
    BY DEF Meanwhile
  <2>2. Held
    BY DEF MigrationInv
  <2>3. CASE \E h \in Holders, to \in Accounts, n \in Amounts : Transfer(h, to, n)
    BY <1>0, <2>2, <2>3, MovesHold DEF Transfer
  <2>4. CASE \E h \in Holders, n \in Amounts : Burn(h, n)
    BY <1>0, <2>2, <2>4, LeavesHold DEF Burn
  <2>5. CASE MinterCall
    BY <1>0, <2>2, <2>5, MintHolds, LeavesHold DEF MinterCall, BurnByMinter
  <2>6. CASE \E a \in Accounts : SetMinter(a)
    BY <2>2, <2>6, HeldSame DEF SetMinter
  <2> QED BY <2>1, <2>3, <2>4, <2>5, <2>6
<1>2. foreign' = foreign + supply' - supply /\ UNCHANGED <<legacy, second, totalShares>>
  BY DEF Meanwhile, Unaided
<1>3. supply \in Int /\ supply' \in Int /\ SumOf(legacy) \in Int /\ SumOf(second) \in Int
  BY <1>1, SumIsInt, SumOfNaturals DEF MigrationInv, Held
<1>4. SumOf(legacy') = SumOf(legacy) /\ SumOf(second') = SumOf(second)
  BY <1>2
<1> QED BY <1>1, <1>2, <1>3, <1>4 DEF MigrationInv

LEMMA MigrationStep == MigrationInv /\ [MigrationNext]_<<vars, migrationVars>> => MigrationInv'
<1> SUFFICES ASSUME MigrationInv, [MigrationNext]_<<vars, migrationVars>> PROVE MigrationInv'
  OBVIOUS
<1>1. ASSUME NEW t, SetShareToken(t) PROVE MigrationInv'
  BY <1>1, HeldSame DEF SetShareToken, MigrationInv
<1>2. CASE UNCHANGED <<vars, migrationVars>>
  BY <1>2, HeldSame DEF vars, migrationVars, MigrationInv
<1> QED BY <1>1, <1>2, DepositFits, WithdrawFits, MigrateFits, MeanwhileFits DEF MigrationNext

LEMMA MigrationStart == MigrationInit => MigrationInv
<1> SUFFICES ASSUME MigrationInit PROVE MigrationInv
  OBVIOUS
<1>1. Held /\ supply = 0
  BY HeldStart DEF MigrationInit, Init
<1>2. legacy \in [Accounts -> Nat] /\ SumOf(legacy) \in Nat
  <2>1. legacy \in [Accounts -> Nat]
    BY MigrationConstantsOK DEF MigrationInit
  <2> QED BY <2>1, SumOfNaturals
<1>3. second \in [Accounts -> Int] /\ SumOf(second) = 0
  BY SumOfNone DEF MigrationInit
<1> QED BY <1>1, <1>2, <1>3 DEF MigrationInit, MigrationInv

\* The supply is what all accounts hold together, and every share the vault counts is in
\* exactly one ledger, however migrations, trades, re-wirings of the token and rotations
\* of its minter interleave.
THEOREM EachShareOnceAlways == MigrationSpec => []EachShareOnce
<1>1. MigrationInv => EachShareOnce
  BY SupplyIsSum DEF MigrationInv, Held, EachShareOnce
<1> QED BY <1>1, MigrationStart, MigrationStep, PTL DEF MigrationSpec
=============================================================================

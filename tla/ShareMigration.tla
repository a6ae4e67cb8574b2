--------------------------- MODULE ShareMigration ----------------------------
(***************************************************************************)
(* A vault that is older than its share token: the admin wires a token,    *)
(* the shares in legacy VaultPos entries are moved onto it holder by       *)
(* holder, and deposits, withdrawals, transfers and burns go on meanwhile. *)
(*                                                                         *)
(* The code lets the admin wire another token at any time, and the token's *)
(* admin rotate its minter: both are steps here.  The second token is the  *)
(* ledger the strategy writes to while it is wired.  Allowances are left   *)
(* to ShareToken.                                                          *)
(***************************************************************************)
EXTENDS ShareToken

CONSTANTS Strategy,        \* the strategy's own address
          LegacyShares     \* shares a holder may have had before the token

ASSUME MigrationConstantsOK == Strategy \in Accounts /\ LegacyShares \subseteq Nat

VARIABLES wired,           \* DataKey::ShareToken: "none", "token" or "second"
          legacy,          \* DataKey::VaultPos by holder
          second,          \* balances in the second token
          totalShares,     \* LeverageReserves.total_shares
          foreign          \* ghost: shares made less burnt without the strategy

migrationVars == <<wired, legacy, second, totalShares, foreign>>

Holders == Accounts \ {Strategy}
(* compute_first_deposit_shares keeps one unit of the first deposit back.  *)
Lockup == 1
SumOf(f) == SumOver(f, Accounts)
To(h, n) == [a \in Accounts |-> IF a = h THEN n ELSE 0]

(* Calls of the strategy into whichever token is wired.  It may mint and   *)
(* burn only while it is the minter; nothing is wired, nothing is possible.*)
TokenMints(shares) ==
    /\ By(Strategy)
    /\ \/ /\ wired = "token" /\ minter = Strategy
          /\ \A a \in Accounts : CanReceive(balance, a, shares[a])
          /\ supply + SumOf(shares) <= MaxAmount
          /\ balance' = [a \in Accounts |-> balance[a] + shares[a]]
          /\ supply' = supply + SumOf(shares)
          /\ UNCHANGED second
       \/ /\ wired = "second"
          /\ second' = [a \in Accounts |-> second[a] + shares[a]]
          /\ UNCHANGED <<balance, supply>>
TokenBurns(h, n) ==
    \/ /\ wired = "token" /\ minter = Strategy
       /\ BurnByMinter(h, n) /\ UNCHANGED second
    \/ /\ wired = "second" /\ CanSpend(second, h, n)
       /\ By(Strategy) /\ second' = Spent(second, h, n)
       /\ UNCHANGED <<balance, supply, approvals, roles, now>>

(* deposit: shares for the depositor, and the lockup for the strategy.     *)
Deposit(h, n) ==
    LET lockup == IF totalShares = 0 THEN Lockup ELSE 0
    IN  /\ TokenMints([a \in Accounts |-> IF a = h THEN n - lockup ELSE IF a = Strategy THEN lockup ELSE 0])
        /\ totalShares' = totalShares + n
        /\ UNCHANGED <<approvals, roles, now, wired, legacy, foreign>>
(* withdraw: what the wired token does not show cannot be withdrawn.       *)
Withdraw(h, n) ==
    /\ TokenBurns(h, n)
    /\ n <= totalShares /\ totalShares' = totalShares - n
    /\ UNCHANGED <<wired, legacy, foreign>>

SetShareToken(t) ==
    /\ t # wired /\ wired' = t
    /\ By(admin)
    /\ UNCHANGED <<balance, supply, approvals, roles, now, legacy, second, totalShares, foreign>>
(* Mutant: the legacy entry is left as it was. *)
MigrateKeepingEntry(h) ==
    /\ legacy[h] > 0 /\ TokenMints(To(h, legacy[h]))
    /\ UNCHANGED <<approvals, roles, now, wired, legacy, totalShares, foreign>>
(* migrate_position: by anyone, for any holder, any number of times.       *)
MigratePosition(h) ==
    /\ legacy[h] > 0 /\ TokenMints(To(h, legacy[h]))
    /\ legacy' = [legacy EXCEPT ![h] = 0]
    /\ UNCHANGED <<approvals, roles, now, wired, totalShares, foreign>>

(* What happens to the token without the strategy.                         *)
Unaided == foreign' = foreign + supply' - supply /\ UNCHANGED <<wired, legacy, second, totalShares>>
Meanwhile ==
    /\ \/ \E h \in Holders, to \in Accounts, n \in Amounts : Transfer(h, to, n)
       \/ \E h \in Holders, n \in Amounts : Burn(h, n)
       \/ minter # Strategy /\ MinterCall
       \/ \E a \in Accounts : SetMinter(a)
    /\ Unaided

MigrationInit ==
    /\ Init
    /\ wired = "none"
    /\ legacy \in {f \in [Accounts -> LegacyShares] : f[Strategy] = 0}
    /\ second = [a \in Accounts |-> 0]
    /\ totalShares = SumOf(legacy) /\ foreign = 0
MigrationNext ==
    \/ \E h \in Holders, n \in Amounts : Deposit(h, n) \/ Withdraw(h, n)
    \/ \E t \in {"token", "second"} : SetShareToken(t)
    \/ \E h \in Holders : MigratePosition(h)
    \/ Meanwhile
MigrationSpec == MigrationInit /\ [][MigrationNext]_<<vars, migrationVars>>

-----------------------------------------------------------------------------
(* The supply is what all accounts hold together, also after calls in      *)
(* which several roles fall on one account; and every share the vault      *)
(* counts is in exactly one ledger, however migrations, trades, re-wirings *)
(* and rotations of the minter interleave: a legacy entry, either token,   *)
(* or burnt by its holder (transfer, set_share_token, migrate_position).   *)
EachShareOnce ==
    /\ SupplyIsHeld
    /\ SumOf(legacy) + supply + SumOf(second) = totalShares + foreign
=============================================================================

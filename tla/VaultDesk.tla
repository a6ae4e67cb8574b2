------------------------------ MODULE VaultDesk ------------------------------
(***************************************************************************)
(* The vault screen (src/frontend/src/views/vault.ts) with the reads and   *)
(* transaction builders it awaits (defindex.ts, aquarius_trade.ts): the    *)
(* selected vault, its statistics and the user's balances, the quotes for  *)
(* selling receipt tokens, and the four transactions.                      *)
(*                                                                         *)
(* A balance or a statistic is represented by whose it is, an amount by a  *)
(* number.  What a transaction does to a vault is StrategyVault's; here it *)
(* is confirmed or it fails.  Only deployed vaults are selectable.         *)
(***************************************************************************)
EXTENDS Integers

CONSTANTS Vaults, Holders,
          Shares,               \* amounts in the sell field; 0 is an empty one
          Details,              \* loadDetail calls that may be in flight
          Deals,                \* transactions that may be in flight
          Chances               \* bounds: picks, amends and signs

Nobody == "nobody"
Zero == <<>>                    \* a balance that was not read, or not found

(* What stands for statistics that were never read, or could not be.       *)
ASSUME VaultDeskAssumption == "absent" \notin Vaults /\ "null" \notin Vaults

VARIABLES
    holder,     \* state.userAddress
    picked,     \* vs.selectedId
    held,       \* vs: whose wallet and vault balances are shown and used
    cache,      \* statistics by vault: of which vault they are
    details,    \* loadDetail in flight
    panel,      \* the last rendered detail, with the closures of its fields
    quoting,    \* quoteReceiptSwap calls the panel awaits
    deals,      \* transactions, by slot
    chances     \* bounds: what may still happen

deskVars == <<holder, picked, held, cache, details, panel, quoting, deals, chances>>

NoDetail == [stage |-> "none"]
NoDeal == [stage |-> "none"]
Chance(b) == chances[b] > 0 /\ chances' = [chances EXCEPT ![b] = @ - 1]
(* renderDetail: new fields and buttons, with what is known of the vault.  *)
Panel(v, stats) ==
    [vault |-> v, addr |-> holder, stats |-> stats, field |-> 0, timer |-> FALSE,
     quote |-> 0, sellable |-> FALSE, busy |-> {}]
Deserted(ds) == [d \in Deals |-> IF ds[d] = NoDeal THEN NoDeal ELSE [ds[d] EXCEPT !.mine = FALSE]]
Render(v, stats, ds) == panel' = Panel(v, stats) /\ quoting' = {} /\ deals' = Deserted(ds)
(* loadDetail, up to its first await.                                      *)
LoadDetail(v, ds) ==
    /\ \E l \in Details :
          /\ details[l] = NoDetail /\ \A k \in Details : k < l => details[k] # NoDetail
          /\ details' = [details EXCEPT ![l] = [stage |-> "stats", vault |-> v, addr |-> holder]]
    /\ Render(v, cache[v], ds)

DeskInit ==
    /\ holder \in Holders /\ picked \in Vaults
    /\ held = [wallet |-> Zero, vault |-> Zero]
    /\ cache = [v \in Vaults |-> "absent"]
    /\ details = [l \in Details |-> IF \A k \in Details : l <= k
                                    THEN [stage |-> "stats", vault |-> picked, addr |-> holder] ELSE NoDetail]
    /\ panel = Panel(picked, "absent") /\ quoting = {}
    /\ deals = [d \in Deals |-> NoDeal]
    /\ chances \in Chances

(*------------------------------- selection ------------------------------*)
PickVault(v) ==
    /\ v # picked /\ Chance("picks")
    /\ picked' = v /\ held' = [wallet |-> Zero, vault |-> Zero]
    /\ LoadDetail(v, deals)
    /\ UNCHANGED <<holder, cache>>
(* Nothing is read or rendered again when the wallet changes.              *)
SwitchHolder(a) ==
    /\ a # holder /\ Chance("picks") /\ holder' = a
    /\ UNCHANGED <<picked, held, cache, details, panel, quoting, deals>>

(*--------------------------------- loading ------------------------------*)
Rendered(l) == Render(picked, cache[picked], deals) /\ details' = [details EXCEPT ![l] = NoDetail]
(* Mutant: what arrives is filed under the vault selected by then. *)
GotStatsOfPicked(l) ==
    /\ details[l].stage = "stats" /\ details[l].addr # Nobody
    /\ cache' = [cache EXCEPT ![picked] = details[l].vault]
    /\ details' = [details EXCEPT ![l].stage = "wallet"]
    /\ UNCHANGED <<holder, picked, held, panel, quoting, deals, chances>>
(* fetchVaultStats; a failure is filed as null.                            *)
GotStats(l) ==
    LET v == details[l].vault
        addr == details[l].addr
    IN  /\ details[l].stage = "stats"
        /\ \E stats \in {v, "null"} : cache' = [cache EXCEPT ![v] = stats]
        /\ IF addr = Nobody
           THEN /\ Render(picked, cache'[picked], deals)
                /\ details' = [details EXCEPT ![l] = NoDetail]
           ELSE details' = [details EXCEPT ![l].stage = "wallet"] /\ UNCHANGED <<panel, quoting, deals>>
        /\ UNCHANGED <<holder, picked, held, chances>>
GotWallet(l) ==
    /\ details[l].stage = "wallet"
    /\ held' \in {[held EXCEPT !.wallet = w] : w \in {Zero, <<details[l].vault, details[l].addr>>}}
    /\ details' = [details EXCEPT ![l].stage = "equity"]
    /\ UNCHANGED <<holder, picked, cache, panel, quoting, deals, chances>>
GotEquity(l) ==
    /\ details[l].stage = "equity"
    /\ held' \in {[held EXCEPT !.vault = e] : e \in {Zero, <<details[l].vault, details[l].addr>>}}
    /\ Rendered(l)
    /\ UNCHANGED <<holder, picked, cache, chances>>

(*---------------------------------- quotes ------------------------------*)
(* refreshQuote: the calls before it are superseded.                       *)
RefreshQuote(p) ==
    /\ panel' = [p EXCEPT !.quote = 0, !.sellable = FALSE]
    /\ quoting' = {[q EXCEPT !.newest = FALSE] : q \in quoting}
                      \union (IF p.field > 0 THEN {[amount |-> p.field, newest |-> TRUE]} ELSE {})
Connected == panel.addr # Nobody
EditSale(n) ==
    /\ Connected /\ n # panel.field /\ Chance("amends")
    /\ panel' = [panel EXCEPT !.field = n, !.timer = TRUE]
    /\ UNCHANGED <<holder, picked, held, cache, details, quoting, deals>>
(* The Max button, once the balance of receipt tokens is known.            *)
SellMax(n) ==
    /\ Connected /\ Chance("amends")
    /\ RefreshQuote([panel EXCEPT !.field = n])
    /\ UNCHANGED <<holder, picked, held, cache, details, deals>>
QuoteTimer ==
    /\ panel.timer /\ RefreshQuote([panel EXCEPT !.timer = FALSE])
    /\ UNCHANGED <<holder, picked, held, cache, details, deals, chances>>
(* Mutant: a superseded answer is taken too. *)
QuoteArrivesLate(q) ==
    /\ quoting' = quoting \ {q}
    /\ panel' = [panel EXCEPT !.quote = q.amount, !.sellable = Connected]
    /\ UNCHANGED <<holder, picked, held, cache, details, deals, chances>>
QuoteArrives(q) ==
    /\ quoting' = quoting \ {q}
    /\ \/ q.newest /\ panel' = [panel EXCEPT !.quote = q.amount, !.sellable = Connected]
       \/ UNCHANGED panel
    /\ UNCHANGED <<holder, picked, held, cache, details, deals, chances>>

(*------------------------------- transactions ---------------------------*)
Deal(d, op, amount) ==
    /\ Connected /\ deals[d] = NoDeal /\ (\A e \in Deals : e < d => deals[e] # NoDeal) /\ Chance("signs")
    /\ deals' = [deals EXCEPT ![d] =
          [stage |-> "build", op |-> op, vault |-> panel.vault, addr |-> panel.addr, amount |-> amount, mine |-> TRUE]]
    /\ UNCHANGED <<holder, picked, held, cache, details, quoting>>
RunDeposit(d) ==
    /\ "deposit" \notin panel.busy /\ panel' = [panel EXCEPT !.busy = @ \union {"deposit"}]
    /\ Deal(d, "deposit", <<"entered">>)
(* An amount that reaches the balance in `vs` is cut to just below it.     *)
RunWithdraw(d) ==
    /\ "withdraw" \notin panel.busy /\ panel' = [panel EXCEPT !.busy = @ \union {"withdraw"}]
    /\ \/ Deal(d, "withdraw", <<"entered">>)
       \/ held.vault # Zero /\ Deal(d, "withdraw", held.vault)
(* The button follows the health factor among the statistics.              *)
RunRebalance(d) ==
    /\ panel.stats \in Vaults /\ "rebalance" \notin panel.busy
    /\ panel' = [panel EXCEPT !.busy = @ \union {"rebalance"}]
    /\ Deal(d, "rebalance", <<>>)
RunSell(d) ==
    /\ panel.sellable /\ panel.quote # 0
    /\ panel' = [panel EXCEPT !.sellable = FALSE]
    /\ Deal(d, "sell", <<panel.quote>>)
(* Simulated, then signed by the wallet of that moment, then polled.       *)
Advance(d) ==
    /\ \/ deals[d].stage = "build" /\ deals' = [deals EXCEPT ![d].stage = "sign"]
       \/ /\ deals[d].stage = "sign" /\ holder = deals[d].addr
          /\ deals' = [deals EXCEPT ![d].stage = "sent"]
    /\ UNCHANGED <<holder, picked, held, cache, details, panel, quoting, chances>>
(* The buttons of its own panel are released; the others are gone.         *)
DealFails(d) ==
    /\ deals[d] # NoDeal /\ deals' = [deals EXCEPT ![d] = NoDeal]
    /\ panel' = IF ~deals[d].mine THEN panel
                ELSE IF deals[d].op = "sell" THEN [panel EXCEPT !.sellable = panel.quote # 0]
                ELSE [panel EXCEPT !.busy = @ \ {deals[d].op}]
    /\ UNCHANGED <<holder, picked, held, cache, details, quoting, chances>>
(* The screen loads the vault selected by then.                            *)
DealConfirmed(d) ==
    /\ deals[d].stage = "sent"
    /\ LoadDetail(picked, [deals EXCEPT ![d] = NoDeal])
    /\ UNCHANGED <<holder, picked, held, cache, chances>>

DeskNext ==
    \/ \E v \in Vaults : PickVault(v)
    \/ \E a \in Holders \union {Nobody} : SwitchHolder(a)
    \/ \E l \in Details : GotStats(l) \/ GotWallet(l) \/ GotEquity(l)
    \/ \E n \in Shares : EditSale(n) \/ SellMax(n)
    \/ QuoteTimer \/ \E q \in quoting : QuoteArrives(q)
    \/ \E d \in Deals : \/ RunDeposit(d) \/ RunWithdraw(d) \/ RunRebalance(d) \/ RunSell(d)
                        \/ Advance(d) \/ DealFails(d) \/ DealConfirmed(d)
DeskSpec == DeskInit /\ [][DeskNext]_deskVars

-----------------------------------------------------------------------------
(* Whatever arrives in whatever order, the statistics next to a vault's    *)
(* name, which its Rebalance button and its health preview follow, are     *)
(* that vault's (loadDetail, renderDetail).                                *)
StatsAreOfVault == panel.stats \in Vaults => panel.stats = panel.vault /\ panel.vault = picked

(* The quote a sale would be signed with is for the amount in the field,   *)
(* unless the field has changed and its timer is running (refreshQuote).   *)
QuoteIsOnScreen == panel.quote # 0 => panel.quote = panel.field \/ panel.timer
=============================================================================

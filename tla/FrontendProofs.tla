---------------------------- MODULE FrontendProofs ----------------------------
(***************************************************************************)
(* What the screens that move money show, for every set of vaults, assets, *)
(* amounts and accounts, and every order in which the user, the timers and *)
(* the answers of the network take their turns.                            *)
(***************************************************************************)
EXTENDS TradeDesk, VaultDesk, SwapDesk, TLAPS

(*------------------------------ the vault screen ------------------------*)
People == Holders \union {Nobody}
StatsOf == Vaults \union {"absent", "null"}
SaleAmounts == Shares \union {0}
Panels == [vault : Vaults, addr : People, stats : StatsOf, field : SaleAmounts, timer : BOOLEAN,
           quote : SaleAmounts, sellable : BOOLEAN, busy : SUBSET {"deposit", "withdraw", "rebalance", "sell"}]
DetailCalls == {NoDetail} \union
               [stage : {"stats", "wallet", "equity"}, vault : Vaults, addr : People]

DeskTypeOK ==
    /\ holder \in People /\ picked \in Vaults
    /\ cache \in [Vaults -> StatsOf]
    /\ details \in [Details -> DetailCalls]
    /\ panel \in Panels
    /\ quoting \in SUBSET [amount : SaleAmounts, newest : BOOLEAN]
    /\ DOMAIN deals = Deals

(* What is filed under a vault, and shown next to its name, is that vault's. *)
FiledRight == \A v \in Vaults : cache[v] \in {v, "absent", "null"}
ShownRight == panel.vault = picked /\ panel.stats \in {panel.vault, "absent", "null"}
(* The call that was not superseded asks for the amount in the field.      *)
AskedRight ==
    /\ \A q \in quoting : q.newest => q.amount = panel.field \/ panel.timer
    /\ QuoteIsOnScreen
DeskInv == DeskTypeOK /\ FiledRight /\ ShownRight /\ AskedRight

(* A panel that is rendered anew from what is filed starts without quotes. *)
LEMMA RenderFits ==
    ASSUME NEW v \in Vaults, NEW stats \in {v, "absent", "null"}, NEW ds, holder \in People,
           Render(v, stats, ds), picked' = v
    PROVE  /\ panel' \in Panels /\ DOMAIN deals' = Deals
           /\ quoting' \in SUBSET [amount : SaleAmounts, newest : BOOLEAN]
           /\ ShownRight' /\ AskedRight'
<1>1. panel' = Panel(v, stats) /\ quoting' = {} /\ deals' = Deserted(ds)
  BY DEF Render
<1>2. panel' \in Panels /\ panel'.vault = v /\ panel'.stats = stats /\ panel'.quote = 0
  BY <1>1 DEF Panel, Panels, StatsOf, SaleAmounts
<1> QED BY <1>1, <1>2 DEF Deserted, ShownRight, AskedRight, QuoteIsOnScreen

LEMMA LoadFits ==
    ASSUME DeskInv, NEW v \in Vaults, NEW ds, LoadDetail(v, ds), picked' = v,
           UNCHANGED <<holder, cache>>
    PROVE  DeskInv'
<1>1. PICK l \in Details : details' = [details EXCEPT ![l] = [stage |-> "stats", vault |-> v, addr |-> holder]]
  BY DEF LoadDetail
<1>2. details' \in [Details -> DetailCalls]
  BY <1>1 DEF DeskInv, DeskTypeOK, DetailCalls
<1>3. Render(v, cache[v], ds) /\ cache[v] \in {v, "absent", "null"} /\ holder \in People
  BY DEF LoadDetail, DeskInv, FiledRight, DeskTypeOK
<1>4. /\ panel' \in Panels /\ DOMAIN deals' = Deals
      /\ quoting' \in SUBSET [amount : SaleAmounts, newest : BOOLEAN]
      /\ ShownRight' /\ AskedRight'
  BY <1>3, RenderFits
<1> QED BY <1>2, <1>4 DEF DeskInv, DeskTypeOK, FiledRight

(* What arrives is filed under the vault it was asked for.                 *)
LEMMA StatsFit ==
    ASSUME DeskInv, NEW l \in Details, GotStats(l)
    PROVE  DeskInv'
<1> DEFINE v == details[l].vault
<1>1. v \in Vaults
  BY DEF GotStats, DeskInv, DeskTypeOK, DetailCalls, NoDetail
<1>2. PICK stats \in {v, "null"} : cache' = [cache EXCEPT ![v] = stats]
  BY DEF GotStats
<1>3. cache' \in [Vaults -> StatsOf] /\ FiledRight'
  BY <1>1, <1>2 DEF DeskInv, DeskTypeOK, FiledRight, StatsOf
<1>4. UNCHANGED <<holder, picked>>
  BY DEF GotStats
<1>5. details' \in [Details -> DetailCalls]
  <2>1. details[l] \in [stage : {"stats", "wallet", "equity"}, vault : Vaults, addr : People]
    BY DEF GotStats, DeskInv, DeskTypeOK, DetailCalls, NoDetail
  <2>2. details' = [details EXCEPT ![l] = NoDetail] \/ details' = [details EXCEPT ![l].stage = "wallet"]
    BY DEF GotStats
  <2>3. [details[l] EXCEPT !.stage = "wallet"] \in DetailCalls
    BY <2>1 DEF DetailCalls
  <2> QED BY <2>2, <2>3 DEF DeskInv, DeskTypeOK, DetailCalls
<1>6. CASE Render(picked, cache'[picked], deals)
  <2>1. cache'[picked] \in {picked, "absent", "null"} /\ picked \in Vaults /\ holder \in People /\ picked' = picked
    BY <1>3, <1>4 DEF DeskInv, DeskTypeOK, FiledRight
  <2>2. /\ panel' \in Panels /\ DOMAIN deals' = Deals
        /\ quoting' \in SUBSET [amount : SaleAmounts, newest : BOOLEAN]
        /\ ShownRight' /\ AskedRight'
    BY <1>6, <2>1, RenderFits
  <2> QED BY <1>3, <1>4, <1>5, <2>2 DEF DeskInv, DeskTypeOK
<1>7. CASE UNCHANGED <<panel, quoting, deals>>
  BY <1>3, <1>4, <1>5, <1>7 DEF DeskInv, DeskTypeOK, ShownRight, AskedRight, QuoteIsOnScreen
<1> QED BY <1>6, <1>7 DEF GotStats

LEMMA BalancesFit ==
    ASSUME DeskInv, NEW l \in Details, GotWallet(l) \/ GotEquity(l)
    PROVE  DeskInv'
<1>1. details[l] \in [stage : {"stats", "wallet", "equity"}, vault : Vaults, addr : People]
  BY DEF GotWallet, GotEquity, DeskInv, DeskTypeOK, DetailCalls, NoDetail
<1>2. CASE GotWallet(l)
  <2>1. [details[l] EXCEPT !.stage = "equity"] \in DetailCalls
    BY <1>1 DEF DetailCalls
  <2>2. details' \in [Details -> DetailCalls]
    BY <1>2, <2>1 DEF GotWallet, DeskInv, DeskTypeOK
  <2> QED BY <1>2, <2>2 DEF GotWallet, DeskInv, DeskTypeOK, FiledRight, ShownRight, AskedRight, QuoteIsOnScreen
<1>3. CASE GotEquity(l)
  <2>1. Render(picked, cache[picked], deals) /\ UNCHANGED <<holder, picked, cache>>
    BY <1>3 DEF GotEquity, Rendered
  <2>2. details' \in [Details -> DetailCalls]
    BY <1>3 DEF GotEquity, Rendered, DeskInv, DeskTypeOK, DetailCalls
  <2>3. cache[picked] \in {picked, "absent", "null"} /\ picked \in Vaults /\ holder \in People
    BY DEF DeskInv, DeskTypeOK, FiledRight
  <2>4. /\ panel' \in Panels /\ DOMAIN deals' = Deals
        /\ quoting' \in SUBSET [amount : SaleAmounts, newest : BOOLEAN]
        /\ ShownRight' /\ AskedRight'
    BY <2>1, <2>3, RenderFits
  <2> QED BY <2>1, <2>2, <2>4 DEF DeskInv, DeskTypeOK, FiledRight
<1> QED BY <1>2, <1>3

(* A new quote is asked for the amount that is in the field, and supersedes. *)
LEMMA RefreshFits ==
    ASSUME DeskInv, NEW p \in Panels, p.vault = panel.vault, p.stats = panel.stats, RefreshQuote(p),
           UNCHANGED <<holder, picked, cache, details, deals>>
    PROVE  DeskInv'
<1>1. panel' \in Panels /\ panel'.field = p.field /\ panel'.quote = 0
      /\ panel'.vault = p.vault /\ panel'.stats = p.stats
  BY DEF RefreshQuote, Panels, SaleAmounts
<1> DEFINE Old == {[q EXCEPT !.newest = FALSE] : q \in quoting}
<1>2. \A q \in Old : q \in [amount : SaleAmounts, newest : BOOLEAN] /\ ~q.newest
  BY DEF DeskInv, DeskTypeOK
<1>3. \A q \in quoting' : q \in Old \/ q = [amount |-> p.field, newest |-> TRUE]
  BY DEF RefreshQuote
<1> HIDE DEF Old
<1>4. quoting' \in SUBSET [amount : SaleAmounts, newest : BOOLEAN]
  <2>1. p.field \in SaleAmounts
    BY DEF Panels
  <2>2. [amount |-> p.field, newest |-> TRUE] \in [amount : SaleAmounts, newest : BOOLEAN]
    BY <2>1
  <2> QED BY <1>2, <1>3, <2>2
<1>5. \A q \in quoting' : q.newest => q.amount = panel'.field
  BY <1>1, <1>2, <1>3
<1>6. AskedRight'
  BY <1>1, <1>5 DEF AskedRight, QuoteIsOnScreen
<1>7. ShownRight'
  BY <1>1 DEF DeskInv, ShownRight
<1> QED BY <1>1, <1>4, <1>6, <1>7 DEF DeskInv, DeskTypeOK, FiledRight

LEMMA SaleFits ==
    ASSUME DeskInv,
           \/ \E n \in Shares : EditSale(n) \/ SellMax(n)
           \/ QuoteTimer
           \/ \E q \in quoting : QuoteArrives(q)
    PROVE  DeskInv'
<1>1. panel \in Panels
  BY DEF DeskInv, DeskTypeOK
<1>2. ASSUME NEW n \in Shares, EditSale(n) PROVE DeskInv'
  <2>1. panel' \in Panels /\ panel'.timer /\ panel'.vault = panel.vault /\ panel'.stats = panel.stats
    BY <1>1, <1>2 DEF EditSale, Panels, SaleAmounts
  <2> QED BY <1>2, <2>1 DEF EditSale, DeskInv, DeskTypeOK, FiledRight, ShownRight, AskedRight, QuoteIsOnScreen
<1>3. ASSUME NEW n \in Shares, SellMax(n) PROVE DeskInv'
  <2> DEFINE p == [panel EXCEPT !.field = n]
  <2>1. p \in Panels /\ p.vault = panel.vault /\ p.stats = panel.stats
    BY <1>1 DEF Panels, SaleAmounts
  <2>2. RefreshQuote(p) /\ UNCHANGED <<holder, picked, cache, details, deals>>
    BY <1>3 DEF SellMax
  <2> HIDE DEF p
  <2> QED BY <2>1, <2>2, RefreshFits
<1>4. CASE QuoteTimer
  <2> DEFINE p == [panel EXCEPT !.timer = FALSE]
  <2>1. p \in Panels /\ p.vault = panel.vault /\ p.stats = panel.stats
    BY <1>1 DEF Panels
  <2>2. RefreshQuote(p) /\ UNCHANGED <<holder, picked, cache, details, deals>>
    BY <1>4 DEF QuoteTimer
  <2> HIDE DEF p
  <2> QED BY <2>1, <2>2, RefreshFits
<1>5. ASSUME NEW q \in quoting, QuoteArrives(q) PROVE DeskInv'
  <2>1. q.amount \in SaleAmounts /\ Connected \in BOOLEAN
    BY DEF DeskInv, DeskTypeOK, Connected
  <2>2. UNCHANGED <<holder, picked, cache, details, deals>> /\ quoting' = quoting \ {q}
    BY <1>5 DEF QuoteArrives
  <2>3. CASE q.newest /\ panel' = [panel EXCEPT !.quote = q.amount, !.sellable = Connected]
    <3>1. /\ panel' \in Panels /\ panel'.quote = q.amount /\ panel'.field = panel.field
          /\ panel'.timer = panel.timer /\ panel'.vault = panel.vault /\ panel'.stats = panel.stats
      BY <1>1, <2>1, <2>3 DEF Panels
    <3> QED BY <2>2, <2>3, <3>1 DEF DeskInv, DeskTypeOK, FiledRight, ShownRight, AskedRight, QuoteIsOnScreen
  <2>4. CASE UNCHANGED panel
    BY <2>2, <2>4 DEF DeskInv, DeskTypeOK, FiledRight, ShownRight, AskedRight, QuoteIsOnScreen
  <2> QED BY <1>5, <2>3, <2>4 DEF QuoteArrives
<1> QED BY <1>2, <1>3, <1>4, <1>5

(* A transaction only holds or releases the buttons of its own panel.      *)
LEMMA DealsFit ==
    ASSUME DeskInv, NEW d \in Deals,
           RunDeposit(d) \/ RunWithdraw(d) \/ RunRebalance(d) \/ RunSell(d) \/ Advance(d) \/ DealFails(d)
    PROVE  DeskInv'
<1> DEFINE Kept == /\ panel' \in Panels /\ panel'.quote = panel.quote /\ panel'.field = panel.field
                   /\ panel'.timer = panel.timer /\ panel'.vault = panel.vault /\ panel'.stats = panel.stats
<1>1. panel \in Panels
  BY DEF DeskInv, DeskTypeOK
<1>2. UNCHANGED <<holder, picked, cache, details, quoting>>
  BY DEF RunDeposit, RunWithdraw, RunRebalance, RunSell, Deal, Advance, DealFails
<1>3. DOMAIN deals' = Deals
  BY DEF DeskInv, DeskTypeOK, RunDeposit, RunWithdraw, RunRebalance, RunSell, Deal, Advance, DealFails
<1>4. Kept
  <2>1. CASE RunDeposit(d)
    BY <1>1, <2>1 DEF RunDeposit, Panels
  <2>2. CASE RunWithdraw(d)
    BY <1>1, <2>2 DEF RunWithdraw, Panels
  <2>3. CASE RunRebalance(d)
    BY <1>1, <2>3 DEF RunRebalance, Panels
  <2>4. CASE RunSell(d)
    BY <1>1, <2>4 DEF RunSell, Panels
  <2>5. CASE Advance(d)
    BY <1>1, <2>5 DEF Advance
  <2>6. CASE DealFails(d)
    <3>1. (panel.quote # 0) \in BOOLEAN
      OBVIOUS
    <3>2. \/ panel' = panel \/ panel' = [panel EXCEPT !.sellable = panel.quote # 0]
          \/ panel' = [panel EXCEPT !.busy = @ \ {deals[d].op}]
      BY <2>6 DEF DealFails
    <3> QED BY <1>1, <3>1, <3>2 DEF Panels
  <2> QED BY <2>1, <2>2, <2>3, <2>4, <2>5, <2>6
<1> QED BY <1>2, <1>3, <1>4 DEF DeskInv, DeskTypeOK, FiledRight, ShownRight, AskedRight, QuoteIsOnScreen

LEMMA DeskStep == DeskInv /\ [DeskNext]_deskVars => DeskInv'
<1> SUFFICES ASSUME DeskInv, [DeskNext]_deskVars PROVE DeskInv'
  OBVIOUS
<1>1. ASSUME NEW v \in Vaults, PickVault(v) PROVE DeskInv'
  <2>1. LoadDetail(v, deals) /\ picked' = v /\ UNCHANGED <<holder, cache>>
    BY <1>1 DEF PickVault
  <2> QED BY <2>1, LoadFits
<1>2. ASSUME NEW a \in People, SwitchHolder(a) PROVE DeskInv'
  BY <1>2 DEF SwitchHolder, DeskInv, DeskTypeOK, FiledRight, ShownRight, AskedRight, QuoteIsOnScreen
<1>3. ASSUME NEW l \in Details, GotStats(l) \/ GotWallet(l) \/ GotEquity(l) PROVE DeskInv'
  BY <1>3, StatsFit, BalancesFit
<1>4. CASE \/ \E n \in Shares : EditSale(n) \/ SellMax(n)
           \/ QuoteTimer \/ \E q \in quoting : QuoteArrives(q)
  BY <1>4, SaleFits
<1>5. ASSUME NEW d \in Deals,
             RunDeposit(d) \/ RunWithdraw(d) \/ RunRebalance(d) \/ RunSell(d) \/ Advance(d) \/ DealFails(d)
      PROVE  DeskInv'
  BY <1>5, DealsFit
<1>6. ASSUME NEW d \in Deals, DealConfirmed(d) PROVE DeskInv'
  <2>1. LoadDetail(picked, [deals EXCEPT ![d] = NoDeal]) /\ UNCHANGED <<holder, picked, cache>>
    BY <1>6 DEF DealConfirmed
  <2>2. picked \in Vaults
    BY DEF DeskInv, DeskTypeOK
  <2> QED BY <2>1, <2>2, LoadFits
<1>7. CASE UNCHANGED deskVars
  BY <1>7 DEF deskVars, DeskInv, DeskTypeOK, FiledRight, ShownRight, AskedRight, QuoteIsOnScreen
<1> QED BY <1>1, <1>2, <1>3, <1>4, <1>5, <1>6, <1>7 DEF DeskNext, People

LEMMA DeskStart == DeskInit => DeskInv
<1> SUFFICES ASSUME DeskInit PROVE DeskInv
  OBVIOUS
<1>1. panel \in Panels /\ panel.quote = 0 /\ panel.vault = picked /\ panel.stats = "absent"
  BY DEF DeskInit, Panel, Panels, People, StatsOf, SaleAmounts
<1>2. details \in [Details -> DetailCalls]
  BY DEF DeskInit, DetailCalls, People
<1>3. cache \in [Vaults -> StatsOf] /\ FiledRight
  BY DEF DeskInit, StatsOf, FiledRight
<1> QED BY <1>1, <1>2, <1>3 DEF DeskInit, DeskInv, DeskTypeOK, People, ShownRight, AskedRight, QuoteIsOnScreen

(* The statistics next to a vault's name are that vault's, however often   *)
(* it is changed while they are on their way.                              *)
THEOREM StatsAreOfVaultAlways == DeskSpec => []StatsAreOfVault
<1>1. DeskInv => StatsAreOfVault
  BY VaultDeskAssumption DEF DeskInv, ShownRight, StatsAreOfVault
<1> QED BY <1>1, DeskStart, DeskStep, PTL DEF DeskSpec

(* A sale is signed with a quote for the amount in the field, or the timer *)
(* that asks for a new one is running.                                     *)
THEOREM QuoteIsOnScreenAlways == DeskSpec => []QuoteIsOnScreen
<1>1. DeskInv => QuoteIsOnScreen
  BY DEF DeskInv, AskedRight
<1> QED BY <1>1, DeskStart, DeskStep, PTL DEF DeskSpec

(*------------------------------- the swap screen ------------------------*)
Assets == Fallback \union Rated \union {XLM, USDC}
Entered == Sizes \union {0}
Quotes == [sell : Assets, buy : Assets, amount : Entered]
Forms == [sell : Assets, buy : Assets, amount : Entered, quote : Quotes, timer : BOOLEAN, executing : BOOLEAN]
Stages == {"recover", "open", "sign", "fund", "trade", "finalize", "refund"}
Live == [stage : Stages, mine : BOOLEAN, try : 0..(Tries - 1)]
Stopped == {NoSession, Gone} \union {Owed(n) : n \in 1..Tries}

SwapTypeOK ==
    /\ form \in Forms
    /\ asked \in SUBSET Quotes
    /\ listed \in BOOLEAN
    /\ session \in [Sessions -> Stopped \union Live]
    /\ mediator \in [Sessions -> {"none", "sent", "funded", "merged"}]
    /\ record \in [Sessions -> {"no", "kept", "wiped"}]
    /\ left \in [Kinds -> Nat]

(* An account that may hold money has a record, if no recovery wiped it;   *)
(* and one exists before the wallet is asked to fund the account.          *)
FundedIsOnRecord ==
    \A s \in Sessions :
        /\ mediator[s] \in {"sent", "funded"} \/ session[s].stage = "sign" => record[s] # "no"
        /\ session[s].stage \in {"recover", "open", "sign"} => mediator[s] = "none"
SwapInv == SwapTypeOK /\ FundedIsOnRecord /\ QuoteIsForInputs
FormVars == <<form, asked, listed>>
MoneyVars == <<session, mediator, record>>
FormOK == form \in Forms /\ asked \in SUBSET Quotes /\ listed \in BOOLEAN /\ QuoteIsForInputs
MoneyOK == /\ session \in [Sessions -> Stopped \union Live]
           /\ mediator \in [Sessions -> {"none", "sent", "funded", "merged"}]
           /\ record \in [Sessions -> {"no", "kept", "wiped"}]
           /\ FundedIsOnRecord
LeftOK == left \in [Kinds -> Nat]

LEMMA InvSplits == (SwapInv <=> FormOK /\ MoneyOK /\ LeftOK) /\ (SwapInv' <=> FormOK' /\ MoneyOK' /\ LeftOK')
BY DEF SwapInv, SwapTypeOK, FormOK, MoneyOK, LeftOK

LEMMA FormSame == ASSUME FormOK, UNCHANGED FormVars PROVE FormOK'
BY DEF FormOK, FormVars, QuoteIsForInputs
LEMMA MoneySame == ASSUME MoneyOK, UNCHANGED MoneyVars PROVE MoneyOK'
BY DEF MoneyOK, MoneyVars, FundedIsOnRecord

LEMMA EditFits ==
    ASSUME FormOK, NEW f \in Forms, Edited(f), UNCHANGED <<asked, listed>>
    PROVE  FormOK'
<1>1. NoQuote \in Quotes
  BY DEF NoQuote, Quotes, Assets, Entered
<1>2. form' \in Forms /\ form'.quote = NoQuote
  BY <1>1 DEF Edited, Forms
<1> QED BY <1>2 DEF FormOK, QuoteIsForInputs

LEMMA FormStepFits ==
    ASSUME FormOK, EditForm \/ FetchQuote \/ Repopulate \/ \E q \in asked : Quoted(q)
    PROVE  FormOK'
<1>0. form \in Forms /\ NoQuote \in Quotes /\ Listing \subseteq Assets
  BY DEF FormOK, NoQuote, Quotes, Assets, Entered, Listing
<1>1. CASE EditForm
  <2>1. PICK f \in Forms : Edited(f)
    <3>1. ASSUME NEW n \in Sizes PROVE [form EXCEPT !.amount = n] \in Forms
      BY <1>0 DEF Forms, Entered
    <3>2. ASSUME NEW a \in Assets PROVE [form EXCEPT !.sell = a] \in Forms /\ [form EXCEPT !.buy = a] \in Forms
      BY <1>0 DEF Forms
    <3>3. [form EXCEPT !.sell = form.buy, !.buy = form.sell] \in Forms
      BY <1>0 DEF Forms
    <3> QED BY <1>0, <1>1, <3>1, <3>2, <3>3 DEF EditForm
  <2> QED BY <1>1, <2>1, EditFits DEF EditForm
<1>2. CASE FetchQuote
  <2>1. /\ form' \in Forms /\ form'.sell = form.sell /\ form'.buy = form.buy /\ form'.amount = form.amount
        /\ form'.quote \in {form.quote, NoQuote}
    BY <1>0, <1>2 DEF FetchQuote, Forms
  <2>2. Inputs \in Quotes
    BY <1>0 DEF Inputs, Forms, Quotes
  <2> QED BY <1>2, <2>1, <2>2 DEF FetchQuote, FormOK, QuoteIsForInputs
<1>3. CASE Repopulate
  <2> DEFINE sell == IF form.sell \in Rated THEN form.sell ELSE XLM
             keep == form.buy \in Rated /\ form.buy # sell
  <2>1. form' = [form EXCEPT !.sell = sell, !.buy = IF keep THEN @ ELSE USDC,
                             !.quote = IF keep THEN @ ELSE NoQuote]
        /\ listed' = TRUE /\ ~listed /\ asked' = asked
    BY <1>3 DEF Repopulate
  <2>2. sell \in Assets /\ USDC \in Assets /\ (sell = form.sell \/ (form.sell \notin Rated /\ sell = XLM))
    BY <1>0 DEF Assets, Forms
  <2> HIDE DEF sell, keep
  <2>3. /\ form' \in Forms /\ form'.sell = sell /\ form'.amount = form.amount
        /\ \/ keep /\ form'.buy = form.buy /\ form'.quote = form.quote
           \/ form'.quote = NoQuote
    BY <1>0, <2>1, <2>2 DEF Forms
  <2> QED BY <2>1, <2>2, <2>3 DEF FormOK, QuoteIsForInputs
<1>4. ASSUME NEW q \in asked, Quoted(q) PROVE FormOK'
  <2>1. q \in Quotes /\ asked' \subseteq asked /\ listed' = listed
    BY <1>4 DEF FormOK, Quoted
  <2>2. \/ form' = form
        \/ q = Inputs /\ form' = [form EXCEPT !.quote = q]
        \/ form' = [form EXCEPT !.quote = NoQuote]
    BY <1>4 DEF Quoted
  <2>3. CASE form' = form
    BY <2>1, <2>3 DEF FormOK, QuoteIsForInputs
  <2>4. CASE q = Inputs /\ form' = [form EXCEPT !.quote = q]
    <3>1. form' \in Forms /\ form'.quote = q /\ form'.buy = form.buy /\ form'.sell = form.sell /\ form'.amount = form.amount
      BY <1>0, <2>1, <2>4 DEF Forms
    <3> QED BY <2>1, <2>4, <3>1 DEF FormOK, QuoteIsForInputs, Inputs
  <2>5. CASE form' = [form EXCEPT !.quote = NoQuote]
    <3>1. form' \in Forms /\ form'.quote = NoQuote
      BY <1>0, <2>5 DEF Forms
    <3> QED BY <2>1, <3>1 DEF FormOK, QuoteIsForInputs
  <2> QED BY <2>2, <2>3, <2>4, <2>5
<1> QED BY <1>1, <1>2, <1>3, <1>4

(* A swap holds the form while it runs, and may drop its quote at the end. *)
LEMMA HoldFits ==
    ASSUME FormOK, NEW e \in BOOLEAN, NEW q \in {form.quote, NoQuote},
           form' = [form EXCEPT !.executing = e, !.quote = q], UNCHANGED <<asked, listed>>
    PROVE  FormOK'
<1>1. NoQuote \in Quotes
  BY DEF NoQuote, Quotes, Assets, Entered
<1>2. /\ form' \in Forms /\ form'.quote = q /\ form'.buy = form.buy /\ form'.sell = form.sell
      /\ form'.amount = form.amount
  BY <1>1 DEF FormOK, Forms
<1> QED BY <1>2 DEF FormOK, QuoteIsForInputs

LEMMA EndFits ==
    ASSUME FormOK, NEW s \in Sessions, NEW end, SwapEnds(s, end), UNCHANGED <<asked, listed>>
    PROVE  FormOK'
<1>1. form \in [sell : Assets, buy : Assets, amount : Entered, quote : Quotes, timer : BOOLEAN, executing : BOOLEAN]
  BY DEF FormOK, Forms
<1>2. CASE form' = form
  BY <1>2, FormSame DEF FormVars
<1>3. CASE form' = [form EXCEPT !.executing = FALSE,
                                !.quote = IF session[s].stage = "finalize" THEN NoQuote ELSE @]
  BY <1>3, HoldFits
<1> QED BY <1>2, <1>3 DEF SwapEnds

LEMMA SessionFits ==
    ASSUME FormOK, NEW s \in Sessions, SessionStep(s)
    PROVE  FormOK'
<1>1. CASE ExecuteSwap(s)
  <2>1. form' = [form EXCEPT !.executing = TRUE] /\ UNCHANGED <<asked, listed>>
    BY <1>1 DEF ExecuteSwap, Enters
  <2>2. form' = [form EXCEPT !.executing = TRUE, !.quote = form.quote]
    BY <2>1 DEF FormOK, Forms
  <2> QED BY <2>1, <2>2, HoldFits
<1>2. CASE Recover(s) \/ RecoverThrows(s)
  BY <1>2, FormSame DEF Recover, RecoverThrows, FormVars
<1>3. CASE OpenRecord(s) \/ SubmitFunding(s) \/ FundingLands(s) \/ Funded(s) \/ TradeEnds(s) \/ Merge(s)
  BY <1>3, FormSame DEF OpenRecord, SubmitFunding, FundingLands, Funded, TradeEnds, Merge, FormVars
<1>4. CASE RefuseFunding(s) \/ FundingThrows(s)
  BY <1>4, EndFits DEF RefuseFunding, FundingThrows
<1>5. CASE DisposeDone(s)
  BY <1>5, EndFits DEF DisposeDone
<1>6. CASE DisposeFails(s)
  <2>1. UNCHANGED <<asked, listed>>
    BY <1>6 DEF DisposeFails
  <2>2. (UNCHANGED form) \/ SwapEnds(s, Owed(session[s].try + 1))
    BY <1>6 DEF DisposeFails
  <2> QED BY <2>1, <2>2, FormSame, EndFits DEF FormVars
<1> QED BY <1>1, <1>2, <1>3, <1>4, <1>5, <1>6 DEF SessionStep

(* A step of one session, or of its account, minds its own record.         *)
LEMMA OwnFits ==
    ASSUME MoneyOK, NEW s \in Sessions,
           NEW v \in Stopped \union Live, NEW m \in {"none", "sent", "funded", "merged"},
           NEW k \in {"no", "kept", "wiped"},
           session' = [session EXCEPT ![s] = v], mediator' = [mediator EXCEPT ![s] = m],
           record' = [record EXCEPT ![s] = k],
           m \in {"sent", "funded"} \/ v.stage = "sign" => k # "no",
           v.stage \in {"recover", "open", "sign"} => m = "none"
    PROVE  MoneyOK'
<1>1. /\ session' \in [Sessions -> Stopped \union Live]
      /\ mediator' \in [Sessions -> {"none", "sent", "funded", "merged"}]
      /\ record' \in [Sessions -> {"no", "kept", "wiped"}]
  BY DEF MoneyOK
<1>2. /\ session'[s] = v /\ mediator'[s] = m /\ record'[s] = k
      /\ \A r \in Sessions \ {s} : session'[r] = session[r] /\ mediator'[r] = mediator[r] /\ record'[r] = record[r]
  BY DEF MoneyOK
<1>3. FundedIsOnRecord'
  BY <1>2 DEF MoneyOK, FundedIsOnRecord
<1> QED BY <1>1, <1>3 DEF MoneyOK

(* Recoveries clear the records of accounts that they merge, and wipe those*)
(* of accounts that they do not find.                                      *)
LEMMA RecoveryFits ==
    ASSUME MoneyOK, NEW s \in Sessions, Recover(s) \/ RecoverThrows(s)
    PROVE  MoneyOK'
<1>1. PICK done \in SUBSET Sessions :
          /\ \A r \in done : mediator[r] = "funded"
          /\ Merged(done)
          /\ \/ record' = Cleared(done)
             \/ \E r \in Sessions : record' = [Cleared(done) EXCEPT ![r] = "wiped"]
  <2>1. CASE Recover(s)
    BY <2>1 DEF Recover, OnRecord
  <2>2. CASE RecoverThrows(s)
    BY <2>2 DEF RecoverThrows, OnRecord
  <2> QED BY <2>1, <2>2
<1>2. /\ mediator' \in [Sessions -> {"none", "sent", "funded", "merged"}]
      /\ \A r \in Sessions : mediator'[r] = IF r \in done THEN "merged" ELSE mediator[r]
  BY <1>1 DEF Merged, MoneyOK
<1>3. /\ record' \in [Sessions -> {"no", "kept", "wiped"}]
      /\ \A r \in Sessions \ done : record'[r] # "no" \/ record'[r] = record[r]
  BY <1>1 DEF Cleared, MoneyOK
<1>4. session[s].stage = "recover" /\ session' = [session EXCEPT ![s].stage = "open"]
  BY DEF Recover, RecoverThrows, Stage
<1>5. session[s] \in Live
  BY <1>4 DEF MoneyOK, Stopped, NoSession, Gone, Owed
<1>6. [session[s] EXCEPT !.stage = "open"] \in Live /\ [session[s] EXCEPT !.stage = "open"].stage = "open"
  BY <1>5 DEF Live, Stages
<1>7. /\ session' \in [Sessions -> Stopped \union Live] /\ session'[s].stage = "open"
      /\ \A r \in Sessions \ {s} : session'[r] = session[r]
  BY <1>4, <1>6 DEF MoneyOK
<1>8. ASSUME NEW r \in Sessions
      PROVE  /\ mediator'[r] \in {"sent", "funded"} \/ session'[r].stage = "sign" => record'[r] # "no"
             /\ session'[r].stage \in {"recover", "open", "sign"} => mediator'[r] = "none"
  <2>1. session[r].stage \in {"recover", "open", "sign"} => mediator[r] = "none"
    BY DEF MoneyOK, FundedIsOnRecord
  <2>2. mediator[r] \in {"sent", "funded"} \/ session[r].stage = "sign" => record[r] # "no"
    BY DEF MoneyOK, FundedIsOnRecord
  <2>3. session'[r].stage = session[r].stage \/ (session[r].stage = "recover" /\ session'[r].stage = "open")
    BY <1>4, <1>7
  <2>4. CASE r \in done
    <3>1. mediator[r] = "funded" /\ mediator'[r] = "merged"
      BY <1>1, <1>2, <2>4
    <3> QED BY <2>1, <2>3, <3>1
  <2>5. CASE r \notin done
    BY <1>2, <1>3, <2>1, <2>2, <2>3, <2>5
  <2> QED BY <2>4, <2>5
<1> QED BY <1>2, <1>3, <1>7, <1>8 DEF MoneyOK, FundedIsOnRecord

(* Whatever a session does, its account is on record while it is funded.   *)
LEMMA MoneyFits ==
    ASSUME MoneyOK, NEW s \in Sessions, SessionStep(s)
    PROVE  MoneyOK'
<1> DEFINE Sess == Stopped \union Live
           At(stage) == [session[s] EXCEPT !.stage = stage]
<1>0. /\ session[s] \in Sess /\ NoSession \in Sess /\ NoSession.stage = "none"
      /\ mediator[s] \in {"none", "sent", "funded", "merged"} /\ record[s] \in {"no", "kept", "wiped"}
  BY DEF MoneyOK, Stopped, NoSession
<1>1. session[s].stage \in Stages => session[s] \in Live
  BY <1>0 DEF NoSession, Gone, Owed, Stages, Stopped
<1>2. ASSUME NEW stage \in Stages, session[s].stage \in Stages, Stage(s, stage)
      PROVE  session' = [session EXCEPT ![s] = At(stage)] /\ At(stage) \in Sess /\ At(stage).stage = stage
  BY <1>1, <1>2 DEF Stage, Live
<1>3. /\ session = [session EXCEPT ![s] = session[s]] /\ mediator = [mediator EXCEPT ![s] = mediator[s]]
      /\ record = [record EXCEPT ![s] = record[s]] /\ Cleared({s}) = [record EXCEPT ![s] = "no"]
  BY DEF MoneyOK, Cleared
<1>4. /\ mediator[s] \in {"sent", "funded"} \/ session[s].stage = "sign" => record[s] # "no"
      /\ session[s].stage \in {"recover", "open", "sign"} => mediator[s] = "none"
  BY DEF MoneyOK, FundedIsOnRecord
<1>5. CASE ExecuteSwap(s)
  <2> DEFINE v == [stage |-> "recover", mine |-> TRUE, try |-> 0]
  <2>1. v \in Sess /\ v.stage = "recover"
    BY DEF Live, Stages, Tries
  <2>2. /\ mediator[s] = "none" /\ record' = record /\ mediator' = mediator
        /\ session' = [session EXCEPT ![s] = v]
    BY <1>5 DEF ExecuteSwap, Enters, Free
  <2> HIDE DEF v
  <2> QED BY <1>0, <1>3, <2>1, <2>2, OwnFits
<1>6. CASE Recover(s) \/ RecoverThrows(s)
  BY <1>6, RecoveryFits
<1>7. CASE OpenRecord(s)
  <2>1. /\ session' = [session EXCEPT ![s] = At("sign")] /\ At("sign") \in Sess /\ At("sign").stage = "sign"
        /\ mediator' = mediator /\ mediator[s] = "none" /\ record' = [record EXCEPT ![s] = "kept"]
    BY <1>2, <1>4, <1>7 DEF OpenRecord, Stages
  <2> HIDE DEF At
  <2> QED BY <1>3, <2>1, OwnFits
<1>8. CASE RefuseFunding(s)
  <2>1. /\ session' = [session EXCEPT ![s] = NoSession] /\ mediator' = mediator /\ mediator[s] = "none"
        /\ record' \in {record, Cleared({s})}
    BY <1>4, <1>8 DEF RefuseFunding, SwapEnds
  <2>2. \E k \in {"no", "kept", "wiped"} : record' = [record EXCEPT ![s] = k]
    BY <1>0, <1>3, <2>1
  <2> QED BY <1>0, <1>3, <2>1, <2>2, OwnFits
<1>9. CASE SubmitFunding(s)
  <2>1. /\ session' = [session EXCEPT ![s] = At("fund")] /\ At("fund") \in Sess /\ At("fund").stage = "fund"
        /\ mediator' = [mediator EXCEPT ![s] = "sent"] /\ record' = record /\ record[s] # "no"
    BY <1>2, <1>4, <1>9 DEF SubmitFunding, Stages
  <2> HIDE DEF At
  <2> QED BY <1>0, <1>3, <2>1, OwnFits
<1>10. CASE FundingLands(s)
  <2>1. PICK m \in {"funded", "none"} : mediator' = [mediator EXCEPT ![s] = m]
    BY <1>10 DEF FundingLands
  <2>2. session' = session /\ record' = record /\ mediator[s] = "sent"
    BY <1>10 DEF FundingLands
  <2> QED BY <1>0, <1>3, <1>4, <2>1, <2>2, OwnFits
<1>11. CASE Funded(s) \/ TradeEnds(s)
  <2>1. PICK stage \in {"trade", "finalize", "refund"} :
            Stage(s, stage) /\ session[s].stage \in Stages /\ mediator' = mediator /\ record' = record
    BY <1>11 DEF Funded, TradeEnds, Stages
  <2>2. /\ session' = [session EXCEPT ![s] = At(stage)] /\ At(stage) \in Sess /\ At(stage).stage = stage
    BY <1>2, <2>1 DEF Stages
  <2> HIDE DEF At
  <2> QED BY <1>0, <1>3, <1>4, <2>1, <2>2, OwnFits
<1>12. CASE FundingThrows(s)
  <2>1. /\ session' = [session EXCEPT ![s] = NoSession] /\ mediator' = mediator
        /\ record' = record \/ (mediator[s] = "none" /\ record' = Cleared({s}))
    BY <1>12 DEF FundingThrows, SwapEnds
  <2> QED BY <1>0, <1>3, <1>4, <2>1, OwnFits
<1>13. CASE Merge(s)
  <2>1. mediator' = [mediator EXCEPT ![s] = "merged"] /\ mediator[s] = "funded" /\ session' = session /\ record' = record
    BY <1>13 DEF Merge
  <2> QED BY <1>0, <1>3, <1>4, <2>1, OwnFits
<1>14. CASE DisposeDone(s)
  <2>1. /\ session' = [session EXCEPT ![s] = NoSession] /\ mediator' = mediator /\ mediator[s] = "merged"
        /\ record' = Cleared({s})
    BY <1>14 DEF DisposeDone, SwapEnds
  <2> QED BY <1>0, <1>3, <2>1, OwnFits
<1>15. CASE DisposeFails(s)
  <2>1. session[s] \in Live /\ session[s].stage \in {"finalize", "refund"} /\ session[s].try \in 0..(Tries - 1)
    BY <1>1, <1>15 DEF DisposeFails, Disposing, Stages, Live
  <2>2. mediator' = mediator /\ record' = record
    BY <1>15 DEF DisposeFails
  <2>3. PICK v \in Sess : session' = [session EXCEPT ![s] = v] /\ v.stage \in {"finalize", "refund", "owed"}
    <3> DEFINE tried == session[s].try + 1
    <3>1. CASE tried < Tries
      <4>1. /\ [session[s] EXCEPT !.try = tried] \in Live
            /\ [session[s] EXCEPT !.try = tried].stage = session[s].stage
        BY <2>1, <3>1 DEF Live, Tries
      <4>2. session' = [session EXCEPT ![s] = [session[s] EXCEPT !.try = tried]]
        BY <1>15, <3>1 DEF DisposeFails
      <4> QED BY <2>1, <4>1, <4>2
    <3>2. CASE ~(tried < Tries)
      <4>1. session' = [session EXCEPT ![s] = Owed(tried)]
        BY <1>15, <3>2 DEF DisposeFails, SwapEnds
      <4>2. Owed(tried) \in Sess /\ Owed(tried).stage = "owed"
        <5>1. tried \in 1..Tries
          BY <2>1 DEF Tries
        <5> QED BY <5>1 DEF Stopped, Owed
      <4> QED BY <4>1, <4>2
    <3> QED BY <3>1, <3>2
  <2> QED BY <1>0, <1>3, <1>4, <2>1, <2>2, <2>3, OwnFits
<1> QED BY <1>5, <1>6, <1>7, <1>8, <1>9, <1>10, <1>11, <1>12, <1>13, <1>14, <1>15 DEF SessionStep

(* What may still happen only becomes less.                                *)
LEMMA LeftFits ==
    ASSUME LeftOK, [SwapNext]_swapVars
    PROVE  LeftOK'
<1>1. ASSUME NEW b \in Kinds, Bounded(b) PROVE LeftOK'
  BY <1>1 DEF LeftOK, Bounded
<1>2. CASE left' = left
  BY <1>2 DEF LeftOK
<1>3. \/ left' = left \/ Bounded("edits") \/ Bounded("swaps") \/ Bounded("closings")
      \/ Bounded("remounts") \/ Bounded("failures")
  <2>1. CASE EditForm \/ FetchQuote \/ Repopulate \/ \E q \in asked : Quoted(q)
    BY <2>1 DEF EditForm, FetchQuote, Repopulate, Quoted
  <2>2. ASSUME NEW s \in Sessions, SessionStep(s) PROVE left' = left \/ Bounded("swaps") \/ Bounded("failures")
    BY <2>2 DEF SessionStep, ExecuteSwap, Enters, Recover, RecoverThrows, OpenRecord, RefuseFunding, SubmitFunding,
                FundingLands, Funded, FundingThrows, TradeEnds, Merge, DisposeDone, DisposeFails
  <2>3. CASE Remount \/ CloseTab
    BY <2>3 DEF Remount, CloseTab
  <2>4. CASE UNCHANGED swapVars
    BY <2>4 DEF swapVars
  <2> QED BY <2>1, <2>2, <2>3, <2>4 DEF SwapNext
<1> QED BY <1>1, <1>2, <1>3 DEF Kinds

LEMMA PageFits ==
    ASSUME FormOK, MoneyOK, Remount \/ CloseTab
    PROVE  FormOK' /\ MoneyOK'
<1>1. NewForm \in Forms /\ NewForm.quote = NoQuote
  BY DEF NewForm, NoQuote, Forms, Quotes, Assets, Entered
<1>2. form' = NewForm /\ asked' = {} /\ listed' = FALSE /\ UNCHANGED <<mediator, record>>
  BY DEF Remount, CloseTab
<1>3. FormOK'
  BY <1>1, <1>2 DEF FormOK, QuoteIsForInputs
<1>4. ASSUME NEW s \in Sessions
      PROVE  /\ session'[s] \in Stopped \union Live
             /\ session'[s].stage = session[s].stage \/ session'[s].stage = "gone"
  <2>1. session[s] \in Stopped \union Live
    BY DEF MoneyOK
  <2>2. session[s] \in Live => /\ [session[s] EXCEPT !.mine = FALSE] \in Live
                               /\ [session[s] EXCEPT !.mine = FALSE].stage = session[s].stage
    BY DEF Live
  <2>3. session[s] \in Stopped => Over(s)
    BY DEF Stopped, NoSession, Gone, Owed, Over
  <2>4. Gone \in Stopped /\ Gone.stage = "gone"
    BY DEF Gone, Stopped
  <2> QED BY <2>1, <2>2, <2>3, <2>4 DEF Remount, CloseTab
<1>5. session' \in [Sessions -> Stopped \union Live]
  BY <1>4 DEF Remount, CloseTab
<1>6. FundedIsOnRecord'
  BY <1>2, <1>4 DEF MoneyOK, FundedIsOnRecord
<1> QED BY <1>2, <1>3, <1>5, <1>6 DEF MoneyOK

LEMMA SwapStep == SwapInv /\ [SwapNext]_swapVars => SwapInv'
<1> SUFFICES ASSUME SwapInv, [SwapNext]_swapVars PROVE SwapInv'
  OBVIOUS
<1>0. FormOK /\ MoneyOK /\ LeftOK'
  BY InvSplits, LeftFits
<1>1. CASE EditForm \/ FetchQuote \/ Repopulate \/ \E q \in asked : Quoted(q)
  <2>1. UNCHANGED MoneyVars
    BY <1>1 DEF EditForm, FetchQuote, Repopulate, Quoted, MoneyVars
  <2> QED BY <1>0, <1>1, <2>1, FormStepFits, MoneySame, InvSplits
<1>2. ASSUME NEW s \in Sessions, SessionStep(s) PROVE SwapInv'
  BY <1>0, <1>2, SessionFits, MoneyFits, InvSplits
<1>3. CASE Remount \/ CloseTab
  BY <1>0, <1>3, PageFits, InvSplits
<1>4. CASE UNCHANGED swapVars
  BY <1>0, <1>4, FormSame, MoneySame, InvSplits DEF swapVars, FormVars, MoneyVars
<1> QED BY <1>1, <1>2, <1>3, <1>4 DEF SwapNext

LEMMA SwapStart == SwapInit => SwapInv
<1> SUFFICES ASSUME SwapInit PROVE SwapInv
  OBVIOUS
<1>1. NewForm \in Forms /\ NewForm.quote = NoQuote
  BY DEF NewForm, NoQuote, Forms, Quotes, Assets, Entered
<1>2. MoneyOK
  BY DEF SwapInit, MoneyOK, FundedIsOnRecord, Stopped, NoSession
<1>3. LeftOK
  BY SwapDeskAssumption DEF SwapInit, LeftOK
<1> QED BY <1>1, <1>2, <1>3, InvSplits DEF SwapInit, FormOK, QuoteIsForInputs

(* Only a recovery leads to an account of one's own.  One in which nothing *)
(* failed, with an account to every record, merged them all; and what has  *)
(* money without a record was wiped.                                       *)
LEMMA RecoveryStep ==
    ASSUME SwapInv, [SwapNext]_swapVars, NEW r \in Sessions,
           session[r].stage # "open", session'[r].stage = "open",
           left'.failures = left.failures, \A s \in OnRecord : mediator[s] = "funded",
           NEW s \in Sessions, record[s] # "wiped"
    PROVE  mediator'[s] # "funded"
<1>0. MoneyOK /\ LeftOK /\ session[r] \in Stopped \union Live
  BY InvSplits DEF MoneyOK
<1>1. ~Bounded("failures")
  BY <1>0 DEF Bounded, LeftOK, Kinds
<1>2. PICK q \in Sessions : Recover(q)
  <2>1. \E q \in Sessions : SessionStep(q)
    <3>1. ~UNCHANGED session
      OBVIOUS
    <3>2. ~(EditForm \/ FetchQuote \/ Repopulate \/ \E q \in asked : Quoted(q))
      BY <3>1 DEF EditForm, FetchQuote, Repopulate, Quoted
    <3>3. ~(Remount \/ CloseTab)
      <4>1. session[r] \in Live => [session[r] EXCEPT !.mine = FALSE].stage = session[r].stage
        BY DEF Live
      <4>2. session[r] \in Stopped => Over(r)
        BY DEF Stopped, NoSession, Gone, Owed, Over
      <4>3. CASE Remount
        <5>1. session'[r] = IF Over(r) THEN session[r] ELSE [session[r] EXCEPT !.mine = FALSE]
          BY <4>3 DEF Remount
        <5> QED BY <1>0, <4>1, <4>2, <5>1
      <4>4. CASE CloseTab
        <5>1. session'[r] \in {session[r], Gone}
          BY <4>4 DEF CloseTab
        <5> QED BY <5>1 DEF Gone
      <4> QED BY <4>3, <4>4
    <3> QED BY <3>1, <3>2, <3>3 DEF SwapNext, swapVars
  <2>2. PICK q \in Sessions : SessionStep(q)
    BY <2>1
  <2>3. ~RecoverThrows(q)
    BY <1>1 DEF RecoverThrows
  <2>4. ASSUME NEW v, v.stage # "open", session' = [session EXCEPT ![q] = v] PROVE FALSE
    BY <1>0, <2>4 DEF MoneyOK
  <2>5. ~ExecuteSwap(q)
    BY <2>4 DEF ExecuteSwap, Enters
  <2>6. ASSUME NEW stage \in Stages \ {"open"}, session[q].stage \in Stages, Stage(q, stage) PROVE FALSE
    <3>1. session[q] \in Live
      BY <1>0, <2>6 DEF MoneyOK, Stopped, Stages, NoSession, Gone, Owed
    <3>2. [session[q] EXCEPT !.stage = stage].stage = stage
      BY <3>1 DEF Live
    <3> QED BY <2>4, <2>6, <3>2 DEF Stage
  <2>7. ~(OpenRecord(q) \/ SubmitFunding(q) \/ Funded(q) \/ TradeEnds(q))
    BY <2>6 DEF OpenRecord, SubmitFunding, Funded, TradeEnds, Stages
  <2>8. ~(FundingLands(q) \/ Merge(q))
    BY DEF FundingLands, Merge
  <2>9. ~(RefuseFunding(q) \/ FundingThrows(q) \/ DisposeDone(q))
    BY <2>4 DEF RefuseFunding, FundingThrows, DisposeDone, SwapEnds, NoSession
  <2>10. ~DisposeFails(q)
    BY <1>1 DEF DisposeFails
  <2> QED BY <2>2, <2>3, <2>5, <2>7, <2>8, <2>9, <2>10 DEF SessionStep
<1>3. mediator' = [m \in Sessions |-> IF m \in OnRecord THEN "merged" ELSE mediator[m]]
  BY <1>2 DEF Recover, Merged
<1>4. mediator[s] = "funded" => s \in OnRecord
  BY <1>0 DEF MoneyOK, FundedIsOnRecord, OnRecord
<1> QED BY <1>3, <1>4

(* A swap whose recovery went through leaves no account of an earlier one  *)
(* with money in it, however that one ended and whenever its tab was       *)
(* closed.                                                                 *)
THEOREM FundsRecoveredAlways == SwapSpec => FundsRecovered
<1>1. SwapInv /\ [SwapNext]_swapVars =>
          [\A r \in Sessions :
              /\ session[r].stage # "open" /\ session'[r].stage = "open"
              /\ left'.failures = left.failures /\ \A s \in OnRecord : mediator[s] = "funded"
              => \A s \in Sessions : Over(s) /\ record[s] # "wiped" => mediator'[s] # "funded"]_swapVars
  BY RecoveryStep
<1> QED BY <1>1, SwapStart, SwapStep, PTL DEF SwapSpec, FundsRecovered

(* A quote on screen is for the inputs on screen, however late it arrives, *)
(* but for the one that stays when the list drops the asset to sell.       *)
THEOREM QuoteIsForInputsAlways == SwapSpec => []QuoteIsForInputs
<1>1. SwapInv => QuoteIsForInputs
  BY DEF SwapInv
<1> QED BY <1>1, SwapStart, SwapStep, PTL DEF SwapSpec

(*------------------------ what a list of requests does -------------------*)
(* The two lists that close a position, or the rest of one.                *)
CloseLists == {<<Repay(MAX), Withdraw(MAX)>>, <<Withdraw(MAX)>>}

(* What a list of one request, and of two, comes to.                       *)
LEMMA ApplyOne ==
    ASSUME NEW r, NEW s, NEW q PROVE Apply(r, s, <<q>>) = Applied(r, s, q)
<1> DEFINE f == [n \in 0..1 |-> IF n = 0 THEN s ELSE Applied(r, s, q)]
           F(g) == [n \in 0..Len(<<q>>) |-> IF n = 0 THEN s ELSE Applied(r, g[n - 1], <<q>>[n])]
           h == CHOOSE g : g = F(g)
<1>1. Len(<<q>>) = 1 /\ <<q>>[1] = q
  OBVIOUS
<1>2. f[0] = s /\ f[1] = Applied(r, s, q)
  OBVIOUS
<1>3. f = F(f)
  <2>1. \A n \in 0..1 : n = 0 \/ (n = 1 /\ n - 1 = 0)
    OBVIOUS
  <2> QED BY <1>1, <2>1
<1>4. h = F(h)
  <2> HIDE DEF f, F
  <2> QED BY <1>3
<1>5. h[0] = s /\ h[1] = Applied(r, s, q)
  <2> HIDE DEF h
  <2>1. h[0] = s
    BY <1>4, <1>1
  <2>2. h[1] = Applied(r, h[1 - 1], <<q>>[1])
    BY <1>4, <1>1
  <2> QED BY <2>1, <2>2, <1>1
<1>6. Apply(r, s, <<q>>) = h[Len(<<q>>)]
  BY DEF Apply
<1> QED BY <1>1, <1>5, <1>6

LEMMA ApplyTwo ==
    ASSUME NEW r, NEW s, NEW q1, NEW q2 PROVE Apply(r, s, <<q1, q2>>) = Applied(r, Applied(r, s, q1), q2)
<1> DEFINE two == <<q1, q2>>
           f == [n \in 0..2 |-> IF n = 0 THEN s ELSE IF n = 1 THEN Applied(r, s, q1) ELSE Applied(r, Applied(r, s, q1), q2)]
           F(g) == [n \in 0..Len(two) |-> IF n = 0 THEN s ELSE Applied(r, g[n - 1], two[n])]
           h == CHOOSE g : g = F(g)
<1>1. Len(two) = 2 /\ two[1] = q1 /\ two[2] = q2
  OBVIOUS
<1>2. f[0] = s /\ f[1] = Applied(r, s, q1) /\ f[2] = Applied(r, Applied(r, s, q1), q2)
  OBVIOUS
<1>6. Apply(r, s, two) = h[Len(two)]
  BY DEF Apply
<1> HIDE DEF two
<1>3. f = F(f)
  <2>1. \A n \in 0..2 : n = 0 \/ (n = 1 /\ n - 1 = 0) \/ (n = 2 /\ n - 1 = 1)
    OBVIOUS
  <2>2. ASSUME NEW n \in 0..2 PROVE f[n] = IF n = 0 THEN s ELSE Applied(r, f[n - 1], two[n])
    BY <1>1, <1>2, <2>1
  <2> QED BY <1>1, <2>2
<1>4. h = F(h)
  <2> HIDE DEF f, F
  <2> QED BY <1>3
<1>5. h[0] = s /\ h[1] = Applied(r, s, q1) /\ h[2] = Applied(r, h[1], q2)
  <2> HIDE DEF h
  <2>1. h[0] = s
    BY <1>4, <1>1
  <2>2. h[1] = Applied(r, h[1 - 1], two[1])
    BY <1>4, <1>1
  <2>3. h[2] = Applied(r, h[2 - 1], two[2])
    BY <1>4, <1>1
  <2> QED BY <2>1, <2>2, <2>3, <1>1
<1> QED BY <1>1, <1>5, <1>6 DEF two

LEMMA MaxIsNat == MAX \in Nat
BY SMT DEF MAX

(* What a request to repay, and one to withdraw, moves.                    *)
Account(c, d, n, e) == [col |-> c, debt |-> d, net |-> n, err |-> e]
LEMMA TransferOf ==
    ASSUME NEW c, NEW d, NEW n, NEW e, NEW a
    PROVE  /\ Transferred(Account(c, d, n, e), Repay(a)) = Account(c, d - AtMost(a, d), n + AtMost(a, d), e)
           /\ Transferred(Account(c, d, n, e), Withdraw(a)) = Account(c - AtMost(a, c), d, n - AtMost(a, c), e)
<1> DEFINE s == Account(c, d, n, e)
<1>1. /\ Repay(a)[1] = "repay" /\ Repay(a)[2] = a /\ Withdraw(a)[1] = "withdraw" /\ Withdraw(a)[2] = a
      /\ "repay" # "supply" /\ "repay" # "borrow" /\ "repay" # "withdraw" /\ "withdraw" # "supply" /\ "withdraw" # "borrow"
  BY DEF Repay, Withdraw
<1>2. s.col = c /\ s.debt = d /\ s.net = n
  BY DEF Account
<1>3. ASSUME NEW x, NEW y
      PROVE  /\ [s EXCEPT !.debt = x, !.net = y] = Account(c, x, y, e)
             /\ [s EXCEPT !.col = x, !.net = y] = Account(x, d, y, e)
  <2> DEFINE t == [s EXCEPT !.debt = x]
             u == [s EXCEPT !.col = x]
  <2>1. t = Account(c, x, n, e) /\ u = Account(x, d, n, e)
    BY DEF Account
  <2> HIDE DEF s, t, u
  <2>2. [t EXCEPT !.net = y] = Account(c, x, y, e)
    BY <2>1 DEF Account
  <2>3. [u EXCEPT !.net = y] = Account(x, d, y, e)
    BY <2>1 DEF Account
  <2> QED BY Zenon, <2>2, <2>3 DEF t, u
<1> HIDE DEF s
<1>4. Transferred(s, Repay(a)) = [s EXCEPT !.debt = s.debt - AtMost(a, s.debt), !.net = s.net + AtMost(a, s.debt)]
  BY Zenon, <1>1 DEF Transferred
<1>5. Transferred(s, Withdraw(a)) = [s EXCEPT !.col = s.col - AtMost(a, s.col), !.net = s.net - AtMost(a, s.col)]
  BY Zenon, <1>1 DEF Transferred
<1>6. Transferred(s, Repay(a)) = Account(c, d - AtMost(a, d), n + AtMost(a, d), e)
  BY Zenon, <1>2, <1>3, <1>4
<1>7. Transferred(s, Withdraw(a)) = Account(c - AtMost(a, c), d, n - AtMost(a, c), e)
  BY Zenon, <1>2, <1>3, <1>5
<1> QED BY <1>6, <1>7 DEF s

(* The same of an account that nothing has gone wrong for.                  *)
Held(c, d, n) == [col |-> c, debt |-> d, net |-> n, err |-> ""]
LEMMA TransferHeld ==
    ASSUME NEW c, NEW d, NEW n, NEW a
    PROVE  /\ Transferred(Held(c, d, n), Repay(a)) = Held(c, d - AtMost(a, d), n + AtMost(a, d))
           /\ Transferred(Held(c, d, n), Withdraw(a)) = Held(c - AtMost(a, c), d, n - AtMost(a, c))
<1> DEFINE e == ""
           paid == AtMost(a, d)
           out == AtMost(a, c)
<1> HIDE DEF e, paid, out
<1>1. Held(c, d, n) = Account(c, d, n, e) /\ Held(c, d - paid, n + paid) = Account(c, d - paid, n + paid, e)
      /\ Held(c - out, d, n - out) = Account(c - out, d, n - out, e)
  BY Zenon DEF Held, Account, e
<1>2. /\ Transferred(Account(c, d, n, e), Repay(a)) = Account(c, d - paid, n + paid, e)
      /\ Transferred(Account(c, d, n, e), Withdraw(a)) = Account(c - out, d, n - out, e)
  <2>1. \A x : /\ Transferred(Account(c, d, n, x), Repay(a)) = Account(c, d - AtMost(a, d), n + AtMost(a, d), x)
               /\ Transferred(Account(c, d, n, x), Withdraw(a)) = Account(c - AtMost(a, c), d, n - AtMost(a, c), x)
    BY TransferOf
  <2> QED BY Zenon, <2>1 DEF paid, out
<1>3. /\ Transferred(Held(c, d, n), Repay(a)) = Held(c, d - paid, n + paid)
      /\ Transferred(Held(c, d, n), Withdraw(a)) = Held(c - out, d, n - out)
  BY Zenon, <1>1, <1>2
<1> QED BY Zenon, <1>3 DEF paid, out

(* An account with a debt and no collateral is not healthy.                *)
LEMMA BareDebt ==
    ASSUME NEW s, NEW cf \in Int, NEW lf \in Int, NEW hf \in Nat, hf > 0,
           s.col = 0, s.debt \in Nat, HealthAtLeast(s, cf, lf, hf)
    PROVE  s.debt = 0
<1>1. \A x, y \in Int : 0 * x * y = 0
  BY Z3
<1>2. \A x, y \in Nat : x > 0 /\ 0 >= x * y => y = 0
  BY Z3
<1> DEFINE d == s.debt
<1>3. d = 0 \/ 0 >= hf * d
  BY <1>1 DEF HealthAtLeast
<1>4. d \in Nat
  OBVIOUS
<1> HIDE DEF d
<1>5. d = 0
  BY <1>2, <1>3, <1>4
<1> QED BY <1>5 DEF d

(* All of what there is: repaid, and withdrawn.                            *)
LEMMA RepaysAll ==
    ASSUME NEW r, NEW c, NEW d \in 0..MAX
    PROVE  Applied(r, Held(c, d, 0), Repay(MAX)) = Held(c, 0, d)
<1>1. AtMost(MAX, d) = d /\ d - d = 0 /\ 0 + d = d
  BY MaxIsNat DEF AtMost
<1>2. Transferred(Held(c, d, 0), Repay(MAX)) = Held(c, 0, d)
  BY <1>1, TransferHeld
<1>3. Repay(MAX)[1] = "repay" /\ Held(c, d, 0).err = ""
  BY DEF Repay, Held
<1> QED BY <1>2, <1>3 DEF Applied

LEMMA WithdrawsAll ==
    ASSUME NEW r, NEW c \in 0..MAX, NEW d, NEW n, NEW s, s = Applied(r, Held(c, d, n), Withdraw(MAX))
    PROVE  s.col = 0 /\ s.debt = d /\ DOMAIN s = {"col", "debt", "net", "err"}
<1>1. AtMost(MAX, c) = c /\ c - c = 0
  BY MaxIsNat DEF AtMost
<1>2. Transferred(Held(c, d, n), Withdraw(MAX)) = Held(0, d, n - c)
  BY <1>1, TransferHeld
<1>3. Held(c, d, n).err = ""
  BY DEF Held
<1>4. s = Held(0, d, n - c) \/ s = [Held(0, d, n - c) EXCEPT !.err = "util"]
  BY <1>2, <1>3 DEF Applied
<1> DEFINE m == n - c
<1> HIDE DEF m
<1>5. s = Held(0, d, m) \/ s = [Held(0, d, m) EXCEPT !.err = "util"]
  BY <1>4 DEF m
<1> DEFINE t == Held(0, d, m)
<1>6. t.col = 0 /\ t.debt = d /\ DOMAIN t = {"col", "debt", "net", "err"}
  BY DEF Held
<1> HIDE DEF t
<1>7. s = t \/ s = [t EXCEPT !.err = "util"]
  BY <1>5 DEF t
<1> QED BY <1>6, <1>7

(* A list that closes an account within MAX leaves it no collateral, and a  *)
(* debt only where none was shown.                                         *)
LEMMA CloseApplied ==
    ASSUME NEW r, NEW c \in 0..MAX, NEW d \in 0..MAX, NEW reqs \in CloseLists,
           NEW s, s = Apply(r, Held(c, d, 0), reqs)
    PROVE  s.col = 0 /\ s.debt \in Nat /\ DOMAIN s = {"col", "debt", "net", "err"}
<1>0. 0 \in Nat /\ d \in Nat
  BY MaxIsNat
<1>1. CASE reqs = <<Repay(MAX), Withdraw(MAX)>>
  <2>1. s = Applied(r, Held(c, 0, d), Withdraw(MAX))
    BY <1>1, RepaysAll, ApplyTwo
  <2> QED BY <1>0, <2>1, WithdrawsAll
<1>2. CASE reqs = <<Withdraw(MAX)>>
  <2>1. s = Applied(r, Held(c, d, 0), Withdraw(MAX))
    BY <1>2, ApplyOne
  <2> QED BY <1>0, <2>1, WithdrawsAll
<1> QED BY <1>1, <1>2 DEF CloseLists

(* A close takes an account that is within MAX to nothing, or fails.        *)
LEMMA CloseEmpties ==
    ASSUME NEW r, r.cf \in Int, r.lf \in Int, NEW p \in [col : 0..MAX, debt : 0..MAX], NEW funds,
           NEW reqs \in CloseLists
    PROVE  Submitted(r, p, reqs, funds).err = "" =>
               Submitted(r, p, reqs, funds).col = 0 /\ Submitted(r, p, reqs, funds).debt = 0
<1> DEFINE s == Apply(r, Held(p.col, p.debt, 0), reqs)
           hf == 10000
           Well == HealthAtLeast(s, r.cf, r.lf, hf)
<1>1. s.col = 0 /\ s.debt \in Nat /\ DOMAIN s = {"col", "debt", "net", "err"}
  <2>1. p.col \in 0..MAX /\ p.debt \in 0..MAX
    OBVIOUS
  <2> QED BY <2>1, CloseApplied
<1>2. Well => s.debt = 0
  <2>1. hf \in Nat /\ hf > 0
    BY SMT
  <2> HIDE DEF s, hf
  <2> QED BY <1>1, <2>1, BareDebt
<1> DEFINE out == IF s.err # "" THEN s ELSE IF ~Well THEN [s EXCEPT !.err = "hf"]
                  ELSE IF s.net > funds THEN [s EXCEPT !.err = "funds"] ELSE s
<1>3. Submitted(r, p, reqs, funds) = out
  BY SMT DEF Submitted, Held
<1>4. out.err = "" => out = s /\ Well
  <2> HIDE DEF s, Well
  <2> QED BY <1>1
<1> HIDE DEF s, Well, out
<1> QED BY <1>1, <1>2, <1>3, <1>4

(*------------------------------ the trade screen ------------------------*)
(* A transaction has been polled no longer than it has lived, as far as    *)
(* its age is counted.                                                     *)
TxOK(tx) ==
    \/ tx = NoTx
    \/ /\ {"src", "pool", "age", "asked", "state", "kind", "reqs"} \subseteq DOMAIN tx
       /\ tx.age \in Nat /\ tx.asked \in Nat
       /\ tx.asked <= tx.age \/ tx.age > TxLife(tx.kind)
(* The transaction of a step that closes asks for all there is.            *)
Closing(op, step) == op = "close" /\ step \in {"submit", "withdraw"}
ClosesAll(tx) ==
    \/ tx = NoTx
    \/ tx.src \in Accounts /\ tx.pool \in Pools /\ tx.kind = "submit" /\ tx.reqs \in CloseLists
FlowOK(fl) ==
    \/ fl = Idle
    \/ /\ {"op", "step", "told", "addr", "tx"} \subseteq DOMAIN fl
       /\ fl.op # None /\ fl.told \in {"", "unknown"} /\ fl.addr \in Accounts /\ TxOK(fl.tx)
       /\ Closing(fl.op, fl.step) => ClosesAll(fl.tx)
ScreenOK == user \in Accounts \union {None} /\ "pool" \in DOMAIN ts /\ ts.pool \in Pools
FlowsOK == DOMAIN flows = Flows /\ \A f \in Flows : FlowOK(flows[f])

LEMMA OneFlowFits ==
    ASSUME FlowsOK, NEW f \in Flows, NEW fl, FlowOK(fl), flows' = [flows EXCEPT ![f] = fl]
    PROVE  FlowsOK'
BY DEF FlowsOK

LEMMA IdleFits == FlowOK(Idle) /\ Idle.op = None
BY DEF FlowOK, Idle

LEMMA StepFits ==
    ASSUME NEW fl, FlowOK(fl), fl # Idle, NEW step,
           fl.tx = NoTx \/ step \notin {"submit", "withdraw"}
    PROVE  FlowOK([fl EXCEPT !.step = step])
BY DEF FlowOK, Closing, ClosesAll

LEMMA TxFits ==
    ASSUME NEW fl, FlowOK(fl), fl # Idle, NEW tx, TxOK(tx), Closing(fl.op, fl.step) => ClosesAll(tx)
    PROVE  FlowOK([fl EXCEPT !.tx = tx]) /\ [fl EXCEPT !.tx = tx].told = fl.told
BY DEF FlowOK

LEMMA StateFits ==
    ASSUME NEW tx, TxOK(tx), tx # NoTx, NEW state
    PROVE  TxOK([tx EXCEPT !.state = state]) /\ (ClosesAll(tx) => ClosesAll([tx EXCEPT !.state = state]))
BY DEF TxOK, ClosesAll

LEMMA MarkFits ==
    ASSUME NEW fl, FlowOK(fl), fl # Idle, fl.tx # NoTx, NEW state
    PROVE  FlowOK([fl EXCEPT !.tx.state = state])
<1> DEFINE tx == [fl.tx EXCEPT !.state = state]
<1>1. TxOK(fl.tx) /\ (Closing(fl.op, fl.step) => ClosesAll(fl.tx))
  BY DEF FlowOK
<1>2. TxOK(tx) /\ (ClosesAll(fl.tx) => ClosesAll(tx))
  BY <1>1, StateFits
<1> HIDE DEF tx
<1>3. FlowOK([fl EXCEPT !.tx = tx])
  BY <1>1, <1>2, TxFits
<1> QED BY <1>3 DEF tx

(* What is told of a path is final, or the path ends there.                *)
LEMMA EndedFits ==
    ASSUME FlowsOK, NEW f \in Flows, flows[f].op # None, NEW told, Ended(f, told),
           told = "unknown" \/ ~CanLand(flows[f].tx)
    PROVE  FlowsOK'
<1>1. flows[f] # Idle /\ FlowOK(flows[f])
  BY IdleFits DEF FlowsOK
<1>2. CASE CanLand(flows[f].tx)
  <2>1. FlowOK([flows[f] EXCEPT !.told = told])
    BY <1>1, <1>2 DEF FlowOK
  <2>2. flows' = [flows EXCEPT ![f] = [flows[f] EXCEPT !.told = told]]
    BY <1>2 DEF Ended, FlowsOK
  <2> HIDE DEF FlowsOK
  <2> QED BY <2>1, <2>2, OneFlowFits
<1>3. CASE ~CanLand(flows[f].tx)
  <2>1. flows' = [flows EXCEPT ![f] = Idle]
    BY <1>3 DEF Ended, FlowsOK
  <2> QED BY <2>1, IdleFits, OneFlowFits
<1> QED BY <1>2, <1>3

LEMMA FailedFits ==
    ASSUME FlowsOK, NEW f \in Flows, flows[f].op # None, NEW told, Failed(f, told),
           told = "unknown" \/ ~CanLand(flows[f].tx)
    PROVE  FlowsOK'
BY EndedFits DEF Failed

(* The loop that polls gives up only after the transaction has run out.    *)
LEMMA PollsOutlive ==
    ASSUME NEW tx, TxOK(tx), tx # NoTx, ~Classic(tx.kind), tx.asked >= POLLS
    PROVE  ~CanLand(tx)
BY DEF TxOK, TxLife, Classic, POLLS, CanLand

LEMMA OlderFits ==
    ASSUME NEW fl, FlowOK(fl) PROVE FlowOK(Older(fl))
<1> DEFINE tx == [fl.tx EXCEPT !.age = AtMost(@ + 1, TxLife(fl.tx.kind) + 1),
                               !.asked = IF fl.tx.state \in {"sent", "landed", "failed"}
                                         THEN AtMost(@ + 1, POLLS) ELSE @]
<1>1. CASE fl = Idle \/ fl.tx = NoTx
  BY <1>1 DEF Older
<1>2. CASE ~(fl = Idle \/ fl.tx = NoTx)
  <2>1. TxOK(fl.tx) /\ fl.tx # NoTx /\ fl # Idle
    BY <1>2 DEF FlowOK
  <2>2. TxLife(fl.tx.kind) \in {6, 2} /\ fl.tx.age \in Nat /\ fl.tx.asked \in Nat
    BY <2>1 DEF TxOK, TxLife
  <2>3. TxOK(tx)
    BY <2>1, <2>2 DEF TxOK, AtMost, POLLS, TxLife
  <2>4. Older(fl) = Idle \/ Older(fl) = [fl EXCEPT !.tx = tx]
    BY <1>2 DEF Older
  <2>5. Closing(fl.op, fl.step) => ClosesAll(tx)
    BY <2>1, <1>2 DEF FlowOK, ClosesAll, TxOK
  <2> HIDE DEF tx
  <2> QED BY <2>1, <2>3, <2>4, <2>5, TxFits, IdleFits
<1> QED BY <1>1, <1>2

LEMMA LandFits ==
    ASSUME FlowsOK, NEW f \in Flows, Land(f)
    PROVE  FlowsOK'
<1>1. DOMAIN flows' = Flows
  BY DEF Land
<1>2. flows[f] # Idle /\ flows[f].tx # NoTx /\ FlowOK(flows[f])
  BY IdleFits DEF Land, CanLand, FlowsOK
<1> DEFINE out == Outcome(flows[f].tx)
<1>3. FlowOK(flows'[f])
  <2>1. \/ flows'[f] = Idle
        \/ \E state : flows'[f] = [flows[f] EXCEPT !.tx.state = state]
    <3>1. CASE flows[f].told # ""
      BY <3>1 DEF Land
    <3>2. CASE flows[f].told = ""
      <4>1. flows'[f] = [flows[f] EXCEPT !.tx.state = IF out.err = "" THEN "landed" ELSE "failed"]
        BY <3>2 DEF Land
      <4> HIDE DEF out
      <4> QED BY <4>1
    <3> QED BY <3>1, <3>2
  <2>2. ASSUME NEW state, flows'[f] = [flows[f] EXCEPT !.tx.state = state] PROVE FlowOK(flows'[f])
    BY <1>2, <2>2, MarkFits
  <2> QED BY <2>1, <2>2, IdleFits
<1>4. ASSUME NEW g \in Flows, g # f PROVE FlowOK(flows'[g])
  <2>1. flows'[g] = Outrun(flows[g], flows[f].tx.src) /\ FlowOK(flows[g])
    BY <1>4 DEF Land, FlowsOK
  <2>2. \/ flows'[g] = flows[g] \/ flows'[g] = Idle
        \/ /\ flows[g] # Idle /\ flows[g].tx # NoTx
           /\ \E state : flows'[g] = [flows[g] EXCEPT !.tx.state = state]
    <3> DEFINE fl == flows[g]
    <3>1. CASE fl = Idle \/ fl.tx = NoTx \/ Outrun(fl, flows[f].tx.src) = fl
      BY <2>1, <3>1 DEF Outrun
    <3>2. CASE ~(fl = Idle \/ fl.tx = NoTx \/ Outrun(fl, flows[f].tx.src) = fl)
      <4>1. \/ Outrun(fl, flows[f].tx.src) = Idle
            \/ Outrun(fl, flows[f].tx.src) = [fl EXCEPT !.tx.state = IF @ = "sent" THEN "failed" ELSE "spoilt"]
        BY <3>2 DEF Outrun
      <4> QED BY <2>1, <3>2, <4>1
    <3> QED BY <3>1, <3>2
  <2>3. ASSUME flows[g] # Idle, flows[g].tx # NoTx,
               NEW state, flows'[g] = [flows[g] EXCEPT !.tx.state = state]
        PROVE  FlowOK(flows'[g])
    BY <2>1, <2>3, MarkFits
  <2> QED BY <2>1, <2>2, <2>3, IdleFits
<1> QED BY <1>1, <1>3, <1>4 DEF FlowsOK

(* The user presses a button and reviews; nothing is sent yet.             *)
LEMMA PressFits ==
    ASSUME FlowsOK, ScreenOK, NEW f \in Flows, NEW op, op # None, NEW step, NEW amount, NEW lev, NEW pos, NEW cf,
           Press(f, op, step, amount, lev, pos, cf)
    PROVE  FlowsOK'
<1> DEFINE fl == [op |-> op, step |-> step, told |-> "", addr |-> user, amount |-> amount, lev |-> lev,
                  pos |-> pos, cf |-> cf, tx |-> NoTx]
<1>1. FlowOK(fl)
  BY DEF FlowOK, TxOK, ClosesAll, Press, ScreenOK
<1>2. flows' = [flows EXCEPT ![f] = fl]
  BY DEF Press
<1> HIDE DEF fl
<1> QED BY <1>1, <1>2, OneFlowFits

LEMMA UserFits ==
    ASSUME FlowsOK, ScreenOK, NEW f \in Flows,
           \/ OpenPosition(f) \/ AddFunds(f) \/ AdjustLeverage(f) \/ RemoveFunds(f)
           \/ ClosePosition(f) \/ ClaimAndConvert(f) \/ Confirm(f) \/ Cancel(f)
           \/ Sign(f) \/ Refuse(f)
    PROVE  FlowsOK'
<1>0. FlowOK(flows[f]) /\ (flows[f].op # None => flows[f] # Idle)
  BY IdleFits DEF FlowsOK
<1>1. CASE OpenPosition(f) \/ AddFunds(f)
  BY <1>1, PressFits DEF OpenPosition, AddFunds, None
<1>2. CASE AdjustLeverage(f)
  BY <1>2, PressFits DEF AdjustLeverage, None
<1>3. CASE RemoveFunds(f) \/ ClosePosition(f) \/ ClaimAndConvert(f)
  BY <1>3, PressFits DEF RemoveFunds, ClosePosition, ClaimAndConvert, None
<1>4. CASE Confirm(f)
  <2>1. CASE flows' = [flows EXCEPT ![f] = Idle]
    BY <2>1, IdleFits, OneFlowFits
  <2>2. ASSUME NEW step \in {"trust", "approve"}, flows' = [flows EXCEPT ![f] = [flows[f] EXCEPT !.step = step]] PROVE FlowsOK'
    <3>1. FlowOK([flows[f] EXCEPT !.step = step])
      BY <1>0, <1>4, StepFits DEF Confirm
    <3> QED BY <2>2, <3>1, OneFlowFits
  <2> QED BY <1>4, <2>1, <2>2 DEF Confirm
<1>5. CASE Cancel(f)
  BY <1>5, IdleFits, OneFlowFits DEF Cancel
<1>6. CASE Sign(f)
  <2>1. PICK state : flows' = [flows EXCEPT ![f].tx.state = state]
    BY <1>6 DEF Sign, Mark
  <2>2. FlowOK([flows[f] EXCEPT !.tx.state = state])
    BY <1>0, <1>6, MarkFits DEF Sign, InHand
  <2> QED BY <2>1, <2>2, OneFlowFits
<1>7. CASE Refuse(f)
  <2>1. flows[f].op # None /\ ~CanLand(flows[f].tx) /\ Failed(f, "failed")
    BY <1>7 DEF Refuse, InHand, CanLand
  <2> QED BY <2>1, FailedFits
<1> QED BY <1>1, <1>2, <1>3, <1>4, <1>5, <1>6, <1>7

(* A step that closes is built to ask for all there is, whatever was shown. *)
LEMMA CloseBuilds ==
    ASSUME NEW fl, Closing(fl.op, fl.step), fl.addr \in Accounts, ts.pool \in Pools
    PROVE  ClosesAll(TxOf(fl))
<1>1. Requests(fl) \in CloseLists
  <2>1. fl.op = "close" /\ fl.step \in {"submit", "withdraw"}
    BY DEF Closing
  <2>2. CASE fl.step = "submit"
    <3>1. Requests(fl) = CloseRequests(fl.pos)
      BY Zenon, <2>1, <2>2 DEF Requests
    <3> QED BY <3>1 DEF CloseRequests, CloseLists
  <2>3. CASE fl.step = "withdraw"
    <3>1. Requests(fl) = WithdrawRequests
      BY Zenon, <2>1, <2>3 DEF Requests
    <3> QED BY <3>1 DEF WithdrawRequests, CloseLists
  <2> QED BY <2>1, <2>2, <2>3
<1> DEFINE reqs == CASE fl.step = "approve" -> Allowance(fl)
                     [] fl.step \in {"trust", "claim"} -> 0
                     [] fl.step = "swap" -> SwapAmount(fl)
                     [] OTHER -> Requests(fl)
<1>2. reqs = Requests(fl)
  BY Zenon DEF Closing
<1> HIDE DEF reqs
<1>3. TxOf(fl) = [src |-> fl.addr, pool |-> ts.pool, step |-> fl.step, age |-> 0, asked |-> 0, state |-> "built",
                  kind |-> "submit", reqs |-> reqs]
  BY DEF TxOf, Closing, reqs
<1> QED BY <1>1, <1>2, <1>3 DEF ClosesAll

LEMMA BuildFits ==
    ASSUME FlowsOK, ScreenOK, NEW f \in Flows, Build(f) \/ NothingToSwap(f)
    PROVE  FlowsOK'
<1>0. FlowOK(flows[f]) /\ flows[f].op # None /\ flows[f] # Idle /\ flows[f].tx = NoTx
  BY IdleFits DEF FlowsOK, Build, NothingToSwap, AwaitsBuild
<1>1. ~CanLand(flows[f].tx)
  BY <1>0 DEF CanLand
<1>2. CASE \E told : Ended(f, told)
  BY <1>0, <1>1, <1>2, EndedFits
<1>3. CASE flows' = [flows EXCEPT ![f].step = "repay"]
  <2>1. FlowOK([flows[f] EXCEPT !.step = "repay"])
    BY <1>0, StepFits
  <2> QED BY <1>3, <2>1, OneFlowFits
<1>4. CASE flows' = [flows EXCEPT ![f].tx = TxOf(flows[f])]
  <2>1. TxOK(TxOf(flows[f]))
    <3> DEFINE kind == IF flows[f].step \in {"trust", "approve", "claim", "swap"} THEN flows[f].step ELSE "submit"
               reqs == CASE flows[f].step = "approve" -> Allowance(flows[f])
                         [] flows[f].step \in {"trust", "claim"} -> 0
                         [] flows[f].step = "swap" -> SwapAmount(flows[f])
                         [] OTHER -> Requests(flows[f])
    <3>1. TxOf(flows[f]) = [src |-> flows[f].addr, pool |-> ts.pool, step |-> flows[f].step, age |-> 0, asked |-> 0,
                            state |-> "built", kind |-> kind, reqs |-> reqs]
      BY DEF TxOf
    <3> HIDE DEF kind, reqs
    <3> QED BY <3>1 DEF TxOK
  <2>3. Closing(flows[f].op, flows[f].step) => ClosesAll(TxOf(flows[f]))
    BY <1>0, CloseBuilds DEF FlowOK, ScreenOK
  <2>2. FlowOK([flows[f] EXCEPT !.tx = TxOf(flows[f])])
    BY <1>0, <2>1, <2>3, TxFits
  <2> QED BY <1>4, <2>2, OneFlowFits
<1>5. CASE Build(f)
  <2> DEFINE err == IF Reachable THEN Outcome(TxOf(flows[f])).err ELSE "rpc"
             twoSteps == flows[f].op = "close" /\ flows[f].step = "submit" /\ err \in {"util", "hf"} /\ flows[f].pos.debt > 0
  <2>1. \/ err = "" /\ flows' = [flows EXCEPT ![f].tx = TxOf(flows[f])]
        \/ err # "" /\ twoSteps /\ flows' = [flows EXCEPT ![f].step = "repay"]
        \/ err # "" /\ ~twoSteps /\ Ended(f, "failed")
    BY <1>5 DEF Build
  <2> HIDE DEF err, twoSteps
  <2> QED BY <1>2, <1>3, <1>4, <2>1
<1>6. CASE NothingToSwap(f)
  BY <1>2, <1>6 DEF NothingToSwap
<1> QED BY <1>5, <1>6

LEMMA AnswerFits ==
    ASSUME FlowsOK, NEW f \in Flows, Send(f) \/ SendLost(f) \/ Poll(f) \/ PollLost(f) \/ TimedOut(f)
    PROVE  FlowsOK'
<1>0. FlowOK(flows[f]) /\ flows[f].op # None /\ flows[f] # Idle /\ flows[f].tx # NoTx /\ TxOK(flows[f].tx)
  <2>1. flows[f].op # None /\ flows[f].tx # NoTx
    BY DEF Send, SendLost, Poll, PollLost, TimedOut, InHand
  <2> QED BY <2>1, IdleFits DEF FlowsOK, FlowOK
<1>1. CASE Send(f)
  <2>1. flows[f].tx.state \in {"signed", "spoilt"}
    BY <1>1 DEF Send, InHand
  <2>2. CASE Mark(f, "sent")
    <3>1. FlowOK([flows[f] EXCEPT !.tx.state = "sent"])
      BY <1>0, MarkFits
    <3> QED BY <2>2, <3>1, OneFlowFits DEF Mark
  <2>3. CASE Failed(f, "failed")
    BY <1>0, <2>1, <2>3, FailedFits DEF CanLand
  <2> QED BY <1>1, <2>2, <2>3 DEF Send
<1>2. CASE SendLost(f)
  <2> DEFINE fl == [flows[f] EXCEPT !.tx.state = "sent"]
  <2>1. FlowOK(fl) /\ fl # Idle
    <3>1. FlowOK(fl)
      BY <1>0, MarkFits
    <3>2. fl.op = flows[f].op
      BY <1>0 DEF FlowOK
    <3> QED BY <1>0, <3>1, <3>2, IdleFits
  <2>2. FlowOK([fl EXCEPT !.told = "unknown"])
    <3> HIDE DEF fl
    <3> QED BY <2>1 DEF FlowOK
  <2>3. flows' = [flows EXCEPT ![f] = [fl EXCEPT !.told = "unknown"]]
    BY <1>2 DEF SendLost, FlowsOK
  <2> QED BY <2>2, <2>3, OneFlowFits
<1>3. CASE Poll(f)
  <2>1. CASE InHand(f, "landed") /\ flows' = [flows EXCEPT ![f].tx = NoTx, ![f].step = NextStep(flows[f].step)]
    <3> DEFINE fl == [flows[f] EXCEPT !.tx = NoTx]
    <3>1. FlowOK(fl) /\ fl # Idle /\ fl.tx = NoTx
      <4>1. FlowOK(fl)
        BY <1>0, TxFits DEF TxOK, ClosesAll
      <4>2. fl.op = flows[f].op /\ fl.tx = NoTx
        BY <1>0 DEF FlowOK
      <4> QED BY <1>0, <4>1, <4>2, IdleFits
    <3>2. FlowOK([fl EXCEPT !.step = NextStep(flows[f].step)])
      <4> HIDE DEF fl
      <4> QED BY <3>1, StepFits
    <3>3. flows' = [flows EXCEPT ![f] = [fl EXCEPT !.step = NextStep(flows[f].step)]]
      BY <2>1 DEF FlowsOK
    <3> QED BY <3>2, <3>3, OneFlowFits
  <2>2. CASE InHand(f, "landed") /\ Ended(f, "confirmed")
    BY <1>0, <2>2, EndedFits DEF InHand, CanLand
  <2>3. CASE InHand(f, "failed") /\ Failed(f, "failed")
    BY <1>0, <2>3, FailedFits DEF InHand, CanLand
  <2> QED BY <1>3, <2>1, <2>2, <2>3 DEF Poll
<1>4. CASE PollLost(f)
  BY <1>0, <1>4, FailedFits DEF PollLost
<1>5. CASE TimedOut(f)
  <2>1. CASE Classic(flows[f].tx.kind)
    BY <1>0, <1>5, <2>1, FailedFits DEF TimedOut
  <2>2. CASE ~Classic(flows[f].tx.kind)
    <3>1. flows[f].tx.asked >= POLLS /\ Failed(f, "timeout")
      BY <1>5, <2>2 DEF TimedOut
    <3>2. ~CanLand(flows[f].tx)
      BY <1>0, <2>2, <3>1, PollsOutlive
    <3> QED BY <1>0, <3>1, <3>2, FailedFits
  <2> QED BY <2>1, <2>2
<1> QED BY <1>1, <1>2, <1>3, <1>4, <1>5

LEMMA TickFits ==
    ASSUME FlowsOK, Tick
    PROVE  FlowsOK'
<1>1. flows' = [f \in Flows |-> Older(flows[f])]
  BY DEF Tick
<1> QED BY <1>1, OlderFits DEF FlowsOK

(* The screen shows a pool, as an account or as nobody.                    *)
LEMMA ScreenStep == ScreenOK /\ [Next]_vars => ScreenOK'
<1> SUFFICES ASSUME ScreenOK, [Next]_vars PROVE ScreenOK'
  OBVIOUS
<1>1. CASE UNCHANGED user /\ ts'.pool = ts.pool /\ DOMAIN ts' = DOMAIN ts
  BY <1>1 DEF ScreenOK
<1>2. ASSUME NEW again, Reload(again), UNCHANGED user PROVE ScreenOK'
  <2>1. ts' = ts \/ ts' = [ts EXCEPT !.shown = ts.pos]
    BY <1>2 DEF Reload
  <2> QED BY <1>2, <2>1 DEF ScreenOK
<1>3. ASSUME NEW p \in Pools, NEW l \in Loads, SelectPool(p, l) PROVE ScreenOK'
  BY <1>3 DEF SelectPool, ScreenOK
<1>4. ASSUME NEW a \in Accounts \union {None}, Connect(a) PROVE ScreenOK'
  BY <1>4 DEF Connect, ScreenOK
<1>5. CASE SwitchNetwork
  BY <1>5 DEF SwitchNetwork, ScreenOK
<1>6. ASSUME NEW l \in Loads, GotReserves(l) \/ GotPositions(l) \/ Loaded(l) PROVE ScreenOK'
  <2>1. UNCHANGED user
    BY <1>6 DEF GotReserves, GotPositions, Loaded
  <2>2. CASE GotReserves(l)
    BY <2>1, <2>2 DEF GotReserves, ScreenOK
  <2>3. CASE GotPositions(l)
    BY <2>1, <2>3 DEF GotPositions, ScreenOK
  <2>4. CASE Loaded(l)
    BY <2>1, <2>4 DEF Loaded, ScreenOK
  <2> QED BY <1>6, <2>2, <2>3, <2>4
<1>7. ASSUME NEW f \in Flows, NEW op, NEW step, NEW amount, NEW lev, NEW pos, NEW cf,
             Press(f, op, step, amount, lev, pos, cf)
      PROVE  UNCHANGED <<user, ts>>
  BY <1>7 DEF Press
<1>8. ASSUME NEW f \in Flows,
             \/ OpenPosition(f) \/ AddFunds(f) \/ AdjustLeverage(f) \/ RemoveFunds(f)
             \/ ClosePosition(f) \/ ClaimAndConvert(f)
      PROVE  ScreenOK'
  <2>1. UNCHANGED <<user, ts>>
    BY <1>7, <1>8 DEF OpenPosition, AddFunds, AdjustLeverage, RemoveFunds, ClosePosition, ClaimAndConvert
  <2> QED BY <1>1, <2>1
<1>9. ASSUME NEW f \in Flows, Confirm(f) \/ Cancel(f) \/ Sign(f) PROVE ScreenOK'
  BY <1>1, <1>9 DEF Confirm, Cancel, Sign
<1>10. ASSUME NEW f \in Flows,
              \/ Refuse(f) \/ Build(f) \/ NothingToSwap(f) \/ Send(f) \/ SendLost(f)
              \/ Poll(f) \/ PollLost(f) \/ TimedOut(f)
       PROVE  ScreenOK'
  <2>1. UNCHANGED user
    BY <1>10 DEF Refuse, Build, NothingToSwap, Send, SendLost, Poll, PollLost, TimedOut
  <2>2. \E again : Reload(again)
    BY <1>10 DEF Refuse, Build, NothingToSwap, Send, SendLost, Poll, PollLost, TimedOut, Failed
  <2> QED BY <1>2, <2>1, <2>2
<1>11. CASE Ledger
  <2>1. UNCHANGED <<user, ts>>
    BY <1>11 DEF Ledger, Land, Tick, Accrue, Others, Lapse
  <2> QED BY <1>1, <2>1
<1>12. CASE UNCHANGED vars
  BY <1>1, <1>12 DEF vars
<1>13. CASE User
  BY <1>3, <1>4, <1>5, <1>8, <1>9, <1>10, <1>13 DEF User
<1>14. CASE Reads
  BY <1>6, <1>14 DEF Reads
<1>15. CASE Answers \/ Faults
  BY <1>10, <1>15 DEF Answers, Faults
<1> QED BY <1>10, <1>11, <1>12, <1>13, <1>14, <1>15 DEF Next

LEMMA TradeStep == FlowsOK /\ ScreenOK /\ [Next]_vars => FlowsOK'
<1> SUFFICES ASSUME FlowsOK, ScreenOK, [Next]_vars PROVE FlowsOK'
  OBVIOUS
<1>1. CASE UNCHANGED flows
  BY <1>1 DEF FlowsOK
<1>2. ASSUME NEW f \in Flows,
             \/ OpenPosition(f) \/ AddFunds(f) \/ AdjustLeverage(f) \/ RemoveFunds(f)
             \/ ClosePosition(f) \/ ClaimAndConvert(f) \/ Confirm(f) \/ Cancel(f)
             \/ Sign(f) \/ Refuse(f)
      PROVE  FlowsOK'
  BY <1>2, UserFits
<1>3. ASSUME NEW p \in Pools, NEW l \in Loads, SelectPool(p, l) PROVE UNCHANGED flows
  BY <1>3 DEF SelectPool
<1>4. ASSUME NEW a, Connect(a) PROVE UNCHANGED flows
  BY <1>4 DEF Connect
<1>5. CASE User
  BY <1>1, <1>2, <1>3, <1>4, <1>5 DEF User, SwitchNetwork
<1>6. CASE Reads
  <2>1. UNCHANGED flows
    BY <1>6 DEF Reads, GotReserves, GotPositions, Loaded
  <2> QED BY <1>1, <2>1
<1>7. ASSUME NEW f \in Flows, Build(f) \/ NothingToSwap(f) PROVE FlowsOK'
  BY <1>7, BuildFits
<1>8. CASE Answers \/ Faults
  BY <1>8, AnswerFits DEF Answers, Faults
<1>9. ASSUME NEW p \in Pools, Accrue(p) \/ Others(p) PROVE UNCHANGED flows
  BY <1>9 DEF Accrue, Others
<1>10. ASSUME NEW a \in Accounts, NEW p \in Pools, Lapse(a, p) PROVE UNCHANGED flows
  BY <1>10 DEF Lapse
<1>11. CASE Ledger
  BY <1>1, <1>9, <1>10, <1>11, LandFits, TickFits DEF Ledger
<1>12. CASE UNCHANGED vars
  BY <1>1, <1>12 DEF vars
<1> QED BY <1>5, <1>6, <1>7, <1>8, <1>11, <1>12 DEF Next

(* What a pool says of itself, and what is on its books.                   *)
BooksOK ==
    /\ DOMAIN market = Pools
    /\ \A p \in Pools : {"cf", "lf"} \subseteq DOMAIN market[p] /\ market[p].cf \in Int /\ market[p].lf \in Int
    /\ DOMAIN chain = Accounts /\ \A a \in Accounts : DOMAIN chain[a] = Pools

LEMMA BooksStep == BooksOK /\ [Next]_vars => BooksOK'
<1> SUFFICES ASSUME BooksOK, [Next]_vars PROVE BooksOK'
  OBVIOUS
<1>1. CASE UNCHANGED <<market, chain>>
  BY <1>1 DEF BooksOK
<1>2. ASSUME NEW f \in Flows, Land(f) PROVE BooksOK'
  <2> DEFINE out == Outcome(flows[f].tx)
             q == [col |-> out.col, debt |-> out.debt]
  <2>1. UNCHANGED market /\ (UNCHANGED chain \/ chain' = [chain EXCEPT ![flows[f].tx.src][flows[f].tx.pool] = q])
    BY <1>2 DEF Land, chainVars
  <2> HIDE DEF q
  <2> QED BY <1>1, <2>1 DEF BooksOK
<1>3. ASSUME NEW p \in Pools, Accrue(p) PROVE BooksOK'
  BY <1>3 DEF Accrue, BooksOK
<1>4. ASSUME NEW p \in Pools, Others(p) PROVE BooksOK'
  BY <1>4 DEF Others, BooksOK
<1>5. ASSUME NEW a \in Accounts, NEW p \in Pools, Lapse(a, p) PROVE BooksOK'
  BY <1>1, <1>5 DEF Lapse
<1>6. CASE Ledger
  BY <1>1, <1>2, <1>3, <1>4, <1>5, <1>6 DEF Ledger, Tick, chainVars
<1>7. ASSUME NEW f \in Flows, NEW op, NEW step, NEW amount, NEW lev, NEW pos, NEW cf,
             Press(f, op, step, amount, lev, pos, cf)
      PROVE  UNCHANGED <<market, chain>>
  BY <1>7 DEF Press, chainVars
<1>8. ASSUME NEW f \in Flows,
             \/ OpenPosition(f) \/ AddFunds(f) \/ AdjustLeverage(f) \/ RemoveFunds(f)
             \/ ClosePosition(f) \/ ClaimAndConvert(f)
      PROVE  UNCHANGED <<market, chain>>
  BY <1>7, <1>8 DEF OpenPosition, AddFunds, AdjustLeverage, RemoveFunds, ClosePosition, ClaimAndConvert
<1>9. ASSUME NEW f \in Flows,
             \/ Confirm(f) \/ Cancel(f) \/ Sign(f) \/ Refuse(f) \/ Build(f) \/ NothingToSwap(f)
             \/ Send(f) \/ SendLost(f) \/ Poll(f) \/ PollLost(f) \/ TimedOut(f)
      PROVE  UNCHANGED <<market, chain>>
  BY <1>9 DEF Confirm, Cancel, Sign, Refuse, Build, NothingToSwap, Send, SendLost, Poll, PollLost, TimedOut, chainVars
<1>10. ASSUME NEW p \in Pools, NEW l \in Loads, SelectPool(p, l) PROVE UNCHANGED <<market, chain>>
  BY <1>10 DEF SelectPool, chainVars
<1>11. ASSUME NEW a, Connect(a) PROVE UNCHANGED <<market, chain>>
  BY <1>11 DEF Connect, chainVars
<1>12. CASE User
  BY <1>1, <1>8, <1>9, <1>10, <1>11, <1>12 DEF User, SwitchNetwork, chainVars
<1>13. CASE Reads
  <2>1. UNCHANGED <<market, chain>>
    BY <1>13 DEF Reads, GotReserves, GotPositions, Loaded, chainVars
  <2> QED BY <1>1, <2>1
<1>14. CASE Answers \/ Faults
  BY <1>1, <1>9, <1>14 DEF Answers, Faults
<1>15. CASE UNCHANGED vars
  BY <1>1, <1>15 DEF vars, chainVars
<1> QED BY <1>1, <1>6, <1>9, <1>12, <1>13, <1>14, <1>15 DEF Next

LEMMA TradeStart == Init => FlowsOK /\ ScreenOK /\ BooksOK
<1> SUFFICES ASSUME Init PROVE FlowsOK /\ ScreenOK /\ BooksOK
  OBVIOUS
<1>1. FlowsOK
  BY IdleFits DEF Init, FlowsOK
<1>2. ScreenOK
  BY DEF Init, ScreenOK
<1>3. BooksOK
  <2>1. \A p \in Pools : market[p] \in [supply : Nat, borrow : Nat, cf : 0..100, lf : 0..100, maxUtil : 0..100]
    BY TradeDeskAssumption DEF Init
  <2>2. DOMAIN market = Pools
    BY TradeDeskAssumption DEF Init
  <2>3. chain \in [Accounts -> [Pools -> [col : Nat, debt : Nat]]]
    BY TradeDeskAssumption DEF Init
  <2>4. ASSUME NEW p \in Pools
        PROVE  {"cf", "lf"} \subseteq DOMAIN market[p] /\ market[p].cf \in Int /\ market[p].lf \in Int
    BY <2>1
  <2> QED BY <2>2, <2>3, <2>4 DEF BooksOK
<1> QED BY <1>1, <1>2, <1>3

TradeInv == FlowsOK /\ ScreenOK /\ BooksOK
LEMMA TradeInvariant == Spec => []TradeInv
<1>1. Init => TradeInv
  BY TradeStart DEF TradeInv
<1>2. TradeInv /\ [Next]_vars => TradeInv'
  BY TradeStep, ScreenStep, BooksStep DEF TradeInv
<1> QED BY <1>1, <1>2, PTL DEF Spec

(* What the user is told of a transaction is final, unless its last answer *)
(* was lost, for every number of paths, accounts and pools, whatever the   *)
(* user, the wallet and the network do meanwhile.                          *)
THEOREM VerdictIsFinalAlways == Spec => []VerdictIsFinal
<1>1. TradeInv => VerdictIsFinal
  <2>1. Idle.told = ""
    BY DEF Idle
  <2> QED BY <2>1 DEF TradeInv, FlowsOK, FlowOK, VerdictIsFinal
<1> QED BY <1>1, TradeInvariant, PTL

(* A transaction that closes leaves nothing where it lands.                *)
LEMMA CloseLands ==
    ASSUME TradeInv, NEW f \in Flows, Lands(f, {"close"}), flows[f].step \in {"submit", "withdraw"},
           chain[flows[f].tx.src][flows[f].tx.pool] \in [col : 0..MAX, debt : 0..MAX]
    PROVE  chain'[flows[f].tx.src][flows[f].tx.pool] = NoPos
<1> DEFINE tx == flows[f].tx
           r == OthersIn(tx.pool, tx.src)
           p == chain[tx.src][tx.pool]
           funds == AtMost(allowed[tx.src][tx.pool], wallet[tx.src])
           out == Outcome(tx)
<1>1. tx # NoTx /\ tx.src \in Accounts /\ tx.pool \in Pools /\ tx.kind = "submit" /\ tx.reqs \in CloseLists
  <2>1. flows[f] # Idle /\ tx # NoTx /\ flows[f].op = "close"
    BY IdleFits DEF Lands, Land, CanLand
  <2>2. FlowOK(flows[f])
    BY DEF TradeInv, FlowsOK
  <2> QED BY <2>1, <2>2 DEF FlowOK, Closing, ClosesAll
<1>2. r.cf \in Int /\ r.lf \in Int
  BY <1>1 DEF OthersIn, Reserve, TradeInv, BooksOK
<1>3. out = Submitted(r, p, tx.reqs, funds)
  BY <1>1 DEF Outcome
<1>4. out.err = "" => out.col = 0 /\ out.debt = 0
  <2>1. p \in [col : 0..MAX, debt : 0..MAX]
    OBVIOUS
  <2> HIDE DEF tx, r, p, funds, out
  <2> QED BY <1>1, <1>2, <1>3, <2>1, CloseEmpties
<1>5. out.err = "" /\ chain' = [chain EXCEPT ![tx.src][tx.pool] = [col |-> out.col, debt |-> out.debt]]
  <2> HIDE DEF r, p, funds
  <2> QED BY <1>1 DEF Lands, Land, chainVars
<1>6. tx.src \in DOMAIN chain /\ tx.pool \in DOMAIN chain[tx.src]
  BY <1>1 DEF TradeInv, BooksOK
<1> HIDE DEF tx, out
<1>7. chain'[tx.src][tx.pool] = [col |-> out.col, debt |-> out.debt]
  BY <1>5, <1>6
<1> QED BY <1>4, <1>5, <1>7 DEF NoPos, tx

(* A close leaves neither debt nor collateral, for every market, every     *)
(* position within the amount that means all of it, and however many other *)
(* paths, accruals and switches came between the page and the ledger.      *)
THEOREM CloseLeavesNothingAlways == Spec => CloseLeavesNothing
<1> DEFINE Leaves(f) ==
        Lands(f, {"close"}) /\ flows[f].step \in {"submit", "withdraw"} =>
            LET tx == flows[f].tx
            IN  chain[tx.src][tx.pool] \in [col : 0..MAX, debt : 0..MAX] => chain'[tx.src][tx.pool] = NoPos
<1>1. TradeInv /\ [Next]_vars => [\A f \in Flows : Leaves(f)]_vars
  BY CloseLands
<1> QED BY <1>1, TradeInvariant, PTL DEF Spec, CloseLeavesNothing
=============================================================================

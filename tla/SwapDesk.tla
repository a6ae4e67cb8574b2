------------------------------- MODULE SwapDesk -------------------------------
(***************************************************************************)
(* The swap screen (src/frontend/src/views/swap.ts, swap-assets.ts): the   *)
(* form and its quotes, and the swap sessions, each of which funds a       *)
(* mediator account, lets Stellar Broker trade with it and merges it back. *)
(*                                                                         *)
(* A mediator's record is kept in localStorage by the Broker's client,     *)
(* @stellar-broker/client, which is not in the repository: it is taken to  *)
(* write the record before the wallet is asked to sign the funding, and to *)
(* remove it only when the account is merged, was never funded, or is not  *)
(* found on the ledger by a recovery (the comment at swap.ts:592).  The    *)
(* slippage chip and the comparison with the DEX rate are only handed on   *)
(* and shown, and are left out; the connected account stays the same.      *)
(***************************************************************************)
EXTENDS Integers

CONSTANTS Fallback,   \* FALLBACK_SWAP_ASSETS: the assets the form starts with
          Rated,      \* what getSwapAssets resolves to
          Sizes,      \* amounts the user may enter; 0 is an empty field
          Sessions,   \* executeSwap calls that may be in flight
          Leeways     \* bounds: how often what may still happen, by kind
Kinds == {"edits", "swaps", "closings", "remounts", "failures"}
ASSUME SwapDeskAssumption == Leeways \subseteq [Kinds -> Nat]

XLM == "XLM"
USDC == "USDC"
NoQuote == [sell |-> XLM, buy |-> USDC, amount |-> 0]
Tries == 5                                   \* attempts of disposeWithRetry

VARIABLES
    form,       \* SwapUiState, the debounce timer and the executing flag
    asked,      \* estimateSwap requests in flight
    listed,     \* the rated list has arrived
    session,    \* executeSwap, one per slot
    mediator,   \* the account of each session: "none", its funding "sent",
                \* "funded" or "merged"
    record,     \* "kept" in localStorage, "no" record, or "wiped" by a
                \* recovery that did not find the account
    left        \* bounds: what may still happen

swapVars == <<form, asked, listed, session, mediator, record, left>>

NewForm == [sell |-> XLM, buy |-> USDC, amount |-> 0, quote |-> NoQuote, timer |-> FALSE, executing |-> FALSE]
NoSession == [stage |-> "none"]
Gone == [stage |-> "gone"]                   \* its page was closed over it
(* Ended after n failed attempts to merge: "recovered on your next swap".  *)
Owed(n) == [stage |-> "owed", try |-> n]
Over(s) == session[s].stage \in {"none", "gone", "owed"}
Listing == IF listed THEN Rated ELSE Fallback
Bounded(b) == left[b] > 0 /\ left' = [left EXCEPT ![b] = @ - 1]
Inputs == [sell |-> form.sell, buy |-> form.buy, amount |-> form.amount]

SwapInit ==
    /\ form = NewForm /\ asked = {} /\ listed = FALSE
    /\ session = [s \in Sessions |-> NoSession]
    /\ mediator = [s \in Sessions |-> "none"] /\ record = [s \in Sessions |-> "no"]
    /\ left \in Leeways

(*--------------------------------- the form -----------------------------*)
(* Every change of an input drops the quote and starts the timer again.    *)
Edited(f) == form' = [f EXCEPT !.quote = NoQuote, !.timer = TRUE]
EditForm ==
    /\ Bounded("edits")
    /\ \/ \E n \in Sizes : n # form.amount /\ Edited([form EXCEPT !.amount = n])
       \/ \E a \in Listing : a # form.sell /\ Edited([form EXCEPT !.sell = a])
       \/ \E a \in Listing : a # form.buy /\ Edited([form EXCEPT !.buy = a])
       \/ Edited([form EXCEPT !.sell = form.buy, !.buy = form.sell])
    /\ UNCHANGED <<asked, listed, session, mediator, record>>

Quotable == form.amount > 0 /\ form.sell # form.buy
(* fetchQuote, by the timer or by the button while there is no quote.      *)
FetchQuote ==
    /\ \/ form.timer
       \/ Quotable /\ form.quote = NoQuote /\ ~form.executing
    /\ form' = [form EXCEPT !.timer = FALSE, !.quote = IF Quotable THEN @ ELSE NoQuote]
    /\ asked' = IF Quotable THEN asked \union {Inputs} ELSE asked
    /\ UNCHANGED <<listed, session, mediator, record, left>>
(* Mutant: whatever arrives is shown. *)
QuotedAlways(q) ==
    /\ asked' = asked \ {q}
    /\ form' = [form EXCEPT !.quote = q]
    /\ UNCHANGED <<listed, session, mediator, record, left>>
(* An answer is discarded when the inputs have changed since; one that is  *)
(* no success is no quote.                                                 *)
Quoted(q) ==
    /\ asked' = asked \ {q}
    /\ form' \in IF q = Inputs THEN {[form EXCEPT !.quote = q], [form EXCEPT !.quote = NoQuote]} ELSE {form}
    /\ UNCHANGED <<listed, session, mediator, record, left>>
(* The list arrives: the pair is kept as far as it is on it.               *)
Repopulate ==
    LET sell == IF form.sell \in Rated THEN form.sell ELSE XLM
        keep == form.buy \in Rated /\ form.buy # sell
    IN  /\ ~listed /\ listed' = TRUE
        /\ form' = [form EXCEPT !.sell = sell, !.buy = IF keep THEN @ ELSE USDC,
                                !.quote = IF keep THEN @ ELSE NoQuote]
        /\ UNCHANGED <<asked, session, mediator, record, left>>

(*------------------------------- the sessions ---------------------------*)
(* executeSwap: recover, init, trade, and dispose of the mediator with the *)
(* proceeds, or with what is left after a failure.                         *)
Stage(s, stage) == session' = [session EXCEPT ![s].stage = stage]
Free(s) == session[s] = NoSession /\ mediator[s] = "none" /\ record[s] = "no"
Enters(s, stage) ==
    /\ form.quote # NoQuote /\ ~form.executing /\ Bounded("swaps")
    /\ Free(s) /\ \A r \in Sessions : r < s => ~Free(r)
    /\ session' = [session EXCEPT ![s] = [stage |-> stage, mine |-> TRUE, try |-> 0]]
    /\ form' = [form EXCEPT !.executing = TRUE]
    /\ UNCHANGED <<asked, listed, mediator, record>>
(* Mutant: what earlier sessions left behind is not looked for. *)
ExecuteSwapAtOnce(s) == Enters(s, "open")
ExecuteSwap(s) == Enters(s, "recover")
(* The end of executeSwap; a trade that succeeded clears the quote.        *)
SwapEnds(s, end) ==
    /\ session' = [session EXCEPT ![s] = end]
    /\ form' = IF ~session[s].mine THEN form
               ELSE [form EXCEPT !.executing = FALSE,
                                 !.quote = IF session[s].stage = "finalize" THEN NoQuote ELSE @]

(* Every mediator on record is taken for one of a lost session, and merged.*)
OnRecord == {r \in Sessions : record[r] = "kept"}
Merged(done) == mediator' = [r \in Sessions |-> IF r \in done THEN "merged" ELSE mediator[r]]
Cleared(done) == [r \in Sessions |-> IF r \in done THEN "no" ELSE record[r]]
Recover(s) ==
    /\ session[s].stage = "recover" /\ \A r \in OnRecord : mediator[r] = "funded"
    /\ Merged(OnRecord) /\ record' = Cleared(OnRecord) /\ Stage(s, "open")
    /\ UNCHANGED <<form, asked, listed, left>>
(* The recovery throws at one it cannot merge, or does not find, and the   *)
(* swap goes on without the rest.                                          *)
RecoverThrows(s) ==
    /\ session[s].stage = "recover" /\ Stage(s, "open")
    /\ \E done \in SUBSET {r \in OnRecord : mediator[r] = "funded"} : \E r \in OnRecord \ done :
          /\ Merged(done)
          /\ \/ mediator[r] = "funded" /\ Bounded("failures") /\ record' = Cleared(done)
             \/ /\ mediator[r] # "funded" /\ UNCHANGED left
                /\ record' \in {Cleared(done), [Cleared(done) EXCEPT ![r] = "wiped"]}
    /\ UNCHANGED <<form, asked, listed>>
(* mediator.init: the record is written, the wallet signs, the funding is  *)
(* sent, and it lands or not, whatever has become of the page.             *)
OpenRecord(s) ==
    /\ session[s].stage = "open" /\ Stage(s, "sign")
    /\ record' = [record EXCEPT ![s] = "kept"]
    /\ UNCHANGED <<form, asked, listed, mediator, left>>
RefuseFunding(s) ==
    /\ session[s].stage = "sign" /\ SwapEnds(s, NoSession)
    /\ record' \in {record, Cleared({s})}
    /\ UNCHANGED <<asked, listed, mediator, left>>
SubmitFunding(s) ==
    /\ session[s].stage = "sign" /\ Stage(s, "fund")
    /\ mediator' = [mediator EXCEPT ![s] = "sent"]
    /\ UNCHANGED <<form, asked, listed, record, left>>
FundingLands(s) ==
    /\ mediator[s] = "sent" /\ \E m \in {"funded", "none"} : mediator' = [mediator EXCEPT ![s] = m]
    /\ UNCHANGED <<form, asked, listed, session, record, left>>
Funded(s) ==
    /\ session[s].stage = "fund" /\ mediator[s] \in {"funded", "merged"} /\ Stage(s, "trade")
    /\ UNCHANGED <<form, asked, listed, mediator, record, left>>
(* init throws, because the funding failed or because its answer is lost:  *)
(* what may be in the account then waits for the next swap.                *)
FundingThrows(s) ==
    /\ session[s].stage = "fund" /\ SwapEnds(s, NoSession)
    /\ \/ mediator[s] = "none" /\ record' \in {record, Cleared({s})} /\ UNCHANGED left
       \/ mediator[s] # "none" /\ UNCHANGED record /\ Bounded("failures")
    /\ UNCHANGED <<asked, listed, mediator>>
(* runBrokerTrade resolves, or rejects: no route, an error, not connected, *)
(* a partial result, or nothing within TRADE_TIMEOUT_MS.                   *)
TradeEnds(s) ==
    /\ session[s].stage = "trade"
    /\ \/ Stage(s, "finalize") \/ Stage(s, "refund")
    /\ UNCHANGED <<form, asked, listed, mediator, record, left>>
(* dispose: the account is merged, and the answer says so, or that it does *)
(* not exist any more; either is a success, and clears the record.         *)
Disposing(s) == session[s].stage \in {"finalize", "refund"}
Merge(s) ==
    /\ mediator[s] = "funded"
    /\ \/ Disposing(s) \/ session[s].stage = "owed"
       \/ record[s] = "kept" /\ \E r \in Sessions : session[r].stage = "recover"
    /\ mediator' = [mediator EXCEPT ![s] = "merged"]
    /\ UNCHANGED <<form, asked, listed, session, record, left>>
DisposeDone(s) ==
    /\ Disposing(s) /\ mediator[s] = "merged"
    /\ record' = Cleared({s}) /\ SwapEnds(s, NoSession)
    /\ UNCHANGED <<asked, listed, mediator, left>>
(* Horizon still shows an older sequence number or balance, or its answer  *)
(* is lost.  After the last attempt the money is left for the next swap.   *)
DisposeFails(s) ==
    /\ Disposing(s) /\ Bounded("failures")
    /\ LET tried == session[s].try + 1 IN
       IF tried < Tries THEN session' = [session EXCEPT ![s].try = tried] /\ UNCHANGED form
       ELSE SwapEnds(s, Owed(tried))
    /\ UNCHANGED <<asked, listed, mediator, record>>

(*-------------------------------- the page ------------------------------*)
(* The user goes to another screen and back: a new form; the sessions of   *)
(* the old one go on.                                                      *)
Remount ==
    /\ Bounded("remounts")
    /\ form' = NewForm /\ asked' = {} /\ listed' = FALSE
    /\ session' = [s \in Sessions |-> IF Over(s) THEN session[s] ELSE [session[s] EXCEPT !.mine = FALSE]]
    /\ UNCHANGED <<mediator, record>>
(* The tab is closed, or reloaded.                                         *)
CloseTab ==
    /\ Bounded("closings")
    /\ form' = NewForm /\ asked' = {} /\ listed' = FALSE
    /\ session' = [s \in Sessions |-> IF Over(s) THEN session[s] ELSE Gone]
    /\ UNCHANGED <<mediator, record>>

SessionStep(s) ==
    \/ ExecuteSwap(s) \/ Recover(s) \/ RecoverThrows(s)
    \/ OpenRecord(s) \/ RefuseFunding(s) \/ SubmitFunding(s) \/ FundingLands(s) \/ Funded(s) \/ FundingThrows(s)
    \/ TradeEnds(s) \/ Merge(s) \/ DisposeDone(s) \/ DisposeFails(s)
SwapNext ==
    \/ EditForm \/ FetchQuote \/ Repopulate \/ \E q \in asked : Quoted(q)
    \/ \E s \in Sessions : SessionStep(s)
    \/ Remount \/ CloseTab
(* A Broker session ends by its timer at the latest; a merge is tried      *)
(* again until it is through, or has failed as often as it may.            *)
Returning == \E s \in Sessions : TradeEnds(s) \/ (Disposing(s) /\ Merge(s)) \/ DisposeDone(s)
SwapSpec == SwapInit /\ [][SwapNext]_swapVars /\ WF_swapVars(Returning)

-----------------------------------------------------------------------------
(* A quote on screen is for the amount and the asset to buy that are on    *)
(* screen, and for the asset to sell too, with one exception: when the     *)
(* list that arrives does not hold the asset to sell, repopulateSelects    *)
(* puts XLM in its place and keeps the quote for the asset that is gone,   *)
(* and the button will swap XLM on the strength of it (swap.ts:387).       *)
QuoteIsForInputs ==
    form.quote # NoQuote =>
        /\ form.quote.amount = form.amount /\ form.quote.buy = form.buy
        /\ \/ form.quote.sell = form.sell
           \/ listed /\ form.quote.sell \notin Rated /\ form.sell = XLM


(* A swap goes on to open an account of its own only when no earlier one,  *)
(* whose session ended, gave up or went with its tab, holds money: unless  *)
(* the recovery failed, met a record without an account, or an earlier one *)
(* wiped the record of an account that was still to be funded              *)
(* (executeSwap; swap.ts:565 "its mediator address stays in localStorage").*)
FundsRecovered ==
    [][\A r \in Sessions :
          /\ session[r].stage # "open" /\ session'[r].stage = "open"
          /\ left'.failures = left.failures /\ \A s \in OnRecord : mediator[s] = "funded"
          => \A s \in Sessions : Over(s) /\ record[s] # "wiped" => mediator'[s] # "funded"]_swapVars
=============================================================================

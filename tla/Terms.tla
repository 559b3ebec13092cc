-------------------------------- MODULE Terms --------------------------------
(***************************************************************************)
(* What a swap is worth and until when: the provider's offer, priced from the *)
(* mempool, its quotes, the acceptance, contract and invoice it makes of one, *)
(* and the checks of validate.rs by which the client takes or refuses them.  *)
(* Once the swap is accepted, SwapTimeline's blocks and payment follow.      *)
(*                                                                          *)
(* The provider is honest and the client follows its own policy.  Amounts   *)
(* are satoshis; the clock counts in units of QUOTE_TTL; the blocks found    *)
(* between the client's look at the tip and the acceptance are the lag.      *)
(* Lags, MaxOffers and MaxTime are bounds.                                  *)
(***************************************************************************)
EXTENDS SwapTimeline, HtlcContract

CONSTANTS
  Amounts,                   \* sats asked for
  Estimates,                 \* a server's estimates for the next block to come, 0 for none
  fee_rate_sat_vb,           \* the provider's floor
  base_fee_sat, fee_ppm, min_amount_sat, max_amount_sat,
  MIN_AMOUNT_FEE_MULTIPLE,
  invoice_expiry, UnitsPerBlock, \* the provider's setting, and ten minutes
  min_final_cltv,            \* what the client's node asks for in its invoice
  MIN_CONFIRMATIONS, MAX_REQUIRED_CONFIRMATIONS, max_fee_bps, max_total_sat,
  MAX_QUOTE_VALIDITY, ACCEPT_TIMEOUT_SLACK_BLOCKS,
  fund_within_secs,          \* how soon the provider declares it funds a held invoice
  MAX_FUND_WITHIN_SECS,
  ClientParams,              \* the client's own TimelockParams
  Policies,                  \* access policies an operator may write
  Lags,                      \* blocks between the client's look and the acceptance
  MaxOffers, MaxTime

ASSUME TermsAssumption ==
  /\ Amounts \cup Estimates \subseteq Nat /\ fee_rate_sat_vb \in Nat \ {0} /\ ClientParams \in TimelockParams
  /\ MAX_QUOTE_VALIDITY \in Nat \ {0} /\ min_final_cltv \in Nat
  /\ Lags \subseteq Nat /\ \A height \in AcceptHeights, lag \in Lags : lag <= height
  /\ MaxOffers \in Nat \ {0} /\ MaxTime \in Nat

\* The provider's prices: fees are not negative, and a swap is worth several times
\* what it costs on chain (ten times, in the code).
ASSUME PriceAssumption ==
  /\ base_fee_sat \in Nat /\ fee_ppm \in Nat /\ min_amount_sat \in Nat
  /\ MIN_AMOUNT_FEE_MULTIPLE \in Nat /\ MIN_AMOUNT_FEE_MULTIPLE >= 3
  /\ invoice_expiry \in Nat /\ UnitsPerBlock \in Nat

\* Neither ever changes while the daemon runs: validate_fund_within at startup.
ASSUME FundWithinAssumption ==
  /\ fund_within_secs \in Nat /\ MAX_FUND_WITHIN_SECS \in Nat
  /\ fund_within_secs # 0 /\ fund_within_secs <= MAX_FUND_WITHIN_SECS

\* The client's constants are small next to u32::MAX, and heights next to the lock
\* times that are dates.
ASSUME DepthAssumption ==
  /\ MIN_CONFIRMATIONS \in Nat \ {0} /\ MAX_REQUIRED_CONFIRMATIONS \in Nat
  /\ ACCEPT_TIMEOUT_SLACK_BLOCKS \in Nat
  /\ MAX_REQUIRED_CONFIRMATIONS + CLIENT_CLAIM_WINDOW + CLAIM_ABORT_MARGIN <= MaxU32
  /\ MAX_REQUIRED_CONFIRMATIONS + PROVIDER_MIN_CLAIM_WINDOW + FUNDING_GRACE <= MaxU32
  /\ \A height \in AcceptHeights, q \in ParamChoices :
       onchain_timeout(height, q) <= MaxLockHeight

VARIABLES
  offer,     \* the provider's offer of the moment: [id, onchain_fee]
  request,   \* the quote request: [offer_id, direction, amount]
  quote,     \* the quote as the client has it
  issued,    \* the quote as the provider's book has it
  creation,  \* what the client recorded before it committed: [tip, script]
  swap,      \* the acceptance with its contract, and its hold invoice
  at,        \* "start", "asked", "quoted", "checked", "creating", "accepted",
             \* "agreed", "declined" by the provider or "refused" by the client
  now

dealVars == <<offer, request, quote, issued, creation, swap>>
termsVars == <<vars, dealVars, at, now>>

-----------------------------------------------------------------------------
Nothing == [none |-> TRUE]
Directions == {"reverse", "submarine"}
Hash == "hash"
Anyone == [mode |-> "open", allowed |-> {}, blocked |-> {}]
Unreadable == [mode |-> "unreadable", allowed |-> {}, blocked |-> {}]

\* What the provider expects to spend on chain: it funds a reverse swap, and refunds
\* one in four; it claims a submarine swap.  Half as much again for the mempool to move.
FUNDING_VSIZE == 154
REFUND_RESERVE_BPS == 2500
FEE_SAFETY_BPS == 15000

expected_onchain_cost_sat(direction, rate) ==
  LET vsize == IF direction = "reverse"
               THEN FUNDING_VSIZE +
                    (spend_vsize("P2wsh", direction, "refund") * REFUND_RESERVE_BPS) \div 10000
               ELSE spend_vsize("P2wsh", direction, "claim") IN
  (vsize * rate * FEE_SAFETY_BPS) \div 10000

offer_fee_rate(estimate) ==
  resolve_fee_rate(estimate, fee_rate_sat_vb, ABSOLUTE_MAX_FEE_RATE_SAT_VB)

\* build_offer: the dearer direction.
onchain_fee(rate) ==
  CHOOSE cost \in {expected_onchain_cost_sat(d, rate) : d \in Directions} :
    \A d \in Directions : cost >= expected_onchain_cost_sat(d, rate)

TermsInit ==
  /\ Init
  /\ \E estimate \in Estimates :
       offer = [id |-> 1, onchain_fee |-> onchain_fee(offer_fee_rate(estimate))]
  /\ request = Nothing /\ quote = Nothing /\ issued = Nothing
  /\ creation = Nothing /\ swap = Nothing /\ at = "start" /\ now = 0

-----------------------------------------------------------------------------
(* 1. The provider's prices.                                               *)

\* build_offer: another id, and the cost at the fee rate of the moment; an accepted
\* swap does not look at the offer again.
RefreshOffer ==
  /\ at \in {"start", "asked", "quoted", "checked", "creating"} /\ offer.id < MaxOffers
  /\ \E estimate \in Estimates :
       offer' = [id |-> offer.id + 1, onchain_fee |-> onchain_fee(offer_fee_rate(estimate))]
  /\ UNCHANGED <<vars, request, quote, issued, creation, swap, at, now>>

effective_min_amount(o) ==
  IF min_amount_sat > o.onchain_fee * MIN_AMOUNT_FEE_MULTIPLE
  THEN min_amount_sat ELSE o.onchain_fee * MIN_AMOUNT_FEE_MULTIPLE

quote_fee(o, amount) ==
  LET service == base_fee_sat + (amount * fee_ppm) \div 1000000 IN
  [service |-> service, onchain |-> o.onchain_fee, total |-> service + o.onchain_fee]

\* The file is read for every request, and may have changed since the last; one that
\* cannot be read admits nobody.
allows_request(pol) ==
  /\ pol.mode # "unreadable"
  /\ {"account", "sender"} \cap pol.blocked = {}
  /\ pol.mode = "open" \/ "account" \in pol.allowed

-----------------------------------------------------------------------------
(* 2. Quotes.                                                              *)

\* An owner's wallet may name the offer it saw, this repository's client never does.
AskQuote ==
  /\ at = "start" /\ at' = "asked"
  /\ \E amount \in Amounts, direction \in Directions, id \in {0, offer.id} :
       request' = [offer_id |-> id, direction |-> direction, amount |-> amount]
  /\ UNCHANGED <<vars, offer, quote, issued, creation, swap, now>>

Quotable ==
  /\ request.offer_id \in {0, offer.id}
  /\ request.amount >= effective_min_amount(offer) /\ request.amount <= max_amount_sat

HandleQuoteRequest ==
  LET fee == quote_fee(offer, request.amount) IN
  /\ at = "asked" /\ Quotable /\ at' = "quoted"
  /\ \E pol \in Policies : allows_request(pol)
  /\ quote' = [direction |-> request.direction, amount |-> request.amount,
               service |-> fee.service, onchain |-> fee.onchain, fee |-> fee.total,
               total |-> request.amount + fee.total,
               htlc_timeout_blocks |-> p.htlc_timeout_blocks,
               required_confirmations |-> p.required_confirmations,
               fund_within |-> fund_within_secs, valid_until |-> now + 1]
  /\ issued' = [direction |-> request.direction, amount |-> request.amount,
                fee |-> fee.total, expires |-> now + 1]
  /\ UNCHANGED <<vars, offer, request, creation, swap, now>>

DeclineQuote ==
  /\ at = "asked" /\ at' = "declined"
  /\ \E pol \in Policies : ~(allows_request(pol) /\ Quotable)
  /\ UNCHANGED <<vars, dealVars, now>>

FeeCeiling(amount) == (amount * max_fee_bps) \div 10000
DepthIsAccepted(q) ==
  q.required_confirmations \in MIN_CONFIRMATIONS..MAX_REQUIRED_CONFIRMATIONS

validate_quote(q) ==
  /\ q.direction = request.direction /\ q.amount = request.amount
  /\ now < q.valid_until /\ q.valid_until - now <= MAX_QUOTE_VALIDITY
  /\ q.fund_within <= MAX_FUND_WITHIN_SECS
  /\ q.total = q.amount + q.fee /\ q.fee = q.service + q.onchain
  /\ q.fee <= FeeCeiling(q.amount) /\ q.total <= max_total_sat
  /\ DepthIsAccepted(q)

ReceiveQuote ==
  /\ at = "quoted" /\ at' = IF validate_quote(quote) THEN "checked" ELSE "refused"
  /\ UNCHANGED <<vars, dealVars, now>>

-----------------------------------------------------------------------------
(* 3. The swap.                                                            *)

\* The tip goes on record before the request goes out.  This repository's client asks
\* for a P2WSH contract, an owner's wallet for either.
record_creation_started ==
  /\ at = "checked" /\ at' = "creating"
  /\ \E lag \in Lags, script \in Scripts :
       creation' = [tip |-> accept - lag, script |-> script]
  /\ UNCHANGED <<vars, offer, request, quote, issued, swap, now>>

\* An invoice outlives the deepest confirmation and the claim window.
reverse_invoice_expiry_AsConfigured == invoice_expiry

reverse_invoice_expiry ==
  LET deepest == IF p.required_confirmations > MAX_REQUIRED_CONFIRMATIONS
                 THEN p.required_confirmations ELSE MAX_REQUIRED_CONFIRMATIONS
      floor == (deepest + CLIENT_CLAIM_WINDOW) * UnitsPerBlock IN
  IF invoice_expiry > floor THEN invoice_expiry ELSE floor

\* The terms are the book's, whatever the offer has become.
init_reverse_swap ==
  [direction |-> "reverse", onchain |-> issued.amount, invoice |-> issued.amount + issued.fee, timeout |-> timeout,
   contract |-> contract(creation.script, "reverse", Hash, timeout),
   invoice_expires |-> now + reverse_invoice_expiry]

init_submarine_swap ==
  [direction |-> "submarine", onchain |-> issued.amount + issued.fee,
   invoice |-> issued.amount, timeout |-> timeout,
   contract |-> contract(creation.script, "submarine", Hash, timeout),
   invoice_expires |-> 0]

Creatable ==
  /\ now < issued.expires
  /\ issued.direction = "submarine" =>
       check_submarine_invoice_cltv(accept, timeout, min_final_cltv, p)

HandleSwapRequest ==
  /\ at = "creating" /\ Creatable /\ at' = "accepted"
  /\ \E pol \in Policies : allows_request(pol)
  /\ swap' = IF issued.direction = "reverse" THEN init_reverse_swap
             ELSE init_submarine_swap
  /\ UNCHANGED <<vars, offer, request, quote, issued, creation, now>>

DeclineSwap ==
  /\ at = "creating" /\ at' = "declined"
  /\ \E pol \in Policies : ~(allows_request(pol) /\ Creatable)
  /\ UNCHANGED <<vars, dealVars, now>>

\* The client acts on its own floor of confirmations, whatever was quoted.
ClientTimelock ==
  [ClientParams EXCEPT !.required_confirmations =
     IF quote.required_confirmations > MIN_CONFIRMATIONS
     THEN quote.required_confirmations ELSE MIN_CONFIRMATIONS]

check_client_accept(height) ==
  IF quote.direction = "reverse"
  THEN check_client_reverse_accept(height, swap.timeout, ClientTimelock)
  ELSE check_client_submarine_accept(height, swap.timeout, ClientTimelock)

validate_accept ==
  LET implied == creation.tip + quote.htlc_timeout_blocks IN
  /\ swap.onchain = IF quote.direction = "reverse" THEN quote.amount ELSE quote.total
  /\ swap.timeout <= implied + ACCEPT_TIMEOUT_SLACK_BLOCKS
  /\ swap.timeout + ACCEPT_TIMEOUT_SLACK_BLOCKS >= implied
  /\ check_client_accept(creation.tip)
  /\ verify_contract(swap.contract, creation.script, quote.direction, Hash, swap.timeout)

validate_hold_invoice ==
  /\ swap.invoice = quote.total
  /\ swap.invoice_expires >= now + UnitsPerBlock *
       (ClientTimelock.required_confirmations + CLIENT_CLAIM_WINDOW)

TermsHold ==
  /\ validate_accept /\ check_client_accept(tip)
  /\ quote.direction = "reverse" => validate_hold_invoice

\* The tip is read again right before anything moves.  What a negotiation leaves
\* behind is the swap.
ReceiveAccept ==
  /\ at = "accepted" /\ TermsHold /\ at' = "agreed" /\ now' = 0
  /\ offer' = Nothing /\ request' = Nothing /\ quote' = Nothing /\ issued' = Nothing
  /\ creation' = Nothing /\ UNCHANGED <<vars, swap>>

RefuseAccept ==
  /\ at = "accepted" /\ ~TermsHold /\ at' = "refused" /\ UNCHANGED <<vars, dealVars, now>>

PayInvoice ==
  /\ at = "agreed" /\ swap.direction = "reverse" /\ ClientPays
  /\ UNCHANGED <<dealVars, at, now>>

NewBlock == at \in {"accepted", "agreed"} /\ Block /\ UNCHANGED <<dealVars, at, now>>

Tick ==
  /\ at \in {"asked", "quoted", "checked", "creating", "accepted"}
  /\ now < MaxTime /\ now' = now + 1 /\ UNCHANGED <<vars, dealVars, at>>

TermsNext ==
  \/ RefreshOffer \/ AskQuote \/ HandleQuoteRequest \/ DeclineQuote
  \/ ReceiveQuote \/ record_creation_started \/ HandleSwapRequest \/ DeclineSwap
  \/ ReceiveAccept \/ RefuseAccept \/ PayInvoice \/ NewBlock \/ Tick

-----------------------------------------------------------------------------
(* Properties.                                                             *)

\* What a client's policy may have against a provider's price and depth.
Affordable == quote.fee <= FeeCeiling(quote.amount) /\ quote.total <= max_total_sat

\* The blocks a client may take over the acceptance.
Leeway ==
  p.htlc_timeout_blocks - p.required_confirmations -
    (IF quote.direction = "reverse" THEN CLIENT_CLAIM_WINDOW + CLAIM_ABORT_MARGIN
     ELSE PROVIDER_MIN_CLAIM_WINDOW + FUNDING_GRACE)

\* A hold invoice that the client reads late.  Its floor is counted from the greatest
\* depth, where it leaves no time to read it.
InvoiceIsOld ==
  /\ quote.direction = "reverse"
  /\ now - (swap.invoice_expires - reverse_invoice_expiry) >
       UnitsPerBlock * (MAX_REQUIRED_CONFIRMATIONS - quote.required_confirmations)

\* Whatever the repricing, the blocks and the delays in between, a client refuses
\* an honest provider's quote only for its price, its depth or because it lapsed, and
\* an acceptance only because blocks went by, or the invoice's slack ("every reverse
\* swap refused at the invoice check", reverse_invoice_min_expiry_secs).  Blocks
\* before the acceptance count against the client's own ceiling on the timeout too.
HonestTermsAreTaken ==
  at = "refused" =>
    \/ /\ swap = Nothing
       /\ ~Affordable \/ ~DepthIsAccepted(quote) \/ now >= quote.valid_until
    \/ /\ swap # Nothing
       /\ \/ accept - creation.tip > ACCEPT_TIMEOUT_SLACK_BLOCKS
          \/ swap.timeout - creation.tip > ClientParams.max_timeout_blocks
          \/ tip - accept > Leeway
          \/ InvoiceIsOld

\* What the timeout leaves beyond the funding's depth, its grace and the claim window.
Slack ==
  p.htlc_timeout_blocks -
    (p.required_confirmations + FUNDING_GRACE + p.min_claim_window_blocks)

\* A client that funds within the grace of validate_params is paid for: neither
\* check_submarine_before_pay nor a missing submarine_cltv_budget ends the swap, and a
\* configuration whose slack is greater than what the payee asks for still lends that
\* much.  The startup check takes a configuration with no slack at all; that one finds
\* no budget at the last block of the grace, and fails the swap there.
PromptFundingIsPaid ==
  LET LastBlock == accept + p.required_confirmations + FUNDING_GRACE IN
  tip <= LastBlock =>
    /\ (Slack > 0 \/ tip < LastBlock) =>
         /\ check_submarine_before_pay(tip, timeout, p)
         /\ submarine_cltv_budget(tip, timeout, p) > 0
    /\ Slack > min_final_cltv =>
         check_submarine_invoice_cltv(tip, timeout, min_final_cltv, p)
=============================================================================

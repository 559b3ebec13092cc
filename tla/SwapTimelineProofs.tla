------------------------- MODULE SwapTimelineProofs -------------------------
(***************************************************************************)
(* The gates of timelock.rs agree with each other for every configuration  *)
(* and at every height, and not only for the ones TLC enumerates; and what *)
(* a negotiation and the race for its output keep, for every price, rate,  *)
(* policy and delay.                                                       *)
(***************************************************************************)
EXTENDS SpendRace, TLAPS

\* SaturatingSub is exact subtraction when it is positive.
LEMMA SaturatingSubFacts ==
  ASSUME NEW a \in Int, NEW b \in Int
  PROVE  /\ SaturatingSub(a, b) \in Nat
         /\ SaturatingSub(a, b) > 0 => a = b + SaturatingSub(a, b)
  BY DEF SaturatingSub

\* The fields of a configuration are natural numbers.
LEMMA ParamsAreNat ==
  ASSUME NEW q \in TimelockParams
  PROVE  /\ q.htlc_timeout_blocks \in Nat /\ q.required_confirmations \in Nat
         /\ q.min_claim_window_blocks \in Nat
         /\ q.refund_confirm_blocks \in Nat /\ q.ln_hold_expiry_delta \in Nat
         /\ q.late_payment_slack \in Nat /\ q.max_timeout_blocks \in Nat
  BY TimelockAssumption DEF TimelockParams, U32

\* Heights of a swap are natural numbers (the types every step preserves).
THEOREM TypeCorrect == Spec => []TypeOK
<1>1. Init => TypeOK
  BY TimelockAssumption, SwapTimelineAssumption DEF Init, TypeOK, U32
<1>2. TypeOK /\ [Next]_vars => TypeOK'
  <2> SUFFICES ASSUME TypeOK, [Next]_vars PROVE TypeOK'
    OBVIOUS
  <2> p \in TimelockParams
    BY SwapTimelineAssumption DEF TypeOK
  <2>0. reverse_invoice_cltv_delta(p) \in Nat /\ accept \in Nat
    BY ParamsAreNat, TimelockAssumption, SwapTimelineAssumption
       DEF reverse_invoice_cltv_delta, TypeOK, U32
  <2>1. CASE ClientPays
    BY <2>0, <2>1, SwapTimelineAssumption DEF TypeOK, ClientPays
  <2>2. CASE Block
    BY <2>0, <2>2 DEF TypeOK, Block
  <2>3. CASE UNCHANGED vars
    BY <2>3 DEF TypeOK, vars
  <2> QED
    BY <2>1, <2>2, <2>3 DEF Next
<1> QED
  BY <1>1, <1>2, PTL DEF Spec

\* The delta of reverse_invoice_request always outlives the refund window: the
\* on-chain timeout is fixed at accept, the Lightning expiry only when paid.
THEOREM DeltaIsEnough == Spec => []InvoiceDeltaIsEnough
<1> DEFINE IInv == TypeOK /\ InvoiceDeltaIsEnough
<1>1. Init => IInv
  <2> SUFFICES ASSUME Init PROVE InvoiceDeltaIsEnough /\ TypeOK
    OBVIOUS
  <2> QED
    BY TimelockAssumption, SwapTimelineAssumption
       DEF Init, TypeOK, InvoiceDeltaIsEnough, U32
<1>2. IInv /\ [Next]_vars => InvoiceDeltaIsEnough'
  <2> SUFFICES ASSUME IInv, [Next]_vars PROVE InvoiceDeltaIsEnough'
    OBVIOUS
  <2> p \in TimelockParams /\ accept \in Nat
    BY TimelockAssumption, SwapTimelineAssumption DEF TypeOK, U32
  <2>1. CASE ClientPays
    BY <2>1, ParamsAreNat, SwapTimelineAssumption
       DEF TypeOK, InvoiceDeltaIsEnough, ClientPays, timeout,
           onchain_timeout, required_ln_expiry, reverse_invoice_cltv_delta
  <2>2. CASE Block
    BY <2>2 DEF InvoiceDeltaIsEnough, Block, timeout, onchain_timeout
  <2>3. CASE UNCHANGED vars
    BY <2>3 DEF InvoiceDeltaIsEnough, vars, timeout, onchain_timeout
  <2> QED
    BY <2>1, <2>2, <2>3 DEF Next
<1> QED
  BY <1>1, <1>2, TypeCorrect, PTL DEF Spec

\* The provider's funding gate protects the client's claim and the provider's
\* refund at once.
THEOREM FundingGate == Spec => []FundingLeavesRoom
<1>1. TypeOK => FundingLeavesRoom
  <2> SUFFICES ASSUME TypeOK,
                      check_reverse_before_fund(tip, timeout, ln_expiry, p)
               PROVE  /\ claim_start_is_safe(tip + p.required_confirmations,
                                             timeout)
                      /\ ln_expiry - p.ln_hold_expiry_delta
                           >= timeout + p.refund_confirm_blocks
    BY DEF FundingLeavesRoom
  <2> p \in TimelockParams /\ accept \in Nat
    BY TimelockAssumption, SwapTimelineAssumption DEF TypeOK, U32
  <2>1. timeout \in Nat /\ tip \in Nat /\ ln_expiry \in Nat
    BY ParamsAreNat DEF TypeOK, timeout, onchain_timeout
  <2>2. ln_expiry - p.ln_hold_expiry_delta >= timeout + p.refund_confirm_blocks
    BY <2>1, ParamsAreNat DEF check_reverse_before_fund, required_ln_expiry
  <2>3. timeout - tip >= p.required_confirmations + CLIENT_CLAIM_WINDOW
    <3>1. SaturatingSub(timeout, tip) >= reverse_window(p)
      BY DEF check_reverse_before_fund
    <3>2. reverse_window(p) > 0
      BY ParamsAreNat, TimelockAssumption, SwapTimelineAssumption
         DEF reverse_window
    <3>3. reverse_window(p) \in Nat
      BY ParamsAreNat, TimelockAssumption DEF reverse_window
    <3>4. /\ SaturatingSub(timeout, tip) \in Nat
          /\ SaturatingSub(timeout, tip) > 0
               => timeout = tip + SaturatingSub(timeout, tip)
      BY <2>1, SaturatingSubFacts
    <3>5. timeout - tip >= reverse_window(p)
      BY <2>1, <3>1, <3>2, <3>3, <3>4
    <3> QED
      BY <2>1, <3>5, ParamsAreNat, TimelockAssumption DEF reverse_window
  <2>4. claim_start_is_safe(tip + p.required_confirmations, timeout)
    BY <2>1, <2>3, ParamsAreNat, TimelockAssumption, SwapTimelineAssumption
       DEF claim_start_is_safe
  <2> QED
    BY <2>2, <2>4
<1> QED
  BY <1>1, TypeCorrect, PTL

\* However late the payee settles, the claim window of the provider is whole.
THEOREM PayeeBudget == Spec => []PayeeCannotOutlast
<1>1. TypeOK => PayeeCannotOutlast
  <2> SUFFICES ASSUME TypeOK, submarine_cltv_budget(tip, timeout, p) > 0
               PROVE  tip + submarine_cltv_budget(tip, timeout, p)
                        + p.min_claim_window_blocks <= timeout
    BY DEF PayeeCannotOutlast
  <2> p \in TimelockParams /\ accept \in Nat
    BY TimelockAssumption, SwapTimelineAssumption DEF TypeOK, U32
  <2>1. timeout \in Nat /\ tip \in Nat
    BY ParamsAreNat DEF TypeOK, timeout, onchain_timeout
  <2>2. p.min_claim_window_blocks \in Nat
    BY ParamsAreNat
  <2> DEFINE left == SaturatingSub(timeout, tip)
             budget == SaturatingSub(left, p.min_claim_window_blocks)
  <2>3. left \in Nat /\ (left > 0 => timeout = tip + left)
    BY <2>1, SaturatingSubFacts
  <2>4. budget = submarine_cltv_budget(tip, timeout, p)
    BY DEF submarine_cltv_budget
  <2> HIDE DEF left
  <2>5. budget > 0 => left = p.min_claim_window_blocks + budget
    BY <2>2, <2>3 DEF SaturatingSub
  <2>6. budget \in Nat
    BY <2>2, <2>3 DEF SaturatingSub
  <2> HIDE DEF budget
  <2> QED
    BY <2>1, <2>2, <2>3, <2>4, <2>5, <2>6
<1> QED
  BY <1>1, TypeCorrect, PTL

\* Accepting a timeout leaves the client its confirmations and its window.
THEOREM ClientWindow == Spec => []ClientWindowIsWhole
<1>1. TypeOK => ClientWindowIsWhole
  <2> SUFFICES ASSUME TypeOK, check_client_reverse_accept(tip, timeout, p),
                      NEW used \in 0..(p.required_confirmations
                                        + CLIENT_CLAIM_WINDOW - 1)
               PROVE  claim_start_is_safe(tip + used, timeout)
    BY DEF ClientWindowIsWhole
  <2> p \in TimelockParams /\ accept \in Nat
    BY TimelockAssumption, SwapTimelineAssumption DEF TypeOK, U32
  <2>1. timeout \in Nat /\ tip \in Nat
    BY ParamsAreNat DEF TypeOK, timeout, onchain_timeout
  <2> QED
    BY <2>1, ParamsAreNat, TimelockAssumption
       DEF check_client_reverse_accept, claim_start_is_safe
<1> QED
  BY <1>1, TypeCorrect, PTL

-----------------------------------------------------------------------------
(* What spends cost.                                                       *)

Paths == {"claim", "refund"}

\* The four sizes a spend can have (spend_vsize).
LEMMA SpendVsize ==
  \A script \in Scripts, direction \in Directions, path \in Paths :
    spend_vsize(script, direction, path) \in {126, 130, 139, 140}
  BY DEF Scripts, Directions, Paths, spend_vsize, Witness, P2wshScript, ClaimLeaf, RefundLeaf, ControlBlock

\* A reverse swap costs 279 vbytes' worth on chain, all told.
LEMMA ReverseCost ==
  ASSUME NEW rate \in Nat
  PROVE  expected_onchain_cost_sat("reverse", rate) = 279 * rate
<1>1. spend_vsize("P2wsh", "reverse", "refund") = 130
  BY DEF spend_vsize, Witness, P2wshScript
<1>2. FUNDING_VSIZE + (spend_vsize("P2wsh", "reverse", "refund") * REFUND_RESERVE_BPS) \div 10000 = 186
  BY <1>1 DEF FUNDING_VSIZE, REFUND_RESERVE_BPS
<1>3. expected_onchain_cost_sat("reverse", rate) = (186 * rate * 15000) \div 10000
  BY <1>2 DEF expected_onchain_cost_sat, FEE_SAFETY_BPS
<1>4. (186 * rate * 15000) \div 10000 = 279 * rate
  OBVIOUS
<1> QED
  BY <1>3, <1>4

\* A submarine swap costs no more.
LEMMA SubmarineCost ==
  ASSUME NEW rate \in Nat
  PROVE  /\ expected_onchain_cost_sat("submarine", rate) \in Nat
         /\ expected_onchain_cost_sat("submarine", rate) <= 279 * rate
<1>1. spend_vsize("P2wsh", "submarine", "claim") = 139
  BY DEF spend_vsize, Witness, P2wshScript
<1>2. expected_onchain_cost_sat("submarine", rate) = (139 * rate * 15000) \div 10000
  BY <1>1 DEF expected_onchain_cost_sat, FEE_SAFETY_BPS
<1> QED
  BY <1>2

\* The dearer of the two is the price of an offer (build_offer).
LEMMA OnchainFee ==
  ASSUME NEW rate \in Nat
  PROVE  onchain_fee(rate) \in Nat /\ onchain_fee(rate) >= 279 * rate
<1> DEFINE costs == {expected_onchain_cost_sat(d, rate) : d \in Directions}
           top(cost) == \A d \in Directions : cost >= expected_onchain_cost_sat(d, rate)
<1>1. expected_onchain_cost_sat("reverse", rate) \in costs
  BY DEF Directions
<1>2. top(expected_onchain_cost_sat("reverse", rate))
  BY ReverseCost, SubmarineCost DEF Directions
<1>3. onchain_fee(rate) \in costs /\ top(onchain_fee(rate))
  <2>1. onchain_fee(rate) = CHOOSE cost \in costs : top(cost)
    BY DEF onchain_fee
  <2> HIDE DEF costs, top
  <2> QED
    BY <1>1, <1>2, <2>1
<1> QED
  BY <1>3, ReverseCost, SubmarineCost DEF Directions

\* The offer's rate is never below the provider's floor.
LEMMA OfferRate ==
  ASSUME NEW estimate \in Nat
  PROVE  /\ offer_fee_rate(estimate) \in Nat
         /\ offer_fee_rate(estimate) >= fee_rate_sat_vb
  BY TermsAssumption DEF offer_fee_rate, resolve_fee_rate, Larger, Smaller, ABSOLUTE_MAX_FEE_RATE_SAT_VB

\* A fee that a spend of this size can pay out of value, with an output above dust.
Payable(rate, size, value) == rate \in Nat /\ rate * size > 0 /\ value - rate * size >= DUST_THRESHOLD

\* resolve_fee_rate under fee_rate_cap: at most a fifth of what is spent, or the floor.
LEMMA FirstRate ==
  ASSUME NEW value \in Nat, NEW size \in {126, 130, 139, 140}, NEW least \in Nat \ {0},
         NEW estimate \in Nat, value >= 837 * least
  PROVE  Payable(resolve_fee_rate(estimate, least, fee_rate_cap(value, size, least)), size, value)
<1> DEFINE share == (value * DEFAULT_MAX_FEE_BPS) \div 10000
           most == share \div size
           rate == resolve_fee_rate(estimate, least, fee_rate_cap(value, size, least))
<1>1. share \in Nat /\ 5 * share <= value
  BY DEF DEFAULT_MAX_FEE_BPS
<1>2. most \in Nat /\ most * size <= share
  <2> HIDE DEF share
  <2> QED
    BY <1>1
<1>3. /\ rate \in Nat /\ rate >= least
      /\ rate <= most \/ rate = least
  <2>1. Larger(size, 1) = size
    BY DEF Larger
  <2>2. fee_rate_cap(value, size, least) = Larger(Smaller(most, ABSOLUTE_MAX_FEE_RATE_SAT_VB), least)
    BY <2>1 DEF fee_rate_cap
  <2> HIDE DEF most
  <2> QED
    BY <1>2, <2>2 DEF resolve_fee_rate, Larger, Smaller, ABSOLUTE_MAX_FEE_RATE_SAT_VB
<1> HIDE DEF share, most, rate
<1>4. rate * size <= share \/ rate = least
  BY <1>1, <1>2, <1>3
<1>5. value - rate * size >= DUST_THRESHOLD
  BY <1>1, <1>3, <1>4 DEF DUST_THRESHOLD
<1>6. rate * size > 0
  BY <1>3
<1> QED
  BY <1>3, <1>5, <1>6 DEF rate, Payable

\* Arithmetic that the solver needs spelled out.
LEMMA ProductsAreNat ==
  ASSUME NEW a \in Nat, NEW b \in Nat
  PROVE  a * b \in Nat
  OBVIOUS

LEMMA ProductGrows ==
  ASSUME NEW a \in Nat, NEW b \in Nat, NEW c \in Nat, NEW d \in Nat, a >= c, b >= d
  PROVE  a * b >= c * d
  OBVIOUS

LEMMA Distributes ==
  ASSUME NEW u \in Nat, NEW a \in Int, NEW b \in Int
  PROVE  u * (a + b) = u * a + u * b
  OBVIOUS

-----------------------------------------------------------------------------
(* The terms: what every negotiation keeps.                                *)

Quoted == {"quoted", "checked", "creating", "accepted"}
Ahead == {"start", "asked", "quoted", "checked", "creating"}
SwapFields == {"direction", "onchain", "invoice", "timeout", "contract", "invoice_expires"}

\* The heights under a configuration that passed the startup check.
ClockInv ==
  /\ p \in ParamChoices /\ validate_params(p) /\ accept \in AcceptHeights
  /\ tip \in Int /\ (at # "funded" => accept <= tip) /\ now \in Nat

Worth(amount) == amount \in Nat /\ amount >= 837 * fee_rate_sat_vb

\* The quote the client has is the book's, and at the provider's configuration.
QuoteInv ==
  /\ at \in Ahead => /\ offer.onchain_fee \in Nat
                     /\ offer.onchain_fee >= 279 * fee_rate_sat_vb
  /\ at \in Ahead => swap = Nothing
  /\ at = "asked" => request.amount \in Nat /\ request.direction \in Directions
  /\ at \in Quoted =>
       /\ quote.direction \in Directions /\ quote.direction = request.direction
       /\ quote.amount = request.amount
       /\ quote.total = quote.amount + quote.fee
       /\ quote.fee = quote.service + quote.onchain
       /\ quote.htlc_timeout_blocks = p.htlc_timeout_blocks
       /\ quote.required_confirmations = p.required_confirmations
       /\ quote.valid_until \in Nat /\ quote.valid_until - now <= 1
       /\ quote.fund_within = fund_within_secs
       /\ issued.direction = quote.direction /\ issued.amount = quote.amount
       /\ issued.fee = quote.fee /\ issued.fee \in Nat /\ Worth(issued.amount)

\* What the client checked of it, and what it wrote down.
AskedInv ==
  /\ at \in {"checked", "creating", "accepted"} => Affordable /\ DepthIsAccepted(quote)
  /\ at \in {"creating", "accepted"} =>
       /\ accept - creation.tip \in Lags /\ creation.tip \in Int
       /\ creation.script \in Scripts

\* The swap that is made of it.
SwapInv ==
  /\ at \in {"accepted", "agreed", "funded"} =>
       /\ DOMAIN swap = SwapFields
       /\ swap.timeout = timeout /\ swap.direction \in Directions
       /\ Worth(swap.onchain) /\ swap.contract.script \in Scripts
  /\ at = "accepted" =>
       /\ swap.direction = quote.direction
       /\ swap.onchain = IF quote.direction = "reverse" THEN quote.amount ELSE quote.total
       /\ quote.direction = "reverse" => swap.invoice = quote.total
       /\ swap.invoice_expires \in Int
       /\ swap.contract = contract(creation.script, quote.direction, Hash, timeout)

DealInv == ClockInv /\ QuoteInv /\ AskedInv /\ SwapInv

\* The heights that a validated configuration gives a swap.
LEMMA Clocks ==
  ASSUME ClockInv
  PROVE  /\ p \in TimelockParams /\ accept \in Nat /\ timeout \in Nat
         /\ p.htlc_timeout_blocks \in Nat /\ p.required_confirmations \in Nat
         /\ timeout = accept + p.htlc_timeout_blocks
         /\ p.min_claim_window_blocks \in Nat
         /\ p.htlc_timeout_blocks >= p.required_confirmations + FUNDING_GRACE + p.min_claim_window_blocks
         /\ timeout <= MaxLockHeight
  BY TimelockAssumption, SwapTimelineAssumption, DepthAssumption
     DEF ClockInv, TimelockParams, U32, timeout, onchain_timeout, validate_params

\* The invoice is priced for the greatest depth (reverse_invoice_min_expiry_secs).
LEMMA ExpiryIsNat ==
  ASSUME ClockInv
  PROVE  /\ reverse_invoice_expiry \in Nat
         /\ reverse_invoice_expiry >= UnitsPerBlock * (MAX_REQUIRED_CONFIRMATIONS + CLIENT_CLAIM_WINDOW)
<1> DEFINE deepest == IF p.required_confirmations > MAX_REQUIRED_CONFIRMATIONS
                      THEN p.required_confirmations ELSE MAX_REQUIRED_CONFIRMATIONS
           least == (deepest + CLIENT_CLAIM_WINDOW) * UnitsPerBlock
<1>1. deepest \in Nat /\ deepest >= MAX_REQUIRED_CONFIRMATIONS
  BY Clocks, DepthAssumption
<1> HIDE DEF deepest
<1>2. least \in Nat /\ least >= (MAX_REQUIRED_CONFIRMATIONS + CLIENT_CLAIM_WINDOW) * UnitsPerBlock
  BY <1>1, DepthAssumption, PriceAssumption, TimelockAssumption, ProductsAreNat, ProductGrows
<1>3. (MAX_REQUIRED_CONFIRMATIONS + CLIENT_CLAIM_WINDOW) * UnitsPerBlock =
      UnitsPerBlock * (MAX_REQUIRED_CONFIRMATIONS + CLIENT_CLAIM_WINDOW)
  BY DepthAssumption, PriceAssumption, TimelockAssumption
<1>4. reverse_invoice_expiry = IF invoice_expiry > least THEN invoice_expiry ELSE least
  BY DEF reverse_invoice_expiry, deepest
<1> HIDE DEF least
<1> QED
  BY <1>2, <1>3, <1>4, PriceAssumption, DepthAssumption, TimelockAssumption

\* A quote's fee is the sum of its parts.
LEMMA FeesAreNat ==
  ASSUME NEW o, o.onchain_fee \in Nat, NEW amount \in Nat
  PROVE  /\ quote_fee(o, amount).total \in Nat
         /\ quote_fee(o, amount).onchain = o.onchain_fee
         /\ quote_fee(o, amount).total = quote_fee(o, amount).service + quote_fee(o, amount).onchain
<1> DEFINE service == base_fee_sat + (amount * fee_ppm) \div 1000000
<1>1. amount * fee_ppm \in Nat
  BY PriceAssumption, ProductsAreNat
<1>2. (amount * fee_ppm) \div 1000000 \in Nat
  <2> DEFINE x == amount * fee_ppm
  <2> x \in Nat
    BY <1>1
  <2> HIDE DEF x
  <2>1. x \div 1000000 \in Nat
    OBVIOUS
  <2> QED
    BY <2>1 DEF x
<1>3. service \in Nat
  BY <1>2, PriceAssumption
<1> HIDE DEF service
<1> QED
  BY <1>3 DEF quote_fee, service

\* effective_min_amount is several times the on-chain cost.
LEMMA OfferedIsWorth ==
  ASSUME NEW o, o.onchain_fee \in Nat, o.onchain_fee >= 279 * fee_rate_sat_vb,
         NEW amount \in Nat, amount >= effective_min_amount(o)
  PROVE  Worth(amount)
<1>1. o.onchain_fee * MIN_AMOUNT_FEE_MULTIPLE >= o.onchain_fee * 3
  BY PriceAssumption, ProductGrows
<1>2. effective_min_amount(o) >= o.onchain_fee * MIN_AMOUNT_FEE_MULTIPLE
  BY PriceAssumption, ProductsAreNat DEF effective_min_amount
<1>3. o.onchain_fee * MIN_AMOUNT_FEE_MULTIPLE \in Nat /\ effective_min_amount(o) \in Nat
  BY PriceAssumption, ProductsAreNat DEF effective_min_amount
<1> QED
  BY <1>1, <1>2, <1>3, TermsAssumption DEF Worth

\* Every offer costs at least what the floor costs.
LEMMA OfferIsDear ==
  ASSUME NEW estimate \in Estimates
  PROVE  /\ onchain_fee(offer_fee_rate(estimate)) \in Nat
         /\ onchain_fee(offer_fee_rate(estimate)) >= 279 * fee_rate_sat_vb
<1>1. estimate \in Nat
  BY TermsAssumption
<1> QED
  BY <1>1, OfferRate, OnchainFee, TermsAssumption

\* The invariant of the negotiation holds before it.
LEMMA DealInit ==
  ASSUME TermsInit
  PROVE  DealInv
<1> USE DEF TermsInit
<1>1. ClockInv
  BY TimelockAssumption, SwapTimelineAssumption DEF ClockInv, Init, U32
<1>2. QuoteInv
  BY OfferIsDear DEF QuoteInv, Ahead, Quoted
<1>3. AskedInv /\ SwapInv
  BY DEF AskedInv, SwapInv
<1> QED
  BY <1>1, <1>2, <1>3 DEF DealInv

\* Every step of the negotiation keeps it.
LEMMA DealStep ==
  ASSUME DealInv, TermsNext
  PROVE  DealInv'
<1> USE DEF DealInv
<1>0. /\ p \in TimelockParams /\ accept \in Nat /\ timeout \in Nat /\ tip \in Int /\ now \in Nat
      /\ reverse_invoice_expiry \in Nat
  BY Clocks, ExpiryIsNat DEF ClockInv
<1>t. ASSUME UNCHANGED <<p, accept>> PROVE UNCHANGED timeout
  BY <1>t DEF timeout
<1>1. CASE RefreshOffer
  <2>1. ClockInv'
    BY <1>1 DEF RefreshOffer, ClockInv, vars
  <2>2. QuoteInv'
    BY <1>1, OfferIsDear DEF RefreshOffer, QuoteInv, Ahead, Quoted, vars, Worth
  <2>3. AskedInv' /\ SwapInv'
    BY <1>1 DEF RefreshOffer, AskedInv, SwapInv, vars, Affordable, DepthIsAccepted, timeout, Worth
  <2> QED
    BY <2>1, <2>2, <2>3
<1>2. CASE AskQuote
  <2>1. ClockInv'
    BY <1>2 DEF AskQuote, ClockInv, vars
  <2>2. QuoteInv'
    BY <1>2, TermsAssumption DEF AskQuote, QuoteInv, Ahead, Quoted, vars, Worth
  <2>3. AskedInv' /\ SwapInv'
    BY <1>2 DEF AskQuote, AskedInv, SwapInv
  <2> QED
    BY <2>1, <2>2, <2>3
<1>3. CASE HandleQuoteRequest
  <2> USE <1>3 DEF HandleQuoteRequest
  <2> DEFINE fee == quote_fee(offer, request.amount)
  <2>1. ClockInv'
    BY DEF ClockInv, vars
  <2>2. /\ offer.onchain_fee \in Nat /\ offer.onchain_fee >= 279 * fee_rate_sat_vb
        /\ request.amount \in Nat /\ request.direction \in Directions
        /\ request.amount >= effective_min_amount(offer)
    BY DEF QuoteInv, Ahead, Quotable
  <2>3. /\ fee.total \in Nat /\ fee.total = fee.service + fee.onchain
        /\ Worth(request.amount)
    BY <2>2, FeesAreNat, OfferedIsWorth
  <2> HIDE DEF fee
  <2>4. /\ quote' = [direction |-> request.direction, amount |-> request.amount,
               service |-> fee.service, onchain |-> fee.onchain, fee |-> fee.total,
               total |-> request.amount + fee.total,
               htlc_timeout_blocks |-> p.htlc_timeout_blocks,
               required_confirmations |-> p.required_confirmations,
               fund_within |-> fund_within_secs, valid_until |-> now + 1]
        /\ issued' = [direction |-> request.direction, amount |-> request.amount,
                fee |-> fee.total, expires |-> now + 1]
        /\ at = "asked" /\ at' = "quoted"
        /\ UNCHANGED <<vars, offer, request, creation, swap, now>>
    BY DEF fee
  <2>5. QuoteInv'
    BY <2>2, <2>3, <2>4, <1>0 DEF QuoteInv, Ahead, Quoted, vars, Worth
  <2>6. AskedInv' /\ SwapInv'
    BY <2>4 DEF AskedInv, SwapInv
  <2> QED
    BY <2>1, <2>5, <2>6
<1>4. CASE DeclineQuote \/ DeclineSwap \/ RefuseAccept
  <2>1. ClockInv'
    BY <1>4 DEF DeclineQuote, DeclineSwap, RefuseAccept, ClockInv, vars
  <2>2. QuoteInv' /\ AskedInv' /\ SwapInv'
    BY <1>4 DEF DeclineQuote, DeclineSwap, RefuseAccept, QuoteInv, AskedInv, SwapInv, Ahead, Quoted
  <2> QED
    BY <2>1, <2>2
<1>5. CASE ReceiveQuote
  <2> USE <1>5 DEF ReceiveQuote
  <2>1. ClockInv'
    BY DEF ClockInv, vars
  <2>2. QuoteInv'
    BY DEF QuoteInv, Ahead, Quoted, vars, dealVars, Worth
  <2>3. AskedInv' /\ SwapInv'
    BY DEF AskedInv, SwapInv, vars, dealVars, Affordable, DepthIsAccepted, validate_quote
  <2> QED
    BY <2>1, <2>2, <2>3
<1>6. CASE record_creation_started
  <2> USE <1>6 DEF record_creation_started
  <2>1. ClockInv'
    BY DEF ClockInv, vars
  <2>2. QuoteInv'
    BY DEF QuoteInv, Ahead, Quoted, vars, Worth
  <2>3. AskedInv'
    <3>1. PICK lag \in Lags, script \in Scripts : creation' = [tip |-> accept - lag, script |-> script]
      OBVIOUS
    <3>2. lag \in Nat
      BY TermsAssumption
    <3> QED
      BY <1>0, <3>1, <3>2 DEF AskedInv, vars, Affordable, DepthIsAccepted
  <2>4. SwapInv'
    BY DEF SwapInv
  <2> QED
    BY <2>1, <2>2, <2>3, <2>4
<1>7. CASE HandleSwapRequest
  <2> USE <1>7 DEF HandleSwapRequest
  <2>1. ClockInv'
    BY DEF ClockInv, vars
  <2>2. QuoteInv'
    BY DEF QuoteInv, Ahead, Quoted, vars, Worth
  <2>3. AskedInv'
    BY DEF AskedInv, vars, Affordable, DepthIsAccepted
  <2>4. /\ issued.direction = quote.direction /\ quote.direction \in Directions
        /\ issued.amount = quote.amount /\ issued.fee = quote.fee /\ issued.fee \in Nat
        /\ quote.total = quote.amount + quote.fee
        /\ Worth(issued.amount) /\ creation.script \in Scripts
    BY DEF QuoteInv, AskedInv, Quoted
  <2>5. Worth(issued.amount + issued.fee)
    BY <2>4, TermsAssumption DEF Worth
  <2>6. /\ DOMAIN swap' = SwapFields /\ swap'.timeout = timeout
        /\ swap'.direction = quote.direction
        /\ swap'.onchain = (IF quote.direction = "reverse" THEN quote.amount ELSE quote.total)
        /\ quote.direction = "reverse" => swap'.invoice = quote.total
        /\ swap'.invoice_expires \in Int
        /\ swap'.contract = contract(creation.script, quote.direction, Hash, timeout)
    BY <2>4, <1>0 DEF init_reverse_swap, init_submarine_swap, SwapFields, Directions
  <2>7. swap'.contract.script = creation.script
    BY <2>4, <2>6 DEF contract, htlc_p2wsh, BoltzTaprootSwap, Scripts
  <2>8. Worth(swap'.onchain)
    BY <2>4, <2>5, <2>6
  <2>9. timeout' = timeout
    BY <1>t DEF vars
  <2> QED
    <3>1. SwapInv'
      BY <2>4, <2>6, <2>7, <2>8, <2>9 DEF SwapInv, vars, Worth
    <3> QED
      BY <2>1, <2>2, <2>3, <3>1
<1>8. CASE ReceiveAccept
  <2>1. ClockInv'
    BY <1>8 DEF ReceiveAccept, ClockInv, vars
  <2>2. QuoteInv' /\ AskedInv'
    BY <1>8 DEF ReceiveAccept, QuoteInv, AskedInv, Ahead, Quoted
  <2>3. SwapInv'
    BY <1>8, <1>t DEF ReceiveAccept, SwapInv, vars, Worth
  <2> QED
    BY <2>1, <2>2, <2>3
<1>9. CASE PayInvoice
  <2> USE <1>9 DEF PayInvoice, ClientPays, dealVars
  <2>1. ClockInv'
    BY DEF ClockInv
  <2>2. QuoteInv' /\ AskedInv'
    BY DEF QuoteInv, AskedInv, Ahead, Quoted
  <2>3. SwapInv'
    BY <1>t DEF SwapInv, Worth
  <2> QED
    BY <2>1, <2>2, <2>3
<1>10. CASE NewBlock
  <2> USE <1>10 DEF NewBlock, Block, dealVars
  <2>1. ClockInv'
    BY <1>0 DEF ClockInv
  <2>2. QuoteInv'
    BY DEF QuoteInv, Ahead, Quoted, Worth
  <2>3. AskedInv'
    BY DEF AskedInv, Affordable, DepthIsAccepted
  <2>4. SwapInv'
    BY <1>t DEF SwapInv, Worth
  <2> QED
    BY <2>1, <2>2, <2>3, <2>4
<1>11. CASE Tick
  <2> USE <1>11 DEF Tick, vars, dealVars
  <2>1. ClockInv'
    BY <1>0 DEF ClockInv
  <2>2. QuoteInv'
    BY <1>0 DEF QuoteInv, Ahead, Quoted, Worth
  <2>3. AskedInv'
    BY DEF AskedInv, Affordable, DepthIsAccepted
  <2>4. SwapInv'
    BY <1>t DEF SwapInv, Worth
  <2> QED
    BY <2>1, <2>2, <2>3, <2>4
<1> QED
  BY <1>1, <1>2, <1>3, <1>4, <1>5, <1>6, <1>7, <1>8, <1>9, <1>10, <1>11 DEF TermsNext

-----------------------------------------------------------------------------
(* Refusals.                                                               *)

\* An acceptance that is not late passes validate_accept, the checks at today's tip
\* and validate_hold_invoice.
LEMMA TermsHoldInTime ==
  ASSUME DealInv, at = "accepted",
         accept - creation.tip <= ACCEPT_TIMEOUT_SLACK_BLOCKS,
         swap.timeout - creation.tip <= ClientParams.max_timeout_blocks,
         tip - accept <= Leeway, ~InvoiceIsOld
  PROVE  TermsHold
<1> USE DEF DealInv
<1>0. /\ p \in TimelockParams /\ accept \in Nat /\ timeout \in Nat /\ tip \in Int /\ now \in Nat
      /\ accept <= tip /\ timeout = accept + p.htlc_timeout_blocks
      /\ p.htlc_timeout_blocks \in Nat /\ p.required_confirmations \in Nat
      /\ timeout <= MaxLockHeight
      /\ reverse_invoice_expiry \in Nat
      /\ reverse_invoice_expiry >= UnitsPerBlock * (MAX_REQUIRED_CONFIRMATIONS + CLIENT_CLAIM_WINDOW)
  BY Clocks, ExpiryIsNat DEF ClockInv
<1>1. /\ quote.direction \in Directions
      /\ quote.total = quote.amount + quote.fee
      /\ quote.htlc_timeout_blocks = p.htlc_timeout_blocks
      /\ quote.required_confirmations = p.required_confirmations
  BY DEF QuoteInv, Quoted
<1>2. /\ p.required_confirmations >= MIN_CONFIRMATIONS
      /\ p.required_confirmations <= MAX_REQUIRED_CONFIRMATIONS
      /\ p.required_confirmations >= 1
      /\ creation.tip \in Int /\ creation.tip <= accept /\ creation.script \in Scripts
  BY <1>0, <1>1, DepthAssumption, TermsAssumption DEF AskedInv, DepthIsAccepted
<1>3. /\ swap.timeout = timeout
      /\ swap.onchain = (IF quote.direction = "reverse" THEN quote.amount ELSE quote.total)
      /\ quote.direction = "reverse" => swap.invoice = quote.total
      /\ swap.invoice_expires \in Int
      /\ swap.contract = contract(creation.script, quote.direction, Hash, timeout)
  BY DEF SwapInv
<1>4. /\ ClientTimelock.required_confirmations = p.required_confirmations
      /\ ClientTimelock.max_timeout_blocks = ClientParams.max_timeout_blocks
  <2> DEFINE depth == IF quote.required_confirmations > MIN_CONFIRMATIONS
                      THEN quote.required_confirmations ELSE MIN_CONFIRMATIONS
  <2>1. depth = p.required_confirmations
    BY <1>0, <1>1, <1>2, DepthAssumption
  <2>2. ClientTimelock = [ClientParams EXCEPT !.required_confirmations = depth]
    BY DEF ClientTimelock
  <2> HIDE DEF depth
  <2>3. ClientParams \in TimelockParams
    BY TermsAssumption
  <2>4. DOMAIN ClientParams = {"htlc_timeout_blocks", "required_confirmations",
          "min_claim_window_blocks", "refund_confirm_blocks", "ln_hold_expiry_delta",
          "late_payment_slack", "max_timeout_blocks"}
    BY <2>3 DEF TimelockParams
  <2> QED
    BY <2>1, <2>2, <2>4
<1>5. ASSUME NEW height \in Int, creation.tip <= height, height - accept <= Leeway
      PROVE  check_client_accept(height)
  <2> DEFINE need == p.required_confirmations +
               (IF quote.direction = "reverse" THEN CLIENT_CLAIM_WINDOW + CLAIM_ABORT_MARGIN
                ELSE PROVIDER_MIN_CLAIM_WINDOW + FUNDING_GRACE)
  <2>1. timeout - height >= need /\ need >= 1 /\ need <= MaxU32
    BY <1>0, <1>2, <1>5, TimelockAssumption, DepthAssumption DEF Leeway
  <2>2. check_timeout_ceiling(height, swap.timeout, ClientTimelock)
    <3>1. timeout > height
      BY <1>0, <1>2, <2>1, TimelockAssumption
    <3>2. timeout - height <= ClientTimelock.max_timeout_blocks
      <4>1. ClientParams.max_timeout_blocks \in Nat
        BY TermsAssumption, TimelockAssumption DEF TimelockParams, U32
      <4> QED
        BY <1>0, <1>2, <1>3, <1>4, <1>5, <4>1
    <3> QED
      BY <1>3, <3>1, <3>2 DEF check_timeout_ceiling
  <2>3. CASE quote.direction = "reverse"
    BY <1>0, <1>2, <1>3, <1>4, <2>1, <2>2, <2>3, TimelockAssumption
       DEF check_client_accept, check_client_reverse_accept, Fits
  <2>4. CASE quote.direction # "reverse"
    BY <1>0, <1>2, <1>3, <1>4, <2>1, <2>2, <2>4, TimelockAssumption
       DEF check_client_accept, check_client_submarine_accept, Fits
  <2> QED
    BY <2>3, <2>4
<1>6. check_client_accept(creation.tip) /\ check_client_accept(tip)
  <2>1. Leeway \in Int
    BY <1>0, TimelockAssumption DEF Leeway
  <2> QED
    BY <1>0, <1>2, <1>5, <2>1
<1>7. verify_contract(swap.contract, creation.script, quote.direction, Hash, swap.timeout)
  <2>1. swap.contract.script = creation.script
    BY <1>2, <1>3 DEF contract, htlc_p2wsh, BoltzTaprootSwap, Scripts
  <2>2. timeout \in 1..MaxLockHeight
    <3>1. /\ p.min_claim_window_blocks \in Nat
          /\ p.htlc_timeout_blocks >= p.required_confirmations + FUNDING_GRACE + p.min_claim_window_blocks
      BY Clocks
    <3>2. timeout >= 1
      BY <1>0, <1>2, <3>1, TimelockAssumption
    <3>3. MaxLockHeight \in Nat
      BY SMT DEF MaxLockHeight
    <3> QED
      BY <1>0, <3>2, <3>3
  <2>3. claimer(quote.direction) # refunder(quote.direction)
    BY DEF claimer, refunder
  <2> QED
    BY <1>3, <2>1, <2>2, <2>3 DEF verify_contract, validate_parameters
<1>8. validate_accept
  <2> DEFINE implied == creation.tip + quote.htlc_timeout_blocks
  <2>1. timeout <= implied + ACCEPT_TIMEOUT_SLACK_BLOCKS /\ timeout + ACCEPT_TIMEOUT_SLACK_BLOCKS >= implied
    BY <1>0, <1>1, <1>2, DepthAssumption
  <2> QED
    BY <1>3, <1>6, <1>7, <2>1 DEF validate_accept
<1>9. ASSUME quote.direction = "reverse" PROVE validate_hold_invoice
  <2> DEFINE need == UnitsPerBlock * (p.required_confirmations + CLIENT_CLAIM_WINDOW)
             spare == UnitsPerBlock * (MAX_REQUIRED_CONFIRMATIONS - p.required_confirmations)
  <2>1. need + spare = UnitsPerBlock * (MAX_REQUIRED_CONFIRMATIONS + CLIENT_CLAIM_WINDOW)
    BY <1>0, PriceAssumption, DepthAssumption, TimelockAssumption, Distributes
  <2>2. need \in Nat /\ spare \in Int
    BY <1>0, PriceAssumption, DepthAssumption, TimelockAssumption, ProductsAreNat
  <2>3. now - (swap.invoice_expires - reverse_invoice_expiry) <= spare
    BY <1>0, <1>1, <1>3, <1>9, <2>2 DEF InvoiceIsOld
  <2>4. swap.invoice_expires >= now + need
    <3> HIDE DEF need, spare
    <3> QED
      BY <1>0, <1>3, <2>1, <2>2, <2>3
  <2> QED
    BY <1>3, <1>4, <1>9, <2>4 DEF validate_hold_invoice
<1> QED
  BY <1>6, <1>8, <1>9 DEF TermsHold

\* A quote that is affordable, deep enough and not lapsed passes validate_quote.
LEMMA QuoteIsFine ==
  ASSUME DealInv, at = "quoted", Affordable, DepthIsAccepted(quote), now < quote.valid_until
  PROVE  validate_quote(quote)
  BY TermsAssumption, FundWithinAssumption DEF DealInv, ClockInv, QuoteInv, Quoted, Affordable, validate_quote

\* A refusal names its reason at the step that makes it.
LEMMA RefusalStep ==
  ASSUME DealInv, HonestTermsAreTaken, TermsNext
  PROVE  HonestTermsAreTaken'
<1> USE DEF HonestTermsAreTaken
<1>1. CASE ReceiveQuote
  <2> USE <1>1 DEF ReceiveQuote
  <2> SUFFICES ASSUME at' = "refused" PROVE HonestTermsAreTaken'
    OBVIOUS
  <2>1. ~validate_quote(quote) /\ at = "quoted"
    OBVIOUS
  <2>2. ~Affordable \/ ~DepthIsAccepted(quote) \/ ~(now < quote.valid_until)
    BY <2>1, QuoteIsFine
  <2>3. now \in Nat /\ quote.valid_until \in Nat /\ swap = Nothing
    BY <2>1 DEF DealInv, ClockInv, QuoteInv, Quoted, Ahead
  <2>4. ~Affordable' \/ ~DepthIsAccepted(quote)' \/ (now >= quote.valid_until)'
    BY <2>2, <2>3 DEF dealVars, Affordable, DepthIsAccepted
  <2> QED
    BY <2>3, <2>4 DEF dealVars
<1>2. CASE RefuseAccept
  <2> USE <1>2 DEF RefuseAccept
  <2>1. /\ accept \in Int /\ tip \in Int /\ creation.tip \in Int /\ Leeway \in Int /\ now \in Int
        /\ ACCEPT_TIMEOUT_SLACK_BLOCKS \in Int
        /\ swap.timeout \in Int /\ ClientParams.max_timeout_blocks \in Int
    BY Clocks, TermsAssumption, DepthAssumption, TimelockAssumption
       DEF DealInv, ClockInv, AskedInv, SwapInv, Leeway, TimelockParams, U32
  <2>2. \/ accept - creation.tip > ACCEPT_TIMEOUT_SLACK_BLOCKS
        \/ swap.timeout - creation.tip > ClientParams.max_timeout_blocks
        \/ tip - accept > Leeway \/ InvoiceIsOld
    BY <2>1, TermsHoldInTime
  <2>3. swap # Nothing
    BY DEF DealInv, SwapInv, SwapFields, Nothing
  <2>4. UNCHANGED <<accept, creation, swap, tip, quote, now, p>>
    BY DEF vars, dealVars
  <2>5. Leeway' = Leeway /\ InvoiceIsOld' = InvoiceIsOld
    BY <2>4 DEF Leeway, InvoiceIsOld, reverse_invoice_expiry
  <2> QED
    BY <2>2, <2>3, <2>4, <2>5
<1>3. CASE TermsNext /\ ~ReceiveQuote /\ ~RefuseAccept
  <2>1. at' # "refused"
    BY <1>3 DEF TermsNext, RefreshOffer, AskQuote, HandleQuoteRequest, DeclineQuote,
      record_creation_started, HandleSwapRequest, DeclineSwap, ReceiveAccept, PayInvoice, NewBlock, Tick
  <2> QED
    BY <2>1
<1> QED
  BY <1>1, <1>2, <1>3

-----------------------------------------------------------------------------
(* The race: what the driver remembers.                                    *)

Parties == {"client", "provider"}
DriverFields == {"pc", "rate", "next", "live", "ours", "listed", "found"}
Full == Len(record) = MAX_TRACKED_OUR_SPENDS
Looping == {"first", "poll", "check", "late", "cpfp", "bump", "again", "lost", "won"}

\* Before the funding nothing of the race has begun.
QuietInv ==
  at # "funded" =>
    /\ us = "nobody" /\ mem = Nothing /\ mined = Nothing /\ known = {}
    /\ driver = Idle /\ record = <<>> /\ unheard = {}

\* The shapes of what the race moves, and where its spends come from.
ShapeInv ==
  /\ at = "funded" => us \in Parties
  /\ DOMAIN driver = DriverFields /\ driver.rate \in Nat /\ driver.next \in Nat
  /\ record \in Seq(Nat) /\ Len(record) <= MAX_TRACKED_OUR_SPENDS
  /\ known \subseteq Parties \X Nat
  /\ mem # Nothing => DOMAIN mem = {"by", "rate", "pays"} /\ <<mem.by, mem.rate>> \in known
  /\ mined # Nothing => <<mined.by, mined.rate>> \in known

\* What the driver knows of a spend of its own that nodes have.
Remembered(rate) ==
  /\ rate \in our_spends
  /\ driver.pc = "enter" => rate \in driver.listed
  /\ driver.pc \in Looping =>
       /\ rate \in driver.ours
       /\ us = "provider" => rate \in driver.listed

SpendInv ==
  at = "funded" /\ Claiming =>
    \A rate \in Nat : <<us, rate>> \in known =>
      rate \in unheard \/ Full \/ Remembered(rate)

RaceInv == QuietInv /\ ShapeInv /\ SpendInv

\* A funded swap pays for its own sweep many times over.
LEMMA VsizeFacts ==
  ASSUME DealInv, ShapeInv, at = "funded"
  PROVE  vsize \in {126, 130, 139, 140} /\ swap.onchain \in Nat /\ swap.timeout \in Nat
         /\ swap.onchain >= 837 * floor /\ floor \in Nat \ {0}
<1>1. swap.contract.script \in Scripts /\ swap.direction \in Directions
  BY DEF DealInv, SwapInv
<1>2. Path(us) \in Paths
  BY DEF Path, Paths
<1> QED
  BY <1>1, <1>2, SpendVsize, Clocks, TermsAssumption DEF DealInv, SwapInv, Worth, vsize, floor

\* The first claim or refund can be built at today's rate.
LEMMA FirstRateFacts ==
  ASSUME DealInv, ShapeInv, at = "funded", NEW estimate \in Nat
  PROVE  LET rate == resolve_fee_rate(estimate, floor, cap) IN rate \in Nat /\ Buildable(rate)
<1> DEFINE rate == resolve_fee_rate(estimate, floor, cap)
<1>1. rate \in Nat /\ rate * vsize > 0 /\ swap.onchain - rate * vsize >= DUST_THRESHOLD
  <2>1. cap = fee_rate_cap(swap.onchain, vsize, floor)
    BY DEF cap
  <2>2. /\ vsize \in {126, 130, 139, 140} /\ swap.onchain \in Nat
        /\ swap.onchain >= 837 * floor /\ floor \in Nat \ {0}
    BY VsizeFacts
  <2>3. Payable(rate, vsize, swap.onchain)
    BY <2>1, <2>2, FirstRate
  <2> QED
    BY <2>3 DEF Payable
<1> QED
  BY <1>1 DEF Buildable, CanBuild

\* deadline_fee_rate returns a rate.
LEMMA NextRateIsNat ==
  ASSUME DealInv, ShapeInv, at = "funded", NEW estimate \in Markets
  PROVE  deadline_fee_rate(tip, deadline, driver.rate, estimate, floor, cap) \in Nat
<1>1. tip \in Int /\ deadline \in Int /\ driver.rate \in Nat /\ floor \in Nat
  BY VsizeFacts, TimelockAssumption DEF DealInv, ClockInv, ShapeInv, deadline, NoDeadline
<1>2. cap \in Nat
  <2>1. vsize \in {126, 130, 139, 140} /\ swap.onchain \in Nat
    BY VsizeFacts
  <2>2. (swap.onchain * DEFAULT_MAX_FEE_BPS) \div 10000 \in Nat
    BY <2>1 DEF DEFAULT_MAX_FEE_BPS
  <2> DEFINE share == (swap.onchain * DEFAULT_MAX_FEE_BPS) \div 10000
  <2>3. share \div Larger(vsize, 1) \in Nat
    <3> HIDE DEF share
    <3>1. share \in Nat
      BY <2>2 DEF share
    <3>2. Larger(vsize, 1) = vsize
      BY <2>1 DEF Larger
    <3> QED
      BY <2>1, <3>1, <3>2
  <2> QED
    BY <1>1, <2>3 DEF cap, fee_rate_cap, Larger, Smaller, ABSOLUTE_MAX_FEE_RATE_SAT_VB
<1> DEFINE remaining == IF deadline = NoDeadline THEN 100 ELSE Larger(deadline - tip, 0)
           least == Larger(driver.rate + driver.rate \div 4 + 1, floor)
<1>3. remaining \in Nat /\ least \in Nat
  BY <1>1 DEF Larger
<1>4. target_for_remaining(remaining) \in {1, 2, 3, 6, 12}
  <2> HIDE DEF remaining
  <2> QED
    BY <1>3 DEF target_for_remaining
<1>5. estimate[target_for_remaining(remaining)] \in Nat
  BY <1>4, RaceAssumption
<1>6. deadline_fee_rate(tip, deadline, driver.rate, estimate, floor, cap) =
        IF remaining <= 2 THEN Larger(cap, floor)
        ELSE Smaller(Larger(estimate[target_for_remaining(remaining)], least), Larger(cap, floor))
  BY DEF deadline_fee_rate
<1> HIDE DEF remaining, least
<1> QED
  BY <1>1, <1>2, <1>3, <1>5, <1>6 DEF Larger, Smaller

\* note_our_spend forgets only once the list is full, and then it stays full.
LEMMA NoteFacts ==
  ASSUME record \in Seq(Nat), Len(record) <= MAX_TRACKED_OUR_SPENDS,
         NEW rate \in Nat, note_our_spend(rate)
  PROVE  /\ record' \in Seq(Nat) /\ Len(record') <= MAX_TRACKED_OUR_SPENDS
         /\ Full => Full'
         /\ Full' \/ (our_spends \subseteq our_spends' /\ rate \in our_spends')
<1> DEFINE longer == Append(record, rate)
<1>0. MAX_TRACKED_OUR_SPENDS \in Nat \ {0}
  BY RaceAssumption
<1>1. /\ longer \in Seq(Nat) /\ Len(longer) = Len(record) + 1
      /\ \A i \in 1..Len(record) : longer[i] = record[i]
      /\ longer[Len(record) + 1] = rate
  OBVIOUS
<1>2. CASE IsRecorded(rate)
  BY <1>2 DEF note_our_spend, IsRecorded, our_spends, Full
<1>3. CASE ~IsRecorded(rate) /\ Len(longer) > MAX_TRACKED_OUR_SPENDS
  <2>1. record' = Tail(longer)
    BY <1>3 DEF note_our_spend
  <2>2. longer # << >> /\ Len(record) \in Nat
    BY <1>1
  <2>3. Tail(longer) \in Seq(Nat) /\ Len(Tail(longer)) = Len(record)
    <3> HIDE DEF longer
    <3> QED
      BY <1>1, <2>2
  <2>4. Len(record) = MAX_TRACKED_OUR_SPENDS
    BY <1>0, <1>1, <1>3, <2>2
  <2> QED
    BY <2>1, <2>3, <2>4 DEF Full
<1>4. CASE ~IsRecorded(rate) /\ ~(Len(longer) > MAX_TRACKED_OUR_SPENDS)
  <2>1. record' = longer
    BY <1>4 DEF note_our_spend
  <2>2. Len(record) \in Nat /\ Len(longer) \in Nat /\ DOMAIN record = 1..Len(record)
        /\ DOMAIN longer = 1..(Len(record) + 1)
    BY <1>1
  <2>3. Len(longer) <= MAX_TRACKED_OUR_SPENDS /\ ~Full
    <3>1. Len(longer) <= MAX_TRACKED_OUR_SPENDS
      <4> HIDE DEF longer
      <4> QED
        BY <1>0, <1>4, <2>2
    <3>2. Len(longer) = Len(record) + 1
      BY <1>1
    <3>3. Len(record) \in Nat /\ Len(record) + 1 <= MAX_TRACKED_OUR_SPENDS
      BY <2>2, <3>1, <3>2, Zenon
    <3>4. Len(record) # MAX_TRACKED_OUR_SPENDS
      BY <1>0, <3>3
    <3> QED
      BY <3>1, <3>4 DEF Full
  <2>4. our_spends \subseteq our_spends'
    <3> SUFFICES ASSUME NEW i \in DOMAIN record PROVE record[i] \in our_spends'
      BY DEF our_spends
    <3>1. i \in DOMAIN longer /\ longer[i] = record[i]
      BY <1>1, <2>2
    <3> QED
      BY <2>1, <3>1 DEF our_spends
  <2>5. rate \in our_spends'
    <3>1. Len(record) + 1 \in DOMAIN longer
      BY <2>2
    <3> QED
      BY <1>1, <2>1, <3>1 DEF our_spends
  <2> QED
    BY <1>1, <2>1, <2>3, <2>4, <2>5
<1> QED
  BY <1>2, <1>3, <1>4

\* The race leaves the terms alone.
LEMMA FramedDeal ==
  ASSUME DealInv, at = "funded", Frame, tip' \in Int
  PROVE  DealInv' /\ at' = "funded"
<1> USE DEF Frame, dealVars
<1>1. ClockInv'
  BY DEF DealInv, ClockInv
<1>2. QuoteInv' /\ AskedInv'
  BY DEF DealInv, QuoteInv, AskedInv, Ahead, Quoted
<1>3. SwapInv'
  BY DEF DealInv, SwapInv, timeout, Worth
<1> QED
  BY <1>1, <1>2, <1>3 DEF DealInv

\* A step that nodes see nothing of, and that lists what was listed.
LEMMA UnseenStep ==
  ASSUME SpendInv, Frame, known' = known, record' = record, unheard' = unheard,
         \A rate \in Nat : Claiming /\ Remembered(rate) => Remembered(rate)'
  PROVE  SpendInv'
  BY DEF SpendInv, Frame, dealVars, Full, Claiming

\* An answered broadcast, and one of which the driver learns nothing.
LEMMA AnnounceStep ==
  ASSUME DealInv, RaceInv, at = "funded", driver.pc \in {"first", "bump", "again"},
         Frame, NEW rate \in Nat, Announce(rate)
  PROVE  ShapeInv' /\ SpendInv' /\ driver'.pc \in {"check", "cpfp", "idle"}
<1> USE DEF RaceInv
<1> DEFINE list == IF Claiming /\ us = "provider" THEN driver.listed \cup {rate} ELSE driver.listed
<1>0. /\ record \in Seq(Nat) /\ Len(record) <= MAX_TRACKED_OUR_SPENDS /\ us \in Parties
      /\ DOMAIN driver = DriverFields /\ driver.rate \in Nat /\ driver.next \in Nat
  BY DEF ShapeInv
<1>1. /\ record' \in Seq(Nat) /\ Len(record') <= MAX_TRACKED_OUR_SPENDS
      /\ Full => Full'
      /\ Full' \/ (our_spends \subseteq our_spends' /\ rate \in our_spends')
  BY <1>0, NoteFacts DEF Announce
<1>2. us' = us /\ (Claiming <=> Claiming') /\ at' = at
  BY DEF Frame, dealVars, Claiming
<1>3. ASSUME Enter(us, rate)
      PROVE  /\ known' \subseteq Parties \X Nat /\ mined' = mined
             /\ mem' # Nothing => DOMAIN mem' = {"by", "rate", "pays"} /\ <<mem'.by, mem'.rate>> \in known'
             /\ mined' # Nothing => <<mined'.by, mined'.rate>> \in known'
             /\ \A r \in Nat : <<us, r>> \in known' => r = rate \/ <<us, r>> \in known
  BY <1>0, <1>3 DEF Enter, ShapeInv
<1>4. CASE /\ Enter(us, rate) /\ UNCHANGED unheard
           /\ driver' = [driver EXCEPT !.rate = rate, !.live = rate, !.next = 0,
                       !.pc = "check", !.listed = list, !.ours = @ \cup {rate}]
  <2>1. /\ DOMAIN driver' = DriverFields /\ driver'.rate \in Nat /\ driver'.next \in Nat
        /\ driver'.pc = "check" /\ driver'.listed = list /\ driver'.ours = driver.ours \cup {rate}
    BY <1>0, <1>4 DEF DriverFields
  <2>2. ShapeInv'
    BY <1>0, <1>1, <1>2, <1>3, <1>4, <2>1 DEF ShapeInv
  <2>3. SpendInv'
    <3> SUFFICES ASSUME Claiming, NEW r \in Nat, <<us, r>> \in known', ~Full'
                 PROVE  r \in unheard' \/ Remembered(r)'
      BY <1>2 DEF SpendInv
    <3>1. r = rate \/ r \in unheard \/ Remembered(r)
      BY <1>1, <1>3, <1>4 DEF SpendInv
    <3>2. CASE r = rate
      BY <1>1, <1>2, <2>1, <3>2 DEF Remembered
    <3>3. CASE Remembered(r)
      BY <1>1, <1>2, <2>1, <3>3 DEF Remembered, Looping
    <3> QED
      BY <1>4, <3>1, <3>2, <3>3
  <2> QED
    BY <2>1, <2>2, <2>3
<1>5. CASE /\ \/ UNCHANGED <<chainVars, unheard>>
              \/ Enter(us, rate) /\ unheard' = unheard \cup {rate}
           /\ driver' = IF driver.pc = "first" THEN Idle
                     ELSE [driver EXCEPT !.listed = list,
                             !.pc = IF driver.pc = "bump" THEN "cpfp" ELSE "check"]
  <2>1. /\ DOMAIN driver' = DriverFields /\ driver'.rate \in Nat /\ driver'.next \in Nat
        /\ driver'.pc \in {"check", "cpfp", "idle"}
        /\ driver'.pc # "idle" => driver'.listed = list /\ driver'.ours = driver.ours
    BY <1>0, <1>5 DEF DriverFields, Idle
  <2>2. ShapeInv'
    BY <1>0, <1>1, <1>2, <1>3, <1>5, <2>1 DEF ShapeInv, chainVars
  <2>3. SpendInv'
    <3> SUFFICES ASSUME Claiming, NEW r \in Nat, <<us, r>> \in known', ~Full'
                 PROVE  r \in unheard' \/ Remembered(r)'
      BY <1>2 DEF SpendInv
    <3>1. r \in unheard' \/ (r \in unheard \/ Remembered(r))
      BY <1>1, <1>3, <1>5 DEF SpendInv, chainVars
    <3>2. CASE Remembered(r)
      BY <1>1, <1>2, <2>1, <3>2 DEF Remembered, Looping
    <3> QED
      BY <1>5, <3>1, <3>2
  <2> QED
    BY <2>1, <2>2, <2>3
<1> QED
  <2>1. Announce(rate) <=>
     /\ note_our_spend(rate)
     /\ \/ /\ Accepts(us, rate) /\ Enter(us, rate) /\ NoFault /\ UNCHANGED unheard
           /\ driver' = [driver EXCEPT !.rate = rate, !.live = rate, !.next = 0,
                       !.pc = "check", !.listed = list, !.ours = @ \cup {rate}]
        \/ /\ \/ ~Accepts(us, rate) /\ UNCHANGED <<chainVars, unheard>> /\ NoFault
              \/ /\ Accepts(us, rate) /\ Enter(us, rate) /\ Fault
                 /\ unheard' = unheard \cup {rate}
              \/ Accepts(us, rate) /\ UNCHANGED <<chainVars, unheard>> /\ Fault
           /\ driver' = IF driver.pc = "first" THEN Idle
                     ELSE [driver EXCEPT !.listed = list,
                             !.pc = IF driver.pc = "bump" THEN "cpfp" ELSE "check"]
    BY DEF Announce
  <2> HIDE DEF list
  <2> QED
    BY <1>4, <1>5, <2>1

\* What a turn of the loop leaves, when it does not take the spend for another's.
Turns(alive, bid, pc) == driver' = [driver EXCEPT !.live = alive, !.next = bid, !.pc = pc]

LEMMA PollMoves ==
  ASSUME DealInv, ShapeInv, Poll
  PROVE  \/ /\ Exists /\ ~IsOurs(Seen, driver.ours)
            /\ driver' = [driver EXCEPT !.pc = "lost", !.found = Seen]
         \/ \E alive, bid : \E pc \in {"won", "again", "bump", "check"} :
              bid \in Nat /\ Turns(alive, bid, pc)
<1> USE DEF Poll
<1> SUFFICES ASSUME ~(Exists /\ ~IsOurs(Seen, driver.ours))
             PROVE  \E alive, bid : \E pc \in {"won", "again", "bump", "check"} :
                      bid \in Nat /\ Turns(alive, bid, pc)
  OBVIOUS
<1>1. PICK estimate \in Markets :
 LET live == IF Exists THEN Seen.rate ELSE driver.live
     depth == Confirmations(live)
     next == deadline_fee_rate(tip, deadline, driver.rate, estimate, floor, cap)
     bump == depth = 0 /\ next > driver.rate /\ Buildable(next) IN
 driver' = [driver EXCEPT !.live = live, !.next = IF bump THEN next ELSE 0,
   !.pc = CASE depth >= FINALITY_DEPTH -> "won"
            [] depth = -1 /\ Buildable(driver.rate) -> "again"
            [] bump -> "bump"
            [] OTHER -> "check"]
  OBVIOUS
<1> DEFINE live == IF Exists THEN Seen.rate ELSE driver.live
     depth == Confirmations(live)
     next == deadline_fee_rate(tip, deadline, driver.rate, estimate, floor, cap)
     bump == depth = 0 /\ next > driver.rate /\ Buildable(next)
     pc == CASE depth >= FINALITY_DEPTH -> "won"
            [] depth = -1 /\ Buildable(driver.rate) -> "again"
            [] bump -> "bump"
            [] OTHER -> "check"
<1>2. next \in Nat
  BY NextRateIsNat
<1>3. driver' = [driver EXCEPT !.live = live, !.next = IF bump THEN next ELSE 0, !.pc = pc]
  BY <1>1
<1>4. pc \in {"won", "again", "bump", "check"}
  <2> HIDE DEF bump, depth
  <2> QED
    BY Zenon
<1> DEFINE offered == IF bump THEN next ELSE 0
<1>5. Turns(live, offered, pc)
  BY <1>3 DEF Turns
<1>6. offered \in Nat
  <2> HIDE DEF bump, next
  <2> QED
    BY <1>2
<1> HIDE DEF live, depth, next, bump, pc, offered
<1>7. \E place \in {"won", "again", "bump", "check"} : offered \in Nat /\ Turns(live, offered, place)
  BY <1>4, <1>5, <1>6
<1> QED
  BY <1>7

\* The moves of the driver between its first broadcast and its end that are not a look.
LEMMA OtherMoves ==
  ASSUME ShapeInv,
         Crash \/ Start \/ StartAfterSpend \/ YieldToClaim \/ BumpByChild \/ Check \/ Late \/ Lost
  PROVE  /\ DOMAIN driver' = DriverFields /\ driver'.rate \in Nat /\ driver'.next \in Nat
         /\ driver'.pc \notin {"first", "lost"}
<1> DEFINE Goal == /\ DOMAIN driver' = DriverFields /\ driver'.rate \in Nat /\ driver'.next \in Nat
                   /\ driver'.pc \notin {"first", "lost"}
<1>0. DOMAIN driver = DriverFields /\ driver.rate \in Nat /\ driver.next \in Nat
  BY DEF ShapeInv
<1>1. driver' = Idle => Goal
  BY DEF Idle, DriverFields
<1>6. ASSUME driver' = [Idle EXCEPT !.pc = "over"] PROVE Goal
  BY <1>6 DEF Idle, DriverFields
<1>2. CASE Crash \/ StartAfterSpend \/ YieldToClaim
  BY <1>1, <1>2, <1>6 DEF Crash, StartAfterSpend, YieldToClaim
<1>9. CASE Start
  BY <1>9 DEF Start, Idle, DriverFields
<1>3. CASE Check
  BY <1>0, <1>3 DEF Check, DriverFields
<1>4. CASE BumpByChild
  <2>1. \/ driver' = [driver EXCEPT !.pc = "check", !.rate = driver.next, !.next = 0]
        \/ driver' = [driver EXCEPT !.pc = "check", !.next = 0]
    BY <1>4 DEF BumpByChild
  <2>2. ASSUME driver' = [driver EXCEPT !.pc = "check", !.rate = driver.next, !.next = 0] PROVE Goal
    BY <1>0, <2>2 DEF DriverFields
  <2>3. ASSUME driver' = [driver EXCEPT !.pc = "check", !.next = 0] PROVE Goal
    BY <1>0, <2>3 DEF DriverFields
  <2> QED
    BY <2>1, <2>2, <2>3
<1>5. ASSUME driver' = [driver EXCEPT !.pc = "enter", !.found = Nothing] PROVE Goal
  BY <1>0, <1>5 DEF DriverFields
<1>7. CASE Late
  BY <1>1, <1>5, <1>7 DEF Late
<1>8. CASE Lost
  <2>1. driver' \in {Idle, [driver EXCEPT !.pc = "enter", !.found = Nothing], [Idle EXCEPT !.pc = "over"]}
    BY <1>8, Zenon DEF Lost
  <2> QED
    BY <1>1, <1>5, <1>6, <2>1
<1> QED
  BY <1>2, <1>3, <1>4, <1>7, <1>8, <1>9

\* Every step of the race keeps both invariants.
LEMMA RaceStepKeeps ==
  ASSUME DealInv, RaceInv, RaceStep
  PROVE  DealInv' /\ RaceInv'
<1> USE DEF RaceInv
<1>0. /\ DOMAIN driver = DriverFields /\ driver.rate \in Nat /\ driver.next \in Nat
      /\ record \in Seq(Nat) /\ Len(record) <= MAX_TRACKED_OUR_SPENDS
      /\ known \subseteq Parties \X Nat /\ tip \in Int
      /\ mem # Nothing => DOMAIN mem = {"by", "rate", "pays"} /\ <<mem.by, mem.rate>> \in known
      /\ mined # Nothing => <<mined.by, mined.rate>> \in known
  BY DEF ShapeInv, DealInv, ClockInv
<1>a. at = "funded" => us \in Parties
  BY DEF ShapeInv
<1>b. ASSUME at = "funded", Frame PROVE QuietInv' /\ us' = us /\ (Claiming' <=> Claiming)
  BY <1>b DEF Frame, dealVars, QuietInv, Claiming
<1>n. ASSUME NEW s \in known PROVE s = <<s[1], s[2]>> /\ s[1] \in Parties /\ s[2] \in Nat
  BY <1>0, <1>n
<1>1. CASE FundContract
  <2> USE <1>1 DEF FundContract
  <2>1. /\ swap' = [swap EXCEPT !.invoice = 0, !.invoice_expires = 0]
        /\ DOMAIN swap = SwapFields /\ swap.timeout \in Nat
    BY Clocks DEF DealInv, SwapInv
  <2>2. /\ DOMAIN swap' = SwapFields /\ swap'.timeout = swap.timeout /\ swap'.contract = swap.contract
        /\ swap'.onchain = swap.onchain /\ swap'.direction = swap.direction
    BY <2>1 DEF SwapFields
  <2>3. tip' \in Int
    BY <2>1, TimelockAssumption
  <2>4. DealInv'
    <3>1. ClockInv'
      BY <2>3 DEF DealInv, ClockInv
    <3>2. QuoteInv' /\ AskedInv'
      BY DEF QuoteInv, AskedInv, Ahead, Quoted
    <3>3. SwapInv'
      BY <2>2 DEF DealInv, SwapInv, timeout, Worth
    <3> QED
      BY <3>1, <3>2, <3>3 DEF DealInv
  <2>5. QuietInv'
    BY DEF QuietInv
  <2>6. UNCHANGED <<mem, mined, known, driver, record, unheard>> /\ known = {} /\ us' \in Parties
    BY DEF chainVars, QuietInv, Parties
  <2>7. ShapeInv' /\ SpendInv'
    BY <1>0, <2>6 DEF ShapeInv, SpendInv
  <2> QED
    BY <2>4, <2>5, <2>7
<1>2. CASE Mine
  <2> USE <1>2 DEF Mine, Watched
  <2>1. tip' \in Int
    BY <1>0, VsizeFacts DEF NextTip
  <2>2. DealInv' /\ QuietInv' /\ us' = us /\ at' = "funded"
    BY <1>b, <2>1, FramedDeal
  <2>3. ShapeInv'
    <3>1. CASE UNCHANGED chainVars
      BY <1>0, <1>a, <2>2, <3>1 DEF ShapeInv, chainVars
    <3>2. CASE mem' = Nothing /\ UNCHANGED known /\
               \E s \in known : mined' = [by |-> s[1], rate |-> s[2], height |-> tip + 1]
      BY <1>0, <1>a, <1>n, <2>2, <3>2 DEF ShapeInv
    <3> QED
      BY <3>1, <3>2
  <2>4. SpendInv'
    BY <2>2, UnseenStep DEF chainVars, Remembered, our_spends
  <2> QED
    BY <2>2, <2>3, <2>4
<1>3. CASE RivalSpends
  <2> USE <1>3 DEF RivalSpends, Watched
  <2>1. DealInv' /\ QuietInv' /\ us' = us /\ at' = "funded" /\ (Claiming' <=> Claiming)
    BY <1>0, <1>b, FramedDeal
  <2>2. PICK party \in {"client", "provider"} \ {us}, rate \in RivalRates :
          Accepts(party, rate) /\ Enter(party, rate)
    OBVIOUS
  <2>3. rate \in Nat
    BY RaceAssumption
  <2>4. ShapeInv'
    BY <1>0, <1>a, <2>1, <2>2, <2>3 DEF ShapeInv, Enter, Parties
  <2>5. \A r \in Nat : <<us, r>> \in known' => <<us, r>> \in known
    BY <2>2 DEF Enter
  <2>6. SpendInv'
    BY <2>1, <2>5 DEF SpendInv, Remembered, our_spends, Full
  <2> QED
    BY <2>1, <2>4, <2>6
<1>4. CASE Evict
  <2> USE <1>4 DEF Evict, Watched
  <2>1. DealInv' /\ QuietInv' /\ us' = us /\ at' = "funded"
    BY <1>0, <1>b, FramedDeal
  <2>2. ShapeInv'
    BY <1>0, <1>a, <2>1 DEF ShapeInv
  <2>3. SpendInv'
    BY UnseenStep, <2>1 DEF Remembered, our_spends
  <2> QED
    BY <2>1, <2>2, <2>3
<1>5. CASE Reorganise
  <2> USE <1>5 DEF Reorganise, Watched
  <2>1. DealInv' /\ QuietInv' /\ us' = us /\ at' = "funded"
    BY <1>0, <1>b, FramedDeal
  <2>2. PICK s \in known : mem' = [by |-> s[1], rate |-> s[2], pays |-> s[2]]
    OBVIOUS
  <2>3. ShapeInv'
    BY <1>0, <1>a, <1>n, <2>1, <2>2 DEF ShapeInv
  <2>4. SpendInv'
    BY UnseenStep, <2>1 DEF Remembered, our_spends
  <2> QED
    BY <2>1, <2>3, <2>4
<1>6. CASE Crash \/ Start \/ StartAfterSpend \/ YieldToClaim \/ Check \/ Late \/ Lost
  <2>1. at = "funded" /\ Frame /\ UNCHANGED <<tip, chainVars, record, unheard>>
    BY <1>6 DEF Crash, Start, StartAfterSpend, YieldToClaim, Check, Late, Lost
  <2>2. DealInv' /\ QuietInv' /\ us' = us /\ at' = "funded" /\ (Claiming' <=> Claiming)
    BY <1>0, <1>b, <2>1, FramedDeal
  <2>3. DOMAIN driver' = DriverFields /\ driver'.rate \in Nat /\ driver'.next \in Nat
    BY <1>6, OtherMoves
  <2>4. ShapeInv'
    BY <1>0, <1>a, <2>1, <2>2, <2>3 DEF ShapeInv, chainVars
  <2>5. Claiming =>
          \/ driver'.pc \notin Looping \cup {"enter"}
          \/ driver'.pc = "enter" /\ driver'.listed = our_spends
          \/ /\ driver.pc \in Looping /\ driver'.listed = driver.listed
             /\ \/ driver'.pc \in Looping /\ driver'.ours = driver.ours
                \/ driver'.pc = "enter" /\ us = "provider"
    <3>1. CASE Crash \/ StartAfterSpend \/ YieldToClaim
      BY <3>1 DEF Crash, StartAfterSpend, YieldToClaim, Idle, Looping
    <3>2. CASE Start
      BY <3>2 DEF Start, Idle
    <3>3. CASE Check
      BY <1>0, <3>3 DEF Check, Looping, DriverFields
    <3>4. CASE Late
      BY <1>0, <1>a, <2>1, <3>4 DEF Late, Looping, DriverFields, Idle, Parties
    <3>5. CASE Lost
      BY <1>0, <1>a, <2>1, <3>5 DEF Lost, Looping, DriverFields, Idle, Parties
    <3> QED
      BY <1>6, <3>1, <3>2, <3>3, <3>4, <3>5
  <2>6. ASSUME NEW rate \in Nat, Claiming, Remembered(rate) PROVE Remembered(rate)'
    BY <2>1, <2>2, <2>5, <2>6 DEF Remembered, our_spends, Looping
  <2>7. SpendInv'
    BY <2>1, <2>6, UnseenStep DEF chainVars
  <2> QED
    BY <2>2, <2>4, <2>7
<1>7. CASE EnterConfirmOrBump
  <2> USE <1>7 DEF EnterConfirmOrBump
  <2>1. DealInv' /\ QuietInv' /\ us' = us /\ at' = "funded" /\ (Claiming' <=> Claiming)
    BY <1>0, <1>b, FramedDeal
  <2>2. PICK estimate \in Markets :
      LET adopted == Exists /\ IsOurs(Seen, driver.listed) IN
       driver' = [driver EXCEPT
         !.rate = resolve_fee_rate(estimate[IF Claiming THEN CLAIM_FEE_TARGET_BLOCKS
                                            ELSE REFUND_FEE_TARGET_BLOCKS], floor, cap),
         !.ours = driver.listed,
         !.live = IF adopted THEN Seen.rate ELSE 0,
         !.pc = IF adopted THEN "poll" ELSE "first"]
    OBVIOUS
  <2>3. estimate[IF Claiming THEN CLAIM_FEE_TARGET_BLOCKS ELSE REFUND_FEE_TARGET_BLOCKS] \in Nat
    BY RaceAssumption DEF CLAIM_FEE_TARGET_BLOCKS, REFUND_FEE_TARGET_BLOCKS
  <2>4. resolve_fee_rate(estimate[IF Claiming THEN CLAIM_FEE_TARGET_BLOCKS
                                            ELSE REFUND_FEE_TARGET_BLOCKS], floor, cap) \in Nat
    BY <2>3, FirstRateFacts
  <2>5. /\ DOMAIN driver' = DriverFields /\ driver'.rate \in Nat /\ driver'.next \in Nat
        /\ driver'.pc \in {"poll", "first"} /\ driver'.ours = driver.listed
        /\ driver'.listed = driver.listed
    BY <1>0, <2>2, <2>4 DEF DriverFields
  <2>6. ShapeInv'
    BY <1>0, <1>a, <2>1, <2>5 DEF ShapeInv, chainVars
  <2>7. ASSUME NEW rate \in Nat, Claiming, Remembered(rate) PROVE Remembered(rate)'
    BY <2>1, <2>5, <2>7 DEF Remembered, our_spends, Looping
  <2>8. SpendInv'
    BY <2>7, UnseenStep DEF chainVars
  <2> QED
    BY <2>1, <2>6, <2>8
<1>8. CASE FirstBroadcast
  <2> USE <1>8 DEF FirstBroadcast
  <2>1. DealInv' /\ QuietInv' /\ us' = us /\ at' = "funded" /\ (Claiming' <=> Claiming)
    BY <1>0, <1>b, FramedDeal
  <2>2. CASE Buildable(driver.rate)
    BY <1>0, <2>1, <2>2, AnnounceStep
  <2>3. CASE ~Buildable(driver.rate)
    <3>1. driver' = Idle /\ UNCHANGED <<chainVars, record, unheard>>
      BY <2>3
    <3>2. DOMAIN Idle = DriverFields /\ Idle.rate = 0 /\ Idle.next = 0 /\ Idle.pc = "idle"
      BY DEF Idle, DriverFields
    <3>3. ShapeInv'
      BY <1>0, <1>a, <2>1, <3>1, <3>2 DEF ShapeInv, chainVars
    <3>4. SpendInv'
      BY <3>1, <3>2, UnseenStep DEF Remembered, our_spends, Looping, chainVars
    <3> QED
      BY <2>1, <3>3, <3>4
  <2> QED
    BY <2>2, <2>3
<1>9. CASE Rebroadcast
  <2> USE <1>9 DEF Rebroadcast
  <2>1. DealInv' /\ QuietInv'
    BY <1>0, <1>b, FramedDeal
  <2>2. ShapeInv' /\ SpendInv'
    BY <1>0, AnnounceStep
  <2> QED
    BY <2>1, <2>2
<1>10. CASE BumpByChild
  <2> USE <1>10 DEF BumpByChild
  <2>1. DealInv' /\ QuietInv' /\ us' = us /\ at' = "funded" /\ (Claiming' <=> Claiming)
    BY <1>0, <1>b, FramedDeal
  <2>2. /\ DOMAIN driver' = DriverFields /\ driver'.rate \in Nat /\ driver'.next \in Nat
        /\ driver'.pc = "check" /\ driver'.ours = driver.ours /\ driver'.listed = driver.listed
    <3>1. \/ driver' = [driver EXCEPT !.pc = "check", !.rate = driver.next, !.next = 0]
          \/ driver' = [driver EXCEPT !.pc = "check", !.next = 0]
      OBVIOUS
    <3>2. /\ DOMAIN driver' = DriverFields /\ driver'.rate \in Nat /\ driver'.next \in Nat
      BY <1>10, OtherMoves
    <3> QED
      BY <1>0, <3>1, <3>2 DEF DriverFields
  <2>3. mem' # Nothing => DOMAIN mem' = {"by", "rate", "pays"} /\ <<mem'.by, mem'.rate>> \in known
    BY <1>0
  <2>4. ShapeInv'
    BY <1>0, <1>a, <2>1, <2>2, <2>3 DEF ShapeInv
  <2>5. ASSUME NEW rate \in Nat, Claiming, Remembered(rate) PROVE Remembered(rate)'
    BY <2>1, <2>2, <2>5 DEF Remembered, our_spends, Looping
  <2>6. SpendInv'
    BY <2>5, UnseenStep
  <2> QED
    BY <2>1, <2>4, <2>6
<1>11. CASE Poll
  <2> USE <1>11 DEF Poll
  <2>1. DealInv' /\ QuietInv' /\ us' = us /\ at' = "funded" /\ (Claiming' <=> Claiming)
    BY <1>0, <1>b, FramedDeal
  <2>2. /\ DOMAIN driver' = DriverFields /\ driver'.rate \in Nat /\ driver'.next \in Nat
        /\ driver'.pc \in {"lost", "won", "again", "bump", "check"}
        /\ driver'.ours = driver.ours /\ driver'.listed = driver.listed
    BY <1>0, PollMoves DEF DriverFields, Turns
  <2>3. ShapeInv'
    BY <1>0, <1>a, <2>1, <2>2 DEF ShapeInv, chainVars
  <2>4. ASSUME NEW rate \in Nat, Claiming, Remembered(rate) PROVE Remembered(rate)'
    BY <2>1, <2>2, <2>4 DEF Remembered, our_spends, Looping
  <2>5. SpendInv'
    BY <2>4, UnseenStep DEF chainVars
  <2> QED
    BY <2>1, <2>3, <2>5
<1> QED
  BY <1>1, <1>2, <1>3, <1>4, <1>5, <1>6, <1>7, <1>8, <1>9, <1>10, <1>11 DEF RaceStep

\* A conflict was with a spend that is another's, or unheard of, or let go.
LEMMA LossStep ==
  ASSUME DealInv, RaceInv, LossIsReal, RaceStep
  PROVE  LossIsReal'
<1> USE DEF RaceInv
<1>0. DOMAIN driver = DriverFields /\ known \subseteq Parties \X Nat
  BY DEF ShapeInv
<1>1. CASE Poll
  <2> USE <1>1 DEF Poll
  <2>1. us' = us /\ (Claiming' <=> Claiming) /\ unheard' = unheard /\ record' = record
    BY DEF Frame, dealVars, Claiming
  <2> SUFFICES ASSUME driver'.pc = "lost", Claiming, driver'.found.by = us
               PROVE  driver'.found.rate \in unheard \/ Full
    BY <2>1 DEF LossIsReal, Full
  <2>2. Exists /\ ~IsOurs(Seen, driver.ours)
    BY <1>0, PollMoves DEF DriverFields, Turns
  <2>3. driver'.found = Seen /\ Seen.by = us /\ Seen.rate \notin driver.ours
    BY <1>0, <2>2 DEF DriverFields, IsOurs
  <2>4. <<us, Seen.rate>> \in known /\ Seen.rate \in Nat
    BY <1>0, <2>2, <2>3 DEF Exists, Seen, ShapeInv
  <2>5. Seen.rate \in unheard \/ Full \/ Remembered(Seen.rate)
    BY <2>4 DEF SpendInv
  <2>6. ~Remembered(Seen.rate)
    BY <2>3 DEF Remembered, Looping
  <2> QED
    BY <2>3, <2>5, <2>6
<1>2. CASE FundContract
  <2>1. driver'.pc = "idle"
    BY <1>2 DEF FundContract, QuietInv, Idle
  <2> QED
    BY <2>1 DEF LossIsReal
<1>3. CASE Mine \/ RivalSpends \/ Evict \/ Reorganise
  BY <1>3 DEF Mine, RivalSpends, Evict, Reorganise, Frame, dealVars, LossIsReal, Claiming
<1>4. CASE \/ Crash \/ Start \/ StartAfterSpend \/ YieldToClaim \/ EnterConfirmOrBump
           \/ BumpByChild \/ Check \/ Late \/ Lost
  <2>1. driver'.pc # "lost"
    <3>1. CASE Crash \/ Start \/ StartAfterSpend \/ YieldToClaim \/ BumpByChild \/ Check \/ Late \/ Lost
      BY <3>1, OtherMoves
    <3>2. CASE EnterConfirmOrBump
      BY <1>0, <3>2 DEF DriverFields, EnterConfirmOrBump
    <3> QED
      BY <1>4, <3>1, <3>2
  <2> QED
    BY <2>1 DEF LossIsReal
<1>5. CASE FirstBroadcast \/ Rebroadcast
  <2>1. driver'.pc # "lost"
    <3>1. CASE FirstBroadcast /\ ~Buildable(driver.rate)
      BY <3>1 DEF FirstBroadcast, Idle
    <3>2. CASE Rebroadcast \/ (FirstBroadcast /\ Buildable(driver.rate))
      BY <3>2, AnnounceStep DEF FirstBroadcast, Rebroadcast, ShapeInv
    <3> QED
      BY <1>5, <3>1, <3>2
  <2> QED
    BY <2>1 DEF LossIsReal
<1> QED
  BY <1>1, <1>2, <1>3, <1>4, <1>5 DEF RaceStep

\* The first rate is resolve_fee_rate's, of today's estimate.
LEMMA SweepStep ==
  ASSUME DealInv, RaceInv, SweepCanBeBuilt, RaceStep
  PROVE  SweepCanBeBuilt'
<1> USE DEF RaceInv
<1>0. DOMAIN driver = DriverFields
  BY DEF ShapeInv
<1>b. ASSUME Frame, NEW rate PROVE Buildable(rate)' <=> Buildable(rate)
  BY <1>b DEF Frame, dealVars, Buildable, vsize, Path
<1>1. CASE EnterConfirmOrBump
  <2> USE <1>1 DEF EnterConfirmOrBump
  <2>1. PICK estimate \in Markets :
          driver'.rate = resolve_fee_rate(estimate[IF Claiming THEN CLAIM_FEE_TARGET_BLOCKS
                                            ELSE REFUND_FEE_TARGET_BLOCKS], floor, cap)
    BY <1>0 DEF DriverFields
  <2>2. estimate[IF Claiming THEN CLAIM_FEE_TARGET_BLOCKS ELSE REFUND_FEE_TARGET_BLOCKS] \in Nat
    BY RaceAssumption DEF CLAIM_FEE_TARGET_BLOCKS, REFUND_FEE_TARGET_BLOCKS
  <2>3. Buildable(driver'.rate)
    BY <2>1, <2>2, FirstRateFacts
  <2>4. Frame
    OBVIOUS
  <2> QED
    BY <2>3, <2>4 DEF SweepCanBeBuilt, Frame, dealVars, Buildable, vsize, Path
<1>2. CASE FundContract
  <2>1. driver'.pc = "idle"
    BY <1>2 DEF FundContract, QuietInv, Idle
  <2> QED
    BY <2>1 DEF SweepCanBeBuilt
<1>3. CASE Mine \/ RivalSpends \/ Evict \/ Reorganise
  BY <1>3 DEF Mine, RivalSpends, Evict, Reorganise, Frame, dealVars, SweepCanBeBuilt, Buildable, vsize, Path
<1>4. CASE Crash \/ Start \/ StartAfterSpend \/ YieldToClaim \/ BumpByChild \/ Check \/ Late \/ Lost
  <2>1. driver'.pc # "first"
    BY <1>4, OtherMoves
  <2> QED
    BY <2>1 DEF SweepCanBeBuilt
<1>5. CASE FirstBroadcast \/ Rebroadcast
  <2>1. driver'.pc # "first"
    <3>1. CASE FirstBroadcast /\ ~Buildable(driver.rate)
      BY <3>1 DEF FirstBroadcast, Idle
    <3>2. CASE Rebroadcast \/ (FirstBroadcast /\ Buildable(driver.rate))
      BY <3>2, AnnounceStep DEF FirstBroadcast, Rebroadcast, ShapeInv
    <3> QED
      BY <1>5, <3>1, <3>2
  <2> QED
    BY <2>1 DEF SweepCanBeBuilt
<1>6. CASE Poll
  <2>1. driver'.pc # "first"
    BY <1>0, <1>6, PollMoves DEF DriverFields, Turns
  <2> QED
    BY <2>1 DEF SweepCanBeBuilt
<1> QED
  BY <1>1, <1>2, <1>3, <1>4, <1>5, <1>6 DEF RaceStep

-----------------------------------------------------------------------------
(* The theorems of the race.                                               *)

\* Everything holds before the first offer.
LEMMA RaceStarts ==
  ASSUME RaceInit
  PROVE  DealInv /\ RaceInv /\ HonestTermsAreTaken /\ LossIsReal /\ SweepCanBeBuilt
<1> USE DEF RaceInit
<1>1. DealInv /\ at = "start"
  BY DealInit DEF TermsInit
<1>2. DOMAIN Idle = DriverFields /\ Idle.rate = 0 /\ Idle.next = 0 /\ Idle.pc = "idle"
  BY DEF Idle, DriverFields
<1>3. QuietInv /\ SpendInv
  BY <1>1 DEF QuietInv, SpendInv
<1>4. ShapeInv
  BY <1>1, <1>2, RaceAssumption DEF ShapeInv
<1>5. HonestTermsAreTaken /\ LossIsReal /\ SweepCanBeBuilt
  BY <1>1, <1>2 DEF HonestTermsAreTaken, LossIsReal, SweepCanBeBuilt
<1> QED
  BY <1>1, <1>3, <1>4, <1>5 DEF RaceInv

\* While terms are made there is nothing to race for.
LEMMA TermsAreQuiet ==
  ASSUME RaceInv, TermsNext, UNCHANGED raceVars
  PROVE  RaceInv' /\ LossIsReal' /\ SweepCanBeBuilt'
<1>1. at # "funded" /\ at' # "funded"
  BY DEF TermsNext, RefreshOffer, AskQuote, HandleQuoteRequest, DeclineQuote, ReceiveQuote,
    record_creation_started, HandleSwapRequest, DeclineSwap, ReceiveAccept, RefuseAccept,
    PayInvoice, NewBlock, Tick
<1>2. driver = Idle
  BY <1>1 DEF RaceInv, QuietInv
<1>3. driver'.pc = "idle"
  BY <1>2 DEF raceVars, Idle
<1>4. RaceInv'
  BY <1>1 DEF RaceInv, QuietInv, ShapeInv, SpendInv, raceVars
<1> QED
  BY <1>3, <1>4 DEF LossIsReal, SweepCanBeBuilt

\* A race is no refusal.
LEMMA RaceIsAfterwards ==
  ASSUME RaceStep
  PROVE  HonestTermsAreTaken'
<1>1. at' = "funded"
  BY DEF RaceStep, FundContract, Mine, RivalSpends, Evict, Reorganise, Crash, Start,
    StartAfterSpend, YieldToClaim, EnterConfirmOrBump, FirstBroadcast, Rebroadcast, BumpByChild,
    Poll, Check, Late, Lost, Watched, Frame
<1> QED
  BY <1>1 DEF HonestTermsAreTaken

\* The whole of it.
RaceIInv == DealInv /\ RaceInv /\ HonestTermsAreTaken /\ LossIsReal /\ SweepCanBeBuilt

\* The inductive invariant of the terms and of the race after them.
THEOREM RaceInvariant == RaceSpec => []RaceIInv
<1>1. RaceInit => RaceIInv
  BY RaceStarts DEF RaceIInv
<1>2. RaceIInv /\ [RaceNext]_<<termsVars, raceVars>> => RaceIInv'
  <2> SUFFICES ASSUME RaceIInv, [RaceNext]_<<termsVars, raceVars>> PROVE RaceIInv'
    OBVIOUS
  <2> USE DEF RaceIInv
  <2>1. CASE TermsNext /\ UNCHANGED raceVars
    BY <2>1, DealStep, RefusalStep, TermsAreQuiet
  <2>2. CASE RaceStep
    BY <2>2, RaceStepKeeps, LossStep, SweepStep, RaceIsAfterwards
  <2>3. CASE UNCHANGED <<termsVars, raceVars>>
    <3> USE <2>3 DEF termsVars, raceVars, vars, dealVars
    <3>1. DealInv'
      BY DEF DealInv, ClockInv, QuoteInv, AskedInv, SwapInv, Ahead, Quoted, Worth, timeout,
             Affordable, DepthIsAccepted
    <3>2. RaceInv'
      BY DEF RaceInv, QuietInv, ShapeInv, SpendInv, Claiming, Remembered, our_spends, Full
    <3>3. HonestTermsAreTaken'
      BY DEF HonestTermsAreTaken, Affordable, DepthIsAccepted, Leeway, InvoiceIsOld, reverse_invoice_expiry
    <3>4. LossIsReal' /\ SweepCanBeBuilt'
      BY DEF LossIsReal, SweepCanBeBuilt, Claiming, Buildable, vsize, Path
    <3> QED
      BY <3>1, <3>2, <3>3, <3>4
  <2> QED
    BY <2>1, <2>2, <2>3 DEF RaceNext
<1> QED
  BY <1>1, <1>2, PTL DEF RaceSpec

\* A funding within the grace of validate_params passes both of the driver's checks
\* before the payment, and leaves what the payee asks for when the slack is greater;
\* only a configuration without any slack, at the last block of the grace, does not.
THEOREM PromptFunding == RaceSpec => []PromptFundingIsPaid
<1> DEFINE LastBlock == accept + p.required_confirmations + FUNDING_GRACE
<1>1. RaceIInv => PromptFundingIsPaid
  <2> SUFFICES ASSUME RaceIInv, tip <= LastBlock
               PROVE  /\ (Slack > 0 \/ tip < LastBlock) =>
                           /\ check_submarine_before_pay(tip, timeout, p)
                           /\ submarine_cltv_budget(tip, timeout, p) > 0
                      /\ Slack > min_final_cltv =>
                           check_submarine_invoice_cltv(tip, timeout, min_final_cltv, p)
    BY DEF PromptFundingIsPaid
  <2>1. ClockInv /\ tip \in Int /\ min_final_cltv \in Nat
    BY TermsAssumption DEF RaceIInv, DealInv, ClockInv
  <2> DEFINE left == timeout - tip - p.min_claim_window_blocks
  <2>2. /\ Slack \in Int /\ LastBlock \in Int /\ left \in Int /\ timeout \in Nat
        /\ p.min_claim_window_blocks \in Nat
        /\ left >= Slack + (LastBlock - tip) /\ Slack >= 0
    BY <2>1, Clocks, TimelockAssumption DEF Slack
  <2>3. left > 0 => /\ check_submarine_before_pay(tip, timeout, p)
                    /\ submarine_cltv_budget(tip, timeout, p) = left
    BY <2>1, <2>2 DEF check_submarine_before_pay, submarine_cltv_budget, SaturatingSub
  <2> HIDE DEF left, LastBlock
  <2>4. ASSUME Slack > 0 \/ tip < LastBlock
        PROVE  left > 0
    BY <2>1, <2>2, <2>4
  <2>5. ASSUME Slack > min_final_cltv
        PROVE  left > 0 /\ min_final_cltv < left
    BY <2>1, <2>2, <2>5
  <2> QED
    BY <2>3, <2>4, <2>5 DEF check_submarine_invoice_cltv
<1> QED
  BY <1>1, RaceInvariant, PTL

\* The client refuses an honest provider only for the reasons the property names,
\* whatever the prices, the configuration and the delays.
THEOREM HonestTerms == RaceSpec => []HonestTermsAreTaken
  BY RaceInvariant, PTL DEF RaceIInv

\* A claim is given up as lost to another's spend only when it is another's, or to a
\* spend of ours that was never answered for or that a full list let go.
THEOREM RealLoss == RaceSpec => []LossIsReal
  BY RaceInvariant, PTL DEF RaceIInv

\* The first claim or refund of a swap that was taken on can always be built.
THEOREM SweepBuilds == RaceSpec => []SweepCanBeBuilt
  BY RaceInvariant, PTL DEF RaceIInv
=============================================================================

---------------------------- MODULE SwapTimeline ----------------------------
(***************************************************************************)
(* The two clocks of one swap under the gates of swap-common's timelock:   *)
(* a swap accepted under a validated configuration, blocks arriving, and a *)
(* hold invoice paid at some height by a client whose node realises the    *)
(* CLTV delta it was asked for, or a longer one.                           *)
(***************************************************************************)
EXTENDS Timelock

CONSTANTS
  ParamChoices,  \* the configurations considered
  AcceptHeights, \* the heights at which a swap may be accepted
  ExtraDeltas    \* blocks a payer's node adds to the final CLTV delta

ASSUME SwapTimelineAssumption ==
  /\ ParamChoices \subseteq TimelockParams /\ AcceptHeights \subseteq U32
  /\ ExtraDeltas \subseteq Nat /\ CLIENT_CLAIM_WINDOW > CLAIM_ABORT_MARGIN

VARIABLES
  p,         \* the provider's validated parameters
  accept,    \* the tip when the swap was accepted
  tip,       \* the current tip
  ln_expiry  \* realised expiry of the held Lightning HTLC, 0 before it is paid

vars == <<p, accept, tip, ln_expiry>>

timeout == onchain_timeout(accept, p)

\* validate_timelocks at startup, then timelock::onchain_timeout at accept.
Init ==
  /\ p \in {q \in ParamChoices : validate_params(q)}
  /\ accept \in AcceptHeights /\ Fits(timeout)
  /\ tip = accept /\ ln_expiry = 0

ClientPays ==
  /\ ln_expiry = 0
  /\ \E extra \in ExtraDeltas :
       ln_expiry' = tip + reverse_invoice_cltv_delta(p) + extra
  /\ UNCHANGED <<p, accept, tip>>

Block == tip < timeout /\ tip' = tip + 1 /\ UNCHANGED <<p, accept, ln_expiry>>

Next == ClientPays \/ Block
Spec == Init /\ [][Next]_vars

-----------------------------------------------------------------------------
TypeOK ==
  /\ p \in ParamChoices /\ validate_params(p)
  /\ accept \in AcceptHeights /\ tip \in Nat /\ ln_expiry \in Nat
  /\ accept <= tip

\* The delta asked for in reverse_invoice_request is enough: whenever the
\* client pays, the Lightning HTLC outlives the on-chain timeout by the refund
\* window and the node's own cancel margin, so no honest payment is refused
\* for its expiry.
InvoiceDeltaIsEnough ==
  ln_expiry > 0 => ln_expiry >= required_ln_expiry(timeout, p)

\* A funding that passes check_reverse_before_fund still lets the client start
\* its claim (claim_start_is_safe) once the funding has its confirmations, and
\* the node cannot force-cancel before the provider's refund window is over.
FundingLeavesRoom ==
  check_reverse_before_fund(tip, timeout, ln_expiry, p) =>
    /\ claim_start_is_safe(tip + p.required_confirmations, timeout)
    /\ ln_expiry - p.ln_hold_expiry_delta >= timeout + p.refund_confirm_blocks

\* However late the payee settles, the provider's claim window is still whole:
\* submarine_cltv_budget ends the payment that much before the refund branch.
PayeeCannotOutlast ==
  LET budget == submarine_cltv_budget(tip, timeout, p)
  IN  budget > 0 => tip + budget + p.min_claim_window_blocks <= timeout

\* A client that accepts a timeout has its whole claim window, after the
\* confirmations it waits for, before claim_start_is_safe turns false.
ClientWindowIsWhole ==
  check_client_reverse_accept(tip, timeout, p) =>
    \A used \in 0..(p.required_confirmations + CLIENT_CLAIM_WINDOW - 1) :
      claim_start_is_safe(tip + used, timeout)
=============================================================================

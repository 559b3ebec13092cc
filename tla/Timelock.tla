------------------------------ MODULE Timelock ------------------------------
(***************************************************************************)
(* The cross-leg timelock arithmetic of swap-common/src/timelock.rs: pure, *)
(* total functions over block heights.  A check of the code that returns   *)
(* Result<(), TimelockViolation> is the predicate "it returned Ok"; a      *)
(* height the code computes with checked_add is the exact sum, and the     *)
(* callers' `?` is the conjunct Fits(sum).  The summands are natural       *)
(* numbers, so a chain of checked_add overflows iff the last sum does.     *)
(***************************************************************************)
EXTENDS Integers

CONSTANTS
  MaxU32,               \* u32::MAX
  CLIENT_CLAIM_WINDOW,  \* blocks a client needs to confirm its reverse claim
  PROVIDER_MIN_CLAIM_WINDOW, \* blocks a provider needs for a submarine claim
  CLAIM_ABORT_MARGIN,   \* no first claim this close to the refund branch
  FUNDING_GRACE,        \* slack between funding depth and the claim window
  MaxFinalCltv          \* the 2016-block ceiling on an invoice's CLTV delta

ASSUME TimelockAssumption ==
  /\ MaxU32 \in Nat /\ CLIENT_CLAIM_WINDOW \in Nat
  /\ PROVIDER_MIN_CLAIM_WINDOW \in Nat /\ CLAIM_ABORT_MARGIN \in Nat
  /\ FUNDING_GRACE \in Nat /\ MaxFinalCltv \in Nat

U32 == 0..MaxU32

\* The operator's knobs, struct TimelockParams.
TimelockParams ==
  [htlc_timeout_blocks : U32, required_confirmations : U32,
   min_claim_window_blocks : U32, refund_confirm_blocks : U32,
   ln_hold_expiry_delta : U32, late_payment_slack : U32,
   max_timeout_blocks : U32]

Fits(v) == v <= MaxU32
SaturatingSub(a, b) == IF a >= b THEN a - b ELSE 0

\* The height at which the refund branch of a swap accepted at tip opens.
onchain_timeout(tip, p) == tip + p.htlc_timeout_blocks

\* The final CLTV delta asked for on a reverse swap's hold invoice.
reverse_invoice_cltv_delta(p) ==
  p.htlc_timeout_blocks + p.refund_confirm_blocks + p.ln_hold_expiry_delta
    + p.late_payment_slack

\* The height the Lightning leg must survive to.
required_ln_expiry(timeout, p) ==
  timeout + p.refund_confirm_blocks + p.ln_hold_expiry_delta

reverse_window(p) ==
  p.required_confirmations + CLIENT_CLAIM_WINDOW + p.refund_confirm_blocks

\* Provider, reverse: the invoice is held and nothing is committed yet.
check_reverse_before_fund(tip, timeout, ln_expiry, p) ==
  /\ Fits(required_ln_expiry(timeout, p))
  /\ ln_expiry >= required_ln_expiry(timeout, p)
  /\ Fits(reverse_window(p))
  /\ SaturatingSub(timeout, tip) >= reverse_window(p)

\* Provider, submarine: immediately before paying the client's invoice.
check_submarine_before_pay(tip, timeout, p) ==
  /\ timeout > tip
  /\ timeout - tip >= p.min_claim_window_blocks

\* Mutant: the whole remaining time is lent to the payee.
submarine_cltv_budget_Whole(tip, timeout, p) == SaturatingSub(timeout, tip)

\* How far above the tip the outgoing Lightning HTLC may expire; 0 is None.
submarine_cltv_budget(tip, timeout, p) ==
  SaturatingSub(SaturatingSub(timeout, tip), p.min_claim_window_blocks)

\* Provider, submarine: the payee's own CLTV demand has to fit the budget.
check_submarine_invoice_cltv(tip, timeout, min_final_cltv, p) ==
  /\ submarine_cltv_budget(tip, timeout, p) > 0
  /\ min_final_cltv < submarine_cltv_budget(tip, timeout, p)

check_timeout_ceiling(tip, timeout, p) ==
  timeout > tip /\ timeout - tip <= p.max_timeout_blocks

\* Client, reverse: before paying the hold invoice.
check_client_reverse_accept(tip, timeout, p) ==
  LET need == p.required_confirmations + CLIENT_CLAIM_WINDOW
                + CLAIM_ABORT_MARGIN
  IN  /\ check_timeout_ceiling(tip, timeout, p)
      /\ Fits(need)
      /\ timeout - tip >= need

\* Client, submarine: before funding the HTLC.
check_client_submarine_accept(tip, timeout, p) ==
  LET need == p.required_confirmations + PROVIDER_MIN_CLAIM_WINDOW
                + FUNDING_GRACE
  IN  /\ check_timeout_ceiling(tip, timeout, p)
      /\ Fits(need)
      /\ timeout - tip >= need

\* Whether a first claim broadcast may still reveal the preimage.
claim_start_is_safe(tip, timeout) ==
  timeout > tip /\ timeout - tip > CLAIM_ABORT_MARGIN

\* Mutant: the grace between depth and the claim window is not required.
validate_params_NoGrace(p) ==
  /\ p.htlc_timeout_blocks >=
       p.required_confirmations + p.min_claim_window_blocks
  /\ p.htlc_timeout_blocks <= p.max_timeout_blocks
  /\ Fits(reverse_invoice_cltv_delta(p))
  /\ reverse_invoice_cltv_delta(p) <= MaxFinalCltv

\* What the provider requires of its configuration at startup.
validate_params(p) ==
  LET need == p.required_confirmations + FUNDING_GRACE
                + p.min_claim_window_blocks
  IN  /\ Fits(need)
      /\ p.htlc_timeout_blocks >= need
      /\ p.htlc_timeout_blocks <= p.max_timeout_blocks
      /\ Fits(reverse_invoice_cltv_delta(p))
      /\ reverse_invoice_cltv_delta(p) <= MaxFinalCltv
=============================================================================

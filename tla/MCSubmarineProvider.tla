------------------------ MODULE MCSubmarineProvider ------------------------
(***************************************************************************)
(* Constants of SubmarineProvider for TLC.  Block counts are scaled down:  *)
(* one confirmation, a claim window of one block and a timeout of four, so *)
(* the outgoing payment may be given from one to three blocks.             *)
(***************************************************************************)
EXTENDS SubmarineProvider

MCParams ==
  [htlc_timeout_blocks |-> 4, required_confirmations |-> 1,
   min_claim_window_blocks |-> 1, refund_confirm_blocks |-> 1,
   ln_hold_expiry_delta |-> 1, late_payment_slack |-> 0,
   max_timeout_blocks |-> 100]
=============================================================================

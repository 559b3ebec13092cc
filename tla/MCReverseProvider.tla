------------------------- MODULE MCReverseProvider -------------------------
(***************************************************************************)
(* Constants of ReverseProvider for TLC.  Block counts are scaled down: a  *)
(* refund window and a hold delta of one block each, a reverse window of   *)
(* two, so the whole life of a swap fits a clock of six heights.           *)
(***************************************************************************)
EXTENDS ReverseProvider

MCParams ==
  [htlc_timeout_blocks |-> 3, required_confirmations |-> 1,
   min_claim_window_blocks |-> 1, refund_confirm_blocks |-> 1,
   ln_hold_expiry_delta |-> 1, late_payment_slack |-> 0,
   max_timeout_blocks |-> 100]
=============================================================================

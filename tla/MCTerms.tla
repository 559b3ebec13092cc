------------------------------- MODULE MCTerms -------------------------------
(***************************************************************************)
(* Constants of Terms and SpendRace for TLC: the protocol constants of      *)
(* timelock.rs and validate.rs at full size, and seven configurations: the  *)
(* default, a short one, one of the greatest depth, one below the client's  *)
(* depth, one with no block to spare, one with no claim window and one the  *)
(* startup check has to refuse.  Only u32::MAX is scaled down, and the      *)
(* client's ceiling on a timeout is near the default timeout.               *)
(*                                                                          *)
(* The provider's poll schedule, which shares nothing with the terms, is    *)
(* checked in the same run: a behaviour moves one of the two, its subject.  *)
(***************************************************************************)
EXTENDS SpendRace, PollSchedule

Config(timeout_blocks, confirmations, window) ==
  [htlc_timeout_blocks |-> timeout_blocks,
   required_confirmations |-> confirmations,
   min_claim_window_blocks |-> window, refund_confirm_blocks |-> 18,
   ln_hold_expiry_delta |-> 24, late_payment_slack |-> 30,
   max_timeout_blocks |-> 1008]

MCParamChoices ==
  {Config(144, 2, 18), Config(48, 3, 18), Config(60, 12, 18),
   Config(40, 1, 18), Config(26, 2, 18), Config(8, 2, 0), Config(25, 2, 18)}

MCAcceptHeights == {1000, 9860}

MCClientParams == [Config(144, 1, 18) EXCEPT !.max_timeout_blocks = 147]

MCPolicies ==
  {Anyone, Unreadable, [mode |-> "open", allowed |-> {}, blocked |-> {"sender"}],
   [mode |-> "approved_only", allowed |-> {"account"}, blocked |-> {}],
   [mode |-> "approved_only", allowed |-> {"sender"}, blocked |-> {}]}

MCRaceParams == Config(48, 3, 18)

\* No estimates, and a server that answers nonsense.
MCMarkets ==
  LET targets == {1, 2, 3, 6, 12} IN {[t \in targets |-> 0], [t \in targets |-> 900]}

VARIABLE subject

TermsOrPollInit ==
  /\ subject \in {"terms", "schedule"} /\ RaceInit /\ PollInit
  /\ subject = "terms" => listed = {}
  /\ subject = "schedule" =>
       p = RaceParams /\ accept = RaceAccept /\ offer.onchain_fee = onchain_fee(offer_fee_rate(0))

TermsOrPollNext ==
  /\ UNCHANGED subject
  /\ \/ subject = "terms" /\ RaceNext /\ UNCHANGED pollVars
     \/ subject = "schedule" /\ PollNext /\ UNCHANGED <<termsVars, raceVars>>

TermsOrPollSpec ==
  TermsOrPollInit /\ [][TermsOrPollNext]_<<subject, termsVars, raceVars, pollVars>>
=============================================================================

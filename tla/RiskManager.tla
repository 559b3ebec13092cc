---------------------------- MODULE RiskManager ----------------------------
(***************************************************************************)
(* risk.rs: what the provider has promised, as a record and the operations *)
(* on it.  Each operation runs under the manager's mutex, so it is one     *)
(* value; a swap's reservation always carries the same peer and amount, so *)
(* `reservations` is the set of swaps that hold one.  Sums of counters     *)
(* are taken in Nat: the code saturates at u64::MAX, which no sum of       *)
(* amounts of bitcoin reaches.                                             *)
(***************************************************************************)
EXTENDS Naturals, FiniteSets

CONSTANTS
  Swaps,       \* swaps, each named by the quote it is created from
  Peers,       \* counterparty accounts
  PeerOf,      \* the account a swap's exposure counts against
  AmountOf,    \* onchain_amount_sat, as reserved
  ClaimOf,     \* funding_claim_sat: the amount and the fee to fund it
  max_concurrent_swaps, max_concurrent_per_peer,
  max_total_exposure_sat, max_exposure_per_peer_sat,
  max_new_swaps_per_peer_per_hour,
  min_onchain_reserve_sat

ASSUME RiskAssumption ==
  /\ IsFiniteSet(Swaps)
  /\ PeerOf \in [Swaps -> Peers]
  /\ AmountOf \in [Swaps -> Nat] /\ ClaimOf \in [Swaps -> Nat]
  /\ max_concurrent_swaps \in Nat /\ max_concurrent_per_peer \in Nat
  /\ max_total_exposure_sat \in Nat /\ max_exposure_per_peer_sat \in Nat
  /\ max_new_swaps_per_peer_per_hour \in Nat
  /\ min_onchain_reserve_sat \in Nat

Inner == [reservations : SUBSET Swaps, funding_claims : SUBSET Swaps,
          total_committed_sat : Nat, total_in_flight : Nat,
          committed_sat : [Peers -> Nat], in_flight : [Peers -> Nat],
          recent_starts : [Peers -> Nat]]

NewRiskManager ==
  [reservations |-> {}, funding_claims |-> {},
   total_committed_sat |-> 0, total_in_flight |-> 0,
   committed_sat |-> [p \in Peers |-> 0], in_flight |-> [p \in Peers |-> 0],
   recent_starts |-> [p \in Peers |-> 0]]

SaturatingMinus(a, b) == IF a > b THEN a - b ELSE 0

\* The ceilings that every admission has to fit under.
HasRoom(risk, s) ==
  LET p == PeerOf[s] IN
  /\ risk.in_flight[p] < max_concurrent_per_peer
  /\ risk.committed_sat[p] + AmountOf[s] <= max_exposure_per_peer_sat
  /\ risk.total_in_flight < max_concurrent_swaps
  /\ risk.total_committed_sat + AmountOf[s] <= max_total_exposure_sat

MayStart(risk, s) ==
  risk.recent_starts[PeerOf[s]] < max_new_swaps_per_peer_per_hour

\* Asked at quote time, binding nothing.
admissible(risk, s) == MayStart(risk, s) /\ HasRoom(risk, s)

Admits_RetryForced(risk, s, mode) ==
  /\ s \notin risk.reservations
  /\ mode = "New" => MayStart(risk, s) /\ HasRoom(risk, s)

\* reserve_inner's checks, by ReservationMode.
Admits(risk, s, mode) ==
  /\ s \notin risk.reservations
  /\ mode = "New" => MayStart(risk, s)
  /\ mode # "Funded" => HasRoom(risk, s)

Reserve(risk, s, mode) ==
  LET p == PeerOf[s] IN
  [risk EXCEPT !.reservations = @ \cup {s},
               !.total_committed_sat = @ + AmountOf[s],
               !.total_in_flight = @ + 1,
               !.committed_sat[p] = @ + AmountOf[s],
               !.in_flight[p] = @ + 1,
               !.recent_starts[p] = IF mode = "New" THEN @ + 1 ELSE @]

\* ReservationGuard's drop.
Release(risk, s) ==
  LET p == PeerOf[s]
      unclaimed == [risk EXCEPT !.funding_claims = @ \ {s}]
  IN  IF s \notin risk.reservations THEN unclaimed
      ELSE [unclaimed EXCEPT
              !.reservations = @ \ {s},
              !.total_committed_sat = SaturatingMinus(@, AmountOf[s]),
              !.total_in_flight = SaturatingMinus(@, 1),
              !.committed_sat[p] = SaturatingMinus(@, AmountOf[s]),
              !.in_flight[p] = SaturatingMinus(@, 1)]

\* What the swaps of S add up to, satoshi by satoshi.
Total(of, S) == Cardinality(UNION {{s} \X (1..of[s]) : s \in S})

\* What other swaps have claimed of the wallet, and whether the rest suffices.
Claimed(risk) == Total(ClaimOf, risk.funding_claims)

Covers(risk, s, available_sat) ==
  SaturatingMinus(available_sat, Claimed([risk EXCEPT !.funding_claims = @ \ {s}]))
    >= ClaimOf[s] + min_onchain_reserve_sat

\* claim_funding once it is covered, restore_funding_claim, funding_settled.
ClaimFunding(risk, found) ==
  [risk EXCEPT !.funding_claims = @ \cup (found \cap risk.reservations)]

FundingSettled(risk, s) == [risk EXCEPT !.funding_claims = @ \ {s}]
=============================================================================

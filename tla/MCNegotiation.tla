--------------------------- MODULE MCNegotiation ---------------------------
(* Instances of Negotiation for TLC. *)
EXTENDS Negotiation, TLC

QuoteSymmetry == Permutations(Quotes)
=============================================================================

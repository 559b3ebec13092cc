---------------------------- MODULE MCAdmission ----------------------------
(***************************************************************************)
(* Constants of Admission for TLC: two peers with three quotes.  The       *)
(* ceilings admit any two of the swaps but not all three, nor both of      *)
(* alice's; the wallet funds both reverse swaps and keeps its reserve, or  *)
(* is one satoshi short of it.  A second handler would only wait for the   *)
(* creation lock that the first holds from its first step to its last:     *)
(* with two handlers TLC finds the same states.                            *)
(***************************************************************************)
EXTENDS Admission, TLC

CONSTANTS alice, bob, a1, a2, b1

MCPeerOf == a1 :> alice @@ a2 :> alice @@ b1 :> bob
MCAmountOf == a1 :> 2 @@ a2 :> 1 @@ b1 :> 1
\* Hashes are interchangeable.
MCSymmetry == Permutations(Hashes)

MCClaimOf == [s \in Swaps |-> MCAmountOf[s] + 1]
=============================================================================

----------------------------- MODULE AtomicSwap -----------------------------
(***************************************************************************)
(* What a party promises itself in a swap, whichever way it goes: it gives  *)
(* one leg and gets the other.  What it gives is locked once, and ends with *)
(* the other party or back with it; it gives up what it gets only with      *)
(* nothing locked and nothing given, and locks nothing after that.  What it *)
(* locks may only come too late when the world overtook it on the way: an   *)
(* input of this module, on which nothing here depends otherwise.  The      *)
(* provider's two drivers implement this module.                            *)
(***************************************************************************)
VARIABLES
  given,  \* "none", "locked", "gone" (with the other party) or "back"
  got,    \* "pending", "taken", "waived" (given up) or "lapsed" (taken back)
  overtaken \* input: the time to lock ran out while the lock was on its way

legs == <<given, got>>

TypeOK ==
  /\ given \in {"none", "locked", "gone", "back"}
  /\ got \in {"pending", "taken", "waived", "lapsed"}

Init == given = "none" /\ got = "pending"

Lock ==
  /\ given = "none" /\ (got = "pending" \/ (got = "lapsed" /\ overtaken))
  /\ given' = "locked" /\ UNCHANGED got

\* The other party reveals the preimage, or its time runs out.
Give == given = "locked" /\ given' = "gone" /\ UNCHANGED got
Return == given = "locked" /\ given' = "back" /\ UNCHANGED got

\* Nobody gets the other leg without having put up its own.
Take ==
  /\ given \in {"locked", "gone"} /\ got = "pending"
  /\ got' = "taken" /\ UNCHANGED given

Waive ==
  /\ given \in {"none", "back"} /\ got = "pending"
  /\ got' = "waived" /\ UNCHANGED given

\* The other party, or its node, takes back what it put up.
Lapse ==
  /\ got \in {"pending", "waived"} /\ got' = "lapsed" /\ UNCHANGED given

Next == Lock \/ Give \/ Return \/ Take \/ Waive \/ Lapse

Spec == Init /\ [][Next]_legs
=============================================================================

------------------------------ MODULE MCServices ------------------------------
(***************************************************************************)
(* The services that handlers and drivers call, each by itself: they share   *)
(* no state, so a behaviour moves one of them, the subject.                  *)
(*                                                                          *)
(* Authorization: two accounts, one with a fast clock and a domain; a key of *)
(* the first that also names the second; two requests of one account against *)
(* a client that knows one.                                                  *)
(***************************************************************************)
EXTENDS Authorization, LightningNode, FundingWallet, SwapStore, WakeGrants, SwapListing
CONSTANTS o1, o2, k1, k2, r1, r2, r3, s1, s2, w1, w2

MCGrants == {<<o1, k1>>, <<o2, k2>>}
MCSkew == [o \in Owners |-> IF o = o1 THEN 0 ELSE 2]
MCOwner == [r \in Requests |-> IF r = r1 THEN o1 ELSE o2]
MCKey == [r \in Requests |-> IF r = r2 THEN k2 ELSE k1]

VARIABLE subject

ServicesInit ==
  /\ subject \in {"authorization", "node", "wallet", "store", "wake", "listing"}
  /\ Init /\ NodeInit /\ WalletInit /\ StoreInit /\ WakeInit /\ ListingInit
  /\ subject # "node" => backend = [kind |-> "stub", honours |-> FALSE, asked |-> 0,
                                    bounded |-> FALSE]
  /\ subject # "wallet" => purse = "bdk"
  /\ subject # "wake" => ~dms
  /\ subject # "listing" => \A s \in Swaps : book[s].stage = "absent"

ServicesNext ==
  /\ UNCHANGED subject
  /\ \/ /\ subject = "authorization" /\ Next
        /\ UNCHANGED <<nodeVars, walletVars, storeVars, wakeVars, listingVars>>
     \/ /\ subject = "node" /\ NodeNext
        /\ UNCHANGED <<vars, walletVars, storeVars, wakeVars, listingVars>>
     \/ /\ subject = "wallet" /\ WalletNext
        /\ UNCHANGED <<vars, nodeVars, storeVars, wakeVars, listingVars>>
     \/ /\ subject = "store" /\ StoreNext
        /\ UNCHANGED <<vars, nodeVars, walletVars, wakeVars, listingVars>>
     \/ /\ subject = "wake" /\ WakeNext
        /\ UNCHANGED <<vars, nodeVars, walletVars, storeVars, listingVars>>
     \/ /\ subject = "listing" /\ ListingNext
        /\ UNCHANGED <<vars, nodeVars, walletVars, storeVars, wakeVars>>

ServicesSpec ==
  /\ ServicesInit
  /\ [][ServicesNext]_<<subject, vars, nodeVars, walletVars, storeVars, wakeVars, listingVars>>
=============================================================================

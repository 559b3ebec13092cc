-------------------------- MODULE MCReverseClient --------------------------
(***************************************************************************)
(* ReverseClient for TLC.  The timeout is four blocks after the start, with *)
(* an abort margin of one: a claim may start at the heights 0, 1 and 2, its *)
(* drive stops at 3, and the provider's refund branch opens at 4.           *)
(***************************************************************************)
EXTENDS ReverseClient
=============================================================================

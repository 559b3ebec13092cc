------------------------- MODULE MCSubmarineClient -------------------------
(***************************************************************************)
(* SubmarineClient for TLC.  The refund branch opens at height three, an    *)
(* abort margin of one lets the client fund at the heights 0 and 1, and the *)
(* clock runs one block past the timeout.                                   *)
(***************************************************************************)
EXTENDS SubmarineClient
=============================================================================

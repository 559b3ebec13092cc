--------------------------- MODULE MCCapExchange ---------------------------
\* One quote, one operator's tool, and up to two rotations.
EXTENDS CapExchange
=============================================================================

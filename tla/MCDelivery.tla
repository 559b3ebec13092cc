------------------------------ MODULE MCDelivery ------------------------------
EXTENDS Delivery

CONSTANTS accept, final, quote, swap

MCScopeOf == (accept :> quote) @@ (final :> swap)

MCDeliveryScopes == <<swap, quote>>
=============================================================================

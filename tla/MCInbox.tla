------------------------------- MODULE MCInbox -------------------------------
\* The inbox with two messages of each of two peers: a request each, one resource that
\* does not parse and one without a message.
EXTENDS Inbox, TLC

CONSTANTS p1, p2, m1, m2, m3, m4

MCSender == (m1 :> p1) @@ (m2 :> p1) @@ (m3 :> p2) @@ (m4 :> p2)
=============================================================================

---------------------------- MODULE MCSessionRpc ----------------------------
\* Two requests of one client, of a provider old or new.
EXTENDS SessionRpc
CONSTANT c1

MCClient == [r \in Requests |-> c1]
MCVersions == {{"session/2", "session/1", "direct/1"}, {"session/1"}}
=============================================================================

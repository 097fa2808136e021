-------------------------- MODULE MCGatewayProxy --------------------------
EXTENDS GatewayProxy, TLC

\* Clients and container names are interchangeable.
MCSymmetry == Permutations(Clients) \cup Permutations(CollNames)
=============================================================================

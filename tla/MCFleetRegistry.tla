-------------------------- MODULE MCFleetRegistry --------------------------
EXTENDS FleetRegistry, TLC

Symmetry ==
    Permutations(Hosts) \cup Permutations(Agents) \cup Permutations(Requests)
        \cup Permutations(Addresses)
=============================================================================

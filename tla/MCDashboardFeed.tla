-------------------------- MODULE MCDashboardFeed --------------------------
EXTENDS DashboardFeed, TLC

Symmetry == Permutations(Hosts) \cup Permutations(Clients)
              \cup Permutations(Publishers)
=============================================================================

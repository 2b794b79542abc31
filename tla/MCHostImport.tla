--------------------------- MODULE MCHostImport ---------------------------
EXTENDS HostImport, TLC

CONSTANTS a1, a2, k1, k2

Good(address, methods) ==
    [address |-> address, valid |-> TRUE, usable |-> TRUE, methods |-> methods,
     secret |-> [public |-> k1, private |-> k1]]

\* Two hosts, the first with two methods and twice in the file.
TwoHosts == <<Good(a1, 2), Good(a1, 1), Good(a2, 0)>>

\* The second host has a method that is not valid; the import is refused
\* unless that host is skipped.
BadMethod == <<Good(a1, 0), [Good(a2, 1) EXCEPT !.usable = FALSE]>>

MCFiles == {TwoHosts, BadMethod}

\* Imports bring key pairs, the form passwords.
MCSecrets == {[public |-> Nil, private |-> k1]}

\* Forms with both halves of a new secret, one of them, or none.
MCForms == [Half -> {k2, Nil}]

Symmetry == Permutations(Hosts) \cup Permutations(Methods) \cup Permutations(Requests)
=============================================================================

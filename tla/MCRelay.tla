------------------------------ MODULE MCRelay ------------------------------
EXTENDS Relay, TLC

CONSTANTS u1, u2, k1, k2

\* Users and slots only distinguish sessions.
Symmetry == Permutations(Users) \cup Permutations(Slots)

=============================================================================

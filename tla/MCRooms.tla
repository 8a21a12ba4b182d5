------------------------------ MODULE MCRooms ------------------------------
\* The instance of Rooms that TLC checks.
EXTENDS Rooms, TLC

CONSTANTS u1, u2, p1, p2, n1, n2, h1

\* Users only differ by what they do.
Symmetry == Permutations(Users) \cup Permutations(People)
=============================================================================

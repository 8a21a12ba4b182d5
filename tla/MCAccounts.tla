----------------------------- MODULE MCAccounts -----------------------------
EXTENDS Accounts, TLC

CONSTANTS u1, u2, a, b

\* Users and names are only compared.
Symmetry == Permutations(Users) \cup Permutations(Names)

=============================================================================

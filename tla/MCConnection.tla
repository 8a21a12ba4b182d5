---------------------------- MODULE MCConnection ----------------------------
\* The instance of Connection that TLC checks.
EXTENDS Connection, TLC

CONSTANTS c1, c2, c3
=============================================================================

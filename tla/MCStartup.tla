----------------------------- MODULE MCStartup -----------------------------
\* The instance of Startup that TLC checks.
EXTENDS Startup, TLC

CONSTANTS a, b, c, t1, t2

=============================================================================

----------------------------- MODULE MCHistory -----------------------------
\* History for TLC: its constants are numbers.
EXTENDS History, TLC

=============================================================================

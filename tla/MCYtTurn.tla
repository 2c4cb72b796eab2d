------------------------------ MODULE MCYtTurn ------------------------------
\* Two clicks and two background calls, one of them a download.
EXTENDS YtTurn, TLC

CONSTANTS i1, i2, b1, b2

=============================================================================

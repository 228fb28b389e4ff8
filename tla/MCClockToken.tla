---------------------------- MODULE MCClockToken ----------------------------
\* ClockToken for TLC.
EXTENDS ClockToken
=============================================================================

----------------------------- MODULE MCWatchdog -----------------------------
\* Two processes and two generations.
EXTENDS Watchdog

CONSTANTS g1, g2, p1, p2
=============================================================================

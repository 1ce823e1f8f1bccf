----------------------------- MODULE MCSignalWait -----------------------------
\* Three rounds: in the third, the oldest values of both flags are two rounds old.
EXTENDS SignalWait
==============================================================================

---------------------------- MODULE MCCheckQueue -----------------------------
EXTENDS CheckQueue
==============================================================================

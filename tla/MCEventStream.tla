---------------------------- MODULE MCEventStream ----------------------------
\* FastHashTable's own sizes: a buffer that is given a small upper bound makes
\* a table of a handful of observers.
EXTENDS EventStream

MCThresholds == <<4, 14, 28>>
=============================================================================

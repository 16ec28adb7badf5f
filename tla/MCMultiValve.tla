----------------------------- MODULE MCMultiValve -----------------------------
\* Two valves, one with each backpressure policy.
EXTENDS MultiValve

CONSTANTS v1, v2

MCValves == {v1, v2}
MCBatching == {v2}
=============================================================================

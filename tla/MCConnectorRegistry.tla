-------------------------- MODULE MCConnectorRegistry --------------------------
(* Model values for ConnectorRegistry. *)
EXTENDS ConnectorRegistry

CONSTANTS f1, f2, a1, a2, main, sys, aux

MCFrames == {f1, f2}
MCFirst == {f1}
MCNone == {}
MCAwaiters == {a1, a2}
MCOneAwaiter == {a1}
MCNames == {main, sys, aux}
MCTwoNames == {main, sys}
=============================================================================

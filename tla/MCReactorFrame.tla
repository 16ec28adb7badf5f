--------------------------- MODULE MCReactorFrame ---------------------------
(* Model values for ReactorFrame; the configurations share them. *)
EXTENDS ReactorFrame, TLC

CONSTANTS w1, w2, s1, s2, main, sys, aux, m1, m2

MCWorkers == {w1, w2}
MCOneSender == {s1}
MCTwoSenders == {s1, s2}
MCTwoConns == {main, sys}
MCThreeConns == {main, sys, aux}
MCSysDaemon == {sys}
MCAuxDaemon == {sys, aux}
MCAux == {aux}
MCOneMsg == {m1}
MCTwoMsgs == {m1, m2}

\* Workers are interchangeable, and so are senders and messages.
MCSymmetry ==
  Permutations(Workers) \cup Permutations(Senders) \cup Permutations(Msgs)
=============================================================================

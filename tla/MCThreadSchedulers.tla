-------------------------- MODULE MCThreadSchedulers --------------------------
\* Two frames: a thread of its own next to a timer, or two frames on one timer.
EXTENDS ThreadSchedulers

CONSTANTS f1, f2

MCFrames == {f1, f2}

MCAssignments ==
  {[f \in MCFrames |-> IF f = f1 THEN k ELSE "timer"] : k \in Kinds}
=============================================================================

----------------------- MODULE ReactorFrame_refinement -----------------------
(***************************************************************************)
(* A frame keeps the promise of ReactorContract, for any threads,          *)
(* connectors, events and budget: each of its steps is a step of the       *)
(* abstract reactor, or none that a client could see.  Most of the work is *)
(* to show that the abstract guards hold when the frame acts: that nothing *)
(* is delivered by a reactor that has terminated or failed (LiveShape,     *)
(* FailureShape) or on a sealed channel (ClosingShape), and that the       *)
(* reactor ends with its last channel (OpenCount).                         *)
(***************************************************************************)
EXTENDS ReactorFrame_proofs, FiniteSetTheorems

-----------------------------------------------------------------------------
(* The inductive invariant, next to the frame's own *)

\* Who may begin or go on with a batch has a reactor that has not terminated.
LiveShape ==
  /\ tasks > 0 => life # "Terminated"
  /\ \A s \in Senders : At(s, "schedule") => life # "Terminated"
  /\ ~At(Spawner, "done") => life # "Terminated"
  /\ \A w \in Workers :
       /\ pc[w] \in {"enter", "checkFresh", "create", "first", "next", "spin", "sample",
                    "dequeue", "drain", "checkExit", "schedule"}
            => life # "Terminated"
       /\ stage[w] \in {"ctor", "started", "scheduled", "deliver", "preempted", "died"}
            => life # "Terminated"

\* Where an exception can be on its way out of a batch.
FailureShape ==
  \A w \in Workers :
    /\ At(w, "caught") => failure[w] = "thrown"
    /\ At(w, "checkForced") \/ stage[w] = "died" => failure[w] = "caught"
    /\ failure[w] # "no" =>
         \/ pc[w] \in {"checkExit", "caught", "checkForced", "unregister", "release",
                       "reschedule"}
         \/ stage[w] \in {"died", "terminated"}

\* A connector whose queue still emits although it is closed is in the hands
\* of the worker that seals it.
ClosingShape ==
  /\ \A c \in Conns : conn[c] = "closing" =>
       \E w \in Workers : At(w, "unreact") /\ target[w] = c
  /\ \A w \in Workers : At(w, "unreact") => conn[target[w]] = "closing"

\* nonDaemonCount counts the connectors that keep the reactor alive.
OpenNonDaemons == {c \in Conns \ Daemon : conn[c] = "open"}

OpenCount ==
  IsFiniteSet(OpenNonDaemons) /\ nonDaemonCount = Cardinality(OpenNonDaemons)

ViewInv ==
  /\ FrameInv /\ StrandInv
  /\ LiveShape /\ FailureShape /\ ClosingShape /\ OpenCount

-----------------------------------------------------------------------------
(* While a worker executes the frame, no other worker does, and nobody is *)
(* about to make one.                                                      *)

\* A worker that is not idle has the only token of the frame.
LEMMA SoleWorker ==
  ASSUME FrameInv, StrandInv, NEW w \in Workers, ~At(w, "idle")
  PROVE  /\ tasks = 0 /\ At(Spawner, "done") /\ \A s \in Senders : ~At(s, "schedule")
         /\ \A v \in Workers \ {w} : pc[v] = "idle" /\ stage[v] = "none" /\ failure[v] = "no"
<1>1. w \in Threads /\ Holds(w) /\ Spawner \in Threads /\ Spawner # w
  BY ThreadsAssumption DEF Threads, Holds
<1>2. tasks = 0
  BY <1>1 DEF FrameInv, OneToken, TypeOK
<1>3. At(Spawner, "done")
  <2>1. ~Holds(Spawner) /\ active
    BY <1>1 DEF FrameInv, OneToken
  <2>2. pc[Spawner] \notin {"openSys", "activate", "schedule"}
    BY <1>1, <2>1 DEF Holds
  <2>3. ~At(Spawner, "openMain")
    BY <2>1 DEF FrameInv, Unspawned
  <2> QED
    BY <2>2, <2>3 DEF FrameInv, PcShape, SpawnerPcs, At
<1>4. ASSUME NEW s \in Senders PROVE ~At(s, "schedule")
  <2>1. s \in Threads /\ s # w
    BY ThreadsAssumption DEF Threads
  <2> QED
    BY <1>1, <2>1 DEF FrameInv, OneToken, Holds
<1>5. ASSUME NEW v \in Workers \ {w}
      PROVE  pc[v] = "idle" /\ stage[v] = "none" /\ failure[v] = "no"
  <2>1. pc[v] = "idle"
    BY <1>1 DEF FrameInv, OneToken, Holds, At, Threads
  <2> QED
    BY <2>1 DEF FrameInv, PcShape, UserPcs, StrandInv, LifeShape
<1> QED
  BY <1>2, <1>3, <1>4, <1>5

-----------------------------------------------------------------------------
(* Every step keeps the invariant *)

\* Every step leaves the right to a batch with a reactor that has not
\* terminated: when the worker that executes it terminates it, nobody else has
\* that right, and nobody gets it.
LEMMA LiveShapeStep ==
  ASSUME ViewInv, [Next]_vars
  PROVE  LiveShape'
<1>a. /\ pc \in [Threads -> Pcs]
      /\ stage \in [Threads -> Stages]
      /\ tasks \in Nat
      /\ life \in {"Fresh", "Running", "Terminated"}
  BY DEF ViewInv, FrameInv, TypeOK
<1>b. /\ \A u \in Workers \cup Senders \cup {Spawner} : u \in Threads
      /\ \A u \in Threads : u \in Workers \/ u \in Senders \/ u = Spawner
      /\ Workers \cap Senders = {} /\ Spawner \notin Workers /\ Spawner \notin Senders
  BY ThreadsAssumption DEF Threads
<1>c. ASSUME NEW w \in Workers, pc[w] # "idle"
      PROVE  /\ tasks = 0 /\ pc[Spawner] = "done" /\ \A s \in Senders : pc[s] # "schedule"
             /\ \A v \in Workers \ {w} : pc[v] = "idle" /\ stage[v] = "none" /\ failure[v] = "no"
  BY <1>c, SoleWorker DEF ViewInv, At
<1> USE DEF At, Goto, frameVars, connVars, sendVars, drainVars, vars
<1>1. CASE SpawnOpenMain
  BY <1>1, <1>a, <1>b, <1>c
     DEF ViewInv, LiveShape, FrameInv, PcShape, SpawnerPcs, SenderPcs, UserPcs,
         SpawnOpenMain, OpenConnector
<1>2. CASE SpawnOpenSys
  BY <1>2, <1>a, <1>b, <1>c
     DEF ViewInv, LiveShape, FrameInv, PcShape, SpawnerPcs, SenderPcs, UserPcs,
         SpawnOpenSys, OpenConnector
<1>3. CASE SpawnActivate
  BY <1>3, <1>a, <1>b, <1>c
     DEF ViewInv, LiveShape, FrameInv, PcShape, SpawnerPcs, SenderPcs, UserPcs,
         SpawnActivate
<1>4. ASSUME NEW t \in Threads, Schedule(t) PROVE LiveShape'
  <2>1. life' # "Terminated"
    BY <1>4, <1>a, <1>b DEF Schedule, ViewInv, LiveShape
  <2> QED
    BY <2>1 DEF LiveShape
<1>5. ASSUME NEW t \in Threads, SendEnqueue(t) PROVE LiveShape'
  BY <1>5, <1>a, <1>b, <1>c
     DEF ViewInv, LiveShape, FrameInv, PcShape, SpawnerPcs, SenderPcs, UserPcs,
         SendEnqueue, Resume
<1>6. ASSUME NEW t \in Threads, SendRegister(t) PROVE LiveShape'
  BY <1>6, <1>a, <1>b, <1>c
     DEF ViewInv, LiveShape, FrameInv, PcShape, SpawnerPcs, SenderPcs, UserPcs,
         SendRegister, Resume
<1>7. ASSUME NEW t \in Threads, NEW c \in Conns, NEW m \in Msgs, SendCheck(t, c, m)
      PROVE  LiveShape'
  BY <1>7, <1>a, <1>b, <1>c
     DEF ViewInv, LiveShape, FrameInv, PcShape, SpawnerPcs, SenderPcs, UserPcs,
         SendCheck
<1>8. ASSUME NEW w \in Workers, NEW c \in Conns, UserOpen(w, c) PROVE LiveShape'
  BY <1>8, <1>a, <1>b, <1>c
     DEF ViewInv, LiveShape, FrameInv, PcShape, SpawnerPcs, SenderPcs, UserPcs,
         UserOpen, OpenConnector
<1>9. ASSUME NEW w \in Workers, NEW c \in Conns, UserSeal(w, c) PROVE LiveShape'
  BY <1>9, <1>a, <1>b, <1>c
     DEF ViewInv, LiveShape, FrameInv, PcShape, SpawnerPcs, SenderPcs, UserPcs, UserSeal
<1>10. ASSUME NEW w \in Workers, TakeTask(w) PROVE LiveShape'
  BY <1>10, <1>a, <1>b, <1>c
     DEF ViewInv, LiveShape, FrameInv, PcShape, SpawnerPcs, SenderPcs, UserPcs, TakeTask
<1>11. ASSUME NEW w \in Workers, Enter(w) PROVE LiveShape'
  BY <1>11, <1>a, <1>b, <1>c
     DEF ViewInv, LiveShape, FrameInv, PcShape, SpawnerPcs, SenderPcs, UserPcs, Enter
<1>12. ASSUME NEW w \in Workers, CheckFresh(w) PROVE LiveShape'
  <2>1. life' # "Terminated"
    BY <1>12, <1>a, <1>b DEF CheckFresh, ViewInv, LiveShape
  <2> QED
    BY <2>1 DEF LiveShape
<1>13. ASSUME NEW w \in Workers, Create(w) PROVE LiveShape'
  <2>1. life' # "Terminated"
    BY <1>13, <1>a, <1>b DEF Create, ViewInv, LiveShape
  <2> QED
    BY <2>1 DEF LiveShape
<1>14. ASSUME NEW w \in Workers, CreateFails(w) PROVE LiveShape'
  BY <1>14, <1>a, <1>b, <1>c
     DEF ViewInv, LiveShape, FrameInv, PcShape, SpawnerPcs, SenderPcs, UserPcs,
         CreateFails
<1>15. ASSUME NEW w \in Workers, Unreact(w) PROVE LiveShape'
  BY <1>15, <1>a, <1>b, <1>c
     DEF ViewInv, LiveShape, FrameInv, PcShape, SpawnerPcs, SenderPcs, UserPcs, Unreact
<1>16. ASSUME NEW w \in Workers, UserReturn(w) PROVE LiveShape'
  BY <1>16, <1>a, <1>b, <1>c
     DEF ViewInv, LiveShape, FrameInv, PcShape, SpawnerPcs, SenderPcs, UserPcs,
         UserReturn, ReturnTo
<1>17. ASSUME NEW w \in Workers, UserStarts(w) PROVE LiveShape'
  BY <1>17, <1>a, <1>b, <1>c
     DEF ViewInv, LiveShape, FrameInv, PcShape, SpawnerPcs, SenderPcs, UserPcs,
         UserStarts, CallUser
<1>18. ASSUME NEW w \in Workers, BatchStart(w) PROVE LiveShape'
  BY <1>18, <1>a, <1>b, <1>c
     DEF ViewInv, LiveShape, FrameInv, PcShape, SpawnerPcs, SenderPcs, UserPcs,
         BatchStart
<1>19. ASSUME NEW w \in Workers, UserThrow(w) PROVE LiveShape'
  BY <1>19, <1>a, <1>b, <1>c
     DEF ViewInv, LiveShape, FrameInv, PcShape, SpawnerPcs, SenderPcs, UserPcs,
         UserThrow, ThrowTo
<1>20. ASSUME NEW w \in Workers, PopFirst(w) PROVE LiveShape'
  BY <1>20, <1>a, <1>b, <1>c
     DEF ViewInv, LiveShape, FrameInv, PcShape, SpawnerPcs, SenderPcs, UserPcs,
         PopFirst, PopPending, GiveUp
<1>21. ASSUME NEW w \in Workers, PopNext(w) PROVE LiveShape'
  <2>1. life' # "Terminated"
    BY <1>21, <1>a, <1>b DEF PopNext, ViewInv, LiveShape, PopPending, GiveUp, Preempt
  <2> QED
    BY <2>1 DEF LiveShape
<1>22. ASSUME NEW w \in Workers, PopSpin(w) PROVE LiveShape'
  BY <1>22, <1>a, <1>b, <1>c
     DEF ViewInv, LiveShape, FrameInv, PcShape, SpawnerPcs, SenderPcs, UserPcs, PopSpin,
         PopPending, GiveUp
<1>23. ASSUME NEW w \in Workers, PopSample(w) PROVE LiveShape'
  <2>1. life' # "Terminated"
    BY <1>23, <1>a, <1>b DEF PopSample, ViewInv, LiveShape, PopPending, GiveUp, Preempt
  <2> QED
    BY <2>1 DEF LiveShape
<1>24. ASSUME NEW w \in Workers, Dequeue(w) PROVE LiveShape'
  <2>1. life' # "Terminated"
    BY <1>24, <1>a, <1>b DEF Dequeue, ViewInv, LiveShape
  <2> QED
    BY <2>1 DEF LiveShape
<1>25. ASSUME NEW w \in Workers, DrainAgain(w) PROVE LiveShape'
  BY <1>25, <1>a, <1>b, <1>c
     DEF ViewInv, LiveShape, FrameInv, PcShape, SpawnerPcs, SenderPcs, UserPcs,
         DrainAgain
<1>26. ASSUME NEW w \in Workers, DrainNext(w) PROVE LiveShape'
  BY <1>26, <1>a, <1>b, <1>c
     DEF ViewInv, LiveShape, FrameInv, PcShape, SpawnerPcs, SenderPcs, UserPcs,
         DrainNext
<1>27. ASSUME NEW w \in Workers, DrainPreempted(w) PROVE LiveShape'
  <2>1. life' # "Terminated"
    BY <1>27, <1>a, <1>b DEF DrainPreempted, ViewInv, LiveShape, PreemptedAt
  <2> QED
    BY <2>1 DEF LiveShape
<1>28. ASSUME NEW w \in Workers, CheckExit(w) PROVE LiveShape'
  BY <1>28, <1>a, <1>b, <1>c
     DEF ViewInv, LiveShape, FrameInv, PcShape, SpawnerPcs, SenderPcs, UserPcs,
         CheckExit, CheckTerminated, CallUser
<1>29. ASSUME NEW w \in Workers, Catch(w) PROVE LiveShape'
  BY <1>29, <1>a, <1>b, <1>c
     DEF ViewInv, LiveShape, FrameInv, PcShape, SpawnerPcs, SenderPcs, UserPcs, Catch,
         CallUser
<1>30. ASSUME NEW w \in Workers, CheckForced(w) PROVE LiveShape'
  BY <1>30, <1>a, <1>b, <1>c
     DEF ViewInv, LiveShape, FrameInv, PcShape, SpawnerPcs, SenderPcs, UserPcs,
         CheckForced, CheckTerminated, CallUser
<1>31. ASSUME NEW w \in Workers, Unregister(w) PROVE LiveShape'
  BY <1>31, <1>a, <1>b, <1>c
     DEF ViewInv, LiveShape, FrameInv, PcShape, SpawnerPcs, SenderPcs, UserPcs,
         Unregister
<1>32. ASSUME NEW w \in Workers, Release(w) PROVE LiveShape'
  BY <1>32, <1>a, <1>b, <1>c
     DEF ViewInv, LiveShape, FrameInv, PcShape, SpawnerPcs, SenderPcs, UserPcs, Release
<1>33. ASSUME NEW w \in Workers, Reschedule(w) PROVE LiveShape'
  BY <1>33, <1>a, <1>b, <1>c
     DEF ViewInv, LiveShape, FrameInv, PcShape, SpawnerPcs, SenderPcs, UserPcs,
         Reschedule
<1>34. CASE UNCHANGED vars
  BY <1>34, <1>a, <1>b
     DEF ViewInv, LiveShape, FrameInv, PcShape, SpawnerPcs, SenderPcs, UserPcs
<1> QED
  BY NextCases, <1>1, <1>2, <1>3, <1>4, <1>5, <1>6, <1>7, <1>8, <1>9, <1>10, <1>11,
     <1>12, <1>13, <1>14, <1>15, <1>16, <1>17, <1>18, <1>19, <1>20, <1>21, <1>22, <1>23,
     <1>24, <1>25, <1>26, <1>27, <1>28, <1>29, <1>30, <1>31, <1>32, <1>33, <1>34

\* Every step keeps exceptions on their way out of the batch.
LEMMA FailureShapeStep ==
  ASSUME ViewInv, [Next]_vars
  PROVE  FailureShape'
<1>a. /\ pc \in [Threads -> Pcs]
      /\ stage \in [Threads -> Stages]
      /\ failure \in [Workers -> {"no", "thrown", "caught"}]
  BY DEF ViewInv, FrameInv, TypeOK
<1>b. /\ \A u \in Workers \cup Senders \cup {Spawner} : u \in Threads
      /\ \A u \in Threads : u \in Workers \/ u \in Senders \/ u = Spawner
      /\ Workers \cap Senders = {} /\ Spawner \notin Workers /\ Spawner \notin Senders
  BY ThreadsAssumption DEF Threads
<1> USE DEF At, Goto, frameVars, connVars, sendVars, drainVars, vars
<1>1. CASE SpawnOpenMain
  BY <1>1, <1>a, <1>b
     DEF ViewInv, FailureShape, FrameInv, PcShape, SpawnerPcs, SenderPcs, UserPcs,
         SpawnOpenMain, OpenConnector
<1>2. CASE SpawnOpenSys
  BY <1>2, <1>a, <1>b
     DEF ViewInv, FailureShape, FrameInv, PcShape, SpawnerPcs, SenderPcs, UserPcs,
         SpawnOpenSys, OpenConnector
<1>3. CASE SpawnActivate
  BY <1>3, <1>a, <1>b
     DEF ViewInv, FailureShape, FrameInv, PcShape, SpawnerPcs, SenderPcs, UserPcs,
         SpawnActivate
<1>4. ASSUME NEW t \in Threads, Schedule(t) PROVE FailureShape'
  BY <1>4, <1>a, <1>b
     DEF ViewInv, FailureShape, FrameInv, PcShape, SpawnerPcs, SenderPcs, UserPcs,
         Schedule, Resume
<1>5. ASSUME NEW t \in Threads, SendEnqueue(t) PROVE FailureShape'
  BY <1>5, <1>a, <1>b
     DEF ViewInv, FailureShape, FrameInv, PcShape, SpawnerPcs, SenderPcs, UserPcs,
         SendEnqueue, Resume
<1>6. ASSUME NEW t \in Threads, SendRegister(t) PROVE FailureShape'
  BY <1>6, <1>a, <1>b
     DEF ViewInv, FailureShape, FrameInv, PcShape, SpawnerPcs, SenderPcs, UserPcs,
         SendRegister, Resume
<1>7. ASSUME NEW t \in Threads, NEW c \in Conns, NEW m \in Msgs, SendCheck(t, c, m)
      PROVE  FailureShape'
  BY <1>7, <1>a, <1>b
     DEF ViewInv, FailureShape, FrameInv, PcShape, SpawnerPcs, SenderPcs, UserPcs,
         SendCheck
<1>8. ASSUME NEW w \in Workers, NEW c \in Conns, UserOpen(w, c) PROVE FailureShape'
  BY <1>8, <1>a, <1>b
     DEF ViewInv, FailureShape, FrameInv, PcShape, SpawnerPcs, SenderPcs, UserPcs,
         UserOpen, OpenConnector
<1>9. ASSUME NEW w \in Workers, NEW c \in Conns, UserSeal(w, c) PROVE FailureShape'
  BY <1>9, <1>a, <1>b
     DEF ViewInv, FailureShape, FrameInv, PcShape, SpawnerPcs, SenderPcs, UserPcs,
         UserSeal
<1>10. ASSUME NEW w \in Workers, TakeTask(w) PROVE FailureShape'
  BY <1>10, <1>a, <1>b
     DEF ViewInv, FailureShape, FrameInv, PcShape, SpawnerPcs, SenderPcs, UserPcs,
         TakeTask
<1>11. ASSUME NEW w \in Workers, Enter(w) PROVE FailureShape'
  BY <1>11, <1>a, <1>b
     DEF ViewInv, FailureShape, FrameInv, PcShape, SpawnerPcs, SenderPcs, UserPcs, Enter
<1>12. ASSUME NEW w \in Workers, CheckFresh(w) PROVE FailureShape'
  BY <1>12, <1>a, <1>b
     DEF ViewInv, FailureShape, FrameInv, PcShape, SpawnerPcs, SenderPcs, UserPcs,
         CheckFresh, CallUser
<1>13. ASSUME NEW w \in Workers, Create(w) PROVE FailureShape'
  BY <1>13, <1>a, <1>b
     DEF ViewInv, FailureShape, FrameInv, PcShape, SpawnerPcs, SenderPcs, UserPcs,
         Create, CallUser
<1>14. ASSUME NEW w \in Workers, CreateFails(w) PROVE FailureShape'
  BY <1>14, <1>a, <1>b
     DEF ViewInv, FailureShape, FrameInv, PcShape, SpawnerPcs, SenderPcs, UserPcs,
         CreateFails
<1>15. ASSUME NEW w \in Workers, Unreact(w) PROVE FailureShape'
  BY <1>15, <1>a, <1>b
     DEF ViewInv, FailureShape, FrameInv, PcShape, SpawnerPcs, SenderPcs, UserPcs,
         Unreact
<1>16. ASSUME NEW w \in Workers, UserReturn(w) PROVE FailureShape'
  BY <1>16, <1>a, <1>b
     DEF ViewInv, FailureShape, FrameInv, PcShape, SpawnerPcs, SenderPcs, UserPcs,
         UserReturn, ReturnTo
<1>17. ASSUME NEW w \in Workers, UserStarts(w) PROVE FailureShape'
  BY <1>17, <1>a, <1>b
     DEF ViewInv, FailureShape, FrameInv, PcShape, SpawnerPcs, SenderPcs, UserPcs,
         UserStarts, CallUser
<1>18. ASSUME NEW w \in Workers, BatchStart(w) PROVE FailureShape'
  BY <1>18, <1>a, <1>b
     DEF ViewInv, FailureShape, FrameInv, PcShape, SpawnerPcs, SenderPcs, UserPcs,
         BatchStart
<1>19. ASSUME NEW w \in Workers, UserThrow(w) PROVE FailureShape'
  BY <1>19, <1>a, <1>b
     DEF ViewInv, FailureShape, FrameInv, PcShape, SpawnerPcs, SenderPcs, UserPcs,
         UserThrow, ThrowTo
<1>20. ASSUME NEW w \in Workers, PopFirst(w) PROVE FailureShape'
  BY <1>20, <1>a, <1>b
     DEF ViewInv, FailureShape, FrameInv, PcShape, SpawnerPcs, SenderPcs, UserPcs,
         PopFirst, PopPending, GiveUp
<1>21. ASSUME NEW w \in Workers, PopNext(w) PROVE FailureShape'
  BY <1>21, <1>a, <1>b
     DEF ViewInv, FailureShape, FrameInv, PcShape, SpawnerPcs, SenderPcs, UserPcs,
         PopNext, PopPending, GiveUp, Preempt, CallUser
<1>22. ASSUME NEW w \in Workers, PopSpin(w) PROVE FailureShape'
  BY <1>22, <1>a, <1>b
     DEF ViewInv, FailureShape, FrameInv, PcShape, SpawnerPcs, SenderPcs, UserPcs,
         PopSpin, PopPending, GiveUp
<1>23. ASSUME NEW w \in Workers, PopSample(w) PROVE FailureShape'
  BY <1>23, <1>a, <1>b
     DEF ViewInv, FailureShape, FrameInv, PcShape, SpawnerPcs, SenderPcs, UserPcs,
         PopSample, PopPending, Preempt, CallUser
<1>24. ASSUME NEW w \in Workers, Dequeue(w) PROVE FailureShape'
  BY <1>24, <1>a, <1>b
     DEF ViewInv, FailureShape, FrameInv, PcShape, SpawnerPcs, SenderPcs, UserPcs,
         Dequeue, CallUser
<1>25. ASSUME NEW w \in Workers, DrainAgain(w) PROVE FailureShape'
  BY <1>25, <1>a, <1>b
     DEF ViewInv, FailureShape, FrameInv, PcShape, SpawnerPcs, SenderPcs, UserPcs,
         DrainAgain
<1>26. ASSUME NEW w \in Workers, DrainNext(w) PROVE FailureShape'
  BY <1>26, <1>a, <1>b
     DEF ViewInv, FailureShape, FrameInv, PcShape, SpawnerPcs, SenderPcs, UserPcs,
         DrainNext
<1>27. ASSUME NEW w \in Workers, DrainPreempted(w) PROVE FailureShape'
  BY <1>27, <1>a, <1>b
     DEF ViewInv, FailureShape, FrameInv, PcShape, SpawnerPcs, SenderPcs, UserPcs,
         DrainPreempted, PreemptedAt, CallUser
<1>28. ASSUME NEW w \in Workers, CheckExit(w) PROVE FailureShape'
  BY <1>28, <1>a, <1>b
     DEF ViewInv, FailureShape, FrameInv, PcShape, SpawnerPcs, SenderPcs, UserPcs,
         CheckExit, CheckTerminated, CallUser
<1>29. ASSUME NEW w \in Workers, Catch(w) PROVE FailureShape'
  BY <1>29, <1>a, <1>b
     DEF ViewInv, FailureShape, FrameInv, PcShape, SpawnerPcs, SenderPcs, UserPcs,
         Catch, CallUser
<1>30. ASSUME NEW w \in Workers, CheckForced(w) PROVE FailureShape'
  BY <1>30, <1>a, <1>b
     DEF ViewInv, FailureShape, FrameInv, PcShape, SpawnerPcs, SenderPcs, UserPcs,
         CheckForced, CheckTerminated, CallUser
<1>31. ASSUME NEW w \in Workers, Unregister(w) PROVE FailureShape'
  BY <1>31, <1>a, <1>b
     DEF ViewInv, FailureShape, FrameInv, PcShape, SpawnerPcs, SenderPcs, UserPcs,
         Unregister
<1>32. ASSUME NEW w \in Workers, Release(w) PROVE FailureShape'
  BY <1>32, <1>a, <1>b
     DEF ViewInv, FailureShape, FrameInv, PcShape, SpawnerPcs, SenderPcs, UserPcs,
         Release
<1>33. ASSUME NEW w \in Workers, Reschedule(w) PROVE FailureShape'
  BY <1>33, <1>a, <1>b
     DEF ViewInv, FailureShape, FrameInv, PcShape, SpawnerPcs, SenderPcs, UserPcs,
         Reschedule
<1>34. CASE UNCHANGED vars
  BY <1>34, <1>a, <1>b
     DEF ViewInv, FailureShape, FrameInv, PcShape, SpawnerPcs, SenderPcs, UserPcs
<1> QED
  BY NextCases, <1>1, <1>2, <1>3, <1>4, <1>5, <1>6, <1>7, <1>8, <1>9, <1>10, <1>11,
     <1>12, <1>13, <1>14, <1>15, <1>16, <1>17, <1>18, <1>19, <1>20, <1>21, <1>22, <1>23,
     <1>24, <1>25, <1>26, <1>27, <1>28, <1>29, <1>30, <1>31, <1>32, <1>33, <1>34

\* Every step leaves a closed connector that still emits with the worker that
\* seals it.
LEMMA ClosingShapeStep ==
  ASSUME ViewInv, [Next]_vars
  PROVE  ClosingShape'
<1>a. /\ pc \in [Threads -> Pcs]
      /\ target \in [Threads -> Conns \cup {Null}]
      /\ conn \in [Conns -> {"absent", "open", "closing", "sealed"}]
  BY DEF ViewInv, FrameInv, TypeOK
<1>b. /\ \A u \in Workers \cup Senders \cup {Spawner} : u \in Threads
      /\ \A u \in Threads : u \in Workers \/ u \in Senders \/ u = Spawner
      /\ Workers \cap Senders = {} /\ Spawner \notin Workers /\ Spawner \notin Senders
  BY ThreadsAssumption DEF Threads
<1>c. ASSUME NEW w \in Workers, pc[w] # "idle"
      PROVE  /\ tasks = 0 /\ pc[Spawner] = "done" /\ \A s \in Senders : pc[s] # "schedule"
             /\ \A v \in Workers \ {w} : pc[v] = "idle" /\ stage[v] = "none" /\ failure[v] = "no"
  BY <1>c, SoleWorker DEF ViewInv, At
<1> USE DEF At, Goto, frameVars, connVars, sendVars, drainVars, vars
<1>1. CASE SpawnOpenMain
  BY <1>1, <1>a, <1>b, <1>c
     DEF ViewInv, ClosingShape, TargetShape, FrameInv, PcShape, SpawnerPcs, SenderPcs,
         UserPcs, SpawnOpenMain, OpenConnector
<1>2. CASE SpawnOpenSys
  BY <1>2, <1>a, <1>b, <1>c
     DEF ViewInv, ClosingShape, TargetShape, FrameInv, PcShape, SpawnerPcs, SenderPcs,
         UserPcs, SpawnOpenSys, OpenConnector
<1>3. CASE SpawnActivate
  BY <1>3, <1>a, <1>b, <1>c
     DEF ViewInv, ClosingShape, TargetShape, FrameInv, PcShape, SpawnerPcs, SenderPcs,
         UserPcs, SpawnActivate
<1>4. ASSUME NEW t \in Threads, Schedule(t) PROVE ClosingShape'
  BY <1>4, <1>a, <1>b, <1>c
     DEF ViewInv, ClosingShape, TargetShape, FrameInv, PcShape, SpawnerPcs, SenderPcs,
         UserPcs, Schedule, Resume
<1>5. ASSUME NEW t \in Threads, SendEnqueue(t) PROVE ClosingShape'
  BY <1>5, <1>a, <1>b, <1>c
     DEF ViewInv, ClosingShape, TargetShape, FrameInv, PcShape, SpawnerPcs, SenderPcs,
         UserPcs, SendEnqueue, Resume
<1>6. ASSUME NEW t \in Threads, SendRegister(t) PROVE ClosingShape'
  BY <1>6, <1>a, <1>b, <1>c
     DEF ViewInv, ClosingShape, TargetShape, FrameInv, PcShape, SpawnerPcs, SenderPcs,
         UserPcs, SendRegister, Resume
<1>7. ASSUME NEW t \in Threads, NEW c \in Conns, NEW m \in Msgs, SendCheck(t, c, m)
      PROVE  ClosingShape'
  BY <1>7, <1>a, <1>b, <1>c
     DEF ViewInv, ClosingShape, TargetShape, FrameInv, PcShape, SpawnerPcs, SenderPcs,
         UserPcs, SendCheck
<1>8. ASSUME NEW w \in Workers, NEW c \in Conns, UserOpen(w, c) PROVE ClosingShape'
  BY <1>8, <1>a, <1>b, <1>c
     DEF ViewInv, ClosingShape, TargetShape, FrameInv, PcShape, SpawnerPcs, SenderPcs,
         UserPcs, UserOpen, OpenConnector
<1>9. ASSUME NEW w \in Workers, NEW c \in Conns, UserSeal(w, c) PROVE ClosingShape'
  BY <1>9, <1>a, <1>b, <1>c
     DEF ViewInv, ClosingShape, TargetShape, FrameInv, PcShape, SpawnerPcs, SenderPcs,
         UserPcs, UserSeal
<1>10. ASSUME NEW w \in Workers, TakeTask(w) PROVE ClosingShape'
  BY <1>10, <1>a, <1>b, <1>c
     DEF ViewInv, ClosingShape, TargetShape, FrameInv, PcShape, SpawnerPcs, SenderPcs,
         UserPcs, TakeTask
<1>11. ASSUME NEW w \in Workers, Enter(w) PROVE ClosingShape'
  BY <1>11, <1>a, <1>b, <1>c
     DEF ViewInv, ClosingShape, TargetShape, FrameInv, PcShape, SpawnerPcs, SenderPcs,
         UserPcs, Enter
<1>12. ASSUME NEW w \in Workers, CheckFresh(w) PROVE ClosingShape'
  BY <1>12, <1>a, <1>b, <1>c
     DEF ViewInv, ClosingShape, TargetShape, FrameInv, PcShape, SpawnerPcs, SenderPcs,
         UserPcs, CheckFresh, CallUser
<1>13. ASSUME NEW w \in Workers, Create(w) PROVE ClosingShape'
  BY <1>13, <1>a, <1>b, <1>c
     DEF ViewInv, ClosingShape, TargetShape, FrameInv, PcShape, SpawnerPcs, SenderPcs,
         UserPcs, Create, CallUser
<1>14. ASSUME NEW w \in Workers, CreateFails(w) PROVE ClosingShape'
  BY <1>14, <1>a, <1>b, <1>c
     DEF ViewInv, ClosingShape, TargetShape, FrameInv, PcShape, SpawnerPcs, SenderPcs,
         UserPcs, CreateFails
<1>15. ASSUME NEW w \in Workers, Unreact(w) PROVE ClosingShape'
  BY <1>15, <1>a, <1>b, <1>c
     DEF ViewInv, ClosingShape, TargetShape, FrameInv, PcShape, SpawnerPcs, SenderPcs,
         UserPcs, Unreact
<1>16. ASSUME NEW w \in Workers, UserReturn(w) PROVE ClosingShape'
  BY <1>16, <1>a, <1>b, <1>c
     DEF ViewInv, ClosingShape, TargetShape, FrameInv, PcShape, SpawnerPcs, SenderPcs,
         UserPcs, UserReturn, ReturnTo
<1>17. ASSUME NEW w \in Workers, UserStarts(w) PROVE ClosingShape'
  BY <1>17, <1>a, <1>b, <1>c
     DEF ViewInv, ClosingShape, TargetShape, FrameInv, PcShape, SpawnerPcs, SenderPcs,
         UserPcs, UserStarts, CallUser
<1>18. ASSUME NEW w \in Workers, BatchStart(w) PROVE ClosingShape'
  BY <1>18, <1>a, <1>b, <1>c
     DEF ViewInv, ClosingShape, TargetShape, FrameInv, PcShape, SpawnerPcs, SenderPcs,
         UserPcs, BatchStart
<1>19. ASSUME NEW w \in Workers, UserThrow(w) PROVE ClosingShape'
  BY <1>19, <1>a, <1>b, <1>c
     DEF ViewInv, ClosingShape, TargetShape, FrameInv, PcShape, SpawnerPcs, SenderPcs,
         UserPcs, UserThrow, ThrowTo
<1>20. ASSUME NEW w \in Workers, PopFirst(w) PROVE ClosingShape'
  BY <1>20, <1>a, <1>b, <1>c
     DEF ViewInv, ClosingShape, TargetShape, FrameInv, PcShape, SpawnerPcs, SenderPcs,
         UserPcs, PopFirst, PopPending, GiveUp
<1>21. ASSUME NEW w \in Workers, PopNext(w) PROVE ClosingShape'
  BY <1>21, <1>a, <1>b, <1>c
     DEF ViewInv, ClosingShape, TargetShape, FrameInv, PcShape, SpawnerPcs, SenderPcs,
         UserPcs, PopNext, PopPending, GiveUp, Preempt, CallUser
<1>22. ASSUME NEW w \in Workers, PopSpin(w) PROVE ClosingShape'
  BY <1>22, <1>a, <1>b, <1>c
     DEF ViewInv, ClosingShape, TargetShape, FrameInv, PcShape, SpawnerPcs, SenderPcs,
         UserPcs, PopSpin, PopPending, GiveUp
<1>23. ASSUME NEW w \in Workers, PopSample(w) PROVE ClosingShape'
  BY <1>23, <1>a, <1>b, <1>c
     DEF ViewInv, ClosingShape, TargetShape, FrameInv, PcShape, SpawnerPcs, SenderPcs,
         UserPcs, PopSample, PopPending, Preempt, CallUser
<1>24. ASSUME NEW w \in Workers, Dequeue(w) PROVE ClosingShape'
  BY <1>24, <1>a, <1>b, <1>c
     DEF ViewInv, ClosingShape, TargetShape, FrameInv, PcShape, SpawnerPcs, SenderPcs,
         UserPcs, Dequeue, CallUser
<1>25. ASSUME NEW w \in Workers, DrainAgain(w) PROVE ClosingShape'
  BY <1>25, <1>a, <1>b, <1>c
     DEF ViewInv, ClosingShape, TargetShape, FrameInv, PcShape, SpawnerPcs, SenderPcs,
         UserPcs, DrainAgain
<1>26. ASSUME NEW w \in Workers, DrainNext(w) PROVE ClosingShape'
  BY <1>26, <1>a, <1>b, <1>c
     DEF ViewInv, ClosingShape, TargetShape, FrameInv, PcShape, SpawnerPcs, SenderPcs,
         UserPcs, DrainNext
<1>27. ASSUME NEW w \in Workers, DrainPreempted(w) PROVE ClosingShape'
  BY <1>27, <1>a, <1>b, <1>c
     DEF ViewInv, ClosingShape, TargetShape, FrameInv, PcShape, SpawnerPcs, SenderPcs,
         UserPcs, DrainPreempted, PreemptedAt, CallUser
<1>28. ASSUME NEW w \in Workers, CheckExit(w) PROVE ClosingShape'
  BY <1>28, <1>a, <1>b, <1>c
     DEF ViewInv, ClosingShape, TargetShape, FrameInv, PcShape, SpawnerPcs, SenderPcs,
         UserPcs, CheckExit, CheckTerminated, CallUser
<1>29. ASSUME NEW w \in Workers, Catch(w) PROVE ClosingShape'
  BY <1>29, <1>a, <1>b, <1>c
     DEF ViewInv, ClosingShape, TargetShape, FrameInv, PcShape, SpawnerPcs, SenderPcs,
         UserPcs, Catch, CallUser
<1>30. ASSUME NEW w \in Workers, CheckForced(w) PROVE ClosingShape'
  BY <1>30, <1>a, <1>b, <1>c
     DEF ViewInv, ClosingShape, TargetShape, FrameInv, PcShape, SpawnerPcs, SenderPcs,
         UserPcs, CheckForced, CheckTerminated, CallUser
<1>31. ASSUME NEW w \in Workers, Unregister(w) PROVE ClosingShape'
  BY <1>31, <1>a, <1>b, <1>c
     DEF ViewInv, ClosingShape, TargetShape, FrameInv, PcShape, SpawnerPcs, SenderPcs,
         UserPcs, Unregister
<1>32. ASSUME NEW w \in Workers, Release(w) PROVE ClosingShape'
  BY <1>32, <1>a, <1>b, <1>c
     DEF ViewInv, ClosingShape, TargetShape, FrameInv, PcShape, SpawnerPcs, SenderPcs,
         UserPcs, Release
<1>33. ASSUME NEW w \in Workers, Reschedule(w) PROVE ClosingShape'
  BY <1>33, <1>a, <1>b, <1>c
     DEF ViewInv, ClosingShape, TargetShape, FrameInv, PcShape, SpawnerPcs, SenderPcs,
         UserPcs, Reschedule
<1>34. CASE UNCHANGED vars
  BY <1>34, <1>a, <1>b
     DEF ViewInv, ClosingShape, TargetShape, FrameInv, PcShape, SpawnerPcs, SenderPcs,
       UserPcs
<1> QED
  BY NextCases, <1>1, <1>2, <1>3, <1>4, <1>5, <1>6, <1>7, <1>8, <1>9, <1>10, <1>11,
     <1>12, <1>13, <1>14, <1>15, <1>16, <1>17, <1>18, <1>19, <1>20, <1>21, <1>22, <1>23,
     <1>24, <1>25, <1>26, <1>27, <1>28, <1>29, <1>30, <1>31, <1>32, <1>33, <1>34

\* Opening a connector counts it, unless it is a daemon.
LEMMA OpenConnectorCounts ==
  ASSUME ViewInv, NEW c \in Conns, OpenConnector(c)
  PROVE  OpenCount'
<1> DEFINE S == {d \in Conns \ Daemon : conn[d] = "open"}
<1>1. /\ IsFiniteSet(S) /\ Cardinality(S) \in Nat /\ nonDaemonCount = Cardinality(S)
      /\ conn \in [Conns -> {"absent", "open", "closing", "sealed"}] /\ c \notin S
  BY FS_CardinalityType DEF ViewInv, OpenCount, OpenNonDaemons, FrameInv, TypeOK, OpenConnector
<1>2. CASE c \in Daemon
  <2>1. OpenNonDaemons' = S /\ nonDaemonCount' = nonDaemonCount
    BY <1>1, <1>2 DEF OpenConnector, OpenNonDaemons, NonDaemons
  <2> QED
    BY <1>1, <2>1 DEF OpenCount
<1>3. CASE c \notin Daemon
  <2>1. OpenNonDaemons' = S \cup {c} /\ nonDaemonCount' = nonDaemonCount + 1
    BY <1>1, <1>3 DEF OpenConnector, OpenNonDaemons, NonDaemons
  <2>2. IsFiniteSet(S \cup {c}) /\ Cardinality(S \cup {c}) = Cardinality(S) + 1
    BY <1>1, FS_AddElement
  <2> QED
    BY <1>1, <2>1, <2>2 DEF OpenCount
<1> QED
  BY <1>2, <1>3

\* Sealing a connector takes it off the count, unless it is a daemon.
LEMMA UserSealCounts ==
  ASSUME ViewInv, NEW w \in Workers, NEW c \in Conns, UserSeal(w, c)
  PROVE  OpenCount'
<1> DEFINE S == {d \in Conns \ Daemon : conn[d] = "open"}
<1>1. /\ IsFiniteSet(S) /\ Cardinality(S) \in Nat /\ nonDaemonCount = Cardinality(S)
      /\ conn \in [Conns -> {"absent", "open", "closing", "sealed"}]
  BY FS_CardinalityType DEF ViewInv, OpenCount, OpenNonDaemons, FrameInv, TypeOK
<1>2. CASE c \in Daemon
  <2>1. OpenNonDaemons' = S /\ nonDaemonCount' = nonDaemonCount
    BY <1>1, <1>2 DEF UserSeal, OpenNonDaemons, NonDaemons
  <2> QED
    BY <1>1, <2>1 DEF OpenCount
<1>3. CASE c \notin Daemon
  <2>1. OpenNonDaemons' = S \ {c} /\ nonDaemonCount' = nonDaemonCount - 1 /\ c \in S
    BY <1>1, <1>3 DEF UserSeal, OpenNonDaemons, NonDaemons
  <2>2. IsFiniteSet(S \ {c}) /\ Cardinality(S \ {c}) = Cardinality(S) - 1
    BY <1>1, <2>1, FS_RemoveElement
  <2> QED
    BY <1>1, <2>1, <2>2 DEF OpenCount
<1> QED
  BY <1>2, <1>3

\* Every step keeps the count of the connectors that keep the reactor alive.
LEMMA OpenCountStep ==
  ASSUME ViewInv, [Next]_vars
  PROVE  OpenCount'
<1>a. /\ conn \in [Conns -> {"absent", "open", "closing", "sealed"}]
      /\ nonDaemonCount \in Int
  BY DEF ViewInv, FrameInv, TypeOK
<1>b. /\ \A u \in Workers \cup Senders \cup {Spawner} : u \in Threads
      /\ \A u \in Threads : u \in Workers \/ u \in Senders \/ u = Spawner
      /\ Workers \cap Senders = {} /\ Spawner \notin Workers /\ Spawner \notin Senders
  BY ThreadsAssumption DEF Threads
<1> USE DEF At, Goto, frameVars, connVars, sendVars, drainVars, vars
<1>1. CASE SpawnOpenMain
  BY <1>1, ConnsAssumption, OpenConnectorCounts DEF SpawnOpenMain
<1>2. CASE SpawnOpenSys
  BY <1>2, ConnsAssumption, OpenConnectorCounts DEF SpawnOpenSys
<1>3. CASE SpawnActivate
  BY <1>3, <1>a, <1>b
     DEF ViewInv, OpenCount, OpenNonDaemons, SpawnActivate
<1>4. ASSUME NEW t \in Threads, Schedule(t) PROVE OpenCount'
  BY <1>4, <1>a, <1>b
     DEF ViewInv, OpenCount, OpenNonDaemons, Schedule, Resume
<1>5. ASSUME NEW t \in Threads, SendEnqueue(t) PROVE OpenCount'
  BY <1>5, <1>a, <1>b
     DEF ViewInv, OpenCount, OpenNonDaemons, SendEnqueue, Resume
<1>6. ASSUME NEW t \in Threads, SendRegister(t) PROVE OpenCount'
  BY <1>6, <1>a, <1>b
     DEF ViewInv, OpenCount, OpenNonDaemons, SendRegister, Resume
<1>7. ASSUME NEW t \in Threads, NEW c \in Conns, NEW m \in Msgs, SendCheck(t, c, m)
      PROVE  OpenCount'
  BY <1>7, <1>a, <1>b
     DEF ViewInv, OpenCount, OpenNonDaemons, SendCheck
<1>8. ASSUME NEW w \in Workers, NEW c \in Conns, UserOpen(w, c) PROVE OpenCount'
  BY <1>8, ConnsAssumption, OpenConnectorCounts DEF UserOpen
<1>9. ASSUME NEW w \in Workers, NEW c \in Conns, UserSeal(w, c) PROVE OpenCount'
  BY <1>9, UserSealCounts
<1>10. ASSUME NEW w \in Workers, TakeTask(w) PROVE OpenCount'
  BY <1>10, <1>a, <1>b
     DEF ViewInv, OpenCount, OpenNonDaemons, TakeTask
<1>11. ASSUME NEW w \in Workers, Enter(w) PROVE OpenCount'
  BY <1>11, <1>a, <1>b
     DEF ViewInv, OpenCount, OpenNonDaemons, Enter
<1>12. ASSUME NEW w \in Workers, CheckFresh(w) PROVE OpenCount'
  BY <1>12, <1>a, <1>b
     DEF ViewInv, OpenCount, OpenNonDaemons, CheckFresh, CallUser
<1>13. ASSUME NEW w \in Workers, Create(w) PROVE OpenCount'
  BY <1>13, <1>a, <1>b
     DEF ViewInv, OpenCount, OpenNonDaemons, Create, CallUser
<1>14. ASSUME NEW w \in Workers, CreateFails(w) PROVE OpenCount'
  BY <1>14, <1>a, <1>b
     DEF ViewInv, OpenCount, OpenNonDaemons, CreateFails
<1>15. ASSUME NEW w \in Workers, Unreact(w) PROVE OpenCount'
  <2>1. conn[target[w]] = "closing" /\ target[w] \in Conns
    BY <1>15, <1>a, <1>b DEF ViewInv, FrameInv, ClosingShape, TargetShape, Unreact
  <2>2. OpenNonDaemons' = OpenNonDaemons /\ nonDaemonCount' = nonDaemonCount
    BY <1>15, <1>a, <2>1 DEF Unreact, OpenNonDaemons
  <2> QED
    BY <2>2 DEF ViewInv, OpenCount
<1>16. ASSUME NEW w \in Workers, UserReturn(w) PROVE OpenCount'
  BY <1>16, <1>a, <1>b
     DEF ViewInv, OpenCount, OpenNonDaemons, UserReturn, ReturnTo
<1>17. ASSUME NEW w \in Workers, UserStarts(w) PROVE OpenCount'
  BY <1>17, <1>a, <1>b
     DEF ViewInv, OpenCount, OpenNonDaemons, UserStarts, CallUser
<1>18. ASSUME NEW w \in Workers, BatchStart(w) PROVE OpenCount'
  BY <1>18, <1>a, <1>b
     DEF ViewInv, OpenCount, OpenNonDaemons, BatchStart
<1>19. ASSUME NEW w \in Workers, UserThrow(w) PROVE OpenCount'
  BY <1>19, <1>a, <1>b
     DEF ViewInv, OpenCount, OpenNonDaemons, UserThrow, ThrowTo
<1>20. ASSUME NEW w \in Workers, PopFirst(w) PROVE OpenCount'
  BY <1>20, <1>a, <1>b
     DEF ViewInv, OpenCount, OpenNonDaemons, PopFirst, PopPending, GiveUp
<1>21. ASSUME NEW w \in Workers, PopNext(w) PROVE OpenCount'
  BY <1>21, <1>a, <1>b
     DEF ViewInv, OpenCount, OpenNonDaemons, PopNext, PopPending, GiveUp, Preempt,
         CallUser
<1>22. ASSUME NEW w \in Workers, PopSpin(w) PROVE OpenCount'
  BY <1>22, <1>a, <1>b
     DEF ViewInv, OpenCount, OpenNonDaemons, PopSpin, PopPending, GiveUp
<1>23. ASSUME NEW w \in Workers, PopSample(w) PROVE OpenCount'
  BY <1>23, <1>a, <1>b
     DEF ViewInv, OpenCount, OpenNonDaemons, PopSample, PopPending, Preempt, CallUser
<1>24. ASSUME NEW w \in Workers, Dequeue(w) PROVE OpenCount'
  BY <1>24, <1>a, <1>b
     DEF ViewInv, OpenCount, OpenNonDaemons, Dequeue, CallUser
<1>25. ASSUME NEW w \in Workers, DrainAgain(w) PROVE OpenCount'
  BY <1>25, <1>a, <1>b
     DEF ViewInv, OpenCount, OpenNonDaemons, DrainAgain
<1>26. ASSUME NEW w \in Workers, DrainNext(w) PROVE OpenCount'
  BY <1>26, <1>a, <1>b
     DEF ViewInv, OpenCount, OpenNonDaemons, DrainNext
<1>27. ASSUME NEW w \in Workers, DrainPreempted(w) PROVE OpenCount'
  BY <1>27, <1>a, <1>b
     DEF ViewInv, OpenCount, OpenNonDaemons, DrainPreempted, PreemptedAt, CallUser
<1>28. ASSUME NEW w \in Workers, CheckExit(w) PROVE OpenCount'
  BY <1>28, <1>a, <1>b
     DEF ViewInv, OpenCount, OpenNonDaemons, CheckExit, CheckTerminated, CallUser
<1>29. ASSUME NEW w \in Workers, Catch(w) PROVE OpenCount'
  BY <1>29, <1>a, <1>b
     DEF ViewInv, OpenCount, OpenNonDaemons, Catch, CallUser
<1>30. ASSUME NEW w \in Workers, CheckForced(w) PROVE OpenCount'
  BY <1>30, <1>a, <1>b
     DEF ViewInv, OpenCount, OpenNonDaemons, CheckForced, CheckTerminated, CallUser
<1>31. ASSUME NEW w \in Workers, Unregister(w) PROVE OpenCount'
  BY <1>31, <1>a, <1>b
     DEF ViewInv, OpenCount, OpenNonDaemons, Unregister
<1>32. ASSUME NEW w \in Workers, Release(w) PROVE OpenCount'
  BY <1>32, <1>a, <1>b
     DEF ViewInv, OpenCount, OpenNonDaemons, Release
<1>33. ASSUME NEW w \in Workers, Reschedule(w) PROVE OpenCount'
  BY <1>33, <1>a, <1>b
     DEF ViewInv, OpenCount, OpenNonDaemons, Reschedule
<1>34. CASE UNCHANGED vars
  BY <1>34, <1>a, <1>b
     DEF ViewInv, OpenCount, OpenNonDaemons
<1> QED
  BY NextCases, <1>1, <1>2, <1>3, <1>4, <1>5, <1>6, <1>7, <1>8, <1>9, <1>10, <1>11,
     <1>12, <1>13, <1>14, <1>15, <1>16, <1>17, <1>18, <1>19, <1>20, <1>21, <1>22, <1>23,
     <1>24, <1>25, <1>26, <1>27, <1>28, <1>29, <1>30, <1>31, <1>32, <1>33, <1>34

-----------------------------------------------------------------------------
(* The invariant *)

\* A new frame satisfies the invariant ...
LEMMA ViewInit ==
  ASSUME Init
  PROVE  ViewInv
<1>1. FrameInv /\ StrandInv
  BY InitInv, StrandInit
<1>2. /\ \A t \in Threads : pc[t] \in {"openMain", "idle"} /\ stage[t] = "none"
      /\ \A w \in Workers : failure[w] = "no"
      /\ \A c \in Conns : conn[c] = "absent"
      /\ tasks = 0 /\ life = "Fresh" /\ nonDaemonCount = 0
  BY ThreadsAssumption DEF Init, Threads
<1>3. LiveShape
  BY <1>2 DEF LiveShape, At, Threads
<1>4. FailureShape /\ ClosingShape
  BY <1>2 DEF FailureShape, ClosingShape, At, Threads
<1>5. OpenNonDaemons = {}
  BY <1>2 DEF OpenNonDaemons
<1> QED
  BY <1>1, <1>2, <1>3, <1>4, <1>5, FS_EmptySet DEF ViewInv, OpenCount

\* ... and every step keeps it.
LEMMA ViewStep ==
  ASSUME ViewInv, [Next]_vars
  PROVE  ViewInv'
<1>1. FrameInv'
  BY TypeStep, PcShapeStep, TargetShapeStep, HandShapeStep, OneTokenStep,
     IsolatedCountStep, PendingActiveStep, UnspawnedStep, ClaimsDisjointStep,
     ClaimsNonEmptyStep DEF ViewInv, FrameInv
<1>2. StrandInv'
  BY StrandStep DEF ViewInv
<1>3. LiveShape' /\ FailureShape'
  BY LiveShapeStep, FailureShapeStep
<1>4. ClosingShape' /\ OpenCount'
  BY ClosingShapeStep, OpenCountStep
<1> QED
  BY <1>1, <1>2, <1>3, <1>4 DEF ViewInv

\* ViewInv is an invariant of every frame.
THEOREM ViewInvariant == Spec => []ViewInv
<1>1. Init => ViewInv
  BY ViewInit
<1>2. ViewInv /\ [Next]_vars => ViewInv'
  BY ViewStep
<1> QED
  BY <1>1, <1>2, PTL DEF Spec

-----------------------------------------------------------------------------
(* The end of a reactor *)

\* Only checkTerminated ends a reactor: at the end of a batch that leaves no
\* connector pending or open but daemons, or after an exception.
LEMMA TerminatingStep ==
  ASSUME [Next]_vars, life = "Running", life' = "Terminated"
  PROVE  \E w \in Workers :
           \/ CheckExit(w) /\ pending = <<>> /\ nonDaemonCount = 0
           \/ CheckForced(w)
<1> USE DEF frameVars, connVars, sendVars, drainVars, vars
<1>1. ASSUME \/ SpawnOpenMain \/ SpawnOpenSys \/ SpawnActivate \/ UNCHANGED vars
             \/ \E t \in Threads : Schedule(t) \/ SendEnqueue(t) \/ SendRegister(t)
             \/ \E t \in Threads, c \in Conns, m \in Msgs : SendCheck(t, c, m)
             \/ \E w \in Workers, c \in Conns : UserOpen(w, c) \/ UserSeal(w, c)
      PROVE  FALSE
  BY <1>1 DEF SpawnOpenMain, SpawnOpenSys, SpawnActivate, Schedule, SendEnqueue,
     SendRegister, SendCheck, UserOpen, UserSeal
<1>2. ASSUME \E w \in Workers :
               \/ TakeTask(w) \/ Enter(w) \/ CheckFresh(w) \/ Create(w)
               \/ CreateFails(w)
               \/ Unreact(w) \/ UserReturn(w) \/ UserStarts(w) \/ BatchStart(w)
               \/ UserThrow(w)
      PROVE  FALSE
  BY <1>2 DEF TakeTask, Enter, CheckFresh, Create, CreateFails, Unreact, UserReturn,
     UserStarts, BatchStart, UserThrow
<1>3. ASSUME \E w \in Workers :
               \/ PopFirst(w) \/ PopNext(w) \/ PopSpin(w) \/ PopSample(w)
               \/ Dequeue(w) \/ DrainAgain(w) \/ DrainNext(w) \/ DrainPreempted(w)
      PROVE  FALSE
  BY <1>3 DEF PopFirst, PopNext, PopSpin, PopSample, PopPending, GiveUp, Preempt,
     Dequeue, DrainAgain, DrainNext, DrainPreempted, PreemptedAt
<1>4. ASSUME \E w \in Workers :
               Catch(w) \/ Unregister(w) \/ Release(w) \/ Reschedule(w)
      PROVE  FALSE
  BY <1>4 DEF Catch, Unregister, Release, Reschedule
<1>5. ASSUME NEW w \in Workers, CheckExit(w)
      PROVE  pending = <<>> /\ nonDaemonCount = 0
  BY <1>5 DEF CheckExit, CheckTerminated
<1> QED
  BY NextCases, <1>1, <1>2, <1>3, <1>4, <1>5

\* What OrderlyStop says of a step.
StopsInOrder ==
  (life = "Running" /\ life' = "Terminated" /\ \A w \in Workers : failure[w] = "no")
    => \A c \in Conns :
         conn[c] = "open" =>
           /\ c \in Daemon
           /\ queue[c] # <<>> => \E t \in Senders : At(t, "enqueued") /\ target[t] = c

\* While the worker at the end of a batch finds no connector pending, only a
\* thread outside the reactor can have claimed one.
LEMMA OnlySendersClaim ==
  ASSUME ViewInv, NEW w \in Workers, At(w, "checkExit"), pending = <<>>,
         NEW c \in Conns, Claimed(c)
  PROVE  \E t \in Senders : At(t, "enqueued") /\ target[t] = c
<1>1. /\ Workers \subseteq Threads /\ Len(pending) = 0 /\ ~At(w, "idle")
      /\ \A t \in Threads : t \in Workers \/ t \in Senders \/ t = Spawner
  BY DEF Threads, At
<1>2. ~Drains(w)
  BY DEF ViewInv, FrameInv, TypeOK, HandShape, PcShape, UserPcs, Drains, At
<1>3. \A v \in Workers \ {w} : At(v, "idle") /\ ~Drains(v)
  BY <1>1, SoleDrainer DEF ViewInv, FrameInv
<1>4. ~At(Spawner, "enqueued")
  BY DEF ViewInv, FrameInv, PcShape, SpawnerPcs, At
<1> QED
  BY <1>1, <1>2, <1>3, <1>4 DEF Claimed, At

\* A reactor that terminates without an exception has sealed its non-daemon
\* connectors and handled every registered event.
THEOREM OrderlyStopHolds == Spec => OrderlyStop
<1>1. ViewInv /\ [Next]_vars => StopsInOrder
  <2> SUFFICES ASSUME ViewInv, [Next]_vars, life = "Running", life' = "Terminated",
                      \A w \in Workers : failure[w] = "no",
                      NEW c \in Conns, conn[c] = "open"
               PROVE  /\ c \in Daemon
                      /\ queue[c] # <<>> =>
                           \E t \in Senders : At(t, "enqueued") /\ target[t] = c
    BY DEF StopsInOrder
  <2>1. PICK w \in Workers :
          \/ CheckExit(w) /\ pending = <<>> /\ nonDaemonCount = 0
          \/ CheckForced(w)
    BY TerminatingStep
  <2>2. ~At(w, "checkForced")
    BY DEF ViewInv, FailureShape
  <2>3. At(w, "checkExit") /\ pending = <<>> /\ nonDaemonCount = 0
    BY <2>1, <2>2 DEF CheckExit, CheckForced
  <2>4. OpenNonDaemons = {}
    BY <2>3, FS_EmptySet DEF ViewInv, OpenCount
  <2>5. c \in Daemon
    BY <2>4 DEF OpenNonDaemons
  <2>6. ASSUME queue[c] # <<>>
        PROVE  \E t \in Senders : At(t, "enqueued") /\ target[t] = c
    <3>1. Claimed(c)
      BY <2>6 DEF ViewInv, StrandInv, Stranded, Failing
    <3> QED
      BY <2>3, <3>1, OnlySendersClaim
  <2> QED
    BY <2>5, <2>6
<1>2. ViewInv /\ [Next]_vars => [StopsInOrder]_vars
  BY <1>1
<1> QED
  BY <1>2, ViewInvariant, PTL DEF Spec, OrderlyStop, StopsInOrder

-----------------------------------------------------------------------------
(* The view of a client: what the variables of ReactorContract stand for *)

CConn == [c \in Conns |-> IF conn[c] = "closing" THEN "sealed" ELSE conn[c]]

CMail == [c \in Conns |-> IF conn[c] = "open" /\ life # "Terminated"
                            THEN queue[c] ELSE <<>>]

CCurrent == IF Delivering = {} THEN Null
            ELSE LET w == CHOOSE w \in Delivering : TRUE
                 IN  <<hand[w], event[w]>>

CFailed == life # "Terminated" /\ \E w \in Workers : failure[w] # "no"

\* The steps of the abstract reactor, told by that view: it is new, ...
LEMMA ViewInitially ==
  ASSUME life = "Fresh", CConn = [c \in Conns |-> "absent"],
         CMail = [c \in Conns |-> <<>>], CCurrent = Null, CFailed = FALSE
  PROVE  Contract!CInit
BY Zenon DEF Contract!CInit, CConn, CMail, CCurrent, CFailed

\* ... it stutters, ...
LEMMA ViewKept ==
  ASSUME life' = life, CConn' = CConn, CMail' = CMail, CCurrent' = CCurrent,
         CFailed' = CFailed
  PROVE  UNCHANGED Contract!cvars
BY Zenon DEF Contract!cvars, CConn, CMail, CCurrent, CFailed

\* ... a channel is opened, ...
LEMMA ViewOpens ==
  ASSUME NEW c \in Conns, CConn[c] = "absent", CConn' = [CConn EXCEPT ![c] = "open"],
         life' = life, CMail' = CMail, CCurrent' = CCurrent, CFailed' = CFailed
  PROVE  Contract!CNext
<1>1. Contract!COpen(c)
  BY Zenon DEF Contract!COpen, CConn, CMail, CCurrent, CFailed
<1> QED
  BY <1>1 DEF Contract!CNext

\* ... a channel is sealed, ...
LEMMA ViewSeals ==
  ASSUME NEW c \in Conns, CConn[c] = "open", CConn' = [CConn EXCEPT ![c] = "sealed"],
         CMail' = [CMail EXCEPT ![c] = <<>>],
         life' = life, CCurrent' = CCurrent, CFailed' = CFailed
  PROVE  Contract!CNext
<1>1. Contract!CSeal(c)
  BY Zenon DEF Contract!CSeal, CConn, CMail, CCurrent, CFailed
<1> QED
  BY <1>1 DEF Contract!CNext

\* ... an event is accepted, ...
LEMMA ViewSends ==
  ASSUME NEW c \in Conns, NEW m \in Msgs, life # "Terminated", CConn[c] = "open",
         CMail' = [CMail EXCEPT ![c] = Append(@, m)],
         life' = life, CConn' = CConn, CCurrent' = CCurrent, CFailed' = CFailed
  PROVE  Contract!CNext
<1>1. Contract!CSend(c, m)
  BY Zenon DEF Contract!CSend, CConn, CMail, CCurrent, CFailed
<1> QED
  BY <1>1 DEF Contract!CNext

\* ... it starts, ...
LEMMA ViewStarts ==
  ASSUME life = "Fresh", life' = "Running",
         CConn' = CConn, CMail' = CMail, CCurrent' = CCurrent, CFailed' = CFailed
  PROVE  Contract!CNext
<1>1. Contract!CStart
  BY Zenon DEF Contract!CStart, CConn, CMail, CCurrent, CFailed
<1> QED
  BY <1>1 DEF Contract!CNext

\* ... an event is handed to its handler, ...
LEMMA ViewDelivers ==
  ASSUME NEW c \in Conns, life = "Running", ~CFailed, CCurrent = Null, CConn[c] = "open",
         CMail[c] # <<>>, CCurrent' = <<c, Head(CMail[c])>>,
         CMail' = [CMail EXCEPT ![c] = Tail(@)],
         life' = life, CConn' = CConn, CFailed' = CFailed
  PROVE  Contract!CNext
<1>1. Contract!CDeliver(c)
  BY Zenon DEF Contract!CDeliver, CConn, CMail, CCurrent, CFailed
<1> QED
  BY <1>1 DEF Contract!CNext

\* ... the handler returns, ...
LEMMA ViewReturns ==
  ASSUME CCurrent # Null, CCurrent' = Null,
         life' = life, CConn' = CConn, CMail' = CMail, CFailed' = CFailed
  PROVE  Contract!CNext
<1>1. Contract!CReturn
  BY Zenon DEF Contract!CReturn, CConn, CMail, CCurrent, CFailed
<1> QED
  BY <1>1 DEF Contract!CNext

\* ... user code throws, ...
LEMMA ViewFails ==
  ASSUME life = "Running", CFailed' = TRUE, CCurrent' = Null,
         life' = life, CConn' = CConn, CMail' = CMail
  PROVE  Contract!CNext
<1>1. Contract!CFail
  BY Zenon DEF Contract!CFail, CConn, CMail, CCurrent, CFailed
<1> QED
  BY <1>1 DEF Contract!CNext

\* ... it terminates.
LEMMA ViewTerminates ==
  ASSUME life = "Running", CCurrent = Null,
         CFailed \/ \A c \in Conns \ Daemon : CConn[c] # "open",
         life' = "Terminated", CMail' = [c \in Conns |-> <<>>], CFailed' = FALSE,
         CConn' = CConn, CCurrent' = CCurrent
  PROVE  Contract!CNext
<1>1. Contract!CTerminate
  BY Zenon DEF Contract!CTerminate, CConn, CMail, CCurrent, CFailed
<1> QED
  BY <1>1 DEF Contract!CNext

-----------------------------------------------------------------------------
(* How the view changes *)

\* The event a client sees being handled stays as long as the same workers
\* handle the same events.
LEMMA SameCurrent ==
  ASSUME \A v \in Workers : stage'[v] = "deliver" <=> stage[v] = "deliver",
         \A v \in Workers : stage[v] = "deliver" =>
           hand'[v] = hand[v] /\ event'[v] = event[v]
  PROVE  CCurrent' = CCurrent
<1>1. Delivering' = Delivering
  BY DEF Delivering
<1>2. CASE Delivering = {}
  BY <1>1, <1>2 DEF CCurrent
<1>3. CASE Delivering # {}
  <2> DEFINE w == CHOOSE w \in Delivering : TRUE
  <2>1. w \in Delivering
    BY <1>3
  <2>2. hand'[w] = hand[w] /\ event'[w] = event[w]
    BY <2>1 DEF Delivering
  <2>3. CCurrent = <<hand[w], event[w]>>
    BY <1>3, Zenon DEF CCurrent
  <2>4. CCurrent' = <<hand'[w], event'[w]>>
    BY <1>1, <1>3, Zenon DEF CCurrent
  <2> QED
    BY <2>2, <2>3, <2>4
<1> QED
  BY <1>2, <1>3

\* When no worker handles an event, a client sees none.
LEMMA NoCurrent ==
  ASSUME \A v \in Workers : stage[v] # "deliver"
  PROVE  CCurrent = Null
BY DEF CCurrent, Delivering

\* The same after a step.
LEMMA NoCurrentNext ==
  ASSUME \A v \in Workers : stage'[v] # "deliver"
  PROVE  CCurrent' = Null
BY DEF CCurrent, Delivering

\* When one worker handles an event, a client sees that one.
LEMMA NewCurrent ==
  ASSUME NEW w \in Workers, stage'[w] = "deliver",
         \A v \in Workers \ {w} : stage'[v] # "deliver"
  PROVE  CCurrent' = <<hand'[w], event'[w]>>
<1>1. Delivering' = {w}
  BY DEF Delivering
<1>2. (CHOOSE v \in {w} : TRUE) = w
  OBVIOUS
<1> QED
  BY <1>1, <1>2, Zenon DEF CCurrent

\* Connectors, mailboxes and failures are seen as functions of conn, queue,
\* life and failure.
LEMMA SameRest ==
  ASSUME UNCHANGED <<life, conn, queue, failure>>
  PROVE  CConn' = CConn /\ CMail' = CMail /\ CFailed' = CFailed
BY DEF CConn, CMail, CFailed

\* A step of the worker that executes the frame, from and to code that handles
\* no event, is not seen.
LEMMA Unseen ==
  ASSUME UNCHANGED <<life, conn, queue, failure>>,
         NEW w \in Workers, stage[w] # "deliver", stage'[w] # "deliver",
         \A v \in Workers \ {w} :
           stage'[v] = stage[v] /\ hand'[v] = hand[v] /\ event'[v] = event[v]
  PROVE  UNCHANGED Contract!cvars
<1>1. CConn' = CConn /\ CMail' = CMail /\ CFailed' = CFailed
  BY SameRest
<1>2. CCurrent' = CCurrent
  BY SameCurrent
<1> QED
  BY <1>1, <1>2, ViewKept

-----------------------------------------------------------------------------
(* Steps that a client does not see *)

\* Nothing that the view depends on changes.
LEMMA Untouched ==
  ASSUME UNCHANGED <<life, conn, queue, failure, stage, hand, event>>
  PROVE  UNCHANGED Contract!cvars
<1>1. CConn' = CConn /\ CMail' = CMail /\ CFailed' = CFailed
  BY SameRest
<1>2. CCurrent' = CCurrent
  BY SameCurrent
<1> QED
  BY <1>1, <1>2, ViewKept

\* Callbacks of the reactor's life cycle begin and end.
LEMMA LifecycleUnseen ==
  ASSUME ViewInv, NEW w \in Workers, Create(w) \/ UserStarts(w) \/ BatchStart(w)
  PROVE  UNCHANGED Contract!cvars
<1>a. /\ pc \in [Threads -> Pcs] /\ stage \in [Threads -> Stages] /\ Workers \subseteq Threads
      /\ hand \in [Workers -> Conns \cup {Null}] /\ event \in [Workers -> Msgs \cup {Null}]
      /\ failure \in [Workers -> {"no", "thrown", "caught"}]
      /\ conn \in [Conns -> {"absent", "open", "closing", "sealed"}]
      /\ queue \in [Conns -> Seq(Msgs)] /\ target \in [Threads -> Conns \cup {Null}]
      /\ life \in {"Fresh", "Running", "Terminated"}
  BY DEF ViewInv, FrameInv, TypeOK, Threads
<1>1. stage[w] # "deliver"
  BY <1>a DEF Create, UserStarts, BatchStart, ViewInv, FrameInv, PcShape, UserPcs, At
<1>2. UNCHANGED <<life, conn, queue, failure, hand, event>>
  BY DEF Create, UserStarts, BatchStart, frameVars, connVars, drainVars
<1>3. stage'[w] # "deliver" /\ \A v \in Workers \ {w} : stage'[v] = stage[v]
  BY <1>a DEF Create, UserStarts, BatchStart, CallUser
<1> QED
  BY <1>1, <1>2, <1>3, Unseen

\* pendingQueues is polled and the batch goes on or is preempted.
LEMMA PollUnseen ==
  ASSUME ViewInv, NEW w \in Workers,
         PopFirst(w) \/ PopNext(w) \/ PopSpin(w) \/ PopSample(w)
  PROVE  UNCHANGED Contract!cvars
<1>a. /\ pc \in [Threads -> Pcs] /\ stage \in [Threads -> Stages] /\ Workers \subseteq Threads
      /\ hand \in [Workers -> Conns \cup {Null}] /\ event \in [Workers -> Msgs \cup {Null}]
      /\ failure \in [Workers -> {"no", "thrown", "caught"}]
      /\ conn \in [Conns -> {"absent", "open", "closing", "sealed"}]
      /\ queue \in [Conns -> Seq(Msgs)] /\ target \in [Threads -> Conns \cup {Null}]
      /\ life \in {"Fresh", "Running", "Terminated"}
  BY DEF ViewInv, FrameInv, TypeOK, Threads
<1>1. stage[w] = "none"
  BY <1>a DEF PopFirst, PopNext, PopSpin, PopSample, ViewInv, FrameInv, PcShape,
     UserPcs, At
<1>2. PopPending(w) \/ Preempt(w) \/ \E l \in {"sample", "spin"} : GiveUp(w, l)
  BY DEF PopFirst, PopNext, PopSpin, PopSample
<1>3. UNCHANGED <<life, conn, queue, failure, event>>
  BY <1>2 DEF PopPending, Preempt, GiveUp, frameVars, connVars, drainVars
<1>4. /\ stage'[w] # "deliver"
      /\ \A v \in Workers \ {w} : stage'[v] = stage[v] /\ hand'[v] = hand[v]
  <2>1. CASE PopPending(w)
    BY <1>1, <1>a, <2>1 DEF PopPending
  <2>2. CASE Preempt(w)
    BY <1>1, <1>a, <2>2 DEF Preempt, CallUser
  <2>3. CASE \E l \in {"sample", "spin"} : GiveUp(w, l)
    BY <1>1, <1>a, <2>3 DEF GiveUp, drainVars
  <2> QED
    BY <1>2, <2>1, <2>2, <2>3
<1> QED
  BY <1>1, <1>3, <1>4, Unseen

\* The batch goes on with the same connector, with the next, or is preempted.
LEMMA DrainUnseen ==
  ASSUME ViewInv, NEW w \in Workers, DrainAgain(w) \/ DrainNext(w) \/ DrainPreempted(w)
  PROVE  UNCHANGED Contract!cvars
<1>a. /\ pc \in [Threads -> Pcs] /\ stage \in [Threads -> Stages] /\ Workers \subseteq Threads
      /\ hand \in [Workers -> Conns \cup {Null}] /\ event \in [Workers -> Msgs \cup {Null}]
      /\ failure \in [Workers -> {"no", "thrown", "caught"}]
      /\ conn \in [Conns -> {"absent", "open", "closing", "sealed"}]
      /\ queue \in [Conns -> Seq(Msgs)] /\ target \in [Threads -> Conns \cup {Null}]
      /\ life \in {"Fresh", "Running", "Terminated"}
  BY DEF ViewInv, FrameInv, TypeOK, Threads
<1>1. stage[w] = "none"
  BY <1>a DEF DrainAgain, DrainNext, DrainPreempted, PreemptedAt, ViewInv, FrameInv,
     PcShape, UserPcs, At
<1>2. UNCHANGED <<life, conn, queue, failure, event>>
  BY DEF DrainAgain, DrainNext, DrainPreempted, PreemptedAt, connVars
<1>3. \A v \in Workers \ {w} : hand'[v] = hand[v]
  BY <1>a DEF DrainAgain, DrainNext, DrainPreempted, PreemptedAt
<1>4. stage' = stage \/ stage' = [stage EXCEPT ![w] = "preempted"]
  BY DEF DrainAgain, DrainNext, DrainPreempted, PreemptedAt, CallUser
<1>5. stage'[w] # "deliver" /\ \A v \in Workers \ {w} : stage'[v] = stage[v]
  BY <1>1, <1>4, <1>a
<1> QED
  BY <1>1, <1>2, <1>3, <1>5, Unseen

\* The queue of a channel that is already closed stops emitting.
LEMMA UnreactUnseen ==
  ASSUME ViewInv, NEW w \in Workers, Unreact(w)
  PROVE  UNCHANGED Contract!cvars
<1>a. /\ pc \in [Threads -> Pcs] /\ stage \in [Threads -> Stages] /\ Workers \subseteq Threads
      /\ hand \in [Workers -> Conns \cup {Null}] /\ event \in [Workers -> Msgs \cup {Null}]
      /\ failure \in [Workers -> {"no", "thrown", "caught"}]
      /\ conn \in [Conns -> {"absent", "open", "closing", "sealed"}]
      /\ queue \in [Conns -> Seq(Msgs)] /\ target \in [Threads -> Conns \cup {Null}]
      /\ life \in {"Fresh", "Running", "Terminated"}
  BY DEF ViewInv, FrameInv, TypeOK, Threads
<1>1. conn[target[w]] = "closing"
  BY DEF ViewInv, ClosingShape, Unreact
<1>2. CConn' = CConn /\ CMail' = CMail /\ CFailed' = CFailed
  <2>1. \A c \in Conns : /\ (conn'[c] = "open" <=> conn[c] = "open")
                         /\ (IF conn'[c] = "closing" THEN "sealed" ELSE conn'[c])
                              = (IF conn[c] = "closing" THEN "sealed" ELSE conn[c])
    BY <1>1, <1>a DEF Unreact
  <2>2. life' = life /\ queue' = queue /\ failure' = failure
    BY DEF Unreact, frameVars
  <2>3. CConn' = CConn
    BY <2>1 DEF CConn
  <2>4. CMail' = CMail
    BY <2>1, <2>2 DEF CMail
  <2> QED
    BY <2>2, <2>3, <2>4 DEF CFailed
<1>3. CCurrent' = CCurrent
  BY SameCurrent DEF Unreact, drainVars
<1> QED
  BY <1>2, <1>3, ViewKept DEF Unreact, frameVars

\* A failure is caught, and ReactorDied is emitted; to a client the reactor
\* has failed before and after.
LEMMA CatchUnseen ==
  ASSUME ViewInv, NEW w \in Workers, Catch(w)
  PROVE  UNCHANGED Contract!cvars
<1>a. /\ pc \in [Threads -> Pcs] /\ stage \in [Threads -> Stages] /\ Workers \subseteq Threads
      /\ hand \in [Workers -> Conns \cup {Null}] /\ event \in [Workers -> Msgs \cup {Null}]
      /\ failure \in [Workers -> {"no", "thrown", "caught"}]
      /\ conn \in [Conns -> {"absent", "open", "closing", "sealed"}]
      /\ queue \in [Conns -> Seq(Msgs)] /\ target \in [Threads -> Conns \cup {Null}]
      /\ life \in {"Fresh", "Running", "Terminated"}
  BY DEF ViewInv, FrameInv, TypeOK, Threads
<1>1. failure[w] = "thrown" /\ stage[w] = "none"
  BY <1>a DEF ViewInv, FailureShape, FrameInv, PcShape, UserPcs, Catch, At
<1>2. /\ UNCHANGED <<life, conn, queue, hand, event>>
      /\ failure' = [failure EXCEPT ![w] = "caught"]
      /\ stage' = stage \/ stage' = [stage EXCEPT ![w] = "died"]
  BY DEF Catch, CallUser, frameVars, connVars, drainVars
<1>3. CFailed' = CFailed
  BY <1>1, <1>2, <1>a DEF CFailed
<1>4. CConn' = CConn /\ CMail' = CMail
  BY <1>2 DEF CConn, CMail
<1>5. CCurrent' = CCurrent
  BY <1>1, <1>2, <1>a, SameCurrent
<1> QED
  BY <1>2, <1>3, <1>4, <1>5, ViewKept

\* The worker gives the frame up, or keeps it for another batch; it forgets a
\* failure only when the reactor has terminated.
LEMMA RescheduleUnseen ==
  ASSUME ViewInv, NEW w \in Workers, Reschedule(w)
  PROVE  UNCHANGED Contract!cvars
<1>a. /\ pc \in [Threads -> Pcs] /\ stage \in [Threads -> Stages] /\ Workers \subseteq Threads
      /\ hand \in [Workers -> Conns \cup {Null}] /\ event \in [Workers -> Msgs \cup {Null}]
      /\ failure \in [Workers -> {"no", "thrown", "caught"}]
      /\ conn \in [Conns -> {"absent", "open", "closing", "sealed"}]
      /\ queue \in [Conns -> Seq(Msgs)] /\ target \in [Threads -> Conns \cup {Null}]
      /\ life \in {"Fresh", "Running", "Terminated"}
  BY DEF ViewInv, FrameInv, TypeOK, Threads
<1>1. failure[w] # "no" => life = "Terminated"
  BY DEF ViewInv, StrandInv, LifeShape, Reschedule, At
<1>2. /\ UNCHANGED <<life, conn, queue, stage, hand, event>>
      /\ failure' = [failure EXCEPT ![w] = "no"]
  BY DEF Reschedule, connVars, drainVars
<1>3. CFailed' = CFailed
  BY <1>1, <1>2, <1>a DEF CFailed
<1>4. CConn' = CConn /\ CMail' = CMail
  BY <1>2 DEF CConn, CMail
<1>5. CCurrent' = CCurrent
  BY <1>2, SameCurrent
<1> QED
  BY <1>2, <1>3, <1>4, <1>5, ViewKept

-----------------------------------------------------------------------------
(* Steps that a client sees *)

\* A channel is opened; nothing is in its queue yet.
LEMMA OpenSeen ==
  ASSUME ViewInv, NEW c \in Conns, OpenConnector(c),
         UNCHANGED <<life, queue, failure, stage, hand, event>>
  PROVE  Contract!CNext
<1>a. /\ pc \in [Threads -> Pcs] /\ stage \in [Threads -> Stages] /\ Workers \subseteq Threads
      /\ hand \in [Workers -> Conns \cup {Null}] /\ event \in [Workers -> Msgs \cup {Null}]
      /\ failure \in [Workers -> {"no", "thrown", "caught"}]
      /\ conn \in [Conns -> {"absent", "open", "closing", "sealed"}]
      /\ queue \in [Conns -> Seq(Msgs)] /\ target \in [Threads -> Conns \cup {Null}]
      /\ life \in {"Fresh", "Running", "Terminated"}
  BY DEF ViewInv, FrameInv, TypeOK, Threads
<1>1. conn[c] = "absent" /\ queue[c] = <<>> /\ conn' = [conn EXCEPT ![c] = "open"]
  BY DEF ViewInv, StrandInv, AbsentEmpty, OpenConnector
<1>2. CConn[c] = "absent"
  BY <1>1 DEF CConn
<1>3. CConn' = [CConn EXCEPT ![c] = "open"]
  BY <1>1, <1>a DEF CConn
<1>4. CMail' = CMail
  BY <1>1, <1>a DEF CMail
<1>5. CFailed' = CFailed
  BY DEF CFailed
<1>6. CCurrent' = CCurrent
  BY SameCurrent
<1> QED
  BY <1>2, <1>3, <1>4, <1>5, <1>6, ViewOpens

\* A channel is closed, and what it has not handled is lost.
LEMMA SealSeen ==
  ASSUME ViewInv, NEW w \in Workers, NEW c \in Conns, UserSeal(w, c)
  PROVE  Contract!CNext
<1>a. /\ pc \in [Threads -> Pcs] /\ stage \in [Threads -> Stages] /\ Workers \subseteq Threads
      /\ hand \in [Workers -> Conns \cup {Null}] /\ event \in [Workers -> Msgs \cup {Null}]
      /\ failure \in [Workers -> {"no", "thrown", "caught"}]
      /\ conn \in [Conns -> {"absent", "open", "closing", "sealed"}]
      /\ queue \in [Conns -> Seq(Msgs)] /\ target \in [Threads -> Conns \cup {Null}]
      /\ life \in {"Fresh", "Running", "Terminated"}
  BY DEF ViewInv, FrameInv, TypeOK, Threads
<1>1. /\ conn[c] = "open" /\ conn' = [conn EXCEPT ![c] = "closing"]
      /\ UNCHANGED <<life, queue, failure, stage, hand, event>>
  BY DEF UserSeal, drainVars
<1>2. CConn[c] = "open"
  BY <1>1 DEF CConn
<1>3. CConn' = [CConn EXCEPT ![c] = "sealed"]
  BY <1>1, <1>a DEF CConn
<1>4. CMail' = [CMail EXCEPT ![c] = <<>>]
  BY <1>1, <1>a DEF CMail
<1>5. CFailed' = CFailed
  BY <1>1 DEF CFailed
<1>6. CCurrent' = CCurrent
  BY <1>1, SameCurrent
<1> QED
  BY <1>1, <1>2, <1>3, <1>4, <1>5, <1>6, ViewSeals

\* An event reaches the queue of an open channel of a reactor that has not
\* terminated, or is lost.
LEMMA SendSeen ==
  ASSUME ViewInv, NEW t \in Threads, SendEnqueue(t)
  PROVE  Contract!CNext \/ UNCHANGED Contract!cvars
<1> DEFINE c == target[t]
           m == arg[t]
<1>a. /\ pc \in [Threads -> Pcs] /\ stage \in [Threads -> Stages] /\ Workers \subseteq Threads
      /\ hand \in [Workers -> Conns \cup {Null}] /\ event \in [Workers -> Msgs \cup {Null}]
      /\ failure \in [Workers -> {"no", "thrown", "caught"}]
      /\ conn \in [Conns -> {"absent", "open", "closing", "sealed"}]
      /\ queue \in [Conns -> Seq(Msgs)] /\ target \in [Threads -> Conns \cup {Null}]
      /\ life \in {"Fresh", "Running", "Terminated"}
  BY DEF ViewInv, FrameInv, TypeOK, Threads
<1>1. c \in Conns /\ m \in Msgs
  BY DEF ViewInv, FrameInv, TargetShape, SendEnqueue, At
<1>2. /\ queue' = [queue EXCEPT ![c] = Append(@, m)]
      /\ UNCHANGED <<life, conn, failure, stage, hand, event>>
  BY DEF SendEnqueue, frameVars, drainVars
<1>3. CConn' = CConn /\ CFailed' = CFailed
  BY <1>2 DEF CConn, CFailed
<1>4. CCurrent' = CCurrent
  BY <1>2, SameCurrent
<1>5. CASE conn[c] = "open" /\ life # "Terminated"
  <2>1. CConn[c] = "open"
    BY <1>1, <1>5 DEF CConn
  <2>2. CMail' = [CMail EXCEPT ![c] = Append(@, m)]
    BY <1>1, <1>2, <1>5, <1>a DEF CMail
  <2> QED
    BY <1>1, <1>2, <1>3, <1>4, <1>5, <2>1, <2>2, ViewSends
<1>6. CASE ~(conn[c] = "open" /\ life # "Terminated")
  <2>1. CMail' = CMail
    BY <1>1, <1>2, <1>6, <1>a DEF CMail
  <2> QED
    BY <1>2, <1>3, <1>4, <2>1, ViewKept
<1> QED
  BY <1>5, <1>6

\* The first batch starts the reactor.
LEMMA StartSeen ==
  ASSUME ViewInv, NEW w \in Workers, CheckFresh(w)
  PROVE  Contract!CNext \/ UNCHANGED Contract!cvars
<1>a. /\ pc \in [Threads -> Pcs] /\ stage \in [Threads -> Stages] /\ Workers \subseteq Threads
      /\ hand \in [Workers -> Conns \cup {Null}] /\ event \in [Workers -> Msgs \cup {Null}]
      /\ failure \in [Workers -> {"no", "thrown", "caught"}]
      /\ conn \in [Conns -> {"absent", "open", "closing", "sealed"}]
      /\ queue \in [Conns -> Seq(Msgs)] /\ target \in [Threads -> Conns \cup {Null}]
      /\ life \in {"Fresh", "Running", "Terminated"}
  BY DEF ViewInv, FrameInv, TypeOK, Threads
<1>b. stage[w] = "none"
  BY <1>a DEF CheckFresh, ViewInv, FrameInv, PcShape, UserPcs, At
<1>1. UNCHANGED <<conn, queue, failure, hand, event>>
  BY DEF CheckFresh, connVars, drainVars
<1>2. CASE life = "Fresh"
  <2>1. life' = "Running" /\ stage' = stage
    BY <1>2 DEF CheckFresh
  <2>2. CConn' = CConn /\ CMail' = CMail /\ CFailed' = CFailed
    BY <1>1, <1>2, <2>1 DEF CConn, CMail, CFailed
  <2>3. CCurrent' = CCurrent
    BY <1>1, <2>1, SameCurrent
  <2> QED
    BY <1>2, <2>1, <2>2, <2>3, ViewStarts
<1>3. CASE life # "Fresh"
  <2>1. life' = life /\ stage' = [stage EXCEPT ![w] = "scheduled"]
    BY <1>3 DEF CheckFresh, CallUser
  <2>2. stage'[w] # "deliver" /\ \A v \in Workers \ {w} : stage'[v] = stage[v]
    BY <1>a, <2>1
  <2> QED
    BY <1>1, <1>b, <2>1, <2>2, Unseen
<1> QED
  BY <1>2, <1>3

\* An event is taken from the queue, and handled if its channel is open; only
\* the worker that seals a channel meets it between closed and sealed.
LEMMA DeliverSeen ==
  ASSUME ViewInv, NEW w \in Workers, Dequeue(w)
  PROVE  Contract!CNext \/ UNCHANGED Contract!cvars
<1> DEFINE c == hand[w]
<1>a. /\ pc \in [Threads -> Pcs] /\ stage \in [Threads -> Stages] /\ Workers \subseteq Threads
      /\ hand \in [Workers -> Conns \cup {Null}] /\ event \in [Workers -> Msgs \cup {Null}]
      /\ failure \in [Workers -> {"no", "thrown", "caught"}]
      /\ conn \in [Conns -> {"absent", "open", "closing", "sealed"}]
      /\ queue \in [Conns -> Seq(Msgs)] /\ target \in [Threads -> Conns \cup {Null}]
      /\ life \in {"Fresh", "Running", "Terminated"}
  BY DEF ViewInv, FrameInv, TypeOK, Threads
<1>b. stage[w] = "none"
  BY <1>a DEF Dequeue, ViewInv, FrameInv, PcShape, UserPcs, At
<1>1. /\ At(w, "dequeue") /\ UNCHANGED <<life, conn, failure, hand>>
      /\ queue' = [queue EXCEPT ![c] = Tail(@)]
  BY DEF Dequeue, frameVars
<1>2. c \in Conns /\ queue[c] # <<>>
  BY <1>1 DEF ViewInv, FrameInv, HandShape, ClaimsNonEmpty, Drains, At
<1>3. \A v \in Workers \ {w} : pc[v] = "idle" /\ stage[v] = "none" /\ failure[v] = "no"
  BY <1>1, SoleWorker DEF ViewInv, At
<1>4. CConn' = CConn /\ CFailed' = CFailed
  BY <1>1 DEF CConn, CFailed
<1>5. CASE conn[c] = "sealed"
  <2>1. stage' = stage /\ event' = event
    BY <1>5 DEF Dequeue
  <2>2. CMail' = CMail
    BY <1>1, <1>2, <1>5, <1>a DEF CMail
  <2>3. CCurrent' = CCurrent
    BY <1>1, <2>1, SameCurrent
  <2> QED
    BY <1>1, <1>4, <2>2, <2>3, ViewKept
<1>6. CASE conn[c] # "sealed"
  <2>1. conn[c] = "open"
    <3>1. conn[c] # "absent"
      BY <1>2 DEF ViewInv, StrandInv, AbsentEmpty
    <3>2. conn[c] # "closing"
      BY <1>1, <1>2, <1>3 DEF ViewInv, ClosingShape, At
    <3> QED
      BY <1>2, <1>6, <1>a, <3>1, <3>2
  <2>2. life = "Running"
    BY <1>1, <1>a DEF ViewInv, LiveShape, StrandInv, LifeShape, At
  <2>3. ~CFailed
    <3>1. failure[w] = "no"
      BY <1>1, <1>a, <1>b DEF ViewInv, FailureShape, At
    <3> QED
      BY <1>3, <3>1 DEF CFailed
  <2>4. CCurrent = Null
    BY <1>3, <1>b, NoCurrent
  <2>5. CConn[c] = "open" /\ CMail[c] = queue[c]
    BY <1>2, <2>1, <2>2 DEF CConn, CMail
  <2>6. CMail' = [CMail EXCEPT ![c] = Tail(@)]
    BY <1>1, <1>2, <1>a, <2>1, <2>2 DEF CMail
  <2>7. /\ stage' = [stage EXCEPT ![w] = "deliver"]
        /\ event' = [event EXCEPT ![w] = Head(queue[c])]
    BY <1>6 DEF Dequeue, CallUser
  <2>8. CCurrent' = <<c, Head(queue[c])>>
    <3>1. stage'[w] = "deliver" /\ \A v \in Workers \ {w} : stage'[v] # "deliver"
      BY <1>3, <1>a, <2>7
    <3>2. hand'[w] = c /\ event'[w] = Head(queue[c])
      BY <1>1, <1>a, <2>7
    <3> QED
      BY <3>1, <3>2, NewCurrent
  <2> QED
    BY <1>1, <1>2, <1>4, <2>2, <2>3, <2>4, <2>5, <2>6, <2>8, ViewDelivers
<1> QED
  BY <1>5, <1>6

\* An event handler, or another callback, returns.
LEMMA ReturnSeen ==
  ASSUME ViewInv, NEW w \in Workers, UserReturn(w)
  PROVE  Contract!CNext \/ UNCHANGED Contract!cvars
<1>a. /\ pc \in [Threads -> Pcs] /\ stage \in [Threads -> Stages] /\ Workers \subseteq Threads
      /\ hand \in [Workers -> Conns \cup {Null}] /\ event \in [Workers -> Msgs \cup {Null}]
      /\ failure \in [Workers -> {"no", "thrown", "caught"}]
      /\ conn \in [Conns -> {"absent", "open", "closing", "sealed"}]
      /\ queue \in [Conns -> Seq(Msgs)] /\ target \in [Threads -> Conns \cup {Null}]
      /\ life \in {"Fresh", "Running", "Terminated"}
  BY DEF ViewInv, FrameInv, TypeOK, Threads
<1>1. /\ At(w, "user") /\ UNCHANGED <<life, conn, queue, failure, hand>>
      /\ stage' = [stage EXCEPT ![w] = "none"]
      /\ event' = [event EXCEPT ![w] = Null]
  BY DEF UserReturn, frameVars, connVars
<1>2. \A v \in Workers : stage'[v] # "deliver"
  BY <1>1, <1>a, SoleWorker DEF ViewInv, At
<1>3. CCurrent' = Null
  BY <1>2, NoCurrentNext
<1>4. CConn' = CConn /\ CMail' = CMail /\ CFailed' = CFailed
  BY <1>1, SameRest
<1>5. CASE CCurrent # Null
  BY <1>1, <1>3, <1>4, <1>5, ViewReturns
<1>6. CASE CCurrent = Null
  BY <1>1, <1>3, <1>4, <1>6, ViewKept
<1> QED
  BY <1>5, <1>6

\* User code throws; after the end of the reactor nobody sees it.
LEMMA FailSeen ==
  ASSUME ViewInv, NEW w \in Workers, CreateFails(w) \/ UserThrow(w)
  PROVE  Contract!CNext \/ UNCHANGED Contract!cvars
<1>a. /\ pc \in [Threads -> Pcs] /\ stage \in [Threads -> Stages] /\ Workers \subseteq Threads
      /\ hand \in [Workers -> Conns \cup {Null}] /\ event \in [Workers -> Msgs \cup {Null}]
      /\ failure \in [Workers -> {"no", "thrown", "caught"}]
      /\ conn \in [Conns -> {"absent", "open", "closing", "sealed"}]
      /\ queue \in [Conns -> Seq(Msgs)] /\ target \in [Threads -> Conns \cup {Null}]
      /\ life \in {"Fresh", "Running", "Terminated"}
  BY DEF ViewInv, FrameInv, TypeOK, Threads
<1>1. /\ At(w, "create") \/ At(w, "user")
      /\ UNCHANGED <<life, conn, queue>>
      /\ failure'[w] # "no"
      /\ \/ At(w, "create") /\ stage' = stage
         \/ stage' = [stage EXCEPT ![w] = "none"]
  BY <1>a DEF CreateFails, UserThrow, frameVars, connVars
<1>2. life # "Fresh"
  BY <1>1 DEF ViewInv, StrandInv, LifeShape, At
<1>3. /\ \A v \in Workers \ {w} : stage[v] = "none"
      /\ At(w, "create") => stage[w] = "none"
  BY <1>1, <1>a, SoleWorker DEF ViewInv, FrameInv, PcShape, UserPcs, At
<1>4. \A v \in Workers : stage'[v] # "deliver"
  BY <1>1, <1>3, <1>a
<1>5. CCurrent' = Null
  BY <1>4, NoCurrentNext
<1>6. CConn' = CConn /\ CMail' = CMail
  BY <1>1 DEF CConn, CMail
<1>7. CASE life = "Running"
  <2>1. CFailed' = TRUE
    BY <1>1, <1>7 DEF CFailed
  <2> QED
    BY <1>1, <1>5, <1>6, <1>7, <2>1, ViewFails
<1>8. CASE life = "Terminated"
  <2>1. CFailed' = CFailed
    BY <1>1, <1>8 DEF CFailed
  <2>2. \A v \in Workers : stage[v] # "deliver"
    BY <1>1, <1>3, <1>8, <1>a DEF ViewInv, LiveShape
  <2>3. CCurrent = Null
    BY <2>2, NoCurrent
  <2> QED
    BY <1>1, <1>5, <1>6, <2>1, <2>3, ViewKept
<1> QED
  BY <1>2, <1>7, <1>8, <1>a

\* The reactor terminates: with its last non-daemon channel, or having failed.
LEMMA TerminateSeen ==
  ASSUME ViewInv, NEW w \in Workers, CheckExit(w) \/ CheckForced(w)
  PROVE  Contract!CNext \/ UNCHANGED Contract!cvars
<1>a. /\ pc \in [Threads -> Pcs] /\ stage \in [Threads -> Stages] /\ Workers \subseteq Threads
      /\ hand \in [Workers -> Conns \cup {Null}] /\ event \in [Workers -> Msgs \cup {Null}]
      /\ failure \in [Workers -> {"no", "thrown", "caught"}]
      /\ conn \in [Conns -> {"absent", "open", "closing", "sealed"}]
      /\ queue \in [Conns -> Seq(Msgs)] /\ target \in [Threads -> Conns \cup {Null}]
      /\ life \in {"Fresh", "Running", "Terminated"}
  BY DEF ViewInv, FrameInv, TypeOK, Threads
<1>1. stage[w] = "none" /\ (At(w, "checkExit") \/ At(w, "checkForced"))
  BY <1>a DEF CheckExit, CheckForced, ViewInv, FrameInv, PcShape, UserPcs, At
<1>2. /\ UNCHANGED <<conn, queue, failure, hand, event>>
      /\ stage' = stage \/ stage' = [stage EXCEPT ![w] = "terminated"]
  BY DEF CheckExit, CheckForced, CheckTerminated, CallUser, connVars, drainVars
<1>3. \A v \in Workers \ {w} : stage[v] = "none"
  BY <1>1, SoleWorker DEF ViewInv, At
<1>4. \A v \in Workers : stage[v] # "deliver" /\ stage'[v] # "deliver"
  BY <1>1, <1>2, <1>3, <1>a
<1>5. CCurrent = Null /\ CCurrent' = Null
  BY <1>4, NoCurrent, NoCurrentNext
<1>6. \/ life' = life
      \/ /\ life = "Running" /\ life' = "Terminated"
         /\ At(w, "checkForced") \/ nonDaemonCount = 0
  BY DEF CheckExit, CheckForced, CheckTerminated
<1>7. CASE life' = life
  BY <1>2, <1>5, <1>7, SameRest, ViewKept
<1>8. CASE life = "Running" /\ life' = "Terminated"
  <2>1. CFailed \/ \A c \in Conns \ Daemon : CConn[c] # "open"
    <3>1. CASE At(w, "checkForced")
      <4>1. failure[w] = "caught"
        BY <3>1 DEF ViewInv, FailureShape
      <4> QED
        BY <1>8, <4>1 DEF CFailed
    <3>2. CASE nonDaemonCount = 0
      <4>1. OpenNonDaemons = {}
        BY <3>2, FS_EmptySet DEF ViewInv, OpenCount
      <4>2. \A c \in Conns \ Daemon : conn[c] # "open"
        BY <4>1 DEF OpenNonDaemons
      <4> QED
        BY <4>2 DEF CConn
    <3> QED
      BY <1>6, <1>8, <3>1, <3>2
  <2>2. CConn' = CConn
    BY <1>2 DEF CConn
  <2>3. CMail' = [c \in Conns |-> <<>>] /\ CFailed' = FALSE
    BY <1>8 DEF CMail, CFailed
  <2> QED
    BY <1>5, <1>8, <2>1, <2>2, <2>3, ViewTerminates
<1> QED
  BY <1>6, <1>7, <1>8

-----------------------------------------------------------------------------
(* The refinement *)

\* A frame that has just been created is a reactor that has not started.
LEMMA RefinesInit ==
  ASSUME Init
  PROVE  Contract!CInit
<1>1. /\ life = "Fresh" /\ conn = [c \in Conns |-> "absent"]
      /\ \A v \in Workers : stage[v] = "none" /\ failure[v] = "no"
  BY DEF Init, Threads
<1>2. CConn = [c \in Conns |-> "absent"] /\ CMail = [c \in Conns |-> <<>>]
  BY <1>1 DEF CConn, CMail
<1>3. CCurrent = Null
  BY <1>1, NoCurrent
<1>4. CFailed = FALSE
  BY <1>1 DEF CFailed
<1> QED
  BY <1>1, <1>2, <1>3, <1>4, ViewInitially

\* Every step of the frame is a step of the abstract reactor or unseen.
LEMMA RefinesNext ==
  ASSUME ViewInv, [Next]_vars
  PROVE  [Contract!CNext]_(Contract!cvars)
<1> USE DEF frameVars, connVars, sendVars, drainVars, vars
<1>1. CASE SpawnOpenMain
  BY <1>1, ConnsAssumption, OpenSeen DEF SpawnOpenMain
<1>2. CASE SpawnOpenSys
  BY <1>2, ConnsAssumption, OpenSeen DEF SpawnOpenSys
<1>3. CASE SpawnActivate
  BY <1>3, Untouched DEF SpawnActivate
<1>4. ASSUME NEW t \in Threads, Schedule(t) \/ SendRegister(t)
      PROVE  UNCHANGED Contract!cvars
  BY <1>4, Untouched DEF Schedule, SendRegister
<1>5. ASSUME NEW t \in Threads, SendEnqueue(t)
      PROVE  Contract!CNext \/ UNCHANGED Contract!cvars
  BY <1>5, SendSeen
<1>6. ASSUME NEW t \in Threads, NEW c \in Conns, NEW m \in Msgs, SendCheck(t, c, m)
      PROVE  UNCHANGED Contract!cvars
  BY <1>6, Untouched DEF SendCheck
<1>7. ASSUME NEW w \in Workers, NEW c \in Conns, UserOpen(w, c)
      PROVE  Contract!CNext
  BY <1>7, OpenSeen DEF UserOpen
<1>8. ASSUME NEW w \in Workers, NEW c \in Conns, UserSeal(w, c)
      PROVE  Contract!CNext
  BY <1>8, SealSeen
<1>9. ASSUME NEW w \in Workers, TakeTask(w) \/ Enter(w) \/ Unregister(w) \/ Release(w)
      PROVE  UNCHANGED Contract!cvars
  BY <1>9, Untouched DEF TakeTask, Enter, Unregister, Release
<1>10. ASSUME NEW w \in Workers, CheckFresh(w)
       PROVE  Contract!CNext \/ UNCHANGED Contract!cvars
  BY <1>10, StartSeen
<1>11. ASSUME NEW w \in Workers, Create(w) \/ UserStarts(w) \/ BatchStart(w)
       PROVE  UNCHANGED Contract!cvars
  BY <1>11, LifecycleUnseen
<1>12. ASSUME NEW w \in Workers, CreateFails(w) \/ UserThrow(w)
       PROVE  Contract!CNext \/ UNCHANGED Contract!cvars
  BY <1>12, FailSeen
<1>13. ASSUME NEW w \in Workers, Unreact(w)
       PROVE  UNCHANGED Contract!cvars
  BY <1>13, UnreactUnseen
<1>14. ASSUME NEW w \in Workers, UserReturn(w)
       PROVE  Contract!CNext \/ UNCHANGED Contract!cvars
  BY <1>14, ReturnSeen
<1>15. ASSUME NEW w \in Workers, PopFirst(w) \/ PopNext(w) \/ PopSpin(w) \/ PopSample(w)
       PROVE  UNCHANGED Contract!cvars
  BY <1>15, PollUnseen
<1>16. ASSUME NEW w \in Workers, Dequeue(w)
       PROVE  Contract!CNext \/ UNCHANGED Contract!cvars
  BY <1>16, DeliverSeen
<1>17. ASSUME NEW w \in Workers, DrainAgain(w) \/ DrainNext(w) \/ DrainPreempted(w)
       PROVE  UNCHANGED Contract!cvars
  BY <1>17, DrainUnseen
<1>18. ASSUME NEW w \in Workers, CheckExit(w) \/ CheckForced(w)
       PROVE  Contract!CNext \/ UNCHANGED Contract!cvars
  BY <1>18, TerminateSeen
<1>19. ASSUME NEW w \in Workers, Catch(w)
       PROVE  UNCHANGED Contract!cvars
  BY <1>19, CatchUnseen
<1>20. ASSUME NEW w \in Workers, Reschedule(w)
       PROVE  UNCHANGED Contract!cvars
  BY <1>20, RescheduleUnseen
<1>21. CASE UNCHANGED vars
  BY <1>21, Untouched
<1> QED
  BY NextCases, <1>1, <1>2, <1>3, <1>4, <1>5, <1>6, <1>7, <1>8, <1>9, <1>10, <1>11,
     <1>12, <1>13, <1>14, <1>15, <1>16, <1>17, <1>18, <1>19, <1>20, <1>21

\* The frame implements the abstract reactor: serial, in order, at most once per
\* channel, nothing before the start, after the seal, a failure or the end.
THEOREM RefinesContractHolds == Spec => RefinesContract
<1>1. Init => Contract!CInit
  BY RefinesInit
<1>2. ViewInv /\ [Next]_vars => [Contract!CNext]_(Contract!cvars)
  BY RefinesNext
<1> QED
  BY <1>1, <1>2, ViewInvariant, PTL DEF Spec, RefinesContract, Contract!CSpec
=============================================================================

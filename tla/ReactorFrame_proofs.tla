------------------------ MODULE ReactorFrame_proofs ------------------------
(***************************************************************************)
(* The safety of one frame, for any threads, connectors, events and        *)
(* budget.  The invariants the runs check are not inductive: that a batch  *)
(* is isolated rests on where the right to run it is (OneToken), and that  *)
(* Dequeue finds an event rests on who is committed to dequeue from which  *)
(* connector (ClaimsDisjoint, ClaimsNonEmpty), which in turn needs the     *)
(* isolation.  FrameInv is their conjunction; each part has a lemma that   *)
(* every step keeps it, with one step per action.                          *)
(***************************************************************************)
EXTENDS ReactorFrame, TLAPS

-----------------------------------------------------------------------------
(* The inductive invariant *)

SpawnerPcs == {"openMain", "openSys", "activate", "schedule", "done"}
SenderPcs  == {"idle", "checked", "enqueued", "schedule"}
UserPcs    == {"user", "unreact", "checked", "enqueued"}

\* Which thread can be where, and when its locals are set.
PcShape ==
  /\ pc[Spawner] \in SpawnerPcs
  /\ \A s \in Senders : pc[s] \in SenderPcs
  /\ \A w \in Workers : pc[w] \notin {"openMain", "openSys", "activate", "done"}
  /\ \A t \in Threads \ Workers : stage[t] = "none"
  /\ \A w \in Workers : stage[w] = "none" <=> pc[w] \notin UserPcs

TargetShape ==
  \A t \in Threads :
    /\ pc[t] \in {"checked", "enqueued", "unreact"} => target[t] \in Conns
    /\ At(t, "checked") => arg[t] \in Msgs

HandShape ==
  \A w \in Workers :
    /\ pc[w] \in {"dequeue", "drain"} \/ stage[w] = "deliver" => hand[w] \in Conns
    /\ remaining[w] > 0 => At(w, "drain") \/ stage[w] = "deliver"

\* The right to execute the frame is one token: a task of the scheduler, a
\* thread that is about to create it, or the worker that consumed it.
Holds(t) ==
  \/ t \in Workers /\ ~At(t, "idle")
  \/ t \in Senders /\ At(t, "schedule")
  \/ t = Spawner /\ pc[t] \in {"openSys", "activate", "schedule"}

OneToken ==
  /\ \A t, u \in Threads : Holds(t) /\ Holds(u) => t = u
  /\ tasks > 0 => tasks = 1 /\ \A t \in Threads : ~Holds(t)
  /\ active <=> tasks > 0 \/ \E t \in Threads : Holds(t)

IsolatedCount ==
  /\ \A w \in Workers : Isolated(w) => activeCount = 1
  /\ activeCount = 1 => \E w \in Workers : Isolated(w)

PendingActive == pending # <<>> /\ life # "Terminated" => active

\* Nothing has happened before the default connector is opened.
Unspawned ==
  At(Spawner, "openMain") =>
    /\ ~active
    /\ \A c \in Conns : conn[c] = "absent"
    /\ \A s \in Senders : At(s, "idle")

Drains(w) == At(w, "dequeue") \/ remaining[w] > 0

\* ClaimedOnce, one clause per pair of kinds of claim.
ClaimsDisjoint ==
  /\ \A i, j \in 1 .. Len(pending) : pending[i] = pending[j] => i = j
  /\ \A i \in 1 .. Len(pending), w \in Workers : Drains(w) => hand[w] # pending[i]
  /\ \A i \in 1 .. Len(pending), t \in Threads :
       At(t, "enqueued") => target[t] # pending[i]
  /\ \A w \in Workers, t \in Threads :
       Drains(w) /\ At(t, "enqueued") => hand[w] # target[t]
  /\ \A t, u \in Threads :
       At(t, "enqueued") /\ At(u, "enqueued") /\ target[t] = target[u] => t = u

ClaimsNonEmpty ==
  /\ \A i \in 1 .. Len(pending) : queue[pending[i]] # <<>>
  /\ \A w \in Workers : Drains(w) => queue[hand[w]] # <<>>
  /\ \A t \in Threads : At(t, "enqueued") => queue[target[t]] # <<>>

FrameInv ==
  /\ TypeOK
  /\ PcShape /\ TargetShape /\ HandShape
  /\ OneToken /\ IsolatedCount /\ PendingActive /\ Unspawned
  /\ ClaimsDisjoint /\ ClaimsNonEmpty

\* A failing worker does not leave the batch before the reactor has
\* terminated; an absent connector has no events and gets none.
Claimed(c) ==
  \/ \E i \in 1 .. Len(pending) : pending[i] = c
  \/ \E w \in Workers : Drains(w) /\ hand[w] = c
  \/ \E t \in Threads : At(t, "enqueued") /\ target[t] = c

Failing == \E w \in Workers : failure[w] # "no"

LifeShape ==
  /\ \A w \in Workers :
       /\ pc[w] \notin {"idle", "enter", "checkFresh", "schedule"} => life # "Fresh"
       /\ At(w, "unregister") \/ stage[w] = "terminated" => life = "Terminated"
       /\ pc[w] \in {"release", "reschedule"} /\ failure[w] # "no"
            => life = "Terminated"
       /\ pc[w] \in {"idle", "schedule"} => failure[w] = "no"
       /\ failure[w] = "caught" =>
            \/ pc[w] \in {"checkForced", "unregister", "release", "reschedule"}
            \/ stage[w] \in {"died", "terminated"}

AbsentEmpty ==
  \A c \in Conns : conn[c] = "absent" =>
    /\ queue[c] = <<>>
    /\ \A t \in Threads : At(t, "checked") => target[t] # c

Stranded(c) == conn[c] = "open" /\ queue[c] # <<>> /\ ~Claimed(c)

StrandInv ==
  /\ LifeShape
  /\ AbsentEmpty
  /\ \A c \in Conns : Stranded(c) => life = "Terminated" \/ Failing

-----------------------------------------------------------------------------
(* The cases of a step *)

\* A step is one of the actions of the frame: Next without its groups.
LEMMA NextCases ==
  ASSUME [Next]_vars
  PROVE  \/ SpawnOpenMain \/ SpawnOpenSys \/ SpawnActivate
         \/ \E t \in Threads : Schedule(t) \/ SendEnqueue(t) \/ SendRegister(t)
         \/ \E t \in Threads, c \in Conns, m \in Msgs : SendCheck(t, c, m)
         \/ \E w \in Workers, c \in Conns : UserOpen(w, c) \/ UserSeal(w, c)
         \/ \E w \in Workers :
              \/ TakeTask(w) \/ Enter(w) \/ CheckFresh(w) \/ Create(w)
              \/ CreateFails(w)
              \/ Unreact(w) \/ UserReturn(w) \/ UserStarts(w) \/ BatchStart(w)
              \/ UserThrow(w)
              \/ PopFirst(w) \/ PopNext(w) \/ PopSpin(w) \/ PopSample(w)
              \/ Dequeue(w) \/ DrainAgain(w) \/ DrainNext(w)
              \/ DrainPreempted(w)
              \/ CheckExit(w) \/ Catch(w) \/ CheckForced(w) \/ Unregister(w)
              \/ Release(w) \/ Reschedule(w)
         \/ UNCHANGED vars
BY DEF Next, Spawn, SendOn, Execute, UserCode, Drain, Stopped, Threads

-----------------------------------------------------------------------------
(* Types *)

\* What the code's rings return: the first element, and the ring without it.
LEMMA HeadTail ==
  ASSUME NEW S, NEW q \in Seq(S), q # <<>>
  PROVE  /\ Head(q) \in S /\ Tail(q) \in Seq(S)
         /\ Len(q) \in Nat \ {0} /\ Len(Tail(q)) = Len(q) - 1
OBVIOUS

\* popNextPending on a non-empty ring.
LEMMA PopTypes ==
  ASSUME TypeOK, NEW w \in Workers, PopPending(w)
  PROVE  /\ hand' \in [Workers -> Conns \cup {Null}]
         /\ pending' \in Seq(Conns)
         /\ pc' \in [Threads -> Pcs]
<1>1. Head(pending) \in Conns /\ Tail(pending) \in Seq(Conns)
  BY HeadTail DEF PopPending, TypeOK
<1>2. pc' \in [Threads -> Pcs]
  BY DEF TypeOK, PopPending, Goto, Pcs, Threads
<1> QED
  BY <1>1, <1>2 DEF TypeOK, PopPending


\* Every step keeps the types; appending needs the targets and dequeuing
\* needs a non-empty queue.
LEMMA TypeStep ==
  ASSUME TypeOK, TargetShape, HandShape, ClaimsNonEmpty, [Next]_vars
  PROVE  TypeOK'
<1> USE DEF At, Goto, frameVars, connVars, sendVars, drainVars, vars
<1>1. CASE SpawnOpenMain
  BY <1>1, ConnsAssumption DEF TypeOK, Threads, Pcs, Stages, SpawnOpenMain,
       OpenConnector, NonDaemons
<1>2. CASE SpawnOpenSys
  BY <1>2, ConnsAssumption DEF TypeOK, Threads, Pcs, Stages, SpawnOpenSys,
       OpenConnector, NonDaemons
<1>3. CASE SpawnActivate
  BY <1>3 DEF TypeOK, Threads, Pcs, Stages, SpawnActivate
<1>4. ASSUME NEW t \in Threads, Schedule(t) PROVE TypeOK'
  BY <1>4 DEF TypeOK, Threads, Pcs, Stages, Schedule, Resume
<1>5. ASSUME NEW t \in Threads, SendEnqueue(t) PROVE TypeOK'
  <2>1. target[t] \in Conns /\ arg[t] \in Msgs
    BY <1>5 DEF TargetShape, SendEnqueue, At
  <2>2. queue' \in [Conns -> Seq(Msgs)]
    BY <1>5, <2>1 DEF TypeOK, SendEnqueue
  <2>3. /\ target' \in [Threads -> Conns \cup {Null}]
        /\ arg' \in [Threads -> Msgs \cup {Null}]
    BY <1>5 DEF TypeOK, SendEnqueue
  <2>4. pc' \in [Threads -> Pcs]
    <3>1. \E l \in {"enqueued", "idle", "user"} : pc' = [pc EXCEPT ![t] = l]
      BY <1>5 DEF SendEnqueue, Resume
    <3> QED
      BY <3>1 DEF TypeOK, Pcs
  <2> QED
    BY <1>5, <2>2, <2>3, <2>4 DEF TypeOK, SendEnqueue, frameVars, drainVars
<1>6. ASSUME NEW t \in Threads, SendRegister(t) PROVE TypeOK'
  <2>1. pending' \in Seq(Conns)
    BY <1>6 DEF TypeOK, TargetShape, SendRegister, At
  <2>2. target' \in [Threads -> Conns \cup {Null}]
    BY <1>6 DEF TypeOK, SendRegister
  <2>3. active' \in BOOLEAN
    BY <1>6 DEF TypeOK, SendRegister
  <2>4. pc' \in [Threads -> Pcs]
    BY <1>6, ZenonT(40) DEF TypeOK, SendRegister, Goto, Resume, Pcs
  <2> QED
    BY <1>6, <2>1, <2>2, <2>3, <2>4 DEF TypeOK, SendRegister, connVars, drainVars
<1>7. ASSUME NEW t \in Threads, NEW c \in Conns, NEW m \in Msgs, SendCheck(t, c, m)
      PROVE  TypeOK'
  BY <1>7 DEF TypeOK, Threads, Pcs, Stages, SendCheck
<1>8. ASSUME NEW w \in Workers, NEW c \in Conns, UserOpen(w, c) PROVE TypeOK'
  BY <1>8 DEF TypeOK, Threads, Pcs, Stages, UserOpen, OpenConnector,
       NonDaemons
<1>9. ASSUME NEW w \in Workers, NEW c \in Conns, UserSeal(w, c) PROVE TypeOK'
  BY <1>9 DEF TypeOK, Threads, Pcs, Stages, UserSeal, NonDaemons
<1>10. ASSUME NEW w \in Workers, TakeTask(w) PROVE TypeOK'
  BY <1>10 DEF TypeOK, Threads, Pcs, Stages, TakeTask
<1>11. ASSUME NEW w \in Workers, Enter(w) PROVE TypeOK'
  BY <1>11 DEF TypeOK, Threads, Pcs, Stages, Enter
<1>12. ASSUME NEW w \in Workers, CheckFresh(w) PROVE TypeOK'
  BY <1>12, ZenonT(40) DEF TypeOK, Threads, Pcs, Stages, CheckFresh, CallUser
<1>13. ASSUME NEW w \in Workers, Create(w) PROVE TypeOK'
  BY <1>13 DEF TypeOK, Threads, Pcs, Stages, Create, CallUser
<1>14. ASSUME NEW w \in Workers, CreateFails(w) PROVE TypeOK'
  BY <1>14 DEF TypeOK, Threads, Pcs, Stages, CreateFails
<1>15. ASSUME NEW w \in Workers, Unreact(w) PROVE TypeOK'
  BY <1>15 DEF TypeOK, Threads, Pcs, Stages, Unreact
<1>16. ASSUME NEW w \in Workers, UserReturn(w) PROVE TypeOK'
  BY <1>16 DEF TypeOK, Threads, Pcs, Stages, UserReturn, ReturnTo
<1>17. ASSUME NEW w \in Workers, UserStarts(w) PROVE TypeOK'
  BY <1>17 DEF TypeOK, Threads, Pcs, Stages, UserStarts, CallUser
<1>18. ASSUME NEW w \in Workers, BatchStart(w) PROVE TypeOK'
  BY <1>18, BudgetAssumption DEF TypeOK, Threads, Pcs, Stages, BatchStart
<1>19. ASSUME NEW w \in Workers, UserThrow(w) PROVE TypeOK'
  BY <1>19 DEF TypeOK, Threads, Pcs, Stages, UserThrow, ThrowTo
<1>20. ASSUME NEW w \in Workers, PopFirst(w) PROVE TypeOK'
  <2>1. CASE PopPending(w) /\ UNCHANGED sampling
    BY <2>1, PopTypes DEF TypeOK, PopPending, connVars, sendVars
  <2>2. CASE GiveUp(w, "sample")
    BY <2>2 DEF TypeOK, GiveUp, Goto, Pcs, Threads, frameVars, connVars,
         sendVars, drainVars
  <2> QED
    BY <1>20, <2>1, <2>2 DEF PopFirst
<1>21. ASSUME NEW w \in Workers, PopNext(w) PROVE TypeOK'
  <2>1. CASE PopPending(w) /\ UNCHANGED sampling
    BY <2>1, PopTypes DEF TypeOK, PopPending, connVars, sendVars
  <2>2. CASE Preempt(w)
    BY <2>2 DEF TypeOK, Preempt, CallUser, Goto, Pcs, Stages, Threads,
         frameVars, connVars, sendVars
  <2>3. CASE GiveUp(w, "spin")
    BY <2>3 DEF TypeOK, GiveUp, Goto, Pcs, Threads, frameVars, connVars,
         sendVars, drainVars
  <2> QED
    BY <1>21, <2>1, <2>2, <2>3 DEF PopNext
<1>22. ASSUME NEW w \in Workers, PopSpin(w) PROVE TypeOK'
  <2>1. CASE PopPending(w) /\ UNCHANGED sampling
    BY <2>1, PopTypes DEF TypeOK, PopPending, connVars, sendVars
  <2>2. CASE GiveUp(w, "sample")
    BY <2>2 DEF TypeOK, GiveUp, Goto, Pcs, Threads, frameVars, connVars,
         sendVars, drainVars
  <2> QED
    BY <1>22, <2>1, <2>2 DEF PopSpin
<1>23. ASSUME NEW w \in Workers, PopSample(w) PROVE TypeOK'
  <2>1. CASE PopPending(w) /\ sampling' = [sampling EXCEPT ![w] = TRUE]
    BY <2>1, PopTypes DEF TypeOK, PopPending, connVars, sendVars
  <2>2. CASE Preempt(w)
    BY <2>2 DEF TypeOK, Preempt, CallUser, Goto, Pcs, Stages, Threads,
         frameVars, connVars, sendVars
  <2> QED
    BY <1>23, <2>1, <2>2 DEF PopSample
<1>24. ASSUME NEW w \in Workers, Dequeue(w) PROVE TypeOK'
  <2>1. hand[w] \in Conns /\ queue[hand[w]] # <<>>
    BY <1>24 DEF HandShape, ClaimsNonEmpty, Drains, Dequeue, At
  <2>2. /\ Head(queue[hand[w]]) \in Msgs
        /\ Tail(queue[hand[w]]) \in Seq(Msgs)
        /\ Len(queue[hand[w]]) - 1 \in Nat
    BY <2>1, HeadTail DEF TypeOK
  <2>3. queue' \in [Conns -> Seq(Msgs)]
    BY <1>24, <2>2 DEF TypeOK, Dequeue
  <2>4. remaining' \in [Workers -> Nat]
    BY <1>24, <2>2 DEF TypeOK, Dequeue
  <2>5. event' \in [Workers -> Msgs \cup {Null}]
    BY <1>24, <2>2 DEF TypeOK, Dequeue
  <2>6. pc' \in [Threads -> Pcs] /\ stage' \in [Threads -> Stages]
    BY <1>24, ZenonT(40) DEF TypeOK, Dequeue, Goto, CallUser, Pcs, Stages, Threads
  <2> QED
    BY <1>24, <2>3, <2>4, <2>5, <2>6 DEF TypeOK, Dequeue, frameVars, sendVars
<1>25. ASSUME NEW w \in Workers, DrainAgain(w) PROVE TypeOK'
  BY <1>25 DEF TypeOK, Threads, Pcs, Stages, DrainAgain, HasMore
<1>26. ASSUME NEW w \in Workers, DrainNext(w) PROVE TypeOK'
  BY <1>26 DEF TypeOK, Threads, Pcs, Stages, DrainNext, HasMore
<1>27. ASSUME NEW w \in Workers, DrainPreempted(w) PROVE TypeOK'
  <2>1. pending' \in Seq(Conns)
    BY <1>27 DEF TypeOK, HandShape, DrainPreempted, PreemptedAt, HasMore, At
  <2>2. pc' \in [Threads -> Pcs] /\ stage' \in [Threads -> Stages]
    <3>1. CASE sampling[w]
      <4>1. CallUser(w, "preempted")
        BY <1>27, <3>1 DEF DrainPreempted, PreemptedAt
      <4> QED
        BY <4>1 DEF TypeOK, CallUser, Goto, Pcs, Stages, Threads
    <3>2. CASE ~sampling[w]
      BY <1>27, <3>2 DEF TypeOK, DrainPreempted, PreemptedAt, Goto, CallUser, Pcs, Stages,
           Threads
    <3> QED
      BY <3>1, <3>2
  <2>3. sampling' \in [Workers -> BOOLEAN]
    BY <1>27 DEF TypeOK, DrainPreempted, PreemptedAt
  <2>4. budget' \in Int
    BY <1>27 DEF TypeOK, DrainPreempted, PreemptedAt
  <2>5. /\ hand' \in [Workers -> Conns \cup {Null}]
        /\ remaining' \in [Workers -> Nat]
    BY <1>27 DEF TypeOK, DrainPreempted, PreemptedAt
  <2> QED
    BY <1>27, <2>1, <2>2, <2>3, <2>4, <2>5 DEF TypeOK, DrainPreempted, PreemptedAt, connVars,
         sendVars
<1>28. ASSUME NEW w \in Workers, CheckExit(w) PROVE TypeOK'
  BY <1>28, ZenonT(40) DEF TypeOK, Threads, Pcs, Stages, CheckExit, CheckTerminated,
       CallUser
<1>29. ASSUME NEW w \in Workers, Catch(w) PROVE TypeOK'
  BY <1>29, ZenonT(40) DEF TypeOK, Threads, Pcs, Stages, Catch, CallUser
<1>30. ASSUME NEW w \in Workers, CheckForced(w) PROVE TypeOK'
  BY <1>30, ZenonT(40) DEF TypeOK, Threads, Pcs, Stages, CheckForced, CheckTerminated,
       CallUser
<1>31. ASSUME NEW w \in Workers, Unregister(w) PROVE TypeOK'
  BY <1>31 DEF TypeOK, Threads, Pcs, Stages, Unregister
<1>32. ASSUME NEW w \in Workers, Release(w) PROVE TypeOK'
  BY <1>32 DEF TypeOK, Threads, Pcs, Stages, Release
<1>33. ASSUME NEW w \in Workers, Reschedule(w) PROVE TypeOK'
  BY <1>33 DEF TypeOK, Threads, Pcs, Stages, Reschedule
<1>34. CASE UNCHANGED vars
  BY <1>34 DEF TypeOK, Threads, Pcs, Stages
<1> QED
  BY NextCases, <1>1, <1>2, <1>3, <1>4, <1>5, <1>6, <1>7, <1>8, <1>9, <1>10,
       <1>11, <1>12, <1>13, <1>14, <1>15, <1>16, <1>17, <1>18, <1>19, <1>20,
       <1>21, <1>22, <1>23, <1>24, <1>25, <1>26, <1>27, <1>28, <1>29, <1>30,
       <1>31, <1>32, <1>33, <1>34

-----------------------------------------------------------------------------
(* Which thread is where *)

\* Every step keeps the threads in their own code; a worker that sends finds
\* the frame active.
LEMMA PcShapeStep ==
  ASSUME TypeOK, PcShape, OneToken, [Next]_vars
  PROVE  PcShape'
<1> USE DEF At, Goto, frameVars, connVars, sendVars, drainVars, vars
<1>a. pc \in [Threads -> Pcs] /\ stage \in [Threads -> Stages]
  BY DEF TypeOK
<1>1. CASE SpawnOpenMain
  BY <1>1, <1>a, ThreadsAssumption DEF PcShape, SpawnerPcs, SenderPcs,
       UserPcs, Threads, SpawnOpenMain, OpenConnector, NonDaemons
<1>2. CASE SpawnOpenSys
  BY <1>2, <1>a, ThreadsAssumption DEF PcShape, SpawnerPcs, SenderPcs,
       UserPcs, Threads, SpawnOpenSys, OpenConnector, NonDaemons
<1>3. CASE SpawnActivate
  BY <1>3, <1>a, ThreadsAssumption DEF PcShape, SpawnerPcs, SenderPcs,
       UserPcs, Threads, SpawnActivate
<1>4. ASSUME NEW t \in Threads, Schedule(t) PROVE PcShape'
  BY <1>4, <1>a, ThreadsAssumption DEF PcShape, SpawnerPcs, SenderPcs,
       UserPcs, Threads, Schedule, Resume
<1>5. ASSUME NEW t \in Threads, SendEnqueue(t) PROVE PcShape'
  BY <1>5, <1>a, ThreadsAssumption DEF PcShape, SpawnerPcs, SenderPcs,
       UserPcs, Threads, SendEnqueue, Resume
<1>6. ASSUME NEW t \in Threads, SendRegister(t) PROVE PcShape'
  BY <1>6, <1>a, ThreadsAssumption DEF PcShape, SpawnerPcs, SenderPcs,
       UserPcs, Threads, OneToken, Holds, SendRegister, Resume
<1>7. ASSUME NEW t \in Threads, NEW c \in Conns, NEW m \in Msgs, SendCheck(t, c, m)
      PROVE  PcShape'
  BY <1>7, <1>a, ThreadsAssumption DEF PcShape, SpawnerPcs, SenderPcs,
       UserPcs, Threads, SendCheck
<1>8. ASSUME NEW w \in Workers, NEW c \in Conns, UserOpen(w, c)
      PROVE  PcShape'
  BY <1>8, <1>a, ThreadsAssumption DEF PcShape, SpawnerPcs, SenderPcs,
       UserPcs, Threads, UserOpen, OpenConnector, NonDaemons
<1>9. ASSUME NEW w \in Workers, NEW c \in Conns, UserSeal(w, c)
      PROVE  PcShape'
  BY <1>9, <1>a, ThreadsAssumption DEF PcShape, SpawnerPcs, SenderPcs,
       UserPcs, Threads, UserSeal, NonDaemons
<1>10. ASSUME NEW w \in Workers, TakeTask(w) PROVE PcShape'
  BY <1>10, <1>a, ThreadsAssumption DEF PcShape, SpawnerPcs, SenderPcs,
       UserPcs, Threads, TakeTask
<1>11. ASSUME NEW w \in Workers, Enter(w) PROVE PcShape'
  BY <1>11, <1>a, ThreadsAssumption DEF PcShape, SpawnerPcs, SenderPcs,
       UserPcs, Threads, Enter
<1>12. ASSUME NEW w \in Workers, CheckFresh(w) PROVE PcShape'
  BY <1>12, <1>a, ThreadsAssumption DEF PcShape, SpawnerPcs, SenderPcs,
       UserPcs, Threads, CheckFresh, CallUser
<1>13. ASSUME NEW w \in Workers, Create(w) PROVE PcShape'
  BY <1>13, <1>a, ThreadsAssumption DEF PcShape, SpawnerPcs, SenderPcs,
       UserPcs, Threads, Create, CallUser
<1>14. ASSUME NEW w \in Workers, CreateFails(w) PROVE PcShape'
  BY <1>14, <1>a, ThreadsAssumption DEF PcShape, SpawnerPcs, SenderPcs,
       UserPcs, Threads, CreateFails
<1>15. ASSUME NEW w \in Workers, Unreact(w) PROVE PcShape'
  BY <1>15, <1>a, ThreadsAssumption DEF PcShape, SpawnerPcs, SenderPcs,
       UserPcs, Threads, Unreact
<1>16. ASSUME NEW w \in Workers, UserReturn(w) PROVE PcShape'
  BY <1>16, <1>a, ThreadsAssumption DEF PcShape, SpawnerPcs, SenderPcs,
       UserPcs, Threads, UserReturn, ReturnTo
<1>17. ASSUME NEW w \in Workers, UserStarts(w) PROVE PcShape'
  BY <1>17, <1>a, ThreadsAssumption DEF PcShape, SpawnerPcs, SenderPcs,
       UserPcs, Threads, UserStarts, CallUser
<1>18. ASSUME NEW w \in Workers, BatchStart(w) PROVE PcShape'
  BY <1>18, <1>a, ThreadsAssumption DEF PcShape, SpawnerPcs, SenderPcs,
       UserPcs, Threads, BatchStart
<1>19. ASSUME NEW w \in Workers, UserThrow(w) PROVE PcShape'
  BY <1>19, <1>a, ThreadsAssumption DEF PcShape, SpawnerPcs, SenderPcs,
       UserPcs, Threads, UserThrow, ThrowTo
<1>20. ASSUME NEW w \in Workers, PopFirst(w) PROVE PcShape'
  BY <1>20, <1>a, ThreadsAssumption DEF PcShape, SpawnerPcs, SenderPcs,
       UserPcs, Threads, PopFirst, GiveUp, PopPending
<1>21. ASSUME NEW w \in Workers, PopNext(w) PROVE PcShape'
  BY <1>21, <1>a, ThreadsAssumption DEF PcShape, SpawnerPcs, SenderPcs,
       UserPcs, Threads, PopNext, GiveUp, Preempt, PopPending, CallUser
<1>22. ASSUME NEW w \in Workers, PopSpin(w) PROVE PcShape'
  BY <1>22, <1>a, ThreadsAssumption DEF PcShape, SpawnerPcs, SenderPcs,
       UserPcs, Threads, PopSpin, GiveUp, PopPending
<1>23. ASSUME NEW w \in Workers, PopSample(w) PROVE PcShape'
  BY <1>23, <1>a, ThreadsAssumption DEF PcShape, SpawnerPcs, SenderPcs,
       UserPcs, Threads, PopSample, Preempt, PopPending, CallUser
<1>24. ASSUME NEW w \in Workers, Dequeue(w) PROVE PcShape'
  BY <1>24, <1>a, ThreadsAssumption DEF PcShape, SpawnerPcs, SenderPcs,
       UserPcs, Threads, Dequeue, CallUser
<1>25. ASSUME NEW w \in Workers, DrainAgain(w) PROVE PcShape'
  BY <1>25, <1>a, ThreadsAssumption DEF PcShape, SpawnerPcs, SenderPcs,
       UserPcs, Threads, DrainAgain, HasMore
<1>26. ASSUME NEW w \in Workers, DrainNext(w) PROVE PcShape'
  BY <1>26, <1>a, ThreadsAssumption DEF PcShape, SpawnerPcs, SenderPcs,
       UserPcs, Threads, DrainNext, HasMore
<1>27. ASSUME NEW w \in Workers, DrainPreempted(w) PROVE PcShape'
  BY <1>27, <1>a, ThreadsAssumption DEF PcShape, SpawnerPcs, SenderPcs,
       UserPcs, Threads, DrainPreempted, PreemptedAt, CallUser
<1>28. ASSUME NEW w \in Workers, CheckExit(w) PROVE PcShape'
  BY <1>28, <1>a, ThreadsAssumption DEF PcShape, SpawnerPcs, SenderPcs,
       UserPcs, Threads, CheckExit, CheckTerminated, CallUser
<1>29. ASSUME NEW w \in Workers, Catch(w) PROVE PcShape'
  BY <1>29, <1>a, ThreadsAssumption DEF PcShape, SpawnerPcs, SenderPcs,
       UserPcs, Threads, Catch, CallUser
<1>30. ASSUME NEW w \in Workers, CheckForced(w) PROVE PcShape'
  BY <1>30, <1>a, ThreadsAssumption DEF PcShape, SpawnerPcs, SenderPcs,
       UserPcs, Threads, CheckForced, CheckTerminated, CallUser
<1>31. ASSUME NEW w \in Workers, Unregister(w) PROVE PcShape'
  BY <1>31, <1>a, ThreadsAssumption DEF PcShape, SpawnerPcs, SenderPcs,
       UserPcs, Threads, Unregister
<1>32. ASSUME NEW w \in Workers, Release(w) PROVE PcShape'
  BY <1>32, <1>a, ThreadsAssumption DEF PcShape, SpawnerPcs, SenderPcs,
       UserPcs, Threads, Release
<1>33. ASSUME NEW w \in Workers, Reschedule(w) PROVE PcShape'
  BY <1>33, <1>a, ThreadsAssumption DEF PcShape, SpawnerPcs, SenderPcs,
       UserPcs, Threads, Reschedule
<1>34. CASE UNCHANGED vars
  BY <1>34, <1>a, ThreadsAssumption DEF PcShape, SpawnerPcs, SenderPcs,
       UserPcs, Threads
<1> QED
  BY NextCases, <1>1, <1>2, <1>3, <1>4, <1>5, <1>6, <1>7, <1>8, <1>9, <1>10,
       <1>11, <1>12, <1>13, <1>14, <1>15, <1>16, <1>17, <1>18, <1>19, <1>20,
       <1>21, <1>22, <1>23, <1>24, <1>25, <1>26, <1>27, <1>28, <1>29, <1>30,
       <1>31, <1>32, <1>33, <1>34

\* Every step keeps the arguments of the sends and seals in progress.
LEMMA TargetShapeStep ==
  ASSUME TypeOK, TargetShape, [Next]_vars
  PROVE  TargetShape'
<1> USE DEF At, Goto, frameVars, connVars, sendVars, drainVars, vars
<1>a. /\ pc \in [Threads -> Pcs] /\ stage \in [Threads -> Stages]
      /\ target \in [Threads -> Conns \cup {Null}]
      /\ arg \in [Threads -> Msgs \cup {Null}]
  BY DEF TypeOK
<1>1. CASE SpawnOpenMain
  BY <1>1, <1>a DEF TargetShape, Threads, SpawnOpenMain, OpenConnector,
       NonDaemons
<1>2. CASE SpawnOpenSys
  BY <1>2, <1>a DEF TargetShape, Threads, SpawnOpenSys, OpenConnector,
       NonDaemons
<1>3. CASE SpawnActivate
  BY <1>3, <1>a DEF TargetShape, Threads, SpawnActivate
<1>4. ASSUME NEW t \in Threads, Schedule(t) PROVE TargetShape'
  BY <1>4, <1>a DEF TargetShape, Threads, Schedule, Resume
<1>5. ASSUME NEW t \in Threads, SendEnqueue(t) PROVE TargetShape'
  BY <1>5, <1>a DEF TargetShape, Threads, SendEnqueue, Resume
<1>6. ASSUME NEW t \in Threads, SendRegister(t) PROVE TargetShape'
  BY <1>6, <1>a DEF TargetShape, Threads, SendRegister, Resume
<1>7. ASSUME NEW t \in Threads, NEW c \in Conns, NEW m \in Msgs, SendCheck(t, c, m)
      PROVE  TargetShape'
  BY <1>7, <1>a DEF TargetShape, Threads, SendCheck
<1>8. ASSUME NEW w \in Workers, NEW c \in Conns, UserOpen(w, c)
      PROVE  TargetShape'
  BY <1>8, <1>a DEF TargetShape, Threads, UserOpen, OpenConnector, NonDaemons
<1>9. ASSUME NEW w \in Workers, NEW c \in Conns, UserSeal(w, c)
      PROVE  TargetShape'
  BY <1>9, <1>a DEF TargetShape, Threads, UserSeal, NonDaemons
<1>10. ASSUME NEW w \in Workers, TakeTask(w) PROVE TargetShape'
  BY <1>10, <1>a DEF TargetShape, Threads, TakeTask
<1>11. ASSUME NEW w \in Workers, Enter(w) PROVE TargetShape'
  BY <1>11, <1>a DEF TargetShape, Threads, Enter
<1>12. ASSUME NEW w \in Workers, CheckFresh(w) PROVE TargetShape'
  BY <1>12, <1>a DEF TargetShape, Threads, CheckFresh, CallUser
<1>13. ASSUME NEW w \in Workers, Create(w) PROVE TargetShape'
  BY <1>13, <1>a DEF TargetShape, Threads, Create, CallUser
<1>14. ASSUME NEW w \in Workers, CreateFails(w) PROVE TargetShape'
  BY <1>14, <1>a DEF TargetShape, Threads, CreateFails
<1>15. ASSUME NEW w \in Workers, Unreact(w) PROVE TargetShape'
  BY <1>15, <1>a DEF TargetShape, Threads, Unreact
<1>16. ASSUME NEW w \in Workers, UserReturn(w) PROVE TargetShape'
  BY <1>16, <1>a DEF TargetShape, Threads, UserReturn, ReturnTo
<1>17. ASSUME NEW w \in Workers, UserStarts(w) PROVE TargetShape'
  BY <1>17, <1>a DEF TargetShape, Threads, UserStarts, CallUser
<1>18. ASSUME NEW w \in Workers, BatchStart(w) PROVE TargetShape'
  BY <1>18, <1>a DEF TargetShape, Threads, BatchStart
<1>19. ASSUME NEW w \in Workers, UserThrow(w) PROVE TargetShape'
  BY <1>19, <1>a DEF TargetShape, Threads, UserThrow, ThrowTo
<1>20. ASSUME NEW w \in Workers, PopFirst(w) PROVE TargetShape'
  BY <1>20, <1>a DEF TargetShape, Threads, PopFirst, GiveUp, PopPending
<1>21. ASSUME NEW w \in Workers, PopNext(w) PROVE TargetShape'
  BY <1>21, <1>a DEF TargetShape, Threads, PopNext, GiveUp, Preempt,
       PopPending, CallUser
<1>22. ASSUME NEW w \in Workers, PopSpin(w) PROVE TargetShape'
  BY <1>22, <1>a DEF TargetShape, Threads, PopSpin, GiveUp, PopPending
<1>23. ASSUME NEW w \in Workers, PopSample(w) PROVE TargetShape'
  BY <1>23, <1>a DEF TargetShape, Threads, PopSample, Preempt, PopPending,
       CallUser
<1>24. ASSUME NEW w \in Workers, Dequeue(w) PROVE TargetShape'
  BY <1>24, <1>a DEF TargetShape, Threads, Dequeue, CallUser
<1>25. ASSUME NEW w \in Workers, DrainAgain(w) PROVE TargetShape'
  BY <1>25, <1>a DEF TargetShape, Threads, DrainAgain, HasMore
<1>26. ASSUME NEW w \in Workers, DrainNext(w) PROVE TargetShape'
  BY <1>26, <1>a DEF TargetShape, Threads, DrainNext, HasMore
<1>27. ASSUME NEW w \in Workers, DrainPreempted(w) PROVE TargetShape'
  BY <1>27, <1>a DEF TargetShape, Threads, DrainPreempted, PreemptedAt,
       CallUser
<1>28. ASSUME NEW w \in Workers, CheckExit(w) PROVE TargetShape'
  BY <1>28, <1>a DEF TargetShape, Threads, CheckExit, CheckTerminated,
       CallUser
<1>29. ASSUME NEW w \in Workers, Catch(w) PROVE TargetShape'
  BY <1>29, <1>a DEF TargetShape, Threads, Catch, CallUser
<1>30. ASSUME NEW w \in Workers, CheckForced(w) PROVE TargetShape'
  BY <1>30, <1>a DEF TargetShape, Threads, CheckForced, CheckTerminated,
       CallUser
<1>31. ASSUME NEW w \in Workers, Unregister(w) PROVE TargetShape'
  BY <1>31, <1>a DEF TargetShape, Threads, Unregister
<1>32. ASSUME NEW w \in Workers, Release(w) PROVE TargetShape'
  BY <1>32, <1>a DEF TargetShape, Threads, Release
<1>33. ASSUME NEW w \in Workers, Reschedule(w) PROVE TargetShape'
  BY <1>33, <1>a DEF TargetShape, Threads, Reschedule
<1>34. CASE UNCHANGED vars
  BY <1>34, <1>a DEF TargetShape, Threads
<1> QED
  BY NextCases, <1>1, <1>2, <1>3, <1>4, <1>5, <1>6, <1>7, <1>8, <1>9, <1>10,
       <1>11, <1>12, <1>13, <1>14, <1>15, <1>16, <1>17, <1>18, <1>19, <1>20,
       <1>21, <1>22, <1>23, <1>24, <1>25, <1>26, <1>27, <1>28, <1>29, <1>30,
       <1>31, <1>32, <1>33, <1>34

\* Every step keeps the connector in hand while it is drained.
LEMMA HandShapeStep ==
  ASSUME TypeOK, PcShape, HandShape, [Next]_vars
  PROVE  HandShape'
<1> USE DEF At, Goto, frameVars, connVars, sendVars, drainVars, vars
<1>a. /\ pc \in [Threads -> Pcs] /\ stage \in [Threads -> Stages]
      /\ hand \in [Workers -> Conns \cup {Null}]
      /\ remaining \in [Workers -> Nat]
  BY DEF TypeOK
<1>b. pending # <<>> => Head(pending) \in Conns
  BY HeadTail DEF TypeOK
<1>1. CASE SpawnOpenMain
  BY <1>1, <1>a DEF PcShape, HandShape, UserPcs, Threads, SpawnOpenMain,
       OpenConnector, NonDaemons
<1>2. CASE SpawnOpenSys
  BY <1>2, <1>a DEF PcShape, HandShape, UserPcs, Threads, SpawnOpenSys,
       OpenConnector, NonDaemons
<1>3. CASE SpawnActivate
  BY <1>3, <1>a DEF PcShape, HandShape, UserPcs, Threads, SpawnActivate
<1>4. ASSUME NEW t \in Threads, Schedule(t) PROVE HandShape'
  BY <1>4, <1>a DEF PcShape, HandShape, UserPcs, Threads, Schedule, Resume
<1>5. ASSUME NEW t \in Threads, SendEnqueue(t) PROVE HandShape'
  BY <1>5, <1>a DEF PcShape, HandShape, UserPcs, Threads, SendEnqueue, Resume
<1>6. ASSUME NEW t \in Threads, SendRegister(t) PROVE HandShape'
  BY <1>6, <1>a DEF PcShape, HandShape, UserPcs, Threads, SendRegister, Resume
<1>7. ASSUME NEW t \in Threads, NEW c \in Conns, NEW m \in Msgs, SendCheck(t, c, m)
      PROVE  HandShape'
  BY <1>7, <1>a DEF PcShape, HandShape, UserPcs, Threads, SendCheck
<1>8. ASSUME NEW w \in Workers, NEW c \in Conns, UserOpen(w, c)
      PROVE  HandShape'
  BY <1>8, <1>a DEF PcShape, HandShape, UserPcs, Threads, UserOpen,
       OpenConnector, NonDaemons
<1>9. ASSUME NEW w \in Workers, NEW c \in Conns, UserSeal(w, c)
      PROVE  HandShape'
  BY <1>9, <1>a DEF PcShape, HandShape, UserPcs, Threads, UserSeal, NonDaemons
<1>10. ASSUME NEW w \in Workers, TakeTask(w) PROVE HandShape'
  BY <1>10, <1>a DEF PcShape, HandShape, UserPcs, Threads, TakeTask
<1>11. ASSUME NEW w \in Workers, Enter(w) PROVE HandShape'
  BY <1>11, <1>a DEF PcShape, HandShape, UserPcs, Threads, Enter
<1>12. ASSUME NEW w \in Workers, CheckFresh(w) PROVE HandShape'
  BY <1>12, <1>a DEF PcShape, HandShape, UserPcs, Threads, CheckFresh,
       CallUser
<1>13. ASSUME NEW w \in Workers, Create(w) PROVE HandShape'
  BY <1>13, <1>a DEF PcShape, HandShape, UserPcs, Threads, Create, CallUser
<1>14. ASSUME NEW w \in Workers, CreateFails(w) PROVE HandShape'
  BY <1>14, <1>a DEF PcShape, HandShape, UserPcs, Threads, CreateFails
<1>15. ASSUME NEW w \in Workers, Unreact(w) PROVE HandShape'
  BY <1>15, <1>a DEF PcShape, HandShape, UserPcs, Threads, Unreact
<1>16. ASSUME NEW w \in Workers, UserReturn(w) PROVE HandShape'
  BY <1>16, <1>a DEF PcShape, HandShape, UserPcs, Threads, UserReturn,
       ReturnTo
<1>17. ASSUME NEW w \in Workers, UserStarts(w) PROVE HandShape'
  BY <1>17, <1>a DEF PcShape, HandShape, UserPcs, Threads, UserStarts,
       CallUser
<1>18. ASSUME NEW w \in Workers, BatchStart(w) PROVE HandShape'
  BY <1>18, <1>a DEF PcShape, HandShape, UserPcs, Threads, BatchStart
<1>19. ASSUME NEW w \in Workers, UserThrow(w) PROVE HandShape'
  BY <1>19, <1>a DEF PcShape, HandShape, UserPcs, Threads, UserThrow, ThrowTo
<1>20. ASSUME NEW w \in Workers, PopFirst(w) PROVE HandShape'
  BY <1>20, <1>a, <1>b DEF PcShape, HandShape, UserPcs, Threads, PopFirst,
       GiveUp, PopPending
<1>21. ASSUME NEW w \in Workers, PopNext(w) PROVE HandShape'
  BY <1>21, <1>a, <1>b DEF PcShape, HandShape, UserPcs, Threads, PopNext,
       GiveUp, Preempt, PopPending, CallUser
<1>22. ASSUME NEW w \in Workers, PopSpin(w) PROVE HandShape'
  BY <1>22, <1>a, <1>b DEF PcShape, HandShape, UserPcs, Threads, PopSpin,
       GiveUp, PopPending
<1>23. ASSUME NEW w \in Workers, PopSample(w) PROVE HandShape'
  BY <1>23, <1>a, <1>b DEF PcShape, HandShape, UserPcs, Threads, PopSample,
       Preempt, PopPending, CallUser
<1>24. ASSUME NEW w \in Workers, Dequeue(w) PROVE HandShape'
  BY <1>24, <1>a DEF PcShape, HandShape, UserPcs, Threads, Dequeue, CallUser
<1>25. ASSUME NEW w \in Workers, DrainAgain(w) PROVE HandShape'
  BY <1>25, <1>a DEF PcShape, HandShape, UserPcs, Threads, DrainAgain, HasMore
<1>26. ASSUME NEW w \in Workers, DrainNext(w) PROVE HandShape'
  BY <1>26, <1>a DEF PcShape, HandShape, UserPcs, Threads, DrainNext, HasMore
<1>27. ASSUME NEW w \in Workers, DrainPreempted(w) PROVE HandShape'
  BY <1>27, <1>a DEF PcShape, HandShape, UserPcs, Threads, DrainPreempted,
       PreemptedAt, CallUser
<1>28. ASSUME NEW w \in Workers, CheckExit(w) PROVE HandShape'
  BY <1>28, <1>a DEF PcShape, HandShape, UserPcs, Threads, CheckExit,
       CheckTerminated, CallUser
<1>29. ASSUME NEW w \in Workers, Catch(w) PROVE HandShape'
  BY <1>29, <1>a DEF PcShape, HandShape, UserPcs, Threads, Catch, CallUser
<1>30. ASSUME NEW w \in Workers, CheckForced(w) PROVE HandShape'
  BY <1>30, <1>a DEF PcShape, HandShape, UserPcs, Threads, CheckForced,
       CheckTerminated, CallUser
<1>31. ASSUME NEW w \in Workers, Unregister(w) PROVE HandShape'
  BY <1>31, <1>a DEF PcShape, HandShape, UserPcs, Threads, Unregister
<1>32. ASSUME NEW w \in Workers, Release(w) PROVE HandShape'
  BY <1>32, <1>a DEF PcShape, HandShape, UserPcs, Threads, Release
<1>33. ASSUME NEW w \in Workers, Reschedule(w) PROVE HandShape'
  BY <1>33, <1>a DEF PcShape, HandShape, UserPcs, Threads, Reschedule
<1>34. CASE UNCHANGED vars
  BY <1>34, <1>a DEF PcShape, HandShape, UserPcs, Threads
<1> QED
  BY NextCases, <1>1, <1>2, <1>3, <1>4, <1>5, <1>6, <1>7, <1>8, <1>9, <1>10,
       <1>11, <1>12, <1>13, <1>14, <1>15, <1>16, <1>17, <1>18, <1>19, <1>20,
       <1>21, <1>22, <1>23, <1>24, <1>25, <1>26, <1>27, <1>28, <1>29, <1>30,
       <1>31, <1>32, <1>33, <1>34

-----------------------------------------------------------------------------
(* Who may execute the frame *)

\* Every step keeps one right to execute: it is created only by whoever
\* makes the frame active, and given up when the frame becomes inactive.
LEMMA OneTokenStep ==
  ASSUME TypeOK, PcShape, OneToken, Unspawned, [Next]_vars
  PROVE  OneToken'
<1> USE DEF At, Goto, frameVars, connVars, sendVars, drainVars, vars
<1>a. /\ pc \in [Threads -> Pcs] /\ stage \in [Threads -> Stages]
      /\ tasks \in Nat
  BY DEF TypeOK
<1>1. CASE SpawnOpenMain
  BY <1>1, <1>a, ThreadsAssumption DEF OneToken, Holds, PcShape, SpawnerPcs,
       SenderPcs, UserPcs, Threads, Unspawned, SpawnOpenMain, OpenConnector,
       NonDaemons
<1>2. CASE SpawnOpenSys
  BY <1>2, <1>a, ThreadsAssumption DEF OneToken, Holds, PcShape, SpawnerPcs,
       SenderPcs, UserPcs, Threads, SpawnOpenSys, OpenConnector, NonDaemons
<1>3. CASE SpawnActivate
  BY <1>3, <1>a, ThreadsAssumption DEF OneToken, Holds, PcShape, SpawnerPcs,
       SenderPcs, UserPcs, Threads, SpawnActivate
<1>4. ASSUME NEW t \in Threads, Schedule(t) PROVE OneToken'
  BY <1>4, <1>a, ThreadsAssumption DEF OneToken, Holds, PcShape, SpawnerPcs,
       SenderPcs, UserPcs, Threads, Schedule, Resume
<1>5. ASSUME NEW t \in Threads, SendEnqueue(t) PROVE OneToken'
  BY <1>5, <1>a, ThreadsAssumption DEF OneToken, Holds, PcShape, SpawnerPcs,
       SenderPcs, UserPcs, Threads, SendEnqueue, Resume
<1>6. ASSUME NEW t \in Threads, SendRegister(t) PROVE OneToken'
  BY <1>6, <1>a, ThreadsAssumption DEF OneToken, Holds, PcShape, SpawnerPcs,
       SenderPcs, UserPcs, Threads, SendRegister, Resume
<1>7. ASSUME NEW t \in Threads, NEW c \in Conns, NEW m \in Msgs, SendCheck(t, c, m)
      PROVE  OneToken'
  BY <1>7, <1>a, ThreadsAssumption DEF OneToken, Holds, PcShape, SpawnerPcs,
       SenderPcs, UserPcs, Threads, SendCheck
<1>8. ASSUME NEW w \in Workers, NEW c \in Conns, UserOpen(w, c)
      PROVE  OneToken'
  BY <1>8, <1>a, ThreadsAssumption DEF OneToken, Holds, PcShape, SpawnerPcs,
       SenderPcs, UserPcs, Threads, UserOpen, OpenConnector, NonDaemons
<1>9. ASSUME NEW w \in Workers, NEW c \in Conns, UserSeal(w, c)
      PROVE  OneToken'
  BY <1>9, <1>a, ThreadsAssumption DEF OneToken, Holds, PcShape, SpawnerPcs,
       SenderPcs, UserPcs, Threads, UserSeal, NonDaemons
<1>10. ASSUME NEW w \in Workers, TakeTask(w) PROVE OneToken'
  BY <1>10, <1>a, ThreadsAssumption DEF OneToken, Holds, PcShape, SpawnerPcs,
       SenderPcs, UserPcs, Threads, TakeTask
<1>11. ASSUME NEW w \in Workers, Enter(w) PROVE OneToken'
  BY <1>11, <1>a, ThreadsAssumption DEF OneToken, Holds, PcShape, SpawnerPcs,
       SenderPcs, UserPcs, Threads, Enter
<1>12. ASSUME NEW w \in Workers, CheckFresh(w) PROVE OneToken'
  BY <1>12, <1>a, ThreadsAssumption DEF OneToken, Holds, PcShape, SpawnerPcs,
       SenderPcs, UserPcs, Threads, CheckFresh, CallUser
<1>13. ASSUME NEW w \in Workers, Create(w) PROVE OneToken'
  BY <1>13, <1>a, ThreadsAssumption DEF OneToken, Holds, PcShape, SpawnerPcs,
       SenderPcs, UserPcs, Threads, Create, CallUser
<1>14. ASSUME NEW w \in Workers, CreateFails(w) PROVE OneToken'
  BY <1>14, <1>a, ThreadsAssumption DEF OneToken, Holds, PcShape, SpawnerPcs,
       SenderPcs, UserPcs, Threads, CreateFails
<1>15. ASSUME NEW w \in Workers, Unreact(w) PROVE OneToken'
  BY <1>15, <1>a, ThreadsAssumption DEF OneToken, Holds, PcShape, SpawnerPcs,
       SenderPcs, UserPcs, Threads, Unreact
<1>16. ASSUME NEW w \in Workers, UserReturn(w) PROVE OneToken'
  BY <1>16, <1>a, ThreadsAssumption DEF OneToken, Holds, PcShape, SpawnerPcs,
       SenderPcs, UserPcs, Threads, UserReturn, ReturnTo
<1>17. ASSUME NEW w \in Workers, UserStarts(w) PROVE OneToken'
  BY <1>17, <1>a, ThreadsAssumption DEF OneToken, Holds, PcShape, SpawnerPcs,
       SenderPcs, UserPcs, Threads, UserStarts, CallUser
<1>18. ASSUME NEW w \in Workers, BatchStart(w) PROVE OneToken'
  BY <1>18, <1>a, ThreadsAssumption DEF OneToken, Holds, PcShape, SpawnerPcs,
       SenderPcs, UserPcs, Threads, BatchStart
<1>19. ASSUME NEW w \in Workers, UserThrow(w) PROVE OneToken'
  BY <1>19, <1>a, ThreadsAssumption DEF OneToken, Holds, PcShape, SpawnerPcs,
       SenderPcs, UserPcs, Threads, UserThrow, ThrowTo
<1>20. ASSUME NEW w \in Workers, PopFirst(w) PROVE OneToken'
  BY <1>20, <1>a, ThreadsAssumption DEF OneToken, Holds, PcShape, SpawnerPcs,
       SenderPcs, UserPcs, Threads, PopFirst, GiveUp, PopPending
<1>21. ASSUME NEW w \in Workers, PopNext(w) PROVE OneToken'
  BY <1>21, <1>a, ThreadsAssumption DEF OneToken, Holds, PcShape, SpawnerPcs,
       SenderPcs, UserPcs, Threads, PopNext, GiveUp, Preempt, PopPending,
       CallUser
<1>22. ASSUME NEW w \in Workers, PopSpin(w) PROVE OneToken'
  BY <1>22, <1>a, ThreadsAssumption DEF OneToken, Holds, PcShape, SpawnerPcs,
       SenderPcs, UserPcs, Threads, PopSpin, GiveUp, PopPending
<1>23. ASSUME NEW w \in Workers, PopSample(w) PROVE OneToken'
  BY <1>23, <1>a, ThreadsAssumption DEF OneToken, Holds, PcShape, SpawnerPcs,
       SenderPcs, UserPcs, Threads, PopSample, Preempt, PopPending, CallUser
<1>24. ASSUME NEW w \in Workers, Dequeue(w) PROVE OneToken'
  BY <1>24, <1>a, ThreadsAssumption DEF OneToken, Holds, PcShape, SpawnerPcs,
       SenderPcs, UserPcs, Threads, Dequeue, CallUser
<1>25. ASSUME NEW w \in Workers, DrainAgain(w) PROVE OneToken'
  BY <1>25, <1>a, ThreadsAssumption DEF OneToken, Holds, PcShape, SpawnerPcs,
       SenderPcs, UserPcs, Threads, DrainAgain, HasMore
<1>26. ASSUME NEW w \in Workers, DrainNext(w) PROVE OneToken'
  BY <1>26, <1>a, ThreadsAssumption DEF OneToken, Holds, PcShape, SpawnerPcs,
       SenderPcs, UserPcs, Threads, DrainNext, HasMore
<1>27. ASSUME NEW w \in Workers, DrainPreempted(w) PROVE OneToken'
  BY <1>27, <1>a, ThreadsAssumption DEF OneToken, Holds, PcShape, SpawnerPcs,
       SenderPcs, UserPcs, Threads, DrainPreempted, PreemptedAt, CallUser
<1>28. ASSUME NEW w \in Workers, CheckExit(w) PROVE OneToken'
  BY <1>28, <1>a, ThreadsAssumption DEF OneToken, Holds, PcShape, SpawnerPcs,
       SenderPcs, UserPcs, Threads, CheckExit, CheckTerminated, CallUser
<1>29. ASSUME NEW w \in Workers, Catch(w) PROVE OneToken'
  BY <1>29, <1>a, ThreadsAssumption DEF OneToken, Holds, PcShape, SpawnerPcs,
       SenderPcs, UserPcs, Threads, Catch, CallUser
<1>30. ASSUME NEW w \in Workers, CheckForced(w) PROVE OneToken'
  BY <1>30, <1>a, ThreadsAssumption DEF OneToken, Holds, PcShape, SpawnerPcs,
       SenderPcs, UserPcs, Threads, CheckForced, CheckTerminated, CallUser
<1>31. ASSUME NEW w \in Workers, Unregister(w) PROVE OneToken'
  BY <1>31, <1>a, ThreadsAssumption DEF OneToken, Holds, PcShape, SpawnerPcs,
       SenderPcs, UserPcs, Threads, Unregister
<1>32. ASSUME NEW w \in Workers, Release(w) PROVE OneToken'
  BY <1>32, <1>a, ThreadsAssumption DEF OneToken, Holds, PcShape, SpawnerPcs,
       SenderPcs, UserPcs, Threads, Release
<1>33. ASSUME NEW w \in Workers, Reschedule(w) PROVE OneToken'
  BY <1>33, <1>a, ThreadsAssumption DEF OneToken, Holds, PcShape, SpawnerPcs,
       SenderPcs, UserPcs, Threads, Reschedule
<1>34. CASE UNCHANGED vars
  BY <1>34, <1>a, ThreadsAssumption DEF OneToken, Holds, PcShape, SpawnerPcs,
       SenderPcs, UserPcs, Threads
<1> QED
  BY NextCases, <1>1, <1>2, <1>3, <1>4, <1>5, <1>6, <1>7, <1>8, <1>9, <1>10,
       <1>11, <1>12, <1>13, <1>14, <1>15, <1>16, <1>17, <1>18, <1>19, <1>20,
       <1>21, <1>22, <1>23, <1>24, <1>25, <1>26, <1>27, <1>28, <1>29, <1>30,
       <1>31, <1>32, <1>33, <1>34

\* Every step keeps activeCount equal to the number of workers between
\* assertIsolated and its reset.
LEMMA IsolatedCountStep ==
  ASSUME TypeOK, PcShape, OneToken, IsolatedCount, [Next]_vars
  PROVE  IsolatedCount'
<1> USE DEF At, Goto, frameVars, connVars, sendVars, drainVars, vars
<1>a. /\ pc \in [Threads -> Pcs] /\ stage \in [Threads -> Stages]
      /\ activeCount \in {0, 1}
  BY DEF TypeOK
<1>1. CASE SpawnOpenMain
  BY <1>1, <1>a, ThreadsAssumption DEF IsolatedCount, Isolated, PcShape,
       SpawnerPcs, SenderPcs, UserPcs, OneToken, Holds, Threads,
       SpawnOpenMain, OpenConnector, NonDaemons
<1>2. CASE SpawnOpenSys
  BY <1>2, <1>a, ThreadsAssumption DEF IsolatedCount, Isolated, PcShape,
       SpawnerPcs, SenderPcs, UserPcs, OneToken, Holds, Threads, SpawnOpenSys,
       OpenConnector, NonDaemons
<1>3. CASE SpawnActivate
  BY <1>3, <1>a, ThreadsAssumption DEF IsolatedCount, Isolated, PcShape,
       SpawnerPcs, SenderPcs, UserPcs, OneToken, Holds, Threads, SpawnActivate
<1>4. ASSUME NEW t \in Threads, Schedule(t) PROVE IsolatedCount'
  BY <1>4, <1>a, ThreadsAssumption DEF IsolatedCount, Isolated, PcShape,
       SpawnerPcs, SenderPcs, UserPcs, OneToken, Holds, Threads, Schedule,
       Resume
<1>5. ASSUME NEW t \in Threads, SendEnqueue(t) PROVE IsolatedCount'
  BY <1>5, <1>a, ThreadsAssumption DEF IsolatedCount, Isolated, PcShape,
       SpawnerPcs, SenderPcs, UserPcs, OneToken, Holds, Threads, SendEnqueue,
       Resume
<1>6. ASSUME NEW t \in Threads, SendRegister(t) PROVE IsolatedCount'
  BY <1>6, <1>a, ThreadsAssumption DEF IsolatedCount, Isolated, PcShape,
       SpawnerPcs, SenderPcs, UserPcs, OneToken, Holds, Threads, SendRegister,
       Resume
<1>7. ASSUME NEW t \in Threads, NEW c \in Conns, NEW m \in Msgs, SendCheck(t, c, m)
      PROVE  IsolatedCount'
  BY <1>7, <1>a, ThreadsAssumption DEF IsolatedCount, Isolated, PcShape,
       SpawnerPcs, SenderPcs, UserPcs, OneToken, Holds, Threads, SendCheck
<1>8. ASSUME NEW w \in Workers, NEW c \in Conns, UserOpen(w, c)
      PROVE  IsolatedCount'
  BY <1>8, <1>a, ThreadsAssumption DEF IsolatedCount, Isolated, PcShape,
       SpawnerPcs, SenderPcs, UserPcs, OneToken, Holds, Threads, UserOpen,
       OpenConnector, NonDaemons
<1>9. ASSUME NEW w \in Workers, NEW c \in Conns, UserSeal(w, c)
      PROVE  IsolatedCount'
  BY <1>9, <1>a, ThreadsAssumption DEF IsolatedCount, Isolated, PcShape,
       SpawnerPcs, SenderPcs, UserPcs, OneToken, Holds, Threads, UserSeal,
       NonDaemons
<1>10. ASSUME NEW w \in Workers, TakeTask(w) PROVE IsolatedCount'
  BY <1>10, <1>a, ThreadsAssumption DEF IsolatedCount, Isolated, PcShape,
       SpawnerPcs, SenderPcs, UserPcs, OneToken, Holds, Threads, TakeTask
<1>11. ASSUME NEW w \in Workers, Enter(w) PROVE IsolatedCount'
  BY <1>11, <1>a, ThreadsAssumption DEF IsolatedCount, Isolated, PcShape,
       SpawnerPcs, SenderPcs, UserPcs, OneToken, Holds, Threads, Enter
<1>12. ASSUME NEW w \in Workers, CheckFresh(w) PROVE IsolatedCount'
  BY <1>12, <1>a, ThreadsAssumption DEF IsolatedCount, Isolated, PcShape,
       SpawnerPcs, SenderPcs, UserPcs, OneToken, Holds, Threads, CheckFresh,
       CallUser
<1>13. ASSUME NEW w \in Workers, Create(w) PROVE IsolatedCount'
  BY <1>13, <1>a, ThreadsAssumption DEF IsolatedCount, Isolated, PcShape,
       SpawnerPcs, SenderPcs, UserPcs, OneToken, Holds, Threads, Create,
       CallUser
<1>14. ASSUME NEW w \in Workers, CreateFails(w) PROVE IsolatedCount'
  BY <1>14, <1>a, ThreadsAssumption DEF IsolatedCount, Isolated, PcShape,
       SpawnerPcs, SenderPcs, UserPcs, OneToken, Holds, Threads, CreateFails
<1>15. ASSUME NEW w \in Workers, Unreact(w) PROVE IsolatedCount'
  BY <1>15, <1>a, ThreadsAssumption DEF IsolatedCount, Isolated, PcShape,
       SpawnerPcs, SenderPcs, UserPcs, OneToken, Holds, Threads, Unreact
<1>16. ASSUME NEW w \in Workers, UserReturn(w) PROVE IsolatedCount'
  BY <1>16, <1>a, ThreadsAssumption DEF IsolatedCount, Isolated, PcShape,
       SpawnerPcs, SenderPcs, UserPcs, OneToken, Holds, Threads, UserReturn,
       ReturnTo
<1>17. ASSUME NEW w \in Workers, UserStarts(w) PROVE IsolatedCount'
  BY <1>17, <1>a, ThreadsAssumption DEF IsolatedCount, Isolated, PcShape,
       SpawnerPcs, SenderPcs, UserPcs, OneToken, Holds, Threads, UserStarts,
       CallUser
<1>18. ASSUME NEW w \in Workers, BatchStart(w) PROVE IsolatedCount'
  BY <1>18, <1>a, ThreadsAssumption DEF IsolatedCount, Isolated, PcShape,
       SpawnerPcs, SenderPcs, UserPcs, OneToken, Holds, Threads, BatchStart
<1>19. ASSUME NEW w \in Workers, UserThrow(w) PROVE IsolatedCount'
  BY <1>19, <1>a, ThreadsAssumption DEF IsolatedCount, Isolated, PcShape,
       SpawnerPcs, SenderPcs, UserPcs, OneToken, Holds, Threads, UserThrow,
       ThrowTo
<1>20. ASSUME NEW w \in Workers, PopFirst(w) PROVE IsolatedCount'
  BY <1>20, <1>a, ThreadsAssumption DEF IsolatedCount, Isolated, PcShape,
       SpawnerPcs, SenderPcs, UserPcs, OneToken, Holds, Threads, PopFirst,
       GiveUp, PopPending
<1>21. ASSUME NEW w \in Workers, PopNext(w) PROVE IsolatedCount'
  BY <1>21, <1>a, ThreadsAssumption DEF IsolatedCount, Isolated, PcShape,
       SpawnerPcs, SenderPcs, UserPcs, OneToken, Holds, Threads, PopNext,
       GiveUp, Preempt, PopPending, CallUser
<1>22. ASSUME NEW w \in Workers, PopSpin(w) PROVE IsolatedCount'
  BY <1>22, <1>a, ThreadsAssumption DEF IsolatedCount, Isolated, PcShape,
       SpawnerPcs, SenderPcs, UserPcs, OneToken, Holds, Threads, PopSpin,
       GiveUp, PopPending
<1>23. ASSUME NEW w \in Workers, PopSample(w) PROVE IsolatedCount'
  BY <1>23, <1>a, ThreadsAssumption DEF IsolatedCount, Isolated, PcShape,
       SpawnerPcs, SenderPcs, UserPcs, OneToken, Holds, Threads, PopSample,
       Preempt, PopPending, CallUser
<1>24. ASSUME NEW w \in Workers, Dequeue(w) PROVE IsolatedCount'
  BY <1>24, <1>a, ThreadsAssumption DEF IsolatedCount, Isolated, PcShape,
       SpawnerPcs, SenderPcs, UserPcs, OneToken, Holds, Threads, Dequeue,
       CallUser
<1>25. ASSUME NEW w \in Workers, DrainAgain(w) PROVE IsolatedCount'
  BY <1>25, <1>a, ThreadsAssumption DEF IsolatedCount, Isolated, PcShape,
       SpawnerPcs, SenderPcs, UserPcs, OneToken, Holds, Threads, DrainAgain,
       HasMore
<1>26. ASSUME NEW w \in Workers, DrainNext(w) PROVE IsolatedCount'
  BY <1>26, <1>a, ThreadsAssumption DEF IsolatedCount, Isolated, PcShape,
       SpawnerPcs, SenderPcs, UserPcs, OneToken, Holds, Threads, DrainNext,
       HasMore
<1>27. ASSUME NEW w \in Workers, DrainPreempted(w) PROVE IsolatedCount'
  BY <1>27, <1>a, ThreadsAssumption DEF IsolatedCount, Isolated, PcShape,
       SpawnerPcs, SenderPcs, UserPcs, OneToken, Holds, Threads,
       DrainPreempted, PreemptedAt, CallUser
<1>28. ASSUME NEW w \in Workers, CheckExit(w) PROVE IsolatedCount'
  BY <1>28, <1>a, ThreadsAssumption DEF IsolatedCount, Isolated, PcShape,
       SpawnerPcs, SenderPcs, UserPcs, OneToken, Holds, Threads, CheckExit,
       CheckTerminated, CallUser
<1>29. ASSUME NEW w \in Workers, Catch(w) PROVE IsolatedCount'
  BY <1>29, <1>a, ThreadsAssumption DEF IsolatedCount, Isolated, PcShape,
       SpawnerPcs, SenderPcs, UserPcs, OneToken, Holds, Threads, Catch,
       CallUser
<1>30. ASSUME NEW w \in Workers, CheckForced(w) PROVE IsolatedCount'
  BY <1>30, <1>a, ThreadsAssumption DEF IsolatedCount, Isolated, PcShape,
       SpawnerPcs, SenderPcs, UserPcs, OneToken, Holds, Threads, CheckForced,
       CheckTerminated, CallUser
<1>31. ASSUME NEW w \in Workers, Unregister(w) PROVE IsolatedCount'
  BY <1>31, <1>a, ThreadsAssumption DEF IsolatedCount, Isolated, PcShape,
       SpawnerPcs, SenderPcs, UserPcs, OneToken, Holds, Threads, Unregister
<1>32. ASSUME NEW w \in Workers, Release(w) PROVE IsolatedCount'
  BY <1>32, <1>a, ThreadsAssumption DEF IsolatedCount, Isolated, PcShape,
       SpawnerPcs, SenderPcs, UserPcs, OneToken, Holds, Threads, Release
<1>33. ASSUME NEW w \in Workers, Reschedule(w) PROVE IsolatedCount'
  BY <1>33, <1>a, ThreadsAssumption DEF IsolatedCount, Isolated, PcShape,
       SpawnerPcs, SenderPcs, UserPcs, OneToken, Holds, Threads, Reschedule
<1>34. CASE UNCHANGED vars
  BY <1>34, <1>a, ThreadsAssumption DEF IsolatedCount, Isolated, PcShape,
       SpawnerPcs, SenderPcs, UserPcs, OneToken, Holds, Threads
<1> QED
  BY NextCases, <1>1, <1>2, <1>3, <1>4, <1>5, <1>6, <1>7, <1>8, <1>9, <1>10,
       <1>11, <1>12, <1>13, <1>14, <1>15, <1>16, <1>17, <1>18, <1>19, <1>20,
       <1>21, <1>22, <1>23, <1>24, <1>25, <1>26, <1>27, <1>28, <1>29, <1>30,
       <1>31, <1>32, <1>33, <1>34

\* Every step keeps a living frame with pending queues active: registering
\* activates it, and a worker resets the flag only when it saw no pending
\* queue.
LEMMA PendingActiveStep ==
  ASSUME TypeOK, PcShape, OneToken, PendingActive, [Next]_vars
  PROVE  PendingActive'
<1> USE DEF At, Goto, frameVars, connVars, sendVars, drainVars, vars
<1>a. /\ pc \in [Threads -> Pcs] /\ stage \in [Threads -> Stages]
      /\ pending \in Seq(Conns)
      /\ conn \in [Conns -> {"absent", "open", "closing", "sealed"}]
  BY DEF TypeOK
<1>1. CASE SpawnOpenMain
  BY <1>1, <1>a, ThreadsAssumption DEF PendingActive, OneToken, Holds,
       Threads, SpawnOpenMain, OpenConnector, NonDaemons
<1>2. CASE SpawnOpenSys
  BY <1>2, <1>a, ThreadsAssumption DEF PendingActive, OneToken, Holds,
       Threads, SpawnOpenSys, OpenConnector, NonDaemons
<1>3. CASE SpawnActivate
  BY <1>3, <1>a, ThreadsAssumption DEF PendingActive, OneToken, Holds,
       Threads, SpawnActivate
<1>4. ASSUME NEW t \in Threads, Schedule(t) PROVE PendingActive'
  BY <1>4, <1>a, ThreadsAssumption DEF PendingActive, OneToken, Holds,
       Threads, Schedule, Resume
<1>5. ASSUME NEW t \in Threads, SendEnqueue(t) PROVE PendingActive'
  BY <1>5, <1>a, ThreadsAssumption DEF PendingActive, OneToken, Holds,
       Threads, SendEnqueue, Resume
<1>6. ASSUME NEW t \in Threads, SendRegister(t) PROVE PendingActive'
  BY <1>6, <1>a, ThreadsAssumption DEF PendingActive, OneToken, Holds,
       Threads, SendRegister, Resume
<1>7. ASSUME NEW t \in Threads, NEW c \in Conns, NEW m \in Msgs, SendCheck(t, c, m)
      PROVE  PendingActive'
  BY <1>7, <1>a, ThreadsAssumption DEF PendingActive, OneToken, Holds,
       Threads, SendCheck
<1>8. ASSUME NEW w \in Workers, NEW c \in Conns, UserOpen(w, c)
      PROVE  PendingActive'
  BY <1>8, <1>a, ThreadsAssumption DEF PendingActive, OneToken, Holds,
       Threads, UserOpen, OpenConnector, NonDaemons
<1>9. ASSUME NEW w \in Workers, NEW c \in Conns, UserSeal(w, c)
      PROVE  PendingActive'
  BY <1>9, <1>a, ThreadsAssumption DEF PendingActive, OneToken, Holds,
       Threads, UserSeal, NonDaemons
<1>10. ASSUME NEW w \in Workers, TakeTask(w) PROVE PendingActive'
  BY <1>10, <1>a, ThreadsAssumption DEF PendingActive, OneToken, Holds,
       Threads, TakeTask
<1>11. ASSUME NEW w \in Workers, Enter(w) PROVE PendingActive'
  BY <1>11, <1>a, ThreadsAssumption DEF PendingActive, OneToken, Holds,
       Threads, Enter
<1>12. ASSUME NEW w \in Workers, CheckFresh(w) PROVE PendingActive'
  BY <1>12, <1>a, ThreadsAssumption DEF PendingActive, OneToken, Holds,
       Threads, CheckFresh, CallUser
<1>13. ASSUME NEW w \in Workers, Create(w) PROVE PendingActive'
  BY <1>13, <1>a, ThreadsAssumption DEF PendingActive, OneToken, Holds,
       Threads, Create, CallUser
<1>14. ASSUME NEW w \in Workers, CreateFails(w) PROVE PendingActive'
  BY <1>14, <1>a, ThreadsAssumption DEF PendingActive, OneToken, Holds,
       Threads, CreateFails
<1>15. ASSUME NEW w \in Workers, Unreact(w) PROVE PendingActive'
  BY <1>15, <1>a, ThreadsAssumption DEF PendingActive, OneToken, Holds,
       Threads, Unreact
<1>16. ASSUME NEW w \in Workers, UserReturn(w) PROVE PendingActive'
  BY <1>16, <1>a, ThreadsAssumption DEF PendingActive, OneToken, Holds,
       Threads, UserReturn, ReturnTo
<1>17. ASSUME NEW w \in Workers, UserStarts(w) PROVE PendingActive'
  BY <1>17, <1>a, ThreadsAssumption DEF PendingActive, OneToken, Holds,
       Threads, UserStarts, CallUser
<1>18. ASSUME NEW w \in Workers, BatchStart(w) PROVE PendingActive'
  BY <1>18, <1>a, ThreadsAssumption DEF PendingActive, OneToken, Holds,
       Threads, BatchStart
<1>19. ASSUME NEW w \in Workers, UserThrow(w) PROVE PendingActive'
  BY <1>19, <1>a, ThreadsAssumption DEF PendingActive, OneToken, Holds,
       Threads, UserThrow, ThrowTo
<1>20. ASSUME NEW w \in Workers, PopFirst(w) PROVE PendingActive'
  BY <1>20, <1>a, ThreadsAssumption DEF PendingActive, OneToken, Holds,
       Threads, PopFirst, GiveUp, PopPending
<1>21. ASSUME NEW w \in Workers, PopNext(w) PROVE PendingActive'
  BY <1>21, <1>a, ThreadsAssumption DEF PendingActive, OneToken, Holds,
       Threads, PopNext, GiveUp, Preempt, PopPending, CallUser
<1>22. ASSUME NEW w \in Workers, PopSpin(w) PROVE PendingActive'
  BY <1>22, <1>a, ThreadsAssumption DEF PendingActive, OneToken, Holds,
       Threads, PopSpin, GiveUp, PopPending
<1>23. ASSUME NEW w \in Workers, PopSample(w) PROVE PendingActive'
  BY <1>23, <1>a, ThreadsAssumption DEF PendingActive, OneToken, Holds,
       Threads, PopSample, Preempt, PopPending, CallUser
<1>24. ASSUME NEW w \in Workers, Dequeue(w) PROVE PendingActive'
  BY <1>24, <1>a, ThreadsAssumption DEF PendingActive, OneToken, Holds,
       Threads, Dequeue, CallUser
<1>25. ASSUME NEW w \in Workers, DrainAgain(w) PROVE PendingActive'
  BY <1>25, <1>a, ThreadsAssumption DEF PendingActive, OneToken, Holds,
       Threads, DrainAgain, HasMore
<1>26. ASSUME NEW w \in Workers, DrainNext(w) PROVE PendingActive'
  BY <1>26, <1>a, ThreadsAssumption DEF PendingActive, OneToken, Holds,
       Threads, DrainNext, HasMore
<1>27. ASSUME NEW w \in Workers, DrainPreempted(w) PROVE PendingActive'
  BY <1>27, <1>a, ThreadsAssumption DEF PendingActive, OneToken, Holds,
       Threads, DrainPreempted, PreemptedAt, CallUser
<1>28. ASSUME NEW w \in Workers, CheckExit(w) PROVE PendingActive'
  BY <1>28, <1>a, ThreadsAssumption DEF PendingActive, OneToken, Holds,
       Threads, CheckExit, CheckTerminated, CallUser
<1>29. ASSUME NEW w \in Workers, Catch(w) PROVE PendingActive'
  BY <1>29, <1>a, ThreadsAssumption DEF PendingActive, OneToken, Holds,
       Threads, Catch, CallUser
<1>30. ASSUME NEW w \in Workers, CheckForced(w) PROVE PendingActive'
  BY <1>30, <1>a, ThreadsAssumption DEF PendingActive, OneToken, Holds,
       Threads, CheckForced, CheckTerminated, CallUser
<1>31. ASSUME NEW w \in Workers, Unregister(w) PROVE PendingActive'
  BY <1>31, <1>a, ThreadsAssumption DEF PendingActive, OneToken, Holds,
       Threads, Unregister
<1>32. ASSUME NEW w \in Workers, Release(w) PROVE PendingActive'
  BY <1>32, <1>a, ThreadsAssumption DEF PendingActive, OneToken, Holds,
       Threads, Release
<1>33. ASSUME NEW w \in Workers, Reschedule(w) PROVE PendingActive'
  BY <1>33, <1>a, ThreadsAssumption DEF PendingActive, OneToken, Holds,
       Threads, Reschedule
<1>34. CASE UNCHANGED vars
  BY <1>34, <1>a, ThreadsAssumption DEF PendingActive, OneToken, Holds,
       Threads
<1> QED
  BY NextCases, <1>1, <1>2, <1>3, <1>4, <1>5, <1>6, <1>7, <1>8, <1>9, <1>10,
       <1>11, <1>12, <1>13, <1>14, <1>15, <1>16, <1>17, <1>18, <1>19, <1>20,
       <1>21, <1>22, <1>23, <1>24, <1>25, <1>26, <1>27, <1>28, <1>29, <1>30,
       <1>31, <1>32, <1>33, <1>34

\* Nobody acts on the frame before the spawner has opened its default
\* connector.
LEMMA UnspawnedStep ==
  ASSUME TypeOK, PcShape, OneToken, Unspawned, [Next]_vars
  PROVE  Unspawned'
<1> USE DEF At, Goto, frameVars, connVars, sendVars, drainVars, vars
<1>a. /\ pc \in [Threads -> Pcs] /\ stage \in [Threads -> Stages]
      /\ pending \in Seq(Conns)
      /\ conn \in [Conns -> {"absent", "open", "closing", "sealed"}]
  BY DEF TypeOK
<1>1. CASE SpawnOpenMain
  BY <1>1, <1>a, ThreadsAssumption DEF Unspawned, OneToken, Holds, PcShape,
       SpawnerPcs, Threads, SpawnOpenMain, OpenConnector, NonDaemons
<1>2. CASE SpawnOpenSys
  BY <1>2, <1>a, ThreadsAssumption DEF Unspawned, OneToken, Holds, PcShape,
       SpawnerPcs, Threads, SpawnOpenSys, OpenConnector, NonDaemons
<1>3. CASE SpawnActivate
  BY <1>3, <1>a, ThreadsAssumption DEF Unspawned, OneToken, Holds, PcShape,
       SpawnerPcs, Threads, SpawnActivate
<1>4. ASSUME NEW t \in Threads, Schedule(t) PROVE Unspawned'
  BY <1>4, <1>a, ThreadsAssumption DEF Unspawned, OneToken, Holds, PcShape,
       SpawnerPcs, Threads, Schedule, Resume
<1>5. ASSUME NEW t \in Threads, SendEnqueue(t) PROVE Unspawned'
  BY <1>5, <1>a, ThreadsAssumption DEF Unspawned, OneToken, Holds, PcShape,
       SpawnerPcs, Threads, SendEnqueue, Resume
<1>6. ASSUME NEW t \in Threads, SendRegister(t) PROVE Unspawned'
  BY <1>6, <1>a, ThreadsAssumption DEF Unspawned, OneToken, Holds, PcShape,
       SpawnerPcs, Threads, SendRegister, Resume
<1>7. ASSUME NEW t \in Threads, NEW c \in Conns, NEW m \in Msgs, SendCheck(t, c, m)
      PROVE  Unspawned'
  BY <1>7, <1>a, ThreadsAssumption DEF Unspawned, OneToken, Holds, PcShape,
       SpawnerPcs, Threads, SendCheck
<1>8. ASSUME NEW w \in Workers, NEW c \in Conns, UserOpen(w, c)
      PROVE  Unspawned'
  BY <1>8, <1>a, ThreadsAssumption DEF Unspawned, OneToken, Holds, PcShape,
       SpawnerPcs, Threads, UserOpen, OpenConnector, NonDaemons
<1>9. ASSUME NEW w \in Workers, NEW c \in Conns, UserSeal(w, c)
      PROVE  Unspawned'
  BY <1>9, <1>a, ThreadsAssumption DEF Unspawned, OneToken, Holds, PcShape,
       SpawnerPcs, Threads, UserSeal, NonDaemons
<1>10. ASSUME NEW w \in Workers, TakeTask(w) PROVE Unspawned'
  BY <1>10, <1>a, ThreadsAssumption DEF Unspawned, OneToken, Holds, PcShape,
       SpawnerPcs, Threads, TakeTask
<1>11. ASSUME NEW w \in Workers, Enter(w) PROVE Unspawned'
  BY <1>11, <1>a, ThreadsAssumption DEF Unspawned, OneToken, Holds, PcShape,
       SpawnerPcs, Threads, Enter
<1>12. ASSUME NEW w \in Workers, CheckFresh(w) PROVE Unspawned'
  BY <1>12, <1>a, ThreadsAssumption DEF Unspawned, OneToken, Holds, PcShape,
       SpawnerPcs, Threads, CheckFresh, CallUser
<1>13. ASSUME NEW w \in Workers, Create(w) PROVE Unspawned'
  BY <1>13, <1>a, ThreadsAssumption DEF Unspawned, OneToken, Holds, PcShape,
       SpawnerPcs, Threads, Create, CallUser
<1>14. ASSUME NEW w \in Workers, CreateFails(w) PROVE Unspawned'
  BY <1>14, <1>a, ThreadsAssumption DEF Unspawned, OneToken, Holds, PcShape,
       SpawnerPcs, Threads, CreateFails
<1>15. ASSUME NEW w \in Workers, Unreact(w) PROVE Unspawned'
  BY <1>15, <1>a, ThreadsAssumption DEF Unspawned, OneToken, Holds, PcShape,
       SpawnerPcs, Threads, Unreact
<1>16. ASSUME NEW w \in Workers, UserReturn(w) PROVE Unspawned'
  BY <1>16, <1>a, ThreadsAssumption DEF Unspawned, OneToken, Holds, PcShape,
       SpawnerPcs, Threads, UserReturn, ReturnTo
<1>17. ASSUME NEW w \in Workers, UserStarts(w) PROVE Unspawned'
  BY <1>17, <1>a, ThreadsAssumption DEF Unspawned, OneToken, Holds, PcShape,
       SpawnerPcs, Threads, UserStarts, CallUser
<1>18. ASSUME NEW w \in Workers, BatchStart(w) PROVE Unspawned'
  BY <1>18, <1>a, ThreadsAssumption DEF Unspawned, OneToken, Holds, PcShape,
       SpawnerPcs, Threads, BatchStart
<1>19. ASSUME NEW w \in Workers, UserThrow(w) PROVE Unspawned'
  BY <1>19, <1>a, ThreadsAssumption DEF Unspawned, OneToken, Holds, PcShape,
       SpawnerPcs, Threads, UserThrow, ThrowTo
<1>20. ASSUME NEW w \in Workers, PopFirst(w) PROVE Unspawned'
  BY <1>20, <1>a, ThreadsAssumption DEF Unspawned, OneToken, Holds, PcShape,
       SpawnerPcs, Threads, PopFirst, GiveUp, PopPending
<1>21. ASSUME NEW w \in Workers, PopNext(w) PROVE Unspawned'
  BY <1>21, <1>a, ThreadsAssumption DEF Unspawned, OneToken, Holds, PcShape,
       SpawnerPcs, Threads, PopNext, GiveUp, Preempt, PopPending, CallUser
<1>22. ASSUME NEW w \in Workers, PopSpin(w) PROVE Unspawned'
  BY <1>22, <1>a, ThreadsAssumption DEF Unspawned, OneToken, Holds, PcShape,
       SpawnerPcs, Threads, PopSpin, GiveUp, PopPending
<1>23. ASSUME NEW w \in Workers, PopSample(w) PROVE Unspawned'
  BY <1>23, <1>a, ThreadsAssumption DEF Unspawned, OneToken, Holds, PcShape,
       SpawnerPcs, Threads, PopSample, Preempt, PopPending, CallUser
<1>24. ASSUME NEW w \in Workers, Dequeue(w) PROVE Unspawned'
  BY <1>24, <1>a, ThreadsAssumption DEF Unspawned, OneToken, Holds, PcShape,
       SpawnerPcs, Threads, Dequeue, CallUser
<1>25. ASSUME NEW w \in Workers, DrainAgain(w) PROVE Unspawned'
  BY <1>25, <1>a, ThreadsAssumption DEF Unspawned, OneToken, Holds, PcShape,
       SpawnerPcs, Threads, DrainAgain, HasMore
<1>26. ASSUME NEW w \in Workers, DrainNext(w) PROVE Unspawned'
  BY <1>26, <1>a, ThreadsAssumption DEF Unspawned, OneToken, Holds, PcShape,
       SpawnerPcs, Threads, DrainNext, HasMore
<1>27. ASSUME NEW w \in Workers, DrainPreempted(w) PROVE Unspawned'
  BY <1>27, <1>a, ThreadsAssumption DEF Unspawned, OneToken, Holds, PcShape,
       SpawnerPcs, Threads, DrainPreempted, PreemptedAt, CallUser
<1>28. ASSUME NEW w \in Workers, CheckExit(w) PROVE Unspawned'
  BY <1>28, <1>a, ThreadsAssumption DEF Unspawned, OneToken, Holds, PcShape,
       SpawnerPcs, Threads, CheckExit, CheckTerminated, CallUser
<1>29. ASSUME NEW w \in Workers, Catch(w) PROVE Unspawned'
  BY <1>29, <1>a, ThreadsAssumption DEF Unspawned, OneToken, Holds, PcShape,
       SpawnerPcs, Threads, Catch, CallUser
<1>30. ASSUME NEW w \in Workers, CheckForced(w) PROVE Unspawned'
  BY <1>30, <1>a, ThreadsAssumption DEF Unspawned, OneToken, Holds, PcShape,
       SpawnerPcs, Threads, CheckForced, CheckTerminated, CallUser
<1>31. ASSUME NEW w \in Workers, Unregister(w) PROVE Unspawned'
  BY <1>31, <1>a, ThreadsAssumption DEF Unspawned, OneToken, Holds, PcShape,
       SpawnerPcs, Threads, Unregister
<1>32. ASSUME NEW w \in Workers, Release(w) PROVE Unspawned'
  BY <1>32, <1>a, ThreadsAssumption DEF Unspawned, OneToken, Holds, PcShape,
       SpawnerPcs, Threads, Release
<1>33. ASSUME NEW w \in Workers, Reschedule(w) PROVE Unspawned'
  BY <1>33, <1>a, ThreadsAssumption DEF Unspawned, OneToken, Holds, PcShape,
       SpawnerPcs, Threads, Reschedule
<1>34. CASE UNCHANGED vars
  BY <1>34, <1>a, ThreadsAssumption DEF Unspawned, OneToken, Holds, PcShape,
       SpawnerPcs, Threads
<1> QED
  BY NextCases, <1>1, <1>2, <1>3, <1>4, <1>5, <1>6, <1>7, <1>8, <1>9, <1>10,
       <1>11, <1>12, <1>13, <1>14, <1>15, <1>16, <1>17, <1>18, <1>19, <1>20,
       <1>21, <1>22, <1>23, <1>24, <1>25, <1>26, <1>27, <1>28, <1>29, <1>30,
       <1>31, <1>32, <1>33, <1>34

-----------------------------------------------------------------------------
(* Who is committed to dequeue from which connector *)

\* The rings' enqueue and dequeue, element by element.
LEMMA AppendElements ==
  ASSUME NEW S, NEW q \in Seq(S), NEW x \in S
  PROVE  /\ Append(q, x) \in Seq(S)
         /\ Len(Append(q, x)) = Len(q) + 1
         /\ Append(q, x) # <<>>
         /\ \A i \in 1 .. Len(q) : Append(q, x)[i] = q[i]
         /\ Append(q, x)[Len(q) + 1] = x
OBVIOUS

\* What the tail of a queue holds, and when it is not empty.
LEMMA TailElements ==
  ASSUME NEW S, NEW q \in Seq(S), q # <<>>
  PROVE  /\ Len(q) \in Nat \ {0} /\ Len(Tail(q)) = Len(q) - 1
         /\ Head(q) = q[1]
         /\ \A i \in 1 .. Len(q) - 1 : Tail(q)[i] = q[i + 1]
         /\ Len(q) - 1 > 0 => Tail(q) # <<>>
<1>1. Len(q) \in Nat \ {0} /\ Len(Tail(q)) = Len(q) - 1
  OBVIOUS
<1>2. \A i \in 1 .. Len(q) - 1 : Tail(q)[i] = q[i + 1]
  OBVIOUS
<1>3. Len(q) - 1 > 0 => Tail(q) # <<>>
  BY <1>1
<1> QED
  BY <1>1, <1>2, <1>3


\* Only the worker that executes the frame drains.
LEMMA SoleDrainer ==
  ASSUME TypeOK, PcShape, HandShape, OneToken,
         NEW v \in Workers, NEW w \in Workers, ~At(w, "idle"), v # w
  PROVE  At(v, "idle") /\ stage[v] = "none" /\ remaining[v] = 0 /\ ~Drains(v)
<1>1. At(v, "idle")
  BY DEF OneToken, Holds, Threads
<1>2. stage[v] = "none"
  BY <1>1 DEF PcShape, UserPcs, At
<1>3. remaining[v] = 0
  <2>1. remaining[v] \in Nat
    BY DEF TypeOK
  <2>2. ~At(v, "drain") /\ stage[v] # "deliver"
    BY <1>1, <1>2 DEF At
  <2> QED
    BY <2>1, <2>2 DEF HandShape
<1> QED
  BY <1>1, <1>2, <1>3 DEF Drains, At

\* Polling moves the first claim of pendingQueues to the worker.
LEMMA PopClaims ==
  ASSUME TypeOK, PcShape, HandShape, OneToken, ClaimsDisjoint, ClaimsNonEmpty,
         NEW w \in Workers, PopPending(w),
         pc[w] \in {"first", "next", "spin", "sample"}
  PROVE  ClaimsDisjoint' /\ ClaimsNonEmpty'
<1>1. /\ pending # <<>> /\ hand' = [hand EXCEPT ![w] = Head(pending)]
      /\ pending' = Tail(pending) /\ pc' = [pc EXCEPT ![w] = "dequeue"]
      /\ queue' = queue /\ target' = target /\ remaining' = remaining
  BY DEF PopPending, Goto, connVars, sendVars
<1>2. pending \in Seq(Conns) /\ pc \in [Threads -> Pcs]
      /\ hand \in [Workers -> Conns \cup {Null}] /\ Workers \subseteq Threads
  BY DEF TypeOK, Threads
<1>3. Len(pending) \in Nat \ {0} /\ 1 \in 1 .. Len(pending)
      /\ hand'[w] = pending[1]
  BY <1>1, <1>2, TailElements
<1>4. \A i \in 1 .. Len(pending') :
        /\ i \in 1 .. Len(pending) - 1 /\ i + 1 \in 1 .. Len(pending)
        /\ pending'[i] = pending[i + 1]
  BY <1>1, <1>2, <1>3, TailElements
<1>5. \A v \in Workers : Drains(v)' => v = w
  <2> SUFFICES ASSUME NEW v \in Workers, v # w PROVE ~Drains(v)'
    OBVIOUS
  <2>1. ~Drains(v)
    BY SoleDrainer DEF At
  <2> QED
    BY <1>1, <1>2, <2>1 DEF Drains, At
<1>6. \A t \in Threads : At(t, "enqueued")' => At(t, "enqueued")
  BY <1>1, <1>2 DEF At
<1>7. \A i, j \in 1 .. Len(pending') : pending'[i] = pending'[j] => i = j
  BY <1>4 DEF ClaimsDisjoint
<1>8. \A i \in 1 .. Len(pending'), v \in Workers :
        Drains(v)' => hand'[v] # pending'[i]
  BY <1>3, <1>4, <1>5 DEF ClaimsDisjoint
<1>9. \A i \in 1 .. Len(pending'), t \in Threads :
        At(t, "enqueued")' => target'[t] # pending'[i]
  BY <1>1, <1>4, <1>6 DEF ClaimsDisjoint
<1>10. \A v \in Workers, t \in Threads :
         Drains(v)' /\ At(t, "enqueued")' => hand'[v] # target'[t]
  BY <1>1, <1>3, <1>5, <1>6 DEF ClaimsDisjoint
<1>11. ClaimsDisjoint'
  BY <1>1, <1>6, <1>7, <1>8, <1>9, <1>10 DEF ClaimsDisjoint
<1>12. ClaimsNonEmpty'
  BY <1>1, <1>3, <1>4, <1>5, <1>6 DEF ClaimsNonEmpty
<1> QED
  BY <1>11, <1>12


\* Every step keeps the claims of a connector from overlapping: a send
\* claims it only when its queue was empty, and only one worker drains.
LEMMA ClaimsDisjointStep ==
  ASSUME TypeOK, PcShape, TargetShape, HandShape, OneToken, ClaimsDisjoint, ClaimsNonEmpty, [Next]_vars
  PROVE  ClaimsDisjoint'
<1> USE DEF At, Goto, frameVars, connVars, sendVars, drainVars, vars
<1>a. /\ pc \in [Threads -> Pcs] /\ stage \in [Threads -> Stages]
      /\ target \in [Threads -> Conns \cup {Null}]
      /\ hand \in [Workers -> Conns \cup {Null}]
      /\ remaining \in [Workers -> Nat]
      /\ Len(pending) \in Nat
  BY DEF TypeOK
<1>1. CASE SpawnOpenMain
  BY <1>1, <1>a, ThreadsAssumption DEF ClaimsDisjoint, Drains, PcShape,
       UserPcs, HandShape, Threads, SpawnOpenMain, OpenConnector, NonDaemons
<1>2. CASE SpawnOpenSys
  BY <1>2, <1>a, ThreadsAssumption DEF ClaimsDisjoint, Drains, PcShape,
       UserPcs, HandShape, Threads, SpawnOpenSys, OpenConnector, NonDaemons
<1>3. CASE SpawnActivate
  BY <1>3, <1>a, ThreadsAssumption DEF ClaimsDisjoint, Drains, PcShape,
       UserPcs, HandShape, Threads, SpawnActivate
<1>4. ASSUME NEW t \in Threads, Schedule(t) PROVE ClaimsDisjoint'
  BY <1>4, <1>a, ThreadsAssumption DEF ClaimsDisjoint, Drains, PcShape,
       UserPcs, HandShape, Threads, Schedule, Resume
<1>5. ASSUME NEW t \in Threads, SendEnqueue(t) PROVE ClaimsDisjoint'
  <2>1. CASE queue[target[t]] = <<>>
    <3>1. /\ \A i \in 1 .. Len(pending) : pending[i] # target[t]
          /\ \A w \in Workers : Drains(w) => hand[w] # target[t]
          /\ \A u \in Threads : At(u, "enqueued") => target[u] # target[t]
      BY <2>1 DEF ClaimsNonEmpty
    <3>2. /\ pc' = [pc EXCEPT ![t] = "enqueued"] /\ target' = target
          /\ pending' = pending /\ hand' = hand /\ remaining' = remaining
          /\ pc[t] = "checked"
      BY <1>5, <2>1 DEF SendEnqueue, Goto, At, frameVars, drainVars
    <3>3. \A u \in Threads : At(u, "enqueued")' => u = t \/ At(u, "enqueued")
      BY <3>2, <1>a DEF At
    <3>4. \A w \in Workers : Drains(w)' => Drains(w)
      BY <3>2, <1>a DEF Drains, At, Threads
    <3> QED
      BY <3>1, <3>2, <3>3, <3>4 DEF ClaimsDisjoint
  <2>2. CASE queue[target[t]] # <<>>
    BY <1>5, <2>2, <1>a DEF ClaimsDisjoint, Drains, Threads, At, SendEnqueue,
       Goto, Resume, frameVars, drainVars
  <2> QED
    BY <2>1, <2>2
<1>6. ASSUME NEW t \in Threads, SendRegister(t) PROVE ClaimsDisjoint'
  <2>1. target[t] \in Conns /\ pending \in Seq(Conns)
    BY <1>6 DEF TargetShape, TypeOK, SendRegister, At
  <2>2. /\ pending' = Append(pending, target[t]) /\ At(t, "enqueued")
        /\ target' = [target EXCEPT ![t] = Null]
        /\ hand' = hand /\ remaining' = remaining
    BY <1>6 DEF SendRegister, drainVars
  <2>3. /\ pc' \in [Threads -> {pc[u] : u \in Threads} \cup {"idle", "user", "schedule"}]
        /\ \A u \in Threads \ {t} : pc'[u] = pc[u]
        /\ pc'[t] \in {"idle", "user", "schedule"}
    BY <1>6, <1>a DEF SendRegister, Goto, Resume
  <2>4. /\ \A u \in Threads : At(u, "enqueued")' => u # t /\ At(u, "enqueued")
        /\ \A u \in Threads \ {t} : target'[u] = target[u]
        /\ \A w \in Workers : Drains(w)' => Drains(w)
    BY <2>2, <2>3, <1>a DEF Drains, At, Threads
  <2>5. /\ Len(pending') = Len(pending) + 1
        /\ \A i \in 1 .. Len(pending) : pending'[i] = pending[i]
        /\ pending'[Len(pending) + 1] = target[t]
    BY <2>1, <2>2, AppendElements
  <2>6. \A i \in 1 .. Len(pending') :
          i \in 1 .. Len(pending) \/ i = Len(pending) + 1
    BY <2>5, <1>a
  <2>7. \A i, j \in 1 .. Len(pending') : pending'[i] = pending'[j] => i = j
    BY <2>2, <2>5, <2>6 DEF ClaimsDisjoint
  <2>8. \A i \in 1 .. Len(pending'), w \in Workers :
          Drains(w)' => hand'[w] # pending'[i]
    BY <2>2, <2>4, <2>5, <2>6 DEF ClaimsDisjoint
  <2>9. \A i \in 1 .. Len(pending'), u \in Threads :
          At(u, "enqueued")' => target'[u] # pending'[i]
    BY <2>2, <2>4, <2>5, <2>6 DEF ClaimsDisjoint
  <2> QED
    BY <2>2, <2>4, <2>7, <2>8, <2>9 DEF ClaimsDisjoint
<1>7. ASSUME NEW t \in Threads, NEW c \in Conns, NEW m \in Msgs, SendCheck(t, c, m)
      PROVE  ClaimsDisjoint'
  BY <1>7, <1>a, ThreadsAssumption, SMTT(30) DEF ClaimsDisjoint, Drains, PcShape,
       UserPcs, HandShape, Threads, SendCheck
<1>8. ASSUME NEW w \in Workers, NEW c \in Conns, UserOpen(w, c)
      PROVE  ClaimsDisjoint'
  BY <1>8, <1>a, ThreadsAssumption DEF ClaimsDisjoint, Drains, PcShape,
       UserPcs, HandShape, Threads, UserOpen, OpenConnector, NonDaemons
<1>9. ASSUME NEW w \in Workers, NEW c \in Conns, UserSeal(w, c)
      PROVE  ClaimsDisjoint'
  BY <1>9, <1>a, ThreadsAssumption DEF ClaimsDisjoint, Drains, PcShape,
       UserPcs, HandShape, Threads, UserSeal, NonDaemons
<1>10. ASSUME NEW w \in Workers, TakeTask(w) PROVE ClaimsDisjoint'
  BY <1>10, <1>a, ThreadsAssumption DEF ClaimsDisjoint, Drains, PcShape,
       UserPcs, HandShape, Threads, TakeTask
<1>11. ASSUME NEW w \in Workers, Enter(w) PROVE ClaimsDisjoint'
  BY <1>11, <1>a, ThreadsAssumption DEF ClaimsDisjoint, Drains, PcShape,
       UserPcs, HandShape, Threads, Enter
<1>12. ASSUME NEW w \in Workers, CheckFresh(w) PROVE ClaimsDisjoint'
  BY <1>12, <1>a, ThreadsAssumption DEF ClaimsDisjoint, Drains, PcShape,
       UserPcs, HandShape, Threads, CheckFresh, CallUser
<1>13. ASSUME NEW w \in Workers, Create(w) PROVE ClaimsDisjoint'
  BY <1>13, <1>a, ThreadsAssumption DEF ClaimsDisjoint, Drains, PcShape,
       UserPcs, HandShape, Threads, Create, CallUser
<1>14. ASSUME NEW w \in Workers, CreateFails(w) PROVE ClaimsDisjoint'
  BY <1>14, <1>a, ThreadsAssumption DEF ClaimsDisjoint, Drains, PcShape,
       UserPcs, HandShape, Threads, CreateFails
<1>15. ASSUME NEW w \in Workers, Unreact(w) PROVE ClaimsDisjoint'
  BY <1>15, <1>a, ThreadsAssumption DEF ClaimsDisjoint, Drains, PcShape,
       UserPcs, HandShape, Threads, Unreact
<1>16. ASSUME NEW w \in Workers, UserReturn(w) PROVE ClaimsDisjoint'
  BY <1>16, <1>a, ThreadsAssumption DEF ClaimsDisjoint, Drains, PcShape,
       UserPcs, HandShape, Threads, UserReturn, ReturnTo
<1>17. ASSUME NEW w \in Workers, UserStarts(w) PROVE ClaimsDisjoint'
  BY <1>17, <1>a, ThreadsAssumption DEF ClaimsDisjoint, Drains, PcShape,
       UserPcs, HandShape, Threads, UserStarts, CallUser
<1>18. ASSUME NEW w \in Workers, BatchStart(w) PROVE ClaimsDisjoint'
  BY <1>18, <1>a, ThreadsAssumption DEF ClaimsDisjoint, Drains, PcShape,
       UserPcs, HandShape, Threads, BatchStart
<1>19. ASSUME NEW w \in Workers, UserThrow(w) PROVE ClaimsDisjoint'
  BY <1>19, <1>a, ThreadsAssumption DEF ClaimsDisjoint, Drains, PcShape,
       UserPcs, HandShape, Threads, UserThrow, ThrowTo
<1>20. ASSUME NEW w \in Workers, PopFirst(w) PROVE ClaimsDisjoint'
  <2>1. CASE PopPending(w)
    <3>1. pc[w] \in {"first", "next", "spin", "sample"}
      BY <1>20 DEF PopFirst, At
    <3> QED
      BY <2>1, <3>1, PopClaims
  <2>2. CASE ~PopPending(w)
    BY <1>20, <2>2, <1>a, ThreadsAssumption DEF ClaimsDisjoint, Drains, PcShape, UserPcs, HandShape, Threads, At, PopFirst,
       GiveUp, Goto, frameVars, connVars, sendVars, drainVars
  <2> QED
    BY <2>1, <2>2
<1>21. ASSUME NEW w \in Workers, PopNext(w) PROVE ClaimsDisjoint'
  <2>1. CASE PopPending(w)
    <3>1. pc[w] \in {"first", "next", "spin", "sample"}
      BY <1>21 DEF PopNext, At
    <3> QED
      BY <2>1, <3>1, PopClaims
  <2>2. CASE ~PopPending(w)
    BY <1>21, <2>2, <1>a, ThreadsAssumption DEF ClaimsDisjoint, Drains, PcShape, UserPcs, HandShape, Threads, At, PopNext,
       GiveUp, Preempt, CallUser, Goto, frameVars, connVars, sendVars, drainVars
  <2> QED
    BY <2>1, <2>2
<1>22. ASSUME NEW w \in Workers, PopSpin(w) PROVE ClaimsDisjoint'
  <2>1. CASE PopPending(w)
    <3>1. pc[w] \in {"first", "next", "spin", "sample"}
      BY <1>22 DEF PopSpin, At
    <3> QED
      BY <2>1, <3>1, PopClaims
  <2>2. CASE ~PopPending(w)
    BY <1>22, <2>2, <1>a, ThreadsAssumption DEF ClaimsDisjoint, Drains, PcShape, UserPcs, HandShape, Threads, At, PopSpin,
       GiveUp, Goto, frameVars, connVars, sendVars, drainVars
  <2> QED
    BY <2>1, <2>2
<1>23. ASSUME NEW w \in Workers, PopSample(w) PROVE ClaimsDisjoint'
  <2>1. CASE PopPending(w)
    <3>1. pc[w] \in {"first", "next", "spin", "sample"}
      BY <1>23 DEF PopSample, At
    <3> QED
      BY <2>1, <3>1, PopClaims
  <2>2. CASE ~PopPending(w)
    BY <1>23, <2>2, <1>a, ThreadsAssumption DEF ClaimsDisjoint, Drains, PcShape, UserPcs, HandShape, Threads, At, PopSample,
       Preempt, CallUser, Goto, frameVars, connVars, sendVars
  <2> QED
    BY <2>1, <2>2
<1>24. ASSUME NEW w \in Workers, Dequeue(w) PROVE ClaimsDisjoint'
  BY <1>24, <1>a, ThreadsAssumption DEF ClaimsDisjoint, Drains, PcShape,
       UserPcs, HandShape, Threads, Dequeue, CallUser
<1>25. ASSUME NEW w \in Workers, DrainAgain(w) PROVE ClaimsDisjoint'
  BY <1>25, <1>a, ThreadsAssumption DEF ClaimsDisjoint, Drains, PcShape,
       UserPcs, HandShape, Threads, DrainAgain, HasMore
<1>26. ASSUME NEW w \in Workers, DrainNext(w) PROVE ClaimsDisjoint'
  BY <1>26, <1>a, ThreadsAssumption DEF ClaimsDisjoint, Drains, PcShape,
       UserPcs, HandShape, Threads, DrainNext, HasMore
<1>27. ASSUME NEW w \in Workers, DrainPreempted(w) PROVE ClaimsDisjoint'
  <2>1. CASE HasMore(w)
    <3>1. /\ hand[w] \in Conns /\ pending \in Seq(Conns) /\ Drains(w)
          /\ ~At(w, "idle")
      BY <1>27, <2>1, <1>a DEF HandShape, TypeOK, DrainPreempted, PreemptedAt, HasMore, Drains,
         At
    <3>2. /\ pending' = Append(pending, hand[w]) /\ target' = target
          /\ queue' = queue
          /\ hand' = [hand EXCEPT ![w] = Null]
          /\ remaining' = [remaining EXCEPT ![w] = 0]
      BY <1>27, <2>1 DEF DrainPreempted, PreemptedAt, connVars, sendVars
    <3>3. /\ \A u \in Threads \ {w} : pc'[u] = pc[u]
          /\ pc'[w] \in {"user", "sample"}
      BY <1>27, <1>a DEF DrainPreempted, PreemptedAt, CallUser, Goto, Threads
    <3>4. \A v \in Workers : ~Drains(v)'
      <4> SUFFICES ASSUME NEW v \in Workers PROVE ~Drains(v)'
        OBVIOUS
      <4>1. CASE v = w
        BY <4>1, <3>2, <3>3, <1>a DEF Drains, At
      <4>2. CASE v # w
        BY <4>2, <3>1, <3>2, <3>3, <1>a, SoleDrainer DEF Drains, At, Threads
      <4> QED
        BY <4>1, <4>2
    <3>5. \A u \in Threads : At(u, "enqueued")' => At(u, "enqueued")
      BY <3>3 DEF At
    <3>6. /\ Len(pending') = Len(pending) + 1
          /\ \A i \in 1 .. Len(pending) : pending'[i] = pending[i]
          /\ pending'[Len(pending) + 1] = hand[w]
      BY <3>1, <3>2, AppendElements
    <3>7. \A i \in 1 .. Len(pending') :
            i \in 1 .. Len(pending) \/ i = Len(pending) + 1
      BY <3>6, <1>a
    <3>8. \A i, j \in 1 .. Len(pending') : pending'[i] = pending'[j] => i = j
      BY <3>1, <3>6, <3>7 DEF ClaimsDisjoint
    <3>9. \A i \in 1 .. Len(pending'), u \in Threads :
            At(u, "enqueued")' => target'[u] # pending'[i]
      BY <3>1, <3>2, <3>5, <3>6, <3>7 DEF ClaimsDisjoint
    <3> QED
      BY <3>2, <3>4, <3>5, <3>8, <3>9 DEF ClaimsDisjoint
  <2>2. CASE ~HasMore(w)
    BY <1>27, <2>2, <1>a, ThreadsAssumption DEF ClaimsDisjoint, Drains, PcShape,
       UserPcs, HandShape, Threads, At, DrainPreempted, PreemptedAt, CallUser, Goto,
       connVars, sendVars
  <2> QED
    BY <2>1, <2>2
<1>28. ASSUME NEW w \in Workers, CheckExit(w) PROVE ClaimsDisjoint'
  BY <1>28, <1>a, ThreadsAssumption DEF ClaimsDisjoint, Drains, PcShape,
       UserPcs, HandShape, Threads, CheckExit, CheckTerminated, CallUser
<1>29. ASSUME NEW w \in Workers, Catch(w) PROVE ClaimsDisjoint'
  BY <1>29, <1>a, ThreadsAssumption DEF ClaimsDisjoint, Drains, PcShape,
       UserPcs, HandShape, Threads, Catch, CallUser
<1>30. ASSUME NEW w \in Workers, CheckForced(w) PROVE ClaimsDisjoint'
  BY <1>30, <1>a, ThreadsAssumption DEF ClaimsDisjoint, Drains, PcShape,
       UserPcs, HandShape, Threads, CheckForced, CheckTerminated, CallUser
<1>31. ASSUME NEW w \in Workers, Unregister(w) PROVE ClaimsDisjoint'
  BY <1>31, <1>a, ThreadsAssumption DEF ClaimsDisjoint, Drains, PcShape,
       UserPcs, HandShape, Threads, Unregister
<1>32. ASSUME NEW w \in Workers, Release(w) PROVE ClaimsDisjoint'
  BY <1>32, <1>a, ThreadsAssumption DEF ClaimsDisjoint, Drains, PcShape,
       UserPcs, HandShape, Threads, Release
<1>33. ASSUME NEW w \in Workers, Reschedule(w) PROVE ClaimsDisjoint'
  BY <1>33, <1>a, ThreadsAssumption DEF ClaimsDisjoint, Drains, PcShape,
       UserPcs, HandShape, Threads, Reschedule
<1>34. CASE UNCHANGED vars
  BY <1>34, <1>a, ThreadsAssumption DEF ClaimsDisjoint, Drains, PcShape,
       UserPcs, HandShape, Threads
<1> QED
  BY NextCases, <1>1, <1>2, <1>3, <1>4, <1>5, <1>6, <1>7, <1>8, <1>9, <1>10,
       <1>11, <1>12, <1>13, <1>14, <1>15, <1>16, <1>17, <1>18, <1>19, <1>20,
       <1>21, <1>22, <1>23, <1>24, <1>25, <1>26, <1>27, <1>28, <1>29, <1>30,
       <1>31, <1>32, <1>33, <1>34

\* Every step keeps an event in every claimed queue: the only worker that
\* dequeues holds the only claim of that queue.
LEMMA ClaimsNonEmptyStep ==
  ASSUME TypeOK, PcShape, TargetShape, HandShape, OneToken, ClaimsDisjoint, ClaimsNonEmpty, [Next]_vars
  PROVE  ClaimsNonEmpty'
<1> USE DEF At, Goto, frameVars, connVars, sendVars, drainVars, vars
<1>a. /\ pc \in [Threads -> Pcs] /\ stage \in [Threads -> Stages]
      /\ target \in [Threads -> Conns \cup {Null}]
      /\ hand \in [Workers -> Conns \cup {Null}]
      /\ remaining \in [Workers -> Nat]
      /\ Len(pending) \in Nat
  BY DEF TypeOK
<1>1. CASE SpawnOpenMain
  BY <1>1, <1>a, ThreadsAssumption DEF ClaimsNonEmpty, Drains, PcShape,
       UserPcs, HandShape, Threads, SpawnOpenMain, OpenConnector, NonDaemons
<1>2. CASE SpawnOpenSys
  BY <1>2, <1>a, ThreadsAssumption DEF ClaimsNonEmpty, Drains, PcShape,
       UserPcs, HandShape, Threads, SpawnOpenSys, OpenConnector, NonDaemons
<1>3. CASE SpawnActivate
  BY <1>3, <1>a, ThreadsAssumption DEF ClaimsNonEmpty, Drains, PcShape,
       UserPcs, HandShape, Threads, SpawnActivate
<1>4. ASSUME NEW t \in Threads, Schedule(t) PROVE ClaimsNonEmpty'
  BY <1>4, <1>a, ThreadsAssumption DEF ClaimsNonEmpty, Drains, PcShape,
       UserPcs, HandShape, Threads, Schedule, Resume
<1>5. ASSUME NEW t \in Threads, SendEnqueue(t) PROVE ClaimsNonEmpty'
  <2>1. target[t] \in Conns /\ arg[t] \in Msgs
    BY <1>5 DEF TargetShape, SendEnqueue, At
  <2>2. /\ queue \in [Conns -> Seq(Msgs)]
        /\ queue' = [queue EXCEPT ![target[t]] = Append(@, arg[t])]
    BY <1>5 DEF SendEnqueue, TypeOK
  <2>4. queue'[target[t]] # <<>>
    <3>1. queue'[target[t]] = Append(queue[target[t]], arg[t])
      BY <2>1, <2>2
    <3>2. queue[target[t]] \in Seq(Msgs)
      BY <2>1, <2>2
    <3> QED
      BY <2>1, <3>1, <3>2, AppendElements
  <2>3. \A c \in Conns : queue[c] # <<>> => queue'[c] # <<>>
    BY <2>2, <2>4
  <2>5. /\ pending' = pending /\ hand' = hand /\ remaining' = remaining
        /\ \A u \in Threads \ {t} : pc'[u] = pc[u] /\ target'[u] = target[u]
        /\ pc'[t] \in {"idle", "user", "enqueued"}
        /\ At(t, "enqueued")' => target'[t] = target[t]
    BY <1>5, <1>a DEF SendEnqueue, Goto, Resume, At, frameVars, drainVars
  <2>6. \A w \in Workers : Drains(w)' => Drains(w) /\ hand[w] \in Conns
    BY <2>5, <1>a DEF Drains, At, HandShape, Threads
  <2>7. \A u \in Threads :
          At(u, "enqueued")' => target'[u] = target[t]
                             \/ /\ At(u, "enqueued") /\ target'[u] = target[u]
                                /\ target[u] \in Conns
    BY <2>5 DEF At, TargetShape
  <2>8. \A i \in 1 .. Len(pending) : pending[i] \in Conns
    BY DEF TypeOK
  <2>9. \A i \in 1 .. Len(pending') : queue'[pending'[i]] # <<>>
    BY <2>3, <2>5, <2>8 DEF ClaimsNonEmpty
  <2>10. \A w \in Workers : Drains(w)' => queue'[hand'[w]] # <<>>
    BY <2>3, <2>5, <2>6 DEF ClaimsNonEmpty
  <2>11. \A u \in Threads : At(u, "enqueued")' => queue'[target'[u]] # <<>>
    BY <2>3, <2>4, <2>7 DEF ClaimsNonEmpty
  <2> QED
    BY <2>9, <2>10, <2>11 DEF ClaimsNonEmpty
<1>6. ASSUME NEW t \in Threads, SendRegister(t) PROVE ClaimsNonEmpty'
  <2>1. target[t] \in Conns /\ pending \in Seq(Conns) /\ queue[target[t]] # <<>>
    BY <1>6 DEF TargetShape, TypeOK, SendRegister, At, ClaimsNonEmpty
  <2>2. /\ pending' = Append(pending, target[t])
        /\ target' = [target EXCEPT ![t] = Null]
        /\ hand' = hand /\ remaining' = remaining /\ queue' = queue
    BY <1>6 DEF SendRegister, drainVars, connVars
  <2>3. /\ \A u \in Threads \ {t} : pc'[u] = pc[u]
        /\ pc'[t] \in {"idle", "user", "schedule"}
    BY <1>6, <1>a DEF SendRegister, Goto, Resume
  <2>4. /\ \A u \in Threads : At(u, "enqueued")' => u # t /\ At(u, "enqueued")
        /\ \A u \in Threads \ {t} : target'[u] = target[u]
        /\ \A w \in Workers : Drains(w)' => Drains(w)
    BY <2>2, <2>3, <1>a DEF Drains, At, Threads
  <2>5. \A i \in 1 .. Len(pending') : queue[pending'[i]] # <<>>
    BY <2>1, <2>2, AppendElements, <1>a DEF ClaimsNonEmpty
  <2> QED
    BY <2>2, <2>4, <2>5 DEF ClaimsNonEmpty
<1>7. ASSUME NEW t \in Threads, NEW c \in Conns, NEW m \in Msgs, SendCheck(t, c, m)
      PROVE  ClaimsNonEmpty'
  BY <1>7, <1>a, ThreadsAssumption DEF ClaimsNonEmpty, Drains, PcShape,
       UserPcs, HandShape, Threads, SendCheck
<1>8. ASSUME NEW w \in Workers, NEW c \in Conns, UserOpen(w, c)
      PROVE  ClaimsNonEmpty'
  BY <1>8, <1>a, ThreadsAssumption DEF ClaimsNonEmpty, Drains, PcShape,
       UserPcs, HandShape, Threads, UserOpen, OpenConnector, NonDaemons
<1>9. ASSUME NEW w \in Workers, NEW c \in Conns, UserSeal(w, c)
      PROVE  ClaimsNonEmpty'
  BY <1>9, <1>a, ThreadsAssumption DEF ClaimsNonEmpty, Drains, PcShape,
       UserPcs, HandShape, Threads, UserSeal, NonDaemons
<1>10. ASSUME NEW w \in Workers, TakeTask(w) PROVE ClaimsNonEmpty'
  BY <1>10, <1>a, ThreadsAssumption DEF ClaimsNonEmpty, Drains, PcShape,
       UserPcs, HandShape, Threads, TakeTask
<1>11. ASSUME NEW w \in Workers, Enter(w) PROVE ClaimsNonEmpty'
  BY <1>11, <1>a, ThreadsAssumption DEF ClaimsNonEmpty, Drains, PcShape,
       UserPcs, HandShape, Threads, Enter
<1>12. ASSUME NEW w \in Workers, CheckFresh(w) PROVE ClaimsNonEmpty'
  BY <1>12, <1>a, ThreadsAssumption DEF ClaimsNonEmpty, Drains, PcShape,
       UserPcs, HandShape, Threads, CheckFresh, CallUser
<1>13. ASSUME NEW w \in Workers, Create(w) PROVE ClaimsNonEmpty'
  BY <1>13, <1>a, ThreadsAssumption DEF ClaimsNonEmpty, Drains, PcShape,
       UserPcs, HandShape, Threads, Create, CallUser
<1>14. ASSUME NEW w \in Workers, CreateFails(w) PROVE ClaimsNonEmpty'
  BY <1>14, <1>a, ThreadsAssumption DEF ClaimsNonEmpty, Drains, PcShape,
       UserPcs, HandShape, Threads, CreateFails
<1>15. ASSUME NEW w \in Workers, Unreact(w) PROVE ClaimsNonEmpty'
  BY <1>15, <1>a, ThreadsAssumption DEF ClaimsNonEmpty, Drains, PcShape,
       UserPcs, HandShape, Threads, Unreact
<1>16. ASSUME NEW w \in Workers, UserReturn(w) PROVE ClaimsNonEmpty'
  BY <1>16, <1>a, ThreadsAssumption DEF ClaimsNonEmpty, Drains, PcShape,
       UserPcs, HandShape, Threads, UserReturn, ReturnTo
<1>17. ASSUME NEW w \in Workers, UserStarts(w) PROVE ClaimsNonEmpty'
  BY <1>17, <1>a, ThreadsAssumption DEF ClaimsNonEmpty, Drains, PcShape,
       UserPcs, HandShape, Threads, UserStarts, CallUser
<1>18. ASSUME NEW w \in Workers, BatchStart(w) PROVE ClaimsNonEmpty'
  BY <1>18, <1>a, ThreadsAssumption DEF ClaimsNonEmpty, Drains, PcShape,
       UserPcs, HandShape, Threads, BatchStart
<1>19. ASSUME NEW w \in Workers, UserThrow(w) PROVE ClaimsNonEmpty'
  BY <1>19, <1>a, ThreadsAssumption DEF ClaimsNonEmpty, Drains, PcShape,
       UserPcs, HandShape, Threads, UserThrow, ThrowTo
<1>20. ASSUME NEW w \in Workers, PopFirst(w) PROVE ClaimsNonEmpty'
  <2>1. CASE PopPending(w)
    <3>1. pc[w] \in {"first", "next", "spin", "sample"}
      BY <1>20 DEF PopFirst, At
    <3> QED
      BY <2>1, <3>1, PopClaims
  <2>2. CASE ~PopPending(w)
    BY <1>20, <2>2, <1>a, ThreadsAssumption DEF ClaimsNonEmpty, Drains, PcShape, UserPcs, HandShape, Threads, At, PopFirst,
       GiveUp, Goto, frameVars, connVars, sendVars, drainVars
  <2> QED
    BY <2>1, <2>2
<1>21. ASSUME NEW w \in Workers, PopNext(w) PROVE ClaimsNonEmpty'
  <2>1. CASE PopPending(w)
    <3>1. pc[w] \in {"first", "next", "spin", "sample"}
      BY <1>21 DEF PopNext, At
    <3> QED
      BY <2>1, <3>1, PopClaims
  <2>2. CASE ~PopPending(w)
    BY <1>21, <2>2, <1>a, ThreadsAssumption DEF ClaimsNonEmpty, Drains, PcShape, UserPcs, HandShape, Threads, At, PopNext,
       GiveUp, Preempt, CallUser, Goto, frameVars, connVars, sendVars, drainVars
  <2> QED
    BY <2>1, <2>2
<1>22. ASSUME NEW w \in Workers, PopSpin(w) PROVE ClaimsNonEmpty'
  <2>1. CASE PopPending(w)
    <3>1. pc[w] \in {"first", "next", "spin", "sample"}
      BY <1>22 DEF PopSpin, At
    <3> QED
      BY <2>1, <3>1, PopClaims
  <2>2. CASE ~PopPending(w)
    BY <1>22, <2>2, <1>a, ThreadsAssumption DEF ClaimsNonEmpty, Drains, PcShape, UserPcs, HandShape, Threads, At, PopSpin,
       GiveUp, Goto, frameVars, connVars, sendVars, drainVars
  <2> QED
    BY <2>1, <2>2
<1>23. ASSUME NEW w \in Workers, PopSample(w) PROVE ClaimsNonEmpty'
  <2>1. CASE PopPending(w)
    <3>1. pc[w] \in {"first", "next", "spin", "sample"}
      BY <1>23 DEF PopSample, At
    <3> QED
      BY <2>1, <3>1, PopClaims
  <2>2. CASE ~PopPending(w)
    BY <1>23, <2>2, <1>a, ThreadsAssumption DEF ClaimsNonEmpty, Drains, PcShape, UserPcs, HandShape, Threads, At, PopSample,
       Preempt, CallUser, Goto, frameVars, connVars, sendVars
  <2> QED
    BY <2>1, <2>2
<1>24. ASSUME NEW w \in Workers, Dequeue(w) PROVE ClaimsNonEmpty'
  <2>1. /\ hand[w] \in Conns /\ Drains(w) /\ ~At(w, "idle")
        /\ queue[hand[w]] # <<>> /\ queue \in [Conns -> Seq(Msgs)]
    BY <1>24 DEF HandShape, ClaimsNonEmpty, Drains, Dequeue, At, TypeOK
  <2>2. /\ pending' = pending /\ hand' = hand /\ target' = target
        /\ queue' = [queue EXCEPT ![hand[w]] = Tail(@)]
        /\ remaining' = [remaining EXCEPT ![w] = Len(queue[hand[w]]) - 1]
    BY <1>24 DEF Dequeue, frameVars, sendVars
  <2>3. /\ \A u \in Threads \ {w} : pc'[u] = pc[u]
        /\ pc'[w] \in {"user", "drain"}
    BY <1>24, <1>a DEF Dequeue, CallUser, Goto, Threads
  <2>4. \A v \in Workers \ {w} : ~Drains(v)'
    BY <2>1, <2>2, <2>3, <1>a, SoleDrainer DEF Drains, At, Threads
  <2>5. Drains(w)' => queue'[hand'[w]] # <<>>
    BY <2>1, <2>2, <2>3, <1>a, TailElements DEF Drains, At
  <2>6. \A i \in 1 .. Len(pending') : queue'[pending'[i]] # <<>>
    BY <2>1, <2>2 DEF ClaimsNonEmpty, ClaimsDisjoint, TypeOK
  <2>7. \A u \in Threads : At(u, "enqueued")' =>
          /\ At(u, "enqueued") /\ target[u] \in Conns /\ target[u] # hand[w]
    BY <2>1, <2>3 DEF At, TargetShape, ClaimsDisjoint
  <2>8. \A u \in Threads : At(u, "enqueued")' => queue'[target'[u]] # <<>>
    BY <2>1, <2>2, <2>7 DEF ClaimsNonEmpty
  <2> QED
    BY <2>4, <2>5, <2>6, <2>8 DEF ClaimsNonEmpty
<1>25. ASSUME NEW w \in Workers, DrainAgain(w) PROVE ClaimsNonEmpty'
  BY <1>25, <1>a, ThreadsAssumption DEF ClaimsNonEmpty, Drains, PcShape,
       UserPcs, HandShape, Threads, DrainAgain, HasMore
<1>26. ASSUME NEW w \in Workers, DrainNext(w) PROVE ClaimsNonEmpty'
  BY <1>26, <1>a, ThreadsAssumption DEF ClaimsNonEmpty, Drains, PcShape,
       UserPcs, HandShape, Threads, DrainNext, HasMore
<1>27. ASSUME NEW w \in Workers, DrainPreempted(w) PROVE ClaimsNonEmpty'
  <2>1. CASE HasMore(w)
    <3>1. /\ hand[w] \in Conns /\ pending \in Seq(Conns) /\ Drains(w)
          /\ ~At(w, "idle")
      BY <1>27, <2>1, <1>a DEF HandShape, TypeOK, DrainPreempted, PreemptedAt, HasMore, Drains,
         At
    <3>2. /\ pending' = Append(pending, hand[w]) /\ target' = target
          /\ queue' = queue
          /\ hand' = [hand EXCEPT ![w] = Null]
          /\ remaining' = [remaining EXCEPT ![w] = 0]
      BY <1>27, <2>1 DEF DrainPreempted, PreemptedAt, connVars, sendVars
    <3>3. /\ \A u \in Threads \ {w} : pc'[u] = pc[u]
          /\ pc'[w] \in {"user", "sample"}
      BY <1>27, <1>a DEF DrainPreempted, PreemptedAt, CallUser, Goto, Threads
    <3>4. \A v \in Workers : ~Drains(v)'
      <4> SUFFICES ASSUME NEW v \in Workers PROVE ~Drains(v)'
        OBVIOUS
      <4>1. CASE v = w
        BY <4>1, <3>2, <3>3, <1>a DEF Drains, At
      <4>2. CASE v # w
        BY <4>2, <3>1, <3>2, <3>3, <1>a, SoleDrainer DEF Drains, At, Threads
      <4> QED
        BY <4>1, <4>2
    <3>5. \A u \in Threads : At(u, "enqueued")' => At(u, "enqueued")
      BY <3>3 DEF At
    <3>6. /\ Len(pending') = Len(pending) + 1
          /\ \A i \in 1 .. Len(pending) : pending'[i] = pending[i]
          /\ pending'[Len(pending) + 1] = hand[w]
      BY <3>1, <3>2, AppendElements
    <3>7. \A i \in 1 .. Len(pending') :
            i \in 1 .. Len(pending) \/ i = Len(pending) + 1
      BY <3>6, <1>a
    <3>8. \A i \in 1 .. Len(pending') : queue'[pending'[i]] # <<>>
      BY <3>1, <3>2, <3>6, <3>7 DEF ClaimsNonEmpty
    <3> QED
      BY <3>2, <3>4, <3>5, <3>8 DEF ClaimsNonEmpty
  <2>2. CASE ~HasMore(w)
    BY <1>27, <2>2, <1>a, ThreadsAssumption DEF ClaimsNonEmpty, Drains, PcShape,
       UserPcs, HandShape, Threads, At, DrainPreempted, PreemptedAt, CallUser, Goto,
       connVars, sendVars
  <2> QED
    BY <2>1, <2>2
<1>28. ASSUME NEW w \in Workers, CheckExit(w) PROVE ClaimsNonEmpty'
  BY <1>28, <1>a, ThreadsAssumption DEF ClaimsNonEmpty, Drains, PcShape,
       UserPcs, HandShape, Threads, CheckExit, CheckTerminated, CallUser
<1>29. ASSUME NEW w \in Workers, Catch(w) PROVE ClaimsNonEmpty'
  BY <1>29, <1>a, ThreadsAssumption DEF ClaimsNonEmpty, Drains, PcShape,
       UserPcs, HandShape, Threads, Catch, CallUser
<1>30. ASSUME NEW w \in Workers, CheckForced(w) PROVE ClaimsNonEmpty'
  BY <1>30, <1>a, ThreadsAssumption DEF ClaimsNonEmpty, Drains, PcShape,
       UserPcs, HandShape, Threads, CheckForced, CheckTerminated, CallUser
<1>31. ASSUME NEW w \in Workers, Unregister(w) PROVE ClaimsNonEmpty'
  BY <1>31, <1>a, ThreadsAssumption DEF ClaimsNonEmpty, Drains, PcShape,
       UserPcs, HandShape, Threads, Unregister
<1>32. ASSUME NEW w \in Workers, Release(w) PROVE ClaimsNonEmpty'
  BY <1>32, <1>a, ThreadsAssumption DEF ClaimsNonEmpty, Drains, PcShape,
       UserPcs, HandShape, Threads, Release
<1>33. ASSUME NEW w \in Workers, Reschedule(w) PROVE ClaimsNonEmpty'
  BY <1>33, <1>a, ThreadsAssumption DEF ClaimsNonEmpty, Drains, PcShape,
       UserPcs, HandShape, Threads, Reschedule
<1>34. CASE UNCHANGED vars
  BY <1>34, <1>a, ThreadsAssumption DEF ClaimsNonEmpty, Drains, PcShape,
       UserPcs, HandShape, Threads
<1> QED
  BY NextCases, <1>1, <1>2, <1>3, <1>4, <1>5, <1>6, <1>7, <1>8, <1>9, <1>10,
       <1>11, <1>12, <1>13, <1>14, <1>15, <1>16, <1>17, <1>18, <1>19, <1>20,
       <1>21, <1>22, <1>23, <1>24, <1>25, <1>26, <1>27, <1>28, <1>29, <1>30,
       <1>31, <1>32, <1>33, <1>34

-----------------------------------------------------------------------------
(* No event is stranded *)

\* Every step keeps a failing worker in the batch until the reactor has
\* terminated.
LEMMA LifeShapeStep ==
  ASSUME TypeOK, PcShape, OneToken, LifeShape, [Next]_vars
  PROVE  LifeShape'
<1> USE DEF At, Goto, frameVars, connVars, sendVars, drainVars, vars
<1>a. /\ pc \in [Threads -> Pcs] /\ stage \in [Threads -> Stages]
      /\ failure \in [Workers -> {"no", "thrown", "caught"}]
      /\ life \in {"Fresh", "Running", "Terminated"}
  BY DEF TypeOK
<1>1. CASE SpawnOpenMain
  BY <1>1, <1>a, ThreadsAssumption DEF LifeShape, PcShape, UserPcs, OneToken,
       Holds, Threads, SpawnOpenMain, OpenConnector, NonDaemons
<1>2. CASE SpawnOpenSys
  BY <1>2, <1>a, ThreadsAssumption DEF LifeShape, PcShape, UserPcs, OneToken,
       Holds, Threads, SpawnOpenSys, OpenConnector, NonDaemons
<1>3. CASE SpawnActivate
  BY <1>3, <1>a, ThreadsAssumption DEF LifeShape, PcShape, UserPcs, OneToken,
       Holds, Threads, SpawnActivate
<1>4. ASSUME NEW t \in Threads, Schedule(t) PROVE LifeShape'
  BY <1>4, <1>a, ThreadsAssumption DEF LifeShape, PcShape, UserPcs, OneToken,
       Holds, Threads, Schedule, Resume
<1>5. ASSUME NEW t \in Threads, SendEnqueue(t) PROVE LifeShape'
  BY <1>5, <1>a, ThreadsAssumption DEF LifeShape, PcShape, UserPcs, OneToken,
       Holds, Threads, SendEnqueue, Resume
<1>6. ASSUME NEW t \in Threads, SendRegister(t) PROVE LifeShape'
  BY <1>6, <1>a, ThreadsAssumption DEF LifeShape, PcShape, UserPcs, OneToken,
       Holds, Threads, SendRegister, Resume
<1>7. ASSUME NEW t \in Threads, NEW c \in Conns, NEW m \in Msgs, SendCheck(t, c, m)
      PROVE  LifeShape'
  BY <1>7, <1>a, ThreadsAssumption DEF LifeShape, PcShape, UserPcs, OneToken,
       Holds, Threads, SendCheck
<1>8. ASSUME NEW w \in Workers, NEW c \in Conns, UserOpen(w, c)
      PROVE  LifeShape'
  BY <1>8, <1>a, ThreadsAssumption DEF LifeShape, PcShape, UserPcs, OneToken,
       Holds, Threads, UserOpen, OpenConnector, NonDaemons
<1>9. ASSUME NEW w \in Workers, NEW c \in Conns, UserSeal(w, c)
      PROVE  LifeShape'
  BY <1>9, <1>a, ThreadsAssumption DEF LifeShape, PcShape, UserPcs, OneToken,
       Holds, Threads, UserSeal, NonDaemons
<1>10. ASSUME NEW w \in Workers, TakeTask(w) PROVE LifeShape'
  BY <1>10, <1>a, ThreadsAssumption DEF LifeShape, PcShape, UserPcs, OneToken,
       Holds, Threads, TakeTask
<1>11. ASSUME NEW w \in Workers, Enter(w) PROVE LifeShape'
  BY <1>11, <1>a, ThreadsAssumption DEF LifeShape, PcShape, UserPcs, OneToken,
       Holds, Threads, Enter
<1>12. ASSUME NEW w \in Workers, CheckFresh(w) PROVE LifeShape'
  BY <1>12, <1>a, ThreadsAssumption DEF LifeShape, PcShape, UserPcs, OneToken,
       Holds, Threads, CheckFresh, CallUser
<1>13. ASSUME NEW w \in Workers, Create(w) PROVE LifeShape'
  BY <1>13, <1>a, ThreadsAssumption DEF LifeShape, PcShape, UserPcs, OneToken,
       Holds, Threads, Create, CallUser
<1>14. ASSUME NEW w \in Workers, CreateFails(w) PROVE LifeShape'
  BY <1>14, <1>a, ThreadsAssumption DEF LifeShape, PcShape, UserPcs, OneToken,
       Holds, Threads, CreateFails
<1>15. ASSUME NEW w \in Workers, Unreact(w) PROVE LifeShape'
  BY <1>15, <1>a, ThreadsAssumption DEF LifeShape, PcShape, UserPcs, OneToken,
       Holds, Threads, Unreact
<1>16. ASSUME NEW w \in Workers, UserReturn(w) PROVE LifeShape'
  BY <1>16, <1>a, ThreadsAssumption DEF LifeShape, PcShape, UserPcs, OneToken,
       Holds, Threads, UserReturn, ReturnTo
<1>17. ASSUME NEW w \in Workers, UserStarts(w) PROVE LifeShape'
  BY <1>17, <1>a, ThreadsAssumption DEF LifeShape, PcShape, UserPcs, OneToken,
       Holds, Threads, UserStarts, CallUser
<1>18. ASSUME NEW w \in Workers, BatchStart(w) PROVE LifeShape'
  BY <1>18, <1>a, ThreadsAssumption DEF LifeShape, PcShape, UserPcs, OneToken,
       Holds, Threads, BatchStart
<1>19. ASSUME NEW w \in Workers, UserThrow(w) PROVE LifeShape'
  BY <1>19, <1>a, ThreadsAssumption DEF LifeShape, PcShape, UserPcs, OneToken,
       Holds, Threads, UserThrow, ThrowTo
<1>20. ASSUME NEW w \in Workers, PopFirst(w) PROVE LifeShape'
  BY <1>20, <1>a, ThreadsAssumption DEF LifeShape, PcShape, UserPcs, OneToken,
       Holds, Threads, PopFirst, GiveUp, PopPending
<1>21. ASSUME NEW w \in Workers, PopNext(w) PROVE LifeShape'
  BY <1>21, <1>a, ThreadsAssumption DEF LifeShape, PcShape, UserPcs, OneToken,
       Holds, Threads, PopNext, GiveUp, Preempt, PopPending, CallUser
<1>22. ASSUME NEW w \in Workers, PopSpin(w) PROVE LifeShape'
  BY <1>22, <1>a, ThreadsAssumption DEF LifeShape, PcShape, UserPcs, OneToken,
       Holds, Threads, PopSpin, GiveUp, PopPending
<1>23. ASSUME NEW w \in Workers, PopSample(w) PROVE LifeShape'
  BY <1>23, <1>a, ThreadsAssumption DEF LifeShape, PcShape, UserPcs, OneToken,
       Holds, Threads, PopSample, Preempt, PopPending, CallUser
<1>24. ASSUME NEW w \in Workers, Dequeue(w) PROVE LifeShape'
  BY <1>24, <1>a, ThreadsAssumption DEF LifeShape, PcShape, UserPcs, OneToken,
       Holds, Threads, Dequeue, CallUser
<1>25. ASSUME NEW w \in Workers, DrainAgain(w) PROVE LifeShape'
  BY <1>25, <1>a, ThreadsAssumption DEF LifeShape, PcShape, UserPcs, OneToken,
       Holds, Threads, DrainAgain, HasMore
<1>26. ASSUME NEW w \in Workers, DrainNext(w) PROVE LifeShape'
  BY <1>26, <1>a, ThreadsAssumption DEF LifeShape, PcShape, UserPcs, OneToken,
       Holds, Threads, DrainNext, HasMore
<1>27. ASSUME NEW w \in Workers, DrainPreempted(w) PROVE LifeShape'
  BY <1>27, <1>a, ThreadsAssumption DEF LifeShape, PcShape, UserPcs, OneToken,
       Holds, Threads, DrainPreempted, PreemptedAt, CallUser
<1>28. ASSUME NEW w \in Workers, CheckExit(w) PROVE LifeShape'
  BY <1>28, <1>a, ThreadsAssumption DEF LifeShape, PcShape, UserPcs, OneToken,
       Holds, Threads, CheckExit, CheckTerminated, CallUser
<1>29. ASSUME NEW w \in Workers, Catch(w) PROVE LifeShape'
  BY <1>29, <1>a, ThreadsAssumption DEF LifeShape, PcShape, UserPcs, OneToken,
       Holds, Threads, Catch, CallUser
<1>30. ASSUME NEW w \in Workers, CheckForced(w) PROVE LifeShape'
  BY <1>30, <1>a, ThreadsAssumption DEF LifeShape, PcShape, UserPcs, OneToken,
       Holds, Threads, CheckForced, CheckTerminated, CallUser
<1>31. ASSUME NEW w \in Workers, Unregister(w) PROVE LifeShape'
  BY <1>31, <1>a, ThreadsAssumption DEF LifeShape, PcShape, UserPcs, OneToken,
       Holds, Threads, Unregister
<1>32. ASSUME NEW w \in Workers, Release(w) PROVE LifeShape'
  BY <1>32, <1>a, ThreadsAssumption DEF LifeShape, PcShape, UserPcs, OneToken,
       Holds, Threads, Release
<1>33. ASSUME NEW w \in Workers, Reschedule(w) PROVE LifeShape'
  BY <1>33, <1>a, ThreadsAssumption DEF LifeShape, PcShape, UserPcs, OneToken,
       Holds, Threads, Reschedule
<1>34. CASE UNCHANGED vars
  BY <1>34, <1>a, ThreadsAssumption DEF LifeShape, PcShape, UserPcs, OneToken,
       Holds, Threads
<1> QED
  BY NextCases, <1>1, <1>2, <1>3, <1>4, <1>5, <1>6, <1>7, <1>8, <1>9, <1>10,
       <1>11, <1>12, <1>13, <1>14, <1>15, <1>16, <1>17, <1>18, <1>19, <1>20,
       <1>21, <1>22, <1>23, <1>24, <1>25, <1>26, <1>27, <1>28, <1>29, <1>30,
       <1>31, <1>32, <1>33, <1>34

\* Nobody sends to a connector before it is opened, so it opens empty.
LEMMA AbsentEmptyStep ==
  ASSUME TypeOK, PcShape, TargetShape, HandShape, ClaimsNonEmpty, AbsentEmpty, [Next]_vars
  PROVE  AbsentEmpty'
<1> USE DEF At, Goto, frameVars, connVars, sendVars, drainVars, vars
<1>a. /\ pc \in [Threads -> Pcs]
      /\ target \in [Threads -> Conns \cup {Null}]
      /\ conn \in [Conns -> {"absent", "open", "closing", "sealed"}]
      /\ queue \in [Conns -> Seq(Msgs)]
  BY DEF TypeOK
<1>1. CASE SpawnOpenMain
  BY <1>1, <1>a DEF AbsentEmpty, PcShape, Threads, SpawnOpenMain,
       OpenConnector, NonDaemons
<1>2. CASE SpawnOpenSys
  BY <1>2, <1>a DEF AbsentEmpty, PcShape, Threads, SpawnOpenSys,
       OpenConnector, NonDaemons
<1>3. CASE SpawnActivate
  BY <1>3, <1>a DEF AbsentEmpty, PcShape, Threads, SpawnActivate
<1>4. ASSUME NEW t \in Threads, Schedule(t) PROVE AbsentEmpty'
  BY <1>4, <1>a DEF AbsentEmpty, PcShape, Threads, Schedule, Resume
<1>5. ASSUME NEW t \in Threads, SendEnqueue(t) PROVE AbsentEmpty'
  <2>1. target[t] \in Conns /\ conn[target[t]] # "absent"
    BY <1>5 DEF TargetShape, AbsentEmpty, SendEnqueue, At
  <2>2. /\ conn' = conn /\ \A c \in Conns \ {target[t]} : queue'[c] = queue[c]
        /\ \A u \in Threads : At(u, "checked")' =>
              At(u, "checked") /\ target'[u] = target[u]
    BY <1>5, <1>a, <2>1 DEF SendEnqueue, Goto, Resume, At, Threads
  <2> QED
    BY <2>1, <2>2 DEF AbsentEmpty
<1>6. ASSUME NEW t \in Threads, SendRegister(t) PROVE AbsentEmpty'
  BY <1>6, <1>a DEF AbsentEmpty, PcShape, Threads, SendRegister, Resume
<1>7. ASSUME NEW t \in Threads, NEW c \in Conns, NEW m \in Msgs, SendCheck(t, c, m)
      PROVE  AbsentEmpty'
  BY <1>7, <1>a DEF AbsentEmpty, PcShape, Threads, SendCheck
<1>8. ASSUME NEW w \in Workers, NEW c \in Conns, UserOpen(w, c)
      PROVE  AbsentEmpty'
  BY <1>8, <1>a DEF AbsentEmpty, PcShape, Threads, UserOpen, OpenConnector,
       NonDaemons
<1>9. ASSUME NEW w \in Workers, NEW c \in Conns, UserSeal(w, c)
      PROVE  AbsentEmpty'
  BY <1>9, <1>a DEF AbsentEmpty, PcShape, Threads, UserSeal, NonDaemons
<1>10. ASSUME NEW w \in Workers, TakeTask(w) PROVE AbsentEmpty'
  BY <1>10, <1>a DEF AbsentEmpty, PcShape, Threads, TakeTask
<1>11. ASSUME NEW w \in Workers, Enter(w) PROVE AbsentEmpty'
  BY <1>11, <1>a DEF AbsentEmpty, PcShape, Threads, Enter
<1>12. ASSUME NEW w \in Workers, CheckFresh(w) PROVE AbsentEmpty'
  BY <1>12, <1>a DEF AbsentEmpty, PcShape, Threads, CheckFresh, CallUser
<1>13. ASSUME NEW w \in Workers, Create(w) PROVE AbsentEmpty'
  BY <1>13, <1>a DEF AbsentEmpty, PcShape, Threads, Create, CallUser
<1>14. ASSUME NEW w \in Workers, CreateFails(w) PROVE AbsentEmpty'
  BY <1>14, <1>a DEF AbsentEmpty, PcShape, Threads, CreateFails
<1>15. ASSUME NEW w \in Workers, Unreact(w) PROVE AbsentEmpty'
  BY <1>15, <1>a DEF AbsentEmpty, PcShape, Threads, Unreact
<1>16. ASSUME NEW w \in Workers, UserReturn(w) PROVE AbsentEmpty'
  BY <1>16, <1>a DEF AbsentEmpty, PcShape, Threads, UserReturn, ReturnTo
<1>17. ASSUME NEW w \in Workers, UserStarts(w) PROVE AbsentEmpty'
  BY <1>17, <1>a DEF AbsentEmpty, PcShape, Threads, UserStarts, CallUser
<1>18. ASSUME NEW w \in Workers, BatchStart(w) PROVE AbsentEmpty'
  BY <1>18, <1>a DEF AbsentEmpty, PcShape, Threads, BatchStart
<1>19. ASSUME NEW w \in Workers, UserThrow(w) PROVE AbsentEmpty'
  BY <1>19, <1>a DEF AbsentEmpty, PcShape, Threads, UserThrow, ThrowTo
<1>20. ASSUME NEW w \in Workers, PopFirst(w) PROVE AbsentEmpty'
  BY <1>20, <1>a DEF AbsentEmpty, PcShape, Threads, PopFirst, GiveUp,
       PopPending
<1>21. ASSUME NEW w \in Workers, PopNext(w) PROVE AbsentEmpty'
  BY <1>21, <1>a DEF AbsentEmpty, PcShape, Threads, PopNext, GiveUp, Preempt,
       PopPending, CallUser
<1>22. ASSUME NEW w \in Workers, PopSpin(w) PROVE AbsentEmpty'
  BY <1>22, <1>a DEF AbsentEmpty, PcShape, Threads, PopSpin, GiveUp,
       PopPending
<1>23. ASSUME NEW w \in Workers, PopSample(w) PROVE AbsentEmpty'
  BY <1>23, <1>a DEF AbsentEmpty, PcShape, Threads, PopSample, Preempt,
       PopPending, CallUser
<1>24. ASSUME NEW w \in Workers, Dequeue(w) PROVE AbsentEmpty'
  BY <1>24, <1>a DEF AbsentEmpty, PcShape, Threads, HandShape, ClaimsNonEmpty,
       Drains, Dequeue, CallUser
<1>25. ASSUME NEW w \in Workers, DrainAgain(w) PROVE AbsentEmpty'
  BY <1>25, <1>a DEF AbsentEmpty, PcShape, Threads, DrainAgain, HasMore
<1>26. ASSUME NEW w \in Workers, DrainNext(w) PROVE AbsentEmpty'
  BY <1>26, <1>a DEF AbsentEmpty, PcShape, Threads, DrainNext, HasMore
<1>27. ASSUME NEW w \in Workers, DrainPreempted(w) PROVE AbsentEmpty'
  BY <1>27, <1>a DEF AbsentEmpty, PcShape, Threads, DrainPreempted,
       PreemptedAt, CallUser
<1>28. ASSUME NEW w \in Workers, CheckExit(w) PROVE AbsentEmpty'
  BY <1>28, <1>a DEF AbsentEmpty, PcShape, Threads, CheckExit,
       CheckTerminated, CallUser
<1>29. ASSUME NEW w \in Workers, Catch(w) PROVE AbsentEmpty'
  BY <1>29, <1>a DEF AbsentEmpty, PcShape, Threads, Catch, CallUser
<1>30. ASSUME NEW w \in Workers, CheckForced(w) PROVE AbsentEmpty'
  BY <1>30, <1>a DEF AbsentEmpty, PcShape, Threads, CheckForced,
       CheckTerminated, CallUser
<1>31. ASSUME NEW w \in Workers, Unregister(w) PROVE AbsentEmpty'
  BY <1>31, <1>a DEF AbsentEmpty, PcShape, Threads, Unregister
<1>32. ASSUME NEW w \in Workers, Release(w) PROVE AbsentEmpty'
  BY <1>32, <1>a DEF AbsentEmpty, PcShape, Threads, Release
<1>33. ASSUME NEW w \in Workers, Reschedule(w) PROVE AbsentEmpty'
  BY <1>33, <1>a DEF AbsentEmpty, PcShape, Threads, Reschedule
<1>34. CASE UNCHANGED vars
  BY <1>34, <1>a DEF AbsentEmpty, PcShape, Threads
<1> QED
  BY NextCases, <1>1, <1>2, <1>3, <1>4, <1>5, <1>6, <1>7, <1>8, <1>9, <1>10,
       <1>11, <1>12, <1>13, <1>14, <1>15, <1>16, <1>17, <1>18, <1>19, <1>20,
       <1>21, <1>22, <1>23, <1>24, <1>25, <1>26, <1>27, <1>28, <1>29, <1>30,
       <1>31, <1>32, <1>33, <1>34

\* A failing reactor stays failing until it has terminated, and a terminated
\* one stays so.
LEMMA FailingStep ==
  ASSUME TypeOK, LifeShape, life = "Terminated" \/ Failing, [Next]_vars
  PROVE  (life = "Terminated" \/ Failing)'
<1> USE DEF At, Goto, frameVars, connVars, sendVars, drainVars, vars
<1>a. /\ pc \in [Threads -> Pcs]
      /\ failure \in [Workers -> {"no", "thrown", "caught"}]
  BY DEF TypeOK
<1>1. CASE SpawnOpenMain
  BY <1>1, <1>a DEF Failing, SpawnOpenMain, OpenConnector, NonDaemons
<1>2. CASE SpawnOpenSys
  BY <1>2, <1>a DEF Failing, SpawnOpenSys, OpenConnector, NonDaemons
<1>3. CASE SpawnActivate
  BY <1>3, <1>a DEF Failing, SpawnActivate
<1>4. ASSUME NEW t \in Threads, Schedule(t)
      PROVE  (life = "Terminated" \/ Failing)'
  BY <1>4, <1>a DEF Failing, Schedule, Resume
<1>5. ASSUME NEW t \in Threads, SendEnqueue(t)
      PROVE  (life = "Terminated" \/ Failing)'
  BY <1>5, <1>a DEF Failing, SendEnqueue, Resume
<1>6. ASSUME NEW t \in Threads, SendRegister(t)
      PROVE  (life = "Terminated" \/ Failing)'
  BY <1>6, <1>a DEF Failing, SendRegister, Resume
<1>7. ASSUME NEW t \in Threads, NEW c \in Conns, NEW m \in Msgs, SendCheck(t, c, m)
      PROVE  (life = "Terminated" \/ Failing)'
  BY <1>7, <1>a DEF Failing, SendCheck
<1>8. ASSUME NEW w \in Workers, NEW c \in Conns, UserOpen(w, c)
      PROVE  (life = "Terminated" \/ Failing)'
  BY <1>8, <1>a DEF Failing, UserOpen, OpenConnector, NonDaemons
<1>9. ASSUME NEW w \in Workers, NEW c \in Conns, UserSeal(w, c)
      PROVE  (life = "Terminated" \/ Failing)'
  BY <1>9, <1>a DEF Failing, UserSeal, NonDaemons
<1>10. ASSUME NEW w \in Workers, TakeTask(w)
      PROVE  (life = "Terminated" \/ Failing)'
  BY <1>10, <1>a DEF Failing, TakeTask
<1>11. ASSUME NEW w \in Workers, Enter(w)
      PROVE  (life = "Terminated" \/ Failing)'
  BY <1>11, <1>a DEF Failing, Enter
<1>12. ASSUME NEW w \in Workers, CheckFresh(w)
      PROVE  (life = "Terminated" \/ Failing)'
  BY <1>12, <1>a DEF Failing, LifeShape, CheckFresh, CallUser
<1>13. ASSUME NEW w \in Workers, Create(w)
      PROVE  (life = "Terminated" \/ Failing)'
  BY <1>13, <1>a DEF Failing, Create, CallUser
<1>14. ASSUME NEW w \in Workers, CreateFails(w)
      PROVE  (life = "Terminated" \/ Failing)'
  BY <1>14, <1>a DEF Failing, CreateFails
<1>15. ASSUME NEW w \in Workers, Unreact(w)
      PROVE  (life = "Terminated" \/ Failing)'
  BY <1>15, <1>a DEF Failing, Unreact
<1>16. ASSUME NEW w \in Workers, UserReturn(w)
      PROVE  (life = "Terminated" \/ Failing)'
  BY <1>16, <1>a DEF Failing, UserReturn, ReturnTo
<1>17. ASSUME NEW w \in Workers, UserStarts(w)
      PROVE  (life = "Terminated" \/ Failing)'
  BY <1>17, <1>a DEF Failing, UserStarts, CallUser
<1>18. ASSUME NEW w \in Workers, BatchStart(w)
      PROVE  (life = "Terminated" \/ Failing)'
  BY <1>18, <1>a DEF Failing, BatchStart
<1>19. ASSUME NEW w \in Workers, UserThrow(w)
      PROVE  (life = "Terminated" \/ Failing)'
  BY <1>19, <1>a DEF Failing, UserThrow, ThrowTo
<1>20. ASSUME NEW w \in Workers, PopFirst(w)
      PROVE  (life = "Terminated" \/ Failing)'
  BY <1>20, <1>a DEF Failing, PopFirst, GiveUp, PopPending
<1>21. ASSUME NEW w \in Workers, PopNext(w)
      PROVE  (life = "Terminated" \/ Failing)'
  BY <1>21, <1>a DEF Failing, PopNext, GiveUp, Preempt, PopPending, CallUser
<1>22. ASSUME NEW w \in Workers, PopSpin(w)
      PROVE  (life = "Terminated" \/ Failing)'
  BY <1>22, <1>a DEF Failing, PopSpin, GiveUp, PopPending
<1>23. ASSUME NEW w \in Workers, PopSample(w)
      PROVE  (life = "Terminated" \/ Failing)'
  BY <1>23, <1>a DEF Failing, PopSample, Preempt, PopPending, CallUser
<1>24. ASSUME NEW w \in Workers, Dequeue(w)
      PROVE  (life = "Terminated" \/ Failing)'
  BY <1>24, <1>a DEF Failing, Dequeue, CallUser
<1>25. ASSUME NEW w \in Workers, DrainAgain(w)
      PROVE  (life = "Terminated" \/ Failing)'
  BY <1>25, <1>a DEF Failing, DrainAgain, HasMore
<1>26. ASSUME NEW w \in Workers, DrainNext(w)
      PROVE  (life = "Terminated" \/ Failing)'
  BY <1>26, <1>a DEF Failing, DrainNext, HasMore
<1>27. ASSUME NEW w \in Workers, DrainPreempted(w)
      PROVE  (life = "Terminated" \/ Failing)'
  BY <1>27, <1>a DEF Failing, DrainPreempted, PreemptedAt, CallUser
<1>28. ASSUME NEW w \in Workers, CheckExit(w)
      PROVE  (life = "Terminated" \/ Failing)'
  BY <1>28, <1>a DEF Failing, CheckExit, CheckTerminated, CallUser
<1>29. ASSUME NEW w \in Workers, Catch(w)
      PROVE  (life = "Terminated" \/ Failing)'
  BY <1>29, <1>a DEF Failing, Catch, CallUser
<1>30. ASSUME NEW w \in Workers, CheckForced(w)
      PROVE  (life = "Terminated" \/ Failing)'
  BY <1>30, <1>a DEF Failing, CheckForced, CheckTerminated, CallUser
<1>31. ASSUME NEW w \in Workers, Unregister(w)
      PROVE  (life = "Terminated" \/ Failing)'
  BY <1>31, <1>a DEF Failing, Unregister
<1>32. ASSUME NEW w \in Workers, Release(w)
      PROVE  (life = "Terminated" \/ Failing)'
  BY <1>32, <1>a DEF Failing, Release
<1>33. ASSUME NEW w \in Workers, Reschedule(w)
      PROVE  (life = "Terminated" \/ Failing)'
  BY <1>33, <1>a DEF Failing, LifeShape, Reschedule
<1>34. CASE UNCHANGED vars
  BY <1>34, <1>a DEF Failing
<1> QED
  BY NextCases, <1>1, <1>2, <1>3, <1>4, <1>5, <1>6, <1>7, <1>8, <1>9, <1>10,
       <1>11, <1>12, <1>13, <1>14, <1>15, <1>16, <1>17, <1>18, <1>19, <1>20,
       <1>21, <1>22, <1>23, <1>24, <1>25, <1>26, <1>27, <1>28, <1>29, <1>30,
       <1>31, <1>32, <1>33, <1>34

\* Polling keeps every claim, moving the first one of pendingQueues.
LEMMA PopKeepsClaims ==
  ASSUME TypeOK, PcShape, HandShape, NEW w \in Workers, PopPending(w),
         pc[w] \in {"first", "next", "spin", "sample"}
  PROVE  \A c \in Conns : Stranded(c)' => Stranded(c)
<1>1. /\ pending # <<>> /\ hand' = [hand EXCEPT ![w] = Head(pending)]
      /\ pending' = Tail(pending) /\ pc' = [pc EXCEPT ![w] = "dequeue"]
      /\ queue' = queue /\ conn' = conn /\ target' = target
      /\ remaining' = remaining
  BY DEF PopPending, Goto, connVars, sendVars
<1>2. pending \in Seq(Conns) /\ pc \in [Threads -> Pcs]
      /\ hand \in [Workers -> Conns \cup {Null}] /\ Workers \subseteq Threads
      /\ remaining \in [Workers -> Nat]
  BY DEF TypeOK, Threads
<1>3. Len(pending) \in Nat \ {0} /\ Len(pending') = Len(pending) - 1
      /\ hand'[w] = pending[1] /\ Drains(w)'
      /\ \A i \in 1 .. Len(pending) - 1 : pending'[i] = pending[i + 1]
  BY <1>1, <1>2, TailElements DEF Drains, At
<1>4. ~Drains(w)
  <2>1. ~At(w, "dequeue") /\ ~At(w, "drain") /\ stage[w] = "none"
    BY DEF At, PcShape, UserPcs
  <2> QED
    BY <2>1, <1>2 DEF Drains, HandShape
<1>5. \A c \in Conns : Claimed(c) => Claimed(c)'
  <2> SUFFICES ASSUME NEW c \in Conns, Claimed(c) PROVE Claimed(c)'
    OBVIOUS
  <2>1. ASSUME NEW i \in 1 .. Len(pending), pending[i] = c
        PROVE  Claimed(c)'
    <3>1. CASE i = 1
      BY <2>1, <3>1, <1>3 DEF Claimed
    <3>2. CASE i # 1
      <4>1. i - 1 \in 1 .. Len(pending) - 1 /\ (i - 1) + 1 = i
        BY <3>2, <1>3
      <4>2. pending'[i - 1] = c /\ i - 1 \in 1 .. Len(pending')
        BY <4>1, <2>1, <1>3
      <4> QED
        BY <4>2 DEF Claimed
    <3> QED
      BY <3>1, <3>2
  <2>2. ASSUME NEW v \in Workers, Drains(v), hand[v] = c
        PROVE  Claimed(c)'
    <3>1. v # w /\ Drains(v)' /\ hand'[v] = c
      BY <2>2, <1>1, <1>2, <1>4 DEF Drains, At
    <3> QED
      BY <3>1 DEF Claimed
  <2>3. ASSUME NEW t \in Threads, At(t, "enqueued"), target[t] = c
        PROVE  Claimed(c)'
    <3>1. At(t, "enqueued")' /\ target'[t] = c
      BY <2>3, <1>1, <1>2 DEF At
    <3> QED
      BY <3>1 DEF Claimed
  <2> QED
    BY <2>1, <2>2, <2>3 DEF Claimed
<1> QED
  BY <1>1, <1>5 DEF Stranded


\* No step but a throw strands a connector: each hands its claim on.
LEMMA StrandedStep ==
  ASSUME TypeOK, PcShape, TargetShape, HandShape, OneToken, ClaimsNonEmpty, AbsentEmpty, [Next]_vars
  PROVE  \A c \in Conns : Stranded(c)' => Stranded(c) \/ Failing'
<1> USE DEF At, Goto, frameVars, connVars, sendVars, drainVars, vars
<1>a. /\ pc \in [Threads -> Pcs] /\ Workers \subseteq Threads
      /\ target \in [Threads -> Conns \cup {Null}]
      /\ hand \in [Workers -> Conns \cup {Null}]
      /\ remaining \in [Workers -> Nat]
      /\ conn \in [Conns -> {"absent", "open", "closing", "sealed"}]
      /\ failure \in [Workers -> {"no", "thrown", "caught"}]
  BY DEF TypeOK, Threads
<1>1. CASE SpawnOpenMain
  <2>1. /\ Main \in Conns /\ queue[Main] = <<>> /\ queue' = queue
        /\ \A c \in Conns \ {Main} : conn'[c] = conn[c]
        /\ pending' = pending /\ hand' = hand /\ remaining' = remaining
        /\ target' = target
    BY <1>1, <1>a, ConnsAssumption DEF AbsentEmpty, SpawnOpenMain, OpenConnector,
       sendVars, drainVars
  <2>2. \A c \in Conns : Claimed(c) => Claimed(c)'
    <3>1. /\ \A v \in Workers : Drains(v) => Drains(v)'
          /\ \A u \in Threads : At(u, "enqueued") => At(u, "enqueued")'
      BY <1>1, <1>a, <2>1, ThreadsAssumption DEF SpawnOpenMain, Drains, At, Goto, Threads
    <3> QED
      BY <2>1, <3>1 DEF Claimed
  <2> QED
    BY <2>1, <2>2 DEF Stranded
<1>2. CASE SpawnOpenSys
  <2>1. /\ Sys \in Conns /\ queue[Sys] = <<>> /\ queue' = queue
        /\ \A c \in Conns \ {Sys} : conn'[c] = conn[c]
        /\ pending' = pending /\ hand' = hand /\ remaining' = remaining
        /\ target' = target
    BY <1>2, <1>a, ConnsAssumption DEF AbsentEmpty, SpawnOpenSys, OpenConnector,
       sendVars, drainVars
  <2>2. \A c \in Conns : Claimed(c) => Claimed(c)'
    <3>1. /\ \A v \in Workers : Drains(v) => Drains(v)'
          /\ \A u \in Threads : At(u, "enqueued") => At(u, "enqueued")'
      BY <1>2, <1>a, <2>1, ThreadsAssumption DEF SpawnOpenSys, Drains, At, Goto, Threads
    <3> QED
      BY <2>1, <3>1 DEF Claimed
  <2> QED
    BY <2>1, <2>2 DEF Stranded
<1>3. CASE SpawnActivate
  BY <1>3, <1>a DEF Stranded, Claimed, Drains, PcShape, UserPcs, SpawnActivate
<1>4. ASSUME NEW t \in Threads, Schedule(t)
      PROVE  \A c \in Conns : Stranded(c)' => Stranded(c) \/ Failing'
  BY <1>4, <1>a DEF Stranded, Claimed, Drains, PcShape, UserPcs, Schedule,
       Resume
<1>5. ASSUME NEW t \in Threads, SendEnqueue(t)
      PROVE  \A c \in Conns : Stranded(c)' => Stranded(c) \/ Failing'
  <2>1. target[t] \in Conns /\ pc[t] = "checked"
    BY <1>5 DEF TargetShape, SendEnqueue, At
  <2>2. /\ conn' = conn /\ \A c \in Conns \ {target[t]} : queue'[c] = queue[c]
        /\ pending' = pending /\ hand' = hand /\ remaining' = remaining
        /\ \A u \in Threads \ {t} : pc'[u] = pc[u] /\ target'[u] = target[u]
        /\ pc'[t] # "checked"
    BY <1>5, <1>a, <2>1 DEF SendEnqueue, Goto, Resume, At, frameVars, drainVars
  <2>3. \A c \in Conns : Claimed(c) => Claimed(c)'
    <3>1. /\ \A v \in Workers : Drains(v) => Drains(v)'
          /\ \A u \in Threads : At(u, "enqueued") =>
                At(u, "enqueued")' /\ target'[u] = target[u]
      BY <2>1, <2>2, <1>a DEF Drains, At
    <3> QED
      BY <2>2, <3>1 DEF Claimed
  <2>4. CASE queue[target[t]] = <<>>
    <3>1. At(t, "enqueued")' /\ target'[t] = target[t]
      BY <1>5, <2>4, <1>a DEF SendEnqueue, Goto, At
    <3>2. \A c \in Conns : c = target[t] => Claimed(c)'
      BY <3>1 DEF Claimed
    <3> QED
      BY <2>2, <2>3, <3>2 DEF Stranded
  <2>5. CASE queue[target[t]] # <<>>
    BY <2>1, <2>2, <2>3, <2>5 DEF Stranded
  <2> QED
    BY <2>4, <2>5
<1>6. ASSUME NEW t \in Threads, SendRegister(t)
      PROVE  \A c \in Conns : Stranded(c)' => Stranded(c) \/ Failing'
  <2>1. target[t] \in Conns /\ pending \in Seq(Conns) /\ pc[t] = "enqueued"
    BY <1>6 DEF TargetShape, TypeOK, SendRegister, At
  <2>2. /\ pending' = Append(pending, target[t]) /\ queue' = queue
        /\ conn' = conn /\ hand' = hand /\ remaining' = remaining
        /\ \A u \in Threads \ {t} : pc'[u] = pc[u] /\ target'[u] = target[u]
    BY <1>6, <1>a DEF SendRegister, Goto, connVars, drainVars
  <2>3. /\ \A i \in 1 .. Len(pending) :
             i \in 1 .. Len(pending') /\ pending'[i] = pending[i]
        /\ Len(pending) + 1 \in 1 .. Len(pending')
        /\ pending'[Len(pending) + 1] = target[t]
    BY <2>1, <2>2, AppendElements
  <2>4. /\ \A v \in Workers : Drains(v) => Drains(v)'
        /\ \A u \in Threads \ {t} : At(u, "enqueued") => At(u, "enqueued")'
    BY <2>1, <2>2, <1>a DEF Drains, At
  <2>5. \A c \in Conns : Claimed(c) => Claimed(c)'
    BY <2>2, <2>3, <2>4 DEF Claimed
  <2> QED
    BY <2>2, <2>5 DEF Stranded
<1>7. ASSUME NEW t \in Threads, NEW c \in Conns, NEW m \in Msgs, SendCheck(t, c, m)
      PROVE  \A d \in Conns : Stranded(d)' => Stranded(d) \/ Failing'
  BY <1>7, <1>a DEF Stranded, Claimed, Drains, PcShape, UserPcs, SendCheck
<1>8. ASSUME NEW w \in Workers, NEW c \in Conns, UserOpen(w, c)
      PROVE  \A d \in Conns : Stranded(d)' => Stranded(d) \/ Failing'
  <2>1. /\ c \in Conns /\ queue[c] = <<>> /\ queue' = queue
        /\ \A d \in Conns \ {c} : conn'[d] = conn[d]
        /\ pending' = pending /\ hand' = hand /\ remaining' = remaining
        /\ target' = target
    BY <1>8, <1>a DEF AbsentEmpty, UserOpen, OpenConnector,
       sendVars, drainVars
  <2>2. \A d \in Conns : Claimed(d) => Claimed(d)'
    <3>1. /\ \A v \in Workers : Drains(v) => Drains(v)'
          /\ \A u \in Threads : At(u, "enqueued") => At(u, "enqueued")'
      BY <1>8, <1>a, <2>1, ThreadsAssumption DEF UserOpen, Drains, At, Goto, Threads
    <3> QED
      BY <2>1, <3>1 DEF Claimed
  <2> QED
    BY <2>1, <2>2 DEF Stranded
<1>9. ASSUME NEW w \in Workers, NEW c \in Conns, UserSeal(w, c)
      PROVE  \A d \in Conns : Stranded(d)' => Stranded(d) \/ Failing'
  BY <1>9, <1>a DEF Stranded, Claimed, Drains, PcShape, UserPcs, UserSeal,
       NonDaemons
<1>10. ASSUME NEW w \in Workers, TakeTask(w)
      PROVE  \A c \in Conns : Stranded(c)' => Stranded(c) \/ Failing'
  BY <1>10, <1>a DEF Stranded, Claimed, Drains, PcShape, UserPcs, TakeTask
<1>11. ASSUME NEW w \in Workers, Enter(w)
      PROVE  \A c \in Conns : Stranded(c)' => Stranded(c) \/ Failing'
  BY <1>11, <1>a DEF Stranded, Claimed, Drains, PcShape, UserPcs, Enter
<1>12. ASSUME NEW w \in Workers, CheckFresh(w)
      PROVE  \A c \in Conns : Stranded(c)' => Stranded(c) \/ Failing'
  BY <1>12, <1>a DEF Stranded, Claimed, Drains, PcShape, UserPcs, CheckFresh,
       CallUser
<1>13. ASSUME NEW w \in Workers, Create(w)
      PROVE  \A c \in Conns : Stranded(c)' => Stranded(c) \/ Failing'
  BY <1>13, <1>a DEF Stranded, Claimed, Drains, PcShape, UserPcs, Create,
       CallUser
<1>14. ASSUME NEW w \in Workers, CreateFails(w)
      PROVE  \A c \in Conns : Stranded(c)' => Stranded(c) \/ Failing'
  BY <1>14, <1>a DEF Stranded, Claimed, Drains, PcShape, UserPcs, CreateFails
<1>15. ASSUME NEW w \in Workers, Unreact(w)
      PROVE  \A c \in Conns : Stranded(c)' => Stranded(c) \/ Failing'
  BY <1>15, <1>a DEF Stranded, Claimed, Drains, PcShape, UserPcs, Unreact
<1>16. ASSUME NEW w \in Workers, UserReturn(w)
      PROVE  \A c \in Conns : Stranded(c)' => Stranded(c) \/ Failing'
  BY <1>16, <1>a DEF Stranded, Claimed, Drains, PcShape, UserPcs, UserReturn,
       ReturnTo
<1>17. ASSUME NEW w \in Workers, UserStarts(w)
      PROVE  \A c \in Conns : Stranded(c)' => Stranded(c) \/ Failing'
  BY <1>17, <1>a DEF Stranded, Claimed, Drains, PcShape, UserPcs, UserStarts,
       CallUser
<1>18. ASSUME NEW w \in Workers, BatchStart(w)
      PROVE  \A c \in Conns : Stranded(c)' => Stranded(c) \/ Failing'
  BY <1>18, <1>a DEF Stranded, Claimed, Drains, PcShape, UserPcs, BatchStart
<1>19. ASSUME NEW w \in Workers, UserThrow(w)
      PROVE  \A c \in Conns : Stranded(c)' => Stranded(c) \/ Failing'
  <2>1. failure'[w] # "no"
    BY <1>19, <1>a DEF UserThrow
  <2> QED
    BY <2>1 DEF Failing
<1>20. ASSUME NEW w \in Workers, PopFirst(w)
      PROVE  \A c \in Conns : Stranded(c)' => Stranded(c) \/ Failing'
  <2>1. CASE PopPending(w)
    <3>1. pc[w] \in {"first", "next", "spin", "sample"}
      BY <1>20 DEF PopFirst, At
    <3> QED
      BY <2>1, <3>1, PopKeepsClaims
  <2>2. CASE ~PopPending(w)
    BY <1>20, <2>2, <1>a DEF Stranded, Claimed, Drains, PcShape, UserPcs, At, PopFirst,
       GiveUp, Goto, frameVars, connVars, sendVars, drainVars
  <2> QED
    BY <2>1, <2>2
<1>21. ASSUME NEW w \in Workers, PopNext(w)
      PROVE  \A c \in Conns : Stranded(c)' => Stranded(c) \/ Failing'
  <2>1. CASE PopPending(w)
    <3>1. pc[w] \in {"first", "next", "spin", "sample"}
      BY <1>21 DEF PopNext, At
    <3> QED
      BY <2>1, <3>1, PopKeepsClaims
  <2>2. CASE ~PopPending(w)
    BY <1>21, <2>2, <1>a DEF Stranded, Claimed, Drains, PcShape, UserPcs, At, PopNext,
       GiveUp, Preempt, CallUser, Goto, frameVars, connVars, sendVars, drainVars
  <2> QED
    BY <2>1, <2>2
<1>22. ASSUME NEW w \in Workers, PopSpin(w)
      PROVE  \A c \in Conns : Stranded(c)' => Stranded(c) \/ Failing'
  <2>1. CASE PopPending(w)
    <3>1. pc[w] \in {"first", "next", "spin", "sample"}
      BY <1>22 DEF PopSpin, At
    <3> QED
      BY <2>1, <3>1, PopKeepsClaims
  <2>2. CASE ~PopPending(w)
    BY <1>22, <2>2, <1>a DEF Stranded, Claimed, Drains, PcShape, UserPcs, At, PopSpin,
       GiveUp, Goto, frameVars, connVars, sendVars, drainVars
  <2> QED
    BY <2>1, <2>2
<1>23. ASSUME NEW w \in Workers, PopSample(w)
      PROVE  \A c \in Conns : Stranded(c)' => Stranded(c) \/ Failing'
  <2>1. CASE PopPending(w)
    <3>1. pc[w] \in {"first", "next", "spin", "sample"}
      BY <1>23 DEF PopSample, At
    <3> QED
      BY <2>1, <3>1, PopKeepsClaims
  <2>2. CASE ~PopPending(w)
    BY <1>23, <2>2, <1>a DEF Stranded, Claimed, Drains, PcShape, UserPcs, At, PopSample,
       Preempt, CallUser, Goto, frameVars, connVars, sendVars
  <2> QED
    BY <2>1, <2>2
<1>24. ASSUME NEW w \in Workers, Dequeue(w)
      PROVE  \A c \in Conns : Stranded(c)' => Stranded(c) \/ Failing'
  <2>1. /\ hand[w] \in Conns /\ pc[w] = "dequeue"
        /\ queue[hand[w]] # <<>> /\ queue[hand[w]] \in Seq(Msgs)
    BY <1>24, <1>a DEF HandShape, ClaimsNonEmpty, Drains, Dequeue, At, TypeOK
  <2>2. /\ conn' = conn /\ pending' = pending /\ hand' = hand /\ target' = target
        /\ \A c \in Conns \ {hand[w]} : queue'[c] = queue[c]
        /\ queue'[hand[w]] = Tail(queue[hand[w]])
        /\ remaining' = [remaining EXCEPT ![w] = Len(queue[hand[w]]) - 1]
        /\ \A u \in Threads \ {w} : pc'[u] = pc[u]
    BY <1>24, <1>a, <2>1 DEF Dequeue, CallUser, Goto, frameVars, sendVars, TypeOK
  <2>3. queue'[hand[w]] # <<>> => Claimed(hand[w])'
    <3> SUFFICES ASSUME queue'[hand[w]] # <<>> PROVE Claimed(hand[w])'
      OBVIOUS
    <3>1. Tail(queue[hand[w]]) \in Seq(Msgs) /\ Len(queue[hand[w]]) \in Nat \ {0}
          /\ Len(Tail(queue[hand[w]])) = Len(queue[hand[w]]) - 1
      BY <2>1, HeadTail
    <3>2. Len(queue[hand[w]]) - 1 > 0
      BY <2>2, <3>1
    <3>3. Drains(w)' /\ hand'[w] = hand[w]
      BY <2>2, <3>2, <1>a DEF Drains
    <3> QED
      BY <3>3 DEF Claimed
  <2>4. \A c \in Conns \ {hand[w]} : Claimed(c) => Claimed(c)'
    <3>1. /\ \A v \in Workers \ {w} : Drains(v) => Drains(v)'
          /\ \A u \in Threads : At(u, "enqueued") => At(u, "enqueued")'
      BY <2>1, <2>2, <1>a DEF Drains, At
    <3> QED
      BY <2>2, <3>1 DEF Claimed
  <2> QED
    BY <2>1, <2>2, <2>3, <2>4 DEF Stranded
<1>25. ASSUME NEW w \in Workers, DrainAgain(w)
      PROVE  \A c \in Conns : Stranded(c)' => Stranded(c) \/ Failing'
  BY <1>25, <1>a DEF Stranded, Claimed, Drains, PcShape, UserPcs, DrainAgain,
       HasMore
<1>26. ASSUME NEW w \in Workers, DrainNext(w)
      PROVE  \A c \in Conns : Stranded(c)' => Stranded(c) \/ Failing'
  BY <1>26, <1>a DEF Stranded, Claimed, Drains, PcShape, UserPcs, DrainNext,
       HasMore
<1>27. ASSUME NEW w \in Workers, DrainPreempted(w)
      PROVE  \A c \in Conns : Stranded(c)' => Stranded(c) \/ Failing'
  <2>1. pc[w] = "drain" /\ hand[w] \in Conns /\ pending \in Seq(Conns)
    BY <1>27 DEF DrainPreempted, PreemptedAt, HandShape, At, TypeOK
  <2>2. /\ conn' = conn /\ queue' = queue /\ target' = target
        /\ hand' = [hand EXCEPT ![w] = Null]
        /\ remaining' = [remaining EXCEPT ![w] = 0]
        /\ \A u \in Threads \ {w} : pc'[u] = pc[u]
        /\ pending' = IF HasMore(w) THEN Append(pending, hand[w]) ELSE pending
    BY <1>27, <1>a DEF DrainPreempted, PreemptedAt, CallUser, Goto, connVars, sendVars
  <2>3. /\ \A v \in Workers \ {w} : Drains(v) => Drains(v)' /\ hand'[v] = hand[v]
        /\ \A u \in Threads : At(u, "enqueued") => At(u, "enqueued")'
    BY <2>1, <2>2, <1>a DEF Drains, At
  <2>4. \A i \in 1 .. Len(pending) :
          i \in 1 .. Len(pending') /\ pending'[i] = pending[i]
    BY <2>1, <2>2, AppendElements
  <2>5. \A c \in Conns \ {hand[w]} : Claimed(c) => Claimed(c)'
    BY <2>2, <2>3, <2>4 DEF Claimed
  <2>6. CASE HasMore(w)
    <3>1. /\ Len(pending) + 1 \in 1 .. Len(pending')
          /\ pending'[Len(pending) + 1] = hand[w]
      BY <2>1, <2>2, <2>6, AppendElements
    <3>2. \A c \in Conns : c = hand[w] => Claimed(c)'
      BY <3>1 DEF Claimed
    <3> QED
      BY <2>2, <2>5, <3>2 DEF Stranded
  <2>7. CASE ~HasMore(w)
    <3>1. conn[hand[w]] = "open" => ~Drains(w)
      BY <2>1, <2>7 DEF HasMore, Drains, At
    <3>2. \A c \in Conns : c = hand[w] /\ conn[c] = "open" /\ Claimed(c)
                             => Claimed(c)'
      BY <3>1, <2>2, <2>3, <2>4 DEF Claimed
    <3> QED
      BY <2>2, <2>5, <3>2 DEF Stranded
  <2> QED
    BY <2>6, <2>7
<1>28. ASSUME NEW w \in Workers, CheckExit(w)
      PROVE  \A c \in Conns : Stranded(c)' => Stranded(c) \/ Failing'
  BY <1>28, <1>a DEF Stranded, Claimed, Drains, PcShape, UserPcs, CheckExit,
       CheckTerminated, CallUser
<1>29. ASSUME NEW w \in Workers, Catch(w)
      PROVE  \A c \in Conns : Stranded(c)' => Stranded(c) \/ Failing'
  BY <1>29, <1>a DEF Stranded, Claimed, Drains, PcShape, UserPcs, Catch,
       CallUser
<1>30. ASSUME NEW w \in Workers, CheckForced(w)
      PROVE  \A c \in Conns : Stranded(c)' => Stranded(c) \/ Failing'
  BY <1>30, <1>a DEF Stranded, Claimed, Drains, PcShape, UserPcs, CheckForced,
       CheckTerminated, CallUser
<1>31. ASSUME NEW w \in Workers, Unregister(w)
      PROVE  \A c \in Conns : Stranded(c)' => Stranded(c) \/ Failing'
  BY <1>31, <1>a DEF Stranded, Claimed, Drains, PcShape, UserPcs, Unregister
<1>32. ASSUME NEW w \in Workers, Release(w)
      PROVE  \A c \in Conns : Stranded(c)' => Stranded(c) \/ Failing'
  BY <1>32, <1>a DEF Stranded, Claimed, Drains, PcShape, UserPcs, Release
<1>33. ASSUME NEW w \in Workers, Reschedule(w)
      PROVE  \A c \in Conns : Stranded(c)' => Stranded(c) \/ Failing'
  BY <1>33, <1>a DEF Stranded, Claimed, Drains, PcShape, UserPcs, Reschedule
<1>34. CASE UNCHANGED vars
  BY <1>34, <1>a DEF Stranded, Claimed, Drains, PcShape, UserPcs
<1> QED
  BY NextCases, <1>1, <1>2, <1>3, <1>4, <1>5, <1>6, <1>7, <1>8, <1>9, <1>10,
       <1>11, <1>12, <1>13, <1>14, <1>15, <1>16, <1>17, <1>18, <1>19, <1>20,
       <1>21, <1>22, <1>23, <1>24, <1>25, <1>26, <1>27, <1>28, <1>29, <1>30,
       <1>31, <1>32, <1>33, <1>34

-----------------------------------------------------------------------------
(* The theorems *)

\* A frame that has just been created satisfies the invariant.
LEMMA InitInv ==
  ASSUME Init
  PROVE  FrameInv
<1>1. \A t \in Threads : pc[t] = IF t = Spawner THEN "openMain" ELSE "idle"
  BY DEF Init
<1>2. TypeOK
  <2>1. /\ conn \in [Conns -> {"absent", "open", "closing", "sealed"}]
        /\ queue \in [Conns -> Seq(Msgs)] /\ pending \in Seq(Conns)
    <3>1. <<>> \in Seq(Msgs) /\ <<>> \in Seq(Conns)
      OBVIOUS
    <3> QED
      BY <3>1 DEF Init
  <2>2. pc \in [Threads -> Pcs] /\ stage \in [Threads -> Stages]
    BY DEF Init, Pcs, Stages
  <2>3. /\ target \in [Threads -> Conns \cup {Null}]
        /\ arg \in [Threads -> Msgs \cup {Null}]
        /\ hand \in [Workers -> Conns \cup {Null}]
        /\ event \in [Workers -> Msgs \cup {Null}]
    BY DEF Init
  <2>4. /\ remaining \in [Workers -> Nat] /\ sampling \in [Workers -> BOOLEAN]
        /\ failure \in [Workers -> {"no", "thrown", "caught"}]
    BY DEF Init
  <2>5. /\ active \in BOOLEAN /\ reactor \in BOOLEAN /\ died \in BOOLEAN
        /\ life \in {"Fresh", "Running", "Terminated"}
    BY Zenon DEF Init
  <2>6. /\ activeCount \in {0, 1} /\ nonDaemonCount \in Int /\ budget \in Int
        /\ tasks \in Nat
    BY DEF Init
  <2> QED
    BY <2>1, <2>2, <2>3, <2>4, <2>5, <2>6 DEF TypeOK
<1>3. /\ \A t \in Threads : stage[t] = "none"
      /\ \A w \in Workers : remaining[w] = 0
      /\ active = FALSE /\ activeCount = 0 /\ tasks = 0
      /\ pending = <<>> /\ Len(pending) = 0
      /\ \A c \in Conns : conn[c] = "absent"
  BY DEF Init
<1>4. PcShape
  BY <1>1, <1>3, ThreadsAssumption DEF PcShape, SpawnerPcs, SenderPcs, UserPcs,
     Threads
<1>5. TargetShape /\ HandShape
  BY <1>1, <1>3, ThreadsAssumption DEF TargetShape, HandShape, At, Threads
<1>6. OneToken
  BY <1>1, <1>3, ThreadsAssumption DEF OneToken, Holds, At, Threads
<1>7. IsolatedCount /\ PendingActive
  BY <1>1, <1>3, ThreadsAssumption DEF IsolatedCount, Isolated, PendingActive,
     Threads
<1>8. Unspawned
  BY <1>1, <1>3, ThreadsAssumption DEF Unspawned, At, Threads
<1>9. ClaimsDisjoint /\ ClaimsNonEmpty
  BY <1>1, <1>3, ThreadsAssumption DEF ClaimsDisjoint, ClaimsNonEmpty, Drains,
     At, Threads
<1> QED
  BY <1>2, <1>4, <1>5, <1>6, <1>7, <1>8, <1>9 DEF FrameInv

\* FrameInv is an invariant of every frame.
THEOREM FrameInvariant == Spec => []FrameInv
<1>1. Init => FrameInv
  BY InitInv
<1>2. FrameInv /\ [Next]_vars => FrameInv'
  BY TypeStep, PcShapeStep, TargetShapeStep, HandShapeStep, OneTokenStep,
     IsolatedCountStep, PendingActiveStep, UnspawnedStep, ClaimsDisjointStep,
     ClaimsNonEmptyStep DEF FrameInv
<1> QED
  BY <1>1, <1>2, PTL DEF Spec

\* The frame's state stays well-typed; in particular Dequeue's Head and Tail
\* are always those of a non-empty ring.
THEOREM TypeCorrect == Spec => []TypeOK
<1>1. FrameInv => TypeOK
  BY DEF FrameInv
<1> QED
  BY <1>1, FrameInvariant, PTL

\* At most one worker executes a frame, and the assertions at the head of
\* executeBatch hold, for any number of workers and senders.
THEOREM IsolationHolds == Spec => []Isolation
<1>1. FrameInv => Isolation
  <2> SUFFICES ASSUME FrameInv PROVE Isolation
    OBVIOUS
  <2>1. ASSUME NEW v \in Workers, NEW w \in Workers, Executing(v), Executing(w)
        PROVE  v = w
    BY <2>1 DEF FrameInv, OneToken, Holds, Executing, Threads
  <2>2. ASSUME NEW w \in Workers, At(w, "enter")
        PROVE  active /\ activeCount = 0
    <3>1. w \in Threads /\ Holds(w)
      BY <2>2 DEF Holds, At, Threads
    <3>2. active
      BY <3>1 DEF FrameInv, OneToken
    <3>3. ~\E v \in Workers : Isolated(v)
      BY <2>1, <2>2 DEF Isolated, Executing, At
    <3>4. activeCount # 1 /\ activeCount \in {0, 1}
      BY <3>3 DEF FrameInv, IsolatedCount, TypeOK
    <3> QED
      BY <3>2, <3>4
  <2> QED
    BY <2>1, <2>2 DEF Isolation
<1> QED
  BY <1>1, FrameInvariant, PTL

\* No wake-up is lost: a living frame with pending queues is active, and an
\* active frame has an execution owed, running or about to be scheduled.
THEOREM NoLostWakeupHolds == Spec => []NoLostWakeup
<1>1. FrameInv => NoLostWakeup
  BY DEF FrameInv, PendingActive, OneToken, Holds, NoLostWakeup, Executing,
     Threads
<1> QED
  BY <1>1, FrameInvariant, PTL

\* A connector is claimed at most once, and only when it has an event.
THEOREM ClaimedOnceHolds == Spec => []ClaimedOnce
<1>1. FrameInv => ClaimedOnce
  <2> SUFFICES ASSUME FrameInv, NEW c \in Conns
               PROVE  /\ \A x, y \in Claims(c) : x = y
                      /\ Claims(c) # {} => queue[c] # <<>>
    BY DEF ClaimedOnce
  <2>1. DOMAIN pending = 1 .. Len(pending)
    BY DEF FrameInv, TypeOK
  <2>2. ASSUME NEW x \in Claims(c)
        PROVE  \/ \E i \in 1 .. Len(pending) :
                    x = <<"pending", i>> /\ pending[i] = c
               \/ \E w \in Workers : x = <<"drain", w>> /\ Drains(w) /\ hand[w] = c
               \/ \E t \in Threads :
                    x = <<"send", t>> /\ At(t, "enqueued") /\ target[t] = c
    BY <2>1, <2>2 DEF Claims, Drains
  <2>3. \A v, w \in Workers : Drains(v) /\ Drains(w) => v = w
    <3> SUFFICES ASSUME NEW v \in Workers, NEW w \in Workers, Drains(v),
                        Drains(w), v # w
                 PROVE  FALSE
      OBVIOUS
    <3>1. ~At(w, "idle")
      BY DEF FrameInv, HandShape, PcShape, UserPcs, Drains, At
    <3> QED
      BY <3>1, SoleDrainer DEF FrameInv
  <2>4. \A x, y \in Claims(c) : x = y
    BY <2>2, <2>3 DEF FrameInv, ClaimsDisjoint
  <2>5. Claims(c) # {} => queue[c] # <<>>
    BY <2>2 DEF FrameInv, ClaimsNonEmpty
  <2> QED
    BY <2>4, <2>5
<1> QED
  BY <1>1, FrameInvariant, PTL

\* What keeps events from being stranded holds for a new frame ...
LEMMA StrandInit ==
  ASSUME Init
  PROVE  StrandInv
<1>1. /\ \A c \in Conns : conn[c] = "absent" /\ queue[c] = <<>>
      /\ \A t \in Threads : pc[t] \in {"openMain", "idle"} /\ stage[t] = "none"
      /\ \A w \in Workers : pc[w] = "idle" /\ failure[w] = "no"
  BY ThreadsAssumption DEF Init, Threads
<1> QED
  BY <1>1 DEF StrandInv, LifeShape, AbsentEmpty, Stranded, At, Threads

\* ... and every step keeps it.
LEMMA StrandStep ==
  ASSUME FrameInv, StrandInv, [Next]_vars
  PROVE  StrandInv'
<1>1. LifeShape' /\ AbsentEmpty'
  BY LifeShapeStep, AbsentEmptyStep DEF FrameInv, StrandInv
<1>2. ASSUME NEW c \in Conns, Stranded(c)'
      PROVE  (life = "Terminated" \/ Failing)'
  <2>1. Stranded(c) \/ Failing'
    BY <1>2, StrandedStep DEF FrameInv, StrandInv
  <2>2. ASSUME Stranded(c) PROVE (life = "Terminated" \/ Failing)'
    BY <2>2, FailingStep DEF FrameInv, StrandInv
  <2> QED
    BY <2>1, <2>2
<1> QED
  BY <1>1, <1>2 DEF StrandInv

\* StrandInv is an invariant of every frame.
THEOREM StrandInvariant == Spec => []StrandInv
<1>1. Init => StrandInv
  BY StrandInit
<1>2. FrameInv /\ StrandInv /\ [Next]_vars => StrandInv'
  BY StrandStep
<1> QED
  BY <1>1, <1>2, FrameInvariant, PTL DEF Spec

\* No event is stranded in an open connector of a reactor that neither
\* terminates nor fails, for any number of senders, connectors and events.
THEOREM NoStrandedEventHolds == Spec => []NoStrandedEvent
<1>1. FrameInv /\ StrandInv => NoStrandedEvent
  <2> SUFFICES ASSUME FrameInv, StrandInv, NEW c \in Conns, conn[c] = "open",
                      queue[c] # <<>>
               PROVE  Claims(c) # {} \/ life = "Terminated"
                      \/ \E w \in Workers : failure[w] # "no"
    BY DEF NoStrandedEvent
  <2>1. CASE Stranded(c)
    BY <2>1 DEF StrandInv, Failing
  <2>2. CASE Claimed(c)
    <3>1. DOMAIN pending = 1 .. Len(pending)
      BY DEF FrameInv, TypeOK
    <3> QED
      BY <2>2, <3>1 DEF Claimed, Claims, Drains
  <2> QED
    BY <2>1, <2>2 DEF Stranded
<1> QED
  BY <1>1, FrameInvariant, StrandInvariant, PTL

=============================================================================

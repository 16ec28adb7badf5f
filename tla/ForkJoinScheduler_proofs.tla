----------------------- MODULE ForkJoinScheduler_proofs -----------------------
(***************************************************************************)
(* The safety of the default scheduler, for any number of workers, of      *)
(* threads outside of the pool, of frames and of attempts in postschedule. *)
(* ScheduledOnce speaks of positions in queues, which every step shifts;   *)
(* the proof speaks of the thread and the kind of place that hold a frame, *)
(* of which a step changes one at most.                                    *)
(***************************************************************************)
EXTENDS ForkJoinScheduler, TLAPS, SequenceTheorems

-----------------------------------------------------------------------------
(* The inductive invariant *)

\* The reanimator and the threads outside of the pool are in their own code;
\* the reanimator looks at a worker while it takes from its mini-queue.
PcShape ==
  /\ \A w \in Workers : pc[w] \in WorkerPcs
  /\ \A x \in Outsiders : pc[x] \in {"idle", "submit"}
  /\ pc[Reanimator] \in {"idle", "take", "resubmit"}
  /\ pc[Reanimator] = "take" => visited \in Workers

\* A worker has a frame during its batch and while the batch's code schedules.
TaskShape ==
  \A w \in Workers :
    /\ pc[w] = "batch" => task[w] # Null
    /\ task[w] # Null => pc[w] \in {"batch", "get", "cas", "fork"}

\* A thread has a frame to schedule from the call to the end of it.
ArgShape ==
  \A t \in Threads :
    arg[t] # Null <=>
      \/ t \in Workers /\ pc[t] \in {"get", "cas", "fork"}
      \/ t \in Outsiders /\ pc[t] = "submit"

\* What was read from a mini-queue is kept for the comparison and then forked
\* or submitted; only execute(arg) goes on when it has read nothing.
SeenShape ==
  \A t \in Threads :
    /\ pc[t] \in {"fork", "popCas", "flushCas", "flushFork", "take", "resubmit"}
         => seen[t] # Null
    /\ seen[t] # Null =>
         pc[t] \in {"cas", "fork", "popCas", "flushCas", "flushFork", "take",
                    "resubmit"}

\* In postschedule a worker has attempts left as long as it runs other frames,
\* and an exception is on its way only behind a batch.
StateShape ==
  \A w \in Workers :
    /\ pc[w] \in {"idle", "flush", "flushCas", "flushFork"} => state[w] = "ASLEEP"
    /\ pc[w] \in {"loop", "pop", "popCas"} => state[w] = "POSTSCHEDULING"
    /\ pc[w] \in {"batch", "get", "cas", "fork", "post"} => state[w] # "ASLEEP"
    /\ nested[w] # "no" <=> /\ state[w] = "POSTSCHEDULING"
                            /\ pc[w] \in {"batch", "get", "cas", "fork", "post"}
    /\ pc[w] \in {"pop", "popCas"} \/ nested[w] # "no" => loops[w] > 0
    /\ thrown[w] => pc[w] \in {"post", "flush", "flushCas", "flushFork"}

\* A worker that has flushed its mini-queue finds it empty until its next batch.
MiniShape ==
  \A w \in Workers : pc[w] \in {"idle", "flushFork"} => mini[w] = Null

\* The kinds of places where a frame waits, and whose they are.
Kinds == {"submitted", "deque", "mini", "arg", "taken"}
Holders == Threads \cup {Null}

\* Frame f waits at the place of kind k of thread t.
Holds(k, t, f) ==
  \/ k = "submitted" /\ t = Null /\ Contains(submitted, f)
  \/ k = "deque" /\ t \in Workers /\ Contains(deque[t], f)
  \/ k = "mini" /\ t \in Workers /\ mini[t] = f
  \/ k = "arg" /\ t \in Threads /\ arg[t] = f
  \/ k = "taken" /\ t \in Threads /\ seen[t] = f
       /\ pc[t] \in {"fork", "flushFork", "resubmit"}

\* No queue has a frame twice.
Distinct ==
  IsInjective(submitted) /\ \A w \in Workers : IsInjective(deque[w])

\* A scheduled frame waits at one place, any other frame nowhere.
OneHolder ==
  \A f \in Frames :
    /\ frame[f] = "owed" =>
         \E k \in Kinds, t \in Holders :
           /\ Holds(k, t, f)
           /\ \A l \in Kinds, u \in Holders : Holds(l, u, f) => l = k /\ u = t
    /\ frame[f] # "owed" => \A k \in Kinds, t \in Holders : ~Holds(k, t, f)

\* A running frame has one worker, any other frame none.
OneWorker ==
  /\ \A w \in Workers : task[w] # Null => frame[task[w]] = "running"
  /\ \A v, w \in Workers : task[v] = task[w] /\ task[v] # Null => v = w
  /\ \A f \in Frames : frame[f] = "running" => \E w \in Workers : task[w] = f

SchedulerInv ==
  /\ TypeOK /\ PcShape /\ TaskShape /\ ArgShape /\ SeenShape /\ StateShape
  /\ MiniShape /\ Distinct /\ OneHolder /\ OneWorker

-----------------------------------------------------------------------------
(* Queues without repetition *)

\* Appending to a queue adds its element; a new one is not repeated.
LEMMA AppendHolds ==
  ASSUME NEW s \in Seq(Frames), NEW e \in Frames
  PROVE  /\ \A f \in Frames : Contains(Append(s, e), f) <=> Contains(s, f) \/ f = e
         /\ IsInjective(s) /\ ~Contains(s, e) => IsInjective(Append(s, e))
<1>1. /\ Len(Append(s, e)) = Len(s) + 1 /\ Len(s) \in Nat
      /\ \A i \in 1 .. Len(s) : Append(s, e)[i] = s[i]
      /\ Append(s, e)[Len(s) + 1] = e
      /\ DOMAIN Append(s, e) = 1 .. Len(s) + 1 /\ DOMAIN s = 1 .. Len(s)
  OBVIOUS
<1>2. ASSUME NEW f \in Frames
      PROVE  Contains(Append(s, e), f) <=> Contains(s, f) \/ f = e
  <2>1. ASSUME Contains(Append(s, e), f) PROVE Contains(s, f) \/ f = e
    <3>1. PICK i \in 1 .. Len(s) + 1 : Append(s, e)[i] = f
      BY <1>1, <2>1 DEF Contains
    <3>2. i \in 1 .. Len(s) \/ i = Len(s) + 1
      BY <1>1
    <3> QED
      BY <1>1, <3>1, <3>2 DEF Contains
  <2>2. ASSUME Contains(s, f) PROVE Contains(Append(s, e), f)
    <3>1. PICK i \in 1 .. Len(s) : s[i] = f
      BY <2>2 DEF Contains
    <3>2. i \in 1 .. Len(Append(s, e)) /\ Append(s, e)[i] = f
      BY <1>1, <3>1
    <3> QED
      BY <3>2 DEF Contains
  <2>3. ASSUME f = e PROVE Contains(Append(s, e), f)
    <3>1. Len(s) + 1 \in 1 .. Len(Append(s, e))
      BY <1>1
    <3> QED
      BY <1>1, <2>3, <3>1 DEF Contains
  <2> QED
    BY <2>1, <2>2, <2>3
<1>3. ASSUME IsInjective(s), ~Contains(s, e) PROVE IsInjective(Append(s, e))
  <2>1. ASSUME NEW i \in 1 .. Len(s) + 1, NEW j \in 1 .. Len(s) + 1,
               Append(s, e)[i] = Append(s, e)[j]
        PROVE  i = j
    <3>1. CASE i \in 1 .. Len(s) /\ j \in 1 .. Len(s)
      BY <1>1, <1>3, <2>1, <3>1 DEF IsInjective
    <3>2. CASE i = Len(s) + 1 /\ j \in 1 .. Len(s)
      BY <1>1, <1>3, <2>1, <3>2 DEF Contains
    <3>3. CASE i \in 1 .. Len(s) /\ j = Len(s) + 1
      BY <1>1, <1>3, <2>1, <3>3 DEF Contains
    <3> QED
      BY <1>1, <3>1, <3>2, <3>3
  <2> QED
    BY <1>1, <2>1 DEF IsInjective
<1> QED
  BY <1>2, <1>3

\* Taking the first of a queue without repetition removes it from the queue.
LEMMA TailHolds ==
  ASSUME NEW s \in Seq(Frames), s # <<>>, IsInjective(s)
  PROVE  /\ Head(s) \in Frames /\ Contains(s, Head(s)) /\ Tail(s) \in Seq(Frames)
         /\ \A f \in Frames : Contains(Tail(s), f) <=> Contains(s, f) /\ f # Head(s)
         /\ IsInjective(Tail(s))
<1>1. /\ Len(s) \in Nat \ {0} /\ Len(Tail(s)) = Len(s) - 1 /\ Head(s) = s[1]
      /\ \A i \in 1 .. Len(s) - 1 : Tail(s)[i] = s[i + 1]
      /\ DOMAIN Tail(s) = 1 .. Len(s) - 1 /\ DOMAIN s = 1 .. Len(s)
      /\ Head(s) \in Frames /\ Tail(s) \in Seq(Frames)
  OBVIOUS
<1>2. \A i, j \in 1 .. Len(s) : s[i] = s[j] => i = j
  BY <1>1 DEF IsInjective
<1>3. Contains(s, Head(s))
  BY <1>1 DEF Contains
<1>4. ASSUME NEW f \in Frames
      PROVE  Contains(Tail(s), f) <=> Contains(s, f) /\ f # Head(s)
  <2>1. ASSUME Contains(Tail(s), f) PROVE Contains(s, f) /\ f # Head(s)
    <3>1. PICK i \in 1 .. Len(s) - 1 : Tail(s)[i] = f
      BY <1>1, <2>1 DEF Contains
    <3>2. i + 1 \in 1 .. Len(s) /\ s[i + 1] = f /\ 1 \in 1 .. Len(s)
      BY <1>1, <3>1
    <3>3. s[1] # f
      BY <1>2, <3>1, <3>2
    <3> QED
      BY <1>1, <3>2, <3>3 DEF Contains
  <2>2. ASSUME Contains(s, f), f # Head(s) PROVE Contains(Tail(s), f)
    <3>1. PICK i \in 1 .. Len(s) : s[i] = f
      BY <2>2 DEF Contains
    <3>2. i - 1 \in 1 .. Len(s) - 1
      BY <1>1, <2>2, <3>1
    <3>3. Tail(s)[i - 1] = s[(i - 1) + 1] /\ (i - 1) + 1 = i
      BY <1>1, <3>2
    <3> QED
      BY <1>1, <3>1, <3>2, <3>3 DEF Contains
  <2> QED
    BY <2>1, <2>2
<1>5. IsInjective(Tail(s))
  <2>1. ASSUME NEW i \in 1 .. Len(s) - 1, NEW j \in 1 .. Len(s) - 1, Tail(s)[i] = Tail(s)[j]
        PROVE  i = j
    <3>1. i + 1 \in 1 .. Len(s) /\ j + 1 \in 1 .. Len(s) /\ s[i + 1] = s[j + 1]
      BY <1>1, <2>1
    <3>2. i + 1 = j + 1
      BY <1>2, <3>1
    <3> QED
      BY <3>2
  <2> QED
    BY <1>1, <2>1 DEF IsInjective
<1> QED
  BY <1>1, <1>3, <1>4, <1>5

\* Taking the last of a queue without repetition removes it from the queue.
LEMMA FrontHolds ==
  ASSUME NEW s \in Seq(Frames), s # <<>>, IsInjective(s)
  PROVE  /\ Last(s) \in Frames /\ Contains(s, Last(s)) /\ Front(s) \in Seq(Frames)
         /\ \A f \in Frames : Contains(Front(s), f) <=> Contains(s, f) /\ f # Last(s)
         /\ IsInjective(Front(s))
<1>0. /\ Len(s) \in Nat \ {0} /\ DOMAIN s = 1 .. Len(s)
      /\ \A i \in 1 .. Len(s) : s[i] \in Frames
  OBVIOUS
<1>1. /\ Len(s) \in Nat \ {0} /\ Len(Front(s)) = Len(s) - 1 /\ Last(s) = s[Len(s)]
      /\ \A i \in 1 .. Len(s) - 1 : Front(s)[i] = s[i]
      /\ DOMAIN Front(s) = 1 .. Len(s) - 1 /\ DOMAIN s = 1 .. Len(s)
      /\ Last(s) \in Frames /\ Front(s) \in Seq(Frames)
  <2>1. /\ SubSeq(s, 1, Len(s) - 1) \in Seq(Frames)
        /\ Len(SubSeq(s, 1, Len(s) - 1)) = IF 1 <= Len(s) - 1 THEN (Len(s) - 1) - 1 + 1 ELSE 0
        /\ \A i \in 1 .. (Len(s) - 1) - 1 + 1 : SubSeq(s, 1, Len(s) - 1)[i] = s[1 + i - 1]
    <3>1. 1 \in Int /\ Len(s) - 1 \in Int /\ \A i \in 1 .. Len(s) - 1 : s[i] \in Frames
      BY <1>0
    <3> QED
      BY <3>1, SubSeqProperties
  <2>2. Front(s) \in Seq(Frames) /\ Len(Front(s)) = Len(s) - 1
    BY <1>0, <2>1 DEF Front
  <2>3. ASSUME NEW i \in 1 .. Len(s) - 1 PROVE Front(s)[i] = s[i]
    <3>1. i \in 1 .. (Len(s) - 1) - 1 + 1 /\ 1 + i - 1 = i
      BY <1>0
    <3> QED
      BY <2>1, <3>1 DEF Front
  <2>4. Last(s) = s[Len(s)] /\ Last(s) \in Frames
    BY <1>0 DEF Last
  <2>5. DOMAIN Front(s) = 1 .. Len(Front(s))
    BY <2>2
  <2> QED
    BY <1>0, <2>2, <2>3, <2>4, <2>5
<1>2. \A i, j \in 1 .. Len(s) : s[i] = s[j] => i = j
  BY <1>1 DEF IsInjective
<1>3. Contains(s, Last(s))
  BY <1>1 DEF Contains
<1>4. ASSUME NEW f \in Frames
      PROVE  Contains(Front(s), f) <=> Contains(s, f) /\ f # Last(s)
  <2>1. ASSUME Contains(Front(s), f) PROVE Contains(s, f) /\ f # Last(s)
    <3>1. PICK i \in 1 .. Len(s) - 1 : Front(s)[i] = f
      BY <1>1, <2>1 DEF Contains
    <3>2. i \in 1 .. Len(s) /\ s[i] = f /\ Len(s) \in 1 .. Len(s)
      BY <1>1, <3>1
    <3>3. s[Len(s)] # f
      BY <1>1, <1>2, <3>1, <3>2
    <3> QED
      BY <1>1, <3>2, <3>3 DEF Contains
  <2>2. ASSUME Contains(s, f), f # Last(s) PROVE Contains(Front(s), f)
    <3>1. PICK i \in 1 .. Len(s) : s[i] = f
      BY <2>2 DEF Contains
    <3>2. i \in 1 .. Len(s) - 1
      BY <1>1, <2>2, <3>1
    <3> QED
      BY <1>1, <3>1, <3>2 DEF Contains
  <2> QED
    BY <2>1, <2>2
<1>5. IsInjective(Front(s))
  BY <1>1, <1>2 DEF IsInjective
<1> QED
  BY <1>1, <1>3, <1>4, <1>5

-----------------------------------------------------------------------------
(* The steps, one case each *)

\* A step is one of the actions of the workers, the reanimator and the outside
\* threads, or none.
LEMMA NextCases ==
  ASSUME [Next]_vars
  PROVE  \/ \E w \in Workers :
              \/ ExecuteGet(w) \/ ExecuteCas(w) \/ ExecuteFork(w)
              \/ Postschedule(w) \/ PostscheduleNested(w)
              \/ LoopPoll(w) \/ LoopPop(w) \/ LoopEnds(w) \/ PopGet(w) \/ PopCas(w)
              \/ FlushGet(w) \/ FlushCas(w) \/ FlushFork(w)
              \/ Finish(w) \/ FinishAndSchedule(w) \/ Throw(w)
              \/ PopOwn(w) \/ TakeSubmission(w) \/ Reanimate(w)
         \/ \E w \in Workers, g \in Frames : Send(w, g)
         \/ \E w \in Workers, v \in Workers : Steal(w, v)
         \/ \E x \in Outsiders : Submit(x)
         \/ \E x \in Outsiders, g \in Frames : OutsiderSends(x, g)
         \/ ReanimateCas \/ Resubmit
         \/ UNCHANGED vars
BY DEF Next, WorkerCode, UserCode, Stopped

\* Every step keeps the threads in their own code.
LEMMA PcShapeStep ==
  ASSUME SchedulerInv, [Next]_vars
  PROVE  PcShape'
<1>a. /\ pc \in [Threads -> WorkerPcs \cup OtherPcs]
      /\ visited \in Workers \cup {Null}
  BY DEF SchedulerInv, TypeOK, States
<1>b. /\ Workers \subseteq Threads /\ Outsiders \subseteq Threads /\ Reanimator \in Threads
      /\ Reanimator \notin Workers /\ Reanimator \notin Outsiders
      /\ \A t \in Outsiders : t \notin Workers
      /\ \A t \in Threads : t \in Workers \/ t \in Outsiders \/ t = Reanimator
      /\ Null \notin Frames /\ Null \notin Workers
  BY SchedulerAssumption DEF Threads
<1> USE DEF vars
<1>1. ASSUME NEW w \in Workers, ExecuteGet(w) PROVE PcShape'
  BY <1>1, <1>a, <1>b
     DEF SchedulerInv, PcShape, WorkerPcs, ExecuteGet, At, Goto, Read
<1>2. ASSUME NEW w \in Workers, ExecuteCas(w) PROVE PcShape'
  BY <1>2, <1>a, <1>b
     DEF SchedulerInv, PcShape, WorkerPcs, ExecuteCas, At, Goto
<1>3. ASSUME NEW w \in Workers, ExecuteFork(w) PROVE PcShape'
  BY <1>3, <1>a, <1>b
     DEF SchedulerInv, PcShape, WorkerPcs, ExecuteFork, At, Goto, Fork
<1>4. ASSUME NEW w \in Workers, Postschedule(w) PROVE PcShape'
  BY <1>4, <1>a, <1>b
     DEF SchedulerInv, PcShape, WorkerPcs, Postschedule, At, Goto
<1>5. ASSUME NEW w \in Workers, PostscheduleNested(w) PROVE PcShape'
  BY <1>5, <1>a, <1>b
     DEF SchedulerInv, PcShape, WorkerPcs, PostscheduleNested, At, Goto, Leave
<1>6. ASSUME NEW w \in Workers, LoopPoll(w) PROVE PcShape'
  BY <1>6, <1>a, <1>b
     DEF SchedulerInv, PcShape, WorkerPcs, LoopPoll, At, Goto, Run
<1>7. ASSUME NEW w \in Workers, LoopPop(w) PROVE PcShape'
  BY <1>7, <1>a, <1>b
     DEF SchedulerInv, PcShape, WorkerPcs, LoopPop, At, Goto
<1>8. ASSUME NEW w \in Workers, LoopEnds(w) PROVE PcShape'
  BY <1>8, <1>a, <1>b
     DEF SchedulerInv, PcShape, WorkerPcs, LoopEnds, At, Goto, Leave
<1>9. ASSUME NEW w \in Workers, PopGet(w) PROVE PcShape'
  BY <1>9, <1>a, <1>b
     DEF SchedulerInv, PcShape, WorkerPcs, PopGet, At, Goto, Read, Leave
<1>10. ASSUME NEW w \in Workers, PopCas(w) PROVE PcShape'
  BY <1>10, <1>a, <1>b
     DEF SchedulerInv, PcShape, WorkerPcs, PopCas, At, Goto, Run
<1>11. ASSUME NEW w \in Workers, FlushGet(w) PROVE PcShape'
  BY <1>11, <1>a, <1>b
     DEF SchedulerInv, PcShape, WorkerPcs, FlushGet, At, Goto, Read
<1>12. ASSUME NEW w \in Workers, FlushCas(w) PROVE PcShape'
  BY <1>12, <1>a, <1>b
     DEF SchedulerInv, PcShape, WorkerPcs, FlushCas, At, Goto
<1>13. ASSUME NEW w \in Workers, FlushFork(w) PROVE PcShape'
  BY <1>13, <1>a, <1>b
     DEF SchedulerInv, PcShape, WorkerPcs, FlushFork, At, Goto, Fork
<1>14. ASSUME NEW w \in Workers, NEW g \in Frames, Send(w, g) PROVE PcShape'
  BY <1>14, <1>a, <1>b
     DEF SchedulerInv, PcShape, WorkerPcs, Send, At, Goto
<1>15. ASSUME NEW w \in Workers, Finish(w) PROVE PcShape'
  BY <1>15, <1>a, <1>b
     DEF SchedulerInv, PcShape, WorkerPcs, Finish, At, Goto
<1>16. ASSUME NEW w \in Workers, FinishAndSchedule(w) PROVE PcShape'
  BY <1>16, <1>a, <1>b
     DEF SchedulerInv, PcShape, WorkerPcs, FinishAndSchedule, At, Goto
<1>17. ASSUME NEW w \in Workers, Throw(w) PROVE PcShape'
  BY <1>17, <1>a, <1>b
     DEF SchedulerInv, PcShape, WorkerPcs, Throw, At, Goto
<1>18. ASSUME NEW w \in Workers, PopOwn(w) PROVE PcShape'
  BY <1>18, <1>a, <1>b
     DEF SchedulerInv, PcShape, WorkerPcs, PopOwn, At, Goto, Run
<1>19. ASSUME NEW w \in Workers, TakeSubmission(w) PROVE PcShape'
  BY <1>19, <1>a, <1>b
     DEF SchedulerInv, PcShape, WorkerPcs, TakeSubmission, At, Goto, Run, Hungry
<1>20. ASSUME NEW w \in Workers, NEW v \in Workers, Steal(w, v) PROVE PcShape'
  BY <1>20, <1>a, <1>b
     DEF SchedulerInv, PcShape, WorkerPcs, Steal, Hungry, Run, At, Goto
<1>21. ASSUME NEW w \in Workers, Reanimate(w) PROVE PcShape'
  BY <1>21, <1>a, <1>b
     DEF SchedulerInv, PcShape, WorkerPcs, Reanimate, Read, At, Goto
<1>22. ASSUME NEW x \in Outsiders, Submit(x) PROVE PcShape'
  BY <1>22, <1>a, <1>b
     DEF SchedulerInv, PcShape, WorkerPcs, Submit, At, Goto
<1>23. ASSUME NEW x \in Outsiders, NEW g \in Frames, OutsiderSends(x, g) PROVE PcShape'
  BY <1>23, <1>a, <1>b
     DEF SchedulerInv, PcShape, WorkerPcs, OutsiderSends, At, Goto
<1>24. CASE ReanimateCas
  BY <1>24, <1>a, <1>b
     DEF SchedulerInv, PcShape, WorkerPcs, ReanimateCas, At, Goto
<1>25. CASE Resubmit
  BY <1>25, <1>a, <1>b
     DEF SchedulerInv, PcShape, WorkerPcs, Resubmit, At, Goto
<1>26. CASE UNCHANGED vars
  BY <1>26
     DEF SchedulerInv, PcShape, WorkerPcs
<1> QED
  BY NextCases, <1>1, <1>2, <1>3, <1>4, <1>5, <1>6, <1>7, <1>8, <1>9, <1>10, <1>11,
     <1>12, <1>13, <1>14, <1>15, <1>16, <1>17, <1>18, <1>19, <1>20, <1>21, <1>22, <1>23,
     <1>24, <1>25, <1>26

\* Every step keeps the frames of the workers.
LEMMA TaskShapeStep ==
  ASSUME SchedulerInv, [Next]_vars
  PROVE  TaskShape'
<1>a. /\ pc \in [Threads -> WorkerPcs \cup OtherPcs]
      /\ task \in [Workers -> Frames \cup {Null}]
      /\ seen \in [Threads -> Frames \cup {Null}]
      /\ submitted \in Seq(Frames)
      /\ deque \in [Workers -> Seq(Frames)]
  BY DEF SchedulerInv, TypeOK, States
<1>b. /\ Workers \subseteq Threads /\ Outsiders \subseteq Threads /\ Reanimator \in Threads
      /\ Reanimator \notin Workers /\ Reanimator \notin Outsiders
      /\ \A t \in Outsiders : t \notin Workers
      /\ \A t \in Threads : t \in Workers \/ t \in Outsiders \/ t = Reanimator
      /\ Null \notin Frames /\ Null \notin Workers
  BY SchedulerAssumption DEF Threads
<1> USE DEF vars
<1>1. ASSUME NEW w \in Workers, ExecuteGet(w) PROVE TaskShape'
  BY <1>1, <1>a, <1>b
     DEF SchedulerInv, TaskShape, PcShape, WorkerPcs, SeenShape, ExecuteGet, At, Goto,
         Read
<1>2. ASSUME NEW w \in Workers, ExecuteCas(w) PROVE TaskShape'
  BY <1>2, <1>a, <1>b
     DEF SchedulerInv, TaskShape, PcShape, WorkerPcs, SeenShape, ExecuteCas, At, Goto
<1>3. ASSUME NEW w \in Workers, ExecuteFork(w) PROVE TaskShape'
  BY <1>3, <1>a, <1>b
     DEF SchedulerInv, TaskShape, PcShape, WorkerPcs, SeenShape, ExecuteFork, At, Goto,
         Fork
<1>4. ASSUME NEW w \in Workers, Postschedule(w) PROVE TaskShape'
  BY <1>4, <1>a, <1>b
     DEF SchedulerInv, TaskShape, PcShape, WorkerPcs, SeenShape, Postschedule, At, Goto
<1>5. ASSUME NEW w \in Workers, PostscheduleNested(w) PROVE TaskShape'
  BY <1>5, <1>a, <1>b
     DEF SchedulerInv, TaskShape, PcShape, WorkerPcs, SeenShape, PostscheduleNested, At,
         Goto, Leave
<1>6. ASSUME NEW w \in Workers, LoopPoll(w) PROVE TaskShape'
  <2>1. submitted \in Seq(Frames) /\ submitted # <<>> /\ IsInjective(submitted)
    BY <1>6, <1>a DEF SchedulerInv, Distinct, LoopPoll
  <2>2. Head(submitted) \in Frames /\ Tail(submitted) \in Seq(Frames)
    BY <2>1, TailHolds
  <2> QED
    BY <1>6, <1>a, <1>b, <2>1, <2>2
       DEF SchedulerInv, TaskShape, PcShape, WorkerPcs, LoopPoll, At, Goto, Run
<1>7. ASSUME NEW w \in Workers, LoopPop(w) PROVE TaskShape'
  BY <1>7, <1>a, <1>b
     DEF SchedulerInv, TaskShape, PcShape, WorkerPcs, SeenShape, LoopPop, At, Goto
<1>8. ASSUME NEW w \in Workers, LoopEnds(w) PROVE TaskShape'
  BY <1>8, <1>a, <1>b
     DEF SchedulerInv, TaskShape, PcShape, WorkerPcs, SeenShape, LoopEnds, At, Goto,
         Leave
<1>9. ASSUME NEW w \in Workers, PopGet(w) PROVE TaskShape'
  BY <1>9, <1>a, <1>b
     DEF SchedulerInv, TaskShape, PcShape, WorkerPcs, SeenShape, PopGet, At, Goto, Read,
         Leave
<1>10. ASSUME NEW w \in Workers, PopCas(w) PROVE TaskShape'
  BY <1>10, <1>a, <1>b
     DEF SchedulerInv, TaskShape, PcShape, WorkerPcs, SeenShape, PopCas, At, Goto, Run
<1>11. ASSUME NEW w \in Workers, FlushGet(w) PROVE TaskShape'
  BY <1>11, <1>a, <1>b
     DEF SchedulerInv, TaskShape, PcShape, WorkerPcs, SeenShape, FlushGet, At, Goto,
         Read
<1>12. ASSUME NEW w \in Workers, FlushCas(w) PROVE TaskShape'
  BY <1>12, <1>a, <1>b
     DEF SchedulerInv, TaskShape, PcShape, WorkerPcs, SeenShape, FlushCas, At, Goto
<1>13. ASSUME NEW w \in Workers, FlushFork(w) PROVE TaskShape'
  BY <1>13, <1>a, <1>b
     DEF SchedulerInv, TaskShape, PcShape, WorkerPcs, SeenShape, FlushFork, At, Goto,
         Fork
<1>14. ASSUME NEW w \in Workers, NEW g \in Frames, Send(w, g) PROVE TaskShape'
  BY <1>14, <1>a, <1>b
     DEF SchedulerInv, TaskShape, PcShape, WorkerPcs, SeenShape, Send, At, Goto
<1>15. ASSUME NEW w \in Workers, Finish(w) PROVE TaskShape'
  BY <1>15, <1>a, <1>b
     DEF SchedulerInv, TaskShape, PcShape, WorkerPcs, SeenShape, Finish, At, Goto
<1>16. ASSUME NEW w \in Workers, FinishAndSchedule(w) PROVE TaskShape'
  BY <1>16, <1>a, <1>b
     DEF SchedulerInv, TaskShape, PcShape, WorkerPcs, SeenShape, FinishAndSchedule, At,
         Goto
<1>17. ASSUME NEW w \in Workers, Throw(w) PROVE TaskShape'
  BY <1>17, <1>a, <1>b
     DEF SchedulerInv, TaskShape, PcShape, WorkerPcs, SeenShape, Throw, At, Goto
<1>18. ASSUME NEW w \in Workers, PopOwn(w) PROVE TaskShape'
  <2>1. deque[w] \in Seq(Frames) /\ deque[w] # <<>> /\ IsInjective(deque[w])
    BY <1>18, <1>a DEF SchedulerInv, Distinct, PopOwn
  <2>2. Last(deque[w]) \in Frames /\ Front(deque[w]) \in Seq(Frames)
    BY <2>1, FrontHolds
  <2> QED
    BY <1>18, <1>a, <1>b, <2>1, <2>2
       DEF SchedulerInv, TaskShape, PcShape, WorkerPcs, PopOwn, At, Goto, Run
<1>19. ASSUME NEW w \in Workers, TakeSubmission(w) PROVE TaskShape'
  <2>1. submitted \in Seq(Frames) /\ submitted # <<>> /\ IsInjective(submitted)
    BY <1>19, <1>a DEF SchedulerInv, Distinct, TakeSubmission
  <2>2. Head(submitted) \in Frames /\ Tail(submitted) \in Seq(Frames)
    BY <2>1, TailHolds
  <2> QED
    BY <1>19, <1>a, <1>b, <2>1, <2>2
       DEF SchedulerInv, TaskShape, PcShape, WorkerPcs, TakeSubmission, At, Goto, Run,
           Hungry
<1>20. ASSUME NEW w \in Workers, NEW v \in Workers, Steal(w, v) PROVE TaskShape'
  <2>1. deque[v] \in Seq(Frames) /\ deque[v] # <<>> /\ IsInjective(deque[v])
    BY <1>20, <1>a DEF SchedulerInv, Distinct, Steal
  <2>2. Head(deque[v]) \in Frames /\ Tail(deque[v]) \in Seq(Frames)
    BY <2>1, TailHolds
  <2> QED
    BY <1>20, <1>a, <1>b, <2>1, <2>2
       DEF SchedulerInv, TaskShape, PcShape, WorkerPcs, Steal, Hungry, Run, At, Goto
<1>21. ASSUME NEW w \in Workers, Reanimate(w) PROVE TaskShape'
  BY <1>21, <1>a, <1>b
     DEF SchedulerInv, TaskShape, PcShape, WorkerPcs, SeenShape, Reanimate, Read, At,
         Goto
<1>22. ASSUME NEW x \in Outsiders, Submit(x) PROVE TaskShape'
  BY <1>22, <1>a, <1>b
     DEF SchedulerInv, TaskShape, PcShape, WorkerPcs, SeenShape, Submit, At, Goto
<1>23. ASSUME NEW x \in Outsiders, NEW g \in Frames, OutsiderSends(x, g)
      PROVE  TaskShape'
  BY <1>23, <1>a, <1>b
     DEF SchedulerInv, TaskShape, PcShape, WorkerPcs, SeenShape, OutsiderSends, At, Goto
<1>24. CASE ReanimateCas
  BY <1>24, <1>a, <1>b
     DEF SchedulerInv, TaskShape, PcShape, WorkerPcs, SeenShape, ReanimateCas, At, Goto
<1>25. CASE Resubmit
  BY <1>25, <1>a, <1>b
     DEF SchedulerInv, TaskShape, PcShape, WorkerPcs, SeenShape, Resubmit, At, Goto
<1>26. CASE UNCHANGED vars
  BY <1>26
     DEF SchedulerInv, TaskShape, PcShape, WorkerPcs, SeenShape
<1> QED
  BY NextCases, <1>1, <1>2, <1>3, <1>4, <1>5, <1>6, <1>7, <1>8, <1>9, <1>10, <1>11,
     <1>12, <1>13, <1>14, <1>15, <1>16, <1>17, <1>18, <1>19, <1>20, <1>21, <1>22, <1>23,
     <1>24, <1>25, <1>26

\* Every step keeps the frames that are being scheduled.
LEMMA ArgShapeStep ==
  ASSUME SchedulerInv, [Next]_vars
  PROVE  ArgShape'
<1>a. /\ pc \in [Threads -> WorkerPcs \cup OtherPcs]
      /\ arg \in [Threads -> Frames \cup {Null}]
      /\ task \in [Workers -> Frames \cup {Null}]
  BY DEF SchedulerInv, TypeOK, States
<1>b. /\ Workers \subseteq Threads /\ Outsiders \subseteq Threads /\ Reanimator \in Threads
      /\ Reanimator \notin Workers /\ Reanimator \notin Outsiders
      /\ \A t \in Outsiders : t \notin Workers
      /\ \A t \in Threads : t \in Workers \/ t \in Outsiders \/ t = Reanimator
      /\ Null \notin Frames /\ Null \notin Workers
  BY SchedulerAssumption DEF Threads
<1> USE DEF vars
<1>1. ASSUME NEW w \in Workers, ExecuteGet(w) PROVE ArgShape'
  BY <1>1, <1>a, <1>b
     DEF SchedulerInv, ArgShape, PcShape, TaskShape, WorkerPcs, ExecuteGet, At, Goto,
         Read
<1>2. ASSUME NEW w \in Workers, ExecuteCas(w) PROVE ArgShape'
  BY <1>2, <1>a, <1>b
     DEF SchedulerInv, ArgShape, PcShape, TaskShape, WorkerPcs, ExecuteCas, At, Goto
<1>3. ASSUME NEW w \in Workers, ExecuteFork(w) PROVE ArgShape'
  BY <1>3, <1>a, <1>b
     DEF SchedulerInv, ArgShape, PcShape, TaskShape, WorkerPcs, ExecuteFork, At, Goto,
         Fork
<1>4. ASSUME NEW w \in Workers, Postschedule(w) PROVE ArgShape'
  BY <1>4, <1>a, <1>b
     DEF SchedulerInv, ArgShape, PcShape, TaskShape, WorkerPcs, Postschedule, At, Goto
<1>5. ASSUME NEW w \in Workers, PostscheduleNested(w) PROVE ArgShape'
  BY <1>5, <1>a, <1>b
     DEF SchedulerInv, ArgShape, PcShape, TaskShape, WorkerPcs, PostscheduleNested, At,
         Goto, Leave
<1>6. ASSUME NEW w \in Workers, LoopPoll(w) PROVE ArgShape'
  BY <1>6, <1>a, <1>b
     DEF SchedulerInv, ArgShape, PcShape, TaskShape, WorkerPcs, LoopPoll, At, Goto, Run
<1>7. ASSUME NEW w \in Workers, LoopPop(w) PROVE ArgShape'
  BY <1>7, <1>a, <1>b
     DEF SchedulerInv, ArgShape, PcShape, TaskShape, WorkerPcs, LoopPop, At, Goto
<1>8. ASSUME NEW w \in Workers, LoopEnds(w) PROVE ArgShape'
  BY <1>8, <1>a, <1>b
     DEF SchedulerInv, ArgShape, PcShape, TaskShape, WorkerPcs, LoopEnds, At, Goto,
         Leave
<1>9. ASSUME NEW w \in Workers, PopGet(w) PROVE ArgShape'
  BY <1>9, <1>a, <1>b
     DEF SchedulerInv, ArgShape, PcShape, TaskShape, WorkerPcs, PopGet, At, Goto, Read,
         Leave
<1>10. ASSUME NEW w \in Workers, PopCas(w) PROVE ArgShape'
  BY <1>10, <1>a, <1>b
     DEF SchedulerInv, ArgShape, PcShape, TaskShape, WorkerPcs, PopCas, At, Goto, Run
<1>11. ASSUME NEW w \in Workers, FlushGet(w) PROVE ArgShape'
  BY <1>11, <1>a, <1>b
     DEF SchedulerInv, ArgShape, PcShape, TaskShape, WorkerPcs, FlushGet, At, Goto, Read
<1>12. ASSUME NEW w \in Workers, FlushCas(w) PROVE ArgShape'
  BY <1>12, <1>a, <1>b
     DEF SchedulerInv, ArgShape, PcShape, TaskShape, WorkerPcs, FlushCas, At, Goto
<1>13. ASSUME NEW w \in Workers, FlushFork(w) PROVE ArgShape'
  BY <1>13, <1>a, <1>b
     DEF SchedulerInv, ArgShape, PcShape, TaskShape, WorkerPcs, FlushFork, At, Goto,
         Fork
<1>14. ASSUME NEW w \in Workers, NEW g \in Frames, Send(w, g) PROVE ArgShape'
  BY <1>14, <1>a, <1>b
     DEF SchedulerInv, ArgShape, PcShape, TaskShape, WorkerPcs, Send, At, Goto
<1>15. ASSUME NEW w \in Workers, Finish(w) PROVE ArgShape'
  BY <1>15, <1>a, <1>b
     DEF SchedulerInv, ArgShape, PcShape, TaskShape, WorkerPcs, Finish, At, Goto
<1>16. ASSUME NEW w \in Workers, FinishAndSchedule(w) PROVE ArgShape'
  BY <1>16, <1>a, <1>b
     DEF SchedulerInv, ArgShape, PcShape, TaskShape, WorkerPcs, FinishAndSchedule, At,
         Goto
<1>17. ASSUME NEW w \in Workers, Throw(w) PROVE ArgShape'
  BY <1>17, <1>a, <1>b
     DEF SchedulerInv, ArgShape, PcShape, TaskShape, WorkerPcs, Throw, At, Goto
<1>18. ASSUME NEW w \in Workers, PopOwn(w) PROVE ArgShape'
  BY <1>18, <1>a, <1>b
     DEF SchedulerInv, ArgShape, PcShape, TaskShape, WorkerPcs, PopOwn, At, Goto, Run
<1>19. ASSUME NEW w \in Workers, TakeSubmission(w) PROVE ArgShape'
  BY <1>19, <1>a, <1>b
     DEF SchedulerInv, ArgShape, PcShape, TaskShape, WorkerPcs, TakeSubmission, At,
         Goto, Run, Hungry
<1>20. ASSUME NEW w \in Workers, NEW v \in Workers, Steal(w, v) PROVE ArgShape'
  BY <1>20, <1>a, <1>b
     DEF SchedulerInv, ArgShape, PcShape, TaskShape, WorkerPcs, Steal, Hungry, Run, At,
         Goto
<1>21. ASSUME NEW w \in Workers, Reanimate(w) PROVE ArgShape'
  BY <1>21, <1>a, <1>b
     DEF SchedulerInv, ArgShape, PcShape, TaskShape, WorkerPcs, Reanimate, Read, At,
         Goto
<1>22. ASSUME NEW x \in Outsiders, Submit(x) PROVE ArgShape'
  BY <1>22, <1>a, <1>b
     DEF SchedulerInv, ArgShape, PcShape, TaskShape, WorkerPcs, Submit, At, Goto
<1>23. ASSUME NEW x \in Outsiders, NEW g \in Frames, OutsiderSends(x, g) PROVE ArgShape'
  BY <1>23, <1>a, <1>b
     DEF SchedulerInv, ArgShape, PcShape, TaskShape, WorkerPcs, OutsiderSends, At, Goto
<1>24. CASE ReanimateCas
  BY <1>24, <1>a, <1>b
     DEF SchedulerInv, ArgShape, PcShape, TaskShape, WorkerPcs, ReanimateCas, At, Goto
<1>25. CASE Resubmit
  BY <1>25, <1>a, <1>b
     DEF SchedulerInv, ArgShape, PcShape, TaskShape, WorkerPcs, Resubmit, At, Goto
<1>26. CASE UNCHANGED vars
  BY <1>26
     DEF SchedulerInv, ArgShape, PcShape, TaskShape, WorkerPcs
<1> QED
  BY NextCases, <1>1, <1>2, <1>3, <1>4, <1>5, <1>6, <1>7, <1>8, <1>9, <1>10, <1>11,
     <1>12, <1>13, <1>14, <1>15, <1>16, <1>17, <1>18, <1>19, <1>20, <1>21, <1>22, <1>23,
     <1>24, <1>25, <1>26

\* Every step keeps what was read from the mini-queues.
LEMMA SeenShapeStep ==
  ASSUME SchedulerInv, [Next]_vars
  PROVE  SeenShape'
<1>a. /\ pc \in [Threads -> WorkerPcs \cup OtherPcs]
      /\ seen \in [Threads -> Frames \cup {Null}]
  BY DEF SchedulerInv, TypeOK, States
<1>b. /\ Workers \subseteq Threads /\ Outsiders \subseteq Threads /\ Reanimator \in Threads
      /\ Reanimator \notin Workers /\ Reanimator \notin Outsiders
      /\ \A t \in Outsiders : t \notin Workers
      /\ \A t \in Threads : t \in Workers \/ t \in Outsiders \/ t = Reanimator
      /\ Null \notin Frames /\ Null \notin Workers
  BY SchedulerAssumption DEF Threads
<1> USE DEF vars
<1>1. ASSUME NEW w \in Workers, ExecuteGet(w) PROVE SeenShape'
  BY <1>1, <1>a, <1>b
     DEF SchedulerInv, SeenShape, PcShape, WorkerPcs, ExecuteGet, At, Goto, Read
<1>2. ASSUME NEW w \in Workers, ExecuteCas(w) PROVE SeenShape'
  BY <1>2, <1>a, <1>b
     DEF SchedulerInv, SeenShape, PcShape, WorkerPcs, ExecuteCas, At, Goto
<1>3. ASSUME NEW w \in Workers, ExecuteFork(w) PROVE SeenShape'
  BY <1>3, <1>a, <1>b
     DEF SchedulerInv, SeenShape, PcShape, WorkerPcs, ExecuteFork, At, Goto, Fork
<1>4. ASSUME NEW w \in Workers, Postschedule(w) PROVE SeenShape'
  BY <1>4, <1>a, <1>b
     DEF SchedulerInv, SeenShape, PcShape, WorkerPcs, Postschedule, At, Goto
<1>5. ASSUME NEW w \in Workers, PostscheduleNested(w) PROVE SeenShape'
  BY <1>5, <1>a, <1>b
     DEF SchedulerInv, SeenShape, PcShape, WorkerPcs, PostscheduleNested, At, Goto,
         Leave
<1>6. ASSUME NEW w \in Workers, LoopPoll(w) PROVE SeenShape'
  BY <1>6, <1>a, <1>b
     DEF SchedulerInv, SeenShape, PcShape, WorkerPcs, LoopPoll, At, Goto, Run
<1>7. ASSUME NEW w \in Workers, LoopPop(w) PROVE SeenShape'
  BY <1>7, <1>a, <1>b
     DEF SchedulerInv, SeenShape, PcShape, WorkerPcs, LoopPop, At, Goto
<1>8. ASSUME NEW w \in Workers, LoopEnds(w) PROVE SeenShape'
  BY <1>8, <1>a, <1>b
     DEF SchedulerInv, SeenShape, PcShape, WorkerPcs, LoopEnds, At, Goto, Leave
<1>9. ASSUME NEW w \in Workers, PopGet(w) PROVE SeenShape'
  BY <1>9, <1>a, <1>b
     DEF SchedulerInv, SeenShape, PcShape, WorkerPcs, PopGet, At, Goto, Read, Leave
<1>10. ASSUME NEW w \in Workers, PopCas(w) PROVE SeenShape'
  BY <1>10, <1>a, <1>b
     DEF SchedulerInv, SeenShape, PcShape, WorkerPcs, PopCas, At, Goto, Run
<1>11. ASSUME NEW w \in Workers, FlushGet(w) PROVE SeenShape'
  BY <1>11, <1>a, <1>b
     DEF SchedulerInv, SeenShape, PcShape, WorkerPcs, FlushGet, At, Goto, Read
<1>12. ASSUME NEW w \in Workers, FlushCas(w) PROVE SeenShape'
  BY <1>12, <1>a, <1>b
     DEF SchedulerInv, SeenShape, PcShape, WorkerPcs, FlushCas, At, Goto
<1>13. ASSUME NEW w \in Workers, FlushFork(w) PROVE SeenShape'
  BY <1>13, <1>a, <1>b
     DEF SchedulerInv, SeenShape, PcShape, WorkerPcs, FlushFork, At, Goto, Fork
<1>14. ASSUME NEW w \in Workers, NEW g \in Frames, Send(w, g) PROVE SeenShape'
  BY <1>14, <1>a, <1>b
     DEF SchedulerInv, SeenShape, PcShape, WorkerPcs, Send, At, Goto
<1>15. ASSUME NEW w \in Workers, Finish(w) PROVE SeenShape'
  BY <1>15, <1>a, <1>b
     DEF SchedulerInv, SeenShape, PcShape, WorkerPcs, Finish, At, Goto
<1>16. ASSUME NEW w \in Workers, FinishAndSchedule(w) PROVE SeenShape'
  BY <1>16, <1>a, <1>b
     DEF SchedulerInv, SeenShape, PcShape, WorkerPcs, FinishAndSchedule, At, Goto
<1>17. ASSUME NEW w \in Workers, Throw(w) PROVE SeenShape'
  BY <1>17, <1>a, <1>b
     DEF SchedulerInv, SeenShape, PcShape, WorkerPcs, Throw, At, Goto
<1>18. ASSUME NEW w \in Workers, PopOwn(w) PROVE SeenShape'
  BY <1>18, <1>a, <1>b
     DEF SchedulerInv, SeenShape, PcShape, WorkerPcs, PopOwn, At, Goto, Run
<1>19. ASSUME NEW w \in Workers, TakeSubmission(w) PROVE SeenShape'
  BY <1>19, <1>a, <1>b
     DEF SchedulerInv, SeenShape, PcShape, WorkerPcs, TakeSubmission, At, Goto, Run,
         Hungry
<1>20. ASSUME NEW w \in Workers, NEW v \in Workers, Steal(w, v) PROVE SeenShape'
  BY <1>20, <1>a, <1>b
     DEF SchedulerInv, SeenShape, PcShape, WorkerPcs, Steal, Hungry, Run, At, Goto
<1>21. ASSUME NEW w \in Workers, Reanimate(w) PROVE SeenShape'
  BY <1>21, <1>a, <1>b
     DEF SchedulerInv, SeenShape, PcShape, WorkerPcs, Reanimate, Read, At, Goto
<1>22. ASSUME NEW x \in Outsiders, Submit(x) PROVE SeenShape'
  BY <1>22, <1>a, <1>b
     DEF SchedulerInv, SeenShape, PcShape, WorkerPcs, Submit, At, Goto
<1>23. ASSUME NEW x \in Outsiders, NEW g \in Frames, OutsiderSends(x, g)
      PROVE  SeenShape'
  BY <1>23, <1>a, <1>b
     DEF SchedulerInv, SeenShape, PcShape, WorkerPcs, OutsiderSends, At, Goto
<1>24. CASE ReanimateCas
  BY <1>24, <1>a, <1>b
     DEF SchedulerInv, SeenShape, PcShape, WorkerPcs, ReanimateCas, At, Goto
<1>25. CASE Resubmit
  BY <1>25, <1>a, <1>b
     DEF SchedulerInv, SeenShape, PcShape, WorkerPcs, Resubmit, At, Goto
<1>26. CASE UNCHANGED vars
  BY <1>26
     DEF SchedulerInv, SeenShape, PcShape, WorkerPcs
<1> QED
  BY NextCases, <1>1, <1>2, <1>3, <1>4, <1>5, <1>6, <1>7, <1>8, <1>9, <1>10, <1>11,
     <1>12, <1>13, <1>14, <1>15, <1>16, <1>17, <1>18, <1>19, <1>20, <1>21, <1>22, <1>23,
     <1>24, <1>25, <1>26

\* Every step keeps the workers' states.
LEMMA StateShapeStep ==
  ASSUME SchedulerInv, [Next]_vars
  PROVE  StateShape'
<1>a. /\ pc \in [Threads -> WorkerPcs \cup OtherPcs]
      /\ state \in [Workers -> {"ASLEEP", "AWAKE", "POSTSCHEDULING"}]
      /\ nested \in [Workers -> {"no", "poll", "mini"}]
      /\ loops \in [Workers -> 0 .. Loops]
      /\ thrown \in [Workers -> BOOLEAN]
  BY DEF SchedulerInv, TypeOK, States
<1>b. /\ Workers \subseteq Threads /\ Outsiders \subseteq Threads /\ Reanimator \in Threads
      /\ Reanimator \notin Workers /\ Reanimator \notin Outsiders
      /\ \A t \in Outsiders : t \notin Workers
      /\ \A t \in Threads : t \in Workers \/ t \in Outsiders \/ t = Reanimator
      /\ Null \notin Frames /\ Null \notin Workers
  BY SchedulerAssumption DEF Threads
<1> USE DEF vars
<1>1. ASSUME NEW w \in Workers, ExecuteGet(w) PROVE StateShape'
  BY <1>1, <1>a, <1>b, SchedulerAssumption
     DEF SchedulerInv, StateShape, PcShape, WorkerPcs, ExecuteGet, At, Goto, Read
<1>2. ASSUME NEW w \in Workers, ExecuteCas(w) PROVE StateShape'
  BY <1>2, <1>a, <1>b, SchedulerAssumption
     DEF SchedulerInv, StateShape, PcShape, WorkerPcs, ExecuteCas, At, Goto
<1>3. ASSUME NEW w \in Workers, ExecuteFork(w) PROVE StateShape'
  BY <1>3, <1>a, <1>b, SchedulerAssumption
     DEF SchedulerInv, StateShape, PcShape, WorkerPcs, ExecuteFork, At, Goto, Fork
<1>4. ASSUME NEW w \in Workers, Postschedule(w) PROVE StateShape'
  BY <1>4, <1>a, <1>b, SchedulerAssumption
     DEF SchedulerInv, StateShape, PcShape, WorkerPcs, Postschedule, At, Goto
<1>5. ASSUME NEW w \in Workers, PostscheduleNested(w) PROVE StateShape'
  BY <1>5, <1>a, <1>b, SchedulerAssumption
     DEF SchedulerInv, StateShape, PcShape, WorkerPcs, PostscheduleNested, At, Goto,
         Leave
<1>6. ASSUME NEW w \in Workers, LoopPoll(w) PROVE StateShape'
  BY <1>6, <1>a, <1>b, SchedulerAssumption
     DEF SchedulerInv, StateShape, PcShape, WorkerPcs, LoopPoll, At, Goto, Run
<1>7. ASSUME NEW w \in Workers, LoopPop(w) PROVE StateShape'
  BY <1>7, <1>a, <1>b, SchedulerAssumption
     DEF SchedulerInv, StateShape, PcShape, WorkerPcs, LoopPop, At, Goto
<1>8. ASSUME NEW w \in Workers, LoopEnds(w) PROVE StateShape'
  BY <1>8, <1>a, <1>b, SchedulerAssumption
     DEF SchedulerInv, StateShape, PcShape, WorkerPcs, LoopEnds, At, Goto, Leave
<1>9. ASSUME NEW w \in Workers, PopGet(w) PROVE StateShape'
  BY <1>9, <1>a, <1>b, SchedulerAssumption
     DEF SchedulerInv, StateShape, PcShape, WorkerPcs, PopGet, At, Goto, Read, Leave
<1>10. ASSUME NEW w \in Workers, PopCas(w) PROVE StateShape'
  BY <1>10, <1>a, <1>b, SchedulerAssumption
     DEF SchedulerInv, StateShape, PcShape, WorkerPcs, PopCas, At, Goto, Run
<1>11. ASSUME NEW w \in Workers, FlushGet(w) PROVE StateShape'
  BY <1>11, <1>a, <1>b, SchedulerAssumption
     DEF SchedulerInv, StateShape, PcShape, WorkerPcs, FlushGet, At, Goto, Read
<1>12. ASSUME NEW w \in Workers, FlushCas(w) PROVE StateShape'
  BY <1>12, <1>a, <1>b, SchedulerAssumption
     DEF SchedulerInv, StateShape, PcShape, WorkerPcs, FlushCas, At, Goto
<1>13. ASSUME NEW w \in Workers, FlushFork(w) PROVE StateShape'
  BY <1>13, <1>a, <1>b, SchedulerAssumption
     DEF SchedulerInv, StateShape, PcShape, WorkerPcs, FlushFork, At, Goto, Fork
<1>14. ASSUME NEW w \in Workers, NEW g \in Frames, Send(w, g) PROVE StateShape'
  BY <1>14, <1>a, <1>b, SchedulerAssumption
     DEF SchedulerInv, StateShape, PcShape, WorkerPcs, Send, At, Goto
<1>15. ASSUME NEW w \in Workers, Finish(w) PROVE StateShape'
  BY <1>15, <1>a, <1>b, SchedulerAssumption
     DEF SchedulerInv, StateShape, PcShape, WorkerPcs, Finish, At, Goto
<1>16. ASSUME NEW w \in Workers, FinishAndSchedule(w) PROVE StateShape'
  BY <1>16, <1>a, <1>b, SchedulerAssumption
     DEF SchedulerInv, StateShape, PcShape, WorkerPcs, FinishAndSchedule, At, Goto
<1>17. ASSUME NEW w \in Workers, Throw(w) PROVE StateShape'
  BY <1>17, <1>a, <1>b, SchedulerAssumption
     DEF SchedulerInv, StateShape, PcShape, WorkerPcs, Throw, At, Goto
<1>18. ASSUME NEW w \in Workers, PopOwn(w) PROVE StateShape'
  BY <1>18, <1>a, <1>b, SchedulerAssumption
     DEF SchedulerInv, StateShape, PcShape, WorkerPcs, PopOwn, At, Goto, Run
<1>19. ASSUME NEW w \in Workers, TakeSubmission(w) PROVE StateShape'
  BY <1>19, <1>a, <1>b, SchedulerAssumption
     DEF SchedulerInv, StateShape, PcShape, WorkerPcs, TakeSubmission, At, Goto, Run,
         Hungry
<1>20. ASSUME NEW w \in Workers, NEW v \in Workers, Steal(w, v) PROVE StateShape'
  BY <1>20, <1>a, <1>b, SchedulerAssumption
     DEF SchedulerInv, StateShape, PcShape, WorkerPcs, Steal, Hungry, Run, At, Goto
<1>21. ASSUME NEW w \in Workers, Reanimate(w) PROVE StateShape'
  BY <1>21, <1>a, <1>b, SchedulerAssumption
     DEF SchedulerInv, StateShape, PcShape, WorkerPcs, Reanimate, Read, At, Goto
<1>22. ASSUME NEW x \in Outsiders, Submit(x) PROVE StateShape'
  BY <1>22, <1>a, <1>b, SchedulerAssumption
     DEF SchedulerInv, StateShape, PcShape, WorkerPcs, Submit, At, Goto
<1>23. ASSUME NEW x \in Outsiders, NEW g \in Frames, OutsiderSends(x, g)
      PROVE  StateShape'
  BY <1>23, <1>a, <1>b, SchedulerAssumption
     DEF SchedulerInv, StateShape, PcShape, WorkerPcs, OutsiderSends, At, Goto
<1>24. CASE ReanimateCas
  BY <1>24, <1>a, <1>b, SchedulerAssumption
     DEF SchedulerInv, StateShape, PcShape, WorkerPcs, ReanimateCas, At, Goto
<1>25. CASE Resubmit
  BY <1>25, <1>a, <1>b, SchedulerAssumption
     DEF SchedulerInv, StateShape, PcShape, WorkerPcs, Resubmit, At, Goto
<1>26. CASE UNCHANGED vars
  BY <1>26
     DEF SchedulerInv, StateShape, PcShape, WorkerPcs
<1> QED
  BY NextCases, <1>1, <1>2, <1>3, <1>4, <1>5, <1>6, <1>7, <1>8, <1>9, <1>10, <1>11,
     <1>12, <1>13, <1>14, <1>15, <1>16, <1>17, <1>18, <1>19, <1>20, <1>21, <1>22, <1>23,
     <1>24, <1>25, <1>26

\* Every step keeps the mini-queue of a resting worker empty.
LEMMA MiniShapeStep ==
  ASSUME SchedulerInv, [Next]_vars
  PROVE  MiniShape'
<1>a. /\ pc \in [Threads -> WorkerPcs \cup OtherPcs]
      /\ mini \in [Workers -> Frames \cup {Null}]
      /\ seen \in [Threads -> Frames \cup {Null}]
  BY DEF SchedulerInv, TypeOK, States
<1>b. /\ Workers \subseteq Threads /\ Outsiders \subseteq Threads /\ Reanimator \in Threads
      /\ Reanimator \notin Workers /\ Reanimator \notin Outsiders
      /\ \A t \in Outsiders : t \notin Workers
      /\ \A t \in Threads : t \in Workers \/ t \in Outsiders \/ t = Reanimator
      /\ Null \notin Frames /\ Null \notin Workers
  BY SchedulerAssumption DEF Threads
<1> USE DEF vars
<1>1. ASSUME NEW w \in Workers, ExecuteGet(w) PROVE MiniShape'
  BY <1>1, <1>a, <1>b
     DEF SchedulerInv, MiniShape, PcShape, WorkerPcs, ExecuteGet, At, Goto, Read
<1>2. ASSUME NEW w \in Workers, ExecuteCas(w) PROVE MiniShape'
  BY <1>2, <1>a, <1>b
     DEF SchedulerInv, MiniShape, PcShape, WorkerPcs, ExecuteCas, At, Goto
<1>3. ASSUME NEW w \in Workers, ExecuteFork(w) PROVE MiniShape'
  BY <1>3, <1>a, <1>b
     DEF SchedulerInv, MiniShape, PcShape, WorkerPcs, ExecuteFork, At, Goto, Fork
<1>4. ASSUME NEW w \in Workers, Postschedule(w) PROVE MiniShape'
  BY <1>4, <1>a, <1>b
     DEF SchedulerInv, MiniShape, PcShape, WorkerPcs, Postschedule, At, Goto
<1>5. ASSUME NEW w \in Workers, PostscheduleNested(w) PROVE MiniShape'
  BY <1>5, <1>a, <1>b
     DEF SchedulerInv, MiniShape, PcShape, WorkerPcs, PostscheduleNested, At, Goto,
         Leave
<1>6. ASSUME NEW w \in Workers, LoopPoll(w) PROVE MiniShape'
  BY <1>6, <1>a, <1>b
     DEF SchedulerInv, MiniShape, PcShape, WorkerPcs, LoopPoll, At, Goto, Run
<1>7. ASSUME NEW w \in Workers, LoopPop(w) PROVE MiniShape'
  BY <1>7, <1>a, <1>b
     DEF SchedulerInv, MiniShape, PcShape, WorkerPcs, LoopPop, At, Goto
<1>8. ASSUME NEW w \in Workers, LoopEnds(w) PROVE MiniShape'
  BY <1>8, <1>a, <1>b
     DEF SchedulerInv, MiniShape, PcShape, WorkerPcs, LoopEnds, At, Goto, Leave
<1>9. ASSUME NEW w \in Workers, PopGet(w) PROVE MiniShape'
  BY <1>9, <1>a, <1>b
     DEF SchedulerInv, MiniShape, PcShape, WorkerPcs, PopGet, At, Goto, Read, Leave
<1>10. ASSUME NEW w \in Workers, PopCas(w) PROVE MiniShape'
  BY <1>10, <1>a, <1>b
     DEF SchedulerInv, MiniShape, PcShape, WorkerPcs, PopCas, At, Goto, Run
<1>11. ASSUME NEW w \in Workers, FlushGet(w) PROVE MiniShape'
  BY <1>11, <1>a, <1>b
     DEF SchedulerInv, MiniShape, PcShape, WorkerPcs, FlushGet, At, Goto, Read
<1>12. ASSUME NEW w \in Workers, FlushCas(w) PROVE MiniShape'
  BY <1>12, <1>a, <1>b
     DEF SchedulerInv, MiniShape, PcShape, WorkerPcs, FlushCas, At, Goto
<1>13. ASSUME NEW w \in Workers, FlushFork(w) PROVE MiniShape'
  BY <1>13, <1>a, <1>b
     DEF SchedulerInv, MiniShape, PcShape, WorkerPcs, FlushFork, At, Goto, Fork
<1>14. ASSUME NEW w \in Workers, NEW g \in Frames, Send(w, g) PROVE MiniShape'
  BY <1>14, <1>a, <1>b
     DEF SchedulerInv, MiniShape, PcShape, WorkerPcs, Send, At, Goto
<1>15. ASSUME NEW w \in Workers, Finish(w) PROVE MiniShape'
  BY <1>15, <1>a, <1>b
     DEF SchedulerInv, MiniShape, PcShape, WorkerPcs, Finish, At, Goto
<1>16. ASSUME NEW w \in Workers, FinishAndSchedule(w) PROVE MiniShape'
  BY <1>16, <1>a, <1>b
     DEF SchedulerInv, MiniShape, PcShape, WorkerPcs, FinishAndSchedule, At, Goto
<1>17. ASSUME NEW w \in Workers, Throw(w) PROVE MiniShape'
  BY <1>17, <1>a, <1>b
     DEF SchedulerInv, MiniShape, PcShape, WorkerPcs, Throw, At, Goto
<1>18. ASSUME NEW w \in Workers, PopOwn(w) PROVE MiniShape'
  BY <1>18, <1>a, <1>b
     DEF SchedulerInv, MiniShape, PcShape, WorkerPcs, PopOwn, At, Goto, Run
<1>19. ASSUME NEW w \in Workers, TakeSubmission(w) PROVE MiniShape'
  BY <1>19, <1>a, <1>b
     DEF SchedulerInv, MiniShape, PcShape, WorkerPcs, TakeSubmission, At, Goto, Run,
         Hungry
<1>20. ASSUME NEW w \in Workers, NEW v \in Workers, Steal(w, v) PROVE MiniShape'
  BY <1>20, <1>a, <1>b
     DEF SchedulerInv, MiniShape, PcShape, WorkerPcs, Steal, Hungry, Run, At, Goto
<1>21. ASSUME NEW w \in Workers, Reanimate(w) PROVE MiniShape'
  BY <1>21, <1>a, <1>b
     DEF SchedulerInv, MiniShape, PcShape, WorkerPcs, Reanimate, Read, At, Goto
<1>22. ASSUME NEW x \in Outsiders, Submit(x) PROVE MiniShape'
  BY <1>22, <1>a, <1>b
     DEF SchedulerInv, MiniShape, PcShape, WorkerPcs, Submit, At, Goto
<1>23. ASSUME NEW x \in Outsiders, NEW g \in Frames, OutsiderSends(x, g)
      PROVE  MiniShape'
  BY <1>23, <1>a, <1>b
     DEF SchedulerInv, MiniShape, PcShape, WorkerPcs, OutsiderSends, At, Goto
<1>24. CASE ReanimateCas
  BY <1>24, <1>a, <1>b
     DEF SchedulerInv, MiniShape, PcShape, WorkerPcs, ReanimateCas, At, Goto
<1>25. CASE Resubmit
  BY <1>25, <1>a, <1>b
     DEF SchedulerInv, MiniShape, PcShape, WorkerPcs, Resubmit, At, Goto
<1>26. CASE UNCHANGED vars
  BY <1>26
     DEF SchedulerInv, MiniShape, PcShape, WorkerPcs
<1> QED
  BY NextCases, <1>1, <1>2, <1>3, <1>4, <1>5, <1>6, <1>7, <1>8, <1>9, <1>10, <1>11,
     <1>12, <1>13, <1>14, <1>15, <1>16, <1>17, <1>18, <1>19, <1>20, <1>21, <1>22, <1>23,
     <1>24, <1>25, <1>26

\* Every step keeps the types.
LEMMA TypeStep ==
  ASSUME SchedulerInv, [Next]_vars
  PROVE  TypeOK'
<1>a. /\ frame \in [Frames -> {"inactive", "owed", "running", "dead"}]
      /\ submitted \in Seq(Frames)
      /\ deque \in [Workers -> Seq(Frames)]
      /\ mini \in [Workers -> Frames \cup {Null}]
      /\ state \in [Workers -> {"ASLEEP", "AWAKE", "POSTSCHEDULING"}]
      /\ loops \in [Workers -> 0 .. Loops]
      /\ nested \in [Workers -> {"no", "poll", "mini"}]
      /\ thrown \in [Workers -> BOOLEAN]
      /\ pc \in [Threads -> WorkerPcs \cup OtherPcs]
      /\ task \in [Workers -> Frames \cup {Null}]
      /\ arg \in [Threads -> Frames \cup {Null}]
      /\ seen \in [Threads -> Frames \cup {Null}]
      /\ visited \in Workers \cup {Null}
  BY DEF SchedulerInv, TypeOK, States
<1>b. /\ Workers \subseteq Threads /\ Outsiders \subseteq Threads /\ Reanimator \in Threads
      /\ Reanimator \notin Workers /\ Reanimator \notin Outsiders
      /\ \A t \in Outsiders : t \notin Workers
      /\ \A t \in Threads : t \in Workers \/ t \in Outsiders \/ t = Reanimator
      /\ Null \notin Frames /\ Null \notin Workers
  BY SchedulerAssumption DEF Threads
<1> USE DEF vars
<1>1. ASSUME NEW w \in Workers, ExecuteGet(w) PROVE TypeOK'
  BY <1>1, <1>a, <1>b, SchedulerAssumption
     DEF SchedulerInv, TypeOK, PcShape, WorkerPcs, OtherPcs, States, ExecuteGet, At,
         Goto, Read
<1>2. ASSUME NEW w \in Workers, ExecuteCas(w) PROVE TypeOK'
  <2>1. CASE mini[w] # seen[w]
    <3>1. /\ pc' = [pc EXCEPT ![w] = "get"]
          /\ seen' = [seen EXCEPT ![w] = Null]
          /\ UNCHANGED <<frame, submitted, deque, mini, state, loops, nested, thrown, task, arg,
                        visited>>
      BY <1>2, <2>1 DEF ExecuteCas, At, Goto
    <3>2. pc' \in [Threads -> WorkerPcs \cup OtherPcs]
      BY <1>2, <1>a, <1>b, <2>1, <3>1, SchedulerAssumption
         DEF SchedulerInv, PcShape, WorkerPcs, OtherPcs, ExecuteCas, At
    <3>3. seen' \in [Threads -> Frames \cup {Null}]
      BY <1>2, <1>a, <1>b, <2>1, <3>1, SchedulerAssumption
         DEF SchedulerInv, PcShape, WorkerPcs, OtherPcs, ExecuteCas, At
    <3> QED
      BY <1>a, <3>1, <3>2, <3>3 DEF TypeOK, States
  <2>2. CASE mini[w] = seen[w] /\ seen[w] = Null
    <3>1. /\ mini' = [mini EXCEPT ![w] = arg[w]]
          /\ arg' = [arg EXCEPT ![w] = Null]
          /\ \E l \in {"post", "batch"} : pc' = [pc EXCEPT ![w] = l]
          /\ UNCHANGED <<frame, submitted, deque, state, loops, nested, thrown, task, seen, visited>>
      BY <1>2, <2>2 DEF ExecuteCas, At, Goto
    <3>2. mini' \in [Workers -> Frames \cup {Null}]
      BY <1>2, <1>a, <1>b, <2>2, <3>1, SchedulerAssumption
         DEF SchedulerInv, PcShape, WorkerPcs, OtherPcs, ExecuteCas, At
    <3>3. arg' \in [Threads -> Frames \cup {Null}]
      BY <1>2, <1>a, <1>b, <2>2, <3>1, SchedulerAssumption
         DEF SchedulerInv, PcShape, WorkerPcs, OtherPcs, ExecuteCas, At
    <3>4. pc' \in [Threads -> WorkerPcs \cup OtherPcs]
      BY <1>2, <1>a, <1>b, <2>2, <3>1, SchedulerAssumption
         DEF SchedulerInv, PcShape, WorkerPcs, OtherPcs, ExecuteCas, At
    <3> QED
      BY <1>a, <3>1, <3>2, <3>3, <3>4 DEF TypeOK, States
  <2>3. CASE mini[w] = seen[w] /\ seen[w] # Null
    <3>1. /\ mini' = [mini EXCEPT ![w] = Null]
          /\ pc' = [pc EXCEPT ![w] = "fork"]
          /\ UNCHANGED <<frame, submitted, deque, state, loops, nested, thrown, task, arg, seen,
                        visited>>
      BY <1>2, <2>3 DEF ExecuteCas, At, Goto
    <3>2. mini' \in [Workers -> Frames \cup {Null}]
      BY <1>2, <1>a, <1>b, <2>3, <3>1, SchedulerAssumption
         DEF SchedulerInv, PcShape, WorkerPcs, OtherPcs, ExecuteCas, At
    <3>3. pc' \in [Threads -> WorkerPcs \cup OtherPcs]
      BY <1>2, <1>a, <1>b, <2>3, <3>1, SchedulerAssumption
         DEF SchedulerInv, PcShape, WorkerPcs, OtherPcs, ExecuteCas, At
    <3> QED
      BY <1>a, <3>1, <3>2, <3>3 DEF TypeOK, States
  <2> QED
    BY <2>1, <2>2, <2>3
<1>3. ASSUME NEW w \in Workers, ExecuteFork(w) PROVE TypeOK'
  <2>1. deque[w] \in Seq(Frames) /\ seen[w] \in Frames
    BY <1>3, <1>a, <1>b DEF SchedulerInv, SeenShape, ExecuteFork, At
  <2>2. Append(deque[w], seen[w]) \in Seq(Frames)
    BY <2>1
  <2> QED
    BY <1>3, <1>a, <1>b, <2>1, <2>2
       DEF SchedulerInv, TypeOK, PcShape, WorkerPcs, OtherPcs, States, ExecuteFork, At,
           Goto, Fork
<1>4. ASSUME NEW w \in Workers, Postschedule(w) PROVE TypeOK'
  <2>1. CASE thrown[w]
    <3>1. /\ state' = [state EXCEPT ![w] = "ASLEEP"]
          /\ pc' = [pc EXCEPT ![w] = "flush"]
          /\ UNCHANGED <<frame, submitted, deque, mini, loops, nested, thrown, task, arg, seen,
                        visited>>
      BY <1>4, <2>1 DEF Postschedule, At, Goto
    <3>2. state' \in [Workers -> {"ASLEEP", "AWAKE", "POSTSCHEDULING"}]
      BY <1>4, <1>a, <1>b, <2>1, <3>1, SchedulerAssumption
         DEF SchedulerInv, PcShape, WorkerPcs, OtherPcs, Postschedule, At
    <3>3. pc' \in [Threads -> WorkerPcs \cup OtherPcs]
      BY <1>4, <1>a, <1>b, <2>1, <3>1, SchedulerAssumption
         DEF SchedulerInv, PcShape, WorkerPcs, OtherPcs, Postschedule, At
    <3> QED
      BY <1>a, <3>1, <3>2, <3>3 DEF TypeOK, States
  <2>2. CASE ~thrown[w]
    <3>1. /\ state' = [state EXCEPT ![w] = "POSTSCHEDULING"]
          /\ loops' = [loops EXCEPT ![w] = Loops]
          /\ pc' = [pc EXCEPT ![w] = "loop"]
          /\ UNCHANGED <<frame, submitted, deque, mini, nested, thrown, task, arg, seen, visited>>
      BY <1>4, <2>2 DEF Postschedule, At, Goto
    <3>2. state' \in [Workers -> {"ASLEEP", "AWAKE", "POSTSCHEDULING"}]
      BY <1>4, <1>a, <1>b, <2>2, <3>1, SchedulerAssumption
         DEF SchedulerInv, PcShape, WorkerPcs, OtherPcs, Postschedule, At
    <3>3. loops' \in [Workers -> 0 .. Loops]
      BY <1>4, <1>a, <1>b, <2>2, <3>1, SchedulerAssumption
         DEF SchedulerInv, PcShape, WorkerPcs, OtherPcs, Postschedule, At
    <3>4. pc' \in [Threads -> WorkerPcs \cup OtherPcs]
      BY <1>4, <1>a, <1>b, <2>2, <3>1, SchedulerAssumption
         DEF SchedulerInv, PcShape, WorkerPcs, OtherPcs, Postschedule, At
    <3> QED
      BY <1>a, <3>1, <3>2, <3>3, <3>4 DEF TypeOK, States
  <2> QED
    BY <2>1, <2>2
<1>5. ASSUME NEW w \in Workers, PostscheduleNested(w) PROVE TypeOK'
  <2>1. CASE thrown[w] /\ nested[w] = "mini"
    <3>1. /\ state' = [state EXCEPT ![w] = "ASLEEP"]
          /\ nested' = [nested EXCEPT ![w] = "no"]
          /\ pc' = [pc EXCEPT ![w] = "flush"]
          /\ UNCHANGED <<frame, submitted, deque, mini, loops, thrown, task, arg, seen, visited>>
      BY <1>5, <2>1 DEF PostscheduleNested, At, Goto, Leave
    <3>2. state' \in [Workers -> {"ASLEEP", "AWAKE", "POSTSCHEDULING"}]
      BY <1>5, <1>a, <1>b, <2>1, <3>1, SchedulerAssumption
         DEF SchedulerInv, PcShape, WorkerPcs, OtherPcs, StateShape, PostscheduleNested,
             At
    <3>3. nested' \in [Workers -> {"no", "poll", "mini"}]
      BY <1>5, <1>a, <1>b, <2>1, <3>1, SchedulerAssumption
         DEF SchedulerInv, PcShape, WorkerPcs, OtherPcs, StateShape, PostscheduleNested,
             At
    <3>4. pc' \in [Threads -> WorkerPcs \cup OtherPcs]
      BY <1>5, <1>a, <1>b, <2>1, <3>1, SchedulerAssumption
         DEF SchedulerInv, PcShape, WorkerPcs, OtherPcs, StateShape, PostscheduleNested,
             At
    <3> QED
      BY <1>a, <3>1, <3>2, <3>3, <3>4 DEF TypeOK, States
  <2>2. CASE ~(thrown[w] /\ nested[w] = "mini")
    <3>1. /\ loops' = [loops EXCEPT ![w] = loops[w] - 1]
          /\ thrown' = [thrown EXCEPT ![w] = FALSE]
          /\ nested' = [nested EXCEPT ![w] = "no"]
          /\ pc' = [pc EXCEPT ![w] = "loop"]
          /\ UNCHANGED <<frame, submitted, deque, mini, state, task, arg, seen, visited>>
      BY <1>5, <2>2 DEF PostscheduleNested, At, Goto, Leave
    <3>2. loops' \in [Workers -> 0 .. Loops]
      BY <1>5, <1>a, <1>b, <2>2, <3>1, SchedulerAssumption
         DEF SchedulerInv, PcShape, WorkerPcs, OtherPcs, StateShape, PostscheduleNested,
             At
    <3>3. thrown' \in [Workers -> BOOLEAN]
      BY <1>5, <1>a, <1>b, <2>2, <3>1, SchedulerAssumption
         DEF SchedulerInv, PcShape, WorkerPcs, OtherPcs, StateShape, PostscheduleNested,
             At
    <3>4. nested' \in [Workers -> {"no", "poll", "mini"}]
      BY <1>5, <1>a, <1>b, <2>2, <3>1, SchedulerAssumption
         DEF SchedulerInv, PcShape, WorkerPcs, OtherPcs, StateShape, PostscheduleNested,
             At
    <3>5. pc' \in [Threads -> WorkerPcs \cup OtherPcs]
      BY <1>5, <1>a, <1>b, <2>2, <3>1, SchedulerAssumption
         DEF SchedulerInv, PcShape, WorkerPcs, OtherPcs, StateShape, PostscheduleNested,
             At
    <3> QED
      BY <1>a, <3>1, <3>2, <3>3, <3>4, <3>5 DEF TypeOK, States
  <2> QED
    BY <2>1, <2>2
<1>6. ASSUME NEW w \in Workers, LoopPoll(w) PROVE TypeOK'
  <2>1. submitted \in Seq(Frames) /\ submitted # <<>> /\ IsInjective(submitted)
    BY <1>6, <1>a DEF SchedulerInv, Distinct, LoopPoll
  <2>2. Head(submitted) \in Frames /\ Tail(submitted) \in Seq(Frames)
    BY <2>1, TailHolds
  <2> QED
    BY <1>6, <1>a, <1>b, <2>1, <2>2
       DEF SchedulerInv, TypeOK, PcShape, WorkerPcs, OtherPcs, States, LoopPoll, At,
           Goto, Run
<1>7. ASSUME NEW w \in Workers, LoopPop(w) PROVE TypeOK'
  BY <1>7, <1>a, <1>b, SchedulerAssumption
     DEF SchedulerInv, TypeOK, PcShape, WorkerPcs, OtherPcs, States, LoopPop, At, Goto
<1>8. ASSUME NEW w \in Workers, LoopEnds(w) PROVE TypeOK'
  BY <1>8, <1>a, <1>b, SchedulerAssumption
     DEF SchedulerInv, TypeOK, PcShape, WorkerPcs, OtherPcs, States, LoopEnds, At, Goto,
         Leave
<1>9. ASSUME NEW w \in Workers, PopGet(w) PROVE TypeOK'
  <2>1. pc' \in [Threads -> WorkerPcs \cup OtherPcs]
    <3>1. \E l \in WorkerPcs : pc' = [pc EXCEPT ![w] = l]
      BY <1>9 DEF WorkerPcs, PopGet, Goto, Read, Leave
    <3> QED
      BY <1>a, <1>b, <3>1
  <2>2. seen' \in [Threads -> Frames \cup {Null}]
    BY <1>9, <1>a, <1>b, SchedulerAssumption
       DEF PopGet, At, Goto, Read, Leave
  <2>3. state' \in [Workers -> {"ASLEEP", "AWAKE", "POSTSCHEDULING"}]
    BY <1>9, <1>a, <1>b, SchedulerAssumption
       DEF PopGet, At, Goto, Read, Leave
  <2>4. nested' \in [Workers -> {"no", "poll", "mini"}]
    BY <1>9, <1>a, <1>b, SchedulerAssumption
       DEF PopGet, At, Goto, Read, Leave
  <2>5. UNCHANGED <<frame, submitted, deque, mini, loops, thrown, task, arg, visited>>
    BY <1>9 DEF PopGet
  <2> QED
    BY <1>a, <2>1, <2>2, <2>3, <2>4, <2>5 DEF TypeOK, States
<1>10. ASSUME NEW w \in Workers, PopCas(w) PROVE TypeOK'
  <2>1. CASE mini[w] # seen[w]
    <3>1. /\ pc' = [pc EXCEPT ![w] = "pop"]
          /\ seen' = [seen EXCEPT ![w] = Null]
          /\ UNCHANGED <<frame, submitted, deque, mini, state, loops, nested, thrown, task, arg,
                        visited>>
      BY <1>10, <2>1 DEF PopCas, At, Goto, Run
    <3>2. pc' \in [Threads -> WorkerPcs \cup OtherPcs]
      BY <1>10, <1>a, <1>b, <2>1, <3>1, SchedulerAssumption
         DEF SchedulerInv, PcShape, WorkerPcs, OtherPcs, SeenShape, PopCas, At
    <3>3. seen' \in [Threads -> Frames \cup {Null}]
      BY <1>10, <1>a, <1>b, <2>1, <3>1, SchedulerAssumption
         DEF SchedulerInv, PcShape, WorkerPcs, OtherPcs, SeenShape, PopCas, At
    <3> QED
      BY <1>a, <3>1, <3>2, <3>3 DEF TypeOK, States
  <2>2. CASE mini[w] = seen[w]
    <3>1. /\ mini' = [mini EXCEPT ![w] = Null]
          /\ frame' = [frame EXCEPT ![seen[w]] = "running"]
          /\ task' = [task EXCEPT ![w] = seen[w]]
          /\ nested' = [nested EXCEPT ![w] = "mini"]
          /\ \E l \in {"POSTSCHEDULING", "AWAKE"} : state' = [state EXCEPT ![w] = l]
          /\ pc' = [pc EXCEPT ![w] = "batch"]
          /\ seen' = [seen EXCEPT ![w] = Null]
          /\ UNCHANGED <<submitted, deque, loops, thrown, arg, visited>>
      BY <1>10, <2>2 DEF PopCas, At, Goto, Run
    <3>2. mini' \in [Workers -> Frames \cup {Null}]
      BY <1>10, <1>a, <1>b, <2>2, <3>1, SchedulerAssumption
         DEF SchedulerInv, PcShape, WorkerPcs, OtherPcs, SeenShape, PopCas, At
    <3>3. frame' \in [Frames -> {"inactive", "owed", "running", "dead"}]
      BY <1>10, <1>a, <1>b, <2>2, <3>1, SchedulerAssumption
         DEF SchedulerInv, PcShape, WorkerPcs, OtherPcs, SeenShape, PopCas, At
    <3>4. task' \in [Workers -> Frames \cup {Null}]
      BY <1>10, <1>a, <1>b, <2>2, <3>1, SchedulerAssumption
         DEF SchedulerInv, PcShape, WorkerPcs, OtherPcs, SeenShape, PopCas, At
    <3>5. nested' \in [Workers -> {"no", "poll", "mini"}]
      BY <1>10, <1>a, <1>b, <2>2, <3>1, SchedulerAssumption
         DEF SchedulerInv, PcShape, WorkerPcs, OtherPcs, SeenShape, PopCas, At
    <3>6. state' \in [Workers -> {"ASLEEP", "AWAKE", "POSTSCHEDULING"}]
      BY <1>10, <1>a, <1>b, <2>2, <3>1, SchedulerAssumption
         DEF SchedulerInv, PcShape, WorkerPcs, OtherPcs, SeenShape, PopCas, At
    <3>7. pc' \in [Threads -> WorkerPcs \cup OtherPcs]
      BY <1>10, <1>a, <1>b, <2>2, <3>1, SchedulerAssumption
         DEF SchedulerInv, PcShape, WorkerPcs, OtherPcs, SeenShape, PopCas, At
    <3>8. seen' \in [Threads -> Frames \cup {Null}]
      BY <1>10, <1>a, <1>b, <2>2, <3>1, SchedulerAssumption
         DEF SchedulerInv, PcShape, WorkerPcs, OtherPcs, SeenShape, PopCas, At
    <3> QED
      BY <1>a, <3>1, <3>2, <3>3, <3>4, <3>5, <3>6, <3>7, <3>8 DEF TypeOK, States
  <2> QED
    BY <2>1, <2>2
<1>11. ASSUME NEW w \in Workers, FlushGet(w) PROVE TypeOK'
  <2>1. pc' \in [Threads -> WorkerPcs \cup OtherPcs]
    <3>1. \E l \in WorkerPcs : pc' = [pc EXCEPT ![w] = l]
      BY <1>11 DEF WorkerPcs, FlushGet, Goto, Read
    <3> QED
      BY <1>a, <1>b, <3>1
  <2>2. seen' \in [Threads -> Frames \cup {Null}]
    BY <1>11, <1>a, <1>b, SchedulerAssumption
       DEF FlushGet, At, Goto, Read
  <2>3. thrown' \in [Workers -> BOOLEAN]
    BY <1>11, <1>a, <1>b, SchedulerAssumption
       DEF FlushGet, At, Goto, Read
  <2>4. UNCHANGED <<frame, submitted, deque, mini, state, loops, nested, task, arg, visited>>
    BY <1>11 DEF FlushGet
  <2> QED
    BY <1>a, <2>1, <2>2, <2>3, <2>4 DEF TypeOK, States
<1>12. ASSUME NEW w \in Workers, FlushCas(w) PROVE TypeOK'
  <2>1. CASE mini[w] # seen[w]
    <3>1. /\ pc' = [pc EXCEPT ![w] = "flush"]
          /\ seen' = [seen EXCEPT ![w] = Null]
          /\ UNCHANGED <<frame, submitted, deque, mini, state, loops, nested, thrown, task, arg,
                        visited>>
      BY <1>12, <2>1 DEF FlushCas, At, Goto
    <3>2. pc' \in [Threads -> WorkerPcs \cup OtherPcs]
      BY <1>12, <1>a, <1>b, <2>1, <3>1, SchedulerAssumption
         DEF SchedulerInv, PcShape, WorkerPcs, OtherPcs, FlushCas, At
    <3>3. seen' \in [Threads -> Frames \cup {Null}]
      BY <1>12, <1>a, <1>b, <2>1, <3>1, SchedulerAssumption
         DEF SchedulerInv, PcShape, WorkerPcs, OtherPcs, FlushCas, At
    <3> QED
      BY <1>a, <3>1, <3>2, <3>3 DEF TypeOK, States
  <2>2. CASE mini[w] = seen[w]
    <3>1. /\ pc' = [pc EXCEPT ![w] = "flushFork"]
          /\ mini' = [mini EXCEPT ![w] = Null]
          /\ UNCHANGED <<frame, submitted, deque, state, loops, nested, thrown, task, arg, seen,
                        visited>>
      BY <1>12, <2>2 DEF FlushCas, At, Goto
    <3>2. pc' \in [Threads -> WorkerPcs \cup OtherPcs]
      BY <1>12, <1>a, <1>b, <2>2, <3>1, SchedulerAssumption
         DEF SchedulerInv, PcShape, WorkerPcs, OtherPcs, FlushCas, At
    <3>3. mini' \in [Workers -> Frames \cup {Null}]
      BY <1>12, <1>a, <1>b, <2>2, <3>1, SchedulerAssumption
         DEF SchedulerInv, PcShape, WorkerPcs, OtherPcs, FlushCas, At
    <3> QED
      BY <1>a, <3>1, <3>2, <3>3 DEF TypeOK, States
  <2> QED
    BY <2>1, <2>2
<1>13. ASSUME NEW w \in Workers, FlushFork(w) PROVE TypeOK'
  <2>1. deque[w] \in Seq(Frames) /\ seen[w] \in Frames
    BY <1>13, <1>a, <1>b DEF SchedulerInv, SeenShape, FlushFork, At
  <2>2. Append(deque[w], seen[w]) \in Seq(Frames)
    BY <2>1
  <2> QED
    BY <1>13, <1>a, <1>b, <2>1, <2>2
       DEF SchedulerInv, TypeOK, PcShape, WorkerPcs, OtherPcs, States, FlushFork, At,
           Goto, Fork
<1>14. ASSUME NEW w \in Workers, NEW g \in Frames, Send(w, g) PROVE TypeOK'
  BY <1>14, <1>a, <1>b, SchedulerAssumption
     DEF SchedulerInv, TypeOK, PcShape, WorkerPcs, OtherPcs, States, Send, At, Goto
<1>15. ASSUME NEW w \in Workers, Finish(w) PROVE TypeOK'
  BY <1>15, <1>a, <1>b, SchedulerAssumption
     DEF SchedulerInv, TypeOK, PcShape, WorkerPcs, OtherPcs, States, Finish, At, Goto,
         TaskShape
<1>16. ASSUME NEW w \in Workers, FinishAndSchedule(w) PROVE TypeOK'
  BY <1>16, <1>a, <1>b, SchedulerAssumption
     DEF SchedulerInv, TypeOK, PcShape, WorkerPcs, OtherPcs, States, FinishAndSchedule,
         At, Goto, TaskShape
<1>17. ASSUME NEW w \in Workers, Throw(w) PROVE TypeOK'
  BY <1>17, <1>a, <1>b, SchedulerAssumption
     DEF SchedulerInv, TypeOK, PcShape, WorkerPcs, OtherPcs, States, Throw, At, Goto,
         TaskShape
<1>18. ASSUME NEW w \in Workers, PopOwn(w) PROVE TypeOK'
  <2>1. deque[w] \in Seq(Frames) /\ deque[w] # <<>> /\ IsInjective(deque[w])
    BY <1>18, <1>a DEF SchedulerInv, Distinct, PopOwn
  <2>2. Last(deque[w]) \in Frames /\ Front(deque[w]) \in Seq(Frames)
    BY <2>1, FrontHolds
  <2> QED
    BY <1>18, <1>a, <1>b, <2>1, <2>2
       DEF SchedulerInv, TypeOK, PcShape, WorkerPcs, OtherPcs, States, PopOwn, At, Goto,
           Run
<1>19. ASSUME NEW w \in Workers, TakeSubmission(w) PROVE TypeOK'
  <2>1. submitted \in Seq(Frames) /\ submitted # <<>> /\ IsInjective(submitted)
    BY <1>19, <1>a DEF SchedulerInv, Distinct, TakeSubmission
  <2>2. Head(submitted) \in Frames /\ Tail(submitted) \in Seq(Frames)
    BY <2>1, TailHolds
  <2> QED
    BY <1>19, <1>a, <1>b, <2>1, <2>2
       DEF SchedulerInv, TypeOK, PcShape, WorkerPcs, OtherPcs, States, TakeSubmission,
           At, Goto, Run, Hungry
<1>20. ASSUME NEW w \in Workers, NEW v \in Workers, Steal(w, v) PROVE TypeOK'
  <2>1. deque[v] \in Seq(Frames) /\ deque[v] # <<>> /\ IsInjective(deque[v])
    BY <1>20, <1>a DEF SchedulerInv, Distinct, Steal
  <2>2. Head(deque[v]) \in Frames /\ Tail(deque[v]) \in Seq(Frames)
    BY <2>1, TailHolds
  <2> QED
    BY <1>20, <1>a, <1>b, <2>1, <2>2
       DEF SchedulerInv, TypeOK, PcShape, WorkerPcs, OtherPcs, States, Steal, Hungry,
           Run, At, Goto
<1>21. ASSUME NEW w \in Workers, Reanimate(w) PROVE TypeOK'
  BY <1>21, <1>a, <1>b, SchedulerAssumption
     DEF SchedulerInv, TypeOK, PcShape, WorkerPcs, OtherPcs, States, Reanimate, Read,
         At, Goto
<1>22. ASSUME NEW x \in Outsiders, Submit(x) PROVE TypeOK'
  <2>1. submitted \in Seq(Frames) /\ arg[x] \in Frames
    BY <1>22, <1>a, <1>b DEF SchedulerInv, ArgShape, Submit, At
  <2>2. Append(submitted, arg[x]) \in Seq(Frames)
    BY <2>1
  <2> QED
    BY <1>22, <1>a, <1>b, <2>1, <2>2
       DEF SchedulerInv, TypeOK, PcShape, WorkerPcs, OtherPcs, States, Submit, At, Goto
<1>23. ASSUME NEW x \in Outsiders, NEW g \in Frames, OutsiderSends(x, g) PROVE TypeOK'
  BY <1>23, <1>a, <1>b, SchedulerAssumption
     DEF SchedulerInv, TypeOK, PcShape, WorkerPcs, OtherPcs, States, OutsiderSends, At,
         Goto
<1>24. CASE ReanimateCas
  <2>1. CASE mini[visited] # seen[Reanimator]
    <3>1. /\ pc' = [pc EXCEPT ![Reanimator] = "idle"]
          /\ seen' = [seen EXCEPT ![Reanimator] = Null]
          /\ visited' = Null
          /\ UNCHANGED <<frame, submitted, deque, mini, state, loops, nested, thrown, task, arg>>
      BY <1>24, <2>1 DEF ReanimateCas, At, Goto
    <3>2. pc' \in [Threads -> WorkerPcs \cup OtherPcs]
      BY <1>24, <1>a, <1>b, <2>1, <3>1, SchedulerAssumption
         DEF SchedulerInv, PcShape, WorkerPcs, OtherPcs, ReanimateCas, At
    <3>3. seen' \in [Threads -> Frames \cup {Null}]
      BY <1>24, <1>a, <1>b, <2>1, <3>1, SchedulerAssumption
         DEF SchedulerInv, PcShape, WorkerPcs, OtherPcs, ReanimateCas, At
    <3>4. visited' \in Workers \cup {Null}
      BY <1>24, <1>a, <1>b, <2>1, <3>1, SchedulerAssumption
         DEF SchedulerInv, PcShape, WorkerPcs, OtherPcs, ReanimateCas, At
    <3> QED
      BY <1>a, <3>1, <3>2, <3>3, <3>4 DEF TypeOK, States
  <2>2. CASE mini[visited] = seen[Reanimator]
    <3>1. /\ mini' = [mini EXCEPT ![visited] = Null]
          /\ pc' = [pc EXCEPT ![Reanimator] = "resubmit"]
          /\ visited' = Null
          /\ UNCHANGED <<frame, submitted, deque, state, loops, nested, thrown, task, arg, seen>>
      BY <1>24, <2>2 DEF ReanimateCas, At, Goto
    <3>2. mini' \in [Workers -> Frames \cup {Null}]
      BY <1>24, <1>a, <1>b, <2>2, <3>1, SchedulerAssumption
         DEF SchedulerInv, PcShape, WorkerPcs, OtherPcs, ReanimateCas, At
    <3>3. pc' \in [Threads -> WorkerPcs \cup OtherPcs]
      BY <1>24, <1>a, <1>b, <2>2, <3>1, SchedulerAssumption
         DEF SchedulerInv, PcShape, WorkerPcs, OtherPcs, ReanimateCas, At
    <3>4. visited' \in Workers \cup {Null}
      BY <1>24, <1>a, <1>b, <2>2, <3>1, SchedulerAssumption
         DEF SchedulerInv, PcShape, WorkerPcs, OtherPcs, ReanimateCas, At
    <3> QED
      BY <1>a, <3>1, <3>2, <3>3, <3>4 DEF TypeOK, States
  <2> QED
    BY <2>1, <2>2
<1>25. CASE Resubmit
  <2>1. submitted \in Seq(Frames) /\ seen[Reanimator] \in Frames
    BY <1>25, <1>a, <1>b DEF SchedulerInv, SeenShape, Resubmit, At
  <2>2. Append(submitted, seen[Reanimator]) \in Seq(Frames)
    BY <2>1
  <2> QED
    BY <1>25, <1>a, <1>b, <2>1, <2>2
       DEF SchedulerInv, TypeOK, PcShape, WorkerPcs, OtherPcs, States, Resubmit, At,
           Goto
<1>26. CASE UNCHANGED vars
  BY <1>26
     DEF SchedulerInv, TypeOK, PcShape, WorkerPcs, OtherPcs, States
<1> QED
  BY NextCases, <1>1, <1>2, <1>3, <1>4, <1>5, <1>6, <1>7, <1>8, <1>9, <1>10, <1>11,
     <1>12, <1>13, <1>14, <1>15, <1>16, <1>17, <1>18, <1>19, <1>20, <1>21, <1>22, <1>23,
     <1>24, <1>25, <1>26

-----------------------------------------------------------------------------
(* Who holds a frame *)

\* A place that holds a frame is the only one, and the frame is scheduled.
LEMMA HolderOwed ==
  ASSUME OneHolder, NEW g \in Frames, NEW k \in Kinds, NEW t \in Holders, Holds(k, t, g),
         frame \in [Frames -> {"inactive", "owed", "running", "dead"}]
  PROVE  /\ frame[g] = "owed"
         /\ \A l \in Kinds, u \in Holders : Holds(l, u, g) => l = k /\ u = t
BY DEF OneHolder

\* The step leaves frame g at the place of kind k of thread t, or nowhere if k
\* is no kind of place, and every other frame where it was.
Placed(g, k, t) ==
  \A f \in Frames, l \in Kinds, u \in Holders :
    Holds(l, u, f)' <=> IF f = g THEN l = k /\ u = t ELSE Holds(l, u, f)

\* A step that puts one frame at one place, or at none, keeps OneHolder.
LEMMA PlacedKeeps ==
  ASSUME OneHolder, NEW g \in Frames, NEW k, NEW t \in Holders, Placed(g, k, t),
         frame'[g] = "owed" <=> k \in Kinds,
         \A f \in Frames \ {g} : frame'[f] = frame[f]
  PROVE  OneHolder'
<1>1. ASSUME NEW f \in Frames, f # g
      PROVE  /\ frame'[f] = "owed" =>
                  \E l \in Kinds, u \in Holders :
                    /\ Holds(l, u, f)'
                    /\ \A m \in Kinds, v \in Holders : Holds(m, v, f)' => m = l /\ v = u
             /\ frame'[f] # "owed" => \A l \in Kinds, u \in Holders : ~Holds(l, u, f)'
  BY <1>1 DEF OneHolder, Placed
<1>2. /\ frame'[g] = "owed" =>
           \E l \in Kinds, u \in Holders :
             /\ Holds(l, u, g)'
             /\ \A m \in Kinds, v \in Holders : Holds(m, v, g)' => m = l /\ v = u
      /\ frame'[g] # "owed" => \A l \in Kinds, u \in Holders : ~Holds(l, u, g)'
  BY DEF Placed
<1> QED
  BY <1>1, <1>2 DEF OneHolder

\* A step that moves no frame keeps OneHolder.
LEMMA StayedKeeps ==
  ASSUME OneHolder, \A f \in Frames : frame'[f] = "owed" <=> frame[f] = "owed",
         \A f \in Frames, l \in Kinds, u \in Holders : Holds(l, u, f)' <=> Holds(l, u, f)
  PROVE  OneHolder'
BY DEF OneHolder

\* Every step leaves a scheduled frame at one place, and any other frame
\* nowhere.
LEMMA OneHolderStep ==
  ASSUME SchedulerInv, [Next]_vars
  PROVE  OneHolder'
<1>a. /\ frame \in [Frames -> {"inactive", "owed", "running", "dead"}]
      /\ submitted \in Seq(Frames)
      /\ deque \in [Workers -> Seq(Frames)]
      /\ mini \in [Workers -> Frames \cup {Null}]
      /\ pc \in [Threads -> WorkerPcs \cup OtherPcs]
      /\ task \in [Workers -> Frames \cup {Null}]
      /\ arg \in [Threads -> Frames \cup {Null}]
      /\ seen \in [Threads -> Frames \cup {Null}]
      /\ visited \in Workers \cup {Null}
  BY DEF SchedulerInv, TypeOK, States
<1>b. /\ Workers \subseteq Threads /\ Outsiders \subseteq Threads /\ Reanimator \in Threads
      /\ Reanimator \notin Workers /\ Reanimator \notin Outsiders
      /\ \A t \in Outsiders : t \notin Workers
      /\ \A t \in Threads : t \in Workers \/ t \in Outsiders \/ t = Reanimator
      /\ Null \notin Frames /\ Null \notin Workers
  BY SchedulerAssumption DEF Threads
<1> USE DEF vars
<1>1. ASSUME NEW w \in Workers, ExecuteGet(w) PROVE OneHolder'
  <2>1. ASSUME NEW f \in Frames, NEW l \in Kinds, NEW u \in Holders
        PROVE  Holds(l, u, f)' <=> Holds(l, u, f)
    BY <1>1, <1>a, <1>b
       DEF SchedulerInv, Holds, SeenShape, PcShape, WorkerPcs, ExecuteGet, At, Goto,
           Read
  <2>2. ASSUME NEW f \in Frames PROVE frame'[f] = "owed" <=> frame[f] = "owed"
    BY <1>1, <1>a, <1>b
       DEF SchedulerInv, ExecuteGet, At, Goto, Read
  <2> QED
    BY <2>1, <2>2, StayedKeeps DEF SchedulerInv
<1>2. ASSUME NEW w \in Workers, ExecuteCas(w) PROVE OneHolder'
  <2>1. CASE mini[w] # seen[w]
    <3>1. ASSUME NEW f \in Frames, NEW l \in Kinds, NEW u \in Holders
          PROVE  Holds(l, u, f)' <=> Holds(l, u, f)
      BY <1>2, <1>a, <1>b, <2>1
         DEF SchedulerInv, Holds, SeenShape, PcShape, WorkerPcs, ExecuteCas, At, Goto
    <3>2. ASSUME NEW f \in Frames PROVE frame'[f] = "owed" <=> frame[f] = "owed"
      BY <1>2, <1>a, <1>b, <2>1
         DEF SchedulerInv, ExecuteCas, At, Goto
    <3> QED
      BY <3>1, <3>2, StayedKeeps DEF SchedulerInv
  <2>2. CASE mini[w] = seen[w] /\ seen[w] = Null
    <3>1. arg[w] \in Frames /\ Holds("arg", w, arg[w]) /\ w \in Holders
      BY <1>2, <1>a, <1>b, <2>2
         DEF SchedulerInv, Holds, Holders, ArgShape, ExecuteCas, At, Goto
    <3>2. /\ frame[arg[w]] = "owed"
          /\ \A l \in Kinds, u \in Holders : Holds(l, u, arg[w]) => l = "arg" /\ u = w
      BY <3>1, <1>a, <1>b, HolderOwed
         DEF SchedulerInv, Kinds, Holders
    <3>3. ASSUME NEW f \in Frames, NEW l \in Kinds, NEW u \in Holders
          PROVE  Holds(l, u, f)' <=> IF f = arg[w] THEN l = "mini" /\ u = w ELSE Holds(l, u, f)
      <4>1. CASE l = "submitted"
        BY <1>2, <1>a, <1>b, <2>2, <3>1, <3>2, <4>1
           DEF SchedulerInv, Holds, Holders, ArgShape, PcShape, WorkerPcs, ExecuteCas,
               At, Goto
      <4>2. CASE l = "deque"
        BY <1>2, <1>a, <1>b, <2>2, <3>1, <3>2, <4>2
           DEF SchedulerInv, Holds, Holders, ArgShape, PcShape, WorkerPcs, ExecuteCas,
               At, Goto
      <4>3. CASE l = "mini"
        BY <1>2, <1>a, <1>b, <2>2, <3>1, <3>2, <4>3
           DEF SchedulerInv, Holds, Holders, ArgShape, PcShape, WorkerPcs, ExecuteCas,
               At, Goto
      <4>4. CASE l = "arg"
        BY <1>2, <1>a, <1>b, <2>2, <3>1, <3>2, <4>4
           DEF SchedulerInv, Holds, Holders, ArgShape, PcShape, WorkerPcs, ExecuteCas,
               At, Goto
      <4>5. CASE l = "taken"
        BY <1>2, <1>a, <1>b, <2>2, <3>1, <3>2, <4>5
           DEF SchedulerInv, Holds, Holders, ArgShape, PcShape, WorkerPcs, ExecuteCas,
               At, Goto
      <4> QED
        BY <4>1, <4>2, <4>3, <4>4, <4>5 DEF Kinds
    <3>4. Placed(arg[w], "mini", w)
      BY <3>3
         DEF Placed
    <3>5. (frame'[arg[w]] = "owed" <=> "mini" \in Kinds) /\ \A f \in Frames \ {arg[w]} : frame'[f] = frame[f]
      BY <1>2, <1>a, <1>b, <2>2, <3>1, <3>2
         DEF SchedulerInv, Kinds, ArgShape, ExecuteCas, At, Goto
    <3> QED
      BY <3>1, <3>4, <3>5, PlacedKeeps DEF SchedulerInv
  <2>3. CASE mini[w] = seen[w] /\ seen[w] # Null
    <3>1. seen[w] \in Frames /\ Holds("mini", w, seen[w]) /\ w \in Holders
      BY <1>2, <1>a, <1>b, <2>3
         DEF SchedulerInv, Holds, Holders, SeenShape, ExecuteCas, At, Goto
    <3>2. /\ frame[seen[w]] = "owed"
          /\ \A l \in Kinds, u \in Holders : Holds(l, u, seen[w]) => l = "mini" /\ u = w
      BY <3>1, <1>a, <1>b, HolderOwed
         DEF SchedulerInv, Kinds, Holders
    <3>3. \A u \in Workers : mini[u] = seen[w] => u = w
      BY <3>1, <3>2, <1>b
         DEF Holds, Kinds, Holders
    <3>4. ASSUME NEW f \in Frames, NEW l \in Kinds, NEW u \in Holders
          PROVE  Holds(l, u, f)' <=> IF f = seen[w] THEN l = "taken" /\ u = w ELSE Holds(l, u, f)
      <4>1. CASE l = "submitted"
        BY <1>2, <1>a, <1>b, <2>3, <3>1, <3>2, <3>3, <4>1
           DEF SchedulerInv, Holds, Holders, SeenShape, PcShape, WorkerPcs, ExecuteCas,
               At, Goto
      <4>2. CASE l = "deque"
        BY <1>2, <1>a, <1>b, <2>3, <3>1, <3>2, <3>3, <4>2
           DEF SchedulerInv, Holds, Holders, SeenShape, PcShape, WorkerPcs, ExecuteCas,
               At, Goto
      <4>3. CASE l = "mini"
        BY <1>2, <1>a, <1>b, <2>3, <3>1, <3>2, <3>3, <4>3
           DEF SchedulerInv, Holds, Holders, SeenShape, PcShape, WorkerPcs, ExecuteCas,
               At, Goto
      <4>4. CASE l = "arg"
        BY <1>2, <1>a, <1>b, <2>3, <3>1, <3>2, <3>3, <4>4
           DEF SchedulerInv, Holds, Holders, SeenShape, PcShape, WorkerPcs, ExecuteCas,
               At, Goto
      <4>5. CASE l = "taken"
        BY <1>2, <1>a, <1>b, <2>3, <3>1, <3>2, <3>3, <4>5
           DEF SchedulerInv, Holds, Holders, SeenShape, PcShape, WorkerPcs, ExecuteCas,
               At, Goto
      <4> QED
        BY <4>1, <4>2, <4>3, <4>4, <4>5 DEF Kinds
    <3>5. Placed(seen[w], "taken", w)
      BY <3>4
         DEF Placed
    <3>6. (frame'[seen[w]] = "owed" <=> "taken" \in Kinds) /\ \A f \in Frames \ {seen[w]} : frame'[f] = frame[f]
      BY <1>2, <1>a, <1>b, <2>3, <3>1, <3>2, <3>3
         DEF SchedulerInv, Kinds, SeenShape, ExecuteCas, At, Goto
    <3> QED
      BY <3>1, <3>5, <3>6, PlacedKeeps DEF SchedulerInv
  <2> QED
    BY <2>1, <2>2, <2>3
<1>3. ASSUME NEW w \in Workers, ExecuteFork(w) PROVE OneHolder'
  <2>1. seen[w] \in Frames /\ Holds("taken", w, seen[w]) /\ w \in Holders
    BY <1>3, <1>a, <1>b, AppendHolds
       DEF SchedulerInv, Holds, Holders, SeenShape, ExecuteFork, At, Goto, Fork
  <2>2. /\ frame[seen[w]] = "owed"
        /\ \A l \in Kinds, u \in Holders : Holds(l, u, seen[w]) => l = "taken" /\ u = w
    BY <2>1, <1>a, <1>b, HolderOwed
       DEF SchedulerInv, Kinds, Holders
  <2>3. \A f \in Frames : Contains(Append(deque[w], seen[w]), f) <=> Contains(deque[w], f) \/ f = seen[w]
    BY <1>3, <1>a, <1>b, <2>1, <2>2, AppendHolds
       DEF SchedulerInv, Distinct
  <2>4. ASSUME NEW f \in Frames, NEW l \in Kinds, NEW u \in Holders
        PROVE  Holds(l, u, f)' <=> IF f = seen[w] THEN l = "deque" /\ u = w ELSE Holds(l, u, f)
    <3>1. CASE l = "submitted"
      BY <1>3, <1>a, <1>b, <2>1, <2>2, <2>3, <3>1
         DEF SchedulerInv, Holds, Holders, SeenShape, PcShape, WorkerPcs, ExecuteFork,
             At, Goto, Fork
    <3>2. CASE l = "deque"
      BY <1>3, <1>a, <1>b, <2>1, <2>2, <2>3, <3>2
         DEF SchedulerInv, Holds, Holders, SeenShape, PcShape, WorkerPcs, ExecuteFork,
             At, Goto, Fork
    <3>3. CASE l = "mini"
      BY <1>3, <1>a, <1>b, <2>1, <2>2, <2>3, <3>3
         DEF SchedulerInv, Holds, Holders, SeenShape, PcShape, WorkerPcs, ExecuteFork,
             At, Goto, Fork
    <3>4. CASE l = "arg"
      BY <1>3, <1>a, <1>b, <2>1, <2>2, <2>3, <3>4
         DEF SchedulerInv, Holds, Holders, SeenShape, PcShape, WorkerPcs, ExecuteFork,
             At, Goto, Fork
    <3>5. CASE l = "taken"
      BY <1>3, <1>a, <1>b, <2>1, <2>2, <2>3, <3>5
         DEF SchedulerInv, Holds, Holders, SeenShape, PcShape, WorkerPcs, ExecuteFork,
             At, Goto, Fork
    <3> QED
      BY <3>1, <3>2, <3>3, <3>4, <3>5 DEF Kinds
  <2>5. Placed(seen[w], "deque", w)
    BY <2>4
       DEF Placed
  <2>6. (frame'[seen[w]] = "owed" <=> "deque" \in Kinds) /\ \A f \in Frames \ {seen[w]} : frame'[f] = frame[f]
    BY <1>3, <1>a, <1>b, <2>1, <2>2, <2>3
       DEF SchedulerInv, Kinds, SeenShape, ExecuteFork, At, Goto, Fork
  <2> QED
    BY <2>1, <2>5, <2>6, PlacedKeeps DEF SchedulerInv
<1>4. ASSUME NEW w \in Workers, Postschedule(w) PROVE OneHolder'
  <2>1. ASSUME NEW f \in Frames, NEW l \in Kinds, NEW u \in Holders
        PROVE  Holds(l, u, f)' <=> Holds(l, u, f)
    BY <1>4, <1>a, <1>b
       DEF SchedulerInv, Holds, SeenShape, PcShape, WorkerPcs, Postschedule, At, Goto
  <2>2. ASSUME NEW f \in Frames PROVE frame'[f] = "owed" <=> frame[f] = "owed"
    BY <1>4, <1>a, <1>b
       DEF SchedulerInv, Postschedule, At, Goto
  <2> QED
    BY <2>1, <2>2, StayedKeeps DEF SchedulerInv
<1>5. ASSUME NEW w \in Workers, PostscheduleNested(w) PROVE OneHolder'
  <2>1. ASSUME NEW f \in Frames, NEW l \in Kinds, NEW u \in Holders
        PROVE  Holds(l, u, f)' <=> Holds(l, u, f)
    BY <1>5, <1>a, <1>b
       DEF SchedulerInv, Holds, SeenShape, PcShape, WorkerPcs, PostscheduleNested, At,
           Goto, Leave
  <2>2. ASSUME NEW f \in Frames PROVE frame'[f] = "owed" <=> frame[f] = "owed"
    BY <1>5, <1>a, <1>b
       DEF SchedulerInv, PostscheduleNested, At, Goto, Leave
  <2> QED
    BY <2>1, <2>2, StayedKeeps DEF SchedulerInv
<1>6. ASSUME NEW w \in Workers, LoopPoll(w) PROVE OneHolder'
  <2>1. Head(submitted) \in Frames /\ Holds("submitted", Null, Head(submitted)) /\ Null \in Holders
    BY <1>6, <1>a, <1>b, TailHolds
       DEF SchedulerInv, Holds, Holders, Distinct, LoopPoll, At, Goto, Run
  <2>2. /\ frame[Head(submitted)] = "owed"
        /\ \A l \in Kinds, u \in Holders : Holds(l, u, Head(submitted)) => l = "submitted" /\ u = Null
    BY <2>1, <1>a, <1>b, HolderOwed
       DEF SchedulerInv, Kinds, Holders
  <2>3. \A f \in Frames : Contains(Tail(submitted), f) <=> Contains(submitted, f) /\ f # Head(submitted)
    BY <1>6, <1>a, <1>b, <2>1, <2>2, TailHolds
       DEF SchedulerInv, Distinct, LoopPoll
  <2>4. ASSUME NEW f \in Frames, NEW l \in Kinds, NEW u \in Holders
        PROVE  Holds(l, u, f)' <=> IF f = Head(submitted) THEN l = "none" /\ u = Null ELSE Holds(l, u, f)
    <3>1. CASE l = "submitted"
      BY <1>6, <1>a, <1>b, <2>1, <2>2, <2>3, <3>1
         DEF SchedulerInv, Holds, Holders, Distinct, PcShape, WorkerPcs, LoopPoll, At,
             Goto, Run
    <3>2. CASE l = "deque"
      BY <1>6, <1>a, <1>b, <2>1, <2>2, <2>3, <3>2
         DEF SchedulerInv, Holds, Holders, Distinct, PcShape, WorkerPcs, LoopPoll, At,
             Goto, Run
    <3>3. CASE l = "mini"
      BY <1>6, <1>a, <1>b, <2>1, <2>2, <2>3, <3>3
         DEF SchedulerInv, Holds, Holders, Distinct, PcShape, WorkerPcs, LoopPoll, At,
             Goto, Run
    <3>4. CASE l = "arg"
      BY <1>6, <1>a, <1>b, <2>1, <2>2, <2>3, <3>4
         DEF SchedulerInv, Holds, Holders, Distinct, PcShape, WorkerPcs, LoopPoll, At,
             Goto, Run
    <3>5. CASE l = "taken"
      BY <1>6, <1>a, <1>b, <2>1, <2>2, <2>3, <3>5
         DEF SchedulerInv, Holds, Holders, Distinct, PcShape, WorkerPcs, LoopPoll, At,
             Goto, Run
    <3> QED
      BY <3>1, <3>2, <3>3, <3>4, <3>5 DEF Kinds
  <2>5. Placed(Head(submitted), "none", Null)
    BY <2>4
       DEF Placed
  <2>6. (frame'[Head(submitted)] = "owed" <=> "none" \in Kinds) /\ \A f \in Frames \ {Head(submitted)} : frame'[f] = frame[f]
    BY <1>6, <1>a, <1>b, <2>1, <2>2, <2>3
       DEF SchedulerInv, Kinds, Distinct, LoopPoll, At, Goto, Run
  <2> QED
    BY <2>1, <2>5, <2>6, PlacedKeeps DEF SchedulerInv
<1>7. ASSUME NEW w \in Workers, LoopPop(w) PROVE OneHolder'
  <2>1. ASSUME NEW f \in Frames, NEW l \in Kinds, NEW u \in Holders
        PROVE  Holds(l, u, f)' <=> Holds(l, u, f)
    BY <1>7, <1>a, <1>b
       DEF SchedulerInv, Holds, SeenShape, PcShape, WorkerPcs, LoopPop, At, Goto
  <2>2. ASSUME NEW f \in Frames PROVE frame'[f] = "owed" <=> frame[f] = "owed"
    BY <1>7, <1>a, <1>b
       DEF SchedulerInv, LoopPop, At, Goto
  <2> QED
    BY <2>1, <2>2, StayedKeeps DEF SchedulerInv
<1>8. ASSUME NEW w \in Workers, LoopEnds(w) PROVE OneHolder'
  <2>1. ASSUME NEW f \in Frames, NEW l \in Kinds, NEW u \in Holders
        PROVE  Holds(l, u, f)' <=> Holds(l, u, f)
    BY <1>8, <1>a, <1>b
       DEF SchedulerInv, Holds, SeenShape, PcShape, WorkerPcs, LoopEnds, At, Goto, Leave
  <2>2. ASSUME NEW f \in Frames PROVE frame'[f] = "owed" <=> frame[f] = "owed"
    BY <1>8, <1>a, <1>b
       DEF SchedulerInv, LoopEnds, At, Goto, Leave
  <2> QED
    BY <2>1, <2>2, StayedKeeps DEF SchedulerInv
<1>9. ASSUME NEW w \in Workers, PopGet(w) PROVE OneHolder'
  <2>1. ASSUME NEW f \in Frames, NEW l \in Kinds, NEW u \in Holders
        PROVE  Holds(l, u, f)' <=> Holds(l, u, f)
    BY <1>9, <1>a, <1>b
       DEF SchedulerInv, Holds, SeenShape, PcShape, WorkerPcs, PopGet, At, Goto, Read,
           Leave
  <2>2. ASSUME NEW f \in Frames PROVE frame'[f] = "owed" <=> frame[f] = "owed"
    BY <1>9, <1>a, <1>b
       DEF SchedulerInv, PopGet, At, Goto, Read, Leave
  <2> QED
    BY <2>1, <2>2, StayedKeeps DEF SchedulerInv
<1>10. ASSUME NEW w \in Workers, PopCas(w) PROVE OneHolder'
  <2>1. CASE mini[w] # seen[w]
    <3>1. ASSUME NEW f \in Frames, NEW l \in Kinds, NEW u \in Holders
          PROVE  Holds(l, u, f)' <=> Holds(l, u, f)
      BY <1>10, <1>a, <1>b, <2>1
         DEF SchedulerInv, Holds, SeenShape, PcShape, WorkerPcs, PopCas, At, Goto, Run
    <3>2. ASSUME NEW f \in Frames PROVE frame'[f] = "owed" <=> frame[f] = "owed"
      BY <1>10, <1>a, <1>b, <2>1
         DEF SchedulerInv, PopCas, At, Goto, Run
    <3> QED
      BY <3>1, <3>2, StayedKeeps DEF SchedulerInv
  <2>2. CASE mini[w] = seen[w]
    <3>1. seen[w] \in Frames /\ Holds("mini", w, seen[w]) /\ Null \in Holders
      BY <1>10, <1>a, <1>b, <2>2
         DEF SchedulerInv, Holds, Holders, SeenShape, PopCas, At, Goto, Run
    <3>2. /\ frame[seen[w]] = "owed"
          /\ \A l \in Kinds, u \in Holders : Holds(l, u, seen[w]) => l = "mini" /\ u = w
      BY <3>1, <1>a, <1>b, HolderOwed
         DEF SchedulerInv, Kinds, Holders
    <3>3. \A u \in Workers : mini[u] = seen[w] => u = w
      BY <3>1, <3>2, <1>b
         DEF Holds, Kinds, Holders
    <3>4. ASSUME NEW f \in Frames, NEW l \in Kinds, NEW u \in Holders
          PROVE  Holds(l, u, f)' <=> IF f = seen[w] THEN l = "none" /\ u = Null ELSE Holds(l, u, f)
      <4>1. CASE l = "submitted"
        BY <1>10, <1>a, <1>b, <2>2, <3>1, <3>2, <3>3, <4>1
           DEF SchedulerInv, Holds, Holders, SeenShape, PcShape, WorkerPcs, PopCas, At,
               Goto, Run
      <4>2. CASE l = "deque"
        BY <1>10, <1>a, <1>b, <2>2, <3>1, <3>2, <3>3, <4>2
           DEF SchedulerInv, Holds, Holders, SeenShape, PcShape, WorkerPcs, PopCas, At,
               Goto, Run
      <4>3. CASE l = "mini"
        BY <1>10, <1>a, <1>b, <2>2, <3>1, <3>2, <3>3, <4>3
           DEF SchedulerInv, Holds, Holders, SeenShape, PcShape, WorkerPcs, PopCas, At,
               Goto, Run
      <4>4. CASE l = "arg"
        BY <1>10, <1>a, <1>b, <2>2, <3>1, <3>2, <3>3, <4>4
           DEF SchedulerInv, Holds, Holders, SeenShape, PcShape, WorkerPcs, PopCas, At,
               Goto, Run
      <4>5. CASE l = "taken"
        BY <1>10, <1>a, <1>b, <2>2, <3>1, <3>2, <3>3, <4>5
           DEF SchedulerInv, Holds, Holders, SeenShape, PcShape, WorkerPcs, PopCas, At,
               Goto, Run
      <4> QED
        BY <4>1, <4>2, <4>3, <4>4, <4>5 DEF Kinds
    <3>5. Placed(seen[w], "none", Null)
      BY <3>4
         DEF Placed
    <3>6. (frame'[seen[w]] = "owed" <=> "none" \in Kinds) /\ \A f \in Frames \ {seen[w]} : frame'[f] = frame[f]
      BY <1>10, <1>a, <1>b, <2>2, <3>1, <3>2, <3>3
         DEF SchedulerInv, Kinds, SeenShape, PopCas, At, Goto, Run
    <3> QED
      BY <3>1, <3>5, <3>6, PlacedKeeps DEF SchedulerInv
  <2> QED
    BY <2>1, <2>2
<1>11. ASSUME NEW w \in Workers, FlushGet(w) PROVE OneHolder'
  <2>1. ASSUME NEW f \in Frames, NEW l \in Kinds, NEW u \in Holders
        PROVE  Holds(l, u, f)' <=> Holds(l, u, f)
    BY <1>11, <1>a, <1>b
       DEF SchedulerInv, Holds, SeenShape, PcShape, WorkerPcs, FlushGet, At, Goto, Read
  <2>2. ASSUME NEW f \in Frames PROVE frame'[f] = "owed" <=> frame[f] = "owed"
    BY <1>11, <1>a, <1>b
       DEF SchedulerInv, FlushGet, At, Goto, Read
  <2> QED
    BY <2>1, <2>2, StayedKeeps DEF SchedulerInv
<1>12. ASSUME NEW w \in Workers, FlushCas(w) PROVE OneHolder'
  <2>1. CASE mini[w] # seen[w]
    <3>1. ASSUME NEW f \in Frames, NEW l \in Kinds, NEW u \in Holders
          PROVE  Holds(l, u, f)' <=> Holds(l, u, f)
      BY <1>12, <1>a, <1>b, <2>1
         DEF SchedulerInv, Holds, SeenShape, PcShape, WorkerPcs, FlushCas, At, Goto
    <3>2. ASSUME NEW f \in Frames PROVE frame'[f] = "owed" <=> frame[f] = "owed"
      BY <1>12, <1>a, <1>b, <2>1
         DEF SchedulerInv, FlushCas, At, Goto
    <3> QED
      BY <3>1, <3>2, StayedKeeps DEF SchedulerInv
  <2>2. CASE mini[w] = seen[w]
    <3>1. seen[w] \in Frames /\ Holds("mini", w, seen[w]) /\ w \in Holders
      BY <1>12, <1>a, <1>b, <2>2
         DEF SchedulerInv, Holds, Holders, SeenShape, FlushCas, At, Goto
    <3>2. /\ frame[seen[w]] = "owed"
          /\ \A l \in Kinds, u \in Holders : Holds(l, u, seen[w]) => l = "mini" /\ u = w
      BY <3>1, <1>a, <1>b, HolderOwed
         DEF SchedulerInv, Kinds, Holders
    <3>3. \A u \in Workers : mini[u] = seen[w] => u = w
      BY <3>1, <3>2, <1>b
         DEF Holds, Kinds, Holders
    <3>4. ASSUME NEW f \in Frames, NEW l \in Kinds, NEW u \in Holders
          PROVE  Holds(l, u, f)' <=> IF f = seen[w] THEN l = "taken" /\ u = w ELSE Holds(l, u, f)
      <4>1. CASE l = "submitted"
        BY <1>12, <1>a, <1>b, <2>2, <3>1, <3>2, <3>3, <4>1
           DEF SchedulerInv, Holds, Holders, SeenShape, PcShape, WorkerPcs, FlushCas,
               At, Goto
      <4>2. CASE l = "deque"
        BY <1>12, <1>a, <1>b, <2>2, <3>1, <3>2, <3>3, <4>2
           DEF SchedulerInv, Holds, Holders, SeenShape, PcShape, WorkerPcs, FlushCas,
               At, Goto
      <4>3. CASE l = "mini"
        BY <1>12, <1>a, <1>b, <2>2, <3>1, <3>2, <3>3, <4>3
           DEF SchedulerInv, Holds, Holders, SeenShape, PcShape, WorkerPcs, FlushCas,
               At, Goto
      <4>4. CASE l = "arg"
        BY <1>12, <1>a, <1>b, <2>2, <3>1, <3>2, <3>3, <4>4
           DEF SchedulerInv, Holds, Holders, SeenShape, PcShape, WorkerPcs, FlushCas,
               At, Goto
      <4>5. CASE l = "taken"
        BY <1>12, <1>a, <1>b, <2>2, <3>1, <3>2, <3>3, <4>5
           DEF SchedulerInv, Holds, Holders, SeenShape, PcShape, WorkerPcs, FlushCas,
               At, Goto
      <4> QED
        BY <4>1, <4>2, <4>3, <4>4, <4>5 DEF Kinds
    <3>5. Placed(seen[w], "taken", w)
      BY <3>4
         DEF Placed
    <3>6. (frame'[seen[w]] = "owed" <=> "taken" \in Kinds) /\ \A f \in Frames \ {seen[w]} : frame'[f] = frame[f]
      BY <1>12, <1>a, <1>b, <2>2, <3>1, <3>2, <3>3
         DEF SchedulerInv, Kinds, SeenShape, FlushCas, At, Goto
    <3> QED
      BY <3>1, <3>5, <3>6, PlacedKeeps DEF SchedulerInv
  <2> QED
    BY <2>1, <2>2
<1>13. ASSUME NEW w \in Workers, FlushFork(w) PROVE OneHolder'
  <2>1. seen[w] \in Frames /\ Holds("taken", w, seen[w]) /\ w \in Holders
    BY <1>13, <1>a, <1>b, AppendHolds
       DEF SchedulerInv, Holds, Holders, SeenShape, FlushFork, At, Goto, Fork
  <2>2. /\ frame[seen[w]] = "owed"
        /\ \A l \in Kinds, u \in Holders : Holds(l, u, seen[w]) => l = "taken" /\ u = w
    BY <2>1, <1>a, <1>b, HolderOwed
       DEF SchedulerInv, Kinds, Holders
  <2>3. \A f \in Frames : Contains(Append(deque[w], seen[w]), f) <=> Contains(deque[w], f) \/ f = seen[w]
    BY <1>13, <1>a, <1>b, <2>1, <2>2, AppendHolds
       DEF SchedulerInv, Distinct
  <2>4. ASSUME NEW f \in Frames, NEW l \in Kinds, NEW u \in Holders
        PROVE  Holds(l, u, f)' <=> IF f = seen[w] THEN l = "deque" /\ u = w ELSE Holds(l, u, f)
    <3>1. CASE l = "submitted"
      BY <1>13, <1>a, <1>b, <2>1, <2>2, <2>3, <3>1
         DEF SchedulerInv, Holds, Holders, SeenShape, PcShape, WorkerPcs, FlushFork, At,
             Goto, Fork
    <3>2. CASE l = "deque"
      BY <1>13, <1>a, <1>b, <2>1, <2>2, <2>3, <3>2
         DEF SchedulerInv, Holds, Holders, SeenShape, PcShape, WorkerPcs, FlushFork, At,
             Goto, Fork
    <3>3. CASE l = "mini"
      BY <1>13, <1>a, <1>b, <2>1, <2>2, <2>3, <3>3
         DEF SchedulerInv, Holds, Holders, SeenShape, PcShape, WorkerPcs, FlushFork, At,
             Goto, Fork
    <3>4. CASE l = "arg"
      BY <1>13, <1>a, <1>b, <2>1, <2>2, <2>3, <3>4
         DEF SchedulerInv, Holds, Holders, SeenShape, PcShape, WorkerPcs, FlushFork, At,
             Goto, Fork
    <3>5. CASE l = "taken"
      BY <1>13, <1>a, <1>b, <2>1, <2>2, <2>3, <3>5
         DEF SchedulerInv, Holds, Holders, SeenShape, PcShape, WorkerPcs, FlushFork, At,
             Goto, Fork
    <3> QED
      BY <3>1, <3>2, <3>3, <3>4, <3>5 DEF Kinds
  <2>5. Placed(seen[w], "deque", w)
    BY <2>4
       DEF Placed
  <2>6. (frame'[seen[w]] = "owed" <=> "deque" \in Kinds) /\ \A f \in Frames \ {seen[w]} : frame'[f] = frame[f]
    BY <1>13, <1>a, <1>b, <2>1, <2>2, <2>3
       DEF SchedulerInv, Kinds, SeenShape, FlushFork, At, Goto, Fork
  <2> QED
    BY <2>1, <2>5, <2>6, PlacedKeeps DEF SchedulerInv
<1>14. ASSUME NEW w \in Workers, NEW g \in Frames, Send(w, g) PROVE OneHolder'
  <2>1. g \in Frames /\ frame[g] # "owed" /\ w \in Holders
    BY <1>14, <1>a, <1>b
       DEF SchedulerInv, Holds, Holders, ArgShape, Send, At, Goto
  <2>2. \A l \in Kinds, u \in Holders : ~Holds(l, u, g)
    BY <2>1, <1>a
       DEF SchedulerInv, OneHolder
  <2>3. \A u \in Threads : arg[u] # g
    BY <2>1, <2>2, <1>b
       DEF Holds, Kinds, Holders
  <2>4. ASSUME NEW f \in Frames, NEW l \in Kinds, NEW u \in Holders
        PROVE  Holds(l, u, f)' <=> IF f = g THEN l = "arg" /\ u = w ELSE Holds(l, u, f)
    <3>1. CASE l = "submitted"
      BY <1>14, <1>a, <1>b, <2>1, <2>2, <2>3, <3>1
         DEF SchedulerInv, Holds, Holders, ArgShape, PcShape, WorkerPcs, Send, At, Goto
    <3>2. CASE l = "deque"
      BY <1>14, <1>a, <1>b, <2>1, <2>2, <2>3, <3>2
         DEF SchedulerInv, Holds, Holders, ArgShape, PcShape, WorkerPcs, Send, At, Goto
    <3>3. CASE l = "mini"
      BY <1>14, <1>a, <1>b, <2>1, <2>2, <2>3, <3>3
         DEF SchedulerInv, Holds, Holders, ArgShape, PcShape, WorkerPcs, Send, At, Goto
    <3>4. CASE l = "arg"
      BY <1>14, <1>a, <1>b, <2>1, <2>2, <2>3, <3>4, ZenonT(40)
         DEF SchedulerInv, Holds, Holders, ArgShape, PcShape, WorkerPcs, Send, At, Goto
    <3>5. CASE l = "taken"
      BY <1>14, <1>a, <1>b, <2>1, <2>2, <2>3, <3>5
         DEF SchedulerInv, Holds, Holders, ArgShape, PcShape, WorkerPcs, Send, At, Goto
    <3> QED
      BY <3>1, <3>2, <3>3, <3>4, <3>5 DEF Kinds
  <2>5. Placed(g, "arg", w)
    BY <2>4
       DEF Placed
  <2>6. (frame'[g] = "owed" <=> "arg" \in Kinds) /\ \A f \in Frames \ {g} : frame'[f] = frame[f]
    BY <1>14, <1>a, <1>b, <2>1, <2>2, <2>3
       DEF SchedulerInv, Kinds, ArgShape, Send, At, Goto
  <2> QED
    BY <2>1, <2>5, <2>6, PlacedKeeps DEF SchedulerInv
<1>15. ASSUME NEW w \in Workers, Finish(w) PROVE OneHolder'
  <2>1. ASSUME NEW f \in Frames, NEW l \in Kinds, NEW u \in Holders
        PROVE  Holds(l, u, f)' <=> Holds(l, u, f)
    BY <1>15, <1>a, <1>b
       DEF SchedulerInv, Holds, SeenShape, PcShape, WorkerPcs, Finish, At, Goto
  <2>2. ASSUME NEW f \in Frames PROVE frame'[f] = "owed" <=> frame[f] = "owed"
    BY <1>15, <1>a, <1>b
       DEF SchedulerInv, OneWorker, TaskShape, Finish, At, Goto
  <2> QED
    BY <2>1, <2>2, StayedKeeps DEF SchedulerInv
<1>16. ASSUME NEW w \in Workers, FinishAndSchedule(w) PROVE OneHolder'
  <2>1. task[w] \in Frames /\ frame[task[w]] # "owed" /\ w \in Holders
    BY <1>16, <1>a, <1>b
       DEF SchedulerInv, Holds, Holders, ArgShape, OneWorker, TaskShape,
           FinishAndSchedule, At, Goto
  <2>2. \A l \in Kinds, u \in Holders : ~Holds(l, u, task[w])
    BY <2>1, <1>a
       DEF SchedulerInv, OneHolder
  <2>3. \A u \in Threads : arg[u] # task[w]
    BY <2>1, <2>2, <1>b
       DEF Holds, Kinds, Holders
  <2>4. ASSUME NEW f \in Frames, NEW l \in Kinds, NEW u \in Holders
        PROVE  Holds(l, u, f)' <=> IF f = task[w] THEN l = "arg" /\ u = w ELSE Holds(l, u, f)
    <3>1. CASE l = "submitted"
      BY <1>16, <1>a, <1>b, <2>1, <2>2, <2>3, <3>1
         DEF SchedulerInv, Holds, Holders, ArgShape, OneWorker, TaskShape, PcShape,
             WorkerPcs, FinishAndSchedule, At, Goto
    <3>2. CASE l = "deque"
      BY <1>16, <1>a, <1>b, <2>1, <2>2, <2>3, <3>2
         DEF SchedulerInv, Holds, Holders, ArgShape, OneWorker, TaskShape, PcShape,
             WorkerPcs, FinishAndSchedule, At, Goto
    <3>3. CASE l = "mini"
      BY <1>16, <1>a, <1>b, <2>1, <2>2, <2>3, <3>3
         DEF SchedulerInv, Holds, Holders, ArgShape, OneWorker, TaskShape, PcShape,
             WorkerPcs, FinishAndSchedule, At, Goto
    <3>4. CASE l = "arg"
      <4>1. arg' = [arg EXCEPT ![w] = task[w]] /\ pc[w] = "batch"
        BY <1>16 DEF FinishAndSchedule, At
      <4>2. arg[w] = Null
        BY <1>b, <4>1 DEF SchedulerInv, ArgShape
      <4>3. u \in Threads => arg'[u] = IF u = w THEN task[w] ELSE arg[u]
        BY <1>a, <4>1
      <4> QED
        BY <1>b, <2>1, <2>3, <3>4, <4>2, <4>3 DEF Holds
    <3>5. CASE l = "taken"
      BY <1>16, <1>a, <1>b, <2>1, <2>2, <2>3, <3>5
         DEF SchedulerInv, Holds, Holders, ArgShape, OneWorker, TaskShape, PcShape,
             WorkerPcs, FinishAndSchedule, At, Goto
    <3> QED
      BY <3>1, <3>2, <3>3, <3>4, <3>5 DEF Kinds
  <2>5. Placed(task[w], "arg", w)
    BY <2>4
       DEF Placed
  <2>6. (frame'[task[w]] = "owed" <=> "arg" \in Kinds) /\ \A f \in Frames \ {task[w]} : frame'[f] = frame[f]
    BY <1>16, <1>a, <1>b, <2>1, <2>2, <2>3
       DEF SchedulerInv, Kinds, ArgShape, OneWorker, TaskShape, FinishAndSchedule, At,
           Goto
  <2> QED
    BY <2>1, <2>5, <2>6, PlacedKeeps DEF SchedulerInv
<1>17. ASSUME NEW w \in Workers, Throw(w) PROVE OneHolder'
  <2>1. ASSUME NEW f \in Frames, NEW l \in Kinds, NEW u \in Holders
        PROVE  Holds(l, u, f)' <=> Holds(l, u, f)
    BY <1>17, <1>a, <1>b
       DEF SchedulerInv, Holds, SeenShape, PcShape, WorkerPcs, Throw, At, Goto
  <2>2. ASSUME NEW f \in Frames PROVE frame'[f] = "owed" <=> frame[f] = "owed"
    BY <1>17, <1>a, <1>b
       DEF SchedulerInv, OneWorker, TaskShape, Throw, At, Goto
  <2> QED
    BY <2>1, <2>2, StayedKeeps DEF SchedulerInv
<1>18. ASSUME NEW w \in Workers, PopOwn(w) PROVE OneHolder'
  <2>1. Last(deque[w]) \in Frames /\ Holds("deque", w, Last(deque[w])) /\ Null \in Holders
    BY <1>18, <1>a, <1>b, FrontHolds
       DEF SchedulerInv, Holds, Holders, Distinct, PopOwn, At, Goto, Run
  <2>2. /\ frame[Last(deque[w])] = "owed"
        /\ \A l \in Kinds, u \in Holders : Holds(l, u, Last(deque[w])) => l = "deque" /\ u = w
    BY <2>1, <1>a, <1>b, HolderOwed
       DEF SchedulerInv, Kinds, Holders
  <2>3. \A f \in Frames : Contains(Front(deque[w]), f) <=> Contains(deque[w], f) /\ f # Last(deque[w])
    BY <1>18, <1>a, <1>b, <2>1, <2>2, FrontHolds
       DEF SchedulerInv, Distinct, PopOwn
  <2>4. ASSUME NEW f \in Frames, NEW l \in Kinds, NEW u \in Holders
        PROVE  Holds(l, u, f)' <=> IF f = Last(deque[w]) THEN l = "none" /\ u = Null ELSE Holds(l, u, f)
    <3>1. CASE l = "submitted"
      BY <1>18, <1>a, <1>b, <2>1, <2>2, <2>3, <3>1
         DEF SchedulerInv, Holds, Holders, Distinct, PcShape, WorkerPcs, PopOwn, At,
             Goto, Run
    <3>2. CASE l = "deque"
      BY <1>18, <1>a, <1>b, <2>1, <2>2, <2>3, <3>2
         DEF SchedulerInv, Holds, Holders, Distinct, PcShape, WorkerPcs, PopOwn, At,
             Goto, Run
    <3>3. CASE l = "mini"
      BY <1>18, <1>a, <1>b, <2>1, <2>2, <2>3, <3>3
         DEF SchedulerInv, Holds, Holders, Distinct, PcShape, WorkerPcs, PopOwn, At,
             Goto, Run
    <3>4. CASE l = "arg"
      BY <1>18, <1>a, <1>b, <2>1, <2>2, <2>3, <3>4
         DEF SchedulerInv, Holds, Holders, Distinct, PcShape, WorkerPcs, PopOwn, At,
             Goto, Run
    <3>5. CASE l = "taken"
      BY <1>18, <1>a, <1>b, <2>1, <2>2, <2>3, <3>5
         DEF SchedulerInv, Holds, Holders, Distinct, PcShape, WorkerPcs, PopOwn, At,
             Goto, Run
    <3> QED
      BY <3>1, <3>2, <3>3, <3>4, <3>5 DEF Kinds
  <2>5. Placed(Last(deque[w]), "none", Null)
    BY <2>4
       DEF Placed
  <2>6. (frame'[Last(deque[w])] = "owed" <=> "none" \in Kinds) /\ \A f \in Frames \ {Last(deque[w])} : frame'[f] = frame[f]
    BY <1>18, <1>a, <1>b, <2>1, <2>2, <2>3
       DEF SchedulerInv, Kinds, Distinct, PopOwn, At, Goto, Run
  <2> QED
    BY <2>1, <2>5, <2>6, PlacedKeeps DEF SchedulerInv
<1>19. ASSUME NEW w \in Workers, TakeSubmission(w) PROVE OneHolder'
  <2>1. Head(submitted) \in Frames /\ Holds("submitted", Null, Head(submitted)) /\ Null \in Holders
    BY <1>19, <1>a, <1>b, TailHolds
       DEF SchedulerInv, Holds, Holders, Distinct, TakeSubmission, At, Goto, Run, Hungry
  <2>2. /\ frame[Head(submitted)] = "owed"
        /\ \A l \in Kinds, u \in Holders : Holds(l, u, Head(submitted)) => l = "submitted" /\ u = Null
    BY <2>1, <1>a, <1>b, HolderOwed
       DEF SchedulerInv, Kinds, Holders
  <2>3. \A f \in Frames : Contains(Tail(submitted), f) <=> Contains(submitted, f) /\ f # Head(submitted)
    BY <1>19, <1>a, <1>b, <2>1, <2>2, TailHolds
       DEF SchedulerInv, Distinct, TakeSubmission
  <2>4. ASSUME NEW f \in Frames, NEW l \in Kinds, NEW u \in Holders
        PROVE  Holds(l, u, f)' <=> IF f = Head(submitted) THEN l = "none" /\ u = Null ELSE Holds(l, u, f)
    <3>1. CASE l = "submitted"
      BY <1>19, <1>a, <1>b, <2>1, <2>2, <2>3, <3>1
         DEF SchedulerInv, Holds, Holders, Distinct, PcShape, WorkerPcs, TakeSubmission,
             At, Goto, Run, Hungry
    <3>2. CASE l = "deque"
      BY <1>19, <1>a, <1>b, <2>1, <2>2, <2>3, <3>2
         DEF SchedulerInv, Holds, Holders, Distinct, PcShape, WorkerPcs, TakeSubmission,
             At, Goto, Run, Hungry
    <3>3. CASE l = "mini"
      BY <1>19, <1>a, <1>b, <2>1, <2>2, <2>3, <3>3
         DEF SchedulerInv, Holds, Holders, Distinct, PcShape, WorkerPcs, TakeSubmission,
             At, Goto, Run, Hungry
    <3>4. CASE l = "arg"
      BY <1>19, <1>a, <1>b, <2>1, <2>2, <2>3, <3>4
         DEF SchedulerInv, Holds, Holders, Distinct, PcShape, WorkerPcs, TakeSubmission,
             At, Goto, Run, Hungry
    <3>5. CASE l = "taken"
      BY <1>19, <1>a, <1>b, <2>1, <2>2, <2>3, <3>5
         DEF SchedulerInv, Holds, Holders, Distinct, PcShape, WorkerPcs, TakeSubmission,
             At, Goto, Run, Hungry
    <3> QED
      BY <3>1, <3>2, <3>3, <3>4, <3>5 DEF Kinds
  <2>5. Placed(Head(submitted), "none", Null)
    BY <2>4
       DEF Placed
  <2>6. (frame'[Head(submitted)] = "owed" <=> "none" \in Kinds) /\ \A f \in Frames \ {Head(submitted)} : frame'[f] = frame[f]
    BY <1>19, <1>a, <1>b, <2>1, <2>2, <2>3
       DEF SchedulerInv, Kinds, Distinct, TakeSubmission, At, Goto, Run, Hungry
  <2> QED
    BY <2>1, <2>5, <2>6, PlacedKeeps DEF SchedulerInv
<1>20. ASSUME NEW w \in Workers, NEW v \in Workers, Steal(w, v) PROVE OneHolder'
  <2>1. Head(deque[v]) \in Frames /\ Holds("deque", v, Head(deque[v])) /\ Null \in Holders
    BY <1>20, <1>a, <1>b, TailHolds
       DEF SchedulerInv, Holds, Holders, Distinct, Steal, Hungry, Run, At, Goto
  <2>2. /\ frame[Head(deque[v])] = "owed"
        /\ \A l \in Kinds, u \in Holders : Holds(l, u, Head(deque[v])) => l = "deque" /\ u = v
    BY <2>1, <1>a, <1>b, HolderOwed
       DEF SchedulerInv, Kinds, Holders
  <2>3. \A f \in Frames : Contains(Tail(deque[v]), f) <=> Contains(deque[v], f) /\ f # Head(deque[v])
    BY <1>20, <1>a, <1>b, <2>1, <2>2, TailHolds
       DEF SchedulerInv, Distinct, Steal
  <2>4. ASSUME NEW f \in Frames, NEW l \in Kinds, NEW u \in Holders
        PROVE  Holds(l, u, f)' <=> IF f = Head(deque[v]) THEN l = "none" /\ u = Null ELSE Holds(l, u, f)
    <3>1. CASE l = "submitted"
      BY <1>20, <1>a, <1>b, <2>1, <2>2, <2>3, <3>1
         DEF SchedulerInv, Holds, Holders, Distinct, PcShape, WorkerPcs, Steal, Hungry,
             Run, At, Goto
    <3>2. CASE l = "deque"
      BY <1>20, <1>a, <1>b, <2>1, <2>2, <2>3, <3>2
         DEF SchedulerInv, Holds, Holders, Distinct, PcShape, WorkerPcs, Steal, Hungry,
             Run, At, Goto
    <3>3. CASE l = "mini"
      BY <1>20, <1>a, <1>b, <2>1, <2>2, <2>3, <3>3
         DEF SchedulerInv, Holds, Holders, Distinct, PcShape, WorkerPcs, Steal, Hungry,
             Run, At, Goto
    <3>4. CASE l = "arg"
      BY <1>20, <1>a, <1>b, <2>1, <2>2, <2>3, <3>4
         DEF SchedulerInv, Holds, Holders, Distinct, PcShape, WorkerPcs, Steal, Hungry,
             Run, At, Goto
    <3>5. CASE l = "taken"
      BY <1>20, <1>a, <1>b, <2>1, <2>2, <2>3, <3>5
         DEF SchedulerInv, Holds, Holders, Distinct, PcShape, WorkerPcs, Steal, Hungry,
             Run, At, Goto
    <3> QED
      BY <3>1, <3>2, <3>3, <3>4, <3>5 DEF Kinds
  <2>5. Placed(Head(deque[v]), "none", Null)
    BY <2>4
       DEF Placed
  <2>6. (frame'[Head(deque[v])] = "owed" <=> "none" \in Kinds) /\ \A f \in Frames \ {Head(deque[v])} : frame'[f] = frame[f]
    BY <1>20, <1>a, <1>b, <2>1, <2>2, <2>3
       DEF SchedulerInv, Kinds, Distinct, Steal, Hungry, Run, At, Goto
  <2> QED
    BY <2>1, <2>5, <2>6, PlacedKeeps DEF SchedulerInv
<1>21. ASSUME NEW w \in Workers, Reanimate(w) PROVE OneHolder'
  <2>1. ASSUME NEW f \in Frames, NEW l \in Kinds, NEW u \in Holders
        PROVE  Holds(l, u, f)' <=> Holds(l, u, f)
    BY <1>21, <1>a, <1>b
       DEF SchedulerInv, Holds, SeenShape, PcShape, WorkerPcs, Reanimate, Read, At, Goto
  <2>2. ASSUME NEW f \in Frames PROVE frame'[f] = "owed" <=> frame[f] = "owed"
    BY <1>21, <1>a, <1>b
       DEF SchedulerInv, Reanimate, Read, At, Goto
  <2> QED
    BY <2>1, <2>2, StayedKeeps DEF SchedulerInv
<1>22. ASSUME NEW x \in Outsiders, Submit(x) PROVE OneHolder'
  <2>1. arg[x] \in Frames /\ Holds("arg", x, arg[x]) /\ Null \in Holders
    BY <1>22, <1>a, <1>b, AppendHolds
       DEF SchedulerInv, Holds, Holders, ArgShape, Submit, At, Goto
  <2>2. /\ frame[arg[x]] = "owed"
        /\ \A l \in Kinds, u \in Holders : Holds(l, u, arg[x]) => l = "arg" /\ u = x
    BY <2>1, <1>a, <1>b, HolderOwed
       DEF SchedulerInv, Kinds, Holders
  <2>3. \A f \in Frames : Contains(Append(submitted, arg[x]), f) <=> Contains(submitted, f) \/ f = arg[x]
    BY <1>22, <1>a, <1>b, <2>1, <2>2, AppendHolds
       DEF SchedulerInv, Distinct
  <2>4. ASSUME NEW f \in Frames, NEW l \in Kinds, NEW u \in Holders
        PROVE  Holds(l, u, f)' <=> IF f = arg[x] THEN l = "submitted" /\ u = Null ELSE Holds(l, u, f)
    <3>1. CASE l = "submitted"
      BY <1>22, <1>a, <1>b, <2>1, <2>2, <2>3, <3>1
         DEF SchedulerInv, Holds, Holders, ArgShape, PcShape, WorkerPcs, Submit, At,
             Goto
    <3>2. CASE l = "deque"
      BY <1>22, <1>a, <1>b, <2>1, <2>2, <2>3, <3>2
         DEF SchedulerInv, Holds, Holders, ArgShape, PcShape, WorkerPcs, Submit, At,
             Goto
    <3>3. CASE l = "mini"
      BY <1>22, <1>a, <1>b, <2>1, <2>2, <2>3, <3>3
         DEF SchedulerInv, Holds, Holders, ArgShape, PcShape, WorkerPcs, Submit, At,
             Goto
    <3>4. CASE l = "arg"
      BY <1>22, <1>a, <1>b, <2>1, <2>2, <2>3, <3>4
         DEF SchedulerInv, Holds, Holders, ArgShape, PcShape, WorkerPcs, Submit, At,
             Goto
    <3>5. CASE l = "taken"
      BY <1>22, <1>a, <1>b, <2>1, <2>2, <2>3, <3>5
         DEF SchedulerInv, Holds, Holders, ArgShape, PcShape, WorkerPcs, Submit, At,
             Goto
    <3> QED
      BY <3>1, <3>2, <3>3, <3>4, <3>5 DEF Kinds
  <2>5. Placed(arg[x], "submitted", Null)
    BY <2>4
       DEF Placed
  <2>6. (frame'[arg[x]] = "owed" <=> "submitted" \in Kinds) /\ \A f \in Frames \ {arg[x]} : frame'[f] = frame[f]
    BY <1>22, <1>a, <1>b, <2>1, <2>2, <2>3
       DEF SchedulerInv, Kinds, ArgShape, Submit, At, Goto
  <2> QED
    BY <2>1, <2>5, <2>6, PlacedKeeps DEF SchedulerInv
<1>23. ASSUME NEW x \in Outsiders, NEW g \in Frames, OutsiderSends(x, g)
      PROVE  OneHolder'
  <2>1. g \in Frames /\ frame[g] # "owed" /\ x \in Holders
    BY <1>23, <1>a, <1>b
       DEF SchedulerInv, Holds, Holders, ArgShape, OutsiderSends, At, Goto
  <2>2. \A l \in Kinds, u \in Holders : ~Holds(l, u, g)
    BY <2>1, <1>a
       DEF SchedulerInv, OneHolder
  <2>3. \A u \in Threads : arg[u] # g
    BY <2>1, <2>2, <1>b
       DEF Holds, Kinds, Holders
  <2>4. ASSUME NEW f \in Frames, NEW l \in Kinds, NEW u \in Holders
        PROVE  Holds(l, u, f)' <=> IF f = g THEN l = "arg" /\ u = x ELSE Holds(l, u, f)
    <3>1. CASE l = "submitted"
      BY <1>23, <1>a, <1>b, <2>1, <2>2, <2>3, <3>1
         DEF SchedulerInv, Holds, Holders, ArgShape, PcShape, WorkerPcs, OutsiderSends,
             At, Goto
    <3>2. CASE l = "deque"
      BY <1>23, <1>a, <1>b, <2>1, <2>2, <2>3, <3>2
         DEF SchedulerInv, Holds, Holders, ArgShape, PcShape, WorkerPcs, OutsiderSends,
             At, Goto
    <3>3. CASE l = "mini"
      BY <1>23, <1>a, <1>b, <2>1, <2>2, <2>3, <3>3
         DEF SchedulerInv, Holds, Holders, ArgShape, PcShape, WorkerPcs, OutsiderSends,
             At, Goto
    <3>4. CASE l = "arg"
      BY <1>23, <1>a, <1>b, <2>1, <2>2, <2>3, <3>4, SMTT(30)
         DEF SchedulerInv, Holds, Holders, ArgShape, PcShape, WorkerPcs, OutsiderSends,
             At, Goto
    <3>5. CASE l = "taken"
      BY <1>23, <1>a, <1>b, <2>1, <2>2, <2>3, <3>5
         DEF SchedulerInv, Holds, Holders, ArgShape, PcShape, WorkerPcs, OutsiderSends,
             At, Goto
    <3> QED
      BY <3>1, <3>2, <3>3, <3>4, <3>5 DEF Kinds
  <2>5. Placed(g, "arg", x)
    BY <2>4
       DEF Placed
  <2>6. (frame'[g] = "owed" <=> "arg" \in Kinds) /\ \A f \in Frames \ {g} : frame'[f] = frame[f]
    BY <1>23, <1>a, <1>b, <2>1, <2>2, <2>3
       DEF SchedulerInv, Kinds, ArgShape, OutsiderSends, At, Goto
  <2> QED
    BY <2>1, <2>5, <2>6, PlacedKeeps DEF SchedulerInv
<1>24. CASE ReanimateCas
  <2>1. CASE mini[visited] # seen[Reanimator]
    <3>1. ASSUME NEW f \in Frames, NEW l \in Kinds, NEW u \in Holders
          PROVE  Holds(l, u, f)' <=> Holds(l, u, f)
      BY <1>24, <1>a, <1>b, <2>1
         DEF SchedulerInv, Holds, SeenShape, PcShape, WorkerPcs, ReanimateCas, At, Goto
    <3>2. ASSUME NEW f \in Frames PROVE frame'[f] = "owed" <=> frame[f] = "owed"
      BY <1>24, <1>a, <1>b, <2>1
         DEF SchedulerInv, ReanimateCas, At, Goto
    <3> QED
      BY <3>1, <3>2, StayedKeeps DEF SchedulerInv
  <2>2. CASE mini[visited] = seen[Reanimator]
    <3>1. seen[Reanimator] \in Frames /\ Holds("mini", visited, seen[Reanimator]) /\ Reanimator \in Holders
      BY <1>24, <1>a, <1>b, <2>2
         DEF SchedulerInv, Holds, Holders, SeenShape, PcShape, ReanimateCas, At, Goto
    <3>2. /\ frame[seen[Reanimator]] = "owed"
          /\ \A l \in Kinds, u \in Holders : Holds(l, u, seen[Reanimator]) => l = "mini" /\ u = visited
      BY <3>1, <1>a, <1>b, HolderOwed
         DEF SchedulerInv, Kinds, Holders
    <3>3. \A u \in Workers : mini[u] = seen[Reanimator] => u = visited
      BY <3>1, <3>2, <1>b
         DEF Holds, Kinds, Holders
    <3>4. ASSUME NEW f \in Frames, NEW l \in Kinds, NEW u \in Holders
          PROVE  Holds(l, u, f)' <=> IF f = seen[Reanimator] THEN l = "taken" /\ u = Reanimator ELSE Holds(l, u, f)
      <4>1. CASE l = "submitted"
        BY <1>24, <1>a, <1>b, <2>2, <3>1, <3>2, <3>3, <4>1
           DEF SchedulerInv, Holds, Holders, SeenShape, PcShape, PcShape, WorkerPcs,
               ReanimateCas, At, Goto
      <4>2. CASE l = "deque"
        BY <1>24, <1>a, <1>b, <2>2, <3>1, <3>2, <3>3, <4>2
           DEF SchedulerInv, Holds, Holders, SeenShape, PcShape, PcShape, WorkerPcs,
               ReanimateCas, At, Goto
      <4>3. CASE l = "mini"
        BY <1>24, <1>a, <1>b, <2>2, <3>1, <3>2, <3>3, <4>3
           DEF SchedulerInv, Holds, Holders, SeenShape, PcShape, PcShape, WorkerPcs,
               ReanimateCas, At, Goto
      <4>4. CASE l = "arg"
        BY <1>24, <1>a, <1>b, <2>2, <3>1, <3>2, <3>3, <4>4
           DEF SchedulerInv, Holds, Holders, SeenShape, PcShape, PcShape, WorkerPcs,
               ReanimateCas, At, Goto
      <4>5. CASE l = "taken"
        BY <1>24, <1>a, <1>b, <2>2, <3>1, <3>2, <3>3, <4>5
           DEF SchedulerInv, Holds, Holders, SeenShape, PcShape, PcShape, WorkerPcs,
               ReanimateCas, At, Goto
      <4> QED
        BY <4>1, <4>2, <4>3, <4>4, <4>5 DEF Kinds
    <3>5. Placed(seen[Reanimator], "taken", Reanimator)
      BY <3>4
         DEF Placed
    <3>6. (frame'[seen[Reanimator]] = "owed" <=> "taken" \in Kinds) /\ \A f \in Frames \ {seen[Reanimator]} : frame'[f] = frame[f]
      BY <1>24, <1>a, <1>b, <2>2, <3>1, <3>2, <3>3
         DEF SchedulerInv, Kinds, SeenShape, PcShape, ReanimateCas, At, Goto
    <3> QED
      BY <3>1, <3>5, <3>6, PlacedKeeps DEF SchedulerInv
  <2> QED
    BY <2>1, <2>2
<1>25. CASE Resubmit
  <2>1. seen[Reanimator] \in Frames /\ Holds("taken", Reanimator, seen[Reanimator]) /\ Null \in Holders
    BY <1>25, <1>a, <1>b, AppendHolds
       DEF SchedulerInv, Holds, Holders, SeenShape, Resubmit, At, Goto
  <2>2. /\ frame[seen[Reanimator]] = "owed"
        /\ \A l \in Kinds, u \in Holders : Holds(l, u, seen[Reanimator]) => l = "taken" /\ u = Reanimator
    BY <2>1, <1>a, <1>b, HolderOwed
       DEF SchedulerInv, Kinds, Holders
  <2>3. \A f \in Frames : Contains(Append(submitted, seen[Reanimator]), f) <=> Contains(submitted, f) \/ f = seen[Reanimator]
    BY <1>25, <1>a, <1>b, <2>1, <2>2, AppendHolds
       DEF SchedulerInv, Distinct
  <2>4. ASSUME NEW f \in Frames, NEW l \in Kinds, NEW u \in Holders
        PROVE  Holds(l, u, f)' <=> IF f = seen[Reanimator] THEN l = "submitted" /\ u = Null ELSE Holds(l, u, f)
    <3>1. CASE l = "submitted"
      BY <1>25, <1>a, <1>b, <2>1, <2>2, <2>3, <3>1
         DEF SchedulerInv, Holds, Holders, SeenShape, PcShape, WorkerPcs, Resubmit, At,
             Goto
    <3>2. CASE l = "deque"
      BY <1>25, <1>a, <1>b, <2>1, <2>2, <2>3, <3>2
         DEF SchedulerInv, Holds, Holders, SeenShape, PcShape, WorkerPcs, Resubmit, At,
             Goto
    <3>3. CASE l = "mini"
      BY <1>25, <1>a, <1>b, <2>1, <2>2, <2>3, <3>3
         DEF SchedulerInv, Holds, Holders, SeenShape, PcShape, WorkerPcs, Resubmit, At,
             Goto
    <3>4. CASE l = "arg"
      BY <1>25, <1>a, <1>b, <2>1, <2>2, <2>3, <3>4
         DEF SchedulerInv, Holds, Holders, SeenShape, PcShape, WorkerPcs, Resubmit, At,
             Goto
    <3>5. CASE l = "taken"
      BY <1>25, <1>a, <1>b, <2>1, <2>2, <2>3, <3>5
         DEF SchedulerInv, Holds, Holders, SeenShape, PcShape, WorkerPcs, Resubmit, At,
             Goto
    <3> QED
      BY <3>1, <3>2, <3>3, <3>4, <3>5 DEF Kinds
  <2>5. Placed(seen[Reanimator], "submitted", Null)
    BY <2>4
       DEF Placed
  <2>6. (frame'[seen[Reanimator]] = "owed" <=> "submitted" \in Kinds) /\ \A f \in Frames \ {seen[Reanimator]} : frame'[f] = frame[f]
    BY <1>25, <1>a, <1>b, <2>1, <2>2, <2>3
       DEF SchedulerInv, Kinds, SeenShape, Resubmit, At, Goto
  <2> QED
    BY <2>1, <2>5, <2>6, PlacedKeeps DEF SchedulerInv
<1>26. CASE UNCHANGED vars
  BY <1>26
     DEF SchedulerInv, OneHolder, Holds
<1> QED
  BY NextCases, <1>1, <1>2, <1>3, <1>4, <1>5, <1>6, <1>7, <1>8, <1>9, <1>10, <1>11,
     <1>12, <1>13, <1>14, <1>15, <1>16, <1>17, <1>18, <1>19, <1>20, <1>21, <1>22, <1>23,
     <1>24, <1>25, <1>26

\* Every step leaves the queues without repetition: what is put into one was
\* held by a thread, and so by nobody else.
LEMMA DistinctStep ==
  ASSUME SchedulerInv, [Next]_vars
  PROVE  Distinct'
<1>a. /\ submitted \in Seq(Frames)
      /\ deque \in [Workers -> Seq(Frames)]
      /\ frame \in [Frames -> {"inactive", "owed", "running", "dead"}]
      /\ pc \in [Threads -> WorkerPcs \cup OtherPcs]
      /\ arg \in [Threads -> Frames \cup {Null}]
      /\ seen \in [Threads -> Frames \cup {Null}]
  BY DEF SchedulerInv, TypeOK, States
<1>b. /\ Workers \subseteq Threads /\ Outsiders \subseteq Threads /\ Reanimator \in Threads
      /\ Reanimator \notin Workers /\ Reanimator \notin Outsiders
      /\ \A t \in Outsiders : t \notin Workers
      /\ \A t \in Threads : t \in Workers \/ t \in Outsiders \/ t = Reanimator
      /\ Null \notin Frames /\ Null \notin Workers
  BY SchedulerAssumption DEF Threads
<1> USE DEF vars
<1>1. ASSUME NEW w \in Workers, ExecuteGet(w) PROVE Distinct'
  BY <1>1, <1>a, <1>b
     DEF SchedulerInv, Distinct, ExecuteGet, At, Goto, Read
<1>2. ASSUME NEW w \in Workers, ExecuteCas(w) PROVE Distinct'
  BY <1>2, <1>a, <1>b
     DEF SchedulerInv, Distinct, ExecuteCas, At, Goto
<1>3. ASSUME NEW w \in Workers, ExecuteFork(w) PROVE Distinct'
  <2>1. deque[w] \in Seq(Frames) /\ seen[w] \in Frames /\ Holds("taken", w, seen[w])
    BY <1>3, <1>a, <1>b
       DEF SchedulerInv, Holds, SeenShape, ExecuteFork, At
  <2>2. ~Holds("deque", w, seen[w])
    BY <2>1, <1>a, <1>b, HolderOwed DEF SchedulerInv, Kinds, Holders
  <2>3. ~Contains(deque[w], seen[w])
    BY <2>2, <1>b DEF Holds
  <2>4. IsInjective(Append(deque[w], seen[w]))
    BY <2>1, <2>3, <1>a, AppendHolds DEF SchedulerInv, Distinct
  <2> QED
    BY <1>3, <1>a, <2>4
       DEF SchedulerInv, Distinct, ExecuteFork, At, Goto, Fork
<1>4. ASSUME NEW w \in Workers, Postschedule(w) PROVE Distinct'
  BY <1>4, <1>a, <1>b
     DEF SchedulerInv, Distinct, Postschedule, At, Goto
<1>5. ASSUME NEW w \in Workers, PostscheduleNested(w) PROVE Distinct'
  BY <1>5, <1>a, <1>b
     DEF SchedulerInv, Distinct, PostscheduleNested, At, Goto, Leave
<1>6. ASSUME NEW w \in Workers, LoopPoll(w) PROVE Distinct'
  <2>1. submitted \in Seq(Frames) /\ submitted # <<>> /\ IsInjective(submitted)
    BY <1>6, <1>a DEF SchedulerInv, Distinct, LoopPoll
  <2>4. IsInjective(Tail(submitted))
    BY <2>1, TailHolds
  <2> QED
    BY <1>6, <1>a, <2>4
       DEF SchedulerInv, Distinct, LoopPoll, At, Goto, Run
<1>7. ASSUME NEW w \in Workers, LoopPop(w) PROVE Distinct'
  BY <1>7, <1>a, <1>b
     DEF SchedulerInv, Distinct, LoopPop, At, Goto
<1>8. ASSUME NEW w \in Workers, LoopEnds(w) PROVE Distinct'
  BY <1>8, <1>a, <1>b
     DEF SchedulerInv, Distinct, LoopEnds, At, Goto, Leave
<1>9. ASSUME NEW w \in Workers, PopGet(w) PROVE Distinct'
  BY <1>9, <1>a, <1>b
     DEF SchedulerInv, Distinct, PopGet, At, Goto, Read, Leave
<1>10. ASSUME NEW w \in Workers, PopCas(w) PROVE Distinct'
  BY <1>10, <1>a, <1>b
     DEF SchedulerInv, Distinct, PopCas, At, Goto, Run
<1>11. ASSUME NEW w \in Workers, FlushGet(w) PROVE Distinct'
  BY <1>11, <1>a, <1>b
     DEF SchedulerInv, Distinct, FlushGet, At, Goto, Read
<1>12. ASSUME NEW w \in Workers, FlushCas(w) PROVE Distinct'
  BY <1>12, <1>a, <1>b
     DEF SchedulerInv, Distinct, FlushCas, At, Goto
<1>13. ASSUME NEW w \in Workers, FlushFork(w) PROVE Distinct'
  <2>1. deque[w] \in Seq(Frames) /\ seen[w] \in Frames /\ Holds("taken", w, seen[w])
    BY <1>13, <1>a, <1>b
       DEF SchedulerInv, Holds, SeenShape, FlushFork, At
  <2>2. ~Holds("deque", w, seen[w])
    BY <2>1, <1>a, <1>b, HolderOwed DEF SchedulerInv, Kinds, Holders
  <2>3. ~Contains(deque[w], seen[w])
    BY <2>2, <1>b DEF Holds
  <2>4. IsInjective(Append(deque[w], seen[w]))
    BY <2>1, <2>3, <1>a, AppendHolds DEF SchedulerInv, Distinct
  <2> QED
    BY <1>13, <1>a, <2>4
       DEF SchedulerInv, Distinct, FlushFork, At, Goto, Fork
<1>14. ASSUME NEW w \in Workers, NEW g \in Frames, Send(w, g) PROVE Distinct'
  BY <1>14, <1>a, <1>b
     DEF SchedulerInv, Distinct, Send, At, Goto
<1>15. ASSUME NEW w \in Workers, Finish(w) PROVE Distinct'
  BY <1>15, <1>a, <1>b
     DEF SchedulerInv, Distinct, Finish, At, Goto
<1>16. ASSUME NEW w \in Workers, FinishAndSchedule(w) PROVE Distinct'
  BY <1>16, <1>a, <1>b
     DEF SchedulerInv, Distinct, FinishAndSchedule, At, Goto
<1>17. ASSUME NEW w \in Workers, Throw(w) PROVE Distinct'
  BY <1>17, <1>a, <1>b
     DEF SchedulerInv, Distinct, Throw, At, Goto
<1>18. ASSUME NEW w \in Workers, PopOwn(w) PROVE Distinct'
  <2>1. deque[w] \in Seq(Frames) /\ deque[w] # <<>> /\ IsInjective(deque[w])
    BY <1>18, <1>a DEF SchedulerInv, Distinct, PopOwn
  <2>4. IsInjective(Front(deque[w]))
    BY <2>1, FrontHolds
  <2> QED
    BY <1>18, <1>a, <2>4
       DEF SchedulerInv, Distinct, PopOwn, At, Goto, Run
<1>19. ASSUME NEW w \in Workers, TakeSubmission(w) PROVE Distinct'
  <2>1. submitted \in Seq(Frames) /\ submitted # <<>> /\ IsInjective(submitted)
    BY <1>19, <1>a DEF SchedulerInv, Distinct, TakeSubmission
  <2>4. IsInjective(Tail(submitted))
    BY <2>1, TailHolds
  <2> QED
    BY <1>19, <1>a, <2>4
       DEF SchedulerInv, Distinct, TakeSubmission, At, Goto, Run, Hungry
<1>20. ASSUME NEW w \in Workers, NEW v \in Workers, Steal(w, v) PROVE Distinct'
  <2>1. deque[v] \in Seq(Frames) /\ deque[v] # <<>> /\ IsInjective(deque[v])
    BY <1>20, <1>a DEF SchedulerInv, Distinct, Steal
  <2>4. IsInjective(Tail(deque[v]))
    BY <2>1, TailHolds
  <2> QED
    BY <1>20, <1>a, <2>4
       DEF SchedulerInv, Distinct, Steal, Hungry, Run, At, Goto
<1>21. ASSUME NEW w \in Workers, Reanimate(w) PROVE Distinct'
  BY <1>21, <1>a, <1>b
     DEF SchedulerInv, Distinct, Reanimate, Read, At, Goto
<1>22. ASSUME NEW x \in Outsiders, Submit(x) PROVE Distinct'
  <2>1. submitted \in Seq(Frames) /\ arg[x] \in Frames /\ Holds("arg", x, arg[x])
    BY <1>22, <1>a, <1>b
       DEF SchedulerInv, Holds, ArgShape, Submit, At
  <2>2. ~Holds("submitted", Null, arg[x])
    BY <2>1, <1>a, <1>b, HolderOwed DEF SchedulerInv, Kinds, Holders
  <2>3. ~Contains(submitted, arg[x])
    BY <2>2, <1>b DEF Holds
  <2>4. IsInjective(Append(submitted, arg[x]))
    BY <2>1, <2>3, <1>a, AppendHolds DEF SchedulerInv, Distinct
  <2> QED
    BY <1>22, <1>a, <2>4
       DEF SchedulerInv, Distinct, Submit, At, Goto
<1>23. ASSUME NEW x \in Outsiders, NEW g \in Frames, OutsiderSends(x, g) PROVE Distinct'
  BY <1>23, <1>a, <1>b
     DEF SchedulerInv, Distinct, OutsiderSends, At, Goto
<1>24. CASE ReanimateCas
  BY <1>24, <1>a, <1>b
     DEF SchedulerInv, Distinct, ReanimateCas, At, Goto
<1>25. CASE Resubmit
  <2>1. submitted \in Seq(Frames) /\ seen[Reanimator] \in Frames /\ Holds("taken", Reanimator, seen[Reanimator])
    BY <1>25, <1>a, <1>b
       DEF SchedulerInv, Holds, SeenShape, Resubmit, At
  <2>2. ~Holds("submitted", Null, seen[Reanimator])
    BY <2>1, <1>a, <1>b, HolderOwed DEF SchedulerInv, Kinds, Holders
  <2>3. ~Contains(submitted, seen[Reanimator])
    BY <2>2, <1>b DEF Holds
  <2>4. IsInjective(Append(submitted, seen[Reanimator]))
    BY <2>1, <2>3, <1>a, AppendHolds DEF SchedulerInv, Distinct
  <2> QED
    BY <1>25, <1>a, <2>4
       DEF SchedulerInv, Distinct, Resubmit, At, Goto
<1>26. CASE UNCHANGED vars
  BY <1>26
     DEF SchedulerInv, Distinct
<1> QED
  BY NextCases, <1>1, <1>2, <1>3, <1>4, <1>5, <1>6, <1>7, <1>8, <1>9, <1>10, <1>11,
     <1>12, <1>13, <1>14, <1>15, <1>16, <1>17, <1>18, <1>19, <1>20, <1>21, <1>22, <1>23,
     <1>24, <1>25, <1>26

\* Every step leaves a running frame with one worker, and any other frame with
\* none.
LEMMA OneWorkerStep ==
  ASSUME SchedulerInv, [Next]_vars
  PROVE  OneWorker'
<1>a. /\ frame \in [Frames -> {"inactive", "owed", "running", "dead"}]
      /\ task \in [Workers -> Frames \cup {Null}]
      /\ submitted \in Seq(Frames)
      /\ deque \in [Workers -> Seq(Frames)]
      /\ mini \in [Workers -> Frames \cup {Null}]
      /\ seen \in [Threads -> Frames \cup {Null}]
      /\ arg \in [Threads -> Frames \cup {Null}]
  BY DEF SchedulerInv, TypeOK, States
<1>b. /\ Workers \subseteq Threads /\ Outsiders \subseteq Threads /\ Reanimator \in Threads
      /\ Reanimator \notin Workers /\ Reanimator \notin Outsiders
      /\ \A t \in Outsiders : t \notin Workers
      /\ \A t \in Threads : t \in Workers \/ t \in Outsiders \/ t = Reanimator
      /\ Null \notin Frames /\ Null \notin Workers
  BY SchedulerAssumption DEF Threads
<1> USE DEF vars
<1>1. ASSUME NEW w \in Workers, ExecuteGet(w) PROVE OneWorker'
  BY <1>1, <1>a, <1>b
     DEF SchedulerInv, OneWorker, ExecuteGet, At, Goto, Read
<1>2. ASSUME NEW w \in Workers, ExecuteCas(w) PROVE OneWorker'
  BY <1>2, <1>a, <1>b
     DEF SchedulerInv, OneWorker, ExecuteCas, At, Goto
<1>3. ASSUME NEW w \in Workers, ExecuteFork(w) PROVE OneWorker'
  BY <1>3, <1>a, <1>b
     DEF SchedulerInv, OneWorker, ExecuteFork, At, Goto, Fork
<1>4. ASSUME NEW w \in Workers, Postschedule(w) PROVE OneWorker'
  BY <1>4, <1>a, <1>b
     DEF SchedulerInv, OneWorker, Postschedule, At, Goto
<1>5. ASSUME NEW w \in Workers, PostscheduleNested(w) PROVE OneWorker'
  BY <1>5, <1>a, <1>b
     DEF SchedulerInv, OneWorker, PostscheduleNested, At, Goto, Leave
<1>6. ASSUME NEW w \in Workers, LoopPoll(w) PROVE OneWorker'
  <2>0. submitted \in Seq(Frames) /\ submitted # <<>> /\ IsInjective(submitted)
    BY <1>6, <1>a DEF SchedulerInv, Distinct, LoopPoll
  <2>1. Head(submitted) \in Frames /\ Holds("submitted", Null, Head(submitted))
    BY <1>6, <1>a, <1>b, <2>0, TailHolds
       DEF SchedulerInv, Holds, LoopPoll, At
  <2>2. frame[Head(submitted)] = "owed"
    BY <2>1, <1>a, <1>b, HolderOwed DEF SchedulerInv, Kinds, Holders
  <2>3. task[w] = Null
    BY <1>6, <1>b DEF SchedulerInv, TaskShape, LoopPoll, At, Hungry
  <2>4. /\ frame' = [frame EXCEPT ![Head(submitted)] = "running"]
        /\ task' = [task EXCEPT ![w] = Head(submitted)]
    BY <1>6 DEF LoopPoll, Run
  <2> QED
    BY <1>a, <1>b, <2>1, <2>2, <2>3, <2>4 DEF SchedulerInv, OneWorker
<1>7. ASSUME NEW w \in Workers, LoopPop(w) PROVE OneWorker'
  BY <1>7, <1>a, <1>b
     DEF SchedulerInv, OneWorker, LoopPop, At, Goto
<1>8. ASSUME NEW w \in Workers, LoopEnds(w) PROVE OneWorker'
  BY <1>8, <1>a, <1>b
     DEF SchedulerInv, OneWorker, LoopEnds, At, Goto, Leave
<1>9. ASSUME NEW w \in Workers, PopGet(w) PROVE OneWorker'
  BY <1>9, <1>a, <1>b
     DEF SchedulerInv, OneWorker, PopGet, At, Goto, Read, Leave
<1>10. ASSUME NEW w \in Workers, PopCas(w) PROVE OneWorker'
  <2>1. CASE mini[w] # seen[w]
    BY <1>10, <2>1 DEF SchedulerInv, OneWorker, PopCas
  <2>2. CASE mini[w] = seen[w]
    <3>1. seen[w] \in Frames /\ Holds("mini", w, seen[w])
      BY <1>10, <2>2, <1>a, <1>b
         DEF SchedulerInv, Holds, SeenShape, PopCas, At
    <3>2. frame[seen[w]] = "owed"
      BY <3>1, <1>a, <1>b, HolderOwed DEF SchedulerInv, Kinds, Holders
    <3>3. task[w] = Null
      BY <1>10, <2>2, <1>b DEF SchedulerInv, TaskShape, PopCas, At, Hungry
    <3>4. /\ frame' = [frame EXCEPT ![seen[w]] = "running"]
          /\ task' = [task EXCEPT ![w] = seen[w]]
      BY <1>10, <2>2 DEF PopCas, Run
    <3> QED
      BY <1>a, <1>b, <3>1, <3>2, <3>3, <3>4 DEF SchedulerInv, OneWorker
  <2> QED
    BY <2>1, <2>2
<1>11. ASSUME NEW w \in Workers, FlushGet(w) PROVE OneWorker'
  BY <1>11, <1>a, <1>b
     DEF SchedulerInv, OneWorker, FlushGet, At, Goto, Read
<1>12. ASSUME NEW w \in Workers, FlushCas(w) PROVE OneWorker'
  BY <1>12, <1>a, <1>b
     DEF SchedulerInv, OneWorker, FlushCas, At, Goto
<1>13. ASSUME NEW w \in Workers, FlushFork(w) PROVE OneWorker'
  BY <1>13, <1>a, <1>b
     DEF SchedulerInv, OneWorker, FlushFork, At, Goto, Fork
<1>14. ASSUME NEW w \in Workers, NEW g \in Frames, Send(w, g) PROVE OneWorker'
  BY <1>14, <1>a, <1>b
     DEF SchedulerInv, OneWorker, Send, At, Goto
<1>15. ASSUME NEW w \in Workers, Finish(w) PROVE OneWorker'
  BY <1>15, <1>a, <1>b
     DEF SchedulerInv, OneWorker, TaskShape, Finish, At
<1>16. ASSUME NEW w \in Workers, FinishAndSchedule(w) PROVE OneWorker'
  BY <1>16, <1>a, <1>b
     DEF SchedulerInv, OneWorker, TaskShape, FinishAndSchedule, At
<1>17. ASSUME NEW w \in Workers, Throw(w) PROVE OneWorker'
  BY <1>17, <1>a, <1>b
     DEF SchedulerInv, OneWorker, TaskShape, Throw, At
<1>18. ASSUME NEW w \in Workers, PopOwn(w) PROVE OneWorker'
  <2>0. deque[w] \in Seq(Frames) /\ deque[w] # <<>> /\ IsInjective(deque[w])
    BY <1>18, <1>a DEF SchedulerInv, Distinct, PopOwn
  <2>1. Last(deque[w]) \in Frames /\ Holds("deque", w, Last(deque[w]))
    BY <1>18, <1>a, <1>b, <2>0, FrontHolds
       DEF SchedulerInv, Holds, PopOwn, At
  <2>2. frame[Last(deque[w])] = "owed"
    BY <2>1, <1>a, <1>b, HolderOwed DEF SchedulerInv, Kinds, Holders
  <2>3. task[w] = Null
    BY <1>18, <1>b DEF SchedulerInv, TaskShape, PopOwn, At, Hungry
  <2>4. /\ frame' = [frame EXCEPT ![Last(deque[w])] = "running"]
        /\ task' = [task EXCEPT ![w] = Last(deque[w])]
    BY <1>18 DEF PopOwn, Run
  <2> QED
    BY <1>a, <1>b, <2>1, <2>2, <2>3, <2>4 DEF SchedulerInv, OneWorker
<1>19. ASSUME NEW w \in Workers, TakeSubmission(w) PROVE OneWorker'
  <2>0. submitted \in Seq(Frames) /\ submitted # <<>> /\ IsInjective(submitted)
    BY <1>19, <1>a DEF SchedulerInv, Distinct, TakeSubmission
  <2>1. Head(submitted) \in Frames /\ Holds("submitted", Null, Head(submitted))
    BY <1>19, <1>a, <1>b, <2>0, TailHolds
       DEF SchedulerInv, Holds, TakeSubmission, At
  <2>2. frame[Head(submitted)] = "owed"
    BY <2>1, <1>a, <1>b, HolderOwed DEF SchedulerInv, Kinds, Holders
  <2>3. task[w] = Null
    BY <1>19, <1>b DEF SchedulerInv, TaskShape, TakeSubmission, At, Hungry
  <2>4. /\ frame' = [frame EXCEPT ![Head(submitted)] = "running"]
        /\ task' = [task EXCEPT ![w] = Head(submitted)]
    BY <1>19 DEF TakeSubmission, Run
  <2> QED
    BY <1>a, <1>b, <2>1, <2>2, <2>3, <2>4 DEF SchedulerInv, OneWorker
<1>20. ASSUME NEW w \in Workers, NEW v \in Workers, Steal(w, v) PROVE OneWorker'
  <2>0. deque[v] \in Seq(Frames) /\ deque[v] # <<>> /\ IsInjective(deque[v])
    BY <1>20, <1>a DEF SchedulerInv, Distinct, Steal
  <2>1. Head(deque[v]) \in Frames /\ Holds("deque", v, Head(deque[v]))
    BY <1>20, <1>a, <1>b, <2>0, TailHolds
       DEF SchedulerInv, Holds, Steal, At
  <2>2. frame[Head(deque[v])] = "owed"
    BY <2>1, <1>a, <1>b, HolderOwed DEF SchedulerInv, Kinds, Holders
  <2>3. task[w] = Null
    BY <1>20, <1>b DEF SchedulerInv, TaskShape, Steal, At, Hungry
  <2>4. /\ frame' = [frame EXCEPT ![Head(deque[v])] = "running"]
        /\ task' = [task EXCEPT ![w] = Head(deque[v])]
    BY <1>20 DEF Steal, Run
  <2> QED
    BY <1>a, <1>b, <2>1, <2>2, <2>3, <2>4 DEF SchedulerInv, OneWorker
<1>21. ASSUME NEW w \in Workers, Reanimate(w) PROVE OneWorker'
  BY <1>21, <1>a, <1>b
     DEF SchedulerInv, OneWorker, Reanimate, Read, At, Goto
<1>22. ASSUME NEW x \in Outsiders, Submit(x) PROVE OneWorker'
  BY <1>22, <1>a, <1>b
     DEF SchedulerInv, OneWorker, Submit, At, Goto
<1>23. ASSUME NEW x \in Outsiders, NEW g \in Frames, OutsiderSends(x, g)
      PROVE  OneWorker'
  BY <1>23, <1>a, <1>b
     DEF SchedulerInv, OneWorker, OutsiderSends, At, Goto
<1>24. CASE ReanimateCas
  BY <1>24, <1>a, <1>b
     DEF SchedulerInv, OneWorker, ReanimateCas, At, Goto
<1>25. CASE Resubmit
  BY <1>25, <1>a, <1>b
     DEF SchedulerInv, OneWorker, Resubmit, At, Goto
<1>26. CASE UNCHANGED vars
  BY <1>26
     DEF SchedulerInv, OneWorker
<1> QED
  BY NextCases, <1>1, <1>2, <1>3, <1>4, <1>5, <1>6, <1>7, <1>8, <1>9, <1>10, <1>11,
     <1>12, <1>13, <1>14, <1>15, <1>16, <1>17, <1>18, <1>19, <1>20, <1>21, <1>22, <1>23,
     <1>24, <1>25, <1>26

-----------------------------------------------------------------------------
(* The theorems *)

\* The initial state satisfies the invariant.
LEMMA InitInv == Init => SchedulerInv
<1> SUFFICES ASSUME Init PROVE SchedulerInv
  OBVIOUS
<1> USE DEF Init
<1>1. TypeOK
  <2>1. loops \in [Workers -> 0 .. Loops]
    BY SchedulerAssumption
  <2>2. submitted \in Seq(Frames) /\ deque \in [Workers -> Seq(Frames)]
    OBVIOUS
  <2> QED
    BY <2>1, <2>2 DEF TypeOK, States, WorkerPcs, OtherPcs
<1>2. PcShape /\ TaskShape /\ StateShape /\ MiniShape
  BY SchedulerAssumption DEF PcShape, TaskShape, StateShape, MiniShape, Threads, WorkerPcs
<1>3. ArgShape /\ SeenShape
  BY SchedulerAssumption DEF ArgShape, SeenShape, Threads
<1>4. Distinct
  BY DEF Distinct, IsInjective
<1>5. OneHolder
  <2>1. ASSUME NEW f \in Frames PROVE ~Contains(<<>>, f)
    BY DEF Contains
  <2>2. ASSUME NEW f \in Frames, NEW k \in Kinds, NEW t \in Holders PROVE ~Holds(k, t, f)
    BY <2>1, SchedulerAssumption DEF Holds
  <2> QED
    BY <2>2 DEF OneHolder
<1>6. OneWorker
  BY SchedulerAssumption DEF OneWorker
<1> QED
  BY <1>1, <1>2, <1>3, <1>4, <1>5, <1>6 DEF SchedulerInv

\* Every step keeps the invariant.
LEMMA NextInv == SchedulerInv /\ [Next]_vars => SchedulerInv'
<1> SUFFICES ASSUME SchedulerInv, [Next]_vars PROVE SchedulerInv'
  OBVIOUS
<1>1. TypeOK' /\ PcShape' /\ TaskShape' /\ ArgShape' /\ SeenShape'
  BY TypeStep, PcShapeStep, TaskShapeStep, ArgShapeStep, SeenShapeStep
<1>2. StateShape' /\ MiniShape' /\ Distinct' /\ OneHolder' /\ OneWorker'
  BY StateShapeStep, MiniShapeStep, DistinctStep, OneHolderStep, OneWorkerStep
<1> QED
  BY <1>1, <1>2 DEF SchedulerInv

\* The inductive invariant of the default scheduler.
THEOREM SchedulerInvariant == Spec => []SchedulerInv
BY InitInv, NextInv, PTL DEF Spec

\* Every variable keeps its type.
THEOREM SchedulerTypes == Spec => []TypeOK
<1>1. SchedulerInv => TypeOK
  BY DEF SchedulerInv
<1> QED
  BY <1>1, SchedulerInvariant, PTL

\* A worker that goes back to the pool leaves nothing in its mini-queue, no
\* exception and no half-finished postschedule behind.
THEOREM FlushedWhenIdleHolds == Spec => []FlushedWhenIdle
<1>1. SchedulerInv => FlushedWhenIdle
  <2> SUFFICES ASSUME SchedulerInv, NEW w \in Workers, At(w, "idle")
               PROVE  /\ mini[w] = Null /\ arg[w] = Null /\ seen[w] = Null
                      /\ state[w] = "ASLEEP" /\ nested[w] = "no" /\ ~thrown[w]
    BY DEF FlushedWhenIdle
  <2>1. pc[w] = "idle" /\ w \in Threads /\ w \notin Outsiders
    BY SchedulerAssumption DEF At, Threads
  <2>2. mini[w] = Null
    BY <2>1 DEF SchedulerInv, MiniShape
  <2>3. arg[w] = Null /\ seen[w] = Null
    BY <2>1 DEF SchedulerInv, ArgShape, SeenShape
  <2>4. state[w] = "ASLEEP" /\ nested[w] = "no" /\ ~thrown[w]
    BY <2>1 DEF SchedulerInv, StateShape
  <2> QED
    BY <2>2, <2>3, <2>4
<1> QED
  BY <1>1, SchedulerInvariant, PTL

\* Where a frame waits, by kind of place.
SubmittedAt(f) == {<<"submitted", i>> : i \in {j \in DOMAIN submitted : submitted[j] = f}}
DequeAt(w, f) == {<<"deque", w, i>> : i \in {j \in DOMAIN deque[w] : deque[w][j] = f}}
DequesAt(f) == UNION {DequeAt(w, f) : w \in Workers}
MiniAt(f) == {<<"mini", w>> : w \in {v \in Workers : mini[v] = f}}
ArgAt(f) == {<<"arg", t>> : t \in {u \in Threads : arg[u] = f}}
TakenAt(f) == {<<"taken", t>> : t \in {u \in Threads :
                 seen[u] = f /\ pc[u] \in {"fork", "flushFork", "resubmit"}}}

\* The places where a frame waits, kind by kind.
LEMMA WaitingParts ==
  ASSUME NEW f
  PROVE  Waiting(f) = SubmittedAt(f) \cup MiniAt(f) \cup ArgAt(f) \cup TakenAt(f) \cup DequesAt(f)
<1>1. DequesAt(f) = UNION {{<<"deque", w, i>> :
                      i \in {j \in DOMAIN deque[w] : deque[w][j] = f}} : w \in Workers}
  BY Zenon DEF DequesAt, DequeAt
<1> QED
  BY <1>1, Zenon DEF Waiting, SubmittedAt, MiniAt, ArgAt, TakenAt

\* A place is empty unless it holds the frame, and a queue has the frame once.
LEMMA PartsHeld ==
  ASSUME SchedulerInv, NEW f \in Frames
  PROVE  /\ ~Holds("submitted", Null, f) => SubmittedAt(f) = {}
         /\ Holds("submitted", Null, f) => \E p : SubmittedAt(f) = {p}
         /\ \A w \in Workers : ~Holds("deque", w, f) => DequeAt(w, f) = {}
         /\ \A w \in Workers : Holds("deque", w, f) => \E p : DequeAt(w, f) = {p}
         /\ (\A w \in Workers : ~Holds("mini", w, f)) => MiniAt(f) = {}
         /\ \A w \in Workers : (\A v \in Workers : Holds("mini", v, f) <=> v = w)
              => MiniAt(f) = {<<"mini", w>>}
         /\ (\A t \in Threads : ~Holds("arg", t, f)) => ArgAt(f) = {}
         /\ \A t \in Threads : (\A u \in Threads : Holds("arg", u, f) <=> u = t)
              => ArgAt(f) = {<<"arg", t>>}
         /\ (\A t \in Threads : ~Holds("taken", t, f)) => TakenAt(f) = {}
         /\ \A t \in Threads : (\A u \in Threads : Holds("taken", u, f) <=> u = t)
              => TakenAt(f) = {<<"taken", t>>}
<1>1. /\ submitted \in Seq(Frames) /\ IsInjective(submitted)
      /\ \A w \in Workers : deque[w] \in Seq(Frames) /\ IsInjective(deque[w])
  BY DEF SchedulerInv, TypeOK, Distinct
<1>2. ~Holds("submitted", Null, f) => SubmittedAt(f) = {}
  BY <1>1 DEF Holds, SubmittedAt, Contains
<1>3. ASSUME Holds("submitted", Null, f) PROVE \E p : SubmittedAt(f) = {p}
  <2>1. PICK i \in DOMAIN submitted : submitted[i] = f
    BY <1>1, <1>3 DEF Holds, Contains
  <2>2. \A j \in DOMAIN submitted : submitted[j] = f => j = i
    BY <1>1, <2>1 DEF IsInjective
  <2>3. SubmittedAt(f) = {<<"submitted", i>>}
    BY <2>1, <2>2 DEF SubmittedAt
  <2> QED
    BY <2>3
<1>4. ASSUME NEW w \in Workers, ~Holds("deque", w, f) PROVE DequeAt(w, f) = {}
  BY <1>1, <1>4 DEF Holds, DequeAt, Contains
<1>5. ASSUME NEW w \in Workers, Holds("deque", w, f) PROVE \E p : DequeAt(w, f) = {p}
  <2>1. PICK i \in DOMAIN deque[w] : deque[w][i] = f
    BY <1>1, <1>5 DEF Holds, Contains
  <2>2. \A j \in DOMAIN deque[w] : deque[w][j] = f => j = i
    BY <1>1, <2>1 DEF IsInjective
  <2>3. DequeAt(w, f) = {<<"deque", w, i>>}
    BY <2>1, <2>2 DEF DequeAt
  <2> QED
    BY <2>3
<1>6. (\A w \in Workers : ~Holds("mini", w, f)) => MiniAt(f) = {}
  BY DEF Holds, MiniAt
<1>7. ASSUME NEW w \in Workers, \A v \in Workers : Holds("mini", v, f) <=> v = w
      PROVE  MiniAt(f) = {<<"mini", w>>}
  <2>1. {v \in Workers : mini[v] = f} = {w}
    BY <1>7 DEF Holds
  <2> QED
    BY <2>1 DEF MiniAt
<1>8. (\A t \in Threads : ~Holds("arg", t, f)) => ArgAt(f) = {}
  BY DEF Holds, ArgAt
<1>9. ASSUME NEW t \in Threads, \A u \in Threads : Holds("arg", u, f) <=> u = t
      PROVE  ArgAt(f) = {<<"arg", t>>}
  <2>1. {u \in Threads : arg[u] = f} = {t}
    BY <1>9 DEF Holds
  <2> QED
    BY <2>1 DEF ArgAt
<1>10. (\A t \in Threads : ~Holds("taken", t, f)) => TakenAt(f) = {}
  BY DEF Holds, TakenAt
<1>11. ASSUME NEW t \in Threads, \A u \in Threads : Holds("taken", u, f) <=> u = t
       PROVE  TakenAt(f) = {<<"taken", t>>}
  <2>1. {u \in Threads : seen[u] = f /\ pc[u] \in {"fork", "flushFork", "resubmit"}} = {t}
    BY <1>11 DEF Holds
  <2> QED
    BY <2>1 DEF TakenAt
<1> QED
  BY <1>2, <1>3, <1>4, <1>5, <1>6, <1>7, <1>8, <1>9, <1>10, <1>11

\* A frame with one holder waits at one position.
LEMMA HolderOnly ==
  ASSUME SchedulerInv, NEW f \in Frames, NEW k \in Kinds, NEW t \in Holders,
         \A l \in Kinds, u \in Holders : Holds(l, u, f) <=> l = k /\ u = t
  PROVE  \E p \in Waiting(f) : Waiting(f) = {p}
<1>0. Workers \subseteq Threads /\ Threads \subseteq Holders /\ Null \in Holders
  BY DEF Threads, Holders
<1>1. k # "submitted" => SubmittedAt(f) = {}
  <2>1. k # "submitted" => ~Holds("submitted", Null, f)
    BY <1>0 DEF Kinds
  <2> QED
    BY <2>1, PartsHeld
<1>2. k # "deque" => DequesAt(f) = {}
  <2>1. ASSUME k # "deque", NEW w \in Workers PROVE DequeAt(w, f) = {}
    <3>1. ~Holds("deque", w, f)
      BY <1>0, <2>1 DEF Kinds
    <3> QED
      BY <3>1, PartsHeld
  <2> QED
    BY <2>1 DEF DequesAt
<1>3. k # "mini" => MiniAt(f) = {}
  <2>1. k # "mini" => \A w \in Workers : ~Holds("mini", w, f)
    BY <1>0 DEF Kinds
  <2> QED
    BY <2>1, PartsHeld
<1>4. k # "arg" => ArgAt(f) = {}
  <2>1. k # "arg" => \A u \in Threads : ~Holds("arg", u, f)
    BY <1>0 DEF Kinds
  <2> QED
    BY <2>1, PartsHeld
<1>5. k # "taken" => TakenAt(f) = {}
  <2>1. k # "taken" => \A u \in Threads : ~Holds("taken", u, f)
    BY <1>0 DEF Kinds
  <2> QED
    BY <2>1, PartsHeld
<1>6. Holds(k, t, f)
  OBVIOUS
<1>7. k = "submitted" => \E p : SubmittedAt(f) = {p}
  <2>1. k = "submitted" => Holds("submitted", Null, f)
    BY <1>6 DEF Holds
  <2> QED
    BY <2>1, PartsHeld
<1>8. ASSUME k = "deque" PROVE \E p : DequesAt(f) = {p}
  <2>1. t \in Workers /\ Holds("deque", t, f)
    BY <1>6, <1>8 DEF Holds
  <2>2. PICK p : DequeAt(t, f) = {p}
    BY <2>1, PartsHeld
  <2>3. ASSUME NEW w \in Workers, w # t PROVE DequeAt(w, f) = {}
    <3>1. ~Holds("deque", w, f)
      BY <1>0, <2>3 DEF Kinds
    <3> QED
      BY <3>1, PartsHeld
  <2>4. DequesAt(f) = {p}
    BY <2>1, <2>2, <2>3 DEF DequesAt
  <2> QED
    BY <2>4
<1>9. ASSUME k = "mini" PROVE \E p : MiniAt(f) = {p}
  <2>1. t \in Workers /\ \A v \in Workers : Holds("mini", v, f) <=> v = t
    <3>1. t \in Workers
      BY <1>6, <1>9 DEF Holds
    <3> QED
      BY <1>0, <1>9, <3>1
  <2> QED
    BY <2>1, PartsHeld
<1>10. ASSUME k = "arg" PROVE \E p : ArgAt(f) = {p}
  <2>1. t \in Threads /\ \A v \in Threads : Holds("arg", v, f) <=> v = t
    <3>1. t \in Threads
      BY <1>6, <1>10 DEF Holds
    <3> QED
      BY <1>0, <1>10, <3>1
  <2> QED
    BY <2>1, PartsHeld
<1>11. ASSUME k = "taken" PROVE \E p : TakenAt(f) = {p}
  <2>1. t \in Threads /\ \A v \in Threads : Holds("taken", v, f) <=> v = t
    <3>1. t \in Threads
      BY <1>6, <1>11 DEF Holds
    <3> QED
      BY <1>0, <1>11, <3>1
  <2> QED
    BY <2>1, PartsHeld
<1>12. Waiting(f) = SubmittedAt(f) \cup MiniAt(f) \cup ArgAt(f) \cup TakenAt(f) \cup DequesAt(f)
  BY WaitingParts
<1>13. \E p : Waiting(f) = {p}
  <2>1. CASE k = "submitted"
    BY <1>2, <1>3, <1>4, <1>5, <1>7, <1>12, <2>1
  <2>2. CASE k = "deque"
    BY <1>1, <1>3, <1>4, <1>5, <1>8, <1>12, <2>2
  <2>3. CASE k = "mini"
    BY <1>1, <1>2, <1>4, <1>5, <1>9, <1>12, <2>3
  <2>4. CASE k = "arg"
    BY <1>1, <1>2, <1>3, <1>5, <1>10, <1>12, <2>4
  <2>5. CASE k = "taken"
    BY <1>1, <1>2, <1>3, <1>4, <1>11, <1>12, <2>5
  <2> QED
    BY <2>1, <2>2, <2>3, <2>4, <2>5 DEF Kinds
<1> QED
  BY <1>13

\* A frame without a holder waits nowhere.
LEMMA NoHolder ==
  ASSUME SchedulerInv, NEW f \in Frames, \A l \in Kinds, u \in Holders : ~Holds(l, u, f)
  PROVE  Waiting(f) = {}
<1>0. Workers \subseteq Threads /\ Threads \subseteq Holders /\ Null \in Holders
  BY DEF Threads, Holders
<1>1. SubmittedAt(f) = {} /\ MiniAt(f) = {} /\ ArgAt(f) = {} /\ TakenAt(f) = {}
  <2>1. /\ ~Holds("submitted", Null, f) /\ \A w \in Workers : ~Holds("mini", w, f)
        /\ \A u \in Threads : ~Holds("arg", u, f) /\ ~Holds("taken", u, f)
    BY <1>0 DEF Kinds
  <2> QED
    BY <2>1, PartsHeld
<1>2. ASSUME NEW w \in Workers PROVE DequeAt(w, f) = {}
  <2>1. ~Holds("deque", w, f)
    BY <1>0 DEF Kinds
  <2> QED
    BY <2>1, PartsHeld
<1>3. DequesAt(f) = {}
  BY <1>2 DEF DequesAt
<1> QED
  BY <1>1, <1>3, WaitingParts

\* A scheduled frame waits in exactly one place until exactly one worker runs
\* it, and no other frame is run: the scheduler's contract with ReactorFrame.
THEOREM ScheduledOnceHolds == Spec => []ScheduledOnce
<1>1. SchedulerInv => ScheduledOnce
  <2> SUFFICES ASSUME SchedulerInv, NEW f \in Frames
               PROVE  /\ frame[f] = "owed" => \E p \in Waiting(f) : Waiting(f) = {p}
                      /\ frame[f] # "owed" => Waiting(f) = {}
                      /\ frame[f] = "running" => \E w \in Workers : Executing(f) = {w}
                      /\ frame[f] # "running" => Executing(f) = {}
    BY DEF ScheduledOnce
  <2>1. ASSUME frame[f] = "owed" PROVE \E p \in Waiting(f) : Waiting(f) = {p}
    <3>1. PICK k \in Kinds, t \in Holders :
            /\ Holds(k, t, f)
            /\ \A l \in Kinds, u \in Holders : Holds(l, u, f) => l = k /\ u = t
      BY <2>1 DEF SchedulerInv, OneHolder
    <3> QED
      BY <3>1, HolderOnly
  <2>2. ASSUME frame[f] # "owed" PROVE Waiting(f) = {}
    BY <2>2, NoHolder DEF SchedulerInv, OneHolder
  <2>3. f # Null
    BY SchedulerAssumption
  <2>4. ASSUME frame[f] = "running" PROVE \E w \in Workers : Executing(f) = {w}
    <3>1. PICK w \in Workers : task[w] = f
      BY <2>4 DEF SchedulerInv, OneWorker
    <3>2. Executing(f) = {w}
      BY <2>3, <3>1 DEF SchedulerInv, OneWorker, Executing
    <3> QED
      BY <3>2
  <2>5. ASSUME frame[f] # "running" PROVE Executing(f) = {}
    BY <2>3, <2>5 DEF SchedulerInv, OneWorker, Executing
  <2> QED
    BY <2>1, <2>2, <2>4, <2>5
<1> QED
  BY <1>1, SchedulerInvariant, PTL
=============================================================================

-------------------------- MODULE ForkJoinScheduler --------------------------
(***************************************************************************)
(* The default scheduler of the JVM (JvmScheduler.Executed on a            *)
(* ReactorForkJoinPool).  Its promise to a frame is the one ReactorFrame   *)
(* assumes of its variable tasks: each call of schedule leads to exactly   *)
(* one execution of the frame's batch.  A call from a worker thread does   *)
(* not go to the pool: it swaps the frame into the worker's one-place      *)
(* mini-queue, from which the worker itself, after its batch, or the       *)
(* reanimator thread, if the worker is slow, takes it.  The mini-queue is  *)
(* an atomic reference: a read and a compare-and-set are two steps.        *)
(*                                                                         *)
(* The fork/join pool is the JDK's.  Of it the code uses: execute appends  *)
(* to the submissions, pollSubmission takes the first of them, fork pushes *)
(* on the worker's own deque, and a worker with nothing to do pops its own *)
(* deque, or, when that is empty, takes the oldest task of another queue.  *)
(***************************************************************************)
EXTENDS Naturals, Sequences, SequencesExt

CONSTANTS
  Frames,
  Workers,    \* ReactorForkJoinWorkerThreads.
  Outsiders,  \* Threads outside of the pool that call schedule.
  Reanimator, \* The ReactorForkJoinReanimatorThread.
  Loops,      \* schedulerConfig.postscheduleCount
  Null

ASSUME SchedulerAssumption ==
  /\ Workers \cap Outsiders = {}
  /\ Reanimator \notin Workers \cup Outsiders
  /\ Null \notin Frames \cup Workers
  /\ Loops \in Nat

Threads == Workers \cup Outsiders \cup {Reanimator}

VARIABLES
  frame,      \* What the frame knows: "inactive"; "owed": active, schedule
              \* was called or is about to be; "running"; "dead".
  submitted,  \* The pool's submissions.
  deque,      \* Each worker's own deque, the newest task last.
  mini,       \* worker.miniQueue
  state,      \* worker.state
  loops,      \* postschedule's loopsLeft
  nested,     \* How the batch inside postschedule was started: "poll",
              \* "mini", or "no".
  thrown,     \* An exception is on its way to the error handler.
  pc,
  task,       \* The frame a worker executes.
  arg,        \* The frame a thread has to schedule.
  seen,       \* What a thread has read from a mini-queue, or taken from it.
  visited     \* The worker the reanimator looks at.

vars == <<frame, submitted, deque, mini, state, loops, nested, thrown, pc,
          task, arg, seen, visited>>

States == {"ASLEEP", "AWAKE", "POSTSCHEDULING"}
WorkerPcs == {"idle", "batch", "get", "cas", "fork", "post", "loop", "pop",
              "popCas", "flush", "flushCas", "flushFork"}
OtherPcs == {"idle", "submit", "take", "resubmit"}

TypeOK ==
  /\ frame \in [Frames -> {"inactive", "owed", "running", "dead"}]
  /\ submitted \in Seq(Frames)
  /\ deque \in [Workers -> Seq(Frames)]
  /\ mini \in [Workers -> Frames \cup {Null}]
  /\ state \in [Workers -> States]
  /\ loops \in [Workers -> 0 .. Loops]
  /\ nested \in [Workers -> {"no", "poll", "mini"}]
  /\ thrown \in [Workers -> BOOLEAN]
  /\ pc \in [Threads -> WorkerPcs \cup OtherPcs]
  /\ task \in [Workers -> Frames \cup {Null}]
  /\ arg \in [Threads -> Frames \cup {Null}]
  /\ seen \in [Threads -> Frames \cup {Null}]
  /\ visited \in Workers \cup {Null}

Init ==
  /\ frame = [f \in Frames |-> "inactive"]
  /\ submitted = <<>>
  /\ deque = [w \in Workers |-> <<>>]
  /\ mini = [w \in Workers |-> Null]
  /\ state = [w \in Workers |-> "ASLEEP"]
  /\ loops = [w \in Workers |-> 0]
  /\ nested = [w \in Workers |-> "no"]
  /\ thrown = [w \in Workers |-> FALSE]
  /\ pc = [t \in Threads |-> "idle"]
  /\ task = [w \in Workers |-> Null]
  /\ arg = [t \in Threads |-> Null]
  /\ seen = [t \in Threads |-> Null]
  /\ visited = Null

-----------------------------------------------------------------------------
(* Helpers *)

At(t, l) == pc[t] = l

Goto(t, l) == pc' = [pc EXCEPT ![t] = l]

\* t reads w's mini-queue and goes to l.
Read(t, w, l) ==
  /\ seen' = [seen EXCEPT ![t] = mini[w]]
  /\ Goto(t, l)

\* preschedule and the rest of executeBatch up to the user's code.
Run(w, f, how) ==
  /\ frame' = [frame EXCEPT ![f] = "running"]
  /\ task' = [task EXCEPT ![w] = f]
  /\ nested' = [nested EXCEPT ![w] = how]
  /\ state' = [state EXCEPT ![w] = IF @ = "POSTSCHEDULING" THEN @ ELSE "AWAKE"]
  /\ Goto(w, "batch")

-----------------------------------------------------------------------------
(* The pool gives a task to an idle worker *)

PopOwn(w) ==
  /\ At(w, "idle")
  /\ deque[w] # <<>>
  /\ Run(w, Last(deque[w]), "no")
  /\ deque' = [deque EXCEPT ![w] = Front(@)]
  /\ UNCHANGED <<submitted, mini, loops, thrown, arg, seen, visited>>

Hungry(w) == At(w, "idle") /\ deque[w] = <<>>

Steal(w, v) ==
  /\ Hungry(w)
  /\ deque[v] # <<>>
  /\ Run(w, Head(deque[v]), "no")
  /\ deque' = [deque EXCEPT ![v] = Tail(@)]
  /\ UNCHANGED <<submitted, mini, loops, thrown, arg, seen, visited>>

TakeSubmission(w) ==
  /\ Hungry(w)
  /\ submitted # <<>>
  /\ Run(w, Head(submitted), "no")
  /\ submitted' = Tail(submitted)
  /\ UNCHANGED <<deque, mini, loops, thrown, arg, seen, visited>>

-----------------------------------------------------------------------------
(* Frames: who becomes active is scheduled, see ReactorFrame *)

\* User code in w's batch sends the first event to an inactive frame.
Send(w, g) ==
  /\ At(w, "batch")
  /\ frame[g] = "inactive"
  /\ frame' = [frame EXCEPT ![g] = "owed"]
  /\ arg' = [arg EXCEPT ![w] = g]
  /\ Goto(w, "get")
  /\ UNCHANGED <<submitted, deque, mini, state, loops, nested, thrown, task,
                 seen, visited>>

\* The batch ends, with nothing left to do for its frame ...
Finish(w) ==
  /\ At(w, "batch")
  /\ frame' = [frame EXCEPT ![task[w]] = "inactive"]
  /\ task' = [task EXCEPT ![w] = Null]
  /\ Goto(w, "post")
  /\ UNCHANGED <<submitted, deque, mini, state, loops, nested, thrown, arg,
                 seen, visited>>

\* ... or with events left: executeBatch schedules the frame again ...
FinishAndSchedule(w) ==
  /\ At(w, "batch")
  /\ frame' = [frame EXCEPT ![task[w]] = "owed"]
  /\ arg' = [arg EXCEPT ![w] = task[w]]
  /\ task' = [task EXCEPT ![w] = Null]
  /\ Goto(w, "get")
  /\ UNCHANGED <<submitted, deque, mini, state, loops, nested, thrown, seen,
                 visited>>

\* ... or by an exception, which terminates the frame.
Throw(w) ==
  /\ At(w, "batch")
  /\ frame' = [frame EXCEPT ![task[w]] = "dead"]
  /\ task' = [task EXCEPT ![w] = Null]
  /\ thrown' = [thrown EXCEPT ![w] = TRUE]
  /\ Goto(w, "post")
  /\ UNCHANGED <<submitted, deque, mini, state, loops, nested, arg, seen,
                 visited>>

\* Executed.schedule from a thread outside of the pool.
OutsiderSends(x, g) ==
  /\ At(x, "idle")
  /\ frame[g] = "inactive"
  /\ frame' = [frame EXCEPT ![g] = "owed"]
  /\ arg' = [arg EXCEPT ![x] = g]
  /\ Goto(x, "submit")
  /\ UNCHANGED <<submitted, deque, mini, state, loops, nested, thrown, task,
                 seen, visited>>

Submit(x) ==
  /\ At(x, "submit")
  /\ submitted' = Append(submitted, arg[x])
  /\ arg' = [arg EXCEPT ![x] = Null]
  /\ Goto(x, "idle")
  /\ UNCHANGED <<frame, deque, mini, state, loops, nested, thrown, task, seen,
                 visited>>

-----------------------------------------------------------------------------
(* ReactorForkJoinWorkerThread.execute(arg) *)

ExecuteGet(w) ==
  /\ At(w, "get")
  /\ Read(w, w, "cas")
  /\ UNCHANGED <<frame, submitted, deque, mini, state, loops, nested, thrown,
                 task, arg, visited>>

\* Into the empty mini-queue, or the old content out of it; a lost
\* comparison starts again.
ExecuteCas(w) ==
  /\ At(w, "cas")
  /\ IF mini[w] # seen[w]
       THEN /\ Goto(w, "get")
            /\ seen' = [seen EXCEPT ![w] = Null]
            /\ UNCHANGED <<mini, arg>>
       ELSE IF seen[w] = Null
       THEN /\ mini' = [mini EXCEPT ![w] = arg[w]]
            /\ arg' = [arg EXCEPT ![w] = Null]
            /\ Goto(w, IF task[w] = Null THEN "post" ELSE "batch")
            /\ UNCHANGED seen
       ELSE /\ mini' = [mini EXCEPT ![w] = Null]
            /\ Goto(w, "fork")
            /\ UNCHANGED <<seen, arg>>
  /\ UNCHANGED <<frame, submitted, deque, state, loops, nested, thrown, task,
                 visited>>

\* ForkJoinTask.adapt(r).fork(), then w goes to l.
Fork(w, l) ==
  /\ deque' = [deque EXCEPT ![w] = Append(@, seen[w])]
  /\ seen' = [seen EXCEPT ![w] = Null]
  /\ Goto(w, l)

ExecuteFork(w) ==
  /\ At(w, "fork")
  /\ Fork(w, "get")
  /\ UNCHANGED <<frame, submitted, mini, state, loops, nested, thrown, task,
                 arg, visited>>

-----------------------------------------------------------------------------
(* ReactorForkJoinWorkerThread.postschedule *)

\* Mutant: an exception leaves without flushing the mini-queue.
PostschedulesWithoutFlush(w) ==
  /\ At(w, "post")
  /\ state[w] # "POSTSCHEDULING"
  /\ IF thrown[w]
       THEN /\ state' = [state EXCEPT ![w] = "ASLEEP"]
            /\ thrown' = [thrown EXCEPT ![w] = FALSE]
            /\ Goto(w, "idle")
            /\ UNCHANGED loops
       ELSE /\ state' = [state EXCEPT ![w] = "POSTSCHEDULING"]
            /\ loops' = [loops EXCEPT ![w] = Loops]
            /\ Goto(w, "loop")
            /\ UNCHANGED thrown
  /\ UNCHANGED <<frame, submitted, deque, mini, nested, task, arg, seen,
                 visited>>

\* After a batch that the pool started.
Postschedule(w) ==
  /\ At(w, "post")
  /\ state[w] # "POSTSCHEDULING"
  /\ IF thrown[w]
       THEN /\ state' = [state EXCEPT ![w] = "ASLEEP"]
            /\ Goto(w, "flush")
            /\ UNCHANGED loops
       ELSE /\ state' = [state EXCEPT ![w] = "POSTSCHEDULING"]
            /\ loops' = [loops EXCEPT ![w] = Loops]
            /\ Goto(w, "loop")
  /\ UNCHANGED <<frame, submitted, deque, mini, nested, thrown, task, arg,
                 seen, visited>>

\* The loop of postschedule is left: finally.
Leave(w) ==
  /\ state' = [state EXCEPT ![w] = "ASLEEP"]
  /\ nested' = [nested EXCEPT ![w] = "no"]
  /\ Goto(w, "flush")

\* After a nested batch, postschedule returns at once.  The exception of a
\* polled task was for the error handler in its run; that of a frame from
\* the mini-queue passes through the loop.
PostscheduleNested(w) ==
  /\ At(w, "post")
  /\ state[w] = "POSTSCHEDULING"
  /\ IF thrown[w] /\ nested[w] = "mini"
       THEN Leave(w) /\ UNCHANGED <<loops, thrown>>
       ELSE /\ loops' = [loops EXCEPT ![w] = @ - 1]
            /\ thrown' = [thrown EXCEPT ![w] = FALSE]
            /\ nested' = [nested EXCEPT ![w] = "no"]
            /\ Goto(w, "loop")
            /\ UNCHANGED state
  /\ UNCHANGED <<frame, submitted, deque, mini, task, arg, seen, visited>>

\* Mutant: the number of attempts is not bounded.
LoopPollsAlways(w) ==
  /\ At(w, "loop")
  /\ submitted # <<>>
  /\ Run(w, Head(submitted), "poll")
  /\ submitted' = Tail(submitted)
  /\ UNCHANGED <<deque, mini, loops, thrown, arg, seen, visited>>

\* pollPool: a submission, if there is one, is executed first.
LoopPoll(w) ==
  /\ At(w, "loop")
  /\ loops[w] > 0
  /\ submitted # <<>>
  /\ Run(w, Head(submitted), "poll")
  /\ submitted' = Tail(submitted)
  /\ UNCHANGED <<deque, mini, loops, thrown, arg, seen, visited>>

LoopPop(w) ==
  /\ At(w, "loop")
  /\ loops[w] > 0
  /\ submitted = <<>>
  /\ Goto(w, "pop")
  /\ UNCHANGED <<frame, submitted, deque, mini, state, loops, nested, thrown,
                 task, arg, seen, visited>>

LoopEnds(w) ==
  /\ At(w, "loop")
  /\ loops[w] = 0
  /\ Leave(w)
  /\ UNCHANGED <<frame, submitted, deque, mini, loops, thrown, task, arg, seen,
                 visited>>

\* popMiniQueue in the loop: nothing there ends the loop.
PopGet(w) ==
  /\ At(w, "pop")
  /\ \/ mini[w] # Null /\ Read(w, w, "popCas") /\ UNCHANGED <<state, nested>>
     \/ mini[w] = Null /\ Leave(w) /\ UNCHANGED seen
  /\ UNCHANGED <<frame, submitted, deque, mini, loops, thrown, task, arg,
                 visited>>

PopCas(w) ==
  /\ At(w, "popCas")
  /\ IF mini[w] = seen[w]
       THEN /\ mini' = [mini EXCEPT ![w] = Null]
            /\ Run(w, seen[w], "mini")
       ELSE Goto(w, "pop") /\ UNCHANGED <<frame, mini, task, nested, state>>
  /\ seen' = [seen EXCEPT ![w] = Null]
  /\ UNCHANGED <<submitted, deque, loops, thrown, arg, visited>>

\* executeLater(popMiniQueue()), then the exception, if there is one, goes to
\* the error handler, and the worker back to the pool.
FlushGet(w) ==
  /\ At(w, "flush")
  /\ \/ mini[w] # Null /\ Read(w, w, "flushCas") /\ UNCHANGED thrown
     \/ /\ mini[w] = Null
        /\ Goto(w, "idle")
        /\ thrown' = [thrown EXCEPT ![w] = FALSE]
        /\ UNCHANGED seen
  /\ UNCHANGED <<frame, submitted, deque, mini, state, loops, nested, task,
                 arg, visited>>

FlushCas(w) ==
  /\ At(w, "flushCas")
  /\ IF mini[w] = seen[w]
       THEN /\ mini' = [mini EXCEPT ![w] = Null]
            /\ Goto(w, "flushFork")
            /\ UNCHANGED seen
       ELSE /\ Goto(w, "flush")
            /\ seen' = [seen EXCEPT ![w] = Null]
            /\ UNCHANGED mini
  /\ UNCHANGED <<frame, submitted, deque, state, loops, nested, thrown, task,
                 arg, visited>>

FlushFork(w) ==
  /\ At(w, "flushFork")
  /\ Fork(w, "idle")
  /\ thrown' = [thrown EXCEPT ![w] = FALSE]
  /\ UNCHANGED <<frame, submitted, mini, state, loops, nested, task, arg,
                 visited>>

-----------------------------------------------------------------------------
(* ReactorForkJoinReanimatorThread.reanimate *)

\* It looks at every worker once in a while, and stops at one whose
\* mini-queue is not empty ...
Reanimate(w) ==
  /\ At(Reanimator, "idle")
  /\ mini[w] # Null
  /\ Read(Reanimator, w, "take")
  /\ visited' = w
  /\ UNCHANGED <<frame, submitted, deque, mini, state, loops, nested, thrown,
                 task, arg>>

\* Mutants: what was read is taken without comparing; it is never taken.
ReanimateBlindly ==
  /\ At(Reanimator, "take")
  /\ mini' = [mini EXCEPT ![visited] = Null]
  /\ Goto(Reanimator, "resubmit")
  /\ visited' = Null
  /\ UNCHANGED <<frame, submitted, deque, state, loops, nested, thrown, task,
                 arg, seen>>

ReanimateNothing ==
  /\ At(Reanimator, "take")
  /\ Goto(Reanimator, "idle")
  /\ seen' = [seen EXCEPT ![Reanimator] = Null]
  /\ visited' = Null
  /\ UNCHANGED <<frame, submitted, deque, mini, state, loops, nested, thrown,
                 task, arg>>

\* ... takes the frame, unless somebody else has ...
ReanimateCas ==
  /\ At(Reanimator, "take")
  /\ IF mini[visited] = seen[Reanimator]
       THEN /\ mini' = [mini EXCEPT ![visited] = Null]
            /\ Goto(Reanimator, "resubmit")
            /\ UNCHANGED seen
       ELSE /\ Goto(Reanimator, "idle")
            /\ seen' = [seen EXCEPT ![Reanimator] = Null]
            /\ UNCHANGED mini
  /\ visited' = Null
  /\ UNCHANGED <<frame, submitted, deque, state, loops, nested, thrown, task,
                 arg>>

\* ... and submits it to the pool.
Resubmit ==
  /\ At(Reanimator, "resubmit")
  /\ submitted' = Append(submitted, seen[Reanimator])
  /\ seen' = [seen EXCEPT ![Reanimator] = Null]
  /\ Goto(Reanimator, "idle")
  /\ UNCHANGED <<frame, deque, mini, state, loops, nested, thrown, task, arg,
                 visited>>

-----------------------------------------------------------------------------

\* The worker thread's own code.
WorkerCode(w) ==
  \/ ExecuteGet(w) \/ ExecuteCas(w) \/ ExecuteFork(w)
  \/ Postschedule(w) \/ PostscheduleNested(w)
  \/ LoopPoll(w) \/ LoopPop(w) \/ LoopEnds(w) \/ PopGet(w) \/ PopCas(w)
  \/ FlushGet(w) \/ FlushCas(w) \/ FlushFork(w)

UserCode(w) ==
  \/ \E g \in Frames : Send(w, g)
  \/ Finish(w) \/ FinishAndSchedule(w) \/ Throw(w)

\* Nothing is left to do.
Stopped ==
  /\ \A f \in Frames : frame[f] = "dead"
  /\ \A t \in Threads : At(t, "idle")
  /\ UNCHANGED vars

Next ==
  \/ \E w \in Workers :
       \/ WorkerCode(w) \/ UserCode(w)
       \/ PopOwn(w) \/ TakeSubmission(w) \/ \E v \in Workers : Steal(w, v)
       \/ Reanimate(w)
  \/ \E x \in Outsiders : Submit(x) \/ \E g \in Frames : OutsiderSends(x, g)
  \/ ReanimateCas \/ Resubmit
  \/ Stopped

Spec == Init /\ [][Next]_vars

\* Threads inside the scheduler's code go on; user code may never return.
\* Workers with nothing to do pop their own deque and scan the other queues
\* from a random start, so that none is overlooked for ever; the reanimator's
\* rounds visit every worker.
FairSpec ==
  /\ Spec
  /\ \A w \in Workers :
       /\ WF_vars(WorkerCode(w) \/ PopOwn(w))
       /\ SF_vars(Reanimate(w))
       /\ SF_vars(\E v \in Workers : Steal(v, w))
  /\ SF_vars(\E w \in Workers : TakeSubmission(w))
  /\ \A x \in Outsiders : WF_vars(Submit(x))
  /\ WF_vars(ReanimateCas \/ Resubmit)

-----------------------------------------------------------------------------
(* Safety *)

\* Where frame f waits for its execution: a queue, or the hands of a thread
\* that has to put it into one.
Waiting(f) ==
  {<<"submitted", i>> : i \in {j \in DOMAIN submitted : submitted[j] = f}}
    \cup {<<"mini", w>> : w \in {v \in Workers : mini[v] = f}}
    \cup {<<"arg", t>> : t \in {u \in Threads : arg[u] = f}}
    \cup {<<"taken", t>> : t \in {u \in Threads :
            seen[u] = f /\ pc[u] \in {"fork", "flushFork", "resubmit"}}}
    \cup UNION {{<<"deque", w, i>> :
                   i \in {j \in DOMAIN deque[w] : deque[w][j] = f}} : w \in Workers}

Executing(f) == {w \in Workers : task[w] = f}

\* The scheduler's contract, which ReactorFrame relies on: a frame that was
\* scheduled waits in exactly one place until exactly one worker executes it,
\* and nobody executes a frame that was not scheduled, although the worker
\* and the reanimator race for the mini-queue.
ScheduledOnce ==
  \A f \in Frames :
    /\ frame[f] = "owed" => \E p \in Waiting(f) : Waiting(f) = {p}
    /\ frame[f] # "owed" => Waiting(f) = {}
    /\ frame[f] = "running" => \E w \in Workers : Executing(f) = {w}
    /\ frame[f] # "running" => Executing(f) = {}

\* JvmScheduler.scala:230-232: "Before any such worker thread returns control
\* to the pool, it must flush its mini-queue."  It also leaves no exception
\* and no half-finished postschedule behind, whichever way a batch ends.
FlushedWhenIdle ==
  \A w \in Workers :
    At(w, "idle") =>
      /\ mini[w] = Null /\ arg[w] = Null /\ seen[w] = Null
      /\ state[w] = "ASLEEP" /\ nested[w] = "no" /\ ~thrown[w]

-----------------------------------------------------------------------------
(* Liveness *)

\* A scheduled frame is executed, even when the worker that holds it is stuck
\* in user code: it waits for ever only if from some time on no worker ever
\* runs out of tasks of its own.
ExecutedUnlessBusy ==
  \A f \in Frames :
    <>[](frame[f] = "owed") => <>[](\A w \in Workers : ~Hungry(w))
=============================================================================

--------------------------- MODULE ThreadSchedulers ---------------------------
(***************************************************************************)
(* The schedulers of JvmScheduler.scala that bind a frame to one thread:   *)
(* Dedicated.NewThread and Dedicated.Piggyback, whose worker sleeps on the *)
(* frame's monitor, and Timer, whose one thread runs every frame once in a *)
(* period, whether it has events or not.                                   *)
(*                                                                         *)
(* Of the frame, only what decides about its scheduling is kept: one       *)
(* channel, its place among the pending queues, `active` and the life      *)
(* cycle (module ReactorFrame has the rest).  A step is a critical section *)
(* of the frame's monitor or of its queue, or the handling of one event.   *)
(***************************************************************************)
EXTENDS Integers, FiniteSets, FiniteSetsExt

CONSTANTS
  Frames,       \* reactor frames that may be spawned
  Assignments,  \* which scheduler a frame has: a set of functions from Frames
                \* to "newThread", "piggyback" and "timer"
  Senders,      \* threads that send events to the frames
  Budget,       \* schedulerConfig.defaultBudget
  Lagging,      \* schedulerConfig.speculativeLagging # 0: batches may sample
  MaxSends,     \* bound: events that are sent
  None          \* no frame

Kinds == {"newThread", "piggyback", "timer"}

ASSUME SchedulersAssumption ==
  /\ Assignments \subseteq [Frames -> Kinds]
  /\ Budget \in Nat \ {0} /\ MaxSends \in Nat /\ Lagging \in BOOLEAN
  /\ None \notin Frames

VARIABLES
  kind,       \* the scheduler of each frame
  spawn,      \* how far trySpawnReactor got with each frame
  active,     \* frame.active
  terminated, \* frame.lifecycleState = Terminated
  size,       \* events in the queue of the frame's channel
  pending,    \* that queue is among frame.pendingQueues
  sealed,     \* the channel is sealed: no non-daemon channel is left
  exec,       \* where in executeBatch the frame is, or "off"
  budget,     \* schedulerState.allowedBudget
  sampling,   \* the batch drains what its sampling loop has found
  thrown,     \* the batch ends with an exception
  worker,     \* the loop of Dedicated.Worker
  frames,     \* Timer.frames
  timer,      \* Timer.timer is not null
  task,       \* Timer.State.task
  ticking,    \* the frame that the timer's thread runs
  sender,     \* what each sender has yet to do, and for which frame
  sent,       \* bound
  due, done   \* history, for timers: events counted at onBatchStart, and
              \* handled since then

frameVars == <<active, terminated, size, pending, sealed>>
batchVars == <<exec, budget, sampling, thrown, due, done>>
timerVars == <<frames, timer, task, ticking>>
sendVars == <<sender, sent>>
vars == <<kind, spawn, frameVars, batchVars, worker, timerVars, sendVars>>

Idle == [at |-> "idle", to |-> None]

Init ==
  /\ kind \in Assignments
  /\ spawn = [f \in Frames |-> "none"]
  /\ active = [f \in Frames |-> FALSE]
  /\ terminated = [f \in Frames |-> FALSE]
  /\ size = [f \in Frames |-> 0]
  /\ pending = [f \in Frames |-> FALSE]
  /\ sealed = [f \in Frames |-> FALSE]
  /\ exec = [f \in Frames |-> "off"]
  /\ budget = [f \in Frames |-> 0]
  /\ sampling = [f \in Frames |-> FALSE]
  /\ thrown = [f \in Frames |-> FALSE]
  /\ due = [f \in Frames |-> 0] /\ done = [f \in Frames |-> 0]
  /\ worker = [f \in Frames |-> "none"]
  /\ frames = {} /\ timer = FALSE
  /\ task = [f \in Frames |-> "none"]
  /\ ticking = None
  /\ sender = [s \in Senders |-> Idle]
  /\ sent = 0

Set(fun, f, x) == [fun EXCEPT ![f] = x]

-----------------------------------------------------------------------------
(* Spawning. *)

\* initSchedule; Timer.addFrame makes a timer for the first frame.
InitSchedule(f) ==
  /\ spawn[f] = "none"
  /\ spawn' = Set(spawn, f, "init")
  /\ IF kind[f] = "timer"
       THEN /\ frames' = frames \cup {f}
            /\ timer' = (timer \/ Cardinality(frames') = 1)
       ELSE UNCHANGED <<frames, timer>>
  /\ UNCHANGED <<kind, frameVars, batchVars, worker, task, ticking, sendVars>>

\* A later step of the spawn throws, or the piggyback scheduler finds itself
\* in a reactor: the name is released, and the scheduler is not told.
SpawnFails(f) ==
  /\ spawn[f] = "init"
  /\ spawn' = Set(spawn, f, "failed")
  /\ UNCHANGED <<kind, frameVars, batchVars, worker, timerVars, sendVars>>

\* A mutant: the frame is not marked as active before it can be sent to.
OpenInactive(f) ==
  /\ spawn[f] = "init"
  /\ spawn' = Set(spawn, f, "open")
  /\ UNCHANGED <<kind, frameVars, batchVars, worker, timerVars, sendVars>>

\* The standard connectors are opened, so that senders can find them.
Open(f) ==
  /\ spawn[f] = "init"
  /\ spawn' = Set(spawn, f, "open")
  /\ active' = Set(active, f, TRUE)
  /\ UNCHANGED <<kind, terminated, size, pending, sealed, batchVars, worker,
                 timerVars, sendVars>>

\* The schedulers' `schedule`: start the thread or become it, or wake the
\* worker if it waits; make the timer's task if there is none.
Schedule(f) ==
  IF kind[f] = "timer"
    THEN /\ task' = IF task[f] = "none" THEN Set(task, f, "set") ELSE task
         /\ UNCHANGED worker
    ELSE /\ worker' = CASE worker[f] = "none" -> Set(worker, f, "run")
                        [] worker[f] = "wait" -> Set(worker, f, "check")
                        [] OTHER -> worker
         /\ UNCHANGED task

\* frame.activate(true); nobody else schedules a frame that is active.
Activate(f) ==
  /\ spawn[f] = "open"
  /\ spawn' = Set(spawn, f, "done")
  /\ active' = Set(active, f, TRUE)
  /\ Schedule(f)
  /\ UNCHANGED <<kind, terminated, size, pending, sealed, batchVars, frames,
                 timer, ticking, sendVars>>

-----------------------------------------------------------------------------
(* Sending: Frame.enqueueEvent. *)

\* conn.queue.enqueue(x); only the first event of a queue needs more.
Enqueue(s, f) ==
  /\ sender[s] = Idle /\ sent < MaxSends
  /\ spawn[f] \in {"open", "done"} /\ ~sealed[f] /\ ~terminated[f]
  /\ sent' = sent + 1
  /\ size' = Set(size, f, size[f] + 1)
  /\ sender' = IF size[f] = 0
                 THEN Set(sender, s, [at |-> "pend", to |-> f]) ELSE sender
  /\ UNCHANGED <<kind, spawn, active, terminated, pending, sealed, batchVars,
                 worker, timerVars>>

\* The critical section that adds the queue to the pending ones.
Pend(s) ==
  /\ sender[s].at = "pend"
  /\ LET f == sender[s].to
         must == ~active[f] /\ ~terminated[f] IN
       /\ pending' = Set(pending, f, TRUE)
       /\ active' = Set(active, f, active[f] \/ must)
       /\ sender' = Set(sender, s,
                        IF must THEN [at |-> "wake", to |-> f] ELSE Idle)
  /\ UNCHANGED <<kind, spawn, terminated, size, sealed, batchVars, worker,
                 timerVars, sent>>

\* scheduler.schedule(this), for a frame that was not active.
Wake(s) ==
  /\ sender[s].at = "wake"
  /\ Schedule(sender[s].to)
  /\ sender' = Set(sender, s, Idle)
  /\ UNCHANGED <<kind, spawn, frameVars, batchVars, frames, timer, ticking,
                 sent>>

-----------------------------------------------------------------------------
(* Frame.executeBatch, by the worker or by the timer's thread. *)

\* A mutant: the last event that the budget allows is left.
MoreThanOne(b) == b > 1

\* State.Default.onBatchEvent, on the budget that is left.
More(b) == b > 0

\* onBatchStart: the timer's budget is the number of events pending now.
BatchStart(f) ==
  /\ exec[f] = "start"
  /\ exec' = Set(exec, f, "pop")
  /\ sampling' = Set(sampling, f, FALSE)
  /\ IF kind[f] = "timer"
       THEN /\ due' = Set(due, f, IF pending[f] THEN size[f] ELSE 0)
            /\ done' = Set(done, f, 0)
            /\ budget' = Set(budget, f, due'[f])
       ELSE /\ budget' = Set(budget, f, Budget)
            /\ UNCHANGED <<due, done>>
  /\ UNCHANGED <<kind, spawn, frameVars, thrown, worker, timerVars, sendVars>>

\* A mutant: a queue is drained that is not pending.
PopAny(f) ==
  /\ exec[f] = "pop"
  /\ exec' = Set(exec, f, "drain")
  /\ pending' = Set(pending, f, FALSE)
  /\ UNCHANGED <<kind, spawn, active, terminated, size, sealed, budget,
                 sampling, thrown, due, done, worker, timerVars, sendVars>>

\* There is nothing to drain, or no budget: the sampling loop is next, if the
\* batch is not in it yet.
Over(f) == IF Lagging /\ ~sampling[f] THEN "sample" ELSE "end"

\* popNextPending, until it finds a queue or the loop around it gives up.
Pop(f) ==
  /\ exec[f] = "pop"
  /\ exec' = Set(exec, f, IF pending[f] THEN "drain" ELSE Over(f))
  /\ pending' = Set(pending, f, FALSE)
  /\ UNCHANGED <<kind, spawn, active, terminated, size, sealed, budget,
                 sampling, thrown, due, done, worker, timerVars, sendVars>>

\* drain: one event is handled.  The handler may throw, and may seal the
\* reactor's last channel.  A queue that is left with events and without
\* budget is put back among the pending ones.
Handle(f, outcome) ==
  /\ exec[f] = "drain"
  /\ size' = Set(size, f, size[f] - 1)
  /\ done' = IF kind[f] = "timer" THEN Set(done, f, done[f] + 1) ELSE done
  /\ budget' = Set(budget, f, budget[f] - 1)
  /\ sealed' = Set(sealed, f, sealed[f] \/ outcome = "seal")
  /\ thrown' = Set(thrown, f, outcome = "throw")
  /\ LET more == size'[f] > 0 /\ ~sealed'[f] IN
       /\ exec' = Set(exec, f, IF outcome = "throw" THEN "end"
                               ELSE IF ~More(budget'[f]) THEN Over(f)
                               ELSE IF more THEN "drain" ELSE "pop")
       /\ pending' = Set(pending, f,
            pending[f] \/ (outcome # "throw" /\ ~More(budget'[f]) /\ more))
  /\ UNCHANGED <<kind, spawn, active, terminated, sampling, due, worker,
                 timerVars, sendVars>>

\* The sampling loop, in some of the batches: whatever is left of the budget,
\* it polls for a while, and drains the first queue it finds.
Sample(f) ==
  /\ exec[f] = "sample"
  /\ \/ /\ pending[f]
        /\ exec' = Set(exec, f, "drain")
        /\ pending' = Set(pending, f, FALSE)
        /\ sampling' = Set(sampling, f, TRUE)
     \/ /\ exec' = Set(exec, f, "end")
        /\ UNCHANGED <<pending, sampling>>
  /\ UNCHANGED <<kind, spawn, active, terminated, size, sealed, budget, thrown,
                 due, done, worker, timerVars, sendVars>>

\* checkTerminated: forced after an exception, else if nothing is left to do.
CheckTerminated(f) ==
  /\ exec[f] = "end"
  /\ exec' = Set(exec, f, "finally")
  /\ terminated' = Set(terminated, f, thrown[f] \/ (~pending[f] /\ sealed[f]))
  /\ UNCHANGED <<kind, spawn, active, size, pending, sealed, budget,
                 sampling, thrown, due, done, worker, timerVars, sendVars>>

\* It stays active, and is scheduled again by its own thread, which is not
\* waiting: that has no effect here.
Rescheduled(f) == pending[f] /\ ~terminated[f]

\* The `finally` of executeBatch.  The worker then looks for more to do, and
\* ends if the reactor died; the timer's task calls activate(false), and
\* leaves that out if the reactor died.
Finally(f) ==
  /\ exec[f] = "finally"
  /\ active' = Set(active, f, Rescheduled(f))
  /\ IF kind[f] = "timer"
       THEN /\ exec' = Set(exec, f, IF thrown[f] THEN "off" ELSE "reactivate")
            /\ ticking' = IF thrown[f] THEN None ELSE f
            /\ UNCHANGED worker
       ELSE /\ exec' = Set(exec, f, "off")
            /\ worker' = Set(worker, f, IF thrown[f] THEN "ended" ELSE "check")
            /\ UNCHANGED ticking
  /\ UNCHANGED <<kind, spawn, terminated, size, pending, sealed, budget,
                 sampling, thrown, due, done, frames, timer, task, sendVars>>

-----------------------------------------------------------------------------
(* Dedicated.Worker. *)

\* loop(): assert(active), in executeBatch, is the property RunsActive.
Loop(f) ==
  /\ worker[f] = "run"
  /\ worker' = Set(worker, f, "exec")
  /\ exec' = Set(exec, f, "start")
  /\ UNCHANGED <<kind, spawn, frameVars, budget, sampling, thrown, due, done,
                 timerVars, sendVars>>

\* A mutant: the worker does not look at the queues before it waits.
WaitBlindly(f) ==
  /\ worker[f] = "check"
  /\ worker' = Set(worker, f, IF terminated[f] THEN "ended" ELSE "wait")
  /\ UNCHANGED <<kind, spawn, frameVars, batchVars, timerVars, sendVars>>

\* The worker, in the frame's monitor, waits unless there is something to do.
Check(f) ==
  /\ worker[f] = "check"
  /\ worker' = Set(worker, f, IF terminated[f] THEN "ended"
                              ELSE IF pending[f] THEN "run"
                                                 ELSE "wait")
  /\ UNCHANGED <<kind, spawn, frameVars, batchVars, timerVars, sendVars>>

\* Object.wait may return without a notification.
WakeSpuriously(f) ==
  /\ worker[f] = "wait"
  /\ worker' = Set(worker, f, "check")
  /\ UNCHANGED <<kind, spawn, frameVars, batchVars, timerVars, sendVars>>

-----------------------------------------------------------------------------
(* Timer. *)

\* The period of a frame is over.
Tick(f) ==
  /\ timer /\ ticking = None /\ task[f] = "set" /\ ~terminated[f]
  /\ ticking' = f
  /\ exec' = Set(exec, f, "start")
  /\ UNCHANGED <<kind, spawn, frameVars, budget, sampling, thrown, due, done,
                 worker, frames, timer, task, sendVars>>

\* A mutant: the frame stays in `frames`.
KeptFrames(f) == frames

\* A mutant: the first frame that terminates takes all others with it.
RemovedAll(f) == {}

RemovedFrames(f) == frames \ {f}

\* The frame has terminated: its task is cancelled, and with the last frame of
\* the scheduler the timer.
TickTerminated(f) ==
  /\ timer /\ ticking = None /\ task[f] = "set" /\ terminated[f]
  /\ task' = Set(task, f, "cancelled")
  /\ frames' = RemovedFrames(f)
  /\ timer' = (frames' # {})
  /\ UNCHANGED <<kind, spawn, frameVars, batchVars, worker, ticking, sendVars>>

\* A mutant: the frame is not activated at the end of a tick.
NoReactivation(f) == active[f]

Reactivated(f) == TRUE

\* frame.activate(false): for a timer, `schedule` does nothing here.
Reactivate(f) ==
  /\ exec[f] = "reactivate"
  /\ exec' = Set(exec, f, "off")
  /\ active' = Set(active, f, Reactivated(f))
  /\ ticking' = None
  /\ UNCHANGED <<kind, spawn, terminated, size, pending, sealed, budget,
                 sampling, thrown, due, done, worker, frames, timer, task,
                 sendVars>>

-----------------------------------------------------------------------------
Outcomes == {"go", "seal", "throw"}

Next ==
  \/ \E f \in Frames :
       \/ InitSchedule(f) \/ SpawnFails(f) \/ Open(f) \/ Activate(f)
       \/ BatchStart(f) \/ Pop(f) \/ Sample(f)
       \/ CheckTerminated(f) \/ Finally(f)
       \/ \E outcome \in Outcomes : Handle(f, outcome)
       \/ Loop(f) \/ Check(f) \/ WakeSpuriously(f)
       \/ Tick(f) \/ TickTerminated(f) \/ Reactivate(f)
  \/ \E s \in Senders :
       \/ \E f \in Frames : Enqueue(s, f)
       \/ Pend(s) \/ Wake(s)

Spec == Init /\ [][Next]_vars

\* Started threads go on, and the timer's thread comes to every task again.
\* Nobody is obliged to spawn or to send, and no wake-up is spurious for sure.
FairSpec ==
  /\ Spec
  /\ \A f \in Frames :
       /\ WF_vars(Open(f) \/ SpawnFails(f)) /\ WF_vars(Activate(f))
       /\ WF_vars(BatchStart(f)) /\ WF_vars(Pop(f)) /\ WF_vars(Sample(f))
       /\ WF_vars(\E outcome \in Outcomes : Handle(f, outcome))
       /\ WF_vars(CheckTerminated(f)) /\ WF_vars(Finally(f))
       /\ WF_vars(Loop(f)) /\ WF_vars(Check(f))
       /\ SF_vars(Tick(f)) /\ SF_vars(TickTerminated(f))
       /\ WF_vars(Reactivate(f))
  /\ \A s \in Senders : WF_vars(Pend(s)) /\ WF_vars(Wake(s))

-----------------------------------------------------------------------------
(* Properties. *)

TypeOK ==
  /\ kind \in Assignments
  /\ spawn \in [Frames -> {"none", "init", "failed", "open", "done"}]
  /\ active \in [Frames -> BOOLEAN] /\ terminated \in [Frames -> BOOLEAN]
  /\ size \in [Frames -> 0..MaxSends]
  /\ pending \in [Frames -> BOOLEAN] /\ sealed \in [Frames -> BOOLEAN]
  /\ exec \in [Frames -> {"off", "start", "pop", "drain", "sample", "end",
                          "finally", "reactivate"}]
  /\ budget \in [Frames -> Int] /\ thrown \in [Frames -> BOOLEAN]
  /\ sampling \in [Frames -> BOOLEAN]
  /\ worker \in [Frames -> {"none", "run", "exec", "check", "wait", "ended"}]
  /\ frames \subseteq Frames /\ timer \in BOOLEAN
  /\ task \in [Frames -> {"none", "set", "cancelled"}]
  /\ ticking \in Frames \cup {None}
  /\ sender \in [Senders -> [at : {"idle", "pend", "wake"},
                             to : Frames \cup {None}]]
  /\ sent \in 0..MaxSends
  /\ due \in [Frames -> 0..MaxSends] /\ done \in [Frames -> 0..MaxSends]

\* assert(active), in executeBatch: whatever the race between senders, the end
\* of a batch and activate(false), no batch begins for an inactive frame.
RunsActive == \A f \in Frames : exec[f] = "start" => active[f]

\* A worker that sleeps while its frame has pending events is about to be
\* woken: the notification is neither lost nor sent too early.
NoLostWakeup ==
  \A f \in Frames :
    worker[f] = "wait" /\ pending[f] =>
      \E s \in Senders : sender[s] = [at |-> "wake", to |-> f]

\* A frame that has not terminated keeps its thread.  "The new thread does not
\* stop until the reactor terminates", nor does the piggybacked one; and no task
\* is put on a timer that is null, or is cancelled while its frame lives.
ThreadKept ==
  \A f \in Frames : ~terminated[f] =>
    /\ worker[f] # "ended"
    /\ kind[f] = "timer" /\ spawn[f] \in {"init", "open", "done"}
         => timer /\ f \in frames

\* "When the reactor runs, it flushes as many events as there are initially
\* pending events" (JvmScheduler.scala:404-405), however many are sent
\* meanwhile, or one if they came after the count.  It is so without lagging:
\* a batch that samples may take one event more.
FlushesPending ==
  \A f \in Frames :
    kind[f] = "timer" /\ exec[f] = "end" /\ ~thrown[f] /\ ~sealed[f] =>
      done[f] = due[f] \/ (due[f] = 0 /\ done[f] = 1)

\* What is left of it with lagging: the batch handles all of them, and at most one event
\* beyond its budget, which its sampling loop has found (Frame.scala:360-380).
FlushBounded ==
  \A f \in Frames :
    kind[f] = "timer" /\ exec[f] = "end" /\ ~thrown[f] /\ ~sealed[f] =>
      /\ due[f] <= done[f]
      /\ done[f] <= IF due[f] = 0 THEN 2 ELSE due[f] + 1

\* Every event is handled, unless the reactor ends: no event stays behind in a
\* queue whose frame nobody runs.
EventsHandled ==
  \A f \in Frames : size[f] > 0 ~> size[f] = 0 \/ terminated[f]

\* The threads end with their reactors: the worker, and the timer once all its
\* frames have terminated.  A frame whose spawn failed keeps the timer.
ThreadsEnd ==
  /\ \A f \in Frames :
       terminated[f] /\ kind[f] # "timer" ~> worker[f] = "ended"
  /\ timer ~> ~timer \/ \E f \in frames : ~terminated[f]
=============================================================================

---------------------------- MODULE ReactorFrame ----------------------------
(***************************************************************************)
(* One reactor frame (io.reactors.concurrent.Frame): the spawning thread,  *)
(* the threads that send to its channels, and the scheduler's worker       *)
(* threads that execute its batches.  A step is one critical section of    *)
(* the frame's monitor or of a queue's monitor, one atomic operation, or   *)
(* a stretch of thread-local code.  The scheduler is reduced to what       *)
(* Scheduler.schedule promises: one execution of executeBatch, some time   *)
(* later, on some worker.  User code (the reactor's constructor, the       *)
(* system-event callbacks, the event handlers) may open and seal           *)
(* connectors, send to its own reactor, return or throw, in any order.     *)
(***************************************************************************)
EXTENDS Integers, Sequences, FiniteSets

CONSTANTS
  Workers,    \* Threads that run batches for the scheduler.
  Senders,    \* Other threads that hold a channel of the reactor.
  Spawner,    \* The thread in ReactorSystem.trySpawnReactor.
  Conns,      \* Connectors the reactor may ever have.
  Main,       \* frame.defaultConnector
  Sys,        \* frame.internalConnector, the daemon channel "system".
  Daemon,     \* Connectors opened with isDaemon = true.
  Shortcut,   \* Connectors opened with shortcut = true.
  Msgs,       \* Events.
  Budget,     \* schedulerConfig.defaultBudget
  MaxQueue,   \* Bound: events queued or about to be queued per connector.
  Null

Threads == Workers \cup Senders \cup {Spawner}

ASSUME ThreadsAssumption ==
  /\ Workers \cap Senders = {}
  /\ Spawner \notin Workers \cup Senders

ASSUME ConnsAssumption ==
  /\ Main \in Conns \ (Daemon \cup Shortcut)
  /\ Sys \in (Conns \cap Daemon) \ Shortcut
  /\ Null \notin Conns \cup Msgs

ASSUME BudgetAssumption == Budget \in Nat \ {0}

VARIABLES
  \* Frame, guarded by frame.monitor except where the code does not.
  active, activeCount, life, pending, nonDaemonCount,
  reactor,    \* frame.reactor # null
  budget,     \* schedulerState.allowedBudget
  tasks,      \* Executions the scheduler still owes to the frame.
  \* Connectors and their queues.
  conn,       \* "absent", "open", "closing" (isOpen = false), "sealed"
              \* (isOpen = false and queue.live = false).
  queue,
  \* Threads.
  pc,
  stage,      \* The user code a worker is in, or "none".
  target,     \* The connector a thread is sending to or sealing.
  arg,        \* The event a thread is sending.
  hand,       \* The connector a worker is draining.
  event,      \* The event a worker is handling.
  remaining,  \* c.dequeue()'s result in drain.
  sampling,   \* drain was called from the sampling loop.
  failure,    \* "no", "thrown" (propagating) or "caught" by
              \* isolateAndProcessBatch.
  died        \* ReactorDied has been emitted (history).

frameVars  == <<active, activeCount, life, pending, nonDaemonCount, reactor,
                budget, tasks>>
connVars   == <<conn, queue>>
sendVars   == <<target, arg>>
drainVars  == <<hand, event, remaining, sampling>>
vars == <<frameVars, connVars, pc, stage, sendVars, drainVars, failure, died>>

Pcs == {"idle", "done",
        "openMain", "openSys", "activate",             \* Spawner
        "checked", "enqueued", "schedule",             \* sending
        "enter", "checkFresh", "create", "user", "unreact",
        "first", "next", "spin", "sample", "dequeue", "drain",
        "checkExit", "caught", "checkForced", "unregister",
        "release", "reschedule"}

Stages == {"none", "ctor", "started", "scheduled", "deliver", "preempted",
           "died", "terminated"}

TypeOK ==
  /\ active \in BOOLEAN /\ reactor \in BOOLEAN /\ died \in BOOLEAN
  /\ activeCount \in {0, 1}
  /\ life \in {"Fresh", "Running", "Terminated"}
  /\ pending \in Seq(Conns)
  /\ nonDaemonCount \in Int
  /\ budget \in Int
  /\ tasks \in Nat
  /\ conn \in [Conns -> {"absent", "open", "closing", "sealed"}]
  /\ queue \in [Conns -> Seq(Msgs)]
  /\ pc \in [Threads -> Pcs]
  /\ stage \in [Threads -> Stages]
  /\ target \in [Threads -> Conns \cup {Null}]
  /\ arg \in [Threads -> Msgs \cup {Null}]
  /\ hand \in [Workers -> Conns \cup {Null}]
  /\ event \in [Workers -> Msgs \cup {Null}]
  /\ remaining \in [Workers -> Nat]
  /\ sampling \in [Workers -> BOOLEAN]
  /\ failure \in [Workers -> {"no", "thrown", "caught"}]

Init ==
  /\ active = FALSE
  /\ activeCount = 0
  /\ life = "Fresh"
  /\ pending = <<>>
  /\ nonDaemonCount = 0
  /\ reactor = FALSE
  /\ budget = 0
  /\ tasks = 0
  /\ conn = [c \in Conns |-> "absent"]
  /\ queue = [c \in Conns |-> <<>>]
  /\ pc = [t \in Threads |-> IF t = Spawner THEN "openMain" ELSE "idle"]
  /\ stage = [t \in Threads |-> "none"]
  /\ target = [t \in Threads |-> Null]
  /\ arg = [t \in Threads |-> Null]
  /\ hand = [w \in Workers |-> Null]
  /\ event = [w \in Workers |-> Null]
  /\ remaining = [w \in Workers |-> 0]
  /\ sampling = [w \in Workers |-> FALSE]
  /\ failure = [w \in Workers |-> "no"]
  /\ died = FALSE

-----------------------------------------------------------------------------
(* Helpers *)

At(t, l) == pc[t] = l

Goto(t, l) == pc' = [pc EXCEPT ![t] = l]

\* Worker w calls user code for callback s.
CallUser(w, s) ==
  /\ Goto(w, "user")
  /\ stage' = [stage EXCEPT ![w] = s]

\* A send inside user code continues there, any other send is over.
Resume(t) == IF stage[t] = "none" THEN "idle" ELSE "user"

NonDaemons(c) == IF c \in Daemon THEN 0 ELSE 1

\* openConnector: the registry's map is ConnectorRegistry's; here the
\* connector becomes visible and non-daemon ones are counted.
OpenConnector(c) ==
  /\ conn[c] = "absent"
  /\ conn' = [conn EXCEPT ![c] = "open"]
  /\ nonDaemonCount' = nonDaemonCount + NonDaemons(c)

\* Sends that have decided to enqueue to c and have not done so yet.
InFlight(c) == {t \in Threads : At(t, "checked") /\ target[t] = c}

HasRoom(c) == Len(queue[c]) + Cardinality(InFlight(c)) < MaxQueue

-----------------------------------------------------------------------------
(* Spawning: ReactorSystem.trySpawnReactor, steps 5 and 6 *)

SpawnOpenMain ==
  /\ At(Spawner, "openMain")
  /\ active' = TRUE
  /\ OpenConnector(Main)
  /\ Goto(Spawner, "openSys")
  /\ UNCHANGED <<activeCount, life, pending, reactor, budget, tasks, queue,
                 stage, sendVars, drainVars, failure, died>>

SpawnOpenSys ==
  /\ At(Spawner, "openSys")
  /\ OpenConnector(Sys)
  /\ Goto(Spawner, "activate")
  /\ UNCHANGED <<active, activeCount, life, pending, reactor, budget, tasks,
                 queue, stage, sendVars, drainVars, failure, died>>

\* activate(scheduleEvenIfActive = true)
SpawnActivate ==
  /\ At(Spawner, "activate")
  /\ active' = TRUE
  /\ Goto(Spawner, "schedule")
  /\ UNCHANGED <<activeCount, life, pending, nonDaemonCount, reactor, budget,
                 tasks, connVars, stage, sendVars, drainVars, failure, died>>

\* scheduler.schedule(frame), called by whoever set mustSchedule.
Schedule(t) ==
  /\ At(t, "schedule")
  /\ tasks' = tasks + 1
  /\ Goto(t, IF t = Spawner THEN "done" ELSE Resume(t))
  /\ UNCHANGED <<active, activeCount, life, pending, nonDaemonCount, reactor,
                 budget, connVars, stage, sendVars, drainVars, failure, died>>

-----------------------------------------------------------------------------
(* Sending: Channel.Local.send, Frame.enqueueEvent *)

\* The thread has read isOpen = true.  isOpen is a plain field read outside
\* the monitor, so a foreign thread may still see true after the seal; the
\* owner sees its own write.
SendCheck(t, c, m) ==
  /\ t # Spawner
  /\ \/ t \in Senders /\ At(t, "idle") /\ conn[c] # "absent"
     \/ t \in Workers /\ At(t, "user") /\ conn[c] = "open" /\ c \notin Shortcut
  /\ HasRoom(c)
  /\ target' = [target EXCEPT ![t] = c]
  /\ arg' = [arg EXCEPT ![t] = m]
  /\ Goto(t, "checked")
  /\ UNCHANGED <<frameVars, connVars, stage, drainVars, failure, died>>

\* Mutant: enqueue's result is ignored and every send registers the queue.
SendEnqueueUnsized(t) ==
  /\ At(t, "checked")
  /\ queue' = [queue EXCEPT ![target[t]] = Append(@, arg[t])]
  /\ arg' = [arg EXCEPT ![t] = Null]
  /\ Goto(t, "enqueued")
  /\ UNCHANGED <<frameVars, conn, target, stage, drainVars, failure, died>>

\* conn.queue.enqueue(x), under the queue's monitor; size = 1 obliges the
\* thread to register the queue.
SendEnqueue(t) ==
  /\ At(t, "checked")
  /\ queue' = [queue EXCEPT ![target[t]] = Append(@, arg[t])]
  /\ arg' = [arg EXCEPT ![t] = Null]
  /\ IF queue[target[t]] = <<>>
       THEN Goto(t, "enqueued") /\ UNCHANGED target
       ELSE Goto(t, Resume(t)) /\ target' = [target EXCEPT ![t] = Null]
  /\ UNCHANGED <<frameVars, conn, stage, drainVars, failure, died>>

\* Mutant: the flag active is not tested before scheduling.
SendRegisterAlways(t) ==
  /\ At(t, "enqueued")
  /\ pending' = Append(pending, target[t])
  /\ target' = [target EXCEPT ![t] = Null]
  /\ active' = TRUE
  /\ Goto(t, "schedule")
  /\ UNCHANGED <<activeCount, life, nonDaemonCount, reactor, budget, tasks,
                 connVars, stage, arg, drainVars, failure, died>>

\* The monitor block of enqueueEvent.
SendRegister(t) ==
  /\ At(t, "enqueued")
  /\ pending' = Append(pending, target[t])
  /\ target' = [target EXCEPT ![t] = Null]
  /\ IF ~active /\ life # "Terminated"
       THEN active' = TRUE /\ Goto(t, "schedule")
       ELSE Goto(t, Resume(t)) /\ UNCHANGED active
  /\ UNCHANGED <<activeCount, life, nonDaemonCount, reactor, budget, tasks,
                 connVars, stage, arg, drainVars, failure, died>>

-----------------------------------------------------------------------------
(* Entering a batch: executeBatch, checkFresh *)

\* Mutant: a worker runs a frame it was not given.
TakeNothing(w) ==
  /\ At(w, "idle")
  /\ tasks' = tasks - 1
  /\ Goto(w, "enter")
  /\ UNCHANGED <<active, activeCount, life, pending, nonDaemonCount, reactor,
                 budget, connVars, stage, sendVars, drainVars, failure, died>>

\* A worker picks the frame up; preschedule touches the worker only.
TakeTask(w) ==
  /\ At(w, "idle")
  /\ tasks > 0
  /\ tasks' = tasks - 1
  /\ Goto(w, "enter")
  /\ UNCHANGED <<active, activeCount, life, pending, nonDaemonCount, reactor,
                 budget, connVars, stage, sendVars, drainVars, failure, died>>

\* assert(active) and assertIsolated(): the invariant Isolation says that
\* neither can fail, so the step does not test them.
Enter(w) ==
  /\ At(w, "enter")
  /\ activeCount' = 1
  /\ Goto(w, "checkFresh")
  /\ UNCHANGED <<active, life, pending, nonDaemonCount, reactor, budget, tasks,
                 connVars, stage, sendVars, drainVars, failure, died>>

CheckFresh(w) ==
  /\ At(w, "checkFresh")
  /\ IF life = "Fresh"
       THEN life' = "Running" /\ Goto(w, "create") /\ UNCHANGED stage
       ELSE CallUser(w, "scheduled") /\ UNCHANGED life
  /\ UNCHANGED <<active, activeCount, pending, nonDaemonCount, reactor, budget,
                 tasks, connVars, sendVars, drainVars, failure, died>>

\* proto.create(): the Reactor trait publishes itself in frame.reactor
\* before the user's constructor body runs ...
Create(w) ==
  /\ At(w, "create")
  /\ reactor' = TRUE
  /\ CallUser(w, "ctor")
  /\ UNCHANGED <<active, activeCount, life, pending, nonDaemonCount, budget,
                 tasks, connVars, sendVars, drainVars, failure, died>>

\* ... or instantiation fails before that.
CreateFails(w) ==
  /\ At(w, "create")
  /\ failure' = [failure EXCEPT ![w] = "thrown"]
  /\ Goto(w, "caught")
  /\ UNCHANGED <<frameVars, connVars, stage, sendVars, drainVars, died>>

-----------------------------------------------------------------------------
(* User code *)

UserOpen(w, c) ==
  /\ At(w, "user")
  /\ c # Sys
  /\ OpenConnector(c)
  /\ UNCHANGED <<active, activeCount, life, pending, reactor, budget, tasks,
                 queue, pc, stage, sendVars, drainVars, failure, died>>

\* Connector.seal and the monitor block of sealConnector ...
UserSeal(w, c) ==
  /\ At(w, "user")
  /\ c # Sys
  /\ conn[c] = "open"
  /\ conn' = [conn EXCEPT ![c] = "closing"]
  /\ nonDaemonCount' = nonDaemonCount - NonDaemons(c)
  /\ target' = [target EXCEPT ![w] = c]
  /\ Goto(w, "unreact")
  /\ UNCHANGED <<active, activeCount, life, pending, reactor, budget, tasks,
                 queue, stage, arg, drainVars, failure, died>>

\* ... and its queue.unreact(), which calls user code back.
Unreact(w) ==
  /\ At(w, "unreact")
  /\ conn' = [conn EXCEPT ![target[w]] = "sealed"]
  /\ target' = [target EXCEPT ![w] = Null]
  /\ Goto(w, "user")
  /\ UNCHANGED <<frameVars, queue, stage, arg, drainVars, failure, died>>

\* What runs when callback s returns, other than another callback.
ReturnTo ==
  [deliver |-> "drain", preempted |-> "checkExit",
   died |-> "checkForced", terminated |-> "unregister"]

UserReturn(w) ==
  /\ At(w, "user")
  /\ stage[w] \in DOMAIN ReturnTo
  /\ Goto(w, ReturnTo[stage[w]])
  /\ stage' = [stage EXCEPT ![w] = "none"]
  /\ event' = [event EXCEPT ![w] = Null]
  /\ UNCHANGED <<frameVars, connVars, sendVars, hand, remaining, sampling,
                 failure, died>>

\* The constructor returns: emit ReactorStarted.  Its callbacks return: emit
\* ReactorScheduled.
UserStarts(w) ==
  /\ At(w, "user")
  /\ \/ stage[w] = "ctor" /\ CallUser(w, "started")
     \/ stage[w] = "started" /\ CallUser(w, "scheduled")
  /\ UNCHANGED <<frameVars, connVars, sendVars, drainVars, failure, died>>

\* The ReactorScheduled callbacks return: processEvents, onBatchStart.
BatchStart(w) ==
  /\ At(w, "user")
  /\ stage[w] = "scheduled"
  /\ budget' = Budget
  /\ Goto(w, "first")
  /\ stage' = [stage EXCEPT ![w] = "none"]
  /\ UNCHANGED <<active, activeCount, life, pending, nonDaemonCount, reactor,
                 tasks, connVars, sendVars, drainVars, failure, died>>

\* Where the exception of callback s is first intercepted: processBatch's
\* finally, isolateAndProcessBatch's catch, or a finally around the emission.
ThrowTo ==
  [ctor |-> "caught", started |-> "caught", scheduled |-> "checkExit",
   deliver |-> "checkExit", preempted |-> "checkExit",
   died |-> "checkForced", terminated |-> "unregister"]

UserThrow(w) ==
  /\ At(w, "user")
  /\ stage[w] \in DOMAIN ThrowTo
  /\ failure' = [failure EXCEPT ![w] = IF @ = "caught" THEN @ ELSE "thrown"]
  /\ Goto(w, ThrowTo[stage[w]])
  /\ stage' = [stage EXCEPT ![w] = "none"]
  /\ hand' = [hand EXCEPT ![w] = Null]
  /\ event' = [event EXCEPT ![w] = Null]
  /\ remaining' = [remaining EXCEPT ![w] = 0]
  /\ sampling' = [sampling EXCEPT ![w] = FALSE]
  /\ UNCHANGED <<frameVars, connVars, sendVars, died>>

-----------------------------------------------------------------------------
(* Draining: processEvents *)

\* popNextPending() # null, and drain is called on the result.
PopPending(w) ==
  /\ pending # <<>>
  /\ hand' = [hand EXCEPT ![w] = Head(pending)]
  /\ pending' = Tail(pending)
  /\ Goto(w, "dequeue")
  /\ UNCHANGED <<active, activeCount, life, nonDaemonCount, reactor, budget,
                 tasks, connVars, stage, sendVars, event, remaining, failure,
                 died>>

\* w stops polling and goes on at l.
GiveUp(w, l) ==
  /\ Goto(w, l)
  /\ UNCHANGED <<frameVars, connVars, stage, sendVars, drainVars, failure,
                 died>>

\* sysEmitter.react(ReactorPreempted)
Preempt(w) ==
  /\ CallUser(w, "preempted")
  /\ sampling' = [sampling EXCEPT ![w] = FALSE]
  /\ UNCHANGED <<frameVars, connVars, sendVars, hand, event, remaining,
                 failure, died>>

\* The poll before the draining loop.
PopFirst(w) ==
  /\ At(w, "first")
  /\ \/ PopPending(w) /\ UNCHANGED sampling
     \/ pending = <<>> /\ GiveUp(w, "sample")

\* The poll in drain, when the connector in hand has nothing more to give.
PopNext(w) ==
  /\ At(w, "next")
  /\ \/ PopPending(w) /\ UNCHANGED sampling
     \/ pending = <<>> /\ sampling[w] /\ Preempt(w)
     \/ pending = <<>> /\ ~sampling[w] /\ GiveUp(w, "spin")

\* The speculative spin: spinSpeculation polls, none at first.
PopSpin(w) ==
  /\ At(w, "spin")
  /\ \/ PopPending(w) /\ UNCHANGED sampling
     \/ GiveUp(w, "sample")

\* The sampling loop, entered with some probability after any outcome of the
\* draining loop: it drains at most one connector and stops.
PopSample(w) ==
  /\ At(w, "sample")
  /\ \/ PopPending(w) /\ sampling' = [sampling EXCEPT ![w] = TRUE]
     \/ Preempt(w)

\* Mutant: the queue's live flag is not tested before the emission.
DequeueUnreacted(w) ==
  /\ At(w, "dequeue")
  /\ remaining' = [remaining EXCEPT ![w] = Len(queue[hand[w]]) - 1]
  /\ queue' = [queue EXCEPT ![hand[w]] = Tail(@)]
  /\ CallUser(w, "deliver")
  /\ event' = [event EXCEPT ![w] = Head(queue[hand[w]])]
  /\ UNCHANGED <<frameVars, conn, sendVars, hand, sampling, failure, died>>

\* c.dequeue(): the queue's monitor block, then the emission if it is live.
Dequeue(w) ==
  /\ At(w, "dequeue")
  /\ remaining' = [remaining EXCEPT ![w] = Len(queue[hand[w]]) - 1]
  /\ queue' = [queue EXCEPT ![hand[w]] = Tail(@)]
  /\ IF conn[hand[w]] # "sealed"
       THEN /\ CallUser(w, "deliver")
            /\ event' = [event EXCEPT ![w] = Head(queue[hand[w]])]
       ELSE Goto(w, "drain") /\ UNCHANGED <<stage, event>>
  /\ UNCHANGED <<frameVars, conn, sendVars, hand, sampling, failure, died>>

\* remaining > 0 && !c.localChannel.isSealed
HasMore(w) == remaining[w] > 0 /\ conn[hand[w]] = "open"

\* onBatchEvent allows more, from the same connector.
DrainAgain(w) ==
  /\ At(w, "drain")
  /\ budget' = budget - 1
  /\ budget' > 0
  /\ HasMore(w)
  /\ remaining' = [remaining EXCEPT ![w] = 0]
  /\ Goto(w, "dequeue")
  /\ UNCHANGED <<active, activeCount, life, pending, nonDaemonCount, reactor,
                 tasks, connVars, stage, sendVars, hand, event, sampling,
                 failure, died>>

\* onBatchEvent allows more, from the next connector if there is one.
DrainNext(w) ==
  /\ At(w, "drain")
  /\ budget' = budget - 1
  /\ budget' > 0
  /\ ~HasMore(w)
  /\ hand' = [hand EXCEPT ![w] = Null]
  /\ remaining' = [remaining EXCEPT ![w] = 0]
  /\ Goto(w, "next")
  /\ UNCHANGED <<active, activeCount, life, pending, nonDaemonCount, reactor,
                 tasks, connVars, stage, sendVars, event, sampling, failure,
                 died>>

\* onBatchEvent allows no more: drain returns false, leaving line in
\* pendingQueues.
PreemptedAt(w, line) ==
  /\ At(w, "drain")
  /\ budget' = budget - 1
  /\ budget' <= 0
  /\ pending' = line
  /\ hand' = [hand EXCEPT ![w] = Null]
  /\ remaining' = [remaining EXCEPT ![w] = 0]
  /\ IF sampling[w]
       THEN /\ CallUser(w, "preempted")
            /\ sampling' = [sampling EXCEPT ![w] = FALSE]
       ELSE Goto(w, "sample") /\ UNCHANGED <<stage, sampling>>
  /\ UNCHANGED <<active, activeCount, life, nonDaemonCount, reactor, tasks,
                 connVars, sendVars, event, failure, died>>

\* Mutants: the connector is forgotten; it keeps its turn.
DrainForgets(w) == PreemptedAt(w, pending)

DrainKeepsTurn(w) ==
  PreemptedAt(w, IF HasMore(w) THEN <<hand[w]>> \o pending ELSE pending)

\* The connector goes to the end of pendingQueues if it has more.
DrainPreempted(w) ==
  PreemptedAt(w, IF HasMore(w) THEN Append(pending, hand[w]) ELSE pending)

-----------------------------------------------------------------------------
(* Leaving a batch: checkTerminated, isolateAndProcessBatch, executeBatch *)

\* Mutant: the pending queues are not tested.
CheckTerminatedEagerly(w, forced, l) ==
  /\ IF life = "Running" /\ (forced \/ nonDaemonCount = 0)
       THEN /\ life' = "Terminated"
            /\ IF reactor THEN CallUser(w, "terminated")
                          ELSE Goto(w, "unregister") /\ UNCHANGED stage
       ELSE Goto(w, l) /\ UNCHANGED <<life, stage>>
  /\ UNCHANGED <<active, activeCount, pending, nonDaemonCount, reactor, budget,
                 tasks, connVars, sendVars, drainVars, failure, died>>

\* checkTerminated(forced) by w; l is where the caller continues when the
\* frame does not terminate here.
CheckTerminated(w, forced, l) ==
  /\ IF life = "Running" /\ (forced \/ (pending = <<>> /\ nonDaemonCount = 0))
       THEN /\ life' = "Terminated"
            /\ IF reactor THEN CallUser(w, "terminated")
                          ELSE Goto(w, "unregister") /\ UNCHANGED stage
       ELSE Goto(w, l) /\ UNCHANGED <<life, stage>>
  /\ UNCHANGED <<active, activeCount, pending, nonDaemonCount, reactor, budget,
                 tasks, connVars, sendVars, drainVars, failure, died>>

\* The finally of processBatch.
CheckExit(w) ==
  /\ At(w, "checkExit")
  /\ CheckTerminated(w, FALSE, IF failure[w] = "thrown" THEN "caught"
                                                        ELSE "release")

\* The catch of isolateAndProcessBatch: emit ReactorDied.
Catch(w) ==
  /\ At(w, "caught")
  /\ failure' = [failure EXCEPT ![w] = "caught"]
  /\ IF life # "Terminated" /\ reactor
       THEN CallUser(w, "died") /\ died' = TRUE
       ELSE Goto(w, "checkForced") /\ UNCHANGED <<stage, died>>
  /\ UNCHANGED <<frameVars, connVars, sendVars, drainVars>>

\* Mutant: the termination after an exception is not forced.
CheckUnforced(w) ==
  /\ At(w, "checkForced")
  /\ CheckTerminated(w, FALSE, "release")

CheckForced(w) ==
  /\ At(w, "checkForced")
  /\ CheckTerminated(w, TRUE, "release")

\* The name is released (see ConnectorRegistry); an exception that is not
\* caught yet goes on to the catch.
Unregister(w) ==
  /\ At(w, "unregister")
  /\ Goto(w, IF failure[w] = "thrown" THEN "caught" ELSE "release")
  /\ UNCHANGED <<frameVars, connVars, stage, sendVars, drainVars, failure,
                 died>>

\* activeCount.set(0), before re-scheduling.
Release(w) ==
  /\ At(w, "release")
  /\ activeCount' = 0
  /\ Goto(w, "reschedule")
  /\ UNCHANGED <<active, life, pending, nonDaemonCount, reactor, budget, tasks,
                 connVars, stage, sendVars, drainVars, failure, died>>

\* Mutant: the frame is made inactive without looking at pendingQueues.
RescheduleNever(w) ==
  /\ At(w, "reschedule")
  /\ Goto(w, "idle")
  /\ active' = FALSE
  /\ failure' = [failure EXCEPT ![w] = "no"]
  /\ UNCHANGED <<activeCount, life, pending, nonDaemonCount, reactor, budget,
                 tasks, connVars, stage, sendVars, drainVars, died>>

\* The last monitor block of executeBatch; postschedule and the rethrow are
\* the scheduler's.
Reschedule(w) ==
  /\ At(w, "reschedule")
  /\ IF pending # <<>> /\ life # "Terminated"
       THEN Goto(w, "schedule") /\ UNCHANGED active
       ELSE Goto(w, "idle") /\ active' = FALSE
  /\ failure' = [failure EXCEPT ![w] = "no"]
  /\ UNCHANGED <<activeCount, life, pending, nonDaemonCount, reactor, budget,
                 tasks, connVars, stage, sendVars, drainVars, died>>

-----------------------------------------------------------------------------

\* Everything has come to rest after termination.
Stopped ==
  /\ life = "Terminated"
  /\ tasks = 0
  /\ \A t \in Threads : pc[t] \in {"idle", "done"}
  /\ UNCHANGED vars

Spawn == SpawnOpenMain \/ SpawnOpenSys \/ SpawnActivate \/ Schedule(Spawner)

\* A send that has begun.
SendOn(t) == SendEnqueue(t) \/ SendRegister(t) \/ Schedule(t)

UserCode(w) ==
  \/ \E c \in Conns : UserOpen(w, c) \/ UserSeal(w, c)
  \/ \E c \in Conns, m \in Msgs : SendCheck(w, c, m)
  \/ Unreact(w) \/ UserReturn(w) \/ UserStarts(w) \/ BatchStart(w)
  \/ UserThrow(w)

Drain(w) ==
  \/ PopFirst(w) \/ PopNext(w) \/ PopSpin(w) \/ PopSample(w)
  \/ Dequeue(w) \/ DrainAgain(w) \/ DrainNext(w) \/ DrainPreempted(w)

Execute(w) ==
  \/ TakeTask(w) \/ Enter(w) \/ CheckFresh(w) \/ Create(w) \/ CreateFails(w)
  \/ UserCode(w) \/ Drain(w)
  \/ CheckExit(w) \/ Catch(w) \/ CheckForced(w) \/ Unregister(w)
  \/ Release(w) \/ Reschedule(w)
  \/ SendOn(w)

Next ==
  \/ Spawn
  \/ \E s \in Senders :
       SendOn(s) \/ \E c \in Conns, m \in Msgs : SendCheck(s, c, m)
  \/ \E w \in Workers : Execute(w)
  \/ Stopped

Spec == Init /\ [][Next]_vars

\* The scheduler runs what it was given, a thread inside the frame's code goes
\* on, and user code returns.  Nobody is obliged to send.
Fairness ==
  /\ WF_vars(Spawn)
  /\ \A w \in Workers : WF_vars(Execute(w))
  /\ \A s \in Senders : WF_vars(SendOn(s))

FairSpec == Spec /\ Fairness

-----------------------------------------------------------------------------
(* Safety *)

\* Who is inside a batch, from taking the task to giving the frame up.
Executing(w) == ~At(w, "idle")

\* Executing, between assertIsolated and activeCount.set(0).
Isolated(w) == pc[w] \notin {"idle", "enter", "reschedule", "schedule"}

\* A frame is executed by at most one worker at a time, and neither
\* assert(active) nor assertIsolated() at the head of executeBatch
\* (Frame.scala:177-178) can fail, whatever the senders do.
Isolation ==
  /\ \A w1, w2 \in Workers : Executing(w1) /\ Executing(w2) => w1 = w2
  /\ \A w \in Workers : At(w, "enter") => active /\ activeCount = 0

\* A lost wake-up would leave a registered event in a frame nobody will run:
\* while a queue is pending and the frame lives, the frame is active, and an
\* active frame always has an execution owed, running, or about to be
\* scheduled (enqueueEvent and the end of executeBatch race for the flag).
NoLostWakeup ==
  /\ pending # <<>> /\ life # "Terminated" => active
  /\ active => \/ tasks > 0
               \/ \E w \in Workers : Executing(w)
               \/ \E s \in Senders : At(s, "schedule")
               \/ pc[Spawner] \in {"openSys", "activate", "schedule"}

\* Everything that will lead to a dequeue of connector c: its places in
\* pendingQueues, a worker that is draining it, a thread that has put the
\* first event into its queue and will register it.
Claims(c) ==
  {<<"pending", i>> : i \in {j \in DOMAIN pending : pending[j] = c}}
    \cup {<<"drain", w>> : w \in {v \in Workers :
             hand[v] = c /\ (At(v, "dequeue") \/ remaining[v] > 0)}}
    \cup {<<"send", t>> : t \in {u \in Threads :
             At(u, "enqueued") /\ target[u] = c}}

\* A connector is claimed at most once, and a claimed one has an event: drain
\* never dequeues from an empty queue (which throws) and no connector gets
\* two turns, although enqueue, registration and drain are separate steps.
ClaimedOnce ==
  \A c \in Conns :
    /\ \A x, y \in Claims(c) : x = y
    /\ Claims(c) # {} => queue[c] # <<>>

\* No event is stranded: an open connector with events is always claimed,
\* unless the reactor has terminated or is failing.
NoStrandedEvent ==
  \A c \in Conns :
    conn[c] = "open" /\ queue[c] # <<>> =>
      \/ Claims(c) # {}
      \/ life = "Terminated"
      \/ \E w \in Workers : failure[w] # "no"

\* A reactor that terminates without an exception has sealed every non-daemon
\* connector and handled every registered event: what is left on an open
\* (daemon) channel was sent by a thread still on its way to registering it.
OrderlyStop ==
  [][ (life = "Running" /\ life' = "Terminated"
       /\ \A w \in Workers : failure[w] = "no")
      => \A c \in Conns :
           conn[c] = "open" =>
             /\ c \in Daemon
             /\ queue[c] # <<>> =>
                  \E t \in Senders : At(t, "enqueued") /\ target[t] = c
    ]_vars

\* Implementation of the abstract reactor (ReactorContract): the mailbox of
\* an open channel is its queue, what is handled is what a worker handles.
Delivering == {w \in Workers : stage[w] = "deliver"}

Contract == INSTANCE ReactorContract WITH
  conn <- [c \in Conns |-> IF conn[c] = "closing" THEN "sealed" ELSE conn[c]],
  mail <- [c \in Conns |-> IF conn[c] = "open" /\ life # "Terminated"
                             THEN queue[c] ELSE <<>>],
  current <- IF Delivering = {} THEN Null
             ELSE LET w == CHOOSE w \in Delivering : TRUE
                  IN  <<hand[w], event[w]>>,
  failed <- life # "Terminated" /\ \E w \in Workers : failure[w] # "no"

\* Serial, FIFO, at-most-once handling per channel; nothing before the start,
\* after the seal, a failure or the end.
RefinesContract == Contract!CSpec

-----------------------------------------------------------------------------
(* Liveness *)

\* No connector starves: its first event is handled, however many events
\* other connectors receive, unless it is sealed or the reactor terminates
\* (the budget preempts a busy connector to the end of pendingQueues).
NoStarvation ==
  \A c \in Conns :
    (conn[c] = "open" /\ queue[c] # <<>> /\ life # "Terminated")
      ~> \/ \E w \in Workers : stage[w] = "deliver" /\ hand[w] = c
         \/ conn[c] # "open"
         \/ life = "Terminated"

\* An exception of user code terminates the reactor, and the frame is given
\* back: no worker stays in it and no execution stays owed.
FailureTerminates ==
  (\E w \in Workers : failure[w] = "thrown")
    ~> /\ life = "Terminated" /\ ~active /\ tasks = 0
       /\ \A w \in Workers : ~Executing(w)

-----------------------------------------------------------------------------
(* What the documentation says and the code does not do *)

\* package.scala:237-239: ReactorDied "is sent before ReactorTerminated,
\* unless the exception is thrown while ReactorTerminated is being processed".
\* Here: when ReactorTerminated is emitted after an exception, ReactorDied has
\* been emitted.
DiedBeforeTerminated ==
  \A w \in Workers :
    At(w, "user") /\ stage[w] = "terminated" /\ failure[w] # "no" => died
=============================================================================

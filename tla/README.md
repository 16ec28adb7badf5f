# A verification of the Reactors core

This directory holds TLA+ models of the core of Reactors (reactors-io/reactors,
Scala), TLC runs that check them on small instances, and TLAPS proofs of the
safety properties, and of two refinements, for every instance. The program is
Scala; the JavaScript in the repository is the debugger's web page and the
libraries it loads (jQuery, sigma.js), which no module is about. Paths below are
relative to `src/reactors-core/shared/src/main/scala/io/reactors/` unless they
begin otherwise.

## 1. Inventory

A *reactor* is a single-threaded object fed by *channels*. Its runtime half is
a *frame*. Any thread may send to a channel; the event is put into the queue of
the channel's *connector*, the connector is registered with the frame, and the
frame is handed to a *scheduler*, which runs one *batch* of it on some thread.
Inside the batch user code handles events, opens and seals connectors, and
sends, also to its own reactor.

| Component | State | Operations | Interacts with | Hard behaviour | What makes it correct |
|---|---|---|---|---|---|
| Frame, batch (`concurrent/Frame.scala`) | `active`, `activeCount`, `lifecycleState`, `pendingQueues`, `nonDaemonCount` | `enqueueEvent`, `activate`, `executeBatch`, `openConnector`, `sealConnector`, `checkTerminated` | senders (monitor), scheduler (`schedule`), user code (callbacks) | senders race the end of a batch for `active`; exceptions anywhere; preemption in the middle of a queue | one executor at a time, no lost wake-up, no stranded event, orderly end |
| Event queue (`EventQueue.scala`) | ring, `live` | `enqueue`, `dequeue`, `unreact`, `bypass` | frame, event stream | size at enqueue decides who registers; emission is outside the monitor | FIFO, at most once, nothing after `unreact` |
| Channel, connector (`Channel.scala`, `Connector.scala`) | `isOpen` | `send`, `seal` | frame | `isOpen` is unsynchronised | late sends are harmless |
| Name registry (`ReactorSystem.frames`, `concurrent/ScalableUniqueStore.scala`) | name -> `Frame.Info` | `tryStore`, `tryReplace`, `tryRelease`, `forName` | spawning, opening, sealing, terminating, `Channels.await` | read-copy-replace by several threads; entries shared by two incarnations | one owner, exact lookup, every await answered once |
| Spawning (`ReactorSystem.scala`) | - | `trySpawnReactor` | registry, frame, scheduler | failure in the middle; premature sends | a failed spawn leaves nothing, early events wait |
| Executor scheduler (`src/reactors-core/jvm/.../JvmScheduler.scala`) | mini-queue per worker, worker state, pool | `schedule`, `postschedule`, `reanimate` | frames, fork/join pool | mini-queue raced by the reanimator, nested batches | each `schedule` runs once, nothing stays behind |
| Dedicated and Timer schedulers (same file) | thread, timer task, set of frames | `loop`, `awake`; tick, `addFrame`, `removeFrame` | frame monitor, `java.util.Timer` | wait/notify; tick against activation | the same contract |
| Unique ids (`UidGenerator`) | main and local counters | `generate` | frames | refill race | uniqueness |
| Reliable channels (`reliable-protocols.scala`) | stamps, priority queue | send, acknowledge, reorder | two reactors | loss, duplication, reordering | FIFO, exactly once |
| Backpressure, valves (`backpressure-protocols.scala`, `MultiValve.scala`) | tokens, shared ring | send, grant, flush | two reactors | window at its limits | no overrun, no dry-up |
| Router, server, rendezvous, scatter-gather | small per protocol | route, request/reply | reactors | boundary values, pairing | right target, one reply |
| Event streams, signals, `IVar` (`Events.scala`, `Signal.scala`) | observers | react, subscribe, unsubscribe | user code | observers change during `react` | each observer sees what it subscribed to |
| Containers (`reactors-common`, `reactors-container`) | data | data-structure operations | queues, protocols | block boundaries | equal to the abstract container |
| Services, remote, debugger, HTTP | I/O | - | outside | - | not modelled |

`PROJECT.json` lists the same components with their status, and the hazards of
the code, each at its line with the properties that cover it.

## 2. Plan

1. **ReactorFrame** refining **ReactorContract**: batch execution, queues,
   sending, sealing, exceptions, termination. *Done*, with the invariants
   proved in **ReactorFrame_proofs**.
2. **ConnectorRegistry**: one name of the registry with all its writers. *Done.*
3. Schedulers, against the contract that ReactorFrame's `tasks` stands for (one
   execution per `schedule`): **ForkJoinScheduler**, **ThreadSchedulers**. *Done.*
4. Protocols between reactors: **ReliableLink** refining **FifoLink**,
   **BackpressureLinks** and, over them, **MultiValve**. *Done* for established
   links.
5. The data structures the models above take for granted, against reference
   definitions: **UnrolledRing**, **BinaryHeap**, **UidGenerator**. *Done.*
6. **EventStream**: `Push` with observers that change while they are called.
   *Done* for `react`.
7. Proofs: the safety of the frame, its `OrderlyStop` and the refinement of the
   contract; the registry; both kinds of scheduler; the reliable link and its
   refinement; the multi-valve and its links; the ids, the ring, the heap, and
   the event stream where nobody both ends and begins subscriptions. *Done*
   (section 5). What the prover cannot do is listed at the end of section 5.

## 3. Modules

### ReactorFrame

The state is the frame's fields under their names in the source (`life` is
`lifecycleState`, `pending` is `pendingQueues`), each connector's `conn` state and
`queue`, `budget` (the scheduler state's `allowedBudget`), `tasks` (executions
the scheduler owes), and the local state of every thread: `pc`, the callback it
runs (`stage`), the connector and event it sends (`target`, `arg`), what `drain`
holds (`hand`, `event`, `remaining`, `sampling`), and the exception in flight
(`failure`). `died` records that `ReactorDied` was emitted; no step reads it.

A step is one critical section, one atomic operation, or a stretch of code that
touches only thread-local state. `enqueueEvent` is therefore three steps
(`SendEnqueue` under the queue's monitor, `SendRegister` under the frame's,
`Schedule`), preceded by `SendCheck`, the unsynchronised read of `isOpen`. A
batch is `TakeTask`, `Enter` (the assertions), `CheckFresh`, the callbacks,
`PopFirst`/`PopNext`/`PopSpin`/`PopSample` for the four places that poll
`pendingQueues`, `Dequeue`, one of `DrainAgain`/`DrainNext`/`DrainPreempted`
after the scheduler's verdict, `CheckExit` (the `finally` of `processBatch`),
`Catch` and `CheckForced` (the exception path), `Unregister`, `Release`
(`activeCount`), and `Reschedule`.

*User code* is any finite sequence of opening, sealing, sending, then
returning or throwing, in each callback: the constructor, `ReactorStarted`,
`ReactorScheduled`, event handlers, `ReactorPreempted`, `ReactorDied`,
`ReactorTerminated`. It does not seal the internal connector, to which it has no
reference.

*Memory.* `isOpen` is not volatile: a foreign thread may read it as true at any
time after the channel was created, so `SendCheck` by a sender does not depend
on the seal at all; the owner sees its own write. Everything else is under a
monitor, atomic, volatile, or handed over by the scheduler.

*Abstractions.* The spinning loops of `processEvents` are choices between
polling and giving up, because the histogram that steers them only counts
iterations. Sampling is allowed in every batch. The registry's map is
ConnectorRegistry's business. A shortcut connector's own sends (`bypass`) call
the handler inside the caller and do not meet the queue; foreign sends to it go
through the queue and are modelled.

### ReactorContract

What a client may rely on, with no threads, monitors or pending queues: a FIFO
mailbox per channel, one current event, a life cycle. It is a specification,
not a model of code, and has no entries in the map. `RefinesContract` in
ReactorFrame instantiates it with a refinement mapping: the mailbox of an open
channel of a live reactor is its queue, the current event is what some worker
delivers, the reactor has failed while some worker has an exception in flight
and the life cycle has not ended.

### ConnectorRegistry

One entry of `ReactorSystem.frames`. The writers copy the `Frame.Info` they
have read and replace it by compare-and-set; every read and every replacement
is a step. Frames are successive incarnations that want the same name; each
reserves it (`SpawnRead`, `SpawnReserve`), opens the standard connectors, is
activated (`Activate`), opens and seals others, and terminates (`Terminate`).
Any step of the spawn after the reservation may throw (`SpawnFails`).
`OpenNotify` sends to the listeners that were found; the listener's own
connector is reduced to the `answer` of its await.

The name is given back by the same two steps, `FindName` and `Release`, in three
places (`Find`, `Give`): at the end of `checkTerminated`; in the catch block of
`trySpawnReactor`, when the spawn fails before the frame has run; and in that
catch block once more, when a frame with the Piggyback scheduler has run to its
end inside of `activate` and its exception comes out of it
(`JvmScheduler.scala:384-389`, `314-317`). `Release` removes an entry without
listeners unconditionally, as `tryRelease` does. `Stopping` are the frames that
end, one way or another, and `Piggybacked` those that may give the name up
twice. The second release may hit the next reactor of the name
(section 6), and `NameOwned`, `ConnectorsPublished` and
`ListenersKept` say what holds until a name has been released twice
(`ReleasedOnce`). A frame opens at least the two standard connectors (`MaxOpens
>= 2`), and `Null` differs from all that it is told apart from
(`NullAssumption`).

### ForkJoinScheduler

`schedule` from a worker thread swaps the frame into the worker's `mini`
(`ExecuteGet`, `ExecuteCas`, `ExecuteFork`: an atomic reference is read, then
compared and set, and what was in it is forked); from any other thread it
submits (`Submit`). At the end of a batch `Postschedule` enters a loop that
executes submissions (`LoopPoll`) and then the mini-queue's frame (`PopGet`,
`PopCas`), as *nested* batches whose own postschedule returns at once
(`PostscheduleNested`), and that ends by flushing the mini-queue (`FlushGet`,
`FlushCas`, `FlushFork`). The reanimator takes frames out of other threads'
mini-queues (`Reanimate`, `ReanimateCas`, `Resubmit`).

Of a frame the model keeps what ReactorFrame says of `active`: a frame that is
active is not scheduled again before its batch is over. A nested batch starts
only after the outer one has ended, so that one `task` per worker is enough.
An exception of a polled task ends in its own `run`; one of a frame taken from
the mini-queue leaves the loop and ends in the `run` of the outer task. Both
error handlers of the library handle every exception.

The pool is the JDK's and is modelled from the calls the code makes:
submissions are first in first out, a worker's deque is last in first out for
its owner (`asyncMode` is false) and first in first out for thieves.

*How the modules fit.* ReactorFrame's `tasks` counts calls of `schedule` that
have not become executions. `Schedule` there is what `Send`,
`FinishAndSchedule` and `OutsiderSends` start here, `TakeTask` there is `Run`
here, and `ScheduledOnce` is the statement that the first leads to exactly one
of the second. Conversely, ReactorFrame's `NoLostWakeup` and `Isolation`
justify that a frame here is never scheduled while it waits or runs.
ReactorFrame's `Unregister`, `OpenConnector` and `UserSeal` leave the map of
names to ConnectorRegistry.

### The proof modules

ReactorFrame_proofs, ReactorFrame_refinement, ConnectorRegistry_proofs,
ForkJoinScheduler_proofs, ThreadSchedulers_proofs, ReliableLink_proofs and
MultiValve_proofs hold the theorems and lemmas about the modules they are named
for, the last one also those about BackpressureLinks; Parts_proofs holds those
about UidGenerator, UnrolledRing, BinaryHeap and EventStream, the modules that
MCParts checks. See section 5. They add no state and no behaviour.

### ThreadSchedulers

The schedulers that bind a frame to a thread. `NewThread` and `Piggyback`: the
worker's loop is `executeBatch` (`BatchStart`, `Pop`, `Handle`, `Sample`,
`CheckTerminated`, `Finally`), then `Loop` and `Check`, the test under the
frame's monitor after which it waits; `Wake` is `awake`, `WakeSpuriously` what
`Object.wait` allows. `Piggyback` runs its loop inside of `schedule`, on the
thread that spawns. `Timer`: one thread takes the tasks of all frames (`Tick`,
`TickTerminated`), runs a batch whose budget is the number of pending events,
and calls `activate(false)` (`Reactivate`); `addFrame` and `removeFrame` create
and cancel it with the first and the last frame. Of the frame it keeps one
channel, its registration, `active` and the end of the life cycle. Spawning may
fail after `initSchedule`. An exception ends the batch, and with it the thread
of a dedicated scheduler, whose handler rethrows.

`Sample` is the sampling loop of `processEvents` (`concurrent/Frame.scala:360-380`):
when nothing is left to drain, or no budget, some batches poll on for a while,
and drain the first queue they find, whatever is left of the budget. The code
enters it with a probability and never if `speculativeLagging` is 0, which
`Lagging` stands for. After it, or instead of it, the batch ends; `sampling`
keeps a batch from a second round.

### ReliableLink, FifoLink

FifoLink is the promise: events are delivered once each, in order, until an end
closes. ReliableLink is an established link: the client's window, stamps and
queue (`ClientSend`, `ClientAck`), the server's heap (`ServerDeliver`,
`ServerStore`), acknowledgements when it is preempted, and closing: the
client's `None`, the server's `-1`, and the subscriptions that each of them
triggers. `wire` and `acks` are sets from which anything may arrive next. A
stamp comparison is what the code computes, the difference cut to an Int, here
of `HalfInt` values a side. A handler is one step, because client and server
are reactors.

### BackpressureLinks, MultiValve

A link is the producer's budget, events and grants on their way, the consumer's
buffer and its ungranted tokens. `Return` grants at once (`sliding`) or saves
up (`batching`), `Preempted` sends what was saved. MultiValve is a producer
over such links: the ring, `next`, `oldest`, each valve's `pos`; `Emit` and
`GrantArrives` contain the loops that the signals set in motion, since signals
propagate within one handler; `Flush` is the message that drops what all valves
have taken. `counted` is the set of valves in `slowest`, which `Detach` leaves
as it is (`Uncount`), as the code does.

`rawOut` accepts an event whenever the ring has room, also while there is no
valve: `Emit` then takes the event out of the ring again and leaves `oldest`
behind, as the code does. From then on a loop may read outside the ring, which
throws and ends the reactor (`failed`). In `Moving`, `stuck` are the valves whose
loop would read outside it, and `ran` those whose loops came first, or all of
them if none is stuck. `EachInOrder`, `RingHoldsTheMissing`, `AllConsumed` and
`RingReopens` therefore have a premise, `Attended`: no event was emitted before the
first valve was attached. What happens without is in section 6.

### UidGenerator, UnrolledRing, BinaryHeap

One module per structure, each with a history variable that its property
compares with. UidGenerator's steps are its atomic operations. UnrolledRing's
nodes are a sequence that starts at `start`; its arrays grow by four up to
`MaximumLength`. BinaryHeap's array is the sequence of what it holds. A round of
the loop of `fixUp` is `Rise`, one of `fixDown`'s is `Sink`; the loops are these
repeated, as often as the array has elements at most.

### EventStream

`Events.Push`: `demux` is nothing, a reference, a `FastBuffer` or a
`FastHashTable`. A propagation is a loop on `stack`, one per event being
propagated; between its steps the observer that is called may subscribe
another, end subscriptions and emit. The buffer's array is kept place by place,
because what goes wrong goes wrong there. The table is the set of its
references, visited in any order, together with those that are *lost*:
`removeEntryAt` closes the gap of a cleared reference only up to the next cleared
one, so that a clean-up of more than one may leave a hole, behind which
`findEntryImpl` does not look (`FastHashTable.scala:18-26`, `54-64`). Which
references this happens to depends on hash codes; the model leaves it open
(`Losable`). The end of a subscription whose reference is lost clears nothing,
and its observer is `"missed"`. `made` tells references apart that a new table
makes anew.

### MC modules

Model values, the sets the configurations choose from, and symmetry sets. They
replace no definition. MCParts composes the data structures and EventStream: a
behaviour is one of them in use.

## 4. Runs

| Run | Shows | Bounds |
|---|---|---|
| `Frame_safety` | `TypeOK`, `Isolation`, `NoLostWakeup`, `ClaimedOnce`, `NoStrandedEvent`, `OrderlyStop` | 2 workers, 2 senders, the spawner, 3 connectors (`sys` a daemon, `aux` a shortcut), 1 event value, budget 2, 2 events per queue |
| `Frame_contract` | `RefinesContract`, `NoStarvation`, `FailureTerminates` | 2 workers, 1 sender, 2 connectors, 2 event values, budget 2, 2 events per queue, no symmetry |
| `Frame_died` | violates `DiedBeforeTerminated` (finding) | as `Frame_safety` with 2 connectors |
| `Registry_safety` | `TypeOK`, `NameOwned`, `ConnectorsPublished`, `AnsweredOnce`, `ListenersKept`, `AwaitKept` | 2 incarnations, the first of which may fail or end and is piggybacked, 2 awaits, 3 names, 3 openings per frame |
| `Registry_lost` | violates `AwaitAnswered` (finding) | 2 incarnations, 1 await, 2 names |
| `ForkJoin` | `TypeOK`, `ScheduledOnce`, `FlushedWhenIdle`, `ExecutedUnlessBusy` | 2 workers, the reanimator, 1 outside thread, 2 frames, 1 attempt in `postschedule` |
| `Schedulers` | `TypeOK`, `RunsActive`, `NoLostWakeup`, `ThreadKept`, `FlushBounded`, `EventsHandled`, `ThreadsEnd` | 2 frames: any kind beside a timer's; 2 senders, 2 events, budget 1, batches may sample |
| `Reliable` | `TypeOK`, `WithinWindow`, `RefinesFifo`, `AllDelivered`, `ClosePropagates` | both policies, window 3, 6 events, stamps compared modulo 16 |
| `MultiValve` | `Conservation`, `EachInOrder`, `RingHoldsTheMissing`, `AllConsumed`, `RingReopens` | 2 valves, one `sliding` and one `batching`, size 2, ring of 2, 4 events |
| `MultiValve_removed` | violates `SlowestIsAttached` (finding) | as above, 2 events |
| `Parts` | `UidsUnique`, `RingIsQueue`, `HeapGivesLeast`, `Propagated` | 3 threads over 2 counters, chunks of 3, 5 ids; nodes of 2 and 4, 12 elements; 3 keys, 7 elements; 5 observers, buffer of 2 to 3, tables that grow at 2 and 5, 2 events |
| `Push_skips` | violates `Propagated` (finding) | 4 observers, the sizes in the source, 2 events, no nesting |

*Why the bounds are enough.* A second worker and a second sender are what every
race needs; a third adds no kind of step, because workers meet only through the
frame's flags and senders only through queues and `pendingQueues`. A budget of
2 with queues of 2 reaches both verdicts of `onBatchEvent`, with and without
events left in the hand. `MaxQueue` limits events that are queued or about to be
queued to a connector, in the guard of `SendCheck`, the only unbounded input.
Three names leave room for one that is neither standard connector. `MaxOpens`
of 3 lets a frame open one beside the two standard ones, and the second
incarnation open it again. That the first incarnation alone is piggybacked and
stops is enough for its second release to meet every stage of the second one's
life. Two
event values tell an event from its successor.

Two events and a budget of 1 let a batch end with an event left, and an event
come between the count of a timer's batch and its end; two frames on one timer
let the first leave while the second stays; the second event may come when the
budget of 1 is used up, and be sampled. Six events over a window of 3 fill the
client's queue and let it drain twice. A ring of 2 and four events make the ring
full, flush it and fill it again, with valves that are attached at different
positions. Of these events some may be emitted before the first valve is
attached; the run goes through these behaviours too, where the properties with
the premise `Attended` say nothing and `Conservation` still holds. Chunks of 3
and 5 ids make every thread refill; nodes of 2 growing to 4 and 12 elements let
the circle grow, wrap and reuse nodes on both sides of `end`; 7 elements are
three full levels of the heap. The sizes of the buffer and the table are scaled
down in `Parts` so that 5 observers pass through every form of `demux`, both
ways.

In `Parts` the observers either end subscriptions or subscribe and emit during a
propagation, never both: both together break `Propagated` (`Push_skips`). Five
observers fill a table that loses references and lets subscriptions end
unnoticed; that nobody *else* is called after the end of a subscription is what
`Propagated` says of it.

*Deadlock* is checked in the frame's runs: a frame that has neither ended nor
can take a step would be reported; `Stopped` is the stutter of a frame that has
terminated with all its threads at rest. It is off where everybody may
simply have finished: the registry, the thread schedulers, links whose users
have stopped, and the data structures.

*Fairness.* `FairSpec` of ReactorFrame: the spawner finishes, a worker that has
a task runs it and goes on (this includes user code returning, which every
cooperative scheduler must assume), a send that has begun ends. Nobody is
obliged to send, and weak fairness is enough: no step of a worker is disabled
by others once enabled, except taking a task, which another worker takes
instead. `FairSpec` of ConnectorRegistry: a thread inside an operation of the
registry goes on, a spawn that lost a comparison tries again. Nobody is obliged
to open, seal, await or stop.

`FairSpec` of ForkJoinScheduler: the scheduler's own code goes on, *but user
code may never return*; that is what the reanimator is for. The pool's workers
scan its queues from a random start and the reanimator visits every worker, so
that scanning is strongly fair per queue. `ExecutedUnlessBusy` has a premise,
that some worker keeps running out of its own tasks, and needs it: with every
worker busy, a frame that always has events left is forked on top of older
frames and popped again, and these wait until a thief or the reanimator happens
to intervene.

`FairSpec` of ThreadSchedulers: threads that were started go on, a wake-up that
was begun ends, and the timer's thread, which `java.util.Timer` lets take tasks
in the order of their times, comes to every task again and again (strong
fairness, because it is busy with other frames in between). No wake-up is
assumed to be spurious. User code returns; with a thread per frame a handler
that does not return only hurts its own frame, on a timer all of them.
`FairSpec` of ReliableLink: the transport delivers everything in the end, in
any order, and every batch of the server ends. `FairSpec` of MultiValve:
messages arrive, batches end, and consumers go on consuming. Nobody is obliged
to send, emit, attach or close.

*Mutants.* Each property of a passing run is broken by one mutant of the code's
definitions, kept next to the definition it changes (`RescheduleNever`,
`DrainForgets`, ...), so that a reader sees what kind of mistake the property
would find.

## 5. Proofs

Every invariant and every action property that a passing run checks is a
theorem of the module's specification, for every value of the constants that
satisfies the module's named assumptions, and so are the two refinements.
Some of them have a premise, without which they are false of the code; the
findings show why, and the runs and the theorems have the same ones:

- `NameOwned`, `ConnectorsPublished` and `ListenersKept` speak of the time until
  some name has been released twice (`ReleasedOnce`; `NameFound` fails).
- `EachInOrder` and the second part of `RingHoldsTheMissing` speak of multi-valves
  to which no event was emitted before the first valve was attached (`Attended`;
  `ActsAsValve` fails).
- `Propagated` excuses observers whose reference the table had lost when they
  unsubscribed (`UnsubscribedLeftAlone` fails), and its theorem is about observers who do not
  both end and begin subscriptions during a propagation (`Push_skips`).

The bounds that the configurations set (`MaxQueue`, `MaxSends`,
`MaxEmits`, ...) are constants like the others: the theorems hold for each
value of them.

| Module | Theorems, each `Spec => []P` or `Spec => P` | Assumptions |
|---|---|---|
| ReactorFrame_proofs | `TypeCorrect`, `IsolationHolds`, `NoLostWakeupHolds`, `ClaimedOnceHolds`, `NoStrandedEventHolds`; invariants `FrameInvariant`, `StrandInvariant` | `ThreadsAssumption`, `ConnsAssumption`, `BudgetAssumption` |
| ReactorFrame_refinement | `OrderlyStopHolds`, `RefinesContractHolds`; invariant `ViewInvariant` | the same |
| ConnectorRegistry_proofs | `RegistryTypes`, `NameOwnedHolds`, `ConnectorsPublishedHolds`, `AnsweredOnceHolds`, `ListenersKeptHolds`, `AnswersAreConnectors`; invariant `RegistryInvariant` | `RegistryAssumption`, `NullAssumption` |
| | `NameFoundUnlessPiggybacked` | the same and `Piggybacked = {}` |
| ForkJoinScheduler_proofs | `SchedulerTypes`, `ScheduledOnceHolds`, `FlushedWhenIdleHolds`; invariant `SchedulerInvariant` | `SchedulerAssumption` |
| ThreadSchedulers_proofs | `SchedulerTypes`, `RunsActiveHolds`, `NoLostWakeupHolds`, `ThreadKeptHolds`, `FlushBoundedHolds`; invariant `SchedulersInvariant` | `SchedulersAssumption` |
| | `FlushesPendingHolds` | the same and `~Lagging` |
| ReliableLink_proofs | `LinkTypeCorrect`, `WithinWindowHolds`, `RefinesFifoHolds`; invariant `LinkInvariant` | `WindowAssumption` |
| MultiValve_proofs | `ConservationHolds`, `EachInOrderHolds`, `RingHoldsTheMissingHolds`; invariant `MultiInvariant` | `LinkAssumption`, `MultiAssumption` |
| Parts_proofs | `IdsAreUnique` (of `UidSpec`) | `UidAssumption` |
| | `RingIsQueueHolds` (of `RingSpec`) | `RingAssumption` |
| | `HeapGivesLeastHolds` (of `HeapSpec`) | `HeapAssumption` |
| | `PropagatedHolds` (of `StreamSpec` with `use # "both"`) | `StreamAssumption` |

All proofs have the same plan. None of the properties is inductive; each module
states a strengthening as a conjunction of named parts, proves that the initial
states satisfy it and that each action keeps each part it can disturb, and
derives the properties. Each strengthening was checked by TLC, on the instance
of the module's run, as well.

*Induction.* The library's induction theorems take an operator as a parameter,
which no installed back end can instantiate. `SetInduction` states the
principle with a set instead, *a set that has 0 and, with n, also n + 1 has every
natural number*, and follows from the library's theorem that the finite sets are
well-founded by inclusion. The loops of the code that compute a value are
recursive functions over the number of their rounds (`FixUp`, `FixDown`,
`Uncleared`; `SumOf` of a sequence of grants is another one). For each there is
a lemma that such a function exists, by induction (`RisingExists`,
`SinkingExists`, `KeepingExists`), and one that says what it returns.

### The frame

Isolation depends on there being one *token* per active frame: an owed task, an
executing worker, a sender or the spawner about to schedule. `OneToken` says
that there is exactly one while `active` holds and none otherwise; `PcShape`,
`TargetShape` and `HandShape` tie each thread's local state to where it is, so
that a token is neither forged nor lost by a step of another thread;
`IsolatedCount` ties `activeCount` to the token's position, and `PendingActive`
says that a registered queue keeps the frame active. `Isolation` and
`NoLostWakeup` follow.

`ClaimedOnce` needs `ClaimsDisjoint` (two claims on a connector are one) and
`ClaimsNonEmpty` (a claimed connector has an event); the delicate steps are
`SendEnqueue`, where the length of the queue decides whether a new claim
appears, and the polls, where a place in `pendingQueues` turns into a hand and
all later places move (lemmas `TailElements`, `PopClaims`). `SoleDrainer` uses
`OneToken` to exclude a second hand. `NoStrandedEvent` adds `LifeShape` and
`AbsentEmpty` (`StrandInv`), and shows step by step that a claim on an open
connector goes away only with its last event, with termination or in a failure.

### The frame as the contract's reactor

`RefinesContractHolds` is a step simulation: `RefinesInit` maps initial states,
and `RefinesNext` every step, to a step of ReactorContract or to a stutter. The
*Unseen* lemmas say which actions a client cannot see, the *Seen* lemmas which
abstract action another one is; one lemma per abstract action says what the
view must do for that. The work is in the abstract guards: the contract
delivers only in a live reactor that has not failed, and ends a reactor only
with its last non-daemon channel. They need four more parts (`ViewInv`): who may
still run when the life cycle has ended (`LiveShape`), where an exception can
be (`FailureShape`), that a connector half-way through its seal has a worker
that completes it (`ClosingShape`), and that the counter
`nonDaemonCount` is the number of open non-daemon connectors (`OpenCount`,
with a cardinality argument for each opening and seal). `OrderlyStop` is an
action property and follows from the same parts.

### The registry

A thread that wins its comparison finds the entry that it has read. What it
decided from that reading therefore still holds, however many writers came in
between: `SeenShape` says what it decided, `PublishEffect`, `UnpublishEffect`
and `RegisterEffect` what its replacement then does to the entry. `NameOwned`
and `ConnectorsPublished` are carried by these and by `OwnShape` (a frame has
connectors only while it holds the name). `AnsweredOnce` also needs where an
await can be known of (`AwaitShape`, `ListenerChan`) and where a frame is while
it has listeners to notify (`NotifyShape`). `NameOwned` and
`ConnectorsPublished` are kept only while `ReleasedOnce` holds, and it never
holds again once it has failed: the second release removes whatever it finds.
Everything else in the invariant, and with it `AnsweredOnce`, does not depend on
it: an await is answered once even then. Only a piggybacked frame comes to a
second release (`AgainShape`), so that `NameFoundUnlessPiggybacked` has the
comment in `checkTerminated` right for all other schedulers.
`AnswersAreConnectors` states what the last gives beyond the runs.
`ListenersKept` follows action by action.

### The schedulers

ForkJoinScheduler: `ScheduledOnce` speaks of positions in the pool's queues,
which every step shifts. The proof speaks of *holders* instead, the thread and
the kind of place that has a frame: a step changes the holder of one frame at
most (`Placed`), and a queue without repetition (`Distinct`) has one position
for it (`HolderOnly`). The shapes of `pc`, `seen`, `arg`, `state` and `nested`
exclude that a frame is read from a mini-queue and also left there.

ThreadSchedulers: `ExecShape` says who may run a batch of a frame, `ActiveShape`
what `active` stands for, `Claimed` that one party at most has to register or
drain a queue. `NoLostWakeup` is the case of `ActiveShape` where the worker
waits; `FlushBounded` needs `BatchCount`, which follows the timer's budget
through its batch while senders add to the queue: the main loop stops when it
has handled what was counted, and what the sampling loop takes then is one event,
because `drain` looks at the budget after each. `FlushesPending`, what the
Scaladoc promises, needs that no batch samples (`NoSampling`), which `~Lagging`
gives. This proof found a slip in
the model: two CASE expressions had arms that overlap, which TLC takes in order and
TLA+ does not; they are conditionals now.

### Ids, ring and heap

UidGenerator: every counter in use works inside a chunk of its own (`OwnChunk`),
a chunk that a thread has fetched and not installed is nobody's yet
(`FreshChunk`), and a counter is ahead of the ids given from its chunk (`Ahead`).
A comparison that succeeds on a stale reading is harmless, because the counter
then has the value that was read.

UnrolledRing: `RingShape` says which nodes may be in which condition. Those
before the last one are full, and, but for the first, not empty; the last one
has room; those behind it are unused. This is what makes `enqueue` free to write
to the next node or to insert one, and what makes one advance enough for
`dequeue`. `InOrder` joins the nodes' elements, which are a fold over a sequence
of sequences: `FlattenAppend` and `FlattenCons` take off the last and the first
of them, by induction on their number.

BinaryHeap: the array is `Ordered` between operations. `RiseKeeps` states the
loop invariant of `fixUp`, that the order holds everywhere but between one place
and its parent, and that the children of that place are not less than that
parent; `SinkKeeps` the mirror image for `fixDown`. A round moves the place or ends
the loop, so that the number of rounds the model allows is enough
(`FixUpRestores`, `FixDownRestores`). A round is a swap, which keeps the places
of each element in number (`SwapKeeps`, by a bijection); that the root is least
follows from the order by induction on the place (`RootIsLeast`).

### Links and valves

ReliableLink: an accepted event is delivered, in transit under its own number
as stamp, or in the client's queue (`ClientShape`, `WireShape`,
`DeliveredShape`). `WithinWindow` follows from `AckShape`, as `lastAck` never is
ahead of what was delivered. What the server takes from its heap at once is
a run from the expected stamp on, without a gap; lemma `ReadyRun` shows it, and
that `ByStamp` gives it in order, without induction. The refinement maps each
step to FifoLink's delivery of that run, to closing, or to a stutter. Safety
does not depend on what the comparison of two stamps answers when their
difference overflows an Int: a wrong answer could only keep an event in the
heap, which `AllDelivered` is about.

MultiValve: the invariant has two layers. `PositionShape` holds of every
behaviour: positions that are counted lie between `oldest` and `next`, the ring
is within its window, and without a valve nothing is kept. `InOrder` holds while
`Attended` does: `PassedShape` says that what a valve's consumer was sent is the
stretch from `joined` to `pos`, `RingShape` that the ring is the stretch from
`oldest` to `next` and that no handler has thrown. Lemmas on stretches
(`StretchJoins`, `StretchRead`, `HandOver`) turn the operations on sequences into
arithmetic. What the loops do is stated twice accordingly: `MovingEffect` and
`LoopsKeepShape` for any ring, `MovingInOrder` and `LoopsKeepOrder` for one that is
a stretch, where no loop reads outside it; `SlowestBounds` shows that a flush
stays within it. The first valve is where the layers meet: it finds `oldest` = 0
and an empty ring (`PositionShape`), so that `Attended` can only begin to hold
before the first event. That `counted` never shrinks (the finding of
`MultiValve_removed`) makes the ring safe and late.

BackpressureLinks: `Conservation` is inductive once the types of a link's parts
are known (`LinksTyped`). Sends, consumption and preemption move tokens between
its terms; that a grant which arrives moves the head of a sequence from one term
to another, and a grant that is sent appends to it, are lemmas on sums
(`SumOfTail`, `SumOfAppend`), by induction over the sequence. MultiValve spends
budgets in loops over the ring; that every event they pass on is paid for
(`Paid`) is part of `MovingEffect`.

### Event streams

What is left to a loop, `Left`, are the references from its place on in the
array that it has read, or what it has not visited of a table. The invariant
`StreamInv` says of every loop on the stack that these references are of
observers that it has not called, no two of one observer, and that those of
observers who have gone, and were not missed, are cleared (`LeftShape`); that every
observer who was subscribed at its start and still is was called or is left
(`DueShape`); and that whom it has called was subscribed then or had been missed
(`Callable`), and was called once (`ToldShape`).
At the end of a loop nothing is left, and `Propagated` follows.

`demux` and the loops are tied together by what observers do. If they only end
subscriptions (`CancelShape`), there is one loop, over `demux` as it is, and the
delicate step is `TakeOut`: the reference that moves to the loop's place was
left and stays so (`TakeOutLoop`). If they only begin subscriptions and emit
(`GrowShape`), no reference is ever cleared, loops nest, and `demux` has only
grown since they began: a loop's bound is within the buffer, or it has kept the
array that the buffer grew out of. With both, a loop removes a reference from a
buffer that has grown, and neither holds.

The references in `demux` are, for each subscribed observer, one that is not
cleared (`EntriesShape`, `DemuxShape`), in all four forms and through each
change of form; the proof assumes nothing of which references a table loses;
`UnclearedIs`, `GrownIs`, `RemovedIs` and `TableOf` say what the operations of
`FastBuffer` and `FastHashTable` keep.

### Model-checked only

- *Liveness*: every property under fairness (`NoStarvation`,
  `FailureTerminates`, `AwaitKept`, `ExecutedUnlessBusy`, `EventsHandled`,
  `ThreadsEnd`, `AllDelivered`, `ClosePropagates`, `AllConsumed`, `RingReopens`).
  Fairness speaks of `ENABLED`, which is outside of what the prover reasons
  about.
- `Propagated` when observers both end and begin subscriptions during a
  propagation, where it does not hold (`Push_skips`).

## 6. Findings

- `Frame_died`: a handler that seals the last non-daemon channel and throws is
  reported as an orderly end; `ReactorDied` is never emitted
  (`concurrent/Frame.scala:497`).
- `Registry_lost`: the release of a name is not conditional on the entry that
  was examined, and loses a listener that arrived in between
  (`concurrent/Frame.scala:482`, also `ReactorSystem.scala:173`). `AwaitKept`
  is what remains true: while nobody has given the name up, an await is
  answered.
- `MultiValve_removed`: `toSignalAggregate` adds a signal when it should remove
  it (`RContainer.scala:162` in `reactors-container`). A valve that was removed
  from a multi-valve holds back the ring for ever; `RingReopens` holds only
  with that case excused.
- `Push_skips`: a propagation that removes a dead observer after another one
  was added misses a living one (`Events.scala:1349`).

Four promises of the documentation that the models contradict have a property of
their own, but no run: add the invariant to the configuration that is named, and
TLC shows a case within a minute. The premises of section 5 are what
remains true of them.

- `NameFound` (`Registry_lost.cfg` with `Piggybacked <- MCFrames`): when a
  piggybacked reactor fails inside `activate`, the catch block of
  `trySpawnReactor` releases the name that `checkTerminated` has released already,
  and removes the entry of a reactor spawned in between
  (`ReactorSystem.scala:157-178`, `concurrent/Frame.scala:471-483`). That reactor
  finds nothing when it terminates, which line 474 says should not happen.
- `FlushesPending` (`Schedulers.cfg`): the sampling loop takes one event more
  after the timer's budget is used up (`concurrent/Frame.scala:377`), where the
  Scaladoc promises as many events as were pending at first
  (`JvmScheduler.scala:404-405`). `FlushBounded` is what remains true.
- `ActsAsValve` (`MultiValve.cfg`): an event emitted into a multi-valve without
  valves leaves the ring and is not counted in `oldest` (`MultiValve.scala:41`). A
  valve that is attached later reads outside the ring, and the reactor dies, or
  it skips an event. Line 12 says that a multi-valve acts as a valve.
- `UnsubscribedLeftAlone` (`Parts.cfg`): two cleared references that are next to
  each other in a table leave a hole when they are taken out
  (`FastHashTable.scala:54-64` in `reactors-common`); behind it a reference is not
  found any more, and its observer is called after it has unsubscribed, unlike
  `Events.scala:44-46` says. At the sizes in the source: nine observers with equal
  hash codes, in places 1 to 9 of the table of 32; the second and the third
  unsubscribe, an event is emitted, the ninth unsubscribes; the next event still
  calls it.

Seen while modelling, without a property:

- A frame whose spawn failed after `initSchedule` stays in the timer's set and
  keeps its thread (`JvmScheduler.scala:450`); `ThreadsEnd` excuses it.
- The client's farewell may overtake its last events, which are then dropped,
  and closing drops what its queue still holds (`reliable-protocols.scala:135`,
  `326`). `RefinesFifo` allows it: what is delivered is a prefix.
- The client of `fastReorder` sends no farewell, so that its server never
  learns that it has closed (`reliable-protocols.scala:181-184`);
  `ClosePropagates` excuses it.
- A `react` that unsubscribes somebody and then emits can make the nested
  `bufferReactAll` loop for ever at the cleared reference (`Events.scala:1348`).
- A buffer that grows during a propagation leaves the loop with the old array;
  if the loop then removes a cleared reference, it removes another one.
- `MultiValve.Biased` returns the first valve's subscription to who adds the
  second one (`MultiValve.scala:125-130`).
- `Router.hash` has a negative index for a hash of `Int.MinValue`
  (`router-protocols.scala:132`).
- Clients that wait on one side of a rendezvous all listen to the same channel:
  two waiting lefts both get the value of the first right
  (`rendezvous-protocols.scala:31`).

## 7. What is not modelled

- *Protocols.* Opening of reliable and backpressure links, the two-way reliable
  channels (two one-way links), closing of backpressure links, pumps over
  pumps, `MultiValve.Biased`. Server, router, rendezvous, scatter-gather and
  throttle are a few lines over event streams each.
- *Event streams.* `except` and `unreact` (loops of the same shape), the
  combinators, signals, `IVar`, `RCell`; hash codes and the places of a
  `FastHashTable`, in place of which any reference may get lost.
- *Data.* `UnrolledRing.remove`, `DataBuffer`, `UnrolledBuffer`; Conc-trees,
  matrices and tries, which are libraries of a size of their own that the core
  does not use; the reactive containers beyond what MultiValve needs.
- *Schedulers.* The JavaScript scheduler, whose queue is the browser's;
  `Timer.shutdown`.
- *I/O.* Remote transports, marshalling, the Clock, Io, Log and Net services,
  the debugger, HTTP and JSON.

----------------------- MODULE ThreadSchedulers_proofs -----------------------
(***************************************************************************)
(* The safety of the schedulers that bind a frame to one thread, for any   *)
(* number of frames and senders, any assignment of schedulers, any budget  *)
(* and any number of events.  Three facts carry the properties: who may    *)
(* run a batch of a frame (ExecShape), what `active` stands for            *)
(* (ActiveShape), and that one party at most has a claim on the frame's    *)
(* queue (Claimed).                                                        *)
(***************************************************************************)
EXTENDS ThreadSchedulers, TLAPS, FiniteSetTheorems

-----------------------------------------------------------------------------
(* The inductive invariant *)

\* Of the frames, size counts what was sent and not handled.
Counted == \A f \in Frames : done[f] + size[f] <= sent

\* Before a frame is spawned nobody runs it, sends to it or wakes it; once its
\* connectors are open it counts as active, and then it gets its thread.
SpawnShape ==
  \A f \in Frames :
    /\ spawn[f] \in {"none", "init", "failed"} => ~active[f] /\ size[f] = 0
    /\ spawn[f] = "open" => active[f]
    /\ spawn[f] # "done" =>
         worker[f] = "none" /\ task[f] = "none" /\ exec[f] = "off" /\ ~terminated[f]
    /\ spawn[f] = "done" /\ kind[f] # "timer" => worker[f] # "none"

\* A sender that has to register a queue or to wake a worker knows the frame.
SenderShape ==
  \A s \in Senders :
    \/ sender[s] = Idle
    \/ sender[s].at = "pend" /\ sender[s].to \in Frames
    \/ sender[s].at = "wake" /\ sender[s].to \in Frames /\ spawn[sender[s].to] = "done"

\* The queue of a frame is claimed by the sender that has to register it, by
\* the pending queues or by the batch that drains it; there is one claim at
\* most, and only on a queue with an event.
Claimed ==
  /\ \A f \in Frames :
       /\ pending[f] => size[f] > 0 /\ exec[f] # "drain"
       /\ exec[f] = "drain" => size[f] > 0
  /\ \A s \in Senders : sender[s].at = "pend" =>
       LET f == sender[s].to IN
         /\ size[f] > 0 /\ ~pending[f] /\ exec[f] # "drain"
         /\ \A r \in Senders : sender[r] = sender[s] => r = s

\* A batch is run by the frame's own worker, or by the timer for the frame
\* whose tick it is; a frame that has terminated has no batch before it.
ExecShape ==
  \A f \in Frames :
    /\ kind[f] # "timer" =>
         /\ exec[f] # "off" <=> worker[f] = "exec"
         /\ exec[f] # "reactivate" /\ task[f] = "none"
    /\ kind[f] = "timer" =>
         /\ worker[f] = "none"
         /\ exec[f] # "off" <=> ticking = f
    /\ exec[f] \in {"start", "pop", "drain", "sample", "end"} => ~terminated[f]
    /\ worker[f] \in {"run", "wait"} => ~terminated[f]
    /\ thrown[f] => terminated[f] \/ exec[f] = "end"

\* What active stands for: something to do, a batch, a worker about to run one
\* or a timer that will; a worker that rests with an active frame has to look
\* at a pending queue.
ActiveShape ==
  \A f \in Frames :
    /\ pending[f] /\ ~terminated[f] => active[f]
    /\ exec[f] \in {"start", "pop", "drain", "sample", "end", "finally"} => active[f]
    /\ worker[f] = "run" => active[f]
    /\ kind[f] = "timer" /\ spawn[f] = "done" /\ ~terminated[f] /\ exec[f] # "reactivate"
         => active[f]
    /\ worker[f] \in {"wait", "check"} /\ active[f] => pending[f]

\* The scheduler has a timer as long as it has frames.
TimerShape == timer <=> frames # {}

\* How far a timer's batch is with the events it counted: the main loop stops
\* when it has handled them, or one that came later, and the sampling loop can
\* only begin then.
BatchCount ==
  \A f \in Frames : kind[f] = "timer" /\ ~sealed[f] =>
    /\ exec[f] = "pop" =>
         /\ ~sampling[f] /\ done[f] = 0 /\ budget[f] = due[f]
         /\ due[f] > 0 => pending[f] /\ size[f] >= due[f]
    /\ exec[f] = "drain" /\ ~sampling[f] =>
         /\ budget[f] = due[f] - done[f] /\ size[f] >= budget[f]
         /\ budget[f] > 0 \/ (due[f] = 0 /\ done[f] = 0)
    /\ exec[f] = "sample" \/ (exec[f] = "drain" /\ sampling[f]) =>
         /\ budget[f] <= 0
         /\ done[f] = due[f] \/ (due[f] = 0 /\ done[f] = 1)
    /\ exec[f] = "sample" => ~sampling[f]

\* Without lagging no batch samples.
NoSampling == Lagging \/ \A f \in Frames : ~sampling[f] /\ exec[f] # "sample"

\* What the Scaladoc promises of the timer holds without lagging.
FlushesUnsampled == Lagging \/ FlushesPending

SchedulersInv ==
  /\ TypeOK /\ Counted /\ SpawnShape /\ SenderShape /\ Claimed /\ ExecShape
  /\ ActiveShape /\ TimerShape /\ BatchCount /\ NoSampling
  /\ RunsActive /\ NoLostWakeup /\ ThreadKept /\ FlushBounded /\ FlushesUnsampled

-----------------------------------------------------------------------------
(* The steps, one case each *)

\* A step is one of the actions of the frames, the timer and the senders, or none.
LEMMA NextCases ==
  ASSUME [Next]_vars
  PROVE  \/ \E f \in Frames :
              \/ InitSchedule(f) \/ SpawnFails(f) \/ Open(f) \/ Activate(f)
              \/ BatchStart(f) \/ Pop(f) \/ Sample(f)
              \/ CheckTerminated(f) \/ Finally(f)
              \/ Loop(f) \/ Check(f) \/ WakeSpuriously(f)
              \/ Tick(f) \/ TickTerminated(f) \/ Reactivate(f)
         \/ \E f \in Frames, outcome \in Outcomes : Handle(f, outcome)
         \/ \E s \in Senders, f \in Frames : Enqueue(s, f)
         \/ \E s \in Senders : Pend(s) \/ Wake(s)
         \/ UNCHANGED vars
BY DEF Next

-----------------------------------------------------------------------------
(* What the longer steps do *)

\* The worker, in the frame's monitor.
LEMMA CheckEffect ==
  ASSUME SchedulersInv, NEW f \in Frames, Check(f)
  PROVE  /\ worker[f] = "check"
         /\ \/ terminated[f] /\ worker' = [worker EXCEPT ![f] = "ended"]
            \/ ~terminated[f] /\ pending[f] /\ worker' = [worker EXCEPT ![f] = "run"]
            \/ ~terminated[f] /\ ~pending[f] /\ worker' = [worker EXCEPT ![f] = "wait"]
         /\ UNCHANGED <<kind, spawn, frameVars, batchVars, timerVars, sendVars>>
<1>1. /\ worker[f] = "check"
      /\ UNCHANGED <<kind, spawn, frameVars, batchVars, timerVars, sendVars>>
  BY DEF Check
<1>2. terminated[f] \in BOOLEAN /\ pending[f] \in BOOLEAN
  BY DEF SchedulersInv, TypeOK
<1>3. CASE terminated[f]
  BY <1>1, <1>3 DEF Check, Set
<1>4. CASE ~terminated[f] /\ pending[f]
  BY <1>1, <1>4 DEF Check, Set
<1>5. CASE ~terminated[f] /\ ~pending[f]
  BY <1>1, <1>5 DEF Check, Set
<1> QED
  BY <1>2, <1>3, <1>4, <1>5

\* After an event the batch ends with an exception, is over or samples when it
\* has no budget, goes on with this queue, or looks for another.
Handled(f) ==
  /\ exec[f] = "drain" /\ size[f] > 0
  /\ size' = [size EXCEPT ![f] = size[f] - 1]
  /\ done' = IF kind[f] = "timer" THEN [done EXCEPT ![f] = done[f] + 1] ELSE done
  /\ budget' = [budget EXCEPT ![f] = budget[f] - 1]
  /\ sealed' = sealed \/ sealed' = [sealed EXCEPT ![f] = TRUE]
  /\ \/ /\ exec' = [exec EXCEPT ![f] = "end"] /\ pending' = pending
        /\ thrown' = [thrown EXCEPT ![f] = TRUE]
     \/ /\ thrown' = [thrown EXCEPT ![f] = FALSE]
        /\ \/ /\ budget[f] <= 1
              /\ \/ Lagging /\ ~sampling[f] /\ exec' = [exec EXCEPT ![f] = "sample"]
                 \/ (~Lagging \/ sampling[f]) /\ exec' = [exec EXCEPT ![f] = "end"]
              /\ \/ size[f] > 1 /\ pending' = [pending EXCEPT ![f] = TRUE]
                 \/ pending' = pending
           \/ /\ budget[f] > 1 /\ size[f] > 1
              /\ exec' = exec /\ pending' = pending
           \/ /\ budget[f] > 1 /\ (size[f] = 1 \/ sealed'[f])
              /\ exec' = [exec EXCEPT ![f] = "pop"] /\ pending' = pending
  /\ UNCHANGED <<kind, spawn, active, terminated, sampling, due, worker, timerVars, sendVars>>

\* What handling an event does, whatever the handler does.
LEMMA HandleEffect ==
  ASSUME SchedulersInv, NEW f \in Frames, NEW outcome \in Outcomes, Handle(f, outcome)
  PROVE  Handled(f)
<1> DEFINE more == size[f] > 1 /\ ~sealed'[f]
<1>1. /\ size \in [Frames -> Nat] /\ budget \in [Frames -> Int]
      /\ sealed \in [Frames -> BOOLEAN] /\ pending \in [Frames -> BOOLEAN]
      /\ exec \in [Frames -> {"off", "start", "pop", "drain", "sample", "end",
                           "finally", "reactivate"}]
  BY SchedulersAssumption DEF SchedulersInv, TypeOK
<1>2. /\ exec[f] = "drain" /\ size[f] > 0
      /\ size' = [size EXCEPT ![f] = size[f] - 1]
      /\ done' = IF kind[f] = "timer" THEN [done EXCEPT ![f] = done[f] + 1] ELSE done
      /\ budget' = [budget EXCEPT ![f] = budget[f] - 1]
      /\ sealed' = [sealed EXCEPT ![f] = sealed[f] \/ outcome = "seal"]
      /\ thrown' = [thrown EXCEPT ![f] = (outcome = "throw")]
      /\ UNCHANGED <<kind, spawn, active, terminated, sampling, due, worker, timerVars, sendVars>>
  BY DEF Handle, Set, SchedulersInv, Claimed
<1>3. sealed' = sealed \/ sealed' = [sealed EXCEPT ![f] = TRUE]
  BY <1>1, <1>2
<1>4. /\ size'[f] > 0 <=> size[f] > 1
      /\ budget'[f] > 0 <=> budget[f] > 1
      /\ budget[f] > 1 \/ budget[f] <= 1
      /\ size[f] > 1 \/ size[f] = 1
  BY <1>1, <1>2
<1>5. CASE outcome = "throw"
  <2>1. exec' = [exec EXCEPT ![f] = "end"]
    BY <1>5, Zenon DEF Handle, Set
  <2>2. pending' = [pending EXCEPT ![f] = pending[f]]
    <3>1. pending[f] \in BOOLEAN
      BY <1>1
    <3>2. (pending[f] \/ FALSE) = pending[f]
      BY <3>1
    <3> QED
      BY <1>5, <3>1, <3>2 DEF Handle, Set
  <2>3. pending' = pending
    BY <1>1, <2>2
  <2>4. thrown' = [thrown EXCEPT ![f] = TRUE]
    BY <1>2, <1>5
  <2> QED
    BY <1>2, <1>3, <2>1, <2>3, <2>4 DEF Handled
<1>6. CASE outcome # "throw"
  <2>1. thrown' = [thrown EXCEPT ![f] = FALSE]
    BY <1>2, <1>6
  <2>2. CASE budget[f] <= 1
    <3>1. ~(budget'[f] > 0)
      BY <1>1, <1>4, <2>2
    <3>2. exec' = [exec EXCEPT ![f] = Over(f)]
      BY <1>6, <3>1 DEF Handle, Set, More
    <3>5. \/ Lagging /\ ~sampling[f] /\ Over(f) = "sample"
          \/ (~Lagging \/ sampling[f]) /\ Over(f) = "end"
      BY DEF Over
    <3>3. pending' = [pending EXCEPT ![f] = pending[f] \/ more]
      BY <1>4, <1>6, <3>1 DEF Handle, Set, More
    <3>4. (size[f] > 1 /\ pending' = [pending EXCEPT ![f] = TRUE]) \/ pending' = pending
      BY <1>1, <3>3
    <3> QED
      BY <1>2, <1>3, <2>1, <2>2, <3>2, <3>4, <3>5 DEF Handled
  <2>3. CASE budget[f] > 1
    <3>1. budget'[f] > 0
      BY <1>4, <2>3
    <3>2. pending' = [pending EXCEPT ![f] = pending[f] \/
                        (outcome # "throw" /\ ~(budget'[f] > 0) /\
                         (size'[f] > 0 /\ ~sealed'[f]))]
      BY DEF Handle, Set, More
    <3>3. pending' = pending
      <4>1. pending[f] \in BOOLEAN
        BY <1>1
      <4>2. (pending[f] \/ (outcome # "throw" /\ ~(budget'[f] > 0) /\
                (size'[f] > 0 /\ ~sealed'[f]))) = pending[f]
        BY <3>1, <4>1
      <4>3. pending' = [pending EXCEPT ![f] = pending[f]]
        BY <3>2, <4>2, Zenon
      <4> QED
        BY <1>1, <4>3
    <3>4. CASE more
      <4>1. exec' = [exec EXCEPT ![f] = "drain"]
        BY <1>4, <1>6, <3>1, <3>4 DEF Handle, Set, More
      <4>2. exec' = exec
        BY <1>1, <1>2, <4>1
      <4> QED
        BY <1>2, <1>3, <2>1, <2>3, <3>3, <3>4, <4>2 DEF Handled
    <3>5. CASE ~more
      <4>1. exec' = [exec EXCEPT ![f] = "pop"]
        BY <1>4, <1>6, <3>1, <3>5 DEF Handle, Set, More
      <4> QED
        BY <1>2, <1>3, <1>4, <2>1, <2>3, <3>3, <3>5, <4>1 DEF Handled
    <3> QED
      BY <3>4, <3>5
  <2> QED
    BY <1>4, <2>2, <2>3
<1> QED
  BY <1>5, <1>6

\* Timer.addFrame leaves a timer.
LEMMA InitScheduleEffect ==
  ASSUME SchedulersInv, NEW f \in Frames, InitSchedule(f)
  PROVE  /\ spawn[f] = "none" /\ spawn' = [spawn EXCEPT ![f] = "init"]
         /\ kind[f] = "timer" => frames' = frames \cup {f} /\ timer'
         /\ kind[f] # "timer" => frames' = frames /\ UNCHANGED timer
         /\ UNCHANGED <<kind, frameVars, batchVars, worker, task, ticking, sendVars>>
<1>1. CASE kind[f] # "timer"
  BY <1>1 DEF InitSchedule, Set
<1>2. CASE kind[f] = "timer" /\ timer
  BY <1>2 DEF InitSchedule, Set
<1>3. CASE kind[f] = "timer" /\ ~timer
  <2>1. frames \cup {f} = {f}
    BY <1>3 DEF SchedulersInv, TimerShape
  <2>2. Cardinality({f}) = 1
    BY FS_Singleton
  <2> QED
    BY <1>3, <2>1, <2>2 DEF InitSchedule, Set
<1> QED
  BY <1>1, <1>2, <1>3 DEF SchedulersInv, TypeOK

\* The sender registers the queue; it has to wake the worker if the frame was
\* not active.
Pended(s, f) ==
  /\ sender[s].at = "pend" /\ sender[s].to = f
  /\ size[f] > 0 /\ ~pending[f] /\ exec[f] # "drain" /\ spawn[f] \in {"open", "done"}
  /\ pending' = [pending EXCEPT ![f] = TRUE]
  /\ \/ /\ ~active[f] /\ ~terminated[f]
        /\ active' = [active EXCEPT ![f] = TRUE]
        /\ sender' = [sender EXCEPT ![s] = [at |-> "wake", to |-> f]]
     \/ /\ active[f] \/ terminated[f]
        /\ active' = active
        /\ sender' = [sender EXCEPT ![s] = Idle]
  /\ UNCHANGED <<kind, spawn, terminated, size, sealed, batchVars, worker, timerVars, sent>>

\* What the registration of a queue does, for the frame that the sender sends to.
LEMMA PendEffect ==
  ASSUME SchedulersInv, NEW s \in Senders, Pend(s)
  PROVE  \E f \in Frames : Pended(s, f)
<1> DEFINE f == sender[s].to
<1>1. /\ sender[s].at = "pend"
      /\ pending' = [pending EXCEPT ![f] = TRUE]
      /\ active' = [active EXCEPT ![f] = active[f] \/ (~active[f] /\ ~terminated[f])]
      /\ sender' = [sender EXCEPT ![s] = IF ~active[f] /\ ~terminated[f]
                                           THEN [at |-> "wake", to |-> f] ELSE Idle]
      /\ UNCHANGED <<kind, spawn, terminated, size, sealed, batchVars, worker, timerVars, sent>>
  BY DEF Pend, Set
<1>2. f \in Frames
  BY <1>1 DEF SchedulersInv, SenderShape, Idle
<1>3. size[f] > 0 /\ ~pending[f] /\ exec[f] # "drain" /\ spawn[f] \in {"open", "done"}
  <2>1. size[f] > 0 /\ ~pending[f] /\ exec[f] # "drain"
    BY <1>1 DEF SchedulersInv, Claimed
  <2>2. spawn[f] \in {"none", "init", "failed", "open", "done"}
    BY <1>2 DEF SchedulersInv, TypeOK
  <2> QED
    BY <1>2, <2>1, <2>2 DEF SchedulersInv, SpawnShape
<1>4. active \in [Frames -> BOOLEAN]
  BY DEF SchedulersInv, TypeOK
<1> HIDE DEF f
<1>5. Pended(s, f)
  <2>1. CASE ~active[f] /\ ~terminated[f]
    BY <1>1, <1>2, <1>3, <1>4, <2>1 DEF Pended, f
  <2>2. CASE active[f] \/ terminated[f]
    <3>1. active' = active
      BY <1>1, <1>2, <1>4, <2>2
    <3> QED
      BY <1>1, <1>2, <1>3, <2>2, <3>1 DEF Pended, f
  <2> QED
    BY <2>1, <2>2
<1> QED
  BY <1>2, <1>5

\* The sender schedules the frame: it wakes a worker that waits, and does
\* nothing to one that does not, nor to a timer.
Woken(s, f) ==
  /\ sender[s].at = "wake" /\ sender[s].to = f /\ spawn[f] = "done"
  /\ sender' = [sender EXCEPT ![s] = Idle]
  /\ \/ /\ kind[f] = "timer" /\ worker' = worker
        /\ task' = task \/ task' = [task EXCEPT ![f] = "set"]
     \/ /\ kind[f] # "timer" /\ task' = task /\ worker[f] # "none"
        /\ \/ worker[f] = "wait" /\ worker' = [worker EXCEPT ![f] = "check"]
           \/ worker[f] # "wait" /\ worker' = worker
  /\ UNCHANGED <<kind, spawn, frameVars, batchVars, frames, timer, ticking, sent>>

\* What the wake-up does, for the frame that the sender sends to.
LEMMA WakeEffect ==
  ASSUME SchedulersInv, NEW s \in Senders, Wake(s)
  PROVE  \E f \in Frames : Woken(s, f)
<1> DEFINE f == sender[s].to
<1>1. /\ sender[s].at = "wake" /\ Schedule(f)
      /\ sender' = [sender EXCEPT ![s] = Idle]
      /\ UNCHANGED <<kind, spawn, frameVars, batchVars, frames, timer, ticking, sent>>
  BY DEF Wake, Set
<1>2. f \in Frames /\ spawn[f] = "done"
  BY <1>1 DEF SchedulersInv, SenderShape, Idle
<1>3. kind[f] # "timer" => worker[f] # "none"
  BY <1>2 DEF SchedulersInv, SpawnShape
<1> HIDE DEF f
<1>4. Woken(s, f)
  BY <1>1, <1>2, <1>3 DEF Woken, Schedule, Set, f
<1> QED
  BY <1>2, <1>4

\* Every step keeps the types: no more events are counted or handled than were
\* sent, and none is taken from an empty queue.
LEMMA TypeStep ==
  ASSUME SchedulersInv, [Next]_vars
  PROVE  TypeOK'
<1>a. /\ kind \in [Frames -> Kinds]
      /\ spawn \in [Frames -> {"none", "init", "failed", "open", "done"}]
      /\ active \in [Frames -> BOOLEAN]
      /\ terminated \in [Frames -> BOOLEAN]
      /\ size \in [Frames -> 0..MaxSends]
      /\ pending \in [Frames -> BOOLEAN]
      /\ sealed \in [Frames -> BOOLEAN]
      /\ exec \in [Frames -> {"off", "start", "pop", "drain", "sample", "end",
                           "finally", "reactivate"}]
      /\ budget \in [Frames -> Int]
      /\ sampling \in [Frames -> BOOLEAN]
      /\ thrown \in [Frames -> BOOLEAN]
      /\ worker \in [Frames -> {"none", "run", "exec", "check", "wait", "ended"}]
      /\ task \in [Frames -> {"none", "set", "cancelled"}]
      /\ sender \in [Senders -> [at : {"idle", "pend", "wake"},
                                to : Frames \cup {None}]]
      /\ sent \in 0..MaxSends
      /\ due \in [Frames -> 0..MaxSends]
      /\ done \in [Frames -> 0..MaxSends]
      /\ ticking \in Frames \cup {None}
      /\ frames \in SUBSET Frames
      /\ timer \in BOOLEAN
  BY SchedulersAssumption DEF SchedulersInv, TypeOK
<1> USE DEF frameVars, batchVars, timerVars, sendVars, vars
<1>1. ASSUME NEW f \in Frames, InitSchedule(f) PROVE TypeOK'
  <2>1. spawn' \in [Frames -> {"none", "init", "failed", "open", "done"}]
    BY <1>1, <1>a, InitScheduleEffect
  <2>2. frames' \in SUBSET Frames
    BY <1>1, <1>a, InitScheduleEffect
  <2>3. CASE kind[f] = "timer"
    <3>1. timer' \in BOOLEAN
      BY <1>1, <2>3 DEF InitSchedule
    <3> QED
      BY <1>1, <2>1, <2>2, <3>1, InitScheduleEffect DEF SchedulersInv, TypeOK
  <2>4. CASE kind[f] # "timer"
    BY <1>1, <2>1, <2>4, InitScheduleEffect DEF SchedulersInv, TypeOK
  <2> QED
    BY <2>3, <2>4
<1>2. ASSUME NEW f \in Frames, SpawnFails(f) PROVE TypeOK'
  BY <1>2, <1>a, SchedulersAssumption
     DEF SchedulersInv, TypeOK, Counted, Claimed, SenderShape, SpawnFails, Set
<1>3. ASSUME NEW f \in Frames, Open(f) PROVE TypeOK'
  BY <1>3, <1>a, SchedulersAssumption
     DEF SchedulersInv, TypeOK, Counted, Claimed, SenderShape, Open, Set
<1>4. ASSUME NEW f \in Frames, Activate(f) PROVE TypeOK'
  BY <1>4, <1>a, SchedulersAssumption
     DEF SchedulersInv, TypeOK, Counted, Claimed, SenderShape, Activate, Set, Schedule
<1>5. ASSUME NEW f \in Frames, BatchStart(f) PROVE TypeOK'
  BY <1>5, <1>a, SchedulersAssumption
     DEF SchedulersInv, TypeOK, Counted, Claimed, SenderShape, BatchStart, Set
<1>6. ASSUME NEW f \in Frames, Pop(f) PROVE TypeOK'
  BY <1>6, <1>a, SchedulersAssumption
     DEF SchedulersInv, TypeOK, Counted, Claimed, SenderShape, Pop, Set, Over
<1>7. ASSUME NEW f \in Frames, CheckTerminated(f) PROVE TypeOK'
  BY <1>7, <1>a, SchedulersAssumption
     DEF SchedulersInv, TypeOK, Counted, Claimed, SenderShape, CheckTerminated, Set
<1>8. ASSUME NEW f \in Frames, Finally(f) PROVE TypeOK'
  BY <1>8, <1>a, SchedulersAssumption
     DEF SchedulersInv, TypeOK, Counted, Claimed, SenderShape, Finally, Set, Rescheduled
<1>9. ASSUME NEW f \in Frames, NEW outcome \in Outcomes, Handle(f, outcome)
      PROVE  TypeOK'
  BY <1>9, <1>a, SchedulersAssumption
     DEF SchedulersInv, TypeOK, Counted, Claimed, SenderShape, Handle, Set, More, Over
<1>10. ASSUME NEW f \in Frames, Loop(f) PROVE TypeOK'
  BY <1>10, <1>a, SchedulersAssumption
     DEF SchedulersInv, TypeOK, Counted, Claimed, SenderShape, Loop, Set
<1>11. ASSUME NEW f \in Frames, Check(f) PROVE TypeOK'
  BY <1>11, <1>a, SchedulersAssumption
     DEF SchedulersInv, TypeOK, Counted, Claimed, SenderShape, Check, Set
<1>12. ASSUME NEW f \in Frames, WakeSpuriously(f) PROVE TypeOK'
  BY <1>12, <1>a, SchedulersAssumption
     DEF SchedulersInv, TypeOK, Counted, Claimed, SenderShape, WakeSpuriously, Set
<1>13. ASSUME NEW f \in Frames, Tick(f) PROVE TypeOK'
  BY <1>13, <1>a, SchedulersAssumption
     DEF SchedulersInv, TypeOK, Counted, Claimed, SenderShape, Tick, Set
<1>14. ASSUME NEW f \in Frames, TickTerminated(f) PROVE TypeOK'
  BY <1>14, <1>a, SchedulersAssumption
     DEF SchedulersInv, TypeOK, Counted, Claimed, SenderShape, TickTerminated, Set,
         RemovedFrames
<1>15. ASSUME NEW f \in Frames, Reactivate(f) PROVE TypeOK'
  BY <1>15, <1>a, SchedulersAssumption
     DEF SchedulersInv, TypeOK, Counted, Claimed, SenderShape, Reactivate, Set,
         Reactivated
<1>16. ASSUME NEW s \in Senders, NEW f \in Frames, Enqueue(s, f) PROVE TypeOK'
  BY <1>16, <1>a, SchedulersAssumption
     DEF SchedulersInv, TypeOK, Counted, Claimed, SenderShape, Enqueue, Set, Idle
<1>17. ASSUME NEW s \in Senders, Pend(s) PROVE TypeOK'
  <2>1. PICK f \in Frames : Pended(s, f)
    BY <1>17, PendEffect
  <2>2. active' \in [Frames -> BOOLEAN] /\ pending' \in [Frames -> BOOLEAN]
    BY <2>1, <1>a DEF Pended
  <2>3. sender' \in [Senders -> [at : {"idle", "pend", "wake"}, to : Frames \cup {None}]]
    BY <2>1, <1>a DEF Pended, Idle
  <2> QED
    BY <2>1, <2>2, <2>3 DEF Pended, SchedulersInv, TypeOK
<1>18. ASSUME NEW s \in Senders, Wake(s) PROVE TypeOK'
  <2>1. PICK f \in Frames : Woken(s, f)
    BY <1>18, WakeEffect
  <2>2. sender' \in [Senders -> [at : {"idle", "pend", "wake"}, to : Frames \cup {None}]]
    BY <2>1, <1>a DEF Woken, Idle
  <2>3. worker' \in [Frames -> {"none", "run", "exec", "check", "wait", "ended"}]
    BY <2>1, <1>a DEF Woken
  <2>4. task' \in [Frames -> {"none", "set", "cancelled"}]
    BY <2>1, <1>a DEF Woken
  <2> QED
    BY <2>1, <2>2, <2>3, <2>4 DEF Woken, SchedulersInv, TypeOK
<1>19. CASE UNCHANGED vars
  BY <1>19
     DEF SchedulersInv, TypeOK, Counted, Claimed, SenderShape
<1>20. ASSUME NEW f \in Frames, Sample(f) PROVE TypeOK'
  BY <1>20, <1>a, SchedulersAssumption
     DEF SchedulersInv, TypeOK, Counted, Claimed, SenderShape, Sample, Set
<1> QED
  BY NextCases, <1>1, <1>2, <1>3, <1>4, <1>5, <1>6, <1>7, <1>8, <1>9, <1>10, <1>11,
     <1>12, <1>13, <1>14, <1>15, <1>16, <1>17, <1>18, <1>19, <1>20

\* Every step counts each event once.
LEMMA CountedStep ==
  ASSUME SchedulersInv, [Next]_vars
  PROVE  Counted'
<1>a. /\ size \in [Frames -> 0..MaxSends]
      /\ sent \in 0..MaxSends
      /\ done \in [Frames -> 0..MaxSends]
  BY SchedulersAssumption DEF SchedulersInv, TypeOK
<1> USE DEF frameVars, batchVars, timerVars, sendVars, vars
<1>1. ASSUME NEW f \in Frames, InitSchedule(f) PROVE Counted'
  BY <1>1, <1>a
     DEF SchedulersInv, Counted, InitSchedule, Set
<1>2. ASSUME NEW f \in Frames, SpawnFails(f) PROVE Counted'
  BY <1>2, <1>a
     DEF SchedulersInv, Counted, SpawnFails, Set
<1>3. ASSUME NEW f \in Frames, Open(f) PROVE Counted'
  BY <1>3, <1>a
     DEF SchedulersInv, Counted, Open, Set
<1>4. ASSUME NEW f \in Frames, Activate(f) PROVE Counted'
  BY <1>4, <1>a
     DEF SchedulersInv, Counted, Activate, Set, Schedule
<1>5. ASSUME NEW f \in Frames, BatchStart(f) PROVE Counted'
  BY <1>5, <1>a
     DEF SchedulersInv, Counted, BatchStart, Set
<1>6. ASSUME NEW f \in Frames, Pop(f) PROVE Counted'
  BY <1>6, <1>a
     DEF SchedulersInv, Counted, Pop, Set, Over
<1>7. ASSUME NEW f \in Frames, CheckTerminated(f) PROVE Counted'
  BY <1>7, <1>a
     DEF SchedulersInv, Counted, CheckTerminated, Set
<1>8. ASSUME NEW f \in Frames, Finally(f) PROVE Counted'
  BY <1>8, <1>a
     DEF SchedulersInv, Counted, Finally, Set, Rescheduled
<1>9. ASSUME NEW f \in Frames, NEW outcome \in Outcomes, Handle(f, outcome)
      PROVE  Counted'
  BY <1>9, <1>a
     DEF SchedulersInv, Counted, Handle, Set, More, Over
<1>10. ASSUME NEW f \in Frames, Loop(f) PROVE Counted'
  BY <1>10, <1>a
     DEF SchedulersInv, Counted, Loop, Set
<1>11. ASSUME NEW f \in Frames, Check(f) PROVE Counted'
  BY <1>11, <1>a
     DEF SchedulersInv, Counted, Check, Set
<1>12. ASSUME NEW f \in Frames, WakeSpuriously(f) PROVE Counted'
  BY <1>12, <1>a
     DEF SchedulersInv, Counted, WakeSpuriously, Set
<1>13. ASSUME NEW f \in Frames, Tick(f) PROVE Counted'
  BY <1>13, <1>a
     DEF SchedulersInv, Counted, Tick, Set
<1>14. ASSUME NEW f \in Frames, TickTerminated(f) PROVE Counted'
  BY <1>14, <1>a
     DEF SchedulersInv, Counted, TickTerminated, Set, RemovedFrames
<1>15. ASSUME NEW f \in Frames, Reactivate(f) PROVE Counted'
  BY <1>15, <1>a
     DEF SchedulersInv, Counted, Reactivate, Set, Reactivated
<1>16. ASSUME NEW s \in Senders, NEW f \in Frames, Enqueue(s, f) PROVE Counted'
  BY <1>16, <1>a
     DEF SchedulersInv, Counted, Enqueue, Set, Idle
<1>17. ASSUME NEW s \in Senders, Pend(s) PROVE Counted'
  <2>1. PICK f \in Frames : Pended(s, f)
    BY <1>17, PendEffect
  <2> QED
    BY <2>1, <1>a
       DEF Pended, Idle, SchedulersInv, Counted
<1>18. ASSUME NEW s \in Senders, Wake(s) PROVE Counted'
  <2>1. PICK f \in Frames : Woken(s, f)
    BY <1>18, WakeEffect
  <2> QED
    BY <2>1, <1>a
       DEF Woken, Idle, SchedulersInv, Counted
<1>19. CASE UNCHANGED vars
  BY <1>19
     DEF SchedulersInv, Counted
<1>20. ASSUME NEW f \in Frames, Sample(f) PROVE Counted'
  BY <1>20, <1>a
     DEF SchedulersInv, Counted, Sample, Set
<1> QED
  BY NextCases, <1>1, <1>2, <1>3, <1>4, <1>5, <1>6, <1>7, <1>8, <1>9, <1>10, <1>11,
     <1>12, <1>13, <1>14, <1>15, <1>16, <1>17, <1>18, <1>19, <1>20

\* Every step leaves a frame alone that is not spawned.
LEMMA SpawnShapeStep ==
  ASSUME SchedulersInv, [Next]_vars
  PROVE  SpawnShape'
<1>a. /\ spawn \in [Frames -> {"none", "init", "failed", "open", "done"}]
      /\ active \in [Frames -> BOOLEAN]
      /\ size \in [Frames -> 0..MaxSends]
      /\ worker \in [Frames -> {"none", "run", "exec", "check", "wait", "ended"}]
      /\ task \in [Frames -> {"none", "set", "cancelled"}]
      /\ exec \in [Frames -> {"off", "start", "pop", "drain", "sample", "end",
                           "finally", "reactivate"}]
      /\ terminated \in [Frames -> BOOLEAN]
      /\ sender \in [Senders -> [at : {"idle", "pend", "wake"},
                                to : Frames \cup {None}]]
  BY SchedulersAssumption DEF SchedulersInv, TypeOK
<1> USE DEF frameVars, batchVars, timerVars, sendVars, vars
<1>1. ASSUME NEW f \in Frames, InitSchedule(f) PROVE SpawnShape'
  BY <1>1, <1>a, SchedulersAssumption
     DEF SchedulersInv, SpawnShape, SenderShape, ExecShape, InitSchedule, Set
<1>2. ASSUME NEW f \in Frames, SpawnFails(f) PROVE SpawnShape'
  BY <1>2, <1>a, SchedulersAssumption
     DEF SchedulersInv, SpawnShape, SenderShape, ExecShape, SpawnFails, Set
<1>3. ASSUME NEW f \in Frames, Open(f) PROVE SpawnShape'
  BY <1>3, <1>a, SchedulersAssumption
     DEF SchedulersInv, SpawnShape, SenderShape, ExecShape, Open, Set
<1>4. ASSUME NEW f \in Frames, Activate(f) PROVE SpawnShape'
  BY <1>4, <1>a, SchedulersAssumption
     DEF SchedulersInv, SpawnShape, SenderShape, ExecShape, Activate, Set, Schedule
<1>5. ASSUME NEW f \in Frames, BatchStart(f) PROVE SpawnShape'
  BY <1>5, <1>a, SchedulersAssumption
     DEF SchedulersInv, SpawnShape, SenderShape, ExecShape, BatchStart, Set
<1>6. ASSUME NEW f \in Frames, Pop(f) PROVE SpawnShape'
  BY <1>6, <1>a, SchedulersAssumption
     DEF SchedulersInv, SpawnShape, SenderShape, ExecShape, Pop, Set, Over
<1>7. ASSUME NEW f \in Frames, CheckTerminated(f) PROVE SpawnShape'
  BY <1>7, <1>a, SchedulersAssumption
     DEF SchedulersInv, SpawnShape, SenderShape, ExecShape, CheckTerminated, Set
<1>8. ASSUME NEW f \in Frames, Finally(f) PROVE SpawnShape'
  BY <1>8, <1>a, SchedulersAssumption
     DEF SchedulersInv, SpawnShape, SenderShape, ExecShape, Finally, Set, Rescheduled
<1>9. ASSUME NEW f \in Frames, NEW outcome \in Outcomes, Handle(f, outcome)
      PROVE  SpawnShape'
  BY <1>9, <1>a, SchedulersAssumption
     DEF SchedulersInv, SpawnShape, SenderShape, ExecShape, Handle, Set, More, Over
<1>10. ASSUME NEW f \in Frames, Loop(f) PROVE SpawnShape'
  BY <1>10, <1>a, SchedulersAssumption
     DEF SchedulersInv, SpawnShape, SenderShape, ExecShape, Loop, Set
<1>11. ASSUME NEW f \in Frames, Check(f) PROVE SpawnShape'
  BY <1>11, <1>a, SchedulersAssumption
     DEF SchedulersInv, SpawnShape, SenderShape, ExecShape, Check, Set
<1>12. ASSUME NEW f \in Frames, WakeSpuriously(f) PROVE SpawnShape'
  BY <1>12, <1>a, SchedulersAssumption
     DEF SchedulersInv, SpawnShape, SenderShape, ExecShape, WakeSpuriously, Set
<1>13. ASSUME NEW f \in Frames, Tick(f) PROVE SpawnShape'
  BY <1>13, <1>a, SchedulersAssumption
     DEF SchedulersInv, SpawnShape, SenderShape, ExecShape, Tick, Set
<1>14. ASSUME NEW f \in Frames, TickTerminated(f) PROVE SpawnShape'
  BY <1>14, <1>a, SchedulersAssumption
     DEF SchedulersInv, SpawnShape, SenderShape, ExecShape, TickTerminated, Set,
         RemovedFrames
<1>15. ASSUME NEW f \in Frames, Reactivate(f) PROVE SpawnShape'
  BY <1>15, <1>a, SchedulersAssumption
     DEF SchedulersInv, SpawnShape, SenderShape, ExecShape, Reactivate, Set, Reactivated
<1>16. ASSUME NEW s \in Senders, NEW f \in Frames, Enqueue(s, f) PROVE SpawnShape'
  BY <1>16, <1>a, SchedulersAssumption
     DEF SchedulersInv, SpawnShape, SenderShape, ExecShape, Enqueue, Set, Idle
<1>17. ASSUME NEW s \in Senders, Pend(s) PROVE SpawnShape'
  <2>1. PICK f \in Frames : Pended(s, f)
    BY <1>17, PendEffect
  <2> QED
    BY <2>1, <1>a, SchedulersAssumption
       DEF Pended, Idle, SchedulersInv, SpawnShape, SenderShape, ExecShape
<1>18. ASSUME NEW s \in Senders, Wake(s) PROVE SpawnShape'
  <2>1. PICK f \in Frames : Woken(s, f)
    BY <1>18, WakeEffect
  <2> QED
    BY <2>1, <1>a, SchedulersAssumption
       DEF Woken, Idle, SchedulersInv, SpawnShape, SenderShape, ExecShape
<1>19. CASE UNCHANGED vars
  BY <1>19
     DEF SchedulersInv, SpawnShape, SenderShape, ExecShape
<1>20. ASSUME NEW f \in Frames, Sample(f) PROVE SpawnShape'
  BY <1>20, <1>a, SchedulersAssumption
     DEF SchedulersInv, SpawnShape, SenderShape, ExecShape, Sample, Set
<1> QED
  BY NextCases, <1>1, <1>2, <1>3, <1>4, <1>5, <1>6, <1>7, <1>8, <1>9, <1>10, <1>11,
     <1>12, <1>13, <1>14, <1>15, <1>16, <1>17, <1>18, <1>19, <1>20

\* Every step keeps what the senders have yet to do.
LEMMA SenderShapeStep ==
  ASSUME SchedulersInv, [Next]_vars
  PROVE  SenderShape'
<1>a. /\ spawn \in [Frames -> {"none", "init", "failed", "open", "done"}]
      /\ sender \in [Senders -> [at : {"idle", "pend", "wake"},
                                to : Frames \cup {None}]]
      /\ active \in [Frames -> BOOLEAN]
      /\ terminated \in [Frames -> BOOLEAN]
  BY SchedulersAssumption DEF SchedulersInv, TypeOK
<1> USE DEF frameVars, batchVars, timerVars, sendVars, vars
<1>1. ASSUME NEW f \in Frames, InitSchedule(f) PROVE SenderShape'
  BY <1>1, <1>a, SchedulersAssumption
     DEF SchedulersInv, SenderShape, SpawnShape, InitSchedule, Set
<1>2. ASSUME NEW f \in Frames, SpawnFails(f) PROVE SenderShape'
  BY <1>2, <1>a, SchedulersAssumption
     DEF SchedulersInv, SenderShape, SpawnShape, SpawnFails, Set
<1>3. ASSUME NEW f \in Frames, Open(f) PROVE SenderShape'
  BY <1>3, <1>a, SchedulersAssumption
     DEF SchedulersInv, SenderShape, SpawnShape, Open, Set
<1>4. ASSUME NEW f \in Frames, Activate(f) PROVE SenderShape'
  BY <1>4, <1>a, SchedulersAssumption
     DEF SchedulersInv, SenderShape, SpawnShape, Activate, Set, Schedule
<1>5. ASSUME NEW f \in Frames, BatchStart(f) PROVE SenderShape'
  BY <1>5, <1>a, SchedulersAssumption
     DEF SchedulersInv, SenderShape, SpawnShape, BatchStart, Set
<1>6. ASSUME NEW f \in Frames, Pop(f) PROVE SenderShape'
  BY <1>6, <1>a, SchedulersAssumption
     DEF SchedulersInv, SenderShape, SpawnShape, Pop, Set, Over
<1>7. ASSUME NEW f \in Frames, CheckTerminated(f) PROVE SenderShape'
  BY <1>7, <1>a, SchedulersAssumption
     DEF SchedulersInv, SenderShape, SpawnShape, CheckTerminated, Set
<1>8. ASSUME NEW f \in Frames, Finally(f) PROVE SenderShape'
  BY <1>8, <1>a, SchedulersAssumption
     DEF SchedulersInv, SenderShape, SpawnShape, Finally, Set, Rescheduled
<1>9. ASSUME NEW f \in Frames, NEW outcome \in Outcomes, Handle(f, outcome)
      PROVE  SenderShape'
  BY <1>9, <1>a, SchedulersAssumption
     DEF SchedulersInv, SenderShape, SpawnShape, Handle, Set, More, Over
<1>10. ASSUME NEW f \in Frames, Loop(f) PROVE SenderShape'
  BY <1>10, <1>a, SchedulersAssumption
     DEF SchedulersInv, SenderShape, SpawnShape, Loop, Set
<1>11. ASSUME NEW f \in Frames, Check(f) PROVE SenderShape'
  BY <1>11, <1>a, SchedulersAssumption
     DEF SchedulersInv, SenderShape, SpawnShape, Check, Set
<1>12. ASSUME NEW f \in Frames, WakeSpuriously(f) PROVE SenderShape'
  BY <1>12, <1>a, SchedulersAssumption
     DEF SchedulersInv, SenderShape, SpawnShape, WakeSpuriously, Set
<1>13. ASSUME NEW f \in Frames, Tick(f) PROVE SenderShape'
  BY <1>13, <1>a, SchedulersAssumption
     DEF SchedulersInv, SenderShape, SpawnShape, Tick, Set
<1>14. ASSUME NEW f \in Frames, TickTerminated(f) PROVE SenderShape'
  BY <1>14, <1>a, SchedulersAssumption
     DEF SchedulersInv, SenderShape, SpawnShape, TickTerminated, Set, RemovedFrames
<1>15. ASSUME NEW f \in Frames, Reactivate(f) PROVE SenderShape'
  BY <1>15, <1>a, SchedulersAssumption
     DEF SchedulersInv, SenderShape, SpawnShape, Reactivate, Set, Reactivated
<1>16. ASSUME NEW s \in Senders, NEW f \in Frames, Enqueue(s, f) PROVE SenderShape'
  BY <1>16, <1>a, SchedulersAssumption
     DEF SchedulersInv, SenderShape, SpawnShape, Enqueue, Set, Idle
<1>17. ASSUME NEW s \in Senders, Pend(s) PROVE SenderShape'
  <2>1. PICK f \in Frames : Pended(s, f)
    BY <1>17, PendEffect
  <2> QED
    BY <2>1, <1>a, SchedulersAssumption
       DEF Pended, Idle, SchedulersInv, SenderShape, SpawnShape
<1>18. ASSUME NEW s \in Senders, Wake(s) PROVE SenderShape'
  <2>1. PICK f \in Frames : Woken(s, f)
    BY <1>18, WakeEffect
  <2> QED
    BY <2>1, <1>a, SchedulersAssumption
       DEF Woken, Idle, SchedulersInv, SenderShape, SpawnShape
<1>19. CASE UNCHANGED vars
  BY <1>19
     DEF SchedulersInv, SenderShape, SpawnShape
<1>20. ASSUME NEW f \in Frames, Sample(f) PROVE SenderShape'
  BY <1>20, <1>a, SchedulersAssumption
     DEF SchedulersInv, SenderShape, SpawnShape, Sample, Set
<1> QED
  BY NextCases, <1>1, <1>2, <1>3, <1>4, <1>5, <1>6, <1>7, <1>8, <1>9, <1>10, <1>11,
     <1>12, <1>13, <1>14, <1>15, <1>16, <1>17, <1>18, <1>19, <1>20

\* Every step keeps a single claim on a queue, and only on a queue with an
\* event.
LEMMA ClaimedStep ==
  ASSUME SchedulersInv, [Next]_vars
  PROVE  Claimed'
<1>a. /\ size \in [Frames -> 0..MaxSends]
      /\ pending \in [Frames -> BOOLEAN]
      /\ exec \in [Frames -> {"off", "start", "pop", "drain", "sample", "end",
                           "finally", "reactivate"}]
      /\ sender \in [Senders -> [at : {"idle", "pend", "wake"},
                                to : Frames \cup {None}]]
  BY SchedulersAssumption DEF SchedulersInv, TypeOK
<1> USE DEF frameVars, batchVars, timerVars, sendVars, vars
<1>1. ASSUME NEW f \in Frames, InitSchedule(f) PROVE Claimed'
  BY <1>1, <1>a, SchedulersAssumption
     DEF SchedulersInv, Claimed, SenderShape, InitSchedule, Set
<1>2. ASSUME NEW f \in Frames, SpawnFails(f) PROVE Claimed'
  BY <1>2, <1>a, SchedulersAssumption
     DEF SchedulersInv, Claimed, SenderShape, SpawnFails, Set
<1>3. ASSUME NEW f \in Frames, Open(f) PROVE Claimed'
  BY <1>3, <1>a, SchedulersAssumption
     DEF SchedulersInv, Claimed, SenderShape, Open, Set
<1>4. ASSUME NEW f \in Frames, Activate(f) PROVE Claimed'
  BY <1>4, <1>a, SchedulersAssumption
     DEF SchedulersInv, Claimed, SenderShape, Activate, Set, Schedule
<1>5. ASSUME NEW f \in Frames, BatchStart(f) PROVE Claimed'
  BY <1>5, <1>a, SchedulersAssumption
     DEF SchedulersInv, Claimed, SenderShape, BatchStart, Set
<1>6. ASSUME NEW f \in Frames, Pop(f) PROVE Claimed'
  BY <1>6, <1>a, SchedulersAssumption
     DEF SchedulersInv, Claimed, SenderShape, Pop, Set, Over
<1>7. ASSUME NEW f \in Frames, CheckTerminated(f) PROVE Claimed'
  BY <1>7, <1>a, SchedulersAssumption
     DEF SchedulersInv, Claimed, SenderShape, CheckTerminated, Set
<1>8. ASSUME NEW f \in Frames, Finally(f) PROVE Claimed'
  <2>1. exec[f] = "finally" /\ UNCHANGED <<size, pending, sender>>
    BY <1>8 DEF Finally
  <2>2. \E l \in {"off", "reactivate"} : exec' = [exec EXCEPT ![f] = l]
    BY <1>8 DEF Finally, Set
  <2> QED
    BY <2>1, <2>2, <1>a DEF SchedulersInv, Claimed, SenderShape, Idle
<1>9. ASSUME NEW f \in Frames, NEW outcome \in Outcomes, Handle(f, outcome)
      PROVE  Claimed'
  <2>1. Handled(f)
    BY <1>9, HandleEffect
  <2>2. /\ exec[f] = "drain" /\ size[f] > 0 /\ UNCHANGED sender
        /\ size' = [size EXCEPT ![f] = size[f] - 1]
    BY <2>1 DEF Handled
  <2>3. \A r \in Senders : sender[r].at = "pend" => sender[r].to # f
    BY <2>2 DEF SchedulersInv, Claimed
  <2>4. /\ \A g \in Frames \ {f} : exec'[g] = exec[g] /\ pending'[g] = pending[g]
        /\ pending'[f] => size'[f] > 0 /\ exec'[f] # "drain"
        /\ exec'[f] = "drain" => size'[f] > 0
    BY <2>1, <1>a DEF Handled, SchedulersInv, Claimed
  <2> QED
    BY <2>2, <2>3, <2>4, <1>a DEF SchedulersInv, Claimed, SenderShape, Idle
<1>10. ASSUME NEW f \in Frames, Loop(f) PROVE Claimed'
  BY <1>10, <1>a, SchedulersAssumption
     DEF SchedulersInv, Claimed, SenderShape, Loop, Set
<1>11. ASSUME NEW f \in Frames, Check(f) PROVE Claimed'
  BY <1>11, <1>a, SchedulersAssumption
     DEF SchedulersInv, Claimed, SenderShape, Check, Set
<1>12. ASSUME NEW f \in Frames, WakeSpuriously(f) PROVE Claimed'
  BY <1>12, <1>a, SchedulersAssumption
     DEF SchedulersInv, Claimed, SenderShape, WakeSpuriously, Set
<1>13. ASSUME NEW f \in Frames, Tick(f) PROVE Claimed'
  BY <1>13, <1>a, SchedulersAssumption
     DEF SchedulersInv, Claimed, SenderShape, Tick, Set
<1>14. ASSUME NEW f \in Frames, TickTerminated(f) PROVE Claimed'
  BY <1>14, <1>a, SchedulersAssumption
     DEF SchedulersInv, Claimed, SenderShape, TickTerminated, Set, RemovedFrames
<1>15. ASSUME NEW f \in Frames, Reactivate(f) PROVE Claimed'
  BY <1>15, <1>a, SchedulersAssumption
     DEF SchedulersInv, Claimed, SenderShape, Reactivate, Set, Reactivated
<1>16. ASSUME NEW s \in Senders, NEW f \in Frames, Enqueue(s, f) PROVE Claimed'
  BY <1>16, <1>a, SchedulersAssumption
     DEF SchedulersInv, Claimed, SenderShape, Enqueue, Set, Idle
<1>17. ASSUME NEW s \in Senders, Pend(s) PROVE Claimed'
  <2>1. PICK f \in Frames : Pended(s, f)
    BY <1>17, PendEffect
  <2> QED
    BY <2>1, <1>a, SchedulersAssumption
       DEF Pended, Idle, SchedulersInv, Claimed, SenderShape
<1>18. ASSUME NEW s \in Senders, Wake(s) PROVE Claimed'
  <2>1. PICK f \in Frames : Woken(s, f)
    BY <1>18, WakeEffect
  <2> QED
    BY <2>1, <1>a, SchedulersAssumption
       DEF Woken, Idle, SchedulersInv, Claimed, SenderShape
<1>19. CASE UNCHANGED vars
  BY <1>19
     DEF SchedulersInv, Claimed, SenderShape
<1>20. ASSUME NEW f \in Frames, Sample(f) PROVE Claimed'
  <2>1. exec[f] = "sample" /\ UNCHANGED <<size, sender>>
    BY <1>20 DEF Sample
  <2>2. CASE pending[f]
    <3>1. \A r \in Senders : sender[r].at = "pend" => sender[r].to # f
      BY <2>2 DEF SchedulersInv, Claimed
    <3>2. /\ \A g \in Frames \ {f} : exec'[g] = exec[g] /\ pending'[g] = pending[g]
          /\ pending'[f] => exec'[f] # "drain"
          /\ size[f] > 0
      BY <1>20, <2>2, <1>a DEF Sample, Set, SchedulersInv, Claimed
    <3> QED
      BY <2>1, <3>1, <3>2, <1>a DEF SchedulersInv, Claimed, SenderShape, Idle
  <2>3. CASE ~pending[f]
    <3>1. exec' = [exec EXCEPT ![f] = "end"] /\ pending' = pending
      BY <1>20, <2>3 DEF Sample, Set
    <3> QED
      BY <2>1, <3>1, <1>a DEF SchedulersInv, Claimed, SenderShape, Idle
  <2> QED
    BY <2>2, <2>3
<1> QED
  BY NextCases, <1>1, <1>2, <1>3, <1>4, <1>5, <1>6, <1>7, <1>8, <1>9, <1>10, <1>11,
     <1>12, <1>13, <1>14, <1>15, <1>16, <1>17, <1>18, <1>19, <1>20

\* Every step keeps the batch with the thread of the frame.
LEMMA ExecShapeStep ==
  ASSUME SchedulersInv, [Next]_vars
  PROVE  ExecShape'
<1>a. /\ kind \in [Frames -> Kinds]
      /\ spawn \in [Frames -> {"none", "init", "failed", "open", "done"}]
      /\ worker \in [Frames -> {"none", "run", "exec", "check", "wait", "ended"}]
      /\ task \in [Frames -> {"none", "set", "cancelled"}]
      /\ exec \in [Frames -> {"off", "start", "pop", "drain", "sample", "end",
                           "finally", "reactivate"}]
      /\ terminated \in [Frames -> BOOLEAN]
      /\ ticking \in Frames \cup {None}
      /\ thrown \in [Frames -> BOOLEAN]
      /\ sender \in [Senders -> [at : {"idle", "pend", "wake"},
                                to : Frames \cup {None}]]
  BY SchedulersAssumption DEF SchedulersInv, TypeOK
<1> USE DEF frameVars, batchVars, timerVars, sendVars, vars
<1>1. ASSUME NEW f \in Frames, InitSchedule(f) PROVE ExecShape'
  BY <1>1, <1>a, SchedulersAssumption
     DEF SchedulersInv, ExecShape, SpawnShape, SenderShape, InitSchedule, Set
<1>2. ASSUME NEW f \in Frames, SpawnFails(f) PROVE ExecShape'
  BY <1>2, <1>a, SchedulersAssumption
     DEF SchedulersInv, ExecShape, SpawnShape, SenderShape, SpawnFails, Set
<1>3. ASSUME NEW f \in Frames, Open(f) PROVE ExecShape'
  BY <1>3, <1>a, SchedulersAssumption
     DEF SchedulersInv, ExecShape, SpawnShape, SenderShape, Open, Set
<1>4. ASSUME NEW f \in Frames, Activate(f) PROVE ExecShape'
  BY <1>4, <1>a, SchedulersAssumption
     DEF SchedulersInv, ExecShape, SpawnShape, SenderShape, Activate, Set, Schedule
<1>5. ASSUME NEW f \in Frames, BatchStart(f) PROVE ExecShape'
  BY <1>5, <1>a, SchedulersAssumption
     DEF SchedulersInv, ExecShape, SpawnShape, SenderShape, BatchStart, Set
<1>6. ASSUME NEW f \in Frames, Pop(f) PROVE ExecShape'
  BY <1>6, <1>a, SchedulersAssumption
     DEF SchedulersInv, ExecShape, SpawnShape, SenderShape, Pop, Set, Over
<1>7. ASSUME NEW f \in Frames, CheckTerminated(f) PROVE ExecShape'
  BY <1>7, <1>a, SchedulersAssumption
     DEF SchedulersInv, ExecShape, SpawnShape, SenderShape, CheckTerminated, Set
<1>8. ASSUME NEW f \in Frames, Finally(f) PROVE ExecShape'
  BY <1>8, <1>a, SchedulersAssumption
     DEF SchedulersInv, ExecShape, SpawnShape, SenderShape, Finally, Set, Rescheduled
<1>9. ASSUME NEW f \in Frames, NEW outcome \in Outcomes, Handle(f, outcome)
      PROVE  ExecShape'
  BY <1>9, HandleEffect, <1>a, SchedulersAssumption
     DEF Handled, SchedulersInv, ExecShape, SpawnShape, SenderShape
<1>10. ASSUME NEW f \in Frames, Loop(f) PROVE ExecShape'
  BY <1>10, <1>a, SchedulersAssumption
     DEF SchedulersInv, ExecShape, SpawnShape, SenderShape, Loop, Set
<1>11. ASSUME NEW f \in Frames, Check(f) PROVE ExecShape'
  BY <1>11, CheckEffect, <1>a, SchedulersAssumption
     DEF SchedulersInv, ExecShape, SpawnShape, SenderShape
<1>12. ASSUME NEW f \in Frames, WakeSpuriously(f) PROVE ExecShape'
  BY <1>12, <1>a, SchedulersAssumption
     DEF SchedulersInv, ExecShape, SpawnShape, SenderShape, WakeSpuriously, Set
<1>13. ASSUME NEW f \in Frames, Tick(f) PROVE ExecShape'
  BY <1>13, <1>a, SchedulersAssumption
     DEF SchedulersInv, ExecShape, SpawnShape, SenderShape, Tick, Set
<1>14. ASSUME NEW f \in Frames, TickTerminated(f) PROVE ExecShape'
  BY <1>14, <1>a, SchedulersAssumption
     DEF SchedulersInv, ExecShape, SpawnShape, SenderShape, TickTerminated, Set,
         RemovedFrames
<1>15. ASSUME NEW f \in Frames, Reactivate(f) PROVE ExecShape'
  BY <1>15, <1>a, SchedulersAssumption
     DEF SchedulersInv, ExecShape, SpawnShape, SenderShape, Reactivate, Set, Reactivated
<1>16. ASSUME NEW s \in Senders, NEW f \in Frames, Enqueue(s, f) PROVE ExecShape'
  BY <1>16, <1>a, SchedulersAssumption
     DEF SchedulersInv, ExecShape, SpawnShape, SenderShape, Enqueue, Set, Idle
<1>17. ASSUME NEW s \in Senders, Pend(s) PROVE ExecShape'
  <2>1. PICK f \in Frames : Pended(s, f)
    BY <1>17, PendEffect
  <2> QED
    BY <2>1, <1>a, SchedulersAssumption
       DEF Pended, Idle, SchedulersInv, ExecShape, SpawnShape, SenderShape
<1>18. ASSUME NEW s \in Senders, Wake(s) PROVE ExecShape'
  <2>1. PICK f \in Frames : Woken(s, f)
    BY <1>18, WakeEffect
  <2> QED
    BY <2>1, <1>a, SchedulersAssumption
       DEF Woken, Idle, SchedulersInv, ExecShape, SpawnShape, SenderShape
<1>19. CASE UNCHANGED vars
  BY <1>19
     DEF SchedulersInv, ExecShape, SpawnShape, SenderShape
<1>20. ASSUME NEW f \in Frames, Sample(f) PROVE ExecShape'
  BY <1>20, <1>a, SchedulersAssumption
     DEF SchedulersInv, ExecShape, SpawnShape, SenderShape, Sample, Set
<1> QED
  BY NextCases, <1>1, <1>2, <1>3, <1>4, <1>5, <1>6, <1>7, <1>8, <1>9, <1>10, <1>11,
     <1>12, <1>13, <1>14, <1>15, <1>16, <1>17, <1>18, <1>19, <1>20

\* Every step keeps what active stands for.
LEMMA ActiveShapeStep ==
  ASSUME SchedulersInv, [Next]_vars
  PROVE  ActiveShape'
<1>a. /\ kind \in [Frames -> Kinds]
      /\ spawn \in [Frames -> {"none", "init", "failed", "open", "done"}]
      /\ active \in [Frames -> BOOLEAN]
      /\ pending \in [Frames -> BOOLEAN]
      /\ worker \in [Frames -> {"none", "run", "exec", "check", "wait", "ended"}]
      /\ task \in [Frames -> {"none", "set", "cancelled"}]
      /\ exec \in [Frames -> {"off", "start", "pop", "drain", "sample", "end",
                           "finally", "reactivate"}]
      /\ terminated \in [Frames -> BOOLEAN]
      /\ thrown \in [Frames -> BOOLEAN]
      /\ sender \in [Senders -> [at : {"idle", "pend", "wake"},
                                to : Frames \cup {None}]]
  BY SchedulersAssumption DEF SchedulersInv, TypeOK
<1> USE DEF frameVars, batchVars, timerVars, sendVars, vars
<1>1. ASSUME NEW f \in Frames, InitSchedule(f) PROVE ActiveShape'
  BY <1>1, <1>a, SchedulersAssumption
     DEF SchedulersInv, ActiveShape, ExecShape, SpawnShape, SenderShape, InitSchedule,
         Set
<1>2. ASSUME NEW f \in Frames, SpawnFails(f) PROVE ActiveShape'
  BY <1>2, <1>a, SchedulersAssumption
     DEF SchedulersInv, ActiveShape, ExecShape, SpawnShape, SenderShape, SpawnFails, Set
<1>3. ASSUME NEW f \in Frames, Open(f) PROVE ActiveShape'
  BY <1>3, <1>a, SchedulersAssumption
     DEF SchedulersInv, ActiveShape, ExecShape, SpawnShape, SenderShape, Open, Set
<1>4. ASSUME NEW f \in Frames, Activate(f) PROVE ActiveShape'
  BY <1>4, <1>a, SchedulersAssumption
     DEF SchedulersInv, ActiveShape, ExecShape, SpawnShape, SenderShape, Activate, Set,
         Schedule
<1>5. ASSUME NEW f \in Frames, BatchStart(f) PROVE ActiveShape'
  BY <1>5, <1>a, SchedulersAssumption
     DEF SchedulersInv, ActiveShape, ExecShape, SpawnShape, SenderShape, BatchStart, Set
<1>6. ASSUME NEW f \in Frames, Pop(f) PROVE ActiveShape'
  BY <1>6, <1>a, SchedulersAssumption
     DEF SchedulersInv, ActiveShape, ExecShape, SpawnShape, SenderShape, Pop, Set, Over
<1>7. ASSUME NEW f \in Frames, CheckTerminated(f) PROVE ActiveShape'
  BY <1>7, <1>a, SchedulersAssumption
     DEF SchedulersInv, ActiveShape, ExecShape, SpawnShape, SenderShape,
         CheckTerminated, Set
<1>8. ASSUME NEW f \in Frames, Finally(f) PROVE ActiveShape'
  BY <1>8, <1>a, SchedulersAssumption
     DEF SchedulersInv, ActiveShape, ExecShape, SpawnShape, SenderShape, Finally, Set,
         Rescheduled
<1>9. ASSUME NEW f \in Frames, NEW outcome \in Outcomes, Handle(f, outcome)
      PROVE  ActiveShape'
  BY <1>9, <1>a, SchedulersAssumption
     DEF SchedulersInv, ActiveShape, ExecShape, SpawnShape, SenderShape, Handle, Set,
         More, Over
<1>10. ASSUME NEW f \in Frames, Loop(f) PROVE ActiveShape'
  BY <1>10, <1>a, SchedulersAssumption
     DEF SchedulersInv, ActiveShape, ExecShape, SpawnShape, SenderShape, Loop, Set
<1>11. ASSUME NEW f \in Frames, Check(f) PROVE ActiveShape'
  BY <1>11, CheckEffect, <1>a, SchedulersAssumption
     DEF SchedulersInv, ActiveShape, ExecShape, SpawnShape, SenderShape
<1>12. ASSUME NEW f \in Frames, WakeSpuriously(f) PROVE ActiveShape'
  BY <1>12, <1>a, SchedulersAssumption
     DEF SchedulersInv, ActiveShape, ExecShape, SpawnShape, SenderShape, WakeSpuriously,
         Set
<1>13. ASSUME NEW f \in Frames, Tick(f) PROVE ActiveShape'
  BY <1>13, <1>a, SchedulersAssumption
     DEF SchedulersInv, ActiveShape, ExecShape, SpawnShape, SenderShape, Tick, Set
<1>14. ASSUME NEW f \in Frames, TickTerminated(f) PROVE ActiveShape'
  BY <1>14, <1>a, SchedulersAssumption
     DEF SchedulersInv, ActiveShape, ExecShape, SpawnShape, SenderShape, TickTerminated,
         Set, RemovedFrames
<1>15. ASSUME NEW f \in Frames, Reactivate(f) PROVE ActiveShape'
  BY <1>15, <1>a, SchedulersAssumption
     DEF SchedulersInv, ActiveShape, ExecShape, SpawnShape, SenderShape, Reactivate,
         Set, Reactivated
<1>16. ASSUME NEW s \in Senders, NEW f \in Frames, Enqueue(s, f) PROVE ActiveShape'
  BY <1>16, <1>a, SchedulersAssumption
     DEF SchedulersInv, ActiveShape, ExecShape, SpawnShape, SenderShape, Enqueue, Set,
         Idle
<1>17. ASSUME NEW s \in Senders, Pend(s) PROVE ActiveShape'
  <2>1. PICK f \in Frames : Pended(s, f)
    BY <1>17, PendEffect
  <2> QED
    BY <2>1, <1>a, SchedulersAssumption
       DEF Pended, Idle, SchedulersInv, ActiveShape, ExecShape, SpawnShape, SenderShape
<1>18. ASSUME NEW s \in Senders, Wake(s) PROVE ActiveShape'
  <2>1. PICK f \in Frames : Woken(s, f)
    BY <1>18, WakeEffect
  <2> QED
    BY <2>1, <1>a, SchedulersAssumption
       DEF Woken, Idle, SchedulersInv, ActiveShape, ExecShape, SpawnShape, SenderShape
<1>19. CASE UNCHANGED vars
  BY <1>19
     DEF SchedulersInv, ActiveShape, ExecShape, SpawnShape, SenderShape
<1>20. ASSUME NEW f \in Frames, Sample(f) PROVE ActiveShape'
  BY <1>20, <1>a, SchedulersAssumption
     DEF SchedulersInv, ActiveShape, ExecShape, SpawnShape, SenderShape, Sample, Set
<1> QED
  BY NextCases, <1>1, <1>2, <1>3, <1>4, <1>5, <1>6, <1>7, <1>8, <1>9, <1>10, <1>11,
     <1>12, <1>13, <1>14, <1>15, <1>16, <1>17, <1>18, <1>19, <1>20

\* Every step keeps the timer with its frames.
LEMMA TimerShapeStep ==
  ASSUME SchedulersInv, [Next]_vars
  PROVE  TimerShape'
<1>a. /\ timer \in BOOLEAN
      /\ frames \in SUBSET Frames
  BY SchedulersAssumption DEF SchedulersInv, TypeOK
<1> USE DEF frameVars, batchVars, timerVars, sendVars, vars
<1>1. ASSUME NEW f \in Frames, InitSchedule(f) PROVE TimerShape'
  BY <1>1, InitScheduleEffect, <1>a
     DEF SchedulersInv, TimerShape
<1>2. ASSUME NEW f \in Frames, SpawnFails(f) PROVE TimerShape'
  BY <1>2, <1>a
     DEF SchedulersInv, TimerShape, SpawnFails, Set
<1>3. ASSUME NEW f \in Frames, Open(f) PROVE TimerShape'
  BY <1>3, <1>a
     DEF SchedulersInv, TimerShape, Open, Set
<1>4. ASSUME NEW f \in Frames, Activate(f) PROVE TimerShape'
  BY <1>4, <1>a
     DEF SchedulersInv, TimerShape, Activate, Set, Schedule
<1>5. ASSUME NEW f \in Frames, BatchStart(f) PROVE TimerShape'
  BY <1>5, <1>a
     DEF SchedulersInv, TimerShape, BatchStart, Set
<1>6. ASSUME NEW f \in Frames, Pop(f) PROVE TimerShape'
  BY <1>6, <1>a
     DEF SchedulersInv, TimerShape, Pop, Set, Over
<1>7. ASSUME NEW f \in Frames, CheckTerminated(f) PROVE TimerShape'
  BY <1>7, <1>a
     DEF SchedulersInv, TimerShape, CheckTerminated, Set
<1>8. ASSUME NEW f \in Frames, Finally(f) PROVE TimerShape'
  BY <1>8, <1>a
     DEF SchedulersInv, TimerShape, Finally, Set, Rescheduled
<1>9. ASSUME NEW f \in Frames, NEW outcome \in Outcomes, Handle(f, outcome)
      PROVE  TimerShape'
  BY <1>9, <1>a
     DEF SchedulersInv, TimerShape, Handle, Set, More, Over
<1>10. ASSUME NEW f \in Frames, Loop(f) PROVE TimerShape'
  BY <1>10, <1>a
     DEF SchedulersInv, TimerShape, Loop, Set
<1>11. ASSUME NEW f \in Frames, Check(f) PROVE TimerShape'
  BY <1>11, <1>a
     DEF SchedulersInv, TimerShape, Check, Set
<1>12. ASSUME NEW f \in Frames, WakeSpuriously(f) PROVE TimerShape'
  BY <1>12, <1>a
     DEF SchedulersInv, TimerShape, WakeSpuriously, Set
<1>13. ASSUME NEW f \in Frames, Tick(f) PROVE TimerShape'
  BY <1>13, <1>a
     DEF SchedulersInv, TimerShape, Tick, Set
<1>14. ASSUME NEW f \in Frames, TickTerminated(f) PROVE TimerShape'
  BY <1>14, <1>a
     DEF SchedulersInv, TimerShape, TickTerminated, Set, RemovedFrames
<1>15. ASSUME NEW f \in Frames, Reactivate(f) PROVE TimerShape'
  BY <1>15, <1>a
     DEF SchedulersInv, TimerShape, Reactivate, Set, Reactivated
<1>16. ASSUME NEW s \in Senders, NEW f \in Frames, Enqueue(s, f) PROVE TimerShape'
  BY <1>16, <1>a
     DEF SchedulersInv, TimerShape, Enqueue, Set, Idle
<1>17. ASSUME NEW s \in Senders, Pend(s) PROVE TimerShape'
  <2>1. PICK f \in Frames : Pended(s, f)
    BY <1>17, PendEffect
  <2> QED
    BY <2>1, <1>a
       DEF Pended, Idle, SchedulersInv, TimerShape
<1>18. ASSUME NEW s \in Senders, Wake(s) PROVE TimerShape'
  <2>1. PICK f \in Frames : Woken(s, f)
    BY <1>18, WakeEffect
  <2> QED
    BY <2>1, <1>a
       DEF Woken, Idle, SchedulersInv, TimerShape
<1>19. CASE UNCHANGED vars
  BY <1>19
     DEF SchedulersInv, TimerShape
<1>20. ASSUME NEW f \in Frames, Sample(f) PROVE TimerShape'
  BY <1>20, <1>a
     DEF SchedulersInv, TimerShape, Sample, Set
<1> QED
  BY NextCases, <1>1, <1>2, <1>3, <1>4, <1>5, <1>6, <1>7, <1>8, <1>9, <1>10, <1>11,
     <1>12, <1>13, <1>14, <1>15, <1>16, <1>17, <1>18, <1>19, <1>20

\* Every step keeps the count of a timer's batch.
LEMMA BatchCountStep ==
  ASSUME SchedulersInv, [Next]_vars
  PROVE  BatchCount'
<1>a. /\ kind \in [Frames -> Kinds]
      /\ size \in [Frames -> 0..MaxSends]
      /\ pending \in [Frames -> BOOLEAN]
      /\ sealed \in [Frames -> BOOLEAN]
      /\ exec \in [Frames -> {"off", "start", "pop", "drain", "sample", "end",
                           "finally", "reactivate"}]
      /\ budget \in [Frames -> Int]
      /\ sampling \in [Frames -> BOOLEAN]
      /\ due \in [Frames -> 0..MaxSends]
      /\ done \in [Frames -> 0..MaxSends]
  BY SchedulersAssumption DEF SchedulersInv, TypeOK
<1> USE DEF frameVars, batchVars, timerVars, sendVars, vars
<1>1. ASSUME NEW f \in Frames, InitSchedule(f) PROVE BatchCount'
  BY <1>1, <1>a
     DEF SchedulersInv, BatchCount, Claimed, ExecShape, InitSchedule, Set
<1>2. ASSUME NEW f \in Frames, SpawnFails(f) PROVE BatchCount'
  BY <1>2, <1>a
     DEF SchedulersInv, BatchCount, Claimed, ExecShape, SpawnFails, Set
<1>3. ASSUME NEW f \in Frames, Open(f) PROVE BatchCount'
  BY <1>3, <1>a
     DEF SchedulersInv, BatchCount, Claimed, ExecShape, Open, Set
<1>4. ASSUME NEW f \in Frames, Activate(f) PROVE BatchCount'
  BY <1>4, <1>a
     DEF SchedulersInv, BatchCount, Claimed, ExecShape, Activate, Set, Schedule
<1>5. ASSUME NEW f \in Frames, BatchStart(f) PROVE BatchCount'
  BY <1>5, <1>a
     DEF SchedulersInv, BatchCount, Claimed, ExecShape, BatchStart, Set
<1>6. ASSUME NEW f \in Frames, Pop(f) PROVE BatchCount'
  BY <1>6, <1>a
     DEF SchedulersInv, BatchCount, Claimed, ExecShape, Pop, Set, Over
<1>7. ASSUME NEW f \in Frames, CheckTerminated(f) PROVE BatchCount'
  BY <1>7, <1>a
     DEF SchedulersInv, BatchCount, Claimed, ExecShape, CheckTerminated, Set
<1>8. ASSUME NEW f \in Frames, Finally(f) PROVE BatchCount'
  BY <1>8, <1>a
     DEF SchedulersInv, BatchCount, Claimed, ExecShape, Finally, Set, Rescheduled
<1>9. ASSUME NEW f \in Frames, NEW outcome \in Outcomes, Handle(f, outcome)
      PROVE  BatchCount'
  BY <1>9, HandleEffect, <1>a
     DEF Handled, SchedulersInv, BatchCount, Claimed, ExecShape
<1>10. ASSUME NEW f \in Frames, Loop(f) PROVE BatchCount'
  BY <1>10, <1>a
     DEF SchedulersInv, BatchCount, Claimed, ExecShape, Loop, Set
<1>11. ASSUME NEW f \in Frames, Check(f) PROVE BatchCount'
  BY <1>11, <1>a
     DEF SchedulersInv, BatchCount, Claimed, ExecShape, Check, Set
<1>12. ASSUME NEW f \in Frames, WakeSpuriously(f) PROVE BatchCount'
  BY <1>12, <1>a
     DEF SchedulersInv, BatchCount, Claimed, ExecShape, WakeSpuriously, Set
<1>13. ASSUME NEW f \in Frames, Tick(f) PROVE BatchCount'
  BY <1>13, <1>a
     DEF SchedulersInv, BatchCount, Claimed, ExecShape, Tick, Set
<1>14. ASSUME NEW f \in Frames, TickTerminated(f) PROVE BatchCount'
  BY <1>14, <1>a
     DEF SchedulersInv, BatchCount, Claimed, ExecShape, TickTerminated, Set,
         RemovedFrames
<1>15. ASSUME NEW f \in Frames, Reactivate(f) PROVE BatchCount'
  BY <1>15, <1>a
     DEF SchedulersInv, BatchCount, Claimed, ExecShape, Reactivate, Set, Reactivated
<1>16. ASSUME NEW s \in Senders, NEW f \in Frames, Enqueue(s, f) PROVE BatchCount'
  BY <1>16, <1>a
     DEF SchedulersInv, BatchCount, Claimed, ExecShape, Enqueue, Set, Idle
<1>17. ASSUME NEW s \in Senders, Pend(s) PROVE BatchCount'
  <2>1. PICK f \in Frames : Pended(s, f)
    BY <1>17, PendEffect
  <2> QED
    BY <2>1, <1>a
       DEF Pended, Idle, SchedulersInv, BatchCount, Claimed, ExecShape
<1>18. ASSUME NEW s \in Senders, Wake(s) PROVE BatchCount'
  <2>1. PICK f \in Frames : Woken(s, f)
    BY <1>18, WakeEffect
  <2> QED
    BY <2>1, <1>a
       DEF Woken, Idle, SchedulersInv, BatchCount, Claimed, ExecShape
<1>19. CASE UNCHANGED vars
  BY <1>19
     DEF SchedulersInv, BatchCount, Claimed, ExecShape
<1>20. ASSUME NEW f \in Frames, Sample(f) PROVE BatchCount'
  BY <1>20, <1>a
     DEF SchedulersInv, BatchCount, Claimed, ExecShape, Sample, Set
<1> QED
  BY NextCases, <1>1, <1>2, <1>3, <1>4, <1>5, <1>6, <1>7, <1>8, <1>9, <1>10, <1>11,
     <1>12, <1>13, <1>14, <1>15, <1>16, <1>17, <1>18, <1>19, <1>20

\* Every step that begins a batch finds the frame active.
LEMMA RunsActiveStep ==
  ASSUME SchedulersInv, [Next]_vars
  PROVE  RunsActive'
<1>a. /\ kind \in [Frames -> Kinds]
      /\ active \in [Frames -> BOOLEAN]
      /\ exec \in [Frames -> {"off", "start", "pop", "drain", "sample", "end",
                           "finally", "reactivate"}]
      /\ terminated \in [Frames -> BOOLEAN]
      /\ task \in [Frames -> {"none", "set", "cancelled"}]
      /\ ticking \in Frames \cup {None}
  BY SchedulersAssumption DEF SchedulersInv, TypeOK
<1> USE DEF frameVars, batchVars, timerVars, sendVars, vars
<1>1. ASSUME NEW f \in Frames, InitSchedule(f) PROVE RunsActive'
  BY <1>1, <1>a, SchedulersAssumption
     DEF SchedulersInv, RunsActive, ActiveShape, ExecShape, SpawnShape, InitSchedule,
         Set
<1>2. ASSUME NEW f \in Frames, SpawnFails(f) PROVE RunsActive'
  BY <1>2, <1>a, SchedulersAssumption
     DEF SchedulersInv, RunsActive, ActiveShape, ExecShape, SpawnShape, SpawnFails, Set
<1>3. ASSUME NEW f \in Frames, Open(f) PROVE RunsActive'
  BY <1>3, <1>a, SchedulersAssumption
     DEF SchedulersInv, RunsActive, ActiveShape, ExecShape, SpawnShape, Open, Set
<1>4. ASSUME NEW f \in Frames, Activate(f) PROVE RunsActive'
  BY <1>4, <1>a, SchedulersAssumption
     DEF SchedulersInv, RunsActive, ActiveShape, ExecShape, SpawnShape, Activate, Set,
         Schedule
<1>5. ASSUME NEW f \in Frames, BatchStart(f) PROVE RunsActive'
  BY <1>5, <1>a, SchedulersAssumption
     DEF SchedulersInv, RunsActive, ActiveShape, ExecShape, SpawnShape, BatchStart, Set
<1>6. ASSUME NEW f \in Frames, Pop(f) PROVE RunsActive'
  BY <1>6, <1>a, SchedulersAssumption
     DEF SchedulersInv, RunsActive, ActiveShape, ExecShape, SpawnShape, Pop, Set, Over
<1>7. ASSUME NEW f \in Frames, CheckTerminated(f) PROVE RunsActive'
  BY <1>7, <1>a, SchedulersAssumption
     DEF SchedulersInv, RunsActive, ActiveShape, ExecShape, SpawnShape, CheckTerminated,
         Set
<1>8. ASSUME NEW f \in Frames, Finally(f) PROVE RunsActive'
  BY <1>8, <1>a, SchedulersAssumption
     DEF SchedulersInv, RunsActive, ActiveShape, ExecShape, SpawnShape, Finally, Set,
         Rescheduled
<1>9. ASSUME NEW f \in Frames, NEW outcome \in Outcomes, Handle(f, outcome)
      PROVE  RunsActive'
  BY <1>9, <1>a, SchedulersAssumption
     DEF SchedulersInv, RunsActive, ActiveShape, ExecShape, SpawnShape, Handle, Set,
         More, Over
<1>10. ASSUME NEW f \in Frames, Loop(f) PROVE RunsActive'
  BY <1>10, <1>a, SchedulersAssumption
     DEF SchedulersInv, RunsActive, ActiveShape, ExecShape, SpawnShape, Loop, Set
<1>11. ASSUME NEW f \in Frames, Check(f) PROVE RunsActive'
  BY <1>11, <1>a, SchedulersAssumption
     DEF SchedulersInv, RunsActive, ActiveShape, ExecShape, SpawnShape, Check, Set
<1>12. ASSUME NEW f \in Frames, WakeSpuriously(f) PROVE RunsActive'
  BY <1>12, <1>a, SchedulersAssumption
     DEF SchedulersInv, RunsActive, ActiveShape, ExecShape, SpawnShape, WakeSpuriously,
         Set
<1>13. ASSUME NEW f \in Frames, Tick(f) PROVE RunsActive'
  BY <1>13, <1>a, SchedulersAssumption
     DEF SchedulersInv, RunsActive, ActiveShape, ExecShape, SpawnShape, Tick, Set
<1>14. ASSUME NEW f \in Frames, TickTerminated(f) PROVE RunsActive'
  BY <1>14, <1>a, SchedulersAssumption
     DEF SchedulersInv, RunsActive, ActiveShape, ExecShape, SpawnShape, TickTerminated,
         Set, RemovedFrames
<1>15. ASSUME NEW f \in Frames, Reactivate(f) PROVE RunsActive'
  BY <1>15, <1>a, SchedulersAssumption
     DEF SchedulersInv, RunsActive, ActiveShape, ExecShape, SpawnShape, Reactivate, Set,
         Reactivated
<1>16. ASSUME NEW s \in Senders, NEW f \in Frames, Enqueue(s, f) PROVE RunsActive'
  BY <1>16, <1>a, SchedulersAssumption
     DEF SchedulersInv, RunsActive, ActiveShape, ExecShape, SpawnShape, Enqueue, Set,
         Idle
<1>17. ASSUME NEW s \in Senders, Pend(s) PROVE RunsActive'
  <2>1. PICK f \in Frames : Pended(s, f)
    BY <1>17, PendEffect
  <2> QED
    BY <2>1, <1>a, SchedulersAssumption
       DEF Pended, Idle, SchedulersInv, RunsActive, ActiveShape, ExecShape, SpawnShape
<1>18. ASSUME NEW s \in Senders, Wake(s) PROVE RunsActive'
  <2>1. PICK f \in Frames : Woken(s, f)
    BY <1>18, WakeEffect
  <2> QED
    BY <2>1, <1>a, SchedulersAssumption
       DEF Woken, Idle, SchedulersInv, RunsActive, ActiveShape, ExecShape, SpawnShape
<1>19. CASE UNCHANGED vars
  BY <1>19
     DEF SchedulersInv, RunsActive, ActiveShape, ExecShape, SpawnShape
<1>20. ASSUME NEW f \in Frames, Sample(f) PROVE RunsActive'
  BY <1>20, <1>a, SchedulersAssumption
     DEF SchedulersInv, RunsActive, ActiveShape, ExecShape, SpawnShape, Sample, Set
<1> QED
  BY NextCases, <1>1, <1>2, <1>3, <1>4, <1>5, <1>6, <1>7, <1>8, <1>9, <1>10, <1>11,
     <1>12, <1>13, <1>14, <1>15, <1>16, <1>17, <1>18, <1>19, <1>20

\* Every step that leaves a sleeping worker with a pending queue leaves a
\* sender about to wake it.
LEMMA NoLostWakeupStep ==
  ASSUME SchedulersInv, [Next]_vars
  PROVE  NoLostWakeup'
<1>a. /\ active \in [Frames -> BOOLEAN]
      /\ pending \in [Frames -> BOOLEAN]
      /\ worker \in [Frames -> {"none", "run", "exec", "check", "wait", "ended"}]
      /\ terminated \in [Frames -> BOOLEAN]
      /\ sender \in [Senders -> [at : {"idle", "pend", "wake"},
                                to : Frames \cup {None}]]
      /\ spawn \in [Frames -> {"none", "init", "failed", "open", "done"}]
  BY SchedulersAssumption DEF SchedulersInv, TypeOK
<1> USE DEF frameVars, batchVars, timerVars, sendVars, vars
<1>1. ASSUME NEW f \in Frames, InitSchedule(f) PROVE NoLostWakeup'
  BY <1>1, <1>a
     DEF SchedulersInv, NoLostWakeup, ActiveShape, ExecShape, SenderShape, InitSchedule,
         Set
<1>2. ASSUME NEW f \in Frames, SpawnFails(f) PROVE NoLostWakeup'
  BY <1>2, <1>a
     DEF SchedulersInv, NoLostWakeup, ActiveShape, ExecShape, SenderShape, SpawnFails,
         Set
<1>3. ASSUME NEW f \in Frames, Open(f) PROVE NoLostWakeup'
  BY <1>3, <1>a
     DEF SchedulersInv, NoLostWakeup, ActiveShape, ExecShape, SenderShape, Open, Set
<1>4. ASSUME NEW f \in Frames, Activate(f) PROVE NoLostWakeup'
  BY <1>4, <1>a
     DEF SchedulersInv, NoLostWakeup, ActiveShape, ExecShape, SenderShape, Activate,
         Set, Schedule
<1>5. ASSUME NEW f \in Frames, BatchStart(f) PROVE NoLostWakeup'
  BY <1>5, <1>a
     DEF SchedulersInv, NoLostWakeup, ActiveShape, ExecShape, SenderShape, BatchStart,
         Set
<1>6. ASSUME NEW f \in Frames, Pop(f) PROVE NoLostWakeup'
  BY <1>6, <1>a
     DEF SchedulersInv, NoLostWakeup, ActiveShape, ExecShape, SenderShape, Pop, Set, Over
<1>7. ASSUME NEW f \in Frames, CheckTerminated(f) PROVE NoLostWakeup'
  BY <1>7, <1>a
     DEF SchedulersInv, NoLostWakeup, ActiveShape, ExecShape, SenderShape,
         CheckTerminated, Set
<1>8. ASSUME NEW f \in Frames, Finally(f) PROVE NoLostWakeup'
  BY <1>8, <1>a
     DEF SchedulersInv, NoLostWakeup, ActiveShape, ExecShape, SenderShape, Finally, Set,
         Rescheduled
<1>9. ASSUME NEW f \in Frames, NEW outcome \in Outcomes, Handle(f, outcome)
      PROVE  NoLostWakeup'
  BY <1>9, <1>a
     DEF SchedulersInv, NoLostWakeup, ActiveShape, ExecShape, SenderShape, Handle, Set,
         More, Over
<1>10. ASSUME NEW f \in Frames, Loop(f) PROVE NoLostWakeup'
  BY <1>10, <1>a
     DEF SchedulersInv, NoLostWakeup, ActiveShape, ExecShape, SenderShape, Loop, Set
<1>11. ASSUME NEW f \in Frames, Check(f) PROVE NoLostWakeup'
  BY <1>11, <1>a
     DEF SchedulersInv, NoLostWakeup, ActiveShape, ExecShape, SenderShape, Check, Set
<1>12. ASSUME NEW f \in Frames, WakeSpuriously(f) PROVE NoLostWakeup'
  BY <1>12, <1>a
     DEF SchedulersInv, NoLostWakeup, ActiveShape, ExecShape, SenderShape,
         WakeSpuriously, Set
<1>13. ASSUME NEW f \in Frames, Tick(f) PROVE NoLostWakeup'
  BY <1>13, <1>a
     DEF SchedulersInv, NoLostWakeup, ActiveShape, ExecShape, SenderShape, Tick, Set
<1>14. ASSUME NEW f \in Frames, TickTerminated(f) PROVE NoLostWakeup'
  BY <1>14, <1>a
     DEF SchedulersInv, NoLostWakeup, ActiveShape, ExecShape, SenderShape,
         TickTerminated, Set, RemovedFrames
<1>15. ASSUME NEW f \in Frames, Reactivate(f) PROVE NoLostWakeup'
  BY <1>15, <1>a
     DEF SchedulersInv, NoLostWakeup, ActiveShape, ExecShape, SenderShape, Reactivate,
         Set, Reactivated
<1>16. ASSUME NEW s \in Senders, NEW f \in Frames, Enqueue(s, f) PROVE NoLostWakeup'
  BY <1>16, <1>a
     DEF SchedulersInv, NoLostWakeup, ActiveShape, ExecShape, SenderShape, Enqueue, Set,
         Idle
<1>17. ASSUME NEW s \in Senders, Pend(s) PROVE NoLostWakeup'
  <2>1. PICK f \in Frames : Pended(s, f)
    BY <1>17, PendEffect
  <2> QED
    BY <2>1, <1>a
       DEF Pended, Idle, SchedulersInv, NoLostWakeup, ActiveShape, ExecShape,
           SenderShape
<1>18. ASSUME NEW s \in Senders, Wake(s) PROVE NoLostWakeup'
  <2>1. PICK f \in Frames : Woken(s, f)
    BY <1>18, WakeEffect
  <2> QED
    BY <2>1, <1>a
       DEF Woken, Idle, SchedulersInv, NoLostWakeup, ActiveShape, ExecShape, SenderShape
<1>19. CASE UNCHANGED vars
  BY <1>19
     DEF SchedulersInv, NoLostWakeup, ActiveShape, ExecShape, SenderShape
<1>20. ASSUME NEW f \in Frames, Sample(f) PROVE NoLostWakeup'
  BY <1>20, <1>a
     DEF SchedulersInv, NoLostWakeup, ActiveShape, ExecShape, SenderShape, Sample, Set
<1> QED
  BY NextCases, <1>1, <1>2, <1>3, <1>4, <1>5, <1>6, <1>7, <1>8, <1>9, <1>10, <1>11,
     <1>12, <1>13, <1>14, <1>15, <1>16, <1>17, <1>18, <1>19, <1>20

\* Every step leaves a frame that lives with its thread.
LEMMA ThreadKeptStep ==
  ASSUME SchedulersInv, [Next]_vars
  PROVE  ThreadKept'
<1>a. /\ kind \in [Frames -> Kinds]
      /\ spawn \in [Frames -> {"none", "init", "failed", "open", "done"}]
      /\ timer \in BOOLEAN
      /\ frames \in SUBSET Frames
      /\ terminated \in [Frames -> BOOLEAN]
      /\ worker \in [Frames -> {"none", "run", "exec", "check", "wait", "ended"}]
      /\ thrown \in [Frames -> BOOLEAN]
  BY SchedulersAssumption DEF SchedulersInv, TypeOK
<1> USE DEF frameVars, batchVars, timerVars, sendVars, vars
<1>1. ASSUME NEW f \in Frames, InitSchedule(f) PROVE ThreadKept'
  BY <1>1, InitScheduleEffect, <1>a
     DEF SchedulersInv, ThreadKept, ExecShape, TimerShape
<1>2. ASSUME NEW f \in Frames, SpawnFails(f) PROVE ThreadKept'
  BY <1>2, <1>a
     DEF SchedulersInv, ThreadKept, ExecShape, TimerShape, SpawnFails, Set
<1>3. ASSUME NEW f \in Frames, Open(f) PROVE ThreadKept'
  BY <1>3, <1>a
     DEF SchedulersInv, ThreadKept, ExecShape, TimerShape, Open, Set
<1>4. ASSUME NEW f \in Frames, Activate(f) PROVE ThreadKept'
  BY <1>4, <1>a
     DEF SchedulersInv, ThreadKept, ExecShape, TimerShape, Activate, Set, Schedule
<1>5. ASSUME NEW f \in Frames, BatchStart(f) PROVE ThreadKept'
  BY <1>5, <1>a
     DEF SchedulersInv, ThreadKept, ExecShape, TimerShape, BatchStart, Set
<1>6. ASSUME NEW f \in Frames, Pop(f) PROVE ThreadKept'
  BY <1>6, <1>a
     DEF SchedulersInv, ThreadKept, ExecShape, TimerShape, Pop, Set, Over
<1>7. ASSUME NEW f \in Frames, CheckTerminated(f) PROVE ThreadKept'
  BY <1>7, <1>a
     DEF SchedulersInv, ThreadKept, ExecShape, TimerShape, CheckTerminated, Set
<1>8. ASSUME NEW f \in Frames, Finally(f) PROVE ThreadKept'
  BY <1>8, <1>a
     DEF SchedulersInv, ThreadKept, ExecShape, TimerShape, Finally, Set, Rescheduled
<1>9. ASSUME NEW f \in Frames, NEW outcome \in Outcomes, Handle(f, outcome)
      PROVE  ThreadKept'
  BY <1>9, <1>a
     DEF SchedulersInv, ThreadKept, ExecShape, TimerShape, Handle, Set, More, Over
<1>10. ASSUME NEW f \in Frames, Loop(f) PROVE ThreadKept'
  BY <1>10, <1>a
     DEF SchedulersInv, ThreadKept, ExecShape, TimerShape, Loop, Set
<1>11. ASSUME NEW f \in Frames, Check(f) PROVE ThreadKept'
  BY <1>11, <1>a
     DEF SchedulersInv, ThreadKept, ExecShape, TimerShape, Check, Set
<1>12. ASSUME NEW f \in Frames, WakeSpuriously(f) PROVE ThreadKept'
  BY <1>12, <1>a
     DEF SchedulersInv, ThreadKept, ExecShape, TimerShape, WakeSpuriously, Set
<1>13. ASSUME NEW f \in Frames, Tick(f) PROVE ThreadKept'
  BY <1>13, <1>a
     DEF SchedulersInv, ThreadKept, ExecShape, TimerShape, Tick, Set
<1>14. ASSUME NEW f \in Frames, TickTerminated(f) PROVE ThreadKept'
  BY <1>14, <1>a
     DEF SchedulersInv, ThreadKept, ExecShape, TimerShape, TickTerminated, Set,
         RemovedFrames
<1>15. ASSUME NEW f \in Frames, Reactivate(f) PROVE ThreadKept'
  BY <1>15, <1>a
     DEF SchedulersInv, ThreadKept, ExecShape, TimerShape, Reactivate, Set, Reactivated
<1>16. ASSUME NEW s \in Senders, NEW f \in Frames, Enqueue(s, f) PROVE ThreadKept'
  BY <1>16, <1>a
     DEF SchedulersInv, ThreadKept, ExecShape, TimerShape, Enqueue, Set, Idle
<1>17. ASSUME NEW s \in Senders, Pend(s) PROVE ThreadKept'
  <2>1. PICK f \in Frames : Pended(s, f)
    BY <1>17, PendEffect
  <2> QED
    BY <2>1, <1>a
       DEF Pended, Idle, SchedulersInv, ThreadKept, ExecShape, TimerShape
<1>18. ASSUME NEW s \in Senders, Wake(s) PROVE ThreadKept'
  <2>1. PICK f \in Frames : Woken(s, f)
    BY <1>18, WakeEffect
  <2> QED
    BY <2>1, <1>a
       DEF Woken, Idle, SchedulersInv, ThreadKept, ExecShape, TimerShape
<1>19. CASE UNCHANGED vars
  BY <1>19
     DEF SchedulersInv, ThreadKept, ExecShape, TimerShape
<1>20. ASSUME NEW f \in Frames, Sample(f) PROVE ThreadKept'
  BY <1>20, <1>a
     DEF SchedulersInv, ThreadKept, ExecShape, TimerShape, Sample, Set
<1> QED
  BY NextCases, <1>1, <1>2, <1>3, <1>4, <1>5, <1>6, <1>7, <1>8, <1>9, <1>10, <1>11,
     <1>12, <1>13, <1>14, <1>15, <1>16, <1>17, <1>18, <1>19, <1>20

\* Without lagging no step samples.
LEMMA NoSamplingStep ==
  ASSUME SchedulersInv, [Next]_vars
  PROVE  NoSampling'
<1>a. /\ kind \in [Frames -> Kinds]
      /\ size \in [Frames -> 0..MaxSends]
      /\ pending \in [Frames -> BOOLEAN]
      /\ sealed \in [Frames -> BOOLEAN]
      /\ exec \in [Frames -> {"off", "start", "pop", "drain", "sample", "end",
                           "finally", "reactivate"}]
      /\ budget \in [Frames -> Int]
      /\ sampling \in [Frames -> BOOLEAN]
      /\ due \in [Frames -> 0..MaxSends]
      /\ done \in [Frames -> 0..MaxSends]
      /\ thrown \in [Frames -> BOOLEAN]
  BY SchedulersAssumption DEF SchedulersInv, TypeOK
<1> USE DEF frameVars, batchVars, timerVars, sendVars, vars
<1>1. ASSUME NEW f \in Frames, InitSchedule(f) PROVE NoSampling'
  BY <1>1, <1>a
     DEF SchedulersInv, NoSampling, InitSchedule, Set
<1>2. ASSUME NEW f \in Frames, SpawnFails(f) PROVE NoSampling'
  BY <1>2, <1>a
     DEF SchedulersInv, NoSampling, SpawnFails, Set
<1>3. ASSUME NEW f \in Frames, Open(f) PROVE NoSampling'
  BY <1>3, <1>a
     DEF SchedulersInv, NoSampling, Open, Set
<1>4. ASSUME NEW f \in Frames, Activate(f) PROVE NoSampling'
  BY <1>4, <1>a
     DEF SchedulersInv, NoSampling, Activate, Set, Schedule
<1>5. ASSUME NEW f \in Frames, BatchStart(f) PROVE NoSampling'
  BY <1>5, <1>a
     DEF SchedulersInv, NoSampling, BatchStart, Set
<1>6. ASSUME NEW f \in Frames, Pop(f) PROVE NoSampling'
  BY <1>6, <1>a
     DEF SchedulersInv, NoSampling, Pop, Set, Over
<1>7. ASSUME NEW f \in Frames, CheckTerminated(f) PROVE NoSampling'
  BY <1>7, <1>a
     DEF SchedulersInv, NoSampling, CheckTerminated, Set
<1>8. ASSUME NEW f \in Frames, Finally(f) PROVE NoSampling'
  BY <1>8, <1>a
     DEF SchedulersInv, NoSampling, Finally, Set, Rescheduled
<1>9. ASSUME NEW f \in Frames, NEW outcome \in Outcomes, Handle(f, outcome)
      PROVE  NoSampling'
  BY <1>9, HandleEffect, <1>a
     DEF Handled, SchedulersInv, NoSampling
<1>10. ASSUME NEW f \in Frames, Loop(f) PROVE NoSampling'
  BY <1>10, <1>a
     DEF SchedulersInv, NoSampling, Loop, Set
<1>11. ASSUME NEW f \in Frames, Check(f) PROVE NoSampling'
  BY <1>11, <1>a
     DEF SchedulersInv, NoSampling, Check, Set
<1>12. ASSUME NEW f \in Frames, WakeSpuriously(f) PROVE NoSampling'
  BY <1>12, <1>a
     DEF SchedulersInv, NoSampling, WakeSpuriously, Set
<1>13. ASSUME NEW f \in Frames, Tick(f) PROVE NoSampling'
  BY <1>13, <1>a
     DEF SchedulersInv, NoSampling, Tick, Set
<1>14. ASSUME NEW f \in Frames, TickTerminated(f) PROVE NoSampling'
  BY <1>14, <1>a
     DEF SchedulersInv, NoSampling, TickTerminated, Set, RemovedFrames
<1>15. ASSUME NEW f \in Frames, Reactivate(f) PROVE NoSampling'
  BY <1>15, <1>a
     DEF SchedulersInv, NoSampling, Reactivate, Set, Reactivated
<1>16. ASSUME NEW s \in Senders, NEW f \in Frames, Enqueue(s, f) PROVE NoSampling'
  BY <1>16, <1>a
     DEF SchedulersInv, NoSampling, Enqueue, Set, Idle
<1>17. ASSUME NEW s \in Senders, Pend(s) PROVE NoSampling'
  <2>1. PICK f \in Frames : Pended(s, f)
    BY <1>17, PendEffect
  <2> QED
    BY <2>1, <1>a
       DEF Pended, Idle, SchedulersInv, NoSampling
<1>18. ASSUME NEW s \in Senders, Wake(s) PROVE NoSampling'
  <2>1. PICK f \in Frames : Woken(s, f)
    BY <1>18, WakeEffect
  <2> QED
    BY <2>1, <1>a
       DEF Woken, Idle, SchedulersInv, NoSampling
<1>19. CASE UNCHANGED vars
  BY <1>19
     DEF SchedulersInv, NoSampling
<1>20. ASSUME NEW f \in Frames, Sample(f) PROVE NoSampling'
  BY <1>20, <1>a
     DEF SchedulersInv, NoSampling, Sample, Set
<1> QED
  BY NextCases, <1>1, <1>2, <1>3, <1>4, <1>5, <1>6, <1>7, <1>8, <1>9, <1>10, <1>11,
     <1>12, <1>13, <1>14, <1>15, <1>16, <1>17, <1>18, <1>19, <1>20

\* Every step that ends a timer's batch has handled what was counted, and one
\* event more at most.
LEMMA FlushBoundedStep ==
  ASSUME SchedulersInv, [Next]_vars
  PROVE  FlushBounded'
<1>a. /\ kind \in [Frames -> Kinds]
      /\ size \in [Frames -> 0..MaxSends]
      /\ pending \in [Frames -> BOOLEAN]
      /\ sealed \in [Frames -> BOOLEAN]
      /\ exec \in [Frames -> {"off", "start", "pop", "drain", "sample", "end",
                           "finally", "reactivate"}]
      /\ budget \in [Frames -> Int]
      /\ sampling \in [Frames -> BOOLEAN]
      /\ due \in [Frames -> 0..MaxSends]
      /\ done \in [Frames -> 0..MaxSends]
      /\ thrown \in [Frames -> BOOLEAN]
  BY SchedulersAssumption DEF SchedulersInv, TypeOK
<1> USE DEF frameVars, batchVars, timerVars, sendVars, vars
<1>1. ASSUME NEW f \in Frames, InitSchedule(f) PROVE FlushBounded'
  BY <1>1, <1>a
     DEF SchedulersInv, FlushBounded, BatchCount, InitSchedule, Set
<1>2. ASSUME NEW f \in Frames, SpawnFails(f) PROVE FlushBounded'
  BY <1>2, <1>a
     DEF SchedulersInv, FlushBounded, BatchCount, SpawnFails, Set
<1>3. ASSUME NEW f \in Frames, Open(f) PROVE FlushBounded'
  BY <1>3, <1>a
     DEF SchedulersInv, FlushBounded, BatchCount, Open, Set
<1>4. ASSUME NEW f \in Frames, Activate(f) PROVE FlushBounded'
  BY <1>4, <1>a
     DEF SchedulersInv, FlushBounded, BatchCount, Activate, Set, Schedule
<1>5. ASSUME NEW f \in Frames, BatchStart(f) PROVE FlushBounded'
  BY <1>5, <1>a
     DEF SchedulersInv, FlushBounded, BatchCount, BatchStart, Set
<1>6. ASSUME NEW f \in Frames, Pop(f) PROVE FlushBounded'
  BY <1>6, <1>a
     DEF SchedulersInv, FlushBounded, BatchCount, Pop, Set, Over
<1>7. ASSUME NEW f \in Frames, CheckTerminated(f) PROVE FlushBounded'
  BY <1>7, <1>a
     DEF SchedulersInv, FlushBounded, BatchCount, CheckTerminated, Set
<1>8. ASSUME NEW f \in Frames, Finally(f) PROVE FlushBounded'
  BY <1>8, <1>a
     DEF SchedulersInv, FlushBounded, BatchCount, Finally, Set, Rescheduled
<1>9. ASSUME NEW f \in Frames, NEW outcome \in Outcomes, Handle(f, outcome)
      PROVE  FlushBounded'
  BY <1>9, HandleEffect, <1>a
     DEF Handled, SchedulersInv, FlushBounded, BatchCount
<1>10. ASSUME NEW f \in Frames, Loop(f) PROVE FlushBounded'
  BY <1>10, <1>a
     DEF SchedulersInv, FlushBounded, BatchCount, Loop, Set
<1>11. ASSUME NEW f \in Frames, Check(f) PROVE FlushBounded'
  BY <1>11, <1>a
     DEF SchedulersInv, FlushBounded, BatchCount, Check, Set
<1>12. ASSUME NEW f \in Frames, WakeSpuriously(f) PROVE FlushBounded'
  BY <1>12, <1>a
     DEF SchedulersInv, FlushBounded, BatchCount, WakeSpuriously, Set
<1>13. ASSUME NEW f \in Frames, Tick(f) PROVE FlushBounded'
  BY <1>13, <1>a
     DEF SchedulersInv, FlushBounded, BatchCount, Tick, Set
<1>14. ASSUME NEW f \in Frames, TickTerminated(f) PROVE FlushBounded'
  BY <1>14, <1>a
     DEF SchedulersInv, FlushBounded, BatchCount, TickTerminated, Set, RemovedFrames
<1>15. ASSUME NEW f \in Frames, Reactivate(f) PROVE FlushBounded'
  BY <1>15, <1>a
     DEF SchedulersInv, FlushBounded, BatchCount, Reactivate, Set, Reactivated
<1>16. ASSUME NEW s \in Senders, NEW f \in Frames, Enqueue(s, f) PROVE FlushBounded'
  BY <1>16, <1>a
     DEF SchedulersInv, FlushBounded, BatchCount, Enqueue, Set, Idle
<1>17. ASSUME NEW s \in Senders, Pend(s) PROVE FlushBounded'
  <2>1. PICK f \in Frames : Pended(s, f)
    BY <1>17, PendEffect
  <2> QED
    BY <2>1, <1>a
       DEF Pended, Idle, SchedulersInv, FlushBounded, BatchCount
<1>18. ASSUME NEW s \in Senders, Wake(s) PROVE FlushBounded'
  <2>1. PICK f \in Frames : Woken(s, f)
    BY <1>18, WakeEffect
  <2> QED
    BY <2>1, <1>a
       DEF Woken, Idle, SchedulersInv, FlushBounded, BatchCount
<1>19. CASE UNCHANGED vars
  BY <1>19
     DEF SchedulersInv, FlushBounded, BatchCount
<1>20. ASSUME NEW f \in Frames, Sample(f) PROVE FlushBounded'
  BY <1>20, <1>a
     DEF SchedulersInv, FlushBounded, BatchCount, Sample, Set
<1> QED
  BY NextCases, <1>1, <1>2, <1>3, <1>4, <1>5, <1>6, <1>7, <1>8, <1>9, <1>10, <1>11,
     <1>12, <1>13, <1>14, <1>15, <1>16, <1>17, <1>18, <1>19, <1>20

\* Without lagging every step that ends a timer's batch has handled what was
\* counted.
LEMMA FlushesUnsampledStep ==
  ASSUME SchedulersInv, [Next]_vars
  PROVE  FlushesUnsampled'
<1>a. /\ kind \in [Frames -> Kinds]
      /\ size \in [Frames -> 0..MaxSends]
      /\ pending \in [Frames -> BOOLEAN]
      /\ sealed \in [Frames -> BOOLEAN]
      /\ exec \in [Frames -> {"off", "start", "pop", "drain", "sample", "end",
                           "finally", "reactivate"}]
      /\ budget \in [Frames -> Int]
      /\ sampling \in [Frames -> BOOLEAN]
      /\ due \in [Frames -> 0..MaxSends]
      /\ done \in [Frames -> 0..MaxSends]
      /\ thrown \in [Frames -> BOOLEAN]
  BY SchedulersAssumption DEF SchedulersInv, TypeOK
<1> USE DEF frameVars, batchVars, timerVars, sendVars, vars
<1>1. ASSUME NEW f \in Frames, InitSchedule(f) PROVE FlushesUnsampled'
  BY <1>1, <1>a
     DEF SchedulersInv, NoSampling, FlushesUnsampled, FlushesPending, BatchCount, InitSchedule, Set
<1>2. ASSUME NEW f \in Frames, SpawnFails(f) PROVE FlushesUnsampled'
  BY <1>2, <1>a
     DEF SchedulersInv, NoSampling, FlushesUnsampled, FlushesPending, BatchCount, SpawnFails, Set
<1>3. ASSUME NEW f \in Frames, Open(f) PROVE FlushesUnsampled'
  BY <1>3, <1>a
     DEF SchedulersInv, NoSampling, FlushesUnsampled, FlushesPending, BatchCount, Open, Set
<1>4. ASSUME NEW f \in Frames, Activate(f) PROVE FlushesUnsampled'
  BY <1>4, <1>a
     DEF SchedulersInv, NoSampling, FlushesUnsampled, FlushesPending, BatchCount, Activate, Set, Schedule
<1>5. ASSUME NEW f \in Frames, BatchStart(f) PROVE FlushesUnsampled'
  BY <1>5, <1>a
     DEF SchedulersInv, NoSampling, FlushesUnsampled, FlushesPending, BatchCount, BatchStart, Set
<1>6. ASSUME NEW f \in Frames, Pop(f) PROVE FlushesUnsampled'
  BY <1>6, <1>a
     DEF SchedulersInv, NoSampling, FlushesUnsampled, FlushesPending, BatchCount, Pop, Set, Over
<1>7. ASSUME NEW f \in Frames, CheckTerminated(f) PROVE FlushesUnsampled'
  BY <1>7, <1>a
     DEF SchedulersInv, NoSampling, FlushesUnsampled, FlushesPending, BatchCount, CheckTerminated, Set
<1>8. ASSUME NEW f \in Frames, Finally(f) PROVE FlushesUnsampled'
  BY <1>8, <1>a
     DEF SchedulersInv, NoSampling, FlushesUnsampled, FlushesPending, BatchCount, Finally, Set, Rescheduled
<1>9. ASSUME NEW f \in Frames, NEW outcome \in Outcomes, Handle(f, outcome)
      PROVE  FlushesUnsampled'
  BY <1>9, HandleEffect, <1>a
     DEF Handled, SchedulersInv, NoSampling, FlushesUnsampled, FlushesPending, BatchCount
<1>10. ASSUME NEW f \in Frames, Loop(f) PROVE FlushesUnsampled'
  BY <1>10, <1>a
     DEF SchedulersInv, NoSampling, FlushesUnsampled, FlushesPending, BatchCount, Loop, Set
<1>11. ASSUME NEW f \in Frames, Check(f) PROVE FlushesUnsampled'
  BY <1>11, <1>a
     DEF SchedulersInv, NoSampling, FlushesUnsampled, FlushesPending, BatchCount, Check, Set
<1>12. ASSUME NEW f \in Frames, WakeSpuriously(f) PROVE FlushesUnsampled'
  BY <1>12, <1>a
     DEF SchedulersInv, NoSampling, FlushesUnsampled, FlushesPending, BatchCount, WakeSpuriously, Set
<1>13. ASSUME NEW f \in Frames, Tick(f) PROVE FlushesUnsampled'
  BY <1>13, <1>a
     DEF SchedulersInv, NoSampling, FlushesUnsampled, FlushesPending, BatchCount, Tick, Set
<1>14. ASSUME NEW f \in Frames, TickTerminated(f) PROVE FlushesUnsampled'
  BY <1>14, <1>a
     DEF SchedulersInv, NoSampling, FlushesUnsampled, FlushesPending, BatchCount, TickTerminated, Set, RemovedFrames
<1>15. ASSUME NEW f \in Frames, Reactivate(f) PROVE FlushesUnsampled'
  BY <1>15, <1>a
     DEF SchedulersInv, NoSampling, FlushesUnsampled, FlushesPending, BatchCount, Reactivate, Set, Reactivated
<1>16. ASSUME NEW s \in Senders, NEW f \in Frames, Enqueue(s, f) PROVE FlushesUnsampled'
  BY <1>16, <1>a
     DEF SchedulersInv, NoSampling, FlushesUnsampled, FlushesPending, BatchCount, Enqueue, Set, Idle
<1>17. ASSUME NEW s \in Senders, Pend(s) PROVE FlushesUnsampled'
  <2>1. PICK f \in Frames : Pended(s, f)
    BY <1>17, PendEffect
  <2> QED
    BY <2>1, <1>a
       DEF Pended, Idle, SchedulersInv, NoSampling, FlushesUnsampled, FlushesPending, BatchCount
<1>18. ASSUME NEW s \in Senders, Wake(s) PROVE FlushesUnsampled'
  <2>1. PICK f \in Frames : Woken(s, f)
    BY <1>18, WakeEffect
  <2> QED
    BY <2>1, <1>a
       DEF Woken, Idle, SchedulersInv, NoSampling, FlushesUnsampled, FlushesPending, BatchCount
<1>19. CASE UNCHANGED vars
  BY <1>19
     DEF SchedulersInv, NoSampling, FlushesUnsampled, FlushesPending, BatchCount
<1>20. ASSUME NEW f \in Frames, Sample(f) PROVE FlushesUnsampled'
  BY <1>20, <1>a
     DEF SchedulersInv, NoSampling, FlushesUnsampled, FlushesPending, BatchCount, Sample, Set
<1> QED
  BY NextCases, <1>1, <1>2, <1>3, <1>4, <1>5, <1>6, <1>7, <1>8, <1>9, <1>10, <1>11,
     <1>12, <1>13, <1>14, <1>15, <1>16, <1>17, <1>18, <1>19, <1>20

-----------------------------------------------------------------------------
(* The theorems *)

\* The initial state satisfies the invariant.
LEMMA InitInv == Init => SchedulersInv
<1> SUFFICES ASSUME Init PROVE SchedulersInv
  OBVIOUS
<1> USE SchedulersAssumption DEF Init
<1>1. TypeOK
  <2>1. sender \in [Senders -> [at : {"idle", "pend", "wake"}, to : Frames \cup {None}]]
    BY DEF Idle
  <2>2. /\ active \in [Frames -> BOOLEAN] /\ terminated \in [Frames -> BOOLEAN]
        /\ pending \in [Frames -> BOOLEAN] /\ sealed \in [Frames -> BOOLEAN]
        /\ thrown \in [Frames -> BOOLEAN] /\ timer \in BOOLEAN
    OBVIOUS
  <2> QED
    BY <2>1, <2>2 DEF TypeOK
<1>2. Counted /\ SpawnShape /\ SenderShape /\ Claimed /\ TimerShape /\ BatchCount
     /\ NoSampling
  BY DEF Counted, SpawnShape, SenderShape, Claimed, TimerShape, BatchCount, NoSampling, Idle
<1>3. ExecShape /\ ActiveShape
  BY DEF ExecShape, ActiveShape
<1>4. RunsActive /\ NoLostWakeup /\ ThreadKept /\ FlushBounded /\ FlushesUnsampled
  BY DEF RunsActive, NoLostWakeup, ThreadKept, FlushBounded, FlushesUnsampled, FlushesPending
<1> QED
  BY <1>1, <1>2, <1>3, <1>4 DEF SchedulersInv

\* Every step keeps the invariant.
LEMMA NextInv == SchedulersInv /\ [Next]_vars => SchedulersInv'
<1> SUFFICES ASSUME SchedulersInv, [Next]_vars PROVE SchedulersInv'
  OBVIOUS
<1>1. TypeOK' /\ Counted' /\ SpawnShape' /\ SenderShape' /\ Claimed'
  BY TypeStep, CountedStep, SpawnShapeStep, SenderShapeStep, ClaimedStep
<1>2. ExecShape' /\ ActiveShape' /\ TimerShape' /\ BatchCount' /\ NoSampling'
  BY ExecShapeStep, ActiveShapeStep, TimerShapeStep, BatchCountStep, NoSamplingStep
<1>3. RunsActive' /\ NoLostWakeup' /\ ThreadKept' /\ FlushBounded' /\ FlushesUnsampled'
  BY RunsActiveStep, NoLostWakeupStep, ThreadKeptStep, FlushBoundedStep,
     FlushesUnsampledStep
<1> QED
  BY <1>1, <1>2, <1>3 DEF SchedulersInv

\* The inductive invariant of the schedulers that bind a frame to one thread.
THEOREM SchedulersInvariant == Spec => []SchedulersInv
BY InitInv, NextInv, PTL DEF Spec

\* Every variable keeps its type; no queue is taken from while it is empty.
THEOREM SchedulerTypes == Spec => []TypeOK
<1>1. SchedulersInv => TypeOK
  BY DEF SchedulersInv
<1> QED
  BY <1>1, SchedulersInvariant, PTL

\* No batch begins for an inactive frame: the assertion in executeBatch holds
\* under the dedicated and the timer schedulers.
THEOREM RunsActiveHolds == Spec => []RunsActive
<1>1. SchedulersInv => RunsActive
  BY DEF SchedulersInv
<1> QED
  BY <1>1, SchedulersInvariant, PTL

\* A worker that sleeps while its frame has pending events is about to be woken
\* (Dedicated.Worker, Frame.enqueueEvent).
THEOREM NoLostWakeupHolds == Spec => []NoLostWakeup
<1>1. SchedulersInv => NoLostWakeup
  BY DEF SchedulersInv
<1> QED
  BY <1>1, SchedulersInvariant, PTL

\* A frame that has not terminated keeps its thread, or its place in the timer
\* (Dedicated.Worker, Timer.addFrame and removeFrame).
THEOREM ThreadKeptHolds == Spec => []ThreadKept
<1>1. SchedulersInv => ThreadKept
  BY DEF SchedulersInv
<1> QED
  BY <1>1, SchedulersInvariant, PTL

\* A batch of the timer handles the events that were pending when it began, and
\* one at most beyond its budget (Timer.onBatchStart, the budget of
\* State.Default and the sampling loop of Frame.processEvents).
THEOREM FlushBoundedHolds == Spec => []FlushBounded
<1>1. SchedulersInv => FlushBounded
  BY DEF SchedulersInv
<1> QED
  BY <1>1, SchedulersInvariant, PTL

\* With speculative lagging turned off the timer keeps the promise of its
\* Scaladoc: a batch handles as many events as were pending when it began
\* (Timer.onBatchStart and the budget of State.Default).
THEOREM FlushesPendingHolds ==
  ASSUME ~Lagging
  PROVE  Spec => []FlushesPending
<1>1. SchedulersInv => FlushesPending
  BY DEF SchedulersInv, FlushesUnsampled
<1> QED
  BY <1>1, SchedulersInvariant, PTL
=============================================================================

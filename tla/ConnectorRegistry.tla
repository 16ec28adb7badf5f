-------------------------- MODULE ConnectorRegistry --------------------------
(***************************************************************************)
(* The entry of one reactor name in ReactorSystem.frames, the concurrent   *)
(* map behind channel lookup.  Three kinds of threads race on it, each by  *)
(* reading the entry and then replacing exactly what it has read: a frame  *)
(* that is spawned under the name, opens and seals connectors and          *)
(* terminates; later frames that want the same name; and the callers of    *)
(* Channels.await, who leave a listener in the entry until a connector of  *)
(* the name they want is opened.  A step is one operation of the map or a  *)
(* stretch of thread-local code.                                           *)
(***************************************************************************)
EXTENDS Naturals, FiniteSets

CONSTANTS
  Frames,     \* Frames spawned with this name, one incarnation each.
  Awaiters,   \* Calls of Channels.await.
  Names,      \* Channel names.
  Main,       \* proto.channelName
  Sys,        \* "system"
  Stopping,   \* Frames that fail in trySpawnReactor or terminate.
  Piggybacked,\* Frames whose scheduler runs them to their end in activate.
  MaxOpens,   \* Bound: connectors one frame opens, Main and Sys included.
  Null

ASSUME RegistryAssumption ==
  /\ Main \in Names /\ Sys \in Names /\ Main # Sys
  /\ Stopping \subseteq Frames /\ Piggybacked \subseteq Frames
  /\ Frames \cap Awaiters = {}
  /\ MaxOpens \in Nat /\ MaxOpens >= 2

Threads == Frames \cup Awaiters

VARIABLES
  entry,      \* frames(name): a Frame.Info, or Null when there is none.
  pc,
  seen,       \* The Info the thread has read.
  chan,       \* The channel name a thread opens, seals or awaits.
  opened,     \* Connectors the frame has opened so far (idCounter).
  own,        \* The frame's open connectors by name, as it knows them.
  notify,     \* Listeners openConnector has still to send to.
  answer      \* The connector in the IVar of an await.

vars == <<entry, pc, seen, chan, opened, own, notify, answer>>

Connectors == Frames \X (1 .. MaxOpens)

\* Frame.Info.  Its map takes a channel name to a connector or to a list of
\* listeners; here these are two functions, of which one is empty at a name.
Info ==
  {i \in [frame : Frames \cup {Null},
          conns : [Names -> Connectors \cup {Null}],
          listeners : [Names -> SUBSET Awaiters]] :
     \A n \in Names : i.conns[n] = Null \/ i.listeners[n] = {}}

\* Null stands for the absence of a frame, a connector and an entry.
ASSUME NullAssumption ==
  /\ Null \notin Frames /\ Null \notin Names
  /\ Null \notin Connectors /\ Null \notin Info

NoConns == [n \in Names |-> Null]
NoListeners == [n \in Names |-> {}]

FramePcs == {"idle", "reserve", "refused",
             "openMain", "publishMain", "notifyMain",
             "openSys", "publishSys", "notifySys", "activate",
             "running", "open", "publish", "notify", "seal", "unpublish",
             "terminate", "release", "caught", "giveBack", "stopped",
             "caughtAgain", "giveBackAgain", "releasedTwice"}
AwaitPcs == {"idle", "register", "retry", "returned"}

TypeOK ==
  /\ entry \in Info \cup {Null}
  /\ pc \in [Threads -> FramePcs \cup AwaitPcs]
  /\ seen \in [Threads -> Info \cup {Null}]
  /\ chan \in [Threads -> Names \cup {Null}]
  /\ opened \in [Frames -> 0 .. MaxOpens]
  /\ own \in [Frames -> [Names -> Connectors \cup {Null}]]
  /\ notify \in [Frames -> SUBSET Awaiters]
  /\ answer \in [Awaiters -> Connectors \cup {Null}]

Init ==
  /\ entry = Null
  /\ pc = [t \in Threads |-> "idle"]
  /\ seen = [t \in Threads |-> Null]
  /\ chan = [t \in Threads |-> Null]
  /\ opened = [f \in Frames |-> 0]
  /\ own = [f \in Frames |-> NoConns]
  /\ notify = [f \in Frames |-> {}]
  /\ answer = [a \in Awaiters |-> Null]

-----------------------------------------------------------------------------
(* ScalableUniqueStore *)

Goto(t, l) == pc' = [pc EXCEPT ![t] = l]

\* frames.forName(name), then t goes to l.
ForName(t, l) ==
  /\ seen' = [seen EXCEPT ![t] = entry]
  /\ Goto(t, l)

Forget(t) == seen' = [seen EXCEPT ![t] = Null]

\* tryStore (where t has seen Null) and tryReplace compare and set.
Unchanged(t) == entry = seen[t]

-----------------------------------------------------------------------------
(* Spawning: ReactorSystem.trySpawnReactor with proto.name # null *)

\* Mutant: the name is taken whoever has it.
SpawnReadAny(f) ==
  /\ pc[f] = "idle"
  /\ ForName(f, "reserve")
  /\ UNCHANGED <<entry, chan, opened, own, notify, answer>>

SpawnRead(f) ==
  /\ pc[f] = "idle"
  /\ IF entry = Null \/ entry.frame = Null
       THEN ForName(f, "reserve")
       ELSE Goto(f, "refused") /\ UNCHANGED seen
  /\ UNCHANGED <<entry, chan, opened, own, notify, answer>>

\* Step 2: the name may already have listeners, which stay.
SpawnReserve(f) ==
  /\ pc[f] = "reserve"
  /\ IF Unchanged(f)
       THEN /\ entry' = IF entry = Null
                         THEN [frame |-> f, conns |-> NoConns,
                               listeners |-> NoListeners]
                         ELSE [entry EXCEPT !.frame = f]
            /\ Goto(f, "openMain")
       ELSE Goto(f, "idle") /\ UNCHANGED entry
  /\ Forget(f)
  /\ UNCHANGED <<chan, opened, own, notify, answer>>

\* Steps 3 to 6 throw before the frame has run: the catch block is next.
SpawnFails(f) ==
  /\ f \in Stopping
  /\ pc[f] \in {"openMain", "openSys", "activate"}
  /\ Goto(f, "caught")
  /\ UNCHANGED <<entry, seen, chan, opened, own, notify, answer>>

\* Step 6: from here on the frame is its scheduler's.
Activate(f) ==
  /\ pc[f] = "activate"
  /\ Goto(f, "running")
  /\ UNCHANGED <<entry, seen, chan, opened, own, notify, answer>>

-----------------------------------------------------------------------------
(* Frame.openConnector and sealConnector *)

\* The three places where a frame opens: the standard connectors and user
\* code.  The three steps of an opening end where the next thing begins.
Open    == [main |-> "openMain", sys |-> "openSys", user |-> "open"]
Publish == [main |-> "publishMain", sys |-> "publishSys", user |-> "publish"]
Notify  == [main |-> "notifyMain", sys |-> "notifySys", user |-> "notify"]
Next3   == [main |-> "openSys", sys |-> "activate", user |-> "running"]
Thrown  == [main |-> "caught", sys |-> "caught", user |-> "running"]
Places  == DOMAIN Open

\* User code asks for a connector, also for a name it has already.
UserOpen(f, n) ==
  /\ pc[f] = "running"
  /\ opened[f] < MaxOpens
  /\ chan' = [chan EXCEPT ![f] = n]
  /\ Goto(f, "open")
  /\ UNCHANGED <<entry, seen, opened, own, notify, answer>>

\* The connector's name is that of the place, or what user code asked for.
ChanName(f, p) == CASE p = "main" -> Main [] p = "sys" -> Sys
                    [] OTHER -> chan[f]

\* The frame's entry must be there, and no connector of the name in it: both
\* are refused by an exception, to the spawner or to user code.
OpenRead(f, p) ==
  /\ pc[f] = Open[p]
  /\ IF entry # Null /\ entry.conns[ChanName(f, p)] = Null
       THEN /\ ForName(f, Publish[p])
            /\ chan' = [chan EXCEPT ![f] = ChanName(f, p)]
       ELSE /\ Goto(f, Thrown[p])
            /\ chan' = [chan EXCEPT ![f] = Null]
            /\ UNCHANGED seen
  /\ UNCHANGED <<entry, opened, own, notify, answer>>

\* Mutant: the listeners found under the name are not triggered.
OpenPublishSilently(f, p) ==
  /\ pc[f] = Publish[p]
  /\ IF Unchanged(f)
       THEN LET n == chan[f]
                k == <<f, opened[f] + 1>>
            IN  /\ entry' = [entry EXCEPT !.frame = f, !.conns[n] = k,
                                          !.listeners[n] = {}]
                /\ opened' = [opened EXCEPT ![f] = @ + 1]
                /\ own' = [own EXCEPT ![f][n] = k]
                /\ Goto(f, Notify[p])
       ELSE Goto(f, Open[p]) /\ UNCHANGED <<entry, opened, own>>
  /\ Forget(f)
  /\ UNCHANGED <<chan, notify, answer>>

\* The new connector takes the place of the listeners.
OpenPublish(f, p) ==
  /\ pc[f] = Publish[p]
  /\ IF Unchanged(f)
       THEN LET n == chan[f]
                k == <<f, opened[f] + 1>>
            IN  /\ entry' = [entry EXCEPT !.frame = f, !.conns[n] = k,
                                          !.listeners[n] = {}]
                /\ notify' = [notify EXCEPT ![f] = entry.listeners[n]]
                /\ opened' = [opened EXCEPT ![f] = @ + 1]
                /\ own' = [own EXCEPT ![f][n] = k]
                /\ Goto(f, Notify[p])
       ELSE Goto(f, Open[p]) /\ UNCHANGED <<entry, notify, opened, own>>
  /\ Forget(f)
  /\ UNCHANGED <<chan, answer>>

\* ch ! conn.channel for one listener; the send itself, and the await's own
\* connector that receives it, are ReactorFrame's.
OpenNotify(f, p) ==
  /\ pc[f] = Notify[p]
  /\ \E a \in notify[f] :
       /\ answer' = [answer EXCEPT ![a] = own[f][chan[f]]]
       /\ notify' = [notify EXCEPT ![f] = @ \ {a}]
  /\ UNCHANGED <<entry, pc, seen, chan, opened, own>>

OpenReturn(f, p) ==
  /\ pc[f] = Notify[p]
  /\ notify[f] = {}
  /\ chan' = [chan EXCEPT ![f] = Null]
  /\ Goto(f, Next3[p])
  /\ UNCHANGED <<entry, seen, opened, own, notify, answer>>

UserSeal(f, n) ==
  /\ pc[f] = "running"
  /\ n # Sys
  /\ own[f][n] # Null
  /\ chan' = [chan EXCEPT ![f] = n]
  /\ Goto(f, "seal")
  /\ UNCHANGED <<entry, seen, opened, own, notify, answer>>

\* The connector is closed by now; without an entry the null pointer is user
\* code's to handle.
SealRead(f) ==
  /\ pc[f] = "seal"
  /\ IF entry # Null
       THEN ForName(f, "unpublish") /\ UNCHANGED <<chan, own>>
       ELSE /\ own' = [own EXCEPT ![f][chan[f]] = Null]
            /\ chan' = [chan EXCEPT ![f] = Null]
            /\ Goto(f, "running")
            /\ UNCHANGED seen
  /\ UNCHANGED <<entry, opened, notify, answer>>

\* info.connectors - connector.name, whatever is there, as this frame's Info.
Without(info, f, n) ==
  [info EXCEPT !.frame = f, !.conns[n] = Null, !.listeners[n] = {}]

\* Mutant: what was read is written back without comparing.
SealOverwrites(f) ==
  /\ pc[f] = "unpublish"
  /\ entry' = Without(seen[f], f, chan[f])
  /\ own' = [own EXCEPT ![f][chan[f]] = Null]
  /\ chan' = [chan EXCEPT ![f] = Null]
  /\ Goto(f, "running")
  /\ Forget(f)
  /\ UNCHANGED <<opened, notify, answer>>

\* Mutant: a lost comparison is not tried again.
SealTriesOnce(f) ==
  /\ pc[f] = "unpublish"
  /\ entry' = IF Unchanged(f) THEN Without(entry, f, chan[f]) ELSE entry
  /\ own' = [own EXCEPT ![f][chan[f]] = Null]
  /\ chan' = [chan EXCEPT ![f] = Null]
  /\ Goto(f, "running")
  /\ Forget(f)
  /\ UNCHANGED <<opened, notify, answer>>

SealUnpublish(f) ==
  /\ pc[f] = "unpublish"
  /\ IF Unchanged(f)
       THEN /\ entry' = Without(entry, f, chan[f])
            /\ own' = [own EXCEPT ![f][chan[f]] = Null]
            /\ chan' = [chan EXCEPT ![f] = Null]
            /\ Goto(f, "running")
       ELSE Goto(f, "seal") /\ UNCHANGED <<entry, own, chan>>
  /\ Forget(f)
  /\ UNCHANGED <<opened, notify, answer>>

-----------------------------------------------------------------------------
(* Releasing the name: the end of checkTerminated, and the catch block of    *)
(* trySpawnReactor, entered before the frame has run or after it has ended   *)

Terminate(f) ==
  /\ f \in Stopping
  /\ pc[f] = "running"
  /\ Goto(f, "terminate")
  /\ UNCHANGED <<entry, seen, chan, opened, own, notify, answer>>

Find == [end |-> "terminate", fail |-> "caught", again |-> "caughtAgain"]
Give == [end |-> "release", fail |-> "giveBack", again |-> "giveBackAgain"]
Releases == DOMAIN Find

\* The name is given up.  The exception that ended a piggybacked frame leaves
\* activate and takes the spawner into the catch block; an orderly end does
\* not.
GivenUp(f, r) ==
  /\ \/ Goto(f, IF r = "again" THEN "releasedTwice" ELSE "stopped")
     \/ r = "end" /\ f \in Piggybacked /\ Goto(f, "caughtAgain")
  /\ own' = [own EXCEPT ![f] = NoConns]

\* "Frame removed before termination", "Frame removed before being scheduled":
\* an exception too.
NothingToRelease(f, r) ==
  /\ Goto(f, IF r = "end" /\ f \in Piggybacked THEN "caughtAgain" ELSE "stopped")
  /\ own' = [own EXCEPT ![f] = NoConns]

FindName(f, r) ==
  /\ pc[f] = Find[r]
  /\ IF entry # Null
       THEN ForName(f, Give[r]) /\ UNCHANGED own
       ELSE NothingToRelease(f, r) /\ UNCHANGED seen
  /\ UNCHANGED <<entry, chan, opened, notify, answer>>

\* retainOnlyListeners: with listeners the entry is compared and replaced,
\* without listeners it is removed, whatever it is by then.
Release(f, r) ==
  /\ pc[f] = Give[r]
  /\ \/ /\ seen[f].listeners # NoListeners /\ Unchanged(f)
        /\ entry' = [entry EXCEPT !.frame = Null, !.conns = NoConns]
        /\ GivenUp(f, r)
     \/ /\ seen[f].listeners # NoListeners /\ ~Unchanged(f)
        /\ Goto(f, Find[r])
        /\ UNCHANGED <<entry, own>>
     \/ /\ seen[f].listeners = NoListeners
        /\ entry' = Null
        /\ GivenUp(f, r)
  /\ Forget(f)
  /\ UNCHANGED <<chan, opened, notify, answer>>

-----------------------------------------------------------------------------
(* Channels.await *)

\* Mutant: a connector under the name is not looked for.
AwaitLookupBlind(a) == ForName(a, "register") /\ UNCHANGED answer

\* forName; a connector under the name is the answer.
AwaitLookup(a) ==
  IF entry # Null /\ entry.conns[chan'[a]] # Null
    THEN /\ answer' = [answer EXCEPT ![a] = entry.conns[chan'[a]]]
         /\ Goto(a, "returned")
         /\ UNCHANGED seen
    ELSE ForName(a, "register") /\ UNCHANGED answer

AwaitStart(a, n) ==
  /\ pc[a] = "idle"
  /\ chan' = [chan EXCEPT ![a] = n]
  /\ AwaitLookup(a)
  /\ UNCHANGED <<entry, opened, own, notify>>

AwaitRetry(a) ==
  /\ pc[a] = "retry"
  /\ UNCHANGED chan
  /\ AwaitLookup(a)
  /\ UNCHANGED <<entry, opened, own, notify>>

\* The entry info with the listener a of channel n.
Listening(info, a, n) ==
  IF info = Null
    THEN [frame |-> Null, conns |-> NoConns,
          listeners |-> [NoListeners EXCEPT ![n] = {a}]]
    ELSE [info EXCEPT !.listeners[n] = @ \cup {a}]

\* Mutant: the outcome of the comparison is lost.
AwaitRetriesAlways(a) ==
  /\ pc[a] = "register"
  /\ entry' = IF Unchanged(a) THEN Listening(entry, a, chan[a]) ELSE entry
  /\ Goto(a, "retry")
  /\ Forget(a)
  /\ UNCHANGED <<chan, opened, own, notify, answer>>

AwaitRegister(a) ==
  /\ pc[a] = "register"
  /\ IF Unchanged(a)
       THEN entry' = Listening(entry, a, chan[a]) /\ Goto(a, "returned")
       ELSE Goto(a, "retry") /\ UNCHANGED entry
  /\ Forget(a)
  /\ UNCHANGED <<chan, opened, own, notify, answer>>

-----------------------------------------------------------------------------

\* What a thread goes on with once it has begun.
FrameStep(f) ==
  \/ SpawnReserve(f)
  \/ \E p \in Places :
       \/ OpenRead(f, p) \/ OpenPublish(f, p)
       \/ OpenNotify(f, p) \/ OpenReturn(f, p)
  \/ SealRead(f) \/ SealUnpublish(f)
  \/ Activate(f)
  \/ \E r \in Releases : FindName(f, r) \/ Release(f, r)

AwaitStep(a) == AwaitRetry(a) \/ AwaitRegister(a)

Next ==
  \/ \E f \in Frames :
       \/ FrameStep(f)
       \/ SpawnRead(f) \/ SpawnFails(f) \/ Terminate(f)
       \/ \E n \in Names : UserOpen(f, n) \/ UserSeal(f, n)
  \/ \E a \in Awaiters :
       \/ AwaitStep(a)
       \/ \E n \in Names : AwaitStart(a, n)

Spec == Init /\ [][Next]_vars

\* A thread inside one of the operations goes on; a spawn that was refused
\* by a lost comparison is tried again.
FairSpec ==
  /\ Spec
  /\ \A f \in Frames : WF_vars(FrameStep(f)) /\ WF_vars(SpawnRead(f))
  /\ \A a \in Awaiters : WF_vars(AwaitStep(a))

-----------------------------------------------------------------------------
(* Safety *)

\* The frame has reserved the name and not given it up.
Holds(f) ==
  pc[f] \notin {"idle", "reserve", "refused", "stopped",
                "caughtAgain", "giveBackAgain", "releasedTwice"}

\* No name has been released a second time by the spawner of a piggybacked
\* frame (ReactorSystem.scala:158-178 after Frame.scala:471-483).
ReleasedOnce == \A f \in Frames : pc[f] # "releasedTwice"

\* checkTerminated finds the name of its frame: the comment on its exception
\* says "This should not happen, since the frame is at all times isolated"
\* (Frame.scala:474).  It does, unless some frame is piggybacked.
NameFound == \A f \in Frames : pc[f] = "terminate" => entry # Null

\* The name belongs to exactly the frame that reserved it, from then until
\* that frame releases it, whatever awaits, other spawns and failures of a
\* spawn interfere, until some name has been released twice: no two reactors
\* of one name (ReactorSystem.scala:113-129, Frame.scala:471-483).
NameOwned ==
  ReleasedOnce =>
    \A f \in Frames : Holds(f) <=> entry # Null /\ entry.frame = f

\* Lookup is exact, until some name has been released twice: the connectors in
\* the entry are those its frame has opened and not sealed; no update is lost
\* to a concurrent await (Frame.scala:69-115, 518-530).
ConnectorsPublished ==
  ReleasedOnce /\ entry # Null =>
    entry.conns = IF entry.frame = Null THEN NoConns ELSE own[entry.frame]

Registered(a) ==
  entry # Null /\ \E n \in Names : a \in entry.listeners[n]

\* An IVar is assigned once: an await is answered, about to be answered by
\* one frame, or registered, and never two of these.
AnsweredOnce ==
  \A a \in Awaiters :
    /\ Registered(a) => answer[a] = Null /\ \A f \in Frames : a \notin notify[f]
    /\ \A f \in Frames : a \in notify[f] =>
         answer[a] = Null /\ \A g \in Frames \ {f} : a \notin notify[g]

\* A listener leaves the entry only to be notified, or with the whole entry:
\* spawning, sealing, terminating and other awaits carry it along, until some
\* name has been released twice (a frame whose entry is gone may then seal a
\* connector over a listener).
ListenersKept ==
  [][\A a \in Awaiters :
       ReleasedOnce /\ Registered(a) /\ ~Registered(a)' =>
         entry' = Null \/ \E f \in Frames : a \in notify'[f]]_vars

-----------------------------------------------------------------------------
(* Liveness *)

Bound(n) == n # Null /\ entry # Null /\ entry.conns[n] # Null

\* Channels.await, package.scala:274-278, returns the "IVar with the desired
\* channel": when the awaited channel is there for good, the await is
\* answered.
AwaitAnswered ==
  \A a \in Awaiters : <>[]Bound(chan[a]) => <>(answer[a] # Null)

\* What is left of it: the await is answered when the awaited channel is there
\* for good and no frame has ever given the name up.
AwaitKept ==
  \A a \in Awaiters :
    <>[](Bound(chan[a]) /\ \A f \in Frames : pc[f] \notin {"stopped", "releasedTwice"})
      => <>(answer[a] # Null)
=============================================================================

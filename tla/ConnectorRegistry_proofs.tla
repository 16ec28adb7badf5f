---------------------- MODULE ConnectorRegistry_proofs ----------------------
(***************************************************************************)
(* The safety of one name of the registry, for any number of frames, await *)
(* calls and channel names.  What makes an update of the entry safe is     *)
(* always the same: a thread that wins its comparison finds what it has    *)
(* seen, so what it decided from that still holds (SeenShape); the parts   *)
(* of RegistryInv besides the properties say what it decided and who may   *)
(* be where.                                                               *)
(***************************************************************************)
EXTENDS ConnectorRegistry, TLAPS

-----------------------------------------------------------------------------
(* The inductive invariant *)

\* Frames and awaits run their own code.
PcShape ==
  /\ \A f \in Frames : pc[f] \in FramePcs
  /\ \A a \in Awaiters : pc[a] \in AwaitPcs

\* What a thread is about to replace: a name without a frame, a channel
\* without a connector, an entry that was there.
SeenShape ==
  /\ \A f \in Frames :
       /\ pc[f] = "reserve" => seen[f] = Null \/ seen[f].frame = Null
       /\ pc[f] \in {"publishMain", "publishSys", "publish"} =>
            seen[f] # Null /\ seen[f].conns[chan[f]] = Null
       /\ pc[f] \in {"unpublish", "release", "giveBack", "giveBackAgain"} =>
            seen[f] # Null
  /\ \A a \in Awaiters :
       pc[a] = "register" => seen[a] = Null \/ seen[a].conns[chan[a]] = Null

\* Inside an opening, a seal or an await the channel name is set.
ChanPcs == {"publishMain", "notifyMain", "publishSys", "notifySys",
            "open", "publish", "notify", "seal", "unpublish"}

ChanShape ==
  /\ \A f \in Frames : pc[f] \in ChanPcs => chan[f] \in Names
  /\ \A a \in Awaiters : pc[a] # "idle" => chan[a] \in Names

\* The first two connectors are the standard ones.
OpenedShape ==
  \A f \in Frames :
    /\ pc[f] \in {"idle", "reserve", "openMain", "publishMain"} => opened[f] = 0
    /\ pc[f] \in {"notifyMain", "openSys", "publishSys"} => opened[f] = 1
    /\ pc[f] \in {"open", "publish"} => opened[f] < MaxOpens

\* A frame has connectors only while it holds the name, and seals what it has.
OwnShape ==
  \A f \in Frames :
    /\ ~Holds(f) => own[f] = NoConns
    /\ pc[f] \in {"seal", "unpublish"} => own[f][chan[f]] # Null

\* Only a piggybacked frame is released a second time.
AgainShape ==
  \A f \in Frames :
    pc[f] \in {"caughtAgain", "giveBackAgain", "releasedTwice"} => f \in Piggybacked

\* Until it registers, nobody knows of an await.
AwaitShape ==
  \A a \in Awaiters : pc[a] # "returned" =>
    /\ answer[a] = Null /\ ~Registered(a)
    /\ \A f \in Frames : a \notin notify[f]

\* An await listens for its own channel only.
ListenerChan ==
  entry # Null =>
    \A n \in Names, a \in Awaiters : a \in entry.listeners[n] => chan[a] = n

\* A frame sends to the listeners while it has the connector it opened.
NotifyShape ==
  \A f \in Frames : notify[f] # {} =>
    /\ pc[f] \in {"notifyMain", "notifySys", "notify"}
    /\ own[f][chan[f]] # Null

RegistryInv ==
  /\ TypeOK /\ PcShape /\ SeenShape /\ ChanShape /\ OpenedShape
  /\ OwnShape /\ AgainShape /\ AwaitShape /\ ListenerChan /\ NotifyShape
  /\ NameOwned /\ ConnectorsPublished /\ AnsweredOnce

-----------------------------------------------------------------------------
(* The steps, one case each *)

\* A step is one of the actions of the frames and the awaits, or none.
LEMMA NextCases ==
  ASSUME [Next]_vars
  PROVE  \/ \E f \in Frames :
              \/ SpawnRead(f) \/ SpawnReserve(f) \/ SpawnFails(f)
              \/ SealRead(f) \/ SealUnpublish(f)
              \/ Activate(f) \/ Terminate(f)
         \/ \E f \in Frames, r \in Releases : FindName(f, r) \/ Release(f, r)
         \/ \E f \in Frames, p \in Places :
              \/ OpenRead(f, p) \/ OpenPublish(f, p)
              \/ OpenNotify(f, p) \/ OpenReturn(f, p)
         \/ \E f \in Frames, n \in Names : UserOpen(f, n) \/ UserSeal(f, n)
         \/ \E a \in Awaiters : AwaitRetry(a) \/ AwaitRegister(a)
         \/ \E a \in Awaiters, n \in Names : AwaitStart(a, n)
         \/ UNCHANGED vars
BY DEF Next, FrameStep, AwaitStep

\* Frames and awaits are threads, and never the same ones.
LEMMA ThreadKinds ==
  /\ \A f \in Frames : f \in Threads /\ f \notin Awaiters
  /\ \A a \in Awaiters : a \in Threads /\ a \notin Frames
BY RegistryAssumption DEF Threads

\* Places are the three ways to open.
LEMMA PlaceCases ==
  ASSUME NEW p \in Places
  PROVE  \/ /\ p = "main" /\ Open[p] = "openMain" /\ Publish[p] = "publishMain"
            /\ Notify[p] = "notifyMain" /\ Next3[p] = "openSys"
            /\ Thrown[p] = "caught"
         \/ /\ p = "sys" /\ Open[p] = "openSys" /\ Publish[p] = "publishSys"
            /\ Notify[p] = "notifySys" /\ Next3[p] = "activate"
            /\ Thrown[p] = "caught"
         \/ /\ p = "user" /\ Open[p] = "open" /\ Publish[p] = "publish"
            /\ Notify[p] = "notify" /\ Next3[p] = "running"
            /\ Thrown[p] = "running"
<1>1. p \in {"main", "sys", "user"}
  BY DEF Places, Open
<1> QED
  BY <1>1 DEF Open, Publish, Notify, Next3, Thrown

\* Releases are the three ways to give a name up.
LEMMA ReleaseCases ==
  ASSUME NEW r \in Releases
  PROVE  \/ r = "end" /\ Find[r] = "terminate" /\ Give[r] = "release"
         \/ r = "fail" /\ Find[r] = "caught" /\ Give[r] = "giveBack"
         \/ r = "again" /\ Find[r] = "caughtAgain" /\ Give[r] = "giveBackAgain"
<1>1. r \in {"end", "fail", "again"}
  BY DEF Releases, Find
<1> QED
  BY <1>1 DEF Find, Give

\* The fields of an entry.
LEMMA InfoFields ==
  ASSUME NEW i \in Info
  PROVE  /\ i.frame \in Frames \cup {Null}
         /\ i.conns \in [Names -> Connectors \cup {Null}]
         /\ i.listeners \in [Names -> SUBSET Awaiters]
         /\ \A n \in Names : i.conns[n] = Null \/ i.listeners[n] = {}
         /\ i # Null
BY NullAssumption DEF Info

\* An entry is its fields.
LEMMA InfoIntro ==
  ASSUME NEW fr \in Frames \cup {Null},
         NEW cs \in [Names -> Connectors \cup {Null}],
         NEW ls \in [Names -> SUBSET Awaiters],
         \A n \in Names : cs[n] = Null \/ ls[n] = {}
  PROVE  [frame |-> fr, conns |-> cs, listeners |-> ls] \in Info
BY DEF Info

-----------------------------------------------------------------------------
(* The updates of the entry *)

\* A spawn's claim of an entry that has only listeners.
LEMMA ClaimEntry ==
  ASSUME NEW i \in Info, NEW f \in Frames
  PROVE  LET j == [i EXCEPT !.frame = f]
         IN  /\ j.frame = f
             /\ j.conns = i.conns
             /\ j.listeners = i.listeners
             /\ j \in Info
BY DEF Info

\* retainOnlyListeners.
LEMMA OnlyListeners ==
  ASSUME NEW i \in Info
  PROVE  LET j == [i EXCEPT !.frame = Null, !.conns = NoConns]
         IN  /\ j.frame = Null
             /\ j.conns = NoConns
             /\ j.listeners = i.listeners
             /\ j \in Info
BY DEF Info, NoConns

\* The listener of an await, in an entry with no connector of that name.
LEMMA NewListener ==
  ASSUME NEW i \in Info, NEW n \in Names, NEW a \in Awaiters, i.conns[n] = Null
  PROVE  LET j == [i EXCEPT !.listeners[n] = @ \cup {a}]
         IN  /\ j.frame = i.frame
             /\ j.conns = i.conns
             /\ j.listeners = [i.listeners EXCEPT ![n] = @ \cup {a}]
             /\ j \in Info
BY DEF Info

\* Once a name has been released twice, that is never undone.
LEMMA ReleasedOnceStep ==
  ASSUME TypeOK, [Next]_vars, ReleasedOnce'
  PROVE  ReleasedOnce
<1> SUFFICES ASSUME NEW g \in Frames, pc[g] = "releasedTwice" PROVE pc'[g] = "releasedTwice"
  BY DEF ReleasedOnce
<1>a. pc \in [Threads -> FramePcs \cup AwaitPcs] /\ g \in Threads
  BY ThreadKinds DEF TypeOK
<1>1. ASSUME NEW f \in Frames,
             \/ SpawnRead(f) \/ SpawnReserve(f) \/ SpawnFails(f)
             \/ SealRead(f) \/ SealUnpublish(f) \/ Activate(f) \/ Terminate(f)
      PROVE  pc'[g] = "releasedTwice"
  BY <1>1, <1>a DEF SpawnRead, SpawnReserve, SpawnFails, SealRead, SealUnpublish, Activate,
                    Terminate, ForName, Goto
<1>2. ASSUME NEW f \in Frames, NEW p \in Places,
             OpenRead(f, p) \/ OpenPublish(f, p) \/ OpenNotify(f, p) \/ OpenReturn(f, p)
      PROVE  pc'[g] = "releasedTwice"
  BY <1>2, <1>a, PlaceCases DEF OpenRead, OpenPublish, OpenNotify, OpenReturn, ForName, Goto
<1>3. ASSUME NEW f \in Frames, NEW r \in Releases, FindName(f, r) \/ Release(f, r)
      PROVE  pc'[g] = "releasedTwice"
  BY <1>3, <1>a, ReleaseCases DEF FindName, Release, GivenUp, NothingToRelease, ForName, Goto
<1>4. ASSUME NEW f \in Frames, NEW n \in Names, UserOpen(f, n) \/ UserSeal(f, n)
      PROVE  pc'[g] = "releasedTwice"
  BY <1>4, <1>a DEF UserOpen, UserSeal, Goto
<1>5. ASSUME NEW a \in Awaiters, AwaitRetry(a) \/ AwaitRegister(a)
      PROVE  pc'[g] = "releasedTwice"
  BY <1>5, <1>a, ThreadKinds DEF AwaitRetry, AwaitRegister, AwaitLookup, ForName, Goto
<1>6. ASSUME NEW a \in Awaiters, NEW n \in Names, AwaitStart(a, n)
      PROVE  pc'[g] = "releasedTwice"
  BY <1>6, <1>a, ThreadKinds DEF AwaitStart, AwaitLookup, ForName, Goto
<1>7. CASE UNCHANGED vars
  BY <1>7 DEF vars
<1> QED
  BY NextCases, <1>1, <1>2, <1>3, <1>4, <1>5, <1>6, <1>7

\* A frame that holds the name has the entry.
LEMMA HolderHasEntry ==
  ASSUME RegistryInv, ReleasedOnce, NEW f \in Frames, Holds(f)
  PROVE  /\ entry \in Info /\ entry # Null /\ entry.frame = f
         /\ entry.conns = own[f]
         /\ \A g \in Frames : Holds(g) <=> g = f
<1>1. entry # Null /\ entry.frame = f
  BY DEF RegistryInv, NameOwned
<1>2. entry \in Info /\ \A g \in Frames : Holds(g) <=> g = f
  BY <1>1 DEF RegistryInv, TypeOK, NameOwned
<1> QED
  BY <1>1, <1>2, NullAssumption DEF RegistryInv, ConnectorsPublished

\* What a spawn does to the entry when it wins: it was free, and what is in it
\* stays.
LEMMA ReserveEffect ==
  ASSUME RegistryInv, NEW f \in Frames, SpawnReserve(f), entry = seen[f]
  PROVE  /\ entry = Null \/ entry.frame = Null
         /\ entry' \in Info /\ entry' # Null /\ entry'.frame = f
         /\ entry = Null => entry'.conns = NoConns /\ entry'.listeners = NoListeners
         /\ entry # Null => /\ entry \in Info /\ entry'.conns = entry.conns
                            /\ entry'.listeners = entry.listeners
         /\ pc[f] = "reserve" /\ pc' = [pc EXCEPT ![f] = "openMain"]
         /\ seen' = [seen EXCEPT ![f] = Null]
         /\ UNCHANGED <<chan, opened, own, notify, answer>>
<1>1. /\ entry = Null \/ entry.frame = Null
      /\ pc[f] = "reserve" /\ pc' = [pc EXCEPT ![f] = "openMain"]
      /\ seen' = [seen EXCEPT ![f] = Null]
      /\ UNCHANGED <<chan, opened, own, notify, answer>>
      /\ entry' = IF entry = Null
                  THEN [frame |-> f, conns |-> NoConns, listeners |-> NoListeners]
                  ELSE [entry EXCEPT !.frame = f]
  BY DEF SpawnReserve, Unchanged, Forget, Goto, RegistryInv, SeenShape
<1>2. /\ NoConns \in [Names -> Connectors \cup {Null}] /\ \A n \in Names : NoConns[n] = Null
      /\ NoListeners \in [Names -> SUBSET Awaiters]
  BY DEF NoConns, NoListeners
<1>3. CASE entry = Null
  <2>1. entry' = [frame |-> f, conns |-> NoConns, listeners |-> NoListeners]
    BY <1>1, <1>3
  <2>2. entry' \in Info
    BY <2>1, <1>2, InfoIntro
  <2> QED
    BY <1>1, <1>3, <2>1, <2>2, NullAssumption
<1>4. CASE entry # Null
  <2>1. entry \in Info
    BY <1>4 DEF RegistryInv, TypeOK
  <2>2. entry' = [entry EXCEPT !.frame = f]
    BY <1>1, <1>4
  <2>3. /\ entry' \in Info /\ entry'.frame = f /\ entry'.conns = entry.conns
        /\ entry'.listeners = entry.listeners
    BY <2>1, <2>2, ClaimEntry
  <2> QED
    BY <1>1, <1>4, <2>1, <2>3, NullAssumption
<1> QED
  BY <1>3, <1>4

\* What opening a connector does when it wins.
Published(f, p, n, k) ==
  /\ pc[f] = Publish[p] /\ pc' = [pc EXCEPT ![f] = Notify[p]]
  /\ Holds(f) /\ entry \in Info /\ entry # Null
  /\ k # Null /\ n = chan[f] /\ opened[f] < MaxOpens
  /\ entry' \in Info /\ entry' # Null /\ entry'.frame = f
  /\ entry'.conns = [entry.conns EXCEPT ![n] = k]
  /\ entry'.listeners = [entry.listeners EXCEPT ![n] = {}]
  /\ notify' = [notify EXCEPT ![f] = entry.listeners[n]]
  /\ opened' = [opened EXCEPT ![f] = opened[f] + 1]
  /\ own' = [own EXCEPT ![f] = [own[f] EXCEPT ![n] = k]]
  /\ seen' = [seen EXCEPT ![f] = Null]
  /\ UNCHANGED <<chan, answer>>

\* A publication that wins its comparison: the entry gets the connector, and the
\* listeners of its name go to the frame that will notify them.
LEMMA PublishEffect ==
  ASSUME RegistryInv, NEW f \in Frames, NEW p \in Places, OpenPublish(f, p),
         entry = seen[f]
  PROVE  \E n \in Names, k \in Connectors : Published(f, p, n, k)
<1> DEFINE k == <<f, opened[f] + 1>>
<1>1. /\ pc[f] = Publish[p] /\ pc' = [pc EXCEPT ![f] = Notify[p]]
      /\ entry' = [entry EXCEPT !.frame = f, !.conns[chan[f]] = k,
                               !.listeners[chan[f]] = {}]
      /\ notify' = [notify EXCEPT ![f] = entry.listeners[chan[f]]]
      /\ opened' = [opened EXCEPT ![f] = opened[f] + 1]
      /\ own' = [own EXCEPT ![f][chan[f]] = k]
      /\ seen' = [seen EXCEPT ![f] = Null]
      /\ UNCHANGED <<chan, answer>>
  BY DEF OpenPublish, Unchanged, Forget, Goto
<1>2. Holds(f)
  BY <1>1, PlaceCases DEF Holds
<1>3. entry \in Info
  BY <1>1, PlaceCases DEF RegistryInv, SeenShape, TypeOK
<1>4. chan[f] \in Names
  BY <1>1, PlaceCases DEF RegistryInv, ChanShape, ChanPcs
<1>5. opened[f] < MaxOpens /\ k \in Connectors
  <2>1. opened[f] \in Nat
    BY DEF RegistryInv, TypeOK
  <2>2. opened[f] < MaxOpens
    BY <1>1, <2>1, PlaceCases, RegistryAssumption DEF RegistryInv, OpenedShape
  <2> QED
    BY <2>1, <2>2, RegistryAssumption DEF Connectors
<1>6. own' = [own EXCEPT ![f] = [own[f] EXCEPT ![chan[f]] = k]]
  BY <1>1
<1>7. /\ entry' \in Info /\ entry'.frame = f
      /\ entry'.conns = [entry.conns EXCEPT ![chan[f]] = k]
      /\ entry'.listeners = [entry.listeners EXCEPT ![chan[f]] = {}]
  <2> HIDE DEF k
  <2> QED
    BY <1>1, <1>3, <1>4, <1>5 DEF Info
<1> QED
  <2>1. k # Null /\ entry' # Null /\ entry # Null
    BY <1>3, <1>5, <1>7, NullAssumption
  <2> HIDE DEF k
  <2>2. Published(f, p, chan[f], k)
    BY <1>1, <1>2, <1>3, <1>4, <1>5, <1>6, <1>7, <2>1 DEF Published
  <2> QED
    BY <1>4, <1>5, <2>2

\* What sealing a connector does when it wins.
Unpublished(f, n) ==
  /\ pc[f] = "unpublish" /\ pc' = [pc EXCEPT ![f] = "running"]
  /\ Holds(f) /\ n = chan[f] /\ own[f][n] # Null
  /\ entry \in Info /\ entry # Null
  /\ entry' \in Info /\ entry' # Null /\ entry'.frame = f
  /\ entry'.conns = [entry.conns EXCEPT ![n] = Null]
  /\ entry'.listeners = [entry.listeners EXCEPT ![n] = {}]
  /\ own' = [own EXCEPT ![f] = [own[f] EXCEPT ![n] = Null]]
  /\ chan' = [chan EXCEPT ![f] = Null]
  /\ seen' = [seen EXCEPT ![f] = Null]
  /\ UNCHANGED <<opened, notify, answer>>

\* A seal that wins its comparison takes one connector out of the entry.
LEMMA UnpublishEffect ==
  ASSUME RegistryInv, NEW f \in Frames, SealUnpublish(f), entry = seen[f]
  PROVE  \E n \in Names : Unpublished(f, n)
<1>1. /\ pc[f] = "unpublish" /\ pc' = [pc EXCEPT ![f] = "running"]
      /\ entry' = Without(entry, f, chan[f])
      /\ own' = [own EXCEPT ![f][chan[f]] = Null]
      /\ chan' = [chan EXCEPT ![f] = Null]
      /\ seen' = [seen EXCEPT ![f] = Null]
      /\ UNCHANGED <<opened, notify, answer>>
  BY DEF SealUnpublish, Unchanged, Forget, Goto
<1>2. Holds(f) /\ chan[f] \in Names /\ own[f][chan[f]] # Null
  BY <1>1 DEF Holds, RegistryInv, ChanShape, ChanPcs, OwnShape
<1>3. entry \in Info
  BY <1>1 DEF RegistryInv, SeenShape, TypeOK
<1>4. own' = [own EXCEPT ![f] = [own[f] EXCEPT ![chan[f]] = Null]]
  BY <1>1
<1>5. /\ entry' \in Info /\ entry'.frame = f
      /\ entry'.conns = [entry.conns EXCEPT ![chan[f]] = Null]
      /\ entry'.listeners = [entry.listeners EXCEPT ![chan[f]] = {}]
  BY <1>1, <1>2, <1>3 DEF Info, Without
<1>6. entry # Null /\ entry' # Null
  BY <1>3, <1>5, NullAssumption
<1>7. Unpublished(f, chan[f])
  BY <1>1, <1>2, <1>3, <1>4, <1>5, <1>6 DEF Unpublished
<1> QED
  BY <1>2, <1>7

\* Where a release leaves the frame when it has given the name up.
Ended(r) ==
  IF r = "again" THEN {"releasedTwice", "stopped"} ELSE {"stopped", "caughtAgain"}

\* What looking for the name does: the entry is read, or there is none.
LEMMA FindEffect ==
  ASSUME RegistryInv, NEW f \in Frames, NEW r \in Releases, FindName(f, r)
  PROVE  /\ pc[f] = Find[r]
         /\ \/ /\ entry # Null /\ pc' = [pc EXCEPT ![f] = Give[r]]
               /\ seen' = [seen EXCEPT ![f] = entry]
               /\ own' = own
            \/ /\ entry = Null
               /\ \E l \in Ended(r) :
                    /\ pc' = [pc EXCEPT ![f] = l]
                    /\ l \in {"stopped"} \cup (IF f \in Piggybacked THEN {"caughtAgain"} ELSE {})
               /\ own' = [own EXCEPT ![f] = NoConns]
               /\ seen' = seen
         /\ UNCHANGED <<entry, chan, opened, notify, answer>>
BY ReleaseCases DEF FindName, NothingToRelease, ForName, Goto, Ended

\* What releasing the name does: the entry goes, or keeps only its listeners,
\* or a listener has come in between and the frame has to look again.
LEMMA ReleaseEffect ==
  ASSUME RegistryInv, NEW f \in Frames, NEW r \in Releases, Release(f, r)
  PROVE  /\ pc[f] = Give[r]
         /\ \/ /\ pc' = [pc EXCEPT ![f] = Find[r]]
               /\ UNCHANGED <<entry, own>>
            \/ /\ \E l \in Ended(r) :
                    /\ pc' = [pc EXCEPT ![f] = l]
                    /\ l = "caughtAgain" => f \in Piggybacked
                    /\ r = "again" => l = "releasedTwice"
               /\ own' = [own EXCEPT ![f] = NoConns]
               /\ \/ entry' = Null
                  \/ /\ entry \in Info /\ entry # Null
                     /\ entry' \in Info /\ entry' # Null /\ entry'.frame = Null
                     /\ entry'.conns = NoConns
                     /\ entry'.listeners = entry.listeners
         /\ seen' = [seen EXCEPT ![f] = Null]
         /\ UNCHANGED <<chan, opened, notify, answer>>
<1>1. /\ pc[f] = Give[r]
      /\ seen' = [seen EXCEPT ![f] = Null]
      /\ UNCHANGED <<chan, opened, notify, answer>>
  BY DEF Release, Forget
<1>2. ASSUME GivenUp(f, r)
      PROVE  /\ \E l \in Ended(r) :
                  /\ pc' = [pc EXCEPT ![f] = l]
                  /\ l = "caughtAgain" => f \in Piggybacked
                  /\ r = "again" => l = "releasedTwice"
             /\ own' = [own EXCEPT ![f] = NoConns]
  BY <1>2, ReleaseCases DEF GivenUp, Goto, Ended
<1>3. CASE /\ seen[f].listeners # NoListeners /\ Unchanged(f)
           /\ entry' = [entry EXCEPT !.frame = Null, !.conns = NoConns]
           /\ GivenUp(f, r)
  <2>1. entry \in Info
    BY <1>1, <1>3, ReleaseCases DEF RegistryInv, SeenShape, TypeOK, Unchanged
  <2>2. /\ entry' \in Info /\ entry'.frame = Null /\ entry'.conns = NoConns
        /\ entry'.listeners = entry.listeners
    BY <1>3, <2>1, OnlyListeners
  <2> QED
    BY <1>1, <1>2, <1>3, <2>1, <2>2, NullAssumption
<1>4. CASE Goto(f, Find[r]) /\ UNCHANGED <<entry, own>>
  BY <1>1, <1>4 DEF Goto
<1>5. CASE entry' = Null /\ GivenUp(f, r)
  BY <1>1, <1>2, <1>5
<1> QED
  BY <1>3, <1>4, <1>5 DEF Release

\* What an await's registration does when it wins.
Enlisted(a, n) ==
  /\ pc[a] = "register" /\ pc' = [pc EXCEPT ![a] = "returned"]
  /\ n = chan[a]
  /\ entry' \in Info /\ entry' # Null
  /\ entry = Null =>
       /\ entry'.frame = Null /\ entry'.conns = NoConns
       /\ entry'.listeners = [NoListeners EXCEPT ![n] = {a}]
  /\ entry # Null =>
       /\ entry \in Info
       /\ entry'.frame = entry.frame /\ entry'.conns = entry.conns
       /\ entry'.listeners = [entry.listeners EXCEPT ![n] = @ \cup {a}]
  /\ seen' = [seen EXCEPT ![a] = Null]
  /\ UNCHANGED <<chan, opened, own, notify, answer>>

\* An await that wins its comparison becomes a listener of its channel.
LEMMA RegisterEffect ==
  ASSUME RegistryInv, NEW a \in Awaiters, AwaitRegister(a), entry = seen[a]
  PROVE  \E n \in Names : Enlisted(a, n)
<1>1. /\ pc[a] = "register" /\ pc' = [pc EXCEPT ![a] = "returned"]
      /\ entry' = Listening(entry, a, chan[a])
      /\ seen' = [seen EXCEPT ![a] = Null]
      /\ UNCHANGED <<chan, opened, own, notify, answer>>
  BY DEF AwaitRegister, Unchanged, Forget, Goto
<1>2. chan[a] \in Names /\ (entry = Null \/ entry.conns[chan[a]] = Null)
  BY <1>1 DEF RegistryInv, ChanShape, SeenShape
<1>3. CASE entry = Null
  <2>1. entry' = [frame |-> Null, conns |-> NoConns,
                  listeners |-> [NoListeners EXCEPT ![chan[a]] = {a}]]
    BY <1>1, <1>3 DEF Listening
  <2>2. /\ NoConns \in [Names -> Connectors \cup {Null}]
        /\ \A n \in Names : NoConns[n] = Null
        /\ [NoListeners EXCEPT ![chan[a]] = {a}] \in [Names -> SUBSET Awaiters]
    BY <1>2 DEF NoConns, NoListeners
  <2>3. entry' \in Info
    BY <2>1, <2>2 DEF Info
  <2>4. /\ entry'.frame = Null /\ entry'.conns = NoConns
        /\ entry'.listeners = [NoListeners EXCEPT ![chan[a]] = {a}]
    BY <2>1
  <2>5. entry' # Null
    BY <2>3, NullAssumption
  <2>6. Enlisted(a, chan[a])
    BY <1>1, <1>3, <2>3, <2>4, <2>5 DEF Enlisted
  <2> QED
    BY <1>2, <2>6
<1>4. CASE entry # Null
  <2>1. entry \in Info
    BY <1>4 DEF RegistryInv, TypeOK
  <2>2. entry' = [entry EXCEPT !.listeners[chan[a]] = @ \cup {a}]
    BY <1>1, <1>4 DEF Listening
  <2>3. /\ entry'.frame = entry.frame /\ entry'.conns = entry.conns
        /\ entry'.listeners = [entry.listeners EXCEPT ![chan[a]] = @ \cup {a}]
        /\ entry' \in Info
    BY <1>2, <1>4, <2>1, <2>2, NewListener
  <2>4. entry' # Null
    BY <2>3, NullAssumption
  <2>5. Enlisted(a, chan[a])
    BY <1>1, <1>4, <2>1, <2>3, <2>4 DEF Enlisted
  <2> QED
    BY <1>2, <2>5
<1> QED
  BY <1>3, <1>4

-----------------------------------------------------------------------------
(* Where threads are *)

\* Every step keeps the threads in their own code.
LEMMA PcShapeStep ==
  ASSUME TypeOK, PcShape, [Next]_vars
  PROVE  PcShape'
<1>a. /\ pc \in [Threads -> FramePcs \cup AwaitPcs]
      /\ seen \in [Threads -> Info \cup {Null}]
      /\ chan \in [Threads -> Names \cup {Null}]
  BY DEF TypeOK
<1>1. ASSUME NEW f \in Frames, SpawnRead(f) PROVE PcShape'
  BY <1>1, <1>a, ThreadKinds
     DEF PcShape, FramePcs, AwaitPcs, SpawnRead, ForName, Goto
<1>2. ASSUME NEW f \in Frames, SpawnReserve(f) PROVE PcShape'
  BY <1>2, <1>a, ThreadKinds
     DEF PcShape, FramePcs, AwaitPcs, SpawnReserve, Unchanged, Forget, Goto
<1>3. ASSUME NEW f \in Frames, SpawnFails(f) PROVE PcShape'
  BY <1>3, <1>a, ThreadKinds
     DEF PcShape, FramePcs, AwaitPcs, SpawnFails, Goto
<1>4. ASSUME NEW f \in Frames, NEW n \in Names, UserOpen(f, n) PROVE PcShape'
  BY <1>4, <1>a, ThreadKinds
     DEF PcShape, FramePcs, AwaitPcs, UserOpen, Goto
<1>5. ASSUME NEW f \in Frames, NEW p \in Places, OpenRead(f, p) PROVE PcShape'
  BY <1>5, <1>a, ThreadKinds, PlaceCases
     DEF PcShape, FramePcs, AwaitPcs, OpenRead, ForName, Goto
<1>6. ASSUME NEW f \in Frames, NEW p \in Places, OpenPublish(f, p) PROVE PcShape'
  BY <1>6, <1>a, ThreadKinds, PlaceCases
     DEF PcShape, FramePcs, AwaitPcs, OpenPublish, Unchanged, Forget, Goto
<1>7. ASSUME NEW f \in Frames, NEW p \in Places, OpenNotify(f, p) PROVE PcShape'
  BY <1>7, <1>a, ThreadKinds, PlaceCases
     DEF PcShape, FramePcs, AwaitPcs, OpenNotify
<1>8. ASSUME NEW f \in Frames, NEW p \in Places, OpenReturn(f, p) PROVE PcShape'
  BY <1>8, <1>a, ThreadKinds, PlaceCases
     DEF PcShape, FramePcs, AwaitPcs, OpenReturn, Goto
<1>9. ASSUME NEW f \in Frames, NEW n \in Names, UserSeal(f, n) PROVE PcShape'
  BY <1>9, <1>a, ThreadKinds
     DEF PcShape, FramePcs, AwaitPcs, UserSeal, Goto
<1>10. ASSUME NEW f \in Frames, SealRead(f) PROVE PcShape'
  BY <1>10, <1>a, ThreadKinds
     DEF PcShape, FramePcs, AwaitPcs, SealRead, ForName, Goto
<1>11. ASSUME NEW f \in Frames, SealUnpublish(f) PROVE PcShape'
  BY <1>11, <1>a, ThreadKinds
     DEF PcShape, FramePcs, AwaitPcs, SealUnpublish, Unchanged, Forget, Goto
<1>12. ASSUME NEW f \in Frames, Terminate(f) PROVE PcShape'
  BY <1>12, <1>a, ThreadKinds
     DEF PcShape, FramePcs, AwaitPcs, Terminate, Goto
<1>13. ASSUME NEW f \in Frames, NEW r \in Releases, FindName(f, r) PROVE PcShape'
  BY <1>13, <1>a, ThreadKinds, ReleaseCases
     DEF PcShape, FramePcs, AwaitPcs, FindName, NothingToRelease, ForName, Goto
<1>14. ASSUME NEW f \in Frames, NEW r \in Releases, Release(f, r) PROVE PcShape'
  BY <1>14, <1>a, ThreadKinds, ReleaseCases
     DEF PcShape, FramePcs, AwaitPcs, Release, GivenUp, Unchanged, Forget, Goto
<1>15. ASSUME NEW a \in Awaiters, NEW n \in Names, AwaitStart(a, n) PROVE PcShape'
  BY <1>15, <1>a, ThreadKinds
     DEF PcShape, FramePcs, AwaitPcs, AwaitStart, AwaitLookup, ForName, Goto
<1>16. ASSUME NEW a \in Awaiters, AwaitRetry(a) PROVE PcShape'
  BY <1>16, <1>a, ThreadKinds
     DEF PcShape, FramePcs, AwaitPcs, AwaitRetry, AwaitLookup, ForName, Goto
<1>17. ASSUME NEW a \in Awaiters, AwaitRegister(a) PROVE PcShape'
  BY <1>17, <1>a, ThreadKinds
     DEF PcShape, FramePcs, AwaitPcs, AwaitRegister, Unchanged, Forget, Goto
<1>18. CASE UNCHANGED vars
  BY <1>18
     DEF PcShape, FramePcs, AwaitPcs, vars
<1>19. ASSUME NEW f \in Frames, Activate(f) PROVE PcShape'
  BY <1>19, <1>a, ThreadKinds
     DEF PcShape, FramePcs, AwaitPcs, Activate, Goto
<1> QED
  BY NextCases, <1>1, <1>2, <1>3, <1>4, <1>5, <1>6, <1>7, <1>8, <1>9, <1>10, <1>11,
     <1>12, <1>13, <1>14, <1>15, <1>16, <1>17, <1>18, <1>19

\* An opening has a name to open.
LEMMA ChanNameKnown ==
  ASSUME ChanShape, NEW f \in Frames, NEW p \in Places, pc[f] = Open[p]
  PROVE  ChanName(f, p) \in Names
BY PlaceCases, RegistryAssumption DEF ChanName, ChanShape, ChanPcs

\* Every step keeps the channel names of the operations in progress.
LEMMA ChanShapeStep ==
  ASSUME TypeOK, PcShape, ChanShape, [Next]_vars
  PROVE  ChanShape'
<1>a. /\ pc \in [Threads -> FramePcs \cup AwaitPcs]
      /\ seen \in [Threads -> Info \cup {Null}]
      /\ chan \in [Threads -> Names \cup {Null}]
  BY DEF TypeOK
<1>1. ASSUME NEW f \in Frames, SpawnRead(f) PROVE ChanShape'
  BY <1>1, <1>a, ThreadKinds, RegistryAssumption
     DEF ChanShape, ChanPcs, SpawnRead, ForName, Goto
<1>2. ASSUME NEW f \in Frames, SpawnReserve(f) PROVE ChanShape'
  BY <1>2, <1>a, ThreadKinds, RegistryAssumption
     DEF ChanShape, ChanPcs, SpawnReserve, Unchanged, Forget, Goto
<1>3. ASSUME NEW f \in Frames, SpawnFails(f) PROVE ChanShape'
  BY <1>3, <1>a, ThreadKinds, RegistryAssumption
     DEF ChanShape, ChanPcs, SpawnFails, Goto
<1>4. ASSUME NEW f \in Frames, NEW n \in Names, UserOpen(f, n) PROVE ChanShape'
  BY <1>4, <1>a, ThreadKinds, RegistryAssumption
     DEF ChanShape, ChanPcs, UserOpen, Goto
<1>5. ASSUME NEW f \in Frames, NEW p \in Places, OpenRead(f, p) PROVE ChanShape'
  <2>1. pc[f] = Open[p] /\ ChanName(f, p) \in Names
    BY <1>5, ChanNameKnown DEF OpenRead
  <2> QED
    BY <1>5, <1>a, <2>1, ThreadKinds, PlaceCases
       DEF ChanShape, ChanPcs, OpenRead, ForName, Goto
<1>6. ASSUME NEW f \in Frames, NEW p \in Places, OpenPublish(f, p) PROVE ChanShape'
  BY <1>6, <1>a, ThreadKinds, RegistryAssumption, PlaceCases
     DEF ChanShape, ChanPcs, OpenPublish, Unchanged, Forget, Goto
<1>7. ASSUME NEW f \in Frames, NEW p \in Places, OpenNotify(f, p) PROVE ChanShape'
  BY <1>7, <1>a, ThreadKinds, RegistryAssumption, PlaceCases
     DEF ChanShape, ChanPcs, OpenNotify
<1>8. ASSUME NEW f \in Frames, NEW p \in Places, OpenReturn(f, p) PROVE ChanShape'
  BY <1>8, <1>a, ThreadKinds, RegistryAssumption, PlaceCases
     DEF ChanShape, ChanPcs, OpenReturn, Goto
<1>9. ASSUME NEW f \in Frames, NEW n \in Names, UserSeal(f, n) PROVE ChanShape'
  BY <1>9, <1>a, ThreadKinds, RegistryAssumption
     DEF ChanShape, ChanPcs, UserSeal, Goto
<1>10. ASSUME NEW f \in Frames, SealRead(f) PROVE ChanShape'
  BY <1>10, <1>a, ThreadKinds, RegistryAssumption
     DEF ChanShape, ChanPcs, SealRead, ForName, Goto
<1>11. ASSUME NEW f \in Frames, SealUnpublish(f) PROVE ChanShape'
  BY <1>11, <1>a, ThreadKinds, RegistryAssumption
     DEF ChanShape, ChanPcs, SealUnpublish, Unchanged, Forget, Goto
<1>12. ASSUME NEW f \in Frames, Terminate(f) PROVE ChanShape'
  BY <1>12, <1>a, ThreadKinds, RegistryAssumption
     DEF ChanShape, ChanPcs, Terminate, Goto
<1>13. ASSUME NEW f \in Frames, NEW r \in Releases, FindName(f, r) PROVE ChanShape'
  BY <1>13, <1>a, ThreadKinds, ReleaseCases, RegistryAssumption
     DEF ChanShape, ChanPcs, FindName, NothingToRelease, ForName, Goto
<1>14. ASSUME NEW f \in Frames, NEW r \in Releases, Release(f, r) PROVE ChanShape'
  BY <1>14, <1>a, ThreadKinds, ReleaseCases, RegistryAssumption
     DEF ChanShape, ChanPcs, Release, GivenUp, Unchanged, Forget, Goto
<1>15. ASSUME NEW a \in Awaiters, NEW n \in Names, AwaitStart(a, n) PROVE ChanShape'
  BY <1>15, <1>a, ThreadKinds, RegistryAssumption
     DEF ChanShape, ChanPcs, AwaitStart, AwaitLookup, ForName, Goto
<1>16. ASSUME NEW a \in Awaiters, AwaitRetry(a) PROVE ChanShape'
  BY <1>16, <1>a, ThreadKinds, RegistryAssumption
     DEF ChanShape, ChanPcs, AwaitRetry, AwaitLookup, ForName, Goto
<1>17. ASSUME NEW a \in Awaiters, AwaitRegister(a) PROVE ChanShape'
  BY <1>17, <1>a, ThreadKinds, RegistryAssumption
     DEF ChanShape, ChanPcs, AwaitRegister, Unchanged, Forget, Goto
<1>18. CASE UNCHANGED vars
  BY <1>18
     DEF ChanShape, ChanPcs, vars
<1>19. ASSUME NEW f \in Frames, Activate(f) PROVE ChanShape'
  BY <1>19, <1>a, ThreadKinds, RegistryAssumption
     DEF ChanShape, ChanPcs, Activate, Goto
<1> QED
  BY NextCases, <1>1, <1>2, <1>3, <1>4, <1>5, <1>6, <1>7, <1>8, <1>9, <1>10, <1>11,
     <1>12, <1>13, <1>14, <1>15, <1>16, <1>17, <1>18, <1>19

\* Every step keeps the number of connectors within what the frame has begun.
LEMMA OpenedShapeStep ==
  ASSUME TypeOK, PcShape, OpenedShape, [Next]_vars
  PROVE  OpenedShape'
<1>a. /\ pc \in [Threads -> FramePcs \cup AwaitPcs]
      /\ seen \in [Threads -> Info \cup {Null}]
      /\ chan \in [Threads -> Names \cup {Null}]
      /\ opened \in [Frames -> 0 .. MaxOpens]
  BY DEF TypeOK
<1>1. ASSUME NEW f \in Frames, SpawnRead(f) PROVE OpenedShape'
  BY <1>1, <1>a, ThreadKinds, RegistryAssumption
     DEF OpenedShape, SpawnRead, ForName, Goto
<1>2. ASSUME NEW f \in Frames, SpawnReserve(f) PROVE OpenedShape'
  BY <1>2, <1>a, ThreadKinds, RegistryAssumption
     DEF OpenedShape, SpawnReserve, Unchanged, Forget, Goto
<1>3. ASSUME NEW f \in Frames, SpawnFails(f) PROVE OpenedShape'
  BY <1>3, <1>a, ThreadKinds, RegistryAssumption
     DEF OpenedShape, SpawnFails, Goto
<1>4. ASSUME NEW f \in Frames, NEW n \in Names, UserOpen(f, n) PROVE OpenedShape'
  BY <1>4, <1>a, ThreadKinds, RegistryAssumption
     DEF OpenedShape, UserOpen, Goto
<1>5. ASSUME NEW f \in Frames, NEW p \in Places, OpenRead(f, p) PROVE OpenedShape'
  BY <1>5, <1>a, ThreadKinds, RegistryAssumption, PlaceCases
     DEF OpenedShape, OpenRead, ForName, Goto
<1>6. ASSUME NEW f \in Frames, NEW p \in Places, OpenPublish(f, p) PROVE OpenedShape'
  BY <1>6, <1>a, ThreadKinds, RegistryAssumption, PlaceCases
     DEF OpenedShape, OpenPublish, Unchanged, Forget, Goto
<1>7. ASSUME NEW f \in Frames, NEW p \in Places, OpenNotify(f, p) PROVE OpenedShape'
  BY <1>7, <1>a, ThreadKinds, RegistryAssumption, PlaceCases
     DEF OpenedShape, OpenNotify
<1>8. ASSUME NEW f \in Frames, NEW p \in Places, OpenReturn(f, p) PROVE OpenedShape'
  BY <1>8, <1>a, ThreadKinds, RegistryAssumption, PlaceCases
     DEF OpenedShape, OpenReturn, Goto
<1>9. ASSUME NEW f \in Frames, NEW n \in Names, UserSeal(f, n) PROVE OpenedShape'
  BY <1>9, <1>a, ThreadKinds, RegistryAssumption
     DEF OpenedShape, UserSeal, Goto
<1>10. ASSUME NEW f \in Frames, SealRead(f) PROVE OpenedShape'
  BY <1>10, <1>a, ThreadKinds, RegistryAssumption
     DEF OpenedShape, SealRead, ForName, Goto
<1>11. ASSUME NEW f \in Frames, SealUnpublish(f) PROVE OpenedShape'
  BY <1>11, <1>a, ThreadKinds, RegistryAssumption
     DEF OpenedShape, SealUnpublish, Unchanged, Forget, Goto
<1>12. ASSUME NEW f \in Frames, Terminate(f) PROVE OpenedShape'
  BY <1>12, <1>a, ThreadKinds, RegistryAssumption
     DEF OpenedShape, Terminate, Goto
<1>13. ASSUME NEW f \in Frames, NEW r \in Releases, FindName(f, r) PROVE OpenedShape'
  BY <1>13, <1>a, ThreadKinds, ReleaseCases, RegistryAssumption
     DEF OpenedShape, FindName, NothingToRelease, ForName, Goto
<1>14. ASSUME NEW f \in Frames, NEW r \in Releases, Release(f, r) PROVE OpenedShape'
  BY <1>14, <1>a, ThreadKinds, ReleaseCases, RegistryAssumption
     DEF OpenedShape, Release, GivenUp, Unchanged, Forget, Goto
<1>15. ASSUME NEW a \in Awaiters, NEW n \in Names, AwaitStart(a, n) PROVE OpenedShape'
  BY <1>15, <1>a, ThreadKinds, RegistryAssumption
     DEF OpenedShape, AwaitStart, AwaitLookup, ForName, Goto
<1>16. ASSUME NEW a \in Awaiters, AwaitRetry(a) PROVE OpenedShape'
  BY <1>16, <1>a, ThreadKinds, RegistryAssumption
     DEF OpenedShape, AwaitRetry, AwaitLookup, ForName, Goto
<1>17. ASSUME NEW a \in Awaiters, AwaitRegister(a) PROVE OpenedShape'
  BY <1>17, <1>a, ThreadKinds, RegistryAssumption
     DEF OpenedShape, AwaitRegister, Unchanged, Forget, Goto
<1>18. CASE UNCHANGED vars
  BY <1>18
     DEF OpenedShape, vars
<1>19. ASSUME NEW f \in Frames, Activate(f) PROVE OpenedShape'
  BY <1>19, <1>a, ThreadKinds, RegistryAssumption
     DEF OpenedShape, Activate, Goto
<1> QED
  BY NextCases, <1>1, <1>2, <1>3, <1>4, <1>5, <1>6, <1>7, <1>8, <1>9, <1>10, <1>11,
     <1>12, <1>13, <1>14, <1>15, <1>16, <1>17, <1>18, <1>19

\* Every step keeps what a thread has seen and decided from.
LEMMA SeenShapeStep ==
  ASSUME TypeOK, PcShape, SeenShape, [Next]_vars
  PROVE  SeenShape'
<1>a. /\ pc \in [Threads -> FramePcs \cup AwaitPcs]
      /\ seen \in [Threads -> Info \cup {Null}]
      /\ chan \in [Threads -> Names \cup {Null}]
  BY DEF TypeOK
<1>1. ASSUME NEW f \in Frames, SpawnRead(f) PROVE SeenShape'
  BY <1>1, <1>a, ThreadKinds
     DEF SeenShape, PcShape, AwaitPcs, SpawnRead, ForName, Goto
<1>2. ASSUME NEW f \in Frames, SpawnReserve(f) PROVE SeenShape'
  BY <1>2, <1>a, ThreadKinds
     DEF SeenShape, PcShape, AwaitPcs, SpawnReserve, Unchanged, Forget, Goto
<1>3. ASSUME NEW f \in Frames, SpawnFails(f) PROVE SeenShape'
  BY <1>3, <1>a, ThreadKinds
     DEF SeenShape, PcShape, AwaitPcs, SpawnFails, Goto
<1>4. ASSUME NEW f \in Frames, NEW n \in Names, UserOpen(f, n) PROVE SeenShape'
  BY <1>4, <1>a, ThreadKinds
     DEF SeenShape, PcShape, AwaitPcs, UserOpen, Goto
<1>5. ASSUME NEW f \in Frames, NEW p \in Places, OpenRead(f, p) PROVE SeenShape'
  BY <1>5, <1>a, ThreadKinds, PlaceCases
     DEF SeenShape, PcShape, AwaitPcs, OpenRead, ForName, Goto
<1>6. ASSUME NEW f \in Frames, NEW p \in Places, OpenPublish(f, p) PROVE SeenShape'
  BY <1>6, <1>a, ThreadKinds, PlaceCases
     DEF SeenShape, PcShape, AwaitPcs, OpenPublish, Unchanged, Forget, Goto
<1>7. ASSUME NEW f \in Frames, NEW p \in Places, OpenNotify(f, p) PROVE SeenShape'
  BY <1>7, <1>a, ThreadKinds, PlaceCases
     DEF SeenShape, PcShape, AwaitPcs, OpenNotify
<1>8. ASSUME NEW f \in Frames, NEW p \in Places, OpenReturn(f, p) PROVE SeenShape'
  BY <1>8, <1>a, ThreadKinds, PlaceCases
     DEF SeenShape, PcShape, AwaitPcs, OpenReturn, Goto
<1>9. ASSUME NEW f \in Frames, NEW n \in Names, UserSeal(f, n) PROVE SeenShape'
  BY <1>9, <1>a, ThreadKinds
     DEF SeenShape, PcShape, AwaitPcs, UserSeal, Goto
<1>10. ASSUME NEW f \in Frames, SealRead(f) PROVE SeenShape'
  BY <1>10, <1>a, ThreadKinds
     DEF SeenShape, PcShape, AwaitPcs, SealRead, ForName, Goto
<1>11. ASSUME NEW f \in Frames, SealUnpublish(f) PROVE SeenShape'
  BY <1>11, <1>a, ThreadKinds
     DEF SeenShape, PcShape, AwaitPcs, SealUnpublish, Unchanged, Forget, Goto
<1>12. ASSUME NEW f \in Frames, Terminate(f) PROVE SeenShape'
  BY <1>12, <1>a, ThreadKinds
     DEF SeenShape, PcShape, AwaitPcs, Terminate, Goto
<1>13. ASSUME NEW f \in Frames, NEW r \in Releases, FindName(f, r) PROVE SeenShape'
  BY <1>13, <1>a, ThreadKinds, ReleaseCases
     DEF SeenShape, PcShape, AwaitPcs, FindName, NothingToRelease, ForName, Goto
<1>14. ASSUME NEW f \in Frames, NEW r \in Releases, Release(f, r) PROVE SeenShape'
  BY <1>14, <1>a, ThreadKinds, ReleaseCases
     DEF SeenShape, PcShape, AwaitPcs, Release, GivenUp, Unchanged, Forget, Goto
<1>15. ASSUME NEW a \in Awaiters, NEW n \in Names, AwaitStart(a, n) PROVE SeenShape'
  BY <1>15, <1>a, ThreadKinds
     DEF SeenShape, PcShape, AwaitPcs, AwaitStart, AwaitLookup, ForName, Goto
<1>16. ASSUME NEW a \in Awaiters, AwaitRetry(a) PROVE SeenShape'
  BY <1>16, <1>a, ThreadKinds
     DEF SeenShape, PcShape, AwaitPcs, AwaitRetry, AwaitLookup, ForName, Goto
<1>17. ASSUME NEW a \in Awaiters, AwaitRegister(a) PROVE SeenShape'
  BY <1>17, <1>a, ThreadKinds
     DEF SeenShape, PcShape, AwaitPcs, AwaitRegister, Unchanged, Forget, Goto
<1>18. CASE UNCHANGED vars
  BY <1>18
     DEF SeenShape, PcShape, AwaitPcs, vars
<1>19. ASSUME NEW f \in Frames, Activate(f) PROVE SeenShape'
  BY <1>19, <1>a, ThreadKinds
     DEF SeenShape, PcShape, AwaitPcs, Activate, Goto
<1> QED
  BY NextCases, <1>1, <1>2, <1>3, <1>4, <1>5, <1>6, <1>7, <1>8, <1>9, <1>10, <1>11,
     <1>12, <1>13, <1>14, <1>15, <1>16, <1>17, <1>18, <1>19

-----------------------------------------------------------------------------
(* Types *)

\* Every step keeps the types; what is published is a connector.
LEMMA TypeStep ==
  ASSUME RegistryInv, [Next]_vars
  PROVE  TypeOK'
<1>a. /\ pc \in [Threads -> FramePcs \cup AwaitPcs]
      /\ seen \in [Threads -> Info \cup {Null}]
      /\ chan \in [Threads -> Names \cup {Null}]
      /\ opened \in [Frames -> 0 .. MaxOpens]
      /\ own \in [Frames -> [Names -> Connectors \cup {Null}]]
      /\ notify \in [Frames -> SUBSET Awaiters]
      /\ answer \in [Awaiters -> Connectors \cup {Null}]
      /\ entry \in Info \cup {Null}
  BY DEF RegistryInv, TypeOK
<1>1. ASSUME NEW f \in Frames, SpawnRead(f) PROVE TypeOK'
  BY <1>1, <1>a, ThreadKinds
     DEF RegistryInv, TypeOK, FramePcs, AwaitPcs, SpawnRead, ForName, Goto
<1>2. ASSUME NEW f \in Frames, SpawnReserve(f) PROVE TypeOK'
  <2>1. CASE entry = seen[f]
    BY <1>2, <2>1, ReserveEffect, <1>a, ThreadKinds
       DEF RegistryInv, TypeOK, FramePcs, AwaitPcs
  <2>2. CASE entry # seen[f]
    BY <1>2, <2>2, <1>a, ThreadKinds
       DEF RegistryInv, TypeOK, FramePcs, AwaitPcs, SpawnReserve, Unchanged, Forget,
           Goto
  <2> QED
    BY <2>1, <2>2
<1>3. ASSUME NEW f \in Frames, SpawnFails(f) PROVE TypeOK'
  BY <1>3, <1>a, ThreadKinds
     DEF RegistryInv, TypeOK, FramePcs, AwaitPcs, SpawnFails, Goto
<1>4. ASSUME NEW f \in Frames, NEW n \in Names, UserOpen(f, n) PROVE TypeOK'
  BY <1>4, <1>a, ThreadKinds
     DEF RegistryInv, TypeOK, FramePcs, AwaitPcs, UserOpen, Goto
<1>5. ASSUME NEW f \in Frames, NEW p \in Places, OpenRead(f, p) PROVE TypeOK'
  <2>1. pc[f] = Open[p] /\ ChanName(f, p) \in Names
    BY <1>5, ChanNameKnown DEF OpenRead, RegistryInv
  <2> QED
    BY <1>5, <1>a, <2>1, ThreadKinds, PlaceCases
       DEF TypeOK, FramePcs, OpenRead, ForName, Goto
<1>6. ASSUME NEW f \in Frames, NEW p \in Places, OpenPublish(f, p) PROVE TypeOK'
  <2>1. CASE entry = seen[f]
    <3>1. PICK n \in Names, k \in Connectors : Published(f, p, n, k)
      BY <1>6, <2>1, PublishEffect
    <3> USE <3>1, <1>a DEF Published
    <3>2. /\ pc' \in [Threads -> FramePcs \cup AwaitPcs]
          /\ seen' \in [Threads -> Info \cup {Null}]
      BY ThreadKinds, PlaceCases DEF FramePcs
    <3>3. opened' \in [Frames -> 0 .. MaxOpens]
      BY RegistryAssumption
    <3>4. own' \in [Frames -> [Names -> Connectors \cup {Null}]]
      OBVIOUS
    <3>5. notify' \in [Frames -> SUBSET Awaiters]
      BY InfoFields
    <3> QED
      BY <3>2, <3>3, <3>4, <3>5 DEF TypeOK
  <2>2. CASE entry # seen[f]
    BY <1>6, <2>2, PlaceCases, <1>a, ThreadKinds
       DEF RegistryInv, TypeOK, FramePcs, AwaitPcs, OpenPublish, Unchanged, Forget, Goto
  <2> QED
    BY <2>1, <2>2
<1>7. ASSUME NEW f \in Frames, NEW p \in Places, OpenNotify(f, p) PROVE TypeOK'
  BY <1>7, <1>a, ThreadKinds, PlaceCases
     DEF RegistryInv, TypeOK, FramePcs, AwaitPcs, OpenNotify, ChanShape, ChanPcs
<1>8. ASSUME NEW f \in Frames, NEW p \in Places, OpenReturn(f, p) PROVE TypeOK'
  BY <1>8, <1>a, ThreadKinds, PlaceCases
     DEF RegistryInv, TypeOK, FramePcs, AwaitPcs, OpenReturn, Goto
<1>9. ASSUME NEW f \in Frames, NEW n \in Names, UserSeal(f, n) PROVE TypeOK'
  BY <1>9, <1>a, ThreadKinds
     DEF RegistryInv, TypeOK, FramePcs, AwaitPcs, UserSeal, Goto
<1>10. ASSUME NEW f \in Frames, SealRead(f) PROVE TypeOK'
  <2>1. own' \in [Frames -> [Names -> Connectors \cup {Null}]]
    BY <1>10, <1>a DEF SealRead
  <2> QED
    <3>1. \E l \in FramePcs : pc' = [pc EXCEPT ![f] = l]
      BY <1>10 DEF FramePcs, SealRead, ForName, Goto
    <3>2. /\ seen' = [seen EXCEPT ![f] = entry] \/ seen' = seen
          /\ chan' = [chan EXCEPT ![f] = Null] \/ chan' = chan
          /\ UNCHANGED <<entry, opened, notify, answer>>
      BY <1>10 DEF SealRead, ForName
    <3>3. /\ pc' \in [Threads -> FramePcs \cup AwaitPcs]
          /\ seen' \in [Threads -> Info \cup {Null}]
          /\ chan' \in [Threads -> Names \cup {Null}]
      <4>1. pc' \in [Threads -> FramePcs \cup AwaitPcs]
        BY <3>1, <1>a
      <4> QED
        BY <4>1, <3>2, <1>a
    <3> QED
      BY <2>1, <3>2, <3>3, <1>a DEF TypeOK
<1>11. ASSUME NEW f \in Frames, SealUnpublish(f) PROVE TypeOK'
  <2>1. CASE entry = seen[f]
    <3>1. PICK m \in Names : Unpublished(f, m)
      BY <1>11, <2>1, UnpublishEffect
    <3> QED
      BY <3>1, <1>a, ThreadKinds
         DEF Unpublished, RegistryInv, TypeOK, FramePcs, AwaitPcs
  <2>2. CASE entry # seen[f]
    BY <1>11, <2>2, <1>a, ThreadKinds
       DEF RegistryInv, TypeOK, FramePcs, AwaitPcs, SealUnpublish, Unchanged, Forget,
           Goto
  <2> QED
    BY <2>1, <2>2
<1>12. ASSUME NEW f \in Frames, Terminate(f) PROVE TypeOK'
  BY <1>12, <1>a, ThreadKinds
     DEF RegistryInv, TypeOK, FramePcs, AwaitPcs, Terminate, Goto
<1>13. ASSUME NEW f \in Frames, NEW r \in Releases, FindName(f, r) PROVE TypeOK'
  <2>1. entry' \in Info \cup {Null} /\ own' \in [Frames -> [Names -> Connectors \cup {Null}]]
    BY <1>13, <1>a, FindEffect, ReleaseCases DEF NoConns
  <2> QED
    <3>1. \E l \in FramePcs : pc' = [pc EXCEPT ![f] = l]
      BY <1>13, FindEffect, ReleaseCases DEF Ended, FramePcs
    <3>2. /\ seen' = [seen EXCEPT ![f] = entry] \/ seen' = seen
          /\ UNCHANGED <<entry, chan, opened, notify, answer>>
      BY <1>13, FindEffect
    <3> QED
      BY <2>1, <3>1, <3>2, <1>a, ThreadKinds DEF TypeOK
<1>14. ASSUME NEW f \in Frames, NEW r \in Releases, Release(f, r) PROVE TypeOK'
  <2>1. entry' \in Info \cup {Null}
    BY <1>14, <1>a, ReleaseEffect
  <2>2. own' \in [Frames -> [Names -> Connectors \cup {Null}]]
    <3>1. own' = own \/ own' = [own EXCEPT ![f] = NoConns]
      BY <1>14, ReleaseEffect
    <3> QED
      BY <3>1, <1>a DEF NoConns
  <2> QED
    <3>1. \E l \in FramePcs : pc' = [pc EXCEPT ![f] = l]
      BY <1>14, ReleaseEffect, ReleaseCases DEF Ended, FramePcs
    <3>2. /\ seen' = [seen EXCEPT ![f] = Null]
          /\ UNCHANGED <<chan, opened, notify, answer>>
      BY <1>14, ReleaseEffect
    <3> QED
      BY <2>1, <2>2, <3>1, <3>2, <1>a, ThreadKinds DEF TypeOK
<1>15. ASSUME NEW a \in Awaiters, NEW n \in Names, AwaitStart(a, n) PROVE TypeOK'
  <2>1. /\ pc' \in [Threads -> FramePcs \cup AwaitPcs]
        /\ chan' \in [Threads -> Names \cup {Null}] /\ chan'[a] = n
        /\ seen' \in [Threads -> Info \cup {Null}]
        /\ UNCHANGED <<entry, opened, own, notify>>
    BY <1>15, <1>a, ThreadKinds DEF AwaitStart, AwaitLookup, ForName, Goto, AwaitPcs
  <2>2. answer' \in [Awaiters -> Connectors \cup {Null}]
    BY <1>15, <1>a, <2>1, InfoFields DEF AwaitStart, AwaitLookup
  <2> QED
    BY <1>a, <2>1, <2>2 DEF TypeOK
<1>16. ASSUME NEW a \in Awaiters, AwaitRetry(a) PROVE TypeOK'
  BY <1>16, <1>a, ThreadKinds, InfoFields, SMTT(30)
     DEF RegistryInv, TypeOK, FramePcs, AwaitPcs, AwaitRetry, AwaitLookup, ForName,
         Goto, ChanShape
<1>17. ASSUME NEW a \in Awaiters, AwaitRegister(a) PROVE TypeOK'
  <2>1. CASE entry = seen[a]
    <3>1. PICK m \in Names : Enlisted(a, m)
      BY <1>17, <2>1, RegisterEffect
    <3> QED
      BY <3>1, <1>a, ThreadKinds
         DEF Enlisted, RegistryInv, TypeOK, FramePcs, AwaitPcs
  <2>2. CASE entry # seen[a]
    BY <1>17, <2>2, <1>a, ThreadKinds
       DEF RegistryInv, TypeOK, FramePcs, AwaitPcs, AwaitRegister, Unchanged, Forget,
           Goto
  <2> QED
    BY <2>1, <2>2
<1>18. CASE UNCHANGED vars
  BY <1>18
     DEF RegistryInv, TypeOK, FramePcs, AwaitPcs, vars
<1>19. ASSUME NEW f \in Frames, Activate(f) PROVE TypeOK'
  BY <1>19, <1>a, ThreadKinds
     DEF RegistryInv, TypeOK, FramePcs, AwaitPcs, Activate, Goto
<1> QED
  BY NextCases, <1>1, <1>2, <1>3, <1>4, <1>5, <1>6, <1>7, <1>8, <1>9, <1>10, <1>11,
     <1>12, <1>13, <1>14, <1>15, <1>16, <1>17, <1>18, <1>19

-----------------------------------------------------------------------------
(* The name and its connectors *)

\* Every step leaves a frame that does not hold the name without connectors.
LEMMA OwnShapeStep ==
  ASSUME RegistryInv, [Next]_vars
  PROVE  OwnShape'
<1>a. /\ pc \in [Threads -> FramePcs \cup AwaitPcs]
      /\ seen \in [Threads -> Info \cup {Null}]
      /\ chan \in [Threads -> Names \cup {Null}]
      /\ opened \in [Frames -> 0 .. MaxOpens]
      /\ own \in [Frames -> [Names -> Connectors \cup {Null}]]
      /\ notify \in [Frames -> SUBSET Awaiters]
      /\ answer \in [Awaiters -> Connectors \cup {Null}]
      /\ entry \in Info \cup {Null}
  BY DEF RegistryInv, TypeOK
<1>1. ASSUME NEW f \in Frames, SpawnRead(f) PROVE OwnShape'
  BY <1>1, <1>a, ThreadKinds
     DEF RegistryInv, PcShape, AwaitPcs, OwnShape, Holds, SpawnRead, ForName, Goto
<1>2. ASSUME NEW f \in Frames, SpawnReserve(f) PROVE OwnShape'
  <2>1. CASE entry = seen[f]
    BY <1>2, <2>1, ReserveEffect, <1>a, ThreadKinds
       DEF RegistryInv, OwnShape, Holds, PcShape, AwaitPcs
  <2>2. CASE entry # seen[f]
    BY <1>2, <2>2, <1>a, ThreadKinds
       DEF RegistryInv, OwnShape, Holds, PcShape, AwaitPcs, SpawnReserve, Unchanged,
           Forget, Goto
  <2> QED
    BY <2>1, <2>2
<1>3. ASSUME NEW f \in Frames, SpawnFails(f) PROVE OwnShape'
  BY <1>3, <1>a, ThreadKinds
     DEF RegistryInv, PcShape, AwaitPcs, OwnShape, Holds, SpawnFails, Goto
<1>4. ASSUME NEW f \in Frames, NEW n \in Names, UserOpen(f, n) PROVE OwnShape'
  BY <1>4, <1>a, ThreadKinds
     DEF RegistryInv, PcShape, AwaitPcs, OwnShape, Holds, UserOpen, Goto
<1>5. ASSUME NEW f \in Frames, NEW p \in Places, OpenRead(f, p) PROVE OwnShape'
  BY <1>5, <1>a, ThreadKinds, PlaceCases
     DEF RegistryInv, PcShape, AwaitPcs, OwnShape, Holds, OpenRead, ForName, Goto
<1>6. ASSUME NEW f \in Frames, NEW p \in Places, OpenPublish(f, p) PROVE OwnShape'
  <2>1. CASE entry = seen[f]
    <3>1. PICK n \in Names, k \in Connectors : Published(f, p, n, k)
      BY <1>6, <2>1, PublishEffect
    <3> QED
      BY <3>1, PlaceCases, <1>a, ThreadKinds
         DEF Published, RegistryInv, OwnShape, Holds, PcShape, AwaitPcs
  <2>2. CASE entry # seen[f]
    BY <1>6, <2>2, PlaceCases, <1>a, ThreadKinds
       DEF RegistryInv, OwnShape, Holds, PcShape, AwaitPcs, OpenPublish, Unchanged,
           Forget, Goto
  <2> QED
    BY <2>1, <2>2
<1>7. ASSUME NEW f \in Frames, NEW p \in Places, OpenNotify(f, p) PROVE OwnShape'
  BY <1>7, <1>a, ThreadKinds, PlaceCases
     DEF RegistryInv, PcShape, AwaitPcs, OwnShape, Holds, OpenNotify
<1>8. ASSUME NEW f \in Frames, NEW p \in Places, OpenReturn(f, p) PROVE OwnShape'
  BY <1>8, <1>a, ThreadKinds, PlaceCases
     DEF RegistryInv, PcShape, AwaitPcs, OwnShape, Holds, OpenReturn, Goto
<1>9. ASSUME NEW f \in Frames, NEW n \in Names, UserSeal(f, n) PROVE OwnShape'
  BY <1>9, <1>a, ThreadKinds
     DEF RegistryInv, PcShape, AwaitPcs, OwnShape, Holds, UserSeal, Goto
<1>10. ASSUME NEW f \in Frames, SealRead(f) PROVE OwnShape'
  <2>1. \A g \in Frames : Holds(g)' <=> Holds(g)
    BY <1>10, <1>a, ThreadKinds DEF SealRead, ForName, Goto, Holds
  <2>2. \A g \in Frames \ {f} : pc'[g] = pc[g] /\ own'[g] = own[g] /\ chan'[g] = chan[g]
    BY <1>10, <1>a, ThreadKinds DEF SealRead, ForName, Goto
  <2>3. \/ pc'[f] = "unpublish" /\ own' = own /\ chan' = chan
        \/ pc'[f] = "running"
    BY <1>10, <1>a, ThreadKinds DEF SealRead, ForName, Goto
  <2>4. Holds(f) /\ own[f][chan[f]] # Null
    BY <1>10 DEF SealRead, Holds, RegistryInv, OwnShape
  <2> QED
    BY <2>1, <2>2, <2>3, <2>4 DEF RegistryInv, OwnShape
<1>11. ASSUME NEW f \in Frames, SealUnpublish(f) PROVE OwnShape'
  <2>1. CASE entry = seen[f]
    <3>1. PICK m \in Names : Unpublished(f, m)
      BY <1>11, <2>1, UnpublishEffect
    <3> QED
      BY <3>1, <1>a, ThreadKinds
         DEF Unpublished, RegistryInv, OwnShape, Holds, PcShape, AwaitPcs
  <2>2. CASE entry # seen[f]
    BY <1>11, <2>2, <1>a, ThreadKinds
       DEF RegistryInv, OwnShape, Holds, PcShape, AwaitPcs, SealUnpublish, Unchanged,
           Forget, Goto
  <2> QED
    BY <2>1, <2>2
<1>12. ASSUME NEW f \in Frames, Terminate(f) PROVE OwnShape'
  BY <1>12, <1>a, ThreadKinds
     DEF RegistryInv, PcShape, AwaitPcs, OwnShape, Holds, Terminate, Goto
<1>13. ASSUME NEW f \in Frames, NEW r \in Releases, FindName(f, r) PROVE OwnShape'
  BY <1>13, FindEffect, ReleaseCases, <1>a, ThreadKinds
     DEF Ended, RegistryInv, OwnShape, Holds, PcShape, AwaitPcs
<1>14. ASSUME NEW f \in Frames, NEW r \in Releases, Release(f, r) PROVE OwnShape'
  BY <1>14, ReleaseEffect, ReleaseCases, <1>a, ThreadKinds
     DEF Ended, RegistryInv, OwnShape, Holds, PcShape, AwaitPcs
<1>15. ASSUME NEW a \in Awaiters, NEW n \in Names, AwaitStart(a, n) PROVE OwnShape'
  BY <1>15, <1>a, ThreadKinds
     DEF RegistryInv, PcShape, AwaitPcs, OwnShape, Holds, AwaitStart, AwaitLookup,
         ForName, Goto
<1>16. ASSUME NEW a \in Awaiters, AwaitRetry(a) PROVE OwnShape'
  BY <1>16, <1>a, ThreadKinds
     DEF RegistryInv, PcShape, AwaitPcs, OwnShape, Holds, AwaitRetry, AwaitLookup,
         ForName, Goto
<1>17. ASSUME NEW a \in Awaiters, AwaitRegister(a) PROVE OwnShape'
  <2>1. CASE entry = seen[a]
    <3>1. PICK m \in Names : Enlisted(a, m)
      BY <1>17, <2>1, RegisterEffect
    <3> QED
      BY <3>1, <1>a, ThreadKinds
         DEF Enlisted, RegistryInv, OwnShape, Holds, PcShape, AwaitPcs
  <2>2. CASE entry # seen[a]
    BY <1>17, <2>2, <1>a, ThreadKinds
       DEF RegistryInv, OwnShape, Holds, PcShape, AwaitPcs, AwaitRegister, Unchanged,
           Forget, Goto
  <2> QED
    BY <2>1, <2>2
<1>18. CASE UNCHANGED vars
  BY <1>18
     DEF RegistryInv, PcShape, AwaitPcs, OwnShape, Holds, vars
<1>19. ASSUME NEW f \in Frames, Activate(f) PROVE OwnShape'
  BY <1>19, <1>a, ThreadKinds
     DEF RegistryInv, PcShape, AwaitPcs, OwnShape, Holds, Activate, Goto
<1> QED
  BY NextCases, <1>1, <1>2, <1>3, <1>4, <1>5, <1>6, <1>7, <1>8, <1>9, <1>10, <1>11,
     <1>12, <1>13, <1>14, <1>15, <1>16, <1>17, <1>18, <1>19

\* Every step but the end of a piggybacked frame leaves the spawners' catch
\* blocks to frames that have not run.
LEMMA AgainShapeStep ==
  ASSUME RegistryInv, [Next]_vars
  PROVE  AgainShape'
<1>a. pc \in [Threads -> FramePcs \cup AwaitPcs]
  BY DEF RegistryInv, TypeOK
<1>1. ASSUME NEW f \in Frames,
             \/ SpawnRead(f) \/ SpawnReserve(f) \/ SpawnFails(f)
             \/ SealRead(f) \/ SealUnpublish(f) \/ Activate(f) \/ Terminate(f)
      PROVE  AgainShape'
  BY <1>1, <1>a, ThreadKinds
     DEF RegistryInv, AgainShape, SpawnRead, SpawnReserve, SpawnFails, SealRead,
         SealUnpublish, Activate, Terminate, ForName, Goto
<1>2. ASSUME NEW f \in Frames, NEW p \in Places,
             OpenRead(f, p) \/ OpenPublish(f, p) \/ OpenNotify(f, p) \/ OpenReturn(f, p)
      PROVE  AgainShape'
  BY <1>2, <1>a, ThreadKinds, PlaceCases
     DEF RegistryInv, AgainShape, OpenRead, OpenPublish, OpenNotify, OpenReturn, ForName,
         Goto
<1>3. ASSUME NEW f \in Frames, NEW r \in Releases, FindName(f, r) PROVE AgainShape'
  BY <1>3, <1>a, ThreadKinds, ReleaseCases, FindEffect DEF RegistryInv, AgainShape, Ended
<1>4. ASSUME NEW f \in Frames, NEW r \in Releases, Release(f, r) PROVE AgainShape'
  BY <1>4, <1>a, ThreadKinds, ReleaseCases, ReleaseEffect DEF RegistryInv, AgainShape, Ended
<1>5. ASSUME NEW f \in Frames, NEW n \in Names, UserOpen(f, n) \/ UserSeal(f, n)
      PROVE  AgainShape'
  BY <1>5, <1>a, ThreadKinds DEF RegistryInv, AgainShape, UserOpen, UserSeal, Goto
<1>6. ASSUME NEW a \in Awaiters, AwaitRetry(a) \/ AwaitRegister(a) PROVE AgainShape'
  BY <1>6, <1>a, ThreadKinds
     DEF RegistryInv, AgainShape, AwaitRetry, AwaitRegister, AwaitLookup, ForName, Goto
<1>7. ASSUME NEW a \in Awaiters, NEW n \in Names, AwaitStart(a, n) PROVE AgainShape'
  BY <1>7, <1>a, ThreadKinds
     DEF RegistryInv, AgainShape, AwaitStart, AwaitLookup, ForName, Goto
<1>8. CASE UNCHANGED vars
  BY <1>8 DEF RegistryInv, AgainShape, vars
<1> QED
  BY NextCases, <1>1, <1>2, <1>3, <1>4, <1>5, <1>6, <1>7, <1>8

\* Until a name has been released twice, every step keeps the entry with the
\* one frame that holds the name: a spawn wins only a free name, and only the
\* holder releases it.
LEMMA NameOwnedStep ==
  ASSUME RegistryInv, [Next]_vars
  PROVE  NameOwned'
<1>a. /\ pc \in [Threads -> FramePcs \cup AwaitPcs]
      /\ seen \in [Threads -> Info \cup {Null}]
      /\ chan \in [Threads -> Names \cup {Null}]
      /\ opened \in [Frames -> 0 .. MaxOpens]
      /\ own \in [Frames -> [Names -> Connectors \cup {Null}]]
      /\ notify \in [Frames -> SUBSET Awaiters]
      /\ answer \in [Awaiters -> Connectors \cup {Null}]
      /\ entry \in Info \cup {Null}
  BY DEF RegistryInv, TypeOK
<1> SUFFICES ASSUME ReleasedOnce' PROVE NameOwned'
  BY DEF NameOwned
<1>c. ReleasedOnce
  BY ReleasedOnceStep DEF RegistryInv
<1>1. ASSUME NEW f \in Frames, SpawnRead(f) PROVE NameOwned'
  BY <1>1, <1>a, <1>c, ThreadKinds
     DEF RegistryInv, PcShape, AwaitPcs, NameOwned, Holds, SpawnRead, ForName, Goto
<1>2. ASSUME NEW f \in Frames, SpawnReserve(f) PROVE NameOwned'
  <2>1. CASE entry = seen[f]
    BY <1>2, <2>1, ReserveEffect, <1>a, <1>c, ThreadKinds, NullAssumption
       DEF RegistryInv, PcShape, AwaitPcs, NameOwned, Holds
  <2>2. CASE entry # seen[f]
    BY <1>2, <2>2, <1>a, <1>c, ThreadKinds
       DEF RegistryInv, PcShape, AwaitPcs, NameOwned, Holds, SpawnReserve, Unchanged,
           Forget, Goto
  <2> QED
    BY <2>1, <2>2
<1>3. ASSUME NEW f \in Frames, SpawnFails(f) PROVE NameOwned'
  BY <1>3, <1>a, <1>c, ThreadKinds
     DEF RegistryInv, PcShape, AwaitPcs, NameOwned, Holds, SpawnFails, Goto
<1>4. ASSUME NEW f \in Frames, NEW n \in Names, UserOpen(f, n) PROVE NameOwned'
  BY <1>4, <1>a, <1>c, ThreadKinds
     DEF RegistryInv, PcShape, AwaitPcs, NameOwned, Holds, UserOpen, Goto
<1>5. ASSUME NEW f \in Frames, NEW p \in Places, OpenRead(f, p) PROVE NameOwned'
  BY <1>5, <1>a, <1>c, ThreadKinds, PlaceCases
     DEF RegistryInv, PcShape, AwaitPcs, NameOwned, Holds, OpenRead, ForName, Goto
<1>6. ASSUME NEW f \in Frames, NEW p \in Places, OpenPublish(f, p) PROVE NameOwned'
  <2>1. CASE entry = seen[f]
    <3>1. PICK n \in Names, k \in Connectors : Published(f, p, n, k)
      BY <1>6, <2>1, PublishEffect
    <3> QED
      BY <3>1, PlaceCases, <1>a, <1>c, ThreadKinds, NullAssumption
         DEF Published, RegistryInv, PcShape, AwaitPcs, NameOwned, Holds
  <2>2. CASE entry # seen[f]
    BY <1>6, <2>2, PlaceCases, <1>a, <1>c, ThreadKinds
       DEF RegistryInv, PcShape, AwaitPcs, NameOwned, Holds, OpenPublish, Unchanged,
           Forget, Goto
  <2> QED
    BY <2>1, <2>2
<1>7. ASSUME NEW f \in Frames, NEW p \in Places, OpenNotify(f, p) PROVE NameOwned'
  BY <1>7, <1>a, <1>c, ThreadKinds, PlaceCases
     DEF RegistryInv, PcShape, AwaitPcs, NameOwned, Holds, OpenNotify
<1>8. ASSUME NEW f \in Frames, NEW p \in Places, OpenReturn(f, p) PROVE NameOwned'
  BY <1>8, <1>a, <1>c, ThreadKinds, PlaceCases
     DEF RegistryInv, PcShape, AwaitPcs, NameOwned, Holds, OpenReturn, Goto
<1>9. ASSUME NEW f \in Frames, NEW n \in Names, UserSeal(f, n) PROVE NameOwned'
  BY <1>9, <1>a, <1>c, ThreadKinds
     DEF RegistryInv, PcShape, AwaitPcs, NameOwned, Holds, UserSeal, Goto
<1>10. ASSUME NEW f \in Frames, SealRead(f) PROVE NameOwned'
  BY <1>10, <1>a, <1>c, ThreadKinds
     DEF RegistryInv, PcShape, AwaitPcs, NameOwned, Holds, SealRead, ForName, Goto
<1>11. ASSUME NEW f \in Frames, SealUnpublish(f) PROVE NameOwned'
  <2>1. CASE entry = seen[f]
    <3>1. PICK m \in Names : Unpublished(f, m)
      BY <1>11, <2>1, UnpublishEffect
    <3> QED
      <4>1. \A g \in Frames : Holds(g)' <=> Holds(g)
        BY <3>1, <1>a, ThreadKinds DEF Unpublished, Holds
      <4>2. Holds(f) /\ entry' # Null /\ entry'.frame = f
        BY <3>1 DEF Unpublished
      <4>3. \A g \in Frames : Holds(g) <=> g = f
        BY <4>2, <1>c, HolderHasEntry
      <4> QED
        BY <4>1, <4>2, <4>3 DEF NameOwned
  <2>2. CASE entry # seen[f]
    BY <1>11, <2>2, <1>a, <1>c, ThreadKinds
       DEF RegistryInv, PcShape, AwaitPcs, NameOwned, Holds, SealUnpublish, Unchanged,
           Forget, Goto
  <2> QED
    BY <2>1, <2>2
<1>12. ASSUME NEW f \in Frames, Terminate(f) PROVE NameOwned'
  BY <1>12, <1>a, <1>c, ThreadKinds
     DEF RegistryInv, PcShape, AwaitPcs, NameOwned, Holds, Terminate, Goto
<1>13. ASSUME NEW f \in Frames, NEW r \in Releases, FindName(f, r) PROVE NameOwned'
  BY <1>13, FindEffect, ReleaseCases, <1>a, <1>c, ThreadKinds, NullAssumption
     DEF Ended, ReleasedOnce, RegistryInv, PcShape, AwaitPcs, NameOwned, Holds
<1>14. ASSUME NEW f \in Frames, NEW r \in Releases, Release(f, r) PROVE NameOwned'
  <2>1. \A g \in Frames \ {f} : Holds(g)' <=> Holds(g)
    BY <1>14, ReleaseEffect, <1>a, ThreadKinds DEF Holds
  <2>2. CASE UNCHANGED entry /\ pc' = [pc EXCEPT ![f] = Find[r]]
    <3>1. Holds(f)' <=> Holds(f)
      <4>1. pc[f] = Give[r] /\ pc'[f] = Find[r]
        BY <1>14, <2>2, ReleaseEffect, <1>a, ThreadKinds
      <4> QED
        BY <4>1, ReleaseCases DEF Holds
    <3> QED
      BY <2>1, <2>2, <3>1, <1>c DEF RegistryInv, NameOwned
  <2>3. CASE /\ \E l \in Ended(r) : /\ pc' = [pc EXCEPT ![f] = l]
                                    /\ r = "again" => l = "releasedTwice"
             /\ entry' = Null \/ entry'.frame = Null
    <3>1. r # "again" /\ ~Holds(f)'
      BY <2>3, <1>a, ThreadKinds DEF ReleasedOnce, Ended, Holds
    <3>2. Holds(f)
      BY <1>14, <3>1, ReleaseEffect, ReleaseCases DEF Holds
    <3>3. \A g \in Frames : ~Holds(g)'
      BY <1>c, <2>1, <3>1, <3>2, HolderHasEntry
    <3> QED
      BY <2>3, <3>3, NullAssumption DEF NameOwned
  <2> QED
    BY <1>14, <2>2, <2>3, ReleaseEffect
<1>15. ASSUME NEW a \in Awaiters, NEW n \in Names, AwaitStart(a, n) PROVE NameOwned'
  BY <1>15, <1>a, <1>c, ThreadKinds
     DEF RegistryInv, PcShape, AwaitPcs, NameOwned, Holds, AwaitStart, AwaitLookup,
         ForName, Goto
<1>16. ASSUME NEW a \in Awaiters, AwaitRetry(a) PROVE NameOwned'
  BY <1>16, <1>a, <1>c, ThreadKinds
     DEF RegistryInv, PcShape, AwaitPcs, NameOwned, Holds, AwaitRetry, AwaitLookup,
         ForName, Goto
<1>17. ASSUME NEW a \in Awaiters, AwaitRegister(a) PROVE NameOwned'
  <2>1. CASE entry = seen[a]
    <3>1. PICK m \in Names : Enlisted(a, m)
      BY <1>17, <2>1, RegisterEffect
    <3> QED
      BY <3>1, <1>a, <1>c, ThreadKinds, NullAssumption
         DEF Enlisted, RegistryInv, PcShape, AwaitPcs, NameOwned, Holds
  <2>2. CASE entry # seen[a]
    BY <1>17, <2>2, <1>a, <1>c, ThreadKinds
       DEF RegistryInv, PcShape, AwaitPcs, NameOwned, Holds, AwaitRegister, Unchanged,
           Forget, Goto
  <2> QED
    BY <2>1, <2>2
<1>18. CASE UNCHANGED vars
  BY <1>18, <1>c DEF RegistryInv, NameOwned, Holds, vars
<1>19. ASSUME NEW f \in Frames, Activate(f) PROVE NameOwned'
  BY <1>19, <1>a, <1>c, ThreadKinds
     DEF RegistryInv, PcShape, AwaitPcs, NameOwned, Holds, Activate, Goto
<1> QED
  BY NextCases, <1>1, <1>2, <1>3, <1>4, <1>5, <1>6, <1>7, <1>8, <1>9, <1>10, <1>11,
     <1>12, <1>13, <1>14, <1>15, <1>16, <1>17, <1>18, <1>19

\* Every step keeps the connectors in the entry equal to those its frame has.
LEMMA ConnectorsPublishedStep ==
  ASSUME RegistryInv, [Next]_vars
  PROVE  ConnectorsPublished'
<1>a. /\ pc \in [Threads -> FramePcs \cup AwaitPcs]
      /\ seen \in [Threads -> Info \cup {Null}]
      /\ chan \in [Threads -> Names \cup {Null}]
      /\ opened \in [Frames -> 0 .. MaxOpens]
      /\ own \in [Frames -> [Names -> Connectors \cup {Null}]]
      /\ notify \in [Frames -> SUBSET Awaiters]
      /\ answer \in [Awaiters -> Connectors \cup {Null}]
      /\ entry \in Info \cup {Null}
  BY DEF RegistryInv, TypeOK
<1> SUFFICES ASSUME ReleasedOnce' PROVE ConnectorsPublished'
  BY DEF ConnectorsPublished
<1>c. ReleasedOnce
  BY ReleasedOnceStep DEF RegistryInv
<1>1. ASSUME NEW f \in Frames, SpawnRead(f) PROVE ConnectorsPublished'
  BY <1>1, <1>a, <1>c, ThreadKinds
     DEF RegistryInv, ConnectorsPublished, SpawnRead, ForName, Goto
<1>2. ASSUME NEW f \in Frames, SpawnReserve(f) PROVE ConnectorsPublished'
  <2>1. CASE entry = seen[f]
    <3>1. own[f] = NoConns
      BY <1>2, <2>1, ReserveEffect DEF RegistryInv, OwnShape, Holds
    <3> QED
      BY <1>2, <2>1, <3>1, <1>c, ReserveEffect, NullAssumption
         DEF RegistryInv, ConnectorsPublished
  <2>2. CASE entry # seen[f]
    BY <1>2, <2>2, <1>a, <1>c, ThreadKinds
       DEF RegistryInv, ConnectorsPublished, SpawnReserve, Unchanged, Forget, Goto
  <2> QED
    BY <2>1, <2>2
<1>3. ASSUME NEW f \in Frames, SpawnFails(f) PROVE ConnectorsPublished'
  BY <1>3, <1>a, <1>c, ThreadKinds
     DEF RegistryInv, ConnectorsPublished, SpawnFails, Goto
<1>4. ASSUME NEW f \in Frames, NEW n \in Names, UserOpen(f, n)
      PROVE  ConnectorsPublished'
  BY <1>4, <1>a, <1>c, ThreadKinds
     DEF RegistryInv, ConnectorsPublished, UserOpen, Goto
<1>5. ASSUME NEW f \in Frames, NEW p \in Places, OpenRead(f, p)
      PROVE  ConnectorsPublished'
  BY <1>5, <1>a, <1>c, ThreadKinds, PlaceCases
     DEF RegistryInv, ConnectorsPublished, OpenRead, ForName, Goto
<1>6. ASSUME NEW f \in Frames, NEW p \in Places, OpenPublish(f, p)
      PROVE  ConnectorsPublished'
  <2>1. CASE entry = seen[f]
    <3>1. PICK n \in Names, k \in Connectors : Published(f, p, n, k)
      BY <1>6, <2>1, PublishEffect
    <3>2. entry.conns = own[f]
      BY <3>1, <1>c, HolderHasEntry DEF Published
    <3>3. own'[f] = entry'.conns
      BY <3>1, <3>2, <1>a, <1>c DEF Published
    <3> QED
      BY <3>1, <3>3, NullAssumption DEF Published, ConnectorsPublished
  <2>2. CASE entry # seen[f]
    BY <1>6, <2>2, PlaceCases, <1>a, <1>c, ThreadKinds
       DEF RegistryInv, ConnectorsPublished, OpenPublish, Unchanged, Forget, Goto
  <2> QED
    BY <2>1, <2>2
<1>7. ASSUME NEW f \in Frames, NEW p \in Places, OpenNotify(f, p)
      PROVE  ConnectorsPublished'
  BY <1>7, <1>a, <1>c, ThreadKinds, PlaceCases
     DEF RegistryInv, ConnectorsPublished, OpenNotify
<1>8. ASSUME NEW f \in Frames, NEW p \in Places, OpenReturn(f, p)
      PROVE  ConnectorsPublished'
  BY <1>8, <1>a, <1>c, ThreadKinds, PlaceCases
     DEF RegistryInv, ConnectorsPublished, OpenReturn, Goto
<1>9. ASSUME NEW f \in Frames, NEW n \in Names, UserSeal(f, n)
      PROVE  ConnectorsPublished'
  BY <1>9, <1>a, <1>c, ThreadKinds
     DEF RegistryInv, ConnectorsPublished, UserSeal, Goto
<1>10. ASSUME NEW f \in Frames, SealRead(f) PROVE ConnectorsPublished'
  BY <1>10, <1>a, <1>c, ThreadKinds
     DEF RegistryInv, ConnectorsPublished, SealRead, ForName, Goto
<1>11. ASSUME NEW f \in Frames, SealUnpublish(f) PROVE ConnectorsPublished'
  <2>1. CASE entry = seen[f]
    <3>1. PICK n \in Names : Unpublished(f, n)
      BY <1>11, <2>1, UnpublishEffect
    <3>2. entry.conns = own[f]
      BY <3>1, <1>c, HolderHasEntry DEF Unpublished
    <3>3. own'[f] = entry'.conns
      BY <3>1, <3>2, <1>a, <1>c DEF Unpublished
    <3> QED
      BY <3>1, <3>3, NullAssumption DEF Unpublished, ConnectorsPublished
  <2>2. CASE entry # seen[f]
    BY <1>11, <2>2, <1>a, <1>c, ThreadKinds
       DEF RegistryInv, ConnectorsPublished, SealUnpublish, Unchanged, Forget, Goto
  <2> QED
    BY <2>1, <2>2
<1>12. ASSUME NEW f \in Frames, Terminate(f) PROVE ConnectorsPublished'
  BY <1>12, <1>a, <1>c, ThreadKinds
     DEF RegistryInv, ConnectorsPublished, Terminate, Goto
<1>13. ASSUME NEW f \in Frames, NEW r \in Releases, FindName(f, r) PROVE ConnectorsPublished'
  BY <1>13, FindEffect, ReleaseCases, <1>a, <1>c, ThreadKinds, HolderHasEntry, NullAssumption
     DEF Ended, ReleasedOnce, RegistryInv, ConnectorsPublished
<1>14. ASSUME NEW f \in Frames, NEW r \in Releases, Release(f, r) PROVE ConnectorsPublished'
  BY <1>14, ReleaseEffect, ReleaseCases, <1>a, <1>c, ThreadKinds, HolderHasEntry, NullAssumption
     DEF Ended, ReleasedOnce, RegistryInv, ConnectorsPublished
<1>15. ASSUME NEW a \in Awaiters, NEW n \in Names, AwaitStart(a, n)
      PROVE  ConnectorsPublished'
  BY <1>15, <1>a, <1>c, ThreadKinds
     DEF RegistryInv, ConnectorsPublished, AwaitStart, AwaitLookup, ForName, Goto
<1>16. ASSUME NEW a \in Awaiters, AwaitRetry(a) PROVE ConnectorsPublished'
  BY <1>16, <1>a, <1>c, ThreadKinds
     DEF RegistryInv, ConnectorsPublished, AwaitRetry, AwaitLookup, ForName, Goto
<1>17. ASSUME NEW a \in Awaiters, AwaitRegister(a) PROVE ConnectorsPublished'
  <2>1. CASE entry = seen[a]
    <3>1. PICK m \in Names : Enlisted(a, m)
      BY <1>17, <2>1, RegisterEffect
    <3> QED
      BY <3>1, <1>a, <1>c, ThreadKinds, HolderHasEntry, NullAssumption
         DEF Enlisted, RegistryInv, ConnectorsPublished
  <2>2. CASE entry # seen[a]
    BY <1>17, <2>2, <1>a, <1>c, ThreadKinds
       DEF RegistryInv, ConnectorsPublished, AwaitRegister, Unchanged, Forget, Goto
  <2> QED
    BY <2>1, <2>2
<1>18. CASE UNCHANGED vars
  BY <1>18, <1>c DEF RegistryInv, ConnectorsPublished, vars
<1>19. ASSUME NEW f \in Frames, Activate(f) PROVE ConnectorsPublished'
  BY <1>19, <1>a, <1>c, ThreadKinds
     DEF RegistryInv, ConnectorsPublished, Activate, Goto
<1> QED
  BY NextCases, <1>1, <1>2, <1>3, <1>4, <1>5, <1>6, <1>7, <1>8, <1>9, <1>10, <1>11,
     <1>12, <1>13, <1>14, <1>15, <1>16, <1>17, <1>18, <1>19

-----------------------------------------------------------------------------
(* Awaits *)

\* Every step leaves an await listening for its own channel only.
LEMMA ListenerChanStep ==
  ASSUME RegistryInv, [Next]_vars
  PROVE  ListenerChan'
<1>a. /\ pc \in [Threads -> FramePcs \cup AwaitPcs]
      /\ seen \in [Threads -> Info \cup {Null}]
      /\ chan \in [Threads -> Names \cup {Null}]
      /\ opened \in [Frames -> 0 .. MaxOpens]
      /\ own \in [Frames -> [Names -> Connectors \cup {Null}]]
      /\ notify \in [Frames -> SUBSET Awaiters]
      /\ answer \in [Awaiters -> Connectors \cup {Null}]
      /\ entry \in Info \cup {Null}
  BY DEF RegistryInv, TypeOK
<1>1. ASSUME NEW f \in Frames, SpawnRead(f) PROVE ListenerChan'
  BY <1>1, <1>a, ThreadKinds
     DEF RegistryInv, ListenerChan, AwaitShape, Registered, SpawnRead, ForName, Goto
<1>2. ASSUME NEW f \in Frames, SpawnReserve(f) PROVE ListenerChan'
  <2>1. CASE entry = seen[f]
    BY <1>2, <2>1, ReserveEffect, <1>a, ThreadKinds, InfoFields
       DEF RegistryInv, ListenerChan, NoListeners
  <2>2. CASE entry # seen[f]
    BY <1>2, <2>2, <1>a, ThreadKinds
       DEF RegistryInv, ListenerChan, NoListeners, SpawnReserve, Unchanged, Forget, Goto
  <2> QED
    BY <2>1, <2>2
<1>3. ASSUME NEW f \in Frames, SpawnFails(f) PROVE ListenerChan'
  BY <1>3, <1>a, ThreadKinds
     DEF RegistryInv, ListenerChan, AwaitShape, Registered, SpawnFails, Goto
<1>4. ASSUME NEW f \in Frames, NEW n \in Names, UserOpen(f, n) PROVE ListenerChan'
  BY <1>4, <1>a, ThreadKinds
     DEF RegistryInv, ListenerChan, AwaitShape, Registered, UserOpen, Goto
<1>5. ASSUME NEW f \in Frames, NEW p \in Places, OpenRead(f, p) PROVE ListenerChan'
  BY <1>5, <1>a, ThreadKinds, PlaceCases
     DEF RegistryInv, ListenerChan, AwaitShape, Registered, OpenRead, ForName, Goto
<1>6. ASSUME NEW f \in Frames, NEW p \in Places, OpenPublish(f, p) PROVE ListenerChan'
  <2>1. CASE entry = seen[f]
    <3>1. PICK n \in Names, k \in Connectors : Published(f, p, n, k)
      BY <1>6, <2>1, PublishEffect
    <3> QED
      BY <3>1, PlaceCases, <1>a, ThreadKinds, InfoFields
         DEF Published, RegistryInv, ListenerChan, NoListeners
  <2>2. CASE entry # seen[f]
    BY <1>6, <2>2, PlaceCases, <1>a, ThreadKinds
       DEF RegistryInv, ListenerChan, NoListeners, OpenPublish, Unchanged, Forget, Goto
  <2> QED
    BY <2>1, <2>2
<1>7. ASSUME NEW f \in Frames, NEW p \in Places, OpenNotify(f, p) PROVE ListenerChan'
  BY <1>7, <1>a, ThreadKinds, PlaceCases
     DEF RegistryInv, ListenerChan, AwaitShape, Registered, OpenNotify
<1>8. ASSUME NEW f \in Frames, NEW p \in Places, OpenReturn(f, p) PROVE ListenerChan'
  BY <1>8, <1>a, ThreadKinds, PlaceCases
     DEF RegistryInv, ListenerChan, AwaitShape, Registered, OpenReturn, Goto
<1>9. ASSUME NEW f \in Frames, NEW n \in Names, UserSeal(f, n) PROVE ListenerChan'
  BY <1>9, <1>a, ThreadKinds
     DEF RegistryInv, ListenerChan, AwaitShape, Registered, UserSeal, Goto
<1>10. ASSUME NEW f \in Frames, SealRead(f) PROVE ListenerChan'
  BY <1>10, <1>a, ThreadKinds
     DEF RegistryInv, ListenerChan, AwaitShape, Registered, SealRead, ForName, Goto
<1>11. ASSUME NEW f \in Frames, SealUnpublish(f) PROVE ListenerChan'
  <2>1. CASE entry = seen[f]
    <3>1. PICK m \in Names : Unpublished(f, m)
      BY <1>11, <2>1, UnpublishEffect
    <3> QED
      BY <3>1, <1>a, ThreadKinds, InfoFields
         DEF Unpublished, RegistryInv, ListenerChan, NoListeners
  <2>2. CASE entry # seen[f]
    BY <1>11, <2>2, <1>a, ThreadKinds
       DEF RegistryInv, ListenerChan, NoListeners, SealUnpublish, Unchanged, Forget,
           Goto
  <2> QED
    BY <2>1, <2>2
<1>12. ASSUME NEW f \in Frames, Terminate(f) PROVE ListenerChan'
  BY <1>12, <1>a, ThreadKinds
     DEF RegistryInv, ListenerChan, AwaitShape, Registered, Terminate, Goto
<1>13. ASSUME NEW f \in Frames, NEW r \in Releases, FindName(f, r) PROVE ListenerChan'
  BY <1>13, FindEffect, ReleaseCases, <1>a, ThreadKinds, InfoFields
     DEF Ended, RegistryInv, ListenerChan, NoListeners
<1>14. ASSUME NEW f \in Frames, NEW r \in Releases, Release(f, r) PROVE ListenerChan'
  BY <1>14, ReleaseEffect, ReleaseCases, <1>a, ThreadKinds, InfoFields
     DEF Ended, RegistryInv, ListenerChan, NoListeners
<1>15. ASSUME NEW a \in Awaiters, NEW n \in Names, AwaitStart(a, n) PROVE ListenerChan'
  BY <1>15, <1>a, ThreadKinds
     DEF RegistryInv, ListenerChan, AwaitShape, Registered, AwaitStart, AwaitLookup,
         ForName, Goto
<1>16. ASSUME NEW a \in Awaiters, AwaitRetry(a) PROVE ListenerChan'
  BY <1>16, <1>a, ThreadKinds
     DEF RegistryInv, ListenerChan, AwaitShape, Registered, AwaitRetry, AwaitLookup,
         ForName, Goto
<1>17. ASSUME NEW a \in Awaiters, AwaitRegister(a) PROVE ListenerChan'
  <2>1. CASE entry = seen[a]
    <3>1. PICK m \in Names : Enlisted(a, m)
      BY <1>17, <2>1, RegisterEffect
    <3> QED
      BY <3>1, <1>a, ThreadKinds, InfoFields
         DEF Enlisted, RegistryInv, ListenerChan, NoListeners
  <2>2. CASE entry # seen[a]
    BY <1>17, <2>2, <1>a, ThreadKinds
       DEF RegistryInv, ListenerChan, NoListeners, AwaitRegister, Unchanged, Forget,
           Goto
  <2> QED
    BY <2>1, <2>2
<1>18. CASE UNCHANGED vars
  BY <1>18
     DEF RegistryInv, ListenerChan, AwaitShape, Registered, vars
<1>19. ASSUME NEW f \in Frames, Activate(f) PROVE ListenerChan'
  BY <1>19, <1>a, ThreadKinds
     DEF RegistryInv, ListenerChan, AwaitShape, Registered, Activate, Goto
<1> QED
  BY NextCases, <1>1, <1>2, <1>3, <1>4, <1>5, <1>6, <1>7, <1>8, <1>9, <1>10, <1>11,
     <1>12, <1>13, <1>14, <1>15, <1>16, <1>17, <1>18, <1>19

\* Every step leaves an await that has not registered unknown to the entry and
\* to the frames.
LEMMA AwaitShapeStep ==
  ASSUME RegistryInv, [Next]_vars
  PROVE  AwaitShape'
<1>a. /\ pc \in [Threads -> FramePcs \cup AwaitPcs]
      /\ seen \in [Threads -> Info \cup {Null}]
      /\ chan \in [Threads -> Names \cup {Null}]
      /\ opened \in [Frames -> 0 .. MaxOpens]
      /\ own \in [Frames -> [Names -> Connectors \cup {Null}]]
      /\ notify \in [Frames -> SUBSET Awaiters]
      /\ answer \in [Awaiters -> Connectors \cup {Null}]
      /\ entry \in Info \cup {Null}
  BY DEF RegistryInv, TypeOK
<1>1. ASSUME NEW f \in Frames, SpawnRead(f) PROVE AwaitShape'
  BY <1>1, <1>a, ThreadKinds
     DEF RegistryInv, PcShape, FramePcs, AwaitShape, Registered, SpawnRead, ForName,
         Goto
<1>2. ASSUME NEW f \in Frames, SpawnReserve(f) PROVE AwaitShape'
  <2>1. CASE entry = seen[f]
    BY <1>2, <2>1, ReserveEffect, <1>a, ThreadKinds, InfoFields
       DEF RegistryInv, AwaitShape, Registered, NoListeners
  <2>2. CASE entry # seen[f]
    BY <1>2, <2>2, <1>a, ThreadKinds
       DEF RegistryInv, AwaitShape, Registered, NoListeners, SpawnReserve, Unchanged,
           Forget, Goto
  <2> QED
    BY <2>1, <2>2
<1>3. ASSUME NEW f \in Frames, SpawnFails(f) PROVE AwaitShape'
  BY <1>3, <1>a, ThreadKinds
     DEF RegistryInv, PcShape, FramePcs, AwaitShape, Registered, SpawnFails, Goto
<1>4. ASSUME NEW f \in Frames, NEW n \in Names, UserOpen(f, n) PROVE AwaitShape'
  BY <1>4, <1>a, ThreadKinds
     DEF RegistryInv, PcShape, FramePcs, AwaitShape, Registered, UserOpen, Goto
<1>5. ASSUME NEW f \in Frames, NEW p \in Places, OpenRead(f, p) PROVE AwaitShape'
  BY <1>5, <1>a, ThreadKinds, PlaceCases
     DEF RegistryInv, PcShape, FramePcs, AwaitShape, Registered, OpenRead, ForName, Goto
<1>6. ASSUME NEW f \in Frames, NEW p \in Places, OpenPublish(f, p) PROVE AwaitShape'
  <2>1. CASE entry = seen[f]
    <3>1. PICK n \in Names, k \in Connectors : Published(f, p, n, k)
      BY <1>6, <2>1, PublishEffect
    <3> QED
      BY <3>1, PlaceCases, <1>a, ThreadKinds, InfoFields
         DEF Published, RegistryInv, AwaitShape, Registered, NoListeners
  <2>2. CASE entry # seen[f]
    BY <1>6, <2>2, PlaceCases, <1>a, ThreadKinds
       DEF RegistryInv, AwaitShape, Registered, NoListeners, OpenPublish, Unchanged,
           Forget, Goto
  <2> QED
    BY <2>1, <2>2
<1>7. ASSUME NEW f \in Frames, NEW p \in Places, OpenNotify(f, p) PROVE AwaitShape'
  BY <1>7, <1>a, ThreadKinds, PlaceCases
     DEF RegistryInv, PcShape, FramePcs, AwaitShape, Registered, OpenNotify
<1>8. ASSUME NEW f \in Frames, NEW p \in Places, OpenReturn(f, p) PROVE AwaitShape'
  BY <1>8, <1>a, ThreadKinds, PlaceCases
     DEF RegistryInv, PcShape, FramePcs, AwaitShape, Registered, OpenReturn, Goto
<1>9. ASSUME NEW f \in Frames, NEW n \in Names, UserSeal(f, n) PROVE AwaitShape'
  BY <1>9, <1>a, ThreadKinds
     DEF RegistryInv, PcShape, FramePcs, AwaitShape, Registered, UserSeal, Goto
<1>10. ASSUME NEW f \in Frames, SealRead(f) PROVE AwaitShape'
  BY <1>10, <1>a, ThreadKinds
     DEF RegistryInv, PcShape, FramePcs, AwaitShape, Registered, SealRead, ForName, Goto
<1>11. ASSUME NEW f \in Frames, SealUnpublish(f) PROVE AwaitShape'
  <2>1. CASE entry = seen[f]
    <3>1. PICK m \in Names : Unpublished(f, m)
      BY <1>11, <2>1, UnpublishEffect
    <3> QED
      BY <3>1, <1>a, ThreadKinds, InfoFields
         DEF Unpublished, RegistryInv, AwaitShape, Registered, NoListeners
  <2>2. CASE entry # seen[f]
    BY <1>11, <2>2, <1>a, ThreadKinds
       DEF RegistryInv, AwaitShape, Registered, NoListeners, SealUnpublish, Unchanged,
           Forget, Goto
  <2> QED
    BY <2>1, <2>2
<1>12. ASSUME NEW f \in Frames, Terminate(f) PROVE AwaitShape'
  BY <1>12, <1>a, ThreadKinds
     DEF RegistryInv, PcShape, FramePcs, AwaitShape, Registered, Terminate, Goto
<1>13. ASSUME NEW f \in Frames, NEW r \in Releases, FindName(f, r) PROVE AwaitShape'
  BY <1>13, FindEffect, ReleaseCases, <1>a, ThreadKinds, InfoFields
     DEF Ended, RegistryInv, AwaitShape, Registered, NoListeners
<1>14. ASSUME NEW f \in Frames, NEW r \in Releases, Release(f, r) PROVE AwaitShape'
  BY <1>14, ReleaseEffect, ReleaseCases, <1>a, ThreadKinds, InfoFields
     DEF Ended, RegistryInv, AwaitShape, Registered, NoListeners
<1>15. ASSUME NEW a \in Awaiters, NEW n \in Names, AwaitStart(a, n) PROVE AwaitShape'
  BY <1>15, <1>a, ThreadKinds
     DEF RegistryInv, PcShape, FramePcs, AwaitShape, Registered, AwaitStart,
         AwaitLookup, ForName, Goto
<1>16. ASSUME NEW a \in Awaiters, AwaitRetry(a) PROVE AwaitShape'
  BY <1>16, <1>a, ThreadKinds
     DEF RegistryInv, PcShape, FramePcs, AwaitShape, Registered, AwaitRetry,
         AwaitLookup, ForName, Goto
<1>17. ASSUME NEW a \in Awaiters, AwaitRegister(a) PROVE AwaitShape'
  <2>1. CASE entry = seen[a]
    <3>1. PICK m \in Names : Enlisted(a, m)
      BY <1>17, <2>1, RegisterEffect
    <3> QED
      BY <3>1, <1>a, ThreadKinds, InfoFields
         DEF Enlisted, RegistryInv, AwaitShape, Registered, NoListeners
  <2>2. CASE entry # seen[a]
    BY <1>17, <2>2, <1>a, ThreadKinds
       DEF RegistryInv, AwaitShape, Registered, NoListeners, AwaitRegister, Unchanged,
           Forget, Goto
  <2> QED
    BY <2>1, <2>2
<1>18. CASE UNCHANGED vars
  BY <1>18
     DEF RegistryInv, PcShape, FramePcs, AwaitShape, Registered, vars
<1>19. ASSUME NEW f \in Frames, Activate(f) PROVE AwaitShape'
  BY <1>19, <1>a, ThreadKinds
     DEF RegistryInv, PcShape, FramePcs, AwaitShape, Registered, Activate, Goto
<1> QED
  BY NextCases, <1>1, <1>2, <1>3, <1>4, <1>5, <1>6, <1>7, <1>8, <1>9, <1>10, <1>11,
     <1>12, <1>13, <1>14, <1>15, <1>16, <1>17, <1>18, <1>19

\* Every step leaves a frame that has listeners to send to with the connector
\* it sends.
LEMMA NotifyShapeStep ==
  ASSUME RegistryInv, [Next]_vars
  PROVE  NotifyShape'
<1>a. /\ pc \in [Threads -> FramePcs \cup AwaitPcs]
      /\ seen \in [Threads -> Info \cup {Null}]
      /\ chan \in [Threads -> Names \cup {Null}]
      /\ opened \in [Frames -> 0 .. MaxOpens]
      /\ own \in [Frames -> [Names -> Connectors \cup {Null}]]
      /\ notify \in [Frames -> SUBSET Awaiters]
      /\ answer \in [Awaiters -> Connectors \cup {Null}]
      /\ entry \in Info \cup {Null}
  BY DEF RegistryInv, TypeOK
<1>1. ASSUME NEW f \in Frames, SpawnRead(f) PROVE NotifyShape'
  BY <1>1, <1>a, ThreadKinds
     DEF RegistryInv, NotifyShape, SpawnRead, ForName, Goto
<1>2. ASSUME NEW f \in Frames, SpawnReserve(f) PROVE NotifyShape'
  <2>1. CASE entry = seen[f]
    BY <1>2, <2>1, ReserveEffect, <1>a, ThreadKinds, NullAssumption
       DEF RegistryInv, NotifyShape
  <2>2. CASE entry # seen[f]
    BY <1>2, <2>2, <1>a, ThreadKinds
       DEF RegistryInv, NotifyShape, SpawnReserve, Unchanged, Forget, Goto
  <2> QED
    BY <2>1, <2>2
<1>3. ASSUME NEW f \in Frames, SpawnFails(f) PROVE NotifyShape'
  BY <1>3, <1>a, ThreadKinds
     DEF RegistryInv, NotifyShape, SpawnFails, Goto
<1>4. ASSUME NEW f \in Frames, NEW n \in Names, UserOpen(f, n) PROVE NotifyShape'
  BY <1>4, <1>a, ThreadKinds
     DEF RegistryInv, NotifyShape, UserOpen, Goto
<1>5. ASSUME NEW f \in Frames, NEW p \in Places, OpenRead(f, p) PROVE NotifyShape'
  BY <1>5, <1>a, ThreadKinds, PlaceCases
     DEF RegistryInv, NotifyShape, OpenRead, ForName, Goto
<1>6. ASSUME NEW f \in Frames, NEW p \in Places, OpenPublish(f, p) PROVE NotifyShape'
  <2>1. CASE entry = seen[f]
    <3>1. PICK n \in Names, k \in Connectors : Published(f, p, n, k)
      BY <1>6, <2>1, PublishEffect
    <3> QED
      BY <3>1, PlaceCases, <1>a, ThreadKinds, NullAssumption
         DEF Published, RegistryInv, NotifyShape
  <2>2. CASE entry # seen[f]
    BY <1>6, <2>2, PlaceCases, <1>a, ThreadKinds
       DEF RegistryInv, NotifyShape, OpenPublish, Unchanged, Forget, Goto
  <2> QED
    BY <2>1, <2>2
<1>7. ASSUME NEW f \in Frames, NEW p \in Places, OpenNotify(f, p) PROVE NotifyShape'
  BY <1>7, <1>a, ThreadKinds, PlaceCases
     DEF RegistryInv, NotifyShape, OpenNotify
<1>8. ASSUME NEW f \in Frames, NEW p \in Places, OpenReturn(f, p) PROVE NotifyShape'
  BY <1>8, <1>a, ThreadKinds, PlaceCases
     DEF RegistryInv, NotifyShape, OpenReturn, Goto
<1>9. ASSUME NEW f \in Frames, NEW n \in Names, UserSeal(f, n) PROVE NotifyShape'
  BY <1>9, <1>a, ThreadKinds
     DEF RegistryInv, NotifyShape, UserSeal, Goto
<1>10. ASSUME NEW f \in Frames, SealRead(f) PROVE NotifyShape'
  BY <1>10, <1>a, ThreadKinds
     DEF RegistryInv, NotifyShape, SealRead, ForName, Goto
<1>11. ASSUME NEW f \in Frames, SealUnpublish(f) PROVE NotifyShape'
  <2>1. CASE entry = seen[f]
    <3>1. PICK m \in Names : Unpublished(f, m)
      BY <1>11, <2>1, UnpublishEffect
    <3> QED
      BY <3>1, <1>a, ThreadKinds, NullAssumption
         DEF Unpublished, RegistryInv, NotifyShape
  <2>2. CASE entry # seen[f]
    BY <1>11, <2>2, <1>a, ThreadKinds
       DEF RegistryInv, NotifyShape, SealUnpublish, Unchanged, Forget, Goto
  <2> QED
    BY <2>1, <2>2
<1>12. ASSUME NEW f \in Frames, Terminate(f) PROVE NotifyShape'
  BY <1>12, <1>a, ThreadKinds
     DEF RegistryInv, NotifyShape, Terminate, Goto
<1>13. ASSUME NEW f \in Frames, NEW r \in Releases, FindName(f, r) PROVE NotifyShape'
  BY <1>13, FindEffect, ReleaseCases, <1>a, ThreadKinds, NullAssumption
     DEF Ended, RegistryInv, NotifyShape
<1>14. ASSUME NEW f \in Frames, NEW r \in Releases, Release(f, r) PROVE NotifyShape'
  BY <1>14, ReleaseEffect, ReleaseCases, <1>a, ThreadKinds, NullAssumption
     DEF Ended, RegistryInv, NotifyShape
<1>15. ASSUME NEW a \in Awaiters, NEW n \in Names, AwaitStart(a, n) PROVE NotifyShape'
  BY <1>15, <1>a, ThreadKinds
     DEF RegistryInv, NotifyShape, AwaitStart, AwaitLookup, ForName, Goto
<1>16. ASSUME NEW a \in Awaiters, AwaitRetry(a) PROVE NotifyShape'
  BY <1>16, <1>a, ThreadKinds
     DEF RegistryInv, NotifyShape, AwaitRetry, AwaitLookup, ForName, Goto
<1>17. ASSUME NEW a \in Awaiters, AwaitRegister(a) PROVE NotifyShape'
  <2>1. CASE entry = seen[a]
    <3>1. PICK m \in Names : Enlisted(a, m)
      BY <1>17, <2>1, RegisterEffect
    <3> QED
      BY <3>1, <1>a, ThreadKinds, NullAssumption
         DEF Enlisted, RegistryInv, NotifyShape
  <2>2. CASE entry # seen[a]
    BY <1>17, <2>2, <1>a, ThreadKinds
       DEF RegistryInv, NotifyShape, AwaitRegister, Unchanged, Forget, Goto
  <2> QED
    BY <2>1, <2>2
<1>18. CASE UNCHANGED vars
  BY <1>18
     DEF RegistryInv, NotifyShape, vars
<1>19. ASSUME NEW f \in Frames, Activate(f) PROVE NotifyShape'
  BY <1>19, <1>a, ThreadKinds
     DEF RegistryInv, NotifyShape, Activate, Goto
<1> QED
  BY NextCases, <1>1, <1>2, <1>3, <1>4, <1>5, <1>6, <1>7, <1>8, <1>9, <1>10, <1>11,
     <1>12, <1>13, <1>14, <1>15, <1>16, <1>17, <1>18, <1>19

\* Every step leaves an await registered, or about to be answered by one frame,
\* or neither.
LEMMA AnsweredOnceStep ==
  ASSUME RegistryInv, [Next]_vars
  PROVE  AnsweredOnce'
<1>a. /\ pc \in [Threads -> FramePcs \cup AwaitPcs]
      /\ seen \in [Threads -> Info \cup {Null}]
      /\ chan \in [Threads -> Names \cup {Null}]
      /\ opened \in [Frames -> 0 .. MaxOpens]
      /\ own \in [Frames -> [Names -> Connectors \cup {Null}]]
      /\ notify \in [Frames -> SUBSET Awaiters]
      /\ answer \in [Awaiters -> Connectors \cup {Null}]
      /\ entry \in Info \cup {Null}
  BY DEF RegistryInv, TypeOK
<1>1. ASSUME NEW f \in Frames, SpawnRead(f) PROVE AnsweredOnce'
  BY <1>1, <1>a, ThreadKinds
     DEF RegistryInv, AnsweredOnce, AwaitShape, Registered, SpawnRead, ForName, Goto
<1>2. ASSUME NEW f \in Frames, SpawnReserve(f) PROVE AnsweredOnce'
  <2>1. CASE entry = seen[f]
    BY <1>2, <2>1, ReserveEffect, <1>a, ThreadKinds, InfoFields
       DEF RegistryInv, AnsweredOnce, Registered, ListenerChan, AwaitShape, NoListeners
  <2>2. CASE entry # seen[f]
    BY <1>2, <2>2, <1>a, ThreadKinds
       DEF RegistryInv, AnsweredOnce, Registered, ListenerChan, AwaitShape, NoListeners,
           SpawnReserve, Unchanged, Forget, Goto
  <2> QED
    BY <2>1, <2>2
<1>3. ASSUME NEW f \in Frames, SpawnFails(f) PROVE AnsweredOnce'
  BY <1>3, <1>a, ThreadKinds
     DEF RegistryInv, AnsweredOnce, AwaitShape, Registered, SpawnFails, Goto
<1>4. ASSUME NEW f \in Frames, NEW n \in Names, UserOpen(f, n) PROVE AnsweredOnce'
  BY <1>4, <1>a, ThreadKinds
     DEF RegistryInv, AnsweredOnce, AwaitShape, Registered, UserOpen, Goto
<1>5. ASSUME NEW f \in Frames, NEW p \in Places, OpenRead(f, p) PROVE AnsweredOnce'
  BY <1>5, <1>a, ThreadKinds, PlaceCases
     DEF RegistryInv, AnsweredOnce, AwaitShape, Registered, OpenRead, ForName, Goto
<1>6. ASSUME NEW f \in Frames, NEW p \in Places, OpenPublish(f, p) PROVE AnsweredOnce'
  <2>1. CASE entry = seen[f]
    <3>1. PICK n \in Names, k \in Connectors : Published(f, p, n, k)
      BY <1>6, <2>1, PublishEffect
    <3> QED
      BY <3>1, PlaceCases, <1>a, ThreadKinds, InfoFields, SMTT(30)
         DEF Published, RegistryInv, AnsweredOnce, Registered, ListenerChan, AwaitShape,
             NoListeners
  <2>2. CASE entry # seen[f]
    BY <1>6, <2>2, PlaceCases, <1>a, ThreadKinds
       DEF RegistryInv, AnsweredOnce, Registered, ListenerChan, AwaitShape, NoListeners,
           OpenPublish, Unchanged, Forget, Goto
  <2> QED
    BY <2>1, <2>2
<1>7. ASSUME NEW f \in Frames, NEW p \in Places, OpenNotify(f, p) PROVE AnsweredOnce'
  BY <1>7, <1>a, ThreadKinds, PlaceCases
     DEF RegistryInv, AnsweredOnce, AwaitShape, Registered, OpenNotify
<1>8. ASSUME NEW f \in Frames, NEW p \in Places, OpenReturn(f, p) PROVE AnsweredOnce'
  BY <1>8, <1>a, ThreadKinds, PlaceCases
     DEF RegistryInv, AnsweredOnce, AwaitShape, Registered, OpenReturn, Goto
<1>9. ASSUME NEW f \in Frames, NEW n \in Names, UserSeal(f, n) PROVE AnsweredOnce'
  BY <1>9, <1>a, ThreadKinds
     DEF RegistryInv, AnsweredOnce, AwaitShape, Registered, UserSeal, Goto
<1>10. ASSUME NEW f \in Frames, SealRead(f) PROVE AnsweredOnce'
  BY <1>10, <1>a, ThreadKinds
     DEF RegistryInv, AnsweredOnce, AwaitShape, Registered, SealRead, ForName, Goto
<1>11. ASSUME NEW f \in Frames, SealUnpublish(f) PROVE AnsweredOnce'
  <2>1. CASE entry = seen[f]
    <3>1. PICK m \in Names : Unpublished(f, m)
      BY <1>11, <2>1, UnpublishEffect
    <3> QED
      BY <3>1, <1>a, ThreadKinds, InfoFields
         DEF Unpublished, RegistryInv, AnsweredOnce, Registered, ListenerChan,
             AwaitShape, NoListeners
  <2>2. CASE entry # seen[f]
    BY <1>11, <2>2, <1>a, ThreadKinds
       DEF RegistryInv, AnsweredOnce, Registered, ListenerChan, AwaitShape, NoListeners,
           SealUnpublish, Unchanged, Forget, Goto
  <2> QED
    BY <2>1, <2>2
<1>12. ASSUME NEW f \in Frames, Terminate(f) PROVE AnsweredOnce'
  BY <1>12, <1>a, ThreadKinds
     DEF RegistryInv, AnsweredOnce, AwaitShape, Registered, Terminate, Goto
<1>13. ASSUME NEW f \in Frames, NEW r \in Releases, FindName(f, r) PROVE AnsweredOnce'
  BY <1>13, FindEffect, ReleaseCases, <1>a, ThreadKinds, InfoFields
     DEF Ended, RegistryInv, AnsweredOnce, Registered, ListenerChan, AwaitShape, NoListeners
<1>14. ASSUME NEW f \in Frames, NEW r \in Releases, Release(f, r) PROVE AnsweredOnce'
  BY <1>14, ReleaseEffect, ReleaseCases, <1>a, ThreadKinds, InfoFields
     DEF Ended, RegistryInv, AnsweredOnce, Registered, ListenerChan, AwaitShape, NoListeners
<1>15. ASSUME NEW a \in Awaiters, NEW n \in Names, AwaitStart(a, n) PROVE AnsweredOnce'
  BY <1>15, <1>a, ThreadKinds
     DEF RegistryInv, AnsweredOnce, AwaitShape, Registered, AwaitStart, AwaitLookup,
         ForName, Goto
<1>16. ASSUME NEW a \in Awaiters, AwaitRetry(a) PROVE AnsweredOnce'
  BY <1>16, <1>a, ThreadKinds
     DEF RegistryInv, AnsweredOnce, AwaitShape, Registered, AwaitRetry, AwaitLookup,
         ForName, Goto
<1>17. ASSUME NEW a \in Awaiters, AwaitRegister(a) PROVE AnsweredOnce'
  <2>1. CASE entry = seen[a]
    <3>1. PICK m \in Names : Enlisted(a, m)
      BY <1>17, <2>1, RegisterEffect
    <3> QED
      BY <3>1, <1>a, ThreadKinds, InfoFields
         DEF Enlisted, RegistryInv, AnsweredOnce, Registered, ListenerChan, AwaitShape,
             NoListeners
  <2>2. CASE entry # seen[a]
    BY <1>17, <2>2, <1>a, ThreadKinds
       DEF RegistryInv, AnsweredOnce, Registered, ListenerChan, AwaitShape, NoListeners,
           AwaitRegister, Unchanged, Forget, Goto
  <2> QED
    BY <2>1, <2>2
<1>18. CASE UNCHANGED vars
  BY <1>18
     DEF RegistryInv, AnsweredOnce, AwaitShape, Registered, vars
<1>19. ASSUME NEW f \in Frames, Activate(f) PROVE AnsweredOnce'
  BY <1>19, <1>a, ThreadKinds
     DEF RegistryInv, AnsweredOnce, AwaitShape, Registered, Activate, Goto
<1> QED
  BY NextCases, <1>1, <1>2, <1>3, <1>4, <1>5, <1>6, <1>7, <1>8, <1>9, <1>10, <1>11,
     <1>12, <1>13, <1>14, <1>15, <1>16, <1>17, <1>18, <1>19

-----------------------------------------------------------------------------
(* The theorems *)

\* The initial state satisfies the invariant.
LEMMA InitInv == Init => RegistryInv
<1> SUFFICES ASSUME Init PROVE RegistryInv
  OBVIOUS
<1> USE DEF Init
<1>1. NoConns \in [Names -> Connectors \cup {Null}]
  BY DEF NoConns
<1>2. TypeOK
  BY <1>1, RegistryAssumption DEF TypeOK, FramePcs, AwaitPcs
<1>3. PcShape /\ SeenShape /\ ChanShape /\ OpenedShape
  BY ThreadKinds DEF PcShape, FramePcs, AwaitPcs, SeenShape, ChanShape, ChanPcs, OpenedShape
<1>4. OwnShape /\ AgainShape /\ AwaitShape /\ ListenerChan /\ NotifyShape
  BY ThreadKinds DEF OwnShape, AgainShape, AwaitShape, Registered, ListenerChan, NotifyShape
<1>5. NameOwned /\ ConnectorsPublished /\ AnsweredOnce
  BY ThreadKinds DEF NameOwned, Holds, ConnectorsPublished, AnsweredOnce, Registered
<1> QED
  BY <1>2, <1>3, <1>4, <1>5 DEF RegistryInv

\* Every step keeps the invariant.
LEMMA NextInv == RegistryInv /\ [Next]_vars => RegistryInv'
<1> SUFFICES ASSUME RegistryInv, [Next]_vars PROVE RegistryInv'
  OBVIOUS
<1>1. TypeOK /\ PcShape /\ SeenShape /\ ChanShape /\ OpenedShape
  BY DEF RegistryInv
<1>2. PcShape' /\ SeenShape' /\ ChanShape' /\ OpenedShape'
  BY <1>1, PcShapeStep, SeenShapeStep, ChanShapeStep, OpenedShapeStep
<1>3. TypeOK' /\ OwnShape' /\ AgainShape' /\ NameOwned' /\ ConnectorsPublished'
  BY TypeStep, OwnShapeStep, AgainShapeStep, NameOwnedStep, ConnectorsPublishedStep
<1>4. AwaitShape' /\ ListenerChan' /\ NotifyShape' /\ AnsweredOnce'
  BY AwaitShapeStep, ListenerChanStep, NotifyShapeStep, AnsweredOnceStep
<1> QED
  BY <1>2, <1>3, <1>4 DEF RegistryInv

\* The inductive invariant of one name of the registry: what each thread has
\* seen and where it is, next to the properties below.
THEOREM RegistryInvariant == Spec => []RegistryInv
BY InitInv, NextInv, PTL DEF Spec

\* Every variable keeps its type; an entry never has a connector and
\* listeners under one name.
THEOREM RegistryTypes == Spec => []TypeOK
<1>1. RegistryInv => TypeOK
  BY DEF RegistryInv
<1> QED
  BY <1>1, RegistryInvariant, PTL

\* Until some name has been released twice, a reactor name belongs to exactly
\* the frame that reserved it, from then until that frame releases it
\* (trySpawnReactor, checkTerminated).
THEOREM NameOwnedHolds == Spec => []NameOwned
<1>1. RegistryInv => NameOwned
  BY DEF RegistryInv
<1> QED
  BY <1>1, RegistryInvariant, PTL

\* Until some name has been released twice, the entry lists exactly the
\* connectors its frame has opened and not sealed, whatever awaits interfere
\* (openConnector, sealConnector).
THEOREM ConnectorsPublishedHolds == Spec => []ConnectorsPublished
<1>1. RegistryInv => ConnectorsPublished
  BY DEF RegistryInv
<1> QED
  BY <1>1, RegistryInvariant, PTL

\* Without piggybacked frames no name is ever released twice, and every
\* frame that terminates finds its name: the second release is the only way to
\* the exceptions of checkTerminated (Frame.scala:473-477).
THEOREM NameFoundUnlessPiggybacked ==
  ASSUME Piggybacked = {}
  PROVE  Spec => [](ReleasedOnce /\ NameFound)
<1>1. RegistryInv => ReleasedOnce /\ NameFound
  BY DEF RegistryInv, AgainShape, ReleasedOnce, NameOwned, NameFound, Holds
<1> QED
  BY <1>1, RegistryInvariant, PTL

\* The IVar of an await is assigned at most once (Channels.await,
\* openConnector).
THEOREM AnsweredOnceHolds == Spec => []AnsweredOnce
<1>1. RegistryInv => AnsweredOnce
  BY DEF RegistryInv
<1> QED
  BY <1>1, RegistryInvariant, PTL

\* What a frame sends to the listeners it took is a connector it has open, and
\* it still holds the name then (openConnector).
THEOREM AnswersAreConnectors ==
  Spec => [](\A f \in Frames :
               notify[f] # {} => Holds(f) /\ own[f][chan[f]] \in Connectors)
<1>1. RegistryInv => \A f \in Frames :
                       notify[f] # {} => Holds(f) /\ own[f][chan[f]] \in Connectors
  <2> SUFFICES ASSUME RegistryInv, NEW f \in Frames, notify[f] # {}
               PROVE  Holds(f) /\ own[f][chan[f]] \in Connectors
    OBVIOUS
  <2>1. pc[f] \in {"notifyMain", "notifySys", "notify"} /\ own[f][chan[f]] # Null
    BY DEF RegistryInv, NotifyShape
  <2>2. own[f] \in [Names -> Connectors \cup {Null}] /\ chan[f] \in Names
    BY <2>1 DEF RegistryInv, TypeOK, ChanShape, ChanPcs
  <2> QED
    BY <2>1, <2>2 DEF Holds
<1> QED
  BY <1>1, RegistryInvariant, PTL

\* The action ListenersKept is about.
KeepsListeners ==
  \A a \in Awaiters :
    ReleasedOnce /\ Registered(a) /\ ~Registered(a)' =>
      entry' = Null \/ \E f \in Frames : a \in notify'[f]

\* A step that takes a listener out of the entry hands it to a frame or removes
\* the entry.
LEMMA ListenersKeptStep ==
  ASSUME RegistryInv, [Next]_vars
  PROVE  KeepsListeners
<1>a. /\ pc \in [Threads -> FramePcs \cup AwaitPcs]
      /\ seen \in [Threads -> Info \cup {Null}]
      /\ chan \in [Threads -> Names \cup {Null}]
      /\ opened \in [Frames -> 0 .. MaxOpens]
      /\ own \in [Frames -> [Names -> Connectors \cup {Null}]]
      /\ notify \in [Frames -> SUBSET Awaiters]
      /\ answer \in [Awaiters -> Connectors \cup {Null}]
      /\ entry \in Info \cup {Null}
  BY DEF RegistryInv, TypeOK
<1>1. ASSUME NEW f \in Frames, SpawnRead(f) PROVE KeepsListeners
  BY <1>1, <1>a, ThreadKinds
     DEF RegistryInv, KeepsListeners, Registered, SpawnRead, ForName, Goto
<1>2. ASSUME NEW f \in Frames, SpawnReserve(f) PROVE KeepsListeners
  <2>1. CASE entry = seen[f]
    BY <1>2, <2>1, ReserveEffect, <1>a, ThreadKinds, InfoFields
       DEF RegistryInv, KeepsListeners, Registered, NoListeners
  <2>2. CASE entry # seen[f]
    BY <1>2, <2>2, <1>a, ThreadKinds
       DEF RegistryInv, KeepsListeners, Registered, NoListeners, SpawnReserve,
           Unchanged, Forget, Goto
  <2> QED
    BY <2>1, <2>2
<1>3. ASSUME NEW f \in Frames, SpawnFails(f) PROVE KeepsListeners
  BY <1>3, <1>a, ThreadKinds
     DEF RegistryInv, KeepsListeners, Registered, SpawnFails, Goto
<1>4. ASSUME NEW f \in Frames, NEW n \in Names, UserOpen(f, n) PROVE KeepsListeners
  BY <1>4, <1>a, ThreadKinds
     DEF RegistryInv, KeepsListeners, Registered, UserOpen, Goto
<1>5. ASSUME NEW f \in Frames, NEW p \in Places, OpenRead(f, p) PROVE KeepsListeners
  BY <1>5, <1>a, ThreadKinds, PlaceCases
     DEF RegistryInv, KeepsListeners, Registered, OpenRead, ForName, Goto
<1>6. ASSUME NEW f \in Frames, NEW p \in Places, OpenPublish(f, p) PROVE KeepsListeners
  <2>1. CASE entry = seen[f]
    <3>1. PICK n \in Names, k \in Connectors : Published(f, p, n, k)
      BY <1>6, <2>1, PublishEffect
    <3> QED
      BY <3>1, PlaceCases, <1>a, ThreadKinds, InfoFields
         DEF Published, RegistryInv, KeepsListeners, Registered, NoListeners
  <2>2. CASE entry # seen[f]
    BY <1>6, <2>2, PlaceCases, <1>a, ThreadKinds
       DEF RegistryInv, KeepsListeners, Registered, NoListeners, OpenPublish, Unchanged,
           Forget, Goto
  <2> QED
    BY <2>1, <2>2
<1>7. ASSUME NEW f \in Frames, NEW p \in Places, OpenNotify(f, p) PROVE KeepsListeners
  BY <1>7, <1>a, ThreadKinds, PlaceCases
     DEF RegistryInv, KeepsListeners, Registered, OpenNotify
<1>8. ASSUME NEW f \in Frames, NEW p \in Places, OpenReturn(f, p) PROVE KeepsListeners
  BY <1>8, <1>a, ThreadKinds, PlaceCases
     DEF RegistryInv, KeepsListeners, Registered, OpenReturn, Goto
<1>9. ASSUME NEW f \in Frames, NEW n \in Names, UserSeal(f, n) PROVE KeepsListeners
  BY <1>9, <1>a, ThreadKinds
     DEF RegistryInv, KeepsListeners, Registered, UserSeal, Goto
<1>10. ASSUME NEW f \in Frames, SealRead(f) PROVE KeepsListeners
  BY <1>10, <1>a, ThreadKinds
     DEF RegistryInv, KeepsListeners, Registered, SealRead, ForName, Goto
<1>11. ASSUME NEW f \in Frames, SealUnpublish(f) PROVE KeepsListeners
  <2>1. CASE entry = seen[f]
    <3>1. PICK m \in Names : Unpublished(f, m)
      BY <1>11, <2>1, UnpublishEffect
    <3>2. /\ Holds(f) /\ own[f][m] # Null /\ entry \in Info /\ entry' # Null
          /\ entry'.listeners = [entry.listeners EXCEPT ![m] = {}]
      BY <3>1 DEF Unpublished
    <3>3. ASSUME ReleasedOnce PROVE entry'.listeners = entry.listeners
      <4>1. entry.conns[m] # Null
        BY <3>2, <3>3, HolderHasEntry
      <4>2. entry.listeners[m] = {} /\ entry.listeners \in [Names -> SUBSET Awaiters]
        BY <3>2, <4>1, InfoFields
      <4> QED
        BY <3>2, <4>2
    <3> QED
      BY <3>2, <3>3 DEF KeepsListeners, Registered
  <2>2. CASE entry # seen[f]
    BY <1>11, <2>2, <1>a, ThreadKinds
       DEF RegistryInv, KeepsListeners, Registered, NoListeners, SealUnpublish,
           Unchanged, Forget, Goto
  <2> QED
    BY <2>1, <2>2
<1>12. ASSUME NEW f \in Frames, Terminate(f) PROVE KeepsListeners
  BY <1>12, <1>a, ThreadKinds
     DEF RegistryInv, KeepsListeners, Registered, Terminate, Goto
<1>13. ASSUME NEW f \in Frames, NEW r \in Releases, FindName(f, r) PROVE KeepsListeners
  BY <1>13, FindEffect, ReleaseCases, <1>a, ThreadKinds, InfoFields
     DEF Ended, RegistryInv, KeepsListeners, Registered, NoListeners
<1>14. ASSUME NEW f \in Frames, NEW r \in Releases, Release(f, r) PROVE KeepsListeners
  BY <1>14, ReleaseEffect, ReleaseCases, <1>a, ThreadKinds, InfoFields
     DEF Ended, RegistryInv, KeepsListeners, Registered, NoListeners
<1>15. ASSUME NEW a \in Awaiters, NEW n \in Names, AwaitStart(a, n)
      PROVE  KeepsListeners
  BY <1>15, <1>a, ThreadKinds
     DEF RegistryInv, KeepsListeners, Registered, AwaitStart, AwaitLookup, ForName, Goto
<1>16. ASSUME NEW a \in Awaiters, AwaitRetry(a) PROVE KeepsListeners
  BY <1>16, <1>a, ThreadKinds
     DEF RegistryInv, KeepsListeners, Registered, AwaitRetry, AwaitLookup, ForName, Goto
<1>17. ASSUME NEW a \in Awaiters, AwaitRegister(a) PROVE KeepsListeners
  <2>1. CASE entry = seen[a]
    <3>1. PICK m \in Names : Enlisted(a, m)
      BY <1>17, <2>1, RegisterEffect
    <3> QED
      BY <3>1, <1>a, ThreadKinds, InfoFields
         DEF Enlisted, RegistryInv, KeepsListeners, Registered, NoListeners
  <2>2. CASE entry # seen[a]
    BY <1>17, <2>2, <1>a, ThreadKinds
       DEF RegistryInv, KeepsListeners, Registered, NoListeners, AwaitRegister,
           Unchanged, Forget, Goto
  <2> QED
    BY <2>1, <2>2
<1>18. CASE UNCHANGED vars
  BY <1>18
     DEF RegistryInv, KeepsListeners, Registered, vars
<1>19. ASSUME NEW f \in Frames, Activate(f) PROVE KeepsListeners
  BY <1>19, <1>a, ThreadKinds
     DEF RegistryInv, KeepsListeners, Registered, Activate, Goto
<1> QED
  BY NextCases, <1>1, <1>2, <1>3, <1>4, <1>5, <1>6, <1>7, <1>8, <1>9, <1>10, <1>11,
     <1>12, <1>13, <1>14, <1>15, <1>16, <1>17, <1>18, <1>19

\* A listener leaves the entry only to be notified, or with the whole entry
\* (openConnector, trySpawnReactor, sealConnector, retainOnlyListeners).
THEOREM ListenersKeptHolds == Spec => ListenersKept
<1>1. RegistryInv /\ [Next]_vars => KeepsListeners
  BY ListenersKeptStep
<1>2. RegistryInv /\ [Next]_vars => [KeepsListeners]_vars
  BY <1>1
<1> QED
  BY <1>2, RegistryInvariant, PTL DEF Spec, ListenersKept, KeepsListeners
=============================================================================

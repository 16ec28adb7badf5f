--------------------------- MODULE ReactorContract ---------------------------
(***************************************************************************)
(* What a reactor promises to its clients, without threads, schedulers,    *)
(* monitors or pending queues (Reactor.scala:12-24, Channel.scala:10-16):  *)
(* each channel is a FIFO mailbox, one event is handled at a time, nothing *)
(* is handled before the reactor starts, after it fails or terminates, or  *)
(* on a sealed channel, and the reactor terminates only when its last      *)
(* non-daemon channel is gone or user code failed.                         *)
(***************************************************************************)
EXTENDS Sequences

CONSTANTS
  Conns,      \* Channels (connectors) the reactor may ever have.
  Daemon,     \* Those that do not keep the reactor alive.
  Msgs,       \* Events.
  Null

VARIABLES
  life,       \* "Fresh", "Running" or "Terminated".
  conn,       \* Each channel: "absent", "open" or "sealed".
  mail,       \* Accepted and not yet handled events of each channel.
  current,    \* The <<channel, event>> being handled, or Null.
  failed      \* User code has thrown; only termination can follow.

cvars == <<life, conn, mail, current, failed>>

CInit ==
  /\ life = "Fresh"
  /\ conn = [c \in Conns |-> "absent"]
  /\ mail = [c \in Conns |-> <<>>]
  /\ current = Null
  /\ failed = FALSE

COpen(c) ==
  /\ conn[c] = "absent"
  /\ conn' = [conn EXCEPT ![c] = "open"]
  /\ UNCHANGED <<life, mail, current, failed>>

\* Sealing drops what has not been handled yet.
CSeal(c) ==
  /\ conn[c] = "open"
  /\ conn' = [conn EXCEPT ![c] = "sealed"]
  /\ mail' = [mail EXCEPT ![c] = <<>>]
  /\ UNCHANGED <<life, current, failed>>

CSend(c, m) ==
  /\ life # "Terminated"
  /\ conn[c] = "open"
  /\ mail' = [mail EXCEPT ![c] = Append(@, m)]
  /\ UNCHANGED <<life, conn, current, failed>>

CStart ==
  /\ life = "Fresh"
  /\ life' = "Running"
  /\ UNCHANGED <<conn, mail, current, failed>>

CDeliver(c) ==
  /\ life = "Running"
  /\ ~failed
  /\ current = Null
  /\ conn[c] = "open"
  /\ mail[c] # <<>>
  /\ current' = <<c, Head(mail[c])>>
  /\ mail' = [mail EXCEPT ![c] = Tail(@)]
  /\ UNCHANGED <<life, conn, failed>>

CReturn ==
  /\ current # Null
  /\ current' = Null
  /\ UNCHANGED <<life, conn, mail, failed>>

\* User code throws, from an event handler or from a lifecycle callback.
CFail ==
  /\ life = "Running"
  /\ failed' = TRUE
  /\ current' = Null
  /\ UNCHANGED <<life, conn, mail>>

CTerminate ==
  /\ life = "Running"
  /\ current = Null
  /\ failed \/ \A c \in Conns \ Daemon : conn[c] # "open"
  /\ life' = "Terminated"
  /\ mail' = [c \in Conns |-> <<>>]
  /\ failed' = FALSE
  /\ UNCHANGED <<conn, current>>

CNext ==
  \/ CStart \/ CReturn \/ CFail \/ CTerminate
  \/ \E c \in Conns : COpen(c) \/ CSeal(c) \/ CDeliver(c)
  \/ \E c \in Conns, m \in Msgs : CSend(c, m)

CSpec == CInit /\ [][CNext]_cvars
=============================================================================

--------------------------- MODULE NotificationBus ---------------------------
(***************************************************************************)
(* The process-wide listener behind the notification streams               *)
(* (apps/web/src/server/realtime/notification-bus.ts) and the Postgres     *)
(* connection it is made of (packages/db/src/listener.ts): started by the  *)
(* first stream, shared by the others, torn down by an error and started   *)
(* again by a timer.                                                       *)
(***************************************************************************)
EXTENDS Naturals

CONSTANTS
  Stream,       \* open event streams
  Conn,         \* Postgres connections that may be opened
  MaxFaults,    \* bound: connections that fail to start or break
  NoConn

ASSUME ConstantsAssumption == NoConn \notin Conn /\ MaxFaults \in Nat

VARIABLES
  subscribers,  \* streams with a handler
  listener,     \* this.listener
  starting,     \* this.starting: the connection being opened, or NoConn
  joined,       \* does a caller await another caller's start?
  timer,        \* is a reconnect pending?
  conn,         \* conn[c]: "unused", "opening", "open" (LISTEN pending),
                \* "listening", "stray" (LISTEN failed), "broken", "closed"
  faults,
  unhandled     \* history: was a rejection left uncaught?

vars == <<subscribers, listener, starting, joined, timer, conn, faults, unhandled>>

Init ==
  /\ subscribers = {} /\ listener = NoConn /\ starting = NoConn
  /\ joined = FALSE /\ timer = FALSE
  /\ conn = [c \in Conn |-> "unused"]
  /\ faults = 0 /\ unhandled = FALSE

\* createPgListener opens a connection; a caller that finds one being opened
\* awaits it.
EnsureListening ==
  IF listener # NoConn THEN UNCHANGED <<starting, joined, conn>>
  ELSE IF starting # NoConn THEN joined' = TRUE /\ UNCHANGED <<starting, conn>>
  ELSE \E c \in Conn : /\ conn[c] = "unused"
                       /\ starting' = c
                       /\ conn' = [conn EXCEPT ![c] = "opening"]
                       /\ UNCHANGED joined

Subscribe(s) ==
  /\ s \notin subscribers
  /\ subscribers' = subscribers \cup {s}
  /\ EnsureListening
  /\ UNCHANGED <<listener, timer, faults, unhandled>>

\* The stream's cancel or abort; the listener is kept.
Unsubscribe(s) ==
  /\ s \in subscribers
  /\ subscribers' = subscribers \ {s}
  /\ UNCHANGED <<listener, starting, joined, timer, conn, faults, unhandled>>

Connected ==
  /\ starting # NoConn /\ conn[starting] = "opening"
  /\ conn' = [conn EXCEPT ![starting] = "open"]
  /\ UNCHANGED <<subscribers, listener, starting, joined, timer, faults, unhandled>>

Listening ==
  /\ starting # NoConn /\ conn[starting] = "open"
  /\ conn' = [conn EXCEPT ![starting] = "listening"]
  /\ listener' = starting /\ starting' = NoConn /\ joined' = FALSE
  /\ UNCHANGED <<subscribers, timer, faults, unhandled>>

\* Variation: no reconnect is scheduled when the very first start fails.
HandleErrorOfListener ==
  /\ listener' = NoConn
  /\ timer' = (timer \/ listener # NoConn)

\* handleError: whatever the listener is by now, it is dropped and closed.
HandleError ==
  /\ listener' = NoConn
  /\ timer' = TRUE

Closed(f) == IF listener # NoConn THEN [f EXCEPT ![listener] = "closed"] ELSE f

\* connect or LISTEN fails: the client is not closed, its handlers stay wired,
\* and only the caller that started it catches the rejection.
StartFails ==
  /\ starting # NoConn /\ faults < MaxFaults
  /\ conn' = Closed([conn EXCEPT ![starting] =
               IF @ = "open" THEN "stray" ELSE "broken"])
  /\ starting' = NoConn /\ joined' = FALSE
  /\ unhandled' = (unhandled \/ joined)
  /\ faults' = faults + 1
  /\ HandleError
  /\ UNCHANGED subscribers

\* A connection breaks: the bus cannot tell which one reported the error.
Breaks(c) ==
  /\ conn[c] \in {"listening", "stray"} /\ faults < MaxFaults
  /\ conn' = Closed([conn EXCEPT ![c] = "broken"])
  /\ faults' = faults + 1
  /\ HandleError
  /\ UNCHANGED <<subscribers, starting, joined, unhandled>>

\* Variation: the timer reconnects only while nobody is there.
ReconnectIdle ==
  /\ timer /\ timer' = FALSE
  /\ IF subscribers = {} THEN EnsureListening ELSE UNCHANGED <<starting, joined, conn>>
  /\ UNCHANGED <<subscribers, listener, faults, unhandled>>

\* The timer: reconnect if anyone is still there.
Reconnect ==
  /\ timer /\ timer' = FALSE
  /\ IF subscribers # {} THEN EnsureListening ELSE UNCHANGED <<starting, joined, conn>>
  /\ UNCHANGED <<subscribers, listener, faults, unhandled>>

Next ==
  \/ \E s \in Stream : Subscribe(s) \/ Unsubscribe(s)
  \/ Connected \/ Listening \/ StartFails \/ Reconnect
  \/ \E c \in Conn : Breaks(c)

Spec == Init /\ [][Next]_vars

\* Connects are answered and timers fire.
FairSpec == Spec /\ WF_vars(Connected) /\ WF_vars(Listening) /\ WF_vars(Reconnect)

TypeOK ==
  /\ subscribers \subseteq Stream /\ joined \in BOOLEAN
  /\ {listener, starting} \subseteq Conn \cup {NoConn}
  /\ conn \in [Conn -> {"unused", "opening", "open", "listening", "stray", "broken", "closed"}]
  /\ timer \in BOOLEAN /\ faults \in 0 .. MaxFaults

\* A connection that listens is the bus's listener: none is left behind that
\* would dispatch every notification a second time.
NoListenerLeftBehind == \A c \in Conn : conn[c] = "listening" <=> c = listener

\* An open stream never depends on a bus that neither listens, nor is about
\* to, nor has a reconnect pending, in whatever order starts, errors of old
\* connections and timers come.
NeverForgotten ==
  subscribers # {} => listener # NoConn \/ starting # NoConn \/ timer

\* The three together, which is what the runs check (notification-bus.ts).
BusHolds == TypeOK /\ NoListenerLeftBehind /\ NeverForgotten

\* While streams are open the bus is listening again and again.
KeepsListening == subscribers # {} ~> (listener # NoConn \/ subscribers = {})

\* A boot failure surfaces via onError (notification-bus.ts): no caller's
\* rejection goes uncaught.
FailuresAreCaught == ~unhandled
=============================================================================

----------------------------- MODULE MCProgress ------------------------------
(***************************************************************************)
(* What the background processes must get done: the notification bus goes  *)
(* on listening, the queue settles its jobs, the sweeper takes a released  *)
(* key up again.  A behaviour of this module moves one of the three,       *)
(* chosen at the start; the other two stay as they begin, so their         *)
(* variables keep their own names.                                         *)
(***************************************************************************)
EXTENDS NotificationBus, TLAPS

CONSTANTS
  Worker, Job, Sub, RetryLimit, MaxCrashes, NoJob,             \* of JobQueue
  Reminder, Fire, Grace, Retention, Cap, SweepLife, MaxNow,    \* of ReminderDispatch
  MaxSweepFaults, NoKey

VARIABLES
  which,        \* the component that moves
  \* Of JobQueue.
  kind, configured, wiring, state, early, left, deadLetters, alerted, pc, hand, rest,
  listed, mailed, rows, pushed, removed, cancelled,
  wasListed, excused, mailedListed, spared, served, crashes,
  \* Of ReminderDispatch.
  now, reminder, planned, ledger, createdAt, jobs, sweepPc, at, batch, due, cur,
  phantom, released, lost, pruned, sweepFaults

Queue == INSTANCE JobQueue
Sweeper == INSTANCE ReminderDispatch WITH
  MaxFaults <- MaxSweepFaults, faults <- sweepFaults, pc <- sweepPc

queueVars ==
  <<kind, configured, wiring, state, early, left, deadLetters, alerted, pc, hand, rest,
    listed, mailed, rows, pushed, removed, cancelled,
    wasListed, excused, mailedListed, spared, served, crashes>>
sweeperVars ==
  <<now, reminder, planned, ledger, createdAt, jobs, sweepPc, at, batch, due, cur,
    phantom, released, lost, pruned, sweepFaults>>
allVars == <<which, vars, queueVars, sweeperVars>>

\* The queue's jobs are of every kind when it is the queue that moves.
ProgressInit ==
  /\ which \in {"bus", "queue", "sweeper"}
  /\ Init /\ Queue!Init /\ Sweeper!Init
  /\ which # "queue" => configured /\ \A j \in Job : kind[j] = "mail"

BusMoves == which = "bus" /\ Next /\ UNCHANGED <<which, queueVars, sweeperVars>>
QueueMoves == which = "queue" /\ Queue!Next /\ UNCHANGED <<which, vars, sweeperVars>>
SweeperMoves == which = "sweeper" /\ Sweeper!Next /\ UNCHANGED <<which, vars, queueVars>>

ProgressNext == BusMoves \/ QueueMoves \/ SweeperMoves

\* The fairness of the three, each asked of its component when that one moves.
ProgressSpec ==
  /\ ProgressInit /\ [][ProgressNext]_allVars
  /\ WF_vars(Connected) /\ WF_vars(Listening) /\ WF_vars(Reconnect)
  /\ \A j \in Job : WF_queueVars(which = "queue" /\ Queue!Expire(j))
  /\ \A w \in Worker : WF_queueVars(which = "queue" /\ Queue!WorkerStep(w))
  /\ \A w \in Worker : WF_sweeperVars(which = "sweeper" /\ Sweeper!SweepStep(w))

------------------------------------------------------------------------------

\* A job is completed when it did its work and never otherwise, one that exhausts its
\* retries is in the dead-letter queue, and no retry mails a suppressed recipient
\* (packages/jobs/src/worker.ts and its handlers).
QueueHolds ==
  /\ Queue!TypeOK
  /\ Queue!FailureIsKept
  /\ Queue!DoneMeansDone
  /\ Queue!SuppressedIsSpared

\* The queue implements its promise, JobPromise.
QueueKeepsPromise == Queue!KeepsPromise

\* What was accepted gets done: a queued job is in the end completed or reported to an
\* operator, and a reminder whose claim was undone is claimed again while it is due (run.ts,
\* "the next tick retries").
WorkGetsDone == Queue!QueuedIsSettled /\ Sweeper!ReleasedIsRetried
------------------------------------------------------------------------------
(* What holds of the bus for every number of streams and connections: it is  *)
(* proved of the bus alone, NotificationBus!Spec.  BusHolds is not           *)
(* inductive: that an error closes the only listening connection needs that  *)
(* nothing is being opened while the bus listens, and that what is being     *)
(* opened neither listens yet nor is a connection that was dropped before.   *)

OneAtATime == listener = NoConn \/ starting = NoConn

StartingIsFresh == starting # NoConn => conn[starting] \in {"opening", "open"}

BusInv == BusHolds /\ OneAtATime /\ StartingIsFresh

\* Whoever calls ensureListening -- a stream that opens or the timer -- leaves
\* the bus listening or about to, and one connection at most that listens
\* (notification-bus.ts: ensureListening).
LEMMA EnsureListeningWorks ==
  ASSUME BusInv, EnsureListening, UNCHANGED <<listener, faults>>,
         subscribers' \subseteq Stream, timer' \in BOOLEAN
  PROVE  BusInv'
  <1> USE ConstantsAssumption DEF BusInv, BusHolds, OneAtATime, StartingIsFresh
  <1>1. TypeOK' /\ NoListenerLeftBehind' /\ OneAtATime' /\ StartingIsFresh'
    <2>1. CASE listener # NoConn
      BY <2>1 DEF EnsureListening, TypeOK, NoListenerLeftBehind
    <2>2. CASE listener = NoConn /\ starting # NoConn
      BY <2>2 DEF EnsureListening, TypeOK, NoListenerLeftBehind
    <2>3. CASE listener = NoConn /\ starting = NoConn
      <3>1. PICK c \in Conn : /\ conn[c] = "unused"
                              /\ starting' = c
                              /\ conn' = [conn EXCEPT ![c] = "opening"]
                              /\ joined' = joined
        BY <2>3 DEF EnsureListening
      <3> QED BY <2>3, <3>1 DEF TypeOK, NoListenerLeftBehind
    <2> QED BY <2>1, <2>2, <2>3
  <1>2. NeverForgotten'
    BY DEF EnsureListening, NeverForgotten
  <1> QED BY <1>1, <1>2

\* An error drops the listener and closes its connection, whichever
\* connection reported it and whatever it becomes (handleError).
LEMMA HandleErrorWorks ==
  ASSUME BusInv, HandleError, NEW failed \in Conn, NEW becomes,
         becomes \in {"stray", "broken"},
         conn[failed] = "listening" => failed = listener,
         failed = starting => starting' = NoConn,
         starting' \in {starting, NoConn},
         conn' = Closed([conn EXCEPT ![failed] = becomes]),
         subscribers' = subscribers, joined' \in BOOLEAN, faults' \in 0 .. MaxFaults
  PROVE  BusInv'
  <1> USE ConstantsAssumption DEF BusInv, BusHolds, OneAtATime, StartingIsFresh, HandleError
  <1>1. /\ conn' \in [Conn -> {"unused", "opening", "open", "listening", "stray", "broken", "closed"}]
        /\ \A c \in Conn : conn'[c] # "listening"
        /\ \A c \in Conn : c # failed /\ c # listener => conn'[c] = conn[c]
    BY DEF Closed, TypeOK, NoListenerLeftBehind
  <1>2. TypeOK'
    BY <1>1 DEF TypeOK
  <1>3. NoListenerLeftBehind' /\ OneAtATime' /\ StartingIsFresh'
    BY <1>1 DEF NoListenerLeftBehind, TypeOK
  <1>4. NeverForgotten'
    BY DEF NeverForgotten
  <1> QED BY <1>2, <1>3, <1>4

\* Every step of the bus, of its connections and of its streams keeps BusInv.
LEMMA BusStep == BusInv /\ [Next]_vars => BusInv'
  <1> SUFFICES ASSUME BusInv, [Next]_vars PROVE BusInv'
    OBVIOUS
  <1> USE ConstantsAssumption
  <1>1. ASSUME NEW s \in Stream, Subscribe(s) PROVE BusInv'
    BY <1>1, EnsureListeningWorks DEF Subscribe, BusInv, BusHolds, TypeOK
  <1>2. ASSUME NEW s \in Stream, Unsubscribe(s) PROVE BusInv'
    BY <1>2 DEF Unsubscribe, BusInv, BusHolds, TypeOK, NoListenerLeftBehind,
                NeverForgotten, OneAtATime, StartingIsFresh
  <1>3. CASE Connected
    BY <1>3 DEF Connected, BusInv, BusHolds, TypeOK, NoListenerLeftBehind,
                NeverForgotten, OneAtATime, StartingIsFresh
  <1>4. CASE Listening
    BY <1>4 DEF Listening, BusInv, BusHolds, TypeOK, NoListenerLeftBehind,
                NeverForgotten, OneAtATime, StartingIsFresh
  <1>5. CASE StartFails
    <2> DEFINE becomes == IF conn[starting] = "open" THEN "stray" ELSE "broken"
    <2>1. starting \in Conn /\ conn[starting] # "listening"
      BY <1>5 DEF StartFails, BusInv, BusHolds, TypeOK, StartingIsFresh
    <2>2. conn' = Closed([conn EXCEPT ![starting] = becomes])
      BY <1>5 DEF StartFails
    <2>3. faults' \in 0 .. MaxFaults /\ joined' \in BOOLEAN
      <3>1. faults' = faults + 1 /\ faults < MaxFaults /\ joined' = FALSE
        BY <1>5 DEF StartFails
      <3>2. faults \in 0 .. MaxFaults
        BY DEF BusInv, BusHolds, TypeOK
      <3>3. faults' \in 0 .. MaxFaults
        BY <3>1, <3>2, SMT
      <3> QED BY <3>1, <3>3
    <2> QED BY <1>5, <2>1, <2>2, <2>3, HandleErrorWorks DEF StartFails
  <1>6. CASE Reconnect
    <2>1. CASE subscribers = {}
      BY <1>6, <2>1 DEF Reconnect, BusInv, BusHolds, TypeOK, NoListenerLeftBehind,
                        NeverForgotten, OneAtATime, StartingIsFresh
    <2>2. CASE subscribers # {}
      BY <1>6, <2>2, EnsureListeningWorks DEF Reconnect, BusInv, BusHolds, TypeOK
    <2> QED BY <2>1, <2>2
  <1>7. ASSUME NEW c \in Conn, Breaks(c) PROVE BusInv'
    <2>1. faults' \in 0 .. MaxFaults /\ joined' \in BOOLEAN /\ c # starting
      BY <1>7 DEF Breaks, BusInv, BusHolds, TypeOK, StartingIsFresh
    <2>2. conn[c] = "listening" => c = listener
      BY DEF BusInv, BusHolds, NoListenerLeftBehind
    <2> QED BY <1>7, <2>1, <2>2, HandleErrorWorks DEF Breaks
  <1>8. CASE UNCHANGED vars
    BY <1>8 DEF vars, BusInv, BusHolds, TypeOK, NoListenerLeftBehind,
                NeverForgotten, OneAtATime, StartingIsFresh
  <1> QED BY <1>1, <1>2, <1>3, <1>4, <1>5, <1>6, <1>7, <1>8 DEF Next

\* However starts, errors of any connection and timers interleave, the bus has
\* one connection that listens at most, and it is its listener; and as long as
\* a stream is open it listens, is about to, or will try again.
THEOREM BusAlwaysHolds == Spec => []BusHolds
  <1>1. Init => BusInv
    <2>1. Init => TypeOK
      <3>1. 0 \in 0 .. MaxFaults
        BY ConstantsAssumption
      <3> QED BY <3>1 DEF Init, TypeOK
    <2>2. Init => NoListenerLeftBehind /\ NeverForgotten /\ OneAtATime /\ StartingIsFresh
      BY ConstantsAssumption
      DEF Init, NoListenerLeftBehind, NeverForgotten, OneAtATime, StartingIsFresh
    <2> QED BY <2>1, <2>2 DEF BusInv, BusHolds
  <1>2. BusInv => BusHolds
    BY DEF BusInv
  <1> QED BY <1>1, <1>2, BusStep, PTL DEF Spec

\* A step of this module is a step of the bus or leaves the bus alone.
LEMMA BusRuns == ProgressSpec => Spec
<1>1. ProgressInit => Init
  BY DEF ProgressInit
<1>2. [ProgressNext]_allVars => [Next]_vars
  BY DEF ProgressNext, BusMoves, QueueMoves, SweeperMoves, allVars, vars
<1> QED BY <1>1, <1>2, PTL DEF ProgressSpec, Spec

\* The same beside the queue and the sweeper, where the run checks it.
COROLLARY ProgressBusHolds == ProgressSpec => []BusHolds
BY BusRuns, BusAlwaysHolds, PTL

------------------------------------------------------------------------------
(* What is proved of the queue in JobQueue holds of it here, where it shares *)
(* a behaviour with the other two, for every number of jobs and workers.     *)

ASSUME QueueAssumption == Queue!Bounds

\* A step of this module is a step of the queue or leaves the queue alone.
LEMMA QueueRuns == ProgressSpec => Queue!Spec
<1>1. ProgressInit => Queue!Init
  BY DEF ProgressInit
<1>2. [ProgressNext]_allVars => [Queue!Next]_Queue!vars
  BY DEF ProgressNext, BusMoves, QueueMoves, SweeperMoves, allVars, queueVars, Queue!vars,
         Queue!boss, Queue!run, Queue!world, Queue!list
<1> QED BY <1>1, <1>2, PTL DEF ProgressSpec, Queue!Spec

\* For any jobs, workers, retries and crashes: a completed job did its work, a failed
\* one is kept, no effect is made more often than the job is attempted, and a retry
\* spares a suppressed recipient (packages/jobs/src/worker.ts).
THEOREM QueueAlwaysHolds == ProgressSpec => []QueueHolds
<1>1. Queue!Spec => [](Queue!TypeOK /\ Queue!SuppressedIsSpared)
  BY QueueAssumption, Queue!EffectsAreBounded
<1>2. Queue!Spec => [](Queue!DoneMeansDone /\ Queue!FailureIsKept)
  BY Queue!CompletedOrKept
<1>3. /\ Queue!TypeOK /\ Queue!SuppressedIsSpared
      /\ Queue!DoneMeansDone /\ Queue!FailureIsKept
      => QueueHolds
  BY DEF QueueHolds
<1> QED BY <1>1, <1>2, <1>3, QueueRuns, PTL

\* For any jobs, workers, retries and crashes, the queue implements JobPromise.
THEOREM QueuePromiseKept == ProgressSpec => QueueKeepsPromise
<1>1. Queue!Spec => Queue!KeepsPromise
  BY Queue!PromiseKept
<1> QED BY <1>1, QueueRuns DEF QueueKeepsPromise
==============================================================================

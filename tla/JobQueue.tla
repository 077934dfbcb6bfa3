------------------------------ MODULE JobQueue ------------------------------
(***************************************************************************)
(* The background jobs of packages/jobs: worker processes fetch a job, run *)
(* its handler and settle it with pg-boss, which retries, expires and      *)
(* dead-letters.  Handlers act on the outside world (mail, notification    *)
(* rows, file storage, Stripe), so what a retry repeats is part of the     *)
(* model.  pg-boss is external and modelled from how the code uses it.     *)
(***************************************************************************)
EXTENDS Integers, FiniteSets, FiniteSetTheorems, TLAPS

CONSTANTS
  Job,          \* jobs the web app asks for
  Worker,       \* worker processes
  Sub,          \* Stripe subscriptions a cancellation job names
  RetryLimit,   \* pg-boss's default number of retries
  MaxCrashes,   \* bound: worker crashes
  NoJob         \* "no job in hand"

Kind == {"mail", "notify", "uploads", "stripe"}

VARIABLES
  kind,         \* kind[j]: the queue j is sent to
  configured,   \* are the mail, storage and Stripe services configured?
  wiring,       \* the queues' dead letter: "absent", "plain" or "wired"
  state,        \* state[j]: what the request or pg-boss knows of j
  early,        \* jobs sent before any worker had run
  left,         \* left[j]: retries left
  deadLetters,  \* jobs copied to the dead-letter queue
  alerted,      \* jobs the dead-letter handler reported
  pc, hand, rest,   \* per worker: next step, job in hand, ids still to cancel
  listed,       \* jobs whose recipient is on the suppression list
  \* The outside world.
  mailed, rows, pushed, removed, cancelled,
  \* History, read by properties and bounds only.
  wasListed,    \* wasListed[w]: the recipient was listed when w began its attempt
  excused,      \* jobs mailed after a suppression lookup that failed
  mailedListed, \* jobs mailed in an attempt that began with the recipient listed
  spared,       \* jobs some attempt gave up because the recipient is listed
  served,       \* a worker has run
  crashes

boss    == <<wiring, state, early, left, deadLetters, alerted>>
run     == <<pc, hand, rest, wasListed, served, crashes>>
world   == <<mailed, rows, pushed, removed, cancelled>>
list    == <<listed, excused, mailedListed, spared>>
vars    == <<kind, configured, boss, run, world, list>>

Live(j) == state[j] \in {"created", "retry", "active"}
Up(w) == pc[w] # "down"

Init ==
  /\ kind \in [Job -> Kind] /\ configured \in BOOLEAN
  /\ wiring = "absent"
  /\ state = [j \in Job |-> "unasked"]
  /\ left = [j \in Job |-> RetryLimit]
  /\ early = {} /\ deadLetters = {} /\ alerted = {}
  /\ pc = [w \in Worker |-> "down"] /\ hand = [w \in Worker |-> NoJob]
  /\ rest = [w \in Worker |-> {}] /\ wasListed = [w \in Worker |-> FALSE]
  /\ listed = {} /\ excused = {} /\ mailedListed = {} /\ spared = {}
  /\ mailed = [j \in Job |-> 0] /\ rows = [j \in Job |-> 0]
  /\ pushed = [j \in Job |-> 0]
  /\ removed = {} /\ cancelled = [j \in Job |-> {}]
  /\ served = FALSE /\ crashes = 0

-----------------------------------------------------------------------------
(* The web process.                                                        *)

\* The client's createQueue leaves a queue that exists as it is, and makes a
\* missing one without a dead letter.
ClientCreatesQueues ==
  /\ wiring = "absent"
  /\ wiring' = "plain"
  /\ UNCHANGED <<kind, configured, state, early, left, deadLetters, alerted, run, world, list>>

Enqueue(j) ==
  /\ wiring # "absent" /\ state[j] = "unasked"
  /\ state' = [state EXCEPT ![j] = "created"]
  /\ early' = IF ~served THEN early \cup {j} ELSE early
  /\ UNCHANGED <<kind, configured, wiring, left, deadLetters, alerted, run, world, list>>

\* The client does not start or the send throws: logged, and the job dropped.
EnqueueFails(j) ==
  /\ state[j] = "unasked"
  /\ state' = [state EXCEPT ![j] = "dropped"]
  /\ UNCHANGED <<kind, configured, wiring, early, left, deadLetters, alerted, run, world, list>>

-----------------------------------------------------------------------------
(* The worker process and pg-boss.                                         *)

\* main: the dead-letter queue first, every queue created and then updated.
Boot(w) ==
  /\ pc[w] = "down"
  /\ pc' = [pc EXCEPT ![w] = "idle"]
  /\ served' = TRUE
  /\ wiring' = "wired"
  /\ UNCHANGED <<kind, configured, state, early, left, deadLetters, alerted,
                 hand, rest, wasListed, crashes, world, list>>

FirstStep(j) ==
  CASE kind[j] = "mail"    -> IF configured THEN "lookup" ELSE "good"
    [] kind[j] = "notify"  -> "insert"
    [] kind[j] = "uploads" -> IF configured THEN "remove" ELSE "good"
    [] kind[j] = "stripe"  -> IF configured THEN "cancel" ELSE "good"

Fetch(w, j) ==
  /\ pc[w] = "idle" /\ state[j] \in {"created", "retry"}
  /\ state' = [state EXCEPT ![j] = "active"]
  /\ hand' = [hand EXCEPT ![w] = j]
  /\ pc' = [pc EXCEPT ![w] = FirstStep(j)]
  /\ rest' = [rest EXCEPT ![w] = IF kind[j] = "stripe" THEN Sub ELSE {}]
  /\ wasListed' = [wasListed EXCEPT ![w] = j \in listed]
  /\ UNCHANGED <<kind, configured, wiring, early, left, deadLetters, alerted,
                 served, crashes, world, list>>

Goto(w, step) ==
  /\ pc' = [pc EXCEPT ![w] = step]
  /\ UNCHANGED <<kind, configured, boss, hand, rest, wasListed, served, crashes>>

\* send: the suppression list is consulted first.
Lookup(w) ==
  /\ pc[w] = "lookup"
  /\ IF hand[w] \in listed
       THEN Goto(w, "good") /\ spared' = spared \cup {hand[w]}
       ELSE Goto(w, "send") /\ UNCHANGED spared
  /\ UNCHANGED <<world, listed, excused, mailedListed>>

\* A lookup that fails lets the mail through.
LookupFails(w) ==
  /\ pc[w] = "lookup"
  /\ Goto(w, "send")
  /\ excused' = excused \cup {hand[w]}
  /\ UNCHANGED <<world, listed, mailedListed, spared>>

\* The provider accepts the mail; the answer may be an error or get lost.
SendMail(w) ==
  /\ pc[w] = "send"
  /\ mailed' = [mailed EXCEPT ![hand[w]] = @ + 1]
  /\ mailedListed' = IF wasListed[w] THEN mailedListed \cup {hand[w]} ELSE mailedListed
  /\ Goto(w, "good") \/ Goto(w, "bad")
  /\ UNCHANGED <<rows, pushed, removed, cancelled, listed, excused, spared>>

InsertRow(w) ==
  /\ pc[w] = "insert"
  /\ rows' = [rows EXCEPT ![hand[w]] = @ + 1]
  /\ Goto(w, "publish")
  /\ UNCHANGED <<mailed, pushed, removed, cancelled, list>>

Publish(w) ==
  /\ pc[w] = "publish"
  /\ pushed' = [pushed EXCEPT ![hand[w]] = @ + 1]
  /\ Goto(w, "good")
  /\ UNCHANGED <<mailed, rows, removed, cancelled, list>>

\* deleteFiles: the files may be gone although the call reports a failure.
RemoveFiles(w) ==
  /\ pc[w] = "remove"
  /\ removed' = removed \cup {hand[w]}
  /\ Goto(w, "good") \/ Goto(w, "bad")
  /\ UNCHANGED <<mailed, rows, pushed, cancelled, list>>

\* Variation: one subscription that is gone already ends the loop.
CancelUntilGone(w) ==
  /\ pc[w] = "cancel"
  /\ \E id \in rest[w] :
       /\ cancelled' = [cancelled EXCEPT ![hand[w]] = @ \cup {id}]
       /\ rest' = [rest EXCEPT ![w] = @ \ {id}]
       /\ pc' = [pc EXCEPT ![w] =
                   IF id \in cancelled[hand[w]] \/ rest[w] = {id} THEN "good" ELSE "cancel"]
  /\ UNCHANGED <<kind, configured, boss, hand, wasListed, served, crashes,
                 mailed, rows, pushed, removed, list>>

\* One id of the loop; one already cancelled is an invalid request, skipped.
CancelOne(w) ==
  /\ pc[w] = "cancel"
  /\ \E id \in rest[w] :
       /\ cancelled' = [cancelled EXCEPT ![hand[w]] = @ \cup {id}]
       /\ rest' = [rest EXCEPT ![w] = @ \ {id}]
       /\ pc' = [pc EXCEPT ![w] = IF rest[w] = {id} THEN "good" ELSE "cancel"]
  /\ UNCHANGED <<kind, configured, boss, hand, wasListed, served, crashes,
                 mailed, rows, pushed, removed, list>>

\* Any call of a handler may throw with nothing done: the handler throws too.
Throw(w) ==
  /\ pc[w] \in {"send", "insert", "publish", "remove", "cancel"}
  /\ Goto(w, "bad")
  /\ UNCHANGED <<world, list>>

Freed(w) ==
  /\ pc' = [pc EXCEPT ![w] = "idle"]
  /\ hand' = [hand EXCEPT ![w] = NoJob]
  /\ rest' = [rest EXCEPT ![w] = {}]
  /\ wasListed' = [wasListed EXCEPT ![w] = FALSE]
  /\ UNCHANGED <<served, crashes>>

\* pg-boss gives an attempt up: a retry while some are left, then the end,
\* and a copy in the dead-letter queue if there is one.  Whether pg-boss looks
\* at the queue then, or at what the job was sent with, is left open.
GiveUp(j) ==
  IF left[j] > 0
    THEN /\ state' = [state EXCEPT ![j] = "retry"]
         /\ left' = [left EXCEPT ![j] = @ - 1]
         /\ UNCHANGED deadLetters
    ELSE /\ state' = [state EXCEPT ![j] = "failed"]
         /\ deadLetters' \in IF wiring # "wired" THEN {deadLetters}
                            ELSE IF j \in early THEN {deadLetters, deadLetters \cup {j}}
                            ELSE {deadLetters \cup {j}}
         /\ UNCHANGED left

\* Variation: whatever pg-boss has done with the job since.
CompleteAnyway(w) ==
  /\ pc[w] = "good"
  /\ state' = [state EXCEPT ![hand[w]] = "completed"]
  /\ Freed(w)
  /\ UNCHANGED <<kind, configured, wiring, early, left, deadLetters, alerted,
                 world, list>>

\* The handler returned.  pg-boss completes the job if it is active, be it by
\* now in the hands of another worker.
Complete(w) ==
  /\ pc[w] = "good"
  /\ state' = [state EXCEPT ![hand[w]] = IF @ = "active" THEN "completed" ELSE @]
  /\ Freed(w)
  /\ UNCHANGED <<kind, configured, wiring, early, left, deadLetters, alerted,
                 world, list>>

\* The handler threw.
Fail(w) ==
  /\ pc[w] = "bad"
  /\ IF state[hand[w]] = "active"
       THEN GiveUp(hand[w]) ELSE UNCHANGED <<state, left, deadLetters>>
  /\ Freed(w)
  /\ UNCHANGED <<kind, configured, wiring, early, alerted, world, list>>

\* Variation: an attempt that expires is not counted.
ExpireUncounted(j) ==
  /\ state[j] = "active" /\ \E w \in Worker : Up(w)
  /\ state' = [state EXCEPT ![j] = "retry"]
  /\ UNCHANGED <<kind, configured, wiring, early, left, deadLetters, alerted, run, world, list>>

\* pg-boss's maintenance, in any worker that is up: an attempt outlasted its
\* expiry.  Its handler, if it lives, does not know.
Expire(j) ==
  /\ state[j] = "active" /\ \E w \in Worker : Up(w)
  /\ GiveUp(j)
  /\ UNCHANGED <<kind, configured, wiring, early, alerted, run, world, list>>

Crash(w) ==
  /\ Up(w) /\ crashes < MaxCrashes
  /\ crashes' = crashes + 1
  /\ pc' = [pc EXCEPT ![w] = "down"]
  /\ hand' = [hand EXCEPT ![w] = NoJob]
  /\ rest' = [rest EXCEPT ![w] = {}]
  /\ wasListed' = [wasListed EXCEPT ![w] = FALSE]
  /\ UNCHANGED <<kind, configured, boss, served, world, list>>

\* handleDeadLetteredJob: log and Sentry, then the copy is complete.
HandleDeadLettered(w, j) ==
  /\ pc[w] = "idle" /\ j \in deadLetters \ alerted
  /\ alerted' = alerted \cup {j}
  /\ UNCHANGED <<kind, configured, wiring, state, early, left, deadLetters,
                 run, world, list>>

\* The Resend webhook lists the recipient of j.
Suppress(j) ==
  /\ kind[j] = "mail" /\ j \notin listed
  /\ listed' = listed \cup {j}
  /\ UNCHANGED <<kind, configured, boss, run, world, excused,
                 mailedListed, spared>>

-----------------------------------------------------------------------------
HandlerStep(w) ==
  \/ Lookup(w) \/ LookupFails(w) \/ SendMail(w) \/ InsertRow(w) \/ Publish(w)
  \/ RemoveFiles(w) \/ CancelOne(w) \/ Throw(w) \/ Complete(w) \/ Fail(w)

WorkerStep(w) ==
  \/ Boot(w) \/ HandlerStep(w)
  \/ \E j \in Job : Fetch(w, j) \/ HandleDeadLettered(w, j)

Next ==
  \/ ClientCreatesQueues
  \/ \E j \in Job : Enqueue(j) \/ EnqueueFails(j) \/ Expire(j) \/ Suppress(j)
  \/ \E w \in Worker : WorkerStep(w) \/ Crash(w)

Spec == Init /\ [][Next]_vars

\* Workers are restarted and poll, maintenance runs.
FairSpec ==
  /\ Spec
  /\ \A j \in Job : WF_vars(Expire(j))
  /\ \A w \in Worker : WF_vars(WorkerStep(w))

-----------------------------------------------------------------------------
Count == 0 .. (RetryLimit + 1)

\* Types of all variables (packages/jobs/src).
TypeOK ==
  /\ kind \in [Job -> Kind] /\ configured \in BOOLEAN
  /\ wiring \in {"absent", "plain", "wired"}
  /\ state \in [Job -> {"unasked", "dropped", "created", "retry", "active",
                        "completed", "failed"}]
  /\ left \in [Job -> 0 .. RetryLimit]
  /\ alerted \subseteq deadLetters /\ deadLetters \cup early \subseteq Job
  /\ pc \in [Worker -> {"down", "idle", "lookup", "send", "insert", "publish",
                        "remove", "cancel", "good", "bad"}]
  /\ hand \in [Worker -> Job \cup {NoJob}]
  /\ rest \in [Worker -> SUBSET Sub] /\ wasListed \in [Worker -> BOOLEAN]
  /\ spared \cup excused \cup mailedListed \subseteq Job
  /\ listed \cup removed \subseteq Job
  /\ mailed \in [Job -> Count] /\ rows \in [Job -> Count] /\ pushed \in [Job -> Count]
  /\ cancelled \in [Job -> SUBSET Sub]
  /\ served \in BOOLEAN /\ crashes \in 0 .. MaxCrashes

\* A job that exhausts its retries is in the dead-letter queue, whichever of
\* the web app and the worker created the queues first (worker.ts: the update
\* after the create), unless it was sent before any worker had run.
FailureIsKept == \A j \in Job : state[j] = "failed" => j \in deadLetters \cup early

\* A completed job did its work, whatever crashed, expired or was repeated on
\* the way, unless the handler chose not to: the service is not configured, or
\* the recipient is suppressed (the "return = complete" rule of the handlers).
DoneMeansDone ==
  \A j \in Job : state[j] = "completed" /\ (configured \/ kind[j] = "notify") =>
    CASE kind[j] = "mail"    -> mailed[j] > 0 \/ j \in spared
      [] kind[j] = "notify"  -> rows[j] > 0 /\ pushed[j] > 0
      [] kind[j] = "uploads" -> j \in removed
      [] kind[j] = "stripe"  -> cancelled[j] = Sub

\* No mail goes to an address that was on the suppression list when the
\* attempt began, retries included, unless its lookup failed (send fails open).
SuppressedIsSpared == mailedListed \subseteq excused

\* A queued job is in the end completed or reported to an operator, through
\* crashes, expiries and handlers that always throw (sent before any worker had
\* run, it may also end failed).
QueuedIsSettled ==
  \A j \in Job : Live(j) ~> (state[j] = "completed" \/ j \in alerted
                             \/ (state[j] = "failed" /\ j \in early))

\* The queue implements its promise.
Fate == [j \in Job |->
  CASE state[j] \in {"unasked", "dropped"} -> "unasked"
    [] state[j] = "completed" -> "done"
    [] state[j] = "failed" -> IF j \in deadLetters THEN "reported" ELSE "lost"
    [] OTHER -> "queued"]
Promise == INSTANCE JobPromise WITH fate <- Fate
KeepsPromise == Promise!Spec
-----------------------------------------------------------------------------
(* What holds of every number of jobs, workers, retries and crashes.  How     *)
(* often an effect is repeated is left to the runs; what is proved is that a  *)
(* completed job did its work, that a failed one is kept, and that the queue  *)
(* keeps JobPromise.                                                          *)

Grades ==
  /\ kind \in [Job -> Kind] /\ configured \in BOOLEAN
  /\ wiring \in {"absent", "plain", "wired"}
  /\ state \in [Job -> {"unasked", "dropped", "created", "retry", "active",
                        "completed", "failed"}]
  /\ hand \in [Worker -> Job \cup {NoJob}] /\ rest \in [Worker -> SUBSET Sub]
  /\ pc \in [Worker -> {"down", "idle", "lookup", "send", "insert", "publish",
                        "remove", "cancel", "good", "bad"}]
  /\ mailed \in [Job -> Nat] /\ rows \in [Job -> Nat] /\ pushed \in [Job -> Nat]
  /\ cancelled \in [Job -> SUBSET Sub]

\* What a completed job of each queue has done.
Worked(j) ==
  configured \/ kind[j] = "notify" =>
    CASE kind[j] = "mail"    -> mailed[j] > 0 \/ j \in spared
      [] kind[j] = "notify"  -> rows[j] > 0 /\ pushed[j] > 0
      [] kind[j] = "uploads" -> j \in removed
      [] kind[j] = "stripe"  -> cancelled[j] = Sub

\* A handler is in the steps of its own queue, and what it has passed is done.
Handling(w) ==
  /\ pc[w] \notin {"down", "idle"} => hand[w] \in Job
  /\ pc[w] \in {"lookup", "send"} => kind[hand[w]] = "mail"
  /\ pc[w] \in {"insert", "publish"} => kind[hand[w]] = "notify"
  /\ pc[w] = "publish" => rows[hand[w]] > 0
  /\ pc[w] = "remove" => kind[hand[w]] = "uploads"
  /\ pc[w] = "cancel" => kind[hand[w]] = "stripe" /\ Sub \ rest[w] \subseteq cancelled[hand[w]]
  /\ pc[w] = "good" => Worked(hand[w])

\* A job is sent after a worker has wired the dead letters, or is an early one.
Wired ==
  /\ served => wiring = "wired"
  /\ \A j \in Job : state[j] \notin {"unasked", "dropped"} => served \/ j \in early

QueueInv ==
  /\ Grades /\ \A w \in Worker : Handling(w)
  /\ DoneMeansDone /\ Wired /\ FailureIsKept

\* Effects on the outside world are never taken back.
Grows ==
  /\ kind' = kind /\ configured' = configured
  /\ \A j \in Job : /\ mailed'[j] >= mailed[j] /\ rows'[j] >= rows[j]
                    /\ pushed'[j] >= pushed[j] /\ cancelled[j] \subseteq cancelled'[j]
  /\ removed \subseteq removed' /\ spared \subseteq spared'

LEMMA WorkedKept ==
  ASSUME Grades, Grades', Grows, NEW j \in Job, Worked(j)
  PROVE  Worked(j)'
<1>1. /\ kind'[j] = kind[j] /\ configured' = configured
      /\ mailed[j] > 0 => mailed'[j] > 0
      /\ rows[j] > 0 => rows'[j] > 0
      /\ pushed[j] > 0 => pushed'[j] > 0
      /\ cancelled[j] = Sub => cancelled'[j] = Sub
  <2>1. /\ mailed[j] \in Nat /\ rows[j] \in Nat /\ pushed[j] \in Nat
        /\ mailed'[j] \in Nat /\ rows'[j] \in Nat /\ pushed'[j] \in Nat
        /\ cancelled'[j] \subseteq Sub
    BY DEF Grades
  <2>2. /\ mailed'[j] >= mailed[j] /\ rows'[j] >= rows[j] /\ pushed'[j] >= pushed[j]
        /\ cancelled[j] \subseteq cancelled'[j] /\ kind' = kind /\ configured' = configured
    BY DEF Grows
  <2>3. /\ mailed[j] > 0 => mailed'[j] > 0
        /\ rows[j] > 0 => rows'[j] > 0
        /\ pushed[j] > 0 => pushed'[j] > 0
    BY <2>1, <2>2, SMT
  <2>4. cancelled[j] = Sub => cancelled'[j] = Sub
    BY <2>1, <2>2
  <2>5. kind'[j] = kind[j] /\ configured' = configured
    BY <2>2
  <2> QED BY <2>3, <2>4, <2>5
<1>2. kind[j] \in Kind
  BY DEF Grades
<1>3. CASE kind[j] = "mail"
  BY <1>1, <1>3 DEF Worked, Grows
<1>4. CASE kind[j] = "notify"
  BY <1>1, <1>4 DEF Worked
<1>5. CASE kind[j] = "uploads"
  BY <1>1, <1>5 DEF Worked, Grows
<1>6. CASE kind[j] = "stripe"
  BY <1>1, <1>6 DEF Worked
<1> QED BY <1>2, <1>3, <1>4, <1>5, <1>6 DEF Kind

LEMMA NothingGrows ==
  ASSUME Grades, UNCHANGED <<kind, configured, world>>, spared \subseteq spared'
  PROVE  Grows
BY DEF Grades, Grows, world

LEMMA HandlingKept ==
  ASSUME Grades, Grades', Grows, NEW w \in Worker, Handling(w),
         pc'[w] = pc[w], hand'[w] = hand[w], rest'[w] = rest[w]
  PROVE  Handling(w)'
<1>1. ASSUME pc[w] \notin {"down", "idle"} PROVE Handling(w)'
  <2>1. PICK j \in Job : hand[w] = j /\ hand'[w] = j
    BY <1>1 DEF Handling
  <2>2. pc[w] = "good" => Worked(j)'
    BY <2>1, WorkedKept DEF Handling
  <2>3. rows[j] > 0 => rows'[j] > 0
    BY DEF Grows, Grades
  <2> QED BY <2>1, <2>2, <2>3 DEF Handling, Grows, Worked
<1> QED BY <1>1 DEF Handling

\* One step of the worker w, whose place in its handler is the only one to move.
LEMMA WorkerKeeps ==
  ASSUME QueueInv, Grades', Grows, NEW w \in Worker, Handling(w)',
         \A v \in Worker : v # w => /\ pc'[v] = pc[v] /\ hand'[v] = hand[v]
                                    /\ rest'[v] = rest[v],
         \A j \in Job : state'[j] = "completed" =>
           state[j] = "completed" \/ Worked(j)
  PROVE  (\A v \in Worker : Handling(v))' /\ DoneMeansDone'
<1>1. \A v \in Worker : v # w => Handling(v)'
  BY HandlingKept DEF QueueInv
<1>2. ASSUME NEW j \in Job, state'[j] = "completed" PROVE Worked(j)'
  <2>1. Worked(j)
    BY <1>2 DEF QueueInv, DoneMeansDone, Worked
  <2> QED BY <2>1, WorkedKept DEF QueueInv
<1> QED BY <1>1, <1>2 DEF DoneMeansDone, Worked

\* Steps that start or end no handler, and complete no job.
LEMMA OthersKeep ==
  ASSUME QueueInv, Grades', Grows, pc' = pc, hand' = hand, rest' = rest,
         \A j \in Job : state'[j] = "completed" => state[j] = "completed"
  PROVE  (\A v \in Worker : Handling(v))' /\ DoneMeansDone'
<1>1. \A v \in Worker : Handling(v)'
  BY HandlingKept DEF QueueInv
<1>2. ASSUME NEW j \in Job, state'[j] = "completed" PROVE Worked(j)'
  BY <1>2, WorkedKept DEF QueueInv, DoneMeansDone, Worked
<1> QED BY <1>1, <1>2 DEF DoneMeansDone, Worked

\* Dead letters stay, and a job that is given up for good is among them or early.
LEMMA GiveUpKeeps ==
  ASSUME QueueInv, NEW j \in Job, state[j] = "active", GiveUp(j),
         UNCHANGED <<wiring, early, served>>
  PROVE  /\ Wired' /\ FailureIsKept'
         /\ state' \in [Job -> {"unasked", "dropped", "created", "retry", "active",
                                "completed", "failed"}]
         /\ \A i \in Job : state'[i] = "completed" => state[i] = "completed"
<1> USE DEF QueueInv, Grades, Wired, FailureIsKept
<1>1. CASE left[j] > 0
  BY <1>1 DEF GiveUp
<1>2. CASE ~(left[j] > 0)
  <2>1. /\ state' = [state EXCEPT ![j] = "failed"]
        /\ deadLetters \subseteq deadLetters'
        /\ wiring = "wired" /\ j \notin early => j \in deadLetters'
    BY <1>2 DEF GiveUp
  <2>2. wiring = "wired" \/ j \in early
    OBVIOUS
  <2> QED BY <2>1, <2>2
<1> QED BY <1>1, <1>2

LEMMA QueueStep == QueueInv /\ [Next]_vars => QueueInv'
<1> SUFFICES ASSUME QueueInv, [Next]_vars PROVE QueueInv'
  OBVIOUS
<1>0. Grades /\ Wired /\ FailureIsKept
  BY DEF QueueInv
<1>q. ASSUME UNCHANGED <<wiring, state, early, deadLetters, served>>
      PROVE  Wired' /\ FailureIsKept'
  BY <1>0, <1>q DEF Wired, FailureIsKept
<1>1. CASE ClientCreatesQueues
  <2>1. Grades' /\ Grows
    BY <1>0, <1>1 DEF ClientCreatesQueues, Grades, Grows, run, world, list
  <2>2. Wired' /\ FailureIsKept'
    BY <1>0, <1>1 DEF ClientCreatesQueues, Wired, FailureIsKept, run
  <2> QED BY <1>1, <2>1, <2>2, OthersKeep DEF ClientCreatesQueues, run, QueueInv
<1>2. ASSUME NEW j \in Job, Enqueue(j) \/ EnqueueFails(j) PROVE QueueInv'
  <2>1. Grades' /\ Grows
    BY <1>0, <1>2 DEF Enqueue, EnqueueFails, Grades, Grows, run, world, list
  <2>2. Wired' /\ FailureIsKept'
    BY <1>0, <1>2 DEF Enqueue, EnqueueFails, Grades, Wired, FailureIsKept, run
  <2>3. \A i \in Job : state'[i] = "completed" => state[i] = "completed"
    BY <1>0, <1>2 DEF Enqueue, EnqueueFails, Grades
  <2> QED BY <1>2, <2>1, <2>2, <2>3, OthersKeep DEF Enqueue, EnqueueFails, run, QueueInv
<1>3. ASSUME NEW j \in Job, Expire(j) PROVE QueueInv'
  <2>1. /\ Wired' /\ FailureIsKept'
        /\ state' \in [Job -> {"unasked", "dropped", "created", "retry", "active",
                               "completed", "failed"}]
        /\ \A i \in Job : state'[i] = "completed" => state[i] = "completed"
    BY <1>3, GiveUpKeeps DEF Expire, run
  <2>2. Grades' /\ Grows
    BY <1>0, <1>3, <2>1 DEF Expire, Grades, Grows, run, world, list
  <2> QED BY <1>3, <2>1, <2>2, OthersKeep DEF Expire, run, QueueInv
<1>4. ASSUME NEW j \in Job, Suppress(j) PROVE QueueInv'
  <2>1. Grades' /\ Grows
    BY <1>0, <1>4 DEF Suppress, Grades, Grows, boss, run, world
  <2> QED BY <1>4, <1>q, <2>1, OthersKeep DEF Suppress, boss, run, QueueInv
<1>5. ASSUME NEW w \in Worker, NEW j \in Job, HandleDeadLettered(w, j) PROVE QueueInv'
  <2>1. Grades' /\ Grows
    BY <1>0, <1>5 DEF HandleDeadLettered, Grades, Grows, run, world, list
  <2> QED BY <1>5, <1>q, <2>1, OthersKeep DEF HandleDeadLettered, run, QueueInv
<1>6. ASSUME NEW w \in Worker, Boot(w) PROVE QueueInv'
  <2>1. Grades' /\ Grows
    BY <1>0, <1>6 DEF Boot, Grades, Grows, world, list
  <2>2. Wired' /\ FailureIsKept'
    BY <1>0, <1>6 DEF Boot, Wired, FailureIsKept
  <2>3. Handling(w)'
    BY <1>0, <1>6 DEF Boot, Handling, Grades
  <2> QED BY <1>0, <1>6, <2>1, <2>2, <2>3, WorkerKeeps DEF Boot, QueueInv, Grades
<1>7. ASSUME NEW w \in Worker, NEW j \in Job, Fetch(w, j) PROVE QueueInv'
  <2>1. Grades' /\ Grows
    BY <1>0, <1>7 DEF Fetch, FirstStep, Kind, Grades, Grows, world, list
  <2>2. Wired' /\ FailureIsKept'
    BY <1>0, <1>7 DEF Fetch, Grades, Wired, FailureIsKept
  <2>3. Handling(w)'
    BY <1>0, <1>7 DEF Fetch, FirstStep, Kind, Handling, Worked, Grades, world
  <2>4. \A i \in Job : state'[i] = "completed" => state[i] = "completed"
    BY <1>0, <1>7 DEF Fetch, Grades
  <2> QED BY <1>0, <1>7, <2>1, <2>2, <2>3, <2>4, WorkerKeeps DEF Fetch, QueueInv, Grades
<1>8. ASSUME NEW w \in Worker,
             \/ Lookup(w) \/ LookupFails(w) \/ SendMail(w) \/ InsertRow(w) \/ Publish(w)
             \/ RemoveFiles(w) \/ Throw(w)
      PROVE  QueueInv'
  <2>1. PICK j \in Job : hand[w] = j /\ Handling(w)
    BY <1>8
    DEF QueueInv, Handling, Lookup, LookupFails, SendMail, InsertRow, Publish, RemoveFiles, Throw
  <2>2. PICK at \in {"send", "publish", "good", "bad"} : Goto(w, at)
    BY <1>8
    DEF Lookup, LookupFails, SendMail, InsertRow, Publish, RemoveFiles, Throw
  <2>3. Grades' /\ Grows
    <3> USE DEF Grades, Grows, Goto, boss
    <3>1. CASE Lookup(w) \/ LookupFails(w) \/ Throw(w)
      BY <1>0, <2>2, <3>1 DEF Lookup, LookupFails, Throw, world, list
    <3>2. CASE SendMail(w)
      BY <1>0, <2>1, <2>2, <3>2 DEF SendMail
    <3>3. CASE InsertRow(w)
      BY <1>0, <2>1, <2>2, <3>3 DEF InsertRow, list
    <3>4. CASE Publish(w)
      BY <1>0, <2>1, <2>2, <3>4 DEF Publish, list
    <3>5. CASE RemoveFiles(w)
      BY <1>0, <2>1, <2>2, <3>5 DEF RemoveFiles, list
    <3> QED BY <1>8, <3>1, <3>2, <3>3, <3>4, <3>5
  <2>4. Handling(w)'
    <3>0. /\ hand'[w] = j /\ kind' = kind /\ configured' = configured /\ j \in Job
          /\ \A to \in {"send", "publish", "good", "bad"} :
                Goto(w, to) => pc'[w] = to
      BY <1>0, <2>1, <2>2 DEF Goto, Grades
    <3> USE DEF Handling
    <3>1. CASE pc'[w] = "bad"
      BY <3>0, <3>1
    <3>2. CASE Lookup(w)
      BY <2>1, <3>0, <3>2 DEF Lookup, Worked
    <3>3. CASE LookupFails(w)
      BY <2>1, <3>0, <3>3 DEF LookupFails
    <3>4. CASE SendMail(w) /\ pc'[w] = "good"
      <4>1. mailed'[j] > 0
        BY <1>0, <2>1, <3>4 DEF SendMail, Grades
      <4> QED BY <2>1, <3>0, <3>4, <4>1 DEF SendMail, Worked
    <3>5. CASE InsertRow(w)
      <4>1. rows'[j] > 0
        BY <1>0, <2>1, <3>5 DEF InsertRow, Grades
      <4> QED BY <2>1, <3>0, <3>5, <4>1 DEF InsertRow
    <3>6. CASE Publish(w)
      <4>1. rows'[j] > 0 /\ pushed'[j] > 0
        BY <1>0, <2>1, <3>6 DEF Publish, Grades
      <4> QED BY <2>1, <3>0, <3>6, <4>1 DEF Publish, Worked
    <3>7. CASE RemoveFiles(w) /\ pc'[w] = "good"
      BY <2>1, <3>0, <3>7 DEF RemoveFiles, Worked
    <3> QED BY <1>8, <3>0, <3>1, <3>2, <3>3, <3>4, <3>5, <3>6, <3>7
            DEF SendMail, RemoveFiles, Throw
  <2> QED BY <1>0, <1>q, <2>2, <2>3, <2>4, WorkerKeeps DEF Goto, boss, QueueInv, Grades
<1>9. ASSUME NEW w \in Worker, CancelOne(w) PROVE QueueInv'
  <2>1. PICK j \in Job : hand[w] = j /\ Handling(w)
    BY <1>9 DEF QueueInv, Handling, CancelOne
  <2>2. Grades' /\ Grows
    BY <1>0, <1>9, <2>1 DEF CancelOne, Grades, Grows, boss, list
  <2>3. Handling(w)'
    BY <1>0, <1>9, <2>1 DEF CancelOne, Grades, Handling, Worked, boss
  <2> QED BY <1>0, <1>9, <1>q, <2>2, <2>3, WorkerKeeps DEF CancelOne, boss, QueueInv, Grades
<1>10. ASSUME NEW w \in Worker, Complete(w) PROVE QueueInv'
  <2>1. PICK j \in Job : hand[w] = j /\ Worked(j)
    BY <1>10 DEF QueueInv, Handling, Complete
  <2>2. Grades' /\ Grows
    BY <1>0, <1>10, <2>1 DEF Complete, Freed, Grades, Grows, world, list
  <2>3. Handling(w)'
    BY <1>0, <1>10 DEF Complete, Freed, Grades, Handling
  <2>4. Wired' /\ FailureIsKept'
    BY <1>0, <1>10, <2>1 DEF Complete, Freed, Grades, Wired, FailureIsKept
  <2>5. \A i \in Job : state'[i] = "completed" => state[i] = "completed" \/ Worked(i)
    BY <1>0, <1>10, <2>1 DEF Complete, Grades
  <2> QED BY <1>0, <1>10, <2>2, <2>3, <2>4, <2>5, WorkerKeeps
          DEF Complete, Freed, QueueInv, Grades
<1>11. ASSUME NEW w \in Worker, Fail(w) PROVE QueueInv'
  <2>1. PICK j \in Job : hand[w] = j
    BY <1>11 DEF QueueInv, Handling, Fail
  <2>2. /\ Wired' /\ FailureIsKept'
        /\ state' \in [Job -> {"unasked", "dropped", "created", "retry", "active",
                               "completed", "failed"}]
        /\ \A i \in Job : state'[i] = "completed" => state[i] = "completed"
    <3>1. CASE state[j] = "active"
      BY <1>11, <2>1, <3>1, GiveUpKeeps DEF Fail, Freed
    <3>2. CASE state[j] # "active"
      BY <1>0, <1>11, <1>q, <2>1, <3>2 DEF Fail, Freed, Grades
    <3> QED BY <3>1, <3>2
  <2>3. Grades' /\ Grows
    BY <1>0, <1>11, <2>2 DEF Fail, Freed, Grades, Grows, world, list
  <2>4. Handling(w)'
    BY <1>0, <1>11 DEF Fail, Freed, Grades, Handling
  <2> QED BY <1>0, <1>11, <2>2, <2>3, <2>4, WorkerKeeps DEF Fail, Freed, QueueInv, Grades
<1>12. ASSUME NEW w \in Worker, Crash(w) PROVE QueueInv'
  <2>1. Grades' /\ Grows
    <3>1. Grows
      BY <1>0, <1>12, NothingGrows DEF Crash, list
    <3>2. UNCHANGED <<kind, configured, wiring, state, mailed, rows, pushed, cancelled>>
      BY <1>12 DEF Crash, boss, world
    <3>3. hand' = [hand EXCEPT ![w] = NoJob] /\ rest' = [rest EXCEPT ![w] = {}]
          /\ pc' = [pc EXCEPT ![w] = "down"]
      BY <1>12 DEF Crash
    <3> QED BY <1>0, <3>1, <3>2, <3>3 DEF Grades
  <2>2. Handling(w)'
    BY <1>0, <1>12 DEF Crash, Grades, Handling
  <2>3. \A i \in Job : state'[i] = state[i]
    BY <1>12 DEF Crash, boss
  <2> QED BY <1>0, <1>12, <1>q, <2>1, <2>2, <2>3, WorkerKeeps DEF Crash, boss, QueueInv, Grades
<1>13. CASE UNCHANGED vars
  <2>1. Grades' /\ Grows
    BY <1>0, <1>13 DEF vars, Grades, Grows, boss, run, world, list
  <2> QED BY <1>13, <1>q, <2>1, OthersKeep DEF vars, boss, run, QueueInv
<1> QED
  BY <1>1, <1>2, <1>3, <1>4, <1>5, <1>6, <1>7, <1>8, <1>9, <1>10, <1>11, <1>12, <1>13
  DEF Next, WorkerStep, HandlerStep

LEMMA QueueInvHolds == Spec => []QueueInv
<1>1. Init => QueueInv
  BY DEF Init, QueueInv, Grades, Handling, DoneMeansDone, Wired, FailureIsKept
<1> QED BY <1>1, QueueStep, PTL DEF Spec

\* However attempts expire, overlap, crash and repeat, a completed job did its work
\* and a failed one is in the dead-letter queue or was sent too early for it.
THEOREM CompletedOrKept == Spec => [](DoneMeansDone /\ FailureIsKept)
<1>1. QueueInv => DoneMeansDone /\ FailureIsKept
  BY DEF QueueInv
<1> QED BY <1>1, QueueInvHolds, PTL

\* What the queue makes of a job follows from its state and the dead letters.
LEMMA FateMoves ==
  ASSUME NEW j \in Job,
         \A i \in Job : i # j => /\ state'[i] = state[i]
                                 /\ i \in deadLetters' <=> i \in deadLetters,
         \/ Fate'[j] = Fate[j]
         \/ Fate[j] = "unasked" /\ Fate'[j] = "queued"
         \/ Fate[j] = "queued" /\ Fate'[j] \in {"done", "reported", "lost"}
  PROVE  [Promise!Next]_Fate
<1>1. \A i \in Job : i # j => Fate'[i] = Fate[i]
  BY DEF Fate
<1>2. CASE Fate'[j] = Fate[j]
  <2>1. Fate' = Fate
    BY <1>1, <1>2 DEF Fate
  <2> QED BY <2>1
<1>3. CASE Fate'[j] # Fate[j]
  <2>1. <<Fate[j], Fate'[j]>> \in Promise!Moves
    BY <1>3 DEF Promise!Moves
  <2>2. Fate' = [Fate EXCEPT ![j] = Fate'[j]]
    BY <1>1, ZenonT(60) DEF Fate
  <2>3. PICK move \in Promise!Moves : move[1] = Fate[j] /\ move[2] = Fate'[j]
    BY <2>1 DEF Promise!Moves
  <2>4. Promise!Decide(j, move[1], move[2])
    BY <2>1, <2>2, <2>3 DEF Promise!Decide
  <2> QED BY <2>3, <2>4 DEF Promise!Next
<1> QED BY <1>2, <1>3

LEMMA FateStays ==
  ASSUME UNCHANGED <<state, deadLetters>> PROVE [Promise!Next]_Fate
BY DEF Fate

LEMMA FateGivenUp ==
  ASSUME Grades, NEW j \in Job, state[j] = "active", GiveUp(j)
  PROVE  [Promise!Next]_Fate
<1>1. \A i \in Job : i # j => /\ state'[i] = state[i]
                              /\ i \in deadLetters' <=> i \in deadLetters
  BY DEF GiveUp, Grades
<1>2. state'[j] \in {"retry", "failed"}
  BY DEF GiveUp, Grades
<1>3. Fate[j] = "queued" /\ Fate'[j] \in {"queued", "reported", "lost"}
  BY <1>2 DEF Fate
<1> QED BY <1>1, <1>3, FateMoves

LEMMA PromiseStep == QueueInv /\ [Next]_vars => [Promise!Next]_Fate
<1> SUFFICES ASSUME QueueInv, [Next]_vars PROVE [Promise!Next]_Fate
  OBVIOUS
<1>0. Grades
  BY DEF QueueInv
<1>1. ASSUME NEW j \in Job, Enqueue(j) \/ EnqueueFails(j) PROVE [Promise!Next]_Fate
  <2>1. /\ state[j] = "unasked" /\ state'[j] \in {"created", "dropped"}
        /\ \A i \in Job : i # j => state'[i] = state[i]
        /\ deadLetters' = deadLetters
    BY <1>0, <1>1 DEF Enqueue, EnqueueFails, Grades
  <2>2. Fate[j] = "unasked" /\ Fate'[j] \in {"unasked", "queued"}
    BY <2>1 DEF Fate
  <2> QED BY <2>1, <2>2, FateMoves
<1>2. ASSUME NEW j \in Job, Expire(j) PROVE [Promise!Next]_Fate
  BY <1>0, <1>2, FateGivenUp DEF Expire
<1>3. ASSUME NEW w \in Worker, NEW j \in Job, Fetch(w, j) PROVE [Promise!Next]_Fate
  <2>1. /\ state[j] \in {"created", "retry"} /\ state'[j] = "active"
        /\ \A i \in Job : i # j => state'[i] = state[i]
        /\ deadLetters' = deadLetters
    BY <1>0, <1>3 DEF Fetch, Grades
  <2>2. Fate'[j] = Fate[j]
    BY <2>1 DEF Fate
  <2> QED BY <2>1, <2>2, FateMoves
<1>4. ASSUME NEW w \in Worker, Complete(w) PROVE [Promise!Next]_Fate
  <2>1. PICK j \in Job : hand[w] = j
    BY <1>4 DEF QueueInv, Handling, Complete
  <2>2. /\ state'[j] = IF state[j] = "active" THEN "completed" ELSE state[j]
        /\ \A i \in Job : i # j => state'[i] = state[i]
        /\ deadLetters' = deadLetters
    BY <1>0, <1>4, <2>1 DEF Complete, Grades
  <2>3. Fate'[j] = Fate[j] \/ (Fate[j] = "queued" /\ Fate'[j] = "done")
    BY <2>2 DEF Fate
  <2> QED BY <2>2, <2>3, FateMoves
<1>5. ASSUME NEW w \in Worker, Fail(w) PROVE [Promise!Next]_Fate
  <2>1. PICK j \in Job : hand[w] = j
    BY <1>5 DEF QueueInv, Handling, Fail
  <2> QED BY <1>0, <1>5, <2>1, FateGivenUp, FateStays DEF Fail
<1>6. CASE UNCHANGED <<state, deadLetters>>
  BY <1>6, FateStays
<1> QED
  BY <1>1, <1>2, <1>3, <1>4, <1>5, <1>6
  DEF Next, WorkerStep, HandlerStep, ClientCreatesQueues, Suppress, Boot,
      HandleDeadLettered, Lookup, LookupFails, SendMail, InsertRow, Publish,
      RemoveFiles, CancelOne, Throw, Goto, Crash, boss, vars

\* The queue keeps JobPromise for all jobs, workers, retries and crashes: a job it
\* accepted is done, reported or lost once, and none of it is ever taken back.
THEOREM PromiseKept == Spec => KeepsPromise
<1>1. Init => Promise!Init
  BY DEF Init, Promise!Init, Fate
<1> QED BY <1>1, QueueInvHolds, PromiseStep, PTL DEF Spec, KeepsPromise, Promise!Spec
-----------------------------------------------------------------------------
(* How often an effect is repeated.  A job is attempted at most once more  *)
(* than it is retried, and an attempt makes each effect at most once: the  *)
(* attempts that have not made theirs yet are counted with the effects     *)
(* made, since several may be alive at once after an expiry.               *)

Effects == {"mail", "row", "push"}
Made(e, j) == CASE e = "mail" -> mailed[j] [] e = "row" -> rows[j] [] e = "push" -> pushed[j]

\* Where a handler still owes the effect, and the workers that do.
Owing(e) == CASE e = "mail" -> {"lookup", "send"}
              [] e = "row"  -> {"insert"}
              [] e = "push" -> {"insert", "publish"}
Owed(e, j) == {w \in Worker : hand[w] = j /\ pc[w] \in Owing(e)}

\* The attempts that were begun.
Tries(j) ==
  (RetryLimit - left[j]) + (IF state[j] \in {"active", "completed", "failed"} THEN 1 ELSE 0)

Counted == \A j \in Job, e \in Effects : Made(e, j) + Cardinality(Owed(e, j)) <= Tries(j)

Places ==
  /\ left \in [Job -> 0 .. RetryLimit]
  /\ alerted \subseteq deadLetters /\ deadLetters \cup early \subseteq Job
  /\ wasListed \in [Worker -> BOOLEAN]
  /\ spared \cup excused \cup mailedListed \subseteq Job
  /\ listed \cup removed \subseteq Job
  /\ served \in BOOLEAN /\ crashes \in 0 .. MaxCrashes

\* Whoever was listed when an attempt began is listed still, and is mailed only
\* after a lookup that failed.
ListKept ==
  \A w \in Worker : wasListed[w] =>
    /\ pc[w] \notin {"down", "idle"} => hand[w] \in listed
    /\ pc[w] = "send" => hand[w] \in excused

Bounds == RetryLimit \in Nat /\ MaxCrashes \in Nat /\ IsFiniteSet(Worker)

LEMMA OwedIsFinite ==
  ASSUME IsFiniteSet(Worker), NEW j, NEW e
  PROVE  IsFiniteSet(Owed(e, j)) /\ Cardinality(Owed(e, j)) \in Nat
<1>1. Owed(e, j) \in SUBSET Worker
  BY DEF Owed
<1> QED BY <1>1, FS_Subset, FS_CardinalityType

LEMMA OwedIsFiniteNext ==
  ASSUME IsFiniteSet(Worker), NEW j, NEW e
  PROVE  IsFiniteSet(Owed(e, j)') /\ Cardinality(Owed(e, j)') \in Nat
<1>1. Owed(e, j)' \in SUBSET Worker
  BY DEF Owed
<1> QED BY <1>1, FS_Subset, FS_CardinalityType

\* An effect is made by a worker that owed it, a debt begins with an attempt, and
\* otherwise debts are only forgotten.
LEMMA OneEffect ==
  ASSUME Bounds, NEW j \in Job, NEW e \in Effects, NEW w \in Worker,
         Grades, Grades', Places, Places',
         Made(e, j) + Cardinality(Owed(e, j)) <= Tries(j),
         \/ /\ Made(e, j)' = Made(e, j) /\ Tries(j)' >= Tries(j)
            /\ Owed(e, j)' \subseteq Owed(e, j)
         \/ /\ Made(e, j)' = Made(e, j) + 1 /\ Tries(j)' >= Tries(j)
            /\ w \in Owed(e, j) /\ Owed(e, j)' \subseteq Owed(e, j) \ {w}
         \/ /\ Made(e, j)' = Made(e, j) /\ Tries(j)' >= Tries(j) + 1
            /\ Owed(e, j)' \subseteq Owed(e, j) \cup {w}
  PROVE  (Made(e, j) + Cardinality(Owed(e, j)) <= Tries(j))'
<1> DEFINE O == Owed(e, j)
           P == Owed(e, j)'
<1>1. /\ Made(e, j) \in Nat /\ Made(e, j)' \in Nat
      /\ Tries(j) \in Int /\ Tries(j)' \in Int
  BY DEF Grades, Places, Made, Tries, Effects, Bounds
<1>2. /\ IsFiniteSet(O) /\ Cardinality(O) \in Nat
      /\ IsFiniteSet(P) /\ Cardinality(P) \in Nat
  BY OwedIsFinite, OwedIsFiniteNext DEF Bounds
<1> HIDE DEF O, P
<1>3. CASE Made(e, j)' = Made(e, j) /\ Tries(j)' >= Tries(j) /\ P \subseteq O
  <2>1. Cardinality(P) <= Cardinality(O)
    BY <1>2, <1>3, FS_Subset
  <2>2. Made(e, j) + Cardinality(O) <= Tries(j)
    BY DEF O
  <2>3. Made(e, j)' + Cardinality(P) <= Tries(j)'
    BY <1>1, <1>2, <1>3, <2>1, <2>2
  <2> QED BY <2>3 DEF P
<1>4. CASE Made(e, j)' = Made(e, j) + 1 /\ Tries(j)' >= Tries(j) /\ w \in O /\ P \subseteq O \ {w}
  <2>1. IsFiniteSet(O \ {w}) /\ Cardinality(O \ {w}) = Cardinality(O) - 1
    BY <1>2, <1>4, FS_RemoveElement
  <2>2. Cardinality(P) <= Cardinality(O \ {w})
    BY <1>4, <2>1, FS_Subset
  <2>3. Made(e, j) + Cardinality(O) <= Tries(j)
    BY DEF O
  <2>4. Made(e, j)' + Cardinality(P) <= Tries(j)'
    BY <1>1, <1>2, <1>4, <2>1, <2>2, <2>3
  <2> QED BY <2>4 DEF P
<1>5. CASE Made(e, j)' = Made(e, j) /\ Tries(j)' >= Tries(j) + 1 /\ P \subseteq O \cup {w}
  <2>1. /\ IsFiniteSet(O \cup {w})
        /\ Cardinality(O \cup {w}) = Cardinality(O) \/ Cardinality(O \cup {w}) = Cardinality(O) + 1
    BY <1>2, FS_AddElement
  <2>2. Cardinality(P) <= Cardinality(O \cup {w})
    BY <1>5, <2>1, FS_Subset
  <2>3. Made(e, j) + Cardinality(O) <= Tries(j)
    BY DEF O
  <2>4. Made(e, j)' + Cardinality(P) <= Tries(j)'
    BY <1>1, <1>2, <1>5, <2>1, <2>2, <2>3
  <2> QED BY <2>4 DEF P
<1> QED BY <1>3, <1>4, <1>5 DEF O, P

\* A job's tries are not forgotten when pg-boss gives an attempt up.
LEMMA GiveUpCounts ==
  ASSUME Bounds, Grades, Places, NEW j \in Job, state[j] = "active", GiveUp(j), early' = early
  PROVE  /\ left' \in [Job -> 0 .. RetryLimit]
         /\ deadLetters \subseteq deadLetters' /\ deadLetters' \subseteq Job
         /\ \A i \in Job : Tries(i)' >= Tries(i)
<1> USE DEF Bounds, Grades, Places
<1>1. CASE left[j] > 0
  <2>1. /\ left' = [left EXCEPT ![j] = left[j] - 1] /\ state' = [state EXCEPT ![j] = "retry"]
        /\ deadLetters' = deadLetters
    BY <1>1 DEF GiveUp
  <2>2. left[j] - 1 \in 0 .. RetryLimit
    BY <1>1
  <2>3. left' \in [Job -> 0 .. RetryLimit]
    BY <2>1, <2>2
  <2>4. \A i \in Job : Tries(i)' >= Tries(i)
    BY <2>1, <2>3 DEF Tries
  <2> QED BY <2>1, <2>3, <2>4
<1>2. CASE ~(left[j] > 0)
  <2>1. /\ left' = left /\ state' = [state EXCEPT ![j] = "failed"]
        /\ deadLetters' \in {deadLetters, deadLetters \cup {j}}
    BY <1>2 DEF GiveUp
  <2>2. \A i \in Job : Tries(i)' >= Tries(i)
    BY <2>1 DEF Tries
  <2> QED BY <2>1, <2>2
<1> QED BY <1>1, <1>2

\* Steps that make no effect and begin no attempt.
LEMMA NothingMade ==
  ASSUME Bounds, Grades, Grades', Places, Places', Counted,
         UNCHANGED <<mailed, rows, pushed>>,
         \A i \in Job : Tries(i)' >= Tries(i),
         \A v \in Worker : \/ pc'[v] = pc[v] /\ hand'[v] = hand[v]
                           \/ pc'[v] \in {"down", "idle", "good", "bad"}
                           \/ pc[v] = "lookup" /\ pc'[v] = "send" /\ hand'[v] = hand[v]
  PROVE  Counted'
<1> SUFFICES ASSUME NEW j \in Job, NEW e \in Effects
             PROVE  (Made(e, j) + Cardinality(Owed(e, j)) <= Tries(j))'
  BY DEF Counted
<1>1. Made(e, j)' = Made(e, j)
  BY DEF Made, Effects
<1>2. Owed(e, j)' \subseteq Owed(e, j)
  BY DEF Owed, Owing, Effects
<1>3. Made(e, j) + Cardinality(Owed(e, j)) <= Tries(j)
  BY DEF Counted
<1>4. CASE Worker = {}
  <2>1. Owed(e, j)' = {} /\ Owed(e, j) = {}
    BY <1>4 DEF Owed
  <2>2. Tries(j) \in Int /\ Tries(j)' \in Int /\ Made(e, j) \in Nat
    BY DEF Grades, Places, Made, Tries, Effects, Bounds
  <2>3. Tries(j)' >= Tries(j)
    OBVIOUS
  <2> QED BY <1>1, <1>3, <2>1, <2>2, <2>3, FS_EmptySet
<1>5. CASE Worker # {}
  <2>1. PICK w \in Worker : TRUE
    BY <1>5
  <2> QED BY <1>1, <1>2, <1>3, <2>1, OneEffect
<1> QED BY <1>4, <1>5

TallyInv == QueueInv /\ Places /\ ListKept /\ SuppressedIsSpared /\ Counted

LEMMA TallyStep ==
  ASSUME Bounds, TallyInv, [Next]_vars
  PROVE  TallyInv'
<1>0. /\ QueueInv' /\ Grades /\ Grades' /\ Places /\ ListKept /\ SuppressedIsSpared /\ Counted
      /\ \A w \in Worker : Handling(w)
  <2>1. QueueInv'
    BY QueueStep DEF TallyInv
  <2> QED BY <2>1 DEF TallyInv, QueueInv
<1>t. ASSUME UNCHANGED <<state, left>> PROVE \A i \in Job : Tries(i)' = Tries(i)
  BY <1>t DEF Tries
<1>n. ASSUME UNCHANGED <<state, left>> PROVE \A i \in Job : Tries(i)' >= Tries(i)
  BY <1>0, <1>n, <1>t DEF Grades, Places, Tries, Bounds
<1> USE DEF ListKept, SuppressedIsSpared
<1>1. CASE ClientCreatesQueues
  <2>1. Places' /\ ListKept' /\ SuppressedIsSpared'
    BY <1>0, <1>1 DEF ClientCreatesQueues, Places, run, world, list
  <2> QED BY <1>0, <1>1, <1>n, <2>1, NothingMade DEF ClientCreatesQueues, run, world, TallyInv
<1>2. ASSUME NEW j \in Job, Enqueue(j) \/ EnqueueFails(j) PROVE TallyInv'
  <2>1. Places' /\ ListKept' /\ SuppressedIsSpared'
    BY <1>0, <1>2 DEF Enqueue, EnqueueFails, Places, run, world, list
  <2>2. \A i \in Job : Tries(i)' >= Tries(i)
    BY <1>0, <1>2 DEF Enqueue, EnqueueFails, Grades, Places, Tries, Bounds
  <2> QED BY <1>0, <1>2, <2>1, <2>2, NothingMade DEF Enqueue, EnqueueFails, run, world, TallyInv
<1>3. ASSUME NEW j \in Job, Expire(j) PROVE TallyInv'
  <2>1. /\ left' \in [Job -> 0 .. RetryLimit]
        /\ deadLetters \subseteq deadLetters' /\ deadLetters' \subseteq Job
        /\ \A i \in Job : Tries(i)' >= Tries(i)
    BY <1>0, <1>3, GiveUpCounts DEF Expire
  <2>2. Places' /\ ListKept' /\ SuppressedIsSpared'
    BY <1>0, <1>3, <2>1 DEF Expire, Places, run, world, list
  <2> QED BY <1>0, <1>3, <2>1, <2>2, NothingMade DEF Expire, run, world, TallyInv
<1>4. ASSUME NEW j \in Job, Suppress(j) PROVE TallyInv'
  <2>1. Places' /\ ListKept' /\ SuppressedIsSpared'
    BY <1>0, <1>4 DEF Suppress, Places, boss, run, world
  <2> QED BY <1>0, <1>4, <1>n, <2>1, NothingMade DEF Suppress, boss, run, world, TallyInv
<1>5. ASSUME NEW w \in Worker, NEW j \in Job, HandleDeadLettered(w, j) PROVE TallyInv'
  <2>1. Places' /\ ListKept' /\ SuppressedIsSpared'
    BY <1>0, <1>5 DEF HandleDeadLettered, Places, run, world, list
  <2> QED BY <1>0, <1>5, <1>n, <2>1, NothingMade DEF HandleDeadLettered, run, world, TallyInv
<1>6. ASSUME NEW w \in Worker, Boot(w) PROVE TallyInv'
  <2>1. Places' /\ ListKept' /\ SuppressedIsSpared'
    BY <1>0, <1>6 DEF Boot, Places, world, list, Grades
  <2> QED BY <1>0, <1>6, <1>n, <2>1, NothingMade DEF Boot, world, TallyInv, Grades
<1>7. ASSUME NEW w \in Worker, NEW j \in Job, Fetch(w, j) PROVE TallyInv'
  <2>1. Places' /\ ListKept' /\ SuppressedIsSpared'
    <3>1. /\ hand' = [hand EXCEPT ![w] = j] /\ pc' = [pc EXCEPT ![w] = FirstStep(j)]
          /\ wasListed' = [wasListed EXCEPT ![w] = (j \in listed)]
      BY <1>7 DEF Fetch
    <3>2. FirstStep(j) # "send"
      BY <1>0 DEF FirstStep, Grades, Kind
    <3>3. Places'
      BY <1>0, <1>7, <3>1 DEF Fetch, Places, world, list
    <3>4. ListKept'
      <4>1. \A v \in Worker : wasListed'[v] = IF v = w THEN j \in listed ELSE wasListed[v]
        BY <1>0, <3>1 DEF Places
      <4>2. \A v \in Worker : /\ hand'[v] = IF v = w THEN j ELSE hand[v]
                             /\ pc'[v] = IF v = w THEN FirstStep(j) ELSE pc[v]
        BY <1>0, <3>1 DEF Grades
      <4>3. listed' = listed /\ excused' = excused
        BY <1>7 DEF Fetch, list
      <4>4. ASSUME NEW v \in Worker, wasListed'[v]
            PROVE  /\ pc'[v] \notin {"down", "idle"} => hand'[v] \in listed'
                   /\ pc'[v] = "send" => hand'[v] \in excused'
        BY <1>0, <3>2, <4>1, <4>2, <4>3, <4>4
      <4> QED BY <4>4
    <3> QED BY <1>0, <1>7, <3>3, <3>4 DEF Fetch, list
  <2>2. ASSUME NEW i \in Job, NEW e \in Effects
        PROVE  (Made(e, i) + Cardinality(Owed(e, i)) <= Tries(i))'
    <3>1. Made(e, i)' = Made(e, i)
      BY <1>7 DEF Fetch, world, Made, Effects
    <3>2. IF i = j THEN Tries(i)' = Tries(i) + 1 ELSE Tries(i)' = Tries(i)
      BY <1>0, <1>7 DEF Fetch, Tries, Grades, Places, Bounds
    <3>3. Tries(i) \in Int
      BY <1>0 DEF Tries, Grades, Places, Bounds
    <3>4. Owed(e, i)' \subseteq IF i = j THEN Owed(e, i) \cup {w} ELSE Owed(e, i)
      BY <1>0, <1>7 DEF Fetch, Owed, Owing, Grades
    <3>5. Made(e, i) + Cardinality(Owed(e, i)) <= Tries(i)
      BY <1>0 DEF Counted
    <3>6. Tries(i)' >= Tries(i)
      BY <3>2, <3>3
    <3>7. \/ Tries(i)' >= Tries(i) /\ Owed(e, i)' \subseteq Owed(e, i)
          \/ Tries(i)' >= Tries(i) + 1 /\ Owed(e, i)' \subseteq Owed(e, i) \cup {w}
      BY <3>2, <3>3, <3>4, <3>6
    <3> QED BY <1>0, <2>1, <3>1, <3>5, <3>7, OneEffect
  <2> QED BY <1>0, <2>1, <2>2 DEF Counted, TallyInv
<1>8. ASSUME NEW w \in Worker, \/ Lookup(w) \/ LookupFails(w) \/ RemoveFiles(w) \/ Throw(w)
      PROVE  TallyInv'
  <2>1. hand[w] \in Job
    BY <1>0, <1>8 DEF Handling, Lookup, LookupFails, RemoveFiles, Throw
  <2>2. PICK at \in {"send", "good", "bad"} :
          /\ Goto(w, at)
          /\ at = "send" => pc[w] = "lookup" /\ (hand[w] \notin listed \/ hand[w] \in excused')
    BY <1>8 DEF Lookup, LookupFails, RemoveFiles, Throw
  <2>3. Places' /\ UNCHANGED <<mailed, rows, pushed, listed, mailedListed>>
        /\ excused \subseteq excused'
    BY <1>0, <1>8, <2>1, <2>2
    DEF Lookup, LookupFails, RemoveFiles, Throw, Goto, Places, boss, world, list
  <2>4. ListKept' /\ SuppressedIsSpared'
    BY <1>0, <1>8, <2>2, <2>3 DEF Goto, Grades, Lookup, LookupFails, RemoveFiles, Throw
  <2> QED BY <1>0, <1>n, <2>2, <2>3, <2>4, NothingMade DEF Goto, boss, TallyInv, Grades
<1>9. ASSUME NEW w \in Worker, SendMail(w) \/ InsertRow(w) \/ Publish(w) PROVE TallyInv'
  <2>1. PICK j \in Job : hand[w] = j
    BY <1>0, <1>9 DEF Handling, SendMail, InsertRow, Publish
  <2>2. PICK at \in {"publish", "good", "bad"} :
          Goto(w, at) /\ (at = "publish" => InsertRow(w))
    BY <1>9 DEF SendMail, InsertRow, Publish
  <2>3. /\ pc' = [pc EXCEPT ![w] = at]
        /\ UNCHANGED <<hand, state, left, wasListed, listed, excused>>
    BY <1>9, <2>2 DEF Goto, boss, SendMail, InsertRow, Publish, list
  <2>4. Places' /\ ListKept'
    BY <1>0, <1>9, <2>1, <2>2, <2>3
    DEF SendMail, InsertRow, Publish, Goto, Places, Grades, boss, list
  <2>5. SuppressedIsSpared'
    BY <1>0, <1>9 DEF SendMail, InsertRow, Publish, list
  <2>6. PICK d \in Effects :
          /\ \/ d = "mail" /\ SendMail(w)
             \/ d = "row" /\ InsertRow(w)
             \/ d = "push" /\ Publish(w)
    BY <1>9 DEF Effects
  <2>7. ASSUME NEW i \in Job, NEW e \in Effects
        PROVE  (Made(e, i) + Cardinality(Owed(e, i)) <= Tries(i))'
    <3>1. Tries(i)' >= Tries(i)
      BY <1>n, <2>3
    <3>2. Owed(e, i)' \subseteq Owed(e, i)
      BY <1>0, <1>9, <2>2, <2>3 DEF Owed, Owing, Effects, Grades, InsertRow
    <3>3. Made(e, i) + Cardinality(Owed(e, i)) <= Tries(i)
      BY <1>0 DEF Counted
    <3>4. CASE i = j /\ e = d
      <4>1. Made(e, i)' = Made(e, i) + 1
        BY <1>0, <2>1, <2>6, <3>4 DEF Made, Effects, SendMail, InsertRow, Publish, Grades
      <4>2. w \in Owed(e, i)
        BY <2>1, <2>6, <3>4 DEF Owed, Owing, Effects, SendMail, InsertRow, Publish
      <4>3. w \notin Owed(e, i)'
        BY <1>0, <2>2, <2>3, <2>6, <3>4
        DEF Owed, Owing, Effects, SendMail, InsertRow, Publish, Grades
      <4>4. Owed(e, i)' \subseteq Owed(e, i) \ {w}
        BY <3>2, <4>3
      <4> QED BY <1>0, <2>4, <3>1, <3>3, <4>1, <4>2, <4>4, OneEffect
    <3>5. CASE ~(i = j /\ e = d)
      <4>1. Made(e, i)' = Made(e, i)
        BY <1>0, <2>1, <2>6, <3>5 DEF Made, Effects, SendMail, InsertRow, Publish, Grades
      <4> QED BY <1>0, <2>4, <3>1, <3>2, <3>3, <4>1, OneEffect
    <3> QED BY <3>4, <3>5
  <2> QED BY <1>0, <2>4, <2>5, <2>7 DEF Counted, TallyInv
<1>10. ASSUME NEW w \in Worker, CancelOne(w) PROVE TallyInv'
  <2>1. PICK id \in rest[w] :
          pc' = [pc EXCEPT ![w] = IF rest[w] = {id} THEN "good" ELSE "cancel"]
    BY <1>10 DEF CancelOne
  <2>2. Places' /\ ListKept' /\ SuppressedIsSpared'
    BY <1>0, <1>10, <2>1 DEF CancelOne, Places, Grades, boss, list
  <2>3. \A v \in Worker : hand'[v] = hand[v] /\ (pc'[v] = pc[v] \/ pc'[v] = "good")
    BY <1>0, <1>10, <2>1 DEF CancelOne, Grades
  <2> QED BY <1>0, <1>10, <1>n, <2>2, <2>3, NothingMade DEF CancelOne, boss, TallyInv
<1>11. ASSUME NEW w \in Worker, Complete(w) PROVE TallyInv'
  <2>1. Places' /\ ListKept' /\ SuppressedIsSpared'
    BY <1>0, <1>11 DEF Complete, Freed, Places, Grades, world, list
  <2>2. \A i \in Job : Tries(i)' >= Tries(i)
    BY <1>0, <1>11 DEF Complete, Grades, Places, Tries, Bounds
  <2> QED BY <1>0, <1>11, <2>1, <2>2, NothingMade DEF Complete, Freed, world, TallyInv, Grades
<1>12. ASSUME NEW w \in Worker, Fail(w) PROVE TallyInv'
  <2>1. PICK j \in Job : hand[w] = j
    BY <1>0, <1>12 DEF Handling, Fail
  <2>2. /\ left' \in [Job -> 0 .. RetryLimit]
        /\ deadLetters \subseteq deadLetters' /\ deadLetters' \subseteq Job
        /\ \A i \in Job : Tries(i)' >= Tries(i)
    <3>1. CASE state[j] = "active"
      BY <1>0, <1>12, <2>1, <3>1, GiveUpCounts DEF Fail
    <3>2. CASE state[j] # "active"
      BY <1>0, <1>12, <1>n, <2>1, <3>2 DEF Fail, Places
    <3> QED BY <3>1, <3>2
  <2>3. Places' /\ ListKept' /\ SuppressedIsSpared'
    BY <1>0, <1>12, <2>2 DEF Fail, Freed, Places, Grades, world, list
  <2> QED BY <1>0, <1>12, <2>2, <2>3, NothingMade DEF Fail, Freed, world, TallyInv, Grades
<1>13. ASSUME NEW w \in Worker, Crash(w) PROVE TallyInv'
  <2>1. Places' /\ ListKept' /\ SuppressedIsSpared'
    BY <1>0, <1>13 DEF Crash, Places, Grades, boss, world, list, Bounds
  <2> QED BY <1>0, <1>13, <1>n, <2>1, NothingMade DEF Crash, boss, world, TallyInv, Grades
<1>14. CASE UNCHANGED vars
  <2>1. Places' /\ ListKept' /\ SuppressedIsSpared'
    BY <1>0, <1>14 DEF vars, Places, boss, run, world, list
  <2> QED BY <1>0, <1>14, <1>n, <2>1, NothingMade DEF vars, boss, run, world, TallyInv
<1> QED
  BY <1>1, <1>2, <1>3, <1>4, <1>5, <1>6, <1>7, <1>8, <1>9, <1>10, <1>11, <1>12, <1>13, <1>14
  DEF Next, WorkerStep, HandlerStep

\* An effect is made at most once per attempt, retries included.
LEMMA AtMostEveryAttempt ==
  ASSUME Bounds, TallyInv PROVE TypeOK
<1> USE DEF TallyInv, QueueInv, Grades, Places, Bounds
<1>1. ASSUME NEW j \in Job, NEW e \in Effects PROVE Made(e, j) \in Count
  <2>1. Made(e, j) + Cardinality(Owed(e, j)) <= Tries(j) /\ Cardinality(Owed(e, j)) \in Nat
    BY OwedIsFinite DEF Counted
  <2>2. Made(e, j) \in Nat /\ Tries(j) \in Int /\ Tries(j) <= RetryLimit + 1
    BY DEF Made, Effects, Tries
  <2> QED BY <2>1, <2>2 DEF Count
<1>2. \A j \in Job : mailed[j] \in Count /\ rows[j] \in Count /\ pushed[j] \in Count
  BY <1>1 DEF Made, Effects
<1> QED BY <1>2 DEF TypeOK

\* For any retry limit, any crashes and any number of workers: no job mails, inserts
\* or publishes more often than it is attempted, and no attempt that begins with its
\* recipient listed mails it, unless the lookup failed (send fails open).
THEOREM EffectsAreBounded ==
  ASSUME Bounds
  PROVE  Spec => [](TypeOK /\ SuppressedIsSpared)
<1>1. Init => TallyInv
  <2> SUFFICES ASSUME Init PROVE TallyInv
    OBVIOUS
  <2>1. QueueInv
    BY DEF Init, QueueInv, Grades, Handling, DoneMeansDone, Wired, FailureIsKept
  <2>2. Places /\ ListKept /\ SuppressedIsSpared
    <3>1. Places
      <4>1. left \in [Job -> 0 .. RetryLimit] /\ crashes \in 0 .. MaxCrashes
        BY DEF Init, Bounds
      <4> QED BY <4>1 DEF Init, Places
    <3> QED BY <3>1 DEF Init, ListKept, SuppressedIsSpared
  <2>3. ASSUME NEW j \in Job, NEW e \in Effects
        PROVE  Made(e, j) + Cardinality(Owed(e, j)) <= Tries(j)
    <3>1. Owed(e, j) = {} /\ Made(e, j) = 0 /\ Tries(j) = 0
      BY DEF Init, Owed, Owing, Made, Effects, Tries, Bounds
    <3> QED BY <3>1, FS_EmptySet
  <2> QED BY <2>1, <2>2, <2>3 DEF Counted, TallyInv
<1>2. TallyInv /\ [Next]_vars => TallyInv'
  BY TallyStep
<1>3. TallyInv => TypeOK /\ SuppressedIsSpared
  BY AtMostEveryAttempt DEF TallyInv
<1> QED BY <1>1, <1>2, <1>3, PTL DEF Spec

=============================================================================

--------------------------- MODULE ReminderDispatch ---------------------------
(***************************************************************************)
(* The reminder sweeper's claim-then-dispatch protocol: any number of      *)
(* worker processes run overlapping sweeps against one delivery ledger,    *)
(* claim a key, hand it to pg-boss, and compensate the claim when the      *)
(* hand-over fails (packages/jobs/src/reminders/run.ts).                   *)
(*                                                                         *)
(* A delivery key pairs a reminder with the instant it fires at.  The code *)
(* keys its ledger by (reminder_id, occurrence_start_at); a reminder's     *)
(* offset never changes, so the two determine each other.  Time is counted *)
(* in abstract ticks of Postgres's clock.                                  *)
(***************************************************************************)
EXTENDS Integers, FiniteSets, TLC

CONSTANTS
  Worker,       \* sweeps that may run at the same time, one per worker process
  Reminder,     \* reminder row ids (uuids: never reused)
  Fire,         \* instants at which an occurrence's reminder may fire
  Grace,        \* GRACE_MINUTES
  Retention,    \* the ledger's 90 days
  Cap,          \* MAX_DELIVERIES_PER_SWEEP
  SweepLife,    \* bound: how long a sweep may run
  MaxNow,       \* bound: the last instant of the clock
  MaxFaults,    \* bound: crashes and failed calls
  NoKey         \* "no claim in hand"

Key == [rem : Reminder, fire : Fire]

ASSUME ConstantsAssumption ==
  /\ Fire \subseteq Nat
  /\ Grace \in Nat /\ SweepLife \in Nat /\ Retention \in Nat
  /\ Cap \in Nat /\ MaxNow \in Nat /\ MaxFaults \in Nat
  /\ NoKey \notin Key

\* Ledger rows outlive every sweep that could still want their key: 90 days
\* against an hour of grace and the lifetime of one sweep.
ASSUME RetentionAssumption == Retention >= Grace + SweepLife

VARIABLES
  now,          \* Postgres's clock
  reminder,     \* reminder[r]: "new" (no row yet), "set" or "gone"
  planned,      \* keys whose occurrence is live in the calendar
  ledger,       \* keys with a calendar_reminder_deliveries row
  createdAt,    \* createdAt[k]: when k's row was inserted (0 without one)
  jobs,         \* jobs[k]: delivery jobs pg-boss has committed for k
  pc,           \* pc[w]: what worker w's sweep is about to do
  at,           \* at[w]: the clock value the sweep runs with
  batch,        \* batch[w]: everything the sweep read as due
  due,          \* due[w]: the part of the batch still to be claimed
  cur,          \* cur[w]: the key the sweep has claimed and is dispatching
  \* History, read by properties only (faults also bounds the model).
  phantom,      \* phantom[k]: sends committed by pg-boss but reported failed
  released,     \* keys whose claim was compensated
  lost,         \* keys whose claim outlived the sweep that did not dispatch it
  pruned,       \* keys whose ledger row the retention pass removed
  faults

db      == <<reminder, planned>>
sweep   == <<at, batch, due, cur>>
history == <<phantom, released, lost, pruned, faults>>
vars    == <<now, db, ledger, createdAt, jobs, pc, sweep, history>>

-------------------------------------------------------------------------------
\* fireWindow: half-open, (t - Grace, t].
InWindow(k, t) == t - Grace < k.fire /\ k.fire <= t

DueAt(t) == {k \in planned : reminder[k.rem] = "set" /\ InWindow(k, t)}

Holding(w) == cur[w] # NoKey

\* A row's created_at goes when the row does.
StampsOf(rows) == [k \in Key |-> IF k \in rows THEN createdAt[k] ELSE 0]

Init ==
  /\ now = 0
  /\ reminder = [r \in Reminder |-> "new"]
  /\ planned \in SUBSET Key
  /\ ledger = {} /\ createdAt = [k \in Key |-> 0]
  /\ jobs = [k \in Key |-> 0]
  /\ pc = [w \in Worker |-> "idle"]
  /\ at = [w \in Worker |-> 0]
  /\ batch = [w \in Worker |-> {}] /\ due = [w \in Worker |-> {}]
  /\ cur = [w \in Worker |-> NoKey]
  /\ phantom = [k \in Key |-> 0]
  /\ released = {} /\ lost = {} /\ pruned = {} /\ faults = 0

-------------------------------------------------------------------------------
\* The environment: the clock, and the calendar the user edits meanwhile.

Tick ==
  /\ now < MaxNow
  /\ \A w \in Worker : pc[w] # "idle" => now < at[w] + SweepLife
  /\ now' = now + 1
  /\ UNCHANGED <<db, ledger, createdAt, jobs, pc, sweep, history>>

EditCalendar(k) ==
  /\ planned' = IF k \in planned THEN planned \ {k} ELSE planned \union {k}
  /\ UNCHANGED <<now, reminder, ledger, createdAt, jobs, pc, sweep, history>>

AddReminder(r) ==
  /\ reminder[r] = "new"
  /\ reminder' = [reminder EXCEPT ![r] = "set"]
  /\ UNCHANGED <<now, planned, ledger, createdAt, jobs, pc, sweep, history>>

\* The ledger's foreign key cascades on the reminder's delete.
RemoveReminder(r) ==
  /\ reminder[r] = "set"
  /\ reminder' = [reminder EXCEPT ![r] = "gone"]
  /\ ledger' = {k \in ledger : k.rem # r}
  /\ createdAt' = StampsOf(ledger')
  /\ UNCHANGED <<now, planned, jobs, pc, sweep, history>>

-------------------------------------------------------------------------------
\* One sweep, in the worker process w.

\* Variation: the tick is over, but the worker never takes another.
EndSweepForGood(w) ==
  /\ pc' = [pc EXCEPT ![w] = "ended"]
  /\ at' = [at EXCEPT ![w] = 0]
  /\ batch' = [batch EXCEPT ![w] = {}]
  /\ due' = [due EXCEPT ![w] = {}]
  /\ cur' = [cur EXCEPT ![w] = NoKey]

\* The handler returns or throws: either way the tick is over.
EndSweep(w) ==
  /\ pc' = [pc EXCEPT ![w] = "idle"]
  /\ at' = [at EXCEPT ![w] = 0]
  /\ batch' = [batch EXCEPT ![w] = {}]
  /\ due' = [due EXCEPT ![w] = {}]
  /\ cur' = [cur EXCEPT ![w] = NoKey]

\* SELECT now(), then the EXISTS test that ends the tick when no reminder is set.
BeginSweep(w) ==
  /\ pc[w] = "idle"
  /\ \E r \in Reminder : reminder[r] = "set"
  /\ pc' = [pc EXCEPT ![w] = "reading"]
  /\ at' = [at EXCEPT ![w] = now]
  /\ UNCHANGED <<now, db, ledger, createdAt, jobs, batch, due, cur, history>>

\* The due keys, at most Cap of them and in no particular order.
ReadDue(w) ==
  /\ pc[w] = "reading"
  /\ \E D \in SUBSET DueAt(at[w]) :
       /\ Cardinality(D) <= Cap
       /\ D # DueAt(at[w]) => Cardinality(D) = Cap
       /\ batch' = [batch EXCEPT ![w] = D]
       /\ due' = [due EXCEPT ![w] = D]
  /\ pc' = [pc EXCEPT ![w] = "sweeping"]
  /\ UNCHANGED <<now, db, ledger, createdAt, jobs, at, cur, history>>

Claiming(w, k) ==
  /\ pc[w] = "sweeping" /\ k \in due[w]
  /\ reminder[k.rem] = "set"
  /\ ledger' = ledger \union {k}
  /\ createdAt' = [createdAt EXCEPT ![k] = now]
  /\ due' = [due EXCEPT ![w] = @ \ {k}]
  /\ cur' = [cur EXCEPT ![w] = k]
  /\ pc' = [pc EXCEPT ![w] = "sending"]
  /\ UNCHANGED <<now, db, jobs, at, batch, history>>

\* Variation: DO UPDATE instead of DO NOTHING, so that a row always returns.
ClaimAnyway(w, k) == Claiming(w, k)

\* INSERT ... ON CONFLICT DO NOTHING RETURNING id, with a row returned.
Claim(w, k) == k \notin ledger /\ Claiming(w, k)

\* Variation: whatever the INSERT answers, the key is passed over.
SkipAny(w, k) ==
  /\ pc[w] = "sweeping" /\ k \in due[w]
  /\ due' = [due EXCEPT ![w] = @ \ {k}]
  /\ UNCHANGED <<now, db, ledger, createdAt, jobs, pc, at, batch, cur, history>>

\* No row returned: another worker, or an earlier tick, already owns the key.
SkipClaimed(w, k) ==
  /\ pc[w] = "sweeping" /\ k \in due[w]
  /\ k \in ledger
  /\ due' = [due EXCEPT ![w] = @ \ {k}]
  /\ UNCHANGED <<now, db, ledger, createdAt, jobs, pc, at, batch, cur, history>>

\* The reminder was deleted since the read: the foreign key rejects the claim,
\* the INSERT is outside the try block, and the sweep ends with the exception.
ClaimRejected(w, k) ==
  /\ pc[w] = "sweeping" /\ k \in due[w]
  /\ reminder[k.rem] = "gone"
  /\ EndSweep(w)
  /\ UNCHANGED <<now, db, ledger, createdAt, jobs, history>>

SendSucceeds(w) ==
  /\ pc[w] = "sending"
  /\ jobs' = [jobs EXCEPT ![cur[w]] = @ + 1]
  /\ cur' = [cur EXCEPT ![w] = NoKey]
  /\ pc' = [pc EXCEPT ![w] = "sweeping"]
  /\ UNCHANGED <<now, db, ledger, createdAt, at, batch, due, history>>

\* boss.send throws.  The job may nevertheless have been committed, when it is
\* the answer that was lost.
SendThrows(w) ==
  /\ pc[w] = "sending" /\ faults < MaxFaults
  /\ \/ UNCHANGED <<jobs, phantom>>
     \/ /\ jobs' = [jobs EXCEPT ![cur[w]] = @ + 1]
        /\ phantom' = [phantom EXCEPT ![cur[w]] = @ + 1]
  /\ pc' = [pc EXCEPT ![w] = "compensating"]
  /\ faults' = faults + 1
  /\ UNCHANGED <<now, db, ledger, createdAt, sweep, released, lost, pruned>>

\* Variation: rethrow without deleting the claim.
Rethrow(w) ==
  /\ pc[w] = "compensating"
  /\ released' = released \union {cur[w]}
  /\ EndSweep(w)
  /\ UNCHANGED <<now, db, ledger, createdAt, jobs, phantom, lost, pruned, faults>>

\* Delete the claim by its id and rethrow.  (The row cannot be another sweep's:
\* while this claim stands, no other row for the key exists.)
Compensate(w) ==
  /\ pc[w] = "compensating"
  /\ ledger' = ledger \ {cur[w]}
  /\ createdAt' = StampsOf(ledger')
  /\ released' = released \union {cur[w]}
  /\ EndSweep(w)
  /\ UNCHANGED <<now, db, jobs, phantom, lost, pruned, faults>>

\* The delete fails too: swallowed, the claim stays, the send's error is rethrown.
CompensationFails(w) ==
  /\ pc[w] = "compensating" /\ faults < MaxFaults
  /\ lost' = lost \union {cur[w]}
  /\ faults' = faults + 1
  /\ EndSweep(w)
  /\ UNCHANGED <<now, db, ledger, createdAt, jobs, phantom, released, pruned>>

\* Variation: the retention pass deletes rows of any age.
ExpiredAtOnce == ledger

\* pruneDeliveries
Expired == {k \in ledger : createdAt[k] < now - Retention}

\* Nothing left to claim: pruneDeliveries, then return.
FinishSweep(w) ==
  /\ pc[w] = "sweeping" /\ due[w] = {}
  /\ ledger' = ledger \ Expired
  /\ pruned' = pruned \union Expired
  /\ createdAt' = StampsOf(ledger')
  /\ EndSweep(w)
  /\ UNCHANGED <<now, db, jobs, phantom, released, lost, faults>>

\* The worker process dies.  A send in flight may or may not have committed.
Crash(w) ==
  /\ pc[w] # "idle" /\ faults < MaxFaults
  /\ \/ UNCHANGED jobs
     \/ /\ pc[w] = "sending"
        /\ jobs' = [jobs EXCEPT ![cur[w]] = @ + 1]
  /\ lost' = IF Holding(w) THEN lost \union {cur[w]} ELSE lost
  /\ faults' = faults + 1
  /\ EndSweep(w)
  /\ UNCHANGED <<now, db, ledger, createdAt, phantom, released, pruned>>

Environment ==
  \/ Tick
  \/ \E k \in Key : EditCalendar(k)
  \/ \E r \in Reminder : AddReminder(r) \/ RemoveReminder(r)

SweepStep(w) ==
  \/ BeginSweep(w) \/ ReadDue(w)
  \/ \E k \in Key : Claim(w, k) \/ SkipClaimed(w, k) \/ ClaimRejected(w, k)
  \/ SendSucceeds(w) \/ Compensate(w) \/ FinishSweep(w)

Fault(w) == SendThrows(w) \/ CompensationFails(w) \/ Crash(w)

Next == Environment \/ \E w \in Worker : SweepStep(w) \/ Fault(w)

Spec == Init /\ [][Next]_vars

\* The cron starts sweeps for ever and a sweep that has begun runs on; nothing
\* is assumed of the clock, of the calendar's user, or of faults.
FairSpec == Spec /\ \A w \in Worker : WF_vars(SweepStep(w))

\* Workers are alike: the symmetry set of the runs.
WorkerSymmetry == Permutations(Worker)

-------------------------------------------------------------------------------
\* Properties

\* Types of every variable; a sweep in progress carries its batch.
TypeOK ==
  /\ now \in Nat
  /\ reminder \in [Reminder -> {"new", "set", "gone"}]
  /\ planned \subseteq Key /\ ledger \subseteq Key
  /\ createdAt \in [Key -> Nat]
  /\ jobs \in [Key -> Nat] /\ phantom \in [Key -> Nat]
  /\ pc \in [Worker -> {"idle", "reading", "sweeping", "sending", "compensating"}]
  /\ at \in [Worker -> Nat]
  /\ batch \in [Worker -> SUBSET Key] /\ due \in [Worker -> SUBSET Key]
  /\ cur \in [Worker -> Key \union {NoKey}]
  /\ released \subseteq Key /\ lost \subseteq Key /\ pruned \subseteq Key
  /\ faults \in Nat

\* However sweeps overlap, crash, retry and prune, a key gets one delivery job,
\* plus one for each send that committed but was reported as failed
\* (claimAndDispatch's "the ordering is the correctness story").
DispatchOnce == \A k \in Key : jobs[k] <= 1 + phantom[k]

\* No two sweeps ever dispatch the same key at once: the ledger's unique
\* constraint is the only thing that keeps concurrent workers apart.
OneHolder ==
  \A v, w \in Worker : Holding(v) /\ cur[v] = cur[w] => v = w

\* A row in the ledger says "delivered": it is never there without a job unless
\* a sweep is still dispatching it, or died between claim and send (or could not
\* undo its claim), which claimAndDispatch accepts as the safe direction.
NoSilentLoss ==
  \A k \in ledger : jobs[k] = 0 => k \in lost \/ \E w \in Worker : cur[w] = k

\* Every key a sweep has gone past was claimed by someone, unless its reminder
\* is gone, or its claim was undone for a later tick to retry: skipping on a
\* conflict drops nothing (runSweep's loop over claimAndDispatch).
SweepCovers ==
  \A w \in Worker : \A k \in batch[w] \ due[w] :
    k \in ledger \/ reminder[k.rem] = "gone" \/ k \in released

\* A failed enqueue is retried: the released key is claimed again by a later
\* sweep, unless its window closes or its reminder or occurrence goes away.
ReleasedIsRetried ==
  \A k \in Key :
    (k \in released /\ k \notin ledger /\ k \in DueAt(now))
      ~> (k \in ledger \/ k \notin DueAt(now))

-------------------------------------------------------------------------------
\* Refinement: a key is held while a sweep has it in hand, and settled once its
\* row stays behind, was pruned, or its reminder is gone.
StageOf(k) ==
  IF \E w \in Worker : cur[w] = k THEN "held"
  ELSE IF k \in ledger \union pruned \/ reminder[k.rem] = "gone" THEN "settled"
  ELSE "due"

Promise == INSTANCE ReminderPromise WITH
  stage  <- [k \in Key |-> StageOf(k)],
  handed <- [k \in Key |-> jobs[k] - phantom[k]]

\* The sweeper keeps the promise (run.ts: a claim is dispatched once, is lost by
\* a crash, or is compensated away).
KeepsPromise == Promise!Spec
===============================================================================

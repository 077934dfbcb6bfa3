------------------------ MODULE ReminderDispatchProofs ------------------------
(***************************************************************************)
(* For every set of workers, reminders and instants, and every length of   *)
(* the grace window: the sweeper hands each key over at most once and two  *)
(* sweeps never dispatch the same key.                                     *)
(***************************************************************************)
EXTENDS ReminderDispatch, TLAPS

-------------------------------------------------------------------------------
(* The inductive invariant. *)

\* A claim is in hand exactly during the sending and the compensating steps.
PcInv ==
  \A w \in Worker : Holding(w) <=> pc[w] \in {"sending", "compensating"}

\* A claim in hand is backed by a row the sweep itself inserted, until its
\* reminder is deleted.
HandInv ==
  \A w \in Worker : Holding(w) =>
    \/ cur[w] \in ledger /\ at[w] <= createdAt[cur[w]]
    \/ reminder[cur[w].rem] = "gone"

\* A sweep runs for at most SweepLife, on keys that were in its window and whose
\* reminder existed.
WindowInv ==
  \A w \in Worker :
    /\ pc[w] # "idle" => at[w] <= now /\ now <= at[w] + SweepLife
    /\ due[w] # {} => pc[w] # "idle"
    /\ \A k \in due[w] : InWindow(k, at[w]) /\ reminder[k.rem] # "new"

\* Rows are inserted when their key has fired, never in the future.
RowInv == \A k \in ledger : k.fire <= createdAt[k] /\ createdAt[k] <= now

\* No sweep, running or to come, can still have k among its due keys.
TooLate(k) == k.fire + Grace + SweepLife <= now

\* A key that has been handed over cannot be claimed again: its row is still
\* there, or its reminder is gone, or its window is closed for every sweep; and
\* a key in hand has not been handed over.
Spent(k) ==
  /\ jobs[k] = phantom[k] + 1
  /\ k \in ledger \/ reminder[k.rem] = "gone" \/ TooLate(k)
  /\ \A w \in Worker : cur[w] # k

SpentInv == \A k \in Key : jobs[k] <= phantom[k] \/ Spent(k)

IInv == TypeOK /\ PcInv /\ HandInv /\ WindowInv /\ RowInv /\ OneHolder /\ SpentInv

-------------------------------------------------------------------------------
\* The stamps that a change of rows leaves behind are those the rows had.
LEMMA StampsKept ==
  ASSUME TypeOK, NEW rows
  PROVE  /\ StampsOf(rows) \in [Key -> Nat]
         /\ \A k \in Key : k \in rows => StampsOf(rows)[k] = createdAt[k]
BY DEF TypeOK, StampsOf

\* Every step keeps the types, and keeps a claim in hand exactly while its sweep
\* is sending or compensating it.
LEMMA TypeStep == TypeOK /\ PcInv /\ [Next]_vars => TypeOK' /\ PcInv'
<1> SUFFICES ASSUME TypeOK, PcInv, [Next]_vars PROVE TypeOK' /\ PcInv'
  OBVIOUS
<1> USE ConstantsAssumption DEF TypeOK, PcInv, Holding
<1>1. CASE Tick
  BY <1>1 DEF Tick, db, sweep, history
<1>2. ASSUME NEW k \in Key, EditCalendar(k) PROVE TypeOK' /\ PcInv'
  BY <1>2 DEF EditCalendar, sweep, history
<1>3. ASSUME NEW r \in Reminder, AddReminder(r) \/ RemoveReminder(r)
      PROVE TypeOK' /\ PcInv'
  BY <1>3, StampsKept DEF AddReminder, RemoveReminder, sweep, history
<1>4. ASSUME NEW w \in Worker, BeginSweep(w) PROVE TypeOK' /\ PcInv'
  BY <1>4 DEF BeginSweep, db, history
<1>5. ASSUME NEW w \in Worker, ReadDue(w) PROVE TypeOK' /\ PcInv'
  BY <1>5 DEF ReadDue, DueAt, db, history
<1>6. ASSUME NEW w \in Worker, NEW k \in Key, Claim(w, k) PROVE TypeOK' /\ PcInv'
  BY <1>6 DEF Claim, Claiming, db, history
<1>7. ASSUME NEW w \in Worker, NEW k \in Key, SkipClaimed(w, k)
      PROVE TypeOK' /\ PcInv'
  BY <1>7 DEF SkipClaimed, db, history
<1>8. ASSUME NEW w \in Worker, NEW k \in Key, ClaimRejected(w, k)
      PROVE TypeOK' /\ PcInv'
  BY <1>8 DEF ClaimRejected, EndSweep, db, history
<1>9. ASSUME NEW w \in Worker, SendSucceeds(w) PROVE TypeOK' /\ PcInv'
  BY <1>9 DEF SendSucceeds, db, history
<1>10. ASSUME NEW w \in Worker, SendThrows(w) PROVE TypeOK' /\ PcInv'
  BY <1>10 DEF SendThrows, db, sweep
<1>11. ASSUME NEW w \in Worker, Compensate(w) PROVE TypeOK' /\ PcInv'
  BY <1>11, StampsKept DEF Compensate, EndSweep, db
<1>12. ASSUME NEW w \in Worker, CompensationFails(w) PROVE TypeOK' /\ PcInv'
  BY <1>12 DEF CompensationFails, EndSweep, db
<1>13. ASSUME NEW w \in Worker, FinishSweep(w) PROVE TypeOK' /\ PcInv'
  BY <1>13, StampsKept DEF FinishSweep, EndSweep, Expired, db
<1>14. ASSUME NEW w \in Worker, Crash(w) PROVE TypeOK' /\ PcInv'
  BY <1>14 DEF Crash, EndSweep, db
<1>15. CASE UNCHANGED vars
  BY <1>15 DEF vars, db, sweep, history
<1> QED
  BY <1>1, <1>2, <1>3, <1>4, <1>5, <1>6, <1>7, <1>8, <1>9, <1>10, <1>11,
     <1>12, <1>13, <1>14, <1>15 DEF Next, Environment, SweepStep, Fault

\* The types are right: the property the instances check, for all constants.
THEOREM TypeCorrect == Spec => []TypeOK
<1>1. Init => TypeOK /\ PcInv
  BY ConstantsAssumption DEF Init, TypeOK, PcInv, Holding
<1>2. QED
  BY <1>1, TypeStep, PTL DEF Spec

-------------------------------------------------------------------------------
\* Splitting a step of the system into its actions, once for all the lemmas.
Actions ==
  \/ Tick
  \/ \E k \in Key : EditCalendar(k)
  \/ \E r \in Reminder : AddReminder(r)
  \/ \E r \in Reminder : RemoveReminder(r)
  \/ \E w \in Worker : BeginSweep(w)
  \/ \E w \in Worker : ReadDue(w)
  \/ \E w \in Worker, k \in Key : Claim(w, k)
  \/ \E w \in Worker, k \in Key : SkipClaimed(w, k)
  \/ \E w \in Worker, k \in Key : ClaimRejected(w, k)
  \/ \E w \in Worker : SendSucceeds(w)
  \/ \E w \in Worker : SendThrows(w)
  \/ \E w \in Worker : Compensate(w)
  \/ \E w \in Worker : CompensationFails(w)
  \/ \E w \in Worker : FinishSweep(w)
  \/ \E w \in Worker : Crash(w)
  \/ UNCHANGED vars

\* A step of the specification is one of the actions, each with its witness.
LEMMA StepCases == [Next]_vars => Actions
BY DEF Actions, Next, Environment, SweepStep, Fault

\* The two parts of a key are an instant and a reminder.
LEMMA FireIsNat == \A k \in Key : k.fire \in Nat /\ k.rem \in Reminder
BY ConstantsAssumption DEF Key

\* The clock never leaves a sweep behind by more than SweepLife, and a sweep only
\* holds keys it read in its window.
LEMMA WindowStep == TypeOK /\ WindowInv /\ [Next]_vars => WindowInv'
<1> SUFFICES ASSUME TypeOK, WindowInv, Actions PROVE WindowInv'
  BY StepCases
<1> USE ConstantsAssumption DEF TypeOK, WindowInv, InWindow
<1>1. CASE Tick
  BY <1>1 DEF Tick, db, sweep, history
<1>2. ASSUME NEW k \in Key, EditCalendar(k) PROVE WindowInv'
  BY <1>2 DEF EditCalendar, sweep, history
<1>3. ASSUME NEW r \in Reminder, AddReminder(r) PROVE WindowInv'
  BY <1>3 DEF AddReminder, sweep, history, Key
<1>4. ASSUME NEW r \in Reminder, RemoveReminder(r) PROVE WindowInv'
  BY <1>4 DEF RemoveReminder, sweep, history, Key
<1>5. ASSUME NEW w \in Worker, BeginSweep(w) PROVE WindowInv'
  BY <1>5 DEF BeginSweep, db, history
<1>6. ASSUME NEW w \in Worker, ReadDue(w) PROVE WindowInv'
  BY <1>6 DEF ReadDue, DueAt, db, history
<1>7. ASSUME NEW w \in Worker, NEW k \in Key,
             Claim(w, k) \/ SkipClaimed(w, k) \/ ClaimRejected(w, k)
      PROVE WindowInv'
  BY <1>7 DEF Claim, Claiming, SkipClaimed, ClaimRejected, EndSweep, db, history
<1>8. ASSUME NEW w \in Worker, SendSucceeds(w) \/ SendThrows(w) PROVE WindowInv'
  BY <1>8 DEF SendSucceeds, SendThrows, db, sweep, history
<1>9. ASSUME NEW w \in Worker,
             \/ Compensate(w) \/ CompensationFails(w)
             \/ FinishSweep(w) \/ Crash(w)
      PROVE WindowInv'
  BY <1>9 DEF Compensate, CompensationFails, FinishSweep, Crash, EndSweep, db
<1>10. CASE UNCHANGED vars
  BY <1>10 DEF vars, db, sweep, history
<1> QED
  BY <1>1, <1>2, <1>3, <1>4, <1>5, <1>6, <1>7, <1>8, <1>9, <1>10 DEF Actions

\* A ledger row is inserted by a sweep whose window its key had entered.
LEMMA RowStep == TypeOK /\ WindowInv /\ RowInv /\ [Next]_vars => RowInv'
<1> SUFFICES ASSUME TypeOK, WindowInv, RowInv, Actions PROVE RowInv'
  BY StepCases
<1> USE ConstantsAssumption DEF TypeOK, RowInv
<1>1. CASE Tick
  <2>1. ledger' = ledger /\ createdAt' = createdAt /\ now' = now + 1
    BY <1>1 DEF Tick
  <2> QED
    BY <2>1
<1>2. ASSUME NEW w \in Worker, NEW k \in Key, Claim(w, k) PROVE RowInv'
  <2>1. k.fire <= now
    <3>1. k.fire \in Nat /\ at[w] \in Nat
      BY FireIsNat
    <3>2. pc[w] # "idle" /\ k \in due[w]
      BY <1>2 DEF Claim, Claiming
    <3> QED
      BY <3>1, <3>2 DEF WindowInv, InWindow
  <2>2. /\ ledger' = ledger \union {k} /\ now' = now
        /\ createdAt' = [createdAt EXCEPT ![k] = now]
    BY <1>2 DEF Claim, Claiming
  <2> QED
    BY <2>1, <2>2
<1>3. CASE /\ ledger' \subseteq ledger /\ UNCHANGED now
           /\ UNCHANGED createdAt \/ createdAt' = StampsOf(ledger')
  BY <1>3, StampsKept
<1>4. QED
  BY <1>1, <1>2, <1>3
  DEF Actions, EditCalendar, AddReminder, RemoveReminder, BeginSweep, ReadDue,
      SkipClaimed, ClaimRejected, SendSucceeds, SendThrows, Compensate,
      CompensationFails, FinishSweep, Crash, vars

\* A key in hand has its row, unless its reminder is deleted: nothing else removes
\* the row, the retention pass least of all.
LEMMA HandStep ==
  TypeOK /\ PcInv /\ HandInv /\ WindowInv /\ OneHolder /\ [Next]_vars => HandInv'
<1> SUFFICES ASSUME TypeOK, PcInv, HandInv, WindowInv, OneHolder, Actions
             PROVE HandInv'
  BY StepCases
<1> USE DEF TypeOK, HandInv, Holding
<1>1. ASSUME NEW w \in Worker, NEW k \in Key, Claim(w, k) PROVE HandInv'
  <2>1. at[w] <= now
    BY <1>1 DEF Claim, Claiming, WindowInv
  <2>2. \A v \in Worker : v # w /\ cur[v] # NoKey => cur[v] # k
    BY <1>1 DEF Claim, Claiming
  <2> QED
    BY <1>1, <2>1, <2>2 DEF Claim, Claiming, db
<1>2. ASSUME NEW w \in Worker, Compensate(w) PROVE HandInv'
  <2>1. \A v \in Worker : v # w /\ cur[v] # NoKey => cur[v] # cur[w]
    BY <1>2 DEF Compensate, OneHolder, PcInv
  <2> QED
    BY <1>2, <2>1, FireIsNat, StampsKept DEF Compensate, EndSweep, db
<1>3. ASSUME NEW w \in Worker, FinishSweep(w) PROVE HandInv'
  <2>1. \A v \in Worker : cur[v] # NoKey =>
          cur[v] \notin Expired \/ reminder[cur[v].rem] = "gone"
    BY ConstantsAssumption, RetentionAssumption DEF WindowInv, PcInv, Expired
  <2> QED
    BY <1>3, <2>1, StampsKept DEF FinishSweep, EndSweep, db
<1>4. ASSUME NEW r \in Reminder, RemoveReminder(r) PROVE HandInv'
  BY <1>4, FireIsNat, StampsKept DEF RemoveReminder, sweep
<1>5. ASSUME NEW r \in Reminder, AddReminder(r) PROVE HandInv'
  BY <1>5, FireIsNat DEF AddReminder, sweep
<1>6. ASSUME NEW w \in Worker, BeginSweep(w) PROVE HandInv'
  BY <1>6 DEF BeginSweep, PcInv, db
<1>7. ASSUME ledger' = ledger, reminder' = reminder, createdAt' = createdAt,
             \A w \in Worker :
               cur'[w] = NoKey \/ (cur'[w] = cur[w] /\ at'[w] = at[w])
      PROVE HandInv'
  BY <1>7
<1> QED
  BY <1>1, <1>2, <1>3, <1>4, <1>5, <1>6, <1>7
  DEF Actions, Tick, EditCalendar, ReadDue, SkipClaimed, ClaimRejected,
      SendSucceeds, SendThrows, CompensationFails, Crash, EndSweep, vars, sweep, db

\* The unique row keeps two sweeps from holding one key.
LEMMA OneHolderStep ==
  TypeOK /\ HandInv /\ OneHolder /\ [Next]_vars => OneHolder'
<1> SUFFICES ASSUME TypeOK, HandInv, OneHolder, Actions PROVE OneHolder'
  BY StepCases
<1> USE DEF TypeOK, OneHolder, Holding
<1>1. ASSUME NEW w \in Worker, NEW k \in Key, Claim(w, k) PROVE OneHolder'
  <2>1. \A v \in Worker : cur[v] # k
    BY <1>1, ConstantsAssumption DEF Claim, Claiming, HandInv
  <2> QED
    BY <1>1, <2>1 DEF Claim, Claiming
<1>2. ASSUME \A w \in Worker : cur'[w] \in {cur[w], NoKey} PROVE OneHolder'
  BY <1>2
<1> QED
  BY <1>1, <1>2
  DEF Actions, Tick, EditCalendar, AddReminder, RemoveReminder, BeginSweep,
      ReadDue, SkipClaimed, ClaimRejected, SendSucceeds, SendThrows, Compensate,
      CompensationFails, FinishSweep, Crash, EndSweep, vars, sweep

\* A due key is never one whose window has closed for good.
LEMMA DueNotTooLate ==
  ASSUME TypeOK, WindowInv, NEW w \in Worker, NEW k \in due[w]
  PROVE  ~TooLate(k)
<1>1. k \in Key /\ k.fire \in Nat /\ at[w] \in Nat /\ now \in Nat
  BY FireIsNat DEF TypeOK
<1>2. now <= at[w] + SweepLife /\ at[w] < k.fire + Grace
  BY <1>1, ConstantsAssumption DEF WindowInv, InWindow
<1> QED
  BY <1>1, <1>2, ConstantsAssumption DEF TooLate

\* A row old enough to be pruned belongs to a key no sweep can want any more.
LEMMA ExpiredTooLate ==
  ASSUME TypeOK, RowInv, NEW k \in Expired
  PROVE  TooLate(k)
<1>1. k \in Key /\ k.fire \in Nat /\ createdAt[k] \in Nat /\ now \in Nat
  BY FireIsNat DEF TypeOK, Expired
<1>2. k.fire <= createdAt[k] /\ createdAt[k] < now - Retention
  BY DEF RowInv, Expired
<1> QED
  BY <1>1, <1>2, ConstantsAssumption, RetentionAssumption DEF TooLate

\* A key that has been handed over stays out of reach of every sweep.
LEMMA SpentStep == IInv /\ [Next]_vars => SpentInv'
<1> SUFFICES ASSUME IInv, Actions, NEW k \in Key
             PROVE  (jobs[k] <= phantom[k] \/ Spent(k))'
  BY StepCases DEF SpentInv
<1>0. /\ TypeOK /\ PcInv /\ HandInv /\ WindowInv /\ RowInv /\ OneHolder
      /\ jobs[k] <= phantom[k] \/ Spent(k)
      /\ jobs[k] \in Nat /\ phantom[k] \in Nat
  BY DEF IInv, SpentInv, TypeOK
<1>1. TooLate(k) /\ now' \in {now, now + 1} => TooLate(k)'
  BY <1>0, FireIsNat, ConstantsAssumption DEF TooLate, TypeOK
<1>2. ASSUME NEW w \in Worker, cur[w] = k,
             jobs' = [jobs EXCEPT ![cur[w]] = @ + 1],
             cur' = [cur EXCEPT ![w] = NoKey],
             UNCHANGED <<now, reminder, ledger, phantom>>
      PROVE  (jobs[k] <= phantom[k] \/ Spent(k))'
  <2>1. jobs[k] <= phantom[k] /\ jobs'[k] = jobs[k] + 1
    BY <1>0, <1>2 DEF Spent, TypeOK
  <2>2. k \in ledger \/ reminder[k.rem] = "gone"
    BY <1>0, <1>2, ConstantsAssumption DEF HandInv, Holding
  <2>3. \A v \in Worker : cur'[v] # k
    BY <1>0, <1>2, ConstantsAssumption DEF OneHolder, Holding, TypeOK
  <2> QED
    BY <1>0, <1>2, <2>1, <2>2, <2>3 DEF Spent
\* Steps that leave k's counters alone and do not take its row from under it.
<1>3. ASSUME jobs'[k] = jobs[k], phantom'[k] = phantom[k],
             now' \in {now, now + 1},
             reminder[k.rem] = "gone" => reminder'[k.rem] = "gone",
             k \in ledger =>
               k \in ledger' \/ reminder'[k.rem] = "gone" \/ TooLate(k) \/ ~Spent(k),
             Spent(k) => \A w \in Worker : cur'[w] # k
      PROVE  (jobs[k] <= phantom[k] \/ Spent(k))'
  BY <1>0, <1>1, <1>3 DEF Spent
<1>4. CASE Tick
  BY <1>3, <1>4 DEF Tick, db, sweep, history, Spent
<1>5. ASSUME NEW j \in Key, EditCalendar(j)
      PROVE  (jobs[k] <= phantom[k] \/ Spent(k))'
  BY <1>3, <1>5 DEF EditCalendar, sweep, history, Spent
<1>6. ASSUME NEW r \in Reminder, AddReminder(r) \/ RemoveReminder(r)
      PROVE  (jobs[k] <= phantom[k] \/ Spent(k))'
  <2>1. k.rem \in Reminder
    BY FireIsNat
  <2> QED
    BY <1>0, <1>3, <1>6, <2>1
    DEF AddReminder, RemoveReminder, sweep, history, Spent, TypeOK
<1>7. ASSUME NEW w \in Worker, BeginSweep(w) \/ ReadDue(w)
      PROVE  (jobs[k] <= phantom[k] \/ Spent(k))'
  BY <1>3, <1>7 DEF BeginSweep, ReadDue, db, history, Spent
<1>8. ASSUME NEW w \in Worker, NEW j \in Key, Claim(w, j)
      PROVE  (jobs[k] <= phantom[k] \/ Spent(k))'
  <2>1. CASE j = k
    <3>1. ~Spent(k)
      BY <1>0, <1>8, <2>1, DueNotTooLate DEF Claim, Claiming, Spent
    <3> QED
      BY <1>0, <1>3, <1>8, <3>1 DEF Claim, Claiming, db, history
  <2>2. CASE j # k
    BY <1>0, <1>3, <1>8, <2>2 DEF Claim, Claiming, db, history, Spent, TypeOK
  <2> QED
    BY <2>1, <2>2
<1>9. ASSUME NEW w \in Worker, NEW j \in Key, SkipClaimed(w, j) \/ ClaimRejected(w, j)
      PROVE  (jobs[k] <= phantom[k] \/ Spent(k))'
  BY <1>0, <1>3, <1>9, ConstantsAssumption
  DEF SkipClaimed, ClaimRejected, EndSweep, db, history, Spent, TypeOK
<1>10. ASSUME NEW w \in Worker, SendSucceeds(w)
       PROVE  (jobs[k] <= phantom[k] \/ Spent(k))'
  <2>1. CASE cur[w] = k
    BY <1>2, <1>10, <2>1 DEF SendSucceeds, db, history
  <2>2. CASE cur[w] # k
    BY <1>0, <1>3, <1>10, <2>2, ConstantsAssumption
    DEF SendSucceeds, db, history, Spent, TypeOK
  <2> QED
    BY <2>1, <2>2
<1>11. ASSUME NEW w \in Worker, SendThrows(w)
       PROVE  (jobs[k] <= phantom[k] \/ Spent(k))'
  <2>1. CASE cur[w] = k
    <3>1. jobs[k] <= phantom[k]
      BY <1>0, <2>1 DEF Spent
    <3> QED
      BY <1>0, <1>11, <2>1, <3>1 DEF SendThrows, TypeOK
  <2>2. CASE cur[w] # k
    BY <1>0, <1>3, <1>11, <2>2 DEF SendThrows, db, sweep, Spent, TypeOK
  <2> QED
    BY <2>1, <2>2
<1>12. ASSUME NEW w \in Worker, Compensate(w) \/ CompensationFails(w)
       PROVE  (jobs[k] <= phantom[k] \/ Spent(k))'
  BY <1>0, <1>3, <1>12, ConstantsAssumption
  DEF Compensate, CompensationFails, EndSweep, db, Spent, TypeOK
<1>13. ASSUME NEW w \in Worker, FinishSweep(w)
       PROVE  (jobs[k] <= phantom[k] \/ Spent(k))'
  <2>1. k \in Expired => TooLate(k)
    BY <1>0, ExpiredTooLate
  <2> QED
    BY <1>0, <1>3, <1>13, <2>1, ConstantsAssumption
    DEF FinishSweep, EndSweep, db, Spent, TypeOK
<1>14. ASSUME NEW w \in Worker, Crash(w)
       PROVE  (jobs[k] <= phantom[k] \/ Spent(k))'
  <2>1. CASE cur[w] = k /\ jobs' # jobs
    BY <1>2, <1>14, <2>1 DEF Crash, EndSweep, db
  <2>2. CASE cur[w] # k \/ jobs' = jobs
    BY <1>0, <1>3, <1>14, <2>2, ConstantsAssumption
    DEF Crash, EndSweep, db, Spent, TypeOK
  <2> QED
    BY <2>1, <2>2
<1>15. CASE UNCHANGED vars
  BY <1>3, <1>15 DEF vars, db, sweep, history, Spent
<1> QED
  BY <1>4, <1>5, <1>6, <1>7, <1>8, <1>9, <1>10, <1>11, <1>12, <1>13, <1>14,
     <1>15 DEF Actions

\* The invariant holds of every behaviour of the sweeper.
LEMMA InvariantHolds == Spec => []IInv
<1>1. Init => IInv
  BY ConstantsAssumption
  DEF Init, IInv, TypeOK, PcInv, HandInv, WindowInv, RowInv, OneHolder, SpentInv,
      Holding
<1>2. IInv /\ [Next]_vars => IInv'
  BY TypeStep, HandStep, WindowStep, RowStep, OneHolderStep, SpentStep DEF IInv
<1> QED
  BY <1>1, <1>2, PTL DEF Spec

\* However many workers, faults and overlapping sweeps there are, a key gets one
\* delivery job, plus one per send that committed but was reported failed.
THEOREM DispatchedOnce == Spec => []DispatchOnce
<1>1. IInv => DispatchOnce
  BY DEF IInv, SpentInv, Spent, DispatchOnce, TypeOK
<1> QED
  BY <1>1, InvariantHolds, PTL

\* Two sweeps never have the same key in hand.
THEOREM MutualExclusion == Spec => []OneHolder
<1>1. IInv => OneHolder
  BY DEF IInv
<1> QED
  BY <1>1, InvariantHolds, PTL

-------------------------------------------------------------------------------
(* No row without a job, and no key passed over. *)

\* A row that is inserted is in hand, and is let go of only with its job
\* committed, with the row deleted, or with the key counted as lost.
LEMMA NoSilentLossStep ==
  TypeOK /\ PcInv /\ NoSilentLoss /\ [Next]_vars => NoSilentLoss'
<1> SUFFICES ASSUME TypeOK, PcInv, NoSilentLoss, Actions,
                    NEW k \in ledger', jobs'[k] = 0
             PROVE  k \in lost' \/ \E w \in Worker : cur'[w] = k
  BY StepCases DEF NoSilentLoss
<1> USE ConstantsAssumption DEF TypeOK, PcInv, Holding
\* The steps that insert no row, let go of no key, and add jobs at most.
<1>1. ASSUME ledger' \subseteq ledger, lost \subseteq lost',
             jobs[k] = 0,
             \A w \in Worker : cur[w] = k => cur'[w] = k \/ k \in lost'
      PROVE  k \in lost' \/ \E w \in Worker : cur'[w] = k
  BY <1>1 DEF NoSilentLoss
<1>2. ASSUME NEW w \in Worker, NEW j \in Key, Claim(w, j)
      PROVE  k \in lost' \/ \E v \in Worker : cur'[v] = k
  <2>1. CASE j = k
    BY <1>2, <2>1 DEF Claim, Claiming
  <2>2. CASE j # k
    BY <1>2, <2>2 DEF Claim, Claiming, NoSilentLoss, history
  <2> QED BY <2>1, <2>2
<1>3. ASSUME NEW w \in Worker, SendSucceeds(w)
      PROVE  k \in lost' \/ \E v \in Worker : cur'[v] = k
  <2>1. k \in Key /\ cur[w] \in Key /\ cur[w] # k /\ jobs[k] = 0
    BY <1>3 DEF SendSucceeds
  <2> QED BY <1>1, <1>3, <2>1 DEF SendSucceeds, history
<1>4. ASSUME NEW w \in Worker, SendThrows(w)
      PROVE  k \in lost' \/ \E v \in Worker : cur'[v] = k
  <2>1. k \in Key /\ cur[w] \in Key /\ jobs[k] = 0
    BY <1>4 DEF SendThrows
  <2> QED BY <1>1, <1>4, <2>1 DEF SendThrows, sweep
<1>5. ASSUME NEW w \in Worker, Crash(w)
      PROVE  k \in lost' \/ \E v \in Worker : cur'[v] = k
  <2>1. k \in Key /\ jobs[k] = 0
    BY <1>5 DEF Crash
  <2> QED BY <1>1, <1>5, <2>1 DEF Crash, EndSweep
<1>6. ASSUME NEW w \in Worker, Compensate(w) \/ CompensationFails(w)
      PROVE  k \in lost' \/ \E v \in Worker : cur'[v] = k
  BY <1>1, <1>6 DEF Compensate, CompensationFails, EndSweep
<1>7. ASSUME NEW w \in Worker,
             \/ BeginSweep(w) \/ ReadDue(w) \/ FinishSweep(w)
             \/ \E j \in Key : SkipClaimed(w, j) \/ ClaimRejected(w, j)
      PROVE  k \in lost' \/ \E v \in Worker : cur'[v] = k
  BY <1>1, <1>7
  DEF BeginSweep, ReadDue, FinishSweep, SkipClaimed, ClaimRejected, EndSweep, history
<1>8. CASE \/ Tick \/ UNCHANGED vars \/ \E j \in Key : EditCalendar(j)
           \/ \E r \in Reminder : AddReminder(r) \/ RemoveReminder(r)
  BY <1>1, <1>8 DEF Tick, vars, EditCalendar, AddReminder, RemoveReminder, sweep, history
<1> QED
  BY <1>2, <1>3, <1>4, <1>5, <1>6, <1>7, <1>8 DEF Actions

\* A ledger row never lies: without a job it is in hand, or its key is one of
\* those that a crash or a failed compensation is known to lose.
THEOREM NoRowWithoutJob == Spec => []NoSilentLoss
<1>1. Init => TypeOK /\ PcInv /\ NoSilentLoss
  BY ConstantsAssumption DEF Init, TypeOK, PcInv, Holding, NoSilentLoss
<1> QED
  BY <1>1, TypeStep, NoSilentLossStep, PTL DEF Spec

\* What a sweep read as due was in its window, and is forgotten with the sweep.
BatchInv ==
  \A w \in Worker :
    /\ batch[w] # {} => pc[w] # "idle"
    /\ \A k \in batch[w] : InWindow(k, at[w])

LEMMA BatchStep == TypeOK /\ BatchInv /\ [Next]_vars => BatchInv'
<1> SUFFICES ASSUME TypeOK, BatchInv, Actions PROVE BatchInv'
  BY StepCases
<1> USE DEF TypeOK, BatchInv, InWindow
<1>1. ASSUME NEW w \in Worker, ReadDue(w) PROVE BatchInv'
  BY <1>1 DEF ReadDue, DueAt
<1>2. ASSUME NEW w \in Worker, BeginSweep(w) PROVE BatchInv'
  BY <1>2 DEF BeginSweep
<1>3. ASSUME NEW w \in Worker, EndSweep(w) PROVE BatchInv'
  BY <1>3 DEF EndSweep
<1>4. ASSUME batch' = batch, at' = at,
             \A w \in Worker : pc[w] # "idle" => pc'[w] # "idle"
      PROVE  BatchInv'
  BY <1>4
<1> QED
  BY <1>1, <1>2, <1>3, <1>4
  DEF Actions, Tick, EditCalendar, AddReminder, RemoveReminder, Claim, Claiming,
      SkipClaimed, ClaimRejected, SendSucceeds, SendThrows, Compensate,
      CompensationFails, FinishSweep, Crash, vars, sweep

\* No row of a key that a running sweep has in its batch is old enough to be
\* pruned: the sweep began within Grace of the key's instant and within SweepLife
\* of now.
LEMMA BatchNotExpired ==
  ASSUME TypeOK, WindowInv, RowInv, BatchInv, NEW w \in Worker, NEW k \in batch[w]
  PROVE  k \notin Expired
<1>1. k \in Key /\ k.fire \in Nat /\ at[w] \in Nat /\ now \in Nat
  BY FireIsNat DEF TypeOK
<1>2. now <= at[w] + SweepLife /\ at[w] - Grace < k.fire
  BY <1>1 DEF WindowInv, BatchInv, InWindow
<1>3. ~TooLate(k)
  BY <1>1, <1>2, ConstantsAssumption DEF TooLate
<1> QED
  BY <1>3, ExpiredTooLate

\* A sweep moves past a key by finding its row or by inserting it, and a row goes
\* only with its reminder, by being compensated, or when no sweep wants it.
LEMMA SweepCoversStep ==
  TypeOK /\ WindowInv /\ RowInv /\ BatchInv /\ SweepCovers /\ [Next]_vars => SweepCovers'
<1> SUFFICES ASSUME TypeOK, WindowInv, RowInv, BatchInv, SweepCovers, Actions,
                    NEW w \in Worker, NEW k \in batch'[w] \ due'[w]
             PROVE  k \in ledger' \/ reminder'[k.rem] = "gone" \/ k \in released'
  BY StepCases DEF SweepCovers
<1> USE DEF TypeOK
<1>1. ASSUME k \in batch[w] \ due[w],
             k \in ledger => k \in ledger' \/ reminder'[k.rem] = "gone" \/ k \in released',
             released \subseteq released',
             reminder[k.rem] = "gone" => reminder'[k.rem] = "gone"
      PROVE  k \in ledger' \/ reminder'[k.rem] = "gone" \/ k \in released'
  BY <1>1 DEF SweepCovers
<1>2. CASE \/ Tick \/ UNCHANGED vars \/ \E j \in Key : EditCalendar(j)
  BY <1>1, <1>2 DEF Tick, vars, EditCalendar, db, sweep, history
<1>3. ASSUME NEW r \in Reminder, AddReminder(r) \/ RemoveReminder(r)
      PROVE  k \in ledger' \/ reminder'[k.rem] = "gone" \/ k \in released'
  <2>1. k \in Key /\ k.rem \in Reminder
    BY <1>3, FireIsNat DEF AddReminder, RemoveReminder, sweep
  <2> QED BY <1>1, <1>3, <2>1 DEF AddReminder, RemoveReminder, sweep, history
<1>4. ASSUME NEW v \in Worker, BeginSweep(v) \/ ReadDue(v)
      PROVE  k \in ledger' \/ reminder'[k.rem] = "gone" \/ k \in released'
  BY <1>1, <1>4 DEF BeginSweep, ReadDue, db, history
<1>5. ASSUME NEW v \in Worker, NEW j \in Key, Claim(v, j) \/ SkipClaimed(v, j)
      PROVE  k \in ledger' \/ reminder'[k.rem] = "gone" \/ k \in released'
  BY <1>1, <1>5 DEF Claim, Claiming, SkipClaimed, db, history
<1>6. ASSUME NEW v \in Worker, SendSucceeds(v) \/ SendThrows(v)
      PROVE  k \in ledger' \/ reminder'[k.rem] = "gone" \/ k \in released'
  BY <1>1, <1>6 DEF SendSucceeds, SendThrows, db, sweep, history
<1>7. ASSUME NEW v \in Worker,
             \/ Compensate(v) \/ CompensationFails(v) \/ Crash(v)
             \/ \E j \in Key : ClaimRejected(v, j)
      PROVE  k \in ledger' \/ reminder'[k.rem] = "gone" \/ k \in released'
  <2>1. k \in batch[w] \ due[w]
    BY <1>7 DEF Compensate, CompensationFails, Crash, ClaimRejected, EndSweep
  <2> QED
    BY <1>1, <1>7, <2>1
    DEF Compensate, CompensationFails, Crash, ClaimRejected, db, history
<1>8. ASSUME NEW v \in Worker, FinishSweep(v)
      PROVE  k \in ledger' \/ reminder'[k.rem] = "gone" \/ k \in released'
  <2>1. k \in batch[w] \ due[w]
    BY <1>8 DEF FinishSweep, EndSweep
  <2>2. k \notin Expired
    BY <2>1, BatchNotExpired
  <2> QED
    BY <1>1, <1>8, <2>1, <2>2 DEF FinishSweep, db, history
<1> QED
  BY <1>2, <1>3, <1>4, <1>5, <1>6, <1>7, <1>8 DEF Actions

\* Whatever a sweep has gone past is delivered or being delivered by someone, is
\* a deleted reminder's, or was released for the next tick.
THEOREM NothingPassedOver == Spec => []SweepCovers
<1>1. Init => BatchInv /\ SweepCovers
  BY DEF Init, BatchInv, SweepCovers
<1>2. IInv => TypeOK /\ WindowInv /\ RowInv
  BY DEF IInv
<1> QED
  BY <1>1, <1>2, InvariantHolds, BatchStep, SweepCoversStep, PTL DEF Spec

-------------------------------------------------------------------------------
(* The sweeper implements ReminderPromise. *)

\* Only keys that no sweep can want any more lose their row to the retention pass.
PrunedInv == \A k \in pruned : TooLate(k)

LEMMA PrunedStep == TypeOK /\ RowInv /\ PrunedInv /\ [Next]_vars => PrunedInv'
<1> SUFFICES ASSUME TypeOK, RowInv, PrunedInv, Actions, NEW k \in pruned'
             PROVE  TooLate(k)'
  BY StepCases DEF PrunedInv
<1>1. now \in Nat /\ now' \in {now, now + 1}
  BY DEF TypeOK, Actions, Tick, EditCalendar, AddReminder, RemoveReminder, BeginSweep,
         ReadDue, Claim, Claiming, SkipClaimed, ClaimRejected, SendSucceeds, SendThrows,
         Compensate, CompensationFails, FinishSweep, Crash, vars
<1>2. k \in pruned \/ k \in Expired
  BY DEF Actions, Tick, EditCalendar, AddReminder, RemoveReminder, BeginSweep,
         ReadDue, Claim, Claiming, SkipClaimed, ClaimRejected, SendSucceeds, SendThrows,
         Compensate, CompensationFails, FinishSweep, Crash, vars, history
<1>3. k \in Key /\ TooLate(k)
  BY <1>2, ExpiredTooLate DEF PrunedInv, TypeOK, Expired
<1> QED
  BY <1>1, <1>3, FireIsNat, ConstantsAssumption DEF TooLate

RInv == IInv /\ PrunedInv

\* How often a key counts as handed over: the sends reported failed do not count.
HandedOf(k) == jobs[k] - phantom[k]

Same(k) == StageOf(k)' = StageOf(k) /\ HandedOf(k)' = HandedOf(k)

LEMMA HandedIsInt == ASSUME TypeOK, NEW k \in Key PROVE HandedOf(k) \in Int
BY DEF TypeOK, HandedOf

\* A step that changes the stage of one key only, as the promise allows.
LEMMA OneKeyStep ==
  ASSUME NEW k \in Key, \A j \in Key : j # k => Same(j),
         \/ /\ StageOf(k) = "due" /\ StageOf(k)' = "held"
            /\ HandedOf(k)' = HandedOf(k)
         \/ /\ StageOf(k) = "held" /\ StageOf(k)' = "settled"
            /\ HandedOf(k)' = HandedOf(k) + 1
         \/ /\ StageOf(k) = "held" /\ StageOf(k)' \in {"settled", "due"}
            /\ HandedOf(k)' = HandedOf(k)
  PROVE  Promise!Next
<1> DEFINE stage == [j \in Key |-> StageOf(j)]
           handed == [j \in Key |-> jobs[j] - phantom[j]]
<1>1. CASE StageOf(k) = "due" /\ StageOf(k)' = "held" /\ HandedOf(k)' = HandedOf(k)
  <2>1. stage' = [stage EXCEPT ![k] = "held"] /\ handed' = handed
    BY <1>1 DEF Same, HandedOf
  <2>2. Promise!Take(k)
    BY <1>1, <2>1 DEF Promise!Take
  <2> QED BY <2>2 DEF Promise!Next
<1>2. CASE /\ StageOf(k) = "held" /\ StageOf(k)' = "settled"
           /\ HandedOf(k)' = HandedOf(k) + 1
  <2>1. /\ stage' = [stage EXCEPT ![k] = "settled"]
        /\ handed' = [handed EXCEPT ![k] = @ + 1]
    BY <1>2 DEF Same, HandedOf
  <2>2. Promise!HandOver(k)
    BY <1>2, <2>1 DEF Promise!HandOver
  <2> QED BY <2>2 DEF Promise!Next
<1>3. CASE StageOf(k) = "held" /\ StageOf(k)' = "settled" /\ HandedOf(k)' = HandedOf(k)
  <2>1. stage' = [stage EXCEPT ![k] = "settled"] /\ handed' = handed
    BY <1>3 DEF Same, HandedOf
  <2>2. Promise!Lose(k)
    BY <1>3, <2>1 DEF Promise!Lose
  <2> QED BY <2>2 DEF Promise!Next
<1>4. CASE StageOf(k) = "held" /\ StageOf(k)' = "due" /\ HandedOf(k)' = HandedOf(k)
  <2>1. stage' = [stage EXCEPT ![k] = "due"] /\ handed' = handed
    BY <1>4 DEF Same, HandedOf
  <2>2. Promise!Release(k)
    BY <1>4, <2>1 DEF Promise!Release
  <2> QED BY <2>2 DEF Promise!Next
<1> QED BY <1>1, <1>2, <1>3, <1>4

\* A sweep that lets go of its key settles it when the row stays or the reminder is
\* gone, since no other sweep holds it.
LEMMA LetGo ==
  ASSUME RInv, NEW w \in Worker, NEW k \in Key, cur[w] = k,
         cur' = [cur EXCEPT ![w] = NoKey],
         reminder' = reminder, pruned' = pruned,
         \A j \in Key : j # k => (j \in ledger' <=> j \in ledger)
  PROVE  /\ StageOf(k) = "held"
         /\ \A j \in Key : j # k => StageOf(j)' = StageOf(j)
         /\ StageOf(k)' \in {"settled", "due"}
         /\ ledger' = ledger => StageOf(k)' = "settled"
<1> USE ConstantsAssumption DEF RInv, IInv, TypeOK, Holding
<1>1. k # NoKey
  OBVIOUS
<1>2. \A v \in Worker : cur'[v] # k
  BY <1>1 DEF OneHolder
<1>3. k \in ledger \/ reminder[k.rem] = "gone"
  BY <1>1 DEF HandInv
<1>4. \A j \in Key : j # k =>
        ((\E v \in Worker : cur'[v] = j) <=> (\E v \in Worker : cur[v] = j))
  BY <1>1
<1>5. \A j \in Key : j # k => StageOf(j)' = StageOf(j)
  BY <1>4 DEF StageOf
<1> QED BY <1>2, <1>3, <1>5 DEF StageOf

\* Each step of the sweeper, its faults and the calendar is a step of the promise or
\* leaves it as it is.
LEMMA PromiseStep == RInv /\ [Next]_vars => [Promise!Next]_(Promise!vars)
<1> SUFFICES ASSUME RInv, Actions PROVE [Promise!Next]_(Promise!vars)
  BY StepCases
<1> USE ConstantsAssumption
<1>0. TypeOK /\ PcInv /\ HandInv /\ WindowInv /\ OneHolder /\ PrunedInv
  BY DEF RInv, IInv
<1>s. ASSUME \A k \in Key : Same(k) PROVE UNCHANGED Promise!vars
  BY <1>s DEF Promise!vars, Same, HandedOf
<1>1. ASSUME cur' = cur, ledger' \union pruned' = ledger \union pruned,
             \A k \in Key : reminder'[k.rem] = "gone" <=> reminder[k.rem] = "gone",
             \A k \in Key : HandedOf(k)' = HandedOf(k)
      PROVE  UNCHANGED Promise!vars
  BY <1>1, <1>s DEF Same, StageOf
<1>2. CASE \/ Tick \/ UNCHANGED vars \/ \E k \in Key : EditCalendar(k)
           \/ \E w \in Worker : BeginSweep(w) \/ ReadDue(w)
           \/ \E w \in Worker, k \in Key : SkipClaimed(w, k)
  BY <1>1, <1>2
  DEF Tick, vars, EditCalendar, BeginSweep, ReadDue, SkipClaimed, db, sweep, history, HandedOf
<1>3. ASSUME NEW r \in Reminder, AddReminder(r) PROVE UNCHANGED Promise!vars
  <2>1. \A k \in Key : reminder'[k.rem] = "gone" <=> reminder[k.rem] = "gone"
    BY <1>0, <1>3, FireIsNat DEF AddReminder, TypeOK
  <2> QED BY <1>1, <1>3, <2>1 DEF AddReminder, sweep, history, HandedOf
<1>4. ASSUME NEW r \in Reminder, RemoveReminder(r) PROVE Promise!Next
  <2> DEFINE K == {k \in Key : k.rem = r /\ StageOf(k) = "due"}
             stage == [k \in Key |-> StageOf(k)]
             handed == [k \in Key |-> jobs[k] - phantom[k]]
  <2>1. /\ cur' = cur /\ handed' = handed /\ pruned' = pruned
        /\ \A k \in Key : k.rem = r => reminder'[k.rem] = "gone"
        /\ \A k \in Key : k.rem # r =>
              reminder'[k.rem] = reminder[k.rem] /\ (k \in ledger' <=> k \in ledger)
    BY <1>0, <1>4, FireIsNat DEF RemoveReminder, sweep, history, TypeOK
  <2>2. \A k \in Key : StageOf(k)' = IF k \in K THEN "settled" ELSE StageOf(k)
    BY <2>1 DEF StageOf
  <2>3. Promise!Withdraw(K)
    BY <2>1, <2>2 DEF Promise!Withdraw
  <2> QED BY <2>3 DEF Promise!Next
<1>5. ASSUME NEW w \in Worker, NEW k \in Key, Claim(w, k) PROVE Promise!Next
  <2>1. /\ cur[w] = NoKey /\ cur' = [cur EXCEPT ![w] = k]
        /\ k \notin ledger /\ ledger' = ledger \union {k}
        /\ reminder[k.rem] = "set" /\ reminder' = reminder
        /\ jobs' = jobs /\ phantom' = phantom /\ pruned' = pruned
    BY <1>0, <1>5 DEF Claim, Claiming, PcInv, Holding, db, history
  <2>2. k \notin pruned
    BY <1>0, <1>5, DueNotTooLate DEF Claim, Claiming, PrunedInv
  <2>3. \A v \in Worker : cur[v] # k
    BY <1>0, <2>1 DEF HandInv, Holding
  <2>4. StageOf(k) = "due" /\ StageOf(k)' = "held"
    BY <1>0, <2>1, <2>2, <2>3 DEF StageOf, TypeOK
  <2>5. \A j \in Key : j # k => Same(j)
    <3>1. \A j \in Key : j # k =>
            ((\E v \in Worker : cur'[v] = j) <=> (\E v \in Worker : cur[v] = j))
      BY <1>0, <2>1 DEF TypeOK
    <3> QED BY <2>1, <3>1 DEF Same, StageOf, HandedOf
  <2> QED BY <2>1, <2>4, <2>5, OneKeyStep DEF HandedOf
<1>6. ASSUME NEW w \in Worker, NEW k \in Key, ClaimRejected(w, k)
      PROVE  UNCHANGED Promise!vars
  <2>1. cur' = cur
    BY <1>0, <1>6 DEF ClaimRejected, EndSweep, PcInv, Holding, TypeOK
  <2> QED BY <1>1, <1>6, <2>1 DEF ClaimRejected, db, history, HandedOf
\* A sweep that ends with its key in hand, or has sent it.
<1>7. ASSUME NEW w \in Worker, NEW k \in Key, cur[w] = k,
             cur' = [cur EXCEPT ![w] = NoKey],
             reminder' = reminder, pruned' = pruned, phantom' = phantom,
             \/ /\ ledger' = ledger
                /\ jobs' = jobs \/ jobs' = [jobs EXCEPT ![k] = @ + 1]
             \/ ledger' = ledger \ {k} /\ jobs' = jobs
      PROVE  Promise!Next
  <2>1. /\ StageOf(k) = "held"
        /\ \A j \in Key : j # k => StageOf(j)' = StageOf(j)
        /\ StageOf(k)' \in {"settled", "due"}
        /\ ledger' = ledger => StageOf(k)' = "settled"
    BY <1>7, LetGo
  <2>2. /\ jobs[k] \in Nat /\ phantom[k] \in Nat
        /\ jobs'[k] = jobs[k] \/ (ledger' = ledger /\ jobs'[k] = jobs[k] + 1)
        /\ \A j \in Key : j # k => jobs'[j] = jobs[j]
    BY <1>0, <1>7 DEF TypeOK
  <2>3. /\ \A j \in Key : j # k => Same(j)
        /\ \/ HandedOf(k)' = HandedOf(k)
           \/ ledger' = ledger /\ HandedOf(k)' = HandedOf(k) + 1
    BY <1>7, <2>1, <2>2 DEF HandedOf, Same
  <2> QED BY <2>1, <2>3, OneKeyStep
<1>8. ASSUME NEW w \in Worker, SendSucceeds(w) PROVE Promise!Next
  <2>1. cur[w] \in Key
    BY <1>0, <1>8 DEF SendSucceeds, PcInv, Holding, TypeOK
  <2> QED BY <1>7, <1>8, <2>1 DEF SendSucceeds, db, history
<1>9. ASSUME NEW w \in Worker, Compensate(w) \/ CompensationFails(w) PROVE Promise!Next
  <2>1. cur[w] \in Key
    BY <1>0, <1>9 DEF Compensate, CompensationFails, PcInv, Holding, TypeOK
  <2> QED BY <1>7, <1>9, <2>1 DEF Compensate, CompensationFails, EndSweep, db
<1>10. ASSUME NEW w \in Worker, SendThrows(w) PROVE UNCHANGED Promise!vars
  <2>1. \A k \in Key : HandedOf(k)' = HandedOf(k)
    <3>1. CASE UNCHANGED <<jobs, phantom>>
      BY <3>1 DEF HandedOf
    <3>2. CASE /\ jobs' = [jobs EXCEPT ![cur[w]] = @ + 1]
               /\ phantom' = [phantom EXCEPT ![cur[w]] = @ + 1]
      BY <1>0, <3>2 DEF HandedOf, TypeOK
    <3> QED BY <1>10, <3>1, <3>2 DEF SendThrows
  <2> QED BY <1>1, <1>10, <2>1 DEF SendThrows, db, sweep
<1>11. ASSUME NEW w \in Worker, FinishSweep(w) PROVE UNCHANGED Promise!vars
  <2>1. cur' = cur
    BY <1>0, <1>11 DEF FinishSweep, EndSweep, PcInv, Holding, TypeOK
  <2>2. ledger' \union pruned' = ledger \union pruned
    BY <1>11 DEF FinishSweep, Expired
  <2> QED BY <1>1, <1>11, <2>1, <2>2 DEF FinishSweep, db, HandedOf
<1>12. ASSUME NEW w \in Worker, Crash(w) PROVE [Promise!Next]_(Promise!vars)
  <2>1. CASE Holding(w)
    <3>1. cur[w] \in Key
      BY <1>0, <2>1 DEF Holding, TypeOK
    <3> QED BY <1>7, <1>12, <3>1 DEF Crash, EndSweep, db
  <2>2. CASE ~Holding(w)
    <3>1. cur' = cur /\ pc[w] # "sending"
      BY <1>0, <1>12, <2>2 DEF Crash, EndSweep, PcInv, Holding, TypeOK
    <3> QED BY <1>1, <1>12, <3>1 DEF Crash, db, HandedOf
  <2> QED BY <2>1, <2>2
<1> QED
  BY <1>2, <1>3, <1>4, <1>5, <1>6, <1>8, <1>9, <1>10, <1>11, <1>12 DEF Actions

\* The sweeper keeps ReminderPromise for all workers, reminders and faults: a key is
\* taken by one sweep at a time, handed over once, and never taken up once settled.
THEOREM PromiseKept == Spec => KeepsPromise
<1>1. Init => PrunedInv /\ Promise!Init
  <2> SUFFICES ASSUME Init PROVE PrunedInv /\ Promise!Init
    OBVIOUS
  <2>1. PrunedInv
    BY DEF Init, PrunedInv
  <2>2. ASSUME NEW k \in Key PROVE StageOf(k) = "due" /\ jobs[k] - phantom[k] = 0
    BY ConstantsAssumption, FireIsNat DEF Init, StageOf
  <2> QED BY <2>1, <2>2 DEF Promise!Init
<1>2. IInv => TypeOK /\ RowInv
  BY DEF IInv
<1>3. RInv <=> IInv /\ PrunedInv
  BY DEF RInv
<1> QED
  BY <1>1, <1>2, <1>3, InvariantHolds, PrunedStep, PromiseStep, PTL
  DEF Spec, KeepsPromise, Promise!Spec
===============================================================================

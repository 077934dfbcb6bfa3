------------------------------- MODULE MCSite --------------------------------
(* Billing, posts, delivery, the reads of a reminder sweep and the operator's*)
(* tools, each checked on an instance of its own: a behaviour of this module *)
(* is a behaviour of one of them, chosen at the start.  They share no state  *)
(* here: a name two components have in common stands for the one's that was  *)
(* chosen.                                                                   *)
EXTENDS Integers, Sequences, FiniteSets, FiniteSetsExt, TLAPS, FiniteSetTheorems,
        WellFoundedInduction

CONSTANTS
  None,
  Payer, Sub, Handler, MaxEvents,                    \* of Billing
  MaxFaults,                                         \* of Billing and SuppressionList
  Post, Author, Org, Call, Title, Manager, MaxOutages,   \* of PostBoard
  MaxVersion,                                        \* of PostBoard and PostCache
  Entry, Mutation, Draft,                            \* of PostCache
  MaxRows, PageSize, MaxDrops, MaxMarks,             \* of NotificationFeed
  Mailbox, Case, Lower, Notice,                      \* of SuppressionList
  Key, Limit, Window, PruneEvery, MaxNow, MaxAsks,   \* of RateLimit
  OneOff, Series, Slot, Instant, Grace, Cap, MaxClock, MaxEdits, MaxPassed,   \* of ReminderDue
  Doc, MaxRuns, MaxAdopts,                           \* of InitApp
  Database, Main, Scratch, Table, Console, MaxStamp, MaxWrites, MaxKills   \* of Backup

VARIABLES
  which,   \* the component this behaviour is a behaviour of
  missed, rows, faults, now, todo, edits, seen,   \* of more than one
  alive, stripe, session, customers, inOrder, row, events, made, busy, pending, deletion,
  toCancel, owed, wronged,
  posts, revisions, documents, settings, memo, calls, gone, outages,
  cache, fetch, muts, form,
  unread, unpublished, busUp, stream, wire, status, connected, pages, count, listFetch,
  countFetch, moreFetch, mark, marks, drops, tainted,
  type, to, due, acked, handling, rest,
  store, lastPrune, asks, granted, refused,
  startOf, live, exdates, override, claimed, at, found, stable, passed,
  env, title, shipped, changelog, text, pc, slimming, runs, atStart, last,
  data, exists, dumps, job, stamp, writes, kills, torn, taken

\* What only one component has.
billVars == <<alive, stripe, session, customers, inOrder, row, events, made, busy, pending,
              deletion, toCancel, owed, wronged>>
boardVars == <<posts, revisions, documents, settings, memo, calls, gone, outages>>
cacheVars == <<cache, fetch, muts, form>>
feedVars == <<unread, unpublished, busUp, stream, wire, status, connected, pages, count,
              listFetch, countFetch, moreFetch, mark, marks, drops, tainted>>
listVars == <<type, to, due, acked, handling, rest>>
limitVars == <<store, lastPrune, asks, granted, refused>>
dueVars == <<startOf, live, exdates, override, claimed, at, found, stable, passed>>
slimVars == <<env, title, shipped, changelog, text, pc, slimming, runs, atStart, last>>
backupVars == <<data, exists, dumps, job, stamp, writes, kills, torn, taken>>

vars == <<which, missed, rows, faults, now, todo, edits, seen, billVars, boardVars,
          cacheVars, feedVars, listVars, limitVars, dueVars, slimVars, backupVars>>

\* Users and organizations that pay, subscriptions, events that may come twice or late.
B == INSTANCE Billing WITH Owner <- Payer

\* Posts edited by their authors and by a manager, outages of the index.
P == INSTANCE PostBoard

\* Mutations in flight over a list of posts.
L == INSTANCE PostCache WITH Post <- Entry

\* Notifications in pages, connections that drop.
N == INSTANCE NotificationFeed WITH NoFetch <- None

\* Mailboxes written in any case, provider events, writes that fail.
D == INSTANCE SuppressionList WITH Event <- Notice, NoEvent <- None

\* Keys, a window, and the prune between them.
R == INSTANCE RateLimit

\* Events and series of slots, edits that cross the reads of a sweep.
Q == INSTANCE ReminderDue WITH MaxNow <- MaxClock

\* Documents the script keeps, runs any of which may be stopped.
I == INSTANCE InitApp WITH Kept <- Doc, MaxEdits <- MaxAdopts

\* The live and the scratch database, the terminals, the kills.
K == INSTANCE Backup WITH Terminal <- Console

\* What the components ask of the constants.
ASSUME ConstantsAssumption ==
  /\ B!Bounds /\ P!Bounds /\ L!Bounds /\ N!Bounds /\ D!Bounds
  /\ R!Bounds /\ Q!Bounds /\ I!Bounds /\ K!Bounds

\* The variables a component does not have stay as they began.
NoBill == /\ alive = 0 /\ stripe = 0 /\ session = 0 /\ customers = 0 /\ inOrder = 0
          /\ row = 0 /\ events = 0 /\ made = 0 /\ busy = 0 /\ pending = 0 /\ deletion = 0
          /\ toCancel = 0 /\ owed = 0 /\ wronged = 0
NoBoard == /\ posts = 0 /\ revisions = 0 /\ documents = 0 /\ settings = 0 /\ memo = 0
           /\ calls = 0 /\ gone = 0 /\ outages = 0
NoCache == /\ cache = 0 /\ fetch = 0 /\ muts = 0 /\ form = 0
NoFeed == /\ unread = 0 /\ unpublished = 0 /\ busUp = 0 /\ stream = 0 /\ wire = 0
          /\ status = 0 /\ connected = 0 /\ pages = 0 /\ count = 0 /\ listFetch = 0
          /\ countFetch = 0 /\ moreFetch = 0 /\ mark = 0 /\ marks = 0 /\ drops = 0
          /\ tainted = 0
NoList == /\ type = 0 /\ to = 0 /\ due = 0 /\ acked = 0 /\ handling = 0 /\ rest = 0
NoLimit == /\ store = 0 /\ lastPrune = 0 /\ asks = 0 /\ granted = 0 /\ refused = 0
NoDue == /\ startOf = 0 /\ live = 0 /\ exdates = 0 /\ override = 0 /\ claimed = 0 /\ at = 0
         /\ found = 0 /\ stable = 0 /\ passed = 0
NoSlim == /\ env = 0 /\ title = 0 /\ shipped = 0 /\ changelog = 0 /\ text = 0 /\ pc = 0
          /\ slimming = 0 /\ runs = 0 /\ atStart = 0 /\ last = 0
NoBackup == /\ data = 0 /\ exists = 0 /\ dumps = 0 /\ job = 0 /\ stamp = 0 /\ writes = 0
            /\ kills = 0 /\ torn = 0 /\ taken = 0

Init ==
  \/ /\ which = "Billing" /\ B!Init
     /\ NoBoard /\ NoCache /\ NoFeed /\ NoList /\ NoLimit /\ NoDue /\ NoSlim /\ NoBackup
     /\ rows = 0 /\ now = 0 /\ todo = 0 /\ edits = 0
  \/ /\ which = "PostBoard" /\ P!Init
     /\ NoBill /\ NoCache /\ NoFeed /\ NoList /\ NoLimit /\ NoDue /\ NoSlim /\ NoBackup
     /\ rows = 0 /\ faults = 0 /\ now = 0 /\ todo = 0 /\ edits = 0 /\ seen = 0
  \/ /\ which = "PostCache" /\ L!Init
     /\ NoBill /\ NoBoard /\ NoFeed /\ NoList /\ NoLimit /\ NoDue /\ NoSlim /\ NoBackup
     /\ missed = 0 /\ faults = 0 /\ now = 0 /\ todo = 0 /\ edits = 0 /\ seen = 0
  \/ /\ which = "NotificationFeed" /\ N!Init
     /\ NoBill /\ NoBoard /\ NoCache /\ NoList /\ NoLimit /\ NoDue /\ NoSlim /\ NoBackup
     /\ missed = 0 /\ faults = 0 /\ now = 0 /\ todo = 0 /\ edits = 0 /\ seen = 0
  \/ /\ which = "SuppressionList" /\ D!Init
     /\ NoBill /\ NoBoard /\ NoCache /\ NoFeed /\ NoLimit /\ NoDue /\ NoSlim /\ NoBackup
     /\ missed = 0 /\ now = 0 /\ todo = 0 /\ edits = 0 /\ seen = 0
  \/ /\ which = "RateLimit" /\ R!Init
     /\ NoBill /\ NoBoard /\ NoCache /\ NoFeed /\ NoList /\ NoDue /\ NoSlim /\ NoBackup
     /\ missed = 0 /\ rows = 0 /\ faults = 0 /\ todo = 0 /\ edits = 0 /\ seen = 0
  \/ /\ which = "ReminderDue" /\ Q!Init
     /\ NoBill /\ NoBoard /\ NoCache /\ NoFeed /\ NoList /\ NoLimit /\ NoSlim /\ NoBackup
     /\ missed = 0 /\ rows = 0 /\ faults = 0
  \/ /\ which = "InitApp" /\ I!Init
     /\ NoBill /\ NoBoard /\ NoCache /\ NoFeed /\ NoList /\ NoLimit /\ NoDue /\ NoBackup
     /\ missed = 0 /\ rows = 0 /\ faults = 0 /\ now = 0 /\ seen = 0
  \/ /\ which = "Backup" /\ K!Init
     /\ NoBill /\ NoBoard /\ NoCache /\ NoFeed /\ NoList /\ NoLimit /\ NoDue /\ NoSlim
     /\ missed = 0 /\ rows = 0 /\ faults = 0 /\ now = 0 /\ todo = 0 /\ edits = 0 /\ seen = 0

Next ==
  \/ /\ which = "Billing" /\ B!Next
     /\ UNCHANGED <<which, rows, now, todo, edits, boardVars, cacheVars, feedVars, listVars,
                    limitVars, dueVars, slimVars, backupVars>>
  \/ /\ which = "PostBoard" /\ P!Next
     /\ UNCHANGED <<which, rows, faults, now, todo, edits, seen, billVars, cacheVars,
                    feedVars, listVars, limitVars, dueVars, slimVars, backupVars>>
  \/ /\ which = "PostCache" /\ L!Next
     /\ UNCHANGED <<which, missed, faults, now, todo, edits, seen, billVars, boardVars,
                    feedVars, listVars, limitVars, dueVars, slimVars, backupVars>>
  \/ /\ which = "NotificationFeed" /\ N!Next
     /\ UNCHANGED <<which, missed, faults, now, todo, edits, seen, billVars, boardVars,
                    cacheVars, listVars, limitVars, dueVars, slimVars, backupVars>>
  \/ /\ which = "SuppressionList" /\ D!Next
     /\ UNCHANGED <<which, missed, now, todo, edits, seen, billVars, boardVars, cacheVars,
                    feedVars, limitVars, dueVars, slimVars, backupVars>>
  \/ /\ which = "RateLimit" /\ R!Next
     /\ UNCHANGED <<which, missed, rows, faults, todo, edits, seen, billVars, boardVars,
                    cacheVars, feedVars, listVars, dueVars, slimVars, backupVars>>
  \/ /\ which = "ReminderDue" /\ Q!Next
     /\ UNCHANGED <<which, missed, rows, faults, billVars, boardVars, cacheVars, feedVars,
                    listVars, limitVars, slimVars, backupVars>>
  \/ /\ which = "InitApp" /\ I!Next
     /\ UNCHANGED <<which, missed, rows, faults, now, seen, billVars, boardVars, cacheVars,
                    feedVars, listVars, limitVars, dueVars, backupVars>>
  \/ /\ which = "Backup" /\ K!Next
     /\ UNCHANGED <<which, missed, rows, faults, now, todo, edits, seen, billVars,
                    boardVars, cacheVars, feedVars, listVars, limitVars, dueVars, slimVars>>

Spec == Init /\ [][Next]_vars

------------------------------------------------------------------------------

\* At rest the subscription rows are what Stripe holds, the entitled pay, no row is another
\* owner's, what a deleted account owed is cancelled, and no live owner's is.
BillingHolds ==
  which = "Billing" =>
    /\ B!TypeOK
    /\ B!SettlesOnTruth
    /\ B!EntitledPay
    /\ B!RowsHaveTheirOwner
    /\ B!OwedIsCancelled
    /\ B!LiveOwnersAreSpared

\* A post's history has a revision per version, the search index follows the rows once its
\* writes are in, and no document is written before the settings it needs.
PostsHold ==
  which = "PostBoard" =>
    /\ P!TypeOK
    /\ P!HistoryIsWhole
    /\ P!SearchFollows
    /\ P!PinnedBeforeFirst

\* What a page shows at rest is what the tables hold, however optimistic writes, fetches
\* and pushed events crossed, and no row is shown twice.
CachesHold ==
  /\ which = "PostCache" =>
       /\ L!TypeOK
       /\ L!SettledListIsTrue
  /\ which = "NotificationFeed" =>
       /\ N!TypeOK
       /\ N!NoRowTwice
       /\ N!RestingFeedIsTrue

\* An event the provider was told is recorded suppresses its address, and only cause
\* suppresses; no key is granted more than twice its limit in a window and none is refused
\* unearned.
DeliveryHolds ==
  /\ which = "SuppressionList" =>
       /\ D!TypeOK
       /\ D!AckedIsSuppressed
       /\ D!SuppressedForCause
  /\ which = "RateLimit" =>
       /\ R!TypeOK
       /\ R!TwiceTheLimit
       /\ R!RefusalIsEarned

\* A sweep finds every delivery that was due and untouched for its whole read, and with no
\* edit during the read it finds exactly what is due.
DueIsExact ==
  which = "ReminderDue" =>
    /\ Q!TypeOK
    /\ Q!UntouchedIsFound
    /\ Q!QuietReadIsExact

\* At rest after a completed slim run nothing it keeps points into what it removed, however
\* many earlier runs were stopped half way, and every dump no kill tore is whole.
ToolsRest ==
  /\ which = "InitApp" =>
       /\ I!TypeOK
       /\ I!SlimIsMadeGood
  /\ which = "Backup" =>
       /\ K!TypeOK
       /\ K!RestingDumpsAreWhole

\* A tool run again or run wrongly spares what is not its own: the adopter's environment
\* and a finished slim run, the live database and the latest dump.
ToolsSpare ==
  [][/\ which = "InitApp" =>
          /\ I!OwnEnvSurvivesStep
          /\ I!SecondRunIsQuietStep
     /\ which = "Backup" =>
          /\ K!ScratchSparesTheLiveStep
          /\ K!LatestIsTheLastTakenStep]_vars

------------------------------------------------------------------------------
(* Sets of numbers.                                                          *)

\* A set of naturals has a least element.
LEMMA LeastNatural ==
  ASSUME NEW T \in SUBSET Nat, T # {}
  PROVE  \E x \in T : \A y \in T : x <= y
<1>1. PICK x \in T : \A y \in T : ~(<<y, x>> \in OpToRel(<, Nat))
  BY NatLessThanWellFounded, WFMin
<1>2. \A y \in T : ~(y < x)
  BY <1>1 DEF OpToRel
<1>3. \A y \in T : x <= y
  BY <1>2
<1> QED BY <1>3

\* A set of naturals with a bound has a greatest element.
LEMMA GreatestNatural ==
  ASSUME NEW S \in SUBSET Nat, S # {}, NEW n \in Nat, \A x \in S : x <= n
  PROVE  \E x \in S : \A y \in S : y <= x
<1> DEFINE T == {n - x : x \in S}
<1>1. T \in SUBSET Nat
  <2>1. \A x \in S : n - x \in Nat
    OBVIOUS
  <2> QED BY <2>1
<1>2. T # {}
  OBVIOUS
<1>3. PICK t \in T : \A y \in T : t <= y
  BY <1>1, <1>2, LeastNatural
<1>4. PICK g \in S : t = n - g
  BY <1>3
<1>5. \A x \in S : t <= n - x
  BY <1>3
<1>6. g \in Nat /\ \A x \in S : x \in Nat
  OBVIOUS
<1> QED BY <1>4, <1>5, <1>6

------------------------------------------------------------------------------
(* Billing.                                                                  *)

\* Billing counts as this module does.
LEMMA CountingOfRows ==
  ASSUME NEW S
  PROVE  /\ B!IsFiniteSet(S) <=> IsFiniteSet(S)
         /\ B!Cardinality(S) = Cardinality(S) /\ B!Max(S) = Max(S)
<1>1. B!IsFiniteSet(S) <=> IsFiniteSet(S)
  BY DEF B!IsFiniteSet, IsFiniteSet
<1>2. B!Cardinality(S) = Cardinality(S)
  BY DEF B!Cardinality, Cardinality, B!IsFiniteSet, IsFiniteSet
<1>3. B!Max(S) = Max(S)
  BY DEF B!Max, Max
<1> QED BY <1>1, <1>2, <1>3

\* No customer has paid, no event has been made and no account is being deleted.
LEMMA BillingBegins == B!Bounds /\ B!Init => B!BillingInv
<1> SUFFICES ASSUME B!Bounds, B!Init PROVE B!BillingInv
  OBVIOUS
<1>1. B!RecordsAreTyped
  <2>1. alive \in [Payer -> BOOLEAN] /\ inOrder \in BOOLEAN
    BY DEF B!Init
  <2>2. stripe \in [Sub -> B!Status \cup {"none"}] /\ session \in [Sub -> B!Session \cup {None}]
        /\ row \in [Sub -> B!SubRow \cup {None}]
    BY DEF B!Init
  <2>3. busy \in [Handler -> B!Event \cup {None}] /\ seen \in [Handler -> B!Status \cup {None}]
    BY DEF B!Init
  <2>4. pending \in [Payer -> SUBSET Sub] /\ owed \in [Payer -> SUBSET Sub]
        /\ deletion \in [Payer -> {"no", "captured", "gone", "over"}]
    BY DEF B!Init
  <2> QED BY <2>1, <2>2, <2>3, <2>4 DEF B!RecordsAreTyped, B!Init
<1>2. B!PaidFor
  BY DEF B!Init, B!PaidFor
<1>3. B!RowsHaveTheirOwner /\ B!RowsAreCounted /\ B!EventsAreNumbered
  BY DEF B!Init, B!RowsHaveTheirOwner, B!RowsAreCounted, B!EventsAreNumbered
<1>4. B!OneAtATime /\ B!SeenInHand /\ B!TruthIsOnTheWay
  BY DEF B!Init, B!OneAtATime, B!SeenInHand, B!TruthIsOnTheWay
<1>5. B!OwedIsHandedOver /\ B!JobsAreForTheGone /\ B!LiveOwnersAreSpared
  BY DEF B!Init, B!OwedIsHandedOver, B!JobsAreForTheGone, B!LiveOwnersAreSpared
<1> QED BY <1>1, <1>2, <1>3, <1>4, <1>5 DEF B!BillingInv

\* The subscriptions that ever had a row are a finite number.
LEMMA RowsAreFew ==
  ASSUME B!Bounds
  PROVE  IsFiniteSet(B!HadARow) /\ Cardinality(B!HadARow) \in Nat
         /\ Cardinality(B!HadARow) <= Cardinality(Sub)
<1>1. B!HadARow \in SUBSET Sub
  BY DEF B!HadARow
<1>2. IsFiniteSet(B!HadARow) /\ Cardinality(B!HadARow) <= Cardinality(Sub)
  BY <1>1, CountingOfRows, FS_Subset DEF B!Bounds
<1> QED BY <1>2, FS_CardinalityType

\* latestSubscriptionFor: an owner with a row has a newest one.
LEMMA LatestIsARow ==
  ASSUME B!Bounds, B!BillingInv, NEW o \in Payer, B!RowsOf(o) # {}
  PROVE  B!LatestRow(o) \in B!RowsOf(o)
<1> DEFINE Ats == {row[s].at : s \in B!RowsOf(o)}
<1>1. \A s \in B!RowsOf(o) : row[s].at \in Nat /\ row[s].at <= Cardinality(B!HadARow)
  BY RowsAreFew, CountingOfRows DEF B!BillingInv, B!RowsAreCounted, B!RowsOf
<1>2. Ats \in SUBSET Nat /\ Ats # {} /\ \A a \in Ats : a <= Cardinality(B!HadARow)
  BY <1>1
<1>3. PICK newest \in Ats : \A a \in Ats : a <= newest
  BY <1>2, RowsAreFew, GreatestNatural
<1>4. PICK s \in B!RowsOf(o) : newest = row[s].at
  BY <1>3
<1>5. \A t \in B!RowsOf(o) : row[s].at >= row[t].at
  BY <1>1, <1>3, <1>4
<1> QED BY <1>5 DEF B!LatestRow

\* A row that is inserted comes after those that are there, and is counted.
LEMMA NextRowIsNew ==
  ASSUME B!Bounds, B!BillingInv
  PROVE  B!NextRow \in 1 .. (Cardinality(B!HadARow) + 1)
<1> DEFINE Ats == {row[s].at : s \in B!Rows}
<1>1. \A s \in B!Rows : row[s].at \in 1 .. Cardinality(B!HadARow)
  BY CountingOfRows DEF B!BillingInv, B!RowsAreCounted, B!Rows
<1>2. CASE B!Rows = {}
  BY <1>2, RowsAreFew DEF B!NextRow
<1>3. CASE B!Rows # {}
  <2>1. Ats \in SUBSET Nat /\ Ats # {} /\ \A a \in Ats : a <= Cardinality(B!HadARow)
    BY <1>1, <1>3, RowsAreFew
  <2>2. \E newest \in Ats : \A a \in Ats : newest >= a
    <3>1. PICK newest \in Ats : \A a \in Ats : a <= newest
      BY <2>1, RowsAreFew, GreatestNatural
    <3> QED BY <2>1, <3>1
  <2>3. Max(Ats) \in Ats
    BY <2>2 DEF Max
  <2>4. B!NextRow = 1 + Max(Ats)
    BY <1>3, CountingOfRows DEF B!NextRow
  <2> QED BY <1>1, <2>1, <2>3, <2>4, RowsAreFew
<1> QED BY <1>2, <1>3

\* Stripe numbers the events it makes one by one, after those it made.
LEMMA EventsAreMade ==
  ASSUME B!Bounds, NEW ts \in SUBSET B!EventType, IsFiniteSet(ts), ts # {},
         NEW s \in Sub, NEW becomes \in B!Status,
         made \in Nat, events \subseteq B!Event, B!Emit(ts, s, becomes)
  PROVE  /\ made' \in Nat /\ made < made' /\ events \subseteq events'
         /\ \A e \in events' \ events :
              /\ e \in B!Event /\ e.n \in (made + 1) .. made' /\ e.sub = s /\ e.status = becomes
              /\ e.type \in ts
         /\ \A e, f \in events' \ events : e.n = f.n => e = f
         /\ \A k \in ts : \E e \in events' : e.sub = s /\ e.type = k /\ e.n > made
<1>1. Cardinality(ts) \in Nat /\ Cardinality(ts) # 0
  BY FS_CardinalityType, FS_EmptySet
<1>2. made' = made + Cardinality(ts)
  BY CountingOfRows DEF B!Emit
<1>3. PICK number \in [ts -> (made + 1) .. made'] :
        /\ \A t, u \in ts : number[t] = number[u] => t = u
        /\ events' = events \cup
             {[n |-> number[t], type |-> t, sub |-> s, status |-> becomes] : t \in ts}
  BY <1>2, CountingOfRows DEF B!Emit
<1> DEFINE New(t) == [n |-> number[t], type |-> t, sub |-> s, status |-> becomes]
<1>4. \A t \in ts : /\ New(t) \in B!Event /\ New(t).n \in (made + 1) .. made'
        /\ New(t).n = number[t]
                    /\ New(t).sub = s /\ New(t).status = becomes /\ New(t).type = t
  BY <1>1, <1>2, <1>3 DEF B!Event
<1>5. events' = events \cup {New(t) : t \in ts}
  BY <1>3
<1> HIDE DEF New
<1>6. \A e \in events' \ events : \E t \in ts : e = New(t)
  BY <1>5
<1>7. \A t \in ts : New(t) \in events' /\ New(t).n > made
  BY <1>1, <1>2, <1>4, <1>5
<1>8. \A e, f \in events' \ events : e.n = f.n => e = f
  BY <1>3, <1>4, <1>6
<1>9. \A e \in events' \ events :
        /\ e \in B!Event /\ e.n \in (made + 1) .. made' /\ e.sub = s /\ e.status = becomes
        /\ e.type \in ts
  BY <1>4, <1>6
<1>10. \A k \in ts : \E e \in events' : e.sub = s /\ e.type = k /\ e.n > made
  BY <1>4, <1>7
<1> QED BY <1>1, <1>2, <1>5, <1>8, <1>9, <1>10

\* What the owners' hooks keep when no deletion moves: Stripe may cancel, a checkout may begin.
LEMMA HooksStay ==
  ASSUME B!BillingInv,
         UNCHANGED <<alive, pending, deletion, toCancel, owed, missed, wronged>>,
         \A s \in Sub : session[s] # None => session'[s] = session[s],
         \A s \in Sub : stripe[s] = "canceled" => stripe'[s] = "canceled"
  PROVE  B!OwedIsHandedOver' /\ B!JobsAreForTheGone' /\ B!LiveOwnersAreSpared'
<1>1. \A o \in Payer : pending[o] \subseteq Sub /\ owed[o] \subseteq Sub
  BY DEF B!BillingInv, B!RecordsAreTyped
<1>2. B!OwedIsHandedOver'
  BY <1>1 DEF B!BillingInv, B!OwedIsHandedOver
<1>3. B!JobsAreForTheGone' /\ B!LiveOwnersAreSpared'
  BY DEF B!BillingInv, B!RecordsAreTyped, B!JobsAreForTheGone, B!LiveOwnersAreSpared
<1> QED BY <1>2, <1>3

\* What is known of the rows and of the events stays when neither they nor the handlers move.
LEMMA TruthStays ==
  ASSUME B!BillingInv,
         UNCHANGED <<alive, stripe, session, inOrder, row, events, made, busy, seen>>
  PROVE  /\ B!PaidFor' /\ B!RowsHaveTheirOwner' /\ B!RowsAreCounted'
         /\ B!EventsAreNumbered' /\ B!OneAtATime' /\ B!SeenInHand' /\ B!TruthIsOnTheWay'
<1>1. B!PaidFor' /\ B!RowsHaveTheirOwner' /\ B!EventsAreNumbered'
  BY DEF B!BillingInv, B!PaidFor, B!RowsHaveTheirOwner, B!EventsAreNumbered
<1>2. B!HadARow' = B!HadARow
  BY DEF B!HadARow
<1>3. B!RowsAreCounted'
  BY <1>2 DEF B!BillingInv, B!RowsAreCounted
<1>4. B!OneAtATime' /\ B!SeenInHand'
  BY DEF B!BillingInv, B!OneAtATime, B!Oldest, B!SeenInHand
<1>5. B!TruthIsOnTheWay'
  BY DEF B!BillingInv, B!TruthIsOnTheWay, B!LastOf, B!Retrieves
<1> QED BY <1>1, <1>3, <1>4, <1>5

\* A checkout begins (server/actions/billing.ts): the session is new.
LEMMA CheckoutStep ==
  ASSUME B!Bounds, B!BillingInv, NEW o \in Payer, NEW s \in Sub, B!Checkout(o, s)
  PROVE  B!BillingInv'
<1>1. PICK paid : paid = [owner |-> o, customer |-> IF B!RowsOf(o) # {}
                                                     THEN row[B!LatestRow(o)].customer
                                                     ELSE customers + 1]
  OBVIOUS
<1>2. /\ alive[o] /\ session[s] = None /\ session' = [session EXCEPT ![s] = paid]
      /\ customers' \in {customers, customers + 1}
      /\ UNCHANGED <<inOrder, alive, pending, deletion, toCancel, stripe, row, events, made,
                     busy, seen, owed, missed, wronged, faults>>
  BY <1>1 DEF B!Checkout, B!hooks, B!hook, B!history
<1>3. paid \in B!Session
  <2>1. B!RowsOf(o) # {} => row[B!LatestRow(o)].customer \in Nat
    <3> SUFFICES ASSUME B!RowsOf(o) # {} PROVE row[B!LatestRow(o)].customer \in Nat
      OBVIOUS
    <3>1. B!LatestRow(o) \in Sub /\ row[B!LatestRow(o)] # None
      BY LatestIsARow DEF B!RowsOf
    <3>2. row[B!LatestRow(o)] \in B!SubRow
      BY <3>1 DEF B!BillingInv, B!RecordsAreTyped
    <3> QED BY <3>2 DEF B!SubRow
  <2>2. customers + 1 \in Nat
    BY DEF B!BillingInv, B!RecordsAreTyped
  <2> QED BY <1>1, <2>1, <2>2 DEF B!Session
<1>4. session' \in [Sub -> B!Session \cup {None}] /\ session'[s] = paid /\ paid # None
      /\ (\A r \in Sub : r # s => session'[r] = session[r]) /\ paid.owner = o
  BY <1>1, <1>2, <1>3 DEF B!BillingInv, B!RecordsAreTyped, B!Bounds
<1>5. stripe[s] = "none" /\ row[s] = None
  BY <1>2 DEF B!BillingInv, B!PaidFor
<1>6. B!RecordsAreTyped'
  <2>1. customers' \in Nat
    BY <1>2 DEF B!BillingInv, B!RecordsAreTyped
  <2> QED BY <1>2, <1>4, <2>1 DEF B!BillingInv, B!RecordsAreTyped
<1>7. B!PaidFor' /\ B!RowsHaveTheirOwner' /\ B!EventsAreNumbered'
  BY <1>2, <1>4, <1>5 DEF B!BillingInv, B!PaidFor, B!RowsHaveTheirOwner, B!EventsAreNumbered
<1>8. B!HadARow' = B!HadARow
  BY <1>2, <1>4, <1>5 DEF B!HadARow
<1>9. B!RowsAreCounted'
  BY <1>2, <1>8 DEF B!BillingInv, B!RowsAreCounted
<1>10. B!OneAtATime' /\ B!SeenInHand'
  BY <1>2 DEF B!BillingInv, B!OneAtATime, B!Oldest, B!SeenInHand
<1>11. B!TruthIsOnTheWay'
  BY <1>2, <1>4, <1>5 DEF B!BillingInv, B!TruthIsOnTheWay, B!LastOf, B!Retrieves
<1>12. B!OwedIsHandedOver' /\ B!JobsAreForTheGone' /\ B!LiveOwnersAreSpared'
  BY <1>2, <1>4, HooksStay
<1> QED BY <1>6, <1>7, <1>9, <1>10, <1>11, <1>12 DEF B!BillingInv

\* Stripe moves (Pay, Move) or a job cancels: the events it makes are the newest of the
\* subscription, and say what became of it.
LEMMA MadeEventsTell ==
  ASSUME B!Bounds, B!BillingInv, NEW s \in Sub, NEW becomes \in B!Status,
         NEW ts \in SUBSET B!EventType, IsFiniteSet(ts), ts # {}, session[s] # None,
         stripe[s] = "none" /\ alive[session[s].owner] => "completed" \in ts,
         B!Emit(ts, s, becomes), stripe' = [stripe EXCEPT ![s] = becomes],
         UNCHANGED <<alive, session, inOrder, row, busy, seen>>
  PROVE  /\ made' \in Nat /\ events' \subseteq B!Event
         /\ stripe' \in [Sub -> B!Status \cup {"none"}]
         /\ B!PaidFor' /\ B!RowsHaveTheirOwner' /\ B!RowsAreCounted'
         /\ B!EventsAreNumbered' /\ B!OneAtATime' /\ B!SeenInHand' /\ B!TruthIsOnTheWay'
<1>1. made \in Nat /\ events \subseteq B!Event
  BY DEF B!BillingInv, B!RecordsAreTyped
<1>2. /\ made' \in Nat /\ made < made' /\ events \subseteq events'
      /\ \A e \in events' \ events :
           /\ e \in B!Event /\ e.n \in (made + 1) .. made' /\ e.sub = s /\ e.status = becomes
           /\ e.type \in ts
      /\ \A e, f \in events' \ events : e.n = f.n => e = f
      /\ \A k \in ts : \E e \in events' : e.sub = s /\ e.type = k /\ e.n > made
  BY <1>1, EventsAreMade
<1>3. stripe' \in [Sub -> B!Status \cup {"none"}] /\ stripe'[s] = becomes
      /\ (\A r \in Sub : r # s => stripe'[r] = stripe[r]) /\ becomes # "none"
  BY DEF B!BillingInv, B!RecordsAreTyped, B!Status
<1>4. \A e \in events : e.n \in Nat /\ e.n <= made /\ e.n >= 1 /\ e.sub \in Sub
  BY <1>1 DEF B!BillingInv, B!EventsAreNumbered, B!Event
<1>5. events' \subseteq B!Event
  BY <1>1, <1>2
<1>6. B!PaidFor'
  <2>1. \A r \in Sub : stripe'[r] # "none" => session[r] # None
    BY <1>3 DEF B!BillingInv, B!PaidFor
  <2>2. \A r \in Sub : row[r] # None => stripe'[r] # "none"
    BY <1>3 DEF B!BillingInv, B!PaidFor
  <2>3. \A e \in events' : stripe'[e.sub] # "none"
    <3>1. \A e \in events : stripe'[e.sub] # "none"
      BY <1>3, <1>4 DEF B!BillingInv, B!PaidFor
    <3> QED BY <1>2, <1>3, <3>1
  <2>4. \A g \in Handler : busy[g] # None => stripe'[busy[g].sub] # "none"
    <3>1. \A g \in Handler : busy[g] # None => busy[g].sub \in Sub
      BY DEF B!BillingInv, B!RecordsAreTyped, B!Event
    <3> QED BY <1>3, <3>1 DEF B!BillingInv, B!PaidFor
  <2> QED BY <2>1, <2>2, <2>3, <2>4 DEF B!PaidFor
<1>7. B!RowsHaveTheirOwner'
  BY DEF B!BillingInv, B!RowsHaveTheirOwner
<1>8. B!HadARow' = B!HadARow
  BY DEF B!HadARow
<1>9. B!RowsAreCounted'
  BY <1>8 DEF B!BillingInv, B!RowsAreCounted
<1>10. B!EventsAreNumbered'
  <2>1. \A e \in events' : e.n \in 1 .. made'
    BY <1>1, <1>2, <1>4
  <2>2. \A e, f \in events' : e.n = f.n => e = f
    BY <1>1, <1>2, <1>4 DEF B!BillingInv, B!EventsAreNumbered
  <2> QED BY <2>1, <2>2 DEF B!EventsAreNumbered
<1>11. B!OneAtATime'
  <2>1. ASSUME NEW g \in Handler, busy[g] \in events, B!Oldest(busy[g])
        PROVE  \A f \in events' : busy[g].n <= f.n
    BY <1>1, <1>2, <1>4, <2>1 DEF B!Oldest
  <2> QED BY <1>2, <2>1 DEF B!BillingInv, B!OneAtATime, B!Oldest
<1>13. B!SeenInHand'
  BY DEF B!BillingInv, B!SeenInHand
<1>12. B!TruthIsOnTheWay'
  <2> SUFFICES ASSUME inOrder, NEW r \in Sub, stripe'[r] # "none", alive[session[r].owner]
               PROVE  /\ row[r] # None \/ \E e \in events' : e.sub = r /\ e.type = "completed"
                      /\ \/ \E e \in events' : e.sub = r
                         \/ row[r] # None /\ row[r].status = stripe'[r]
                      /\ \A e \in events' : B!LastOf(r, e)' =>
                           /\ B!Retrieves(e) \/ e.status = stripe'[r]
                           /\ \A g \in Handler : busy[g] = e /\ seen[g] # None
                                                 => seen[g] = stripe'[r]
    BY DEF B!TruthIsOnTheWay, B!Retrieves
  <2>1. CASE r # s
    <3>1. stripe'[r] = stripe[r] /\ \A e \in events' : e.sub = r => e \in events
      BY <1>2, <1>3, <2>1
    <3>2. \A e \in events' : B!LastOf(r, e)' => B!LastOf(r, e)
      BY <1>2, <3>1 DEF B!LastOf
    <3>3. \A e \in events' : B!LastOf(r, e)' => e \in events
      BY <3>1 DEF B!LastOf
    <3> QED BY <1>2, <3>1, <3>2, <3>3 DEF B!BillingInv, B!TruthIsOnTheWay
  <2>2. CASE r = s
    <3>1. PICK k \in ts : TRUE
      OBVIOUS
    <3>2. PICK newest \in events' : newest.sub = s /\ newest.n > made
      BY <1>2, <3>1
    <3>3. row[r] # None \/ \E e \in events' : e.sub = r /\ e.type = "completed"
      BY <1>2, <2>2 DEF B!BillingInv, B!TruthIsOnTheWay
    <3>4. ASSUME NEW e \in events', B!LastOf(r, e)' PROVE e \in events' \ events
      BY <1>1, <1>2, <1>4, <2>2, <3>2, <3>4 DEF B!LastOf
    <3>5. \A g \in Handler : busy[g] # None => busy[g] \in events
      BY DEF B!BillingInv, B!OneAtATime
    <3>6. \A e \in events' : e # None
      BY <1>5 DEF B!Bounds
    <3> QED BY <1>2, <1>3, <2>2, <3>2, <3>3, <3>4, <3>5, <3>6
  <2> QED BY <2>1, <2>2
<1> QED BY <1>2, <1>3, <1>5, <1>6, <1>7, <1>9, <1>10, <1>11, <1>12, <1>13

\* The buyer pays, a payment fails or is made up for, the subscription ends.
LEMMA StripeStep ==
  ASSUME B!Bounds, B!BillingInv, NEW s \in Sub,
         B!Pay(s) \/ \E becomes \in B!Status : B!Move(s, becomes)
  PROVE  B!BillingInv'
<1>1. PICK becomes \in B!Status, ts \in SUBSET B!EventType :
        /\ IsFiniteSet(ts) /\ ts # {} /\ B!Emit(ts, s, becomes)
        /\ session[s] # None /\ stripe[s] # "canceled"
        /\ stripe[s] = "none" => "completed" \in ts
        /\ stripe' = [stripe EXCEPT ![s] = becomes]
        /\ UNCHANGED <<alive, pending, deletion, toCancel, session, customers, inOrder, row,
                       busy, seen, owed, missed, wronged, faults>>
  <2>1. /\ IsFiniteSet({"completed"}) /\ IsFiniteSet({"updated"}) /\ IsFiniteSet({"deleted"})
        /\ IsFiniteSet({"invoice"} \cup {"updated"})
        /\ {"invoice"} \cup {"updated"} = {"invoice", "updated"}
    BY FS_Singleton, FS_AddElement
  <2>2. CASE B!Pay(s)
    <3>1. "active" \in B!Status /\ {"completed"} \in SUBSET B!EventType
      BY DEF B!Status, B!EventType
    <3> QED BY <2>1, <2>2, <3>1 DEF B!Pay, B!hooks, B!shop, B!hook, B!history
  <2>3. ASSUME NEW becomes \in B!Status, B!Move(s, becomes)
        PROVE  \E ts \in SUBSET B!EventType :
                 /\ IsFiniteSet(ts) /\ ts # {} /\ B!Emit(ts, s, becomes)
                 /\ session[s] # None /\ stripe[s] # "canceled" /\ stripe[s] # "none"
                 /\ stripe' = [stripe EXCEPT ![s] = becomes]
                 /\ UNCHANGED <<alive, pending, deletion, toCancel, session, customers, inOrder,
                                row, busy, seen, owed, missed, wronged, faults>>
    <3> DEFINE ts == CASE becomes = "past_due" -> {"invoice", "updated"}
                      [] becomes = "active"   -> {"updated"}
                      [] becomes = "canceled" -> {"deleted"}
    <3>1. ts \in SUBSET B!EventType /\ IsFiniteSet(ts) /\ ts # {}
      BY <2>1 DEF B!Status, B!EventType
    <3>2. stripe[s] # "canceled" /\ stripe[s] # "none" /\ session[s] # None
      BY <2>3 DEF B!Move, B!Status, B!Terminal, B!BillingInv, B!PaidFor
    <3>3. B!Emit(ts, s, becomes) /\ stripe' = [stripe EXCEPT ![s] = becomes]
          /\ UNCHANGED <<alive, pending, deletion, toCancel, session, customers, inOrder,
                         row, busy, seen, owed, missed, wronged, faults>>
      BY <2>3 DEF B!Move, B!hooks, B!shop, B!hook, B!history
    <3> QED BY <3>1, <3>2, <3>3
  <2> QED BY <2>2, <2>3
<1>2. /\ made' \in Nat /\ events' \subseteq B!Event /\ stripe' \in [Sub -> B!Status \cup {"none"}]
      /\ B!PaidFor' /\ B!RowsHaveTheirOwner' /\ B!RowsAreCounted'
      /\ B!EventsAreNumbered' /\ B!OneAtATime' /\ B!SeenInHand' /\ B!TruthIsOnTheWay'
  BY <1>1, MadeEventsTell
<1>3. B!RecordsAreTyped'
  BY <1>1, <1>2 DEF B!BillingInv, B!RecordsAreTyped
<1>4. \A r \in Sub : stripe[r] = "canceled" => stripe'[r] = "canceled"
  BY <1>1 DEF B!BillingInv, B!RecordsAreTyped
<1>5. B!OwedIsHandedOver' /\ B!JobsAreForTheGone' /\ B!LiveOwnersAreSpared'
  BY <1>1, <1>4, HooksStay
<1> QED BY <1>2, <1>3, <1>5 DEF B!BillingInv

\* handleCancelStripeSubscriptions: a job cancels for an owner who is gone.
LEMMA CancelStep ==
  ASSUME B!Bounds, B!BillingInv, NEW s \in Sub, B!Cancel(s)
  PROVE  B!BillingInv'
<1>1. /\ s \in toCancel /\ toCancel' = toCancel \ {s}
      /\ wronged' = (IF alive[session[s].owner] THEN wronged \cup {s} ELSE wronged)
      /\ UNCHANGED <<alive, pending, deletion, session, customers, inOrder, row, busy, seen,
                     owed, missed, faults>>
  BY DEF B!Cancel, B!shop, B!hook
<1>2. session[s] # None /\ ~alive[session[s].owner]
  BY <1>1 DEF B!BillingInv, B!JobsAreForTheGone
<1>3. /\ made' \in Nat /\ events' \subseteq B!Event /\ stripe' \in [Sub -> B!Status \cup {"none"}]
      /\ B!PaidFor' /\ B!RowsHaveTheirOwner' /\ B!RowsAreCounted'
      /\ B!EventsAreNumbered' /\ B!OneAtATime' /\ B!SeenInHand' /\ B!TruthIsOnTheWay'
      /\ stripe'[s] = "canceled" /\ \A r \in Sub : stripe[r] = "canceled" => stripe'[r] = "canceled"
  <2>1. CASE stripe[s] \in B!Terminal
    <3>1. UNCHANGED <<stripe, events, made>>
      BY <2>1 DEF B!Cancel
    <3> QED BY <1>1, <2>1, <3>1, TruthStays DEF B!Terminal, B!BillingInv, B!RecordsAreTyped
  <2>2. CASE stripe[s] \notin B!Terminal
    <3>1. stripe' = [stripe EXCEPT ![s] = "canceled"] /\ B!Emit({"deleted"}, s, "canceled")
      BY <2>2 DEF B!Cancel
    <3>2. IsFiniteSet({"deleted"}) /\ {"deleted"} \in SUBSET B!EventType /\ "canceled" \in B!Status
      BY FS_Singleton DEF B!EventType, B!Status
    <3>3. stripe'[s] = "canceled" /\ \A r \in Sub : stripe[r] = "canceled" =>
            stripe'[r] = "canceled"
      BY <3>1 DEF B!BillingInv, B!RecordsAreTyped
    <3> QED BY <1>1, <1>2, <3>1, <3>2, <3>3, MadeEventsTell
  <2> QED BY <2>1, <2>2
<1>4. B!RecordsAreTyped'
  BY <1>1, <1>3 DEF B!BillingInv, B!RecordsAreTyped
<1>5. B!OwedIsHandedOver'
  BY <1>1, <1>3 DEF B!BillingInv, B!RecordsAreTyped, B!OwedIsHandedOver
<1>6. B!JobsAreForTheGone' /\ B!LiveOwnersAreSpared'
  BY <1>1, <1>2 DEF B!BillingInv, B!RecordsAreTyped, B!JobsAreForTheGone, B!LiveOwnersAreSpared
<1> QED BY <1>3, <1>4, <1>5, <1>6 DEF B!BillingInv

-----------------------------------------------------------------------------
\* A handler takes an event in hand, or retrieves from Stripe what the event is about.
LEMMA ReceiveStep ==
  ASSUME B!Bounds, B!BillingInv, NEW g \in Handler, NEW e \in events, B!Receive(g, e)
  PROVE  B!BillingInv'
<1>1. /\ busy[g] = None /\ busy' = [busy EXCEPT ![g] = e]
      /\ inOrder => B!Oldest(e) /\ \A k \in Handler : busy[k] = None
      /\ UNCHANGED <<alive, pending, deletion, toCancel, stripe, session, customers, inOrder,
                     row, events, made, seen, owed, missed, wronged, faults>>
  BY DEF B!Receive, B!hooks, B!shop, B!history
<1>2. e \in B!Event /\ stripe[e.sub] # "none"
  BY DEF B!BillingInv, B!RecordsAreTyped, B!PaidFor
<1>3. /\ busy' \in [Handler -> B!Event \cup {None}] /\ busy'[g] = e
      /\ \A k \in Handler : k # g => busy'[k] = busy[k]
  BY <1>1, <1>2 DEF B!BillingInv, B!RecordsAreTyped
<1>4. B!RecordsAreTyped'
  BY <1>1, <1>3 DEF B!BillingInv, B!RecordsAreTyped
<1>5. B!PaidFor' /\ B!RowsHaveTheirOwner' /\ B!EventsAreNumbered'
  BY <1>1, <1>2, <1>3 DEF B!BillingInv, B!PaidFor, B!RowsHaveTheirOwner, B!EventsAreNumbered
<1>6. B!RowsAreCounted'
  <2>1. B!HadARow' = B!HadARow
    BY <1>1 DEF B!HadARow
  <2> QED BY <1>1, <2>1 DEF B!BillingInv, B!RowsAreCounted
<1>7. B!OneAtATime'
  BY <1>1, <1>3 DEF B!OneAtATime, B!Oldest
<1>8. seen[g] = None
  BY <1>1 DEF B!BillingInv, B!SeenInHand
<1>9. B!TruthIsOnTheWay' /\ B!SeenInHand'
  BY <1>1, <1>3, <1>8
     DEF B!BillingInv, B!TruthIsOnTheWay, B!LastOf, B!Retrieves, B!SeenInHand
<1>10. B!OwedIsHandedOver' /\ B!JobsAreForTheGone' /\ B!LiveOwnersAreSpared'
  BY <1>1, HooksStay
<1> QED BY <1>4, <1>5, <1>6, <1>7, <1>9, <1>10 DEF B!BillingInv

\* invoice.payment_failed: the handler asks Stripe for the status as it is by then.
LEMMA RetrieveStep ==
  ASSUME B!Bounds, B!BillingInv, NEW g \in Handler, B!Retrieve(g)
  PROVE  B!BillingInv'
<1>1. /\ busy[g] # None /\ seen' = [seen EXCEPT ![g] = stripe[busy[g].sub]]
      /\ UNCHANGED <<alive, pending, deletion, toCancel, stripe, session, customers, inOrder,
                     row, events, made, busy, owed, missed, wronged, faults>>
  BY DEF B!Retrieve, B!hooks, B!shop, B!history
<1>2. PICK e \in B!Event : e = busy[g]
  BY <1>1 DEF B!BillingInv, B!RecordsAreTyped
<1>3. e.sub \in Sub /\ stripe[e.sub] \in B!Status
  BY <1>1, <1>2 DEF B!BillingInv, B!RecordsAreTyped, B!PaidFor, B!Event
<1>4. /\ seen' \in [Handler -> B!Status \cup {None}] /\ seen'[g] = stripe[e.sub]
      /\ \A k \in Handler : k # g => seen'[k] = seen[k]
  BY <1>1, <1>2, <1>3 DEF B!BillingInv, B!RecordsAreTyped
<1>5. B!RecordsAreTyped'
  BY <1>1, <1>4 DEF B!BillingInv, B!RecordsAreTyped
<1>6. B!PaidFor' /\ B!RowsHaveTheirOwner' /\ B!EventsAreNumbered'
  BY <1>1 DEF B!BillingInv, B!PaidFor, B!RowsHaveTheirOwner, B!EventsAreNumbered
<1>7. B!RowsAreCounted'
  <2>1. B!HadARow' = B!HadARow
    BY <1>1 DEF B!HadARow
  <2> QED BY <1>1, <2>1 DEF B!BillingInv, B!RowsAreCounted
<1>8. B!OneAtATime' /\ B!SeenInHand'
  BY <1>1, <1>4 DEF B!BillingInv, B!OneAtATime, B!Oldest, B!SeenInHand
<1>9. B!TruthIsOnTheWay'
  BY <1>1, <1>2, <1>4 DEF B!BillingInv, B!TruthIsOnTheWay, B!LastOf, B!Retrieves
<1>10. B!OwedIsHandedOver' /\ B!JobsAreForTheGone' /\ B!LiveOwnersAreSpared'
  BY <1>1, HooksStay
<1> QED BY <1>5, <1>6, <1>7, <1>8, <1>9, <1>10 DEF B!BillingInv

\* A handler lets go of its event: it failed, it was refused, or it answered.
LEMMA ReleaseKeeps ==
  ASSUME B!Bounds, B!BillingInv, NEW g \in Handler, B!Release(g)
  PROVE  /\ busy' \in [Handler -> B!Event \cup {None}]
         /\ seen' \in [Handler -> B!Status \cup {None}]
         /\ busy'[g] = None /\ seen'[g] = None
         /\ \A k \in Handler : k # g => busy'[k] = busy[k] /\ seen'[k] = seen[k]
         /\ B!SeenInHand'
<1>1. /\ busy' \in [Handler -> B!Event \cup {None}] /\ busy'[g] = None
      /\ \A k \in Handler : k # g => busy'[k] = busy[k]
  BY DEF B!Release, B!BillingInv, B!RecordsAreTyped
<1>2. /\ seen' \in [Handler -> B!Status \cup {None}] /\ seen'[g] = None
      /\ \A k \in Handler : k # g => seen'[k] = seen[k]
  BY DEF B!Release, B!BillingInv, B!RecordsAreTyped
<1> QED BY <1>1, <1>2 DEF B!BillingInv, B!SeenInHand

\* A handler that fails or is refused leaves its event to be delivered again.
LEMMA LetGoStep ==
  ASSUME B!Bounds, B!BillingInv, NEW g \in Handler, B!InsertRefused(g) \/ B!HandlerFails(g)
  PROVE  B!BillingInv'
<1>1. /\ B!Release(g)
      /\ UNCHANGED <<alive, pending, deletion, toCancel, stripe, session, customers, inOrder,
                     row, events, made, owed, missed, wronged>>
  BY DEF B!InsertRefused, B!HandlerFails, B!hooks, B!shop, B!history
<1>2. /\ busy' \in [Handler -> B!Event \cup {None}] /\ seen' \in [Handler -> B!Status \cup {None}]
      /\ busy'[g] = None /\ seen'[g] = None
      /\ \A k \in Handler : k # g => busy'[k] = busy[k] /\ seen'[k] = seen[k]
      /\ B!SeenInHand'
  BY <1>1, ReleaseKeeps
<1>3. B!RecordsAreTyped'
  BY <1>1, <1>2 DEF B!BillingInv, B!RecordsAreTyped
<1>4. B!PaidFor' /\ B!RowsHaveTheirOwner' /\ B!EventsAreNumbered'
  BY <1>1, <1>2 DEF B!BillingInv, B!PaidFor, B!RowsHaveTheirOwner, B!EventsAreNumbered
<1>5. B!RowsAreCounted'
  <2>1. B!HadARow' = B!HadARow
    BY <1>1 DEF B!HadARow
  <2> QED BY <1>1, <2>1 DEF B!BillingInv, B!RowsAreCounted
<1>6. B!OneAtATime'
  BY <1>1, <1>2 DEF B!BillingInv, B!OneAtATime, B!Oldest
<1>7. B!TruthIsOnTheWay'
  BY <1>1, <1>2 DEF B!BillingInv, B!TruthIsOnTheWay, B!LastOf, B!Retrieves
<1>8. B!OwedIsHandedOver' /\ B!JobsAreForTheGone' /\ B!LiveOwnersAreSpared'
  BY <1>1, HooksStay
<1> QED BY <1>2, <1>3, <1>4, <1>5, <1>6, <1>7, <1>8 DEF B!BillingInv

\* What a handler writes for its event: nothing when there is no row to update, else the
\* becomes retrieved or, for an event that retrieves nothing, the status it carries.
Written(e, g) ==
  /\ \A r \in Sub : r # e.sub => row'[r] = row[r]
  /\ \/ row'[e.sub] # None
     \/ e.type # "completed" /\ row'[e.sub] = None /\ row[e.sub] = None
  /\ row'[e.sub] # None => row'[e.sub].status = IF B!Retrieves(e) THEN seen[g] ELSE e.status

\* An event is answered when it has been written; it may come again all the same.
LEMMA AnswerTells ==
  ASSUME B!Bounds, B!BillingInv, NEW g \in Handler, NEW e \in B!Event, busy[g] = e,
         B!Answered(g), B!Retrieves(e) => seen[g] # None, Written(e, g),
         UNCHANGED <<alive, stripe, session, inOrder, made>>
  PROVE  /\ events' \subseteq events
         /\ busy' \in [Handler -> B!Event \cup {None}]
         /\ seen' \in [Handler -> B!Status \cup {None}]
         /\ B!EventsAreNumbered' /\ B!OneAtATime' /\ B!TruthIsOnTheWay' /\ B!SeenInHand'
         /\ \A k \in Handler : busy'[k] # None => busy'[k] = busy[k]
<1>1. /\ busy' \in [Handler -> B!Event \cup {None}] /\ seen' \in [Handler -> B!Status \cup {None}]
      /\ busy'[g] = None /\ seen'[g] = None
      /\ \A k \in Handler : k # g => busy'[k] = busy[k] /\ seen'[k] = seen[k]
      /\ B!SeenInHand'
  BY ReleaseKeeps DEF B!Answered
<1>2. events' = events \/ events' = events \ {e}
  BY DEF B!Answered
<1>3. B!EventsAreNumbered'
  BY <1>2 DEF B!BillingInv, B!EventsAreNumbered
<1>4. e # None
  BY DEF B!Bounds
<1>5. B!OneAtATime'
  <2> SUFFICES ASSUME inOrder PROVE \A k \in Handler : busy'[k] = None
    BY DEF B!OneAtATime
  <2> QED BY <1>1, <1>4 DEF B!BillingInv, B!OneAtATime
<1>6. B!TruthIsOnTheWay'
  <2> SUFFICES ASSUME inOrder, NEW s \in Sub, stripe[s] # "none", alive[session[s].owner]
               PROVE  /\ row'[s] # None \/ \E f \in events' : f.sub = s /\ f.type = "completed"
                      /\ \/ \E f \in events' : f.sub = s
                         \/ row'[s] # None /\ row'[s].status = stripe[s]
                      /\ \A f \in events' : B!LastOf(s, f)' =>
                           /\ B!Retrieves(f) \/ f.status = stripe[s]
                           /\ \A k \in Handler : busy'[k] = f /\ seen'[k] # None
                                                 => seen'[k] = stripe[s]
    BY DEF B!TruthIsOnTheWay, B!Retrieves
  <2>1. e \in events /\ \A f \in events : e.n <= f.n
    BY <1>4 DEF B!BillingInv, B!OneAtATime, B!Oldest
  <2>2. \A f \in events : f # e => f \in events'
    BY <1>2
  <2>3. row'[s] # None \/ \E f \in events' : f.sub = s /\ f.type = "completed"
    BY <2>2 DEF B!BillingInv, B!TruthIsOnTheWay, Written
  <2>4. \A f \in events' : f \in events /\ (B!LastOf(s, f)' => B!LastOf(s, f))
    <3>1. ASSUME NEW f \in events', B!LastOf(s, f)' PROVE B!LastOf(s, f)
      BY <1>2, <2>1, <2>2, <3>1 DEF B!LastOf
    <3> QED BY <1>2, <3>1
  <2>5. \A f \in events' : B!LastOf(s, f)' =>
          /\ B!Retrieves(f) \/ f.status = stripe[s]
          /\ \A k \in Handler : busy'[k] = f /\ seen'[k] # None => seen'[k] = stripe[s]
    BY <1>1, <2>4 DEF B!BillingInv, B!TruthIsOnTheWay
  <2>6. (\E f \in events' : f.sub = s) \/ (row'[s] # None /\ row'[s].status = stripe[s])
    <3> SUFFICES ASSUME \A f \in events' : f.sub # s PROVE row'[s] # None
                          /\ row'[s].status = stripe[s]
      OBVIOUS
    <3>1. row'[s] # None
      BY <2>3
    <3>2. CASE s # e.sub
      <4>1. \A f \in events : f.sub # s
        BY <2>2, <3>2
      <4> QED BY <3>2, <4>1 DEF B!BillingInv, B!TruthIsOnTheWay, Written
    <3>3. CASE s = e.sub
      <4>1. \A f \in events : f.sub = s => f = e
        BY <2>2
      <4>2. B!LastOf(s, e)
        BY <2>1, <3>3, <4>1 DEF B!LastOf, B!Event
      <4>3. /\ B!Retrieves(e) \/ e.status = stripe[s]
            /\ seen[g] # None => seen[g] = stripe[s]
        BY <2>1, <4>2 DEF B!BillingInv, B!TruthIsOnTheWay
      <4> QED BY <3>1, <3>3, <4>3 DEF Written
    <3> QED BY <3>2, <3>3
  <2> QED BY <2>3, <2>5, <2>6
<1> QED BY <1>1, <1>2, <1>3, <1>5, <1>6

\* customer.subscription.updated and .deleted, invoice.payment_failed.
LEMMA RowUpdateStep ==
  ASSUME B!Bounds, B!BillingInv, NEW g \in Handler, B!Update(g)
  PROVE  B!BillingInv'
<1>1. PICK e \in B!Event : e = busy[g]
  BY DEF B!Update, B!BillingInv, B!RecordsAreTyped
<1>2. PICK becomes : becomes = IF e.type = "invoice" THEN seen[g] ELSE e.status
  OBVIOUS
<1>3. /\ e.type # "completed" /\ (B!Retrieves(e) => seen[g] # None) /\ B!Answered(g)
      /\ row' = IF row[e.sub] = None THEN row ELSE [row EXCEPT ![e.sub].status = becomes]
      /\ UNCHANGED <<alive, pending, deletion, toCancel, stripe, session, customers, inOrder, made,
                     owed, missed, wronged>>
  BY <1>1, <1>2 DEF B!Update, B!hooks, B!shop
<1>4. /\ becomes \in B!Status /\ e.sub \in Sub
      /\ becomes = IF B!Retrieves(e) THEN seen[g] ELSE e.status
  BY <1>1, <1>2, <1>3 DEF B!Retrieves, B!Event, B!BillingInv, B!RecordsAreTyped
<1>5. /\ row' \in [Sub -> B!SubRow \cup {None}]
      /\ \A r \in Sub : row'[r] # None <=> row[r] # None
      /\ \A r \in Sub : r # e.sub => row'[r] = row[r]
      /\ \A r \in Sub : row[r] # None => row'[r].owner = row[r].owner /\ row'[r].at = row[r].at
      /\ row'[e.sub] # None => row'[e.sub].status = becomes
  <2>1. CASE row[e.sub] = None
    BY <1>3, <2>1, <1>4 DEF B!BillingInv, B!RecordsAreTyped
  <2>2. CASE row[e.sub] # None
    <3>1. PICK new : new = [row[e.sub] EXCEPT !.status = becomes]
      OBVIOUS
    <3>2. row[e.sub] \in B!SubRow
      BY <1>4, <2>2 DEF B!BillingInv, B!RecordsAreTyped
    <3>3. new \in B!SubRow /\ new.status = becomes /\ new.owner = row[e.sub].owner
          /\ new.at = row[e.sub].at /\ new # None
      BY <1>4, <3>1, <3>2 DEF B!SubRow, B!Bounds
    <3>4. row' = [row EXCEPT ![e.sub] = new]
      BY <1>3, <2>2, <3>1
    <3> QED BY <1>4, <2>2, <3>3, <3>4 DEF B!BillingInv, B!RecordsAreTyped
  <2> QED BY <2>1, <2>2
<1>6. Written(e, g)
  BY <1>3, <1>4, <1>5 DEF Written
<1>7. /\ events' \subseteq events
      /\ busy' \in [Handler -> B!Event \cup {None}] /\ seen' \in [Handler -> B!Status \cup {None}]
      /\ B!EventsAreNumbered' /\ B!OneAtATime' /\ B!TruthIsOnTheWay' /\ B!SeenInHand'
      /\ \A k \in Handler : busy'[k] # None => busy'[k] = busy[k]
  BY <1>1, <1>3, <1>6, AnswerTells
<1>8. B!RecordsAreTyped'
  BY <1>3, <1>5, <1>7 DEF B!BillingInv, B!RecordsAreTyped
<1>9. B!PaidFor' /\ B!RowsHaveTheirOwner'
  BY <1>3, <1>5, <1>7 DEF B!BillingInv, B!PaidFor, B!RowsHaveTheirOwner
<1>10. B!RowsAreCounted'
  <2>1. B!HadARow' = B!HadARow
    BY <1>3, <1>5 DEF B!HadARow
  <2> QED BY <1>5, <2>1 DEF B!BillingInv, B!RowsAreCounted
<1>11. B!OwedIsHandedOver' /\ B!JobsAreForTheGone' /\ B!LiveOwnersAreSpared'
  BY <1>3, HooksStay
<1> QED BY <1>7, <1>8, <1>9, <1>10, <1>11 DEF B!BillingInv

\* checkout.session.completed inserts under the owner of the session, or refreshes.
LEMMA RowInsertStep ==
  ASSUME B!Bounds, B!BillingInv, NEW g \in Handler, B!Insert(g)
  PROVE  B!BillingInv'
<1>1. PICK e \in B!Event : e = busy[g]
  BY DEF B!Insert, B!BillingInv, B!RecordsAreTyped
<1>2. PICK s \in Sub : s = e.sub
  BY DEF B!Event
<1>3. PICK new : new = IF row[s] = None
                       THEN [owner |-> session[s].owner, customer |-> session[s].customer,
                             status |-> seen[g], at |-> B!NextRow]
                       ELSE [row[s] EXCEPT !.customer = session[s].customer, !.status = seen[g]]
  OBVIOUS
<1>4. /\ e.type = "completed" /\ seen[g] # None /\ B!Answered(g) /\ alive[session[s].owner]
      /\ row' = [row EXCEPT ![s] = new] /\ busy[g] # None
      /\ UNCHANGED <<alive, pending, deletion, toCancel, stripe, session, customers, inOrder, made,
                     owed, missed, wronged>>
  BY <1>1, <1>2, <1>3 DEF B!Insert, B!hooks, B!shop
<1>5. stripe[s] # "none" /\ session[s] # None /\ session[s] \in B!Session
  BY <1>1, <1>2, <1>4 DEF B!BillingInv, B!PaidFor, B!RecordsAreTyped
<1>6. B!NextRow \in 1 .. (Cardinality(B!HadARow) + 1) /\ Cardinality(B!HadARow) \in Nat
  BY NextRowIsNew, RowsAreFew
<1>7. /\ new \in B!SubRow /\ new.owner = session[s].owner /\ new.status = seen[g]
      /\ new.at = IF row[s] = None THEN B!NextRow ELSE row[s].at
  <2>1. seen[g] \in B!Status
    BY <1>4 DEF B!BillingInv, B!RecordsAreTyped
  <2>2. session[s].owner \in Payer /\ session[s].customer \in Nat
    BY <1>5 DEF B!Session
  <2>3. CASE row[s] = None
    <3>1. B!NextRow \in Nat
      BY <1>6
    <3> QED BY <1>3, <2>1, <2>2, <2>3, <3>1 DEF B!SubRow
  <2>4. CASE row[s] # None
    <3>1. row[s] \in B!SubRow /\ row[s].owner = session[s].owner
      BY <2>4 DEF B!BillingInv, B!RecordsAreTyped, B!RowsHaveTheirOwner
    <3> QED BY <1>3, <2>1, <2>2, <2>4, <3>1 DEF B!SubRow
  <2> QED BY <2>3, <2>4
<1>8. /\ row' \in [Sub -> B!SubRow \cup {None}] /\ row'[s] = new /\ new # None
      /\ \A r \in Sub : r # s => row'[r] = row[r]
  BY <1>4, <1>7 DEF B!BillingInv, B!RecordsAreTyped, B!Bounds
<1>9. Written(e, g)
  BY <1>2, <1>4, <1>7, <1>8 DEF Written, B!Retrieves
<1>10. /\ events' \subseteq events
       /\ busy' \in [Handler -> B!Event \cup {None}] /\ seen' \in [Handler -> B!Status \cup {None}]
       /\ B!EventsAreNumbered' /\ B!OneAtATime' /\ B!TruthIsOnTheWay' /\ B!SeenInHand'
       /\ \A k \in Handler : busy'[k] # None => busy'[k] = busy[k]
  BY <1>1, <1>4, <1>9, AnswerTells
<1>11. B!RecordsAreTyped'
  BY <1>4, <1>8, <1>10 DEF B!BillingInv, B!RecordsAreTyped
<1>12. B!PaidFor' /\ B!RowsHaveTheirOwner'
  BY <1>4, <1>5, <1>7, <1>8, <1>10 DEF B!BillingInv, B!PaidFor, B!RowsHaveTheirOwner
<1>13. B!RowsAreCounted'
  <2>1. B!HadARow' = B!HadARow \cup {s}
    BY <1>4, <1>8 DEF B!HadARow
  <2>2. row[s] = None => s \notin B!HadARow
    BY <1>4 DEF B!HadARow
  <2>3. Cardinality(B!HadARow)' = Cardinality(B!HadARow) + (IF s \in B!HadARow THEN 0 ELSE 1)
    <3>1. PICK had : had = B!HadARow
      OBVIOUS
    <3>2. Cardinality(had \cup {s}) = Cardinality(had) + (IF s \in had THEN 0 ELSE 1)
      <4>1. IsFiniteSet(had) /\ Cardinality(had) \in Nat
        BY <3>1, RowsAreFew
      <4>2. Cardinality(had \cup {s}) = IF s \in had THEN Cardinality(had) ELSE Cardinality(had) + 1
        BY <4>1, FS_AddElement
      <4> QED BY <4>1, <4>2
    <3> QED BY <2>1, <3>1, <3>2
  <2>4. \A r \in Sub : row[r] # None => row[r].at \in 1 .. Cardinality(B!HadARow)
    BY CountingOfRows DEF B!BillingInv, B!RowsAreCounted
  <2>5. \A r \in Sub : row'[r] # None => row'[r].at \in 1 .. Cardinality(B!HadARow)'
    BY <1>6, <1>7, <1>8, <2>2, <2>3, <2>4
  <2> QED BY <2>5, CountingOfRows DEF B!RowsAreCounted
<1>14. B!OwedIsHandedOver' /\ B!JobsAreForTheGone' /\ B!LiveOwnersAreSpared'
  BY <1>4, HooksStay
<1> QED BY <1>10, <1>11, <1>12, <1>13, <1>14 DEF B!BillingInv

-----------------------------------------------------------------------------
\* The hooks of a deletion (packages/auth/src/auth.ts) leave Stripe and the table alone.
LEMMA CaptureStep ==
  ASSUME B!Bounds, B!BillingInv, NEW o \in Payer, B!Capture(o)
  PROVE  B!BillingInv'
<1>1. PICK ids : ids = {s \in B!RowsOf(o) : row[s].status \notin B!Terminal}
  OBVIOUS
<1>2. /\ alive[o] /\ deletion[o] = "no" /\ deletion' = [deletion EXCEPT ![o] = "captured"]
      /\ owed' = [owed EXCEPT ![o] = ids]
      /\ \/ pending' = [pending EXCEPT ![o] = IF ids = {} THEN @ ELSE ids] /\ missed' = missed
         \/ missed' = missed \cup {o} /\ pending' = pending
      /\ UNCHANGED <<alive, toCancel, stripe, session, customers, inOrder, row, events, made,
                     busy, seen, wronged>>
  BY <1>1 DEF B!Capture, B!shop, B!hook
<1>3. ids \in SUBSET Sub /\ \A s \in ids : session[s] # None /\ session[s].owner = o
  BY <1>1 DEF B!RowsOf, B!BillingInv, B!RowsHaveTheirOwner, B!PaidFor
<1>4. PICK kept \in SUBSET Sub : kept = IF ids = {} THEN pending[o] ELSE ids
  BY <1>3 DEF B!BillingInv, B!RecordsAreTyped
<1>5. /\ deletion' \in [Payer -> {"no", "captured", "gone", "over"}] /\ deletion'[o] = "captured"
      /\ owed' \in [Payer -> SUBSET Sub] /\ owed'[o] = ids
      /\ \A p \in Payer : p # o => deletion'[p] = deletion[p] /\ owed'[p] = owed[p]
  BY <1>2, <1>3 DEF B!BillingInv, B!RecordsAreTyped
<1>6. /\ pending' \in [Payer -> SUBSET Sub]
      /\ pending'[o] = kept \/ (pending'[o] = pending[o] /\ o \in missed')
      /\ \A p \in Payer : p # o => pending'[p] = pending[p]
  <2>1. CASE pending' = pending /\ o \in missed'
    BY <2>1 DEF B!BillingInv, B!RecordsAreTyped
  <2>2. CASE pending' = [pending EXCEPT ![o] = kept]
    BY <2>2 DEF B!BillingInv, B!RecordsAreTyped
  <2> QED BY <1>2, <1>4, <2>1, <2>2
<1>7. B!RecordsAreTyped'
  BY <1>2, <1>5, <1>6 DEF B!BillingInv, B!RecordsAreTyped
<1>8. B!OwedIsHandedOver'
  <2> SUFFICES ASSUME NEW p \in Payer
               PROVE  /\ deletion'[p] \in {"gone", "over"} <=> ~alive[p]
                      /\ \A s \in pending'[p] : session[s] # None /\ session[s].owner = p
                      /\ deletion'[p] \in {"captured", "gone"} /\ p \notin missed'
                           => owed'[p] \subseteq pending'[p]
                      /\ deletion'[p] = "over" /\ p \notin missed' =>
                           \A s \in owed'[p] : s \in toCancel \/ stripe[s] = "canceled"
    BY <1>2 DEF B!OwedIsHandedOver
  <2>1. missed \subseteq missed'
    BY <1>2
  <2>2. CASE p # o
    BY <1>5, <1>6, <2>1, <2>2 DEF B!BillingInv, B!OwedIsHandedOver
  <2>3. CASE p = o
    <3>1. \A s \in pending'[o] : session[s] # None /\ session[s].owner = o
      BY <1>3, <1>4, <1>6 DEF B!BillingInv, B!OwedIsHandedOver
    <3>2. o \notin missed' => owed'[o] \subseteq pending'[o]
      BY <1>4, <1>5, <1>6
    <3> QED BY <1>2, <1>5, <2>3, <3>1, <3>2
  <2> QED BY <2>2, <2>3
<1>9. B!JobsAreForTheGone' /\ B!LiveOwnersAreSpared'
  BY <1>2 DEF B!BillingInv, B!JobsAreForTheGone, B!LiveOwnersAreSpared
<1> QED BY <1>2, <1>7, <1>8, <1>9, TruthStays DEF B!BillingInv

\* The deletion fails between its hooks, or nothing happens.
LEMMA DeleteFailsStep ==
  ASSUME B!Bounds, B!BillingInv, NEW o \in Payer, B!DeleteFails(o)
  PROVE  B!BillingInv'
<1>1. /\ deletion[o] = "captured" /\ deletion' = [deletion EXCEPT ![o] = "no"]
      /\ UNCHANGED <<alive, pending, toCancel, stripe, session, customers, inOrder, row, events,
                     made, busy, seen, owed, missed, wronged>>
  BY DEF B!DeleteFails, B!shop, B!hook
<1>2. /\ deletion' \in [Payer -> {"no", "captured", "gone", "over"}] /\ deletion'[o] = "no"
      /\ \A p \in Payer : p # o => deletion'[p] = deletion[p]
  BY <1>1 DEF B!BillingInv, B!RecordsAreTyped
<1>3. B!RecordsAreTyped'
  BY <1>1, <1>2 DEF B!BillingInv, B!RecordsAreTyped
<1>4. B!OwedIsHandedOver' /\ B!JobsAreForTheGone' /\ B!LiveOwnersAreSpared'
  BY <1>1, <1>2 DEF B!BillingInv, B!OwedIsHandedOver, B!JobsAreForTheGone, B!LiveOwnersAreSpared
<1> QED BY <1>1, <1>3, <1>4, TruthStays DEF B!BillingInv

\* A step that leaves billing alone changes nothing of what holds of it.
LEMMA BillingStays ==
  ASSUME B!Bounds, B!BillingInv, UNCHANGED B!vars
  PROVE  B!BillingInv'
<1>1. UNCHANGED <<alive, pending, deletion, toCancel, stripe, session, customers, inOrder, row,
                  events, made, busy, seen, owed, missed, wronged, faults>>
  BY DEF B!vars, B!hooks, B!shop, B!hook, B!history
<1>2. B!RecordsAreTyped'
  BY <1>1 DEF B!BillingInv, B!RecordsAreTyped
<1>3. B!OwedIsHandedOver' /\ B!JobsAreForTheGone' /\ B!LiveOwnersAreSpared'
  BY <1>1, HooksStay
<1> QED BY <1>1, <1>2, <1>3, TruthStays DEF B!BillingInv

\* afterDelete, afterDeleteOrganization hand what was captured to a job.
LEMMA HandOverStep ==
  ASSUME B!Bounds, B!BillingInv, NEW o \in Payer, B!HandOver(o)
  PROVE  B!BillingInv'
<1>1. /\ deletion[o] = "gone" /\ deletion' = [deletion EXCEPT ![o] = "over"]
      /\ pending' = [pending EXCEPT ![o] = {}]
      /\ \/ toCancel' = toCancel \cup pending[o] /\ missed' = missed
         \/ missed' = missed \cup {o} /\ toCancel' = toCancel
      /\ UNCHANGED <<alive, stripe, session, customers, inOrder, row, events, made, busy, seen,
                     owed, wronged>>
  BY DEF B!HandOver, B!shop, B!hook
<1>2. /\ deletion' \in [Payer -> {"no", "captured", "gone", "over"}] /\ deletion'[o] = "over"
      /\ pending' \in [Payer -> SUBSET Sub] /\ pending'[o] = {}
      /\ \A p \in Payer : p # o => deletion'[p] = deletion[p] /\ pending'[p] = pending[p]
  BY <1>1 DEF B!BillingInv, B!RecordsAreTyped
<1>3. ~alive[o] /\ pending[o] \subseteq Sub /\ toCancel \subseteq toCancel'
        /\ missed \subseteq missed'
  BY <1>1 DEF B!BillingInv, B!OwedIsHandedOver, B!RecordsAreTyped
<1>4. B!RecordsAreTyped'
  <2>1. toCancel' \subseteq Sub
    BY <1>1, <1>3 DEF B!BillingInv, B!RecordsAreTyped
  <2> QED BY <1>1, <1>2, <2>1 DEF B!BillingInv, B!RecordsAreTyped
<1>5. B!OwedIsHandedOver'
  <2>1. o \notin missed' => \A s \in owed[o] : s \in toCancel'
    BY <1>1 DEF B!BillingInv, B!OwedIsHandedOver
  <2> QED BY <1>1, <1>2, <1>3, <2>1 DEF B!BillingInv, B!OwedIsHandedOver
<1>6. B!JobsAreForTheGone'
  <2>1. \A s \in pending[o] : session[s] # None /\ session[s].owner = o
    BY DEF B!BillingInv, B!OwedIsHandedOver
  <2> QED BY <1>1, <1>3, <2>1 DEF B!BillingInv, B!JobsAreForTheGone
<1>7. B!LiveOwnersAreSpared'
  BY <1>1 DEF B!BillingInv, B!LiveOwnersAreSpared
<1> QED BY <1>1, <1>4, <1>5, <1>6, <1>7, TruthStays DEF B!BillingInv

\* The row of the owner goes, and its subscription rows cascade.
LEMMA OwnerGoesStep ==
  ASSUME B!Bounds, B!BillingInv, NEW o \in Payer, B!Delete(o)
  PROVE  B!BillingInv'
<1>1. /\ deletion[o] = "captured" /\ deletion' = [deletion EXCEPT ![o] = "gone"]
      /\ alive' = [alive EXCEPT ![o] = FALSE]
      /\ row' = [s \in Sub |-> IF s \in B!RowsOf(o) THEN None ELSE row[s]]
      /\ UNCHANGED <<pending, toCancel, stripe, session, customers, inOrder, events, made, busy,
                     seen, owed, missed, wronged>>
  BY DEF B!Delete, B!shop, B!hook, B!history
<1>2. /\ deletion' \in [Payer -> {"no", "captured", "gone", "over"}] /\ deletion'[o] = "gone"
      /\ \A p \in Payer : p # o => deletion'[p] = deletion[p]
  BY <1>1 DEF B!BillingInv, B!RecordsAreTyped
<1>3. alive' \in [Payer -> BOOLEAN] /\ ~alive'[o] /\ \A p \in Payer : p # o => alive'[p] = alive[p]
  BY <1>1 DEF B!BillingInv, B!RecordsAreTyped
<1>4. row' \in [Sub -> B!SubRow \cup {None}]
      /\ \A s \in Sub : row'[s] # None => row'[s] = row[s] /\ row[s].owner # o
  BY <1>1 DEF B!BillingInv, B!RecordsAreTyped, B!RowsOf
<1>5. \A s \in Sub : row[s] # None => row[s].owner = session[s].owner /\ session[s] # None
                                      /\ session[s].owner \in Payer
  BY DEF B!BillingInv, B!RowsHaveTheirOwner, B!PaidFor, B!RecordsAreTyped, B!Session
<1>6. \A s \in Sub : session[s] # None => session[s].owner \in Payer
  BY DEF B!BillingInv, B!RecordsAreTyped, B!Session
<1>7. B!RecordsAreTyped'
  BY <1>1, <1>2, <1>3, <1>4 DEF B!BillingInv, B!RecordsAreTyped
<1>8. B!PaidFor' /\ B!EventsAreNumbered'
  BY <1>1, <1>4 DEF B!BillingInv, B!PaidFor, B!EventsAreNumbered
<1>9. B!RowsHaveTheirOwner'
  BY <1>1, <1>3, <1>4, <1>5 DEF B!BillingInv, B!RowsHaveTheirOwner
<1>10. B!RowsAreCounted'
  <2>1. PICK had, has : had = B!HadARow /\ has = B!HadARow'
    OBVIOUS
  <2>2. had \subseteq has
    <3>1. ASSUME NEW s \in Sub, row[s] # None PROVE row'[s] # None \/ ~alive'[session[s].owner]
      <4>1. CASE s \in B!RowsOf(o)
        BY <1>3, <1>5, <3>1, <4>1 DEF B!RowsOf
      <4>2. CASE s \notin B!RowsOf(o)
        BY <1>1, <3>1, <4>2
      <4> QED BY <4>1, <4>2
    <3>2. ASSUME NEW s \in Sub, session[s] # None, ~alive[session[s].owner]
          PROVE  ~alive'[session[s].owner]
      BY <1>3, <1>6, <3>2
    <3> QED BY <1>1, <1>5, <2>1, <3>1, <3>2 DEF B!HadARow
  <2>3. IsFiniteSet(has)
    <3>1. has \in SUBSET Sub
      BY <2>1 DEF B!HadARow
    <3> QED BY <3>1, CountingOfRows, FS_Subset DEF B!Bounds
  <2>4. Cardinality(had) <= Cardinality(has) /\ Cardinality(had) \in Nat /\ Cardinality(has) \in Nat
    BY <2>2, <2>3, FS_Subset, FS_CardinalityType
  <2>5. \A s \in Sub : row[s] # None => row[s].at \in 1 .. Cardinality(had)
    BY <2>1, CountingOfRows DEF B!BillingInv, B!RowsAreCounted
  <2>6. \A s \in Sub : row'[s] # None => row'[s].at \in 1 .. Cardinality(has)
    BY <1>4, <2>4, <2>5
  <2> QED BY <2>1, <2>6, CountingOfRows DEF B!RowsAreCounted
<1>11. B!OneAtATime' /\ B!SeenInHand'
  BY <1>1 DEF B!BillingInv, B!OneAtATime, B!Oldest, B!SeenInHand
<1>12. B!TruthIsOnTheWay'
  <2>1. \A s \in Sub : stripe[s] # "none" /\ alive'[session[s].owner] =>
          alive[session[s].owner] /\ row'[s] = row[s]
    <3> SUFFICES ASSUME NEW s \in Sub, stripe[s] # "none", alive'[session[s].owner]
                 PROVE  alive[session[s].owner] /\ row'[s] = row[s]
      OBVIOUS
    <3>1. session[s].owner \in Payer /\ session[s].owner # o
      BY <1>3, <1>6 DEF B!BillingInv, B!PaidFor
    <3>2. s \notin B!RowsOf(o)
      BY <1>5, <3>1 DEF B!RowsOf
    <3> QED BY <1>1, <1>3, <3>1, <3>2
  <2> QED BY <1>1, <2>1 DEF B!BillingInv, B!TruthIsOnTheWay, B!LastOf, B!Retrieves
<1>13. B!OwedIsHandedOver'
  BY <1>1, <1>2, <1>3 DEF B!BillingInv, B!OwedIsHandedOver
<1>14. B!JobsAreForTheGone' /\ B!LiveOwnersAreSpared'
  BY <1>1, <1>3, <1>6
     DEF B!BillingInv, B!RecordsAreTyped, B!JobsAreForTheGone, B!LiveOwnersAreSpared
<1> QED BY <1>7, <1>8, <1>9, <1>10, <1>11, <1>12, <1>13, <1>14 DEF B!BillingInv

\* A step of an owner, of Stripe, of a handler or of a job.
LEMMA BillingStep == B!Bounds /\ B!BillingInv /\ [B!Next]_B!vars => B!BillingInv'
<1> SUFFICES ASSUME B!Bounds, B!BillingInv, [B!Next]_B!vars PROVE B!BillingInv'
  OBVIOUS
<1>1. ASSUME NEW o \in Payer, B!Deletion(o) \/ \E s \in Sub : B!Checkout(o, s)
      PROVE  B!BillingInv'
  BY <1>1, CaptureStep, DeleteFailsStep, OwnerGoesStep, HandOverStep, CheckoutStep DEF B!Deletion
<1>2. ASSUME NEW s \in Sub, B!Pay(s) \/ B!Cancel(s) \/ \E becomes \in B!Status : B!Move(s, becomes)
      PROVE  B!BillingInv'
  BY <1>2, StripeStep, CancelStep
<1>3. ASSUME NEW g \in Handler, B!Webhook(g) PROVE B!BillingInv'
  BY <1>3, ReceiveStep, RetrieveStep, RowInsertStep, LetGoStep, RowUpdateStep DEF B!Webhook
<1> QED BY <1>1, <1>2, <1>3, BillingStays DEF B!Next

\* What the invariant says of the table and of the jobs when nothing is under way.
LEMMA BillingEnds ==
  ASSUME B!Bounds, B!BillingInv
  PROVE  /\ B!TypeOK /\ B!SettlesOnTruth /\ B!EntitledPay /\ B!RowsHaveTheirOwner
         /\ B!OwedIsCancelled /\ B!LiveOwnersAreSpared
<1>1. B!TypeOK
  <2>1. \A s \in Sub : row[s] # None =>
          row[s].owner \in Payer /\ row[s].status \in B!Status
            /\ row[s].at \in 1 .. Cardinality(Sub)
    <3> SUFFICES ASSUME NEW s \in Sub, row[s] # None
                 PROVE  row[s].owner \in Payer /\ row[s].status \in B!Status
                        /\ row[s].at \in 1 .. Cardinality(Sub)
      OBVIOUS
    <3>1. row[s] \in B!SubRow
      BY DEF B!BillingInv, B!RecordsAreTyped
    <3>2. row[s].at \in 1 .. Cardinality(B!HadARow)
      BY CountingOfRows DEF B!BillingInv, B!RowsAreCounted
    <3>3. Cardinality(Sub) \in Nat
      BY CountingOfRows, FS_CardinalityType DEF B!Bounds
    <3> QED BY <3>1, <3>2, <3>3, RowsAreFew DEF B!SubRow
  <2> QED BY <2>1, CountingOfRows DEF B!BillingInv, B!RecordsAreTyped, B!EventsAreNumbered, B!TypeOK
<1>2. B!SettlesOnTruth
  BY DEF B!BillingInv, B!TruthIsOnTheWay, B!SettlesOnTruth, B!Quiet
<1>3. B!EntitledPay
  <2> SUFFICES ASSUME inOrder, B!Quiet, NEW o \in Payer, B!Entitled(o)
               PROVE  \E s \in Sub : stripe[s] = "active" /\ session[s].owner = o
    BY DEF B!EntitledPay
  <2>1. PICK s : s = B!LatestRow(o)
    OBVIOUS
  <2>2. s \in B!RowsOf(o) /\ row[s].status = "active"
    BY <2>1, LatestIsARow DEF B!Entitled, B!IsActive
  <2>3. s \in Sub /\ row[s] # None /\ row[s].owner = o
    BY <2>2 DEF B!RowsOf
  <2>4. session[s].owner = o /\ alive[o] /\ stripe[s] # "none"
    BY <2>3 DEF B!BillingInv, B!RowsHaveTheirOwner, B!PaidFor
  <2>5. row[s].status = stripe[s]
    BY <1>2, <2>3, <2>4 DEF B!SettlesOnTruth
  <2> QED BY <2>2, <2>3, <2>4, <2>5
<1>4. B!OwedIsCancelled
  BY DEF B!BillingInv, B!OwedIsHandedOver, B!OwedIsCancelled, B!Terminal
<1> QED BY <1>1, <1>2, <1>3, <1>4 DEF B!BillingInv

\* Billing (server/actions/billing.ts, app/api/stripe/webhook/route.ts and the deletion hooks of
\* packages/auth/src/auth.ts): once events have settled a row says what Stripe does, who is
\* entitled pays, a row is its buyer's, and a deleted account's subscriptions are cancelled
\* while a live owner's never are.
THEOREM BillingIsTrue ==
  ASSUME B!Bounds
  PROVE  B!Spec => [](/\ B!TypeOK /\ B!SettlesOnTruth /\ B!EntitledPay /\ B!RowsHaveTheirOwner
                      /\ B!OwedIsCancelled /\ B!LiveOwnersAreSpared)
<1>1. B!Init => B!BillingInv
  BY BillingBegins
<1>2. B!BillingInv /\ [B!Next]_B!vars => B!BillingInv'
  BY BillingStep
<1>3. B!BillingInv => /\ B!TypeOK /\ B!SettlesOnTruth /\ B!EntitledPay /\ B!RowsHaveTheirOwner
                      /\ B!OwedIsCancelled /\ B!LiveOwnersAreSpared
  BY BillingEnds
<1> QED BY <1>1, <1>2, <1>3, PTL DEF B!Spec

------------------------------------------------------------------------------
(* The board of posts.                                                       *)

\* What a call has to do is named for what the action did before it.
LEMMA TaskOfACall ==
  ASSUME P!CallsAreTyped, NEW c \in Call
  PROVE  /\ calls[c].do \in {"nothing", "insert", "update", "delete", "deindex", "index", "rebuild"}
         /\ calls[c].do = "nothing" => calls[c] = P!Idle
         /\ calls[c].do = "insert" => /\ calls[c].author \in Author /\ calls[c].title \in Title
                                      /\ calls[c].org \in Org \cup {None}
         /\ calls[c].do \in {"update", "delete", "deindex", "index"} => calls[c].post \in Post
         /\ calls[c].do = "index" => calls[c].version \in 1 .. MaxVersion
         /\ calls[c].do = "rebuild" => calls[c].docs \in [Post -> 0 .. MaxVersion]
<1>1. calls[c] \in P!Task
  BY DEF P!CallsAreTyped
<1> QED BY <1>1 DEF P!Task, P!Idle

\* What each handler leaves for its call to do is a task again.
LEMMA TasksAreTyped ==
  ASSUME P!CallsAreTyped, NEW c \in Call, NEW what \in P!Task, P!Then(c, what)
  PROVE  /\ P!CallsAreTyped' /\ calls'[c] = what
         /\ \A d \in Call : d # c => calls'[d] = calls[d]
  BY DEF P!CallsAreTyped, P!Then

\* A version is a number up to the bound, and none of a post that is not there.
LEMMA VersionsAreBounded ==
  ASSUME P!Bounds, P!TypeOK, NEW p \in Post
  PROVE  /\ P!Version(p) \in 0 .. MaxVersion
         /\ (posts[p] = None) <=> P!Version(p) = 0
         /\ posts[p] # None => /\ posts[p] \in P!PostRow /\ P!Version(p) = posts[p].version
  BY DEF P!Bounds, P!TypeOK, P!Version, P!PostRow

\* The board begins empty, its index unasked for.
LEMMA BoardBegins == P!Bounds /\ P!Init => P!BoardInv
<1> SUFFICES ASSUME P!Bounds, P!Init PROVE P!BoardInv
  OBVIOUS
<1>1. P!TypeOK
  BY DEF P!Init, P!TypeOK, P!Bounds
<1>2. P!CallsAreTyped
  BY DEF P!Init, P!CallsAreTyped, P!Task
<1>3. \A p \in Post : P!Version(p) = 0
  BY DEF P!Init, P!Version
<1>4. P!HistoryIsWhole
  BY <1>3 DEF P!Init, P!HistoryIsWhole
<1>5. P!SearchCatchesUp
  BY <1>3 DEF P!Init, P!SearchCatchesUp, P!Followed, P!Idle
<1> QED BY <1>1, <1>2, <1>4, <1>5
        DEF P!Init, P!BoardInv, P!MemoIsEarned, P!PinnedBeforeFirst

\* The steps that only note what a call has to do.
Notes(c) ==
  \/ \E a \in Author, o \in Org \cup {None}, t \in Title : P!StartCreate(c, a, o, t)
  \/ \E a \in Author, p \in Post : P!StartUpdate(c, a, p) \/ P!StartDelete(c, a, p)
  \/ P!Abort(c) \/ P!StartRebuild(c)

\* A call that begins, gives up or reads the table for a rebuild changes only what it has still
\* to do.
LEMMA NotesKeep ==
  ASSUME P!Bounds, P!BoardInv, NEW c \in Call, Notes(c)
  PROVE  /\ P!CallsAreTyped'
         /\ UNCHANGED <<posts, revisions, documents, settings, memo, gone, outages, missed>>
         /\ calls[c].do \notin {"index", "deindex"} /\ calls'[c].do \notin {"index", "deindex"}
         /\ \A d \in Call : d # c => calls'[d] = calls[d]
<1> USE DEF P!BoardInv
<1>1. ASSUME NEW a \in Author, NEW o \in Org \cup {None}, NEW t \in Title,
             P!StartCreate(c, a, o, t)
      PROVE  \E what \in P!Task : P!Then(c, what) /\ what.do = "insert" /\ calls[c] = P!Idle
  BY <1>1 DEF P!StartCreate, P!Task
<1>2. ASSUME NEW a \in Author, NEW p \in Post, P!StartUpdate(c, a, p) \/ P!StartDelete(c, a, p)
      PROVE  \E what \in P!Task : /\ P!Then(c, what) /\ what.do \in {"update", "delete"}
                                  /\ calls[c] = P!Idle
  BY <1>2 DEF P!StartUpdate, P!StartDelete, P!Task
<1>3. ASSUME P!Abort(c)
      PROVE  \E what \in P!Task : /\ P!Then(c, what) /\ what.do = "nothing"
                                  /\ calls[c].do \in {"insert", "update"}
  BY <1>3 DEF P!Abort, P!Task, P!Idle
<1>4. ASSUME P!StartRebuild(c)
      PROVE  \E what \in P!Task : P!Then(c, what) /\ what.do = "rebuild" /\ calls[c] = P!Idle
  <2>1. [p \in Post |-> P!Version(p)] \in [Post -> 0 .. MaxVersion]
    BY VersionsAreBounded
  <2> QED BY <1>4, <2>1 DEF P!StartRebuild, P!Task
<1>5. UNCHANGED <<posts, revisions, documents, settings, memo, gone, outages, missed>>
  BY DEF Notes, P!StartCreate, P!StartUpdate, P!StartDelete, P!Abort, P!StartRebuild, P!engine
<1>6. PICK what \in P!Task :
        /\ P!Then(c, what) /\ what.do \in {"insert", "update", "delete", "nothing", "rebuild"}
        /\ calls[c] = P!Idle \/ calls[c].do \in {"insert", "update"}
  BY <1>1, <1>2, <1>3, <1>4 DEF Notes
<1>7. P!Idle.do = "nothing"
  BY DEF P!Idle
<1> QED BY <1>5, <1>6, <1>7, TasksAreTyped

\* A post nobody wrote, whose calls to come are as they were, is followed as it was.
LEMMA FollowedStays ==
  ASSUME NEW p \in Post, P!Followed(p), documents'[p] = documents[p],
         P!Version(p)' = P!Version(p),
         \A c \in Call : calls[c].do \in {"index", "deindex"} /\ calls[c].post = p
                           => calls'[c] = calls[c]
  PROVE  P!Followed(p)'
  BY DEF P!Followed

\* Until a write of the rows or of the engine, everything stays as it is.
LEMMA NotesStep ==
  ASSUME P!Bounds, P!BoardInv, NEW c \in Call, Notes(c) PROVE P!BoardInv'
<1>1. /\ P!CallsAreTyped'
      /\ UNCHANGED <<posts, revisions, documents, settings, memo, gone, outages, missed>>
      /\ calls[c].do \notin {"index", "deindex"} /\ calls'[c].do \notin {"index", "deindex"}
      /\ \A d \in Call : d # c => calls'[d] = calls[d]
  BY NotesKeep
<1>2. P!TypeOK' /\ P!HistoryIsWhole' /\ P!MemoIsEarned' /\ P!PinnedBeforeFirst'
  BY <1>1 DEF P!BoardInv, P!TypeOK, P!HistoryIsWhole, P!Version, P!MemoIsEarned,
          P!PinnedBeforeFirst
<1>3. \A p \in Post : P!Followed(p) => P!Followed(p)'
  BY <1>1, FollowedStays DEF P!Version
<1>4. P!SearchCatchesUp'
  BY <1>1, <1>3 DEF P!BoardInv, P!SearchCatchesUp
<1> QED BY <1>1, <1>2, <1>4 DEF P!BoardInv

\* The row and its first revision commit together, and the call goes on to index it.
LEMMA PostInsertStep ==
  ASSUME P!Bounds, P!BoardInv, NEW c \in Call, P!Insert(c) PROVE P!BoardInv'
<1>1. PICK p \in Post :
        /\ posts[p] = None
        /\ \A d \in Call : calls[d].do \in {"index", "deindex"} => calls[d].post # p
        /\ posts' = [posts EXCEPT ![p] = [author |-> calls[c].author, org |-> calls[c].org,
                                          title |-> calls[c].title, version |-> 1]]
        /\ revisions' = [revisions EXCEPT ![p] = {1}]
        /\ P!Then(c, [do |-> "index", post |-> p, version |-> 1])
  BY DEF P!Insert
<1>2. PICK fresh : fresh = [author |-> calls[c].author, org |-> calls[c].org,
                            title |-> calls[c].title, version |-> 1]
  OBVIOUS
<1>3. calls[c].do = "insert" /\ UNCHANGED <<documents, settings, memo, gone, outages, missed>>
  BY DEF P!Insert, P!engine
<1>4. 1 \in 1 .. MaxVersion
  BY DEF P!Bounds
<1>5. fresh \in P!PostRow /\ fresh.version = 1 /\ fresh # None
  BY <1>2, <1>3, <1>4, TaskOfACall DEF P!BoardInv, P!PostRow, P!Bounds
<1>6. posts' = [posts EXCEPT ![p] = fresh]
  BY <1>1, <1>2
<1>7. PICK what : what = [do |-> "index", post |-> p, version |-> 1]
  OBVIOUS
<1>8. what \in P!Task /\ P!Then(c, what) /\ what.do = "index" /\ what.post = p /\ what.version = 1
  BY <1>1, <1>4, <1>7 DEF P!Task
<1>9. /\ P!CallsAreTyped' /\ calls'[c] = what
      /\ \A d \in Call : d # c => calls'[d] = calls[d]
  BY <1>8, TasksAreTyped DEF P!BoardInv
<1>10. P!TypeOK'
  BY <1>1, <1>3, <1>4, <1>5, <1>6 DEF P!BoardInv, P!TypeOK
<1>11. P!Version(p)' = 1 /\ \A q \in Post : q # p => P!Version(q)' = P!Version(q)
         /\ posts'[q] = posts[q]
  BY <1>5, <1>6 DEF P!BoardInv, P!TypeOK, P!Version
<1>12. P!HistoryIsWhole'
  <2>1. revisions'[p] = 1 .. 1 /\ \A q \in Post : q # p => revisions'[q] = revisions[q]
    <3>1. {1} = 1 .. 1
      OBVIOUS
    <3> QED BY <1>1, <3>1 DEF P!BoardInv, P!TypeOK
  <2> QED BY <1>11, <2>1 DEF P!BoardInv, P!HistoryIsWhole
<1>13. P!MemoIsEarned' /\ P!PinnedBeforeFirst'
  BY <1>3 DEF P!BoardInv, P!MemoIsEarned, P!PinnedBeforeFirst
<1>14. P!Followed(p)'
  BY <1>8, <1>9, <1>11 DEF P!Followed
<1>15. \A q \in Post : q # p /\ P!Followed(q) => P!Followed(q)'
  BY <1>3, <1>9, <1>11, FollowedStays
<1>16. P!SearchCatchesUp'
  <2>1. ASSUME NEW d \in Call, calls'[d].do = "deindex" PROVE posts'[calls'[d].post] = None
    <3>1. d # c /\ calls'[d] = calls[d] /\ calls[d].post # p /\ calls[d].post \in Post
      BY <1>1, <1>8, <1>9, <2>1, TaskOfACall DEF P!BoardInv
    <3> QED BY <1>11, <2>1, <3>1 DEF P!BoardInv, P!SearchCatchesUp
  <2> QED BY <1>3, <1>14, <1>15, <2>1 DEF P!BoardInv, P!SearchCatchesUp
<1> QED BY <1>9, <1>10, <1>12, <1>13, <1>16 DEF P!BoardInv

\* So do a row's next version and its revision.
LEMMA PostUpdateStep ==
  ASSUME P!Bounds, P!BoardInv, NEW c \in Call, P!Update(c) PROVE P!BoardInv'
<1>1. calls[c].do = "update" /\ calls[c].post \in Post
      /\ UNCHANGED <<documents, settings, memo, gone, outages, missed>>
  BY TaskOfACall DEF P!BoardInv, P!Update, P!engine
<1>2. PICK p \in Post : p = calls[c].post
  BY <1>1
<1>3. PICK v : v = P!Version(p)
  OBVIOUS
<1>4. /\ posts[p] # None /\ v < MaxVersion
      /\ posts' = [posts EXCEPT ![p].version = posts[p].version + 1]
      /\ revisions' = [revisions EXCEPT ![p] = revisions[p] \cup {v + 1}]
      /\ P!Then(c, [do |-> "index", post |-> p, version |-> v + 1])
  BY <1>2, <1>3 DEF P!Update, P!Live
<1>5. v \in 0 .. MaxVersion /\ posts[p] \in P!PostRow /\ v = posts[p].version /\ MaxVersion \in Nat
  BY <1>3, <1>4, VersionsAreBounded DEF P!BoardInv, P!Bounds
<1>6. PICK next : next = [posts[p] EXCEPT !.version = v + 1]
  OBVIOUS
<1>7. v + 1 \in 1 .. MaxVersion
  BY <1>4, <1>5
<1>8. next \in P!PostRow /\ next.version = v + 1 /\ next # None
  <2>1. next \in P!PostRow /\ next.version = v + 1
    BY <1>5, <1>6, <1>7 DEF P!PostRow
  <2> QED BY <2>1 DEF P!Bounds
<1>9. posts' = [posts EXCEPT ![p] = next]
  BY <1>4, <1>5, <1>6
<1>10. PICK what : what = [do |-> "index", post |-> p, version |-> v + 1]
  OBVIOUS
<1>11. what \in P!Task /\ P!Then(c, what) /\ what.do = "index" /\ what.post = p
       /\ what.version = v + 1
  BY <1>4, <1>7, <1>10 DEF P!Task
<1>12. /\ P!CallsAreTyped' /\ calls'[c] = what
       /\ \A d \in Call : d # c => calls'[d] = calls[d]
  BY <1>11, TasksAreTyped DEF P!BoardInv
<1>13. P!TypeOK'
  <2>1. revisions[p] \cup {v + 1} \in SUBSET (1 .. MaxVersion)
    BY <1>7 DEF P!BoardInv, P!TypeOK
  <2>2. posts' \in [Post -> P!PostRow \cup {None}]
    BY <1>8, <1>9 DEF P!BoardInv, P!TypeOK
  <2>3. revisions' \in [Post -> SUBSET (1 .. MaxVersion)]
    BY <1>4, <2>1 DEF P!BoardInv, P!TypeOK
  <2> QED BY <1>1, <2>2, <2>3 DEF P!BoardInv, P!TypeOK
<1>14. /\ P!Version(p)' = v + 1
       /\ \A q \in Post : q # p => P!Version(q)' = P!Version(q) /\ posts'[q] = posts[q]
  BY <1>8, <1>9 DEF P!BoardInv, P!TypeOK, P!Version
<1>15. P!HistoryIsWhole'
  <2>1. revisions'[p] = 1 .. v + 1
    <3>1. revisions[p] = 1 .. v
      BY <1>3 DEF P!BoardInv, P!HistoryIsWhole
    <3>2. (1 .. v) \cup {v + 1} = 1 .. v + 1
      BY <1>5
    <3> QED BY <1>4, <3>1, <3>2 DEF P!BoardInv, P!TypeOK
  <2>2. \A q \in Post : q # p => revisions'[q] = revisions[q]
    BY <1>4 DEF P!BoardInv, P!TypeOK
  <2> QED BY <1>14, <2>1, <2>2 DEF P!BoardInv, P!HistoryIsWhole
<1>16. P!MemoIsEarned' /\ P!PinnedBeforeFirst'
  BY <1>1 DEF P!BoardInv, P!MemoIsEarned, P!PinnedBeforeFirst
<1>17. P!Followed(p)'
  BY <1>11, <1>12, <1>14 DEF P!Followed
<1>18. \A q \in Post : q # p /\ P!Followed(q) => P!Followed(q)'
  BY <1>1, <1>12, <1>14, FollowedStays
<1>19. P!SearchCatchesUp'
  <2>1. ASSUME NEW d \in Call, calls'[d].do = "deindex" PROVE posts'[calls'[d].post] = None
    <3>1. d # c /\ calls'[d] = calls[d] /\ calls[d].post \in Post
      BY <1>11, <1>12, <2>1, TaskOfACall DEF P!BoardInv
    <3>2. posts[calls[d].post] = None
      BY <2>1, <3>1 DEF P!BoardInv, P!SearchCatchesUp
    <3> QED BY <1>4, <1>14, <3>1, <3>2
  <2> QED BY <1>1, <1>17, <1>18, <2>1 DEF P!BoardInv, P!SearchCatchesUp
<1> QED BY <1>12, <1>13, <1>15, <1>16, <1>19 DEF P!BoardInv

\* A deleted row takes its history with it, and the call goes on to the engine.
LEMMA PostDeleteStep ==
  ASSUME P!Bounds, P!BoardInv, NEW c \in Call, P!Delete(c) PROVE P!BoardInv'
<1>1. calls[c].do = "delete" /\ calls[c].post \in Post
      /\ UNCHANGED <<documents, settings, memo, gone, outages, missed>>
  BY TaskOfACall DEF P!BoardInv, P!Delete, P!engine
<1>2. PICK p \in Post : p = calls[c].post
  BY <1>1
<1>3. /\ posts' = [posts EXCEPT ![p] = None]
      /\ revisions' = [revisions EXCEPT ![p] = {}]
      /\ P!Then(c, [do |-> "deindex", post |-> p])
  BY <1>2 DEF P!Delete
<1>4. PICK what : what = [do |-> "deindex", post |-> p]
  OBVIOUS
<1>5. what \in P!Task /\ P!Then(c, what) /\ what.do = "deindex" /\ what.post = p
  BY <1>3, <1>4 DEF P!Task
<1>6. /\ P!CallsAreTyped' /\ calls'[c] = what
      /\ \A d \in Call : d # c => calls'[d] = calls[d]
  BY <1>5, TasksAreTyped DEF P!BoardInv
<1>7. P!TypeOK'
  BY <1>1, <1>3 DEF P!BoardInv, P!TypeOK
<1>8. /\ P!Version(p)' = 0 /\ posts'[p] = None
      /\ \A q \in Post : q # p => P!Version(q)' = P!Version(q) /\ posts'[q] = posts[q]
  BY <1>3 DEF P!BoardInv, P!TypeOK, P!Version
<1>9. P!HistoryIsWhole'
  BY <1>3, <1>8 DEF P!BoardInv, P!TypeOK, P!HistoryIsWhole
<1>10. P!MemoIsEarned' /\ P!PinnedBeforeFirst'
  BY <1>1 DEF P!BoardInv, P!MemoIsEarned, P!PinnedBeforeFirst
<1>11. P!Followed(p)'
  BY <1>5, <1>6 DEF P!Followed
<1>12. \A q \in Post : q # p /\ P!Followed(q) => P!Followed(q)'
  BY <1>1, <1>6, <1>8, FollowedStays
<1>13. P!SearchCatchesUp'
  <2>1. ASSUME NEW d \in Call, calls'[d].do = "deindex" PROVE posts'[calls'[d].post] = None
    <3>1. CASE d = c
      BY <1>5, <1>6, <1>8, <3>1
    <3>2. CASE d # c
      <4>1. calls'[d] = calls[d] /\ calls[d].post \in Post
        BY <1>6, <2>1, <3>2, TaskOfACall DEF P!BoardInv
      <4>2. posts[calls[d].post] = None
        BY <2>1, <4>1 DEF P!BoardInv, P!SearchCatchesUp
      <4> QED BY <1>8, <4>1, <4>2
    <3> QED BY <3>1, <3>2
  <2> QED BY <1>1, <1>11, <1>12, <2>1 DEF P!BoardInv, P!SearchCatchesUp
<1> QED BY <1>6, <1>7, <1>9, <1>10, <1>13 DEF P!BoardInv

\* An account's posts go with it by cascade: their documents stay, and are missed.
LEMMA LeavesStep ==
  ASSUME P!Bounds, P!BoardInv, NEW a \in Author, P!AuthorLeaves(a) PROVE P!BoardInv'
<1> DEFINE theirs == {p \in P!Live : posts[p].author = a}
<1>1. /\ posts' = [p \in Post |-> IF p \in theirs THEN None ELSE posts[p]]
      /\ revisions' = [p \in Post |-> IF p \in theirs THEN {} ELSE revisions[p]]
      /\ missed' = missed \cup theirs /\ gone' = gone \cup {a}
      /\ UNCHANGED <<documents, settings, memo, calls, outages>>
  BY DEF P!AuthorLeaves, P!engine
<1>2. theirs \subseteq Post
  BY DEF P!Live
<1> HIDE DEF theirs
<1>3. P!TypeOK'
  BY <1>1, <1>2 DEF P!BoardInv, P!TypeOK
<1>4. /\ \A p \in theirs : P!Version(p)' = 0 /\ posts'[p] = None /\ revisions'[p] = {}
      /\ \A p \in Post \ theirs : /\ P!Version(p)' = P!Version(p) /\ posts'[p] = posts[p]
                                  /\ revisions'[p] = revisions[p]
  BY <1>1, <1>2 DEF P!Version
<1>5. P!HistoryIsWhole'
  <2> SUFFICES ASSUME NEW p \in Post PROVE revisions'[p] = 1 .. P!Version(p)'
    BY DEF P!HistoryIsWhole
  <2>1. CASE p \in theirs
    <3>1. 1 .. 0 = {}
      OBVIOUS
    <3> QED BY <1>4, <2>1, <3>1
  <2>2. CASE p \notin theirs
    BY <1>4, <2>2 DEF P!BoardInv, P!HistoryIsWhole
  <2> QED BY <2>1, <2>2
<1>6. P!CallsAreTyped' /\ P!MemoIsEarned' /\ P!PinnedBeforeFirst'
  BY <1>1 DEF P!BoardInv, P!CallsAreTyped, P!MemoIsEarned, P!PinnedBeforeFirst
<1>7. \A p \in Post \ theirs : P!Followed(p) => P!Followed(p)'
  BY <1>1, <1>4, FollowedStays
<1>8. P!SearchCatchesUp'
  <2>1. ASSUME NEW d \in Call, calls'[d].do = "deindex" PROVE posts'[calls'[d].post] = None
    <3>1. calls[d].post \in Post /\ calls'[d] = calls[d]
      BY <1>1, <2>1, TaskOfACall DEF P!BoardInv
    <3>2. posts[calls[d].post] = None
      BY <2>1, <3>1 DEF P!BoardInv, P!SearchCatchesUp
    <3> QED BY <1>4, <3>1, <3>2
  <2>2. \A p \in Post \ missed' : P!Followed(p)'
    BY <1>1, <1>7 DEF P!BoardInv, P!SearchCatchesUp
  <2> QED BY <2>1, <2>2 DEF P!SearchCatchesUp
<1> QED BY <1>3, <1>5, <1>6, <1>8 DEF P!BoardInv

\* An organization's posts return to their authors in the version they had.
LEMMA OrgStep ==
  ASSUME P!Bounds, P!BoardInv, NEW o \in Org, P!OrgGone(o) PROVE P!BoardInv'
<1>1. /\ posts' = [p \in Post |-> IF p \in P!Live /\ posts[p].org = o
                                  THEN [posts[p] EXCEPT !.org = None] ELSE posts[p]]
      /\ UNCHANGED <<revisions, documents, settings, memo, calls, gone, outages, missed>>
  BY DEF P!OrgGone, P!engine
<1>2. ASSUME NEW p \in Post
      PROVE  /\ posts'[p] \in P!PostRow \cup {None} /\ P!Version(p)' = P!Version(p)
             /\ (posts'[p] = None) <=> posts[p] = None
  <2>1. CASE p \in P!Live /\ posts[p].org = o
    <3>1. PICK back : back = [posts[p] EXCEPT !.org = None]
      OBVIOUS
    <3>2. posts[p] \in P!PostRow /\ posts[p] # None
      BY <2>1 DEF P!Live, P!BoardInv, P!TypeOK
    <3>3. back \in P!PostRow /\ back.version = posts[p].version
      BY <3>1, <3>2 DEF P!PostRow
    <3>4. posts'[p] = back /\ back # None
      BY <1>1, <2>1, <3>1, <3>3 DEF P!Bounds
    <3> QED BY <3>2, <3>3, <3>4 DEF P!Version
  <2>2. CASE ~(p \in P!Live /\ posts[p].org = o)
    <3>1. posts'[p] = posts[p]
      BY <1>1, <2>2
    <3> QED BY <3>1 DEF P!BoardInv, P!TypeOK, P!Version
  <2> QED BY <2>1, <2>2
<1>3. P!TypeOK'
  <2>1. posts' \in [Post -> P!PostRow \cup {None}]
    BY <1>1, <1>2
  <2> QED BY <1>1, <2>1 DEF P!BoardInv, P!TypeOK
<1>4. P!HistoryIsWhole'
  BY <1>1, <1>2 DEF P!BoardInv, P!HistoryIsWhole
<1>5. P!CallsAreTyped' /\ P!MemoIsEarned' /\ P!PinnedBeforeFirst'
  BY <1>1 DEF P!BoardInv, P!CallsAreTyped, P!MemoIsEarned, P!PinnedBeforeFirst
<1>6. \A p \in Post : P!Followed(p) => P!Followed(p)'
  BY <1>1, <1>2, FollowedStays
<1>7. P!SearchCatchesUp'
  <2>1. \A d \in Call : calls[d].do = "deindex" => calls[d].post \in Post
    BY TaskOfACall DEF P!BoardInv
  <2> QED BY <1>1, <1>2, <1>6, <2>1 DEF P!BoardInv, P!SearchCatchesUp
<1> QED BY <1>3, <1>4, <1>5, <1>7 DEF P!BoardInv

\* What the calls that end leave behind.
LEMMA CallEnds ==
  ASSUME P!BoardInv, NEW c \in Call, P!Then(c, P!Idle)
  PROVE  /\ P!CallsAreTyped' /\ calls'[c].do = "nothing"
         /\ \A d \in Call : d # c => calls'[d] = calls[d]
<1>1. P!Idle \in P!Task /\ P!Idle.do = "nothing"
  BY DEF P!Task, P!Idle
<1> QED BY <1>1, TasksAreTyped DEF P!BoardInv

\* A document of the version the row has is found by a search; one that another
\* call overtook is missed, and so is one that was not added.
LEMMA PostIndexStep ==
  ASSUME P!Bounds, P!BoardInv, NEW c \in Call, NEW pins \in BOOLEAN, NEW adds \in BOOLEAN,
         P!Index(c, pins, adds)
  PROVE  P!BoardInv'
<1>1. /\ calls[c].do = "index" /\ calls[c].post \in Post /\ calls[c].version \in 1 .. MaxVersion
      /\ UNCHANGED <<posts, revisions, gone>> /\ P!Then(c, P!Idle)
  BY TaskOfACall DEF P!BoardInv, P!Index
<1>2. PICK p \in Post : p = calls[c].post
  BY <1>1
<1>3. PICK v \in 1 .. MaxVersion : v = calls[c].version
  BY <1>1
<1>4. memo \in {"none", "resolved"}
  BY DEF P!BoardInv, P!TypeOK, P!MemoIsEarned
<1>5. /\ memo' \in {"none", "resolved"} /\ (memo' = "resolved" <=> pins)
      /\ settings' = IF memo = "none" /\ pins THEN "pinned" ELSE settings
  BY <1>4 DEF P!Index, P!SettingsAfter
<1>6. \/ /\ pins /\ adds /\ documents' = [documents EXCEPT ![p] = v]
         /\ missed' = IF v = P!Version(p) THEN missed \ {p} ELSE missed \cup {p}
      \/ documents' = documents /\ missed' = missed \cup {p}
  BY <1>2, <1>3, <1>5 DEF P!Index, P!Mark
<1>7. outages' \in 0 .. MaxOutages
  BY DEF P!Index, P!BoardInv, P!TypeOK, P!Bounds
<1>8. /\ P!CallsAreTyped' /\ calls'[c].do = "nothing"
      /\ \A d \in Call : d # c => calls'[d] = calls[d]
  BY <1>1, CallEnds
<1>9. v \in 0 .. MaxVersion /\ v > 0
  BY <1>3 DEF P!Bounds
<1>10. settings' \in {"default", "pinned"} /\ (settings = "pinned" => settings' = "pinned")
       /\ (memo' = "resolved" => settings' = "pinned")
  BY <1>4, <1>5 DEF P!BoardInv, P!TypeOK, P!MemoIsEarned
<1>11. P!TypeOK'
  <2>1. documents' \in [Post -> 0 .. MaxVersion]
    BY <1>6, <1>9 DEF P!BoardInv, P!TypeOK
  <2>2. missed' \subseteq Post
    BY <1>6 DEF P!BoardInv, P!TypeOK
  <2> QED BY <1>1, <1>5, <1>7, <1>10, <2>1, <2>2 DEF P!BoardInv, P!TypeOK
<1>12. \A q \in Post : P!Version(q)' = P!Version(q)
  BY <1>1 DEF P!Version
<1>13. P!HistoryIsWhole'
  BY <1>1, <1>12 DEF P!BoardInv, P!HistoryIsWhole
<1>14. P!MemoIsEarned'
  BY <1>5, <1>10 DEF P!MemoIsEarned
<1>15. P!PinnedBeforeFirst'
  <2>1. pins => settings' = "pinned"
    BY <1>5, <1>10
  <2> QED BY <1>6, <1>10, <2>1 DEF P!BoardInv, P!PinnedBeforeFirst
<1>16. p \notin missed' => P!Followed(p)'
  BY <1>6, <1>12 DEF P!Followed, P!BoardInv, P!TypeOK
<1>17. ASSUME NEW q \in Post, q # p, q \notin missed' PROVE P!Followed(q)'
  <2>1. q \notin missed /\ documents'[q] = documents[q]
    BY <1>6, <1>17 DEF P!BoardInv, P!TypeOK
  <2>2. P!Followed(q)
    BY <2>1 DEF P!BoardInv, P!SearchCatchesUp
  <2> QED BY <1>2, <1>8, <1>12, <1>17, <2>1, <2>2, FollowedStays
<1>18. P!SearchCatchesUp'
  <2>1. ASSUME NEW d \in Call, calls'[d].do = "deindex" PROVE posts'[calls'[d].post] = None
    BY <1>1, <1>8, <2>1 DEF P!BoardInv, P!SearchCatchesUp
  <2> QED BY <1>16, <1>17, <2>1 DEF P!SearchCatchesUp
<1> QED BY <1>8, <1>11, <1>13, <1>14, <1>15, <1>18 DEF P!BoardInv

\* A document is taken out of a post that is gone, and of no other.
LEMMA PostDeindexStep ==
  ASSUME P!Bounds, P!BoardInv, NEW c \in Call, NEW ok \in BOOLEAN, P!Deindex(c, ok)
  PROVE  P!BoardInv'
<1>1. /\ calls[c].do = "deindex" /\ calls[c].post \in Post
      /\ UNCHANGED <<posts, revisions, settings, memo, gone>> /\ P!Then(c, P!Idle)
  BY TaskOfACall DEF P!BoardInv, P!Deindex
<1>2. PICK p \in Post : p = calls[c].post
  BY <1>1
<1>3. \/ documents' = [documents EXCEPT ![p] = 0] /\ missed' = missed \ {p}
      \/ documents' = documents /\ missed' = missed \cup {p}
  BY <1>2 DEF P!Deindex, P!Mark
<1>4. outages' \in 0 .. MaxOutages /\ 0 \in 0 .. MaxVersion
  BY DEF P!Deindex, P!BoardInv, P!TypeOK, P!Bounds
<1>5. /\ P!CallsAreTyped' /\ calls'[c].do = "nothing"
      /\ \A d \in Call : d # c => calls'[d] = calls[d]
  BY <1>1, CallEnds
<1>6. P!TypeOK'
  <2>1. documents' \in [Post -> 0 .. MaxVersion]
    BY <1>3, <1>4 DEF P!BoardInv, P!TypeOK
  <2> QED BY <1>1, <1>3, <1>4, <2>1 DEF P!BoardInv, P!TypeOK
<1>7. (\A q \in Post : P!Version(q)' = P!Version(q)) /\ P!Version(p) = 0
  BY <1>1, <1>2 DEF P!Version, P!BoardInv, P!SearchCatchesUp
<1>8. P!HistoryIsWhole' /\ P!MemoIsEarned'
  BY <1>1, <1>7 DEF P!BoardInv, P!HistoryIsWhole, P!MemoIsEarned
<1>9. P!PinnedBeforeFirst'
  BY <1>1, <1>3 DEF P!BoardInv, P!PinnedBeforeFirst, P!TypeOK
<1>10. p \notin missed' => P!Followed(p)'
  BY <1>3, <1>7 DEF P!Followed, P!BoardInv, P!TypeOK
<1>11. ASSUME NEW q \in Post, q # p, q \notin missed' PROVE P!Followed(q)'
  <2>1. q \notin missed /\ documents'[q] = documents[q]
    BY <1>3, <1>11 DEF P!BoardInv, P!TypeOK
  <2>2. P!Followed(q)
    BY <2>1 DEF P!BoardInv, P!SearchCatchesUp
  <2> QED BY <1>2, <1>5, <1>7, <1>11, <2>1, <2>2, FollowedStays
<1>12. P!SearchCatchesUp'
  <2>1. ASSUME NEW d \in Call, calls'[d].do = "deindex" PROVE posts'[calls'[d].post] = None
    BY <1>1, <1>5, <2>1 DEF P!BoardInv, P!SearchCatchesUp
  <2> QED BY <1>10, <1>11, <2>1 DEF P!SearchCatchesUp
<1> QED BY <1>5, <1>6, <1>8, <1>9, <1>12 DEF P!BoardInv

\* A rebuild brings in what it read: the posts written since are missed.
LEMMA PostRebuildStep ==
  ASSUME P!Bounds, P!BoardInv, NEW c \in Call, NEW ok \in BOOLEAN, P!Rebuild(c, ok)
  PROVE  P!BoardInv'
<1> DEFINE docs == calls[c].docs
           read == {p \in Post : docs[p] > 0}
<1>1. /\ calls[c].do = "rebuild" /\ docs \in [Post -> 0 .. MaxVersion]
      /\ UNCHANGED <<posts, revisions, memo, gone>> /\ P!Then(c, P!Idle)
  BY TaskOfACall DEF P!BoardInv, P!Rebuild
<1>2. \/ /\ settings' = "pinned"
         /\ documents' = [p \in Post |-> IF p \in read THEN docs[p] ELSE documents[p]]
         /\ missed' = (missed \ {p \in read : docs[p] = P!Version(p)})
                         \cup {p \in read : docs[p] # P!Version(p)}
      \/ settings' = settings /\ documents' = documents /\ missed' = missed
  BY DEF P!Rebuild
<1>3. read \subseteq Post /\ \A p \in Post : docs[p] \in 0 .. MaxVersion
  BY <1>1
<1> HIDE DEF read, docs
<1>4. outages' \in 0 .. MaxOutages
  BY DEF P!Rebuild, P!BoardInv, P!TypeOK, P!Bounds
<1>5. /\ P!CallsAreTyped' /\ calls'[c].do = "nothing"
      /\ \A d \in Call : d # c => calls'[d] = calls[d]
  BY <1>1, CallEnds
<1>6. P!TypeOK'
  <2>1. documents' \in [Post -> 0 .. MaxVersion]
    BY <1>2, <1>3 DEF P!BoardInv, P!TypeOK
  <2> QED BY <1>1, <1>2, <1>3, <1>4, <2>1 DEF P!BoardInv, P!TypeOK
<1>7. \A q \in Post : P!Version(q)' = P!Version(q)
  BY <1>1 DEF P!Version
<1>8. P!HistoryIsWhole' /\ P!MemoIsEarned'
  BY <1>1, <1>2, <1>7 DEF P!BoardInv, P!HistoryIsWhole, P!MemoIsEarned
<1>9. P!PinnedBeforeFirst'
  BY <1>2 DEF P!BoardInv, P!PinnedBeforeFirst
<1>10. ASSUME NEW q \in Post, q \notin missed' PROVE P!Followed(q)'
  <2>1. CASE q \notin missed /\ documents'[q] = documents[q]
    <3>1. P!Followed(q)
      BY <2>1 DEF P!BoardInv, P!SearchCatchesUp
    <3> QED BY <1>1, <1>5, <1>7, <2>1, <3>1, FollowedStays
  <2>2. CASE documents'[q] = P!Version(q)
    BY <1>7, <2>2 DEF P!Followed
  <2> QED BY <1>2, <1>10, <2>1, <2>2
<1>11. P!SearchCatchesUp'
  <2>1. ASSUME NEW d \in Call, calls'[d].do = "deindex" PROVE posts'[calls'[d].post] = None
    BY <1>1, <1>5, <2>1 DEF P!BoardInv, P!SearchCatchesUp
  <2> QED BY <1>10, <2>1 DEF P!SearchCatchesUp
<1> QED BY <1>5, <1>6, <1>8, <1>9, <1>11 DEF P!BoardInv

\* A new process asks for the settings again, and what its calls had still to index is
\* missed; a step of nothing here changes nothing.
LEMMA PostRestartStep ==
  ASSUME P!BoardInv, P!Restart \/ UNCHANGED P!vars PROVE P!BoardInv'
<1>1. CASE UNCHANGED P!vars
  <2>1. UNCHANGED <<posts, revisions, documents, settings, memo, calls, gone, outages, missed>>
    BY <1>1 DEF P!vars, P!engine
  <2> QED BY <2>1 DEF P!BoardInv, P!TypeOK, P!CallsAreTyped, P!HistoryIsWhole, P!Version,
                      P!MemoIsEarned, P!PinnedBeforeFirst, P!SearchCatchesUp, P!Followed
<1>2. CASE P!Restart
  <2>1. /\ UNCHANGED <<posts, revisions, documents, settings, gone, outages>> /\ memo' = "none"
        /\ calls' = [c \in Call |-> P!Idle] /\ missed' = missed \cup P!Pending
    BY <1>2 DEF P!Restart
  <2>2. P!Pending \subseteq Post
    <3>1. \A c \in Call : calls[c].do \in {"index", "deindex"} => calls[c].post \in Post
      BY TaskOfACall DEF P!BoardInv
    <3> QED BY <3>1 DEF P!Pending
  <2>3. P!TypeOK' /\ P!HistoryIsWhole' /\ P!MemoIsEarned' /\ P!PinnedBeforeFirst'
    BY <2>1, <2>2 DEF P!BoardInv, P!TypeOK, P!HistoryIsWhole, P!Version, P!MemoIsEarned,
                      P!PinnedBeforeFirst
  <2>4. P!CallsAreTyped'
    BY <2>1 DEF P!CallsAreTyped, P!Task
  <2>5. P!SearchCatchesUp'
    <3>1. \A p \in Post \ missed' : documents[p] = P!Version(p)
      BY <2>1 DEF P!BoardInv, P!SearchCatchesUp, P!Followed, P!Pending
    <3>2. \A c \in Call : calls'[c].do # "deindex"
      BY <2>1 DEF P!Idle
    <3> QED BY <2>1, <3>1, <3>2 DEF P!SearchCatchesUp, P!Followed, P!Version
  <2> QED BY <2>3, <2>4, <2>5 DEF P!BoardInv
<1> QED BY <1>1, <1>2

\* Every step of an author, a call or the engine keeps the board.
LEMMA BoardStep == P!Bounds /\ P!BoardInv /\ [P!Next]_P!vars => P!BoardInv'
<1> SUFFICES ASSUME P!Bounds, P!BoardInv, [P!Next]_P!vars PROVE P!BoardInv'
  OBVIOUS
<1>1. ASSUME NEW c \in Call, Notes(c) PROVE P!BoardInv'
  BY <1>1, NotesStep
<1>2. ASSUME NEW c \in Call, P!Insert(c) \/ P!Update(c) \/ P!Delete(c) PROVE P!BoardInv'
  BY <1>2, PostInsertStep, PostUpdateStep, PostDeleteStep
<1>3. ASSUME NEW c \in Call, NEW pins \in BOOLEAN, NEW adds \in BOOLEAN, P!Index(c, pins, adds)
      PROVE  P!BoardInv'
  BY <1>3, PostIndexStep
<1>4. ASSUME NEW c \in Call, NEW ok \in BOOLEAN, P!Deindex(c, ok) \/ P!Rebuild(c, ok)
      PROVE  P!BoardInv'
  BY <1>4, PostDeindexStep, PostRebuildStep
<1>5. ASSUME NEW a \in Author, P!AuthorLeaves(a) PROVE P!BoardInv'
  BY <1>5, LeavesStep
<1>6. ASSUME NEW o \in Org, P!OrgGone(o) PROVE P!BoardInv'
  BY <1>6, OrgStep
<1>7. ASSUME P!Restart \/ UNCHANGED P!vars PROVE P!BoardInv'
  BY <1>7, PostRestartStep
<1> QED BY <1>1, <1>2, <1>3, <1>4, <1>5, <1>6, <1>7 DEF P!Next, Notes

\* The board (server/actions/post.ts, lib/search.ts): a post's history has a
\* revision per version, its document is the row's once its writes are in, unless one failed or
\* was overtaken, and no document is written before the settings are pinned.
THEOREM PostsAreKept ==
  ASSUME P!Bounds
  PROVE  P!Spec => [](P!TypeOK /\ P!HistoryIsWhole /\ P!SearchFollows /\ P!PinnedBeforeFirst)
<1>1. P!Init => P!BoardInv
  BY BoardBegins
<1>2. P!BoardInv /\ [P!Next]_P!vars => P!BoardInv'
  BY BoardStep
<1>3. P!BoardInv => P!TypeOK /\ P!HistoryIsWhole /\ P!SearchFollows /\ P!PinnedBeforeFirst
  BY DEF P!BoardInv, P!SearchCatchesUp, P!Followed, P!SearchFollows, P!Idle
<1> QED BY <1>1, <1>2, <1>3, PTL DEF P!Spec

------------------------------------------------------------------------------
(* The list of posts on screen.                                              *)

\* The list starts as the server rendered it.
LEMMA CacheBegins == L!Bounds /\ L!Init => L!CacheInv
<1> SUFFICES ASSUME L!Bounds, L!Init PROVE L!CacheInv
  OBVIOUS
<1>1. rows \in [Entry -> 0 .. MaxVersion] /\ cache = L!Listed /\ fetch = None
      /\ muts = [m \in Mutation |-> L!Idle] /\ form = "idle"
  BY DEF L!Bounds, L!Init
<1>2. L!Listed \in L!List
  BY <1>1 DEF L!Bounds, L!Listed, L!List, L!Shown
<1>3. L!TypeOK
  BY <1>1, <1>2 DEF L!TypeOK, L!List, L!Idle
<1>4. L!MutationsAreTyped
  BY <1>1 DEF L!MutationsAreTyped
<1> QED BY <1>1, <1>3, <1>4 DEF L!CacheInv, L!FetchIsFresh, L!SettledListIsTrue

\* What the server holds is a list.
LEMMA ListedIsAList ==
  ASSUME L!Bounds, L!TypeOK PROVE L!Listed \in L!List /\ L!Listed # None
<1>1. L!Listed \in L!List
  BY DEF L!Bounds, L!TypeOK, L!Listed, L!List, L!Shown
<1> QED BY <1>1 DEF L!Bounds

\* A mutation that goes on is typed as before, and the others are as they were.
LEMMA SetKeeps ==
  ASSUME L!Bounds, L!MutationsAreTyped, NEW m \in Mutation,
         NEW what \in {L!Idle} \cup
           [at : {"sent", "ok", "error"}, op : {"create", "edit", "delete"},
            post : Entry, previous : L!List],
         L!Set(m, what)
  PROVE  /\ L!MutationsAreTyped' /\ muts'[m] = what
         /\ \A n \in Mutation : n # m => muts'[n] = muts[n]
         /\ \A n \in Mutation : muts'[n].at \in {"idle", "sent", "ok", "error"}
<1>1. muts' = [muts EXCEPT ![m] = what]
  BY DEF L!Set
<1>2. /\ L!MutationsAreTyped' /\ muts'[m] = what
      /\ \A n \in Mutation : n # m => muts'[n] = muts[n]
  BY <1>1 DEF L!MutationsAreTyped, L!List, L!Shown, L!Idle
<1>3. ASSUME NEW n \in Mutation PROVE muts'[n].at \in {"idle", "sent", "ok", "error"}
  <2>1. muts'[n] \in {L!Idle} \cup
           [at : {"sent", "ok", "error"}, op : {"create", "edit", "delete"},
            post : Entry, previous : L!List]
    BY <1>2 DEF L!MutationsAreTyped, L!List, L!Shown, L!Idle
  <2> QED BY <2>1 DEF L!Idle
<1> QED BY <1>2, <1>3

\* onMutate: the row changes on screen before the server has answered.
LEMMA OptimisticStep ==
  ASSUME L!Bounds, L!CacheInv, NEW m \in Mutation, NEW p \in Entry,
         L!Create(m, p) \/ L!Edit(m, p) \/ L!Remove(m, p)
  PROVE  L!CacheInv'
<1> USE DEF L!CacheInv
<1>1. PICK op \in {"create", "edit", "delete"}, changed \in L!List :
        L!Optimistic(m, op, p, changed) /\ rows' = rows /\ form' \in {"idle", form}
  <2>1. CASE L!Create(m, p)
    <3>1. [cache EXCEPT ![Draft] = 1] \in L!List
      BY DEF L!Bounds, L!TypeOK, L!List, L!Shown
    <3> QED BY <2>1, <3>1 DEF L!Create
  <2>2. CASE L!Edit(m, p)
    <3>1. [cache EXCEPT ![p] = @ + 1] \in L!List
      <4>1. p \in L!Shown /\ cache[p] \in 0 .. MaxVersion /\ cache[p] < MaxVersion
        BY <2>2 DEF L!Edit, L!TypeOK, L!Shown
      <4>2. cache[p] + 1 \in 0 .. MaxVersion
        BY <4>1 DEF L!Bounds
      <4> QED BY <4>1, <4>2 DEF L!TypeOK, L!List
    <3> QED BY <2>2, <3>1 DEF L!Edit
  <2>3. CASE L!Remove(m, p)
    <3>1. [cache EXCEPT ![p] = 0] \in L!List
      BY DEF L!Bounds, L!TypeOK, L!List, L!Shown
    <3> QED BY <2>3, <3>1 DEF L!Remove
  <2> QED BY <2>1, <2>2, <2>3
<1>2. PICK what : what = [at |-> "sent", op |-> op, post |-> p, previous |-> cache]
  OBVIOUS
<1>3. fetch' = None /\ cache' = changed /\ L!Set(m, what)
  BY <1>1, <1>2 DEF L!Optimistic
<1>4. what \in [at : {"sent", "ok", "error"}, op : {"create", "edit", "delete"},
                post : Entry, previous : L!List] /\ what.at = "sent"
  BY <1>2 DEF L!TypeOK, L!List
<1>5. /\ L!MutationsAreTyped' /\ muts'[m] = what
      /\ \A n \in Mutation : muts'[n].at \in {"idle", "sent", "ok", "error"}
  BY <1>3, <1>4, SetKeeps
<1>6. L!TypeOK'
  BY <1>1, <1>3, <1>5 DEF L!TypeOK, L!List
<1>7. L!FetchIsFresh' /\ L!SettledListIsTrue'
  BY <1>3, <1>4, <1>5 DEF L!FetchIsFresh, L!SettledListIsTrue, L!Idle
<1> QED BY <1>5, <1>6, <1>7

\* The server action commits, or refuses: a list read before is stale until the answer.
LEMMA AnsweringStep ==
  ASSUME L!Bounds, L!CacheInv, NEW m \in Mutation, L!Commits(m) \/ L!Refuses(m)
  PROVE  L!CacheInv'
<1> USE DEF L!CacheInv
<1>1. PICK result \in {"ok", "error"} :
        /\ muts[m].at = "sent" /\ L!Set(m, [muts[m] EXCEPT !.at = result])
        /\ result = "ok" \/ rows' = rows
        /\ UNCHANGED <<cache, fetch, form>>
  BY DEF L!Commits, L!Refuses
<1>2. rows' \in [Entry -> 0 .. MaxVersion]
  <2>1. CASE rows' = rows
    BY <2>1 DEF L!TypeOK
  <2>2. CASE rows' # rows
    <3>1. L!Commits(m)
      BY <2>2 DEF L!Refuses
    <3>2. PICK q : q = muts[m].post
      OBVIOUS
    <3>3. q \in Entry
      <4>1. muts[m] \in {L!Idle} \cup
             [at : {"sent", "ok", "error"}, op : {"create", "edit", "delete"},
              post : Entry, previous : L!List]
        BY DEF L!MutationsAreTyped
      <4> QED BY <1>1, <3>2, <4>1 DEF L!Idle
    <3>4. \/ rows' = [rows EXCEPT ![q] = 1] \/ rows' = [rows EXCEPT ![q] = 0]
          \/ rows[q] \in 1 .. MaxVersion - 1 /\ rows' = [rows EXCEPT ![q] = @ + 1]
      BY <3>1, <3>2 DEF L!Commits
    <3> QED BY <3>3, <3>4 DEF L!TypeOK, L!Bounds
  <2> QED BY <2>1, <2>2
<1>3. PICK what : what = [muts[m] EXCEPT !.at = result]
  OBVIOUS
<1>4. what \in [at : {"sent", "ok", "error"}, op : {"create", "edit", "delete"},
                post : Entry, previous : L!List] /\ what.at = result
  <2>1. muts[m] \in {L!Idle} \cup
             [at : {"sent", "ok", "error"}, op : {"create", "edit", "delete"},
              post : Entry, previous : L!List]
    BY DEF L!MutationsAreTyped
  <2> QED BY <1>1, <1>3, <2>1 DEF L!Idle
<1>5. /\ L!MutationsAreTyped' /\ muts'[m] = what
      /\ \A n \in Mutation : n # m => muts'[n] = muts[n]
      /\ \A n \in Mutation : muts'[n].at \in {"idle", "sent", "ok", "error"}
  BY <1>1, <1>3, <1>4, SetKeeps
<1>6. L!TypeOK'
  BY <1>1, <1>2, <1>5 DEF L!TypeOK
<1>7. muts'[m] # L!Idle
  BY <1>4, <1>5 DEF L!Idle
<1>8. L!SettledListIsTrue'
  BY <1>7 DEF L!SettledListIsTrue
<1>9. L!FetchIsFresh'
  <2>1. CASE result = "ok"
    BY <1>4, <1>5, <2>1 DEF L!FetchIsFresh
  <2>2. CASE rows' = rows
    <3>1. L!Listed' = L!Listed
      BY <2>2 DEF L!Listed
    <3>2. \A n \in Mutation : muts[n].at = "ok" => muts'[n].at = "ok"
      BY <1>1, <1>5
    <3> QED BY <1>1, <3>1, <3>2 DEF L!FetchIsFresh
  <2> QED BY <1>1, <2>1, <2>2
<1> QED BY <1>5, <1>6, <1>8, <1>9

\* onSuccess, onError, onSettled: whatever is on screen, the list is fetched again.
LEMMA SettledStep ==
  ASSUME L!Bounds, L!CacheInv, NEW m \in Mutation, L!Succeeds(m) \/ L!Fails(m)
  PROVE  L!CacheInv'
<1> USE DEF L!CacheInv
<1>1. /\ muts[m].at \in {"ok", "error"} /\ L!Set(m, L!Idle) /\ rows' = rows
      /\ fetch' = L!Listed /\ cache' \in {cache, muts[m].previous}
      /\ form' \in {"idle", "error", "success", form}
  BY DEF L!Succeeds, L!Fails
<1>2. muts[m].previous \in L!List
  <2>1. muts[m] \in {L!Idle} \cup
             [at : {"sent", "ok", "error"}, op : {"create", "edit", "delete"},
              post : Entry, previous : L!List]
    BY DEF L!MutationsAreTyped
  <2> QED BY <1>1, <2>1 DEF L!Idle
<1>3. L!MutationsAreTyped'
      /\ \A n \in Mutation : muts'[n].at \in {"idle", "sent", "ok", "error"}
  BY <1>1, SetKeeps
<1>4. L!Listed' = L!Listed /\ L!Listed \in L!List /\ L!Listed # None
  BY <1>1, ListedIsAList DEF L!Listed
<1>5. L!TypeOK'
  BY <1>1, <1>2, <1>3, <1>4 DEF L!TypeOK, L!List
<1> QED BY <1>1, <1>3, <1>4, <1>5 DEF L!FetchIsFresh, L!SettledListIsTrue

\* The list arrives: it is what the server holds, or will be asked for again.
LEMMA ArrivesStep == ASSUME L!Bounds, L!CacheInv, L!Arrives PROVE L!CacheInv'
<1> USE DEF L!CacheInv
<1>1. fetch # None /\ cache' = fetch /\ fetch' = None /\ UNCHANGED <<rows, muts, form>>
  BY DEF L!Arrives
<1>2. L!TypeOK' /\ L!MutationsAreTyped' /\ L!Listed' = L!Listed
  BY <1>1 DEF L!TypeOK, L!MutationsAreTyped, L!Listed
<1>3. L!SettledListIsTrue'
  BY <1>1, <1>2 DEF L!SettledListIsTrue, L!FetchIsFresh, L!Idle
<1> QED BY <1>1, <1>2, <1>3 DEF L!FetchIsFresh

\* The post list (components/posts): once every mutation has settled and no list is on its
\* way, what is shown is what the server holds, whatever was rolled back in between.
THEOREM ListSettles == ASSUME L!Bounds PROVE L!Spec => [](L!TypeOK /\ L!SettledListIsTrue)
<1>1. L!Init => L!CacheInv
  BY CacheBegins
<1>2. L!CacheInv /\ [L!Next]_L!vars => L!CacheInv'
  <2> SUFFICES ASSUME L!CacheInv, [L!Next]_L!vars PROVE L!CacheInv'
    OBVIOUS
  <2>1. CASE UNCHANGED L!vars
    BY <2>1 DEF L!vars, L!CacheInv, L!TypeOK, L!MutationsAreTyped, L!FetchIsFresh,
       L!SettledListIsTrue, L!Listed
  <2> QED BY <2>1, OptimisticStep, AnsweringStep, SettledStep, ArrivesStep DEF L!Next
<1>3. L!CacheInv => L!TypeOK /\ L!SettledListIsTrue
  BY DEF L!CacheInv
<1> QED BY <1>1, <1>2, <1>3, PTL DEF L!Spec

------------------------------------------------------------------------------
(* The notification feed.                                                    *)

\* The size of a set here is its size there.
LEMMA FeedCounts == \A S : N!Cardinality(S) = Cardinality(S)
BY DEF N!Cardinality, Cardinality

\* A list shows a notification if one of its pages has it.
LEMMA ShownIds ==
  ASSUME NEW ps, NEW r
  PROVE  r \in N!Ids(ps) <=>
           \E p \in DOMAIN ps : \E i \in DOMAIN ps[p].items : ps[p].items[i].id = r
BY DEF N!Ids, N!Range

\* ORDER BY id DESC: of rows numbered from 1, the newest first.
LEMMA NewestFirst ==
  ASSUME NEW n \in Nat
  PROVE  N!Newest(1 .. n) = [i \in 1 .. n |-> n + 1 - i]
<1>1. N!Cardinality(1 .. n) = n
  BY FeedCounts, FS_Interval
<1> DEFINE After(r) == N!Cardinality({q \in 1 .. n : q > r})
<1>2. ASSUME NEW r \in 1 .. n PROVE After(r) = n - r
  <2>1. {q \in 1 .. n : q > r} = r + 1 .. n
    OBVIOUS
  <2>2. PICK a \in Int : a = r + 1
    OBVIOUS
  <2>3. Cardinality(a .. n) = IF a > n THEN 0 ELSE n - a + 1
    BY FS_Interval
  <2>4. Cardinality(a .. n) = n - r
    BY <2>2, <2>3
  <2> QED BY <2>1, <2>2, <2>4, FeedCounts
<1>3. [i \in 1 .. n |-> CHOOSE r \in 1 .. n : After(r) = i - 1] = [i \in 1 .. n |-> n + 1 - i]
  <2> HIDE DEF After
  <2>1. ASSUME NEW i \in 1 .. n PROVE (CHOOSE r \in 1 .. n : After(r) = i - 1) = n + 1 - i
    <3>1. \A r \in 1 .. n : After(r) = i - 1 <=> r = n + 1 - i
      BY <1>2
    <3> QED BY <3>1
  <2> QED BY <2>1
<1> QED BY <1>1, <1>3 DEF N!Newest

\* notification.list (trpc/routers/notification.ts): the rows older than the cursor, and a
\* next cursor when there are more.
LEMMA PageRead ==
  ASSUME N!Bounds, NEW n \in 0 .. MaxRows, rows = 1 .. n, NEW below \in 1 .. MaxRows + 1
  PROVE  \E m \in 0 .. n, size \in Nat :
           /\ m < below /\ \A r \in rows : r < below => r <= m
           /\ size = IF m <= PageSize THEN m ELSE PageSize
           /\ N!Page(below) = [items |-> [i \in 1 .. size |-> N!Item(m + 1 - i)],
                               next |-> IF m > PageSize THEN m + 1 - PageSize ELSE 0]
<1>1. PICK m \in 0 .. n : m = IF n < below THEN n ELSE below - 1
  BY DEF N!Bounds
<1>2. N!Older(below) = 1 .. m
  BY <1>1 DEF N!Older, N!Bounds
<1>3. N!Cardinality(1 .. m) = m
  BY FeedCounts, FS_Interval
<1>4. N!Newest(1 .. m) = [i \in 1 .. m |-> m + 1 - i]
  BY NewestFirst
<1>5. PICK size \in Nat : size = IF m <= PageSize THEN m ELSE PageSize
  BY DEF N!Bounds
<1>6. size = IF m < PageSize THEN m ELSE PageSize
  BY <1>5 DEF N!Bounds
<1>7. N!NextCursor(1 .. m) = IF m > PageSize THEN m + 1 - PageSize ELSE 0
  BY <1>3, <1>4 DEF N!NextCursor, N!Bounds
<1>8. N!Page(below) = [items |-> [i \in 1 .. size |-> N!Item(N!Newest(1 .. m)[i])],
                       next |-> N!NextCursor(1 .. m)]
  BY <1>2, <1>3, <1>6 DEF N!Page
<1>9. \A i \in 1 .. size : N!Newest(1 .. m)[i] = m + 1 - i
  BY <1>4, <1>5 DEF N!Bounds
<1>10. N!Page(below) = [items |-> [i \in 1 .. size |-> N!Item(m + 1 - i)],
                        next |-> IF m > PageSize THEN m + 1 - PageSize ELSE 0]
  BY <1>7, <1>8, <1>9
<1>11. m < below /\ \A r \in rows : r < below => r <= m
  BY <1>1 DEF N!Bounds
<1> WITNESS m \in 0 .. n, size \in Nat
<1> QED BY <1>5, <1>10, <1>11

\* A page read: the rows between the cursor asked from and the one returned, each once.
LEMMA PageIsSound ==
  ASSUME N!Bounds, NEW n \in 0 .. MaxRows, rows = 1 .. n, NEW below \in 1 .. MaxRows + 1,
         NEW q, q = N!Page(below)
  PROVE  /\ q \in N!Pages /\ q.next \in rows \cup {0} /\ q.next < below
         /\ \A i \in DOMAIN q.items :
              /\ q.items[i] = N!Item(q.items[i].id) /\ q.items[i].id \in rows
              /\ q.next <= q.items[i].id /\ q.items[i].id < below
         /\ \A i, j \in DOMAIN q.items : q.items[i].id = q.items[j].id => i = j
         /\ \A r \in rows : q.next <= r /\ r < below =>
              \E i \in DOMAIN q.items : q.items[i].id = r
<1>1. PICK m \in 0 .. n, size \in Nat :
        /\ m < below /\ \A r \in rows : r < below => r <= m
        /\ size = IF m <= PageSize THEN m ELSE PageSize
        /\ q = [items |-> [i \in 1 .. size |-> N!Item(m + 1 - i)],
                next |-> IF m > PageSize THEN m + 1 - PageSize ELSE 0]
  BY PageRead
<1>2. PICK next : next = IF m > PageSize THEN m + 1 - PageSize ELSE 0
  OBVIOUS
<1>3. /\ next \in 0 .. MaxRows /\ next \in rows \cup {0} /\ next < below
      /\ size <= m /\ (next = 0 => size = m) /\ (next # 0 => next = m + 1 - size)
  BY <1>1, <1>2 DEF N!Bounds
<1>4. PICK items : items = [i \in 1 .. size |-> N!Item(m + 1 - i)]
  OBVIOUS
<1>5. q.items = items /\ q.next = next /\ q = [items |-> items, next |-> next]
  BY <1>1, <1>2, <1>4
<1>6. ASSUME NEW i \in 1 .. size
      PROVE  /\ m + 1 - i \in 1 .. n /\ m + 1 - i <= m /\ next <= m + 1 - i
             /\ items[i] = N!Item(m + 1 - i) /\ items[i].id = m + 1 - i
             /\ items[i] \in [id : N!Row, read : BOOLEAN]
  <2>1. m + 1 - i \in 1 .. n /\ m + 1 - i <= m /\ next <= m + 1 - i
    BY <1>3
  <2>2. PICK r \in 1 .. n : r = m + 1 - i
    BY <2>1
  <2>3. N!Item(r) = [id |-> r, read |-> r \notin unread]
    BY DEF N!Item
  <2>4. r \in N!Row
    BY DEF N!Row, N!Bounds
  <2>5. items[i] = N!Item(r)
    BY <1>4, <2>2
  <2> QED BY <2>1, <2>2, <2>3, <2>4, <2>5
<1>7. DOMAIN items = 1 .. size /\ items \in Seq([id : N!Row, read : BOOLEAN])
  BY <1>4, <1>6
<1>8. q \in N!Pages
  BY <1>3, <1>5, <1>7 DEF N!Pages
<1>9. ASSUME NEW i \in 1 .. size
      PROVE  /\ items[i] = N!Item(items[i].id) /\ items[i].id \in rows
             /\ next <= items[i].id /\ items[i].id < below
  <2>1. items[i].id = m + 1 - i
    BY <1>6
  <2> QED BY <1>1, <1>6, <2>1
<1>10. \A i, j \in 1 .. size : items[i].id = items[j].id => i = j
  BY <1>6
<1>11. ASSUME NEW r \in rows, next <= r, r < below
       PROVE  \E i \in 1 .. size : items[i].id = r
  <2>1. r <= m /\ r \in Nat /\ r >= 1
    BY <1>1, <1>11
  <2>2. PICK i \in 1 .. size : i = m + 1 - r
    BY <1>3, <1>11, <2>1
  <2>3. items[i].id = m + 1 - i
    BY <1>6
  <2> QED BY <2>1, <2>2, <2>3
<1> QED BY <1>3, <1>5, <1>7, <1>8, <1>9, <1>10, <1>11

\* The pages of a list are numbered from one, and the last has its cursor.
LEMMA LastPage ==
  ASSUME NEW ps \in Seq(N!Pages), ps # <<>>
  PROVE  /\ N!Last(ps) = ps[Len(ps)] /\ Len(ps) \in DOMAIN ps /\ Len(ps) \in Nat \ {0}
         /\ DOMAIN ps = 1 .. Len(ps) /\ N!Last(ps) \in N!Pages
BY DEF N!Last

\* Load more (notifications-feed.tsx): the next page goes behind the ones shown, and the
\* list is as sound as it was.
LEMMA PageAppended ==
  ASSUME N!Bounds, NEW n \in 0 .. MaxRows, rows = 1 .. n, NEW ps, N!Sound(ps),
         N!Last(ps).next # 0
  PROVE  \E more :
           /\ more = Append(ps, N!Page(N!Last(ps).next)) /\ N!Sound(more)
           /\ N!MarkedRight(ps) => N!MarkedRight(more)
           /\ \A r \in rows : N!Last(more).next <= r =>
                r \in N!Ids(more) \/ N!Last(ps).next <= r
           /\ N!Ids(ps) \subseteq N!Ids(more)
<1>1. PICK below : below = N!Last(ps).next
  OBVIOUS
<1>2. PICK q : q = N!Page(below)
  OBVIOUS
<1>3. ps \in Seq(N!Pages) /\ ps # <<>> /\ below \in rows
  BY <1>1 DEF N!Sound
<1>4. below \in 1 .. MaxRows + 1
  BY <1>3 DEF N!Bounds
<1>5. /\ q \in N!Pages /\ q.next \in rows \cup {0} /\ q.next < below
      /\ \A i \in DOMAIN q.items :
           /\ q.items[i] = N!Item(q.items[i].id) /\ q.items[i].id \in rows
           /\ q.next <= q.items[i].id /\ q.items[i].id < below
      /\ \A i, j \in DOMAIN q.items : q.items[i].id = q.items[j].id => i = j
      /\ \A r \in rows : q.next <= r /\ r < below =>
           \E i \in DOMAIN q.items : q.items[i].id = r
  BY <1>2, <1>4, PageIsSound
<1>6. PICK k \in Nat \ {0} : k = Len(ps) /\ DOMAIN ps = 1 .. k
  BY <1>3, LastPage
<1>7. PICK more : more = Append(ps, q)
  OBVIOUS
<1>8. /\ more \in Seq(N!Pages) /\ Len(more) = k + 1 /\ DOMAIN more = 1 .. k + 1 /\ more # <<>>
      /\ more[k + 1] = q /\ \A p \in 1 .. k : more[p] = ps[p]
  BY <1>3, <1>5, <1>6, <1>7
<1>9. more # <<>> /\ N!Last(more) = q
  BY <1>3, <1>5, <1>6, <1>8, LastPage
<1>10. \A p \in 1 .. k : \A i \in DOMAIN ps[p].items :
        ps[p].items[i].id \in rows /\ below <= ps[p].items[i].id
  <2>1. \A p \in 1 .. k : \A i \in DOMAIN ps[p].items : ps[p].items[i].id \in N!Ids(ps)
    BY <1>3, <1>5, <1>6, <1>8, ShownIds
  <2> QED BY <1>1, <2>1 DEF N!Sound
<1>11. N!Distinct(more)
  <2> SUFFICES ASSUME NEW p \in 1 .. k + 1, NEW o \in 1 .. k + 1, NEW i \in DOMAIN more[p].items,
                      NEW j \in DOMAIN more[o].items, more[p].items[i].id = more[o].items[j].id
               PROVE  p = o /\ i = j
    BY <1>3, <1>5, <1>6, <1>8 DEF N!Distinct
  <2>1. CASE p \in 1 .. k /\ o \in 1 .. k
    <3>1. more[p] = ps[p] /\ more[o] = ps[o] /\ p \in DOMAIN ps /\ o \in DOMAIN ps
      BY <1>6, <1>8, <2>1
    <3> QED BY <3>1 DEF N!Sound, N!Distinct
  <2>2. CASE p = k + 1 /\ o = k + 1
    BY <1>3, <1>5, <1>6, <1>8, <2>2
  <2>3. CASE p \in 1 .. k /\ o = k + 1
    <3>1. below <= more[p].items[i].id /\ more[o].items[j].id < below
      BY <1>3, <1>5, <1>6, <1>8, <1>10, <2>3
    <3>2. more[p].items[i].id \in Nat /\ below \in Nat
      BY <1>3, <1>5, <1>6, <1>8, <1>10, <2>3
    <3>3. PICK id : id = more[p].items[i].id /\ id = more[o].items[j].id
      BY <1>3, <1>5, <1>6, <1>8
    <3> QED BY <1>3, <1>5, <1>6, <1>8, <3>1, <3>2, <3>3
  <2>4. CASE p = k + 1 /\ o \in 1 .. k
    <3>1. below <= more[o].items[j].id /\ more[p].items[i].id < below
      BY <1>3, <1>5, <1>6, <1>8, <1>10, <2>4
    <3>2. more[o].items[j].id \in Nat /\ below \in Nat
      BY <1>3, <1>5, <1>6, <1>8, <1>10, <2>4
    <3>3. PICK id : id = more[p].items[i].id /\ id = more[o].items[j].id
      BY <1>3, <1>5, <1>6, <1>8
    <3> QED BY <1>3, <1>5, <1>6, <1>8, <3>1, <3>2, <3>3
  <2> QED BY <1>3, <1>5, <1>6, <1>8, <2>1, <2>2, <2>3, <2>4
<1>12. \A r : r \in N!Ids(more) <=> r \in N!Ids(ps) \/ \E i \in DOMAIN q.items : q.items[i].id = r
  <2> TAKE r
  <2>1. r \in N!Ids(more) <=>
          \E p \in 1 .. k + 1 : \E i \in DOMAIN more[p].items : more[p].items[i].id = r
    <3>1. DOMAIN more = 1 .. k + 1
      BY <1>3, <1>5, <1>6, <1>8
    <3> QED BY <1>3, <1>5, <1>6, <1>8, <3>1, ShownIds
  <2>2. r \in N!Ids(ps) <=> \E p \in 1 .. k : \E i \in DOMAIN ps[p].items : ps[p].items[i].id = r
    BY <1>3, <1>5, <1>6, <1>8, ShownIds
  <2>3. \A p \in 1 .. k + 1 : p \in 1 .. k \/ p = k + 1
    BY <1>3, <1>5, <1>6, <1>8
  <2>4. k + 1 \in 1 .. k + 1 /\ \A p \in 1 .. k : p \in 1 .. k + 1
    BY <1>3, <1>5, <1>6, <1>8
  <2> QED BY <1>3, <1>5, <1>6, <1>8, <2>1, <2>2, <2>3, <2>4
<1>13. N!Sound(more)
  <2>1. N!Ids(more) \subseteq rows
    BY <1>3, <1>5, <1>6, <1>8, <1>12 DEF N!Sound
  <2>2. ASSUME NEW r \in N!Ids(more) PROVE r >= q.next
    <3>1. CASE r \in N!Ids(ps)
      <4>1. r >= below /\ r \in rows
        BY <1>1, <3>1 DEF N!Sound
      <4> QED BY <1>3, <1>5, <1>6, <1>8, <4>1
    <3>2. CASE \E i \in DOMAIN q.items : q.items[i].id = r
      BY <1>3, <1>5, <1>6, <1>8, <3>2
    <3> QED BY <1>3, <1>5, <1>6, <1>8, <1>12, <3>1, <3>2
  <2> QED BY <1>3, <1>5, <1>6, <1>8, <1>9, <1>11, <2>1, <2>2 DEF N!Sound
<1>14. ASSUME N!MarkedRight(ps) PROVE N!MarkedRight(more)
  BY <1>3, <1>5, <1>6, <1>8, <1>14 DEF N!MarkedRight
<1>15. ASSUME NEW r \in rows, N!Last(more).next <= r PROVE r \in N!Ids(more) \/ below <= r
  BY <1>3, <1>5, <1>9, <1>12, <1>15
<1> QED BY <1>1, <1>2, <1>7, <1>12, <1>13, <1>14, <1>15

\* The first page of the database is a sound list that misses nothing.
LEMMA FirstPage ==
  ASSUME N!Bounds, NEW n \in 0 .. MaxRows, rows = 1 .. n,
         NEW ps, ps = <<N!Page(MaxRows + 1)>>
  PROVE  /\ N!Sound(ps) /\ N!MarkedRight(ps)
         /\ \A r \in rows : N!Last(ps).next <= r => r \in N!Ids(ps)
<1>1. PICK below \in 1 .. MaxRows + 1 : below = MaxRows + 1
  BY DEF N!Bounds
<1>2. PICK q : q = N!Page(below)
  OBVIOUS
<1>3. \A r \in rows : r < below
  BY <1>1 DEF N!Bounds
<1>4. /\ q \in N!Pages /\ q.next \in rows \cup {0} /\ q.next < below
      /\ \A i \in DOMAIN q.items :
           /\ q.items[i] = N!Item(q.items[i].id) /\ q.items[i].id \in rows
           /\ q.next <= q.items[i].id /\ q.items[i].id < below
      /\ \A i, j \in DOMAIN q.items : q.items[i].id = q.items[j].id => i = j
      /\ \A r \in rows : q.next <= r /\ r < below =>
           \E i \in DOMAIN q.items : q.items[i].id = r
  BY <1>2, PageIsSound
<1>5. ps \in Seq(N!Pages) /\ ps # <<>> /\ DOMAIN ps = {1} /\ ps[1] = q /\ Len(ps) = 1
  BY <1>1, <1>2, <1>4
<1>6. N!Last(ps) = q
  BY <1>5, LastPage
<1>7. \A r : r \in N!Ids(ps) <=> \E i \in DOMAIN q.items : q.items[i].id = r
  BY <1>5, ShownIds
<1>8. N!Distinct(ps) /\ N!MarkedRight(ps)
  BY <1>4, <1>5 DEF N!Distinct, N!MarkedRight
<1>9. N!Ids(ps) \subseteq rows /\ \A r \in N!Ids(ps) : r >= q.next
  BY <1>4, <1>7
<1>10. \A r \in rows : q.next <= r => r \in N!Ids(ps)
  BY <1>3, <1>4, <1>7
<1> QED BY <1>4, <1>5, <1>6, <1>8, <1>9, <1>10 DEF N!Sound

\* A refetch walks the pages: the walk exists, however many pages it takes.
LEMMA WalkExists ==
  ASSUME NEW m \in Nat
  PROVE  \E walk : walk =
           [i \in 1 .. m |->
             IF i = 1 THEN <<N!Page(MaxRows + 1)>>
             ELSE IF N!Last(walk[i - 1]).next = 0 THEN walk[i - 1]
             ELSE Append(walk[i - 1], N!Page(N!Last(walk[i - 1]).next))]
<1> DEFINE Goes(ps) == IF N!Last(ps).next = 0 THEN ps ELSE Append(ps, N!Page(N!Last(ps).next))
           Step(w, i) == IF i = 1 THEN <<N!Page(MaxRows + 1)>> ELSE Goes(w[i - 1])
           Walks(w, k) == w = [i \in 1 .. k |-> Step(w, i)]
           T == {k \in Nat : ~\E w : Walks(w, k)}
<1>1. T = {}
  <2> SUFFICES ASSUME T # {} PROVE FALSE
    OBVIOUS
  <2>1. PICK k \in T : \A y \in T : k <= y
    <3>1. T \in SUBSET Nat
      OBVIOUS
    <3> HIDE DEF T
    <3> QED BY <3>1, LeastNatural
  <2>2. k # 0
    <3>1. PICK w : w = [i \in 1 .. 0 |-> 0]
      OBVIOUS
    <3>2. w = [i \in 1 .. 0 |-> Step(w, i)]
      <4> HIDE DEF Step
      <4> QED BY <3>1
    <3>3. Walks(w, 0)
      BY <3>2
    <3>4. ~\E u : Walks(u, k)
      OBVIOUS
    <3> HIDE DEF Walks
    <3> QED BY <3>3, <3>4
  <2>3. k - 1 \in Nat /\ k - 1 \notin T
    <3>1. k \in Nat
      OBVIOUS
    <3> HIDE DEF T
    <3> QED BY <2>1, <2>2, <3>1
  <2>4. PICK w : Walks(w, k - 1)
    BY <2>3
  <2>5. PICK x : x = IF k = 1 THEN <<N!Page(MaxRows + 1)>> ELSE Goes(w[k - 1])
    OBVIOUS
  <2>6. PICK v : v = [i \in 1 .. k |-> IF i < k THEN w[i] ELSE x]
    OBVIOUS
  <2>7. ASSUME NEW i \in 1 .. k PROVE v[i] = Step(v, i)
    <3> HIDE DEF Goes
    <3>0. k \in Nat \ {0} /\ i \in Nat
      BY <2>2
    <3>1. CASE i < k
      <4>1. i \in 1 .. k - 1 /\ v[i] = w[i]
        BY <2>6, <3>0, <3>1
      <4>2. w[i] = Step(w, i)
        <5> HIDE DEF Step
        <5> QED BY <2>4, <4>1
      <4>3. CASE i = 1
        BY <4>1, <4>2, <4>3
      <4>4. CASE i # 1
        <5>1. i - 1 \in 1 .. k /\ i - 1 < k
          BY <3>0, <3>1, <4>4
        <5>2. v[i - 1] = w[i - 1]
          BY <2>6, <5>1
        <5> QED BY <4>1, <4>2, <4>4, <5>2
      <4> QED BY <4>3, <4>4
    <3>2. CASE i = k
      <4>1. v[i] = x
        BY <2>6, <3>0, <3>2
      <4>2. CASE k = 1
        BY <2>5, <3>2, <4>1, <4>2
      <4>3. CASE k # 1
        <5>1. k - 1 \in 1 .. k /\ k - 1 < k
          BY <3>0, <4>3
        <5>2. v[k - 1] = w[k - 1]
          BY <2>6, <5>1
        <5> QED BY <2>5, <3>2, <4>1, <4>3, <5>2
      <4> QED BY <4>2, <4>3
    <3> QED BY <3>0, <3>1, <3>2
  <2>8. Walks(v, k)
    <3> HIDE DEF Step
    <3>1. [i \in 1 .. k |-> Step(v, i)] = [i \in 1 .. k |-> v[i]]
      BY <2>7
    <3>2. v = [i \in 1 .. k |-> v[i]]
      BY <2>6, Zenon
    <3> QED BY <3>1, <3>2
  <2> QED BY <2>1, <2>8
<1>2. \E w : Walks(w, m)
  <2>1. m \notin T
    BY <1>1
  <2> QED BY <2>1
<1> QED BY <1>2

\* It is the walk the feed takes.
LEMMA WalkTaken ==
  ASSUME NEW m \in Nat \ {0}
  PROVE  \E walk :
           /\ N!ServerPages(m) = walk[m]
           /\ walk =
                [i \in 1 .. m |->
                  IF i = 1 THEN <<N!Page(MaxRows + 1)>>
                  ELSE IF N!Last(walk[i - 1]).next = 0 THEN walk[i - 1]
                  ELSE Append(walk[i - 1], N!Page(N!Last(walk[i - 1]).next))]
<1> DEFINE Walks(walk) == walk =
             [i \in 1 .. m |->
               IF i = 1 THEN <<N!Page(MaxRows + 1)>>
               ELSE IF N!Last(walk[i - 1]).next = 0 THEN walk[i - 1]
               ELSE Append(walk[i - 1], N!Page(N!Last(walk[i - 1]).next))]
<1>1. \E walk : Walks(walk)
  BY WalkExists
<1>2. N!ServerPages(m) = (CHOOSE walk : Walks(walk))[m]
  BY DEF N!ServerPages
<1>3. Walks(CHOOSE walk : Walks(walk))
  <2> HIDE DEF Walks
  <2> QED BY <1>1
<1> QED BY <1>2, <1>3, Zenon

\* A refetch reads a sound list that misses nothing: the pages of one instant.
LEMMA RefetchIsFresh ==
  ASSUME N!Bounds, NEW n \in 0 .. MaxRows, rows = 1 .. n, NEW m \in Nat \ {0}
  PROVE  /\ N!Sound(N!ServerPages(m)) /\ N!MarkedRight(N!ServerPages(m))
         /\ \A r \in rows : N!Last(N!ServerPages(m)).next <= r => r \in N!Ids(N!ServerPages(m))
<1>1. PICK walk :
        /\ N!ServerPages(m) = walk[m]
        /\ walk = [i \in 1 .. m |->
                    IF i = 1 THEN <<N!Page(MaxRows + 1)>>
                    ELSE IF N!Last(walk[i - 1]).next = 0 THEN walk[i - 1]
                    ELSE Append(walk[i - 1], N!Page(N!Last(walk[i - 1]).next))]
  BY WalkTaken
<1> DEFINE Fresh(ps) == /\ N!Sound(ps) /\ N!MarkedRight(ps)
                        /\ \A r \in rows : N!Last(ps).next <= r => r \in N!Ids(ps)
           T == {i \in 1 .. m : ~Fresh(walk[i])}
<1>2. T = {}
  <2> SUFFICES ASSUME T # {} PROVE FALSE
    OBVIOUS
  <2>1. PICK i \in T : \A y \in T : i <= y
    <3>1. T \in SUBSET Nat
      OBVIOUS
    <3> HIDE DEF T
    <3> QED BY <3>1, LeastNatural
  <2>2. i \in 1 .. m /\ ~Fresh(walk[i])
    OBVIOUS
  <2>3. CASE i = 1
    <3>1. walk[1] = <<N!Page(MaxRows + 1)>>
      BY <1>1
    <3>2. Fresh(<<N!Page(MaxRows + 1)>>)
      BY FirstPage
    <3> HIDE DEF Fresh
    <3> QED BY <2>2, <2>3, <3>1, <3>2, SMTT(30)
  <2>4. CASE i # 1
    <3>1. i - 1 \in 1 .. m /\ i - 1 < i
      BY <2>2, <2>4
    <3>2. i - 1 \notin T
      <4>1. i \in Nat
        BY <2>2
      <4> HIDE DEF T
      <4> QED BY <2>1, <3>1, <4>1
    <3>3. PICK ps : ps = walk[i - 1] /\ Fresh(ps)
      <4> HIDE DEF Fresh
      <4>1. Fresh(walk[i - 1])
        BY <3>1, <3>2
      <4> QED BY <4>1
    <3>4. walk[i] = IF N!Last(ps).next = 0 THEN ps ELSE Append(ps, N!Page(N!Last(ps).next))
      <4> HIDE DEF Fresh
      <4> QED BY <1>1, <2>2, <2>4, <3>3, Zenon
    <3>5. CASE N!Last(ps).next = 0
      <4> HIDE DEF Fresh
      <4> QED BY <2>2, <3>3, <3>4, <3>5
    <3>6. CASE N!Last(ps).next # 0
      <4>1. PICK more :
              /\ more = Append(ps, N!Page(N!Last(ps).next)) /\ N!Sound(more)
              /\ N!MarkedRight(ps) => N!MarkedRight(more)
              /\ \A r \in rows : N!Last(more).next <= r =>
                   r \in N!Ids(more) \/ N!Last(ps).next <= r
              /\ N!Ids(ps) \subseteq N!Ids(more)
        BY <3>3, <3>6, PageAppended
      <4>2. Fresh(more)
        BY <3>3, <4>1
      <4>3. walk[i] = more
        BY <3>4, <3>6, <4>1
      <4> HIDE DEF Fresh
      <4> QED BY <2>2, <4>2, <4>3
    <3> QED BY <3>5, <3>6
  <2> QED BY <2>3, <2>4
<1>3. Fresh(walk[m])
  <2> HIDE DEF Fresh
  <2>1. m \in 1 .. m
    OBVIOUS
  <2> QED BY <1>2, <2>1
<1> HIDE DEF Fresh
<1>4. Fresh(N!ServerPages(m))
  BY <1>1, <1>3
<1> QED BY <1>4 DEF Fresh

\* Rows are only added: a sound list stays one.
LEMMA SoundStays ==
  ASSUME NEW ps, N!Sound(ps), rows \subseteq rows'
  PROVE  N!Sound(ps)'
BY DEF N!Sound

\* A list's marks stay right while its rows keep theirs.
LEMMA MarksStay ==
  ASSUME NEW ps, N!Sound(ps), N!MarkedRight(ps), \A r \in rows : r \in unread' <=> r \in unread
  PROVE  N!MarkedRight(ps)'
<1>1. DOMAIN ps = 1 .. Len(ps)
  BY DEF N!Sound
<1>2. SUFFICES ASSUME NEW p \in DOMAIN ps, NEW i \in DOMAIN ps[p].items
               PROVE  ps[p].items[i] = N!Item(ps[p].items[i].id)'
  BY DEF N!MarkedRight
<1>3. PICK r : r = ps[p].items[i].id
  OBVIOUS
<1>4. r \in rows
  <2>1. r \in N!Ids(ps)
    BY <1>3, ShownIds
  <2> QED BY <2>1 DEF N!Sound
<1>5. ps[p].items[i] = N!Item(r)
  BY <1>3 DEF N!MarkedRight
<1>6. N!Item(r)' = N!Item(r)
  BY <1>4 DEF N!Item
<1> QED BY <1>3, <1>5, <1>6

\* A list still misses nothing while every new row is still to be heard of.
LEMMA CoverStays ==
  ASSUME NEW ps, N!Covers(ps), \A r \in rows' : r \in rows \/ r \in unpublished',
         \A r \in unpublished \cup N!Range(wire) : r \in unpublished' \cup N!Range(wire)'
  PROVE  N!Covers(ps)'
BY DEF N!Covers, N!Range

\* So does one on its way.
LEMMA InFlightStays ==
  ASSUME NEW ps, N!InFlightIsFresh(ps), rows \subseteq rows',
         \A r \in rows : r \in unread' <=> r \in unread,
         stream' = "open" =>
           /\ stream = "open" /\ \A r \in rows' : r \in rows \/ r \in unpublished'
           /\ \A r \in unpublished \cup N!Range(wire) : r \in unpublished' \cup N!Range(wire)'
  PROVE  N!InFlightIsFresh(ps)'
<1> SUFFICES ASSUME ps # None PROVE N!InFlightIsFresh(ps)'
  BY DEF N!InFlightIsFresh
<1>1. N!Sound(ps) /\ N!MarkedRight(ps) /\ (stream = "open" => N!Covers(ps))
  BY DEF N!InFlightIsFresh
<1>2. N!Sound(ps)' /\ N!MarkedRight(ps)'
  BY <1>1, SoundStays, MarksStay
<1>3. ASSUME stream' = "open" PROVE N!Covers(ps)'
  BY <1>1, <1>3, CoverStays
<1> QED BY <1>2, <1>3 DEF N!InFlightIsFresh

\* There are no more unread notifications than notifications.
LEMMA UnreadCounted ==
  ASSUME N!Bounds, NEW n \in 0 .. MaxRows, NEW u \in SUBSET (1 .. n)
  PROVE  N!Cardinality(u) \in 0 .. MaxRows
<1>1. IsFiniteSet(1 .. n) /\ Cardinality(1 .. n) = n
  BY FS_Interval
<1>2. IsFiniteSet(u) /\ Cardinality(u) <= n
  BY <1>1, FS_Subset
<1>3. Cardinality(u) \in Nat
  BY <1>2, FS_CardinalityType
<1>4. Cardinality(u) \in 0 .. MaxRows
  BY <1>2, <1>3 DEF N!Bounds
<1> QED BY <1>4, FeedCounts

\* The rows are numbered from one, and no more than the bound.
LEMMA RowsNumbered ==
  ASSUME N!Bounds, N!FeedIsTyped
  PROVE  \E n \in 0 .. MaxRows :
           n = N!Cardinality(rows) /\ rows = 1 .. n /\ N!Cardinality(unread) \in 0 .. MaxRows
<1>1. rows \in SUBSET (1 .. MaxRows) /\ unread \subseteq rows
  BY DEF N!FeedIsTyped, N!TypeOK, N!Row
<1>2. PICK n \in 0 .. MaxRows : n = N!Cardinality(rows)
  <2>1. MaxRows \in 0 .. MaxRows
    BY DEF N!Bounds
  <2> QED BY <1>1, <2>1, UnreadCounted
<1>3. rows = 1 .. n
  BY <1>2 DEF N!FeedIsTyped
<1>4. N!Cardinality(unread) \in 0 .. MaxRows
  BY <1>1, <1>3, UnreadCounted
<1> QED BY <1>2, <1>3, <1>4

\* A tab begins with the list the server rendered, which is empty.
LEMMA FeedBegins == N!Bounds /\ N!Init => N!FeedInv
<1> SUFFICES ASSUME N!Bounds, N!Init PROVE N!FeedInv
  OBVIOUS
<1>1. N!Cardinality({}) = 0
  BY FeedCounts, FS_EmptySet
<1>2. rows = {} /\ unread = {} /\ unpublished = {} /\ wire = <<>> /\ count = 0 /\ countFetch = None
      /\ listFetch = None /\ moreFetch = None /\ stream = "closed" /\ ~tainted
  BY DEF N!Init
<1>3. rows = 1 .. N!Cardinality(rows)
  BY <1>1, <1>2
<1>4. N!Range(wire) = {}
  BY <1>2 DEF N!Range
<1>5. N!FeedIsTyped
  <2>1. /\ rows \subseteq N!Row /\ unread \subseteq rows /\ unpublished \subseteq rows
        /\ N!Range(wire) \subseteq N!Row /\ count \in 0 .. MaxRows /\ wire \in Seq(N!Row)
        /\ countFetch \in 0 .. MaxRows \cup {None}
    BY <1>2, <1>4 DEF N!Bounds
  <2>2. /\ status = "connecting" /\ stream = "closed" /\ mark = "idle" /\ drops \in 0 .. MaxDrops
    BY DEF N!Init, N!Bounds
  <2>3. tainted = FALSE /\ connected = FALSE
    BY DEF N!Init
  <2> QED BY <1>3, <2>1, <2>2, <2>3 DEF N!FeedIsTyped, N!TypeOK
<1>6. PICK ps : ps = pages
  OBVIOUS
<1>7. ps = <<[items |-> <<>>, next |-> 0]>>
  BY <1>6 DEF N!Init
<1>8. ps \in Seq(N!Pages) /\ ps # <<>> /\ DOMAIN ps = {1} /\ ps[1].items = <<>> /\ ps[1].next = 0
      /\ Len(ps) = 1
  BY <1>7 DEF N!Pages, N!Bounds
<1>9. N!Last(ps).next = 0
  BY <1>8, LastPage
<1>10. N!Ids(ps) = {} /\ N!Distinct(ps) /\ N!MarkedRight(ps)
  <2>1. \A r : r \notin N!Ids(ps)
    BY <1>8, ShownIds
  <2> QED BY <1>8, <2>1 DEF N!Distinct, N!MarkedRight
<1>11. N!Sound(ps)
  BY <1>8, <1>9, <1>10 DEF N!Sound
<1>12. N!ListsAreTrue
  BY <1>2, <1>6, <1>10, <1>11 DEF N!ListsAreTrue, N!InFlightIsFresh
<1>13. N!CountIsTrue
  BY <1>2, <1>4 DEF N!CountIsTrue
<1> QED BY <1>5, <1>12, <1>13 DEF N!FeedInv

\* The lists of a tab stay true while nothing reaches it but what it is still to hear of.
LEMMA ListsStay ==
  ASSUME N!ListsAreTrue, UNCHANGED <<pages, listFetch, moreFetch>>, rows \subseteq rows',
         \A r \in rows : r \in unread' <=> r \in unread, mark = "done" => mark' = "done",
         stream' = "open" =>
           /\ stream = "open" /\ \A r \in rows' : r \in rows \/ r \in unpublished'
           /\ \A r \in unpublished \cup N!Range(wire) : r \in unpublished' \cup N!Range(wire)'
  PROVE  N!ListsAreTrue'
<1>1. PICK ps, l, m : ps = pages /\ l = listFetch /\ m = moreFetch
  OBVIOUS
<1>2. pages' = ps /\ listFetch' = l /\ moreFetch' = m
  BY <1>1
<1>3. /\ N!Sound(ps) /\ (mark # "done" => N!MarkedRight(ps))
      /\ (stream = "open" /\ l = None => N!Covers(ps))
      /\ N!InFlightIsFresh(l) /\ N!InFlightIsFresh(m)
  BY <1>1 DEF N!ListsAreTrue
<1>4. N!InFlightIsFresh(l)' /\ N!InFlightIsFresh(m)'
  BY <1>3, InFlightStays
<1>5. N!Sound(ps)' /\ (mark' # "done" => N!MarkedRight(ps)')
  BY <1>3, SoundStays, MarksStay
<1>6. ASSUME stream' = "open", l = None PROVE N!Covers(ps)'
  BY <1>3, <1>6, CoverStays
<1> QED BY <1>2, <1>4, <1>5, <1>6 DEF N!ListsAreTrue

\* createNotifications (server/notifications/create.ts): the row is committed and counted
\* before anybody hears of it.
LEMMA CreateStep == ASSUME N!Bounds, N!FeedInv, N!Create PROVE N!FeedInv'
<1> USE DEF N!FeedInv
<1>1. PICK n \in 0 .. MaxRows : n = N!Cardinality(rows) /\ rows = 1 .. n
  BY RowsNumbered
<1>2. PICK r \in Nat : r = n + 1
  OBVIOUS
<1>3. /\ connected /\ n < MaxRows /\ rows' = rows \cup {r} /\ unread' = unread \cup {r}
      /\ unpublished' = unpublished \cup {r}
      /\ UNCHANGED <<busUp, N!link, N!cache, N!fetch, N!marking, drops, tainted>>
  BY <1>1, <1>2 DEF N!Create
<1>4. rows' = 1 .. r /\ N!Cardinality(1 .. r) = r
  <2>1. rows' = 1 .. r
    <3>1. n \in Nat /\ n + 1 = r
      BY <1>2 DEF N!Bounds
    <3>2. (1 .. n) \cup {r} = 1 .. r
      BY <3>1
    <3> QED BY <1>1, <1>3, <3>2
  <2>2. Cardinality(1 .. r) = r
    BY FS_Interval
  <2> QED BY <2>1, <2>2, FeedCounts
<1>5. N!FeedIsTyped'
  <2>1. rows' = 1 .. N!Cardinality(rows)'
    BY <1>4
  <2>2. rows' \subseteq N!Row /\ unread' \subseteq rows' /\ unpublished' \subseteq rows'
    BY <1>2, <1>3 DEF N!FeedIsTyped, N!TypeOK, N!Row, N!Bounds
  <2> QED BY <1>3, <2>1, <2>2 DEF N!FeedIsTyped, N!TypeOK, N!link, N!cache, N!fetch, N!marking,
      N!Range
<1>6. ASSUME ~tainted PROVE N!ListsAreTrue'
  <2>1. \A q \in rows : q \in unread' <=> q \in unread
    <3>1. n \in Nat /\ n + 1 = r
      BY <1>2 DEF N!Bounds
    <3>2. r \notin 1 .. n
      BY <3>1
    <3> QED BY <1>1, <1>3, <3>2
  <2>2. UNCHANGED <<pages, listFetch, moreFetch, stream, wire, mark>>
    BY <1>3 DEF N!link, N!cache, N!fetch, N!marking
  <2>3. N!Range(wire)' = N!Range(wire)
    BY <2>2 DEF N!Range
  <2> QED BY <1>3, <1>6, <2>1, <2>2, <2>3, ListsStay
<1>7. ASSUME ~tainted PROVE N!CountIsTrue'
  BY <1>3, <1>7 DEF N!CountIsTrue, N!link, N!Range
<1> QED BY <1>3, <1>5, <1>6, <1>7

\* publishNotifications: NOTIFY reaches the tab whose stream is open, if the bus listens.
LEMMA PublishStep ==
  ASSUME N!Bounds, N!FeedInv, NEW r, N!Publish(r) PROVE N!FeedInv'
<1> USE DEF N!FeedInv
<1>1. /\ r \in unpublished /\ unpublished' = unpublished \ {r}
      /\ wire' = IF busUp /\ stream = "open" THEN Append(wire, r) ELSE wire
      /\ tainted' = (tainted \/ (~busUp /\ stream = "open"))
      /\ UNCHANGED <<rows, unread, busUp, stream, status, connected>>
      /\ UNCHANGED <<pages, count, listFetch, countFetch, moreFetch, mark, marks, drops>>
  BY DEF N!Publish, N!cache, N!fetch, N!marking
<1>2. r \in N!Row /\ wire \in Seq(N!Row)
  BY <1>1 DEF N!FeedIsTyped, N!TypeOK
<1>3. wire' \in Seq(N!Row) /\ N!Range(wire)' \subseteq N!Row
  BY <1>1, <1>2 DEF N!Range
<1>4. N!FeedIsTyped'
  BY <1>1, <1>3 DEF N!FeedIsTyped, N!TypeOK
<1>5. ASSUME ~tainted' PROVE ~tainted /\ N!ListsAreTrue' /\ N!CountIsTrue'
  <2>1. ~tainted /\ (stream = "open" => busUp)
    BY <1>1, <1>5 DEF N!FeedIsTyped
  <2>2. \A q \in N!Range(wire) : q \in N!Range(wire)'
    BY <1>1, <1>2 DEF N!Range
  <2>3. stream = "open" => r \in N!Range(wire)' /\ wire' # <<>>
    <3>1. Append(wire, r)[Len(wire) + 1] = r /\ Len(wire) + 1 \in DOMAIN Append(wire, r)
      BY <1>2
    <3> QED BY <1>1, <2>1, <3>1 DEF N!Range
  <2>4. \A q \in N!Range(wire)' : q \in N!Range(wire) \/ q = r
    BY <1>1, <1>2 DEF N!Range
  <2>5. N!ListsAreTrue'
    BY <1>1, <2>1, <2>2, <2>3, ListsStay
  <2>6. N!CountIsTrue'
    BY <1>1, <2>1, <2>3, <2>4 DEF N!CountIsTrue, N!FeedIsTyped
  <2> QED BY <2>1, <2>5, <2>6
<1> QED BY <1>4, <1>5

\* A publisher that dies taints the feed; a bus that drops or comes back changes nothing the
\* tab sees; and the connection drops with what was on it.
LEMMA LinkStep ==
  ASSUME N!Bounds, N!FeedInv, NEW r,
         N!Unpublished(r) \/ N!BusDrops \/ N!BusRecovers \/ N!StreamDrops
  PROVE  N!FeedInv'
<1> USE DEF N!FeedInv
<1>1. /\ UNCHANGED <<rows, unread, connected, pages, count, listFetch, countFetch, moreFetch,
                     mark, marks>>
      /\ \/ tainted' = TRUE /\ unpublished' = unpublished \ {r} /\ UNCHANGED <<stream, wire>>
         \/ UNCHANGED <<tainted, unpublished, stream, wire>>
         \/ stream' = "closed" /\ wire' = <<>> /\ UNCHANGED <<tainted, unpublished>>
      /\ UNCHANGED status \/ status' = "offline"
      /\ UNCHANGED drops \/ (drops < MaxDrops /\ drops' = drops + 1)
  BY DEF N!Unpublished, N!BusDrops, N!BusRecovers, N!StreamDrops, N!link, N!cache, N!fetch,
         N!marking, N!server
<1>2. drops' \in 0 .. MaxDrops
  BY <1>1 DEF N!FeedIsTyped, N!TypeOK, N!Bounds
<1>3. /\ wire' \in Seq(N!Row) /\ N!Range(wire)' \subseteq N!Row
      /\ wire' = wire => N!Range(wire)' = N!Range(wire)
      /\ wire' = <<>> => N!Range(wire)' = {}
  <2>1. wire \in Seq(N!Row) /\ N!Range(wire) \subseteq N!Row
    BY DEF N!FeedIsTyped, N!TypeOK
  <2>3. wire' = wire => N!Range(wire)' = N!Range(wire)
    BY DEF N!Range
  <2>4. wire' = <<>> => N!Range(wire)' = {}
    BY DEF N!Range
  <2>5. wire' = wire \/ wire' = <<>>
    BY <1>1
  <2>6. CASE wire' = wire
    BY <2>1, <2>3, <2>4, <2>6
  <2>7. CASE wire' = <<>>
    BY <2>3, <2>4, <2>7
  <2> QED BY <2>5, <2>6, <2>7
<1>4. N!FeedIsTyped'
  <2>1. stream' \in {"open", "closed"} /\ status' \in {"connecting", "live", "offline"}
        /\ unpublished' \subseteq rows' /\ tainted' \in BOOLEAN
    BY <1>1 DEF N!FeedIsTyped, N!TypeOK
  <2> QED BY <1>1, <1>2, <1>3, <2>1 DEF N!FeedIsTyped, N!TypeOK
<1>5. ASSUME ~tainted' PROVE ~tainted /\ N!ListsAreTrue' /\ N!CountIsTrue'
  <2>1. ~tainted /\ unpublished' = unpublished
        /\ (UNCHANGED <<stream, wire>> \/ (stream' = "closed" /\ wire' = <<>>))
    BY <1>1, <1>5
  <2>2. N!ListsAreTrue'
    BY <1>1, <1>3, <2>1, ListsStay
  <2>3. N!CountIsTrue'
    BY <1>1, <1>3, <2>1 DEF N!CountIsTrue, N!CountToCome
  <2> QED BY <2>1, <2>2, <2>3
<1> QED BY <1>4, <1>5

\* A fetch lands: the list or the count of an earlier instant, brought up to date by what is
\* still to be heard of.
LEMMA LandsStep ==
  ASSUME N!Bounds, N!FeedInv, N!ListArrives \/ N!CountArrives \/ N!MoreArrives
  PROVE  N!FeedInv'
<1> USE DEF N!FeedInv
<1>1. UNCHANGED <<rows, unread, unpublished, busUp, stream, wire, status, connected, mark, marks,
                  drops, tainted>>
  BY DEF N!ListArrives, N!CountArrives, N!MoreArrives, N!server, N!link, N!marking
<1>2. N!Range(wire)' = N!Range(wire)
  BY <1>1 DEF N!Range
<1>3. CASE N!CountArrives
  <2>1. /\ countFetch # None /\ count' = countFetch /\ countFetch' = None
        /\ UNCHANGED <<pages, listFetch, moreFetch>>
    BY <1>3 DEF N!CountArrives
  <2>2. N!FeedIsTyped'
    BY <1>1, <1>2, <2>1 DEF N!FeedIsTyped, N!TypeOK
  <2>3. ASSUME ~tainted PROVE N!ListsAreTrue' /\ N!CountIsTrue'
    <3>1. N!ListsAreTrue'
      BY <1>1, <1>2, <2>1, <2>3, ListsStay
    <3>2. N!CountIsTrue'
      BY <1>1, <1>2, <2>1, <2>3 DEF N!CountIsTrue, N!CountToCome
    <3> QED BY <3>1, <3>2
  <2> QED BY <1>1, <2>2, <2>3
<1>4. CASE N!ListArrives \/ N!MoreArrives
  <2>1. PICK f : /\ f # None /\ f \in {listFetch, moreFetch} /\ pages' = f
                 /\ UNCHANGED <<count, countFetch>>
                 /\ \/ listFetch' = None /\ moreFetch' = moreFetch
                    \/ listFetch' = listFetch /\ moreFetch' = None
    BY <1>4 DEF N!ListArrives, N!MoreArrives
  <2>2. N!FeedIsTyped'
    BY <1>1, <1>2, <2>1 DEF N!FeedIsTyped, N!TypeOK
  <2>3. ASSUME ~tainted PROVE N!ListsAreTrue' /\ N!CountIsTrue'
    <3>1. PICK l, m : l = listFetch' /\ m = moreFetch'
      OBVIOUS
    <3>2. N!InFlightIsFresh(l) /\ N!InFlightIsFresh(m) /\ N!InFlightIsFresh(f)
      BY <2>1, <2>3, <3>1 DEF N!ListsAreTrue, N!InFlightIsFresh
    <3>3. N!InFlightIsFresh(l)' /\ N!InFlightIsFresh(m)' /\ N!InFlightIsFresh(f)'
      BY <1>1, <1>2, <3>2, InFlightStays
    <3>4. N!Sound(f)' /\ N!MarkedRight(f)' /\ (stream' = "open" => N!Covers(f)')
      BY <2>1, <3>3 DEF N!InFlightIsFresh
    <3>5. N!ListsAreTrue'
      BY <2>1, <3>1, <3>3, <3>4 DEF N!ListsAreTrue
    <3>6. N!CountIsTrue'
      BY <1>1, <1>2, <2>1, <2>3 DEF N!CountIsTrue, N!CountToCome
    <3> QED BY <3>5, <3>6
  <2> QED BY <1>1, <2>2, <2>3
<1> QED BY <1>3, <1>4

\* invalidateQueries: the lists that were on their way are cancelled, and the one fetched
\* instead is of this instant.
LEMMA RefetchStep ==
  ASSUME N!Bounds, N!FeedIsTyped, N!ListsAreTrue, N!RefetchList,
         UNCHANGED <<rows, unread, pages, mark>>
  PROVE  N!ListsAreTrue'
<1>1. PICK ps, f : ps = pages /\ f = listFetch'
  OBVIOUS
<1>2. pages' = ps /\ moreFetch' = None /\ f = N!ServerPages(Len(ps))
  BY <1>1 DEF N!RefetchList
<1>3. N!Sound(ps) /\ (mark # "done" => N!MarkedRight(ps))
  BY <1>1 DEF N!ListsAreTrue
<1>4. Len(ps) \in Nat \ {0}
  BY <1>3, LastPage DEF N!Sound
<1>5. /\ N!Sound(f) /\ N!MarkedRight(f)
      /\ \A r \in rows : N!Last(f).next <= r => r \in N!Ids(f)
  <2>1. PICK n \in 0 .. MaxRows : rows = 1 .. n
    BY RowsNumbered
  <2> QED BY <1>2, <1>4, <2>1, RefetchIsFresh
<1>6. N!Sound(f)' /\ N!MarkedRight(f)' /\ N!Sound(ps)' /\ (mark' # "done" => N!MarkedRight(ps)')
  BY <1>3, <1>5, SoundStays, MarksStay
<1>7. N!Covers(f)'
  <2> SUFFICES ASSUME NEW r \in rows, r >= N!Last(f).next PROVE r \in N!Ids(f)
    BY DEF N!Covers
  <2>1. N!Last(f).next \in Nat /\ r \in Nat
    <3>1. PICK n \in 0 .. MaxRows : rows = 1 .. n
      BY RowsNumbered
    <3>2. N!Last(f).next \in rows \cup {0}
      BY <1>5 DEF N!Sound
    <3> QED BY <3>1, <3>2
  <2> QED BY <1>5, <2>1
<1>8. f # None
  BY <1>5 DEF N!Sound, N!Bounds
<1>9. N!InFlightIsFresh(f)' /\ N!InFlightIsFresh(None)'
  BY <1>6, <1>7 DEF N!InFlightIsFresh
<1> QED BY <1>1, <1>2, <1>6, <1>8, <1>9 DEF N!ListsAreTrue

\* onopen: the first time there is nothing to have missed; later the list and the count are
\* fetched again, as they are when a test notification was sent without a stream.
LEMMA OpenStep ==
  ASSUME N!Bounds, N!FeedInv, N!Open \/ N!SendFallsBack PROVE N!FeedInv'
<1> USE DEF N!FeedInv
<1>1. UNCHANGED <<rows, unread, unpublished, busUp, wire, pages, count, mark, marks, drops,
                  tainted>>
  BY DEF N!Open, N!SendFallsBack, N!server, N!link, N!cache, N!marking
<1>2. N!Range(wire)' = N!Range(wire)
  BY <1>1 DEF N!Range
<1>3. \/ /\ ~connected /\ UNCHANGED <<listFetch, countFetch, moreFetch>>
         /\ connected' = TRUE /\ stream' = "open" /\ status' = "live"
      \/ /\ N!RefetchList /\ N!RefetchCount /\ (connected \/ rows # {})
         /\ \/ stream' = "open" /\ status' = "live" /\ connected' = TRUE
            \/ UNCHANGED <<stream, status, connected>>
  BY DEF N!Open, N!SendFallsBack, N!fetch, N!link, N!FeedIsTyped
<1>4. PICK c : c = N!Cardinality(unread) /\ c \in 0 .. MaxRows /\ c # None
  BY RowsNumbered DEF N!Bounds
<1>5. N!FeedIsTyped'
  <2>1. countFetch' \in 0 .. MaxRows \cup {None}
    BY <1>3, <1>4 DEF N!RefetchCount, N!FeedIsTyped
  <2>2. stream' \in {"open", "closed"} /\ status' \in {"connecting", "live", "offline"}
        /\ connected' \in BOOLEAN
    BY <1>3 DEF N!FeedIsTyped, N!TypeOK
  <2> QED BY <1>1, <1>2, <2>1, <2>2 DEF N!FeedIsTyped, N!TypeOK
<1>6. ASSUME ~tainted PROVE N!ListsAreTrue' /\ N!CountIsTrue'
  <2>1. CASE N!RefetchList /\ N!RefetchCount /\ (connected \/ rows # {})
    <3>1. N!ListsAreTrue'
      BY <1>1, <1>6, <2>1, RefetchStep
    <3>2. countFetch' = c /\ N!Cardinality(unread)' = c
      BY <1>1, <1>4, <2>1 DEF N!RefetchCount
    <3>3. connected /\ connected'
      BY <1>3, <1>6, <2>1 DEF N!CountIsTrue, N!FeedIsTyped
    <3>4. N!CountIsTrue'
      BY <1>1, <1>2, <1>4, <1>6, <3>2, <3>3 DEF N!CountIsTrue, N!CountToCome
    <3> QED BY <3>1, <3>4
  <2>2. CASE ~connected /\ UNCHANGED <<listFetch, countFetch, moreFetch>> /\ connected' = TRUE
    <3>1. rows = {} /\ count = 0 /\ countFetch = None /\ unread = {}
      BY <1>6, <2>2 DEF N!CountIsTrue, N!FeedIsTyped, N!TypeOK
    <3>2. N!Cardinality(unread)' = 0
      BY <1>1, <3>1, FeedCounts, FS_EmptySet
    <3>3. PICK ps, l, m : ps = pages /\ l = listFetch /\ m = moreFetch
      OBVIOUS
    <3>4. /\ N!Sound(ps)' /\ (mark' # "done" => N!MarkedRight(ps)')
          /\ l # None => N!Sound(l)' /\ N!MarkedRight(l)'
          /\ m # None => N!Sound(m)' /\ N!MarkedRight(m)'
      BY <1>1, <1>6, <3>3, SoundStays, MarksStay DEF N!ListsAreTrue, N!InFlightIsFresh
    <3>5. N!Covers(ps)' /\ N!Covers(l)' /\ N!Covers(m)'
      BY <1>1, <3>1 DEF N!Covers
    <3>6. N!ListsAreTrue'
      BY <1>1, <2>2, <3>3, <3>4, <3>5 DEF N!ListsAreTrue, N!InFlightIsFresh
    <3>7. N!CountIsTrue'
      BY <1>1, <1>2, <1>6, <2>2, <3>1, <3>2 DEF N!CountIsTrue, N!CountToCome
    <3> QED BY <3>6, <3>7
  <2> QED BY <1>3, <2>1, <2>2
<1> QED BY <1>1, <1>5, <1>6

\* A row pushed is looked for on every page, and goes on top of the first if none has it.
LEMMA RowOnTop ==
  ASSUME N!Bounds, NEW n \in 0 .. MaxRows, rows = 1 .. n, NEW r \in 1 .. n, N!Sound(pages),
         N!Last(pages).next <= r
  PROVE  \E ps :
           /\ ps = N!Prepend(r) /\ N!Sound(ps) /\ N!Last(ps).next = N!Last(pages).next
           /\ \A q : q \in N!Ids(ps) <=> q \in N!Ids(pages) \/ q = r
           /\ N!MarkedRight(pages) /\ r \in unread => N!MarkedRight(ps)
<1>1. PICK ps : ps = pages
  OBVIOUS
<1>2. /\ ps \in Seq(N!Pages) /\ ps # <<>> /\ N!Distinct(ps) /\ N!Ids(ps) \subseteq rows
      /\ N!Last(ps).next \in rows \cup {0} /\ \A q \in N!Ids(ps) : q >= N!Last(ps).next
      /\ N!Last(ps).next <= r
  BY <1>1 DEF N!Sound
<1>3. PICK k \in Nat \ {0} : k = Len(ps) /\ DOMAIN ps = 1 .. k /\ N!Last(ps) = ps[k]
  BY <1>2, LastPage
<1>4. CASE r \in N!Ids(ps)
  BY <1>1, <1>4 DEF N!Prepend
<1>5. CASE r \notin N!Ids(ps)
  <2>1. PICK q \in N!Pages : q = ps[1] /\ q = Head(ps)
    BY <1>2, <1>3
  <2>2. PICK d \in Nat : d = Len(q.items) /\ DOMAIN q.items = 1 .. d
    BY <2>1 DEF N!Pages
  <2>3. PICK it : it = [id |-> r, read |-> FALSE]
    OBVIOUS
  <2>4. it \in [id : N!Row, read : BOOLEAN] /\ it.id = r
    BY <2>3 DEF N!Row, N!Bounds
  <2>5. PICK items : items = <<it>> \o q.items
    OBVIOUS
  <2>6. /\ items \in Seq([id : N!Row, read : BOOLEAN]) /\ DOMAIN items = 1 .. d + 1
        /\ items[1] = it /\ \A i \in 2 .. d + 1 : i - 1 \in 1 .. d /\ items[i] = q.items[i - 1]
    BY <2>1, <2>2, <2>4, <2>5 DEF N!Pages
  <2>7. PICK top : top = [items |-> items, next |-> q.next]
    OBVIOUS
  <2>8. top \in N!Pages /\ top.items = items /\ top.next = q.next
    BY <2>1, <2>6, <2>7 DEF N!Pages
  <2>9. PICK more : more = <<top>> \o Tail(ps)
    OBVIOUS
  <2>10. /\ more \in Seq(N!Pages) /\ DOMAIN more = 1 .. k /\ Len(more) = k /\ more # <<>>
         /\ more[1] = top /\ \A p \in 2 .. k : more[p] = ps[p]
    BY <1>2, <1>3, <2>8, <2>9
  <2>11. more = N!Prepend(r)
    <3>1. N!OnTop(r) = top
      <4>1. N!OnTop(r) = [q EXCEPT !.items = <<it>> \o q.items]
        BY <1>1, <2>1, <2>3 DEF N!OnTop
      <4> QED BY <2>1, <2>5, <2>7, <4>1 DEF N!Pages
    <3> QED BY <1>1, <1>5, <2>9, <3>1 DEF N!Prepend
  <2>12. ASSUME NEW p \in 1 .. k, NEW i \in DOMAIN more[p].items
         PROVE  \/ p = 1 /\ i = 1 /\ more[p].items[i] = it
                \/ p = 1 /\ i - 1 \in DOMAIN ps[p].items /\ more[p].items[i] = ps[p].items[i - 1]
                \/ p # 1 /\ i \in DOMAIN ps[p].items /\ more[p].items[i] = ps[p].items[i]
    <3>1. CASE p = 1
      <4>1. i \in 1 .. d + 1
        BY <2>6, <2>8, <2>10, <3>1
      <4>2. i = 1 \/ i \in 2 .. d + 1
        BY <4>1
      <4> QED BY <2>1, <2>2, <2>6, <2>8, <2>10, <3>1, <4>2
    <3>2. CASE p # 1
      BY <2>10, <3>2
    <3> QED BY <3>1, <3>2
  <2>13. ASSUME NEW p \in 1 .. k, NEW i \in DOMAIN ps[p].items
         PROVE  \E j \in DOMAIN more[p].items : more[p].items[j] = ps[p].items[i]
    <3>1. CASE p = 1
      <4>1. i \in 1 .. d
        BY <2>1, <2>2, <3>1
      <4>2. PICK j : j = i + 1
        OBVIOUS
      <4>3. j \in 2 .. d + 1 /\ j - 1 = i /\ j \in 1 .. d + 1
        BY <4>1, <4>2
      <4>4. items[j] = q.items[i]
        BY <2>6, <4>3
      <4> QED BY <2>1, <2>6, <2>8, <2>10, <3>1, <4>3, <4>4
    <3>2. CASE p # 1
      BY <2>10, <3>2
    <3> QED BY <3>1, <3>2
  <2>14. ASSUME NEW x PROVE x \in N!Ids(more) <=> x \in N!Ids(ps) \/ x = r
    <3>1. x \in N!Ids(more) <=> \E p \in 1 .. k : \E i \in DOMAIN more[p].items :
                                  more[p].items[i].id = x
      BY <2>10, ShownIds
    <3>2. x \in N!Ids(ps) <=> \E p \in 1 .. k : \E i \in DOMAIN ps[p].items :
                                ps[p].items[i].id = x
      BY <1>3, ShownIds
    <3>3. x \in N!Ids(more) => x \in N!Ids(ps) \/ x = r
      BY <2>4, <2>12, <3>1, <3>2
    <3>4. x \in N!Ids(ps) => x \in N!Ids(more)
      BY <2>13, <3>1, <3>2
    <3>5. x = r => x \in N!Ids(more)
      <4>1. 1 \in 1 .. k /\ 1 \in DOMAIN more[1].items /\ more[1].items[1].id = r
        BY <2>4, <2>6, <2>8, <2>10
      <4> QED BY <3>1, <4>1
    <3> QED BY <3>3, <3>4, <3>5
  <2>15. ASSUME NEW p \in 1 .. k, NEW i \in DOMAIN ps[p].items PROVE ps[p].items[i].id # r
    BY <1>3, <1>5, ShownIds
  <2>16. N!Distinct(more)
    <3> SUFFICES ASSUME NEW p \in 1 .. k, NEW o \in 1 .. k, NEW i \in DOMAIN more[p].items,
                        NEW j \in DOMAIN more[o].items,
                        more[p].items[i].id = more[o].items[j].id
                 PROVE  p = o /\ i = j
      BY <2>10 DEF N!Distinct
    <3>1. CASE p = 1 /\ i = 1
      <4>1. more[p].items[i].id = r
        BY <2>4, <2>6, <2>8, <2>10, <3>1
      <4>2. o = 1 /\ j = 1
        <5>1. more[o].items[j].id = r
          BY <4>1
        <5>2. ~(o = 1 /\ j = 1) => \E a \in DOMAIN ps[o].items :
                                     more[o].items[j] = ps[o].items[a]
          BY <2>12
        <5> QED BY <2>15, <5>1, <5>2
      <4> QED BY <3>1, <4>2
    <3>2. CASE o = 1 /\ j = 1
      <4>1. more[o].items[j].id = r
        BY <2>4, <2>6, <2>8, <2>10, <3>2
      <4>2. p = 1 /\ i = 1
        <5>1. more[p].items[i].id = r
          BY <4>1
        <5>2. ~(p = 1 /\ i = 1) => \E a \in DOMAIN ps[p].items :
                                     more[p].items[i] = ps[p].items[a]
          BY <2>12
        <5> QED BY <2>15, <5>1, <5>2
      <4> QED BY <3>2, <4>2
    <3>3. CASE ~(p = 1 /\ i = 1) /\ ~(o = 1 /\ j = 1)
      <4>1. PICK a \in DOMAIN ps[p].items :
              more[p].items[i] = ps[p].items[a] /\ a = (IF p = 1 THEN i - 1 ELSE i)
        BY <2>12, <3>3
      <4>2. PICK b \in DOMAIN ps[o].items :
              more[o].items[j] = ps[o].items[b] /\ b = (IF o = 1 THEN j - 1 ELSE j)
        BY <2>12, <3>3
      <4>3. p = o /\ a = b
        BY <1>2, <1>3, <4>1, <4>2 DEF N!Distinct
      <4>4. p = 1 => i \in 1 .. d + 1 /\ j \in 1 .. d + 1
        BY <2>6, <2>8, <2>10, <4>3
      <4> QED BY <4>1, <4>2, <4>3, <4>4
    <3> QED BY <3>1, <3>2, <3>3
  <2>17. N!Last(more).next = N!Last(ps).next
    <3>1. N!Last(more) = more[k]
      BY <2>10, LastPage
    <3>2. more[k].next = ps[k].next
      <4>1. CASE k = 1
        BY <2>1, <2>8, <2>10, <4>1
      <4>2. CASE k # 1
        BY <2>10, <4>2
      <4> QED BY <4>1, <4>2
    <3> QED BY <1>3, <3>1, <3>2
  <2>18. N!Sound(more)
    <3>1. N!Ids(more) \subseteq rows
      BY <1>2, <2>14
    <3>2. \A x \in N!Ids(more) : x >= N!Last(ps).next
      <4>1. r >= N!Last(ps).next
        BY <1>2
      <4> QED BY <1>2, <2>14, <4>1
    <3> QED BY <1>2, <2>10, <2>16, <2>17, <3>1, <3>2 DEF N!Sound
  <2>19. ASSUME N!MarkedRight(ps), r \in unread PROVE N!MarkedRight(more)
    <3>1. it = N!Item(it.id)
      BY <2>3, <2>4, <2>19 DEF N!Item
    <3>2. ASSUME NEW p \in 1 .. k, NEW i \in DOMAIN more[p].items
          PROVE  more[p].items[i] = N!Item(more[p].items[i].id)
      <4>1. \A a \in DOMAIN ps[p].items : ps[p].items[a] = N!Item(ps[p].items[a].id)
        BY <1>3, <2>19 DEF N!MarkedRight
      <4> QED BY <2>12, <3>1, <4>1
    <3> QED BY <2>10, <3>2 DEF N!MarkedRight
  <2> QED BY <1>1, <2>11, <2>14, <2>17, <2>18, <2>19
<1> QED BY <1>4, <1>5

\* A notification event (notifications-feed.tsx): the row goes into the list on screen,
\* and the count is asked of the server.
LEMMA PushStep == ASSUME N!Bounds, N!FeedInv, N!Receive PROVE N!FeedInv'
<1> USE DEF N!FeedInv
<1>1. /\ wire # <<>> /\ wire' = Tail(wire) /\ pages' = N!Prepend(Head(wire))
      /\ UNCHANGED <<rows, unread, unpublished, busUp, stream, status, connected, count,
                     listFetch, moreFetch, mark, marks, drops>>
  BY DEF N!Receive, N!server, N!marking
<1>2. PICK n \in 0 .. MaxRows, c \in 0 .. MaxRows : rows = 1 .. n /\ c = N!Cardinality(unread)
  BY RowsNumbered
<1>3. countFetch' = c /\ c # None
  BY <1>2 DEF N!Receive, N!RefetchCount, N!Bounds
<1>4. PICK r : r = Head(wire)
  OBVIOUS
<1>5. wire \in Seq(N!Row)
  BY DEF N!FeedIsTyped
<1>6. /\ wire' \in Seq(N!Row) /\ N!Range(wire)' \subseteq N!Range(wire) /\ r \in N!Range(wire)
      /\ \A q \in N!Range(wire) : q = r \/ q \in N!Range(wire)'
  <2>1. PICK w \in Seq(N!Row) : w = wire
    BY <1>5
  <2>2. w # <<>> /\ r = w[1] /\ 1 \in DOMAIN w /\ Tail(w) \in Seq(N!Row)
    BY <1>1, <1>4, <2>1
  <2>3. DOMAIN w = 1 .. Len(w) /\ DOMAIN Tail(w) = 1 .. Len(w) - 1 /\ Len(w) \in Nat
        /\ \A i \in 1 .. Len(w) - 1 : Tail(w)[i] = w[i + 1] /\ i + 1 \in 1 .. Len(w)
    BY <2>1, <2>2
  <2>4. N!Range(Tail(w)) \subseteq N!Range(w)
    BY <2>3 DEF N!Range
  <2>5. ASSUME NEW q \in N!Range(w) PROVE q = r \/ q \in N!Range(Tail(w))
    <3>1. PICK i \in 1 .. Len(w) : w[i] = q
      BY <2>3 DEF N!Range
    <3>2. CASE i = 1
      BY <2>2, <3>1, <3>2
    <3>3. CASE i # 1
      <4>1. PICK j : j = i - 1
        OBVIOUS
      <4>2. j \in 1 .. Len(w) - 1 /\ j + 1 = i
        BY <2>3, <3>1, <3>3, <4>1
      <4>3. Tail(w)[j] = q /\ j \in DOMAIN Tail(w)
        BY <2>3, <3>1, <4>2
      <4> QED BY <4>3 DEF N!Range
    <3> QED BY <3>2, <3>3
  <2>6. N!Range(wire)' = N!Range(Tail(w)) /\ N!Range(wire) = N!Range(w)
    BY <1>1, <2>1 DEF N!Range
  <2>7. r \in N!Range(w)
    BY <2>2 DEF N!Range
  <2> QED BY <1>1, <2>1, <2>2, <2>4, <2>5, <2>6, <2>7
<1>7. N!FeedIsTyped'
  <2>1. tainted' \in BOOLEAN
    BY DEF N!Receive, N!FeedIsTyped
  <2> QED BY <1>1, <1>3, <1>6, <2>1 DEF N!FeedIsTyped, N!TypeOK
<1>8. ASSUME ~tainted' PROVE ~tainted /\ N!ListsAreTrue' /\ N!CountIsTrue'
  <2>1. /\ ~tainted /\ listFetch = None /\ moreFetch = None /\ mark = "idle"
        /\ ~(r < N!Last(pages).next)
    BY <1>4, <1>8 DEF N!Receive, N!FeedIsTyped
  <2>2. N!Sound(pages) /\ N!MarkedRight(pages) /\ (stream = "open" => N!Covers(pages))
    BY <2>1 DEF N!ListsAreTrue
  <2>3. r \in unread /\ r \in 1 .. n
    BY <1>2, <1>6, <2>1 DEF N!CountIsTrue, N!FeedIsTyped, N!TypeOK
  <2>4. N!Last(pages).next <= r
    <3>1. N!Last(pages).next \in rows \cup {0}
      BY <2>2 DEF N!Sound
    <3> QED BY <1>2, <2>1, <2>3, <3>1
  <2>5. PICK ps :
          /\ ps = N!Prepend(r) /\ N!Sound(ps) /\ N!Last(ps).next = N!Last(pages).next
          /\ \A q : q \in N!Ids(ps) <=> q \in N!Ids(pages) \/ q = r
          /\ N!MarkedRight(ps)
    BY <1>2, <2>2, <2>3, <2>4, RowOnTop
  <2>6. pages' = ps /\ N!Sound(ps)' /\ N!MarkedRight(ps)'
    BY <1>1, <1>4, <2>5, SoundStays, MarksStay
  <2>7. ASSUME stream' = "open" PROVE N!Covers(ps)'
    <3> SUFFICES ASSUME NEW q \in rows, q >= N!Last(ps).next
                 PROVE  q \in N!Ids(ps) \cup unpublished \cup N!Range(wire)'
      BY <1>1 DEF N!Covers
    <3>1. q \in N!Ids(pages) \cup unpublished \cup N!Range(wire)
      BY <1>1, <2>2, <2>5, <2>7 DEF N!Covers
    <3> QED BY <1>6, <2>5, <3>1
  <2>8. N!ListsAreTrue'
    BY <1>1, <2>1, <2>6, <2>7 DEF N!ListsAreTrue, N!InFlightIsFresh
  <2>9. N!CountIsTrue'
    <3>1. connected
      BY <1>2, <2>1, <2>3 DEF N!CountIsTrue
    <3>2. N!Cardinality(unread)' = c
      BY <1>1, <1>2
    <3> QED BY <1>1, <1>3, <1>6, <2>1, <3>1, <3>2 DEF N!CountIsTrue, N!CountToCome
  <2> QED BY <2>1, <2>8, <2>9
<1> QED BY <1>7, <1>8

\* Load more: the list as it is, and the page behind it, on their way.
LEMMA AskMoreStep == ASSUME N!Bounds, N!FeedInv, N!AskMore PROVE N!FeedInv'
<1> USE DEF N!FeedInv
<1>1. /\ N!HasMore /\ moreFetch' = Append(pages, N!Page(N!Last(pages).next)) /\ listFetch' = None
      /\ UNCHANGED <<rows, unread, unpublished, busUp, stream, wire, status, connected, pages,
                     count, countFetch, mark, marks, drops>>
  BY DEF N!AskMore, N!server, N!link, N!cache, N!marking
<1>2. N!Range(wire)' = N!Range(wire)
  BY <1>1 DEF N!Range
<1>3. N!FeedIsTyped'
  <2>1. tainted' \in BOOLEAN
    BY DEF N!AskMore, N!FeedIsTyped
  <2> QED BY <1>1, <1>2, <2>1 DEF N!FeedIsTyped, N!TypeOK
<1>4. ASSUME ~tainted' PROVE ~tainted /\ N!ListsAreTrue' /\ N!CountIsTrue'
  <2>1. ~tainted /\ listFetch = None /\ mark = "idle"
    BY <1>4 DEF N!AskMore, N!FeedIsTyped
  <2>2. PICK ps : ps = pages
    OBVIOUS
  <2>3. N!Sound(ps) /\ N!MarkedRight(ps) /\ (stream = "open" => N!Covers(ps))
    BY <2>1, <2>2 DEF N!ListsAreTrue
  <2>4. PICK n \in 0 .. MaxRows : rows = 1 .. n
    BY RowsNumbered
  <2>5. PICK more :
          /\ more = Append(ps, N!Page(N!Last(ps).next)) /\ N!Sound(more)
          /\ N!MarkedRight(ps) => N!MarkedRight(more)
          /\ \A r \in rows : N!Last(more).next <= r =>
               r \in N!Ids(more) \/ N!Last(ps).next <= r
          /\ N!Ids(ps) \subseteq N!Ids(more)
    BY <1>1, <2>2, <2>3, <2>4, PageAppended DEF N!HasMore
  <2>6. moreFetch' = more
    BY <1>1, <2>2, <2>5
  <2>7. N!Sound(ps)' /\ N!MarkedRight(ps)' /\ N!Sound(more)' /\ N!MarkedRight(more)'
    BY <1>1, <2>3, <2>5, SoundStays, MarksStay
  <2>8. ASSUME stream = "open" PROVE N!Covers(ps)' /\ N!Covers(more)'
    <3>1. N!Covers(ps)'
      BY <1>1, <1>2, <2>3, <2>8, CoverStays
    <3>2. N!Covers(more)'
      <4> SUFFICES ASSUME NEW r \in rows, r >= N!Last(more).next
                   PROVE  r \in N!Ids(more) \cup unpublished \cup N!Range(wire)
        BY <1>1, <1>2 DEF N!Covers
      <4>1. /\ N!Last(more).next \in 0 .. n /\ N!Last(ps).next \in 0 .. n /\ r \in 1 .. n
        BY <2>3, <2>4, <2>5 DEF N!Sound
      <4>2. r \in N!Ids(more) \/ N!Last(ps).next <= r
        BY <2>5, <4>1
      <4>3. N!Last(ps).next <= r => r >= N!Last(ps).next
        BY <4>1
      <4> QED BY <2>3, <2>5, <2>8, <4>2, <4>3 DEF N!Covers
    <3> QED BY <3>1, <3>2
  <2>9. N!ListsAreTrue'
    BY <1>1, <2>2, <2>6, <2>7, <2>8 DEF N!ListsAreTrue, N!InFlightIsFresh
  <2>10. N!CountIsTrue'
    BY <1>1, <1>2, <2>1 DEF N!CountIsTrue, N!CountToCome
  <2> QED BY <2>1, <2>9, <2>10
<1> QED BY <1>3, <1>4

\* markAllRead is asked, and done in the database: a fetch that crosses it taints the feed.
LEMMA MarkStep ==
  ASSUME N!Bounds, N!FeedInv, N!AskMark \/ N!MarkCommits PROVE N!FeedInv'
<1> USE DEF N!FeedInv
<1>1. /\ UNCHANGED <<rows, unpublished, busUp, stream, wire, status, connected, pages, count,
                     listFetch, countFetch, moreFetch, drops>>
      /\ \/ mark = "idle" /\ mark' = "sent" /\ unread' = unread
         \/ mark' = "done" /\ unread' = {}
  BY DEF N!AskMark, N!MarkCommits, N!server, N!link, N!cache, N!fetch
<1>2. N!Range(wire)' = N!Range(wire)
  BY <1>1 DEF N!Range
<1>3. N!FeedIsTyped'
  <2>1. tainted' \in BOOLEAN
    BY DEF N!AskMark, N!MarkCommits, N!FeedIsTyped
  <2>2. unread' \subseteq rows' /\ mark' \in {"idle", "sent", "done"}
    BY <1>1 DEF N!FeedIsTyped, N!TypeOK
  <2> QED BY <1>1, <1>2, <2>1, <2>2 DEF N!FeedIsTyped, N!TypeOK
<1>4. ASSUME ~tainted' PROVE ~tainted /\ N!ListsAreTrue' /\ N!CountIsTrue'
  <2>1. /\ ~tainted /\ listFetch = None /\ countFetch = None /\ moreFetch = None
        /\ mark' = "done" => wire = <<>> /\ unpublished = {}
    BY <1>1, <1>4 DEF N!AskMark, N!MarkCommits, N!FeedIsTyped, N!fetch
  <2>2. PICK ps : ps = pages
    OBVIOUS
  <2>3. N!Sound(ps)'
    BY <1>1, <2>1, <2>2, SoundStays DEF N!ListsAreTrue
  <2>4. mark' # "done" => N!MarkedRight(ps)'
    <3>1. CASE mark' = "done"
      BY <3>1
    <3>2. CASE mark' # "done"
      BY <1>1, <2>1, <2>2, <3>2, MarksStay DEF N!ListsAreTrue
    <3> QED BY <3>1, <3>2
  <2>5. stream' = "open" => N!Covers(ps)'
    BY <1>1, <1>2, <2>1, <2>2, CoverStays DEF N!ListsAreTrue
  <2>6. N!ListsAreTrue'
    BY <1>1, <2>1, <2>2, <2>3, <2>4, <2>5 DEF N!ListsAreTrue, N!InFlightIsFresh
  <2>7. N!CountIsTrue'
    <3>1. CASE unread' = unread /\ mark' = "sent"
      BY <1>1, <1>2, <2>1, <3>1 DEF N!CountIsTrue, N!CountToCome
    <3>2. CASE mark' = "done" /\ wire = <<>> /\ unpublished = {}
      <4>1. N!Range(wire) = {}
        BY <3>2 DEF N!Range
      <4> QED BY <1>1, <1>2, <2>1, <3>2, <4>1 DEF N!CountIsTrue
    <3> QED BY <1>1, <2>1, <3>1, <3>2
  <2> QED BY <2>1, <2>6, <2>7
<1> QED BY <1>3, <1>4

\* A list whose rows are all marked read is as sound as before.
LEMMA AllMarkedRead ==
  ASSUME N!Bounds, NEW ps, N!Sound(ps)
  PROVE  \E more :
           /\ more = N!AllRead(ps)
           /\ N!Sound(more) /\ N!Ids(more) = N!Ids(ps) /\ N!Last(more).next = N!Last(ps).next
           /\ \A p \in DOMAIN more : \A i \in DOMAIN more[p].items :
                more[p].items[i] = [id |-> more[p].items[i].id, read |-> TRUE]
<1>1. PICK k \in Nat \ {0} : k = Len(ps) /\ DOMAIN ps = 1 .. k /\ N!Last(ps) = ps[k]
  BY LastPage DEF N!Sound
<1>2. \A p \in 1 .. k : ps[p] \in N!Pages
  BY <1>1 DEF N!Sound
<1>3. PICK more : more = N!AllRead(ps)
  OBVIOUS
<1>4. ASSUME NEW p \in 1 .. k
      PROVE  /\ more[p] \in N!Pages /\ more[p].next = ps[p].next
             /\ DOMAIN more[p].items = DOMAIN ps[p].items
             /\ \A i \in DOMAIN ps[p].items :
                  more[p].items[i] = [id |-> ps[p].items[i].id, read |-> TRUE]
  <2>1. PICK q \in N!Pages : q = ps[p]
    BY <1>2
  <2>2. PICK d \in Nat : d = Len(q.items) /\ DOMAIN q.items = 1 .. d
    BY <2>1 DEF N!Pages
  <2>3. \A i \in 1 .. d : q.items[i] \in [id : N!Row, read : BOOLEAN]
    <3>1. PICK S : S = [id : N!Row, read : BOOLEAN]
      OBVIOUS
    <3>2. q.items \in Seq(S)
      BY <2>1, <3>1 DEF N!Pages
    <3>3. \A i \in 1 .. d : q.items[i] \in S
      BY <2>2, <3>2
    <3> QED BY <3>1, <3>3
  <2>4. PICK items : items = [j \in 1 .. d |-> [q.items[j] EXCEPT !.read = TRUE]]
    OBVIOUS
  <2>5. ASSUME NEW i \in 1 .. d
        PROVE  /\ items[i] = [id |-> q.items[i].id, read |-> TRUE]
               /\ items[i] \in [id : N!Row, read : BOOLEAN]
    <3>1. PICK x \in [id : N!Row, read : BOOLEAN] : x = q.items[i]
      BY <2>3
    <3>2. items[i] = [x EXCEPT !.read = TRUE]
      BY <2>4, <3>1
    <3> QED BY <3>1, <3>2
  <2>6. items \in Seq([id : N!Row, read : BOOLEAN]) /\ DOMAIN items = 1 .. d
    <3>1. items \in [1 .. d -> [id : N!Row, read : BOOLEAN]]
      <4>1. items = [i \in 1 .. d |-> items[i]]
        BY <2>4
      <4> QED BY <2>5, <4>1
    <3>2. PICK S : S = [id : N!Row, read : BOOLEAN]
      OBVIOUS
    <3>3. items \in [1 .. d -> S]
      BY <3>1, <3>2
    <3>4. items \in Seq(S) /\ DOMAIN items = 1 .. d
      BY <3>3
    <3> QED BY <3>2, <3>4
  <2>7. more[p] = [q EXCEPT !.items = [j \in DOMAIN @ |-> [@[j] EXCEPT !.read = TRUE]]]
    BY <1>3, <1>1, <2>1 DEF N!AllRead
  <2>8. more[p] = [items |-> items, next |-> q.next]
    BY <2>1, <2>2, <2>4, <2>7 DEF N!Pages
  <2>9. [items |-> items, next |-> q.next] \in N!Pages
    BY <2>1, <2>6 DEF N!Pages
  <2> QED BY <2>1, <2>2, <2>5, <2>6, <2>8, <2>9
<1>5. ASSUME NEW p \in 1 .. k
      PROVE  /\ DOMAIN more[p].items = DOMAIN ps[p].items
             /\ \A i \in DOMAIN ps[p].items : more[p].items[i].id = ps[p].items[i].id
  <2>1. ASSUME NEW i \in DOMAIN ps[p].items PROVE more[p].items[i].id = ps[p].items[i].id
    <3>1. more[p].items[i] = [id |-> ps[p].items[i].id, read |-> TRUE]
      BY <1>4
    <3> QED BY <3>1
  <2> QED BY <1>4, <2>1
<1>6. more \in Seq(N!Pages) /\ DOMAIN more = 1 .. k /\ Len(more) = k /\ more # <<>>
  <2>1. DOMAIN more = 1 .. k
    BY <1>3, <1>1 DEF N!AllRead
  <2>2. more = [p \in 1 .. k |-> more[p]]
    BY <1>3, <1>1 DEF N!AllRead
  <2>3. more \in [1 .. k -> N!Pages]
    BY <1>4, <2>2
  <2> QED BY <2>1, <2>3
<1>7. N!Last(more).next = N!Last(ps).next
  <2>1. N!Last(more) = more[k]
    BY <1>6, LastPage
  <2> QED BY <1>1, <1>4, <2>1
<1>8. ASSUME NEW r PROVE r \in N!Ids(more) <=> r \in N!Ids(ps)
  <2>1. r \in N!Ids(more) <=> \E p \in 1 .. k : \E i \in DOMAIN more[p].items :
                                more[p].items[i].id = r
    BY <1>6, ShownIds
  <2>2. r \in N!Ids(ps) <=> \E p \in 1 .. k : \E i \in DOMAIN ps[p].items :
                              ps[p].items[i].id = r
    BY <1>1, ShownIds
  <2> QED BY <1>5, <2>1, <2>2
<1>9. N!Ids(more) = N!Ids(ps)
  BY <1>8
<1>10. N!Distinct(more)
  BY <1>1, <1>5, <1>6 DEF N!Sound, N!Distinct
<1>11. N!Sound(more)
  BY <1>6, <1>7, <1>9, <1>10 DEF N!Sound
<1>12. ASSUME NEW p \in 1 .. k, NEW i \in DOMAIN more[p].items
       PROVE  more[p].items[i] = [id |-> more[p].items[i].id, read |-> TRUE]
  <2>1. i \in DOMAIN ps[p].items
    BY <1>4
  <2>2. more[p].items[i] = [id |-> ps[p].items[i].id, read |-> TRUE]
    BY <1>4, <2>1
  <2> QED BY <2>2
<1>13. \A p \in DOMAIN more : \A i \in DOMAIN more[p].items :
         more[p].items[i] = [id |-> more[p].items[i].id, read |-> TRUE]
  BY <1>6, <1>12
<1> QED BY <1>3, <1>7, <1>9, <1>11, <1>13

\* markAllRead succeeds: what the tab shows is marked read and its badge is cleared.
LEMMA MarkedStep == ASSUME N!Bounds, N!FeedInv, N!MarkSucceeds PROVE N!FeedInv'
<1> USE DEF N!FeedInv
<1>1. /\ mark' = "idle" /\ count' = 0
      /\ UNCHANGED <<rows, unread, unpublished, busUp, stream, wire, status, connected,
                     listFetch, countFetch, moreFetch, marks, drops>>
  BY DEF N!MarkSucceeds, N!server, N!link, N!fetch
<1>2. N!Range(wire)' = N!Range(wire)
  BY <1>1 DEF N!Range
<1>3. N!FeedIsTyped'
  <2>1. tainted' \in BOOLEAN
    BY DEF N!MarkSucceeds, N!FeedIsTyped
  <2> QED BY <1>1, <1>2, <2>1 DEF N!FeedIsTyped, N!TypeOK, N!Bounds
<1>4. ASSUME ~tainted' PROVE ~tainted /\ N!ListsAreTrue' /\ N!CountIsTrue'
  <2>1. ~tainted /\ unread = {} /\ listFetch = None /\ countFetch = None /\ moreFetch = None
    BY <1>4 DEF N!MarkSucceeds, N!FeedIsTyped, N!fetch
  <2>2. PICK ps : ps = pages
    OBVIOUS
  <2>3. pages' = N!AllRead(ps)
    BY <2>2 DEF N!MarkSucceeds
  <2>4. N!Sound(ps) /\ (stream = "open" => N!Covers(ps))
    BY <2>1, <2>2 DEF N!ListsAreTrue
  <2>5. PICK more :
          /\ more = N!AllRead(ps)
          /\ N!Sound(more) /\ N!Ids(more) = N!Ids(ps) /\ N!Last(more).next = N!Last(ps).next
          /\ \A p \in DOMAIN more : \A i \in DOMAIN more[p].items :
               more[p].items[i] = [id |-> more[p].items[i].id, read |-> TRUE]
    BY <2>4, AllMarkedRead
  <2>6. N!MarkedRight(more)
    <3>1. \A r : N!Item(r) = [id |-> r, read |-> TRUE]
      BY <2>1 DEF N!Item
    <3> QED BY <2>5, <3>1 DEF N!MarkedRight
  <2>7. stream = "open" => N!Covers(more)
    BY <2>4, <2>5 DEF N!Covers
  <2>8. N!Sound(more)' /\ N!MarkedRight(more)'
    BY <1>1, <2>5, <2>6, SoundStays, MarksStay
  <2>9. stream' = "open" => N!Covers(more)'
    BY <1>1, <1>2, <2>7, CoverStays
  <2>10. N!ListsAreTrue'
    <3>1. pages' = more
      BY <2>3, <2>5
    <3> QED BY <1>1, <2>1, <3>1, <2>8, <2>9 DEF N!ListsAreTrue, N!InFlightIsFresh
  <2>11. N!CountIsTrue'
    <3>1. N!Cardinality(unread)' = 0
      BY <1>1, <2>1, FeedCounts, FS_EmptySet
    <3> QED BY <1>1, <1>2, <2>1, <3>1 DEF N!CountIsTrue, N!CountToCome
  <2> QED BY <2>1, <2>10, <2>11
<1> QED BY <1>3, <1>4

\* At rest a list that is sound and misses nothing shows every row down to its last one.
LEMMA RestIsTrue == ASSUME N!Bounds, N!FeedInv PROVE N!NoRowTwice /\ N!RestingFeedIsTrue
<1>1. N!NoRowTwice
  BY DEF N!FeedInv, N!NoRowTwice, N!ListsAreTrue, N!Sound
<1>2. N!RestingFeedIsTrue
  <2> SUFFICES ASSUME N!Quiet, ~tainted
               PROVE  /\ N!Ids(pages) = {r \in rows : /\ N!Ids(pages) # {}
                                                      /\ \E i \in N!Ids(pages) : i <= r}
                      /\ rows # {} => N!Ids(pages) # {}
                      /\ N!MarkedRight(pages)
                      /\ count = N!Cardinality(unread)
    BY DEF N!RestingFeedIsTrue
  <2>1. /\ N!Sound(pages) /\ N!MarkedRight(pages) /\ N!Covers(pages)
        /\ unpublished = {} /\ wire = <<>>
    BY DEF N!FeedInv, N!Quiet, N!ListsAreTrue
  <2>2. count = N!Cardinality(unread)
    BY DEF N!FeedInv, N!Quiet, N!CountIsTrue, N!CountToCome
  <2>3. PICK n \in 0 .. MaxRows : rows = 1 .. n
    BY RowsNumbered DEF N!FeedInv
  <2>4. PICK next : next = N!Last(pages).next
    OBVIOUS
  <2>5. /\ N!Ids(pages) \subseteq rows /\ next \in 0 .. n
        /\ next # 0 => next \in rows
        /\ \A r \in N!Ids(pages) : r >= next
    BY <2>1, <2>3, <2>4 DEF N!Sound
  <2>6. \A r \in rows : r >= next => r \in N!Ids(pages)
    <3>1. N!Range(wire) = {}
      BY <2>1 DEF N!Range
    <3> QED BY <2>1, <2>4, <3>1 DEF N!Covers
  <2>7. rows # {} => N!Ids(pages) # {}
    <3> SUFFICES ASSUME rows # {} PROVE N!Ids(pages) # {}
      OBVIOUS
    <3>1. n \in rows /\ n >= next
      BY <2>3, <2>5
    <3> QED BY <2>6, <3>1
  <2>8. ASSUME NEW r \in rows, NEW i \in N!Ids(pages), i <= r PROVE r \in N!Ids(pages)
    <3>1. i >= next /\ i \in 1 .. n /\ r \in 1 .. n
      BY <2>3, <2>5
    <3>2. r >= next
      BY <2>5, <2>8, <3>1
    <3> QED BY <2>6, <3>2
  <2>9. \A r \in N!Ids(pages) : r \in rows /\ r <= r
    BY <2>3, <2>5
  <2> QED BY <2>1, <2>2, <2>7, <2>8, <2>9
<1> QED BY <1>1, <1>2

\* The feed (components/notifications, trpc/routers/notification.ts): a live feed at rest
\* shows every notification down to the last one shown, none twice, each marked as it is,
\* and counts the unread ones, however many rows, pages, pushes and reconnects there were.
THEOREM FeedIsTrue ==
  ASSUME N!Bounds PROVE N!Spec => [](N!TypeOK /\ N!NoRowTwice /\ N!RestingFeedIsTrue)
<1>1. N!Init => N!FeedInv
  BY FeedBegins
<1>2. N!FeedInv /\ [N!Next]_N!vars => N!FeedInv'
  <2> SUFFICES ASSUME N!FeedInv, [N!Next]_N!vars PROVE N!FeedInv'
    OBVIOUS
  <2>1. CASE UNCHANGED N!vars
    <3>1. UNCHANGED <<rows, unread, unpublished, busUp, stream, wire, status, connected, pages,
                      count, listFetch, countFetch, moreFetch, mark, marks, drops, tainted>>
      BY <2>1 DEF N!vars, N!server, N!link, N!cache, N!fetch, N!marking
    <3>2. N!Range(wire)' = N!Range(wire)
      BY <3>1 DEF N!Range
    <3>3. N!FeedIsTyped'
      BY <3>1, <3>2 DEF N!FeedInv, N!FeedIsTyped, N!TypeOK
    <3>4. ASSUME ~tainted PROVE N!ListsAreTrue' /\ N!CountIsTrue'
      <4>1. N!ListsAreTrue'
        BY <3>1, <3>2, <3>4, ListsStay DEF N!FeedInv
      <4>2. N!CountIsTrue'
        BY <3>1, <3>2, <3>4 DEF N!FeedInv, N!CountIsTrue, N!CountToCome
      <4> QED BY <4>1, <4>2
    <3> QED BY <3>1, <3>3, <3>4 DEF N!FeedInv
  <2>2. CASE N!Create \/ (\E r \in N!Row : N!Publish(r) \/ N!Unpublished(r))
             \/ N!BusDrops \/ N!BusRecovers \/ N!StreamDrops
    BY <2>2, CreateStep, PublishStep, LinkStep
  <2>3. CASE N!MarkCommits \/ N!Open \/ N!Receive \/ N!ListArrives \/ N!CountArrives
             \/ N!SendFallsBack \/ N!AskMore \/ N!MoreArrives \/ N!AskMark \/ N!MarkSucceeds
    BY <2>3, OpenStep, PushStep, LandsStep, AskMoreStep, MarkStep, MarkedStep
  <2> QED BY <2>1, <2>2, <2>3 DEF N!Next, N!Tab
<1>3. N!FeedInv => N!TypeOK /\ N!NoRowTwice /\ N!RestingFeedIsTrue
  <2>1. N!FeedInv => N!TypeOK
    BY DEF N!FeedInv, N!FeedIsTyped
  <2> QED BY <2>1, RestIsTrue
<1> QED BY <1>1, <1>2, <1>3, PTL DEF N!Spec

------------------------------------------------------------------------------
(* The do-not-send list.                                                     *)

\* A list's members are its head's and its tail's (the loop over the recipients).
LEMMA HeadAndTail ==
  ASSUME NEW S, NEW s \in Seq(S), s # <<>>
  PROVE  /\ Tail(s) \in Seq(S) /\ Head(s) \in S
         /\ D!Range(s) = {Head(s)} \cup D!Range(Tail(s))
<1>1. Len(s) \in Nat /\ Len(s) > 0 /\ Head(s) = s[1] /\ Tail(s) \in Seq(S)
      /\ DOMAIN s = 1 .. Len(s) /\ DOMAIN Tail(s) = 1 .. Len(s) - 1
      /\ Len(Tail(s)) = Len(s) - 1 /\ \A i \in 1 .. Len(s) - 1 : Tail(s)[i] = s[i + 1]
  OBVIOUS
<1>2. ASSUME NEW x \in D!Range(s) PROVE x \in {Head(s)} \cup D!Range(Tail(s))
  <2>1. PICK i \in 1 .. Len(s) : x = s[i]
    BY <1>2 DEF D!Range
  <2>2. CASE i = 1
    BY <1>1, <2>1, <2>2
  <2>3. CASE i # 1
    <3>1. i - 1 \in 1 .. Len(Tail(s)) /\ Tail(s)[i - 1] = s[i]
      BY <1>1, <2>1, <2>3
    <3> QED BY <1>1, <2>1, <3>1 DEF D!Range
  <2> QED BY <2>2, <2>3
<1>3. ASSUME NEW x \in D!Range(Tail(s)) PROVE x \in D!Range(s)
  <2>1. PICK i \in 1 .. Len(s) - 1 : x = Tail(s)[i]
    BY <1>1, <1>3 DEF D!Range
  <2>2. i + 1 \in 1 .. Len(s) /\ x = s[i + 1]
    BY <1>1, <2>1
  <2> QED BY <1>1, <2>2 DEF D!Range
<1>4. Head(s) \in D!Range(s) /\ Head(s) \in S
  BY <1>1 DEF D!Range
<1> QED BY <1>1, <1>2, <1>3, <1>4

\* Addresses normalize to addresses, alike in every letter case (trim().toLowerCase()).
LEMMA NormalizedIsAddress ==
  ASSUME D!Bounds, NEW a \in D!Address
  PROVE  /\ D!Normalized(a) \in D!Address /\ D!Normalized(a).box = a.box
         /\ \A c \in Case : [a EXCEPT !.case = c] \in D!Address
                            /\ D!Normalized([a EXCEPT !.case = c]) = D!Normalized(a)
  BY DEF D!Bounds, D!Address, D!Normalized

\* What an event says it is about is a list of addresses (route.ts).
LEMMA RecipientsAreAddresses ==
  ASSUME D!EventsAreTyped, NEW e \in Notice
  PROVE  /\ D!Recipients(e) \in Seq(D!Address)
         /\ D!Range(D!Recipients(e)) \subseteq D!Range(to[e])
         /\ D!Range(D!Recipients(e)) # {} => type[e] \in {"permanent", "complaint", "suppressed"}
  <1>1. <<>> \in Seq(D!Address) /\ D!Range(<<>>) = {}
    BY DEF D!Range
  <1> QED BY <1>1 DEF D!EventsAreTyped, D!Recipients

\* No event has been delivered and nobody is suppressed.
LEMMA DeliveriesBegin == D!Bounds /\ D!Init => D!DeliveryInv
<1> SUFFICES ASSUME D!Bounds, D!Init PROVE D!DeliveryInv
  OBVIOUS
<1>1. D!TypeOK
  BY DEF D!Init, D!TypeOK, D!Bounds
<1>2. D!EventsAreTyped
  <2>1. ASSUME NEW a \in D!Address, NEW b \in D!Address PROVE <<a, b>> \in Seq(D!Address)
    OBVIOUS
  <2>2. {<<a, b>> : a, b \in D!Address} \subseteq Seq(D!Address)
    BY <2>1
  <2>3. <<>> \in Seq(D!Address)
    OBVIOUS
  <2> QED BY <2>2, <2>3 DEF D!Init, D!EventsAreTyped
<1>3. \A a \in D!Address : ~D!IsSuppressed(a)
  BY NormalizedIsAddress DEF D!Init, D!IsSuppressed
<1> QED BY <1>1, <1>2, <1>3
        DEF D!Init, D!DeliveryInv, D!LoopLeavesNobody, D!AckedIsSuppressed, D!SuppressedForCause

\* A delivery, a write, its failure and an answer each leave nobody out.
LEMMA DeliveriesStep == D!Bounds /\ D!DeliveryInv /\ [D!Next]_D!vars => D!DeliveryInv'
<1> SUFFICES ASSUME D!Bounds, D!DeliveryInv, [D!Next]_D!vars PROVE D!DeliveryInv'
  OBVIOUS
<1> USE DEF D!DeliveryInv
<1>0. D!TypeOK /\ D!EventsAreTyped /\ D!LoopLeavesNobody /\ D!AckedIsSuppressed
      /\ D!SuppressedForCause
  OBVIOUS
<1>1. ASSUME UNCHANGED <<type, to, rows>> PROVE
      /\ D!SuppressedForCause'
      /\ (acked' = acked => D!AckedIsSuppressed')
  BY <1>0, <1>1 DEF D!SuppressedForCause, D!AckedIsSuppressed, D!IsSuppressed, D!Normalized,
      D!Recipients
<1>2. ASSUME NEW e \in Notice, D!Deliver(e) PROVE D!DeliveryInv'
  <2>1. D!Recipients(e) \in Seq(D!Address) /\ e # None
    BY <1>0, RecipientsAreAddresses DEF D!Bounds
  <2>2. D!TypeOK' /\ D!EventsAreTyped'
    BY <1>0, <1>2, <2>1 DEF D!Deliver, D!TypeOK, D!EventsAreTyped
  <2>3. D!LoopLeavesNobody'
    BY <1>2, <2>1 DEF D!Deliver, D!LoopLeavesNobody, D!Recipients
  <2> QED BY <1>1, <1>2, <2>2, <2>3 DEF D!Deliver
<1>3. ASSUME NEW e \in Notice, D!Throttled(e) PROVE D!DeliveryInv'
  <2>2. D!TypeOK' /\ D!EventsAreTyped'
    BY <1>0, <1>3 DEF D!Throttled, D!TypeOK, D!EventsAreTyped, D!Bounds
  <2>3. D!LoopLeavesNobody'
    BY <1>0, <1>3 DEF D!Throttled, D!LoopLeavesNobody, D!Recipients, D!IsSuppressed
  <2> QED BY <1>1, <1>3, <2>2, <2>3 DEF D!Throttled
<1>4. ASSUME D!Record PROVE D!DeliveryInv'
  <2>1. /\ handling \in Notice
        /\ rest # <<>> /\ rest' = Tail(rest)
        /\ UNCHANGED <<type, to, due, acked, handling, faults>>
    BY <1>0, <1>4 DEF D!Record, D!LoopLeavesNobody, D!TypeOK
  <2> DEFINE n == D!Normalized(Head(rest))
  <2>2. /\ Tail(rest) \in Seq(D!Address) /\ Head(rest) \in D!Address
        /\ D!Range(rest) = {Head(rest)} \cup D!Range(Tail(rest))
    BY <1>0, <2>1, HeadAndTail DEF D!EventsAreTyped
  <2>3. n \in D!Address /\ n.box = Head(rest).box
    BY <2>2, NormalizedIsAddress
  <2>4. PICK why : why = D!ReasonOf(handling)
    OBVIOUS
  <2>5. why \in {"bounce", "complaint", "provider"}
    BY <2>4 DEF D!ReasonOf
  <2>6. rows' = [rows EXCEPT ![n] = why]
    BY <1>4, <2>4 DEF D!Record
  <2>7. D!TypeOK' /\ D!EventsAreTyped'
    BY <1>0, <2>1, <2>2, <2>5, <2>6 DEF D!TypeOK, D!EventsAreTyped
  <2>8. \A a \in D!Address : D!IsSuppressed(a)' <=> D!IsSuppressed(a) \/ D!Normalized(a) = n
    <3> SUFFICES ASSUME NEW a \in D!Address
                 PROVE D!IsSuppressed(a)' <=> D!IsSuppressed(a) \/ D!Normalized(a) = n
      OBVIOUS
    <3>1. D!Normalized(a) \in D!Address
      BY NormalizedIsAddress
    <3>2. rows'[D!Normalized(a)] = IF D!Normalized(a) = n THEN why ELSE rows[D!Normalized(a)]
      BY <1>0, <2>3, <2>6, <3>1 DEF D!TypeOK
    <3> QED BY <2>5, <3>2 DEF D!IsSuppressed, D!Normalized
  <2>9. \A e \in Notice : D!Recipients(e)' = D!Recipients(e)
    BY <2>1 DEF D!Recipients
  <2>10. /\ D!Range(D!Recipients(handling)) \subseteq D!Address
         /\ D!Range(rest) \subseteq D!Range(D!Recipients(handling))
         /\ \A a \in D!Range(D!Recipients(handling)) : D!IsSuppressed(a) \/ a \in D!Range(rest)
    <3>1. D!Range(D!Recipients(handling)) \subseteq D!Address
      BY <1>0, <2>1, RecipientsAreAddresses DEF D!Range
    <3> QED BY <1>0, <2>1, <3>1 DEF D!LoopLeavesNobody, D!Bounds
  <2>11. D!LoopLeavesNobody'
    <3>2. D!Range(rest') \subseteq D!Range(D!Recipients(handling)) /\ handling # None
      BY <2>1, <2>2, <2>10 DEF D!Bounds
    <3>3. D!Range(D!Recipients(handling))' = D!Range(D!Recipients(handling))
          /\ D!Range(rest)' = D!Range(rest')
      BY <2>1 DEF D!Range, D!Recipients
    <3>4. ASSUME NEW a \in D!Range(D!Recipients(handling))
          PROVE  D!IsSuppressed(a)' \/ a \in D!Range(rest')
      <4>1. a \in D!Address
        BY <2>10
      <4> QED BY <2>1, <2>2, <2>8, <2>10, <4>1
    <3> QED BY <2>1, <3>2, <3>3, <3>4 DEF D!LoopLeavesNobody
  <2>12. D!AckedIsSuppressed'
    <3> SUFFICES ASSUME NEW e \in acked, NEW a \in D!Range(D!Recipients(e)), NEW c \in Case
                 PROVE  D!IsSuppressed([a EXCEPT !.case = c])'
      BY <1>0, <2>1, <2>9 DEF D!AckedIsSuppressed, D!TypeOK, D!Range
    <3>1. a \in D!Address
      BY <1>0, RecipientsAreAddresses DEF D!Range, D!TypeOK
    <3>2. D!IsSuppressed([a EXCEPT !.case = c]) /\ [a EXCEPT !.case = c] \in D!Address
      BY <1>0, <3>1, NormalizedIsAddress DEF D!AckedIsSuppressed
    <3> QED BY <2>8, <3>2
  <2>13. D!SuppressedForCause'
    <3>1. Head(rest) \in D!Range(to[handling])
          /\ type[handling] \in {"permanent", "complaint", "suppressed"}
      BY <1>0, <2>1, <2>2, <2>10, RecipientsAreAddresses
    <3>2. \A a \in D!Address : D!Normalized(a) = n => Head(rest).box = a.box
      BY <2>3, NormalizedIsAddress
    <3>3. \A a \in D!Address : D!IsSuppressed(a)' =>
            \E e \in Notice : /\ type[e] \in {"permanent", "complaint", "suppressed"}
                             /\ \E b \in D!Range(to[e]) : b.box = a.box
      BY <1>0, <2>1, <2>8, <3>1, <3>2 DEF D!SuppressedForCause
    <3> QED BY <2>1, <3>3 DEF D!SuppressedForCause
  <2> QED BY <2>7, <2>11, <2>12, <2>13
<1>5. ASSUME D!RecordFails PROVE D!DeliveryInv'
  <2>1. <<>> \in Seq(D!Address)
    OBVIOUS
  <2>2. D!TypeOK' /\ D!EventsAreTyped'
    BY <1>0, <1>5, <2>1 DEF D!RecordFails, D!TypeOK, D!EventsAreTyped, D!Bounds
  <2>3. D!LoopLeavesNobody'
    BY <1>5 DEF D!RecordFails, D!LoopLeavesNobody
  <2> QED BY <1>1, <1>5, <2>2, <2>3 DEF D!RecordFails
<1>6. ASSUME D!Answer PROVE D!DeliveryInv'
  <2>1. handling \in Notice /\ rest = <<>> /\ handling' = None /\ acked' = acked \cup {handling}
        /\ UNCHANGED <<type, to, rest, rows>>
    BY <1>0, <1>6 DEF D!Answer, D!TypeOK
  <2>2. D!TypeOK' /\ D!EventsAreTyped'
    BY <1>0, <1>6, <2>1 DEF D!Answer, D!TypeOK, D!EventsAreTyped, D!Bounds
  <2>3. D!LoopLeavesNobody'
    BY <2>1 DEF D!LoopLeavesNobody
  <2>4. \A a \in D!Range(D!Recipients(handling)) : a \in D!Address /\ D!IsSuppressed(a)
    BY <1>0, <2>1, RecipientsAreAddresses DEF D!LoopLeavesNobody, D!Range, D!Bounds
  <2>5. \A e \in acked' : \A a \in D!Range(D!Recipients(e)) :
          \A c \in Case : D!IsSuppressed([a EXCEPT !.case = c])
    <3> SUFFICES ASSUME NEW a \in D!Range(D!Recipients(handling)), NEW c \in Case
                 PROVE  D!IsSuppressed([a EXCEPT !.case = c])
      BY <1>0, <2>1 DEF D!AckedIsSuppressed
    <3>1. D!Normalized([a EXCEPT !.case = c]) = D!Normalized(a)
      BY <2>4, NormalizedIsAddress
    <3> QED BY <2>4, <3>1 DEF D!IsSuppressed
  <2>6. D!AckedIsSuppressed'
    BY <2>1, <2>5 DEF D!AckedIsSuppressed, D!IsSuppressed, D!Normalized, D!Recipients
  <2> QED BY <1>1, <2>1, <2>2, <2>3, <2>6
<1>7. CASE UNCHANGED D!vars
  <2>1. D!TypeOK' /\ D!EventsAreTyped'
    BY <1>0, <1>7 DEF D!vars, D!TypeOK, D!EventsAreTyped
  <2>2. D!LoopLeavesNobody'
    BY <1>0, <1>7 DEF D!vars, D!LoopLeavesNobody, D!Recipients, D!IsSuppressed
  <2> QED BY <1>1, <1>7, <2>1, <2>2 DEF D!vars
<1> QED BY <1>2, <1>3, <1>4, <1>5, <1>6, <1>7 DEF D!Next

\* The webhook (app/api/resend/webhook/route.ts, packages/db/src/email-suppressions.ts): an
\* event answered with 200 has suppressed each of its recipients in any letter case, and nobody
\* is suppressed without cause.
THEOREM ListIsTrue ==
  ASSUME D!Bounds
  PROVE  D!Spec => [](D!TypeOK /\ D!AckedIsSuppressed /\ D!SuppressedForCause)
<1>1. D!Init => D!DeliveryInv
  BY DeliveriesBegin
<1>2. D!DeliveryInv /\ [D!Next]_D!vars => D!DeliveryInv'
  BY DeliveriesStep
<1>3. D!DeliveryInv => D!TypeOK /\ D!AckedIsSuppressed /\ D!SuppressedForCause
  BY DEF D!DeliveryInv
<1> QED BY <1>1, <1>2, <1>3, PTL DEF D!Spec

------------------------------------------------------------------------------
(* The in-memory limiter.                                                    *)

\* What was let through until an instant is a number that grows with the instant.
LEMMA GrantsGrow ==
  ASSUME R!Bounds, R!StoreIsTyped, R!GrantsAccumulate, NEW k \in Key,
         NEW s \in Int, NEW t \in Int, s <= t, t <= MaxNow
  PROVE  /\ R!GrantedUntil(k, s) \in Nat /\ R!GrantedUntil(k, t) \in Nat
         /\ R!GrantedUntil(k, s) <= R!GrantedUntil(k, t)
<1>1. granted[k] \in [0 .. MaxNow -> Nat]
  BY DEF R!StoreIsTyped
<1>2. \A i \in 0 .. MaxNow : granted[k][i] \in Nat
  BY <1>1
<1> QED BY <1>2 DEF R!GrantsAccumulate, R!GrantedUntil, R!Bounds

\* Nothing has been let through after now.
LEMMA GrantsEndNow ==
  ASSUME R!Bounds, R!TypeOK, R!GrantsAccumulate, NEW k \in Key,
         NEW t \in Int, now <= t, t <= MaxNow
  PROVE  R!GrantedUntil(k, t) = R!GrantedUntil(k, now)
  BY DEF R!Bounds, R!TypeOK, R!GrantsAccumulate, R!GrantedUntil

\* One request is let through: it counts from now on.
LEMMA GrantAddsOne ==
  ASSUME R!Bounds, R!TypeOK, R!StoreIsTyped, R!GrantsAccumulate, NEW k \in Key, R!Grant(k),
         now' = now
  PROVE  /\ granted' \in [Key -> [0 .. MaxNow -> Nat]]
         /\ R!GrantsAccumulate'
         /\ \A j \in Key : \A t \in Int : t <= MaxNow =>
              R!GrantedUntil(j, t)' =
                R!GrantedUntil(j, t) + (IF j = k /\ t >= now THEN 1 ELSE 0)
<1> DEFINE mine == [t \in 0 .. MaxNow |-> IF t < now THEN granted[k][t] ELSE granted[k][t] + 1]
<1>1. now \in 0 .. MaxNow /\ MaxNow \in Nat
  BY DEF R!TypeOK, R!Bounds
<1>2. granted[k] \in [0 .. MaxNow -> Nat]
  BY DEF R!StoreIsTyped
<1>3. mine \in [0 .. MaxNow -> Nat]
  BY <1>1, <1>2
<1>4. granted' = [granted EXCEPT ![k] = mine]
  BY DEF R!Grant
<1>5. granted' \in [Key -> [0 .. MaxNow -> Nat]]
  <2> HIDE DEF mine
  <2> QED BY <1>3, <1>4 DEF R!StoreIsTyped
<1>6. granted'[k] = mine /\ \A j \in Key : j # k => granted'[j] = granted[j]
  <2> HIDE DEF mine
  <2> QED BY <1>4 DEF R!StoreIsTyped
<1>7. \A t \in 0 .. MaxNow : mine[t] = granted[k][t] + (IF t >= now THEN 1 ELSE 0)
  BY <1>1, <1>2
<1>8. R!GrantsAccumulate'
  <2> SUFFICES ASSUME NEW j \in Key
               PROVE  /\ \A s, t \in 0 .. MaxNow : s <= t => granted'[j][s] <= granted'[j][t]
                      /\ \A t \in now .. MaxNow : granted'[j][t] = granted'[j][now]
    BY DEF R!GrantsAccumulate
  <2>1. CASE j = k
    <3> HIDE DEF mine
    <3>1. \A t \in 0 .. MaxNow : granted[k][t] \in Nat
      BY <1>2
    <3>2. /\ \A s, t \in 0 .. MaxNow : s <= t => granted[k][s] <= granted[k][t]
          /\ \A t \in now .. MaxNow : granted[k][t] = granted[k][now]
      BY DEF R!GrantsAccumulate
    <3> QED BY <1>1, <1>6, <1>7, <2>1, <3>1, <3>2
  <2>2. CASE j # k
    BY <1>6, <2>2 DEF R!GrantsAccumulate
  <2> QED BY <2>1, <2>2
<1>9. ASSUME NEW j \in Key, NEW t \in Int, t <= MaxNow
      PROVE  R!GrantedUntil(j, t)' =
               R!GrantedUntil(j, t) + (IF j = k /\ t >= now THEN 1 ELSE 0)
  <2>1. R!GrantedUntil(j, t)' = IF t < 0 THEN 0 ELSE granted'[j][t]
    BY DEF R!GrantedUntil
  <2>2. R!GrantedUntil(j, t) = IF t < 0 THEN 0 ELSE granted[j][t]
    BY DEF R!GrantedUntil
  <2>3. t >= 0 => t \in 0 .. MaxNow /\ granted[j][t] \in Nat
    <3>1. granted[j] \in [0 .. MaxNow -> Nat]
      BY DEF R!StoreIsTyped
    <3> QED BY <1>1, <1>9, <3>1
  <2> HIDE DEF mine
  <2> QED BY <1>1, <1>6, <1>7, <1>9, <2>1, <2>2, <2>3
<1> QED BY <1>5, <1>8, <1>9

\* The window that ends now holds the running bucket and what went before it.
LEMMA WindowIsTwoBuckets ==
  R!Bounds /\ R!TypeOK /\ R!StoreIsTyped /\ R!GrantsAccumulate /\ R!BucketsCount
    => \A k \in Key : R!GrantedIn(k, now - Window, now) <= 2 * Limit
<1> SUFFICES ASSUME R!Bounds, R!TypeOK, R!StoreIsTyped, R!GrantsAccumulate, R!BucketsCount,
                    NEW k \in Key
             PROVE  R!GrantedIn(k, now - Window, now) <= 2 * Limit
  OBVIOUS
<1>1. now \in Nat /\ now <= MaxNow /\ MaxNow \in Nat /\ Window \in Nat /\ Window > 0
      /\ Limit \in Nat
  BY DEF R!TypeOK, R!Bounds
<1>2. CASE ~R!Running(k)
  <2>1. R!GrantedUntil(k, now) \in Nat /\ R!GrantedUntil(k, now - Window) \in Nat
    BY <1>1, GrantsGrow
  <2>2. R!GrantedIn(k, now - Window, now) <= Limit
    BY <1>2 DEF R!BucketsCount, R!BucketCounts
  <2>3. R!GrantedIn(k, now - Window, now) \in Int
    BY <1>1, <2>1 DEF R!GrantedIn
  <2> QED BY <1>1, <2>2, <2>3
<1>3. CASE R!Running(k)
  <2>1. PICK opened : opened = store[k].reset - Window
    OBVIOUS
  <2>2. opened \in 0 .. now /\ store[k].count \in Nat /\ now < store[k].reset
        /\ store[k].reset \in Nat
    BY <1>1, <1>3, <2>1 DEF R!BucketsCount, R!BucketCounts, R!StoreIsTyped, R!Running
  <2>3. /\ R!GrantedIn(k, opened - 1, now) <= Limit
        /\ R!GrantedIn(k, opened - Window, opened - 1) <= Limit
    BY <1>1, <1>3, <2>1, <2>2 DEF R!BucketsCount, R!BucketCounts
  <2>4. /\ R!GrantedUntil(k, now) \in Nat /\ R!GrantedUntil(k, opened - 1) \in Nat
        /\ R!GrantedUntil(k, opened - Window) \in Nat /\ R!GrantedUntil(k, now - Window) \in Nat
        /\ R!GrantedUntil(k, opened - Window) <= R!GrantedUntil(k, now - Window)
    <3>1. opened - Window <= now - Window /\ opened - 1 <= now /\ now - Window <= now
          /\ {opened - Window, now - Window, opened - 1, now} \subseteq Int
      BY <1>1, <2>2
    <3> QED BY <1>1, <3>1, GrantsGrow
  <2> QED BY <1>1, <2>3, <2>4 DEF R!GrantedIn
<1> QED BY <1>2, <1>3

\* And so does the one that ends at the next instant.
LEMMA NextWindowIsTwoBuckets ==
  R!Bounds' /\ R!TypeOK' /\ R!StoreIsTyped' /\ R!GrantsAccumulate' /\ R!BucketsCount'
    => (\A k \in Key : R!GrantedIn(k, now - Window, now) <= 2 * Limit)'
  BY WindowIsTwoBuckets, PTL

\* What holds of the window now and held of the earlier ones.
LEMMA LaterWindows ==
  ASSUME R!Bounds, R!TypeOK, R!TypeOK', R!StoreIsTyped', R!GrantsAccumulate', R!BucketsCount',
         R!TwiceTheLimit, now' \in {now, now + 1},
         \A j \in Key : \A t \in Int : t < now' => R!GrantedUntil(j, t)' = R!GrantedUntil(j, t)
  PROVE  R!TwiceTheLimit'
<1>1. now \in Nat /\ now' \in Nat /\ MaxNow \in Nat /\ Window \in Nat /\ Window > 0
      /\ Limit \in Nat /\ now' <= MaxNow
  BY DEF R!TypeOK, R!Bounds
<1> SUFFICES ASSUME NEW k \in Key, NEW t \in 0 .. now'
             PROVE  R!GrantedIn(k, t - Window, t)' <= 2 * Limit
  BY DEF R!TwiceTheLimit
<1>2. CASE t = now'
  <2>1. R!Bounds'
    BY DEF R!Bounds
  <2>2. (\A j \in Key : R!GrantedIn(j, now - Window, now) <= 2 * Limit)'
    BY <2>1, NextWindowIsTwoBuckets
  <2> QED BY <1>2, <2>2
<1>3. CASE t # now'
  <2>1. t \in 0 .. now /\ t < now'
    BY <1>1, <1>3
  <2>2. R!GrantedIn(k, t - Window, t) <= 2 * Limit
    BY <2>1 DEF R!TwiceTheLimit
  <2>3. t - Window \in Int /\ t - Window < now'
    BY <1>1, <2>1
  <2> QED BY <2>1, <2>2, <2>3 DEF R!GrantedIn
<1> QED BY <1>2, <1>3

\* No key has a bucket and nothing was let through.
LEMMA LimitBegins == R!Bounds /\ R!Init => R!LimitInv
<1> SUFFICES ASSUME R!Bounds, R!Init PROVE R!LimitInv
  OBVIOUS
<1> DEFINE none == [t \in 0 .. MaxNow |-> 0]
<1>1. /\ now = 0 /\ MaxNow \in Nat /\ Window \in Nat /\ Limit \in Nat /\ PruneEvery \in Nat
      /\ granted = [k \in Key |-> none] /\ refused = {} /\ lastPrune = 0 - PruneEvery
      /\ store = [k \in Key |-> R!NoBucket]
  BY DEF R!Init, R!Bounds
<1>2. none \in [0 .. MaxNow -> Nat] /\ \A t \in 0 .. MaxNow : none[t] = 0
  OBVIOUS
<1> HIDE DEF none
<1>3. R!TypeOK
  BY <1>1 DEF R!Init, R!TypeOK, R!NoBucket, R!Bounds
<1>4. R!StoreIsTyped
  <2>1. R!NoBucket \in [count : Nat, reset : 0 .. MaxNow + Window]
    BY <1>1 DEF R!NoBucket
  <2> QED BY <1>1, <1>2, <2>1 DEF R!StoreIsTyped
<1>5. R!GrantsAccumulate
  BY <1>1, <1>2 DEF R!GrantsAccumulate
<1>6. \A k \in Key : \A t \in Int : t <= MaxNow => R!GrantedUntil(k, t) = 0
  BY <1>1, <1>2 DEF R!GrantedUntil
<1>7. R!BucketsCount
  <2> SUFFICES ASSUME NEW k \in Key PROVE R!BucketCounts(k)
    BY DEF R!BucketsCount
  <2>1. ~R!Running(k)
    BY <1>1 DEF R!Running, R!Has
  <2>2. R!GrantedIn(k, now - Window, now) = 0 /\ R!GrantedIn(k, now - 1, now) = 0
    BY <1>1, <1>6 DEF R!GrantedIn
  <2> QED BY <1>1, <2>1, <2>2 DEF R!BucketCounts
<1>8. R!TwiceTheLimit
  BY <1>1, <1>3, <1>4, <1>5, <1>7, WindowIsTwoBuckets DEF R!TwiceTheLimit
<1> QED BY <1>3, <1>4, <1>5, <1>7, <1>8 DEF R!LimitInv

\* A tick may end a bucket's window; what it let through is then at most the limit.
LEMMA TickCounts ==
  ASSUME R!Bounds, R!LimitInv, R!Tick, NEW k \in Key
  PROVE  R!BucketCounts(k)'
<1>1. /\ now \in Nat /\ now' = now + 1 /\ now < MaxNow /\ MaxNow \in Nat /\ Window \in Nat
      /\ Window > 0 /\ Limit \in Nat /\ store' = store /\ granted' = granted /\ refused' = {}
      /\ store[k].reset \in Nat /\ store[k].count \in Nat
  BY DEF R!Bounds, R!LimitInv, R!TypeOK, R!Tick
<1>2. \A t \in Int : R!GrantedUntil(k, t)' = R!GrantedUntil(k, t)
  BY <1>1 DEF R!GrantedUntil
<1>3. R!GrantedUntil(k, now + 1) = R!GrantedUntil(k, now)
  BY <1>1, GrantsEndNow DEF R!LimitInv
<1>4. \A s, t \in Int : s <= t /\ t <= MaxNow =>
        /\ R!GrantedUntil(k, s) \in Nat /\ R!GrantedUntil(k, t) \in Nat
        /\ R!GrantedUntil(k, s) <= R!GrantedUntil(k, t)
  BY GrantsGrow DEF R!LimitInv
<1>5. R!BucketCounts(k)
  BY DEF R!LimitInv, R!BucketsCount
<1>6. R!Has(k)' <=> R!Has(k)
  BY <1>1 DEF R!Has
<1>7. CASE ~R!Running(k)
  <2>1. ~R!Running(k)'
    BY <1>1, <1>6, <1>7 DEF R!Running
  <2>2. R!GrantedUntil(k, now) - R!GrantedUntil(k, now - Window) <= Limit
    BY <1>5, <1>7 DEF R!BucketCounts, R!GrantedIn
  <2>3. R!GrantedUntil(k, now + 1) - R!GrantedUntil(k, now + 1 - Window) <= Limit
    <3>1. R!GrantedUntil(k, now - Window) <= R!GrantedUntil(k, now + 1 - Window)
          /\ R!GrantedUntil(k, now - Window) \in Nat /\ R!GrantedUntil(k, now + 1 - Window) \in Nat
          /\ R!GrantedUntil(k, now) \in Nat
      BY <1>1, <1>4
    <3> QED BY <1>1, <1>3, <2>2, <3>1
  <2>4. R!GrantedUntil(k, now + 1) - R!GrantedUntil(k, now) = 0
    BY <1>1, <1>3, <1>4
  <2>5. R!GrantedIn(k, now - Window, now)' <= Limit /\ R!GrantedIn(k, now - 1, now)' = 0
    BY <1>1, <1>2, <2>3, <2>4 DEF R!GrantedIn
  <2> QED BY <1>1, <2>1, <2>5 DEF R!BucketCounts
<1>8. CASE R!Running(k)
  <2> DEFINE opened == store[k].reset - Window
  <2>1. /\ opened \in 0 .. now /\ now < store[k].reset
        /\ R!GrantedUntil(k, now) - R!GrantedUntil(k, opened - 1) =
             IF store[k].count <= Limit THEN store[k].count ELSE Limit
        /\ R!GrantedUntil(k, opened - 1) - R!GrantedUntil(k, opened - Window) <= Limit
    BY <1>5, <1>8 DEF R!BucketCounts, R!GrantedIn, R!Running
  <2>2. CASE now + 1 < store[k].reset
    <3>1. R!Running(k)'
      BY <1>1, <1>6, <1>8, <2>2 DEF R!Running
    <3>2. opened' = opened
      BY <1>1
    <3>3. /\ opened \in 0 .. now'
          /\ R!GrantedIn(k, opened - 1, now)' =
               IF store'[k].count <= Limit THEN store'[k].count ELSE Limit
          /\ R!GrantedIn(k, opened - Window, opened - 1)' <= Limit
      BY <1>1, <1>2, <1>3, <2>1, <3>2 DEF R!GrantedIn
    <3> QED BY <1>1, <3>1, <3>2, <3>3 DEF R!BucketCounts
  <2>3. CASE ~(now + 1 < store[k].reset)
    <3>1. ~R!Running(k)' /\ opened = now + 1 - Window
      BY <1>1, <1>6, <2>1, <2>3 DEF R!Running
    <3>2. R!GrantedUntil(k, opened - 1) <= R!GrantedUntil(k, now + 1 - Window)
          /\ R!GrantedUntil(k, opened - 1) \in Nat /\ R!GrantedUntil(k, now + 1 - Window) \in Nat
          /\ R!GrantedUntil(k, now) \in Nat
      BY <1>1, <1>4, <3>1
    <3>3. R!GrantedUntil(k, now + 1) - R!GrantedUntil(k, now + 1 - Window) <= Limit
      BY <1>1, <1>3, <2>1, <3>2
    <3>4. R!GrantedUntil(k, now + 1) - R!GrantedUntil(k, now) = 0
      BY <1>1, <1>3, <1>4
    <3>5. R!GrantedIn(k, now - Window, now)' <= Limit /\ R!GrantedIn(k, now - 1, now)' = 0
      BY <1>1, <1>2, <3>3, <3>4 DEF R!GrantedIn
    <3> QED BY <1>1, <3>1, <3>5 DEF R!BucketCounts
  <2> QED BY <2>2, <2>3
<1> QED BY <1>7, <1>8

\* What a request for one key does to the bucket of another: at most prune it
\* once it has run out.
LEMMA OthersCount ==
  ASSUME R!Bounds, R!LimitInv, NEW k \in Key, NEW j \in Key, j # k,
         now' = now, j \in refused' => j \in refused,
         \/ store'[j] = store[j] \/ (~R!Running(j) /\ store'[j] = R!NoBucket),
         granted'[j] = granted[j]
  PROVE  R!BucketCounts(j)'
<1>1. R!Running(j)' <=> R!Running(j)
  BY DEF R!Running, R!Has
<1>2. R!Running(j) => store'[j] = store[j]
  OBVIOUS
<1>3. \A s, t \in Int : R!GrantedIn(j, s, t)' = R!GrantedIn(j, s, t)
  BY DEF R!GrantedIn, R!GrantedUntil
<1>4. R!BucketCounts(j)
  BY DEF R!LimitInv, R!BucketsCount
<1>5. now \in Int /\ Window \in Int /\ (store[j].reset \in Int)
  BY DEF R!LimitInv, R!TypeOK, R!Bounds
<1>6. CASE R!Running(j)
  <2> DEFINE opened == store[j].reset - Window
  <2>1. opened' = opened /\ opened \in Int /\ opened - 1 \in Int /\ opened - Window \in Int
    BY <1>2, <1>5, <1>6
  <2> QED BY <1>1, <1>2, <1>3, <1>4, <1>5, <1>6, <2>1 DEF R!BucketCounts
<1>7. CASE ~R!Running(j)
  <2>1. now - Window \in Int /\ now - 1 \in Int
    BY <1>5
  <2> QED BY <1>1, <1>3, <1>4, <1>5, <1>7, <2>1 DEF R!BucketCounts
<1> QED BY <1>6, <1>7

\* A bucket is opened when none is running: the others are kept or pruned.
LEMMA OpenStores ==
  ASSUME R!Bounds, R!LimitInv, NEW k \in Key, R!Open(k), now' = now
  PROVE  /\ ~R!Running(k)
         /\ store' \in [Key -> [count : Nat, reset : 0 .. MaxNow + Window]]
         /\ store'[k] = [count |-> 1, reset |-> now + Window]
         /\ \A j \in Key : j # k =>
              store'[j] = store[j] \/ (~R!Running(j) /\ store'[j] = R!NoBucket)
<1> DEFINE new == [count |-> 1, reset |-> now + Window]
<1>1. now \in 0 .. MaxNow /\ MaxNow \in Nat /\ Window \in Nat /\ Window > 0
      /\ store \in [Key -> [count : Nat, reset : 0 .. MaxNow + Window]]
  BY DEF R!LimitInv, R!TypeOK, R!Bounds, R!StoreIsTyped
<1>2. new \in [count : Nat, reset : 0 .. MaxNow + Window]
      /\ R!NoBucket \in [count : Nat, reset : 0 .. MaxNow + Window]
      /\ new.reset = now + Window
  BY <1>1 DEF R!NoBucket
<1>3. PICK opening : opening = [store EXCEPT ![k] = new]
  OBVIOUS
<1>4. opening \in [Key -> [count : Nat, reset : 0 .. MaxNow + Window]]
      /\ opening[k] = new /\ \A j \in Key : j # k => opening[j] = store[j]
  <2> HIDE DEF new
  <2> QED BY <1>1, <1>2, <1>3
<1>5. store' = opening
      \/ store' = [j \in Key |-> IF now >= opening[j].reset THEN R!NoBucket ELSE opening[j]]
  BY <1>3 DEF R!Open, R!Pruned
<1>6. ~R!Running(k)
  <2>1. store[k].reset \in Int /\ now \in Int
    BY <1>1
  <2> QED BY <2>1 DEF R!Open, R!Running
<1> HIDE DEF new
<1>7. store'[k] = new
  BY <1>1, <1>2, <1>4, <1>5
<1>8. store' \in [Key -> [count : Nat, reset : 0 .. MaxNow + Window]]
  BY <1>2, <1>4, <1>5
<1>9. ASSUME NEW j \in Key, j # k
      PROVE  store'[j] = store[j] \/ (~R!Running(j) /\ store'[j] = R!NoBucket)
  <2>1. store'[j] = store[j] \/ (now >= store[j].reset /\ store'[j] = R!NoBucket)
    BY <1>4, <1>5, <1>9
  <2>2. store[j].reset \in Int /\ now \in Int
    BY <1>1
  <2> QED BY <2>1, <2>2 DEF R!Running
<1> QED BY <1>6, <1>7, <1>8, <1>9 DEF new

\* The request that opens a bucket is the first of its window, and what the
\* window before let through is at most the limit.
LEMMA OpenCounts ==
  ASSUME R!Bounds, R!LimitInv, NEW k \in Key, R!Open(k), now' = now
  PROVE  R!BucketCounts(k)'
<1>1. /\ now \in Nat /\ MaxNow \in Nat /\ Window \in Nat /\ Window > 0 /\ Limit \in Nat
      /\ Limit > 0 /\ now <= MaxNow
  BY DEF R!Bounds, R!LimitInv, R!TypeOK
<1>2. /\ ~R!Running(k) /\ store'[k] = [count |-> 1, reset |-> now + Window]
      /\ R!Grant(k) /\ refused' = refused
  BY OpenStores DEF R!Open
<1>3. \A t \in Int : t <= MaxNow =>
        R!GrantedUntil(k, t)' = R!GrantedUntil(k, t) + (IF t >= now THEN 1 ELSE 0)
  BY <1>2, GrantAddsOne DEF R!LimitInv
<1>4. /\ R!GrantedUntil(k, now) - R!GrantedUntil(k, now - Window) <= Limit
      /\ R!GrantedUntil(k, now) - R!GrantedUntil(k, now - 1) = 0
      /\ k \notin refused
  BY <1>2 DEF R!LimitInv, R!BucketsCount, R!BucketCounts, R!GrantedIn
<1>5. /\ R!GrantedUntil(k, now) \in Nat /\ R!GrantedUntil(k, now - 1) \in Nat
      /\ R!GrantedUntil(k, now - Window) \in Nat
  <2>1. now \in Int /\ now - 1 \in Int /\ now - Window \in Int /\ now - 1 <= now
        /\ now - Window <= now
    BY <1>1
  <2> QED BY <1>1, <2>1, GrantsGrow DEF R!LimitInv
<1>6. /\ R!GrantedUntil(k, now)' = R!GrantedUntil(k, now) + 1
      /\ R!GrantedUntil(k, now - 1)' = R!GrantedUntil(k, now - 1)
      /\ R!GrantedUntil(k, now - Window)' = R!GrantedUntil(k, now - Window)
  <2>1. now - 1 \in Int /\ now - Window \in Int /\ ~(now - 1 >= now) /\ ~(now - Window >= now)
        /\ now - 1 <= MaxNow /\ now - Window <= MaxNow
    BY <1>1
  <2>2. ASSUME NEW t \in Int, t <= MaxNow, ~(t >= now), R!GrantedUntil(k, t) \in Nat
        PROVE R!GrantedUntil(k, t)' = R!GrantedUntil(k, t)
    BY <1>3, <2>2
  <2>3. ASSUME NEW t \in Int, t <= MaxNow, t = now
        PROVE R!GrantedUntil(k, t)' = R!GrantedUntil(k, t) + 1
    BY <1>1, <1>3, <2>3
  <2>4. R!GrantedUntil(k, now)' = R!GrantedUntil(k, now) + 1
    BY <1>1, <2>3 DEF R!GrantedUntil
  <2>5. R!GrantedUntil(k, now - 1)' = R!GrantedUntil(k, now - 1)
    BY <1>5, <2>1, <2>2 DEF R!GrantedUntil
  <2>6. R!GrantedUntil(k, now - Window)' = R!GrantedUntil(k, now - Window)
    BY <1>5, <2>1, <2>2 DEF R!GrantedUntil
  <2> QED BY <2>4, <2>5, <2>6
<1>7. R!Running(k)' /\ store'[k].reset - Window = now /\ store'[k].count = 1
  BY <1>1, <1>2 DEF R!Running, R!Has, R!NoBucket
<1>8. /\ R!GrantedIn(k, now - 1, now)' = 1
      /\ R!GrantedIn(k, now - Window, now - 1)' <= Limit
  BY <1>1, <1>4, <1>5, <1>6 DEF R!GrantedIn
<1>9. /\ R!GrantedIn(k, store[k].reset - Window - 1, now)' = 1
      /\ R!GrantedIn(k, store[k].reset - Window - Window, store[k].reset - Window - 1)' <= Limit
  BY <1>7, <1>8
<1> QED BY <1>1, <1>2, <1>4, <1>7, <1>9 DEF R!BucketCounts

\* A request of a running bucket is let through while the count is within the limit.
LEMMA CountCounts ==
  ASSUME R!Bounds, R!LimitInv, NEW k \in Key, R!Count(k), now' = now
  PROVE  R!BucketCounts(k)'
<1>1. /\ now \in Nat /\ MaxNow \in Nat /\ Window \in Nat /\ Window > 0 /\ Limit \in Nat
      /\ Limit > 0 /\ now <= MaxNow
  BY DEF R!Bounds, R!LimitInv, R!TypeOK
<1>2. store[k].count \in Nat /\ store[k].reset \in Nat
      /\ store \in [Key -> [count : Nat, reset : 0 .. MaxNow + Window]]
  BY DEF R!LimitInv, R!StoreIsTyped, R!TypeOK, R!Bounds
<1>3. /\ R!Running(k)
      /\ store'[k] = [store[k] EXCEPT !.count = store[k].count + 1]
      /\ \/ store[k].count + 1 <= Limit /\ R!Grant(k) /\ refused' = refused
         \/ store[k].count + 1 > Limit /\ granted' = granted /\ refused' = refused \cup {k}
  BY <1>1, <1>2 DEF R!Count, R!Running
<1>4. store'[k].count = store[k].count + 1 /\ store'[k].reset = store[k].reset
  BY <1>2, <1>3
<1>5. R!Running(k)' /\ now < store[k].reset
  BY <1>1, <1>2, <1>3, <1>4 DEF R!Running, R!Has, R!NoBucket
<1>6. PICK opened : opened = store[k].reset - Window
  OBVIOUS
<1>7. /\ opened \in Nat /\ opened <= now
      /\ R!GrantedUntil(k, now) - R!GrantedUntil(k, opened - 1) =
           IF store[k].count <= Limit THEN store[k].count ELSE Limit
      /\ R!GrantedUntil(k, opened - 1) - R!GrantedUntil(k, opened - Window) <= Limit
      /\ k \in refused => store[k].count > Limit
  BY <1>3, <1>6 DEF R!LimitInv, R!BucketsCount, R!BucketCounts, R!GrantedIn
<1>8. opened - 1 \in Int /\ opened - Window \in Int /\ opened - 1 < now /\ opened - Window < now
      /\ opened - 1 <= MaxNow /\ opened - Window <= MaxNow /\ now \in Int
  BY <1>1, <1>7
<1>9. /\ R!GrantedUntil(k, now) \in Nat /\ R!GrantedUntil(k, opened - 1) \in Nat
      /\ R!GrantedUntil(k, opened - Window) \in Nat
  BY <1>1, <1>8, GrantsGrow DEF R!LimitInv
<1>10. CASE store[k].count + 1 <= Limit /\ R!Grant(k) /\ refused' = refused
  <2>1. ASSUME NEW t \in Int, t <= MaxNow
        PROVE R!GrantedUntil(k, t)' = R!GrantedUntil(k, t) + (IF t >= now THEN 1 ELSE 0)
    BY <1>10, <2>1, GrantAddsOne DEF R!LimitInv
  <2>2. R!GrantedUntil(k, opened - 1)' = R!GrantedUntil(k, opened - 1)
        /\ R!GrantedUntil(k, opened - Window)' = R!GrantedUntil(k, opened - Window)
    BY <1>1, <1>8, <1>9, <2>1
  <2>3. ASSUME NEW t \in Int, t = now PROVE R!GrantedUntil(k, t)' = R!GrantedUntil(k, t) + 1
    BY <1>1, <2>1, <2>3
  <2>4. R!GrantedUntil(k, now)' = R!GrantedUntil(k, now) + 1
    BY <1>1, <2>3 DEF R!GrantedUntil
  <2>5. /\ R!GrantedIn(k, opened - 1, now)' = store'[k].count
        /\ R!GrantedIn(k, opened - Window, opened - 1)' <= Limit
    BY <1>1, <1>2, <1>4, <1>7, <1>9, <1>10, <2>2, <2>4 DEF R!GrantedIn
  <2>6. /\ R!GrantedIn(k, store[k].reset - Window - 1, now)' = store'[k].count
        /\ R!GrantedIn(k, store[k].reset - Window - Window, store[k].reset - Window - 1)' <= Limit
    BY <1>4, <1>6, <2>5
  <2>7. store'[k].count <= Limit /\ (store[k].reset - Window)' \in 0 .. now' /\ k \notin refused'
    BY <1>1, <1>2, <1>4, <1>6, <1>7, <1>10
  <2> QED BY <1>5, <2>6, <2>7 DEF R!BucketCounts
<1>11. CASE store[k].count + 1 > Limit /\ granted' = granted /\ refused' = refused \cup {k}
  <2>1. \A t \in Int : R!GrantedUntil(k, t)' = R!GrantedUntil(k, t)
    BY <1>11 DEF R!GrantedUntil
  <2>2. R!GrantedUntil(k, now)' = R!GrantedUntil(k, now)
    BY <1>11 DEF R!GrantedUntil
  <2>3. /\ R!GrantedIn(k, opened - 1, now)' = Limit
        /\ R!GrantedIn(k, opened - Window, opened - 1)' <= Limit
    BY <1>1, <1>2, <1>7, <1>8, <1>9, <1>11, <2>1, <2>2 DEF R!GrantedIn
  <2>4. /\ R!GrantedIn(k, store[k].reset - Window - 1, now)' = Limit
        /\ R!GrantedIn(k, store[k].reset - Window - Window, store[k].reset - Window - 1)' <= Limit
    BY <1>4, <1>6, <2>3
  <2>5. store'[k].count > Limit /\ store'[k].count \in Nat
        /\ (store[k].reset - Window)' \in 0 .. now'
    BY <1>1, <1>2, <1>4, <1>6, <1>7, <1>11
  <2> QED BY <1>1, <1>5, <2>4, <2>5 DEF R!BucketCounts
<1> QED BY <1>3, <1>10, <1>11

\* A tick, and a request that opens a bucket, is counted in one or is refused, each keep the
\* counts of every key.
LEMMA LimitStep == R!Bounds /\ R!LimitInv /\ [R!Next]_R!vars => R!LimitInv'
<1> SUFFICES ASSUME R!Bounds, R!LimitInv, [R!Next]_R!vars PROVE R!LimitInv'
  OBVIOUS
<1>1. /\ now \in Nat /\ MaxNow \in Nat /\ Window \in Nat /\ Window > 0 /\ Limit \in Nat
      /\ now <= MaxNow /\ lastPrune \in Int /\ lastPrune <= now /\ asks \in Nat /\ MaxAsks \in Nat
      /\ asks <= MaxAsks
  BY DEF R!Bounds, R!LimitInv, R!TypeOK, R!StoreIsTyped
<1>2. ASSUME store' \in [Key -> [count : Nat, reset : 0 .. MaxNow + Window]]
      PROVE  \A k \in Key : store'[k].count \in Nat /\ store'[k].reset \in 0 .. (MaxNow + Window)
  BY <1>2
<1>3. CASE R!Tick
  <2>1. R!TypeOK' /\ R!StoreIsTyped'
    BY <1>1, <1>3 DEF R!Tick, R!LimitInv, R!TypeOK, R!StoreIsTyped
  <2>2. R!GrantsAccumulate'
    <3> SUFFICES ASSUME NEW k \in Key, NEW t \in now + 1 .. MaxNow
                 PROVE  granted[k][t] = granted[k][now + 1]
      BY <1>3 DEF R!Tick, R!LimitInv, R!GrantsAccumulate
    <3>1. t \in now .. MaxNow /\ now + 1 \in now .. MaxNow
      BY <1>1, <1>3 DEF R!Tick
    <3> QED BY <3>1 DEF R!LimitInv, R!GrantsAccumulate
  <2>3. R!BucketsCount'
    BY <1>3, TickCounts DEF R!BucketsCount
  <2>4. now' \in {now, now + 1}
        /\ \A j \in Key : \A t \in Int : t < now' => R!GrantedUntil(j, t)' = R!GrantedUntil(j, t)
    BY <1>3 DEF R!Tick, R!GrantedUntil
  <2>5. R!TwiceTheLimit'
    BY <2>1, <2>2, <2>3, <2>4, LaterWindows DEF R!LimitInv
  <2> QED BY <2>1, <2>2, <2>3, <2>5 DEF R!LimitInv
<1>4. ASSUME NEW k \in Key, R!Ask(k) PROVE R!LimitInv'
  <2>1. now' = now /\ asks' \in 0 .. MaxAsks
    BY <1>1, <1>4 DEF R!Ask
  <2>2. ASSUME store' \in [Key -> [count : Nat, reset : 0 .. MaxNow + Window]],
               lastPrune' \in Int, lastPrune' <= now, refused' \subseteq Key,
               \/ R!Grant(k) \/ granted' = granted,
               R!BucketsCount'
        PROVE  R!LimitInv'
    <3>1. granted' \in [Key -> [0 .. MaxNow -> Nat]] /\ R!GrantsAccumulate'
      <4>1. CASE R!Grant(k)
        BY <2>1, <4>1, GrantAddsOne DEF R!LimitInv
      <4>2. CASE granted' = granted
        BY <2>1, <4>2 DEF R!LimitInv, R!StoreIsTyped, R!GrantsAccumulate
      <4> QED BY <2>2, <4>1, <4>2
    <3>2. R!TypeOK' /\ R!StoreIsTyped'
      BY <1>1, <1>2, <2>1, <2>2, <3>1 DEF R!TypeOK, R!StoreIsTyped
    <3>3. ASSUME NEW j \in Key, NEW t \in Int, t < now'
          PROVE  R!GrantedUntil(j, t)' = R!GrantedUntil(j, t)
      <4>1. CASE R!Grant(k)
        <5>1. t <= MaxNow /\ ~(t >= now) /\ R!GrantedUntil(j, t) \in Nat
          BY <1>1, <2>1, <3>3, GrantsGrow DEF R!LimitInv
        <5>2. R!GrantedUntil(j, t)' = R!GrantedUntil(j, t) + (IF j = k /\ t >= now THEN 1 ELSE 0)
          BY <2>1, <4>1, <5>1, GrantAddsOne DEF R!LimitInv
        <5> QED BY <5>1, <5>2
      <4>2. CASE granted' = granted
        BY <4>2 DEF R!GrantedUntil
      <4> QED BY <2>2, <4>1, <4>2
    <3>4. R!TwiceTheLimit'
      BY <2>1, <2>2, <3>1, <3>2, <3>3, LaterWindows DEF R!LimitInv
    <3> QED BY <2>2, <3>1, <3>2, <3>4 DEF R!LimitInv
  <2>3. CASE R!Open(k)
    <3>1. /\ store' \in [Key -> [count : Nat, reset : 0 .. MaxNow + Window]]
          /\ lastPrune' \in Int /\ lastPrune' <= now /\ refused' \subseteq Key /\ R!Grant(k)
          /\ refused' = refused
      <4>1. store' \in [Key -> [count : Nat, reset : 0 .. MaxNow + Window]]
        BY <2>1, <2>3, OpenStores
      <4>2. (lastPrune' = lastPrune \/ lastPrune' = now) /\ R!Grant(k) /\ refused' = refused
        BY <2>3 DEF R!Open
      <4> QED BY <1>1, <4>1, <4>2 DEF R!LimitInv, R!StoreIsTyped
    <3>2. ASSUME NEW j \in Key, j # k PROVE R!BucketCounts(j)'
      <4>1. store'[j] = store[j] \/ (~R!Running(j) /\ store'[j] = R!NoBucket)
        BY <2>1, <2>3, <3>2, OpenStores
      <4>2. granted'[j] = granted[j]
        BY <3>1, <3>2 DEF R!Grant, R!LimitInv, R!StoreIsTyped
      <4> QED BY <2>1, <3>1, <3>2, <4>1, <4>2, OthersCount
    <3>3. R!BucketsCount'
      BY <2>1, <2>3, <3>2, OpenCounts DEF R!BucketsCount
    <3> QED BY <2>2, <3>1, <3>3
  <2>4. CASE R!Count(k)
    <3>1. lastPrune' = lastPrune /\ (R!Grant(k) \/ granted' = granted)
          /\ (refused' = refused \/ refused' = refused \cup {k})
      BY <2>4 DEF R!Count
    <3>2. store' \in [Key -> [count : Nat, reset : 0 .. MaxNow + Window]]
          /\ \A j \in Key : j # k => store'[j] = store[j]
      <4>1. PICK mine : mine = [store[k] EXCEPT !.count = store[k].count + 1]
        OBVIOUS
      <4>2. store[k] \in [count : Nat, reset : 0 .. MaxNow + Window]
        BY DEF R!LimitInv, R!StoreIsTyped
      <4>3. mine \in [count : Nat, reset : 0 .. MaxNow + Window]
        BY <4>1, <4>2
      <4>4. store' = [store EXCEPT ![k] = mine]
        BY <2>4, <4>1 DEF R!Count
      <4> QED BY <4>3, <4>4 DEF R!LimitInv, R!StoreIsTyped
    <3>3. ASSUME NEW j \in Key, j # k PROVE R!BucketCounts(j)'
      <4>1. granted'[j] = granted[j]
        BY <3>1, <3>3 DEF R!Grant, R!LimitInv, R!StoreIsTyped
      <4> QED BY <2>1, <3>1, <3>2, <3>3, <4>1, OthersCount
    <3>4. R!BucketsCount'
      BY <2>1, <2>4, <3>3, CountCounts DEF R!BucketsCount
    <3>5. refused' \subseteq Key
      BY <3>1 DEF R!LimitInv, R!StoreIsTyped
    <3> QED BY <1>1, <2>2, <3>1, <3>2, <3>4, <3>5
  <2> QED BY <1>4, <2>3, <2>4 DEF R!Ask
<1>5. CASE UNCHANGED R!vars
  <2>1. /\ now' = now /\ store' = store /\ lastPrune' = lastPrune /\ asks' = asks
        /\ granted' = granted /\ refused' = refused
    BY <1>5 DEF R!vars
  <2> QED BY <2>1 DEF R!LimitInv, R!TypeOK, R!StoreIsTyped, R!GrantsAccumulate, R!BucketsCount,
            R!BucketCounts, R!Running, R!Has, R!GrantedIn, R!GrantedUntil, R!TwiceTheLimit
<1> QED BY <1>3, <1>4, <1>5 DEF R!Next

\* A bucket that refuses is full, and was opened within the window.
LEMMA RefusalsAreEarned == R!Bounds /\ R!LimitInv => R!RefusalIsEarned
<1> SUFFICES ASSUME R!Bounds, R!LimitInv, NEW k \in refused
             PROVE  R!GrantedIn(k, now - Window, now) >= Limit
  BY DEF R!RefusalIsEarned
<1>1. k \in Key /\ R!Running(k) /\ store[k].count > Limit
  BY DEF R!LimitInv, R!BucketsCount, R!BucketCounts, R!StoreIsTyped
<1>2. /\ now \in Nat /\ MaxNow \in Nat /\ Window \in Nat /\ Window > 0 /\ Limit \in Nat
      /\ now <= MaxNow /\ store[k].count \in Nat /\ store[k].reset \in Nat
      /\ now < store[k].reset
  BY <1>1 DEF R!Bounds, R!LimitInv, R!TypeOK, R!Running
<1>3. PICK opened : opened = store[k].reset - Window
  OBVIOUS
<1>4. opened \in 0 .. now /\ R!GrantedUntil(k, now) - R!GrantedUntil(k, opened - 1) = Limit
  BY <1>1, <1>2, <1>3 DEF R!LimitInv, R!BucketsCount, R!BucketCounts, R!GrantedIn
<1>5. now - Window \in Int /\ opened - 1 \in Int /\ now - Window <= opened - 1
      /\ opened - 1 <= MaxNow /\ now \in Int
  BY <1>2, <1>3, <1>4
<1>6. R!GrantedUntil(k, now - Window) \in Nat /\ R!GrantedUntil(k, opened - 1) \in Nat
      /\ R!GrantedUntil(k, now - Window) <= R!GrantedUntil(k, opened - 1)
      /\ R!GrantedUntil(k, now) \in Nat
  BY <1>1, <1>2, <1>5, GrantsGrow DEF R!LimitInv
<1> QED BY <1>2, <1>4, <1>6 DEF R!GrantedIn

\* The in-memory limiter (lib/rate-limit.ts): whatever the requests and the prunes, no window
\* holds more than twice the limit, and a key is refused only after its limit was let through.
THEOREM LimitHolds ==
  ASSUME R!Bounds
  PROVE  R!Spec => [](R!TypeOK /\ R!TwiceTheLimit /\ R!RefusalIsEarned)
<1>1. R!Init => R!LimitInv
  BY LimitBegins
<1>2. R!LimitInv /\ [R!Next]_R!vars => R!LimitInv'
  BY LimitStep
<1>3. R!LimitInv => R!TypeOK /\ R!TwiceTheLimit /\ R!RefusalIsEarned
  BY RefusalsAreEarned DEF R!LimitInv
<1> QED BY <1>1, <1>2, <1>3, PTL DEF R!Spec

------------------------------------------------------------------------------
(* The reads of a reminder sweep.                                            *)

\* The sweep counts as this module does.
LEMMA CountingOfDue ==
  ASSUME NEW S
  PROVE  /\ Q!IsFiniteSet(S) <=> IsFiniteSet(S)
         /\ Q!Cardinality(S) = Cardinality(S)
         /\ \A k : Q!kSubset(k, S) = {T \in SUBSET S : Cardinality(T) = k}
<1>1. Q!IsFiniteSet(S) <=> IsFiniteSet(S)
  BY DEF Q!IsFiniteSet, IsFiniteSet
<1>2. \A T : Q!Cardinality(T) = Cardinality(T)
  BY DEF Q!Cardinality, Cardinality, Q!IsFiniteSet, IsFiniteSet
<1>3. \A k : Q!kSubset(k, S) = {T \in SUBSET S : Cardinality(T) = k}
  BY <1>2 DEF Q!kSubset
<1> QED BY <1>1, <1>2, <1>3

\* An occurrence is its event, its slot and its start (run.ts, DueReminder).
LEMMA OccurrencesAre ==
  /\ \A e, k, i : /\ Q!Starting(e, k, i).event = e /\ Q!Starting(e, k, i).slot = k
                  /\ Q!Starting(e, k, i).start = i
  /\ \A e \in OneOff : startOf[e] # None => Q!Starting(e, None, startOf[e]) \in Q!OneOffRows
  /\ \A s \in Series, k \in Slot : live[s] /\ override[s][k] # None =>
       Q!Starting(s, k, override[s][k]) \in Q!OverrideRows
  /\ \A s \in Series, k \in Slot : live[s] /\ override[s][k] = None /\ k \notin exdates[s] =>
       Q!Starting(s, k, k) \in Q!RuleSlots
  /\ \A d \in Q!OneOffRows : /\ d.event \in OneOff /\ d.slot = None /\ startOf[d.event] # None
                             /\ d = Q!Starting(d.event, None, startOf[d.event])
  /\ \A d \in Q!OverrideRows : /\ d.event \in Series /\ d.slot \in Slot /\ live[d.event]
                               /\ override[d.event][d.slot] # None
                               /\ d = Q!Starting(d.event, d.slot, override[d.event][d.slot])
  /\ \A d \in Q!RuleSlots : /\ d.event \in Series /\ d.slot \in Slot /\ live[d.event]
                            /\ override[d.event][d.slot] = None
                            /\ d.slot \notin exdates[d.event]
                            /\ d = Q!Starting(d.event, d.slot, d.slot)
<1>1. \A e, k, i : /\ Q!Starting(e, k, i).event = e /\ Q!Starting(e, k, i).slot = k
                   /\ Q!Starting(e, k, i).start = i
  BY DEF Q!Starting
<1>2. /\ \A e \in OneOff : startOf[e] # None => Q!Starting(e, None, startOf[e]) \in Q!OneOffRows
      /\ \A d \in Q!OneOffRows : /\ d.event \in OneOff /\ d.slot = None /\ startOf[d.event] # None
                                 /\ d = Q!Starting(d.event, None, startOf[d.event])
  BY <1>1 DEF Q!OneOffRows
<1>3. \A s \in Series, k \in Slot : live[s] /\ override[s][k] # None =>
        Q!Starting(s, k, override[s][k]) \in Q!OverrideRows
  <2> SUFFICES ASSUME NEW s \in Series, NEW k \in Slot, live[s], override[s][k] # None
               PROVE  Q!Starting(s, k, override[s][k]) \in Q!OverrideRows
    OBVIOUS
  <2>1. PICK p \in Series \X Slot : p = <<s, k>>
    OBVIOUS
  <2> QED BY <2>1 DEF Q!OverrideRows
<1>4. \A s \in Series, k \in Slot : live[s] /\ override[s][k] = None /\ k \notin exdates[s] =>
        Q!Starting(s, k, k) \in Q!RuleSlots
  <2> SUFFICES ASSUME NEW s \in Series, NEW k \in Slot, live[s], override[s][k] = None,
                      k \notin exdates[s]
               PROVE  Q!Starting(s, k, k) \in Q!RuleSlots
    OBVIOUS
  <2>1. PICK p \in Series \X Slot : p = <<s, k>>
    OBVIOUS
  <2> QED BY <2>1 DEF Q!RuleSlots
<1>5. \A d \in Q!OverrideRows : /\ d.event \in Series /\ d.slot \in Slot /\ live[d.event]
                                /\ override[d.event][d.slot] # None
                                /\ d = Q!Starting(d.event, d.slot, override[d.event][d.slot])
  BY <1>1 DEF Q!OverrideRows
<1>6. \A d \in Q!RuleSlots : /\ d.event \in Series /\ d.slot \in Slot /\ live[d.event]
                             /\ override[d.event][d.slot] = None
                             /\ d.slot \notin exdates[d.event]
                             /\ d = Q!Starting(d.event, d.slot, d.slot)
  BY <1>1 DEF Q!RuleSlots
<1> QED BY <1>1, <1>2, <1>3, <1>4, <1>5, <1>6

\* The same of the calendar after a step.
LEMMA OccurrencesWillBe ==
  /\ \A d \in Q!OneOffRows' : /\ d.event \in OneOff /\ d.slot = None /\ startOf'[d.event] # None
                              /\ d = Q!Starting(d.event, None, startOf'[d.event])
  /\ \A d \in Q!OverrideRows' : /\ d.event \in Series /\ d.slot \in Slot /\ live'[d.event]
                                /\ override'[d.event][d.slot] # None
                                /\ d = Q!Starting(d.event, d.slot, override'[d.event][d.slot])
  /\ \A d \in Q!RuleSlots' : /\ d.event \in Series /\ d.slot \in Slot /\ live'[d.event]
                             /\ override'[d.event][d.slot] = None
                             /\ d.slot \notin exdates'[d.event]
                             /\ d = Q!Starting(d.event, d.slot, d.slot)
<1>1. \A e, k, i : /\ Q!Starting(e, k, i).event = e /\ Q!Starting(e, k, i).slot = k
                   /\ Q!Starting(e, k, i).start = i
  BY DEF Q!Starting
<1>2. \A d \in Q!OneOffRows' : /\ d.event \in OneOff /\ d.slot = None /\ startOf'[d.event] # None
                               /\ d = Q!Starting(d.event, None, startOf'[d.event])
  BY <1>1 DEF Q!OneOffRows, Q!Starting
<1>3. \A d \in Q!OverrideRows' : /\ d.event \in Series /\ d.slot \in Slot /\ live'[d.event]
                                 /\ override'[d.event][d.slot] # None
                                 /\ d = Q!Starting(d.event, d.slot, override'[d.event][d.slot])
  BY <1>1 DEF Q!OverrideRows, Q!Starting
<1>4. \A d \in Q!RuleSlots' : /\ d.event \in Series /\ d.slot \in Slot /\ live'[d.event]
                              /\ override'[d.event][d.slot] = None
                              /\ d.slot \notin exdates'[d.event]
                              /\ d = Q!Starting(d.event, d.slot, d.slot)
  BY <1>1 DEF Q!RuleSlots, Q!Starting
<1> QED BY <1>2, <1>3, <1>4

\* Every row is an occurrence of the model's types.
LEMMA CalendarIsTyped ==
  ASSUME Q!Bounds, Q!TypeOK
  PROVE  Q!OnTheCalendar \subseteq Q!Occurrence
<1>1. Slot \subseteq Instant
  BY DEF Q!Bounds, Q!ConstantsAssumption
<1>2. Q!OneOffRows \subseteq Q!Occurrence
  BY DEF Q!OneOffRows, Q!Starting, Q!Occurrence, Q!TypeOK
<1>3. Q!OverrideRows \subseteq Q!Occurrence
  BY OccurrencesAre DEF Q!Starting, Q!Occurrence, Q!TypeOK
<1>4. Q!RuleSlots \subseteq Q!Occurrence
  BY <1>1, OccurrencesAre DEF Q!Starting, Q!Occurrence
<1> QED BY <1>2, <1>3, <1>4 DEF Q!OnTheCalendar

\* LIMIT cuts nothing when there is no more than the cap.
LEMMA LimitedIsAll ==
  ASSUME Q!Bounds, NEW S, IsFiniteSet(S), Cardinality(S) <= Cap
  PROVE  Q!Limited(S) = {S}
<1>1. Cardinality(S) \in Nat /\ Cap \in Nat
  BY FS_CardinalityType DEF Q!Bounds, Q!ConstantsAssumption
<1>2. Q!Min({Cap, Cardinality(S)}) = Cardinality(S)
  BY <1>1 DEF Q!Min
<1>3. Q!Limited(S) = {T \in SUBSET S : Cardinality(T) = Cardinality(S)}
  <2>1. Q!Cardinality(S) = Cardinality(S)
    BY CountingOfDue
  <2>2. Q!Limited(S) = Q!kSubset(Cardinality(S), S)
    BY <1>2, <2>1 DEF Q!Limited
  <2> QED BY <2>2, CountingOfDue
<1>4. \A T \in SUBSET S : Cardinality(T) = Cardinality(S) => T = S
  BY FS_Subset
<1> QED BY <1>3, <1>4

\* What LIMIT answers is some of what there is.
LEMMA LimitedIsSome == \A S : \A answer \in Q!Limited(S) : answer \subseteq S
  BY CountingOfDue DEF Q!Limited

\* With fewer slots than the cap none of the three routes is cut.
LEMMA RoutesFit ==
  ASSUME Q!Bounds, Q!FitsTheCap
  PROVE  /\ Q!Limited({d \in Q!OneOffRows : Q!InWindow(d, at)})
              = {{d \in Q!OneOffRows : Q!InWindow(d, at)}}
         /\ Q!Limited({d \in Q!OverrideRows : Q!InWindow(d, at)})
              = {{d \in Q!OverrideRows : Q!InWindow(d, at)}}
         /\ Slot # {} => Q!Limited({s \in Series : live[s]}) = {{s \in Series : live[s]}}
<1>1. IsFiniteSet(OneOff) /\ IsFiniteSet(Series) /\ IsFiniteSet(Slot)
  BY CountingOfDue DEF Q!Bounds
<1>2. PICK n, s, k : n = Cardinality(OneOff) /\ s = Cardinality(Series) /\ k = Cardinality(Slot)
  OBVIOUS
<1>3. n \in Nat /\ s \in Nat /\ k \in Nat /\ Cap \in Nat /\ n + s * k <= Cap
  BY <1>1, <1>2, FS_CardinalityType, CountingOfDue
     DEF Q!FitsTheCap, Q!Bounds, Q!ConstantsAssumption
<1>4. s * k \in Nat
  BY <1>3
<1>5. PICK S : S = {d \in Q!OneOffRows : Q!InWindow(d, at)}
  OBVIOUS
<1>6. IsFiniteSet(S) /\ Cardinality(S) <= Cap
  <2> DEFINE f == [d \in S |-> d.event]
  <2>1. f \in Injection(S, OneOff)
    <3>1. \A d \in S : d.event \in OneOff /\ d = Q!Starting(d.event, None, startOf[d.event])
      BY <1>5, OccurrencesAre
    <3> QED BY <3>1 DEF Injection, IsInjective
  <2> HIDE DEF f
  <2>2. IsFiniteSet(S) /\ Cardinality(S) <= n
    BY <1>1, <1>2, <2>1, FS_Injection
  <2>3. Cardinality(S) \in Nat
    BY <2>2, FS_CardinalityType
  <2> QED BY <1>3, <1>4, <2>2, <2>3
<1>7. PICK V : V = {d \in Q!OverrideRows : Q!InWindow(d, at)}
  OBVIOUS
<1>8. IsFiniteSet(V) /\ Cardinality(V) <= Cap
  <2> DEFINE f == [d \in V |-> <<d.event, d.slot>>]
  <2>1. f \in Injection(V, Series \X Slot)
    <3>1. \A d \in V : d.event \in Series /\ d.slot \in Slot
                       /\ d = Q!Starting(d.event, d.slot, override[d.event][d.slot])
      BY <1>7, OccurrencesAre
    <3> QED BY <3>1 DEF Injection, IsInjective
  <2> HIDE DEF f
  <2>2. IsFiniteSet(Series \X Slot) /\ Cardinality(Series \X Slot) = s * k
    BY <1>1, <1>2, FS_Product
  <2>3. IsFiniteSet(V) /\ Cardinality(V) <= s * k
    BY <2>1, <2>2, FS_Injection
  <2>4. Cardinality(V) \in Nat
    BY <2>3, FS_CardinalityType
  <2> QED BY <1>3, <1>4, <2>3, <2>4
<1>9. PICK A : A = {r \in Series : live[r]}
  OBVIOUS
<1>10. Slot # {} => IsFiniteSet(A) /\ Cardinality(A) <= Cap
  <2> SUFFICES ASSUME Slot # {} PROVE IsFiniteSet(A) /\ Cardinality(A) <= Cap
    OBVIOUS
  <2>1. k # 0
    BY <1>1, <1>2, FS_EmptySet
  <2>2. IsFiniteSet(A) /\ Cardinality(A) <= s /\ Cardinality(A) \in Nat
    BY <1>1, <1>2, <1>9, FS_Subset, FS_CardinalityType
  <2>3. s <= s * k
    <3>1. \A a, b \in Nat : b # 0 => a <= a * b
      OBVIOUS
    <3> QED BY <1>3, <2>1, <3>1
  <2> QED BY <1>3, <1>4, <2>2, <2>3
<1> QED BY <1>5, <1>6, <1>7, <1>8, <1>9, <1>10, LimitedIsAll

\* No sweep has begun, and the calendar is as it was made.
LEMMA DueBegins == Q!Bounds /\ Q!Init => Q!SweepInv
<1> SUFFICES ASSUME Q!Bounds, MaxClock \in Nat, Q!Init PROVE Q!SweepInv
  BY DEF Q!Bounds, Q!ConstantsAssumption
<1>1. override \in [Series -> [Slot -> Instant \union {None}]]
  <2>1. [k \in Slot |-> None] \in [Slot -> Instant \union {None}]
    OBVIOUS
  <2> QED BY <2>1 DEF Q!Init
<1>2. startOf \in [OneOff -> Instant \union {None}] /\ exdates \in [Series -> SUBSET Slot]
  BY DEF Q!Init
<1>3. live \in [Series -> BOOLEAN]
  BY DEF Q!Init
<1>4. Q!TypeOK
  BY <1>1, <1>2, <1>3 DEF Q!Init, Q!TypeOK
<1>5. Q!RoutesAreTyped
  BY DEF Q!Init, Q!RoutesAreTyped, Q!Query
<1> QED BY <1>4, <1>5
        DEF Q!Init, Q!SweepInv, Q!SweepIsBracketed, Q!UntouchedIsRead, Q!QuietIsTrue

-----------------------------------------------------------------------------
\* An edit touches one slot of one event, and takes off the list what it was.
Touches(ev, sl) ==
  /\ \A e \in OneOff : (e = ev /\ sl = None) \/ startOf'[e] = startOf[e]
  /\ \A s \in Series, k \in Slot : (s = ev /\ sl = k) \/ override'[s][k] = override[s][k]
  /\ \A s \in Series : exdates[s] \subseteq exdates'[s] /\ (live'[s] => live[s])
  /\ Q!Edited(ev, sl)

CalendarTyped ==
  /\ startOf \in [OneOff -> Instant \union {None}] /\ live \in [Series -> BOOLEAN]
  /\ exdates \in [Series -> SUBSET Slot]
  /\ override \in [Series -> [Slot -> Instant \union {None}]]

\* A quiet edit: the series that goes had no occurrence left.
NothingWasThere ==
  /\ UNCHANGED <<startOf, exdates, override>>
  /\ \A s \in Series : live'[s] # live[s] =>
       live[s] /\ \A k \in Slot : k \in exdates[s] /\ override[s][k] = None

\* What an edit says of what the sweep may still count on.
LEMMA EditedSays ==
  ASSUME NEW ev, NEW sl, Q!Edited(ev, sl)
  PROVE  /\ stable' \subseteq stable /\ stable' \subseteq Q!OnTheCalendar'
         /\ \A d \in stable' : ~(d.event = ev /\ d.slot = sl)
         /\ at = None => seen' = seen
         /\ at # None => seen' = seen \union Q!OnTheCalendar'
         /\ UNCHANGED <<now, claimed, at, todo, found, passed>>
  BY DEF Q!Edited

\* An edit of a slot that the calendar shows does not leave a sweep in quiet.
LEMMA EditOfAShownSlot ==
  ASSUME Q!SweepInv, at # None, NEW ev, NEW sl, Q!Edited(ev, sl),
         NEW d \in Q!OnTheCalendar, d.event = ev, d.slot = sl
  PROVE  stable' # seen'
<1>1. d \in seen'
  BY EditedSays DEF Q!SweepInv, Q!SweepIsBracketed
<1>2. d \notin stable'
  BY EditedSays
<1> QED BY <1>1, <1>2

\* Moving or deleting a one-off event (actions/calendar.ts) touches its start and no other.
LEMMA MoveOneOffTouches ==
  ASSUME Q!Bounds, Q!SweepInv, NEW e \in OneOff, NEW i \in Instant \union {None}, Q!MoveOneOff(e, i)
  PROVE  CalendarTyped' /\ Touches(e, None) /\ (at # None => stable' # seen')
<1>1. /\ startOf[e] # None /\ startOf' = [startOf EXCEPT ![e] = i]
      /\ UNCHANGED <<live, exdates, override>> /\ Q!Edited(e, None)
  BY DEF Q!MoveOneOff
<1>2. CalendarTyped'
  BY <1>1 DEF Q!SweepInv, Q!TypeOK, CalendarTyped
<1>3. Touches(e, None)
  BY <1>1 DEF Q!SweepInv, Q!TypeOK, Touches
<1>4. PICK d \in Q!OnTheCalendar : d.event = e /\ d.slot = None
  BY <1>1, OccurrencesAre DEF Q!OnTheCalendar
<1> QED BY <1>1, <1>2, <1>3, <1>4, EditOfAShownSlot

\* A slot is shown by a live master without an EXDATE of it.
LEMMA ASlotThatIsShown ==
  ASSUME NEW s \in Series, NEW k \in Slot, live[s], k \notin exdates[s]
  PROVE  \E d \in Q!OnTheCalendar : d.event = s /\ d.slot = k
  BY OccurrencesAre DEF Q!OnTheCalendar

\* Moving an occurrence writes an override of its slot.
LEMMA MoveOccurrenceTouches ==
  ASSUME Q!Bounds, Q!SweepInv, NEW s \in Series, NEW k \in Slot, NEW i \in Instant,
         Q!MoveOccurrence(s, k, i)
  PROVE  CalendarTyped' /\ Touches(s, k) /\ (at # None => stable' # seen')
<1>1. /\ live[s] /\ k \notin exdates[s]
      /\ override' = [override EXCEPT ![s] = [override[s] EXCEPT ![k] = i]]
      /\ UNCHANGED <<startOf, live, exdates>> /\ Q!Edited(s, k)
  BY DEF Q!MoveOccurrence
<1>2. override[s] \in [Slot -> Instant \union {None}]
  BY DEF Q!SweepInv, Q!TypeOK
<1>3. [override[s] EXCEPT ![k] = i] \in [Slot -> Instant \union {None}]
  BY <1>2
<1>4. override' \in [Series -> [Slot -> Instant \union {None}]]
  BY <1>1, <1>3 DEF Q!SweepInv, Q!TypeOK
<1>5. CalendarTyped'
  BY <1>1, <1>4 DEF Q!SweepInv, Q!TypeOK, CalendarTyped
<1>6. Touches(s, k)
  BY <1>1, <1>2 DEF Q!SweepInv, Q!TypeOK, Touches
<1> QED BY <1>1, <1>5, <1>6, ASlotThatIsShown, EditOfAShownSlot

\* Skipping an occurrence writes an EXDATE and takes the override away.
LEMMA SkipTouches ==
  ASSUME Q!Bounds, Q!SweepInv, NEW s \in Series, NEW k \in Slot, Q!SkipOccurrence(s, k)
  PROVE  CalendarTyped' /\ Touches(s, k) /\ (at # None => stable' # seen')
<1>1. /\ live[s] /\ k \notin exdates[s]
      /\ exdates' = [exdates EXCEPT ![s] = @ \union {k}]
      /\ override' = [override EXCEPT ![s] = [override[s] EXCEPT ![k] = None]]
      /\ UNCHANGED <<startOf, live>> /\ Q!Edited(s, k)
  BY DEF Q!SkipOccurrence
<1>2. override[s] \in [Slot -> Instant \union {None}]
  BY DEF Q!SweepInv, Q!TypeOK
<1>3. [override[s] EXCEPT ![k] = None] \in [Slot -> Instant \union {None}]
  BY <1>2
<1>4. override' \in [Series -> [Slot -> Instant \union {None}]]
        /\ exdates' \in [Series -> SUBSET Slot]
  BY <1>1, <1>3 DEF Q!SweepInv, Q!TypeOK
<1>5. CalendarTyped'
  BY <1>1, <1>4 DEF Q!SweepInv, Q!TypeOK, CalendarTyped
<1>6. Touches(s, k)
  BY <1>1, <1>2 DEF Q!SweepInv, Q!TypeOK, Touches
<1> QED BY <1>1, <1>5, <1>6, ASlotThatIsShown, EditOfAShownSlot

\* Deleting a series soft-deletes its master: every slot of it is touched.
LEMMA DeleteSeriesTouches ==
  ASSUME Q!Bounds, Q!SweepInv, NEW s \in Series, Q!DeleteSeries(s)
  PROVE  /\ CalendarTyped' /\ Touches(s, None)
         /\ at # None /\ stable' = seen' => NothingWasThere
<1>1. /\ live[s] /\ live' = [live EXCEPT ![s] = FALSE]
      /\ UNCHANGED <<startOf, exdates, override>> /\ Q!Edited(s, None)
  BY DEF Q!DeleteSeries
<1>2. live' \in [Series -> BOOLEAN] /\ ~live'[s] /\ \A r \in Series : r # s => live'[r] = live[r]
  BY <1>1 DEF Q!SweepInv, Q!TypeOK
<1>3. CalendarTyped'
  BY <1>1, <1>2 DEF Q!SweepInv, Q!TypeOK, CalendarTyped
<1>4. s \notin OneOff /\ None \notin Slot
  BY DEF Q!Bounds, Q!ConstantsAssumption
<1>5. Touches(s, None)
  BY <1>1, <1>2, <1>4 DEF Touches
<1>6. ASSUME at # None, stable' = seen', NEW k \in Slot
      PROVE  k \in exdates[s] /\ override[s][k] = None
  <2> SUFFICES ASSUME NEW d \in Q!OnTheCalendar, d.event = s PROVE FALSE
    BY <1>1, OccurrencesAre DEF Q!OnTheCalendar
  <2>1. d \in Q!OnTheCalendar'
    BY <1>1, <1>6, EditedSays DEF Q!SweepInv, Q!SweepIsBracketed
  <2> QED BY <1>2, <1>4, <2>1, OccurrencesWillBe DEF Q!OnTheCalendar
<1>7. at # None /\ stable' = seen' => NothingWasThere
  BY <1>1, <1>2, <1>6 DEF NothingWasThere
<1> QED BY <1>3, <1>5, <1>7

\* Whatever edit it is, it touches one slot, and a sweep that stays quiet has lost nothing.
LEMMA EditTouches ==
  ASSUME Q!Bounds, Q!SweepInv, Q!Edit
  PROVE  /\ CalendarTyped' /\ \E ev, sl : Touches(ev, sl)
         /\ at # None /\ stable' = seen' => NothingWasThere
<1>1. ASSUME NEW e \in OneOff, NEW i \in Instant \union {None}, Q!MoveOneOff(e, i)
      PROVE  /\ CalendarTyped' /\ \E ev, sl : Touches(ev, sl)
             /\ at # None /\ stable' = seen' => NothingWasThere
  BY <1>1, MoveOneOffTouches
<1>2. ASSUME NEW s \in Series, NEW k \in Slot,
             Q!SkipOccurrence(s, k) \/ \E i \in Instant : Q!MoveOccurrence(s, k, i)
      PROVE  /\ CalendarTyped' /\ \E ev, sl : Touches(ev, sl)
             /\ at # None /\ stable' = seen' => NothingWasThere
  BY <1>2, SkipTouches, MoveOccurrenceTouches
<1>3. ASSUME NEW s \in Series, Q!DeleteSeries(s)
      PROVE  /\ CalendarTyped' /\ \E ev, sl : Touches(ev, sl)
             /\ at # None /\ stable' = seen' => NothingWasThere
  BY <1>3, DeleteSeriesTouches
<1> QED BY <1>1, <1>2, <1>3 DEF Q!Edit

\* What stays on the list is where it was, and came from where it came.
LEMMA UntouchedStays ==
  ASSUME Q!Bounds, Q!SweepInv, NEW ev, NEW sl, Touches(ev, sl)
  PROVE  /\ stable' \cap Q!OneOffRows' \subseteq stable \cap Q!OneOffRows
         /\ stable' \cap Q!OverrideRows' \subseteq stable \cap Q!OverrideRows
         /\ stable' \cap Q!RuleSlots' \subseteq stable \cap Q!RuleSlots
<1>1. Q!Edited(ev, sl) /\ stable' \subseteq stable /\ \A d \in stable' : ~(d.event = ev
        /\ d.slot = sl)
  BY EditedSays DEF Touches
<1>2. ASSUME NEW d \in stable', d \in Q!OneOffRows' PROVE d \in Q!OneOffRows
  <2>1. startOf'[d.event] = startOf[d.event]
    BY <1>1, <1>2, OccurrencesWillBe DEF Touches
  <2> QED BY <1>2, <2>1, OccurrencesAre, OccurrencesWillBe
<1>3. ASSUME NEW d \in stable', d \in Q!OverrideRows' PROVE d \in Q!OverrideRows
  <2>1. override'[d.event][d.slot] = override[d.event][d.slot] /\ live[d.event]
    BY <1>1, <1>3, OccurrencesWillBe DEF Touches
  <2> QED BY <1>3, <2>1, OccurrencesAre, OccurrencesWillBe
<1>4. ASSUME NEW d \in stable', d \in Q!RuleSlots' PROVE d \in Q!RuleSlots
  <2>1. override'[d.event][d.slot] = override[d.event][d.slot] /\ live[d.event]
        /\ d.slot \notin exdates[d.event]
    BY <1>1, <1>4, OccurrencesWillBe DEF Touches
  <2> QED BY <1>4, <2>1, OccurrencesAre, OccurrencesWillBe
<1> QED BY <1>1, <1>2, <1>3, <1>4

\* A quiet edit leaves the rows of all three routes as they were.
LEMMA QuietKeepsRows ==
  ASSUME Q!Bounds, Q!SweepInv, NothingWasThere, CalendarTyped'
  PROVE  Q!OneOffRows' = Q!OneOffRows /\ Q!OverrideRows' = Q!OverrideRows
<1>1. Q!OneOffRows' = Q!OneOffRows
  BY DEF NothingWasThere, Q!OneOffRows, Q!Starting
<1>2. \A s \in Series, k \in Slot : live'[s] /\ override[s][k] # None <=> live[s]
        /\ override[s][k] # None
  BY DEF NothingWasThere, CalendarTyped, Q!SweepInv, Q!TypeOK
<1>3. \A p \in Series \X Slot : live'[p[1]] /\ override[p[1]][p[2]] # None
                               <=> live[p[1]] /\ override[p[1]][p[2]] # None
  BY <1>2
<1>4. Q!OverrideRows' = Q!OverrideRows
  BY <1>3 DEF NothingWasThere, Q!OverrideRows, Q!Starting
<1> QED BY <1>1, <1>4

\* An edit that crosses a sweep keeps what its queries have answered so far.
LEMMA EditStep ==
  ASSUME Q!Bounds, Q!SweepInv, Q!Edit
  PROVE  Q!SweepInv'
<1>1. CalendarTyped' /\ (at # None /\ stable' = seen' => NothingWasThere)
  BY EditTouches
<1>2. PICK ev, sl : Touches(ev, sl)
  BY EditTouches
<1>3. /\ stable' \subseteq stable /\ stable' \subseteq Q!OnTheCalendar'
      /\ at = None => seen' = seen
      /\ at # None => seen' = seen \union Q!OnTheCalendar'
      /\ UNCHANGED <<now, claimed, at, todo, found, passed>>
  BY <1>2, EditedSays DEF Touches
<1>4. Q!OnTheCalendar' \subseteq Q!Occurrence
  <2>1. Slot \subseteq Instant
    BY DEF Q!Bounds, Q!ConstantsAssumption
  <2>2. Q!OneOffRows' \subseteq Q!Occurrence
    BY <1>1, OccurrencesWillBe DEF Q!Starting, Q!Occurrence, CalendarTyped
  <2>3. Q!OverrideRows' \subseteq Q!Occurrence
    BY <1>1, OccurrencesWillBe DEF Q!Starting, Q!Occurrence, CalendarTyped
  <2>4. Q!RuleSlots' \subseteq Q!Occurrence
    BY <2>1, OccurrencesWillBe DEF Q!Starting, Q!Occurrence
  <2> QED BY <2>2, <2>3, <2>4 DEF Q!OnTheCalendar
<1>5. Q!TypeOK'
  <2>1. stable' \union seen' \subseteq Q!Occurrence
    BY <1>3, <1>4 DEF Q!SweepInv, Q!TypeOK
  <2> QED BY <1>1, <1>3, <2>1 DEF Q!SweepInv, Q!TypeOK, CalendarTyped
<1>6. Q!RoutesAreTyped'
  BY <1>3 DEF Q!SweepInv, Q!RoutesAreTyped
<1>7. Q!SweepIsBracketed'
  BY <1>3 DEF Q!SweepInv, Q!SweepIsBracketed
<1>8. Q!UntouchedIsRead'
  BY <1>2, <1>3, UntouchedStays DEF Q!SweepInv, Q!UntouchedIsRead, Q!FitsTheCap, Q!InWindow
<1>9. Q!QuietIsTrue'
  <2> SUFFICES ASSUME at # None, stable' = seen' PROVE Q!QuietIsTrue'
    BY <1>3 DEF Q!QuietIsTrue
  <2>1. stable = seen
    BY <1>3 DEF Q!SweepInv, Q!SweepIsBracketed
  <2>2. NothingWasThere /\ Q!OneOffRows' = Q!OneOffRows /\ Q!OverrideRows' = Q!OverrideRows
    BY <1>1, QuietKeepsRows
  <2>3. "oneOff" \notin todo => found["oneOff"] \subseteq {d \in Q!OneOffRows : Q!InWindow(d, at)}
    BY <2>1 DEF Q!SweepInv, Q!QuietIsTrue
  <2>4. "override" \notin todo =>
          found["override"] \subseteq {d \in Q!OverrideRows : Q!InWindow(d, at)}
    BY <2>1 DEF Q!SweepInv, Q!QuietIsTrue
  <2>5. "master" \notin todo =>
          \A s \in found["master"] : live'[s] \/ \A k \in Slot : k \in exdates[s]
    BY <2>1, <2>2 DEF Q!SweepInv, Q!QuietIsTrue, Q!RoutesAreTyped, NothingWasThere
  <2>6. /\ "dates" \notin todo =>
             \A s \in found["master"], k \in Slot : k \in exdates[s] => <<s, k>> \in found["dates"]
        /\ "overridden" \notin todo =>
             \A s \in found["master"], k \in Slot :
               override[s][k] # None => <<s, k>> \in found["overridden"]
    BY <2>1 DEF Q!SweepInv, Q!QuietIsTrue
  <2>7. UNCHANGED <<startOf, exdates, override, at, todo, found>>
    BY <1>3, <2>2 DEF NothingWasThere
  <2> QED BY <2>2, <2>3, <2>4, <2>5, <2>6, <2>7 DEF Q!QuietIsTrue, Q!InWindow
<1> QED BY <1>5, <1>6, <1>7, <1>8, <1>9 DEF Q!SweepInv

-----------------------------------------------------------------------------
\* A query answers: the calendar, and what the other queries have answered, stay.
LEMMA AnsweredKeeps ==
  ASSUME Q!Bounds, Q!SweepInv, NEW q \in Q!Query, NEW answer, Q!Answered(q, answer), q \in todo,
         q = "master" => answer \subseteq Series,
         q \in {"dates", "overridden"} => "master" \notin todo
  PROVE  /\ found'[q] = answer /\ (\A r \in Q!Query : r # q => found'[r] = found[r])
         /\ todo' = todo \ {q} /\ at # None
         /\ UNCHANGED <<now, startOf, live, exdates, override, claimed, at, edits, stable,
              seen, passed>>
         /\ UNCHANGED <<Q!OneOffRows, Q!OverrideRows, Q!RuleSlots>>
         /\ Q!TypeOK' /\ Q!RoutesAreTyped' /\ Q!SweepIsBracketed'
<1>1. /\ found' = [found EXCEPT ![q] = answer] /\ todo' = todo \ {q}
      /\ UNCHANGED <<now, startOf, live, exdates, override, claimed, at, edits, stable, seen,
           passed>>
  BY DEF Q!Answered, Q!calendar
<1>2. /\ DOMAIN found' = Q!Query /\ found'[q] = answer
      /\ \A r \in Q!Query : r # q => found'[r] = found[r]
  BY <1>1 DEF Q!SweepInv, Q!RoutesAreTyped
<1>3. at # None
  BY DEF Q!SweepInv, Q!SweepIsBracketed
<1>4. UNCHANGED <<Q!OneOffRows, Q!OverrideRows, Q!RuleSlots, Q!OnTheCalendar>>
  BY <1>1 DEF Q!OneOffRows, Q!OverrideRows, Q!RuleSlots, Q!OnTheCalendar, Q!Starting
<1>5. Q!TypeOK'
  BY <1>1 DEF Q!SweepInv, Q!TypeOK
<1>6. Q!RoutesAreTyped'
  <2>1. found'["master"] \subseteq Series
    BY <1>2 DEF Q!SweepInv, Q!RoutesAreTyped, Q!Query
  <2> QED BY <1>1, <1>2, <2>1 DEF Q!SweepInv, Q!RoutesAreTyped
<1>7. Q!SweepIsBracketed'
  BY <1>1, <1>4 DEF Q!SweepInv, Q!SweepIsBracketed
<1> QED BY <1>1, <1>2, <1>3, <1>4, <1>5, <1>6, <1>7

\* Branches A and B read rows that are what they are at that moment.
LEMMA ConcreteStep ==
  ASSUME Q!Bounds, Q!SweepInv, Q!ConcreteDue
  PROVE  Q!SweepInv'
<1>1. PICK answer \in Q!Limited({d \in Q!OneOffRows : Q!InWindow(d, at)}) :
        "oneOff" \in todo /\ Q!Answered("oneOff", answer)
  BY DEF Q!ConcreteDue
<1>2. answer \subseteq {d \in Q!OneOffRows : Q!InWindow(d, at)}
  BY LimitedIsSome
<1>3. Q!FitsTheCap => answer = {d \in Q!OneOffRows : Q!InWindow(d, at)}
  BY RoutesFit
<1>4. /\ found'["oneOff"] = answer /\ (\A r \in Q!Query : r # "oneOff" => found'[r] = found[r])
      /\ todo' = todo \ {"oneOff"} /\ at # None
      /\ UNCHANGED <<now, startOf, live, exdates, override, claimed, at, edits, stable, seen,
           passed>>
      /\ UNCHANGED <<Q!OneOffRows, Q!OverrideRows, Q!RuleSlots>>
      /\ Q!TypeOK' /\ Q!RoutesAreTyped' /\ Q!SweepIsBracketed'
  <2>1. "oneOff" \in Q!Query
    BY DEF Q!Query
  <2> QED BY <1>1, <2>1, AnsweredKeeps
<1>5. /\ found'["override"] = found["override"] /\ found'["master"] = found["master"]
      /\ found'["dates"] = found["dates"] /\ found'["overridden"] = found["overridden"]
  BY <1>4 DEF Q!Query
<1>6. Q!UntouchedIsRead'
  BY <1>3, <1>4, <1>5 DEF Q!SweepInv, Q!UntouchedIsRead, Q!FitsTheCap, Q!InWindow
<1>7. Q!QuietIsTrue'
  BY <1>2, <1>4, <1>5 DEF Q!SweepInv, Q!QuietIsTrue, Q!InWindow
<1> QED BY <1>4, <1>6, <1>7 DEF Q!SweepInv

\* Branch B reads the override rows of live masters.
LEMMA OverrideStep ==
  ASSUME Q!Bounds, Q!SweepInv, Q!OverrideDue
  PROVE  Q!SweepInv'
<1>1. PICK answer \in Q!Limited({d \in Q!OverrideRows : Q!InWindow(d, at)}) :
        "override" \in todo /\ Q!Answered("override", answer)
  BY DEF Q!OverrideDue
<1>2. answer \subseteq {d \in Q!OverrideRows : Q!InWindow(d, at)}
  BY LimitedIsSome
<1>3. Q!FitsTheCap => answer = {d \in Q!OverrideRows : Q!InWindow(d, at)}
  BY RoutesFit
<1>4. /\ found'["override"] = answer /\ (\A r \in Q!Query : r # "override" => found'[r] = found[r])
      /\ todo' = todo \ {"override"} /\ at # None
      /\ UNCHANGED <<now, startOf, live, exdates, override, claimed, at, edits, stable, seen,
           passed>>
      /\ UNCHANGED <<Q!OneOffRows, Q!OverrideRows, Q!RuleSlots>>
      /\ Q!TypeOK' /\ Q!RoutesAreTyped' /\ Q!SweepIsBracketed'
  <2>1. "override" \in Q!Query
    BY DEF Q!Query
  <2> QED BY <1>1, <2>1, AnsweredKeeps
<1>5. /\ found'["oneOff"] = found["oneOff"] /\ found'["master"] = found["master"]
      /\ found'["dates"] = found["dates"] /\ found'["overridden"] = found["overridden"]
  BY <1>4 DEF Q!Query
<1>6. Q!UntouchedIsRead'
  BY <1>3, <1>4, <1>5 DEF Q!SweepInv, Q!UntouchedIsRead, Q!FitsTheCap, Q!InWindow
<1>7. Q!QuietIsTrue'
  BY <1>2, <1>4, <1>5 DEF Q!SweepInv, Q!QuietIsTrue, Q!InWindow
<1> QED BY <1>4, <1>6, <1>7 DEF Q!SweepInv

\* Branch C reads the masters first, when nothing is known of their dates.
LEMMA MastersStep ==
  ASSUME Q!Bounds, Q!SweepInv, Q!RecurringMasters
  PROVE  Q!SweepInv'
<1>1. PICK answer \in Q!Limited({s \in Series : live[s]}) :
        "master" \in todo /\ Q!Answered("master", answer)
  BY DEF Q!RecurringMasters
<1>2. answer \subseteq {s \in Series : live[s]}
  BY LimitedIsSome
<1>3. Q!FitsTheCap /\ Slot # {} => answer = {s \in Series : live[s]}
  BY RoutesFit
<1>4. /\ found'["master"] = answer /\ (\A r \in Q!Query : r # "master" => found'[r] = found[r])
      /\ todo' = todo \ {"master"} /\ at # None
      /\ UNCHANGED <<now, startOf, live, exdates, override, claimed, at, edits, stable, seen,
           passed>>
      /\ UNCHANGED <<Q!OneOffRows, Q!OverrideRows, Q!RuleSlots>>
      /\ Q!TypeOK' /\ Q!RoutesAreTyped' /\ Q!SweepIsBracketed'
  <2>1. "master" \in Q!Query
    BY DEF Q!Query
  <2> QED BY <1>1, <1>2, <2>1, AnsweredKeeps
<1>5. found'["oneOff"] = found["oneOff"] /\ found'["override"] = found["override"]
  BY <1>4 DEF Q!Query
<1>6. "dates" \in todo' /\ "overridden" \in todo'
  BY <1>1, <1>4 DEF Q!SweepInv, Q!SweepIsBracketed
<1>7. Q!FitsTheCap => \A d \in Q!RuleSlots : d.event \in answer
  BY <1>3, OccurrencesAre
<1>8. Q!UntouchedIsRead'
  BY <1>4, <1>5, <1>6, <1>7 DEF Q!SweepInv, Q!UntouchedIsRead, Q!FitsTheCap, Q!InWindow
<1>9. Q!QuietIsTrue'
  BY <1>2, <1>4, <1>5, <1>6 DEF Q!SweepInv, Q!QuietIsTrue, Q!InWindow
<1> QED BY <1>4, <1>8, <1>9 DEF Q!SweepInv

\* Branch C's second query reads the EXDATEs of the masters it found.
LEMMA DatesStep ==
  ASSUME Q!Bounds, Q!SweepInv, Q!RecurrenceDates
  PROVE  Q!SweepInv'
<1>1. PICK answer : answer = {p \in found["master"] \X Slot : p[2] \in exdates[p[1]]}
  OBVIOUS
<1>2. "dates" \in todo /\ "master" \notin todo /\ Q!Answered("dates", answer)
  BY <1>1 DEF Q!RecurrenceDates
<1>3. \A s, k : <<s, k>> \in answer => k \in exdates[s]
  BY <1>1
<1>4. \A s \in found["master"], k \in Slot : k \in exdates[s] => <<s, k>> \in answer
  <2>1. ASSUME NEW s \in found["master"], NEW k \in Slot, k \in exdates[s] PROVE <<s, k>> \in answer
    <3>1. PICK p \in found["master"] \X Slot : p = <<s, k>>
      OBVIOUS
    <3> QED BY <1>1, <2>1, <3>1
  <2> QED BY <2>1
<1>5. /\ found'["dates"] = answer /\ (\A r \in Q!Query : r # "dates" => found'[r] = found[r])
      /\ todo' = todo \ {"dates"} /\ at # None
      /\ UNCHANGED <<now, startOf, live, exdates, override, claimed, at, edits, stable, seen,
           passed>>
      /\ UNCHANGED <<Q!OneOffRows, Q!OverrideRows, Q!RuleSlots>>
      /\ Q!TypeOK' /\ Q!RoutesAreTyped' /\ Q!SweepIsBracketed'
  <2>1. "dates" \in Q!Query
    BY DEF Q!Query
  <2> QED BY <1>2, <2>1, AnsweredKeeps
<1>6. /\ found'["oneOff"] = found["oneOff"] /\ found'["override"] = found["override"]
      /\ found'["master"] = found["master"] /\ found'["overridden"] = found["overridden"]
  BY <1>5 DEF Q!Query
<1>7. \A d \in Q!RuleSlots : <<d.event, d.slot>> \notin answer
  BY <1>3, OccurrencesAre
<1>8. Q!UntouchedIsRead'
  BY <1>2, <1>5, <1>6, <1>7 DEF Q!SweepInv, Q!UntouchedIsRead, Q!FitsTheCap, Q!InWindow
<1>9. Q!QuietIsTrue'
  BY <1>2, <1>4, <1>5, <1>6 DEF Q!SweepInv, Q!QuietIsTrue, Q!InWindow
<1> QED BY <1>5, <1>8, <1>9 DEF Q!SweepInv

\* Branch C's third query reads the overridden slots of the masters it found.
LEMMA OverriddenStep ==
  ASSUME Q!Bounds, Q!SweepInv, Q!OverriddenSlots
  PROVE  Q!SweepInv'
<1>1. PICK answer : answer = {p \in found["master"] \X Slot : override[p[1]][p[2]] # None}
  OBVIOUS
<1>2. "overridden" \in todo /\ "master" \notin todo /\ Q!Answered("overridden", answer)
  BY <1>1 DEF Q!OverriddenSlots
<1>3. \A s, k : <<s, k>> \in answer => override[s][k] # None
  BY <1>1
<1>4. \A s \in found["master"], k \in Slot : override[s][k] # None => <<s, k>> \in answer
  <2>1. ASSUME NEW s \in found["master"], NEW k \in Slot, override[s][k] # None
        PROVE  <<s, k>> \in answer
    <3>1. PICK p \in found["master"] \X Slot : p = <<s, k>>
      OBVIOUS
    <3> QED BY <1>1, <2>1, <3>1
  <2> QED BY <2>1
<1>5. /\ found'["overridden"] = answer
      /\ (\A r \in Q!Query : r # "overridden" => found'[r] = found[r])
      /\ todo' = todo \ {"overridden"} /\ at # None
      /\ UNCHANGED <<now, startOf, live, exdates, override, claimed, at, edits, stable, seen,
           passed>>
      /\ UNCHANGED <<Q!OneOffRows, Q!OverrideRows, Q!RuleSlots>>
      /\ Q!TypeOK' /\ Q!RoutesAreTyped' /\ Q!SweepIsBracketed'
  <2>1. "overridden" \in Q!Query
    BY DEF Q!Query
  <2> QED BY <1>2, <2>1, AnsweredKeeps
<1>6. /\ found'["oneOff"] = found["oneOff"] /\ found'["override"] = found["override"]
      /\ found'["master"] = found["master"] /\ found'["dates"] = found["dates"]
  BY <1>5 DEF Q!Query
<1>7. \A d \in Q!RuleSlots : <<d.event, d.slot>> \notin answer
  BY <1>3, OccurrencesAre
<1>8. Q!UntouchedIsRead'
  BY <1>2, <1>5, <1>6, <1>7 DEF Q!SweepInv, Q!UntouchedIsRead, Q!FitsTheCap, Q!InWindow
<1>9. Q!QuietIsTrue'
  BY <1>2, <1>4, <1>5, <1>6 DEF Q!SweepInv, Q!QuietIsTrue, Q!InWindow
<1> QED BY <1>5, <1>8, <1>9 DEF Q!SweepInv

\* A sweep begins, and ends with its claims; between sweeps the clock ticks.
LEMMA SweepEdgesStep ==
  ASSUME Q!Bounds, Q!SweepInv,
         Q!BeginSweep \/ Q!ClaimAll \/ Q!Tick \/ UNCHANGED Q!vars
  PROVE  Q!SweepInv'
<1> SUFFICES ASSUME MaxClock \in Nat PROVE Q!SweepInv'
  BY DEF Q!Bounds, Q!ConstantsAssumption
<1> USE DEF Q!SweepInv
<1>1. CASE Q!BeginSweep
  <2>1. /\ at' = now /\ todo' = Q!Query /\ found' = [q \in Q!Query |-> {}]
        /\ stable' = Q!OnTheCalendar /\ seen' = Q!OnTheCalendar
        /\ UNCHANGED <<now, startOf, live, exdates, override, claimed, edits, passed>>
    BY <1>1 DEF Q!BeginSweep, Q!calendar
  <2>2. Q!OnTheCalendar' = Q!OnTheCalendar
    BY <2>1 DEF Q!OneOffRows, Q!OverrideRows, Q!RuleSlots, Q!OnTheCalendar, Q!Starting
  <2>3. Q!TypeOK'
    BY <2>1, CalendarIsTyped DEF Q!TypeOK, Q!RoutesAreTyped
  <2>4. Q!RoutesAreTyped'
    BY <2>1 DEF Q!RoutesAreTyped, Q!Query
  <2>5. now # None
    BY DEF Q!RoutesAreTyped, Q!Bounds
  <2>6. Q!SweepIsBracketed'
    BY <2>1, <2>2, <2>5 DEF Q!SweepIsBracketed, Q!Query
  <2>7. Q!UntouchedIsRead' /\ Q!QuietIsTrue'
    BY <2>1 DEF Q!UntouchedIsRead, Q!QuietIsTrue, Q!Query
  <2> QED BY <2>3, <2>4, <2>6, <2>7
<1>2. CASE Q!ClaimAll
  <2>1. /\ at' = None /\ found' = [q \in Q!Query |-> {}] /\ stable' = {} /\ seen' = {}
        /\ DOMAIN passed' = DOMAIN passed /\ todo = {}
        /\ UNCHANGED <<now, startOf, live, exdates, override, todo, edits>>
    BY <1>2 DEF Q!ClaimAll, Q!calendar
  <2>2. Q!TypeOK'
    BY <2>1 DEF Q!TypeOK
  <2>3. Q!RoutesAreTyped'
    BY <2>1 DEF Q!RoutesAreTyped, Q!Query
  <2>4. Q!SweepIsBracketed' /\ Q!UntouchedIsRead' /\ Q!QuietIsTrue'
    BY <2>1 DEF Q!SweepIsBracketed, Q!UntouchedIsRead, Q!QuietIsTrue
  <2> QED BY <2>2, <2>3, <2>4
<1>3. CASE Q!Tick \/ UNCHANGED Q!vars
  <2>1. /\ now' \in 0 .. MaxClock
        /\ UNCHANGED <<startOf, live, exdates, override, claimed, at, todo, found, edits,
             stable, seen,
                       passed>>
    BY <1>3 DEF Q!Tick, Q!vars, Q!calendar, Q!RoutesAreTyped
  <2>2. UNCHANGED <<Q!OneOffRows, Q!OverrideRows, Q!RuleSlots, Q!OnTheCalendar>>
    BY <2>1 DEF Q!OneOffRows, Q!OverrideRows, Q!RuleSlots, Q!OnTheCalendar, Q!Starting
  <2>3. Q!TypeOK' /\ Q!RoutesAreTyped'
    BY <2>1 DEF Q!TypeOK, Q!RoutesAreTyped
  <2>4. Q!SweepIsBracketed'
    BY <2>1, <2>2 DEF Q!SweepIsBracketed
  <2>5. Q!UntouchedIsRead'
    BY <2>1, <2>2 DEF Q!UntouchedIsRead, Q!FitsTheCap, Q!InWindow
  <2>6. Q!QuietIsTrue'
    BY <2>1, <2>2 DEF Q!QuietIsTrue, Q!InWindow
  <2> QED BY <2>3, <2>4, <2>5, <2>6
<1> QED BY <1>1, <1>2, <1>3

\* When all queries have answered, what nobody touched has been found.
LEMMA ReadsEnd ==
  ASSUME Q!Bounds, Q!SweepInv
  PROVE  Q!TypeOK /\ Q!UntouchedIsFound /\ Q!QuietReadIsExact
<1>1. ASSUME NEW d \in Q!RuleSlots, d.event \in found["master"], Q!InWindow(d, at),
             <<d.event, d.slot>> \notin found["dates"] \union found["overridden"]
      PROVE  d \in Q!Expanded
  <2>1. PICK p \in found["master"] \X Slot : p = <<d.event, d.slot>>
    BY <1>1, OccurrencesAre
  <2>2. d = Q!Starting(p[1], p[2], p[2])
    BY <2>1, OccurrencesAre
  <2>3. p \in (found["master"] \X Slot) \ (found["dates"] \union found["overridden"])
    BY <1>1, <2>1
  <2> QED BY <1>1, <2>2, <2>3 DEF Q!Expanded
<1>2. ASSUME Q!AllRead, Q!FitsTheCap, NEW d \in stable, Q!InWindow(d, at)
      PROVE  d \in Q!Found
  <2>1. todo = {} /\ at # None /\ d \in Q!OnTheCalendar
    BY <1>2 DEF Q!AllRead, Q!SweepInv, Q!SweepIsBracketed
  <2>2. CASE d \in Q!OneOffRows
    BY <1>2, <2>1, <2>2 DEF Q!SweepInv, Q!UntouchedIsRead, Q!Found
  <2>3. CASE d \in Q!OverrideRows
    BY <1>2, <2>1, <2>3 DEF Q!SweepInv, Q!UntouchedIsRead, Q!Found
  <2>4. CASE d \in Q!RuleSlots
    BY <1>1, <1>2, <2>1, <2>4 DEF Q!SweepInv, Q!UntouchedIsRead, Q!Found
  <2> QED BY <2>1, <2>2, <2>3, <2>4 DEF Q!OnTheCalendar
<1>3. Q!UntouchedIsFound
  BY <1>2 DEF Q!UntouchedIsFound, Q!FitsTheCap
<1>4. ASSUME Q!AllRead, stable = seen, NEW d \in Q!Expanded
      PROVE  d \in Q!RuleSlots /\ Q!InWindow(d, at)
  <2>1. PICK p \in (found["master"] \X Slot) \ (found["dates"] \union found["overridden"]) :
          d = Q!Starting(p[1], p[2], p[2]) /\ Q!InWindow(d, at)
    BY <1>4 DEF Q!Expanded
  <2>2. PICK s \in found["master"], k \in Slot : p = <<s, k>>
    BY <2>1
  <2>3. s \in Series /\ todo = {} /\ at # None
    BY <1>4, <2>2 DEF Q!SweepInv, Q!RoutesAreTyped, Q!AllRead
  <2>4. k \notin exdates[s] /\ override[s][k] = None
    BY <1>4, <2>1, <2>2, <2>3 DEF Q!SweepInv, Q!QuietIsTrue
  <2>5. live[s]
    BY <1>4, <2>2, <2>3, <2>4 DEF Q!SweepInv, Q!QuietIsTrue
  <2> QED BY <2>1, <2>2, <2>3, <2>4, <2>5, OccurrencesAre
<1>5. Q!QuietReadIsExact
  <2> SUFFICES ASSUME Q!AllRead, stable = seen, Q!FitsTheCap
               PROVE  /\ Q!Found = {d \in Q!OnTheCalendar : Q!InWindow(d, at)}
                      /\ found["override"] \cap Q!Expanded = {}
    BY DEF Q!QuietReadIsExact, Q!FitsTheCap
  <2>1. /\ found["oneOff"] \subseteq {d \in Q!OneOffRows : Q!InWindow(d, at)}
        /\ found["override"] \subseteq {d \in Q!OverrideRows : Q!InWindow(d, at)}
    BY DEF Q!AllRead, Q!SweepInv, Q!QuietIsTrue
  <2>2. Q!Found \subseteq {d \in Q!OnTheCalendar : Q!InWindow(d, at)}
    BY <1>4, <2>1 DEF Q!Found, Q!OnTheCalendar
  <2>3. stable = Q!OnTheCalendar
    BY DEF Q!AllRead, Q!SweepInv, Q!SweepIsBracketed
  <2>4. {d \in Q!OnTheCalendar : Q!InWindow(d, at)} \subseteq Q!Found
    BY <1>2, <2>3
  <2>5. found["override"] \cap Q!Expanded = {}
    BY <1>4, <2>1, OccurrencesAre
  <2> QED BY <2>2, <2>4, <2>5
<1> QED BY <1>3, <1>5 DEF Q!SweepInv

\* Every step of a sweep and every edit keeps what the sweep may find.
LEMMA DueStep == Q!Bounds /\ Q!SweepInv /\ [Q!Next]_Q!vars => Q!SweepInv'
  BY EditStep, ConcreteStep, OverrideStep, MastersStep, DatesStep, OverriddenStep, SweepEdgesStep
     DEF Q!Next, Q!Read

\* The reads of a sweep (packages/jobs/src/reminders/run.ts, runSweep): with room under
\* the cap, every delivery that was due and untouched for the whole read is found, and without
\* an edit that could matter nothing else is.
THEOREM DueIsFound ==
  ASSUME Q!Bounds
  PROVE  Q!Spec => [](Q!TypeOK /\ Q!UntouchedIsFound /\ Q!QuietReadIsExact)
<1>1. Q!Init => Q!SweepInv
  BY DueBegins
<1>2. Q!SweepInv /\ [Q!Next]_Q!vars => Q!SweepInv'
  BY DueStep
<1>3. Q!SweepInv => Q!TypeOK /\ Q!UntouchedIsFound /\ Q!QuietReadIsExact
  BY ReadsEnd
<1> QED BY <1>1, <1>2, <1>3, PTL DEF Q!Spec

------------------------------------------------------------------------------
(* The init script.                                                          *)

\* What the script can tell apart (scripts/init-app.mjs): one row, one anchor.
LEMMA PassageKinds ==
  /\ I!Passage = {[kind |-> "row", to |-> "guide"], [kind |-> "anchor", to |-> "backlog"],
                  [kind |-> "link", to |-> "archive"], [kind |-> "link", to |-> "backlog"],
                  [kind |-> "away", to |-> "archive"], [kind |-> "away", to |-> "backlog"]}
  /\ \A p \in I!Passage : /\ p.kind \in {"row", "anchor", "link", "away"}
                          /\ p.kind = "anchor" => p.to = "backlog"
                          /\ p.kind = "link" /\ p # I!Link("archive") => p = I!Link("backlog")
  /\ I!Away("archive") \in I!Passage /\ I!Away("backlog") \in I!Passage
  /\ I!Link("archive").kind = "link" /\ I!Link("backlog").kind = "link"
  /\ \A doc : I!Away(doc).kind = "away"
  BY DEF I!Passage, I!Row, I!Anchor, I!Link, I!Away

\* A pass over a document drops or replaces what it is for and nothing else.
LEMMA PassesWork ==
  ASSUME NEW t \in SUBSET I!Passage
  PROVE  /\ I!DropRows(t) \in SUBSET I!Passage /\ I!NoRow(I!DropRows(t))
         /\ I!NoRow(t) => I!DropRows(t) = t
         /\ I!PatchMentions(t) \in SUBSET I!Passage /\ I!NoAnchor(I!PatchMentions(t))
         /\ I!NoRow(t) => I!NoRow(I!PatchMentions(t))
         /\ I!NoAnchor(t) => I!PatchMentions(t) = t
         /\ I!Retarget(t) \in SUBSET I!Passage
         /\ I!NoArchiveLink(I!Retarget(t))
         /\ I!NoRow(t) => I!NoRow(I!Retarget(t))
         /\ I!NoAnchor(t) => I!NoAnchor(I!Retarget(t))
         /\ I!NoArchiveLink(t) => I!Retarget(t) = t
<1>1. I!DropRows(t) \in SUBSET I!Passage /\ I!NoRow(I!DropRows(t))
      /\ (I!NoRow(t) => I!DropRows(t) = t)
  BY DEF I!DropRows, I!NoRow
<1>2. \A p \in t : p.kind = "anchor" => I!Away(p.to) = I!Away("backlog")
  BY PassageKinds
<1>3. I!PatchMentions(t) \in SUBSET I!Passage
  BY <1>2, PassageKinds DEF I!PatchMentions
<1>4. I!NoAnchor(I!PatchMentions(t)) /\ (I!NoRow(t) => I!NoRow(I!PatchMentions(t)))
  BY <1>2, PassageKinds DEF I!PatchMentions, I!NoAnchor, I!NoRow
<1>5. I!NoAnchor(t) => I!PatchMentions(t) = t
  BY DEF I!PatchMentions, I!NoAnchor
<1>6. I!Retarget(t) \in SUBSET I!Passage
  BY PassageKinds DEF I!Retarget
<1>7. I!NoArchiveLink(I!Retarget(t))
  BY PassageKinds DEF I!Retarget, I!NoArchiveLink
<1>8. (I!NoRow(t) => I!NoRow(I!Retarget(t))) /\ (I!NoAnchor(t) => I!NoAnchor(I!Retarget(t)))
  BY PassageKinds DEF I!Retarget, I!NoRow, I!NoAnchor
<1>9. I!NoArchiveLink(t) => I!Retarget(t) = t
  BY DEF I!Retarget, I!NoArchiveLink
<1> QED BY <1>1, <1>3, <1>4, <1>5, <1>6, <1>7, <1>8, <1>9

\* Before its first run the script has removed nothing.
LEMMA SlimBegins == I!Bounds /\ I!Init => I!SlimInv
<1> SUFFICES ASSUME I!Bounds, I!Init PROVE I!SlimInv
  OBVIOUS
<1>1. text \in [Doc -> SUBSET I!Passage]
  <2>1. {{I!Row("guide"), I!Link("archive")}, {I!Anchor("backlog"), I!Link("backlog")}}
          \subseteq SUBSET I!Passage
    BY DEF I!Passage
  <2> QED BY <2>1 DEF I!Init
<1>2. I!TypeOK
  <2>1. shipped \in [I!Removed -> I!Owner]
    BY DEF I!Init, I!Owner
  <2>2. runs \in 0 .. MaxRuns /\ edits \in 0 .. MaxAdopts
    BY DEF I!Init, I!Bounds
  <2>3. env = "absent" /\ title = "template" /\ changelog = "template" /\ pc = "idle"
        /\ todo = {} /\ last = "none"
    BY DEF I!Init
  <2>4. slimming \in BOOLEAN
    BY DEF I!Init
  <2> QED BY <1>1, <2>1, <2>2, <2>3, <2>4 DEF I!TypeOK
<1> QED BY <1>2 DEF I!Init, I!SlimInv, I!PassesAreDone, I!SlimmedIsClean

\* What is left to do is the same when the documents, what is removed and the
\* pass at work are.
LEMMA SlimStays ==
  ASSUME I!SlimInv, UNCHANGED <<shipped, changelog, text>>, last' = last,
         \/ pc' = pc /\ todo' = todo
         \/ pc' \notin {"rows", "mentions", "links"}
  PROVE  I!PassesAreDone' /\ I!SlimmedIsClean'
  BY DEF I!SlimInv, I!PassesAreDone, I!SlimmedIsClean, I!NothingLeft

\* A pass visits one more document; over what a completed run left it changes nothing.
LEMMA PatchStep ==
  ASSUME I!Bounds, I!SlimInv, NEW d \in Doc, I!PatchDoc(d)
  PROVE  I!SlimInv' /\ (last = "slimmed" => text' = text)
<1>1. PICK new : new = I!Pass(text[d])
  OBVIOUS
<1>2. /\ text' = [text EXCEPT ![d] = new] /\ todo' = todo \ {d}
      /\ pc \in {"rows", "mentions", "links"} /\ d \in todo
      /\ UNCHANGED <<env, title, shipped, changelog, pc, slimming, runs, edits, atStart, last>>
  BY <1>1 DEF I!PatchDoc, I!run
<1>3. text[d] \in SUBSET I!Passage /\ text \in [Doc -> SUBSET I!Passage]
  BY DEF I!SlimInv, I!TypeOK
<1>4. /\ pc = "rows" => new = I!DropRows(text[d])
      /\ pc = "mentions" => new = I!PatchMentions(text[d])
      /\ pc = "links" => new = I!Retarget(text[d])
  BY <1>1 DEF I!Pass
<1>5. new \in SUBSET I!Passage
  BY <1>2, <1>3, <1>4, PassesWork
<1>6. text' \in [Doc -> SUBSET I!Passage] /\ text'[d] = new
      /\ \A e \in Doc : e # d => text'[e] = text[e]
  BY <1>2, <1>3, <1>5
<1>7. I!TypeOK'
  BY <1>2, <1>6 DEF I!SlimInv, I!TypeOK
<1>8. I!NothingLeft' <=> I!NothingLeft
  BY <1>2 DEF I!NothingLeft
<1>9. I!PassesAreDone'
  <2>1. CASE pc = "rows"
    <3>1. I!NoRow(new)
      BY <1>3, <1>4, <2>1, PassesWork
    <3> QED BY <1>2, <1>6, <1>8, <2>1, <3>1 DEF I!SlimInv, I!PassesAreDone
  <2>2. CASE pc = "mentions"
    <3>1. I!NoRow(new) /\ I!NoAnchor(new)
      BY <1>3, <1>4, <2>2, PassesWork DEF I!SlimInv, I!PassesAreDone
    <3> QED BY <1>2, <1>6, <1>8, <2>2, <3>1 DEF I!SlimInv, I!PassesAreDone
  <2>3. CASE pc = "links"
    <3>1. I!NoRow(new) /\ I!NoAnchor(new) /\ I!NoArchiveLink(new)
      BY <1>3, <1>4, <2>3, PassesWork DEF I!SlimInv, I!PassesAreDone
    <3> QED BY <1>2, <1>6, <1>8, <2>3, <3>1 DEF I!SlimInv, I!PassesAreDone
  <2> QED BY <1>2, <2>1, <2>2, <2>3
<1>10. last = "slimmed" => text' = text
  <2> SUFFICES ASSUME last = "slimmed" PROVE text' = text
    OBVIOUS
  <2>1. I!NoRow(text[d]) /\ I!NoAnchor(text[d]) /\ I!NoArchiveLink(text[d])
    BY DEF I!SlimInv, I!SlimmedIsClean
  <2>2. new = text[d]
    BY <1>2, <1>3, <1>4, <2>1, PassesWork
  <2> QED BY <1>2, <1>3, <2>2
<1>11. I!SlimmedIsClean'
  BY <1>2, <1>8, <1>10 DEF I!SlimInv, I!SlimmedIsClean
<1> QED BY <1>7, <1>9, <1>10, <1>11 DEF I!SlimInv

\* A command of the adopter, the .env that is seeded, the name that is given, and
\* a run that is stopped: none begins a pass.
LEMMA QuietStep ==
  ASSUME I!Bounds, I!SlimInv,
         \/ \E slim \in BOOLEAN : I!Start(slim)
         \/ I!SeedEnv \/ I!Rename \/ I!Interrupted
         \/ UNCHANGED I!vars
  PROVE  /\ I!SlimInv' /\ UNCHANGED <<shipped, changelog, text>>
         /\ env = "own" => env' = "own"
<1> USE DEF I!SlimInv
<1>1. CASE \E slim \in BOOLEAN : I!Start(slim)
  <2>1. PICK slim \in BOOLEAN : I!Start(slim)
    BY <1>1
  <2>2. UNCHANGED <<env, title, shipped, changelog, text, todo, edits, last>> /\ pc' = "seed"
    BY <2>1 DEF I!Start, I!repo
  <2>3. runs' \in 0 .. MaxRuns /\ slimming' \in BOOLEAN
    BY <2>1 DEF I!Start, I!TypeOK, I!Bounds
  <2>4. I!TypeOK'
    BY <2>2, <2>3 DEF I!TypeOK
  <2> QED BY <2>2, <2>4, SlimStays
<1>2. CASE I!SeedEnv
  <2>1. UNCHANGED <<title, shipped, changelog, text, todo, slimming, runs, edits, last>>
        /\ pc' = "rename" /\ env' = I!Seeds
    BY <1>2 DEF I!SeedEnv, I!run
  <2>2. env' \in {"absent", "seeded", "own"} /\ (env = "own" => env' = "own")
    BY <2>1 DEF I!Seeds, I!TypeOK
  <2>3. I!TypeOK'
    BY <2>1, <2>2 DEF I!TypeOK
  <2> QED BY <2>1, <2>2, <2>3, SlimStays
<1>3. CASE I!Rename
  <2>1. UNCHANGED <<env, shipped, changelog, text, todo, slimming, runs, edits, last>>
        /\ pc' \in {"remove", "idle"} /\ title' \in {title, "mine"}
    BY <1>3 DEF I!Rename, I!run
  <2>2. I!TypeOK'
    BY <2>1 DEF I!TypeOK
  <2> QED BY <2>1, <2>2, SlimStays
<1>4. CASE I!Interrupted
  <2>1. UNCHANGED <<env, title, shipped, changelog, text, slimming, runs, edits, last>>
        /\ pc' = "idle" /\ todo' = {}
    BY <1>4 DEF I!Interrupted, I!run, I!repo
  <2>2. I!TypeOK'
    BY <2>1 DEF I!TypeOK
  <2> QED BY <2>1, <2>2, SlimStays
<1>5. CASE UNCHANGED I!vars
  <2>1. UNCHANGED <<env, title, shipped, changelog, text, pc, todo, slimming, runs, edits, last>>
    BY <1>5 DEF I!vars
  <2>2. I!TypeOK'
    BY <2>1 DEF I!TypeOK
  <2> QED BY <2>1, <2>2, SlimStays
<1> QED BY <1>1, <1>2, <1>3, <1>4, <1>5

\* The removals loop takes what is there, and the changelog is reset when nothing is.
LEMMA RemovalStep ==
  ASSUME I!Bounds, I!SlimInv, I!ResetChangelog \/ \E i \in 1 .. Len(I!Removals) : I!Remove(i)
  PROVE  /\ I!SlimInv' /\ env' = env
         /\ last = "slimmed" => UNCHANGED <<shipped, changelog, text>>
<1> USE DEF I!SlimInv
<1>1. CASE \E i \in 1 .. Len(I!Removals) : I!Remove(i)
  <2>1. PICK i \in 1 .. Len(I!Removals) : I!Remove(i)
    BY <1>1
  <2>a. PICK r : r = I!Removals[i]
    OBVIOUS
  <2>b. r \in I!Removed
    BY <2>a DEF I!Removals, I!Removed
  <2>c. /\ shipped[r] # "none" /\ pc = "remove" /\ shipped' = [shipped EXCEPT ![r] = "none"]
        /\ UNCHANGED <<env, title, changelog, text, pc, todo, slimming, runs, edits, last>>
    BY <2>1, <2>a DEF I!Remove, I!run
  <2>2. last # "slimmed"
    BY <2>b, <2>c DEF I!SlimmedIsClean, I!NothingLeft
  <2>3. shipped' \in [I!Removed -> I!Owner]
    BY <2>b, <2>c DEF I!TypeOK, I!Owner
  <2>4. I!TypeOK'
    BY <2>c, <2>3 DEF I!TypeOK
  <2> QED BY <2>c, <2>2, <2>4 DEF I!PassesAreDone, I!SlimmedIsClean
<1>2. CASE I!ResetChangelog
  <2>1. UNCHANGED <<env, title, shipped, text, slimming, runs, edits, last>>
        /\ pc' = "rows" /\ todo' = Doc /\ changelog' = "empty"
        /\ \A r \in I!Removed : shipped[r] = "none"
    BY <1>2 DEF I!ResetChangelog, I!run, I!Visits
  <2>2. I!TypeOK'
    BY <2>1 DEF I!TypeOK
  <2>3. I!NothingLeft'
    BY <2>1 DEF I!NothingLeft
  <2>4. I!PassesAreDone' /\ I!SlimmedIsClean'
    BY <2>1, <2>3 DEF I!PassesAreDone, I!SlimmedIsClean
  <2>5. last = "slimmed" => changelog' = changelog
    BY <2>1 DEF I!SlimmedIsClean, I!NothingLeft
  <2> QED BY <2>1, <2>2, <2>4, <2>5
<1> QED BY <1>1, <1>2

\* The next pass begins when every document has been visited, and the run is over
\* when the last one has.
LEMMA NextPassStep ==
  ASSUME I!Bounds, I!SlimInv, I!NextPass
  PROVE  I!SlimInv' /\ UNCHANGED <<env, shipped, changelog, text>>
<1> USE DEF I!SlimInv
<1>1. todo = {} /\ UNCHANGED <<env, title, shipped, changelog, text, slimming, runs, edits>>
  BY DEF I!NextPass, I!repo
<1>2. \/ pc = "rows" /\ pc' = "mentions" /\ todo' = Doc /\ last' = last
      \/ pc = "mentions" /\ pc' = "links" /\ todo' = Doc /\ last' = last
      \/ pc = "links" /\ pc' = "idle" /\ last' = "slimmed" /\ todo' = todo
  BY DEF I!NextPass, I!Passes, I!Visits
<1>3. I!TypeOK'
  BY <1>1, <1>2 DEF I!TypeOK
<1>4. I!NothingLeft' <=> I!NothingLeft
  BY <1>1 DEF I!NothingLeft
<1>5. I!PassesAreDone' /\ I!SlimmedIsClean'
  BY <1>1, <1>2, <1>4 DEF I!PassesAreDone, I!SlimmedIsClean
<1> QED BY <1>1, <1>3, <1>5

\* The adopter edits between runs, never during one.
LEMMA AdoptStep ==
  ASSUME I!Bounds, I!SlimInv, I!Adopt
  PROVE  I!SlimInv' /\ (env = "own" => env' = "own") /\ pc = "idle"
<1> USE DEF I!SlimInv
<1>1. /\ pc = "idle" /\ edits < MaxAdopts /\ edits' = edits + 1
      /\ last' = (IF last = "none" THEN "none" ELSE "edited")
      /\ UNCHANGED <<pc, todo, slimming, runs>>
  BY DEF I!Adopt
<1>2. \/ env' = "own" /\ UNCHANGED <<title, shipped, changelog, text>>
      \/ changelog' = "own" /\ UNCHANGED <<env, title, shipped, text>>
      \/ \E r \in I!Recreated : /\ shipped' = [shipped EXCEPT ![r] = "adopter"]
                               /\ UNCHANGED <<env, title, changelog, text>>
      \/ \E d \in Doc : /\ text' = [text EXCEPT ![d] =
                                     (@ \ {I!Anchor("backlog")}) \cup {I!Link("backlog")}]
                        /\ UNCHANGED <<env, title, shipped, changelog>>
  BY DEF I!Adopt
<1>3. shipped' \in [I!Removed -> I!Owner]
  BY <1>2 DEF I!TypeOK, I!Owner, I!Recreated, I!Removed
<1>4. text' \in [Doc -> SUBSET I!Passage]
  BY <1>2 DEF I!TypeOK, I!Passage
<1>5. edits' \in 0 .. MaxAdopts /\ last' \in {"none", "slimmed", "edited"} /\ last' # "slimmed"
  BY <1>1 DEF I!TypeOK, I!Bounds
<1>6. env' \in {"absent", "seeded", "own"} /\ (env = "own" => env' = "own") /\ title' = title
      /\ changelog' \in {"template", "empty", "own"}
  BY <1>2 DEF I!TypeOK
<1>7. I!TypeOK'
  BY <1>1, <1>3, <1>4, <1>5, <1>6 DEF I!TypeOK
<1> QED BY <1>1, <1>5, <1>6, <1>7 DEF I!PassesAreDone, I!SlimmedIsClean

\* A step of the script or of its adopter.
LEMMA SlimStep ==
  ASSUME I!Bounds, I!SlimInv, [I!Next]_I!vars
  PROVE  I!SlimInv' /\ I!OwnEnvSurvivesStep /\ I!SecondRunIsQuietStep
<1>1. CASE \/ \E slim \in BOOLEAN : I!Start(slim)
          \/ I!SeedEnv \/ I!Rename \/ I!Interrupted \/ UNCHANGED I!vars
  BY <1>1, QuietStep DEF I!OwnEnvSurvivesStep, I!SecondRunIsQuietStep
<1>2. CASE I!ResetChangelog \/ \E i \in 1 .. Len(I!Removals) : I!Remove(i)
  BY <1>2, RemovalStep DEF I!OwnEnvSurvivesStep, I!SecondRunIsQuietStep
<1>3. CASE I!NextPass
  BY <1>3, NextPassStep DEF I!OwnEnvSurvivesStep, I!SecondRunIsQuietStep
<1>4. CASE I!Adopt
  BY <1>4, AdoptStep DEF I!OwnEnvSurvivesStep, I!SecondRunIsQuietStep
<1>5. CASE \E d \in Doc : I!PatchDoc(d)
  <2>1. PICK d \in Doc : I!PatchDoc(d)
    BY <1>5
  <2>2. UNCHANGED <<env, shipped, changelog>>
    BY <2>1 DEF I!PatchDoc
  <2> QED BY <2>1, <2>2, PatchStep DEF I!OwnEnvSurvivesStep, I!SecondRunIsQuietStep
<1> QED BY <1>1, <1>2, <1>3, <1>4, <1>5 DEF I!Next

\* The passages that are left after a completed run and resolve to nothing are
\* links to a removed document other than the archive.
LEMMA SlimmedIsMadeGood == I!SlimInv => I!SlimIsMadeGood
<1> SUFFICES ASSUME I!SlimInv, last = "slimmed", NEW x \in I!Broken
             PROVE  x[2] = I!Link("backlog")
  BY DEF I!SlimIsMadeGood
<1>1. x \in Doc \X I!Passage /\ x[2] \in text[x[1]] /\ x[2].kind \in {"row", "anchor", "link"}
  BY DEF I!Broken
<1>2. PICK d \in Doc, p \in I!Passage : d = x[1] /\ p = x[2]
  BY <1>1
<1>3. p.kind # "row" /\ p.kind # "anchor" /\ p # I!Link("archive")
  BY <1>1, <1>2 DEF I!SlimInv, I!SlimmedIsClean, I!NoRow, I!NoAnchor, I!NoArchiveLink
<1> QED BY <1>1, <1>2, <1>3, PassageKinds

\* The init script (scripts/init-app.mjs): at rest after a completed slim run, however many
\* earlier runs were stopped half way, nothing kept points into what was removed.
THEOREM SlimHolds == ASSUME I!Bounds PROVE I!Spec => [](I!TypeOK /\ I!SlimIsMadeGood)
<1>1. I!Init => I!SlimInv
  BY SlimBegins
<1>2. I!SlimInv /\ [I!Next]_I!vars => I!SlimInv'
  BY SlimStep
<1>3. I!SlimInv => I!TypeOK /\ I!SlimIsMadeGood
  BY SlimmedIsMadeGood DEF I!SlimInv
<1> QED BY <1>1, <1>2, <1>3, PTL DEF I!Spec

------------------------------------------------------------------------------
(* The backup script.                                                        *)

\* No dump has been taken and no command is running.
LEMMA BackupBegins == K!Bounds /\ K!Init => K!BackupInv
<1> SUFFICES ASSUME K!Bounds, K!Init PROVE K!BackupInv
  OBVIOUS
<1>1. data \in [Database -> [Table -> Nat]]
  <2>1. \A d \in Database : [t \in Table |-> IF d = Main THEN 1 ELSE 0] \in [Table -> Nat]
    OBVIOUS
  <2> QED BY <2>1 DEF K!Init
<1>2. K!TypeOK
  BY <1>1 DEF K!Init, K!TypeOK, K!Bounds, K!Source
<1>3. K!CommandsAreTyped
  BY DEF K!Init, K!CommandsAreTyped
<1>4. K!EachHasItsFile
  BY DEF K!Init, K!EachHasItsFile
<1>5. K!TakenLie /\ K!RestingDumpsAreWhole
  BY DEF K!Init, K!TakenLie, K!RestingDumpsAreWhole
<1> QED BY <1>2, <1>3, <1>4, <1>5 DEF K!BackupInv

\* What a terminal is doing is None or a command.
LEMMA CommandOfATerminal ==
  ASSUME K!BackupInv, NEW p \in Console, job[p] # None
  PROVE  job[p] \in K!Command /\ job[p].file \in 1 .. MaxStamp /\ job[p].into \in Database
         /\ job[p].was \in [Table -> Nat] /\ job[p].does \in {"backup", "restore"}
<1>1. job[p] \in K!Command
  BY DEF K!BackupInv, K!CommandsAreTyped
<1> QED BY <1>1 DEF K!Command, K!Tables

\* FileOf finds the file a backup is writing, and that one alone.
LEMMA FileOfABackup ==
  ASSUME K!BackupInv, NEW p \in Console, job[p] # None, job[p].does = "backup"
  PROVE  /\ K!FileOf(p) \in dumps /\ K!FileOf(p).stamp = job[p].file
         /\ \A f \in dumps : f.stamp = job[p].file => f = K!FileOf(p)
<1>1. \E f \in dumps : f.stamp = job[p].file
  BY DEF K!BackupInv, K!EachHasItsFile
<1>2. K!FileOf(p) \in dumps /\ K!FileOf(p).stamp = job[p].file
  BY <1>1 DEF K!FileOf
<1> QED BY <1>2 DEF K!BackupInv, K!EachHasItsFile

\* latestBackup: there is a last name as soon as there is a dump, the newest of its database.
LEMMA LatestIsLast ==
  ASSUME K!Bounds, K!BackupInv, dumps # {}
  PROVE  K!Latest \in dumps /\ \A g \in dumps : g.of = K!Latest.of => g.stamp <= K!Latest.stamp
<1> DEFINE Last == K!LastNamed
           Stamps == {f.stamp : f \in Last}
<1>1. Last # {} /\ Last \subseteq dumps /\ \A f \in Last, g \in dumps : g.of = f.of => g \in Last
  BY DEF K!LastNamed
<1>2. \A f \in dumps : f.stamp \in Nat /\ f.stamp <= MaxStamp
  BY DEF K!BackupInv, K!TypeOK, K!Bounds
<1> HIDE DEF Last
<1>3. Stamps \in SUBSET Nat /\ Stamps # {} /\ \A s \in Stamps : s <= MaxStamp
  BY <1>1, <1>2
<1>4. PICK newest \in Stamps : \A s \in Stamps : s <= newest
  BY <1>3, GreatestNatural DEF K!Bounds
<1>5. \E f \in Last : \A g \in Last : g.stamp <= f.stamp
  BY <1>4
<1>6. K!Latest \in Last /\ \A g \in Last : g.stamp <= K!Latest.stamp
  BY <1>5 DEF K!Latest, Last
<1> QED BY <1>1, <1>6

\* The application writes data, and nothing of the script's.
LEMMA DataStep ==
  ASSUME K!Bounds, K!BackupInv, UNCHANGED <<dumps, job, stamp, torn, taken>>
  PROVE  K!CommandsAreTyped' /\ K!EachHasItsFile' /\ K!TakenLie' /\ K!RestingDumpsAreWhole'
  BY DEF K!BackupInv, K!CommandsAreTyped, K!EachHasItsFile, K!TakenLie,
         K!RestingDumpsAreWhole, K!Writing

\* The application writes, and the files stay as they are.
LEMMA WriteStep ==
  ASSUME K!Bounds, K!BackupInv, NEW t \in Table, K!Write(t)
  PROVE  K!BackupInv' /\ writes' # writes
<1>1. PICK tables : tables = data[Main]
  OBVIOUS
<1>2. tables \in [Table -> Nat] /\ data \in [Database -> [Table -> Nat]] /\ Main \in Database
  BY <1>1 DEF K!BackupInv, K!TypeOK, K!Bounds, K!Source
<1>3. [tables EXCEPT ![t] = tables[t] + 1] \in [Table -> Nat]
  BY <1>2
<1>4. data' = [data EXCEPT ![Main] = [tables EXCEPT ![t] = tables[t] + 1]]
  BY <1>1 DEF K!Write
<1>5. data' \in [Database -> [Table -> Nat]]
  BY <1>2, <1>3, <1>4
<1>6. writes' \in 0 .. MaxWrites /\ writes' # writes
  BY DEF K!Write, K!BackupInv, K!TypeOK, K!Bounds
<1>7. K!TypeOK'
  BY <1>5, <1>6 DEF K!Write, K!BackupInv, K!TypeOK
<1> QED BY <1>6, <1>7, DataStep DEF K!Write, K!BackupInv

\* What a step of the script makes of the data is typed.
LEMMA RestoredIsTyped ==
  ASSUME K!BackupInv, NEW d \in Database, NEW dropped \in [Table -> Nat],
         data' = [data EXCEPT ![d] = dropped]
  PROVE  data' \in [Database -> [Table -> Nat]] /\ (d # Main => data'[Main] = data[Main])
  BY DEF K!BackupInv, K!TypeOK

\* A backup that begins writes a file of its own, under a name nobody has had.
LEMMA StartBackupStep ==
  ASSUME K!Bounds, K!BackupInv, NEW p \in Console, NEW of \in K!Source, K!StartBackup(p, of)
  PROVE  K!BackupInv' /\ data' = data
<1> DEFINE d == K!Dump(stamp + 1, of, FALSE)
           c == [does |-> "backup", file |-> stamp + 1, into |-> of, was |-> data[of],
                 whole |-> TRUE]
<1>1. /\ job[p] = None /\ stamp < MaxStamp /\ stamp' = stamp + 1
      /\ dumps' = dumps \cup {d} /\ job' = [job EXCEPT ![p] = c]
      /\ UNCHANGED <<data, exists, writes, kills, torn, taken>>
  BY DEF K!StartBackup, K!Dump
<1>2. stamp + 1 \in 1 .. MaxStamp /\ stamp \in Nat /\ data[of] \in [Table -> Nat]
      /\ of \in Database
  BY <1>1 DEF K!BackupInv, K!TypeOK, K!Bounds
<1>3. d \in K!DumpFile /\ d.stamp = stamp + 1 /\ d.whole = FALSE /\ d.tables = data[of]
  BY <1>2 DEF K!DumpFile, K!Dump, K!Tables
<1>4. c \in K!Command /\ c.does = "backup" /\ c.file = stamp + 1
  BY <1>2 DEF K!Command, K!Tables, K!Bounds
<1>5. PICK file \in K!DumpFile : file = d
  BY <1>3
<1>6. PICK begun \in K!Command : begun = c
  BY <1>4
<1>7. /\ file.stamp = stamp + 1 /\ file.whole = FALSE /\ file.tables = data[of]
      /\ begun.does = "backup" /\ begun.file = stamp + 1
      /\ dumps' = dumps \cup {file} /\ job' = [job EXCEPT ![p] = begun] /\ begun # None
  BY <1>1, <1>3, <1>4, <1>5, <1>6 DEF K!Bounds
<1> HIDE DEF d, c
<1>8. job' \in [Console -> K!Command \cup {None}] /\ job'[p] = begun
      /\ \A q \in Console : q # p => job'[q] = job[q]
  BY <1>7 DEF K!BackupInv, K!CommandsAreTyped
<1>9. K!TypeOK'
  <2>1. \A f \in dumps' : f.stamp \in 1 .. stamp' /\ f.tables \in [Table -> Nat]
                          /\ f.whole \in BOOLEAN
    <3>1. \A f \in dumps : f.stamp \in 1 .. stamp' /\ f.tables \in [Table -> Nat]
                           /\ f.whole \in BOOLEAN
      BY <1>1, <1>2 DEF K!BackupInv, K!TypeOK
    <3>2. file.stamp \in 1 .. stamp' /\ file.tables \in [Table -> Nat] /\ file.whole \in BOOLEAN
      <4>1. file.stamp \in 1 .. stamp'
        BY <1>1, <1>2, <1>7
      <4>2. file.whole \in BOOLEAN
        BY <1>7
      <4> QED BY <1>2, <1>7, <4>1, <4>2
    <3> QED BY <1>7, <3>1, <3>2
  <2> QED BY <1>1, <1>2, <2>1 DEF K!BackupInv, K!TypeOK, K!Bounds
<1>10. K!CommandsAreTyped'
  BY <1>1, <1>7, <1>8 DEF K!BackupInv, K!CommandsAreTyped
<1>11. /\ \A f \in dumps : f.stamp <= stamp
       /\ \A q \in Console : job[q] # None /\ job[q].does = "backup" => job[q].file <= stamp
  BY <1>2 DEF K!BackupInv, K!TypeOK, K!EachHasItsFile
<1>12. K!EachHasItsFile'
  <2>1. \A f, g \in dumps' : f.stamp = g.stamp => f = g
    BY <1>2, <1>7, <1>11 DEF K!BackupInv, K!EachHasItsFile, K!TypeOK
  <2>2. ASSUME NEW q \in Console, job'[q] # None, job'[q].does = "backup"
        PROVE  /\ \E f \in dumps' : f.stamp = job'[q].file
               /\ \A r \in Console : job'[r] # None /\ job'[r].does = "backup"
                                     /\ job'[r].file = job'[q].file => r = q
    <3>1. CASE q = p
      <4>1. \A r \in Console : r # p /\ job'[r] # None /\ job'[r].does = "backup"
                               => job'[r].file # stamp + 1
        BY <1>2, <1>8, <1>11
      <4> QED BY <1>7, <1>8, <3>1, <4>1
    <3>2. CASE q # p
      <4>1. job[q].file # stamp + 1
        BY <1>2, <1>8, <1>11, <2>2, <3>2
      <4> QED BY <1>7, <1>8, <2>2, <3>2, <4>1 DEF K!BackupInv, K!EachHasItsFile
    <3> QED BY <3>1, <3>2
  <2> QED BY <2>1, <2>2 DEF K!EachHasItsFile
<1>13. \A s \in 1 .. MaxStamp : s <= stamp => (K!Writing(s)' <=> K!Writing(s))
  BY <1>1, <1>2, <1>7, <1>8 DEF K!Writing
<1>14. K!TakenLie'
  BY <1>1, <1>2, <1>7, <1>13 DEF K!BackupInv, K!TakenLie, K!Bounds
<1>15. K!RestingDumpsAreWhole'
  <2>1. K!Writing(file.stamp)'
    BY <1>1, <1>7, <1>8 DEF K!Writing
  <2>2. \A f \in dumps : f.stamp \in 1 .. MaxStamp /\ f.stamp <= stamp
    BY <1>2, <1>11 DEF K!BackupInv, K!TypeOK, K!Bounds
  <2> QED BY <1>1, <1>7, <1>13, <2>1, <2>2 DEF K!BackupInv, K!RestingDumpsAreWhole, K!Writing
<1> QED BY <1>1, <1>9, <1>10, <1>12, <1>14, <1>15 DEF K!BackupInv

\* A backup ends: its file is whole, is dropped, or is left torn, and the others and
\* those who write them are as they were.
LEMMA BackupEnds ==
  ASSUME K!Bounds, K!BackupInv, NEW p \in Console, job[p] # None,
         job' = [job EXCEPT ![p] = None]
  PROVE  /\ job' \in [Console -> K!Command \cup {None}] /\ job'[p] = None
         /\ \A q \in Console : q # p => job'[q] = job[q]
         /\ \A s : job[p].does = "backup" /\ s = job[p].file => ~K!Writing(s)'
         /\ \A s : (job[p].does = "backup" => s # job[p].file) => (K!Writing(s)' <=> K!Writing(s))
<1>1. /\ job' \in [Console -> K!Command \cup {None}] /\ job'[p] = None
      /\ \A q \in Console : q # p => job'[q] = job[q]
  BY DEF K!BackupInv, K!CommandsAreTyped
<1>2. \A s : job[p].does = "backup" /\ s = job[p].file => ~K!Writing(s)'
  <2> SUFFICES ASSUME job[p].does = "backup",
                      NEW q \in Console, job'[q] # None, job'[q].does = "backup",
                      job'[q].file = job[p].file
               PROVE  FALSE
    BY <1>1 DEF K!Writing
  <2>1. q # p /\ job'[q] = job[q]
    BY <1>1
  <2> QED BY <2>1 DEF K!BackupInv, K!EachHasItsFile
<1>3. \A s : (job[p].does = "backup" => s # job[p].file) => (K!Writing(s)' <=> K!Writing(s))
  BY <1>1 DEF K!Writing
<1> QED BY <1>1, <1>2, <1>3

\* pg_dump ends well: its file is whole, and is the last one taken.
LEMMA FinishBackupStep ==
  ASSUME K!Bounds, K!BackupInv, NEW p \in Console, K!FinishBackup(p)
  PROVE  K!BackupInv' /\ data' = data
<1>1. PICK file : file = K!FileOf(p)
  OBVIOUS
<1>2. PICK done : done = [file EXCEPT !.whole = TRUE]
  OBVIOUS
<1>3. /\ job[p] # None /\ job[p].does = "backup"
      /\ dumps' = (dumps \ {file}) \cup {done}
      /\ taken' = [taken EXCEPT ![job[p].file] = file.of]
      /\ job' = [job EXCEPT ![p] = None]
      /\ UNCHANGED <<data, exists, stamp, writes, kills, torn>>
  BY <1>1, <1>2 DEF K!FinishBackup
<1>4. /\ file \in dumps /\ file.stamp = job[p].file /\ file \in K!DumpFile
      /\ \A f \in dumps : f.stamp = job[p].file => f = file
      /\ file.stamp \in 1 .. stamp /\ file.tables \in [Table -> Nat]
      /\ file.of \in K!Source
  BY <1>1, <1>3, FileOfABackup DEF K!BackupInv, K!CommandsAreTyped, K!TypeOK, K!DumpFile
<1>5. done \in K!DumpFile /\ done.stamp = file.stamp /\ done.whole /\ done.tables = file.tables
      /\ done.of = file.of
  BY <1>2, <1>4 DEF K!DumpFile
<1>6. PICK s \in 1 .. MaxStamp : s = job[p].file
  BY <1>3, CommandOfATerminal
<1>7. /\ job' \in [Console -> K!Command \cup {None}] /\ job'[p] = None
      /\ \A q \in Console : q # p => job'[q] = job[q]
      /\ ~K!Writing(s)'
      /\ \A r : r # s => (K!Writing(r)' <=> K!Writing(r))
  <2>1. /\ job' \in [Console -> K!Command \cup {None}] /\ job'[p] = None
        /\ \A q \in Console : q # p => job'[q] = job[q]
        /\ \A r : r = job[p].file => ~K!Writing(r)'
        /\ \A r : r # job[p].file => (K!Writing(r)' <=> K!Writing(r))
    BY <1>3, BackupEnds
  <2> QED BY <1>6, <2>1
<1>8. /\ taken' \in [1 .. MaxStamp -> K!Source \cup {None}]
      /\ taken'[s] = file.of /\ \A r \in 1 .. MaxStamp : r # s => taken'[r] = taken[r]
  BY <1>3, <1>4, <1>6 DEF K!BackupInv, K!CommandsAreTyped
<1>9. K!TypeOK'
  BY <1>3, <1>4, <1>5 DEF K!BackupInv, K!TypeOK
<1>10. K!CommandsAreTyped'
  BY <1>3, <1>5, <1>7, <1>8 DEF K!BackupInv, K!CommandsAreTyped
<1>11. /\ \A f \in dumps : \E g \in dumps' : g.stamp = f.stamp /\ g.of = f.of
       /\ \A f \in dumps' : f = done \/ (f \in dumps /\ f.stamp # s)
  BY <1>3, <1>4, <1>5, <1>6
<1>12. K!EachHasItsFile'
  <2>1. \A f, g \in dumps' : f.stamp = g.stamp => f = g
    BY <1>4, <1>5, <1>6, <1>11 DEF K!BackupInv, K!EachHasItsFile
  <2>2. ASSUME NEW q \in Console, job'[q] # None, job'[q].does = "backup"
        PROVE  /\ \E f \in dumps' : f.stamp = job'[q].file
               /\ \A r \in Console : job'[r] # None /\ job'[r].does = "backup"
                                     /\ job'[r].file = job'[q].file => r = q
    BY <1>7, <1>11, <2>2 DEF K!BackupInv, K!EachHasItsFile
  <2> QED BY <2>1, <2>2 DEF K!EachHasItsFile
<1>13. K!TakenLie'
  <2>1. s <= stamp /\ \E f \in dumps' : f.stamp = s /\ f.of = taken'[s]
    BY <1>3, <1>4, <1>5, <1>6, <1>8 DEF K!BackupInv, K!TypeOK
  <2> QED BY <1>3, <1>7, <1>8, <1>11, <2>1 DEF K!BackupInv, K!TakenLie
<1>14. K!RestingDumpsAreWhole'
  BY <1>3, <1>5, <1>7, <1>11 DEF K!BackupInv, K!RestingDumpsAreWhole
<1> QED BY <1>3, <1>9, <1>10, <1>12, <1>13, <1>14 DEF K!BackupInv

\* pg_dump fails: the script removes the file it was writing.
LEMMA FailBackupStep ==
  ASSUME K!Bounds, K!BackupInv, NEW p \in Console, K!FailBackup(p)
  PROVE  K!BackupInv' /\ data' = data
<1>1. PICK file : file = K!FileOf(p)
  OBVIOUS
<1>2. /\ job[p] # None /\ job[p].does = "backup" /\ kills < MaxKills /\ kills' = kills + 1
      /\ dumps' = dumps \ {file} /\ job' = [job EXCEPT ![p] = None]
      /\ UNCHANGED <<data, exists, stamp, writes, torn, taken>>
  BY <1>1 DEF K!FailBackup, K!Without
<1>3. /\ file \in dumps /\ file.stamp = job[p].file
      /\ \A f \in dumps : f.stamp = job[p].file => f = file
  BY <1>1, <1>2, FileOfABackup
<1>4. PICK s \in 1 .. MaxStamp : s = job[p].file
  BY <1>2, CommandOfATerminal
<1>5. /\ job' \in [Console -> K!Command \cup {None}] /\ job'[p] = None
      /\ \A q \in Console : q # p => job'[q] = job[q]
      /\ \A r : r # s => (K!Writing(r)' <=> K!Writing(r))
      /\ K!Writing(s)
  BY <1>2, <1>4, BackupEnds DEF K!Writing
<1>6. kills' \in 0 .. MaxKills
  BY <1>2 DEF K!BackupInv, K!TypeOK, K!Bounds
<1>7. K!TypeOK'
  BY <1>2, <1>6 DEF K!BackupInv, K!TypeOK
<1>8. K!CommandsAreTyped'
  BY <1>2, <1>5 DEF K!BackupInv, K!CommandsAreTyped
<1>9. \A f \in dumps : f.stamp # s => f \in dumps'
  BY <1>2, <1>3, <1>4
<1>10. \A f \in dumps' : f \in dumps /\ f.stamp # s
  BY <1>2, <1>3, <1>4
<1>11. K!EachHasItsFile'
  <2>1. \A f, g \in dumps' : f.stamp = g.stamp => f = g
    BY <1>10 DEF K!BackupInv, K!EachHasItsFile
  <2>2. ASSUME NEW q \in Console, job'[q] # None, job'[q].does = "backup"
        PROVE  /\ \E f \in dumps' : f.stamp = job'[q].file
               /\ \A r \in Console : job'[r] # None /\ job'[r].does = "backup"
                                     /\ job'[r].file = job'[q].file => r = q
    <3>1. q # p /\ job'[q] = job[q] /\ job[q].file # s
      BY <1>2, <1>4, <1>5, <2>2 DEF K!BackupInv, K!EachHasItsFile
    <3> QED BY <1>5, <1>9, <2>2, <3>1 DEF K!BackupInv, K!EachHasItsFile
  <2> QED BY <2>1, <2>2 DEF K!EachHasItsFile
<1>12. K!TakenLie'
  <2>1. \A r \in 1 .. MaxStamp : taken[r] # None => r # s
    BY <1>5 DEF K!BackupInv, K!TakenLie
  <2> QED BY <1>2, <1>5, <1>9, <2>1 DEF K!BackupInv, K!TakenLie
<1>13. K!RestingDumpsAreWhole'
  BY <1>2, <1>5, <1>10 DEF K!BackupInv, K!RestingDumpsAreWhole
<1> QED BY <1>2, <1>7, <1>8, <1>11, <1>12, <1>13 DEF K!BackupInv

\* A terminal is killed: the file it was writing stays, and is torn.
LEMMA KillStep ==
  ASSUME K!Bounds, K!BackupInv, NEW p \in Console, K!Kill(p)
  PROVE  K!BackupInv' /\ data' = data
<1>1. /\ job[p] # None /\ kills < MaxKills /\ kills' = kills + 1
      /\ torn' = (IF job[p].does = "backup" THEN torn \cup {job[p].file} ELSE torn)
      /\ job' = [job EXCEPT ![p] = None]
      /\ UNCHANGED <<data, exists, dumps, stamp, writes, taken>>
  BY DEF K!Kill
<1>2. /\ job' \in [Console -> K!Command \cup {None}] /\ job'[p] = None
      /\ \A q \in Console : q # p => job'[q] = job[q]
      /\ \A s : (job[p].does = "backup" => s # job[p].file) => (K!Writing(s)' <=> K!Writing(s))
  BY <1>1, BackupEnds
<1>3. \A s : K!Writing(s)' => K!Writing(s)
  BY <1>2 DEF K!Writing
<1>4. kills' \in 0 .. MaxKills
  BY <1>1 DEF K!BackupInv, K!TypeOK, K!Bounds
<1>5. K!TypeOK'
  BY <1>1, <1>4 DEF K!BackupInv, K!TypeOK
<1>6. K!CommandsAreTyped'
  BY <1>1, <1>2 DEF K!BackupInv, K!CommandsAreTyped
<1>7. K!EachHasItsFile'
  BY <1>1, <1>2 DEF K!BackupInv, K!EachHasItsFile
<1>8. K!TakenLie'
  BY <1>1, <1>3 DEF K!BackupInv, K!TakenLie
<1>9. K!RestingDumpsAreWhole'
  BY <1>1, <1>2 DEF K!BackupInv, K!RestingDumpsAreWhole
<1> QED BY <1>1, <1>5, <1>6, <1>7, <1>8, <1>9 DEF K!BackupInv

\* A restore begins or ends: the files and those who write them are as they were.
LEMMA RestoreKeepsFiles ==
  ASSUME K!Bounds, K!BackupInv, NEW p \in Console, NEW c \in K!Command \cup {None},
         job' = [job EXCEPT ![p] = c], job[p] = None \/ job[p].does = "restore",
         c = None \/ c.does = "restore",
         UNCHANGED <<dumps, stamp, torn, taken>>
  PROVE  K!CommandsAreTyped' /\ K!EachHasItsFile' /\ K!TakenLie' /\ K!RestingDumpsAreWhole'
<1>1. /\ job' \in [Console -> K!Command \cup {None}] /\ job'[p] = c
      /\ \A q \in Console : q # p => job'[q] = job[q]
  BY DEF K!BackupInv, K!CommandsAreTyped
<1>2. \A s : K!Writing(s)' <=> K!Writing(s)
  BY <1>1 DEF K!Writing
<1>3. K!CommandsAreTyped'
  BY <1>1 DEF K!BackupInv, K!CommandsAreTyped
<1>4. K!EachHasItsFile'
  BY <1>1 DEF K!BackupInv, K!EachHasItsFile
<1>5. K!TakenLie' /\ K!RestingDumpsAreWhole'
  BY <1>2 DEF K!BackupInv, K!TakenLie, K!RestingDumpsAreWhole
<1> QED BY <1>3, <1>4, <1>5

\* A restore begins by dropping the tables of its dump, in the database it goes into.
LEMMA StartRestoreStep ==
  ASSUME K!Bounds, K!BackupInv, NEW p \in Console, NEW f \in dumps, NEW into \in Database,
         K!StartRestore(p, f, into)
  PROVE  /\ K!BackupInv' /\ job'[p].file = f.stamp
         /\ into # Main => data'[Main] = data[Main]
<1>1. PICK dropped : dropped = [t \in Table |-> IF f.tables[t] > 0 THEN 0 ELSE data[into][t]]
  OBVIOUS
<1>2. PICK c : c = [does |-> "restore", file |-> f.stamp, into |-> into, was |-> f.tables,
                    whole |-> f.whole]
  OBVIOUS
<1>3. /\ job[p] = None /\ exists' = exists \cup {into}
      /\ data' = [data EXCEPT ![into] = dropped] /\ job' = [job EXCEPT ![p] = c]
      /\ UNCHANGED <<dumps, stamp, writes, kills, torn, taken>>
  BY <1>1, <1>2 DEF K!StartRestore, K!Target, K!BackupInv, K!TypeOK
<1>4. f \in K!DumpFile /\ f.stamp \in 1 .. MaxStamp /\ f.tables \in [Table -> Nat]
      /\ f.whole \in BOOLEAN
  BY DEF K!BackupInv, K!CommandsAreTyped, K!DumpFile, K!Tables
<1>5. dropped \in [Table -> Nat]
  <2>1. data[into] \in [Table -> Nat]
    BY DEF K!BackupInv, K!TypeOK
  <2> QED BY <1>1, <2>1
<1>6. data' \in [Database -> [Table -> Nat]] /\ (into # Main => data'[Main] = data[Main])
  BY <1>3, <1>5, RestoredIsTyped
<1>7. c \in K!Command /\ c.does = "restore" /\ c.file = f.stamp
  BY <1>2, <1>4 DEF K!Command, K!Tables
<1>8. K!TypeOK'
  BY <1>3, <1>6 DEF K!BackupInv, K!TypeOK
<1>9. K!CommandsAreTyped' /\ K!EachHasItsFile' /\ K!TakenLie' /\ K!RestingDumpsAreWhole'
  BY <1>3, <1>7, RestoreKeepsFiles
<1>10. job'[p].file = f.stamp
  BY <1>3, <1>7 DEF K!BackupInv, K!CommandsAreTyped
<1> QED BY <1>6, <1>8, <1>9, <1>10 DEF K!BackupInv

\* A restore ends, well or not: what it writes it writes into the database it was told.
LEMMA EndRestoreStep ==
  ASSUME K!Bounds, K!BackupInv, NEW p \in Console, K!FinishRestore(p) \/ K!FailRestore(p)
  PROVE  /\ K!BackupInv'
         /\ data'[Main] = data[Main] \/ (job[p] # None /\ job[p].into = Main /\ K!FinishRestore(p))
<1>1. /\ job[p] # None /\ job[p].does = "restore" /\ job' = [job EXCEPT ![p] = None]
      /\ UNCHANGED <<exists, dumps, stamp, writes, kills, torn, taken>>
  BY DEF K!FinishRestore, K!FailRestore
<1>2. K!CommandsAreTyped' /\ K!EachHasItsFile' /\ K!TakenLie' /\ K!RestingDumpsAreWhole'
  BY <1>1, RestoreKeepsFiles
<1>3. CASE K!FailRestore(p)
  <2>1. data' = data
    BY <1>3 DEF K!FailRestore
  <2> QED BY <1>1, <1>2, <2>1 DEF K!BackupInv, K!TypeOK
<1>4. CASE K!FinishRestore(p)
  <2>1. PICK d \in Database : d = job[p].into
    BY <1>1, CommandOfATerminal
  <2>2. PICK was \in [Table -> Nat] : was = job[p].was
    BY <1>1, CommandOfATerminal
  <2>3. PICK back : back = [t \in Table |-> IF was[t] > 0 THEN was[t] ELSE data[d][t]]
    OBVIOUS
  <2>4. data' = [data EXCEPT ![d] = back]
    BY <1>4, <2>1, <2>2, <2>3 DEF K!FinishRestore
  <2>5. back \in [Table -> Nat]
    <3>1. data[d] \in [Table -> Nat]
      BY DEF K!BackupInv, K!TypeOK
    <3> QED BY <2>3, <3>1
  <2>6. data' \in [Database -> [Table -> Nat]] /\ (d # Main => data'[Main] = data[Main])
    BY <2>4, <2>5, RestoredIsTyped
  <2>7. K!TypeOK'
    BY <1>1, <2>6 DEF K!BackupInv, K!TypeOK
  <2> QED BY <1>1, <1>2, <1>4, <2>1, <2>6, <2>7 DEF K!BackupInv
<1> QED BY <1>3, <1>4

\* Every step of the script and of the application keeps the dumps, and one that is not told to
\* go into the live database leaves it alone.
LEMMA BackupStep ==
  ASSUME K!Bounds, K!BackupInv, [K!Next]_K!vars
  PROVE  K!BackupInv' /\ K!ScratchSparesTheLiveStep /\ K!LatestIsTheLastTakenStep
<1>1. K!BackupInv' /\ K!ScratchSparesTheLiveStep
  <2>1. ASSUME NEW t \in Table, K!Write(t) PROVE K!BackupInv' /\ K!ScratchSparesTheLiveStep
    BY <2>1, WriteStep DEF K!ScratchSparesTheLiveStep
  <2>2. ASSUME NEW p \in Console,
               \/ \E of \in K!Source : K!StartBackup(p, of)
               \/ K!FinishBackup(p) \/ K!FailBackup(p) \/ K!Kill(p)
        PROVE  K!BackupInv' /\ K!ScratchSparesTheLiveStep
    BY <2>2, StartBackupStep, FinishBackupStep, FailBackupStep, KillStep
       DEF K!ScratchSparesTheLiveStep
  <2>3. ASSUME NEW p \in Console, K!FinishRestore(p) \/ K!FailRestore(p)
        PROVE  K!BackupInv' /\ K!ScratchSparesTheLiveStep
    BY <2>3, EndRestoreStep DEF K!ScratchSparesTheLiveStep
  <2>4. ASSUME NEW p \in Console, NEW f \in dumps, NEW into \in Database,
               K!StartRestore(p, f, into)
        PROVE  K!BackupInv' /\ K!ScratchSparesTheLiveStep
    BY <2>4, StartRestoreStep DEF K!ScratchSparesTheLiveStep
  <2>5. ASSUME NEW p \in Console, NEW into \in Database, K!RestoreLatest(p, into)
        PROVE  \E f \in dumps : K!StartRestore(p, f, into)
    BY <2>5, LatestIsLast DEF K!RestoreLatest
  <2>6. CASE UNCHANGED K!vars
    <3>1. UNCHANGED <<data, exists, dumps, job, stamp, writes, kills, torn, taken>>
      BY <2>6 DEF K!vars
    <3>2. K!CommandsAreTyped' /\ K!EachHasItsFile' /\ K!TakenLie' /\ K!RestingDumpsAreWhole'
      BY <3>1, DataStep
    <3>3. K!TypeOK'
      BY <3>1 DEF K!BackupInv, K!TypeOK
    <3> QED BY <3>1, <3>2, <3>3 DEF K!BackupInv, K!ScratchSparesTheLiveStep
  <2> QED BY <2>1, <2>2, <2>3, <2>4, <2>5, <2>6 DEF K!Next
<1>2. K!LatestIsTheLastTakenStep
  <2> SUFFICES ASSUME NEW p \in Console, NEW d \in Database, K!RestoreLatest(p, d),
                      NEW s \in 1 .. MaxStamp, taken[s] = K!Latest.of
               PROVE  s <= job'[p].file
    BY DEF K!LatestIsTheLastTakenStep
  <2>1. K!Latest \in dumps /\ K!StartRestore(p, K!Latest, d)
        /\ \A g \in dumps : g.of = K!Latest.of => g.stamp <= K!Latest.stamp
    BY LatestIsLast DEF K!RestoreLatest
  <2>2. PICK f \in dumps : f.stamp = s /\ f.of = taken[s]
    <3>1. K!Latest.of # None
      BY <2>1 DEF K!BackupInv, K!CommandsAreTyped, K!DumpFile, K!Bounds
    <3> QED BY <3>1 DEF K!BackupInv, K!TakenLie
  <2>3. job'[p].file = K!Latest.stamp
    BY <2>1, StartRestoreStep
  <2> QED BY <2>1, <2>2, <2>3
<1> QED BY <1>1, <1>2

\* The backup script (packages/db/src/backup.ts): a dump that nobody is writing and no kill tore is
\* whole.
THEOREM BackupsAreSafe ==
  ASSUME K!Bounds
  PROVE  K!Spec => [](K!TypeOK /\ K!RestingDumpsAreWhole)
<1>1. K!Init => K!BackupInv
  BY BackupBegins
<1>2. K!BackupInv /\ [K!Next]_K!vars => K!BackupInv'
  BY BackupStep
<1>3. K!BackupInv => K!TypeOK /\ K!RestingDumpsAreWhole
  BY DEF K!BackupInv
<1> QED BY <1>1, <1>2, <1>3, PTL DEF K!Spec

------------------------------------------------------------------------------
(* What is proved of a component for all constants holds of it here.         *)

\* A behaviour that begins as events of one Stripe account goes on as it.
LEMMA BillsRun == Spec => [](which # "Billing") \/ (B!Spec /\ [](which = "Billing"))
<1>1. Init => which # "Billing" \/ (which = "Billing" /\ B!Init)
  BY DEF Init
<1>2. which # "Billing" /\ [Next]_vars => (which # "Billing")'
  BY DEF Next, vars
<1>3. which = "Billing" /\ [Next]_vars => (which = "Billing")' /\ [B!Next]_B!vars
  BY DEF Next, vars, billVars, B!vars, B!history, B!hooks, B!shop, B!hook
<1> QED BY <1>1, <1>2, <1>3, PTL DEF Spec, B!Spec

\* Billing of the run (server/actions/billing.ts, app/api/stripe/webhook, packages/auth):
\* at rest the rows are what Stripe holds, and the subscriptions of a deleted account
\* are cancelled, nobody else's.
THEOREM BillingAlwaysHolds == Spec => []BillingHolds
<1> DEFINE Bills == /\ B!TypeOK /\ B!SettlesOnTruth /\ B!EntitledPay /\ B!RowsHaveTheirOwner
                    /\ B!OwedIsCancelled /\ B!LiveOwnersAreSpared
<1>1. B!Spec => []Bills
  BY ConstantsAssumption, BillingIsTrue
<1>2. which # "Billing" \/ Bills => BillingHolds
  BY DEF BillingHolds
<1> QED BY <1>1, <1>2, BillsRun, PTL

\* A behaviour that begins as a board of posts goes on as it.
LEMMA BoardRuns == Spec => [](which # "PostBoard") \/ (P!Spec /\ [](which = "PostBoard"))
<1>1. Init => which # "PostBoard" \/ (which = "PostBoard" /\ P!Init)
  BY DEF Init
<1>2. which # "PostBoard" /\ [Next]_vars => (which # "PostBoard")'
  BY DEF Next, vars
<1>3. which = "PostBoard" /\ [Next]_vars => (which = "PostBoard")' /\ [P!Next]_P!vars
  BY DEF Next, vars, boardVars, P!vars, P!engine
<1> QED BY <1>1, <1>2, <1>3, PTL DEF Spec, P!Spec

\* The posts of the run (server/actions/post.ts, lib/search.ts): a revision per
\* version, and an index that follows the rows unless a write of it failed.
THEOREM PostsAlwaysHold == Spec => []PostsHold
<1> DEFINE Posts == P!TypeOK /\ P!HistoryIsWhole /\ P!SearchFollows /\ P!PinnedBeforeFirst
<1>1. P!Spec => []Posts
  BY ConstantsAssumption, PostsAreKept
<1>2. which # "PostBoard" \/ Posts => PostsHold
  BY DEF PostsHold
<1> QED BY <1>1, <1>2, BoardRuns, PTL

\* A behaviour that begins as a list of posts goes on as it.
LEMMA CacheRuns == Spec => [](which # "PostCache") \/ (L!Spec /\ [](which = "PostCache"))
<1>1. Init => which # "PostCache" \/ (which = "PostCache" /\ L!Init)
  BY DEF Init
<1>2. which # "PostCache" /\ [Next]_vars => (which # "PostCache")'
  BY DEF Next, vars
<1>3. which = "PostCache" /\ [Next]_vars => (which = "PostCache")' /\ [L!Next]_L!vars
  BY DEF Next, vars, cacheVars, L!vars
<1> QED BY <1>1, <1>2, <1>3, PTL DEF Spec, L!Spec

\* A behaviour that begins as a feed goes on as it.
LEMMA FeedRuns ==
  Spec => [](which # "NotificationFeed") \/ (N!Spec /\ [](which = "NotificationFeed"))
<1>1. Init => which # "NotificationFeed" \/ (which = "NotificationFeed" /\ N!Init)
  BY DEF Init
<1>2. which # "NotificationFeed" /\ [Next]_vars => (which # "NotificationFeed")'
  BY DEF Next, vars
<1>3. which = "NotificationFeed" /\ [Next]_vars => (which = "NotificationFeed")' /\ [N!Next]_N!vars
  BY DEF Next, vars, feedVars, N!vars, N!server, N!link, N!cache, N!fetch, N!marking
<1> QED BY <1>1, <1>2, <1>3, PTL DEF Spec, N!Spec

\* The lists on screen in the run (components/posts, components/notifications): once all
\* is settled the post list is the server's, and a live feed at rest shows the
\* notifications there are, none twice, with their marks and their count.
THEOREM CachesAlwaysHold == Spec => []CachesHold
<1> DEFINE Listing == L!TypeOK /\ L!SettledListIsTrue
           Feed == N!TypeOK /\ N!NoRowTwice /\ N!RestingFeedIsTrue
<1>1. L!Spec => []Listing
  BY ConstantsAssumption, ListSettles
<1>2. N!Spec => []Feed
  BY ConstantsAssumption, FeedIsTrue
<1>3. (which # "PostCache" \/ Listing) /\ (which # "NotificationFeed" \/ Feed) => CachesHold
  BY DEF CachesHold
<1> QED BY <1>1, <1>2, <1>3, CacheRuns, FeedRuns, PTL

\* A behaviour that begins as the do-not-send list goes on as it.
LEMMA ListRuns ==
  Spec => [](which # "SuppressionList") \/ (D!Spec /\ [](which = "SuppressionList"))
<1>1. Init => which # "SuppressionList" \/ (which = "SuppressionList" /\ D!Init)
  BY DEF Init
<1>2. which # "SuppressionList" /\ [Next]_vars => (which # "SuppressionList")'
  BY DEF Next, vars
<1>3. which = "SuppressionList" /\ [Next]_vars => (which = "SuppressionList")' /\ [D!Next]_D!vars
  BY DEF Next, vars, listVars, D!vars
<1> QED BY <1>1, <1>2, <1>3, PTL DEF Spec, D!Spec

\* A behaviour that begins as the limiter goes on as it.
LEMMA LimitRuns == Spec => [](which # "RateLimit") \/ (R!Spec /\ [](which = "RateLimit"))
<1>1. Init => which # "RateLimit" \/ (which = "RateLimit" /\ R!Init)
  BY DEF Init
<1>2. which # "RateLimit" /\ [Next]_vars => (which # "RateLimit")'
  BY DEF Next, vars
<1>3. which = "RateLimit" /\ [Next]_vars => (which = "RateLimit")' /\ [R!Next]_R!vars
  BY DEF Next, vars, limitVars, R!vars
<1> QED BY <1>1, <1>2, <1>3, PTL DEF Spec, R!Spec

\* Delivery in the run (app/api/resend/webhook/route.ts, lib/rate-limit.ts): an event
\* acknowledged suppresses its addresses, only cause does, and no window of the limiter
\* lets through more than twice its limit.
THEOREM DeliveryAlwaysHolds == Spec => []DeliveryHolds
<1> DEFINE Listing == D!TypeOK /\ D!AckedIsSuppressed /\ D!SuppressedForCause
           Limiting == R!TypeOK /\ R!TwiceTheLimit /\ R!RefusalIsEarned
<1>1. D!Spec => []Listing
  BY ConstantsAssumption, ListIsTrue
<1>2. R!Spec => []Limiting
  BY ConstantsAssumption, LimitHolds
<1>3. (which # "SuppressionList" \/ Listing) /\ (which # "RateLimit" \/ Limiting)
      => DeliveryHolds
  BY DEF DeliveryHolds
<1> QED BY <1>1, <1>2, <1>3, ListRuns, LimitRuns, PTL

\* A behaviour that begins as the sweeps of a calendar goes on as it.
LEMMA SweepsRun == Spec => [](which # "ReminderDue") \/ (Q!Spec /\ [](which = "ReminderDue"))
<1>1. Init => which # "ReminderDue" \/ (which = "ReminderDue" /\ Q!Init)
  BY DEF Init
<1>2. which # "ReminderDue" /\ [Next]_vars => (which # "ReminderDue")'
  BY DEF Next, vars
<1>3. which = "ReminderDue" /\ [Next]_vars => (which = "ReminderDue")' /\ [Q!Next]_Q!vars
  BY DEF Next, vars, dueVars, Q!vars, Q!calendar
<1> QED BY <1>1, <1>2, <1>3, PTL DEF Spec, Q!Spec

\* The reads of a sweep in the run (packages/jobs/src/reminders/run.ts): what was due and
\* untouched while it read is found, and a quiet sweep finds nothing else.
THEOREM DueIsAlwaysExact == Spec => []DueIsExact
<1> DEFINE Due == Q!TypeOK /\ Q!UntouchedIsFound /\ Q!QuietReadIsExact
<1>1. Q!Spec => []Due
  BY ConstantsAssumption, DueIsFound
<1>2. which # "ReminderDue" \/ Due => DueIsExact
  BY DEF DueIsExact
<1> QED BY <1>1, <1>2, SweepsRun, PTL

\* A behaviour that begins as the init script's goes on as it.
LEMMA ScriptRuns == Spec => [](which # "InitApp") \/ (I!Spec /\ [](which = "InitApp"))
<1>1. Init => which # "InitApp" \/ (which = "InitApp" /\ I!Init)
  BY DEF Init
<1>2. which # "InitApp" /\ [Next]_vars => (which # "InitApp")'
  BY DEF Next, vars
<1>3. which = "InitApp" /\ [Next]_vars => (which = "InitApp")' /\ [I!Next]_I!vars
  BY DEF Next, vars, slimVars, I!vars, I!repo, I!run
<1> QED BY <1>1, <1>2, <1>3, PTL DEF Spec, I!Spec

\* A behaviour that begins as the backup script's goes on as it.
LEMMA BackupsRun == Spec => [](which # "Backup") \/ (K!Spec /\ [](which = "Backup"))
<1>1. Init => which # "Backup" \/ (which = "Backup" /\ K!Init)
  BY DEF Init
<1>2. which # "Backup" /\ [Next]_vars => (which # "Backup")'
  BY DEF Next, vars
<1>3. which = "Backup" /\ [Next]_vars => (which = "Backup")' /\ [K!Next]_K!vars
  BY DEF Next, vars, backupVars, K!vars
<1> QED BY <1>1, <1>2, <1>3, PTL DEF Spec, K!Spec

\* The operator's tools in the run (scripts/init-app.mjs, packages/db/src/backup.ts): a
\* completed slim run leaves nothing that points into what it removed, and dumps no kill
\* tore are whole.
THEOREM ToolsAlwaysRest == Spec => []ToolsRest
<1> DEFINE Slim == I!TypeOK /\ I!SlimIsMadeGood
           Dumps == K!TypeOK /\ K!RestingDumpsAreWhole
<1>1. I!Spec => []Slim
  BY ConstantsAssumption, SlimHolds
<1>2. K!Spec => []Dumps
  BY ConstantsAssumption, BackupsAreSafe
<1>3. (which # "InitApp" \/ Slim) /\ (which # "Backup" \/ Dumps) => ToolsRest
  BY DEF ToolsRest
<1> QED BY <1>1, <1>2, <1>3, ScriptRuns, BackupsRun, PTL

\* What a step of the tools spares: init-app.mjs the adopter's .env and the repository a
\* slim run has left, backup.ts the live database unless a restore is aimed at it; and a
\* restore of the latest dump takes the last one completed.
THEOREM ToolsAlwaysSpare == Spec => ToolsSpare
<1>1. I!Spec => []I!SlimInv
  <2>1. I!Init => I!SlimInv
    BY ConstantsAssumption, SlimBegins
  <2>2. I!SlimInv /\ [I!Next]_I!vars => I!SlimInv'
    BY ConstantsAssumption, SlimStep
  <2> QED BY <2>1, <2>2, PTL DEF I!Spec
<1>2. K!Spec => []K!BackupInv
  <2>1. K!Init => K!BackupInv
    BY ConstantsAssumption, BackupBegins
  <2>2. K!BackupInv /\ [K!Next]_K!vars => K!BackupInv'
    BY ConstantsAssumption, BackupStep
  <2> QED BY <2>1, <2>2, PTL DEF K!Spec
<1> DEFINE Spared == /\ which = "InitApp" => I!OwnEnvSurvivesStep /\ I!SecondRunIsQuietStep
                     /\ which = "Backup" => /\ K!ScratchSparesTheLiveStep
                                            /\ K!LatestIsTheLastTakenStep
<1>3. ASSUME which # "InitApp" \/ I!SlimInv, which # "Backup" \/ K!BackupInv, [Next]_vars
      PROVE  Spared
  <2>1. CASE which = "InitApp"
    <3>1. [I!Next]_I!vars /\ which # "Backup"
      BY <1>3, <2>1 DEF Next, vars, slimVars, I!vars, I!repo, I!run
    <3> QED BY <1>3, <2>1, <3>1, ConstantsAssumption, SlimStep
  <2>2. CASE which = "Backup"
    <3>1. [K!Next]_K!vars /\ which # "InitApp"
      BY <1>3, <2>2 DEF Next, vars, backupVars, K!vars
    <3> QED BY <1>3, <2>2, <3>1, ConstantsAssumption, BackupStep
  <2> QED BY <2>1, <2>2
<1>4. Spared => (/\ which = "InitApp" =>
                      /\ I!OwnEnvSurvivesStep
                      /\ I!SecondRunIsQuietStep
                 /\ which = "Backup" =>
                      /\ K!ScratchSparesTheLiveStep
                      /\ K!LatestIsTheLastTakenStep)
  OBVIOUS
<1> QED BY <1>1, <1>2, <1>3, ScriptRuns, BackupsRun, PTL DEF Spec, ToolsSpare
==============================================================================

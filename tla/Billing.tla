------------------------------- MODULE Billing -------------------------------
(***************************************************************************)
(* Subscriptions: checkout and its Stripe customer                         *)
(* (server/actions/billing.ts), the webhook that mirrors Stripe's state    *)
(* (app/api/stripe/webhook/route.ts), and the deletion of an owner, a user *)
(* or an organization, whose hooks hand the subscriptions to the           *)
(* cancellation job (packages/auth/src/auth.ts).  Stripe is external: its  *)
(* state moves on its own, it delivers each event until answered, perhaps  *)
(* twice, in the order of the events or not.                               *)
(***************************************************************************)
EXTENDS Integers, FiniteSets, FiniteSetsExt

CONSTANTS
  Owner,        \* users and organizations that may own a subscription
  Sub,          \* Stripe subscription ids
  Handler,      \* webhook requests that may run at the same time
  MaxEvents,    \* bound: events
  MaxFaults,    \* bound: failed calls and lost answers
  None

Status == {"active", "past_due", "canceled"}
Terminal == {"canceled"}

VARIABLES
  alive,        \* alive[o]: the user or organization row exists
  stripe,       \* stripe[s]: "none" or its status at Stripe
  session,      \* session[s]: the checkout session that bought s: [owner, customer]
  customers,    \* customers minted at Stripe
  inOrder,      \* does Stripe deliver one event at a time, oldest first?
  row,          \* row[s]: the subscriptions row, or None
  events,       \* events not answered yet: [n, type, sub, status]
  made,         \* events made so far
  busy, seen,   \* per handler: the event in hand, the status it retrieved
  pending,      \* pending[o]: ids captured by the before-hook, kept in memory
  deletion,     \* deletion[o]: "no", "captured", "gone" or "over"
  toCancel,     \* ids in cancellation jobs not done yet
  \* History, read by properties and bounds only.
  owed,         \* ids in the owner's rows when it was captured
  missed,       \* owners whose capture or hand-over failed
  wronged,      \* ids cancelled by a job while their owner was there
  faults

shop    == <<session, customers, inOrder>>
hooks   == <<alive, pending, deletion, toCancel>>
hook    == <<busy, seen>>
history == <<owed, missed, wronged, faults>>
vars    == <<hooks, stripe, shop, row, events, made, hook, history>>

Init ==
  /\ alive = [o \in Owner |-> TRUE]
  /\ stripe = [s \in Sub |-> "none"] /\ session = [s \in Sub |-> None]
  /\ customers = 0 /\ inOrder \in BOOLEAN /\ row = [s \in Sub |-> None]
  /\ events = {} /\ made = 0
  /\ busy = [h \in Handler |-> None] /\ seen = [h \in Handler |-> None]
  /\ pending = [o \in Owner |-> {}] /\ deletion = [o \in Owner |-> "no"]
  /\ toCancel = {} /\ owed = [o \in Owner |-> {}]
  /\ missed = {} /\ wronged = {} /\ faults = 0

Emit(ts, s, status) ==
  /\ made + Cardinality(ts) <= MaxEvents
  /\ made' = made + Cardinality(ts)
  /\ \E number \in [ts -> (made + 1) .. (made + Cardinality(ts))] :
       /\ \A t, u \in ts : number[t] = number[u] => t = u
       /\ events' = events \cup
            {[n |-> number[t], type |-> t, sub |-> s, status |-> status] : t \in ts}

Fault == faults < MaxFaults /\ faults' = faults + 1

-----------------------------------------------------------------------------
RowsOf(o) == {s \in Sub : row[s] # None /\ row[s].owner = o}

\* latestSubscriptionFor: the newest row's customer, if there is a row.
LatestRow(o) == CHOOSE s \in RowsOf(o) : \A t \in RowsOf(o) : row[s].at >= row[t].at

\* isSubscriptionActive
IsActive(status) == status = "active"

\* hasActiveSubscription, hasOrgSubscription: the newest row decides.
Entitled(o) == RowsOf(o) # {} /\ IsActive(row[LatestRow(o)].status)

\* createCheckoutSession: reuse the recorded customer, else Stripe mints one.
Checkout(o, s) ==
  /\ alive[o] /\ session[s] = None
  /\ IF RowsOf(o) # {}
       THEN /\ session' = [session EXCEPT ![s] =
                 [owner |-> o, customer |-> row[LatestRow(o)].customer]]
            /\ UNCHANGED <<customers, inOrder>>
       ELSE /\ customers' = customers + 1 /\ UNCHANGED inOrder
            /\ session' = [session EXCEPT ![s] = [owner |-> o, customer |-> customers + 1]]
  /\ UNCHANGED <<hooks, stripe, row, events, made, hook, history>>

\* Stripe: the buyer pays; nothing here knows whether the owner still exists.
Pay(s) ==
  /\ session[s] # None /\ stripe[s] = "none"
  /\ stripe' = [stripe EXCEPT ![s] = "active"]
  /\ Emit({"completed"}, s, "active")
  /\ UNCHANGED <<hooks, shop, row, hook, history>>

\* Stripe: a payment fails, is made up for, or the subscription ends.
Move(s, status) ==
  /\ stripe[s] \in Status \ {status} /\ stripe[s] \notin Terminal
  /\ stripe' = [stripe EXCEPT ![s] = status]
  /\ Emit(CASE status = "past_due" -> {"invoice", "updated"}
            [] status = "active"   -> {"updated"}
            [] status = "canceled" -> {"deleted"}, s, status)
  /\ UNCHANGED <<hooks, shop, row, hook, history>>

-----------------------------------------------------------------------------
\* The webhook.  An event is answered when it has been written; the answer may
\* be lost, and then it comes again.
Oldest(e) == \A f \in events : e.n <= f.n

Receive(h, e) ==
  /\ busy[h] = None /\ e \in events
  /\ inOrder => Oldest(e) /\ \A g \in Handler : busy[g] = None
  /\ busy' = [busy EXCEPT ![h] = e]
  /\ UNCHANGED <<hooks, stripe, shop, row, events, made, seen, history>>

Retrieves(e) == e.type \in {"completed", "invoice"}

Retrieve(h) ==
  /\ busy[h] # None /\ Retrieves(busy[h]) /\ seen[h] = None
  /\ seen' = [seen EXCEPT ![h] = stripe[busy[h].sub]]
  /\ UNCHANGED <<hooks, stripe, shop, row, events, made, busy, history>>

Release(h) ==
  /\ busy' = [busy EXCEPT ![h] = None] /\ seen' = [seen EXCEPT ![h] = None]

Answered(h) ==
  /\ Release(h)
  /\ \/ events' = events \ {busy[h]} /\ UNCHANGED faults
     \/ Fault /\ UNCHANGED events

Rows == {s \in Sub : row[s] # None}

NextRow == IF Rows = {} THEN 1 ELSE 1 + Max({row[s].at : s \in Rows})

\* checkout.session.completed: insert under the owner of the metadata, or
\* refresh all but the owner.
Insert(h) ==
  LET e == busy[h] IN
  /\ e # None /\ e.type = "completed" /\ seen[h] # None
  /\ alive[session[e.sub].owner]
  /\ row' = [row EXCEPT ![e.sub] =
       IF @ = None
         THEN [owner |-> session[e.sub].owner, customer |-> session[e.sub].customer,
               status |-> seen[h], at |-> NextRow]
         ELSE [@ EXCEPT !.customer = session[e.sub].customer, !.status = seen[h]]]
  /\ Answered(h)
  /\ UNCHANGED <<hooks, stripe, shop, made, owed, missed, wronged>>

\* The owner is gone: the foreign key throws, a 500, and Stripe tries again.
InsertRefused(h) ==
  /\ busy[h] # None /\ busy[h].type = "completed" /\ seen[h] # None
  /\ ~alive[session[busy[h].sub].owner]
  /\ Release(h)
  /\ UNCHANGED <<hooks, stripe, shop, row, events, made, history>>

\* invoice.payment_failed writes what it retrieved, updated and deleted what
\* the event says; without a row nothing happens.
Update(h) ==
  LET e == busy[h]
      status == IF e.type = "invoice" THEN seen[h] ELSE e.status IN
  /\ e # None /\ e.type # "completed" /\ (Retrieves(e) => seen[h] # None)
  /\ row' = IF row[e.sub] = None THEN row ELSE [row EXCEPT ![e.sub].status = status]
  /\ Answered(h)
  /\ UNCHANGED <<hooks, stripe, shop, made, owed, missed, wronged>>

\* A retrieve or a write fails, or the process dies.
HandlerFails(h) ==
  /\ busy[h] # None /\ Fault /\ Release(h)
  /\ UNCHANGED <<hooks, stripe, shop, row, events, made, owed, missed, wronged>>

-----------------------------------------------------------------------------
\* deleteUser.beforeDelete, beforeDeleteOrganization; a failed read is
\* swallowed, and an owner with nothing to cancel leaves the map alone.
Capture(o) ==
  LET ids == {s \in RowsOf(o) : row[s].status \notin Terminal} IN
  /\ alive[o] /\ deletion[o] = "no"
  /\ deletion' = [deletion EXCEPT ![o] = "captured"]
  /\ owed' = [owed EXCEPT ![o] = ids]
  /\ \/ /\ pending' = [pending EXCEPT ![o] = IF ids = {} THEN @ ELSE ids]
        /\ UNCHANGED <<missed, faults>>
     \/ Fault /\ missed' = missed \cup {o} /\ UNCHANGED pending
  /\ UNCHANGED <<alive, toCancel, stripe, shop, row, events, made, hook, wronged>>

\* Variation: the job is enqueued by the before-hook.
DeleteFailsAfterEnqueue(o) ==
  /\ deletion[o] = "captured" /\ Fault
  /\ deletion' = [deletion EXCEPT ![o] = "no"]
  /\ toCancel' = toCancel \cup pending[o]
  /\ UNCHANGED <<alive, pending, stripe, shop, row, events, made, hook, owed, missed, wronged>>

\* The deletion fails between the hooks: the captured ids stay in the map.
DeleteFails(o) ==
  /\ deletion[o] = "captured" /\ Fault
  /\ deletion' = [deletion EXCEPT ![o] = "no"]
  /\ UNCHANGED <<alive, pending, toCancel, stripe, shop, row, events, made, hook,
                 owed, missed, wronged>>

\* The row goes and its subscription rows cascade.
Delete(o) ==
  /\ deletion[o] = "captured"
  /\ deletion' = [deletion EXCEPT ![o] = "gone"]
  /\ alive' = [alive EXCEPT ![o] = FALSE]
  /\ row' = [s \in Sub |-> IF s \in RowsOf(o) THEN None ELSE row[s]]
  /\ UNCHANGED <<pending, toCancel, stripe, shop, events, made, hook, history>>

\* afterDelete, afterDeleteOrganization; enqueue may fail and says nothing.
HandOver(o) ==
  /\ deletion[o] = "gone"
  /\ deletion' = [deletion EXCEPT ![o] = "over"]
  /\ pending' = [pending EXCEPT ![o] = {}]
  /\ \/ toCancel' = toCancel \cup pending[o] /\ UNCHANGED <<missed, faults>>
     \/ Fault /\ missed' = missed \cup {o} /\ UNCHANGED toCancel
  /\ UNCHANGED <<alive, stripe, shop, row, events, made, hook, owed, wronged>>

\* handleCancelStripeSubscriptions, one id; one already canceled is skipped.
Cancel(s) ==
  /\ s \in toCancel
  /\ toCancel' = toCancel \ {s}
  /\ wronged' = IF alive[session[s].owner] THEN wronged \cup {s} ELSE wronged
  /\ IF stripe[s] \in Terminal
       THEN UNCHANGED <<stripe, events, made>>
       ELSE stripe' = [stripe EXCEPT ![s] = "canceled"] /\ Emit({"deleted"}, s, "canceled")
  /\ UNCHANGED <<alive, pending, deletion, shop, row, hook, owed, missed, faults>>

Webhook(h) ==
  \/ \E e \in events : Receive(h, e)
  \/ Retrieve(h) \/ Insert(h) \/ InsertRefused(h) \/ Update(h) \/ HandlerFails(h)

Deletion(o) == Capture(o) \/ DeleteFails(o) \/ Delete(o) \/ HandOver(o)

Next ==
  \/ \E o \in Owner : Deletion(o) \/ \E s \in Sub : Checkout(o, s)
  \/ \E s \in Sub : Pay(s) \/ Cancel(s) \/ \E status \in Status : Move(s, status)
  \/ \E h \in Handler : Webhook(h)

Spec == Init /\ [][Next]_vars

-----------------------------------------------------------------------------
TypeOK ==
  /\ alive \in [Owner -> BOOLEAN] /\ stripe \in [Sub -> Status \cup {"none"}]
  /\ \A s \in Sub : row[s] # None =>
       row[s].owner \in Owner /\ row[s].status \in Status /\ row[s].at \in 1 .. Cardinality(Sub)
  /\ pending \in [Owner -> SUBSET Sub] /\ toCancel \subseteq Sub
  /\ deletion \in [Owner -> {"no", "captured", "gone", "over"}]
  /\ \A e \in events : e.n \in 1 .. made

Quiet == events = {} /\ \A h \in Handler : busy[h] = None

\* With events delivered in order, retried and repeated as they may be, the
\* table ends up saying what Stripe says, and every subscription that was
\* paid for by an owner that still exists is in it.
SettlesOnTruth ==
  inOrder /\ Quiet => \A s \in Sub :
    stripe[s] # "none" /\ alive[session[s].owner] =>
      row[s] # None /\ row[s].status = stripe[s]

\* Nobody is let in on a subscription that is not running: with events in order
\* and nothing under way, who is entitled has an active subscription at Stripe.
EntitledPay ==
  inOrder /\ Quiet => \A o \in Owner :
    Entitled(o) => \E s \in Sub : stripe[s] = "active" /\ session[s].owner = o

\* A row belongs to whoever the checkout was for, to nobody who is gone, and
\* no event moves it between a member and an organization.
RowsHaveTheirOwner ==
  \A s \in Sub : row[s] # None => row[s].owner = session[s].owner /\ alive[row[s].owner]

\* Once an owner is deleted and the jobs are done, what its rows said was
\* running when the deletion began is canceled, unless a hook failed.
OwedIsCancelled ==
  \A o \in Owner : deletion[o] = "over" /\ o \notin missed /\ toCancel = {} =>
    \A s \in owed[o] : stripe[s] \in Terminal

\* A job never cancels what an existing owner pays for: not after a deletion
\* that failed between its hooks, and not an organization's subscription
\* because the member who bought it left.
LiveOwnersAreSpared == wronged = {}

\* One owner never has two Stripe customers (billing.ts: "reusing ANY recorded
\* customer id prevents duplicate Stripe customers").
OneCustomerPerOwner ==
  \A s, t \in Sub : session[s] # None /\ session[t] # None
                    /\ session[s].owner = session[t].owner
                      => session[s].customer = session[t].customer
-----------------------------------------------------------------------------
(* What holds of any number of owners, subscriptions, handlers and events.   *)

EventType == {"completed", "invoice", "updated", "deleted"}
Event == [n : Nat, type : EventType, sub : Sub, status : Status]
Session == [owner : Owner, customer : Nat]
SubRow == [owner : Owner, customer : Nat, status : Status, at : Nat]

\* What the theorems ask of the constants.
Bounds ==
  /\ IsFiniteSet(Sub) /\ MaxEvents \in Nat
  /\ None \notin Event /\ None \notin Session /\ None \notin SubRow /\ None \notin Status

RecordsAreTyped ==
  /\ alive \in [Owner -> BOOLEAN] /\ stripe \in [Sub -> Status \cup {"none"}]
  /\ pending \in [Owner -> SUBSET Sub] /\ toCancel \subseteq Sub
  /\ deletion \in [Owner -> {"no", "captured", "gone", "over"}]
  /\ session \in [Sub -> Session \cup {None}] /\ customers \in Nat
  /\ row \in [Sub -> SubRow \cup {None}]
  /\ events \subseteq Event /\ made \in Nat /\ inOrder \in BOOLEAN
  /\ busy \in [Handler -> Event \cup {None}] /\ seen \in [Handler -> Status \cup {None}]
  /\ owed \in [Owner -> SUBSET Sub]

\* Only what was paid for has events and a row, and it was paid for in a session.
PaidFor ==
  /\ \A s \in Sub : stripe[s] # "none" => session[s] # None
  /\ \A s \in Sub : row[s] # None => stripe[s] # "none"
  /\ \A e \in events : stripe[e.sub] # "none"
  /\ \A g \in Handler : busy[g] # None => stripe[busy[g].sub] # "none"

\* A subscription never has a second row: a row goes with its owner only.
HadARow == {s \in Sub : \/ row[s] # None
                        \/ session[s] # None /\ ~alive[session[s].owner]}
RowsAreCounted == \A s \in Sub : row[s] # None => row[s].at \in 1 .. Cardinality(HadARow)

EventsAreNumbered ==
  \A e, f \in events : e.n \in 1 .. made /\ (e.n = f.n => e = f)

\* What a handler has retrieved is for the event in its hand.
SeenInHand == \A g \in Handler : busy[g] = None => seen[g] = None

\* In order, one handler at most is at work, on the oldest event.
OneAtATime ==
  inOrder => \A g \in Handler : busy[g] # None =>
    /\ busy[g] \in events /\ Oldest(busy[g])
    /\ \A k \in Handler : busy[k] # None => k = g

\* The last event of a subscription, and what its handler has retrieved, say what
\* Stripe says; when there is none left the row does.
LastOf(s, e) == e \in events /\ e.sub = s /\ \A f \in events : f.sub = s => f.n <= e.n
TruthIsOnTheWay ==
  inOrder => \A s \in Sub : stripe[s] # "none" /\ alive[session[s].owner] =>
    /\ row[s] # None \/ \E e \in events : e.sub = s /\ e.type = "completed"
    /\ \/ \E e \in events : e.sub = s
       \/ row[s] # None /\ row[s].status = stripe[s]
    /\ \A e \in events : LastOf(s, e) =>
         /\ Retrieves(e) \/ e.status = stripe[s]
         /\ \A g \in Handler : busy[g] = e /\ seen[g] # None => seen[g] = stripe[s]

\* What a deletion captured is the owner's, and goes from the map to a job.
OwedIsHandedOver ==
  \A o \in Owner :
    /\ deletion[o] \in {"gone", "over"} <=> ~alive[o]
    /\ \A s \in pending[o] : session[s] # None /\ session[s].owner = o
    /\ deletion[o] \in {"captured", "gone"} /\ o \notin missed => owed[o] \subseteq pending[o]
    /\ deletion[o] = "over" /\ o \notin missed =>
         \A s \in owed[o] : s \in toCancel \/ stripe[s] = "canceled"

JobsAreForTheGone ==
  \A s \in toCancel : session[s] # None /\ ~alive[session[s].owner]

BillingInv ==
  /\ RecordsAreTyped /\ PaidFor /\ RowsHaveTheirOwner /\ RowsAreCounted
  /\ EventsAreNumbered /\ OneAtATime /\ SeenInHand /\ TruthIsOnTheWay
  /\ OwedIsHandedOver /\ JobsAreForTheGone /\ LiveOwnersAreSpared
=============================================================================

------------------------------ MODULE RateLimit ------------------------------
(***************************************************************************)
(* The in-memory fixed-window limiter of apps/web/src/lib/rate-limit.ts in *)
(* one process: a bucket per key, opened by the first request after the    *)
(* last one ran out, and a pruning pass over the expired ones at most once *)
(* a minute.  Upstash, the distributed store, is external; the code lets   *)
(* requests through when it does not answer, which is not counted here.    *)
(***************************************************************************)
EXTENDS Integers

CONSTANTS
  Key,          \* rate-limited identifiers
  Limit,        \* options.limit
  Window,       \* options.windowSec, in ticks
  PruneEvery,   \* the pruning interval
  MaxNow,       \* bound: the last instant
  MaxAsks       \* bound: requests at one instant

VARIABLES
  now,          \* Date.now()
  store,        \* memoryStore: Key -> [count, reset]; count 0 is "no bucket"
  lastPrune,
  asks,         \* requests at this instant
  granted,      \* history: granted[k][t], requests let through up to t
  refused       \* history: keys refused at this instant

vars == <<now, store, lastPrune, asks, granted, refused>>

NoBucket == [count |-> 0, reset |-> 0]
Has(k) == store[k] # NoBucket

Init ==
  /\ now = 0 /\ lastPrune = 0 - PruneEvery /\ asks = 0
  /\ store = [k \in Key |-> NoBucket]
  /\ granted = [k \in Key |-> [t \in 0 .. MaxNow |-> 0]]
  /\ refused = {}

Tick ==
  /\ now < MaxNow /\ now' = now + 1 /\ asks' = 0 /\ refused' = {}
  /\ UNCHANGED <<store, lastPrune, granted>>

\* pruneExpired
Pruned(s) ==
  IF now - lastPrune < PruneEvery THEN s
  ELSE [j \in Key |-> IF now >= s[j].reset THEN NoBucket ELSE s[j]]

Grant(k) ==
  granted' = [granted EXCEPT ![k] = [t \in 0 .. MaxNow |-> IF t < now THEN @[t] ELSE @[t] + 1]]

\* A first request, or the first one after the bucket ran out.
Open(k) ==
  /\ ~Has(k) \/ now >= store[k].reset
  /\ store' = Pruned([store EXCEPT ![k] = [count |-> 1, reset |-> now + Window]])
  /\ lastPrune' = IF now - lastPrune < PruneEvery THEN lastPrune ELSE now
  /\ Grant(k)
  /\ UNCHANGED refused

Count(k) ==
  /\ Has(k) /\ now < store[k].reset
  /\ store' = [store EXCEPT ![k].count = @ + 1]
  /\ IF store'[k].count <= Limit
       THEN Grant(k) /\ UNCHANGED refused
       ELSE refused' = refused \cup {k} /\ UNCHANGED granted
  /\ UNCHANGED lastPrune

Ask(k) ==
  /\ asks < MaxAsks /\ asks' = asks + 1
  /\ Open(k) \/ Count(k)
  /\ UNCHANGED now

Next == Tick \/ \E k \in Key : Ask(k)

Spec == Init /\ [][Next]_vars

GrantedUntil(k, t) == IF t < 0 THEN 0 ELSE granted[k][t]
\* At the instants after the first and up to the last.
GrantedIn(k, first, last) == GrantedUntil(k, last) - GrantedUntil(k, first)

TypeOK ==
  /\ now \in 0 .. MaxNow /\ lastPrune <= now /\ asks \in 0 .. MaxAsks
  /\ \A k \in Key : store[k].count \in Nat /\ store[k].reset \in 0 .. (MaxNow + Window)

\* A fixed window lets through twice the limit around its boundary and never
\* more, in any stretch of a window's length, pruning included.
TwiceTheLimit ==
  \A k \in Key : \A t \in 0 .. now : GrantedIn(k, t - Window, t) <= 2 * Limit

\* A request is refused only if the limit was used up within the last window:
\* being refused does not prolong the wait, and keys do not share a bucket.
RefusalIsEarned ==
  \A k \in refused : GrantedIn(k, now - Window, now) >= Limit
-----------------------------------------------------------------------------
(* What holds of any limit, window and number of keys.                       *)

\* What the theorems ask of the constants: a limit and a window of none would
\* still let the first request through.
Bounds ==
  /\ Limit \in Nat \ {0} /\ Window \in Nat \ {0}
  /\ PruneEvery \in Nat /\ MaxNow \in Nat /\ MaxAsks \in Nat

StoreIsTyped ==
  /\ store \in [Key -> [count : Nat, reset : 0 .. MaxNow + Window]]
  /\ granted \in [Key -> [0 .. MaxNow -> Nat]]
  /\ lastPrune \in Int /\ refused \subseteq Key

\* What was let through only grows with time, and nothing is yet after now.
GrantsAccumulate ==
  \A k \in Key :
    /\ \A s, t \in 0 .. MaxNow : s <= t => granted[k][s] <= granted[k][t]
    /\ \A t \in now .. MaxNow : granted[k][t] = granted[k][now]

Running(k) == Has(k) /\ now < store[k].reset

\* A running bucket has counted what it let through since it was opened, and the
\* window before it let through the limit at most; with no bucket running, so
\* did the window that ends now, and nothing has been let through at this
\* instant.  Only a bucket that is full refuses.
BucketCounts(k) ==
  /\ Running(k) =>
       LET opened == store[k].reset - Window IN
       /\ opened \in 0 .. now
       /\ GrantedIn(k, opened - 1, now) =
            IF store[k].count <= Limit THEN store[k].count ELSE Limit
       /\ GrantedIn(k, opened - Window, opened - 1) <= Limit
  /\ ~Running(k) =>
       GrantedIn(k, now - Window, now) <= Limit /\ GrantedIn(k, now - 1, now) = 0
  /\ k \in refused => Running(k) /\ store[k].count > Limit

BucketsCount == \A k \in Key : BucketCounts(k)

LimitInv == TypeOK /\ StoreIsTyped /\ GrantsAccumulate /\ BucketsCount /\ TwiceTheLimit
=============================================================================

----------------------------- MODULE PostCache -----------------------------
(***************************************************************************)
(* The post list in a browser (components/posts): the cached rows, the     *)
(* optimistic change each mutation makes to them and the snapshot it rolls *)
(* back to, and the refetch that follows every outcome.  Mutations of      *)
(* different rows run side by side.                                        *)
(***************************************************************************)
EXTENDS Integers, FiniteSets

CONSTANTS
  Post, Mutation,
  Draft,         \* the temporary row of a post being created
  None,          \* no row, no fetch, no snapshot
  MaxVersion     \* bound: versions of a post

VARIABLES
  rows,          \* at the server: Post -> version, 0 when there is none
  cache,         \* in the list: Post and Draft -> version, 0 when not shown
  fetch,         \* the list on its way: None or the rows the server read
  muts,          \* Mutation -> what it does and how far it is
  form           \* the create form: "idle", "error" or "success"

vars == <<rows, cache, fetch, muts, form>>

Shown == Post \cup {Draft}
Idle == [at |-> "idle"]
Listed == [p \in Shown |-> IF p \in Post THEN rows[p] ELSE 0]

Init ==
  /\ \E live \in SUBSET Post : rows = [p \in Post |-> IF p \in live THEN 1 ELSE 0]
  /\ cache = Listed /\ fetch = None
  /\ muts = [m \in Mutation |-> Idle] /\ form = "idle"

Set(m, what) == muts' = [muts EXCEPT ![m] = what]
Pending(op, p) == \E m \in Mutation : muts[m].at # "idle" /\ muts[m].op = op /\ muts[m].post = p

\* onMutate: cancel the list in flight, keep the cache, change it.
Optimistic(m, op, p, changed) ==
  /\ fetch' = None
  /\ Set(m, [at |-> "sent", op |-> op, post |-> p, previous |-> cache])
  /\ cache' = changed

\* createMutation with a signed-in user; the button waits for the answer.
Create(m, p) ==
  /\ muts[m] = Idle /\ rows[p] = 0 /\ ~\E q \in Post : Pending("create", q)
  /\ ~Pending("edit", p) /\ ~Pending("delete", p)
  /\ Optimistic(m, "create", p, [cache EXCEPT ![Draft] = 1])
  /\ form' = "idle"
  /\ UNCHANGED rows

\* editMutation and deleteMutation, from a row on screen.
Edit(m, p) ==
  /\ muts[m] = Idle /\ cache[p] > 0 /\ cache[p] < MaxVersion /\ ~Pending("edit", p)
  /\ Optimistic(m, "edit", p, [cache EXCEPT ![p] = @ + 1])
  /\ UNCHANGED <<rows, form>>

Remove(m, p) ==
  /\ muts[m] = Idle /\ cache[p] > 0 /\ ~Pending("delete", p)
  /\ Optimistic(m, "delete", p, [cache EXCEPT ![p] = 0])
  /\ UNCHANGED <<rows, form>>

\* The server action commits, or answers with an error (a failed check, a
\* limit, a row that is gone).
Commits(m) ==
  /\ muts[m].at = "sent"
  /\ LET p == muts[m].post IN
       \/ muts[m].op = "create" /\ rows[p] = 0 /\ rows' = [rows EXCEPT ![p] = 1]
       \/ muts[m].op = "edit" /\ rows[p] \in 1 .. MaxVersion - 1 /\ rows' = [rows EXCEPT ![p] = @ + 1]
       \/ muts[m].op = "delete" /\ rows[p] > 0 /\ rows' = [rows EXCEPT ![p] = 0]
  /\ Set(m, [muts[m] EXCEPT !.at = "ok"])
  /\ UNCHANGED <<cache, fetch, form>>

Refuses(m) ==
  /\ muts[m].at = "sent" /\ Set(m, [muts[m] EXCEPT !.at = "error"])
  /\ UNCHANGED <<rows, cache, fetch, form>>

\* onSuccess and onSettled: the list is fetched again.
Succeeds(m) ==
  /\ muts[m].at = "ok"
  /\ form' = IF muts[m].op = "create" THEN "success" ELSE form
  /\ fetch' = Listed
  /\ Set(m, Idle)
  /\ UNCHANGED <<rows, cache>>

\* onError and onSettled: the snapshot, with whatever it holds of the others,
\* then the list is fetched again.  A field error goes to its field instead.
Fails(m) ==
  /\ muts[m].at = "error" /\ cache' = muts[m].previous
  /\ form' \in IF muts[m].op = "create" THEN {"error", "idle"} ELSE {form}
  /\ fetch' = Listed
  /\ Set(m, Idle)
  /\ UNCHANGED rows

Arrives ==
  /\ fetch # None /\ cache' = fetch /\ fetch' = None
  /\ UNCHANGED <<rows, muts, form>>

Next ==
  \/ \E m \in Mutation :
       \/ \E p \in Post : Create(m, p) \/ Edit(m, p) \/ Remove(m, p)
       \/ Commits(m) \/ Refuses(m) \/ Succeeds(m) \/ Fails(m)
  \/ Arrives

Spec == Init /\ [][Next]_vars

-----------------------------------------------------------------------------
TypeOK ==
  /\ rows \in [Post -> 0 .. MaxVersion] /\ cache \in [Shown -> 0 .. MaxVersion]
  /\ fetch \in [Shown -> 0 .. MaxVersion] \cup {None}
  /\ \A m \in Mutation : muts[m].at \in {"idle", "sent", "ok", "error"}
  /\ form \in {"idle", "error", "success"}

\* When every mutation has settled and no list is on its way, the list shows
\* what the server holds: a rollback to a snapshot taken before another
\* mutation finished never stays on screen, and no draft row either.
SettledListIsTrue ==
  (\A m \in Mutation : muts[m] = Idle) /\ fetch = None => cache = Listed
-----------------------------------------------------------------------------
(* What holds of any number of posts and mutations.                          *)

\* What the theorems ask of the constants.
List == [Shown -> 0 .. MaxVersion]
Bounds == MaxVersion \in Nat \ {0} /\ None \notin List

\* A mutation in flight keeps the list it would roll back to.
MutationsAreTyped ==
  muts \in [Mutation ->
    {Idle} \cup [at : {"sent", "ok", "error"}, op : {"create", "edit", "delete"},
                 post : Post, previous : List]]

\* A list on its way is what the server holds, or a mutation has committed since
\* whose answer will ask for it again.
FetchIsFresh == fetch # None => fetch = Listed \/ \E m \in Mutation : muts[m].at = "ok"

CacheInv == TypeOK /\ MutationsAreTyped /\ FetchIsFresh /\ SettledListIsTrue
=============================================================================

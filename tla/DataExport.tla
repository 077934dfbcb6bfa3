----------------------------- MODULE DataExport -----------------------------
(***************************************************************************)
(* "Download my data": exportMyData (server/actions/data-export.ts) reads  *)
(* what an account owns in a dozen statements at once and outside any      *)
(* transaction, while the account is used from elsewhere; buildDataExport  *)
(* (lib/data-export.ts) joins and redacts.  "sessions" stands for the eight*)
(* tables read and kept alike, "notifications" for those nothing reads     *)
(* (calendars, reminders and preferences too).                             *)
(***************************************************************************)
EXTENDS Naturals, FiniteSets

CONSTANTS
  Row,          \* rows of "sessions" and of "notifications"
  Post, Org,
  None,
  MaxExports    \* bound: downloads

VARIABLES
  account,      \* "live" or "deleted"
  rows,         \* Table -> the rows of this account
  orgs,         \* organizations that exist
  busy,         \* None or what the request has read: Table -> None or rows
  named,        \* None or the organizations it has read
  file,         \* None or the file handed over: Table -> lines
  exports,
  stayed,       \* history: Table -> rows there since the request began
  seen,         \* history: Table -> rows there at some time since then
  wiped         \* history: the account was deleted before the request read it

vars == <<account, rows, orgs, busy, named, file, exports, stayed, seen, wiped>>

\* What Promise.all starts; "user" is the profile itself.
Read  == {"user", "sessions", "posts", "revisions", "member"}
Table == Read \cup {"notifications"}

Init ==
  /\ account = "live" /\ orgs = Org
  /\ rows = [t \in Table |-> IF t = "user" THEN {"me"} ELSE IF t = "member" THEN Org ELSE {}]
  /\ busy = None /\ named = None /\ file = None /\ exports = 0
  /\ stayed = rows /\ seen = rows /\ wiped = FALSE

\* What is there now has been seen, what is not there has not stayed.
Becomes(new) ==
  /\ rows' = new
  /\ stayed' = [t \in Table |-> stayed[t] \cap new[t]]
  /\ seen' = [t \in Table |-> seen[t] \cup new[t]]

-----------------------------------------------------------------------------
(* The account, used from another tab.                                     *)

Add(t, r) ==
  /\ account = "live" /\ r \notin rows[t]
  /\ Becomes([rows EXCEPT ![t] = @ \cup {r}])
  /\ UNCHANGED <<account, orgs, busy, named, file, exports, wiped>>

Drop(t, r) ==
  /\ r \in rows[t] /\ Becomes([rows EXCEPT ![t] = @ \ {r}])
  /\ UNCHANGED <<account, orgs, busy, named, file, exports, wiped>>

\* createPost: the post and its first revision in one transaction.
CreatePost(p) ==
  /\ account = "live" /\ p \notin rows["posts"]
  /\ Becomes([rows EXCEPT !["posts"] = @ \cup {p}, !["revisions"] = @ \cup {p}])
  /\ UNCHANGED <<account, orgs, busy, named, file, exports, wiped>>

\* The revisions go with their post.
DeletePost(p) ==
  /\ p \in rows["posts"]
  /\ Becomes([rows EXCEPT !["posts"] = @ \ {p}, !["revisions"] = @ \ {p}])
  /\ UNCHANGED <<account, orgs, busy, named, file, exports, wiped>>

\* member.organization_id ON DELETE CASCADE
DeleteOrg(o) ==
  /\ o \in orgs /\ orgs' = orgs \ {o}
  /\ Becomes([rows EXCEPT !["member"] = @ \ {o}])
  /\ UNCHANGED <<account, busy, named, file, exports, wiped>>

DeleteAccount ==
  /\ account = "live" /\ account' = "deleted"
  /\ Becomes([t \in Table |-> {}])
  /\ wiped' = (busy # None /\ busy["user"] = None)
  /\ UNCHANGED <<orgs, busy, named, file, exports>>

-----------------------------------------------------------------------------
(* The request.                                                            *)

\* The button is disabled while a request is on; the session is good.
Begin ==
  /\ busy = None /\ account = "live" /\ exports < MaxExports
  /\ busy' = [t \in Read |-> None] /\ named' = None /\ file' = None
  /\ exports' = exports + 1
  /\ stayed' = rows /\ seen' = rows /\ wiped' = FALSE
  /\ UNCHANGED <<account, rows, orgs>>

\* One statement of Promise.all, each on its own.
ReadTable(t) ==
  /\ busy # None /\ busy[t] = None
  /\ busy' = [busy EXCEPT ![t] = rows[t]]
  /\ UNCHANGED <<account, rows, orgs, named, file, exports, stayed, seen, wiped>>

AllRead == busy # None /\ \A t \in Read : busy[t] # None

\* No user row: deleted while the request ran.
Refuse == AllRead /\ busy["user"] = {}

\* The organizations are asked for after the memberships.
ReadOrgs ==
  /\ AllRead /\ ~Refuse /\ named = None
  /\ named' = busy["member"] \cap orgs
  /\ UNCHANGED <<account, rows, orgs, busy, file, exports, stayed, seen, wiped>>

\* buildDataExport: an organization deleted in between leaves its membership
\* without a name.  The columns kept are a fixed list, and left out.
Shaped(t, r) ==
  [row |-> r, name |-> IF t = "member" /\ r \in named THEN r ELSE None]

LinesOf(t) == {Shaped(t, r) : r \in busy[t]}

Finish ==
  /\ AllRead /\ (Refuse \/ named # None)
  /\ file' = IF Refuse THEN None ELSE [t \in Read |-> LinesOf(t)]
  /\ busy' = None /\ named' = None
  /\ UNCHANGED <<account, rows, orgs, exports, stayed, seen, wiped>>

Next ==
  \/ \E r \in Row, t \in {"sessions", "notifications"} : Add(t, r) \/ Drop(t, r)
  \/ \E p \in Post : CreatePost(p) \/ DeletePost(p)
  \/ \E o \in Org : DeleteOrg(o) \/ Drop("member", o)
  \/ \E o \in orgs : Add("member", o)
  \/ DeleteAccount
  \/ Begin \/ ReadOrgs \/ Finish
  \/ \E t \in Read : ReadTable(t)

Spec == Init /\ [][Next]_vars

-----------------------------------------------------------------------------
Done == file # None

TypeOK ==
  /\ account \in {"live", "deleted"} /\ orgs \subseteq Org
  /\ Done => DOMAIN file = Read

\* The tables are read at different instants, and still the file holds every
\* row that was the account's all through the request, with the name of every
\* organization that lasted, and none that was not the account's at some time.
UntouchedIsExported ==
  Done => \A t \in Read :
    LET lines == {l.row : l \in file[t]} IN
      /\ stayed[t] \subseteq lines /\ lines \subseteq seen[t]
      /\ t = "member" => \A o \in stayed[t] : \E l \in file[t] : l.row = o /\ l.name = o

\* "don't leak an empty-profile bundle": no file for an account that was gone
\* before its row was read, whatever the other statements had read by then.
NothingLeaks == Done => ~wiped /\ file["user"] # {}

\* What the action's comment says: "Gathers every row the caller owns across
\* the schema".  VIOLATED: five tables of the account are not read at all.
EveryRowIsExported ==
  Done => \A t \in Table : stayed[t] # {} => t \in DOMAIN file
-----------------------------------------------------------------------------
\* Why the export is right: what every step keeps.
FromTable(f) == f = [t \in Table |-> f[t]]

\* What stayed is there, and what is there has been seen; a membership names an
\* organization that exists.
HistoryIsRight ==
  /\ FromTable(rows) /\ FromTable(stayed) /\ FromTable(seen)
  /\ \A t \in Table : stayed[t] \subseteq rows[t] /\ rows[t] \subseteq seen[t]
  /\ rows["member"] \subseteq orgs
  /\ account = "deleted" => \A t \in Table : rows[t] = {}

\* What a request has read lies between what stayed and what was seen since it began.
ReadInTime ==
  busy # None =>
    /\ busy = [t \in Read |-> busy[t]] /\ file = None
    /\ \A t \in Read : busy[t] # None => stayed[t] \subseteq busy[t] /\ busy[t] \subseteq seen[t]
    /\ named # None => stayed["member"] \subseteq named

\* A request that found the account gone finds no user.
WipedIsEmpty ==
  wiped => /\ account = "deleted" /\ file = None
           /\ busy # None /\ busy["user"] # None => busy["user"] = {}

ExportInv ==
  /\ TypeOK /\ HistoryIsRight /\ ReadInTime /\ WipedIsEmpty
  /\ UntouchedIsExported /\ NothingLeaks
=============================================================================

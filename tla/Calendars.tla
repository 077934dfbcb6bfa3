----------------------------- MODULE Calendars -----------------------------
(***************************************************************************)
(* The calendars of one user: created, renamed, promoted to primary and    *)
(* deleted (server/actions/calendar.ts), in a personal workspace or an     *)
(* organization's (schema/calendars.ts).  Promotion demotes the workspace's*)
(* other primary in the same transaction; transactions of two saves        *)
(* interleave at READ COMMITTED, under row locks and a partial unique      *)
(* index.                                                                  *)
(***************************************************************************)
EXTENDS Naturals, FiniteSets

CONSTANTS Calendar, Org, Save,
          None     \* the personal workspace; no calendar

VARIABLES
  cal,        \* Calendar -> None or [org, primary], committed
  saves,      \* Save -> a transaction under way
  orgs,       \* organizations that exist
  cleared,    \* history: workspaces whose primary its user gave up
  refusedOrg  \* history: an organization could not be deleted

vars == <<cal, saves, orgs, cleared, refusedOrg>>

Workspace == Org \cup {None}
Idle == [at |-> "idle"]
Live == {c \in Calendar : cal[c] # None}
PrimaryOf(ws) == {c \in Live : cal[c].org = ws /\ cal[c].primary}

Init ==
  /\ cal = [c \in Calendar |-> None] /\ saves = [s \in Save |-> Idle]
  /\ orgs = Org /\ cleared = Workspace /\ refusedOrg = FALSE

\* Rows a transaction under way has written and so holds locked.
Locked(c) == \E s \in Save : saves[s].at = "demoted" /\ c \in saves[s].demoted

-----------------------------------------------------------------------------
\* createCalendar and updateCalendar up to the write: a session, a valid form,
\* and for an update the owner's role on a calendar that is there.
BeginCreate(s, c, ws, primary) ==
  /\ saves[s] = Idle /\ cal[c] = None /\ ws \in orgs \cup {None}
  /\ ~\E t \in Save : saves[t].at # "idle" /\ saves[t].cal = c
  /\ saves' = [saves EXCEPT ![s] =
       [at |-> "begun", op |-> "create", cal |-> c, org |-> ws, primary |-> primary]]
  /\ UNCHANGED <<cal, orgs, cleared, refusedOrg>>

BeginUpdate(s, c, primary) ==
  /\ saves[s] = Idle /\ c \in Live
  /\ saves' = [saves EXCEPT ![s] =
       [at |-> "begun", op |-> "update", cal |-> c, org |-> cal[c].org, primary |-> primary]]
  /\ UNCHANGED <<cal, orgs, cleared, refusedOrg>>

\* The other primary of the workspace, demoted in this transaction only: the
\* statement waits for the row's lock and looks at the row again.
Demote(s) ==
  /\ saves[s].at = "begun"
  /\ LET others == IF saves[s].primary THEN PrimaryOf(saves[s].org) \ {saves[s].cal} ELSE {}
     IN /\ ~\E c \in others : Locked(c)
        /\ saves' = [saves EXCEPT ![s] = [at |-> "demoted", op |-> @.op, cal |-> @.cal,
             org |-> @.org, primary |-> @.primary, demoted |-> others]]
  /\ UNCHANGED <<cal, orgs, cleared, refusedOrg>>

\* The workspace the row is in when it is written: an update leaves it alone.
Home(s) == IF saves[s].op = "update" /\ saves[s].cal \in Live
           THEN cal[saves[s].cal].org ELSE saves[s].org

\* What the index would hold if this transaction committed now.
Clash(s) == saves[s].primary /\
            PrimaryOf(Home(s)) \ (saves[s].demoted \cup {saves[s].cal}) # {}

Written(s) ==
  [c \in Calendar |->
     IF c = saves[s].cal THEN [org |-> Home(s), primary |-> saves[s].primary]
     ELSE IF c \in saves[s].demoted /\ c \in Live THEN [cal[c] EXCEPT !.primary = FALSE]
     ELSE cal[c]]

\* The row is inserted or updated and the transaction commits.  The org a new
\* calendar names must still be there, and so must the row of an update.
Commit(s) ==
  /\ saves[s].at = "demoted" /\ ~Clash(s) /\ ~Locked(saves[s].cal)
  /\ saves[s].op = "create" => saves[s].org \in orgs \cup {None}
  /\ saves[s].op = "update" => saves[s].cal \in Live
  /\ cal' = Written(s)
  /\ cleared' = IF saves[s].primary THEN cleared \ {Home(s)}
                ELSE IF saves[s].cal \in PrimaryOf(Home(s)) THEN cleared \cup {Home(s)}
                ELSE cleared
  /\ saves' = [saves EXCEPT ![s] = Idle]
  /\ UNCHANGED <<orgs, refusedOrg>>

\* A unique violation, a vanished row or organization, any error: all of the
\* transaction is undone and the form is told.
Refuse(s) ==
  /\ saves[s].at = "demoted"
  /\ saves' = [saves EXCEPT ![s] = Idle]
  /\ UNCHANGED <<cal, orgs, cleared, refusedOrg>>

\* deleteCalendar: its row and, by cascade, its events.
Delete(c) ==
  /\ c \in Live /\ ~Locked(c)
  /\ cal' = [cal EXCEPT ![c] = None]
  /\ cleared' = IF cal[c].primary THEN cleared \cup {cal[c].org} ELSE cleared
  /\ UNCHANGED <<saves, orgs, refusedOrg>>

Orphans(o) == {c \in Live : cal[c].org = o}

\* An organization is deleted: SET NULL moves its calendars to the personal
\* workspace as they are.  Two primaries there are refused by the index, and
\* the deletion of the organization with them.
DeleteOrg(o) ==
  /\ o \in orgs /\ ~\E c \in Orphans(o) : Locked(c)
  /\ IF PrimaryOf(o) # {} /\ PrimaryOf(None) # {}
     THEN refusedOrg' = TRUE /\ UNCHANGED <<cal, orgs, cleared>>
     ELSE /\ orgs' = orgs \ {o}
          /\ cal' = [c \in Calendar |-> IF c \in Orphans(o) THEN [cal[c] EXCEPT !.org = None]
                                        ELSE cal[c]]
          /\ cleared' = (cleared \cup {o}) \ (IF PrimaryOf(o) # {} THEN {None} ELSE {})
          /\ UNCHANGED refusedOrg
  /\ UNCHANGED saves

Next ==
  \/ \E s \in Save :
       \/ \E c \in Calendar, p \in BOOLEAN :
            BeginUpdate(s, c, p) \/ \E ws \in Workspace : BeginCreate(s, c, ws, p)
       \/ Demote(s) \/ Commit(s) \/ Refuse(s)
  \/ \E c \in Calendar : Delete(c)
  \/ \E o \in Org : DeleteOrg(o)

Spec == Init /\ [][Next]_vars

-----------------------------------------------------------------------------
TypeOK ==
  /\ cal \in [Calendar -> [org : Workspace, primary : BOOLEAN] \cup {None}]
  /\ \A s \in Save : saves[s].at \in {"idle", "begun", "demoted"}
  /\ orgs \subseteq Org /\ cleared \subseteq Workspace /\ refusedOrg \in BOOLEAN

\* A workspace whose user chose a primary calendar keeps exactly one until the
\* user gives it up: not two saves at once, not a save that is refused after
\* its demotion, not the end of an organization leaves it with none or two.
OnePrimaryKept ==
  \A ws \in (orgs \cup {None}) \ cleared : Cardinality(PrimaryOf(ws)) = 1

\* Deleting an organization orphans its calendars back to the owner's personal
\* workspace (schema/calendars.ts): it is never refused because of them.
OrgsCanBeDeleted == ~refusedOrg
-----------------------------------------------------------------------------
(* What OnePrimaryKept rests on: the row locks of a demotion, and the one    *)
(* transaction that may be creating a calendar.                              *)

\* What the proof asks of the constants.
Bounds == None \notin Org /\ None \notin [org : Workspace, primary : BOOLEAN]

Request(at) == [at : {at}, op : {"create", "update"}, cal : Calendar, org : Workspace,
                primary : BOOLEAN]
Demoting == [at : {"demoted"}, op : {"create", "update"}, cal : Calendar, org : Workspace,
             primary : BOOLEAN, demoted : SUBSET Calendar]

SavesAreTyped == saves \in [Save -> {Idle} \cup Request("begun") \cup Demoting]

Busy(s) == saves[s].at # "idle"

\* A calendar is of the personal workspace or of an organization that is there.
HomesExist == \A c \in Live : cal[c].org \in orgs \cup {None}

\* The partial unique index.
AtMostOnePrimary == \A ws \in Workspace : \A c, d \in PrimaryOf(ws) : c = d

\* A calendar being created is nobody else's, and is not there yet.
CreatesAreAlone ==
  \A s \in Save : Busy(s) /\ saves[s].op = "create" =>
    /\ cal[saves[s].cal] = None
    /\ \A t \in Save : Busy(t) /\ saves[t].cal = saves[s].cal => t = s

\* An update knows the workspace of its calendar, until the organization goes.
UpdatesKnowTheirHome ==
  \A s \in Save : Busy(s) /\ saves[s].op = "update" /\ saves[s].cal \in Live =>
    cal[saves[s].cal].org = saves[s].org \/ saves[s].org \notin orgs \cup {None}

\* What a transaction has demoted stays the other primary of its workspace, and
\* its own, while it holds the rows.
DemotedAreHeld ==
  \A s \in Save : saves[s].at = "demoted" =>
    \A d \in saves[s].demoted :
      /\ saves[s].primary /\ d \in PrimaryOf(saves[s].org) /\ d # saves[s].cal
      /\ \A t \in Save : saves[t].at = "demoted" /\ d \in saves[t].demoted => t = s

PrimariesKept == \A ws \in (orgs \cup {None}) \ cleared : \E c \in Calendar : PrimaryOf(ws) = {c}

CalendarsInv ==
  /\ TypeOK /\ SavesAreTyped /\ HomesExist /\ AtMostOnePrimary
  /\ CreatesAreAlone /\ UpdatesKnowTheirHome /\ DemotedAreHeld /\ PrimariesKept
=============================================================================

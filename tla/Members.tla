------------------------------ MODULE Members ------------------------------
(***************************************************************************)
(* The people of one organization, as one manager's page shows them        *)
(* (components/organization/organization-manager.tsx, members-panel.tsx,   *)
(* invite-member-form.tsx, pending-invitations.tsx), while another manager *)
(* works on the same list and the invited open their links                 *)
(* (accept-invitation).  The endpoints are Better Auth's and external: they*)
(* check again, in the order the calls arrive.                             *)
(***************************************************************************)
EXTENDS Integers, FiniteSets

CONSTANTS
  Person,       \* whom this manager invites, promotes and removes
  None,
  MaxMembers,   \* bound: memberships ever
  MaxInvites,   \* bound: invitations ever
  MaxCalls      \* bound: calls of the page

VARIABLES
  members,      \* member rows: id -> None or [who, role]
  made,         \* ids given to members
  invites,      \* invitation rows: id -> None or [to, role, status]
  manages,      \* this manager still has a managing role
  door,         \* Person -> None or the invitation whose page, still pending, is open
  seen,         \* useActiveOrganization: [members, invites, manages]
  refetch,      \* the hook has been told to load again
  roles,        \* optimisticRoles: id -> None or a role
  removed,      \* removedIds of both lists: [list, id]
  pendingId,    \* of both lists: list -> None or an id
  calls,        \* calls in flight: [list, kind, id, role, to, n, answer]
  sent,
  crossed       \* history: two calls on one row overlapped, or a row this page
                \* has acted on was changed by someone else

rowsNow == <<members, made, invites, manages>>
page    == <<seen, refetch, roles, removed, pendingId>>
vars    == <<rowsNow, door, page, calls, sent, crossed>>

Role == {"member", "admin"}
MemberId == 1 .. MaxMembers
InviteId == 1 .. MaxInvites
Live == {i \in MemberId : members[i] # None}
Pending == {i \in InviteId : invites[i] # None /\ invites[i].status = "pending"}
IsMember(p) == \E i \in Live : members[i].who = p
Now == [members |-> members, invites |-> invites, manages |-> manages]

Init ==
  /\ members = [i \in MemberId |-> IF i = 1 THEN [who |-> CHOOSE p \in Person : TRUE, role |-> "member"]
                                   ELSE None]
  /\ made = 1 /\ invites = [i \in InviteId |-> None]
  /\ manages = TRUE /\ door = [p \in Person |-> None]
  /\ seen = Now /\ refetch = FALSE
  /\ roles = [i \in MemberId |-> None] /\ removed = {}
  /\ pendingId = [list \in {"members", "invites"} |-> None]
  /\ calls = {} /\ sent = 0 /\ crossed = FALSE

-----------------------------------------------------------------------------
(* What the page shows.                                                    *)

\* optimisticRoles[id] ?? member.role, without what was removed from here
ShownRole(i) == IF roles[i] # None THEN roles[i] ELSE seen.members[i].role
ShownMembers == {i \in MemberId : seen.members[i] # None /\ <<"members", i>> \notin removed}
ShownInvites == {i \in InviteId : seen.invites[i] # None /\ seen.invites[i].status = "pending"
                                  /\ <<"invites", i>> \notin removed}

Call(list, kind, id, role, to) ==
  [list |-> list, kind |-> kind, id |-> id, role |-> role, to |-> to, n |-> sent, answer |-> None]

Send(call) ==
  /\ sent < MaxCalls /\ sent' = sent + 1 /\ seen.manages
  /\ calls' = calls \cup {call}
  /\ crossed' = (crossed \/ \E c \in calls : c.list = call.list /\ c.id = call.id /\ c.id # None)

\* changeRole: shown at once, the row's controls off until any call is answered.
ChangeRole(i, role) ==
  /\ i \in ShownMembers /\ pendingId["members"] # i /\ role # ShownRole(i)
  /\ Send(Call("members", "role", i, role, None))
  /\ roles' = [roles EXCEPT ![i] = role]
  /\ pendingId' = [pendingId EXCEPT !["members"] = i]
  /\ UNCHANGED <<rowsNow, door, seen, refetch, removed>>

Remove(i) ==
  /\ i \in ShownMembers /\ pendingId["members"] # i
  /\ Send(Call("members", "remove", i, None, None))
  /\ pendingId' = [pendingId EXCEPT !["members"] = i]
  /\ UNCHANGED <<rowsNow, door, seen, refetch, roles, removed>>

\* The form is disabled while it submits.
InviteMember(p, role) ==
  /\ ~\E c \in calls : c.kind = "invite"
  /\ Send(Call("invites", "invite", None, role, p))
  /\ UNCHANGED <<rowsNow, door, page>>

CancelInvitation(i) ==
  /\ i \in ShownInvites /\ pendingId["invites"] # i
  /\ Send(Call("invites", "cancel", i, None, None))
  /\ pendingId' = [pendingId EXCEPT !["invites"] = i]
  /\ UNCHANGED <<rowsNow, door, seen, refetch, roles, removed>>

-----------------------------------------------------------------------------
(* The endpoints.                                                          *)

FreshInvite == Cardinality({i \in InviteId : invites[i] # None}) + 1

\* Each checks the caller's role and the row as they are when the call arrives.
Served(c) ==
  \/ /\ c.kind = "role" /\ c.id \in Live
     /\ members' = [members EXCEPT ![c.id].role = c.role] /\ UNCHANGED invites
  \/ /\ c.kind = "remove" /\ c.id \in Live
     /\ members' = [members EXCEPT ![c.id] = None] /\ UNCHANGED invites
  \/ /\ c.kind = "invite" /\ ~IsMember(c.to) /\ FreshInvite \in InviteId
     /\ \A i \in Pending : invites[i].to # c.to
     /\ invites' = [invites EXCEPT ![FreshInvite] = [to |-> c.to, role |-> c.role, status |-> "pending"]]
     /\ UNCHANGED members
  \/ /\ c.kind = "cancel" /\ c.id \in Pending
     /\ invites' = [invites EXCEPT ![c.id].status = "canceled"] /\ UNCHANGED members

Serve(c) ==
  /\ c.answer = None /\ manages /\ Served(c)
  /\ calls' = (calls \ {c}) \cup {[c EXCEPT !.answer = "ok"]}
  /\ UNCHANGED <<made, manages, door, page, sent, crossed>>

\* Refused by the endpoint, or never reached it.
Fail(c) ==
  /\ c.answer = None
  /\ calls' = (calls \ {c}) \cup {[c EXCEPT !.answer = "error"]}
  /\ UNCHANGED <<rowsNow, door, page, sent, crossed>>

\* On an error the override goes; on success it stays, over what is loaded next.
Reverted(c) == IF c.kind = "role" /\ c.answer = "error" THEN [roles EXCEPT ![c.id] = None] ELSE roles

\* A call is answered.  Any that succeeded has the hook load again; a removal or
\* a cancellation that did hides its row for good.
Answered(c) ==
  /\ c.answer # None /\ calls' = calls \ {c}
  /\ roles' = Reverted(c)
  /\ removed' = IF c.kind \in {"remove", "cancel"} /\ c.answer = "ok"
                THEN removed \cup {<<c.list, c.id>>} ELSE removed
  /\ pendingId' = IF c.kind = "invite" THEN pendingId ELSE [pendingId EXCEPT ![c.list] = None]
  /\ refetch' = (refetch \/ c.answer = "ok")
  /\ UNCHANGED <<rowsNow, door, seen, sent, crossed>>

Refetch ==
  /\ refetch /\ refetch' = FALSE /\ seen' = Now
  /\ UNCHANGED <<rowsNow, door, roles, removed, pendingId, calls, sent, crossed>>

-----------------------------------------------------------------------------
(* Everybody else.                                                         *)

Touched(list, i) ==
  \/ <<list, i>> \in removed \/ \E c \in calls : c.list = list /\ c.id = i
  \/ list = "members" /\ roles[i] # None

\* Another manager changes a role, removes a member or this manager.
OtherChanges(i, role) ==
  /\ i \in Live /\ members[i].role # role
  /\ members' = [members EXCEPT ![i] = IF role = None THEN None ELSE [@ EXCEPT !.role = role]]
  /\ crossed' = (crossed \/ Touched("members", i))
  /\ UNCHANGED <<made, invites, manages, door, page, calls, sent>>

Demoted ==
  /\ manages /\ manages' = FALSE
  /\ UNCHANGED <<members, made, invites, door, page, calls, sent, crossed>>

\* /accept-invitation/[id]: the button for one that was pending when it was read,
\* and for whoever is signed in with its address.
OpenInvitation(i) ==
  /\ i \in Pending /\ door[invites[i].to] = None
  /\ door' = [door EXCEPT ![invites[i].to] = i]
  /\ UNCHANGED <<rowsNow, page, calls, sent, crossed>>

\* The page joins on a click; acceptInvitation looks at the row again.
Accept(p) ==
  /\ door[p] # None /\ door' = [door EXCEPT ![p] = None]
  /\ IF door[p] \in Pending /\ ~IsMember(p) /\ made < MaxMembers
     THEN /\ made' = made + 1
          /\ members' = [members EXCEPT ![made + 1] = [who |-> p, role |-> invites[door[p]].role]]
          /\ invites' = [invites EXCEPT ![door[p]].status = "accepted"]
          /\ crossed' = (crossed \/ Touched("invites", door[p]))
     ELSE UNCHANGED <<members, made, invites, crossed>>
  /\ UNCHANGED <<manages, page, calls, sent>>

Next ==
  \/ \E i \in MemberId : Remove(i) \/ OtherChanges(i, None)
                         \/ \E role \in Role : ChangeRole(i, role) \/ OtherChanges(i, role)
  \/ \E i \in InviteId : CancelInvitation(i) \/ OpenInvitation(i)
  \/ \E p \in Person : Accept(p) \/ \E role \in Role : InviteMember(p, role)
  \/ \E c \in calls : Serve(c) \/ Fail(c) \/ Answered(c)
  \/ Refetch \/ Demoted

Spec == Init /\ [][Next]_vars

-----------------------------------------------------------------------------
TypeOK ==
  /\ made \in 0 .. MaxMembers /\ sent \in 0 .. MaxCalls
  /\ \A i \in Live : i <= made /\ members[i].role \in Role
  /\ \A c \in calls : c.answer \in {None, "ok", "error"}

\* At rest, what the page makes of the hook's rows is those rows: after calls
\* that succeeded, that failed and that were refused because the row or this
\* manager's role was no longer what the page had loaded; as long as no row the
\* page has acted on is changed by anyone else, or by two of its calls at once.
PageAddsNothing ==
  calls = {} /\ ~refetch /\ ~crossed =>
    /\ \A i \in ShownMembers : ShownRole(i) = seen.members[i].role
    /\ \A i \in MemberId : seen.members[i] # None => i \in ShownMembers
    /\ \A i \in InviteId : seen.invites[i] # None /\ seen.invites[i].status = "pending"
                           => i \in ShownInvites

\* "the list re-renders on its own": the same with no exception.  Does not hold:
\* the override of a role stays over what another manager makes of it later.
PageYieldsToTheHook ==
  calls = {} /\ ~refetch => \A i \in ShownMembers : ShownRole(i) = seen.members[i].role
-----------------------------------------------------------------------------
(* Why the page adds nothing: what every step keeps.                       *)
MemberRow == [who : Person, role : Role]
InviteRow == [to : Person, role : Role, status : {"pending", "canceled", "accepted"}]

Bounds ==
  /\ MaxMembers \in Nat \ {0} /\ MaxInvites \in Nat /\ MaxCalls \in Nat /\ Person # {}
  /\ None \notin Nat \cup Role \cup {"ok", "error"} \cup MemberRow \cup InviteRow

RowsAreTyped ==
  /\ members \in [MemberId -> MemberRow \cup {None}]
  /\ invites \in [InviteId -> InviteRow \cup {None}]
  /\ made \in 1 .. MaxMembers
  /\ door \in [Person -> InviteId \cup {None}]
  /\ seen = [members |-> seen.members, invites |-> seen.invites, manages |-> seen.manages]
  /\ roles \in [MemberId -> Role \cup {None}]

\* Ids are given in order and never again.
IdsAreFresh ==
  /\ \A i \in MemberId : members[i] # None \/ seen.members[i] # None \/ roles[i] # None => i <= made
  /\ \A i \in InviteId : seen.invites[i] # None => invites[i] # None
  /\ \E n \in 0 .. MaxInvites : {i \in InviteId : invites[i] # None} = 1 .. n

CallsAreTyped ==
  \A c \in calls :
    /\ c = [list |-> c.list, kind |-> c.kind, id |-> c.id, role |-> c.role, to |-> c.to,
            n |-> c.n, answer |-> c.answer]
    /\ c.answer \in {None, "ok", "error"}
    /\ \/ c.kind = "role" /\ c.list = "members" /\ c.id \in 1 .. made /\ c.role \in Role
       \/ c.kind = "remove" /\ c.list = "members" /\ c.id \in 1 .. made
       \/ c.kind = "invite" /\ c.list = "invites" /\ c.id = None /\ c.role \in Role
            /\ c.to \in Person
       \/ c.kind = "cancel" /\ c.list = "invites" /\ c.id \in InviteId /\ invites[c.id] # None

Gone(list, i) ==
  IF list = "members" THEN i \in 1 .. made /\ members[i] = None
                      ELSE i \in InviteId /\ invites[i] # None /\ invites[i].status # "pending"

\* What was removed is gone, and once the hook has loaded again it knows.
RemovedAreGone ==
  /\ \A c \in calls : c.kind \in {"remove", "cancel"} /\ c.answer = "ok" => Gone(c.list, c.id)
  /\ \A r \in removed : r = <<r[1], r[2]>> /\ r[1] \in {"members", "invites"} /\ Gone(r[1], r[2])
  /\ ~refetch =>
       /\ \A i \in MemberId : <<"members", i>> \in removed => seen.members[i] = None
       /\ \A i \in InviteId : <<"invites", i>> \in removed /\ seen.invites[i] # None
                              => seen.invites[i].status # "pending"

Deciding(i) == {c \in calls : c.kind = "role" /\ c.id = i}
IsRole(row, role) == row = None \/ row.role = role

\* One call for a row; a role shown before its time is on its way, or stored, and once
\* the hook has loaded again the hook has it.
RolesArrive ==
  ~crossed =>
    /\ \A c, d \in calls : c.list = d.list /\ c.id = d.id /\ c.id # None => c = d
    /\ \A c \in calls : c.kind = "role" =>
         roles[c.id] = c.role /\ (c.answer = "ok" => IsRole(members[c.id], c.role))
    /\ \A i \in MemberId : roles[i] # None /\ Deciding(i) = {} =>
         /\ IsRole(members[i], roles[i])
         /\ ~refetch => IsRole(seen.members[i], roles[i])

MembersInv ==
  TypeOK /\ RowsAreTyped /\ IdsAreFresh /\ CallsAreTyped /\ RemovedAreGone /\ RolesArrive
=============================================================================

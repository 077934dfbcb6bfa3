------------------------------- MODULE Access -------------------------------
(* Platform roles, bans and impersonation: the actions of                    *)
(* server/actions/admin.ts by administrators working at once, and sign-ins   *)
(* that race them. A request is authorised by identity, which the session    *)
(* cookie may cache, and by a role read from the database (lib/rbac.ts);     *)
(* what it writes it writes later.                                           *)
EXTENDS Integers, FiniteSets

CONSTANTS
  User,
  First,      \* the administrator made out of band
  None

VARIABLES
  role, banned,   \* columns of the user row
  session,        \* session rows <<owner, by>>; by is the impersonating administrator
  cookie,         \* the browser's cookie still carries a cached identity
  signing,        \* a sign-in has read that its user is not banned
  op,             \* the administrator's request in flight
  raced,          \* users whose session was opened across a ban (ghost)
  overlapped      \* two role changes have been in flight at once (ghost)

vars == <<role, banned, session, cookie, signing, op, raced, overlapped>>

Idle == [kind |-> "idle", target |-> None, to |-> "user", stage |-> "none"]

Own(u) == <<u, None>>

Init ==
  /\ role = [u \in User |-> IF u = First THEN "admin" ELSE "user"]
  /\ banned = [u \in User |-> FALSE]
  /\ session = {} /\ cookie = [u \in User |-> FALSE]
  /\ signing = [u \in User |-> FALSE]
  /\ op = [u \in User |-> Idle]
  /\ raced = {} /\ overlapped = FALSE

\* The library's hook reads the ban before it opens a session. A ban with a
\* term may have run out, and is lifted here.
CheckBan(u, ranOut) ==
  /\ ~signing[u] /\ Own(u) \notin session
  /\ banned[u] => ranOut
  /\ signing' = [signing EXCEPT ![u] = TRUE]
  /\ banned' = [banned EXCEPT ![u] = FALSE]
  /\ UNCHANGED <<role, session, cookie, op, raced, overlapped>>

OpenSession(u) ==
  /\ signing[u]
  /\ signing' = [signing EXCEPT ![u] = FALSE]
  /\ session' = session \cup {Own(u)}
  /\ cookie' = [cookie EXCEPT ![u] = TRUE]
  /\ raced' = IF banned[u] THEN raced \cup {u} ELSE raced \ {u}
  /\ UNCHANGED <<role, banned, op, overlapped>>

\* Five minutes later the cached identity is read again from the session row.
CacheExpires(u) ==
  /\ cookie[u] /\ Own(u) \notin session
  /\ cookie' = [cookie EXCEPT ![u] = FALSE]
  /\ UNCHANGED <<role, banned, session, signing, op, raced, overlapped>>

IsAdmin(a) == cookie[a] /\ role[a] = "admin"

\* requireAdmin, the schema, and the refusal of oneself.
Authorize(a, kind, target, to) ==
  /\ op[a] = Idle
  /\ IsAdmin(a)
  /\ kind \in {"role", "ban", "impersonate"} => target # a
  /\ op' = [op EXCEPT ![a] = [kind |-> kind, target |-> target, to |-> to, stage |-> "write"]]
  /\ overlapped' = (overlapped \/ (kind = "role" /\ \E b \in User : op[b].kind = "role"))
  /\ UNCHANGED <<role, banned, session, cookie, signing, raced>>

Doing(a, kind, stage) == op[a].kind = kind /\ op[a].stage = stage

SetUserRole(a) ==
  /\ Doing(a, "role", "write")
  /\ role' = [role EXCEPT ![op[a].target] = op[a].to]
  /\ op' = [op EXCEPT ![a] = Idle]
  /\ UNCHANGED <<banned, session, cookie, signing, raced, overlapped>>

OwnedBy(u) == {s \in session : s[1] = u}

\* A variation: the sessions go first.
BanUserLast(a) ==
  \/ /\ Doing(a, "ban", "write")
     /\ session' = session \ OwnedBy(op[a].target)
     /\ op' = [op EXCEPT ![a].stage = "revoke"]
     /\ UNCHANGED <<role, banned, cookie, signing, raced, overlapped>>
  \/ /\ Doing(a, "ban", "revoke")
     /\ banned' = [banned EXCEPT ![op[a].target] = TRUE]
     /\ op' = [op EXCEPT ![a] = Idle]
     /\ UNCHANGED <<role, session, cookie, signing, raced, overlapped>>

\* The ban's two writes: the columns the sign-in hook reads, then the rows of
\* the sessions already open.
BanUser(a) ==
  \/ /\ Doing(a, "ban", "write")
     /\ banned' = [banned EXCEPT ![op[a].target] = TRUE]
     /\ op' = [op EXCEPT ![a].stage = "revoke"]
     /\ UNCHANGED <<role, session, cookie, signing, raced, overlapped>>
  \/ /\ Doing(a, "ban", "revoke")
     /\ session' = session \ OwnedBy(op[a].target)
     /\ op' = [op EXCEPT ![a] = Idle]
     /\ UNCHANGED <<role, banned, cookie, signing, raced, overlapped>>

UnbanUser(a) ==
  /\ Doing(a, "unban", "write")
  /\ banned' = [banned EXCEPT ![op[a].target] = FALSE]
  /\ op' = [op EXCEPT ![a] = Idle]
  /\ UNCHANGED <<role, session, cookie, signing, raced, overlapped>>

\* The plugin's endpoint may refuse, going by a role the cookie has cached;
\* it refuses to impersonate an administrator.
ImpersonateUser(a) ==
  /\ Doing(a, "impersonate", "write")
  /\ op' = [op EXCEPT ![a] = Idle]
  /\ \/ UNCHANGED session
     \/ role[op[a].target] # "admin" /\ session' = session \cup {<<op[a].target, a>>}
  /\ UNCHANGED <<role, banned, cookie, signing, raced, overlapped>>

StopImpersonating(a) ==
  /\ \E s \in session : s[2] = a /\ session' = session \ {s}
  /\ UNCHANGED <<role, banned, cookie, signing, op, raced, overlapped>>

Kind == {"role", "ban", "unban", "impersonate"}

Next ==
  \/ \E u \in User : OpenSession(u) \/ CacheExpires(u) \/ \E ranOut \in BOOLEAN : CheckBan(u, ranOut)
  \/ \E a, t \in User, k \in Kind, to \in {"user", "admin"} :
       (k # "role" => to = "user") /\ Authorize(a, k, t, to)
  \/ \E a \in User :
       SetUserRole(a) \/ BanUser(a) \/ UnbanUser(a) \/ ImpersonateUser(a) \/ StopImpersonating(a)

Spec == Init /\ [][Next]_vars

-----------------------------------------------------------------------------
(* Every variable stays in its domain.                                       *)
TypeOK ==
  /\ role \in [User -> {"user", "admin"}] /\ banned \in [User -> BOOLEAN]
  /\ session \subseteq User \X (User \cup {None})
  /\ cookie \in [User -> BOOLEAN] /\ signing \in [User -> BOOLEAN]
  /\ \A a \in User : op[a].kind \in Kind \cup {"idle"}
  /\ raced \subseteq User /\ overlapped \in BOOLEAN

(* A banned user has no session of their own once the ban is through, except *)
(* by a sign-in that read the column before the ban wrote it and opened its  *)
(* session after: the ban writes the column before it revokes, so that no    *)
(* other sign-in falls between the two.                                      *)
BannedStaysOut ==
  \A u \in User :
    banned[u] /\ Own(u) \in session =>
      \/ u \in raced
      \/ \E a \in User : op[a].target = u /\ Doing(a, "ban", "revoke")

(* While role changes come one at a time there is always an administrator:   *)
(* the caller is one, and cannot be the target.                              *)
OneAtATimeAnAdminRemains == ~overlapped => \E u \in User : role[u] = "admin"

(* actions/admin.ts:37-39 "an admin can't change their OWN role ... so the   *)
(* last admin can't accidentally strip the app of every admin": there is     *)
(* always an administrator.                                                  *)
AnAdminRemains == \E u \in User : role[u] = "admin"
-----------------------------------------------------------------------------
(* What holds of any number of users and administrators.                     *)

\* What the theorems ask of the constants.
Bounds == First \in User /\ None \notin User

\* A request in flight has a target, and reads as Authorize wrote it.
RequestsAreTyped ==
  /\ op \in [User -> [kind : Kind \cup {"idle"}, target : User \cup {None},
                      to : {"user", "admin"}, stage : {"none", "write", "revoke"}]]
  /\ \A a \in User : op[a].kind # "idle" => op[a].target \in User

Types == TypeOK /\ RequestsAreTyped

\* As long as role changes come one at a time, the one in flight is by an
\* administrator who still is one and is not its target.
RoleChangesAreAlone ==
  ~overlapped =>
    \A a \in User : op[a].kind = "role" =>
      /\ role[a] = "admin" /\ op[a].target # a
      /\ \A b \in User : op[b].kind = "role" => b = a

AccessInv == Types /\ BannedStaysOut /\ RoleChangesAreAlone /\ OneAtATimeAnAdminRemains
=============================================================================

--------------------------- MODULE CalendarAccess ---------------------------
(***************************************************************************)
(* Who an invitation belongs to.  A guest list holds addresses; a person   *)
(* is an account whose address may be unproved, may change, and may be     *)
(* taken up by someone else.  Three readers decide alone which rows are    *)
(* mine: lib/calendar-acl.ts (getEventAccess, under the event page, byId   *)
(* and every answer), calendar.listInvites and the UPDATE of               *)
(* respondToEvent.  One event; the mails of a change of address are in     *)
(* AccountEmail.                                                           *)
(***************************************************************************)
EXTENDS Naturals, FiniteSets

CONSTANTS
  User, Owner,      \* accounts; the one whose calendar the event is on
  Address,
  None,
  MaxMoves          \* bound: changes of address

VARIABLES
  email,      \* User -> None (no account) or the address of the account
  verified,   \* users whose address is proved
  event,      \* "live" or "deleted"
  rows,       \* calendarEventAttendees: Address -> None or [user, status]
  page,       \* User -> None or the page of the event: [mine, pending]
  moves,
  proved,     \* history: <<user, address>> ever proved
  answered    \* history: <<user, address>> -> the answer given, while it stands

vars == <<email, verified, event, rows, page, moves, proved, answered>>

Account == {u \in User : email[u] # None}
Guests  == {a \in Address : rows[a] # None}
Free(a) == \A u \in Account : email[u] # a
Status  == {"accepted", "declined"}

Init ==
  /\ email = [u \in User |-> None] /\ verified = {}
  /\ event = "live" /\ rows = [a \in Address |-> None]
  /\ page = [u \in User |-> None] /\ moves = 0
  /\ proved = {} /\ answered = [x \in User \X Address |-> None]

-----------------------------------------------------------------------------
(* Whose row it is.                                                        *)

\* The claim arm: email = lower(user.email) AND user.email_verified.
Proves(u, a) == email[u] = a /\ u \in verified

\* attendeeResponse: the durable arm or the claim arm.
Mine(u) == {a \in Guests : rows[a].user = u \/ Proves(u, a)}

\* listInvites: me first, then the rows of a live master.
Listed(u) ==
  {a \in Guests : event = "live" /\ (rows[a].user = u \/ (u \in verified /\ email[u] = a))}

\* getCalendarRole: only the owner's resolver grants anything.
Role(u) == IF u = Owner THEN "owner" ELSE None

\* getEventAccess: nothing for a deleted event; attendance grants no role.
Responds(u) == event = "live" /\ Mine(u) # {}
Reads(u) == event = "live" /\ (Role(u) # None \/ Mine(u) # {})

-----------------------------------------------------------------------------
(* The accounts.                                                           *)

Proven(who, as) == proved \cup (who \X as)

\* What is proved by someone else no longer stands as u's alone.
Contested(u, a) == [x \in User \X Address |-> IF x[2] = a /\ x[1] # u THEN None ELSE answered[x]]

SignUp(u, a) ==
  /\ email[u] = None /\ Free(a)
  /\ email' = [email EXCEPT ![u] = a]
  /\ UNCHANGED <<verified, event, rows, page, moves, proved, answered>>

Verify(u) ==
  /\ u \in Account \ verified
  /\ verified' = verified \cup {u}
  /\ proved' = Proven({u}, {email[u]}) /\ answered' = Contested(u, email[u])
  /\ UNCHANGED <<email, event, rows, page, moves>>

\* updateEmailWithoutVerification: an unproved address changes at once and stays
\* unproved; a proved one changes when the new one is.
ChangeEmail(u, a) ==
  /\ u \in Account /\ Free(a) /\ moves < MaxMoves
  /\ email' = [email EXCEPT ![u] = a] /\ moves' = moves + 1
  /\ IF u \in verified
       THEN proved' = Proven({u}, {a}) /\ answered' = Contested(u, a)
       ELSE UNCHANGED <<proved, answered>>
  /\ UNCHANGED <<verified, event, rows, page>>

\* user_id ON DELETE SET NULL; the owner's calendar would go with the account.
DeleteAccount(u) ==
  /\ u \in Account /\ u # Owner
  /\ email' = [email EXCEPT ![u] = None] /\ verified' = verified \ {u}
  /\ rows' = [a \in Address |-> IF a \in Guests /\ rows[a].user = u
                                THEN [rows[a] EXCEPT !.user = None] ELSE rows[a]]
  /\ page' = [page EXCEPT ![u] = None]
  /\ proved' = {x \in proved : x[1] # u}
  /\ answered' = [x \in User \X Address |-> IF x[1] = u THEN None ELSE answered[x]]
  /\ UNCHANGED <<event, moves>>

-----------------------------------------------------------------------------
(* The guest list.                                                         *)

\* Variation: an account is resolved from an unproved address.
ResolvedUnproved(a) ==
  IF \E u \in Account : email[u] = a THEN CHOOSE u \in Account : email[u] = a ELSE None

\* resolveAttendeeUserIds
Resolved(a) == IF \E u \in verified : email[u] = a THEN CHOOSE u \in verified : email[u] = a ELSE None

\* addAttendees, for an address that was not on the list
Invite(a) ==
  /\ event = "live" /\ a \notin Guests
  /\ rows' = [rows EXCEPT ![a] = [user |-> Resolved(a), status |-> "needs-action"]]
  /\ UNCHANGED <<email, verified, event, page, moves, proved, answered>>

\* removeAttendees
Remove(a) ==
  /\ event = "live" /\ a \in Guests
  /\ rows' = [rows EXCEPT ![a] = None]
  /\ answered' = [x \in User \X Address |-> IF x[2] = a THEN None ELSE answered[x]]
  /\ UNCHANGED <<email, verified, event, page, moves, proved>>

\* softDeleteEvent keeps the rows.
Delete ==
  /\ event = "live" /\ event' = "deleted"
  /\ UNCHANGED <<email, verified, rows, page, moves, proved, answered>>

-----------------------------------------------------------------------------
(* The page of the event and its answer (rsvp-control.tsx).                *)

\* The page of whoever may read; LIMIT 1 picks the answer it starts from.
Open(u) ==
  /\ u \in Account /\ page[u] = None /\ Reads(u)
  /\ \E mine \in {rows[a].status : a \in Mine(u)} \cup (IF Mine(u) = {} THEN {None} ELSE {}) :
       page' = [page EXCEPT ![u] = [mine |-> mine, pending |-> None]]
  /\ UNCHANGED <<email, verified, event, rows, moves, proved, answered>>

Close(u) ==
  /\ page[u] # None /\ page[u].pending = None
  /\ page' = [page EXCEPT ![u] = None]
  /\ UNCHANGED <<email, verified, event, rows, moves, proved, answered>>

\* A click: the buttons are there for a guest; the server asks getEventAccess.
Answer(u, status) ==
  /\ page[u] # None /\ page[u].pending = None /\ page[u].mine # None /\ Responds(u)
  /\ page' = [page EXCEPT ![u].pending = status]
  /\ UNCHANGED <<email, verified, event, rows, moves, proved, answered>>

\* The WHERE of respondToEvent states the identity anew.
Matched(u) == {a \in Guests : rows[a].user = u \/ Proves(u, a)}

\* user_id = me: a claim made once answers from then on.
Stamped(u, a) == u

\* The UPDATE, which looks at the event no more; no row is an error.
Record(u) ==
  /\ page[u] # None /\ page[u].pending # None
  /\ LET status == page[u].pending  hit == Matched(u) IN
       /\ rows' = [a \in Address |-> IF a \in hit THEN [user |-> Stamped(u, a), status |-> status]
                                     ELSE rows[a]]
       /\ page' = [page EXCEPT ![u] = [mine |-> IF hit = {} THEN @.mine ELSE status, pending |-> None]]
       /\ answered' = [x \in User \X Address |->
            IF x[2] \in hit THEN (IF x[1] = u THEN status ELSE None) ELSE answered[x]]
  /\ UNCHANGED <<email, verified, event, moves, proved>>

Next ==
  \/ \E u \in User :
       \/ Verify(u) \/ DeleteAccount(u) \/ Open(u) \/ Close(u) \/ Record(u)
       \/ \E a \in Address : SignUp(u, a) \/ ChangeEmail(u, a)
       \/ \E status \in Status : Answer(u, status)
  \/ \E a \in Address : Invite(a) \/ Remove(a)
  \/ Delete

Spec == Init /\ [][Next]_vars

-----------------------------------------------------------------------------
TypeOK ==
  /\ verified \subseteq Account /\ event \in {"live", "deleted"}
  /\ \A a \in Guests : rows[a].user \in Account \cup {None} /\ rows[a].status \in Status \cup {"needs-action"}
  /\ \A u \in User : page[u] # None => page[u].pending \in Status \cup {None}

\* A stamp is a durable claim that no later read checks again: it is only ever
\* minted for someone who has proved the row's address, whatever accounts were
\* signed up, moved or deleted in between, and no one answers for an address
\* they have not proved (calendar.ts, calendar-acl.ts).
StampsAreProved ==
  /\ \A a \in Guests : rows[a].user # None => <<rows[a].user, a>> \in proved
  /\ \A x \in User \X Address : answered[x] # None => x \in proved

\* An invitation a person has answered stays theirs, with that answer, when
\* they move to another address: until the organizer drops it, or someone else
\* proves the old address.
AnsweredStaysMine ==
  \A u \in Account, a \in Address :
    answered[<<u, a>>] # None => a \in Mine(u) /\ rows[a].status = answered[<<u, a>>]

\* What the list of invitations shows can be opened and answered, and what can
\* be answered is listed: two queries written apart agree.
ListedCanAnswer == \A u \in Account : Responds(u) <=> Listed(u) # {}

-----------------------------------------------------------------------------
(* What StampsAreProved and AnsweredStaysMine rest on.                       *)

\* What the proof asks of the constants: nobody is the absent value.
Bounds == None \notin User \cup Address \cup Status \cup
                    [user : User \cup {None}, status : Status \cup {"needs-action"}]

Row == [user : User \cup {None}, status : Status \cup {"needs-action"}]

AccessIsTyped ==
  /\ TypeOK
  /\ email \in [User -> Address \cup {None}] /\ rows \in [Address -> Row \cup {None}]
  /\ answered \in [User \X Address -> Status \cup {None}]
  /\ proved \subseteq User \X Address
  /\ page \in [User -> {None} \cup [mine : Status \cup {"needs-action", None},
                                   pending : Status \cup {None}]]

\* The address of an account that is verified has been proved by it.
VerifiedIsProved == \A u \in verified : <<u, email[u]>> \in proved

\* An answer that stands is on a row stamped with who gave it.
AnswersAreStamped ==
  \A u \in User, a \in Address : answered[<<u, a>>] # None =>
    rows[a] # None /\ rows[a].user = u /\ rows[a].status = answered[<<u, a>>]

AccessInv == AccessIsTyped /\ VerifiedIsProved /\ StampsAreProved /\ AnswersAreStamped
=============================================================================

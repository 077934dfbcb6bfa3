------------------------------ MODULE RsvpLinks ------------------------------
(***************************************************************************)
(* Answering without an account: the link in an e-mail                     *)
(* (lib/calendar-tokens.ts), the route that exchanges it for a cookie      *)
(* (rsvp/[token]/route.ts), the page under the cookie's handle             *)
(* (rsvp/s/[handle]/page.tsx, server/calendar/rsvp.ts, rsvp-form.tsx) and  *)
(* the answer (actions/calendar-rsvp.ts).  One browser, several tabs,      *)
(* several invitations.  The series' ends are fixed: moving one mails a new*)
(* link.  The answer an e-mail's button preselects is left out.            *)
(***************************************************************************)
EXTENDS Naturals, FiniteSets

CONSTANTS
  Attendee,
  Tab,
  None,
  Grace,        \* GRACE_SECONDS
  CookieLife,   \* COOKIE_MAX_AGE_SECONDS
  MaxNow        \* bound: time

VARIABLES
  now,
  ends,       \* Attendee -> the end of their series, 0 when it has none
  links,      \* the links mailed: [for, expires], 0 for never
  jar,        \* the browser's cookies: Attendee -> None or [link, until]
  tab,        \* Tab -> what it shows
  answer,     \* Attendee -> None or [status, at]
  reaskAt,    \* Attendee -> the last re-ask of their event, 0 when none
  cancelled,  \* attendees whose event was deleted or who were removed
  meant       \* history: Attendee -> what its own tab was told to answer

vars == <<now, ends, links, jar, tab, answer, reaskAt, cancelled, meant>>

Response == {"accepted", "declined"}
Blank == [at |-> "blank"]

Init ==
  /\ now = 1 /\ ends \in [Attendee -> {0, 1}]
  /\ links = {} /\ jar = [a \in Attendee |-> None] /\ tab = [t \in Tab |-> Blank]
  /\ answer = [a \in Attendee |-> None] /\ reaskAt = [a \in Attendee |-> 0]
  /\ cancelled = {} /\ meant = [a \in Attendee |-> None]

\* mintRsvpToken: a bounded series' end and the grace, never for an unbounded.
Expiry(a) == IF ends[a] = 0 THEN 0 ELSE ends[a] + Grace

Mail(a) ==
  /\ links' = links \cup {[for |-> a, expires |-> Expiry(a)]}
  /\ UNCHANGED <<now, ends, jar, tab, answer, reaskAt, cancelled, meant>>

\* verifyRsvpToken: the attendee a link names, unless it has expired.
Verify(l) == IF l.expires # 0 /\ l.expires < now THEN None ELSE l.for

\* The cookie is named after the attendee it is for.
Kept(a, l) == [jar EXCEPT ![a] = [link |-> l, until |-> now + CookieLife]]

\* GET /rsvp/[token]: a good link becomes a cookie; a bad one is sent to a page
\* of the same kind, under a handle no cookie has (None).
Follow(t, l) ==
  /\ l \in links /\ tab[t] = Blank
  /\ jar' = IF Verify(l) = None THEN jar ELSE Kept(l.for, l)
  /\ tab' = [tab EXCEPT ![t] = [at |-> "arrived", handle |-> Verify(l)]]
  /\ UNCHANGED <<now, ends, links, answer, reaskAt, cancelled, meant>>

\* The cookie of a handle, while it lasts, and whom the link in it names.
Cookie(h) == IF h = None \/ jar[h] = None \/ jar[h].until < now THEN None ELSE jar[h].link
Bearer(h) == IF Cookie(h) = None THEN None ELSE Verify(Cookie(h))

IsStale(a) == answer[a] # None /\ answer[a].at < reaskAt[a]

\* loadRsvpView: the row of a live event, or, for a reader above the rate limit
\* too, the page that tells nothing.
Load(t, throttled) ==
  /\ tab[t].at = "arrived"
  /\ LET g == Bearer(tab[t].handle) IN
       tab' = [tab EXCEPT ![t] =
         IF g = None \/ g \in cancelled \/ throttled THEN [at |-> "invalid"]
         ELSE [at |-> "form", handle |-> tab[t].handle, for |-> g,
               highlighted |-> IF answer[g] = None \/ IsStale(g) THEN None ELSE answer[g].status]]
  /\ UNCHANGED <<now, ends, links, jar, answer, reaskAt, cancelled, meant>>

\* respondByToken: the handle picks the cookie, the link in it the row.
Respond(t, r) ==
  /\ tab[t].at = "form"
  /\ LET g == Bearer(tab[t].handle) IN
       /\ IF g = None \/ g \in cancelled THEN UNCHANGED <<answer, tab>>
          ELSE /\ answer' = [answer EXCEPT ![g] = [status |-> r, at |-> now]]
               /\ tab' = [tab EXCEPT ![t].highlighted = r]
       /\ meant' = IF g = None \/ g \in cancelled THEN meant
                   ELSE [meant EXCEPT ![tab[t].for] = r]
  /\ UNCHANGED <<now, ends, links, jar, reaskAt, cancelled>>

\* The event is deleted between the update and the read of its title: the
\* answer is committed and the guest is told that it failed.
RespondAsDeleted(t, r) ==
  /\ tab[t].at = "form"
  /\ LET g == Bearer(tab[t].handle) IN
       /\ g \notin cancelled \cup {None}
       /\ answer' = [answer EXCEPT ![g] = [status |-> r, at |-> now]]
       /\ meant' = [meant EXCEPT ![tab[t].for] = r]
       /\ cancelled' = cancelled \cup {g}
  /\ UNCHANGED <<now, ends, links, jar, tab, reaskAt>>

Close(t) ==
  /\ tab[t] # Blank /\ tab' = [tab EXCEPT ![t] = Blank]
  /\ UNCHANGED <<now, ends, links, jar, answer, reaskAt, cancelled, meant>>

\* The organizer's side: an event moves, or is gone.
Reask(a) ==
  /\ answer[a] # None /\ reaskAt[a] < now /\ answer[a].at < now
  /\ reaskAt' = [reaskAt EXCEPT ![a] = now]
  /\ UNCHANGED <<now, ends, links, jar, tab, answer, cancelled, meant>>

Cancel(a) ==
  /\ a \notin cancelled /\ cancelled' = cancelled \cup {a}
  /\ UNCHANGED <<now, ends, links, jar, tab, answer, reaskAt, meant>>

Tick ==
  /\ now < MaxNow /\ now' = now + 1
  /\ UNCHANGED <<ends, links, jar, tab, answer, reaskAt, cancelled, meant>>

Next ==
  \/ \E a \in Attendee : Mail(a) \/ Reask(a) \/ Cancel(a)
  \/ \E t \in Tab : \/ Close(t) \/ \E throttled \in BOOLEAN : Load(t, throttled)
                    \/ \E l \in links : Follow(t, l)
                    \/ \E r \in Response : Respond(t, r) \/ RespondAsDeleted(t, r)
  \/ Tick

Spec == Init /\ [][Next]_vars

-----------------------------------------------------------------------------
TypeOK ==
  /\ now \in 1 .. MaxNow /\ cancelled \subseteq Attendee
  /\ \A t \in Tab : tab[t].at \in {"blank", "arrived", "invalid", "form"}
  /\ \A a \in Attendee : answer[a] # None => answer[a].status \in Response

\* Two invitations open in two tabs do not overwrite one another: what is
\* recorded for a guest is what was last chosen on a page that named them.
AnswerIsForTheNamed ==
  \A a \in Attendee : (answer[a] = None /\ meant[a] = None)
                      \/ (answer[a] # None /\ answer[a].status = meant[a])

\* An invitation to a series without an end can be answered at any time.
OpenSeriesStaysAnswerable ==
  \A l \in links : ends[l.for] = 0 => Verify(l) = l.for

-----------------------------------------------------------------------------
(* What the two rest on: a cookie is kept under the name of the guest its    *)
(* link is for, and a form is for the guest of its handle.                   *)

\* What the proof asks of the constants.
Bounds ==
  /\ MaxNow \in Nat \ {0} /\ Grace \in Nat /\ CookieLife \in Nat
  /\ None \notin Attendee \cup Response
  /\ None \notin [link : [for : Attendee, expires : Nat], until : Nat]
  /\ None \notin [status : Response, at : Nat]

TabsAreTyped ==
  tab \in [Tab -> {Blank} \cup [at : {"invalid"}]
              \cup [at : {"arrived"}, handle : Attendee \cup {None}]
              \cup [at : {"form"}, handle : Attendee, for : Attendee,
                   highlighted : Response \cup {None}]]

LinksAreTyped ==
  /\ TypeOK /\ TabsAreTyped
  /\ ends \in [Attendee -> {0, 1}]
  /\ links \subseteq [for : Attendee, expires : Nat]
  /\ jar \in [Attendee -> {None} \cup [link : [for : Attendee, expires : Nat], until : Nat]]
  /\ answer \in [Attendee -> {None} \cup [status : Response, at : Nat]]
  /\ meant \in [Attendee -> {None} \cup Response]

LinksExpireWithTheirSeries == \A l \in links : l.expires = Expiry(l.for)

CookiesKeepTheirName == \A a \in Attendee : jar[a] # None => jar[a].link.for = a

FormsNameTheirHandle == \A t \in Tab : tab[t].at = "form" => tab[t].for = tab[t].handle

LinksInv ==
  LinksAreTyped /\ LinksExpireWithTheirSeries /\ CookiesKeepTheirName /\ FormsNameTheirHandle
    /\ AnswerIsForTheNamed
=============================================================================

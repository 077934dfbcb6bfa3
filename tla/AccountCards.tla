----------------------------- MODULE AccountCards -----------------------------
(* Three cards of the /account page, each a local view of rows the server owns: *)
(* the sessions card hides what it revoked, the passkeys card patches a list    *)
(* seeded once, the danger zone says what became of a deletion.  Every call may *)
(* be refused, or land and have its answer lost; the page may be refreshed by   *)
(* router.refresh(), whose commit is never waited for.  The account is also     *)
(* used from other browsers.  A behaviour uses one of the cards: what they      *)
(* share is the session they act with.                                          *)
EXTENDS Integers, FiniteSets

CONSTANTS
  MaxSessions,   \* bound: sessions ever made; session 1 is the one of this page
  MaxKeys,       \* bound: passkeys ever made
  MaxCalls,      \* bound: passkey calls in flight at once
  Name,          \* what a passkey can be called
  None

VARIABLES
  card,          \* which card the person uses
  config,        \* has the account a password; is e-mail configured
  account,       \* is the account there
  sessions,      \* live session rows
  made,          \* sessions and passkeys made so far
  listed,        \* the sessions prop of the page
  hidden,        \* revokedIds
  revoking,      \* the revoke in flight: its key, the ids to hide, its stage
  keys,          \* passkey rows: id and name
  shown,         \* the card's own list
  calls,         \* passkey calls in flight
  estranged,     \* passkeys touched elsewhere or by a call whose answer was lost
  danger,        \* the danger card: hidden, revealed, asking, email-sent, goodbye
  link,          \* the deletion link: none, live, or used
  mailed         \* was a deletion mail really sent, whatever the card was told

sessionCard == <<listed, hidden, revoking>>
passkeyCard == <<keys, shown, calls, estranged>>
dangerCard == <<danger, link, mailed>>
vars == <<card, config, account, sessions, made, sessionCard, passkeyCard, dangerCard>>

Here == 1
SignedIn == account /\ Here \in sessions

Init ==
  /\ card \in {"sessions", "passkeys", "danger"}
  /\ config \in [password : BOOLEAN, email : BOOLEAN]
  /\ account = TRUE
  /\ sessions \in {{1}, {1, 2}} /\ listed = sessions
  /\ \E n \in Name : keys \in {{}, {[id |-> 1, name |-> n]}}
  /\ shown = keys
  /\ card # "passkeys" => keys = {}
  /\ card = "passkeys" => sessions = {1} /\ config = [password |-> TRUE, email |-> TRUE]
  /\ made = [sessions |-> Cardinality(sessions), keys |-> Cardinality(keys)]
  /\ hidden = {} /\ revoking = None
  /\ calls = {} /\ estranged = {}
  /\ danger = "hidden" /\ link = "none" /\ mailed = FALSE

(* ---------------------------- other browsers ------------------------------ *)

SignIn ==
  /\ card = "sessions" /\ account /\ made.sessions < MaxSessions
  /\ made' = [made EXCEPT !.sessions = @ + 1]
  /\ sessions' = sessions \cup {made.sessions + 1}
  /\ UNCHANGED <<card, config, account, sessionCard, passkeyCard, dangerCard>>

\* a sign-out, or a password changed in another browser, which ends this page's session too
SignOut ==
  /\ \E s \in sessions : sessions' = sessions \ {s}
  /\ UNCHANGED <<card, config, account, made, sessionCard, passkeyCard, dangerCard>>

\* ChangePasswordForm sends revokeOtherSessions
ChangePassword ==
  /\ account /\ config.password
  /\ \E s \in sessions : sessions' = {s} /\ sessions # {s}
  /\ UNCHANGED <<card, config, account, made, sessionCard, passkeyCard, dangerCard>>

\* ResetPasswordForm points at the sign-in page; the sessions there are stay, and an
\* account that had no password has one
ResetPassword ==
  /\ account /\ config.email /\ ~config.password
  /\ config' = [config EXCEPT !.password = TRUE]
  /\ UNCHANGED <<card, account, sessions, made, sessionCard, passkeyCard, dangerCard>>

RemoveElsewhere ==
  /\ card = "passkeys" /\ account
  /\ \E k \in keys :
       /\ keys' = keys \ {k}
       /\ estranged' = estranged \cup {k.id}
  /\ UNCHANGED <<card, config, account, sessions, made, shown, calls, sessionCard, dangerCard>>

(* ---------------------------- the sessions card --------------------------- *)

Visible == listed \ hidden

Others == Visible \ {Here}

Revoke ==
  /\ card = "sessions" /\ revoking = None
  /\ \/ \E s \in Others : revoking' = [all |-> FALSE, ids |-> {s}, stage |-> "sent"]
     \/ /\ Others # {}
        /\ revoking' = [all |-> TRUE, ids |-> Others, stage |-> "sent"]
  /\ UNCHANGED <<card, config, account, sessions, made, listed, hidden, passkeyCard, dangerCard>>

\* the endpoint checks the session row itself, never the cookie cache
RevokeLands ==
  /\ revoking # None /\ revoking.stage = "sent"
  /\ IF SignedIn
     THEN /\ sessions' = IF revoking.all THEN {Here} ELSE sessions \ revoking.ids
          /\ revoking' = [revoking EXCEPT !.stage = "done"]
     ELSE /\ revoking' = [revoking EXCEPT !.stage = "refused"]
          /\ UNCHANGED sessions
  /\ UNCHANGED <<card, config, account, made, listed, hidden, passkeyCard, dangerCard>>

HidesWhen(stage) == stage = "done"

RevokeAnswers ==
  /\ revoking # None /\ revoking.stage # "sent"
  /\ hidden' = IF HidesWhen(revoking.stage) THEN hidden \cup revoking.ids ELSE hidden
  /\ revoking' = None
  /\ UNCHANGED <<card, config, account, sessions, made, listed, passkeyCard, dangerCard>>

\* the request failed, or its answer was lost: the error branch, nothing is hidden
RevokeFails ==
  /\ revoking # None
  /\ revoking' = None
  /\ UNCHANGED <<card, config, account, sessions, made, listed, hidden, passkeyCard, dangerCard>>

\* a refresh that commits: the page reads the session table again
Refresh ==
  /\ card = "sessions" /\ SignedIn
  /\ listed # sessions
  /\ listed' = sessions
  /\ UNCHANGED <<card, config, account, sessions, made, hidden, revoking, passkeyCard, dangerCard>>

(* ---------------------------- the passkeys card --------------------------- *)

Call(kind, id, name, nth) ==
  [kind |-> kind, id |-> id, name |-> name, nth |-> nth, seen |-> shown, stage |-> "sent"]
InFlight(kind, id) == \E c \in calls : c.kind = kind /\ c.id = id

\* nth tells a call from the others in flight
StartsCall(kind, id, name) ==
  /\ \E nth \in 1..MaxCalls :
       /\ \A c \in calls : c.nth # nth
       /\ calls' = calls \cup {Call(kind, id, name, nth)}
  /\ UNCHANGED <<card, config, account, sessions, made, keys, shown, estranged, sessionCard, dangerCard>>

\* busy holds the add button
AddKey ==
  /\ card = "passkeys" /\ ~InFlight("add", 0) /\ made.keys < MaxKeys
  /\ \E n \in Name : StartsCall("add", 0, n)
\* saving holds the row's form, which replaces the row's buttons
RenameKey ==
  /\ card = "passkeys"
  /\ \E k \in shown, n \in Name :
       ~InFlight("rename", k.id) /\ n # k.name /\ StartsCall("rename", k.id, n)
\* nothing holds the remove button; a second click is a second call
RemoveKey ==
  /\ card = "passkeys"
  /\ \E k \in shown : ~InFlight("rename", k.id) /\ StartsCall("remove", k.id, k.name)

Stored(id) == \E k \in keys : k.id = id

CallLands ==
  \E c \in calls :
    /\ c.stage = "sent"
    /\ \/ /\ SignedIn /\ c.kind = "add"
          /\ keys' = keys \cup {[id |-> made.keys + 1, name |-> c.name]}
          /\ made' = [made EXCEPT !.keys = @ + 1]
          /\ calls' = (calls \ {c}) \cup {[c EXCEPT !.stage = "done", !.id = made.keys + 1]}
       \/ /\ SignedIn /\ c.kind = "rename" /\ Stored(c.id)
          /\ keys' = { k \in keys : k.id # c.id } \cup {[id |-> c.id, name |-> c.name]}
          /\ calls' = (calls \ {c}) \cup {[c EXCEPT !.stage = "done"]}
          /\ UNCHANGED made
       \/ /\ SignedIn /\ c.kind = "remove" /\ Stored(c.id)
          /\ keys' = { k \in keys : k.id # c.id }
          /\ calls' = (calls \ {c}) \cup {[c EXCEPT !.stage = "done"]}
          /\ UNCHANGED made
       \/ /\ ~SignedIn \/ (c.kind # "add" /\ ~Stored(c.id))
          /\ calls' = (calls \ {c}) \cup {[c EXCEPT !.stage = "refused"]}
          /\ UNCHANGED <<keys, made>>
    /\ UNCHANGED <<card, config, account, sessions, shown, estranged, sessionCard, dangerCard>>

\* each answer patches the list of the moment, not the one its click saw
Base(c) == shown

Patched(c) ==
  CASE c.kind = "add" -> Base(c) \cup {[id |-> c.id, name |-> c.name]}
    [] c.kind = "rename" -> { IF k.id = c.id THEN [id |-> k.id, name |-> c.name] ELSE k : k \in Base(c) }
    [] c.kind = "remove" -> { k \in Base(c) : k.id # c.id }

CallAnswers ==
  \E c \in calls :
    /\ c.stage # "sent"
    /\ shown' = IF c.stage = "done" THEN Patched(c) ELSE shown
    /\ calls' = calls \ {c}
    /\ UNCHANGED <<card, config, account, sessions, made, keys, estranged, sessionCard, dangerCard>>

\* the answer of a call that landed is lost: the card shows an error and its old list
AnswerLost ==
  \E c \in calls :
    /\ c.stage = "done"
    /\ estranged' = estranged \cup {c.id}
    /\ calls' = calls \ {c}
    /\ UNCHANGED <<card, config, account, sessions, made, keys, shown, sessionCard, dangerCard>>

(* ------------------------------ the danger zone --------------------------- *)

\* auth.ts registers sendDeleteAccountVerification only where a mail can be sent
Registered == config.email

\* send() answers a suppressed address, or a provider that refuses, with an error, and
\* auth.ts drops the answer; unconfigured, it sends nothing
Mails == \E out \in BOOLEAN : mailed' = (mailed \/ (config.email /\ out))

Reveal ==
  /\ card = "danger" /\ danger \in {"hidden", "email-sent"}
  /\ danger' = "revealed"
  /\ UNCHANGED <<card, config, account, sessions, made, sessionCard, passkeyCard, link, mailed>>
Cancel ==
  /\ danger = "revealed"
  /\ danger' = "hidden"
  /\ UNCHANGED <<card, config, account, sessions, made, sessionCard, passkeyCard, link, mailed>>

\* requestDeletion, and what /delete-user does: the password or a fresh session, then a
\* link by mail where the callback is registered, the deletion itself where it is not
RequestDeletion ==
  /\ danger = "revealed"
  /\ \E proved \in BOOLEAN :
       \/ /\ ~proved \/ ~SignedIn
          /\ danger' = "revealed"                      \* a toast
          /\ UNCHANGED <<account, sessions, link, mailed>>
       \/ /\ proved /\ SignedIn /\ Registered
          /\ link' = "live" /\ Mails
          /\ danger' = "email-sent"
          /\ UNCHANGED <<account, sessions>>
       \/ /\ proved /\ SignedIn /\ ~Registered
          /\ account' = FALSE /\ sessions' = {}
          /\ danger' = "goodbye"
          /\ UNCHANGED <<link, mailed>>
  /\ UNCHANGED <<card, config, made, sessionCard, passkeyCard>>

\* the deletion landed, or the link was made, and the answer was lost, or was that the sender
\* threw: a generic toast
RequestUnanswered ==
  /\ danger = "revealed" /\ SignedIn
  /\ IF Registered
     THEN link' = "live" /\ Mails /\ UNCHANGED <<account, sessions>>
     ELSE account' = FALSE /\ sessions' = {} /\ UNCHANGED <<link, mailed>>
  /\ UNCHANGED <<card, config, made, sessionCard, passkeyCard, danger>>

\* /delete-user/callback: a one-time link, a session of the account in the clicking browser
OpenLink ==
  /\ link = "live" /\ mailed
  /\ account /\ sessions # {}
  /\ account' = FALSE /\ sessions' = {} /\ link' = "used"
  /\ UNCHANGED <<card, config, made, sessionCard, passkeyCard, danger, mailed>>

Next ==
  \/ SignIn \/ SignOut \/ ChangePassword \/ ResetPassword \/ RemoveElsewhere
  \/ Revoke \/ RevokeLands \/ RevokeAnswers \/ RevokeFails \/ Refresh
  \/ AddKey \/ RenameKey \/ RemoveKey \/ CallLands \/ CallAnswers \/ AnswerLost
  \/ Reveal \/ Cancel \/ RequestDeletion \/ RequestUnanswered \/ OpenLink

Spec == Init /\ [][Next]_vars

-------------------------------------------------------------------------------

TypeOK ==
  /\ card \in {"sessions", "passkeys", "danger"}
  /\ sessions \subseteq 1..MaxSessions /\ listed \subseteq 1..MaxSessions
  /\ keys \subseteq [id : 1..MaxKeys, name : Name] /\ shown \subseteq [id : 1..MaxKeys, name : Name]
  /\ danger \in {"hidden", "revealed", "email-sent", "goodbye"}
  /\ link \in {"none", "live", "used"}

\* A session the sessions card hides is over: hiding is by id and for good, whichever of
\* the answer, a refresh and another browser's sign-in comes first, so a row hidden while
\* its session lives would be a session the person can no longer see or end.
HiddenIsOver == hidden \cap sessions = {}

\* At rest the passkeys card and the passkey table agree about every key that was not
\* touched elsewhere and whose calls were all answered, however the answers crossed.
RestingPasskeysAreTrue ==
  calls = {} =>
    { k \in shown : k.id \notin estranged } = { k \in keys : k.id \notin estranged }

\* What the danger zone does: it asks to look for a mail only where a link waits that mails
\* are sent for, says goodbye only to an account that is gone, and where there is e-mail no
\* account goes but by a link that was mailed, whatever was asked for and answered.
DangerTellsTheTruth ==
  /\ danger = "email-sent" => config.email /\ link # "none"
  /\ danger = "goodbye" => ~account
  /\ ~account /\ config.email => link = "used" /\ mailed

\* delete-account-card.tsx:61 "so the UI can't drift from what the server actually did": the
\* card asks to look for a mail only when one was sent.
EmailSentIsSent == danger = "email-sent" => mailed
-------------------------------------------------------------------------------
\* Why the cards tell the truth: what every step keeps.
Bounds == MaxSessions \in Nat /\ MaxSessions >= 2 /\ MaxKeys \in Nat /\ MaxKeys >= 1

MadeCountsThem ==
  /\ config \in [password : BOOLEAN, email : BOOLEAN]
  /\ made \in [sessions : 1..MaxSessions, keys : 0..MaxKeys]
  /\ sessions \cup listed \cup hidden \subseteq 1..made.sessions
  /\ \A k \in keys \cup shown : k.id \in 1..made.keys

\* What a revocation will hide is over once it has landed, and is never this page's session.
RevokedAreOver ==
  revoking # None =>
    /\ revoking \in [all : BOOLEAN, ids : SUBSET (2..made.sessions), stage : {"sent", "done", "refused"}]
    /\ revoking.stage = "done" => revoking.ids \cap sessions = {}

Requests ==
  [kind : {"add", "rename", "remove"}, id : 0..made.keys, name : Name,
   nth : 1..MaxCalls, seen : SUBSET [id : 1..MaxKeys, name : Name], stage : {"sent", "done", "refused"}]

\* One call of a kind for a passkey, removals apart, and none for a passkey still to be made
\* but one.
CallsAreApart ==
  /\ calls \subseteq Requests
  /\ \A c \in calls :
       /\ c.id = 0 <=> c.kind = "add" /\ c.stage # "done"
       /\ c.kind = "add" /\ c.stage = "sent" => made.keys < MaxKeys
  /\ \A c, d \in calls : c.kind = d.kind /\ c.id = d.id /\ c.kind # "remove" => c = d

Of(list, id) == { k \in list : k.id = id }
Landed(id) == { c \in calls : c.id = id /\ c.stage = "done" }

\* The answers on their way will bring the card to what is stored, whichever comes first.
Agrees(id) ==
  /\ Landed(id) = {} => Of(shown, id) = Of(keys, id)
  /\ (\E c \in Landed(id) : c.kind = "remove") => Of(keys, id) = {}
  /\ \A c \in Landed(id) : c.kind = "add" =>
       /\ Of(keys, id) = {[id |-> id, name |-> c.name]} /\ Of(shown, id) = {}
       /\ \A d \in calls : d.id = id => d = c
  /\ \A c \in Landed(id) : c.kind = "rename" /\ (\A d \in Landed(id) : d.kind # "remove") =>
       \/ Of(keys, id) = {[id |-> id, name |-> c.name]} /\ Of(shown, id) # {}
       \/ Of(keys, id) = {} /\ Of(shown, id) = {}

AnswersAgree == \A id \in 1..made.keys \ estranged : Agrees(id)

CardsInv ==
  /\ TypeOK /\ MadeCountsThem /\ RevokedAreOver /\ CallsAreApart /\ AnswersAgree
  /\ HiddenIsOver /\ DangerTellsTheTruth
===============================================================================

---------------------------- MODULE TwoFactorCard ----------------------------
(***************************************************************************)
(* components/account/two-factor-card.tsx: enrolling, disabling and new    *)
(* backup codes, in several tabs of one account, with answers that take    *)
(* their time or are lost with their tab.  The /two-factor endpoints are   *)
(* Better Auth's and external; a secret and the codes made with it are a   *)
(* number.                                                                 *)
(***************************************************************************)
EXTENDS Naturals

CONSTANTS
  Tab,
  None,
  MaxMade,     \* bound: secrets and sets of codes made
  MaxReloads   \* bound: pages loaded again

VARIABLES
  enabled,     \* user.twoFactorEnabled
  secret,      \* secret of the two_factor row; 0 without a row
  codes,       \* backup codes of the row
  made,        \* secrets and sets of codes made so far
  isEnabled,   \* tab -> its badge
  mode,        \* tab -> "idle", "enrollPassword", "enrollVerify", "disable", "regenerate"
  enrollData,  \* tab -> secret and codes shown while enrolling, or None
  regenCodes,  \* tab -> new codes on show, or None
  calls,       \* requests and answers under way: [tab, does, with, answer]
  \* History, read by properties and bounds only.
  shown,       \* sets of codes that were on a screen
  abandoned,   \* tabs where a verification under way was cancelled
  lost,        \* a page was left while an answer was due
  reloads

server == <<enabled, secret, codes, made>>
card   == <<isEnabled, mode, enrollData, regenCodes>>
ghosts == <<shown, abandoned, lost, reloads>>
vars   == <<server, card, calls, ghosts>>

Modes == {"idle", "enrollPassword", "enrollVerify", "disable", "regenerate"}

Init ==
  /\ enabled = FALSE /\ secret = 0 /\ codes = 0 /\ made = 0
  /\ isEnabled = [t \in Tab |-> FALSE] /\ mode = [t \in Tab |-> "idle"]
  /\ enrollData = [t \in Tab |-> None] /\ regenCodes = [t \in Tab |-> None]
  /\ calls = {}
  /\ shown = {} /\ abandoned = {} /\ lost = FALSE /\ reloads = 0

\* The codes on the screen of a tab: under the badge, the form of the mode.
OnScreen(t) ==
  IF ~isEnabled'[t]
    THEN IF mode'[t] = "enrollVerify" /\ enrollData'[t] # None THEN {enrollData'[t].codes} ELSE {}
    ELSE IF mode'[t] = "regenerate" /\ regenCodes'[t] # None THEN {regenCodes'[t]} ELSE {}

\* toIdle and start: every form and every answer kept is cleared.
Turn(t, to) ==
  /\ mode' = [mode EXCEPT ![t] = to]
  /\ enrollData' = [enrollData EXCEPT ![t] = None]
  /\ regenCodes' = [regenCodes EXCEPT ![t] = None]

Start(t) ==
  /\ mode[t] = "idle" \/ (isEnabled[t] /\ mode[t] = "enrollVerify")
  /\ \E to \in IF isEnabled[t] THEN {"disable", "regenerate"} ELSE {"enrollPassword"} : Turn(t, to)
  /\ UNCHANGED <<server, isEnabled, calls, ghosts>>

Calling(t, what) == \E c \in calls : c.tab = t /\ c.does = what
\* A password form is disabled, its cancel button too, while it submits.
Submitting(t) == \E c \in calls : c.tab = t /\ c.does # "verify"

Call(t, what, with) ==
  /\ ~Calling(t, what)
  /\ calls' = calls \cup {[tab |-> t, does |-> what, with |-> with, answer |-> None]}
  /\ UNCHANGED <<server, card, ghosts>>

SubmitPassword(t) ==
  /\ ~Submitting(t)
  /\ \/ mode[t] = "enrollPassword" /\ Call(t, "enable", 0)
     \/ mode[t] = "disable" /\ Call(t, "disable", 0)
     \/ mode[t] = "regenerate" /\ regenCodes[t] = None /\ Call(t, "regenerate", 0)

\* The code is the authenticator's for the secret on the screen.
SubmitCode(t) ==
  /\ ~isEnabled[t] /\ mode[t] = "enrollVerify" /\ enrollData[t] # None
  /\ Call(t, "verify", enrollData[t].secret)

\* Cancel and Done; cancelling the second stage does not wait for its answer.
Cancel(t) ==
  /\ mode[t] # "idle" /\ ~Submitting(t)
  /\ Turn(t, "idle")
  /\ abandoned' = IF Calling(t, "verify") THEN abandoned \cup {t} ELSE abandoned
  /\ UNCHANGED <<server, isEnabled, calls, shown, lost, reloads>>

-----------------------------------------------------------------------------
\* Better Auth.  enable writes a new row and leaves the flag; the first valid
\* code sets it; disable drops the row; codes are made for an enabled account.
Serve(c) ==
  /\ c.answer = None
  /\ \/ /\ c.does = "enable" /\ made < MaxMade
        /\ made' = made + 1 /\ secret' = made' /\ codes' = made' /\ UNCHANGED enabled
        /\ calls' = (calls \ {c}) \cup {[c EXCEPT !.answer = [ok |-> TRUE, data |-> made']]}
     \/ /\ c.does = "verify"
        /\ enabled' = (enabled \/ secret = c.with) /\ UNCHANGED <<secret, codes, made>>
        /\ calls' = (calls \ {c}) \cup {[c EXCEPT !.answer = [ok |-> secret = c.with, data |-> 0]]}
     \/ /\ c.does = "disable"
        /\ enabled' = FALSE /\ secret' = 0 /\ codes' = 0 /\ UNCHANGED made
        /\ calls' = (calls \ {c}) \cup {[c EXCEPT !.answer = [ok |-> TRUE, data |-> 0]]}
     \/ /\ c.does = "regenerate" /\ enabled /\ made < MaxMade
        /\ made' = made + 1 /\ codes' = made' /\ UNCHANGED <<enabled, secret>>
        /\ calls' = (calls \ {c}) \cup {[c EXCEPT !.answer = [ok |-> TRUE, data |-> made']]}
     \/ /\ c.does = "regenerate" /\ ~enabled /\ UNCHANGED server
        /\ calls' = (calls \ {c}) \cup {[c EXCEPT !.answer = [ok |-> FALSE, data |-> 0]]}
  /\ UNCHANGED <<card, ghosts>>

\* onEnrollPassword, onEnrollVerify, onDisable and onRegenerate after their
\* await; an error is shown and changes nothing else.
EnrollStarted(c) ==
  /\ enrollData' = [enrollData EXCEPT ![c.tab] = [secret |-> c.answer.data, codes |-> c.answer.data]]
  /\ mode' = [mode EXCEPT ![c.tab] = "enrollVerify"]
  /\ UNCHANGED <<isEnabled, regenCodes>>

Enrolled(c) == isEnabled' = [isEnabled EXCEPT ![c.tab] = TRUE] /\ Turn(c.tab, "idle")

Disabled(c) == isEnabled' = [isEnabled EXCEPT ![c.tab] = FALSE] /\ Turn(c.tab, "idle")

\* Variation: the card returns to its idle state, as the other handlers do.
RegeneratedToIdle(c) == Turn(c.tab, "idle") /\ UNCHANGED isEnabled
Regenerated(c) ==
  /\ regenCodes' = [regenCodes EXCEPT ![c.tab] = c.answer.data]
  /\ UNCHANGED <<isEnabled, mode, enrollData>>

Answer(c) ==
  /\ c.answer # None /\ c.tab # None
  /\ calls' = calls \ {c}
  /\ IF ~c.answer.ok THEN UNCHANGED card
     ELSE CASE c.does = "enable" -> EnrollStarted(c)
            [] c.does = "verify" -> Enrolled(c)
            [] c.does = "disable" -> Disabled(c)
            [] c.does = "regenerate" -> Regenerated(c)
  /\ shown' = shown \cup OnScreen(c.tab)
  /\ UNCHANGED <<server, abandoned, lost, reloads>>

\* The page is loaded again: the badge is the server's, the requests under way
\* still reach it and nobody waits for their answers.
Reload(t) ==
  /\ reloads < MaxReloads /\ reloads' = reloads + 1
  /\ isEnabled' = [isEnabled EXCEPT ![t] = enabled]
  /\ Turn(t, "idle")
  /\ calls' = {IF c.tab = t THEN [c EXCEPT !.tab = None] ELSE c : c \in calls}
  /\ lost' = (lost \/ \E c \in calls : c.tab = t)
  /\ UNCHANGED <<server, shown, abandoned>>

Next ==
  \/ \E t \in Tab : Start(t) \/ SubmitPassword(t) \/ SubmitCode(t) \/ Cancel(t) \/ Reload(t)
  \/ \E c \in calls : Serve(c) \/ Answer(c)

Spec == Init /\ [][Next]_vars

TypeOK ==
  /\ enabled \in BOOLEAN /\ secret \in 0 .. made /\ codes \in 0 .. made /\ made \in 0 .. MaxMade
  /\ isEnabled \in [Tab -> BOOLEAN] /\ mode \in [Tab -> Modes]
  /\ regenCodes \in [Tab -> (1 .. made) \cup {None}]
  /\ \A c \in calls : c.tab \in Tab \cup {None}
  /\ shown \subseteq 1 .. made /\ reloads \in 0 .. MaxReloads

\* Nobody is locked in: whatever the tabs do one after the other or at once,
\* the secret and the backup codes of an account with two factors have been on
\* a screen, or the answer that brings them is on its way - unless the page was
\* left while it was due, or a verification under way was cancelled.
NobodyIsLockedOut ==
  enabled => \A n \in {secret, codes} :
    \/ n \in shown \/ lost \/ abandoned # {}
    \/ \E c \in calls : c.answer # None /\ c.answer.ok /\ c.answer.data = n

\* "abandoning setup leaves the user un-enrolled": cancelling a setup does not
\* turn two factors on.
AbandonedStaysOff == [][~enabled /\ abandoned # {} => ~enabled']_vars
-----------------------------------------------------------------------------
\* Why nobody is locked out: what every step keeps.
Bounds ==
  /\ MaxMade \in Nat /\ MaxReloads \in Nat
  /\ None \notin Nat \cup Tab \cup [secret : Nat, codes : Nat] \cup [ok : BOOLEAN, data : Nat]

Requests == [tab : Tab \cup {None}, does : {"enable", "verify", "disable", "regenerate"}, with : Nat,
             answer : [ok : BOOLEAN, data : 0 .. made] \cup {None}]

CallsAreTyped ==
  /\ enrollData \in [Tab -> [secret : 1 .. made, codes : 1 .. made] \cup {None}]
  /\ calls \subseteq Requests
  /\ \A c \in calls : c.answer # None =>
       (c.answer.data # 0 <=> c.answer.ok /\ c.does \in {"enable", "regenerate"})
  /\ \A c \in calls : c.does = "verify" => c.with # 0

\* Two factors need a row, and until they are on its codes are those made with it.
RowIsWhole == (enabled => secret # 0 /\ codes # 0) /\ (~enabled => codes = secret)

\* A page that was neither left nor cancelled while it verified waits for its answer in
\* the form that asked, and has shown what it enrols.
CardWaits ==
  ~lost /\ abandoned = {} =>
    /\ \A c, d \in calls : c.tab = d.tab => c = d
    /\ \A t \in Tab :
         /\ mode[t] \in {"enrollPassword", "enrollVerify"} => ~isEnabled[t]
         /\ mode[t] \in {"disable", "regenerate"} => isEnabled[t]
         /\ enrollData[t] # None =>
              enrollData[t].secret = enrollData[t].codes /\ enrollData[t].codes \in shown
    /\ \A c \in calls :
         /\ c.tab # None
         /\ c.does = "enable" => mode[c.tab] = "enrollPassword"
         /\ c.does = "verify" => mode[c.tab] = "enrollVerify" /\ enrollData[c.tab] # None
                                /\ c.with = enrollData[c.tab].secret
         /\ c.does \in {"disable", "regenerate"} => mode[c.tab] = c.does

CardInv == TypeOK /\ CallsAreTyped /\ RowIsWhole /\ CardWaits /\ NobodyIsLockedOut
=============================================================================

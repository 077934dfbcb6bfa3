----------------------------- MODULE SignInPage -----------------------------
(* The sign-in page of one visitor: the password form, the magic-link form   *)
(* and the two-factor challenge that replace each other on it, and the       *)
(* Turnstile widget that gives each form a single-use token                  *)
(* (components/auth/login-form.tsx, captcha-widget.tsx). An answer may come  *)
(* when the visitor has moved to another view. signup-form.tsx and           *)
(* forgot-password-form.tsx use the widget as the password form does.        *)
EXTENDS Integers, FiniteSets

CONSTANT MaxTokens      \* tokens the widgets mint in one behaviour (bound)

VARIABLES
  element,     \* the <script> element of api.js in the document
  promise,     \* the module's scriptPromise: "none" or "pending"
  challenge,   \* LoginForm's state: the password was right, a code is owed
  magic,       \* LoginForm's state: the magic-link card is shown instead
  sent,        \* MagicLinkRequest's state: the link is on its way
  left,        \* the visitor has been navigated to the application
  widget,      \* the widget of the view
  token,       \* per form, the captchaToken it would send; 0 is none
  minted,      \* number of tokens minted so far
  spent,       \* tokens the server has verified
  sending      \* per form, its request is in flight

page == <<challenge, magic, sent, left>>
script == <<element, promise>>
vars == <<element, promise, challenge, magic, sent, left, widget, token, minted, spent, sending>>

Form == {"login", "magic"}

\* The card on the page, as LoginForm's early returns choose it.
ViewOf(ch, mg) == IF ch THEN "challenge" ELSE IF mg THEN "magic" ELSE "login"
View == ViewOf(challenge, magic)

\* Mounting a view with a form mounts its widget: it renders at once when the
\* script is there, shares a load under way, or starts one. An element that
\* is already in the document is listened to and not replaced.
Mount(view) ==
  IF view = "challenge"
  THEN widget' = "none" /\ UNCHANGED script
  ELSE IF element = "loaded"
       THEN widget' = "rendered" /\ UNCHANGED script
       ELSE /\ widget' = "waiting"
            /\ element' = IF element = "absent" THEN "loading" ELSE element
            /\ promise' = "pending"

Init ==
  /\ element = "loading" /\ promise = "pending" /\ widget = "waiting"
  /\ challenge = FALSE /\ magic = FALSE /\ sent = FALSE /\ left = FALSE
  /\ token = [f \in Form |-> 0] /\ minted = 0 /\ spent = {}
  /\ sending = [f \in Form |-> FALSE]

ScriptLoads ==
  /\ element = "loading" /\ ~left
  /\ element' = "loaded"
  /\ widget' = IF widget = "waiting" THEN "rendered" ELSE widget
  /\ UNCHANGED <<promise, page, token, minted, spent, sending>>

\* The widget that waited gives up; the promise is forgotten, the element stays.
ScriptFails ==
  /\ element = "loading" /\ ~left
  /\ element' = "failed" /\ promise' = "none"
  /\ widget' = IF widget = "waiting" THEN "off" ELSE widget
  /\ UNCHANGED <<page, token, minted, spent, sending>>

\* Turnstile solves its challenge and calls back with a new token.
Solve ==
  /\ widget = "rendered" /\ minted < MaxTokens
  /\ minted' = minted + 1
  /\ token' = [token EXCEPT ![View] = minted']
  /\ widget' = "solved"
  /\ UNCHANGED <<script, page, spent, sending>>

\* error-callback and expired-callback; Turnstile challenges again by itself.
Expire ==
  /\ widget \in {"rendered", "solved"}
  /\ token' = [token EXCEPT ![View] = 0]
  /\ widget' = "rendered"
  /\ UNCHANGED <<script, page, minted, spent, sending>>

\* The submit button needs a token and no request of its form in flight.
Submit(f) ==
  /\ View = f /\ ~left /\ ~(f = "magic" /\ sent)
  /\ token[f] # 0 /\ ~sending[f]
  /\ sending' = [sending EXCEPT ![f] = TRUE]
  /\ spent' = spent \cup {token[f]}
  /\ UNCHANGED <<script, page, widget, token, minted>>

\* reset() of the widget handle: nothing without a rendered widget.
ResetWidget(f) ==
  IF View = f /\ widget \in {"rendered", "solved"}
  THEN token' = [token EXCEPT ![f] = 0] /\ widget' = "rendered"
  ELSE UNCHANGED <<token, widget>>

\* A variation: the refused token is kept for the next attempt.
RefusedKeepingToken ==
  /\ sending["login"]
  /\ sending' = [sending EXCEPT !["login"] = FALSE]
  /\ UNCHANGED <<script, page, widget, token, minted, spent>>

Refused ==
  /\ sending["login"]
  /\ sending' = [sending EXCEPT !["login"] = FALSE]
  /\ ResetWidget("login")
  /\ UNCHANGED <<script, page, minted, spent>>

\* The password was right: a challenge, or a session and the application.
Accepted(twoFactor) ==
  /\ sending["login"]
  /\ sending' = [sending EXCEPT !["login"] = FALSE]
  /\ challenge' = twoFactor /\ left' = ~twoFactor
  /\ widget' = "none"
  /\ UNCHANGED <<script, magic, sent, token, minted, spent>>

\* A code is checked by verifyTotp or verifyBackupCode, without a token.
VerifyCode ==
  /\ challenge /\ ~left
  /\ left' = TRUE
  /\ UNCHANGED <<script, challenge, magic, sent, widget, token, minted, spent, sending>>

\* A passkey signs in without a token.
PasskeySignIn ==
  /\ View = "login" /\ ~left
  /\ left' = TRUE /\ widget' = "none"
  /\ UNCHANGED <<script, challenge, magic, sent, token, minted, spent, sending>>

\* The card that was there before the challenge is mounted again; the
\* password form's token is state of the page and is still there.
CancelChallenge ==
  /\ challenge /\ ~left
  /\ challenge' = FALSE /\ sent' = FALSE
  /\ Mount(ViewOf(FALSE, magic))
  /\ token' = [token EXCEPT !["magic"] = 0]
  /\ sending' = [sending EXCEPT !["magic"] = FALSE]
  /\ UNCHANGED <<magic, left, minted, spent>>

\* The magic-link card is a fresh component: its token and its state start empty.
OpenMagicLink ==
  /\ View = "login" /\ ~left
  /\ magic' = TRUE /\ sent' = FALSE
  /\ Mount("magic")
  /\ token' = [token EXCEPT !["magic"] = 0]
  /\ sending' = [sending EXCEPT !["magic"] = FALSE]
  /\ UNCHANGED <<challenge, left, minted, spent>>

CloseMagicLink ==
  /\ View = "magic" /\ ~left
  /\ magic' = FALSE /\ sent' = FALSE
  /\ Mount("login")
  /\ token' = [token EXCEPT !["magic"] = 0]
  /\ sending' = [sending EXCEPT !["magic"] = FALSE]
  /\ UNCHANGED <<challenge, left, minted, spent>>

\* The widget is reset either way; a link sent replaces the form.
LinkAnswered(ok) ==
  /\ sending["magic"]
  /\ sending' = [sending EXCEPT !["magic"] = FALSE]
  /\ IF ok /\ View = "magic"
     THEN sent' = TRUE /\ widget' = "none" /\ token' = [token EXCEPT !["magic"] = 0]
     ELSE sent' = sent /\ ResetWidget("magic")
  /\ UNCHANGED <<script, challenge, magic, left, minted, spent>>

Next ==
  \/ ScriptLoads \/ ScriptFails \/ Solve \/ Expire
  \/ \E f \in Form : Submit(f)
  \/ Refused
  \/ \E twoFactor \in BOOLEAN : Accepted(twoFactor)
  \/ PasskeySignIn \/ VerifyCode \/ CancelChallenge \/ OpenMagicLink \/ CloseMagicLink
  \/ \E ok \in BOOLEAN : LinkAnswered(ok)

Spec == Init /\ [][Next]_vars

-----------------------------------------------------------------------------
(* Every variable stays in its domain.                                       *)
TypeOK ==
  /\ element \in {"absent", "loading", "loaded", "failed"} /\ promise \in {"none", "pending"}
  /\ challenge \in BOOLEAN /\ magic \in BOOLEAN /\ sent \in BOOLEAN /\ left \in BOOLEAN
  /\ widget \in {"none", "waiting", "rendered", "solved", "off"}
  /\ token \in [Form -> 0..MaxTokens] /\ minted \in 0..MaxTokens
  /\ spent \subseteq 1..MaxTokens /\ sending \in [Form -> BOOLEAN]

(* A widget that shows itself solved, on a form that waits for nothing,      *)
(* stands for a token the server has not seen: the next attempt is never     *)
(* refused for the attempt before it. A token spent in one view may still be *)
(* in the form's state when the visitor comes back from the challenge, but   *)
(* then the widget is a new one and is about to replace it.                  *)
SolvedIsFresh ==
  \A f \in Form : View = f /\ ~left /\ ~sending[f] /\ widget = "solved" => token[f] \notin spent

(* captcha-widget.tsx:60 "Allow a later retry if the network hiccuped": a    *)
(* widget that waits for the script waits for a load that is under way.      *)
RetryIsPossible == widget = "waiting" => element = "loading"
-----------------------------------------------------------------------------
(* Why the next attempt is fresh: every token was minted, and the widget     *)
(* that shows itself solved has minted the last one of its view.             *)
Bounds == MaxTokens \in Nat

TokensAreMinted == spent \subseteq 1..minted /\ token \in [Form -> 0..minted]

PageInv == TypeOK /\ TokensAreMinted /\ SolvedIsFresh
=============================================================================

---------------------------- MODULE AccountEmail ----------------------------
(***************************************************************************)
(* The e-mailed links of one account (packages/auth/src/auth.ts): sign-up  *)
(* verification and the two-hop change of address.  The endpoints belong   *)
(* to Better Auth and are external; who is written to, what a completed    *)
(* verification sets off and which sessions survive it is what the         *)
(* callbacks of this repository decide.                                    *)
(***************************************************************************)
EXTENDS Naturals, FiniteSets, TLAPS

CONSTANTS
  Address,      \* mail addresses, First is the one signed up with
  First,
  Browser,      \* browsers that may hold a session of the account
  MaxLinks,     \* bound: links mailed
  MaxFaults     \* bound: notices that fail

VARIABLES
  configured,   \* isEmailConfigured(), read when the process starts
  account,      \* "none" or "live"
  email, verified,
  sessions,     \* browsers signed in
  links,        \* links in a mailbox: [kind, at, old, new]
  \* History, read by properties and bounds only.
  clicked,      \* <<mailbox, old, new>>: clicks that approved a change
  applied,      \* <<old, new>>: changes of a verified address
  told,         \* <<address, old, new>>: notices of a change
  unsent,       \* changes whose notice failed
  welcomes,     \* welcome mails enqueued
  faults

identity == <<configured, account, email, verified, sessions>>
history  == <<clicked, applied, told, unsent, welcomes, faults>>
vars     == <<identity, links, history>>

Link(kind, at, old, new) == [kind |-> kind, at |-> at, old |-> old, new |-> new]

Init ==
  /\ configured \in BOOLEAN
  /\ account = "none" /\ email = First /\ verified = FALSE
  /\ sessions = {} /\ links = {}
  /\ clicked = {} /\ applied = {} /\ told = {} /\ unsent = {}
  /\ welcomes = 0 /\ faults = 0

\* send answers with an error and the callers carry on: unconfigured, the
\* address suppressed or the provider failing, the mail leaves no link.
Mailed(link) ==
  \/ /\ configured /\ links' = links \cup {link}
     /\ Cardinality(links') <= MaxLinks
  \/ UNCHANGED links

\* sendVerificationEmail: one callback, the kind of the token picks the mail.
VerificationMail(kind, to, old) == Link(kind, to, old, to)

\* sendOnSignUp; with e-mail configured nobody is signed in before verifying.
SignUp(b) ==
  /\ account = "none"
  /\ account' = "live"
  /\ sessions' = IF configured THEN {} ELSE {b}
  /\ Mailed(VerificationMail("signup", First, First))
  /\ UNCHANGED <<configured, email, verified, history>>

\* A provider may vouch for an address it has not verified: a session without
\* a verified address although e-mail is configured.
SignUpSocial(b) ==
  /\ account = "none"
  /\ account' = "live" /\ sessions' = {b}
  /\ UNCHANGED <<configured, email, verified, links, history>>

SignIn(b) ==
  /\ account = "live" /\ b \notin sessions /\ verified
  /\ sessions' = sessions \cup {b}
  /\ UNCHANGED <<configured, account, email, verified, links, history>>

\* Variation: the confirmation goes to the new address.
ConfirmationToNew(new) == Link("confirm", new, email, new)

\* sendChangeEmailConfirmationEmail: to the address that controls the account.
ConfirmationTo(new) == Link("confirm", email, email, new)

\* updateEmailWithoutVerification: without a verified address to confirm
\* against the change is immediate, and the new address is asked to verify.
ChangeEmail(b, new) ==
  /\ account = "live" /\ b \in sessions /\ new # email
  /\ IF verified
       THEN Mailed(ConfirmationTo(new)) /\ UNCHANGED email
       ELSE email' = new /\ Mailed(VerificationMail("signup", new, new))
  /\ UNCHANGED <<configured, account, verified, sessions, history>>

\* Hop 1, clicked from the mailbox the link is in: the new address is asked.
ClickConfirm(l) ==
  /\ l \in links /\ l.kind = "confirm" /\ account = "live" /\ email = l.old
  /\ clicked' = clicked \cup {<<l.at, l.old, l.new>>}
  /\ Mailed(VerificationMail("change", l.new, l.old))
  /\ UNCHANGED <<identity, applied, told, unsent, welcomes, faults>>

\* getEmailChangeFromToken
IsChange(l) == l.kind = "change"

\* revokeOtherSessionsAfterEmailChange: a click from a browser without a session
\* has no session to keep, so the call throws and nobody is signed out; nor is
\* anybody when the call fails for another reason.
RevokeOthers(b) ==
  \/ b \in sessions /\ sessions' = {b}
  \/ UNCHANGED sessions

\* sendEmailChangedNoticeEmail: the address in the token, not the user's.
Notified(l) == l.old

\* afterEmailVerification of a change: the notice, the revocation of the other
\* sessions and the audit entry are settled apart, each of them may fail.
AfterChange(l, b) ==
  /\ \/ told' = told \cup {<<Notified(l), l.old, l.new>>} /\ UNCHANGED <<unsent, faults>>
     \/ faults < MaxFaults /\ faults' = faults + 1
        /\ unsent' = unsent \cup {<<l.old, l.new>>} /\ UNCHANGED told
  /\ RevokeOthers(b)
  /\ UNCHANGED welcomes

\* ... and of a first verification: signed in, and the welcome mail enqueued.
AfterFirst(b) ==
  /\ welcomes' = welcomes + 1
  /\ sessions' = sessions \cup {b}
  /\ UNCHANGED <<told, unsent, faults>>

\* A link that verifies: of a change, or of an address not verified yet.
ClickVerify(l, b) ==
  /\ l \in links /\ account = "live" /\ email = l.old
  /\ l.kind = "change" \/ (l.kind = "signup" /\ ~verified)
  /\ email' = l.new /\ verified' = TRUE
  /\ clicked' = clicked \cup {<<l.at, l.old, l.new>>}
  /\ applied' = IF verified THEN applied \cup {<<l.old, l.new>>} ELSE applied
  /\ IF IsChange(l) THEN AfterChange(l, b) ELSE AfterFirst(b)
  /\ UNCHANGED <<configured, account, links>>

Next ==
  \/ \E b \in Browser :
       \/ SignUp(b) \/ SignUpSocial(b) \/ SignIn(b)
       \/ \E new \in Address : ChangeEmail(b, new)
       \/ \E l \in links : ClickVerify(l, b)
  \/ \E l \in links : ClickConfirm(l)

Spec == Init /\ [][Next]_vars

TypeOK ==
  /\ account \in {"none", "live"} /\ email \in Address
  /\ verified \in BOOLEAN /\ sessions \subseteq Browser
  /\ links \subseteq [kind : {"signup", "confirm", "change"},
                      at : Address, old : Address, new : Address]
  /\ welcomes \in Nat /\ faults \in 0 .. MaxFaults

\* A verified address is replaced only after links in both mailboxes, the one
\* that controls the account and the new one, have been clicked; concurrent
\* requests for different addresses do not lend each other their approval.
BothMailboxesAgree ==
  \A c \in applied : <<c[1], c[1], c[2]>> \in clicked /\ <<c[2], c[1], c[2]>> \in clicked

\* The address that was replaced is told, unless the notice itself failed.
OldAddressIsTold ==
  \A c \in applied : <<c[1], c[1], c[2]>> \in told \/ c \in unsent

\* The same callback serves first verifications and changes of address: an
\* account is welcomed once, whatever links are clicked, in whatever order.
WelcomedOnce == welcomes <= 1
-----------------------------------------------------------------------------
(* What holds of any number of addresses, browsers and links.  A change is *)
(* approved twice because a link that applies it exists only once the first*)
(* mailbox was clicked (ChangesAreAsked), and a link is read where it was  *)
(* sent to.                                                                *)

Click(at, l) == <<at, l.old, l.new>>

ChangesAreAsked ==
  \A l \in links :
    /\ l.kind = "confirm" => l.at = l.old
    /\ l.kind = "change" => l.at = l.new /\ Click(l.old, l) \in clicked

WelcomedAreVerified ==
  /\ welcomes \in Nat /\ welcomes <= 1
  /\ welcomes > 0 => verified

EmailInv == ChangesAreAsked /\ BothMailboxesAgree /\ OldAddressIsTold /\ WelcomedAreVerified

\* A link mailed after an approval, or a first one, keeps to the rule.
LEMMA MailKeeps ==
  ASSUME EmailInv, NEW l, Mailed(l), clicked \subseteq clicked',
         l.kind = "confirm" => l.at = l.old,
         l.kind = "change" => l.at = l.new /\ Click(l.old, l) \in clicked'
  PROVE  ChangesAreAsked'
BY DEF EmailInv, ChangesAreAsked, Mailed

LEMMA EmailStep == EmailInv /\ [Next]_vars => EmailInv'
<1> SUFFICES ASSUME EmailInv, [Next]_vars PROVE EmailInv'
  OBVIOUS
<1>0. ChangesAreAsked /\ BothMailboxesAgree /\ OldAddressIsTold /\ WelcomedAreVerified
  BY DEF EmailInv
<1>1. ASSUME NEW b \in Browser, SignUp(b) PROVE EmailInv'
  <2>1. ChangesAreAsked'
    BY <1>1, MailKeeps DEF SignUp, VerificationMail, Link, history
  <2> QED BY <1>0, <1>1, <2>1
          DEF SignUp, history, EmailInv, BothMailboxesAgree, OldAddressIsTold, WelcomedAreVerified
<1>2. ASSUME NEW b \in Browser, SignUpSocial(b) \/ SignIn(b) PROVE EmailInv'
  BY <1>0, <1>2 DEF SignUpSocial, SignIn, history, EmailInv, ChangesAreAsked,
                    BothMailboxesAgree, OldAddressIsTold, WelcomedAreVerified
<1>3. ASSUME NEW b \in Browser, NEW new \in Address, ChangeEmail(b, new) PROVE EmailInv'
  <2>1. ChangesAreAsked'
    BY <1>3, MailKeeps DEF ChangeEmail, ConfirmationTo, VerificationMail, Link, history
  <2> QED BY <1>0, <1>3, <2>1
          DEF ChangeEmail, history, EmailInv, BothMailboxesAgree, OldAddressIsTold,
              WelcomedAreVerified
<1>4. ASSUME NEW l \in links, ClickConfirm(l) PROVE EmailInv'
  <2> DEFINE mail == VerificationMail("change", l.new, l.old)
  <2>1. ChangesAreAsked'
    <3>1. clicked' = clicked \cup {Click(l.old, l)} /\ Mailed(mail)
      BY <1>0, <1>4 DEF ClickConfirm, Click, ChangesAreAsked
    <3>2. mail.kind = "change" /\ mail.at = mail.new /\ Click(mail.old, mail) = Click(l.old, l)
      BY DEF VerificationMail, Link, Click
    <3> QED BY <3>1, <3>2, MailKeeps
  <2> QED BY <1>0, <1>4, <2>1
          DEF ClickConfirm, identity, EmailInv, BothMailboxesAgree, OldAddressIsTold,
              WelcomedAreVerified
<1>5. ASSUME NEW l \in links, NEW b \in Browser, ClickVerify(l, b) PROVE EmailInv'
  <2>1. ChangesAreAsked'
    <3>1. clicked \subseteq clicked' /\ links' = links
      BY <1>5 DEF ClickVerify
    <3> QED BY <1>0, <3>1 DEF ChangesAreAsked
  <2>2. CASE l.kind = "change"
    <3>1. BothMailboxesAgree'
      <4>1. clicked' = clicked \cup {Click(l.new, l)} /\ Click(l.old, l) \in clicked
            /\ applied' \subseteq applied \cup {<<l.old, l.new>>}
        BY <1>0, <1>5, <2>2 DEF ClickVerify, ChangesAreAsked, Click
      <4>2. ASSUME NEW c \in applied'
            PROVE  <<c[1], c[1], c[2]>> \in clicked' /\ <<c[2], c[1], c[2]>> \in clicked'
        <5>1. CASE c \in applied
          BY <1>0, <4>1, <5>1 DEF BothMailboxesAgree
        <5>2. CASE c = <<l.old, l.new>>
          <6>1. c[1] = l.old /\ c[2] = l.new
            BY <5>2
          <6>2. <<l.old, l.old, l.new>> \in clicked' /\ <<l.new, l.old, l.new>> \in clicked'
            BY <4>1 DEF Click
          <6> QED BY <6>1, <6>2, Zenon
        <5> QED BY <4>1, <5>1, <5>2
      <4> QED BY <4>2, Zenon DEF BothMailboxesAgree
    <3>2. OldAddressIsTold' /\ WelcomedAreVerified'
      BY <1>0, <1>5, <2>2
      DEF ClickVerify, AfterChange, IsChange, Notified, OldAddressIsTold, WelcomedAreVerified
    <3> QED BY <2>1, <3>1, <3>2 DEF EmailInv
  <2>3. CASE l.kind = "signup" /\ ~verified
    BY <1>0, <1>5, <2>1, <2>3
    DEF ClickVerify, AfterFirst, IsChange, EmailInv, BothMailboxesAgree, OldAddressIsTold,
        WelcomedAreVerified
  <2> QED BY <1>5, <2>2, <2>3 DEF ClickVerify
<1>6. CASE UNCHANGED vars
  BY <1>0, <1>6 DEF vars, identity, history, EmailInv, ChangesAreAsked, BothMailboxesAgree,
                    OldAddressIsTold, WelcomedAreVerified
<1> QED BY <1>1, <1>2, <1>3, <1>4, <1>5, <1>6 DEF Next

\* Whatever links are clicked, late, twice or in another browser: a verified
\* address moves only with both mailboxes' consent, the old one is told, and an
\* account is welcomed once (the callbacks of auth.ts).
THEOREM ChangesAreAgreed == Spec => [](BothMailboxesAgree /\ OldAddressIsTold /\ WelcomedOnce)
<1>1. Init => EmailInv
  BY DEF Init, EmailInv, ChangesAreAsked, BothMailboxesAgree, OldAddressIsTold,
         WelcomedAreVerified
<1>2. EmailInv => BothMailboxesAgree /\ OldAddressIsTold /\ WelcomedOnce
  BY DEF EmailInv, WelcomedAreVerified, WelcomedOnce
<1> QED BY <1>1, <1>2, EmailStep, PTL DEF Spec

\* What the theorem on types asks of the constants.
Bounds == First \in Address /\ MaxFaults \in Nat

LEMMA MailIsTyped ==
  ASSUME TypeOK, NEW l, Mailed(l),
         l \in [kind : {"signup", "confirm", "change"}, at : Address, old : Address, new : Address]
  PROVE  links' \subseteq [kind : {"signup", "confirm", "change"},
                           at : Address, old : Address, new : Address]
BY DEF TypeOK, Mailed

LEMMA TypeStep == ASSUME Bounds PROVE TypeOK /\ [Next]_vars => TypeOK'
<1> SUFFICES ASSUME TypeOK, [Next]_vars PROVE TypeOK'
  OBVIOUS
<1> USE DEF Bounds
<1>1. ASSUME NEW b \in Browser, SignUp(b) PROVE TypeOK'
  BY <1>1, MailIsTyped DEF SignUp, VerificationMail, Link, history, TypeOK
<1>2. ASSUME NEW b \in Browser, SignUpSocial(b) \/ SignIn(b) PROVE TypeOK'
  BY <1>2 DEF SignUpSocial, SignIn, history, TypeOK
<1>3. ASSUME NEW b \in Browser, NEW new \in Address, ChangeEmail(b, new) PROVE TypeOK'
  <2>1. CASE verified
    <3>1. ConfirmationTo(new) \in
            [kind : {"signup", "confirm", "change"}, at : Address, old : Address, new : Address]
      BY DEF ConfirmationTo, Link, TypeOK
    <3> QED BY <1>3, <2>1, <3>1, MailIsTyped DEF ChangeEmail, history, TypeOK
  <2>2. CASE ~verified
    <3>1. VerificationMail("signup", new, new) \in
            [kind : {"signup", "confirm", "change"}, at : Address, old : Address, new : Address]
      BY DEF VerificationMail, Link
    <3> QED BY <1>3, <2>2, <3>1, MailIsTyped DEF ChangeEmail, history, TypeOK
  <2> QED BY <2>1, <2>2
<1>4. ASSUME NEW l \in links, ClickConfirm(l) PROVE TypeOK'
  <2>1. VerificationMail("change", l.new, l.old) \in
          [kind : {"signup", "confirm", "change"}, at : Address, old : Address, new : Address]
    BY DEF VerificationMail, Link, TypeOK
  <2> QED BY <1>4, <2>1, MailIsTyped DEF ClickConfirm, identity, TypeOK
<1>5. ASSUME NEW l \in links, NEW b \in Browser, ClickVerify(l, b) PROVE TypeOK'
  <2>1. l.new \in Address
    BY DEF TypeOK
  <2>2. CASE IsChange(l)
    BY <1>5, <2>1, <2>2 DEF ClickVerify, AfterChange, RevokeOthers, TypeOK
  <2>3. CASE ~IsChange(l)
    BY <1>5, <2>1, <2>3 DEF ClickVerify, AfterFirst, TypeOK
  <2> QED BY <2>2, <2>3
<1>6. CASE UNCHANGED vars
  BY <1>6 DEF vars, identity, history, TypeOK
<1> QED BY <1>1, <1>2, <1>3, <1>4, <1>5, <1>6 DEF Next

\* No link changes an address to one that was never asked for, and no more
\* notices fail than the bound allows: the types of the account and its links.
THEOREM AccountIsTyped == ASSUME Bounds PROVE Spec => []TypeOK
<1>1. Init => TypeOK
  <2>1. 0 \in Nat /\ 0 \in 0 .. MaxFaults
    BY DEF Bounds
  <2> QED BY <2>1, Zenon DEF Bounds, Init, TypeOK
<1>2. TypeOK /\ [Next]_vars => TypeOK'
  BY TypeStep
<1> QED BY <1>1, <1>2, PTL DEF Spec
=============================================================================

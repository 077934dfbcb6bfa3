----------------------------- MODULE MCAccounts ------------------------------
(* Accounts, sign-in, organizations and files, each checked on an instance of*)
(* its own: a behaviour of this module is a behaviour of one of them, chosen at*)
(* the start.  They share no state here: a name two components have in common*)
(* stands for the one's that was chosen.                                     *)
EXTENDS Integers, FiniteSets, TLAPS, FiniteSetTheorems

CONSTANTS
  None,
  Address, First, Browser, MaxLinks,         \* of AccountEmail
  MaxFaults,                                 \* of AccountEmail and StoredFiles
  User, Root,                                \* of Access
  MaxTokens,                                 \* of SignInPage
  MaxHops,                                   \* of Gate
  Org, MaxSwitches,                          \* of Workspaces
  Person, MaxMembers, MaxInvites,            \* of Members
  MaxCalls,                                  \* of Members and AccountCards
  File,                                      \* of StoredFiles
  Row, Post, Team, MaxExports,               \* of DataExport
  Tab, MaxMade, MaxReloads,                  \* of TwoFactorCard
  MaxSessions, MaxKeys, Name                 \* of AccountCards

VARIABLES
  which,   \* the component this behaviour is a behaviour of
  account, sessions, faults, cookie, sent, lost, row, made, seen, calls, keys,
  shown,  \* of more than one
  configured, email, verified, links, clicked, applied, told, unsent, welcomes,
  role, banned, session, signing, op, raced, overlapped,
  element, promise, challenge, magic, left, widget, token, minted, spent, sending,
  at, stage, hops, wanted, back, negotiated, cached,
  exists, member, active, hook, chosen, call, making, moves, elsewhere,
  members, invites, manages, door, refetch, roles, removed, pendingId, crossed,
  stored, kind, callback, image, swap, removal, deletion, owed, excused,
  rows, orgs, busy, named, file, exports, stayed, wiped,
  enabled, secret, codes, isEnabled, mode, enrollData, regenCodes, abandoned, reloads,
  card, config, listed, hidden, revoking, estranged, danger, link, mailed

\* What only one component has.
emailVars == <<configured, email, verified, links, clicked, applied, told, unsent, welcomes>>
adminVars == <<role, banned, session, signing, op, raced, overlapped>>
signInVars == <<element, promise, challenge, magic, left, widget, token, minted, spent,
                 sending>>
gateVars == <<at, stage, hops, wanted, back, negotiated, cached>>
workspaceVars == <<exists, member, active, hook, chosen, call, making, moves, elsewhere>>
memberVars == <<members, invites, manages, door, refetch, roles, removed, pendingId,
                 crossed>>
fileVars == <<stored, kind, callback, image, swap, removal, deletion, owed, excused>>
exportVars == <<rows, orgs, busy, named, file, exports, stayed, wiped>>
factorVars == <<enabled, secret, codes, isEnabled, mode, enrollData, regenCodes, abandoned,
                 reloads>>
cardVars == <<card, config, listed, hidden, revoking, estranged, danger, link, mailed>>

vars == <<which, account, sessions, faults, cookie, sent, lost, row, made, seen, calls,
          keys, shown, emailVars, adminVars, signInVars, gateVars, workspaceVars,
          memberVars, fileVars, exportVars, factorVars, cardVars>>

\* The links of one account over shared addresses, clicked in any browser.
AccountEmail == INSTANCE AccountEmail

\* Users, any of whom may be made an administrator.
Access == INSTANCE Access WITH First <- Root

\* Captcha tokens over the login form's three ways in.
S == INSTANCE SignInPage

\* Redirects between the proxy, the layout and the sign-in page.
G == INSTANCE Gate

\* Organizations and the switches between them.
W == INSTANCE Workspaces

\* The people of an organization and the calls of one manager's page.
M == INSTANCE Members

\* The files of one account.
F == INSTANCE StoredFiles

\* The rows of one account and its exports.
X == INSTANCE DataExport WITH Org <- Team

\* The tabs of one account and the secrets made for it.
T == INSTANCE TwoFactorCard

\* The sessions and passkeys of one account.
K == INSTANCE AccountCards

\* What the components ask of the constants.
ASSUME ConstantsAssumption ==
  /\ AccountEmail!Bounds /\ Access!Bounds
  /\ S!Bounds /\ G!Bounds /\ W!Bounds /\ M!Bounds
  /\ F!Bounds /\ T!Bounds /\ K!Bounds

\* The variables a component does not have stay as they began.
NoEmail == /\ configured = 0 /\ email = 0 /\ verified = 0 /\ links = 0 /\ clicked = 0
           /\ applied = 0 /\ told = 0 /\ unsent = 0 /\ welcomes = 0
NoAdmin == /\ role = 0 /\ banned = 0 /\ session = 0 /\ signing = 0 /\ op = 0 /\ raced = 0
           /\ overlapped = 0
NoSignIn == /\ element = 0 /\ promise = 0 /\ challenge = 0 /\ magic = 0 /\ left = 0
            /\ widget = 0 /\ token = 0 /\ minted = 0 /\ spent = 0 /\ sending = 0
NoGate == /\ at = 0 /\ stage = 0 /\ hops = 0 /\ wanted = 0 /\ back = 0 /\ negotiated = 0
          /\ cached = 0
NoWorkspace == /\ exists = 0 /\ member = 0 /\ active = 0 /\ hook = 0 /\ chosen = 0
               /\ call = 0 /\ making = 0 /\ moves = 0 /\ elsewhere = 0
NoMember == /\ members = 0 /\ invites = 0 /\ manages = 0 /\ door = 0 /\ refetch = 0
            /\ roles = 0 /\ removed = 0 /\ pendingId = 0 /\ crossed = 0
NoFile == /\ stored = 0 /\ kind = 0 /\ callback = 0 /\ image = 0 /\ swap = 0
          /\ removal = 0 /\ deletion = 0 /\ owed = 0 /\ excused = 0
NoExport == /\ rows = 0 /\ orgs = 0 /\ busy = 0 /\ named = 0 /\ file = 0 /\ exports = 0
            /\ stayed = 0 /\ wiped = 0
NoFactor == /\ enabled = 0 /\ secret = 0 /\ codes = 0 /\ isEnabled = 0 /\ mode = 0
            /\ enrollData = 0 /\ regenCodes = 0 /\ abandoned = 0 /\ reloads = 0
NoCard == /\ card = 0 /\ config = 0 /\ listed = 0 /\ hidden = 0 /\ revoking = 0
          /\ estranged = 0 /\ danger = 0 /\ link = 0 /\ mailed = 0

Init ==
  \/ /\ which = "AccountEmail" /\ AccountEmail!Init
     /\ NoAdmin /\ NoSignIn /\ NoGate /\ NoWorkspace /\ NoMember /\ NoFile /\ NoExport
     /\ NoFactor /\ NoCard
     /\ cookie = 0 /\ sent = 0 /\ lost = 0 /\ row = 0 /\ made = 0 /\ seen = 0 /\ calls = 0
     /\ keys = 0 /\ shown = 0
  \/ /\ which = "Access" /\ Access!Init
     /\ NoEmail /\ NoSignIn /\ NoGate /\ NoWorkspace /\ NoMember /\ NoFile /\ NoExport
     /\ NoFactor /\ NoCard
     /\ account = 0 /\ sessions = 0 /\ faults = 0 /\ sent = 0 /\ lost = 0 /\ row = 0
     /\ made = 0 /\ seen = 0 /\ calls = 0 /\ keys = 0 /\ shown = 0
  \/ /\ which = "SignInPage" /\ S!Init
     /\ NoEmail /\ NoAdmin /\ NoGate /\ NoWorkspace /\ NoMember /\ NoFile /\ NoExport
     /\ NoFactor /\ NoCard
     /\ account = 0 /\ sessions = 0 /\ faults = 0 /\ cookie = 0 /\ lost = 0 /\ row = 0
     /\ made = 0 /\ seen = 0 /\ calls = 0 /\ keys = 0 /\ shown = 0
  \/ /\ which = "Gate" /\ G!Init
     /\ NoEmail /\ NoAdmin /\ NoSignIn /\ NoWorkspace /\ NoMember /\ NoFile /\ NoExport
     /\ NoFactor /\ NoCard
     /\ account = 0 /\ sessions = 0 /\ faults = 0 /\ sent = 0 /\ made = 0 /\ seen = 0
     /\ calls = 0 /\ keys = 0 /\ shown = 0
  \/ /\ which = "Workspaces" /\ W!Init
     /\ NoEmail /\ NoAdmin /\ NoSignIn /\ NoGate /\ NoMember /\ NoFile /\ NoExport
     /\ NoFactor /\ NoCard
     /\ account = 0 /\ sessions = 0 /\ faults = 0 /\ cookie = 0 /\ sent = 0 /\ lost = 0
     /\ row = 0 /\ made = 0 /\ seen = 0 /\ calls = 0 /\ keys = 0 /\ shown = 0
  \/ /\ which = "Members" /\ M!Init
     /\ NoEmail /\ NoAdmin /\ NoSignIn /\ NoGate /\ NoWorkspace /\ NoFile /\ NoExport
     /\ NoFactor /\ NoCard
     /\ account = 0 /\ sessions = 0 /\ faults = 0 /\ cookie = 0 /\ lost = 0 /\ row = 0
     /\ keys = 0 /\ shown = 0
  \/ /\ which = "StoredFiles" /\ F!Init
     /\ NoEmail /\ NoAdmin /\ NoSignIn /\ NoGate /\ NoWorkspace /\ NoMember /\ NoExport
     /\ NoFactor /\ NoCard
     /\ sessions = 0 /\ cookie = 0 /\ sent = 0 /\ lost = 0 /\ made = 0 /\ seen = 0
     /\ calls = 0 /\ shown = 0
  \/ /\ which = "DataExport" /\ X!Init
     /\ NoEmail /\ NoAdmin /\ NoSignIn /\ NoGate /\ NoWorkspace /\ NoMember /\ NoFile
     /\ NoFactor /\ NoCard
     /\ sessions = 0 /\ faults = 0 /\ cookie = 0 /\ sent = 0 /\ lost = 0 /\ row = 0
     /\ made = 0 /\ calls = 0 /\ keys = 0 /\ shown = 0
  \/ /\ which = "TwoFactorCard" /\ T!Init
     /\ NoEmail /\ NoAdmin /\ NoSignIn /\ NoGate /\ NoWorkspace /\ NoMember /\ NoFile
     /\ NoExport /\ NoCard
     /\ account = 0 /\ sessions = 0 /\ faults = 0 /\ cookie = 0 /\ sent = 0 /\ row = 0
     /\ seen = 0 /\ keys = 0
  \/ /\ which = "AccountCards" /\ K!Init
     /\ NoEmail /\ NoAdmin /\ NoSignIn /\ NoGate /\ NoWorkspace /\ NoMember /\ NoFile
     /\ NoExport /\ NoFactor
     /\ faults = 0 /\ cookie = 0 /\ sent = 0 /\ lost = 0 /\ row = 0 /\ seen = 0

Next ==
  \/ /\ which = "AccountEmail" /\ AccountEmail!Next
     /\ UNCHANGED <<which, cookie, sent, lost, row, made, seen, calls, keys, shown,
                    adminVars, signInVars, gateVars, workspaceVars, memberVars, fileVars,
                    exportVars, factorVars, cardVars>>
  \/ /\ which = "Access" /\ Access!Next
     /\ UNCHANGED <<which, account, sessions, faults, sent, lost, row, made, seen, calls,
                    keys, shown, emailVars, signInVars, gateVars, workspaceVars,
                    memberVars, fileVars, exportVars, factorVars, cardVars>>
  \/ /\ which = "SignInPage" /\ S!Next
     /\ UNCHANGED <<which, account, sessions, faults, cookie, lost, row, made, seen, calls,
                    keys, shown, emailVars, adminVars, gateVars, workspaceVars, memberVars,
                    fileVars, exportVars, factorVars, cardVars>>
  \/ /\ which = "Gate" /\ G!Next
     /\ UNCHANGED <<which, account, sessions, faults, sent, made, seen, calls, keys, shown,
                    emailVars, adminVars, signInVars, workspaceVars, memberVars, fileVars,
                    exportVars, factorVars, cardVars>>
  \/ /\ which = "Workspaces" /\ W!Next
     /\ UNCHANGED <<which, account, sessions, faults, cookie, sent, lost, row, made, seen,
                    calls, keys, shown, emailVars, adminVars, signInVars, gateVars,
                    memberVars, fileVars, exportVars, factorVars, cardVars>>
  \/ /\ which = "Members" /\ M!Next
     /\ UNCHANGED <<which, account, sessions, faults, cookie, lost, row, keys, shown,
                    emailVars, adminVars, signInVars, gateVars, workspaceVars, fileVars,
                    exportVars, factorVars, cardVars>>
  \/ /\ which = "StoredFiles" /\ F!Next
     /\ UNCHANGED <<which, sessions, cookie, sent, lost, made, seen, calls, shown,
                    emailVars, adminVars, signInVars, gateVars, workspaceVars, memberVars,
                    exportVars, factorVars, cardVars>>
  \/ /\ which = "DataExport" /\ X!Next
     /\ UNCHANGED <<which, sessions, faults, cookie, sent, lost, row, made, calls, keys,
                    shown, emailVars, adminVars, signInVars, gateVars, workspaceVars,
                    memberVars, fileVars, factorVars, cardVars>>
  \/ /\ which = "TwoFactorCard" /\ T!Next
     /\ UNCHANGED <<which, account, sessions, faults, cookie, sent, row, seen, keys,
                    emailVars, adminVars, signInVars, gateVars, workspaceVars, memberVars,
                    fileVars, exportVars, cardVars>>
  \/ /\ which = "AccountCards" /\ K!Next
     /\ UNCHANGED <<which, faults, cookie, sent, lost, row, seen, emailVars, adminVars,
                    signInVars, gateVars, workspaceVars, memberVars, fileVars, exportVars,
                    factorVars>>

Spec == Init /\ [][Next]_vars

------------------------------------------------------------------------------

\* An account's address changes only with the agreement of both mailboxes, the old address
\* is told unless its mail failed, and no account is welcomed twice.
EmailHolds ==
  which = "AccountEmail" =>
    /\ AccountEmail!TypeOK
    /\ AccountEmail!BothMailboxesAgree
    /\ AccountEmail!OldAddressIsTold
    /\ AccountEmail!WelcomedOnce

\* Once a ban has run its course the banned account is out and stays out, and with one
\* administrative call at a time an administrator remains.
AccessHolds ==
  which = "Access" =>
    /\ Access!TypeOK
    /\ Access!BannedStaysOut
    /\ Access!OneAtATimeAnAdminRemains

\* A captcha widget that shows itself solved holds a token not yet spent; a visitor of a
\* page the proxy knows lands there, past a sign-in, and the layout turns away only a dead
\* cookie; and at rest the header and the members page show what the server holds, unless
\* another hand changed it.
PagesHold ==
  /\ which = "SignInPage" =>
       /\ S!TypeOK
       /\ S!SolvedIsFresh
  /\ which = "Gate" =>
       /\ G!TypeOK
       /\ G!LandsWhereAsked
       /\ G!OnlyADeadCookieIsTurnedAway
  /\ which = "Workspaces" =>
       /\ W!TypeOK
       /\ W!HeaderTellsWhereWritesGo
  /\ which = "Members" =>
       /\ M!TypeOK
       /\ M!PageAddsNothing

\* A file is served exactly while a row lists it, whatever callbacks, removals and swaps
\* crossed; a deleted account's are purged; and an export holds what stood untouched
\* while it was read, and is not made for an account already gone.
FilesHold ==
  /\ which = "StoredFiles" =>
       /\ F!TypeOK
       /\ F!ServedIsListed
       /\ F!ListedIsServed
       /\ F!AvatarIsServed
       /\ F!PurgedWithTheAccount
  /\ which = "DataExport" =>
       /\ X!TypeOK
       /\ X!UntouchedIsExported
       /\ X!NothingLeaks

\* The account's cards tell the truth: nobody ends with a second factor they were not
\* shown, a session hidden is over, the passkeys shown are the ones stored, a goodbye is said
\* to an account that is gone, and where there is e-mail none goes but by a mailed link.
CardsHold ==
  /\ which = "TwoFactorCard" =>
       /\ T!TypeOK
       /\ T!NobodyIsLockedOut
  /\ which = "AccountCards" =>
       /\ K!TypeOK
       /\ K!HiddenIsOver
       /\ K!RestingPasskeysAreTrue
       /\ K!DangerTellsTheTruth
------------------------------------------------------------------------------
(* What is proved of a component for all constants holds of it here.         *)

\* A behaviour that begins as one of the links of an account goes on as one.
LEMMA EmailRuns == Spec => [](which # "AccountEmail")
  \/ (AccountEmail!Spec /\ [](which = "AccountEmail"))
<1>1. Init => which # "AccountEmail" \/ (which = "AccountEmail" /\ AccountEmail!Init)
  BY DEF Init
<1>2. which # "AccountEmail" /\ [Next]_vars => (which # "AccountEmail")'
  BY DEF Next, vars
<1>3. which = "AccountEmail" /\ [Next]_vars =>
        (which = "AccountEmail")' /\ [AccountEmail!Next]_AccountEmail!vars
  BY DEF Next, vars, emailVars, AccountEmail!vars, AccountEmail!identity, AccountEmail!history
<1> QED BY <1>1, <1>2, <1>3, PTL DEF Spec, AccountEmail!Spec

\* The links of the run's account (packages/auth/src/auth.ts): its address moves
\* only with both mailboxes' consent, the old one is told, it is welcomed once.
THEOREM EmailAlwaysHolds == Spec => []EmailHolds
<1>1. AccountEmail!Spec =>
        [](AccountEmail!BothMailboxesAgree /\ AccountEmail!OldAddressIsTold
           /\ AccountEmail!WelcomedOnce)
  BY ConstantsAssumption, AccountEmail!ChangesAreAgreed
<1>2. AccountEmail!Spec => []AccountEmail!TypeOK
  BY ConstantsAssumption, AccountEmail!AccountIsTyped
<1>3. AccountEmail!TypeOK /\ AccountEmail!BothMailboxesAgree
      /\ AccountEmail!OldAddressIsTold /\ AccountEmail!WelcomedOnce => EmailHolds
  BY DEF EmailHolds
<1>4. which # "AccountEmail" => EmailHolds
  BY DEF EmailHolds
<1> QED BY <1>1, <1>2, <1>3, <1>4, EmailRuns, PTL

------------------------------------------------------------------------------
(* The administrators.                                                      *)

\* No step leaves the types, and what Access!Authorize lets through has a target.
LEMMA TypesStep == ASSUME Access!Bounds PROVE Access!Types /\ [Access!Next]_Access!vars =>
  Access!Types'
<1> SUFFICES ASSUME Access!Types, [Access!Next]_Access!vars PROVE Access!Types'
  OBVIOUS
<1> USE DEF Access!Types, Access!TypeOK, Access!RequestsAreTyped, Access!Kind
<1>1. ASSUME NEW u \in User, Access!OpenSession(u) PROVE Access!Types'
  BY <1>1 DEF Access!OpenSession, Access!Own
<1>2. ASSUME NEW u \in User, Access!CacheExpires(u) PROVE Access!Types'
  BY <1>2 DEF Access!CacheExpires
<1>3. ASSUME NEW u \in User, NEW ranOut \in BOOLEAN, Access!CheckBan(u, ranOut) PROVE Access!Types'
  BY <1>3 DEF Access!CheckBan
<1>4. ASSUME NEW a \in User, NEW t \in User, NEW k \in Access!Kind, NEW to \in {"user", "admin"},
             Access!Authorize(a, k, t, to)
      PROVE Access!Types'
  BY <1>4 DEF Access!Authorize
<1>5. ASSUME NEW a \in User, Access!SetUserRole(a) PROVE Access!Types'
  BY <1>5 DEF Access!SetUserRole, Access!Doing, Access!Idle
<1>6. ASSUME NEW a \in User, Access!BanUser(a) PROVE Access!Types'
  <2>1. session' \subseteq session /\ UNCHANGED <<role, cookie, signing, raced, overlapped>>
        /\ (banned' = banned \/ banned' = [banned EXCEPT ![op[a].target] = TRUE])
        /\ op[a].kind = "ban"
        /\ (op' = [op EXCEPT ![a].stage = "revoke"] \/ op' = [op EXCEPT ![a] = Access!Idle])
    BY <1>6 DEF Access!BanUser, Access!Doing, Access!OwnedBy
  <2>2. Access!RequestsAreTyped'
    <3>1. CASE op' = [op EXCEPT ![a].stage = "revoke"]
      <4>1. PICK mine : mine = [op[a] EXCEPT !.stage = "revoke"]
        OBVIOUS
      <4>2. /\ mine \in [kind : Access!Kind \cup {"idle"}, target : User \cup {None},
                         to : {"user", "admin"}, stage : {"none", "write", "revoke"}]
            /\ mine.kind = op[a].kind /\ mine.target = op[a].target
        BY <4>1
      <4>3. op' = [op EXCEPT ![a] = mine]
        BY <3>1, <4>1
      <4> QED BY <4>2, <4>3
    <3>2. CASE op' = [op EXCEPT ![a] = Access!Idle]
      BY <2>1, <3>2 DEF Access!Idle
    <3> QED BY <2>1, <3>1, <3>2
  <2>3. Access!TypeOK'
    <3>1. banned' \in [User -> BOOLEAN]
      BY <2>1
    <3> QED BY <2>1, <2>2, <3>1
  <2> QED BY <2>2, <2>3
<1>7. ASSUME NEW a \in User, Access!UnbanUser(a) PROVE Access!Types'
  BY <1>7 DEF Access!UnbanUser, Access!Doing, Access!Idle
<1>8. ASSUME NEW a \in User, Access!ImpersonateUser(a) PROVE Access!Types'
  BY <1>8 DEF Access!ImpersonateUser, Access!Doing, Access!Idle
<1>9. ASSUME NEW a \in User, Access!StopImpersonating(a) PROVE Access!Types'
  BY <1>9 DEF Access!StopImpersonating
<1>10. CASE UNCHANGED Access!vars
  BY <1>10 DEF Access!vars, Access!Doing
<1> QED BY <1>1, <1>2, <1>3, <1>4, <1>5, <1>6, <1>7, <1>8, <1>9, <1>10 DEF Access!Next

\* A ban's column is written before its sessions are revoked, so whoever is
\* banned with a session of their own is raced or about to lose it.
LEMMA BanStep ==
  ASSUME Access!Bounds, Access!Types, Access!BannedStaysOut, [Access!Next]_Access!vars
           PROVE Access!BannedStaysOut'
<1> SUFFICES ASSUME NEW u \in User, banned'[u], Access!Own(u) \in session'
             PROVE  \/ u \in raced'
                    \/ \E a \in User : op'[a].target = u /\ Access!Doing(a, "ban", "revoke")'
  BY DEF Access!BannedStaysOut, Access!Own
<1> DEFINE Revoking(a) == op[a].target = u /\ Access!Doing(a, "ban", "revoke")
<1>0. banned[u] /\ Access!Own(u) \in session => u \in raced \/ \E a \in User : Revoking(a)
  BY DEF Access!BannedStaysOut
<1> USE DEF Access!Types, Access!TypeOK, Access!RequestsAreTyped, Access!Bounds
<1>1. ASSUME NEW w \in User, Access!OpenSession(w) PROVE u \in raced'
               \/ \E a \in User : Revoking(a)'
  BY <1>0, <1>1 DEF Access!OpenSession, Access!Own, Access!Doing
<1>2. ASSUME NEW w \in User, Access!CacheExpires(w) PROVE u \in raced'
               \/ \E a \in User : Revoking(a)'
  BY <1>0, <1>2 DEF Access!CacheExpires, Access!Doing
<1>3. ASSUME NEW w \in User, NEW ranOut \in BOOLEAN, Access!CheckBan(w, ranOut)
      PROVE u \in raced' \/ \E a \in User : Revoking(a)'
  BY <1>0, <1>3 DEF Access!CheckBan, Access!Doing
<1>4. ASSUME NEW w \in User, NEW t \in User, NEW k \in Access!Kind, NEW to \in {"user", "admin"},
             Access!Authorize(w, k, t, to)
      PROVE u \in raced' \/ \E a \in User : Revoking(a)'
  BY <1>0, <1>4 DEF Access!Authorize, Access!Doing, Access!Idle
<1>5. ASSUME NEW w \in User, Access!SetUserRole(w) PROVE u \in raced'
               \/ \E a \in User : Revoking(a)'
  BY <1>0, <1>5 DEF Access!SetUserRole, Access!Doing
<1>6. ASSUME NEW w \in User, Access!BanUser(w) PROVE u \in raced' \/ \E a \in User : Revoking(a)'
  <2>1. CASE Access!Doing(w, "ban", "write")
    <3>1. op' = [op EXCEPT ![w].stage = "revoke"] /\ session' = session /\ raced' = raced
          /\ banned' = [banned EXCEPT ![op[w].target] = TRUE]
      BY <1>6, <2>1 DEF Access!BanUser, Access!Doing
    <3>2. CASE u = op[w].target
      <4>1. Revoking(w)'
        BY <2>1, <3>1, <3>2 DEF Access!Doing
      <4> QED BY <4>1
    <3>3. CASE u # op[w].target
      BY <1>0, <2>1, <3>1, <3>3 DEF Access!Doing
    <3> QED BY <3>2, <3>3
  <2>2. CASE Access!Doing(w, "ban", "revoke")
    <3>1. op' = [op EXCEPT ![w] = Access!Idle] /\ session' = session \ Access!OwnedBy(op[w].target)
          /\ UNCHANGED <<raced, banned>>
      BY <1>6, <2>2 DEF Access!BanUser, Access!Doing
    <3>2. u # op[w].target
      BY <3>1 DEF Access!OwnedBy, Access!Own
    <3> QED BY <1>0, <3>1, <3>2 DEF Access!Doing
  <2> QED BY <1>6, <2>1, <2>2 DEF Access!BanUser
<1>7. ASSUME NEW w \in User, Access!UnbanUser(w) PROVE u \in raced' \/ \E a \in User : Revoking(a)'
  BY <1>0, <1>7 DEF Access!UnbanUser, Access!Doing
<1>8. ASSUME NEW w \in User, Access!ImpersonateUser(w) PROVE u \in raced'
               \/ \E a \in User : Revoking(a)'
  <2>1. Access!Own(u) \in session
    BY <1>8 DEF Access!ImpersonateUser, Access!Own
  <2> QED BY <1>0, <1>8, <2>1 DEF Access!ImpersonateUser, Access!Doing
<1>9. ASSUME NEW w \in User, Access!StopImpersonating(w)
      PROVE u \in raced' \/ \E a \in User : Revoking(a)'
  BY <1>0, <1>9 DEF Access!StopImpersonating, Access!Doing
<1>10. CASE UNCHANGED Access!vars
  BY <1>0, <1>10 DEF Access!vars, Access!Doing
<1> QED BY <1>1, <1>2, <1>3, <1>4, <1>5, <1>6, <1>7, <1>8, <1>9, <1>10 DEF Access!Next

\* The caller of a role change is an administrator and not its target, and
\* stays one while no other role change is in flight.
LEMMA AdminStep ==
  ASSUME Access!Bounds, Access!Types, Access!RoleChangesAreAlone,
         Access!OneAtATimeAnAdminRemains, [Access!Next]_Access!vars
  PROVE  Access!RoleChangesAreAlone' /\ Access!OneAtATimeAnAdminRemains'
<1> USE DEF Access!Types, Access!TypeOK, Access!RequestsAreTyped, Access!RoleChangesAreAlone,
    Access!OneAtATimeAnAdminRemains
<1> DEFINE Goal == Access!RoleChangesAreAlone' /\ Access!OneAtATimeAnAdminRemains'
<1>1. ASSUME UNCHANGED <<role, op, overlapped>> PROVE Goal
  BY <1>1
<1>2. ASSUME NEW a \in User, op[a].kind # "role", UNCHANGED <<role, overlapped>>,
             op' = [op EXCEPT ![a] = Access!Idle] \/ op' = [op EXCEPT ![a].stage = "revoke"]
      PROVE  Goal
  <2>1. \A b \in User : op'[b].kind = "role" => op[b].kind = "role" /\ op'[b] = op[b]
    BY <1>2 DEF Access!Idle
  <2> QED BY <1>2, <2>1
<1>3. ASSUME NEW a \in User, NEW t \in User, NEW k \in Access!Kind, NEW to \in {"user", "admin"},
             Access!Authorize(a, k, t, to)
      PROVE Goal
  <2>1. op[a].kind = "idle" /\ role' = role /\ role[a] = "admin"
        /\ op' = [op EXCEPT ![a] = [kind |-> k, target |-> t, to |-> to, stage |-> "write"]]
        /\ overlapped' = (overlapped \/ (k = "role" /\ \E b \in User : op[b].kind = "role"))
    BY <1>3 DEF Access!Authorize, Access!IsAdmin, Access!Idle
  <2>2. \A b \in User : b # a => op'[b] = op[b]
    BY <2>1
  <2>3. op'[a].kind = k /\ op'[a].target = t
    BY <2>1
  <2>4. CASE k = "role"
    <3>1. t # a
      BY <1>3, <2>4 DEF Access!Authorize
    <3>2. ~overlapped' => \A b \in User : op'[b].kind = "role" => b = a
      BY <2>1, <2>2, <2>4
    <3>3. ~overlapped' => ~overlapped
      BY <2>1
    <3> QED BY <2>1, <2>3, <3>1, <3>2, <3>3
  <2>5. CASE k # "role"
    <3>1. \A b \in User : op'[b].kind = "role" => op[b].kind = "role" /\ op'[b] = op[b]
      BY <2>2, <2>3, <2>5
    <3>2. overlapped' = overlapped
      BY <2>1, <2>5
    <3> QED BY <2>1, <3>1, <3>2
  <2> QED BY <2>4, <2>5
<1>4. ASSUME NEW a \in User, Access!SetUserRole(a) PROVE Goal
  <2>1. op[a].kind = "role" /\ overlapped' = overlapped /\ op' = [op EXCEPT ![a] = Access!Idle]
        /\ role' = [role EXCEPT ![op[a].target] = op[a].to]
    BY <1>4 DEF Access!SetUserRole, Access!Doing
  <2>2. SUFFICES ASSUME ~overlapped PROVE Goal
    BY <2>1
  <2>3. role'[a] = "admin"
    BY <2>1, <2>2
  <2>4. \A b \in User : op'[b].kind # "role"
    BY <2>1, <2>2 DEF Access!Idle
  <2> QED BY <2>3, <2>4
<1>5. ASSUME NEW u \in User,
             Access!OpenSession(u) \/ Access!CacheExpires(u)
               \/ (\E ranOut \in BOOLEAN : Access!CheckBan(u, ranOut))
               \/ Access!StopImpersonating(u)
      PROVE  Goal
  BY <1>1, <1>5 DEF Access!OpenSession, Access!CacheExpires, Access!CheckBan,
      Access!StopImpersonating
<1>6. ASSUME NEW a \in User, Access!BanUser(a) \/ Access!UnbanUser(a)
               \/ Access!ImpersonateUser(a) PROVE Goal
  BY <1>2, <1>6 DEF Access!BanUser, Access!UnbanUser, Access!ImpersonateUser, Access!Doing
<1>7. CASE UNCHANGED Access!vars
  BY <1>1, <1>7 DEF Access!vars
<1> QED BY <1>3, <1>4, <1>5, <1>6, <1>7 DEF Access!Next

\* However administrators and sign-ins race (server/actions/admin.ts): a banned
\* user is out but for a sign-in that read the column before it was written, and
\* while role changes do not overlap an administrator remains.
THEOREM AdministrationHolds ==
  ASSUME Access!Bounds PROVE Access!Spec =>
           [](Access!TypeOK /\ Access!BannedStaysOut /\ Access!OneAtATimeAnAdminRemains)
<1>1. Access!Init => Access!AccessInv
  <2> SUFFICES ASSUME Access!Bounds, Access!Init PROVE Access!AccessInv
    OBVIOUS
  <2>1. op = [w \in User |-> Access!Idle] /\ session = {} /\ role[Root] = "admin"
    BY DEF Access!Bounds, Access!Init
  <2>2. Access!TypeOK
    <3>1. /\ role \in [User -> {"user", "admin"}] /\ banned \in [User -> BOOLEAN]
          /\ cookie \in [User -> BOOLEAN] /\ signing \in [User -> BOOLEAN]
          /\ raced = {} /\ overlapped = FALSE
      BY DEF Access!Init
    <3>2. \A a \in User : op[a].kind = "idle"
      BY <2>1 DEF Access!Idle
    <3> QED BY <2>1, <3>1, <3>2 DEF Access!TypeOK
  <2>3. Access!RequestsAreTyped
    <3>1. Access!Idle \in [kind : Access!Kind \cup {"idle"}, target : User \cup {None},
                    to : {"user", "admin"}, stage : {"none", "write", "revoke"}]
      BY DEF Access!Idle
    <3> QED BY <2>1, <3>1 DEF Access!RequestsAreTyped, Access!Idle
  <2>4. Access!BannedStaysOut /\ Access!RoleChangesAreAlone /\ Access!OneAtATimeAnAdminRemains
    BY <2>1 DEF Access!Bounds, Access!BannedStaysOut, Access!RoleChangesAreAlone,
        Access!OneAtATimeAnAdminRemains, Access!Idle
  <2> QED BY <2>2, <2>3, <2>4 DEF Access!AccessInv, Access!Types
<1>2. Access!AccessInv /\ [Access!Next]_Access!vars => Access!AccessInv'
  BY TypesStep, BanStep, AdminStep DEF Access!AccessInv
<1>3. Access!AccessInv => Access!TypeOK /\ Access!BannedStaysOut /\ Access!OneAtATimeAnAdminRemains
  BY DEF Access!AccessInv, Access!Types
<1> QED BY <1>1, <1>2, <1>3, PTL DEF Access!Spec

------------------------------------------------------------------------------
(* The files of one account.                                                *)

\* uploadFiles and its presigned upload (lib/uploadthing.ts): a file stored has a callback
\* owed, and nothing is listed yet.
LEMMA UploadKeeps ==
  ASSUME F!Bounds, F!FilesInv, NEW f \in File, NEW how \in {"upload", "avatar"}, 
         F!Upload(f, how)
  PROVE  F!FilesInv'
<1> USE DEF F!Bounds, F!Upload, F!avatar, F!closing
<1>1. F!TypeOK' /\ F!StepsAreTyped' /\ F!DeletedOwes'
  BY DEF F!FilesInv, F!TypeOK, F!StepsAreTyped, F!DeletedOwes
<1>2. F!KindsAreApart' /\ (\A g \in File : deletion[g] = "row" => g \notin stored)'
  BY DEF F!FilesInv, F!TypeOK, F!StepsAreTyped, F!KindsAreApart, F!BeenAvatar, F!DeletedOwes
<1>3. F!DueIsFirst' /\ F!ListedIsServed'
  BY DEF F!FilesInv, F!TypeOK, F!StepsAreTyped, F!KindsAreApart, F!BeenAvatar, F!DeletedOwes,
         F!DueIsFirst, F!ListedIsServed
<1>4. \A g \in File : /\ kind'[g] = IF g = f THEN how ELSE kind[g]
                      /\ callback'[g] = IF g = f THEN "due" ELSE callback[g]
  BY DEF F!FilesInv, F!TypeOK
<1>5. F!ServedIsKnown'
  BY <1>4 DEF F!FilesInv, F!ServedIsKnown
<1>6. F!AvatarsMoveOn'
  <2> SUFFICES ASSUME excused = {} PROVE F!AvatarsMoveOn'
    BY DEF F!AvatarsMoveOn
  <2>1. ~F!BeenAvatar(f) /\ swap[f].at = "idle"
    BY DEF F!FilesInv, F!KindsAreApart
  <2> QED BY <1>4, <2>1 DEF F!FilesInv, F!AvatarsMoveOn, F!BeenAvatar
<1> QED BY <1>1, <1>2, <1>3, <1>5, <1>6 DEF F!FilesInv

\* onUploadComplete, its repetition and its failure: the file is listed, or its account is
\* gone, or the fault is remembered.
LEMMA CallbackKeeps ==
  ASSUME F!Bounds, F!FilesInv, NEW f \in File, 
         F!ImageUploaded(f)
  PROVE  F!FilesInv'
<1> USE DEF F!Bounds, F!ImageUploaded, F!Answered, F!Fault, F!Late, F!avatar, F!closing
<1>1. F!TypeOK' /\ F!StepsAreTyped' /\ F!DeletedOwes'
  BY DEF F!FilesInv, F!TypeOK, F!StepsAreTyped, F!DeletedOwes
<1>2. F!KindsAreApart' /\ (\A g \in File : deletion[g] = "row" => g \notin stored)'
  BY DEF F!FilesInv, F!TypeOK, F!StepsAreTyped, F!KindsAreApart, F!BeenAvatar, F!DeletedOwes
<1>3. F!DueIsFirst' /\ F!ListedIsServed'
  BY DEF F!FilesInv, F!TypeOK, F!StepsAreTyped, F!KindsAreApart, F!BeenAvatar, F!DeletedOwes,
         F!DueIsFirst, F!ListedIsServed
<1>4. F!ServedIsKnown'
  BY DEF F!FilesInv, F!TypeOK, F!StepsAreTyped, F!KindsAreApart, F!BeenAvatar, F!DeletedOwes,
         F!ServedIsKnown
<1>5. F!AvatarsMoveOn'
  BY DEF F!FilesInv, F!TypeOK, F!StepsAreTyped, F!KindsAreApart, F!BeenAvatar, F!DeletedOwes,
         F!AvatarsMoveOn
<1> QED BY <1>1, <1>2, <1>3, <1>4, <1>5 DEF F!FilesInv

\* The three steps of an avatar swap (actions/avatar.ts): read, write, clean.
LEMMA AvatarKeeps ==
  ASSUME F!Bounds, F!FilesInv, NEW f \in File, 
         F!AvatarRead(f) \/ F!AvatarWrite(f) \/ F!AvatarClean(f)
  PROVE  F!FilesInv'
<1> USE DEF F!Bounds, F!AvatarRead, F!AvatarWrite, F!AvatarClean, F!At, F!Idle, F!Answered,
    F!Fault, F!Late, F!avatar, F!closing
<1>1. F!TypeOK' /\ F!StepsAreTyped' /\ F!DeletedOwes'
  <2>1. stored' \subseteq File /\ callback' \in [File -> {"none", "due", "answered"}]
        /\ image' \in File \cup {None} /\ excused' \subseteq File /\ faults' \in 0..MaxFaults
    BY DEF F!FilesInv, F!TypeOK
  <2>2. F!StepsAreTyped'
    BY SMTT(30) DEF F!FilesInv, F!TypeOK, F!StepsAreTyped
  <2>3. F!DeletedOwes'
    BY DEF F!FilesInv, F!DeletedOwes
  <2> QED BY <2>1, <2>2, <2>3, SMTT(30) DEF F!FilesInv, F!TypeOK, F!StepsAreTyped
<1>2. F!KindsAreApart' /\ (\A g \in File : deletion[g] = "row" => g \notin stored)'
  BY DEF F!FilesInv, F!TypeOK, F!StepsAreTyped, F!KindsAreApart, F!BeenAvatar, F!DeletedOwes
<1>3. F!DueIsFirst' /\ F!ListedIsServed'
  BY DEF F!FilesInv, F!TypeOK, F!StepsAreTyped, F!KindsAreApart, F!BeenAvatar, F!DeletedOwes,
         F!DueIsFirst, F!ListedIsServed
<1>4. F!ServedIsKnown'
  BY DEF F!FilesInv, F!TypeOK, F!StepsAreTyped, F!KindsAreApart, F!BeenAvatar, F!DeletedOwes,
         F!ServedIsKnown
<1>5. F!AvatarsMoveOn'
  <2>1. CASE F!AvatarRead(f)
    BY <2>1 DEF F!FilesInv, F!TypeOK, F!StepsAreTyped, F!KindsAreApart, F!BeenAvatar, F!DeletedOwes,
             F!AvatarsMoveOn
  <2>2. CASE F!AvatarWrite(f)
    BY <2>2 DEF F!FilesInv, F!TypeOK, F!StepsAreTyped, F!KindsAreApart, F!BeenAvatar, F!DeletedOwes,
             F!AvatarsMoveOn
  <2>3. CASE F!AvatarClean(f)
    BY <2>3 DEF F!FilesInv, F!TypeOK, F!StepsAreTyped, F!KindsAreApart, F!BeenAvatar, F!DeletedOwes,
             F!AvatarsMoveOn
  <2> QED BY <2>1, <2>2, <2>3
<1> QED BY <1>1, <1>2, <1>3, <1>4, <1>5 DEF F!FilesInv

\* The three steps of removing the avatar: read, write, clean.
LEMMA RemovalKeeps ==
  ASSUME F!Bounds, F!FilesInv, 
         F!RemoveRead \/ F!RemoveWrite \/ F!RemoveClean
  PROVE  F!FilesInv'
<1> USE DEF F!Bounds, F!RemoveRead, F!RemoveWrite, F!RemoveClean, F!At, F!Idle, F!Fault,
    F!avatar, F!closing
<1>1. F!TypeOK' /\ F!StepsAreTyped' /\ F!DeletedOwes'
  BY DEF F!FilesInv, F!TypeOK, F!StepsAreTyped, F!DeletedOwes
<1>2. F!KindsAreApart' /\ (\A g \in File : deletion[g] = "row" => g \notin stored)'
  BY DEF F!FilesInv, F!TypeOK, F!StepsAreTyped, F!KindsAreApart, F!BeenAvatar, F!DeletedOwes
<1>3. F!DueIsFirst' /\ F!ListedIsServed'
  BY DEF F!FilesInv, F!TypeOK, F!StepsAreTyped, F!KindsAreApart, F!BeenAvatar, F!DeletedOwes,
         F!DueIsFirst, F!ListedIsServed
<1>4. F!ServedIsKnown'
  BY DEF F!FilesInv, F!TypeOK, F!StepsAreTyped, F!KindsAreApart, F!BeenAvatar, F!DeletedOwes,
         F!ServedIsKnown
<1>5. F!AvatarsMoveOn'
  BY DEF F!FilesInv, F!TypeOK, F!StepsAreTyped, F!KindsAreApart, F!BeenAvatar, F!DeletedOwes,
         F!AvatarsMoveOn
<1> QED BY <1>1, <1>2, <1>3, <1>4, <1>5 DEF F!FilesInv

\* The three steps of deleting a file (actions/uploads.ts): the row is read, the file goes,
\* the row goes.
LEMMA DeletionKeeps ==
  ASSUME F!Bounds, F!FilesInv, NEW f \in File, 
         F!DeleteRead(f) \/ F!DeleteRemote(f) \/ F!DeleteRow(f)
  PROVE  F!FilesInv'
<1> USE DEF F!Bounds, F!DeleteRead, F!DeleteRemote, F!DeleteRow, F!Fault, F!avatar, F!closing
<1>1. F!TypeOK' /\ F!StepsAreTyped' /\ F!DeletedOwes'
  <2>1. deletion' \in [File -> {"idle", "remote", "row"}]
    BY DEF F!FilesInv, F!StepsAreTyped
  <2>2. F!TypeOK'
    BY <2>1 DEF F!FilesInv, F!TypeOK
  <2>3. F!StepsAreTyped' /\ F!DeletedOwes'
    BY <2>1 DEF F!FilesInv, F!StepsAreTyped, F!DeletedOwes
  <2> QED BY <2>2, <2>3
<1>2. F!KindsAreApart' /\ (\A g \in File : deletion[g] = "row" => g \notin stored)'
  BY DEF F!FilesInv, F!TypeOK, F!StepsAreTyped, F!KindsAreApart, F!BeenAvatar, F!DeletedOwes
<1>3. F!DueIsFirst' /\ F!ListedIsServed'
  BY DEF F!FilesInv, F!TypeOK, F!StepsAreTyped, F!KindsAreApart, F!BeenAvatar, F!DeletedOwes,
         F!DueIsFirst, F!ListedIsServed
<1>4. F!ServedIsKnown'
  BY DEF F!FilesInv, F!TypeOK, F!StepsAreTyped, F!KindsAreApart, F!BeenAvatar, F!DeletedOwes,
         F!ServedIsKnown
<1>5. F!AvatarsMoveOn'
  BY DEF F!FilesInv, F!TypeOK, F!StepsAreTyped, F!KindsAreApart, F!BeenAvatar, F!DeletedOwes,
         F!AvatarsMoveOn
<1> QED BY <1>1, <1>2, <1>3, <1>4, <1>5 DEF F!FilesInv

\* An account's deletion (auth.ts beforeDelete, afterDelete): keys captured, rows cascaded,
\* files purged.
LEMMA ClosingKeeps ==
  ASSUME F!Bounds, F!FilesInv, 
         F!Capture \/ F!DeletionFails \/ F!AccountDeleted \/ F!PurgeFiles
  PROVE  F!FilesInv'
<1> USE DEF F!Bounds, F!Capture, F!DeletionFails, F!AccountDeleted, F!PurgeFiles, F!Fault,
    F!avatar, F!closing
<1>1. F!TypeOK' /\ F!StepsAreTyped' /\ F!DeletedOwes'
  BY DEF F!FilesInv, F!TypeOK, F!StepsAreTyped, F!DeletedOwes
<1>2. F!KindsAreApart' /\ (\A g \in File : deletion[g] = "row" => g \notin stored)'
  BY DEF F!FilesInv, F!TypeOK, F!StepsAreTyped, F!KindsAreApart, F!BeenAvatar, F!DeletedOwes
<1>3. F!DueIsFirst' /\ F!ListedIsServed'
  BY DEF F!FilesInv, F!TypeOK, F!StepsAreTyped, F!KindsAreApart, F!BeenAvatar, F!DeletedOwes,
         F!DueIsFirst, F!ListedIsServed
<1>4. F!ServedIsKnown'
  BY DEF F!FilesInv, F!TypeOK, F!StepsAreTyped, F!KindsAreApart, F!BeenAvatar, F!DeletedOwes,
         F!ServedIsKnown
<1>5. F!AvatarsMoveOn'
  BY DEF F!FilesInv, F!TypeOK, F!StepsAreTyped, F!KindsAreApart, F!BeenAvatar, F!DeletedOwes,
         F!AvatarsMoveOn
<1> QED BY <1>1, <1>2, <1>3, <1>4, <1>5 DEF F!FilesInv

\* Every step of an account's files keeps what ServedIsListed and the others rest on.
LEMMA FilesStep == ASSUME F!Bounds PROVE F!FilesInv /\ [F!Next]_F!vars => F!FilesInv'
<1> SUFFICES ASSUME F!FilesInv, [F!Next]_F!vars PROVE F!FilesInv'
  OBVIOUS
<1>1. ASSUME NEW f \in File, NEW how \in {"upload", "avatar"}, F!Upload(f, how) PROVE F!FilesInv'
  BY <1>1, UploadKeeps
<1>2. ASSUME NEW f \in File, F!ImageUploaded(f) PROVE F!FilesInv'
  BY <1>2, CallbackKeeps
<1>3. ASSUME NEW f \in File, F!AvatarRead(f) \/ F!AvatarWrite(f) \/ F!AvatarClean(f)
               PROVE F!FilesInv'
  BY <1>3, AvatarKeeps
<1>4. ASSUME NEW f \in File, F!DeleteRead(f) \/ F!DeleteRemote(f) \/ F!DeleteRow(f)
               PROVE F!FilesInv'
  BY <1>4, DeletionKeeps
<1>5. ASSUME F!RemoveRead \/ F!RemoveWrite \/ F!RemoveClean PROVE F!FilesInv'
  BY <1>5, RemovalKeeps
<1>6. ASSUME F!Capture \/ F!DeletionFails \/ F!AccountDeleted \/ F!PurgeFiles PROVE F!FilesInv'
  BY <1>6, ClosingKeeps
<1>7. CASE UNCHANGED F!vars
  BY <1>7 DEF F!vars, F!FilesInv, F!TypeOK, F!StepsAreTyped, F!KindsAreApart, F!BeenAvatar,
              F!DeletedOwes, F!DueIsFirst, F!ListedIsServed, F!ServedIsKnown, F!AvatarsMoveOn
<1> QED BY <1>1, <1>2, <1>3, <1>4, <1>5, <1>6, <1>7 DEF F!Next

\* An account begins with no files.
LEMMA FilesBegin == F!Bounds /\ F!Init => F!FilesInv
BY DEF F!Bounds, F!Init, F!Idle, F!FilesInv, F!TypeOK, F!StepsAreTyped, F!KindsAreApart,
    F!BeenAvatar,
       F!DeletedOwes, F!DueIsFirst, F!ListedIsServed, F!ServedIsKnown, F!AvatarsMoveOn

\* The files of one account (lib/uploadthing.ts, actions/uploads.ts, actions/avatar.ts): one
\* is served exactly while a row lists it, but for those a fault excuses; the avatar is served;
\* a deleted account's are purged.
THEOREM FilesAreKept ==
  ASSUME F!Bounds
  PROVE  F!Spec => [](F!TypeOK /\ F!ServedIsListed /\ F!ListedIsServed /\ F!AvatarIsServed
                       /\ F!PurgedWithTheAccount)
<1>1. F!FilesInv => F!ServedIsListed /\ F!AvatarIsServed /\ F!PurgedWithTheAccount
  BY DEF F!FilesInv, F!TypeOK, F!KindsAreApart, F!ServedIsKnown, F!AvatarsMoveOn, F!ServedIsListed,
         F!AvatarIsServed, F!PurgedWithTheAccount
<1>2. F!FilesInv => F!TypeOK /\ F!ListedIsServed
  BY DEF F!FilesInv
<1> QED BY <1>1, <1>2, FilesBegin, FilesStep, PTL DEF F!Spec

------------------------------------------------------------------------------
(* The exports of one account.                                              *)

\* However the rows become new ones, what stayed through an export is a part of them and they
\* are a part of what it may have seen.
LEMMA BecomesKeeps ==
  ASSUME X!HistoryIsRight, NEW new, X!FromTable(new), X!Becomes(new)
  PROVE  /\ X!FromTable(rows') /\ X!FromTable(stayed') /\ X!FromTable(seen')
         /\ \A t \in X!Table :
              /\ rows'[t] = new[t]
              /\ stayed'[t] \subseteq rows'[t] /\ rows'[t] \subseteq seen'[t]
              /\ stayed'[t] \subseteq stayed[t] /\ seen[t] \subseteq seen'[t]
BY DEF X!HistoryIsRight, X!FromTable, X!Becomes

\* A change of rows while an export runs keeps its history right.
LEMMA UseKeeps ==
  ASSUME X!ExportInv, NEW new, X!FromTable(new), X!Becomes(new),
         new["member"] \subseteq orgs',
         account' = "deleted" => \A t \in X!Table : new[t] = {},
         orgs' \subseteq Team, account' \in {"live", "deleted"},
         UNCHANGED <<busy, named, file, exports>>, X!WipedIsEmpty'
  PROVE  X!ExportInv'
<1>1. /\ X!FromTable(rows') /\ X!FromTable(stayed') /\ X!FromTable(seen')
      /\ \A t \in X!Table :
              /\ rows'[t] = new[t]
              /\ stayed'[t] \subseteq rows'[t] /\ rows'[t] \subseteq seen'[t]
              /\ stayed'[t] \subseteq stayed[t] /\ seen[t] \subseteq seen'[t]
  BY BecomesKeeps DEF X!ExportInv
<1>2. X!Read \subseteq X!Table /\ "member" \in X!Read /\ "user" \in X!Read
  BY DEF X!Read, X!Table
<1>3. X!HistoryIsRight'
  BY <1>1, <1>2 DEF X!HistoryIsRight
<1>4. X!ReadInTime'
  BY <1>1, <1>2 DEF X!ExportInv, X!ReadInTime
<1>5. X!UntouchedIsExported'
  BY <1>1, <1>2 DEF X!ExportInv, X!UntouchedIsExported, X!Done
<1>6. X!NothingLeaks' /\ X!TypeOK'
  BY DEF X!ExportInv, X!NothingLeaks, X!TypeOK, X!Done, X!WipedIsEmpty
<1> QED BY <1>3, <1>4, <1>5, <1>6 DEF X!ExportInv

\* Everything a member or the account's owner may do while the export runs is such a change.
LEMMA UseSteps ==
  ASSUME X!ExportInv,
         \/ \E t \in X!Table : \E r : X!Add(t, r) /\ (t = "member" => r \in orgs)
         \/ \E t \in X!Table : \E r : X!Drop(t, r)
         \/ \E p : X!CreatePost(p) \/ X!DeletePost(p)
         \/ \E o : X!DeleteOrg(o)
         \/ X!DeleteAccount
  PROVE  X!ExportInv'
<1> USE DEF X!ExportInv, X!TypeOK
<1>1. ASSUME NEW t \in X!Table, NEW r, X!Add(t, r), t = "member" => r \in orgs PROVE X!ExportInv'
  <2> DEFINE new == [rows EXCEPT ![t] = @ \cup {r}]
  <2>1. X!FromTable(new) /\ new["member"] \subseteq orgs
    BY <1>1 DEF X!HistoryIsRight, X!FromTable, X!Table, X!Read
  <2> QED BY <1>1, <2>1, UseKeeps DEF X!Add, X!WipedIsEmpty
<1>2. ASSUME NEW t \in X!Table, NEW r, X!Drop(t, r) PROVE X!ExportInv'
  <2> DEFINE new == [rows EXCEPT ![t] = @ \ {r}]
  <2>1. X!FromTable(new) /\ new["member"] \subseteq orgs
        /\ (account = "deleted" => \A u \in X!Table : new[u] = {})
    BY DEF X!HistoryIsRight, X!FromTable, X!Table, X!Read
  <2> QED BY <1>2, <2>1, UseKeeps DEF X!Drop, X!WipedIsEmpty
<1>3. ASSUME NEW p, X!CreatePost(p) PROVE X!ExportInv'
  <2> DEFINE new == [rows EXCEPT !["posts"] = @ \cup {p}, !["revisions"] = @ \cup {p}]
  <2>1. X!FromTable(new) /\ new["member"] \subseteq orgs
    BY DEF X!HistoryIsRight, X!FromTable, X!Table, X!Read
  <2> QED BY <1>3, <2>1, UseKeeps DEF X!CreatePost, X!WipedIsEmpty
<1>4. ASSUME NEW p, X!DeletePost(p) PROVE X!ExportInv'
  <2> DEFINE new == [rows EXCEPT !["posts"] = @ \ {p}, !["revisions"] = @ \ {p}]
  <2>1. X!FromTable(new) /\ new["member"] \subseteq orgs
        /\ (account = "deleted" => \A u \in X!Table : new[u] = {})
    BY DEF X!HistoryIsRight, X!FromTable, X!Table, X!Read
  <2> QED BY <1>4, <2>1, UseKeeps DEF X!DeletePost, X!WipedIsEmpty
<1>5. ASSUME NEW o, X!DeleteOrg(o) PROVE X!ExportInv'
  <2> DEFINE new == [rows EXCEPT !["member"] = @ \ {o}]
  <2>1. X!FromTable(new) /\ new["member"] \subseteq orgs \ {o}
        /\ (account = "deleted" => \A u \in X!Table : new[u] = {})
    BY DEF X!HistoryIsRight, X!FromTable, X!Table, X!Read
  <2> QED BY <1>5, <2>1, UseKeeps DEF X!DeleteOrg, X!WipedIsEmpty
<1>6. CASE X!DeleteAccount
  <2> DEFINE new == [t \in X!Table |-> {}]
  <2>1. X!FromTable(new) /\ new["member"] \subseteq orgs
        /\ \A u \in X!Table : new[u] = {}
    BY DEF X!FromTable, X!Table, X!Read
  <2>2. X!WipedIsEmpty'
    BY <1>6 DEF X!DeleteAccount, X!WipedIsEmpty, X!ReadInTime
  <2> QED BY <1>6, <2>1, <2>2, UseKeeps DEF X!DeleteAccount
<1> QED BY <1>1, <1>2, <1>3, <1>4, <1>5, <1>6

\* exportMyData begins: its history starts from what stands.
LEMMA BeginKeeps == ASSUME X!ExportInv, X!Begin PROVE X!ExportInv'
<1> USE DEF X!Begin
<1>1. X!HistoryIsRight'
  BY DEF X!ExportInv, X!HistoryIsRight, X!FromTable
<1>2. X!ReadInTime'
  BY DEF X!ReadInTime
<1> QED BY <1>1, <1>2 DEF X!ExportInv, X!TypeOK, X!WipedIsEmpty, X!UntouchedIsExported,
    X!NothingLeaks, X!Done

\* One of its queries is answered: what is read is what stands, between what stayed and what
\* was seen.
LEMMA ReadTableKeeps == ASSUME X!ExportInv, NEW t \in X!Read, X!ReadTable(t)
  PROVE X!ExportInv'
<1> USE DEF X!ReadTable
<1>1. X!HistoryIsRight'
  BY DEF X!ExportInv, X!HistoryIsRight, X!FromTable
<1>2. busy' = [u \in X!Read |-> IF u = t THEN rows[t] ELSE busy[u]] /\ t \in X!Table
  BY DEF X!ExportInv, X!ReadInTime, X!Table
<1>3. X!ReadInTime'
  BY <1>2 DEF X!ExportInv, X!ReadInTime, X!HistoryIsRight
<1>4. X!WipedIsEmpty'
  BY <1>2 DEF X!ExportInv, X!WipedIsEmpty, X!HistoryIsRight, X!Read
<1> QED BY <1>1, <1>3, <1>4 DEF X!ExportInv, X!TypeOK, X!UntouchedIsExported, X!NothingLeaks, X!Done

\* The query that needs the answers of another: the names of the organizations read.
LEMMA ReadOrgsKeeps == ASSUME X!ExportInv, X!ReadOrgs PROVE X!ExportInv'
<1> USE DEF X!ReadOrgs
<1>1. X!HistoryIsRight'
  BY DEF X!ExportInv, X!HistoryIsRight, X!FromTable
<1>2. X!ReadInTime'
  BY DEF X!ExportInv, X!ReadInTime, X!HistoryIsRight, X!AllRead, X!Read, X!Table
<1> QED BY <1>1, <1>2 DEF X!ExportInv, X!TypeOK, X!WipedIsEmpty, X!UntouchedIsExported,
    X!NothingLeaks, X!Done

\* The file is put together (lib/data-export.ts) from what the queries read.
LEMMA FinishKeeps == ASSUME X!ExportInv, X!Finish PROVE X!ExportInv'
<1> USE DEF X!Finish
<1>1. X!HistoryIsRight'
  BY DEF X!ExportInv, X!HistoryIsRight, X!FromTable
<1>2. CASE X!Refuse
  BY <1>1, <1>2 DEF X!ExportInv, X!TypeOK, X!ReadInTime, X!WipedIsEmpty, X!UntouchedIsExported,
      X!NothingLeaks, X!Done
<1>3. CASE ~X!Refuse
  <2>1. X!AllRead /\ named # None /\ busy["user"] # {} /\ file' = [t \in X!Read |-> X!LinesOf(t)]
    BY <1>3 DEF X!Refuse
  <2>2. ~wiped
    BY <2>1 DEF X!AllRead, X!ExportInv, X!WipedIsEmpty, X!Read
  <2>3. \A t \in X!Read : {l.row : l \in file'[t]} = busy[t]
    <3> SUFFICES ASSUME NEW t \in X!Read PROVE {l.row : l \in file'[t]} = busy[t]
      OBVIOUS
    <3>1. file'[t] = {X!Shaped(t, r) : r \in busy[t]}
      BY <2>1 DEF X!LinesOf
    <3>2. \A r : X!Shaped(t, r).row = r
      BY DEF X!Shaped
    <3> QED BY <3>1, <3>2
  <2>4. \A o \in busy["member"] : o \in named => \E l \in file'["member"] : l.row = o /\ l.name = o
    <3>1. file'["member"] = {X!Shaped("member", r) : r \in busy["member"]}
      BY <2>1 DEF X!LinesOf, X!Read
    <3>2. \A r : r \in named => X!Shaped("member", r).row = r /\ X!Shaped("member", r).name = r
      BY DEF X!Shaped
    <3> QED BY <3>1, <3>2
  <2>5. X!UntouchedIsExported'
    BY <2>1, <2>3, <2>4 DEF X!UntouchedIsExported, X!AllRead, X!ExportInv, X!ReadInTime, X!Read
  <2>6. file'["user"] # {}
    BY <2>1 DEF X!LinesOf, X!Read
  <2> QED BY <1>1, <2>1, <2>2, <2>5, <2>6
          DEF X!ExportInv, X!TypeOK, X!ReadInTime, X!WipedIsEmpty, X!NothingLeaks
<1> QED BY <1>2, <1>3

\* Every step keeps what an export may hold.
LEMMA ExportStep == X!ExportInv /\ [X!Next]_X!vars => X!ExportInv'
<1> SUFFICES ASSUME X!ExportInv, [X!Next]_X!vars PROVE X!ExportInv'
  OBVIOUS
<1>1. CASE UNCHANGED X!vars
  BY <1>1 DEF X!vars, X!ExportInv, X!TypeOK, X!HistoryIsRight, X!FromTable, X!ReadInTime,
      X!WipedIsEmpty,
              X!UntouchedIsExported, X!NothingLeaks, X!Done
<1>2. {"sessions", "notifications", "member"} \subseteq X!Table
  BY DEF X!Table, X!Read
<1> QED BY <1>1, <1>2, UseSteps, BeginKeeps, ReadTableKeeps, ReadOrgsKeeps, FinishKeeps DEF X!Next

\* No export has begun.
LEMMA ExportBegins == X!Init => X!ExportInv
BY DEF X!Init, X!ExportInv, X!TypeOK, X!HistoryIsRight, X!FromTable, X!ReadInTime, X!WipedIsEmpty,
       X!UntouchedIsExported, X!NothingLeaks, X!Done, X!Table, X!Read

\* Exports (server/actions/data-export.ts, lib/data-export.ts): what stood untouched while the
\* export read is in the file, and no file is made for an account gone.
THEOREM ExportsAreTrue ==
  X!Spec => [](X!TypeOK /\ X!UntouchedIsExported /\ X!NothingLeaks)
<1>1. X!ExportInv => X!TypeOK /\ X!UntouchedIsExported /\ X!NothingLeaks
  BY DEF X!ExportInv
<1> QED BY <1>1, ExportBegins, ExportStep, PTL DEF X!Spec

------------------------------------------------------------------------------
(* The two-factor card.                                                     *)

\* A tab of the card starts a dialog or cancels it (two-factor-card.tsx).
LEMMA TurnKeeps ==
  ASSUME T!Bounds, T!CardInv, NEW t \in Tab, T!Start(t) \/ T!Cancel(t)
  PROVE  T!CardInv'
<1> USE DEF T!Bounds, T!Start, T!Cancel, T!Turn, T!server, T!ghosts
<1>1. T!TypeOK'
  BY DEF T!CardInv, T!TypeOK, T!Modes
<1>2. T!CallsAreTyped'
  BY DEF T!CardInv, T!TypeOK, T!CallsAreTyped, T!Requests
<1>3. T!RowIsWhole' /\ T!NobodyIsLockedOut'
  BY DEF T!CardInv, T!RowIsWhole, T!NobodyIsLockedOut
<1>4. T!CardWaits'
  <2> SUFFICES ASSUME ~lost, abandoned' = {} PROVE T!CardWaits'
    BY DEF T!CardWaits
  <2>1. abandoned = {} /\ \A c \in calls : c.tab # t
    BY SMTT(30) DEF T!CardInv, T!CallsAreTyped, T!Requests, T!CardWaits, T!Submitting, T!Calling
  <2>2. CASE T!Start(t)
    BY <2>1, <2>2, SMTT(30) DEF T!CardInv, T!TypeOK, T!CallsAreTyped, T!Requests, T!CardWaits
  <2>3. CASE T!Cancel(t)
    BY <2>1, <2>3, SMTT(30) DEF T!CardInv, T!TypeOK, T!CallsAreTyped, T!Requests, T!CardWaits
  <2> QED BY <2>2, <2>3
<1> QED BY <1>1, <1>2, <1>3, <1>4 DEF T!CardInv

\* A dialog is submitted: the call carries the password, or the code of the secret shown.
LEMMA SubmitKeeps ==
  ASSUME T!Bounds, T!CardInv, NEW t \in Tab, T!SubmitPassword(t) \/ T!SubmitCode(t)
  PROVE  T!CardInv'
<1> USE DEF T!Bounds
<1>1. PICK what \in {"enable", "verify", "disable", "regenerate"}, code \in Nat :
        /\ T!Call(t, what, code)
        /\ what # "verify" => ~T!Submitting(t)
        /\ what = "enable" => mode[t] = "enrollPassword"
        /\ what = "verify" => code # 0 /\ ~isEnabled[t] /\ mode[t] = "enrollVerify"
             /\ enrollData[t] # None
                             /\ code = enrollData[t].secret
        /\ what \in {"disable", "regenerate"} => mode[t] = what
  <2>1. CASE T!SubmitPassword(t)
    BY <2>1 DEF T!SubmitPassword
  <2>2. CASE T!SubmitCode(t)
    <3>1. enrollData[t].secret \in Nat \ {0}
      BY <2>2 DEF T!SubmitCode, T!CardInv, T!TypeOK, T!CallsAreTyped
    <3> QED BY <2>2, <3>1 DEF T!SubmitCode
  <2> QED BY <2>1, <2>2
<1> DEFINE new == [tab |-> t, does |-> what, with |-> code, answer |-> None]
<1>2. calls' = calls \cup {new} /\ ~T!Calling(t, what) /\ UNCHANGED <<T!server, T!card, T!ghosts>>
  BY <1>1 DEF T!Call
<1>3. new \in T!Requests /\ new.answer = None /\ new.tab = t /\ new.does = what /\ new.with = code
  BY DEF T!Requests
<1> HIDE DEF new
<1> USE DEF T!server, T!card, T!ghosts
<1>4. T!TypeOK'
  BY <1>2, <1>3 DEF T!CardInv, T!TypeOK, T!Modes, T!Requests
<1>5. T!CallsAreTyped'
  BY <1>1, <1>2, <1>3 DEF T!CardInv, T!CallsAreTyped, T!Requests
<1>6. T!RowIsWhole' /\ T!NobodyIsLockedOut'
  BY <1>2 DEF T!CardInv, T!RowIsWhole, T!NobodyIsLockedOut
<1>7. T!CardWaits'
  <2> SUFFICES ASSUME ~lost, abandoned = {} PROVE T!CardWaits'
    BY <1>2 DEF T!CardWaits
  <2>1. \A c \in calls : c.tab # t
    BY <1>1, <1>2 DEF T!CardInv, T!CallsAreTyped, T!Requests, T!CardWaits, T!Submitting, T!Calling
  <2> QED BY <1>1, <1>2, <1>3, <2>1 DEF T!CardInv, T!CardWaits
<1> QED BY <1>4, <1>5, <1>6, <1>7 DEF T!CardInv

\* The page is loaded again: what the tab was shown stays shown, its answers are lost.
LEMMA ReloadKeeps ==
  ASSUME T!Bounds, T!CardInv, NEW t \in Tab, T!Reload(t)
  PROVE  T!CardInv'
<1> USE DEF T!Bounds, T!Reload, T!Turn, T!server
<1>1. T!TypeOK'
  BY DEF T!CardInv, T!TypeOK, T!CallsAreTyped, T!Requests, T!Modes
<1>2. T!CallsAreTyped'
  BY DEF T!CardInv, T!TypeOK, T!CallsAreTyped, T!Requests
<1>3. ~lost' => calls' = calls
  OBVIOUS
<1>4. T!RowIsWhole' /\ T!NobodyIsLockedOut'
  BY <1>3 DEF T!CardInv, T!RowIsWhole, T!NobodyIsLockedOut
<1>5. T!CardWaits'
  BY <1>3, ZenonT(30) DEF T!CardInv, T!TypeOK, T!CallsAreTyped, T!Requests, T!CardWaits
<1> QED BY <1>1, <1>2, <1>4, <1>5 DEF T!CardInv

\* The endpoint serves a call: a new secret or new codes are on their way to the tab that
\* asked.
LEMMA ServeKeeps ==
  ASSUME T!Bounds, T!CardInv, NEW c \in calls, T!Serve(c)
  PROVE  T!CardInv'
<1> USE DEF T!Bounds
<1>0. c \in T!Requests /\ c.answer = None /\ made \in 0 .. MaxMade /\ enabled \in BOOLEAN
      /\ secret \in 0 .. made /\ codes \in 0 .. made
  BY DEF T!Serve, T!CardInv, T!TypeOK, T!CallsAreTyped
<1> DEFINE Effect(a) ==
        /\ calls' = (calls \ {c}) \cup {[c EXCEPT !.answer = a]}
        /\ a \in [ok : BOOLEAN, data : 0 .. made']
        /\ a.data # 0 <=> a.ok /\ c.does \in {"enable", "regenerate"}
        /\ made' \in made .. MaxMade /\ enabled' \in BOOLEAN
        /\ secret' \in 0 .. made' /\ codes' \in 0 .. made'
        /\ enabled' => secret' = secret \/ (a.ok /\ a.data = secret' /\ secret' # 0)
        /\ enabled' => codes' = codes \/ (a.ok /\ a.data = codes' /\ codes' # 0)
        /\ ~enabled' => codes' = secret' \/ (~enabled /\ codes' = codes /\ secret' = secret)
        /\ enabled' /\ ~enabled => /\ c.does = "verify" /\ secret = c.with
                                   /\ secret' = secret /\ codes' = codes
<1>1. PICK a : Effect(a)
  <2>1. CASE c.does = "enable"
    <3>1. Effect([ok |-> TRUE, data |-> made'])
      BY <1>0, <2>1 DEF T!Serve
    <3> QED BY <3>1
  <2>2. CASE c.does = "verify"
    <3>1. Effect([ok |-> secret = c.with, data |-> 0])
      BY <1>0, <2>2 DEF T!Serve
    <3> QED BY <3>1
  <2>3. CASE c.does = "disable"
    <3>1. /\ ~enabled' /\ secret' = 0 /\ codes' = 0 /\ made' = made
          /\ calls' = (calls \ {c}) \cup {[c EXCEPT !.answer = [ok |-> TRUE, data |-> 0]]}
          /\ enabled' \in BOOLEAN
      BY <1>0, <2>3 DEF T!Serve
    <3>2. Effect([ok |-> TRUE, data |-> 0])
      BY <1>0, <2>3, <3>1
    <3> QED BY <3>2
  <2>4. CASE c.does = "regenerate" /\ enabled
    <3>1. Effect([ok |-> TRUE, data |-> made'])
      BY <1>0, <2>4 DEF T!Serve
    <3> QED BY <3>1
  <2>5. CASE c.does = "regenerate" /\ ~enabled
    <3>1. Effect([ok |-> FALSE, data |-> 0])
      BY <1>0, <2>5 DEF T!Serve, T!server
    <3> QED BY <3>1
  <2>6. c.does \in {"enable", "verify", "disable", "regenerate"} /\ enabled \in BOOLEAN
    BY <1>0 DEF T!Requests
  <2> QED BY <2>1, <2>2, <2>3, <2>4, <2>5, <2>6
<1> DEFINE d == [c EXCEPT !.answer = a]
<1>2. d \in T!Requests' /\ d.tab = c.tab /\ d.does = c.does /\ d.with = c.with
        /\ d.answer = a /\ a # None
  BY <1>0, <1>1 DEF T!Requests
<1>3. calls' = (calls \ {c}) \cup {d} /\ UNCHANGED <<T!card, T!ghosts>>
  BY <1>1 DEF T!Serve
<1> HIDE DEF d
<1> USE DEF T!card, T!ghosts
<1>4. T!TypeOK'
  BY <1>1, <1>2, <1>3 DEF T!CardInv, T!TypeOK, T!Requests
<1>5. T!CallsAreTyped'
  <2>1. T!Requests \subseteq T!Requests' /\ 1 .. made \subseteq 1 .. made'
    BY <1>0, <1>1 DEF T!Requests
  <2> QED BY <1>1, <1>2, <1>3, <2>1 DEF T!CardInv, T!CallsAreTyped
<1>6. T!CardWaits'
  BY <1>2, <1>3 DEF T!CardInv, T!CardWaits
<1>7. T!RowIsWhole'
  BY <1>0, <1>1 DEF T!CardInv, T!RowIsWhole, T!CallsAreTyped
<1>8. T!NobodyIsLockedOut'
  <2> SUFFICES ASSUME enabled', ~lost, abandoned = {}, NEW n \in {secret', codes'}
               PROVE  n \in shown \/ \E e \in calls' : e.answer # None /\ e.answer.ok
                        /\ e.answer.data = n
    BY <1>3 DEF T!NobodyIsLockedOut
  <2>1. CASE a.ok /\ a.data = n
    BY <1>2, <1>3, <2>1
  <2>2. CASE enabled /\ n \in {secret, codes}
    BY <1>0, <1>3, <2>2 DEF T!CardInv, T!NobodyIsLockedOut
  <2>3. CASE ~enabled
    <3>1. c.does = "verify" /\ secret = c.with /\ n = secret
      BY <1>1, <2>3 DEF T!CardInv, T!RowIsWhole
    <3>2. c.with \in shown
      BY <1>0, <3>1 DEF T!CardInv, T!CardWaits, T!Requests
    <3> QED BY <3>1, <3>2
  <2> QED BY <1>1, <2>1, <2>2, <2>3
<1> QED BY <1>4, <1>5, <1>6, <1>7, <1>8 DEF T!CardInv

\* A tab has its answer: the secret or the codes it carries are shown.
LEMMA AnswerKeeps ==
  ASSUME T!Bounds, T!CardInv, NEW c \in calls, T!Answer(c)
  PROVE  T!CardInv'
<1> USE DEF T!Bounds, T!card, T!server
<1> DEFINE t == c.tab
<1>1. /\ c \in T!Requests /\ t \in Tab /\ c.answer # None /\ calls' = calls \ {c}
      /\ shown' = shown \cup T!OnScreen(t) /\ UNCHANGED <<T!server, abandoned, lost, reloads>>
      /\ c.answer \in [ok : BOOLEAN, data : 0 .. made]
  BY DEF T!Answer, T!CardInv, T!TypeOK, T!CallsAreTyped, T!Requests
<1>2. \/ ~c.answer.ok /\ UNCHANGED T!card
      \/ c.answer.ok /\ c.does = "enable" /\ T!EnrollStarted(c) /\ c.answer.data \in 1 .. made
      \/ c.answer.ok /\ c.does = "verify" /\ T!Enrolled(c)
      \/ c.answer.ok /\ c.does = "disable" /\ T!Disabled(c)
      \/ c.answer.ok /\ c.does = "regenerate" /\ T!Regenerated(c) /\ c.answer.data \in 1 .. made
  <2>1. c.answer.ok /\ c.does \in {"enable", "regenerate"} => c.answer.data \in 1 .. made
    BY <1>1 DEF T!CardInv, T!TypeOK, T!CallsAreTyped
  <2>2. c.does \in {"enable", "verify", "disable", "regenerate"}
    BY <1>1 DEF T!Requests
  <2> QED BY <2>1, <2>2 DEF T!Answer
<1> DEFINE D == c.answer.data
<1>3. /\ isEnabled' \in [Tab -> BOOLEAN] /\ mode' \in [Tab -> T!Modes]
      /\ regenCodes' \in [Tab -> (1 .. made) \cup {None}]
      /\ enrollData' \in [Tab -> [secret : 1 .. made, codes : 1 .. made] \cup {None}]
  <2>0. /\ isEnabled \in [Tab -> BOOLEAN] /\ mode \in [Tab -> T!Modes]
        /\ regenCodes \in [Tab -> (1 .. made) \cup {None}]
        /\ enrollData \in [Tab -> [secret : 1 .. made, codes : 1 .. made] \cup {None}]
    BY DEF T!CardInv, T!TypeOK, T!CallsAreTyped
  <2>1. CASE ~c.answer.ok /\ UNCHANGED T!card
    BY <1>1, <2>0, <2>1
  <2>2. CASE T!EnrollStarted(c) /\ c.answer.data \in 1 .. made
    BY <1>1, <2>0, <2>2 DEF T!EnrollStarted, T!Modes
  <2>3. CASE T!Enrolled(c) \/ T!Disabled(c)
    BY <1>1, <2>0, <2>3 DEF T!Enrolled, T!Disabled, T!Turn, T!Modes
  <2>4. CASE T!Regenerated(c) /\ c.answer.data \in 1 .. made
    BY <1>1, <2>0, <2>4 DEF T!Regenerated
  <2> QED BY <1>2, <2>1, <2>2, <2>3, <2>4
<1>4. T!OnScreen(t) \subseteq 1 .. made
  BY <1>1, <1>3 DEF T!OnScreen
<1>5. T!TypeOK'
  BY <1>1, <1>3, <1>4 DEF T!CardInv, T!TypeOK
<1>6. T!CallsAreTyped'
  BY <1>1, <1>3 DEF T!CardInv, T!CallsAreTyped, T!Requests
<1>7. T!RowIsWhole'
  BY <1>1 DEF T!CardInv, T!RowIsWhole
<1>8. ~lost /\ abandoned = {} => \A e \in calls' : e.tab # t
  BY <1>1 DEF T!CardInv, T!CardWaits
<1>9. ~lost /\ abandoned = {} /\ c.answer.ok /\ c.does \in {"enable", "regenerate"} => D \in shown'
  <2>1. ~lost /\ abandoned = {} /\ c.answer.ok /\ c.does = "enable" => D \in T!OnScreen(t)
    <3>1. c.answer.ok /\ c.does = "enable" =>
            /\ enrollData'[t] = [secret |-> D, codes |-> D] /\ mode'[t] = "enrollVerify"
            /\ isEnabled' = isEnabled
      BY <1>1, <1>2 DEF T!EnrollStarted, T!CardInv, T!TypeOK, T!CallsAreTyped
    <3>2. ~lost /\ abandoned = {} /\ c.does = "enable" => ~isEnabled[t]
      BY <1>1 DEF T!CardInv, T!CardWaits
    <3> QED BY <1>1, <3>1, <3>2 DEF T!OnScreen
  <2>2. ~lost /\ abandoned = {} /\ c.answer.ok /\ c.does = "regenerate" => D \in T!OnScreen(t)
    <3>1. c.answer.ok /\ c.does = "regenerate" => regenCodes'[t] = D
            /\ UNCHANGED <<mode, isEnabled>>
      BY <1>1, <1>2 DEF T!Regenerated, T!CardInv, T!TypeOK
    <3>2. ~lost /\ abandoned = {} /\ c.does = "regenerate" => isEnabled[t] /\ mode[t] = "regenerate"
      BY <1>1 DEF T!CardInv, T!CardWaits
    <3> QED BY <1>1, <3>1, <3>2 DEF T!OnScreen
  <2> QED BY <1>1, <2>1, <2>2
<1>10. T!NobodyIsLockedOut'
  <2> SUFFICES ASSUME enabled, ~lost, abandoned = {}, NEW n \in {secret, codes}
               PROVE  n \in shown' \/ \E e \in calls' : e.answer # None /\ e.answer.ok
                        /\ e.answer.data = n
    BY <1>1 DEF T!NobodyIsLockedOut
  <2>1. n # 0
    BY DEF T!CardInv, T!RowIsWhole
  <2>2. CASE n = D /\ c.answer.ok
    <3>1. c.does \in {"enable", "regenerate"}
      BY <1>1, <2>1, <2>2 DEF T!CardInv, T!CallsAreTyped, T!Requests
    <3> QED BY <1>9, <2>2, <3>1
  <2> QED BY <1>1, <2>2 DEF T!CardInv, T!NobodyIsLockedOut
<1>11. T!CardWaits'
  BY <1>1, <1>2, <1>3, <1>8, <1>9 DEF T!CardInv, T!TypeOK, T!CallsAreTyped, T!Requests,
      T!CardWaits, T!EnrollStarted, T!Enrolled, T!Disabled,
                    T!Regenerated, T!Turn
<1> QED BY <1>5, <1>6, <1>7, <1>10, <1>11 DEF T!CardInv

\* Every step of the card keeps what NobodyIsLockedOut rests on.
LEMMA CardStep == ASSUME T!Bounds PROVE T!CardInv /\ [T!Next]_T!vars => T!CardInv'
<1> SUFFICES ASSUME T!CardInv, [T!Next]_T!vars PROVE T!CardInv'
  OBVIOUS
<1>1. CASE UNCHANGED T!vars
  BY <1>1 DEF T!vars, T!server, T!card, T!ghosts, T!CardInv, T!TypeOK, T!CallsAreTyped,
      T!Requests, T!RowIsWhole,
              T!CardWaits, T!NobodyIsLockedOut
<1> QED BY <1>1, TurnKeeps, SubmitKeeps, ReloadKeeps, ServeKeeps, AnswerKeeps DEF T!Next

\* No secret was made and no tab has asked for one.
LEMMA CardBegins == ASSUME T!Bounds PROVE T!Init => T!CardInv
<1> SUFFICES ASSUME T!Init PROVE T!CardInv
  OBVIOUS
<1> USE DEF T!Bounds, T!Init
<1>1. T!TypeOK
  <2>1. /\ isEnabled \in [Tab -> BOOLEAN] /\ mode \in [Tab -> T!Modes]
        /\ regenCodes \in [Tab -> (1 .. made) \cup {None}]
    BY DEF T!Modes
  <2>2. secret = 0 /\ codes = 0 /\ made = 0 /\ reloads = 0 /\ enabled \in BOOLEAN
    OBVIOUS
  <2>3. MaxMade \in Nat /\ MaxReloads \in Nat
    OBVIOUS
  <2>4. shown \subseteq 1 .. made /\ \A c \in calls : c.tab \in Tab \cup {None}
    OBVIOUS
  <2> HIDE DEF T!Init, T!Bounds
  <2> QED BY <2>1, <2>2, <2>3, <2>4 DEF T!TypeOK
<1>2. T!RowIsWhole /\ T!NobodyIsLockedOut
  BY DEF T!RowIsWhole, T!NobodyIsLockedOut
<1>3. T!CallsAreTyped /\ T!CardWaits
  BY DEF T!CallsAreTyped, T!CardWaits
<1> QED BY <1>1, <1>2, <1>3 DEF T!CardInv

\* The two-factor card (components/account/two-factor-card.tsx): a second factor
\* in force is one whose secret and codes a tab was shown or is about to be, unless the answer
\* was lost or the setup left while it verified.
THEOREM NobodyIsLockedOutEver ==
  ASSUME T!Bounds
  PROVE  T!Spec => [](T!TypeOK /\ T!NobodyIsLockedOut)
<1>1. T!CardInv => T!TypeOK /\ T!NobodyIsLockedOut
  BY DEF T!CardInv
<1> QED BY <1>1, CardBegins, CardStep, PTL DEF T!Spec

------------------------------------------------------------------------------
(* The sessions, passkeys and danger cards.                                 *)

\* A step that leaves the passkeys and their calls alone.
LEMMA KeysUntouched ==
  ASSUME K!CardsInv, UNCHANGED <<keys, shown, calls, estranged>>, made'.keys = made.keys
  PROVE  K!CallsAreApart' /\ K!AnswersAgree'
<1>1. K!CallsAreApart'
  BY DEF K!CardsInv, K!CallsAreApart, K!Requests
<1>2. K!AnswersAgree'
  BY DEF K!CardsInv, K!AnswersAgree, K!Agrees, K!Of, K!Landed
<1> QED BY <1>1, <1>2

\* Sign-ins, sign-outs, passwords and the sessions card: what a revocation hides is over once
\* it has landed.
LEMMA SessionsKeep ==
  ASSUME K!Bounds, K!CardsInv,
         \/ K!SignIn \/ K!SignOut \/ K!ChangePassword \/ K!ResetPassword
         \/ K!Revoke \/ K!RevokeLands \/ K!RevokeAnswers \/ K!RevokeFails \/ K!Refresh
  PROVE  K!CardsInv'
<1> USE DEF K!Bounds, K!sessionCard, K!passkeyCard, K!dangerCard
<1>1. /\ UNCHANGED <<card, account, keys, shown, calls, estranged, danger, link, mailed>>
      /\ made'.keys = made.keys /\ made'.sessions \in {made.sessions, made.sessions + 1}
      /\ made' \in [sessions : 1..MaxSessions, keys : 0..MaxKeys]
      /\ config' \in [password : BOOLEAN, email : BOOLEAN] /\ config'.email = config.email
  <2>1. CASE K!SignIn
    BY <2>1 DEF K!SignIn, K!CardsInv, K!MadeCountsThem
  <2>2. CASE K!ResetPassword
    BY <2>2 DEF K!ResetPassword, K!CardsInv, K!MadeCountsThem
  <2>3. CASE ~K!SignIn /\ ~K!ResetPassword
    BY <2>3 DEF K!SignOut, K!ChangePassword, K!Revoke, K!RevokeLands, K!RevokeAnswers,
        K!RevokeFails, K!Refresh,
                K!CardsInv, K!MadeCountsThem
  <2> QED BY <2>1, <2>2, <2>3
<1>2. /\ sessions' \cup listed' \cup hidden' \subseteq 1..made'.sessions
      /\ K!RevokedAreOver' /\ K!HiddenIsOver'
  <2>0. /\ sessions \cup listed \cup hidden \subseteq 1..made.sessions
        /\ made.sessions \in 1..MaxSessions
        /\ K!RevokedAreOver /\ K!HiddenIsOver
    BY DEF K!CardsInv, K!MadeCountsThem
  <2>1. CASE K!SignIn
    <3>1. sessions' = sessions \cup {made.sessions + 1} /\ made'.sessions = made.sessions + 1
          /\ UNCHANGED <<listed, hidden, revoking>>
      BY <2>1 DEF K!SignIn, K!CardsInv, K!MadeCountsThem
    <3>2. sessions' \cup listed' \cup hidden' \subseteq 1..made'.sessions /\ K!HiddenIsOver'
      BY <2>0, <3>1 DEF K!HiddenIsOver
    <3>3. K!RevokedAreOver'
      BY <2>0, <3>1 DEF K!RevokedAreOver
    <3> QED BY <3>2, <3>3
  <2>2. CASE K!SignOut \/ K!ChangePassword \/ K!ResetPassword \/ K!Refresh
    <3>1. /\ sessions' \subseteq sessions /\ listed' \in {listed, sessions}
          /\ UNCHANGED <<hidden, revoking, made>>
      BY <2>2 DEF K!SignOut, K!ChangePassword, K!ResetPassword, K!Refresh
    <3> QED BY <2>0, <3>1 DEF K!RevokedAreOver, K!HiddenIsOver
  <2>3. CASE K!Revoke
    <3>1. PICK all \in BOOLEAN, ids \in SUBSET (2..made.sessions) :
            /\ revoking' = [all |-> all, ids |-> ids, stage |-> "sent"]
            /\ UNCHANGED <<sessions, made, listed, hidden>>
      <4>1. K!Others \in SUBSET (2..made.sessions)
              /\ \A s \in K!Others : {s} \in SUBSET (2..made.sessions)
        BY <2>0 DEF K!Others, K!Visible, K!Here
      <4>2. UNCHANGED <<sessions, made, listed, hidden>>
        BY <2>3 DEF K!Revoke
      <4>3. \/ \E s \in K!Others : revoking' = [all |-> FALSE, ids |-> {s}, stage |-> "sent"]
            \/ revoking' = [all |-> TRUE, ids |-> K!Others, stage |-> "sent"]
        BY <2>3 DEF K!Revoke
      <4> QED BY <4>1, <4>2, <4>3
    <3> QED BY <2>0, <3>1 DEF K!RevokedAreOver, K!HiddenIsOver
  <2>4. CASE K!RevokeLands
    <3>1. UNCHANGED <<made, listed, hidden>>
            /\ revoking \in [all : BOOLEAN, ids : SUBSET (2..made.sessions),
                                                              stage : {"sent", "done", "refused"}]
      BY <2>0, <2>4 DEF K!RevokeLands, K!RevokedAreOver
    <3>2. CASE K!SignedIn
      <4>1. /\ sessions' = IF revoking.all THEN {1} ELSE sessions \ revoking.ids
            /\ revoking' = [revoking EXCEPT !.stage = "done"]
            /\ 1 \in sessions
        BY <2>4, <3>2 DEF K!RevokeLands, K!SignedIn, K!Here
      <4>2. revoking'.ids \cap sessions' = {} /\ sessions' \subseteq sessions
        BY <3>1, <4>1
      <4>3. revoking' \in [all : BOOLEAN, ids : SUBSET (2..made.sessions), stage : {"sent",
              "done", "refused"}]
        BY <3>1, <4>1
      <4> QED BY <2>0, <3>1, <4>2, <4>3 DEF K!RevokedAreOver, K!HiddenIsOver
    <3>3. CASE ~K!SignedIn
      BY <2>0, <2>4, <3>1, <3>3 DEF K!RevokeLands, K!RevokedAreOver, K!HiddenIsOver
    <3> QED BY <3>2, <3>3
  <2>5. CASE K!RevokeAnswers
    <3>1. revoking.stage = "done" => revoking.ids \subseteq 2..made.sessions
            /\ revoking.ids \cap sessions = {}
      BY <2>0, <2>5 DEF K!RevokeAnswers, K!RevokedAreOver
    <3> QED BY <2>0, <2>5, <3>1 DEF K!RevokeAnswers, K!HidesWhen, K!RevokedAreOver, K!HiddenIsOver
  <2>6. CASE K!RevokeFails
    BY <2>0, <2>6 DEF K!RevokeFails, K!RevokedAreOver, K!HiddenIsOver
  <2> QED BY <2>1, <2>2, <2>3, <2>4, <2>5, <2>6
<1>3. K!TypeOK' /\ K!MadeCountsThem'
  BY <1>1, <1>2 DEF K!CardsInv, K!TypeOK, K!MadeCountsThem
<1>4. K!DangerTellsTheTruth'
  BY <1>1 DEF K!CardsInv, K!DangerTellsTheTruth
<1> QED BY <1>1, <1>2, <1>3, <1>4, KeysUntouched DEF K!CardsInv

\* The danger card: it says goodbye or that a mail went, as deleteUser answered.
LEMMA DangerKeeps ==
  ASSUME K!Bounds, K!CardsInv,
         K!Reveal \/ K!Cancel \/ K!RequestDeletion \/ K!RequestUnanswered \/ K!OpenLink
  PROVE  K!CardsInv'
<1> USE DEF K!Bounds, K!Reveal, K!Cancel, K!RequestDeletion, K!RequestUnanswered, K!OpenLink,
    K!Registered, K!Mails,
            K!sessionCard, K!passkeyCard, K!SignedIn
<1>1. /\ UNCHANGED <<keys, shown, calls, estranged, config, made, listed, hidden, revoking, card>>
      /\ sessions' \subseteq sessions
  OBVIOUS
<1>2. K!TypeOK' /\ K!MadeCountsThem'
  BY <1>1 DEF K!CardsInv, K!TypeOK, K!MadeCountsThem
<1>3. K!RevokedAreOver' /\ K!HiddenIsOver'
  BY <1>1 DEF K!CardsInv, K!RevokedAreOver, K!HiddenIsOver
<1>4. K!DangerTellsTheTruth'
  BY <1>1 DEF K!CardsInv, K!DangerTellsTheTruth
<1> QED BY <1>1, <1>2, <1>3, <1>4, KeysUntouched DEF K!CardsInv

\* What a step on the passkeys leaves alone.
LEMMA RestUntouched ==
  ASSUME K!CardsInv, UNCHANGED <<card, config, account, sessions, K!sessionCard, K!dangerCard>>,
         made'.sessions = made.sessions
  PROVE  K!RevokedAreOver' /\ K!HiddenIsOver' /\ K!DangerTellsTheTruth'
BY DEF K!CardsInv, K!sessionCard, K!dangerCard, K!RevokedAreOver, K!HiddenIsOver,
    K!DangerTellsTheTruth

\* A passkey removed in another tab is estranged: this card may go on showing it.
LEMMA RemoveElsewhereKeeps == ASSUME K!Bounds, K!CardsInv, K!RemoveElsewhere PROVE K!CardsInv'
<1>1. PICK k \in keys :
        /\ keys' = keys \ {k} /\ estranged' = estranged \cup {k.id}
        /\ UNCHANGED <<card, config, account, sessions, made, shown, calls, K!sessionCard,
             K!dangerCard>>
  BY DEF K!RemoveElsewhere
<1>2. K!TypeOK' /\ K!MadeCountsThem' /\ K!CallsAreApart'
  BY <1>1 DEF K!CardsInv, K!TypeOK, K!MadeCountsThem, K!CallsAreApart, K!Requests,
      K!sessionCard, K!dangerCard
<1>3. \A id : id \notin estranged' => K!Of(keys, id)' = K!Of(keys, id)
  BY <1>1 DEF K!Of
<1>4. K!AnswersAgree'
  BY <1>1, <1>3 DEF K!CardsInv, K!AnswersAgree, K!Agrees, K!Landed, K!Of
<1> QED BY <1>1, <1>2, <1>4, RestUntouched DEF K!CardsInv

\* A call on a passkey is sent: one of its kind for that passkey.
LEMMA StartKeeps ==
  ASSUME K!Bounds, K!CardsInv, K!AddKey \/ K!RenameKey \/ K!RemoveKey
  PROVE  K!CardsInv'
<1>1. PICK does \in {"add", "rename", "remove"}, id \in 0..made.keys, n \in Name :
        /\ K!StartsCall(does, id, n) /\ (does # "remove" => ~K!InFlight(does, id))
        /\ does = "add" => id = 0 /\ made.keys < MaxKeys
        /\ does # "add" => \E k \in shown : k.id = id
  <2>1. CASE K!AddKey
    BY <2>1 DEF K!AddKey, K!CardsInv, K!MadeCountsThem
  <2>2. CASE K!RenameKey
    BY <2>2 DEF K!RenameKey, K!CardsInv, K!MadeCountsThem
  <2>3. CASE K!RemoveKey
    BY <2>3 DEF K!RemoveKey, K!CardsInv, K!MadeCountsThem, K!TypeOK
  <2> QED BY <2>1, <2>2, <2>3
<1>0. PICK nth \in 1..MaxCalls : calls' = calls \cup {K!Call(does, id, n, nth)}
  BY <1>1 DEF K!StartsCall
<1> DEFINE new == K!Call(does, id, n, nth)
<1>2. /\ calls' = calls \cup {new}
      /\ UNCHANGED <<card, config, account, sessions, made, keys, shown, estranged,
           K!sessionCard, K!dangerCard>>
  BY <1>0, <1>1 DEF K!StartsCall
<1>3. /\ new \in K!Requests
      /\ new.kind = does /\ new.id = id /\ new.stage = "sent"
  <2>1. id \in 0..made.keys /\ n \in Name /\ does \in {"add", "rename", "remove"}
    OBVIOUS
  <2>2. shown \in SUBSET [id : 1..MaxKeys, name : Name]
    BY DEF K!CardsInv, K!TypeOK
  <2> QED BY <2>1, <2>2 DEF K!Call, K!Requests
<1> HIDE DEF new
<1>4. K!TypeOK' /\ K!MadeCountsThem'
  BY <1>2 DEF K!CardsInv, K!TypeOK, K!MadeCountsThem, K!sessionCard, K!dangerCard
<1>5. does # "add" => id \in 1..made.keys
  BY <1>1 DEF K!CardsInv, K!MadeCountsThem
<1>6. K!CallsAreApart'
  BY <1>1, <1>2, <1>3, <1>5 DEF K!CardsInv, K!CallsAreApart, K!Requests, K!InFlight
<1>7. \A i : K!Landed(i)' = K!Landed(i) /\ K!Of(shown, i)' = K!Of(shown, i)
        /\ K!Of(keys, i)' = K!Of(keys, i)
  BY <1>2, <1>3 DEF K!Landed, K!Of
<1>8. K!AnswersAgree'
  <2>1. \A i \in 1..made.keys : K!Of(shown, i) = {} => new.id # i
    BY <1>1, <1>3 DEF K!Of
  <2> QED BY <1>2, <1>7, <2>1 DEF K!CardsInv, K!AnswersAgree, K!Agrees, K!Landed
<1> QED BY <1>2, <1>4, <1>6, <1>8, RestUntouched DEF K!CardsInv

\* An answer is lost: the passkey of its call is estranged.
LEMMA LostKeeps == ASSUME K!Bounds, K!CardsInv, K!AnswerLost PROVE K!CardsInv'
<1>1. PICK c \in calls :
        /\ c.stage = "done" /\ estranged' = estranged \cup {c.id} /\ calls' = calls \ {c}
        /\ UNCHANGED <<card, config, account, sessions, made, keys, shown, K!sessionCard,
             K!dangerCard>>
  BY DEF K!AnswerLost
<1>2. K!TypeOK' /\ K!MadeCountsThem' /\ K!CallsAreApart'
  BY <1>1 DEF K!CardsInv, K!TypeOK, K!MadeCountsThem, K!CallsAreApart, K!Requests,
      K!sessionCard, K!dangerCard
<1>3. \A id : id \notin estranged' => K!Landed(id)' = K!Landed(id)
  BY <1>1 DEF K!Landed
<1>4. K!AnswersAgree'
  BY <1>1, <1>3 DEF K!CardsInv, K!AnswersAgree, K!Agrees, K!Of
<1> QED BY <1>1, <1>2, <1>4, RestUntouched DEF K!CardsInv

\* A call reaches the endpoint: its answer will bring the card to what is now stored.
LEMMA LandsKeep == ASSUME K!Bounds, K!CardsInv, K!CallLands PROVE K!CardsInv'
<1> USE DEF K!Bounds
<1>1. PICK c \in calls :
    /\ c.stage = "sent"
    /\ \/ /\ c.kind = "add"
          /\ keys' = keys \cup {[id |-> made.keys + 1, name |-> c.name]}
          /\ made' = [made EXCEPT !.keys = @ + 1]
          /\ calls' = (calls \ {c}) \cup {[c EXCEPT !.stage = "done", !.id = made.keys + 1]}
       \/ /\ c.kind = "rename" /\ K!Stored(c.id)
          /\ keys' = { k \in keys : k.id # c.id } \cup {[id |-> c.id, name |-> c.name]}
          /\ calls' = (calls \ {c}) \cup {[c EXCEPT !.stage = "done"]}
          /\ made' = made
       \/ /\ c.kind = "remove" /\ K!Stored(c.id)
          /\ keys' = { k \in keys : k.id # c.id }
          /\ calls' = (calls \ {c}) \cup {[c EXCEPT !.stage = "done"]}
          /\ made' = made
       \/ /\ calls' = (calls \ {c}) \cup {[c EXCEPT !.stage = "refused"]}
          /\ keys' = keys /\ made' = made
    /\ UNCHANGED <<card, config, account, sessions, shown, estranged, K!sessionCard, K!dangerCard>>
  BY DEF K!CallLands
<1>2. /\ c \in K!Requests
      /\ made \in [sessions : 1..MaxSessions, keys : 0..MaxKeys]
      /\ c.kind = "add" <=> c.id = 0
      /\ c.kind = "add" => made.keys < MaxKeys
  BY <1>1 DEF K!CardsInv, K!MadeCountsThem, K!CallsAreApart, K!Requests
<1>3. CASE /\ c.kind = "add"
           /\ keys' = keys \cup {[id |-> made.keys + 1, name |-> c.name]}
           /\ made' = [made EXCEPT !.keys = @ + 1]
           /\ calls' = (calls \ {c}) \cup {[c EXCEPT !.stage = "done", !.id = made.keys + 1]}
  <2>0. PICK new : new = made.keys + 1
    OBVIOUS
  <2> DEFINE d == [c EXCEPT !.stage = "done", !.id = new]
  <2>1. /\ d \in K!Requests'
        /\ d.kind = "add" /\ d.id = new /\ d.name = c.name /\ d.stage = "done"
        /\ made'.keys = new /\ made'.sessions = made.sessions /\ new \in 1..MaxKeys
        /\ made' \in [sessions : 1..MaxSessions, keys : 0..MaxKeys]
    <3>1. made.keys \in 0..MaxKeys /\ made.keys < MaxKeys
      BY <1>2, <1>3
    <3>2. made' \in [sessions : 1..MaxSessions, keys : 0..MaxKeys] /\ made'.keys = new
            /\ made'.sessions = made.sessions
      BY <1>2, <1>3, <2>0, <3>1
    <3>3. new \in 1..MaxKeys /\ new \in 0..made'.keys
      BY <2>0, <3>1, <3>2
    <3>4. d.kind = "add" /\ d.id = new /\ d.name = c.name /\ d.stage = "done"
      BY <1>2, <1>3 DEF K!Requests
    <3>5. d \in K!Requests'
      BY <1>2, <3>3 DEF K!Requests
    <3> QED BY <3>2, <3>3, <3>4, <3>5
  <2>2. calls' = (calls \ {c}) \cup {d} /\ keys' = keys \cup {[id |-> new, name |-> c.name]}
    BY <1>3, <2>0
  <2>3. [id |-> new, name |-> c.name] \in [id : 1..MaxKeys, name : Name]
    BY <1>2, <2>1 DEF K!Requests
  <2> HIDE DEF d
  <2>4. K!TypeOK' /\ K!MadeCountsThem'
    BY <1>1, <2>1, <2>2, <2>3 DEF K!CardsInv, K!TypeOK, K!MadeCountsThem, K!sessionCard,
        K!dangerCard
  <2>5. \A e \in calls : e.kind = "add" /\ e.stage = "sent" => e = c
    BY <1>1, <1>2, <1>3 DEF K!CardsInv, K!CallsAreApart, K!Requests
  <2>6. \A e \in calls : e.id # new /\ e.id \in 0..made.keys
    BY <1>2, <2>0 DEF K!CardsInv, K!CallsAreApart, K!Requests
  <2>7. K!CallsAreApart'
    <3>1. calls' \subseteq K!Requests'
      BY <1>2, <2>0, <2>1, <2>2 DEF K!CardsInv, K!CallsAreApart, K!Requests
    <3>2. \A e \in calls' : /\ e.id = 0 <=> e.kind = "add" /\ e.stage # "done"
                            /\ e.kind = "add" /\ e.stage = "sent" => made'.keys < MaxKeys
      BY <1>2, <2>1, <2>2, <2>5 DEF K!CardsInv, K!CallsAreApart, K!Requests
    <3>3. \A e, f \in calls' : e.kind = f.kind /\ e.id = f.id /\ e.kind # "remove" => e = f
      BY <2>1, <2>2, <2>6 DEF K!CardsInv, K!CallsAreApart, K!Requests
    <3> QED BY <3>1, <3>2, <3>3 DEF K!CallsAreApart, K!Requests
  <2>8. \A i \in 1..made.keys : /\ K!Landed(i)' = K!Landed(i) /\ K!Of(keys, i)' = K!Of(keys, i)
                                /\ K!Of(shown, i)' = K!Of(shown, i)
    BY <1>1, <1>2, <2>0, <2>1, <2>2 DEF K!Landed, K!Of
  <2>9. /\ K!Landed(new)' = {d} /\ K!Of(keys, new)' = {[id |-> new, name |-> d.name]}
        /\ K!Of(shown, new)' = {} /\ \A e \in calls' : e.id = new => e = d
    <3>1. \A k \in keys \cup shown : k.id # new
      BY <1>2, <2>0 DEF K!CardsInv, K!MadeCountsThem
    <3>2. \A e \in calls' : e.id = new <=> e = d
      BY <2>1, <2>2, <2>6
    <3>3. K!Landed(new)' = {d}
      BY <2>1, <2>2, <3>2 DEF K!Landed
    <3>4. K!Of(keys, new)' = {[id |-> new, name |-> d.name]} /\ K!Of(shown, new)' = {}
      BY <1>1, <2>1, <2>2, <3>1 DEF K!Of
    <3> QED BY <3>2, <3>3, <3>4
  <2>10. \A i \in 1..made.keys, e \in calls' : e.id = i => e \in calls
    BY <1>2, <2>0, <2>1, <2>2
  <2>11. K!AnswersAgree'
    <3> SUFFICES ASSUME NEW i \in (1..new) \ estranged'
                 PROVE  K!Agrees(i)'
      BY <2>1 DEF K!AnswersAgree
    <3>1. CASE i = new
      BY <2>1, <2>9, <3>1 DEF K!Agrees
    <3>2. CASE i \in 1..made.keys
      BY <1>1, <2>8, <2>10, <3>2 DEF K!CardsInv, K!AnswersAgree, K!Agrees
    <3> QED BY <1>2, <2>0, <3>1, <3>2
  <2> QED BY <1>1, <2>1, <2>4, <2>7, <2>11, RestUntouched DEF K!CardsInv
<1>4. CASE /\ made' = made
           /\ \/ /\ c.kind \in {"rename", "remove"} /\ K!Stored(c.id)
                 /\ keys' = { k \in keys : k.id # c.id } \cup
                              (IF c.kind = "rename" THEN {[id |-> c.id, name |-> c.name]} ELSE {})
                 /\ calls' = (calls \ {c}) \cup {[c EXCEPT !.stage = "done"]}
              \/ calls' = (calls \ {c}) \cup {[c EXCEPT !.stage = "refused"]} /\ keys' = keys
  <2>1. PICK end \in {"done", "refused"} :
          /\ calls' = (calls \ {c}) \cup {[c EXCEPT !.stage = end]}
          /\ end = "done" =>
               /\ c.kind \in {"rename", "remove"} /\ K!Stored(c.id)
               /\ keys' = { k \in keys : k.id # c.id } \cup
                            (IF c.kind = "rename" THEN {[id |-> c.id, name |-> c.name]} ELSE {})
          /\ end = "refused" => keys' = keys
    BY <1>4
  <2> DEFINE d == [c EXCEPT !.stage = end]
  <2>2. /\ d \in K!Requests
        /\ d.kind = c.kind /\ d.id = c.id /\ d.name = c.name /\ d.stage = end
        /\ calls' = (calls \ {c}) \cup {d}
    BY <1>2, <2>1 DEF K!Requests
  <2> HIDE DEF d
  <2>3. K!CallsAreApart'
    BY <1>1, <1>2, <1>4, <2>1, <2>2 DEF K!CardsInv, K!CallsAreApart, K!Requests
  <2>4. K!TypeOK' /\ K!MadeCountsThem'
    <3>1. c.kind = "rename" => [id |-> c.id, name |-> c.name] \in [id : 1..MaxKeys, name : Name]
                               /\ c.id \in 1..made.keys
      BY <1>2 DEF K!Requests
    <3>2. keys' \subseteq keys \cup (IF c.kind = "rename"
            THEN {[id |-> c.id, name |-> c.name]} ELSE {})
      BY <2>1
    <3> QED BY <1>1, <1>4, <3>1, <3>2 DEF K!CardsInv, K!TypeOK, K!MadeCountsThem,
        K!sessionCard, K!dangerCard
  <2>5. \A i : i # c.id \/ end = "refused" =>
          /\ K!Landed(i)' = K!Landed(i) /\ K!Of(keys, i)' = K!Of(keys, i)
    BY <1>1, <2>1, <2>2 DEF K!Landed, K!Of
  <2>6. \A i : K!Of(shown, i)' = K!Of(shown, i)
    BY <1>1 DEF K!Of
  <2>7. end = "done" =>
          /\ K!Landed(c.id)' = K!Landed(c.id) \cup {d}
          /\ K!Of(keys, c.id)' = IF c.kind = "rename" THEN {[id |-> c.id, name |-> c.name]} ELSE {}
          /\ K!Of(keys, c.id) # {}
    BY <1>1, <2>1, <2>2 DEF K!Landed, K!Of, K!Stored
  <2>8. K!AnswersAgree'
    <3> SUFFICES ASSUME NEW i \in (1..made.keys) \ estranged
                 PROVE  K!Agrees(i)'
      BY <1>1, <1>4 DEF K!AnswersAgree
    <3>0. \A e \in K!Landed(i) : e.kind = "add" => c.id # i
      BY <1>1 DEF K!CardsInv, K!AnswersAgree, K!Agrees, K!Landed
    <3>1. CASE i # c.id \/ end = "refused"
      BY <2>2, <2>5, <2>6, <3>0, <3>1 DEF K!CardsInv, K!AnswersAgree, K!Agrees
    <3>2. CASE i = c.id /\ end = "done"
      <4>1. \A e \in K!Landed(i) : e.kind # "add"
        BY <3>0, <3>2
      <4>2. \A e \in K!Landed(i) : e.kind # c.kind
        <5>1. \A e \in K!Landed(i) : e.kind # "remove"
          BY <2>7, <3>2 DEF K!CardsInv, K!AnswersAgree, K!Agrees
        <5> QED BY <1>1, <3>2, <5>1 DEF K!CardsInv, K!CallsAreApart, K!Requests, K!Landed
      <4>3. K!Landed(i) = {} \/ (c.kind = "remove" /\ \A e \in K!Landed(i) : e.kind = "rename")
        <5>1. c.kind = "rename" => \A e \in K!Landed(i) : e.kind # "remove"
          BY <2>7, <3>2 DEF K!CardsInv, K!AnswersAgree, K!Agrees
        <5>2. \A e \in K!Landed(i) : e.kind \in {"add", "rename", "remove"}
          BY DEF K!CardsInv, K!CallsAreApart, K!Requests, K!Landed
        <5> QED BY <2>1, <3>2, <4>1, <4>2, <5>1, <5>2
      <4>4. c.kind = "rename" => K!Of(shown, i) # {}
        BY <2>7, <3>2, <4>3 DEF K!CardsInv, K!AnswersAgree, K!Agrees
      <4> QED BY <2>1, <2>2, <2>6, <2>7, <3>2, <4>3, <4>4 DEF K!Agrees
    <3> QED BY <3>1, <3>2
  <2> QED BY <1>1, <1>4, <2>3, <2>4, <2>8, RestUntouched DEF K!CardsInv
<1> QED BY <1>1, <1>3, <1>4

\* An answer reaches the card, in whatever order: once none is on its way, the card shows what
\* is stored.
LEMMA AnswersKeep == ASSUME K!Bounds, K!CardsInv, K!CallAnswers PROVE K!CardsInv'
<1> USE DEF K!Bounds
<1>1. PICK c \in calls :
        /\ c.stage # "sent" /\ calls' = calls \ {c}
        /\ shown' = IF c.stage = "done" THEN K!Patched(c) ELSE shown
        /\ UNCHANGED <<card, config, account, sessions, made, keys, estranged, K!sessionCard,
             K!dangerCard>>
  BY DEF K!CallAnswers
<1>2. /\ c \in K!Requests
      /\ made \in [sessions : 1..MaxSessions, keys : 0..MaxKeys]
      /\ c.stage = "done" => c.id \in 1..made.keys
  BY DEF K!CardsInv, K!MadeCountsThem, K!CallsAreApart, K!Requests
<1>3. \A k \in shown' : k \in shown \/ (c.stage = "done" /\ k = [id |-> c.id, name |-> c.name])
  BY <1>1, <1>2 DEF K!Patched, K!Base, K!Requests
<1>4. K!TypeOK' /\ K!MadeCountsThem'
  <2>1. c.stage = "done" => [id |-> c.id, name |-> c.name] \in [id : 1..MaxKeys, name : Name]
    BY <1>2 DEF K!Requests
  <2> QED BY <1>1, <1>2, <1>3, <2>1 DEF K!CardsInv, K!TypeOK, K!MadeCountsThem, K!sessionCard,
      K!dangerCard
<1>5. K!CallsAreApart'
  BY <1>1 DEF K!CardsInv, K!CallsAreApart, K!Requests
<1>6. \A i : K!Of(keys, i)' = K!Of(keys, i)
  BY <1>1 DEF K!Of
<1>7. \A i : i # c.id \/ c.stage # "done" => K!Of(shown, i)' = K!Of(shown, i)
        /\ K!Landed(i)' = K!Landed(i)
  BY <1>1, <1>2 DEF K!Of, K!Landed, K!Patched, K!Base, K!Requests
<1>8. c.stage = "done" =>
        /\ K!Landed(c.id)' = K!Landed(c.id) \ {c} /\ c \in K!Landed(c.id)
        /\ c.kind = "add" => K!Of(shown, c.id)' = K!Of(shown, c.id) \cup {[id |-> c.id,
             name |-> c.name]}
        /\ c.kind = "remove" => K!Of(shown, c.id)' = {}
        /\ c.kind = "rename" => K!Of(shown, c.id)' = IF K!Of(shown, c.id) = {} THEN {}
                                                     ELSE {[id |-> c.id, name |-> c.name]}
  BY <1>1, <1>2 DEF K!Of, K!Landed, K!Patched, K!Base, K!Requests
<1>9. K!AnswersAgree'
  <2> SUFFICES ASSUME NEW i \in (1..made.keys) \ estranged
               PROVE  K!Agrees(i)'
      BY <1>1 DEF K!AnswersAgree
  <2>1. CASE i # c.id \/ c.stage # "done"
    BY <1>1, <1>6, <1>7, <2>1 DEF K!CardsInv, K!AnswersAgree, K!Agrees
  <2>2. CASE i = c.id /\ c.stage = "done"
    <3>1. CASE c.kind = "add"
      <4>1. /\ K!Of(keys, i) = {[id |-> i, name |-> c.name]} /\ K!Of(shown, i) = {}
            /\ \A d \in calls : d.id = i => d = c
        BY <1>8, <2>2, <3>1 DEF K!CardsInv, K!AnswersAgree, K!Agrees
      <4>2. K!Landed(i)' = {}
        BY <1>1, <4>1 DEF K!Landed
      <4>3. K!Of(shown, i)' = K!Of(keys, i)'
        BY <1>6, <1>8, <2>2, <3>1, <4>1
      <4> QED BY <4>2, <4>3 DEF K!Agrees
    <3>2. \A e \in K!Landed(i)' : /\ e.kind \in {"add", "rename", "remove"}
                                  /\ e.kind = c.kind => c.kind = "remove"
      BY <1>1, <1>8, <2>2 DEF K!CardsInv, K!CallsAreApart, K!Requests, K!Landed
    <3>3. c.kind # "add" => \A e \in K!Landed(i) : e.kind # "add"
      BY <1>1, <2>2 DEF K!CardsInv, K!AnswersAgree, K!Agrees, K!Landed
    <3>4. CASE c.kind = "remove"
      <4>1. K!Of(keys, i)' = {} /\ K!Of(shown, i)' = {}
        BY <1>6, <1>8, <2>2, <3>4 DEF K!CardsInv, K!AnswersAgree, K!Agrees
      <4>2. \A e \in K!Landed(i)' : e.kind \in {"rename", "remove"}
        BY <1>8, <2>2, <3>2, <3>3, <3>4
      <4> QED BY <4>1, <4>2 DEF K!Agrees
    <3>5. CASE c.kind = "rename"
      <4>1. \A e \in K!Landed(i)' : e.kind = "remove"
        BY <1>8, <2>2, <3>2, <3>3, <3>5
      <4>2. CASE K!Landed(i)' = {}
        <5>1. K!Landed(i) = {c}
          BY <1>8, <2>2, <4>2
        <5> QED BY <1>6, <1>8, <2>2, <3>5, <4>2, <5>1 DEF K!CardsInv, K!AnswersAgree, K!Agrees
      <4>3. CASE K!Landed(i)' # {}
        <5>1. K!Of(keys, i)' = {}
          BY <1>6, <1>8, <2>2, <4>1, <4>3 DEF K!CardsInv, K!AnswersAgree, K!Agrees
        <5> QED BY <4>1, <4>3, <5>1 DEF K!Agrees
      <4> QED BY <4>2, <4>3
    <3> QED BY <1>2, <3>1, <3>4, <3>5 DEF K!Requests
  <2> QED BY <2>1, <2>2
<1> QED BY <1>1, <1>4, <1>5, <1>9, RestUntouched DEF K!CardsInv

\* Every step of the cards keeps what they tell.
LEMMA CardsStep == ASSUME K!Bounds PROVE K!CardsInv /\ [K!Next]_K!vars => K!CardsInv'
<1> SUFFICES ASSUME K!CardsInv, [K!Next]_K!vars PROVE K!CardsInv'
  OBVIOUS
<1>1. CASE UNCHANGED K!vars
  <2>1. K!TypeOK' /\ K!MadeCountsThem' /\ K!RevokedAreOver' /\ K!HiddenIsOver'
          /\ K!DangerTellsTheTruth'
    BY <1>1 DEF K!vars, K!sessionCard, K!passkeyCard, K!dangerCard, K!CardsInv, K!TypeOK,
        K!MadeCountsThem,
                K!RevokedAreOver, K!HiddenIsOver, K!DangerTellsTheTruth
  <2> QED BY <1>1, <2>1, KeysUntouched DEF K!vars, K!passkeyCard, K!CardsInv
<1> QED BY <1>1, SessionsKeep, DangerKeeps, RemoveElsewhereKeeps, StartKeeps, LandsKeep,
    AnswersKeep, LostKeeps
        DEF K!Next

\* The cardinality AccountCards uses is the library's.
LEMMA KCounting == ASSUME NEW L PROVE K!Cardinality(L) = Cardinality(L)
BY DEF K!Cardinality, Cardinality

\* The cards begin with what is stored.
LEMMA CardsBegin == ASSUME K!Bounds PROVE K!Init => K!CardsInv
<1> SUFFICES ASSUME K!Init PROVE K!CardsInv
  OBVIOUS
<1>1. K!Cardinality(sessions) \in 1..2 /\ sessions \subseteq 1..K!Cardinality(sessions)
  <2>1. IsFiniteSet({1}) /\ Cardinality({1}) = 1
    BY FS_Singleton
  <2>2. {1, 2} = {1} \cup {2} /\ 2 \notin {1}
    OBVIOUS
  <2>3. Cardinality({1, 2}) = 2
    BY <2>1, <2>2, FS_AddElement
  <2>4. sessions = {1} \/ sessions = {1, 2}
    BY DEF K!Init
  <2> QED BY <2>1, <2>3, <2>4, KCounting
<1>2. \/ keys = {} /\ K!Cardinality(keys) = 0
      \/ \E n \in Name : keys = {[id |-> 1, name |-> n]} /\ K!Cardinality(keys) = 1
  <2>1. PICK n \in Name : keys \in {{}, {[id |-> 1, name |-> n]}}
    BY DEF K!Init
  <2>2. K!Cardinality({}) = 0 /\ K!Cardinality({[id |-> 1, name |-> n]}) = 1
    BY KCounting, FS_Singleton, FS_EmptySet
  <2> QED BY <2>1, <2>2
<1>3. K!TypeOK /\ K!MadeCountsThem
  BY <1>1, <1>2 DEF K!Bounds, K!Init, K!TypeOK, K!MadeCountsThem
<1>4. K!RevokedAreOver /\ K!HiddenIsOver /\ K!DangerTellsTheTruth /\ K!CallsAreApart
  BY DEF K!Init, K!RevokedAreOver, K!HiddenIsOver, K!DangerTellsTheTruth, K!CallsAreApart,
      K!Requests
<1>5. K!AnswersAgree
  BY DEF K!Init, K!AnswersAgree, K!Agrees, K!Landed, K!Of
<1> QED BY <1>3, <1>4, <1>5 DEF K!CardsInv

\* The sessions, passkeys and danger cards (components/account): a session hidden is over,
\* passkeys shown at rest are the ones stored, a goodbye is said to an account that is gone,
\* and where there is e-mail no account goes but by a link that was mailed.
THEOREM CardsTellTheTruth ==
  ASSUME K!Bounds
  PROVE  K!Spec => [](K!TypeOK /\ K!HiddenIsOver /\ K!RestingPasskeysAreTrue
           /\ K!DangerTellsTheTruth)
<1>1. K!CardsInv => K!RestingPasskeysAreTrue
  <2> SUFFICES ASSUME K!CardsInv, calls = {}, NEW k, k.id \notin estranged
               PROVE  k \in shown <=> k \in keys
    BY DEF K!RestingPasskeysAreTrue
  <2>1. k \in keys \cup shown => k.id \in 1..made.keys
    BY DEF K!CardsInv, K!MadeCountsThem
  <2>2. k.id \in 1..made.keys => K!Of(shown, k.id) = K!Of(keys, k.id)
    BY DEF K!CardsInv, K!AnswersAgree, K!Agrees, K!Landed
  <2>3. (k \in shown <=> k \in K!Of(shown, k.id)) /\ (k \in keys <=> k \in K!Of(keys, k.id))
    BY DEF K!Of
  <2> QED BY <2>1, <2>2, <2>3
<1>2. K!CardsInv => K!TypeOK /\ K!HiddenIsOver /\ K!DangerTellsTheTruth
  BY DEF K!CardsInv
<1> QED BY <1>1, <1>2, CardsBegin, CardsStep, PTL DEF K!Spec

------------------------------------------------------------------------------
(* The sign-in page.                                                         *)

\* A function changed at a point keeps its type.
LEMMA ChangeIsTyped ==
  ASSUME NEW D, NEW V, NEW f \in [D -> V], NEW v \in V, NEW d
  PROVE  [f EXCEPT ![d] = v] \in [D -> V]
OBVIOUS

\* A form that forgets its token or stops sending keeps its type.
LEMMA FormsAreTyped ==
  ASSUME S!Bounds, S!PageInv, NEW f
  PROVE  /\ [token EXCEPT ![f] = 0] \in [S!Form -> 0..MaxTokens]
         /\ [token EXCEPT ![f] = 0] \in [S!Form -> 0..minted]
         /\ [sending EXCEPT ![f] = FALSE] \in [S!Form -> BOOLEAN]
<1>1. 0 \in 0..MaxTokens /\ 0 \in 0..minted
  BY DEF S!Bounds, S!PageInv, S!TypeOK
<1> QED BY <1>1, ChangeIsTyped DEF S!PageInv, S!TypeOK, S!TokensAreMinted

\* A step after which no widget shows itself solved.
LEMMA UnsolvedIsFresh == widget' # "solved" => S!SolvedIsFresh'
BY DEF S!SolvedIsFresh

\* A step that leaves the forms as they are.
LEMMA FormsUntouched ==
  ASSUME S!PageInv, widget' = "solved" => widget = "solved",
         UNCHANGED <<challenge, magic, token, minted, spent>>, left' = left, sending' = sending
  PROVE  S!TokensAreMinted' /\ S!SolvedIsFresh'
<1>1. S!View' = S!View
  BY DEF S!View, S!ViewOf
<1> QED BY <1>1 DEF S!PageInv, S!TokensAreMinted, S!SolvedIsFresh

\* captcha-widget.tsx: its script loads or fails, it is solved (a new token) or expires.
LEMMA WidgetKeeps ==
  ASSUME S!Bounds, S!PageInv, S!ScriptLoads \/ S!ScriptFails \/ S!Solve \/ S!Expire
  PROVE  S!PageInv'
<1> USE DEF S!Bounds, S!page, S!script
<1>1. CASE S!ScriptLoads \/ S!ScriptFails
  <2>1. UNCHANGED <<challenge, magic, token, minted, spent>> /\ left' = left /\ sending' = sending
        /\ (widget' = "solved" => widget = "solved")
    BY <1>1 DEF S!ScriptLoads, S!ScriptFails
  <2>2. S!TypeOK'
    BY <1>1 DEF S!ScriptLoads, S!ScriptFails, S!PageInv, S!TypeOK
  <2> QED BY <2>1, <2>2, FormsUntouched DEF S!PageInv
<1>2. CASE S!Solve
  <2>1. minted' \in 1..MaxTokens /\ minted' = minted + 1 /\ minted \in Nat
    BY <1>2 DEF S!Solve, S!PageInv, S!TypeOK
  <2>2. token' = [token EXCEPT ![S!View] = minted']
          /\ UNCHANGED <<element, promise, challenge, magic, sent>>
        /\ left' = left /\ spent' = spent /\ sending' = sending /\ widget' = "solved"
        /\ S!View' = S!View
    BY <1>2 DEF S!Solve, S!View
  <2>3. token' \in [S!Form -> 0..MaxTokens]
    <3>1. minted' \in 0..MaxTokens /\ token \in [S!Form -> 0..MaxTokens]
      BY <2>1 DEF S!PageInv, S!TypeOK
    <3> QED BY <2>2, <3>1, ChangeIsTyped
  <2>6. token' \in [S!Form -> 0..minted']
    <3>1. minted' \in 0..minted' /\ token \in [S!Form -> 0..minted']
      BY <2>1 DEF S!PageInv, S!TokensAreMinted
    <3> QED BY <2>2, <3>1, ChangeIsTyped
  <2>4. S!TypeOK' /\ S!TokensAreMinted'
    BY <2>1, <2>2, <2>3, <2>6 DEF S!PageInv, S!TypeOK, S!TokensAreMinted
  <2>5. S!SolvedIsFresh'
    <3> SUFFICES ASSUME NEW f \in S!Form, S!View = f
                 PROVE  token'[f] \notin spent
      BY <2>2 DEF S!SolvedIsFresh
    <3>1. token'[f] = minted + 1
      BY <2>1, <2>2 DEF S!PageInv, S!TypeOK
    <3> QED BY <2>1, <3>1 DEF S!PageInv, S!TokensAreMinted
  <2> QED BY <2>4, <2>5 DEF S!PageInv
<1>3. CASE S!Expire
  <2>1. UNCHANGED <<element, promise, challenge, magic, sent, minted, spent>>
          /\ left' = left /\ sending' = sending
        /\ widget' = "rendered" /\ token' \in [S!Form -> 0..MaxTokens]
        /\ token' \in [S!Form -> 0..minted]
    BY <1>3, FormsAreTyped DEF S!Expire
  <2> QED BY <2>1, UnsolvedIsFresh DEF S!PageInv, S!TypeOK, S!TokensAreMinted
<1> QED BY <1>1, <1>2, <1>3

\* A form is submitted: the token it sends is spent.
LEMMA AttemptKeeps ==
  ASSUME S!Bounds, S!PageInv, NEW f \in S!Form, S!Submit(f)
  PROVE  S!PageInv'
<1>1. /\ UNCHANGED <<element, promise, challenge, magic, sent, widget, token, minted>>
      /\ left' = left
      /\ S!View = f /\ S!View' = S!View /\ token[f] # 0
      /\ sending' = [sending EXCEPT ![f] = TRUE] /\ spent' = spent \cup {token[f]}
  BY DEF S!Submit, S!page, S!script, S!View
<1>2. token[f] \in 1..MaxTokens /\ sending' \in [S!Form -> BOOLEAN] /\ sending'[f]
  BY <1>1 DEF S!PageInv, S!TypeOK, S!Bounds
<1>3. S!TypeOK'
  BY <1>1, <1>2 DEF S!PageInv, S!TypeOK
<1>4. S!SolvedIsFresh'
  BY <1>1, <1>2 DEF S!SolvedIsFresh
<1>5. S!TokensAreMinted'
  <2>1. token[f] \in 1..minted
    BY <1>1 DEF S!PageInv, S!TokensAreMinted, S!TypeOK
  <2> QED BY <1>1, <2>1 DEF S!PageInv, S!TokensAreMinted
<1> QED BY <1>3, <1>4, <1>5 DEF S!PageInv

\* An attempt is answered: the widget of the form that asked is reset, or the page is left.
LEMMA AnswersKeepPage ==
  ASSUME S!Bounds, S!PageInv,
         \/ S!Refused \/ S!PasskeySignIn \/ S!VerifyCode
         \/ \E twoFactor \in BOOLEAN : S!Accepted(twoFactor)
         \/ \E ok \in BOOLEAN : S!LinkAnswered(ok)
  PROVE  S!PageInv'
<1> USE DEF S!Bounds, S!page, S!script
<1>0. ASSUME NEW f \in S!Form, S!ResetWidget(f), UNCHANGED <<element, promise, challenge,
               magic, sent, minted, spent>>,
             left' = left, sending' = [sending EXCEPT ![f] = FALSE]
      PROVE  S!PageInv'
  <2>1. sending' \in [S!Form -> BOOLEAN] /\ token' \in [S!Form -> 0..MaxTokens]
        /\ token' \in [S!Form -> 0..minted] /\ S!View' = S!View
    BY <1>0, FormsAreTyped DEF S!ResetWidget, S!PageInv, S!TypeOK, S!TokensAreMinted, S!View
  <2>2. S!TypeOK' /\ S!TokensAreMinted'
    BY <1>0, <2>1 DEF S!ResetWidget, S!PageInv, S!TypeOK, S!TokensAreMinted
  <2>3. S!SolvedIsFresh'
    <3> SUFFICES ASSUME NEW g \in S!Form, S!View = g, ~left, ~sending'[g], widget' = "solved"
                 PROVE  token'[g] \notin spent
      BY <1>0, <2>1 DEF S!SolvedIsFresh
    <3>1. widget = "solved" /\ token' = token /\ g # f
      BY <1>0 DEF S!ResetWidget
    <3>2. sending'[g] = sending[g]
      BY <1>0, <3>1 DEF S!PageInv, S!TypeOK
    <3> QED BY <3>1, <3>2 DEF S!PageInv, S!SolvedIsFresh
  <2> QED BY <2>2, <2>3 DEF S!PageInv
<1>1. CASE S!Refused
  BY <1>0, <1>1 DEF S!Refused, S!Form
<1>2. CASE S!PasskeySignIn \/ S!VerifyCode
  BY <1>2 DEF S!PasskeySignIn, S!VerifyCode, S!PageInv, S!TypeOK, S!TokensAreMinted, S!SolvedIsFresh
<1>3. ASSUME NEW twoFactor \in BOOLEAN, S!Accepted(twoFactor) PROVE S!PageInv'
  BY <1>3 DEF S!Accepted, S!PageInv, S!TypeOK, S!TokensAreMinted, S!SolvedIsFresh
<1>4. ASSUME NEW ok \in BOOLEAN, S!LinkAnswered(ok) PROVE S!PageInv'
  <2>1. CASE ok /\ S!View = "magic"
    <3>1. /\ widget' = "none" /\ sent' = TRUE
          /\ UNCHANGED <<element, promise, challenge, magic, minted, spent>>
          /\ left' = left /\ sending' \in [S!Form -> BOOLEAN] /\ token' \in [S!Form -> 0..MaxTokens]
          /\ token' \in [S!Form -> 0..minted]
      BY <1>4, <2>1, FormsAreTyped DEF S!LinkAnswered
    <3> QED BY <3>1, UnsolvedIsFresh DEF S!PageInv, S!TypeOK, S!TokensAreMinted
  <2>2. CASE ~(ok /\ S!View = "magic")
    <3>1. /\ S!ResetWidget("magic")
          /\ UNCHANGED <<element, promise, challenge, magic, sent, minted, spent>>
          /\ left' = left /\ sending' = [sending EXCEPT !["magic"] = FALSE] /\ "magic" \in S!Form
      BY <1>4, <2>2 DEF S!LinkAnswered, S!Form
    <3> QED BY <1>0, <3>1
  <2> QED BY <2>1, <2>2
<1> QED BY <1>1, <1>2, <1>3, <1>4

\* The visitor moves between the views, each mounting a widget of its own.
LEMMA MovesKeepPage ==
  ASSUME S!Bounds, S!PageInv, S!CancelChallenge \/ S!OpenMagicLink \/ S!CloseMagicLink
  PROVE  S!PageInv'
<1>1. /\ widget' \in {"none", "waiting", "rendered"}
      /\ element' \in {"absent", "loading", "loaded", "failed"} /\ promise' \in {"none", "pending"}
  BY DEF S!CancelChallenge, S!OpenMagicLink, S!CloseMagicLink, S!Mount, S!PageInv, S!TypeOK,
      S!script
<1>2. /\ token' \in [S!Form -> 0..MaxTokens] /\ token' \in [S!Form -> 0..minted]
      /\ sending' \in [S!Form -> BOOLEAN]
      /\ UNCHANGED <<minted, spent>>
  <2>1. /\ token' = [token EXCEPT !["magic"] = 0] /\ sending' = [sending EXCEPT !["magic"] = FALSE]
        /\ UNCHANGED <<minted, spent>>
    BY DEF S!CancelChallenge, S!OpenMagicLink, S!CloseMagicLink
  <2> QED BY <2>1, FormsAreTyped
<1>3. challenge' \in BOOLEAN /\ magic' \in BOOLEAN /\ sent' \in BOOLEAN /\ left' \in BOOLEAN
  BY DEF S!CancelChallenge, S!OpenMagicLink, S!CloseMagicLink, S!PageInv, S!TypeOK
<1> QED BY <1>1, <1>2, <1>3, UnsolvedIsFresh DEF S!PageInv, S!TypeOK, S!TokensAreMinted

\* Every step of the sign-in page keeps the tokens apart.
LEMMA PageStep == ASSUME S!Bounds PROVE S!PageInv /\ [S!Next]_S!vars => S!PageInv'
<1> SUFFICES ASSUME S!PageInv, [S!Next]_S!vars PROVE S!PageInv'
  OBVIOUS
<1>1. CASE UNCHANGED S!vars
  BY <1>1 DEF S!vars, S!PageInv, S!TypeOK, S!TokensAreMinted, S!SolvedIsFresh, S!View
<1> QED BY <1>1, WidgetKeeps, AttemptKeeps, AnswersKeepPage, MovesKeepPage DEF S!Next

\* The sign-in page (components/auth/login-form.tsx, captcha-widget.tsx): a widget that shows
\* itself solved, with nothing being sent, holds a token that was never sent.
THEOREM SolvedIsAlwaysFresh ==
  ASSUME S!Bounds
  PROVE  S!Spec => [](S!TypeOK /\ S!SolvedIsFresh)
<1>1. S!Init => S!PageInv
  <2> SUFFICES ASSUME S!Init PROVE S!PageInv
    OBVIOUS
  <2>1. 0 \in 0..MaxTokens
    BY DEF S!Bounds
  <2>2. S!TypeOK
    BY <2>1 DEF S!Init, S!TypeOK
  <2>3. S!TokensAreMinted /\ S!SolvedIsFresh
    BY <2>1 DEF S!Init, S!TokensAreMinted, S!SolvedIsFresh
  <2> QED BY <2>2, <2>3 DEF S!PageInv
<1>2. S!PageInv => S!TypeOK /\ S!SolvedIsFresh
  BY DEF S!PageInv
<1> QED BY <1>1, <1>2, PageStep, PTL DEF S!Spec

------------------------------------------------------------------------------
(* The redirects.                                                            *)

\* A path is its locale and its page.
LEMMA PathsArePairs ==
  /\ \A p \in G!Path : p = <<p[1], p[2]>> /\ p[1] \in G!Locale /\ p[2] \in G!Page
  /\ \A l \in G!Locale, p \in G!Page : <<l, p>> \in G!Path /\ <<l, p>>[1] = l /\ <<l, p>>[2] = p
BY DEF G!Path

\* A request, the proxy, the layout and the sign-in page: each step keeps where the visitor is
\* on the way.
LEMMA GateStep == ASSUME G!Bounds PROVE G!GateInv /\ [G!Next]_G!vars => G!GateInv'
<1> SUFFICES ASSUME G!GateInv, [G!Next]_G!vars PROVE G!GateInv'
  OBVIOUS
<1> USE DEF G!Bounds, G!auth, G!UnderWay, G!Protected, G!Prefixed, G!Overlooked, G!IsAuthPage
<1>0. at \in G!Path /\ wanted \in G!Path /\ hops \in Nat
  BY DEF G!GateInv, G!TypeOK
<1>1. ASSUME NEW path \in G!Path, G!Visit(path) PROVE G!GateInv'
  <2>1. /\ stage = "shown" /\ at' = path /\ wanted' = path /\ stage' = "edge" /\ hops' = 0
        /\ back' = None
        /\ negotiated' = FALSE /\ lost' = FALSE /\ UNCHANGED <<cookie, cached, row>>
    BY <1>1 DEF G!Visit
  <2>2. G!TypeOK'
    <3>1. at' \in G!Path /\ wanted' \in G!Path /\ back' \in G!Path \cup {None}
            /\ hops' \in 0..MaxHops
          /\ stage' \in {"edge", "render", "shown", "gaveUp"}
      BY <2>1
    <3>2. negotiated' \in BOOLEAN /\ lost' \in BOOLEAN /\ cookie' \in BOOLEAN
            /\ cached' \in BOOLEAN /\ row' \in BOOLEAN
      BY <2>1 DEF G!GateInv, G!TypeOK
    <3> QED BY <3>1, <3>2 DEF G!TypeOK
  <2> QED BY <2>1, <2>2 DEF G!GateInv, G!HopsAreLeft, G!Admitted, G!OnlyAskedFor, G!Trail,
      G!OneRedirect, G!LostForGood
<1>2. CASE G!Proxy
  <2>0. hops + 1 \in 1..MaxHops /\ stage = "edge"
    BY <1>2 DEF G!Proxy, G!GateInv, G!TypeOK, G!HopsAreLeft
  <2>1. CASE ~cookie /\ G!Prefixed(at)
    <3>1. /\ at' = <<at[1], "login">> /\ at' \in G!Path /\ at'[1] = at[1] /\ at'[2] = "login"
          /\ back' = at /\ hops' = hops + 1
          /\ stage' = IF hops + 1 = MaxHops THEN "gaveUp" ELSE "edge"
          /\ UNCHANGED <<wanted, negotiated, lost, cookie, cached, row>>
      BY <1>0, <1>2, <2>1, PathsArePairs DEF G!Proxy, G!Redirect, G!Locale, G!Page
    <3>2. ~lost /\ (hops = 0 \/ ~(hops > 0))
      BY <2>0, <2>1 DEF G!GateInv, G!OneRedirect, G!LostForGood, G!Dead
    <3>3. hops = 0
      BY <1>0, <3>2
    <3>4. G!Trail'
      BY <2>0, <2>1, <3>1 DEF G!GateInv, G!Trail
    <3>5. /\ G!TypeOK' /\ G!HopsAreLeft' /\ G!Admitted' /\ G!OnlyAskedFor'
          /\ G!OneRedirect' /\ G!LostForGood'
      BY <1>0, <2>0, <2>1, <3>1, <3>2, <3>3
         DEF G!GateInv, G!TypeOK, G!HopsAreLeft, G!Admitted, G!OnlyAskedFor,
             G!OneRedirect, G!LostForGood, G!Dead
    <3> QED BY <3>4, <3>5 DEF G!GateInv
  <2>2. CASE cookie /\ G!IsAuthPage(at)
    <3>1. /\ at' = <<at[1], "dashboard">> /\ at' \in G!Path /\ at'[1] = at[1]
          /\ at'[2] = "dashboard"
          /\ back' = None /\ hops' = hops + 1
          /\ stage' = IF hops + 1 = MaxHops THEN "gaveUp" ELSE "edge"
          /\ UNCHANGED <<wanted, negotiated, lost, cookie, cached, row>>
      BY <1>0, <1>2, <2>2, PathsArePairs DEF G!Proxy, G!Redirect, G!Locale, G!Page
    <3>2. ~lost => hops = 0
      BY <1>0, <2>0, <2>2 DEF G!GateInv, G!OneRedirect
    <3>4. G!Trail'
      BY <2>0, <2>2, <3>1 DEF G!GateInv, G!Trail
    <3>5. /\ G!TypeOK' /\ G!HopsAreLeft' /\ G!Admitted' /\ G!OnlyAskedFor'
          /\ G!OneRedirect' /\ G!LostForGood'
      BY <1>0, <2>0, <2>2, <3>1, <3>2
         DEF G!GateInv, G!TypeOK, G!HopsAreLeft, G!Admitted, G!OnlyAskedFor,
             G!OneRedirect, G!LostForGood, G!Dead
    <3> QED BY <3>4, <3>5 DEF G!GateInv
  <2>3. CASE ~(~cookie /\ G!Prefixed(at)) /\ ~(cookie /\ G!IsAuthPage(at)) /\ G!Pass
    <3>1. CASE stage' = "render" /\ UNCHANGED <<at, hops, wanted, back, negotiated, lost,
                 cookie, cached, row>>
      BY <2>0, <2>3, <3>1
         DEF G!GateInv, G!TypeOK, G!HopsAreLeft, G!Admitted, G!OnlyAskedFor, G!Trail,
             G!OneRedirect, G!LostForGood, G!Dead
    <3>2. CASE /\ at' = <<"es", at[2]>> /\ negotiated' = TRUE
               /\ UNCHANGED <<stage, hops, wanted, back, lost, cookie, cached, row>>
      <4>1. at' \in G!Path /\ at'[2] = at[2]
        BY <1>0, <3>2, PathsArePairs DEF G!Locale
      <4> QED BY <2>0, <2>3, <3>2, <4>1
         DEF G!GateInv, G!TypeOK, G!HopsAreLeft, G!Admitted, G!OnlyAskedFor, G!Trail,
             G!OneRedirect, G!LostForGood, G!Dead
    <3> QED BY <2>3, <3>1, <3>2 DEF G!Pass
  <2> QED BY <1>2, <2>1, <2>2, <2>3 DEF G!Proxy
<1>3. CASE G!Render
  <2>0. stage = "render"
    BY <1>3 DEF G!Render
  <2>1. CASE G!Shows /\ UNCHANGED cached /\ (~G!Protected(at) \/ (cookie /\ (cached \/ row)))
    <3>1. stage' = "shown" /\ UNCHANGED <<at, hops, wanted, back, negotiated, lost, cookie,
            cached, row>>
      BY <2>1 DEF G!Shows
    <3>2. lost => G!Overlooked(wanted)
      BY <2>0, <2>1 DEF G!GateInv, G!LostForGood, G!Admitted, G!Dead
    <3> QED BY <2>0, <2>1, <3>1, <3>2
         DEF G!GateInv, G!TypeOK, G!HopsAreLeft, G!Admitted, G!OnlyAskedFor, G!Trail,
             G!OneRedirect, G!LostForGood, G!Dead
  <2>2. CASE G!Protected(at) /\ ~(cookie /\ (cached \/ row)) /\ lost' = TRUE
               /\ G!Redirect(<<"en", "login">>, None)
    <3>1. /\ at' = <<"en", "login">> /\ at' \in G!Path /\ at'[2] = "login" /\ back' = None
          /\ hops' = hops + 1
          /\ stage' = IF hops + 1 = MaxHops THEN "gaveUp" ELSE "edge"
          /\ UNCHANGED <<wanted, negotiated, cookie, cached, row>>
      BY <2>2, PathsArePairs DEF G!Redirect, G!Locale, G!Page
    <3>2. hops + 1 \in 1..MaxHops
      BY <1>0, <1>3, <2>2 DEF G!Render, G!GateInv, G!TypeOK, G!HopsAreLeft
    <3>4. ~G!Overlooked(wanted) => G!Dead
      BY <2>0, <2>2 DEF G!GateInv, G!Admitted, G!OnlyAskedFor, G!Dead
    <3>5. \/ G!Dead
          \/ ~cookie /\ hops = 0
      BY <1>0, <2>0, <2>2 DEF G!GateInv, G!Admitted, G!OneRedirect, G!LostForGood, G!Dead
    <3> QED BY <1>0, <2>2, <3>1, <3>2, <3>4, <3>5
         DEF G!GateInv, G!TypeOK, G!HopsAreLeft, G!Admitted, G!OnlyAskedFor, G!Trail,
             G!OneRedirect, G!LostForGood, G!Dead
  <2> QED BY <1>3, <2>1, <2>2 DEF G!Render
<1>4. CASE G!SignIn
  <2>1. /\ stage' = "edge" /\ hops' = 0 /\ back' = None /\ cookie' = TRUE /\ cached' = TRUE
        /\ row' = TRUE
        /\ at' = IF back = None THEN <<"en", "dashboard">> ELSE back
        /\ stage = "shown" /\ at[2] = "login" /\ UNCHANGED <<wanted, negotiated, lost>>
    BY <1>4 DEF G!SignIn
  <2>2. at' \in G!Path /\ (lost => at' = <<"en", "dashboard">>)
    BY <1>0, <2>1, PathsArePairs DEF G!GateInv, G!TypeOK, G!LostForGood, G!Locale, G!Page
  <2>3. G!Trail'
    BY <1>0, <2>1, <2>2 DEF G!GateInv, G!Trail
  <2>4. /\ G!TypeOK' /\ G!HopsAreLeft' /\ G!Admitted' /\ G!OnlyAskedFor'
          /\ G!OneRedirect' /\ G!LostForGood'
    BY <2>1, <2>2 DEF G!GateInv, G!TypeOK, G!HopsAreLeft, G!Admitted, G!OnlyAskedFor,
             G!OneRedirect, G!LostForGood, G!Dead
  <2> QED BY <2>3, <2>4 DEF G!GateInv
<1>5. CASE G!SignOut \/ G!RevokedElsewhere \/ G!CacheExpires \/ G!CookieExpires \/ UNCHANGED G!vars
  <2>1. /\ UNCHANGED <<at, stage, hops, wanted, back, negotiated, lost>>
        /\ cookie' \in BOOLEAN /\ cached' \in BOOLEAN /\ row' \in BOOLEAN
        /\ cookie' # cookie => stage = "shown"
        /\ (cached' => cached) /\ (row' => row)
    <3>1. cookie \in BOOLEAN /\ cached \in BOOLEAN /\ row \in BOOLEAN
      BY DEF G!GateInv, G!TypeOK
    <3>2. CASE G!SignOut
      BY <3>1, <3>2 DEF G!SignOut
    <3>3. CASE G!RevokedElsewhere
      BY <3>1, <3>3 DEF G!RevokedElsewhere
    <3>4. CASE G!CacheExpires
      BY <3>1, <3>4 DEF G!CacheExpires
    <3>5. CASE G!CookieExpires
      BY <3>1, <3>5 DEF G!CookieExpires
    <3>6. CASE UNCHANGED G!vars
      BY <3>1, <3>6 DEF G!vars
    <3> QED BY <1>5, <3>2, <3>3, <3>4, <3>5, <3>6
  <2> QED BY <1>5, <2>1
       DEF G!SignOut, G!RevokedElsewhere, G!CacheExpires, G!CookieExpires, G!vars,
           G!GateInv, G!TypeOK, G!HopsAreLeft, G!Admitted, G!OnlyAskedFor, G!Trail,
             G!OneRedirect, G!LostForGood, G!Dead
<1> QED BY <1>1, <1>2, <1>3, <1>4, <1>5 DEF G!Next

\* A visitor begins on a page they may see.
LEMMA GateBegins == ASSUME G!Bounds PROVE G!Init => G!GateInv
<1>1. <<"en", "home">> \in G!Path
  BY DEF G!Path, G!Locale, G!Page
<1> SUFFICES ASSUME G!Init PROVE G!GateInv
  OBVIOUS
<1>2. G!TypeOK
  <2>1. at \in G!Path /\ wanted \in G!Path /\ back \in G!Path \cup {None}
          /\ hops \in 0..MaxHops /\ stage = "shown"
    BY <1>1 DEF G!Init, G!Bounds
  <2>2. negotiated \in BOOLEAN /\ lost \in BOOLEAN /\ cookie \in BOOLEAN
          /\ cached \in BOOLEAN /\ row \in BOOLEAN
    BY DEF G!Init
  <2> QED BY <2>1, <2>2 DEF G!TypeOK
<1>3. G!HopsAreLeft /\ G!Admitted /\ G!OnlyAskedFor /\ G!Trail
  BY DEF G!Init, G!HopsAreLeft, G!Admitted, G!OnlyAskedFor, G!Trail, G!Overlooked, G!Bounds
<1>4. G!OneRedirect /\ G!LostForGood
  BY DEF G!Init, G!OneRedirect, G!LostForGood, G!UnderWay
<1> QED BY <1>2, <1>3, <1>4 DEF G!GateInv

\* The proxy and the dashboard layout (proxy.ts, app/[locale]/(dashboard)/layout.tsx): visitors
\* of the pages the proxy knows land where they asked to, and of those the layout turns away
\* only a cookie whose session is gone.
THEOREM GateIsRight ==
  ASSUME G!Bounds
  PROVE  G!Spec => [](G!TypeOK /\ G!LandsWhereAsked /\ G!OnlyADeadCookieIsTurnedAway)
<1>1. G!GateInv => G!LandsWhereAsked
  BY DEF G!GateInv, G!Trail, G!LostForGood, G!LandsWhereAsked
<1>2. G!GateInv => G!OnlyADeadCookieIsTurnedAway
  BY DEF G!GateInv, G!TypeOK, G!OneRedirect, G!LostForGood, G!UnderWay, G!Dead,
      G!OnlyADeadCookieIsTurnedAway
<1>3. G!GateInv => G!TypeOK
  BY DEF G!GateInv
<1> QED BY <1>1, <1>2, <1>3, GateBegins, GateStep, PTL DEF G!Spec

------------------------------------------------------------------------------
(* The header.                                                               *)

\* Every step of the header keeps what it shows in line with the pointer.
LEMMA HeaderStep == ASSUME W!Bounds PROVE W!HeaderInv /\ [W!Next]_W!vars => W!HeaderInv'
<1> SUFFICES ASSUME W!HeaderInv, [W!Next]_W!vars PROVE W!HeaderInv'
  OBVIOUS
<1> USE DEF W!Bounds, W!server, W!Idle, W!At, W!Move, W!Loaded, W!Workspace
<1>1. ASSUME NEW ws \in W!Workspace, W!SwitchTo(ws) PROVE W!HeaderInv'
  BY <1>1 DEF W!SwitchTo, W!HeaderInv, W!TypeOK, W!HookFollows, W!ChoiceFollows
<1>2. CASE W!SwitchServed
  <2>1. call.at = "sent" /\ call.org \in member \cup {None}
        /\ call' = [call EXCEPT !.at = "served"] /\ active' = call.org /\ elsewhere' = FALSE
        /\ UNCHANGED <<exists, member, hook, chosen, making, moves>>
    BY <1>2 DEF W!SwitchServed
  <2>2. call'.at = "served" /\ call'.org = call.org
    BY <2>1 DEF W!HeaderInv, W!ChoiceFollows
  <2> QED BY <2>1, <2>2 DEF W!HeaderInv, W!TypeOK, W!HookFollows, W!ChoiceFollows
<1>3. CASE W!SwitchAnswered
  BY <1>3 DEF W!SwitchAnswered, W!HeaderInv, W!TypeOK, W!HookFollows, W!ChoiceFollows
<1>4. CASE W!SwitchRefused
  BY <1>4 DEF W!SwitchRefused, W!HeaderInv, W!TypeOK, W!HookFollows, W!ChoiceFollows
<1>5. ASSUME NEW org \in Org, W!Join(org) PROVE W!HeaderInv'
  BY <1>5 DEF W!Join, W!HeaderInv, W!TypeOK, W!HookFollows, W!ChoiceFollows
<1>6. ASSUME NEW org \in Org, NEW deleted \in BOOLEAN, W!Leave(org, deleted) PROVE W!HeaderInv'
  BY <1>6 DEF W!Leave, W!HeaderInv, W!TypeOK, W!HookFollows, W!ChoiceFollows
<1>7. ASSUME NEW ok \in BOOLEAN, W!Activate(ok) PROVE W!HeaderInv'
  <2>1. UNCHANGED <<exists, member, chosen, call, moves>>
    BY <1>7 DEF W!Activate
  <2>2. CASE active' \in W!Workspace /\ hook' = active' /\ elsewhere' = TRUE
    BY <2>1, <2>2 DEF W!HeaderInv, W!TypeOK, W!HookFollows, W!ChoiceFollows
  <2>3. CASE UNCHANGED <<active, hook, elsewhere>>
    BY <2>1, <2>3 DEF W!HeaderInv, W!TypeOK, W!HookFollows, W!ChoiceFollows
  <2>4. member \subseteq Org
    BY DEF W!HeaderInv, W!TypeOK
  <2> QED BY <1>7, <2>2, <2>3, <2>4 DEF W!Activate
<1>8. ASSUME NEW org \in Org, W!Removed(org) PROVE W!HeaderInv'
  BY <1>8 DEF W!Removed, W!HeaderInv, W!TypeOK, W!HookFollows, W!ChoiceFollows
<1>9. CASE UNCHANGED W!vars
  BY <1>9 DEF W!vars, W!HeaderInv, W!TypeOK, W!HookFollows, W!ChoiceFollows
<1> QED BY <1>1, <1>2, <1>3, <1>4, <1>5, <1>6, <1>7, <1>8, <1>9 DEF W!Next

\* The header (components/organization/org-switcher.tsx): at rest it names the organization
\* org-scoped writes go to, unless another page moved the pointer or the user was removed.
THEOREM HeaderIsRight ==
  ASSUME W!Bounds
  PROVE  W!Spec => [](W!TypeOK /\ W!HeaderTellsWhereWritesGo)
<1>1. W!Init => W!HeaderInv
  <2> SUFFICES ASSUME W!Init PROVE W!HeaderInv
    OBVIOUS
  <2>1. call.at = "idle" /\ 0 \in 0..MaxSwitches
    BY DEF W!Init, W!Idle, W!Bounds
  <2>2. W!TypeOK
    BY <2>1 DEF W!Init, W!TypeOK, W!Workspace
  <2> QED BY <2>1, <2>2 DEF W!Init, W!HeaderInv, W!HookFollows, W!ChoiceFollows
<1>2. W!HeaderInv => W!TypeOK /\ W!HeaderTellsWhereWritesGo
  BY DEF W!HeaderInv, W!HookFollows, W!ChoiceFollows, W!HeaderTellsWhereWritesGo, W!Shown,
      W!Idle, W!At
<1> QED BY <1>1, <1>2, HeaderStep, PTL DEF W!Spec

------------------------------------------------------------------------------
(* The people of an organization.                                            *)

\* "Nothing" is no row, no role, no answer and no number.
LEMMA RowsAreSomething ==
  ASSUME M!Bounds
  PROVE  /\ None \notin Nat /\ None \notin M!Role /\ None \notin {"ok", "error"}
         /\ None \notin M!MemberRow /\ None \notin M!InviteRow
BY DEF M!Bounds

\* The type of the rows follows from the rest.
LEMMA RowsGiveType ==
  ASSUME M!Bounds, sent' \in 0..MaxCalls, M!RowsAreTyped', M!IdsAreFresh', M!CallsAreTyped'
  PROVE  M!TypeOK'
<1>1. made' \in 0..MaxMembers
  BY DEF M!Bounds, M!RowsAreTyped
<1>2. \A i \in M!Live' : i <= made' /\ members'[i].role \in M!Role
  BY DEF M!Live, M!RowsAreTyped, M!IdsAreFresh, M!MemberRow
<1>3. \A c \in calls' : c.answer \in {None, "ok", "error"}
  BY DEF M!CallsAreTyped
<1> QED BY <1>1, <1>2, <1>3 DEF M!TypeOK

\* A step that leaves the rows, the calls and the lists alone.
LEMMA ListsUntouched ==
  ASSUME M!Bounds, M!MembersInv, door' \in [Person -> M!InviteId \cup {None}],
         UNCHANGED <<members, made, invites, seen, refetch, roles, removed, calls, sent, crossed>>
  PROVE  M!MembersInv'
<1>1. M!RowsAreTyped' /\ M!IdsAreFresh'
  BY DEF M!MembersInv, M!RowsAreTyped, M!IdsAreFresh
<1>2. M!CallsAreTyped' /\ M!TypeOK'
  BY DEF M!MembersInv, M!CallsAreTyped, M!TypeOK, M!Live
<1>3. M!RemovedAreGone'
  BY DEF M!MembersInv, M!RemovedAreGone, M!Gone
<1>4. M!RolesArrive'
  BY DEF M!MembersInv, M!RolesArrive, M!Deciding, M!IsRole
<1> QED BY <1>1, <1>2, <1>3, <1>4 DEF M!MembersInv

\* A call that changes a role is about a member row.
LEMMA RoleCalls ==
  ASSUME M!Bounds, M!MembersInv, NEW c \in calls, c.kind = "role"
  PROVE  c.list = "members" /\ c.id \in 1..made /\ c.id \in M!MemberId /\ c.id # None
           /\ c.role \in M!Role
<1>1. c.list = "members" /\ c.id \in 1..made /\ c.role \in M!Role
  BY DEF M!MembersInv, M!CallsAreTyped
<1>2. made \in 1..MaxMembers /\ MaxMembers \in Nat
  BY DEF M!MembersInv, M!RowsAreTyped, M!Bounds
<1> QED BY <1>1, <1>2, RowsAreSomething DEF M!MemberId

\* A call is sent: it is the only one on its row, or the two have crossed.
LEMMA SendKeeps ==
  ASSUME M!Bounds, M!MembersInv, NEW new,
         new = [list |-> new.list, kind |-> new.kind, id |-> new.id, role |-> new.role,
           to |-> new.to,
                n |-> new.n, answer |-> None],
         \/ new.kind = "role" /\ new.list = "members" /\ new.id \in 1..made /\ new.role \in M!Role
         \/ new.kind = "remove" /\ new.list = "members" /\ new.id \in 1..made
         \/ new.kind = "invite" /\ new.list = "invites" /\ new.id = None
              /\ new.role \in M!Role /\ new.to \in Person
         \/ new.kind = "cancel" /\ new.list = "invites" /\ new.id \in M!InviteId
              /\ invites[new.id] # None,
         M!Send(new),
         roles' = IF new.kind = "role" THEN [roles EXCEPT ![new.id] = new.role] ELSE roles,
         UNCHANGED <<members, made, invites, door, seen, refetch, removed>>
  PROVE  M!MembersInv'
<1>0. made \in 1..MaxMembers /\ roles \in [M!MemberId -> M!Role \cup {None}] /\ new.answer = None
  BY DEF M!MembersInv, M!RowsAreTyped
<1>1. /\ calls' = calls \cup {new} /\ sent' \in 0..MaxCalls
      /\ crossed' = (crossed \/ \E c \in calls : c.list = new.list /\ c.id = new.id /\ c.id # None)
  BY DEF M!Send, M!Bounds, M!MembersInv, M!TypeOK
<1>2. /\ roles' \in [M!MemberId -> M!Role \cup {None}]
      /\ \A i \in M!MemberId : roles'[i] = IF new.kind = "role" /\ i = new.id
           THEN new.role ELSE roles[i]
      /\ new.kind = "role" => new.id \in M!MemberId
  BY <1>0 DEF M!MemberId, M!Bounds
<1>3. M!RowsAreTyped' /\ M!IdsAreFresh'
  BY <1>0, <1>2 DEF M!MembersInv, M!RowsAreTyped, M!IdsAreFresh
<1>4. M!CallsAreTyped'
  BY <1>1 DEF M!MembersInv, M!CallsAreTyped
<1>5. M!RemovedAreGone'
  BY <1>0, <1>1, RowsAreSomething DEF M!MembersInv, M!RemovedAreGone, M!Gone
<1>6. M!RolesArrive'
  <2> SUFFICES ASSUME ~crossed' PROVE M!RolesArrive'
    BY DEF M!RolesArrive
  <2>1. ~crossed /\ \A c \in calls : c.list = new.list /\ c.id = new.id => new.id = None
    BY <1>1
  <2>2. \A c, d \in calls' : c.list = d.list /\ c.id = d.id /\ c.id # None => c = d
    BY <1>1, <2>1 DEF M!MembersInv, M!RolesArrive
  <2>3. \A c \in calls : c.kind = "role" => c.list = "members" /\ c.id \in M!MemberId /\ c.id # None
    BY RoleCalls
  <2>4. \A c \in calls' : c.kind = "role" =>
          roles'[c.id] = c.role /\ (c.answer = "ok" => M!IsRole(members[c.id], c.role))
    BY <1>0, <1>1, <1>2, <2>1, <2>3, RowsAreSomething DEF M!MembersInv, M!RolesArrive
  <2>5. \A i \in M!MemberId : M!Deciding(i)' = {} => M!Deciding(i) = {}
          /\ ~(new.kind = "role" /\ new.id = i)
    BY <1>1 DEF M!Deciding
  <2>6. \A i \in M!MemberId : roles'[i] # None /\ M!Deciding(i)' = {} =>
          M!IsRole(members[i], roles'[i]) /\ (~refetch => M!IsRole(seen.members[i], roles'[i]))
    BY <1>2, <2>1, <2>5 DEF M!MembersInv, M!RolesArrive
  <2> QED BY <2>2, <2>4, <2>6 DEF M!RolesArrive, M!IsRole
<1> QED BY <1>1, <1>3, <1>4, <1>5, <1>6, RowsGiveType DEF M!MembersInv, M!TypeOK

\* A call is served or fails: what is gone stays gone, and a row changes only as the
\* call that is answered says.
LEMMA ArrivalKeeps ==
  ASSUME M!Bounds, M!MembersInv, NEW c \in calls, c.answer = None, NEW a \in {"ok", "error"},
         calls' = (calls \ {c}) \cup {[c EXCEPT !.answer = a]},
         UNCHANGED <<made, door, seen, refetch, roles, removed, sent, crossed>>,
         members' \in [M!MemberId -> M!MemberRow \cup {None}],
         invites' \in [M!InviteId -> M!InviteRow \cup {None}],
         \A i \in M!MemberId : members'[i] # members[i] =>
           /\ members[i] # None /\ c.list = "members" /\ c.id = i
           /\ members'[i] = None \/ c.kind = "role",
         \A i \in M!InviteId : invites[i] # None =>
           invites'[i] # None /\ (invites[i].status # "pending" => invites'[i].status # "pending"),
         \E n \in 0..MaxInvites : {i \in M!InviteId : invites'[i] # None} = 1..n,
         a = "ok" /\ c.kind = "role" => M!IsRole(members'[c.id], c.role),
         a = "ok" /\ c.kind \in {"remove", "cancel"} => M!Gone(c.list, c.id)'
  PROVE  M!MembersInv'
<1> DEFINE d == [c EXCEPT !.answer = a]
<1>1. /\ d = [list |-> d.list, kind |-> d.kind, id |-> d.id, role |-> d.role, to |-> d.to,
           n |-> d.n, answer |-> d.answer]
      /\ d.list = c.list /\ d.kind = c.kind /\ d.id = c.id /\ d.role = c.role /\ d.to = c.to
      /\ d.answer = a
      /\ calls' = (calls \ {c}) \cup {d}
  BY DEF M!MembersInv, M!CallsAreTyped
<1> HIDE DEF d
<1>2. M!RowsAreTyped'
  BY DEF M!MembersInv, M!RowsAreTyped
<1>3. M!IdsAreFresh'
  BY DEF M!MembersInv, M!IdsAreFresh
<1>4. M!CallsAreTyped'
  BY <1>1 DEF M!MembersInv, M!CallsAreTyped
<1>5. \A list, i : M!Gone(list, i) => M!Gone(list, i)'
  BY DEF M!Gone, M!MemberId, M!MembersInv, M!RowsAreTyped, M!Bounds
<1>6. M!RemovedAreGone'
  <2>1. \A e \in calls' : e.kind \in {"remove", "cancel"} /\ e.answer = "ok" =>
          M!Gone(e.list, e.id)'
    BY <1>1, <1>5 DEF M!MembersInv, M!RemovedAreGone
  <2>2. \A r \in removed : r = <<r[1], r[2]>> /\ r[1] \in {"members", "invites"}
          /\ M!Gone(r[1], r[2])'
    BY <1>5 DEF M!MembersInv, M!RemovedAreGone
  <2> QED BY <2>1, <2>2 DEF M!MembersInv, M!RemovedAreGone
<1>7. M!RolesArrive'
  <2> SUFFICES ASSUME ~crossed PROVE M!RolesArrive'
    BY DEF M!RolesArrive
  <2>1. \A e, f \in calls : e.list = f.list /\ e.id = f.id /\ e.id # None => e = f
    BY DEF M!MembersInv, M!RolesArrive
  <2>2. \A e, f \in calls' : e.list = f.list /\ e.id = f.id /\ e.id # None => e = f
    BY <1>1, <2>1
  <2>3. \A i \in M!MemberId : M!Deciding(i)' = {} => M!Deciding(i) = {}
    BY <1>1 DEF M!Deciding
  <2>4. \A e \in calls' : e.kind = "role" =>
          roles[e.id] = e.role /\ (e.answer = "ok" => M!IsRole(members'[e.id], e.role))
    <3> SUFFICES ASSUME NEW e \in calls', e.kind = "role"
                 PROVE  roles[e.id] = e.role
                          /\ (e.answer = "ok" => M!IsRole(members'[e.id], e.role))
      OBVIOUS
    <3>1. CASE e = d
      BY <1>1, <3>1 DEF M!MembersInv, M!RolesArrive
    <3>2. CASE e # d
      <4>1. e \in calls /\ e # c /\ e.list = "members" /\ e.id \in M!MemberId /\ e.id # None
        BY <1>1, <3>2, RoleCalls
      <4>2. members'[e.id] = members[e.id]
        BY <2>1, <4>1
      <4> QED BY <4>1, <4>2 DEF M!MembersInv, M!RolesArrive, M!IsRole
    <3> QED BY <3>1, <3>2
  <2>5. \A i \in M!MemberId : roles[i] # None /\ M!Deciding(i)' = {} =>
          M!IsRole(members'[i], roles[i]) /\ (~refetch => M!IsRole(seen.members[i], roles[i]))
    <3> SUFFICES ASSUME NEW i \in M!MemberId, roles[i] # None, M!Deciding(i)' = {}
                 PROVE  M!IsRole(members'[i], roles[i])
                          /\ (~refetch => M!IsRole(seen.members[i], roles[i]))
      OBVIOUS
    <3>1. M!IsRole(members[i], roles[i]) /\ (~refetch => M!IsRole(seen.members[i], roles[i]))
      BY <2>3 DEF M!MembersInv, M!RolesArrive
    <3>2. members'[i] = members[i] \/ members'[i] = None
      BY <2>3 DEF M!Deciding
    <3> QED BY <3>1, <3>2 DEF M!IsRole
  <2> QED BY <2>2, <2>4, <2>5 DEF M!RolesArrive, M!IsRole
<1> QED BY <1>2, <1>3, <1>4, <1>6, <1>7, RowsGiveType DEF M!MembersInv, M!TypeOK

\* The id an invitation is given was never given before.
LEMMA MCounting == ASSUME NEW L PROVE M!Cardinality(L) = Cardinality(L)
BY DEF M!Cardinality, Cardinality

\* The id an invitation is given was never given before.
LEMMA InvitesAreFresh ==
  ASSUME M!Bounds, M!MembersInv, M!FreshInvite \in M!InviteId
  PROVE  /\ {i \in M!InviteId : invites[i] # None} = 1..(M!FreshInvite - 1)
         /\ invites[M!FreshInvite] = None
<1>1. PICK n \in 0..MaxInvites : {i \in M!InviteId : invites[i] # None} = 1..n
  BY DEF M!MembersInv, M!IdsAreFresh
<1>2. n \in Nat
  BY DEF M!Bounds
<1>3. Cardinality(1..n) = n
  BY <1>2, FS_Interval
<1>4. M!FreshInvite = n + 1
  BY <1>1, <1>3, MCounting DEF M!FreshInvite
<1>5. M!FreshInvite \notin 1..n
  BY <1>2, <1>4
<1> QED BY <1>1, <1>2, <1>4, <1>5

\* The endpoint serves a call as its row then is.
LEMMA EndpointKeeps ==
  ASSUME M!Bounds, M!MembersInv, NEW c \in calls, M!Serve(c)
  PROVE  M!MembersInv'
<1>1. /\ c.answer = None /\ M!Served(c)
      /\ calls' = (calls \ {c}) \cup {[c EXCEPT !.answer = "ok"]}
      /\ UNCHANGED <<made, door, seen, refetch, roles, removed, sent, crossed>>
  BY DEF M!Serve, M!page
<1>2. /\ members \in [M!MemberId -> M!MemberRow \cup {None}]
      /\ invites \in [M!InviteId -> M!InviteRow \cup {None}]
      /\ \E n \in 0..MaxInvites : {i \in M!InviteId : invites[i] # None} = 1..n
  BY DEF M!MembersInv, M!RowsAreTyped, M!IdsAreFresh
<1>3. CASE c.kind = "role" /\ c.id \in M!Live
             /\ members' = [members EXCEPT ![c.id].role = c.role] /\ UNCHANGED invites
  <2>1. c.list = "members" /\ c.id \in M!MemberId /\ c.role \in M!Role
    BY <1>3, RoleCalls
  <2>2. members[c.id] \in M!MemberRow
    BY <1>2, <1>3 DEF M!Live
  <2>3. [members[c.id] EXCEPT !.role = c.role] \in M!MemberRow
          /\ [members[c.id] EXCEPT !.role = c.role].role = c.role
    BY <2>1, <2>2 DEF M!MemberRow
  <2>4. /\ members' \in [M!MemberId -> M!MemberRow \cup {None}]
        /\ members'[c.id].role = c.role
        /\ \A i \in M!MemberId : i # c.id => members'[i] = members[i]
    BY <1>2, <1>3, <2>1, <2>3
  <2> QED BY <1>1, <1>2, <1>3, <2>1, <2>4, ArrivalKeeps DEF M!IsRole, M!Live
<1>4. CASE c.kind = "remove" /\ c.id \in M!Live
             /\ members' = [members EXCEPT ![c.id] = None] /\ UNCHANGED invites
  <2>1. c.list = "members" /\ c.id \in 1..made /\ c.id \in M!MemberId
    BY <1>4 DEF M!MembersInv, M!CallsAreTyped, M!Live
  <2>2. /\ members' \in [M!MemberId -> M!MemberRow \cup {None}]
        /\ members'[c.id] = None
        /\ \A i \in M!MemberId : i # c.id => members'[i] = members[i]
    BY <1>2, <1>4, <2>1
  <2>3. M!Gone(c.list, c.id)'
    BY <1>1, <2>1, <2>2 DEF M!Gone
  <2> QED BY <1>1, <1>2, <1>4, <2>1, <2>2, <2>3, ArrivalKeeps DEF M!Live
<1>5. CASE /\ c.kind = "invite" /\ M!FreshInvite \in M!InviteId /\ UNCHANGED members
           /\ invites' = [invites EXCEPT ![M!FreshInvite] = [to |-> c.to, role |-> c.role,
                status |-> "pending"]]
  <2>1. [to |-> c.to, role |-> c.role, status |-> "pending"] \in M!InviteRow
    BY <1>5 DEF M!MembersInv, M!CallsAreTyped, M!InviteRow
  <2>2. PICK k : k = M!FreshInvite
    OBVIOUS
  <2>3. /\ {i \in M!InviteId : invites[i] # None} = 1..(k - 1) /\ invites[k] = None
        /\ k \in M!InviteId
    BY <1>5, <2>2, InvitesAreFresh
  <2>4. /\ invites' \in [M!InviteId -> M!InviteRow \cup {None}] /\ invites'[k] # None
        /\ \A i \in M!InviteId : i # k => invites'[i] = invites[i]
    BY <1>2, <1>5, <2>1, <2>2, <2>3, RowsAreSomething
  <2>5. k \in 0..MaxInvites /\ {i \in M!InviteId : invites'[i] # None} = 1..k
    BY <2>3, <2>4 DEF M!InviteId, M!Bounds
  <2> QED BY <1>1, <1>2, <1>5, <2>3, <2>4, <2>5, ArrivalKeeps
<1>6. CASE /\ c.kind = "cancel" /\ c.id \in M!Pending /\ UNCHANGED members
           /\ invites' = [invites EXCEPT ![c.id].status = "canceled"]
  <2>1. c.list = "invites" /\ c.id \in M!InviteId /\ invites[c.id] \in M!InviteRow
    BY <1>2, <1>6 DEF M!MembersInv, M!CallsAreTyped, M!Pending
  <2>2. [invites[c.id] EXCEPT !.status = "canceled"] \in M!InviteRow
        /\ [invites[c.id] EXCEPT !.status = "canceled"].status = "canceled"
    BY <2>1 DEF M!InviteRow
  <2>3. /\ invites' \in [M!InviteId -> M!InviteRow \cup {None}]
        /\ invites'[c.id] # None /\ invites'[c.id].status = "canceled" /\ invites[c.id] # None
        /\ \A i \in M!InviteId : i # c.id => invites'[i] = invites[i]
    BY <1>2, <1>6, <2>1, <2>2, RowsAreSomething DEF M!Pending
  <2>4. M!Gone(c.list, c.id)'
    BY <2>1, <2>3 DEF M!Gone
  <2>5. {i \in M!InviteId : invites'[i] # None} = {i \in M!InviteId : invites[i] # None}
    BY <2>1, <2>3
  <2> QED BY <1>1, <1>2, <1>6, <2>3, <2>4, <2>5, ArrivalKeeps
<1> QED BY <1>1, <1>3, <1>4, <1>5, <1>6 DEF M!Served

\* The endpoint refuses a call, or never has it.
LEMMA FailKeeps ==
  ASSUME M!Bounds, M!MembersInv, NEW c \in calls, M!Fail(c)
  PROVE  M!MembersInv'
<1>1. /\ c.answer = None /\ calls' = (calls \ {c}) \cup {[c EXCEPT !.answer = "error"]}
      /\ UNCHANGED <<members, invites, made, door, seen, refetch, roles, removed, sent, crossed>>
  BY DEF M!Fail, M!page, M!rowsNow
<1>2. /\ members \in [M!MemberId -> M!MemberRow \cup {None}]
      /\ invites \in [M!InviteId -> M!InviteRow \cup {None}]
      /\ \E n \in 0..MaxInvites : {i \in M!InviteId : invites[i] # None} = 1..n
  BY DEF M!MembersInv, M!RowsAreTyped, M!IdsAreFresh
<1> QED BY <1>1, <1>2, ArrivalKeeps

\* A call is answered: the override of a role goes on an error, the row of a removal hides.
LEMMA AnsweredKeeps ==
  ASSUME M!Bounds, M!MembersInv, NEW c \in calls, M!Answered(c)
  PROVE  M!MembersInv'
<1>1. /\ c.answer \in {"ok", "error"} /\ calls' = calls \ {c}
      /\ roles' = M!Reverted(c)
      /\ removed' = IF c.kind \in {"remove", "cancel"} /\ c.answer = "ok"
                    THEN removed \cup {<<c.list, c.id>>} ELSE removed
      /\ refetch' = (refetch \/ c.answer = "ok")
      /\ UNCHANGED <<members, made, invites, door, seen, sent, crossed>>
  BY DEF M!Answered, M!rowsNow, M!MembersInv, M!CallsAreTyped
<1>2. /\ roles' \in [M!MemberId -> M!Role \cup {None}]
      /\ \A i \in M!MemberId : roles'[i] = IF c.kind = "role" /\ c.answer = "error"
           /\ i = c.id THEN None
                                           ELSE roles[i]
  BY <1>1 DEF M!Reverted, M!MembersInv, M!RowsAreTyped
<1>3. M!RowsAreTyped' /\ M!IdsAreFresh'
  BY <1>1, <1>2 DEF M!MembersInv, M!RowsAreTyped, M!IdsAreFresh
<1>4. M!CallsAreTyped'
  BY <1>1 DEF M!MembersInv, M!CallsAreTyped
<1>5. M!RemovedAreGone'
  <2>1. c.list \in {"members", "invites"}
    BY DEF M!MembersInv, M!CallsAreTyped
  <2>2. \A list, i : M!Gone(list, i)' = M!Gone(list, i)
    BY <1>1 DEF M!Gone
  <2>3. \A r \in removed' : r = <<r[1], r[2]>> /\ r[1] \in {"members", "invites"}
          /\ M!Gone(r[1], r[2])
    BY <1>1, <2>1 DEF M!MembersInv, M!RemovedAreGone
  <2>4. ~refetch' => removed' = removed /\ ~refetch
    BY <1>1
  <2> QED BY <1>1, <2>2, <2>3, <2>4 DEF M!MembersInv, M!RemovedAreGone
<1>6. M!RolesArrive'
  <2> SUFFICES ASSUME ~crossed PROVE M!RolesArrive'
    BY <1>1 DEF M!RolesArrive
  <2>1. \A e, f \in calls : e.list = f.list /\ e.id = f.id /\ e.id # None => e = f
    BY DEF M!MembersInv, M!RolesArrive
  <2>2. \A e \in calls' : e.kind = "role" =>
          roles'[e.id] = e.role /\ (e.answer = "ok" => M!IsRole(members[e.id], e.role))
    <3> SUFFICES ASSUME NEW e \in calls', e.kind = "role"
                 PROVE  roles'[e.id] = e.role
                          /\ (e.answer = "ok" => M!IsRole(members[e.id], e.role))
      OBVIOUS
    <3>1. e \in calls /\ e # c /\ e.list = "members" /\ e.id \in M!MemberId /\ e.id # None
      BY <1>1, RoleCalls
    <3>2. c.kind = "role" => e.id # c.id
      BY <2>1, <3>1, RoleCalls
    <3> QED BY <1>2, <3>1, <3>2 DEF M!MembersInv, M!RolesArrive
  <2>3. \A i \in M!MemberId : roles'[i] # None /\ M!Deciding(i)' = {} =>
          M!IsRole(members[i], roles'[i]) /\ (~refetch' => M!IsRole(seen.members[i], roles'[i]))
    <3> SUFFICES ASSUME NEW i \in M!MemberId, roles'[i] # None, M!Deciding(i)' = {}
                 PROVE  M!IsRole(members[i], roles'[i])
                          /\ (~refetch' => M!IsRole(seen.members[i], roles'[i]))
      OBVIOUS
    <3>1. roles'[i] = roles[i]
      BY <1>2
    <3>2. CASE M!Deciding(i) = {}
      BY <1>1, <3>1, <3>2 DEF M!MembersInv, M!RolesArrive
    <3>3. CASE M!Deciding(i) # {}
      <4>1. c.kind = "role" /\ c.id = i
        BY <1>1, <3>3 DEF M!Deciding
      <4>2. c.answer = "ok"
        BY <1>1, <1>2, <4>1
      <4> QED BY <1>1, <3>1, <4>1, <4>2 DEF M!MembersInv, M!RolesArrive
    <3> QED BY <3>2, <3>3
  <2> QED BY <1>1, <2>1, <2>2, <2>3 DEF M!RolesArrive, M!IsRole
<1> QED BY <1>1, <1>3, <1>4, <1>5, <1>6, RowsGiveType DEF M!MembersInv, M!TypeOK

\* The page's calls on a row it shows: a role, a removal, a cancellation.
LEMMA PageCallKeeps ==
  ASSUME M!Bounds, M!MembersInv, NEW i, NEW r \in M!Role,
         \/ i \in M!MemberId /\ (M!ChangeRole(i, r) \/ M!Remove(i))
         \/ i \in M!InviteId /\ M!CancelInvitation(i)
  PROVE  M!MembersInv'
<1>1. CASE i \in M!MemberId /\ M!ChangeRole(i, r)
  <2>1. i \in 1..made
    BY <1>1 DEF M!ChangeRole, M!ShownMembers, M!MembersInv, M!IdsAreFresh, M!RowsAreTyped,
        M!MemberId, M!Bounds
  <2>2. PICK new : new = M!Call("members", "role", i, r, None)
    OBVIOUS
  <2>3. /\ new = [list |-> new.list, kind |-> new.kind, id |-> new.id, role |-> new.role,
             to |-> new.to,
                  n |-> new.n, answer |-> None]
        /\ new.kind = "role" /\ new.list = "members" /\ new.id = i /\ new.role = r
    BY <2>2 DEF M!Call
  <2>4. /\ M!Send(new) /\ roles' = [roles EXCEPT ![i] = r]
        /\ UNCHANGED <<members, made, invites, door, seen, refetch, removed>>
    BY <1>1, <2>2 DEF M!ChangeRole, M!rowsNow
  <2> QED BY <2>1, <2>3, <2>4, SendKeeps
<1>2. CASE i \in M!MemberId /\ M!Remove(i)
  <2>1. i \in 1..made
    BY <1>2 DEF M!Remove, M!ShownMembers, M!MembersInv, M!IdsAreFresh, M!RowsAreTyped,
        M!MemberId, M!Bounds
  <2>2. PICK new : new = M!Call("members", "remove", i, None, None)
    OBVIOUS
  <2>3. /\ new = [list |-> new.list, kind |-> new.kind, id |-> new.id, role |-> new.role,
             to |-> new.to,
                  n |-> new.n, answer |-> None]
        /\ new.kind = "remove" /\ new.list = "members" /\ new.id = i
    BY <2>2 DEF M!Call
  <2>4. /\ M!Send(new) /\ roles' = roles
        /\ UNCHANGED <<members, made, invites, door, seen, refetch, removed>>
    BY <1>2, <2>2 DEF M!Remove, M!rowsNow
  <2> QED BY <2>1, <2>3, <2>4, SendKeeps
<1>3. CASE i \in M!InviteId /\ M!CancelInvitation(i)
  <2>1. invites[i] # None
    BY <1>3 DEF M!CancelInvitation, M!ShownInvites, M!MembersInv, M!IdsAreFresh
  <2>2. PICK new : new = M!Call("invites", "cancel", i, None, None)
    OBVIOUS
  <2>3. /\ new = [list |-> new.list, kind |-> new.kind, id |-> new.id, role |-> new.role,
             to |-> new.to,
                  n |-> new.n, answer |-> None]
        /\ new.kind = "cancel" /\ new.list = "invites" /\ new.id = i
    BY <2>2 DEF M!Call
  <2>4. /\ M!Send(new) /\ roles' = roles
        /\ UNCHANGED <<members, made, invites, door, seen, refetch, removed>>
    BY <1>3, <2>2 DEF M!CancelInvitation, M!rowsNow
  <2> QED BY <1>3, <2>1, <2>3, <2>4, SendKeeps
<1> QED BY <1>1, <1>2, <1>3

\* The invite form is submitted.
LEMMA InviteKeeps ==
  ASSUME M!Bounds, M!MembersInv, NEW p \in Person, NEW r \in M!Role, M!InviteMember(p, r)
  PROVE  M!MembersInv'
<1>1. PICK new : new = M!Call("invites", "invite", None, r, p)
  OBVIOUS
<1>2. /\ new = [list |-> new.list, kind |-> new.kind, id |-> new.id, role |-> new.role,
           to |-> new.to,
                n |-> new.n, answer |-> None]
      /\ new.kind = "invite" /\ new.list = "invites" /\ new.id = None /\ new.role = r /\ new.to = p
  BY <1>1 DEF M!Call
<1>3. /\ M!Send(new) /\ roles' = roles
      /\ UNCHANGED <<members, made, invites, door, seen, refetch, removed>>
  BY <1>1 DEF M!InviteMember, M!rowsNow, M!page
<1> QED BY <1>2, <1>3, SendKeeps

\* useActiveOrganization loads again: what the page laid over it is what it now has.
LEMMA RefetchKeeps ==
  ASSUME M!Bounds, M!MembersInv, M!Refetch
  PROVE  M!MembersInv'
<1>1. /\ refetch' = FALSE
      /\ seen' = [members |-> members, invites |-> invites, manages |-> manages]
      /\ UNCHANGED <<members, made, invites, door, roles, removed, calls, sent, crossed>>
  BY DEF M!Refetch, M!Now, M!rowsNow
<1>2. M!RowsAreTyped' /\ M!IdsAreFresh' /\ M!CallsAreTyped'
  BY <1>1 DEF M!MembersInv, M!RowsAreTyped, M!IdsAreFresh, M!CallsAreTyped
<1>3. M!RemovedAreGone'
  BY <1>1 DEF M!MembersInv, M!RemovedAreGone, M!Gone
<1>4. M!RolesArrive'
  BY <1>1 DEF M!MembersInv, M!RolesArrive, M!Deciding
<1> QED BY <1>1, <1>2, <1>3, <1>4, RowsGiveType DEF M!MembersInv, M!TypeOK

\* Another manager changes a row: one the page has not acted on, or they have crossed.
LEMMA OtherChangesKeeps ==
  ASSUME M!Bounds, M!MembersInv, NEW i \in M!MemberId, NEW r \in M!Role \cup {None},
         M!OtherChanges(i, r)
  PROVE  M!MembersInv'
<1>1. /\ members[i] # None /\ crossed' = (crossed \/ M!Touched("members", i))
      /\ members' = [members EXCEPT ![i] = IF r = None THEN None ELSE [@ EXCEPT !.role = r]]
      /\ UNCHANGED <<made, invites, door, seen, refetch, roles, removed, calls, sent>>
  BY DEF M!OtherChanges, M!Live, M!page
<1>2. members \in [M!MemberId -> M!MemberRow \cup {None}]
  BY DEF M!MembersInv, M!RowsAreTyped
<1>3. (IF r = None THEN None ELSE [members[i] EXCEPT !.role = r]) \in M!MemberRow \cup {None}
  BY <1>1, <1>2 DEF M!MemberRow
<1>4. /\ members' \in [M!MemberId -> M!MemberRow \cup {None}]
      /\ \A j \in M!MemberId : j # i => members'[j] = members[j]
  BY <1>1, <1>2, <1>3
<1>5. M!RowsAreTyped' /\ M!IdsAreFresh' /\ M!CallsAreTyped'
  BY <1>1, <1>4 DEF M!MembersInv, M!RowsAreTyped, M!IdsAreFresh, M!CallsAreTyped
<1>6. M!RemovedAreGone'
  <2>1. \A list, j : M!Gone(list, j) => M!Gone(list, j)'
    BY <1>1, <1>4 DEF M!Gone, M!MemberId, M!MembersInv, M!RowsAreTyped, M!Bounds
  <2> QED BY <1>1, <2>1 DEF M!MembersInv, M!RemovedAreGone
<1>7. M!RolesArrive'
  <2> SUFFICES ASSUME ~crossed' PROVE M!RolesArrive'
    BY DEF M!RolesArrive
  <2>1. ~crossed /\ roles[i] = None /\ \A c \in calls : ~(c.list = "members" /\ c.id = i)
    BY <1>1 DEF M!Touched
  <2>2. \A c \in calls : c.kind = "role" => c.id \in M!MemberId /\ members'[c.id] = members[c.id]
    BY <1>4, <2>1, RoleCalls
  <2>3. \A j \in M!MemberId : roles[j] # None => members'[j] = members[j]
    BY <1>4, <2>1
  <2> QED BY <1>1, <2>1, <2>2, <2>3, ZenonT(60) DEF M!MembersInv, M!RolesArrive, M!Deciding, M!IsRole
<1> QED BY <1>1, <1>5, <1>6, <1>7, RowsGiveType DEF M!MembersInv, M!TypeOK

\* An invitation is opened: only the page of the invited changes.
LEMMA OpenKeeps ==
  ASSUME M!Bounds, M!MembersInv, NEW i \in M!InviteId, M!OpenInvitation(i)
  PROVE  M!MembersInv'
<1>1. /\ door' = [door EXCEPT ![invites[i].to] = i]
      /\ UNCHANGED <<members, made, invites, seen, refetch, roles, removed, calls, sent, crossed>>
  BY DEF M!OpenInvitation, M!rowsNow, M!page
<1>2. door' \in [Person -> M!InviteId \cup {None}]
  BY <1>1 DEF M!MembersInv, M!RowsAreTyped
<1> QED BY <1>1, <1>2, ListsUntouched

\* This manager loses the role: the rows stay.
LEMMA DemotedKeeps ==
  ASSUME M!Bounds, M!MembersInv, M!Demoted
  PROVE  M!MembersInv'
<1>1. UNCHANGED <<members, made, invites, door, seen, refetch, roles, removed, calls, sent,
        crossed>>
  BY DEF M!Demoted, M!page
<1>2. door' \in [Person -> M!InviteId \cup {None}]
  BY <1>1 DEF M!MembersInv, M!RowsAreTyped
<1> QED BY <1>1, <1>2, ListsUntouched

\* An invitation is accepted: a member row with an id nobody had.
LEMMA AcceptKeeps ==
  ASSUME M!Bounds, M!MembersInv, NEW p \in Person, M!Accept(p)
  PROVE  M!MembersInv'
<1>0. /\ made \in 1..MaxMembers /\ MaxMembers \in Nat
      /\ door' = [door EXCEPT ![p] = None] /\ door' \in [Person -> M!InviteId \cup {None}]
      /\ UNCHANGED <<seen, refetch, roles, removed, calls, sent>>
      /\ members \in [M!MemberId -> M!MemberRow \cup {None}]
      /\ invites \in [M!InviteId -> M!InviteRow \cup {None}]
  BY DEF M!Accept, M!page, M!MembersInv, M!RowsAreTyped, M!Bounds
<1>1. CASE ~(door[p] \in M!Pending /\ ~M!IsMember(p) /\ made < MaxMembers)
  <2>1. UNCHANGED <<members, made, invites, crossed>>
    BY <1>1 DEF M!Accept
  <2> QED BY <1>0, <2>1, ListsUntouched
<1>2. CASE door[p] \in M!Pending /\ ~M!IsMember(p) /\ made < MaxMembers
  <2>0. PICK i, k : i = door[p] /\ k = made + 1
    OBVIOUS
  <2>1. /\ made' = k /\ members' = [members EXCEPT ![k] = [who |-> p, role |-> invites[i].role]]
        /\ invites' = [invites EXCEPT ![i].status = "accepted"]
        /\ crossed' = (crossed \/ M!Touched("invites", i))
    BY <1>2, <2>0 DEF M!Accept
  <2>2. k \in M!MemberId /\ k = made + 1 /\ made' \in 1..MaxMembers
    BY <1>0, <1>2, <2>0, <2>1 DEF M!MemberId
  <2>3. i \in M!InviteId /\ invites[i] # None /\ invites[i] \in M!InviteRow
    BY <1>0, <1>2, <2>0 DEF M!Pending
  <2>4. [who |-> p, role |-> invites[i].role] \in M!MemberRow
          /\ [invites[i] EXCEPT !.status = "accepted"] \in M!InviteRow
        /\ [invites[i] EXCEPT !.status = "accepted"].status = "accepted"
    BY <2>3 DEF M!MemberRow, M!InviteRow
  <2>5. /\ members' \in [M!MemberId -> M!MemberRow \cup {None}]
        /\ invites' \in [M!InviteId -> M!InviteRow \cup {None}]
        /\ \A j \in M!MemberId : j # k => members'[j] = members[j]
        /\ \A j \in M!InviteId : j # i => invites'[j] = invites[j]
        /\ invites'[i] # None /\ invites'[i].status = "accepted"
    BY <1>0, <2>1, <2>2, <2>3, <2>4, RowsAreSomething
  <2>6. members[k] = None /\ seen.members[k] = None /\ roles[k] = None
    BY <1>0, <2>2 DEF M!MembersInv, M!IdsAreFresh
  <2>7. M!RowsAreTyped'
    BY <1>0, <2>2, <2>5 DEF M!MembersInv, M!RowsAreTyped
  <2>8. {j \in M!InviteId : invites'[j] # None} = {j \in M!InviteId : invites[j] # None}
    BY <2>3, <2>5
  <2>9. M!IdsAreFresh'
    <3>1. \A j \in M!MemberId : members'[j] # None \/ seen'.members[j] # None
            \/ roles'[j] # None => j <= made'
      BY <1>0, <2>1, <2>2, <2>5 DEF M!MembersInv, M!IdsAreFresh, M!MemberId
    <3>2. \A j \in M!InviteId : seen'.invites[j] # None => invites'[j] # None
      BY <1>0, <2>5 DEF M!MembersInv, M!IdsAreFresh
    <3> QED BY <3>1, <3>2, <2>8 DEF M!MembersInv, M!IdsAreFresh
  <2>10. 1..made \subseteq 1..made'
    BY <1>0, <2>1, <2>2
  <2>11. M!CallsAreTyped'
    BY <1>0, <2>5, <2>10 DEF M!MembersInv, M!CallsAreTyped
  <2>12. M!RemovedAreGone'
    <3>1. \A list, j : M!Gone(list, j) => M!Gone(list, j)'
      <4>1. \A j \in 1..made : j \in M!MemberId /\ j # k
        BY <1>0, <2>2 DEF M!MemberId
      <4>2. \A j \in 1..made : members[j] = None => members'[j] = None
        BY <2>5, <4>1
      <4>3. \A j \in M!InviteId : invites[j] # None /\ invites[j].status # "pending" =>
              invites'[j] # None /\ invites'[j].status # "pending"
        BY <2>3, <2>5
      <4> QED BY <2>10, <4>2, <4>3 DEF M!Gone
    <3> QED BY <1>0, <3>1 DEF M!MembersInv, M!RemovedAreGone
  <2>13. M!RolesArrive'
    <3> SUFFICES ASSUME ~crossed' PROVE M!RolesArrive'
      BY DEF M!RolesArrive
    <3>1. ~crossed
      BY <2>1
    <3>2. \A c \in calls : c.kind = "role" => c.id \in M!MemberId /\ members'[c.id] = members[c.id]
      BY <1>0, <2>2, <2>5, RoleCalls
    <3>3. \A j \in M!MemberId : roles[j] # None => members'[j] = members[j]
      BY <2>5, <2>6
    <3> QED BY <1>0, <3>1, <3>2, <3>3 DEF M!MembersInv, M!RolesArrive, M!Deciding, M!IsRole
  <2> QED BY <1>0, <2>7, <2>9, <2>11, <2>12, <2>13, RowsGiveType DEF M!MembersInv, M!TypeOK
<1> QED BY <1>1, <1>2

\* Every step of the members page keeps what PageAddsNothing rests on.
LEMMA MembersStep ==
  ASSUME M!Bounds, M!MembersInv, [M!Next]_M!vars
  PROVE  M!MembersInv'
<1>1. CASE UNCHANGED M!vars
  <2>1. /\ UNCHANGED <<members, made, invites, door, seen, refetch, roles, removed, calls,
             sent, crossed>>
    BY <1>1 DEF M!vars, M!rowsNow, M!page
  <2>2. door' \in [Person -> M!InviteId \cup {None}]
    BY <2>1 DEF M!MembersInv, M!RowsAreTyped
  <2> QED BY <2>1, <2>2, ListsUntouched
<1>2. CASE \E i \in M!MemberId : M!Remove(i) \/ \E r \in M!Role : M!ChangeRole(i, r)
  BY <1>2, PageCallKeeps DEF M!Role
<1>3. CASE \E i \in M!MemberId : M!OtherChanges(i, None) \/ \E r \in M!Role : M!OtherChanges(i, r)
  BY <1>3, OtherChangesKeeps
<1>4. CASE \E i \in M!InviteId : M!CancelInvitation(i) \/ M!OpenInvitation(i)
  BY <1>4, PageCallKeeps, OpenKeeps DEF M!Role
<1>5. CASE \E p \in Person : M!Accept(p) \/ \E r \in M!Role : M!InviteMember(p, r)
  BY <1>5, AcceptKeeps, InviteKeeps
<1>6. CASE \E c \in calls : M!Serve(c) \/ M!Fail(c) \/ M!Answered(c)
  BY <1>6, EndpointKeeps, FailKeeps, AnsweredKeeps
<1>7. CASE M!Refetch \/ M!Demoted
  BY <1>7, RefetchKeeps, DemotedKeeps
<1> QED BY <1>1, <1>2, <1>3, <1>4, <1>5, <1>6, <1>7 DEF M!Next

\* The page begins with the rows of the server.
LEMMA MembersBegin ==
  ASSUME M!Bounds, M!Init
  PROVE  M!MembersInv
<1>1. /\ made = 1 /\ sent = 0 /\ crossed = FALSE /\ calls = {} /\ removed = {} /\ refetch = FALSE
      /\ seen = [members |-> members, invites |-> invites, manages |-> manages]
      /\ invites = [i \in M!InviteId |-> None] /\ roles = [i \in M!MemberId |-> None]
      /\ door = [p \in Person |-> None]
  BY DEF M!Init, M!Now
<1>2. (CHOOSE p \in Person : TRUE) \in Person
  BY DEF M!Bounds
<1>3. PICK p \in Person : members = [i \in M!MemberId |-> IF i = 1
        THEN [who |-> p, role |-> "member"] ELSE None]
  BY <1>2 DEF M!Init
<1>4. [who |-> p, role |-> "member"] \in M!MemberRow
  BY DEF M!MemberRow, M!Role
<1>5. M!RowsAreTyped
  BY <1>1, <1>3, <1>4 DEF M!RowsAreTyped, M!Bounds
<1>6. 0 \in 0..MaxInvites /\ {i \in M!InviteId : invites[i] # None} = 1..0
  BY <1>1 DEF M!Bounds
<1>7. M!IdsAreFresh
  BY <1>1, <1>3, <1>6 DEF M!IdsAreFresh
<1>8. M!CallsAreTyped /\ M!RemovedAreGone /\ M!RolesArrive
  BY <1>1 DEF M!CallsAreTyped, M!RemovedAreGone, M!RolesArrive
<1>9. M!TypeOK
  BY <1>1, <1>3, <1>4 DEF M!TypeOK, M!Live, M!Bounds, M!MemberRow
<1> QED BY <1>5, <1>7, <1>8, <1>9 DEF M!MembersInv

\* With no call in flight and the hook loaded, the page shows the rows it loaded.
LEMMA MembersEnd ==
  ASSUME M!MembersInv
  PROVE  M!PageAddsNothing
<1> SUFFICES ASSUME calls = {}, ~refetch, ~crossed PROVE M!PageAddsNothing
  BY DEF M!PageAddsNothing
<1>1. \A i \in M!ShownMembers : M!ShownRole(i) = seen.members[i].role
  BY DEF M!MembersInv, M!RolesArrive, M!Deciding, M!IsRole, M!ShownMembers, M!ShownRole
<1>2. \A i \in M!MemberId : seen.members[i] # None => i \in M!ShownMembers
  BY DEF M!MembersInv, M!RemovedAreGone, M!ShownMembers
<1>3. \A i \in M!InviteId : seen.invites[i] # None /\ seen.invites[i].status = "pending" =>
        i \in M!ShownInvites
  BY DEF M!MembersInv, M!RemovedAreGone, M!ShownInvites
<1> QED BY <1>1, <1>2, <1>3 DEF M!PageAddsNothing

\* The members page (components/organization/members-panel.tsx, pending-invitations.tsx): at
\* rest it shows the rows the hook loaded, unless a row it acted on was changed by another
\* hand or by two of its own calls at once.
THEOREM PageAddsNothingEver ==
  ASSUME M!Bounds
  PROVE  M!Spec => [](M!TypeOK /\ M!PageAddsNothing)
<1>1. M!Init => M!MembersInv
  BY MembersBegin
<1>2. M!MembersInv /\ [M!Next]_M!vars => M!MembersInv'
  BY MembersStep
<1>3. M!MembersInv => M!TypeOK /\ M!PageAddsNothing
  BY MembersEnd DEF M!MembersInv
<1> QED BY <1>1, <1>2, <1>3, PTL DEF M!Spec

------------------------------------------------------------------------------
(* What is proved of a component for all constants holds of it here.         *)

\* A behaviour that begins as the administrators' goes on as theirs.
LEMMA AccessRuns == Spec => [](which # "Access") \/ (Access!Spec /\ [](which = "Access"))
<1>1. Init => which # "Access" \/ (which = "Access" /\ Access!Init)
  BY DEF Init
<1>2. which # "Access" /\ [Next]_vars => (which # "Access")'
  BY DEF Next, vars
<1>3. which = "Access" /\ [Next]_vars => (which = "Access")' /\ [Access!Next]_Access!vars
  BY DEF Next, vars, adminVars, Access!vars
<1> QED BY <1>1, <1>2, <1>3, PTL DEF Spec, Access!Spec

\* The run's administrators (server/actions/admin.ts): a ban keeps its target out
\* but for a sign-in that crossed it, and an administrator remains unless two
\* role changes cross.
THEOREM AccessAlwaysHolds == Spec => []AccessHolds
<1>1. Access!Spec => [](Access!TypeOK /\ Access!BannedStaysOut /\ Access!OneAtATimeAnAdminRemains)
  BY ConstantsAssumption, AdministrationHolds
<1>2. Access!TypeOK /\ Access!BannedStaysOut /\ Access!OneAtATimeAnAdminRemains => AccessHolds
  BY DEF AccessHolds
<1>3. which # "Access" => AccessHolds
  BY DEF AccessHolds
<1> QED BY <1>1, <1>2, <1>3, AccessRuns, PTL

\* A behaviour that begins as the files of an account goes on as them.
LEMMA FilesRun == Spec => [](which # "StoredFiles") \/ (F!Spec /\ [](which = "StoredFiles"))
<1>1. Init => which # "StoredFiles" \/ (which = "StoredFiles" /\ F!Init)
  BY DEF Init
<1>2. which # "StoredFiles" /\ [Next]_vars => (which # "StoredFiles")'
  BY DEF Next, vars
<1>3. which = "StoredFiles" /\ [Next]_vars => (which = "StoredFiles")' /\ [F!Next]_F!vars
  BY DEF Next, vars, fileVars, F!vars, F!avatar, F!closing
<1> QED BY <1>1, <1>2, <1>3, PTL DEF Spec, F!Spec

\* A behaviour that begins as the exports of an account goes on as them.
LEMMA ExportsRun == Spec => [](which # "DataExport") \/ (X!Spec /\ [](which = "DataExport"))
<1>1. Init => which # "DataExport" \/ (which = "DataExport" /\ X!Init)
  BY DEF Init
<1>2. which # "DataExport" /\ [Next]_vars => (which # "DataExport")'
  BY DEF Next, vars
<1>3. which = "DataExport" /\ [Next]_vars => (which = "DataExport")' /\ [X!Next]_X!vars
  BY DEF Next, vars, exportVars, X!vars
<1> QED BY <1>1, <1>2, <1>3, PTL DEF Spec, X!Spec

\* Files and exports (server/uploadthing/core.ts, server/actions/avatar.ts,
\* app/api/account/export/route.ts): a file is served exactly while it is listed,
\* a deleted account's are purged, and an export is what the account held.
THEOREM FilesAlwaysHold == Spec => []FilesHold
<1>1. F!Spec => [](F!TypeOK /\ F!ServedIsListed /\ F!ListedIsServed /\ F!AvatarIsServed
                    /\ F!PurgedWithTheAccount)
  BY ConstantsAssumption, FilesAreKept
<1>2. X!Spec => [](X!TypeOK /\ X!UntouchedIsExported /\ X!NothingLeaks)
  BY ExportsAreTrue
<1> DEFINE Files == F!TypeOK /\ F!ServedIsListed /\ F!ListedIsServed /\ F!AvatarIsServed
                    /\ F!PurgedWithTheAccount
           Exports == X!TypeOK /\ X!UntouchedIsExported /\ X!NothingLeaks
<1>3. (which # "StoredFiles" \/ Files) /\ (which # "DataExport" \/ Exports) => FilesHold
  BY DEF FilesHold
<1> QED BY <1>1, <1>2, <1>3, FilesRun, ExportsRun, PTL

\* A behaviour that begins as the tabs of an account goes on as them.
LEMMA FactorsRun == Spec => [](which # "TwoFactorCard") \/ (T!Spec /\ [](which = "TwoFactorCard"))
<1>1. Init => which # "TwoFactorCard" \/ (which = "TwoFactorCard" /\ T!Init)
  BY DEF Init
<1>2. which # "TwoFactorCard" /\ [Next]_vars => (which # "TwoFactorCard")'
  BY DEF Next, vars
<1>3. which = "TwoFactorCard" /\ [Next]_vars => (which = "TwoFactorCard")' /\ [T!Next]_T!vars
  BY DEF Next, vars, factorVars, T!vars, T!server, T!card, T!ghosts
<1> QED BY <1>1, <1>2, <1>3, PTL DEF Spec, T!Spec

\* A behaviour that begins as the cards of an account goes on as them.
LEMMA CardsRun == Spec => [](which # "AccountCards") \/ (K!Spec /\ [](which = "AccountCards"))
<1>1. Init => which # "AccountCards" \/ (which = "AccountCards" /\ K!Init)
  BY DEF Init
<1>2. which # "AccountCards" /\ [Next]_vars => (which # "AccountCards")'
  BY DEF Next, vars
<1>3. which = "AccountCards" /\ [Next]_vars => (which = "AccountCards")' /\ [K!Next]_K!vars
  BY DEF Next, vars, cardVars, K!vars, K!sessionCard, K!passkeyCard, K!dangerCard
<1> QED BY <1>1, <1>2, <1>3, PTL DEF Spec, K!Spec

\* The cards of the account page (components/account): nobody ends with a second
\* factor they were not shown, a hidden session is over, the passkeys shown are the
\* ones stored, a goodbye is said to an account that is gone, and where there is e-mail
\* none goes but by a mailed link.
THEOREM CardsAlwaysHold == Spec => []CardsHold
<1>1. T!Spec => [](T!TypeOK /\ T!NobodyIsLockedOut)
  BY ConstantsAssumption, NobodyIsLockedOutEver
<1>2. K!Spec => [](K!TypeOK /\ K!HiddenIsOver /\ K!RestingPasskeysAreTrue /\ K!DangerTellsTheTruth)
  BY ConstantsAssumption, CardsTellTheTruth
<1> DEFINE Cards == K!TypeOK /\ K!HiddenIsOver /\ K!RestingPasskeysAreTrue /\ K!DangerTellsTheTruth
<1>3. (which # "TwoFactorCard" \/ (T!TypeOK /\ T!NobodyIsLockedOut))
        /\ (which # "AccountCards" \/ Cards)
      => CardsHold
  BY DEF CardsHold
<1> QED BY <1>1, <1>2, <1>3, FactorsRun, CardsRun, PTL

\* A behaviour that begins as the attempts of a sign-in page goes on as them.
LEMMA SignInRuns == Spec => [](which # "SignInPage") \/ (S!Spec /\ [](which = "SignInPage"))
<1>1. Init => which # "SignInPage" \/ (which = "SignInPage" /\ S!Init)
  BY DEF Init
<1>2. which # "SignInPage" /\ [Next]_vars => (which # "SignInPage")'
  BY DEF Next, vars
<1>3. which = "SignInPage" /\ [Next]_vars => (which = "SignInPage")' /\ [S!Next]_S!vars
  BY DEF Next, vars, signInVars, S!vars, S!page, S!script
<1> QED BY <1>1, <1>2, <1>3, PTL DEF Spec, S!Spec

\* A behaviour that begins as the requests of a visitor goes on as them.
LEMMA GateRuns == Spec => [](which # "Gate") \/ (G!Spec /\ [](which = "Gate"))
<1>1. Init => which # "Gate" \/ (which = "Gate" /\ G!Init)
  BY DEF Init
<1>2. which # "Gate" /\ [Next]_vars => (which # "Gate")'
  BY DEF Next, vars
<1>3. which = "Gate" /\ [Next]_vars => (which = "Gate")' /\ [G!Next]_G!vars
  BY DEF Next, vars, gateVars, G!vars, G!auth
<1> QED BY <1>1, <1>2, <1>3, PTL DEF Spec, G!Spec

\* A behaviour that begins as the switches of a header goes on as them.
LEMMA HeaderRuns == Spec => [](which # "Workspaces") \/ (W!Spec /\ [](which = "Workspaces"))
<1>1. Init => which # "Workspaces" \/ (which = "Workspaces" /\ W!Init)
  BY DEF Init
<1>2. which # "Workspaces" /\ [Next]_vars => (which # "Workspaces")'
  BY DEF Next, vars
<1>3. which = "Workspaces" /\ [Next]_vars => (which = "Workspaces")' /\ [W!Next]_W!vars
  BY DEF Next, vars, workspaceVars, W!vars, W!server
<1> QED BY <1>1, <1>2, <1>3, PTL DEF Spec, W!Spec

\* A behaviour that begins as the people of an organization goes on as it.
LEMMA MembersRun == Spec => [](which # "Members") \/ (M!Spec /\ [](which = "Members"))
<1>1. Init => which # "Members" \/ (which = "Members" /\ M!Init)
  BY DEF Init
<1>2. which # "Members" /\ [Next]_vars => (which # "Members")'
  BY DEF Next, vars
<1>3. which = "Members" /\ [Next]_vars => (which = "Members")' /\ [M!Next]_M!vars
  BY DEF Next, vars, memberVars, M!vars, M!rowsNow, M!page
<1> QED BY <1>1, <1>2, <1>3, PTL DEF Spec, M!Spec

\* The pages around an account (components/auth, proxy.ts, components/organization): a
\* captcha widget that shows itself solved holds a fresh token, a visitor of a page the
\* proxy knows lands there and only a dead cookie is turned away, and at rest the header
\* and the members page show what the server holds, unless another hand changed it.
THEOREM PagesAlwaysHold == Spec => []PagesHold
<1>1. S!Spec => [](S!TypeOK /\ S!SolvedIsFresh)
  BY ConstantsAssumption, SolvedIsAlwaysFresh
<1>2. G!Spec => [](G!TypeOK /\ G!LandsWhereAsked /\ G!OnlyADeadCookieIsTurnedAway)
  BY ConstantsAssumption, GateIsRight
<1>3. W!Spec => [](W!TypeOK /\ W!HeaderTellsWhereWritesGo)
  BY ConstantsAssumption, HeaderIsRight
<1>4. M!Spec => [](M!TypeOK /\ M!PageAddsNothing)
  BY ConstantsAssumption, PageAddsNothingEver
<1> DEFINE Signing == S!TypeOK /\ S!SolvedIsFresh
           Landing == G!TypeOK /\ G!LandsWhereAsked /\ G!OnlyADeadCookieIsTurnedAway
           Header == W!TypeOK /\ W!HeaderTellsWhereWritesGo
           Members == M!TypeOK /\ M!PageAddsNothing
<1>5. (/\ which # "SignInPage" \/ Signing
       /\ which # "Gate" \/ Landing
       /\ which # "Workspaces" \/ Header
       /\ which # "Members" \/ Members) => PagesHold
  BY DEF PagesHold
<1> QED BY <1>1, <1>2, <1>3, <1>4, <1>5, SignInRuns, GateRuns, HeaderRuns, MembersRun, PTL
==============================================================================

----------------------------- MODULE Workspaces -----------------------------
(* Which organization one user works in: the pointer in the session row, the *)
(* switcher in the header that shows its own choice first                    *)
(* (components/organization/org-switcher.tsx), the pages that move the       *)
(* pointer behind its back (create-org-dialog.tsx, org-settings.tsx,         *)
(* accept-invitation-client.tsx). Org-scoped writes read the pointer afresh  *)
(* (lib/organization.ts), so it decides where they go.                       *)
EXTENDS Integers, FiniteSets

CONSTANTS Org, None, MaxSwitches    \* switches, creations and departures of a behaviour (bound)

VARIABLES
  exists, member,   \* organizations, and those this user is in
  active,           \* session.activeOrganizationId; None is the personal workspace
  hook,             \* what useActiveOrganization has loaded
  chosen,           \* the switcher's optimisticId; "unset" defers to the hook
  call,             \* the switcher's setActive in flight
  making,           \* the dialog or page that moves the pointer in two calls
  moves,
  elsewhere         \* the pointer moved since the switcher chose and nobody told it (ghost)

server == <<exists, member, active>>
vars == <<exists, member, active, hook, chosen, call, making, moves, elsewhere>>

Workspace == Org \cup {None}
Idle == [at |-> "idle", org |-> None]
At(step, org) == [at |-> step, org |-> org]

Init ==
  /\ exists = {} /\ member = {} /\ active = None /\ hook = None
  /\ chosen = "unset" /\ call = Idle /\ making = Idle
  /\ moves = 0 /\ elsewhere = FALSE

Move == moves < MaxSwitches /\ moves' = moves + 1

\* What the hook is given: nothing of an organization one is no longer in.
Loaded == IF active \in member THEN active ELSE None

\* The id the header shows: optimisticId, else the hook's.
Shown == IF chosen # "unset" THEN chosen ELSE hook

\* switchTo: optimistic at once, then the call; a choice of what is shown is nothing.
SwitchTo(ws) ==
  /\ call = Idle /\ ws # Shown
  /\ ws \in member \cup {None}
  /\ Move
  /\ chosen' = ws
  /\ call' = At("sent", ws)
  /\ UNCHANGED <<server, hook, making, elsewhere>>

\* The endpoint accepts a workspace the user may work in.
SwitchServed ==
  /\ call.at = "sent" /\ call.org \in member \cup {None}
  /\ active' = call.org
  /\ call' = [call EXCEPT !.at = "served"]
  /\ elsewhere' = FALSE
  /\ UNCHANGED <<exists, member, hook, chosen, making, moves>>

\* The store behind the hook refetches after every organization call that succeeds.
SwitchAnswered ==
  /\ call.at = "served"
  /\ call' = Idle /\ hook' = Loaded
  /\ UNCHANGED <<server, chosen, making, moves, elsewhere>>

\* The call failed: back to what the hook has, also when the server had moved the pointer
\* before the error or the answer was lost.
SwitchRefused ==
  /\ call.at \in {"sent", "served"}
  /\ call' = Idle /\ chosen' = "unset"
  /\ elsewhere' = (elsewhere \/ call.at = "served")
  /\ UNCHANGED <<server, hook, making, moves>>

\* The dialog, or the page of an invitation: joined first, made active second.
\* The library's endpoint may move the pointer already.
Join(org) ==
  /\ making = Idle /\ org \notin exists /\ Move
  /\ exists' = exists \cup {org} /\ member' = member \cup {org}
  /\ active' \in {active, org} /\ hook' = Loaded'
  /\ making' = At("activate", org) /\ elsewhere' = TRUE
  /\ UNCHANGED <<chosen, call>>

\* Leaving or deleting, then setActive(null).
Leave(org, deleted) ==
  /\ making = Idle /\ org \in member /\ hook = org /\ Move
  /\ member' = member \ {org}
  /\ exists' = IF deleted THEN exists \ {org} ELSE exists
  /\ active' \in {active, None} /\ hook' = Loaded'
  /\ making' = At("activate", None) /\ elsewhere' = TRUE
  /\ UNCHANGED <<chosen, call>>

\* The second call, whose failure nobody looks at.
Activate(ok) ==
  /\ making.at = "activate"
  /\ making' = Idle
  /\ IF ok /\ making.org \in member \cup {None}
     THEN active' = making.org /\ hook' = making.org /\ elsewhere' = TRUE
     ELSE UNCHANGED <<active, hook, elsewhere>>
  /\ UNCHANGED <<exists, member, chosen, call, moves>>

\* Another administrator of the organization removes this user from it.
Removed(org) ==
  /\ org \in member /\ Move
  /\ member' = member \ {org}
  /\ UNCHANGED <<exists, active, hook, chosen, call, making, elsewhere>>

Next ==
  \/ \E ws \in Workspace : SwitchTo(ws)
  \/ SwitchServed \/ SwitchAnswered \/ SwitchRefused
  \/ \E org \in Org : Join(org) \/ Removed(org) \/ \E deleted \in BOOLEAN : Leave(org, deleted)
  \/ \E ok \in BOOLEAN : Activate(ok)

Spec == Init /\ [][Next]_vars

-----------------------------------------------------------------------------
(* Every variable stays in its domain.                                       *)
TypeOK ==
  /\ exists \subseteq Org /\ member \subseteq exists
  /\ {active, hook} \subseteq Workspace /\ chosen \in Workspace \cup {"unset"}
  /\ moves \in 0..MaxSwitches /\ elsewhere \in BOOLEAN

(* At rest the header shows the workspace the next write goes to, after a    *)
(* switch that succeeded and after one that failed, as long as nothing but   *)
(* the switcher has moved the pointer since its choice, the error did not    *)
(* come after the pointer moved, and the user has not been removed from the  *)
(* organization the pointer names.                                           *)
HeaderTellsWhereWritesGo ==
  call = Idle /\ making = Idle /\ ~elsewhere /\ active \in member \cup {None} => Shown = active

(* The same of every way to move the pointer, with no exception.             *)
HeaderIsAlwaysRight == call = Idle /\ making = Idle => Shown = active
-----------------------------------------------------------------------------
(* Why the header is right: what every step keeps.                           *)
Bounds == MaxSwitches \in Nat

\* What the hook has is the pointer, until a switch is served and not answered.
HookFollows == ~elsewhere /\ call.at # "served" /\ active \in member \cup {None} => hook = active

\* What is shown first is what was sent, then what was served, then the pointer.
ChoiceFollows ==
  /\ call.at \in {"idle", "sent", "served"}
  /\ call.at # "idle" => chosen = call.org
  /\ call.at = "served" /\ ~elsewhere => active = call.org
  /\ call.at = "idle" /\ ~elsewhere /\ active \in member \cup {None} => chosen \in {"unset", active}

HeaderInv == TypeOK /\ HookFollows /\ ChoiceFollows
=============================================================================

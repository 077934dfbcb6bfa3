--------------------------- MODULE SuppressionList ---------------------------
(***************************************************************************)
(* The do-not-send list: the Resend webhook                                *)
(* (apps/web/src/app/api/resend/webhook/route.ts) records the recipients   *)
(* of an event one by one, answers 500 when a write throws so that Resend  *)
(* delivers the event again, and every send looks its recipient up         *)
(* (packages/db/src/email-suppressions.ts).  An address is a mailbox       *)
(* written in some letter case.                                            *)
(***************************************************************************)
EXTENDS Integers, Sequences, Functions

CONSTANTS
  Mailbox, Case,    \* an address is a mailbox in a letter case
  Lower,            \* the case the list stores
  Event,            \* webhook events
  MaxFaults,        \* bound: failed writes, crashes and throttled deliveries
  NoEvent

Address == [box : Mailbox, case : Case]
Type == {"permanent", "transient", "complaint", "suppressed", "delivered"}

\* trim().toLowerCase()
Normalized(a) == [a EXCEPT !.case = Lower]

VARIABLES
  type, to,     \* type[e], to[e]: the event's kind and its recipients
  due,          \* events Resend has still to deliver or to deliver again
  acked,        \* events answered with 200
  handling, rest,   \* the delivery in hand and the addresses left of it
  rows,         \* email_suppressions: address -> reason, or "none"
  faults

vars == <<type, to, due, acked, handling, rest, rows, faults>>

Init ==
  /\ type \in [Event -> Type]
  /\ to \in [Event -> {<<a, b>> : a, b \in Address}]
  /\ due = Event /\ acked = {}
  /\ handling = NoEvent /\ rest = <<>>
  /\ rows = [a \in Address |-> "none"] /\ faults = 0

\* The verified event: which addresses it suppresses, and why.
Recipients(e) == IF type[e] \in {"permanent", "complaint", "suppressed"} THEN to[e] ELSE <<>>
ReasonOf(e) == CASE type[e] = "complaint"  -> "complaint"
                 [] type[e] = "suppressed" -> "provider"
                 [] OTHER                  -> "bounce"

\* POST, past the rate limit and the signature.
Deliver(e) ==
  /\ handling = NoEvent /\ e \in due
  /\ handling' = e /\ rest' = Recipients(e)
  /\ UNCHANGED <<type, to, due, acked, rows, faults>>

\* 429, or a crash before anything is done: Resend delivers again.
Throttled(e) ==
  /\ handling = NoEvent /\ e \in due /\ faults < MaxFaults
  /\ faults' = faults + 1
  /\ UNCHANGED <<type, to, due, acked, handling, rest, rows>>

\* recordEmailSuppression: an upsert.
Record ==
  /\ rest # <<>>
  /\ rows' = [rows EXCEPT ![Normalized(Head(rest))] = ReasonOf(handling)]
  /\ rest' = Tail(rest)
  /\ UNCHANGED <<type, to, due, acked, handling, faults>>

\* Variation: a failed write is swallowed.
RecordFailsQuietly ==
  /\ rest # <<>> /\ faults < MaxFaults
  /\ rest' = Tail(rest) /\ faults' = faults + 1
  /\ UNCHANGED <<type, to, due, acked, handling, rows>>

\* The write throws, or the process dies: no answer, or a 500.
RecordFails ==
  /\ handling # NoEvent /\ faults < MaxFaults
  /\ handling' = NoEvent /\ rest' = <<>> /\ faults' = faults + 1
  /\ UNCHANGED <<type, to, due, acked, rows>>

\* 200; the answer may be lost, and the event comes once more.
Answer ==
  /\ handling # NoEvent /\ rest = <<>>
  /\ handling' = NoEvent
  /\ acked' = acked \cup {handling}
  /\ \/ due' = due \ {handling} /\ UNCHANGED faults
     \/ faults < MaxFaults /\ faults' = faults + 1 /\ UNCHANGED due
  /\ UNCHANGED <<type, to, rest, rows>>

Next ==
  \/ \E e \in Event : Deliver(e) \/ Throttled(e)
  \/ Record \/ RecordFails \/ Answer

Spec == Init /\ [][Next]_vars

\* isEmailSuppressed
IsSuppressed(a) == rows[Normalized(a)] # "none"

TypeOK ==
  /\ due \subseteq Event /\ acked \subseteq Event
  /\ handling \in Event \cup {NoEvent}
  /\ rows \in [Address -> {"none", "bounce", "complaint", "provider"}]
  /\ faults \in 0 .. MaxFaults

\* Once Resend has been told that an event was received, every one of its
\* recipients is suppressed for the sends that follow, in whatever letter case
\* either side writes the address, and although the loop over the recipients
\* may have stopped at any of them before.
AckedIsSuppressed ==
  \A e \in acked : \A a \in Range(Recipients(e)) :
    \A c \in Case : IsSuppressed([a EXCEPT !.case = c])

\* Nobody is cut off without a hard bounce, a complaint or a refusal of the
\* provider that names the address: a transient bounce never suppresses.
SuppressedForCause ==
  \A a \in Address : IsSuppressed(a) =>
    \E e \in Event : /\ type[e] \in {"permanent", "complaint", "suppressed"}
                     /\ \E b \in Range(to[e]) : b.box = a.box
-----------------------------------------------------------------------------
(* What holds of any number of addresses, events and faults.                 *)

\* What the theorems ask of the constants.
Bounds == Lower \in Case /\ NoEvent \notin Event /\ MaxFaults \in Nat

\* An event names addresses, and what is left of a delivery is some of them.
EventsAreTyped ==
  /\ type \in [Event -> Type] /\ to \in [Event -> Seq(Address)]
  /\ rest \in Seq(Address)

\* The loop over the recipients: nothing is left when nothing is in hand, and
\* each recipient of the event in hand is suppressed or still to be.
LoopLeavesNobody ==
  /\ handling = NoEvent => rest = <<>>
  /\ handling # NoEvent =>
       /\ Range(rest) \subseteq Range(Recipients(handling))
       /\ \A a \in Range(Recipients(handling)) : IsSuppressed(a) \/ a \in Range(rest)

DeliveryInv ==
  TypeOK /\ EventsAreTyped /\ LoopLeavesNobody /\ AckedIsSuppressed /\ SuppressedForCause
=============================================================================

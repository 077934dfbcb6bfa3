--------------------------- MODULE ReminderPromise ---------------------------
(***************************************************************************)
(* What the reminder sweeper promises about each delivery key, whatever    *)
(* the number of workers, crashes and overlapping ticks: a key is held by  *)
(* one sweep at a time, is handed to its delivery queue at most once, and, *)
(* once settled, is never taken up again.  ReminderDispatch implements it. *)
(***************************************************************************)
EXTENDS Naturals

CONSTANT Key      \* delivery keys: a reminder and an instant it is due at

VARIABLES
  stage,          \* stage[k]: "due", "held" by a sweep, or "settled"
  handed          \* handed[k]: how often k was handed over

vars == <<stage, handed>>

Init ==
  /\ stage = [k \in Key |-> "due"]
  /\ handed = [k \in Key |-> 0]

Take(k) ==
  /\ stage[k] = "due"
  /\ stage' = [stage EXCEPT ![k] = "held"]
  /\ UNCHANGED handed

HandOver(k) ==
  /\ stage[k] = "held"
  /\ stage' = [stage EXCEPT ![k] = "settled"]
  /\ handed' = [handed EXCEPT ![k] = @ + 1]

\* The sweep died with the key in hand: the key is lost, not repeated.
Lose(k) ==
  /\ stage[k] = "held"
  /\ stage' = [stage EXCEPT ![k] = "settled"]
  /\ UNCHANGED handed

\* The hand-over failed and was undone: a later sweep may take the key up.
Release(k) ==
  /\ stage[k] = "held"
  /\ stage' = [stage EXCEPT ![k] = "due"]
  /\ UNCHANGED handed

\* The reminder is deleted: none of its keys will be taken up any more.
Withdraw(K) ==
  /\ \A k \in K : stage[k] = "due"
  /\ stage' = [k \in Key |-> IF k \in K THEN "settled" ELSE stage[k]]
  /\ UNCHANGED handed

Next ==
  \/ \E k \in Key : Take(k) \/ HandOver(k) \/ Lose(k) \/ Release(k)
  \/ \E K \in SUBSET Key : Withdraw(K)

Spec == Init /\ [][Next]_vars
=============================================================================

----------------------------- MODULE JobPromise -----------------------------
(***************************************************************************)
(* What the background queue promises about a job it accepted: in the end  *)
(* it is done, or reported to an operator, and neither is ever taken back; *)
(* a job it accepted before it knew where to report may be lost.           *)
(***************************************************************************)
CONSTANT Job

VARIABLE fate       \* fate[j]: "unasked", "queued", "done", "reported" or "lost"

Init == fate = [j \in Job |-> "unasked"]

Moves == {<<"unasked", "queued">>, <<"queued", "done">>,
          <<"queued", "reported">>, <<"queued", "lost">>}

Decide(j, from, to) ==
  /\ <<from, to>> \in Moves
  /\ fate[j] = from
  /\ fate' = [fate EXCEPT ![j] = to]

Next == \E j \in Job : \E move \in Moves : Decide(j, move[1], move[2])

Spec == Init /\ [][Next]_fate
=============================================================================

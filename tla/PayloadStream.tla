---------------------------- MODULE PayloadStream ----------------------------
(* What Parser::parse promises its callers: however the bytes of a file arrive, *)
(* the payloads come out one by one in the order in which parse_all yields them *)
(* for the whole file, and the parse ends the way parse_all ends.              *)
EXTENDS Integers, Sequences

VARIABLES
  plan,      \* what parse_all yields: the payloads and whether it ends well
  seen,      \* how many of them were handed out
  last,      \* the latest of them
  outcome    \* "idle", "running", "done" or "error"

Init == seen = 0 /\ last = <<>> /\ outcome = "idle"

\* The next file, whatever it is.
Start ==
  /\ outcome \in {"idle", "done"}
  /\ seen' = 0 /\ last' = <<>> /\ outcome' = "running"

\* The next payload.
Yield ==
  /\ outcome = "running" /\ seen < Len(plan.payloads)
  /\ seen' = seen + 1
  /\ last' = <<plan.payloads[seen + 1]>>
  /\ outcome' = IF seen' = Len(plan.payloads) /\ plan.ok THEN "done" ELSE "running"
  /\ UNCHANGED plan

\* The error behind the last payload.
Refuse ==
  /\ outcome = "running" /\ seen = Len(plan.payloads) /\ ~plan.ok
  /\ outcome' = "error"
  /\ UNCHANGED <<plan, seen, last>>

Next == Start \/ Yield \/ Refuse

Spec == Init /\ [][Next]_<<plan, seen, last, outcome>>
=============================================================================

----------------------------- MODULE FencedCase -----------------------------
(***************************************************************************)
(* What attempt fencing promises about one commercial decision, without    *)
(* workers, jobs, heartbeats or clocks: a case has a current reasoning     *)
(* attempt, only that attempt may publish a position, and a published      *)
(* position is never replaced while the case stays completed.              *)
(* JobLifecycle is shown to implement this specification.                  *)
(***************************************************************************)
EXTENDS Naturals

VARIABLES
  status,    \* commercial_decisions.status, or "absent" before the INSERT
  attempt,   \* the number of attempt ids issued; the last one is current
  position   \* commercial_position, identified by its attempt and its run

caseVars == <<status, attempt, position>>

Status == {"absent", "classifying", "awaiting_user_input", "reasoning",
           "completed", "provider_unavailable"}

Position == [attempt : Nat, run : Nat]

\* The NULL commercial_position: no real attempt has number 0.
NoPosition == [attempt |-> 0, run |-> 0]

-----------------------------------------------------------------------------
Init ==
  /\ status = "absent"
  /\ attempt = 0
  /\ position = NoPosition

\* The case is inserted, to be classified.
Open ==
  /\ status = "absent"
  /\ status' = "classifying"
  /\ UNCHANGED <<attempt, position>>

\* A new attempt takes the case over: every earlier one is superseded.
Supersede ==
  /\ attempt' = attempt + 1
  /\ status' = "reasoning"
  /\ UNCHANGED position

\* The current attempt publishes; a completed case keeps what it has.
Publish ==
  /\ attempt > 0
  /\ status # "completed"
  /\ status' = "completed"
  /\ position' \in Position
  /\ position'.attempt = attempt
  /\ UNCHANGED attempt

\* The case is given back to its user: to answer, or to retry.
HandBack ==
  /\ status # "absent"
  /\ status' \in {"awaiting_user_input", "provider_unavailable"}
  /\ UNCHANGED <<attempt, position>>

Next == Open \/ Supersede \/ Publish \/ HandBack

Spec == Init /\ [][Next]_caseVars
=============================================================================

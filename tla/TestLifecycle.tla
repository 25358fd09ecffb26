---------------------------- MODULE TestLifecycle ----------------------------
(***************************************************************************)
(* What the harness promises about one test, whoever runs it: cleanups     *)
(* start when the body has ended or has been given up, the verdict comes   *)
(* after the cleanups have ended or have been given up, and it says what   *)
(* happened.                                                               *)
(***************************************************************************)
EXTENDS Verdict

VARIABLES
  stage,    \* "new", "body", "cleanup" or "settled"
  ended,    \* during the cleanups, the status of the body ("timeout" if it was
            \* given up)
  verdict   \* the status reported

vars == <<stage, ended, verdict>>

Init ==
  /\ stage = "new"
  /\ ended = NoStatus
  /\ verdict = NoStatus

Start ==
  /\ stage = "new"
  /\ stage' = "body"
  /\ UNCHANGED <<ended, verdict>>

EndBody ==
  /\ stage = "body"
  /\ stage' = "cleanup"
  /\ ended' \in Status
  /\ UNCHANGED verdict

\* A passed body may turn out failed, a failed one may have run out of time;
\* a skipped or abandoned one is reported as such.
Outcomes(s) ==
  CASE s = "passed" -> {"passed", "failed"}
    [] s = "failed" -> {"failed", "timeout"}
    [] OTHER -> {s}

Decide ==
  /\ stage = "cleanup"
  /\ stage' = "settled"
  /\ verdict' \in Outcomes(ended)
  /\ ended' = NoStatus

Next == Start \/ EndBody \/ Decide

Spec == Init /\ [][Next]_vars
=============================================================================

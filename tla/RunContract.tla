----------------------------- MODULE RunContract -----------------------------
(***************************************************************************)
(* What a caller of Runner.Run may rely on, without workers, queues or     *)
(* timers: every test gets at most one verdict, Run() reports only         *)
(* verdicts, and if it reports fewer than all of them then either the      *)
(* caller canceled the run or Run() also returns an error.                 *)
(***************************************************************************)
EXTENDS Verdict

CONSTANT Test

VARIABLES
  verdict,     \* the status of each test, or NoStatus
  reason,      \* why the run broke down, "none" if it did not
  interrupted, \* the caller canceled the run
  report       \* "pending", or the verdicts and the error Run() returned

vars == <<verdict, reason, interrupted, report>>

Decided == {i \in Test : verdict[i] # NoStatus}

Init ==
  /\ verdict = [i \in Test |-> NoStatus]
  /\ reason = "none"
  /\ interrupted = FALSE
  /\ report = [state |-> "pending"]

\* A test ends; this can happen even after Run() has returned.
Decide(i) ==
  /\ verdict[i] = NoStatus
  /\ \E s \in Status : verdict' = [verdict EXCEPT ![i] = s]
  /\ UNCHANGED <<reason, interrupted, report>>

\* The run breaks down.  Only the first reason is kept.
Break ==
  /\ reason = "none"
  /\ reason' \in {"leak", "stall"}
  /\ UNCHANGED <<verdict, interrupted, report>>

Interrupt ==
  /\ ~interrupted
  /\ interrupted' = TRUE
  /\ UNCHANGED <<verdict, reason, report>>

\* The tests of the report are fixed first, the error is added later.
Gather ==
  /\ report.state = "pending"
  /\ Decided = Test \/ reason # "none" \/ interrupted
  /\ report' = [state |-> "gathered", tests |-> Decided]
  /\ UNCHANGED <<verdict, reason, interrupted>>

Return ==
  /\ report.state = "gathered"
  /\ report' = [state |-> "returned", tests |-> report.tests, error |-> reason]
  /\ UNCHANGED <<verdict, reason, interrupted>>

Next == (\E i \in Test : Decide(i)) \/ Break \/ Interrupt \/ Gather \/ Return

Spec == Init /\ [][Next]_vars
=============================================================================

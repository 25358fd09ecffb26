------------------------------- MODULE Verdict -------------------------------
(***************************************************************************)
(* How the harness turns the way a test ended into the status it reports.  *)
(* These are pure functions: invoke() maps the way a body ended to a       *)
(* status, and the switch at the end of runOne() settles the status once   *)
(* the cleanups are over.                                                  *)
(***************************************************************************)

\* The statuses the runner itself assigns.  xfail and xpass are assigned
\* later, by KnownFailures.Classify.
Status == {"passed", "failed", "skipped", "timeout"}

\* The value of a status variable that is not assigned yet.
NoStatus == "none"

\* How a test body leaves invoke(): a plain return, the panic of Fatalf, the
\* panic of Skipf, or any other panic.
Ending == {"return", "failNow", "skipNow", "panic"}

\* Fatalf calls Errorf before it panics and the recover() of invoke() calls
\* Errorf for a foreign panic: both leave the test marked failed.
MarksFailed(ending) == ending \in {"failNow", "panic"}

\* The status invoke() sends.  Failed() is read only on a plain return.
Invoke(ending, failed) ==
  CASE ending = "skipNow" -> "skipped"
    [] MarksFailed(ending) -> "failed"
    [] OTHER -> IF failed THEN "failed" ELSE "passed"

\* Variants of Settle: whatever is not skipped is late once the context is done;
\* a test marked failed is failed, even if its body had ended in Skipf.
SettleLate(abandoned, status, ctxDone, failed) ==
  CASE abandoned -> "timeout"
    [] ~abandoned /\ status # "skipped" /\ ctxDone -> "timeout"
    [] ~abandoned /\ status = "passed" /\ ~ctxDone /\ failed -> "failed"
    [] OTHER -> status

SettleFailed(abandoned, status, ctxDone, failed) ==
  CASE abandoned -> "timeout"
    [] ~abandoned /\ status = "failed" /\ ctxDone -> "timeout"
    [] ~abandoned /\ status # "failed" /\ failed -> "failed"
    [] OTHER -> status

\* The switch of runOne(), evaluated after the cleanups: abandoned is the
\* second result of runBody(), ctxDone is ctx.Err() != nil, failed is
\* t.Failed().
Settle(abandoned, status, ctxDone, failed) ==
  CASE abandoned -> "timeout"
    [] ~abandoned /\ status = "failed" /\ ctxDone -> "timeout"
    [] ~abandoned /\ status = "passed" /\ failed -> "failed"
    [] OTHER -> status
=============================================================================

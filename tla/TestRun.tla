------------------------------- MODULE TestRun -------------------------------
(***************************************************************************)
(* One call of runOne(): the worker, the goroutine of the test body, the   *)
(* goroutine of its cleanups, and the T they share.  runBody() gives the   *)
(* body up when the watchdog fires and runCleanups() gives the cleanups up *)
(* when their timer fires; what was given up keeps running beside the      *)
(* worker, and keeps its T.                                                *)
(*                                                                         *)
(* The deadline of the context, the watchdog and the cleanup timer are     *)
(* events: the watchdog comes after the deadline, the cleanup timer after  *)
(* the cleanups were started.  Cleanups are numbered as they register.     *)
(***************************************************************************)
EXTENDS Integers, Sequences, Verdict

CONSTANTS
  HasTimeout,        \* Runner.Timeout > 0
  HasCleanupTimeout, \* Runner.CleanupTimeout > 0
  MaxCleanups        \* bounds the number of registered cleanups

ASSUME TestRunAssumption ==
  /\ HasTimeout \in BOOLEAN
  /\ HasCleanupTimeout \in BOOLEAN
  /\ MaxCleanups \in Nat

VARIABLES
  wpc,         \* the worker: "start", "body", "give up", "cleanup", "settle", "done"
  bpc,         \* the body goroutine: "off", "running", "recover" or "ended"
  ending,      \* how the body left, while invoke() recovers
  sent,        \* the status in the channel of runBody, or NoStatus
  abandoned,   \* the watchdog has fired
  failed,      \* T.failed
  skipMsg,     \* T.skipMsg is set
  cleanups,    \* T.cleanups
  count,       \* how many cleanups were registered so far
  cpc,         \* the cleanup goroutine: "off", "next", "running" or "ended"
  fns,         \* the cleanups it has taken and not run yet
  ran,         \* the cleanups it has begun, in order
  ctx,         \* the test's context: "live", or "done" when its deadline has
               \* passed or the run is canceled
  status,      \* the status runOne holds
  result       \* the Result: its status and whether it has a skip reason

workerVars == <<wpc, abandoned, status, result>>
bodyVars == <<bpc, ending, sent>>
cleanerVars == <<cpc, fns, ran>>
tVars == <<failed, skipMsg, cleanups, count>>
vars == <<workerVars, bodyVars, cleanerVars, tVars, ctx>>

NoResult == [status |-> NoStatus, skip |-> FALSE]

CleanupSeq == Seq(1..MaxCleanups)

WorkerType ==
  /\ wpc \in {"start", "body", "give up", "cleanup", "settle", "done"}
  /\ abandoned \in BOOLEAN
  /\ status \in Status \cup {NoStatus}
  /\ result \in [status : Status \cup {NoStatus}, skip : BOOLEAN]

BodyType ==
  /\ bpc \in {"off", "running", "recover", "ended"}
  /\ ending \in Ending
  /\ sent \in Status \cup {NoStatus}

CleanerType ==
  /\ cpc \in {"off", "next", "running", "ended"}
  /\ fns \in CleanupSeq
  /\ ran \in CleanupSeq

TType ==
  /\ failed \in BOOLEAN
  /\ skipMsg \in BOOLEAN
  /\ cleanups \in CleanupSeq
  /\ count \in 0..MaxCleanups

ContextType == ctx \in {"live", "done"}

TypeOK == WorkerType /\ BodyType /\ CleanerType /\ TType /\ ContextType

Init ==
  /\ wpc = "start"
  /\ bpc = "off"
  /\ ending = "return"
  /\ sent = NoStatus
  /\ abandoned = FALSE
  /\ failed = FALSE
  /\ skipMsg = FALSE
  /\ cleanups = <<>>
  /\ count = 0
  /\ cpc = "off"
  /\ fns = <<>>
  /\ ran = <<>>
  /\ ctx = "live"
  /\ status = NoStatus
  /\ result = NoResult

-----------------------------------------------------------------------------
(* T, as the body and the cleanups call it.                                *)

Errorf == failed' = TRUE /\ UNCHANGED <<skipMsg, cleanups, count>>

Cleanup ==
  /\ count < MaxCleanups
  /\ count' = count + 1
  /\ cleanups' = Append(cleanups, count + 1)
  /\ UNCHANGED <<failed, skipMsg>>

-----------------------------------------------------------------------------
(* The body goroutine.                                                     *)

BodyCallsT ==
  /\ bpc = "running"
  /\ Errorf \/ Cleanup
  /\ UNCHANGED <<workerVars, bodyVars, cleanerVars, ctx>>

\* The body returns or panics.  Fatalf marks T failed and Skipf sets skipMsg
\* before they panic; a foreign panic marks T failed in the recover().
BodyLeaves ==
  /\ bpc = "running"
  /\ ending' \in Ending
  /\ bpc' = "recover"
  /\ failed' = (failed \/ MarksFailed(ending'))
  /\ skipMsg' = (skipMsg \/ ending' = "skipNow")
  /\ UNCHANGED <<workerVars, sent, cleanerVars, cleanups, count, ctx>>

\* A goroutine the body started uses T after the body has left, which the
\* locked methods of T allow.
BodyChildCallsT ==
  /\ bpc \in {"recover", "ended"}
  /\ Errorf \/ Cleanup
  /\ UNCHANGED <<workerVars, bodyVars, cleanerVars, ctx>>

\* The deferred function of invoke() reads Failed() and the status is sent;
\* the channel has room for it even if the worker is gone.
Recover ==
  /\ bpc = "recover"
  /\ sent' = Invoke(ending, failed)
  /\ bpc' = "ended"
  /\ UNCHANGED <<workerVars, ending, cleanerVars, tVars, ctx>>

-----------------------------------------------------------------------------
(* The worker.                                                             *)

StartBody ==
  /\ wpc = "start"
  /\ wpc' = "body"
  /\ bpc' = "running"
  /\ UNCHANGED <<abandoned, status, result, ending, sent, cleanerVars, tVars, ctx>>

\* The select of runBody receives the status, or runBody called invoke()
\* itself because there is no timeout; then the cleanups start.
ReceiveStatus ==
  /\ wpc = "body"
  /\ sent # NoStatus
  /\ status' = sent
  /\ wpc' = "cleanup"
  /\ cpc' = "next"
  /\ fns' = cleanups
  /\ cleanups' = <<>>
  /\ UNCHANGED <<abandoned, result, bodyVars, ran, failed, skipMsg, count, ctx>>

\* A variant of Watchdog: an abandoned body has no status.
WatchdogWithoutStatus ==
  /\ HasTimeout
  /\ wpc = "body"
  /\ ctx = "done"
  /\ wpc' = "give up"
  /\ abandoned' = TRUE
  /\ status' = ""
  /\ Errorf
  /\ UNCHANGED <<result, bodyVars, cleanerVars, ctx>>

\* The select of runBody receives from the timer, perhaps although a status
\* has arrived too.  Past the deadline, so the context is done.
Watchdog ==
  /\ HasTimeout
  /\ wpc = "body"
  /\ ctx = "done"
  /\ wpc' = "give up"
  /\ abandoned' = TRUE
  /\ status' = "timeout"
  /\ Errorf
  /\ UNCHANGED <<result, bodyVars, cleanerVars, ctx>>

\* t.runCleanups takes the cleanups registered so far, once.
TakeCleanups ==
  /\ wpc = "give up"
  /\ wpc' = "cleanup"
  /\ cpc' = "next"
  /\ fns' = cleanups
  /\ cleanups' = <<>>
  /\ UNCHANGED <<abandoned, status, result, bodyVars, ran, failed, skipMsg, count, ctx>>

CleanupsDone ==
  /\ wpc = "cleanup"
  /\ cpc = "ended"
  /\ wpc' = "settle"
  /\ UNCHANGED <<abandoned, status, result, bodyVars, cleanerVars, tVars, ctx>>

\* Variants of CleanupTimer: one that does not mark the test failed, one that
\* bounds the cleanups only if the body has returned.
CleanupTimerSilent ==
  /\ HasCleanupTimeout
  /\ wpc = "cleanup"
  /\ wpc' = "settle"
  /\ UNCHANGED <<abandoned, status, result, bodyVars, cleanerVars, tVars, ctx>>

CleanupTimerAfterBody ==
  /\ HasCleanupTimeout
  /\ wpc = "cleanup"
  /\ bpc = "ended"
  /\ wpc' = "settle"
  /\ Errorf
  /\ UNCHANGED <<abandoned, status, result, bodyVars, cleanerVars, ctx>>

CleanupTimer ==
  /\ HasCleanupTimeout
  /\ wpc = "cleanup"
  /\ wpc' = "settle"
  /\ Errorf
  /\ UNCHANGED <<abandoned, status, result, bodyVars, cleanerVars, ctx>>

\* The switch of runOne and the Result.  t.skipMsg is read without the lock.
SettleResult ==
  /\ wpc = "settle"
  /\ wpc' = "done"
  /\ status' = Settle(abandoned, status, ctx = "done", failed)
  /\ result' = [status |-> status', skip |-> skipMsg]
  /\ UNCHANGED <<abandoned, bodyVars, cleanerVars, tVars, ctx>>

-----------------------------------------------------------------------------
(* The cleanup goroutine.                                                  *)

\* A variant of StartCleanup: the cleanups run in the order of registration.
StartFirstCleanup ==
  /\ cpc = "next"
  /\ fns # <<>>
  /\ ran' = Append(ran, Head(fns))
  /\ fns' = Tail(fns)
  /\ cpc' = "running"
  /\ UNCHANGED <<workerVars, bodyVars, tVars, ctx>>

StartCleanup ==
  /\ cpc = "next"
  /\ fns # <<>>
  /\ ran' = Append(ran, fns[Len(fns)])
  /\ fns' = SubSeq(fns, 1, Len(fns) - 1)
  /\ cpc' = "running"
  /\ UNCHANGED <<workerVars, bodyVars, tVars, ctx>>

CleanupCallsT ==
  /\ cpc = "running"
  /\ Errorf \/ Cleanup
  /\ UNCHANGED <<workerVars, bodyVars, cleanerVars, ctx>>

\* A variant of EndCleanup: one recover() around all cleanups.
EndAllCleanups ==
  /\ cpc = "running"
  /\ \E how \in Ending :
       /\ cpc' = IF how = "return" THEN "next" ELSE "ended"
       /\ fns' = IF how = "return" THEN fns ELSE <<>>
       /\ failed' = (failed \/ how # "return")
       /\ skipMsg' = (skipMsg \/ how = "skipNow")
  /\ UNCHANGED <<workerVars, bodyVars, ran, cleanups, count, ctx>>

\* The cleanup returns, or panics and is recovered: Fatalf and Skipf are panics
\* too, and Skipf has set skipMsg.
EndCleanup ==
  /\ cpc = "running"
  /\ cpc' = "next"
  /\ \E how \in Ending :
       /\ failed' = (failed \/ how # "return")
       /\ skipMsg' = (skipMsg \/ how = "skipNow")
  /\ UNCHANGED <<workerVars, bodyVars, fns, ran, cleanups, count, ctx>>

CleanerEnds ==
  /\ cpc = "next"
  /\ fns = <<>>
  /\ cpc' = "ended"
  /\ UNCHANGED <<workerVars, bodyVars, fns, ran, tVars, ctx>>

-----------------------------------------------------------------------------
\* The deadline passes, or the run is canceled; without a timeout only the
\* latter happens.
ContextEnds ==
  /\ ctx = "live"
  /\ wpc # "done"
  /\ ctx' = "done"
  /\ UNCHANGED <<workerVars, bodyVars, cleanerVars, tVars>>

Worker == \/ StartBody \/ ReceiveStatus \/ Watchdog \/ TakeCleanups
          \/ CleanupsDone \/ CleanupTimer \/ SettleResult
Body == BodyCallsT \/ BodyLeaves \/ BodyChildCallsT \/ Recover
Cleaner == StartCleanup \/ CleanupCallsT \/ EndCleanup \/ CleanerEnds

Next == Worker \/ Body \/ Cleaner \/ ContextEnds

Spec == Init /\ [][Next]_vars

\* The Go scheduler runs the worker, and the timers it waits for fire.  The
\* deadline passes if there is one.  Nothing is assumed of the body or of the
\* cleanups.
Fairness ==
  /\ WF_vars(Worker)
  /\ WF_vars(HasTimeout /\ ContextEnds)

FairSpec == Spec /\ Fairness

\* Every cleanup returns or panics, and the next one is started.
CleanupsReturn == WF_vars(StartCleanup) /\ WF_vars(EndCleanup)

-----------------------------------------------------------------------------
(* Safety.                                                                 *)

\* A passed verdict hides nothing: the body returned by itself, every cleanup
\* it had registered was begun, and the last one has ended.  In particular a
\* hung or abandoned cleanup never ends up in a passed test, in whatever order
\* body, watchdog, cleanups and timer came (runOne, runBody, runCleanups).
PassMeansClean ==
  result.status = "passed" =>
    /\ bpc = "ended" /\ ending = "return"
    /\ cpc = "ended" /\ fns = <<>>
    /\ ~abandoned

\* Cleanups run in the reverse order of their registration and none runs
\* twice, also beside a body that was given up and registers more of them
\* (T.Cleanup, T.runCleanups).
CleanupsReversed == \A m, n \in 1..Len(ran) : m < n => ran[m] > ran[n]

\* How far the test is, as its lifecycle has it.
Stage ==
  CASE wpc = "start" -> "new"
    [] wpc \in {"body", "give up"} -> "body"
    [] wpc \in {"cleanup", "settle"} -> "cleanup"
    [] OTHER -> "settled"
Ended == IF wpc \in {"cleanup", "settle"} THEN status ELSE NoStatus

Lifecycle == INSTANCE TestLifecycle WITH
  stage <- Stage, ended <- Ended, verdict <- result.status

\* The worker, the goroutines it started and the ones it gave up together do
\* what is promised for one test (runOne).
KeepsLifecycle == Lifecycle!Spec

-----------------------------------------------------------------------------
(* Liveness.                                                               *)

\* With both bounds set, runOne returns even if the body and the cleanups
\* hang (Runner: "Every wait it performs is bounded").
RunOneReturns == HasTimeout /\ HasCleanupTimeout => <>(wpc = "done")

Has(seq, k) == \E n \in 1..Len(seq) : seq[n] = k

\* A cleanup registered before the cleanups are taken is run, even if its
\* test was abandoned, an earlier cleanup panicked or the worker has gone on
\* (T.runCleanups: "one panicking cleanup must not strand the rest").
RegisteredCleanupsRun ==
  CleanupsReturn =>
    \A k \in 1..MaxCleanups :
      HasTimeout /\ cpc = "off" /\ Has(cleanups, k) ~> Has(ran, k)
=============================================================================

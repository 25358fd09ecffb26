------------------------------ MODULE Scheduler ------------------------------
(***************************************************************************)
(* Runner.Run and its scheduler: a serial phase with one worker, then a    *)
(* parallel phase with a pool, each fed through an unbuffered channel; a   *)
(* watchdog per test body and a deadline per cleanup, both of which leave  *)
(* the overdue goroutine behind; a counter of reported timeouts; a stall   *)
(* watcher that fails and cancels the run; interrupts that cancel it.      *)
(*                                                                         *)
(* Time is discrete.  Tick is enabled only when no goroutine of the        *)
(* harness has anything to do, so the harness's own steps take no time;    *)
(* what takes time is test bodies and cleanups, which may also never end.  *)
(***************************************************************************)
EXTENDS Integers, FiniteSets, Verdict

CONSTANTS
  NTests,          \* len(tests); a test is its index in the input
  Serial,          \* the indexes of the tests with the serial marker
  Parallel,        \* Runner.Parallel
  Timeout,         \* Runner.Timeout, 0 for no bound
  Grace,           \* what Runner.grace() returns
  CleanupTimeout,  \* Runner.CleanupTimeout, 0 for no bound
  StallTimeout,    \* Runner.StallTimeout, 0 to disable the watcher
  MaxInterval,     \* the 30s of watchStall
  MaxLeaked        \* Runner.MaxLeaked, 0 to disable the check

Test == 1..NTests

ASSUME SchedulerAssumption ==
  /\ NTests \in Nat
  /\ Serial \subseteq Test
  /\ Parallel \in Nat
  /\ Timeout \in Nat
  /\ Grace \in Nat \ {0}
  /\ CleanupTimeout \in Nat
  /\ StallTimeout \in Nat
  /\ MaxInterval \in Nat \ {0}
  /\ MaxLeaked \in Nat

\* Goroutine 0 is the worker of the serial phase, the others are the pool.
PoolSize == IF Parallel < 1 THEN 1 ELSE Parallel
Worker == 0..PoolSize
NoTest == 0

Interval == IF MaxInterval < StallTimeout THEN MaxInterval ELSE StallTimeout
BodyBound == IF Timeout > 0 THEN Timeout + Grace ELSE 0

VARIABLES
  pc,          \* where Run() is: "enter" a phase, "feed", "wait", ...
  phase,       \* the phase runIndexes is called for
  rest,        \* tests of the phase that no worker has received yet
  wpc,         \* the worker goroutines: "off", "recv", "busy" or "gone"
  job,         \* the test a busy worker runs
  stage,       \* how far a test is
  status,      \* its status, as far as it is known
  abandoned,   \* tests given up by their watchdog
  liveBody,    \* tests whose body goroutine is executing
  liveCleanup, \* tests whose cleanup goroutine is executing
  deadline,    \* ticks left until the test's context expires
  timer,       \* ticks left of the watchdog, or of the cleanup timer
  idle,        \* ticks since progress was stored
  watcher,     \* the stall watcher: "off", "on", "failing" or "gone"
  ticker,      \* ticks left until the watcher looks
  leaked,      \* scheduler.leaked
  err,         \* scheduler.err
  canceled,    \* ctx.Err() != nil for the context of the run
  interrupted, \* the caller canceled its context
  out,         \* what collect() returned
  retErr       \* the error Run() returned

runVars == <<pc, phase, rest, out, retErr>>
poolVars == <<wpc, job>>
testVars == <<stage, status, abandoned, liveBody, liveCleanup>>
timeVars == <<deadline, timer, idle, ticker>>
breakVars == <<watcher, leaked, err, canceled, interrupted>>
vars == <<runVars, poolVars, testVars, timeVars, breakVars>>

InFlight == {"body", "cleanup", "settled"}

TypeOK ==
  /\ pc \in {"enter", "feed", "wait", "collect", "return", "returned"}
  /\ phase \in {"serial", "parallel"}
  /\ rest \subseteq Test
  /\ wpc \in [Worker -> {"off", "recv", "busy", "gone"}]
  /\ job \in [Worker -> Test \cup {NoTest}]
  /\ stage \in [Test -> InFlight \cup {"new", "done"}]
  /\ status \in [Test -> Status \cup {NoStatus}]
  /\ abandoned \subseteq Test
  /\ liveBody \subseteq Test
  /\ liveCleanup \subseteq Test
  /\ deadline \in [Test -> Nat]
  /\ timer \in [Test -> Nat]
  /\ idle \in Nat
  /\ watcher \in {"off", "on", "failing", "gone"}
  /\ ticker \in Nat
  /\ leaked \in Nat
  /\ err \in {"none", "leak", "stall"}
  /\ canceled \in BOOLEAN
  /\ interrupted \in BOOLEAN
  /\ out \subseteq Test
  /\ retErr \in {"none", "leak", "stall"}

Init ==
  /\ pc = "enter"
  /\ phase = "serial"
  /\ rest = {}
  /\ wpc = [w \in Worker |-> "off"]
  /\ job = [w \in Worker |-> NoTest]
  /\ stage = [i \in Test |-> "new"]
  /\ status = [i \in Test |-> NoStatus]
  /\ abandoned = {}
  /\ liveBody = {}
  /\ liveCleanup = {}
  /\ deadline = [i \in Test |-> 0]
  /\ timer = [i \in Test |-> 0]
  /\ idle = 0
  /\ watcher = IF StallTimeout > 0 THEN "on" ELSE "off"
  /\ ticker = Interval
  /\ leaked = 0
  /\ err = "none"
  /\ canceled = FALSE
  /\ interrupted = FALSE
  /\ out = {}
  /\ retErr = "none"

-----------------------------------------------------------------------------
(* The goroutine of Run().                                                 *)

Indexes(p) == IF p = "serial" THEN Serial ELSE Test \ Serial

\* runIndexes never starts more workers than there are tests.
Pool(p) ==
  IF p = "serial" THEN {0}
  ELSE {w \in 1..PoolSize : w <= Cardinality(Indexes(p))}

\* runIndexes(p) has returned.
Leave ==
  /\ pc' = IF phase = "serial" THEN "enter" ELSE "collect"
  /\ phase' = "parallel"

\* Only the parallel phase is guarded by ctx.Err() == nil.
EnterPhase ==
  /\ pc = "enter"
  /\ phase = "serial" \/ ~canceled
  /\ IF Indexes(phase) = {}
     THEN Leave /\ UNCHANGED <<rest, wpc>>
     ELSE /\ pc' = "feed"
          /\ rest' = Indexes(phase)
          /\ wpc' = [w \in Worker |-> IF w \in Pool(phase) THEN "recv" ELSE wpc[w]]
          /\ UNCHANGED phase
  /\ UNCHANGED <<out, retErr, job, testVars, timeVars, breakVars>>

SkipParallel ==
  /\ pc = "enter"
  /\ phase = "parallel"
  /\ canceled
  /\ pc' = "collect"
  /\ UNCHANGED <<phase, rest, out, retErr, poolVars, testVars, timeVars, breakVars>>

IsNext(i) == i \in rest /\ \A j \in rest : i <= j

\* The rendezvous of queue <- i with a worker's receive.  It competes with
\* ctx.Done() in the select, and may win after the context is canceled.
Feed(w) ==
  /\ pc = "feed"
  /\ w \in Pool(phase)
  /\ wpc[w] = "recv"
  /\ \E i \in rest :
       /\ IsNext(i)
       /\ rest' = rest \ {i}
       /\ job' = [job EXCEPT ![w] = i]
       /\ stage' = [stage EXCEPT ![i] = "body"]
       /\ deadline' = [deadline EXCEPT ![i] = Timeout]
       /\ timer' = [timer EXCEPT ![i] = BodyBound]
       /\ liveBody' = liveBody \cup {i}
  /\ wpc' = [wpc EXCEPT ![w] = "busy"]
  /\ UNCHANGED <<pc, phase, out, retErr, status, abandoned,
                 liveCleanup, idle, ticker, breakVars>>

CloseQueue ==
  /\ pc = "feed"
  /\ rest = {} \/ canceled
  /\ pc' = "wait"
  /\ UNCHANGED <<phase, rest, out, retErr, poolVars, testVars, timeVars, breakVars>>

PoolGone == \A w \in Pool(phase) : wpc[w] = "gone"

\* A variant of Wait: it only closes the queue.
WaitForNothing ==
  /\ pc = "wait"
  /\ Leave
  /\ UNCHANGED <<rest, out, retErr, poolVars, testVars, timeVars, breakVars>>

\* The final select of runIndexes: all workers done, or ctx.Done().
Wait ==
  /\ pc = "wait"
  /\ PoolGone \/ canceled
  /\ Leave
  /\ UNCHANGED <<rest, out, retErr, poolVars, testVars, timeVars, breakVars>>

\* A variant of Collect: results that are not recorded yet are taken along.
CollectEarly ==
  /\ pc = "collect"
  /\ out' = {i \in Test : stage[i] \in {"settled", "done"}}
  /\ pc' = "return"
  /\ UNCHANGED <<phase, rest, retErr, poolVars, testVars, timeVars, breakVars>>

\* collect(), under the lock.
Collect ==
  /\ pc = "collect"
  /\ out' = {i \in Test : stage[i] = "done"}
  /\ pc' = "return"
  /\ UNCHANGED <<phase, rest, retErr, poolVars, testVars, timeVars, breakVars>>

\* s.err is read without synchronisation after collect() returned; then the
\* deferred calls stop the watcher and cancel the context.
Return ==
  /\ pc = "return"
  /\ retErr' = err
  /\ canceled' = TRUE
  /\ pc' = "returned"
  /\ UNCHANGED <<phase, rest, out, poolVars, testVars, timeVars, watcher,
                 leaked, err, interrupted>>

RunStep == EnterPhase \/ SkipParallel \/ CloseQueue \/ Wait \/ Collect \/ Return

-----------------------------------------------------------------------------
(* The worker goroutines: runOne() and finish().                           *)

\* A variant of Fail: a run that is canceled records nothing.
FailUnlessCanceled(e) == err' = IF err = "none" /\ ~canceled THEN e ELSE err

\* fail() keeps the first error.
Fail(e) == err' = IF err = "none" THEN e ELSE err

\* The tests worker w is running, if any.
Job(w) == {i \in Test : wpc[w] = "busy" /\ job[w] = i}

\* A variant of Exit: a busy worker drops its test when the run is canceled.
ExitBusy(w) ==
  /\ wpc[w] = "recv" \/ (wpc[w] = "busy" /\ canceled)
  /\ pc # "feed" \/ w \notin Pool(phase)
  /\ wpc' = [wpc EXCEPT ![w] = "gone"]
  /\ UNCHANGED <<runVars, job, testVars, timeVars, breakVars>>

Exit(w) ==
  /\ wpc[w] = "recv"
  /\ pc # "feed" \/ w \notin Pool(phase)
  /\ wpc' = [wpc EXCEPT ![w] = "gone"]
  /\ UNCHANGED <<runVars, job, testVars, timeVars, breakVars>>

\* A variant of StartCleanup: the cleanups get the grace period as well.
StartCleanupWithGrace(i) ==
  /\ stage' = [stage EXCEPT ![i] = "cleanup"]
  /\ timer' = [timer EXCEPT ![i] = CleanupTimeout + Grace]
  /\ liveCleanup' = liveCleanup \cup {i}

StartCleanup(i) ==
  /\ stage' = [stage EXCEPT ![i] = "cleanup"]
  /\ timer' = [timer EXCEPT ![i] = CleanupTimeout]
  /\ liveCleanup' = liveCleanup \cup {i}

\* invoke() returns in time.  marked: the body had called Errorf.
BodyEnds(w) ==
  /\ \E i \in Job(w), ending \in Ending, marked \in BOOLEAN :
       /\ stage[i] = "body"
       /\ status' = [status EXCEPT ![i] = Invoke(ending, marked)]
       /\ liveBody' = liveBody \ {i}
       /\ StartCleanup(i)
  /\ UNCHANGED <<runVars, poolVars, abandoned, deadline, idle, ticker, breakVars>>

\* A variant of Watchdog: an abandoned body has no status.
WatchdogWithoutStatus(w) ==
  /\ Timeout > 0
  /\ \E i \in Job(w) :
       /\ stage[i] = "body"
       /\ timer[i] = 0
       /\ status' = [status EXCEPT ![i] = ""]
       /\ abandoned' = abandoned \cup {i}
       /\ StartCleanup(i)
  /\ UNCHANGED <<runVars, poolVars, liveBody, deadline, idle, ticker, breakVars>>

\* The timer of runBody fires: the body's goroutine is left running.
Watchdog(w) ==
  /\ Timeout > 0
  /\ \E i \in Job(w) :
       /\ stage[i] = "body"
       /\ timer[i] = 0
       /\ status' = [status EXCEPT ![i] = "timeout"]
       /\ abandoned' = abandoned \cup {i}
       /\ StartCleanup(i)
  /\ UNCHANGED <<runVars, poolVars, liveBody, deadline, idle, ticker, breakVars>>

CtxDone(i) == canceled \/ (Timeout > 0 /\ deadline[i] = 0)

\* The end of runOne() and the part of finish() before the lock: settle the
\* status, store progress, count a timeout.  bad: T is marked failed since the
\* body ended; only a passed body, which left T unmarked, makes it matter.
SettleTest(i, bad) ==
  LET s == Settle(i \in abandoned, status[i], CtxDone(i), bad)
  IN /\ status' = [status EXCEPT ![i] = s]
     /\ stage' = [stage EXCEPT ![i] = "settled"]
     /\ deadline' = [deadline EXCEPT ![i] = 0]
     /\ timer' = [timer EXCEPT ![i] = 0]
     /\ idle' = 0
     /\ IF s = "timeout"
        THEN /\ leaked' = leaked + 1
             /\ IF MaxLeaked > 0 /\ leaked' >= MaxLeaked
                THEN Fail("leak") ELSE UNCHANGED err
        ELSE UNCHANGED <<leaked, err>>

CleanupEnds(w) ==
  /\ \E i \in Job(w), bad \in BOOLEAN :
       /\ stage[i] = "cleanup"
       /\ liveCleanup' = liveCleanup \ {i}
       /\ SettleTest(i, bad)
  /\ UNCHANGED <<runVars, poolVars, abandoned, liveBody, ticker, watcher,
                 canceled, interrupted>>

\* A variant of CleanupTimer: the cleanups of an abandoned test have no bound.
CleanupTimerUnlessAbandoned(w) ==
  /\ CleanupTimeout > 0
  /\ \E i \in Job(w) \ abandoned :
       /\ stage[i] = "cleanup"
       /\ timer[i] = 0
       /\ SettleTest(i, TRUE)
  /\ UNCHANGED <<runVars, poolVars, abandoned, liveBody, liveCleanup, ticker,
                 watcher, canceled, interrupted>>

\* The timer of runCleanups fires: the cleanups' goroutine is left running.
CleanupTimer(w) ==
  /\ CleanupTimeout > 0
  /\ \E i \in Job(w) :
       /\ stage[i] = "cleanup"
       /\ timer[i] = 0
       /\ SettleTest(i, TRUE)
  /\ UNCHANGED <<runVars, poolVars, abandoned, liveBody, liveCleanup, ticker,
                 watcher, canceled, interrupted>>

\* The part of finish() under the lock; the worker then receives again.
Record(w) ==
  /\ \E i \in Job(w) :
       /\ stage[i] = "settled"
       /\ stage' = [stage EXCEPT ![i] = "done"]
  /\ job' = [job EXCEPT ![w] = NoTest]
  /\ wpc' = [wpc EXCEPT ![w] = "recv"]
  /\ UNCHANGED <<runVars, status, abandoned, liveBody, liveCleanup,
                 timeVars, breakVars>>

\* A variant of StrayBodyEnds: the body shares the status with the worker
\* instead of sending it through a channel.
StrayBodyWrites ==
  /\ \E i \in liveBody :
       /\ stage[i] # "body"
       /\ liveBody' = liveBody \ {i}
       /\ status' = [status EXCEPT ![i] = "failed"]
  /\ UNCHANGED <<runVars, poolVars, stage, abandoned, liveCleanup, timeVars, breakVars>>

\* A goroutine that was left behind ends after all.
StrayBodyEnds ==
  /\ \E i \in liveBody : stage[i] # "body" /\ liveBody' = liveBody \ {i}
  /\ UNCHANGED <<runVars, poolVars, stage, status, abandoned,
                 liveCleanup, timeVars, breakVars>>

StrayCleanupEnds ==
  /\ \E i \in liveCleanup : stage[i] # "cleanup" /\ liveCleanup' = liveCleanup \ {i}
  /\ UNCHANGED <<runVars, poolVars, stage, status, abandoned,
                 liveBody, timeVars, breakVars>>

\* What a worker does of its own accord, as opposed to what it waits for.
WorkerStep(w) == Feed(w) \/ Exit(w) \/ Watchdog(w) \/ CleanupTimer(w) \/ Record(w)

-----------------------------------------------------------------------------
(* The stall watcher and the caller.                                       *)

\* The ticker fires: either a test finished recently, or the run has failed.
StallCheck ==
  /\ watcher = "on"
  /\ ticker = 0
  /\ IF idle < StallTimeout
     THEN ticker' = Interval /\ UNCHANGED <<watcher, err>>
     ELSE watcher' = "failing" /\ Fail("stall") /\ UNCHANGED ticker
  /\ UNCHANGED <<runVars, poolVars, testVars, deadline, timer, idle, leaked,
                 canceled, interrupted>>

\* A variant of StallCancel: the watcher records the stall and does not cancel.
StallNoCancel ==
  /\ watcher = "failing"
  /\ watcher' = "gone"
  /\ UNCHANGED <<runVars, poolVars, testVars, timeVars, leaked, err, canceled,
                 interrupted>>

StallCancel ==
  /\ watcher = "failing"
  /\ watcher' = "gone"
  /\ canceled' = TRUE
  /\ UNCHANGED <<runVars, poolVars, testVars, timeVars, leaked, err, interrupted>>

WatcherExit ==
  /\ watcher = "on"
  /\ canceled
  /\ watcher' = "gone"
  /\ UNCHANGED <<runVars, poolVars, testVars, timeVars, leaked, err, canceled,
                 interrupted>>

\* A variant of WatchStep: a stall cancels the run and is recorded afterwards.
WatchStepCancelFirst ==
  \/ /\ watcher = "on"
     /\ ticker = 0
     /\ IF idle < StallTimeout
        THEN ticker' = Interval /\ UNCHANGED <<watcher, canceled>>
        ELSE watcher' = "failing" /\ canceled' = TRUE /\ UNCHANGED ticker
     /\ UNCHANGED <<runVars, poolVars, testVars, deadline, timer, idle, leaked,
                    err, interrupted>>
  \/ /\ watcher = "failing"
     /\ watcher' = "gone"
     /\ Fail("stall")
     /\ UNCHANGED <<runVars, poolVars, testVars, timeVars, leaked, canceled,
                    interrupted>>
  \/ WatcherExit

WatchStep == StallCheck \/ StallCancel \/ WatcherExit

\* The caller's context is canceled (an interrupt, in the s3t binary).
Interrupt ==
  /\ pc # "returned"
  /\ ~interrupted
  /\ interrupted' = TRUE
  /\ canceled' = TRUE
  /\ UNCHANGED <<runVars, poolVars, testVars, timeVars, watcher, leaked, err>>

-----------------------------------------------------------------------------
(* Time.                                                                   *)

Dec(n) == IF n > 0 THEN n - 1 ELSE 0

\* Run() is blocked or has returned.
RunBlocked ==
  \/ pc = "feed" /\ rest # {} /\ ~canceled /\ \A w \in Pool(phase) : wpc[w] # "recv"
  \/ pc = "wait" /\ ~PoolGone /\ ~canceled
  \/ pc = "returned"

\* The worker waits for a body or for cleanups whose timer is not due.
WorkerBlocked(w) ==
  \/ wpc[w] \in {"off", "gone"}
  \/ \E i \in Job(w) : stage[i] = "body" /\ (Timeout > 0 => timer[i] > 0)
  \/ \E i \in Job(w) : stage[i] = "cleanup" /\ (CleanupTimeout > 0 => timer[i] > 0)

WatcherBlocked == watcher \in {"off", "gone"} \/ (watcher = "on" /\ ticker > 0 /\ ~canceled)

\* One unit of time passes.  idle stops at StallTimeout, where the comparison
\* of StallCheck no longer changes.
Tick ==
  /\ RunBlocked
  /\ \A w \in Worker : WorkerBlocked(w)
  /\ WatcherBlocked
  /\ deadline' = [i \in Test |-> Dec(deadline[i])]
  /\ timer' = [i \in Test |-> Dec(timer[i])]
  /\ idle' = IF watcher = "on" /\ idle < StallTimeout THEN idle + 1 ELSE idle
  /\ ticker' = IF watcher = "on" THEN Dec(ticker) ELSE ticker
  /\ UNCHANGED <<runVars, poolVars, testVars, breakVars>>

-----------------------------------------------------------------------------

Environment ==
  \/ \E w \in Worker : BodyEnds(w) \/ CleanupEnds(w)
  \/ StrayBodyEnds
  \/ StrayCleanupEnds
  \/ Interrupt

Next ==
  \/ RunStep
  \/ \E w \in Worker : WorkerStep(w)
  \/ WatchStep
  \/ Tick
  \/ Environment

\* While some goroutine of the harness can run, the Go scheduler runs one of
\* them; when none can, time passes.  Which one runs is not assumed to be fair,
\* and nothing is assumed of test bodies, of cleanups or of the caller.
Fairness ==
  WF_vars(RunStep \/ (\E w \in Worker : WorkerStep(w)) \/ WatchStep \/ Tick)

Spec == Init /\ [][Next]_vars
FairSpec == Spec /\ Fairness

-----------------------------------------------------------------------------
(* Safety.                                                                 *)

Started == {i \in Test : stage[i] # "new"}

\* Every test in flight is held by exactly one worker, and a worker holds
\* nothing else: the hand-off through the channel neither loses nor
\* duplicates a test, also when it races with a cancellation
\* (runIndexes, finish).
OneHolder ==
  \A i \in Test : stage[i] \in InFlight <=>
    \E w \in Worker : Job(w) = {i} /\ \A v \in Worker \ {w} : i \notin Job(v)

\* No test of the pool starts before every serial test has its result, and
\* serial tests occupy workers one at a time, whatever is canceled when (Run).
SerialFirst ==
  /\ (\E i \in Started : i \notin Serial) => \A j \in Serial : stage[j] = "done"
  /\ \A i, j \in Serial : {stage[i], stage[j]} \subseteq InFlight => i = j

\* If Run() returns without the result of some test, then the caller canceled
\* the run or Run() returns an error: a stall is recorded before it cancels, so
\* that no path to the unlocked read of the error is short enough to miss it
\* (Run, watchStall, fail).
NoSilentTruncation ==
  pc = "returned" /\ out # Test => interrupted \/ retErr # "none"

\* Run() returns an error whenever MaxLeaked of the tests whose results it
\* returns were abandoned, because each is counted before it is recorded
\* (runBody, finish, checkLeaked).
LeaksReported ==
  pc = "returned" /\ MaxLeaked > 0 /\ Cardinality(out \cap abandoned) >= MaxLeaked
    => retErr # "none"

PerTestBounds == Timeout > 0 /\ CleanupTimeout > 0

\* If the stall timeout exceeds what one test may take, the watcher never
\* fires: progress is never older than the oldest test in flight
\* (watchStall, runBody, runCleanups).
NoSpuriousStall ==
  PerTestBounds /\ StallTimeout > BodyBound + CleanupTimeout => err # "stall"

\* The results Run() returned are final: a late worker changes neither their
\* status nor their number, and no result is ever recorded twice (finish).
ResultsFinal ==
  [][\A i \in Test : stage[i] = "done" =>
       stage'[i] = "done" /\ status'[i] = status[i]]_vars

-----------------------------------------------------------------------------
(* Liveness.                                                               *)

\* With a stall timeout Run() returns, even if bodies or cleanups hang that
\* have no bound of their own (watchStall, runIndexes).
RunReturns == StallTimeout > 0 => <>(pc = "returned")

\* With bounds on bodies and cleanups Run() returns even if each of them hangs,
\* and no stall is needed for it: the two timers alone free every worker
\* (runBody, runCleanups).
ReturnsUnstalled ==
  PerTestBounds /\ StallTimeout > BodyBound + CleanupTimeout
    => <>(pc = "returned" /\ retErr # "stall")

-----------------------------------------------------------------------------
(* Run() keeps its contract.                                               *)

Report ==
  CASE pc = "return" -> [state |-> "gathered", tests |-> out]
    [] pc = "returned" -> [state |-> "returned", tests |-> out, error |-> retErr]
    [] OTHER -> [state |-> "pending"]

Decision == [i \in Test |-> IF stage[i] = "done" THEN status[i] ELSE NoStatus]

Contract == INSTANCE RunContract WITH
  verdict <- Decision, reason <- err, report <- Report

\* The scheduler implements the contract of Run(): hand-offs, timers and
\* watchdogs are steps the caller does not see (Run).
KeepsContract == Contract!Spec

\* How far a test is, as its lifecycle has it.
LifeStage(i) == IF stage[i] = "done" THEN "settled" ELSE stage[i]
LifeEnded(i) == IF stage[i] = "cleanup" THEN status[i] ELSE NoStatus
LifeVerdict(i) == IF stage[i] \in {"settled", "done"} THEN status[i] ELSE NoStatus

Lifecycle(i) == INSTANCE TestLifecycle WITH
  stage <- LifeStage(i), ended <- LifeEnded(i), verdict <- LifeVerdict(i)

\* What the scheduler does to each test is what is promised for one test, and
\* what TestRun shows of runOne(): one body, then cleanups, then one verdict
\* that agrees with both (runOne, finish).
KeepsLifecycles ==
  /\ \A i \in Test : Lifecycle(i)!Init
  /\ [][\A i \in Test : [Lifecycle(i)!Next]_(Lifecycle(i)!vars)]_vars

-----------------------------------------------------------------------------
(* What comments say of the code, and what it does.                        *)

\* internal/cmd/run.go:62 "The backstop only needs to be looser than any
\* single test; tying it to the per-test timeout keeps the two from being
\* configured into conflict": with stallTimeout = 3 * timeout the watcher
\* never fires while every test keeps to its bounds (watchStall).
BackstopIsLooser ==
  PerTestBounds /\ StallTimeout = 3 * Timeout => err # "stall"

\* internal/harness/run.go:54 "MaxLeaked aborts the run once this many test
\* goroutines have been abandoned", of which line 120 says that they are what is
\* counted.  Either half is refuted by a test that starts after the error of a
\* run nobody interrupted, with fewer than MaxLeaked abandoned (checkLeaked).
LeakErrorAborts ==
  [][err = "leak" /\ ~interrupted /\ Started' # Started
       => Cardinality(abandoned) >= MaxLeaked]_vars

\* cmd/s3t/main.go:35 "The first signal has to unwind rather than exit: tests
\* are mid-flight and their buckets still need deleting": an interrupted run
\* returns only when the cleanups of the tests in flight are over (runIndexes).
InterruptUnwinds ==
  pc = "returned" /\ retErr = "none"
    => \A i \in Test : stage[i] \notin {"body", "cleanup"}
=============================================================================

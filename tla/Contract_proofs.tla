--------------------------- MODULE Contract_proofs ---------------------------
(***************************************************************************)
(* The scheduler implements the contract of Run(), for any number of tests *)
(* and workers and any bounds.                                             *)
(***************************************************************************)
EXTENDS Scheduler_proofs

\* A test whose body is over has a status, and the watchdog's is "timeout".
LifeInv ==
  \A i \in Test :
    /\ stage[i] \in {"cleanup", "settled", "done"} => status[i] \in Status
    /\ stage[i] \in {"new", "body"} => i \notin abandoned
    /\ stage[i] = "cleanup" /\ i \in abandoned => status[i] = "timeout"

\* Settling a test gives it one of the outcomes its status allows.
LEMMA SettleStatus ==
  ASSUME RunInv, LifeInv, NEW i \in Test, NEW bad \in BOOLEAN, SettleTest(i, bad)
  PROVE  \E s \in Status \cup {NoStatus} :
           /\ status' = [status EXCEPT ![i] = s]
           /\ stage' = [stage EXCEPT ![i] = "settled"]
           /\ stage[i] = "cleanup" => s \in Status
<1> DEFINE s == Settle(i \in abandoned, status[i], CtxDone(i), bad)
<1>1. (i \in abandoned) \in BOOLEAN /\ CtxDone(i) \in BOOLEAN
  BY DEF CtxDone, RunInv, TypeOK
<1>2. s \in Status \cup {NoStatus} /\ (status[i] \in Status => s \in Status)
  BY DEF Settle, Status, RunInv, TypeOK
<1>3. status' = [status EXCEPT ![i] = s] /\ stage' = [stage EXCEPT ![i] = "settled"]
  BY DEF SettleTest
<1> HIDE DEF s
<1>4. QED
  BY <1>2, <1>3 DEF LifeInv

LEMMA LifeInductive ==
  ASSUME RunInv, LifeInv, [Next]_vars
  PROVE  LifeInv'
<1>1. CASE UNCHANGED <<stage, status, abandoned>>
  BY <1>1 DEF LifeInv
<1>2. CASE RunStep \/ WatchStep \/ Interrupt \/ Tick \/ UNCHANGED vars
  BY <1>1, <1>2 DEF RunStep, EnterPhase, SkipParallel, CloseQueue, Wait, Collect, Return,
     WatchStep, StallCheck, StallCancel, WatcherExit, Interrupt, Tick, vars, testVars
<1>3. CASE StrayBodyEnds \/ StrayCleanupEnds
  BY <1>1, <1>3 DEF StrayBodyEnds, StrayCleanupEnds
<1>4. ASSUME NEW w \in Worker, Exit(w) PROVE LifeInv'
  BY <1>1, <1>4 DEF Exit, testVars
<1>5. ASSUME NEW w \in Worker, Feed(w) PROVE LifeInv'
  <2>1. PICK i \in rest : stage' = [stage EXCEPT ![i] = "body"]
    BY <1>5 DEF Feed
  <2>2. i \in Test /\ stage[i] = "new" /\ UNCHANGED <<status, abandoned>>
    BY <1>5 DEF Feed, RunInv, TypeOK, HoldInv
  <2>3. QED
    BY <2>1, <2>2 DEF LifeInv, RunInv, TypeOK
<1>6. ASSUME NEW w \in Worker, BodyEnds(w) PROVE LifeInv'
  <2>1. \A e \in Ending, m \in BOOLEAN : Invoke(e, m) \in Status
    BY InvokeType DEF Status
  <2>2. PICK i \in Job(w), s \in Status :
          /\ stage[i] = "body"
          /\ stage' = [stage EXCEPT ![i] = "cleanup"]
          /\ status' = [status EXCEPT ![i] = s]
    BY <1>6, <2>1 DEF BodyEnds, StartCleanup
  <2>3. i \in Test /\ UNCHANGED abandoned
    BY <1>6 DEF BodyEnds, Job
  <2>4. QED
    BY <2>2, <2>3 DEF LifeInv, RunInv, TypeOK
<1>7. ASSUME NEW w \in Worker, Watchdog(w) PROVE LifeInv'
  <2>1. PICK i \in Job(w) :
          /\ stage[i] = "body"
          /\ stage' = [stage EXCEPT ![i] = "cleanup"]
          /\ status' = [status EXCEPT ![i] = "timeout"]
          /\ abandoned' = abandoned \cup {i}
    BY <1>7 DEF Watchdog, StartCleanup
  <2>2. i \in Test /\ "timeout" \in Status
    BY DEF Job, Status
  <2>3. QED
    BY <2>1, <2>2 DEF LifeInv, RunInv, TypeOK
<1>8. ASSUME NEW w \in Worker, CleanupEnds(w) \/ CleanupTimer(w) PROVE LifeInv'
  <2>1. PICK i \in Job(w), bad \in BOOLEAN : stage[i] = "cleanup" /\ SettleTest(i, bad)
    BY <1>8, TRUE \in BOOLEAN DEF CleanupEnds, CleanupTimer
  <2>2. i \in Test /\ UNCHANGED abandoned
    BY <1>8 DEF CleanupEnds, CleanupTimer, Job
  <2>3. PICK s \in Status :
          /\ status' = [status EXCEPT ![i] = s]
          /\ stage' = [stage EXCEPT ![i] = "settled"]
    BY <2>1, <2>2, SettleStatus
  <2>4. QED
    BY <2>2, <2>3 DEF LifeInv, RunInv, TypeOK
<1>9. ASSUME NEW w \in Worker, Record(w) PROVE LifeInv'
  <2>1. PICK i \in Job(w) : stage[i] = "settled" /\ stage' = [stage EXCEPT ![i] = "done"]
    BY <1>9 DEF Record
  <2>2. i \in Test /\ UNCHANGED <<status, abandoned>>
    BY <1>9 DEF Record, Job
  <2>3. QED
    BY <2>1, <2>2 DEF LifeInv, RunInv, TypeOK
<1>10. QED
  BY <1>2, <1>3, <1>4, <1>5, <1>6, <1>7, <1>8, <1>9 DEF Next, WorkerStep, Environment

THEOREM LifeInvariant == Spec => []LifeInv
<1>1. Init => LifeInv
  BY DEF Init, LifeInv
<1>2. QED
  BY <1>1, LifeInductive, RunInvariant, PTL DEF Spec

-----------------------------------------------------------------------------
(* The contract of Run().                                                  *)

\* A decided test of the contract is a recorded one.
LEMMA DecidedDone ==
  ASSUME LifeInv
  PROVE  Contract!Decided = {i \in Test : stage[i] = "done"}
BY DEF Contract!Decided, Decision, LifeInv, Contract!NoStatus, NoStatus, Status

\* Steps that record no result change no decision.
LEMMA DecisionSame ==
  ASSUME KeepsResults, \A i \in Test : stage'[i] = "done" => stage[i] = "done"
  PROVE  Decision' = Decision
BY DEF KeepsResults, Decision

\* Steps the caller does not see.
LEMMA ContractSame ==
  ASSUME UNCHANGED <<Decision, pc, out, retErr, err, interrupted>>
  PROVE  [Contract!Next]_(Contract!vars)
<1>1. Report' = Report
  BY DEF Report
<1>2. QED
  BY <1>1 DEF Contract!vars

\* Steps that may break the run down.
LEMMA ContractBreak ==
  ASSUME UNCHANGED <<Decision, pc, out, retErr, interrupted>>,
         NEW e \in {"leak", "stall"}, Fail(e) \/ UNCHANGED err
  PROVE  [Contract!Next]_(Contract!vars)
<1>1. Report' = Report
  BY DEF Report
<1>2. CASE err = "none" /\ err' = e
  BY <1>1, <1>2 DEF Contract!Next, Contract!Break
<1>3. CASE UNCHANGED err
  BY <1>3, ContractSame
<1>4. QED
  BY <1>2, <1>3 DEF Fail

LEMMA ContractStep ==
  ASSUME RunInv, BreakInv, LeakInv, LifeInv, [Next]_vars
  PROVE  [Contract!Next]_(Contract!vars)
<1>0. KeepsResults
  BY LeakInvNext
<1>1. CASE EnterPhase \/ SkipParallel \/ CloseQueue \/ Wait
  <2>1. /\ UNCHANGED <<stage, status, err, interrupted>>
        /\ pc \notin {"return", "returned"} /\ pc' \notin {"return", "returned"}
    BY <1>1 DEF EnterPhase, SkipParallel, CloseQueue, Wait, Leave, testVars, breakVars
  <2>2. Decision' = Decision /\ Report' = Report
    BY <2>1 DEF Decision, Report
  <2>3. QED
    BY <2>1, <2>2 DEF Contract!vars
<1>2. CASE Collect
  <2>1. /\ pc = "collect" /\ pc' = "return"
        /\ out' = {i \in Test : stage[i] = "done"}
        /\ UNCHANGED <<stage, status, err, interrupted>>
    BY <1>2 DEF Collect, testVars, breakVars
  <2>2. /\ Report = [state |-> "pending"]
        /\ Report' = [state |-> "gathered", tests |-> Contract!Decided]
    BY <2>1, DecidedDone DEF Report
  <2>3. Contract!Decided = Test \/ err # "none" \/ interrupted
    BY <2>1, DecidedDone DEF BreakInv
  <2>4. Decision' = Decision
    BY <2>1 DEF Decision
  <2>5. Contract!Gather
    BY <2>1, <2>2, <2>3, <2>4 DEF Contract!Gather
  <2>6. QED
    BY <2>5 DEF Contract!Next
<1>3. CASE Return
  <2>1. /\ pc = "return" /\ pc' = "returned" /\ retErr' = err
        /\ UNCHANGED <<out, stage, status, err, interrupted>>
    BY <1>3 DEF Return, testVars
  <2>2. /\ Report = [state |-> "gathered", tests |-> out]
        /\ Report' = [state |-> "returned", tests |-> out, error |-> err]
    BY <2>1 DEF Report
  <2>3. Decision' = Decision
    BY <2>1 DEF Decision
  <2>4. Contract!Return
    BY <2>1, <2>2, <2>3 DEF Contract!Return
  <2>5. QED
    BY <2>4 DEF Contract!Next
<1>4. ASSUME NEW w \in Worker, Record(w) PROVE [Contract!Next]_(Contract!vars)
  <2>1. PICK i \in Job(w) : stage[i] = "settled" /\ stage' = [stage EXCEPT ![i] = "done"]
    BY <1>4 DEF Record
  <2>2. i \in Test /\ UNCHANGED <<status, pc, out, retErr, err, interrupted>>
    BY <1>4 DEF Record, Job, runVars, breakVars
  <2>3. /\ Decision[i] = NoStatus /\ status[i] \in Status
        /\ Decision' = [Decision EXCEPT ![i] = status[i]]
    BY <2>1, <2>2 DEF Decision, LifeInv, RunInv, TypeOK
  <2>4. Report' = Report
    BY <2>2 DEF Report
  <2>5. Contract!Decide(i)
    BY <2>2, <2>3, <2>4 DEF Contract!Decide, Contract!Status, Status, Contract!NoStatus, NoStatus
  <2>6. QED
    BY <2>2, <2>5 DEF Contract!Next
<1>5. ASSUME NEW w \in Worker, CleanupEnds(w) \/ CleanupTimer(w)
      PROVE  [Contract!Next]_(Contract!vars)
  <2>1. PICK i \in Job(w), bad \in BOOLEAN : stage[i] = "cleanup" /\ SettleTest(i, bad)
    BY <1>5, TRUE \in BOOLEAN DEF CleanupEnds, CleanupTimer
  <2>2. /\ UNCHANGED <<pc, out, retErr, interrupted>>
        /\ stage' = [stage EXCEPT ![i] = "settled"] /\ i \in Test
        /\ Fail("leak") \/ UNCHANGED err
    BY <1>5, <2>1 DEF CleanupEnds, CleanupTimer, SettleTest, Job, runVars
  <2>3. Decision' = Decision
    BY <1>0, <2>1, <2>2, DecisionSame DEF RunInv, TypeOK
  <2>4. QED
    BY <2>2, <2>3, ContractBreak
<1>6. CASE WatchStep
  <2>1. /\ UNCHANGED <<pc, out, retErr, interrupted, stage, status>>
        /\ Fail("stall") \/ UNCHANGED err
    BY <1>6 DEF WatchStep, StallCheck, StallCancel, WatcherExit, runVars, testVars
  <2>2. Decision' = Decision
    BY <2>1 DEF Decision
  <2>3. QED
    BY <2>1, <2>2, ContractBreak
<1>7. CASE Interrupt
  <2>1. /\ ~interrupted /\ interrupted' = TRUE
        /\ UNCHANGED <<pc, out, retErr, err, stage, status>>
    BY <1>7 DEF Interrupt, runVars, testVars
  <2>2. Decision' = Decision /\ Report' = Report
    BY <2>1 DEF Decision, Report
  <2>3. QED
    BY <2>1, <2>2 DEF Contract!Next, Contract!Interrupt
<1>8. ASSUME NEW w \in Worker, Feed(w) \/ BodyEnds(w) \/ Watchdog(w)
      PROVE  [Contract!Next]_(Contract!vars)
  <2>1. PICK i \in Test, x \in {"body", "cleanup"} : stage' = [stage EXCEPT ![i] = x]
    <3>1. rest \subseteq Test
      BY DEF RunInv, TypeOK
    <3>2. QED
      BY <1>8, <3>1 DEF Feed, BodyEnds, Watchdog, StartCleanup, Job
  <2>2. UNCHANGED <<pc, out, retErr, err, interrupted>>
    BY <1>8 DEF Feed, BodyEnds, Watchdog, runVars, breakVars
  <2>3. Decision' = Decision
    BY <1>0, <2>1, DecisionSame DEF RunInv, TypeOK
  <2>4. QED
    BY <2>2, <2>3, ContractSame
<1>9. ASSUME UNCHANGED <<stage, status, pc, out, retErr, err, interrupted>>
      PROVE  [Contract!Next]_(Contract!vars)
  BY <1>9, ContractSame DEF Decision
<1>10. ASSUME NEW w \in Worker, Exit(w) PROVE [Contract!Next]_(Contract!vars)
  BY <1>9, <1>10 DEF Exit, runVars, testVars, breakVars
<1>11. CASE StrayBodyEnds \/ StrayCleanupEnds \/ Tick \/ UNCHANGED vars
  BY <1>9, <1>11 DEF StrayBodyEnds, StrayCleanupEnds, Tick, vars, runVars, testVars, breakVars
<1>12. QED
  BY <1>1, <1>2, <1>3, <1>4, <1>5, <1>6, <1>7, <1>8, <1>10, <1>11
  DEF Next, RunStep, WorkerStep, Environment

\* Run() keeps its contract: one final verdict per test, and nothing missing
\* without an interrupt or an error (Run).
THEOREM ContractKept == Spec => KeepsContract
<1>1. Init => Contract!Init
  <2> SUFFICES ASSUME Init PROVE Contract!Init
    OBVIOUS
  <2>1. Decision = [i \in Test |-> NoStatus] /\ Report = [state |-> "pending"]
    BY DEF Init, Decision, Report
  <2>2. QED
    BY <2>1 DEF Init, Contract!Init, Contract!NoStatus, NoStatus
<1>2. QED
  BY <1>1, ContractStep, RunInvariant, BreakInvariant, LeakInvariant, LifeInvariant, PTL
     DEF Spec, KeepsContract, Contract!Spec

-----------------------------------------------------------------------------
(* The lifecycle of every test.                                            *)

\* What a step keeps of a test it does not touch.
LEMMA LifeSame ==
  ASSUME NEW i \in Test, stage'[i] = stage[i], status'[i] = status[i]
  PROVE  UNCHANGED <<LifeStage(i), LifeEnded(i), LifeVerdict(i)>>
BY DEF LifeStage, LifeEnded, LifeVerdict

LEMMA LifeStutter ==
  ASSUME NEW i \in Test, UNCHANGED <<LifeStage(i), LifeEnded(i), LifeVerdict(i)>>
  PROVE  [Lifecycle(i)!Next]_(Lifecycle(i)!vars)
BY DEF Lifecycle!vars

\* Steps that touch test j only matter to the lifecycle of test j.
LEMMA LifeOther ==
  ASSUME TypeOK, NEW i \in Test, NEW j \in Test, i # j,
         UNCHANGED status \/ \E s \in Status \cup {NoStatus} : status' = [status EXCEPT ![j] = s],
         \E x \in InFlight \cup {"done"} : stage' = [stage EXCEPT ![j] = x]
  PROVE  [Lifecycle(i)!Next]_(Lifecycle(i)!vars)
<1>1. stage'[i] = stage[i] /\ status'[i] = status[i]
  BY DEF TypeOK
<1>2. QED
  BY <1>1, LifeSame, LifeStutter

\* The body of a test starts.
LEMMA LifeStart ==
  ASSUME TypeOK, NEW i \in Test, stage[i] = "new", UNCHANGED status,
         stage' = [stage EXCEPT ![i] = "body"]
  PROVE  [Lifecycle(i)!Next]_(Lifecycle(i)!vars)
<1>1. stage'[i] = "body"
  BY DEF TypeOK
<1>2. /\ LifeStage(i) = "new" /\ LifeStage(i)' = "body"
      /\ UNCHANGED <<LifeEnded(i), LifeVerdict(i)>>
  BY <1>1 DEF LifeStage, LifeEnded, LifeVerdict
<1>3. Lifecycle(i)!Start
  BY <1>2 DEF Lifecycle!Start
<1>4. QED
  BY <1>3 DEF Lifecycle!Next

\* The body ends or is given up, and the cleanups start.
LEMMA LifeEndBody ==
  ASSUME TypeOK, NEW i \in Test, NEW s \in Status, stage[i] = "body",
         status' = [status EXCEPT ![i] = s],
         stage' = [stage EXCEPT ![i] = "cleanup"]
  PROVE  [Lifecycle(i)!Next]_(Lifecycle(i)!vars)
<1>1. stage'[i] = "cleanup" /\ status'[i] = s
  BY DEF TypeOK
<1>2. /\ LifeStage(i) = "body" /\ LifeStage(i)' = "cleanup"
      /\ LifeEnded(i)' = s /\ UNCHANGED LifeVerdict(i)
  BY <1>1 DEF LifeStage, LifeEnded, LifeVerdict
<1>3. Lifecycle(i)!EndBody
  BY <1>2 DEF Lifecycle!EndBody, Lifecycle!Status, Status
<1>4. QED
  BY <1>3 DEF Lifecycle!Next

\* What runOne's switch makes of a status is one of its outcomes.
LEMMA SettleOutcome ==
  ASSUME NEW i, NEW a \in BOOLEAN, NEW s \in Status, NEW c \in BOOLEAN, NEW f \in BOOLEAN,
         a => s = "timeout"
  PROVE  Settle(a, s, c, f) \in Lifecycle(i)!Outcomes(s)
<1>1. CASE a
  BY <1>1 DEF Settle, Lifecycle!Outcomes
<1>2. CASE ~a /\ s = "passed"
  <2>1. Settle(a, s, c, f) \in {"passed", "failed"}
    BY <1>2 DEF Settle
  <2>2. Lifecycle(i)!Outcomes(s) = {"passed", "failed"}
    BY <1>2 DEF Lifecycle!Outcomes
  <2>3. QED
    BY <2>1, <2>2
<1>3. CASE ~a /\ s = "failed"
  <2>1. Settle(a, s, c, f) \in {"failed", "timeout"}
    BY <1>3 DEF Settle
  <2>2. Lifecycle(i)!Outcomes(s) = {"failed", "timeout"}
    BY <1>3 DEF Lifecycle!Outcomes
  <2>3. QED
    BY <2>1, <2>2
<1>4. CASE ~a /\ s # "passed" /\ s # "failed"
  <2>1. Settle(a, s, c, f) = s
    BY <1>4 DEF Settle
  <2>2. Lifecycle(i)!Outcomes(s) = {s}
    BY <1>4 DEF Lifecycle!Outcomes
  <2>3. QED
    BY <2>1, <2>2
<1>5. QED
  BY <1>1, <1>2, <1>3, <1>4

\* The cleanups end or are given up, and the verdict falls.
LEMMA LifeDecide ==
  ASSUME RunInv, LifeInv, NEW i \in Test, NEW bad \in BOOLEAN, stage[i] = "cleanup",
         SettleTest(i, bad)
  PROVE  [Lifecycle(i)!Next]_(Lifecycle(i)!vars)
<1> DEFINE s == Settle(i \in abandoned, status[i], CtxDone(i), bad)
<1>1. /\ (i \in abandoned) \in BOOLEAN /\ CtxDone(i) \in BOOLEAN
      /\ status[i] \in Status /\ (i \in abandoned => status[i] = "timeout")
  BY DEF CtxDone, LifeInv, RunInv, TypeOK
<1>2. s \in Lifecycle(i)!Outcomes(status[i])
  BY <1>1, SettleOutcome
<1>3. status'[i] = s /\ stage'[i] = "settled"
  BY DEF SettleTest, RunInv, TypeOK
<1> HIDE DEF s
<1>4. /\ LifeStage(i) = "cleanup" /\ LifeStage(i)' = "settled"
      /\ LifeEnded(i) = status[i] /\ LifeEnded(i)' = NoStatus
      /\ LifeVerdict(i)' = s
  BY <1>3 DEF LifeStage, LifeEnded, LifeVerdict
<1>5. Lifecycle(i)!Decide
  BY <1>2, <1>4 DEF Lifecycle!Decide, Lifecycle!NoStatus, NoStatus
<1>6. QED
  BY <1>5 DEF Lifecycle!Next

LEMMA LifecycleStep ==
  ASSUME RunInv, LifeInv, [Next]_vars, NEW i \in Test
  PROVE  [Lifecycle(i)!Next]_(Lifecycle(i)!vars)
<1>0. TypeOK
  BY DEF RunInv
<1>1. CASE UNCHANGED <<stage, status>>
  BY <1>1, LifeSame, LifeStutter
<1>2. CASE RunStep \/ WatchStep \/ Interrupt \/ Tick \/ UNCHANGED vars
  BY <1>1, <1>2 DEF RunStep, EnterPhase, SkipParallel, CloseQueue, Wait, Collect, Return,
     WatchStep, StallCheck, StallCancel, WatcherExit, Interrupt, Tick, vars, testVars
<1>3. CASE StrayBodyEnds \/ StrayCleanupEnds
  BY <1>1, <1>3 DEF StrayBodyEnds, StrayCleanupEnds
<1>4. ASSUME NEW w \in Worker, Exit(w) PROVE [Lifecycle(i)!Next]_(Lifecycle(i)!vars)
  BY <1>1, <1>4 DEF Exit, testVars
<1>5. ASSUME NEW w \in Worker, Feed(w) PROVE [Lifecycle(i)!Next]_(Lifecycle(i)!vars)
  <2>1. PICK j \in rest : stage' = [stage EXCEPT ![j] = "body"]
    BY <1>5 DEF Feed
  <2>2. j \in Test /\ stage[j] = "new" /\ UNCHANGED status
    BY <1>5 DEF Feed, RunInv, TypeOK, HoldInv
  <2>3. CASE i = j
    BY <1>0, <2>1, <2>2, <2>3, LifeStart
  <2>4. CASE i # j
    <3>1. "body" \in InFlight
      BY DEF InFlight
    <3>2. QED
      BY <1>0, <2>1, <2>2, <2>4, <3>1, LifeOther
  <2>5. QED
    BY <2>3, <2>4
<1>6. ASSUME NEW w \in Worker, BodyEnds(w) \/ Watchdog(w)
      PROVE  [Lifecycle(i)!Next]_(Lifecycle(i)!vars)
  <2>1. (\A e \in Ending, m \in BOOLEAN : Invoke(e, m) \in Status) /\ "timeout" \in Status
    BY InvokeType DEF Status
  <2>2. PICK j \in Job(w), s \in Status :
          /\ stage[j] = "body"
          /\ stage' = [stage EXCEPT ![j] = "cleanup"]
          /\ status' = [status EXCEPT ![j] = s]
    BY <1>6, <2>1 DEF BodyEnds, Watchdog, StartCleanup
  <2>3. j \in Test /\ "cleanup" \in InFlight
    BY DEF Job, InFlight
  <2>4. CASE i = j
    BY <1>0, <2>2, <2>4, LifeEndBody
  <2>5. CASE i # j
    BY <1>0, <2>2, <2>3, <2>5, LifeOther
  <2>6. QED
    BY <2>4, <2>5
<1>7. ASSUME NEW w \in Worker, CleanupEnds(w) \/ CleanupTimer(w)
      PROVE  [Lifecycle(i)!Next]_(Lifecycle(i)!vars)
  <2>1. PICK j \in Job(w), bad \in BOOLEAN : stage[j] = "cleanup" /\ SettleTest(j, bad)
    BY <1>7, TRUE \in BOOLEAN DEF CleanupEnds, CleanupTimer
  <2>2. j \in Test /\ "settled" \in InFlight
    BY DEF Job, InFlight
  <2>3. CASE i = j
    BY <2>1, <2>3, LifeDecide
  <2>4. CASE i # j
    <3>1. PICK s \in Status \cup {NoStatus} :
            /\ status' = [status EXCEPT ![j] = s]
            /\ stage' = [stage EXCEPT ![j] = "settled"]
      BY <2>1, <2>2, SettleStatus
    <3>2. QED
      BY <1>0, <2>2, <2>4, <3>1, LifeOther
  <2>5. QED
    BY <2>3, <2>4
<1>8. ASSUME NEW w \in Worker, Record(w) PROVE [Lifecycle(i)!Next]_(Lifecycle(i)!vars)
  <2>1. PICK j \in Job(w) : stage[j] = "settled" /\ stage' = [stage EXCEPT ![j] = "done"]
    BY <1>8 DEF Record
  <2>2. j \in Test /\ UNCHANGED status
    BY <1>8 DEF Record, Job
  <2>3. CASE i = j
    <3>1. stage[i] = "settled" /\ stage'[i] = "done" /\ status'[i] = status[i]
      BY <1>0, <2>1, <2>2, <2>3 DEF TypeOK
    <3>2. UNCHANGED <<LifeStage(i), LifeEnded(i), LifeVerdict(i)>>
      BY <3>1 DEF LifeStage, LifeEnded, LifeVerdict
    <3>3. QED
      BY <3>2, LifeStutter
  <2>4. CASE i # j
    BY <1>0, <2>1, <2>2, <2>4, LifeOther
  <2>5. QED
    BY <2>3, <2>4
<1>9. QED
  BY <1>2, <1>3, <1>4, <1>5, <1>6, <1>7, <1>8 DEF Next, WorkerStep, Environment

\* Every test has one body, then cleanups, then one verdict that agrees with
\* both (runOne, finish).
THEOREM LifecyclesKept == Spec => KeepsLifecycles
<1>1. Init => \A i \in Test : Lifecycle(i)!Init
  <2> SUFFICES ASSUME Init, NEW i \in Test PROVE Lifecycle(i)!Init
    OBVIOUS
  <2>1. LifeStage(i) = "new" /\ LifeEnded(i) = NoStatus /\ LifeVerdict(i) = NoStatus
    BY DEF Init, LifeStage, LifeEnded, LifeVerdict
  <2>2. QED
    BY <2>1 DEF Lifecycle!Init, Lifecycle!NoStatus, NoStatus
<1>2. RunInv /\ LifeInv /\ [Next]_vars =>
        [\A i \in Test : [Lifecycle(i)!Next]_(Lifecycle(i)!vars)]_vars
  BY LifecycleStep
<1>3. QED
  BY <1>1, <1>2, RunInvariant, LifeInvariant, PTL DEF Spec, KeepsLifecycles
=============================================================================

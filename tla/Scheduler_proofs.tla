-------------------------- MODULE Scheduler_proofs --------------------------
(***************************************************************************)
(* Proofs about Scheduler, for any tests, any serial marks, any pool size  *)
(* and any time limits.                                                    *)
(***************************************************************************)
EXTENDS Scheduler, FiniteSetTheorems, TLAPS

LEMMA ConstTypes ==
  /\ PoolSize \in Nat \ {0}
  /\ Interval \in Nat
  /\ BodyBound \in Nat
  /\ 0 \in Worker
  /\ Timeout \in Nat /\ CleanupTimeout \in Nat /\ StallTimeout \in Nat
  /\ \A p \in {"serial", "parallel"} : Pool(p) \subseteq Worker /\ Indexes(p) \subseteq Test
BY SchedulerAssumption DEF PoolSize, Interval, BodyBound, Worker, Pool, Indexes

LEMMA SettleType ==
  ASSUME NEW a \in BOOLEAN, NEW s \in Status \cup {NoStatus}, NEW c \in BOOLEAN,
         NEW f \in BOOLEAN
  PROVE  Settle(a, s, c, f) \in Status \cup {NoStatus}
BY DEF Settle, Status, NoStatus

LEMMA InvokeType ==
  ASSUME NEW e \in Ending, NEW f \in BOOLEAN
  PROVE  Invoke(e, f) \in {"passed", "failed", "skipped"}
BY DEF Invoke, Ending, MarksFailed

\* SettleTest keeps the types of what it changes.
LEMMA SettleTestType ==
  ASSUME TypeOK, NEW i \in Test, NEW bad \in BOOLEAN, SettleTest(i, bad)
  PROVE  /\ status' \in [Test -> Status \cup {NoStatus}]
         /\ stage' = [stage EXCEPT ![i] = "settled"]
         /\ stage' \in [Test -> InFlight \cup {"new", "done"}]
         /\ deadline' \in [Test -> Nat]
         /\ timer' \in [Test -> Nat]
         /\ idle' = 0
         /\ leaked' \in Nat
         /\ err' \in {"none", "leak", err}
<1> DEFINE s == Settle(i \in abandoned, status[i], CtxDone(i), bad)
<1>1. CtxDone(i) \in BOOLEAN /\ (i \in abandoned) \in BOOLEAN
  BY DEF TypeOK, CtxDone
<1>2. s \in Status \cup {NoStatus}
  BY <1>1, SettleType DEF TypeOK
<1>3. /\ status' = [status EXCEPT ![i] = s]
      /\ stage' = [stage EXCEPT ![i] = "settled"]
      /\ deadline' = [deadline EXCEPT ![i] = 0]
      /\ timer' = [timer EXCEPT ![i] = 0]
      /\ idle' = 0
      /\ leaked' \in {leaked, leaked + 1}
      /\ err' \in {"none", "leak", err}
  BY DEF SettleTest, Fail
<1> HIDE DEF s
<1>4. QED
  BY <1>2, <1>3 DEF TypeOK, InFlight

-----------------------------------------------------------------------------
(* Types.                                                                  *)

LEMMA TypeInit == Init => TypeOK
<1> SUFFICES ASSUME Init PROVE TypeOK
  OBVIOUS
<1>1. ticker \in Nat /\ idle \in Nat /\ leaked \in Nat
  BY ConstTypes DEF Init
<1>2. deadline \in [Test -> Nat] /\ timer \in [Test -> Nat]
  BY DEF Init
<1>3. watcher \in {"off", "on", "failing", "gone"}
  BY DEF Init
<1>4. QED
  BY <1>1, <1>2, <1>3 DEF Init, TypeOK, NoTest, InFlight

\* Every variable keeps its type (all of Scheduler).
THEOREM TypeCorrect == Spec => []TypeOK
<1>1. Init => TypeOK
  BY TypeInit
<1>2. TypeOK /\ [Next]_vars => TypeOK'
  <2> SUFFICES ASSUME TypeOK, [Next]_vars PROVE TypeOK'
    OBVIOUS
  <2> USE ConstTypes
  <2>1. CASE EnterPhase
    BY <2>1 DEF TypeOK, EnterPhase, Leave, testVars, timeVars, breakVars
  <2>2. CASE SkipParallel
    BY <2>2 DEF TypeOK, SkipParallel, poolVars, testVars, timeVars, breakVars
  <2>3. CASE CloseQueue
    BY <2>3 DEF TypeOK, CloseQueue, poolVars, testVars, timeVars, breakVars
  <2>4. CASE Wait
    BY <2>4 DEF TypeOK, Wait, Leave, poolVars, testVars, timeVars, breakVars
  <2>5. CASE Collect
    BY <2>5 DEF TypeOK, Collect, poolVars, testVars, timeVars, breakVars
  <2>6. CASE Return
    BY <2>6 DEF TypeOK, Return, poolVars, testVars, timeVars
  <2>7. ASSUME NEW w \in Worker, Feed(w) PROVE TypeOK'
    <3>1. PICK i \in rest :
            /\ rest' = rest \ {i}
            /\ job' = [job EXCEPT ![w] = i]
            /\ stage' = [stage EXCEPT ![i] = "body"]
            /\ deadline' = [deadline EXCEPT ![i] = Timeout]
            /\ timer' = [timer EXCEPT ![i] = BodyBound]
            /\ liveBody' = liveBody \cup {i}
      BY <2>7 DEF Feed
    <3>2. i \in Test
      BY DEF TypeOK
    <3>3. QED
      BY <2>7, <3>1, <3>2 DEF TypeOK, Feed, breakVars, InFlight
  <2>8. ASSUME NEW w \in Worker, Exit(w) PROVE TypeOK'
    BY <2>8 DEF TypeOK, Exit, runVars, testVars, timeVars, breakVars
  <2>9. ASSUME NEW w \in Worker, BodyEnds(w) PROVE TypeOK'
    <3>1. PICK i \in Job(w), ending \in Ending, marked \in BOOLEAN :
            /\ status' = [status EXCEPT ![i] = Invoke(ending, marked)]
            /\ liveBody' = liveBody \ {i}
            /\ StartCleanup(i)
      BY <2>9 DEF BodyEnds
    <3>2. i \in Test /\ Invoke(ending, marked) \in Status
      BY InvokeType DEF Job, Status
    <3>3. QED
      BY <2>9, <3>1, <3>2
      DEF TypeOK, BodyEnds, StartCleanup, runVars, poolVars, breakVars, InFlight
  <2>10. ASSUME NEW w \in Worker, Watchdog(w) PROVE TypeOK'
    <3>1. PICK i \in Job(w) :
            /\ status' = [status EXCEPT ![i] = "timeout"]
            /\ abandoned' = abandoned \cup {i}
            /\ StartCleanup(i)
      BY <2>10 DEF Watchdog
    <3>2. i \in Test
      BY DEF Job
    <3>3. QED
      BY <2>10, <3>1, <3>2
      DEF TypeOK, Watchdog, StartCleanup, runVars, poolVars, breakVars, InFlight, Status
  <2>11. ASSUME NEW w \in Worker, CleanupEnds(w) PROVE TypeOK'
    <3>1. PICK i \in Job(w), bad \in BOOLEAN :
            liveCleanup' = liveCleanup \ {i} /\ SettleTest(i, bad)
      BY <2>11 DEF CleanupEnds
    <3>2. i \in Test
      BY DEF Job
    <3>3. QED
      BY <2>11, <3>1, <3>2, SettleTestType DEF TypeOK, CleanupEnds, runVars, poolVars
  <2>12. ASSUME NEW w \in Worker, CleanupTimer(w) PROVE TypeOK'
    <3>1. PICK i \in Job(w), bad \in BOOLEAN : SettleTest(i, bad)
      BY <2>12, TRUE \in BOOLEAN DEF CleanupTimer
    <3>2. i \in Test
      BY DEF Job
    <3>3. QED
      BY <2>12, <3>1, <3>2, SettleTestType DEF TypeOK, CleanupTimer, runVars, poolVars
  <2>13. ASSUME NEW w \in Worker, Record(w) PROVE TypeOK'
    BY <2>13 DEF TypeOK, Record, Job, NoTest, runVars, timeVars, breakVars, InFlight
  <2>14. CASE StrayBodyEnds
    BY <2>14 DEF TypeOK, StrayBodyEnds, runVars, poolVars, timeVars, breakVars
  <2>15. CASE StrayCleanupEnds
    BY <2>15 DEF TypeOK, StrayCleanupEnds, runVars, poolVars, timeVars, breakVars
  <2>16. CASE StallCheck
    BY <2>16 DEF TypeOK, StallCheck, Fail, runVars, poolVars, testVars
  <2>17. CASE StallCancel
    BY <2>17 DEF TypeOK, StallCancel, runVars, poolVars, testVars, timeVars
  <2>18. CASE WatcherExit
    BY <2>18 DEF TypeOK, WatcherExit, runVars, poolVars, testVars, timeVars
  <2>19. CASE Interrupt
    BY <2>19 DEF TypeOK, Interrupt, runVars, poolVars, testVars, timeVars
  <2>20. CASE Tick
    <3>1. \A n \in Nat : Dec(n) \in Nat
      BY DEF Dec
    <3>2. deadline' \in [Test -> Nat] /\ timer' \in [Test -> Nat]
      BY <2>20, <3>1 DEF TypeOK, Tick
    <3>3. QED
      BY <2>20, <3>1, <3>2 DEF TypeOK, Tick, runVars, poolVars, testVars, breakVars
  <2>21. CASE UNCHANGED vars
    BY <2>21 DEF TypeOK, vars, runVars, poolVars, testVars, timeVars, breakVars
  <2>22. QED
    BY <2>1, <2>2, <2>3, <2>4, <2>5, <2>6, <2>7, <2>8, <2>9, <2>10, <2>11, <2>12,
       <2>13, <2>14, <2>15, <2>16, <2>17, <2>18, <2>19, <2>20, <2>21
    DEF Next, RunStep, WorkerStep, WatchStep, Environment
<1>3. QED
  BY <1>1, <1>2, PTL DEF Spec

-----------------------------------------------------------------------------
(* Who holds which test, and where the run is.                             *)

Holds(w, i) == wpc[w] = "busy" /\ job[w] = i

\* A busy worker holds one test in flight and shares it with nobody, every
\* test in flight is held, and what is still to be fed is new.
HoldInv ==
  /\ \A w \in Worker : wpc[w] = "busy" =>
       job[w] \in Test /\ stage[job[w]] \in InFlight /\ (job[w] \in Serial <=> w = 0)
  /\ \A v, w \in Worker : \A i \in Test : Holds(v, i) /\ Holds(w, i) => v = w
  /\ \A i \in Test : stage[i] \in InFlight => \E w \in Worker : Holds(w, i)
  /\ \A i \in rest : stage[i] = "new"

SerialDone == \A j \in Serial : stage[j] = "done"
PoolNew == \A i \in Test \ Serial : stage[i] = "new"

\* What has happened when Run() is at a given place.
PhaseInv ==
  /\ phase = "serial" =>
       PoolNew /\ \A w \in Worker \ {0} : wpc[w] = "off"
  /\ pc = "enter" /\ phase = "serial" =>
       (\A w \in Worker : wpc[w] = "off") /\ \A i \in Test : stage[i] = "new"
  /\ pc = "enter" /\ phase = "parallel" /\ ~canceled =>
       SerialDone /\ PoolNew /\ \A w \in Worker : wpc[w] \in {"off", "gone"}
  /\ pc \in {"feed", "wait"} /\ phase = "parallel" =>
       /\ SerialDone
       /\ wpc[0] \in {"off", "gone"}
       /\ \A w \in Worker \ {0} : w \notin Pool(phase) => wpc[w] \in {"off", "gone"}
  /\ pc \in {"feed", "wait"} =>
       /\ rest \subseteq Indexes(phase)
       /\ \A i \in Indexes(phase) \ rest : stage[i] # "new"
       /\ Pool(phase) # {}
       /\ \A w \in Pool(phase) : wpc[w] # "off"
  /\ pc = "feed" => \A w \in Pool(phase) : wpc[w] # "gone"
  /\ pc = "wait" /\ ~canceled => rest = {}
  /\ PoolNew \/ SerialDone

RunInv == TypeOK /\ HoldInv /\ PhaseInv

\* A phase with tests has a worker, and only the serial phase has worker 0.
LEMMA PoolFacts ==
  /\ Pool("serial") = {0}
  /\ 0 \notin Pool("parallel")
  /\ Indexes("parallel") # {} => Pool("parallel") # {}
  /\ Indexes("serial") = Serial /\ Indexes("parallel") = Test \ Serial
<1>1. Indexes("parallel") # {} => Cardinality(Indexes("parallel")) >= 1
  <2>1. IsFiniteSet(Test)
    BY FS_Interval, SchedulerAssumption DEF Test
  <2>2. IsFiniteSet(Indexes("parallel"))
    BY <2>1, FS_Subset DEF Indexes
  <2>3. QED
    BY <2>2, FS_EmptySet, FS_CardinalityType
<1>2. Indexes("parallel") # {} => 1 \in Pool("parallel")
  BY <1>1, ConstTypes DEF Pool
<1>3. QED
  BY <1>2 DEF Pool, Indexes

\* Steps that touch neither Run(), the workers nor the stages.
LEMMA RunInvUnchanged ==
  ASSUME RunInv, TypeOK', UNCHANGED <<pc, phase, rest, wpc, job, stage>>,
         canceled => canceled'
  PROVE  RunInv'
<1>1. HoldInv'
  BY DEF RunInv, HoldInv, Holds
<1>2. PhaseInv'
  BY DEF RunInv, PhaseInv, SerialDone, PoolNew
<1>3. QED
  BY <1>1, <1>2 DEF RunInv

\* Steps of a worker within the test it holds.
LEMMA RunInvAdvance ==
  ASSUME RunInv, TypeOK', NEW i \in Test, NEW x \in InFlight,
         stage[i] \in InFlight, stage' = [stage EXCEPT ![i] = x],
         UNCHANGED <<pc, phase, rest, wpc, job, canceled>>
  PROVE  RunInv'
<1>0. /\ \A j \in Test : stage'[j] = IF j = i THEN x ELSE stage[j]
      /\ \A j \in Test : stage'[j] \in InFlight <=> stage[j] \in InFlight
      /\ \A j \in Test : stage'[j] = "new" <=> stage[j] = "new"
      /\ \A j \in Test : stage'[j] = "done" <=> stage[j] = "done"
  BY DEF RunInv, TypeOK, InFlight
<1>1. HoldInv'
  BY <1>0 DEF RunInv, TypeOK, HoldInv, Holds
<1>2. SerialDone' <=> SerialDone
  BY <1>0, SchedulerAssumption DEF SerialDone
<1>3. PoolNew' <=> PoolNew
  BY <1>0 DEF PoolNew
<1>4. Indexes(phase) \subseteq Test
  BY ConstTypes DEF RunInv, TypeOK
<1>5. PhaseInv'
  BY <1>0, <1>2, <1>3, <1>4 DEF RunInv, PhaseInv
<1>6. QED
  BY <1>1, <1>5 DEF RunInv

\* When all workers of a phase are gone and the run is not canceled, every
\* test of the phase is done.
LEMMA PhaseComplete ==
  ASSUME RunInv, pc = "wait", PoolGone, ~canceled
  PROVE  /\ \A i \in Indexes(phase) : stage[i] = "done"
         /\ \A w \in Worker : wpc[w] \in {"off", "gone"}
<1>1. \A w \in Worker : wpc[w] \in {"off", "gone"}
  <2>1. CASE phase = "serial"
    BY <2>1, PoolFacts, ConstTypes DEF RunInv, PhaseInv, PoolGone
  <2>2. CASE phase = "parallel"
    BY <2>2 DEF RunInv, PhaseInv, PoolGone
  <2>3. QED
    BY <2>1, <2>2 DEF RunInv, TypeOK
<1>2. ASSUME NEW i \in Indexes(phase) PROVE stage[i] = "done"
  <2>1. i \in Test
    BY ConstTypes DEF RunInv, TypeOK
  <2>2. stage[i] # "new"
    BY DEF RunInv, PhaseInv
  <2>3. stage[i] \notin InFlight
    BY <1>1, <2>1 DEF RunInv, HoldInv, Holds
  <2>4. QED
    BY <2>1, <2>2, <2>3 DEF RunInv, TypeOK
<1>3. QED
  BY <1>1, <1>2

\* RunInv is inductive (Run, runIndexes, finish).
THEOREM RunInvariant == Spec => []RunInv
<1>1. Init => RunInv
  <2> SUFFICES ASSUME Init PROVE RunInv
    OBVIOUS
  <2>1. TypeOK
    BY TypeInit
  <2>2. HoldInv
    BY DEF Init, HoldInv, Holds, InFlight
  <2>3. PhaseInv
    BY DEF Init, PhaseInv, PoolNew
  <2>4. QED
    BY <2>1, <2>2, <2>3 DEF RunInv
<1>2. RunInv /\ TypeOK' /\ [Next]_vars => RunInv'
  <2> SUFFICES ASSUME RunInv, TypeOK', [Next]_vars PROVE RunInv'
    OBVIOUS
  <2>1. CASE EnterPhase
    <3>1. CASE Indexes(phase) = {}
      <4>1. /\ UNCHANGED <<rest, wpc, job, stage, canceled>>
            /\ pc = "enter" /\ phase' = "parallel"
            /\ phase = "serial" => pc' = "enter"
            /\ phase = "parallel" => pc' = "collect"
            /\ phase = "serial" \/ ~canceled
        BY <2>1, <3>1 DEF EnterPhase, Leave, testVars, breakVars, RunInv, TypeOK
      <4>2. HoldInv'
        BY <4>1 DEF RunInv, HoldInv, Holds
      <4>3. phase = "serial" => SerialDone /\ PoolNew /\ \A w \in Worker : wpc[w] = "off"
        BY <3>1, <4>1, PoolFacts DEF RunInv, PhaseInv, SerialDone
      <4>4. PhaseInv'
        BY <4>1, <4>3 DEF RunInv, TypeOK, PhaseInv, SerialDone, PoolNew
      <4>5. QED
        BY <4>2, <4>4 DEF RunInv
    <3>2. CASE Indexes(phase) # {}
      <4>1. /\ UNCHANGED <<phase, job, stage, canceled>>
            /\ pc = "enter" /\ pc' = "feed"
            /\ rest' = Indexes(phase)
            /\ wpc' = [w \in Worker |-> IF w \in Pool(phase) THEN "recv" ELSE wpc[w]]
            /\ phase = "serial" \/ ~canceled
        BY <2>1, <3>2 DEF EnterPhase, testVars, breakVars
      <4>2. /\ \A w \in Worker : wpc[w] \in {"off", "gone"}
            /\ phase = "serial" => \A w \in Worker : wpc[w] = "off"
            /\ \A i \in Indexes(phase) : stage[i] = "new"
            /\ \A i \in Test : stage[i] \in {"new", "done"}
            /\ phase = "parallel" => SerialDone
            /\ PoolNew
        BY <4>1, PoolFacts, SchedulerAssumption DEF RunInv, TypeOK, PhaseInv, SerialDone, PoolNew
      <4>3. /\ \A w \in Worker : wpc'[w] \in {"off", "gone", "recv"}
            /\ \A w \in Pool(phase) : wpc'[w] = "recv"
            /\ \A w \in Worker \ Pool(phase) : wpc'[w] = wpc[w]
            /\ Pool(phase) \subseteq Worker /\ 0 \in Worker
        BY <4>1, <4>2, ConstTypes DEF RunInv, TypeOK
      <4>4. HoldInv'
        BY <4>1, <4>2, <4>3 DEF HoldInv, Holds, InFlight
      <4>5. PhaseInv'
        BY <3>2, <4>1, <4>2, <4>3, PoolFacts DEF RunInv, TypeOK, PhaseInv, SerialDone, PoolNew
      <4>6. QED
        BY <4>4, <4>5 DEF RunInv
    <3>3. QED
      BY <3>1, <3>2
  <2>2. CASE SkipParallel
    <3>1. /\ UNCHANGED <<phase, rest, wpc, job, stage, canceled>>
          /\ pc' = "collect" /\ phase = "parallel"
      BY <2>2 DEF SkipParallel, poolVars, testVars, breakVars
    <3>2. HoldInv' /\ PhaseInv'
      BY <3>1 DEF RunInv, HoldInv, Holds, PhaseInv, SerialDone, PoolNew
    <3>3. QED
      BY <3>2 DEF RunInv
  <2>3. CASE CloseQueue
    <3>1. /\ UNCHANGED <<phase, rest, wpc, job, stage, canceled>>
          /\ pc = "feed" /\ pc' = "wait" /\ (rest = {} \/ canceled)
      BY <2>3 DEF CloseQueue, poolVars, testVars, breakVars
    <3>2. HoldInv' /\ PhaseInv'
      BY <3>1 DEF RunInv, HoldInv, Holds, PhaseInv, SerialDone, PoolNew
    <3>3. QED
      BY <3>2 DEF RunInv
  <2>4. CASE Wait
    <3>1. /\ UNCHANGED <<rest, wpc, job, stage, canceled>>
          /\ pc = "wait" /\ (PoolGone \/ canceled)
          /\ phase' = "parallel"
          /\ pc' = IF phase = "serial" THEN "enter" ELSE "collect"
      BY <2>4 DEF Wait, Leave, poolVars, testVars, breakVars
    <3>2. HoldInv'
      BY <3>1 DEF RunInv, HoldInv, Holds
    <3>3. phase = "serial" /\ ~canceled =>
            SerialDone /\ \A w \in Worker : wpc[w] \in {"off", "gone"}
      BY <3>1, PhaseComplete, PoolFacts DEF SerialDone
    <3>4. PhaseInv'
      BY <3>1, <3>3 DEF RunInv, TypeOK, PhaseInv, SerialDone, PoolNew
    <3>5. QED
      BY <3>2, <3>4 DEF RunInv
  <2>5. CASE Collect
    <3>1. UNCHANGED <<phase, rest, wpc, job, stage, canceled>> /\ pc' = "return" /\ pc = "collect"
      BY <2>5 DEF Collect, poolVars, testVars, breakVars
    <3>2. HoldInv' /\ PhaseInv'
      BY <3>1 DEF RunInv, HoldInv, Holds, PhaseInv, SerialDone, PoolNew
    <3>3. QED
      BY <3>2 DEF RunInv
  <2>6. CASE Return
    <3>1. UNCHANGED <<phase, rest, wpc, job, stage>> /\ pc' = "returned"
      BY <2>6 DEF Return, poolVars, testVars
    <3>2. HoldInv' /\ PhaseInv'
      BY <3>1 DEF RunInv, HoldInv, Holds, PhaseInv, SerialDone, PoolNew
    <3>3. QED
      BY <3>2 DEF RunInv
  <2>7. ASSUME NEW w \in Worker, Feed(w) PROVE RunInv'
    <3>1. PICK i \in rest :
            /\ rest' = rest \ {i}
            /\ job' = [job EXCEPT ![w] = i]
            /\ stage' = [stage EXCEPT ![i] = "body"]
      BY <2>7 DEF Feed
    <3>2. /\ UNCHANGED <<pc, phase, canceled>>
          /\ pc = "feed" /\ w \in Pool(phase) /\ wpc[w] = "recv"
          /\ wpc' = [wpc EXCEPT ![w] = "busy"]
      BY <2>7 DEF Feed, breakVars
    <3>3. /\ i \in Test /\ stage[i] = "new" /\ i \in Indexes(phase)
          /\ i \in Serial <=> w = 0
          /\ phase = "serial" <=> w = 0
      BY <3>2, PoolFacts DEF RunInv, TypeOK, HoldInv, PhaseInv
    <3>4. /\ \A v \in Worker : wpc'[v] = IF v = w THEN "busy" ELSE wpc[v]
          /\ \A v \in Worker : job'[v] = IF v = w THEN i ELSE job[v]
          /\ \A j \in Test : stage'[j] = IF j = i THEN "body" ELSE stage[j]
      BY <3>1, <3>2, <3>3 DEF RunInv, TypeOK
    <3>5. HoldInv'
      <4>1. \A v \in Worker : Holds(v, i)' <=> v = w
        BY <3>2, <3>3, <3>4 DEF RunInv, HoldInv, Holds, InFlight
      <4>2. \A v \in Worker : \A j \in Test \ {i} : Holds(v, j)' <=> Holds(v, j)
        BY <3>2, <3>4 DEF Holds
      <4>3. \A v \in Worker : wpc'[v] = "busy" =>
               job'[v] \in Test /\ stage'[job'[v]] \in InFlight /\ (job'[v] \in Serial <=> v = 0)
        BY <3>2, <3>3, <3>4 DEF RunInv, HoldInv, InFlight
      <4>4. \A j \in rest' : stage'[j] = "new"
        BY <3>1, <3>4 DEF RunInv, TypeOK, HoldInv
      <4>5. \A u, v \in Worker : \A j \in Test : Holds(u, j)' /\ Holds(v, j)' => u = v
        BY <4>1, <4>2 DEF RunInv, HoldInv
      <4>6. \A j \in Test : stage'[j] \in InFlight => \E v \in Worker : Holds(v, j)'
        <5> SUFFICES ASSUME NEW j \in Test, stage'[j] \in InFlight
                     PROVE  \E v \in Worker : Holds(v, j)'
          OBVIOUS
        <5>1. CASE j = i
          BY <4>1, <5>1
        <5>2. CASE j # i
          <6>1. PICK v \in Worker : Holds(v, j)
            BY <3>4, <5>2 DEF RunInv, HoldInv
          <6>2. QED
            BY <4>2, <5>2, <6>1
        <5>3. QED
          BY <5>1, <5>2
      <4>7. QED
        BY <4>3, <4>4, <4>5, <4>6 DEF HoldInv, Holds
    <3>6. PhaseInv'
      <4>1. phase = "serial" => PoolNew'
        BY <3>3, <3>4 DEF RunInv, PhaseInv, PoolNew
      <4>2. phase = "parallel" => SerialDone'
        BY <3>2, <3>3, <3>4, SchedulerAssumption DEF RunInv, PhaseInv, SerialDone
      <4>3. \A j \in Indexes(phase) \ rest' : stage'[j] # "new"
        BY <3>1, <3>2, <3>4, ConstTypes DEF RunInv, TypeOK, PhaseInv
      <4>4. QED
        BY <3>1, <3>2, <3>3, <3>4, <4>1, <4>2, <4>3, PoolFacts, ConstTypes
        DEF RunInv, TypeOK, PhaseInv
    <3>7. QED
      BY <3>5, <3>6 DEF RunInv
  <2>8. ASSUME NEW w \in Worker, Exit(w) PROVE RunInv'
    <3>1. /\ UNCHANGED <<pc, phase, rest, job, stage, canceled>>
          /\ wpc[w] = "recv" /\ wpc' = [wpc EXCEPT ![w] = "gone"]
          /\ pc # "feed" \/ w \notin Pool(phase)
      BY <2>8 DEF Exit, runVars, testVars, breakVars
    <3>2. \A v \in Worker : wpc'[v] = IF v = w THEN "gone" ELSE wpc[v]
      BY <3>1 DEF RunInv, TypeOK
    <3>3. HoldInv'
      BY <3>1, <3>2 DEF RunInv, HoldInv, Holds
    <3>4. SerialDone' = SerialDone /\ PoolNew' = PoolNew
      BY <3>1 DEF SerialDone, PoolNew
    <3>5. PhaseInv'
      BY <3>1, <3>2, <3>4, ConstTypes DEF RunInv, TypeOK, PhaseInv
    <3>6. QED
      BY <3>3, <3>5 DEF RunInv
  <2>9. ASSUME NEW w \in Worker, BodyEnds(w) PROVE RunInv'
    <3>1. PICK i \in Job(w) : stage[i] = "body" /\ stage' = [stage EXCEPT ![i] = "cleanup"]
      BY <2>9 DEF BodyEnds, StartCleanup
    <3>2. i \in Test /\ UNCHANGED <<pc, phase, rest, wpc, job, canceled>>
      BY <2>9 DEF BodyEnds, Job, runVars, poolVars, breakVars
    <3>3. QED
      BY <3>1, <3>2, RunInvAdvance DEF InFlight
  <2>10. ASSUME NEW w \in Worker, Watchdog(w) PROVE RunInv'
    <3>1. PICK i \in Job(w) : stage[i] = "body" /\ stage' = [stage EXCEPT ![i] = "cleanup"]
      BY <2>10 DEF Watchdog, StartCleanup
    <3>2. i \in Test /\ UNCHANGED <<pc, phase, rest, wpc, job, canceled>>
      BY <2>10 DEF Watchdog, Job, runVars, poolVars, breakVars
    <3>3. QED
      BY <3>1, <3>2, RunInvAdvance DEF InFlight
  <2>11. ASSUME NEW w \in Worker, CleanupEnds(w) PROVE RunInv'
    <3>1. PICK i \in Job(w) : stage[i] = "cleanup" /\ stage' = [stage EXCEPT ![i] = "settled"]
      BY <2>11 DEF CleanupEnds, SettleTest
    <3>2. i \in Test /\ UNCHANGED <<pc, phase, rest, wpc, job, canceled>>
      BY <2>11 DEF CleanupEnds, Job, runVars, poolVars
    <3>3. QED
      BY <3>1, <3>2, RunInvAdvance DEF InFlight
  <2>12. ASSUME NEW w \in Worker, CleanupTimer(w) PROVE RunInv'
    <3>1. PICK i \in Job(w) : stage[i] = "cleanup" /\ stage' = [stage EXCEPT ![i] = "settled"]
      BY <2>12 DEF CleanupTimer, SettleTest
    <3>2. i \in Test /\ UNCHANGED <<pc, phase, rest, wpc, job, canceled>>
      BY <2>12 DEF CleanupTimer, Job, runVars, poolVars
    <3>3. QED
      BY <3>1, <3>2, RunInvAdvance DEF InFlight
  <2>13. ASSUME NEW w \in Worker, Record(w) PROVE RunInv'
    <3>1. PICK i \in Job(w) : stage[i] = "settled" /\ stage' = [stage EXCEPT ![i] = "done"]
      BY <2>13 DEF Record
    <3>2. /\ i \in Test /\ Holds(w, i)
          /\ UNCHANGED <<pc, phase, rest, canceled>>
          /\ wpc' = [wpc EXCEPT ![w] = "recv"] /\ job' = [job EXCEPT ![w] = NoTest]
      BY <2>13, <3>1 DEF Record, Job, Holds, runVars, breakVars
    <3>3. /\ \A v \in Worker : wpc'[v] = IF v = w THEN "recv" ELSE wpc[v]
          /\ \A v \in Worker : job'[v] = IF v = w THEN NoTest ELSE job[v]
          /\ \A j \in Test : stage'[j] = IF j = i THEN "done" ELSE stage[j]
      BY <3>1, <3>2 DEF RunInv, TypeOK
    <3>4. HoldInv'
      <4>1. \A v \in Worker \ {w} : \A j \in Test : Holds(v, j)' <=> Holds(v, j)
        BY <3>3 DEF Holds
      <4>2. \A j \in Test : ~Holds(w, j)'
        BY <3>3 DEF Holds
      <4>3. \A v \in Worker : wpc'[v] = "busy" =>
               job'[v] \in Test /\ stage'[job'[v]] \in InFlight /\ (job'[v] \in Serial <=> v = 0)
        BY <3>2, <3>3 DEF RunInv, HoldInv, Holds
      <4>4. \A j \in rest' : stage'[j] = "new"
        BY <3>1, <3>2, <3>3 DEF RunInv, TypeOK, HoldInv
      <4>5. \A u, v \in Worker : \A j \in Test : Holds(u, j)' /\ Holds(v, j)' => u = v
        BY <4>1, <4>2 DEF RunInv, HoldInv
      <4>6. \A j \in Test : stage'[j] \in InFlight => \E v \in Worker : Holds(v, j)'
        <5> SUFFICES ASSUME NEW j \in Test, stage'[j] \in InFlight
                     PROVE  \E v \in Worker : Holds(v, j)'
          OBVIOUS
        <5>1. j # i /\ stage[j] \in InFlight
          BY <3>3 DEF InFlight
        <5>2. PICK v \in Worker : Holds(v, j)
          BY <5>1 DEF RunInv, HoldInv
        <5>3. v # w
          BY <3>2, <5>1, <5>2 DEF Holds
        <5>4. QED
          BY <4>1, <5>2, <5>3
      <4>7. QED
        BY <4>3, <4>4, <4>5, <4>6 DEF HoldInv, Holds
    <3>5. PhaseInv'
      <4>1. /\ SerialDone => SerialDone'
            /\ PoolNew => PoolNew'
        BY <3>1, <3>3, SchedulerAssumption DEF SerialDone, PoolNew
      <4>2. \A j \in Test : stage'[j] = "new" <=> stage[j] = "new"
        BY <3>1, <3>3
      <4>3. Indexes(phase) \subseteq Test /\ Pool(phase) \subseteq Worker /\ 0 \in Worker
        BY ConstTypes DEF RunInv, TypeOK
      <4>4. wpc[w] = "busy"
        BY <3>2 DEF Holds
      <4>5. QED
        BY <3>2, <3>3, <4>1, <4>2, <4>3, <4>4 DEF RunInv, PhaseInv
    <3>6. QED
      BY <3>4, <3>5 DEF RunInv
  <2>14. CASE StrayBodyEnds \/ StrayCleanupEnds
    BY <2>14, RunInvUnchanged
    DEF StrayBodyEnds, StrayCleanupEnds, runVars, poolVars, breakVars
  <2>15. CASE WatchStep
    BY <2>15, RunInvUnchanged DEF WatchStep, StallCheck, StallCancel, WatcherExit,
       runVars, poolVars, testVars
  <2>16. CASE Interrupt
    BY <2>16, RunInvUnchanged DEF Interrupt, runVars, poolVars, testVars
  <2>17. CASE Tick
    BY <2>17, RunInvUnchanged DEF Tick, runVars, poolVars, testVars, breakVars
  <2>18. CASE UNCHANGED vars
    BY <2>18, RunInvUnchanged DEF vars, runVars, poolVars, testVars, breakVars
  <2>19. QED
    BY <2>1, <2>2, <2>3, <2>4, <2>5, <2>6, <2>7, <2>8, <2>9, <2>10, <2>11, <2>12,
       <2>13, <2>14, <2>15, <2>16, <2>17, <2>18
    DEF Next, RunStep, WorkerStep, Environment
<1>3. QED
  BY <1>1, <1>2, TypeCorrect, PTL DEF Spec

\* Every test in flight is held by exactly one worker (runIndexes, finish).
THEOREM OneHolderAlways == Spec => []OneHolder
<1>1. RunInv => OneHolder
  <2> SUFFICES ASSUME RunInv, NEW i \in Test
               PROVE  stage[i] \in InFlight <=>
                        \E w \in Worker : Job(w) = {i} /\ \A v \in Worker \ {w} : i \notin Job(v)
    BY DEF OneHolder
  <2>1. \A w \in Worker : Job(w) = {i} <=> Holds(w, i)
    BY DEF Job, Holds
  <2>2. \A w \in Worker : i \in Job(w) <=> Holds(w, i)
    BY DEF Job, Holds
  <2>3. \A w \in Worker : Holds(w, i) => stage[i] \in InFlight
    BY DEF RunInv, HoldInv, Holds
  <2>4. \A v, w \in Worker : Holds(v, i) /\ Holds(w, i) => v = w
    BY DEF RunInv, HoldInv
  <2>5. stage[i] \in InFlight => \E w \in Worker : Holds(w, i)
    BY DEF RunInv, HoldInv
  <2>6. QED
    BY <2>1, <2>2, <2>3, <2>4, <2>5
<1>2. QED
  BY <1>1, RunInvariant, PTL

\* The serial phase is over when the pool starts, and it runs its tests one at
\* a time (Run, runIndexes).
THEOREM SerialFirstAlways == Spec => []SerialFirst
<1>1. RunInv => SerialFirst
  <2> SUFFICES ASSUME RunInv PROVE SerialFirst
    OBVIOUS
  <2>1. (\E i \in Started : i \notin Serial) => \A j \in Serial : stage[j] = "done"
    BY DEF RunInv, PhaseInv, PoolNew, SerialDone, Started
  <2>2. ASSUME NEW i \in Serial, NEW j \in Serial, {stage[i], stage[j]} \subseteq InFlight
        PROVE  i = j
    <3>1. i \in Test /\ j \in Test
      BY SchedulerAssumption
    <3>2. PICK v \in Worker : Holds(v, i)
      BY <2>2, <3>1 DEF RunInv, HoldInv
    <3>3. PICK w \in Worker : Holds(w, j)
      BY <2>2, <3>1 DEF RunInv, HoldInv
    <3>4. v = 0 /\ w = 0
      BY <3>2, <3>3 DEF RunInv, HoldInv, Holds
    <3>5. QED
      BY <3>2, <3>3, <3>4 DEF Holds
  <2>3. QED
    BY <2>1, <2>2 DEF SerialFirst
<1>2. QED
  BY <1>1, RunInvariant, PTL

-----------------------------------------------------------------------------
(* Why a run stops.                                                        *)

\* A run is only cut short after the reason is known.
BreakInv ==
  /\ canceled /\ pc # "returned" => interrupted \/ err # "none"
  /\ watcher = "failing" => err # "none"
  /\ pc = "collect" => interrupted \/ err # "none" \/ \A i \in Test : stage[i] = "done"
  /\ pc = "return" => out = Test \/ interrupted \/ err # "none"
  /\ pc = "returned" => canceled /\ (out = Test \/ interrupted \/ retErr # "none")

\* What a step may do to the variables of BreakInv, whoever takes it.
LEMMA BreakInvStep ==
  ASSUME RunInv, BreakInv, UNCHANGED <<pc, out, retErr>>,
         interrupted => interrupted', err # "none" => err' # "none",
         canceled' => canceled \/ interrupted' \/ err' # "none", canceled => canceled',
         watcher' = "failing" => err' # "none",
         \A i \in Test : stage[i] = "done" => stage'[i] = "done"
  PROVE  BreakInv'
BY DEF BreakInv

THEOREM BreakInvariant == Spec => []BreakInv
<1>1. Init => BreakInv
  BY DEF Init, BreakInv
<1>2. RunInv /\ BreakInv /\ [Next]_vars => BreakInv'
  <2> SUFFICES ASSUME RunInv, BreakInv, [Next]_vars PROVE BreakInv'
    OBVIOUS
  <2>1. CASE EnterPhase
    <3>1. /\ UNCHANGED <<out, stage, canceled, interrupted, err, watcher, retErr>>
          /\ pc = "enter"
          /\ pc' \in {"feed", "enter", "collect"}
          /\ pc' = "collect" => phase = "parallel" /\ Test \ Serial = {} /\ ~canceled
      BY <2>1, PoolFacts DEF EnterPhase, Leave, testVars, breakVars, RunInv, TypeOK
    <3>2. pc' = "collect" => \A i \in Test : stage[i] = "done"
      BY <3>1 DEF RunInv, PhaseInv, SerialDone
    <3>3. QED
      BY <3>1, <3>2 DEF BreakInv
  <2>2. CASE SkipParallel
    BY <2>2 DEF SkipParallel, BreakInv, testVars, breakVars
  <2>3. CASE CloseQueue
    BY <2>3 DEF CloseQueue, BreakInv, testVars, breakVars
  <2>4. CASE Wait
    <3>1. /\ UNCHANGED <<out, stage, canceled, interrupted, err, watcher, retErr>>
          /\ pc = "wait" /\ (PoolGone \/ canceled)
          /\ pc' = IF phase = "serial" THEN "enter" ELSE "collect"
      BY <2>4 DEF Wait, Leave, testVars, breakVars
    <3>2. phase = "parallel" /\ ~canceled => \A i \in Test : stage[i] = "done"
      BY <3>1, PhaseComplete, PoolFacts DEF RunInv, PhaseInv, SerialDone
    <3>3. QED
      BY <3>1, <3>2 DEF BreakInv, RunInv, TypeOK
  <2>5. CASE Collect
    <3>1. /\ UNCHANGED <<stage, canceled, interrupted, err, watcher, retErr>>
          /\ pc = "collect" /\ pc' = "return"
          /\ out' = {i \in Test : stage[i] = "done"}
      BY <2>5 DEF Collect, testVars, breakVars
    <3>2. QED
      BY <3>1 DEF BreakInv
  <2>6. CASE Return
    BY <2>6 DEF Return, BreakInv
  <2>7. ASSUME NEW w \in Worker, Feed(w) PROVE BreakInv'
    <3>1. PICK i \in rest : stage' = [stage EXCEPT ![i] = "body"]
      BY <2>7 DEF Feed
    <3>2. stage[i] = "new"
      BY DEF RunInv, HoldInv
    <3>3. QED
      BY <2>7, <3>1, <3>2, BreakInvStep DEF Feed, BreakInv, RunInv, TypeOK, breakVars
  <2>8. ASSUME NEW w \in Worker, Exit(w) PROVE BreakInv'
    BY <2>8, BreakInvStep DEF Exit, BreakInv, runVars, testVars, breakVars
  <2>9. ASSUME NEW w \in Worker, BodyEnds(w) PROVE BreakInv'
    BY <2>9, BreakInvStep
    DEF BodyEnds, StartCleanup, Job, BreakInv, RunInv, TypeOK, runVars, breakVars
  <2>10. ASSUME NEW w \in Worker, Watchdog(w) PROVE BreakInv'
    BY <2>10, BreakInvStep
    DEF Watchdog, StartCleanup, Job, BreakInv, RunInv, TypeOK, runVars, breakVars
  <2>11. ASSUME NEW w \in Worker, CleanupEnds(w) PROVE BreakInv'
    BY <2>11, BreakInvStep
    DEF CleanupEnds, SettleTest, Fail, Job, BreakInv, RunInv, TypeOK, runVars
  <2>12. ASSUME NEW w \in Worker, CleanupTimer(w) PROVE BreakInv'
    BY <2>12, BreakInvStep
    DEF CleanupTimer, SettleTest, Fail, Job, BreakInv, RunInv, TypeOK, runVars
  <2>13. ASSUME NEW w \in Worker, Record(w) PROVE BreakInv'
    BY <2>13, BreakInvStep DEF Record, Job, BreakInv, RunInv, TypeOK, runVars, breakVars
  <2>14. CASE StrayBodyEnds \/ StrayCleanupEnds
    BY <2>14, BreakInvStep DEF StrayBodyEnds, StrayCleanupEnds, BreakInv, runVars, breakVars
  <2>15. CASE WatchStep
    BY <2>15, BreakInvStep
    DEF WatchStep, StallCheck, StallCancel, WatcherExit, Fail, BreakInv, runVars, testVars
  <2>16. CASE Interrupt
    BY <2>16, BreakInvStep DEF Interrupt, BreakInv, runVars, testVars
  <2>17. CASE Tick
    BY <2>17, BreakInvStep DEF Tick, BreakInv, runVars, testVars, breakVars
  <2>18. CASE UNCHANGED vars
    BY <2>18, BreakInvStep DEF vars, BreakInv, runVars, testVars, breakVars
  <2>19. QED
    BY <2>1, <2>2, <2>3, <2>4, <2>5, <2>6, <2>7, <2>8, <2>9, <2>10, <2>11, <2>12,
       <2>13, <2>14, <2>15, <2>16, <2>17, <2>18
    DEF Next, RunStep, WorkerStep, Environment
<1>3. QED
  BY <1>1, <1>2, RunInvariant, PTL DEF Spec

\* Run() never returns fewer results than tests without an interrupt or an
\* error (Run, runIndexes, watchStall).
THEOREM NoSilentTruncationAlways == Spec => []NoSilentTruncation
<1>1. BreakInv => NoSilentTruncation
  BY DEF BreakInv, NoSilentTruncation
<1>2. QED
  BY <1>1, BreakInvariant, PTL

-----------------------------------------------------------------------------
(* The stall watcher and the bounds of a test.                             *)

\* Progress is never older than any test in flight, and a worker that is free
\* to take a test does so at once.
TimeInv ==
  /\ idle <= BodyBound + CleanupTimeout
  /\ \A i \in Test : stage[i] = "body" => idle + timer[i] <= BodyBound
  /\ \A i \in Test : stage[i] = "cleanup" => idle + timer[i] <= BodyBound + CleanupTimeout
  /\ \A i \in Test : stage[i] = "settled" => idle = 0
  /\ \A w \in Worker : wpc[w] = "recv" => idle = 0
  /\ pc = "enter" /\ (phase = "serial" \/ ~canceled) => idle = 0
  /\ pc = "wait" /\ ~canceled /\ PoolGone => idle = 0
  /\ StallTimeout > BodyBound + CleanupTimeout => err # "stall" /\ watcher # "failing"

\* Steps that neither move a test or a worker nor let time pass.
LEMMA TimeInvUnchanged ==
  ASSUME TimeInv, UNCHANGED <<pc, phase, wpc, stage, timer, idle, err>>,
         canceled => canceled', watcher' = "failing" => watcher = "failing"
  PROVE  TimeInv'
BY DEF TimeInv, PoolGone

\* Steps that end a test: progress is stored.
LEMMA TimeInvSettle ==
  ASSUME RunInv, TimeInv, NEW i \in Test, NEW bad \in BOOLEAN, SettleTest(i, bad),
         UNCHANGED <<pc, phase, wpc, canceled, watcher>>
  PROVE  TimeInv'
<1>1. /\ stage' = [stage EXCEPT ![i] = "settled"]
      /\ timer' = [timer EXCEPT ![i] = 0]
      /\ idle' = 0
      /\ err' \in {"none", "leak", err}
  BY DEF SettleTest, Fail
<1>2. /\ \A j \in Test : stage'[j] = IF j = i THEN "settled" ELSE stage[j]
      /\ \A j \in Test : timer'[j] = IF j = i THEN 0 ELSE timer[j]
      /\ \A j \in Test : timer[j] \in Nat
      /\ idle \in Nat
  BY <1>1 DEF RunInv, TypeOK
<1>3. \A j \in Test : timer'[j] <= idle + timer[j]
  BY <1>2
<1>4. /\ \A j \in Test : stage'[j] = "body" => idle' + timer'[j] <= BodyBound
      /\ \A j \in Test : stage'[j] = "cleanup" => idle' + timer'[j] <= BodyBound + CleanupTimeout
  BY <1>1, <1>2, <1>3, ConstTypes DEF TimeInv
<1>5. idle' <= BodyBound + CleanupTimeout
  BY <1>1, ConstTypes
<1>6. QED
  BY <1>1, <1>4, <1>5 DEF TimeInv

THEOREM TimeInvariant == ASSUME PerTestBounds PROVE Spec => []TimeInv
<1>1. Init => TimeInv
  BY ConstTypes DEF Init, TimeInv
<1>2. RunInv /\ RunInv' /\ BreakInv /\ TimeInv /\ [Next]_vars => TimeInv'
  <2> SUFFICES ASSUME RunInv, RunInv', BreakInv, TimeInv, [Next]_vars PROVE TimeInv'
    OBVIOUS
  <2>1. CASE EnterPhase
    <3>1. /\ UNCHANGED <<stage, timer, idle, err, watcher, canceled>>
          /\ pc = "enter" /\ pc' \in {"enter", "collect", "feed"}
          /\ phase = "serial" \/ ~canceled
      BY <2>1 DEF EnterPhase, Leave, testVars, timeVars, breakVars
    <3>2. idle = 0
      BY <3>1 DEF TimeInv
    <3>3. QED
      BY <3>1, <3>2 DEF TimeInv
  <2>2. CASE SkipParallel
    BY <2>2 DEF SkipParallel, TimeInv, poolVars, testVars, timeVars, breakVars
  <2>3. CASE CloseQueue
    <3>1. /\ UNCHANGED <<phase, wpc, stage, timer, idle, err, watcher, canceled>>
          /\ pc = "feed" /\ pc' = "wait"
      BY <2>3 DEF CloseQueue, poolVars, testVars, timeVars, breakVars
    <3>2. ~PoolGone'
      BY <3>1 DEF RunInv, PhaseInv, PoolGone
    <3>3. QED
      BY <3>1, <3>2 DEF TimeInv
  <2>4. CASE Wait
    <3>1. /\ UNCHANGED <<wpc, stage, timer, idle, err, watcher, canceled>>
          /\ pc = "wait" /\ (PoolGone \/ canceled) /\ pc' \in {"enter", "collect"}
          /\ phase' = "parallel"
      BY <2>4 DEF Wait, Leave, poolVars, testVars, timeVars, breakVars
    <3>2. QED
      BY <3>1 DEF TimeInv
  <2>5. CASE Collect
    BY <2>5 DEF Collect, TimeInv, poolVars, testVars, timeVars, breakVars
  <2>6. CASE Return
    BY <2>6 DEF Return, TimeInv, poolVars, testVars, timeVars
  <2>7. ASSUME NEW w \in Worker, Feed(w) PROVE TimeInv'
    <3>1. PICK i \in rest :
            /\ stage' = [stage EXCEPT ![i] = "body"]
            /\ timer' = [timer EXCEPT ![i] = BodyBound]
      BY <2>7 DEF Feed
    <3>2. /\ UNCHANGED <<pc, phase, idle, err, watcher, canceled>>
          /\ pc = "feed" /\ wpc[w] = "recv" /\ wpc' = [wpc EXCEPT ![w] = "busy"]
      BY <2>7 DEF Feed, breakVars
    <3>3. idle = 0
      BY <3>2 DEF TimeInv
    <3>4. /\ \A j \in Test : stage'[j] = IF j = i THEN "body" ELSE stage[j]
          /\ \A j \in Test : timer'[j] = IF j = i THEN BodyBound ELSE timer[j]
      BY <3>1 DEF RunInv, TypeOK
    <3>5. QED
      BY <3>2, <3>3, <3>4, ConstTypes DEF TimeInv
  <2>8. ASSUME NEW w \in Worker, Exit(w) PROVE TimeInv'
    <3>1. /\ UNCHANGED <<pc, phase, stage, timer, idle, err, watcher, canceled>>
          /\ wpc[w] = "recv" /\ wpc' = [wpc EXCEPT ![w] = "gone"]
      BY <2>8 DEF Exit, runVars, testVars, timeVars, breakVars
    <3>2. idle = 0
      BY <3>1 DEF TimeInv
    <3>3. QED
      BY <3>1, <3>2 DEF TimeInv
  <2>9. ASSUME NEW w \in Worker, NEW i \in Job(w), stage[i] = "body", StartCleanup(i),
               UNCHANGED <<pc, phase, wpc, idle, err, watcher, canceled>>
        PROVE  TimeInv'
    <3>1. /\ i \in Test /\ idle \in Nat /\ timer[i] \in Nat
          /\ idle + timer[i] <= BodyBound
      BY <2>9 DEF TimeInv, RunInv, TypeOK, Job
    <3>2. idle <= BodyBound /\ idle + CleanupTimeout <= BodyBound + CleanupTimeout
      BY <3>1, ConstTypes
    <3>3. /\ \A j \in Test : stage'[j] = IF j = i THEN "cleanup" ELSE stage[j]
          /\ \A j \in Test : timer'[j] = IF j = i THEN CleanupTimeout ELSE timer[j]
      BY <2>9 DEF StartCleanup, RunInv, TypeOK
    <3>4. QED
      BY <2>9, <3>2, <3>3 DEF TimeInv, PoolGone
  <2>10. ASSUME NEW w \in Worker, BodyEnds(w) \/ Watchdog(w) PROVE TimeInv'
    BY <2>9, <2>10 DEF BodyEnds, Watchdog, runVars, poolVars, breakVars
  <2>11. ASSUME NEW w \in Worker, CleanupEnds(w) \/ CleanupTimer(w) PROVE TimeInv'
    <3>1. PICK i \in Job(w), bad \in BOOLEAN : SettleTest(i, bad)
      BY <2>11, TRUE \in BOOLEAN DEF CleanupEnds, CleanupTimer
    <3>2. i \in Test
      BY DEF Job
    <3>3. UNCHANGED <<pc, phase, wpc, canceled, watcher>>
      BY <2>11 DEF CleanupEnds, CleanupTimer, runVars, poolVars
    <3>4. QED
      BY <3>1, <3>2, <3>3, TimeInvSettle
  <2>12. ASSUME NEW w \in Worker, Record(w) PROVE TimeInv'
    <3>1. PICK i \in Job(w) : stage[i] = "settled" /\ stage' = [stage EXCEPT ![i] = "done"]
      BY <2>12 DEF Record
    <3>2. /\ i \in Test /\ wpc[w] = "busy"
          /\ UNCHANGED <<pc, phase, timer, idle, err, watcher, canceled>>
          /\ wpc' = [wpc EXCEPT ![w] = "recv"]
      BY <2>12, <3>1 DEF Record, Job, runVars, timeVars, breakVars
    <3>3. idle = 0
      BY <3>1, <3>2 DEF TimeInv
    <3>4. \A j \in Test : stage'[j] = IF j = i THEN "done" ELSE stage[j]
      BY <3>1 DEF RunInv, TypeOK
    <3>5. QED
      BY <3>2, <3>3, <3>4 DEF TimeInv
  <2>13. CASE StrayBodyEnds \/ StrayCleanupEnds
    BY <2>13, TimeInvUnchanged
    DEF StrayBodyEnds, StrayCleanupEnds, runVars, poolVars, timeVars, breakVars
  <2>14. CASE StallCheck
    <3>1. CASE idle < StallTimeout
      BY <2>14, <3>1, TimeInvUnchanged DEF StallCheck, runVars, poolVars, testVars
    <3>2. CASE ~(idle < StallTimeout)
      <4>1. ~(StallTimeout > BodyBound + CleanupTimeout)
        BY <3>2, ConstTypes DEF TimeInv, RunInv, TypeOK
      <4>2. UNCHANGED <<pc, phase, wpc, stage, timer, idle, canceled>>
        BY <2>14 DEF StallCheck, runVars, poolVars, testVars
      <4>3. QED
        BY <4>1, <4>2 DEF TimeInv, PoolGone
    <3>3. QED
      BY <3>1, <3>2
  <2>15. CASE StallCancel \/ WatcherExit \/ Interrupt
    BY <2>15, TimeInvUnchanged
    DEF StallCancel, WatcherExit, Interrupt, runVars, poolVars, testVars, timeVars
  <2>16. CASE Tick
    <3>1. /\ UNCHANGED <<pc, phase, wpc, job, stage, err, watcher, canceled>>
          /\ RunBlocked /\ WatcherBlocked
          /\ \A w \in Worker : WorkerBlocked(w)
          /\ \A i \in Test : timer'[i] = Dec(timer[i])
          /\ idle' = IF watcher = "on" /\ idle < StallTimeout THEN idle + 1 ELSE idle
      BY <2>16 DEF Tick, runVars, poolVars, testVars, breakVars
    <3>2. /\ idle \in Nat
          /\ \A i \in Test : timer[i] \in Nat
      BY DEF RunInv, TypeOK
    <3>3. /\ \A i \in Test : stage[i] \in InFlight => stage[i] # "settled" /\ timer[i] > 0
          /\ \A w \in Worker : wpc[w] # "recv"
      <4>1. \A w \in Worker : wpc[w] # "recv"
        BY <3>1 DEF WorkerBlocked, Job
      <4>2. ASSUME NEW i \in Test, stage[i] \in InFlight PROVE stage[i] # "settled" /\ timer[i] > 0
        <5>1. PICK w \in Worker : Holds(w, i)
          BY <4>2 DEF RunInv, HoldInv
        <5>2. WorkerBlocked(w)
          BY <3>1
        <5>3. QED
          BY <5>1, <5>2, PerTestBounds DEF WorkerBlocked, Job, Holds, PerTestBounds
      <4>3. QED
        BY <4>1, <4>2
    <3>4. \A i \in Test : stage[i] \in InFlight => idle' + timer'[i] <= idle + timer[i]
      BY <3>1, <3>2, <3>3 DEF Dec
    <3>5. /\ \A i \in Test : stage'[i] = "body" => idle' + timer'[i] <= BodyBound
          /\ \A i \in Test : stage'[i] = "cleanup" =>
               idle' + timer'[i] <= BodyBound + CleanupTimeout
      <4>1. \A i \in Test : timer'[i] \in Nat /\ idle' \in Nat
        BY <3>1, <3>2 DEF Dec
      <4>2. QED
        BY <3>1, <3>2, <3>4, <4>1, ConstTypes DEF TimeInv, InFlight
    <3>6. idle' <= BodyBound + CleanupTimeout
      <4>1. CASE watcher = "on"
        <5>1. ~canceled /\ pc # "returned"
          BY <3>1, <4>1 DEF WatcherBlocked, BreakInv
        <5>2. \E w \in Worker : wpc[w] = "busy"
          <6>1. PICK w \in Pool(phase) : wpc[w] \notin {"off", "recv", "gone"}
            BY <3>1, <3>3, <5>1, ConstTypes
            DEF RunBlocked, RunInv, TypeOK, PhaseInv, PoolGone
          <6>2. QED
            BY <6>1, ConstTypes DEF RunInv, TypeOK
        <5>3. PICK i \in Test : stage[i] \in InFlight
          BY <5>2 DEF RunInv, HoldInv
        <5>4. QED
          BY <3>1, <3>2, <3>3, <3>5, <5>3, ConstTypes DEF TimeInv, InFlight, Dec
      <4>2. CASE watcher # "on"
        BY <3>1, <4>2 DEF TimeInv
      <4>3. QED
        BY <4>1, <4>2
    <3>7. pc \in {"feed", "wait", "returned"} /\ (pc = "wait" /\ ~canceled => ~PoolGone)
      BY <3>1 DEF RunBlocked
    <3>8. QED
      BY <3>1, <3>3, <3>5, <3>6, <3>7 DEF TimeInv, PoolGone, InFlight
  <2>17. CASE UNCHANGED vars
    BY <2>17, TimeInvUnchanged DEF vars, runVars, poolVars, testVars, timeVars, breakVars
  <2>18. QED
    BY <2>1, <2>2, <2>3, <2>4, <2>5, <2>6, <2>7, <2>8, <2>10, <2>11, <2>12,
       <2>13, <2>14, <2>15, <2>16, <2>17
    DEF Next, RunStep, WorkerStep, WatchStep, Environment
<1>3. QED
  BY <1>1, <1>2, RunInvariant, BreakInvariant, PTL DEF Spec

\* A stall timeout above what one test may take never fires (watchStall).
THEOREM NoSpuriousStallAlways == Spec => []NoSpuriousStall
<1>1. CASE PerTestBounds
  <2>1. TimeInv => NoSpuriousStall
    BY DEF TimeInv, NoSpuriousStall
  <2>2. QED
    BY <1>1, <2>1, TimeInvariant, PTL
<1>2. CASE ~PerTestBounds
  <2>1. NoSpuriousStall
    BY <1>2 DEF NoSpuriousStall
  <2>2. QED
    BY <2>1, PTL
<1>3. QED
  BY <1>1, <1>2

-----------------------------------------------------------------------------
(* Reported timeouts and final results.                                    *)

Counted == {i \in Test : stage[i] \in {"settled", "done"} /\ status[i] = "timeout"}
Reported == {i \in out : status[i] = "timeout"}

\* leaked counts the timeouts settled so far, and the limit is acted on before
\* the result that reached it is recorded.
LeakInv ==
  /\ leaked = Cardinality(Counted)
  /\ MaxLeaked > 0 /\ leaked >= MaxLeaked => err # "none"
  /\ \A i \in out : stage[i] = "done"
  /\ pc = "returned" /\ MaxLeaked > 0 /\ Cardinality(Reported) >= MaxLeaked
       => retErr # "none"

\* A step leaves the results that exist alone.
KeepsResults ==
  \A i \in Test : stage[i] = "done" => stage'[i] = "done" /\ status'[i] = status[i]

LEMMA FiniteTests ==
  /\ IsFiniteSet(Test)
  /\ \A S : S \subseteq Test => IsFiniteSet(S)
<1>1. IsFiniteSet(Test)
  BY FS_Interval, SchedulerAssumption DEF Test
<1>2. QED
  BY <1>1, FS_Subset

\* Steps that settle no test.
LEMMA LeakInvStep ==
  ASSUME RunInv, LeakInv, KeepsResults, Counted' = Counted, UNCHANGED <<pc, out, retErr, leaked>>,
         err # "none" => err' # "none"
  PROVE  LeakInv'
<1>1. Reported' = Reported
  BY DEF Reported, LeakInv, KeepsResults, RunInv, TypeOK
<1>2. \A i \in out' : stage'[i] = "done"
  BY DEF LeakInv, KeepsResults, RunInv, TypeOK
<1>3. QED
  BY <1>1, <1>2 DEF LeakInv

\* Steps that settle one.
LEMMA LeakInvSettle ==
  ASSUME RunInv, LeakInv, NEW i \in Test, NEW bad \in BOOLEAN, SettleTest(i, bad),
         stage[i] = "cleanup", UNCHANGED <<pc, out, retErr>>
  PROVE  LeakInv' /\ KeepsResults
<1> DEFINE s == Settle(i \in abandoned, status[i], CtxDone(i), bad)
<1>1. /\ status' = [status EXCEPT ![i] = s]
      /\ stage' = [stage EXCEPT ![i] = "settled"]
      /\ s = "timeout" => leaked' = leaked + 1
      /\ s = "timeout" => IF MaxLeaked > 0 /\ leaked' >= MaxLeaked
                          THEN err' = IF err = "none" THEN "leak" ELSE err ELSE err' = err
      /\ s # "timeout" => leaked' = leaked /\ err' = err
  BY DEF SettleTest, Fail
<1> HIDE DEF s
<1>2. /\ \A j \in Test : status'[j] = IF j = i THEN s ELSE status[j]
      /\ \A j \in Test : stage'[j] = IF j = i THEN "settled" ELSE stage[j]
  BY <1>1 DEF RunInv, TypeOK
<1>3. KeepsResults
  BY <1>2 DEF KeepsResults
<1>4. i \notin Counted /\ Counted' = IF s = "timeout" THEN Counted \cup {i} ELSE Counted
  BY <1>2 DEF Counted
<1>5. IsFiniteSet(Counted) /\ Cardinality(Counted) \in Nat
  BY FiniteTests, FS_CardinalityType DEF Counted
<1>6. leaked' = Cardinality(Counted')
  BY <1>1, <1>4, <1>5, FS_AddElement DEF LeakInv
<1>7. MaxLeaked > 0 /\ leaked' >= MaxLeaked => err' # "none"
  BY <1>1 DEF LeakInv
<1>8. Reported' = Reported /\ \A j \in out' : stage'[j] = "done"
  BY <1>3 DEF Reported, LeakInv, KeepsResults, RunInv, TypeOK
<1>9. err # "none" => err' # "none"
  BY <1>1
<1>10. QED
  BY <1>3, <1>6, <1>7, <1>8 DEF LeakInv

\* Every step keeps the results and LeakInv.
LEMMA LeakInvNext ==
  ASSUME RunInv, LeakInv, [Next]_vars
  PROVE  LeakInv' /\ KeepsResults
<1> USE DEF KeepsResults
<1>1. CASE Collect
  <2>1. /\ UNCHANGED <<stage, status, leaked, err, retErr>>
        /\ out' = {i \in Test : stage[i] = "done"} /\ pc' = "return"
    BY <1>1 DEF Collect, testVars, breakVars
  <2>2. Counted' = Counted
    BY <2>1 DEF Counted
  <2>3. QED
    BY <2>1, <2>2 DEF LeakInv
<1>2. CASE Return
  <2>1. /\ UNCHANGED <<stage, status, leaked, err, out>> /\ retErr' = err
    BY <1>2 DEF Return, testVars
  <2>2. Counted' = Counted /\ Reported' = Reported
    BY <2>1 DEF Counted, Reported
  <2>3. Reported \subseteq Counted
    BY DEF Reported, Counted, LeakInv, RunInv, TypeOK
  <2>4. Cardinality(Reported) <= Cardinality(Counted)
    BY <2>3, FiniteTests, FS_Subset DEF Counted
  <2>5. /\ Cardinality(Reported) \in Nat /\ Cardinality(Counted) \in Nat
    BY <2>3, FiniteTests, FS_CardinalityType DEF Counted
  <2>6. QED
    BY <2>1, <2>2, <2>4, <2>5, SchedulerAssumption DEF LeakInv
<1>3. CASE EnterPhase \/ SkipParallel \/ CloseQueue \/ Wait
  <2>1. /\ UNCHANGED <<stage, status, leaked, err, retErr, out>>
        /\ pc' # "returned"
    BY <1>3 DEF EnterPhase, SkipParallel, CloseQueue, Wait, Leave, testVars, breakVars
  <2>2. Counted' = Counted
    BY <2>1 DEF Counted
  <2>3. QED
    BY <2>1, <2>2 DEF LeakInv
<1>4. ASSUME NEW w \in Worker, Feed(w) PROVE LeakInv' /\ KeepsResults
  <2>1. PICK i \in rest : stage' = [stage EXCEPT ![i] = "body"]
    BY <1>4 DEF Feed
  <2>2. /\ i \in Test /\ stage[i] = "new"
        /\ UNCHANGED <<pc, out, retErr, leaked, err, status>>
    BY <1>4 DEF Feed, breakVars, RunInv, TypeOK, HoldInv
  <2>3. KeepsResults /\ Counted' = Counted
    BY <2>1, <2>2 DEF RunInv, TypeOK, Counted
  <2>4. QED
    BY <2>2, <2>3, LeakInvStep
<1>5. ASSUME NEW w \in Worker, BodyEnds(w) \/ Watchdog(w) PROVE LeakInv' /\ KeepsResults
  <2>1. PICK i \in Job(w), s \in Status :
          /\ stage[i] = "body"
          /\ stage' = [stage EXCEPT ![i] = "cleanup"]
          /\ status' = [status EXCEPT ![i] = s]
    <3>1. \A e \in Ending, m \in BOOLEAN : Invoke(e, m) \in Status
      BY InvokeType DEF Status
    <3>2. "timeout" \in Status
      BY DEF Status
    <3>3. QED
      BY <1>5, <3>1, <3>2 DEF BodyEnds, Watchdog, StartCleanup
  <2>2. i \in Test /\ UNCHANGED <<pc, out, retErr, leaked, err>>
    BY <1>5 DEF BodyEnds, Watchdog, Job, runVars, breakVars
  <2>3. KeepsResults /\ Counted' = Counted
    BY <2>1, <2>2 DEF RunInv, TypeOK, Counted
  <2>4. QED
    BY <2>2, <2>3, LeakInvStep
<1>6. ASSUME NEW w \in Worker, CleanupEnds(w) \/ CleanupTimer(w) PROVE LeakInv' /\ KeepsResults
  <2>1. PICK i \in Job(w), bad \in BOOLEAN : stage[i] = "cleanup" /\ SettleTest(i, bad)
    BY <1>6, TRUE \in BOOLEAN DEF CleanupEnds, CleanupTimer
  <2>2. i \in Test /\ UNCHANGED <<pc, out, retErr>>
    BY <1>6 DEF CleanupEnds, CleanupTimer, Job, runVars
  <2>3. QED
    BY <2>1, <2>2, LeakInvSettle
<1>7. ASSUME NEW w \in Worker, Record(w) PROVE LeakInv' /\ KeepsResults
  <2>1. PICK i \in Job(w) : stage[i] = "settled" /\ stage' = [stage EXCEPT ![i] = "done"]
    BY <1>7 DEF Record
  <2>2. i \in Test /\ UNCHANGED <<pc, out, retErr, leaked, err, status>>
    BY <1>7 DEF Record, Job, runVars, breakVars
  <2>3. KeepsResults /\ Counted' = Counted
    BY <2>1, <2>2 DEF RunInv, TypeOK, Counted
  <2>4. QED
    BY <2>2, <2>3, LeakInvStep
<1>8. ASSUME UNCHANGED <<stage, status, pc, out, retErr, leaked>>, err # "none" => err' # "none"
      PROVE  LeakInv' /\ KeepsResults
  BY <1>8, LeakInvStep DEF Counted
<1>9. ASSUME NEW w \in Worker, Exit(w) PROVE LeakInv' /\ KeepsResults
  BY <1>8, <1>9 DEF Exit, runVars, testVars, breakVars
<1>10. CASE StrayBodyEnds \/ StrayCleanupEnds
  BY <1>8, <1>10 DEF StrayBodyEnds, StrayCleanupEnds, runVars, breakVars
<1>11. CASE WatchStep
  BY <1>8, <1>11 DEF WatchStep, StallCheck, StallCancel, WatcherExit, Fail, runVars, testVars
<1>12. CASE Interrupt
  BY <1>8, <1>12 DEF Interrupt, runVars, testVars
<1>13. CASE Tick
  BY <1>8, <1>13 DEF Tick, runVars, testVars, breakVars
<1>14. CASE UNCHANGED vars
  BY <1>8, <1>14 DEF vars, runVars, testVars, breakVars
<1>15. QED
  BY <1>1, <1>2, <1>3, <1>4, <1>5, <1>6, <1>7, <1>9, <1>10, <1>11, <1>12, <1>13, <1>14
  DEF Next, RunStep, WorkerStep, Environment

THEOREM LeakInvariant == Spec => []LeakInv
<1>1. Init => LeakInv
  <2> SUFFICES ASSUME Init PROVE LeakInv
    OBVIOUS
  <2>1. Counted = {}
    BY DEF Init, Counted
  <2>2. QED
    BY <2>1, FS_EmptySet, SchedulerAssumption DEF Init, LeakInv
<1>2. QED
  BY <1>1, LeakInvNext, RunInvariant, PTL DEF Spec

\* A test that was given up is past its body, with the status of the watchdog.
AbandonedInv ==
  \A i \in abandoned : stage[i] \in {"cleanup", "settled", "done"} /\ status[i] = "timeout"

\* Every step keeps that.
LEMMA AbandonedNext ==
  ASSUME RunInv, AbandonedInv, [Next]_vars
  PROVE  AbandonedInv'
<1>1. ASSUME UNCHANGED <<stage, status, abandoned>> PROVE AbandonedInv'
  BY <1>1 DEF AbandonedInv
<1>2. CASE RunStep \/ WatchStep \/ Interrupt \/ Tick \/ StrayBodyEnds \/ StrayCleanupEnds
  BY <1>1, <1>2 DEF RunStep, EnterPhase, SkipParallel, CloseQueue, Wait, Collect, Return,
     WatchStep, StallCheck, StallCancel, WatcherExit, Interrupt, Tick, StrayBodyEnds,
     StrayCleanupEnds, testVars
<1>3. CASE UNCHANGED vars
  BY <1>1, <1>3 DEF vars, testVars
<1>4. ASSUME NEW w \in Worker, Exit(w) PROVE AbandonedInv'
  BY <1>1, <1>4 DEF Exit, testVars
<1>5. ASSUME NEW w \in Worker, Feed(w) PROVE AbandonedInv'
  <2>1. PICK i \in rest : stage' = [stage EXCEPT ![i] = "body"]
    BY <1>5 DEF Feed
  <2>2. stage[i] = "new" /\ UNCHANGED <<status, abandoned>>
    BY <1>5 DEF Feed, RunInv, TypeOK, HoldInv
  <2>3. QED
    BY <2>1, <2>2 DEF AbandonedInv, RunInv, TypeOK
<1>6. ASSUME NEW w \in Worker, BodyEnds(w) \/ Watchdog(w) PROVE AbandonedInv'
  <2>1. PICK i \in Job(w) :
          /\ stage[i] = "body"
          /\ stage' = [stage EXCEPT ![i] = "cleanup"]
          /\ \E s : status' = [status EXCEPT ![i] = s]
          /\ abandoned' = abandoned
               \/ (abandoned' = abandoned \cup {i} /\ status' = [status EXCEPT ![i] = "timeout"])
    BY <1>6 DEF BodyEnds, Watchdog, StartCleanup
  <2>2. i \in Test /\ i \notin abandoned
    BY <2>1 DEF Job, AbandonedInv
  <2>3. QED
    BY <2>1, <2>2 DEF AbandonedInv, RunInv, TypeOK
<1>7. ASSUME NEW w \in Worker, CleanupEnds(w) \/ CleanupTimer(w) PROVE AbandonedInv'
  <2>1. PICK i \in Job(w), bad \in BOOLEAN : SettleTest(i, bad)
    BY <1>7, TRUE \in BOOLEAN DEF CleanupEnds, CleanupTimer
  <2>2. UNCHANGED abandoned /\ stage' = [stage EXCEPT ![i] = "settled"]
    BY <1>7, <2>1 DEF CleanupEnds, CleanupTimer, SettleTest
  <2>3. status' = [status EXCEPT ![i] = Settle(i \in abandoned, status[i], CtxDone(i), bad)]
    BY <2>1 DEF SettleTest
  <2>4. i \in abandoned => status' = [status EXCEPT ![i] = "timeout"]
    BY <2>3 DEF Settle
  <2>5. QED
    BY <2>2, <2>3, <2>4 DEF AbandonedInv, RunInv, TypeOK
<1>8. ASSUME NEW w \in Worker, Record(w) PROVE AbandonedInv'
  <2>1. PICK i \in Job(w) : stage[i] = "settled" /\ stage' = [stage EXCEPT ![i] = "done"]
    BY <1>8 DEF Record
  <2>2. UNCHANGED <<status, abandoned>>
    BY <1>8 DEF Record
  <2>3. QED
    BY <2>1, <2>2 DEF AbandonedInv, RunInv, TypeOK
<1>9. QED
  BY <1>2, <1>3, <1>4, <1>5, <1>6, <1>7, <1>8 DEF Next, WorkerStep, Environment

\* Run() returns an error if MaxLeaked of its results are those of abandoned
\* tests (checkLeaked).
THEOREM LeaksReportedAlways == Spec => []LeaksReported
<1>1. Init => AbandonedInv
  BY DEF Init, AbandonedInv
<1>2. RunInv /\ LeakInv /\ AbandonedInv => LeaksReported
  <2> SUFFICES ASSUME RunInv, LeakInv, AbandonedInv PROVE LeaksReported
    OBVIOUS
  <2>1. out \cap abandoned \subseteq Reported /\ Reported \subseteq Test
    BY DEF Reported, AbandonedInv, RunInv, TypeOK
  <2>2. /\ Cardinality(out \cap abandoned) <= Cardinality(Reported)
        /\ Cardinality(out \cap abandoned) \in Nat /\ Cardinality(Reported) \in Nat
    BY <2>1, FiniteTests, FS_Subset, FS_CardinalityType
  <2>3. QED
    BY <2>2, SchedulerAssumption DEF LeakInv, LeaksReported
<1>3. QED
  BY <1>1, <1>2, AbandonedNext, RunInvariant, LeakInvariant, PTL DEF Spec

\* A recorded result never changes, also after Run() has returned (finish).
THEOREM ResultsFinalAlways == Spec => ResultsFinal
<1>1. RunInv /\ LeakInv /\ [Next]_vars =>
        [\A i \in Test : stage[i] = "done" => stage'[i] = "done" /\ status'[i] = status[i]]_vars
  BY LeakInvNext DEF KeepsResults
<1>2. QED
  BY <1>1, RunInvariant, LeakInvariant, PTL DEF Spec, ResultsFinal
=============================================================================

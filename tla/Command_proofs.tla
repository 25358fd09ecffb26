---------------------------- MODULE Command_proofs ----------------------------
(***************************************************************************)
(* Proofs about Command: typing, and what exit status 0 means.  The        *)
(* invariant CommandInv follows a result from the verdict of its test      *)
(* through the report of Run(), classification and the report files to the *)
(* exit status.                                                            *)
(***************************************************************************)
EXTENDS Command, TLAPS

\* What Run() has gathered explains itself: results are missing only if the
\* run was interrupted or broke down, and without an error, only in the former
\* case.
GatherInv ==
  /\ report.state # "pending" =>
       /\ \A i \in report.tests : verdict[i] # NoStatus
       /\ report.tests = Test \/ interrupted \/ reason # "none"
  /\ report.state = "returned" /\ report.error = "none" =>
       report.tests = Test \/ interrupted

\* Nothing is written before Run() has returned.
StartInv == pc \in {"start", "run"} => json = {} /\ DOMAIN junit = {}

\* Past Run(), the results are those of its report, classified.
ResultsInv ==
  pc \in {"json", "junit", "summary"} =>
    /\ report.state = "returned"
    /\ report.error = "none"
    /\ DOMAIN results = report.tests
    /\ \A i \in report.tests : results[i] = Classify(i \in known, verdict[i])

\* Past each report, it is complete if it was asked for.
FilesInv ==
  /\ pc \in {"junit", "summary"} => ("json" \in wants => json = DOMAIN results)
  /\ pc = "summary" => ("junit" \in wants =>
       junit = [i \in DOMAIN results |-> JUnitCase(results[i])])

ExitInv ==
  exit = "success" =>
    /\ pc = "summary"
    /\ ~interrupted
    /\ \A i \in DOMAIN results : ~CountsAsFailure(results[i])

CommandInv == GatherInv /\ StartInv /\ ResultsInv /\ FilesInv /\ ExitInv

USE DEF Run!NoStatus, Run!Status, NoStatus, Status

-----------------------------------------------------------------------------
\* Classification stays within the reported statuses and inverts a verdict
\* exactly for the known failures (Classify).
LEMMA ClassifyType ==
  ASSUME NEW e \in BOOLEAN, NEW s \in Status
  PROVE  Classify(e, s) \in Reported
BY DEF Classify, Reported

\* A classified result that does not count as a failure was expected
\* (Classify, summary).
LEMMA NoFailureExpected ==
  ASSUME NEW e \in BOOLEAN, NEW s \in Status, ~CountsAsFailure(Classify(e, s))
  PROVE  \/ s = "skipped"
         \/ s = "passed" /\ ~e
         \/ s \in {"failed", "timeout"} /\ e
BY DEF Classify, CountsAsFailure

\* A result that does not count as a failure is no failure in the JUnit report
\* (summary, writeJUnit).
LEMMA NoFailureInJUnit ==
  ASSUME NEW s \in Reported, ~CountsAsFailure(s)
  PROVE  JUnitCase(s) # "failure"
BY DEF Reported, CountsAsFailure, JUnitCase

-----------------------------------------------------------------------------
\* A verdict that exists stays, and so does a report that Run() has returned
\* (RunContract, whose steps InRun takes).
LEMMA RunKeeps ==
  ASSUME ContractType, InRun
  PROVE  /\ \A i \in Test : verdict[i] # NoStatus => verdict'[i] = verdict[i]
         /\ report.state = "returned" => report' = report
         /\ interrupted' = interrupted
         /\ reason # "none" => reason' = reason
<1>1. CASE \E i \in Test : Run!Decide(i)
  BY <1>1 DEF ContractType, Run!Decide
<1>2. CASE Run!Break
  BY <1>2 DEF ContractType, Run!Break
<1>3. CASE Run!Gather
  BY <1>3 DEF ContractType, Run!Gather
<1>4. CASE Run!Return
  BY <1>4 DEF ContractType, Run!Return
<1> QED BY <1>1, <1>2, <1>3, <1>4 DEF InRun

\* The steps of the run keep its variables typed (RunContract).
LEMMA RunTyped ==
  ASSUME ContractType, InRun
  PROVE  ContractType'
<1>1. CASE \E i \in Test : Run!Decide(i)
  BY <1>1 DEF ContractType, Run!Decide
<1>2. CASE Run!Break
  BY <1>2 DEF ContractType, Run!Break
<1>3. CASE Run!Gather
  <2>1. Run!Decided \subseteq Test
    BY DEF Run!Decided
  <2> QED BY <1>3, <2>1 DEF ContractType, Run!Gather
<1>4. CASE Run!Return
  <2>1. report \in [state : {"gathered"}, tests : SUBSET Test]
    BY <1>4 DEF ContractType, Run!Return
  <2> QED BY <1>4, <2>1 DEF ContractType, Run!Return
<1> QED BY <1>1, <1>2, <1>3, <1>4 DEF InRun

\* The steps of the run keep what its report says (RunContract).
LEMMA RunGathers ==
  ASSUME ContractType, GatherInv, InRun
  PROVE  GatherInv'
<1>1. CASE \E i \in Test : Run!Decide(i)
  BY <1>1 DEF ContractType, GatherInv, Run!Decide
<1>2. CASE Run!Break
  BY <1>2 DEF ContractType, GatherInv, Run!Break
<1>3. CASE Run!Gather
  BY <1>3 DEF ContractType, GatherInv, Run!Gather, Run!Decided
<1>4. CASE Run!Return
  BY <1>4 DEF ContractType, GatherInv, Run!Return
<1> QED BY <1>1, <1>2, <1>3, <1>4 DEF InRun

-----------------------------------------------------------------------------
\* The type invariant is inductive.
LEMMA TypeStep == ASSUME TypeOK, CommandInv, [Next]_vars PROVE TypeOK'
<1> USE DEF TypeOK
<1>1. CASE InRun
  <2>1. ContractType'
    BY <1>1, RunTyped
  <2>2. MainType' /\ ReportType' /\ SignalType'
    BY <1>1 DEF InRun, MainType, ReportType, SignalType, reportVars, signalVars
  <2> QED BY <2>1, <2>2
<1>2. CASE Resolve
  BY <1>2 DEF Resolve, contractVars, reportVars, signalVars,
              ContractType, MainType, ReportType, SignalType
<1>3. CASE RunFailed
  BY <1>3 DEF RunFailed, contractVars, reportVars, signalVars,
              ContractType, MainType, ReportType, SignalType
<1>4. CASE RunSucceeded
  <2>1. report.tests \subseteq Test
    BY <1>4 DEF ContractType, RunSucceeded
  <2>2. \A i \in report.tests : verdict[i] \in Status
    BY <1>4, <2>1 DEF CommandInv, GatherInv, ContractType, RunSucceeded
  <2>3. \A i \in report.tests : Classify(i \in known, verdict[i]) \in Reported
    <3> TAKE i \in report.tests
    <3> DEFINE e == i \in known
    <3>1. e \in BOOLEAN
      OBVIOUS
    <3> HIDE DEF e
    <3>2. Classify(e, verdict[i]) \in Reported
      BY <2>2, <3>1, ClassifyType
    <3> QED BY <3>2 DEF e
  <2>4. json = {} /\ DOMAIN junit = {}
    BY <1>4 DEF CommandInv, StartInv, RunSucceeded
  <2>5. ReportType'
    <3>1. results' = [i \in report.tests |-> Classify(i \in known, verdict[i])]
      BY <1>4 DEF RunSucceeded
    <3>2. json' = {} /\ DOMAIN junit' = {}
      BY <1>4, <2>4 DEF RunSucceeded
    <3>3. DOMAIN results' = report.tests
      BY <3>1
    <3>4. \A i \in DOMAIN results' : results'[i] \in Reported
      BY <2>3, <3>1
    <3> QED BY <2>1, <3>2, <3>3, <3>4 DEF ReportType
  <2> QED
    BY <1>4, <2>5 DEF RunSucceeded, contractVars, signalVars,
                      ContractType, MainType, SignalType
<1>5. CASE WriteLine
  BY <1>5 DEF WriteLine, contractVars, signalVars,
              ContractType, MainType, ReportType, SignalType
<1>6. CASE CloseJSON
  BY <1>6 DEF CloseJSON, contractVars, reportVars, signalVars,
              ContractType, MainType, ReportType, SignalType
<1>7. CASE WriteJUnit
  BY <1>7 DEF WriteJUnit, contractVars, signalVars,
              ContractType, MainType, ReportType, SignalType
<1>8. CASE WriteFails
  BY <1>8 DEF WriteFails, contractVars, reportVars, signalVars,
              ContractType, MainType, ReportType, SignalType
<1>9. CASE Finish
  BY <1>9 DEF Finish, contractVars, reportVars, signalVars,
              ContractType, MainType, ReportType, SignalType
<1>10. CASE Signal
  BY <1>10, CommandAssumption
     DEF Signal, SignalBuffer, contractVars, reportVars,
         ContractType, MainType, ReportType, SignalType
<1>11. CASE FirstSignal
  BY <1>11 DEF FirstSignal, Run!Interrupt, reportVars,
               ContractType, MainType, ReportType, SignalType
<1>12. CASE SecondSignal
  BY <1>12 DEF SecondSignal, contractVars, reportVars,
               ContractType, MainType, ReportType, SignalType
<1>13. CASE UNCHANGED vars
  BY <1>13 DEF vars, contractVars, reportVars, signalVars,
               ContractType, MainType, ReportType, SignalType
<1> QED BY <1>1, <1>2, <1>3, <1>4, <1>5, <1>6, <1>7, <1>8, <1>9, <1>10, <1>11,
           <1>12, <1>13 DEF Next, Main, Handler

\* The rest of the invariant is inductive.
LEMMA CommandStep ==
  ASSUME TypeOK, CommandInv, exit = "none", Next
  PROVE  CommandInv'
<1> USE DEF TypeOK, CommandInv
<1>1. CASE InRun
  <2>1. GatherInv'
    BY <1>1, RunGathers
  <2>2. StartInv' /\ FilesInv' /\ ExitInv'
    BY <1>1 DEF InRun, reportVars, StartInv, FilesInv, ExitInv
  <2>3. ResultsInv'
    <3>1. SUFFICES ASSUME pc \in {"json", "junit", "summary"} PROVE ResultsInv'
      BY <1>1 DEF ResultsInv, InRun
    <3>2. report' = report /\ results' = results /\ known' = known
      BY <1>1, <3>1, RunKeeps DEF ResultsInv, InRun, reportVars
    <3>3. \A i \in report.tests : verdict'[i] = verdict[i]
      <4>1. report.tests \subseteq Test
        BY <3>1 DEF ResultsInv, ContractType
      <4>2. \A i \in report.tests : verdict[i] # NoStatus
        BY <3>1 DEF ResultsInv, GatherInv
      <4> QED BY <1>1, <4>1, <4>2, RunKeeps
    <3> QED BY <3>1, <3>2, <3>3 DEF ResultsInv
  <2> QED BY <2>1, <2>2, <2>3
<1>2. CASE Resolve
  BY <1>2 DEF Resolve, contractVars, reportVars,
              GatherInv, StartInv, ResultsInv, FilesInv, ExitInv
<1>3. CASE RunFailed
  BY <1>3 DEF RunFailed, contractVars, reportVars,
              GatherInv, StartInv, ResultsInv, FilesInv, ExitInv
<1>4. CASE RunSucceeded
  BY <1>4 DEF RunSucceeded, contractVars,
              GatherInv, StartInv, ResultsInv, FilesInv, ExitInv
<1>5. CASE WriteLine
  BY <1>5 DEF WriteLine, contractVars,
              GatherInv, StartInv, ResultsInv, FilesInv, ExitInv
<1>6. CASE CloseJSON
  BY <1>6 DEF CloseJSON, contractVars, reportVars,
              GatherInv, StartInv, ResultsInv, FilesInv, ExitInv
<1>7. CASE WriteJUnit
  BY <1>7 DEF WriteJUnit, contractVars,
              GatherInv, StartInv, ResultsInv, FilesInv, ExitInv
<1>8. CASE WriteFails
  BY <1>8 DEF WriteFails, contractVars, reportVars,
              GatherInv, StartInv, ResultsInv, FilesInv, ExitInv
<1>9. CASE Finish
  BY <1>9 DEF Finish, contractVars, reportVars,
              GatherInv, StartInv, ResultsInv, FilesInv, ExitInv
<1>10. CASE Signal
  BY <1>10 DEF Signal, contractVars, reportVars,
               GatherInv, StartInv, ResultsInv, FilesInv, ExitInv
<1>11. CASE FirstSignal
  BY <1>11 DEF FirstSignal, Run!Interrupt, reportVars,
               GatherInv, StartInv, ResultsInv, FilesInv, ExitInv
<1>12. CASE SecondSignal
  BY <1>12 DEF SecondSignal, contractVars, reportVars,
               GatherInv, StartInv, ResultsInv, FilesInv, ExitInv
<1> QED BY <1>1, <1>2, <1>3, <1>4, <1>5, <1>6, <1>7, <1>8, <1>9, <1>10, <1>11,
           <1>12 DEF Next, Main, Handler

LEMMA InitInv == Init => TypeOK /\ CommandInv
<1> SUFFICES ASSUME Init PROVE TypeOK /\ CommandInv
  OBVIOUS
<1>1. ContractType
  BY DEF Init, Run!Init, ContractType
<1>2. MainType /\ SignalType
  BY CommandAssumption DEF Init, MainType, SignalType
<1>3. DOMAIN results = {} /\ DOMAIN junit = {} /\ json = {}
  BY DEF Init, Empty
<1>4. ReportType
  BY <1>3 DEF ReportType
<1>5. CommandInv
  BY <1>3 DEF Init, Run!Init, CommandInv, GatherInv, StartInv, ResultsInv,
              FilesInv, ExitInv
<1> QED BY <1>1, <1>2, <1>4, <1>5 DEF TypeOK

THEOREM Invariant == Spec => [](TypeOK /\ CommandInv)
<1>1. TypeOK /\ CommandInv /\ [Next]_vars => (TypeOK /\ CommandInv)'
  <2> SUFFICES ASSUME TypeOK, CommandInv, [Next]_vars
               PROVE  TypeOK' /\ CommandInv'
    OBVIOUS
  <2>1. TypeOK'
    BY TypeStep
  <2>2. CASE Next
    <3>1. exit = "none"
      BY <2>2 DEF Next
    <3> QED BY <2>1, <2>2, <3>1, CommandStep
  <2>3. CASE UNCHANGED vars
    BY <2>1, <2>3 DEF vars, contractVars, reportVars, signalVars, CommandInv,
                GatherInv, StartInv, ResultsInv, FilesInv, ExitInv
  <2> QED BY <2>1, <2>2, <2>3
<1> QED BY <1>1, InitInv, PTL DEF Spec

\* The variables of the process keep their types, for any number of tests and
\* signals (RunE, interruptContext).
THEOREM TypeCorrect == Spec => []TypeOK
BY Invariant, PTL

\* Exit status 0 says that every selected test has the expected verdict, for
\* any run that keeps the contract of Run() (RunE, Classify, summary).
THEOREM SuccessMeansExpectedAlways == Spec => []SuccessMeansExpected
<1>1. TypeOK /\ CommandInv => SuccessMeansExpected
  <2> SUFFICES ASSUME TypeOK, CommandInv, exit = "success", NEW i \in Test
               PROVE  AsExpected(i)
    BY DEF SuccessMeansExpected
  <2>1. pc = "summary" /\ ~interrupted
    BY DEF CommandInv, ExitInv
  <2>2. report.tests = Test /\ DOMAIN results = Test
    BY <2>1 DEF CommandInv, ResultsInv, GatherInv
  <2>3. verdict[i] \in Status
    BY <2>1, <2>2 DEF CommandInv, ResultsInv, GatherInv, TypeOK, ContractType
  <2>4. results[i] = Classify(i \in known, verdict[i])
    BY <2>1, <2>2 DEF CommandInv, ResultsInv
  <2>5. ~CountsAsFailure(results[i])
    BY <2>2 DEF CommandInv, ExitInv
  <2> DEFINE e == i \in known
  <2>6. e \in BOOLEAN
    OBVIOUS
  <2>7. ~CountsAsFailure(Classify(e, verdict[i]))
    BY <2>4, <2>5
  <2> HIDE DEF e
  <2>8. \/ verdict[i] = "skipped"
        \/ verdict[i] = "passed" /\ ~e
        \/ verdict[i] \in {"failed", "timeout"} /\ e
    BY <2>3, <2>6, <2>7, NoFailureExpected
  <2> QED BY <2>8 DEF e, AsExpected
<1> QED BY <1>1, Invariant, PTL

\* Exit status 0 says that the reports asked for are complete (RunE,
\* writeJSON, writeJUnit).
THEOREM SuccessMeansReportedAlways == Spec => []SuccessMeansReported
<1>1. TypeOK /\ CommandInv => SuccessMeansReported
  <2> SUFFICES ASSUME TypeOK, CommandInv, exit = "success"
               PROVE  /\ "json" \in wants => json = Test
                      /\ "junit" \in wants => /\ DOMAIN junit = Test
                                              /\ \A i \in Test : junit[i] # "failure"
    BY DEF SuccessMeansReported
  <2>1. pc = "summary" /\ ~interrupted
    BY DEF CommandInv, ExitInv
  <2>2. DOMAIN results = Test
    BY <2>1 DEF CommandInv, ResultsInv, GatherInv
  <2>3. "json" \in wants => json = Test
    BY <2>1, <2>2 DEF CommandInv, FilesInv
  <2>4. "junit" \in wants => junit = [i \in Test |-> JUnitCase(results[i])]
    BY <2>1, <2>2 DEF CommandInv, FilesInv
  <2>5. \A i \in Test : JUnitCase(results[i]) # "failure"
    <3> TAKE i \in Test
    <3>1. results[i] \in Reported
      BY <2>2 DEF TypeOK, ReportType
    <3>2. ~CountsAsFailure(results[i])
      BY <2>2 DEF CommandInv, ExitInv
    <3> QED BY <3>1, <3>2, NoFailureInJUnit
  <2> QED BY <2>3, <2>4, <2>5
<1> QED BY <1>1, Invariant, PTL
=============================================================================

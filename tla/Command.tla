------------------------------- MODULE Command -------------------------------
(***************************************************************************)
(* The process around one run: main() with its two-stage interrupt         *)
(* handler, and RunE of the run command, which resolves the selection,     *)
(* calls Runner.Run, classifies the results by the known failures, writes  *)
(* the reports and derives the exit status.                                *)
(*                                                                         *)
(* Of Runner.Run it assumes RunContract and no more; what implements       *)
(* RunContract can take its place.  Tests that Run() left behind go on     *)
(* while the reports are written, until the process exits.                 *)
(***************************************************************************)
EXTENDS Integers, Verdict

CONSTANTS
  NTests,     \* how many tests are selected
  MaxSignals  \* bounds the signals the process receives

Test == 1..NTests

ASSUME CommandAssumption ==
  /\ NTests \in Nat \ {0}
  /\ MaxSignals \in Nat

VARIABLES
  verdict, reason, interrupted, report, \* of RunContract
  pc,       \* RunE: "start", "run", "json", "junit", "summary"
  known,    \* the selected tests listed as known failures
  wants,    \* the reports asked for, among "json" and "junit"
  results,  \* the classified results Run() returned, by test
  json,     \* the tests whose line is in the JSON report
  junit,    \* the test cases of the JUnit report, once it is complete
  sent,     \* signals sent to the process
  channel,  \* signals in the channel of interruptContext
  handler,  \* the signal its goroutine waits for: "first" or "second"
  exit      \* "none" while the process lives, or how it exited

contractVars == <<verdict, reason, interrupted, report>>
reportVars == <<results, json, junit>>
signalVars == <<sent, channel, handler>>
vars == <<contractVars, pc, known, wants, reportVars, signalVars, exit>>

Run == INSTANCE RunContract

Reported == Status \cup {"xfail", "xpass"}

\* No test has a result yet, or no report is written.
Empty == [i \in {} |-> NoStatus]

ContractType ==
  /\ verdict \in [Test -> Status \cup {NoStatus}]
  /\ reason \in {"none", "leak", "stall"}
  /\ interrupted \in BOOLEAN
  /\ \/ report = [state |-> "pending"]
     \/ report \in [state : {"gathered"}, tests : SUBSET Test]
     \/ report \in [state : {"returned"}, tests : SUBSET Test,
                    error : {"none", "leak", "stall"}]

MainType ==
  /\ pc \in {"start", "run", "json", "junit", "summary"}
  /\ known \subseteq Test
  /\ wants \subseteq {"json", "junit"}
  /\ exit \in {"none", "success", "failure", "interrupted"}

ReportType ==
  /\ DOMAIN results \subseteq Test
  /\ \A i \in DOMAIN results : results[i] \in Reported
  /\ json \subseteq DOMAIN results
  /\ DOMAIN junit \subseteq DOMAIN results

SignalType ==
  /\ sent \in 0..MaxSignals
  /\ channel \in Nat
  /\ handler \in {"first", "second"}

TypeOK == ContractType /\ MainType /\ ReportType /\ SignalType

Init ==
  /\ Run!Init
  /\ pc = "start"
  /\ known = {}
  /\ wants = {}
  /\ results = Empty
  /\ json = {}
  /\ junit = Empty
  /\ sent = 0
  /\ channel = 0
  /\ handler = "first"
  /\ exit = "none"

-----------------------------------------------------------------------------
(* Classification.                                                         *)

\* KnownFailures.Classify.  A skip is left alone.
Classify(expected, s) ==
  CASE expected /\ s \in {"failed", "timeout"} -> "xfail"
    [] expected /\ s = "passed" -> "xpass"
    [] OTHER -> s

\* What summary() counts as failed.
CountsAsFailure(s) == s \in {"failed", "timeout", "xpass"}

\* A test case of the JUnit report holds a failure, a skip or nothing.
JUnitCase(s) ==
  CASE s \in {"failed", "timeout"} -> "failure"
    [] s = "skipped" -> "skipped"
    [] OTHER -> "empty"

-----------------------------------------------------------------------------
(* RunE.                                                                   *)

\* Configuration, selection or the known-failures file may be refused, and an
\* empty selection is.
Resolve ==
  /\ pc = "start"
  /\ \/ /\ pc' = "run"
        /\ known' \in SUBSET Test
        /\ wants' \in SUBSET {"json", "junit"}
        /\ UNCHANGED exit
     \/ /\ exit' = "failure"
        /\ UNCHANGED <<pc, known, wants>>
  /\ UNCHANGED <<contractVars, reportVars, signalVars>>

\* What Run() and the goroutines it leaves behind do.
InRun ==
  /\ pc # "start"
  /\ (\E i \in Test : Run!Decide(i)) \/ Run!Break \/ Run!Gather \/ Run!Return
  /\ UNCHANGED <<pc, known, wants, reportVars, signalVars, exit>>

\* An error of Run() ends the command before any report is written.
RunFailed ==
  /\ pc = "run"
  /\ report.state = "returned" /\ report.error # "none"
  /\ exit' = "failure"
  /\ UNCHANGED <<contractVars, pc, known, wants, reportVars, signalVars>>

RunSucceeded ==
  /\ pc = "run"
  /\ report.state = "returned" /\ report.error = "none"
  /\ results' = [i \in report.tests |-> Classify(i \in known, verdict[i])]
  /\ pc' = "json"
  /\ UNCHANGED <<contractVars, known, wants, json, junit, signalVars, exit>>

\* A variant of WriteLine: there is a line for every selected test.
WriteLineOfTest ==
  /\ pc = "json"
  /\ "json" \in wants
  /\ \E i \in Test \ json :
       /\ \A j \in Test \ json : i <= j
       /\ json' = json \cup {i}
  /\ UNCHANGED <<contractVars, pc, known, wants, results, junit, signalVars, exit>>

\* One line of the JSON report, in the order of the results.
WriteLine ==
  /\ pc = "json"
  /\ "json" \in wants
  /\ \E i \in DOMAIN results \ json :
       /\ \A j \in DOMAIN results \ json : i <= j
       /\ json' = json \cup {i}
  /\ UNCHANGED <<contractVars, pc, known, wants, results, junit, signalVars, exit>>

CloseJSON ==
  /\ pc = "json"
  /\ "json" \in wants => json = DOMAIN results
  /\ pc' = "junit"
  /\ UNCHANGED <<contractVars, known, wants, reportVars, signalVars, exit>>

\* A variant of WriteJUnit: a file that cannot be written is let pass.
WriteJUnitOrNot ==
  /\ pc = "junit"
  /\ junit' \in {junit, [i \in DOMAIN results |-> JUnitCase(results[i])]}
  /\ pc' = "summary"
  /\ UNCHANGED <<contractVars, known, wants, results, json, signalVars, exit>>

WriteJUnit ==
  /\ pc = "junit"
  /\ junit' = IF "junit" \in wants
              THEN [i \in DOMAIN results |-> JUnitCase(results[i])] ELSE junit
  /\ pc' = "summary"
  /\ UNCHANGED <<contractVars, known, wants, results, json, signalVars, exit>>

\* A report cannot be created, written or closed; what was written so far
\* stays.
WriteFails ==
  /\ pc \in {"json", "junit"}
  /\ pc \in wants
  /\ exit' = "failure"
  /\ UNCHANGED <<contractVars, pc, known, wants, reportVars, signalVars>>

\* A variant of Finish: the interrupt does not reach the exit status.
FinishBySummary ==
  /\ pc = "summary"
  /\ exit' = IF \E i \in DOMAIN results : CountsAsFailure(results[i])
             THEN "failure" ELSE "success"
  /\ UNCHANGED <<contractVars, pc, known, wants, reportVars, signalVars>>

\* The context is read after the summary, and an interrupt wins over failures.
Finish ==
  /\ pc = "summary"
  /\ exit' = IF interrupted THEN "interrupted"
             ELSE IF \E i \in DOMAIN results : CountsAsFailure(results[i])
             THEN "failure" ELSE "success"
  /\ UNCHANGED <<contractVars, pc, known, wants, reportVars, signalVars>>

Main == \/ Resolve \/ RunFailed \/ RunSucceeded \/ WriteLine \/ CloseJSON
        \/ WriteJUnit \/ WriteFails \/ Finish

-----------------------------------------------------------------------------
(* Signals.                                                                *)

\* A variant of SignalBuffer: room for the signal that is waited for.
OneSignal == 1

\* The capacity of the channel of interruptContext.
SignalBuffer == 2

\* signal.Notify does not wait for room in the channel.
Signal ==
  /\ sent < MaxSignals
  /\ sent' = sent + 1
  /\ channel' = IF channel < SignalBuffer THEN channel + 1 ELSE channel
  /\ UNCHANGED <<contractVars, pc, known, wants, reportVars, handler, exit>>

\* A variant of FirstSignal: it is noted, and the context is left alone.
FirstSignalNoted ==
  /\ handler = "first"
  /\ channel > 0
  /\ channel' = channel - 1
  /\ handler' = "second"
  /\ UNCHANGED <<contractVars, pc, known, wants, reportVars, sent, exit>>

\* The first signal cancels the context.
FirstSignal ==
  /\ handler = "first"
  /\ channel > 0
  /\ channel' = channel - 1
  /\ handler' = "second"
  /\ Run!Interrupt
  /\ UNCHANGED <<pc, known, wants, reportVars, sent, exit>>

\* The second one exits, whatever the rest of the process is doing.
SecondSignal ==
  /\ handler = "second"
  /\ channel > 0
  /\ channel' = channel - 1
  /\ exit' = "interrupted"
  /\ UNCHANGED <<contractVars, pc, known, wants, reportVars, sent, handler>>

Handler == FirstSignal \/ SecondSignal

-----------------------------------------------------------------------------

Next == exit = "none" /\ (InRun \/ Main \/ Signal \/ Handler)

Spec == Init /\ [][Next]_vars

\* The goroutine of the signal handler runs.  Nothing is assumed of the rest.
FairSpec == Spec /\ WF_vars(exit = "none" /\ Handler)

\* Run() returns once it is canceled, which is what Scheduler shows of it, and
\* files are written or refused.
MainRuns ==
  /\ WF_vars(exit = "none" /\ Main)
  /\ WF_vars(exit = "none" /\ InRun /\ report' # report)

-----------------------------------------------------------------------------
(* Safety.                                                                 *)

\* Exit status 0 says that every selected test has a verdict and that it is the
\* expected one: nothing outside the known failures failed and nothing among
\* them passed.  An interrupt or a breakdown at any time, also one that leaves
\* only passed tests in the results, leads to another status (RunE, Classify,
\* summary).
AsExpected(i) ==
  \/ verdict[i] = "skipped"
  \/ verdict[i] = "passed" /\ i \notin known
  \/ verdict[i] \in {"failed", "timeout"} /\ i \in known

SuccessMeansExpected == exit = "success" => \A i \in Test : AsExpected(i)

\* Exit status 0 says that the reports asked for are complete and that the
\* JUnit report holds no failure (RunE, writeJSON, writeJUnit).
SuccessMeansReported ==
  exit = "success" =>
    /\ "json" \in wants => json = Test
    /\ "junit" \in wants => /\ DOMAIN junit = Test
                            /\ \A i \in Test : junit[i] # "failure"

-----------------------------------------------------------------------------
(* Liveness.                                                               *)

\* Someone who interrupts twice gets out, even if the run and the reports hang
\* and both signals arrive before the handler runs (interruptContext).
TwoInterruptsExit == sent >= 2 ~> exit # "none"

\* One interrupt is enough if Run() keeps its bounds (interruptContext, RunE).
OneInterruptExits == MainRuns => (sent >= 1 ~> exit # "none")
=============================================================================

# A TLA+ model of s3t

`s3t` runs an S3 compatibility suite (a port of ceph/s3-tests) against a server.
It exists because a conformance suite points at servers that may be broken, so
its own promise is about *not hanging, not lying and not littering*: every wait is
bounded, every verdict says what happened, every bucket is removed. This directory
models the parts of the program that keep that promise, checks them with TLC on
small instances and proves the main results with TLAPS for every instance.

## 1. The system

### Components

| component | source | state | operations |
|---|---|---|---|
| scheduler | `internal/harness/run.go` (`Runner.Run`, `runIndexes`, `finish`, `checkLeaked`, `watchStall`, `fail`, `collect`) | results and done flags, `leaked`, `progress`, the first error, a cancelable context, an unbuffered queue, worker goroutines | partition, feed, receive, record, count a timeout, detect a stall, cancel, collect |
| test execution | `run.go` (`runOne`, `runBody`, `runCleanups`, `invoke`), `t.go` | the test's context with deadline, its `T` (failed, logs, skip reason, cleanups), the goroutines of body and cleanups | `Errorf`, `Fatalf`, `Skipf`, `Cleanup`, watchdog, cleanup timer, settle the status |
| known failures | `expect.go` | the set of names expected to fail | parse, classify |
| marker expressions | `markers.go` | tokens and position of a recursive descent parser | lex, parse, evaluate |
| registry, selection | `registry.go`, `select.go` | a name-unique set of tests | validate, look up, resolve an allow-list, select |
| run command | `internal/cmd/run.go`, `report.go`, `export.go` | flags, results, the two report files | resolve, run, classify, write reports, summarise |
| other commands | `internal/cmd/root.go`, `list.go`, `select.go`, `version.go` | flags | print |
| process | `cmd/s3t/main.go` | signal channel, root context | first and second interrupt, exit status |
| fixture | `internal/fixture/fixture.go` | bucket prefix (with slug and token) and counter of a test | name a bucket, create it, register its removal, empty and delete it |
| retry | `internal/fixture/retry.go` | attempt, delay, time budget | retry a throttled call |
| configuration | `internal/config/*.go` | parsed ini file and environment | load, validate, expand the bucket prefix |
| S3 clients | `internal/client/*.go` | one client per identity, a middleware stack per call, a shared and a raw transport | edit headers before or after signing, replace the bucket in the path, chunk, sign with v2, frame a request by hand, report the status |
| assertions, suite | `internal/s3util`, `internal/suite` | none | judge an error or a status, compare values, list the tests |
| test bodies | `tests/s3`, `tests/headers` | none of their own | some nine thousand lines of S3 calls |

### How they interact

`main` builds a context that the first interrupt cancels, and runs the cobra command.
The run command asks the registry for a selection, then calls `Runner.Run(ctx, tests)`.
`Run` derives a cancelable context and starts the stall watcher; it feeds the serial
tests to one worker and afterwards the others to a pool, both times through an
unbuffered channel. A worker calls `runOne`, which starts a goroutine for the body and
one for the cleanups and waits for each *or its timer*; the goroutine that lost stays
behind and still shares `T` with the worker. `finish` stores the time of progress,
counts timeouts, and under a lock records the result and calls `Observe`. `Run` returns
the results recorded so far and the first breakdown. A test body builds a fixture
environment, with a prefix of its own made of the configured one, a slug of its name and a
random token; its buckets register their own removal through `T.Cleanup`. Every S3 call goes
through a client of the factory, whose options edit the SDK's stack for that call.

### What is hard

* **Interleaving.** The feeder, up to `Parallel` workers, the stall watcher, the caller's
  cancellation, and per test a body and a cleanup goroutine that may outlive their test.
* **Timeouts racing answers.** The watchdog and the status may both be ready; the cleanup
  timer and the end of the cleanups too; the context of a test may expire between the end
  of its body and the end of its cleanups.
* **Partial failure.** A stall, an interrupt, too many leaks, wedged workers: each cuts the
  run short at a different place, and the caller must be able to tell.
* **Order.** A header edit before or behind the signer, a signer swapped for another, an option
  that looks for what an earlier one took away: position in a stack decides what a test tests.
* **Names.** Tests and runs that share a server are told apart by names alone, which have a limit.
* **Liveness.** Go cannot kill a goroutine; every wait needs a second way out.

`PROJECT.json` lists these hazards one by one, at the line where each bites.

### What makes each component correct

* scheduler: no test is lost, duplicated or run out of phase; a recorded result is final;
  a truncated run is never silent; limits that are respected never trip the backstop;
  `Run` returns whatever tests do.
* test execution: cleanups start once, in reverse order, after the body ended or was given up; a
  pass means that body and cleanups ended by themselves; `runOne` returns whatever they do.
* known failures, command, reports: a run succeeds only if every selected test has a
  result and each is as expected; the reports agree with the summary.
* selection: criteria intersect; an allow-list never silently covers less than it names;
  what the parser accepts evaluates as its grammar says.
* fixture, retry: what was created is removed unless the server refuses; retries end.
* configuration: values are those the file says, of the section it says, and none is missing.
* names: they fit, whatever prefix, test and counter; a cleanup removes what its own test created.
* clients: every option takes effect or fails the call; what is signed is what is sent unless a test
  asked otherwise; a passed assertion is about an answer of the server; calls return.
* process: an interrupted run never exits with success.

## 2. Modules

| module | role |
|---|---|
| `Verdict` | how a test ended → the status reported: `Invoke` is `invoke()`, `Settle` is the switch of `runOne()`; shared by both models |
| `Scheduler` | one `Run` call: feeder, workers, watcher, caller, time |
| `RunContract` | the abstract promise of `Run` to its caller |
| `TestRun` | one `runOne` call: worker, body, cleanup goroutine, and `T` in detail |
| `TestLifecycle` | the abstract promise about one test |
| `Command` | the process around one run: signals, classification, reports, exit status |
| `Fixture` | the life of one bucket: created by a body, emptied and removed by a cleanup |
| `Markers` | the parser of marker expressions, and its grammar |
| `Selection` | registry, allow-list, filters and known-failures file |
| `Config` | the config file, line by line, and what is built from it |
| `Naming` | the names of the buckets of runs that share a config file and a server; extends `Config` |
| `Clients` | one S3 call: options, middleware stack, signer, connection, assertion |
| `MCScheduler`, `MCSelection`, `MCNaming`, `MCClients` | the constants TLC needs |
| `Scheduler_proofs`, `Contract_proofs`, `TestRun_proofs`, `Command_proofs`, `Fixture_proofs`, `Selection_proofs`, `Naming_proofs`, `Clients_proofs` | theorems |

`Scheduler` sees a test as *body, cleanups, settled, recorded*; `TestRun` sees what
happens inside. Both implement `TestLifecycle` (`KeepsLifecycles`, `KeepsLifecycle`), so what
the scheduler assumes of a test is what the detailed model provides. `Command` instantiates
`RunContract`, not `Scheduler`: it holds for whatever implements the contract, and `Scheduler` does
(`KeepsContract`). `Selection` provides the tests and the known failures that `Command` takes as given,
and `Fixture` what happens inside one cleanup of `TestRun`. `Naming` takes its prefix from the `Config` it
extends, and abstracts each removal, which `Fixture` details, to one step that succeeds or is logged.

### Scheduler

`pc` is the program counter of `Run`: `"enter"` a call of `runIndexes`, `"feed"` the
loop with the select, `"wait"` the final select, then `collect` and the return. `rest` holds
the indexes not yet sent. The channel is unbuffered, so a send and a receive are one
step, `Feed(w)`. A worker is `"off"`, receiving, busy with `job[w]`, or gone. `stage[i]`
follows `runOne`: `"body"`, `"cleanup"`, `"settled"` (the status is computed, progress
stored, the leak counted: everything `finish` does before it takes the lock) and `"done"`
(recorded and observed under the lock). `liveBody` and `liveCleanup` are the goroutines
actually executing; a test that has moved on while its goroutine is in there has
left it behind. The fine steps matter: `settled` against `done` decides whether `collect` can
see a result before its breakdown, and `collect` against `Return` whether the error read
afterwards can be older than the results; `StallCheck` and `StallCancel` are separate since
the error has to be stored before the context is canceled. The body's and the cleanups'
outcome is chosen freely by `BodyEnds` and `CleanupEnds`; `bad` stands for all `Errorf`
calls made since the body ended, whoever made them.

Time is discrete: `Tick` decrements all timers, and is enabled only when no goroutine of the
harness could take a step. The harness therefore works in zero time and only bodies and
cleanups take any. With this reading the bounds in the properties are exact; in the
program they hold up to scheduling delay.

Abstractions: a `Result` is its status; `Duration` and `Output` are left out; the `wg.Wait`
goroutine is the predicate `PoolGone`; `stop()` of the watcher and `cancel()` of `Run`
are one step, `Return`, after which the watcher can only exit.

### TestRun

The worker's, the body's and the cleanups' program counters are separate. `T` is `failed`,
`skipMsg`, `cleanups`; each method is one step because each holds `T.mu` throughout, except
`Fatalf` and `Skipf`, whose panic is the body's next step anyway. The body may be given up
(`Watchdog`) even though its status has just arrived, because the `select` of `runBody` picks
either. A goroutine the body started may still use `T` after the body has left
(`BodyChildCallsT`). Cleanups are numbers in order of registration; a cleanup may register
others. Time is abstracted to the order of events: the watchdog fires after the deadline.

### Command

`pc` follows `RunE`: `"start"` (configuration, selection, lists), `"run"` (inside `Runner.Run`),
`"json"`, `"junit"`, `"summary"`. The JSON report grows a line at a time, since a failure leaves the
lines written so far; the JUnit report is there when complete. Each step may fail (`WriteFails`), which
skips all later ones. The steps of the contract go on after `Run` has returned (`InRun`), because tests left
behind still decide verdicts. `channel` counts the signals in the buffered channel of
`interruptContext`; `signal.Notify` drops what does not fit (`Signal`); `handler` is the goroutine that
cancels on the first signal and exits on the second, whatever `pc` is.

Abstractions: a report is the set of tests it has a line for, with the kind of JUnit case; the summary is
the decision it returns; which reports are asked for and which tests are known failures is chosen freely.

### Fixture

One bucket. `pc` follows `nuke()` through `deleteObjects` and `deleteVersions`: list a page, delete it,
delete what was refused with bypass, read the retention dates of what is refused still, next page, wait
and make a second pass, then delete the bucket. `left` is what remains of the budget of the current
`retryThrottled`; a throttled call anywhere in the emptying calls `deleteObjects` anew. The server is
external: it holds versions under four kinds of lock, decides where pages end, throttles, and fails for
good (`faulty`). The body may go on writing during the removal, as an abandoned one does (`late`).

Abstractions: a request and its answer are one step; delete markers are versions; the retention date is
`"zero"`, `"short"` (within `maxRetentionWait`) or `"long"`; the retry budget is a number of retries, and
running out of it is a failure that may come at any time (`EmptyingFails`); clocks of client and server
agree, so that a lock that was waited for has expired; a page that is truncated advances the marker.

### Markers and Selection

An expression is a sequence of tokens and denotes the sets of markers it matches, so parser, syntax tree and
evaluation become one recursive function, `Parser`, over places: a level and a token. Each level is an operator that takes
that function as an argument: `ParseChain` is `parseOr` and `parseAnd`, whose loop over a chain it makes a recursion on the rest of the chain (joining is
associative), `ParseNot` and `ParseAtom` are the others.
`Meanings` collects every meaning the grammar in the comment of `MarkerExpr` allows, by a recursive function over spans of
tokens; there the last operator of a chain is its root, where the parser finds the first one first.
`Selection` takes one step per round of `NewRegistry`, `Registry.resolve`, `Registry.Select` and `ParseKnownFailures`, in
the order in which the run command calls them, any of which may refuse. `candidates` is what `Select` filters into `tests`:
all tests in the order of their names, or what the allow-list resolves to in the order of the list. A name is a stem behind a number of
`test_` prefixes, because node IDs add one and lookups trim one; regular expressions are the set of names they
match.

### Config and Naming

`Config` reads a file, one line a step (`SkipLine`, `Header`, `Assignment`, `BadLine`), with `ini` the two-level map of
`parseINI` and `Absent` for a key that is not there; `Build` is `build()`, whose guard `Acceptable` is the conjunction of its
early errors and whose result is `NewConfig`. A value is a name with what the code tells apart: whether it is a number, a yes
or a no, and, as a template, its length without placeholders and their number (`Fixed`, `Holes`).

`Naming` goes on where a file loads: one or more runs fill in the template (`Begin`, `BucketPrefix`), and each test
goes from `New` through `slug()`, one rune a step, to its token (`SlugEnd`), creates buckets under every scheme the tests use
(the counter, a fixed name, a whole length, and a name filled up to the limit behind the prefix of the run,
`NewBucketFull`, which its test refuses for a prefix of fifty characters or more), and removes them in reverse order (`Nuke`). A creation may fail
after it has taken effect or before, a removal may fail; `known` is a history variable: what a test has reported. Calls of
`New` share nothing, so they take turns. Names are sequences of
characters, the one place where that is so, because which are equal is the question. Abstractions: a prefix without its
filler is one repeated character; filler and token are any strings of their length, so that what the model allows
includes every collision of random strings; a name that a server would refuse for its own reasons is a failed creation.

### Clients

`pc` follows one call: `"options"` applies them one by one, `"run"` runs the stack one middleware a step, `"dial"`,
`"send"`, `"wait"` are the connection, `"assert"` is the assertion a test makes of the result. A middleware is its name and
the headers it edits; `build` and `finalize` are the two steps of the stack that options touch. A header is described by who
gave it its value (`"sdk"`, `"caller"`, `"signer"`, `"none"`). `signed` is the request as the signer saw it, `wire` what went
out. The SDK is external, modelled from how the code uses it: its stack as a sequence of names, `Insert` and `Add` failing on a
missing neighbour or a name that is there already, both signers by what they cover. A failure of the connection may come at
any time (`Break`); a timer is the same step with the guard of who set it (`TimerFires`).

Abstractions: digests are replaced by the comparison of what they cover; one class of headers stands for those that
every signer covers and one for those none does; the body is its length and its trailer; redirects, TLS and the pool of
connections are left out; presigned requests, which are made without a connection, are not calls.

## 3. Runs

| run | what it asks | instance |
|---|---|---|
| `scheduler_core` | hand-off, phases, truncation, leaks, finality, the contract of `Run`, and that `Run` returns by the stall watcher alone | 3 tests, one serial, pool of 2, `MaxLeaked` 2, watchdogs, no bound on cleanups, a stall timeout as short as the bound of a body |
| `scheduler_bounded` | no stall is reported of tests that keep their bounds, tests follow their lifecycle, `Run` returns by the bounds alone | 3 tests, one serial, pool of 2, bounds on bodies and cleanups, a stall timeout just above their sum |
| `testrun` | safety of one test, its lifecycle, `runOne` returns, registered cleanups run | both timers, 3 cleanups |
| `command` | what exit status 0 means; interrupts end the process | 2 tests, 3 signals |
| `fixture` | a bucket is removed or its leak is logged; the removal ends | 3 versions, every combination of locks, one retry per call |
| `selection` | the selection is what a declarative reading of the inputs says | suites and lists of 2, expressions of up to 4 tokens and longer shapes, 2 markers |
| `naming` | a file is read as configparser reads it; names fit, and cleanups stay within their test | some 280 files one or two changes away from a complete one, then two tests of one run or of two, with two buckets each at a time |
| `clients` | every option takes effect or the call fails; what is signed is sent; assertions judge the server; calls return | 3 clients, with and without virtual hosts and deadline, every pair of options and triples of those that share a place |
| `scheduler_backstop` | violation, see section 6 | 1 test; one unit is 5 s: `--timeout 10s`, default grace and cleanup timeout |
| `scheduler_unwind` | violation, see section 6 | 1 test |
| `scheduler_leaks` | violation, see section 6 | 2 tests one after the other, `MaxLeaked` 1 |
| `selection_known` | violation, see section 6 | suites and lists as in `selection`, one expression |

**Bounds.** Three tests are the least that let a serial test, a busy worker and a test still in the feed
coexist; two pool workers the least that race. Timers of one or two ticks order every pair of events both ways,
because a body or cleanup may end at any tick or never. In `scheduler_core` nothing bounds a cleanup and the stall
timeout (2) is that of a body with its grace, so that the watcher fires with tests before, in and after their cleanups, in both
phases, and alone, before or after an interrupt or a leak error: each way to cut a run short is there, and so are the
workers it leaves behind. `MaxLeaked` 2 is reachable with three tests and leaves
room on both sides. In `scheduler_bounded` the stall timeout (4) is the least that `NoSpuriousStall` speaks of. `MaxCleanups` bounds how many cleanups one test registers: three show any failure of order
or of isolation. `idle` is capped at `StallTimeout`, beyond which the comparison in `watchStall` is constant.
`MaxSignals` 3 is one more than the handler takes and than the channel holds. `NTests` 2 in `Command` lets a
known and an unknown failure, a pass and a missing result coexist. `NVersions` 3 makes a page of two followed by
another one, with a lock of a different kind on each; `Budget` 1 lets each call be retried and run out. In
`MCSelection` two tests and two entries can collide in name, in module and in prefix; the expressions hold every
sequence of four tokens and, longer, the shapes that tell precedence, chains and parentheses apart. In
`MCNaming` lengths are scaled down, 3 for the 30 of a prefix and likewise for slug, token and digits, to where
they add up to `NameLimit` exactly, so that every excess is seen; `ShortPrefix` 5 lies between the prefixes of one
placeholder and those of two, so that a filled name is both made and refused; names of tests are cut within a word, before a
dash and not at all; two tests in one run or two are the least that collide; `MaxBuckets` bounds what a test has
at a time, `Numeral` its counter. In `MCClients` two options are the least that conflict, three the least where
one of a pair is between two others. No other counter is unbounded.

**Fairness.** In `Scheduler` the steps of all goroutines of the harness and of time are weakly fair *together*: while
one of them can run, the Go scheduler runs one, and when none can, time passes. Which one runs is left open, so that any
goroutine may be starved while others have steps to take; there are finitely many of these between two ticks.
Nothing is assumed of bodies, cleanups and interrupts: they may never
happen, which is the point. `RegisteredCleanupsRun` states its own assumption, that each cleanup
returns or panics. In `Command` only the goroutine of the signal handler is fair; `OneInterruptExits` states as
its premise that `Run` returns, which `RunReturns` shows of the scheduler, and that files are written or
refused. In `Clients` the goroutine of the call and timers that were set are fair, and nothing is assumed of the server: it may
never answer (`CallReturns`). `Naming` and `Selection` have safety properties only. In `Fixture` only `nuke()`
is fair: every request is answered, be it by a timeout of the client.
Deadlock is checked for `Scheduler` (time goes on after `Run` has returned) and not for the other modules,
which stop once everything has ended.

## 4. Properties

Scheduler: `OneHolder` (hand-off neither loses nor duplicates a test, also against a
cancellation), `SerialFirst`, `NoSilentTruncation` (fewer results than tests implies an interrupt
or an error: the stall is recorded before it cancels), `LeaksReported` (`MaxLeaked` abandoned tests among those whose results
are returned imply an error), `NoSpuriousStall` (a stall timeout above the bound of one test never fires), `ResultsFinal`,
`KeepsContract`, `KeepsLifecycles`, `RunReturns` (a stall timeout suffices), `ReturnsUnstalled` (bounds on bodies and cleanups
suffice, without a stall).

One test: `PassMeansClean`, `CleanupsReversed`, `KeepsLifecycle`, `RunOneReturns`,
`RegisteredCleanupsRun`.

Process: `SuccessMeansExpected` (exit status 0 means that every selected test has its expected verdict),
`SuccessMeansReported` (and that the reports are complete), `TwoInterruptsExit` (even if the run hangs and both
signals come at once), `OneInterruptExits`.

Bucket: `NoSilentLeak` (a bucket that survives was logged), `RemovedUnlessRefused` (throttling, pages, governance
and short locks, buckets without object lock are all coped with), `NukeEnds`.

Selection: `ParserMeetsGrammar` (accepts what the grammar derives, whose meaning is unique, and computes it),
`SelectionComplete`, `AllowListGates` (an accepted list covers exactly what it names), `KnownFailuresAccounted` (a test that
an entry denotes, by module and name, is expected to fail, one that no entry names is not; the unknown count is at least the entries
that name no test and at most those that denote none. Which of the two it is, is `UnknownEntriesCounted`, see section 6).

Configuration and names: `ReadAsWritten` (compares `ini` and the built configuration with a declarative reading of the whole
file, which the code never has), `NamesAreLegal` (with at most one placeholder; names made of parts, fixed and filled up to the limit), `LeftoversAreExplained`, `CleanupIsScoped`
(a test loses a bucket to another only if prefix, slug and token agree or an exact name was asked for twice).

Clients: `OptionsTakeEffect` (compares each request with what the options of the call say together), `SignedAsSent`,
`ConflictsAreErrors`, `VerdictIsTheServers` (no error of the client is taken for the refusal a test wants, no retry
replaces an answer), `CallReturns`.

Every property is also checked against a mutant: an operator beside the one it replaces,
described as "a variant of", which is the definition with a plausible bug in it, and which TLC
finds to violate the property.

## 5. Theorems

All are proved for every value of the constants, from the named assumption of the module alone
(`SchedulerAssumption`, `TestRunAssumption`, `CommandAssumption`, `FixtureAssumption`, `ConfigAssumption` and
`NamingAssumption`, `MarkerAssumption` and `SelectionAssumption`, `ClientsAssumption`). The first two say no more than what the types of the fields
of `Runner` allow (limits are natural numbers, 0 for none; the grace is positive, as `grace()` makes it), the
next two that bounds are natural numbers and that at least one test is selected, which `RunE` ensures. Those of the
other modules give inputs their types; `MarkerAssumption` also says that no marker is named like an operator or a parenthesis,
`NamingAssumption` that prefix, slug, token, two dashes and the digits of a
counter add up to no more than `NameLimit`, which for 30, 16, 4 and 63 leaves eleven digits, and that the fixed names of tests fit
behind the longest prefix, which leaves 33 characters to names of which the longest, `aaa-111`, has seven. The name that fills
all of what the prefix leaves, down to the last character, is no constant: `Filling` computes it as its test does.

* `Scheduler_proofs` builds an inductive invariant in layers. `RunInv` ties the
  program counter of `Run` to workers, jobs and stages: the pool of a phase is `"off"` until the
  phase is entered; a test of the phase is in `rest`, with exactly one worker, or done. From it
  follow `OneHolder` and `SerialFirst`. `BreakInv` orders the recording of a breakdown before
  the cancellation, which gives `NoSilentTruncation`. `TimeInv` bounds `idle` by the age of
  the oldest test in flight, which gives `NoSpuriousStall`. `LeakInv` relates `leaked` to
  the set of recorded timeouts, by cardinality, and `AbandonedInv` says that a test that was abandoned and has a
  result is one of them, which gives `LeaksReported`.
* `Contract_proofs` adds `LifeInv` and shows that every step of the scheduler is a step or a
  stutter of `RunContract`, and for each test of `TestLifecycle`.
* `TestRun_proofs` has `VerdictInv` (what a status says about the goroutines) and `OrderInv`
  (cleanups still to run are below all cleanups begun), which give `PassMeansClean`,
  `CleanupsReversed` and `KeepsLifecycle`.
* `Command_proofs` follows a result through report, classification and files to the exit status: `GatherInv`
  (missing results imply an interrupt or an error), `ResultsInv`, `FilesInv`, `ExitInv` give
  `SuccessMeansExpected` and `SuccessMeansReported`.
* `Fixture_proofs` proves `NoSilentLeak`, and `RemovedUnlessRefused` from an invariant that holds while nothing
  excuses the bucket (`Quiet`): `MarkerInv` (below the marker only short locks are left, in the first pass, and
  `retainUntil` knows), `PageInv` (what lies between marker and next marker is the page, then what was refused,
  then what is under a short lock), `EndInv` (what is waited for expires, what is dropped is empty). The
  induction needs that a second pass starts only after the locks have expired.

* `Naming_proofs` has `NamingInv`: types, `StageInv` (what slug, token and cleanups are at each stage of a test, the slug never
  with two dashes in a row) and `PrefixInv`. On it rest `Short` (the length of a name is bounded by its parts), which gives
  `NamesAreLegal`; the argument that a step which forgets a bucket has removed or reported it (`LeftoversAreExplained`); and
  `OriginInv` (where the name of a bucket to be removed came from). For `CleanupIsScoped` equal names must have equal parts:
  numerals have no dash, so the last dash of a generated name is known, and what is before it has parts of known lengths. `ReadAsWritten`
  follows from `ForceInv`, which says that `section` is that of the last header and `present` those of all headers so far.
* `Selection_proofs` proves `KnownFailuresAccounted` from `KnownInv`: entries read so far are each expected or counted, against a
  registry that no longer changes. An entry that denotes a test also names it (`ReadEntries`), so that the count lies between the bounds. `SelectionComplete` and `AllowListGates` follow from `SelectInv`: names are distinct, the
  candidates are the sorted registry or, one by one, what the entries of the list denote, and each test has been selected as
  often as it was among the candidates that passed. That a sorted enumeration of the registry misses no test is an argument
  on cardinalities; that there is one, and one only, is `OrderIsDetermined`, where the place of a test is the number of those before it.
* The parser is proved against its grammar for every sequence of tokens (`ParseIsGrammar`), hence on every expression
  a run is given (`ParserIsCorrect`). A recursive function in TLA+ is any solution of its equation, so that the proof first shows that
  parser and grammar have one: a place refers to places of less depth only, because parsing moves forward (`ParserIs`), a span
  to shorter ones or lower levels (`GrammarIs`). Then chains are regrouped, as the parser joins them from the right and the
  grammar from the left (`Regroup`). Last, every place is parsed right (`Right`): what is accepted ends before a token the level
  would not go on with, and has in the grammar the meaning computed and no other; and whatever has a meaning in the grammar and
  ends before such a token is what the parser accepts.
* `Clients_proofs` proves `VerdictIsTheServers` from `Progress` (what has been sent, answered and returned at each `pc`) and
  `Judged`; and `ConflictsAreErrors`, for any number of options, from `StackInv`: while options are applied, the stack holds no name twice and holds
  exactly the SDK's middleware and that of the options before `at`, none of which conflict, so that a place is missing or a
  name taken exactly if the next option conflicts with one of them or with the client. `OptionsTakeEffect` and `SignedAsSent`
  need the order too. `EffectInv` says three things in turn: while options are applied, the Finalize step is sorted by the six
  places it has (edits, endpoint, hash, path and framing, signer, later edits), and of two edits at one place the later option
  runs first (`OrderHolds`); while the stack runs, each header is or will be what the options promise, because the last of the
  middleware still to run that writes it writes that, and what was signed is touched by later edits only (`RunHolds`,
  `SignHolds`); what went out is as promised (`SentHolds`).

Every component module has a theorem for its type invariant (that of `Config` is part of `Naming`'s). Where an argument is an induction over data (places of a
parser, spans of a grammar, indices of two sequences) it takes the least counterexample, from the well-foundedness of `<` on
the naturals (`Least`), instead of an induction theorem with an operator as its parameter.

Only model-checked: the liveness properties (`RunReturns`, `ReturnsUnstalled`, `RunOneReturns`, `RegisteredCleanupsRun`,
`TwoInterruptsExit`, `OneInterruptExits`, `NukeEnds`, `CallReturns`), because TLAPS does not handle fairness and `ENABLED`. Every
invariant and every action property of the passing runs, and each refinement, is a theorem.

## 6. Where the code and its documentation disagree

* `cmd/run.go:63` says that the backstop needs to be looser than any single test and that
  `3 * timeout` ensures it. One test may take `timeout + grace + cleanup timeout`. With
  `--timeout 10s` and the defaults, a test that hangs in body and cleanup, and keeps
  every bound of its own, is reported as a stall of the scheduler (`scheduler_backstop`).
* `main.go:33` says that the first signal *has to unwind rather than exit: tests are mid-flight and their buckets
  still need deleting*. A canceled context ends the final select of `runIndexes` at once, `Run` returns what has
  been recorded, and the process exits while bodies and cleanups are still running (`scheduler_unwind`).
* `run.go:54` says that `MaxLeaked` *aborts the run once this many test goroutines have been abandoned* and `run.go:120` that
  `leaked` counts *test goroutines abandoned after their watchdog fired* (`PLAN.md:321` has the same of the run). `checkLeaked`
  records an error and cancels nothing: every remaining test still runs, and the results are then dropped. And it counts each
  timeout, also of a test that ended by itself and failed when its context was done. The run shows both at
  once: a test starts after the leak error, when nothing had been abandoned (`scheduler_leaks`).
* `expect.go:19` says that `unknown` counts *entries naming tests this binary does not have*, and `registry.go:22` that a test
  has a module so that node IDs can be *validated rather than merely matched on name*. `ParseKnownFailures` matches on the
  name: an entry of another module makes the test of the same name an expected failure and is not counted
  (`selection_known`).

Noted while modelling, with no run of their own: `client.go:73` says that a bucket's host is
dialed as the endpoint's, *so a virtual-host run needs no wildcard DNS*, which is in the `DialContext` of the shared transport, but
`rawClient` (`WithContentLength`, `WithoutContentLength`) dials by itself, and the bucket's host (`Dial`); `export.go:94` says that
newly passing tests are promoted from the JUnit report, where with `--known-failures` an expected failure looks like a
pass; `PLAN.md:330` says that a stalled run writes *whatever report exists*, but `RunE` returns the error of `Run` before
it looks at the results; `EqualMetadata` (`assert.go:49`) compares lengths and then looks up, so that a key that is missing
equals one that is wanted empty; `tests/headers/aws2.go:74` sets `Authorization` with `WithHeaders` on the v2 client, whose signer
runs later and overwrites it (`OptionsTakeEffect` says who wins); under virtual hosts the v2 signer covers a path without the bucket
(the exception in `SignedAsSent`); main and alt users are one and the same if their keys are in `DEFAULT`; `t.skipMsg` is
read without the lock after a test was given up (`run.go:302`); `Select` says that its result is sorted by name, which with an
allow-list it is not, it has the order of the list; a test listed twice, or once with and once without `test_`, is run twice;
`BucketPrefix` fills each of two placeholders with all the characters left; a bucket whose creation was answered by an
error after it had taken effect is never registered; a canceled run may still start a test, since the
`select` of the feed chooses between two ready cases; a test left behind calls `Observe` after `Run` has
returned; a test that failed in time is reported as a timeout when its cleanups outlast its deadline
(`runOne` reads `ctx.Err()` after them); `Skipf` after `Errorf` is a skip; cleanups registered after they were taken never run.

## 7. Not modelled, and the plan

Order of work, each step with its module(s), properties and, where it can be proved, theorems:

1. *(done)* `Scheduler`, `TestRun`, their contracts, proofs.
2. *(done)* `Command`, above the contract of `Run`, with proofs.
3. *(done)* `Fixture`, with proofs.
4. *(done)* `Selection` and `Markers`, with proofs of all their properties.
5. *(done)* `Config` and `Naming`, with proofs of all their properties.
6. *(done)* `Clients`, with proofs of all its safety properties.
7. Open: `TestRun` with several goroutines of one body, and `Scheduler` composed with `Fixture`, which would say
   which buckets are left when a run is cut short.

Not modelled: the test bodies (`tests/`), which are calls into a server that is not part of the
repository; of `s3util` and `suite` what is not an assertion on an answer: comparisons of values and the list of the tests,
which keep no state; presigners, which sign and do not call; the printing commands; colours and wording of the reporter.

------------------------------- MODULE Selection -------------------------------
(***************************************************************************)
(* Which tests a run executes and which of them it expects to fail:        *)
(* NewRegistry, selection.resolve with ParseMarkerExpr, ParseAllowList,    *)
(* Registry.resolve and Registry.Select, and ParseKnownFailures, in the    *)
(* order in which the run command calls them.  Each loop takes one step    *)
(* per round.                                                              *)
(*                                                                         *)
(* A name is <<p, s>>, a stem s behind p times "test_", since node IDs add *)
(* one "test_" to the name of a test and lookups trim one.                 *)
(***************************************************************************)
EXTENDS Markers, FiniteSets, SequencesExt

CONSTANTS
  Suites,       \* what the test packages may return: sequences of tests
  Lists,        \* what a list file may hold: sequences of entries
  Expressions,  \* the marker expressions, as tokens
  Names         \* the names of tests

Modules == {"s3", "headers"}

Test == [name : Nat \X Int, module : STRING, markers : MarkerSet]
Entry == [valid : BOOLEAN, module : STRING, name : Nat \X Int]

ASSUME SelectionAssumption ==
  /\ Suites \subseteq Seq(Test)
  /\ Lists \subseteq Seq(Entry)
  /\ Expressions \subseteq Seq(Token)

VARIABLES
  pc,         \* "register", "parse", "open", "resolve", "select", "known",
              \* "list", "ready" or "refused"
  suite,      \* the tests handed to NewRegistry
  at,         \* index of the round of the current loop
  registry,   \* Registry.byName, as the set of its tests
  toks,       \* the tokens of the marker expression being parsed
  sat,        \* the sets of markers the expression matches
  run,        \* the names that -k matches
  allow,      \* the entries of the allow-list, <<>> if there is none
  candidates, \* the tests that Select filters
  tests,      \* the selected tests
  list,       \* the entries of the known-failures file
  expected,   \* KnownFailures.names
  unknown     \* KnownFailures.unknown

vars ==
  <<pc, suite, at, registry, toks, sat, run, allow, candidates, tests, list, expected, unknown>>

TypeOK ==
  /\ pc \in {"register", "parse", "open", "resolve", "select", "known", "list",
             "ready", "refused"}
  /\ suite \in Suites
  /\ at \in 1..(Len(suite) + Len(allow) + Len(candidates) + Len(list) + 1)
  /\ registry \subseteq Range(suite)
  /\ toks \in Expressions \cup {<<>>}
  /\ sat \subseteq MarkerSet
  /\ run \subseteq Names
  /\ allow \in Lists \cup {<<>>}
  /\ candidates \in Seq(registry)
  /\ tests \in Seq(registry)
  /\ list \in Lists \cup {<<>>}
  /\ expected \subseteq {t.name : t \in registry}
  /\ unknown \in 0..Len(list)

Init ==
  /\ pc = "register"
  /\ suite \in Suites
  /\ at = 1
  /\ registry = {}
  /\ toks = <<>>
  /\ sat = MarkerSet
  /\ run \in SUBSET Names
  /\ allow = <<>>
  /\ candidates = <<>>
  /\ tests = <<>>
  /\ list = <<>>
  /\ expected = {}
  /\ unknown = 0

-----------------------------------------------------------------------------

\* The name in the node ID of a test.
NodeName(n) == <<n[1] + 1, n[2]>>

\* strings.TrimPrefix(name, "test_").
Trim(n) == IF n[1] > 0 THEN <<n[1] - 1, n[2]>> ELSE n

Lookup(n) == {t \in registry : t.name = n}

Before(t, u) == t.name[2] < u.name[2] \/ (t.name[2] = u.name[2] /\ t.name[1] < u.name[1])

\* Registry.All, sorted by name: the only sequence of its length that is.
All ==
  {s \in [1..Cardinality(registry) -> registry] :
     \A i, j \in DOMAIN s : i < j => Before(s[i], s[j])}

Passes(t) == t.name \in run /\ t.markers \in sat

-----------------------------------------------------------------------------

Refuse == pc' = "refused" /\ UNCHANGED at

NextRound == at' = at + 1 /\ UNCHANGED pc

\* A variant of RegisterTest: the later of two tests of one name wins.
RegisterLater ==
  /\ pc = "register"
  /\ at <= Len(suite)
  /\ IF suite[at].module \notin Modules
     THEN Refuse /\ UNCHANGED registry
     ELSE /\ NextRound
          /\ registry' = (registry \ Lookup(suite[at].name)) \cup {suite[at]}
  /\ UNCHANGED <<suite, toks, sat, run, allow, candidates, tests, list, expected, unknown>>

\* A round of NewRegistry.  A test without name or body is refused as one with
\* an unknown module is.
RegisterTest ==
  /\ pc = "register"
  /\ at <= Len(suite)
  /\ IF suite[at].module \notin Modules \/ Lookup(suite[at].name) # {}
     THEN Refuse /\ UNCHANGED registry
     ELSE NextRound /\ registry' = registry \cup {suite[at]}
  /\ UNCHANGED <<suite, toks, sat, run, allow, candidates, tests, list, expected, unknown>>

\* NewRegistry has returned; regexp.Compile and lexMarkers succeed or not.
Lex ==
  /\ pc = "register"
  /\ at > Len(suite)
  /\ \/ toks' \in Expressions /\ pc' = "parse"
     \/ pc' = "refused" /\ UNCHANGED toks
  /\ UNCHANGED <<suite, at, registry, sat, run, allow, candidates, tests, list, expected, unknown>>

ParseMarkers ==
  /\ pc = "parse"
  /\ toks' = <<>>
  /\ LET r == Parse(toks) IN
     IF r.ok THEN sat' = r.sat /\ pc' = "open" ELSE pc' = "refused" /\ UNCHANGED sat
  /\ UNCHANGED <<suite, at, registry, run, allow, candidates, tests, list, expected, unknown>>

\* Without an allow-list every test is a candidate.  A list without entries is
\* refused.
OpenAllowList ==
  /\ pc = "open"
  /\ \/ candidates' \in All /\ at' = 1 /\ pc' = "select" /\ UNCHANGED allow
     \/ allow' \in Lists \ {<<>>} /\ at' = 1 /\ pc' = "resolve" /\ UNCHANGED candidates
     \/ pc' = "refused" /\ UNCHANGED <<at, allow, candidates>>
  /\ UNCHANGED <<suite, registry, toks, sat, run, tests, list, expected, unknown>>

\* A variant of ResolveEntry: an entry is matched on its name.
ResolveName ==
  /\ pc = "resolve"
  /\ at <= Len(allow)
  /\ IF ~allow[at].valid \/ Lookup(Trim(allow[at].name)) = {}
     THEN Refuse /\ UNCHANGED candidates
     ELSE NextRound /\ \E t \in Lookup(Trim(allow[at].name)) : candidates' = Append(candidates, t)
  /\ UNCHANGED <<suite, registry, toks, sat, run, allow, tests, list, expected, unknown>>

\* A round of Registry.resolve.
ResolveEntry ==
  /\ pc = "resolve"
  /\ at <= Len(allow)
  /\ LET e == allow[at]
         found == {t \in Lookup(Trim(e.name)) : t.module = e.module}
     IN IF ~e.valid \/ found = {}
        THEN Refuse /\ UNCHANGED candidates
        ELSE NextRound /\ \E t \in found : candidates' = Append(candidates, t)
  /\ UNCHANGED <<suite, registry, toks, sat, run, allow, tests, list, expected, unknown>>

EndResolve ==
  /\ pc = "resolve"
  /\ at > Len(allow)
  /\ at' = 1
  /\ pc' = "select"
  /\ UNCHANGED <<suite, registry, toks, sat, run, allow, candidates, tests, list, expected,
                 unknown>>

\* A round of Registry.Select.
Filter ==
  /\ pc = "select"
  /\ at <= Len(candidates)
  /\ NextRound
  /\ tests' = IF Passes(candidates[at]) THEN Append(tests, candidates[at]) ELSE tests
  /\ UNCHANGED <<suite, registry, toks, sat, run, allow, candidates, list, expected, unknown>>

\* An empty selection is refused.
EndSelect ==
  /\ pc = "select"
  /\ at > Len(candidates)
  /\ pc' = IF tests = <<>> THEN "refused" ELSE "known"
  /\ UNCHANGED <<suite, at, registry, toks, sat, run, allow, candidates, tests, list, expected,
                 unknown>>

OpenKnownFailures ==
  /\ pc = "known"
  /\ \/ pc' = "ready" /\ UNCHANGED <<at, list>>
     \/ list' \in Lists /\ at' = 1 /\ pc' = "list"
     \/ pc' = "refused" /\ UNCHANGED <<at, list>>
  /\ UNCHANGED <<suite, registry, toks, sat, run, allow, candidates, tests, expected, unknown>>

\* A variant of KnownEntry: an entry is not looked up.
KnownUnchecked ==
  /\ pc = "list"
  /\ at <= Len(list)
  /\ IF ~list[at].valid THEN Refuse /\ UNCHANGED expected
     ELSE NextRound /\ expected' = expected \cup {Trim(list[at].name)}
  /\ UNCHANGED <<suite, registry, toks, sat, run, allow, candidates, tests, list, unknown>>

\* A round of ParseKnownFailures.  The module of an entry is not looked at.
KnownEntry ==
  /\ pc = "list"
  /\ at <= Len(list)
  /\ LET n == Trim(list[at].name) IN
     IF ~list[at].valid THEN Refuse /\ UNCHANGED <<expected, unknown>>
     ELSE IF Lookup(n) = {} THEN NextRound /\ unknown' = unknown + 1 /\ UNCHANGED expected
     ELSE NextRound /\ expected' = expected \cup {n} /\ UNCHANGED unknown
  /\ UNCHANGED <<suite, registry, toks, sat, run, allow, candidates, tests, list>>

EndKnownFailures ==
  /\ pc = "list"
  /\ at > Len(list)
  /\ pc' = "ready"
  /\ UNCHANGED <<suite, at, registry, toks, sat, run, allow, candidates, tests, list, expected,
                 unknown>>

Next ==
  \/ RegisterTest \/ Lex \/ ParseMarkers
  \/ OpenAllowList \/ ResolveEntry \/ EndResolve \/ Filter \/ EndSelect
  \/ OpenKnownFailures \/ KnownEntry \/ EndKnownFailures

Spec == Init /\ [][Next]_vars

-----------------------------------------------------------------------------
(* Properties.                                                             *)

\* The parser accepts what the grammar derives and nothing else, the meaning
\* is unique, and it is the one the parser computes: precedence, chains, "not"
\* and parentheses (ParseMarkerExpr).
ParserMeetsGrammar ==
  pc = "parse" => LET r == Parse(toks) IN Meanings(toks) = IF r.ok THEN {r.sat} ELSE {}

\* An entry names a test: by the name in its node ID, or by that name without
\* "test_".
NamesTest(e, t) == e.name = NodeName(t.name) \/ (e.name = t.name /\ t.name[1] = 0)

\* An entry denotes a test: the module is right as well.
Denotes(e, t) ==
  /\ e.valid
  /\ e.module = t.module
  /\ NamesTest(e, t)

\* Without an allow-list every test of the suite that passes the filters is
\* selected, once (NewRegistry, Select).
SelectionComplete ==
  pc \in {"known", "list", "ready"} /\ allow = <<>> =>
    \A t \in {suite[i] : i \in DOMAIN suite} :
      Cardinality({k \in DOMAIN tests : tests[k] = t}) =
        Cardinality({i \in DOMAIN suite : suite[i] = t /\ Passes(t)})

\* An allow-list is a gate: once it is accepted every entry denotes a test of
\* the suite, which is selected, unless the filters exclude it, and nothing
\* else is selected, nor more often than it is listed (resolve, Select).
AllowListGates ==
  pc \in {"known", "list", "ready"} /\ allow # <<>> =>
    /\ \A k \in DOMAIN allow : \E t \in Range(suite) : Denotes(allow[k], t)
    /\ \A t \in Range(suite) :
         Cardinality({k \in DOMAIN tests : tests[k] = t}) =
           Cardinality({k \in DOMAIN allow : Denotes(allow[k], t) /\ Passes(t)})

Denoting(t) == {k \in DOMAIN list : Denotes(list[k], t)}
Naming(t) == {k \in DOMAIN list : NamesTest(list[k], t)}
NamesNone == {k \in DOMAIN list : \A t \in Range(suite) : ~NamesTest(list[k], t)}
DenotesNone == {k \in DOMAIN list : \A t \in Range(suite) : ~Denotes(list[k], t)}

\* A test that an entry of the known-failures file denotes is expected to fail
\* and one that no entry names is not; an entry that names no test is counted
\* as unknown and one that denotes a test is not.  Whether an entry that has
\* the name of a test and another module is the one or the other is left open,
\* see UnknownEntriesCounted (ParseKnownFailures).
KnownFailuresAccounted ==
  pc = "ready" =>
    /\ \A t \in Range(suite) :
         /\ Denoting(t) # {} => t.name \in expected
         /\ t.name \in expected => Naming(t) # {}
    /\ expected \subseteq {t.name : t \in Range(suite)}
    /\ Cardinality(NamesNone) <= unknown
    /\ unknown <= Cardinality(DenotesNone)

-----------------------------------------------------------------------------
(* What comments say of the code, and what it does.                        *)

\* internal/harness/expect.go:19 "unknown counts entries naming tests this
\* binary does not have", where a test has a module "so pytest node IDs in an
\* allow-list can be validated rather than merely matched on name"
\* (registry.go:22): an entry is counted if it denotes no test
\* (ParseKnownFailures).
UnknownEntriesCounted == pc = "ready" => unknown = Cardinality(DenotesNone)
=============================================================================

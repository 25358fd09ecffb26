--------------------------- MODULE Selection_proofs ---------------------------
(***************************************************************************)
(* Proofs about Selection, for any suite, expression and list: the parser  *)
(* of marker expressions computes what the grammar means, the selection is *)
(* what the filters and the allow-list ask for, and every entry of a       *)
(* known-failures file is accounted for.                                   *)
(***************************************************************************)
EXTENDS Selection, FiniteSetTheorems, SequenceTheorems, WellFoundedInduction, TLAPS

\* Entry k of the list is about a test of the suite.
Known(k) == Lookup(Trim(list[k].name)) # {}

\* The first m entries have been read.
Counted(m) ==
  /\ expected = {Trim(list[k].name) : k \in {i \in 1..m : Known(i)}}
  /\ unknown = Cardinality({k \in 1..m : ~Known(k)})

\* The registry is complete before anything is looked up in it, and the list is
\* read from the front.
KnownInv ==
  /\ suite \in Suites
  /\ list \in Lists \cup {<<>>}
  /\ at \in Nat \ {0}
  /\ pc = "register" => at <= Len(suite) + 1 /\ registry = {suite[i] : i \in 1..(at - 1)}
  /\ pc \in {"parse", "open", "resolve", "select", "known", "list", "ready"} =>
       registry = Range(suite)
  /\ pc \in {"register", "parse", "open", "resolve", "select", "known"} =>
       expected = {} /\ unknown = 0 /\ list = <<>>
  /\ pc = "list" => at <= Len(list) + 1 /\ Counted(at - 1)
  /\ pc = "ready" => Counted(Len(list))

-----------------------------------------------------------------------------
\* TrimPrefix finds the test that an entry names (ParseKnownFailures).
LEMMA TrimFinds ==
  ASSUME NEW t \in Test, NEW e \in Entry
  PROVE  NamesTest(e, t) <=> t.name = Trim(e.name)
<1>1. PICK p \in Nat, s \in Int : t.name = <<p, s>>
  BY DEF Test
<1>2. PICK q \in Nat, r \in Int : e.name = <<q, r>>
  BY DEF Entry
<1>3. Trim(e.name) = IF q > 0 THEN <<q - 1, r>> ELSE <<q, r>>
  BY <1>2 DEF Trim
<1>4. NamesTest(e, t) <=> <<q, r>> = <<p + 1, s>> \/ (<<q, r>> = <<p, s>> /\ p = 0)
  BY <1>1, <1>2 DEF NamesTest, NodeName
<1>. QED BY <1>1, <1>3, <1>4

\* A test that is registered is the next of the suite.
LEMMA RegisterStep ==
  ASSUME KnownInv, RegisterTest
  PROVE  KnownInv'
<1>1. /\ pc = "register" /\ at \in Nat \ {0} /\ at <= Len(suite) /\ suite \in Seq(Test)
      /\ registry = {suite[i] : i \in 1..(at - 1)} /\ UNCHANGED <<suite, list, expected, unknown>>
  BY SelectionAssumption DEF KnownInv, RegisterTest
<1>2. CASE pc' = "refused"
  BY <1>1, <1>2 DEF KnownInv, RegisterTest, Refuse, NextRound
<1>3. CASE pc' # "refused"
  <2>1. pc' = "register" /\ at' = at + 1 /\ registry' = registry \cup {suite[at]}
    BY <1>1, <1>3 DEF RegisterTest, Refuse, NextRound
  <2>2. registry' = {suite[i] : i \in 1..(at' - 1)}
    <3>1. 1..(at' - 1) = (1..(at - 1)) \cup {at}
      BY <1>1, <2>1
    <3>. QED BY <1>1, <2>1, <3>1
  <2>3. Len(suite) \in Nat
    BY <1>1
  <2>. QED BY <1>1, <2>1, <2>2, <2>3 DEF KnownInv
<1>. QED BY <1>2, <1>3

\* NewRegistry has returned, with the whole suite in the registry.
LEMMA LexStep ==
  ASSUME KnownInv, Lex
  PROVE  KnownInv'
<1>1. /\ pc = "register" /\ pc' \in {"parse", "refused"} /\ at > Len(suite)
      /\ UNCHANGED <<suite, at, registry, list, expected, unknown>>
  BY DEF Lex
<1>2. suite \in Seq(Test) /\ at \in Nat /\ Len(suite) \in Nat
  BY SelectionAssumption DEF KnownInv
<1>3. at - 1 = Len(suite) /\ registry = {suite[i] : i \in 1..(at - 1)}
  BY <1>1, <1>2 DEF KnownInv
<1>4. registry = Range(suite)
  BY <1>2, <1>3 DEF Range
<1>. QED BY <1>1, <1>4 DEF KnownInv

\* A round of ParseKnownFailures counts the entry or expects its test to fail.
LEMMA EntryStep ==
  ASSUME KnownInv, KnownEntry
  PROVE  KnownInv'
<1>1. /\ pc = "list" /\ at \in Nat \ {0} /\ at <= Len(list) /\ Counted(at - 1)
      /\ UNCHANGED <<suite, registry, list>> /\ registry = Range(suite)
  BY DEF KnownInv, KnownEntry
<1>2. \A k : Known(k)' <=> Known(k)
  BY <1>1 DEF Known, Lookup
<1>3. 1..at = (1..(at - 1)) \cup {at} /\ at \notin 1..(at - 1)
  BY <1>1
<1>4. CASE pc' = "refused"
  BY <1>1, <1>4 DEF KnownInv, KnownEntry, Refuse, NextRound
<1>5. CASE pc' # "refused"
  <2>1. pc' = "list" /\ at' = at + 1
    BY <1>1, <1>5 DEF KnownEntry, Refuse, NextRound
  <2> DEFINE n == Trim(list[at].name)
             U == {k \in 1..(at - 1) : ~Known(k)}
  <2>2. IsFiniteSet(U) /\ at \notin U
    <3>1. IsFiniteSet(1..(at - 1))
      BY <1>1, FS_Interval
    <3>2. U \subseteq 1..(at - 1)
      OBVIOUS
    <3> HIDE DEF U
    <3>. QED BY <1>3, <3>1, <3>2, FS_Subset
  <2>3. /\ expected' = {Trim(list[k].name) : k \in {i \in 1..at : Known(i)}}
        /\ unknown' = Cardinality({k \in 1..at : ~Known(k)})
    <3>1. CASE Known(at)
      <4>1. expected' = expected \cup {n} /\ unknown' = unknown
        BY <1>1, <1>5, <3>1 DEF KnownEntry, Known, Refuse
      <4>2. {i \in 1..at : Known(i)} = {i \in 1..(at - 1) : Known(i)} \cup {at}
        BY <1>3, <3>1
      <4>3. {k \in 1..at : ~Known(k)} = U
        BY <1>3, <3>1
      <4>. QED BY <1>1, <4>1, <4>2, <4>3 DEF Counted
    <3>2. CASE ~Known(at)
      <4>1. expected' = expected /\ unknown' = unknown + 1
        BY <1>1, <1>5, <3>2 DEF KnownEntry, Known, Refuse
      <4>2. {i \in 1..at : Known(i)} = {i \in 1..(at - 1) : Known(i)}
        BY <1>3, <3>2
      <4>3. {k \in 1..at : ~Known(k)} = U \cup {at}
        BY <1>3, <3>2
      <4>4. Cardinality(U \cup {at}) = Cardinality(U) + 1
        <5> HIDE DEF U
        <5>. QED BY <2>2, FS_AddElement
      <4>. QED BY <1>1, <4>1, <4>2, <4>3, <4>4 DEF Counted
    <3>. QED BY <3>1, <3>2
  <2>4. at' - 1 = at /\ at' \in Nat \ {0}
    BY <1>1, <2>1
  <2>5. Counted(at - 1)'
    BY <1>1, <1>2, <2>3, <2>4 DEF Counted
  <2>6. list \in Seq(Entry) \cup {<<>>}
    BY SelectionAssumption DEF KnownInv
  <2>7. at' <= Len(list') + 1
    BY <1>1, <2>1, <2>6
  <2>. QED BY <1>1, <2>1, <2>4, <2>5, <2>7 DEF KnownInv
<1>. QED BY <1>4, <1>5

\* The other steps look at neither.
LEMMA OtherSteps ==
  ASSUME KnownInv,
         ParseMarkers \/ OpenAllowList \/ ResolveEntry \/ EndResolve \/ Filter \/ EndSelect
           \/ OpenKnownFailures \/ EndKnownFailures
  PROVE  KnownInv'
<1>1. CASE ParseMarkers \/ OpenAllowList \/ ResolveEntry \/ EndResolve \/ Filter \/ EndSelect
  <2>1. /\ pc \in {"parse", "open", "resolve", "select"}
        /\ pc' \in {"parse", "open", "resolve", "select", "known", "refused"}
        /\ UNCHANGED <<suite, registry, list, expected, unknown>>
    BY <1>1 DEF ParseMarkers, OpenAllowList, ResolveEntry, EndResolve, Filter, EndSelect,
                Refuse, NextRound
  <2>2. at' \in Nat \ {0}
    BY <1>1 DEF KnownInv, ParseMarkers, OpenAllowList, ResolveEntry, EndResolve, Filter,
                EndSelect, Refuse, NextRound
  <2>. QED BY <2>1, <2>2 DEF KnownInv
<1>2. CASE OpenKnownFailures
  <2>1. /\ pc = "known" /\ expected = {} /\ unknown = 0 /\ list = <<>> /\ registry = Range(suite)
        /\ UNCHANGED <<suite, registry, expected, unknown>>
    BY <1>2 DEF KnownInv, OpenKnownFailures
  <2>2. Counted(0)' /\ Counted(0)
    <3>1. 1..0 = {}
      OBVIOUS
    <3>2. {Trim(list'[k].name) : k \in {i \in 1..0 : Known(i)'}} = {}
          /\ {Trim(list[k].name) : k \in {i \in 1..0 : Known(i)}} = {}
          /\ {k \in 1..0 : ~Known(k)'} = {} /\ {k \in 1..0 : ~Known(k)} = {}
      BY <3>1
    <3>. QED BY <2>1, <3>2, FS_EmptySet DEF Counted
  <2>3. CASE pc' = "ready" /\ UNCHANGED <<at, list>>
    BY <2>1, <2>2, <2>3 DEF KnownInv
  <2>4. CASE list' \in Lists /\ at' = 1 /\ pc' = "list"
    <3>1. list' \in Seq(Entry)
      BY <2>4, SelectionAssumption
    <3>2. at' - 1 = 0 /\ at' <= Len(list') + 1
      BY <2>4, <3>1
    <3>3. Counted(at - 1)'
      BY <2>2, <3>2 DEF Counted
    <3>. QED BY <2>1, <2>4, <3>2, <3>3 DEF KnownInv
  <2>5. CASE pc' = "refused" /\ UNCHANGED <<at, list>>
    BY <2>1, <2>5 DEF KnownInv
  <2>. QED BY <1>2, <2>3, <2>4, <2>5 DEF OpenKnownFailures
<1>3. CASE EndKnownFailures
  <2>1. /\ pc = "list" /\ pc' = "ready" /\ at > Len(list)
        /\ UNCHANGED <<suite, at, registry, list, expected, unknown>>
    BY <1>3 DEF EndKnownFailures
  <2>2. list \in Seq(Entry) \cup {<<>>} /\ at \in Nat /\ at <= Len(list) + 1 /\ Counted(at - 1)
    BY <2>1, SelectionAssumption DEF KnownInv
  <2>3. at - 1 = Len(list)
    BY <2>1, <2>2
  <2>4. Counted(Len(list))
    BY <2>2, <2>3
  <2>5. Counted(Len(list))'
    BY <2>1, <2>4 DEF Counted, Known, Lookup
  <2>. QED BY <2>1, <2>5 DEF KnownInv
<1>. QED BY <1>1, <1>2, <1>3

\* KnownInv holds in every state.
LEMMA KnownInvariant == Spec => []KnownInv
<1>1. Init => KnownInv
  <2>1. ASSUME Init PROVE KnownInv
    <3>1. suite \in Seq(Test)
      BY <2>1, SelectionAssumption DEF Init
    <3>2. 1 <= Len(suite) + 1 /\ {suite[i] : i \in 1..(1 - 1)} = {}
      BY <3>1
    <3>. QED BY <2>1, <3>2 DEF Init, KnownInv
  <2>. QED BY <2>1
<1>2. KnownInv /\ [Next]_vars => KnownInv'
  <2>1. ASSUME KnownInv, UNCHANGED vars PROVE KnownInv'
    BY <2>1 DEF vars, KnownInv, Counted, Known, Lookup
  <2>. QED BY <2>1, RegisterStep, LexStep, EntryStep, OtherSteps DEF Next
<1>. QED BY <1>1, <1>2, PTL DEF Spec

\* The entries that name a test are those whose name, trimmed, is found in the
\* registry, and every test was registered before the file is read
\* (NewRegistry, ParseKnownFailures).
LEMMA ReadEntries ==
  ASSUME KnownInv, pc = "ready"
  PROVE  /\ Range(suite) \subseteq Test /\ list \in Seq(Entry)
         /\ expected = {t.name : t \in {u \in Range(suite) : Naming(u) # {}}}
         /\ unknown = Cardinality(NamesNone)
<1>1. registry = Range(suite) /\ Counted(Len(list))
  BY DEF KnownInv
<1>2. suite \in Seq(Test) /\ list \in Seq(Entry)
  <2>1. <<>> \in Seq(Entry)
    OBVIOUS
  <2>. QED BY <2>1, SelectionAssumption DEF KnownInv
<1>3. Range(suite) \subseteq Test /\ DOMAIN list = 1..Len(list)
  BY <1>2 DEF Range
<1>4. \A k \in DOMAIN list, t \in Range(suite) :
        NamesTest(list[k], t) <=> t.name = Trim(list[k].name)
  BY <1>2, <1>3, TrimFinds
<1>5. \A k \in DOMAIN list :
        Known(k) <=> \E t \in Range(suite) : t.name = Trim(list[k].name)
  BY <1>1 DEF Known, Lookup
<1>6. NamesNone = {k \in 1..Len(list) : ~Known(k)}
  BY <1>3, <1>4, <1>5 DEF NamesNone
<1>7. expected = {Trim(list[k].name) : k \in {i \in DOMAIN list : Known(i)}}
  BY <1>1, <1>3 DEF Counted
<1>8. \A t \in Range(suite) :
        Naming(t) # {} <=> \E k \in DOMAIN list : t.name = Trim(list[k].name)
  BY <1>4 DEF Naming
<1>9. expected = {t.name : t \in {u \in Range(suite) : Naming(u) # {}}}
  BY <1>5, <1>7, <1>8
<1>. QED BY <1>1, <1>2, <1>3, <1>6, <1>9 DEF Counted

\* What an entry denotes it also names, so that the sets of ReadEntries lie
\* between those of KnownFailuresAccounted (ParseKnownFailures).
THEOREM KnownFailuresCount == Spec => []KnownFailuresAccounted
<1>1. ASSUME KnownInv, pc = "ready" PROVE KnownFailuresAccounted
  <2>1. /\ Range(suite) \subseteq Test /\ list \in Seq(Entry)
        /\ expected = {t.name : t \in {u \in Range(suite) : Naming(u) # {}}}
        /\ unknown = Cardinality(NamesNone)
    BY <1>1, ReadEntries
  <2>2. \A t \in Range(suite) : Denoting(t) \subseteq Naming(t)
    BY DEF Denoting, Naming, Denotes
  <2>3. \A t, u \in Range(suite) : t.name = u.name => Naming(t) = Naming(u)
    BY DEF Naming, NamesTest
  <2>4. ASSUME NEW t \in Range(suite)
        PROVE  /\ Denoting(t) # {} => t.name \in expected
               /\ t.name \in expected => Naming(t) # {}
    BY <2>1, <2>2, <2>3
  <2>5. DenotesNone \subseteq DOMAIN list /\ NamesNone \subseteq DenotesNone
    BY DEF NamesNone, DenotesNone, Denotes
  <2>6. IsFiniteSet(DenotesNone)
    <3>1. DOMAIN list = 1..Len(list) /\ Len(list) \in Int /\ 1 \in Int
      BY <2>1
    <3>2. IsFiniteSet(DOMAIN list)
      BY <3>1, FS_Interval
    <3>. QED BY <2>5, <3>2, FS_Subset
  <2>7. /\ Cardinality(NamesNone) \in Nat
        /\ Cardinality(NamesNone) <= Cardinality(DenotesNone)
    BY <2>5, <2>6, FS_Subset, FS_CardinalityType
  <2>8. expected \subseteq {t.name : t \in Range(suite)}
    BY <2>1
  <2>. QED BY <2>1, <2>4, <2>7, <2>8 DEF KnownFailuresAccounted
<1>2. KnownInv => KnownFailuresAccounted
  BY <1>1 DEF KnownFailuresAccounted
<1>. QED BY <1>2, KnownInvariant, PTL

-----------------------------------------------------------------------------
(* The selection.  The order of a state: the suite has no two tests of one *)
(* name, the candidates are the registry or what the list denotes, and the *)
(* tests are the candidates that have passed the filters so far.           *)

\* The first m tests of the suite have different names.
Distinct(m) == \A i, j \in 1..m : suite[i].name = suite[j].name => i = j

\* The first m entries of the allow-list denote the candidates, one each.
Resolved(m) ==
  /\ candidates \in Seq(registry)
  /\ Len(candidates) = m
  /\ \A k \in 1..m : Denotes(allow[k], candidates[k])

Gathered == IF allow = <<>> THEN candidates \in All ELSE Resolved(Len(allow))

\* The candidates among the first m that are the test t and pass the filters.
Passing(t, m) == {k \in 1..m : candidates[k] = t /\ Passes(t)}

\* The rounds of Select in which the test t was selected.
Selected(t) == {k \in DOMAIN tests : tests[k] = t}

\* The first m candidates have been filtered.
Filtered(m) ==
  /\ tests \in Seq(registry)
  /\ \A t \in registry : Cardinality(Selected(t)) = Cardinality(Passing(t, m))

SelectInv ==
  /\ allow \in Lists \cup {<<>>}
  /\ pc = "register" => Distinct(at - 1)
  /\ pc \in {"parse", "open", "resolve", "select", "known", "list", "ready"} =>
       Distinct(Len(suite))
  /\ pc \in {"register", "parse", "open"} => allow = <<>> /\ candidates = <<>>
  /\ pc \in {"register", "parse", "open", "resolve"} => tests = <<>>
  /\ pc = "resolve" => allow # <<>> /\ at <= Len(allow) + 1 /\ Resolved(at - 1)
  /\ pc \in {"select", "known", "list", "ready"} => Gathered
  /\ pc = "select" => at <= Len(candidates) + 1 /\ Filtered(at - 1)
  /\ pc \in {"known", "list", "ready"} => Filtered(Len(candidates))

\* Every set of numbers has a least element.
LEMMA Least ==
  ASSUME NEW T, T \subseteq Nat, T # {}
  PROVE  \E x \in T : \A y \in T : x <= y
<1> DEFINE R == {ss \in Nat \X Nat : ss[1] < ss[2]}
<1>1. IsWellFoundedOn(R, Nat)
  <2>1. OpToRel(<, Nat) = R
    BY DEF OpToRel
  <2>. QED BY <2>1, NatLessThanWellFounded
<1> HIDE DEF R
<1>2. PICK x \in T : \A y \in T : ~ (<<y, x>> \in R)
  BY <1>1, WFMin
<1>3. \A y \in T : ~(y < x)
  BY <1>2 DEF R
<1>. QED BY <1>2, <1>3

\* The registry is a finite set of tests.
LEMMA RegistryIsFinite ==
  ASSUME KnownInv, pc \in {"parse", "open", "resolve", "select", "known", "list", "ready"}
  PROVE  /\ registry = Range(suite) /\ registry \subseteq Test
         /\ suite \in Seq(Test) /\ DOMAIN suite = 1..Len(suite) /\ Len(suite) \in Nat
         /\ IsFiniteSet(registry)
<1>1. registry = Range(suite) /\ suite \in Seq(Test)
  BY SelectionAssumption DEF KnownInv
<1>2. DOMAIN suite = 1..Len(suite) /\ Len(suite) \in Nat /\ registry \subseteq Test
  BY <1>1 DEF Range
<1>3. registry = {suite[i] : i \in 1..Len(suite)}
  BY <1>1, <1>2 DEF Range
<1>4. suite \in Surjection(1..Len(suite), registry)
  BY <1>1, <1>2, <1>3 DEF Surjection
<1>5. IsFiniteSet(1..Len(suite))
  BY <1>2, FS_Interval
<1>6. IsFiniteSet(registry)
  BY <1>4, <1>5, FS_Surjection
<1>. QED BY <1>1, <1>2, <1>6

\* No two tests of the registry have one name (NewRegistry).
LEMMA OneOfAName ==
  ASSUME KnownInv, SelectInv,
         pc \in {"parse", "open", "resolve", "select", "known", "list", "ready"},
         NEW t \in registry, NEW u \in registry, t.name = u.name
  PROVE  t = u
<1>1. registry = Range(suite) /\ DOMAIN suite = 1..Len(suite)
  BY RegistryIsFinite
<1>2. PICK i \in 1..Len(suite) : t = suite[i]
  BY <1>1 DEF Range
<1>3. PICK j \in 1..Len(suite) : u = suite[j]
  BY <1>1 DEF Range
<1>4. Distinct(Len(suite))
  BY DEF SelectInv
<1>. QED BY <1>2, <1>3, <1>4 DEF Distinct

\* The names of tests are ordered.
LEMMA BeforeIsStrict ==
  ASSUME NEW t \in Test, NEW u \in Test, Before(t, u)
  PROVE  t # u
<1>1. t.name \in Nat \X Int
  BY DEF Test
<1>2. t.name[1] \in Int /\ t.name[2] \in Int
  BY <1>1
<1>3. ~ (t.name[1] < t.name[1]) /\ ~ (t.name[2] < t.name[2])
  BY <1>2
<1>. QED BY <1>3 DEF Before

\* Every test of the registry is a candidate, once, if there is no allow-list:
\* a sorted enumeration repeats nothing, so that it misses nothing (All).
LEMMA AllIsEveryTest ==
  ASSUME NEW s \in All, registry \subseteq Test, IsFiniteSet(registry)
  PROVE  /\ s \in Seq(registry) /\ Len(s) = Cardinality(registry)
         /\ \A t \in registry : \E k \in 1..Len(s) : s[k] = t
         /\ \A j, k \in 1..Len(s) : s[j] = s[k] => j = k
<1> DEFINE n == Cardinality(registry)
<1>1. n \in Nat
  BY FS_CardinalityType
<1>2. s \in [1..n -> registry] /\ \A i, j \in 1..n : i < j => Before(s[i], s[j])
  BY DEF All
<1>3. s \in Seq(registry) /\ Len(s) = n
  BY <1>1, <1>2
<1>4. \A i, j \in 1..n : s[i] = s[j] => i = j
  <2>1. SUFFICES ASSUME NEW i \in 1..n, NEW j \in 1..n, s[i] = s[j], i # j PROVE FALSE
    OBVIOUS
  <2>2. i < j \/ j < i
    BY <1>1, <2>1
  <2>3. Before(s[i], s[j]) \/ Before(s[j], s[i])
    BY <1>2, <2>2
  <2>4. s[i] \in Test /\ s[j] \in Test
    BY <1>2
  <2>. QED BY <2>1, <2>3, <2>4, BeforeIsStrict
<1>5. s \in Injection(1..n, registry)
  BY <1>2, <1>4 DEF Injection, IsInjective
<1>6. Cardinality(1..n) = n
  BY <1>1, FS_Interval
<1>7. s \in Surjection(1..n, registry)
  BY <1>5, <1>6, FS_Injection
<1>8. \A t \in registry : \E k \in 1..n : s[k] = t
  BY <1>7 DEF Surjection
<1>. QED BY <1>3, <1>4, <1>8

-----------------------------------------------------------------------------
\* A test is registered under a name that no test before it has (NewRegistry).
LEMMA RegisterKeepsNames ==
  ASSUME KnownInv, SelectInv, RegisterTest
  PROVE  SelectInv'
<1>1. /\ pc = "register" /\ at \in Nat \ {0} /\ at <= Len(suite)
      /\ registry = {suite[i] : i \in 1..(at - 1)}
      /\ UNCHANGED <<suite, allow, candidates, tests>>
  BY DEF KnownInv, RegisterTest
<1>2. CASE pc' = "refused"
  BY <1>1, <1>2 DEF SelectInv
<1>3. CASE pc' # "refused"
  <2>1. pc' = "register" /\ at' = at + 1 /\ Lookup(suite[at].name) = {}
    BY <1>1, <1>3 DEF RegisterTest, Refuse, NextRound
  <2>2. \A i \in 1..(at - 1) : suite[i].name # suite[at].name
    BY <1>1, <2>1 DEF Lookup
  <2>3. Distinct(at - 1)
    BY <1>1 DEF SelectInv
  <2>4. \A i \in 1..at : i \in 1..(at - 1) \/ i = at
    BY <1>1
  <2>5. Distinct(at)
    BY <2>2, <2>3, <2>4 DEF Distinct
  <2>6. at' - 1 = at
    BY <1>1, <2>1
  <2>7. Distinct(at - 1)'
    BY <1>1, <2>5, <2>6 DEF Distinct
  <2>. QED BY <1>1, <2>1, <2>7 DEF SelectInv
<1>. QED BY <1>2, <1>3

\* The steps between the registry and the candidates.
LEMMA GatheringStep ==
  ASSUME KnownInv, SelectInv, Lex \/ ParseMarkers \/ OpenAllowList
  PROVE  SelectInv'
<1>1. CASE Lex
  <2>1. /\ pc = "register" /\ pc' \in {"parse", "refused"} /\ at > Len(suite)
        /\ UNCHANGED <<suite, at, allow, candidates, tests>>
    BY <1>1 DEF Lex
  <2>2. suite \in Seq(Test) /\ at \in Nat /\ Len(suite) \in Nat /\ at <= Len(suite) + 1
    BY <2>1, SelectionAssumption DEF KnownInv
  <2>3. at - 1 = Len(suite) /\ Distinct(at - 1)
    BY <2>1, <2>2 DEF SelectInv
  <2>4. Distinct(Len(suite))'
    BY <2>1, <2>3 DEF Distinct
  <2>. QED BY <2>1, <2>4 DEF SelectInv
<1>2. CASE ParseMarkers
  <2>1. /\ pc = "parse" /\ pc' \in {"open", "refused"}
        /\ UNCHANGED <<suite, allow, candidates, tests>>
    BY <1>2 DEF ParseMarkers
  <2>2. Distinct(Len(suite))'
    BY <2>1 DEF Distinct, SelectInv
  <2>. QED BY <2>1, <2>2 DEF SelectInv
<1>3. CASE OpenAllowList
  <2>1. /\ pc = "open" /\ UNCHANGED <<suite, registry, tests>>
        /\ allow = <<>> /\ candidates = <<>> /\ tests = <<>>
    BY <1>3 DEF OpenAllowList, SelectInv
  <2>2. Distinct(Len(suite))'
    BY <2>1 DEF Distinct, SelectInv
  <2>3. CASE candidates' \in All /\ at' = 1 /\ pc' = "select" /\ UNCHANGED allow
    <3>1. IsFiniteSet(registry) /\ registry \subseteq Test
      BY <2>1, RegistryIsFinite
    <3>2. PICK s : s = candidates'
      OBVIOUS
    <3>3. s \in Seq(registry) /\ Len(s) \in Nat
      BY <2>3, <3>1, <3>2, AllIsEveryTest
    <3>4. Gathered'
      BY <2>1, <2>3 DEF Gathered, All
    <3>5. Filtered(0)'
      <4>1. tests' = <<>> /\ DOMAIN tests' = {}
        BY <2>1
      <4>2. \A t : Selected(t)' = {} /\ Passing(t, 0)' = {}
        BY <4>1 DEF Selected, Passing
      <4>3. \A t : Cardinality(Selected(t)') = Cardinality(Passing(t, 0)')
        BY <4>2
      <4>. QED BY <4>1, <4>3 DEF Filtered
    <3>6. at' - 1 = 0 /\ at' <= Len(candidates') + 1
      BY <2>3, <3>2, <3>3
    <3>7. Filtered(at - 1)'
      BY <3>5, <3>6 DEF Filtered, Passing, Selected
    <3>8. allow' \in Lists \cup {<<>>}
      BY <2>3 DEF SelectInv
    <3>. QED BY <2>2, <2>3, <3>4, <3>6, <3>7, <3>8 DEF SelectInv
  <2>4. CASE allow' \in Lists \ {<<>>} /\ at' = 1 /\ pc' = "resolve" /\ UNCHANGED candidates
    <3>1. allow' \in Seq(Entry)
      BY <2>4, SelectionAssumption
    <3>2. at' - 1 = 0 /\ at' <= Len(allow') + 1
      BY <2>4, <3>1
    <3>3. Resolved(at - 1)'
      <4>1. candidates' = <<>> /\ Len(candidates') = 0
        BY <2>1, <2>4
      <4>. QED BY <3>2, <4>1 DEF Resolved
    <3>. QED BY <2>1, <2>2, <2>4, <3>2, <3>3 DEF SelectInv
  <2>5. CASE pc' = "refused" /\ UNCHANGED <<at, allow, candidates>>
    BY <2>1, <2>5 DEF SelectInv
  <2>. QED BY <1>3, <2>3, <2>4, <2>5 DEF OpenAllowList
<1>. QED BY <1>1, <1>2, <1>3

\* An entry is resolved to a test that it denotes (Registry.resolve).
LEMMA ResolveStep ==
  ASSUME KnownInv, SelectInv, ResolveEntry
  PROVE  SelectInv'
<1>1. /\ pc = "resolve" /\ at \in Nat \ {0} /\ at <= Len(allow)
      /\ UNCHANGED <<suite, registry, allow, tests>>
      /\ allow # <<>> /\ tests = <<>> /\ Resolved(at - 1) /\ registry \subseteq Test
  BY RegistryIsFinite DEF KnownInv, SelectInv, ResolveEntry
<1>2. Distinct(Len(suite))'
  BY <1>1 DEF Distinct, SelectInv
<1>3. allow \in Seq(Entry)
  BY <1>1, SelectionAssumption DEF SelectInv
<1>4. CASE pc' = "refused"
  BY <1>1, <1>4 DEF SelectInv
<1>5. CASE pc' # "refused"
  <2>1. pc' = "resolve" /\ at' = at + 1
    BY <1>1, <1>5 DEF ResolveEntry, Refuse, NextRound
  <2>2. allow[at].valid
    BY <1>1, <1>5 DEF ResolveEntry, Refuse
  <2>3. PICK t \in {t \in Lookup(Trim(allow[at].name)) : t.module = allow[at].module} :
               candidates' = Append(candidates, t)
    BY <1>1, <1>5 DEF ResolveEntry, Refuse
  <2>4. t \in registry /\ t.name = Trim(allow[at].name) /\ t.module = allow[at].module
    BY <2>3 DEF Lookup
  <2>5. Denotes(allow[at], t)
    <3>1. allow[at] \in Entry /\ t \in Test
      BY <1>1, <1>3, <2>4
    <3>2. NamesTest(allow[at], t)
      BY <2>4, <3>1, TrimFinds
    <3>. QED BY <2>2, <2>4, <3>2 DEF Denotes
  <2>6. candidates \in Seq(registry) /\ Len(candidates) = at - 1
        /\ \A k \in 1..(at - 1) : Denotes(allow[k], candidates[k])
    BY <1>1 DEF Resolved
  <2>7. /\ candidates' \in Seq(registry) /\ Len(candidates') = at
        /\ \A k \in 1..(at - 1) : candidates'[k] = candidates[k]
        /\ candidates'[at] = t
    BY <1>1, <2>3, <2>4, <2>6
  <2>8. \A k \in 1..at : k \in 1..(at - 1) \/ k = at
    BY <1>1
  <2>9. \A k \in 1..at : Denotes(allow[k], candidates'[k])
    BY <2>5, <2>6, <2>7, <2>8
  <2>10. at' - 1 = at /\ at' <= Len(allow') + 1
    BY <1>1, <1>3, <2>1
  <2>11. \A k \in 1..at : Denotes(allow[k], candidates[k])'
    BY <1>1, <2>9 DEF Denotes, NamesTest, NodeName
  <2>12. Resolved(at - 1)'
    BY <1>1, <2>7, <2>10, <2>11 DEF Resolved
  <2>. QED BY <1>1, <1>2, <2>1, <2>10, <2>12 DEF SelectInv
<1>. QED BY <1>4, <1>5

\* Every entry of the list has its candidate.
LEMMA EndResolveStep ==
  ASSUME KnownInv, SelectInv, EndResolve
  PROVE  SelectInv'
<1>1. /\ pc = "resolve" /\ pc' = "select" /\ at > Len(allow) /\ at' = 1
      /\ UNCHANGED <<suite, registry, allow, candidates, tests>>
      /\ allow # <<>> /\ tests = <<>> /\ Resolved(at - 1) /\ at <= Len(allow) + 1
  BY DEF SelectInv, EndResolve
<1>2. Distinct(Len(suite))'
  BY <1>1 DEF Distinct, SelectInv
<1>3. allow \in Seq(Entry) /\ at \in Nat
  BY <1>1, SelectionAssumption DEF SelectInv, KnownInv
<1>4. at - 1 = Len(allow)
  BY <1>1, <1>3
<1>5. Gathered'
  <2>1. Resolved(Len(allow))
    BY <1>1, <1>4
  <2>2. Resolved(Len(allow))'
    BY <1>1, <2>1 DEF Resolved, Denotes, NamesTest, NodeName
  <2>. QED BY <1>1, <2>2 DEF Gathered
<1>6. Filtered(0)'
  <2>1. tests' = <<>> /\ DOMAIN tests' = {}
    BY <1>1
  <2>2. \A t : Selected(t)' = {} /\ Passing(t, 0)' = {}
    BY <2>1 DEF Selected, Passing
  <2>3. \A t : Cardinality(Selected(t)') = Cardinality(Passing(t, 0)')
    BY <2>2
  <2>. QED BY <2>1, <2>3 DEF Filtered
<1>7. candidates' \in Seq(registry) /\ Len(candidates') \in Nat
  BY <1>1 DEF Resolved
<1>8. at' - 1 = 0 /\ at' <= Len(candidates') + 1
  BY <1>1, <1>7
<1>9. Filtered(at - 1)'
  BY <1>6, <1>8 DEF Filtered, Passing, Selected
<1>. QED BY <1>1, <1>2, <1>5, <1>8, <1>9 DEF SelectInv

\* The candidates are tests of the registry.
LEMMA CandidatesAreTests ==
  ASSUME KnownInv, SelectInv, pc \in {"select", "known", "list", "ready"}
  PROVE  candidates \in Seq(registry) /\ Len(candidates) \in Nat
<1>1. IsFiniteSet(registry) /\ registry \subseteq Test
  BY RegistryIsFinite
<1>2. Gathered
  BY DEF SelectInv
<1>3. CASE allow = <<>>
  <2>1. candidates \in All
    BY <1>2, <1>3 DEF Gathered
  <2>. QED BY <1>1, <2>1, AllIsEveryTest
<1>4. CASE allow # <<>>
  BY <1>2, <1>4 DEF Gathered, Resolved
<1>. QED BY <1>3, <1>4

\* A round selects its candidate if the filters let it pass (Select).
LEMMA FilterStep ==
  ASSUME KnownInv, SelectInv, Filter
  PROVE  SelectInv'
<1>1. /\ pc = "select" /\ pc' = "select" /\ at \in Nat \ {0} /\ at <= Len(candidates)
      /\ at' = at + 1
      /\ UNCHANGED <<suite, registry, sat, run, allow, candidates>>
      /\ tests' = IF Passes(candidates[at]) THEN Append(tests, candidates[at]) ELSE tests
  BY DEF KnownInv, Filter, NextRound
<1>2. candidates \in Seq(registry) /\ Len(candidates) \in Nat
  BY <1>1, CandidatesAreTests
<1>3. tests \in Seq(registry) /\ Len(tests) \in Nat /\ DOMAIN tests = 1..Len(tests)
      /\ \A t \in registry : Cardinality(Selected(t)) = Cardinality(Passing(t, at - 1))
  BY <1>1 DEF SelectInv, Filtered
<1>4. candidates[at] \in registry
  BY <1>1, <1>2
<1>5. tests' \in Seq(registry)
  BY <1>1, <1>3, <1>4
<1>. PICK n \in Nat : n = at
  BY <1>1
<1>6. ASSUME NEW t \in registry
      PROVE  Cardinality(Selected(t)') = Cardinality(Passing(t, n)')
  <2> DEFINE S == Selected(t)
             P == Passing(t, at - 1)
  <2>1. IsFiniteSet(S) /\ IsFiniteSet(P) /\ Cardinality(S) = Cardinality(P)
    <3>1. S \subseteq 1..Len(tests) /\ P \subseteq 1..(at - 1)
      BY <1>3 DEF Selected, Passing
    <3>2. IsFiniteSet(1..Len(tests)) /\ IsFiniteSet(1..(at - 1))
      BY <1>1, <1>3, FS_Interval
    <3>3. Cardinality(S) = Cardinality(P)
      BY <1>3
    <3> HIDE DEF S, P
    <3>. QED BY <3>1, <3>2, <3>3, FS_Subset
  <2>2. at \notin P /\ Len(tests) + 1 \notin S
    BY <1>1, <1>3 DEF Selected, Passing
  <2>3. 1..at = (1..(at - 1)) \cup {at} /\ at \notin 1..(at - 1)
    BY <1>1
  <2>4. Passing(t, n)' = {k \in 1..at : candidates[k] = t /\ Passes(t)}
    BY <1>1 DEF Passing, Passes
  <2>5. CASE candidates[at] = t /\ Passes(t)
    <3>1. Passing(t, n)' = P \cup {at}
      BY <2>3, <2>4, <2>5 DEF Passing
    <3>2. tests' = Append(tests, t)
      BY <1>1, <2>5
    <3>3. Selected(t)' = S \cup {Len(tests) + 1}
      <4>1. DOMAIN tests' = (1..Len(tests)) \cup {Len(tests) + 1}
            /\ (\A k \in 1..Len(tests) : tests'[k] = tests[k]) /\ tests'[Len(tests) + 1] = t
        BY <1>3, <3>2
      <4>2. Selected(t)' = {k \in (1..Len(tests)) \cup {Len(tests) + 1} : tests'[k] = t}
        BY <4>1 DEF Selected
      <4>3. S = {k \in 1..Len(tests) : tests[k] = t}
        BY <1>3 DEF Selected
      <4> HIDE DEF S
      <4>. QED BY <4>1, <4>2, <4>3
    <3>4. Cardinality(P \cup {at}) = Cardinality(P) + 1
          /\ Cardinality(S \cup {Len(tests) + 1}) = Cardinality(S) + 1
      <4> HIDE DEF S, P
      <4>. QED BY <2>1, <2>2, FS_AddElement
    <3>. QED BY <2>1, <3>1, <3>3, <3>4
  <2>6. CASE ~ (candidates[at] = t /\ Passes(t))
    <3>1. Passing(t, n)' = P
      BY <2>3, <2>4, <2>6 DEF Passing
    <3>2. Selected(t)' = S
      <4>1. CASE Passes(candidates[at])
        <5>1. tests' = Append(tests, candidates[at]) /\ candidates[at] # t
          BY <1>1, <2>6, <4>1
        <5>2. DOMAIN tests' = (1..Len(tests)) \cup {Len(tests) + 1}
              /\ (\A k \in 1..Len(tests) : tests'[k] = tests[k])
              /\ tests'[Len(tests) + 1] = candidates[at]
          BY <1>3, <1>4, <5>1
        <5>3. Selected(t)' = {k \in (1..Len(tests)) \cup {Len(tests) + 1} : tests'[k] = t}
          BY <5>2 DEF Selected
        <5>4. S = {k \in 1..Len(tests) : tests[k] = t}
          BY <1>3 DEF Selected
        <5> HIDE DEF S
        <5>. QED BY <5>1, <5>2, <5>3, <5>4
      <4>2. CASE ~ Passes(candidates[at])
        BY <1>1, <4>2 DEF Selected
      <4>. QED BY <4>1, <4>2
    <3>. QED BY <2>1, <3>1, <3>2
  <2>. QED BY <2>5, <2>6
<1>7. at' - 1 = at /\ at' <= Len(candidates') + 1
  BY <1>1, <1>2
<1>8. Filtered(at - 1)'
  <2>1. \A t \in registry : Passing(t, at - 1)' = Passing(t, n)'
    BY <1>1, <1>7 DEF Passing
  <2>. QED BY <1>1, <1>5, <1>6, <2>1 DEF Filtered
<1>9. Distinct(Len(suite))' /\ Gathered'
  BY <1>1 DEF Distinct, SelectInv, Gathered, All, Resolved, Denotes, NamesTest, NodeName
<1>. QED BY <1>1, <1>7, <1>8, <1>9 DEF SelectInv

\* What follows the filter changes none of it.
LEMMA SelectedStays ==
  ASSUME KnownInv, SelectInv, EndSelect \/ OpenKnownFailures \/ KnownEntry \/ EndKnownFailures
  PROVE  SelectInv'
<1>1. /\ pc \in {"select", "known", "list"} /\ pc' \in {"known", "list", "ready", "refused"}
      /\ UNCHANGED <<suite, registry, sat, run, allow, candidates, tests>>
  BY DEF EndSelect, OpenKnownFailures, KnownEntry, EndKnownFailures, Refuse, NextRound
<1>2. Distinct(Len(suite))' /\ Gathered'
  BY <1>1 DEF Distinct, SelectInv, Gathered, All, Resolved, Denotes, NamesTest, NodeName
<1>3. Filtered(Len(candidates))
  <2>1. CASE pc = "select"
    <3>1. at > Len(candidates) /\ at <= Len(candidates) + 1 /\ at \in Nat /\ Filtered(at - 1)
      BY <2>1 DEF SelectInv, KnownInv, EndSelect, OpenKnownFailures, KnownEntry, EndKnownFailures
    <3>2. Len(candidates) \in Nat
      BY <2>1, CandidatesAreTests
    <3>3. at - 1 = Len(candidates)
      BY <3>1, <3>2
    <3>. QED BY <3>1, <3>3
  <2>2. CASE pc # "select"
    BY <1>1, <2>2 DEF SelectInv
  <2>. QED BY <2>1, <2>2
<1>4. Filtered(Len(candidates))'
  BY <1>1, <1>3 DEF Filtered, Passing, Selected, Passes
<1>. QED BY <1>1, <1>2, <1>4 DEF SelectInv

\* Both invariants hold in every state.
LEMMA SelectInvariant == Spec => [](KnownInv /\ SelectInv)
<1>1. Init => SelectInv
  <2>1. ASSUME Init PROVE SelectInv
    <3>1. 1..(1 - 1) = {}
      OBVIOUS
    <3>. QED BY <2>1, <3>1 DEF Init, SelectInv, Distinct
  <2>. QED BY <2>1
<1>2. KnownInv /\ SelectInv /\ [Next]_vars => SelectInv'
  <2>1. ASSUME SelectInv, UNCHANGED vars PROVE SelectInv'
    <3>1. UNCHANGED <<pc, suite, at, registry, sat, run, allow, candidates, tests>>
      BY <2>1 DEF vars
    <3>2. /\ Distinct(at - 1)' = Distinct(at - 1) /\ Distinct(Len(suite))' = Distinct(Len(suite))
          /\ Gathered' = Gathered /\ Resolved(at - 1)' = Resolved(at - 1)
      BY <3>1 DEF Distinct, Gathered, All, Resolved, Denotes, NamesTest, NodeName
    <3>3. /\ Filtered(at - 1)' = Filtered(at - 1)
          /\ Filtered(Len(candidates))' = Filtered(Len(candidates))
      BY <3>1 DEF Filtered, Passing, Selected, Passes
    <3>. QED BY <2>1, <3>1, <3>2, <3>3 DEF SelectInv
  <2>. QED BY <2>1, RegisterKeepsNames, GatheringStep, ResolveStep, EndResolveStep, FilterStep,
              SelectedStays DEF Next
<1>. QED BY <1>1, <1>2, KnownInvariant, PTL DEF Spec

\* Without an allow-list every test that passes the filters is selected once:
\* the sorted enumeration of the registry holds every test once, and no two
\* tests of the suite are one (NewRegistry, All, Select).
THEOREM EveryTestIsSelected == Spec => []SelectionComplete
<1>1. ASSUME KnownInv, SelectInv PROVE SelectionComplete
  <2>1. SUFFICES ASSUME pc \in {"known", "list", "ready"}, allow = <<>>,
                        NEW t \in {suite[i] : i \in DOMAIN suite}
                 PROVE  Cardinality({k \in DOMAIN tests : tests[k] = t}) =
                          Cardinality({i \in DOMAIN suite : suite[i] = t /\ Passes(t)})
    BY DEF SelectionComplete
  <2>2. registry = Range(suite) /\ registry \subseteq Test /\ IsFiniteSet(registry)
        /\ DOMAIN suite = 1..Len(suite)
    BY <1>1, <2>1, RegistryIsFinite
  <2>3. t \in registry
    BY <2>1, <2>2 DEF Range
  <2>4. Cardinality(Selected(t)) = Cardinality(Passing(t, Len(candidates)))
    BY <1>1, <2>1, <2>3 DEF SelectInv, Filtered
  <2>5. candidates \in All /\ Distinct(Len(suite))
    BY <1>1, <2>1 DEF SelectInv, Gathered
  <2> DEFINE P == Passing(t, Len(candidates))
             Q == {i \in DOMAIN suite : suite[i] = t /\ Passes(t)}
  <2>6. PICK k \in 1..Len(candidates) : candidates[k] = t
    BY <2>2, <2>3, <2>5, AllIsEveryTest
  <2>7. \A j \in 1..Len(candidates) : candidates[j] = t => j = k
    BY <2>2, <2>5, <2>6, AllIsEveryTest
  <2>8. PICK i \in 1..Len(suite) : suite[i] = t
    BY <2>1, <2>2
  <2>9. \A j \in 1..Len(suite) : suite[j] = t => j = i
    BY <2>5, <2>8 DEF Distinct
  <2>10. Cardinality(P) = Cardinality(Q)
    <3>1. CASE Passes(t)
      <4>1. P = {k} /\ Q = {i}
        BY <2>2, <2>6, <2>7, <2>8, <2>9, <3>1 DEF Passing
      <4>. QED BY <4>1, FS_Singleton
    <3>2. CASE ~ Passes(t)
      <4>1. P = {} /\ Q = {}
        BY <3>2 DEF Passing
      <4>. QED BY <4>1
    <3>. QED BY <3>1, <3>2
  <2>. QED BY <2>4, <2>10 DEF Selected
<1>. QED BY <1>1, SelectInvariant, PTL

\* An allow-list is a gate: its entries denote tests of the suite, and a test is
\* selected as often as entries denote it, since an entry denotes one test only
\* (resolve, Select).
THEOREM AllowListIsAGate == Spec => []AllowListGates
<1>1. ASSUME KnownInv, SelectInv PROVE AllowListGates
  <2>1. SUFFICES ASSUME pc \in {"known", "list", "ready"}, allow # <<>>
                 PROVE  /\ \A k \in DOMAIN allow : \E t \in Range(suite) : Denotes(allow[k], t)
                        /\ \A t \in Range(suite) :
                             Cardinality({k \in DOMAIN tests : tests[k] = t}) =
                               Cardinality({k \in DOMAIN allow :
                                              Denotes(allow[k], t) /\ Passes(t)})
    BY DEF AllowListGates
  <2>2. registry = Range(suite) /\ registry \subseteq Test
    BY <1>1, <2>1, RegistryIsFinite
  <2>3. Resolved(Len(allow)) /\ Filtered(Len(candidates))
    BY <1>1, <2>1 DEF SelectInv, Gathered
  <2>4. allow \in Seq(Entry) /\ DOMAIN allow = 1..Len(allow)
    BY <1>1, <2>1, SelectionAssumption DEF SelectInv
  <2>5. /\ Len(candidates) = Len(allow)
        /\ \A k \in 1..Len(allow) : candidates[k] \in registry /\ Denotes(allow[k], candidates[k])
    BY <2>3 DEF Resolved
  <2>6. ASSUME NEW t \in registry, NEW k \in 1..Len(allow)
        PROVE  Denotes(allow[k], t) <=> candidates[k] = t
    <3>1. allow[k] \in Entry /\ t \in Test /\ candidates[k] \in Test
      BY <2>2, <2>4, <2>5
    <3>2. candidates[k].name = Trim(allow[k].name)
      BY <2>5, <3>1, TrimFinds DEF Denotes
    <3>3. Denotes(allow[k], t) => t.name = candidates[k].name
      BY <3>1, <3>2, TrimFinds DEF Denotes
    <3>4. t.name = candidates[k].name => t = candidates[k]
      BY <1>1, <2>1, <2>5, OneOfAName
    <3>. QED BY <2>5, <3>3, <3>4
  <2>7. \A k \in DOMAIN allow : \E t \in Range(suite) : Denotes(allow[k], t)
    BY <2>2, <2>4, <2>5
  <2>8. ASSUME NEW t \in Range(suite)
        PROVE  Cardinality({k \in DOMAIN tests : tests[k] = t}) =
                 Cardinality({k \in DOMAIN allow : Denotes(allow[k], t) /\ Passes(t)})
    <3>1. Cardinality(Selected(t)) = Cardinality(Passing(t, Len(allow)))
      BY <2>2, <2>3, <2>5 DEF Filtered
    <3>2. Passing(t, Len(allow)) = {k \in DOMAIN allow : Denotes(allow[k], t) /\ Passes(t)}
      BY <2>2, <2>4, <2>6 DEF Passing
    <3>. QED BY <3>1, <3>2 DEF Selected
  <2>. QED BY <2>7, <2>8
<1>. QED BY <1>1, SelectInvariant, PTL

-----------------------------------------------------------------------------
(* The order of the tests.  The candidates without an allow-list are said  *)
(* by what they are, a sorted enumeration of the registry.  There is       *)
(* exactly one.                                                            *)

\* Of two tests with different names one is before the other, and before
\* whatever that one is before.
LEMMA BeforeIsTotal ==
  /\ \A t, u \in Test : t.name # u.name => Before(t, u) \/ Before(u, t)
  /\ \A t, u, v \in Test : Before(t, u) /\ Before(u, v) => Before(t, v)
<1>1. \A t \in Test : t.name \in Nat \X Int
  BY DEF Test
<1>2. ASSUME NEW t \in Test, NEW u \in Test, t.name # u.name PROVE Before(t, u) \/ Before(u, t)
  <2>1. t.name \in Nat \X Int /\ u.name \in Nat \X Int
    BY <1>1
  <2>2. t.name[1] # u.name[1] \/ t.name[2] # u.name[2]
    BY <1>2, <2>1
  <2>3. /\ t.name[1] \in Int /\ t.name[2] \in Int
        /\ u.name[1] \in Int /\ u.name[2] \in Int
    BY <2>1
  <2>. QED BY <2>2, <2>3 DEF Before
<1>3. ASSUME NEW t \in Test, NEW u \in Test, NEW v \in Test, Before(t, u), Before(u, v)
      PROVE  Before(t, v)
  <2>1. t.name \in Nat \X Int /\ u.name \in Nat \X Int /\ v.name \in Nat \X Int
    BY <1>1
  <2>2. /\ t.name[1] \in Int /\ t.name[2] \in Int
        /\ u.name[1] \in Int /\ u.name[2] \in Int
        /\ v.name[1] \in Int /\ v.name[2] \in Int
    BY <2>1
  <2>. QED BY <1>3, <2>2 DEF Before
<1>. QED BY <1>2, <1>3

\* The tests that come before t.
Earlier(t) == {u \in registry : Before(u, t)}

\* The number of tests before it gives every test a place of its own, and the
\* places are those of a sequence that holds every test.
LEMMA PlacesOfTests ==
  ASSUME registry \subseteq Test, IsFiniteSet(registry),
         \A t, u \in registry : t.name = u.name => t = u
  PROVE  \E f \in [registry -> 1..Cardinality(registry)] :
           /\ \A t, u \in registry : Before(t, u) => f[t] < f[u]
           /\ \A i \in 1..Cardinality(registry) : \E t \in registry : f[t] = i
<1> DEFINE n == Cardinality(registry)
           f == [t \in registry |-> Cardinality(Earlier(t)) + 1]
<1>1. n \in Nat
  BY FS_CardinalityType
<1>2. ASSUME NEW t \in registry
      PROVE  /\ IsFiniteSet(Earlier(t)) /\ Cardinality(Earlier(t)) \in Nat
             /\ Cardinality(Earlier(t) \cup {t}) = Cardinality(Earlier(t)) + 1
             /\ Earlier(t) \cup {t} \subseteq registry
  <2>1. Earlier(t) \subseteq registry /\ t \notin Earlier(t)
    BY BeforeIsStrict DEF Earlier
  <2>2. IsFiniteSet(Earlier(t))
    BY <2>1, FS_Subset
  <2>. QED BY <1>2, <2>1, <2>2, FS_CardinalityType, FS_AddElement
<1>3. ASSUME NEW t \in registry PROVE f[t] \in 1..n
  <2>1. Cardinality(Earlier(t) \cup {t}) <= n
    BY <1>2, <1>3, FS_Subset
  <2>. QED BY <1>1, <1>2, <1>3, <2>1
<1>4. ASSUME NEW t \in registry, NEW u \in registry, Before(t, u) PROVE f[t] < f[u]
  <2>1. Earlier(t) \cup {t} \subseteq Earlier(u)
    BY <1>4, BeforeIsTotal DEF Earlier
  <2>2. Cardinality(Earlier(t) \cup {t}) <= Cardinality(Earlier(u))
    BY <1>2, <1>4, <2>1, FS_Subset
  <2>3. /\ Cardinality(Earlier(t) \cup {t}) = Cardinality(Earlier(t)) + 1
        /\ Cardinality(Earlier(t)) \in Nat /\ Cardinality(Earlier(u)) \in Nat
    BY <1>2, <1>4
  <2>. QED BY <1>4, <2>2, <2>3
<1>5. f \in [registry -> 1..n]
  BY <1>3
<1> HIDE DEF f
<1>6. ASSUME NEW t \in registry, NEW u \in registry, f[t] = f[u] PROVE t = u
  <2>1. f[t] \in Int /\ f[u] \in Int
    BY <1>5, <1>6
  <2>2. ~ Before(t, u) /\ ~ Before(u, t)
    BY <1>4, <1>6, <2>1
  <2>. QED BY <1>6, <2>2, BeforeIsTotal
<1>7. f \in Injection(registry, 1..n)
  BY <1>5, <1>6 DEF Injection, IsInjective
<1>8. IsFiniteSet(1..n) /\ Cardinality(1..n) = n
  BY <1>1, FS_Interval
<1>9. f \in Surjection(registry, 1..n)
  BY <1>7, <1>8, FS_Injection
<1>. QED BY <1>4, <1>5, <1>9 DEF Surjection

\* There is a sorted enumeration of the registry.
LEMMA AllExists ==
  ASSUME registry \subseteq Test, IsFiniteSet(registry),
         \A t, u \in registry : t.name = u.name => t = u
  PROVE  All # {}
<1> DEFINE n == Cardinality(registry)
<1>1. n \in Nat
  BY FS_CardinalityType
<1>2. PICK f \in [registry -> 1..n] :
        /\ \A t, u \in registry : Before(t, u) => f[t] < f[u]
        /\ \A i \in 1..n : \E t \in registry : f[t] = i
  BY PlacesOfTests
<1> DEFINE s == [i \in 1..n |-> CHOOSE t \in registry : f[t] = i]
<1>3. ASSUME NEW i \in 1..n PROVE s[i] \in registry /\ f[s[i]] = i
  BY <1>2, <1>3
<1>4. s \in [1..n -> registry]
  BY <1>3
<1> HIDE DEF s
<1>5. ASSUME NEW i \in 1..n, NEW j \in 1..n, i < j PROVE Before(s[i], s[j])
  <2>1. /\ s[i] \in registry /\ s[j] \in registry /\ f[s[i]] = i /\ f[s[j]] = j
    BY <1>3
  <2>2. s[i] # s[j] /\ ~ Before(s[j], s[i])
    BY <1>1, <1>2, <1>5, <2>1
  <2>3. s[i].name # s[j].name
    BY <2>1, <2>2
  <2>. QED BY <2>1, <2>2, <2>3, BeforeIsTotal
<1>6. DOMAIN s = 1..n
  BY <1>4
<1>7. s \in All
  BY <1>4, <1>5, <1>6 DEF All
<1>. QED BY <1>7

\* Where two enumerations differ first, the test of one is further back in the
\* other.
LEMMA FurtherBack ==
  ASSUME registry \subseteq Test, IsFiniteSet(registry),
         NEW s \in All, NEW r \in All, NEW i \in 1..Cardinality(registry),
         \A k \in 1..Cardinality(registry) : k < i => s[k] = r[k],
         s[i] # r[i]
  PROVE  Before(s[i], r[i])
<1> DEFINE n == Cardinality(registry)
<1>1. n \in Nat
  BY FS_CardinalityType
<1>2. /\ s \in [1..n -> registry] /\ \A j, k \in 1..n : j < k => Before(s[j], s[k])
      /\ r \in [1..n -> registry]
  BY DEF All
<1>3. /\ Len(s) = n /\ \A t \in registry : \E k \in 1..Len(s) : s[k] = t
      /\ Len(r) = n /\ \A j, k \in 1..Len(r) : r[j] = r[k] => j = k
  BY AllIsEveryTest
<1>4. PICK k \in 1..n : s[k] = r[i]
  BY <1>2, <1>3
<1>5. ~ (k < i)
  <2>1. SUFFICES ASSUME k < i PROVE FALSE
    OBVIOUS
  <2>2. r[k] = r[i]
    BY <1>4, <2>1
  <2>3. k = i
    BY <1>3, <2>2
  <2>. QED BY <2>1, <2>3
<1>6. k # i
  BY <1>4
<1>7. i < k
  BY <1>1, <1>5, <1>6
<1>. QED BY <1>2, <1>4, <1>7

\* And there is one only: where two of them differ first, each would have the
\* test of the other behind its own.
LEMMA AllIsUnique ==
  ASSUME registry \subseteq Test, IsFiniteSet(registry), NEW s \in All, NEW r \in All
  PROVE  s = r
<1> DEFINE n == Cardinality(registry)
           D == {i \in 1..n : s[i] # r[i]}
<1>1. n \in Nat
  BY FS_CardinalityType
<1>2. s \in [1..n -> registry] /\ r \in [1..n -> registry]
  BY DEF All
<1>3. D = {}
  <2>1. SUFFICES ASSUME D # {} PROVE FALSE
    OBVIOUS
  <2>2. D \subseteq Nat
    BY <1>1
  <2>3. PICK i \in D : \A k \in D : i <= k
    <3> HIDE DEF D
    <3>. QED BY <2>1, <2>2, Least
  <2>4. i \in 1..n /\ s[i] # r[i]
    BY <2>3
  <2>5. ASSUME NEW k \in 1..n, k < i PROVE s[k] = r[k]
    <3>1. k \notin D
      BY <1>1, <2>3, <2>4, <2>5
    <3>. QED BY <3>1
  <2>6. Before(s[i], r[i]) /\ Before(r[i], s[i])
    BY <2>4, <2>5, FurtherBack
  <2>7. s[i] \in Test /\ r[i] \in Test
    BY <1>2, <2>4
  <2>8. Before(s[i], s[i])
    BY <2>6, <2>7, BeforeIsTotal
  <2>. QED BY <2>7, <2>8, BeforeIsStrict
<1>4. \A i \in 1..n : s[i] = r[i]
  BY <1>3
<1>5. s = [i \in 1..n |-> s[i]] /\ r = [i \in 1..n |-> r[i]]
  BY <1>2
<1>. QED BY <1>4, <1>5

\* Without an allow-list the candidates are determined by the registry, whatever
\* the order in which the map of its tests is traversed: there is a sorted
\* enumeration and no other, since names are unique (Registry.All, NewRegistry).
THEOREM OrderIsDetermined == Spec => [](pc = "open" => \E s : All = {s})
<1>1. ASSUME KnownInv, SelectInv PROVE pc = "open" => \E s : All = {s}
  <2>1. SUFFICES ASSUME pc = "open" PROVE \E s : All = {s}
    OBVIOUS
  <2>2. registry \subseteq Test /\ IsFiniteSet(registry)
    BY <1>1, <2>1, RegistryIsFinite
  <2>3. \A t, u \in registry : t.name = u.name => t = u
    BY <1>1, <2>1, OneOfAName
  <2>4. PICK s \in All : TRUE
    BY <2>2, <2>3, AllExists
  <2>5. All = {s}
    BY <2>2, AllIsUnique
  <2>. QED BY <2>5
<1>. QED BY <1>1, SelectInvariant, PTL

-----------------------------------------------------------------------------
(* The parser.  A recursive function is the solution that CHOOSE picks of  *)
(* its equation: there is one, since every place refers to places of a     *)
(* smaller depth only, and what holds of every solution is shown at the    *)
(* least depth at which it would not.                                      *)

\* What a parsing function may return from the i-th token: it moves forward.
Moved(ts, i, r) ==
  /\ r \in [ok : BOOLEAN, sat : SUBSET MarkerSet, pos : Nat]
  /\ r.ok => r.pos \in (i + 1)..(Len(ts) + 1)

Rank(l) == CASE l = "atom" -> 0 [] l = "not" -> 1 [] l = "and" -> 2 [] l = "or" -> 3

\* A place is parsed from places of a smaller depth only.
Depth(ts, p) == 4 * (Len(ts) + 1 - p[2]) + Rank(p[1])

\* The parsing functions agree at the places below p, where they move forward.
Below(ts, f, g, p) ==
  \A q \in Places(ts) :
    Depth(ts, q) < Depth(ts, p) => f[q] = g[q] /\ Moved(ts, q[2], f[q])

\* What peek returns: "" only at the end, which is no token.
LEMMA Peeked ==
  ASSUME NEW ts \in Seq(Token), NEW i \in 1..(Len(ts) + 1)
  PROVE  /\ Len(ts) \in Nat
         /\ Peek(ts, i) # "" <=> i <= Len(ts)
         /\ i <= Len(ts) => Peek(ts, i) = ts[i] /\ ts[i] \in Token
<1>1. Len(ts) \in Nat /\ \A k \in 1..Len(ts) : ts[k] \in Token
  OBVIOUS
<1>2. "" \notin Token
  BY MarkerAssumption DEF Token
<1>3. CASE i <= Len(ts)
  <2>1. i \in 1..Len(ts)
    BY <1>1, <1>3
  <2>2. ts[i] \in Token /\ ts[i] # ""
    BY <1>1, <1>2, <2>1
  <2>. QED BY <1>1, <1>3, <2>2 DEF Peek
<1>4. CASE ~ (i <= Len(ts))
  BY <1>1, <1>4 DEF Peek
<1>. QED BY <1>1, <1>3, <1>4

\* A place of a given level and token, and its depth.
LEMMA DepthIs ==
  ASSUME NEW ts \in Seq(Token), NEW l \in Levels, NEW i \in 1..(Len(ts) + 1)
  PROVE  /\ <<l, i>> \in Places(ts)
         /\ Depth(ts, <<l, i>>) = 4 * (Len(ts) + 1 - i) + Rank(l)
         /\ Rank(l) \in 0..3
BY DEF Places, Depth, Rank, Levels, Operators

\* Matched returns what a parsing function may return.
LEMMA MatchedMoves ==
  ASSUME NEW ts \in Seq(Token), NEW i \in 1..(Len(ts) + 1), NEW s \in SUBSET MarkerSet,
         NEW p \in (i + 1)..(Len(ts) + 1)
  PROVE  Moved(ts, i, Matched(s, p))
<1>1. p \in Nat /\ i + 1 \in Nat
  OBVIOUS
<1>. QED BY <1>1 DEF Moved, Matched

\* So does Error.
LEMMA ErrorMoves ==
  ASSUME NEW ts, NEW i
  PROVE  Moved(ts, i, Error) /\ ~ Error.ok
BY DEF Moved, Error

\* The parsing functions call each other with fewer tokens left, or at a lower
\* level.
LEMMA ParseLocal ==
  ASSUME NEW ts \in Seq(Token), NEW l \in Levels, NEW i \in 1..(Len(ts) + 1), NEW f, NEW g,
         Below(ts, f, g, <<l, i>>)
  PROVE  /\ ParseLevel(ts, f, l, i) = ParseLevel(ts, g, l, i)
         /\ Moved(ts, i, ParseLevel(ts, f, l, i))
<1>1. PICK n \in Nat : n = Len(ts)
  OBVIOUS
<1>. i \in 1..(n + 1)
  BY <1>1
<1>2. ASSUME NEW m \in Levels, NEW j \in 1..(n + 1), j > i \/ (j = i /\ Rank(m) < Rank(l))
      PROVE  f[<<m, j>>] = g[<<m, j>>] /\ Moved(ts, j, f[<<m, j>>])
  <2>1. Depth(ts, <<m, j>>) < Depth(ts, <<l, i>>)
    <3>1. /\ Depth(ts, <<m, j>>) = 4 * (n + 1 - j) + Rank(m)
          /\ Depth(ts, <<l, i>>) = 4 * (n + 1 - i) + Rank(l)
          /\ Rank(m) \in 0..3 /\ Rank(l) \in 0..3
      BY <1>1, DepthIs
    <3>. QED BY <1>1, <1>2, <3>1
  <2>2. <<m, j>> \in Places(ts) /\ <<m, j>>[2] = j
    BY <1>1, DepthIs
  <2>. QED BY <2>1, <2>2 DEF Below
<1>3. CASE l \in Operators
  <2>1. /\ Operand(l) \in Levels /\ Rank(Operand(l)) < Rank(l) /\ l \in Levels
        /\ l \notin {"", "not", "atom"}
    <3>1. CASE l = "or"
      BY <3>1 DEF Operators, Levels, Operand, Rank
    <3>2. CASE l = "and"
      BY <3>2 DEF Operators, Levels, Operand, Rank
    <3>. QED BY <1>3, <3>1, <3>2 DEF Operators
  <2>2. PICK r : r = f[<<Operand(l), i>>]
    OBVIOUS
  <2>3. r = g[<<Operand(l), i>>] /\ Moved(ts, i, r)
    BY <1>2, <2>1, <2>2
  <2>4. CASE r.ok /\ Peek(ts, r.pos) = l
    <3>1. r.pos \in (i + 1)..(n + 1) /\ r.pos <= n /\ r.sat \in SUBSET MarkerSet
      <4>1. r.pos \in (i + 1)..(n + 1) /\ r.sat \in SUBSET MarkerSet
        BY <1>1, <2>3, <2>4 DEF Moved
      <4>2. r.pos \in 1..(n + 1)
        BY <1>1, <4>1
      <4>3. r.pos <= n
        BY <1>1, <2>1, <2>4, <4>2, Peeked
      <4>. QED BY <4>1, <4>3
    <3>2. r.pos + 1 \in 1..(n + 1) /\ r.pos + 1 > i
      BY <1>1, <3>1
    <3>3. PICK s : s = f[<<l, r.pos + 1>>]
      OBVIOUS
    <3>4. s = g[<<l, r.pos + 1>>] /\ Moved(ts, r.pos + 1, s)
      BY <1>2, <2>1, <3>2, <3>3
    <3>5. /\ ParseLevel(ts, f, l, i) =
               IF s.ok THEN Matched(Join(l, r.sat, s.sat), s.pos) ELSE Error
          /\ ParseLevel(ts, g, l, i) =
               IF s.ok THEN Matched(Join(l, r.sat, s.sat), s.pos) ELSE Error
      BY <1>3, <2>1, <2>2, <2>3, <2>4, <3>3, <3>4 DEF ParseLevel, ParseChain
    <3>6. CASE s.ok
      <4>1. s.pos \in (i + 1)..(n + 1) /\ s.sat \in SUBSET MarkerSet
        <5>1. s.pos \in (r.pos + 1 + 1)..(n + 1) /\ s.sat \in SUBSET MarkerSet
          BY <1>1, <3>1, <3>4, <3>6 DEF Moved
        <5>. QED BY <3>1, <5>1
      <4>2. Join(l, r.sat, s.sat) \in SUBSET MarkerSet
        BY <3>1, <4>1 DEF Join
      <4>. QED BY <1>1, <3>5, <3>6, <4>1, <4>2, MatchedMoves
    <3>7. CASE ~ s.ok
      BY <3>5, <3>7, ErrorMoves
    <3>. QED BY <3>6, <3>7
  <2>5. CASE ~ (r.ok /\ Peek(ts, r.pos) = l)
    <3>1. ParseLevel(ts, f, l, i) = r /\ ParseLevel(ts, g, l, i) = r
      BY <1>3, <2>1, <2>2, <2>3, <2>5 DEF ParseLevel, ParseChain
    <3>. QED BY <2>3, <3>1
  <2>. QED BY <2>4, <2>5
<1>4. CASE l = "not"
  <2>1. l \notin Operators /\ NotOperand \in Levels /\ "atom" \in Levels /\ Rank("atom") < Rank(l)
    BY <1>4 DEF Operators, Levels, NotOperand, Rank
  <2>2. CASE Peek(ts, i) = "not"
    <3>1. i + 1 \in 1..(n + 1) /\ i + 1 > i
      <4>1. i <= n
        BY <1>1, <2>2, Peeked
      <4>. QED BY <1>1, <4>1
    <3>2. PICK s : s = f[<<NotOperand, i + 1>>]
      OBVIOUS
    <3>3. s = g[<<NotOperand, i + 1>>] /\ Moved(ts, i + 1, s)
      BY <1>2, <2>1, <3>1, <3>2
    <3>4. /\ ParseLevel(ts, f, l, i) = IF s.ok THEN Matched(MarkerSet \ s.sat, s.pos) ELSE Error
          /\ ParseLevel(ts, g, l, i) = IF s.ok THEN Matched(MarkerSet \ s.sat, s.pos) ELSE Error
      BY <1>4, <2>1, <2>2, <3>2, <3>3 DEF ParseLevel, ParseNot
    <3>5. CASE s.ok
      <4>1. s.pos \in (i + 1)..(n + 1) /\ MarkerSet \ s.sat \in SUBSET MarkerSet
        BY <1>1, <3>3, <3>5 DEF Moved
      <4>. QED BY <1>1, <3>4, <3>5, <4>1, MatchedMoves
    <3>6. CASE ~ s.ok
      BY <3>4, <3>6, ErrorMoves
    <3>. QED BY <3>5, <3>6
  <2>3. CASE Peek(ts, i) # "not"
    <3>1. /\ ParseLevel(ts, f, l, i) = f[<<"atom", i>>]
          /\ ParseLevel(ts, g, l, i) = g[<<"atom", i>>]
      BY <1>4, <2>1, <2>3 DEF ParseLevel, ParseNot
    <3>. QED BY <1>2, <2>1, <3>1
  <2>. QED BY <2>2, <2>3
<1>5. CASE l = "atom"
  <2>1. l \notin Operators /\ l # "not" /\ "or" \in Levels
    BY <1>5 DEF Operators, Levels
  <2>2. CASE Peek(ts, i) \in Marker
    <3>1. i + 1 \in (i + 1)..(n + 1)
      <4>1. "" \notin Marker
        BY MarkerAssumption
      <4>2. i <= n
        BY <1>1, <2>2, <4>1, Peeked
      <4>. QED BY <1>1, <4>2
    <3>2. /\ ParseLevel(ts, f, l, i) = Matched({m \in MarkerSet : ts[i] \in m}, i + 1)
          /\ ParseLevel(ts, g, l, i) = Matched({m \in MarkerSet : ts[i] \in m}, i + 1)
      BY <1>5, <2>1, <2>2 DEF ParseLevel, ParseAtom
    <3>3. {m \in MarkerSet : ts[i] \in m} \in SUBSET MarkerSet
      OBVIOUS
    <3>. QED BY <1>1, <3>1, <3>2, <3>3, MatchedMoves
  <2>3. CASE Peek(ts, i) \notin Marker /\ Peek(ts, i) = "("
    <3>1. i + 1 \in 1..(n + 1) /\ i + 1 > i
      <4>1. i <= n
        BY <1>1, <2>3, Peeked
      <4>. QED BY <1>1, <4>1
    <3>2. PICK s : s = f[<<"or", i + 1>>]
      OBVIOUS
    <3>3. s = g[<<"or", i + 1>>] /\ Moved(ts, i + 1, s)
      BY <1>2, <2>1, <3>1, <3>2
    <3>4. /\ ParseLevel(ts, f, l, i) = IF s.ok /\ Peek(ts, s.pos) = ")"
                                         THEN Matched(s.sat, s.pos + 1) ELSE Error
          /\ ParseLevel(ts, g, l, i) = IF s.ok /\ Peek(ts, s.pos) = ")"
                                         THEN Matched(s.sat, s.pos + 1) ELSE Error
      BY <1>5, <2>1, <2>3, <3>2, <3>3 DEF ParseLevel, ParseAtom
    <3>5. CASE s.ok /\ Peek(ts, s.pos) = ")"
      <4>1. s.pos \in (i + 1 + 1)..(n + 1) /\ s.sat \in SUBSET MarkerSet
        BY <1>1, <3>3, <3>5 DEF Moved
      <4>2. s.pos <= n
        <5>1. s.pos \in 1..(n + 1)
          BY <1>1, <4>1
        <5>. QED BY <1>1, <3>5, <5>1, Peeked
      <4>3. s.pos + 1 \in (i + 1)..(n + 1)
        BY <1>1, <4>1, <4>2
      <4>. QED BY <1>1, <3>4, <3>5, <4>1, <4>3, MatchedMoves
    <3>6. CASE ~ (s.ok /\ Peek(ts, s.pos) = ")")
      BY <3>4, <3>6, ErrorMoves
    <3>. QED BY <3>5, <3>6
  <2>4. CASE Peek(ts, i) \notin Marker /\ Peek(ts, i) # "("
    <3>1. ParseLevel(ts, f, l, i) = Error /\ ParseLevel(ts, g, l, i) = Error
      BY <1>5, <2>1, <2>4 DEF ParseLevel, ParseAtom
    <3>. QED BY <3>1, ErrorMoves
  <2>. QED BY <2>2, <2>3, <2>4
<1>. QED BY <1>3, <1>4, <1>5 DEF Levels
\* Induction over the numbers, for a set.
LEMMA Induct ==
  ASSUME NEW S, 0 \in S, \A k \in Nat : k \in S => k + 1 \in S
  PROVE  Nat \subseteq S
<1> DEFINE T == Nat \ S
<1>1. SUFFICES ASSUME T # {} PROVE FALSE
  OBVIOUS
<1>2. PICK x \in T : \A y \in T : x <= y
  BY <1>1, Least
<1>3. x \in Nat \ {0} /\ x - 1 \in Nat
  BY <1>2
<1>4. x - 1 \notin T
  BY <1>2, <1>3
<1>. QED BY <1>2, <1>3, <1>4

\* A place is a level and the next token.
LEMMA PlaceIs ==
  ASSUME NEW ts \in Seq(Token), NEW p \in Places(ts)
  PROVE  /\ p = <<p[1], p[2]>> /\ p[1] \in Levels /\ p[2] \in 1..(Len(ts) + 1)
         /\ Depth(ts, p) \in 0..(4 * Len(ts) + 3)
<1>1. p = <<p[1], p[2]>> /\ p[1] \in Levels /\ p[2] \in 1..(Len(ts) + 1)
  BY DEF Places
<1>2. Depth(ts, p) = 4 * (Len(ts) + 1 - p[2]) + Rank(p[1]) /\ Rank(p[1]) \in 0..3
  BY <1>1, DepthIs
<1>3. PICK n \in Nat : n = Len(ts)
  OBVIOUS
<1>. QED BY <1>1, <1>2, <1>3

\* The equations of the parsing functions have a solution, built in the order of
\* the depth.
LEMMA ParserExists ==
  ASSUME NEW ts \in Seq(Token)
  PROVE  \E f : f = [p \in Places(ts) |-> ParseLevel(ts, f, p[1], p[2])]
<1> DEFINE Solves(f, k) == \A p \in Places(ts) : Depth(ts, p) < k =>
                             /\ f[p] = ParseLevel(ts, f, p[1], p[2])
                             /\ Moved(ts, p[2], f[p])
           S == {k \in Nat : \E f : Solves(f, k)}
<1>1. PICK n \in Nat : n = Len(ts)
  OBVIOUS
<1>2. 0 \in S
  <2>1. \A p \in Places(ts) : ~ (Depth(ts, p) < 0)
    BY <1>1, PlaceIs
  <2>2. \A f : Solves(f, 0)
    BY <2>1
  <2>. QED BY <2>2
<1>3. ASSUME NEW k \in Nat, k \in S PROVE k + 1 \in S
  <2>1. PICK f : Solves(f, k)
    BY <1>3
  <2>2. PICK g : g = [p \in Places(ts) |->
                        IF Depth(ts, p) = k THEN ParseLevel(ts, f, p[1], p[2]) ELSE f[p]]
    OBVIOUS
  <2>3. ASSUME NEW p \in Places(ts), Depth(ts, p) < k + 1
        PROVE  /\ g[p] = ParseLevel(ts, g, p[1], p[2])
               /\ Moved(ts, p[2], g[p])
    <3>1. /\ p = <<p[1], p[2]>> /\ p[1] \in Levels /\ p[2] \in 1..(Len(ts) + 1)
          /\ Depth(ts, p) \in Nat
      BY <1>1, PlaceIs
    <3>2. Below(ts, f, g, p)
      <4>1. SUFFICES ASSUME NEW q \in Places(ts), Depth(ts, q) < Depth(ts, p)
                     PROVE  f[q] = g[q] /\ Moved(ts, q[2], f[q])
        BY DEF Below
      <4>2. Depth(ts, q) < k
        <5>1. Depth(ts, q) \in Nat
          BY <1>1, PlaceIs
        <5>. QED BY <1>3, <2>3, <3>1, <4>1, <5>1
      <4>3. Depth(ts, q) # k
        <5>1. Depth(ts, q) \in Nat
          BY <1>1, PlaceIs
        <5>. QED BY <4>2, <5>1
      <4>. QED BY <2>1, <2>2, <4>2, <4>3
    <3>3. /\ ParseLevel(ts, f, p[1], p[2]) = ParseLevel(ts, g, p[1], p[2])
          /\ Moved(ts, p[2], ParseLevel(ts, f, p[1], p[2]))
      <4>1. Below(ts, f, g, <<p[1], p[2]>>)
        BY <3>1, <3>2
      <4>. QED BY <3>1, <4>1, ParseLocal
    <3>4. CASE Depth(ts, p) = k
      BY <2>2, <3>3, <3>4
    <3>5. CASE Depth(ts, p) # k
      <4>1. Depth(ts, p) < k
        BY <1>3, <2>3, <3>1, <3>5
      <4>2. g[p] = f[p] /\ f[p] = ParseLevel(ts, f, p[1], p[2])
        BY <2>1, <2>2, <3>5, <4>1
      <4>. QED BY <3>3, <4>2
    <3>. QED BY <3>4, <3>5
  <2>4. Solves(g, k + 1)
    BY <2>3
  <2>. QED BY <2>4
<1>4. 4 * n + 4 \in S
  <2> HIDE DEF S
  <2>1. Nat \subseteq S
    BY <1>2, <1>3, Induct
  <2>. QED BY <1>1, <2>1
<1>5. PICK f : Solves(f, 4 * n + 4)
  BY <1>4
<1>6. \A p \in Places(ts) : Depth(ts, p) < 4 * n + 4
  <2>1. SUFFICES ASSUME NEW p \in Places(ts) PROVE Depth(ts, p) < 4 * n + 4
    OBVIOUS
  <2>2. Depth(ts, p) \in 0..(4 * n + 3)
    BY <1>1, PlaceIs
  <2>. QED BY <1>1, <2>2
<1>7. \A p \in Places(ts) : f[p] = ParseLevel(ts, f, p[1], p[2]) /\ Moved(ts, p[2], f[p])
  BY <1>5, <1>6
<1>8. PICK h : h = [p \in Places(ts) |-> f[p]]
  OBVIOUS
<1>9. ASSUME NEW p \in Places(ts)
      PROVE  ParseLevel(ts, h, p[1], p[2]) = f[p]
  <2>1. p = <<p[1], p[2]>> /\ p[1] \in Levels /\ p[2] \in 1..(Len(ts) + 1)
    BY PlaceIs
  <2>2. Below(ts, f, h, <<p[1], p[2]>>)
    BY <1>7, <1>8 DEF Below
  <2>3. ParseLevel(ts, f, p[1], p[2]) = ParseLevel(ts, h, p[1], p[2])
    BY <2>1, <2>2, ParseLocal
  <2>. QED BY <1>7, <2>3
<1>10. h = [p \in Places(ts) |-> ParseLevel(ts, h, p[1], p[2])]
  BY <1>8, <1>9
<1>. QED BY <1>10

\* The parser computes what its functions say, and moves forward.
LEMMA ParserIs ==
  ASSUME NEW ts \in Seq(Token), NEW l \in Levels, NEW i \in 1..(Len(ts) + 1)
  PROVE  /\ Parser(ts)[<<l, i>>] = ParseLevel(ts, Parser(ts), l, i)
         /\ Moved(ts, i, Parser(ts)[<<l, i>>])
<1> DEFINE Q(f) == f = [p \in Places(ts) |-> ParseLevel(ts, f, p[1], p[2])]
<1>1. Parser(ts) = CHOOSE f : Q(f)
  BY DEF Parser
<1>2. \E f : Q(f)
  BY ParserExists
<1> HIDE DEF Q
<1>3. Q(CHOOSE f : Q(f))
  BY <1>2
<1>4. Q(Parser(ts))
  BY <1>1, <1>3
<1>5. PICK f : f = Parser(ts)
  OBVIOUS
<1>6. f = [p \in Places(ts) |-> ParseLevel(ts, f, p[1], p[2])]
  BY <1>4, <1>5 DEF Q
<1>7. \A p \in Places(ts) : Moved(ts, p[2], f[p])
  <2> DEFINE T == {Depth(ts, p) : p \in {p \in Places(ts) : ~ Moved(ts, p[2], f[p])}}
  <2>1. SUFFICES ASSUME T # {} PROVE FALSE
    OBVIOUS
  <2>2. T \subseteq Nat
    <3>1. \A p \in Places(ts) : Depth(ts, p) \in Nat
      BY PlaceIs
    <3>. QED BY <3>1
  <2>3. PICK x \in T : \A y \in T : x <= y
    <3> HIDE DEF T
    <3>. QED BY <2>1, <2>2, Least
  <2>4. PICK p \in Places(ts) : ~ Moved(ts, p[2], f[p]) /\ x = Depth(ts, p)
    BY <2>3
  <2>5. p = <<p[1], p[2]>> /\ p[1] \in Levels /\ p[2] \in 1..(Len(ts) + 1)
    BY PlaceIs
  <2>6. Below(ts, f, f, p)
    <3>1. SUFFICES ASSUME NEW q \in Places(ts), Depth(ts, q) < Depth(ts, p),
                          ~ Moved(ts, q[2], f[q])
                   PROVE  FALSE
      BY DEF Below
    <3>2. Depth(ts, q) \in T
      BY <3>1
    <3>3. x <= Depth(ts, q) /\ x \in Nat /\ Depth(ts, q) \in Nat
      BY <2>2, <2>3, <3>2
    <3>. QED BY <2>4, <3>1, <3>3
  <2>7. Moved(ts, p[2], ParseLevel(ts, f, p[1], p[2]))
    <3>1. Below(ts, f, f, <<p[1], p[2]>>)
      BY <2>5, <2>6
    <3>. QED BY <2>5, <3>1, ParseLocal
  <2>. QED BY <1>6, <2>4, <2>7
<1>8. <<l, i>> \in Places(ts) /\ <<l, i>>[1] = l /\ <<l, i>>[2] = i
  BY DepthIs
<1>9. f[<<l, i>>] = ParseLevel(ts, f, l, i)
  BY <1>6, <1>8
<1>10. Moved(ts, i, f[<<l, i>>])
  BY <1>7, <1>8
<1>. QED BY <1>5, <1>9, <1>10
-----------------------------------------------------------------------------
(* The grammar.                                                            *)

\* x is what a chain means: an operand, or what is on either side of its last
\* operator, joined.
ChainMeans(ts, f, op, i, j, x) ==
  \/ x \in f[<<Operand(op), i, j>>]
  \/ \E k \in i..j :
       /\ ts[k] = op
       /\ \E a \in f[<<op, i, k - 1>>], b \in f[<<Operand(op), k + 1, j>>] : x = Join(op, a, b)

\* The grammar says so.
LEMMA ChainIs ==
  ASSUME NEW ts, NEW f, NEW op \in Operators, NEW i, NEW j, NEW x
  PROVE  x \in Means(ts, f, op, i, j) <=> ChainMeans(ts, f, op, i, j, x)
<1> DEFINE C(k) == {Join(op, a, b) : a \in f[<<op, i, k - 1>>], b \in f[<<Operand(op), k + 1, j>>]}
           K == {k \in i..j : ts[k] = op}
<1>1. op # "not" /\ op # "atom"
  BY DEF Operators
<1>2. Means(ts, f, op, i, j) = f[<<Operand(op), i, j>>] \cup UNION {C(k) : k \in K}
  BY <1>1 DEF Means
<1>3. \A k : x \in C(k) <=> \E a \in f[<<op, i, k - 1>>], b \in f[<<Operand(op), k + 1, j>>] :
                              x = Join(op, a, b)
  OBVIOUS
<1> HIDE DEF C
<1>4. x \in UNION {C(k) : k \in K} <=> \E k \in K : x \in C(k)
  OBVIOUS
<1>. QED BY <1>2, <1>3, <1>4 DEF ChainMeans

\* The spans agree that are below s: shorter, or of a lower level.
Width(ts, s) == 4 * (s[3] - s[2] + Len(ts) + 1) + Rank(s[1])

Within(ts, f, g, s) ==
  \A r \in Spans(ts) : Width(ts, r) < Width(ts, s) => f[r] = g[r]

\* A span is a level and the tokens from one to another.
LEMMA SpanIs ==
  ASSUME NEW ts \in Seq(Token), NEW s \in Spans(ts)
  PROVE  /\ s = <<s[1], s[2], s[3]>> /\ s[1] \in Levels
         /\ s[2] \in 1..(Len(ts) + 1) /\ s[3] \in 0..Len(ts)
         /\ Width(ts, s) \in 0..(8 * Len(ts) + 3)
<1>1. s = <<s[1], s[2], s[3]>> /\ s[1] \in Levels /\ s[2] \in 1..(Len(ts) + 1)
      /\ s[3] \in 0..Len(ts)
  BY DEF Spans
<1>2. Width(ts, s) = 4 * (s[3] - s[2] + Len(ts) + 1) + Rank(s[1]) /\ Rank(s[1]) \in 0..3
  BY <1>1, DepthIs DEF Width
<1>3. PICK n \in Nat : n = Len(ts)
  OBVIOUS
<1>. QED BY <1>1, <1>2, <1>3

\* What the grammar says of a span depends on the spans within it.
LEMMA MeansLocal ==
  ASSUME NEW ts \in Seq(Token), NEW l \in Levels, NEW i \in 1..(Len(ts) + 1),
         NEW j \in 0..Len(ts), NEW f, NEW g, Within(ts, f, g, <<l, i, j>>)
  PROVE  Means(ts, f, l, i, j) = Means(ts, g, l, i, j)
<1>1. PICK n \in Nat : n = Len(ts)
  OBVIOUS
<1>. i \in 1..(n + 1) /\ j \in 0..n
  BY <1>1
<1>2. ASSUME NEW m \in Levels, NEW a \in 1..(n + 1), NEW b \in 0..n,
             b - a < j - i \/ (b - a = j - i /\ Rank(m) < Rank(l))
      PROVE  f[<<m, a, b>>] = g[<<m, a, b>>]
  <2>1. Width(ts, <<m, a, b>>) < Width(ts, <<l, i, j>>)
    <3>1. /\ Width(ts, <<m, a, b>>) = 4 * (b - a + n + 1) + Rank(m)
          /\ Width(ts, <<l, i, j>>) = 4 * (j - i + n + 1) + Rank(l)
          /\ Rank(m) \in 0..3 /\ Rank(l) \in 0..3
      BY <1>1, DepthIs DEF Width
    <3>. QED BY <1>1, <1>2, <3>1
  <2>2. <<m, a, b>> \in Spans(ts)
    BY <1>1 DEF Spans
  <2>. QED BY <2>1, <2>2 DEF Within
<1>3. CASE l \in Operators
  <2>1. Operand(l) \in Levels /\ Rank(Operand(l)) < Rank(l) /\ l \in Levels
    <3>1. CASE l = "or"
      BY <3>1 DEF Operators, Levels, Operand, Rank
    <3>2. CASE l = "and"
      BY <3>2 DEF Operators, Levels, Operand, Rank
    <3>. QED BY <1>3, <3>1, <3>2 DEF Operators
  <2>2. f[<<Operand(l), i, j>>] = g[<<Operand(l), i, j>>]
    BY <1>2, <2>1
  <2>3. ASSUME NEW k \in i..j
        PROVE  /\ f[<<l, i, k - 1>>] = g[<<l, i, k - 1>>]
               /\ f[<<Operand(l), k + 1, j>>] = g[<<Operand(l), k + 1, j>>]
    <3>1. k \in 1..n /\ k - 1 \in 0..n /\ k + 1 \in 1..(n + 1)
      BY <1>1
    <3>2. k - 1 - i < j - i /\ j - (k + 1) < j - i
      BY <1>1, <3>1
    <3>. QED BY <1>2, <2>1, <3>1, <3>2
  <2>4. \A x : x \in Means(ts, f, l, i, j) <=> x \in Means(ts, g, l, i, j)
    <3>1. TAKE x
    <3>2. ChainMeans(ts, f, l, i, j, x) <=> ChainMeans(ts, g, l, i, j, x)
      BY <2>2, <2>3 DEF ChainMeans
    <3>3. /\ x \in Means(ts, f, l, i, j) <=> ChainMeans(ts, f, l, i, j, x)
          /\ x \in Means(ts, g, l, i, j) <=> ChainMeans(ts, g, l, i, j, x)
      BY <1>3, ChainIs
    <3>. QED BY <3>2, <3>3
  <2>. QED BY <2>4
<1>4. CASE l = "not"
  <2>1. l \notin Operators /\ "not" \in Levels /\ "atom" \in Levels /\ Rank("atom") < Rank(l)
    BY <1>4 DEF Operators, Levels, Rank
  <2>2. CASE i <= j /\ ts[i] = "not"
    <3>1. i + 1 \in 1..(n + 1) /\ j - (i + 1) < j - i
      BY <1>1, <2>2
    <3>2. f[<<"not", i + 1, j>>] = g[<<"not", i + 1, j>>]
      BY <1>2, <2>1, <3>1
    <3>. QED BY <1>4, <2>1, <2>2, <3>2 DEF Means
  <2>3. CASE ~ (i <= j /\ ts[i] = "not")
    <3>1. f[<<"atom", i, j>>] = g[<<"atom", i, j>>]
      BY <1>2, <2>1
    <3>. QED BY <1>4, <2>1, <2>3, <3>1 DEF Means
  <2>. QED BY <2>2, <2>3
<1>5. CASE l = "atom"
  <2>1. l \notin Operators /\ l # "not" /\ "or" \in Levels
    BY <1>5 DEF Operators, Levels
  <2>2. CASE i < j
    <3>1. i + 1 \in 1..(n + 1) /\ j - 1 \in 0..n /\ j - 1 - (i + 1) < j - i
      BY <1>1, <2>2
    <3>2. f[<<"or", i + 1, j - 1>>] = g[<<"or", i + 1, j - 1>>]
      BY <1>2, <2>1, <3>1
    <3>. QED BY <1>5, <2>1, <3>2 DEF Means
  <2>3. CASE ~ (i < j)
    BY <1>5, <2>1, <2>3 DEF Means
  <2>. QED BY <2>2, <2>3
<1>. QED BY <1>3, <1>4, <1>5 DEF Levels
\* The equations of the grammar have a solution, built in the order of the width.
LEMMA GrammarExists ==
  ASSUME NEW ts \in Seq(Token)
  PROVE  \E f : f = [s \in Spans(ts) |-> Means(ts, f, s[1], s[2], s[3])]
<1> DEFINE Solves(f, k) == \A s \in Spans(ts) : Width(ts, s) < k =>
                             f[s] = Means(ts, f, s[1], s[2], s[3])
           S == {k \in Nat : \E f : Solves(f, k)}
<1>1. PICK n \in Nat : n = Len(ts)
  OBVIOUS
<1>2. 0 \in S
  <2>1. \A s \in Spans(ts) : ~ (Width(ts, s) < 0)
    BY <1>1, SpanIs
  <2>2. \A f : Solves(f, 0)
    BY <2>1
  <2>. QED BY <2>2
<1>3. ASSUME NEW k \in Nat, k \in S PROVE k + 1 \in S
  <2>1. PICK f : Solves(f, k)
    BY <1>3
  <2>2. PICK g : g = [s \in Spans(ts) |->
                        IF Width(ts, s) = k THEN Means(ts, f, s[1], s[2], s[3]) ELSE f[s]]
    OBVIOUS
  <2>3. ASSUME NEW s \in Spans(ts), Width(ts, s) < k + 1
        PROVE  g[s] = Means(ts, g, s[1], s[2], s[3])
    <3>1. /\ s = <<s[1], s[2], s[3]>> /\ s[1] \in Levels
          /\ s[2] \in 1..(Len(ts) + 1) /\ s[3] \in 0..Len(ts)
          /\ Width(ts, s) \in Nat
      BY <1>1, SpanIs
    <3>2. Within(ts, f, g, s)
      <4>1. SUFFICES ASSUME NEW r \in Spans(ts), Width(ts, r) < Width(ts, s)
                     PROVE  f[r] = g[r]
        BY DEF Within
      <4>2. Width(ts, r) # k
        <5>1. Width(ts, r) \in Nat
          BY <1>1, SpanIs
        <5>. QED BY <1>3, <2>3, <3>1, <4>1, <5>1
      <4>. QED BY <2>2, <4>2
    <3>3. Means(ts, f, s[1], s[2], s[3]) = Means(ts, g, s[1], s[2], s[3])
      <4>1. Within(ts, f, g, <<s[1], s[2], s[3]>>)
        BY <3>1, <3>2
      <4>. QED BY <3>1, <4>1, MeansLocal
    <3>4. CASE Width(ts, s) = k
      BY <2>2, <3>3, <3>4
    <3>5. CASE Width(ts, s) # k
      <4>1. Width(ts, s) < k
        BY <1>3, <2>3, <3>1, <3>5
      <4>2. g[s] = f[s] /\ f[s] = Means(ts, f, s[1], s[2], s[3])
        BY <2>1, <2>2, <3>5, <4>1
      <4>. QED BY <3>3, <4>2
    <3>. QED BY <3>4, <3>5
  <2>4. Solves(g, k + 1)
    BY <2>3
  <2>. QED BY <2>4
<1>4. 8 * n + 4 \in S
  <2> HIDE DEF S
  <2>1. Nat \subseteq S
    BY <1>2, <1>3, Induct
  <2>. QED BY <1>1, <2>1
<1>5. PICK f : Solves(f, 8 * n + 4)
  BY <1>4
<1>6. \A s \in Spans(ts) : Width(ts, s) < 8 * n + 4
  <2>1. SUFFICES ASSUME NEW s \in Spans(ts) PROVE Width(ts, s) < 8 * n + 4
    OBVIOUS
  <2>2. Width(ts, s) \in 0..(8 * n + 3)
    BY <1>1, SpanIs
  <2>. QED BY <1>1, <2>2
<1>7. \A s \in Spans(ts) : f[s] = Means(ts, f, s[1], s[2], s[3])
  BY <1>5, <1>6
<1>8. PICK h : h = [s \in Spans(ts) |-> f[s]]
  OBVIOUS
<1>9. ASSUME NEW s \in Spans(ts)
      PROVE  Means(ts, h, s[1], s[2], s[3]) = f[s]
  <2>1. /\ s = <<s[1], s[2], s[3]>> /\ s[1] \in Levels
        /\ s[2] \in 1..(Len(ts) + 1) /\ s[3] \in 0..Len(ts)
    BY SpanIs
  <2>2. Within(ts, f, h, <<s[1], s[2], s[3]>>)
    BY <1>8 DEF Within
  <2>3. Means(ts, f, s[1], s[2], s[3]) = Means(ts, h, s[1], s[2], s[3])
    BY <2>1, <2>2, MeansLocal
  <2>. QED BY <1>7, <2>3
<1>10. h = [s \in Spans(ts) |-> Means(ts, h, s[1], s[2], s[3])]
  BY <1>8, <1>9
<1>. QED BY <1>10

\* The grammar says what its rules say.
LEMMA GrammarIs ==
  ASSUME NEW ts \in Seq(Token), NEW l \in Levels, NEW i \in 1..(Len(ts) + 1),
         NEW j \in 0..Len(ts)
  PROVE  Grammar(ts)[<<l, i, j>>] = Means(ts, Grammar(ts), l, i, j)
<1> DEFINE Q(f) == f = [s \in Spans(ts) |-> Means(ts, f, s[1], s[2], s[3])]
<1>1. Grammar(ts) = CHOOSE f : Q(f)
  BY DEF Grammar
<1>2. \E f : Q(f)
  BY GrammarExists
<1> HIDE DEF Q
<1>3. Q(CHOOSE f : Q(f))
  BY <1>2
<1>4. Q(Grammar(ts))
  BY <1>1, <1>3
<1>5. PICK f : f = Grammar(ts)
  OBVIOUS
<1>6. f = [s \in Spans(ts) |-> Means(ts, f, s[1], s[2], s[3])]
  BY <1>4, <1>5 DEF Q
<1>7. <<l, i, j>> \in Spans(ts)
  BY DEF Spans
<1>8. f[<<l, i, j>>] = Means(ts, f, l, i, j)
  BY <1>6, <1>7
<1>. QED BY <1>5, <1>8

\* A chain is an operand, or what is on either side of its first operator,
\* joined.
FirstRoot(ts, f, op, i, j, x) ==
  \/ x \in f[<<Operand(op), i, j>>]
  \/ \E k \in i..j :
       /\ ts[k] = op
       /\ \E a \in f[<<Operand(op), i, k - 1>>], b \in f[<<op, k + 1, j>>] : x = Join(op, a, b)

\* Union and intersection associate.
LEMMA JoinAssociates ==
  ASSUME NEW op, NEW a, NEW b, NEW c
  PROVE  Join(op, a, Join(op, b, c)) = Join(op, Join(op, a, b), c)
<1>1. a \cup (b \cup c) = (a \cup b) \cup c /\ a \cap (b \cap c) = (a \cap b) \cap c
  OBVIOUS
<1>. QED BY <1>1 DEF Join

\* The grammar groups a chain from the left, the parser from the right: the
\* meaning is the same.
LEMMA Regroup ==
  ASSUME NEW ts \in Seq(Token), NEW op \in Operators, NEW i \in 1..(Len(ts) + 1),
         NEW j \in 0..Len(ts), NEW x
  PROVE  x \in Grammar(ts)[<<op, i, j>>] <=> FirstRoot(ts, Grammar(ts), op, i, j, x)
<1>1. PICK n \in Nat : n = Len(ts)
  OBVIOUS
<1>2. PICK G : G = Grammar(ts)
  OBVIOUS
<1> DEFINE Holds(a, b) == \A y : y \in G[<<op, a, b>>] <=> FirstRoot(ts, G, op, a, b, y)
<1>3. ASSUME NEW a \in 1..(n + 1), NEW b \in 0..n, NEW y
      PROVE  y \in G[<<op, a, b>>] <=> ChainMeans(ts, G, op, a, b, y)
  <2>1. op \in Levels
    BY DEF Levels
  <2>2. G[<<op, a, b>>] = Means(ts, G, op, a, b)
    BY <1>1, <1>2, <2>1, GrammarIs
  <2>. QED BY <2>2, ChainIs
<1>4. ASSUME NEW a \in 1..(n + 1), NEW b \in 0..n,
             \A c \in 1..(n + 1), d \in 0..n : d - c < b - a => Holds(c, d)
      PROVE  Holds(a, b)
  <2>1. SUFFICES ASSUME NEW y
                 PROVE  y \in G[<<op, a, b>>] <=> FirstRoot(ts, G, op, a, b, y)
    OBVIOUS
  <2> HIDE DEF Holds
  <2> DEFINE U(c, d) == G[<<Operand(op), c, d>>]
             V(c, d) == G[<<op, c, d>>]
  <2>2. ASSUME NEW c \in 1..(n + 1), NEW d \in 0..n, NEW z
        PROVE  z \in V(c, d) <=>
                 \/ z \in U(c, d)
                 \/ \E k \in c..d : /\ ts[k] = op
                                    /\ \E p \in V(c, k - 1), q \in U(k + 1, d) : z = Join(op, p, q)
    <3>1. z \in G[<<op, c, d>>] <=> ChainMeans(ts, G, op, c, d, z)
      BY <1>3
    <3>. QED BY <3>1 DEF ChainMeans
  <2>3. ASSUME NEW c \in 1..(n + 1), NEW d \in 0..n, d - c < b - a, NEW z
        PROVE  z \in V(c, d) <=>
                 \/ z \in U(c, d)
                 \/ \E k \in c..d : /\ ts[k] = op
                                    /\ \E p \in U(c, k - 1), q \in V(k + 1, d) : z = Join(op, p, q)
    <3>1. Holds(c, d)
      BY <1>4, <2>3
    <3>. QED BY <3>1 DEF FirstRoot, Holds
  <2>4. FirstRoot(ts, G, op, a, b, y) <=>
          \/ y \in U(a, b)
          \/ \E k \in a..b : /\ ts[k] = op
                             /\ \E p \in U(a, k - 1), q \in V(k + 1, b) : y = Join(op, p, q)
    BY DEF FirstRoot
  <2>5. \A k \in a..b : k \in 1..n /\ k - 1 \in 0..n /\ k + 1 \in 1..(n + 1)
                        /\ k - 1 - a < b - a /\ b - (k + 1) < b - a
    BY <1>1
  <2> HIDE DEF U, V
  <2>6. ASSUME y \in V(a, b) PROVE FirstRoot(ts, G, op, a, b, y)
    <3>1. CASE y \in U(a, b)
      BY <2>4, <3>1
    <3>2. ASSUME NEW k \in a..b, ts[k] = op, NEW p \in V(a, k - 1), NEW q \in U(k + 1, b),
                 y = Join(op, p, q)
          PROVE  FirstRoot(ts, G, op, a, b, y)
      <4>1. k \in 1..n /\ k - 1 \in 0..n /\ k + 1 \in 1..(n + 1) /\ k - 1 - a < b - a
        BY <2>5
      <4>2. CASE p \in U(a, k - 1)
        <5>1. q \in V(k + 1, b)
          BY <2>2, <4>1
        <5>. QED BY <2>4, <3>2, <4>2, <5>1
      <4>3. ASSUME NEW m \in a..(k - 1), ts[m] = op, NEW r \in U(a, m - 1),
                   NEW s \in V(m + 1, k - 1), p = Join(op, r, s)
            PROVE  FirstRoot(ts, G, op, a, b, y)
        <5>1. m \in a..b /\ m + 1 \in 1..(n + 1) /\ k \in (m + 1)..b
          BY <1>1, <4>1, <4>3
        <5>2. Join(op, s, q) \in V(m + 1, b)
          BY <2>2, <3>2, <4>3, <5>1
        <5>3. y = Join(op, r, Join(op, s, q))
          BY <3>2, <4>3, JoinAssociates
        <5>. QED BY <2>4, <4>3, <5>1, <5>2, <5>3
      <4>. QED BY <2>3, <4>1, <4>2, <4>3
    <3>. QED BY <2>2, <2>6, <3>1, <3>2
  <2>7. ASSUME FirstRoot(ts, G, op, a, b, y) PROVE y \in V(a, b)
    <3>1. CASE y \in U(a, b)
      BY <2>2, <3>1
    <3>2. ASSUME NEW k \in a..b, ts[k] = op, NEW p \in U(a, k - 1), NEW q \in V(k + 1, b),
                 y = Join(op, p, q)
          PROVE  y \in V(a, b)
      <4>1. k \in 1..n /\ k - 1 \in 0..n /\ k + 1 \in 1..(n + 1) /\ b - (k + 1) < b - a
        BY <2>5
      <4>2. CASE q \in U(k + 1, b)
        <5>1. p \in V(a, k - 1)
          BY <2>2, <4>1
        <5>. QED BY <2>2, <3>2, <4>2, <5>1
      <4>3. ASSUME NEW m \in (k + 1)..b, ts[m] = op, NEW r \in V(k + 1, m - 1),
                   NEW s \in U(m + 1, b), q = Join(op, r, s)
            PROVE  y \in V(a, b)
        <5>1. m \in a..b /\ m - 1 \in 0..n /\ k \in a..(m - 1) /\ m - 1 - a < b - a
          BY <1>1, <4>1, <4>3
        <5>2. Join(op, p, r) \in V(a, m - 1)
          BY <2>3, <3>2, <4>3, <5>1
        <5>3. y = Join(op, Join(op, p, r), s)
          BY <3>2, <4>3, JoinAssociates
        <5>. QED BY <2>2, <4>3, <5>1, <5>2, <5>3
      <4>. QED BY <2>2, <4>1, <4>2, <4>3
    <3>. QED BY <2>4, <2>7, <3>1, <3>2
  <2>. QED BY <2>6, <2>7 DEF V
<1> HIDE DEF Holds
<1>5. ASSUME NEW a \in 1..(n + 1), NEW b \in 0..n, ~ Holds(a, b)
      PROVE  FALSE
  <2> DEFINE W == {p[2] - p[1] + n + 1 : p \in {p \in (1..(n + 1)) \X (0..n) : ~ Holds(p[1], p[2])}}
  <2>1. W \subseteq Nat
    BY <1>1
  <2>2. b - a + n + 1 \in W
    <3>1. <<a, b>> \in {p \in (1..(n + 1)) \X (0..n) : ~ Holds(p[1], p[2])}
      BY <1>5
    <3>. QED BY <3>1
  <2>3. PICK w \in W : \A v \in W : w <= v
    <3> HIDE DEF W
    <3>. QED BY <2>1, <2>2, Least
  <2>4. PICK p \in (1..(n + 1)) \X (0..n) : ~ Holds(p[1], p[2]) /\ w = p[2] - p[1] + n + 1
    BY <2>3
  <2>5. PICK c \in 1..(n + 1), d \in 0..n : ~ Holds(c, d) /\ w = d - c + n + 1
    BY <2>4
  <2>6. \A c2 \in 1..(n + 1), d2 \in 0..n : d2 - c2 < d - c => Holds(c2, d2)
    <3>1. SUFFICES ASSUME NEW c2 \in 1..(n + 1), NEW d2 \in 0..n, d2 - c2 < d - c, ~ Holds(c2, d2)
                   PROVE  FALSE
      OBVIOUS
    <3>2. d2 - c2 + n + 1 \in W
      <4>1. PICK r : r = <<c2, d2>>
        OBVIOUS
      <4>2. r \in (1..(n + 1)) \X (0..n) /\ r[1] = c2 /\ r[2] = d2
        BY <4>1
      <4>3. ~ Holds(r[1], r[2])
        BY <3>1, <4>2
      <4>. QED BY <4>2, <4>3
    <3>3. w <= d2 - c2 + n + 1
      BY <2>3, <3>2
    <3>. QED BY <1>1, <2>5, <3>1, <3>3
  <2>. QED BY <1>4, <2>5, <2>6
<1>6. Holds(i, j)
  BY <1>1, <1>5
<1>. QED BY <1>2, <1>6 DEF Holds
-----------------------------------------------------------------------------
(* The parser against the grammar.                                         *)

\* The tokens with which what precedes them would go on, at a level.
Follow(l) == IF l = "or" THEN {"or", "and"} ELSE IF l = "and" THEN {"and"} ELSE {}

\* At level l the i-th token begins what the parser P finds there, with one
\* meaning in the grammar G, and nothing else that ends where the level does.
Right(ts, P, G, l, i) ==
  LET r == P[<<l, i>>] IN
  /\ r.ok => /\ G[<<l, i, r.pos - 1>>] = {r.sat}
             /\ Peek(ts, r.pos) \notin Follow(l)
  /\ \A j \in 0..Len(ts) :
       G[<<l, i, j>>] # {} /\ Peek(ts, j + 1) \notin Follow(l) => r.ok /\ r.pos = j + 1

\* A chain is parsed right if its first operand and the rest of it are.
LEMMA ChainIsRight ==
  ASSUME NEW ts \in Seq(Token), NEW l \in Operators, NEW i \in 1..(Len(ts) + 1),
         NEW P, NEW G, P = Parser(ts), G = Grammar(ts), Right(ts, P, G, Operand(l), i),
         \A m \in 1..(Len(ts) + 1) : m > i => Right(ts, P, G, l, m)
  PROVE  Right(ts, P, G, l, i)
<1>1. PICK n \in Nat : n = Len(ts)
  OBVIOUS
<1>2. P = Parser(ts) /\ G = Grammar(ts)
  OBVIOUS
<1>. i \in 1..(n + 1)
  BY <1>1
<1>3. /\ l \in Levels /\ Operand(l) \in Levels /\ l \notin {"", "not", "atom"}
      /\ Follow(l) = Follow(Operand(l)) \cup {l} /\ l \notin Follow(Operand(l))
  BY DEF Operators, Levels, Operand, Follow
<1>4. PICK r : r = P[<<Operand(l), i>>]
  OBVIOUS
<1>5. Moved(ts, i, r)
  BY <1>2, <1>3, <1>4, ParserIs
<1>6. r.ok => r.pos \in (i + 1)..(n + 1)
  BY <1>1, <1>5 DEF Moved
<1> DEFINE U(c, d) == G[<<Operand(l), c, d>>]
           V(c, d) == G[<<l, c, d>>]
<1>7. r.ok => U(i, r.pos - 1) = {r.sat} /\ Peek(ts, r.pos) \notin Follow(Operand(l))
  BY <1>1, <1>4 DEF Right
<1>8. \A j \in 0..n : U(i, j) # {} /\ Peek(ts, j + 1) \notin Follow(Operand(l)) =>
                        r.ok /\ r.pos = j + 1
  BY <1>1, <1>4 DEF Right
<1>9. ASSUME NEW k \in i..n, ts[k] = l, U(i, k - 1) # {}
      PROVE  r.ok /\ r.pos = k
  <2>1. k - 1 \in 0..n /\ k - 1 + 1 = k /\ k \in 1..(n + 1) /\ k <= n
    BY <1>1
  <2>2. Peek(ts, k) = l
    BY <1>1, <1>9, <2>1, Peeked
  <2>. QED BY <1>3, <1>8, <1>9, <2>1, <2>2
<1>10. ASSUME NEW j \in 0..n, NEW x
       PROVE  x \in V(i, j) <=>
                \/ x \in U(i, j)
                \/ \E k \in i..j : /\ ts[k] = l
                                   /\ \E a \in U(i, k - 1), b \in V(k + 1, j) : x = Join(l, a, b)
  <2>1. x \in G[<<l, i, j>>] <=> FirstRoot(ts, G, l, i, j, x)
    BY <1>1, <1>2, Regroup
  <2>. QED BY <2>1 DEF FirstRoot
<1>11. PICK t : t = P[<<l, i>>]
  OBVIOUS
<1>12. t = ParseChain(ts, P, l, i)
  <2>1. t = ParseLevel(ts, P, l, i)
    BY <1>2, <1>3, <1>11, ParserIs
  <2>. QED BY <1>3, <2>1 DEF ParseLevel
<1> HIDE DEF U, V
<1>13. ASSUME /\ t.ok => V(i, t.pos - 1) = {t.sat} /\ Peek(ts, t.pos) \notin Follow(l)
              /\ \A j \in 0..n : V(i, j) # {} /\ Peek(ts, j + 1) \notin Follow(l) =>
                                   t.ok /\ t.pos = j + 1
       PROVE  Right(ts, P, G, l, i)
  <2>1. Right(ts, P, G, l, i) <=>
          /\ t.ok => G[<<l, i, t.pos - 1>>] = {t.sat} /\ Peek(ts, t.pos) \notin Follow(l)
          /\ \A j \in 0..n : G[<<l, i, j>>] # {} /\ Peek(ts, j + 1) \notin Follow(l) =>
                               t.ok /\ t.pos = j + 1
    BY <1>1, <1>11 DEF Right
  <2>. QED BY <1>13, <2>1 DEF V
<1>14. CASE r.ok /\ Peek(ts, r.pos) = l
  <2>1. r.pos \in (i + 1)..n /\ r.pos + 1 \in 1..(n + 1) /\ r.pos + 1 > i
    <3>1. r.pos \in 1..(n + 1)
      BY <1>6, <1>14
    <3>2. r.pos <= n
      BY <1>1, <1>3, <1>14, <3>1, Peeked
    <3>. QED BY <1>6, <1>14, <3>2
  <2>2. PICK s : s = P[<<l, r.pos + 1>>]
    OBVIOUS
  <2>3. Moved(ts, r.pos + 1, s)
    BY <1>1, <1>2, <1>3, <2>1, <2>2, ParserIs
  <2>4. s.ok => s.pos \in (r.pos + 2)..(n + 1)
    <3>1. s.ok => s.pos \in (r.pos + 1 + 1)..(n + 1)
      BY <1>1, <2>3 DEF Moved
    <3>. QED BY <2>1, <3>1
  <2>5. Right(ts, P, G, l, r.pos + 1)
    BY <1>1, <2>1
  <2>6. s.ok => V(r.pos + 1, s.pos - 1) = {s.sat} /\ Peek(ts, s.pos) \notin Follow(l)
    BY <1>1, <2>2, <2>5 DEF Right, V
  <2>7. \A j \in 0..n : V(r.pos + 1, j) # {} /\ Peek(ts, j + 1) \notin Follow(l) =>
                          s.ok /\ s.pos = j + 1
    BY <1>1, <2>2, <2>5 DEF Right, V
  <2>8. t = IF s.ok THEN Matched(Join(l, r.sat, s.sat), s.pos) ELSE Error
    BY <1>4, <1>12, <1>14, <2>2 DEF ParseChain
  <2>9. ASSUME NEW j \in 0..n, V(i, j) # {}, Peek(ts, j + 1) \notin Follow(l)
        PROVE  t.ok /\ t.pos = j + 1
    <3>1. U(i, j) = {}
      <4>1. SUFFICES ASSUME U(i, j) # {} PROVE FALSE
        OBVIOUS
      <4>2. r.pos = j + 1
        BY <1>3, <1>8, <2>9, <4>1
      <4>. QED BY <1>3, <1>14, <2>9, <4>2
    <3>2. PICK x : x \in V(i, j)
      BY <2>9
    <3>3. PICK k \in i..j : ts[k] = l /\ U(i, k - 1) # {} /\ V(k + 1, j) # {}
      BY <1>10, <3>1, <3>2
    <3>4. k = r.pos
      BY <1>1, <1>9, <3>3
    <3>5. s.ok /\ s.pos = j + 1
      BY <2>7, <2>9, <3>3, <3>4
    <3>. QED BY <2>8, <3>5 DEF Matched
  <2>10. ASSUME t.ok PROVE V(i, t.pos - 1) = {t.sat} /\ Peek(ts, t.pos) \notin Follow(l)
    <3>1. s.ok /\ t.pos = s.pos /\ t.sat = Join(l, r.sat, s.sat)
      BY <2>8, <2>10 DEF Matched, Error
    <3>2. PICK j : j = s.pos - 1
      OBVIOUS
    <3>3. j \in 0..n /\ j + 1 = s.pos /\ r.pos \in i..j /\ s.pos # r.pos
      <4>1. s.pos \in Int /\ s.pos <= n + 1 /\ s.pos >= r.pos + 2
        BY <2>1, <2>4, <3>1
      <4>2. r.pos \in Int /\ r.pos >= i + 1 /\ i \in Int /\ i >= 1
        BY <2>1
      <4>3. PICK x \in Int, y \in Int : x = r.pos /\ y = s.pos
        BY <4>1, <4>2
      <4>4. j = y - 1 /\ y <= n + 1 /\ y >= x + 2 /\ x >= i + 1
        BY <3>2, <4>1, <4>2, <4>3
      <4>5. j \in 0..n /\ j + 1 = y /\ x \in i..j /\ y # x
        BY <1>1, <4>2, <4>4
      <4>. QED BY <4>3, <4>5
    <3>4. Peek(ts, j + 1) \notin Follow(l) /\ V(r.pos + 1, j) = {s.sat}
      BY <2>6, <3>1, <3>2, <3>3
    <3>5. U(i, j) = {}
      <4>1. SUFFICES ASSUME U(i, j) # {} PROVE FALSE
        OBVIOUS
      <4>2. r.pos = j + 1
        BY <1>3, <1>8, <3>3, <3>4, <4>1
      <4>. QED BY <3>3, <4>2
    <3>6. ASSUME NEW x PROVE x \in V(i, j) <=> x = t.sat
      <4>1. ASSUME x \in V(i, j) PROVE x = t.sat
        <5>1. PICK k \in i..j : /\ ts[k] = l
                                /\ \E a \in U(i, k - 1), b \in V(k + 1, j) : x = Join(l, a, b)
          BY <1>10, <3>3, <3>5, <4>1
        <5>2. k = r.pos
          <6>1. k \in i..n /\ U(i, k - 1) # {}
            BY <3>3, <5>1
          <6>. QED BY <1>9, <5>1, <6>1
        <5>3. U(i, k - 1) = {r.sat} /\ V(k + 1, j) = {s.sat}
          BY <1>7, <1>14, <3>4, <5>2
        <5>. QED BY <3>1, <5>1, <5>3
      <4>2. t.sat \in V(i, j)
        <5>1. r.sat \in U(i, r.pos - 1) /\ s.sat \in V(r.pos + 1, j) /\ ts[r.pos] = l
          <6>1. r.pos \in 1..(n + 1) /\ r.pos <= n
            BY <2>1
          <6>2. ts[r.pos] = l
            BY <1>1, <1>14, <6>1, Peeked
          <6>. QED BY <1>7, <1>14, <3>4, <6>2
        <5>. QED BY <1>10, <3>1, <3>3, <5>1
      <4>. QED BY <4>1, <4>2
    <3>7. V(i, j) = {t.sat}
      BY <3>6
    <3>. QED BY <3>1, <3>2, <3>3, <3>4, <3>7
  <2>. QED BY <1>13, <2>9, <2>10
<1>15. CASE ~ (r.ok /\ Peek(ts, r.pos) = l)
  <2>1. t = r
    BY <1>4, <1>12, <1>15 DEF ParseChain
  <2>2. ASSUME NEW j \in 0..n, NEW x
        PROVE  x \in V(i, j) <=> x \in U(i, j)
    <3>1. ASSUME NEW k \in i..j, ts[k] = l, U(i, k - 1) # {} PROVE FALSE
      <4>1. r.ok /\ r.pos = k
        BY <1>9, <3>1
      <4>2. k \in 1..(n + 1) /\ k <= n
        BY <1>1
      <4>3. Peek(ts, k) = l
        BY <1>1, <3>1, <4>2, Peeked
      <4>. QED BY <1>15, <4>1, <4>3
    <3>. QED BY <1>10, <3>1
  <2>3. ASSUME NEW j \in 0..n, V(i, j) # {}, Peek(ts, j + 1) \notin Follow(l)
        PROVE  t.ok /\ t.pos = j + 1
    <3>1. U(i, j) # {}
      BY <2>2, <2>3
    <3>. QED BY <1>3, <1>8, <2>1, <2>3, <3>1
  <2>4. ASSUME t.ok PROVE V(i, t.pos - 1) = {t.sat} /\ Peek(ts, t.pos) \notin Follow(l)
    <3>1. r.pos - 1 \in 0..n
      BY <1>6, <2>1, <2>4
    <3>2. V(i, r.pos - 1) = U(i, r.pos - 1)
      BY <2>2, <3>1
    <3>. QED BY <1>3, <1>7, <1>15, <2>1, <2>4, <3>2
  <2>. QED BY <1>13, <2>3, <2>4
<1>. QED BY <1>14, <1>15
\* A negation is parsed right if its operand is.
LEMMA NotIsRight ==
  ASSUME NEW ts \in Seq(Token), NEW i \in 1..(Len(ts) + 1),
         NEW P, NEW G, P = Parser(ts), G = Grammar(ts), Right(ts, P, G, "atom", i),
         \A m \in 1..(Len(ts) + 1) : m > i => Right(ts, P, G, "not", m)
  PROVE  Right(ts, P, G, "not", i)
<1>1. PICK n \in Nat : n = Len(ts)
  OBVIOUS
<1>. i \in 1..(n + 1)
  BY <1>1
<1>2. "not" \in Levels /\ "atom" \in Levels /\ "not" \notin Operators
      /\ Follow("not") = {} /\ Follow("atom") = {}
  BY DEF Levels, Operators, Follow
<1>3. PICK t : t = P[<<"not", i>>]
  OBVIOUS
<1>4. t = ParseNot(ts, P, i)
  <2>1. t = ParseLevel(ts, P, "not", i)
    BY <1>2, <1>3, ParserIs
  <2>. QED BY <1>2, <2>1 DEF ParseLevel
<1>5. ASSUME NEW j \in 0..n
      PROVE  G[<<"not", i, j>>] = IF i <= j /\ ts[i] = "not"
                                  THEN {MarkerSet \ a : a \in G[<<"not", i + 1, j>>]}
                                  ELSE G[<<"atom", i, j>>]
  <2>1. G[<<"not", i, j>>] = Means(ts, G, "not", i, j)
    BY <1>1, <1>2, GrammarIs
  <2>. QED BY <1>2, <2>1 DEF Means
<1>6. CASE Peek(ts, i) = "not"
  <2>1. i <= n /\ ts[i] = "not" /\ i + 1 \in 1..(n + 1) /\ i + 1 > i
    <3>1. i <= n
      BY <1>1, <1>6, Peeked
    <3>2. ts[i] = "not"
      BY <1>1, <1>6, <3>1, Peeked
    <3>. QED BY <1>1, <3>1, <3>2
  <2>2. PICK s : s = P[<<"not", i + 1>>]
    OBVIOUS
  <2>3. Moved(ts, i + 1, s)
    BY <1>1, <1>2, <2>1, <2>2, ParserIs
  <2>4. s.ok => s.pos \in (i + 1 + 1)..(n + 1)
    BY <1>1, <2>3 DEF Moved
  <2>5. Right(ts, P, G, "not", i + 1)
    BY <1>1, <2>1
  <2>6. s.ok => G[<<"not", i + 1, s.pos - 1>>] = {s.sat}
    BY <2>2, <2>5 DEF Right
  <2>7. \A j \in 0..n : G[<<"not", i + 1, j>>] # {} => s.ok /\ s.pos = j + 1
    BY <1>1, <1>2, <2>2, <2>5 DEF Right
  <2>8. t = IF s.ok THEN Matched(MarkerSet \ s.sat, s.pos) ELSE Error
    BY <1>4, <1>6, <2>2 DEF ParseNot, NotOperand
  <2>9. ASSUME NEW j \in 0..n, G[<<"not", i, j>>] # {} PROVE t.ok /\ t.pos = j + 1
    <3>1. CASE i <= j
      <4>1. G[<<"not", i + 1, j>>] # {}
        BY <1>5, <2>1, <2>9, <3>1
      <4>. QED BY <2>7, <2>8, <4>1 DEF Matched
    <3>2. CASE ~ (i <= j)
      <4>1. G[<<"atom", i, j>>] # {}
        BY <1>5, <2>9, <3>2
      <4>2. G[<<"atom", i, j>>] = Means(ts, G, "atom", i, j)
        BY <1>1, <1>2, GrammarIs
      <4>3. Means(ts, G, "atom", i, j) = {}
        <5>1. i # j /\ ~ (i < j)
          BY <1>1, <3>2
        <5>2. "atom" \notin Operators
          BY DEF Operators
        <5>. QED BY <5>1, <5>2 DEF Means
      <4>. QED BY <4>1, <4>2, <4>3
    <3>. QED BY <3>1, <3>2
  <2>10. ASSUME t.ok PROVE G[<<"not", i, t.pos - 1>>] = {t.sat}
    <3>1. s.ok /\ t.pos = s.pos /\ t.sat = MarkerSet \ s.sat
      BY <2>8, <2>10 DEF Matched, Error
    <3>2. PICK j : j = s.pos - 1
      OBVIOUS
    <3>3. j \in 0..n /\ i <= j
      BY <1>1, <2>4, <3>1, <3>2
    <3>4. G[<<"not", i, j>>] = {MarkerSet \ a : a \in {s.sat}}
      BY <1>5, <2>1, <2>6, <3>1, <3>2, <3>3
    <3>. QED BY <3>1, <3>2, <3>4
  <2>. QED BY <1>1, <1>2, <1>3, <2>9, <2>10 DEF Right
<1>7. CASE Peek(ts, i) # "not"
  <2>1. t = P[<<"atom", i>>]
    BY <1>4, <1>7 DEF ParseNot
  <2>2. \A j \in 0..n : G[<<"not", i, j>>] = G[<<"atom", i, j>>]
    <3>1. ASSUME i <= n PROVE ts[i] # "not"
      BY <1>1, <1>7, <3>1, Peeked
    <3>2. \A j \in 0..n : i <= j => i <= n
      BY <1>1
    <3>. QED BY <1>5, <3>1, <3>2
  <2>3. t.ok => t.pos - 1 \in 0..n
    <3>1. Moved(ts, i, t)
      BY <1>2, <1>3, ParserIs
    <3>2. t.ok => t.pos \in (i + 1)..(n + 1)
      BY <1>1, <3>1 DEF Moved
    <3>. QED BY <1>1, <3>2
  <2>. QED BY <1>1, <1>2, <1>3, <2>1, <2>2, <2>3 DEF Right
<1>. QED BY <1>6, <1>7

\* An atom is parsed right if what its parentheses enclose is.
LEMMA AtomIsRight ==
  ASSUME NEW ts \in Seq(Token), NEW i \in 1..(Len(ts) + 1),
         NEW P, NEW G, P = Parser(ts), G = Grammar(ts),
         \A m \in 1..(Len(ts) + 1) : m > i => Right(ts, P, G, "or", m)
  PROVE  Right(ts, P, G, "atom", i)
<1>1. PICK n \in Nat : n = Len(ts)
  OBVIOUS
<1>. i \in 1..(n + 1)
  BY <1>1
<1>2. "or" \in Levels /\ "atom" \in Levels /\ "atom" \notin Operators
      /\ Follow("or") = {"or", "and"} /\ Follow("atom") = {}
  BY DEF Levels, Operators, Follow
<1>3. PICK t : t = P[<<"atom", i>>]
  OBVIOUS
<1>4. t = ParseAtom(ts, P, i)
  <2>1. t = ParseLevel(ts, P, "atom", i)
    BY <1>2, <1>3, ParserIs
  <2>. QED BY <1>2, <2>1 DEF ParseLevel
<1>5. ASSUME NEW j \in 0..n
      PROVE  G[<<"atom", i, j>>] =
               IF i = j /\ ts[i] \in Marker
               THEN {{m \in MarkerSet : ts[i] \in m}}
               ELSE IF i < j /\ ts[i] = "(" /\ ts[j] = ")" THEN G[<<"or", i + 1, j - 1>>]
               ELSE {}
  <2>1. G[<<"atom", i, j>>] = Means(ts, G, "atom", i, j)
    BY <1>1, <1>2, GrammarIs
  <2>. QED BY <1>2, <2>1 DEF Means
<1>6. i <= n => Peek(ts, i) = ts[i]
  BY <1>1, Peeked
<1>7. "" \notin Marker /\ "(" \notin Marker
  BY MarkerAssumption
<1>8. \A j \in 0..n : i <= j => i <= n
  BY <1>1
<1>9. CASE Peek(ts, i) \in Marker
  <2>1. i <= n
    BY <1>1, <1>7, <1>9, Peeked
  <2>2. t = Matched({m \in MarkerSet : ts[i] \in m}, i + 1)
    BY <1>4, <1>9 DEF ParseAtom
  <2>3. t.ok /\ t.sat = {m \in MarkerSet : ts[i] \in m} /\ t.pos = i + 1 /\ t.pos - 1 = i
    <3>1. t.ok /\ t.sat = {m \in MarkerSet : ts[i] \in m} /\ t.pos = i + 1
      BY <2>2 DEF Matched
    <3>. QED BY <1>1, <3>1
  <2>4. i \in 0..n /\ ts[i] \in Marker /\ ts[i] # "("
    <3>1. i \in 0..n
      BY <1>1, <2>1
    <3>. QED BY <1>6, <1>7, <1>9, <2>1, <3>1
  <2>5. G[<<"atom", i, i>>] = {t.sat}
    BY <1>5, <2>3, <2>4
  <2>6. \A j \in 0..n : G[<<"atom", i, j>>] # {} => j = i
    BY <1>5, <2>4
  <2>7. \A j \in 0..n : j = i => t.pos = j + 1
    BY <2>3
  <2>. QED BY <1>1, <1>2, <1>3, <2>3, <2>5, <2>6, <2>7 DEF Right
<1>10. CASE Peek(ts, i) = "("
  <2>1. i <= n /\ ts[i] = "(" /\ i + 1 \in 1..(n + 1) /\ i + 1 > i
    <3>1. i <= n
      BY <1>1, <1>10, Peeked
    <3>. QED BY <1>1, <1>6, <1>10, <3>1
  <2>2. PICK s : s = P[<<"or", i + 1>>]
    OBVIOUS
  <2>3. Moved(ts, i + 1, s)
    BY <1>1, <1>2, <2>1, <2>2, ParserIs
  <2>4. s.ok => s.pos \in (i + 1 + 1)..(n + 1)
    BY <1>1, <2>3 DEF Moved
  <2>5. Right(ts, P, G, "or", i + 1)
    BY <1>1, <2>1
  <2>6. s.ok => G[<<"or", i + 1, s.pos - 1>>] = {s.sat}
    BY <2>2, <2>5 DEF Right
  <2>7. \A j \in 0..n : G[<<"or", i + 1, j>>] # {} /\ Peek(ts, j + 1) \notin {"or", "and"} =>
                          s.ok /\ s.pos = j + 1
    BY <1>1, <1>2, <2>2, <2>5 DEF Right
  <2>8. t = IF s.ok /\ Peek(ts, s.pos) = ")" THEN Matched(s.sat, s.pos + 1) ELSE Error
    BY <1>4, <1>7, <1>10, <2>2 DEF ParseAtom
  <2>9. ASSUME NEW j \in 0..n, G[<<"atom", i, j>>] # {} PROVE t.ok /\ t.pos = j + 1
    <3>1. i < j /\ ts[j] = ")" /\ G[<<"or", i + 1, j - 1>>] # {}
      BY <1>5, <1>7, <2>1, <2>9
    <3>2. j - 1 \in 0..n /\ j - 1 + 1 = j /\ j \in 1..(n + 1) /\ j <= n
      BY <1>1, <3>1
    <3>3. Peek(ts, j) = ")"
      BY <1>1, <3>1, <3>2, Peeked
    <3>4. s.ok /\ s.pos = j
      BY <2>7, <3>1, <3>2, <3>3
    <3>. QED BY <2>8, <3>3, <3>4 DEF Matched
  <2>10. ASSUME t.ok PROVE G[<<"atom", i, t.pos - 1>>] = {t.sat}
    <3>1. s.ok /\ Peek(ts, s.pos) = ")" /\ t.pos = s.pos + 1 /\ t.sat = s.sat
      BY <2>8, <2>10 DEF Matched, Error
    <3>2. PICK j \in (i + 1 + 1)..(n + 1) : j = s.pos
      BY <2>4, <3>1
    <3>3. j \in 1..(n + 1) /\ i < j /\ i # j /\ j + 1 - 1 = j
      BY <1>1, <3>2
    <3>4. j <= n /\ ts[j] = ")"
      <4>1. j <= n
        BY <1>1, <3>1, <3>2, <3>3, Peeked
      <4>. QED BY <1>1, <3>1, <3>2, <3>3, <4>1, Peeked
    <3>5. j \in 0..n
      BY <3>3, <3>4
    <3>6. G[<<"atom", i, j>>] = G[<<"or", i + 1, j - 1>>]
      BY <1>5, <2>1, <3>3, <3>4, <3>5
    <3>7. G[<<"or", i + 1, j - 1>>] = {s.sat}
      BY <2>6, <3>1, <3>2
    <3>8. t.pos - 1 = j
      BY <3>1, <3>2, <3>3
    <3>. QED BY <3>1, <3>6, <3>7, <3>8
  <2>. QED BY <1>1, <1>2, <1>3, <2>9, <2>10 DEF Right
<1>11. CASE Peek(ts, i) \notin Marker /\ Peek(ts, i) # "("
  <2>1. ~ t.ok
    BY <1>4, <1>11 DEF ParseAtom, Error
  <2>2. \A j \in 0..n : G[<<"atom", i, j>>] = {}
    <3>1. ASSUME NEW j \in 0..n, i <= j PROVE ts[i] \notin Marker /\ ts[i] # "("
      <4>1. i <= n
        BY <1>8, <3>1
      <4>. QED BY <1>6, <1>11, <4>1
    <3>2. \A j \in 0..n : i = j \/ i < j => i <= j
      BY <1>1
    <3>. QED BY <1>5, <3>1, <3>2
  <2>. QED BY <1>1, <1>3, <2>1, <2>2 DEF Right
<1>. QED BY <1>9, <1>10, <1>11

\* Every place is parsed right: there is no place of the least depth that is not.
LEMMA ParserIsRight ==
  ASSUME NEW ts \in Seq(Token), NEW l \in Levels, NEW i \in 1..(Len(ts) + 1)
  PROVE  Right(ts, Parser(ts), Grammar(ts), l, i)
<1>1. PICK n \in Nat : n = Len(ts)
  OBVIOUS
<1>2. PICK P, G : P = Parser(ts) /\ G = Grammar(ts)
  OBVIOUS
<1> DEFINE Wrong(p) == ~ Right(ts, P, G, p[1], p[2])
           T == {Depth(ts, p) : p \in {p \in Places(ts) : Wrong(p)}}
<1>3. SUFFICES ASSUME T # {} PROVE FALSE
  <2>1. <<l, i>> \in Places(ts) /\ <<l, i>>[1] = l /\ <<l, i>>[2] = i
    BY DepthIs
  <2>2. \A p \in Places(ts) : Wrong(p) => Depth(ts, p) \in T
    OBVIOUS
  <2> HIDE DEF T
  <2>. QED BY <1>2, <2>1, <2>2
<1>4. T \subseteq Nat
  <2>1. \A p \in Places(ts) : Depth(ts, p) \in Nat
    BY PlaceIs
  <2>. QED BY <2>1
<1>5. PICK x \in T : \A y \in T : x <= y
  <2> HIDE DEF T
  <2>. QED BY <1>3, <1>4, Least
<1>6. PICK p \in Places(ts) : Wrong(p) /\ x = Depth(ts, p)
  BY <1>5
<1>7. PICK m \in Levels, j \in 1..(n + 1) : p = <<m, j>> /\ m = p[1] /\ j = p[2]
  BY <1>1, PlaceIs
<1>8. ~ Right(ts, P, G, m, j)
  BY <1>6, <1>7
<1>9. ASSUME NEW q \in Levels, NEW k \in 1..(n + 1), k > j \/ (k = j /\ Rank(q) < Rank(m))
      PROVE  Right(ts, P, G, q, k)
  <2>1. SUFFICES ASSUME ~ Right(ts, P, G, q, k) PROVE FALSE
    OBVIOUS
  <2>2. /\ Depth(ts, <<q, k>>) = 4 * (n + 1 - k) + Rank(q)
        /\ Depth(ts, <<m, j>>) = 4 * (n + 1 - j) + Rank(m)
        /\ Rank(m) \in 0..3 /\ Rank(q) \in 0..3 /\ <<q, k>> \in Places(ts)
    BY <1>1, DepthIs
  <2>3. Depth(ts, <<q, k>>) < x /\ x \in Nat /\ Depth(ts, <<q, k>>) \in Nat
    <3>1. Depth(ts, <<q, k>>) < Depth(ts, <<m, j>>)
      BY <1>1, <1>9, <2>2
    <3>. QED BY <1>4, <1>5, <1>6, <1>7, <2>2, <3>1, PlaceIs
  <2>4. Depth(ts, <<q, k>>) \in T
    <3>1. PICK r : r = <<q, k>>
      OBVIOUS
    <3>2. r \in Places(ts) /\ r[1] = q /\ r[2] = k
      BY <2>2, <3>1
    <3>3. Wrong(r)
      BY <2>1, <3>2
    <3>. QED BY <3>1, <3>2, <3>3
  <2>5. x <= Depth(ts, <<q, k>>)
    BY <1>5, <2>4
  <2>. QED BY <2>3, <2>5
<1>10. \A k \in 1..(Len(ts) + 1) : k > j => \A q \in Levels : Right(ts, P, G, q, k)
  BY <1>1, <1>9
<1>11. j \in 1..(Len(ts) + 1)
  BY <1>1
<1>12. CASE m \in Operators
  <2>1. Operand(m) \in Levels /\ Rank(Operand(m)) < Rank(m)
    <3>1. CASE m = "or"
      BY <3>1 DEF Operators, Levels, Operand, Rank
    <3>2. CASE m = "and"
      BY <3>2 DEF Operators, Levels, Operand, Rank
    <3>. QED BY <1>12, <3>1, <3>2 DEF Operators
  <2>2. Right(ts, P, G, Operand(m), j)
    BY <1>9, <2>1
  <2>. QED BY <1>2, <1>8, <1>10, <1>11, <1>12, <2>2, ChainIsRight
<1>13. CASE m = "not"
  <2>1. "atom" \in Levels /\ Rank("atom") < Rank(m)
    BY <1>13 DEF Levels, Rank
  <2>2. Right(ts, P, G, "atom", j)
    BY <1>9, <2>1
  <2>3. \A k \in 1..(Len(ts) + 1) : k > j => Right(ts, P, G, "not", k)
    BY <1>10, <1>13
  <2>. QED BY <1>2, <1>8, <1>11, <1>13, <2>2, <2>3, NotIsRight
<1>14. CASE m = "atom"
  <2>1. "or" \in Levels
    BY DEF Levels, Operators
  <2>2. \A k \in 1..(Len(ts) + 1) : k > j => Right(ts, P, G, "or", k)
    BY <1>10, <2>1
  <2>. QED BY <1>2, <1>8, <1>11, <1>14, <2>2, AtomIsRight
<1>. QED BY <1>12, <1>13, <1>14 DEF Levels

\* ParseMarkerExpr accepts exactly what the grammar derives, which has one
\* meaning, the one it computes, whatever the tokens.
THEOREM ParseIsGrammar ==
  ASSUME NEW ts \in Seq(Token)
  PROVE  Meanings(ts) = IF Parse(ts).ok THEN {Parse(ts).sat} ELSE {}
<1>1. CASE ts = <<>>
  BY <1>1 DEF Meanings, Parse, Matched
<1>2. CASE ts # <<>>
  <2>1. PICK n \in Nat : n = Len(ts) /\ n > 0
    BY <1>2
  <2>2. PICK P, G : P = Parser(ts) /\ G = Grammar(ts)
    OBVIOUS
  <2>3. PICK r : r = P[<<"or", 1>>]
    OBVIOUS
  <2>4. "or" \in Levels /\ 1 \in 1..(Len(ts) + 1) /\ "" \notin Follow("or")
    BY <2>1 DEF Levels, Operators, Follow
  <2>5. Right(ts, P, G, "or", 1)
    BY <2>2, <2>4, ParserIsRight
  <2>6. Parse(ts) = IF r.ok /\ r.pos = n + 1 THEN r ELSE Error
    BY <1>2, <2>1, <2>2, <2>3 DEF Parse
  <2>7. Meanings(ts) = G[<<"or", 1, n>>]
    BY <1>2, <2>1, <2>2 DEF Meanings
  <2>8. Peek(ts, n + 1) = ""
    <3>1. ~ (n + 1 <= Len(ts))
      BY <2>1
    <3>. QED BY <3>1 DEF Peek
  <2>9. CASE r.ok /\ r.pos = n + 1
    <3>1. r.pos - 1 = n
      BY <2>1, <2>9
    <3>2. G[<<"or", 1, n>>] = {r.sat}
      BY <2>3, <2>5, <2>9, <3>1 DEF Right
    <3>. QED BY <2>6, <2>7, <2>9, <3>2
  <2>10. CASE ~ (r.ok /\ r.pos = n + 1)
    <3>1. n \in 0..Len(ts)
      BY <2>1
    <3>2. G[<<"or", 1, n>>] = {}
      BY <2>3, <2>4, <2>5, <2>8, <2>10, <3>1 DEF Right
    <3>. QED BY <2>6, <2>7, <2>10, <3>2 DEF Error
  <2>. QED BY <2>9, <2>10
<1>. QED BY <1>1, <1>2

-----------------------------------------------------------------------------
(* Types, and the parser in a run.                                         *)

\* What Parse returns is a set of markers that an expression matches.
LEMMA ParseType ==
  ASSUME NEW e \in Seq(Token)
  PROVE  Parse(e).sat \in SUBSET MarkerSet
<1>1. CASE e = <<>>
  BY <1>1 DEF Parse, Matched
<1>2. CASE e # <<>>
  <2>1. "or" \in Levels /\ 1 \in 1..(Len(e) + 1)
    BY DEF Levels, Operators
  <2>2. PICK r : r = Parser(e)[<<"or", 1>>]
    OBVIOUS
  <2>3. r.sat \in SUBSET MarkerSet
    BY <2>1, <2>2, ParserIs DEF Moved
  <2>4. Parse(e) = r \/ Parse(e) = Error
    BY <1>2, <2>2 DEF Parse
  <2>. QED BY <2>3, <2>4 DEF Error
<1>. QED BY <1>1, <1>2

\* The lists and expressions of a state are sequences.
LEMMA InputTypes ==
  ASSUME TypeOK
  PROVE  /\ suite \in Seq(Test) /\ allow \in Seq(Entry) /\ list \in Seq(Entry)
         /\ toks \in Seq(Token)
         /\ Len(suite) \in Nat /\ Len(allow) \in Nat /\ Len(candidates) \in Nat
         /\ Len(list) \in Nat
<1>1. <<>> \in Seq(Entry) /\ <<>> \in Seq(Token)
  OBVIOUS
<1>2. suite \in Seq(Test) /\ allow \in Seq(Entry) /\ list \in Seq(Entry) /\ toks \in Seq(Token)
  BY <1>1, SelectionAssumption DEF TypeOK
<1>3. candidates \in Seq(registry)
  BY DEF TypeOK
<1>. QED BY <1>2, <1>3

\* The steps up to the candidates keep the types.
LEMMA TypesWhenGathering ==
  ASSUME TypeOK, KnownInv, SelectInv,
         RegisterTest \/ Lex \/ ParseMarkers \/ OpenAllowList
  PROVE  TypeOK'
<1>1. /\ Len(suite) \in Nat /\ Len(allow) \in Nat /\ Len(candidates) \in Nat /\ Len(list) \in Nat
      /\ suite \in Seq(Test) /\ toks \in Seq(Token)
  BY InputTypes
<1>2. CASE RegisterTest
  <2>1. /\ pc = "register" /\ at <= Len(suite) /\ at \in Nat \ {0}
        /\ candidates = <<>> /\ tests = <<>> /\ expected = {}
        /\ UNCHANGED <<suite, toks, sat, run, allow, candidates, tests, list, expected, unknown>>
    BY <1>2 DEF RegisterTest, KnownInv, SelectInv
  <2>2. pc' \in {"register", "refused"} /\ (at' = at \/ at' = at + 1)
        /\ (registry' = registry \/ registry' = registry \cup {suite[at]})
    BY <1>2, <2>1 DEF RegisterTest, Refuse, NextRound
  <2>3. at' \in 1..(Len(suite') + Len(allow') + Len(candidates') + Len(list') + 1)
    BY <1>1, <2>1, <2>2
  <2>4. suite[at] \in Range(suite)
    BY <1>1, <2>1 DEF Range
  <2>5. candidates' \in Seq(registry') /\ tests' \in Seq(registry')
    BY <2>1
  <2>. QED BY <2>1, <2>2, <2>3, <2>4, <2>5 DEF TypeOK
<1>3. CASE Lex
  <2>1. /\ pc' \in {"parse", "refused"} /\ (toks' \in Expressions \/ toks' = toks)
        /\ UNCHANGED <<suite, at, registry, sat, run, allow, candidates, tests, list, expected,
                       unknown>>
    BY <1>3 DEF Lex
  <2>. QED BY <2>1 DEF TypeOK
<1>4. CASE ParseMarkers
  <2>1. /\ pc' \in {"open", "refused"} /\ toks' = <<>>
        /\ (sat' = sat \/ sat' = Parse(toks).sat)
        /\ UNCHANGED <<suite, at, registry, run, allow, candidates, tests, list, expected, unknown>>
    BY <1>4 DEF ParseMarkers
  <2>2. sat' \subseteq MarkerSet
    BY <1>1, <2>1, ParseType DEF TypeOK
  <2>. QED BY <2>1, <2>2 DEF TypeOK
<1>5. CASE OpenAllowList
  <2>1. /\ pc = "open"
        /\ UNCHANGED <<suite, registry, toks, sat, run, tests, list, expected, unknown>>
    BY <1>5 DEF OpenAllowList
  <2>2. CASE candidates' \in All /\ at' = 1 /\ pc' = "select" /\ UNCHANGED allow
    <3>1. IsFiniteSet(registry) /\ registry \subseteq Test
      BY <2>1, RegistryIsFinite
    <3>2. PICK s : s = candidates'
      OBVIOUS
    <3>3. s \in Seq(registry) /\ Len(s) \in Nat
      BY <2>2, <3>1, <3>2, AllIsEveryTest
    <3>4. at' \in 1..(Len(suite') + Len(allow') + Len(candidates') + Len(list') + 1)
      BY <1>1, <2>1, <2>2, <3>2, <3>3
    <3>. QED BY <2>1, <2>2, <3>2, <3>3, <3>4 DEF TypeOK
  <2>3. CASE allow' \in Lists \ {<<>>} /\ at' = 1 /\ pc' = "resolve" /\ UNCHANGED candidates
    <3>1. Len(allow') \in Nat
      BY <2>3, SelectionAssumption
    <3>2. at' \in 1..(Len(suite') + Len(allow') + Len(candidates') + Len(list') + 1)
      BY <1>1, <2>1, <2>3, <3>1
    <3>. QED BY <2>1, <2>3, <3>2 DEF TypeOK
  <2>4. CASE pc' = "refused" /\ UNCHANGED <<at, allow, candidates>>
    BY <2>1, <2>4 DEF TypeOK
  <2>. QED BY <1>5, <2>2, <2>3, <2>4 DEF OpenAllowList
<1>. QED BY <1>2, <1>3, <1>4, <1>5

\* So do the rounds of resolve and Select.
LEMMA TypesWhenSelecting ==
  ASSUME TypeOK, KnownInv, SelectInv, ResolveEntry \/ EndResolve \/ Filter \/ EndSelect
  PROVE  TypeOK'
<1>1. /\ Len(suite) \in Nat /\ Len(allow) \in Nat /\ Len(candidates) \in Nat /\ Len(list) \in Nat
      /\ at \in Nat \ {0}
  BY InputTypes DEF KnownInv
<1>2. CASE ResolveEntry
  <2>1. /\ pc = "resolve" /\ at <= Len(allow)
        /\ UNCHANGED <<suite, registry, toks, sat, run, allow, tests, list, expected, unknown>>
    BY <1>2 DEF ResolveEntry
  <2>2. CASE pc' = "refused"
    <3>1. UNCHANGED <<at, candidates>>
      BY <1>2, <2>1, <2>2 DEF ResolveEntry, Refuse, NextRound
    <3>. QED BY <2>1, <2>2, <3>1 DEF TypeOK
  <2>3. CASE pc' # "refused"
    <3>1. /\ pc' = "resolve" /\ at' = at + 1
          /\ \E t \in registry : candidates' = Append(candidates, t)
      BY <1>2, <2>1, <2>3 DEF ResolveEntry, Refuse, NextRound, Lookup
    <3>2. candidates' \in Seq(registry) /\ Len(candidates') = Len(candidates) + 1
      BY <3>1 DEF TypeOK
    <3>3. at' \in 1..(Len(suite') + Len(allow') + Len(candidates') + Len(list') + 1)
      BY <1>1, <2>1, <3>1, <3>2
    <3>. QED BY <2>1, <3>1, <3>2, <3>3 DEF TypeOK
  <2>. QED BY <2>2, <2>3
<1>3. CASE EndResolve
  <2>1. /\ pc' = "select" /\ at' = 1
        /\ UNCHANGED <<suite, registry, toks, sat, run, allow, candidates, tests, list, expected,
                       unknown>>
    BY <1>3 DEF EndResolve
  <2>2. at' \in 1..(Len(suite') + Len(allow') + Len(candidates') + Len(list') + 1)
    BY <1>1, <2>1
  <2>. QED BY <2>1, <2>2 DEF TypeOK
<1>4. CASE Filter
  <2>1. /\ pc' = "select" /\ at' = at + 1 /\ at <= Len(candidates)
        /\ (tests' = tests \/ tests' = Append(tests, candidates[at]))
        /\ UNCHANGED <<suite, registry, toks, sat, run, allow, candidates, list, expected, unknown>>
    BY <1>4 DEF Filter, NextRound
  <2>2. candidates[at] \in registry
    BY <1>1, <2>1 DEF TypeOK
  <2>3. tests' \in Seq(registry)
    BY <2>1, <2>2 DEF TypeOK
  <2>4. at' \in 1..(Len(suite') + Len(allow') + Len(candidates') + Len(list') + 1)
    BY <1>1, <2>1
  <2>. QED BY <2>1, <2>3, <2>4 DEF TypeOK
<1>5. CASE EndSelect
  <2>1. /\ pc' \in {"refused", "known"}
        /\ UNCHANGED <<suite, at, registry, toks, sat, run, allow, candidates, tests, list>>
        /\ UNCHANGED <<expected, unknown>>
    BY <1>5 DEF EndSelect
  <2>. QED BY <2>1 DEF TypeOK
<1>. QED BY <1>2, <1>3, <1>4, <1>5

\* So do those of ParseKnownFailures.
LEMMA TypesWhenCounting ==
  ASSUME TypeOK, KnownInv, OpenKnownFailures \/ KnownEntry \/ EndKnownFailures
  PROVE  TypeOK'
<1>1. /\ Len(suite) \in Nat /\ Len(allow) \in Nat /\ Len(candidates) \in Nat /\ Len(list) \in Nat
      /\ at \in Nat \ {0} /\ unknown \in 0..Len(list)
  BY InputTypes DEF KnownInv, TypeOK
<1>2. CASE OpenKnownFailures
  <2>1. /\ pc = "known" /\ unknown = 0
        /\ UNCHANGED <<suite, registry, toks, sat, run, allow, candidates, tests, expected,
                       unknown>>
    BY <1>2 DEF OpenKnownFailures, KnownInv
  <2>2. CASE pc' \in {"ready", "refused"} /\ UNCHANGED <<at, list>>
    BY <2>1, <2>2 DEF TypeOK
  <2>3. CASE list' \in Lists /\ at' = 1 /\ pc' = "list"
    <3>1. Len(list') \in Nat
      BY <2>3, SelectionAssumption
    <3>2. at' \in 1..(Len(suite') + Len(allow') + Len(candidates') + Len(list') + 1)
          /\ unknown' \in 0..Len(list')
      BY <1>1, <2>1, <2>3, <3>1
    <3>. QED BY <2>1, <2>3, <3>2 DEF TypeOK
  <2>. QED BY <1>2, <2>2, <2>3 DEF OpenKnownFailures
<1>3. CASE KnownEntry
  <2>1. /\ pc = "list" /\ at <= Len(list)
        /\ UNCHANGED <<suite, registry, toks, sat, run, allow, candidates, tests, list>>
    BY <1>3 DEF KnownEntry
  <2>2. CASE pc' = "refused"
    <3>1. UNCHANGED <<at, expected, unknown>>
      BY <1>3, <2>1, <2>2 DEF KnownEntry, Refuse, NextRound
    <3>. QED BY <2>1, <2>2, <3>1 DEF TypeOK
  <2>3. CASE pc' # "refused"
    <3> DEFINE e == Trim(list[at].name)
    <3>1. /\ pc' = "list" /\ at' = at + 1
          /\ \/ Lookup(e) = {} /\ unknown' = unknown + 1 /\ expected' = expected
             \/ Lookup(e) # {} /\ unknown' = unknown /\ expected' = expected \cup {e}
      BY <1>3, <2>1, <2>3 DEF KnownEntry, Refuse, NextRound
    <3>2. expected' \subseteq {t.name : t \in registry}
      <4>1. expected \subseteq {t.name : t \in registry}
        BY DEF TypeOK
      <4>2. Lookup(e) # {} => e \in {t.name : t \in registry}
        BY DEF Lookup
      <4> HIDE DEF e
      <4>. QED BY <3>1, <4>1, <4>2
    <3>3. unknown < Len(list)
      <4> DEFINE U == {k \in 1..(at - 1) : ~ Known(k)}
      <4>1. unknown = Cardinality(U)
        BY <2>1 DEF KnownInv, Counted
      <4>2. IsFiniteSet(1..(at - 1)) /\ Cardinality(1..(at - 1)) = at - 1
        <5>1. 1 \in Int /\ at - 1 \in Int
          BY <1>1
        <5>2. /\ IsFiniteSet(1..(at - 1))
              /\ Cardinality(1..(at - 1)) = IF 1 > at - 1 THEN 0 ELSE at - 1 - 1 + 1
          BY <5>1, FS_Interval
        <5>. QED BY <1>1, <5>2
      <4>3. Cardinality(U) <= at - 1
        <5>1. U \subseteq 1..(at - 1)
          OBVIOUS
        <5> HIDE DEF U
        <5>. QED BY <4>2, <5>1, FS_Subset
      <4>. QED BY <1>1, <2>1, <4>1, <4>3
    <3>4. unknown' \in 0..Len(list)
      BY <1>1, <3>1, <3>3
    <3>5. at' \in 1..(Len(suite') + Len(allow') + Len(candidates') + Len(list') + 1)
      BY <1>1, <2>1, <3>1
    <3>. QED BY <2>1, <3>1, <3>2, <3>4, <3>5 DEF TypeOK
  <2>. QED BY <2>2, <2>3
<1>4. CASE EndKnownFailures
  <2>1. /\ pc' = "ready"
        /\ UNCHANGED <<suite, at, registry, toks, sat, run, allow, candidates, tests, list>>
        /\ UNCHANGED <<expected, unknown>>
    BY <1>4 DEF EndKnownFailures
  <2>. QED BY <2>1 DEF TypeOK
<1>. QED BY <1>2, <1>3, <1>4

\* Every variable has its type (newRunCommand).
THEOREM TypeCorrect == Spec => []TypeOK
<1>1. Init => TypeOK
  <2>1. ASSUME Init PROVE TypeOK
    <3>1. suite \in Seq(Test) /\ Len(suite) \in Nat /\ Len(<<>>) = 0
      BY <2>1, SelectionAssumption DEF Init
    <3>2. 1 \in 1..(Len(suite) + Len(<<>>) + Len(<<>>) + Len(<<>>) + 1) /\ 0 \in 0..Len(<<>>)
      BY <3>1
    <3>. QED BY <2>1, <3>2 DEF Init, TypeOK
  <2>. QED BY <2>1
<1>2. TypeOK /\ KnownInv /\ SelectInv /\ [Next]_vars => TypeOK'
  <2>1. ASSUME TypeOK, UNCHANGED vars PROVE TypeOK'
    BY <2>1 DEF vars, TypeOK
  <2>. QED BY <2>1, TypesWhenGathering, TypesWhenSelecting, TypesWhenCounting DEF Next
<1>. QED BY <1>1, <1>2, SelectInvariant, PTL DEF Spec

\* The parser meets the grammar on every expression that a run is given
\* (ParseMarkerExpr).
THEOREM ParserIsCorrect == Spec => []ParserMeetsGrammar
<1>1. ASSUME TypeOK PROVE ParserMeetsGrammar
  <2>1. toks \in Seq(Token)
    BY <1>1, InputTypes
  <2>. QED BY <2>1, ParseIsGrammar DEF ParserMeetsGrammar
<1>. QED BY <1>1, TypeCorrect, PTL
=============================================================================

----------------------------- MODULE Naming_proofs -----------------------------
(***************************************************************************)
(* Proofs about Naming: typing, that names fit, that cleanup is scoped and *)
(* that nothing else is left, for any files, names of tests, prefixes,     *)
(* lengths and any number of runs and tests.                               *)
(***************************************************************************)
EXTENDS Naming, SequenceTheorems, TLAPS

\* A slug in the making: it is short enough, has no dash in front and never two
\* in a row.
Slugged(s) ==
  /\ Len(s) <= MaxSlugLen
  /\ s # <<>> => s[1] # "-"
  /\ \A i \in 2..Len(s) : <<s[i - 1], s[i]>> # <<"-", "-">>

\* A slug grows in stage "slug", is trimmed and joined by a token for the
\* body and the cleanup, and is gone before and after; no test runs before the
\* runs have loaded the file.
StageInv ==
  \A e \in Env :
    /\ pc # "running" => stage[e] = "idle"
    /\ Slugged(slug[e])
    /\ stage[e] \in {"body", "cleanup"} => ~EndsInDash(slug[e]) /\ Len(token[e]) = TokenLen
    /\ stage[e] \notin {"body", "cleanup"} => cleanups[e] = <<>>
    /\ stage[e] = "idle" => slug[e] = <<>>

\* The prefix of a run is what BucketPrefix makes of the template.
PrefixInv == pc = "running" => \A r \in Run : prefix[r] \in BucketPrefix(cfg.template)

-----------------------------------------------------------------------------
(* Types.                                                                  *)

\* Every step of parseINI and build keeps the types of the configuration.
LEMMA LoadType ==
  ASSUME ConfigType, Load
  PROVE  ConfigType'
<1>1. /\ file \in Seq(Line) /\ at \in Nat \ {0}
      /\ section \in Section /\ present \subseteq Section
      /\ ini \in [Section -> [Key -> Value \cup {Absent}]]
  BY DEF ConfigType
<1>2. ASSUME NEW kind, Reads(kind)
      PROVE  file[at].section \in Section /\ file[at].key \in Key /\ file[at].value \in Value
  <2>1. file[at] \in Line
    BY <1>1, <1>2 DEF Reads
  <2>. QED BY <2>1 DEF Line
<1>3. CASE SkipLine
  BY <1>1, <1>3 DEF SkipLine, Reads, ConfigType
<1>4. CASE Header
  BY <1>1, <1>2, <1>4 DEF Header, Reads, ConfigType
<1>5. CASE Assignment
  <2>1. Reads("entry")
    BY <1>5 DEF Assignment
  <2>2. file[at].key \in Key /\ file[at].value \in Value
    BY <1>2, <2>1
  <2>3. ini' \in [Section -> [Key -> Value \cup {Absent}]]
    BY <1>1, <1>5, <2>2 DEF Assignment
  <2>. QED BY <1>1, <1>5, <2>1, <2>3 DEF Assignment, Reads, ConfigType
<1>6. CASE BadLine
  BY <1>1, <1>6 DEF BadLine, parseVars, ConfigType
<1>7. CASE EndOfFile
  BY <1>1, <1>7 DEF EndOfFile, parseVars, ConfigType
<1>8. CASE Build
  <2>1. CASE Acceptable
    <3>1. Template \in Value
      <4>1. "fixtures" \in Section /\ "DEFAULT" \in Section /\ "bucket prefix" \in Key
            /\ "test-{random}-" \in Value
        BY ConfigAssumption
      <4>2. /\ ini["fixtures"]["bucket prefix"] \in Value \cup {Absent}
            /\ ini["DEFAULT"]["bucket prefix"] \in Value \cup {Absent}
        BY <1>1, <4>1
      <4>. QED BY <4>1, <4>2 DEF Template, GetOr, Get
    <3>2. Fixed[Template] <= MaxPrefixLen
      BY <2>1 DEF Acceptable, Fits
    <3>3. NewConfig.template = Template
      BY DEF NewConfig
    <3>4. pc' = "loaded" /\ cfg' = NewConfig /\ UNCHANGED parseVars
      BY <1>8, <2>1 DEF Build
    <3>. QED BY <1>1, <3>1, <3>2, <3>3, <3>4 DEF parseVars, ConfigType
  <2>2. CASE ~Acceptable
    <3>1. pc' = "refused" /\ UNCHANGED parseVars
      BY <1>8, <2>2 DEF Build
    <3>. QED BY <1>1, <3>1 DEF parseVars, ConfigType
  <2>. QED BY <2>1, <2>2
<1>. QED BY <1>3, <1>4, <1>5, <1>6, <1>7, <1>8 DEF Load

\* A BucketPrefix is a sequence of characters, as long as PrefixLen says.
LEMMA PrefixLength ==
  ASSUME NEW t \in Value, Fixed[t] <= MaxPrefixLen,
         NEW p \in BucketPrefix(t)
  PROVE  /\ p \in Seq(Char) /\ Len(p) = PrefixLen(t)
         /\ Holes[t] <= 1 => Len(p) <= MaxPrefixLen
<1>1. Fixed[t] \in Nat /\ Holes[t] \in Nat /\ MaxPrefixLen \in Nat
  BY ConfigAssumption
<1>2. Filler(t) \in Nat
  BY <1>1 DEF Filler
<1>3. PrefixLen(t) \in Nat
  BY <1>1, <1>2 DEF PrefixLen
<1>4. PICK c \in Char : p = [i \in 1..PrefixLen(t) |-> c]
  BY NamingAssumption DEF BucketPrefix, Char
<1>5. p \in Seq(Char) /\ Len(p) = PrefixLen(t)
  BY <1>3, <1>4
<1>6. Holes[t] <= 1 => PrefixLen(t) <= MaxPrefixLen
  <2>1. CASE Holes[t] = 0
    BY <1>1, <2>1 DEF PrefixLen, Filler
  <2>2. CASE Holes[t] = 1
    BY <1>1, <2>2 DEF PrefixLen, Filler
  <2>. QED BY <1>1, <2>1, <2>2
<1>. QED BY <1>5, <1>6


\* What fills a name is a string, of the length the prefix leaves.
LEMMA FillingType ==
  ASSUME NEW p \in Seq(Char)
  PROVE  /\ Filling(p) \in Seq(Char)
         /\ Len(p) <= NameLimit => Len(Filling(p)) = NameLimit - Len(p)
<1> DEFINE k == NameLimit - Len(p)
<1>1. k \in Int /\ "a" \in Char
  BY NamingAssumption DEF Char
<1>2. CASE k \in Nat
  <2> HIDE DEF k
  <2>1. [i \in 1..k |-> "a"] \in Seq(Char) /\ Len([i \in 1..k |-> "a"]) = k
    BY <1>1, <1>2, IsASeq
  <2>. QED BY <2>1 DEF Filling, k
<1>3. CASE k \notin Nat
  <2>1. 1..k = 1..0 /\ 0 \in Nat
    BY <1>1, <1>3
  <2>2. [i \in 1..0 |-> "a"] \in Seq(Char)
    BY <1>1, <2>1, IsASeq
  <2>3. ~(Len(p) <= NameLimit)
    BY <1>3, NamingAssumption
  <2>. QED BY <2>1, <2>2, <2>3 DEF Filling
<1>. QED BY <1>2, <1>3

\* A counter that goes on counts a numeral.
LEMMA CountsOn ==
  ASSUME NamingType, NEW e \in Env, n[e] < NBuckets
  PROVE  n[e] + 1 \in 1..NBuckets /\ n[e] + 1 \in 0..NBuckets
<1>1. NBuckets \in Nat
  BY NamingAssumption DEF NBuckets
<1>2. n[e] \in 0..NBuckets
  BY DEF NamingType
<1>. QED BY <1>1, <1>2

\* The name of a test becomes a slug, its token is a string, and the parts of a
\* bucket name are sequences of characters, so that the name is one.
LEMMA NameType ==
  ASSUME NamingType, NEW e \in Env
  PROVE  /\ Prefix(e) \in Seq(Char)
         /\ n[e] < NBuckets => NewBucketName(e) \in Seq(Char)
         /\ \A x \in ExactOf(prefix[run[e]]) : prefix[run[e]] \o x \in Seq(Char)
<1>1. Seq(Alphabet) \subseteq Seq(Char) /\ <<"-">> \in Seq(Char)
  BY DEF Char
<1>2. prefix[run[e]] \in Seq(Char) /\ slug[e] \in Seq(Char) /\ token[e] \in Seq(Char)
  BY <1>1 DEF NamingType
<1>3. Prefix(e) \in Seq(Char)
  BY <1>1, <1>2 DEF Prefix
<1>4. ASSUME n[e] < NBuckets PROVE NewBucketName(e) \in Seq(Char)
  <2>1. n[e] + 1 \in 1..Len(Numeral)
    BY <1>4, NamingAssumption DEF NamingType, NBuckets
  <2>2. Numeral[n[e] + 1] \in Seq(Char)
    BY <1>1, <2>1, NamingAssumption
  <2>. QED BY <1>3, <2>2 DEF NewBucketName
<1>5. \A x \in ExactOf(prefix[run[e]]) : prefix[run[e]] \o x \in Seq(Char)
  BY <1>2, FillingType, NamingAssumption DEF ExactOf
<1>. QED BY <1>3, <1>4, <1>5

\* What is left to strings.Trim is the dash at the end.
LEMMA TrimSlug ==
  ASSUME NEW s \in Seq(Char), Slugged(s)
  PROVE  Trim(s) \in Seq(Char) /\ Slugged(Trim(s)) /\ ~EndsInDash(Trim(s))
<1> DEFINE I == {i \in 1..Len(s) : s[i] # "-"}
<1>1. CASE s = <<>>
  <2>1. I = {}
    BY <1>1
  <2>2. Trim(s) = <<>>
    BY <2>1 DEF Trim
  <2>. QED BY <2>2, NamingAssumption DEF Slugged, EndsInDash
<1>2. CASE s # <<>>
  <2>1. Len(s) \in Nat \ {0} /\ 1 \in I
    BY <1>2 DEF Slugged
  <2>2. Min(I) = 1
    BY <2>1 DEF Min
  <2>3. PICK m \in I : /\ \A i \in I : i <= m
                       /\ \A i \in (m + 1)..Len(s) : s[i] = "-"
    <3>1. CASE s[Len(s)] # "-"
      BY <2>1, <3>1
    <3>2. CASE s[Len(s)] = "-"
      <4>1. Len(s) >= 2
        BY <2>1, <3>2
      <4>2. Len(s) - 1 \in I
        <5>1. <<s[Len(s) - 1], s[Len(s)]>> # <<"-", "-">>
          BY <4>1, <2>1 DEF Slugged
        <5>2. s[Len(s) - 1] # "-"
          BY <5>1, <3>2
        <5>. QED BY <4>1, <5>2, <2>1
      <4>3. \A i \in I : i <= Len(s) - 1
        BY <3>2, <2>1
      <4>. QED BY <2>1, <3>2, <4>2, <4>3
    <3>. QED BY <3>1, <3>2
  <2>4. Max(I) = m
    <3>1. \A x \in I : (\A i \in I : x >= i) => x = m
      BY <2>3
    <3>2. m \in I /\ \A i \in I : m >= i
      BY <2>3
    <3>. QED BY <3>1, <3>2 DEF Max
  <2>5. Trim(s) = SubSeq(s, 1, m)
    BY <2>1, <2>2, <2>4 DEF Trim
  <2>6. /\ Trim(s) \in Seq(Char) /\ Len(Trim(s)) = m
        /\ \A i \in 1..m : Trim(s)[i] = s[i]
    BY <2>1, <2>3, <2>5
  <2>7. Slugged(Trim(s))
    <3>1. m \in 1..Len(s)
      BY <2>3
    <3>2. Len(Trim(s)) <= MaxSlugLen /\ Trim(s)[1] # "-"
      BY <2>1, <2>6, <3>1, NamingAssumption DEF Slugged
    <3>3. \A i \in 2..m : <<s[i - 1], s[i]>> # <<"-", "-">>
      BY <3>1 DEF Slugged
    <3>4. \A i \in 2..m : Trim(s)[i - 1] = s[i - 1] /\ Trim(s)[i] = s[i]
      BY <2>6, <3>1
    <3>. QED BY <2>6, <3>2, <3>3, <3>4 DEF Slugged
  <2>8. ~EndsInDash(Trim(s))
    <3>1. Last(Trim(s)) = s[m] /\ s[m] # "-"
      BY <2>3, <2>6 DEF Last
    <3>. QED BY <3>1 DEF EndsInDash
  <2>. QED BY <2>6, <2>7, <2>8
<1>. QED BY <1>1, <1>2

\* A run that begins has prefixes made of the characters of names.
LEMMA BeginType ==
  ASSUME ConfigType, NamingType, Begin
  PROVE  ConfigType' /\ NamingType'
<1>1. cfg.template \in Value /\ Fixed[cfg.template] <= MaxPrefixLen
  BY DEF ConfigType, Begin
<1>2. \A p \in BucketPrefix(cfg.template) : p \in Seq(Char)
  BY <1>1, PrefixLength
<1>3. prefix' \in [Run -> Seq(Char)]
  BY <1>2 DEF Begin
<1>4. NamingType'
  BY <1>3 DEF Begin, NamingType, serverVars
<1>5. NoValues \in [Section -> [Key -> Value \cup {Absent}]]
  BY DEF NoValues
<1>6. "DEFAULT" \in Section
  BY ConfigAssumption
<1>7. ConfigType'
  BY <1>1, <1>5, <1>6 DEF Begin, ConfigType
<1>. QED BY <1>4, <1>7

\* Every step of a test keeps the types, and what is known of its stage.
LEMMA TestType ==
  ASSUME TypeOK, StageInv, NEW e \in Env, Test(e)
  PROVE  NamingType' /\ StageInv'
<1> USE DEF NamingType, envVars, serverVars
<1>1. NamingType
  BY DEF TypeOK
<1>2. <<>> \in Seq(Char) /\ <<>> \in Seq(Alphabet) /\ <<>> \in Seq(DOMAIN Lower)
  OBVIOUS
<1>3. pc' = pc
  BY DEF Test, New, SlugRune, SlugEnd, NewBucket, Counts, NewBucketOfLength, NewBucketNamed, NewBucketFull,
         EndBody, Nuke, End, configVars
<1>4. CASE New(e)
  <2>1. NamingType'
    BY <1>1, <1>4, NamingAssumption DEF New
  <2>2. StageInv'
    BY <1>1, <1>3, <1>4 DEF New, StageInv
  <2>. QED BY <2>1, <2>2
<1>5. CASE SlugRune(e)
  <2> DEFINE c == Lower[Head(rest[e])]
  <2>1. Head(rest[e]) \in DOMAIN Lower /\ Tail(rest[e]) \in Seq(DOMAIN Lower)
    BY <1>1, <1>5 DEF SlugRune
  <2>2. c \in Char
    BY <2>1, NamingAssumption
  <2>3. NamingType'
    BY <1>1, <1>5, <2>1, <2>2 DEF SlugRune
  <2>4. Slugged(slug'[e])
    <3>1. CASE slug' = slug
      BY <3>1 DEF StageInv
    <3>2. CASE slug' = [slug EXCEPT ![e] = Append(@, c)] /\ ~(c = "-" /\ (slug[e] = <<>> \/ EndsInDash(slug[e])))
      <4>1. slug[e] \in Seq(Char) /\ Len(slug[e]) < MaxSlugLen /\ Slugged(slug[e])
        BY <1>1, <1>5 DEF SlugRune, Room, StageInv
      <4>2. slug'[e] = Append(slug[e], c)
        BY <1>1, <3>2
      <4> DEFINE s == slug[e]  t == Append(s, c)
      <4>3. Len(t) = Len(s) + 1 /\ t[Len(s) + 1] = c /\ \A i \in 1..Len(s) : t[i] = s[i]
        BY <4>1, <2>2
      <4>4. Len(t) <= MaxSlugLen
        BY <4>1, <4>3, NamingAssumption
      <4>5. t[1] # "-"
        <5>1. CASE s = <<>>
          BY <3>2, <4>3, <5>1
        <5>2. CASE s # <<>>
          BY <4>1, <4>3, <5>2 DEF Slugged
        <5>. QED BY <5>1, <5>2
      <4>6. ASSUME NEW i \in 2..Len(t) PROVE <<t[i - 1], t[i]>> # <<"-", "-">>
        <5>1. CASE i <= Len(s)
          <6>1. t[i - 1] = s[i - 1] /\ t[i] = s[i] /\ i \in 2..Len(s)
            BY <4>1, <4>3, <5>1
          <6>. QED BY <4>1, <6>1 DEF Slugged
        <5>2. CASE i = Len(s) + 1
          <6>1. t[i] = c /\ t[i - 1] = s[Len(s)] /\ s # <<>>
            BY <4>1, <4>3, <5>2
          <6>2. c # "-" \/ s[Len(s)] # "-"
            BY <3>2, <6>1 DEF EndsInDash, Last
          <6>. QED BY <6>1, <6>2
        <5>. QED BY <4>1, <4>3, <5>1, <5>2
      <4>. QED BY <4>2, <4>4, <4>5, <4>6 DEF Slugged
    <3>. QED BY <1>5, <3>1, <3>2 DEF SlugRune
  <2>5. \A f \in Env \ {e} : slug'[f] = slug[f]
    BY <1>1, <1>5 DEF SlugRune
  <2>6. StageInv'
    BY <1>1, <1>3, <1>5, <2>4, <2>5 DEF SlugRune, StageInv
  <2>. QED BY <2>3, <2>6
<1>6. CASE SlugEnd(e)
  <2>1. Trim(slug[e]) \in Seq(Char) /\ Slugged(Trim(slug[e])) /\ ~EndsInDash(Trim(slug[e]))
    BY <1>1, TrimSlug DEF StageInv
  <2>2. PICK t \in Strings(Alphabet, TokenLen) : token' = [token EXCEPT ![e] = t]
    BY <1>6 DEF SlugEnd
  <2>3. t \in Seq(Alphabet) /\ Len(t) = TokenLen
    BY <2>2, NamingAssumption DEF Strings
  <2>4. NamingType'
    BY <1>1, <1>2, <1>6, <2>1, <2>2, <2>3 DEF SlugEnd
  <2>5. StageInv'
    BY <1>1, <1>3, <1>6, <2>1, <2>2, <2>3 DEF SlugEnd, StageInv
  <2>. QED BY <2>4, <2>5
<1>7. ASSUME NEW name \in Seq(Char), Create(e, name), stage[e] = "body",
             UNCHANGED <<run, prefix, rest, slug, token>>,
             n' = n \/ (n[e] < NBuckets /\ n' = [n EXCEPT ![e] = @ + 1])
      PROVE  NamingType' /\ StageInv'
  <2>1. /\ stage' \in [Env -> {"idle", "slug", "body", "cleanup", "ended"}]
        /\ cleanups' \in [Env -> Seq(Seq(Char))]
        /\ buckets' \subseteq Seq(Char) /\ known' \subseteq Seq(Char)
        /\ \A f \in Env \ {e} : stage'[f] = stage[f] /\ cleanups'[f] = cleanups[f]
        /\ stage'[e] \in {"body", "cleanup"}
    <3>1. Append(cleanups[e], name) \in Seq(Seq(Char))
      BY <1>1, <1>7
    <3>. QED BY <1>1, <1>7, <3>1 DEF Create, Leave
  <2>2. n' \in [Env -> 0..NBuckets]
    <3>1. NBuckets \in Nat
      BY NamingAssumption DEF NBuckets
    <3>2. n \in [Env -> 0..NBuckets]
      BY <1>1
    <3>3. ASSUME n[e] < NBuckets PROVE n[e] + 1 \in 0..NBuckets
      BY <3>1, <3>2, <3>3
    <3>. QED BY <1>7, <3>2, <3>3
  <2>3. NamingType'
    BY <1>1, <1>7, <2>1, <2>2
  <2>4. StageInv'
    BY <1>1, <1>3, <1>7, <2>1 DEF StageInv
  <2>. QED BY <2>3, <2>4
<1>8. CASE NewBucket(e)
  <2>1. NewBucketName(e) \in Seq(Char)
    BY <1>1, <1>8, NameType DEF NewBucket, Counts
  <2>. QED BY <1>7, <1>8, <2>1 DEF NewBucket, Counts, InBody
<1>9. CASE \E len \in Lengths : NewBucketOfLength(e, len)
  <2>1. PICK len \in Lengths : NewBucketOfLength(e, len)
    BY <1>9
  <2>2. NewBucketName(e) \in Seq(Char)
    BY <1>1, <2>1, NameType DEF NewBucketOfLength, Counts
  <2>3. CASE Len(NewBucketName(e)) >= len
    <3>1. Leave(e) /\ UNCHANGED <<cleanups, buckets, known>> /\ stage[e] = "body"
      BY <2>1, <2>3 DEF NewBucketOfLength, InBody
    <3>2. n[e] < NBuckets /\ n' = [n EXCEPT ![e] = @ + 1] /\ UNCHANGED <<run, prefix, rest, slug, token>>
      BY <2>1 DEF NewBucketOfLength, Counts
    <3>3. n[e] + 1 \in 0..NBuckets
      BY <1>1, <3>2, CountsOn
    <3>4. NamingType'
      BY <1>1, <3>1, <3>2, <3>3 DEF Leave
    <3>5. StageInv'
      BY <1>1, <1>3, <3>1, <3>2 DEF StageInv, Leave
    <3>. QED BY <3>4, <3>5
  <2>4. CASE ~(Len(NewBucketName(e)) >= len)
    <3> DEFINE fill == [i \in 1..(len - Len(NewBucketName(e))) |-> "a"]
    <3>1. len \in Nat /\ Len(NewBucketName(e)) \in Nat
      BY <2>2, NamingAssumption
    <3>2. fill \in Seq(Char)
      <4>1. len - Len(NewBucketName(e)) \in Nat /\ "a" \in Char
        BY <2>4, <3>1, NamingAssumption DEF Char
      <4>. QED BY <4>1, IsASeq
    <3>3. NewBucketName(e) \o fill \in Seq(Char)
      BY <2>2, <3>2
    <3>4. Create(e, NewBucketName(e) \o fill)
      BY <2>1, <2>4 DEF NewBucketOfLength
    <3>5. /\ stage[e] = "body" /\ UNCHANGED <<run, prefix, rest, slug, token>>
          /\ n[e] < NBuckets /\ n' = [n EXCEPT ![e] = @ + 1]
      BY <2>1 DEF NewBucketOfLength, InBody, Counts
    <3> HIDE DEF fill
    <3>. QED BY <1>7, <3>3, <3>4, <3>5
  <2>. QED BY <2>3, <2>4
<1>10. CASE \E x \in Exact : NewBucketNamed(e, x)
  <2>1. PICK x \in Exact : NewBucketNamed(e, x)
    BY <1>10
  <2>2. prefix[run[e]] \o x \in Seq(Char)
    BY <1>1, <2>1, NameType DEF ExactOf
  <2>. QED BY <1>7, <2>1, <2>2 DEF NewBucketNamed, InBody
<1>11. CASE NewBucketFull(e)
  <2> DEFINE b == prefix[run[e]] \o Filling(prefix[run[e]])
  <2>1. CASE NewBucketNamed(e, Filling(prefix[run[e]]))
    <3>1. b \in Seq(Char)
      BY <1>1, NameType DEF ExactOf
    <3>2. /\ stage[e] = "body" /\ Create(e, b)
          /\ UNCHANGED <<run, prefix, rest, slug, token, n>>
      BY <2>1 DEF NewBucketNamed, InBody
    <3> HIDE DEF b
    <3>. QED BY <1>7, <3>1, <3>2
  <2>2. CASE ~NewBucketNamed(e, Filling(prefix[run[e]]))
    <3>1. /\ stage[e] = "body" /\ Leave(e)
          /\ UNCHANGED <<run, prefix, rest, slug, token, n, cleanups, buckets, known>>
      BY <1>11, <2>2 DEF NewBucketFull, InBody
    <3>2. NamingType'
      BY <1>1, <3>1 DEF Leave
    <3>3. StageInv'
      BY <1>1, <1>3, <3>1 DEF Leave, StageInv
    <3>. QED BY <3>2, <3>3
  <2>. QED BY <2>1, <2>2
<1>12. CASE EndBody(e)
  <2>1. NamingType'
    BY <1>1, <1>12 DEF EndBody, Leave
  <2>2. StageInv'
    BY <1>1, <1>3, <1>12 DEF EndBody, Leave, StageInv
  <2>. QED BY <2>1, <2>2
<1>13. CASE Nuke(e)
  <2>1. cleanups[e] \in Seq(Seq(Char)) /\ cleanups[e] # <<>>
    BY <1>1, <1>13 DEF Nuke
  <2>2. Last(cleanups[e]) \in Seq(Char) /\ Front(cleanups[e]) \in Seq(Seq(Char))
    BY <2>1 DEF Last, Front
  <2>3. /\ stage' = stage /\ cleanups' = [cleanups EXCEPT ![e] = Front(@)]
        /\ buckets' \subseteq buckets /\ known' \subseteq known \cup {Last(cleanups[e])}
        /\ UNCHANGED <<run, prefix, rest, slug, token, n>>
    BY <1>13 DEF Nuke
  <2>4. NamingType'
    BY <1>1, <2>2, <2>3
  <2>5. StageInv'
    BY <1>1, <1>3, <1>13, <2>3 DEF Nuke, StageInv
  <2>. QED BY <2>4, <2>5
<1>14. CASE End(e)
  <2>1. 0 \in 0..NBuckets
    BY NamingAssumption DEF NBuckets
  <2>2. NamingType'
    BY <1>1, <1>2, <1>14, <2>1 DEF End
  <2>3. Slugged(<<>>)
    BY NamingAssumption DEF Slugged
  <2>4. StageInv'
    BY <1>1, <1>3, <1>14, <2>3 DEF End, StageInv
  <2>. QED BY <2>2, <2>4
<1>. QED
  BY <1>4, <1>5, <1>6, <1>8, <1>9, <1>10, <1>11, <1>12, <1>13, <1>14 DEF Test

\* Before a run has begun the names are as they were at the start, and a step
\* of config.Load does not begin one.
LEMMA LoadStays ==
  ASSUME Load
  PROVE  pc \in {"parse", "build"} /\ pc' \in {"parse", "build", "loaded", "refused"}
BY DEF Load, SkipLine, Header, Assignment, BadLine, EndOfFile, Build, Reads

\* A test touches neither the configuration nor the prefixes, and runs only once
\* the runs have begun.
LEMMA TestStays ==
  ASSUME NEW e \in Env, Test(e), StageInv
  PROVE  pc = "running" /\ UNCHANGED <<configVars, run, prefix>>
<1>1. UNCHANGED <<configVars, run, prefix>>
  BY DEF Test, New, SlugRune, SlugEnd, NewBucket, Counts, NewBucketOfLength, NewBucketNamed, NewBucketFull,
         EndBody, Nuke, End
<1>2. pc = "running" \/ stage[e] # "idle"
  BY DEF Test, New, SlugRune, SlugEnd, NewBucket, Counts, NewBucketOfLength, NewBucketNamed, NewBucketFull,
         EndBody, Nuke, End, InBody
<1>. QED BY <1>1, <1>2 DEF StageInv

\* The inductive invariant: types, what is known of a test in its stage, and
\* the prefixes.
NamingInv == TypeOK /\ StageInv /\ PrefixInv

\* The invariant holds at the start.
LEMMA InitNaming ==
  ASSUME Init
  PROVE  NamingInv
<1>1. "DEFAULT" \in Section /\ Files \subseteq Seq(Line)
  BY ConfigAssumption
<1>2. NoValues \in [Section -> [Key -> Value \cup {Absent}]]
  BY DEF NoValues
<1>3. ConfigType
  BY <1>1, <1>2 DEF Init, ConfigInit, ConfigType
<1>4. 0 \in 0..NBuckets
  BY NamingAssumption DEF NBuckets
<1>5. NamingType
  BY <1>4 DEF Init, NamingType
<1>6. Slugged(<<>>)
  BY NamingAssumption DEF Slugged
<1>7. StageInv /\ PrefixInv
  BY <1>6 DEF Init, ConfigInit, StageInv, PrefixInv
<1>. QED BY <1>3, <1>5, <1>7 DEF NamingInv, TypeOK

\* Every step keeps it.
LEMMA StepNaming ==
  ASSUME NamingInv, [Next]_vars
  PROVE  NamingInv'
<1>1. TypeOK /\ ConfigType /\ NamingType /\ StageInv /\ PrefixInv
  BY DEF NamingInv, TypeOK
<1>2. CASE Load /\ UNCHANGED <<envVars, serverVars>>
  <2>1. ConfigType'
    BY <1>1, <1>2, LoadType
  <2>2. NamingType'
    BY <1>1, <1>2 DEF NamingType, envVars, serverVars
  <2>3. StageInv' /\ PrefixInv'
    BY <1>1, <1>2, LoadStays DEF StageInv, PrefixInv, envVars
  <2>. QED BY <2>1, <2>2, <2>3 DEF NamingInv, TypeOK
<1>3. CASE Begin
  <2>1. ConfigType' /\ NamingType'
    BY <1>1, <1>3, BeginType
  <2>2. StageInv'
    BY <1>1, <1>3 DEF Begin, StageInv
  <2>3. PrefixInv'
    <3>1. prefix' \in [Run -> BucketPrefix(cfg.template)] /\ cfg'.template = cfg.template
      BY <1>3 DEF Begin
    <3>2. BucketPrefix(cfg'.template) = BucketPrefix(cfg.template)
      BY <3>1
    <3>. QED BY <3>1, <3>2 DEF PrefixInv
  <2>. QED BY <2>1, <2>2, <2>3 DEF NamingInv, TypeOK
<1>4. CASE \E e \in Env : Test(e)
  <2>1. PICK e \in Env : Test(e)
    BY <1>4
  <2>2. NamingType' /\ StageInv'
    BY <1>1, <2>1, TestType
  <2>3. UNCHANGED <<configVars, run, prefix>>
    BY <1>1, <2>1, TestStays
  <2>4. ConfigType' /\ PrefixInv'
    BY <1>1, <2>3 DEF configVars, parseVars, ConfigType, PrefixInv
  <2>. QED BY <2>2, <2>4 DEF NamingInv, TypeOK
<1>5. CASE UNCHANGED vars
  <2>1. ConfigType' /\ PrefixInv'
    BY <1>1, <1>5 DEF vars, configVars, parseVars, envVars, ConfigType, PrefixInv
  <2>2. NamingType' /\ StageInv'
    BY <1>1, <1>5 DEF vars, configVars, envVars, serverVars, NamingType, StageInv
  <2>. QED BY <2>1, <2>2 DEF NamingInv, TypeOK
<1>. QED BY <1>2, <1>3, <1>4, <1>5 DEF Next

\* So it always holds.
THEOREM NamingInvariant == Spec => []NamingInv
<1>1. Init => NamingInv
  BY InitNaming
<1>2. NamingInv /\ [Next]_vars => NamingInv'
  BY StepNaming
<1>. QED BY <1>1, <1>2, PTL DEF Spec

\* The values have their types: in particular the configuration that is loaded
\* has a template that fits, whatever the file says (build), and the names and
\* slugs are made of characters that a bucket name may have (slug).
THEOREM TypeCorrect == Spec => []TypeOK
<1>1. NamingInv => TypeOK
  BY DEF NamingInv
<1>. QED BY <1>1, NamingInvariant, PTL

-----------------------------------------------------------------------------
(* The buckets.                                                            *)

\* The limits are numbers, and leave room for a name.
LEMMA Limits ==
  /\ MaxPrefixLen \in Nat /\ MaxSlugLen \in Nat /\ TokenLen \in Nat
  /\ MaxDigits \in Nat /\ NameLimit \in Nat
  /\ MaxPrefixLen + MaxSlugLen + TokenLen + MaxDigits + 2 <= NameLimit
<1>1. MaxPrefixLen \in Nat
  BY ConfigAssumption
<1>2. /\ MaxSlugLen \in Nat /\ TokenLen \in Nat /\ MaxDigits \in Nat /\ NameLimit \in Nat
      /\ MaxPrefixLen + MaxSlugLen + TokenLen + MaxDigits + 2 <= NameLimit
  BY NamingAssumption
<1>. QED BY <1>1, <1>2

\* Where the name of a bucket of test e comes from: its Prefix and a number,
\* filled up perhaps, or a name behind the prefix of its run, fixed or filled.
Origin(e, b) ==
  \/ \E d \in Seq(Alphabet) : b = Prefix(e) \o d
  \/ \E x \in ExactOf(prefix[run[e]]) : b = prefix[run[e]] \o x

\* The names test e may give a bucket.
NewName(e, b) == b \in Seq(Char) /\ Origin(e, b) /\ (OnePlaceholder => Len(b) <= NameLimit)

\* The prefix of a run is short enough.
LEMMA RunPrefix ==
  ASSUME NamingInv, pc = "running", NEW e \in Env
  PROVE  /\ prefix[run[e]] \in Seq(Char) /\ Len(prefix[run[e]]) = PrefixLen(cfg.template)
         /\ OnePlaceholder => Len(prefix[run[e]]) <= MaxPrefixLen
<1>1. cfg.template \in Value /\ Fixed[cfg.template] <= MaxPrefixLen
  BY DEF NamingInv, TypeOK, ConfigType
<1>2. prefix[run[e]] \in BucketPrefix(cfg.template)
  BY DEF NamingInv, TypeOK, NamingType, PrefixInv
<1>. QED BY <1>1, <1>2, PrefixLength DEF OnePlaceholder

\* The parts of a name, and how long they are.
LEMMA NameParts ==
  ASSUME NamingInv, pc = "running", NEW e \in Env, stage[e] \in {"body", "cleanup"}
  PROVE  /\ slug[e] \in Seq(Char) /\ token[e] \in Seq(Alphabet) /\ token[e] \in Seq(Char)
         /\ Len(slug[e]) <= MaxSlugLen /\ Len(token[e]) = TokenLen
         /\ Prefix(e) \in Seq(Char)
         /\ Len(Prefix(e)) = PrefixLen(cfg.template) + Len(slug[e]) + TokenLen + 2
<1>1. Seq(Alphabet) \subseteq Seq(Char) /\ <<"-">> \in Seq(Char) /\ Len(<<"-">>) = 1
  BY DEF Char
<1>2. slug[e] \in Seq(Char) /\ token[e] \in Seq(Alphabet) /\ token[e] \in Seq(Char)
  BY <1>1 DEF NamingInv, TypeOK, NamingType
<1>3. Len(slug[e]) <= MaxSlugLen /\ Len(token[e]) = TokenLen
  BY DEF NamingInv, StageInv, Slugged
<1>4. prefix[run[e]] \in Seq(Char) /\ Len(prefix[run[e]]) = PrefixLen(cfg.template)
  BY RunPrefix
<1>5. Prefix(e) \in Seq(Char)
  BY <1>1, <1>2, <1>4 DEF Prefix
<1>6. Len(Prefix(e)) = Len(prefix[run[e]]) + Len(slug[e]) + 1 + Len(token[e]) + 1
  <2> DEFINE p == prefix[run[e]]  s == slug[e]  t == token[e]
  <2>1. p \o s \in Seq(Char) /\ Len(p \o s) = Len(p) + Len(s)
    BY <1>2, <1>4, ConcatProperties
  <2>2. (p \o s) \o <<"-">> \in Seq(Char) /\ Len((p \o s) \o <<"-">>) = Len(p) + Len(s) + 1
    BY <1>1, <2>1
  <2>3. /\ ((p \o s) \o <<"-">>) \o t \in Seq(Char)
        /\ Len(((p \o s) \o <<"-">>) \o t) = Len(p) + Len(s) + 1 + Len(t)
    BY <1>2, <2>2
  <2>4. Len((((p \o s) \o <<"-">>) \o t) \o <<"-">>) = Len(p) + Len(s) + 1 + Len(t) + 1
    BY <1>1, <2>3
  <2>. QED BY <2>4 DEF Prefix
<1>. QED
  <2>1. Len(slug[e]) \in Nat /\ Len(token[e]) \in Nat /\ Len(prefix[run[e]]) \in Nat
    BY <1>2, <1>4
  <2>. QED BY <1>2, <1>3, <1>4, <1>5, <1>6, <2>1, NamingAssumption

\* What NewBucketName gives a test.
LEMMA CountedName ==
  ASSUME NamingInv, pc = "running", NEW e \in Env, stage[e] = "body", n[e] < NBuckets
  PROVE  NewName(e, NewBucketName(e))
<1> DEFINE d == Numeral[n[e] + 1]
<1>1. n[e] + 1 \in 1..NBuckets
  BY CountsOn DEF NamingInv, TypeOK
<1>2. d \in Seq(Alphabet) /\ Len(d) \in Nat /\ Len(d) <= MaxDigits
  BY <1>1, NamingAssumption DEF NBuckets
<1>3. Prefix(e) \in Seq(Char) /\ Len(Prefix(e)) \in Nat /\ NewBucketName(e) = Prefix(e) \o d
  BY NameParts DEF NewBucketName
<1>4. d \in Seq(Char)
  BY <1>2 DEF Char
<1>5. NewBucketName(e) \in Seq(Char) /\ Len(NewBucketName(e)) = Len(Prefix(e)) + Len(d)
  BY <1>3, <1>4
<1>6. Origin(e, NewBucketName(e))
  BY <1>2, <1>3 DEF Origin
<1>7. ASSUME OnePlaceholder PROVE Len(NewBucketName(e)) <= NameLimit
  <2>1. PrefixLen(cfg.template) \in Nat /\ PrefixLen(cfg.template) <= MaxPrefixLen
    BY <1>7, RunPrefix
  <2>2. Len(Prefix(e)) = PrefixLen(cfg.template) + Len(slug[e]) + TokenLen + 2
    BY NameParts
  <2>3. Len(slug[e]) \in Nat /\ Len(slug[e]) <= MaxSlugLen
    BY NameParts
  <2>4. Len(Prefix(e)) + Len(d) <= MaxPrefixLen + MaxSlugLen + TokenLen + MaxDigits + 2
    <3> HIDE DEF d
    <3>. QED BY <1>2, <2>1, <2>2, <2>3, Limits
  <2> HIDE DEF d
  <2>. QED BY <1>2, <1>3, <1>5, <2>4, Limits
<1>. QED BY <1>5, <1>6, <1>7 DEF NewName

\* What createNamingGoodLong makes of it.
LEMMA FilledName ==
  ASSUME NamingInv, pc = "running", NEW e \in Env, stage[e] = "body", n[e] < NBuckets,
         NEW len \in Lengths, ~(Len(NewBucketName(e)) >= len)
  PROVE  NewName(e, NewBucketName(e) \o [i \in 1..(len - Len(NewBucketName(e))) |-> "a"])
<1> DEFINE b == NewBucketName(e)
           fill == [i \in 1..(len - Len(b)) |-> "a"]
<1>1. b \in Seq(Char) /\ Len(b) \in Nat /\ len \in Nat /\ len <= NameLimit
  BY CountedName, NamingAssumption DEF NewName
<1>2. len - Len(b) \in Nat /\ "a" \in Alphabet
  BY <1>1, NamingAssumption
<1>3. fill \in Seq(Alphabet) /\ Len(fill) = len - Len(b)
  BY <1>2, IsASeq
<1>4. fill \in Seq(Char)
  BY <1>3 DEF Char
<1>5. b \o fill \in Seq(Char) /\ Len(b \o fill) = len
  BY <1>1, <1>2, <1>3, <1>4
<1>6. Origin(e, b \o fill)
  <2> DEFINE d == Numeral[n[e] + 1]
  <2>1. n[e] + 1 \in 1..NBuckets
    BY CountsOn DEF NamingInv, TypeOK
  <2>2. d \in Seq(Alphabet)
    BY <2>1, NamingAssumption DEF NBuckets
  <2>3. d \in Seq(Char) /\ Prefix(e) \in Seq(Char)
    BY <2>2, NameParts DEF Char
  <2>4. b = Prefix(e) \o d
    BY DEF NewBucketName
  <2>5. b \o fill = Prefix(e) \o (d \o fill)
    <3> HIDE DEF d, fill
    <3>1. (Prefix(e) \o d) \o fill = Prefix(e) \o (d \o fill)
      BY <1>4, <2>3, ConcatAssociative
    <3>. QED BY <2>4, <3>1
  <2>6. d \o fill \in Seq(Alphabet)
    BY <1>3, <2>2
  <2>. QED BY <2>5, <2>6 DEF Origin
<1>. QED BY <1>1, <1>5, <1>6 DEF NewName

\* An exact name.
LEMMA ExactName ==
  ASSUME NamingInv, pc = "running", NEW e \in Env, NEW x \in Exact
  PROVE  NewName(e, prefix[run[e]] \o x)
<1>1. prefix[run[e]] \in Seq(Char) /\ x \in Seq(Char) /\ MaxPrefixLen + Len(x) <= NameLimit
  BY RunPrefix, NamingAssumption
<1>2. /\ prefix[run[e]] \o x \in Seq(Char)
      /\ Len(prefix[run[e]] \o x) = Len(prefix[run[e]]) + Len(x)
  BY <1>1
<1>3. OnePlaceholder => Len(prefix[run[e]]) <= MaxPrefixLen
  BY RunPrefix
<1>4. OnePlaceholder => Len(prefix[run[e]] \o x) <= NameLimit
  <2>1. Len(prefix[run[e]]) \in Nat /\ Len(x) \in Nat
    BY <1>1
  <2>. QED BY <1>1, <1>2, <1>3, <2>1, Limits
<1>. QED BY <1>2, <1>4 DEF NewName, Origin, ExactOf

\* A name that is filled to the limit.
LEMMA FullName ==
  ASSUME NamingInv, pc = "running", NEW e \in Env, Len(prefix[run[e]]) < ShortPrefix
  PROVE  NewName(e, prefix[run[e]] \o Filling(prefix[run[e]]))
<1> DEFINE p == prefix[run[e]]  fill == Filling(p)
<1>1. p \in Seq(Char) /\ Len(p) \in Nat
  BY RunPrefix
<1>2. Len(p) <= NameLimit /\ NameLimit \in Nat
  BY <1>1, NamingAssumption
<1>3. fill \in Seq(Char) /\ Len(fill) = NameLimit - Len(p)
  BY <1>1, <1>2, FillingType
<1>4. Origin(e, p \o fill)
  BY DEF Origin, ExactOf
<1>5. p \o fill \in Seq(Char) /\ Len(p \o fill) = NameLimit
  <2> HIDE DEF p, fill
  <2>. QED BY <1>1, <1>2, <1>3
<1>. QED BY <1>2, <1>4, <1>5 DEF NewName

\* The two effects a test has on the server, and what it remembers of them.
Creates(e, b) ==
  /\ stage[e] = "body"
  /\ buckets' = buckets \cup {b}
  /\ \/ cleanups' = [cleanups EXCEPT ![e] = Append(@, b)] /\ known' = known
     \/ cleanups' = cleanups /\ known' = known \cup {b}

Removes(e) ==
  /\ cleanups[e] # <<>>
  /\ cleanups' = [cleanups EXCEPT ![e] = Front(@)]
  /\ \/ buckets' = buckets \ {Last(cleanups[e])} /\ known' = known
     \/ buckets' = buckets /\ known' = known \cup {Last(cleanups[e])}

\* There are no others, and what a name is made of stays as long as a test has
\* a bucket.
LEMMA TestEffect ==
  ASSUME NamingInv, NEW e \in Env, Test(e)
  PROVE  /\ \/ cleanups' = cleanups /\ UNCHANGED serverVars
            \/ \E b : NewName(e, b) /\ Creates(e, b) /\ UNCHANGED <<slug, token>>
            \/ Removes(e) /\ UNCHANGED <<slug, token>>
         /\ \A f \in Env : cleanups[f] # <<>> => slug'[f] = slug[f] /\ token'[f] = token[f]
<1>1. pc = "running" /\ NamingType /\ StageInv
  BY TestStays DEF NamingInv, TypeOK
<1>2. CASE New(e) \/ EndBody(e)
  BY <1>2 DEF New, EndBody
<1>3. CASE SlugRune(e) \/ SlugEnd(e) \/ End(e)
  <2>1. cleanups[e] = <<>> /\ cleanups' = cleanups /\ UNCHANGED serverVars
    BY <1>1, <1>3 DEF SlugRune, SlugEnd, End, StageInv
  <2>2. \A f \in Env \ {e} : slug'[f] = slug[f] /\ token'[f] = token[f]
    BY <1>1, <1>3 DEF SlugRune, SlugEnd, End, NamingType
  <2>. QED BY <2>1, <2>2
<1>4. ASSUME NEW b, Create(e, b), NewName(e, b), stage[e] = "body", UNCHANGED <<slug, token>>
      PROVE  (\E c : NewName(e, c) /\ Creates(e, c)) \/ (cleanups' = cleanups /\ UNCHANGED serverVars)
  <2>1. CASE UNCHANGED <<cleanups, buckets, known>>
    BY <2>1 DEF serverVars
  <2>2. CASE ~UNCHANGED <<cleanups, buckets, known>>
    BY <1>4, <2>2 DEF Create, Creates
  <2>. QED BY <2>1, <2>2
<1>5. CASE NewBucket(e)
  <2>1. Create(e, NewBucketName(e)) /\ stage[e] = "body" /\ n[e] < NBuckets /\ UNCHANGED <<slug, token>>
    BY <1>5 DEF NewBucket, InBody, Counts
  <2>2. NewName(e, NewBucketName(e))
    BY <1>1, <2>1, CountedName
  <2>. QED BY <1>4, <2>1, <2>2
<1>6. CASE \E len \in Lengths : NewBucketOfLength(e, len)
  <2>1. PICK len \in Lengths : NewBucketOfLength(e, len)
    BY <1>6
  <2>2. stage[e] = "body" /\ n[e] < NBuckets /\ UNCHANGED <<slug, token>>
    BY <2>1 DEF NewBucketOfLength, InBody, Counts
  <2>3. CASE Len(NewBucketName(e)) >= len
    <3>1. cleanups' = cleanups /\ UNCHANGED serverVars
      BY <2>1, <2>3 DEF NewBucketOfLength
    <3>. QED BY <2>2, <3>1
  <2>4. CASE ~(Len(NewBucketName(e)) >= len)
    <3> DEFINE b == NewBucketName(e) \o [i \in 1..(len - Len(NewBucketName(e))) |-> "a"]
    <3>1. Create(e, b)
      BY <2>1, <2>4 DEF NewBucketOfLength
    <3>2. NewName(e, b)
      BY <1>1, <2>2, <2>4, FilledName
    <3> HIDE DEF b
    <3>. QED BY <1>4, <2>2, <3>1, <3>2
  <2>. QED BY <2>3, <2>4
<1>7. CASE \E x \in Exact : NewBucketNamed(e, x)
  <2>1. PICK x \in Exact : NewBucketNamed(e, x)
    BY <1>7
  <2>2. Create(e, prefix[run[e]] \o x) /\ stage[e] = "body" /\ UNCHANGED <<slug, token>>
    BY <2>1 DEF NewBucketNamed, InBody
  <2>3. NewName(e, prefix[run[e]] \o x)
    BY <1>1, ExactName
  <2>. QED BY <1>4, <2>2, <2>3
<1>8. CASE NewBucketFull(e)
  <2> DEFINE b == prefix[run[e]] \o Filling(prefix[run[e]])
  <2>1. UNCHANGED <<slug, token>> /\ stage[e] = "body"
    BY <1>8 DEF NewBucketFull, NewBucketNamed, InBody
  <2>2. CASE Len(prefix[run[e]]) < ShortPrefix /\ Create(e, b)
    <3>1. NewName(e, b)
      BY <1>1, <2>2, FullName
    <3> HIDE DEF b
    <3>. QED BY <1>4, <2>1, <2>2, <3>1
  <2>3. CASE cleanups' = cleanups /\ UNCHANGED serverVars
    BY <2>1, <2>3
  <2>. QED BY <1>8, <2>2, <2>3 DEF NewBucketFull, NewBucketNamed
<1>9. CASE Nuke(e)
  BY <1>9 DEF Nuke, Removes
<1>. QED BY <1>2, <1>3, <1>5, <1>6, <1>7, <1>8, <1>9 DEF Test

\* The last of a sequence, the others, and what a new one adds.
LEMMA LastOfNames ==
  ASSUME NEW s \in Seq(Seq(Char)), NEW b \in Seq(Char)
  PROVE  /\ Len(Append(s, b)) = Len(s) + 1
         /\ \A i \in 1..Len(s) : Append(s, b)[i] = s[i]
         /\ Append(s, b)[Len(s) + 1] = b
         /\ s # <<>> => /\ Len(Front(s)) = Len(s) - 1 /\ Len(s) \in 1..Len(s)
                        /\ \A i \in 1..(Len(s) - 1) : Front(s)[i] = s[i]
                        /\ Last(s) = s[Len(s)]
<1>1. Len(s) \in Nat
  OBVIOUS
<1>2. /\ Len(Append(s, b)) = Len(s) + 1
      /\ \A i \in 1..Len(s) : Append(s, b)[i] = s[i]
      /\ Append(s, b)[Len(s) + 1] = b
  BY <1>1, AppendProperties
<1>3. ASSUME s # <<>>
      PROVE  /\ Len(Front(s)) = Len(s) - 1 /\ Len(s) \in 1..Len(s)
             /\ \A i \in 1..(Len(s) - 1) : Front(s)[i] = s[i]
             /\ Last(s) = s[Len(s)]
  <2>1. Len(s) \in 1..Len(s)
    BY <1>3
  <2>2. Front(s) = SubSeq(s, 1, Len(s) - 1) /\ Last(s) = s[Len(s)]
    BY DEF Front, Last
  <2> DEFINE t == SubSeq(s, 1, Len(s) - 1)
  <2>3. /\ Len(t) = IF 1 <= Len(s) - 1 THEN (Len(s) - 1) - 1 + 1 ELSE 0
        /\ \A i \in 1..(Len(s) - 1) : t[i] = s[1 + i - 1]
    <3>1. 1 \in Int /\ Len(s) - 1 \in Int
      BY <1>1
    <3>2. \A i \in 1..(Len(s) - 1) : s[i] \in Seq(Char)
      BY <1>1
    <3>3. (Len(s) - 1) - 1 + 1 = Len(s) - 1
      BY <1>1
    <3>. QED BY <3>1, <3>2, <3>3, SubSeqProperties
  <2> HIDE DEF t
  <2>4. Len(t) = Len(s) - 1
    <3> DEFINE k == Len(s)
    <3>1. k \in Nat /\ k >= 1 /\ Len(t) = IF 1 <= k - 1 THEN k - 1 - 1 + 1 ELSE 0
      BY <1>1, <2>1, <2>3
    <3> HIDE DEF k
    <3>2. Len(t) = k - 1
      BY <3>1
    <3>. QED BY <3>2 DEF k
  <2>5. ASSUME NEW i \in 1..(Len(s) - 1) PROVE t[i] = s[i]
    <3>1. i \in Int /\ 1 + i - 1 = i
      BY <1>1
    <3>2. t[i] = s[1 + i - 1]
      BY <2>3
    <3>. QED BY <3>1, <3>2
  <2>. QED BY <2>1, <2>2, <2>4, <2>5 DEF t
<1>. QED BY <1>2, <1>3

\* What the two effects do to the names that will be removed.
LEMMA NamesChange ==
  ASSUME NamingInv, NEW e \in Env
  PROVE  /\ \A b \in Seq(Char) : cleanups' = [cleanups EXCEPT ![e] = Append(@, b)] =>
              /\ Names(e)' = Names(e) \cup {b}
              /\ \A f \in Env \ {e} : Names(f)' = Names(f)
         /\ Removes(e) =>
              /\ Names(e) = Names(e)' \cup {Last(cleanups[e])}
              /\ \A f \in Env \ {e} : Names(f)' = Names(f)
<1>1. cleanups \in [Env -> Seq(Seq(Char))]
  BY DEF NamingInv, TypeOK, NamingType
<1>2. cleanups[e] \in Seq(Seq(Char)) /\ Len(cleanups[e]) \in Nat
  BY <1>1
<1>3. ASSUME NEW b \in Seq(Char), cleanups' = [cleanups EXCEPT ![e] = Append(@, b)]
      PROVE  /\ Names(e)' = Names(e) \cup {b}
             /\ \A f \in Env \ {e} : Names(f)' = Names(f)
  <2>1. cleanups'[e] = Append(cleanups[e], b) /\ \A f \in Env \ {e} : cleanups'[f] = cleanups[f]
    BY <1>1, <1>3
  <2>2. Names(e)' = Names(e) \cup {b}
    BY <1>2, <2>1, LastOfNames DEF Names
  <2>. QED BY <2>1, <2>2 DEF Names
<1>4. ASSUME Removes(e)
      PROVE  /\ Names(e) = Names(e)' \cup {Last(cleanups[e])}
             /\ \A f \in Env \ {e} : Names(f)' = Names(f)
  <2>1. /\ cleanups'[e] = Front(cleanups[e]) /\ cleanups[e] # <<>>
        /\ \A f \in Env \ {e} : cleanups'[f] = cleanups[f]
    BY <1>1, <1>4 DEF Removes
  <2>2. Names(e) = Names(e)' \cup {Last(cleanups[e])}
    <3> DEFINE s == cleanups[e]
    <3>1. /\ Len(Front(s)) = Len(s) - 1 /\ Len(s) \in 1..Len(s)
          /\ \A i \in 1..(Len(s) - 1) : Front(s)[i] = s[i]
          /\ Last(s) = s[Len(s)]
      BY <1>2, <2>1, LastOfNames
    <3>2. Names(e)' = {s[i] : i \in 1..(Len(s) - 1)}
      BY <2>1, <3>1 DEF Names
    <3> HIDE DEF s
    <3>3. Names(e) = {s[i] : i \in 1..Len(s)}
      BY DEF s, Names
    <3>4. 1..Len(s) = (1..(Len(s) - 1)) \cup {Len(s)}
      BY <3>1
    <3>5. {s[i] : i \in 1..Len(s)} = {s[i] : i \in 1..(Len(s) - 1)} \cup {s[Len(s)]}
      BY <3>4
    <3>. QED BY <3>1, <3>2, <3>3, <3>5 DEF s
  <2>. QED BY <2>1, <2>2 DEF Names
<1>. QED BY <1>3, <1>4

\* Every step of the system, as far as the server and the names are concerned.
LEMMA StepEffect ==
  ASSUME NamingInv, [Next]_vars
  PROVE  \/ UNCHANGED <<cleanups, buckets, known>>
         \/ \E e \in Env : \E b : NewName(e, b) /\ Creates(e, b)
         \/ \E e \in Env : Removes(e)
<1>1. CASE Load /\ UNCHANGED <<envVars, serverVars>>
  BY <1>1 DEF envVars, serverVars
<1>2. CASE Begin
  BY <1>2 DEF Begin, serverVars
<1>3. CASE \E e \in Env : Test(e)
  <2>1. PICK e \in Env : Test(e)
    BY <1>3
  <2>. QED BY <2>1, TestEffect DEF serverVars
<1>4. CASE UNCHANGED vars
  BY <1>4 DEF vars, envVars, serverVars
<1>. QED BY <1>1, <1>2, <1>3, <1>4 DEF Next

\* A test or a report knows of bucket b.
Explained(b) == b \in known \/ \E f \in Env : b \in Names(f)

\* What is on the server is known to a test or to its report: a step that makes
\* a bucket registers it or fails, and a step that forgets one has removed it or
\* logs that it could not (createBucket, nuke).
THEOREM NothingElseLeaks == Spec => []LeftoversAreExplained
<1> DEFINE L == \A b \in buckets : Explained(b)
<1>1. Init => L
  BY DEF Init
<1>2. ASSUME NamingInv, L, [Next]_vars PROVE L'
  <2>1. CASE UNCHANGED <<cleanups, buckets, known>>
    BY <1>2, <2>1 DEF Explained, Names
  <2>2. ASSUME NEW e \in Env, NEW b, NewName(e, b), Creates(e, b) PROVE L'
    <3>1. b \in Seq(Char) /\ buckets' = buckets \cup {b}
      BY <2>2 DEF NewName, Creates
    <3>2. CASE cleanups' = [cleanups EXCEPT ![e] = Append(@, b)] /\ known' = known
      <4>1. Names(e)' = Names(e) \cup {b} /\ \A f \in Env \ {e} : Names(f)' = Names(f)
        BY <1>2, <3>1, <3>2, NamesChange
      <4>2. \A f \in Env : Names(f) \subseteq Names(f)'
        BY <4>1
      <4>3. ASSUME NEW c \in buckets' PROVE Explained(c)'
        BY <1>2, <3>1, <3>2, <4>1, <4>2, <4>3 DEF Explained
      <4>. QED BY <4>3
    <3>3. CASE cleanups' = cleanups /\ known' = known \cup {b}
      BY <1>2, <3>1, <3>3 DEF Explained, Names
    <3>. QED BY <2>2, <3>2, <3>3 DEF Creates
  <2>3. ASSUME NEW e \in Env, Removes(e) PROVE L'
    <3>1. Names(e) = Names(e)' \cup {Last(cleanups[e])} /\ \A f \in Env \ {e} : Names(f)' = Names(f)
      BY <1>2, <2>3, NamesChange
    <3>2. ASSUME NEW c \in buckets' PROVE Explained(c)'
      <4>1. c \in buckets /\ known \subseteq known'
        BY <2>3, <3>2 DEF Removes
      <4>2. c = Last(cleanups[e]) => c \in known'
        BY <2>3, <3>2 DEF Removes
      <4>3. c # Last(cleanups[e]) => \A f \in Env : c \in Names(f) => c \in Names(f)'
        BY <3>1
      <4>. QED BY <1>2, <4>1, <4>2, <4>3 DEF Explained
    <3>. QED BY <3>2
  <2>. QED BY <1>2, <2>1, <2>2, <2>3, StepEffect
<1>3. L => LeftoversAreExplained
  BY DEF LeftoversAreExplained, Explained
<1> HIDE DEF L
<1>4. NamingInv /\ L /\ [Next]_vars => L'
  BY <1>2
<1>5. Spec => []L
  BY <1>1, <1>4, NamingInvariant, PTL DEF Spec
<1>. QED BY <1>3, <1>5, PTL

\* There are no buckets before the runs have begun.
Short ==
  /\ pc # "running" => buckets = {}
  /\ (pc = "running" /\ OnePlaceholder) => \A b \in buckets : Len(b) <= NameLimit

\* The parts of a name add up to no more than S3 allows, for every template
\* with at most one placeholder, name of a test and counter, and a slug is
\* trimmed and has no two dashes in a row (BucketPrefix, New, slug).
THEOREM LegalNames == Spec => []NamesAreLegal
<1>1. Init => Short
  BY DEF Init, ConfigInit, Short
<1>2. ASSUME NamingInv, Short, [Next]_vars PROVE Short'
  <2>1. CASE Load /\ UNCHANGED <<envVars, serverVars>>
    BY <1>2, <2>1, LoadStays DEF serverVars, Short
  <2>2. CASE Begin
    BY <1>2, <2>2 DEF Begin, serverVars, Short
  <2>3. CASE \E e \in Env : Test(e)
    <3>1. PICK e \in Env : Test(e)
      BY <2>3
    <3>2. pc = "running" /\ pc' = "running" /\ cfg' = cfg
      BY <1>2, <3>1, TestStays DEF NamingInv, configVars
    <3>3. \/ buckets' \subseteq buckets
          \/ \E b : NewName(e, b) /\ buckets' = buckets \cup {b}
      BY <1>2, <3>1, TestEffect DEF serverVars, Creates, Removes
    <3>. QED BY <1>2, <3>2, <3>3 DEF Short, NewName, OnePlaceholder
  <2>4. CASE UNCHANGED vars
    BY <1>2, <2>4 DEF vars, configVars, serverVars, Short, OnePlaceholder
  <2>. QED BY <1>2, <2>1, <2>2, <2>3, <2>4 DEF Next
<1>3. NamingInv /\ [Next]_vars /\ Short => Short'
  BY <1>2
<1>4. NamingInv /\ Short => NamesAreLegal
  BY DEF NamingInv, StageInv, Slugged, Short, NamesAreLegal
<1>. QED BY <1>1, <1>3, <1>4, NamingInvariant, PTL DEF Spec

-----------------------------------------------------------------------------
(* Whose name is it.                                                       *)

\* Equal sequences have equal parts, where the first parts are as long.
LEMMA EqualParts ==
  ASSUME NEW a \in Seq(Char), NEW b \in Seq(Char), NEW c \in Seq(Char), NEW d \in Seq(Char),
         a \o b = c \o d, Len(a) = Len(c)
  PROVE  a = c /\ b = d
<1>1. Len(a) \in Nat /\ Len(b) \in Nat /\ Len(c) \in Nat /\ Len(d) \in Nat
  OBVIOUS
<1>2. Len(b) = Len(d)
  <2>1. Len(a \o b) = Len(a) + Len(b)
    BY ConcatProperties
  <2>2. Len(c \o d) = Len(c) + Len(d)
    BY ConcatProperties
  <2>3. Len(a) + Len(b) = Len(a) + Len(d)
    BY <2>1, <2>2
  <2>. QED BY <1>1, <2>3
<1>3. ASSUME NEW i \in 1..Len(a) PROVE a[i] = c[i]
  <2>1. (a \o b)[i] = a[i] /\ (c \o d)[i] = c[i]
    BY <1>1
  <2>. QED BY <2>1
<1>4. a = c
  BY <1>3, SeqEqual
<1>5. b = d
  BY <1>4, ConcatSimplifications
<1>. QED BY <1>4, <1>5

\* A name is split at its last dash, since there is none behind it.
LEMMA LastDash ==
  ASSUME NEW a \in Seq(Char), NEW b \in Seq(Char), NEW c \in Seq(Alphabet), NEW d \in Seq(Alphabet),
         (a \o <<"-">>) \o c = (b \o <<"-">>) \o d
  PROVE  a = b
<1> DEFINE x == a \o <<"-">>  y == b \o <<"-">>
<1>1. c \in Seq(Char) /\ d \in Seq(Char) /\ <<"-">> \in Seq(Char) /\ Len(<<"-">>) = 1
  BY DEF Char
<1>2. /\ x \in Seq(Char) /\ Len(x) = Len(a) + 1 /\ x[Len(x)] = "-"
      /\ y \in Seq(Char) /\ Len(y) = Len(b) + 1 /\ y[Len(y)] = "-"
  BY <1>1
<1>3. x \o c = y \o d
  OBVIOUS
<1>4. \A i \in 1..Len(c) : c[i] # "-"
  BY NamingAssumption
<1>5. \A i \in 1..Len(d) : d[i] # "-"
  BY NamingAssumption
<1>6. Len(a) \in Nat /\ Len(b) \in Nat /\ Len(c) \in Nat /\ Len(d) \in Nat
  OBVIOUS
<1> HIDE DEF x, y
<1>7. Len(x) + Len(c) = Len(y) + Len(d)
  BY <1>1, <1>2, <1>3, ConcatProperties
<1>8. ASSUME Len(x) < Len(y) PROVE FALSE
  <2>1. (x \o c)[Len(y)] = c[Len(y) - Len(x)]
    BY <1>1, <1>2, <1>6, <1>7, <1>8
  <2>2. (y \o d)[Len(y)] = "-"
    BY <1>1, <1>2, <1>6
  <2>3. Len(y) - Len(x) \in 1..Len(c)
    BY <1>2, <1>6, <1>7, <1>8
  <2>. QED BY <1>3, <1>4, <2>1, <2>2, <2>3
<1>9. ASSUME Len(y) < Len(x) PROVE FALSE
  <2>1. (y \o d)[Len(x)] = d[Len(x) - Len(y)]
    BY <1>1, <1>2, <1>6, <1>7, <1>9
  <2>2. (x \o c)[Len(x)] = "-"
    BY <1>1, <1>2, <1>6
  <2>3. Len(x) - Len(y) \in 1..Len(d)
    BY <1>2, <1>6, <1>7, <1>9
  <2>. QED BY <1>3, <1>5, <2>1, <2>2, <2>3
<1>10. Len(x) = Len(y)
  BY <1>2, <1>6, <1>8, <1>9
<1>11. x = y
  BY <1>1, <1>2, <1>3, <1>10, EqualParts
<1>. QED BY <1>1, <1>2, <1>6, <1>11, EqualParts DEF x, y

\* Concatenation is associative.
LEMMA Regroup ==
  ASSUME NEW a \in Seq(Char), NEW b \in Seq(Char), NEW c \in Seq(Char)
  PROVE  b \o c \in Seq(Char) /\ (a \o b) \o c = a \o (b \o c)
<1>1. b \o c \in Seq(Char)
  OBVIOUS
<1>2. (a \o b) \o c = a \o (b \o c)
  BY ConcatAssociative
<1>. QED BY <1>1, <1>2

\* A sequence that begins with another still does when more is joined to it.
Begins(a, p) == a \in Seq(Char) /\ \E r \in Seq(Char) : a = p \o r

LEMMA BeginsStill ==
  ASSUME NEW p \in Seq(Char), NEW a, NEW c \in Seq(Char), Begins(a, p)
  PROVE  Begins(a \o c, p)
<1>1. PICK r \in Seq(Char) : a = p \o r
  BY DEF Begins
<1>2. r \o c \in Seq(Char) /\ (p \o r) \o c = p \o (r \o c)
  BY Regroup
<1>3. a \o c \in Seq(Char)
  BY DEF Begins
<1>. QED BY <1>1, <1>2, <1>3 DEF Begins

\* A name begins with the prefix of its run.
LEMMA Behind ==
  ASSUME NamingInv, pc = "running", NEW e \in Env, stage[e] \in {"body", "cleanup"},
         NEW b, Origin(e, b)
  PROVE  \E r \in Seq(Char) : b = prefix[run[e]] \o r
<1> DEFINE p == prefix[run[e]]  s == slug[e]  t == token[e]  dash == <<"-">>
<1>1. p \in Seq(Char) /\ s \in Seq(Char) /\ t \in Seq(Char) /\ dash \in Seq(Char)
  BY RunPrefix, NameParts DEF Char
<1>2. CASE \E x \in ExactOf(p) : b = p \o x
  BY <1>1, <1>2, FillingType, NamingAssumption DEF ExactOf
<1>3. CASE \E d \in Seq(Alphabet) : b = Prefix(e) \o d
  <2>1. PICK d \in Seq(Alphabet) : b = Prefix(e) \o d
    BY <1>3
  <2>2. d \in Seq(Char)
    BY DEF Char
  <2>3. b = ((((p \o s) \o dash) \o t) \o dash) \o d
    BY <2>1 DEF Prefix
  <2> HIDE DEF p, s, t, dash
  <2>4. Begins(p \o s, p)
    BY <1>1 DEF Begins
  <2>5. Begins((p \o s) \o dash, p)
    BY <1>1, <2>4, BeginsStill
  <2>6. Begins(((p \o s) \o dash) \o t, p)
    BY <1>1, <2>5, BeginsStill
  <2>7. Begins((((p \o s) \o dash) \o t) \o dash, p)
    BY <1>1, <2>6, BeginsStill
  <2>8. Begins(b, p)
    BY <1>1, <2>2, <2>3, <2>7, BeginsStill
  <2>. QED BY <2>8 DEF Begins, p
<1>. QED BY <1>2, <1>3 DEF Origin

\* Two tests that have a bucket of one name are told apart by nothing.
LEMMA Collision ==
  ASSUME NamingInv, pc = "running", NEW e \in Env, NEW f \in Env, NEW b,
         stage[e] \in {"body", "cleanup"}, stage[f] \in {"body", "cleanup"},
         Origin(e, b), Origin(f, b)
  PROVE  MayCollide(e, f, b)
<1>1. prefix[run[e]] = prefix[run[f]]
  <2>1. PICK r \in Seq(Char) : b = prefix[run[e]] \o r
    BY Behind
  <2>2. PICK q \in Seq(Char) : b = prefix[run[f]] \o q
    BY Behind
  <2>. QED BY <2>1, <2>2, RunPrefix, EqualParts
<1>2. CASE \E x \in ExactOf(prefix[run[e]]) : b = prefix[run[e]] \o x
  BY <1>1, <1>2 DEF MayCollide
<1>3. CASE \E x \in ExactOf(prefix[run[f]]) : b = prefix[run[f]] \o x
  BY <1>1, <1>3 DEF MayCollide
<1>4. CASE (\E d \in Seq(Alphabet) : b = Prefix(e) \o d) /\ (\E d \in Seq(Alphabet) : b = Prefix(f) \o d)
  <2>1. PICK c \in Seq(Alphabet) : b = Prefix(e) \o c
    BY <1>4
  <2>2. PICK d \in Seq(Alphabet) : b = Prefix(f) \o d
    BY <1>4
  <2> DEFINE p == prefix[run[e]]  dash == <<"-">>
             s == slug[e]  t == token[e]  u == slug[f]  v == token[f]
             x == (p \o s) \o dash  y == (p \o u) \o dash
  <2>3. /\ p \in Seq(Char) /\ dash \in Seq(Char)
        /\ s \in Seq(Char) /\ t \in Seq(Char) /\ u \in Seq(Char) /\ v \in Seq(Char)
        /\ Len(t) = Len(v)
    <3>1. p \in Seq(Char) /\ dash \in Seq(Char)
      BY RunPrefix DEF Char
    <3>2. s \in Seq(Char) /\ t \in Seq(Char) /\ Len(t) = TokenLen
      BY NameParts
    <3>3. u \in Seq(Char) /\ v \in Seq(Char) /\ Len(v) = TokenLen
      BY NameParts
    <3>. QED BY <3>1, <3>2, <3>3
  <2>4. ((x \o t) \o dash) \o c = ((y \o v) \o dash) \o d
    BY <1>1, <2>1, <2>2 DEF Prefix
  <2>5. x \in Seq(Char) /\ y \in Seq(Char) /\ x \o t \in Seq(Char) /\ y \o v \in Seq(Char)
    BY <2>3, ConcatProperties
  <2>6. x \o t = y \o v
    <3> HIDE DEF x, y, t, v
    <3>. QED BY <2>4, <2>5, LastDash
  <2>7. Len(x) = Len(y)
    <3> HIDE DEF x, y, t, v
    <3>1. Len(x \o t) = Len(x) + Len(t) /\ Len(y \o v) = Len(y) + Len(v)
      BY <2>3, <2>5, ConcatProperties
    <3>2. Len(x) \in Nat /\ Len(y) \in Nat /\ Len(t) \in Nat
      BY <2>3, <2>5
    <3>. QED BY <2>3, <2>6, <3>1, <3>2
  <2>8. x = y /\ t = v
    <3> HIDE DEF x, y, t, v
    <3>. QED BY <2>3, <2>5, <2>6, <2>7, EqualParts
  <2>9. p \o s = p \o u
    <3> HIDE DEF p, s, u, dash
    <3>. QED BY <2>3, <2>8, ConcatSimplifications, ConcatProperties
  <2>10. s = u
    <3> HIDE DEF p, s, u
    <3>. QED BY <2>3, <2>9, ConcatSimplifications
  <2>. QED BY <1>1, <2>8, <2>10 DEF MayCollide
<1>. QED BY <1>2, <1>3, <1>4 DEF Origin

\* What a test will remove has a name of its own making.
OriginInv == \A e \in Env : \A b \in Names(e) : Origin(e, b)

\* A test with no buckets has none of another's name.
LEMMA InitOrigin ==
  ASSUME Init
  PROVE  OriginInv
BY DEF Init, OriginInv, Names

\* A bucket keeps its origin as long as a test has it: the parts of the name do
\* not change.
LEMMA StepOrigin ==
  ASSUME NamingInv, OriginInv, [Next]_vars
  PROVE  OriginInv'
<1>1. ASSUME NEW f \in Env, NEW b, Origin(f, b), UNCHANGED <<run, prefix>>,
             slug'[f] = slug[f], token'[f] = token[f]
      PROVE  Origin(f, b)'
  BY <1>1 DEF Origin, Prefix
<1>2. CASE UNCHANGED envVars
  <2>1. UNCHANGED <<run, prefix, slug, token, cleanups>>
    BY <1>2 DEF envVars
  <2>2. \A f \in Env : Names(f)' = Names(f)
    BY <2>1 DEF Names
  <2>3. ASSUME NEW f \in Env, NEW b \in Names(f) PROVE Origin(f, b)'
    <3>1. Origin(f, b)
      BY <2>3 DEF OriginInv
    <3>. QED BY <1>1, <2>1, <3>1
  <2>. QED BY <2>2, <2>3 DEF OriginInv
<1>3. CASE Begin
  <2>1. \A f \in Env : cleanups[f] = <<>> /\ cleanups' = cleanups
    BY <1>3 DEF Begin, NamingInv, StageInv
  <2>. QED BY <2>1 DEF OriginInv, Names
<1>4. CASE \E e \in Env : Test(e)
  <2>1. PICK e \in Env : Test(e)
    BY <1>4
  <2>2. /\ UNCHANGED <<run, prefix>>
        /\ \A f \in Env : cleanups[f] # <<>> => slug'[f] = slug[f] /\ token'[f] = token[f]
    BY <2>1, TestStays, TestEffect DEF NamingInv
  <2>3. ASSUME NEW f \in Env, NEW b \in Names(f) PROVE Origin(f, b)'
    <3>1. cleanups[f] # <<>>
      BY <2>3 DEF Names
    <3>2. Origin(f, b)
      BY <2>3 DEF OriginInv
    <3>. QED BY <1>1, <2>2, <3>1, <3>2
  <2>4. CASE cleanups' = cleanups
    <3>1. \A f \in Env : Names(f)' = Names(f)
      BY <2>4 DEF Names
    <3>. QED BY <2>3, <3>1 DEF OriginInv
  <2>5. ASSUME NEW b, NewName(e, b), Creates(e, b), UNCHANGED <<slug, token>>, cleanups' # cleanups
        PROVE  OriginInv'
    <3>1. b \in Seq(Char) /\ cleanups' = [cleanups EXCEPT ![e] = Append(@, b)] /\ Origin(e, b)
      BY <2>5 DEF NewName, Creates
    <3>2. Names(e)' = Names(e) \cup {b} /\ \A f \in Env \ {e} : Names(f)' = Names(f)
      BY <3>1, NamesChange
    <3>3. Origin(e, b)'
      BY <1>1, <2>2, <2>5, <3>1
    <3>4. ASSUME NEW f \in Env, NEW c \in Names(f)' PROVE Origin(f, c)'
      BY <2>3, <3>2, <3>3, <3>4
    <3>. QED BY <3>4 DEF OriginInv
  <2>6. CASE Removes(e)
    <3>1. Names(e) = Names(e)' \cup {Last(cleanups[e])} /\ \A f \in Env \ {e} : Names(f)' = Names(f)
      BY <2>6, NamesChange
    <3>2. \A f \in Env : Names(f)' \subseteq Names(f)
      BY <3>1
    <3>. QED BY <2>3, <3>2 DEF OriginInv
  <2>. QED BY <2>1, <2>4, <2>5, <2>6, TestEffect
<1>. QED BY <1>2, <1>3, <1>4 DEF Next, vars

\* CleanupIsScoped, as an action.
Scoped ==
  \A e \in Env : \A b \in Names(e) :
    (b \in buckets /\ b \notin buckets' /\ cleanups'[e] = cleanups[e])
      => \E f \in Env \ {e} : MayCollide(e, f, b)

\* A step removes a bucket only if it has the name of one that the test it is a
\* step of created, and who else has one of that name is told apart from it by
\* nothing: a name is split at its last dash into what New made and a number,
\* and what New made has parts of known lengths (New, nuke).
THEOREM ScopedCleanup == Spec => CleanupIsScoped
<1>1. ASSUME NamingInv, OriginInv, [Next]_vars PROVE Scoped
  <2>1. SUFFICES ASSUME NEW e \in Env, NEW b \in Names(e),
                        b \in buckets, b \notin buckets', cleanups'[e] = cleanups[e]
                 PROVE  \E f \in Env \ {e} : MayCollide(e, f, b)
    BY DEF Scoped
  <2>2. PICK f \in Env : Removes(f)
    BY <1>1, <2>1, StepEffect DEF Creates
  <2>3. b = Last(cleanups[f]) /\ cleanups[f] # <<>>
    BY <2>1, <2>2 DEF Removes
  <2>4. b \in Names(f)
    BY <1>1, <2>2, <2>3, NamesChange
  <2>5. f # e
    <3>1. SUFFICES ASSUME f = e PROVE FALSE
      OBVIOUS
    <3>2. cleanups \in [Env -> Seq(Seq(Char))]
      BY <1>1 DEF NamingInv, TypeOK, NamingType
    <3>3. cleanups[e] \in Seq(Seq(Char)) /\ cleanups'[e] = Front(cleanups[e])
      BY <2>2, <3>1, <3>2 DEF Removes
    <3>4. Len(Front(cleanups[e])) = Len(cleanups[e]) - 1 /\ Len(cleanups[e]) \in Nat
      <4>1. <<>> \in Seq(Char)
        OBVIOUS
      <4>. QED BY <2>3, <3>1, <3>3, <4>1, LastOfNames
    <3>5. Front(cleanups[e]) = cleanups[e]
      BY <2>1, <3>3
    <3>6. Len(cleanups[e]) = Len(cleanups[e]) - 1 /\ Len(cleanups[e]) \in Nat
      BY <3>4, <3>5
    <3> DEFINE k == Len(cleanups[e])
    <3> HIDE DEF k
    <3>7. k \in Nat /\ k = k - 1
      BY <3>6 DEF k
    <3>. QED BY <3>7
  <2>6. /\ pc = "running" /\ Origin(e, b) /\ Origin(f, b)
        /\ stage[e] \in {"body", "cleanup"} /\ stage[f] \in {"body", "cleanup"}
    <3>1. cleanups[e] # <<>> /\ cleanups[f] # <<>>
      BY <2>1, <2>3 DEF Names
    <3>. QED BY <1>1, <2>1, <2>4, <3>1 DEF OriginInv, NamingInv, StageInv
  <2>7. MayCollide(e, f, b)
    BY <1>1, <2>6, Collision
  <2>. QED BY <2>5, <2>7
<1>2. NamingInv /\ OriginInv /\ [Next]_vars => OriginInv'
  BY StepOrigin
<1>3. Init => OriginInv
  BY InitOrigin
<1>4. Spec => []OriginInv
  BY <1>2, <1>3, NamingInvariant, PTL DEF Spec
<1>5. NamingInv /\ OriginInv /\ [Next]_vars => [Scoped]_vars
  BY <1>1
<1>6. Spec => [][Scoped]_vars
  BY <1>4, <1>5, NamingInvariant, PTL DEF Spec
<1>. QED BY <1>6 DEF CleanupIsScoped, Scoped

-----------------------------------------------------------------------------
(* The file.                                                               *)

\* One section is in force, the lines have been read up to at, and a section
\* is there if it was opened.
ForceInv ==
  /\ pc \in {"parse", "build", "loaded"} => at <= Len(file) + 1
  /\ pc = "parse" => IsInForce(section, at)
  /\ pc \in {"parse", "build"} => \A s \in present \ {"DEFAULT"} :
       \E i \in 1..(at - 1) : file[i].kind = "section" /\ file[i].section = s

\* Only one.
LEMMA OneInForce ==
  ASSUME NEW i \in Nat, NEW s, NEW t, IsInForce(s, i), IsInForce(t, i)
  PROVE  s = t
<1> DEFINE Opens(j, x) == /\ file[j].kind = "section" /\ file[j].section = x
                          /\ \A l \in (j + 1)..(i - 1) : file[l].kind # "section"
           None(x) == x = "DEFAULT" /\ \A l \in 1..(i - 1) : file[l].kind # "section"
<1>1. (\E j \in 1..(i - 1) : Opens(j, s)) \/ None(s)
  BY DEF IsInForce
<1>2. (\E j \in 1..(i - 1) : Opens(j, t)) \/ None(t)
  BY DEF IsInForce
<1>3. CASE None(s)
  BY <1>2, <1>3
<1>4. CASE None(t)
  BY <1>1, <1>4
<1>5. ASSUME NEW j \in 1..(i - 1), Opens(j, s), NEW k \in 1..(i - 1), Opens(k, t)
      PROVE  s = t
  <2>1. ~(j < k)
    BY <1>5
  <2>2. ~(k < j)
    BY <1>5
  <2>3. j = k
    BY <2>1, <2>2
  <2>. QED BY <1>5, <2>3
<1>. QED BY <1>1, <1>2, <1>3, <1>4, <1>5

\* A line changes the section in force if it is a header.
LEMMA NextInForce ==
  ASSUME NEW i \in Nat \ {0}, NEW s,
         \/ file[i].kind = "section" /\ file[i].section = s
         \/ file[i].kind # "section" /\ IsInForce(s, i)
  PROVE  IsInForce(s, i + 1)
<1>1. CASE file[i].kind = "section" /\ file[i].section = s
  <2>1. i \in 1..((i + 1) - 1) /\ \A l \in (i + 1)..((i + 1) - 1) : FALSE
    OBVIOUS
  <2>. QED BY <1>1, <2>1 DEF IsInForce
<1>2. CASE file[i].kind # "section" /\ IsInForce(s, i)
  <2>1. CASE s = "DEFAULT" /\ \A l \in 1..(i - 1) : file[l].kind # "section"
    BY <1>2, <2>1 DEF IsInForce
  <2>2. CASE \E j \in 1..(i - 1) :
               /\ file[j].kind = "section" /\ file[j].section = s
               /\ \A l \in (j + 1)..(i - 1) : file[l].kind # "section"
    BY <1>2, <2>2 DEF IsInForce
  <2>. QED BY <1>2, <2>1, <2>2 DEF IsInForce
<1>. QED BY <1>1, <1>2

\* What was said stays so, if the next line does not assign the key.
LEMMA StillSays ==
  ASSUME NEW i \in Nat \ {0}, NEW s, NEW k, NEW v,
         at = i, at' = i + 1, file' = file, ~Assigns(i, s, k), Says(s, k, v)
  PROVE  Says(s, k, v)'
<1>1. \A j \in 1..i : Assigns(j, s, k)' <=> Assigns(j, s, k)
  BY DEF Assigns, IsInForce
<1>2. CASE v = Absent /\ \A j \in 1..(i - 1) : ~Assigns(j, s, k)
  BY <1>1, <1>2 DEF Says
<1>3. CASE \E j \in 1..(i - 1) : /\ Assigns(j, s, k) /\ file[j].value = v
                                 /\ \A l \in (j + 1)..(i - 1) : ~Assigns(l, s, k)
  BY <1>1, <1>3 DEF Says
<1>. QED BY <1>2, <1>3 DEF Says

\* And the next line has the last word if it does.
LEMMA NowSays ==
  ASSUME NEW i \in Nat \ {0}, NEW s, NEW k, NEW v,
         at = i, at' = i + 1, file' = file, Assigns(i, s, k), file[i].value = v
  PROVE  Says(s, k, v)'
<1>1. /\ Assigns(i, s, k)' /\ file'[i].value = v
      /\ i \in 1..(at' - 1) /\ \A j \in (i + 1)..(at' - 1) : FALSE
  BY DEF Assigns, IsInForce
<1>. QED BY <1>1 DEF Says

\* The inductive invariant of config.Load.
ReadInv == ForceInv /\ ReadAsWritten

\* parseINI, one line.
LEMMA LineRead ==
  ASSUME ConfigType, ReadInv, SkipLine \/ Header \/ Assignment
  PROVE  ReadInv'
<1>1. /\ pc = "parse" /\ pc' = "parse" /\ file' = file /\ at' = at + 1
      /\ at \in Nat \ {0} /\ at <= Len(file) /\ Len(file) \in Nat
      /\ file[at].kind \in {"skip", "section", "entry"}
  BY DEF SkipLine, Header, Assignment, Reads, ConfigType
<1>2. IsInForce(section, at) /\ \A s \in Section, k \in Key : Says(s, k, ini[s][k])
  BY <1>1 DEF ReadInv, ForceInv, ReadAsWritten
<1>3. ini \in [Section -> [Key -> Value \cup {Absent}]] /\ section \in Section
  BY DEF ConfigType
<1>4. section' = (IF file[at].kind = "section" THEN file[at].section ELSE section)
  BY DEF SkipLine, Header, Assignment, Reads
<1>5. IsInForce(section', at + 1)
  BY <1>1, <1>2, <1>4, NextInForce
<1>6. IsInForce(section, at)'
  BY <1>1, <1>5 DEF IsInForce
<1>7. \A s \in present' \ {"DEFAULT"} :
        \E i \in 1..(at' - 1) : file[i].kind = "section" /\ file[i].section = s
  <2>1. \A s \in present \ {"DEFAULT"} :
          \E i \in 1..(at - 1) : file[i].kind = "section" /\ file[i].section = s
    BY <1>1 DEF ReadInv, ForceInv
  <2>2. 1..(at - 1) \subseteq 1..(at' - 1) /\ at \in 1..(at' - 1)
    BY <1>1
  <2>3. \/ present' = present
        \/ file[at].kind = "section" /\ present' = present \cup {file[at].section}
    BY DEF SkipLine, Header, Assignment, Reads
  <2>. QED BY <2>1, <2>2, <2>3
<1>8. ForceInv'
  <2>1. at' <= Len(file') + 1
    BY <1>1
  <2>. QED BY <1>1, <1>6, <1>7, <2>1 DEF ForceInv
<1>9. ASSUME NEW s \in Section, NEW k \in Key PROVE Says(s, k, ini[s][k])'
  <2>1. PICK w : w = ini'[s][k]
    OBVIOUS
  <2>2. PICK i \in Nat \ {0} : i = at
    BY <1>1
  <2>3. CASE Assigns(i, s, k)
    <3>1. s = section
      BY <1>2, <2>2, <2>3, OneInForce DEF Assigns
    <3>2. file[at].kind = "entry" /\ file[at].key = k
      BY <2>2, <2>3 DEF Assigns
    <3>3. ini' = [ini EXCEPT ![section][file[at].key] = file[at].value]
      BY <3>2 DEF SkipLine, Header, Assignment, Reads
    <3>4. file[i].value = w
      BY <1>3, <2>1, <2>2, <3>1, <3>2, <3>3
    <3>5. Says(s, k, w)'
      BY <1>1, <2>2, <2>3, <3>4, NowSays
    <3>. QED BY <2>1, <3>5 DEF Says
  <2>4. CASE ~Assigns(i, s, k)
    <3>1. w = ini[s][k]
      <4>1. CASE file[at].kind = "entry"
        <5>1. ini' = [ini EXCEPT ![section][file[at].key] = file[at].value]
          BY <4>1 DEF SkipLine, Header, Assignment, Reads
        <5>2. ~(s = section /\ k = file[at].key)
          BY <1>2, <2>2, <2>4, <4>1 DEF Assigns
        <5>. QED BY <1>3, <2>1, <5>1, <5>2
      <4>2. CASE file[at].kind # "entry"
        BY <2>1, <4>2 DEF SkipLine, Header, Assignment, Reads
      <4>. QED BY <4>1, <4>2
    <3>2. Says(s, k, w)
      BY <1>2, <3>1
    <3>3. Says(s, k, w)'
      BY <1>1, <2>2, <2>4, <3>2, StillSays
    <3>. QED BY <2>1, <3>3 DEF Says
  <2>. QED BY <2>3, <2>4
<1>. QED
  <2>1. ReadAsWritten'
    BY <1>1, <1>9 DEF ReadAsWritten
  <2>. QED BY <1>8, <2>1 DEF ReadInv

\* build.
LEMMA FileBuilt ==
  ASSUME ConfigType, ReadInv, Build
  PROVE  ReadInv'
<1>1. /\ pc = "build" /\ at \in Nat \ {0} /\ at <= Len(file) + 1 /\ Len(file) \in Nat
      /\ UNCHANGED <<file, at>> /\ pc' \in {"loaded", "refused"}
  BY DEF Build, ConfigType, ReadInv, ForceInv, parseVars
<1>2. \A s \in Section, k \in Key : Says(s, k, ini[s][k])
  BY <1>1 DEF ReadInv, ReadAsWritten
<1>3. ForceInv'
  BY <1>1 DEF ForceInv
<1>4. ASSUME pc' = "loaded", NEW u \in Users
      PROVE  /\ \E i \in 1..Len(file') : file'[i].kind = "section" /\ file'[i].section = u
             /\ \A k \in UserKey : cfg'.user[u][k] # "" /\ Configured(u, k, cfg.user[u][k])'
  <2>1. Acceptable /\ cfg' = NewConfig
    BY <1>4 DEF Build
  <2>2. \E i \in 1..(at - 1) : file[i].kind = "section" /\ file[i].section = u
    <3>1. u \in present \ {"DEFAULT"}
      BY <2>1, <1>4 DEF Acceptable, Users
    <3>. QED BY <1>1, <3>1 DEF ReadInv, ForceInv
  <2>3. \E i \in 1..Len(file') : file'[i].kind = "section" /\ file'[i].section = u
    BY <1>1, <2>2
  <2>4. ASSUME NEW k \in UserKey PROVE cfg'.user[u][k] # "" /\ Configured(u, k, cfg.user[u][k])'
    <3>1. NewConfig.user = [w \in Users |-> [l \in UserKey |-> Get(w, l)]]
      BY DEF NewConfig
    <3>2. cfg'.user[u][k] = Get(u, k)
      BY <2>1, <3>1
    <3>3. Get(u, k) \notin {Absent, ""}
      BY <2>1 DEF Acceptable, HasRequired
    <3>4. u \in Section /\ k \in Key /\ "DEFAULT" \in Section
      BY ConfigAssumption
    <3>5. Says(u, k, ini[u][k]) /\ Says("DEFAULT", k, ini["DEFAULT"][k])
      BY <1>2, <3>4
    <3>6. PICK v : v = Get(u, k)
      OBVIOUS
    <3>7. Configured(u, k, v)
      <4>1. CASE ini[u][k] # Absent
        BY <3>3, <3>5, <3>6, <4>1 DEF Get, Configured
      <4>2. CASE ini[u][k] = Absent
        BY <3>3, <3>5, <3>6, <4>2 DEF Get, Configured
      <4>. QED BY <4>1, <4>2
    <3>8. Configured(u, k, v)'
      BY <1>1, <3>7 DEF Configured, Says, Assigns, IsInForce
    <3>9. Configured(u, k, cfg.user[u][k])'
      BY <3>2, <3>6, <3>8 DEF Configured, Says
    <3>. QED BY <3>2, <3>3, <3>9
  <2>. QED BY <2>3, <2>4
<1>5. ReadAsWritten'
  BY <1>1, <1>4 DEF ReadAsWritten
<1>. QED BY <1>3, <1>5 DEF ReadInv

\* Every step.
LEMMA StepRead ==
  ASSUME NamingInv, ReadInv, [Next]_vars
  PROVE  ReadInv'
<1>1. ConfigType
  BY DEF NamingInv, TypeOK
<1>2. CASE SkipLine \/ Header \/ Assignment
  BY <1>1, <1>2, LineRead
<1>3. CASE BadLine
  BY <1>3 DEF BadLine, ReadInv, ForceInv, ReadAsWritten
<1>4. CASE EndOfFile
  <2>1. pc = "parse" /\ pc' = "build" /\ UNCHANGED <<file, at, section, present, ini, cfg>>
    BY <1>4 DEF EndOfFile, parseVars
  <2>2. ForceInv'
    BY <2>1 DEF ReadInv, ForceInv
  <2>3. \A s \in Section, k \in Key : Says(s, k, ini[s][k])
    BY <2>1 DEF ReadInv, ReadAsWritten
  <2>4. (\A s \in Section, k \in Key : Says(s, k, ini[s][k]))'
    BY <2>1, <2>3 DEF Says, Assigns, IsInForce
  <2>5. ReadAsWritten'
    BY <2>1, <2>4 DEF ReadAsWritten
  <2>. QED BY <2>2, <2>5 DEF ReadInv
<1>5. CASE Build
  BY <1>1, <1>5, FileBuilt
<1>6. CASE Begin
  BY <1>6 DEF Begin, ReadInv, ForceInv, ReadAsWritten
<1>7. CASE \E e \in Env : Test(e)
  BY <1>7, TestStays DEF NamingInv, configVars, ReadInv, ForceInv, ReadAsWritten
<1>8. CASE UNCHANGED vars
  <2>1. UNCHANGED <<pc, file, at, section, present, ini, cfg>>
    BY <1>8 DEF vars, configVars, parseVars
  <2>2. ForceInv'
    BY <2>1 DEF ReadInv, ForceInv, IsInForce
  <2>3. ASSUME NEW s, NEW k, NEW v, Says(s, k, v) PROVE Says(s, k, v)'
    BY <2>1, <2>3 DEF Says, Assigns, IsInForce
  <2>4. ASSUME pc' \in {"parse", "build"}, NEW s \in Section, NEW k \in Key
        PROVE  Says(s, k, ini[s][k])'
    <3>1. PICK v : v = ini[s][k]
      OBVIOUS
    <3>2. Says(s, k, v)
      BY <2>1, <2>4, <3>1 DEF ReadInv, ReadAsWritten
    <3>. QED BY <2>1, <2>3, <3>1, <3>2 DEF Says
  <2>5. ASSUME pc' = "loaded", NEW u \in Users
        PROVE  /\ \E i \in 1..Len(file') : file'[i].kind = "section" /\ file'[i].section = u
               /\ \A k \in UserKey : cfg'.user[u][k] # "" /\ Configured(u, k, cfg.user[u][k])'
    <3>1. /\ \E i \in 1..Len(file) : file[i].kind = "section" /\ file[i].section = u
          /\ \A k \in UserKey : cfg.user[u][k] # "" /\ Configured(u, k, cfg.user[u][k])
      BY <2>1, <2>5 DEF ReadInv, ReadAsWritten
    <3>2. ASSUME NEW k \in UserKey PROVE Configured(u, k, cfg.user[u][k])'
      <4>1. PICK v : v = cfg.user[u][k]
        OBVIOUS
      <4>2. Configured(u, k, v)'
        BY <2>3, <3>1, <4>1 DEF Configured
      <4>. QED BY <2>1, <4>1, <4>2 DEF Configured, Says
    <3>. QED BY <2>1, <3>1, <3>2
  <2>6. ReadAsWritten'
    BY <2>4, <2>5 DEF ReadAsWritten
  <2>. QED BY <2>2, <2>6 DEF ReadInv
<1>. QED BY <1>2, <1>3, <1>4, <1>5, <1>6, <1>7, <1>8 DEF Next, Load

\* What is read is what the file says, for files of any length: the section in
\* force is the last header's, so that the last assignment of a key in its
\* section is the one that stays; and what is loaded has all that is required
\* and all of it from the file (parseINI, ini.get, user, build).
THEOREM FileReadAsWritten == Spec => []ReadAsWritten
<1>1. ASSUME Init PROVE ReadInv
  <2>1. pc = "parse" /\ at = 1 /\ section = "DEFAULT" /\ present = {"DEFAULT"} /\ ini = NoValues
    BY <1>1 DEF Init, ConfigInit
  <2>2. file \in Seq(Line)
    BY <1>1, ConfigAssumption DEF Init, ConfigInit
  <2>3. IsInForce("DEFAULT", 1) /\ 1 <= Len(file) + 1
    BY <2>2 DEF IsInForce
  <2>4. \A s \in Section, k \in Key : ini[s][k] = Absent
    BY <2>1 DEF NoValues
  <2>5. \A s \in Section, k \in Key : Says(s, k, ini[s][k])
    BY <2>1, <2>4 DEF Says
  <2>6. ForceInv
    BY <2>1, <2>3 DEF ForceInv
  <2>7. ReadAsWritten
    BY <2>1, <2>5 DEF ReadAsWritten
  <2>. QED BY <2>6, <2>7 DEF ReadInv
<1>2. NamingInv /\ ReadInv /\ [Next]_vars => ReadInv'
  BY StepRead
<1>3. ReadInv => ReadAsWritten
  BY DEF ReadInv
<1>. QED BY <1>1, <1>2, <1>3, NamingInvariant, PTL DEF Spec
=============================================================================

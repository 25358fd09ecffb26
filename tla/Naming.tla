-------------------------------- MODULE Naming --------------------------------
(***************************************************************************)
(* The names of the buckets of runs that share a config file and a server: *)
(* BucketPrefix once a run, slug() and token() once a test, a counter for  *)
(* its buckets, and cleanups that go by the name alone.                    *)
(*                                                                         *)
(* A request and its answer are one step; how nuke() empties a bucket is   *)
(* in Fixture.  A name is a sequence of characters, because what is asked  *)
(* is which of them are equal and how long they are.                       *)
(***************************************************************************)
EXTENDS Config, SequencesExt

CONSTANTS
  Run,         \* the runs that share the server
  Env,         \* the fixtures of their tests
  Alphabet,    \* the characters of a random string
  TestNames,   \* the names of tests: sequences of runes
  Lower,       \* the character a rune has in a slug, "-" if it may not be there
  MaxSlugLen,  \* maxSlugLen
  TokenLen,    \* the length of a token
  Numeral,     \* the decimal numerals, one for each bucket of a test
  MaxDigits,   \* bounds their length
  MaxBuckets,  \* bounds the buckets a test has at a time
  Exact,       \* fixed names that tests put behind BucketPrefix
  ShortPrefix, \* bucketCreateNamingDNSLong wants a BucketPrefix shorter than that
  Lengths,     \* the whole lengths createNamingGoodLong asks for
  NameLimit    \* the length of a bucket name S3 allows

NBuckets == Len(Numeral)
Char == Alphabet \cup {"-"}

ASSUME NamingAssumption ==
  /\ "-" \notin Alphabet /\ "a" \in Alphabet
  /\ Lower \in [DOMAIN Lower -> Char]
  /\ TestNames \subseteq Seq(DOMAIN Lower)
  /\ MaxSlugLen \in Nat /\ TokenLen \in Nat /\ MaxDigits \in Nat
  /\ MaxBuckets \in Nat /\ NameLimit \in Nat
  /\ Numeral \in Seq(Seq(Alphabet))
  /\ \A i \in 1..NBuckets : Len(Numeral[i]) \in 1..MaxDigits
  /\ Exact \subseteq Seq(Char)
  \* The longest fixed name is "aaa-111", with 33 characters left by the prefix.
  /\ \A x \in Exact : MaxPrefixLen + Len(x) <= NameLimit
  /\ ShortPrefix \in 0..NameLimit
  /\ Lengths \subseteq 0..NameLimit
  \* 30, 16, 4 and the limit of 63 leave eleven digits to the counter.
  /\ MaxPrefixLen + MaxSlugLen + TokenLen + MaxDigits + 2 <= NameLimit

VARIABLES
  run,      \* the run a test belongs to
  prefix,   \* the BucketPrefix of a run
  stage,    \* of a test: "idle", "slug", "body", "cleanup" or "ended"
  rest,     \* slug: the runes that are left
  slug,     \* slug: the result so far
  token,    \* token of a test
  n,        \* Env.n
  cleanups, \* the buckets a test will remove, the last one first
  buckets,  \* the buckets on the server
  known     \* history: those whose creation was not answered or whose removal
            \* failed, both of which the test reports

envVars == <<run, prefix, stage, rest, slug, token, n, cleanups>>
serverVars == <<buckets, known>>
vars == <<configVars, envVars, serverVars>>

Strings(S, len) == [1..len -> S]

NamingType ==
  /\ run \in [Env -> Run]
  /\ prefix \in [Run -> Seq(Char)]
  /\ stage \in [Env -> {"idle", "slug", "body", "cleanup", "ended"}]
  /\ rest \in [Env -> Seq(DOMAIN Lower)]
  /\ slug \in [Env -> Seq(Char)]
  /\ token \in [Env -> Seq(Alphabet)]
  /\ n \in [Env -> 0..NBuckets]
  /\ cleanups \in [Env -> Seq(Seq(Char))]
  /\ buckets \subseteq Seq(Char)
  /\ known \subseteq Seq(Char)

ConfigType ==
  /\ pc \in {"parse", "build", "loaded", "refused", "running"}
  /\ file \in Seq(Line)
  /\ at \in Nat \ {0}
  /\ section \in Section
  /\ present \subseteq Section
  /\ ini \in [Section -> [Key -> Value \cup {Absent}]]
  /\ pc \in {"loaded", "running"} => cfg.template \in Value /\ Fixed[cfg.template] <= MaxPrefixLen

TypeOK == ConfigType /\ NamingType

Init ==
  /\ ConfigInit
  /\ run \in [Env -> Run]
  /\ prefix = [r \in Run |-> <<>>]
  /\ stage = [e \in Env |-> "idle"]
  /\ rest = [e \in Env |-> <<>>]
  /\ slug = [e \in Env |-> <<>>]
  /\ token = [e \in Env |-> <<>>]
  /\ n = [e \in Env |-> 0]
  /\ cleanups = [e \in Env |-> <<>>]
  /\ buckets = {}
  /\ known = {}

\* A run loads the config and then uses the prefix alone.  One character stands
\* for the filler, and for the fixed text if there is none.
BucketPrefix(t) ==
  {[i \in 1..PrefixLen(t) |-> c] : c \in IF Filler(t) = 0 THEN {"a"} ELSE Alphabet}

Begin ==
  /\ pc = "loaded"
  /\ pc' = "running"
  /\ prefix' \in [Run -> BucketPrefix(cfg.template)]
  /\ cfg' = [template |-> cfg.template]
  /\ file' = <<>> /\ at' = 1 /\ section' = "DEFAULT" /\ present' = {"DEFAULT"} /\ ini' = NoValues
  /\ UNCHANGED <<run, stage, rest, slug, token, n, cleanups, serverVars>>

-----------------------------------------------------------------------------
(* New.  It shares nothing with other calls, so they take turns.           *)

New(e) ==
  /\ pc = "running"
  /\ stage[e] = "idle"
  /\ \A f \in Env : stage[f] # "slug"
  /\ stage' = [stage EXCEPT ![e] = "slug"]
  /\ \E name \in TestNames : rest' = [rest EXCEPT ![e] = name]
  /\ UNCHANGED <<configVars, run, prefix, slug, token, n, cleanups, serverVars>>

EndsInDash(s) == s # <<>> /\ Last(s) = "-"

\* A variant of Room: the check comes after the character.
RoomForOneMore(e) == Len(slug[e]) <= MaxSlugLen

Room(e) == Len(slug[e]) < MaxSlugLen

SlugRune(e) ==
  /\ stage[e] = "slug"
  /\ rest[e] # <<>> /\ Room(e)
  /\ LET c == Lower[Head(rest[e])]
     IN slug' = IF c = "-" /\ (slug[e] = <<>> \/ EndsInDash(slug[e]))
                THEN slug ELSE [slug EXCEPT ![e] = Append(@, c)]
  /\ rest' = [rest EXCEPT ![e] = Tail(@)]
  /\ UNCHANGED <<configVars, run, prefix, stage, token, n, cleanups, serverVars>>

\* strings.Trim: the part from the first to the last character but "-".
Trim(s) ==
  LET I == {i \in 1..Len(s) : s[i] # "-"}
  IN IF I = {} THEN <<>> ELSE SubSeq(s, Min(I), Max(I))

SlugEnd(e) ==
  /\ stage[e] = "slug"
  /\ rest[e] = <<>> \/ ~Room(e)
  /\ stage' = [stage EXCEPT ![e] = "body"]
  /\ rest' = [rest EXCEPT ![e] = <<>>]
  /\ slug' = [slug EXCEPT ![e] = Trim(@)]
  /\ \E t \in Strings(Alphabet, TokenLen) : token' = [token EXCEPT ![e] = t]
  /\ UNCHANGED <<configVars, run, prefix, n, cleanups, serverVars>>

-----------------------------------------------------------------------------
(* The body.                                                               *)

\* A variant of Prefix: nothing between its parts.
PrefixUndashed(e) == prefix[run[e]] \o slug[e] \o token[e]

Prefix(e) == prefix[run[e]] \o slug[e] \o <<"-">> \o token[e] \o <<"-">>

InBody(e) == stage[e] = "body" /\ Len(cleanups[e]) < MaxBuckets

\* Fatalf, and the end of a body: the cleanups are next.
Leave(e) == stage' = [stage EXCEPT ![e] = "cleanup"]

\* A variant of Create: the removal is registered for the first bucket only.
CreateFirst(e, name) ==
  \/ /\ buckets' = buckets \cup {name}
     /\ cleanups' = [cleanups EXCEPT ![e] = IF @ = <<>> THEN <<name>> ELSE @]
     /\ UNCHANGED <<stage, known>>
  \/ /\ Leave(e)
     /\ UNCHANGED <<cleanups, buckets, known>>

\* createBucket: a bucket that is there already may be created again or
\* refused, any request may fail, and it may have had its effect nevertheless.
Create(e, name) ==
  \/ /\ buckets' = buckets \cup {name}
     /\ cleanups' = [cleanups EXCEPT ![e] = Append(@, name)]
     /\ UNCHANGED <<stage, known>>
  \/ /\ Leave(e)
     /\ UNCHANGED <<cleanups, buckets, known>>
  \/ /\ Leave(e)
     /\ buckets' = buckets \cup {name}
     /\ known' = known \cup {name}
     /\ UNCHANGED cleanups

NewBucketName(e) == Prefix(e) \o Numeral[n[e] + 1]

Counts(e) ==
  /\ n[e] < NBuckets
  /\ n' = [n EXCEPT ![e] = @ + 1]
  /\ UNCHANGED <<configVars, run, prefix, rest, slug, token>>

NewBucket(e) == InBody(e) /\ Counts(e) /\ Create(e, NewBucketName(e))

\* createNamingGoodLong fills a name up to the length it wants.
NewBucketOfLength(e, len) ==
  /\ InBody(e)
  /\ Counts(e)
  /\ IF Len(NewBucketName(e)) >= len
     THEN Leave(e) /\ UNCHANGED <<cleanups, serverVars>>
     ELSE Create(e, NewBucketName(e) \o [i \in 1..(len - Len(NewBucketName(e))) |-> "a"])

\* checkGoodBucketName: an exact name, behind the prefix of the run alone.
NewBucketNamed(e, name) ==
  /\ InBody(e)
  /\ Create(e, prefix[run[e]] \o name)
  /\ UNCHANGED <<configVars, run, prefix, rest, slug, token, n>>

\* What prefix p leaves of the limit.
Filling(p) == [i \in 1..(NameLimit - Len(p)) |-> "a"]

\* bucketCreateNamingDNSLong: a name that is as long as it may be, unless the
\* prefix of the run is too long for that.
NewBucketFull(e) ==
  \/ /\ Len(prefix[run[e]]) < ShortPrefix
     /\ NewBucketNamed(e, Filling(prefix[run[e]]))
  \/ /\ Len(prefix[run[e]]) >= ShortPrefix
     /\ InBody(e)
     /\ Leave(e)
     /\ UNCHANGED <<configVars, run, prefix, rest, slug, token, n, cleanups, serverVars>>

EndBody(e) ==
  /\ stage[e] = "body"
  /\ Leave(e)
  /\ UNCHANGED <<configVars, run, prefix, rest, slug, token, n, cleanups, serverVars>>

\* A bucket that is gone is a success; a failure is logged.
Nuke(e) ==
  /\ stage[e] = "cleanup"
  /\ cleanups[e] # <<>>
  /\ \/ buckets' = buckets \ {Last(cleanups[e])} /\ UNCHANGED known
     \/ known' = known \cup {Last(cleanups[e])} /\ UNCHANGED buckets
  /\ cleanups' = [cleanups EXCEPT ![e] = Front(@)]
  /\ UNCHANGED <<configVars, run, prefix, stage, rest, slug, token, n>>

\* The Env is garbage.
End(e) ==
  /\ stage[e] = "cleanup"
  /\ cleanups[e] = <<>>
  /\ stage' = [stage EXCEPT ![e] = "ended"]
  /\ slug' = [slug EXCEPT ![e] = <<>>]
  /\ token' = [token EXCEPT ![e] = <<>>]
  /\ n' = [n EXCEPT ![e] = 0]
  /\ UNCHANGED <<configVars, run, prefix, rest, cleanups, serverVars>>

Test(e) ==
  \/ New(e) \/ SlugRune(e) \/ SlugEnd(e)
  \/ NewBucket(e) \/ (\E len \in Lengths : NewBucketOfLength(e, len))
  \/ (\E x \in Exact : NewBucketNamed(e, x)) \/ NewBucketFull(e)
  \/ EndBody(e) \/ Nuke(e) \/ End(e)

Next ==
  \/ Load /\ UNCHANGED <<envVars, serverVars>>
  \/ Begin
  \/ \E e \in Env : Test(e)

Spec == Init /\ [][Next]_vars

-----------------------------------------------------------------------------
(* Properties.                                                             *)

OnePlaceholder == Holes[cfg.template] <= 1

Names(e) == {cleanups[e][i] : i \in 1..Len(cleanups[e])}

\* Whatever the template, the name of the test and the counter, a bucket has a
\* name short enough for S3, and a slug that neither begins nor ends with a
\* dash nor doubles one.  A template with two placeholders is the exception:
\* BucketPrefix fills both as if there were one (BucketPrefix, New, slug).
NamesAreLegal ==
  /\ (pc = "running" /\ OnePlaceholder) => \A b \in buckets : Len(b) <= NameLimit
  /\ \A e \in Env : (stage[e] = "body" /\ slug[e] # <<>>) =>
       /\ slug[e][1] # "-" /\ ~EndsInDash(slug[e])
       /\ \A i \in 2..Len(slug[e]) : <<slug[e][i - 1], slug[e][i]>> # <<"-", "-">>

\* The names a test may ask for that are the same for every test of a run.
ExactOf(p) == Exact \cup {Filling(p)}

\* Two tests whose names may meet: the random parts of their prefixes and
\* their slugs agree, or they chose the same exact name in one run, or in two
\* whose BucketPrefix agrees.
MayCollide(e, f, b) ==
  /\ prefix[run[e]] = prefix[run[f]]
  /\ \/ slug[e] = slug[f] /\ token[e] = token[f]
     \/ \E x \in ExactOf(prefix[run[e]]) : b = prefix[run[e]] \o x

\* Cleanup is scoped to the test that created the bucket: a test that goes on
\* loses one of its buckets to another only if the two are told apart by
\* nothing, the four characters of the token included (New, nuke).
CleanupIsScoped ==
  [][\A e \in Env : \A b \in Names(e) :
       (b \in buckets /\ b \notin buckets' /\ cleanups'[e] = cleanups[e])
         => \E f \in Env \ {e} : MayCollide(e, f, b)]_vars

\* Whatever is on the server will be removed by a test, or its removal failed
\* and was logged, or the answer to its creation was lost: nothing else leaks
\* (createBucket, nuke).
LeftoversAreExplained ==
  buckets \subseteq known \cup UNION {Names(e) : e \in Env}
=============================================================================

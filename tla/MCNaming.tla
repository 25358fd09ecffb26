------------------------------- MODULE MCNaming -------------------------------
(***************************************************************************)
(* Naming for TLC: the files that one or two changes make of a complete    *)
(* one, and the lengths scaled down to where they just fit.                *)
(***************************************************************************)
EXTENDS Naming

Opens(s) == [kind |-> "section", section |-> s, key |-> "host", value |-> ""]
Set(k, v) == [kind |-> "entry", section |-> "DEFAULT", key |-> k, value |-> v]
Other(kind) == [kind |-> kind, section |-> "DEFAULT", key |-> "host", value |-> ""]

\* Every user takes most of its keys from DEFAULT.
Complete ==
  <<Set("host", "x"), Opens("DEFAULT"), Set("port", "80"), Set("secret_key", "x"),
    Set("display_name", "x"), Set("user_id", "x"), Set("email", "x"), Set("access_key", "x"),
    Opens("s3 main"), Set("access_key", "y"), Opens("s3 alt"), Opens("s3 tenant"),
    Set("tenant", "x"), Opens("fixtures"), Set("bucket prefix", "test-{random}-")>>

InsertLine(s, i, l) == SubSeq(s, 1, i) \o <<l>> \o SubSeq(s, i + 1, Len(s))

Extra ==
  {Other("skip"), Other("bad"), Opens("DEFAULT"), Opens("s3 main"), Set("email", "y"),
   Set("email", ""), Set("port", "x"), Set("addressing_style", "virtual"),
   Set("addressing_style", "x"), Set("is_secure", "yes")}

MCFiles ==
  {[Complete EXCEPT ![15] = Set("bucket prefix", t)] : t \in {"none", "long", "two", "test-{random}-"}}
  \cup {RemoveAt(Complete, i) : i \in 1..15}
  \cup {InsertLine(Complete, i, l) : i \in 0..15, l \in Extra}
  \cup {Complete \o <<h, l>> : h, l \in Extra}

MCSection == Users \cup {"DEFAULT", "fixtures"}
MCKey == UserKey \cup {"host", "port", "is_secure", "ssl_verify", "addressing_style",
  "api_name", "kms_keyid", "kms_keyid2", "tenant", "bucket prefix"}
MCValue == {"", "x", "y", "80", "yes", "path", "virtual", "testkey-1", "testkey-2",
  "test-{random}-", "none", "long", "two"}

\* The lengths of the templates, where 3 stands for 30.
MCFixed == [v \in MCValue |->
  CASE v = "none" -> 3 [] v = "long" -> 4 [] v = "two" -> 1 [] v = "test-{random}-" -> 2 [] OTHER -> 0]
MCHoles == [v \in MCValue |-> CASE v = "two" -> 2 [] v = "test-{random}-" -> 1 [] OTHER -> 0]

MCNumber == {"80"}
MCAlphabet == {"a", "1"}
MCLower == [r \in {"a", "A", "1", "_"} |-> CASE r = "A" -> "a" [] r = "_" -> "-" [] OTHER -> r]
MCTestNames ==
  {<<"_", "A">>, <<"a", "_", "_", "1", "a">>, <<"a", "1", "_", "a">>}
MCNumeral == <<<<"1">>, <<"1", "1">>>>
Symmetry == Permutations(Run) \cup Permutations(Env)

MCExact == {<<"a", "-", "1">>}
=============================================================================

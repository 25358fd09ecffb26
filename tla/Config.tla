-------------------------------- MODULE Config --------------------------------
(***************************************************************************)
(* config.Load: parseINI, one line of the file a step, and build.          *)
(*                                                                         *)
(* A line is known by what the parser makes of it: blank or a comment      *)
(* ("skip"), a section header, an assignment, or neither ("bad").          *)
(***************************************************************************)
EXTENDS Integers, Sequences

CONSTANTS
  Files,         \* the files: sequences of lines
  Section,       \* the names of sections
  Key,           \* the names of keys, in lower case
  Value,         \* the values
  Absent,        \* no value
  Number,        \* the values strconv.Atoi takes
  Fixed,         \* the length of a value without its {random} placeholders
  Holes,         \* the number of these placeholders
  MaxPrefixLen   \* maxPrefixLen

Users == {"s3 main", "s3 alt", "s3 tenant"}
UserKey == {"access_key", "secret_key", "display_name", "user_id", "email"}

\* What boolean takes for true and for false.
Yes == {"1", "yes", "true", "on"}
No == {"0", "no", "false", "off"}

Line == [kind : {"skip", "section", "entry", "bad"}, section : Section, key : Key, value : Value]

ASSUME ConfigAssumption ==
  /\ Files \subseteq Seq(Line)
  /\ Users \cup {"DEFAULT", "fixtures"} \subseteq Section
  /\ UserKey \cup {"host", "port", "is_secure", "ssl_verify", "addressing_style",
                   "api_name", "kms_keyid", "kms_keyid2", "tenant", "bucket prefix"} \subseteq Key
  /\ {"", "path", "virtual", "testkey-1", "testkey-2", "test-{random}-"} \subseteq Value
  /\ Absent \notin Value
  /\ Number \subseteq Value \ {""}
  /\ Fixed \in [Value -> Nat]
  /\ Holes \in [Value -> Nat]
  /\ MaxPrefixLen \in Nat

VARIABLES
  pc,       \* "parse", "build", "loaded" or "refused"
  file,     \* the lines of the file
  at,       \* the next line
  section,  \* the section in force
  present,  \* the sections there are
  ini,      \* the value of every key of every section
  cfg       \* the Config, once it is built

parseVars == <<file, at, section, present, ini>>
configVars == <<pc, parseVars, cfg>>

NoValues == [s \in Section |-> [k \in Key |-> Absent]]
NoConfig == [host |-> Absent]

ConfigInit ==
  /\ pc = "parse"
  /\ file \in Files
  /\ at = 1
  /\ section = "DEFAULT"
  /\ present = {"DEFAULT"}
  /\ ini = NoValues
  /\ cfg = NoConfig

-----------------------------------------------------------------------------
(* parseINI.                                                               *)

Reads(kind) == pc = "parse" /\ at <= Len(file) /\ file[at].kind = kind

SkipLine ==
  /\ Reads("skip")
  /\ at' = at + 1
  /\ UNCHANGED <<pc, file, section, present, ini, cfg>>

\* A variant of Header: a section that is opened again starts anew.
HeaderAnew ==
  /\ Reads("section")
  /\ section' = file[at].section
  /\ present' = present \cup {section'}
  /\ ini' = [ini EXCEPT ![section'] = [k \in Key |-> Absent]]
  /\ at' = at + 1
  /\ UNCHANGED <<pc, file, cfg>>

Header ==
  /\ Reads("section")
  /\ section' = file[at].section
  /\ present' = present \cup {section'}
  /\ at' = at + 1
  /\ UNCHANGED <<pc, file, ini, cfg>>

Assignment ==
  /\ Reads("entry")
  /\ ini' = [ini EXCEPT ![section][file[at].key] = file[at].value]
  /\ at' = at + 1
  /\ UNCHANGED <<pc, file, section, present, cfg>>

\* An unterminated header, or neither '=' nor ':' behind a key.
BadLine ==
  /\ Reads("bad")
  /\ pc' = "refused"
  /\ UNCHANGED <<parseVars, cfg>>

EndOfFile ==
  /\ pc = "parse"
  /\ at > Len(file)
  /\ pc' = "build"
  /\ UNCHANGED <<parseVars, cfg>>

-----------------------------------------------------------------------------
(* build.                                                                  *)

\* A section inherits from DEFAULT.
Get(s, k) == IF ini[s][k] # Absent THEN ini[s][k] ELSE ini["DEFAULT"][k]

GetOr(s, k, default) == IF Get(s, k) # Absent THEN Get(s, k) ELSE default

HasRequired(s, k) == Get(s, k) \notin {Absent, ""}

Boolean(s, k, default) ==
  IF Get(s, k) \in Yes THEN TRUE ELSE IF Get(s, k) \in No THEN FALSE ELSE default

Template == GetOr("fixtures", "bucket prefix", "test-{random}-")

\* A variant of Fits: off by one.
FitsAlmost(t) == Fixed[t] <= MaxPrefixLen + 1

Fits(t) == Fixed[t] <= MaxPrefixLen

\* BucketPrefix: how long the random filler is, and the prefix.
Filler(t) == IF Holes[t] = 0 THEN 0 ELSE MaxPrefixLen - Fixed[t]

PrefixLen(t) == Fixed[t] + Holes[t] * Filler(t)

Acceptable ==
  /\ Users \subseteq present
  /\ \A k \in {"host", "port"} : HasRequired("DEFAULT", k)
  /\ Get("DEFAULT", "port") \in Number
  /\ GetOr("DEFAULT", "addressing_style", "") \in {"", "path", "virtual"}
  /\ \A u \in Users, k \in UserKey : HasRequired(u, k)
  /\ HasRequired("s3 tenant", "tenant")
  /\ Fits(Template)

NewConfig ==
  [host |-> Get("DEFAULT", "host"),
   port |-> Get("DEFAULT", "port"),
   secure |-> Boolean("DEFAULT", "is_secure", FALSE),
   verify |-> Boolean("DEFAULT", "ssl_verify", FALSE),
   virtualHost |-> Get("DEFAULT", "addressing_style") = "virtual",
   apiName |-> GetOr("s3 main", "api_name", ""),
   kms |-> <<GetOr("s3 main", "kms_keyid", "testkey-1"),
             GetOr("s3 main", "kms_keyid2", "testkey-2")>>,
   user |-> [u \in Users |-> [k \in UserKey |-> Get(u, k)]],
   tenant |-> Get("s3 tenant", "tenant"),
   template |-> Template]

Build ==
  /\ pc = "build"
  /\ IF Acceptable
     THEN pc' = "loaded" /\ cfg' = NewConfig
     ELSE pc' = "refused" /\ UNCHANGED cfg
  /\ UNCHANGED parseVars

Load == SkipLine \/ Header \/ Assignment \/ BadLine \/ EndOfFile \/ Build

-----------------------------------------------------------------------------
(* Properties.                                                             *)

\* The section that line i belongs to.
IsInForce(s, i) ==
  \/ \E j \in 1..(i - 1) :
       /\ file[j].kind = "section" /\ file[j].section = s
       /\ \A l \in (j + 1)..(i - 1) : file[l].kind # "section"
  \/ s = "DEFAULT" /\ \A l \in 1..(i - 1) : file[l].kind # "section"

\* Line i gives key k of section s a value.
Assigns(i, s, k) == file[i].kind = "entry" /\ file[i].key = k /\ IsInForce(s, i)

\* What the lines that were read say of key k in section s: the last
\* assignment counts, wherever the section was opened.
Says(s, k, v) ==
  \/ \E i \in 1..(at - 1) :
       /\ Assigns(i, s, k) /\ file[i].value = v
       /\ \A j \in (i + 1)..(at - 1) : ~Assigns(j, s, k)
  \/ v = Absent /\ \A i \in 1..(at - 1) : ~Assigns(i, s, k)

\* What the file says of key k in section s, with what it inherits.
Configured(s, k, v) ==
  \/ v # Absent /\ Says(s, k, v)
  \/ Says(s, k, Absent) /\ Says("DEFAULT", k, v)

\* A file is read as configparser reads it: the values are those it says, a
\* section may be opened several times, the last assignment of a key counts,
\* and what comes before the first header is for every section.  A file that
\* loads gives all three users the keys it says, a section's own before
\* DEFAULT's and never an empty one, and opens each of their sections somewhere,
\* even if DEFAULT has all the keys (parseINI, splitKeyValue, ini.get, user).
ReadAsWritten ==
  /\ (pc \in {"parse", "build"}) => \A s \in Section, k \in Key : Says(s, k, ini[s][k])
  /\ pc = "loaded" => \A u \in Users :
       /\ \E i \in 1..Len(file) : file[i].kind = "section" /\ file[i].section = u
       /\ \A k \in UserKey : cfg.user[u][k] # "" /\ Configured(u, k, cfg.user[u][k])
=============================================================================

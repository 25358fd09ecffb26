---------------------------- MODULE Clients_proofs ----------------------------
(***************************************************************************)
(* Proofs about Clients, for any options, client and server: an assertion  *)
(* passes for an answer of the server and for no other reason, and no call *)
(* is sent twice; options that cannot go together fail the call; those     *)
(* that can all take effect on the request; and what was signed is sent.   *)
(***************************************************************************)
EXTENDS Clients, SequenceTheorems, WellFoundedInduction, TLAPS

\* What a call returns if the server answered a.
Returned(a) == [ok |-> a.status < 300, status |-> a.status, code |-> a.code]

\* How far the call has come, by what was sent and answered: an attempt is made
\* once, and what is returned is the answer, or has none in it.
Progress ==
  /\ pc \in {"options", "run", "dial"} =>
       attempts = 0 /\ wire = <<>> /\ answers = <<>> /\ err = NoAnswer
  /\ pc = "send" => attempts = 1 /\ wire = <<>> /\ answers = <<>> /\ err = NoAnswer
  /\ pc = "wait" => attempts = 1 /\ Len(wire) = 1 /\ answers = <<>> /\ err = NoAnswer
  /\ Len(wire) <= 1
  /\ \/ answers = <<>> /\ err = NoAnswer
     \/ \E a \in Answers : answers = <<a>> /\ err = Returned(a)

Judged ==
  /\ pc # "end" => verdict = "none"
  /\ pc = "end" => (verdict = "passed" <=> \E i \in DOMAIN answers : answers[i] \in wanted)

CallInv == Progress /\ Judged

-----------------------------------------------------------------------------
\* A call that is not answered, or is answered, is over: there is no retry
\* (forUser, rawClient).
LEMMA NoRetry ==
  ASSUME NEW r, Finish(r), attempts = 1
  PROVE  pc' = "assert" /\ err' = r
BY DEF Finish, MaxAttempts

\* Building and running the stack comes before anything is sent.
LEMMA StackSteps ==
  ASSUME CallInv, Options \/ Run
  PROVE  CallInv'
<1>1. /\ pc \in {"options", "run"} /\ pc' \in {"options", "run", "dial", "assert"}
      /\ UNCHANGED <<netVars, err, testVars>>
  <2>1. CASE Options
    BY <2>1 DEF Options, WithHeaders, WithoutHeader, WithHeadersAfterSigning,
         WithoutHeaderAfterSigning, WithQuery, WithPathReplace, WithChunkedTransferEncoding,
         WithoutRequestChecksum, WithRawTransport, StartRun, Applies, Applied, PutFinalize
  <2>2. CASE Run
    BY <2>2 DEF Run, SetQuery, SetHeaders, RemoveHeaders, ResolveEndpoint, PayloadHash,
         PathReplace, Chunked, Sign, SignV2, EndRun, Runs
  <2>. QED BY <2>1, <2>2
<1>. QED BY <1>1 DEF CallInv, Progress, Judged, netVars, testVars

\* The connection.
LEMMA ConnectionSteps ==
  ASSUME CallInv, Connection
  PROVE  CallInv'
<1>1. CASE Dial
  BY <1>1 DEF Dial, CallInv, Progress, Judged, testVars
<1>2. CASE Send
  <2>1. wire' = <<Framed(req)>> /\ UNCHANGED <<attempts, answers, err, verdict, wanted>>
        /\ pc = "send" /\ pc' = "wait" /\ attempts = 1
    BY <1>2 DEF Send, CallInv, Progress, testVars
  <2>. QED BY <2>1 DEF CallInv, Progress, Judged
<1>3. CASE Receive
  <2>1. PICK a \in Answers : answers' = Append(answers, a) /\ Finish(Returned(a))
    BY <1>3 DEF Receive, Returned
  <2>2. pc = "wait" /\ attempts = 1 /\ answers = <<>> /\ UNCHANGED <<wire, attempts, verdict, wanted>>
    BY <1>3 DEF Receive, CallInv, Progress, testVars
  <2>3. answers' = <<a>>
    BY <2>1, <2>2
  <2>4. pc' = "assert" /\ err' = Returned(a)
    BY <2>1, <2>2, NoRetry
  <2>. QED BY <2>2, <2>3, <2>4 DEF CallInv, Progress, Judged
<1>4. CASE Break
  <2>1. pc \in {"send", "wait"} /\ Finish(NoAnswer) /\ UNCHANGED <<wire, answers, attempts, verdict, wanted>>
    BY <1>4 DEF Break, netVars, testVars
  <2>2. attempts = 1 /\ answers = <<>>
    BY <2>1 DEF CallInv, Progress
  <2>3. pc' = "assert" /\ err' = NoAnswer
    BY <2>1, <2>2, NoRetry
  <2>. QED BY <2>1, <2>2, <2>3 DEF CallInv, Progress, Judged
<1>. QED BY <1>1, <1>2, <1>3, <1>4 DEF Connection

\* An assertion that asks for the answers in as and tests holds is right if
\* the test holds of an answer exactly if it is one of them, and does not hold
\* without an answer.
LEMMA Judgement ==
  ASSUME CallInv, NEW as, NEW holds \in BOOLEAN, NEW mismatch \in {"failed", "stopped"},
         Judge(as, holds, mismatch),
         err = NoAnswer => ~holds,
         \A a \in Answers : err = Returned(a) => (holds <=> a \in as)
  PROVE  CallInv'
<1>1. /\ pc = "assert" /\ pc' = "end" /\ wanted' = as
      /\ UNCHANGED <<wire, answers, attempts, err>>
      /\ verdict' = IF holds THEN "passed" ELSE mismatch
  BY DEF Judge, netVars
<1>2. verdict' = "passed" <=> holds
  BY <1>1
<1>3. CASE answers = <<>> /\ err = NoAnswer
  BY <1>1, <1>2, <1>3 DEF CallInv, Progress, Judged
<1>4. CASE \E a \in Answers : answers = <<a>> /\ err = Returned(a)
  <2>1. PICK a \in Answers : answers = <<a>> /\ err = Returned(a)
    BY <1>4
  <2>2. (\E i \in DOMAIN answers' : answers'[i] \in wanted') <=> a \in as
    <3>1. answers' = <<a>> /\ DOMAIN <<a>> = {1} /\ <<a>>[1] = a
      BY <1>1, <2>1
    <3>. QED BY <1>1, <3>1
  <2>3. holds <=> a \in as
    BY <2>1
  <2>. QED BY <1>1, <1>2, <2>1, <2>2, <2>3 DEF CallInv, Progress, Judged
<1>. QED BY <1>3, <1>4 DEF CallInv, Progress

\* What an assertion finds if there is no answer.
LEMMA NothingFound ==
  ASSUME err = NoAnswer
  PROVE  /\ StatusAndCode = <<0, "">> /\ StatusAndCode[1] = 0 /\ StatusAndCode[2] = ""
         /\ err.ok = FALSE /\ err.status = 0
<1>1. err.ok = FALSE /\ err.status = 0 /\ err.code = ""
  BY DEF NoAnswer
<1>2. StatusAndCode = <<0, "">>
  BY <1>1 DEF StatusAndCode
<1>. QED BY <1>1, <1>2

\* And what it finds in a refusal.
LEMMA RefusalFound ==
  ASSUME NEW a \in Answers, err = Returned(a), a.status >= 300
  PROVE  /\ StatusAndCode = <<a.status, a.code>>
         /\ StatusAndCode[1] = a.status /\ StatusAndCode[2] = a.code
         /\ err.ok = FALSE /\ err.status = a.status
<1>1. a.status \in Nat
  BY ClientsAssumption DEF Answer
<1>2. err.ok = FALSE
  <2> DEFINE lower == a.status < 300
  <2>1. lower = FALSE
    BY <1>1
  <2>2. Returned(a) = [ok |-> lower, status |-> a.status, code |-> a.code]
    BY DEF Returned
  <2> HIDE DEF lower
  <2>. QED BY <2>1, <2>2
<1>3. err.status = a.status /\ err.code = a.code
  BY DEF Returned
<1>4. StatusAndCode = <<a.status, a.code>>
  BY <1>2, <1>3 DEF StatusAndCode
<1>. QED BY <1>2, <1>3, <1>4

\* In a success it finds no error.
LEMMA SuccessFound ==
  ASSUME NEW a \in Answers, err = Returned(a), a.status < 300
  PROVE  /\ StatusAndCode = <<0, "">>
         /\ StatusAndCode[1] = 0 /\ StatusAndCode[2] = ""
         /\ err.ok = TRUE /\ err.status = a.status
<1>1. a.status \in Nat
  BY ClientsAssumption DEF Answer
<1>2. err.ok = TRUE
  <2> DEFINE lower == a.status < 300
  <2>1. lower = TRUE
    BY <1>1
  <2>2. Returned(a) = [ok |-> lower, status |-> a.status, code |-> a.code]
    BY DEF Returned
  <2> HIDE DEF lower
  <2>. QED BY <2>1, <2>2
<1>3. err.status = a.status
  BY DEF Returned
<1>4. StatusAndCode = <<0, "">>
  BY <1>2 DEF StatusAndCode
<1>. QED BY <1>2, <1>3, <1>4

\* An answer is its status and its code.
LEMMA AnswerIs ==
  ASSUME NEW a \in Answers, NEW b \in Answers
  PROVE  /\ a.status \in Nat \ {0}
         /\ a = b <=> a.status = b.status /\ a.code = b.code
BY ClientsAssumption DEF Answer

\* The result of a call says whether it was a success.
LEMMA OkIsBoolean ==
  ASSUME CallInv
  PROVE  err.ok \in BOOLEAN
<1>1. CASE err = NoAnswer
  BY <1>1, NothingFound
<1>2. ASSUME NEW a \in Answers, err = Returned(a) PROVE err.ok \in BOOLEAN
  <2>1. a.status \in Nat
    BY AnswerIs
  <2>2. CASE a.status >= 300
    BY <1>2, <2>2, RefusalFound
  <2>3. CASE a.status < 300
    BY <1>2, <2>3, SuccessFound
  <2>. QED BY <2>1, <2>2, <2>3
<1>. QED BY <1>1, <1>2 DEF CallInv, Progress

\* Every assertion of s3util asks for the answers it names (assert.go).
LEMMA AssertionSteps ==
  ASSUME CallInv, Assertion
  PROVE  CallInv'
<1>1. Mismatch \in {"failed", "stopped"}
  BY DEF Mismatch
<1>2. \A b \in Answers : b.status \in Nat \ {0}
  BY AnswerIs
<1>3. \A a \in Failures : a \in Answers /\ a.status >= 300 /\ a.status # 0
  BY <1>2 DEF Failures
<1>4. CASE NoError
  <2>1. Judge(Answers \ Failures, err.ok, "stopped")
    BY <1>4 DEF NoError
  <2> DEFINE holds == err.ok  as == Answers \ Failures
  <2>2. err = NoAnswer => ~holds
    BY NothingFound
  <2>3. ASSUME NEW b \in Answers, err = Returned(b) PROVE holds <=> b \in as
    <3>1. CASE b.status >= 300
      <4>1. err.ok = FALSE
        BY <2>3, <3>1, RefusalFound
      <4>. QED BY <3>1, <4>1 DEF Failures
    <3>2. CASE b.status < 300
      <4>1. err.ok = TRUE
        BY <2>3, <3>2, SuccessFound
      <4>2. b \notin Failures
        BY <1>2, <3>2 DEF Failures
      <4>. QED BY <4>1, <4>2
    <3>. QED BY <1>2, <3>1, <3>2
  <2>4. holds \in BOOLEAN /\ Judge(as, holds, "stopped")
    BY <2>1, OkIsBoolean
  <2> HIDE DEF holds, as
  <2>. QED BY <2>2, <2>3, <2>4, Judgement
<1>5. CASE ErrorIs
  <2>1. PICK a \in Failures : Judge({a}, StatusAndCode = <<a.status, a.code>>, Mismatch)
    BY <1>5 DEF ErrorIs
  <2> DEFINE holds == StatusAndCode = <<a.status, a.code>>  as == {a}
  <2>2. err = NoAnswer => ~holds
    <3>1. a.status # 0 /\ <<a.status, a.code>>[1] = a.status
      BY <1>3
    <3>2. holds => StatusAndCode[1] = a.status
      BY <3>1
    <3>. QED BY <3>1, <3>2, NothingFound
  <2>3. ASSUME NEW b \in Answers, err = Returned(b) PROVE holds <=> b \in as
    <3>1. CASE b.status >= 300
      <4>1. StatusAndCode = <<b.status, b.code>>
        BY <2>3, <3>1, RefusalFound
      <4>2. holds <=> b.status = a.status /\ b.code = a.code
        BY <4>1
      <4>3. b = a <=> b.status = a.status /\ b.code = a.code
        BY <1>3, AnswerIs
      <4>. QED BY <4>2, <4>3
    <3>2. CASE b.status < 300
      <4>1. StatusAndCode[1] = 0
        BY <2>3, <3>2, SuccessFound
      <4>2. b # a /\ a.status # 0
        BY <1>2, <1>3, <3>2
      <4>3. holds => StatusAndCode[1] = a.status
        OBVIOUS
      <4>. QED BY <4>1, <4>2, <4>3
    <3>. QED BY <1>2, <3>1, <3>2
  <2>4. holds \in BOOLEAN /\ Judge(as, holds, Mismatch)
    BY <2>1
  <2> HIDE DEF holds, as
  <2>. QED BY <1>1, <2>2, <2>3, <2>4, Judgement
<1>6. CASE ErrorStatus
  <2>1. PICK a \in Failures :
          Judge({b \in Answers : b.status = a.status}, StatusAndCode[1] = a.status, Mismatch)
    BY <1>6 DEF ErrorStatus
  <2> DEFINE holds == StatusAndCode[1] = a.status
             as == {b \in Answers : b.status = a.status}
  <2>2. err = NoAnswer => ~holds
    BY <1>3, NothingFound
  <2>3. ASSUME NEW b \in Answers, err = Returned(b) PROVE holds <=> b \in as
    <3>1. CASE b.status >= 300
      <4>1. StatusAndCode[1] = b.status
        BY <2>3, <3>1, RefusalFound
      <4>. QED BY <4>1
    <3>2. CASE b.status < 300
      <4>1. StatusAndCode[1] = 0
        BY <2>3, <3>2, SuccessFound
      <4>2. b.status # a.status /\ a.status # 0
        BY <1>2, <1>3, <3>2
      <4>. QED BY <4>1, <4>2
    <3>. QED BY <1>2, <3>1, <3>2
  <2>4. holds \in BOOLEAN /\ Judge(as, holds, Mismatch)
    BY <2>1
  <2> HIDE DEF holds, as
  <2>. QED BY <1>1, <2>2, <2>3, <2>4, Judgement
<1>7. CASE ErrorIsOneOf
  <2>1. PICK a \in Failures, b \in Failures :
          Judge({c \in Answers : c.status \in {a.status, b.status} /\ c.code = a.code},
                StatusAndCode[1] \in {a.status, b.status} /\ StatusAndCode[2] = a.code, Mismatch)
    BY <1>7 DEF ErrorIsOneOf
  <2> DEFINE holds == StatusAndCode[1] \in {a.status, b.status} /\ StatusAndCode[2] = a.code
             as == {c \in Answers : c.status \in {a.status, b.status} /\ c.code = a.code}
  <2>2. err = NoAnswer => ~holds
    BY <1>3, NothingFound
  <2>3. ASSUME NEW c \in Answers, err = Returned(c) PROVE holds <=> c \in as
    <3>1. CASE c.status >= 300
      <4>1. StatusAndCode[1] = c.status /\ StatusAndCode[2] = c.code
        BY <2>3, <3>1, RefusalFound
      <4>. QED BY <4>1
    <3>2. CASE c.status < 300
      <4>1. StatusAndCode[1] = 0
        BY <2>3, <3>2, SuccessFound
      <4>2. c.status \notin {a.status, b.status} /\ 0 \notin {a.status, b.status}
        BY <1>2, <1>3, <3>2
      <4>. QED BY <4>1, <4>2
    <3>. QED BY <1>2, <3>1, <3>2
  <2>4. holds \in BOOLEAN /\ Judge(as, holds, Mismatch)
    BY <2>1
  <2> HIDE DEF holds, as
  <2>. QED BY <1>1, <2>2, <2>3, <2>4, Judgement
<1>8. CASE StatusIs
  <2>1. PICK a \in Answers \ Failures :
          Judge({b \in Answers : b.status = a.status}, err.ok /\ err.status = a.status,
                IF err.ok THEN "failed" ELSE "stopped")
    BY <1>8 DEF StatusIs
  <2> DEFINE holds == err.ok /\ err.status = a.status
             as == {b \in Answers : b.status = a.status}
             mismatch == IF err.ok THEN "failed" ELSE "stopped"
  <2>2. err = NoAnswer => ~holds
    BY NothingFound
  <2>3. ASSUME NEW b \in Answers, err = Returned(b) PROVE holds <=> b \in as
    <3>1. a.status < 300
      BY <1>2 DEF Failures
    <3>2. CASE b.status >= 300
      <4>1. err.ok = FALSE
        BY <2>3, <3>2, RefusalFound
      <4>2. b.status # a.status
        BY <1>2, <3>1, <3>2
      <4>. QED BY <4>1, <4>2
    <3>3. CASE b.status < 300
      <4>1. err.ok = TRUE /\ err.status = b.status
        BY <2>3, <3>3, SuccessFound
      <4>. QED BY <4>1
    <3>. QED BY <1>2, <3>2, <3>3
  <2>4. holds \in BOOLEAN
    BY OkIsBoolean
  <2>5. mismatch \in {"failed", "stopped"} /\ Judge(as, holds, mismatch)
    BY <2>1
  <2> HIDE DEF holds, as, mismatch
  <2>. QED BY <2>2, <2>3, <2>4, <2>5, Judgement
<1>. QED BY <1>4, <1>5, <1>6, <1>7, <1>8 DEF Assertion

\* The call is made once, and the assertion decides by what the server answered
\* and by nothing else: a test that expects a refusal does not pass because the
\* request did not get there (forUser, StatusAndCode, ErrorIs and the like).
THEOREM ServersVerdict == Spec => []VerdictIsTheServers
<1>1. Init => CallInv
  BY DEF Init, CallInv, Progress, Judged
<1>2. CallInv /\ [Next]_vars => CallInv'
  <2>1. ASSUME CallInv, UNCHANGED vars PROVE CallInv'
    BY <2>1 DEF vars, callVars, netVars, testVars, CallInv, Progress, Judged
  <2>. QED BY <2>1, StackSteps, ConnectionSteps, AssertionSteps DEF Next
<1>3. ASSUME CallInv PROVE VerdictIsTheServers
  <2>1. Len(wire) <= 1 /\ (verdict # "none" => pc = "end")
    BY <1>3 DEF CallInv, Progress, Judged
  <2>2. Len(answers) <= 1
    <3>1. \/ answers = <<>>
          \/ \E a \in Answers : answers = <<a>>
      BY <1>3 DEF CallInv, Progress
    <3>2. CASE answers = <<>>
      BY <3>2
    <3>3. CASE \E a \in Answers : answers = <<a>>
      <4>1. PICK a \in Answers : answers = <<a>>
        BY <3>3
      <4>2. Len(<<a>>) = 1
        OBVIOUS
      <4>. QED BY <4>1, <4>2
    <3>. QED BY <3>1, <3>2, <3>3
  <2>3. verdict # "none" => (verdict = "passed" <=> \E i \in DOMAIN answers : answers[i] \in wanted)
    BY <1>3, <2>1 DEF CallInv, Judged
  <2>. QED BY <2>1, <2>2, <2>3 DEF VerdictIsTheServers
<1>. QED BY <1>1, <1>2, <1>3, PTL DEF Spec

-----------------------------------------------------------------------------
(* The stack.                                                              *)

Kinds(s) == {s[i].kind : i \in 1..Len(s)}

\* No two middlewares of one name.
Distinct(s) == \A i, j \in 1..Len(s) : s[i].kind = s[j].kind => i = j

\* Where there is one middleware of a name, it is found.
LEMMA PlaceOf ==
  ASSUME NEW s \in Seq(Middleware), Distinct(s), NEW k
  PROVE  /\ k \in Kinds(s) => Place(s, k) \in 1..Len(s) /\ s[Place(s, k)].kind = k
         /\ k \notin Kinds(s) => Place(s, k) = 0
<1> DEFINE I == {i \in 1..Len(s) : s[i].kind = k}
<1>1. Place(s, k) = IF I # {} THEN Min(I) ELSE 0
  BY DEF Place, SelectInSeq
<1>2. ASSUME NEW i \in 1..Len(s), s[i].kind = k
      PROVE  Place(s, k) = i
  <2>1. I = {i}
    BY <1>2 DEF Distinct
  <2>2. Min({i}) = i
    BY DEF Min
  <2>. QED BY <1>1, <2>1, <2>2
<1>3. ASSUME k \notin Kinds(s) PROVE Place(s, k) = 0
  <2>1. I = {}
    BY <1>3 DEF Kinds
  <2>. QED BY <1>1, <2>1
<1>4. ASSUME k \in Kinds(s) PROVE Place(s, k) \in 1..Len(s) /\ s[Place(s, k)].kind = k
  BY <1>2, <1>4 DEF Kinds
<1>. QED BY <1>3, <1>4

\* What Insert and Add do to a stack that has no middleware of that name.
LEMMA Inserted ==
  ASSUME NEW s \in Seq(Middleware), Distinct(s), NEW i \in 1..(Len(s) + 1),
         NEW m \in Middleware, m.kind \notin Kinds(s)
  PROVE  /\ InsertAt(s, i, m) \in Seq(Middleware) /\ InsertAt(s, i, m) # <<>>
         /\ Distinct(InsertAt(s, i, m))
         /\ Kinds(InsertAt(s, i, m)) = Kinds(s) \cup {m.kind}
         /\ \A j \in 1..Len(InsertAt(s, i, m)) :
              \/ j < i /\ j \in 1..Len(s) /\ InsertAt(s, i, m)[j] = s[j]
              \/ j = i /\ InsertAt(s, i, m)[j] = m
              \/ j > i /\ j - 1 \in 1..Len(s) /\ InsertAt(s, i, m)[j] = s[j - 1]
<1> DEFINE a == SubSeq(s, 1, i - 1)  b == SubSeq(s, i, Len(s))
           t == InsertAt(s, i, m)
<1>1. Len(s) \in Nat /\ i \in Nat \ {0} /\ i <= Len(s) + 1
  OBVIOUS
<1>2. a \in Seq(Middleware) /\ Len(a) = i - 1 /\ \A j \in 1..(i - 1) : a[j] = s[j]
  BY <1>1
<1>3. b \in Seq(Middleware) /\ Len(b) = Len(s) - i + 1 /\ \A j \in 1..(Len(s) - i + 1) : b[j] = s[i + j - 1]
  BY <1>1
<1>4. t = (a \o <<m>>) \o b
  BY DEF InsertAt
<1> HIDE DEF a, b, t
<1>5. /\ t \in Seq(Middleware) /\ Len(t) = Len(s) + 1
      /\ \A j \in 1..(i - 1) : t[j] = s[j]
      /\ t[i] = m
      /\ \A j \in (i + 1)..(Len(s) + 1) : t[j] = s[j - 1]
  <2> DEFINE u == a \o <<m>>
  <2>1. u \in Seq(Middleware) /\ Len(u) = i /\ u[i] = m /\ \A j \in 1..(i - 1) : u[j] = s[j]
    BY <1>1, <1>2
  <2> HIDE DEF u
  <2>2. /\ u \o b \in Seq(Middleware) /\ Len(u \o b) = Len(s) + 1
        /\ \A j \in 1..i : (u \o b)[j] = u[j]
        /\ \A j \in (i + 1)..(Len(s) + 1) : (u \o b)[j] = b[j - i]
    <3>1. /\ u \o b \in Seq(Middleware) /\ Len(u \o b) = Len(u) + Len(b)
          /\ \A j \in 1..(Len(u) + Len(b)) : (u \o b)[j] = IF j <= Len(u) THEN u[j] ELSE b[j - Len(u)]
      BY <1>3, <2>1, ConcatProperties
    <3>2. Len(u) + Len(b) = Len(s) + 1 /\ Len(u) = i
      BY <1>1, <1>3, <2>1
    <3>3. \A j \in 1..i : j \in 1..(Len(s) + 1) /\ j <= i
      BY <1>1
    <3>4. \A j \in (i + 1)..(Len(s) + 1) : j \in 1..(Len(s) + 1) /\ ~(j <= i)
      BY <1>1
    <3>. QED BY <3>1, <3>2, <3>3, <3>4
  <2>3. \A j \in (i + 1)..(Len(s) + 1) : b[j - i] = s[j - 1]
    <3>1. SUFFICES ASSUME NEW j \in (i + 1)..(Len(s) + 1) PROVE b[j - i] = s[j - 1]
      OBVIOUS
    <3>2. j - i \in 1..(Len(s) - i + 1) /\ i + (j - i) - 1 = j - 1
      BY <1>1
    <3>. QED BY <1>3, <3>2
  <2>4. t = u \o b
    BY <1>4 DEF u
  <2>. QED BY <1>1, <2>1, <2>2, <2>3, <2>4
<1>6. \A j \in 1..Len(t) :
        \/ j < i /\ j \in 1..Len(s) /\ t[j] = s[j]
        \/ j = i /\ t[j] = m
        \/ j > i /\ j - 1 \in 1..Len(s) /\ t[j] = s[j - 1]
  BY <1>1, <1>5
<1>7. \A j \in 1..Len(s) : s[j].kind # m.kind
  BY DEF Kinds
<1>8. Distinct(t)
  <2>1. SUFFICES ASSUME NEW j \in 1..Len(t), NEW l \in 1..Len(t), t[j].kind = t[l].kind
                 PROVE  j = l
    BY DEF Distinct
  <2>2. \A x, y \in 1..Len(s) : s[x].kind = s[y].kind => x = y
    BY DEF Distinct
  <2>3. ASSUME j < i PROVE j = l
    <3>1. j \in 1..Len(s) /\ t[j].kind = s[j].kind
      BY <1>1, <1>5, <1>6, <2>3
    <3>2. CASE l < i
      <4>1. l \in 1..Len(s) /\ t[l].kind = s[l].kind
        BY <1>1, <1>5, <1>6, <3>2
      <4>. QED BY <2>1, <2>2, <3>1, <4>1
    <3>3. CASE l = i
      BY <1>5, <1>7, <2>1, <3>1, <3>3
    <3>4. CASE l > i
      <4>1. l - 1 \in 1..Len(s) /\ t[l].kind = s[l - 1].kind
        BY <1>1, <1>5, <1>6, <3>4
      <4>2. j = l - 1
        BY <2>1, <2>2, <3>1, <4>1
      <4>. QED BY <1>1, <1>5, <2>1, <2>3, <3>4, <4>2
    <3>. QED BY <1>1, <1>5, <3>2, <3>3, <3>4
  <2>4. CASE j = i
    <3>1. t[j].kind = m.kind
      BY <1>5, <2>4
    <3>2. ASSUME NEW p \in 1..Len(s), t[l] = s[p] PROVE FALSE
      BY <1>7, <2>1, <3>1, <3>2
    <3>. QED BY <1>6, <2>4, <3>2
  <2>5. ASSUME j > i PROVE j = l
    <3>1. j - 1 \in 1..Len(s) /\ t[j].kind = s[j - 1].kind
      BY <1>1, <1>5, <1>6, <2>5
    <3>2. CASE l < i
      <4>1. l \in 1..Len(s) /\ t[l].kind = s[l].kind
        BY <1>1, <1>5, <1>6, <3>2
      <4>2. j - 1 = l
        BY <2>1, <2>2, <3>1, <4>1
      <4>. QED BY <1>1, <1>5, <2>1, <2>5, <3>2, <4>2
    <3>3. CASE l = i
      BY <1>5, <1>7, <2>1, <3>1, <3>3
    <3>4. CASE l > i
      <4>1. l - 1 \in 1..Len(s) /\ t[l].kind = s[l - 1].kind
        BY <1>1, <1>5, <1>6, <3>4
      <4>2. j - 1 = l - 1
        BY <2>1, <2>2, <3>1, <4>1
      <4>. QED BY <1>1, <1>5, <2>1, <4>2
    <3>. QED BY <1>1, <1>5, <3>2, <3>3, <3>4
  <2>. QED BY <1>1, <1>5, <2>3, <2>4, <2>5
<1>9. Kinds(t) = Kinds(s) \cup {m.kind}
  <2>1. Kinds(t) \subseteq Kinds(s) \cup {m.kind}
    BY <1>6 DEF Kinds
  <2>2. i \in 1..Len(t) /\ t[i].kind = m.kind
    BY <1>1, <1>5
  <2>3. ASSUME NEW j \in 1..Len(s) PROVE s[j].kind \in Kinds(t)
    <3>1. CASE j < i
      BY <1>1, <1>5, <3>1 DEF Kinds
    <3>2. CASE j >= i
      <4>1. j + 1 \in 1..Len(t) /\ t[j + 1] = s[j]
        BY <1>1, <1>5, <3>2
      <4>. QED BY <4>1 DEF Kinds
    <3>. QED BY <1>1, <3>1, <3>2
  <2>. QED BY <2>1, <2>2, <2>3 DEF Kinds
<1>10. t # <<>>
  BY <1>1, <1>5
<1>. QED BY <1>5, <1>6, <1>8, <1>9, <1>10 DEF t

-----------------------------------------------------------------------------
(* Conflicts.                                                              *)

InFinalize == EditsBefore \cup EditsAfter \cup {"PathReplace", "Chunked"}
Unnamed == RawTransport \cup {"NoChecksum"}

\* The kinds among ks of the first n options.
Done(n, ks) == {opts[i].kind : i \in 1..n} \cap ks

\* The first n options go together.
Agree(n) ==
  /\ \A i, j \in 1..n : i < j /\ opts[i].kind = opts[j].kind => opts[i].kind \in Unnamed
  /\ client = "v2" => Done(n, NeedsSigning) = {}

\* The middleware of the SDK in the Finalize step.
Base == {"ResolveEndpoint", "PayloadHash", IF client = "v2" THEN "SignV2" ELSE "Signing"}

\* The stack holds what the first n options have put there.
StackHolds(n) ==
  /\ finalize \in Seq(Middleware) /\ Distinct(finalize)
  /\ Kinds(finalize) = Base \cup Done(n, InFinalize)
  /\ build \in Seq(Middleware) /\ Distinct(build)
  /\ Kinds(build) = Done(n, {"SetQuery"})

CallType == opts \in Seq(Option) /\ at \in 1..(Len(opts) + 1)

\* While options are applied those before the next one go together; once the
\* stack runs all do; a call that ends without an attempt ended in an option
\* that does not.
StackInv ==
  /\ CallType
  /\ pc \in {"options", "run", "dial", "send", "wait", "assert", "end"}
  /\ pc = "options" => Agree(at - 1) /\ StackHolds(at - 1)
  /\ pc \in {"run", "dial", "send", "wait"} => ~Conflict
  /\ pc \in {"assert", "end"} =>
       IF attempts = 0 THEN Conflict /\ err = NoAnswer ELSE ~Conflict

\* Options that agree do not conflict, and one that does not agree with those
\* before it conflicts.
LEMMA AgreeOrConflict ==
  ASSUME CallType
  PROVE  /\ Agree(Len(opts)) => ~Conflict
         /\ \A n \in 1..Len(opts) :
              opts[n].kind \notin Unnamed /\ opts[n].kind \in Done(n - 1, OptionKind) => Conflict
         /\ \A n \in 1..Len(opts) :
              client = "v2" /\ opts[n].kind \in NeedsSigning => Conflict
<1>1. DOMAIN opts = 1..Len(opts) /\ Len(opts) \in Nat
  BY DEF CallType
<1>2. ASSUME Agree(Len(opts)), Conflict PROVE FALSE
  <2>1. CASE client = "v2" /\ \E k \in NeedsSigning : Gives(k)
    BY <1>1, <1>2, <2>1 DEF Agree, Done, Gives
  <2>2. CASE \E i, j \in DOMAIN opts :
               i < j /\ opts[i].kind = opts[j].kind /\ opts[i].kind \notin RawTransport \cup {"NoChecksum"}
    BY <1>1, <1>2, <2>2 DEF Agree, Unnamed
  <2>. QED BY <1>2, <2>1, <2>2 DEF Conflict
<1>3. ASSUME NEW n \in 1..Len(opts), opts[n].kind \notin Unnamed,
             opts[n].kind \in Done(n - 1, OptionKind)
      PROVE  Conflict
  <2>1. PICK i \in 1..(n - 1) : opts[i].kind = opts[n].kind
    BY <1>3 DEF Done
  <2>2. i \in DOMAIN opts /\ n \in DOMAIN opts /\ i < n
    BY <1>1, <2>1
  <2>. QED BY <1>3, <2>1, <2>2 DEF Conflict, Unnamed
<1>4. ASSUME NEW n \in 1..Len(opts), client = "v2", opts[n].kind \in NeedsSigning
      PROVE  Conflict
  BY <1>1, <1>4 DEF Conflict, Gives
<1>. QED BY <1>2, <1>3, <1>4

\* An option that is new and can find its place agrees with those before it.
LEMMA AgreeOneMore ==
  ASSUME CallType, NEW n \in 1..Len(opts), Agree(n - 1),
         opts[n].kind \in Unnamed \/ opts[n].kind \notin Done(n - 1, OptionKind),
         ~(client = "v2" /\ opts[n].kind \in NeedsSigning)
  PROVE  Agree(n)
<1>1. \A i \in 1..n : i \in 1..(n - 1) \/ i = n
  OBVIOUS
<1>2. opts[n].kind \in OptionKind
  <2>1. opts[n] \in Option
    BY DEF CallType
  <2>. QED BY <2>1 DEF Option
<1>3. ASSUME NEW i \in 1..n, NEW j \in 1..n, i < j, opts[i].kind = opts[j].kind
      PROVE  opts[i].kind \in Unnamed
  <2>1. i \in 1..(n - 1)
    BY <1>3
  <2>2. CASE j = n
    <3>1. opts[n].kind \in {opts[l].kind : l \in 1..(n - 1)}
      BY <1>3, <2>1, <2>2
    <3>. QED BY <1>2, <1>3, <2>2, <3>1 DEF Done
  <2>3. CASE j \in 1..(n - 1)
    BY <1>3, <2>1, <2>3 DEF Agree
  <2>. QED BY <1>1, <2>2, <2>3
<1>4. ASSUME client = "v2" PROVE Done(n, NeedsSigning) = {}
  BY <1>1, <1>4 DEF Done, Agree
<1>. QED BY <1>3, <1>4 DEF Agree

\* What one option more makes of the kinds applied.
LEMMA DoneOneMore ==
  ASSUME NEW n \in Nat \ {0}, NEW ks
  PROVE  Done(n, ks) = Done(n - 1, ks) \cup ({opts[n].kind} \cap ks)
<1>1. \A i : i \in 1..n <=> i \in 1..(n - 1) \/ i = n
  OBVIOUS
<1>. QED BY <1>1 DEF Done

\* Add and Insert succeed if the place is there and the name is new, and add
\* to the kinds; if not, the options conflict.
LEMMA PutOne ==
  ASSUME NEW step \in Seq(Middleware), Distinct(step), NEW i \in 0..(Len(step) + 1),
         opts[at] \in Middleware
  PROVE  /\ Put(step, i) # <<>> <=> i # 0 /\ opts[at].kind \notin Kinds(step)
         /\ Put(step, i) # <<>> =>
              /\ Put(step, i) \in Seq(Middleware) /\ Distinct(Put(step, i))
              /\ Kinds(Put(step, i)) = Kinds(step) \cup {opts[at].kind}
<1> DEFINE k == opts[at].kind
<1>1. Place(step, k) # 0 <=> k \in Kinds(step)
  BY PlaceOf
<1>2. CASE i = 0 \/ k \in Kinds(step)
  BY <1>1, <1>2 DEF Put
<1>3. CASE i # 0 /\ k \notin Kinds(step)
  <2>1. Put(step, i) = InsertAt(step, i, opts[at])
    BY <1>1, <1>3 DEF Put
  <2>2. i \in 1..(Len(step) + 1)
    BY <1>3
  <2>. QED BY <1>3, <2>1, <2>2, Inserted
<1>. QED BY <1>2, <1>3

\* What the SDK's part of the stack has to do with the options.
LEMMA BaseApart ==
  /\ Base \cap OptionKind = {}
  /\ "Signing" \in Base <=> client # "v2"
  /\ InFinalize \subseteq OptionKind /\ InFinalize \cap Unnamed = {}
  /\ NeedsSigning \subseteq InFinalize
  /\ "Signing" \notin OptionKind /\ "SetQuery" \in OptionKind \ (Unnamed \cup InFinalize)
  /\ Unnamed \cap NeedsSigning = {}
BY DEF Base, InFinalize, Unnamed, NeedsSigning, OptionKind, EditsBefore, EditsAfter, RawTransport

\* An option that puts its middleware into the Finalize step at place i, which
\* is missing exactly if there is no v4 signer to look for.
LEMMA FinalizeStep ==
  ASSUME StackInv, Progress, NEW k \in InFinalize, Applies(k),
         NEW i \in 0..(Len(finalize) + 1), PutFinalize(i),
         i = 0 <=> client = "v2" /\ k \in NeedsSigning
  PROVE  StackInv'
<1>1. /\ pc = "options" /\ at \in 1..Len(opts) /\ opts[at].kind = k /\ CallType
      /\ Agree(at - 1) /\ StackHolds(at - 1)
      /\ opts \in Seq(Option) /\ attempts = 0 /\ err = NoAnswer
  BY DEF Applies, StackInv, CallType, Progress
<1>2. opts[at] \in Middleware
  <2>1. opts[at] \in Option
    BY <1>1
  <2>. QED BY <2>1 DEF Option, Middleware
<1> DEFINE f == Put(finalize, i)
<1>3. /\ f # <<>> <=> i # 0 /\ k \notin Kinds(finalize)
      /\ f # <<>> => f \in Seq(Middleware) /\ Distinct(f) /\ Kinds(f) = Kinds(finalize) \cup {k}
  <2>1. finalize \in Seq(Middleware) /\ Distinct(finalize)
    BY <1>1 DEF StackHolds
  <2>. QED BY <1>1, <1>2, <2>1, PutOne
<1>4. /\ finalize' = f /\ Applied(f # <<>>)
      /\ UNCHANGED <<client, opts, build, attempts, err>>
  BY DEF PutFinalize, callVars, netVars
<1>5. k \in Kinds(finalize) <=> k \in Done(at - 1, OptionKind)
  <2>1. Kinds(finalize) = Base \cup Done(at - 1, InFinalize)
    BY <1>1 DEF StackHolds
  <2>. QED BY <2>1, BaseApart DEF Done
<1> HIDE DEF f
<1>6. CASE f # <<>>
  <2>1. pc' = "options" /\ at' = at + 1
    BY <1>1, <1>4, <1>6 DEF Applied
  <2>2. PICK n \in 1..Len(opts) : n = at
    BY <1>1
  <2>3. at' - 1 = n /\ n \in Nat \ {0} /\ CallType'
    BY <1>1, <1>4, <2>1, <2>2 DEF CallType
  <2>4. Agree(n)
    BY <1>1, <1>3, <1>5, <1>6, <2>2, AgreeOneMore
  <2>5. Done(n, InFinalize) = Done(n - 1, InFinalize) \cup {k}
    BY <1>1, <2>2, <2>3, DoneOneMore
  <2>6. Done(n, {"SetQuery"}) = Done(n - 1, {"SetQuery"})
    <3>1. {k} \cap {"SetQuery"} = {}
      BY BaseApart
    <3>2. Done(n, {"SetQuery"}) = Done(n - 1, {"SetQuery"}) \cup ({k} \cap {"SetQuery"})
      BY <1>1, <2>2, <2>3, DoneOneMore
    <3>. QED BY <3>1, <3>2
  <2>7. Agree(n)' /\ Done(n, {"SetQuery"})' = Done(n, {"SetQuery"})
        /\ Done(n, InFinalize)' = Done(n, InFinalize) /\ Base' = Base
    BY <1>4, <2>4 DEF Agree, Done, Base
  <2>8. StackHolds(n)'
    <3>1. finalize' \in Seq(Middleware) /\ Distinct(finalize')
      BY <1>3, <1>4, <1>6
    <3>2. Kinds(finalize') = Base \cup Done(n, InFinalize)
      BY <1>1, <1>3, <1>4, <1>6, <2>2, <2>5 DEF StackHolds
    <3>3. build' \in Seq(Middleware) /\ Distinct(build')
      BY <1>1, <1>4 DEF StackHolds
    <3>4. Kinds(build') = Done(n, {"SetQuery"})
      BY <1>1, <1>4, <2>2, <2>6 DEF StackHolds
    <3>. QED BY <2>7, <3>1, <3>2, <3>3, <3>4 DEF StackHolds, Distinct, Kinds
  <2>9. Agree(at - 1)' /\ StackHolds(at - 1)'
    BY <2>3, <2>7, <2>8
  <2>. QED BY <2>1, <2>3, <2>9 DEF StackInv
<1>7. CASE f = <<>>
  <2>1. pc' = "assert" /\ at' = at
    BY <1>4, <1>7 DEF Applied
  <2>2. Conflict
    BY <1>1, <1>3, <1>5, <1>7, BaseApart, AgreeOrConflict
  <2>3. Conflict' /\ attempts' = 0 /\ err' = NoAnswer /\ CallType'
    BY <1>1, <1>4, <2>1, <2>2 DEF Conflict, Gives, CallType
  <2>. QED BY <2>1, <2>3 DEF StackInv
<1>. QED BY <1>6, <1>7

\* Where the options find the v4 signer: nowhere with a v2 client (signV2).
LEMMA SignerPlace ==
  ASSUME StackInv, pc = "options"
  PROVE  /\ Len(finalize) \in Nat
         /\ BeforeSigning \in 0..(Len(finalize) + 1) /\ (BeforeSigning = 0 <=> client = "v2")
         /\ AfterSigning \in 0..(Len(finalize) + 1) /\ (AfterSigning = 0 <=> client = "v2")
<1>1. finalize \in Seq(Middleware) /\ Distinct(finalize)
      /\ Kinds(finalize) = Base \cup Done(at - 1, InFinalize)
  BY DEF StackInv, StackHolds
<1>2. "Signing" \in Kinds(finalize) <=> client # "v2"
  <2>1. "Signing" \notin Done(at - 1, InFinalize)
    BY BaseApart DEF Done
  <2>. QED BY <1>1, <2>1, BaseApart
<1>3. Len(finalize) \in Nat
  BY <1>1
<1>4. CASE client = "v2"
  <2>1. Place(finalize, "Signing") = 0
    BY <1>1, <1>2, <1>4, PlaceOf
  <2>. QED BY <1>3, <1>4, <2>1 DEF BeforeSigning, AfterSigning
<1>5. CASE client # "v2"
  <2>1. Place(finalize, "Signing") \in 1..Len(finalize)
    BY <1>1, <1>2, <1>5, PlaceOf
  <2>. QED BY <1>3, <1>5, <2>1 DEF BeforeSigning, AfterSigning
<1>. QED BY <1>4, <1>5, <1>3

\* The options that go into the Finalize step.
LEMMA FinalizeOptions ==
  ASSUME StackInv, Progress,
         \/ WithHeaders \/ WithoutHeader \/ WithHeadersAfterSigning
         \/ WithoutHeaderAfterSigning \/ WithPathReplace \/ WithChunkedTransferEncoding
  PROVE  StackInv'
<1>1. ASSUME NEW k, Applies(k) PROVE pc = "options"
  BY <1>1 DEF Applies
<1>2. CASE WithHeaders
  <2>1. Applies("SetHeaders") /\ PutFinalize(1) /\ 1 \in 0..(Len(finalize) + 1)
    BY <1>1, <1>2, SignerPlace DEF WithHeaders
  <2>2. "SetHeaders" \in InFinalize /\ "SetHeaders" \notin NeedsSigning
    BY DEF InFinalize, NeedsSigning, EditsBefore, EditsAfter
  <2>. QED BY <2>1, <2>2, FinalizeStep
<1>3. CASE WithoutHeader
  <2>1. Applies("RemoveHeaders") /\ PutFinalize(1) /\ 1 \in 0..(Len(finalize) + 1)
    BY <1>1, <1>3, SignerPlace DEF WithoutHeader
  <2>2. "RemoveHeaders" \in InFinalize /\ "RemoveHeaders" \notin NeedsSigning
    BY DEF InFinalize, NeedsSigning, EditsBefore, EditsAfter
  <2>. QED BY <2>1, <2>2, FinalizeStep
<1>4. CASE WithHeadersAfterSigning
  <2>1. Applies("SetHeadersAfterSigning") /\ PutFinalize(AfterSigning)
    BY <1>4 DEF WithHeadersAfterSigning
  <2>2. "SetHeadersAfterSigning" \in InFinalize \cap NeedsSigning
    BY DEF InFinalize, NeedsSigning, EditsAfter
  <2>3. AfterSigning \in 0..(Len(finalize) + 1) /\ (AfterSigning = 0 <=> client = "v2")
    BY <1>1, <2>1, SignerPlace
  <2>. QED BY <2>1, <2>2, <2>3, FinalizeStep
<1>5. CASE WithoutHeaderAfterSigning
  <2>1. Applies("RemoveHeadersAfterSigning") /\ PutFinalize(AfterSigning)
    BY <1>5 DEF WithoutHeaderAfterSigning
  <2>2. "RemoveHeadersAfterSigning" \in InFinalize \cap NeedsSigning
    BY DEF InFinalize, NeedsSigning, EditsAfter
  <2>3. AfterSigning \in 0..(Len(finalize) + 1) /\ (AfterSigning = 0 <=> client = "v2")
    BY <1>1, <2>1, SignerPlace
  <2>. QED BY <2>1, <2>2, <2>3, FinalizeStep
<1>6. CASE WithPathReplace
  <2>1. Applies("PathReplace") /\ PutFinalize(BeforeSigning)
    BY <1>6 DEF WithPathReplace
  <2>2. "PathReplace" \in InFinalize \cap NeedsSigning
    BY DEF InFinalize, NeedsSigning
  <2>3. BeforeSigning \in 0..(Len(finalize) + 1) /\ (BeforeSigning = 0 <=> client = "v2")
    BY <1>1, <2>1, SignerPlace
  <2>. QED BY <2>1, <2>2, <2>3, FinalizeStep
<1>7. CASE WithChunkedTransferEncoding
  <2>1. Applies("Chunked") /\ PutFinalize(BeforeSigning)
    BY <1>7 DEF WithChunkedTransferEncoding
  <2>2. "Chunked" \in InFinalize \cap NeedsSigning
    BY DEF InFinalize, NeedsSigning
  <2>3. BeforeSigning \in 0..(Len(finalize) + 1) /\ (BeforeSigning = 0 <=> client = "v2")
    BY <1>1, <2>1, SignerPlace
  <2>. QED BY <2>1, <2>2, <2>3, FinalizeStep
<1>. QED BY <1>2, <1>3, <1>4, <1>5, <1>6, <1>7

\* WithQuery goes into the Build step, whose end is always there.
LEMMA QueryStep ==
  ASSUME StackInv, Progress, WithQuery
  PROVE  StackInv'
<1> DEFINE k == "SetQuery"
<1>1. /\ pc = "options" /\ at \in 1..Len(opts) /\ opts[at].kind = k /\ CallType
      /\ Agree(at - 1) /\ StackHolds(at - 1)
      /\ opts \in Seq(Option) /\ attempts = 0 /\ err = NoAnswer
  BY DEF WithQuery, Applies, StackInv, CallType, Progress
<1>2. opts[at] \in Middleware
  <2>1. opts[at] \in Option
    BY <1>1
  <2>. QED BY <2>1 DEF Option, Middleware
<1> DEFINE f == Put(build, Len(build) + 1)
<1>3. /\ f # <<>> <=> k \notin Kinds(build)
      /\ f # <<>> => f \in Seq(Middleware) /\ Distinct(f) /\ Kinds(f) = Kinds(build) \cup {k}
  <2>1. build \in Seq(Middleware) /\ Distinct(build)
    BY <1>1 DEF StackHolds
  <2>2. Len(build) + 1 \in 0..(Len(build) + 1) /\ Len(build) + 1 # 0
    BY <2>1
  <2>. QED BY <1>1, <1>2, <2>1, <2>2, PutOne
<1>4. /\ build' = f /\ Applied(f # <<>>)
      /\ UNCHANGED <<client, opts, finalize, attempts, err>>
  BY DEF WithQuery, callVars, netVars
<1>5. k \in Kinds(build) <=> k \in Done(at - 1, OptionKind)
  <2>1. Kinds(build) = Done(at - 1, {"SetQuery"})
    BY <1>1 DEF StackHolds
  <2>. QED BY <2>1, BaseApart DEF Done
<1>6. k \notin Unnamed /\ k \notin NeedsSigning /\ {k} \cap InFinalize = {}
  BY BaseApart
<1> HIDE DEF f, k
<1>7. CASE f # <<>>
  <2>1. pc' = "options" /\ at' = at + 1
    BY <1>1, <1>4, <1>7 DEF Applied
  <2>2. PICK n \in 1..Len(opts) : n = at
    BY <1>1
  <2>3. at' - 1 = n /\ n \in Nat \ {0} /\ CallType'
    BY <1>1, <1>4, <2>1, <2>2 DEF CallType
  <2>4. Agree(n)
    BY <1>1, <1>3, <1>5, <1>6, <1>7, <2>2, AgreeOneMore
  <2>5. Done(n, {"SetQuery"}) = Done(n - 1, {"SetQuery"}) \cup {k}
    BY <1>1, <2>2, <2>3, DoneOneMore DEF k
  <2>6. Done(n, InFinalize) = Done(n - 1, InFinalize)
    <3>1. Done(n, InFinalize) = Done(n - 1, InFinalize) \cup ({k} \cap InFinalize)
      BY <1>1, <2>2, <2>3, DoneOneMore
    <3>. QED BY <1>6, <3>1
  <2>7. Agree(n)' /\ Done(n, {"SetQuery"})' = Done(n, {"SetQuery"})
        /\ Done(n, InFinalize)' = Done(n, InFinalize) /\ Base' = Base
    BY <1>4, <2>4 DEF Agree, Done, Base
  <2>8. StackHolds(n)'
    <3>1. build' \in Seq(Middleware) /\ Distinct(build')
      BY <1>3, <1>4, <1>7
    <3>2. Kinds(build') = Done(n, {"SetQuery"})
      BY <1>1, <1>3, <1>4, <1>7, <2>2, <2>5 DEF StackHolds
    <3>3. finalize' \in Seq(Middleware) /\ Distinct(finalize')
      BY <1>1, <1>4 DEF StackHolds
    <3>4. Kinds(finalize') = Base \cup Done(n, InFinalize)
      BY <1>1, <1>4, <2>2, <2>6 DEF StackHolds
    <3>. QED BY <2>7, <3>1, <3>2, <3>3, <3>4 DEF StackHolds, Distinct, Kinds
  <2>9. Agree(at - 1)' /\ StackHolds(at - 1)'
    BY <2>3, <2>7, <2>8
  <2>. QED BY <2>1, <2>3, <2>9 DEF StackInv
<1>8. CASE f = <<>>
  <2>1. pc' = "assert" /\ at' = at
    BY <1>4, <1>8 DEF Applied
  <2>2. Conflict
    BY <1>1, <1>3, <1>5, <1>6, <1>8, AgreeOrConflict
  <2>3. Conflict' /\ attempts' = 0 /\ err' = NoAnswer /\ CallType'
    BY <1>1, <1>4, <2>1, <2>2 DEF Conflict, Gives, CallType
  <2>. QED BY <2>1, <2>3 DEF StackInv
<1>. QED BY <1>7, <1>8

\* The options that have no place in the stack always succeed.
LEMMA UnnamedStep ==
  ASSUME StackInv, WithoutRequestChecksum \/ WithRawTransport
  PROVE  StackInv'
<1>1. PICK k \in Unnamed : Applies(k)
  BY DEF WithoutRequestChecksum, WithRawTransport, Unnamed
<1>2. /\ pc = "options" /\ at \in 1..Len(opts) /\ opts[at].kind = k /\ CallType
      /\ Agree(at - 1) /\ StackHolds(at - 1)
  BY <1>1 DEF Applies, StackInv, CallType
<1>3. pc' = "options" /\ at' = at + 1 /\ UNCHANGED <<client, opts, finalize, build>>
  BY <1>2 DEF WithoutRequestChecksum, WithRawTransport, Applied, callVars
<1>4. PICK n \in 1..Len(opts) : n = at
  BY <1>2
<1>5. at' - 1 = n /\ n \in Nat \ {0} /\ CallType'
  BY <1>2, <1>3, <1>4 DEF CallType
<1>6. k \notin NeedsSigning /\ {k} \cap InFinalize = {} /\ {k} \cap {"SetQuery"} = {}
  BY BaseApart
<1>7. Agree(n)
  BY <1>2, <1>4, <1>6, AgreeOneMore
<1>8. Done(n, InFinalize) = Done(n - 1, InFinalize)
  <2>1. Done(n, InFinalize) = Done(n - 1, InFinalize) \cup ({k} \cap InFinalize)
    BY <1>2, <1>4, <1>5, DoneOneMore
  <2>. QED BY <1>6, <2>1
<1>9. Done(n, {"SetQuery"}) = Done(n - 1, {"SetQuery"})
  <2>1. Done(n, {"SetQuery"}) = Done(n - 1, {"SetQuery"}) \cup ({k} \cap {"SetQuery"})
    BY <1>2, <1>4, <1>5, DoneOneMore
  <2>. QED BY <1>6, <2>1
<1>10. StackHolds(n)
  BY <1>2, <1>4, <1>8, <1>9 DEF StackHolds
<1>11. Agree(n)' /\ StackHolds(n)'
  <2>1. Agree(n)' /\ Done(n, {"SetQuery"})' = Done(n, {"SetQuery"})
        /\ Done(n, InFinalize)' = Done(n, InFinalize) /\ Base' = Base
    BY <1>3, <1>7 DEF Agree, Done, Base
  <2>2. /\ Kinds(finalize)' = Kinds(finalize) /\ Kinds(build)' = Kinds(build)
        /\ Distinct(finalize)' = Distinct(finalize) /\ Distinct(build)' = Distinct(build)
    BY <1>3 DEF Kinds, Distinct
  <2>. QED BY <1>3, <1>10, <2>1, <2>2 DEF StackHolds
<1>12. Agree(at - 1)' /\ StackHolds(at - 1)'
  BY <1>5, <1>11
<1>. QED BY <1>3, <1>5, <1>12 DEF StackInv

\* From the start of the run on, the stack no longer matters.
LEMMA LaterSteps ==
  ASSUME StackInv, Progress, StartRun \/ Run \/ Connection \/ Assertion
  PROVE  StackInv'
<1>1. UNCHANGED <<client, opts, at>>
  <2>1. CASE StartRun
    BY <2>1 DEF StartRun, callVars
  <2>2. CASE Run
    BY <2>2 DEF Run, SetQuery, SetHeaders, RemoveHeaders, ResolveEndpoint, PayloadHash,
         PathReplace, Chunked, Sign, SignV2, EndRun, Runs, callVars
  <2>3. CASE Connection
    BY <2>3 DEF Connection, Dial, Send, Receive, Break, callVars
  <2>4. CASE Assertion
    BY <2>4 DEF Assertion, NoError, ErrorIs, ErrorStatus, ErrorIsOneOf, StatusIs, Judge, callVars
  <2>. QED BY <2>1, <2>2, <2>3, <2>4
<1>2. CallType' /\ Conflict' = Conflict
  BY <1>1 DEF StackInv, CallType, Conflict, Gives
<1>3. CASE StartRun
  <2>1. pc = "options" /\ at = Len(opts) + 1 /\ pc' = "run"
    BY <1>3 DEF StartRun, StackInv, CallType
  <2>2. Agree(Len(opts))
    <3>1. at - 1 = Len(opts)
      BY <2>1 DEF StackInv, CallType
    <3>. QED BY <2>1, <3>1 DEF StackInv
  <2>. QED BY <1>2, <2>1, <2>2, AgreeOrConflict DEF StackInv
<1>4. CASE Run
  <2>1. pc = "run" /\ pc' \in {"run", "dial"}
    BY <1>4 DEF Run, SetQuery, SetHeaders, RemoveHeaders, ResolveEndpoint, PayloadHash,
         PathReplace, Chunked, Sign, SignV2, EndRun, Runs
  <2>. QED BY <1>2, <2>1 DEF StackInv
<1>5. CASE Connection
  <2>1. /\ pc \in {"dial", "send", "wait"}
        /\ \/ pc' \in {"send", "wait"}
           \/ pc' = "assert" /\ attempts' = 1
    <3>1. CASE Dial
      BY <3>1 DEF Dial
    <3>2. CASE Send
      BY <3>2 DEF Send
    <3>3. CASE Receive
      <4>1. pc = "wait" /\ attempts = 1 /\ attempts' = 1
        BY <3>3 DEF Receive, Progress
      <4>2. PICK a \in Answers : Finish(Returned(a))
        BY <3>3 DEF Receive, Returned
      <4>. QED BY <4>1, <4>2, NoRetry
    <3>4. CASE Break
      <4>1. pc \in {"send", "wait"} /\ attempts = 1 /\ attempts' = 1 /\ Finish(NoAnswer)
        BY <3>4 DEF Break, Progress, netVars
      <4>. QED BY <4>1, NoRetry
    <3>. QED BY <1>5, <3>1, <3>2, <3>3, <3>4 DEF Connection
  <2>. QED BY <1>2, <2>1 DEF StackInv
<1>6. CASE Assertion
  <2>1. pc = "assert" /\ pc' = "end" /\ UNCHANGED <<attempts, err>>
    BY <1>6 DEF Assertion, NoError, ErrorIs, ErrorStatus, ErrorIsOneOf, StatusIs, Judge, netVars
  <2>. QED BY <1>2, <2>1 DEF StackInv
<1>. QED BY <1>3, <1>4, <1>5, <1>6

\* What the stack holds at the start: that of the SDK, with the v2 signer in
\* the place of the other (signV2).
LEMMA FirstStack ==
  ASSUME Init
  PROVE  StackInv
<1>1. SDKFinalize \in Seq(Middleware) /\ Len(SDKFinalize) = 3 /\ Distinct(SDKFinalize)
      /\ Kinds(SDKFinalize) = {"ResolveEndpoint", "PayloadHash", "Signing"}
      /\ SDKFinalize[1].kind = "ResolveEndpoint" /\ SDKFinalize[2].kind = "PayloadHash"
      /\ SDKFinalize[3].kind = "Signing"
  <2>1. \A k \in {"ResolveEndpoint", "PayloadHash", "Signing"} : Mw(k) \in Middleware /\ Mw(k).kind = k
    BY DEF Mw, Middleware
  <2>2. SDKFinalize = <<Mw("ResolveEndpoint"), Mw("PayloadHash"), Mw("Signing")>>
    BY DEF SDKFinalize
  <2>3. SDKFinalize \in Seq(Middleware) /\ Len(SDKFinalize) = 3
        /\ SDKFinalize[1].kind = "ResolveEndpoint" /\ SDKFinalize[2].kind = "PayloadHash"
        /\ SDKFinalize[3].kind = "Signing"
    BY <2>1, <2>2
  <2>4. 1..Len(SDKFinalize) = {1, 2, 3}
    BY <2>3
  <2>. QED BY <2>3, <2>4 DEF Distinct, Kinds
<1>2. Place(SDKFinalize, "Signing") = 3
  <2>1. Place(SDKFinalize, "Signing") \in 1..Len(SDKFinalize)
        /\ SDKFinalize[Place(SDKFinalize, "Signing")].kind = "Signing"
    BY <1>1, PlaceOf
  <2>. QED BY <1>1, <2>1 DEF Distinct
<1>3. /\ V2Swap(SDKFinalize) \in Seq(Middleware) /\ Distinct(V2Swap(SDKFinalize))
      /\ Kinds(V2Swap(SDKFinalize)) = {"ResolveEndpoint", "PayloadHash", "SignV2"}
  <2> DEFINE t == V2Swap(SDKFinalize)
  <2>1. Mw("SignV2") \in Middleware /\ Mw("SignV2").kind = "SignV2"
    BY DEF Mw, Middleware
  <2>2. t = [SDKFinalize EXCEPT ![3] = Mw("SignV2")]
    BY <1>2 DEF V2Swap
  <2> HIDE DEF t
  <2>3. t \in Seq(Middleware) /\ Len(t) = 3 /\ t[1] = SDKFinalize[1] /\ t[2] = SDKFinalize[2]
        /\ t[3] = Mw("SignV2")
    BY <1>1, <2>1, <2>2
  <2>4. 1..Len(t) = {1, 2, 3}
    BY <2>3
  <2>5. t[1].kind = "ResolveEndpoint" /\ t[2].kind = "PayloadHash" /\ t[3].kind = "SignV2"
    BY <1>1, <2>1, <2>3
  <2>6. Distinct(t) /\ Kinds(t) = {"ResolveEndpoint", "PayloadHash", "SignV2"}
    BY <2>4, <2>5 DEF Distinct, Kinds
  <2>. QED BY <2>3, <2>6 DEF t
<1>4. /\ finalize \in Seq(Middleware) /\ Distinct(finalize) /\ Kinds(finalize) = Base
  BY <1>1, <1>3 DEF Init, Base
<1>5. CallType /\ at - 1 = 0
  <2>1. opts \in Seq(Option) /\ at = 1
    BY ClientsAssumption DEF Init
  <2>. QED BY <2>1 DEF CallType
<1>6. \A ks : Done(0, ks) = {}
  BY DEF Done
<1>7. build = <<>> /\ pc = "options"
  BY DEF Init
<1>8. build \in Seq(Middleware) /\ Distinct(build) /\ Kinds(build) = {}
  BY <1>7 DEF Distinct, Kinds
<1>9. Agree(0) /\ StackHolds(0)
  BY <1>4, <1>6, <1>8 DEF Agree, StackHolds
<1>. QED BY <1>5, <1>7, <1>9 DEF StackInv

\* How far a call has come agrees with its stack.
LEMMA CallInvariant == Spec => [](CallInv /\ StackInv)
<1> DEFINE I == CallInv /\ StackInv
<1>1. Init => I
  <2>1. Init => CallInv
    BY DEF Init, CallInv, Progress, Judged
  <2>. QED BY <2>1, FirstStack
<1>2. I /\ [Next]_vars => I'
  <2>1. ASSUME I, UNCHANGED vars PROVE I'
    <3>1. CallInv'
      BY <2>1 DEF vars, callVars, netVars, testVars, CallInv, Progress, Judged
    <3>2. UNCHANGED <<client, opts, pc, at, build, finalize, attempts, err>>
      BY <2>1 DEF vars, callVars, stackVars, netVars
    <3>3. StackInv'
      <4>1. PICK n : n = at - 1
        OBVIOUS
      <4>2. (at - 1)' = n
        BY <3>2, <4>1
      <4>3. Agree(n)' = Agree(n) /\ Conflict' = Conflict /\ CallType' = CallType
        BY <3>2 DEF Agree, Done, Conflict, Gives, CallType
      <4>4. StackHolds(n)' = StackHolds(n)
        <5>1. /\ Kinds(finalize)' = Kinds(finalize) /\ Kinds(build)' = Kinds(build)
              /\ Distinct(finalize)' = Distinct(finalize) /\ Distinct(build)' = Distinct(build)
          BY <3>2 DEF Kinds, Distinct
        <5>2. Base' = Base /\ \A ks : Done(n, ks)' = Done(n, ks)
          BY <3>2 DEF Base, Done
        <5>. QED BY <3>2, <5>1, <5>2 DEF StackHolds
      <4>. QED BY <2>1, <3>2, <4>1, <4>2, <4>3, <4>4 DEF StackInv
    <3>. QED BY <3>1, <3>3
  <2>2. ASSUME I, Next PROVE I'
    <3>1. CallInv'
      BY <2>2, StackSteps, ConnectionSteps, AssertionSteps DEF Next
    <3>2. StackInv'
      BY <2>2, FinalizeOptions, QueryStep, UnnamedStep, LaterSteps DEF Next, Options, CallInv
    <3>. QED BY <3>1, <3>2
  <2>. QED BY <2>1, <2>2
<1>. QED BY <1>1, <1>2, PTL DEF Spec

\* A call is made without a request exactly if its options conflict, whatever
\* the options are and however many: no option is left out in silence
\* (WithHeaders and the like, signV2).
THEOREM NothingLeftOut == Spec => []ConflictsAreErrors
<1>1. ASSUME CallInv, StackInv PROVE ConflictsAreErrors
  <2>1. pc \in {"assert", "end"} /\ attempts = 0 => Conflict /\ ~err.ok
    BY <1>1, NothingFound DEF StackInv
  <2>2. pc \in {"options", "run", "dial"} => attempts = 0
    BY <1>1 DEF CallInv, Progress
  <2>3. ASSUME attempts > 0 PROVE ~Conflict
    <3>1. attempts # 0
      BY <2>3
    <3>. QED BY <1>1, <2>2, <3>1 DEF StackInv
  <2>. QED BY <2>1, <2>3 DEF ConflictsAreErrors
<1>. QED BY <1>1, CallInvariant, PTL

-----------------------------------------------------------------------------
(* The order of the stack.                                                 *)

\* In which order the middleware of the Finalize step runs, by its kind.
Rank(k) ==
  CASE k \in EditsBefore -> 1
    [] k = "ResolveEndpoint" -> 2
    [] k = "PayloadHash" -> 3
    [] k \in {"PathReplace", "Chunked"} -> 4
    [] k \in {"Signing", "SignV2"} -> 5
    [] k \in EditsAfter -> 6

Sorted(s) == \A i, j \in 1..Len(s) : i < j => Rank(s[i].kind) <= Rank(s[j].kind)

\* The middleware of step s is that of the SDK, and of the first n options.
FromOptions(s, n) ==
  \A i \in 1..Len(s) : s[i].kind \in Base \/ \E p \in 1..n : s[i] = opts[p]

\* Of two edits of headers on one side of the signer, the later option runs first.
LaterFirst(s, n) ==
  \A i, j \in 1..Len(s) : \A p, q \in 1..n :
    /\ i < j
    /\ s[i].kind = opts[p].kind /\ s[j].kind = opts[q].kind
    /\ Rank(s[i].kind) = Rank(s[j].kind) /\ Rank(s[i].kind) \in {1, 6}
    => q < p

\* transport is that of the last of the first n options that asks for one.
LastRaw(n) ==
  \/ transport = "pool" /\ \A p \in 1..n : opts[p].kind \notin RawTransport
  \/ \E p \in 1..n :
       /\ transport = opts[p].kind /\ opts[p].kind \in RawTransport
       /\ \A q \in 1..n : q > p => opts[q].kind \notin RawTransport

FirstRequest == [header |-> SDKHeader, bucket |-> "none", query |-> FALSE,
                 length |-> TRUE, trailer |-> FALSE]

\* What the first n options have made of the call.
OrderHolds(n) ==
  /\ Sorted(finalize) /\ FromOptions(finalize, n) /\ LaterFirst(finalize, n)
  /\ checksum = (client # "v2" /\ Done(n, {"NoChecksum"}) = {})
  /\ LastRaw(n)
  /\ req = FirstRequest /\ signed = <<>>

\* Middleware m gives header n a value, and which.
Writes(m, n) ==
  \/ m.kind \in EditsBefore \cup EditsAfter /\ n \in m.names
  \/ m.kind = "PayloadHash" /\ n = "X-Amz-Content-Sha256"
  \/ m.kind = "Signing" /\ client # "anonymous" /\ n \in {"Authorization", "X-Amz-Date"}
  \/ m.kind = "SignV2" /\ n \in {"Authorization", "Date", "X-Amz-Content-Sha256"}

Written(m, n) ==
  CASE m.kind \in {"SetHeaders", "SetHeadersAfterSigning"} -> "caller"
    [] m.kind \in {"RemoveHeaders", "RemoveHeadersAfterSigning"} -> "none"
    [] m.kind = "PayloadHash" -> "sdk"
    [] m.kind = "Signing" -> "signer"
    [] m.kind = "SignV2" -> IF n = "X-Amz-Content-Sha256" THEN "none" ELSE "signer"

\* Header n has its promised value, or will have once the stack has run.
Will(n) ==
  \/ \E i \in 1..Len(finalize) :
       /\ Writes(finalize[i], n) /\ Written(finalize[i], n) = Promised(n)
       /\ \A j \in 1..Len(finalize) : j > i => ~Writes(finalize[j], n)
  \/ /\ \A j \in 1..Len(finalize) : ~Writes(finalize[j], n)
     /\ req.header[n] = Promised(n)

\* And the rest of the request.
WillBucket ==
  IF "ResolveEndpoint" \in Kinds(finalize)
  THEN "PathReplace" \in Kinds(finalize) <=> Gives("PathReplace")
  ELSE IF "PathReplace" \in Kinds(finalize) THEN Gives("PathReplace") /\ req.bucket = "asked"
  ELSE req.bucket = (IF Gives("PathReplace") THEN "replaced" ELSE "asked")

WillQuery == IF build # <<>> THEN Gives("SetQuery") ELSE req.query = Gives("SetQuery")

WillLength == req.length = ~(Gives("Chunked") /\ "Chunked" \notin Kinds(finalize))

WillTrailer ==
  /\ checksum = ~(Gives("NoChecksum") \/ client = "v2")
  /\ "PayloadHash" \notin Kinds(finalize) => req.trailer = checksum

RunHolds ==
  /\ finalize \in Seq(Middleware) /\ Distinct(finalize)
  /\ Sorted(finalize) /\ FromOptions(finalize, Len(opts))
  /\ Kinds(finalize) \subseteq Base \cup InFinalize
  /\ req \in Request
  /\ transport = RawAsked
  /\ \A n \in Header \ {"Content-Length"} : Will(n)
  /\ WillBucket /\ WillQuery /\ WillLength /\ WillTrailer

\* What a signature covers is not touched again, but by an edit after signing.
SignHolds ==
  signed # <<>> =>
    /\ build = <<>>
    /\ Len(signed) = 1
    /\ signed[1].header["Authorization"] = "signer"
    /\ Kinds(finalize) \subseteq EditsAfter
    /\ signed[1].bucket = req.bucket /\ signed[1].query = req.query
    /\ signed[1].length = req.length
    /\ \A n \in Header \ {"Content-Length"} :
         Naming(EditsAfter, n) = {} => signed[1].header[n] = req.header[n]

\* A request that went out.
SentHolds ==
  /\ OptionsTakeEffect
  /\ \A i \in DOMAIN wire : signed # <<>> /\ ~Tampers => Verifies(wire[i], signed[1])

EffectInv ==
  /\ client \in {"v4", "v2", "anonymous"}
  /\ pc = "options" => OrderHolds(at - 1)
  /\ pc \in {"run", "dial", "send"} => RunHolds /\ SignHolds
  /\ pc \in {"dial", "send"} => finalize = <<>> /\ build = <<>>
  /\ SentHolds

-----------------------------------------------------------------------------
\* A set of naturals has a least element.
LEMMA Least ==
  ASSUME NEW T, T \subseteq Nat, T # {}
  PROVE  \E x \in T : \A y \in T : x <= y
<1> DEFINE R == {ss \in Nat \X Nat : ss[1] < ss[2]}
<1>1. IsWellFoundedOn(R, Nat)
  <2>1. OpToRel(<, Nat) = R
    BY DEF OpToRel
  <2>. QED BY <2>1, NatLessThanWellFounded
<1> HIDE DEF R
<1>2. PICK x \in T : \A y \in T : ~(<<y, x>> \in R)
  BY <1>1, WFMin
<1>3. \A y \in T : ~(y < x)
  BY <1>2 DEF R
<1>. QED BY <1>2, <1>3

\* What the least and the greatest of some indices are.
LEMMA MinMax ==
  ASSUME NEW N \in Nat, NEW T, T \subseteq 1..N, T # {}
  PROVE  /\ Min(T) \in T /\ \A y \in T : Min(T) <= y
         /\ Max(T) \in T /\ \A y \in T : Max(T) >= y
<1>1. \E x \in T : \A y \in T : x <= y
  <2>1. T \subseteq Nat
    OBVIOUS
  <2>. QED BY <2>1, Least
<1>2. \E x \in T : \A y \in T : x >= y
  <2> DEFINE U == {u \in 0..N : N - u \in T}
  <2>1. U \subseteq Nat /\ U # {}
    <3>1. PICK x \in T : TRUE
      OBVIOUS
    <3>2. N - x \in 0..N /\ N - (N - x) = x
      OBVIOUS
    <3>3. N - x \in U
      BY <3>2
    <3>4. \A u \in U : u \in Nat
      OBVIOUS
    <3> HIDE DEF U
    <3>. QED BY <3>3, <3>4
  <2>2. PICK u \in U : \A w \in U : u <= w
    <3> HIDE DEF U
    <3>. QED BY <2>1, Least
  <2>3. N - u \in T
    BY <2>2
  <2>4. ASSUME NEW y \in T PROVE N - u >= y
    <3>1. N - y \in U
      OBVIOUS
    <3>2. u <= N - y /\ u \in Nat /\ y \in Nat
      BY <2>2, <3>1
    <3>. QED BY <3>2
  <2>. QED BY <2>3, <2>4
<1>. QED BY <1>1, <1>2 DEF Min, Max

\* An option put into its place leaves the stack in order.
LEMMA PutInOrder ==
  ASSUME CallType, NEW n \in 1..Len(opts), Agree(n), StackHolds(n - 1),
         Sorted(finalize), FromOptions(finalize, n - 1), LaterFirst(finalize, n - 1),
         opts[n] \in Middleware, opts[n].kind \notin Kinds(finalize), opts[n].kind \notin Unnamed,
         NEW i \in 1..(Len(finalize) + 1),
         \A j \in 1..Len(finalize) :
           IF j < i THEN /\ Rank(finalize[j].kind) <= Rank(opts[n].kind)
                         /\ Rank(finalize[j].kind) = Rank(opts[n].kind) => Rank(opts[n].kind) = 4
           ELSE Rank(opts[n].kind) <= Rank(finalize[j].kind)
  PROVE  /\ Sorted(InsertAt(finalize, i, opts[n]))
         /\ FromOptions(InsertAt(finalize, i, opts[n]), n)
         /\ LaterFirst(InsertAt(finalize, i, opts[n]), n)
<1> DEFINE s == finalize  t == InsertAt(finalize, i, opts[n])
<1>1. \A j \in 1..Len(t) :
        \/ j < i /\ j \in 1..Len(s) /\ t[j] = s[j]
        \/ j = i /\ t[j] = opts[n]
        \/ j > i /\ j - 1 \in 1..Len(s) /\ t[j] = s[j - 1]
  BY Inserted DEF StackHolds
<1>2. t \in Seq(Middleware) /\ s \in Seq(Middleware) /\ Len(t) \in Nat /\ n \in Nat /\ i \in Nat
  <2>1. t \in Seq(Middleware) /\ s \in Seq(Middleware)
    BY Inserted DEF StackHolds
  <2>. QED BY <2>1
<1>3. \A p \in 1..n : p \in 1..(n - 1) \/ p = n
  OBVIOUS
<1>4. \A j \in 1..Len(s) : s[j].kind # opts[n].kind
  BY DEF Kinds
<1>5. \A p \in 1..(n - 1) : opts[p].kind # opts[n].kind
  <2>1. \A p \in 1..(n - 1) : p \in 1..n /\ n \in 1..n /\ p < n
    BY <1>2
  <2>. QED BY <2>1 DEF Agree
<1> HIDE DEF t, s
\* Two places of the new stack, neither of which is that of the option.
<1>6. ASSUME NEW x \in 1..Len(t), NEW y \in 1..Len(t), x < y, x # i, y # i
      PROVE  \E a, b \in 1..Len(s) : a < b /\ t[x] = s[a] /\ t[y] = s[b]
  <2>1. x \in Nat /\ y \in Nat
    BY <1>2
  <2>2. CASE y < i
    <3>1. x < i
      BY <1>2, <1>6, <2>1, <2>2
    <3>2. x \in 1..Len(s) /\ t[x] = s[x] /\ y \in 1..Len(s) /\ t[y] = s[y]
      BY <1>1, <1>2, <2>1, <2>2, <3>1
    <3>. QED BY <1>6, <3>2
  <2>3. CASE y > i
    <3>1. y - 1 \in 1..Len(s) /\ t[y] = s[y - 1]
      BY <1>1, <1>2, <2>1, <2>3
    <3>2. CASE x < i
      <4>1. x \in 1..Len(s) /\ t[x] = s[x] /\ x < y - 1
        BY <1>1, <1>2, <2>1, <2>3, <3>2
      <4>. QED BY <3>1, <4>1
    <3>3. CASE x > i
      <4>1. x - 1 \in 1..Len(s) /\ t[x] = s[x - 1] /\ x - 1 < y - 1
        BY <1>1, <1>2, <1>6, <2>1, <3>3
      <4>. QED BY <3>1, <4>1
    <3>. QED BY <1>2, <1>6, <2>1, <3>2, <3>3
  <2>. QED BY <1>2, <1>6, <2>1, <2>2, <2>3
\* One that comes after, or before, that of the option.
<1>7. ASSUME NEW y \in 1..Len(t), i < y
       PROVE  y - 1 \in 1..Len(s) /\ t[y] = s[y - 1] /\ ~(y - 1 < i) /\ t[i] = opts[n]
  <2>1. y \in Nat /\ i \in 1..Len(t)
    BY <1>2, <1>7
  <2>. QED BY <1>1, <1>2, <1>7, <2>1
<1>8. ASSUME NEW x \in 1..Len(t), x < i, i \in 1..Len(t)
       PROVE  x \in 1..Len(s) /\ t[x] = s[x] /\ t[i] = opts[n]
  <2>1. x \in Nat
    BY <1>2
  <2>. QED BY <1>1, <1>2, <1>8, <2>1
<1>9. Sorted(t)
  <2>1. SUFFICES ASSUME NEW x \in 1..Len(t), NEW y \in 1..Len(t), x < y
                 PROVE  Rank(t[x].kind) <= Rank(t[y].kind)
    BY DEF Sorted
  <2>2. CASE x = i
    <3>1. t[x] = opts[n] /\ y - 1 \in 1..Len(s) /\ t[y] = s[y - 1] /\ ~(y - 1 < i)
      BY <1>7, <2>1, <2>2
    <3>. QED BY <3>1 DEF s
  <2>3. CASE y = i
    <3>1. t[y] = opts[n] /\ x \in 1..Len(s) /\ t[x] = s[x] /\ x < i
      BY <1>8, <2>1, <2>3
    <3>. QED BY <3>1 DEF s
  <2>4. CASE x # i /\ y # i
    <3>1. PICK a \in 1..Len(s), b \in 1..Len(s) : a < b /\ t[x] = s[a] /\ t[y] = s[b]
      BY <1>6, <2>1, <2>4
    <3>. QED BY <3>1 DEF s, Sorted
  <2>. QED BY <2>2, <2>3, <2>4
<1>10. FromOptions(t, n)
  <2>1. SUFFICES ASSUME NEW x \in 1..Len(t)
                 PROVE  t[x].kind \in Base \/ \E p \in 1..n : t[x] = opts[p]
    BY DEF FromOptions
  <2>2. CASE x = i
    BY <1>1, <1>2, <2>2
  <2>3. CASE x # i
    <3>1. PICK a \in 1..Len(s) : t[x] = s[a]
      BY <1>1, <2>3
    <3>2. s[a].kind \in Base \/ \E p \in 1..(n - 1) : s[a] = opts[p]
      BY <3>1 DEF s, FromOptions
    <3>. QED BY <1>2, <3>1, <3>2
  <2>. QED BY <2>2, <2>3
<1>11. LaterFirst(t, n)
  <2>1. SUFFICES ASSUME NEW x \in 1..Len(t), NEW y \in 1..Len(t),
                        NEW p \in 1..n, NEW q \in 1..n, x < y,
                        t[x].kind = opts[p].kind, t[y].kind = opts[q].kind,
                        Rank(t[x].kind) = Rank(t[y].kind), Rank(t[x].kind) \in {1, 6}
                 PROVE  q < p
    BY DEF LaterFirst
  <2>2. CASE x = i
    <3>1. t[x] = opts[n] /\ y - 1 \in 1..Len(s) /\ t[y] = s[y - 1]
      BY <1>7, <2>1, <2>2
    <3>2. q # n /\ p = n
      BY <1>3, <1>4, <1>5, <2>1, <3>1
    <3>. QED BY <1>2, <3>2
  <2>3. CASE y = i
    <3>1. t[y] = opts[n] /\ x \in 1..Len(s) /\ t[x] = s[x] /\ x < i
      BY <1>8, <2>1, <2>3
    <3>2. Rank(t[x].kind) = 4
      BY <2>1, <3>1 DEF s
    <3>. QED BY <2>1, <3>2
  <2>4. CASE x # i /\ y # i
    <3>1. PICK a \in 1..Len(s), b \in 1..Len(s) : a < b /\ t[x] = s[a] /\ t[y] = s[b]
      BY <1>6, <2>1, <2>4
    <3>2. p \in 1..(n - 1) /\ q \in 1..(n - 1)
      BY <1>3, <1>4, <2>1, <3>1
    <3>. QED BY <2>1, <3>1, <3>2 DEF s, LaterFirst
  <2>. QED BY <2>2, <2>3, <2>4
<1>. QED BY <1>9, <1>10, <1>11 DEF t

\* The ranks, and which kinds have them.
LEMMA RankOf ==
  /\ \A k \in EditsBefore : Rank(k) = 1
  /\ Rank("ResolveEndpoint") = 2 /\ Rank("PayloadHash") = 3
  /\ Rank("PathReplace") = 4 /\ Rank("Chunked") = 4
  /\ Rank("Signing") = 5 /\ Rank("SignV2") = 5
  /\ \A k \in EditsAfter : Rank(k) = 6
BY DEF Rank, EditsBefore, EditsAfter

\* A rank tells the kind of a middleware that may be on the stack.
LEMMA KindOf ==
  ASSUME NEW k \in {"ResolveEndpoint", "PayloadHash", "Signing", "SignV2"} \cup InFinalize
  PROVE  /\ Rank(k) \in 1..6
         /\ Rank(k) = 1 => k \in EditsBefore
         /\ Rank(k) = 2 => k = "ResolveEndpoint"
         /\ Rank(k) = 3 => k = "PayloadHash"
         /\ Rank(k) = 4 => k \in {"PathReplace", "Chunked"}
         /\ Rank(k) = 5 => k \in {"Signing", "SignV2"}
         /\ Rank(k) = 6 => k \in EditsAfter
<1>1. CASE k \in EditsBefore
  BY <1>1, RankOf
<1>2. CASE k \in EditsAfter
  BY <1>2, RankOf
<1>3. CASE k \in {"ResolveEndpoint", "PayloadHash", "PathReplace", "Chunked", "Signing", "SignV2"}
  BY <1>3, RankOf
<1>. QED BY <1>1, <1>2, <1>3 DEF InFinalize

\* No option that is not for the transport changes the transport.
LEMMA RawOneMore ==
  ASSUME NEW n \in Nat \ {0}, LastRaw(n - 1), opts[n].kind \notin RawTransport
  PROVE  LastRaw(n)
<1>1. \A p \in 1..n : p \in 1..(n - 1) \/ p = n
  OBVIOUS
<1>2. \A p \in 1..(n - 1) : p \in 1..n
  OBVIOUS
<1>. QED BY <1>1, <1>2 DEF LastRaw

\* An option that fails ends the call without a request.
LEMMA OptionFails ==
  ASSUME Progress, EffectInv, pc = "options", pc' = "assert", UNCHANGED <<client, wire>>
  PROVE  EffectInv'
<1>1. wire' = <<>>
  BY DEF Progress
<1>2. DOMAIN wire' = {}
  BY <1>1
<1>. QED BY <1>2 DEF EffectInv, SentHolds, OptionsTakeEffect

\* An option that goes into the Finalize step at its place.
LEMMA OrderPut ==
  ASSUME StackInv, StackInv', Progress, EffectInv, NEW k \in InFinalize, Applies(k),
         NEW i \in 0..(Len(finalize) + 1), PutFinalize(i),
         i # 0 =>
           \A j \in 1..Len(finalize) :
             IF j < i THEN /\ Rank(finalize[j].kind) <= Rank(k)
                           /\ Rank(finalize[j].kind) = Rank(k) => Rank(k) = 4
             ELSE Rank(k) <= Rank(finalize[j].kind)
  PROVE  EffectInv'
<1>1. /\ pc = "options" /\ at \in 1..Len(opts) /\ opts[at].kind = k /\ CallType
      /\ StackHolds(at - 1) /\ OrderHolds(at - 1) /\ opts \in Seq(Option)
  BY DEF Applies, StackInv, CallType, EffectInv
<1>2. opts[at] \in Middleware
  <2>1. opts[at] \in Option
    BY <1>1
  <2>. QED BY <2>1 DEF Option, Middleware
<1> DEFINE f == Put(finalize, i)
<1>3. /\ finalize' = f /\ Applied(f # <<>>)
      /\ UNCHANGED <<client, opts, checksum, transport, req, signed, wire>>
  BY DEF PutFinalize, callVars, netVars
<1>4. CASE f = <<>>
  <2> HIDE DEF f
  <2>. QED BY <1>1, <1>3, <1>4, OptionFails DEF Applied
<1>5. CASE f # <<>>
  <2>1. pc' = "options" /\ at' = at + 1
    <3> HIDE DEF f
    <3>. QED BY <1>1, <1>3, <1>5 DEF Applied
  <2>2. PICK n \in 1..Len(opts) : n = at
    BY <1>1
  <2>3. at' - 1 = n /\ n \in Nat \ {0} /\ at - 1 = n - 1
    BY <1>1, <2>1, <2>2
  <2>4. i # 0 /\ k \notin Kinds(finalize) /\ f = InsertAt(finalize, i, opts[n])
    <3>1. finalize \in Seq(Middleware) /\ Distinct(finalize)
      BY <1>1 DEF StackHolds
    <3>2. i # 0 /\ k \notin Kinds(finalize)
      BY <1>1, <1>2, <1>5, <3>1, PutOne
    <3>3. Place(finalize, k) = 0
      BY <3>1, <3>2, PlaceOf
    <3>. QED BY <1>1, <2>2, <3>2, <3>3 DEF Put
  <2>5. Agree(n)
    <3>1. Agree(at - 1)'
      BY <2>1 DEF StackInv
    <3>2. Agree(n)'
      BY <2>3, <3>1
    <3>. QED BY <1>3, <3>2 DEF Agree, Done
  <2>6. k \notin Unnamed /\ k \notin RawTransport /\ k # "NoChecksum"
    BY BaseApart DEF Unnamed
  <2>7. Sorted(f) /\ FromOptions(f, n) /\ LaterFirst(f, n)
    <3>1. i \in 1..(Len(finalize) + 1)
      <4>1. Len(finalize) \in Nat
        BY <1>1 DEF StackHolds
      <4>. QED BY <2>4, <4>1
    <3>2. Sorted(finalize) /\ FromOptions(finalize, n - 1) /\ LaterFirst(finalize, n - 1)
      BY <1>1, <2>3 DEF OrderHolds
    <3>3. opts[n].kind = k /\ opts[n] \in Middleware /\ StackHolds(n - 1)
      BY <1>1, <1>2, <2>2
    <3> HIDE DEF f
    <3>. QED BY <1>1, <2>4, <2>5, <2>6, <3>1, <3>2, <3>3, PutInOrder
  <2>8. LastRaw(n) /\ Done(n, {"NoChecksum"}) = Done(n - 1, {"NoChecksum"})
    <3>1. opts[n].kind = k /\ LastRaw(n - 1)
      BY <1>1, <2>2 DEF OrderHolds
    <3>2. {k} \cap {"NoChecksum"} = {}
      BY <2>6
    <3>3. Done(n, {"NoChecksum"}) = Done(n - 1, {"NoChecksum"}) \cup ({k} \cap {"NoChecksum"})
      BY <2>3, <3>1, DoneOneMore
    <3>. QED BY <2>3, <2>6, <3>1, <3>2, <3>3, RawOneMore
  <2> HIDE DEF f
  <2>9. OrderHolds(n)'
    <3>1. PICK g : g = f
      OBVIOUS
    <3>2. finalize' = g /\ Sorted(g) /\ FromOptions(g, n)' /\ LaterFirst(g, n)'
      BY <1>3, <2>7, <3>1 DEF FromOptions, Base, LaterFirst
    <3>3. /\ checksum = (client # "v2" /\ Done(n, {"NoChecksum"}) = {}) /\ req = FirstRequest
          /\ signed = <<>>
      BY <1>1, <2>2, <2>8 DEF OrderHolds
    <3>4. LastRaw(n)' /\ Done(n, {"NoChecksum"})' = Done(n, {"NoChecksum"})
      BY <1>3, <2>8 DEF LastRaw, Done
    <3>5. Sorted(finalize)' /\ FromOptions(finalize, n)' /\ LaterFirst(finalize, n)'
      BY <3>2 DEF Sorted, FromOptions, LaterFirst
    <3>. QED BY <1>3, <3>3, <3>4, <3>5 DEF OrderHolds, FirstRequest
  <2>10. SentHolds'
    <3>1. DOMAIN wire' = {}
      BY <1>1, <1>3 DEF Progress
    <3>. QED BY <3>1 DEF SentHolds, OptionsTakeEffect
  <2>. QED BY <1>3, <2>1, <2>3, <2>9, <2>10 DEF EffectInv
<1>. QED BY <1>4, <1>5

\* Where the options find the v4 signer, what is before it in the stack runs
\* before signing and what is behind it after signing.
LEMMA SignerOrder ==
  ASSUME StackInv, EffectInv, pc = "options"
  PROVE  /\ \A j \in 1..Len(finalize) : Rank(finalize[j].kind) \in 1..6
         /\ BeforeSigning # 0 =>
              \A j \in 1..Len(finalize) :
                IF j < BeforeSigning THEN Rank(finalize[j].kind) <= 4
                ELSE Rank(finalize[j].kind) >= 5
         /\ AfterSigning # 0 =>
              \A j \in 1..Len(finalize) :
                IF j < AfterSigning THEN Rank(finalize[j].kind) <= 5
                ELSE Rank(finalize[j].kind) = 6
<1>1. /\ finalize \in Seq(Middleware) /\ Distinct(finalize) /\ Sorted(finalize)
      /\ Kinds(finalize) = Base \cup Done(at - 1, InFinalize)
  BY DEF StackInv, StackHolds, EffectInv, OrderHolds
<1>2. ASSUME NEW j \in 1..Len(finalize)
      PROVE  /\ finalize[j].kind \in Base \cup InFinalize
             /\ finalize[j].kind \in {"ResolveEndpoint", "PayloadHash", "Signing", "SignV2"} \cup InFinalize
  <2>1. finalize[j].kind \in Kinds(finalize)
    BY DEF Kinds
  <2>. QED BY <1>1, <2>1 DEF Done, Base
<1>3. \A j \in 1..Len(finalize) : Rank(finalize[j].kind) \in 1..6
  BY <1>2, KindOf
<1> DEFINE p == Place(finalize, "Signing")
<1>4. p # 0 =>
        \A j \in 1..Len(finalize) :
          /\ j < p => Rank(finalize[j].kind) <= 4
          /\ j = p => Rank(finalize[j].kind) = 5
          /\ j > p => Rank(finalize[j].kind) = 6
  <2>1. SUFFICES ASSUME p # 0, NEW j \in 1..Len(finalize)
                 PROVE  /\ j < p => Rank(finalize[j].kind) <= 4
                        /\ j = p => Rank(finalize[j].kind) = 5
                        /\ j > p => Rank(finalize[j].kind) = 6
    OBVIOUS
  <2>2. "Signing" \in Kinds(finalize) /\ p \in 1..Len(finalize) /\ finalize[p].kind = "Signing"
    BY <1>1, <2>1, PlaceOf
  <2>3. "SignV2" \notin Base
    <3>1. "Signing" \in Base
      BY <1>1, <2>2, BaseApart DEF Done
    <3>. QED BY <3>1, BaseApart DEF Base
  <2>4. "SignV2" \notin InFinalize
    BY DEF InFinalize, EditsBefore, EditsAfter
  <2>5. Rank(finalize[p].kind) = 5
    BY <2>2, RankOf
  <2>6. Rank(finalize[j].kind) = 5 => j = p
    <3>1. Rank(finalize[j].kind) = 5 => finalize[j].kind = "Signing"
      BY <1>2, <2>3, <2>4, KindOf
    <3>. QED BY <1>1, <2>2, <3>1 DEF Distinct
  <2>7. /\ j < p => Rank(finalize[j].kind) <= Rank(finalize[p].kind)
        /\ j > p => Rank(finalize[p].kind) <= Rank(finalize[j].kind)
    BY <1>1, <2>2 DEF Sorted
  <2>8. Rank(finalize[j].kind) \in 1..6
    BY <1>3
  <2> HIDE DEF p
  <2>9. p \in Nat /\ j \in Nat
    BY <1>1, <2>2
  <2>. QED BY <2>5, <2>6, <2>7, <2>8, <2>9
<1>5. Len(finalize) \in Nat /\ BeforeSigning = p /\ AfterSigning = (IF p = 0 THEN 0 ELSE p + 1)
  BY <1>1 DEF BeforeSigning, AfterSigning
<1>6. p # 0 => p \in 1..Len(finalize)
  BY <1>1, PlaceOf
<1> HIDE DEF p
<1>7. ASSUME p # 0, NEW j \in 1..Len(finalize)
      PROVE  /\ IF j < p THEN Rank(finalize[j].kind) <= 4 ELSE Rank(finalize[j].kind) >= 5
             /\ IF j < p + 1 THEN Rank(finalize[j].kind) <= 5 ELSE Rank(finalize[j].kind) = 6
  <2>1. p \in Nat /\ j \in Nat /\ Rank(finalize[j].kind) \in 1..6
    BY <1>3, <1>5, <1>6, <1>7
  <2>2. CASE j < p
    BY <1>4, <1>7, <2>1, <2>2
  <2>3. CASE j = p
    BY <1>4, <1>7, <2>1, <2>3
  <2>4. CASE j > p
    BY <1>4, <1>7, <2>1, <2>4
  <2>. QED BY <2>1, <2>2, <2>3, <2>4
<1>8. BeforeSigning # 0 =>
        \A j \in 1..Len(finalize) :
          IF j < BeforeSigning THEN Rank(finalize[j].kind) <= 4
          ELSE Rank(finalize[j].kind) >= 5
  BY <1>5, <1>7
<1>9. AfterSigning # 0 =>
        \A j \in 1..Len(finalize) :
          IF j < AfterSigning THEN Rank(finalize[j].kind) <= 5
          ELSE Rank(finalize[j].kind) = 6
  BY <1>5, <1>7
<1>. QED BY <1>3, <1>8, <1>9

\* The options that go into the Finalize step go to their place in it.
LEMMA FinalizeOrder ==
  ASSUME StackInv, StackInv', Progress, EffectInv,
         \/ WithHeaders \/ WithoutHeader \/ WithHeadersAfterSigning
         \/ WithoutHeaderAfterSigning \/ WithPathReplace \/ WithChunkedTransferEncoding
  PROVE  EffectInv'
<1>1. pc = "options"
  BY DEF WithHeaders, WithoutHeader, WithHeadersAfterSigning, WithoutHeaderAfterSigning,
         WithPathReplace, WithChunkedTransferEncoding, Applies
<1>2. \A j \in 1..Len(finalize) : Rank(finalize[j].kind) \in 1..6 /\ Len(finalize) \in Nat /\ j >= 1
  BY <1>1, SignerOrder, SignerPlace
<1>3. CASE WithHeaders \/ WithoutHeader
  <2>1. PICK k \in EditsBefore : Applies(k) /\ PutFinalize(1)
    BY <1>3 DEF WithHeaders, WithoutHeader, EditsBefore
  <2>2. Rank(k) = 1 /\ k \in InFinalize
    BY RankOf DEF InFinalize
  <2>3. 1 \in 0..(Len(finalize) + 1)
    BY <1>1, SignerPlace
  <2>. QED BY <1>2, <2>1, <2>2, <2>3, OrderPut
<1>4. CASE WithPathReplace \/ WithChunkedTransferEncoding
  <2>1. PICK k \in {"PathReplace", "Chunked"} : Applies(k) /\ PutFinalize(BeforeSigning)
    BY <1>4 DEF WithPathReplace, WithChunkedTransferEncoding
  <2>2. Rank(k) = 4 /\ k \in InFinalize
    BY RankOf DEF InFinalize
  <2>3. BeforeSigning \in 0..(Len(finalize) + 1)
    BY <1>1, SignerPlace
  <2>4. BeforeSigning # 0 =>
          \A j \in 1..Len(finalize) :
            IF j < BeforeSigning THEN /\ Rank(finalize[j].kind) <= Rank(k)
                                      /\ Rank(finalize[j].kind) = Rank(k) => Rank(k) = 4
            ELSE Rank(k) <= Rank(finalize[j].kind)
    BY <1>1, <1>2, <2>2, SignerOrder
  <2>. QED BY <2>1, <2>2, <2>3, <2>4, OrderPut
<1>5. CASE WithHeadersAfterSigning \/ WithoutHeaderAfterSigning
  <2>1. PICK k \in EditsAfter : Applies(k) /\ PutFinalize(AfterSigning)
    BY <1>5 DEF WithHeadersAfterSigning, WithoutHeaderAfterSigning, EditsAfter
  <2>2. Rank(k) = 6 /\ k \in InFinalize
    BY RankOf DEF InFinalize
  <2>3. AfterSigning \in 0..(Len(finalize) + 1)
    BY <1>1, SignerPlace
  <2>4. AfterSigning # 0 =>
          \A j \in 1..Len(finalize) :
            IF j < AfterSigning THEN /\ Rank(finalize[j].kind) <= Rank(k)
                                     /\ Rank(finalize[j].kind) = Rank(k) => Rank(k) = 4
            ELSE Rank(k) <= Rank(finalize[j].kind)
    BY <1>1, <1>2, <2>2, SignerOrder
  <2>. QED BY <2>1, <2>2, <2>3, <2>4, OrderPut
<1>. QED BY <1>3, <1>4, <1>5

\* The other options leave the Finalize step as it is.
LEMMA OtherOptions ==
  ASSUME StackInv, StackInv', Progress, EffectInv,
         WithQuery \/ WithoutRequestChecksum \/ WithRawTransport
  PROVE  EffectInv'
<1>1. PICK k \in Unnamed \cup {"SetQuery"} :
        /\ Applies(k)
        /\ transport' = IF k \in RawTransport THEN k ELSE transport
        /\ checksum' = IF k = "NoChecksum" THEN FALSE ELSE checksum
        /\ UNCHANGED <<client, opts, finalize, req, signed, wire>>
        /\ \E ok : Applied(ok)
  <2>1. CASE WithQuery
    BY <2>1 DEF WithQuery, callVars, netVars, RawTransport
  <2>2. CASE WithoutRequestChecksum
    BY <2>2 DEF WithoutRequestChecksum, callVars, netVars, RawTransport, Unnamed
  <2>3. CASE WithRawTransport
    BY <2>3 DEF WithRawTransport, callVars, netVars, RawTransport, Unnamed
  <2>. QED BY <2>1, <2>2, <2>3
<1>2. /\ pc = "options" /\ at \in 1..Len(opts) /\ opts[at].kind = k /\ CallType
      /\ OrderHolds(at - 1) /\ pc' \in {"options", "assert"} /\ wire = <<>>
      /\ pc' = "options" => at' = at + 1
  BY <1>1 DEF Applies, Applied, StackInv, CallType, EffectInv, Progress
<1>3. CASE pc' = "assert"
  BY <1>1, <1>2, <1>3, OptionFails
<1>4. CASE pc' = "options"
  <2>1. PICK n \in 1..Len(opts) : n = at
    BY <1>2
  <2>2. at' - 1 = n /\ n \in Nat \ {0} /\ OrderHolds(n - 1) /\ opts[n].kind = k
    BY <1>2, <1>4, <2>1 DEF CallType
  <2>3. FromOptions(finalize, n)
    <3>1. \A p \in 1..(n - 1) : p \in 1..n
      BY <2>2
    <3>. QED BY <2>2, <3>1 DEF OrderHolds, FromOptions
  <2>4. LaterFirst(finalize, n)
    <3>1. \A i \in 1..Len(finalize) : finalize[i].kind # k
      <4>1. finalize \in Seq(Middleware) /\ Kinds(finalize) = Base \cup Done(at - 1, InFinalize)
        BY <1>2 DEF StackInv, StackHolds
      <4>2. k \notin Base \cup InFinalize
        BY BaseApart DEF Unnamed, Base, RawTransport
      <4>3. k \notin Kinds(finalize)
        BY <4>1, <4>2 DEF Done
      <4>. QED BY <4>3 DEF Kinds
    <3>2. \A p \in 1..n : p \in 1..(n - 1) \/ p = n
      BY <2>2
    <3>3. SUFFICES ASSUME NEW i \in 1..Len(finalize), NEW j \in 1..Len(finalize),
                          NEW p \in 1..n, NEW q \in 1..n, i < j,
                          finalize[i].kind = opts[p].kind, finalize[j].kind = opts[q].kind,
                          Rank(finalize[i].kind) = Rank(finalize[j].kind),
                          Rank(finalize[i].kind) \in {1, 6}
                   PROVE  q < p
      BY DEF LaterFirst
    <3>4. p \in 1..(n - 1) /\ q \in 1..(n - 1)
      BY <2>2, <3>1, <3>2, <3>3
    <3>. QED BY <2>2, <3>3, <3>4 DEF OrderHolds, LaterFirst
  <2>5. checksum' = (client # "v2" /\ Done(n, {"NoChecksum"}) = {})
    <3>1. Done(n, {"NoChecksum"}) = Done(n - 1, {"NoChecksum"}) \cup ({k} \cap {"NoChecksum"})
      BY <2>2, DoneOneMore
    <3>2. CASE k = "NoChecksum"
      <4>1. Done(n, {"NoChecksum"}) # {}
        BY <3>1, <3>2
      <4>. QED BY <1>1, <3>2, <4>1
    <3>3. CASE k # "NoChecksum"
      <4>1. {k} \cap {"NoChecksum"} = {}
        BY <3>3
      <4>2. Done(n, {"NoChecksum"}) = Done(n - 1, {"NoChecksum"})
        BY <3>1, <4>1
      <4>. QED BY <1>1, <2>2, <3>3, <4>2 DEF OrderHolds
    <3>. QED BY <3>2, <3>3
  <2>6. LastRaw(n)'
    <3>1. CASE k \in RawTransport
      <4>1. \A q \in 1..n : ~(q > n)
        BY <2>2
      <4>2. n \in 1..n /\ transport' = opts'[n].kind /\ opts'[n].kind \in RawTransport
        BY <1>1, <2>2, <3>1
      <4>. QED BY <4>1, <4>2 DEF LastRaw
    <3>2. CASE k \notin RawTransport
      <4>1. LastRaw(n)
        BY <2>2, <3>2, RawOneMore DEF OrderHolds
      <4>. QED BY <1>1, <3>2, <4>1 DEF LastRaw
    <3>. QED BY <3>1, <3>2
  <2>7. OrderHolds(n)'
    <3>1. Done(n, {"NoChecksum"})' = Done(n, {"NoChecksum"})
      BY <1>1 DEF Done
    <3>2. Sorted(finalize) /\ req = FirstRequest /\ signed = <<>>
      BY <2>2 DEF OrderHolds
    <3>3. Sorted(finalize)' /\ FromOptions(finalize, n)' /\ LaterFirst(finalize, n)'
      BY <1>1, <2>3, <2>4, <3>2 DEF Sorted, FromOptions, LaterFirst, Base
    <3>. QED BY <1>1, <2>5, <2>6, <3>1, <3>2, <3>3 DEF OrderHolds, FirstRequest
  <2>8. OrderHolds(at - 1)'
    BY <2>2, <2>7
  <2>9. DOMAIN wire' = {}
    BY <1>1, <1>2
  <2>. QED BY <1>1, <1>4, <2>8, <2>9 DEF EffectInv, SentHolds, OptionsTakeEffect
<1>. QED BY <1>2, <1>3, <1>4

-----------------------------------------------------------------------------
(* From the order of the stack to what becomes of the request.             *)

\* All options have been applied, and none of them failed.
Built ==
  /\ CallType /\ Agree(Len(opts)) /\ StackHolds(Len(opts)) /\ OrderHolds(Len(opts))

\* Every middleware of the Finalize step is that of the SDK or an option, and
\* every option for it is there.
LEMMA WhatIsThere ==
  ASSUME Built
  PROVE  /\ \A i \in 1..Len(finalize) :
              /\ finalize[i].kind \in Base \cup InFinalize
              /\ finalize[i].kind \in InFinalize => \E p \in DOMAIN opts : finalize[i] = opts[p]
         /\ \A p \in DOMAIN opts :
              opts[p].kind \in InFinalize => \E i \in 1..Len(finalize) : finalize[i] = opts[p]
         /\ \A k \in Base : \E i \in 1..Len(finalize) : finalize[i].kind = k
<1>1. DOMAIN opts = 1..Len(opts) /\ Len(opts) \in Nat
  BY DEF Built, CallType
<1>2. Kinds(finalize) = Base \cup Done(Len(opts), InFinalize)
  BY DEF Built, StackHolds
<1>3. ASSUME NEW i \in 1..Len(finalize)
      PROVE  /\ finalize[i].kind \in Base \cup InFinalize
             /\ finalize[i].kind \in InFinalize => \E p \in DOMAIN opts : finalize[i] = opts[p]
  <2>1. finalize[i].kind \in Kinds(finalize)
    BY DEF Kinds
  <2>2. finalize[i].kind \in InFinalize => finalize[i].kind \notin Base
    BY BaseApart
  <2>3. finalize[i].kind \in Base \/ \E p \in 1..Len(opts) : finalize[i] = opts[p]
    BY DEF Built, OrderHolds, FromOptions
  <2>. QED BY <1>1, <1>2, <2>1, <2>2, <2>3 DEF Done
<1>4. ASSUME NEW p \in DOMAIN opts, opts[p].kind \in InFinalize
      PROVE  \E i \in 1..Len(finalize) : finalize[i] = opts[p]
  <2>1. opts[p].kind \in Kinds(finalize)
    BY <1>1, <1>2, <1>4 DEF Done
  <2>2. PICK i \in 1..Len(finalize) : finalize[i].kind = opts[p].kind
    BY <2>1 DEF Kinds
  <2>3. PICK q \in DOMAIN opts : finalize[i] = opts[q]
    BY <1>3, <1>4, <2>2
  <2>4. opts[p].kind \notin Unnamed
    BY <1>4, BaseApart
  <2>5. p = q
    <3>1. p \in 1..Len(opts) /\ q \in 1..Len(opts) /\ p \in Nat /\ q \in Nat
      BY <1>1
    <3>2. ~(p < q) /\ ~(q < p)
      BY <2>2, <2>3, <2>4, <3>1 DEF Built, Agree
    <3>. QED BY <3>1, <3>2
  <2>. QED BY <2>3, <2>5
<1>5. \A k \in Base : \E i \in 1..Len(finalize) : finalize[i].kind = k
  BY <1>2 DEF Kinds
<1>. QED BY <1>3, <1>4, <1>5

\* Of the edits of header n on one side of the signer the first option for it
\* runs last.
LEMMA FirstRunsLast ==
  ASSUME Built, NEW n, NEW ks \in {EditsBefore, EditsAfter}
  PROVE  /\ Naming(ks, n) = {} =>
              \A j \in 1..Len(finalize) : ~(finalize[j].kind \in ks /\ n \in finalize[j].names)
         /\ Naming(ks, n) # {} =>
              \E i \in 1..Len(finalize) :
                /\ finalize[i].kind \in ks /\ n \in finalize[i].names
                /\ Written(finalize[i], n) = FirstDecides(ks, n)
                /\ \A j \in 1..Len(finalize) :
                     j > i => ~(finalize[j].kind \in ks /\ n \in finalize[j].names)
<1>1. DOMAIN opts = 1..Len(opts) /\ Len(opts) \in Nat
  BY DEF Built, CallType
<1>2. ks \subseteq InFinalize
  BY DEF InFinalize
<1>3. PICK r \in {1, 6} : \A k \in ks : Rank(k) = r
  BY RankOf
<1>4. ASSUME NEW j \in 1..Len(finalize), finalize[j].kind \in ks, n \in finalize[j].names
      PROVE  \E q \in Naming(ks, n) : finalize[j] = opts[q]
  <2>1. PICK q \in DOMAIN opts : finalize[j] = opts[q]
    BY <1>2, <1>4, WhatIsThere
  <2>. QED BY <1>4, <2>1 DEF Naming
<1>5. ASSUME Naming(ks, n) # {}
      PROVE  \E i \in 1..Len(finalize) :
                /\ finalize[i].kind \in ks /\ n \in finalize[i].names
                /\ Written(finalize[i], n) = FirstDecides(ks, n)
                /\ \A j \in 1..Len(finalize) :
                     j > i => ~(finalize[j].kind \in ks /\ n \in finalize[j].names)
  <2> DEFINE p == Min(Naming(ks, n))
  <2>1. Naming(ks, n) \subseteq 1..Len(opts)
    BY <1>1 DEF Naming
  <2>2. p \in Naming(ks, n) /\ \A q \in Naming(ks, n) : p <= q
    BY <1>1, <1>5, <2>1, MinMax
  <2>3. p \in DOMAIN opts /\ opts[p].kind \in ks /\ n \in opts[p].names
    BY <2>2 DEF Naming
  <2>4. Written(opts[p], n) = FirstDecides(ks, n)
    BY <2>3 DEF Written, FirstDecides, EditsBefore, EditsAfter
  <2> HIDE DEF p
  <2>5. PICK i \in 1..Len(finalize) : finalize[i] = opts[p]
    BY <1>2, <2>3, WhatIsThere
  <2>6. ASSUME NEW j \in 1..Len(finalize), j > i, finalize[j].kind \in ks, n \in finalize[j].names
        PROVE  FALSE
    <3>1. PICK q \in Naming(ks, n) : finalize[j] = opts[q]
      BY <1>4, <2>6
    <3>2. q \in 1..Len(opts) /\ p \in 1..Len(opts) /\ p <= q /\ i < j
      BY <1>1, <2>1, <2>2, <2>6, <3>1
    <3>3. Rank(finalize[i].kind) = r /\ Rank(finalize[j].kind) = r
      BY <1>3, <2>3, <2>5, <2>6
    <3>4. q < p
      BY <2>5, <3>1, <3>2, <3>3 DEF Built, OrderHolds, LaterFirst
    <3>. QED BY <3>2, <3>4
  <2>. QED BY <2>3, <2>4, <2>5, <2>6
<1>. QED BY <1>4, <1>5

\* What is signed, and by whom, and what runs behind a place of the stack.
LEMMA Behind ==
  ASSUME Built, NEW i \in 1..Len(finalize), NEW j \in 1..Len(finalize), i < j
  PROVE  /\ Rank(finalize[i].kind) <= Rank(finalize[j].kind)
         /\ Rank(finalize[j].kind) \in 1..6 /\ Rank(finalize[i].kind) \in 1..6
         /\ finalize[i].kind # finalize[j].kind
         /\ Rank(finalize[j].kind) = 2 => finalize[j].kind = "ResolveEndpoint"
         /\ Rank(finalize[j].kind) = 3 => finalize[j].kind = "PayloadHash"
         /\ Rank(finalize[j].kind) = 4 => finalize[j].kind \in {"PathReplace", "Chunked"}
         /\ Rank(finalize[j].kind) = 5 =>
              finalize[j].kind = IF client = "v2" THEN "SignV2" ELSE "Signing"
         /\ Rank(finalize[j].kind) = 6 => finalize[j].kind \in EditsAfter
<1>1. finalize[i].kind \in Base \cup InFinalize /\ finalize[j].kind \in Base \cup InFinalize
  BY WhatIsThere
<1>2. Base \cup InFinalize \subseteq {"ResolveEndpoint", "PayloadHash", "Signing", "SignV2"} \cup InFinalize
  BY DEF Base
<1>3. finalize[j].kind \in {"Signing", "SignV2"} =>
        finalize[j].kind = IF client = "v2" THEN "SignV2" ELSE "Signing"
  BY <1>1 DEF Base, InFinalize, EditsBefore, EditsAfter
<1>4. Rank(finalize[i].kind) <= Rank(finalize[j].kind)
  BY DEF Built, OrderHolds, Sorted
<1>5. finalize[i].kind # finalize[j].kind
  <2>1. i # j
    <3>1. finalize \in Seq(Middleware)
      BY DEF Built, StackHolds
    <3>2. i \in Nat
      BY <3>1
    <3>. QED BY <3>2
  <2>. QED BY <2>1 DEF Built, StackHolds, Distinct
<1>. QED BY <1>1, <1>2, <1>3, <1>4, <1>5, KindOf

\* Once the stack is built, every header will be what is promised.
LEMMA EveryHeaderWill ==
  ASSUME Built, client \in {"v4", "v2", "anonymous"}, NEW n \in Header \ {"Content-Length"}
  PROVE  Will(n)
<1> DEFINE signer == IF client = "v2" THEN "SignV2" ELSE "Signing"
<1>1. ASSUME NEW i \in 1..Len(finalize), Writes(finalize[i], n),
             Written(finalize[i], n) = Promised(n),
             \A j \in 1..Len(finalize) : j > i => ~Writes(finalize[j], n)
      PROVE  Will(n)
  BY <1>1 DEF Will
<1>2. \A j \in 1..Len(finalize) :
        finalize[j].kind \in EditsAfter =>
          (Writes(finalize[j], n) <=> n \in finalize[j].names)
  BY DEF Writes, EditsAfter, EditsBefore
<1>3. \A j \in 1..Len(finalize) :
        finalize[j].kind \in EditsBefore =>
          (Writes(finalize[j], n) <=> n \in finalize[j].names)
  BY DEF Writes, EditsAfter, EditsBefore
<1>4. \A j \in 1..Len(finalize) :
        finalize[j].kind \in {"ResolveEndpoint", "PathReplace", "Chunked"} => ~Writes(finalize[j], n)
  BY DEF Writes, EditsAfter, EditsBefore
<1>5. \A j \in 1..Len(finalize) :
        finalize[j].kind = "PayloadHash" => (Writes(finalize[j], n) <=> n = "X-Amz-Content-Sha256")
  BY DEF Writes, EditsAfter, EditsBefore
<1>6. \A j \in 1..Len(finalize) :
        finalize[j].kind = signer =>
          (Writes(finalize[j], n) <=>
             n \in SignerOwns \/ (client = "v2" /\ n = "X-Amz-Content-Sha256"))
  BY DEF Writes, EditsAfter, EditsBefore, SignerOwns
<1>7. PICK s \in 1..Len(finalize) : finalize[s].kind = signer
  <2>1. signer \in Base
    BY DEF Base
  <2>. QED BY <2>1, WhatIsThere
<1>8. PICK h \in 1..Len(finalize) : finalize[h].kind = "PayloadHash"
  BY WhatIsThere DEF Base
<1>9. n # "Content-Length"
  OBVIOUS
<1> HIDE DEF signer
<1>10. Rank(signer) = 5 /\ Rank("PayloadHash") = 3
  BY RankOf DEF signer
<1>11. CASE Naming(EditsAfter, n) # {}
  <2>1. PICK i \in 1..Len(finalize) :
          /\ finalize[i].kind \in EditsAfter /\ n \in finalize[i].names
          /\ Written(finalize[i], n) = FirstDecides(EditsAfter, n)
          /\ \A j \in 1..Len(finalize) :
               j > i => ~(finalize[j].kind \in EditsAfter /\ n \in finalize[j].names)
    BY <1>11, FirstRunsLast
  <2>2. Rank(finalize[i].kind) = 6
    BY <2>1, RankOf
  <2>3. ASSUME NEW j \in 1..Len(finalize), j > i PROVE ~Writes(finalize[j], n)
    <3>1. i < j
      BY <2>3
    <3>2. finalize[j].kind \in EditsAfter
      BY <2>2, <3>1, Behind
    <3>. QED BY <1>2, <2>1, <2>3, <3>2
  <2>4. Promised(n) = FirstDecides(EditsAfter, n)
    BY <1>9, <1>11 DEF Promised
  <2>. QED BY <1>1, <1>2, <2>1, <2>3, <2>4
\* Without an edit after signing nothing behind the signer writes the header.
<1>12. ASSUME Naming(EditsAfter, n) = {}, NEW j \in 1..Len(finalize), finalize[j].kind \in EditsAfter
       PROVE  ~Writes(finalize[j], n)
  <2>1. ~(finalize[j].kind \in EditsAfter /\ n \in finalize[j].names)
    BY <1>12, FirstRunsLast
  <2>. QED BY <1>2, <1>12, <2>1
<1>13. ASSUME Naming(EditsAfter, n) = {}, NEW j \in 1..Len(finalize), s < j
       PROVE  ~Writes(finalize[j], n)
  <2>1. finalize[j].kind \in EditsAfter
    <3>1. Rank(finalize[s].kind) = 5
      BY <1>7, <1>10
    <3>2. Rank(finalize[j].kind) \in 5..6 /\ finalize[j].kind # signer
      BY <1>7, <1>13, <3>1, Behind
    <3>. QED BY <1>13, <3>2, Behind DEF signer
  <2>. QED BY <1>12, <1>13, <2>1
<1>14. CASE Naming(EditsAfter, n) = {} /\ n \in SignerOwns
  <2>1. Promised(n) = "signer" /\ Writes(finalize[s], n) /\ n # "X-Amz-Content-Sha256"
    BY <1>6, <1>7, <1>9, <1>14 DEF Promised, SignerOwns
  <2>2. Written(finalize[s], n) = "signer"
    BY <1>7, <2>1 DEF Written, signer
  <2>3. \A j \in 1..Len(finalize) : j > s => ~Writes(finalize[j], n)
    BY <1>13, <1>14
  <2>. QED BY <1>1, <2>1, <2>2, <2>3
<1>15. CASE Naming(EditsAfter, n) = {} /\ n \notin SignerOwns /\ n = "X-Amz-Content-Sha256"
  <2>1. CASE client = "v2"
    <3>1. Promised(n) = "none" /\ Writes(finalize[s], n)
      BY <1>6, <1>7, <1>9, <1>15, <2>1 DEF Promised
    <3>2. Written(finalize[s], n) = "none"
      BY <1>7, <1>15, <2>1 DEF Written, signer
    <3>3. \A j \in 1..Len(finalize) : j > s => ~Writes(finalize[j], n)
      BY <1>13, <1>15
    <3>. QED BY <1>1, <3>1, <3>2, <3>3
  <2>2. CASE client # "v2"
    <3>1. Promised(n) = "sdk" /\ Writes(finalize[h], n)
      BY <1>5, <1>8, <1>9, <1>15, <2>2 DEF Promised
    <3>2. Written(finalize[h], n) = "sdk"
      BY <1>8 DEF Written
    <3>3. ASSUME NEW j \in 1..Len(finalize), j > h PROVE ~Writes(finalize[j], n)
      <4>1. h < j
        BY <3>3
      <4>2. Rank(finalize[j].kind) \in 3..6 /\ finalize[j].kind # "PayloadHash"
        BY <1>8, <1>10, <4>1, Behind
      <4>3. CASE Rank(finalize[j].kind) = 4
        BY <1>4, <4>1, <4>3, Behind
      <4>4. CASE Rank(finalize[j].kind) = 5
        <5>1. finalize[j].kind = signer
          BY <4>1, <4>4, Behind DEF signer
        <5>. QED BY <1>6, <1>15, <2>2, <5>1
      <4>5. CASE Rank(finalize[j].kind) = 6
        BY <1>12, <1>15, <4>1, <4>5, Behind
      <4>6. Rank(finalize[j].kind) # 3
        BY <4>1, <4>2, Behind
      <4>. QED BY <4>2, <4>3, <4>4, <4>5, <4>6
    <3>. QED BY <1>1, <3>1, <3>2, <3>3
  <2>. QED BY <2>1, <2>2
<1>16. CASE Naming(EditsAfter, n) = {} /\ n \notin SignerOwns /\ n # "X-Amz-Content-Sha256"
  \* Nothing but an edit before signing writes the header.
  <2>1. ASSUME NEW j \in 1..Len(finalize), finalize[j].kind \notin EditsBefore
        PROVE  ~Writes(finalize[j], n)
    <3>1. finalize[j].kind \in Base \cup InFinalize
      BY WhatIsThere
    <3>2. CASE finalize[j].kind \in {"ResolveEndpoint", "PathReplace", "Chunked"}
      BY <1>4, <3>2
    <3>3. CASE finalize[j].kind = "PayloadHash"
      BY <1>5, <1>16, <3>3
    <3>4. CASE finalize[j].kind = signer
      BY <1>6, <1>16, <3>4
    <3>5. CASE finalize[j].kind \in EditsAfter
      BY <1>12, <1>16, <3>5
    <3>. QED BY <2>1, <3>1, <3>2, <3>3, <3>4, <3>5 DEF Base, InFinalize, signer
  <2>2. CASE Naming(EditsBefore, n) # {}
    <3>1. PICK i \in 1..Len(finalize) :
            /\ finalize[i].kind \in EditsBefore /\ n \in finalize[i].names
            /\ Written(finalize[i], n) = FirstDecides(EditsBefore, n)
            /\ \A j \in 1..Len(finalize) :
                 j > i => ~(finalize[j].kind \in EditsBefore /\ n \in finalize[j].names)
      BY <2>2, FirstRunsLast
    <3>2. \A j \in 1..Len(finalize) : j > i => ~Writes(finalize[j], n)
      BY <1>3, <2>1, <3>1
    <3>3. Promised(n) = FirstDecides(EditsBefore, n)
      BY <1>9, <1>16, <2>2 DEF Promised
    <3>. QED BY <1>1, <1>3, <3>1, <3>2, <3>3
  <2>3. CASE Naming(EditsBefore, n) = {}
    <3>1. \A j \in 1..Len(finalize) : ~(finalize[j].kind \in EditsBefore /\ n \in finalize[j].names)
      BY <2>3, FirstRunsLast
    <3>2. \A j \in 1..Len(finalize) : ~Writes(finalize[j], n)
      BY <1>3, <2>1, <3>1
    <3>3. Promised(n) = SDKHeader[n]
      BY <1>9, <1>16, <2>3 DEF Promised
    <3>4. req.header[n] = SDKHeader[n]
      <4>1. req = FirstRequest
        BY DEF Built, OrderHolds
      <4>. QED BY <4>1 DEF FirstRequest
    <3>. QED BY <3>2, <3>3, <3>4 DEF Will
  <2>. QED BY <2>2, <2>3
<1>. QED BY <1>11, <1>14, <1>15, <1>16

\* The transport is the last one asked for.
LEMMA TransportAsked ==
  ASSUME Built
  PROVE  transport = RawAsked
<1> DEFINE raw == {i \in DOMAIN opts : opts[i].kind \in RawTransport}
<1>1. DOMAIN opts = 1..Len(opts) /\ Len(opts) \in Nat
  BY DEF Built, CallType
<1>2. RawAsked = IF raw = {} THEN "pool" ELSE opts[Max(raw)].kind
  BY DEF RawAsked
<1>3. LastRaw(Len(opts))
  BY DEF Built, OrderHolds
<1>4. CASE raw = {}
  BY <1>1, <1>2, <1>3, <1>4 DEF LastRaw
<1>5. CASE raw # {}
  <2>1. raw \subseteq 1..Len(opts) /\ \A y \in raw : opts[y].kind \in RawTransport
    BY <1>1
  <2>2. \A y \in 1..Len(opts) : opts[y].kind \in RawTransport => y \in raw
    BY <1>1
  <2> HIDE DEF raw
  <2>3. Max(raw) \in raw /\ \A y \in raw : Max(raw) >= y
    BY <1>1, <1>5, <2>1, MinMax
  <2>4. PICK p \in 1..Len(opts) :
          /\ transport = opts[p].kind /\ opts[p].kind \in RawTransport
          /\ \A q \in 1..Len(opts) : q > p => opts[q].kind \notin RawTransport
    BY <1>3, <1>5, <2>1 DEF LastRaw
  <2>5. Max(raw) \in 1..Len(opts) /\ Max(raw) >= p /\ ~(Max(raw) > p)
    BY <2>1, <2>2, <2>3, <2>4
  <2>6. Max(raw) = p
    BY <1>1, <2>4, <2>5
  <2>. QED BY <1>2, <1>5, <2>4, <2>6
<1>. QED BY <1>4, <1>5

\* A stack that has been built does what its options promise.
LEMMA BuiltRuns ==
  ASSUME Built, client \in {"v4", "v2", "anonymous"}
  PROVE  RunHolds /\ SignHolds
<1>1. DOMAIN opts = 1..Len(opts) /\ Len(opts) \in Nat
  BY DEF Built, CallType
<1>2. /\ finalize \in Seq(Middleware) /\ Distinct(finalize) /\ build \in Seq(Middleware)
      /\ Kinds(finalize) = Base \cup Done(Len(opts), InFinalize)
      /\ Kinds(build) = Done(Len(opts), {"SetQuery"})
  BY DEF Built, StackHolds
<1>3. \A k : Gives(k) <=> k \in {opts[i].kind : i \in 1..Len(opts)}
  BY <1>1 DEF Gives
<1>4. /\ req.bucket = "none" /\ req.query = FALSE /\ req.length = TRUE /\ req.trailer = FALSE
      /\ req \in Request /\ signed = <<>>
  <2>1. req = FirstRequest /\ signed = <<>>
    BY DEF Built, OrderHolds
  <2>2. SDKHeader \in [Header -> Value]
    BY DEF SDKHeader, Value
  <2>3. FirstRequest \in Request
    BY <2>2 DEF FirstRequest, Request
  <2>. QED BY <2>1, <2>3 DEF FirstRequest
<1>5. \A k \in {"PathReplace", "Chunked"} : k \in Kinds(finalize) <=> Gives(k)
  BY <1>2, <1>3 DEF Done, Base, InFinalize
<1>6. "ResolveEndpoint" \in Kinds(finalize) /\ "PayloadHash" \in Kinds(finalize)
  BY <1>2 DEF Base
<1>7. WillBucket
  BY <1>5, <1>6 DEF WillBucket
<1>8. WillQuery
  <2>1. Gives("SetQuery") <=> "SetQuery" \in Kinds(build)
    BY <1>2, <1>3 DEF Done
  <2>2. CASE build = <<>>
    <3>1. 1..Len(build) = {}
      BY <2>2
    <3>2. ~Gives("SetQuery")
      BY <2>1, <3>1 DEF Kinds
    <3>. QED BY <1>4, <2>2, <3>2 DEF WillQuery, Gives
  <2>3. CASE build # <<>>
    <3>1. 1 \in 1..Len(build)
      BY <1>2, <2>3
    <3>2. build[1].kind \in Kinds(build)
      BY <3>1 DEF Kinds
    <3>3. "SetQuery" \in Kinds(build)
      BY <1>2, <3>2 DEF Done
    <3>. QED BY <2>1, <2>3, <3>3 DEF WillQuery
  <2>. QED BY <2>2, <2>3
<1>9. WillLength
  BY <1>4, <1>5 DEF WillLength, Gives
<1>10. WillTrailer
  <2>1. checksum = (client # "v2" /\ Done(Len(opts), {"NoChecksum"}) = {})
    BY DEF Built, OrderHolds
  <2>2. Gives("NoChecksum") <=> Done(Len(opts), {"NoChecksum"}) # {}
    BY <1>3 DEF Done
  <2>. QED BY <1>6, <2>1, <2>2 DEF WillTrailer, Gives
<1>11. /\ Sorted(finalize) /\ FromOptions(finalize, Len(opts))
       /\ Kinds(finalize) \subseteq Base \cup InFinalize
  BY <1>2 DEF Built, OrderHolds, Done
<1>12. \A n \in Header \ {"Content-Length"} : Will(n)
  BY EveryHeaderWill
<1>13. SignHolds
  BY <1>4 DEF SignHolds
<1>. QED BY <1>2, <1>4, <1>7, <1>8, <1>9, <1>10, <1>11, <1>12, <1>13, TransportAsked DEF RunHolds

-----------------------------------------------------------------------------
(* The run of the stack.                                                   *)

\* What is promised, and what went out, does not change after the options.
LEMMA PromiseStays ==
  ASSUME UNCHANGED <<client, opts>>
  PROVE  /\ \A n : Promised(n)' = Promised(n)
         /\ \A k : Gives(k)' = Gives(k)
         /\ \A ks, n : Naming(ks, n)' = Naming(ks, n)
         /\ RawAsked' = RawAsked /\ Tampers' = Tampers /\ Covered' = Covered
BY DEF Promised, Gives, Naming, RawAsked, Tampers, FirstDecides, SignerOwns, Covered

\* One middleware of the Finalize step has run, and has given the headers it
\* writes their values.
LEMMA PopHolds ==
  ASSUME RunHolds, finalize # <<>>, finalize' = Tail(finalize), UNCHANGED <<client, opts>>,
         \A n \in Header \ {"Content-Length"} :
           req'.header[n] = IF Writes(Head(finalize), n) THEN Written(Head(finalize), n)
                            ELSE req.header[n]
  PROVE  /\ finalize' \in Seq(Middleware) /\ Distinct(finalize')
         /\ Sorted(finalize') /\ FromOptions(finalize, Len(opts))'
         /\ Kinds(finalize') \subseteq (Base \cup InFinalize)'
         /\ \A n \in Header \ {"Content-Length"} : Will(n)'
         /\ Kinds(finalize') = Kinds(finalize) \ {Head(finalize).kind}
         /\ Head(finalize).kind \in Kinds(finalize)
         /\ \A k \in Kinds(finalize') : Rank(Head(finalize).kind) <= Rank(k)
<1> DEFINE s == finalize  t == Tail(finalize)
<1>1. s \in Seq(Middleware) /\ Distinct(s) /\ Sorted(s) /\ FromOptions(s, Len(opts)) /\ s # <<>>
  BY DEF RunHolds
<1>2. t \in Seq(Middleware) /\ Len(s) = Len(t) + 1 /\ Head(s) = s[1] /\ Len(s) \in Nat /\ Len(t) \in Nat
  BY <1>1
<1>3. \A i \in 1..Len(t) : t[i] = s[i + 1] /\ i + 1 \in 1..Len(s) /\ 1 < i + 1
  BY <1>1, <1>2
<1>4. \A i \in 1..Len(s) : i = 1 \/ (i - 1 \in 1..Len(t) /\ s[i] = t[i - 1])
  <2>1. SUFFICES ASSUME NEW i \in 1..Len(s), i # 1
                 PROVE  i - 1 \in 1..Len(t) /\ s[i] = t[i - 1]
    OBVIOUS
  <2>2. i - 1 \in 1..Len(t) /\ (i - 1) + 1 = i
    BY <1>2, <2>1
  <2>. QED BY <1>3, <2>2
<1>5. 1 \in 1..Len(s)
  BY <1>2
<1> HIDE DEF s, t
<1>6. Distinct(t)
  <2>1. SUFFICES ASSUME NEW i \in 1..Len(t), NEW j \in 1..Len(t), t[i].kind = t[j].kind
                 PROVE  i = j
    BY DEF Distinct
  <2>2. i + 1 = j + 1
    BY <1>1, <1>3, <2>1 DEF Distinct
  <2>. QED BY <1>2, <2>2
<1>7. Sorted(t)
  <2>1. SUFFICES ASSUME NEW i \in 1..Len(t), NEW j \in 1..Len(t), i < j
                 PROVE  Rank(t[i].kind) <= Rank(t[j].kind)
    BY DEF Sorted
  <2>2. i + 1 < j + 1 /\ i + 1 \in 1..Len(s) /\ j + 1 \in 1..Len(s) /\ t[i] = s[i + 1] /\ t[j] = s[j + 1]
    BY <1>2, <1>3, <2>1
  <2>. QED BY <1>1, <2>2 DEF Sorted
<1>8. FromOptions(t, Len(opts))
  BY <1>1, <1>3 DEF FromOptions
<1>9. Kinds(t) = Kinds(s) \ {s[1].kind}
  <2>1. \A i \in 1..Len(t) : t[i].kind # s[1].kind
    <3>1. SUFFICES ASSUME NEW i \in 1..Len(t), t[i].kind = s[1].kind PROVE FALSE
      OBVIOUS
    <3>2. i + 1 = 1
      BY <1>1, <1>3, <1>5, <3>1 DEF Distinct
    <3>. QED BY <1>2, <3>2
  <2>2. ASSUME NEW i \in 1..Len(s), s[i].kind # s[1].kind PROVE s[i].kind \in Kinds(t)
    BY <1>4, <2>2 DEF Kinds
  <2>3. \A i \in 1..Len(t) : t[i].kind \in Kinds(s)
    BY <1>3 DEF Kinds
  <2>. QED BY <2>1, <2>2, <2>3 DEF Kinds
<1>10. \A k \in Kinds(t) : Rank(s[1].kind) <= Rank(k)
  BY <1>1, <1>3, <1>5 DEF Kinds, Sorted
<1>11. ASSUME NEW n \in Header \ {"Content-Length"} PROVE Will(n)'
  <2>1. Will(n)
    BY DEF RunHolds
  <2>2. PICK v : v = Promised(n) /\ Promised(n)' = v
    BY PromiseStays
  <2>3. req'.header[n] = IF Writes(s[1], n) THEN Written(s[1], n) ELSE req.header[n]
    BY <1>2 DEF s
  <2>4. \/ \E i \in 1..Len(t) :
             /\ Writes(t[i], n) /\ Written(t[i], n) = v
             /\ \A j \in 1..Len(t) : j > i => ~Writes(t[j], n)
        \/ /\ \A j \in 1..Len(t) : ~Writes(t[j], n)
           /\ req'.header[n] = v
    <3>1. CASE \A j \in 1..Len(s) : ~Writes(s[j], n)
      <4>1. req.header[n] = v
        BY <2>1, <2>2, <3>1 DEF Will, s
      <4>. QED BY <1>3, <1>5, <2>3, <3>1, <4>1
    <3>2. CASE ~(\A j \in 1..Len(s) : ~Writes(s[j], n))
      <4>1. PICK i \in 1..Len(s) :
              /\ Writes(s[i], n) /\ Written(s[i], n) = v
              /\ \A j \in 1..Len(s) : j > i => ~Writes(s[j], n)
        BY <2>1, <2>2, <3>2 DEF Will, s
      <4>2. CASE i = 1
        BY <1>3, <2>3, <4>1, <4>2
      <4>3. CASE i # 1
        <5>1. i - 1 \in 1..Len(t) /\ s[i] = t[i - 1] /\ i \in Nat
          BY <1>2, <1>4, <4>3
        <5>2. ASSUME NEW j \in 1..Len(t), j > i - 1 PROVE ~Writes(t[j], n)
          <6>1. j + 1 \in 1..Len(s) /\ t[j] = s[j + 1] /\ j + 1 > i
            BY <1>2, <1>3, <5>1, <5>2
          <6>. QED BY <4>1, <6>1
        <5>. QED BY <4>1, <5>1, <5>2
      <4>. QED BY <4>2, <4>3
    <3>. QED BY <3>1, <3>2
  <2>5. PICK u : u = t
    OBVIOUS
  <2>6. finalize' = u
    BY <2>5 DEF t
  <2>7. \/ \E i \in 1..Len(u) :
             /\ Writes(u[i], n)' /\ Written(u[i], n) = v
             /\ \A j \in 1..Len(u) : j > i => ~Writes(u[j], n)'
        \/ /\ \A j \in 1..Len(u) : ~Writes(u[j], n)'
           /\ req'.header[n] = v
    <3>1. \A m : Writes(m, n)' <=> Writes(m, n)
      BY DEF Writes
    <3>. QED BY <2>4, <2>5, <3>1
  <2>. QED BY <2>2, <2>6, <2>7 DEF Will, Writes
<1>12. FromOptions(finalize, Len(opts))'
  <2>1. PICK u : u = t
    OBVIOUS
  <2>2. FromOptions(u, Len(opts))' /\ finalize' = u
    BY <1>8, <2>1 DEF FromOptions, Base, t
  <2>. QED BY <2>2 DEF FromOptions
<1>13. s[1].kind \in Kinds(s)
  BY <1>5 DEF Kinds
<1>14. Kinds(t) \subseteq (Base \cup InFinalize)'
  BY <1>9 DEF RunHolds, Base, s
<1>. QED BY <1>2, <1>6, <1>7, <1>9, <1>10, <1>11, <1>12, <1>13, <1>14 DEF s, t

\* One middleware of the Finalize step has run; of the rest of the request it
\* has changed what it is there for.
LEMMA PopRuns ==
  ASSUME CallType, EffectInv, pc = "run", build = <<>>, finalize # <<>>,
         finalize' = Tail(finalize), pc' = pc,
         UNCHANGED <<client, opts, build, checksum, transport>>,
         req' \in Request, req'.query = req.query,
         \A n \in Header \ {"Content-Length"} :
           req'.header[n] = IF Writes(Head(finalize), n) THEN Written(Head(finalize), n)
                            ELSE req.header[n],
         req'.bucket = CASE Head(finalize).kind = "ResolveEndpoint" -> "asked"
                         [] Head(finalize).kind = "PathReplace" ->
                              (IF req.bucket = "none" THEN "none" ELSE "replaced")
                         [] OTHER -> req.bucket,
         req'.length = (req.length /\ Head(finalize).kind # "Chunked"),
         req'.trailer = IF Head(finalize).kind = "PayloadHash" THEN checksum ELSE req.trailer
  PROVE  RunHolds'
<1> DEFINE k == Head(finalize).kind
<1>1. RunHolds
  BY DEF EffectInv
<1>2. /\ finalize' \in Seq(Middleware) /\ Distinct(finalize')
      /\ Sorted(finalize') /\ FromOptions(finalize, Len(opts))'
      /\ Kinds(finalize') \subseteq (Base \cup InFinalize)'
      /\ \A n \in Header \ {"Content-Length"} : Will(n)'
      /\ Kinds(finalize') = Kinds(finalize) \ {k}
      /\ k \in Kinds(finalize)
      /\ \A l \in Kinds(finalize') : Rank(k) <= Rank(l)
  BY <1>1, PopHolds
<1>3. \A l : Gives(l)' = Gives(l)
  BY PromiseStays
<1>4. k \in InFinalize => Gives(k)
  <2>1. finalize \in Seq(Middleware) /\ finalize # <<>>
    BY <1>1 DEF RunHolds
  <2>2. 1 \in 1..Len(finalize) /\ Head(finalize) = finalize[1]
    BY <2>1
  <2>3. k \in InFinalize => \E p \in 1..Len(opts) : finalize[1] = opts[p]
    BY <1>1, <2>2, BaseApart DEF RunHolds, FromOptions
  <2>4. 1..Len(opts) = DOMAIN opts
    BY DEF CallType
  <2>. QED BY <2>2, <2>3, <2>4 DEF Gives
<1> HIDE DEF k
<1>5. WillBucket'
  <2>1. \A l : l \in Kinds(finalize') <=> l \in Kinds(finalize) /\ l # k
    BY <1>2
  <2>2. WillBucket /\ req'.bucket = CASE k = "ResolveEndpoint" -> "asked"
                         [] k = "PathReplace" -> (IF req.bucket = "none" THEN "none" ELSE "replaced")
                         [] OTHER -> req.bucket
    BY <1>1 DEF RunHolds, k
  <2>3. IF "ResolveEndpoint" \in Kinds(finalize')
        THEN "PathReplace" \in Kinds(finalize') <=> Gives("PathReplace")
        ELSE IF "PathReplace" \in Kinds(finalize') THEN Gives("PathReplace") /\ req'.bucket = "asked"
        ELSE req'.bucket = (IF Gives("PathReplace") THEN "replaced" ELSE "asked")
    <3>1. CASE k = "ResolveEndpoint"
      BY <1>2, <2>1, <2>2, <3>1 DEF WillBucket
    <3>2. CASE k = "PathReplace"
      <4>1. "ResolveEndpoint" \notin Kinds(finalize')
        BY <1>2, <3>2, RankOf
      <4>2. "ResolveEndpoint" \notin Kinds(finalize)
        BY <2>1, <3>2, <4>1
      <4>3. Gives("PathReplace") /\ req.bucket = "asked"
        BY <1>2, <2>2, <3>2, <4>2 DEF WillBucket
      <4>. QED BY <2>1, <2>2, <3>2, <4>1, <4>3
    <3>3. CASE k \notin {"ResolveEndpoint", "PathReplace"}
      BY <2>1, <2>2, <3>3 DEF WillBucket
    <3>. QED BY <3>1, <3>2, <3>3
  <2>4. Kinds(finalize)' = Kinds(finalize')
    BY DEF Kinds
  <2>. QED BY <1>3, <2>3, <2>4 DEF WillBucket
<1>6. WillQuery'
  BY <1>1, <1>3 DEF RunHolds, WillQuery
<1>7. WillLength'
  <2>1. req.length = ~(Gives("Chunked") /\ "Chunked" \notin Kinds(finalize))
    BY <1>1 DEF RunHolds, WillLength
  <2>2. req'.length = ~(Gives("Chunked") /\ "Chunked" \notin Kinds(finalize'))
    <3>1. CASE k = "Chunked"
      <4>1. Gives("Chunked") /\ "Chunked" \notin Kinds(finalize')
        BY <1>2, <1>4, <3>1 DEF InFinalize
      <4>2. req'.length = FALSE
        BY <3>1 DEF k
      <4>. QED BY <4>1, <4>2
    <3>2. CASE k # "Chunked"
      <4>1. "Chunked" \in Kinds(finalize') <=> "Chunked" \in Kinds(finalize)
        BY <1>2, <3>2
      <4>2. req'.length = req.length
        <5>1. req.length \in BOOLEAN
          BY <1>1 DEF RunHolds, Request
        <5>2. req'.length = (req.length /\ k # "Chunked")
          BY DEF k
        <5>. QED BY <3>2, <5>1, <5>2
      <4>. QED BY <2>1, <4>1, <4>2
    <3>. QED BY <3>1, <3>2
  <2>3. Gives("Chunked")' = Gives("Chunked") /\ Kinds(finalize)' = Kinds(finalize')
    BY <1>3 DEF Kinds
  <2>. QED BY <2>2, <2>3 DEF WillLength
<1>8. WillTrailer'
  <2>1. /\ checksum = ~(Gives("NoChecksum") \/ client = "v2")
        /\ "PayloadHash" \notin Kinds(finalize) => req.trailer = checksum
    BY <1>1 DEF RunHolds, WillTrailer
  <2>2. "PayloadHash" \notin Kinds(finalize') => req'.trailer = checksum
    <3>1. CASE k = "PayloadHash"
      BY <3>1 DEF k
    <3>2. CASE k # "PayloadHash"
      BY <1>2, <2>1, <3>2 DEF k
    <3>. QED BY <3>1, <3>2
  <2>3. Gives("NoChecksum")' = Gives("NoChecksum") /\ Kinds(finalize)' = Kinds(finalize')
    BY <1>3 DEF Kinds
  <2>. QED BY <2>1, <2>2, <2>3 DEF WillTrailer
<1>9. transport' = RawAsked'
  BY <1>1, PromiseStays DEF RunHolds
<1>10. Distinct(finalize)' /\ Sorted(finalize)' /\ Kinds(finalize)' \subseteq (Base \cup InFinalize)'
  BY <1>2 DEF Distinct, Sorted, Kinds
<1>. QED BY <1>2, <1>5, <1>6, <1>7, <1>8, <1>9, <1>10 DEF RunHolds

\* What the run of the first middleware of the Finalize step does.
Popped ==
  /\ pc = "run" /\ pc' = pc /\ build = <<>> /\ finalize # <<>> /\ finalize' = Tail(finalize)
  /\ UNCHANGED <<client, opts, build, checksum, transport, wire>>
  /\ req' \in Request /\ req'.query = req.query
  /\ \A n \in Header \ {"Content-Length"} :
       req'.header[n] = IF Writes(Head(finalize), n) THEN Written(Head(finalize), n)
                        ELSE req.header[n]
  /\ req'.bucket = CASE Head(finalize).kind = "ResolveEndpoint" -> "asked"
                     [] Head(finalize).kind = "PathReplace" ->
                          (IF req.bucket = "none" THEN "none" ELSE "replaced")
                     [] OTHER -> req.bucket
  /\ req'.length = (req.length /\ Head(finalize).kind # "Chunked")
  /\ req'.trailer = IF Head(finalize).kind = "PayloadHash" THEN checksum ELSE req.trailer

\* Each middleware does that (WithHeaders and the like, signV2).
LEMMA EachPops ==
  ASSUME EffectInv, CallType,
         \/ SetHeaders \/ RemoveHeaders \/ ResolveEndpoint \/ PayloadHash
         \/ PathReplace \/ Chunked \/ Sign \/ SignV2
  PROVE  Popped
<1> DEFINE m == Head(finalize)
<1>1. /\ pc = "run" /\ pc' = pc /\ build = <<>> /\ finalize # <<>> /\ finalize' = Tail(finalize)
      /\ UNCHANGED <<client, opts, build, checksum, transport, wire>>
  BY DEF SetHeaders, RemoveHeaders, ResolveEndpoint, PayloadHash, PathReplace, Chunked, Sign, SignV2,
         Runs, callVars, netVars
<1>2. req \in Request /\ checksum \in BOOLEAN
  BY <1>1 DEF EffectInv, RunHolds, WillTrailer
<1>3. /\ req.header \in [Header -> Value] /\ req.bucket \in {"none", "asked", "replaced"}
      /\ req.query \in BOOLEAN /\ req.length \in BOOLEAN /\ req.trailer \in BOOLEAN
  BY <1>2 DEF Request
<1> SUFFICES
      /\ req' \in Request /\ req'.query = req.query
      /\ \A n \in Header \ {"Content-Length"} :
           req'.header[n] = IF Writes(m, n) THEN Written(m, n) ELSE req.header[n]
      /\ req'.bucket = CASE m.kind = "ResolveEndpoint" -> "asked"
                         [] m.kind = "PathReplace" ->
                              (IF req.bucket = "none" THEN "none" ELSE "replaced")
                         [] OTHER -> req.bucket
      /\ req'.length = (req.length /\ m.kind # "Chunked")
      /\ req'.trailer = IF m.kind = "PayloadHash" THEN checksum ELSE req.trailer
  BY <1>1 DEF Popped
<1> HIDE DEF m
<1>4. ASSUME NEW h \in [Header -> Value], NEW v \in Value
      PROVE  \A N : [n \in Header |-> IF n \in N THEN v ELSE h[n]] \in [Header -> Value]
  OBVIOUS
<1>5. {"none", "sdk", "caller", "signer"} \subseteq Value
  BY DEF Value
<1>6. CASE SetHeaders
  <2>1. m.kind \in {"SetHeaders", "SetHeadersAfterSigning"} /\ req' = Edited("caller")
    BY <1>6 DEF SetHeaders, Runs, m
  <2>2. req' = [req EXCEPT !.header = [n \in Header |-> IF n \in m.names THEN "caller" ELSE req.header[n]]]
    BY <2>1 DEF Edited, m
  <2>3. \A n : Writes(m, n) <=> n \in m.names
    BY <2>1 DEF Writes, EditsBefore, EditsAfter
  <2>4. \A n : Written(m, n) = "caller"
    BY <2>1 DEF Written
  <2>. QED BY <1>2, <1>3, <1>5, <2>1, <2>2, <2>3, <2>4 DEF Request
<1>7. CASE RemoveHeaders
  <2>1. m.kind \in {"RemoveHeaders", "RemoveHeadersAfterSigning"} /\ req' = Edited("none")
    BY <1>7 DEF RemoveHeaders, Runs, m
  <2>2. req' = [req EXCEPT !.header = [n \in Header |-> IF n \in m.names THEN "none" ELSE req.header[n]]]
    BY <2>1 DEF Edited, m
  <2>3. \A n : Writes(m, n) <=> n \in m.names
    BY <2>1 DEF Writes, EditsBefore, EditsAfter
  <2>4. \A n : Written(m, n) = "none"
    BY <2>1 DEF Written
  <2>. QED BY <1>2, <1>3, <1>5, <2>1, <2>2, <2>3, <2>4 DEF Request
<1>8. CASE ResolveEndpoint
  <2>1. m.kind = "ResolveEndpoint" /\ req' = [req EXCEPT !.bucket = "asked"]
    BY <1>8 DEF ResolveEndpoint, Runs, m
  <2>2. \A n : ~Writes(m, n)
    BY <2>1 DEF Writes, EditsBefore, EditsAfter
  <2>. QED BY <1>2, <1>3, <2>1, <2>2 DEF Request
<1>9. CASE PayloadHash
  <2>1. m.kind = "PayloadHash"
        /\ req' = [req EXCEPT !.header["X-Amz-Content-Sha256"] = "sdk", !.trailer = checksum]
    BY <1>9 DEF PayloadHash, Runs, m
  <2>2. \A n : Writes(m, n) <=> n = "X-Amz-Content-Sha256"
    BY <2>1 DEF Writes, EditsBefore, EditsAfter
  <2>3. \A n : Written(m, n) = "sdk"
    BY <2>1 DEF Written
  <2>. QED BY <1>2, <1>3, <1>5, <2>1, <2>2, <2>3 DEF Request
<1>10. CASE PathReplace
  <2>1. m.kind = "PathReplace"
        /\ req' = [req EXCEPT !.bucket = IF req.bucket = "none" THEN req.bucket ELSE "replaced"]
    BY <1>10 DEF PathReplace, Runs, m
  <2>2. \A n : ~Writes(m, n)
    BY <2>1 DEF Writes, EditsBefore, EditsAfter
  <2>. QED BY <1>2, <1>3, <2>1, <2>2 DEF Request
<1>11. CASE Chunked
  <2>1. m.kind = "Chunked"
        /\ req' = [req EXCEPT !.length = FALSE, !.header["Content-Length"] = "none"]
    BY <1>11 DEF Chunked, Runs, m
  <2>2. \A n : ~Writes(m, n)
    BY <2>1 DEF Writes, EditsBefore, EditsAfter
  <2>. QED BY <1>2, <1>3, <1>5, <2>1, <2>2 DEF Request
<1>12. CASE Sign
  <2>1. m.kind = "Signing"
    BY <1>12 DEF Sign, Runs, m
  <2>2. CASE client = "anonymous"
    <3>1. req' = req
      BY <1>12, <2>2 DEF Sign
    <3>2. \A n : ~Writes(m, n)
      BY <2>1, <2>2 DEF Writes, EditsBefore, EditsAfter
    <3>. QED BY <1>2, <1>3, <2>1, <3>1, <3>2
  <2>3. CASE client # "anonymous"
    <3>1. req' = [req EXCEPT !.header["X-Amz-Date"] = "signer", !.header["Authorization"] = "signer"]
      BY <1>12, <2>3 DEF Sign
    <3>2. \A n : Writes(m, n) <=> n \in {"Authorization", "X-Amz-Date"}
      BY <2>1, <2>3 DEF Writes, EditsBefore, EditsAfter
    <3>3. \A n : Written(m, n) = "signer"
      BY <2>1 DEF Written
    <3>. QED BY <1>2, <1>3, <1>5, <2>1, <3>1, <3>2, <3>3 DEF Request
  <2>. QED BY <2>2, <2>3
<1>13. CASE SignV2
  <2>1. m.kind = "SignV2"
        /\ req' = [req EXCEPT !.header["X-Amz-Content-Sha256"] = "none",
                              !.header["Date"] = "signer", !.header["Authorization"] = "signer"]
    BY <1>13 DEF SignV2, Runs, m
  <2>2. \A n : Writes(m, n) <=> n \in {"Authorization", "Date", "X-Amz-Content-Sha256"}
    BY <2>1 DEF Writes, EditsBefore, EditsAfter
  <2>3. \A n : Written(m, n) = IF n = "X-Amz-Content-Sha256" THEN "none" ELSE "signer"
    BY <2>1 DEF Written
  <2>. QED BY <1>2, <1>3, <1>5, <2>1, <2>2, <2>3 DEF Request
<1>. QED BY <1>6, <1>7, <1>8, <1>9, <1>10, <1>11, <1>12, <1>13

\* Behind the signer runs nothing but an edit that was asked for after signing.
LEMMA PopSigned ==
  ASSUME EffectInv, CallType, Popped, UNCHANGED signed
  PROVE  SignHolds'
<1>1. RunHolds /\ SignHolds
  BY DEF EffectInv, Popped
<1>2. CASE signed = <<>>
  BY <1>2 DEF SignHolds
<1>3. CASE signed # <<>>
  <2>1. /\ build = <<>> /\ Len(signed) = 1
        /\ signed[1].header["Authorization"] = "signer"
        /\ Kinds(finalize) \subseteq EditsAfter
        /\ signed[1].bucket = req.bucket /\ signed[1].query = req.query
        /\ signed[1].length = req.length
        /\ \A n \in Header \ {"Content-Length"} :
             Naming(EditsAfter, n) = {} => signed[1].header[n] = req.header[n]
    BY <1>1, <1>3 DEF SignHolds
  <2>2. /\ Kinds(finalize') = Kinds(finalize) \ {Head(finalize).kind}
        /\ Head(finalize).kind \in Kinds(finalize)
    BY <1>1, PopHolds DEF Popped
  <2>3. Head(finalize).kind \in EditsAfter
    BY <2>1, <2>2
  <2>4. req'.bucket = req.bucket /\ req'.query = req.query
    BY <2>3 DEF Popped, EditsAfter
  <2>5. req'.length = req.length
    <3>1. req.length \in BOOLEAN
      BY <1>1 DEF RunHolds, Request
    <3>2. Head(finalize).kind # "Chunked"
      BY <2>3 DEF EditsAfter
    <3>3. req'.length = (req.length /\ Head(finalize).kind # "Chunked")
      BY DEF Popped
    <3>. QED BY <3>1, <3>2, <3>3
  <2>6. ASSUME NEW n \in Header \ {"Content-Length"}, Naming(EditsAfter, n) = {}
        PROVE  req'.header[n] = req.header[n]
    <3>1. finalize \in Seq(Middleware) /\ finalize # <<>>
      BY <1>1 DEF RunHolds, Popped
    <3>2. 1 \in 1..Len(finalize) /\ Head(finalize) = finalize[1]
      BY <3>1
    <3>3. PICK p \in 1..Len(opts) : finalize[1] = opts[p]
      <4>1. Head(finalize).kind \notin Base
        BY <2>3, BaseApart DEF OptionKind
      <4>. QED BY <1>1, <3>2, <4>1 DEF RunHolds, FromOptions
    <3>4. p \in DOMAIN opts
      BY DEF CallType
    <3>5. n \notin Head(finalize).names
      BY <2>3, <2>6, <3>2, <3>3, <3>4 DEF Naming
    <3>6. ~Writes(Head(finalize), n)
      BY <2>3, <3>5 DEF Writes, EditsBefore, EditsAfter
    <3>. QED BY <3>6 DEF Popped
  <2>7. \A ks, n : Naming(ks, n)' = Naming(ks, n)
    BY PromiseStays DEF Popped
  <2>8. Kinds(finalize)' \subseteq EditsAfter
    <3>1. Kinds(finalize)' = Kinds(finalize')
      BY DEF Kinds
    <3>. QED BY <2>1, <2>2, <3>1
  <2>9. build' = <<>>
    BY DEF Popped
  <2>. QED BY <2>1, <2>4, <2>5, <2>6, <2>7, <2>8, <2>9 DEF SignHolds
<1>. QED BY <1>2, <1>3

\* Once a signer has run only edits that were asked for after signing are left.
LEMMA OnlyEditsLeft ==
  ASSUME RunHolds, Popped, Head(finalize).kind \in {"Signing", "SignV2"}
  PROVE  Kinds(finalize') \subseteq EditsAfter
<1> DEFINE k == Head(finalize).kind
<1>1. /\ Kinds(finalize') = Kinds(finalize) \ {k} /\ k \in Kinds(finalize)
      /\ \A l \in Kinds(finalize') : Rank(k) <= Rank(l)
  BY PopHolds DEF Popped
<1>2. Kinds(finalize) \subseteq Base \cup InFinalize
  BY DEF RunHolds
<1>3. Rank(k) = 5
  BY RankOf
<1>4. {"Signing", "SignV2"} \cap InFinalize = {}
  BY DEF InFinalize, EditsBefore, EditsAfter
<1>5. \A l \in Base : l \in {"Signing", "SignV2"} => l = IF client = "v2" THEN "SignV2" ELSE "Signing"
  BY DEF Base
<1>6. k \in {"Signing", "SignV2"}
  OBVIOUS
<1> HIDE DEF k
<1>7. ASSUME NEW l \in Kinds(finalize') PROVE l \in EditsAfter
  <2>1. l \in Base \cup InFinalize /\ l # k /\ 5 <= Rank(l)
    BY <1>1, <1>2, <1>3
  <2>2. l \notin {"Signing", "SignV2"}
    BY <1>1, <1>2, <1>4, <1>5, <1>6, <2>1
  <2>3. l \in {"ResolveEndpoint", "PayloadHash", "Signing", "SignV2"} \cup InFinalize
    BY <2>1 DEF Base
  <2>4. Rank(l) \in 1..6 /\ (Rank(l) = 5 => l \in {"Signing", "SignV2"}) /\ (Rank(l) = 6 => l \in EditsAfter)
    BY <2>3, KindOf
  <2>. QED BY <2>1, <2>2, <2>4
<1>. QED BY <1>7

\* The signature covers the request as it is.
LEMMA SignerSigns ==
  ASSUME EffectInv, Popped, Head(finalize).kind \in {"Signing", "SignV2"},
         signed' = <<req'>>, req'.header["Authorization"] = "signer"
  PROVE  SignHolds'
<1>1. Kinds(finalize') \subseteq EditsAfter /\ build' = <<>>
  BY OnlyEditsLeft DEF EffectInv, Popped
<1>2. Len(signed') = 1 /\ signed'[1] = req'
  OBVIOUS
<1>3. Kinds(finalize)' \subseteq EditsAfter
  BY <1>1 DEF Kinds
<1>. QED BY <1>1, <1>2, <1>3 DEF SignHolds

\* The run of the Finalize step.
LEMMA FinalizeRuns ==
  ASSUME EffectInv, CallType, Progress,
         \/ SetHeaders \/ RemoveHeaders \/ ResolveEndpoint \/ PayloadHash
         \/ PathReplace \/ Chunked \/ Sign \/ SignV2
  PROVE  EffectInv'
<1>1. Popped
  BY EachPops
<1>2. RunHolds'
  BY <1>1, PopRuns DEF Popped
<1>3. SignHolds'
  <2>1. CASE UNCHANGED signed
    BY <1>1, <2>1, PopSigned
  <2>2. CASE ~UNCHANGED signed
    <3>1. Sign \/ SignV2
      BY <2>2 DEF SetHeaders, RemoveHeaders, ResolveEndpoint, PayloadHash, PathReplace, Chunked
    <3>2. Head(finalize).kind \in {"Signing", "SignV2"} /\ signed' = <<req'>>
      BY <2>2, <3>1 DEF Sign, SignV2, Runs
    <3>3. req'.header["Authorization"] = "signer"
      <4>1. req \in Request
        BY <1>1 DEF EffectInv, RunHolds, Popped
      <4>2. req.header \in [Header -> Value] /\ "Authorization" \in Header
        BY <4>1 DEF Request, Header
      <4>3. CASE Sign
        <5>1. req' = [req EXCEPT !.header["X-Amz-Date"] = "signer", !.header["Authorization"] = "signer"]
          BY <2>2, <4>3 DEF Sign
        <5>. QED BY <4>1, <4>2, <5>1 DEF Request
      <4>4. CASE SignV2
        <5>1. req' = [req EXCEPT !.header["X-Amz-Content-Sha256"] = "none",
                                 !.header["Date"] = "signer", !.header["Authorization"] = "signer"]
          BY <4>4 DEF SignV2
        <5>. QED BY <4>1, <4>2, <5>1 DEF Request
      <4>. QED BY <3>1, <4>3, <4>4
    <3>. QED BY <1>1, <3>2, <3>3, SignerSigns
  <2>. QED BY <2>1, <2>2
<1>4. SentHolds'
  <2>1. DOMAIN wire' = {}
    BY <1>1 DEF Popped, Progress
  <2>. QED BY <2>1 DEF SentHolds, OptionsTakeEffect
<1>. QED BY <1>1, <1>2, <1>3, <1>4 DEF EffectInv, Popped

\* WithQuery's middleware runs in the Build step, before all those.
LEMMA QueryRuns ==
  ASSUME EffectInv, CallType, Progress, SetQuery
  PROVE  EffectInv'
<1>1. /\ pc = "run" /\ pc' = "run" /\ build # <<>> /\ RunHolds /\ SignHolds
      /\ req' = [req EXCEPT !.query = TRUE]
      /\ UNCHANGED <<client, opts, finalize, checksum, transport, signed, wire>>
  BY DEF SetQuery, EffectInv, callVars, netVars
<1>2. req \in Request
  BY <1>1 DEF RunHolds
<1>3. /\ req'.header = req.header /\ req'.bucket = req.bucket /\ req'.length = req.length
      /\ req'.trailer = req.trailer /\ req'.query = TRUE /\ req' \in Request
  BY <1>1, <1>2 DEF Request
<1>4. \A n : Promised(n)' = Promised(n) /\ Gives(n)' = Gives(n)
  BY <1>1, PromiseStays
<1>5. Gives("SetQuery")
  BY <1>1 DEF RunHolds, WillQuery
<1>6. WillQuery'
  BY <1>3, <1>4, <1>5 DEF WillQuery, Gives
<1>7. ASSUME NEW n \in Header \ {"Content-Length"} PROVE Will(n)'
  <2>1. Will(n)
    BY <1>1 DEF RunHolds
  <2>2. \A m : Writes(m, n)' = Writes(m, n)
    BY <1>1 DEF Writes
  <2>. QED BY <1>1, <1>3, <1>4, <2>1, <2>2 DEF Will, Writes
<1>8. WillBucket' /\ WillLength' /\ WillTrailer'
  <2>1. Kinds(finalize)' = Kinds(finalize)
    BY <1>1 DEF Kinds
  <2>. QED BY <1>1, <1>3, <1>4, <2>1 DEF RunHolds, WillBucket, WillLength, WillTrailer
<1>9. RunHolds'
  <2>1. transport' = RawAsked'
    BY <1>1, PromiseStays DEF RunHolds
  <2>2. /\ finalize' \in Seq(Middleware) /\ Distinct(finalize)' /\ Sorted(finalize)'
        /\ FromOptions(finalize, Len(opts))' /\ Kinds(finalize)' \subseteq (Base \cup InFinalize)'
    BY <1>1 DEF RunHolds, Distinct, Sorted, FromOptions, Kinds, Base
  <2>. QED BY <1>3, <1>6, <1>7, <1>8, <2>1, <2>2 DEF RunHolds
<1>10. SignHolds'
  <2>1. signed = <<>>
    BY <1>1 DEF SignHolds
  <2>. QED BY <1>1, <2>1 DEF SignHolds
<1>11. SentHolds'
  <2>1. DOMAIN wire' = {}
    BY <1>1 DEF Progress
  <2>. QED BY <2>1 DEF SentHolds, OptionsTakeEffect
<1>. QED BY <1>1, <1>9, <1>10, <1>11 DEF EffectInv

\* What holds of the stack and the request holds while they are left alone.
LEMMA RunKept ==
  ASSUME RunHolds, SignHolds, UNCHANGED <<client, opts, stackVars, req, signed>>
  PROVE  RunHolds' /\ SignHolds'
<1>1. UNCHANGED <<build, finalize, checksum, transport>>
  BY DEF stackVars
<1>2. \A n : Promised(n)' = Promised(n) /\ Gives(n)' = Gives(n)
  BY PromiseStays
<1>3. ASSUME NEW n \in Header \ {"Content-Length"} PROVE Will(n)'
  <2>1. Will(n)
    BY DEF RunHolds
  <2>2. \A m : Writes(m, n)' = Writes(m, n)
    BY DEF Writes
  <2>. QED BY <1>1, <1>2, <2>1, <2>2 DEF Will, Writes
<1>4. Kinds(finalize)' = Kinds(finalize)
  BY <1>1 DEF Kinds
<1>5. WillBucket' /\ WillLength' /\ WillTrailer' /\ WillQuery'
  BY <1>1, <1>2, <1>4 DEF RunHolds, WillBucket, WillLength, WillTrailer, WillQuery
<1>6. /\ finalize' \in Seq(Middleware) /\ Distinct(finalize)' /\ Sorted(finalize)'
      /\ FromOptions(finalize, Len(opts))' /\ Kinds(finalize)' \subseteq (Base \cup InFinalize)'
  BY <1>1 DEF RunHolds, Distinct, Sorted, FromOptions, Kinds, Base
<1>7. transport' = RawAsked' /\ req' \in Request
  BY <1>1, PromiseStays DEF RunHolds
<1>8. SignHolds'
  <2>1. \A ks, n : Naming(ks, n)' = Naming(ks, n)
    BY PromiseStays
  <2>. QED BY <1>1, <1>4, <2>1 DEF SignHolds
<1>. QED BY <1>3, <1>5, <1>6, <1>7, <1>8 DEF RunHolds

\* A request that went out stays what it was.
LEMMA SentKept ==
  ASSUME SentHolds, UNCHANGED <<client, opts, wire, signed>>
  PROVE  SentHolds'
<1>1. /\ \A n : Promised(n)' = Promised(n) /\ Gives(n)' = Gives(n)
      /\ RawAsked' = RawAsked /\ Tampers' = Tampers /\ Covered' = Covered
  BY PromiseStays
<1>2. \A r, s : Verifies(r, s)' = Verifies(r, s)
  BY <1>1 DEF Verifies
<1>. QED BY <1>1, <1>2 DEF SentHolds, OptionsTakeEffect

\* StartRun and EndRun.
LEMMA Boundaries ==
  ASSUME StackInv, EffectInv, Progress, StartRun \/ EndRun
  PROVE  EffectInv'
<1>1. UNCHANGED <<client, opts, stackVars, req, signed, wire>> /\ SentHolds
  BY DEF StartRun, EndRun, callVars, netVars, EffectInv
<1>2. SentHolds'
  BY <1>1, SentKept
<1>3. CASE StartRun
  <2>1. pc = "options" /\ at = Len(opts) + 1 /\ pc' = "run" /\ CallType
    BY <1>3 DEF StartRun, StackInv, CallType
  <2>2. at - 1 = Len(opts)
    BY <2>1 DEF CallType
  <2>3. Built /\ client \in {"v4", "v2", "anonymous"}
    BY <2>1, <2>2 DEF Built, StackInv, EffectInv
  <2>4. RunHolds' /\ SignHolds'
    BY <1>1, <2>3, BuiltRuns, RunKept
  <2>. QED BY <1>1, <1>2, <2>1, <2>4 DEF EffectInv
<1>4. CASE EndRun
  <2>1. pc = "run" /\ pc' = "dial" /\ finalize' = <<>> /\ build' = <<>> /\ RunHolds /\ SignHolds
    BY <1>1, <1>4 DEF EndRun, EffectInv, stackVars
  <2>2. RunHolds' /\ SignHolds'
    BY <1>1, <2>1, RunKept
  <2>. QED BY <1>1, <1>2, <2>1, <2>2 DEF EffectInv
<1>. QED BY <1>3, <1>4

\* What goes out when the stack has run is what is promised, and, unless the
\* test tampers with it, what was signed (Framed, Verifies).
LEMMA FramedHolds ==
  ASSUME CallType, RunHolds, SignHolds, finalize = <<>>, build = <<>>
  PROVE  /\ \A n \in Header : Framed(req).header[n] = Promised(n)
         /\ Framed(req).bucket = (IF Gives("PathReplace") THEN "replaced" ELSE "asked")
         /\ Framed(req).query = Gives("SetQuery")
         /\ Framed(req).length = ~(Gives("Chunked") /\ RawAsked = "pool")
         /\ Framed(req).trailer = ~(Gives("NoChecksum") \/ client = "v2")
         /\ signed # <<>> /\ ~Tampers => Verifies(Framed(req), signed[1])
<1> DEFINE c == CASE transport = "ContentLength" -> "caller"
                  [] transport = "NoContentLength" -> "none"
                  [] transport = "pool" -> IF req.length THEN "sdk" ELSE "none"
           r == Framed(req)
<1>1. req \in Request /\ req.header \in [Header -> Value] /\ req.length \in BOOLEAN
      /\ req.query \in BOOLEAN /\ req.trailer \in BOOLEAN
  BY DEF RunHolds, Request
<1>2. r = [req EXCEPT !.header["Content-Length"] = c, !.length = req.length \/ transport # "pool"]
  BY DEF Framed
<1>3. Kinds(finalize) = {}
  <2>1. 1..Len(finalize) = {}
    OBVIOUS
  <2>. QED BY <2>1 DEF Kinds
<1>4. /\ r.bucket = req.bucket /\ r.query = req.query /\ r.trailer = req.trailer
      /\ r.length = (req.length \/ transport # "pool")
      /\ r.header["Content-Length"] = c
      /\ \A n \in Header \ {"Content-Length"} : r.header[n] = req.header[n]
  <2> HIDE DEF c, r
  <2>1. "Content-Length" \in Header
    BY DEF Header
  <2>. QED BY <1>1, <1>2, <2>1 DEF Request
<1>5. /\ transport = RawAsked /\ WillBucket /\ WillQuery /\ WillLength /\ WillTrailer
      /\ \A n \in Header \ {"Content-Length"} : Will(n)
  BY DEF RunHolds
<1>6. \A n \in Header \ {"Content-Length"} : req.header[n] = Promised(n)
  <2>1. 1..Len(finalize) = {}
    OBVIOUS
  <2>. QED BY <1>5, <2>1 DEF Will
<1>7. req.length = ~Gives("Chunked")
  BY <1>3, <1>5 DEF WillLength, Gives
<1>8. RawAsked \in RawTransport \cup {"pool"}
  <2> DEFINE raw == {i \in DOMAIN opts : opts[i].kind \in RawTransport}
  <2>1. RawAsked = IF raw = {} THEN "pool" ELSE opts[Max(raw)].kind
    BY DEF RawAsked
  <2>2. raw \subseteq 1..Len(opts) /\ Len(opts) \in Nat /\ \A i \in raw : opts[i].kind \in RawTransport
    BY DEF CallType
  <2> HIDE DEF raw
  <2>3. raw # {} => Max(raw) \in raw
    BY <2>2, MinMax
  <2>. QED BY <2>1, <2>2, <2>3
<1>9. c = Promised("Content-Length")
  BY <1>5, <1>7, <1>8 DEF Promised, RawTransport
<1>10. r.bucket = (IF Gives("PathReplace") THEN "replaced" ELSE "asked")
  BY <1>3, <1>4, <1>5 DEF WillBucket
<1>11. r.query = Gives("SetQuery") /\ r.trailer = ~(Gives("NoChecksum") \/ client = "v2")
  BY <1>3, <1>4, <1>5 DEF WillQuery, WillTrailer
<1>12. r.length = ~(Gives("Chunked") /\ RawAsked = "pool")
  BY <1>4, <1>5, <1>7
<1>13. ASSUME signed # <<>>, ~Tampers PROVE Verifies(r, signed[1])
  <2>1. /\ signed[1].header["Authorization"] = "signer"
        /\ signed[1].bucket = req.bucket /\ signed[1].query = req.query
        /\ signed[1].length = req.length
        /\ \A n \in Header \ {"Content-Length"} :
             Naming(EditsAfter, n) = {} => signed[1].header[n] = req.header[n]
    BY <1>13 DEF SignHolds
  <2>2. Covered \cup {"Authorization"} \subseteq Header \ {"Content-Length"}
    BY DEF Covered, Header
  <2>3. \A n \in Covered \cup {"Authorization"} : Naming(EditsAfter, n) = {}
    BY <1>13 DEF Tampers
  <2>4. \A n \in Covered \cup {"Authorization"} : r.header[n] = signed[1].header[n]
    BY <1>4, <2>1, <2>2, <2>3
  <2>5. ASSUME client = "v4", signed[1].length PROVE r.header["Content-Length"] = "sdk"
    <3>1. RawAsked = "pool"
      BY <1>13, <2>5 DEF Tampers
    <3>2. req.length
      BY <2>1, <2>5
    <3> HIDE DEF r
    <3>. QED BY <1>4, <1>5, <3>1, <3>2
  <2> HIDE DEF r
  <2>. QED BY <1>4, <2>1, <2>4, <2>5 DEF Verifies
<1> HIDE DEF r, c
<1>14. \A n \in Header : r.header[n] = Promised(n)
  BY <1>4, <1>6, <1>9
<1>. QED BY <1>10, <1>11, <1>12, <1>13, <1>14 DEF r

\* The connection: one request goes out, as it was framed.
LEMMA ConnectionKeeps ==
  ASSUME StackInv, EffectInv, CallInv, Connection \/ Assertion
  PROVE  EffectInv'
<1>1. CASE Dial
  <2>1. /\ pc = "dial" /\ pc' = "send"
        /\ UNCHANGED <<client, opts, stackVars, req, signed, wire>>
    BY <1>1 DEF Dial, callVars
  <2>2. RunHolds /\ SignHolds /\ SentHolds /\ finalize' = <<>> /\ build' = <<>>
    BY <2>1 DEF EffectInv, stackVars
  <2>3. RunHolds' /\ SignHolds' /\ SentHolds'
    BY <2>1, <2>2, RunKept, SentKept
  <2>. QED BY <2>1, <2>2, <2>3 DEF EffectInv
<1>2. CASE Send
  <2>1. /\ pc = "send" /\ pc' = "wait" /\ wire = <<>> /\ wire' = Append(wire, Framed(req))
        /\ UNCHANGED <<client, opts, signed>>
        /\ RunHolds /\ SignHolds /\ finalize = <<>> /\ build = <<>>
    BY <1>2 DEF Send, callVars, EffectInv, CallInv, Progress
  <2>2. PICK r : r = Framed(req)
    OBVIOUS
  <2>3. wire' = <<r>> /\ DOMAIN wire' = {1} /\ wire'[1] = r
    <3>1. wire' = <<r>>
      BY <2>1, <2>2
    <3>. QED BY <3>1
  <2>4. /\ \A n \in Header : r.header[n] = Promised(n)
        /\ r.bucket = (IF Gives("PathReplace") THEN "replaced" ELSE "asked")
        /\ r.query = Gives("SetQuery")
        /\ r.length = ~(Gives("Chunked") /\ RawAsked = "pool")
        /\ r.trailer = ~(Gives("NoChecksum") \/ client = "v2")
        /\ signed # <<>> /\ ~Tampers => Verifies(r, signed[1])
    BY <2>1, <2>2, FramedHolds DEF StackInv
  <2>5. /\ \A n : Promised(n)' = Promised(n) /\ Gives(n)' = Gives(n)
        /\ RawAsked' = RawAsked /\ Tampers' = Tampers /\ Covered' = Covered
    BY <2>1, PromiseStays
  <2>6. \A s : Verifies(r, s)' = Verifies(r, s)
    BY <2>1, <2>5 DEF Verifies
  <2>7. SentHolds'
    BY <2>1, <2>3, <2>4, <2>5, <2>6 DEF SentHolds, OptionsTakeEffect, Verifies
  <2>. QED BY <2>1, <2>7 DEF EffectInv
<1>3. CASE Receive \/ Break \/ Assertion
  <2>1. pc' \in {"assert", "end"} /\ UNCHANGED <<client, opts, signed, wire>>
    <3>1. CASE Receive
      <4>1. pc = "wait" /\ attempts = 1
        BY <3>1 DEF Receive, CallInv, Progress
      <4>2. PICK a \in Answers : Finish(Returned(a))
        BY <3>1 DEF Receive, Returned
      <4>. QED BY <3>1, <4>1, <4>2, NoRetry DEF Receive, callVars
    <3>2. CASE Break
      <4>1. attempts = 1 /\ Finish(NoAnswer)
        BY <3>2 DEF Break, CallInv, Progress
      <4>. QED BY <3>2, <4>1, NoRetry DEF Break, callVars, netVars
    <3>3. CASE Assertion
      BY <3>3 DEF Assertion, NoError, ErrorIs, ErrorStatus, ErrorIsOneOf, StatusIs, Judge,
                  callVars, netVars
    <3>. QED BY <1>3, <3>1, <3>2, <3>3
  <2>2. SentHolds'
    BY <2>1, SentKept DEF EffectInv
  <2>. QED BY <2>1, <2>2 DEF EffectInv
<1>. QED BY <1>1, <1>2, <1>3 DEF Connection

\* At the start nothing has been made of the request.
LEMMA FirstEffect ==
  ASSUME Init
  PROVE  EffectInv
<1>1. SDKFinalize = <<Mw("ResolveEndpoint"), Mw("PayloadHash"), Mw("Signing")>>
      /\ Mw("ResolveEndpoint").kind = "ResolveEndpoint" /\ Mw("PayloadHash").kind = "PayloadHash"
      /\ Mw("Signing").kind = "Signing" /\ Mw("SignV2").kind = "SignV2"
      /\ \A k \in {"ResolveEndpoint", "PayloadHash", "Signing", "SignV2"} : Mw(k) \in Middleware
  BY DEF SDKFinalize, Mw, Middleware
<1>2. /\ finalize \in Seq(Middleware) /\ Distinct(finalize) /\ Kinds(finalize) = Base /\ pc = "options"
      /\ opts \in Seq(Option) /\ at - 1 = 0
  <2>1. StackInv /\ pc = "options" /\ at - 1 = 0
    BY FirstStack DEF Init
  <2>2. \A ks : Done(0, ks) = {}
    BY DEF Done
  <2>. QED BY <2>1, <2>2 DEF StackInv, StackHolds, CallType
<1>3. /\ Len(finalize) = 3 /\ finalize[1].kind = "ResolveEndpoint"
      /\ finalize[2].kind = "PayloadHash" /\ finalize[3].kind \in {"Signing", "SignV2"}
  <2>1. SDKFinalize \in Seq(Middleware) /\ Len(SDKFinalize) = 3
        /\ SDKFinalize[1].kind = "ResolveEndpoint"
        /\ SDKFinalize[2].kind = "PayloadHash" /\ SDKFinalize[3].kind = "Signing"
    BY <1>1
  <2>2. Place(SDKFinalize, "Signing") = 3
    <3>1. 1..Len(SDKFinalize) = {1, 2, 3}
      BY <2>1
    <3>2. Distinct(SDKFinalize) /\ "Signing" \in Kinds(SDKFinalize)
      BY <2>1, <3>1 DEF Distinct, Kinds
    <3>3. Place(SDKFinalize, "Signing") \in 1..Len(SDKFinalize)
          /\ SDKFinalize[Place(SDKFinalize, "Signing")].kind = "Signing"
      BY <2>1, <3>2, PlaceOf
    <3>. QED BY <2>1, <3>1, <3>3
  <2>3. CASE client = "v2"
    <3>1. finalize = [SDKFinalize EXCEPT ![3] = Mw("SignV2")]
      BY <2>2, <2>3 DEF Init, V2Swap
    <3>. QED BY <1>1, <2>1, <3>1
  <2>4. CASE client # "v2"
    BY <2>1, <2>4 DEF Init
  <2>. QED BY <2>3, <2>4
<1>4. 1..Len(finalize) = {1, 2, 3}
  BY <1>3
<1>5. Sorted(finalize)
  <2>1. Rank(finalize[1].kind) = 2 /\ Rank(finalize[2].kind) = 3 /\ Rank(finalize[3].kind) = 5
    BY <1>3, RankOf
  <2>. QED BY <1>4, <2>1 DEF Sorted
<1>6. FromOptions(finalize, 0)
  BY <1>2 DEF FromOptions, Kinds
<1>7. 1..0 = {}
  OBVIOUS
<1>8. LaterFirst(finalize, 0) /\ LastRaw(0) /\ Done(0, {"NoChecksum"}) = {}
  BY <1>7 DEF LaterFirst, LastRaw, Done, Init
<1>9. checksum = (client # "v2") /\ req = FirstRequest /\ signed = <<>> /\ wire = <<>>
      /\ client \in {"v4", "v2", "anonymous"}
  BY DEF Init, ClientChecksum, FirstRequest
<1>10. OrderHolds(0)
  BY <1>5, <1>6, <1>8, <1>9 DEF OrderHolds
<1>11. DOMAIN wire = {}
  BY <1>9
<1>. QED BY <1>2, <1>9, <1>10, <1>11 DEF EffectInv, SentHolds, OptionsTakeEffect

\* The stack is in order while it is built, and the request becomes what it
\* promises while it runs.
LEMMA EffectInvariant == Spec => []EffectInv
<1> DEFINE J == CallInv /\ StackInv
<1>1. J /\ J' /\ EffectInv /\ [Next]_vars => EffectInv'
  <2>1. ASSUME J, J', EffectInv, UNCHANGED vars PROVE EffectInv'
    <3>1. /\ UNCHANGED <<client, opts, stackVars, req, signed, wire, pc, at>>
          /\ UNCHANGED <<build, finalize, checksum, transport>>
      BY <2>1 DEF vars, callVars, netVars, stackVars
    <3>2. SentHolds'
      BY <2>1, <3>1, SentKept DEF EffectInv
    <3>3. pc \in {"run", "dial", "send"} => RunHolds' /\ SignHolds'
      BY <2>1, <3>1, RunKept DEF EffectInv
    <3>4. pc = "options" => OrderHolds(at - 1)'
      <4>1. PICK n : n = at - 1
        OBVIOUS
      <4>2. (at - 1)' = n
        BY <3>1, <4>1
      <4>3. OrderHolds(n) => OrderHolds(n)'
        BY <3>1 DEF OrderHolds, Sorted, FromOptions, LaterFirst, LastRaw, Done, Base, FirstRequest
      <4>. QED BY <2>1, <4>1, <4>2, <4>3 DEF EffectInv
    <3>. QED BY <2>1, <3>1, <3>2, <3>3, <3>4 DEF EffectInv
  <2>2. ASSUME J, J', EffectInv, Next PROVE EffectInv'
    <3>1. CallType /\ Progress
      BY <2>2 DEF StackInv, CallInv
    <3>2. CASE Options
      BY <2>2, <3>1, <3>2, FinalizeOrder, OtherOptions, Boundaries DEF Options
    <3>3. CASE Run
      BY <2>2, <3>1, <3>3, FinalizeRuns, QueryRuns, Boundaries DEF Run
    <3>4. CASE Connection \/ Assertion
      BY <2>2, <3>4, ConnectionKeeps
    <3>. QED BY <2>2, <3>2, <3>3, <3>4 DEF Next
  <2>. QED BY <2>1, <2>2
<1>2. Init => EffectInv
  BY FirstEffect
<1>3. Spec => []J
  BY CallInvariant
<1> HIDE DEF J
<1>. QED BY <1>1, <1>2, <1>3, PTL DEF Spec

\* Every option of a call has its effect on the request that goes out, whatever
\* the options, their number and their order: the first option that edits a
\* header decides on its side of the signer, the last one for a transport
\* (headers.go, contentlength.go, V2).
THEOREM EveryOptionTakesEffect == Spec => []OptionsTakeEffect
<1>1. EffectInv => OptionsTakeEffect
  BY DEF EffectInv, SentHolds, OptionsTakeEffect
<1>. QED BY <1>1, EffectInvariant, PTL

\* What was signed is what is sent, unless an option asks for the contrary: no
\* option that runs before the signer is seen by the server as a forgery
\* (WithHeaders, WithQuery, WithPathReplace, WithChunkedTransferEncoding, signV2).
THEOREM SignatureHolds == Spec => []SignedAsSent
<1>1. EffectInv => SignedAsSent
  BY DEF EffectInv, SentHolds, OptionsTakeEffect, SignedAsSent
<1>. QED BY <1>1, EffectInvariant, PTL

-----------------------------------------------------------------------------
(* The types.                                                              *)

\* The stack and the transport have their types,
StackType ==
  /\ build \in Seq(Middleware) /\ finalize \in Seq(Middleware)
  /\ checksum \in BOOLEAN /\ transport \in RawTransport \cup {"pool"}

\* the requests have theirs,
RequestType == req \in Request /\ signed \in Seq(Request) /\ wire \in Seq(Request)

\* and so have the answers and what the call returns.
ReturnType == err \in Return /\ answers \in Seq(Answers)

\* Applying the options keeps the types, also where an option fails.
LEMMA OptionsType ==
  ASSUME StackInv, StackType, RequestType, Options
  PROVE  StackType' /\ RequestType' /\ UNCHANGED <<attempts, dialed, wanted, verdict>>
<1>1. UNCHANGED <<req, signed, wire, attempts, dialed, wanted, verdict>>
  BY DEF Options, WithHeaders, WithoutHeader, WithHeadersAfterSigning, WithoutHeaderAfterSigning,
       WithQuery, WithPathReplace, WithChunkedTransferEncoding, WithoutRequestChecksum,
       WithRawTransport, StartRun, PutFinalize, netVars, testVars
<1>2. StackType'
  <2>1. ASSUME NEW step \in Seq(Middleware), Distinct(step), NEW i \in 0..(Len(step) + 1),
               NEW k, Applies(k)
        PROVE  Put(step, i) \in Seq(Middleware)
    <3>1. opts[at] \in Middleware
      <4>1. at \in 1..Len(opts) /\ opts \in Seq(Option)
        BY <2>1 DEF StackInv, CallType, Applies
      <4>2. opts[at] \in Option
        BY <4>1
      <4>3. Option \subseteq Middleware
        BY DEF Option, Middleware
      <4>. QED BY <4>2, <4>3
    <3>2. Put(step, i) # <<>> => Put(step, i) \in Seq(Middleware)
      BY <2>1, <3>1, PutOne
    <3>3. <<>> \in Seq(Middleware)
      OBVIOUS
    <3>. QED BY <3>2, <3>3
  <2>2. pc = "options" => Distinct(finalize) /\ Distinct(build)
    BY DEF StackInv, StackHolds
  <2>3. Len(finalize) \in Nat /\ Len(build) \in Nat
    BY DEF StackType
  <2>4. ASSUME NEW k, Applies(k), NEW i \in 0..(Len(finalize) + 1), PutFinalize(i)
        PROVE  StackType'
    <3>1. Put(finalize, i) \in Seq(Middleware)
      BY <2>1, <2>2, <2>4 DEF StackType, Applies
    <3>. QED BY <2>4, <3>1 DEF PutFinalize, StackType
  <2>5. CASE WithHeaders \/ WithoutHeader
    BY <2>3, <2>4, <2>5 DEF WithHeaders, WithoutHeader
  <2>6. CASE WithPathReplace \/ WithChunkedTransferEncoding
    <3>1. BeforeSigning \in 0..(Len(finalize) + 1)
      BY <2>6, SignerPlace DEF WithPathReplace, WithChunkedTransferEncoding, Applies
    <3>. QED BY <2>4, <2>6, <3>1 DEF WithPathReplace, WithChunkedTransferEncoding
  <2>7. CASE WithHeadersAfterSigning \/ WithoutHeaderAfterSigning
    <3>1. AfterSigning \in 0..(Len(finalize) + 1)
      BY <2>7, SignerPlace DEF WithHeadersAfterSigning, WithoutHeaderAfterSigning, Applies
    <3>. QED BY <2>4, <2>7, <3>1 DEF WithHeadersAfterSigning, WithoutHeaderAfterSigning
  <2>8. CASE WithQuery
    <3>1. Applies("SetQuery") /\ build' = Put(build, Len(build) + 1)
          /\ UNCHANGED <<finalize, checksum, transport>>
      BY <2>8 DEF WithQuery
    <3>2. Put(build, Len(build) + 1) \in Seq(Middleware)
      BY <2>1, <2>2, <2>3, <3>1 DEF StackType, Applies
    <3>. QED BY <3>1, <3>2 DEF StackType
  <2>9. CASE WithoutRequestChecksum \/ WithRawTransport \/ StartRun
    BY <2>9 DEF WithoutRequestChecksum, WithRawTransport, StartRun, stackVars, StackType
  <2>. QED BY <2>5, <2>6, <2>7, <2>8, <2>9 DEF Options
<1>. QED BY <1>1, <1>2 DEF RequestType

\* A header of a request may get any value.
LEMMA HeaderSet ==
  ASSUME NEW r \in Request, NEW n \in Header, NEW v \in Value
  PROVE  [r EXCEPT !.header[n] = v] \in Request
BY DEF Request

\* So does the run of the stack, each middleware of which edits the request.
LEMMA RunType ==
  ASSUME StackType, RequestType, Run
  PROVE  StackType' /\ RequestType' /\ UNCHANGED <<attempts, dialed, wanted, verdict>>
<1>1. UNCHANGED <<wire, attempts, dialed, wanted, verdict>>
  BY DEF Run, SetQuery, SetHeaders, RemoveHeaders, ResolveEndpoint, PayloadHash, PathReplace,
       Chunked, Sign, SignV2, EndRun, Runs, netVars, testVars
<1>2. StackType'
  <2>1. CASE SetQuery
    BY <2>1 DEF SetQuery, StackType
  <2>2. ASSUME NEW ks, Runs(ks) PROVE StackType'
    BY <2>2 DEF Runs, StackType
  <2>3. CASE EndRun
    BY <2>3 DEF EndRun, stackVars, StackType
  <2>. QED BY <2>1, <2>2, <2>3 DEF Run, SetHeaders, RemoveHeaders, ResolveEndpoint, PayloadHash,
              PathReplace, Chunked, Sign, SignV2
<1>3. req' \in Request /\ signed' \in Seq(Request)
  <2>. USE DEF RequestType
  <2>1. CASE SetQuery
    BY <2>1 DEF SetQuery, Request
  <2>2. CASE SetHeaders \/ RemoveHeaders
    <3>1. PICK v \in Value : req' = Edited(v) /\ signed' = signed
      BY <2>2 DEF SetHeaders, RemoveHeaders, Value
    <3>2. \A n \in Header : req.header[n] \in Value
      BY DEF Request
    <3> DEFINE h == [n \in Header |-> IF n \in Head(finalize).names THEN v ELSE req.header[n]]
    <3>3. h \in [Header -> Value]
      BY <3>2
    <3>4. Edited(v) = [req EXCEPT !.header = h]
      BY DEF Edited
    <3> HIDE DEF h
    <3>. QED BY <3>1, <3>3, <3>4 DEF Request
  <2>3. CASE ResolveEndpoint
    BY <2>3 DEF ResolveEndpoint, Request
  <2>4. CASE PayloadHash
    <3>1. checksum \in BOOLEAN /\ "X-Amz-Content-Sha256" \in Header /\ "sdk" \in Value
      BY DEF StackType, Header, Value
    <3> DEFINE r == [req EXCEPT !.header["X-Amz-Content-Sha256"] = "sdk"]
    <3>2. r \in Request
      BY <3>1, HeaderSet
    <3>3. req' = [r EXCEPT !.trailer = checksum] /\ signed' = signed
      BY <2>4 DEF PayloadHash
    <3> HIDE DEF r
    <3>. QED BY <3>1, <3>2, <3>3 DEF Request
  <2>5. CASE PathReplace
    BY <2>5 DEF PathReplace, Request
  <2>6. CASE Chunked
    <3>1. "Content-Length" \in Header /\ "none" \in Value
      BY DEF Header, Value
    <3> DEFINE r == [req EXCEPT !.length = FALSE]
    <3>2. r \in Request
      BY DEF Request
    <3>3. req' = [r EXCEPT !.header["Content-Length"] = "none"] /\ signed' = signed
      BY <2>6 DEF Chunked
    <3> HIDE DEF r
    <3>. QED BY <3>1, <3>2, <3>3, HeaderSet
  <2>7. CASE Sign
    <3>1. CASE client = "anonymous"
      BY <2>7, <3>1 DEF Sign
    <3>2. CASE client # "anonymous"
      <4>1. {"X-Amz-Date", "Authorization"} \subseteq Header /\ "signer" \in Value
        BY DEF Header, Value
      <4> DEFINE r == [req EXCEPT !.header["X-Amz-Date"] = "signer"]
      <4>2. r \in Request
        BY <4>1, HeaderSet
      <4>3. req' = [r EXCEPT !.header["Authorization"] = "signer"] /\ signed' = <<req'>>
        BY <2>7, <3>2 DEF Sign
      <4> HIDE DEF r
      <4>4. req' \in Request
        BY <4>1, <4>2, <4>3, HeaderSet
      <4>. QED BY <4>3, <4>4
    <3>. QED BY <3>1, <3>2
  <2>8. CASE SignV2
    <3>1. {"X-Amz-Content-Sha256", "Date", "Authorization"} \subseteq Header
          /\ {"none", "signer"} \subseteq Value
      BY DEF Header, Value
    <3> DEFINE r == [req EXCEPT !.header["X-Amz-Content-Sha256"] = "none"]
               s == [r EXCEPT !.header["Date"] = "signer"]
    <3>2. r \in Request
      BY <3>1, HeaderSet
    <3>3. req' = [s EXCEPT !.header["Authorization"] = "signer"] /\ signed' = <<req'>>
      BY <2>8 DEF SignV2
    <3> HIDE DEF r
    <3>4. s \in Request
      BY <3>1, <3>2, HeaderSet
    <3> HIDE DEF s
    <3>5. req' \in Request
      BY <3>1, <3>3, <3>4, HeaderSet
    <3>. QED BY <3>3, <3>5
  <2>9. CASE EndRun
    BY <2>9 DEF EndRun
  <2>. QED BY <2>1, <2>2, <2>3, <2>4, <2>5, <2>6, <2>7, <2>8, <2>9 DEF Run
<1>. QED BY <1>1, <1>2, <1>3 DEF RequestType

\* A request is a request still when the transport has framed it.
LEMMA FramedType ==
  ASSUME NEW r \in Request, transport \in RawTransport \cup {"pool"}
  PROVE  Framed(r) \in Request
<1> DEFINE v == CASE transport = "ContentLength" -> "caller"
                  [] transport = "NoContentLength" -> "none"
                  [] transport = "pool" -> IF r.length THEN "sdk" ELSE "none"
           s == [r EXCEPT !.header["Content-Length"] = v]
<1>1. v \in Value
  BY DEF RawTransport, Value
<1>2. s \in Request
  <2> HIDE DEF v
  <2>1. "Content-Length" \in Header
    BY DEF Header
  <2>. QED BY <1>1, <2>1, HeaderSet
<1>3. Framed(r) = [s EXCEPT !.length = r.length \/ transport # "pool"]
  BY DEF Framed
<1>4. (r.length \/ transport # "pool") \in BOOLEAN
  OBVIOUS
<1> HIDE DEF s
<1>. QED BY <1>2, <1>3, <1>4 DEF Request

\* What a call returns is an answer or has none in it.
LEMMA ReturnTyped ==
  ASSUME CallInv
  PROVE  ReturnType
<1>1. NoAnswer \in Return
  <2> DEFINE c == ""
  <2>1. c \in Code
    BY Zenon DEF Code
  <2>2. NoAnswer = [ok |-> FALSE, status |-> 0, code |-> c]
    BY Zenon DEF NoAnswer
  <2> HIDE DEF c
  <2>. QED BY <2>1, <2>2 DEF Return
<1>2. \A a \in Answers : Returned(a) \in Return
  <2>1. ASSUME NEW a \in Answers PROVE Returned(a) \in Return
    <3>1. a.status \in Nat
      BY AnswerIs
    <3>2. a.code \in Code
      BY Zenon DEF Code
    <3> DEFINE lower == a.status < 300
    <3>3. lower \in BOOLEAN
      BY <3>1
    <3>4. Returned(a) = [ok |-> lower, status |-> a.status, code |-> a.code]
      BY DEF Returned
    <3> HIDE DEF lower
    <3>. QED BY <3>1, <3>2, <3>3, <3>4 DEF Return
  <2>. QED BY <2>1
<1>3. CASE answers = <<>> /\ err = NoAnswer
  BY <1>1, <1>3 DEF ReturnType
<1>4. CASE \E a \in Answers : answers = <<a>> /\ err = Returned(a)
  <2>1. PICK a \in Answers : answers = <<a>> /\ err = Returned(a)
    BY <1>4
  <2>. QED BY <1>2, <2>1 DEF ReturnType
<1>. QED BY <1>3, <1>4 DEF CallInv, Progress

\* The variables of a call have their types, for any options and answers: a
\* stack in which an option found no place is the empty one, and a request is
\* the same record from the SDK to the wire (Put, Framed).
THEOREM TypeCorrect == Spec => []TypeOK
<1> DEFINE J == CallInv /\ StackInv /\ ReturnType
<1>1. Init => TypeOK
  <2>1. ASSUME Init PROVE StackType /\ RequestType
    <3>1. StackHolds(0)
      <4>1. StackInv /\ pc = "options" /\ at - 1 = 0
        BY <2>1, FirstStack DEF Init
      <4>. QED BY <4>1 DEF StackInv
    <3>2. checksum \in BOOLEAN /\ transport = "pool"
      BY <2>1 DEF Init, ClientChecksum
    <3>3. SDKHeader \in [Header -> Value]
      BY DEF SDKHeader, Value
    <3>4. req \in Request /\ signed = <<>> /\ wire = <<>>
      BY <2>1, <3>3 DEF Init, Request
    <3>. QED BY <3>1, <3>2, <3>4 DEF StackHolds, StackType, RequestType
  <2>2. ASSUME Init PROVE CallInv /\ StackInv
    BY <2>2, FirstStack DEF Init, CallInv, Progress, Judged
  <2>3. ASSUME Init PROVE ReturnType
    BY <2>2, <2>3, ReturnTyped
  <2>. QED BY <2>1, <2>2, <2>3
           DEF Init, TypeOK, StackType, RequestType, ReturnType, StackInv, CallType
<1>2. J /\ J' /\ TypeOK /\ [Next]_vars => TypeOK'
  <2>1. ASSUME J, J', TypeOK, [Next]_vars
        PROVE  /\ StackType' /\ RequestType' /\ attempts' \in Nat
               /\ dialed' \in {"none", "host", "bucket.host"}
               /\ wanted' \subseteq Answers
               /\ verdict' \in {"none", "passed", "failed", "stopped"}
    <3>1. StackType /\ RequestType
      BY <2>1 DEF TypeOK, StackType, RequestType
    <3>2. CASE Options
      BY <2>1, <3>1, <3>2, OptionsType DEF TypeOK
    <3>3. CASE Run
      BY <2>1, <3>1, <3>3, RunType DEF TypeOK
    <3>4. CASE Connection
      <4>1. UNCHANGED <<build, finalize, checksum, transport, req, signed, wanted, verdict>>
        BY <3>4 DEF Connection, Dial, Send, Receive, Break, stackVars, testVars
      <4>2. StackType'
        BY <3>1, <4>1 DEF StackType
      <4>3. wire' \in Seq(Request)
        <5>1. Framed(req) \in Request
          BY <3>1, FramedType DEF StackType, RequestType
        <5>. QED BY <3>1, <3>4, <5>1
                 DEF Connection, Dial, Send, Receive, Break, netVars, RequestType
      <4>4. attempts' \in Nat /\ dialed' \in {"none", "host", "bucket.host"}
        BY <2>1, <3>4 DEF Connection, Dial, Send, Receive, Break, netVars, TypeOK
      <4>. QED BY <2>1, <3>1, <4>1, <4>2, <4>3, <4>4 DEF TypeOK, RequestType
    <3>5. CASE Assertion
      <4>1. UNCHANGED <<build, finalize, checksum, transport, req, signed, wire, attempts, dialed>>
        BY <3>5 DEF Assertion, NoError, ErrorIs, ErrorStatus, ErrorIsOneOf, StatusIs, Judge,
             stackVars, netVars
      <4>2. wanted' \subseteq Answers
        BY <3>5 DEF Assertion, NoError, ErrorIs, ErrorStatus, ErrorIsOneOf, StatusIs, Judge, Failures
      <4>3. verdict' \in {"none", "passed", "failed", "stopped"}
        BY <3>5 DEF Assertion, NoError, ErrorIs, ErrorStatus, ErrorIsOneOf, StatusIs, Judge, Mismatch
      <4>. QED BY <2>1, <3>1, <4>1, <4>2, <4>3 DEF TypeOK, StackType, RequestType
    <3>6. CASE UNCHANGED vars
      BY <2>1, <3>1, <3>6 DEF vars, stackVars, netVars, testVars, StackType, RequestType, TypeOK
    <3>. QED BY <2>1, <3>2, <3>3, <3>4, <3>5, <3>6 DEF Next
  <2>2. ASSUME J, TypeOK, [Next]_vars PROVE UNCHANGED callVars
    BY <2>2 DEF Next, Options, WithHeaders, WithoutHeader, WithHeadersAfterSigning,
         WithoutHeaderAfterSigning, WithQuery, WithPathReplace, WithChunkedTransferEncoding,
         WithoutRequestChecksum, WithRawTransport, StartRun, PutFinalize,
         Run, SetQuery, SetHeaders, RemoveHeaders, ResolveEndpoint, PayloadHash, PathReplace,
         Chunked, Sign, SignV2, EndRun, Runs, Connection, Dial, Send, Receive, Break,
         Assertion, NoError, ErrorIs, ErrorStatus, ErrorIsOneOf, StatusIs, Judge, vars
  <2>. QED BY <2>1, <2>2
           DEF TypeOK, callVars, StackType, RequestType, ReturnType, StackInv, CallType
<1>3. Spec => []J
  BY CallInvariant, ReturnTyped, PTL
<1> HIDE DEF J
<1>. QED BY <1>1, <1>2, <1>3, PTL DEF Spec
=============================================================================

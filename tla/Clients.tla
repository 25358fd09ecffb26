-------------------------------- MODULE Clients --------------------------------
(***************************************************************************)
(* One S3 call of a test body: the clients of client.Factory, the per-call *)
(* options, each of which puts a middleware somewhere on the SDK's stack   *)
(* or replaces the transport, the run of that stack through the signer,    *)
(* the connection, the answer and the assertion on it.                     *)
(*                                                                         *)
(* A header is described by who gave it its value.  "x-amz-other" stands   *)
(* for the headers that every signer covers, "Expect" for those that none  *)
(* covers.                                                                 *)
(***************************************************************************)
EXTENDS Integers, SequencesExt

CONSTANTS
  OptionLists,  \* the per-call options a test may pass
  Answers       \* what the server may answer: records of status and code

Header == {"Authorization", "X-Amz-Date", "Date", "X-Amz-Content-Sha256",
           "Content-Length", "x-amz-other", "Expect"}

Value == {"none", "sdk", "caller", "signer"}

EditsBefore == {"SetHeaders", "RemoveHeaders"}
EditsAfter == {"SetHeadersAfterSigning", "RemoveHeadersAfterSigning"}
RawTransport == {"ContentLength", "NoContentLength"}
OptionKind == EditsBefore \cup EditsAfter \cup RawTransport
                \cup {"SetQuery", "PathReplace", "Chunked", "NoChecksum"}

Option == [kind : OptionKind, names : SUBSET Header]
Answer == [status : Nat \ {0}, code : STRING]

ASSUME ClientsAssumption ==
  /\ OptionLists \subseteq Seq(Option)
  /\ Answers \subseteq Answer

VARIABLES
  client,       \* the client: "v4", "v2" or "anonymous"
  virtualHost,  \* Config.VirtualHost
  deadline,     \* the context of the test has a deadline
  opts,         \* the per-call options
  pc,           \* "options", "run", "dial", "send", "wait", "assert" or "end"
  at,           \* the option to be applied next
  build,        \* the Build step of the stack
  finalize,     \* the Finalize step of the stack; in "run", the rest of it
  checksum,     \* the SDK sends a checksum of the upload
  transport,    \* "pool", or a rawClient: "ContentLength" or "NoContentLength"
  req,          \* the request
  signed,       \* the request as the signer saw it, once it did
  attempts,     \* attempts at sending it
  dialed,       \* the host that was looked up last
  wire,         \* the requests that went out
  answers,      \* the answers that came back
  err,          \* what the call returned
  wanted,       \* the answers the test asks for
  verdict       \* of the assertion: "none", "passed", "failed" or "stopped"

callVars == <<client, virtualHost, deadline, opts>>
stackVars == <<build, finalize, checksum, transport>>
netVars == <<attempts, dialed, wire, answers>>
testVars == <<wanted, verdict>>
vars == <<callVars, pc, at, stackVars, req, signed, netVars, err, testVars>>

\* A middleware is called by its kind, and the stack holds no two of one name.
Middleware == [kind : OptionKind \cup {"ResolveEndpoint", "PayloadHash", "Signing", "SignV2"},
               names : SUBSET Header]

\* The bucket is in the path of the URL or, with virtual hosts, in its host.
\* The length is known unless the body is to be chunked.
Request == [header : [Header -> Value], bucket : {"none", "asked", "replaced"},
            query : BOOLEAN, length : BOOLEAN, trailer : BOOLEAN]

\* A call returns no error, one that has an answer in it or one that has not,
\* and an error has the code of an answer or none.
Code == {a.code : a \in Answers} \cup {""}
Return == [ok : BOOLEAN, status : Nat, code : Code]
NoAnswer == [ok |-> FALSE, status |-> 0, code |-> ""]

TypeOK ==
  /\ client \in {"v4", "v2", "anonymous"}
  /\ virtualHost \in BOOLEAN
  /\ deadline \in BOOLEAN
  /\ opts \in OptionLists
  /\ pc \in {"options", "run", "dial", "send", "wait", "assert", "end"}
  /\ at \in 1..(Len(opts) + 1)
  /\ build \in Seq(Middleware)
  /\ finalize \in Seq(Middleware)
  /\ checksum \in BOOLEAN
  /\ transport \in RawTransport \cup {"pool"}
  /\ req \in Request
  /\ signed \in Seq(Request)
  /\ attempts \in Nat
  /\ dialed \in {"none", "host", "bucket.host"}
  /\ wire \in Seq(Request)
  /\ answers \in Seq(Answers)
  /\ err \in Return
  /\ wanted \subseteq Answers
  /\ verdict \in {"none", "passed", "failed", "stopped"}

-----------------------------------------------------------------------------
(* The SDK.                                                                *)

Mw(k) == [kind |-> k, names |-> {}]

\* The Finalize step before any option.  The bucket is put into the URL and
\* the hash of the payload into its header before the signer runs.
SDKFinalize == <<Mw("ResolveEndpoint"), Mw("PayloadHash"), Mw("Signing")>>

\* The headers the SDK sets for an operation before it gets to Finalize.
SDKHeader == [n \in Header |-> IF n \in {"x-amz-other", "Expect"} THEN "sdk" ELSE "none"]

Place(stack, k) == SelectInSeq(stack, LAMBDA m : m.kind = k)

-----------------------------------------------------------------------------
(* The options.                                                            *)

\* A variant of V2Swap: the v2 signer goes behind the other one.
V2Behind(stack) == InsertAt(stack, Place(stack, "Signing") + 1, Mw("SignV2"))

\* V2 and Anonymous are options of the client, which come before those of the
\* call.  A signer that has no credentials leaves the request alone.
V2Swap(stack) == [stack EXCEPT ![Place(stack, "Signing")] = Mw("SignV2")]

\* RequestChecksumCalculation of forUser, V2 and Anonymous.
ClientChecksum(c) == c # "v2"

Init ==
  /\ client \in {"v4", "v2", "anonymous"}
  /\ virtualHost \in BOOLEAN
  /\ deadline \in BOOLEAN
  /\ opts \in OptionLists
  /\ pc = "options"
  /\ at = 1
  /\ build = <<>>
  /\ finalize = IF client = "v2" THEN V2Swap(SDKFinalize) ELSE SDKFinalize
  /\ checksum = ClientChecksum(client)
  /\ transport = "pool"
  /\ req = [header |-> SDKHeader, bucket |-> "none", query |-> FALSE,
            length |-> TRUE, trailer |-> FALSE]
  /\ signed = <<>>
  /\ attempts = 0
  /\ dialed = "none"
  /\ wire = <<>>
  /\ answers = <<>>
  /\ err = NoAnswer
  /\ wanted = {}
  /\ verdict = "none"

\* The option that is applied next.
Applies(k) == pc = "options" /\ at <= Len(opts) /\ opts[at].kind = k

\* The option puts its middleware at place i of the step.  If there is no such
\* place, or a middleware of that name already, the result is empty.
Put(step, i) ==
  IF i = 0 \/ Place(step, opts[at].kind) # 0 THEN <<>> ELSE InsertAt(step, i, opts[at])

\* The call fails where an option does.
Applied(ok) == IF ok THEN pc' = pc /\ at' = at + 1 ELSE pc' = "assert" /\ at' = at

PutFinalize(i) ==
  LET f == Put(finalize, i) IN
  /\ finalize' = f
  /\ Applied(f # <<>>)
  /\ UNCHANGED <<callVars, build, checksum, transport, req, signed, netVars, err, testVars>>

BeforeSigning == Place(finalize, "Signing")
AfterSigning == IF Place(finalize, "Signing") = 0 THEN 0 ELSE Place(finalize, "Signing") + 1

\* A variant of WithHeaders: Add with middleware.After.
WithHeadersLast == Applies("SetHeaders") /\ PutFinalize(Len(finalize) + 1)

WithHeaders == Applies("SetHeaders") /\ PutFinalize(1)
WithoutHeader == Applies("RemoveHeaders") /\ PutFinalize(1)
WithPathReplace == Applies("PathReplace") /\ PutFinalize(BeforeSigning)

\* A variant of WithChunkedTransferEncoding: Insert with middleware.After.
ChunkedAfterSigning == Applies("Chunked") /\ PutFinalize(AfterSigning)

WithChunkedTransferEncoding == Applies("Chunked") /\ PutFinalize(BeforeSigning)
WithHeadersAfterSigning == Applies("SetHeadersAfterSigning") /\ PutFinalize(AfterSigning)
WithoutHeaderAfterSigning == Applies("RemoveHeadersAfterSigning") /\ PutFinalize(AfterSigning)

WithQuery ==
  /\ Applies("SetQuery")
  /\ build' = Put(build, Len(build) + 1)
  /\ Applied(build' # <<>>)
  /\ UNCHANGED <<callVars, finalize, checksum, transport, req, signed, netVars, err, testVars>>

WithoutRequestChecksum ==
  /\ Applies("NoChecksum")
  /\ checksum' = FALSE
  /\ Applied(TRUE)
  /\ UNCHANGED <<callVars, build, finalize, transport, req, signed, netVars, err, testVars>>

\* WithContentLength and WithoutContentLength.
WithRawTransport ==
  /\ \E k \in RawTransport : Applies(k) /\ transport' = k
  /\ Applied(TRUE)
  /\ UNCHANGED <<callVars, build, finalize, checksum, req, signed, netVars, err, testVars>>

StartRun ==
  /\ pc = "options"
  /\ at > Len(opts)
  /\ pc' = "run"
  /\ UNCHANGED <<callVars, at, stackVars, req, signed, netVars, err, testVars>>

-----------------------------------------------------------------------------
(* The run of the stack, one middleware a step.                            *)

SetQuery ==
  /\ pc = "run"
  /\ build # <<>>
  /\ build' = Tail(build)
  /\ req' = [req EXCEPT !.query = TRUE]
  /\ UNCHANGED <<callVars, pc, at, finalize, checksum, transport, signed, netVars, err, testVars>>

Runs(ks) ==
  /\ pc = "run"
  /\ build = <<>>
  /\ finalize # <<>>
  /\ Head(finalize).kind \in ks
  /\ finalize' = Tail(finalize)
  /\ UNCHANGED <<callVars, pc, at, build, checksum, transport, netVars, err, testVars>>

\* The headers named by the middleware get value v.
Edited(v) ==
  [req EXCEPT !.header =
     [n \in Header |-> IF n \in Head(finalize).names THEN v ELSE @[n]]]

SetHeaders ==
  Runs({"SetHeaders", "SetHeadersAfterSigning"}) /\ req' = Edited("caller") /\ UNCHANGED signed

RemoveHeaders ==
  Runs({"RemoveHeaders", "RemoveHeadersAfterSigning"}) /\ req' = Edited("none") /\ UNCHANGED signed

ResolveEndpoint ==
  Runs({"ResolveEndpoint"}) /\ req' = [req EXCEPT !.bucket = "asked"] /\ UNCHANGED signed

\* A checksum goes into a trailer.
PayloadHash ==
  /\ Runs({"PayloadHash"})
  /\ req' = [req EXCEPT !.header["X-Amz-Content-Sha256"] = "sdk", !.trailer = checksum]
  /\ UNCHANGED signed

\* Nothing is replaced where the name is not there yet.
PathReplace ==
  /\ Runs({"PathReplace"})
  /\ req' = [req EXCEPT !.bucket = IF @ = "none" THEN @ ELSE "replaced"]
  /\ UNCHANGED signed

Chunked ==
  /\ Runs({"Chunked"})
  /\ req' = [req EXCEPT !.length = FALSE, !.header["Content-Length"] = "none"]
  /\ UNCHANGED signed

Sign ==
  /\ Runs({"Signing"})
  /\ IF client = "anonymous" THEN UNCHANGED <<req, signed>>
     ELSE /\ req' = [req EXCEPT !.header["X-Amz-Date"] = "signer",
                                !.header["Authorization"] = "signer"]
          /\ signed' = <<req'>>

SignV2 ==
  /\ Runs({"SignV2"})
  /\ req' = [req EXCEPT !.header["X-Amz-Content-Sha256"] = "none",
                        !.header["Date"] = "signer",
                        !.header["Authorization"] = "signer"]
  /\ signed' = <<req'>>

EndRun ==
  /\ pc = "run"
  /\ build = <<>>
  /\ finalize = <<>>
  /\ pc' = "dial"
  /\ UNCHANGED <<callVars, at, stackVars, req, signed, netVars, err, testVars>>

-----------------------------------------------------------------------------
(* The connection.  The shared http.Client bounds every stage of a request *)
(* (Timeouts), rawClient keeps the deadline of the context only.           *)

\* A variant of MaxAttempts: the SDK's own retryer.
StandardAttempts == 3

\* aws.NopRetryer.
MaxAttempts == 1

\* The call returns e.
Finish(e) ==
  IF ~e.ok /\ attempts < MaxAttempts
  THEN pc' = "dial" /\ UNCHANGED err
  ELSE pc' = "assert" /\ err' = e

\* DialContext of the shared transport takes <bucket>.<host> to <host>.
Dial ==
  /\ pc = "dial"
  /\ attempts' = attempts + 1
  /\ dialed' = IF virtualHost /\ transport # "pool" THEN "bucket.host" ELSE "host"
  /\ pc' = "send"
  /\ UNCHANGED <<callVars, at, stackVars, req, signed, wire, answers, err, testVars>>

\* net/http frames the request by its length and ignores the header,
\* rawClient.Do writes the header it was given and never chunks.
Framed(r) ==
  [r EXCEPT
     !.header["Content-Length"] =
       CASE transport = "ContentLength" -> "caller"
         [] transport = "NoContentLength" -> "none"
         [] transport = "pool" -> IF r.length THEN "sdk" ELSE "none",
     !.length = r.length \/ transport # "pool"]

Send ==
  /\ pc = "send"
  /\ wire' = Append(wire, Framed(req))
  /\ pc' = "wait"
  /\ UNCHANGED <<callVars, at, stackVars, req, signed, attempts, dialed, answers, err, testVars>>

\* The status of a success is what captureStatus has put into the metadata.
Receive ==
  /\ pc = "wait"
  /\ \E a \in Answers :
       /\ answers' = Append(answers, a)
       /\ Finish([ok |-> a.status < 300, status |-> a.status, code |-> a.code])
  /\ UNCHANGED <<callVars, at, stackVars, req, signed, attempts, dialed, wire, testVars>>

\* The connection fails; the request may have reached the server.
Break ==
  /\ pc \in {"send", "wait"}
  /\ Finish(NoAnswer)
  /\ UNCHANGED <<callVars, at, stackVars, req, signed, netVars, testVars>>

\* A variant of TimerFires: the http.Client has no timeouts.
ContextOnly == Break /\ deadline

TimerFires == Break /\ (transport = "pool" \/ deadline)

-----------------------------------------------------------------------------
(* The assertions of s3util.                                               *)

\* A test that wants an answer out of as and finds that the call returned a
\* success, or an error that holds, or neither.
Judge(as, holds, mismatch) ==
  /\ pc = "assert"
  /\ pc' = "end"
  /\ wanted' = as
  /\ verdict' = IF holds THEN "passed" ELSE mismatch
  /\ UNCHANGED <<callVars, at, stackVars, req, signed, netVars, err>>

StatusAndCode == IF err.ok THEN <<0, "">> ELSE <<err.status, err.code>>

Failures == {a \in Answers : a.status >= 300}

\* The error assertions stop the test if there is no error.
Mismatch == IF err.ok THEN "stopped" ELSE "failed"

NoError == Judge(Answers \ Failures, err.ok, "stopped")

ErrorIs ==
  \E a \in Failures : Judge({a}, StatusAndCode = <<a.status, a.code>>, Mismatch)

ErrorStatus ==
  \E a \in Failures :
    Judge({b \in Answers : b.status = a.status}, StatusAndCode[1] = a.status, Mismatch)

ErrorIsOneOf ==
  \E a, b \in Failures :
    Judge({c \in Answers : c.status \in {a.status, b.status} /\ c.code = a.code},
          StatusAndCode[1] \in {a.status, b.status} /\ StatusAndCode[2] = a.code, Mismatch)

\* NoError, and Equal on client.Status.
StatusIs ==
  \E a \in Answers \ Failures :
    Judge({b \in Answers : b.status = a.status}, err.ok /\ err.status = a.status,
          IF err.ok THEN "failed" ELSE "stopped")

-----------------------------------------------------------------------------

Options ==
  \/ WithHeaders \/ WithoutHeader \/ WithHeadersAfterSigning \/ WithoutHeaderAfterSigning
  \/ WithQuery \/ WithPathReplace \/ WithChunkedTransferEncoding
  \/ WithoutRequestChecksum \/ WithRawTransport \/ StartRun

Run ==
  \/ SetQuery \/ SetHeaders \/ RemoveHeaders \/ ResolveEndpoint \/ PayloadHash
  \/ PathReplace \/ Chunked \/ Sign \/ SignV2 \/ EndRun

Connection == Dial \/ Send \/ Receive \/ Break

Assertion == NoError \/ ErrorIs \/ ErrorStatus \/ ErrorIsOneOf \/ StatusIs

Next == Options \/ Run \/ Connection \/ Assertion

Spec == Init /\ [][Next]_vars

\* The goroutine of the call runs on, and timers fire.  Nothing is assumed of
\* the server.
FairSpec ==
  /\ Spec
  /\ WF_vars(Options \/ Run \/ Dial)
  /\ WF_vars(TimerFires)

-----------------------------------------------------------------------------
(* Properties.                                                             *)

Gives(k) == \E i \in DOMAIN opts : opts[i].kind = k

\* The options of the kinds ks that name header n.
Naming(ks, n) == {i \in DOMAIN opts : opts[i].kind \in ks /\ n \in opts[i].names}

\* The first of these options decides: each is put closer to the front of its
\* place in the stack than those before it and so runs before them.
FirstDecides(ks, n) ==
  IF opts[Min(Naming(ks, n))].kind \in {"SetHeaders", "SetHeadersAfterSigning"}
  THEN "caller" ELSE "none"

\* The transport that the last option for one asks for.
RawAsked ==
  LET raw == {i \in DOMAIN opts : opts[i].kind \in RawTransport}
  IN IF raw = {} THEN "pool" ELSE opts[Max(raw)].kind

SignerOwns == CASE client = "v4" -> {"Authorization", "X-Amz-Date"}
                [] client = "v2" -> {"Authorization", "Date"}
                [] client = "anonymous" -> {}

\* What header n of a request has to be, by the options of the call alone.
Promised(n) ==
  IF n = "Content-Length"
  THEN CASE RawAsked = "ContentLength" -> "caller"
         [] RawAsked = "NoContentLength" -> "none"
         [] RawAsked = "pool" -> IF Gives("Chunked") THEN "none" ELSE "sdk"
  ELSE IF Naming(EditsAfter, n) # {} THEN FirstDecides(EditsAfter, n)
  ELSE IF n \in SignerOwns THEN "signer"
  ELSE IF n = "X-Amz-Content-Sha256" THEN (IF client = "v2" THEN "none" ELSE "sdk")
  ELSE IF Naming(EditsBefore, n) # {} THEN FirstDecides(EditsBefore, n)
  ELSE SDKHeader[n]

\* No option is without effect on a request that went out: a header edit before
\* signing holds unless the signer owns the header, one after signing always,
\* the bucket is replaced, the query is there, the body is chunked, and what
\* the SDK would add of its own is left out where the option or the v2 signer
\* says so.  A test whose option had no effect would pass for nothing (headers.go,
\* contentlength.go, V2).
OptionsTakeEffect ==
  \A i \in DOMAIN wire :
    /\ \A n \in Header : wire[i].header[n] = Promised(n)
    /\ wire[i].bucket = (IF Gives("PathReplace") THEN "replaced" ELSE "asked")
    /\ wire[i].query = Gives("SetQuery")
    /\ wire[i].length = ~(Gives("Chunked") /\ RawAsked = "pool")
    /\ wire[i].trailer = ~(Gives("NoChecksum") \/ client = "v2")

\* The headers whose value a signature covers, the length apart.
Covered ==
  IF client = "v4" THEN Header \ {"Authorization", "Expect", "Content-Length"}
  ELSE {"Date", "X-Amz-Date", "X-Amz-Content-Sha256", "x-amz-other"}

\* A server finds that request r was signed as s.
Verifies(r, s) ==
  /\ r.header["Authorization"] = "signer"
  /\ \A n \in Covered : r.header[n] = s.header[n]
  /\ r.bucket = s.bucket
  /\ client = "v4" => /\ r.query = s.query
                      /\ s.length => r.header["Content-Length"] = "sdk"

\* The test wants a request that differs from the one that was signed.
Tampers ==
  \/ \E n \in Covered \cup {"Authorization"} : Naming(EditsAfter, n) # {}
  \/ client = "v4" /\ RawAsked # "pool"

\* What is signed is what is sent, unless the test asked for the contrary: no
\* option that runs before the signer, and no framing of the transport, turns a
\* request that the server should judge on its merits into a mismatch of
\* signatures.  The v2 signer is an exception under virtual hosts: it covers
\* the path, which then has no bucket in it, where the scheme wants the bucket
\* (WithHeaders, WithQuery, WithPathReplace, WithChunkedTransferEncoding, signV2).
SignedAsSent ==
  \A i \in DOMAIN wire :
    (signed # <<>> /\ ~Tampers /\ ~(client = "v2" /\ virtualHost)) => Verifies(wire[i], signed[1])

NeedsSigning == EditsAfter \cup {"PathReplace", "Chunked"}

\* Options that cannot go together: two that add a middleware of one name, or
\* one that looks for the v4 signer and a v2 client.
Conflict ==
  \/ \E i, j \in DOMAIN opts :
       i < j /\ opts[i].kind = opts[j].kind /\ opts[i].kind \notin RawTransport \cup {"NoChecksum"}
  \/ client = "v2" /\ \E k \in NeedsSigning : Gives(k)

\* A call is made without a request exactly if its options conflict: nothing is
\* left out in silence (the errors of the stack, signV2).
ConflictsAreErrors ==
  /\ pc \in {"assert", "end"} /\ attempts = 0 => Conflict /\ ~err.ok
  /\ attempts > 0 => ~Conflict

\* An assertion passes exactly if the server gave an answer that the test asks
\* for, and no other: an error that is not the server's is never taken for the
\* refusal a test expects, and no retry replaces an answer (forUser,
\* StatusAndCode, captureStatus, ErrorIs and the like).
VerdictIsTheServers ==
  /\ Len(wire) <= 1
  /\ Len(answers) <= 1
  /\ verdict # "none" => (verdict = "passed" <=> \E i \in DOMAIN answers : answers[i] \in wanted)

\* A call returns although the server may never answer, unless rawClient makes
\* it under a context without a deadline (Timeouts, rawClient.Do).
CallReturns ==
  deadline \/ ~(\E k \in RawTransport : Gives(k)) => <>(pc = "assert")
=============================================================================

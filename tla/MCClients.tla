------------------------------- MODULE MCClients -------------------------------
(***************************************************************************)
(* Clients for TLC: every pair of options, on all headers at once or on    *)
(* one, and every triple of those that share a place in the stack.         *)
(***************************************************************************)
EXTENDS Clients

Edits(names) == [kind : EditsBefore \cup EditsAfter, names : {names}]

Others(kinds) == [kind : kinds, names : {{}}]

UpTo(k, S) == UNION {[1..n -> S] : n \in 0..k}

EveryHeader == Header \ {"Content-Length"}

MCOptionLists ==
  UpTo(2, Edits(EveryHeader) \cup Edits({"x-amz-other"})
            \cup Others(RawTransport \cup {"SetQuery", "PathReplace", "Chunked", "NoChecksum"}))
  \cup [1..3 -> Edits(EveryHeader) \cup Others({"NoContentLength", "PathReplace", "Chunked"})]

MCAnswers ==
  {[status |-> s[1], code |-> s[2]] : s \in {<<200, "">>, <<204, "">>,
     <<403, "AccessDenied">>, <<403, "SignatureDoesNotMatch">>, <<400, "AccessDenied">>}}
=============================================================================

--------------------------- MODULE TestRun_proofs ---------------------------
(***************************************************************************)
(* Proofs about TestRun, for any number of cleanups and with or without    *)
(* the two bounds.                                                         *)
(***************************************************************************)
EXTENDS TestRun, SequenceTheorems, TLAPS

LEMMA InvokeType ==
  ASSUME NEW e \in Ending, NEW f \in BOOLEAN
  PROVE  /\ Invoke(e, f) \in {"passed", "failed", "skipped"}
         /\ Invoke(e, f) = "passed" => e = "return"
BY DEF Invoke, Ending, MarksFailed

\* What runOne's switch can make of a status.
LEMMA SettleFacts ==
  ASSUME NEW a \in BOOLEAN, NEW s \in Status, NEW c \in BOOLEAN, NEW f \in BOOLEAN
  PROVE  /\ Settle(a, s, c, f) \in Status
         /\ a => Settle(a, s, c, f) = "timeout"
         /\ Settle(a, s, c, f) = "passed" => ~a /\ s = "passed" /\ ~f
BY DEF Settle, Status

-----------------------------------------------------------------------------
(* Types.                                                                  *)

LEMMA EmptySeqType == <<>> \in CleanupSeq
BY DEF CleanupSeq

LEMMA AppendType ==
  ASSUME NEW s \in CleanupSeq, NEW k \in 1..MaxCleanups
  PROVE  Append(s, k) \in CleanupSeq
BY DEF CleanupSeq

LEMMA FrontType ==
  ASSUME NEW s \in CleanupSeq, s # <<>>
  PROVE  /\ Len(s) \in Nat \ {0}
         /\ s[Len(s)] \in 1..MaxCleanups
         /\ SubSeq(s, 1, Len(s) - 1) \in CleanupSeq
BY TestRunAssumption DEF CleanupSeq

LEMMA CleanupType ==
  ASSUME TType, Cleanup
  PROVE  TType'
<1>1. count + 1 \in 1..MaxCleanups
  BY TestRunAssumption DEF Cleanup, TType
<1>2. QED
  BY <1>1, AppendType DEF Cleanup, TType

LEMMA ErrorfType ==
  ASSUME TType, Errorf
  PROVE  TType'
BY DEF Errorf, TType

\* What a part's variables keep, the part keeps.
LEMMA SameTypes ==
  /\ WorkerType /\ UNCHANGED workerVars => WorkerType'
  /\ BodyType /\ UNCHANGED bodyVars => BodyType'
  /\ CleanerType /\ UNCHANGED cleanerVars => CleanerType'
  /\ TType /\ UNCHANGED tVars => TType'
  /\ ContextType /\ UNCHANGED <<ctx>> => ContextType'
<1>1. WorkerType /\ UNCHANGED workerVars => WorkerType'
  BY DEF WorkerType, workerVars
<1>2. BodyType /\ UNCHANGED bodyVars => BodyType'
  BY DEF BodyType, bodyVars
<1>3. CleanerType /\ UNCHANGED cleanerVars => CleanerType'
  BY DEF CleanerType, cleanerVars
<1>4. TType /\ UNCHANGED tVars => TType'
  BY DEF TType, tVars
<1>5. ContextType /\ UNCHANGED <<ctx>> => ContextType'
  BY DEF ContextType
<1>6. QED
  BY <1>1, <1>2, <1>3, <1>4, <1>5

LEMMA BodyTypes ==
  ASSUME TypeOK, Body
  PROVE  TypeOK'
<1>1. CASE BodyCallsT \/ BodyChildCallsT
  <2>1. TType'
    BY <1>1, CleanupType, ErrorfType DEF BodyCallsT, BodyChildCallsT, TypeOK
  <2>2. QED
    BY <1>1, <2>1, SameTypes DEF BodyCallsT, BodyChildCallsT, TypeOK
<1>2. CASE BodyLeaves
  <2>1. BodyType'
    BY <1>2 DEF BodyLeaves, TypeOK, BodyType
  <2>2. TType'
    BY <1>2 DEF BodyLeaves, TypeOK, TType, MarksFailed
  <2>3. ContextType'
    BY <1>2 DEF BodyLeaves, TypeOK, ContextType
  <2>4. QED
    BY <1>2, <2>1, <2>2, <2>3, SameTypes DEF BodyLeaves, TypeOK
<1>3. CASE Recover
  <2>1. Invoke(ending, failed) \in Status
    BY InvokeType DEF TypeOK, BodyType, TType, Status
  <2>2. BodyType'
    BY <1>3, <2>1 DEF Recover, TypeOK, BodyType
  <2>3. QED
    BY <1>3, <2>2, SameTypes DEF Recover, TypeOK
<1>4. QED
  BY <1>1, <1>2, <1>3 DEF Body

LEMMA WorkerTypes ==
  ASSUME TypeOK, Worker
  PROVE  TypeOK'
<1>1. CASE StartBody
  <2>1. WorkerType' /\ BodyType'
    BY <1>1 DEF StartBody, TypeOK, WorkerType, BodyType
  <2>2. QED
    BY <1>1, <2>1, SameTypes DEF StartBody, TypeOK
<1>2. CASE ReceiveStatus \/ TakeCleanups
  <2>1. WorkerType'
    BY <1>2 DEF ReceiveStatus, TakeCleanups, TypeOK, WorkerType, BodyType
  <2>2. CleanerType'
    BY <1>2 DEF ReceiveStatus, TakeCleanups, TypeOK, CleanerType, TType
  <2>3. TType'
    BY <1>2, EmptySeqType DEF ReceiveStatus, TakeCleanups, TypeOK, TType
  <2>4. QED
    BY <1>2, <2>1, <2>2, <2>3, SameTypes DEF ReceiveStatus, TakeCleanups, TypeOK
<1>3. CASE Watchdog \/ CleanupTimer
  <2>1. WorkerType'
    BY <1>3 DEF Watchdog, CleanupTimer, TypeOK, WorkerType, Status
  <2>2. TType'
    BY <1>3, ErrorfType DEF Watchdog, CleanupTimer, TypeOK
  <2>3. QED
    BY <1>3, <2>1, <2>2, SameTypes DEF Watchdog, CleanupTimer, TypeOK
<1>4. CASE CleanupsDone
  <2>1. WorkerType'
    BY <1>4 DEF CleanupsDone, TypeOK, WorkerType
  <2>2. QED
    BY <1>4, <2>1, SameTypes DEF CleanupsDone, TypeOK
<1>5. CASE SettleResult
  <2>1. status' \in Status \cup {NoStatus}
    BY <1>5 DEF SettleResult, Settle, TypeOK, WorkerType, Status
  <2>2. WorkerType'
    BY <1>5, <2>1 DEF SettleResult, TypeOK, WorkerType, TType
  <2>3. QED
    BY <1>5, <2>2, SameTypes DEF SettleResult, TypeOK
<1>6. QED
  BY <1>1, <1>2, <1>3, <1>4, <1>5 DEF Worker

LEMMA CleanerTypes ==
  ASSUME TypeOK, Cleaner
  PROVE  TypeOK'
<1>1. CASE StartCleanup
  <2>1. fns[Len(fns)] \in 1..MaxCleanups /\ SubSeq(fns, 1, Len(fns) - 1) \in CleanupSeq
    BY <1>1, FrontType DEF StartCleanup, TypeOK, CleanerType
  <2>2. CleanerType'
    BY <1>1, <2>1, AppendType DEF StartCleanup, TypeOK, CleanerType
  <2>3. QED
    BY <1>1, <2>2, SameTypes DEF StartCleanup, TypeOK
<1>2. CASE CleanupCallsT
  <2>1. TType'
    BY <1>2, CleanupType, ErrorfType DEF CleanupCallsT, TypeOK
  <2>2. QED
    BY <1>2, <2>1, SameTypes DEF CleanupCallsT, TypeOK
<1>3. CASE EndCleanup \/ CleanerEnds
  <2>1. CleanerType'
    BY <1>3 DEF EndCleanup, CleanerEnds, TypeOK, CleanerType
  <2>2. TType'
    BY <1>3 DEF EndCleanup, CleanerEnds, TypeOK, TType, tVars
  <2>3. QED
    BY <1>3, <2>1, <2>2, SameTypes DEF EndCleanup, CleanerEnds, TypeOK
<1>4. QED
  BY <1>1, <1>2, <1>3 DEF Cleaner

\* Every variable keeps its type (all of TestRun).
THEOREM TypeCorrect == Spec => []TypeOK
<1>1. Init => TypeOK
  <2> SUFFICES ASSUME Init PROVE TypeOK
    OBVIOUS
  <2>1. WorkerType
    BY DEF Init, WorkerType, NoResult
  <2>2. BodyType
    BY DEF Init, BodyType, Ending
  <2>3. CleanerType
    BY EmptySeqType DEF Init, CleanerType
  <2>4. TType
    <3>1. 0 \in 0..MaxCleanups
      BY TestRunAssumption
    <3>2. QED
      BY <3>1, EmptySeqType DEF Init, TType
  <2>5. QED
    BY <2>1, <2>2, <2>3, <2>4 DEF Init, TypeOK, ContextType
<1>2. TypeOK /\ [Next]_vars => TypeOK'
  <2> SUFFICES ASSUME TypeOK, [Next]_vars PROVE TypeOK'
    OBVIOUS
  <2>1. CASE ContextEnds
    <3>1. ContextType'
      BY <2>1 DEF ContextEnds, TypeOK, ContextType
    <3>2. QED
      BY <2>1, <3>1, SameTypes DEF ContextEnds, TypeOK
  <2>2. CASE UNCHANGED vars
    BY <2>2, SameTypes DEF vars, TypeOK
  <2>3. QED
    BY <2>1, <2>2, BodyTypes, WorkerTypes, CleanerTypes DEF Next
<1>3. QED
  BY <1>1, <1>2, PTL DEF Spec

-----------------------------------------------------------------------------
(* The verdict.                                                            *)

\* What the worker knows of the body and of the cleanups.
VerdictInv ==
  /\ sent # NoStatus <=> bpc = "ended"
  /\ sent = "passed" => ending = "return"
  /\ abandoned => wpc \in {"give up", "cleanup", "settle", "done"}
  /\ wpc \in {"start", "body", "give up"} => cpc = "off"
  /\ wpc \in {"give up", "cleanup", "settle"} =>
       /\ status \in Status
       /\ abandoned => status = "timeout"
       /\ ~abandoned => sent = status
  /\ wpc = "start" => bpc = "off"
  /\ wpc = "give up" => abandoned
  /\ cpc = "ended" => fns = <<>>
  /\ wpc = "settle" => failed \/ cpc = "ended"
  /\ wpc # "done" => result = NoResult
  /\ wpc = "done" => result.status \in Status
  /\ result.status = "passed" => ~abandoned /\ sent = "passed" /\ cpc = "ended"

LEMMA VerdictInductive ==
  ASSUME TypeOK, VerdictInv, [Next]_vars
  PROVE  VerdictInv'
<1>1. CASE Body
  <2>1. CASE BodyCallsT \/ BodyChildCallsT
    <3>1. UNCHANGED <<workerVars, bodyVars, cleanerVars>>
      BY <2>1 DEF BodyCallsT, BodyChildCallsT
    <3>2. failed => failed'
      BY <2>1 DEF BodyCallsT, BodyChildCallsT, Errorf, Cleanup
    <3>3. QED
      BY <3>1, <3>2 DEF VerdictInv, workerVars, bodyVars, cleanerVars
  <2>2. CASE BodyLeaves
    BY <2>2 DEF BodyLeaves, VerdictInv, workerVars, cleanerVars, NoStatus
  <2>3. CASE Recover
    <3>1. /\ Invoke(ending, failed) \in {"passed", "failed", "skipped"}
          /\ Invoke(ending, failed) = "passed" => ending = "return"
      BY InvokeType DEF TypeOK, BodyType, TType
    <3>2. sent = NoStatus
      BY <2>3 DEF Recover, VerdictInv
    <3>3. QED
      BY <2>3, <3>1, <3>2 DEF Recover, VerdictInv, workerVars, cleanerVars, tVars, NoStatus, Status
  <2>4. QED
    BY <1>1, <2>1, <2>2, <2>3 DEF Body
<1>2. CASE Worker
  <2>1. CASE StartBody
    BY <2>1 DEF StartBody, VerdictInv, cleanerVars, tVars
  <2>2. CASE ReceiveStatus
    BY <2>2 DEF ReceiveStatus, VerdictInv, TypeOK, BodyType, bodyVars, NoResult, NoStatus
  <2>3. CASE Watchdog
    BY <2>3 DEF Watchdog, Errorf, VerdictInv, bodyVars, cleanerVars, Status, NoResult, NoStatus
  <2>4. CASE TakeCleanups
    BY <2>4 DEF TakeCleanups, VerdictInv, bodyVars, NoResult, NoStatus
  <2>5. CASE CleanupsDone
    BY <2>5 DEF CleanupsDone, VerdictInv, bodyVars, cleanerVars, tVars
  <2>6. CASE CleanupTimer
    BY <2>6 DEF CleanupTimer, Errorf, VerdictInv, bodyVars, cleanerVars
  <2>7. CASE SettleResult
    <3>0. (ctx = "done") \in BOOLEAN
      OBVIOUS
    <3>1. /\ status' = Settle(abandoned, status, ctx = "done", failed)
          /\ status' \in Status
          /\ status' = "passed" => ~abandoned /\ status = "passed" /\ ~failed
      <4>1. abandoned \in BOOLEAN /\ failed \in BOOLEAN /\ status \in Status
        BY <2>7 DEF SettleResult, VerdictInv, TypeOK, WorkerType, TType
      <4>2. status' = Settle(abandoned, status, ctx = "done", failed)
        BY <2>7 DEF SettleResult
      <4>3. QED
        BY <3>0, <4>1, <4>2, SettleFacts
    <3>2. result'.status = status'
      BY <2>7 DEF SettleResult
    <3>3. QED
      BY <2>7, <3>1, <3>2 DEF SettleResult, VerdictInv, bodyVars, cleanerVars, tVars
  <2>8. QED
    BY <1>2, <2>1, <2>2, <2>3, <2>4, <2>5, <2>6, <2>7 DEF Worker
<1>3. CASE Cleaner
  <2>1. UNCHANGED <<workerVars, bodyVars>> /\ (failed => failed')
    <3>1. CASE StartCleanup \/ CleanerEnds
      BY <3>1 DEF StartCleanup, CleanerEnds, tVars
    <3>2. CASE CleanupCallsT
      BY <3>2 DEF CleanupCallsT, Errorf, Cleanup
    <3>3. CASE EndCleanup
      BY <3>3 DEF EndCleanup, tVars
    <3>4. QED
      BY <1>3, <3>1, <3>2, <3>3 DEF Cleaner
  <2>2. CASE StartCleanup \/ EndCleanup
    <3>1. cpc # "off" /\ cpc # "ended" /\ cpc' # "ended"
      BY <2>2 DEF StartCleanup, EndCleanup
    <3>2. QED
      BY <2>1, <3>1 DEF VerdictInv, workerVars, bodyVars
  <2>3. CASE CleanupCallsT
    <3>1. UNCHANGED cleanerVars
      BY <2>3 DEF CleanupCallsT
    <3>2. QED
      BY <2>1, <3>1 DEF VerdictInv, workerVars, bodyVars, cleanerVars
  <2>4. CASE CleanerEnds
    <3>1. cpc # "off" /\ cpc' = "ended" /\ fns' = <<>>
      BY <2>4 DEF CleanerEnds
    <3>2. QED
      BY <2>1, <3>1 DEF VerdictInv, workerVars, bodyVars
  <2>5. QED
    BY <1>3, <2>2, <2>3, <2>4 DEF Cleaner
<1>4. CASE ContextEnds
  BY <1>4 DEF ContextEnds, VerdictInv, workerVars, bodyVars, cleanerVars, tVars
<1>5. CASE UNCHANGED vars
  BY <1>5 DEF vars, VerdictInv, workerVars, bodyVars, cleanerVars, tVars
<1>6. QED
  BY <1>1, <1>2, <1>3, <1>4, <1>5 DEF Next

THEOREM VerdictInvariant == Spec => []VerdictInv
<1>1. Init => VerdictInv
  BY DEF Init, VerdictInv, NoResult, NoStatus
<1>2. QED
  BY <1>1, VerdictInductive, TypeCorrect, PTL DEF Spec

\* A passed verdict hides neither a hung body nor a hung cleanup (runOne).
THEOREM PassMeansCleanAlways == Spec => []PassMeansClean
<1>1. VerdictInv => PassMeansClean
  BY DEF VerdictInv, PassMeansClean, NoStatus
<1>2. QED
  BY <1>1, VerdictInvariant, PTL

-----------------------------------------------------------------------------
(* The order of the cleanups.                                              *)

Ascending(s) == \A m, n \in 1..Len(s) : m < n => s[m] < s[n]

\* Cleanups are numbered upwards, the ones waiting lie below the ones begun,
\* and nothing was begun before the cleanups were taken.
OrderInv ==
  /\ Ascending(cleanups)
  /\ \A n \in 1..Len(cleanups) : cleanups[n] <= count
  /\ Ascending(fns)
  /\ \A m \in 1..Len(ran), n \in 1..Len(fns) : ran[m] > fns[n]
  /\ cpc = "off" => ran = <<>>
  /\ CleanupsReversed

LEMMA OrderSame ==
  ASSUME OrderInv, UNCHANGED <<cleanups, count, fns, ran, cpc>>
  PROVE  OrderInv'
BY DEF OrderInv, Ascending, CleanupsReversed

\* Registering keeps the numbers ascending.
LEMMA RegisterAscending ==
  ASSUME TypeOK, OrderInv, Cleanup
  PROVE  /\ Ascending(cleanups')
         /\ \A n \in 1..Len(cleanups') : cleanups'[n] <= count'
<1> DEFINE L == Len(cleanups)
<1>1. cleanups \in Seq(Int) /\ count \in Int
  <2>1. cleanups \in Seq(1..MaxCleanups) /\ count \in 0..MaxCleanups
    BY DEF TypeOK, TType, CleanupSeq
  <2>2. QED
    BY <2>1, TestRunAssumption
<1>2. /\ L \in Nat
      /\ Len(cleanups') = L + 1
      /\ \A n \in 1..L : cleanups'[n] = cleanups[n] /\ cleanups[n] \in Int
      /\ cleanups'[L + 1] = count + 1
  BY <1>1 DEF Cleanup
<1>3. \A n \in 1..L : cleanups'[n] <= count
  BY <1>2 DEF OrderInv
<1>4. ASSUME NEW m \in 1..Len(cleanups'), NEW n \in 1..Len(cleanups'), m < n
      PROVE  cleanups'[m] < cleanups'[n]
  <2>1. CASE n = L + 1
    BY <1>1, <1>2, <1>3, <1>4, <2>1
  <2>2. CASE n # L + 1
    <3>1. m \in 1..L /\ n \in 1..L
      BY <1>2, <1>4, <2>2
    <3>2. cleanups[m] < cleanups[n]
      BY <3>1, <1>4 DEF OrderInv, Ascending
    <3>3. QED
      BY <1>2, <3>1, <3>2
  <2>3. QED
    BY <2>1, <2>2
<1>5. ASSUME NEW n \in 1..Len(cleanups') PROVE cleanups'[n] <= count'
  <2>1. count' = count + 1
    BY DEF Cleanup
  <2>2. QED
    BY <1>1, <1>2, <1>3, <2>1
<1>6. QED
  BY <1>4, <1>5 DEF Ascending

\* What is left of a sequence without its last element.
LEMMA FrontOrder ==
  ASSUME NEW s \in Seq(Int), s # <<>>, NEW f, f = SubSeq(s, 1, Len(s) - 1)
  PROVE  /\ Len(f) = Len(s) - 1
         /\ \A n \in 1..(Len(s) - 1) : f[n] = s[n] /\ s[n] \in Int
<1> DEFINE k == Len(s) - 1
<1>1. Len(s) \in Nat \ {0} /\ k \in Nat
  OBVIOUS
<1>2. \A n \in 1..k : s[n] \in Int
  BY <1>1
<1>3. Len(f) = IF 1 <= k THEN k - 1 + 1 ELSE 0
  BY <1>1, <1>2, SubSeqProperties
<1>4. Len(f) = k
  <2>1. k \in Nat
    BY <1>1
  <2> HIDE DEF k
  <2>2. QED
    BY <1>3, <2>1
<1>5. \A n \in 1..(k - 1 + 1) : f[n] = s[1 + n - 1]
  BY <1>1, <1>2, SubSeqProperties
<1>6. ASSUME NEW n \in 1..k PROVE f[n] = s[n] /\ s[n] \in Int
  <2>1. n \in 1..(k - 1 + 1) /\ 1 + n - 1 = n
    BY <1>1
  <2>2. QED
    BY <1>2, <1>5, <2>1
<1>7. QED
  BY <1>4, <1>6

\* Beginning the last of the waiting cleanups keeps the order.
LEMMA BeginOrder ==
  ASSUME TypeOK, OrderInv, StartCleanup
  PROVE  OrderInv'
<1> DEFINE L == Len(fns)
           R == Len(ran)
<1>1. fns \in Seq(Int) /\ ran \in Seq(Int) /\ fns # <<>>
  <2>1. fns \in Seq(1..MaxCleanups) /\ ran \in Seq(1..MaxCleanups)
    BY DEF TypeOK, CleanerType, CleanupSeq
  <2>2. QED
    BY <2>1, TestRunAssumption DEF StartCleanup
<1>2. L \in Nat \ {0} /\ fns[L] \in Int
  BY <1>1
<1>3. /\ Len(fns') = L - 1
      /\ \A n \in 1..(L - 1) : fns'[n] = fns[n] /\ fns[n] \in Int
  <2>1. fns' = SubSeq(fns, 1, L - 1)
    BY DEF StartCleanup
  <2>2. QED
    BY <1>1, <2>1, FrontOrder
<1>4. /\ R \in Nat
      /\ Len(ran') = R + 1
      /\ \A m \in 1..R : ran'[m] = ran[m] /\ ran[m] \in Int
      /\ ran'[R + 1] = fns[L]
  BY <1>1, <1>2 DEF StartCleanup
<1>5. Ascending(fns')
  BY <1>2, <1>3 DEF OrderInv, Ascending
<1>6. \A m \in 1..R : ran[m] > fns[L]
  BY <1>2 DEF OrderInv
<1>7. ASSUME NEW m \in 1..Len(ran'), NEW n \in 1..Len(fns')
      PROVE  ran'[m] > fns'[n]
  <2>1. n \in 1..L /\ n < L /\ L \in 1..L
    BY <1>2, <1>3
  <2>2. CASE m = R + 1
    <3>1. fns[n] < fns[L]
      BY <2>1 DEF OrderInv, Ascending
    <3>2. QED
      BY <1>2, <1>3, <1>4, <2>2, <3>1
  <2>3. CASE m # R + 1
    <3>1. m \in 1..R
      BY <1>4, <2>3
    <3>2. ran[m] > fns[n]
      BY <2>1, <3>1 DEF OrderInv
    <3>3. QED
      BY <1>3, <1>4, <3>1, <3>2
  <2>4. QED
    BY <2>2, <2>3
<1>8. ASSUME NEW m \in 1..Len(ran'), NEW n \in 1..Len(ran'), m < n
      PROVE  ran'[m] > ran'[n]
  <2>1. m \in 1..R
    BY <1>4, <1>8
  <2>2. CASE n = R + 1
    BY <1>4, <1>6, <2>1, <2>2
  <2>3. CASE n # R + 1
    <3>1. n \in 1..R
      BY <1>4, <2>3
    <3>2. ran[m] > ran[n]
      BY <1>8, <2>1, <3>1 DEF OrderInv, CleanupsReversed
    <3>3. QED
      BY <1>4, <2>1, <3>1, <3>2
  <2>4. QED
    BY <2>2, <2>3
<1>9. cpc' # "off" /\ UNCHANGED <<cleanups, count>>
  BY DEF StartCleanup, tVars
<1>10. QED
  BY <1>5, <1>7, <1>8, <1>9 DEF OrderInv, CleanupsReversed, Ascending

\* Taking the cleanups leaves none registered, and none was begun before.
LEMMA TakeOrder ==
  ASSUME OrderInv, VerdictInv, ReceiveStatus \/ TakeCleanups
  PROVE  OrderInv'
<1>1. ran = <<>> /\ ran' = ran
  BY DEF OrderInv, VerdictInv, ReceiveStatus, TakeCleanups
<1>2. fns' = cleanups /\ cleanups' = <<>> /\ cpc' # "off"
  BY DEF ReceiveStatus, TakeCleanups
<1>3. Ascending(fns') /\ Ascending(cleanups')
  BY <1>2 DEF OrderInv, Ascending
<1>4. QED
  BY <1>1, <1>2, <1>3 DEF OrderInv, CleanupsReversed

LEMMA OrderInductive ==
  ASSUME TypeOK, VerdictInv, OrderInv, [Next]_vars
  PROVE  OrderInv'
<1>1. CASE Cleanup /\ UNCHANGED cleanerVars
  <2>1. UNCHANGED <<cpc, fns, ran>>
    BY <1>1 DEF cleanerVars
  <2>2. QED
    BY <1>1, <2>1, RegisterAscending DEF OrderInv, Ascending, CleanupsReversed
<1>2. CASE UNCHANGED <<cleanups, count, cleanerVars>>
  BY <1>2, OrderSame DEF cleanerVars
<1>3. CASE Body
  BY <1>1, <1>2, <1>3 DEF Body, BodyCallsT, BodyLeaves, BodyChildCallsT, Recover, Errorf, tVars
<1>4. CASE Worker
  <2>1. CASE ReceiveStatus \/ TakeCleanups
    BY <2>1, TakeOrder
  <2>2. CASE StartBody \/ Watchdog \/ CleanupsDone \/ CleanupTimer \/ SettleResult
    BY <1>2, <2>2 DEF StartBody, Watchdog, CleanupsDone, CleanupTimer, SettleResult, Errorf, tVars
  <2>3. QED
    BY <1>4, <2>1, <2>2 DEF Worker
<1>5. CASE Cleaner
  <2>1. CASE StartCleanup
    BY <2>1, BeginOrder
  <2>2. CASE CleanupCallsT
    BY <1>1, <1>2, <2>2 DEF CleanupCallsT, Errorf
  <2>3. CASE EndCleanup \/ CleanerEnds
    <3>1. UNCHANGED <<cleanups, count, fns, ran>> /\ cpc # "off" /\ cpc' # "off"
      BY <2>3 DEF EndCleanup, CleanerEnds, tVars
    <3>2. QED
      BY <3>1 DEF OrderInv, Ascending, CleanupsReversed
  <2>4. QED
    BY <1>5, <2>1, <2>2, <2>3 DEF Cleaner
<1>6. CASE ContextEnds \/ UNCHANGED vars
  BY <1>2, <1>6 DEF ContextEnds, vars, tVars
<1>7. QED
  BY <1>3, <1>4, <1>5, <1>6 DEF Next

\* Cleanups run in reverse and none twice, also beside a body that was given
\* up and registers more of them (T.Cleanup, T.runCleanups).
THEOREM CleanupsReversedAlways == Spec => []CleanupsReversed
<1>1. Init => OrderInv
  BY DEF Init, OrderInv, Ascending, CleanupsReversed
<1>2. OrderInv => CleanupsReversed
  BY DEF OrderInv
<1>3. QED
  BY <1>1, <1>2, OrderInductive, TypeCorrect, VerdictInvariant, PTL DEF Spec

-----------------------------------------------------------------------------
(* The lifecycle of a test.                                                *)

\* What runOne's switch makes of a status is one of its outcomes.
LEMMA SettleOutcome ==
  ASSUME NEW a \in BOOLEAN, NEW s \in Status, NEW c \in BOOLEAN, NEW f \in BOOLEAN,
         a => s = "timeout"
  PROVE  Settle(a, s, c, f) \in Lifecycle!Outcomes(s)
<1>1. CASE a
  BY <1>1 DEF Settle, Lifecycle!Outcomes
<1>2. CASE ~a /\ s = "passed"
  <2>1. Settle(a, s, c, f) \in {"passed", "failed"}
    BY <1>2 DEF Settle
  <2>2. Lifecycle!Outcomes(s) = {"passed", "failed"}
    BY <1>2 DEF Lifecycle!Outcomes
  <2>3. QED
    BY <2>1, <2>2
<1>3. CASE ~a /\ s = "failed"
  <2>1. Settle(a, s, c, f) \in {"failed", "timeout"}
    BY <1>3 DEF Settle
  <2>2. Lifecycle!Outcomes(s) = {"failed", "timeout"}
    BY <1>3 DEF Lifecycle!Outcomes
  <2>3. QED
    BY <2>1, <2>2
<1>4. CASE ~a /\ s # "passed" /\ s # "failed"
  <2>1. Settle(a, s, c, f) = s
    BY <1>4 DEF Settle
  <2>2. Lifecycle!Outcomes(s) = {s}
    BY <1>4 DEF Lifecycle!Outcomes
  <2>3. QED
    BY <2>1, <2>2
<1>5. QED
  BY <1>1, <1>2, <1>3, <1>4

\* A step that leaves the worker alone is not seen by the lifecycle.
LEMMA LifecycleSame ==
  ASSUME UNCHANGED <<Stage, Ended, result>>
  PROVE  UNCHANGED Lifecycle!vars
BY DEF Lifecycle!vars

LEMMA LifecycleStep ==
  ASSUME TypeOK, VerdictInv, [Next]_vars
  PROVE  [Lifecycle!Next]_(Lifecycle!vars)
<1>1. CASE UNCHANGED workerVars
  <2>1. UNCHANGED <<wpc, status, result>>
    BY <1>1 DEF workerVars
  <2>2. UNCHANGED <<Stage, Ended, result>>
    BY <2>1 DEF Stage, Ended
  <2>3. QED
    BY <2>2, LifecycleSame
<1>2. CASE StartBody
  <2>1. Stage = "new" /\ Stage' = "body" /\ UNCHANGED <<Ended, result>>
    BY <1>2 DEF StartBody, Stage, Ended
  <2>2. Lifecycle!Start
    BY <2>1 DEF Lifecycle!Start
  <2>3. QED
    BY <2>2 DEF Lifecycle!Next
<1>3. CASE ReceiveStatus \/ TakeCleanups
  <2>1. status' \in Status /\ UNCHANGED result
    BY <1>3 DEF ReceiveStatus, TakeCleanups, VerdictInv, TypeOK, BodyType
  <2>2. Stage = "body" /\ Stage' = "cleanup" /\ Ended' = status'
    BY <1>3 DEF ReceiveStatus, TakeCleanups, Stage, Ended
  <2>3. Lifecycle!EndBody
    BY <2>1, <2>2 DEF Lifecycle!EndBody, Lifecycle!Status, Status
  <2>4. QED
    BY <2>3 DEF Lifecycle!Next
<1>4. CASE Watchdog
  <2>1. wpc = "body" /\ wpc' = "give up" /\ UNCHANGED result
    BY <1>4 DEF Watchdog
  <2>2. UNCHANGED <<Stage, Ended>>
    BY <2>1 DEF Stage, Ended
  <2>3. QED
    BY <2>1, <2>2, LifecycleSame
<1>5. CASE CleanupsDone \/ CleanupTimer
  <2>1. wpc = "cleanup" /\ wpc' = "settle" /\ UNCHANGED <<status, result>>
    BY <1>5 DEF CleanupsDone, CleanupTimer
  <2>2. UNCHANGED <<Stage, Ended>>
    BY <2>1 DEF Stage, Ended
  <2>3. QED
    BY <2>1, <2>2, LifecycleSame
<1>6. CASE SettleResult
  <2>1. /\ abandoned \in BOOLEAN /\ failed \in BOOLEAN /\ status \in Status
        /\ (ctx = "done") \in BOOLEAN
        /\ abandoned => status = "timeout"
    BY <1>6 DEF SettleResult, VerdictInv, TypeOK, WorkerType, TType
  <2>2. Settle(abandoned, status, ctx = "done", failed) \in Lifecycle!Outcomes(status)
    BY <2>1, SettleOutcome
  <2>3. result'.status = Settle(abandoned, status, ctx = "done", failed)
    BY <1>6 DEF SettleResult
  <2>4. Stage = "cleanup" /\ Stage' = "settled" /\ Ended = status /\ Ended' = NoStatus
    BY <1>6 DEF SettleResult, Stage, Ended
  <2>5. Lifecycle!Decide
    BY <2>2, <2>3, <2>4 DEF Lifecycle!Decide, Lifecycle!NoStatus, NoStatus
  <2>6. QED
    BY <2>5 DEF Lifecycle!Next
<1>7. CASE Body \/ Cleaner \/ ContextEnds \/ UNCHANGED vars
  <2>1. UNCHANGED workerVars
    BY <1>7 DEF Body, BodyCallsT, BodyLeaves, BodyChildCallsT, Recover,
       Cleaner, StartCleanup, CleanupCallsT, EndCleanup, CleanerEnds, ContextEnds, vars
  <2>2. QED
    BY <1>1, <2>1
<1>8. QED
  BY <1>2, <1>3, <1>4, <1>5, <1>6, <1>7 DEF Next, Worker

\* runOne() implements the lifecycle of a test (runOne, runBody, runCleanups).
THEOREM LifecycleKept == Spec => KeepsLifecycle
<1>1. Init => Lifecycle!Init
  <2> SUFFICES ASSUME Init PROVE Lifecycle!Init
    OBVIOUS
  <2>1. Stage = "new" /\ Ended = NoStatus /\ result.status = NoStatus
    BY DEF Init, Stage, Ended, NoResult
  <2>2. QED
    BY <2>1 DEF Lifecycle!Init, Lifecycle!NoStatus, NoStatus
<1>2. QED
  BY <1>1, LifecycleStep, TypeCorrect, VerdictInvariant, PTL
     DEF Spec, KeepsLifecycle, Lifecycle!Spec
=============================================================================

------------------------------- MODULE Fixture -------------------------------
(***************************************************************************)
(* The life of one bucket of the fixture: Env.createBucket in the test     *)
(* body, and nuke() in a cleanup, with deleteObjects, deleteVersions and   *)
(* retryThrottled, against an S3 server that stores versions under object  *)
(* locks, lists in pages, throttles and fails.                             *)
(*                                                                         *)
(* One request and its answer are one step.  The body may have been given  *)
(* up, and then it works on the bucket while nuke() removes it.  Versions  *)
(* and delete markers are treated alike by the code and are numbered in    *)
(* the order in which the server lists them.                               *)
(***************************************************************************)
EXTENDS Integers

CONSTANTS
  NVersions,  \* bounds the versions a body writes
  Budget      \* how many retries fit into retryBudget

Version == 1..NVersions

ASSUME FixtureAssumption ==
  /\ NVersions \in Nat
  /\ Budget \in Nat

\* What keeps a version from being deleted.  A compliance lock is short if it
\* expires within maxRetentionWait.
Lock == {"none", "governance", "short", "long"}

VARIABLES
  exists,      \* the server has the bucket
  versions,    \* the versions in it
  objectLock,  \* it was created with object lock
  lock,        \* the lock a version gets when it is written
  expired,     \* short compliance locks have expired
  body,        \* the test body: "creating", "using" or "ended"
  written,     \* the versions the body has written
  registered,  \* createBucket has registered the removal
  pc,          \* nuke(): "idle", "list", "delete", "bypass", "retention",
               \* "wait", "drop" or "done"
  pass,        \* which call of deleteVersions
  marker,      \* the last version of the pages seen so far
  next,        \* the last version of this page
  more,        \* this page is truncated
  page,        \* the versions of this page
  refused,     \* those the server refused to delete
  until,       \* retainUntil: "zero", "short" or "long"
  left,        \* retries left
  logged,      \* a problem was logged
  faulty,      \* history: a call failed for good, other than by a lock
  late         \* history: the body wrote after nuke() had begun

serverVars == <<exists, versions, objectLock, lock, expired>>
bodyVars == <<body, written, registered>>
pageVars == <<pass, marker, next, more, page, refused, until>>
historyVars == <<faulty, late>>
vars == <<serverVars, bodyVars, pc, pageVars, left, logged, historyVars>>

ServerType ==
  /\ exists \in BOOLEAN
  /\ versions \subseteq Version
  /\ objectLock \in BOOLEAN
  /\ lock \in [Version -> Lock]
  /\ expired \in BOOLEAN

BodyType ==
  /\ body \in {"creating", "using", "ended"}
  /\ written \subseteq Version
  /\ registered \in BOOLEAN

NukeType ==
  /\ pc \in {"idle", "list", "delete", "bypass", "retention", "wait", "drop", "done"}
  /\ pass \in {1, 2}
  /\ marker \in 0..NVersions
  /\ next \in 0..NVersions
  /\ more \in BOOLEAN
  /\ page \subseteq Version
  /\ refused \subseteq Version
  /\ until \in {"zero", "short", "long"}
  /\ left \in 0..Budget

HistoryType == logged \in BOOLEAN /\ faulty \in BOOLEAN /\ late \in BOOLEAN

TypeOK == ServerType /\ BodyType /\ NukeType /\ HistoryType

Init ==
  /\ exists = FALSE
  /\ versions = {}
  /\ objectLock \in BOOLEAN
  /\ lock \in [Version -> IF objectLock THEN Lock ELSE {"none"}]
  /\ expired = FALSE
  /\ body = "creating"
  /\ written = {}
  /\ registered = FALSE
  /\ pc = "idle"
  /\ pass = 1
  /\ marker = 0
  /\ next = 0
  /\ more = FALSE
  /\ page = {}
  /\ refused = {}
  /\ until = "zero"
  /\ left = Budget
  /\ logged = FALSE
  /\ faulty = FALSE
  /\ late = FALSE

-----------------------------------------------------------------------------
(* The test body.                                                          *)

CreateSucceeds ==
  /\ body = "creating"
  /\ exists' = TRUE
  /\ registered' = TRUE
  /\ body' = "using"
  /\ UNCHANGED <<versions, objectLock, lock, expired, written, pc, pageVars,
                 left, logged, historyVars>>

CreateThrottled ==
  /\ body = "creating"
  /\ left > 0
  /\ left' = left - 1
  /\ UNCHANGED <<serverVars, bodyVars, pc, pageVars, logged, historyVars>>

\* Fatalf.  The request may have reached the server nevertheless.
CreateFails ==
  /\ body = "creating"
  /\ body' = "ended"
  /\ exists' \in BOOLEAN
  /\ UNCHANGED <<versions, objectLock, lock, expired, written, registered, pc,
                 pageVars, left, logged, historyVars>>

BodyWrites ==
  /\ body = "using"
  /\ exists
  /\ \E v \in Version \ written :
       versions' = versions \cup {v} /\ written' = written \cup {v}
  /\ late' = (late \/ pc # "idle")
  /\ UNCHANGED <<exists, objectLock, lock, expired, body, registered, pc,
                 pageVars, left, logged, faulty>>

\* A test may delete its own bucket.
BodyDrops ==
  /\ body = "using"
  /\ exists
  /\ versions = {}
  /\ exists' = FALSE
  /\ UNCHANGED <<versions, objectLock, lock, expired, bodyVars, pc, pageVars,
                 left, logged, historyVars>>

BodyEnds ==
  /\ body = "using"
  /\ body' = "ended"
  /\ UNCHANGED <<serverVars, written, registered, pc, pageVars, left, logged, historyVars>>

Expire ==
  /\ ~expired
  /\ expired' = TRUE
  /\ UNCHANGED <<exists, versions, objectLock, lock, bodyVars, pc, pageVars,
                 left, logged, historyVars>>

-----------------------------------------------------------------------------
(* nuke().                                                                 *)

\* deleteVersions begins, for the n-th time.
BeginPass(n) ==
  /\ pc' = "list"
  /\ pass' = n
  /\ marker' = 0
  /\ until' = "zero"

\* deleteObjects is over and the bucket itself is next.
EmptyingEnds == pc' = "drop" /\ left' = Budget

\* deleteVersions returns u to deleteObjects.
EndPass(u) ==
  /\ until' = u
  /\ UNCHANGED <<pass, marker>>
  /\ IF pass = 1 /\ u = "short"
     THEN pc' = "wait" /\ UNCHANGED <<left, logged>>
     ELSE EmptyingEnds /\ logged' = (logged \/ (pass = 1 /\ u = "long"))

EndPage(u) ==
  IF more
  THEN pc' = "list" /\ marker' = next /\ until' = u /\ UNCHANGED <<pass, left, logged>>
  ELSE EndPass(u)

\* The cleanup runs, whether the body has ended or was given up.
Start ==
  /\ pc = "idle"
  /\ registered
  /\ BeginPass(1)
  /\ left' = Budget
  /\ UNCHANGED <<serverVars, bodyVars, next, more, page, refused, logged, historyVars>>

\* An answer of NoSuchBucket, which is as good as success.
BucketGone ==
  /\ pc \in {"list", "delete", "bypass"}
  /\ ~exists
  /\ EmptyingEnds
  /\ UNCHANGED <<serverVars, bodyVars, pageVars, logged, historyVars>>

\* ListObjectVersions.  The server decides where a page ends.
List ==
  /\ pc = "list"
  /\ exists
  /\ \E m \in (marker + 1)..NVersions :
       /\ next' = m
       /\ page' = {v \in versions : marker < v /\ v <= m}
       /\ page' # {}
       /\ more' = (\E v \in versions : v > m)
  /\ pc' = "delete"
  /\ UNCHANGED <<serverVars, bodyVars, pass, marker, refused, until, left, logged, historyVars>>

ListEmpty ==
  /\ pc = "list"
  /\ exists
  /\ \A v \in versions : v <= marker
  /\ EndPass(until)
  /\ UNCHANGED <<serverVars, bodyVars, next, more, page, refused, historyVars>>

Locked(v) == lock[v] \in {"governance", "long"} \/ (lock[v] = "short" /\ ~expired)

\* The versions that withstand the bypass of governance retention.
Retained(v) == Locked(v) /\ lock[v] # "governance"

\* What the server refuses to delete of s, of which only(v) withstands, and
\* possibly some more for another reason.
Refuse(s, withstands) ==
  \E extra \in SUBSET s :
    /\ refused' = withstands \cup extra
    /\ faulty' = (faulty \/ ~(extra \subseteq withstands))
    /\ versions' = versions \ (s \ refused')

\* A variant of Delete: the first request bypasses governance retention, which
\* the server rejects in a bucket without object lock.
DeleteWithBypass ==
  /\ pc = "delete"
  /\ exists
  /\ IF objectLock
     THEN /\ Refuse(page, {v \in page : Retained(v)})
          /\ IF refused' = {} THEN EndPage(until)
             ELSE pc' = "retention" /\ UNCHANGED <<pass, marker, until, left, logged>>
     ELSE /\ EmptyingEnds
          /\ logged' = TRUE
          /\ UNCHANGED <<versions, refused, faulty, pass, marker, until>>
  /\ UNCHANGED <<exists, objectLock, lock, expired, bodyVars, next, more, page, late>>

\* deleteBatch without bypass.
Delete ==
  /\ pc = "delete"
  /\ exists
  /\ Refuse(page, {v \in page : Locked(v)})
  /\ IF refused' = {} THEN EndPage(until)
     ELSE pc' = "bypass" /\ UNCHANGED <<pass, marker, until, left, logged>>
  /\ UNCHANGED <<exists, objectLock, lock, expired, bodyVars, next, more, page, late>>

\* deleteBatch of what was refused, with bypass.
Bypass ==
  /\ pc = "bypass"
  /\ exists
  /\ objectLock
  /\ Refuse(refused, {v \in refused : Retained(v)})
  /\ IF refused' = {} THEN EndPage(until)
     ELSE pc' = "retention" /\ UNCHANGED <<pass, marker, until, left, logged>>
  /\ UNCHANGED <<exists, objectLock, lock, expired, bodyVars, next, more, page, late>>

\* A bucket without object lock does not know the bypass.
BypassRejected ==
  /\ pc = "bypass"
  /\ exists
  /\ ~objectLock
  /\ EmptyingEnds
  /\ logged' = TRUE
  /\ UNCHANGED <<serverVars, bodyVars, pageVars, historyVars>>

\* The later of u and the retention dates of s.
Latest(u, s) ==
  IF u = "long" \/ \E v \in s : lock[v] = "long" THEN "long"
  ELSE IF u = "short" \/ \E v \in s : lock[v] = "short" THEN "short"
  ELSE "zero"

\* retainUntil of every version still refused.  A call that fails says zero.
ReadRetention ==
  /\ pc = "retention"
  /\ \E known \in SUBSET refused :
       /\ EndPage(Latest(until, known))
       /\ faulty' = (faulty \/ known # refused)
  /\ UNCHANGED <<serverVars, bodyVars, next, more, page, refused, late>>

Wait ==
  /\ pc = "wait"
  /\ expired' = TRUE
  /\ BeginPass(2)
  /\ UNCHANGED <<exists, versions, objectLock, lock, bodyVars, next, more, page,
                 refused, left, logged, historyVars>>

\* A variant of Throttled: the budget is looked at after the wait.
ThrottledOnceMore ==
  /\ pc \in {"list", "delete", "bypass"}
  /\ left >= 0
  /\ left' = left - 1
  /\ BeginPass(1)
  /\ UNCHANGED <<serverVars, bodyVars, next, more, page, refused, logged, historyVars>>

\* A variant of Throttled: there is no budget.
ThrottledForever ==
  /\ pc \in {"list", "delete", "bypass"}
  /\ BeginPass(1)
  /\ UNCHANGED <<serverVars, bodyVars, next, more, page, refused, left, logged, historyVars>>

\* retryThrottled calls deleteObjects anew, from its first pass.  Between them
\* this and EmptyingFails let a wait for a lock use up the budget as well.
Throttled ==
  /\ pc \in {"list", "delete", "bypass"}
  /\ left > 0
  /\ left' = left - 1
  /\ BeginPass(1)
  /\ UNCHANGED <<serverVars, bodyVars, next, more, page, refused, logged, historyVars>>

\* A call of deleteVersions is throttled beyond the budget or fails otherwise.
\* Part of a batch may be deleted nevertheless.
EmptyingFails ==
  /\ pc \in {"list", "delete", "bypass"}
  /\ \E s \in SUBSET {v \in page : ~Locked(v)} :
       versions' = IF pc = "delete" THEN versions \ s ELSE versions
  /\ faulty' = TRUE
  /\ logged' = TRUE
  /\ EmptyingEnds
  /\ UNCHANGED <<exists, objectLock, lock, expired, bodyVars, pageVars, late>>

\* A variant of Drop: every refusal is taken for a bucket that is gone.
DropQuietly ==
  /\ pc = "drop"
  /\ pc' = "done"
  /\ exists' = (exists /\ versions # {})
  /\ UNCHANGED <<versions, objectLock, lock, expired, bodyVars, pageVars, left,
                 logged, historyVars>>

\* DeleteBucket.  A bucket that is gone already is fine, one that is not empty
\* is a problem.
Drop ==
  /\ pc = "drop"
  /\ pc' = "done"
  /\ exists' = (exists /\ versions # {})
  /\ logged' = (logged \/ exists')
  /\ UNCHANGED <<versions, objectLock, lock, expired, bodyVars, pageVars, left, historyVars>>

DropThrottled ==
  /\ pc = "drop"
  /\ left > 0
  /\ left' = left - 1
  /\ UNCHANGED <<serverVars, bodyVars, pc, pageVars, logged, historyVars>>

DropFails ==
  /\ pc = "drop"
  /\ pc' = "done"
  /\ exists' \in {exists, exists /\ versions # {}}
  /\ faulty' = TRUE
  /\ logged' = TRUE
  /\ UNCHANGED <<versions, objectLock, lock, expired, bodyVars, pageVars, left, late>>

-----------------------------------------------------------------------------

Body == \/ CreateSucceeds \/ CreateThrottled \/ CreateFails
        \/ BodyWrites \/ BodyDrops \/ BodyEnds

Nuke == \/ BucketGone \/ List \/ ListEmpty \/ Delete \/ Bypass \/ BypassRejected
        \/ ReadRetention \/ Wait \/ Throttled \/ EmptyingFails
        \/ Drop \/ DropThrottled \/ DropFails

Next == Body \/ Expire \/ Start \/ Nuke

Spec == Init /\ [][Next]_vars

\* Every request is answered, be it by a timeout of the client, and every
\* timer fires.
FairSpec == Spec /\ WF_vars(Nuke)

-----------------------------------------------------------------------------
(* Properties.                                                             *)

\* No leak is silent: if the bucket survives its cleanup then a problem was
\* logged, also when an abandoned body fills the bucket meanwhile (nuke).
NoSilentLeak == pc = "done" /\ exists => logged

\* The bucket survives its cleanup only for a reason that is not the
\* fixture's: a call failed for good, the body was still writing, or a version
\* is locked for longer than maxRetentionWait.  Throttling, pages, governance
\* and short compliance locks, and buckets without object lock, are all coped
\* with (nuke, deleteObjects, deleteVersions, retryThrottled).
RemovedUnlessRefused ==
  pc = "done" /\ ~faulty /\ ~late /\ (\A v \in written : lock[v] # "long")
    => ~exists

\* nuke() ends by itself, although its context is never canceled, the server
\* may throttle every request and the body may go on writing (retryThrottled,
\* deleteObjects).
NukeEnds == pc # "idle" ~> pc = "done"
=============================================================================

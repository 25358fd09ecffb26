---------------------------- MODULE Fixture_proofs ----------------------------
(***************************************************************************)
(* Proofs about Fixture: typing, that no leak is silent, and that a bucket *)
(* is removed unless the server refuses, for any number of versions and    *)
(* any retry budget.                                                       *)
(***************************************************************************)
EXTENDS Fixture, TLAPS

\* The cleanup runs only for a bucket that was created and registered, so that
\* a bucket that is gone does not come back.
StartInv ==
  /\ pc # "idle" => registered
  /\ registered => body # "creating"

\* The server holds what the body wrote, and locks only in a bucket made for
\* them.
LockInv ==
  /\ versions \subseteq written
  /\ objectLock \/ \A v \in Version : lock[v] = "none"

\* Nothing has happened that excuses a bucket from being removed.
Quiet == ~faulty /\ ~late /\ \A v \in written : lock[v] # "long"

\* What is left below the marker is waited for: a first pass leaves versions
\* under a short lock and knows, a second pass leaves nothing.
MarkerInv ==
  pc \in {"list", "delete", "bypass", "retention"} =>
    /\ until \in {"zero", "short"}
    /\ \A v \in versions : v <= marker => lock[v] = "short" /\ pass = 1 /\ until = "short"

\* The page in hand holds what lies between the marker and the next one, and
\* nothing lies beyond if it is the last.
PageInv ==
  pc \in {"delete", "bypass", "retention"} =>
    /\ marker < next
    /\ more \/ \A v \in versions : v <= next
    /\ pc = "delete" => page = {v \in versions : marker < v /\ v <= next}
    /\ pc \in {"bypass", "retention"} =>
         refused # {} /\ refused = {v \in versions : marker < v /\ v <= next}
    /\ pc = "bypass" => \A v \in refused : lock[v] # "none"
    /\ pc = "retention" => pass = 1 /\ \A v \in refused : lock[v] = "short"

\* What is waited for expires, and the rest has been deleted.
EndInv ==
  /\ pc = "wait" => \A v \in versions : lock[v] = "short"
  /\ pc = "drop" => versions = {}
  /\ pc # "done"

NukeInv ==
  /\ pass = 2 => expired
  /\ pc # "idle" /\ exists /\ Quiet => MarkerInv /\ PageInv /\ EndInv

FixtureInv == TypeOK /\ StartInv /\ LockInv /\ NukeInv /\ NoSilentLeak

-----------------------------------------------------------------------------
\* The end of a pass keeps the types of what deleteObjects works with
\* (deleteObjects).
LEMMA EndPassType ==
  ASSUME NukeType, HistoryType, NEW u \in {"zero", "short", "long"}, EndPass(u)
  PROVE  /\ pc' \in {"wait", "drop"}
         /\ pass' = pass
         /\ marker' = marker
         /\ until' = u
         /\ left' \in 0..Budget
         /\ logged' \in BOOLEAN
<1>1. CASE pass = 1 /\ u = "short"
  BY <1>1 DEF NukeType, HistoryType, EndPass
<1>2. CASE ~(pass = 1 /\ u = "short")
  <2>1. EmptyingEnds /\ logged' = (logged \/ (pass = 1 /\ u = "long"))
    BY <1>2 DEF EndPass
  <2>2. logged' \in BOOLEAN
    BY <2>1 DEF HistoryType
  <2> QED BY <2>1, <2>2, FixtureAssumption DEF EndPass, EmptyingEnds
<1> QED BY <1>1, <1>2

\* So does the end of a page, be it the last of a pass or not (deleteVersions).
LEMMA EndPageType ==
  ASSUME NukeType, HistoryType, NEW u \in {"zero", "short", "long"}, EndPage(u)
  PROVE  /\ pc' \in {"list", "wait", "drop"}
         /\ pass' \in {1, 2}
         /\ marker' \in 0..NVersions
         /\ until' \in {"zero", "short", "long"}
         /\ left' \in 0..Budget
         /\ logged' \in BOOLEAN
<1>1. CASE more
  BY <1>1 DEF NukeType, HistoryType, EndPage
<1>2. CASE ~more
  <2>1. EndPass(u)
    BY <1>2 DEF EndPage
  <2> QED BY <2>1, EndPassType DEF NukeType
<1> QED BY <1>1, <1>2

\* The initial states are typed (createBucket).
LEMMA InitType == Init => TypeOK
<1> SUFFICES ASSUME Init PROVE TypeOK
  OBVIOUS
<1>1. lock \in [Version -> Lock]
  BY DEF Init, Lock
<1>2. ServerType
  BY <1>1 DEF Init, ServerType
<1>3. BodyType
  BY DEF Init, BodyType
<1>4. NukeType
  <2>1. 0 \in 0..NVersions /\ Budget \in 0..Budget
    BY FixtureAssumption
  <2> QED BY <2>1 DEF Init, NukeType
<1>5. HistoryType
  BY DEF Init, HistoryType
<1> QED BY <1>2, <1>3, <1>4, <1>5 DEF TypeOK

\* The steps of the test body keep every type (createBucket).
LEMMA BodyTyped == TypeOK /\ (Body \/ Expire) => TypeOK'
<1> SUFFICES ASSUME TypeOK, Body \/ Expire PROVE TypeOK'
  OBVIOUS
<1> USE FixtureAssumption
        DEF TypeOK, ServerType, BodyType, NukeType, HistoryType,
            serverVars, bodyVars, pageVars, historyVars
<1>1. CASE CreateSucceeds
  BY <1>1 DEF CreateSucceeds
<1>2. CASE CreateThrottled
  BY <1>2 DEF CreateThrottled
<1>3. CASE CreateFails
  BY <1>3 DEF CreateFails
<1>4. CASE BodyWrites
  BY <1>4 DEF BodyWrites
<1>5. CASE BodyDrops
  <2>1. ServerType'
    BY <1>5 DEF BodyDrops
  <2>2. BodyType' /\ NukeType' /\ HistoryType'
    BY <1>5 DEF BodyDrops
  <2> QED BY <2>1, <2>2
<1>6. CASE BodyEnds
  BY <1>6 DEF BodyEnds
<1>7. CASE Expire
  BY <1>7 DEF Expire
<1> QED BY <1>1, <1>2, <1>3, <1>4, <1>5, <1>6, <1>7 DEF Body

\* The steps of nuke() keep every type (nuke, deleteObjects, deleteVersions).
LEMMA NukeTyped == TypeOK /\ (Start \/ Nuke) => TypeOK'
<1> SUFFICES ASSUME TypeOK, Start \/ Nuke PROVE TypeOK'
  OBVIOUS
<1> USE FixtureAssumption
        DEF TypeOK, ServerType, BodyType, NukeType, HistoryType,
            serverVars, bodyVars, pageVars, historyVars
<1>1. CASE Start
  BY <1>1 DEF Start, BeginPass
<1>2. CASE BucketGone
  BY <1>2 DEF BucketGone, EmptyingEnds
<1>3. CASE List
  BY <1>3 DEF List
<1>4. CASE ListEmpty
  BY <1>4, EndPassType DEF ListEmpty
<1>5. CASE Delete
  <2>1. refused' \subseteq Version /\ versions' \subseteq Version /\ faulty' \in BOOLEAN
    BY <1>5 DEF Delete, Refuse
  <2>2. CASE refused' = {}
    <3>1. EndPage(until)
      BY <1>5, <2>2 DEF Delete
    <3> QED BY <1>5, <2>1, <3>1, EndPageType DEF Delete
  <2>3. CASE refused' # {}
    BY <1>5, <2>1, <2>3 DEF Delete
  <2> QED BY <2>2, <2>3
<1>6. CASE Bypass
  <2>1. refused' \subseteq Version /\ versions' \subseteq Version /\ faulty' \in BOOLEAN
    BY <1>6 DEF Bypass, Refuse
  <2>2. CASE refused' = {}
    <3>1. EndPage(until)
      BY <1>6, <2>2 DEF Bypass
    <3> QED BY <1>6, <2>1, <3>1, EndPageType DEF Bypass
  <2>3. CASE refused' # {}
    BY <1>6, <2>1, <2>3 DEF Bypass
  <2> QED BY <2>2, <2>3
<1>7. CASE BypassRejected
  BY <1>7 DEF BypassRejected, EmptyingEnds
<1>8. CASE ReadRetention
  <2>1. PICK known \in SUBSET refused :
          EndPage(Latest(until, known)) /\ faulty' = (faulty \/ known # refused)
    BY <1>8 DEF ReadRetention
  <2>2. Latest(until, known) \in {"zero", "short", "long"}
    BY DEF Latest
  <2> QED BY <1>8, <2>1, <2>2, EndPageType DEF ReadRetention
<1>9. CASE Wait
  BY <1>9 DEF Wait, BeginPass
<1>10. CASE Throttled
  BY <1>10 DEF Throttled, BeginPass
<1>11. CASE EmptyingFails
  BY <1>11 DEF EmptyingFails, EmptyingEnds
<1>12. CASE Drop
  BY <1>12 DEF Drop
<1>13. CASE DropThrottled
  BY <1>13 DEF DropThrottled
<1>14. CASE DropFails
  BY <1>14 DEF DropFails
<1> QED BY <1>1, <1>2, <1>3, <1>4, <1>5, <1>6, <1>7, <1>8, <1>9, <1>10, <1>11, <1>12,
           <1>13, <1>14 DEF Nuke
\* The test body and the server keep the invariant (createBucket).
LEMMA BodyKeeps == FixtureInv /\ (Body \/ Expire) => FixtureInv'
<1> SUFFICES ASSUME FixtureInv, Body \/ Expire PROVE FixtureInv'
  OBVIOUS
<1>1. TypeOK'
  BY BodyTyped DEF FixtureInv
<1>2. UNCHANGED <<pc, pass, marker, next, more, page, refused, until, objectLock, lock>>
  BY DEF Body, CreateSucceeds, CreateThrottled, CreateFails, BodyWrites, BodyDrops,
         BodyEnds, Expire, serverVars, bodyVars, pageVars
<1>3. StartInv' /\ LockInv'
  BY DEF FixtureInv, StartInv, LockInv, TypeOK, BodyType, Body, CreateSucceeds,
         CreateThrottled, CreateFails, BodyWrites, BodyDrops, BodyEnds, Expire,
         serverVars, bodyVars, pageVars
<1>4. pc # "idle" => (exists' => exists) /\ (Quiet' => Quiet /\ versions' = versions)
  BY DEF FixtureInv, StartInv, Quiet, TypeOK, BodyType, HistoryType, Body, CreateSucceeds,
         CreateThrottled, CreateFails, BodyWrites, BodyDrops, BodyEnds, Expire,
         serverVars, bodyVars, pageVars, historyVars
<1>5. expired => expired'
  BY DEF Body, CreateSucceeds, CreateThrottled, CreateFails, BodyWrites, BodyDrops,
         BodyEnds, Expire, serverVars, bodyVars, pageVars
<1>6. NukeInv'
  BY <1>2, <1>4, <1>5 DEF FixtureInv, NukeInv, MarkerInv, PageInv, EndInv
<1>7. logged' = logged
  BY DEF Body, CreateSucceeds, CreateThrottled, CreateFails, BodyWrites, BodyDrops,
         BodyEnds, Expire, serverVars, bodyVars, pageVars, historyVars
<1>8. NoSilentLeak'
  BY <1>2, <1>4, <1>7 DEF FixtureInv, NoSilentLeak
<1> QED BY <1>1, <1>3, <1>6, <1>8 DEF FixtureInv

\* Under what nuke() leaves alone, a bucket is quiet after a step only if it
\* was before.
LEMMA QuietBefore ==
  ASSUME UNCHANGED <<lock, written, late>>, faulty => faulty', Quiet'
  PROVE  Quiet
BY DEF Quiet

\* What every step of nuke() leaves alone (nuke).
LEMMA NukeLeaves ==
  ASSUME TypeOK, Start \/ Nuke
  PROVE  /\ UNCHANGED <<objectLock, lock, body, written, registered, late>>
         /\ versions' \subseteq versions
         /\ exists' => exists
         /\ expired => expired'
         /\ faulty => faulty'
<1> USE DEF serverVars, bodyVars, pageVars, historyVars
<1>1. CASE Start \/ Throttled
  BY <1>1 DEF Start, Throttled
<1>2. CASE Wait
  BY <1>2 DEF Wait
<1>3. CASE BucketGone \/ BypassRejected
  BY <1>3 DEF BucketGone, BypassRejected
<1>4. CASE List
  <2>1. UNCHANGED <<serverVars, bodyVars, historyVars>>
    BY <1>4 DEF List
  <2> QED BY <2>1
<1>5. CASE ListEmpty
  BY <1>5 DEF ListEmpty
<1>6. CASE ReadRetention
  <2>1. PICK known \in SUBSET refused : faulty' = (faulty \/ known # refused)
    BY <1>6 DEF ReadRetention
  <2>2. faulty => faulty'
    BY <2>1 DEF TypeOK, HistoryType
  <2> QED BY <1>6, <2>2 DEF ReadRetention
<1>7. CASE Delete \/ Bypass
  BY <1>7 DEF Delete, Bypass, Refuse, TypeOK, HistoryType
<1>8. CASE EmptyingFails
  BY <1>8 DEF EmptyingFails
<1>9. CASE Drop \/ DropThrottled \/ DropFails
  BY <1>9 DEF Drop, DropThrottled, DropFails, TypeOK, ServerType, HistoryType
<1> QED BY <1>1, <1>2, <1>3, <1>4, <1>5, <1>6, <1>7, <1>8, <1>9 DEF Nuke

\* nuke() ends only with a problem logged if the bucket is still there (nuke).
LEMMA NukeLogs == FixtureInv /\ (Start \/ Nuke) => NoSilentLeak'
<1> SUFFICES ASSUME FixtureInv, Start \/ Nuke PROVE NoSilentLeak'
  OBVIOUS
<1> USE DEF serverVars, bodyVars, pageVars, historyVars
<1>1. CASE Drop
  BY <1>1 DEF Drop, NoSilentLeak
<1>2. CASE DropFails
  BY <1>2 DEF DropFails, NoSilentLeak
<1>3. CASE ~(Drop \/ DropFails)
  <2>1. pc' # "done"
    <3>1. CASE Start \/ BucketGone \/ List \/ BypassRejected \/ Wait \/ Throttled
                 \/ EmptyingFails \/ DropThrottled
      BY <3>1 DEF Start, BucketGone, List, BypassRejected, Wait, Throttled, EmptyingFails,
                  DropThrottled, BeginPass, EmptyingEnds
    <3>2. CASE ListEmpty
      BY <3>2 DEF ListEmpty, EndPass, EmptyingEnds
    <3>3. CASE Delete \/ Bypass
      BY <3>3 DEF Delete, Bypass, EndPage, EndPass, EmptyingEnds
    <3>4. CASE ReadRetention
      BY <3>4 DEF ReadRetention, EndPage, EndPass, EmptyingEnds
    <3> QED BY <1>3, <3>1, <3>2, <3>3, <3>4 DEF Nuke
  <2> QED BY <2>1 DEF NoSilentLeak
<1> QED BY <1>1, <1>2, <1>3

-----------------------------------------------------------------------------
\* At the end of a page whose versions are gone, or are all under a short lock
\* that a first pass knows of, nuke() goes on as its invariant says
\* (deleteVersions, deleteObjects).
LEMMA EndPageKeeps ==
  ASSUME TypeOK, NEW u \in {"zero", "short"}, EndPage(u),
         \A v \in versions' : v <= next => lock[v] = "short" /\ pass = 1 /\ u = "short",
         more \/ \A v \in versions' : v <= next,
         lock' = lock
  PROVE  MarkerInv' /\ PageInv' /\ EndInv'
<1>1. CASE more
  BY <1>1 DEF EndPage, MarkerInv, PageInv, EndInv
<1>2. CASE ~more
  <2>1. EndPass(u) /\ \A v \in versions' : lock[v] = "short" /\ pass = 1 /\ u = "short"
    BY <1>2 DEF EndPage
  <2>2. CASE pass = 1 /\ u = "short"
    BY <2>1, <2>2 DEF EndPass, MarkerInv, PageInv, EndInv
  <2>3. CASE ~(pass = 1 /\ u = "short")
    <3>1. versions' = {} /\ pc' = "drop"
      BY <2>1, <2>3 DEF EndPass, EmptyingEnds
    <3> QED BY <3>1 DEF MarkerInv, PageInv, EndInv
  <2> QED BY <2>2, <2>3
<1> QED BY <1>1, <1>2

\* A new pass has nothing below its marker (deleteVersions).
LEMMA BeginPassKeeps ==
  ASSUME TypeOK, NEW n \in {1, 2}, BeginPass(n), versions' \subseteq versions
  PROVE  MarkerInv' /\ PageInv' /\ EndInv'
<1>1. \A v \in versions' : ~(v <= 0)
  BY DEF TypeOK, ServerType, Version
<1> QED BY <1>1 DEF BeginPass, MarkerInv, PageInv, EndInv

\* If nothing excuses it then the server refuses exactly what is locked
\* (deleteBatch).
LEMMA RefusedIsLocked ==
  ASSUME TypeOK, NEW s, NEW w, w \subseteq s, Refuse(s, w), ~faulty'
  PROVE  refused' = w /\ versions' = versions \ (s \ w)
BY DEF Refuse

\* Every step of nuke() goes on as the invariant says (nuke, deleteObjects,
\* deleteVersions).
LEMMA NukeKeeps ==
  ASSUME FixtureInv, Start \/ Nuke, exists', Quiet'
  PROVE  MarkerInv' /\ PageInv' /\ EndInv'
<1>1. /\ UNCHANGED <<objectLock, lock, written, late>>
      /\ versions' \subseteq versions
      /\ exists /\ (faulty => faulty')
  BY NukeLeaves DEF FixtureInv
<1>2. Quiet
  BY <1>1, QuietBefore
<1>3. TypeOK /\ LockInv
  BY DEF FixtureInv
<1>4. pc # "idle" => MarkerInv /\ PageInv /\ EndInv
  BY <1>1, <1>2 DEF FixtureInv, NukeInv
<1>5. pass = 2 => expired
  BY DEF FixtureInv, NukeInv
<1>6. \A v \in versions : lock[v] \in {"none", "governance", "short"}
  BY <1>2, <1>3 DEF Quiet, LockInv, TypeOK, ServerType, Lock
<1>7. ~faulty'
  BY DEF Quiet
<1>8. marker \in Int /\ next \in Int /\ pass \in {1, 2} /\ \A v \in versions : v \in Int
  BY <1>3 DEF TypeOK, ServerType, NukeType, Version
<1>9. CASE Start
  BY <1>3, <1>9, BeginPassKeeps DEF Start, serverVars
<1>10. CASE BucketGone
  BY <1>1, <1>10 DEF BucketGone
<1>11. CASE List
  <2>1. MarkerInv
    BY <1>4, <1>11 DEF List
  <2>2. PICK m \in (marker + 1)..NVersions :
          /\ next' = m
          /\ page' = {v \in versions : marker < v /\ v <= m}
          /\ more' = (\E v \in versions : v > m)
    BY <1>11 DEF List
  <2>3. versions' = versions /\ pc' = "delete" /\ UNCHANGED <<marker, pass, until>>
    BY <1>11 DEF List, serverVars
  <2>4. marker' < next' /\ (more' \/ \A v \in versions' : v <= next')
    BY <1>8, <2>2, <2>3
  <2>5. MarkerInv'
    BY <1>1, <1>11, <2>1, <2>3 DEF MarkerInv, List
  <2>6. PageInv'
    BY <2>2, <2>3, <2>4 DEF PageInv
  <2> QED BY <2>3, <2>5, <2>6 DEF EndInv
<1>12. CASE ListEmpty
  <2>1. MarkerInv /\ EndPass(until) /\ versions' = versions
    BY <1>4, <1>12 DEF ListEmpty, serverVars
  <2>2. \A v \in versions : lock[v] = "short" /\ pass = 1 /\ until = "short"
    BY <1>12, <2>1 DEF ListEmpty, MarkerInv
  <2>3. CASE pass = 1 /\ until = "short"
    BY <1>1, <2>1, <2>2, <2>3 DEF EndPass, MarkerInv, PageInv, EndInv
  <2>4. CASE ~(pass = 1 /\ until = "short")
    BY <2>1, <2>2, <2>4 DEF EndPass, EmptyingEnds, MarkerInv, PageInv, EndInv
  <2> QED BY <2>3, <2>4
<1>13. CASE Delete
  <2> DEFINE w == {v \in page : Locked(v)}
  <2>1. MarkerInv /\ PageInv
    BY <1>4, <1>13 DEF Delete
  <2>2. refused' = w /\ versions' = versions \ (page \ w)
    BY <1>3, <1>7, <1>13, RefusedIsLocked DEF Delete
  <2>3. page = {v \in versions : marker < v /\ v <= next} /\ marker < next
    BY <1>13, <2>1 DEF Delete, PageInv
  <2>4. \A v \in versions' : v <= marker \/ v \in w \/ v > next
    BY <1>8, <2>2, <2>3
  <2>5. CASE w = {}
    <3>1. EndPage(until) /\ until \in {"zero", "short"}
      BY <1>13, <2>1, <2>2, <2>5 DEF Delete, MarkerInv
    <3>2. \A v \in versions' : v <= next => lock[v] = "short" /\ pass = 1 /\ until = "short"
      BY <1>1, <1>8, <1>13, <2>1, <2>4, <2>5 DEF MarkerInv, Delete
    <3>3. more \/ \A v \in versions' : v <= next
      BY <1>1, <1>13, <2>1 DEF PageInv, Delete
    <3> QED BY <1>1, <1>3, <3>1, <3>2, <3>3, EndPageKeeps
  <2>6. CASE w # {}
    <3>1. pc' = "bypass" /\ UNCHANGED <<pass, marker, until, next, more>>
      BY <1>13, <2>2, <2>6 DEF Delete
    <3>2. refused' = {v \in versions' : marker < v /\ v <= next}
      BY <1>1, <1>8, <2>2, <2>3, <2>4
    <3>3. \A v \in refused' : lock'[v] # "none"
      BY <1>1, <2>2 DEF Locked
    <3>4. MarkerInv'
      BY <1>1, <1>13, <2>1, <3>1 DEF MarkerInv, Delete
    <3>5. more' \/ \A v \in versions' : v <= next'
      BY <1>1, <1>13, <2>1, <3>1 DEF PageInv, Delete
    <3>6. PageInv'
      BY <2>2, <2>3, <2>6, <3>1, <3>2, <3>3, <3>5 DEF PageInv
    <3> QED BY <3>1, <3>4, <3>6 DEF EndInv
  <2> QED BY <2>5, <2>6
<1>14. CASE Bypass
  <2> DEFINE w == {v \in refused : Retained(v)}
  <2>1. MarkerInv /\ PageInv
    BY <1>4, <1>14 DEF Bypass
  <2>2. refused' = w /\ versions' = versions \ (refused \ w)
    BY <1>3, <1>7, <1>14, RefusedIsLocked DEF Bypass
  <2>3. refused = {v \in versions : marker < v /\ v <= next} /\ marker < next
    BY <1>14, <2>1 DEF Bypass, PageInv
  <2>4. \A v \in versions' : v <= marker \/ v \in w \/ v > next
    BY <1>8, <2>2, <2>3
  <2>5. \A v \in w : lock[v] = "short" /\ pass = 1
    BY <1>5, <1>6, <1>8, <2>3 DEF Retained, Locked
  <2>6. CASE w = {}
    <3>1. EndPage(until) /\ until \in {"zero", "short"}
      BY <1>14, <2>1, <2>2, <2>6 DEF Bypass, MarkerInv
    <3>2. \A v \in versions' : v <= next => lock[v] = "short" /\ pass = 1 /\ until = "short"
      BY <1>1, <1>8, <1>14, <2>1, <2>4, <2>6 DEF MarkerInv, Bypass
    <3>3. more \/ \A v \in versions' : v <= next
      BY <1>1, <1>14, <2>1 DEF PageInv, Bypass
    <3> QED BY <1>1, <1>3, <3>1, <3>2, <3>3, EndPageKeeps
  <2>7. CASE w # {}
    <3>1. pc' = "retention" /\ UNCHANGED <<pass, marker, until, next, more>>
      BY <1>14, <2>2, <2>7 DEF Bypass
    <3>2. refused' = {v \in versions' : marker < v /\ v <= next}
      BY <1>1, <1>8, <2>2, <2>3, <2>4
    <3>3. pass' = 1 /\ \A v \in refused' : lock'[v] = "short"
      BY <1>1, <2>2, <2>5, <2>7, <3>1
    <3>4. MarkerInv'
      BY <1>1, <1>14, <2>1, <3>1 DEF MarkerInv, Bypass
    <3>5. more' \/ \A v \in versions' : v <= next'
      BY <1>1, <1>14, <2>1, <3>1 DEF PageInv, Bypass
    <3>6. PageInv'
      BY <2>2, <2>3, <2>7, <3>1, <3>2, <3>3, <3>5 DEF PageInv
    <3> QED BY <3>1, <3>4, <3>6 DEF EndInv
  <2> QED BY <2>6, <2>7
<1>15. CASE BypassRejected
  <2>1. PICK v \in refused : v \in versions /\ lock[v] # "none"
    BY <1>4, <1>15 DEF BypassRejected, PageInv
  <2> QED BY <1>3, <1>15, <2>1 DEF BypassRejected, LockInv, TypeOK, ServerType
<1>16. CASE ReadRetention
  <2>1. MarkerInv /\ PageInv
    BY <1>4, <1>16 DEF ReadRetention
  <2>2. EndPage(Latest(until, refused)) /\ UNCHANGED <<versions, next, more>>
    BY <1>7, <1>16 DEF ReadRetention, serverVars
  <2>3. /\ refused # {} /\ refused = {v \in versions : marker < v /\ v <= next}
        /\ pass = 1 /\ \A v \in refused : lock[v] = "short"
        /\ more \/ \A v \in versions : v <= next
    BY <1>16, <2>1 DEF PageInv, ReadRetention
  <2>4. until # "long" /\ \A v \in versions : v <= marker => lock[v] = "short"
    BY <1>16, <2>1 DEF MarkerInv, ReadRetention
  <2>5. Latest(until, refused) = "short"
    BY <2>3, <2>4 DEF Latest
  <2>6. \A v \in versions : v <= next => lock[v] = "short"
    BY <1>8, <2>3, <2>4
  <2> QED BY <1>1, <1>3, <2>2, <2>3, <2>5, <2>6, EndPageKeeps
<1>17. CASE Wait
  BY <1>1, <1>3, <1>17, BeginPassKeeps DEF Wait
<1>18. CASE Throttled
  BY <1>1, <1>3, <1>18, BeginPassKeeps DEF Throttled
<1>19. CASE EmptyingFails
  BY <1>7, <1>19 DEF EmptyingFails
<1>20. CASE Drop
  BY <1>4, <1>20 DEF Drop, EndInv
<1>21. CASE DropThrottled
  BY <1>4, <1>21 DEF DropThrottled, MarkerInv, PageInv, EndInv, serverVars, pageVars
<1>22. CASE DropFails
  BY <1>7, <1>22 DEF DropFails
<1> QED BY <1>9, <1>10, <1>11, <1>12, <1>13, <1>14, <1>15, <1>16, <1>17, <1>18, <1>19,
           <1>20, <1>21, <1>22 DEF Nuke

-----------------------------------------------------------------------------
\* The invariant holds initially (createBucket).
LEMMA InitInv == Init => FixtureInv
<1> SUFFICES ASSUME Init PROVE FixtureInv
  OBVIOUS
<1>1. TypeOK
  BY InitType
<1>2. StartInv /\ LockInv
  BY DEF Init, StartInv, LockInv
<1>3. NukeInv /\ NoSilentLeak
  BY DEF Init, NukeInv, NoSilentLeak
<1> QED BY <1>1, <1>2, <1>3 DEF FixtureInv

\* Every step keeps the invariant (createBucket, nuke).
LEMMA NextInv == FixtureInv /\ [Next]_vars => FixtureInv'
<1> SUFFICES ASSUME FixtureInv, [Next]_vars PROVE FixtureInv'
  OBVIOUS
<1>1. CASE Body \/ Expire
  BY <1>1, BodyKeeps
<1>2. CASE Start \/ Nuke
  <2>1. TypeOK'
    BY <1>2, NukeTyped DEF FixtureInv
  <2>2. /\ UNCHANGED <<objectLock, lock, body, written, registered, late>>
        /\ versions' \subseteq versions
        /\ exists' => exists
        /\ expired => expired'
    BY <1>2, NukeLeaves DEF FixtureInv
  <2>3. registered
    BY <1>2 DEF FixtureInv, StartInv, Nuke, Start, BucketGone, List, ListEmpty, Delete, Bypass,
       BypassRejected, ReadRetention, Wait, Throttled, EmptyingFails, Drop, DropThrottled,
       DropFails
  <2>4. StartInv' /\ LockInv'
    BY <2>2, <2>3 DEF FixtureInv, StartInv, LockInv
  <2>5. pass' = 2 => expired'
    <3>1. CASE Start \/ Throttled
      BY <3>1 DEF Start, Throttled, BeginPass
    <3>2. CASE Wait
      BY <3>2 DEF Wait
    <3>3. CASE ~(Start \/ Throttled \/ Wait)
      <4>1. pass' = pass
        <5>1. CASE BucketGone \/ List \/ ListEmpty \/ BypassRejected
          BY <5>1 DEF BucketGone, List, ListEmpty, BypassRejected, EndPass, EmptyingEnds, pageVars
        <5>2. CASE Delete \/ Bypass
          BY <5>2 DEF Delete, Bypass, EndPage, EndPass, EmptyingEnds
        <5>3. CASE ReadRetention
          BY <5>3 DEF ReadRetention, EndPage, EndPass, EmptyingEnds
        <5>4. CASE EmptyingFails \/ Drop \/ DropThrottled \/ DropFails
          BY <5>4 DEF EmptyingFails, Drop, DropThrottled, DropFails, pageVars
        <5> QED BY <1>2, <3>3, <5>1, <5>2, <5>3, <5>4 DEF Nuke
      <4> QED BY <2>2, <4>1 DEF FixtureInv, NukeInv
    <3> QED BY <3>1, <3>2, <3>3
  <2>6. NukeInv'
    BY <1>2, <2>5, NukeKeeps DEF NukeInv
  <2> QED BY <1>2, <2>1, <2>4, <2>6, NukeLogs DEF FixtureInv
<1>3. CASE UNCHANGED vars
  BY <1>3 DEF FixtureInv, TypeOK, ServerType, BodyType, NukeType, HistoryType, StartInv,
     LockInv, NukeInv, Quiet, MarkerInv, PageInv, EndInv, NoSilentLeak,
     vars, serverVars, bodyVars, pageVars, historyVars
<1> QED BY <1>1, <1>2, <1>3 DEF Next

\* FixtureInv is an invariant of the bucket's life (createBucket, nuke).
THEOREM Invariant == Spec => []FixtureInv
BY InitInv, NextInv, PTL DEF Spec

\* Every variable keeps its type, for any number of versions and any budget
\* (createBucket, nuke).
THEOREM TypeCorrect == Spec => []TypeOK
<1>1. FixtureInv => TypeOK
  BY DEF FixtureInv
<1> QED BY <1>1, Invariant, PTL

\* A bucket that survives its cleanup has a problem logged (nuke).
THEOREM NoSilentLeakAlways == Spec => []NoSilentLeak
<1>1. FixtureInv => NoSilentLeak
  BY DEF FixtureInv
<1> QED BY <1>1, Invariant, PTL

\* A bucket survives its cleanup only if a call failed for good, the body was
\* still writing or a version is locked for long (nuke, deleteObjects,
\* deleteVersions, retryThrottled).
THEOREM RemovedUnlessRefusedAlways == Spec => []RemovedUnlessRefused
<1>1. FixtureInv => RemovedUnlessRefused
  BY DEF FixtureInv, NukeInv, Quiet, EndInv, RemovedUnlessRefused
<1> QED BY <1>1, Invariant, PTL
=============================================================================

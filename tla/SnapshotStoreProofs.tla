------------------------- MODULE SnapshotStoreProofs --------------------------
(***************************************************************************)
(* What holds of SnapshotStore for all jobs, attempts, hashes and faults.  *)
(* Nothing locks a hash; the argument is that the history variable clashed *)
(* sees every overlap, so that on other hashes one actor at most is        *)
(* between its first and its last step (Alone), and what an actor finds    *)
(* there is what it left itself a step ago.                                *)
(***************************************************************************)
EXTENDS SnapshotStore, TLAPS

Import == {"upload", "lookup", "inspect", "clear", "extract", "extracting", "clone", "cloning",
           "commit"}
Busy == Import \cup {"archive", "refresh", "forget", "remove", "clean", "wiping"}

\* One actor at most is busy with the files of a hash that is not clashed.
Alone ==
  \A x, y \in Actors :
    Sha(x) = Sha(y) /\ Sha(x) \notin clashed /\ pc[x] \in Busy /\ pc[y] \in Busy => x = y

\* Deletions take no steps of an import, and imports none of a deletion.
Places ==
  /\ \A a \in Attempts : pc[a] \notin {"forget", "remove"}
  /\ \A j \in Jobs : pc[j] \in Ended \cup {"idle", "forget", "remove", "clean", "wiping"}

\* What an import may rely on from one step to the next.
Reliable(a) ==
  LET s == Sha(a) IN
  /\ pc[a] \in {"clear", "extract", "extracting"} => s \notin marked
  /\ pc[a] \in {"extracting", "cloning"} => a \notin torn
  /\ pc[a] = "clone" => shared[s] = "whole"
  /\ pc[a] = "commit" => copy[a] = "whole"

Mark(s) ==
  /\ s \in marked /\ AtStep(s, {"wiping"}) = {} => shared[s] = "whole"
  /\ \A a \in Attempts : Sha(a) = s => Reliable(a)
Marks == \A s \in Shas : Undisturbed(s) => Mark(s)

\* The clone of a project row was committed by an attempt of its job.
Late == Ended \cup {"refresh", "clean", "wiping", "unstage"}
Roots ==
  /\ \A j \in Jobs : \A a \in root[j] : JobOf[a] = j /\ pc[a] \in Late
  /\ \A j \in Jobs : project[j] = "none" => pc[j] = "idle"
  /\ \A j \in Jobs : project[j] # "none" => root[j] # {}

\* What the wipes have listed.
Listings ==
  /\ \A x \in Actors : listed[x] # {} => pc[x] \in Late \ {"refresh", "clean"}
  /\ \A x \in Actors : \A a \in listed[x] : Sha(a) = Sha(x)

\* What the deletions have counted: who is to wipe saw no other project.
Counts ==
  /\ \A k \in Jobs : pc[k] \in {"clean", "wiping"} => k \in last
  /\ \A k \in last : pc[k] # "idle"
  /\ \A k \in last, j \in Jobs :
       /\ pc[k] \in {"forget", "remove", "clean", "wiping"} /\ ShaOf[k] \notin clashed
       /\ ShaOf[j] = ShaOf[k] /\ project[j] = "live"
       => j = k
Lists == Listings /\ Counts

\* The files of a project stay whole.
KeptBy(j, a) ==
  /\ project[j] = "live" /\ pc[a] \in {"refresh", "done"} /\ pc[j] \in {"idle", "forget", "failed"}
  /\ Undisturbed(ShaOf[j]) /\ \A b \in Attempts : a \notin listed[b]
  => copy[a] = "whole"
Kept == \A j \in Jobs : \A a \in root[j] : KeptBy(j, a)

FileInv == TypeOK /\ Alone /\ Places /\ Marks /\ Roots /\ Lists /\ Kept

\* While nothing has failed, nobody is dead, a job has one attempt, which finds no
\* project of its job, and a project is live until its deletion forgets it.
Faultless ==
  faults = 0 =>
    /\ \A x \in Actors : pc[x] \notin {"dead", "cut"}
    /\ \A a \in Attempts : stray[a] = "no"
    /\ \A a, b \in Attempts : JobOf[a] = JobOf[b] /\ a # b => pc[a] = "idle" \/ pc[b] = "idle"
    /\ \A a \in Attempts : pc[a] \in Import \cup {"move", "mkdir", "archive"}
         => project[JobOf[a]] = "none"
    /\ \A j \in Jobs : project[j] = "live" => pc[j] \in {"idle", "forget"}

\* Whoever is to list the files of s yet, or to make them a project's.
ToCome(s) ==
  \/ \E a \in Attempts : Sha(a) = s /\ pc[a] \in Import \cup {"clean"}
  \/ \E j \in last : ShaOf[j] = s /\ pc[j] \in {"forget", "remove", "clean"}
InUse(s) == \E j \in Jobs : ShaOf[j] = s /\ project[j] = "live" /\ pc[j] = "idle"
\* Two deletions that leave the content to each other.
Crossed(s) ==
  \E j, k \in Jobs \ last :
    /\ j # k /\ ShaOf[j] = s /\ ShaOf[k] = s
    /\ project[j] = "gone" \/ pc[j] = "forget"
    /\ project[k] = "gone" \/ pc[k] = "forget"
Wiped(s) == \E x \in Actors : Sha(x) = s /\ pc[x] = "wiping" /\ ClonesOf(s) \subseteq listed[x]
Residue(s) == s \in archive \/ shared[s] # "none" \/ ClonesOf(s) # {}

CaredFor(s) == Residue(s) => ToCome(s) \/ InUse(s) \/ Crossed(s) \/ Wiped(s)
Cared == faults = 0 => \A s \in Shas : CaredFor(s)

\* The same of an object, whose key has the name of the archive in it.
Keyed(k) ==
  \/ \E a \in Attempts : Key(a) = k /\ pc[a] \in Import \cup {"clean"}
  \/ \E j \in last : Key(j) = k /\ pc[j] \in {"forget", "remove", "clean"}
  \/ \E j \in Jobs : Key(j) = k /\ project[j] = "live"
  \/ \E j \in Jobs \ last : Key(j) = k /\ project[j] = "gone"
ObjectCared == faults = 0 => \A k \in objects : Keyed(k)

IInv == FileInv /\ Faultless /\ Cared /\ ObjectCared

-----------------------------------------------------------------------------
\* Attempts and jobs are different actors; an attempt has the hash and the key of
\* its job.
LEMMA ActorFacts ==
  /\ \A a \in Attempts : a \in Actors /\ a \notin Jobs /\ JobOf[a] \in Jobs
                         /\ Sha(a) = ShaOf[JobOf[a]] /\ Key(a) = Key(JobOf[a])
  /\ \A j \in Jobs : j \in Actors /\ j \notin Attempts /\ Sha(j) = ShaOf[j]
  /\ \A x \in Actors : Sha(x) \in Shas /\ (x \in Attempts \/ x \in Jobs)
BY StoreAssumption DEF Actors, Sha, Shas, JobFor, Key

LEMMA KeyFacts == \A x \in Actors : Key(x) \in {Key(j) : j \in Jobs} /\ Key(x)[1] = Sha(x)
<1> SUFFICES ASSUME NEW x \in Actors PROVE Key(x) \in {Key(j) : j \in Jobs} /\ Key(x)[1] = Sha(x)
  OBVIOUS
<1>1. Key(x)[1] = Sha(x) BY DEF Key
<1>2. CASE x \in Jobs BY <1>1, <1>2
<1>3. CASE x \in Attempts BY <1>1, <1>3, ActorFacts
<1> QED BY <1>2, <1>3, ActorFacts

\* The types hold at first, and after every step.
LEMMA InitTypes == Init => TypeOK
BY StoreAssumption DEF Init, TypeOK, Extents, Steps, Ended, Actors

LEMMA MoveTypes ==
  ASSUME TypeOK, NEW x \in Actors, NEW s \in Steps, GoTo(x, s)
  PROVE  pc' \in [Actors -> Steps]
BY DEF TypeOK, GoTo

\* A step that nothing fails in, or a failure of some kind.
MayFail == UNCHANGED faults \/ \E kind : Fault(kind)

LEMMA FaultTypes ==
  ASSUME TypeOK, MayFail
  PROVE  faults' \in 0..MaxFaults
BY StoreAssumption DEF TypeOK, Fault, MayFail

\* Whoever is in the middle of writing files is an import.
LEMMA MidwayFacts ==
  ASSUME Places, NEW s
  PROVE  /\ Midway(s) \subseteq Attempts
         /\ Extracting(s) \subseteq Attempts /\ Cloning(s) \subseteq Attempts
BY DEF Places, Midway, Extracting, Cloning, AtStep, StrayAt, Actors, Ended

LEMMA InsertTypes ==
  ASSUME TypeOK, NEW a \in Attempts, Insert(a) \/ UNCHANGED rowVars
  PROVE  project' \in [Jobs -> {"none", "live", "gone"}] /\ root' \in [Jobs -> SUBSET Attempts]
BY ActorFacts DEF TypeOK, Insert, rowVars

LEMMA ImportTypes ==
  ASSUME TypeOK, Places, NEW a \in Attempts, ImportStep(a)
  PROVE  TypeOK'
<1> a \in Actors /\ JobOf[a] \in Jobs /\ Sha(a) \in Shas BY ActorFacts
<1>1. CASE Start(a)
  <2>1. pc' \in [Actors -> Steps] BY <1>1, MoveTypes DEF Start, Steps, Ended
  <2>2. faults' \in 0..MaxFaults BY <1>1, FaultTypes DEF MayFail, Start
  <2> QED BY <1>1, <2>1, <2>2 DEF TypeOK, Start, fileVars, rowVars
<1>2. CASE MoveStaged(a)
  <2>1. pc' \in [Actors -> Steps] BY <1>2, MoveTypes DEF MoveStaged, Steps, Ended
  <2>2. faults' \in 0..MaxFaults BY <1>2, FaultTypes DEF MayFail, MoveStaged
  <2>3. staged' \subseteq Jobs BY <1>2 DEF TypeOK, Extents, MoveStaged
  <2> QED BY <1>2, <2>1, <2>2, <2>3 DEF TypeOK, MoveStaged, fileVars, rowVars
<1>3. CASE MakeDir(a)
  <2>1. pc' \in [Actors -> Steps] BY <1>3, MoveTypes DEF MakeDir, Steps, Ended
  <2>2. faults' \in 0..MaxFaults BY <1>3, FaultTypes DEF MayFail, MakeDir
  <2>3. torn' \subseteq Attempts BY <1>3, MidwayFacts DEF TypeOK, Extents, MakeDir, Enter
  <2>4. clashed' \subseteq Shas BY <1>3 DEF TypeOK, Extents, MakeDir, Enter
  <2> QED BY <1>3, <2>1, <2>2, <2>3, <2>4 DEF TypeOK, MakeDir, fileVars, rowVars
<1>4. CASE StoreArchive(a)
  <2>1. pc' \in [Actors -> Steps] BY <1>4, MoveTypes DEF StoreArchive, Steps, Ended
  <2>2. faults' \in 0..MaxFaults BY <1>4, FaultTypes DEF MayFail, StoreArchive
  <2>3. archive' \subseteq Shas BY <1>4 DEF TypeOK, Extents, StoreArchive
  <2> QED BY <1>4, <2>1, <2>2, <2>3 DEF TypeOK, StoreArchive, fileVars, rowVars
<1>5. CASE Upload(a)
  <2>1. pc' \in [Actors -> Steps] BY <1>5, MoveTypes DEF Upload, Steps, Ended
  <2>2. faults' \in 0..MaxFaults BY <1>5, FaultTypes DEF MayFail, Upload
  <2>3. objects' \subseteq {Key(j) : j \in Jobs} BY <1>5, KeyFacts DEF TypeOK, Extents, Upload
  <2> QED BY <1>5, <2>1, <2>2, <2>3 DEF TypeOK, Upload, fileVars, rowVars
<1>6. CASE Lookup(a)
  <2>1. pc' \in [Actors -> Steps] BY <1>6, MoveTypes DEF Lookup, Steps, Ended
  <2>2. faults' \in 0..MaxFaults BY <1>6, FaultTypes DEF MayFail, Lookup
  <2> QED BY <1>6, <2>1, <2>2 DEF TypeOK, Lookup, fileVars, rowVars
<1>7. CASE Inspect(a)
  <2>1. pc' \in [Actors -> Steps] BY <1>7, MoveTypes DEF Inspect, Steps, Ended
  <2>2. faults' \in 0..MaxFaults BY <1>7, FaultTypes DEF MayFail, Inspect
  <2> QED BY <1>7, <2>1, <2>2 DEF TypeOK, Inspect, fileVars, rowVars
<1>8. CASE ClearRoot(a)
  <2>1. pc' \in [Actors -> Steps] BY <1>8, MoveTypes DEF ClearRoot, Steps, Ended
  <2>2. faults' \in 0..MaxFaults BY <1>8, FaultTypes DEF MayFail, ClearRoot
  <2>3. shared' \in [Shas -> Extents] BY <1>8 DEF TypeOK, Extents, ClearRoot
  <2>4. marked' \subseteq Shas BY <1>8 DEF TypeOK, Extents, ClearRoot
  <2>5. torn' \subseteq Attempts BY <1>8, MidwayFacts DEF TypeOK, Extents, ClearRoot
  <2> QED BY <1>8, <2>1, <2>2, <2>3, <2>4, <2>5 DEF TypeOK, ClearRoot, fileVars, rowVars
<1>9. CASE BeginExtract(a)
  <2>1. pc' \in [Actors -> Steps] BY <1>9, MoveTypes DEF BeginExtract, Steps, Ended
  <2>2. faults' \in 0..MaxFaults BY <1>9, FaultTypes DEF MayFail, BeginExtract
  <2>3. archive' \subseteq Shas BY <1>9 DEF TypeOK, Extents, BeginExtract
  <2>4. shared' \in [Shas -> Extents] BY <1>9 DEF TypeOK, Extents, BeginExtract
  <2>5. torn' \subseteq Attempts BY <1>9, MidwayFacts DEF TypeOK, Extents, BeginExtract
  <2> QED BY <1>9, <2>1, <2>2, <2>3, <2>4, <2>5 DEF TypeOK, BeginExtract, fileVars, rowVars
<1>10. CASE EndExtract(a)
  <2>1. pc' \in [Actors -> Steps] BY <1>10, MoveTypes DEF EndExtract, Steps, Ended
  <2>2. faults' \in 0..MaxFaults BY <1>10, FaultTypes DEF MayFail, EndExtract
  <2>3. shared' \in [Shas -> Extents] BY <1>10 DEF TypeOK, Extents, EndExtract
  <2>4. marked' \subseteq Shas BY <1>10 DEF TypeOK, Extents, EndExtract
  <2> QED BY <1>10, <2>1, <2>2, <2>3, <2>4 DEF TypeOK, EndExtract, fileVars, rowVars
<1>11. CASE BeginClone(a)
  <2>1. pc' \in [Actors -> Steps] BY <1>11, MoveTypes DEF BeginClone, Steps, Ended
  <2>2. faults' \in 0..MaxFaults BY <1>11, FaultTypes DEF MayFail, BeginClone
  <2>3. copy' \in [Attempts -> Extents] BY <1>11 DEF TypeOK, Extents, BeginClone
  <2>4. torn' \subseteq Attempts BY <1>11, MidwayFacts DEF TypeOK, Extents, BeginClone
  <2> QED BY <1>11, <2>1, <2>2, <2>3, <2>4 DEF TypeOK, BeginClone, fileVars, rowVars
<1>12. CASE EndClone(a)
  <2>1. pc' \in [Actors -> Steps] BY <1>12, MoveTypes DEF EndClone, Steps, Ended
  <2>2. faults' \in 0..MaxFaults BY <1>12, FaultTypes DEF MayFail, EndClone
  <2>3. copy' \in [Attempts -> Extents] BY <1>12 DEF TypeOK, Extents, EndClone
  <2> QED BY <1>12, <2>1, <2>2, <2>3 DEF TypeOK, EndClone, fileVars, rowVars
<1>13. CASE Commit(a)
  <2>1. pc' \in [Actors -> Steps] BY <1>13, MoveTypes DEF Commit, Steps, Ended
  <2>2. faults' \in 0..MaxFaults BY <1>13, FaultTypes DEF MayFail, Commit
  <2>3. copy' \in [Attempts -> Extents] BY <1>13 DEF TypeOK, Extents, Commit, Insert
  <2>4. Insert(a) \/ UNCHANGED rowVars BY <1>13, Zenon DEF Commit, rowVars
  <2>5. project' \in [Jobs -> {"none", "live", "gone"}] /\ root' \in [Jobs -> SUBSET Attempts]
    BY <2>4, InsertTypes
  <2> QED BY <1>13, <2>1, <2>2, <2>3, <2>5 DEF TypeOK, Commit, fileVars
<1>14. CASE Refresh(a)
  <2>1. pc' \in [Actors -> Steps] BY <1>14, MoveTypes DEF Refresh, Steps, Ended
  <2>2. faults' \in 0..MaxFaults BY <1>14, FaultTypes DEF MayFail, Refresh
  <2> QED BY <1>14, <2>1, <2>2 DEF TypeOK, Refresh, fileVars, rowVars
<1>15. CASE Unstage(a)
  <2>1. pc' \in [Actors -> Steps] BY <1>15, MoveTypes DEF Unstage, Steps, Ended
  <2>2. faults' \in 0..MaxFaults BY <1>15, FaultTypes DEF MayFail, Unstage
  <2>3. staged' \subseteq Jobs BY <1>15 DEF TypeOK, Extents, Unstage
  <2> QED BY <1>15, <2>1, <2>2, <2>3 DEF TypeOK, Unstage, fileVars, rowVars
<1>16. CASE CancelEarly(a)
  <2>1. pc' \in [Actors -> Steps] BY <1>16, MoveTypes DEF CancelEarly, Steps, Ended
  <2>2. faults' \in 0..MaxFaults BY <1>16, FaultTypes DEF MayFail, CancelEarly
  <2>3. staged' \subseteq Jobs BY <1>16 DEF TypeOK, Extents, CancelEarly
  <2>4. archive' \subseteq Shas BY <1>16 DEF TypeOK, Extents, CancelEarly
  <2> QED BY <1>16, <2>1, <2>2, <2>3, <2>4 DEF TypeOK, CancelEarly, fileVars, rowVars
<1>17. CASE CancelLate(a)
  <2>1. pc' \in [Actors -> Steps] BY <1>17, MoveTypes DEF CancelLate, Steps, Ended
  <2>2. faults' \in 0..MaxFaults BY <1>17, FaultTypes DEF MayFail, CancelLate
  <2>3. stray' \in [Attempts -> {"no", "extracting", "cloning", "over"}]
    BY <1>17 DEF TypeOK, Extents, CancelLate, Insert
  <2>4. Insert(a) \/ UNCHANGED rowVars BY <1>17, Zenon DEF CancelLate, rowVars
  <2>5. project' \in [Jobs -> {"none", "live", "gone"}] /\ root' \in [Jobs -> SUBSET Attempts]
    BY <2>4, InsertTypes
  <2> QED BY <1>17, <2>1, <2>2, <2>3, <2>5 DEF TypeOK, CancelLate, fileVars
<1>18. CASE StrayEnds(a)
  <2>1. faults' \in 0..MaxFaults BY <1>18, FaultTypes DEF MayFail, StrayEnds
  <2>2. stray' \in [Attempts -> {"no", "extracting", "cloning", "over"}]
    BY <1>18 DEF TypeOK, Extents, StrayEnds
  <2>3. shared' \in [Shas -> Extents] BY <1>18 DEF TypeOK, Extents, StrayEnds
  <2>4. marked' \subseteq Shas BY <1>18 DEF TypeOK, Extents, StrayEnds
  <2>5. copy' \in [Attempts -> Extents] BY <1>18 DEF TypeOK, Extents, StrayEnds
  <2> QED BY <1>18, <2>1, <2>2, <2>3, <2>4, <2>5 DEF TypeOK, StrayEnds, fileVars, rowVars
<1> QED
  BY <1>1, <1>2, <1>3, <1>4, <1>5, <1>6, <1>7, <1>8, <1>9, <1>10, <1>11, <1>12, <1>13, <1>14,
     <1>15, <1>16, <1>17, <1>18
    DEF ImportStep

LEMMA DeletionTypes ==
  ASSUME TypeOK, Places, NEW j \in Jobs, Withdraw(j) \/ DeleteStep(j)
  PROVE  TypeOK'
<1> j \in Actors /\ Sha(j) \in Shas BY ActorFacts
<1>1. CASE Withdraw(j)
  <2>1. faults' \in 0..MaxFaults BY <1>1, FaultTypes DEF MayFail, Withdraw
  <2>2. staged' \subseteq Jobs BY <1>1 DEF TypeOK, Extents, Withdraw
  <2> QED BY <1>1, <2>1, <2>2 DEF TypeOK, Withdraw, fileVars, rowVars
<1>2. CASE ReadRefs(j)
  <2>1. pc' \in [Actors -> Steps] BY <1>2, MoveTypes DEF ReadRefs, Steps, Ended
  <2>2. faults' \in 0..MaxFaults BY <1>2, FaultTypes DEF MayFail, ReadRefs
  <2>3. last' \subseteq Jobs BY <1>2 DEF TypeOK, Extents, ReadRefs, Enter
  <2>4. clashed' \subseteq Shas BY <1>2 DEF TypeOK, Extents, ReadRefs, Enter
  <2> QED BY <1>2, <2>1, <2>2, <2>3, <2>4 DEF TypeOK, ReadRefs, fileVars, rowVars
<1>3. CASE Forget(j)
  <2>1. pc' \in [Actors -> Steps] BY <1>3, MoveTypes DEF Forget, Steps, Ended
  <2>2. faults' \in 0..MaxFaults BY <1>3, FaultTypes DEF MayFail, Forget
  <2>3. project' \in [Jobs -> {"none", "live", "gone"}] BY <1>3 DEF TypeOK, Extents, Forget
  <2> QED BY <1>3, <2>1, <2>2, <2>3 DEF TypeOK, Forget, fileVars, rowVars
<1>4. CASE RemoveRoot(j)
  <2>1. pc' \in [Actors -> Steps] BY <1>4, MoveTypes DEF RemoveRoot, Steps, Ended
  <2>2. faults' \in 0..MaxFaults BY <1>4, FaultTypes DEF MayFail, RemoveRoot
  <2>3. copy' \in [Attempts -> Extents] BY <1>4 DEF TypeOK, Extents, RemoveRoot
  <2> QED BY <1>4, <2>1, <2>2, <2>3 DEF TypeOK, RemoveRoot, fileVars, rowVars
<1> QED BY <1>1, <1>2, <1>3, <1>4 DEF DeleteStep

LEMMA WipeTypes ==
  ASSUME TypeOK, Places, NEW x \in Actors, WipeStep(x)
  PROVE  TypeOK'
<1> Sha(x) \in Shas BY ActorFacts
<1>1. CASE BeginWipe(x)
  <2>1. pc' \in [Actors -> Steps] BY <1>1, MoveTypes DEF BeginWipe, Steps, Ended
  <2>2. faults' \in 0..MaxFaults BY <1>1, FaultTypes DEF MayFail, BeginWipe
  <2>3. listed' \in [Actors -> SUBSET Attempts] BY <1>1 DEF TypeOK, Extents, BeginWipe, ClonesOf
  <2>4. shared' \in [Shas -> Extents] BY <1>1 DEF TypeOK, Extents, BeginWipe, ClonesOf
  <2>5. torn' \subseteq Attempts BY <1>1, MidwayFacts DEF TypeOK, Extents, BeginWipe, ClonesOf
  <2>6. objects' \subseteq {Key(j) : j \in Jobs}
    BY <1>1, KeyFacts DEF TypeOK, Extents, BeginWipe, ClonesOf
  <2> QED BY <1>1, <2>1, <2>2, <2>3, <2>4, <2>5, <2>6 DEF TypeOK, BeginWipe, fileVars, rowVars
<1>2. CASE EndWipe(x)
  <2>1. pc' \in [Actors -> Steps] BY <1>2, MoveTypes DEF EndWipe, Steps, Ended
  <2>2. faults' \in 0..MaxFaults BY <1>2, FaultTypes DEF MayFail, EndWipe
  <2>3. marked' \subseteq Shas BY <1>2 DEF TypeOK, Extents, EndWipe
  <2>4. shared' \in [Shas -> Extents] BY <1>2 DEF TypeOK, Extents, EndWipe
  <2>5. copy' \in [Attempts -> Extents] BY <1>2 DEF TypeOK, Extents, EndWipe
  <2>6. archive' \subseteq Shas BY <1>2 DEF TypeOK, Extents, EndWipe
  <2> QED BY <1>2, <2>1, <2>2, <2>3, <2>4, <2>5, <2>6 DEF TypeOK, EndWipe, fileVars, rowVars
<1>3. CASE WipeStops(x)
  <2>1. pc' \in [Actors -> Steps] BY <1>3, MoveTypes DEF WipeStops, Steps, Ended
  <2>2. faults' \in 0..MaxFaults BY <1>3, FaultTypes DEF MayFail, WipeStops
  <2> QED BY <1>3, <2>1, <2>2 DEF TypeOK, WipeStops, fileVars, rowVars
<1>4. CASE Dies(x)
  <2>1. pc' \in [Actors -> Steps] BY <1>4, MoveTypes DEF Dies, Steps, Ended
  <2>2. faults' \in 0..MaxFaults BY <1>4, FaultTypes DEF MayFail, Dies
  <2> QED BY <1>4, <2>1, <2>2 DEF TypeOK, Dies, fileVars, rowVars
<1> QED BY <1>1, <1>2, <1>3, <1>4 DEF WipeStep

-----------------------------------------------------------------------------
\* How an actor may go on: never back to the start, nor from the end; and into the
\* files of its hash only through Enter.
Moves(x) ==
  \E s \in Steps \ {"idle"} :
    /\ GoTo(x, s) /\ pc[x] \notin Ended /\ clashed \subseteq clashed'
    /\ IF x \in Jobs THEN s \in Ended \cup {"forget", "remove", "clean", "wiping"}
                     ELSE s \notin {"forget", "remove"}
    /\ s \in Busy => pc[x] \in Busy \/ Enter(x)
Stays == pc' = pc /\ clashed' = clashed

LEMMA ImportMoves ==
  ASSUME TypeOK, NEW a \in Attempts, ImportStep(a)
  PROVE  Moves(a) \/ Stays
<1> a \notin Jobs BY ActorFacts
<1>1. CASE Start(a) BY <1>1 DEF Start, Moves, Busy, Import, Steps, Ended
<1>2. CASE MoveStaged(a) BY <1>2 DEF MoveStaged, Moves, Busy, Import, Steps, Ended
<1>3. CASE MakeDir(a) BY <1>3 DEF MakeDir, Moves, Busy, Import, Steps, Ended, Enter
<1>4. CASE StoreArchive(a) BY <1>4 DEF StoreArchive, Moves, Busy, Import, Steps, Ended
<1>5. CASE Upload(a) BY <1>5 DEF Upload, Moves, Busy, Import, Steps, Ended
<1>6. CASE Lookup(a) BY <1>6 DEF Lookup, Moves, Busy, Import, Steps, Ended
<1>7. CASE Inspect(a) BY <1>7 DEF Inspect, Moves, Busy, Import, Steps, Ended
<1>8. CASE ClearRoot(a) BY <1>8 DEF ClearRoot, Moves, Busy, Import, Steps, Ended
<1>9. CASE BeginExtract(a) BY <1>9 DEF BeginExtract, Moves, Busy, Import, Steps, Ended
<1>10. CASE EndExtract(a) BY <1>10 DEF EndExtract, Moves, Busy, Import, Steps, Ended
<1>11. CASE BeginClone(a) BY <1>11 DEF BeginClone, Moves, Busy, Import, Steps, Ended
<1>12. CASE EndClone(a) BY <1>12 DEF EndClone, Moves, Busy, Import, Steps, Ended
<1>13. CASE Commit(a) BY <1>13 DEF Commit, Moves, Busy, Import, Steps, Ended
<1>14. CASE Refresh(a) BY <1>14 DEF Refresh, Moves, Busy, Import, Steps, Ended
<1>15. CASE Unstage(a) BY <1>15 DEF Unstage, Moves, Busy, Import, Steps, Ended
<1>16. CASE CancelEarly(a) BY <1>16 DEF CancelEarly, Moves, Busy, Import, Steps, Ended
<1>17. CASE CancelLate(a) BY <1>17 DEF CancelLate, Moves, Busy, Import, Steps, Ended
<1>18. CASE StrayEnds(a) BY <1>18 DEF StrayEnds, Stays
<1> QED
  BY <1>1, <1>2, <1>3, <1>4, <1>5, <1>6, <1>7, <1>8, <1>9, <1>10, <1>11, <1>12, <1>13, <1>14,
     <1>15, <1>16, <1>17, <1>18
    DEF ImportStep

LEMMA DeletionMoves ==
  ASSUME TypeOK, NEW j \in Jobs, Withdraw(j) \/ DeleteStep(j)
  PROVE  Moves(j) \/ Stays
<1>1. CASE Withdraw(j) BY <1>1 DEF Withdraw, Stays
<1>2. CASE ReadRefs(j) BY <1>2 DEF ReadRefs, Enter, Moves, Busy, Import, Steps, Ended
<1>3. CASE Forget(j) BY <1>3 DEF Forget, Moves, Busy, Import, Steps, Ended
<1>4. CASE RemoveRoot(j) BY <1>4 DEF RemoveRoot, Moves, Busy, Import, Steps, Ended
<1> QED BY <1>1, <1>2, <1>3, <1>4 DEF DeleteStep

LEMMA WipeMoves ==
  ASSUME TypeOK, NEW x \in Actors, WipeStep(x)
  PROVE  Moves(x)
<1>1. CASE BeginWipe(x) BY <1>1 DEF BeginWipe, Moves, Busy, Import, Steps, Ended
<1>2. CASE EndWipe(x) BY <1>2 DEF EndWipe, Moves, Busy, Import, Steps, Ended
<1>3. CASE WipeStops(x) BY <1>3 DEF WipeStops, Moves, Busy, Import, Steps, Ended
<1>4. CASE Dies(x) BY <1>4 DEF Dies, Moves, Busy, Import, Steps, Ended
<1> QED BY <1>1, <1>2, <1>3, <1>4 DEF WipeStep

\* So who is busy on a hash that is not clashed stays alone, and everybody where
\* they belong.
LEMMA MovesKeepAlone ==
  ASSUME TypeOK, Alone, Places, NEW x \in Actors, Moves(x) \/ Stays
  PROVE  Alone' /\ Places'
<1>1. CASE Stays BY <1>1 DEF Stays, Alone, Places
<1>2. CASE Moves(x)
  <2>1. PICK s \in Steps \ {"idle"} :
          /\ pc' = [pc EXCEPT ![x] = s] /\ clashed \subseteq clashed'
          /\ IF x \in Jobs THEN s \in Ended \cup {"forget", "remove", "clean", "wiping"}
                           ELSE s \notin {"forget", "remove"}
          /\ s \in Busy => pc[x] \in Busy \/ Enter(x)
    BY <1>2 DEF Moves, GoTo
  <2>2. pc'[x] = s /\ \A y \in Actors \ {x} : pc'[y] = pc[y] BY <2>1 DEF TypeOK
  <2>3. Places' BY <2>1, <2>2, ActorFacts DEF Places
  <2>4. ASSUME NEW y \in Actors \ {x}, Sha(y) = Sha(x), Sha(x) \notin clashed',
               pc[y] \in Busy, s \in Busy
        PROVE  FALSE
    <3>1. CASE pc[x] \in Busy BY <2>1, <2>4, <3>1 DEF Alone
    <3>2. CASE Enter(x)
      <4>1. y \in Underway(Sha(x))
        BY <2>4 DEF Underway, AtStep, Busy, Import, Steps, Ended
      <4> QED BY <2>4, <3>2, <4>1 DEF Enter
    <3> QED BY <2>1, <2>4, <3>1, <3>2
  <2>5. Alone' BY <2>1, <2>2, <2>4 DEF Alone
  <2> QED BY <2>3, <2>5
<1> QED BY <1>1, <1>2

\* A disturbance is never forgotten.
LEMMA DisturbedStays ==
  ASSUME TypeOK, NEW x \in Actors, Moves(x) \/ Stays, NEW s,
         \A a \in Attempts : stray[a] # "no" => stray'[a] # "no", Undisturbed(s)'
  PROVE  Undisturbed(s)
<1>1. \A y \in Actors : pc[y] = "cut" => pc'[y] = "cut"
  BY DEF Moves, Stays, GoTo, TypeOK, Ended
<1>2. clashed \subseteq clashed' BY DEF Moves, Stays
<1> QED BY <1>1, <1>2 DEF Undisturbed, AtStep

\* Alone and undisturbed, an actor finds nobody else at the files.
LEMMA AloneFacts ==
  ASSUME Alone, NEW x \in Actors, pc[x] \in Busy, Undisturbed(Sha(x))
  PROVE  /\ \A y \in Actors \ {x} : Sha(y) = Sha(x) => pc[y] \notin Busy
         /\ Midway(Sha(x)) \subseteq {x} /\ AtStep(Sha(x), {"wiping"}) \subseteq {x}
         /\ pc[x] # "extracting" => Extracting(Sha(x)) = {}
         /\ pc[x] # "cloning" => Cloning(Sha(x)) = {}
         /\ pc[x] \notin {"archive", "extracting", "cloning"} => Midway(Sha(x)) = {}
<1>1. \A y \in Actors \ {x} : Sha(y) = Sha(x) => pc[y] \notin Busy
  BY DEF Alone, Undisturbed
<1>2. \A a \in Attempts : Sha(a) = Sha(x) => stray[a] = "no" BY DEF Undisturbed
<1> QED BY <1>1, <1>2 DEF Midway, AtStep, Extracting, Cloning, StrayAt, Busy, Import

-----------------------------------------------------------------------------
\* What an actor leaves alone of the files and rows of the other hashes.
Elsewhere(x) ==
  /\ \A t \in Shas \ {Sha(x)} :
       /\ shared'[t] = shared[t] /\ (t \in marked' <=> t \in marked)
       /\ t \in archive' <=> t \in archive
       /\ t \in clashed' <=> t \in clashed
  /\ \A a \in Attempts : Sha(a) # Sha(x) =>
       /\ copy'[a] = copy[a] /\ stray'[a] = stray[a] /\ (a \in torn' <=> a \in torn)
  /\ \A y \in Actors : Sha(y) # Sha(x) => pc'[y] = pc[y] /\ listed'[y] = listed[y]
  /\ \A j \in Jobs : ShaOf[j] # Sha(x) =>
       /\ project'[j] = project[j] /\ root'[j] = root[j] /\ (j \in last' <=> j \in last)

LEMMA InsertElsewhere ==
  ASSUME TypeOK, NEW a \in Attempts, Insert(a) \/ UNCHANGED rowVars
  PROVE  \A j \in Jobs : ShaOf[j] # Sha(a) => project'[j] = project[j] /\ root'[j] = root[j]
BY ActorFacts DEF TypeOK, Insert, rowVars

LEMMA ImportElsewhere ==
  ASSUME TypeOK, Places, NEW a \in Attempts, ImportStep(a)
  PROVE  Elsewhere(a)
<1> a \in Actors /\ Sha(a) \in Shas BY ActorFacts
<1>1. CASE Start(a) BY <1>1 DEF Start, GoTo, TypeOK, Elsewhere, fileVars, rowVars
<1>2. CASE MoveStaged(a) BY <1>2 DEF MoveStaged, GoTo, TypeOK, Elsewhere, fileVars, rowVars
<1>3. CASE MakeDir(a) BY <1>3 DEF MakeDir, GoTo, TypeOK, Elsewhere, fileVars, rowVars, Enter
<1>4. CASE StoreArchive(a) BY <1>4 DEF StoreArchive, GoTo, TypeOK, Elsewhere, fileVars, rowVars
<1>5. CASE Upload(a) BY <1>5 DEF Upload, GoTo, TypeOK, Elsewhere, fileVars, rowVars
<1>6. CASE Lookup(a) BY <1>6 DEF Lookup, GoTo, TypeOK, Elsewhere, fileVars, rowVars
<1>7. CASE Inspect(a) BY <1>7 DEF Inspect, GoTo, TypeOK, Elsewhere, fileVars, rowVars
<1>8. CASE ClearRoot(a)
  BY <1>8
    DEF ClearRoot, GoTo, TypeOK, Elsewhere, fileVars, rowVars, Extracting, Cloning, AtStep,
        StrayAt
<1>9. CASE BeginExtract(a)
  BY <1>9 DEF BeginExtract, GoTo, TypeOK, Elsewhere, fileVars, rowVars, Cloning, AtStep, StrayAt
<1>10. CASE EndExtract(a) BY <1>10 DEF EndExtract, GoTo, TypeOK, Elsewhere, fileVars, rowVars
<1>11. CASE BeginClone(a) BY <1>11 DEF BeginClone, GoTo, TypeOK, Elsewhere, fileVars, rowVars
<1>12. CASE EndClone(a) BY <1>12 DEF EndClone, GoTo, TypeOK, Elsewhere, fileVars, rowVars
<1>13. CASE Commit(a)
  <2>1. Insert(a) \/ UNCHANGED rowVars BY <1>13, Zenon DEF Commit, rowVars
  <2>2. \A j \in Jobs : ShaOf[j] # Sha(a) => project'[j] = project[j] /\ root'[j] = root[j]
    BY <2>1, InsertElsewhere
  <2> QED BY <1>13, <2>2 DEF Commit, GoTo, TypeOK, Elsewhere, fileVars
<1>14. CASE Refresh(a) BY <1>14 DEF Refresh, GoTo, TypeOK, Elsewhere, fileVars, rowVars
<1>15. CASE Unstage(a) BY <1>15 DEF Unstage, GoTo, TypeOK, Elsewhere, fileVars, rowVars
<1>16. CASE CancelEarly(a) BY <1>16 DEF CancelEarly, GoTo, TypeOK, Elsewhere, fileVars, rowVars
<1>17. CASE CancelLate(a)
  <2>1. Insert(a) \/ UNCHANGED rowVars BY <1>17, Zenon DEF CancelLate, rowVars
  <2>2. \A j \in Jobs : ShaOf[j] # Sha(a) => project'[j] = project[j] /\ root'[j] = root[j]
    BY <2>1, InsertElsewhere
  <2> QED BY <1>17, <2>2 DEF CancelLate, GoTo, TypeOK, Elsewhere, fileVars
<1>18. CASE StrayEnds(a) BY <1>18 DEF StrayEnds, GoTo, TypeOK, Elsewhere, fileVars, rowVars
<1> QED
  BY <1>1, <1>2, <1>3, <1>4, <1>5, <1>6, <1>7, <1>8, <1>9, <1>10, <1>11, <1>12, <1>13, <1>14,
     <1>15, <1>16, <1>17, <1>18
    DEF ImportStep

LEMMA DeletionElsewhere ==
  ASSUME TypeOK, Roots, NEW j \in Jobs, Withdraw(j) \/ DeleteStep(j)
  PROVE  Elsewhere(j)
<1> j \in Actors /\ Sha(j) = ShaOf[j] /\ Sha(j) \in Shas BY ActorFacts
<1>1. CASE Withdraw(j) BY <1>1 DEF Withdraw, GoTo, TypeOK, Elsewhere, fileVars, rowVars
<1>2. CASE ReadRefs(j) BY <1>2 DEF ReadRefs, Enter, GoTo, TypeOK, Elsewhere, fileVars, rowVars
<1>3. CASE Forget(j) BY <1>3 DEF Forget, GoTo, TypeOK, Elsewhere, fileVars, rowVars
<1>4. CASE RemoveRoot(j)
  <2>1. \A a \in root[j] : Sha(a) = Sha(j) BY ActorFacts DEF Roots, TypeOK
  <2> QED BY <1>4, <2>1 DEF RemoveRoot, GoTo, TypeOK, Elsewhere, fileVars, rowVars
<1> QED BY <1>1, <1>2, <1>3, <1>4 DEF DeleteStep

LEMMA WipeElsewhere ==
  ASSUME TypeOK, Lists, NEW x \in Actors, WipeStep(x)
  PROVE  Elsewhere(x)
<1> Sha(x) \in Shas BY ActorFacts
<1>1. CASE BeginWipe(x)
  BY <1>1
    DEF BeginWipe, Midway, Extracting, Cloning, AtStep, StrayAt, GoTo, TypeOK, Elsewhere,
        fileVars, rowVars
<1>2. CASE EndWipe(x)
  BY <1>2 DEF EndWipe, Lists, Listings, GoTo, TypeOK, Elsewhere, fileVars, rowVars
<1>3. CASE WipeStops(x) BY <1>3 DEF WipeStops, GoTo, TypeOK, Elsewhere, fileVars, rowVars
<1>4. CASE Dies(x) BY <1>4 DEF Dies, GoTo, TypeOK, Elsewhere, fileVars, rowVars
<1> QED BY <1>1, <1>2, <1>3, <1>4 DEF WipeStep

-----------------------------------------------------------------------------
\* The marks of the other hashes are as good as before.
LEMMA MarksElsewhere ==
  ASSUME NEW x \in Actors, Elsewhere(x), NEW s \in Shas \ {Sha(x)}, Mark(s)
  PROVE  Mark(s)'
<1>1. \A y \in Actors : Sha(y) = s => pc'[y] = pc[y] BY DEF Elsewhere
<1>2. AtStep(s, {"wiping"})' = AtStep(s, {"wiping"}) BY <1>1 DEF AtStep
<1>3. /\ shared'[s] = shared[s] /\ (s \in marked' <=> s \in marked)
      /\ \A a \in Attempts : Sha(a) = s => copy'[a] = copy[a] /\ (a \in torn' <=> a \in torn)
  BY DEF Elsewhere
<1>4. \A a \in Attempts : Sha(a) = s => Reliable(a)'
  BY <1>1, <1>3, ActorFacts DEF Mark, Reliable
<1> QED BY <1>2, <1>3, <1>4 DEF Mark

\* So they are where an actor goes on without touching the files.
LEMMA UntouchedMarks ==
  ASSUME TypeOK, NEW x \in Actors, pc[x] # "wiping", Mark(Sha(x)),
         NEW t \in Steps \ {"clear", "extract", "extracting", "clone", "cloning", "commit"},
         GoTo(x, t), torn' \subseteq torn, UNCHANGED <<shared, marked, copy>>
  PROVE  Mark(Sha(x))'
<1>1. pc'[x] = t /\ \A y \in Actors \ {x} : pc'[y] = pc[y] BY DEF GoTo, TypeOK
<1>2. AtStep(Sha(x), {"wiping"}) \subseteq AtStep(Sha(x), {"wiping"})' BY <1>1 DEF AtStep
<1>3. \A a \in Attempts : Sha(a) = Sha(x) => Reliable(a)'
  BY <1>1, ActorFacts DEF Mark, Reliable
<1> QED BY <1>2, <1>3 DEF Mark

\* Nobody else relies on the files an actor is busy with alone.
LEMMA OthersRely ==
  ASSUME TypeOK, Alone, NEW x \in Actors, pc[x] \in Busy, Undisturbed(Sha(x)),
         \A y \in Actors \ {x} : pc'[y] = pc[y], NEW a \in Attempts, a # x, Sha(a) = Sha(x)
  PROVE  Reliable(a)' /\ pc'[a] # "wiping"
<1>1. pc[a] \notin Busy BY AloneFacts, ActorFacts
<1>2. pc'[a] = pc[a] BY ActorFacts
<1> QED BY <1>1, <1>2 DEF Reliable, Busy, Import

LEMMA ImportMarks ==
  ASSUME TypeOK, Alone, Marks, NEW a \in Attempts, ImportStep(a),
         Undisturbed(Sha(a)), Undisturbed(Sha(a))'
  PROVE  Mark(Sha(a))'
<1> DEFINE s == Sha(a)
<1>1. a \in Actors /\ s \in Shas /\ Mark(s) BY ActorFacts DEF Marks
<1>2. CASE \/ Start(a) \/ MoveStaged(a) \/ MakeDir(a) \/ StoreArchive(a) \/ Upload(a) \/ Refresh(a)
           \/ Unstage(a) \/ CancelEarly(a) \/ CancelLate(a)
  <2>1. /\ pc[a] # "wiping" /\ torn' \subseteq torn /\ UNCHANGED <<shared, marked, copy>>
        /\ \E t \in Steps \ {"clear", "extract", "extracting", "clone", "cloning", "commit"} :
             GoTo(a, t)
    BY <1>2 DEF Start, MoveStaged, MakeDir, StoreArchive, Upload, Refresh, Unstage, CancelEarly,
                CancelLate, fileVars, Steps, Ended
  <2> QED BY <1>1, <2>1, UntouchedMarks
<1>3. CASE Lookup(a)
  <2>1. /\ pc[a] # "wiping" /\ torn' \subseteq torn /\ UNCHANGED <<shared, marked, copy>>
        /\ \E t \in {"done", "inspect", "clean"} : GoTo(a, t)
    BY <1>3 DEF Lookup, fileVars
  <2> QED BY <1>1, <2>1, UntouchedMarks DEF Steps, Ended
<1>4. CASE StrayEnds(a) BY <1>1, <1>4 DEF StrayEnds, Undisturbed
<1>5. CASE \/ Inspect(a) \/ ClearRoot(a) \/ BeginExtract(a) \/ EndExtract(a)
           \/ BeginClone(a) \/ EndClone(a) \/ Commit(a)
  <2>1. pc[a] \in Busy /\ pc[a] # "wiping"
    BY <1>5
      DEF Inspect, ClearRoot, BeginExtract, EndExtract, BeginClone, EndClone, Commit, Busy,
          Import
  <2>2. /\ Extracting(s) \subseteq {a} /\ Cloning(s) \subseteq {a} /\ AtStep(s, {"wiping"}) = {}
        /\ pc[a] # "extracting" => Extracting(s) = {}
        /\ pc[a] # "cloning" => Cloning(s) = {}
    BY <1>1, <2>1, AloneFacts DEF AtStep, Midway
  <2>3. \A y \in Actors \ {a} : pc'[y] = pc[y]
    BY <1>5
      DEF Inspect, ClearRoot, BeginExtract, EndExtract, BeginClone, EndClone, Commit, GoTo,
          TypeOK
  <2>4. \A b \in Attempts : b # a /\ Sha(b) = s => Reliable(b)' BY <1>1, <2>1, <2>3, OthersRely
  <2>5. Reliable(a) /\ (s \in marked => shared[s] = "whole") BY <1>1, <2>2 DEF Mark
  <2>6. Reliable(a)' /\ (s \in marked' => shared'[s] = "whole")
    <3>1. CASE Inspect(a) BY <1>1, <2>5, <3>1 DEF Inspect, Reliable, GoTo, TypeOK, fileVars
    <3>2. CASE ClearRoot(a) BY <1>1, <2>5, <3>2 DEF ClearRoot, Reliable, GoTo, TypeOK
    <3>3. CASE BeginExtract(a) BY <1>1, <2>2, <2>5, <3>3 DEF BeginExtract, Reliable, GoTo, TypeOK
    <3>4. CASE EndExtract(a) BY <1>1, <2>5, <3>4 DEF EndExtract, Reliable, GoTo, TypeOK
    <3>5. CASE BeginClone(a) BY <1>1, <2>2, <2>5, <3>5 DEF BeginClone, Reliable, GoTo, TypeOK
    <3>6. CASE EndClone(a) BY <1>1, <2>5, <3>6 DEF EndClone, Reliable, GoTo, TypeOK
    <3>7. CASE Commit(a) BY <1>1, <2>5, <3>7 DEF Commit, Reliable, GoTo, TypeOK
    <3> QED BY <1>5, <3>1, <3>2, <3>3, <3>4, <3>5, <3>6, <3>7
  <2> QED BY <2>4, <2>6 DEF Mark
<1> QED BY <1>2, <1>3, <1>4, <1>5 DEF ImportStep

LEMMA DeletionMarks ==
  ASSUME TypeOK, Alone, Marks, NEW j \in Jobs, Withdraw(j) \/ DeleteStep(j), Undisturbed(Sha(j))
  PROVE  Mark(Sha(j))'
<1>1. j \in Actors /\ j \notin Attempts /\ Mark(Sha(j)) BY ActorFacts DEF Marks
<1>2. CASE Withdraw(j) BY <1>1, <1>2 DEF Withdraw, Mark, Reliable, AtStep, fileVars
<1>3. CASE ReadRefs(j) \/ Forget(j)
  <2>1. /\ pc[j] # "wiping" /\ torn' \subseteq torn /\ UNCHANGED <<shared, marked, copy>>
        /\ \E t \in {"forget", "remove", "failed"} : GoTo(j, t)
    BY <1>3 DEF ReadRefs, Forget, fileVars
  <2> QED BY <1>1, <2>1, UntouchedMarks DEF Steps, Ended
<1>4. CASE RemoveRoot(j)
  <2>1. /\ pc[j] \in Busy /\ pc[j] # "wiping" /\ UNCHANGED <<shared, marked>>
        /\ \A y \in Actors \ {j} : pc'[y] = pc[y]
    BY <1>4 DEF RemoveRoot, GoTo, TypeOK, Busy
  <2>2. \A b \in Attempts : Sha(b) = Sha(j) => Reliable(b)' BY <1>1, <2>1, OthersRely
  <2>3. AtStep(Sha(j), {"wiping"}) = {} BY <1>1, <2>1, AloneFacts DEF AtStep
  <2> QED BY <1>1, <2>1, <2>2, <2>3 DEF Mark
<1> QED BY <1>2, <1>3, <1>4 DEF DeleteStep

LEMMA WipeMarks ==
  ASSUME TypeOK, Alone, Marks, NEW x \in Actors, WipeStep(x),
         Undisturbed(Sha(x)), Undisturbed(Sha(x))'
  PROVE  Mark(Sha(x))'
<1> DEFINE s == Sha(x)
<1>1. s \in Shas /\ Mark(s) BY ActorFacts DEF Marks
<1>2. CASE BeginWipe(x) \/ EndWipe(x)
  <2>1. /\ pc[x] \in Busy /\ pc'[x] \in {"wiping", "done", "unstage"}
        /\ \A y \in Actors \ {x} : pc'[y] = pc[y]
    BY <1>2 DEF BeginWipe, EndWipe, GoTo, TypeOK, Busy
  <2>2. \A b \in Attempts : Sha(b) = s => Reliable(b)'
    BY <2>1, OthersRely DEF Reliable
  <2>3. CASE BeginWipe(x)
    <3>1. pc'[x] = "wiping" BY <2>3 DEF BeginWipe, GoTo, TypeOK
    <3> QED BY <2>2, <3>1 DEF Mark, AtStep
  <2>4. CASE EndWipe(x) BY <2>2, <2>4 DEF EndWipe, Mark
  <2> QED BY <1>2, <2>3, <2>4
<1>3. CASE WipeStops(x)
  <2>1. pc'[x] = "cut" BY <1>3 DEF WipeStops, GoTo, TypeOK
  <2> QED BY <2>1 DEF Undisturbed, AtStep
<1>4. CASE Dies(x)
  <2>1. /\ pc[x] # "wiping" /\ GoTo(x, "dead")
        /\ torn' \subseteq torn /\ UNCHANGED <<shared, marked, copy>>
    BY <1>4 DEF Dies, fileVars
  <2> QED BY <1>1, <2>1, UntouchedMarks DEF Steps, Ended
<1> QED BY <1>2, <1>3, <1>4 DEF WipeStep

-----------------------------------------------------------------------------
\* Whoever is past the commit stays there, and the row of a project is inserted on
\* the way there.
LEMMA ImportGoesOn ==
  ASSUME TypeOK, NEW a \in Attempts, ImportStep(a)
  PROVE  /\ \A y \in Actors \ {a} : pc'[y] = pc[y]
         /\ pc[a] \in Late => pc'[a] \in Late
         /\ pc[a] \in Late \ {"refresh", "clean"} => pc'[a] \in Late \ {"refresh", "clean"}
         /\ UNCHANGED rowVars \/ (Insert(a) /\ pc[a] = "commit" /\ pc'[a] \in {"refresh", "clean"}
                                   /\ project[JobOf[a]] # "live")
         /\ UNCHANGED <<listed, last>>
<1> a \in Actors /\ a \notin Jobs BY ActorFacts
<1>1. CASE Start(a) BY <1>1 DEF Start, Late, Ended, TypeOK, GoTo, rowVars
<1>2. CASE MoveStaged(a) BY <1>2 DEF MoveStaged, Late, Ended, TypeOK, GoTo, rowVars
<1>3. CASE MakeDir(a) BY <1>3 DEF MakeDir, Late, Ended, TypeOK, GoTo, rowVars
<1>4. CASE StoreArchive(a) BY <1>4 DEF StoreArchive, Late, Ended, TypeOK, GoTo, rowVars
<1>5. CASE Upload(a) BY <1>5 DEF Upload, Late, Ended, TypeOK, GoTo, rowVars
<1>6. CASE Lookup(a) BY <1>6 DEF Lookup, Late, Ended, TypeOK, GoTo, rowVars
<1>7. CASE Inspect(a) BY <1>7 DEF Inspect, Late, Ended, TypeOK, GoTo, rowVars
<1>8. CASE ClearRoot(a) BY <1>8 DEF ClearRoot, Late, Ended, TypeOK, GoTo, rowVars
<1>9. CASE BeginExtract(a) BY <1>9 DEF BeginExtract, Late, Ended, TypeOK, GoTo, rowVars
<1>10. CASE EndExtract(a) BY <1>10 DEF EndExtract, Late, Ended, TypeOK, GoTo, rowVars
<1>11. CASE BeginClone(a) BY <1>11 DEF BeginClone, Late, Ended, TypeOK, GoTo, rowVars
<1>12. CASE EndClone(a) BY <1>12 DEF EndClone, Late, Ended, TypeOK, GoTo, rowVars
<1>13. CASE Commit(a)
  <2>1. \/ UNCHANGED rowVars
        \/ Insert(a) /\ pc'[a] \in {"refresh", "clean"} /\ project[JobOf[a]] # "live"
    <3>1. CASE ~BeginRefused /\ project[JobOf[a]] # "live"
      BY <1>13, <3>1 DEF Commit, rowVars, TypeOK, GoTo
    <3>2. CASE ~(~BeginRefused /\ project[JobOf[a]] # "live")
      BY <1>13, <3>2 DEF Commit
    <3> QED BY <3>1, <3>2
  <2> QED BY <1>13, <2>1 DEF Commit, Late, Ended, TypeOK, GoTo
<1>14. CASE Refresh(a) BY <1>14 DEF Refresh, Late, Ended, TypeOK, GoTo, rowVars
<1>15. CASE Unstage(a) BY <1>15 DEF Unstage, Late, Ended, TypeOK, GoTo, rowVars
<1>16. CASE CancelEarly(a) BY <1>16 DEF CancelEarly, Late, Ended, TypeOK, GoTo, rowVars
<1>17. CASE CancelLate(a) BY <1>17 DEF CancelLate, Late, Ended, TypeOK, GoTo
<1>18. CASE StrayEnds(a) BY <1>18 DEF StrayEnds, Late, Ended, TypeOK, GoTo, rowVars
<1> QED
  BY <1>1, <1>2, <1>3, <1>4, <1>5, <1>6, <1>7, <1>8, <1>9, <1>10, <1>11, <1>12, <1>13, <1>14,
     <1>15, <1>16, <1>17, <1>18
    DEF ImportStep

LEMMA WipeGoesOn ==
  ASSUME TypeOK, NEW x \in Actors, WipeStep(x)
  PROVE  /\ \A y \in Actors \ {x} : pc'[y] = pc[y] /\ listed'[y] = listed[y]
         /\ pc[x] # "idle" /\ pc'[x] # "idle"
         /\ pc[x] \in Late => pc'[x] \in Late
         /\ pc[x] \in Late \ {"refresh", "clean"} => pc'[x] \in Late \ {"refresh", "clean"}
         /\ \/ listed'[x] = listed[x]
            \/ listed'[x] = ClonesOf(Sha(x)) /\ pc[x] = "clean" /\ pc'[x] = "wiping"
         /\ pc'[x] \in {"clean", "wiping"} => pc[x] \in {"clean", "wiping"}
         /\ UNCHANGED <<rowVars, last>>
<1>1. CASE BeginWipe(x) BY <1>1 DEF BeginWipe, Late, Ended, TypeOK, GoTo, rowVars, fileVars
<1>2. CASE EndWipe(x) BY <1>2 DEF EndWipe, Late, Ended, TypeOK, GoTo, rowVars, fileVars
<1>3. CASE WipeStops(x) BY <1>3 DEF WipeStops, Late, Ended, TypeOK, GoTo, rowVars, fileVars
<1>4. CASE Dies(x) BY <1>4 DEF Dies, Late, Ended, TypeOK, GoTo, rowVars, fileVars
<1> QED BY <1>1, <1>2, <1>3, <1>4 DEF WipeStep

LEMMA InsertDoes ==
  ASSUME TypeOK, NEW a \in Attempts, Insert(a)
  PROVE  /\ project'[JobOf[a]] = "live" /\ root'[JobOf[a]] = {a}
         /\ \A j \in Jobs \ {JobOf[a]} : project'[j] = project[j] /\ root'[j] = root[j]
BY ActorFacts DEF TypeOK, Insert

LEMMA ImportRoots ==
  ASSUME TypeOK, Places, Roots, NEW a \in Attempts, ImportStep(a)
  PROVE  Roots'
<1>1. /\ \A j \in Jobs : pc'[j] = pc[j]
      /\ \A b \in Attempts : pc[b] \in Late => pc'[b] \in Late
  BY ImportGoesOn, ActorFacts
<1>2. CASE UNCHANGED rowVars BY <1>1, <1>2 DEF Roots, rowVars, TypeOK
<1>3. CASE Insert(a) /\ pc'[a] \in {"refresh", "clean"}
  <2>1. ASSUME NEW j \in Jobs
        PROVE  /\ \A b \in root'[j] : JobOf[b] = j /\ pc'[b] \in Late
               /\ project'[j] = "none" => pc'[j] = "idle"
               /\ project'[j] # "none" => root'[j] # {}
    <3>1. CASE j = JobOf[a] BY <1>3, <3>1, InsertDoes DEF Late
    <3>2. CASE j # JobOf[a] BY <1>1, <1>3, <3>2, InsertDoes DEF Roots, TypeOK
    <3> QED BY <3>1, <3>2
  <2> QED BY <2>1 DEF Roots
<1> QED BY <1>2, <1>3, ImportGoesOn

LEMMA DeletionRoots ==
  ASSUME TypeOK, Roots, NEW j \in Jobs, Withdraw(j) \/ DeleteStep(j)
  PROVE  Roots'
<1>1. root' = root /\ \A a \in Attempts : pc'[a] = pc[a]
  BY ActorFacts DEF Withdraw, DeleteStep, ReadRefs, Forget, RemoveRoot, GoTo, TypeOK, rowVars
<1>2. CASE Withdraw(j) BY <1>1, <1>2 DEF Withdraw, rowVars, Roots, TypeOK
<1>3. CASE ReadRefs(j) BY <1>1, <1>3 DEF ReadRefs, rowVars, Roots, TypeOK, GoTo
<1>4. CASE Forget(j)
  <2> Jobs \subseteq Actors BY ActorFacts
  <2>1. /\ pc[j] = "forget" /\ \A k \in Jobs \ {j} : pc'[k] = pc[k] /\ project'[k] = project[k]
        /\ project'[j] = project[j] \/ project'[j] = "gone"
    BY <1>4 DEF Forget, TypeOK, GoTo
  <2> QED BY <1>1, <2>1 DEF Roots, TypeOK
<1>5. CASE RemoveRoot(j) BY <1>1, <1>5 DEF RemoveRoot, rowVars, Roots, TypeOK, GoTo
<1> QED BY <1>2, <1>3, <1>4, <1>5 DEF DeleteStep

LEMMA WipeRoots ==
  ASSUME TypeOK, Roots, NEW x \in Actors, WipeStep(x)
  PROVE  Roots'
<1>1. /\ UNCHANGED <<project, root>> /\ \A a \in Attempts : pc[a] \in Late => pc'[a] \in Late
      /\ \A j \in Jobs : pc'[j] = "idle" <=> pc[j] = "idle"
  BY WipeGoesOn, ActorFacts DEF rowVars
<1> QED BY <1>1 DEF Roots, TypeOK

\* What the wipes have listed is of their own hash.
LEMMA ListingsKept ==
  ASSUME TypeOK, Listings, NEW x \in Actors, \A y \in Actors \ {x} : pc'[y] = pc[y],
         pc[x] \in Late \ {"refresh", "clean"} => pc'[x] \in Late \ {"refresh", "clean"},
         \/ listed' = listed
         \/ /\ listed' = [listed EXCEPT ![x] = ClonesOf(Sha(x))]
            /\ pc'[x] = "wiping"
  PROVE  Listings'
<1>1. ClonesOf(Sha(x)) \subseteq {a \in Attempts : Sha(a) = Sha(x)} BY DEF ClonesOf
<1>2. "wiping" \in Late \ {"refresh", "clean"} BY DEF Late
<1> QED BY <1>1, <1>2 DEF Listings, TypeOK

\* What a deletion counted stays true where no project is inserted.
LEMMA CountsKept ==
  ASSUME TypeOK, Counts, last' = last, clashed \subseteq clashed',
         \A k \in Jobs :
           /\ pc'[k] \in {"clean", "wiping"} => pc[k] \in {"clean", "wiping"} \/ k \in last
           /\ pc[k] # "idle" => pc'[k] # "idle"
           /\ pc'[k] \in {"forget", "remove", "clean", "wiping"} =>
                pc[k] \in {"forget", "remove", "clean", "wiping"},
         \A k, j \in Jobs :
            /\ k \in last /\ pc[k] \in {"forget", "remove", "clean", "wiping"}
            /\ ShaOf[k] \notin clashed' /\ ShaOf[j] = ShaOf[k] /\ project'[j] = "live"
            => project[j] = "live"
  PROVE  Counts'
<1>1. last \subseteq Jobs BY DEF TypeOK
<1>2. \A k \in Jobs : pc'[k] \in {"clean", "wiping"} => k \in last BY DEF Counts
<1>3. \A k \in last : pc'[k] # "idle" BY <1>1 DEF Counts
<1>4. ASSUME NEW k \in last, NEW j \in Jobs, pc'[k] \in {"forget", "remove", "clean", "wiping"},
             ShaOf[k] \notin clashed', ShaOf[j] = ShaOf[k], project'[j] = "live"
      PROVE  j = k
  BY <1>1, <1>4 DEF Counts
<1> QED BY <1>2, <1>3, <1>4 DEF Counts

LEMMA ImportLists ==
  ASSUME TypeOK, Alone, Lists, NEW a \in Attempts, ImportStep(a), clashed \subseteq clashed'
  PROVE  Lists'
<1>1. Listings' BY ImportGoesOn, ListingsKept, ActorFacts DEF Lists
<1>2. /\ \A j \in Jobs : pc'[j] = pc[j]
      /\ last' = last
  BY ImportGoesOn, ActorFacts
<1>3. ASSUME NEW k \in Jobs, pc[k] \in {"forget", "remove", "clean", "wiping"},
             ShaOf[k] \notin clashed', NEW j \in Jobs, ShaOf[j] = ShaOf[k],
             project'[j] = "live", project[j] # "live"
      PROVE  FALSE
  <2>1. Insert(a) /\ pc[a] = "commit" /\ j = JobOf[a]
    BY <1>3, ImportGoesOn, InsertDoes DEF rowVars
  <2>2. Sha(a) = Sha(k) /\ pc[k] \in Busy /\ pc[a] \in Busy /\ a # k
    BY <1>3, <2>1, ActorFacts DEF Busy, Import
  <2> QED BY <1>3, <2>2, ActorFacts DEF Alone
<1>4. Counts' BY <1>2, <1>3, CountsKept DEF Lists
<1> QED BY <1>1, <1>4 DEF Lists

LEMMA DeletionLists ==
  ASSUME TypeOK, Lists, NEW j \in Jobs, Withdraw(j) \/ DeleteStep(j), clashed \subseteq clashed'
  PROVE  Lists'
<1>1. /\ listed' = listed /\ j \in Actors
      /\ \A k \in Jobs : project'[k] = "live" => project[k] = "live"
      /\ \A x \in Actors \ {j} : pc'[x] = pc[x]
  BY ActorFacts DEF Withdraw, DeleteStep, ReadRefs, Forget, RemoveRoot, GoTo, TypeOK, rowVars
<1>2. pc[j] \in Late \ {"refresh", "clean"} => pc'[j] \in Late \ {"refresh", "clean"}
  BY DEF Withdraw, DeleteStep, ReadRefs, Forget, RemoveRoot, Late, Ended
<1>3. Listings' BY <1>1, <1>2, ListingsKept DEF Lists
<1>4. CASE ReadRefs(j)
  <2>1. pc[j] = "idle" /\ pc'[j] = "forget" BY <1>1, <1>4 DEF ReadRefs, GoTo, TypeOK
  <2>2. last' = last \/ (last' = last \cup {j} /\ ProjectsOf(ShaOf[j]) = {j})
    BY <1>4 DEF ReadRefs
  <2>3. ProjectsOf(ShaOf[j]) = {j} =>
          \A k \in Jobs : ShaOf[k] = ShaOf[j] /\ project[k] = "live" => k = j
    BY DEF ProjectsOf
  <2>4. \A k \in Jobs \ {j} : pc'[k] = pc[k] BY <1>1, ActorFacts
  <2>5. j \notin last /\ last \subseteq Jobs BY <2>1 DEF Lists, Counts, TypeOK
  <2>6. Counts' BY <1>1, <2>1, <2>2, <2>3, <2>4, <2>5 DEF Lists, Counts
  <2> QED BY <1>3, <2>6 DEF Lists
<1>5. CASE ~ReadRefs(j)
  <2>1. /\ last' = last
        /\ pc[j] # "idle" => pc'[j] # "idle"
        /\ pc'[j] \in {"clean", "wiping"} => pc[j] \in {"clean", "wiping"} \/ j \in last
        /\ pc'[j] \in {"forget", "remove", "clean", "wiping"} =>
             pc[j] \in {"forget", "remove", "clean", "wiping"}
    BY <1>1, <1>5 DEF Withdraw, DeleteStep, Forget, RemoveRoot, GoTo, TypeOK
  <2>2. \A k \in Jobs \ {j} : pc'[k] = pc[k] BY <1>1, ActorFacts
  <2>3. Counts' BY <1>1, <2>1, <2>2, CountsKept DEF Lists
  <2> QED BY <1>3, <2>3 DEF Lists
<1> QED BY <1>4, <1>5

LEMMA WipeLists ==
  ASSUME TypeOK, Lists, NEW x \in Actors, WipeStep(x), clashed \subseteq clashed'
  PROVE  Lists'
<1>1. listed' = listed \/ (listed' = [listed EXCEPT ![x] = ClonesOf(Sha(x))] /\ pc'[x] = "wiping")
  BY DEF WipeStep, BeginWipe, EndWipe, WipeStops, Dies, GoTo, TypeOK
<1>2. Listings' BY <1>1, WipeGoesOn, ListingsKept DEF Lists
<1>3. pc'[x] \notin {"forget", "remove"}
  BY DEF WipeStep, BeginWipe, EndWipe, WipeStops, Dies, GoTo, TypeOK, Ended
<1>4. /\ last' = last /\ project' = project
      /\ \A k \in Jobs :
           /\ pc'[k] \in {"clean", "wiping"} => pc[k] \in {"clean", "wiping"}
           /\ pc'[k] \in {"forget", "remove"} => pc[k] = pc'[k]
           /\ pc[k] # "idle" => pc'[k] # "idle"
  BY <1>3, WipeGoesOn, ActorFacts DEF rowVars
<1>5. Counts' BY <1>4, CountsKept DEF Lists
<1> QED BY <1>2, <1>5 DEF Lists

-----------------------------------------------------------------------------
\* A clone is kept where nobody lists or changes it and its project was live.
LEMMA KeptStays ==
  ASSUME NEW j \in Jobs, NEW a \in root[j], KeptBy(j, a),
         Undisturbed(ShaOf[j])' => Undisturbed(ShaOf[j]),
         project'[j] = "live" => project[j] = "live",
         pc'[a] \in {"refresh", "done"} => pc[a] \in {"refresh", "done"},
         pc'[j] \in {"idle", "forget", "failed"} => pc[j] \in {"idle", "forget", "failed"},
         \A b \in Attempts : listed'[b] = listed[b] \/ listed[b] = {},
         /\ project'[j] = "live" /\ pc'[j] \in {"idle", "forget", "failed"}
         /\ Undisturbed(ShaOf[j])' /\ \A b \in Attempts : a \notin listed'[b]
         => copy'[a] = copy[a]
  PROVE  KeptBy(j, a)'
BY DEF KeptBy

\* What an import does to the clones: it writes its own, and not after the commit.
LEMMA ImportClones ==
  ASSUME TypeOK, NEW a \in Attempts, ImportStep(a)
  PROVE  /\ \A b \in Attempts \ {a} : copy'[b] = copy[b]
         /\ pc[a] = "refresh" /\ copy'[a] # copy[a] => stray[a] # "no"
         /\ pc[a] \in Late \ {"refresh"} /\ copy'[a] # copy[a] => stray[a] # "no"
         /\ pc'[a] = "refresh" /\ pc[a] # "refresh" => pc[a] = "commit" /\ copy'[a] = copy[a]
         /\ pc'[a] = "done" /\ pc[a] \in Late => pc[a] \in {"refresh", "done"}
         /\ stray[a] # "no" => stray'[a] # "no"
         /\ \A b \in Attempts \ {a} : stray'[b] = stray[b]
<1> a \in Actors BY ActorFacts
<1>1. CASE Start(a) BY <1>1 DEF Start, Late, Ended, TypeOK, GoTo, fileVars
<1>2. CASE MoveStaged(a) BY <1>2 DEF MoveStaged, Late, Ended, TypeOK, GoTo, fileVars
<1>3. CASE MakeDir(a) BY <1>3 DEF MakeDir, Late, Ended, TypeOK, GoTo, fileVars
<1>4. CASE StoreArchive(a) BY <1>4 DEF StoreArchive, Late, Ended, TypeOK, GoTo, fileVars
<1>5. CASE Upload(a) BY <1>5 DEF Upload, Late, Ended, TypeOK, GoTo, fileVars
<1>6. CASE Lookup(a) BY <1>6 DEF Lookup, Late, Ended, TypeOK, GoTo, fileVars
<1>7. CASE Inspect(a) BY <1>7 DEF Inspect, Late, Ended, TypeOK, GoTo, fileVars
<1>8. CASE ClearRoot(a) BY <1>8 DEF ClearRoot, Late, Ended, TypeOK, GoTo, fileVars
<1>9. CASE BeginExtract(a) BY <1>9 DEF BeginExtract, Late, Ended, TypeOK, GoTo, fileVars
<1>10. CASE EndExtract(a) BY <1>10 DEF EndExtract, Late, Ended, TypeOK, GoTo, fileVars
<1>11. CASE BeginClone(a) BY <1>11 DEF BeginClone, Late, Ended, TypeOK, GoTo, fileVars
<1>12. CASE EndClone(a) BY <1>12 DEF EndClone, Late, Ended, TypeOK, GoTo, fileVars
<1>13. CASE Commit(a) BY <1>13 DEF Commit, Late, Ended, TypeOK, GoTo, fileVars
<1>14. CASE Refresh(a) BY <1>14 DEF Refresh, Late, Ended, TypeOK, GoTo, fileVars
<1>15. CASE Unstage(a) BY <1>15 DEF Unstage, Late, Ended, TypeOK, GoTo, fileVars
<1>16. CASE CancelEarly(a) BY <1>16 DEF CancelEarly, Late, Ended, TypeOK, GoTo, fileVars
<1>17. CASE CancelLate(a) BY <1>17 DEF CancelLate, Late, Ended, TypeOK, GoTo, fileVars
<1>18. CASE StrayEnds(a) BY <1>18 DEF StrayEnds, Late, Ended, TypeOK, GoTo, fileVars
<1> QED
  BY <1>1, <1>2, <1>3, <1>4, <1>5, <1>6, <1>7, <1>8, <1>9, <1>10, <1>11, <1>12, <1>13, <1>14,
     <1>15, <1>16, <1>17, <1>18
    DEF ImportStep

LEMMA ImportKept ==
  ASSUME TypeOK, Places, Marks, Roots, Kept, NEW a \in Attempts, ImportStep(a),
         Undisturbed(Sha(a))' => Undisturbed(Sha(a)), NEW j \in Jobs, NEW b \in root'[j],
         b \in Attempts, Undisturbed(ShaOf[j])' => Undisturbed(ShaOf[j])
  PROVE  KeptBy(j, b)'
<1>1. /\ \A k \in Jobs : pc'[k] = pc[k]
      /\ \A c \in Attempts \ {a} : pc'[c] = pc[c] /\ copy'[c] = copy[c]
      /\ listed' = listed
  BY ImportGoesOn, ImportClones, ActorFacts
<1>2. CASE UNCHANGED rowVars
  <2>1. b \in root[j] /\ KeptBy(j, b) /\ project'[j] = project[j] /\ JobOf[b] = j /\ pc[b] \in Late
    BY <1>2 DEF rowVars, Kept, Roots
  <2>2. Undisturbed(ShaOf[j]) => stray[b] = "no" BY <2>1, ActorFacts DEF Undisturbed
  <2>3. Undisturbed(ShaOf[j])' => copy'[b] = copy[b]
    BY <1>1, <2>1, <2>2, ImportClones
  <2>4. pc'[b] \in {"refresh", "done"} => pc[b] \in {"refresh", "done"}
    BY <1>1, <2>1, ImportClones DEF Late, Ended
  <2> QED BY <1>1, <2>1, <2>3, <2>4, KeptStays
<1>3. CASE Insert(a) /\ pc[a] = "commit" /\ pc'[a] \in {"refresh", "clean"}
  <2>1. CASE j = JobOf[a]
    <3>1. b = a BY <1>3, <2>1, InsertDoes
    <3>2. CASE pc'[a] = "refresh" /\ Undisturbed(ShaOf[j])'
      <4>1. copy[a] = "whole"
        BY <1>3, <2>1, <3>2, ActorFacts DEF Marks, Mark, Reliable
      <4>2. copy'[a] = copy[a] BY <1>3, <3>2, ImportClones
      <4> QED BY <3>1, <4>1, <4>2 DEF KeptBy
    <3>3. CASE ~(pc'[a] = "refresh" /\ Undisturbed(ShaOf[j])') BY <1>3, <3>1, <3>3 DEF KeptBy
    <3> QED BY <3>2, <3>3
  <2>2. CASE j # JobOf[a]
    <3>1. b \in root[j] /\ project'[j] = project[j] BY <1>3, <2>2, InsertDoes
    <3>2. KeptBy(j, b) /\ b # a BY <2>2, <3>1 DEF Kept, Roots
    <3> QED BY <1>1, <3>1, <3>2, KeptStays
  <2> QED BY <2>1, <2>2
<1> QED BY <1>2, <1>3, ImportGoesOn

LEMMA DeletionKept ==
  ASSUME TypeOK, Roots, Kept, NEW k \in Jobs, Withdraw(k) \/ DeleteStep(k),
         NEW j \in Jobs, NEW b \in root'[j],
         Undisturbed(ShaOf[j])' => Undisturbed(ShaOf[j])
  PROVE  KeptBy(j, b)'
<1>1. /\ UNCHANGED <<root, listed>> /\ \A x \in Actors \ {k} : pc'[x] = pc[x]
      /\ project'[j] = "live" => project[j] = "live"
      /\ pc'[k] \in {"idle", "forget", "failed"} => pc[k] \in {"idle", "forget", "failed"}
  BY ActorFacts DEF Withdraw, DeleteStep, ReadRefs, Forget, RemoveRoot, GoTo, TypeOK, rowVars
<1>2. b \in root[j] /\ KeptBy(j, b) /\ JobOf[b] = j /\ b \in Attempts
  BY <1>1 DEF Kept, Roots, TypeOK
<1>3. CASE ~RemoveRoot(k)
  <2>1. copy' = copy BY <1>3 DEF Withdraw, DeleteStep, ReadRefs, Forget, fileVars
  <2> QED BY <1>1, <1>2, <2>1, KeptStays, ActorFacts
<1>4. CASE RemoveRoot(k)
  <2>1. copy'[b] # copy[b] => k = j BY <1>2, <1>4 DEF RemoveRoot, Roots
  <2>2. pc'[k] \in {"clean", "done"} BY <1>4, ActorFacts DEF RemoveRoot, GoTo, TypeOK
  <2> QED BY <1>1, <1>2, <2>1, <2>2, KeptStays, ActorFacts
<1> QED BY <1>3, <1>4

LEMMA WipeKept ==
  ASSUME TypeOK, Roots, Lists, Kept, NEW x \in Actors, WipeStep(x),
         NEW j \in Jobs, NEW b \in root'[j],
         Undisturbed(ShaOf[j])' => Undisturbed(ShaOf[j])
  PROVE  KeptBy(j, b)'
<1>1. /\ UNCHANGED rowVars /\ \A y \in Actors \ {x} : pc'[y] = pc[y]
      /\ \A c \in Attempts : listed'[c] = listed[c] \/ listed[c] = {}
      /\ pc'[x] \in {"refresh", "done"} => x \in Jobs
      /\ pc'[x] \notin {"idle", "forget", "failed"}
  <2>1. pc[x] = "clean" => listed[x] = {} BY DEF Lists, Listings, Late, Ended
  <2>2. /\ pc'[x] \notin {"idle", "forget", "failed"}
        /\ pc'[x] \in {"refresh", "done"} => x \in Jobs
    BY DEF WipeStep, BeginWipe, EndWipe, WipeStops, Dies, GoTo, TypeOK
  <2>3. Attempts \subseteq Actors BY ActorFacts
  <2> QED BY <2>1, <2>2, <2>3, WipeGoesOn
<1>2. b \in root[j] /\ KeptBy(j, b) /\ JobOf[b] = j /\ b \in Attempts /\ project' = project
  BY <1>1 DEF Kept, Roots, TypeOK, rowVars
<1>3. /\ project[j] = "live" /\ pc'[j] \in {"idle", "forget", "failed"}
      /\ Undisturbed(ShaOf[j])' /\ (\A c \in Attempts : b \notin listed'[c])
      => copy'[b] = copy[b]
  <2>1. CASE ~EndWipe(x) BY <2>1 DEF WipeStep, BeginWipe, WipeStops, Dies, fileVars
  <2>2. CASE EndWipe(x) /\ b \in listed[x] /\ x \in Jobs
    <3>1. pc[x] = "wiping" /\ x \in last /\ ShaOf[x] = ShaOf[j]
      BY <1>2, <2>2, ActorFacts DEF EndWipe, Lists, Listings, Counts
    <3>2. Undisturbed(ShaOf[j]) => ShaOf[x] \notin clashed BY <3>1 DEF Undisturbed
    <3>3. project[j] = "live" /\ Undisturbed(ShaOf[j]) => j = x
      BY <3>1, <3>2 DEF Lists, Counts
    <3> QED BY <1>1, <3>3
  <2>3. CASE EndWipe(x) /\ ~(b \in listed[x] /\ x \in Jobs)
    <3>1. listed' = listed BY <2>3 DEF EndWipe
    <3>2. b \notin listed[x] => copy'[b] = copy[b] BY <1>2, <2>3 DEF EndWipe
    <3> QED BY <2>3, <3>1, <3>2, ActorFacts
  <2> QED BY <2>1, <2>2, <2>3
<1>4. /\ pc'[b] \in {"refresh", "done"} => pc[b] \in {"refresh", "done"}
      /\ pc'[j] \in {"idle", "forget", "failed"} => pc[j] \in {"idle", "forget", "failed"}
  BY <1>1, <1>2, ActorFacts
<1> QED BY <1>1, <1>2, <1>3, <1>4, KeptStays


-----------------------------------------------------------------------------
\* All parts together, for each kind of step.
LEMMA StepKeepsFiles ==
  ASSUME FileInv, NEW x \in Actors, Moves(x) \/ Stays, Elsewhere(x),
         \A a \in Attempts : stray[a] # "no" => stray'[a] # "no",
         Undisturbed(Sha(x)) /\ Undisturbed(Sha(x))' => Mark(Sha(x))'
  PROVE  /\ Alone' /\ Places' /\ Marks'
         /\ clashed \subseteq clashed'
         /\ \A s : Undisturbed(s)' => Undisturbed(s)
<1>1. \A s : Undisturbed(s)' => Undisturbed(s) BY DisturbedStays DEF FileInv
<1>2. Shas' = Shas BY DEF Shas
<1>3. \A s \in Shas \ {Sha(x)} : Undisturbed(s)' => Mark(s)'
  BY <1>1, MarksElsewhere DEF FileInv, Marks
<1>4. Marks' BY <1>1, <1>2, <1>3 DEF Marks
<1>5. clashed \subseteq clashed' BY DEF Moves, Stays
<1> QED BY <1>1, <1>4, <1>5, MovesKeepAlone DEF FileInv

LEMMA ImportKeepsFiles ==
  ASSUME FileInv, NEW a \in Attempts, ImportStep(a)
  PROVE  FileInv'
<1>0. a \in Actors BY ActorFacts
<1>1. TypeOK' BY ImportTypes DEF FileInv
<1>2. Moves(a) \/ Stays BY ImportMoves DEF FileInv
<1>3. Elsewhere(a) BY ImportElsewhere DEF FileInv
<1>4. \A b \in Attempts : stray[b] # "no" => stray'[b] # "no" BY ImportClones DEF FileInv
<1>5. Undisturbed(Sha(a)) /\ Undisturbed(Sha(a))' => Mark(Sha(a))' BY ImportMarks DEF FileInv
<1>6. /\ Alone' /\ Places' /\ Marks' /\ clashed \subseteq clashed'
      /\ \A s : Undisturbed(s)' => Undisturbed(s)
  BY <1>0, <1>2, <1>3, <1>4, <1>5, StepKeepsFiles
<1>7. Roots' /\ Lists' BY <1>6, ImportRoots, ImportLists DEF FileInv
<1>8. \A j \in Jobs : root'[j] \subseteq Attempts BY <1>1 DEF TypeOK
<1>9. \A j \in Jobs : \A b \in root'[j] : KeptBy(j, b)' BY <1>6, <1>8, ImportKept DEF FileInv
<1> QED BY <1>1, <1>6, <1>7, <1>9 DEF FileInv, Kept

LEMMA DeletionKeepsFiles ==
  ASSUME FileInv, NEW j \in Jobs, Withdraw(j) \/ DeleteStep(j)
  PROVE  FileInv'
<1>0. j \in Actors BY ActorFacts
<1>1. TypeOK' BY DeletionTypes DEF FileInv
<1>2. Moves(j) \/ Stays BY DeletionMoves DEF FileInv
<1>3. Elsewhere(j) BY DeletionElsewhere DEF FileInv
<1>4. stray' = stray BY DEF Withdraw, DeleteStep, ReadRefs, Forget, RemoveRoot
<1>5. Undisturbed(Sha(j)) /\ Undisturbed(Sha(j))' => Mark(Sha(j))' BY DeletionMarks DEF FileInv
<1>6. /\ Alone' /\ Places' /\ Marks' /\ clashed \subseteq clashed'
      /\ \A s : Undisturbed(s)' => Undisturbed(s)
  BY <1>0, <1>2, <1>3, <1>4, <1>5, StepKeepsFiles
<1>7. Roots' /\ Lists' BY <1>6, DeletionRoots, DeletionLists DEF FileInv
<1>8. \A k \in Jobs : \A b \in root'[k] : KeptBy(k, b)' BY <1>6, DeletionKept DEF FileInv
<1> QED BY <1>1, <1>6, <1>7, <1>8 DEF FileInv, Kept

LEMMA WipeKeepsFiles ==
  ASSUME FileInv, NEW x \in Actors, WipeStep(x)
  PROVE  FileInv'
<1>1. TypeOK' BY WipeTypes DEF FileInv
<1>2. Moves(x) \/ Stays BY WipeMoves DEF FileInv
<1>3. Elsewhere(x) BY WipeElsewhere DEF FileInv
<1>4. stray' = stray BY DEF WipeStep, BeginWipe, EndWipe, WipeStops, Dies
<1>5. Undisturbed(Sha(x)) /\ Undisturbed(Sha(x))' => Mark(Sha(x))' BY WipeMarks DEF FileInv
<1>6. /\ Alone' /\ Places' /\ Marks' /\ clashed \subseteq clashed'
      /\ \A s : Undisturbed(s)' => Undisturbed(s)
  BY <1>2, <1>3, <1>4, <1>5, StepKeepsFiles
<1>7. Roots' /\ Lists' BY <1>6, WipeRoots, WipeLists DEF FileInv
<1>8. \A k \in Jobs : \A b \in root'[k] : KeptBy(k, b)' BY <1>6, WipeKept DEF FileInv
<1> QED BY <1>1, <1>6, <1>7, <1>8 DEF FileInv, Kept

\* Nothing is left to be disturbed, marked or listed at first.
LEMMA InitFiles == Init => FileInv
<1> SUFFICES ASSUME Init PROVE FileInv OBVIOUS
<1>1. TypeOK BY InitTypes
<1>2. \A x \in Actors : pc[x] = "idle" /\ listed[x] = {} BY DEF Init
<1>3. Alone /\ Places BY <1>2, ActorFacts DEF Alone, Places, Busy, Import
<1>4. Marks BY <1>2, ActorFacts DEF Marks, Mark, Reliable, Init
<1>5. Roots BY <1>2, ActorFacts DEF Roots, Init
<1>6. Lists BY <1>2, ActorFacts DEF Lists, Listings, Counts, Init
<1>7. Kept BY DEF Kept, Init
<1> QED BY <1>1, <1>3, <1>4, <1>5, <1>6, <1>7 DEF FileInv

LEMMA StutterKeepsFiles ==
  ASSUME FileInv, UNCHANGED vars
  PROVE  FileInv'
<1>1. /\ UNCHANGED <<staged, archive, objects, shared, marked, copy, project, root, pc, torn>>
      /\ UNCHANGED <<listed, last, stray, faults, clashed>>
  BY DEF vars, fileVars, rowVars
<1>2. TypeOK' BY <1>1 DEF FileInv, TypeOK
<1>3. Alone' /\ Places' BY <1>1 DEF FileInv, Alone, Places
<1>4. \A s : (Undisturbed(s)' <=> Undisturbed(s)) /\ (Mark(s)' <=> Mark(s))
  BY <1>1 DEF Undisturbed, Mark, Reliable, AtStep
<1>5. Marks' BY <1>4 DEF FileInv, Marks, Shas
<1>6. Roots' BY <1>1 DEF FileInv, Roots
<1>7. Lists' BY <1>1 DEF FileInv, Lists, Listings, Counts
<1>8. Kept' BY <1>1, <1>4 DEF FileInv, Kept, KeptBy
<1> QED BY <1>2, <1>3, <1>5, <1>6, <1>7, <1>8 DEF FileInv

LEMMA NextKeepsFiles == FileInv /\ [Next]_vars => FileInv'
<1> SUFFICES ASSUME FileInv, [Next]_vars PROVE FileInv' OBVIOUS
<1>1. CASE \E a \in Attempts : ImportStep(a) BY <1>1, ImportKeepsFiles
<1>2. CASE \E j \in Jobs : Withdraw(j) \/ DeleteStep(j) BY <1>2, DeletionKeepsFiles
<1>3. CASE \E x \in Actors : WipeStep(x) BY <1>3, WipeKeepsFiles
<1>4. CASE AllQuiet \/ UNCHANGED vars BY <1>4, StutterKeepsFiles DEF AllQuiet
<1> QED BY <1>1, <1>2, <1>3, <1>4 DEF Next

\* Type correctness: every variable stays in the set of values it is meant for,
\* however the attempts, deletions, wipes and failures interleave.
THEOREM StoreTypes == Spec => []TypeOK
<1>1. FileInv => TypeOK BY DEF FileInv
<1> QED BY <1>1, InitFiles, NextKeepsFiles, PTL DEF Spec

\* The marker .extracted_ok that prepare_snapshot_root_async trusts stands on a
\* root that holds the whole archive, as long as nothing disturbed its content:
\* for any number of imports and deletions, and after any failures and crashes.
THEOREM MarkedRootAlwaysWhole == Spec => []MarkedRootIsWhole
<1>1. FileInv => MarkedRootIsWhole
  BY DEF FileInv, MarkedRootIsWhole, Marks, Mark, TypeOK
<1> QED BY <1>1, InitFiles, NextKeepsFiles, PTL DEF Spec

\* The clone of a project whose import reported success stays whole until the
\* project is deleted, where its content was not disturbed and no failed import of
\* the same content listed the clone when it cleaned up after itself.
THEOREM ProjectsKeepTheirFiles == Spec => []ProjectKeepsItsFiles
<1>1. FileInv => ProjectKeepsItsFiles
  BY DEF FileInv, ProjectKeepsItsFiles, Kept, KeptBy
<1> QED BY <1>1, InitFiles, NextKeepsFiles, PTL DEF Spec

-----------------------------------------------------------------------------
\* A step that leaves faults at zero is not a failure.
LEMMA NoFault ==
  ASSUME TypeOK, faults' = 0, MayFail
  PROVE  faults = 0 /\ \A k : ~Fault(k)
BY StoreAssumption DEF TypeOK, Fault, MayFail

\* What is left of an import: it goes on, one step at a time, and inserts a project
\* at the commit.
LEMMA CalmImports ==
  ASSUME FileInv, Faultless, NEW a \in Attempts, ImportStep(a), faults' = 0
  PROVE  /\ faults = 0 /\ \A k : ~Fault(k)
         /\ stray' = stray /\ pc'[a] \notin {"dead", "cut", "wiping"}
         /\ pc[a] = "idle" =>
              /\ pc'[a] = "move"
              /\ \A b \in Attempts \ {a} : JobOf[b] = JobOf[a] => pc[b] = "idle"
         /\ pc'[a] \in Import \cup {"move", "mkdir", "archive"} =>
              pc[a] \in Import \cup {"idle", "move", "mkdir", "archive"}
         /\ pc[a] \in Import =>
              \/ pc'[a] \in Import \cup {"clean"} /\ UNCHANGED rowVars
              \/ Insert(a) /\ pc'[a] = "refresh"
         /\ pc[a] \notin Import =>
              /\ UNCHANGED <<shared, copy, objects>> /\ pc[a] \notin {"clean", "wiping"}
              /\ archive' = archive \/ pc'[a] \in Import
<1> a \in Actors /\ TypeOK /\ JobOf[a] \in Jobs BY ActorFacts DEF FileInv
<1>0. faults = 0 /\ \A k : ~Fault(k)
  <2>1. MayFail
    BY DEF MayFail, ImportStep, Start, MoveStaged, MakeDir, StoreArchive, Upload, Lookup, Inspect,
          ClearRoot, BeginExtract, EndExtract, BeginClone, EndClone, Commit, Refresh,
          Unstage, CancelEarly, CancelLate, StrayEnds
  <2> QED BY <2>1, NoFault
<1>a. /\ stray[a] = "no" /\ \A b \in Attempts : pc[b] # "dead"
      /\ pc[a] \in Import => project[JobOf[a]] = "none"
  BY <1>0, ActorFacts DEF Faultless
<1>1. CASE Start(a) BY <1>0, <1>a, <1>1 DEF Start, Import, TypeOK, GoTo, fileVars, rowVars
<1>2. CASE MoveStaged(a)
  BY <1>0, <1>a, <1>2 DEF MoveStaged, Import, TypeOK, GoTo, fileVars, rowVars
<1>3. CASE MakeDir(a) BY <1>0, <1>a, <1>3 DEF MakeDir, Import, TypeOK, GoTo, fileVars, rowVars
<1>4. CASE StoreArchive(a)
  BY <1>0, <1>a, <1>4 DEF StoreArchive, Import, TypeOK, GoTo, fileVars, rowVars
<1>5. CASE Upload(a) BY <1>0, <1>a, <1>5 DEF Upload, Import, TypeOK, GoTo, fileVars, rowVars
<1>6. CASE Lookup(a) BY <1>0, <1>a, <1>6 DEF Lookup, Import, TypeOK, GoTo, fileVars, rowVars
<1>7. CASE Inspect(a) BY <1>0, <1>a, <1>7 DEF Inspect, Import, TypeOK, GoTo, fileVars, rowVars
<1>8. CASE ClearRoot(a) BY <1>0, <1>a, <1>8 DEF ClearRoot, Import, TypeOK, GoTo, fileVars, rowVars
<1>9. CASE BeginExtract(a)
  BY <1>0, <1>a, <1>9 DEF BeginExtract, Import, TypeOK, GoTo, fileVars, rowVars
<1>10. CASE EndExtract(a)
  BY <1>0, <1>a, <1>10 DEF EndExtract, Import, TypeOK, GoTo, fileVars, rowVars
<1>11. CASE BeginClone(a)
  BY <1>0, <1>a, <1>11 DEF BeginClone, Import, TypeOK, GoTo, fileVars, rowVars
<1>12. CASE EndClone(a) BY <1>0, <1>a, <1>12 DEF EndClone, Import, TypeOK, GoTo, fileVars, rowVars
<1>13. CASE Commit(a) BY <1>0, <1>a, <1>13 DEF Commit, Import, TypeOK, GoTo, fileVars, rowVars
<1>14. CASE Refresh(a) BY <1>0, <1>a, <1>14 DEF Refresh, Import, TypeOK, GoTo, fileVars, rowVars
<1>15. CASE Unstage(a) BY <1>0, <1>a, <1>15 DEF Unstage, Import, TypeOK, GoTo, fileVars, rowVars
<1>16. ~CancelEarly(a) /\ ~CancelLate(a) /\ ~StrayEnds(a)
  BY <1>0, <1>a DEF CancelEarly, CancelLate, StrayEnds
<1> QED
  BY <1>1, <1>2, <1>3, <1>4, <1>5, <1>6, <1>7, <1>8, <1>9, <1>10, <1>11, <1>12, <1>13, <1>14,
     <1>15, <1>16
    DEF ImportStep

LEMMA ImportFaultless ==
  ASSUME FileInv, Faultless, NEW a \in Attempts, ImportStep(a)
  PROVE  Faultless'
<1> SUFFICES ASSUME faults' = 0 PROVE Faultless' BY DEF Faultless
<1> TypeOK /\ Roots BY DEF FileInv
<1>1. /\ faults = 0 /\ stray' = stray /\ pc'[a] \notin {"dead", "cut", "wiping"}
      /\ pc[a] = "idle" => \A b \in Attempts \ {a} : JobOf[b] = JobOf[a] => pc[b] = "idle"
      /\ pc'[a] \in Import \cup {"move", "mkdir", "archive"} =>
           pc[a] \in Import \cup {"idle", "move", "mkdir", "archive"}
  BY CalmImports
<1>2. /\ \A y \in Actors \ {a} : pc'[y] = pc[y]
      /\ UNCHANGED rowVars \/ (Insert(a) /\ pc[a] = "commit" /\ pc'[a] \in {"refresh", "clean"})
  BY ImportGoesOn
<1>3. /\ \A y \in Actors \ {a} : pc[y] \notin {"dead", "cut"}
      /\ \A b \in Attempts : stray[b] = "no"
      /\ \A b, c \in Attempts : JobOf[b] = JobOf[c] /\ b # c => pc[b] = "idle" \/ pc[c] = "idle"
      /\ \A b \in Attempts : pc[b] \in Import \cup {"move", "mkdir", "archive"} =>
           project[JobOf[b]] = "none"
      /\ \A j \in Jobs : project[j] = "live" => pc[j] \in {"idle", "forget"}
  BY <1>1 DEF Faultless
<1>4. \A x \in Actors : pc'[x] \notin {"dead", "cut"} BY <1>1, <1>2, <1>3
<1>5. \A b, c \in Attempts : JobOf[b] = JobOf[c] /\ b # c => pc'[b] = "idle" \/ pc'[c] = "idle"
  BY <1>1, <1>2, <1>3, ActorFacts
<1>6. ASSUME NEW b \in Attempts, pc'[b] \in Import \cup {"move", "mkdir", "archive"}
      PROVE  project'[JobOf[b]] = "none"
  <2>1. project[JobOf[b]] = "none"
    <3>1. CASE b = a /\ pc[a] = "idle"
      <4>1. \A c \in Attempts : JobOf[c] = JobOf[a] => pc[c] \notin Late
        BY <1>1, <3>1 DEF Late, Ended
      <4> QED BY <3>1, <4>1, ActorFacts DEF Roots, TypeOK
    <3>2. CASE b = a /\ pc[a] # "idle" BY <1>1, <1>3, <1>6, <3>2
    <3>3. CASE b # a BY <1>2, <1>3, <1>6, <3>3, ActorFacts
    <3> QED BY <3>1, <3>2, <3>3
  <2>2. CASE UNCHANGED rowVars BY <2>1, <2>2 DEF rowVars
  <2>3. CASE Insert(a) /\ pc[a] = "commit" /\ pc'[a] \in {"refresh", "clean"}
    <3>1. b # a BY <1>6, <2>3 DEF Import
    <3>2. pc[b] # "idle" BY <1>2, <1>6, <3>1, ActorFacts DEF Import
    <3>3. JobOf[b] # JobOf[a] BY <1>3, <2>3, <3>1, <3>2
    <3> QED BY <2>1, <2>3, <3>3, InsertDoes, ActorFacts
  <2> QED BY <1>2, <2>2, <2>3
<1>7. ASSUME NEW j \in Jobs, project'[j] = "live"
      PROVE  pc'[j] \in {"idle", "forget"}
  <2>1. pc'[j] = pc[j] BY <1>2, ActorFacts
  <2>2. CASE project[j] = "live" BY <1>3, <2>1, <2>2
  <2>3. CASE project[j] # "live"
    <3>1. Insert(a) /\ pc[a] = "commit" BY <1>2, <1>7, <2>3 DEF rowVars
    <3>2. j = JobOf[a] BY <1>7, <2>3, <3>1, InsertDoes
    <3>3. project[j] = "none" BY <1>3, <3>1, <3>2 DEF Import
    <3> QED BY <2>1, <3>3 DEF Roots
  <2> QED BY <2>2, <2>3
<1> QED BY <1>1, <1>3, <1>4, <1>5, <1>6, <1>7 DEF Faultless

\* What is left of a deletion.
LEMMA CalmDeletions ==
  ASSUME TypeOK, NEW j \in Jobs, Withdraw(j) \/ DeleteStep(j), faults' = 0
  PROVE  /\ faults = 0 /\ UNCHANGED <<stray, archive, shared, objects, root, listed>>
         /\ \A y \in Actors \ {j} : pc'[y] = pc[y]
         /\ \A k \in Jobs \ {j} : project'[k] = project[k]
         /\ \/ /\ ReadRefs(j) /\ pc[j] = "idle" /\ pc'[j] = "forget" /\ project[j] = "live"
               /\ UNCHANGED <<project, copy>>
               /\ last' = last \cup {j} \/ (last' = last /\ ProjectsOf(ShaOf[j]) # {j})
            \/ /\ Forget(j) /\ pc[j] = "forget" /\ pc'[j] = "remove" /\ project'[j] = "gone"
               /\ UNCHANGED <<last, copy>>
            \/ /\ RemoveRoot(j) /\ pc[j] = "remove"
               /\ pc'[j] = IF j \in last THEN "clean" ELSE "done"
               /\ UNCHANGED <<project, last>>
               /\ \A a \in Attempts : copy'[a] \in {"none", copy[a]}
<1> j \in Actors BY ActorFacts
<1>1. faults = 0 /\ \A k : ~Fault(k)
  <2>1. MayFail
    BY DEF MayFail, Withdraw, DeleteStep, ReadRefs, Forget, RemoveRoot
  <2> QED BY <2>1, NoFault
<1>2. ~Withdraw(j) BY <1>1 DEF Withdraw
<1>3. CASE ReadRefs(j) BY <1>1, <1>3 DEF ReadRefs, TypeOK, GoTo, fileVars, rowVars
<1>4. CASE Forget(j) BY <1>1, <1>4 DEF Forget, TypeOK, GoTo, fileVars
<1>5. CASE RemoveRoot(j) BY <1>1, <1>5 DEF RemoveRoot, TypeOK, GoTo, rowVars
<1> QED BY <1>2, <1>3, <1>4, <1>5 DEF DeleteStep

LEMMA DeletionFaultless ==
  ASSUME FileInv, Faultless, NEW j \in Jobs, Withdraw(j) \/ DeleteStep(j)
  PROVE  Faultless'
<1> SUFFICES ASSUME faults' = 0 PROVE Faultless' BY DEF Faultless
<1> TypeOK /\ Roots /\ j \in Actors BY ActorFacts DEF FileInv
<1>1. /\ faults = 0 /\ stray' = stray
      /\ \A y \in Actors \ {j} : pc'[y] = pc[y]
      /\ \A k \in Jobs \ {j} : project'[k] = project[k]
      /\ project[j] # "none" => project'[j] = project[j] \/ project'[j] = "gone"
      /\ pc[j] = "idle" => project[j] = "live" /\ project'[j] = "live"
      /\ \/ pc[j] = "idle" /\ pc'[j] = "forget"
         \/ project'[j] = "gone"
         \/ project'[j] = project[j] /\ pc[j] = "remove"
      /\ pc'[j] \notin {"dead", "cut"}
  BY CalmDeletions
<1>2. /\ \A y \in Actors \ {j} : pc[y] \notin {"dead", "cut"}
      /\ \A b \in Attempts : stray[b] = "no"
      /\ \A b, c \in Attempts : JobOf[b] = JobOf[c] /\ b # c => pc[b] = "idle" \/ pc[c] = "idle"
      /\ \A b \in Attempts : pc[b] \in Import \cup {"move", "mkdir", "archive"} =>
           project[JobOf[b]] = "none"
      /\ \A k \in Jobs : project[k] = "live" => pc[k] \in {"idle", "forget"}
  BY <1>1 DEF Faultless
<1>3. \A b \in Attempts : pc'[b] = pc[b] BY <1>1, ActorFacts
<1>4. project[j] # "none" BY <1>1 DEF Roots
<1>5. \A k \in Jobs : project[k] = "none" => project'[k] = "none" BY <1>1, <1>4
<1>6. \A k \in Jobs : project'[k] = "live" => pc'[k] \in {"idle", "forget"}
  BY <1>1, <1>2, ActorFacts
<1> QED BY <1>1, <1>2, <1>3, <1>5, <1>6, ActorFacts DEF Faultless

\* What is left of a wipe.
LEMMA CalmWipes ==
  ASSUME TypeOK, NEW x \in Actors, WipeStep(x), faults' = 0
  PROVE  /\ faults = 0 /\ UNCHANGED <<stray, rowVars, last>>
         /\ \A y \in Actors \ {x} : pc'[y] = pc[y] /\ listed'[y] = listed[y]
         /\ \/ /\ BeginWipe(x) /\ pc[x] = "clean" /\ pc'[x] = "wiping"
               /\ listed'[x] = ClonesOf(Sha(x)) /\ copy' = copy
               /\ objects' = objects \ {Key(x)}
            \/ /\ EndWipe(x) /\ pc[x] = "wiping" /\ pc'[x] \in {"done", "unstage"}
               /\ UNCHANGED <<objects, listed>>
               /\ \A a \in Attempts : copy'[a] \in {"none", copy[a]}
<1>1. faults = 0 /\ \A k : ~Fault(k)
  <2>1. MayFail
    BY DEF MayFail, WipeStep, BeginWipe, EndWipe, WipeStops, Dies
  <2> QED BY <2>1, NoFault
<1>2. ~WipeStops(x) /\ ~Dies(x) BY <1>1 DEF WipeStops, Dies
<1>3. CASE BeginWipe(x) BY <1>1, <1>3 DEF BeginWipe, TypeOK, GoTo, rowVars
<1>4. CASE EndWipe(x) BY <1>1, <1>4 DEF EndWipe, TypeOK, GoTo, rowVars
<1> QED BY <1>2, <1>3, <1>4 DEF WipeStep

LEMMA WipeFaultless ==
  ASSUME FileInv, Faultless, NEW x \in Actors, WipeStep(x)
  PROVE  Faultless'
<1> SUFFICES ASSUME faults' = 0 PROVE Faultless' BY DEF Faultless
<1>1. /\ faults = 0 /\ UNCHANGED <<stray, rowVars>>
      /\ \A y \in Actors \ {x} : pc'[y] = pc[y]
      /\ pc[x] \in {"clean", "wiping"} /\ pc'[x] \in {"wiping", "done", "unstage"}
  BY CalmWipes DEF FileInv
<1>2. /\ \A y \in Actors : pc[y] \notin {"dead", "cut"}
      /\ \A b \in Attempts : stray[b] = "no"
      /\ \A b, c \in Attempts : JobOf[b] = JobOf[c] /\ b # c => pc[b] = "idle" \/ pc[c] = "idle"
      /\ \A b \in Attempts : pc[b] \in Import \cup {"move", "mkdir", "archive"} =>
           project[JobOf[b]] = "none"
      /\ \A k \in Jobs : project[k] = "live" => pc[k] \in {"idle", "forget"}
  BY <1>1 DEF Faultless
<1>3. \A y \in Actors :
        \/ pc'[y] = pc[y]
        \/ y = x /\ pc[y] # "idle" /\ pc'[y] \in {"wiping", "done", "unstage"}
  BY <1>1
<1>4. \A b, c \in Attempts : JobOf[b] = JobOf[c] /\ b # c => pc'[b] = "idle" \/ pc'[c] = "idle"
  BY <1>2, <1>3, ActorFacts
<1>5. \A k \in Jobs : project'[k] = "live" => pc'[k] \in {"idle", "forget"}
  BY <1>1, <1>2, <1>3, ActorFacts DEF rowVars
<1>6. \A b \in Attempts : pc'[b] \in Import \cup {"move", "mkdir", "archive"} => pc'[b] = pc[b]
  BY <1>3, ActorFacts DEF Import
<1> QED BY <1>1, <1>2, <1>3, <1>4, <1>5, <1>6 DEF Faultless, rowVars

-----------------------------------------------------------------------------
\* Other hashes are cared for as before.
LEMMA CaredElsewhere ==
  ASSUME TypeOK, NEW x \in Actors, Elsewhere(x), NEW s \in Shas \ {Sha(x)}, CaredFor(s)
  PROVE  CaredFor(s)'
<1>1. /\ \A a \in Attempts : Sha(a) = s => copy'[a] = copy[a] /\ pc'[a] = pc[a] /\ a \in Actors
      /\ \A y \in Actors : Sha(y) = s => pc'[y] = pc[y] /\ listed'[y] = listed[y]
      /\ \A j \in Jobs : ShaOf[j] = s =>
           project'[j] = project[j] /\ (j \in last' <=> j \in last) /\ pc'[j] = pc[j]
      /\ shared'[s] = shared[s] /\ (s \in archive' <=> s \in archive)
  BY ActorFacts DEF Elsewhere
<1>2. ClonesOf(s)' = ClonesOf(s) BY <1>1 DEF ClonesOf
<1>3. Residue(s)' => Residue(s) BY <1>1, <1>2 DEF Residue
<1>4. InUse(s) => InUse(s)' BY <1>1 DEF InUse
<1>5. Crossed(s) => Crossed(s)' BY <1>1 DEF Crossed
<1>6. Wiped(s) => Wiped(s)' BY <1>1, <1>2 DEF Wiped
<1>7. ToCome(s) => ToCome(s)'
  <2>1. ASSUME NEW j \in last, ShaOf[j] = s, pc[j] \in {"forget", "remove", "clean"}, j \in Jobs
        PROVE  ToCome(s)'
    BY <1>1, <2>1 DEF ToCome
  <2>2. ASSUME NEW a \in Attempts, Sha(a) = s, pc[a] \in Import \cup {"clean"} PROVE ToCome(s)'
    BY <1>1, <2>2 DEF ToCome
  <2> QED BY <2>1, <2>2 DEF ToCome, TypeOK
<1> QED BY <1>3, <1>4, <1>5, <1>6, <1>7 DEF CaredFor

LEMMA ImportCares ==
  ASSUME FileInv, Faultless, NEW a \in Attempts, ImportStep(a), faults' = 0, CaredFor(Sha(a))
  PROVE  CaredFor(Sha(a))'
<1> DEFINE s == Sha(a)
<1> a \in Actors /\ TypeOK /\ Roots BY ActorFacts DEF FileInv
<1>1. /\ faults = 0
      /\ \A y \in Actors \ {a} : pc'[y] = pc[y]
      /\ UNCHANGED <<listed, last>>
      /\ UNCHANGED rowVars \/ (Insert(a) /\ pc[a] = "commit")
  BY CalmImports, ImportGoesOn
<1>2. CASE pc[a] \in Import
  <2>1. CASE pc'[a] \in Import \cup {"clean"} BY <2>1 DEF ToCome, CaredFor
  <2>2. CASE Insert(a)
    <3>1. project[JobOf[a]] = "none" BY <1>1, <1>2 DEF Faultless
    <3>2. pc'[JobOf[a]] = "idle" BY <1>1, <3>1, ActorFacts DEF Roots
    <3>3. project'[JobOf[a]] = "live" BY <2>2, InsertDoes
    <3> QED BY <3>2, <3>3, ActorFacts DEF InUse, CaredFor
  <2> QED BY <1>2, <2>1, <2>2, CalmImports
<1>3. CASE pc[a] \notin Import /\ pc'[a] \in Import BY <1>3 DEF ToCome, CaredFor
<1>4. CASE pc[a] \notin Import /\ pc'[a] \notin Import
  <2>1. /\ UNCHANGED <<shared, copy, archive>> /\ pc[a] \notin Import \cup {"clean", "wiping"}
        /\ UNCHANGED <<listed, last, rowVars>>
        /\ \A j \in Jobs : pc'[j] = pc[j] /\ j \in Actors
        /\ last \subseteq Jobs
    BY <1>1, <1>4, CalmImports, ActorFacts DEF Import, TypeOK
  <2>2. ClonesOf(s)' = ClonesOf(s) BY <2>1 DEF ClonesOf
  <2>3. Residue(s)' => Residue(s) BY <2>1, <2>2 DEF Residue
  <2>4. InUse(s) => InUse(s)' BY <2>1 DEF InUse, rowVars
  <2>5. Crossed(s) => Crossed(s)' BY <2>1 DEF Crossed, rowVars
  <2>6. Wiped(s) => Wiped(s)' BY <1>1, <2>1, <2>2 DEF Wiped
  <2>7. ToCome(s) => ToCome(s)' BY <1>1, <2>1, ActorFacts DEF ToCome
  <2> QED BY <2>3, <2>4, <2>5, <2>6, <2>7 DEF CaredFor
<1> QED BY <1>2, <1>3, <1>4

LEMMA DeletionCares ==
  ASSUME FileInv, Faultless, NEW j \in Jobs, Withdraw(j) \/ DeleteStep(j), faults' = 0,
         CaredFor(ShaOf[j])
  PROVE  CaredFor(ShaOf[j])'
<1> DEFINE s == ShaOf[j]
<1> j \in Actors /\ TypeOK /\ Roots /\ Sha(j) = s /\ last \subseteq Jobs
  BY ActorFacts DEF FileInv, TypeOK
<1>1. /\ faults = 0 /\ UNCHANGED <<archive, shared, listed>>
      /\ \A y \in Actors \ {j} : pc'[y] = pc[y]
      /\ \A k \in Jobs \ {j} : project'[k] = project[k]
      /\ \A a \in Attempts : copy'[a] \in {"none", copy[a]}
  BY CalmDeletions
<1>2. ClonesOf(s)' \subseteq ClonesOf(s) BY <1>1 DEF ClonesOf
<1>3. Residue(s)' => Residue(s) BY <1>1, <1>2 DEF Residue
<1>4. /\ \A k \in Jobs \ {j} : pc'[k] = pc[k] /\ k \in Actors
      /\ \A a \in Attempts : pc'[a] = pc[a]
      /\ \A k \in Jobs : project[k] = "live" => pc[k] \in {"idle", "forget"}
  BY <1>1, ActorFacts DEF Faultless
<1>5. CASE ReadRefs(j)
  <2>1. /\ pc'[j] = "forget" /\ UNCHANGED project
        /\ last' = last \cup {j} \/ (last' = last /\ ProjectsOf(s) # {j})
        /\ project[j] = "live" /\ pc[j] = "idle"
    BY <1>5, CalmDeletions DEF ReadRefs, Forget, RemoveRoot
  <2>2. CASE j \in last' BY <2>1, <2>2 DEF ToCome, CaredFor
  <2>3. CASE j \notin last'
    <3>1. last' = last BY <2>1, <2>3
    <3>2. PICK k \in Jobs \ {j} : ShaOf[k] = s /\ project[k] = "live"
      BY <2>1, <2>3 DEF ProjectsOf
    <3>3. CASE pc[k] = "idle" BY <1>4, <2>1, <3>2, <3>3 DEF InUse, CaredFor
    <3>4. CASE pc[k] = "forget" /\ k \in last BY <1>4, <3>1, <3>2, <3>4 DEF ToCome, CaredFor
    <3>5. CASE pc[k] = "forget" /\ k \notin last
      BY <1>4, <2>1, <2>3, <3>1, <3>2, <3>5 DEF Crossed, CaredFor
    <3> QED BY <1>4, <3>2, <3>3, <3>4, <3>5
  <2> QED BY <2>2, <2>3
<1>6. CASE Forget(j) \/ RemoveRoot(j)
  <2>1. /\ last' = last /\ pc[j] \in {"forget", "remove"}
        /\ j \in last => pc'[j] \in {"remove", "clean"}
        /\ pc[j] = "forget" => project'[j] = "gone"
        /\ pc[j] # "forget" => project'[j] = project[j]
    BY <1>6, CalmDeletions DEF ReadRefs, Forget, RemoveRoot
  <2>2. InUse(s) => InUse(s)' BY <1>1, <1>4, <2>1 DEF InUse
  <2>3. Crossed(s) => Crossed(s)' BY <1>1, <1>4, <2>1 DEF Crossed
  <2>4. Wiped(s) => Wiped(s)' BY <1>1, <1>2, <2>1 DEF Wiped
  <2>5. ToCome(s) => ToCome(s)'
    <3>1. ASSUME NEW k \in last, ShaOf[k] = s, pc[k] \in {"forget", "remove", "clean"}, k \in Jobs
          PROVE  ToCome(s)'
      BY <1>4, <2>1, <3>1 DEF ToCome
    <3>2. ASSUME NEW a \in Attempts, Sha(a) = s, pc[a] \in Import \cup {"clean"} PROVE ToCome(s)'
      BY <1>4, <3>2 DEF ToCome
    <3> QED BY <3>1, <3>2 DEF ToCome
  <2> QED BY <1>3, <2>2, <2>3, <2>4, <2>5 DEF CaredFor
<1> QED BY <1>5, <1>6, CalmDeletions

LEMMA WipeCares ==
  ASSUME FileInv, Faultless, NEW x \in Actors, WipeStep(x), faults' = 0, CaredFor(Sha(x))
  PROVE  CaredFor(Sha(x))'
<1> DEFINE s == Sha(x)
<1> TypeOK /\ last \subseteq Jobs /\ Places BY DEF FileInv, TypeOK
<1>1. /\ faults = 0 /\ UNCHANGED <<rowVars, last>>
      /\ \A y \in Actors \ {x} : pc'[y] = pc[y] /\ listed'[y] = listed[y]
  BY CalmWipes
<1>2. CASE BeginWipe(x)
  <2>1. pc'[x] = "wiping" /\ ClonesOf(s)' = listed'[x]
    BY <1>2, CalmWipes DEF BeginWipe, EndWipe, ClonesOf
  <2> QED BY <2>1 DEF Wiped, CaredFor
<1>3. CASE EndWipe(x) /\ Extracting(s) # {}
  <2>1. PICK a \in Attempts : Sha(a) = s /\ pc[a] = "extracting"
    BY <1>1, <1>3, ActorFacts DEF Extracting, AtStep, StrayAt, Faultless, Places, Ended
  <2>2. a # x /\ a \in Actors BY <1>3, <2>1, ActorFacts DEF EndWipe
  <2>3. pc'[a] \in Import BY <1>1, <2>1, <2>2 DEF Import
  <2> QED BY <2>1, <2>3 DEF ToCome, CaredFor
<1>4. CASE EndWipe(x) /\ Extracting(s) = {}
  <2>1. /\ pc[x] = "wiping" /\ pc'[x] \in {"done", "unstage"} /\ shared'[s] = "none"
        /\ ClonesOf(s) \subseteq listed[x] => s \notin archive'
        /\ copy' = [a \in Attempts |-> IF a \in listed[x] THEN "none" ELSE copy[a]]
        /\ listed' = listed
    <3>1. ClonesOf(s) \ listed[x] = {} <=> ClonesOf(s) \subseteq listed[x] OBVIOUS
    <3> QED BY <1>4, <3>1, ActorFacts DEF EndWipe, TypeOK, GoTo
  <2>2. ClonesOf(s)' = ClonesOf(s) \ listed[x] BY <2>1 DEF ClonesOf
  <2>3. CASE ClonesOf(s) \subseteq listed[x]
    <3>1. ~Residue(s)' BY <2>1, <2>2, <2>3 DEF Residue
    <3> QED BY <3>1 DEF CaredFor
  <2>4. CASE ~(ClonesOf(s) \subseteq listed[x])
    <3>1. Residue(s) BY <2>4 DEF Residue
    <3>2. /\ \A k \in Jobs : pc[k] \in {"idle", "forget", "remove", "clean"} => pc'[k] = pc[k]
          /\ \A a \in Attempts : pc[a] \in Import \cup {"clean"} => pc'[a] = pc[a]
      BY <1>1, <2>1, ActorFacts DEF Import
    <3>3. InUse(s) => InUse(s)' BY <1>1, <3>2 DEF InUse, rowVars
    <3>4. Crossed(s) => Crossed(s)' BY <1>1, <3>2 DEF Crossed, rowVars
    <3>5. Wiped(s) => Wiped(s)' BY <1>1, <2>1, <2>2, <2>4 DEF Wiped
    <3>6. ToCome(s) => ToCome(s)' BY <1>1, <3>2 DEF ToCome
    <3> QED BY <3>1, <3>3, <3>4, <3>5, <3>6 DEF CaredFor
  <2> QED BY <2>3, <2>4
<1> QED BY <1>2, <1>3, <1>4, CalmWipes

-----------------------------------------------------------------------------
\* The objects: an import on its way, a deletion that is to wipe, a project, or
\* a deletion that counted another project accounts for each.
LEMMA ImportKeys ==
  ASSUME FileInv, Faultless, NEW a \in Attempts, ImportStep(a), faults' = 0, NEW k \in objects',
         k \in objects => Keyed(k)
  PROVE  Keyed(k)'
<1> a \in Actors /\ JobOf[a] \in Jobs /\ Key(a) = Key(JobOf[a]) /\ TypeOK
  BY ActorFacts DEF FileInv
<1>1. /\ faults = 0 /\ last' = last
      /\ \A y \in Actors \ {a} : pc'[y] = pc[y]
      /\ UNCHANGED rowVars \/ Insert(a)
  BY CalmImports, ImportGoesOn
<1>2. CASE k \notin objects
  <2>1. Upload(a)
    BY <1>2
      DEF ImportStep, Start, MoveStaged, MakeDir, StoreArchive, Upload, Lookup, Inspect,
          ClearRoot, BeginExtract, EndExtract, BeginClone, EndClone, Commit, Refresh,
          Unstage, CancelEarly, CancelLate, StrayEnds, fileVars
  <2>2. k = Key(a) /\ pc'[a] = "lookup" BY <1>2, <2>1 DEF Upload, GoTo, TypeOK
  <2> QED BY <2>2 DEF Keyed, Import
<1>3. CASE k \in objects
  <2>1. CASE Insert(a) /\ Key(JobOf[a]) = k BY <2>1, InsertDoes DEF Keyed
  <2>2. CASE ~(Insert(a) /\ Key(JobOf[a]) = k)
    <3>1. \A j \in Jobs : Key(j) = k => project'[j] = project[j]
      BY <1>1, <2>2, InsertDoes DEF rowVars
    <3>2. \A j \in Jobs : pc'[j] = pc[j] BY <1>1, ActorFacts
    <3>3. ASSUME NEW b \in Attempts, Key(b) = k, pc[b] \in Import \cup {"clean"}
          PROVE  pc'[b] \in Import \cup {"clean"}
      <4>1. CASE b # a BY <1>1, <3>3, <4>1, ActorFacts
      <4>2. CASE b = a BY <2>2, <3>3, <4>2, CalmImports DEF Import
      <4> QED BY <4>1, <4>2
    <3>4. last \subseteq Jobs BY DEF TypeOK
    <3> QED BY <1>1, <1>3, <3>1, <3>2, <3>3, <3>4 DEF Keyed
  <2> QED BY <1>1, <2>1, <2>2
<1> QED BY <1>2, <1>3

LEMMA DeletionKeys ==
  ASSUME FileInv, NEW j \in Jobs, Withdraw(j) \/ DeleteStep(j), faults' = 0, NEW k, Keyed(k)
  PROVE  Keyed(k)'
<1> j \in Actors /\ TypeOK /\ Roots /\ last \subseteq Jobs BY ActorFacts DEF FileInv, TypeOK
<1>1. /\ \A y \in Actors \ {j} : pc'[y] = pc[y]
      /\ \A i \in Jobs \ {j} : project'[i] = project[i]
      /\ last' \subseteq last \cup {j} /\ last \subseteq last'
  BY CalmDeletions
<1>2. \A i \in Jobs \ {j} : pc'[i] = pc[i] BY <1>1, ActorFacts
<1>3. \A a \in Attempts : pc'[a] = pc[a] BY <1>1, ActorFacts
<1>4. CASE Key(j) # k BY <1>1, <1>2, <1>3, <1>4 DEF Keyed
<1>5. CASE Key(j) = k
  <2>1. CASE ReadRefs(j)
    <3>1. project'[j] = "live" BY <2>1, CalmDeletions DEF ReadRefs, Forget, RemoveRoot
    <3> QED BY <1>5, <3>1 DEF Keyed
  <2>2. CASE Forget(j)
    <3>1. project'[j] = "gone" /\ pc'[j] = "remove"
      BY <2>2, CalmDeletions DEF ReadRefs, Forget, RemoveRoot
    <3>2. CASE j \in last' BY <1>5, <3>1, <3>2 DEF Keyed
    <3>3. CASE j \notin last' BY <1>5, <3>1, <3>3 DEF Keyed
    <3> QED BY <3>2, <3>3
  <2>3. CASE RemoveRoot(j)
    <3>1. pc'[j] = (IF j \in last THEN "clean" ELSE "done") /\ last' = last /\ project' = project
      BY <2>3, CalmDeletions DEF ReadRefs, Forget, RemoveRoot
    <3>2. CASE j \in last BY <1>5, <3>1, <3>2 DEF Keyed
    <3>3. CASE j \notin last BY <1>1, <1>2, <1>3, <3>1, <3>3 DEF Keyed
    <3> QED BY <3>2, <3>3
  <2> QED BY <2>1, <2>2, <2>3, CalmDeletions
<1> QED BY <1>4, <1>5

LEMMA WipeKeys ==
  ASSUME TypeOK, NEW x \in Actors, WipeStep(x), faults' = 0, NEW k \in objects', Keyed(k)
  PROVE  Keyed(k)'
<1>1. /\ UNCHANGED <<rowVars, last>> /\ \A y \in Actors \ {x} : pc'[y] = pc[y]
      /\ pc[x] = "wiping" \/ (pc[x] = "clean" /\ Key(x) # k)
  BY CalmWipes
<1>2. /\ \A a \in Attempts : pc[a] \in Import \cup {"clean"} /\ Key(a) = k => pc'[a] = pc[a]
      /\ \A j \in Jobs : pc[j] \in {"forget", "remove", "clean"} /\ Key(j) = k => pc'[j] = pc[j]
  BY <1>1, ActorFacts DEF Import
<1> QED BY <1>1, <1>2 DEF Keyed, TypeOK, rowVars

LEMMA WipeObjects ==
  ASSUME TypeOK, NEW x \in Actors, WipeStep(x), faults' = 0
  PROVE  objects' \subseteq objects
BY CalmWipes

LEMMA DeletionObjects ==
  ASSUME TypeOK, NEW j \in Jobs, Withdraw(j) \/ DeleteStep(j), faults' = 0
  PROVE  objects' = objects
BY CalmDeletions

-----------------------------------------------------------------------------
\* So nothing is forgotten while nothing fails.
LEMMA CaredInit == Init => Faultless /\ Cared /\ ObjectCared
<1> SUFFICES ASSUME Init PROVE Faultless /\ Cared /\ ObjectCared OBVIOUS
<1>1. \A x \in Actors : pc[x] = "idle" BY DEF Init
<1>2. Faultless BY <1>1, ActorFacts DEF Init, Faultless, Import
<1>3. \A s \in Shas : ~Residue(s) BY DEF Init, Residue, ClonesOf
<1>4. Cared BY <1>3 DEF Cared, CaredFor
<1>5. ObjectCared BY DEF Init, ObjectCared
<1> QED BY <1>2, <1>4, <1>5

LEMMA StepCares ==
  ASSUME TypeOK, Cared, NEW x \in Actors, Elsewhere(x), faults' = 0 => faults = 0,
         faults' = 0 /\ CaredFor(Sha(x)) => CaredFor(Sha(x))'
  PROVE  Cared'
<1>1. Shas' = Shas /\ Sha(x) \in Shas BY ActorFacts DEF Shas
<1>2. ASSUME faults' = 0, NEW s \in Shas PROVE CaredFor(s)'
  <2>1. CaredFor(s) BY <1>2 DEF Cared
  <2>2. CASE s = Sha(x) BY <1>2, <2>1, <2>2
  <2>3. CASE s # Sha(x) BY <2>1, <2>3, CaredElsewhere
  <2> QED BY <2>2, <2>3
<1> QED BY <1>1, <1>2 DEF Cared

LEMMA ImportStepCares ==
  ASSUME IInv, NEW a \in Attempts, ImportStep(a)
  PROVE  IInv'
<1> a \in Actors /\ FileInv /\ Faultless /\ TypeOK BY ActorFacts DEF IInv, FileInv
<1>1. FileInv' /\ Faultless' BY ImportKeepsFiles, ImportFaultless
<1>2. Elsewhere(a) BY ImportElsewhere DEF FileInv
<1>3. faults' = 0 => faults = 0 BY CalmImports
<1>4. Cared' BY <1>2, <1>3, ImportCares, StepCares DEF IInv
<1>5. ObjectCared' BY <1>3, ImportKeys DEF IInv, ObjectCared
<1> QED BY <1>1, <1>4, <1>5 DEF IInv

LEMMA DeletionStepCares ==
  ASSUME IInv, NEW j \in Jobs, Withdraw(j) \/ DeleteStep(j)
  PROVE  IInv'
<1> j \in Actors /\ Sha(j) = ShaOf[j] /\ FileInv /\ Faultless /\ TypeOK
  BY ActorFacts DEF IInv, FileInv
<1>1. FileInv' /\ Faultless' BY DeletionKeepsFiles, DeletionFaultless
<1>2. Elsewhere(j) BY DeletionElsewhere DEF FileInv
<1>3. faults' = 0 => faults = 0 BY CalmDeletions
<1>4. Cared' BY <1>2, <1>3, DeletionCares, StepCares DEF IInv
<1>5. ObjectCared' BY <1>3, DeletionKeys, DeletionObjects DEF IInv, ObjectCared
<1> QED BY <1>1, <1>4, <1>5 DEF IInv

LEMMA WipeStepCares ==
  ASSUME IInv, NEW x \in Actors, WipeStep(x)
  PROVE  IInv'
<1> FileInv /\ Faultless /\ TypeOK BY DEF IInv, FileInv
<1>1. FileInv' /\ Faultless' BY WipeKeepsFiles, WipeFaultless
<1>2. Elsewhere(x) BY WipeElsewhere DEF FileInv
<1>3. faults' = 0 => faults = 0 BY CalmWipes
<1>4. Cared' BY <1>2, <1>3, WipeCares, StepCares DEF IInv
<1>5. ObjectCared' BY <1>3, WipeKeys, WipeObjects DEF IInv, ObjectCared
<1> QED BY <1>1, <1>4, <1>5 DEF IInv

LEMMA StutterCares ==
  ASSUME IInv, UNCHANGED vars
  PROVE  IInv'
<1>1. UNCHANGED <<archive, objects, shared, copy, project, pc, listed, last, stray, faults>>
  BY DEF vars, fileVars, rowVars
<1>2. FileInv' BY StutterKeepsFiles DEF IInv
<1>3. Faultless' BY <1>1 DEF IInv, Faultless
<1>4. \A s : CaredFor(s)' <=> CaredFor(s)
  BY <1>1 DEF CaredFor, Residue, ToCome, InUse, Crossed, Wiped, ClonesOf
<1>5. Cared' BY <1>1, <1>4 DEF IInv, Cared, Shas
<1>6. ObjectCared' BY <1>1 DEF IInv, ObjectCared, Keyed
<1> QED BY <1>2, <1>3, <1>5, <1>6 DEF IInv

LEMMA Inductive == IInv /\ [Next]_vars => IInv'
<1> SUFFICES ASSUME IInv, [Next]_vars PROVE IInv' OBVIOUS
<1>1. CASE \E a \in Attempts : ImportStep(a) BY <1>1, ImportStepCares
<1>2. CASE \E j \in Jobs : Withdraw(j) \/ DeleteStep(j) BY <1>2, DeletionStepCares
<1>3. CASE \E x \in Actors : WipeStep(x) BY <1>3, WipeStepCares
<1>4. CASE AllQuiet \/ UNCHANGED vars BY <1>4, StutterCares DEF AllQuiet
<1> QED BY <1>1, <1>2, <1>3, <1>4 DEF Next

\* Where nothing is on its way on a hash, whoever cares for what is left of it is
\* a project or two deletions that crossed.
LEMMA SettledFacts ==
  ASSUME TypeOK, NEW s, Settled(s)
  PROVE  \A x \in Actors : Sha(x) = s => pc[x] \in Ended \cup {"idle"}
BY DEF TypeOK, Settled, Underway, AtStep

\* When nothing failed, the disk space of content without a project is given back
\* by delete_project_async, unless two deletions of the last two projects each saw
\* the other's project in their count of references.
THEOREM LeftOnlyByCrossedDeletions == Spec => []LeftOnlyByCrossedDeletes
<1>1. IInv => LeftOnlyByCrossedDeletes
  <2> SUFFICES ASSUME IInv, NEW s \in Shas, faults = 0, Settled(s), ProjectsOf(s) = {}, Residue(s)
               PROVE  \E j, k \in Jobs \ last :
                        /\ j # k /\ ShaOf[j] = s /\ ShaOf[k] = s
                        /\ project[j] = "gone" /\ project[k] = "gone"
    BY DEF LeftOnlyByCrossedDeletes, Residue
  <2>1. \A x \in Actors : Sha(x) = s => pc[x] \in Ended \cup {"idle"}
    BY SettledFacts DEF IInv, FileInv
  <2>2. ~ToCome(s)
    <3>1. last \subseteq Jobs BY DEF IInv, FileInv, TypeOK
    <3> QED BY <2>1, <3>1, ActorFacts DEF ToCome, Import, Ended
  <2>3. ~InUse(s) BY DEF InUse, ProjectsOf
  <2>4. ~Wiped(s) BY <2>1 DEF Wiped, Ended
  <2>5. \A j \in Jobs : ShaOf[j] = s => pc[j] # "forget" BY <2>1, ActorFacts DEF Ended
  <2> QED BY <2>2, <2>3, <2>4, <2>5 DEF IInv, Cared, CaredFor, Crossed
<1>2. Init => IInv BY InitFiles, CaredInit DEF IInv
<1> QED BY <1>1, <1>2, Inductive, PTL DEF Spec

\* When nothing failed, an object in the bucket belongs to a project, or was left
\* by the deletion of one that counted another project of the same content.
THEOREM OrphanObjectsExplained == Spec => []OrphanObjectExplained
<1>1. IInv => OrphanObjectExplained
  <2> SUFFICES ASSUME IInv, NEW k \in objects, faults = 0, Settled(k[1])
               PROVE  \/ \E j \in Jobs : Key(j) = k /\ project[j] = "live"
                      \/ \E j \in Jobs \ last : Key(j) = k /\ project[j] = "gone"
    BY DEF OrphanObjectExplained, IInv, FileInv, TypeOK
  <2>1. \A x \in Actors : Key(x) = k => pc[x] \in Ended \cup {"idle"}
    BY SettledFacts, KeyFacts DEF IInv, FileInv
  <2>2. last \subseteq Jobs BY DEF IInv, FileInv, TypeOK
  <2> QED BY <2>1, <2>2, ActorFacts DEF IInv, ObjectCared, Keyed, Import, Ended
<1>2. Init => IInv BY InitFiles, CaredInit DEF IInv
<1> QED BY <1>1, <1>2, Inductive, PTL DEF Spec
=============================================================================

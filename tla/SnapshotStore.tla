---------------------------- MODULE SnapshotStore ----------------------------
(***************************************************************************)
(* The snapshot directories of backend/app/snapshots.py and the projects   *)
(* cloned from them (services/project_service.py, task_handlers.py).       *)
(*                                                                         *)
(* An uploaded archive lives under its content hash: the archive, one      *)
(* shared extracted root with a marker file, and one clone per project.    *)
(* Attempts of import jobs fill that directory, one await at a time; the   *)
(* clean-up of a failed import and the deletion of a project empty it.     *)
(* None of them takes a lock on the hash.                                  *)
(*                                                                         *)
(* File contents are abstracted to how complete a tree is: nothing of it,  *)
(* a part of it, or the whole.  An operation on a tree takes a first and a *)
(* last step; whoever writes or empties the same tree in between tears it. *)
(***************************************************************************)
EXTENDS Naturals, FiniteSets

CONSTANTS Jobs,         \* import jobs; each makes at most one project
          Attempts,     \* deliveries of the jobs to workers
          JobOf,        \* the job of an attempt
          ShaOf,        \* the content hash of a job's archive
          NameOf,       \* the archive name, part of the object's key
          Remote,       \* storage_backend is "s3"
          BeginRefused, \* Session.begin() refuses a session that has queried
          Deletable,    \* the projects that a user may delete
          MaxFaults,    \* bound: failures in one behaviour
          FaultKinds

ASSUME StoreAssumption ==
    /\ IsFiniteSet(Jobs) /\ IsFiniteSet(Attempts)
    /\ Jobs \cap Attempts = {}
    /\ JobOf \in [Attempts -> Jobs]
    /\ DOMAIN ShaOf = Jobs /\ DOMAIN NameOf = Jobs
    /\ Remote \in BOOLEAN /\ BeginRefused \in BOOLEAN
    /\ Deletable \subseteq Jobs
    /\ MaxFaults \in Nat
    /\ FaultKinds \subseteq {"io", "database", "crash", "lease", "timeout"}

VARIABLES staged,   \* jobs whose staged upload is where the API put it
          archive,  \* hashes whose local archive exists
          objects,  \* keys stored in the bucket
          shared,   \* how complete the shared root of a hash is
          marked,   \* hashes whose shared root carries .extracted_ok
          copy,     \* how complete the clone made by an attempt is
          project,  \* the project row of a job
          root,     \* the clone that the row's root_path names
          pc,       \* next step of an attempt, or of the deletion of a job's project
          torn,     \* attempts whose operation on a tree was disturbed
          listed,   \* clones that a wipe found when it started
          last,     \* deletions that saw no other project of the content
          stray,    \* a cancelled attempt's thread that still writes
          faults,
          clashed   \* history: hashes on which two operations overlapped

fileVars == <<archive, objects, shared, marked, copy>>
rowVars == <<project, root>>
vars == <<staged, fileVars, rowVars, pc, torn, listed, last, stray, faults, clashed>>

Shas == {ShaOf[j] : j \in Jobs}
Extents == {"none", "part", "whole"}
Actors == Attempts \cup Jobs
JobFor(x) == IF x \in Jobs THEN x ELSE JobOf[x]
Sha(x) == ShaOf[JobFor(x)]
Key(x) == <<Sha(x), NameOf[JobFor(x)]>>

\* "cut" is the end of an actor whose wipe stopped half way.
Ended == {"done", "failed", "dead", "cut"}
Steps == Ended \cup
    {"idle", "move", "mkdir", "archive", "upload", "lookup", "inspect", "clear",
     "extract", "extracting", "clone", "cloning", "commit", "refresh",
     "forget", "remove", "clean", "wiping", "unstage"}

AtStep(s, steps) == {x \in Actors : Sha(x) = s /\ pc[x] \in steps}
StrayAt(s, step) == {a \in Attempts : Sha(a) = s /\ stray[a] = step}
Extracting(s) == AtStep(s, {"extracting"}) \cup StrayAt(s, "extracting")
Cloning(s) == AtStep(s, {"cloning"}) \cup StrayAt(s, "cloning")
\* In the middle of an operation on the files of s.
Midway(s) == AtStep(s, {"archive"}) \cup Extracting(s) \cup Cloning(s)
\* Between the first and the last step on the files of s.
Underway(s) == AtStep(s, Steps \ (Ended \cup {"idle", "move", "mkdir", "unstage"}))
ClonesOf(s) == {a \in Attempts : Sha(a) = s /\ copy[a] # "none"}
ProjectsOf(s) == {j \in Jobs : ShaOf[j] = s /\ project[j] = "live"}

TypeOK ==
    /\ staged \subseteq Jobs
    /\ archive \subseteq Shas
    /\ objects \subseteq {Key(j) : j \in Jobs}
    /\ shared \in [Shas -> Extents]
    /\ marked \subseteq Shas
    /\ copy \in [Attempts -> Extents]
    /\ project \in [Jobs -> {"none", "live", "gone"}]
    /\ root \in [Jobs -> SUBSET Attempts]
    /\ pc \in [Actors -> Steps]
    /\ torn \subseteq Attempts
    /\ listed \in [Actors -> SUBSET Attempts]
    /\ last \subseteq Jobs
    /\ stray \in [Attempts -> {"no", "extracting", "cloning", "over"}]
    /\ faults \in 0..MaxFaults
    /\ clashed \subseteq Shas

Init ==
    /\ staged = Jobs
    /\ archive = {} /\ objects = {} /\ marked = {}
    /\ shared = [s \in Shas |-> "none"]
    /\ copy = [a \in Attempts |-> "none"]
    /\ project = [j \in Jobs |-> "none"]
    /\ root = [j \in Jobs |-> {}]
    /\ pc = [x \in Actors |-> "idle"]
    /\ listed = [x \in Actors |-> {}]
    /\ stray = [a \in Attempts |-> "no"]
    /\ torn = {} /\ last = {} /\ clashed = {}
    /\ faults = 0

GoTo(x, step) == pc' = [pc EXCEPT ![x] = step]

Fault(kind) ==
    /\ kind \in FaultKinds
    /\ faults < MaxFaults
    /\ faults' = faults + 1

Enter(x) == clashed' = IF Underway(Sha(x)) \subseteq {x} THEN clashed
                       ELSE clashed \cup {Sha(x)}

-----------------------------------------------------------------------------
(* _snapshot_import_task_async: one attempt of an import job.              *)

\* Redelivered after the worker died, or beside it when the lease lapsed.
Start(a) ==
    LET others == {b \in Attempts \ {a} : JobOf[b] = JobOf[a]} IN
    /\ pc[a] = "idle"
    /\ \A b \in others : pc[b] \notin {"done", "failed", "cut"}
    /\ IF \A b \in others : pc[b] \in {"idle", "dead"}
       THEN UNCHANGED faults ELSE Fault("lease")
    /\ GoTo(a, "move")
    /\ UNCHANGED <<staged, fileVars, rowVars, torn, listed, last, stray, clashed>>

\* The route takes back the upload of a job whose enqueue seemed to fail.
Withdraw(j) ==
    /\ j \in staged
    /\ Fault("timeout")
    /\ staged' = staged \ {j}
    /\ UNCHANGED <<fileVars, rowVars, pc, torn, listed, last, stray, clashed>>

\* store_snapshot_upload_from_path_async hashes the upload and moves it away.
MoveStaged(a) ==
    /\ pc[a] = "move"
    /\ \/ /\ JobOf[a] \in staged
          /\ staged' = staged \ {JobOf[a]}
          /\ GoTo(a, "mkdir")
          /\ UNCHANGED faults
       \/ /\ IF JobOf[a] \in staged THEN Fault("io") ELSE UNCHANGED faults
          /\ UNCHANGED staged
          /\ GoTo(a, "unstage")
    /\ UNCHANGED <<fileVars, rowVars, torn, listed, last, stray, clashed>>

MakeDir(a) ==
    /\ pc[a] = "mkdir"
    /\ Enter(a)
    /\ torn' = torn \ {a}
    /\ GoTo(a, "archive")
    /\ UNCHANGED <<staged, fileVars, rowVars, listed, last, stray, faults>>

\* _finalize_local_archive; a failure here leaves no metadata to clean up by.
StoreArchive(a) ==
    /\ pc[a] = "archive"
    /\ \/ /\ archive' = archive \cup {Sha(a)}
          /\ GoTo(a, IF Remote THEN "upload" ELSE "lookup")
          /\ UNCHANGED faults
       \/ /\ IF a \in torn THEN UNCHANGED faults ELSE Fault("io")
          /\ GoTo(a, "unstage")
          /\ UNCHANGED archive
    /\ UNCHANGED <<staged, objects, shared, marked, copy, rowVars, torn, listed, last, stray,
                   clashed>>

Upload(a) ==
    /\ pc[a] = "upload"
    /\ \/ /\ objects' = objects \cup {Key(a)}
          /\ GoTo(a, "lookup")
          /\ UNCHANGED faults
       \/ /\ Fault("io")
          /\ GoTo(a, "unstage")
          /\ UNCHANGED objects
    /\ UNCHANGED <<staged, archive, shared, marked, copy, rowVars, torn, listed, last, stray,
                   clashed>>

\* _find_project_by_task_job_async: a project this job made is reused.
Lookup(a) ==
    /\ pc[a] = "lookup"
    /\ \/ /\ GoTo(a, IF project[JobOf[a]] = "live" THEN "done" ELSE "inspect")
          /\ UNCHANGED faults
       \/ Fault("database") /\ GoTo(a, "clean")
    /\ UNCHANGED <<staged, fileVars, rowVars, torn, listed, last, stray, clashed>>

\* Mutant: any file in the shared root will do.
InspectFiles(a) ==
    /\ pc[a] = "inspect"
    /\ GoTo(a, IF shared[Sha(a)] = "none" THEN "extract" ELSE "clone")
    /\ UNCHANGED <<staged, fileVars, rowVars, torn, listed, last, stray, faults, clashed>>

\* prepare_snapshot_root_async: the marker tells a finished extraction.
Inspect(a) ==
    /\ pc[a] = "inspect"
    /\ GoTo(a, IF Sha(a) \in marked THEN "clone"
               ELSE IF shared[Sha(a)] = "none" THEN "extract" ELSE "clear")
    /\ UNCHANGED <<staged, fileVars, rowVars, torn, listed, last, stray, faults, clashed>>

\* A directory that another extraction refills cannot be removed.
ClearRoot(a) ==
    LET s == Sha(a) IN
    /\ pc[a] = "clear"
    /\ shared' = [shared EXCEPT ![s] = "none"]
    /\ marked' = marked \ {s}
    /\ torn' = torn \cup (Extracting(s) \cup Cloning(s))
    /\ \/ GoTo(a, "extract")
       \/ Extracting(s) # {} /\ GoTo(a, "clean")
    /\ UNCHANGED <<staged, archive, objects, copy, rowVars, listed, last, stray, faults,
                   clashed>>

\* _ensure_local_snapshot_archive, and the first file written.
BeginExtract(a) ==
    LET s == Sha(a) IN
    /\ pc[a] = "extract"
    /\ IF s \in archive \/ (Remote /\ Key(a) \in objects)
       THEN /\ archive' = archive \cup {s}
            /\ shared' = [shared EXCEPT ![s] = "part"]
            /\ torn' = (torn \ {a}) \cup Cloning(s)
            /\ GoTo(a, "extracting")
       ELSE GoTo(a, "clean") /\ UNCHANGED <<archive, shared, torn>>
    /\ UNCHANGED <<staged, objects, marked, copy, rowVars, listed, last, stray, faults, clashed>>

\* Mutant: the marker is written whether the extraction ended well or not.
MarkAnyway(a) ==
    LET s == Sha(a) IN
    /\ pc[a] = "extracting"
    /\ marked' = marked \cup {s}
    /\ \/ /\ \E got \in (IF a \in torn /\ shared[s] # "whole"
                         THEN {"part", "whole"} ELSE {"whole"}) :
                shared' = [shared EXCEPT ![s] = got]
          /\ GoTo(a, "clone")
          /\ UNCHANGED faults
       \/ /\ IF a \in torn THEN UNCHANGED faults ELSE Fault("io")
          /\ GoTo(a, "clean")
          /\ UNCHANGED shared
    /\ UNCHANGED <<staged, archive, objects, copy, rowVars, torn, listed, last, stray, clashed>>

\* _extract_archive_to_root ends with the marker, whatever others removed.
EndExtract(a) ==
    LET s == Sha(a) IN
    /\ pc[a] = "extracting"
    /\ \/ /\ \E got \in (IF a \in torn /\ shared[s] # "whole"
                         THEN {"part", "whole"} ELSE {"whole"}) :
                shared' = [shared EXCEPT ![s] = got]
          /\ marked' = marked \cup {s}
          /\ GoTo(a, "clone")
          /\ UNCHANGED faults
       \/ /\ IF a \in torn THEN UNCHANGED faults ELSE Fault("io")
          /\ GoTo(a, "clean")
          /\ UNCHANGED <<shared, marked>>
    /\ UNCHANGED <<staged, archive, objects, copy, rowVars, torn, listed, last, stray, clashed>>

\* _clone_shared_snapshot_to_project, while others may rewrite the source.
BeginClone(a) ==
    LET s == Sha(a)
        quiet == shared[s] = "whole" /\ Extracting(s) \cup AtStep(s, {"wiping"}) = {} IN
    /\ pc[a] = "clone"
    /\ IF shared[s] = "none"
       THEN GoTo(a, "clean") /\ UNCHANGED <<copy, torn>>
       ELSE /\ copy' = [copy EXCEPT ![a] = "part"]
            /\ torn' = IF quiet THEN torn \ {a} ELSE torn \cup {a}
            /\ GoTo(a, "cloning")
    /\ UNCHANGED <<staged, archive, objects, shared, marked, rowVars, listed, last, stray,
                   faults, clashed>>

EndClone(a) ==
    /\ pc[a] = "cloning"
    /\ \/ /\ \E got \in (IF a \in torn THEN {"part", "whole"} ELSE {"whole"}) :
                copy' = [copy EXCEPT ![a] = got]
          /\ GoTo(a, "commit")
          /\ UNCHANGED faults
       \/ /\ IF a \in torn THEN UNCHANGED faults ELSE Fault("io")
          /\ GoTo(a, "clean")
          /\ UNCHANGED copy
    /\ UNCHANGED <<staged, archive, objects, shared, marked, rowVars, torn, listed, last, stray,
                   clashed>>

Insert(a) ==
    /\ project' = [project EXCEPT ![JobOf[a]] = "live"]
    /\ root' = [root EXCEPT ![JobOf[a]] = {a}]

\* create_project_from_snapshot_async: project and snapshot rows in one
\* transaction.  The lookup has begun one already, which begin() may refuse;
\* a twin's project is reused; an error may arrive after the commit.
Commit(a) ==
    /\ pc[a] = "commit"
    /\ IF ~BeginRefused /\ project[JobOf[a]] # "live"
       THEN \/ Insert(a) /\ GoTo(a, "refresh") /\ UNCHANGED <<copy, faults>>
            \/ /\ Fault("database")
               /\ Insert(a) \/ UNCHANGED rowVars
               /\ copy' = [copy EXCEPT ![a] = "none"]
               /\ GoTo(a, "clean")
       ELSE /\ copy' = [copy EXCEPT ![a] = "none"]
            /\ GoTo(a, IF BeginRefused THEN "clean" ELSE "done")
            /\ UNCHANGED <<rowVars, faults>>
    /\ UNCHANGED <<staged, archive, objects, shared, marked, torn, listed, last, stray, clashed>>

Refresh(a) ==
    /\ pc[a] = "refresh"
    /\ \/ GoTo(a, "done") /\ UNCHANGED faults
       \/ Fault("database") /\ GoTo(a, "clean")
    /\ UNCHANGED <<staged, fileVars, rowVars, torn, listed, last, stray, clashed>>

\* The job timeout cancels the handler.  Before the metadata exists nothing is
\* cleaned up; a thread in the middle of a step ends that step all the same.
CancelEarly(a) ==
    /\ pc[a] \in {"move", "mkdir", "archive", "upload"}
    /\ Fault("timeout")
    /\ staged' \in {staged, IF pc[a] = "move" THEN staged \ {JobOf[a]} ELSE staged}
    /\ archive' \in {archive, IF pc[a] = "archive" THEN archive \cup {Sha(a)} ELSE archive}
    /\ GoTo(a, "unstage")
    /\ UNCHANGED <<objects, shared, marked, copy, rowVars, torn, listed, last, stray,
                   clashed>>

CancelLate(a) ==
    /\ pc[a] \in {"lookup", "inspect", "clear", "extract", "extracting", "clone",
                  "cloning", "commit", "refresh"}
    /\ Fault("timeout")
    /\ stray' = IF pc[a] \in {"extracting", "cloning"}
                THEN [stray EXCEPT ![a] = pc[a]] ELSE stray
    /\ UNCHANGED rowVars \/ (pc[a] = "commit" /\ ~BeginRefused
                              /\ project[JobOf[a]] # "live" /\ Insert(a))
    /\ GoTo(a, "clean")
    /\ UNCHANGED <<staged, fileVars, torn, listed, last, clashed>>

\* The thread that a cancelled attempt left behind comes to its end.
StrayEnds(a) ==
    LET s == Sha(a)
        got == IF a \in torn THEN {"part", "whole"} ELSE {"whole"} IN
    /\ stray[a] \in {"extracting", "cloning"}
    /\ stray' = [stray EXCEPT ![a] = "over"]
    /\ \/ /\ stray[a] = "extracting"
          /\ \E e \in got : shared' = [shared EXCEPT ![s] = IF @ = "whole" THEN @ ELSE e]
          /\ marked' = marked \cup {s}
          /\ UNCHANGED copy
       \/ /\ stray[a] = "cloning"
          /\ \E e \in got : copy' = [copy EXCEPT ![a] = e]
          /\ UNCHANGED <<shared, marked>>
       \/ a \in torn /\ UNCHANGED <<shared, marked, copy>>
    /\ UNCHANGED <<staged, archive, objects, rowVars, pc, torn, listed, last, faults,
                   clashed>>

\* The handler's finally; the job is recorded as failed.
Unstage(a) ==
    /\ pc[a] = "unstage"
    /\ staged' = staged \ {JobOf[a]}
    /\ GoTo(a, "failed")
    /\ UNCHANGED <<fileVars, rowVars, torn, listed, last, stray, faults, clashed>>

-----------------------------------------------------------------------------
(* delete_project_async.                                                   *)

\* Mutant: the count of references forgets to exclude the project itself.
CountAllRefs(j) ==
    /\ pc[j] = "idle"
    /\ j \in Deletable
    /\ project[j] = "live"
    /\ last' = IF ProjectsOf(ShaOf[j]) = {} THEN last \cup {j} ELSE last
    /\ Enter(j)
    /\ GoTo(j, "forget")
    /\ UNCHANGED <<staged, fileVars, rowVars, torn, listed, stray, faults>>

\* Under the project's own lock, which another project's deletion does not take.
ReadRefs(j) ==
    /\ pc[j] = "idle"
    /\ j \in Deletable
    /\ project[j] = "live"
    /\ last' = IF ProjectsOf(ShaOf[j]) = {j} THEN last \cup {j} ELSE last
    /\ Enter(j)
    /\ GoTo(j, "forget")
    /\ UNCHANGED <<staged, fileVars, rowVars, torn, listed, stray, faults>>

\* The rows go in one commit.
Forget(j) ==
    /\ pc[j] = "forget"
    /\ \/ /\ project' = [project EXCEPT ![j] = "gone"]
          /\ GoTo(j, "remove")
          /\ UNCHANGED faults
       \/ Fault("database") /\ GoTo(j, "failed") /\ UNCHANGED project
    /\ UNCHANGED <<staged, fileVars, root, torn, listed, last, stray, clashed>>

\* delete_project_snapshot_root_async; a failure is logged.
RemoveRoot(j) ==
    /\ pc[j] = "remove"
    /\ \/ /\ copy' = [a \in Attempts |-> IF a \in root[j] THEN "none" ELSE copy[a]]
          /\ UNCHANGED faults
       \/ Fault("io") /\ UNCHANGED copy
    /\ GoTo(j, IF j \in last THEN "clean" ELSE "done")
    /\ UNCHANGED <<staged, archive, objects, shared, marked, rowVars, torn, listed, last, stray,
                   clashed>>

-----------------------------------------------------------------------------
(* delete_snapshot_async, after a failed import or with the last project.  *)

\* Mutant: only the local files are removed.
WipeLocally(x) ==
    /\ pc[x] = "clean"
    /\ listed' = [listed EXCEPT ![x] = ClonesOf(Sha(x))]
    /\ GoTo(x, "wiping")
    /\ UNCHANGED <<staged, fileVars, rowVars, torn, last, stray, faults, clashed>>

\* The tree is listed, the object deleted; the marker is the last of its root's
\* files to be unlinked.
BeginWipe(x) ==
    LET s == Sha(x) IN
    /\ pc[x] = "clean"
    /\ listed' = [listed EXCEPT ![x] = ClonesOf(s)]
    /\ shared' = [shared EXCEPT ![s] = IF @ = "none" THEN "none" ELSE "part"]
    /\ torn' = torn \cup Midway(s)
    /\ \/ objects' = objects \ {Key(x)} /\ UNCHANGED faults
       \/ Key(x) \in objects /\ Fault("io") /\ UNCHANGED objects
    /\ GoTo(x, "wiping")
    /\ UNCHANGED <<staged, archive, marked, copy, rowVars, last, stray, clashed>>

\* What was written since the listing stays, and so do its directories.
EndWipe(x) ==
    LET s == Sha(x)
        fresh == ClonesOf(s) \ listed[x] IN
    /\ pc[x] = "wiping"
    /\ marked' = marked \ {s}
    /\ \/ /\ shared' = [shared EXCEPT ![s] = "none"]
          /\ copy' = [a \in Attempts |-> IF a \in listed[x] THEN "none" ELSE copy[a]]
          /\ archive' = IF fresh = {} THEN archive \ {s} ELSE archive
       \/ /\ Extracting(s) # {}
          /\ shared' = [shared EXCEPT ![s] = "part"]
          /\ UNCHANGED <<archive, copy>>
    /\ GoTo(x, IF x \in Jobs THEN "done" ELSE "unstage")
    /\ UNCHANGED <<staged, objects, rowVars, torn, listed, last, stray, faults, clashed>>

\* A file that cannot be removed stops a wipe; so does the end of the process.
WipeStops(x) ==
    /\ pc[x] = "wiping"
    /\ Fault("io") \/ Fault("crash")
    /\ GoTo(x, "cut")
    /\ UNCHANGED <<staged, fileVars, rowVars, torn, listed, last, stray, clashed>>

\* A worker or API process ends between two steps.
Dies(x) ==
    /\ pc[x] \notin Ended \cup {"idle", "wiping"}
    /\ Fault("crash")
    /\ GoTo(x, "dead")
    /\ UNCHANGED <<staged, fileVars, rowVars, torn, listed, last, stray, clashed>>

AllQuiet ==
    /\ \A x \in Actors : pc[x] \in Ended \cup {"idle"}
    /\ \A a \in Attempts : stray[a] \in {"no", "over"}
    /\ UNCHANGED vars

ImportStep(a) ==
    \/ Start(a) \/ MoveStaged(a) \/ MakeDir(a) \/ StoreArchive(a) \/ Upload(a)
    \/ Lookup(a) \/ Inspect(a) \/ ClearRoot(a) \/ BeginExtract(a) \/ EndExtract(a)
    \/ BeginClone(a) \/ EndClone(a) \/ Commit(a) \/ Refresh(a) \/ Unstage(a)
    \/ CancelEarly(a) \/ CancelLate(a) \/ StrayEnds(a)

DeleteStep(j) == ReadRefs(j) \/ Forget(j) \/ RemoveRoot(j)

WipeStep(x) == BeginWipe(x) \/ EndWipe(x) \/ WipeStops(x) \/ Dies(x)

Next ==
    \/ \E a \in Attempts : ImportStep(a)
    \/ \E j \in Jobs : Withdraw(j) \/ DeleteStep(j)
    \/ \E x \in Actors : WipeStep(x)
    \/ AllQuiet

Spec == Init /\ [][Next]_vars

-----------------------------------------------------------------------------
(* Properties.                                                             *)

\* No two operations met on the files of s, no wipe of them was cut short, and
\* no cancelled import left a thread behind.
Undisturbed(s) ==
    /\ s \notin clashed
    /\ AtStep(s, {"cut"}) = {}
    /\ \A a \in Attempts : Sha(a) = s => stray[a] = "no"

\* The marker of an extracted root never vouches for a part of the archive,
\* whatever failed or crashed before, as long as operations on one content do
\* not overlap, no wipe was cut short (it removes the marker last) and no
\* cancelled import's thread writes on.
MarkedRootIsWhole ==
    \A s \in marked :
        Undisturbed(s) /\ AtStep(s, {"wiping"}) = {} => shared[s] = "whole"

\* The files of a project whose import reported success stay complete until it
\* is deleted, unless its content was disturbed in one of these ways or a later
\* import of the same content failed and cleaned up after itself.
ProjectKeepsItsFiles ==
    \A j \in Jobs : \A a \in root[j] :
        /\ project[j] = "live" /\ pc[a] = "done" /\ pc[j] \in {"idle", "failed"}
        /\ Undisturbed(ShaOf[j])
        /\ \A b \in Attempts : a \notin listed[b]
        => copy[a] = "whole"

Settled(s) == Underway(s) = {} /\ AtStep(s, {"move", "mkdir", "unstage"}) = {}

\* When nothing failed, content that no project has any more is gone from the
\* disk; what remains was left by deletions that crossed: two of them at least,
\* each of which counted the other's project.
LeftOnlyByCrossedDeletes ==
    \A s \in Shas :
        /\ faults = 0 /\ Settled(s) /\ ProjectsOf(s) = {}
        /\ s \in archive \/ shared[s] # "none" \/ ClonesOf(s) # {}
        => \E j, k \in Jobs \ last :
               /\ j # k /\ ShaOf[j] = s /\ ShaOf[k] = s
               /\ project[j] = "gone" /\ project[k] = "gone"

\* When nothing failed, an object in the bucket that no project's key names was
\* left by a deletion that counted another project, perhaps one whose upload
\* of the same content had another name and so another key.
OrphanObjectExplained ==
    \A k \in objects :
        \/ faults > 0 \/ ~Settled(k[1])
        \/ \E j \in Jobs : Key(j) = k /\ project[j] = "live"
        \/ \E j \in Jobs \ last : Key(j) = k /\ project[j] = "gone"

\* Claimed at services/project_service.py:998: a retry after the project commit
\* reuses the project, so the job of a live project does not fail.
ReplayReuses ==
    \A a \in Attempts : pc[a] = "failed" => project[JobOf[a]] # "live"

\* Claimed by tests/services/test_project_service_create_from_snapshot.py:191:
\* an import that nothing disturbs makes its project.
ImportMakesProject == \A a \in Attempts : pc[a] # "failed"
=============================================================================

----------------------------- MODULE ScanIndex -----------------------------
(***************************************************************************)
(* The index of one project against its files.  The file calls of the API  *)
(* and the patches of runs change files under the project lock; mutation   *)
(* jobs, runs and the project scan read the files outside the lock, and    *)
(* verify under the lock what they read before they write it to the index. *)
(* What happens under the lock is one step here (ProjectLock shows that    *)
(* holders exclude each other), and so is a submit call (see TaskQueue).   *)
(*                                                                         *)
(* A content is named by the edit that wrote it; two contents differ in    *)
(* their modification times, and a rename keeps its file's.                *)
(***************************************************************************)
EXTENDS Naturals, FiniteSets

CONSTANTS Paths,     \* the supported files of the project
          Starts,    \* the sets of files that the project may start with
          Imports,   \* <<p, q>>: p imports q, whatever p's content
          Edits,     \* the calls and runs that change files, each with its job
          Patches,   \* the files that a patch rewrites and removes
          Scan,      \* the job that scans the project
          MaxFaults  \* bound: failures

old == "old"         \* the content at the start
none == "none"       \* no file; no row
unseen == "unseen"   \* not looked at yet
zero == "zero"       \* the (0, 0) that stands for the stat of a vanished file
unread == "unread"   \* read_text failed

ASSUME IndexAssumption ==
    /\ IsFiniteSet(Paths) /\ Imports \subseteq Paths \X Paths
    /\ Starts \subseteq SUBSET Paths
    /\ Patches \subseteq [rewrites : SUBSET Paths, removes : SUBSET Paths]
    /\ Scan \notin Edits
    /\ Edits \cap {old, none, unseen, zero, unread} = {}
    /\ MaxFaults \in Nat

VARIABLES disk,      \* the content of each file
          node,      \* FileNode: the content whose hash the row has
          api,       \* the content that the API rows come from
          edges,     \* FileEdge
          how,       \* history: how the rows of a path were last written
          missed,    \* history: files that came or went between the resolving
                     \* of the imports that edges shows for a path and its write
          edit,      \* what each edit does: [op, paths, file]
          answer,    \* what a call has been told of its job
          job,       \* the job that serves an edit
          last,      \* history: the last edit of each path
          pc,        \* step of each job
          stat,      \* _prepare_scan_files_async: the stat of each path
          text,      \* its text
          links,     \* its imports
          stale,     \* history: files that came or went since then
          tries,
          existing,  \* scan_project_async: the rows at its start
          mark,      \* how far each path is
          want,      \* the stats of its candidates
          touched,   \* history: paths changed since the scan began
          faults

indexVars == <<node, api, edges, how, missed>>
callVars == <<disk, edit, answer, job, last>>
prepVars == <<stat, text, links, stale, tries>>
scanVars == <<existing, mark, want, touched>>
vars == <<indexVars, callVars, pc, prepVars, scanVars, faults>>

Jobs == Edits \cup {Scan}
Contents == Edits \cup {old, none}
Ops == {"update", "create", "delete", "rename", "patch"}
Unasked == [op |-> "none", paths |-> {}, file |-> none]

Running == {"list", "stat", "read", "lock", "remove", "metrics"}
Ended == {"succeeded", "failed", "partial"}

TypeOK ==
    /\ disk \in [Paths -> Contents] /\ node \in [Paths -> Contents]
    /\ api \in [Paths -> Contents] /\ edges \subseteq Imports
    /\ how \in [Paths -> {"fresh", "unread", "removed"}]
    /\ missed \in [Paths -> SUBSET Paths] /\ touched \subseteq Paths
    /\ edit \in [Edits -> {Unasked} \cup
                     [op : Ops, paths : SUBSET Paths, file : Paths \cup {none}]]
    /\ answer \in [Edits -> {"none", "saved", "pending", "running", "error"}]
    /\ job \in [Edits -> Edits \cup {none}] /\ last \in [Paths -> Edits \cup {none}]
    /\ pc \in [Jobs -> Running \cup Ended \cup {"none", "pending", "dead"}]
    /\ stat \in [Jobs -> [Paths -> Contents \cup {unseen, zero}]]
    /\ text \in [Jobs -> [Paths -> Contents \cup {unseen, unread}]]
    /\ links \in [Jobs -> SUBSET Imports] /\ stale \in [Jobs -> SUBSET Paths]
    /\ tries \in [Jobs -> 0..1]
    /\ existing \in [Paths -> Contents]
    /\ mark \in [Paths -> {"unlisted", "listed", "verify", "absent", "done"}]
    /\ want \in [Paths -> Contents \cup {unseen, zero}]
    /\ faults \in 0..MaxFaults

Unseen == [p \in Paths |-> unseen]

EdgesBetween(S) == {i \in Imports : i[1] \in S /\ i[2] \in S}

\* A project that is indexed, or that has just been imported.
Init ==
    /\ disk \in {[p \in Paths |-> IF p \in S THEN old ELSE none] : S \in Starts}
    /\ node \in {disk, [p \in Paths |-> none]}
    /\ api = node
    /\ edges = EdgesBetween({p \in Paths : node[p] # none})
    /\ how = [p \in Paths |-> "fresh"] /\ missed = [p \in Paths |-> {}]
    /\ edit = [e \in Edits |-> Unasked] /\ answer = [e \in Edits |-> "none"]
    /\ job = [e \in Edits |-> none] /\ last = [p \in Paths |-> none]
    /\ pc = [j \in Jobs |-> "none"]
    /\ stat = [j \in Jobs |-> Unseen] /\ text = stat
    /\ links = [j \in Jobs |-> {}] /\ stale = [j \in Jobs |-> {}]
    /\ tries = [j \in Jobs |-> 0]
    /\ existing = [p \in Paths |-> none]
    /\ mark = [p \in Paths |-> "unlisted"] /\ want = Unseen
    /\ touched = {}
    /\ faults = 0

Fault == faults < MaxFaults /\ faults' = faults + 1

\* A call of scan_files_async is over, and what it has prepared with it.
Forget(j) ==
    /\ stat' = [stat EXCEPT ![j] = Unseen] /\ text' = [text EXCEPT ![j] = Unseen]
    /\ links' = [links EXCEPT ![j] = {}] /\ stale' = [stale EXCEPT ![j] = {}]
    /\ tries' = [tries EXCEPT ![j] = 0]

\* So is the scan.
ForgetScan ==
    /\ existing' = [p \in Paths |-> none]
    /\ mark' = [p \in Paths |-> "unlisted"] /\ want' = Unseen
    /\ touched' = {}

-----------------------------------------------------------------------------
(* Edits: what the file calls and the patches do under the lock.           *)

\* Imported files that are there before or after, but not both.
ComeOrGo(new) == {p \in {i[2] : i \in Imports} : (disk[p] = none) # (new[p] = none)}

Change(e, op, file, new) ==
    LET changed == {p \in Paths : new[p] # disk[p]} IN
    /\ answer[e] = "none"
    /\ disk' = new
    /\ edit' = [edit EXCEPT ![e] = [op |-> op, paths |-> changed, file |-> file]]
    /\ last' = [p \in Paths |-> IF p \in changed THEN e ELSE last[p]]
    /\ stale' = [j \in Jobs |-> IF pc[j] = "lock" THEN stale[j] \cup ComeOrGo(new) ELSE stale[j]]
    /\ touched' = IF pc[Scan] \in Running THEN touched \cup changed ELSE {}
    /\ UNCHANGED <<indexVars, stat, text, links, tries, existing, mark, want, faults>>

Saved(e) ==
    /\ answer' = [answer EXCEPT ![e] = "saved"]
    /\ UNCHANGED <<job, pc>>

UpdateFile(e) == \E p \in Paths :
    /\ disk[p] # none
    /\ Change(e, "update", p, [disk EXCEPT ![p] = e])
    /\ Saved(e)

CreateFile(e) == \E p \in Paths :
    /\ disk[p] = none
    /\ Change(e, "create", p, [disk EXCEPT ![p] = e])
    /\ Saved(e)

RenameFile(e) == \E p, q \in Paths :
    /\ disk[p] # none /\ disk[q] = none
    /\ Change(e, "rename", p, [disk EXCEPT ![p] = none, ![q] = disk[p]])
    /\ Saved(e)

DeleteFile(e) == \E p \in Paths :
    /\ disk[p] # none
    /\ Change(e, "delete", p, [disk EXCEPT ![p] = none])
    /\ Saved(e)

\* A patch rewrites and removes files, and its run indexes them itself.
ApplyPatch(e) == \E d \in Patches :
    /\ \A p \in d.rewrites \cup d.removes : disk[p] # none
    /\ Change(e, "patch", none,
              [p \in Paths |-> IF p \in d.rewrites THEN e
                               ELSE IF p \in d.removes THEN none ELSE disk[p]])
    /\ answer' = [answer EXCEPT ![e] = "pending"]
    /\ job' = [job EXCEPT ![e] = e]
    /\ pc' = [pc EXCEPT ![e] = "stat"]

-----------------------------------------------------------------------------
(* Jobs are submitted and begin.                                           *)

noJobVars == <<disk, edit, last, indexVars, prepVars, scanVars>>

\* Mutant: the key is made of the operation alone.
TwinsByOp(e) == {j \in Edits : edit[j].op = edit[e].op /\ j # e
                               /\ pc[j] \in Running \cup {"pending", "dead"}}

\* The active jobs of the same operation on the same paths.
Twins(e) == {j \in Edits : edit[j] = edit[e] /\ pc[j] \in Running \cup {"pending", "dead"}}

SubmitIndexing(e) ==
    /\ answer[e] = "saved"
    /\ \/ \E j \in Twins(e) :
              /\ job' = [job EXCEPT ![e] = j]
              /\ answer' = [answer EXCEPT ![e] = IF pc[j] = "pending" THEN "pending" ELSE "running"]
              /\ UNCHANGED pc
       \/ /\ Twins(e) = {}
          /\ job' = [job EXCEPT ![e] = e]
          /\ answer' = [answer EXCEPT ![e] = "pending"]
          /\ pc' = [pc EXCEPT ![e] = "pending"]
    /\ UNCHANGED <<noJobVars, faults>>

\* The file is saved, but its job cannot be queued or the process dies.
SubmitFails(e) ==
    /\ answer[e] = "saved"
    /\ answer' = [answer EXCEPT ![e] = "error"]
    /\ Fault
    /\ UNCHANGED <<noJobVars, job, pc>>

BeginIndexing(j) ==
    /\ j \in Edits /\ pc[j] = "pending"
    /\ pc' = [pc EXCEPT ![j] = "stat"]
    /\ UNCHANGED <<noJobVars, answer, job, faults>>

\* The scan reads the rows of the project once, at its start.
BeginScan ==
    /\ pc[Scan] = "none"
    /\ pc' = [pc EXCEPT ![Scan] = "list"]
    /\ existing' = node
    /\ UNCHANGED <<callVars, indexVars, prepVars, mark, want, touched, faults>>

-----------------------------------------------------------------------------
(* The scan lists the files and picks its candidates, a batch at a time.   *)

notListing == <<callVars, indexVars, prepVars, existing, touched>>

List ==
    /\ pc[Scan] = "list" /\ \A p \in Paths : mark[p] = "unlisted"
    /\ mark' = [p \in Paths |-> IF disk[p] = none THEN "absent" ELSE "listed"]
    /\ UNCHANGED <<notListing, pc, want, faults>>

\* A path is a candidate when it has no row, or its stat is not the row's.
Unchanged(p) == existing[p] # none /\ existing[p] = disk[p]

Judge ==
    /\ pc[Scan] = "list" /\ \E p \in Paths : mark[p] = "listed"
    /\ mark' = [p \in Paths |-> IF mark[p] # "listed" THEN mark[p]
                                ELSE IF Unchanged(p) THEN "verify" ELSE "done"]
    /\ want' = [p \in Paths |-> IF mark[p] # "listed" \/ Unchanged(p) THEN want[p]
                                ELSE IF disk[p] = none THEN zero ELSE disk[p]]
    /\ UNCHANGED <<notListing, pc, faults>>

\* The text of an unchanged stat is read all the same.
VerifyHash(p) ==
    /\ pc[Scan] = "list" /\ mark[p] = "verify"
    /\ mark' = [mark EXCEPT ![p] = "done"]
    /\ \/ /\ disk[p] = existing[p]
          /\ UNCHANGED <<want, faults>>
       \/ /\ (disk[p] # existing[p] /\ UNCHANGED faults) \/ Fault
          /\ want' = [want EXCEPT ![p] = existing[p]]
    /\ UNCHANGED <<notListing, pc>>

Targets(j) == IF j = Scan THEN {p \in Paths : want[p] # unseen} ELSE edit[j].paths

EndList ==
    /\ pc[Scan] = "list" /\ \A p \in Paths : mark[p] \in {"absent", "done"}
    /\ pc' = [pc EXCEPT ![Scan] = IF Targets(Scan) = {} THEN "remove" ELSE "stat"]
    /\ UNCHANGED <<notListing, mark, want, faults>>

-----------------------------------------------------------------------------
(* scan_files_async: the files are read outside the lock.                  *)

notPreparing == <<callVars, indexVars, scanVars>>

\* A candidate of the scan keeps the stat it was picked with.
StatOf(j, p) == IF disk[p] = none THEN none ELSE IF j = Scan THEN want[p] ELSE disk[p]

Present(j) == {p \in Targets(j) : stat[j][p] # none}

\* The reading begins when every path has its stat; with nothing to read, the
\* job asks for the lock.
Stat(j, p) ==
    /\ pc[j] = "stat" /\ p \in Targets(j) /\ stat[j][p] = unseen
    /\ stat' = [stat EXCEPT ![j][p] = StatOf(j, p)]
    /\ pc' = [pc EXCEPT ![j] = IF \E q \in Targets(j) : stat'[j][q] = unseen THEN "stat"
                               ELSE IF \A q \in Targets(j) : stat'[j][q] = none THEN "lock"
                               ELSE "read"]
    /\ UNCHANGED <<notPreparing, text, links, stale, tries, faults>>

Read(j, p) ==
    /\ pc[j] = "read" /\ p \in Present(j) /\ text[j][p] = unseen
    /\ \/ /\ text' = [text EXCEPT ![j][p] = IF disk[p] = none THEN unread ELSE disk[p]]
          /\ UNCHANGED faults
       \/ /\ text' = [text EXCEPT ![j][p] = unread]
          /\ Fault
    /\ UNCHANGED <<notPreparing, pc, stat, links, stale, tries>>

\* The imports of a text lead to the files that are there now.
LinksOf(j, txt) == {i \in Imports : i[1] \in Targets(j) /\ txt[i[1]] \in Contents
                                    /\ disk[i[2]] # none}

Resolve(j) ==
    /\ pc[j] = "read" /\ \A p \in Present(j) : text[j][p] # unseen
    /\ links' = [links EXCEPT ![j] = LinksOf(j, text[j])]
    /\ stale' = [stale EXCEPT ![j] = {}]
    /\ pc' = [pc EXCEPT ![j] = "lock"]
    /\ UNCHANGED <<notPreparing, stat, text, tries, faults>>

-----------------------------------------------------------------------------
(* scan_files_async: under the lock.                                       *)

\* Mutant: only the files that were read are verified, not those that were gone.
VerifiedPresent(j) ==
    \A p \in Present(j) : disk[p] = stat[j][p] /\ text[j][p] \in {disk[p], unread}

\* What was read is what is there.
Verified(j) ==
    \A p \in Targets(j) :
        IF stat[j][p] = none THEN disk[p] = none
        ELSE disk[p] = stat[j][p] /\ text[j][p] \in {disk[p], unread}

Gone(j) == Targets(j) \ Present(j)

\* Mutant: the API rows of a removed file stay.
ClearedPresent(j) == Present(j)

\* The paths whose search and API rows are deleted before the new ones come.
Cleared(j) == Targets(j)

\* Mutant: edges to a removed file stay.
OutEdges(j) == {i \in edges : i[1] \in Targets(j)}

\* The edges that the write deletes.
OldEdges(j) == {i \in edges : i[1] \in Targets(j) \/ i[2] \in Gone(j)}

WriteIndex(j) ==
    LET fresh == {p \in Present(j) : text[j][p] # unread} IN
    /\ node' = [p \in Paths |-> IF p \in Gone(j) THEN none
                                ELSE IF p \in fresh THEN text[j][p] ELSE node[p]]
    /\ api' = [p \in Paths |-> IF p \in fresh THEN text[j][p]
                               ELSE IF p \in Cleared(j) THEN none ELSE api[p]]
    /\ edges' = (edges \ OldEdges(j)) \cup links[j]
    /\ how' = [p \in Paths |-> IF p \in Present(j) \ fresh THEN "unread"
                               ELSE IF p \in Targets(j) THEN "fresh" ELSE how[p]]
    /\ missed' = [p \in Paths |-> IF p \in Targets(j) THEN stale[j] ELSE missed[p]]

Commit(j) ==
    /\ pc[j] = "lock" /\ Verified(j)
    /\ WriteIndex(j)
    /\ Forget(j)
    /\ pc' = [pc EXCEPT ![j] = IF j = Scan THEN "remove" ELSE "metrics"]
    /\ UNCHANGED <<callVars, scanVars, faults>>

\* The first mismatch: the files are read again, under the lock, which is then
\* given back and asked for once more.
Retry(j) ==
    /\ pc[j] = "lock" /\ ~Verified(j)
    /\ tries[j] = 0
    /\ tries' = [tries EXCEPT ![j] = 1]
    /\ LET st == [p \in Paths |-> IF p \in Targets(j) THEN StatOf(j, p) ELSE unseen]
           tx == [p \in Paths |-> IF p \in Targets(j) /\ disk[p] # none THEN disk[p] ELSE unseen]
       IN  /\ stat' = [stat EXCEPT ![j] = st]
           /\ text' = [text EXCEPT ![j] = tx]
           /\ links' = [links EXCEPT ![j] = LinksOf(j, tx)]
    /\ stale' = [stale EXCEPT ![j] = {}]
    /\ UNCHANGED <<notPreparing, pc, faults>>

\* Mutant: the scan does not notice that its write was aborted.
AbortUnnoticed(j) ==
    /\ pc[j] = "lock" /\ ~Verified(j)
    /\ tries[j] = 1
    /\ Forget(j)
    /\ pc' = [pc EXCEPT ![j] = IF j = Scan THEN "remove" ELSE "failed"]
    /\ UNCHANGED <<notPreparing, faults>>

\* The second mismatch aborts: the job fails; the scan reports a partial result.
Abort(j) ==
    /\ pc[j] = "lock" /\ ~Verified(j)
    /\ tries[j] = 1
    /\ Forget(j)
    /\ \/ j = Scan /\ pc' = [pc EXCEPT ![j] = "partial"] /\ ForgetScan
       \/ j # Scan /\ pc' = [pc EXCEPT ![j] = "failed"] /\ UNCHANGED scanVars
    /\ UNCHANGED <<callVars, indexVars, faults>>

\* The rows of paths that the scan has not met; their API rows stay.
Removed == {p \in Paths : existing[p] # none /\ mark[p] = "absent"}

RemoveRows ==
    /\ pc[Scan] = "remove"
    /\ \A p \in Removed : disk[p] = none
    /\ node' = [p \in Paths |-> IF p \in Removed THEN none ELSE node[p]]
    /\ edges' = {i \in edges : i[1] \notin Removed /\ i[2] \notin Removed}
    /\ how' = [p \in Paths |-> IF p \in Removed THEN "removed" ELSE how[p]]
    /\ pc' = [pc EXCEPT ![Scan] = "succeeded"]
    /\ ForgetScan
    /\ UNCHANGED <<callVars, api, missed, prepVars, faults>>

RemovalAborts ==
    /\ pc[Scan] = "remove"
    /\ \E p \in Removed : disk[p] # none
    /\ pc' = [pc EXCEPT ![Scan] = "partial"]
    /\ ForgetScan
    /\ UNCHANGED <<callVars, indexVars, prepVars, faults>>

\* The metrics of the graph are brought up to date; the job is still running.
Finish(j) ==
    /\ pc[j] = "metrics"
    /\ pc' = [pc EXCEPT ![j] = "succeeded"]
    /\ UNCHANGED <<notPreparing, prepVars, faults>>

Stop(j) ==
    /\ pc[j] \in Running
    /\ Fault
    /\ Forget(j)
    /\ IF j = Scan THEN ForgetScan ELSE UNCHANGED scanVars
    /\ UNCHANGED <<callVars, indexVars>>

\* The lock's time limit, the database or anything else fails the job.
JobFails(j) ==
    /\ pc' = [pc EXCEPT ![j] = "failed"]
    /\ Stop(j)

\* The job's time limit or the end of its worker leaves its row running; that
\* of the scan, whose row nothing here depends on, is the same as its failure.
JobDies(j) ==
    /\ j # Scan
    /\ pc' = [pc EXCEPT ![j] = "dead"]
    /\ Stop(j)

EditStep(e) ==
    \/ UpdateFile(e) \/ CreateFile(e) \/ RenameFile(e) \/ DeleteFile(e) \/ ApplyPatch(e)
    \/ SubmitIndexing(e) \/ SubmitFails(e)

ScanStep ==
    \/ BeginScan \/ List \/ EndList \/ RemoveRows \/ RemovalAborts
    \/ Judge \/ \E p \in Paths : VerifyHash(p)

JobStep(j) ==
    \/ BeginIndexing(j) \/ Resolve(j)
    \/ \E p \in Paths : Stat(j, p) \/ Read(j, p)
    \/ Commit(j) \/ Retry(j) \/ Abort(j) \/ Finish(j) \/ JobFails(j) \/ JobDies(j)

Next == (\E e \in Edits : EditStep(e)) \/ ScanStep \/ \E j \in Jobs : JobStep(j)

Spec == Init /\ [][Next]_vars

-----------------------------------------------------------------------------
(* Properties.                                                             *)

\* A row of the index only ever changes to what the file holds at that moment,
\* however long ago it was read and whoever has changed it meanwhile.
WritesWhatIsThere ==
    [][\A p \in Paths : node'[p] # node[p] => node'[p] = disk[p]]_vars

Quiet ==
    /\ \A e \in Edits : answer[e] # "saved"
    /\ \A j \in Jobs : pc[j] \in Ended \cup {"none", "dead"}

\* The last change of p was never queued, was answered with a job that was
\* running already, or its job failed or died.
Unserved(p) ==
    /\ last[p] # none
    /\ answer[last[p]] \in {"error", "running"} \/ pc[job[last[p]]] \in {"failed", "dead"}

\* When everything has come to rest, a file whose row is not up to date was last
\* changed by an edit whose job failed or died or was never queued, or that was
\* told of a job already running: the key of that job says nothing of the
\* content, and it may have read the file before the edit.  A job that cannot
\* read a file writes no row for it, and succeeds.
StaleExplained ==
    \A p \in Paths :
        Quiet /\ node[p] # disk[p] /\ last[p] # none =>
            Unserved(p) \/ how[p] = "unread"

\* A scan that ends with success has brought the row of every file up to date
\* that was not changed since it began and could be read.
ScanCatchesUp ==
    [][pc[Scan] = "remove" /\ pc'[Scan] = "succeeded" =>
           \A p \in Paths \ touched : node'[p] = disk[p] \/ how[p] = "unread"]_vars

\* API rows and file rows come from one content, but for the API rows of a file
\* whose row a scan removed, and the file row of one that could not be read.
ApiFollowsNode ==
    \A p \in Paths :
        \/ api[p] = node[p]
        \/ node[p] = none /\ how[p] = "removed"
        \/ api[p] = none /\ how[p] = "unread"

\* An edge to a file that is gone from the disk and the index was written by a
\* job that had resolved the import before the file went away, for the targets
\* of imports are not verified under the lock; or nobody served the deletion.
DanglingEdgeExplained ==
    \A i \in edges :
        Quiet /\ disk[i[2]] = none /\ node[i[2]] = none =>
            i[2] \in missed[i[1]] \/ Unserved(i[2])
=============================================================================

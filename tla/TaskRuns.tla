------------------------------ MODULE TaskRuns -------------------------------
(***************************************************************************)
(* Task runs (services/task_service.py) with what they share: the daily    *)
(* quota of the organisation (usage_service.py), the blobs long patches    *)
(* are kept in (storage.py), the files a patch changes (patches.py) and    *)
(* the index of those files.  A run asks the model, stores its row and may *)
(* apply its patch; users apply and delete the runs that are stored.       *)
(***************************************************************************)
EXTENDS Naturals, FiniteSets, Sequences

CONSTANTS
  Runs, Users,      \* task runs, and requests of the API
  Texts,            \* patches; the sha of a blob is its text
  Long,             \* those longer than MAX_PATCH_STORE_CHARS
  Requests,         \* the requests: [mode, agentic, apply, anywhere]
  Limits,           \* values the daily limit may have (plan or setting)
  MaxRetries,       \* llm_agentic_max_retry_per_run
  MaxEscalations,   \* llm_agentic_escalation_max_per_stage
  Missing,          \* lists of missing context the self check may give
  CallCeiling,      \* llm_agentic_max_calls of the server
  MaxCrashes        \* bound: workers that die

None == "none"

\* what the constants have to be; assumed where the module is instantiated
RunsAssumption ==
  /\ Runs \cap Users = {} /\ Long \subseteq Texts /\ None \notin Texts
  /\ IsFiniteSet(Runs)
  /\ Limits \subseteq Nat /\ MaxRetries \in Nat /\ MaxEscalations \in Nat
  /\ CallCeiling \in Nat \ {0} /\ MaxCrashes \in Nat
  /\ Requests \subseteq [mode: {"auto", "analyze", "fix", "impact"}, agentic: BOOLEAN,
                         apply: BOOLEAN, anywhere: BOOLEAN]

VARIABLES
  at,         \* step of each run
  req,        \* its request; mode is decided by the triage when it is auto
  draft,      \* the patch the model gave it and whether it stays in context
  retry,      \* the agentic retry loop: index, escalations, previous, calls
  limit,      \* llm_daily_request_limit
  usage,      \* OrgUsage.count, as committed
  charge,     \* "none", "open" (uncommitted, the row is locked) or "kept"
  row,        \* AnalysisRun of a run: its patch, where it is, what became of it
  blobs,      \* texts whose blob exists
  applying,   \* the apply a run or a user is in the middle of
  removing,   \* the run a user is deleting, the blob to delete with it, and whether
              \* no other row had the patch when they were counted
  tree,       \* how much of a patch is in the files: "out", "part" or "in"
  index,      \* patches the nodes of their files have been scanned with
  patched,    \* patches whose nodes have the status "patched"
  again,      \* history: patches tried when they were in, or written while a
              \* failed try was still to be recorded
  dropped,    \* history: blobs deleted at an expiry or beside a new row
  crashes

runVars == <<at, req, draft, retry>>
quotaVars == <<limit, usage, charge>>
rowVars == <<row, blobs, removing, dropped>>
patchVars == <<applying, tree, index, patched, again>>
taskVars == <<runVars, quotaVars, rowVars, patchVars, crashes>>

NoRow == [patch |-> None, allowed |-> FALSE, applied |-> None, stored |-> FALSE]
NoDraft == [text |-> None, inside |-> TRUE]
Idle == [run |-> None, text |-> None, step |-> "idle", status |-> None]
NotRemoving == [run |-> None, sha |-> None, alone |-> FALSE]
Actors == Runs \cup Users
FreshRetry == [index |-> 0, escalations |-> 0, previous |-> {}, first |-> TRUE,
               calls |-> 1, blank |-> FALSE]

Init ==
  /\ at = [r \in Runs |-> "start"]
  /\ req \in [Runs -> Requests]
  /\ draft = [r \in Runs |-> NoDraft]
  /\ retry = [r \in Runs |-> FreshRetry]
  /\ limit \in Limits /\ usage = 0 /\ charge = [r \in Runs |-> "none"]
  /\ row = [r \in Runs |-> NoRow] /\ blobs = {}
  /\ applying = [a \in Actors |-> Idle]
  /\ removing = [u \in Users |-> NotRemoving]
  /\ tree = [t \in Texts |-> "out"]
  /\ index = {} /\ patched = {} /\ again = {} /\ dropped = {} /\ crashes = 0

Goto(r, step) == at' = [at EXCEPT ![r] = step]

\* leaving the session rolls the open charge back, and the locals are gone
Rollback(r) == charge' = [charge EXCEPT ![r] = IF @ = "open" THEN "none" ELSE @]
Commit(r) ==
  /\ charge' = [charge EXCEPT ![r] = IF @ = "open" THEN "kept" ELSE @]
  /\ usage' = IF charge[r] = "open" THEN usage + 1 ELSE usage
  /\ UNCHANGED limit
Forget(r) ==
  /\ draft' = [draft EXCEPT ![r] = NoDraft] /\ retry' = [retry EXCEPT ![r] = FreshRetry]
Fail(r) ==
  /\ Goto(r, "failed") /\ Rollback(r) /\ Forget(r)
  /\ UNCHANGED <<req, limit, usage, rowVars, patchVars, crashes>>

\* the checks of the request, the node of the target and the first scan
Prepare(r) ==
  /\ at[r] = "start"
  /\ \/ Fail(r)
     \/ /\ Goto(r, IF req[r].mode = "impact" THEN "impact" ELSE "charge")
        /\ UNCHANGED <<req, draft, retry, quotaVars, rowVars, patchVars, crashes>>

\* check_and_increment_async: the row of the day is locked until the commit
\* Mutant: the row of the day is read without its lock.
QuotaUnlocked(r) == TRUE
QuotaFree(r) == \A o \in Runs \ {r} : charge[o] # "open"
Charge(r) ==
  /\ at[r] = "charge" /\ QuotaFree(r)
  /\ IF usage + 1 > limit THEN Fail(r)
     ELSE /\ charge' = [charge EXCEPT ![r] = "open"]
          /\ Goto(r, IF req[r].mode = "auto" THEN "triage" ELSE "ask")
          /\ UNCHANGED <<req, draft, retry, limit, usage, rowVars, patchVars, crashes>>

Triage(r) ==
  /\ at[r] = "triage"
  /\ \/ Fail(r)
     \/ \E m \in {"analyze", "fix", "impact"} :
          /\ req' = [req EXCEPT ![r].mode = m]
          /\ Goto(r, IF m = "impact" THEN "impact" ELSE "ask")
          /\ UNCHANGED <<draft, retry, quotaVars, rowVars, patchVars, crashes>>

\* a contract built for the tools or for the pack commits the session of the run
ContractCommits(r) ==
  /\ at[r] = "ask" /\ charge[r] = "open"
  /\ Commit(r)
  /\ UNCHANGED <<runVars, rowVars, patchVars, crashes>>

\* the graph of the impact, and a plan that degrades when the model fails
Impact(r) ==
  /\ at[r] = "impact" /\ Goto(r, "store")
  /\ UNCHANGED <<req, draft, retry, quotaVars, rowVars, patchVars, crashes>>

\* what passes the quality gate: a fix has a patch, inside the context or not
Drafts(r) ==
  IF req[r].mode = "fix" THEN [text: Texts, inside: BOOLEAN]
  ELSE {NoDraft}

\* pack_context, plan, one call of the model and the quality gate
AskPack(r) ==
  /\ at[r] = "ask" /\ ~req[r].agentic
  /\ \/ Fail(r)
     \/ /\ draft' \in {[draft EXCEPT ![r] = d] : d \in Drafts(r)}
        /\ Goto(r, "store")
        /\ UNCHANGED <<req, retry, quotaVars, rowVars, patchVars, crashes>>

\* _normalize_missing_context_items drops what is blank
Norm(items) == items \ {"blank"}
\* _missing_context_similarity >= 0.9
Alike(p, c) ==
  \/ Norm(p) \cup Norm(c) = {}
  \/ 10 * Cardinality(Norm(p) \cap Norm(c)) >= 9 * Cardinality(Norm(p) \cup Norm(c))

\* Mutant: one escalation too many.
StopLate(t, items) ==
  IF Norm(items) = {} THEN None
  ELSE IF t.index >= MaxRetries THEN "retry_limit"
  ELSE IF ~t.first /\ Alike(t.previous, items) THEN "repeating_missing_context"
  ELSE IF t.escalations > MaxEscalations THEN "escalation_limit"
  ELSE None

\* _resolve_agentic_retry_stop_reason
StopReason(t, items) ==
  IF Norm(items) = {} THEN None
  ELSE IF t.index >= MaxRetries THEN "retry_limit"
  ELSE IF ~t.first /\ Alike(t.previous, items) THEN "repeating_missing_context"
  ELSE IF t.escalations >= MaxEscalations THEN "escalation_limit"
  ELSE None

Least(a, b) == IF a < b THEN a ELSE b
\* int(round(n * 1.5)), halves to the even neighbour
HalfMore(n) == LET m == (3 * n) \div 2 IN
                 IF n % 2 = 0 THEN m ELSE IF m % 2 = 0 THEN m ELSE m + 1

Escalated(t, items) ==
  [t EXCEPT !.escalations = @ + 1, !.previous = items, !.first = FALSE,
            !.calls = Least(HalfMore(@), CallCeiling),
            !.blank = @ \/ Norm(items) = {}]

\* One pass of the retry loop: the agentic call, the quality gate, the stop
\* reason, the escalation, and whether the loop goes round again.
AskAgentic(r) ==
  /\ at[r] = "ask" /\ req[r].agentic
  /\ \/ Fail(r)
     \/ \E items \in Missing, d \in Drafts(r) :
          LET stop == StopReason(retry[r], items)
              more == items # {} /\ stop = None
              t == IF more THEN Escalated(retry[r], items) ELSE retry[r]
              last == ~more \/ retry[r].index = MaxRetries
          IN /\ retry' = [retry EXCEPT ![r] = [t EXCEPT !.index = IF last THEN @ ELSE @ + 1]]
             /\ draft' = [draft EXCEPT ![r] = d]
             /\ Goto(r, IF last THEN "store" ELSE "ask")
             /\ UNCHANGED <<req, quotaVars, rowVars, patchVars, crashes>>

\* store_patch_blob_async: nothing is written over
StoreBlob(r) ==
  /\ at[r] = "store"
  /\ \/ Fail(r)
     \/ /\ blobs' = IF draft[r].text \in Long THEN blobs \cup {draft[r].text} ELSE blobs
        /\ Goto(r, "row")
        /\ UNCHANGED <<req, draft, retry, quotaVars, row, removing, dropped, patchVars, crashes>>

\* the row, its telemetry and the status of the node, in one commit; the locals
\* of the loop and of the answer are read no more
StoreRow(r) ==
  /\ at[r] = "row"
  /\ row' = [row EXCEPT ![r] = [patch |-> draft[r].text, allowed |-> draft[r].inside,
                                applied |-> None, stored |-> TRUE]]
  /\ Commit(r)
  /\ IF req[r].mode = "fix" /\ req[r].apply
     THEN /\ Goto(r, "apply")
          /\ applying' = [applying EXCEPT ![r] =
               [run |-> r, text |-> draft[r].text, step |-> "lock", status |-> None]]
     ELSE Goto(r, "done") /\ UNCHANGED applying
  /\ Forget(r)
  /\ UNCHANGED <<req, blobs, removing, dropped, tree, index, patched, again, crashes>>

-----------------------------------------------------------------------------
\* apply_run_patch_async: the row is read, then the patch, inline or in a blob
StartApply(u, r) ==
  /\ applying[u] = Idle /\ removing[u].run = None
  /\ row[r].stored /\ row[r].patch # None
  /\ row[r].patch \in Long => row[r].patch \in blobs
  /\ applying' = [applying EXCEPT ![u] =
       [run |-> r, text |-> row[r].patch, step |-> "lock", status |-> None]]
  /\ UNCHANGED <<runVars, quotaVars, rowVars, tree, index, patched, again, crashes>>

\* read_patch_blob_async: the expiry of this run's meta deletes the blob
ReadExpired(r) ==
  /\ row[r].stored /\ row[r].patch \in Long \cap blobs
  /\ blobs' = blobs \ {row[r].patch} /\ dropped' = dropped \cup {row[r].patch}
  /\ UNCHANGED <<runVars, quotaVars, row, removing, patchVars, crashes>>

EndApply(a) ==
  /\ applying' = [applying EXCEPT ![a] = Idle]
  /\ at' = IF a \in Runs THEN [at EXCEPT ![a] = "done"] ELSE at
\* an exception leaves the apply: a run fails, a request answers an error
AbortApply(a) ==
  /\ applying' = [applying EXCEPT ![a] = Idle]
  /\ at' = IF a \in Runs THEN [at EXCEPT ![a] = "failed"] ELSE at

InContext(a) ==
  LET r == applying[a].run IN
    row[r].allowed \/ (a \in Runs /\ req[r].anywhere)
Judge(a, step, status) ==
  applying' = [applying EXCEPT ![a].step = step, ![a].status = status]

\* LockedError: nothing is recorded
ApplyLocked(a) ==
  /\ applying[a].step = "lock" /\ AbortApply(a)
  /\ UNCHANGED <<req, draft, retry, quotaVars, rowVars, tree, index, patched, again, crashes>>

\* under the project lock: no patch, paths out of context, or a patch that does
\* not fit the files
ApplyRefused(a) ==
  /\ applying[a].step = "lock"
  /\ Judge(a, "record", "failed")
  /\ again' = IF applying[a].text # None /\ InContext(a) /\ tree[applying[a].text] = "in"
              THEN again \cup {applying[a].text} ELSE again
  /\ UNCHANGED <<runVars, quotaVars, rowVars, tree, index, patched, crashes>>

\* apply_unified_diff checks every file before it writes the first
ApplyWrites(a) ==
  /\ applying[a].step = "lock" /\ applying[a].text # None /\ InContext(a)
  /\ tree[applying[a].text] = "out"
  /\ tree' = [tree EXCEPT ![applying[a].text] = "in"]
  /\ Judge(a, "scan", "success")
  /\ again' = IF \E o \in Actors : applying[o].text = applying[a].text /\ applying[o].step = "record"
              THEN again \cup {applying[a].text} ELSE again
  /\ UNCHANGED <<runVars, quotaVars, rowVars, index, patched, crashes>>

\* a write fails after others were done: a PatchApplyError of the loop is
\* recorded, an error of mkdir or mkstemp is not
ApplyBreaks(a) ==
  /\ applying[a].step = "lock" /\ applying[a].text # None /\ InContext(a)
  /\ tree[applying[a].text] = "out"
  /\ tree' = [tree EXCEPT ![applying[a].text] = "part"]
  /\ \/ Judge(a, "record", "failed") /\ UNCHANGED at
     \/ AbortApply(a)
  /\ UNCHANGED <<req, draft, retry, quotaVars, rowVars, index, patched, again, crashes>>

\* Mutant: what could not be indexed is not marked.
ReindexQuietly(a) ==
  /\ applying[a].step = "scan"
  /\ \/ index' = index \cup {applying[a].text} /\ Judge(a, "record", "success")
     \/ Judge(a, "record", "partial") /\ UNCHANGED index
  /\ UNCHANGED <<runVars, quotaVars, rowVars, tree, patched, again, crashes>>

\* scan_files_async and the metrics; each may fail, and the nodes are marked
Reindex(a) ==
  /\ applying[a].step = "scan"
  /\ \/ /\ index' = index \cup {applying[a].text}
        /\ Judge(a, "record", "success") /\ UNCHANGED patched
     \/ /\ patched' = patched \cup {applying[a].text}
        /\ Judge(a, "record", "partial")
        /\ \/ UNCHANGED index
           \/ index' = index \cup {applying[a].text}
  /\ UNCHANGED <<runVars, quotaVars, rowVars, tree, again, crashes>>

\* the session still has the run when its row is gone: the update then fails
Record(a) ==
  /\ applying[a].step = "record"
  /\ IF row[applying[a].run].stored
     THEN /\ row' = [row EXCEPT ![applying[a].run].applied = applying[a].status]
          /\ EndApply(a)
     ELSE AbortApply(a) /\ UNCHANGED row
  /\ UNCHANGED <<req, draft, retry, quotaVars, blobs, removing, dropped, tree, index,
                 patched, again, crashes>>

\* delete_run_async: the references are counted, the row goes, then the blob
Others(r) == {o \in Runs \ {r} : row[o].stored /\ row[o].patch = row[r].patch}
DeleteRow(u, r) ==
  /\ removing[u].run = None /\ applying[u] = Idle /\ row[r].stored
  /\ removing' = [removing EXCEPT ![u] =
       [run |-> r, sha |-> IF row[r].patch \in Long /\ Others(r) = {} THEN row[r].patch ELSE None,
        alone |-> \A o \in Runs \ {r} : row[o].stored => row[o].patch # row[r].patch]]
  /\ row' = [row EXCEPT ![r].stored = FALSE]
  /\ UNCHANGED <<runVars, quotaVars, blobs, dropped, patchVars, crashes>>

\* a run that has the text, or will store it without writing the blob again
Needed(sha) ==
  \E r \in Runs : \/ row[r].stored /\ row[r].patch = sha
                  \/ at[r] = "row" /\ draft[r].text = sha
\* whether or not the deletion of the blob works
DeleteBlob(u) ==
  /\ removing[u].run # None
  /\ LET sha == removing[u].sha IN
       \/ /\ blobs' = blobs \ {sha}
          /\ dropped' = IF sha \in Long /\ Needed(sha) /\ removing[u].alone THEN dropped \cup {sha} ELSE dropped
       \/ UNCHANGED <<blobs, dropped>>
  /\ removing' = [removing EXCEPT ![u] = NotRemoving]
  /\ UNCHANGED <<runVars, quotaVars, row, patchVars, crashes>>

\* the process of a run dies; what it had not committed is rolled back
Crash(r) ==
  /\ at[r] \notin {"done", "failed"} /\ crashes < MaxCrashes
  /\ crashes' = crashes + 1
  /\ Goto(r, "failed") /\ Rollback(r) /\ Forget(r)
  /\ applying' = [applying EXCEPT ![r] = Idle]
  /\ UNCHANGED <<req, limit, usage, rowVars, tree, index, patched, again>>

RunStep(r) ==
  \/ Prepare(r) \/ Charge(r) \/ Triage(r) \/ Impact(r) \/ AskPack(r) \/ AskAgentic(r)
  \/ StoreBlob(r) \/ StoreRow(r)
ApplyStep(a) ==
  \/ ApplyLocked(a) \/ ApplyRefused(a) \/ ApplyWrites(a) \/ ApplyBreaks(a)
  \/ Reindex(a) \/ Record(a)
UserStep(u) == DeleteBlob(u) \/ \E r \in Runs : StartApply(u, r) \/ DeleteRow(u, r)
Settled ==
  /\ \A r \in Runs : at[r] \in {"done", "failed"}
  /\ UNCHANGED taskVars

Next ==
  \/ \E r \in Runs : RunStep(r) \/ ContractCommits(r) \/ ReadExpired(r) \/ Crash(r)
  \/ \E a \in Actors : ApplyStep(a)
  \/ \E u \in Users : UserStep(u)
  \/ Settled

\* the model, the database and the files answer or time out
Fairness == \A r \in Runs : WF_taskVars(RunStep(r) \/ ApplyStep(r))
Spec == Init /\ [][Next]_taskVars /\ Fairness

-----------------------------------------------------------------------------
TypeOK ==
  /\ at \in [Runs -> {"start", "charge", "triage", "ask", "impact", "store", "row", "apply",
                      "done", "failed"}]
  /\ req \in [Runs -> [mode: {"auto", "analyze", "fix", "impact"}, agentic: BOOLEAN,
                       apply: BOOLEAN, anywhere: BOOLEAN]]
  /\ draft \in [Runs -> [text: Texts \cup {None}, inside: BOOLEAN]]
  /\ limit \in Limits /\ usage \in Nat /\ charge \in [Runs -> {"none", "open", "kept"}]
  /\ row \in [Runs -> [patch: Texts \cup {None}, allowed: BOOLEAN, stored: BOOLEAN,
                       applied: {None, "success", "partial", "failed"}]]
  /\ blobs \subseteq Long /\ dropped \subseteq Long
  /\ tree \in [Texts -> {"out", "part", "in"}]
  /\ index \subseteq Texts /\ patched \subseteq Texts /\ again \subseteq Texts

\* The quota of a day is never passed, however many runs are admitted at once,
\* and no run of the model is stored without having been charged
\* (usage_service.py:58, task_service.py:1022).
QuotaHolds ==
  /\ usage <= limit
  /\ usage = Cardinality({r \in Runs : charge[r] = "kept"})
  /\ \A r \in Runs : row[r].stored /\ req[r].mode # "impact" => charge[r] = "kept"

\* A run escalates within its limit, but for missing context that is only blank:
\* it stops no retry and is counted all the same (task_service.py:450 and 1640).
EscalationsExplained ==
  \A r \in Runs :
    /\ retry[r].escalations > MaxEscalations => retry[r].blank
    /\ retry[r].escalations <= MaxRetries + 1
    /\ retry[r].calls <= CallCeiling

\* The blob of a stored run is there unless an expired read or a crossed delete
\* took it away (storage.py:170, task_service.py:2335).
MissingBlobExplained ==
  \A r \in Runs : row[r].stored /\ row[r].patch \in Long \ blobs => row[r].patch \in dropped

\* A patch that is wholly in the files and not in the index leaves its nodes
\* marked, unless its apply has not come so far or died (task_service.py:573).
UnindexedIsMarked ==
  \A t \in Texts :
    tree[t] = "in" /\ t \notin index =>
      \/ t \in patched
      \/ \E a \in Actors : applying[a].text = t /\ applying[a].step = "scan"
      \/ crashes > 0

\* A run is on record as failed although its patch is in the files only while an
\* apply has not recorded its success, or when two tries of the patch crossed:
\* the one that failed is recorded over the one that worked (task_service.py:649).
FailureIsHonest ==
  \A r \in Runs :
    row[r].stored /\ row[r].applied = "failed" /\ row[r].allowed /\ row[r].patch # None =>
      \/ tree[row[r].patch] # "in"
      \/ row[r].patch \in again
      \/ \E a \in Actors : applying[a].text = row[r].patch /\ applying[a].step # "lock"
      \/ \E o \in Runs \ {r} : row[o].patch = row[r].patch
      \/ crashes > 0

\* What is on record of a patch and what is in the files, the index and the blob
\* store agree, but in the cases named (storage.py:170, task_service.py:573 and 649).
PatchesExplained == MissingBlobExplained /\ UnindexedIsMarked /\ FailureIsHonest
=============================================================================

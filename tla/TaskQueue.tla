----------------------------- MODULE TaskQueue -----------------------------
(***************************************************************************)
(* The background task queue of StubGraph:                                 *)
(*   - the API side, services/task_queue.py: find, guard, create, enqueue, *)
(*     and the roll back of a failed enqueue;                              *)
(*   - the Redis set of heavy jobs in flight, and its reconciliation;      *)
(*   - the worker side, task_handlers.py and arq_worker.py: load, touch,   *)
(*     run, settle, clean up, retry.                                       *)
(* The ARQ broker is external: a job is queued once by its id, delivered   *)
(* to one worker at a time, delivered again after a Retry or the death of  *)
(* its worker, and given up after MaxTries deliveries or a job timeout.    *)
(*                                                                         *)
(* A task is one submit call: the call and the row it may create share the *)
(* provisional id.  Every await of the code is a separate step.            *)
(***************************************************************************)
EXTENDS Naturals, FiniteSets

CONSTANTS
    Tasks,         \* the submit calls, named by their provisional task ids
    Keys,          \* idempotency keys: hash of kind, organisation and payload
    KeyOf,         \* the key each call computes
    HeavyKeys,     \* the keys of kind run_task, which use the heavy queue
    Limit,         \* task_queue_inflight_heavy_limit
    MaxTries,      \* arq_max_tries
    MaxCompleted,  \* task_queue_max_completed
    FaultKinds,    \* the failures this instance may suffer
    MaxFaults      \* bound: how many failures happen in one behaviour

AllFaults == {"submitter_crash", "redis_error", "db_error", "enqueue_error",
              "enqueue_timeout", "worker_crash", "job_timeout"}

ASSUME TasksAssumption == IsFiniteSet(Tasks)
ASSUME KeysAssumption == KeyOf \in [Tasks -> Keys] /\ HeavyKeys \subseteq Keys
ASSUME BoundsAssumption ==
    /\ Limit \in Nat \ {0}      \* config.py refuses values that are not positive
    /\ MaxTries \in Nat \ {0}
    /\ MaxCompleted \in Nat \ {0}
    /\ FaultKinds \subseteq AllFaults
    /\ MaxFaults \in Nat

VARIABLES
    status,    \* TaskJob.status per task, "none" when there is no row
    own,       \* the row carries the key and the queue of its submit call
    inflight,  \* the Redis set stubgraph:queue:heavy:inflight
    pc,        \* where each submit call is
    view,      \* what a call's reconciliation has read: the count and the ids of rows
    job,       \* the broker's view of the job
    tries,     \* how often the broker delivered it
    wpc,       \* where the worker running the job is
    seen,      \* the status the worker's session loaded
    verdict,   \* how the handler's work ended
    victims,   \* the ids the worker's clean-up has selected
    faults     \* failures so far

rowVars    == <<status, own>>
submitVars == <<pc, view>>
brokerVars == <<job, tries>>
workerVars == <<wpc, seen, verdict, victims>>
vars == <<rowVars, inflight, submitVars, brokerVars, workerVars, faults>>

Active   == {"pending", "running"}
Terminal == {"succeeded", "failed"}
Statuses == {"none"} \cup Active \cup Terminal

ReconcilePc == {"count", "compare", "list", "clear", "restore"}
FreePc  == {"free_joined", "free_raised", "free_lost"}
\* How a submit call ends.  "dead": it was cut off before its enqueue failed.
\* "lost": it failed (or was cut off while failing) and may have left its row
\* active, because it could not mark it or its failed commit went through.
EndPc == {"returned", "joined", "rejected", "raised", "lost", "dead"}
SubmitPc == {"idle", "guard", "reguard", "create", "refind", "enqueue", "mark"}
              \cup ReconcilePc \cup FreePc \cup EndPc
JobStates == {"absent", "queued", "running", "done", "dropped"}
WorkerPc == {"off", "load", "touch", "begin", "work", "release",
             "finish", "select", "purge"}

Heavy(t) == KeyOf[t] \in HeavyKeys

\* Rows whose key and queue the database still knows.
KeyedActive == {t \in Tasks : own[t] /\ status[t] \in Active}
HeavyActive == {t \in KeyedActive : Heavy(t)}

\* Mutant: an index whose predicate forgets the running rows.
KeyIsFreeAmongPending(t) ==
    \A u \in KeyedActive : status[u] = "pending" => u = t \/ KeyOf[u] # KeyOf[t]

\* uq_taskjob_org_idempotency_key_active: t may become active.
KeyIsFree(t) == \A u \in KeyedActive : u = t \/ KeyOf[u] # KeyOf[t]

ActiveTwin(t) == \E u \in KeyedActive : KeyOf[u] = KeyOf[t]

Fault(kind) ==
    /\ kind \in FaultKinds
    /\ faults < MaxFaults
    /\ faults' = faults + 1

TypeOK ==
    /\ status \in [Tasks -> Statuses]
    /\ own \in [Tasks -> BOOLEAN]
    /\ inflight \subseteq Tasks
    /\ pc \in [Tasks -> SubmitPc]
    /\ view \in [Tasks -> [count : Nat, listed : BOOLEAN, ids : SUBSET Tasks]]
    /\ job \in [Tasks -> JobStates]
    /\ tries \in [Tasks -> 0..MaxTries]
    /\ wpc \in [Tasks -> WorkerPc]
    /\ seen \in [Tasks -> Statuses]
    /\ verdict \in [Tasks -> Terminal]
    /\ victims \in [Tasks -> SUBSET Tasks]
    /\ faults \in 0..MaxFaults

Init ==
    /\ status = [t \in Tasks |-> "none"]
    /\ own = [t \in Tasks |-> FALSE]
    /\ inflight = {}
    /\ pc = [t \in Tasks |-> "idle"]
    /\ view = [t \in Tasks |-> [count |-> 0, listed |-> FALSE, ids |-> {}]]
    /\ job = [t \in Tasks |-> "absent"]
    /\ tries = [t \in Tasks |-> 0]
    /\ wpc = [t \in Tasks |-> "off"]
    /\ seen = [t \in Tasks |-> "none"]
    /\ verdict = [t \in Tasks |-> "failed"]
    /\ victims = [t \in Tasks |-> {}]
    /\ faults = 0

-----------------------------------------------------------------------------
(* The submit call.                                                        *)

GoTo(t, step) == pc' = [pc EXCEPT ![t] = step]

\* _find_existing_job_async: an active job with the same key is returned.
FindActive(t) ==
    /\ pc[t] = "idle"
    /\ GoTo(t, IF ActiveTwin(t) THEN "joined"
               ELSE IF Heavy(t) THEN "guard" ELSE "create")
    /\ UNCHANGED <<rowVars, inflight, view, brokerVars, workerVars, faults>>

\* The Lua script of _guard_inflight_async: take a slot below the limit.
Admit(t) ==
    /\ pc[t] \in {"guard", "reguard"}
    /\ Cardinality(inflight) < Limit
    /\ inflight' = inflight \cup {t}
    /\ GoTo(t, "create")
    /\ UNCHANGED <<rowVars, view, brokerVars, workerVars, faults>>

\* A full set is reconciled once; the second refusal reaches the caller.
Refuse(t) ==
    /\ pc[t] \in {"guard", "reguard"}
    /\ Cardinality(inflight) >= Limit
    /\ GoTo(t, IF pc[t] = "guard" THEN "count" ELSE "rejected")
    /\ UNCHANGED <<rowVars, inflight, view, brokerVars, workerVars, faults>>

\* The script fails, or it runs and its reply is lost: nobody frees the slot.
GuardFails(t) ==
    /\ pc[t] \in {"guard", "reguard"}
    /\ Fault("redis_error")
    /\ \/ UNCHANGED inflight
       \/ Cardinality(inflight) < Limit /\ inflight' = inflight \cup {t}
    /\ GoTo(t, "raised")
    /\ UNCHANGED <<rowVars, view, brokerVars, workerVars>>

\* _reconcile_heavy_inflight_async, one step per await.
CountRows(t) ==
    /\ pc[t] = "count"
    /\ view' = [view EXCEPT ![t] =
                   [count |-> Cardinality(HeavyActive), listed |-> FALSE, ids |-> {}]]
    /\ GoTo(t, "compare")
    /\ UNCHANGED <<rowVars, inflight, brokerVars, workerVars, faults>>

\* Mutant: reconciles until the counts agree, and never resets a leaked slot.
CompareUntilEqual(t) ==
    /\ pc[t] = "compare"
    /\ GoTo(t, IF Cardinality(inflight) = view[t].count THEN "reguard" ELSE "count")
    /\ UNCHANGED <<rowVars, inflight, view, brokerVars, workerVars, faults>>

CompareCounts(t) ==
    /\ pc[t] = "compare"
    /\ GoTo(t, IF Cardinality(inflight) = view[t].count THEN "reguard" ELSE "list")
    /\ UNCHANGED <<rowVars, inflight, view, brokerVars, workerVars, faults>>

ListRows(t) ==
    /\ pc[t] = "list"
    /\ view' = [view EXCEPT ![t] =
                   [count |-> view[t].count, listed |-> TRUE, ids |-> HeavyActive]]
    /\ GoTo(t, "clear")
    /\ UNCHANGED <<rowVars, inflight, brokerVars, workerVars, faults>>

ClearSlots(t) ==
    /\ pc[t] = "clear"
    /\ inflight' = {}
    /\ GoTo(t, "restore")
    /\ UNCHANGED <<rowVars, view, brokerVars, workerVars, faults>>

RestoreSlots(t) ==
    /\ pc[t] = "restore"
    /\ inflight' = inflight \cup view[t].ids
    /\ GoTo(t, "reguard")
    /\ UNCHANGED <<rowVars, view, brokerVars, workerVars, faults>>

\* A failed reconciliation is logged and the guard is tried again all the same.
ReconcileFails(t) ==
    /\ pc[t] \in ReconcilePc
    /\ Fault("redis_error")
    /\ GoTo(t, "reguard")
    /\ UNCHANGED <<rowVars, inflight, view, brokerVars, workerVars>>

\* _create_job_async: the commit that the partial unique index may refuse.
CreateRow(t) ==
    /\ pc[t] = "create"
    /\ IF KeyIsFree(t)
         THEN /\ status' = [status EXCEPT ![t] = "pending"]
              /\ own' = [own EXCEPT ![t] = TRUE]
              /\ GoTo(t, "enqueue")
         ELSE /\ GoTo(t, "refind")
              /\ UNCHANGED rowVars
    /\ UNCHANGED <<inflight, view, brokerVars, workerVars, faults>>

\* After the rollback: join the winner, or raise when it has settled already.
Refind(t) ==
    /\ pc[t] = "refind"
    /\ GoTo(t, IF ActiveTwin(t) THEN "free_joined" ELSE "free_raised")
    /\ UNCHANGED <<rowVars, inflight, view, brokerVars, workerVars, faults>>

\* The commit is reported as failed; the server may have applied it.
CreateFails(t) ==
    /\ pc[t] = "create"
    /\ Fault("db_error")
    /\ \/ /\ GoTo(t, "free_raised")
          /\ UNCHANGED rowVars
       \/ /\ KeyIsFree(t)
          /\ status' = [status EXCEPT ![t] = "pending"]
          /\ own' = [own EXCEPT ![t] = TRUE]
          /\ GoTo(t, "free_lost")
    /\ UNCHANGED <<inflight, view, brokerVars, workerVars>>

\* _enqueue_with_error_mapping_async
Publish(t) ==
    /\ pc[t] = "enqueue"
    /\ job' = [job EXCEPT ![t] = "queued"]
    /\ GoTo(t, "returned")
    /\ UNCHANGED <<rowVars, inflight, view, tries, workerVars, faults>>

\* The broker refuses the job, or wait_for gives up on a job that it took.
EnqueueFails(t) ==
    /\ pc[t] = "enqueue"
    /\ \/ Fault("enqueue_error") /\ UNCHANGED job
       \/ Fault("enqueue_timeout") /\ job' = [job EXCEPT ![t] = "queued"]
    /\ GoTo(t, "mark")
    /\ UNCHANGED <<rowVars, inflight, view, tries, workerVars>>

\* Mutant: the roll back forgets to commit.
MarkWithoutCommit(t) ==
    /\ pc[t] = "mark"
    /\ GoTo(t, "free_raised")
    /\ UNCHANGED <<rowVars, inflight, view, brokerVars, workerVars, faults>>

\* Mutant: the roll back updates by idempotency key instead of by id.
MarkByKey(t) ==
    /\ pc[t] = "mark"
    /\ status' = [u \in Tasks |->
                     IF KeyOf[u] = KeyOf[t] /\ status[u] # "none" THEN "failed" ELSE status[u]]
    /\ GoTo(t, "free_raised")
    /\ UNCHANGED <<own, inflight, view, brokerVars, workerVars, faults>>

\* _mark_enqueue_failure_async writes through the row its session created,
\* whatever a worker has made of it since; a row that is gone is only logged.
MarkFailed(t) ==
    /\ pc[t] = "mark"
    /\ status' = [status EXCEPT ![t] = IF @ = "none" THEN @ ELSE "failed"]
    /\ GoTo(t, "free_raised")
    /\ UNCHANGED <<own, inflight, view, brokerVars, workerVars, faults>>

MarkLost(t) ==
    /\ pc[t] = "mark"
    /\ Fault("db_error")
    /\ GoTo(t, "free_lost")
    /\ UNCHANGED <<rowVars, inflight, view, brokerVars, workerVars>>

AfterFree == [free_joined |-> "joined", free_raised |-> "raised", free_lost |-> "lost"]

\* _release_inflight_async; only a heavy call has a slot to free.
FreeSlot(t) ==
    /\ pc[t] \in FreePc
    /\ inflight' = inflight \ {t}
    /\ GoTo(t, AfterFree[pc[t]])
    /\ UNCHANGED <<rowVars, view, brokerVars, workerVars, faults>>

FreeFails(t) ==
    /\ pc[t] \in FreePc
    /\ Heavy(t)
    /\ Fault("redis_error")
    /\ GoTo(t, AfterFree[pc[t]])
    /\ UNCHANGED <<rowVars, inflight, view, brokerVars, workerVars>>

\* The API process dies or the request is cancelled: no handler cleans up.
SubmitterDies(t) ==
    /\ pc[t] \notin EndPc \cup {"idle"}
    /\ Fault("submitter_crash")
    /\ GoTo(t, IF pc[t] \in {"mark", "free_raised", "free_lost"} THEN "lost" ELSE "dead")
    /\ UNCHANGED <<rowVars, inflight, view, brokerVars, workerVars>>

-----------------------------------------------------------------------------
(* The broker and the worker.                                              *)

Step(t, step) == wpc' = [wpc EXCEPT ![t] = step]

\* External (ARQ): delivery number tries + 1, or giving up on the job.
Deliver(t) ==
    /\ job[t] = "queued"
    /\ IF tries[t] < MaxTries
         THEN /\ job' = [job EXCEPT ![t] = "running"]
              /\ tries' = [tries EXCEPT ![t] = @ + 1]
              /\ Step(t, "load")
         ELSE /\ job' = [job EXCEPT ![t] = "dropped"]
              /\ UNCHANGED <<tries, wpc>>
    /\ UNCHANGED <<rowVars, inflight, submitVars, seen, verdict, victims, faults>>

\* arq_worker._run_task_async turns an exception into a Retry.
Retry(t) ==
    /\ Step(t, "off")
    /\ job' = [job EXCEPT ![t] = "queued"]

\* _set_job_status_async("running"): session.get, then the slot, then commit.
LoadRow(t) ==
    /\ wpc[t] = "load"
    /\ seen' = [seen EXCEPT ![t] = status[t]]
    /\ Step(t, "touch")
    /\ UNCHANGED <<rowVars, inflight, submitVars, brokerVars, verdict, victims, faults>>

\* A row that is missing is made anew on the default queue: it has no slot.
TouchSlot(t) ==
    /\ wpc[t] = "touch"
    /\ inflight' = IF seen[t] # "none" /\ own[t] /\ Heavy(t)
                     THEN inflight \cup {t} ELSE inflight
    /\ Step(t, "begin")
    /\ UNCHANGED <<rowVars, submitVars, brokerVars, seen, verdict, victims, faults>>

\* The commit fails when the row has been deleted since it was loaded, and
\* when it would become active again beside another job of its key.
BeginRefused(t) ==
    \/ seen[t] # "none" /\ status[t] = "none"
    \/ seen[t] \notin {"none", "running"} /\ own[t] /\ ~KeyIsFree(t)

\* Only a changed attribute is written: a row loaded as running keeps what
\* the database has now.  A missing row is inserted without key and queue.
BeginRun(t) ==
    /\ wpc[t] = "begin"
    /\ IF BeginRefused(t)
         THEN Retry(t) /\ UNCHANGED rowVars
         ELSE /\ status' = [status EXCEPT ![t] = IF seen[t] = "running" THEN @ ELSE "running"]
              /\ own' = [own EXCEPT ![t] = @ /\ seen[t] # "none"]
              /\ Step(t, "work")
              /\ UNCHANGED job
    /\ UNCHANGED <<inflight, submitVars, tries, seen, verdict, victims, faults>>

\* The handler's work: scan, docs, run, indexing.  Its exceptions are caught.
Work(t) ==
    /\ wpc[t] = "work"
    /\ \E outcome \in Terminal : verdict' = [verdict EXCEPT ![t] = outcome]
    /\ Step(t, "release")
    /\ UNCHANGED <<rowVars, inflight, submitVars, brokerVars, seen, victims, faults>>

\* Mutant: only a success gives its slot back.
ReleaseOnSuccess(t) ==
    /\ wpc[t] = "release"
    /\ inflight' = IF own[t] /\ Heavy(t) /\ verdict[t] = "succeeded"
                     THEN inflight \ {t} ELSE inflight
    /\ Step(t, "finish")
    /\ UNCHANGED <<rowVars, submitVars, brokerVars, seen, verdict, victims, faults>>

\* _set_job_status_async(terminal): the slot goes before the commit.
ReleaseSlot(t) ==
    /\ wpc[t] = "release"
    /\ inflight' = IF own[t] /\ Heavy(t) THEN inflight \ {t} ELSE inflight
    /\ Step(t, "finish")
    /\ UNCHANGED <<rowVars, submitVars, brokerVars, seen, verdict, victims, faults>>

\* The session still holds the row as running, so the verdict is written over
\* whatever the row says now; an update of a deleted row raises.
FinishRun(t) ==
    /\ wpc[t] = "finish"
    /\ IF status[t] = "none"
         THEN Retry(t) /\ UNCHANGED status
         ELSE /\ status' = [status EXCEPT ![t] = verdict[t]]
              /\ Step(t, "select")
              /\ UNCHANGED job
    /\ UNCHANGED <<own, inflight, submitVars, tries, seen, verdict, victims, faults>>

\* Mutant: the clean-up counts every row, not the terminal ones alone.
EveryRow == {t \in Tasks : status[t] # "none"}

TerminalRows == {t \in Tasks : status[t] \in Terminal}

\* cleanup_completed_jobs_async: all but the newest MaxCompleted terminal rows
\* (which ones those are, the completion times say; here it is any choice).
SelectVictims(t) ==
    /\ wpc[t] = "select"
    /\ \E chosen \in SUBSET TerminalRows :
         /\ Cardinality(chosen) + MaxCompleted = Cardinality(TerminalRows)
              \/ (chosen = {} /\ Cardinality(TerminalRows) <= MaxCompleted)
         /\ victims' = [victims EXCEPT ![t] = chosen]
    /\ Step(t, "purge")
    /\ UNCHANGED <<rowVars, inflight, submitVars, brokerVars, seen, verdict, faults>>

\* The selected rows are deleted by id alone, in a later statement; the rows
\* past their time to live are deleted while they are terminal.
PurgeVictims(t) ==
    /\ wpc[t] = "purge"
    /\ \E expired \in SUBSET TerminalRows :
         status' = [u \in Tasks |->
                      IF u \in victims[t] \cup expired THEN "none" ELSE status[u]]
    /\ victims' = [victims EXCEPT ![t] = {}]
    /\ job' = [job EXCEPT ![t] = "done"]
    /\ Step(t, "off")
    /\ UNCHANGED <<own, inflight, submitVars, tries, seen, verdict, faults>>

\* A store error outside the handler's try, or the death of the worker: the
\* job is delivered again from the start.
WorkerFails(t) ==
    /\ wpc[t] # "off"
    /\ \/ Fault("worker_crash")
       \/ wpc[t] \in {"touch", "release"} /\ own[t] /\ Heavy(t) /\ Fault("redis_error")
       \/ wpc[t] \in {"load", "begin", "finish", "select", "purge"} /\ Fault("db_error")
    /\ Retry(t)
    /\ victims' = [victims EXCEPT ![t] = {}]
    /\ UNCHANGED <<rowVars, inflight, submitVars, tries, seen, verdict>>

\* External (ARQ): wait_for(job_timeout) cancels the handler, whose
\* "except Exception" does not see it, and the job is not tried again.
JobTimesOut(t) ==
    /\ wpc[t] # "off"
    /\ Fault("job_timeout")
    /\ Step(t, "off")
    /\ job' = [job EXCEPT ![t] = "dropped"]
    /\ victims' = [victims EXCEPT ![t] = {}]
    /\ UNCHANGED <<rowVars, inflight, submitVars, tries, seen, verdict>>

-----------------------------------------------------------------------------
Submitter(t) ==
    \/ FindActive(t) \/ Admit(t) \/ Refuse(t)
    \/ CountRows(t) \/ CompareCounts(t) \/ ListRows(t) \/ ClearSlots(t) \/ RestoreSlots(t)
    \/ CreateRow(t) \/ Refind(t) \/ Publish(t) \/ MarkFailed(t) \/ FreeSlot(t)

Worker(t) ==
    \/ Deliver(t) \/ LoadRow(t) \/ TouchSlot(t) \/ BeginRun(t) \/ Work(t)
    \/ ReleaseSlot(t) \/ FinishRun(t) \/ SelectVictims(t) \/ PurgeVictims(t)

Failure(t) ==
    \/ GuardFails(t) \/ ReconcileFails(t) \/ CreateFails(t) \/ EnqueueFails(t)
    \/ MarkLost(t) \/ FreeFails(t) \/ SubmitterDies(t)
    \/ WorkerFails(t) \/ JobTimesOut(t)

Live(t) == job[t] \in {"queued", "running"}

\* Every call has ended and the broker is empty: the instance may stop here.
AllQuiet ==
    /\ \A t \in Tasks : pc[t] \in EndPc /\ ~Live(t)
    /\ UNCHANGED vars

Next ==
    \/ \E t \in Tasks : Submitter(t) \/ Worker(t) \/ Failure(t)
    \/ AllQuiet

Spec == Init /\ [][Next]_vars

\* The event loops keep running the coroutines they hold, and a worker keeps
\* polling its queue.  Failures are not fair.
FairSpec ==
    Spec /\ \A t \in Tasks : WF_vars(Submitter(t)) /\ WF_vars(Worker(t))

-----------------------------------------------------------------------------
(* Properties.                                                             *)

Lifecycle == INSTANCE JobLifecycle WITH accepted <- own

\* Refinement: as long as no failure can deliver a job that has succeeded, or
\* one that its submit call has given up, every job follows the life cycle.
FollowsLifecycle == Lifecycle!Spec

\* At most one active row per idempotency key, through submits, late
\* deliveries, redeliveries and clean-ups.
UniqueActiveKey ==
    \A t, u \in KeyedActive : KeyOf[t] = KeyOf[u] => t = u

\* The submit call told its caller that the job had failed.
Disowned(t) == pc[t] \in {"mark", "free_raised", "raised", "free_lost", "lost"}

\* While a handler works, the row says so: a row in another state was marked
\* failed by its submit call, or was settled by an earlier delivery of the
\* same job and touched by a clean-up that had selected it then.
WorkIsRecorded ==
    \A t \in Tasks :
        wpc[t] \in {"work", "release"} /\ status[t] # "running" =>
            Disowned(t) \/ (status[t] = "none" /\ tries[t] > 1)

\* Two jobs of one key never work at the same time, unless one of them was
\* reported as failed to its caller or lost its row to a clean-up.
ExclusiveWork ==
    \A t, u \in Tasks :
        /\ wpc[t] = "work" /\ wpc[u] = "work"
        /\ KeyOf[t] = KeyOf[u] /\ t # u
        => \E x \in {t, u} : Disowned(x) \/ ~own[x] \/ status[x] = "none"

\* A row that is active while nobody works towards settling it: its submit
\* call died or could not mark it, or the broker gave its job up.  (Such a row
\* keeps its idempotency key for ever.)
StrandedOnlyByFailure ==
    \A t \in Tasks :
        status[t] \in Active /\ pc[t] \in EndPc /\ ~Live(t) =>
            pc[t] \in {"dead", "lost"} \/ job[t] = "dropped"

\* The slot of a job that is over: its submit call died, the broker gave the
\* job up, its row was made anew without its queue, or a reconciliation put
\* back ids that it had read earlier.
SlotLeakExplained ==
    "redis_error" \notin FaultKinds =>
        \A t \in inflight :
            pc[t] \in EndPc /\ ~Live(t) =>
                \/ pc[t] \in {"dead", "lost"} \/ job[t] = "dropped" \/ ~own[t]
                \/ \E u \in Tasks : t \in view[u].ids

\* A heavy handler works without its slot only after a reconciliation, or
\* after its own submit call gave the slot back.
WorkerHoldsSlot ==
    \A t \in Tasks :
        wpc[t] = "work" /\ own[t] /\ Heavy(t) /\ t \notin inflight =>
            \/ Disowned(t)
            \/ \E u \in Tasks : view[u].listed

\* A success is taken back only when the job is delivered again or its submit
\* call, which never heard of it, marks it failed.
SuccessStands ==
    [][\A t \in Tasks :
          status[t] = "succeeded" /\ status'[t] \notin {"succeeded", "none"} =>
              tries[t] > 1 \/ pc[t] = "mark"]_vars

\* The inductive invariant behind the safety properties.
JobMatchesWorker ==
    \A t \in Tasks :
        /\ wpc[t] # "off" <=> job[t] = "running"
        /\ job[t] = "absent" => tries[t] = 0
        /\ wpc[t] # "off" => tries[t] > 0

\* A call that has yet to enqueue has published nothing.
NothingPublishedYet ==
    \A t \in Tasks :
        pc[t] \in {"idle", "guard", "reguard", "create", "refind", "enqueue"} \cup ReconcilePc
            => job[t] = "absent"

\* Without a job, an active row is the business of its submit call.
ActiveHasOwner ==
    \A t \in Tasks :
        /\ job[t] = "absent" /\ status[t] \in Active =>
              pc[t] \in {"enqueue", "mark", "free_lost", "lost", "dead"}
        /\ wpc[t] \in {"select", "purge"} \/ job[t] = "done" => status[t] \notin Active

\* A delivery of the job has got as far as settling it.
SettledOnce(t) == tries[t] > 1 \/ (tries[t] = 1 /\ wpc[t] \in {"off", "select", "purge"})

TerminalHasCause ==
    /\ \A t \in Tasks : status[t] = "succeeded" => SettledOnce(t)
    /\ \A t \in Tasks : status[t] = "failed" => SettledOnce(t) \/ Disowned(t)
    /\ \A u \in Tasks : \A t \in victims[u] : SettledOnce(t) \/ Disowned(t)

\* What the worker loaded as running is still running, gone, or marked.
LoadedRunning ==
    \A t \in Tasks :
        wpc[t] \in {"touch", "begin"} /\ seen[t] = "running" /\ status[t] \notin {"running", "none"}
            => Disowned(t)

IndInv ==
    /\ TypeOK /\ JobMatchesWorker /\ NothingPublishedYet /\ ActiveHasOwner
    /\ TerminalHasCause /\ LoadedRunning /\ UniqueActiveKey /\ WorkIsRecorded

\* Every submit call ends and every active row is settled, so that no
\* idempotency key stays taken, unless the call or its job was given up.
Settled ==
    \A t \in Tasks :
        /\ pc[t] \in EndPc
        /\ status[t] \in Active => pc[t] \in {"dead", "lost"} \/ job[t] = "dropped"
QueueSettles == <>[]Settled

\* The slots of the in-flight set and the jobs that hold them agree, both ways.
SlotsExplained == SlotLeakExplained /\ WorkerHoldsSlot
=============================================================================

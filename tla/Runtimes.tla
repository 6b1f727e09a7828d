------------------------------- MODULE Runtimes -------------------------------
(***************************************************************************)
(* The executor pools of a process (infra/cpu_runtime.py, fs_runtime.py,   *)
(* external_io_runtime.py) and the steps that start and clean them up      *)
(* (runtime_lifecycle.py).  A runtime is a semaphore before an executor;   *)
(* it is made by whoever finds none, on the one event loop of the process. *)
(* A lane of the file runtime stands for both of its lanes.                *)
(***************************************************************************)
EXTENDS Naturals, FiniteSets

CONSTANTS
  Calls,        \* calls of run_*_io_async
  Permits,      \* max_concurrency: the semaphore of a runtime
  PoolWorkers,  \* max_workers of its executor
  MaxMade,      \* bound: runtimes of one kind that are made
  StopsAtError  \* the cleanup of this role stops at a step that fails

\* what the constants have to be; assumed by MCMachines
RuntimesAssumption ==
  /\ IsFiniteSet(Calls) /\ Permits \in Nat /\ PoolWorkers \in Nat
  /\ MaxMade \in Nat \ {0} /\ StopsAtError \in BOOLEAN

VARIABLES
  calls,        \* [kind, at, rt] of each call: where it is, the runtime it holds
  jobs,         \* what the executor has of the call
  current,      \* the runtime of a kind, 0 for None
  made,         \* runtimes of a kind made so far
  dead,         \* executors shut down or broken, <<kind, runtime>>
  counts,       \* permits, queue_depth and in_flight of each runtime
  cleaning,     \* step of the cleanup, 0 before it
  closing,      \* the runtime whose shutdown is waited for, 0 for none
  reborn,       \* history: kinds made again after their close
  cancelled,    \* history: calls cancelled while their job ran
  gaveUp        \* history: the cleanup stopped at a step

runtimeVars == <<calls, jobs, current, made, dead, counts, cleaning, closing, reborn,
                 cancelled, gaveUp>>

Kinds == {"fs", "cpu", "storage"}
Runtime == Kinds \X (1..MaxMade)
Of(c) == <<calls[c].kind, calls[c].rt>>
CallsAt(r, s) == {c \in Calls : Of(c) = r /\ calls[c].at = s}
JobsIn(r, s) == {c \in Calls : Of(c) = r /\ jobs[c] = s}

\* build_cleanup_steps: what is closed before the executors, then these
CleanupSteps == <<"clients", "fs", "cpu", "storage">>
CleanupOver == 5
Closed(k) == \E i \in 2..4 : CleanupSteps[i] = k /\ (cleaning > i \/ (cleaning = i /\ closing # 0))

\* build_startup_steps; a step before them may have failed, and lifespan cleans up.
\* Runtimes share nothing but the order of their close: the calls are of one kind
RuntimesInit ==
  /\ \E k \in Kinds : calls = [c \in Calls |-> [kind |-> k, at |-> "start", rt |-> 0]]
  /\ jobs = [c \in Calls |-> "none"]
  /\ \/ current = [k \in Kinds |-> 1] /\ made = [k \in Kinds |-> 1]
     \/ current = [k \in Kinds |-> 0] /\ made = [k \in Kinds |-> 0]
  /\ dead = {} /\ counts = [r \in Runtime |-> [permits |-> Permits, depth |-> 0, flight |-> 0]]
  /\ cleaning = 0 /\ closing = 0 /\ reborn = {} /\ cancelled = {} /\ gaveUp = FALSE

Less(n) == IF n = 0 THEN 0 ELSE n - 1
End(c) == calls' = [calls EXCEPT ![c].at = "ended"]

\* init_cpu_runtime, init_fs_runtime, init_external_io_runtime
Build(k) ==
  /\ made[k] < MaxMade
  /\ made' = [made EXCEPT ![k] = @ + 1] /\ current' = [current EXCEPT ![k] = made[k] + 1]
  /\ reborn' = IF Closed(k) THEN reborn \cup {k} ELSE reborn
\* _validate_process_contract: the job of a cpu call must be one a process can run
ContractRefuses(c) == calls[c].kind = "cpu" /\ End(c)
\* _get_*_runtime, and the call in the queue of the semaphore
Enter(c) ==
  /\ calls[c].at = "start"
  /\ LET k == calls[c].kind
         g == IF current[k] = 0 THEN made[k] + 1 ELSE current[k]
     IN /\ IF current[k] = 0 THEN Build(k) ELSE UNCHANGED <<current, made, reborn>>
        /\ \/ /\ calls' = [calls EXCEPT ![c].at = "queued", ![c].rt = g]
              /\ counts' = [counts EXCEPT ![<<k, g>>].depth = @ + 1]
           \/ ContractRefuses(c) /\ UNCHANGED counts
  /\ UNCHANGED <<jobs, dead, cleaning, closing, cancelled, gaveUp>>

\* the semaphore acquired and the job submitted: an executor shut down or
\* broken refuses it, and the permit goes back
Acquire(c) ==
  /\ calls[c].at = "queued" /\ counts[Of(c)].permits > 0
  /\ IF Of(c) \in dead
     THEN /\ counts' = [counts EXCEPT ![Of(c)].depth = Less(@)]
          /\ End(c) /\ UNCHANGED jobs
     ELSE /\ counts' = [counts EXCEPT ![Of(c)].depth = Less(@), ![Of(c)].flight = @ + 1,
                                      ![Of(c)].permits = @ - 1]
          /\ calls' = [calls EXCEPT ![c].at = "submitted"]
          /\ jobs' = [jobs EXCEPT ![c] = "pending"]
  /\ UNCHANGED <<current, made, dead, cleaning, closing, reborn, cancelled, gaveUp>>

\* Mutant: the semaphore is not released.
GiveNothingBack(c) == counts' = [counts EXCEPT ![Of(c)].flight = Less(@)]
\* the finally of the call: its job is over, or it is cancelled
GivePermitBack(c) ==
  counts' = [counts EXCEPT ![Of(c)].flight = Less(@), ![Of(c)].permits = @ + 1]
Resume(c) ==
  /\ calls[c].at = "submitted" /\ jobs[c] = "over"
  /\ GivePermitBack(c) /\ End(c)
  /\ UNCHANGED <<jobs, current, made, dead, cleaning, closing, reborn, cancelled, gaveUp>>
CancelQueued(c) ==
  /\ calls[c].at = "queued"
  /\ counts' = [counts EXCEPT ![Of(c)].depth = Less(@)] /\ End(c)
  /\ UNCHANGED <<jobs, current, made, dead, cleaning, closing, reborn, cancelled, gaveUp>>
\* a job that waits in the executor is cancelled with the call, one that runs goes on
CancelSubmitted(c) ==
  /\ calls[c].at = "submitted" /\ jobs[c] # "over"
  /\ GivePermitBack(c) /\ End(c)
  /\ IF jobs[c] = "pending" THEN jobs' = [jobs EXCEPT ![c] = "over"] /\ UNCHANGED cancelled
     ELSE cancelled' = cancelled \cup {c} /\ UNCHANGED jobs
  /\ UNCHANGED <<current, made, dead, cleaning, closing, reborn, gaveUp>>

RunCpu(c) == calls[c].kind = "cpu" /\ (Enter(c) \/ Acquire(c) \/ Resume(c))
RunFs(c) == calls[c].kind = "fs" /\ (Enter(c) \/ Acquire(c) \/ Resume(c))
RunStorage(c) == calls[c].kind = "storage" /\ (Enter(c) \/ Acquire(c) \/ Resume(c))

\* a worker of the executor takes a job, and ends it
JobStart(c) ==
  /\ jobs[c] = "pending" /\ Cardinality(JobsIn(Of(c), "running")) < PoolWorkers
  /\ jobs' = [jobs EXCEPT ![c] = "running"]
  /\ UNCHANGED <<calls, current, made, dead, counts, cleaning, closing, reborn, cancelled, gaveUp>>
JobEnd(c) ==
  /\ jobs[c] = "running" /\ jobs' = [jobs EXCEPT ![c] = "over"]
  /\ UNCHANGED <<calls, current, made, dead, counts, cleaning, closing, reborn, cancelled, gaveUp>>
\* a process of the pool dies: the pool is broken, and stays the current one
PoolBreaks(r) ==
  /\ r[1] = "cpu" /\ r \notin dead /\ JobsIn(r, "running") # {}
  /\ dead' = dead \cup {r}
  /\ jobs' = [c \in Calls |-> IF Of(c) = r /\ jobs[c] # "none" THEN "over" ELSE jobs[c]]
  /\ UNCHANGED <<calls, current, made, counts, cleaning, closing, reborn, cancelled, gaveUp>>

\* close_*_runtime: no runtime any more, the executor shut down, and its jobs
\* waited for; what waits in the executor is cancelled, or not
Close(k, cancels) ==
  /\ CleanupSteps[cleaning] = k /\ closing = 0
  /\ IF current[k] = 0 THEN cleaning' = cleaning + 1 /\ UNCHANGED <<current, dead, closing, jobs>>
     ELSE LET r == <<k, current[k]>> IN
          /\ closing' = current[k] /\ current' = [current EXCEPT ![k] = 0]
          /\ dead' = dead \cup {r}
          /\ jobs' = [c \in Calls |-> IF cancels /\ c \in JobsIn(r, "pending") THEN "over" ELSE jobs[c]]
          /\ UNCHANGED cleaning
  /\ UNCHANGED <<calls, made, counts, reborn, cancelled, gaveUp>>
CloseFs == cleaning = 2 /\ Close("fs", TRUE)
CloseCpu == cleaning = 3 /\ Close("cpu", TRUE)
CloseStorage == cleaning = 4 /\ Close("storage", FALSE)
ShutDown ==
  /\ closing # 0
  /\ LET r == <<CleanupSteps[cleaning], closing>>
     IN JobsIn(r, "running") \cup JobsIn(r, "pending") = {}
  /\ cleaning' = cleaning + 1 /\ closing' = 0
  /\ UNCHANGED <<calls, jobs, current, made, dead, counts, reborn, cancelled, gaveUp>>

\* lifespan and on_shutdown: the steps one after the other; the API logs one
\* that fails and goes on, the worker does not
CleanupStarts ==
  /\ cleaning = 0 /\ cleaning' = 1
  /\ UNCHANGED <<calls, jobs, current, made, dead, counts, closing, reborn, cancelled, gaveUp>>
CloseClients ==
  /\ cleaning = 1
  /\ \/ cleaning' = 2 /\ UNCHANGED gaveUp
     \/ StopsAtError /\ cleaning' = CleanupOver /\ gaveUp' = TRUE
  /\ UNCHANGED <<calls, jobs, current, made, dead, counts, closing, reborn, cancelled>>

Cleanup == CloseClients \/ CloseFs \/ CloseCpu \/ CloseStorage \/ ShutDown
CallStep(c) == RunCpu(c) \/ RunFs(c) \/ RunStorage(c)
AllEnded ==
  /\ cleaning = CleanupOver /\ \A c \in Calls : calls[c].at = "ended" /\ jobs[c] \in {"none", "over"}
  /\ UNCHANGED runtimeVars

RuntimesNext ==
  \/ \E c \in Calls : CallStep(c) \/ CancelQueued(c) \/ CancelSubmitted(c) \/ JobStart(c) \/ JobEnd(c)
  \/ \E r \in Runtime : PoolBreaks(r)
  \/ CleanupStarts \/ Cleanup
  \/ AllEnded

\* the event loop runs what is ready, a worker takes what is queued, jobs end
RuntimesFairness ==
  /\ WF_runtimeVars(Cleanup)
  /\ \A c \in Calls : WF_runtimeVars(CallStep(c)) /\ WF_runtimeVars(JobStart(c) \/ JobEnd(c))
RuntimesSpec == RuntimesInit /\ [][RuntimesNext]_runtimeVars /\ RuntimesFairness

-----------------------------------------------------------------------------
RuntimesTypeOK ==
  /\ jobs \in [Calls -> {"none", "pending", "running", "over"}]
  /\ current \in [Kinds -> 0..MaxMade] /\ made \in [Kinds -> 0..MaxMade]
  /\ dead \subseteq Runtime /\ reborn \subseteq Kinds /\ cancelled \subseteq Calls
  /\ cleaning \in 0..CleanupOver /\ closing \in 0..MaxMade /\ gaveUp \in BOOLEAN

\* Whatever is cancelled, refused or broken, no permit and no count of a runtime
\* is lost or given twice (cpu_runtime.py:152-205).
CountsHold ==
  \A r \in Runtime :
    /\ counts[r].depth = Cardinality(CallsAt(r, "queued"))
    /\ counts[r].flight = Cardinality(CallsAt(r, "submitted"))
    /\ counts[r].permits + counts[r].flight = Permits

\* An executor has no more jobs than the semaphore lets in, but for those whose
\* call was cancelled while they ran: they hold a worker without a permit
\* (cpu_runtime.py:178-205, fs_runtime.py:208-239).
JobsExplained ==
  \A r \in Runtime :
    Cardinality((JobsIn(r, "pending") \cup JobsIn(r, "running")) \ cancelled) <= Permits

\* After the cleanup an executor is left only where a call came after its close
\* and made it anew, or where the cleanup of a worker stopped at a step
\* (runtime_lifecycle.py:43-55, arq_worker.py:94); and a closed one has no job.
ExecutorsGone ==
  \A k \in Kinds : gaveUp \/ k \in reborn \/
    /\ cleaning = CleanupOver => \A g \in 1..made[k] : <<k, g>> \in dead
    /\ Closed(k) /\ closing = 0 =>
         \A c \in Calls : calls[c].kind = k => jobs[c] \in {"none", "over"}

\* What the pools of a process promise their callers and the cleanup
\* (cpu_runtime.py:152-205, runtime_lifecycle.py:43).
PoolsHold == CountsHold /\ JobsExplained /\ ExecutorsGone
=============================================================================

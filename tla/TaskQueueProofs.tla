-------------------------- MODULE TaskQueueProofs --------------------------
(***************************************************************************)
(* Theorems about TaskQueue, for every set of tasks, every key assignment, *)
(* every limit and every number of failures of every kind.                 *)
(***************************************************************************)
EXTENDS TaskQueue, FiniteSetTheorems, TLAPS

(* The number of active heavy rows, which a reconciliation reads, is finite. *)
LEMMA HeavyActiveCount == Cardinality(HeavyActive) \in Nat
<1>1. HeavyActive \subseteq Tasks
  BY DEF HeavyActive, KeyedActive
<1> QED BY <1>1, TasksAssumption, FS_Subset, FS_CardinalityType

-----------------------------------------------------------------------------
(* Every state has the declared types. *)
LEMMA TypeStep == TypeOK /\ [Next]_vars => TypeOK'
<1> SUFFICES ASSUME TypeOK, [Next]_vars PROVE TypeOK'
  OBVIOUS
<1> USE BoundsAssumption, KeysAssumption DEF AllFaults, TypeOK, Statuses, Active, Terminal,
            SubmitPc, ReconcilePc, FreePc, EndPc, JobStates, WorkerPc
<1>1. CASE AllQuiet \/ UNCHANGED vars
  BY <1>1 DEF AllQuiet, vars, rowVars, submitVars, brokerVars, workerVars
<1>2. ASSUME NEW t \in Tasks, FindActive(t) PROVE TypeOK'
  BY <1>2 DEF FindActive, GoTo, rowVars, brokerVars, workerVars
<1>3. ASSUME NEW t \in Tasks, Admit(t) PROVE TypeOK'
  BY <1>3 DEF Admit, GoTo, rowVars, brokerVars, workerVars
<1>4. ASSUME NEW t \in Tasks, Refuse(t) PROVE TypeOK'
  BY <1>4 DEF Refuse, GoTo, rowVars, brokerVars, workerVars
<1>5. ASSUME NEW t \in Tasks, CountRows(t) PROVE TypeOK'
  BY <1>5, HeavyActiveCount DEF CountRows, GoTo, rowVars, brokerVars, workerVars
<1>6. ASSUME NEW t \in Tasks, CompareCounts(t) PROVE TypeOK'
  BY <1>6 DEF CompareCounts, GoTo, rowVars, brokerVars, workerVars
<1>7. ASSUME NEW t \in Tasks, ListRows(t) PROVE TypeOK'
  BY <1>7 DEF ListRows, HeavyActive, KeyedActive, GoTo, rowVars, brokerVars, workerVars
<1>8. ASSUME NEW t \in Tasks, ClearSlots(t) PROVE TypeOK'
  BY <1>8 DEF ClearSlots, GoTo, rowVars, brokerVars, workerVars
<1>9. ASSUME NEW t \in Tasks, RestoreSlots(t) PROVE TypeOK'
  BY <1>9 DEF RestoreSlots, GoTo, rowVars, brokerVars, workerVars
<1>10. ASSUME NEW t \in Tasks, CreateRow(t) PROVE TypeOK'
  BY <1>10, ZenonT(60) DEF CreateRow, GoTo, rowVars, brokerVars, workerVars
<1>11. ASSUME NEW t \in Tasks, Refind(t) PROVE TypeOK'
  BY <1>11 DEF Refind, GoTo, rowVars, brokerVars, workerVars
<1>12. ASSUME NEW t \in Tasks, Publish(t) PROVE TypeOK'
  BY <1>12 DEF Publish, GoTo, rowVars, workerVars
<1>13. ASSUME NEW t \in Tasks, MarkFailed(t) PROVE TypeOK'
  BY <1>13 DEF MarkFailed, GoTo, brokerVars, workerVars
<1>14. ASSUME NEW t \in Tasks, FreeSlot(t) PROVE TypeOK'
  BY <1>14 DEF FreeSlot, GoTo, rowVars, brokerVars, workerVars, AfterFree
<1>15. ASSUME NEW t \in Tasks, Deliver(t) PROVE TypeOK'
  <2>1. CASE tries[t] < MaxTries
    <3>1. tries' \in [Tasks -> 0..MaxTries]
      BY <1>15, <2>1 DEF Deliver
    <3> QED BY <3>1, <2>1, <1>15, ZenonT(60) DEF Deliver, Step, rowVars, submitVars
  <2>2. CASE ~(tries[t] < MaxTries)
    BY <2>2, <1>15 DEF Deliver, rowVars, submitVars
  <2> QED BY <2>1, <2>2
<1>16. ASSUME NEW t \in Tasks, LoadRow(t) PROVE TypeOK'
  BY <1>16 DEF LoadRow, Step, rowVars, submitVars, brokerVars
<1>17. ASSUME NEW t \in Tasks, TouchSlot(t) PROVE TypeOK'
  BY <1>17 DEF TouchSlot, Step, rowVars, submitVars, brokerVars
<1>18. ASSUME NEW t \in Tasks, BeginRun(t) PROVE TypeOK'
  <2>1. status' \in [Tasks -> Statuses] /\ own' \in [Tasks -> BOOLEAN]
    BY <1>18, ZenonT(60) DEF BeginRun, rowVars
  <2>2. job' \in [Tasks -> JobStates] /\ wpc' \in [Tasks -> WorkerPc]
    BY <1>18, ZenonT(60) DEF BeginRun, Step, Retry
  <2> QED BY <2>1, <2>2, <1>18 DEF BeginRun, submitVars
<1>19. ASSUME NEW t \in Tasks, Work(t) PROVE TypeOK'
  BY <1>19 DEF Work, Step, rowVars, submitVars, brokerVars
<1>20. ASSUME NEW t \in Tasks, ReleaseSlot(t) PROVE TypeOK'
  BY <1>20 DEF ReleaseSlot, Step, rowVars, submitVars, brokerVars
<1>21. ASSUME NEW t \in Tasks, FinishRun(t) PROVE TypeOK'
  BY <1>21, ZenonT(60) DEF FinishRun, Step, Retry, submitVars
<1>22. ASSUME NEW t \in Tasks, SelectVictims(t) PROVE TypeOK'
  <2>1. victims' \in [Tasks -> SUBSET Tasks]
    BY <1>22 DEF SelectVictims, TerminalRows
  <2> QED BY <2>1, <1>22 DEF SelectVictims, Step, rowVars, submitVars, brokerVars
<1>23. ASSUME NEW t \in Tasks, PurgeVictims(t) PROVE TypeOK'
  BY <1>23 DEF PurgeVictims, Step, submitVars
<1>24. ASSUME NEW t \in Tasks, GuardFails(t) PROVE TypeOK'
  BY <1>24 DEF GuardFails, GoTo, Fault, rowVars, brokerVars, workerVars
<1>25. ASSUME NEW t \in Tasks, ReconcileFails(t) PROVE TypeOK'
  BY <1>25 DEF ReconcileFails, GoTo, Fault, rowVars, brokerVars, workerVars
<1>26. ASSUME NEW t \in Tasks, CreateFails(t) PROVE TypeOK'
  <2>1. status' \in [Tasks -> Statuses] /\ own' \in [Tasks -> BOOLEAN]
    BY <1>26 DEF CreateFails, rowVars
  <2>2. pc' \in [Tasks -> SubmitPc]
    BY <1>26 DEF CreateFails, GoTo
  <2> QED BY <2>1, <2>2, <1>26 DEF CreateFails, Fault, brokerVars, workerVars
<1>27. ASSUME NEW t \in Tasks, EnqueueFails(t) PROVE TypeOK'
  BY <1>27 DEF EnqueueFails, GoTo, Fault, rowVars, workerVars
<1>28. ASSUME NEW t \in Tasks, MarkLost(t) PROVE TypeOK'
  BY <1>28 DEF MarkLost, GoTo, Fault, rowVars, brokerVars, workerVars
<1>29. ASSUME NEW t \in Tasks, FreeFails(t) PROVE TypeOK'
  BY <1>29 DEF FreeFails, GoTo, Fault, rowVars, brokerVars, workerVars, AfterFree
<1>30. ASSUME NEW t \in Tasks, SubmitterDies(t) PROVE TypeOK'
  BY <1>30 DEF SubmitterDies, GoTo, Fault, rowVars, brokerVars, workerVars
<1>31. ASSUME NEW t \in Tasks, WorkerFails(t) PROVE TypeOK'
  BY <1>31 DEF WorkerFails, Step, Fault, Retry, rowVars, submitVars
<1>32. ASSUME NEW t \in Tasks, JobTimesOut(t) PROVE TypeOK'
  BY <1>32 DEF JobTimesOut, Step, Fault, rowVars, submitVars
<1> QED
  BY <1>1, <1>2, <1>3, <1>4, <1>5, <1>6, <1>7, <1>8, <1>9, <1>10, <1>11, <1>12, <1>13,
     <1>14, <1>15, <1>16, <1>17, <1>18, <1>19, <1>20, <1>21, <1>22, <1>23, <1>24, <1>25,
     <1>26, <1>27, <1>28, <1>29, <1>30, <1>31, <1>32
     DEF Next, Submitter, Worker, Failure

-----------------------------------------------------------------------------
(* A call that has failed stays failed. *)
LEMMA DisownedStays ==
  TypeOK /\ [Next]_vars => \A u \in Tasks : Disowned(u) => Disowned(u)'
<1> SUFFICES ASSUME TypeOK, [Next]_vars, NEW u \in Tasks, Disowned(u) PROVE Disowned(u)'
  OBVIOUS
<1> USE DEF TypeOK, Disowned
<1>1. CASE AllQuiet \/ UNCHANGED vars
  BY <1>1 DEF AllQuiet, vars, submitVars
<1>2. ASSUME NEW t \in Tasks, Submitter(t) \/ Failure(t) PROVE Disowned(u)'
  <2>1. CASE MarkFailed(t) \/ MarkLost(t)
    BY <2>1 DEF MarkFailed, MarkLost, GoTo
  <2>2. CASE FreeSlot(t) \/ FreeFails(t)
    BY <2>2 DEF FreeSlot, FreeFails, AfterFree, FreePc, GoTo
  <2>3. CASE SubmitterDies(t)
    BY <2>3 DEF SubmitterDies, EndPc, GoTo
  <2>4. CASE WorkerFails(t) \/ JobTimesOut(t)
    BY <2>4 DEF WorkerFails, JobTimesOut, submitVars
  <2>5. CASE \/ FindActive(t) \/ Admit(t) \/ Refuse(t) \/ CountRows(t) \/ CompareCounts(t)
             \/ ListRows(t) \/ ClearSlots(t) \/ RestoreSlots(t) \/ CreateRow(t) \/ Refind(t)
             \/ Publish(t) \/ GuardFails(t) \/ ReconcileFails(t) \/ CreateFails(t) \/ EnqueueFails(t)
    BY <2>5 DEF FindActive, Admit, Refuse, CountRows, CompareCounts, ListRows, ClearSlots,
                RestoreSlots, CreateRow, Refind, Publish, GuardFails, ReconcileFails, CreateFails,
                EnqueueFails, GoTo, ReconcilePc
  <2> QED BY <1>2, <2>1, <2>2, <2>3, <2>4, <2>5 DEF Submitter, Failure
<1>3. ASSUME NEW t \in Tasks, Worker(t) PROVE Disowned(u)'
  BY <1>3 DEF Worker, Deliver, LoadRow, TouchSlot, BeginRun, Work, ReleaseSlot, FinishRun,
              SelectVictims, PurgeVictims, submitVars
<1> QED BY <1>1, <1>2, <1>3 DEF Next

-----------------------------------------------------------------------------
(* A job is running exactly when a worker holds it, and was delivered before. *)
LEMMA JobMatchesWorkerStep == IndInv /\ [Next]_vars => JobMatchesWorker'
<1> SUFFICES ASSUME IndInv, [Next]_vars PROVE JobMatchesWorker'
  OBVIOUS
<1> USE DEF IndInv, TypeOK, JobMatchesWorker, NothingPublishedYet, SubmitPc, FreePc, EndPc,
            ReconcilePc
<1>1. CASE AllQuiet \/ UNCHANGED vars
  BY <1>1 DEF AllQuiet, vars, rowVars, submitVars, brokerVars, workerVars
<1>2. ASSUME NEW t \in Tasks,
             FindActive(t) \/ Admit(t) \/ Refuse(t) \/ CountRows(t)
             \/ CompareCounts(t) \/ ListRows(t) \/ ClearSlots(t)
             \/ RestoreSlots(t) \/ CreateRow(t) \/ Refind(t) \/ MarkFailed(t)
             \/ FreeSlot(t) \/ GuardFails(t) \/ ReconcileFails(t)
             \/ CreateFails(t) \/ MarkLost(t) \/ FreeFails(t)
             \/ SubmitterDies(t)
      PROVE  JobMatchesWorker'
  BY <1>2 DEF FindActive, Admit, Refuse, CountRows, CompareCounts, ListRows, ClearSlots,
     RestoreSlots, CreateRow, Refind, MarkFailed, FreeSlot, GuardFails, ReconcileFails,
     CreateFails, MarkLost, FreeFails, SubmitterDies, GoTo, rowVars, brokerVars,
     workerVars, AfterFree
<1>3. ASSUME NEW t \in Tasks, Publish(t) PROVE JobMatchesWorker'
  BY <1>3 DEF Publish, GoTo, rowVars, workerVars
<1>4. ASSUME NEW t \in Tasks, Deliver(t) PROVE JobMatchesWorker'
  BY <1>4 DEF Deliver, Step, rowVars, submitVars
<1>5. ASSUME NEW t \in Tasks, LoadRow(t) PROVE JobMatchesWorker'
  BY <1>5 DEF LoadRow, Step, rowVars, submitVars, brokerVars
<1>6. ASSUME NEW t \in Tasks, TouchSlot(t) PROVE JobMatchesWorker'
  BY <1>6 DEF TouchSlot, Step, rowVars, submitVars, brokerVars
<1>7. ASSUME NEW t \in Tasks, BeginRun(t) PROVE JobMatchesWorker'
  BY <1>7 DEF BeginRun, Step, Retry, rowVars, submitVars, BeginRefused
<1>8. ASSUME NEW t \in Tasks, Work(t) PROVE JobMatchesWorker'
  BY <1>8 DEF Work, Step, rowVars, submitVars, brokerVars
<1>9. ASSUME NEW t \in Tasks, ReleaseSlot(t) PROVE JobMatchesWorker'
  BY <1>9 DEF ReleaseSlot, Step, rowVars, submitVars, brokerVars
<1>10. ASSUME NEW t \in Tasks, FinishRun(t) PROVE JobMatchesWorker'
  BY <1>10 DEF FinishRun, Step, Retry, submitVars
<1>11. ASSUME NEW t \in Tasks, SelectVictims(t) PROVE JobMatchesWorker'
  BY <1>11 DEF SelectVictims, Step, rowVars, submitVars, brokerVars
<1>12. ASSUME NEW t \in Tasks, PurgeVictims(t) PROVE JobMatchesWorker'
  BY <1>12 DEF PurgeVictims, Step, submitVars
<1>13. ASSUME NEW t \in Tasks, EnqueueFails(t) PROVE JobMatchesWorker'
  BY <1>13 DEF EnqueueFails, GoTo, rowVars, workerVars
<1>14. ASSUME NEW t \in Tasks, WorkerFails(t) PROVE JobMatchesWorker'
  BY <1>14 DEF WorkerFails, Step, Retry, rowVars, submitVars
<1>15. ASSUME NEW t \in Tasks, JobTimesOut(t) PROVE JobMatchesWorker'
  BY <1>15 DEF JobTimesOut, Step, rowVars, submitVars
<1> QED
  BY <1>1, <1>2, <1>3, <1>4, <1>5, <1>6, <1>7, <1>8, <1>9, <1>10, <1>11, <1>12, <1>13,
     <1>14, <1>15
     DEF Next, Submitter, Worker, Failure

-----------------------------------------------------------------------------
(* A call publishes its job last. *)
LEMMA NothingPublishedYetStep == IndInv /\ [Next]_vars => NothingPublishedYet'
<1> SUFFICES ASSUME IndInv, [Next]_vars PROVE NothingPublishedYet'
  OBVIOUS
<1> USE DEF IndInv, TypeOK, NothingPublishedYet, ReconcilePc, JobMatchesWorker, SubmitPc,
            FreePc, EndPc
<1>1. CASE AllQuiet \/ UNCHANGED vars
  BY <1>1 DEF AllQuiet, vars, rowVars, submitVars, brokerVars, workerVars
<1>2. ASSUME NEW t \in Tasks,
             LoadRow(t) \/ TouchSlot(t) \/ Work(t) \/ ReleaseSlot(t)
             \/ SelectVictims(t)
      PROVE  NothingPublishedYet'
  BY <1>2 DEF LoadRow, TouchSlot, Work, ReleaseSlot, SelectVictims, Step, rowVars,
     submitVars, brokerVars
<1>3. ASSUME NEW t \in Tasks,
             FindActive(t) \/ Admit(t) \/ Refuse(t) \/ CountRows(t)
             \/ CompareCounts(t) \/ ListRows(t) \/ ClearSlots(t)
             \/ RestoreSlots(t) \/ Refind(t) \/ FreeSlot(t) \/ GuardFails(t)
             \/ ReconcileFails(t) \/ MarkLost(t) \/ FreeFails(t)
             \/ SubmitterDies(t)
      PROVE  NothingPublishedYet'
  BY <1>3 DEF FindActive, Admit, Refuse, CountRows, CompareCounts, ListRows, ClearSlots,
     RestoreSlots, Refind, FreeSlot, GuardFails, ReconcileFails, MarkLost, FreeFails,
     SubmitterDies, GoTo, rowVars, brokerVars, workerVars, AfterFree
<1>4. ASSUME NEW t \in Tasks, CreateRow(t) PROVE NothingPublishedYet'
  BY <1>4 DEF CreateRow, GoTo, rowVars, brokerVars, workerVars
<1>5. ASSUME NEW t \in Tasks, Publish(t) PROVE NothingPublishedYet'
  BY <1>5 DEF Publish, GoTo, rowVars, workerVars
<1>6. ASSUME NEW t \in Tasks, MarkFailed(t) PROVE NothingPublishedYet'
  BY <1>6 DEF MarkFailed, GoTo, brokerVars, workerVars
<1>7. ASSUME NEW t \in Tasks, Deliver(t) PROVE NothingPublishedYet'
  BY <1>7 DEF Deliver, Step, rowVars, submitVars
<1>8. ASSUME NEW t \in Tasks, BeginRun(t) PROVE NothingPublishedYet'
  BY <1>8 DEF BeginRun, Step, Retry, rowVars, submitVars, BeginRefused
<1>9. ASSUME NEW t \in Tasks, FinishRun(t) PROVE NothingPublishedYet'
  BY <1>9 DEF FinishRun, Step, Retry, submitVars
<1>10. ASSUME NEW t \in Tasks, PurgeVictims(t) PROVE NothingPublishedYet'
  BY <1>10 DEF PurgeVictims, Step, submitVars
<1>11. ASSUME NEW t \in Tasks, CreateFails(t) PROVE NothingPublishedYet'
  BY <1>11 DEF CreateFails, GoTo, rowVars, brokerVars, workerVars
<1>12. ASSUME NEW t \in Tasks, EnqueueFails(t) PROVE NothingPublishedYet'
  BY <1>12 DEF EnqueueFails, GoTo, rowVars, workerVars
<1>13. ASSUME NEW t \in Tasks, WorkerFails(t) PROVE NothingPublishedYet'
  BY <1>13 DEF WorkerFails, Step, Retry, rowVars, submitVars
<1>14. ASSUME NEW t \in Tasks, JobTimesOut(t) PROVE NothingPublishedYet'
  BY <1>14 DEF JobTimesOut, Step, rowVars, submitVars
<1> QED
  BY <1>1, <1>2, <1>3, <1>4, <1>5, <1>6, <1>7, <1>8, <1>9, <1>10, <1>11, <1>12, <1>13, <1>14
     DEF Next, Submitter, Worker, Failure

-----------------------------------------------------------------------------
(* An active row without a job belongs to its call; a settled job's row is not active. *)
LEMMA ActiveHasOwnerStep == IndInv /\ [Next]_vars => ActiveHasOwner'
<1> SUFFICES ASSUME IndInv, [Next]_vars PROVE ActiveHasOwner'
  OBVIOUS
<1> USE DEF IndInv, TypeOK, ActiveHasOwner, Active, Terminal, NothingPublishedYet,
            JobMatchesWorker, SubmitPc, FreePc, EndPc, ReconcilePc
<1>1. CASE AllQuiet \/ UNCHANGED vars
  BY <1>1 DEF AllQuiet, vars, rowVars, submitVars, brokerVars, workerVars
<1>2. ASSUME NEW t \in Tasks,
             FindActive(t) \/ Admit(t) \/ Refuse(t) \/ CountRows(t)
             \/ CompareCounts(t) \/ ListRows(t) \/ ClearSlots(t)
             \/ RestoreSlots(t) \/ Refind(t) \/ GuardFails(t)
             \/ ReconcileFails(t) \/ MarkLost(t) \/ FreeFails(t)
      PROVE  ActiveHasOwner'
  BY <1>2 DEF FindActive, Admit, Refuse, CountRows, CompareCounts, ListRows, ClearSlots,
     RestoreSlots, Refind, GuardFails, ReconcileFails, MarkLost, FreeFails, GoTo, rowVars,
     brokerVars, workerVars, AfterFree
<1>3. ASSUME NEW t \in Tasks, CreateRow(t) PROVE ActiveHasOwner'
  BY <1>3, SMTT(60) DEF CreateRow, GoTo, rowVars, brokerVars, workerVars
<1>4. ASSUME NEW t \in Tasks, Publish(t) PROVE ActiveHasOwner'
  BY <1>4 DEF Publish, GoTo, rowVars, workerVars
<1>5. ASSUME NEW t \in Tasks, MarkFailed(t) PROVE ActiveHasOwner'
  BY <1>5 DEF MarkFailed, GoTo, brokerVars, workerVars
<1>6. ASSUME NEW t \in Tasks, FreeSlot(t) PROVE ActiveHasOwner'
  BY <1>6 DEF FreeSlot, GoTo, rowVars, brokerVars, workerVars, AfterFree
<1>7. ASSUME NEW t \in Tasks, Deliver(t) PROVE ActiveHasOwner'
  BY <1>7 DEF Deliver, Step, rowVars, submitVars
<1>8. ASSUME NEW t \in Tasks, LoadRow(t) PROVE ActiveHasOwner'
  BY <1>8 DEF LoadRow, Step, rowVars, submitVars, brokerVars
<1>9. ASSUME NEW t \in Tasks, TouchSlot(t) PROVE ActiveHasOwner'
  BY <1>9 DEF TouchSlot, Step, rowVars, submitVars, brokerVars
<1>10. ASSUME NEW t \in Tasks, BeginRun(t) PROVE ActiveHasOwner'
  BY <1>10 DEF BeginRun, Step, Retry, rowVars, submitVars, BeginRefused
<1>11. ASSUME NEW t \in Tasks, Work(t) PROVE ActiveHasOwner'
  BY <1>11 DEF Work, Step, rowVars, submitVars, brokerVars
<1>12. ASSUME NEW t \in Tasks, ReleaseSlot(t) PROVE ActiveHasOwner'
  BY <1>12 DEF ReleaseSlot, Step, rowVars, submitVars, brokerVars
<1>13. ASSUME NEW t \in Tasks, FinishRun(t) PROVE ActiveHasOwner'
  BY <1>13, SMTT(60) DEF FinishRun, Step, Retry, submitVars
<1>14. ASSUME NEW t \in Tasks, SelectVictims(t) PROVE ActiveHasOwner'
  BY <1>14 DEF SelectVictims, Step, rowVars, submitVars, brokerVars
<1>15. ASSUME NEW t \in Tasks, PurgeVictims(t) PROVE ActiveHasOwner'
  BY <1>15 DEF PurgeVictims, Step, submitVars
<1>16. ASSUME NEW t \in Tasks, CreateFails(t) PROVE ActiveHasOwner'
  <2>1. job[t] = "absent" /\ wpc[t] = "off"
    BY <1>16 DEF CreateFails
  <2>2. \A u \in Tasks \ {t} : status'[u] = status[u] /\ pc'[u] = pc[u]
    BY <1>16 DEF CreateFails, rowVars, GoTo
  <2>3. status'[t] \in Active => status[t] \in Active \/ pc'[t] = "free_lost"
    BY <1>16 DEF CreateFails, rowVars, GoTo
  <2> QED BY <1>16, <2>1, <2>2, <2>3 DEF CreateFails, brokerVars, workerVars
<1>17. ASSUME NEW t \in Tasks, EnqueueFails(t) PROVE ActiveHasOwner'
  BY <1>17 DEF EnqueueFails, GoTo, rowVars, workerVars
<1>18. ASSUME NEW t \in Tasks, SubmitterDies(t) PROVE ActiveHasOwner'
  BY <1>18 DEF SubmitterDies, GoTo, rowVars, brokerVars, workerVars
<1>19. ASSUME NEW t \in Tasks, WorkerFails(t) PROVE ActiveHasOwner'
  BY <1>19 DEF WorkerFails, Step, Retry, rowVars, submitVars
<1>20. ASSUME NEW t \in Tasks, JobTimesOut(t) PROVE ActiveHasOwner'
  BY <1>20 DEF JobTimesOut, Step, rowVars, submitVars
<1> QED
  BY <1>1, <1>2, <1>3, <1>4, <1>5, <1>6, <1>7, <1>8, <1>9, <1>10, <1>11, <1>12, <1>13,
     <1>14, <1>15, <1>16, <1>17, <1>18, <1>19, <1>20
     DEF Next, Submitter, Worker, Failure

-----------------------------------------------------------------------------
(* A terminal row was settled by a delivery or marked by its call. *)
LEMMA TerminalHasCauseStep == IndInv /\ [Next]_vars => TerminalHasCause'
<1> SUFFICES ASSUME IndInv, [Next]_vars PROVE TerminalHasCause'
  OBVIOUS
<1> USE DEF IndInv, TypeOK, TerminalHasCause, SettledOnce, Disowned, TerminalRows,
            Terminal, JobMatchesWorker, NothingPublishedYet, SubmitPc, FreePc, EndPc,
            ReconcilePc
<1>1. CASE AllQuiet \/ UNCHANGED vars
  BY <1>1 DEF AllQuiet, vars, rowVars, submitVars, brokerVars, workerVars
<1>2. ASSUME NEW t \in Tasks,
             FindActive(t) \/ Admit(t) \/ Refuse(t) \/ CountRows(t)
             \/ CompareCounts(t) \/ ListRows(t) \/ ClearSlots(t)
             \/ RestoreSlots(t) \/ Refind(t) \/ FreeSlot(t) \/ GuardFails(t)
             \/ ReconcileFails(t) \/ MarkLost(t) \/ FreeFails(t)
             \/ SubmitterDies(t)
      PROVE  TerminalHasCause'
  <2>1. UNCHANGED <<status, job, tries, wpc, seen, victims>>
    BY <1>2 DEF FindActive, Admit, Refuse, CountRows, CompareCounts, ListRows,
       ClearSlots, RestoreSlots, Refind, FreeSlot, GuardFails, ReconcileFails, MarkLost,
       FreeFails, SubmitterDies, GoTo, rowVars, brokerVars, workerVars, AfterFree
  <2>2. \A u \in Tasks : Disowned(u) => Disowned(u)'
    BY DisownedStays
  <2> QED BY <2>1, <2>2
<1>3. ASSUME NEW t \in Tasks, CreateRow(t) PROVE TerminalHasCause'
  <2>1. tries[t] = 0 /\ ~Disowned(t)
    BY <1>3 DEF CreateRow
  <2>2. \A u \in Tasks : (SettledOnce(u) => SettledOnce(u)') /\ (Disowned(u) => Disowned(u)')
    BY <1>3, DisownedStays DEF CreateRow, GoTo, brokerVars, workerVars
  <2>3. status'[t] \in {status[t], "pending"} /\ \A u \in Tasks \ {t} : status'[u] = status[u]
    BY <1>3 DEF CreateRow, rowVars
  <2> QED BY <1>3, <2>1, <2>2, <2>3 DEF CreateRow, workerVars
<1>4. ASSUME NEW t \in Tasks, Publish(t) PROVE TerminalHasCause'
  BY <1>4 DEF Publish, GoTo, rowVars, workerVars
<1>5. ASSUME NEW t \in Tasks, MarkFailed(t) PROVE TerminalHasCause'
  BY <1>5 DEF MarkFailed, GoTo, brokerVars, workerVars
<1>6. ASSUME NEW t \in Tasks, Deliver(t) PROVE TerminalHasCause'
  <2>1. wpc[t] = "off"
    BY <1>6 DEF Deliver
  <2>2. \A u \in Tasks : SettledOnce(u) => SettledOnce(u)'
    <3>1. CASE tries[t] < MaxTries
      BY <1>6, <2>1, <3>1 DEF Deliver, Step
    <3>2. CASE ~(tries[t] < MaxTries)
      BY <1>6, <3>2 DEF Deliver
    <3> QED BY <3>1, <3>2
  <2>3. \A u \in Tasks : Disowned(u) => Disowned(u)'
    BY DisownedStays
  <2> QED BY <1>6, <2>2, <2>3 DEF Deliver, rowVars
<1>7. ASSUME NEW t \in Tasks, LoadRow(t) PROVE TerminalHasCause'
  BY <1>7 DEF LoadRow, Step, rowVars, submitVars, brokerVars
<1>8. ASSUME NEW t \in Tasks, TouchSlot(t) PROVE TerminalHasCause'
  BY <1>8 DEF TouchSlot, Step, rowVars, submitVars, brokerVars
<1>9. ASSUME NEW t \in Tasks, BeginRun(t) PROVE TerminalHasCause'
  <2>1. \A u \in Tasks : SettledOnce(u) => SettledOnce(u)'
    BY <1>9 DEF BeginRun, Step, Retry
  <2>2. \A u \in Tasks : Disowned(u) => Disowned(u)'
    BY DisownedStays
  <2>3. status'[t] \in {status[t], "running"} /\ \A u \in Tasks \ {t} : status'[u] = status[u]
    BY <1>9 DEF BeginRun, rowVars
  <2> QED BY <1>9, <2>1, <2>2, <2>3 DEF BeginRun
<1>10. ASSUME NEW t \in Tasks, Work(t) PROVE TerminalHasCause'
  BY <1>10 DEF Work, Step, rowVars, submitVars, brokerVars
<1>11. ASSUME NEW t \in Tasks, ReleaseSlot(t) PROVE TerminalHasCause'
  BY <1>11 DEF ReleaseSlot, Step, rowVars, submitVars, brokerVars
<1>12. ASSUME NEW t \in Tasks, FinishRun(t) PROVE TerminalHasCause'
  <2>1. /\ SettledOnce(t)'
        /\ \A u \in Tasks : SettledOnce(u) => SettledOnce(u)'
    BY <1>12, SMTT(60) DEF FinishRun, Step, Retry
  <2>2. \A u \in Tasks : Disowned(u) => Disowned(u)'
    BY DisownedStays
  <2>3. \A u \in Tasks \ {t} : status'[u] = status[u]
    BY <1>12 DEF FinishRun
  <2> QED BY <1>12, <2>1, <2>2, <2>3 DEF FinishRun
<1>13. ASSUME NEW t \in Tasks, SelectVictims(t) PROVE TerminalHasCause'
  BY <1>13 DEF SelectVictims, Step, rowVars, submitVars, brokerVars
<1>14. ASSUME NEW t \in Tasks, PurgeVictims(t) PROVE TerminalHasCause'
  BY <1>14 DEF PurgeVictims, Step, submitVars
<1>15. ASSUME NEW t \in Tasks, CreateFails(t) PROVE TerminalHasCause'
  <2>1. tries[t] = 0 /\ ~Disowned(t)
    BY <1>15 DEF CreateFails
  <2>2. \A u \in Tasks : (SettledOnce(u) => SettledOnce(u)') /\ (Disowned(u) => Disowned(u)')
    BY <1>15, DisownedStays DEF CreateFails, brokerVars, workerVars
  <2>3. status'[t] \in {status[t], "pending"} /\ \A u \in Tasks \ {t} : status'[u] = status[u]
    BY <1>15 DEF CreateFails, rowVars
  <2> QED BY <1>15, <2>1, <2>2, <2>3 DEF CreateFails, workerVars
<1>16. ASSUME NEW t \in Tasks, EnqueueFails(t) PROVE TerminalHasCause'
  BY <1>16 DEF EnqueueFails, GoTo, rowVars, workerVars
<1>17. ASSUME NEW t \in Tasks, WorkerFails(t) PROVE TerminalHasCause'
  BY <1>17 DEF WorkerFails, Step, Retry, rowVars, submitVars
<1>18. ASSUME NEW t \in Tasks, JobTimesOut(t) PROVE TerminalHasCause'
  BY <1>18 DEF JobTimesOut, Step, rowVars, submitVars
<1> QED
  BY <1>1, <1>2, <1>3, <1>4, <1>5, <1>6, <1>7, <1>8, <1>9, <1>10, <1>11, <1>12, <1>13,
     <1>14, <1>15, <1>16, <1>17, <1>18
     DEF Next, Submitter, Worker, Failure

-----------------------------------------------------------------------------
(* What a worker loaded as running can only have been marked or deleted since. *)
LEMMA LoadedRunningStep == IndInv /\ [Next]_vars => LoadedRunning'
<1> SUFFICES ASSUME IndInv, [Next]_vars PROVE LoadedRunning'
  OBVIOUS
<1> USE DEF IndInv, TypeOK, LoadedRunning, Disowned, JobMatchesWorker, NothingPublishedYet,
            SubmitPc, FreePc, EndPc, ReconcilePc
<1>1. CASE AllQuiet \/ UNCHANGED vars
  BY <1>1 DEF AllQuiet, vars, rowVars, submitVars, brokerVars, workerVars
<1>2. ASSUME NEW t \in Tasks,
             FindActive(t) \/ Admit(t) \/ Refuse(t) \/ CountRows(t)
             \/ CompareCounts(t) \/ ListRows(t) \/ ClearSlots(t)
             \/ RestoreSlots(t) \/ Refind(t) \/ FreeSlot(t) \/ GuardFails(t)
             \/ ReconcileFails(t) \/ MarkLost(t) \/ FreeFails(t)
             \/ SubmitterDies(t)
      PROVE  LoadedRunning'
  <2>1. UNCHANGED <<status, job, tries, wpc, seen, victims>>
    BY <1>2 DEF FindActive, Admit, Refuse, CountRows, CompareCounts, ListRows,
       ClearSlots, RestoreSlots, Refind, FreeSlot, GuardFails, ReconcileFails, MarkLost,
       FreeFails, SubmitterDies, GoTo, rowVars, brokerVars, workerVars, AfterFree
  <2>2. \A u \in Tasks : Disowned(u) => Disowned(u)'
    BY DisownedStays
  <2> QED BY <2>1, <2>2
<1>3. ASSUME NEW t \in Tasks, CreateRow(t) PROVE LoadedRunning'
  BY <1>3 DEF CreateRow, GoTo, rowVars, brokerVars, workerVars
<1>4. ASSUME NEW t \in Tasks, Publish(t) PROVE LoadedRunning'
  BY <1>4 DEF Publish, GoTo, rowVars, workerVars
<1>5. ASSUME NEW t \in Tasks, MarkFailed(t) PROVE LoadedRunning'
  BY <1>5 DEF MarkFailed, GoTo, brokerVars, workerVars
<1>6. ASSUME NEW t \in Tasks, Deliver(t) PROVE LoadedRunning'
  BY <1>6 DEF Deliver, Step, rowVars, submitVars
<1>7. ASSUME NEW t \in Tasks, LoadRow(t) PROVE LoadedRunning'
  BY <1>7 DEF LoadRow, Step, rowVars, submitVars, brokerVars
<1>8. ASSUME NEW t \in Tasks, TouchSlot(t) PROVE LoadedRunning'
  BY <1>8 DEF TouchSlot, Step, rowVars, submitVars, brokerVars
<1>9. ASSUME NEW t \in Tasks, BeginRun(t) PROVE LoadedRunning'
  BY <1>9 DEF BeginRun, Step, Retry, rowVars, submitVars, BeginRefused
<1>10. ASSUME NEW t \in Tasks, Work(t) PROVE LoadedRunning'
  BY <1>10 DEF Work, Step, rowVars, submitVars, brokerVars
<1>11. ASSUME NEW t \in Tasks, ReleaseSlot(t) PROVE LoadedRunning'
  BY <1>11 DEF ReleaseSlot, Step, rowVars, submitVars, brokerVars
<1>12. ASSUME NEW t \in Tasks, FinishRun(t) PROVE LoadedRunning'
  BY <1>12 DEF FinishRun, Step, Retry, submitVars
<1>13. ASSUME NEW t \in Tasks, SelectVictims(t) PROVE LoadedRunning'
  BY <1>13 DEF SelectVictims, Step, rowVars, submitVars, brokerVars
<1>14. ASSUME NEW t \in Tasks, PurgeVictims(t) PROVE LoadedRunning'
  BY <1>14 DEF PurgeVictims, Step, submitVars
<1>15. ASSUME NEW t \in Tasks, CreateFails(t) PROVE LoadedRunning'
  BY <1>15 DEF CreateFails, GoTo, rowVars, brokerVars, workerVars
<1>16. ASSUME NEW t \in Tasks, EnqueueFails(t) PROVE LoadedRunning'
  BY <1>16 DEF EnqueueFails, GoTo, rowVars, workerVars
<1>17. ASSUME NEW t \in Tasks, WorkerFails(t) PROVE LoadedRunning'
  BY <1>17 DEF WorkerFails, Step, Retry, rowVars, submitVars
<1>18. ASSUME NEW t \in Tasks, JobTimesOut(t) PROVE LoadedRunning'
  BY <1>18 DEF JobTimesOut, Step, rowVars, submitVars
<1> QED
  BY <1>1, <1>2, <1>3, <1>4, <1>5, <1>6, <1>7, <1>8, <1>9, <1>10, <1>11, <1>12, <1>13,
     <1>14, <1>15, <1>16, <1>17, <1>18
     DEF Next, Submitter, Worker, Failure

-----------------------------------------------------------------------------
(* One active row per key. *)
LEMMA UniqueActiveKeyStep == IndInv /\ [Next]_vars => UniqueActiveKey'
<1> SUFFICES ASSUME IndInv, [Next]_vars PROVE UniqueActiveKey'
  OBVIOUS
<1> USE DEF IndInv, TypeOK, UniqueActiveKey, KeyedActive, Active, SubmitPc, FreePc, EndPc,
            ReconcilePc
<1>1. CASE AllQuiet \/ UNCHANGED vars
  BY <1>1 DEF AllQuiet, vars, rowVars, submitVars, brokerVars, workerVars
<1>2. ASSUME NEW t \in Tasks,
             FindActive(t) \/ Admit(t) \/ Refuse(t) \/ CountRows(t)
             \/ CompareCounts(t) \/ ListRows(t) \/ ClearSlots(t)
             \/ RestoreSlots(t) \/ Refind(t) \/ Publish(t) \/ FreeSlot(t)
             \/ Deliver(t) \/ LoadRow(t) \/ TouchSlot(t) \/ Work(t)
             \/ ReleaseSlot(t) \/ SelectVictims(t) \/ GuardFails(t)
             \/ ReconcileFails(t) \/ EnqueueFails(t) \/ MarkLost(t)
             \/ FreeFails(t) \/ SubmitterDies(t) \/ WorkerFails(t)
             \/ JobTimesOut(t)
      PROVE  UniqueActiveKey'
  BY <1>2 DEF FindActive, Admit, Refuse, CountRows, CompareCounts, ListRows, ClearSlots,
     RestoreSlots, Refind, Publish, FreeSlot, Deliver, LoadRow, TouchSlot, Work,
     ReleaseSlot, SelectVictims, GuardFails, ReconcileFails, EnqueueFails, MarkLost,
     FreeFails, SubmitterDies, WorkerFails, JobTimesOut, GoTo, rowVars, brokerVars,
     workerVars, AfterFree, Step, submitVars, Retry
<1>3. ASSUME NEW t \in Tasks, CreateRow(t) PROVE UniqueActiveKey'
  <2>1. CASE KeyIsFree(t)
    <3>1. KeyedActive' \subseteq KeyedActive \cup {t}
      BY <1>3, <2>1 DEF CreateRow
    <3> QED BY <2>1, <3>1 DEF KeyIsFree
  <2>2. CASE ~KeyIsFree(t)
    BY <1>3, <2>2 DEF CreateRow, rowVars
  <2> QED BY <2>1, <2>2
<1>4. ASSUME NEW t \in Tasks, MarkFailed(t) PROVE UniqueActiveKey'
  BY <1>4 DEF MarkFailed, GoTo, brokerVars, workerVars, KeyIsFree
<1>5. ASSUME NEW t \in Tasks, BeginRun(t) PROVE UniqueActiveKey'
  <2>1. CASE BeginRefused(t)
    BY <1>5, <2>1 DEF BeginRun, rowVars
  <2>2. CASE ~BeginRefused(t)
    <3>1. /\ status' = [status EXCEPT ![t] = IF seen[t] = "running" THEN @ ELSE "running"]
          /\ own' = [own EXCEPT ![t] = @ /\ seen[t] # "none"]
      BY <1>5, <2>2 DEF BeginRun
    <3>2. CASE seen[t] = "running"
      <4>1. KeyedActive' \subseteq KeyedActive
        BY <3>1, <3>2
      <4> QED BY <4>1
    <3>3. CASE seen[t] = "none" \/ ~own[t]
      <4>1. own'[t] = FALSE
        BY <3>1, <3>3
      <4>2. KeyedActive' \subseteq KeyedActive
        BY <3>1, <4>1
      <4> QED BY <4>2
    <3>4. CASE seen[t] \notin {"none", "running"} /\ own[t]
      <4>1. KeyIsFree(t)
        BY <2>2, <3>4 DEF BeginRefused
      <4>2. KeyedActive' \subseteq KeyedActive \cup {t}
        BY <3>1
      <4> QED BY <4>1, <4>2 DEF KeyIsFree
    <3> QED BY <3>2, <3>3, <3>4
  <2> QED BY <2>1, <2>2
<1>6. ASSUME NEW t \in Tasks, FinishRun(t) PROVE UniqueActiveKey'
  <2>1. KeyedActive' \subseteq KeyedActive
    BY <1>6 DEF FinishRun, Terminal
  <2> QED BY <2>1
<1>7. ASSUME NEW t \in Tasks, PurgeVictims(t) PROVE UniqueActiveKey'
  BY <1>7 DEF PurgeVictims, Step, submitVars, KeyIsFree
<1>8. ASSUME NEW t \in Tasks, CreateFails(t) PROVE UniqueActiveKey'
  <2>1. CASE UNCHANGED rowVars
    BY <2>1 DEF rowVars
  <2>2. CASE KeyIsFree(t) /\ ~UNCHANGED rowVars
    <3>1. KeyedActive' \subseteq KeyedActive \cup {t}
      BY <1>8, <2>2 DEF CreateFails
    <3> QED BY <2>2, <3>1 DEF KeyIsFree
  <2> QED BY <1>8, <2>1, <2>2 DEF CreateFails
<1> QED
  BY <1>1, <1>2, <1>3, <1>4, <1>5, <1>6, <1>7, <1>8
     DEF Next, Submitter, Worker, Failure

-----------------------------------------------------------------------------
(* The row of a working job says running. *)
LEMMA WorkIsRecordedStep == IndInv /\ [Next]_vars => WorkIsRecorded'
<1> SUFFICES ASSUME IndInv, [Next]_vars PROVE WorkIsRecorded'
  OBVIOUS
<1> USE BoundsAssumption, KeysAssumption DEF AllFaults, IndInv, TypeOK, WorkIsRecorded,
            Disowned, SettledOnce, TerminalHasCause, LoadedRunning, JobMatchesWorker,
            NothingPublishedYet, TerminalRows, SubmitPc, FreePc, EndPc, ReconcilePc
<1>1. CASE AllQuiet \/ UNCHANGED vars
  BY <1>1 DEF AllQuiet, vars, rowVars, submitVars, brokerVars, workerVars
<1>2. ASSUME NEW t \in Tasks,
             FindActive(t) \/ Admit(t) \/ Refuse(t) \/ CountRows(t)
             \/ CompareCounts(t) \/ ListRows(t) \/ ClearSlots(t)
             \/ RestoreSlots(t) \/ Refind(t) \/ FreeSlot(t) \/ GuardFails(t)
             \/ ReconcileFails(t) \/ MarkLost(t) \/ FreeFails(t)
             \/ SubmitterDies(t)
      PROVE  WorkIsRecorded'
  <2>1. UNCHANGED <<status, job, tries, wpc, seen, victims>>
    BY <1>2 DEF FindActive, Admit, Refuse, CountRows, CompareCounts, ListRows,
       ClearSlots, RestoreSlots, Refind, FreeSlot, GuardFails, ReconcileFails, MarkLost,
       FreeFails, SubmitterDies, GoTo, rowVars, brokerVars, workerVars, AfterFree
  <2>2. \A u \in Tasks : Disowned(u) => Disowned(u)'
    BY DisownedStays
  <2> QED BY <2>1, <2>2
<1>3. ASSUME NEW t \in Tasks, CreateRow(t) PROVE WorkIsRecorded'
  BY <1>3, SMTT(60) DEF CreateRow, GoTo, rowVars, brokerVars, workerVars
<1>4. ASSUME NEW t \in Tasks, Publish(t) PROVE WorkIsRecorded'
  BY <1>4 DEF Publish, GoTo, rowVars, workerVars
<1>5. ASSUME NEW t \in Tasks, MarkFailed(t) PROVE WorkIsRecorded'
  BY <1>5 DEF MarkFailed, GoTo, brokerVars, workerVars
<1>6. ASSUME NEW t \in Tasks, Deliver(t) PROVE WorkIsRecorded'
  BY <1>6 DEF Deliver, Step, rowVars, submitVars
<1>7. ASSUME NEW t \in Tasks, LoadRow(t) PROVE WorkIsRecorded'
  BY <1>7 DEF LoadRow, Step, rowVars, submitVars, brokerVars
<1>8. ASSUME NEW t \in Tasks, TouchSlot(t) PROVE WorkIsRecorded'
  BY <1>8 DEF TouchSlot, Step, rowVars, submitVars, brokerVars
<1>9. ASSUME NEW t \in Tasks, BeginRun(t) PROVE WorkIsRecorded'
  BY <1>9 DEF BeginRun, Step, Retry, rowVars, submitVars, BeginRefused
<1>10. ASSUME NEW t \in Tasks, Work(t) PROVE WorkIsRecorded'
  BY <1>10 DEF Work, Step, rowVars, submitVars, brokerVars
<1>11. ASSUME NEW t \in Tasks, ReleaseSlot(t) PROVE WorkIsRecorded'
  BY <1>11 DEF ReleaseSlot, Step, rowVars, submitVars, brokerVars
<1>12. ASSUME NEW t \in Tasks, FinishRun(t) PROVE WorkIsRecorded'
  BY <1>12 DEF FinishRun, Step, Retry, submitVars
<1>13. ASSUME NEW t \in Tasks, SelectVictims(t) PROVE WorkIsRecorded'
  BY <1>13 DEF SelectVictims, Step, rowVars, submitVars, brokerVars
<1>14. ASSUME NEW t \in Tasks, PurgeVictims(t) PROVE WorkIsRecorded'
  <2> SUFFICES ASSUME NEW u \in Tasks, wpc'[u] \in {"work", "release"}, status'[u] # "running",
                      ~Disowned(u)'
               PROVE  status'[u] = "none" /\ tries'[u] > 1
    BY DEF WorkIsRecorded
  <2>1. wpc[u] \in {"work", "release"} /\ tries'[u] = tries[u]
    BY <1>14 DEF PurgeVictims, Step
  <2>2. ~Disowned(u)
    BY <1>14 DEF PurgeVictims, submitVars
  <2>3. CASE status[u] = "running"
    <3>1. u \in victims[t] /\ status'[u] = "none"
      BY <1>14, <2>3 DEF PurgeVictims, TerminalRows, Terminal
    <3> QED BY <2>1, <2>2, <3>1
  <2>4. CASE status[u] # "running"
    BY <1>14, <2>1, <2>2, <2>4 DEF PurgeVictims
  <2> QED BY <2>3, <2>4
<1>15. ASSUME NEW t \in Tasks, CreateFails(t) PROVE WorkIsRecorded'
  <2>1. wpc[t] = "off"
    BY <1>15 DEF CreateFails
  <2>2. \A u \in Tasks \ {t} : status'[u] = status[u]
    BY <1>15 DEF CreateFails, rowVars
  <2>3. \A u \in Tasks : Disowned(u) => Disowned(u)'
    BY DisownedStays
  <2> QED BY <1>15, <2>1, <2>2, <2>3 DEF CreateFails, brokerVars, workerVars
<1>16. ASSUME NEW t \in Tasks, EnqueueFails(t) PROVE WorkIsRecorded'
  BY <1>16 DEF EnqueueFails, GoTo, rowVars, workerVars
<1>17. ASSUME NEW t \in Tasks, WorkerFails(t) PROVE WorkIsRecorded'
  BY <1>17 DEF WorkerFails, Step, Retry, rowVars, submitVars
<1>18. ASSUME NEW t \in Tasks, JobTimesOut(t) PROVE WorkIsRecorded'
  BY <1>18 DEF JobTimesOut, Step, rowVars, submitVars
<1> QED
  BY <1>1, <1>2, <1>3, <1>4, <1>5, <1>6, <1>7, <1>8, <1>9, <1>10, <1>11, <1>12, <1>13,
     <1>14, <1>15, <1>16, <1>17, <1>18
     DEF Next, Submitter, Worker, Failure

-----------------------------------------------------------------------------
(* The initial state satisfies the inductive invariant. *)
LEMMA InitIndInv == Init => IndInv
<1> SUFFICES ASSUME Init PROVE IndInv
  OBVIOUS
<1>1. TypeOK
  BY BoundsAssumption DEF Init, TypeOK, Statuses, Active, Terminal, SubmitPc, JobStates, WorkerPc
<1>2. JobMatchesWorker /\ NothingPublishedYet /\ ActiveHasOwner
  BY DEF Init, JobMatchesWorker, NothingPublishedYet, ActiveHasOwner, Active
<1>3. TerminalHasCause /\ LoadedRunning /\ UniqueActiveKey /\ WorkIsRecorded
  BY DEF Init, TerminalHasCause, LoadedRunning, UniqueActiveKey, KeyedActive, WorkIsRecorded
<1> QED BY <1>1, <1>2, <1>3 DEF IndInv

(* The invariant is inductive: no step of any actor, and no failure, breaks it. *)
THEOREM IndInvHolds == Spec => []IndInv
<1>1. IndInv /\ [Next]_vars => IndInv'
  <2> SUFFICES ASSUME IndInv, [Next]_vars PROVE IndInv'
    OBVIOUS
  <2>1. TypeOK'
    BY TypeStep DEF IndInv
  <2>2. JobMatchesWorker' /\ NothingPublishedYet' /\ ActiveHasOwner'
    BY JobMatchesWorkerStep, NothingPublishedYetStep, ActiveHasOwnerStep
  <2>3. TerminalHasCause' /\ LoadedRunning' /\ UniqueActiveKey' /\ WorkIsRecorded'
    BY TerminalHasCauseStep, LoadedRunningStep, UniqueActiveKeyStep, WorkIsRecordedStep
  <2> QED BY <2>1, <2>2, <2>3 DEF IndInv
<1> QED BY InitIndInv, <1>1, PTL DEF Spec

(* Type correctness: statuses, queue states and counters stay in their ranges; *)
(* in particular no job is delivered more than MaxTries times.                 *)
THEOREM TypeCorrect == Spec => []TypeOK
<1>1. IndInv => TypeOK
  BY DEF IndInv
<1> QED BY IndInvHolds, <1>1, PTL

(* Two active rows never share an idempotency key, in spite of late deliveries, *)
(* redeliveries and rows that workers make anew.                                *)
THEOREM KeysAreExclusive == Spec => []UniqueActiveKey
<1>1. IndInv => UniqueActiveKey
  BY DEF IndInv
<1> QED BY IndInvHolds, <1>1, PTL

(* The row of a working job says running, unless its caller was told that it    *)
(* failed or a clean-up took the row of a job that is being run again.          *)
THEOREM WorkRecorded == Spec => []WorkIsRecorded
<1>1. IndInv => WorkIsRecorded
  BY DEF IndInv
<1> QED BY IndInvHolds, <1>1, PTL

(* Mutual exclusion of the handlers of one key.  It follows from the two        *)
(* invariants: a working job that is neither disowned nor without its row has   *)
(* an active row, and the active row of a key is unique.                        *)
THEOREM WorkIsExclusive == Spec => []ExclusiveWork
<1>1. IndInv => ExclusiveWork
  <2> SUFFICES ASSUME IndInv, NEW t \in Tasks, NEW u \in Tasks,
                      wpc[t] = "work", wpc[u] = "work", KeyOf[t] = KeyOf[u], t # u,
                      \A x \in {t, u} : ~Disowned(x) /\ own[x] /\ status[x] # "none"
               PROVE  FALSE
    BY DEF ExclusiveWork
  <2>1. status[t] = "running" /\ status[u] = "running"
    BY DEF IndInv, WorkIsRecorded
  <2>2. t \in KeyedActive /\ u \in KeyedActive
    BY <2>1 DEF KeyedActive, Active
  <2> QED BY <2>2 DEF IndInv, UniqueActiveKey
<1> QED BY IndInvHolds, <1>1, PTL

(* A row can only be stuck as active because its submit call was cut off or     *)
(* could not mark it, or because the broker gave the job up.                    *)
THEOREM StrandedRowsExplained == Spec => []StrandedOnlyByFailure
<1>1. IndInv => StrandedOnlyByFailure
  <2> SUFFICES ASSUME IndInv, NEW t \in Tasks,
                      status[t] \in Active, pc[t] \in EndPc, ~Live(t), job[t] # "dropped"
               PROVE  pc[t] \in {"dead", "lost"}
    BY DEF StrandedOnlyByFailure
  <2>1. job[t] \in {"absent", "done"}
    BY DEF IndInv, TypeOK, JobStates, Live
  <2> QED BY <2>1 DEF IndInv, ActiveHasOwner, EndPc
<1> QED BY IndInvHolds, <1>1, PTL

(* A success is only taken back by a second delivery, or by the submit call     *)
(* whose enqueue timed out.                                                     *)
THEOREM SuccessIsKept == Spec => SuccessStands
<1>1. IndInv /\ [Next]_vars =>
        [\A t \in Tasks :
            status[t] = "succeeded" /\ status'[t] \notin {"succeeded", "none"} =>
               tries[t] > 1 \/ pc[t] = "mark"]_vars
  <2> SUFFICES ASSUME IndInv, Next, NEW t \in Tasks,
                      status[t] = "succeeded", status'[t] \notin {"succeeded", "none"}
               PROVE  tries[t] > 1 \/ pc[t] = "mark"
    BY DEF vars, rowVars
  <2>1. SettledOnce(t)
    BY DEF IndInv, TerminalHasCause
  <2>2. ASSUME NEW u \in Tasks, Submitter(u) PROVE tries[t] > 1 \/ pc[t] = "mark"
    <3>1. CASE CreateRow(u)
      BY <2>1, <3>1 DEF CreateRow, rowVars, IndInv, TypeOK, NothingPublishedYet,
         JobMatchesWorker, SettledOnce
    <3>2. CASE MarkFailed(u)
      BY <3>2 DEF MarkFailed, IndInv, TypeOK
    <3> QED
      BY <2>2, <3>1, <3>2 DEF Submitter, FindActive, Admit, Refuse, CountRows,
         CompareCounts,
         ListRows, ClearSlots, RestoreSlots, Refind, Publish, FreeSlot, rowVars
  <2>3. ASSUME NEW u \in Tasks, Worker(u) PROVE tries[t] > 1 \/ pc[t] = "mark"
    <3>1. CASE BeginRun(u) \/ FinishRun(u)
      BY <2>1, <3>1 DEF BeginRun, FinishRun, rowVars, SettledOnce, IndInv, TypeOK
    <3>2. CASE PurgeVictims(u)
      BY <3>2 DEF PurgeVictims
    <3> QED
      BY <2>3, <3>1, <3>2 DEF Worker, Deliver, LoadRow, TouchSlot, Work, ReleaseSlot,
         SelectVictims, rowVars
  <2>4. ASSUME NEW u \in Tasks, Failure(u) PROVE tries[t] > 1 \/ pc[t] = "mark"
    <3>1. CASE CreateFails(u)
      BY <2>1, <3>1 DEF CreateFails, rowVars, IndInv, TypeOK, NothingPublishedYet,
         JobMatchesWorker, SettledOnce
    <3> QED
      BY <2>4, <3>1 DEF Failure, GuardFails, ReconcileFails, EnqueueFails, MarkLost,
         FreeFails,
         SubmitterDies, WorkerFails, JobTimesOut, rowVars
  <2> QED BY <2>2, <2>3, <2>4 DEF Next, AllQuiet, vars, rowVars
<1> QED BY IndInvHolds, <1>1, PTL DEF Spec, SuccessStands

-----------------------------------------------------------------------------
(* TaskQueue implements JobLifecycle as long as no failure can deliver a   *)
(* job a second time after it has succeeded (a worker that dies, a store   *)
(* error after the commit), or after its submit call has marked it failed  *)
(* (an enqueue that timed out).  Submit calls may die, Redis may fail, the *)
(* broker may refuse jobs, and jobs may time out, any number of times.     *)

Benign == FaultKinds \cap {"db_error", "enqueue_timeout", "worker_crash"} = {}

\* The row at every stage of the submit call and of the delivery.
RowFollowsCall ==
    \A t \in Tasks :
        /\ pc[t] \in {"idle", "guard", "reguard", "create"} \cup ReconcilePc
              => status[t] = "none" /\ ~own[t]
        /\ pc[t] \in {"enqueue", "mark"}
              => status[t] = "pending" /\ own[t] /\ job[t] = "absent"
        /\ status[t] # "none" => own[t]

RowFollowsJob ==
    \A t \in Tasks :
        /\ job[t] = "queued" \/ wpc[t] \in {"load", "touch", "begin"} => status[t] \in Active
        /\ wpc[t] \in {"touch", "begin"} => seen[t] = status[t]
        /\ wpc[t] \in {"work", "release", "finish"} => status[t] = "running"

VictimsAreOver ==
    \A t \in Tasks : \A u \in victims[t] : status[u] \notin Active /\ own[u]

BenignInv == IndInv /\ RowFollowsCall /\ RowFollowsJob /\ VictimsAreOver

(* Without those failures a worker is never refused: its row is there, and *)
(* still active, so that the unique index cannot object.                   *)
LEMMA NeverRefused == ASSUME BenignInv, NEW t \in Tasks, wpc[t] = "begin" PROVE ~BeginRefused(t)
<1>1. t \in KeyedActive
  BY DEF BenignInv, RowFollowsCall, RowFollowsJob, KeyedActive, Active
<1>2. KeyIsFree(t)
  BY <1>1 DEF BenignInv, IndInv, UniqueActiveKey, KeyIsFree, KeyedActive
<1> QED BY <1>2 DEF BeginRefused, BenignInv, RowFollowsJob, Active

(* Such failures leave a redelivery only where Redis refuses a slot. *)
LEMMA BenignFailure ==
  ASSUME Benign, NEW t \in Tasks
  PROVE  /\ ~CreateFails(t) /\ ~MarkLost(t)
         /\ EnqueueFails(t) => UNCHANGED job
         /\ WorkerFails(t) => wpc[t] \in {"touch", "release"}
BY DEF Benign, CreateFails, MarkLost, EnqueueFails, WorkerFails, Fault

LEMMA BenignInit == Init => RowFollowsCall /\ RowFollowsJob /\ VictimsAreOver
BY DEF Init, RowFollowsCall, RowFollowsJob, VictimsAreOver, ReconcilePc

LEMMA BenignStep ==
  ASSUME Benign, BenignInv, [Next]_vars
  PROVE  RowFollowsCall' /\ RowFollowsJob' /\ VictimsAreOver'
<1> DEFINE Kept == RowFollowsCall' /\ RowFollowsJob' /\ VictimsAreOver'
<1> USE DEF BenignInv, IndInv, TypeOK, RowFollowsCall, RowFollowsJob, VictimsAreOver,
            JobMatchesWorker, Active, ReconcilePc
<1>1. CASE AllQuiet \/ UNCHANGED vars
  BY <1>1 DEF AllQuiet, vars, rowVars, submitVars, brokerVars, workerVars
<1>2. ASSUME NEW t \in Tasks,
             FindActive(t) \/ Admit(t) \/ Refuse(t) \/ CountRows(t)
             \/ CompareCounts(t) \/ ListRows(t) \/ ClearSlots(t)
             \/ RestoreSlots(t) \/ Refind(t) \/ FreeSlot(t) \/ GuardFails(t)
             \/ ReconcileFails(t) \/ FreeFails(t) \/ SubmitterDies(t)
      PROVE  Kept
  <2>1. UNCHANGED <<status, own, job, wpc, seen, victims>>
    BY <1>2 DEF FindActive, Admit, Refuse, CountRows, CompareCounts, ListRows, ClearSlots,
       RestoreSlots, Refind, FreeSlot, GuardFails, ReconcileFails, FreeFails,
       SubmitterDies, rowVars, brokerVars, workerVars
  <2>2. RowFollowsCall'
    <3>1. CASE FindActive(t) \/ Admit(t) \/ Refuse(t) \/ CountRows(t) \/ CompareCounts(t)
               \/ ListRows(t) \/ ClearSlots(t) \/ RestoreSlots(t)
      BY <2>1, <3>1 DEF FindActive, Admit, Refuse, CountRows, CompareCounts, ListRows,
         ClearSlots, RestoreSlots, GoTo, AfterFree
    <3>2. CASE Refind(t) \/ FreeSlot(t) \/ GuardFails(t) \/ ReconcileFails(t)
               \/ FreeFails(t) \/ SubmitterDies(t)
      BY <2>1, <3>2 DEF Refind, FreeSlot, GuardFails, ReconcileFails, FreeFails,
         SubmitterDies, GoTo, AfterFree, EndPc, FreePc
    <3> QED BY <1>2, <3>1, <3>2
  <2> QED BY <2>1, <2>2
<1>3. ASSUME NEW t \in Tasks, CreateRow(t) PROVE Kept
  BY <1>3 DEF CreateRow, GoTo, rowVars, brokerVars, workerVars, NothingPublishedYet
<1>4. ASSUME NEW t \in Tasks, Publish(t) PROVE Kept
  BY <1>4 DEF Publish, GoTo, rowVars, workerVars, NothingPublishedYet
<1>5. ASSUME NEW t \in Tasks, MarkFailed(t) PROVE Kept
  BY <1>5 DEF MarkFailed, GoTo, brokerVars, workerVars
<1>6. ASSUME NEW t \in Tasks, EnqueueFails(t) PROVE Kept
  <2>1. UNCHANGED job
    BY <1>6, BenignFailure
  <2> QED BY <1>6, <2>1 DEF EnqueueFails, GoTo, rowVars, workerVars
<1>7. ASSUME NEW t \in Tasks, Deliver(t) PROVE Kept
  BY <1>7 DEF Deliver, Step, rowVars, submitVars
<1>8. ASSUME NEW t \in Tasks, LoadRow(t) PROVE Kept
  BY <1>8 DEF LoadRow, Step, rowVars, submitVars, brokerVars
<1>9. ASSUME NEW t \in Tasks, TouchSlot(t) PROVE Kept
  BY <1>9 DEF TouchSlot, Step, rowVars, submitVars, brokerVars
<1>10. ASSUME NEW t \in Tasks, BeginRun(t) PROVE Kept
  <2>1. ~BeginRefused(t)
    BY <1>10, NeverRefused DEF BeginRun
  <2>2. /\ status' = [status EXCEPT ![t] = "running"]
        /\ wpc' = [wpc EXCEPT ![t] = "work"]
        /\ UNCHANGED <<own, job, pc, seen, victims>>
    <3>1. seen[t] = status[t] /\ seen[t] # "none" /\ own[t] = TRUE
      BY <1>10 DEF BeginRun
    <3>2. status' = [status EXCEPT ![t] = IF seen[t] = "running" THEN @ ELSE "running"]
      BY <1>10, <2>1 DEF BeginRun
    <3>3. own' = [own EXCEPT ![t] = @ /\ seen[t] # "none"]
      BY <1>10, <2>1 DEF BeginRun
    <3>4. status' = [status EXCEPT ![t] = "running"] /\ own' = own
      BY <3>1, <3>2, <3>3, ZenonT(60)
    <3> QED BY <1>10, <2>1, <3>4 DEF BeginRun, Step, submitVars
  <2>3. status[t] \in Active /\ job[t] = "running"
    BY <1>10 DEF BeginRun
  <2>4. RowFollowsCall'
    BY <2>2, <2>3, <1>10 DEF BeginRun, NothingPublishedYet
  <2>5. RowFollowsJob' /\ VictimsAreOver'
    BY <2>2, <2>3
  <2> QED BY <2>4, <2>5
<1>11. ASSUME NEW t \in Tasks, Work(t) PROVE Kept
  BY <1>11 DEF Work, Step, rowVars, submitVars, brokerVars
<1>12. ASSUME NEW t \in Tasks, ReleaseSlot(t) PROVE Kept
  BY <1>12 DEF ReleaseSlot, Step, rowVars, submitVars, brokerVars
<1>13. ASSUME NEW t \in Tasks, FinishRun(t) PROVE Kept
  <2>1. /\ status' = [status EXCEPT ![t] = verdict[t]] /\ verdict[t] \in Terminal
        /\ wpc' = [wpc EXCEPT ![t] = "select"]
        /\ UNCHANGED <<own, job, pc, seen, victims>>
    BY <1>13 DEF FinishRun, Step, submitVars
  <2>2. status[t] = "running" /\ job[t] = "running"
    BY <1>13 DEF FinishRun
  <2>3. RowFollowsCall'
    BY <2>1, <2>2 DEF NothingPublishedYet
  <2>4. RowFollowsJob' /\ VictimsAreOver'
    BY <2>1, <2>2 DEF Terminal
  <2> QED BY <2>3, <2>4
<1>14. ASSUME NEW t \in Tasks, SelectVictims(t) PROVE Kept
  BY <1>14 DEF SelectVictims, Step, rowVars, submitVars, brokerVars, TerminalRows, Terminal
<1>15. ASSUME NEW t \in Tasks, PurgeVictims(t) PROVE Kept
  <2>1. \A u \in Tasks : /\ status'[u] \in {status[u], "none"}
                         /\ status[u] \in Active => status'[u] = status[u]
    <3>1. PICK expired \in SUBSET TerminalRows :
            status' = [u \in Tasks |->
                         IF u \in victims[t] \cup expired THEN "none" ELSE status[u]]
      BY <1>15 DEF PurgeVictims
    <3>2. \A u \in victims[t] \cup expired : status[u] \notin Active
      BY DEF TerminalRows, Terminal
    <3> QED BY <3>1, <3>2
  <2>2. /\ wpc' = [wpc EXCEPT ![t] = "off"] /\ job' = [job EXCEPT ![t] = "done"]
        /\ victims' = [victims EXCEPT ![t] = {}]
        /\ UNCHANGED <<own, pc, seen>>
    BY <1>15 DEF PurgeVictims, Step, submitVars
  <2>3. job[t] = "running"
    BY <1>15 DEF PurgeVictims
  <2>4. RowFollowsCall'
    BY <2>1, <2>2, <2>3
  <2>5. RowFollowsJob'
    BY <2>1, <2>2
  <2>6. VictimsAreOver'
    BY <2>1, <2>2
  <2> QED BY <2>4, <2>5, <2>6
<1>16. ASSUME NEW t \in Tasks, WorkerFails(t) PROVE Kept
  <2>1. wpc[t] \in {"touch", "release"} /\ job[t] = "running"
    BY <1>16, BenignFailure DEF WorkerFails
  <2>2. /\ wpc' = [wpc EXCEPT ![t] = "off"] /\ job' = [job EXCEPT ![t] = "queued"]
        /\ victims' = [victims EXCEPT ![t] = {}]
        /\ UNCHANGED <<status, own, pc, seen>>
    BY <1>16 DEF WorkerFails, Retry, Step, rowVars, submitVars
  <2> QED BY <2>1, <2>2
<1>17. ASSUME NEW t \in Tasks, JobTimesOut(t) PROVE Kept
  BY <1>17 DEF JobTimesOut, Step, Fault, rowVars, submitVars
<1>18. ASSUME NEW t \in Tasks, CreateFails(t) \/ MarkLost(t) PROVE Kept
  BY <1>18, BenignFailure
<1> QED
  BY <1>1, <1>2, <1>3, <1>4, <1>5, <1>6, <1>7, <1>8, <1>9, <1>10, <1>11, <1>12, <1>13,
     <1>14, <1>15, <1>16, <1>17, <1>18
     DEF Next, Submitter, Worker, Failure

(* Every step of TaskQueue is a step of the life cycle or leaves it alone. *)
LEMMA StepRefines ==
  ASSUME Benign, BenignInv, [Next]_vars
  PROVE  [Lifecycle!Next]_(Lifecycle!vars)
<1> USE DEF Lifecycle!vars, BenignInv
<1>1. CASE AllQuiet \/ UNCHANGED vars
  BY <1>1 DEF AllQuiet, vars, rowVars
<1>2. ASSUME NEW t \in Tasks, CreateRow(t) PROVE [Lifecycle!Next]_(Lifecycle!vars)
  <2>1. CASE KeyIsFree(t)
    <3>1. \A u \in Tasks : KeyOf[u] = KeyOf[t] => status[u] \notin Active
      BY <1>2, <2>1 DEF CreateRow, KeyIsFree, KeyedActive, RowFollowsCall, Active
    <3>2. Lifecycle!Accept(t)
      BY <1>2, <2>1, <3>1 DEF CreateRow, Lifecycle!Accept, Lifecycle!Active, Active,
         RowFollowsCall
    <3> QED BY <3>2 DEF Lifecycle!Next
  <2>2. CASE ~KeyIsFree(t)
    BY <1>2, <2>2 DEF CreateRow, rowVars
  <2> QED BY <2>1, <2>2
<1>3. ASSUME NEW t \in Tasks, MarkFailed(t) PROVE [Lifecycle!Next]_(Lifecycle!vars)
  <2>1. Lifecycle!Settle(t)
    BY <1>3 DEF MarkFailed, RowFollowsCall, IndInv, TypeOK, Lifecycle!Settle
  <2> QED BY <2>1 DEF Lifecycle!Next
<1>4. ASSUME NEW t \in Tasks, BeginRun(t) PROVE [Lifecycle!Next]_(Lifecycle!vars)
  <2>1. /\ status' = [status EXCEPT ![t] = IF seen[t] = "running" THEN @ ELSE "running"]
        /\ seen[t] = status[t] /\ seen[t] \in Active /\ own' = own
    BY <1>4, NeverRefused DEF BeginRun, RowFollowsJob, RowFollowsCall, Active, IndInv,
       TypeOK
  <2>2. CASE status[t] = "running"
    BY <2>1, <2>2 DEF IndInv, TypeOK
  <2>3. CASE status[t] = "pending"
    <3>1. Lifecycle!Start(t)
      BY <2>1, <2>3 DEF Lifecycle!Start
    <3> QED BY <3>1 DEF Lifecycle!Next
  <2> QED BY <2>1, <2>2, <2>3 DEF Active
<1>5. ASSUME NEW t \in Tasks, FinishRun(t) PROVE [Lifecycle!Next]_(Lifecycle!vars)
  <2>1. Lifecycle!Settle(t)
    BY <1>5 DEF FinishRun, RowFollowsJob, IndInv, TypeOK, Lifecycle!Settle,
       Lifecycle!Terminal, Terminal
  <2> QED BY <2>1 DEF Lifecycle!Next
<1>6. ASSUME NEW t \in Tasks, PurgeVictims(t) PROVE [Lifecycle!Next]_(Lifecycle!vars)
  <2>1. PICK expired \in SUBSET TerminalRows :
          status' = [u \in Tasks |-> IF u \in victims[t] \cup expired THEN "none" ELSE status[u]]
    BY <1>6 DEF PurgeVictims
  <2> DEFINE old == (victims[t] \cup expired) \cap {u \in Tasks : status[u] \in Lifecycle!Terminal}
  <2>2. \A u \in victims[t] \cup expired : u \in old \/ status[u] = "none"
    BY DEF VictimsAreOver, IndInv, TypeOK, TerminalRows, Terminal, Lifecycle!Terminal,
       Statuses, Active
  <2>3. status' = [u \in Tasks |-> IF u \in old THEN "none" ELSE status[u]]
    BY <2>1, <2>2
  <2>4. old \in SUBSET {u \in Tasks : status[u] \in Lifecycle!Terminal} /\ own' = own
    BY <1>6 DEF PurgeVictims
  <2>5. Lifecycle!Forget
    BY <2>3, <2>4 DEF Lifecycle!Forget
  <2> QED BY <2>5 DEF Lifecycle!Next
<1>7. ASSUME NEW t \in Tasks, CreateFails(t) \/ MarkLost(t)
      PROVE  [Lifecycle!Next]_(Lifecycle!vars)
  BY <1>7, BenignFailure
<1> QED
  BY <1>1, <1>2, <1>3, <1>4, <1>5, <1>6, <1>7
     DEF Next, Submitter, Worker, Failure, rowVars, FindActive, Admit, Refuse, CountRows,
         CompareCounts, ListRows, ClearSlots, RestoreSlots, Refind, Publish, FreeSlot, Deliver,
         LoadRow, TouchSlot, Work, ReleaseSlot, SelectVictims, GuardFails, ReconcileFails,
         EnqueueFails, FreeFails, SubmitterDies, WorkerFails, JobTimesOut

(* TaskQueue implements the life cycle of a job: accepted once, alone in its *)
(* key, run, settled once, forgotten only when settled.                      *)
THEOREM LifecycleImplemented == ASSUME Benign PROVE Spec => FollowsLifecycle
<1>1. Init => Lifecycle!Init
  BY DEF Init, Lifecycle!Init
<1>2. Spec => []BenignInv
  <2>1. BenignInv /\ IndInv' /\ [Next]_vars => BenignInv'
    BY BenignStep DEF BenignInv
  <2>2. Init /\ IndInv => BenignInv
    BY BenignInit DEF BenignInv
  <2> QED BY <2>1, <2>2, IndInvHolds, PTL DEF Spec
<1>3. BenignInv /\ [Next]_vars => [Lifecycle!Next]_(Lifecycle!vars)
  BY StepRefines
<1> QED BY <1>1, <1>2, <1>3, PTL DEF Spec, FollowsLifecycle, Lifecycle!Spec

-----------------------------------------------------------------------------
(***************************************************************************)
(* The in-flight set.  Neither SlotLeakExplained nor WorkerHoldsSlot is    *)
(* inductive: whether a slot is ever given back depends on where its call  *)
(* and its job are between their end states.  SlotInv says whose slot it   *)
(* is at every step, relative to IndInv.                                   *)
(***************************************************************************)
\* A call reconciles once: before it lists the rows it has read none, and
\* whoever clears the slots has listed them.
ListedOnce ==
    \A u \in Tasks :
        /\ pc[u] \in {"idle", "guard", "count", "compare", "list"}
              => view[u].ids = {} /\ ~view[u].listed
        /\ pc[u] \in {"clear", "restore"} => view[u].listed

\* Only heavy jobs come near the set.
HeavyOnly ==
    /\ \A t \in inflight : Heavy(t)
    /\ \A u \in Tasks : \A t \in view[u].ids : Heavy(t)
    /\ \A t \in Tasks : pc[t] \in {"guard", "reguard"} \cup ReconcilePc => Heavy(t)

JoinersPublishNothing == \A t \in Tasks : pc[t] \in {"free_joined", "joined"} => job[t] = "absent"

\* Whose slot it is to give back: the call's until it has ended, then that of the
\* job until its handler has released it.
Holds(t) ==
    \/ pc[t] \in {"create", "refind", "enqueue", "mark"} \cup FreePc
    \/ job[t] = "queued" \/ wpc[t] \in {"load", "touch", "begin", "work", "release"}
Leaked(t) ==
    \/ pc[t] \in {"dead", "lost"} \/ job[t] = "dropped" \/ ~own[t]
    \/ \E u \in Tasks : t \in view[u].ids
SlotsHeld == "redis_error" \notin FaultKinds => \A t \in inflight : Holds(t) \/ Leaked(t)

\* What takes the slot of a job that begins or works.
HandlersHold ==
    \A t \in Tasks :
        wpc[t] \in {"begin", "work"} /\ own[t] /\ Heavy(t) /\ t \notin inflight =>
            \/ Disowned(t) \/ \E u \in Tasks : view[u].listed
            \/ wpc[t] = "begin" /\ seen[t] = "none"

SlotInv == ListedOnce /\ HeavyOnly /\ JoinersPublishNothing /\ SlotsHeld /\ HandlersHold

(* A call reconciles at most once. *)
LEMMA ListedOnceStep == TypeOK /\ ListedOnce /\ [Next]_vars => ListedOnce'
<1> SUFFICES ASSUME TypeOK, ListedOnce, [Next]_vars PROVE ListedOnce'
  OBVIOUS
<1> USE DEF TypeOK, ListedOnce
<1>1. CASE AllQuiet \/ UNCHANGED vars
  BY <1>1 DEF AllQuiet, vars, submitVars
<1>2. ASSUME NEW t \in Tasks, Worker(t) \/ WorkerFails(t) \/ JobTimesOut(t) PROVE ListedOnce'
  BY <1>2 DEF Worker, Deliver, LoadRow, TouchSlot, BeginRun, Work, ReleaseSlot, FinishRun,
     SelectVictims, PurgeVictims, WorkerFails, JobTimesOut, submitVars
<1>3. ASSUME NEW t \in Tasks,
             CountRows(t) \/ CompareCounts(t) \/ ListRows(t) \/ ClearSlots(t) \/ RestoreSlots(t)
      PROVE  ListedOnce'
  BY <1>3 DEF CountRows, CompareCounts, ListRows, ClearSlots, RestoreSlots, GoTo
<1>4. ASSUME NEW t \in Tasks, FindActive(t) \/ Admit(t) \/ Refuse(t) PROVE ListedOnce'
  BY <1>4 DEF FindActive, Admit, Refuse, GoTo
<1>5. ASSUME NEW t \in Tasks,
             \/ CreateRow(t) \/ Refind(t) \/ Publish(t) \/ MarkFailed(t) \/ FreeSlot(t)
             \/ GuardFails(t) \/ ReconcileFails(t) \/ CreateFails(t) \/ EnqueueFails(t)
             \/ MarkLost(t) \/ FreeFails(t) \/ SubmitterDies(t)
      PROVE  ListedOnce'
  <2>1. /\ view' = view /\ \A u \in Tasks \ {t} : pc'[u] = pc[u]
        /\ pc'[t] \notin {"idle", "guard", "clear", "restore"} \cup {"count", "compare", "list"}
    BY <1>5 DEF CreateRow, Refind, Publish, MarkFailed, FreeSlot, GuardFails,
       ReconcileFails, CreateFails, EnqueueFails, MarkLost, FreeFails, SubmitterDies, GoTo,
       AfterFree, FreePc
  <2> QED BY <2>1
<1> QED BY <1>1, <1>2, <1>3, <1>4, <1>5 DEF Next, Submitter, Failure

(* The light jobs never come near the in-flight set. *)
LEMMA HeavyOnlyStep == TypeOK /\ HeavyOnly /\ [Next]_vars => HeavyOnly'
<1> SUFFICES ASSUME TypeOK, HeavyOnly, [Next]_vars PROVE HeavyOnly'
  OBVIOUS
<1> USE DEF TypeOK, HeavyOnly, ReconcilePc
<1>1. CASE AllQuiet \/ UNCHANGED vars
  BY <1>1 DEF AllQuiet, vars, submitVars
<1>2. ASSUME NEW t \in Tasks, Worker(t) \/ WorkerFails(t) \/ JobTimesOut(t) PROVE HeavyOnly'
  BY <1>2 DEF Worker, Deliver, LoadRow, TouchSlot, BeginRun, Work, ReleaseSlot, FinishRun,
     SelectVictims, PurgeVictims, WorkerFails, JobTimesOut, submitVars
<1>3. ASSUME NEW t \in Tasks,
             CountRows(t) \/ CompareCounts(t) \/ ListRows(t) \/ ClearSlots(t) \/ RestoreSlots(t)
      PROVE  HeavyOnly'
  <2>1. /\ view' = view \/ view'[t].ids \in {{}, HeavyActive}
        /\ \A u \in Tasks \ {t} : view'[u] = view[u]
        /\ inflight' \subseteq inflight \cup view[t].ids
    BY <1>3 DEF CountRows, CompareCounts, ListRows, ClearSlots, RestoreSlots
  <2>2. pc[t] \in ReconcilePc /\ \A u \in Tasks \ {t} : pc'[u] = pc[u]
    BY <1>3 DEF CountRows, CompareCounts, ListRows, ClearSlots, RestoreSlots, GoTo
  <2>3. \A u \in HeavyActive : Heavy(u)
    BY DEF HeavyActive
  <2> QED BY <2>1, <2>2, <2>3
<1>4. ASSUME NEW t \in Tasks, FindActive(t) \/ Admit(t) \/ Refuse(t) PROVE HeavyOnly'
  BY <1>4 DEF FindActive, Admit, Refuse, GoTo
<1>5. ASSUME NEW t \in Tasks,
             \/ CreateRow(t) \/ Refind(t) \/ Publish(t) \/ MarkFailed(t) \/ FreeSlot(t)
             \/ GuardFails(t) \/ ReconcileFails(t) \/ CreateFails(t) \/ EnqueueFails(t)
             \/ MarkLost(t) \/ FreeFails(t) \/ SubmitterDies(t)
      PROVE  HeavyOnly'
  <2>1. /\ view' = view /\ \A u \in Tasks \ {t} : pc'[u] = pc[u]
        /\ pc'[t] \notin {"guard"} \cup ReconcilePc
        /\ pc'[t] = "reguard" => pc[t] \in ReconcilePc
        /\ \/ inflight' \subseteq inflight
           \/ inflight' = inflight \cup {t} /\ pc[t] \in {"guard", "reguard"}
    BY <1>5 DEF CreateRow, Refind, Publish, MarkFailed, FreeSlot, GuardFails,
       ReconcileFails, CreateFails, EnqueueFails, MarkLost, FreeFails, SubmitterDies, GoTo,
       AfterFree, FreePc
  <2> QED BY <2>1
<1> QED BY <1>1, <1>2, <1>3, <1>4, <1>5 DEF Next, Submitter, Failure

(* A call that joins another has published no job of its own. *)
LEMMA JoinersPublishNothingStep ==
  TypeOK /\ JobMatchesWorker /\ NothingPublishedYet /\ JoinersPublishNothing /\ [Next]_vars
     => JoinersPublishNothing'
<1> SUFFICES ASSUME TypeOK, JobMatchesWorker, NothingPublishedYet, JoinersPublishNothing,
                    [Next]_vars
             PROVE  JoinersPublishNothing'
  OBVIOUS
<1> USE DEF TypeOK, JobMatchesWorker, JoinersPublishNothing
<1>1. CASE AllQuiet \/ UNCHANGED vars
  BY <1>1 DEF AllQuiet, vars, submitVars, brokerVars
<1>2. ASSUME NEW t \in Tasks, Worker(t) \/ WorkerFails(t) \/ JobTimesOut(t)
      PROVE  JoinersPublishNothing'
  <2>1. job[t] # "absent" /\ pc' = pc /\ \A u \in Tasks \ {t} : job'[u] = job[u]
    BY <1>2 DEF Worker, Deliver, LoadRow, TouchSlot, BeginRun, Work, ReleaseSlot, FinishRun,
     SelectVictims, PurgeVictims, WorkerFails, JobTimesOut, submitVars, brokerVars, Retry
  <2> QED BY <2>1
<1>3. ASSUME NEW t \in Tasks,
             \/ CountRows(t) \/ CompareCounts(t) \/ ListRows(t) \/ ClearSlots(t) \/ RestoreSlots(t)
             \/ FindActive(t) \/ Admit(t) \/ Refuse(t) \/ CreateRow(t) \/ Refind(t)
             \/ GuardFails(t) \/ ReconcileFails(t) \/ CreateFails(t)
      PROVE  JoinersPublishNothing'
  <2>1. /\ job' = job /\ job[t] = "absent" /\ \A u \in Tasks \ {t} : pc'[u] = pc[u]
    BY <1>3 DEF CountRows, CompareCounts, ListRows, ClearSlots, RestoreSlots, FindActive, Admit,
       Refuse, CreateRow, Refind, GuardFails, ReconcileFails, CreateFails, GoTo, brokerVars,
       NothingPublishedYet, ReconcilePc
  <2> QED BY <2>1
<1>4. ASSUME NEW t \in Tasks,
             \/ Publish(t) \/ MarkFailed(t) \/ FreeSlot(t) \/ EnqueueFails(t)
             \/ MarkLost(t) \/ FreeFails(t) \/ SubmitterDies(t)
      PROVE  JoinersPublishNothing'
  <2>1. /\ \A u \in Tasks \ {t} : pc'[u] = pc[u] /\ job'[u] = job[u]
        /\ pc'[t] # "free_joined"
        /\ pc'[t] = "joined" => pc[t] = "free_joined" /\ job' = job
    BY <1>4 DEF Publish, MarkFailed, FreeSlot, EnqueueFails, MarkLost, FreeFails,
       SubmitterDies, GoTo, brokerVars, AfterFree, FreePc
  <2> QED BY <2>1
<1> QED BY <1>1, <1>2, <1>3, <1>4 DEF Next, Submitter, Failure

\* What a call has listed stays in its view.
LEMMA ViewsGrow ==
  TypeOK /\ ListedOnce /\ [Next]_vars =>
     \A u \in Tasks : /\ view[u].ids \subseteq view'[u].ids
                      /\ view[u].listed => view'[u].listed
<1> SUFFICES ASSUME TypeOK, ListedOnce, [Next]_vars
             PROVE  \A u \in Tasks : /\ view[u].ids \subseteq view'[u].ids
                                     /\ view[u].listed => view'[u].listed
  OBVIOUS
<1>1. CASE UNCHANGED view
  BY <1>1
<1>2. ASSUME NEW t \in Tasks, CountRows(t) \/ ListRows(t)
      PROVE  \A u \in Tasks : /\ view[u].ids \subseteq view'[u].ids
                              /\ view[u].listed => view'[u].listed
  <2>1. view[t].ids = {} /\ ~view[t].listed
    BY <1>2 DEF ListedOnce, CountRows, ListRows
  <2>2. \A u \in Tasks \ {t} : view'[u] = view[u]
    BY <1>2 DEF TypeOK, CountRows, ListRows
  <2> QED BY <2>1, <2>2
<1>3. UNCHANGED view \/ \E t \in Tasks : CountRows(t) \/ ListRows(t)
  BY DEF Next, AllQuiet, vars, submitVars, Submitter, FindActive, Admit, Refuse,
     CompareCounts, ClearSlots, RestoreSlots, CreateRow, Refind, Publish, MarkFailed,
     FreeSlot, Worker, Deliver, LoadRow, TouchSlot, BeginRun, Work, ReleaseSlot, FinishRun,
     SelectVictims, PurgeVictims, Failure, GuardFails, ReconcileFails, CreateFails,
     EnqueueFails, MarkLost, FreeFails, SubmitterDies, WorkerFails, JobTimesOut
<1> QED BY <1>1, <1>2, <1>3

\* A step of a call, or of a delivery, is about one task only.
ApartFrom(t) ==
    /\ \A u \in Tasks \ {t} :
         /\ pc'[u] = pc[u] /\ job'[u] = job[u] /\ wpc'[u] = wpc[u]
         /\ own'[u] = own[u] /\ seen'[u] = seen[u]
    /\ inflight' \subseteq inflight \cup {t} \cup view[t].ids
    /\ \/ inflight \subseteq inflight' \cup {t}
       \/ pc[t] = "clear"

\* A step of a call.
LEMMA CallsApart ==
  ASSUME TypeOK, NEW t \in Tasks,
         Submitter(t) \/ (Failure(t) /\ ~WorkerFails(t) /\ ~JobTimesOut(t))
  PROVE  ApartFrom(t) /\ UNCHANGED <<wpc, seen>>
<1> USE DEF TypeOK, ApartFrom, GoTo, rowVars, brokerVars, workerVars
<1>1. CASE \/ FindActive(t) \/ Admit(t) \/ Refuse(t)
           \/ CompareCounts(t) \/ ClearSlots(t) \/ RestoreSlots(t)
  BY <1>1 DEF FindActive, Admit, Refuse, CompareCounts, ClearSlots, RestoreSlots
<1>2. CASE CountRows(t) \/ ListRows(t)
  BY <1>2 DEF CountRows, ListRows
<1>3. CASE CreateRow(t) \/ CreateFails(t)
  BY <1>3 DEF CreateRow, CreateFails
<1>4. CASE Refind(t) \/ Publish(t) \/ MarkFailed(t) \/ FreeSlot(t)
  BY <1>4 DEF Refind, Publish, MarkFailed, FreeSlot
<1>5. CASE \/ GuardFails(t) \/ ReconcileFails(t) \/ EnqueueFails(t)
           \/ MarkLost(t) \/ FreeFails(t) \/ SubmitterDies(t)
  BY <1>5 DEF GuardFails, ReconcileFails, EnqueueFails, MarkLost, FreeFails, SubmitterDies
<1> QED BY <1>1, <1>2, <1>3, <1>4, <1>5 DEF Submitter, Failure

\* A step of a delivery.
LEMMA DeliveriesApart ==
  ASSUME TypeOK, NEW t \in Tasks, Worker(t) \/ WorkerFails(t) \/ JobTimesOut(t)
  PROVE  ApartFrom(t) /\ UNCHANGED <<pc, view>>
<1> USE DEF TypeOK, ApartFrom, Step, Retry, rowVars, submitVars, brokerVars
<1>1. CASE Deliver(t) \/ LoadRow(t) \/ TouchSlot(t) \/ Work(t) \/ ReleaseSlot(t)
  BY <1>1 DEF Deliver, LoadRow, TouchSlot, Work, ReleaseSlot
<1>2. CASE BeginRun(t) \/ FinishRun(t)
  BY <1>2 DEF BeginRun, FinishRun
<1>3. CASE SelectVictims(t) \/ PurgeVictims(t) \/ WorkerFails(t) \/ JobTimesOut(t)
  BY <1>3 DEF SelectVictims, PurgeVictims, WorkerFails, JobTimesOut
<1> QED BY <1>1, <1>2, <1>3 DEF Worker

\* What explains a slot that nobody will give back stays true of it, unless its
\* call only now creates the row.
LEMMA LeakStays ==
  ASSUME IndInv, ListedOnce, [Next]_vars, NEW t \in Tasks,
         Submitter(t) \/ Worker(t) \/ Failure(t), Leaked(t), pc[t] # "create"
  PROVE  Leaked(t)'
<1> USE DEF IndInv, TypeOK
<1>1. CASE \E u \in Tasks : t \in view[u].ids
  BY <1>1, ViewsGrow DEF Leaked
<1>2. CASE Submitter(t) \/ (Failure(t) /\ ~WorkerFails(t) /\ ~JobTimesOut(t))
  <2>1. own'[t] = own[t]
    BY <1>2 DEF Submitter, Failure, FindActive, Admit, Refuse, CountRows, CompareCounts, ListRows,
       ClearSlots, RestoreSlots, CreateRow, Refind, Publish, MarkFailed, FreeSlot, GuardFails,
       ReconcileFails, CreateFails, EnqueueFails, MarkLost, FreeFails, SubmitterDies, rowVars
  <2>2. pc[t] \notin {"dead", "lost"}
    BY <1>2 DEF Submitter, Failure, FindActive, Admit, Refuse, CountRows, CompareCounts, ListRows,
       ClearSlots, RestoreSlots, CreateRow, Refind, Publish, MarkFailed, FreeSlot, GuardFails,
       ReconcileFails, CreateFails, EnqueueFails, MarkLost, FreeFails, SubmitterDies,
       ReconcilePc, FreePc, EndPc
  <2>3. job'[t] = job[t] \/ job[t] = "absent"
    BY <1>2 DEF Submitter, Failure, FindActive, Admit, Refuse, CountRows, CompareCounts, ListRows,
       ClearSlots, RestoreSlots, CreateRow, Refind, Publish, MarkFailed, FreeSlot, GuardFails,
       ReconcileFails, CreateFails, EnqueueFails, MarkLost, FreeFails, SubmitterDies,
       brokerVars, NothingPublishedYet
  <2> QED BY <1>1, <2>1, <2>2, <2>3 DEF Leaked
<1>3. CASE Worker(t) \/ WorkerFails(t) \/ JobTimesOut(t)
  <2>1. pc' = pc
    BY <1>3, DeliveriesApart
  <2>2. job[t] # "dropped"
    BY <1>3 DEF Worker, Deliver, LoadRow, TouchSlot, BeginRun, Work, ReleaseSlot, FinishRun,
       SelectVictims, PurgeVictims, WorkerFails, JobTimesOut, JobMatchesWorker
  <2>3. ~own[t] => ~own'[t]
    BY <1>3 DEF Worker, Deliver, LoadRow, TouchSlot, BeginRun, Work, ReleaseSlot, FinishRun,
       SelectVictims, PurgeVictims, WorkerFails, JobTimesOut, rowVars
  <2> QED BY <1>1, <2>1, <2>2, <2>3 DEF Leaked
<1> QED BY <1>2, <1>3 DEF Failure

\* A slot that a step adds or leaves to its own task is held, or is explained.
LEMMA ActorsSlot ==
  ASSUME IndInv, SlotInv, [Next]_vars, "redis_error" \notin FaultKinds, NEW t \in Tasks,
         Submitter(t) \/ Worker(t) \/ Failure(t), t \in inflight'
  PROVE  Holds(t)' \/ Leaked(t)'
<1> USE DEF IndInv, TypeOK
<1>1. t \in inflight => Holds(t) \/ Leaked(t)
  BY DEF SlotInv, SlotsHeld
<1>2. CASE FindActive(t) \/ Admit(t) \/ Refuse(t)
  <2>1. CASE Admit(t)
    BY <2>1 DEF Admit, GoTo, Holds
  <2>2. CASE FindActive(t) \/ Refuse(t)
    <3>1. t \in inflight /\ ~Holds(t) /\ pc[t] # "create"
      BY <2>2 DEF FindActive, Refuse, Holds, NothingPublishedYet, JobMatchesWorker, FreePc
    <3> QED BY <3>1, <1>1, <2>2, LeakStays DEF Submitter, SlotInv
  <2> QED BY <1>2, <2>1, <2>2
<1>3. CASE CountRows(t) \/ CompareCounts(t) \/ ListRows(t) \/ ClearSlots(t) \/ RestoreSlots(t)
  <2>1. ~Holds(t) /\ pc[t] # "create"
    BY <1>3 DEF CountRows, CompareCounts, ListRows, ClearSlots, RestoreSlots, Holds,
       NothingPublishedYet, JobMatchesWorker, FreePc, ReconcilePc
  <2>2. t \in inflight => Leaked(t)'
    BY <2>1, <1>1, <1>3, LeakStays DEF Submitter, SlotInv
  <2>3. t \in inflight \/ t \in view'[t].ids
    BY <1>3 DEF CountRows, CompareCounts, ListRows, ClearSlots, RestoreSlots
  <2> QED BY <2>2, <2>3 DEF Leaked
<1>4. CASE CreateRow(t) \/ Refind(t) \/ MarkFailed(t) \/ CreateFails(t) \/ MarkLost(t)
  BY <1>4 DEF CreateRow, Refind, MarkFailed, CreateFails, MarkLost, GoTo, Holds, FreePc
<1>5. CASE Publish(t) \/ EnqueueFails(t)
  BY <1>5 DEF Publish, EnqueueFails, GoTo, Holds
<1>6. CASE FreeSlot(t)
  BY <1>6 DEF FreeSlot
<1>7. CASE GuardFails(t) \/ ReconcileFails(t) \/ FreeFails(t)
  BY <1>7 DEF GuardFails, ReconcileFails, FreeFails, Fault
<1>8. CASE SubmitterDies(t)
  BY <1>8 DEF SubmitterDies, GoTo, Leaked
<1>9. CASE WorkerFails(t) \/ JobTimesOut(t)
  BY <1>9 DEF WorkerFails, JobTimesOut, Retry, Holds, Leaked
<1>10. CASE Worker(t)
  <2>1. t \in inflight \/ TouchSlot(t)
    BY <1>10 DEF Worker, Deliver, LoadRow, TouchSlot, BeginRun, Work, ReleaseSlot, FinishRun,
       SelectVictims, PurgeVictims
  <2>2. pc' = pc
    BY <1>10, DeliveriesApart
  <2>3. CASE pc[t] \in {"create", "refind", "enqueue", "mark"} \cup FreePc
    BY <2>2, <2>3 DEF Holds
  <2>4. CASE Leaked(t) /\ pc[t] # "create"
    BY <2>4, <1>10, LeakStays DEF SlotInv
  <2>5. CASE Deliver(t)
    BY <2>5 DEF Deliver, Step, Holds, Leaked
  <2>6. CASE LoadRow(t) \/ TouchSlot(t) \/ Work(t)
    BY <2>6 DEF LoadRow, TouchSlot, Work, Step, Holds
  <2>7. CASE BeginRun(t) \/ FinishRun(t)
    <3>1. wpc'[t] \in {"work", "select"} \/ job'[t] = "queued"
      BY <2>7 DEF BeginRun, FinishRun, Step, Retry
    <3>2. wpc[t] \in {"begin", "finish"} /\ job[t] = "running"
      BY <2>7 DEF BeginRun, FinishRun, JobMatchesWorker
    <3>3. wpc[t] = "begin" => wpc'[t] = "work" \/ job'[t] = "queued"
      BY <2>7 DEF BeginRun, FinishRun, Step, Retry
    <3> QED BY <3>1, <3>2, <3>3, <2>1, <2>3, <2>4, <2>6, <1>1 DEF Holds
  <2>8. CASE ReleaseSlot(t)
    BY <2>8 DEF ReleaseSlot, SlotInv, HeavyOnly, Leaked, rowVars
  <2>9. CASE SelectVictims(t) \/ PurgeVictims(t)
    <3>1. wpc[t] \in {"select", "purge"} /\ job[t] = "running" /\ t \in inflight
      BY <2>9 DEF SelectVictims, PurgeVictims, JobMatchesWorker
    <3> QED BY <3>1, <2>3, <2>4, <1>1 DEF Holds
  <2> QED BY <1>10, <2>5, <2>6, <2>7, <2>8, <2>9 DEF Worker
<1> QED BY <1>2, <1>3, <1>4, <1>5, <1>6, <1>7, <1>8, <1>9, <1>10 DEF Submitter, Failure

\* Every slot is held or explained after every step.
LEMMA SlotsHeldStep == IndInv /\ SlotInv /\ [Next]_vars => SlotsHeld'
<1> SUFFICES ASSUME IndInv, SlotInv, [Next]_vars, "redis_error" \notin FaultKinds,
                    NEW u \in inflight'
             PROVE  Holds(u)' \/ Leaked(u)'
  BY DEF SlotsHeld
<1>1. ASSUME NEW t \in Tasks, Submitter(t) \/ Worker(t) \/ Failure(t)
      PROVE  Holds(u)' \/ Leaked(u)'
  <2>1. CASE u = t
    BY <2>1, <1>1, ActorsSlot
  <2>2. CASE u # t
    <3>1. ApartFrom(t)
      BY <1>1, CallsApart, DeliveriesApart DEF Failure, IndInv
    <3>2. u \in Tasks /\ (u \in inflight \/ u \in view[t].ids)
      BY <3>1, <2>2 DEF ApartFrom, IndInv, TypeOK
    <3>3. \A v \in Tasks : view[v].ids \subseteq view'[v].ids
      BY ViewsGrow DEF IndInv, SlotInv
    <3>4. CASE \E v \in Tasks : u \in view[v].ids
      BY <3>3, <3>4 DEF Leaked
    <3>5. CASE u \in inflight
      BY <3>5, <3>4, <3>2, <3>1, <2>2 DEF SlotInv, SlotsHeld, ApartFrom, Holds, Leaked
    <3> QED BY <3>2, <3>4, <3>5
  <2> QED BY <2>1, <2>2
<1>2. CASE AllQuiet \/ UNCHANGED vars
  BY <1>2 DEF AllQuiet, vars, rowVars, submitVars, brokerVars, workerVars, SlotInv, SlotsHeld,
     Holds, Leaked
<1> QED BY <1>1, <1>2 DEF Next

\* A step takes a slot of a handler only where the properties name it.
LEMMA HandlersHoldStep == IndInv /\ SlotInv /\ [Next]_vars => HandlersHold'
<1> SUFFICES ASSUME IndInv, SlotInv, [Next]_vars, NEW u \in Tasks,
                    wpc'[u] \in {"begin", "work"}, own'[u], Heavy(u), u \notin inflight',
                    ~Disowned(u)', \A v \in Tasks : ~view'[v].listed
             PROVE  wpc'[u] = "begin" /\ seen'[u] = "none"
  BY DEF HandlersHold, Disowned
<1> USE DEF IndInv, TypeOK
<1>1. ~Disowned(u) /\ \A v \in Tasks : ~view[v].listed
  BY DisownedStays, ViewsGrow DEF SlotInv
<1>2. wpc[u] \in {"begin", "work"} /\ own[u] /\ u \notin inflight
         => wpc[u] = "begin" /\ seen[u] = "none"
  BY <1>1 DEF SlotInv, HandlersHold
<1>3. ASSUME NEW t \in Tasks, Submitter(t) \/ (Failure(t) /\ ~WorkerFails(t) /\ ~JobTimesOut(t))
      PROVE  wpc'[u] = "begin" /\ seen'[u] = "none"
  <2>1. ApartFrom(t) /\ UNCHANGED <<wpc, seen>>
    BY <1>3, CallsApart
  <2>2. job[u] = "running"
    BY <2>1 DEF JobMatchesWorker
  <2>3. own[u]
    BY <1>3, <2>1, <2>2
       DEF Submitter, Failure, FindActive, Admit, Refuse, CountRows, CompareCounts, ListRows,
       ClearSlots, RestoreSlots, CreateRow, Refind, Publish, MarkFailed, FreeSlot, GuardFails,
       ReconcileFails, CreateFails, EnqueueFails, MarkLost, FreeFails, SubmitterDies, rowVars,
       NothingPublishedYet
  <2>4. CASE u # t
    <3>1. pc[t] # "clear"
      BY <1>1 DEF SlotInv, ListedOnce
    <3> QED BY <3>1, <2>4, <2>3, <2>1, <1>2 DEF ApartFrom
  <2>5. CASE u = t
    <3>1. ~ClearSlots(t)
      BY <1>1 DEF ClearSlots, SlotInv, ListedOnce
    <3>2. ~FreeSlot(t)
      BY <1>1, <2>2, <2>5 DEF FreeSlot, FreePc, Disowned, SlotInv, JoinersPublishNothing
    <3>3. inflight \subseteq inflight'
      BY <1>3, <3>1, <3>2 DEF Submitter, Failure, FindActive, Admit, Refuse, CountRows,
       CompareCounts, ListRows, RestoreSlots, CreateRow, Refind, Publish, MarkFailed, GuardFails,
       ReconcileFails, CreateFails, EnqueueFails, MarkLost, FreeFails, SubmitterDies
    <3> QED BY <3>3, <2>3, <2>1, <1>2
  <2> QED BY <2>4, <2>5
<1>4. ASSUME NEW t \in Tasks, Worker(t) \/ WorkerFails(t) \/ JobTimesOut(t)
      PROVE  wpc'[u] = "begin" /\ seen'[u] = "none"
  <2>1. ApartFrom(t)
    BY <1>4, DeliveriesApart
  <2>2. CASE u # t
    <3>1. pc[t] # "clear"
      BY <1>1 DEF SlotInv, ListedOnce
    <3> QED BY <3>1, <2>2, <2>1, <1>2 DEF ApartFrom
  <2>3. CASE u = t
    <3>1. TouchSlot(t) \/ BeginRun(t)
      BY <1>4, <2>3 DEF Worker, Deliver, LoadRow, Work, ReleaseSlot, FinishRun,
         SelectVictims, PurgeVictims, WorkerFails, JobTimesOut, Step, Retry, JobMatchesWorker
    <3>2. CASE TouchSlot(t)
      BY <3>2, <2>3 DEF TouchSlot, Step, rowVars
    <3>3. CASE BeginRun(t)
      BY <3>3, <2>3, <1>2 DEF BeginRun, Step, Retry, rowVars
    <3> QED BY <3>1, <3>2, <3>3
  <2> QED BY <2>2, <2>3
<1>5. CASE AllQuiet \/ UNCHANGED vars
  BY <1>5, <1>2 DEF AllQuiet, vars, rowVars, submitVars, workerVars
<1> QED BY <1>3, <1>4, <1>5 DEF Next, Failure

\* It holds at the start, and it implies what is to be shown.
LEMMA InitSlotInv == Init => SlotInv
  BY DEF Init, SlotInv, ListedOnce, HeavyOnly, JoinersPublishNothing, SlotsHeld, HandlersHold,
     ReconcilePc

\* What is held is not over, so what is over is explained.
LEMMA SlotInvExplains == IndInv /\ SlotInv => SlotsExplained
<1> SUFFICES ASSUME IndInv, SlotInv PROVE SlotLeakExplained /\ WorkerHoldsSlot
  BY DEF SlotsExplained
<1>1. SlotLeakExplained
  BY DEF SlotInv, SlotsHeld, Holds, Leaked, SlotLeakExplained, IndInv, TypeOK, JobMatchesWorker,
     Live, EndPc, FreePc
<1>2. WorkerHoldsSlot
  BY DEF SlotInv, HandlersHold, WorkerHoldsSlot
<1> QED BY <1>1, <1>2

\* The in-flight set and the jobs agree, both ways: a slot of a job that is over
\* belongs to a call that was cut off, to a job that the broker gave up, to a row
\* that was made anew, or to a row that a reconciliation had listed; and a heavy
\* handler works without its slot only after a reconciliation, or after its own
\* call gave the slot back (task_queue.py, the release paths of submit_job_async
\* and of the handlers).
THEOREM SlotsAreExplained == Spec => []SlotsExplained
<1>1. IndInv /\ SlotInv /\ [Next]_vars => SlotInv'
  BY ListedOnceStep, HeavyOnlyStep, JoinersPublishNothingStep, SlotsHeldStep, HandlersHoldStep
     DEF SlotInv, IndInv
<1> QED BY <1>1, IndInvHolds, InitSlotInv, SlotInvExplains, PTL DEF Spec
=============================================================================

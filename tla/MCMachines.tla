------------------------------ MODULE MCMachines ------------------------------
(* The machinery that has to come to an end, checked side by side: part     *)
(* says which component a behaviour is of, and the variables of the others  *)
(* stay at one of their initial values.  ProjectLock has three operations,  *)
(* two of them writers, on a pool of two connections; MultipartUpload two   *)
(* workers and five chunks of which four are read at once; Runtimes three   *)
(* calls of one kind, two permits, one worker, and the cleanup of a worker. *)
EXTENDS ProjectLock, ScanPipeline, MultipartUpload, Runtimes

CONSTANTS o1, o2, o3, c1, c2, p1, p2, p3, w1, w2, k1, k2, k3

VARIABLE part
machineVars == <<part, vars, pipelineVars, uploadVars, runtimeVars>>

-----------------------------------------------------------------------------
\* scan_project_async with a failing producer, and the stages, whose producer
\* does not fail, with failing workers.
CheckedPipelines == {[gathers |-> TRUE, mayFail |-> {Producer}],
                     [gathers |-> FALSE, mayFail |-> Consumers]}

ASSUME PartsAssumption == PipelineAssumption /\ UploadAssumption /\ RuntimesAssumption

-----------------------------------------------------------------------------
MachinesInit ==
  /\ part \in {"lock", "scan", "upload", "pools"}
  /\ Init /\ (part # "lock" => idle = <<c1, c2>>)
  /\ PipelineInit /\ (part # "scan" => Gathers)
  /\ UploadInit
  /\ RuntimesInit /\ (part # "pools" => calls[k1].kind = "fs" /\ current["fs"] = 0)

InLock == part = "lock" /\ UNCHANGED <<part, pipelineVars, uploadVars, runtimeVars>>
InScan == part = "scan" /\ UNCHANGED <<part, vars, uploadVars, runtimeVars>>
InUpload == part = "upload" /\ UNCHANGED <<part, vars, pipelineVars, runtimeVars>>
InPools == part = "pools" /\ UNCHANGED <<part, vars, pipelineVars, uploadVars>>

MachinesNext ==
  \/ InLock /\ Next
  \/ InScan /\ PipelineNext
  \/ InUpload /\ UploadNext
  \/ InPools /\ RuntimesNext

(* The fairness of each part, as its module states it.                      *)
MachinesFairness ==
  /\ \A o \in Ops : WF_machineVars(InLock /\ Step(o))
  /\ WF_machineVars(InScan /\ PipelineProgress)
  /\ WF_machineVars(InUpload /\ Caller)
  /\ \A w \in Workers : /\ WF_machineVars(InUpload /\ Take(w))
                        /\ WF_machineVars(InUpload /\ UploadPart(w))
  /\ WF_machineVars(InPools /\ Cleanup)
  /\ \A c \in Calls :
       /\ WF_machineVars(InPools /\ CallStep(c))
       /\ WF_machineVars(InPools /\ (JobStart(c) \/ JobEnd(c)))

MachinesSpec == MachinesInit /\ [][MachinesNext]_machineVars /\ MachinesFairness

-----------------------------------------------------------------------------
(* Every part keeps its types, the bounded queues their bounds.             *)
MachinesTypeOK == TypeOK /\ PipelineTypeOK /\ UploadTypeOK /\ RuntimesTypeOK

Over ==
  CASE part = "lock"   -> \A o \in Ops : pc[o] \in Ended
    [] part = "scan"   -> caller \in {"returned", "raised"}
    [] part = "upload" -> phase \in CallEnded
    [] part = "pools"  -> /\ \A c \in Calls : calls[c].at = "ended"
                          /\ cleaning \in {0, CleanupOver}

(* Everything comes to its end and stays there: operations under the lock   *)
(* (utils.py:112), pipelines (scan.py:1230), uploads (snapshots.py:432),    *)
(* pooled calls and a cleanup that has begun (cpu_runtime.py:139).          *)
MachinesEnd == <>[]Over
=============================================================================

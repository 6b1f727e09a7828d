---------------------------- MODULE ScanPipeline ----------------------------
(***************************************************************************)
(* A producer and its consumers around a bounded queue, as the scan runs   *)
(* them three times: scan_project_async gathers the tasks, and its producer *)
(* puts the sentinels in a finally; _process_batches_bounded_async and the  *)
(* stages of _verify_scan_snapshot_async wait for the workers, and their    *)
(* producer puts the sentinels last.                                       *)
(***************************************************************************)
EXTENDS Naturals, Sequences, FiniteSets

CONSTANTS Consumers,
          Producer,
          Batches,      \* number of batches the producer finds
          Pipelines,    \* the pipelines checked: [gathers, mayFail]
          MaxCancels    \* bound: cancellations of the calling task

\* what the constants have to be; assumed by MCMachines
PipelineAssumption ==
    /\ IsFiniteSet(Consumers) /\ Consumers # {} /\ Producer \notin Consumers
    /\ Batches \in Nat /\ MaxCancels \in Nat
    /\ Pipelines \subseteq
           [gathers : BOOLEAN, mayFail : SUBSET (Consumers \cup {Producer})]

VARIABLES pipeline, \* gathers: TRUE for scan_project_async; mayFail: who may raise
          caller,   \* step of the calling task
          ppc,      \* step of the producer
          found,    \* batches the producer has found
          queue,    \* Stop is the sentinel
          stops,    \* sentinels put
          cpc,      \* step of a consumer
          batch,    \* what a consumer is working on
          merged,   \* batches whose results are in
          doomed,   \* tasks with a cancellation that has not struck yet
          crashed,   \* tasks that ended with an exception
          struck,   \* the caller has an exception to raise
          cancels

pipelineVars == <<pipeline, caller, ppc, found, queue, stops, cpc, batch, merged, doomed, crashed,
          struck, cancels>>

Stop == 0
Capacity == Cardinality(Consumers)
Tasks == Consumers \cup {Producer}
Gathers == pipeline.gathers
MayFail == pipeline.mayFail

PipelineTypeOK ==
    /\ pipeline \in Pipelines
    /\ caller \in {"wait", "drain", "returned", "raised"}
    /\ ppc \in {"new", "find", "put", "stop", "done"}
    /\ found \in 0..Batches
    /\ queue \in Seq(0..Batches) /\ Len(queue) <= Capacity
    /\ stops \in 0..Capacity
    /\ cpc \in [Consumers -> {"get", "work", "done"}]
    /\ batch \in [Consumers -> 0..Batches]
    /\ merged \subseteq 1..Batches
    /\ doomed \subseteq Tasks /\ crashed \subseteq Tasks
    /\ struck \in BOOLEAN
    /\ cancels \in 0..MaxCancels

PipelineInit ==
    /\ pipeline \in Pipelines
    /\ caller = "wait"
    /\ ppc = "new" /\ found = 0
    /\ queue = <<>> /\ stops = 0
    /\ cpc = [c \in Consumers |-> "get"]
    /\ batch = [c \in Consumers |-> 0]
    /\ merged = {}
    /\ doomed = {} /\ crashed = {}
    /\ struck = FALSE
    /\ cancels = 0

Live == {c \in Consumers : cpc[c] # "done"} \cup (IF ppc = "done" THEN {} ELSE {Producer})

-----------------------------------------------------------------------------
(* The producer.                                                           *)

callerVars == <<pipeline, caller, struck, cancels>>
consumerVars == <<cpc, batch, merged>>

Begin ==
    /\ ppc = "new" /\ Producer \notin doomed
    /\ ppc' = "find"
    /\ UNCHANGED <<found, queue, stops, consumerVars, doomed, crashed, callerVars>>

\* The next batch of paths from the disk; a failure goes through the finally.
Find ==
    /\ ppc = "find" /\ Producer \notin doomed
    /\ \/ /\ found < Batches
          /\ found' = found + 1
          /\ ppc' = "put"
          /\ UNCHANGED crashed
       \/ /\ found = Batches
          /\ ppc' = "stop"
          /\ UNCHANGED <<found, crashed>>
       \/ /\ Producer \in MayFail
          /\ crashed' = crashed \cup {Producer}
          /\ ppc' = "stop"
          /\ UNCHANGED found
    /\ UNCHANGED <<queue, stops, consumerVars, doomed, callerVars>>

PutBatch ==
    /\ ppc = "put" /\ Producer \notin doomed
    /\ Len(queue) < Capacity
    /\ queue' = Append(queue, found)
    /\ ppc' = "find"
    /\ UNCHANGED <<found, stops, consumerVars, doomed, crashed, callerVars>>

\* One sentinel for each consumer.
PutSentinel ==
    /\ ppc = "stop" /\ Producer \notin doomed
    /\ Len(queue) < Capacity
    /\ queue' = Append(queue, Stop)
    /\ stops' = stops + 1
    /\ ppc' = IF stops' = Capacity THEN "done" ELSE "stop"
    /\ UNCHANGED <<found, consumerVars, doomed, crashed, callerVars>>

\* A cancellation strikes: before the first step nothing of the producer runs;
\* in scan_project_async a first one leads to the sentinels, and only a further
\* one, at a sentinel, ends the producer.
InterruptProducer ==
    /\ Producer \in doomed
    /\ doomed' = doomed \ {Producer}
    /\ crashed' = crashed \cup {Producer}
    /\ ppc' = IF Gathers /\ ppc \in {"find", "put"} THEN "stop" ELSE "done"
    /\ UNCHANGED <<found, queue, stops, consumerVars, callerVars>>

producerVars == <<ppc, found, stops>>

-----------------------------------------------------------------------------
(* A consumer.                                                             *)

Get(c) ==
    /\ cpc[c] = "get" /\ c \notin doomed
    /\ queue # <<>>
    /\ queue' = Tail(queue)
    /\ batch' = [batch EXCEPT ![c] = Head(queue)]
    /\ cpc' = [cpc EXCEPT ![c] = IF Head(queue) = Stop THEN "done" ELSE "work"]
    /\ UNCHANGED <<producerVars, merged, doomed, crashed, callerVars>>

\* The batch is processed and its results are merged under candidate_lock.
Work(c) ==
    /\ cpc[c] = "work" /\ c \notin doomed
    /\ merged' = merged \cup {batch[c]}
    /\ cpc' = [cpc EXCEPT ![c] = "get"]
    /\ UNCHANGED <<producerVars, queue, batch, doomed, crashed, callerVars>>

\* Mutant: the failure of a batch is swallowed.
WorkSwallows(c) ==
    /\ c \in MayFail
    /\ cpc[c] = "work" /\ c \notin doomed
    /\ cpc' = [cpc EXCEPT ![c] = "get"]
    /\ UNCHANGED <<producerVars, queue, batch, merged, doomed, crashed, callerVars>>

WorkFails(c) ==
    /\ c \in MayFail
    /\ cpc[c] = "work" /\ c \notin doomed
    /\ cpc' = [cpc EXCEPT ![c] = "done"]
    /\ crashed' = crashed \cup {c}
    /\ UNCHANGED <<producerVars, queue, batch, merged, doomed, callerVars>>

InterruptConsumer(c) ==
    /\ c \in doomed
    /\ doomed' = doomed \ {c}
    /\ cpc' = [cpc EXCEPT ![c] = "done"]
    /\ crashed' = crashed \cup {c}
    /\ UNCHANGED <<producerVars, queue, batch, merged, callerVars>>

-----------------------------------------------------------------------------
(* The calling task.                                                       *)

\* gather ends with the first exception or with the last task; asyncio.wait
\* and the task group notice the workers, whose producer cannot fail.
Ready == crashed # {} \/ Live = {} \/ (~Gathers /\ struck)

\* The caller goes on and, when there is anything to clean up, cancels the tasks.
\* The event loop is first in, first out: a cancellation passed on to the tasks
\* strikes them before the end of one of them wakes the caller.
Wake ==
    /\ caller = "wait" /\ Ready /\ doomed = {}
    /\ caller' = "drain"
    /\ struck' = (struck \/ crashed # {})
    /\ doomed' = doomed \cup Live
    /\ UNCHANGED <<pipeline, producerVars, queue, consumerVars, crashed, cancels>>

\* The last gather waits for all of them, with their exceptions.
Drained ==
    /\ caller = "drain" /\ Live = {}
    /\ caller' = IF struck THEN "raised" ELSE "returned"
    /\ UNCHANGED <<pipeline, producerVars, queue, consumerVars, doomed, crashed, struck, cancels>>

\* The caller is cancelled: a gather passes it on to its tasks, unless the end
\* of one has just ended it; asyncio.wait and the task group wake the caller,
\* and a task group that is shutting down takes no further notice.
CancelPipeline ==
    /\ caller \in {"wait", "drain"}
    /\ cancels < MaxCancels /\ cancels' = cancels + 1
    /\ struck' = TRUE
    /\ \/ (caller = "drain" \/ Gathers) /\ doomed' = doomed \cup Live
       \/ (~Gathers \/ (caller = "wait" /\ Ready)) /\ UNCHANGED doomed
    /\ UNCHANGED <<pipeline, caller, producerVars, queue, consumerVars, crashed>>

PipelineProgress ==
    \/ Begin \/ Find \/ PutBatch \/ PutSentinel \/ InterruptProducer
    \/ \E c \in Consumers : Get(c) \/ Work(c) \/ WorkFails(c) \/ InterruptConsumer(c)
    \/ Wake \/ Drained

\* The pipeline is over when the caller has returned or raised.
PipelineNext == PipelineProgress \/ CancelPipeline

PipelineSpec == PipelineInit /\ [][PipelineNext]_pipelineVars

\* The event loop runs every task that can go on.
PipelineFairSpec == PipelineSpec /\ WF_pipelineVars(PipelineProgress)

-----------------------------------------------------------------------------
(* Properties.                                                             *)

\* A scan that goes on to the index has seen every batch: a path it has not
\* seen is going to be deleted from the index.
AllBatchesSeen == caller = "returned" => merged = 1..Batches

\* Whatever ended it, by failure or cancellation, no task of the pipeline is
\* left behind to read files under the next scan.
NothingRunsOn == caller \in {"returned", "raised"} => Live = {}

\* What a scan that has ended has done, and what it leaves running
\* (scan.py:1263-1268).
ScanSettled == AllBatchesSeen /\ NothingRunsOn

\* The pipeline ends: no put into the full queue, and no get from the empty one,
\* waits for ever.  (Claimed for every pipeline at src/backend/README.md:55.)
PipelineEnds == <>(caller \in {"returned", "raised"})
=============================================================================

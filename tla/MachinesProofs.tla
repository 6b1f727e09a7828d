---------------------------- MODULE MachinesProofs ----------------------------
(***************************************************************************)
(* ScanPipeline: for any number of consumers, batches and cancellations a  *)
(* scan that returns has merged every batch, and nothing of it runs on     *)
(* once it has returned or raised.  The queue is first in, first out, and  *)
(* the sentinels are the last in it: a consumer that ends of its own has   *)
(* seen the batches gone, so that, where nothing has crashed, each batch   *)
(* found is merged, in the queue, or in the hands of a task.               *)
(* MultipartUpload and Runtimes follow, each with its invariant, and last  *)
(* what holds of the four machines side by side.                           *)
(***************************************************************************)
EXTENDS MCMachines, ProjectLockProofs

-----------------------------------------------------------------------------
(* ScanPipeline.                                                           *)

Searching == {"new", "find", "put"}
Slots == 1..Len(queue)

PipeTypes ==
  /\ PipelineTypeOK
  /\ ppc \in Searching => stops = 0
  /\ ppc = "stop" => stops < Capacity
  /\ ppc = "put" => found # 0
  /\ \A c \in Consumers : cpc[c] = "work" => batch[c] # Stop

\* no sentinel before the producer has come to them, and none before a batch
SentinelsLast ==
  /\ ppc \in Searching => \A i \in Slots : queue[i] # Stop
  /\ \A i, j \in Slots : i < j /\ queue[i] = Stop => queue[j] = Stop
\* who has read a sentinel leaves no batch in the queue
EndedInOrder ==
  (\E c \in Consumers \ crashed : cpc[c] = "done")
    => ppc \notin Searching /\ \A i \in Slots : queue[i] = Stop
\* where each batch found is
InHand(b) == \E c \in Consumers : cpc[c] = "work" /\ batch[c] = b
Accounted ==
  crashed = {} =>
    /\ ppc \notin Searching => found = Batches
    /\ \A b \in 1..found : \/ b \in merged \/ InHand(b) \/ (ppc = "put" /\ b = found)
                           \/ \E i \in Slots : queue[i] = b
\* the caller cleans up nothing only where there is nothing
NothingToClean == caller # "wait" /\ ~struck => crashed = {} /\ doomed = {} /\ Live = {}
Ending == caller \in {"returned", "raised"} => Live = {} /\ (caller = "returned" => ~struck)

PipeInv ==
  PipeTypes /\ SentinelsLast /\ EndedInOrder /\ Accounted /\ NothingToClean /\ Ending

\* a sequence that grows by one, and one that loses its first
LEMMA Grown ==
  ASSUME NEW S, NEW s \in Seq(S), NEW x \in S
  PROVE  /\ Append(s, x) \in Seq(S) /\ Len(Append(s, x)) = Len(s) + 1
         /\ \A i \in 1..Len(s) : Append(s, x)[i] = s[i]
         /\ Append(s, x)[Len(s) + 1] = x
OBVIOUS
LEMMA Shrunk ==
  ASSUME NEW S, NEW s \in Seq(S), s # <<>>
  PROVE  /\ Tail(s) \in Seq(S) /\ Len(s) \in Nat \ {0} /\ Len(Tail(s)) = Len(s) - 1
         /\ Head(s) \in S /\ Head(s) = s[1]
         /\ \A i \in 1..Len(s) - 1 : Tail(s)[i] = s[i + 1]
OBVIOUS

\* the queue has room for a sentinel of each consumer, of which there are some
LEMMA CapacityIsPositive == PipelineAssumption => Capacity \in Nat \ {0}
BY FS_CardinalityType, FS_EmptySet DEF PipelineAssumption, Capacity

\* A pipeline that has not begun.
LEMMA PipeInitEstablishes == PipelineAssumption /\ PipelineInit => PipeInv
<1> SUFFICES ASSUME PipelineAssumption, PipelineInit PROVE PipeInv OBVIOUS
<1>0. Capacity \in Nat \ {0} BY CapacityIsPositive
<1>1. PipeTypes
  <2>1. queue \in Seq(0..Batches) /\ Len(queue) = 0 /\ stops = 0 BY DEF PipelineInit
  <2>c. cpc = [c \in Consumers |-> "get"] /\ batch = [c \in Consumers |-> 0] BY DEF PipelineInit
  <2>b. 0 \in 0..Batches BY DEF PipelineAssumption
  <2>2. /\ cpc \in [Consumers -> {"get", "work", "done"}] /\ batch \in [Consumers -> 0..Batches]
        /\ \A c \in Consumers : cpc[c] # "work"
    BY <2>c, <2>b
  <2>3. Len(queue) <= Capacity /\ stops \in 0..Capacity BY <1>0, <2>1
  <2>n. found \in 0..Batches /\ cancels \in 0..MaxCancels BY DEF PipelineInit, PipelineAssumption
  <2>s. /\ pipeline \in Pipelines /\ caller = "wait" /\ ppc = "new" /\ struck = FALSE
        /\ merged = {} /\ doomed = {} /\ crashed = {}
    BY DEF PipelineInit
  <2>4. PipelineTypeOK BY <2>1, <2>2, <2>3, <2>n, <2>s DEF PipelineTypeOK
  <2> QED BY <2>2, <2>4 DEF PipeTypes, Searching, PipelineInit
<1>2. SentinelsLast /\ EndedInOrder
  BY DEF SentinelsLast, EndedInOrder, Slots, Searching, PipelineInit
<1>3. Accounted BY DEF Accounted, Searching, PipelineInit
<1>4. NothingToClean /\ Ending BY DEF NothingToClean, Ending, PipelineInit
<1> QED BY <1>1, <1>2, <1>3, <1>4 DEF PipeInv

\* What a step that ends no task leaves to show: nobody is added to those that
\* have ended, and who cleans up nothing is not there.
LEMMA LiveStays ==
  ASSUME NothingToClean, Ending, Live # {}, UNCHANGED <<caller, struck, pipeline>>
  PROVE  (NothingToClean /\ Ending)'
BY DEF NothingToClean, Ending

\* The producer begins.
LEMMA BeginKeeps == PipelineAssumption /\ PipeInv /\ Begin => PipeInv'
<1> SUFFICES ASSUME PipelineAssumption, PipeInv, Begin PROVE PipeInv' OBVIOUS
<1> USE DEF PipelineAssumption, PipeInv, Begin, consumerVars, callerVars
<1>1. PipeTypes' BY DEF PipeTypes, PipelineTypeOK, Searching
<1>2. SentinelsLast' BY DEF SentinelsLast, Slots, Searching
<1>3. EndedInOrder' BY DEF EndedInOrder, Slots, Searching
<1>4. Accounted' BY DEF Accounted, InHand, Slots, Searching
<1>5. (NothingToClean /\ Ending)' BY LiveStays DEF Live
<1> QED BY <1>1, <1>2, <1>3, <1>4, <1>5

\* It finds a batch, or the last of them, or fails.
LEMMA FindKeeps == PipelineAssumption /\ PipeInv /\ Find => PipeInv'
<1> SUFFICES ASSUME PipelineAssumption, PipeInv, Find PROVE PipeInv' OBVIOUS
<1> USE DEF PipelineAssumption, PipeInv, Find, consumerVars, callerVars
<1>0. Capacity \in Nat \ {0} BY CapacityIsPositive
<1>1. PipeTypes' BY <1>0 DEF PipeTypes, PipelineTypeOK, Searching, Tasks
<1>2. SentinelsLast' BY DEF SentinelsLast, Slots, Searching
<1>3. EndedInOrder' BY DEF EndedInOrder, Slots, Searching
<1>4. Accounted'
  <2>1. CASE found < Batches /\ found' = found + 1 /\ ppc' = "put" /\ UNCHANGED crashed
    BY <2>1 DEF Accounted, InHand, Slots, Searching, PipeTypes, PipelineTypeOK
  <2>2. CASE found = Batches /\ ppc' = "stop" /\ UNCHANGED <<found, crashed>>
    BY <2>2 DEF Accounted, InHand, Slots, Searching
  <2>3. CASE crashed' = crashed \cup {Producer}
    BY <2>3 DEF Accounted
  <2> QED BY <2>1, <2>2, <2>3
<1>5. (NothingToClean /\ Ending)' BY LiveStays DEF Live
<1> QED BY <1>1, <1>2, <1>3, <1>4, <1>5

\* It puts the batch it has found.
LEMMA PutBatchKeeps == PipelineAssumption /\ PipeInv /\ PutBatch => PipeInv'
<1> SUFFICES ASSUME PipelineAssumption, PipeInv, PutBatch PROVE PipeInv' OBVIOUS
<1> USE DEF PipelineAssumption, PipeInv, PutBatch, consumerVars, callerVars
<1>0. Capacity \in Nat \ {0} BY CapacityIsPositive
<1>q. queue \in Seq(0..Batches) /\ found \in 0..Batches /\ found # Stop
  BY DEF PipeTypes, PipelineTypeOK, Stop
<1>g. /\ queue' \in Seq(0..Batches) /\ Len(queue') = Len(queue) + 1 /\ Len(queue) \in Nat
      /\ \A i \in 1..Len(queue) : queue'[i] = queue[i]
      /\ queue'[Len(queue) + 1] = found
  BY <1>q, Grown
<1>1. PipeTypes' BY <1>0, <1>g DEF PipeTypes, PipelineTypeOK, Searching
<1>2. SentinelsLast'
  <2>1. \A i \in 1..Len(queue) : queue[i] # Stop BY DEF SentinelsLast, Slots, Searching
  <2>2. \A i \in 1..Len(queue') : queue'[i] # Stop
    <3> SUFFICES ASSUME NEW i \in 1..Len(queue') PROVE queue'[i] # Stop OBVIOUS
    <3>1. i \in 1..Len(queue) \/ i = Len(queue) + 1 BY <1>g
    <3> QED BY <3>1, <2>1, <1>g, <1>q
  <2> QED BY <2>2 DEF SentinelsLast, Slots
<1>3. EndedInOrder' BY DEF EndedInOrder, Searching
<1>4. Accounted' BY <1>g, <1>q DEF Accounted, InHand, Slots, Searching
<1>5. (NothingToClean /\ Ending)' BY LiveStays DEF Live
<1> QED BY <1>1, <1>2, <1>3, <1>4, <1>5

\* It puts a sentinel, and with the last it is done.
LEMMA PutSentinelKeeps == PipelineAssumption /\ PipeInv /\ PutSentinel => PipeInv'
<1> SUFFICES ASSUME PipelineAssumption, PipeInv, PutSentinel PROVE PipeInv' OBVIOUS
<1> USE DEF PipelineAssumption, PipeInv, PutSentinel, consumerVars, callerVars
<1>0. Capacity \in Nat \ {0} BY CapacityIsPositive
<1>q. queue \in Seq(0..Batches) /\ Stop \in 0..Batches
  BY DEF PipeTypes, PipelineTypeOK, Stop
<1>g. /\ queue' \in Seq(0..Batches) /\ Len(queue') = Len(queue) + 1 /\ Len(queue) \in Nat
      /\ \A i \in 1..Len(queue) : queue'[i] = queue[i]
      /\ queue'[Len(queue) + 1] = Stop
  BY <1>q, Grown
<1>1. PipeTypes' BY <1>0, <1>g DEF PipeTypes, PipelineTypeOK, Searching
<1>2. SentinelsLast'
  <2>1. \A i, j \in 1..Len(queue) : i < j /\ queue[i] = Stop => queue[j] = Stop
    BY DEF SentinelsLast, Slots
  <2>2. ASSUME NEW i \in 1..Len(queue'), NEW j \in 1..Len(queue'), i < j, queue'[i] = Stop
        PROVE  queue'[j] = Stop
    <3>1. i \in 1..Len(queue) BY <1>g, <2>2
    <3>2. CASE j = Len(queue) + 1 BY <3>2, <1>g
    <3>3. CASE j \in 1..Len(queue) BY <3>1, <3>3, <1>g, <2>1, <2>2
    <3> QED BY <3>2, <3>3, <1>g
  <2> QED BY <2>2 DEF SentinelsLast, Slots, Searching
<1>3. EndedInOrder' BY <1>g DEF EndedInOrder, Slots, Searching
<1>4. Accounted' BY <1>g, <1>q DEF Accounted, InHand, Slots, Searching
<1>5. (NothingToClean /\ Ending)' BY LiveStays DEF Live
<1> QED BY <1>1, <1>2, <1>3, <1>4, <1>5

\* A cancellation strikes the producer.
LEMMA InterruptProducerKeeps == PipelineAssumption /\ PipeInv /\ InterruptProducer => PipeInv'
<1> SUFFICES ASSUME PipelineAssumption, PipeInv, InterruptProducer PROVE PipeInv' OBVIOUS
<1> USE DEF PipelineAssumption, PipeInv, InterruptProducer, consumerVars, callerVars
<1>0. Capacity \in Nat \ {0} BY CapacityIsPositive
<1>1. PipeTypes' BY <1>0 DEF PipeTypes, PipelineTypeOK, Searching, Tasks
<1>2. SentinelsLast' BY DEF SentinelsLast, Slots, Searching
<1>3. EndedInOrder' BY DEF EndedInOrder, Slots, Searching
<1>4. Accounted' BY DEF Accounted
<1>5. (NothingToClean /\ Ending)' BY DEF NothingToClean, Ending, Live
<1> QED BY <1>1, <1>2, <1>3, <1>4, <1>5

\* A consumer takes a batch, or the sentinel that ends it.
LEMMA GetKeeps ==
  ASSUME PipelineAssumption, PipeInv, NEW c \in Consumers, Get(c)
  PROVE  PipeInv'
<1> USE DEF PipelineAssumption, PipeInv, Get, producerVars, callerVars
<1>q. queue \in Seq(0..Batches) /\ queue # <<>>
  BY DEF PipeTypes, PipelineTypeOK
<1>g. /\ queue' \in Seq(0..Batches) /\ Len(queue) \in Nat \ {0} /\ Len(queue') = Len(queue) - 1
      /\ Head(queue) = queue[1] /\ Head(queue) \in 0..Batches
      /\ \A i \in 1..Len(queue) - 1 : queue'[i] = queue[i + 1]
  BY <1>q, Shrunk
<1>h. /\ cpc' = [cpc EXCEPT ![c] = IF queue[1] = Stop THEN "done" ELSE "work"]
      /\ batch' = [batch EXCEPT ![c] = queue[1]]
      /\ cpc \in [Consumers -> {"get", "work", "done"}]
      /\ batch \in [Consumers -> 0..Batches]
  BY <1>g DEF PipeTypes, PipelineTypeOK
<1>1. PipeTypes'
  <2>1. /\ cpc' \in [Consumers -> {"get", "work", "done"}]
        /\ batch' \in [Consumers -> 0..Batches]
        /\ \A d \in Consumers : cpc'[d] = "work" => batch'[d] # Stop
    BY <1>g, <1>h DEF PipeTypes
  <2>2. queue' \in Seq(0..Batches) /\ Len(queue') <= Capacity
    BY <1>g, CapacityIsPositive DEF PipeTypes, PipelineTypeOK
  <2> QED BY <2>1, <2>2 DEF PipeTypes, PipelineTypeOK, Searching
<1>2. SentinelsLast' BY <1>g DEF SentinelsLast, Slots, Searching
<1>3. EndedInOrder'
  <2>1. CASE queue[1] = Stop
    <3>1. \A i \in Slots : queue[i] = Stop BY <1>g, <2>1 DEF SentinelsLast, Slots
    <3>2. ppc \notin Searching BY <1>g, <2>1 DEF SentinelsLast, Slots
    <3> QED BY <3>1, <3>2, <1>g DEF EndedInOrder, Slots
  <2>2. CASE queue[1] # Stop
    <3>1. \A d \in Consumers : cpc'[d] = "done" => cpc[d] = "done" BY <1>h, <2>2
    <3> QED BY <3>1, <1>g DEF EndedInOrder, Slots
  <2> QED BY <2>1, <2>2
<1>4. Accounted'
  <2> SUFFICES ASSUME crashed = {}, NEW b \in 1..found
               PROVE  \/ b \in merged \/ InHand(b)' \/ (ppc = "put" /\ b = found)
                      \/ \E i \in 1..Len(queue') : queue'[i] = b
    BY DEF Accounted, Slots
  <2>f. found \in Nat BY DEF PipeTypes, PipelineTypeOK
  <2>1. CASE InHand(b)
    <3>1. PICK d \in Consumers : cpc[d] = "work" /\ batch[d] = b BY <2>1 DEF InHand
    <3>2. d # c BY <3>1
    <3>3. cpc'[d] = "work" /\ batch'[d] = b BY <3>1, <3>2, <1>h
    <3> QED BY <3>3 DEF InHand
  <2>2. CASE \E i \in Slots : queue[i] = b
    <3>1. PICK i \in 1..Len(queue) : queue[i] = b BY <2>2 DEF Slots
    <3>2. CASE i = 1
      <4>1. cpc'[c] = "work" /\ batch'[c] = b BY <3>1, <3>2, <1>h, <2>f DEF Stop
      <4> QED BY <4>1 DEF InHand
    <3>3. CASE i # 1
      <4>1. i - 1 \in 1..Len(queue') /\ queue'[i - 1] = b BY <3>1, <3>3, <1>g
      <4> QED BY <4>1
    <3> QED BY <3>2, <3>3
  <2> QED BY <2>1, <2>2 DEF Accounted
<1>5. (NothingToClean /\ Ending)' BY LiveStays DEF Live
<1> QED BY <1>1, <1>2, <1>3, <1>4, <1>5

\* A consumer merges the results of its batch.
LEMMA WorkKeeps ==
  ASSUME PipelineAssumption, PipeInv, NEW c \in Consumers, Work(c)
  PROVE  PipeInv'
<1> USE DEF PipelineAssumption, PipeInv, Work, producerVars, callerVars
<1>h. /\ cpc \in [Consumers -> {"get", "work", "done"}]
      /\ batch[c] \in 1..Batches
  BY DEF PipeTypes, PipelineTypeOK, Stop
<1>1. PipeTypes' BY <1>h DEF PipeTypes, PipelineTypeOK, Searching
<1>2. SentinelsLast' BY DEF SentinelsLast, Slots, Searching
<1>3. EndedInOrder' BY <1>h DEF EndedInOrder, Slots, Searching
<1>4. Accounted'
  <2> SUFFICES ASSUME NEW b, InHand(b)
               PROVE  b \in merged' \/ InHand(b)'
    BY DEF Accounted, Slots, Searching
  <2>1. PICK d \in Consumers : cpc[d] = "work" /\ batch[d] = b BY DEF InHand
  <2>2. CASE d = c BY <2>1, <2>2
  <2>3. CASE d # c BY <2>1, <2>3, <1>h DEF InHand
  <2> QED BY <2>2, <2>3
<1>5. (NothingToClean /\ Ending)' BY LiveStays DEF Live
<1> QED BY <1>1, <1>2, <1>3, <1>4, <1>5

\* A consumer that fails, or that a cancellation strikes, has crashed.
LEMMA CrashKeeps ==
  ASSUME PipelineAssumption, PipeInv, NEW c \in Consumers, WorkFails(c) \/ InterruptConsumer(c)
  PROVE  PipeInv'
<1> USE DEF PipelineAssumption, PipeInv, WorkFails, InterruptConsumer, producerVars, callerVars
<1>h. /\ cpc \in [Consumers -> {"get", "work", "done"}]
      /\ cpc' = [cpc EXCEPT ![c] = "done"]
      /\ crashed' = crashed \cup {c} /\ doomed' \subseteq doomed
      /\ UNCHANGED <<producerVars, queue, batch, merged, callerVars>>
  BY DEF PipeTypes, PipelineTypeOK
<1>1. PipeTypes' BY <1>h DEF PipeTypes, PipelineTypeOK, Searching, Tasks
<1>2. SentinelsLast' BY <1>h DEF SentinelsLast, Slots, Searching
<1>3. EndedInOrder' BY <1>h DEF EndedInOrder, Slots, Searching
<1>4. Accounted' BY <1>h DEF Accounted
<1>5. NothingToClean'
  <2>1. Live # {} \/ doomed # {} BY DEF Live
  <2> QED BY <2>1, <1>h DEF NothingToClean
<1>6. Ending'
  <2>1. Live' \subseteq Live BY <1>h DEF Live
  <2> QED BY <2>1, <1>h DEF Ending
<1> QED BY <1>1, <1>2, <1>3, <1>4, <1>5, <1>6

\* The caller wakes up, cancels what is left, and waits for it; it is cancelled.
LEMMA CallerKeeps ==
  ASSUME PipelineAssumption, PipeInv, Wake \/ Drained \/ CancelPipeline
  PROVE  PipeInv'
<1> USE DEF PipelineAssumption, PipeInv, Wake, Drained, CancelPipeline, producerVars, consumerVars
<1>h. UNCHANGED <<pipeline, ppc, found, stops, queue, cpc, batch, merged, crashed>> OBVIOUS
<1>1. PipeTypes'
  <2>1. Live \subseteq Tasks BY DEF Live, Tasks
  <2>2. doomed' \subseteq Tasks BY <2>1 DEF PipeTypes, PipelineTypeOK
  <2>3. struck' \in BOOLEAN BY DEF PipeTypes, PipelineTypeOK
  <2>4. cancels' \in 0..MaxCancels /\ caller' \in {"wait", "drain", "returned", "raised"}
    BY DEF PipeTypes, PipelineTypeOK
  <2> QED BY <2>2, <2>3, <2>4, <1>h DEF PipeTypes, PipelineTypeOK, Searching
<1>2. SentinelsLast' /\ EndedInOrder'
  BY <1>h DEF SentinelsLast, EndedInOrder, Slots, Searching
<1>3. Accounted' BY <1>h DEF Accounted, Slots, Searching, InHand
<1>4. NothingToClean' BY <1>h DEF NothingToClean, Live, Ready
<1>5. Ending' BY <1>h DEF Ending, Live
<1> QED BY <1>1, <1>2, <1>3, <1>4, <1>5

LEMMA PipeStepKeeps ==
  PipelineAssumption /\ PipeInv /\ [PipelineNext]_pipelineVars => PipeInv'
<1> SUFFICES ASSUME PipelineAssumption, PipeInv, [PipelineNext]_pipelineVars PROVE PipeInv'
  OBVIOUS
<1>1. CASE PipelineNext
  BY <1>1, BeginKeeps, FindKeeps, PutBatchKeeps, PutSentinelKeeps, InterruptProducerKeeps,
     GetKeeps, WorkKeeps, CrashKeeps, CallerKeeps DEF PipelineNext, PipelineProgress
<1>2. CASE UNCHANGED pipelineVars
  BY <1>2 DEF pipelineVars, PipeInv, PipeTypes, PipelineTypeOK, SentinelsLast, EndedInOrder,
     Accounted, InHand, NothingToClean, Ending, Live, Slots, Searching
<1> QED BY <1>1, <1>2

LEMMA PipeInvSettles == PipelineAssumption /\ PipeInv => ScanSettled
<1> SUFFICES ASSUME PipelineAssumption, PipeInv PROVE ScanSettled OBVIOUS
<1> USE DEF PipelineAssumption, PipeInv
<1>1. NothingRunsOn BY DEF NothingRunsOn, Ending
<1>2. AllBatchesSeen
  <2> SUFFICES ASSUME caller = "returned" PROVE merged = 1..Batches BY DEF AllBatchesSeen
  <2>1. crashed = {} /\ ppc = "done" /\ \A c \in Consumers : cpc[c] = "done"
    BY DEF Ending, NothingToClean, Live, PipeTypes, PipelineTypeOK
  <2>2. \A i \in Slots : queue[i] = Stop BY <2>1 DEF EndedInOrder
  <2>3. found = Batches BY <2>1 DEF Accounted, Searching
  <2>4. \A b \in 1..found : b \in merged
    BY <2>1, <2>2, <2>3 DEF Accounted, InHand, Stop
  <2> QED BY <2>3, <2>4 DEF PipeTypes, PipelineTypeOK
<1> QED BY <1>1, <1>2 DEF ScanSettled

\* Tasks, queue and what was merged are of their types, for any consumers and
\* batches (scan.py:1140-1268).
THEOREM PipelineTypeCorrect == ASSUME PipelineAssumption PROVE PipelineSpec => []PipelineTypeOK
<1>1. PipelineInit => PipeInv BY PipeInitEstablishes
<1>2. PipeInv /\ [PipelineNext]_pipelineVars => PipeInv' BY PipeStepKeeps
<1>3. PipeInv => PipelineTypeOK BY DEF PipeInv, PipeTypes
<1> QED BY <1>1, <1>2, <1>3, PTL DEF PipelineSpec

\* A scan that goes on to the index has seen every batch, whichever tasks fail
\* and are cancelled, and one that has ended leaves no task behind
\* (scan.py:1263-1268).
THEOREM ScansSettle ==
  ASSUME PipelineAssumption
  PROVE  PipelineSpec => []ScanSettled
<1>1. PipelineInit => PipeInv BY PipeInitEstablishes
<1>2. PipeInv /\ [PipelineNext]_pipelineVars => PipeInv' BY PipeStepKeeps
<1>3. PipeInv => ScanSettled BY PipeInvSettles
<1> QED BY <1>1, <1>2, <1>3, PTL DEF PipelineSpec
-----------------------------------------------------------------------------
(* MultipartUpload: for any number of workers, chunks, failures and         *)
(* cancellations.  While no error is known, each part put into the queue is *)
(* there, with a worker, or uploaded; when the call comes to look at the    *)
(* parts, it has put all of them and the workers have stopped.             *)

BeforeStops == {"create", "open", "read", "check", "put", "close"}
UpTypes ==
  /\ UploadTypeOK
  /\ phase \in BeforeStops => sentinels = 0
  /\ phase = "stop" => sentinels < QueueSize
  /\ \A w \in Workers : wpc[w] = "upload" => item[w] # Sentinel

\* how far the file has been read when a chunk is put, and when it is over
Reading ==
  /\ phase \in {"create", "open"} => sent = 0 /\ read = 0
  /\ phase \in {"check", "put"} => sent < read
  /\ phase = "read" => sent = read
  /\ phase \in {"close", "stop", "join"} /\ ~failing => sent = Chunks
\* where each part is
WithWorker(i) == \E w \in Workers : wpc[w] = "upload" /\ item[w] = i
Queued(i) == \E k \in 1..Len(partQueue) : partQueue[k] = i
PartsAccounted == ~error => \A i \in 1..sent : i \in parts \/ WithWorker(i) \/ Queued(i)
\* the look at the parts, and what it lets complete
Gone(w) == wpc[w] \in {"off", "stopped"}
AtRest ==
  /\ phase \in {"settle", "complete"} =>
       sent = Chunks /\ partQueue = <<>> /\ \A w \in Workers : Gone(w)
  /\ phase = "complete" => ~error
Whole ==
  /\ upload = "completed" =>
       /\ parts = Parts /\ sent = Chunks /\ \A w \in Workers : Gone(w)
       /\ phase \in {"abort", "returned", "raised"}
  /\ phase = "returned" => upload = "completed"
\* the cancellations that leave a worker behind
LeftRunning ==
  \/ "close" \in ToSet(hits)
  \/ Len(hits) > 1 /\ {"stop", "join"} \cap ToSet(hits) # {}
WorkersGone ==
  /\ phase \in {"create", "open"} => \A w \in Workers : Gone(w)
  /\ phase \in {"abort"} \cup CallEnded => (\A w \in Workers : Gone(w)) \/ LeftRunning

UpInv ==
  /\ UpTypes /\ Reading /\ PartsAccounted /\ AtRest /\ Whole /\ WorkersGone
  /\ NoUploadLeftOpen

LEMMA QueueSizeIsPositive == UploadAssumption => QueueSize \in Nat \ {0}
BY FS_CardinalityType, FS_EmptySet DEF UploadAssumption, QueueSize

\* A call that has not begun.
LEMMA UpInitEstablishes == UploadAssumption /\ UploadInit => UpInv
<1> SUFFICES ASSUME UploadAssumption, UploadInit PROVE UpInv OBVIOUS
<1>0. QueueSize \in Nat \ {0} BY QueueSizeIsPositive
<1>1. wpc = [w \in Workers |-> "off"] /\ item = [w \in Workers |-> Sentinel] BY DEF UploadInit
<1>2. UpTypes
  <2>1. /\ partQueue \in Seq(Parts \cup {Sentinel}) /\ Len(partQueue) = 0
        /\ hits \in Seq(CallerSteps) /\ Len(hits) = 0
    BY DEF UploadInit
  <2>2. Len(partQueue) <= QueueSize /\ sentinels \in 0..QueueSize
    BY <1>0, <2>1 DEF UploadInit
  <2>3. /\ wpc \in [Workers -> {"off", "get", "upload", "stopped"}]
        /\ item \in [Workers -> Parts \cup {Sentinel}]
        /\ \A w \in Workers : wpc[w] # "upload"
    BY <1>1
  <2>4. /\ read \in 0..Chunks /\ sent \in 0..Chunks /\ failures \in 0..MaxFailures
        /\ Len(hits) <= MaxStrikes
    BY <2>1 DEF UploadInit, UploadAssumption
  <2>5. /\ phase \in CallerSteps /\ upload \in {"none", "open", "completed", "aborted"}
        /\ known \in BOOLEAN /\ error \in BOOLEAN /\ failing \in BOOLEAN /\ parts \subseteq Parts
    BY DEF UploadInit, CallerSteps
  <2> QED BY <2>1, <2>2, <2>3, <2>4, <2>5 DEF UpTypes, UploadTypeOK, UploadInit
<1>3. \A w \in Workers : Gone(w) BY <1>1 DEF Gone
<1>4. Reading /\ PartsAccounted BY DEF Reading, PartsAccounted, UploadInit
<1>5. AtRest /\ Whole /\ WorkersGone /\ NoUploadLeftOpen
  BY <1>3 DEF AtRest, Whole, WorkersGone, NoUploadLeftOpen, UploadInit, CallEnded
<1> QED BY <1>2, <1>4, <1>5 DEF UpInv

\* The calling task goes from one step to the next without touching the queue
\* or the workers.
LEMMA CallKeeps ==
  ASSUME UploadAssumption, UpInv, Create \/ Read \/ Check \/ CloseStream \/ Join
  PROVE  UpInv'
<1> USE DEF UploadAssumption, UpInv, Create, Read, Check, CloseStream, Join, workVars, Fail
<1>0. QueueSize \in Nat \ {0} BY QueueSizeIsPositive
<1>w. UNCHANGED <<sent, workVars, sentinels, hits>> OBVIOUS
<1>1. UpTypes'
  <2>1. phase' \in CallerSteps BY DEF CallerSteps, CallEnded
  <2>2. read' \in 0..Chunks BY DEF UpTypes, UploadTypeOK, MinOf
  <2>3. failures' \in 0..MaxFailures BY DEF UpTypes, UploadTypeOK
  <2>4. /\ upload' \in {"none", "open", "completed", "aborted"}
        /\ known' \in BOOLEAN /\ failing' \in BOOLEAN
    BY DEF UpTypes, UploadTypeOK
  <2>5. /\ phase' \in BeforeStops => phase \in BeforeStops
        /\ phase' = "stop" => phase = "close"
    BY DEF BeforeStops
  <2>6. (phase' \in BeforeStops => sentinels = 0) /\ (phase' = "stop" => sentinels < QueueSize)
    BY <2>5, <1>0 DEF UpTypes, BeforeStops
  <2> QED BY <1>w, <2>1, <2>2, <2>3, <2>4, <2>6 DEF UpTypes, UploadTypeOK
<1>2. Reading' BY DEF Reading, UpTypes, UploadTypeOK, MinOf
<1>3. PartsAccounted' BY <1>w DEF PartsAccounted, WithWorker, Queued
<1>4. AtRest' BY <1>w DEF AtRest, Gone, Reading
<1>5. Whole' BY <1>w DEF Whole, Gone
<1>6. WorkersGone' BY <1>w DEF WorkersGone, Gone, LeftRunning, CallEnded
<1>7. NoUploadLeftOpen' BY <1>w DEF NoUploadLeftOpen, CallEnded, UpTypes, UploadTypeOK
<1> QED BY <1>1, <1>2, <1>3, <1>4, <1>5, <1>6, <1>7

\* It looks at the parts, completes the upload, and aborts it.
LEMMA EndKeeps ==
  ASSUME UploadAssumption, UpInv, Settle \/ Complete \/ Abort
  PROVE  UpInv'
<1> USE DEF UploadAssumption, UpInv, Settle, Complete, Abort, workVars, Fail
<1>w. UNCHANGED <<read, sent, workVars, sentinels, hits, failing, known>> OBVIOUS
<1>1. UpTypes' BY DEF UpTypes, UploadTypeOK, CallerSteps, CallEnded, BeforeStops
<1>2. Reading' BY DEF Reading
<1>3. PartsAccounted' BY <1>w DEF PartsAccounted, WithWorker, Queued
<1>4. AtRest' BY <1>w DEF AtRest, Gone
<1>5. Whole'
  <2>1. CASE Complete /\ upload' = "completed"
    <3>1. /\ phase = "complete" /\ sent = Chunks /\ partQueue = <<>> /\ ~error
          /\ \A w \in Workers : Gone(w)
      BY <2>1 DEF AtRest
    <3>2. \A i \in 1..Chunks : i \in parts
      BY <3>1 DEF PartsAccounted, WithWorker, Queued, Gone
    <3>3. parts = Parts BY <3>2 DEF Parts, UpTypes, UploadTypeOK
    <3> QED BY <2>1, <3>1, <3>3, <1>w DEF Whole, Gone, Parts
  <2>2. CASE ~(Complete /\ upload' = "completed")
    BY <2>2, <1>w DEF Whole, Gone
  <2> QED BY <2>1, <2>2
<1>6. WorkersGone' BY <1>w DEF WorkersGone, Gone, LeftRunning, CallEnded, AtRest
<1>7. NoUploadLeftOpen' BY <1>w DEF NoUploadLeftOpen, CallEnded, UpTypes, UploadTypeOK
<1> QED BY <1>1, <1>2, <1>3, <1>4, <1>5, <1>6, <1>7

\* It opens the stream, and with it the workers.
LEMMA OpenKeeps ==
  ASSUME UploadAssumption, UpInv, Open
  PROVE  UpInv'
<1> USE DEF UploadAssumption, UpInv, Open, Fail
<1>1. UpTypes' BY DEF UpTypes, UploadTypeOK, CallerSteps, CallEnded, BeforeStops
<1>2. Reading' BY DEF Reading
<1>3. PartsAccounted' BY DEF PartsAccounted, Reading
<1>4. AtRest' BY DEF AtRest
<1>5. Whole' BY DEF Whole
<1>6. WorkersGone' BY DEF WorkersGone, Gone, CallEnded
<1>7. NoUploadLeftOpen' BY DEF NoUploadLeftOpen, CallEnded
<1> QED BY <1>1, <1>2, <1>3, <1>4, <1>5, <1>6, <1>7

\* It puts a chunk, or a sentinel, into the queue.
LEMMA EnqueueKeeps ==
  ASSUME UploadAssumption, UpInv, PutPart \/ StopWorker
  PROVE  UpInv'
<1> USE DEF UploadAssumption, UpInv, PutPart, StopWorker
<1>0. QueueSize \in Nat \ {0} BY QueueSizeIsPositive
<1> DEFINE x == IF phase = "put" THEN sent + 1 ELSE Sentinel
<1>x. partQueue' = Append(partQueue, x) /\ x \in Parts \cup {Sentinel}
      /\ partQueue \in Seq(Parts \cup {Sentinel}) /\ Len(partQueue) < QueueSize
  BY DEF UpTypes, UploadTypeOK, Parts, Reading
<1> HIDE DEF x
<1>g. /\ partQueue' \in Seq(Parts \cup {Sentinel}) /\ Len(partQueue') = Len(partQueue) + 1
      /\ \A k \in 1..Len(partQueue) : partQueue'[k] = partQueue[k]
      /\ partQueue'[Len(partQueue) + 1] = x /\ Len(partQueue) \in Nat
  BY <1>x, Grown
<1>w. UNCHANGED <<read, wpc, item, parts, error, upload, known, hits, failing, failures>>
  OBVIOUS
<1>1. UpTypes'
  BY <1>0, <1>x, <1>g, <1>w
  DEF UpTypes, UploadTypeOK, CallerSteps, CallEnded, BeforeStops, Reading
<1>2. Reading' BY <1>w DEF Reading, UpTypes, UploadTypeOK
<1>3. PartsAccounted'
  <2> SUFFICES ASSUME ~error, NEW i \in 1..sent'
               PROVE  i \in parts \/ WithWorker(i) \/ Queued(i)'
    BY <1>w DEF PartsAccounted, WithWorker
  <2>1. CASE i \in 1..sent
    <3>1. Queued(i) => Queued(i)' BY <1>g DEF Queued
    <3> QED BY <2>1, <3>1 DEF PartsAccounted
  <2>2. CASE i \notin 1..sent
    <3>1. phase = "put" /\ i = sent + 1 BY <2>2 DEF UpTypes, UploadTypeOK
    <3>2. partQueue'[Len(partQueue) + 1] = i BY <3>1, <1>g DEF x
    <3> QED BY <3>2, <1>g DEF Queued
  <2> QED BY <2>1, <2>2
<1>4. AtRest' BY <1>w DEF AtRest
<1>5. Whole' BY <1>w DEF Whole
<1>6. WorkersGone' BY <1>w DEF WorkersGone, CallEnded
<1>7. NoUploadLeftOpen' BY <1>w DEF NoUploadLeftOpen, CallEnded
<1> QED BY <1>1, <1>2, <1>3, <1>4, <1>5, <1>6, <1>7

\* A cancellation strikes it: what it has struck is in hits from then on.
LEMMA CancelUploadKeeps ==
  ASSUME UploadAssumption, UpInv, CancelUpload
  PROVE  UpInv'
<1> USE DEF UploadAssumption, UpInv, CancelUpload, workVars
<1>w. UNCHANGED <<known, read, sent, workVars, sentinels, failures>> /\ failing' OBVIOUS
<1>h. hits \in Seq(CallerSteps) /\ phase \in CallerSteps BY DEF UpTypes, UploadTypeOK
<1>g. /\ hits' \in Seq(CallerSteps) /\ Len(hits') = Len(hits) + 1 /\ Len(hits) \in Nat
      /\ \A k \in 1..Len(hits) : hits'[k] = hits[k]
      /\ hits'[Len(hits) + 1] = phase
  BY <1>h, Grown
<1>t. ToSet(hits) \subseteq ToSet(hits') /\ phase \in ToSet(hits')
  <2>1. ASSUME NEW k \in 1..Len(hits) PROVE hits[k] \in ToSet(hits')
    BY <1>g, k \in 1..Len(hits') DEF ToSet
  <2>2. phase \in ToSet(hits') BY <1>g, Len(hits) + 1 \in 1..Len(hits') DEF ToSet
  <2>3. ToSet(hits) = {hits[k] : k \in 1..Len(hits)} BY <1>h DEF ToSet
  <2> QED BY <2>1, <2>2, <2>3
<1>n. hits # <<>> => Len(hits) >= 1 BY <1>h, <1>g
<1>e. hits = <<>> => ToSet(hits) = {} BY DEF ToSet
<1>s. phase' = IF Shielded THEN phase ELSE AfterCancel(phase) OBVIOUS
<1>1. UpTypes'
  <2>1. phase' \in CallerSteps
    BY <1>s, <1>h DEF AfterCancel, CallerSteps, CallEnded
  <2>2. (phase' \in BeforeStops => sentinels = 0) /\ (phase' = "stop" => sentinels < QueueSize)
    BY <1>s DEF AfterCancel, UpTypes, BeforeStops, Shielded
  <2>3. upload' \in {"none", "open", "completed", "aborted"} BY DEF UpTypes, UploadTypeOK
  <2> QED BY <1>w, <1>g, <2>1, <2>2, <2>3 DEF UpTypes, UploadTypeOK
<1>2. Reading' BY <1>w, <1>s DEF Reading, AfterCancel, Shielded
<1>3. PartsAccounted' BY <1>w DEF PartsAccounted, WithWorker, Queued
<1>4. AtRest' BY <1>w, <1>s DEF AtRest, Gone, AfterCancel, Shielded
<1>5. Whole'
  <2>1. CASE phase = "complete" /\ upload' = "completed"
    <3>1. /\ sent = Chunks /\ partQueue = <<>> /\ ~error /\ \A w \in Workers : Gone(w)
      BY <2>1 DEF AtRest
    <3>2. \A i \in 1..Chunks : i \in parts
      BY <3>1 DEF PartsAccounted, WithWorker, Queued, Gone
    <3>3. parts = Parts BY <3>2 DEF Parts, UpTypes, UploadTypeOK
    <3>4. phase' = "abort" BY <2>1, <1>s DEF Shielded, AfterCancel
    <3> QED BY <3>1, <3>3, <3>4, <1>w DEF Whole, Gone, Parts
  <2>2. CASE ~(phase = "complete" /\ upload' = "completed")
    BY <2>2, <1>w, <1>s DEF Whole, Gone, AfterCancel, Shielded, CallEnded, Parts
  <2> QED BY <2>1, <2>2
<1>6. WorkersGone'
  <2>1. LeftRunning => LeftRunning' BY <1>t, <1>g DEF LeftRunning
  <2>2. phase = "close" => LeftRunning' BY <1>t DEF LeftRunning
  <2>3. phase \in {"stop", "join"} /\ ~Shielded => LeftRunning'
    BY <1>t, <1>n, <1>e, <1>g DEF LeftRunning, Shielded
  <2> QED BY <1>w, <1>s, <2>1, <2>2, <2>3
      DEF WorkersGone, Gone, AtRest, AfterCancel, CallEnded, CallerSteps, UpTypes, UploadTypeOK
<1>7. NoUploadLeftOpen'
  BY <1>t, <1>s DEF NoUploadLeftOpen, AfterCancel, CallEnded, Shielded
<1> QED BY <1>1, <1>2, <1>3, <1>4, <1>5, <1>6, <1>7

\* A worker takes a part, drops it, or stops at a sentinel.
LEMMA TakeKeeps ==
  ASSUME UploadAssumption, UpInv, NEW w \in Workers, Take(w)
  PROVE  UpInv'
<1> USE DEF UploadAssumption, UpInv, Take
<1>q. /\ partQueue \in Seq(Parts \cup {Sentinel}) /\ partQueue # <<>>
      /\ wpc \in [Workers -> {"off", "get", "upload", "stopped"}]
      /\ item \in [Workers -> Parts \cup {Sentinel}]
  BY DEF UpTypes, UploadTypeOK
<1>g. /\ partQueue' \in Seq(Parts \cup {Sentinel}) /\ Len(partQueue) \in Nat \ {0}
      /\ Len(partQueue') = Len(partQueue) - 1
      /\ Head(partQueue) = partQueue[1] /\ Head(partQueue) \in Parts \cup {Sentinel}
      /\ \A k \in 1..Len(partQueue) - 1 : partQueue'[k] = partQueue[k + 1]
  BY <1>q, Shrunk
<1>h. /\ wpc' = [wpc EXCEPT ![w] = IF partQueue[1] = Sentinel THEN "stopped"
                                   ELSE IF error THEN "get" ELSE "upload"]
      /\ item' = [item EXCEPT ![w] = partQueue[1]]
      /\ UNCHANGED <<phase, upload, known, read, sent, parts, error, sentinels, failing,
                     failures, hits>>
  BY <1>g
<1>o. \A v \in Workers : Gone(v) => Gone(v)' BY <1>h, <1>q DEF Gone
<1>1. UpTypes'
  <2>1. /\ wpc' \in [Workers -> {"off", "get", "upload", "stopped"}]
        /\ item' \in [Workers -> Parts \cup {Sentinel}]
        /\ \A v \in Workers : wpc'[v] = "upload" => item'[v] # Sentinel
    BY <1>g, <1>h, <1>q DEF UpTypes
  <2>2. Len(partQueue') <= QueueSize
    BY <1>g, QueueSizeIsPositive DEF UpTypes, UploadTypeOK
  <2> QED BY <2>1, <2>2, <1>g, <1>h DEF UpTypes, UploadTypeOK
<1>2. Reading' BY <1>h DEF Reading
<1>3. PartsAccounted'
  <2> SUFFICES ASSUME ~error, NEW i \in 1..sent
               PROVE  i \in parts \/ WithWorker(i)' \/ Queued(i)'
    BY <1>h DEF PartsAccounted
  <2>f. sent \in Nat BY DEF UpTypes, UploadTypeOK
  <2>1. CASE WithWorker(i)
    <3>1. PICK v \in Workers : wpc[v] = "upload" /\ item[v] = i BY <2>1 DEF WithWorker
    <3>2. wpc'[v] = "upload" /\ item'[v] = i BY <3>1, <1>h, <1>q
    <3> QED BY <3>2 DEF WithWorker
  <2>2. CASE Queued(i)
    <3>1. PICK k \in 1..Len(partQueue) : partQueue[k] = i BY <2>2 DEF Queued
    <3>2. CASE k = 1
      <4>1. wpc'[w] = "upload" /\ item'[w] = i BY <3>1, <3>2, <1>h, <1>q, <2>f DEF Sentinel
      <4> QED BY <4>1 DEF WithWorker
    <3>3. CASE k # 1
      <4>1. k - 1 \in 1..Len(partQueue') /\ partQueue'[k - 1] = i BY <3>1, <3>3, <1>g
      <4> QED BY <4>1 DEF Queued
    <3> QED BY <3>2, <3>3
  <2> QED BY <2>1, <2>2 DEF PartsAccounted
<1>4. AtRest' BY <1>h, <1>q DEF AtRest
<1>5. Whole' BY <1>h, <1>o DEF Whole
<1>6. WorkersGone' BY <1>h, <1>o DEF WorkersGone, LeftRunning
<1>7. NoUploadLeftOpen' BY <1>h DEF NoUploadLeftOpen
<1> QED BY <1>1, <1>2, <1>3, <1>4, <1>5, <1>6, <1>7

\* A worker uploads its part, or fails and says so.
LEMMA UploadPartKeeps ==
  ASSUME UploadAssumption, UpInv, NEW w \in Workers, UploadPart(w)
  PROVE  UpInv'
<1> USE DEF UploadAssumption, UpInv, UploadPart, Fail
<1>q. /\ wpc \in [Workers -> {"off", "get", "upload", "stopped"}]
      /\ item[w] \in Parts /\ wpc[w] = "upload" /\ ~Gone(w)
  BY DEF UpTypes, UploadTypeOK, Gone
<1>h. /\ UNCHANGED <<phase, upload, known, read, sent, partQueue, item, sentinels, failing, hits>>
      /\ wpc' = [wpc EXCEPT ![w] = "get"]
  OBVIOUS
<1>1. UpTypes'
  <2>1. /\ wpc' \in [Workers -> {"off", "get", "upload", "stopped"}]
        /\ \A v \in Workers : wpc'[v] = "upload" => wpc[v] = "upload"
    BY <1>h, <1>q
  <2>2. parts' \subseteq Parts BY <1>q DEF UpTypes, UploadTypeOK
  <2>3. failures' \in 0..MaxFailures BY DEF UpTypes, UploadTypeOK
  <2>4. error' \in BOOLEAN BY DEF UpTypes, UploadTypeOK
  <2> QED BY <1>h, <2>1, <2>2, <2>3, <2>4 DEF UpTypes, UploadTypeOK
<1>2. Reading' BY <1>h DEF Reading
<1>3. PartsAccounted'
  <2>1. CASE error' BY <2>1 DEF PartsAccounted
  <2>2. CASE ~error'
    <3>1. ~error /\ parts' = parts \cup {item[w]} BY <2>2
    <3>2. \A i : WithWorker(i) => i \in parts' \/ WithWorker(i)'
      BY <3>1, <1>h, <1>q DEF WithWorker
    <3> QED BY <3>1, <3>2, <1>h DEF PartsAccounted, Queued
  <2> QED BY <2>1, <2>2
<1>4. AtRest' BY <1>h, <1>q DEF AtRest
<1>5. Whole' BY <1>h, <1>q DEF Whole
<1>6. WorkersGone'
  BY <1>h, <1>q DEF WorkersGone, LeftRunning
<1>7. NoUploadLeftOpen' BY <1>h DEF NoUploadLeftOpen, UpTypes, UploadTypeOK
<1> QED BY <1>1, <1>2, <1>3, <1>4, <1>5, <1>6, <1>7

LEMMA UpStepKeeps ==
  UploadAssumption /\ UpInv /\ [UploadNext]_uploadVars => UpInv'
<1> SUFFICES ASSUME UploadAssumption, UpInv, [UploadNext]_uploadVars PROVE UpInv'
  OBVIOUS
<1>1. CASE UploadNext
  BY <1>1, CallKeeps, EndKeeps, OpenKeeps, EnqueueKeeps, CancelUploadKeeps, TakeKeeps,
     UploadPartKeeps DEF UploadNext, Caller
<1>2. CASE UNCHANGED uploadVars
  BY <1>2 DEF uploadVars, UpInv, UpTypes, UploadTypeOK, Reading, PartsAccounted, WithWorker,
     Queued, AtRest, Whole, WorkersGone, Gone, LeftRunning, NoUploadLeftOpen
<1> QED BY <1>1, <1>2

LEMMA UpInvSettles == UpInv => UploadSettled
<1> SUFFICES ASSUME UpInv PROVE UploadSettled OBVIOUS
<1>1. CompletedIsWhole BY DEF UpInv, Whole, CompletedIsWhole
<1>2. NoWorkerLeft BY DEF UpInv, WorkersGone, NoWorkerLeft, LeftRunning, Gone
<1> QED BY <1>1, <1>2 DEF UploadSettled, UpInv

\* Parts, workers and the upload are of their types, for any workers and chunks
\* (snapshots.py:338-505).
THEOREM UploadTypeCorrect == ASSUME UploadAssumption PROVE UploadSpec => []UploadTypeOK
<1>1. UploadInit => UpInv BY UpInitEstablishes
<1>2. UpInv /\ [UploadNext]_uploadVars => UpInv' BY UpStepKeeps
<1>3. UpInv => UploadTypeOK BY DEF UpInv, UpTypes
<1> QED BY <1>1, <1>2, <1>3, PTL DEF UploadSpec

\* A completed object has every chunk; a call that has ended leaves no worker
\* and no open upload but by the failures and cancellations named
\* (snapshots.py:432-467).
THEOREM UploadsSettle ==
  ASSUME UploadAssumption
  PROVE  UploadSpec => []UploadSettled
<1>1. UploadInit => UpInv BY UpInitEstablishes
<1>2. UpInv /\ [UploadNext]_uploadVars => UpInv' BY UpStepKeeps
<1>3. UpInv => UploadSettled BY UpInvSettles
<1> QED BY <1>1, <1>2, <1>3, PTL DEF UploadSpec
-----------------------------------------------------------------------------
(* Runtimes: for any number of calls, permits and workers.  A kind that is  *)
(* not made again after its close has one executor at most; when it is      *)
(* closed that one is dead and refuses what comes.                          *)

At == {"start", "queued", "submitted", "ended"}
PoolTypes ==
  /\ RuntimesTypeOK
  /\ calls \in [Calls -> [kind : Kinds, at : At, rt : 0..MaxMade]]
  /\ counts \in [Runtime -> [permits : Nat, depth : Nat, flight : Nat]]

\* the runtime of a call, and who has a job in the executor
Held ==
  /\ \A c \in Calls : calls[c].at \in {"queued", "submitted"} \/ jobs[c] # "none"
                        => calls[c].rt \in 1..made[calls[c].kind]
  /\ \A c \in Calls : calls[c].at \in {"start", "queued"} => jobs[c] = "none"
  /\ \A c \in Calls : jobs[c] = "pending" => calls[c].at = "submitted"
  /\ \A c \in Calls \ cancelled : jobs[c] = "running" => calls[c].at = "submitted"
\* every executor but the current one of its kind is dead
Lineage ==
  \A k \in Kinds :
    /\ current[k] \in {0, made[k]}
    /\ \A g \in 1..made[k] : g = current[k] \/ <<k, g>> \in dead
    /\ k \notin reborn => made[k] <= 1
    /\ current[k] = 0 /\ ~Closed(k) => made[k] = 0
ClosingNow(k) == closing # 0 /\ CleanupSteps[cleaning] = k
ClosedDown ==
  /\ closing # 0 => cleaning \in 2..4 /\ closing \in 1..made[CleanupSteps[cleaning]]
  /\ \A k \in Kinds : ~gaveUp /\ k \notin reborn /\ Closed(k) =>
       /\ current[k] = 0
       /\ ~ClosingNow(k) =>
            \A c \in Calls : calls[c].kind = k => jobs[c] \in {"none", "over"}

PoolInv == PoolTypes /\ CountsHold /\ Held /\ Lineage /\ ClosedDown

\* the calls are finite, so the sets of them have a size
LEMMA CallsAtFinite ==
  ASSUME RuntimesAssumption, NEW r, NEW s
  PROVE  IsFiniteSet(CallsAt(r, s)) /\ Cardinality(CallsAt(r, s)) \in Nat
BY FS_Subset, FS_CardinalityType DEF RuntimesAssumption, CallsAt

\* One call moves: a set of calls at a place keeps its size, or gains or loses it.
LEMMA OneMoves ==
  ASSUME RuntimesAssumption, NEW c \in Calls, NEW r, NEW s,
         \A d \in Calls \ {c} : calls'[d] = calls[d]
  PROVE  LET n == Cardinality(CallsAt(r, s)) IN
         /\ n \in Nat
         /\ (c \in CallsAt(r, s) <=> c \in CallsAt(r, s)') => Cardinality(CallsAt(r, s)') = n
         /\ c \notin CallsAt(r, s) /\ c \in CallsAt(r, s)' => Cardinality(CallsAt(r, s)') = n + 1
         /\ c \in CallsAt(r, s) /\ c \notin CallsAt(r, s)'
              => n > 0 /\ Cardinality(CallsAt(r, s)') = n - 1
<1> DEFINE A == CallsAt(r, s)
           B == CallsAt(r, s)'
<1>f. IsFiniteSet(A) /\ Cardinality(A) \in Nat BY CallsAtFinite
<1>1. \A d \in Calls \ {c} : d \in A <=> d \in B BY DEF CallsAt, Of
<1>2. A \subseteq Calls /\ B \subseteq Calls BY DEF CallsAt
<1>3. CASE c \in A <=> c \in B
  <2>1. A = B BY <1>1, <1>2, <1>3
  <2> QED BY <2>1, <1>3, <1>f
<1>4. CASE c \notin A /\ c \in B
  <2>1. B = A \cup {c} BY <1>1, <1>2, <1>4
  <2>2. Cardinality(A \cup {c}) = Cardinality(A) + 1 BY <1>f, <1>4, FS_AddElement
  <2>3. Cardinality(B) = Cardinality(A) + 1 BY <2>1, <2>2
  <2> QED BY <2>3, <1>4, <1>f
<1>5. CASE c \in A /\ c \notin B
  <2>1. B = A \ {c} BY <1>1, <1>2, <1>5
  <2>2. Cardinality(A \ {c}) = Cardinality(A) - 1 /\ Cardinality(A \ {c}) \in Nat
    BY <1>f, <1>5, FS_RemoveElement, FS_CardinalityType
  <2>3. Cardinality(B) = Cardinality(A) - 1 /\ Cardinality(A) > 0 BY <2>1, <2>2, <1>f
  <2> QED BY <2>3, <1>5, <1>f
<1> QED BY <1>3, <1>4, <1>5

\* No call moves.
LEMMA NoneMoves ==
  ASSUME UNCHANGED <<calls, counts>>, CountsHold
  PROVE  CountsHold'
BY DEF CountsHold, CallsAt, Of

\* The steps of the cleanup by number, and the kinds closed at one of them.
ClosedAt(k, n, m) == \E i \in 2..4 : CleanupSteps[i] = k /\ (n > i \/ (n = i /\ m # 0))
LEMMA StepsByNumber ==
  /\ CleanupSteps[1] = "clients" /\ CleanupSteps[2] = "fs"
  /\ CleanupSteps[3] = "cpu" /\ CleanupSteps[4] = "storage"
BY DEF CleanupSteps
LEMMA ClosedAtBySteps ==
  ASSUME NEW n, NEW m
  PROVE  /\ ClosedAt("fs", n, m) <=> n > 2 \/ (n = 2 /\ m # 0)
         /\ ClosedAt("cpu", n, m) <=> n > 3 \/ (n = 3 /\ m # 0)
         /\ ClosedAt("storage", n, m) <=> n > 4 \/ (n = 4 /\ m # 0)
<1> DEFINE P(k, i) == CleanupSteps[i] = k /\ (n > i \/ (n = i /\ m # 0))
<1>1. ASSUME NEW k PROVE ClosedAt(k, n, m) <=> P(k, 2) \/ P(k, 3) \/ P(k, 4)
  <2>1. ClosedAt(k, n, m) <=> \E i \in 2..4 : P(k, i) BY DEF ClosedAt
  <2> HIDE DEF P
  <2>2. (\E i \in 2..4 : P(k, i)) => P(k, 2) \/ P(k, 3) \/ P(k, 4)
    <3> SUFFICES ASSUME NEW i \in 2..4, P(k, i) PROVE P(k, 2) \/ P(k, 3) \/ P(k, 4) OBVIOUS
    <3>1. i = 2 \/ i = 3 \/ i = 4 OBVIOUS
    <3> QED BY <3>1
  <2>3. P(k, 2) \/ P(k, 3) \/ P(k, 4) => \E i \in 2..4 : P(k, i)
    <3>1. 2 \in 2..4 /\ 3 \in 2..4 /\ 4 \in 2..4 OBVIOUS
    <3> QED BY <3>1
  <2> QED BY <2>1, <2>2, <2>3
<1>2. ClosedAt("fs", n, m) <=> n > 2 \/ (n = 2 /\ m # 0) BY <1>1, StepsByNumber
<1>3. ClosedAt("cpu", n, m) <=> n > 3 \/ (n = 3 /\ m # 0) BY <1>1, StepsByNumber
<1>4. ClosedAt("storage", n, m) <=> n > 4 \/ (n = 4 /\ m # 0) BY <1>1, StepsByNumber
<1> QED BY <1>2, <1>3, <1>4
LEMMA ClosedBySteps ==
  /\ Closed("fs") <=> cleaning > 2 \/ (cleaning = 2 /\ closing # 0)
  /\ Closed("cpu") <=> cleaning > 3 \/ (cleaning = 3 /\ closing # 0)
  /\ Closed("storage") <=> cleaning > 4 \/ (cleaning = 4 /\ closing # 0)
  /\ Closed("fs")' <=> cleaning' > 2 \/ (cleaning' = 2 /\ closing' # 0)
  /\ Closed("cpu")' <=> cleaning' > 3 \/ (cleaning' = 3 /\ closing' # 0)
  /\ Closed("storage")' <=> cleaning' > 4 \/ (cleaning' = 4 /\ closing' # 0)
<1>1. \A k : Closed(k) <=> ClosedAt(k, cleaning, closing) BY DEF Closed, ClosedAt
<1>2. \A k : Closed(k)' <=> ClosedAt(k, cleaning', closing') BY DEF Closed, ClosedAt
<1> QED BY <1>1, <1>2, ClosedAtBySteps

LEMMA PoolInitEstablishes == RuntimesAssumption /\ RuntimesInit => PoolInv
<1> SUFFICES ASSUME RuntimesAssumption, RuntimesInit PROVE PoolInv OBVIOUS
<1>k. PICK k \in Kinds : calls = [c \in Calls |-> [kind |-> k, at |-> "start", rt |-> 0]]
  BY DEF RuntimesInit
<1>c. counts = [r \in Runtime |-> [permits |-> Permits, depth |-> 0, flight |-> 0]]
  BY DEF RuntimesInit
<1>j. jobs = [c \in Calls |-> "none"] BY DEF RuntimesInit
<1>m. /\ made \in [Kinds -> {0, 1}] /\ current = made BY DEF RuntimesInit
<1>s. /\ dead = {} /\ cleaning = 0 /\ closing = 0 /\ reborn = {} /\ cancelled = {}
      /\ gaveUp = FALSE
  BY DEF RuntimesInit
<1>1. PoolTypes
  <2>1. calls \in [Calls -> [kind : Kinds, at : At, rt : 0..MaxMade]]
    BY <1>k DEF At, RuntimesAssumption
  <2>2. counts \in [Runtime -> [permits : Nat, depth : Nat, flight : Nat]]
    BY <1>c DEF RuntimesAssumption
  <2>3. current \in [Kinds -> 0..MaxMade] /\ made \in [Kinds -> 0..MaxMade]
    <3>1. {0, 1} \subseteq 0..MaxMade BY DEF RuntimesAssumption
    <3> QED BY <3>1, <1>m
  <2>4. cleaning \in 0..CleanupOver /\ closing \in 0..MaxMade
    BY <1>s DEF RuntimesAssumption, CleanupOver
  <2> QED BY <2>1, <2>2, <2>3, <2>4, <1>j, <1>s DEF PoolTypes, RuntimesTypeOK
<1>2. CountsHold
  <2>1. \A r \in Runtime, s \in {"queued", "submitted"} : CallsAt(r, s) = {}
    BY <1>k DEF CallsAt
  <2> QED BY <2>1, <1>c, FS_EmptySet DEF CountsHold, RuntimesAssumption
<1>3. Held BY <1>j, <1>k DEF Held
<1>4. \A q \in Kinds : ~Closed(q) BY <1>s, ClosedBySteps, StepsByNumber DEF Kinds
<1>5. Lineage
  <2> SUFFICES ASSUME NEW q \in Kinds
               PROVE  /\ current[q] \in {0, made[q]}
                      /\ \A g \in 1..made[q] : g = current[q] \/ <<q, g>> \in dead
                      /\ made[q] <= 1 /\ (current[q] = 0 => made[q] = 0)
    BY DEF Lineage
  <2>1. made[q] \in {0, 1} /\ current[q] = made[q] BY <1>m
  <2> QED BY <2>1
<1>6. ClosedDown BY <1>4, <1>s DEF ClosedDown
<1> QED BY <1>1, <1>2, <1>3, <1>5, <1>6 DEF PoolInv

\* A call finds its runtime, or makes it, and waits; or it is refused.
LEMMA EnterKeeps ==
  ASSUME RuntimesAssumption, PoolInv, NEW c \in Calls, Enter(c)
  PROVE  PoolInv'
<1> DEFINE k == calls[c].kind
           g == IF current[k] = 0 THEN made[k] + 1 ELSE current[k]
<1>t. /\ calls \in [Calls -> [kind : Kinds, at : At, rt : 0..MaxMade]]
      /\ counts \in [Runtime -> [permits : Nat, depth : Nat, flight : Nat]]
      /\ current \in [Kinds -> 0..MaxMade] /\ made \in [Kinds -> 0..MaxMade]
      /\ MaxMade \in Nat
  BY DEF PoolInv, PoolTypes, RuntimesTypeOK, RuntimesAssumption
<1>k. k \in Kinds BY <1>t
<1>b. /\ calls[c].at = "start"
      /\ UNCHANGED <<jobs, dead, cleaning, closing, cancelled, gaveUp>>
      /\ \/ current[k] = 0 /\ Build(k)
         \/ current[k] # 0 /\ UNCHANGED <<current, made, reborn>>
      /\ \/ /\ calls' = [calls EXCEPT ![c].at = "queued", ![c].rt = g]
            /\ counts' = [counts EXCEPT ![<<k, g>>].depth = @ + 1]
         \/ calls' = [calls EXCEPT ![c].at = "ended"] /\ UNCHANGED counts
  BY DEF Enter, ContractRefuses, End
<1>g. /\ g \in 1..MaxMade /\ current'[k] = g /\ g \in 1..made'[k]
      /\ current' \in [Kinds -> 0..MaxMade] /\ made' \in [Kinds -> 0..MaxMade]
      /\ \A q \in Kinds : made[q] <= made'[q]
      /\ \A q \in Kinds \ {k} : current'[q] = current[q] /\ made'[q] = made[q]
      /\ reborn \subseteq reborn' /\ reborn' \subseteq reborn \cup {k}
  <2>1. CASE current[k] = 0 /\ Build(k)
    BY <2>1, <1>t, <1>k DEF Build
  <2>2. CASE current[k] # 0 /\ UNCHANGED <<current, made, reborn>>
    BY <2>2, <1>t, <1>k DEF PoolInv, Lineage
  <2> QED BY <2>1, <2>2, <1>b
<1> HIDE DEF g, k
<1>r. <<k, g>> \in Runtime BY <1>k, <1>g DEF Runtime
<1>c. /\ \A d \in Calls \ {c} : calls'[d] = calls[d]
      /\ calls'[c].kind = k /\ calls'[c].at \in {"queued", "ended"}
      /\ calls'[c].at = "queued" => calls'[c].rt = g
      /\ calls' \in [Calls -> [kind : Kinds, at : At, rt : 0..MaxMade]]
  <2>1. CASE calls' = [calls EXCEPT ![c].at = "queued", ![c].rt = g]
    <3>1. calls' = [calls EXCEPT ![c] = [calls[c] EXCEPT !.at = "queued", !.rt = g]]
      BY <2>1, <1>t
    <3>2. /\ [calls[c] EXCEPT !.at = "queued", !.rt = g] \in [kind : Kinds, at : At, rt : 0..MaxMade]
          /\ [calls[c] EXCEPT !.at = "queued", !.rt = g].kind = k
          /\ [calls[c] EXCEPT !.at = "queued", !.rt = g].at = "queued"
          /\ [calls[c] EXCEPT !.at = "queued", !.rt = g].rt = g
      BY <1>t, <1>g DEF At, k
    <3> QED BY <3>1, <3>2, <1>t
  <2>2. CASE calls' = [calls EXCEPT ![c].at = "ended"] /\ UNCHANGED counts
    <3>1. calls' = [calls EXCEPT ![c] = [calls[c] EXCEPT !.at = "ended"]]
      BY <2>2, <1>t
    <3>2. /\ [calls[c] EXCEPT !.at = "ended"] \in [kind : Kinds, at : At, rt : 0..MaxMade]
          /\ [calls[c] EXCEPT !.at = "ended"].kind = k
          /\ [calls[c] EXCEPT !.at = "ended"].at = "ended"
      BY <1>t DEF At, k
    <3> QED BY <3>1, <3>2, <1>t
  <2> QED BY <2>1, <2>2, <1>b
<1>z. ASSUME NEW q PROVE Closed(q)' <=> Closed(q)
  BY <1>b DEF Closed
<1>1. PoolTypes'
  <2>1. counts' \in [Runtime -> [permits : Nat, depth : Nat, flight : Nat]]
    <3>1. counts[<<k, g>>].depth + 1 \in Nat BY <1>t, <1>r
    <3> QED BY <3>1, <1>b, <1>t, <1>r
  <2>2. reborn' \subseteq Kinds BY <1>g, <1>k DEF PoolInv, PoolTypes, RuntimesTypeOK
  <2> QED BY <2>1, <2>2, <1>b, <1>c, <1>g DEF PoolInv, PoolTypes, RuntimesTypeOK
<1>2. CountsHold'
  <2> SUFFICES ASSUME NEW r \in Runtime
      PROVE  /\ counts'[r].depth = Cardinality(CallsAt(r, "queued")')
             /\ counts'[r].flight = Cardinality(CallsAt(r, "submitted")')
             /\ counts'[r].permits + counts'[r].flight = Permits
    BY DEF CountsHold
  <2>1. /\ counts[r].depth = Cardinality(CallsAt(r, "queued"))
        /\ counts[r].flight = Cardinality(CallsAt(r, "submitted"))
        /\ counts[r].permits + counts[r].flight = Permits
    BY DEF PoolInv, CountsHold
  <2>2. c \notin CallsAt(r, "queued") /\ c \notin CallsAt(r, "submitted") BY <1>b DEF CallsAt
  <2>3. c \notin CallsAt(r, "submitted")' BY <1>c DEF CallsAt
  <2>4. c \in CallsAt(r, "queued")' <=> calls'[c].at = "queued" /\ r = <<k, g>>
    BY <1>c DEF CallsAt, Of
  <2>5. Cardinality(CallsAt(r, "submitted")') = counts[r].flight
    BY <2>1, <2>2, <2>3, <1>c, OneMoves
  <2>6. Cardinality(CallsAt(r, "queued")') =
          IF calls'[c].at = "queued" /\ r = <<k, g>> THEN counts[r].depth + 1 ELSE counts[r].depth
    BY <2>1, <2>2, <2>4, <1>c, OneMoves
  <2>7. counts'[r] = IF calls'[c].at = "queued" /\ r = <<k, g>>
                     THEN [counts[r] EXCEPT !.depth = @ + 1] ELSE counts[r]
    BY <1>b, <1>t, <1>r
  <2>8. counts[r] \in [permits : Nat, depth : Nat, flight : Nat] BY <1>t
  <2> QED BY <2>1, <2>5, <2>6, <2>7, <2>8
<1>3. Held'
  <2> SUFFICES ASSUME NEW d \in Calls
      PROVE  /\ calls'[d].at \in {"queued", "submitted"} \/ jobs[d] # "none"
                  => calls'[d].rt \in 1..made'[calls'[d].kind]
             /\ calls'[d].at \in {"start", "queued"} => jobs[d] = "none"
             /\ jobs[d] = "pending" => calls'[d].at = "submitted"
             /\ d \notin cancelled /\ jobs[d] = "running" => calls'[d].at = "submitted"
    BY <1>b DEF Held
  <2>1. CASE d = c
    <3>1. jobs[c] = "none" BY <1>b DEF PoolInv, Held
    <3> QED BY <2>1, <3>1, <1>c, <1>g
  <2>2. CASE d # c
    <3>1. calls'[d] = calls[d] /\ calls[d].kind \in Kinds BY <2>2, <1>c, <1>t
    <3>2. made[calls[d].kind] <= made'[calls[d].kind] BY <3>1, <1>g
    <3>3. made[calls[d].kind] \in Nat /\ made'[calls[d].kind] \in Nat BY <3>1, <1>t, <1>g
    <3> QED BY <3>1, <3>2, <3>3 DEF PoolInv, Held
  <2> QED BY <2>1, <2>2
<1>4. Lineage'
  <2> SUFFICES ASSUME NEW q \in Kinds
      PROVE  /\ current'[q] \in {0, made'[q]}
             /\ \A h \in 1..made'[q] : h = current'[q] \/ <<q, h>> \in dead
             /\ q \notin reborn' => made'[q] <= 1
             /\ current'[q] = 0 /\ ~Closed(q) => made'[q] = 0
    BY <1>b, <1>z DEF Lineage
  <2>0. /\ current[q] \in {0, made[q]}
        /\ \A h \in 1..made[q] : h = current[q] \/ <<q, h>> \in dead
        /\ q \notin reborn => made[q] <= 1
        /\ current[q] = 0 /\ ~Closed(q) => made[q] = 0
    BY DEF PoolInv, Lineage
  <2>1. CASE q # k BY <2>0, <2>1, <1>g
  <2>2. CASE q = k /\ current[k] = 0 /\ Build(k)
    <3>1. /\ made'[q] = made[q] + 1 /\ current'[q] = made[q] + 1 /\ made[q] \in Nat
          /\ Closed(q) => q \in reborn'
      BY <2>2, <1>t, <1>k DEF Build
    <3> QED BY <3>1, <2>0, <2>2
  <2>3. CASE q = k /\ current[k] # 0 BY <2>0, <2>3, <1>b
  <2> QED BY <2>1, <2>2, <2>3, <1>b
<1>5. ClosedDown'
  <2>1. ASSUME closing # 0
        PROVE  cleaning \in 2..4 /\ closing \in 1..made'[CleanupSteps[cleaning]]
    <3>1. cleaning \in 2..4 /\ closing \in 1..made[CleanupSteps[cleaning]]
      BY <2>1 DEF PoolInv, ClosedDown
    <3>2. CleanupSteps[cleaning] \in Kinds BY <3>1, ClosedBySteps, StepsByNumber DEF Kinds
    <3>3. made[CleanupSteps[cleaning]] <= made'[CleanupSteps[cleaning]]
          /\ made[CleanupSteps[cleaning]] \in Nat /\ made'[CleanupSteps[cleaning]] \in Nat
      BY <3>2, <1>g, <1>t
    <3> QED BY <3>1, <3>3
  <2>2. ASSUME NEW q \in Kinds, ~gaveUp, q \notin reborn', Closed(q)
        PROVE  current'[q] = 0
               /\ (~ClosingNow(q) =>
                     \A d \in Calls : calls'[d].kind = q => jobs[d] \in {"none", "over"})
    <3>1. /\ current[q] = 0
          /\ ~ClosingNow(q) => \A d \in Calls : calls[d].kind = q => jobs[d] \in {"none", "over"}
      BY <2>2, <1>g DEF PoolInv, ClosedDown
    <3>2. q # k
      <4> SUFFICES ASSUME q = k PROVE FALSE OBVIOUS
      <4>1. Build(k) BY <3>1, <1>b
      <4> QED BY <4>1, <2>2 DEF Build
    <3>3. \A d \in Calls : calls'[d].kind = calls[d].kind BY <1>c DEF k
    <3> QED BY <3>1, <3>2, <3>3, <1>g
  <2> QED BY <2>1, <2>2, <1>b, <1>z DEF ClosedDown, ClosingNow
<1> QED BY <1>1, <1>2, <1>3, <1>4, <1>5 DEF PoolInv
\* A call goes on from the queue or from its job: what there is to show of it.
LEMMA MoveKeeps ==
  ASSUME RuntimesAssumption, PoolInv, NEW c \in Calls, NEW a \in {"submitted", "ended"},
         calls[c].at \in {"queued", "submitted"},
         calls' = [calls EXCEPT ![c].at = a],
         UNCHANGED <<current, made, dead, cleaning, closing, reborn, gaveUp>>,
         counts' \in [Runtime -> [permits : Nat, depth : Nat, flight : Nat]],
         \A r \in Runtime \ {Of(c)} : counts'[r] = counts[r],
         counts'[Of(c)].depth =
           counts[Of(c)].depth - (IF calls[c].at = "queued" THEN 1 ELSE 0),
         counts'[Of(c)].flight =
           counts[Of(c)].flight - (IF calls[c].at = "submitted" THEN 1 ELSE 0)
                                + (IF a = "submitted" THEN 1 ELSE 0),
         counts'[Of(c)].permits + counts'[Of(c)].flight = Permits,
         jobs' \in [Calls -> {"none", "pending", "running", "over"}],
         \A d \in Calls \ {c} : jobs'[d] = jobs[d],
         cancelled \subseteq cancelled', cancelled' \subseteq cancelled \cup {c},
         jobs'[c] = "pending" => a = "submitted" /\ Of(c) \notin dead,
         jobs'[c] = "running" => c \in cancelled',
         jobs'[c] # "pending" => jobs'[c] \in {jobs[c], "over"}
  PROVE  PoolInv'
<1>t. /\ calls \in [Calls -> [kind : Kinds, at : At, rt : 0..MaxMade]]
      /\ counts \in [Runtime -> [permits : Nat, depth : Nat, flight : Nat]]
      /\ made \in [Kinds -> 0..MaxMade] /\ MaxMade \in Nat
      /\ jobs \in [Calls -> {"none", "pending", "running", "over"}]
  BY DEF PoolInv, PoolTypes, RuntimesTypeOK, RuntimesAssumption
<1>c. /\ \A d \in Calls \ {c} : calls'[d] = calls[d]
      /\ calls'[c].kind = calls[c].kind /\ calls'[c].rt = calls[c].rt /\ calls'[c].at = a
      /\ calls' \in [Calls -> [kind : Kinds, at : At, rt : 0..MaxMade]]
  <2>1. calls' = [calls EXCEPT ![c] = [calls[c] EXCEPT !.at = a]] BY <1>t
  <2>2. /\ [calls[c] EXCEPT !.at = a] \in [kind : Kinds, at : At, rt : 0..MaxMade]
        /\ [calls[c] EXCEPT !.at = a].kind = calls[c].kind
        /\ [calls[c] EXCEPT !.at = a].rt = calls[c].rt
        /\ [calls[c] EXCEPT !.at = a].at = a
    BY <1>t DEF At
  <2> QED BY <2>1, <2>2, <1>t
<1>r. /\ calls[c].rt \in 1..made[calls[c].kind] /\ Of(c) \in Runtime
  <2>1. calls[c].rt \in 1..made[calls[c].kind] BY DEF PoolInv, Held
  <2>2. calls[c].kind \in Kinds /\ made[calls[c].kind] \in 0..MaxMade BY <1>t
  <2> QED BY <2>1, <2>2, <1>t DEF Of, Runtime
<1>o. \A d \in Calls : Of(d)' = Of(d) BY <1>c DEF Of
<1>1. PoolTypes'
  <2>1. cancelled' \subseteq Calls BY DEF PoolInv, PoolTypes, RuntimesTypeOK
  <2> QED BY <2>1, <1>c DEF PoolInv, PoolTypes, RuntimesTypeOK
<1>2. CountsHold'
  <2> SUFFICES ASSUME NEW r \in Runtime
      PROVE  /\ counts'[r].depth = Cardinality(CallsAt(r, "queued")')
             /\ counts'[r].flight = Cardinality(CallsAt(r, "submitted")')
             /\ counts'[r].permits + counts'[r].flight = Permits
    BY DEF CountsHold
  <2>1. /\ counts[r].depth = Cardinality(CallsAt(r, "queued"))
        /\ counts[r].flight = Cardinality(CallsAt(r, "submitted"))
        /\ counts[r].permits + counts[r].flight = Permits
    BY DEF PoolInv, CountsHold
  <2>2. /\ c \in CallsAt(r, "queued") <=> r = Of(c) /\ calls[c].at = "queued"
        /\ c \in CallsAt(r, "submitted") <=> r = Of(c) /\ calls[c].at = "submitted"
        /\ c \notin CallsAt(r, "queued")'
        /\ c \in CallsAt(r, "submitted")' <=> r = Of(c) /\ a = "submitted"
    BY <1>c, <1>o DEF CallsAt
  <2>3. counts[r] \in [permits : Nat, depth : Nat, flight : Nat] BY <1>t
  <2>4. CASE r # Of(c)
    <3>1. /\ Cardinality(CallsAt(r, "queued")') = counts[r].depth
          /\ Cardinality(CallsAt(r, "submitted")') = counts[r].flight
      BY <2>1, <2>2, <2>4, <1>c, OneMoves
    <3> QED BY <3>1, <2>1, <2>4
  <2>5. CASE r = Of(c)
    <3>1. Cardinality(CallsAt(r, "queued")') =
            counts[r].depth - (IF calls[c].at = "queued" THEN 1 ELSE 0)
      BY <2>1, <2>2, <2>3, <2>5, <1>c, OneMoves
    <3>2. Cardinality(CallsAt(r, "submitted")') =
            counts[r].flight - (IF calls[c].at = "submitted" THEN 1 ELSE 0)
                             + (IF a = "submitted" THEN 1 ELSE 0)
      BY <2>1, <2>2, <2>3, <2>5, <1>c, OneMoves
    <3> QED BY <3>1, <3>2, <2>1, <2>5
  <2> QED BY <2>4, <2>5
<1>3. Held'
  <2> SUFFICES ASSUME NEW d \in Calls
      PROVE  /\ calls'[d].at \in {"queued", "submitted"} \/ jobs'[d] # "none"
                  => calls'[d].rt \in 1..made[calls'[d].kind]
             /\ calls'[d].at \in {"start", "queued"} => jobs'[d] = "none"
             /\ jobs'[d] = "pending" => calls'[d].at = "submitted"
             /\ d \notin cancelled' /\ jobs'[d] = "running" => calls'[d].at = "submitted"
    BY DEF Held
  <2>1. CASE d = c BY <2>1, <1>c, <1>r
  <2>2. CASE d # c
    <3>1. calls'[d] = calls[d] /\ jobs'[d] = jobs[d] BY <2>2, <1>c
    <3> QED BY <3>1 DEF PoolInv, Held
  <2> QED BY <2>1, <2>2
<1>z. ASSUME NEW q PROVE Closed(q)' <=> Closed(q) BY DEF Closed
<1>4. Lineage' BY <1>z DEF PoolInv, Lineage
<1>5. ClosedDown'
  <2>1. ASSUME NEW q \in Kinds, ~gaveUp, q \notin reborn, Closed(q), ~ClosingNow(q),
               NEW d \in Calls, calls[d].kind = q
        PROVE  jobs'[d] \in {"none", "over"}
    <3>1. jobs[d] \in {"none", "over"} BY <2>1 DEF PoolInv, ClosedDown
    <3>2. CASE d # c BY <3>1, <3>2
    <3>3. CASE d = c
      <4>1. current[q] = 0 BY <2>1 DEF PoolInv, ClosedDown
      <4>2. Of(c) \in dead BY <4>1, <1>r, <2>1, <3>3 DEF PoolInv, Lineage, Of
      <4> QED BY <3>1, <3>3, <4>2
    <3> QED BY <3>2, <3>3
  <2>2. \A d \in Calls : calls'[d].kind = calls[d].kind BY <1>c
  <2>3. \A q \in Kinds : ClosingNow(q)' <=> ClosingNow(q) BY DEF ClosingNow
  <2>4. ASSUME NEW q \in Kinds, ~gaveUp, q \notin reborn, Closed(q)
        PROVE  current[q] = 0
    BY <2>4 DEF PoolInv, ClosedDown
  <2>5. closing # 0 => cleaning \in 2..4 /\ closing \in 1..made[CleanupSteps[cleaning]]
    BY DEF PoolInv, ClosedDown
  <2> QED BY <2>1, <2>2, <2>3, <2>4, <2>5, <1>z DEF ClosedDown
<1> QED BY <1>1, <1>2, <1>3, <1>4, <1>5 DEF PoolInv

\* What is known of the counts of the runtime of a call.
LEMMA CountsOf ==
  ASSUME RuntimesAssumption, PoolInv, NEW c \in Calls, calls[c].at \in {"queued", "submitted"}
  PROVE  /\ Of(c) \in Runtime
         /\ counts \in [Runtime -> [permits : Nat, depth : Nat, flight : Nat]]
         /\ jobs \in [Calls -> {"none", "pending", "running", "over"}]
         /\ counts[Of(c)].permits \in Nat /\ counts[Of(c)].depth \in Nat
         /\ counts[Of(c)].flight \in Nat
         /\ counts[Of(c)].permits + counts[Of(c)].flight = Permits
         /\ calls[c].at = "queued" => counts[Of(c)].depth > 0
         /\ calls[c].at = "submitted" => counts[Of(c)].flight > 0
<1>t. /\ calls \in [Calls -> [kind : Kinds, at : At, rt : 0..MaxMade]]
      /\ counts \in [Runtime -> [permits : Nat, depth : Nat, flight : Nat]]
      /\ made \in [Kinds -> 0..MaxMade] /\ MaxMade \in Nat
      /\ jobs \in [Calls -> {"none", "pending", "running", "over"}]
  BY DEF PoolInv, PoolTypes, RuntimesTypeOK, RuntimesAssumption
<1>r. Of(c) \in Runtime
  <2>1. calls[c].rt \in 1..made[calls[c].kind] BY DEF PoolInv, Held
  <2>2. calls[c].kind \in Kinds /\ made[calls[c].kind] \in 0..MaxMade BY <1>t
  <2> QED BY <2>1, <2>2, <1>t DEF Of, Runtime
<1>1. counts[Of(c)] \in [permits : Nat, depth : Nat, flight : Nat] BY <1>t, <1>r
<1>2. ASSUME NEW s, calls[c].at = s PROVE Cardinality(CallsAt(Of(c), s)) # 0
  <2>1. c \in CallsAt(Of(c), s) BY <1>2 DEF CallsAt
  <2>2. IsFiniteSet(CallsAt(Of(c), s)) BY CallsAtFinite
  <2> QED BY <2>1, <2>2, FS_EmptySet
<1>3. /\ counts[Of(c)].depth = Cardinality(CallsAt(Of(c), "queued"))
      /\ counts[Of(c)].flight = Cardinality(CallsAt(Of(c), "submitted"))
      /\ counts[Of(c)].permits + counts[Of(c)].flight = Permits
  BY <1>r DEF PoolInv, CountsHold
<1> QED BY <1>t, <1>r, <1>1, <1>2, <1>3

\* The semaphore lets a call in; its executor takes the job or refuses it.
LEMMA AcquireKeeps ==
  ASSUME RuntimesAssumption, PoolInv, NEW c \in Calls, Acquire(c)
  PROVE  PoolInv'
<1>0. calls[c].at = "queued" /\ counts[Of(c)].permits > 0 BY DEF Acquire
<1> DEFINE r == Of(c)
<1>t. /\ r \in Runtime
      /\ counts \in [Runtime -> [permits : Nat, depth : Nat, flight : Nat]]
      /\ jobs \in [Calls -> {"none", "pending", "running", "over"}]
      /\ counts[r].permits \in Nat /\ counts[r].depth \in Nat /\ counts[r].flight \in Nat
      /\ counts[r].permits + counts[r].flight = Permits /\ counts[r].depth > 0
  BY <1>0, CountsOf
<1>n. jobs[c] = "none" BY <1>0 DEF PoolInv, Held
<1>u. UNCHANGED <<current, made, dead, cleaning, closing, reborn, cancelled, gaveUp>>
  BY DEF Acquire
<1>1. CASE r \in dead
  <2>1. /\ counts' = [counts EXCEPT ![r].depth = Less(@)]
        /\ calls' = [calls EXCEPT ![c].at = "ended"] /\ jobs' = jobs
    BY <1>1 DEF Acquire, End
  <2> HIDE DEF r
  <2>2. /\ counts' \in [Runtime -> [permits : Nat, depth : Nat, flight : Nat]]
        /\ \A s \in Runtime \ {r} : counts'[s] = counts[s]
        /\ counts'[r].depth = counts[r].depth - 1 /\ counts'[r].flight = counts[r].flight
        /\ counts'[r].permits = counts[r].permits
    BY <2>1, <1>t DEF Less
  <2> USE DEF r
  <2>3. /\ jobs' \in [Calls -> {"none", "pending", "running", "over"}]
        /\ \A d \in Calls \ {c} : jobs'[d] = jobs[d]
        /\ jobs'[c] = "none" /\ cancelled' = cancelled
    BY <2>1, <1>t, <1>n, <1>u
  <2>4. counts'[r].permits + counts'[r].flight = Permits BY <2>2, <1>t
  <2>5. /\ counts'[r].depth = counts[r].depth - (IF calls[c].at = "queued" THEN 1 ELSE 0)
        /\ counts'[r].flight = counts[r].flight - (IF calls[c].at = "submitted" THEN 1 ELSE 0)
                                               + (IF "ended" = "submitted" THEN 1 ELSE 0)
    BY <2>2, <1>0, <1>t
  <2>6. /\ cancelled \subseteq cancelled' /\ cancelled' \subseteq cancelled \cup {c}
        /\ jobs'[c] = "pending" => "ended" = "submitted" /\ Of(c) \notin dead
        /\ jobs'[c] = "running" => c \in cancelled'
        /\ jobs'[c] # "pending" => jobs'[c] \in {jobs[c], "over"}
    BY <2>3, <1>n
  <2> QED BY <2>1, <2>2, <2>3, <2>4, <2>5, <2>6, <1>0, <1>t, <1>n, <1>u, MoveKeeps
<1>2. CASE r \notin dead
  <2>1. /\ counts' = [counts EXCEPT ![r].depth = Less(@), ![r].flight = @ + 1, ![r].permits = @ - 1]
        /\ calls' = [calls EXCEPT ![c].at = "submitted"]
        /\ jobs' = [jobs EXCEPT ![c] = "pending"]
    BY <1>2 DEF Acquire
  <2> HIDE DEF r
  <2>2. /\ counts' \in [Runtime -> [permits : Nat, depth : Nat, flight : Nat]]
        /\ \A s \in Runtime \ {r} : counts'[s] = counts[s]
        /\ counts'[r].depth = counts[r].depth - 1 /\ counts'[r].flight = counts[r].flight + 1
        /\ counts'[r].permits = counts[r].permits - 1
    BY <2>1, <1>t, <1>0 DEF Less, r
  <2> USE DEF r
  <2>3. jobs' \in [Calls -> {"none", "pending", "running", "over"}] /\ jobs'[c] = "pending"
        /\ \A d \in Calls \ {c} : jobs'[d] = jobs[d]
    BY <2>1, <1>t
  <2> QED BY <2>1, <2>2, <2>3, <1>0, <1>t, <1>u, <1>2, MoveKeeps
<1> QED BY <1>1, <1>2

\* A call whose job is over goes on, and gives its permit back.
LEMMA PermitBackKeeps ==
  ASSUME RuntimesAssumption, PoolInv, NEW c \in Calls, Resume(c) \/ CancelSubmitted(c)
  PROVE  PoolInv'
<1>0. calls[c].at = "submitted" BY DEF Resume, CancelSubmitted
<1> DEFINE r == Of(c)
<1>t. /\ r \in Runtime
      /\ counts \in [Runtime -> [permits : Nat, depth : Nat, flight : Nat]]
      /\ jobs \in [Calls -> {"none", "pending", "running", "over"}]
      /\ counts[r].permits \in Nat /\ counts[r].depth \in Nat /\ counts[r].flight \in Nat
      /\ counts[r].permits + counts[r].flight = Permits /\ counts[r].flight > 0
  BY <1>0, CountsOf
<1>u. UNCHANGED <<current, made, dead, cleaning, closing, reborn, gaveUp>>
  BY DEF Resume, CancelSubmitted
<1>1. /\ counts' = [counts EXCEPT ![r].flight = Less(@), ![r].permits = @ + 1]
      /\ calls' = [calls EXCEPT ![c].at = "ended"]
  BY DEF Resume, CancelSubmitted, GivePermitBack, End
<1>2. /\ counts' \in [Runtime -> [permits : Nat, depth : Nat, flight : Nat]]
      /\ \A s \in Runtime \ {r} : counts'[s] = counts[s]
      /\ counts'[r].depth = counts[r].depth /\ counts'[r].flight = counts[r].flight - 1
      /\ counts'[r].permits = counts[r].permits + 1
  <2> HIDE DEF r
  <2> QED BY <1>1, <1>t DEF Less
<1>3. /\ jobs' \in [Calls -> {"none", "pending", "running", "over"}]
      /\ \A d \in Calls \ {c} : jobs'[d] = jobs[d]
      /\ cancelled \subseteq cancelled' /\ cancelled' \subseteq cancelled \cup {c}
      /\ jobs'[c] # "pending" /\ (jobs'[c] = "running" => c \in cancelled')
      /\ jobs'[c] \in {jobs[c], "over"}
  <2>n. jobs[c] \in {"none", "pending", "running", "over"} BY <1>t
  <2>1. CASE Resume(c) BY <2>1, <1>t DEF Resume
  <2>2. CASE CancelSubmitted(c) /\ jobs[c] = "pending" BY <2>2, <1>t DEF CancelSubmitted
  <2>3. CASE CancelSubmitted(c) /\ jobs[c] # "pending" BY <2>3, <1>t DEF CancelSubmitted
  <2> QED BY <2>1, <2>2, <2>3
<1> QED BY <1>0, <1>t, <1>u, <1>1, <1>2, <1>3, MoveKeeps

\* A call is cancelled in the queue.
LEMMA CancelQueuedKeeps ==
  ASSUME RuntimesAssumption, PoolInv, NEW c \in Calls, CancelQueued(c)
  PROVE  PoolInv'
<1>0. calls[c].at = "queued" BY DEF CancelQueued
<1> DEFINE r == Of(c)
<1>t. /\ r \in Runtime
      /\ counts \in [Runtime -> [permits : Nat, depth : Nat, flight : Nat]]
      /\ jobs \in [Calls -> {"none", "pending", "running", "over"}]
      /\ counts[r].permits \in Nat /\ counts[r].depth \in Nat /\ counts[r].flight \in Nat
      /\ counts[r].permits + counts[r].flight = Permits /\ counts[r].depth > 0
  BY <1>0, CountsOf
<1>n. jobs[c] = "none" BY <1>0 DEF PoolInv, Held
<1>u. UNCHANGED <<jobs, current, made, dead, cleaning, closing, reborn, cancelled, gaveUp>>
  BY DEF CancelQueued
<1>1. /\ counts' = [counts EXCEPT ![r].depth = Less(@)]
      /\ calls' = [calls EXCEPT ![c].at = "ended"]
  BY DEF CancelQueued, End
<1>2. /\ counts' \in [Runtime -> [permits : Nat, depth : Nat, flight : Nat]]
      /\ \A s \in Runtime \ {r} : counts'[s] = counts[s]
      /\ counts'[r].depth = counts[r].depth - 1 /\ counts'[r].flight = counts[r].flight
      /\ counts'[r].permits = counts[r].permits
  <2> HIDE DEF r
  <2> QED BY <1>1, <1>t DEF Less
<1>3. /\ jobs' \in [Calls -> {"none", "pending", "running", "over"}]
      /\ \A d \in Calls \ {c} : jobs'[d] = jobs[d]
      /\ jobs'[c] = "none" /\ cancelled' = cancelled
  BY <1>t, <1>n, <1>u
<1>4. counts'[r].permits + counts'[r].flight = Permits BY <1>2, <1>t
<1>5. /\ counts'[r].depth = counts[r].depth - (IF calls[c].at = "queued" THEN 1 ELSE 0)
      /\ counts'[r].flight = counts[r].flight - (IF calls[c].at = "submitted" THEN 1 ELSE 0)
                                             + (IF "ended" = "submitted" THEN 1 ELSE 0)
  BY <1>2, <1>0, <1>t
<1>6. /\ cancelled \subseteq cancelled' /\ cancelled' \subseteq cancelled \cup {c}
      /\ jobs'[c] = "pending" => "ended" = "submitted" /\ Of(c) \notin dead
      /\ jobs'[c] = "running" => c \in cancelled'
      /\ jobs'[c] # "pending" => jobs'[c] \in {jobs[c], "over"}
  BY <1>3, <1>n
<1> QED BY <1>0, <1>t, <1>n, <1>u, <1>1, <1>2, <1>3, <1>4, <1>5, <1>6, MoveKeeps
\* A job starts, ends, or goes down with its pool: only the jobs change, none is
\* new, and none starts where nothing is left.
LEMMA JobKeeps ==
  ASSUME RuntimesAssumption, PoolInv,
         (\E c \in Calls : JobStart(c) \/ JobEnd(c)) \/ (\E r \in Runtime : PoolBreaks(r))
  PROVE  PoolInv'
<1>u. /\ UNCHANGED <<calls, current, made, counts, cleaning, closing, reborn, cancelled, gaveUp>>
      /\ dead \subseteq dead' /\ dead' \subseteq Runtime
  BY DEF JobStart, JobEnd, PoolBreaks, PoolInv, PoolTypes, RuntimesTypeOK
<1>t. jobs \in [Calls -> {"none", "pending", "running", "over"}]
  BY DEF PoolInv, PoolTypes, RuntimesTypeOK
<1> DEFINE PJ == /\ jobs' \in [Calls -> {"none", "pending", "running", "over"}]
                 /\ \A c \in Calls : \/ jobs'[c] = jobs[c]
                                     \/ jobs[c] = "pending" /\ jobs'[c] = "running"
                                     \/ jobs[c] # "none" /\ jobs'[c] = "over"
<1>j. PJ
  <2>1. ASSUME NEW c \in Calls, JobStart(c) \/ JobEnd(c) PROVE PJ
    BY <2>1, <1>t DEF JobStart, JobEnd
  <2>2. ASSUME NEW r \in Runtime, PoolBreaks(r) PROVE PJ
    BY <2>2, <1>t DEF PoolBreaks
  <2> QED BY <2>1, <2>2
<1>1. PoolTypes' BY <1>u, <1>j DEF PoolInv, PoolTypes, RuntimesTypeOK
<1>2. CountsHold' BY <1>u, NoneMoves DEF PoolInv
<1>3. Held'
  <2> SUFFICES ASSUME NEW d \in Calls
      PROVE  /\ calls[d].at \in {"queued", "submitted"} \/ jobs'[d] # "none"
                  => calls[d].rt \in 1..made[calls[d].kind]
             /\ calls[d].at \in {"start", "queued"} => jobs'[d] = "none"
             /\ jobs'[d] = "pending" => calls[d].at = "submitted"
             /\ d \notin cancelled /\ jobs'[d] = "running" => calls[d].at = "submitted"
    BY <1>u DEF Held
  <2>1. /\ calls[d].at \in {"queued", "submitted"} \/ jobs[d] # "none"
             => calls[d].rt \in 1..made[calls[d].kind]
        /\ calls[d].at \in {"start", "queued"} => jobs[d] = "none"
        /\ jobs[d] = "pending" => calls[d].at = "submitted"
        /\ d \notin cancelled /\ jobs[d] = "running" => calls[d].at = "submitted"
    BY DEF PoolInv, Held
  <2>2. \/ jobs'[d] = jobs[d]
        \/ jobs[d] = "pending" /\ jobs'[d] = "running"
        \/ jobs[d] # "none" /\ jobs'[d] = "over"
    BY <1>j
  <2> QED BY <2>1, <2>2
<1>z. ASSUME NEW q PROVE (Closed(q)' <=> Closed(q)) /\ (ClosingNow(q)' <=> ClosingNow(q))
  BY <1>u DEF Closed, ClosingNow
<1>4. Lineage' BY <1>u, <1>z DEF PoolInv, Lineage
<1>5. ClosedDown'
  <2>1. ASSUME NEW q \in Kinds, ~gaveUp, q \notin reborn, Closed(q)
        PROVE  /\ current[q] = 0
               /\ ~ClosingNow(q) =>
                    \A c \in Calls : calls[c].kind = q => jobs'[c] \in {"none", "over"}
    BY <2>1, <1>j DEF PoolInv, ClosedDown
  <2>2. closing # 0 => cleaning \in 2..4 /\ closing \in 1..made[CleanupSteps[cleaning]]
    BY DEF PoolInv, ClosedDown
  <2> QED BY <2>1, <2>2, <1>u, <1>z DEF ClosedDown
<1> QED BY <1>1, <1>2, <1>3, <1>4, <1>5 DEF PoolInv

\* The close of a kind begins, or has nothing to close.
LEMMA CloseKeeps ==
  ASSUME RuntimesAssumption, PoolInv, CloseFs \/ CloseCpu \/ CloseStorage
  PROVE  PoolInv'
<1> DEFINE k == CleanupSteps[cleaning]
<1>k. cleaning \in 2..4 /\ (Close(k, TRUE) \/ Close(k, FALSE))
  <2>1. CASE CloseFs
    <3>1. cleaning = 2 BY <2>1 DEF CloseFs
    <3>2. k = "fs" BY <3>1, StepsByNumber
    <3>3. Close("fs", TRUE) BY <2>1 DEF CloseFs
    <3>4. Close(k, TRUE) BY <3>2, <3>3, Zenon
    <3>5. cleaning \in 2..4 BY <3>1
    <3> QED BY <3>4, <3>5, Zenon
  <2>2. CASE CloseCpu
    <3>1. cleaning = 3 BY <2>2 DEF CloseCpu
    <3>2. k = "cpu" BY <3>1, StepsByNumber
    <3>3. Close("cpu", TRUE) BY <2>2 DEF CloseCpu
    <3>4. Close(k, TRUE) BY <3>2, <3>3, Zenon
    <3>5. cleaning \in 2..4 BY <3>1
    <3> QED BY <3>4, <3>5, Zenon
  <2>3. CASE CloseStorage
    <3>1. cleaning = 4 BY <2>3 DEF CloseStorage
    <3>2. k = "storage" BY <3>1, StepsByNumber
    <3>3. Close("storage", FALSE) BY <2>3 DEF CloseStorage
    <3>4. Close(k, FALSE) BY <3>2, <3>3, Zenon
    <3>5. cleaning \in 2..4 BY <3>1
    <3> QED BY <3>4, <3>5, Zenon
  <2> QED BY <2>1, <2>2, <2>3
<1>c. k \in Kinds /\ closing = 0 /\ ~Closed(k)
  <2>1. closing = 0 BY <1>k DEF Close
  <2>2. cleaning = 2 \/ cleaning = 3 \/ cleaning = 4 BY <1>k
  <2> QED BY <2>1, <2>2, ClosedBySteps, StepsByNumber DEF Kinds
<1>t. /\ jobs \in [Calls -> {"none", "pending", "running", "over"}]
      /\ current \in [Kinds -> 0..MaxMade] /\ made \in [Kinds -> 0..MaxMade] /\ MaxMade \in Nat
      /\ dead \subseteq Runtime /\ calls \in [Calls -> [kind : Kinds, at : At, rt : 0..MaxMade]]
  BY DEF PoolInv, PoolTypes, RuntimesTypeOK, RuntimesAssumption
<1>u. UNCHANGED <<calls, made, counts, reborn, cancelled, gaveUp>> BY <1>k DEF Close
<1>h. /\ current[k] \in {0, made[k]}
      /\ \A g \in 1..made[k] : g = current[k] \/ <<k, g>> \in dead
      /\ k \notin reborn => made[k] <= 1
      /\ current[k] = 0 => made[k] = 0
  BY <1>c DEF PoolInv, Lineage
<1>1. CASE current[k] = 0
  <2>1. cleaning' = cleaning + 1 /\ UNCHANGED <<current, dead, closing, jobs>>
    BY <1>1, <1>k DEF Close
  <2>2. made[k] = 0 BY <1>1, <1>h
  <2>z. ASSUME NEW q \in Kinds
        PROVE  /\ Closed(q)' => Closed(q) \/ q = k
               /\ Closed(q) => Closed(q)'
               /\ ~ClosingNow(q)'
    <3>1. cleaning = 2 \/ cleaning = 3 \/ cleaning = 4 BY <1>k
    <3> QED BY <3>1, <2>1, <1>c, ClosedBySteps, StepsByNumber DEF Kinds, ClosingNow
  <2>3. PoolTypes'
    <3>1. cleaning' \in 0..CleanupOver BY <2>1, <1>k DEF CleanupOver
    <3> QED BY <3>1, <2>1, <1>u DEF PoolInv, PoolTypes, RuntimesTypeOK
  <2>4. CountsHold' BY <1>u, NoneMoves DEF PoolInv
  <2>5. Held' BY <1>u, <2>1 DEF PoolInv, Held
  <2>6. Lineage'
    <3> SUFFICES ASSUME NEW q \in Kinds
        PROVE  /\ current[q] \in {0, made[q]}
               /\ \A g \in 1..made[q] : g = current[q] \/ <<q, g>> \in dead
               /\ q \notin reborn => made[q] <= 1
               /\ current[q] = 0 /\ ~Closed(q)' => made[q] = 0
      BY <1>u, <2>1 DEF Lineage
    <3> QED BY <2>z DEF PoolInv, Lineage
  <2>7. ClosedDown'
    <3>1. ASSUME NEW q \in Kinds, ~gaveUp, q \notin reborn, Closed(q)'
          PROVE  /\ current[q] = 0
                 /\ \A c \in Calls : calls[c].kind = q => jobs[c] \in {"none", "over"}
      <4>1. CASE Closed(q)
        <5>1. ~ClosingNow(q) BY <1>c DEF ClosingNow
        <5> QED BY <4>1, <3>1, <5>1 DEF PoolInv, ClosedDown
      <4>2. CASE q = k
        <5>1. ASSUME NEW c \in Calls, calls[c].kind = q PROVE jobs[c] = "none"
          <6>1. made[calls[c].kind] = 0 BY <5>1, <4>2, <2>2
          <6>2. jobs[c] # "none" => calls[c].rt \in 1..made[calls[c].kind]
            BY DEF PoolInv, Held
          <6> QED BY <6>1, <6>2
        <5> QED BY <5>1, <4>2, <1>1
      <4> QED BY <4>1, <4>2, <3>1, <2>z
    <3> QED BY <3>1, <2>1, <1>u, <1>c DEF ClosedDown
  <2> QED BY <2>3, <2>4, <2>5, <2>6, <2>7 DEF PoolInv
<1>2. CASE current[k] # 0
  <2>1. /\ closing' = current[k] /\ current' = [current EXCEPT ![k] = 0]
        /\ dead' = dead \cup {<<k, current[k]>>} /\ cleaning' = cleaning
    BY <1>2, <1>k DEF Close
  <2>j. /\ jobs' \in [Calls -> {"none", "pending", "running", "over"}]
        /\ \A c \in Calls : jobs'[c] = jobs[c] \/ (jobs[c] # "none" /\ jobs'[c] = "over")
    <3>1. CASE Close(k, TRUE) BY <3>1, <1>2, <1>t DEF Close, JobsIn
    <3>2. CASE Close(k, FALSE)
      <4>1. jobs' = [c \in Calls |-> jobs[c]] BY <3>2, <1>2 DEF Close
      <4> QED BY <4>1, <1>t
    <3> QED BY <3>1, <3>2, <1>k
  <2> HIDE DEF k
  <2>2. current[k] = made[k] /\ made[k] \in 1..MaxMade BY <1>2, <1>h, <1>t, <1>c
  <2>z. ASSUME NEW q \in Kinds
        PROVE  /\ Closed(q)' => Closed(q) \/ q = k
               /\ Closed(q) => Closed(q)'
               /\ q = k => ClosingNow(q)'
    <3>1. cleaning = 2 \/ cleaning = 3 \/ cleaning = 4 BY <1>k
    <3>3. closing' # 0 BY <2>1, <1>2
    <3> QED BY <3>1, <3>3, <2>1, <1>c, ClosedBySteps, StepsByNumber DEF Kinds, ClosingNow, k
  <2>3. PoolTypes'
    <3>1. closing' \in 0..MaxMade BY <2>1, <2>2, <1>t
    <3>2. <<k, current[k]>> \in Runtime BY <2>2, <1>c DEF Runtime
    <3>3. current' \in [Kinds -> 0..MaxMade]
      <4>1. 0 \in 0..MaxMade BY <1>t
      <4>2. current \in [Kinds -> 0..MaxMade] BY <1>t
      <4> QED BY <2>1, <4>1, <4>2
    <3>4. dead' \subseteq Runtime BY <2>1, <3>2, <1>t
    <3> QED BY <3>1, <3>3, <3>4, <2>1, <2>j, <1>u DEF PoolInv, PoolTypes, RuntimesTypeOK
  <2>4. CountsHold' BY <1>u, NoneMoves DEF PoolInv
  <2>5. Held'
    <3> SUFFICES ASSUME NEW d \in Calls
        PROVE  /\ calls[d].at \in {"queued", "submitted"} \/ jobs'[d] # "none"
                    => calls[d].rt \in 1..made[calls[d].kind]
               /\ calls[d].at \in {"start", "queued"} => jobs'[d] = "none"
               /\ jobs'[d] = "pending" => calls[d].at = "submitted"
               /\ d \notin cancelled /\ jobs'[d] = "running" => calls[d].at = "submitted"
      BY <1>u DEF Held
    <3>1. jobs'[d] = jobs[d] \/ (jobs[d] # "none" /\ jobs'[d] = "over") BY <2>j
    <3> QED BY <3>1 DEF PoolInv, Held
  <2>6. Lineage'
    <3> SUFFICES ASSUME NEW q \in Kinds
        PROVE  /\ current'[q] \in {0, made[q]}
               /\ \A g \in 1..made[q] : g = current'[q] \/ <<q, g>> \in dead'
               /\ q \notin reborn => made[q] <= 1
               /\ current'[q] = 0 /\ ~Closed(q)' => made[q] = 0
      BY <1>u DEF Lineage
    <3>1. CASE q = k
      <4>1. Closed(q)'
        <5>1. cleaning' = 2 \/ cleaning' = 3 \/ cleaning' = 4 BY <2>1, <1>k
        <5>2. closing' # 0 BY <2>1, <1>2
        <5> QED BY <5>1, <5>2, <3>1, <2>1, ClosedBySteps, StepsByNumber DEF k
      <4> QED BY <4>1, <3>1, <2>1, <1>h, <1>c, <1>t
    <3>2. CASE q # k
      <4>1. current'[q] = current[q] BY <3>2, <2>1, <1>t
      <4> QED BY <4>1, <2>1, <2>z DEF PoolInv, Lineage
    <3> QED BY <3>1, <3>2
  <2>7. ClosedDown'
    <3>1. ASSUME NEW q \in Kinds, ~gaveUp, q \notin reborn, Closed(q)'
          PROVE  /\ current'[q] = 0
                 /\ ~ClosingNow(q)' =>
                      \A c \in Calls : calls[c].kind = q => jobs'[c] \in {"none", "over"}
      <4>1. CASE q = k BY <4>1, <2>1, <2>z, <1>t, <1>c
      <4>2. CASE q # k
        <5>1. Closed(q) /\ ~ClosingNow(q) BY <4>2, <3>1, <2>z, <1>c DEF ClosingNow
        <5>2. /\ current[q] = 0
              /\ \A c \in Calls : calls[c].kind = q => jobs[c] \in {"none", "over"}
          BY <5>1, <3>1 DEF PoolInv, ClosedDown
        <5> QED BY <5>2, <4>2, <2>1, <2>j, <1>t
      <4> QED BY <4>1, <4>2
    <3>2. cleaning' \in 2..4 /\ closing' \in 1..made[CleanupSteps[cleaning]]
      BY <2>1, <2>2, <1>k, <1>t DEF k
    <3> QED BY <3>1, <3>2, <2>1, <1>u DEF ClosedDown
  <2> QED BY <2>3, <2>4, <2>5, <2>6, <2>7 DEF PoolInv
<1> QED BY <1>1, <1>2

\* The jobs of the executor that was shut down are over.
LEMMA ShutDownKeeps ==
  ASSUME RuntimesAssumption, PoolInv, ShutDown
  PROVE  PoolInv'
<1> DEFINE k == CleanupSteps[cleaning]
<1>c. cleaning \in 2..4 /\ closing \in 1..made[k] /\ closing # 0
  BY DEF ShutDown, PoolInv, ClosedDown
<1>k. k \in Kinds
  <2>1. cleaning = 2 \/ cleaning = 3 \/ cleaning = 4 BY <1>c
  <2> QED BY <2>1, ClosedBySteps, StepsByNumber DEF Kinds
<1>t. /\ jobs \in [Calls -> {"none", "pending", "running", "over"}]
      /\ made \in [Kinds -> 0..MaxMade] /\ MaxMade \in Nat
      /\ calls \in [Calls -> [kind : Kinds, at : At, rt : 0..MaxMade]]
  BY DEF PoolInv, PoolTypes, RuntimesTypeOK, RuntimesAssumption
<1>u. /\ UNCHANGED <<calls, jobs, current, made, dead, counts, reborn, cancelled, gaveUp>>
      /\ cleaning' = cleaning + 1 /\ closing' = 0
  BY DEF ShutDown
<1>j. JobsIn(<<k, closing>>, "running") \cup JobsIn(<<k, closing>>, "pending") = {}
  BY DEF ShutDown
<1>z. ASSUME NEW q \in Kinds PROVE (Closed(q)' <=> Closed(q)) /\ ~ClosingNow(q)'
  <2>1. cleaning = 2 \/ cleaning = 3 \/ cleaning = 4 BY <1>c
  <2> QED BY <2>1, <1>u, <1>c, ClosedBySteps, StepsByNumber DEF Kinds, ClosingNow
<1>1. PoolTypes'
  <2>1. cleaning' \in 0..CleanupOver /\ closing' \in 0..MaxMade BY <1>u, <1>c, <1>t DEF CleanupOver
  <2> QED BY <2>1, <1>u DEF PoolInv, PoolTypes, RuntimesTypeOK
<1>2. CountsHold' BY <1>u, NoneMoves DEF PoolInv
<1>3. Held' BY <1>u DEF PoolInv, Held
<1>4. Lineage'
  <2>1. \A q \in Kinds : Closed(q)' <=> Closed(q) BY <1>z
  <2> QED BY <2>1, <1>u DEF PoolInv, Lineage
<1>5. ClosedDown'
  <2>1. ASSUME NEW q \in Kinds, ~gaveUp, q \notin reborn, Closed(q)
        PROVE  /\ current[q] = 0
               /\ \A c \in Calls : calls[c].kind = q => jobs[c] \in {"none", "over"}
    <3>0. current[q] = 0 BY <2>1 DEF PoolInv, ClosedDown
    <3>1. CASE q # k
      <4>1. ~ClosingNow(q) BY <3>1 DEF ClosingNow
      <4> QED BY <4>1, <2>1 DEF PoolInv, ClosedDown
    <3>2. CASE q = k
      <4> SUFFICES ASSUME NEW c \in Calls, calls[c].kind = q, jobs[c] # "none"
                   PROVE  jobs[c] = "over"
        BY <3>0
      <4>1. made[q] <= 1 /\ made[q] \in Nat BY <2>1, <1>t DEF PoolInv, Lineage
      <4>2. calls[c].rt \in 1..made[q] BY DEF PoolInv, Held
      <4>3. calls[c].rt = closing BY <4>1, <4>2, <1>c, <3>2
      <4>4. Of(c) = <<k, closing>> BY <4>3, <3>2 DEF Of
      <4>5. jobs[c] # "running" /\ jobs[c] # "pending" BY <4>4, <1>j DEF JobsIn
      <4> QED BY <4>5, <1>t
    <3> QED BY <3>1, <3>2
  <2> QED BY <2>1, <1>u, <1>z DEF ClosedDown
<1> QED BY <1>1, <1>2, <1>3, <1>4, <1>5 DEF PoolInv

\* The cleanup begins, closes the clients, and may stop there.
LEMMA CleanupKeeps ==
  ASSUME RuntimesAssumption, PoolInv, CleanupStarts \/ CloseClients
  PROVE  PoolInv'
<1>u. UNCHANGED <<calls, jobs, current, made, dead, counts, closing, reborn, cancelled>>
  BY DEF CleanupStarts, CloseClients
<1>c. /\ cleaning \in {0, 1} /\ closing = 0 /\ cleaning' \in {1, 2, 5}
      /\ cleaning' = 5 => gaveUp' = TRUE
      /\ gaveUp' \in BOOLEAN /\ (~gaveUp' => ~gaveUp)
  <2>1. cleaning \in {0, 1} BY DEF CleanupStarts, CloseClients
  <2>2. closing = 0 BY <2>1 DEF PoolInv, ClosedDown
  <2>3. gaveUp \in BOOLEAN BY DEF PoolInv, PoolTypes, RuntimesTypeOK
  <2>4. CASE CleanupStarts BY <2>1, <2>2, <2>3, <2>4 DEF CleanupStarts
  <2>5. CASE CloseClients /\ cleaning' = 2 /\ UNCHANGED gaveUp BY <2>1, <2>2, <2>3, <2>5
  <2>6. CASE CloseClients /\ cleaning' = 5 /\ gaveUp' = TRUE BY <2>1, <2>2, <2>6
  <2> QED BY <2>4, <2>5, <2>6 DEF CloseClients, CleanupOver
<1>z. ASSUME NEW q \in Kinds
      PROVE  /\ ~Closed(q) /\ ~ClosingNow(q)'
             /\ ~gaveUp' => ~Closed(q)'
  <2> QED BY <1>c, <1>u, ClosedBySteps, StepsByNumber DEF Kinds, ClosingNow
<1>1. PoolTypes'
  <2>1. cleaning' \in 0..CleanupOver BY <1>c DEF CleanupOver
  <2> QED BY <2>1, <1>c, <1>u DEF PoolInv, PoolTypes, RuntimesTypeOK
<1>2. CountsHold' BY <1>u, NoneMoves DEF PoolInv
<1>3. Held' BY <1>u DEF PoolInv, Held
<1>4. Lineage'
  <2>1. \A q \in Kinds : ~Closed(q) BY <1>z
  <2> QED BY <2>1, <1>u DEF PoolInv, Lineage
<1>5. ClosedDown' BY <1>z, <1>u, <1>c DEF PoolInv, ClosedDown
<1> QED BY <1>1, <1>2, <1>3, <1>4, <1>5 DEF PoolInv

LEMMA PoolStepKeeps ==
  RuntimesAssumption /\ PoolInv /\ [RuntimesNext]_runtimeVars => PoolInv'
<1> SUFFICES ASSUME RuntimesAssumption, PoolInv, [RuntimesNext]_runtimeVars PROVE PoolInv'
  OBVIOUS
<1>1. CASE RuntimesNext /\ ~AllEnded
  BY <1>1, EnterKeeps, AcquireKeeps, PermitBackKeeps, CancelQueuedKeeps, JobKeeps, CloseKeeps,
     ShutDownKeeps, CleanupKeeps
  DEF RuntimesNext, CallStep, RunCpu, RunFs, RunStorage, Cleanup
<1>2. CASE UNCHANGED runtimeVars
  <2>1. UNCHANGED <<calls, jobs, current, made, dead, counts, cleaning, closing, reborn,
                    cancelled, gaveUp>>
    BY <1>2 DEF runtimeVars
  <2>2. PoolTypes' BY <2>1 DEF PoolInv, PoolTypes, RuntimesTypeOK
  <2>3. CountsHold' BY <2>1, NoneMoves DEF PoolInv
  <2>4. Held' BY <2>1 DEF PoolInv, Held
  <2>5. Lineage' /\ ClosedDown' BY <2>1 DEF PoolInv, Lineage, ClosedDown, Closed, ClosingNow
  <2> QED BY <2>2, <2>3, <2>4, <2>5 DEF PoolInv
<1> QED BY <1>1, <1>2 DEF AllEnded

LEMMA PoolInvHolds == RuntimesAssumption /\ PoolInv => PoolsHold
<1> SUFFICES ASSUME RuntimesAssumption, PoolInv PROVE PoolsHold OBVIOUS
<1>1. JobsExplained
  <2> SUFFICES ASSUME NEW r \in Runtime
      PROVE  Cardinality((JobsIn(r, "pending") \cup JobsIn(r, "running")) \ cancelled) <= Permits
    BY DEF JobsExplained
  <2> DEFINE J == (JobsIn(r, "pending") \cup JobsIn(r, "running")) \ cancelled
             A == CallsAt(r, "submitted")
  <2>1. J \subseteq A BY DEF PoolInv, Held, JobsIn, CallsAt
  <2>2. IsFiniteSet(A) /\ Cardinality(A) \in Nat BY CallsAtFinite
  <2>3. Cardinality(J) <= Cardinality(A) /\ Cardinality(J) \in Nat
    BY <2>1, <2>2, FS_Subset, FS_CardinalityType
  <2>4. counts[r] \in [permits : Nat, depth : Nat, flight : Nat] BY DEF PoolInv, PoolTypes
  <2>5. Cardinality(A) <= Permits
    BY <2>4, <2>2 DEF PoolInv, CountsHold, RuntimesAssumption
  <2> QED BY <2>2, <2>3, <2>5 DEF RuntimesAssumption
<1>2. ExecutorsGone
  <2> SUFFICES ASSUME NEW k \in Kinds, ~gaveUp, k \notin reborn
      PROVE  /\ cleaning = CleanupOver => \A g \in 1..made[k] : <<k, g>> \in dead
             /\ Closed(k) /\ closing = 0 =>
                  \A c \in Calls : calls[c].kind = k => jobs[c] \in {"none", "over"}
    BY DEF ExecutorsGone
  <2>1. ASSUME cleaning = CleanupOver, NEW g \in 1..made[k] PROVE <<k, g>> \in dead
    <3>1. Closed(k) BY <2>1, ClosedBySteps, StepsByNumber DEF CleanupOver, Kinds
    <3>2. current[k] = 0 BY <3>1 DEF PoolInv, ClosedDown
    <3>3. g # 0 OBVIOUS
    <3> QED BY <3>2, <3>3 DEF PoolInv, Lineage
  <2>2. ASSUME Closed(k), closing = 0
        PROVE  \A c \in Calls : calls[c].kind = k => jobs[c] \in {"none", "over"}
    BY <2>2 DEF PoolInv, ClosedDown, ClosingNow
  <2> QED BY <2>1, <2>2
<1> QED BY <1>1, <1>2 DEF PoolsHold, PoolInv

\* Calls, jobs, executors and counts are of their types, for any calls, permits and
\* workers (cpu_runtime.py, fs_runtime.py, external_io_runtime.py).
THEOREM PoolsTypeCorrect == ASSUME RuntimesAssumption PROVE RuntimesSpec => []RuntimesTypeOK
<1>1. RuntimesInit => PoolInv BY PoolInitEstablishes
<1>2. PoolInv /\ [RuntimesNext]_runtimeVars => PoolInv' BY PoolStepKeeps
<1>3. PoolInv => RuntimesTypeOK BY DEF PoolInv, PoolTypes
<1> QED BY <1>1, <1>2, <1>3, PTL DEF RuntimesSpec

\* No permit is lost or given twice, no executor has more jobs than permits but
\* those of cancelled calls, and the cleanup leaves no executor but those made
\* anew after their close (cpu_runtime.py:152-205, runtime_lifecycle.py:43).
THEOREM PoolsAlwaysHold ==
  ASSUME RuntimesAssumption
  PROVE  RuntimesSpec => []PoolsHold
<1>1. RuntimesInit => PoolInv BY PoolInitEstablishes
<1>2. PoolInv /\ [RuntimesNext]_runtimeVars => PoolInv' BY PoolStepKeeps
<1>3. PoolInv => PoolsHold BY PoolInvHolds
<1> QED BY <1>1, <1>2, <1>3, PTL DEF RuntimesSpec

-----------------------------------------------------------------------------
(* The machinery together.                                                 *)

\* A step of the whole is a step of one part and leaves the others alone.
LEMMA MachinesTakeTurns ==
  ASSUME [MachinesNext]_machineVars
  PROVE  /\ [Next]_vars /\ [PipelineNext]_pipelineVars
         /\ [UploadNext]_uploadVars /\ [RuntimesNext]_runtimeVars
<1>1. CASE UNCHANGED machineVars BY <1>1 DEF machineVars
<1>2. CASE MachinesNext BY <1>2 DEF MachinesNext, InLock, InScan, InUpload, InPools
<1> QED BY <1>1, <1>2

LEMMA MachinesAreParts == MachinesSpec => Spec /\ PipelineSpec /\ UploadSpec /\ []PoolInv
<1>1. MachinesInit => Init /\ PipelineInit /\ UploadInit /\ RuntimesInit BY DEF MachinesInit
<1>2. MachinesSpec => Spec /\ PipelineSpec /\ UploadSpec
  BY <1>1, MachinesTakeTurns, PTL DEF MachinesSpec, Spec, PipelineSpec, UploadSpec
<1>3. MachinesSpec => []PoolInv
  <2>1. RuntimesInit => PoolInv BY PartsAssumption, PoolInitEstablishes
  <2>2. PoolInv /\ [RuntimesNext]_runtimeVars => PoolInv' BY PartsAssumption, PoolStepKeeps
  <2> QED BY <1>1, <2>1, <2>2, MachinesTakeTurns, PTL DEF MachinesSpec
<1> QED BY <1>2, <1>3, PTL

\* The lock (utils.py:112), the pipeline (scan.py:1230), the upload (snapshots.py:432) and the
\* pools (cpu_runtime.py:139) keep their types side by side, whatever their fairness.
THEOREM MachinesTypesHold == MachinesSpec => []MachinesTypeOK
<1>1. /\ PipelineSpec => []PipelineTypeOK
      /\ UploadSpec => []UploadTypeOK
  BY PartsAssumption, PipelineTypeCorrect, UploadTypeCorrect
<1>2. PoolInv => RuntimesTypeOK BY DEF PoolInv, PoolTypes
<1>3. TypeOK /\ PipelineTypeOK /\ UploadTypeOK /\ RuntimesTypeOK => MachinesTypeOK
  BY DEF MachinesTypeOK
<1> QED BY <1>1, <1>2, <1>3, MachinesAreParts, LockTypeCorrect, PTL

\* What holds of the lock, the pipelines, the uploads and the pools alone holds of them side by
\* side: exclusion, connections that are accounted for, whole results, permits that agree.
THEOREM MachinesHold ==
  MachinesSpec => [](Exclusive /\ ConnsAccounted /\ ScanSettled /\ UploadSettled /\ PoolsHold)
<1>1. /\ PipelineSpec => []ScanSettled
      /\ UploadSpec => []UploadSettled
  BY PartsAssumption, ScansSettle, UploadsSettle
<1>2. PoolInv => PoolsHold BY PartsAssumption, PoolInvHolds
<1> QED BY <1>1, <1>2, MachinesAreParts, LockExcludes, PoolKeepsAll, PTL
=============================================================================

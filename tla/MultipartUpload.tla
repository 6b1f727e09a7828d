--------------------------- MODULE MultipartUpload ---------------------------
(***************************************************************************)
(* _upload_archive_to_s3 of backend/app/snapshots.py: a producer reads an  *)
(* archive in batches of chunks and puts them into a bounded queue, workers *)
(* upload the parts, the first error stops the producer, and any exception *)
(* (cancellation included) aborts the upload in the bucket.                *)
(***************************************************************************)
EXTENDS Naturals, Sequences, FiniteSets, SequencesExt

CONSTANTS Workers,     \* snapshot_s3_concurrency of them
          Chunks,      \* chunks in the archive
          Batch,       \* chunks read at once
          MaxFailures, \* bound: failing calls in one behaviour
          MaxStrikes   \* bound: cancellations of the calling task

\* what the constants have to be; assumed by MCMachines
UploadAssumption ==
    /\ IsFiniteSet(Workers) /\ Workers # {}
    /\ Chunks \in Nat /\ Batch \in Nat \ {0}
    /\ MaxFailures \in Nat /\ MaxStrikes \in Nat

VARIABLES phase,     \* next step of the calling task
          upload,    \* the multipart upload as the bucket knows it
          known,     \* the caller has the upload id
          read,      \* chunks read so far
          sent,      \* chunks put into the queue so far
          partQueue, \* part numbers, and Sentinel
          wpc,       \* step of a worker; "off" before it is created
          item,      \* what a worker took from the queue
          parts,     \* part numbers with an ETag
          error,     \* pipeline_error is set
          sentinels, \* those that the shutdown has put
          failing,   \* an exception is on its way through the finally
          failures,
          hits       \* history: the steps at which cancellations struck

uploadVars == <<phase, upload, known, read, sent, partQueue, wpc, item, parts, error,
                sentinels, failing, failures, hits>>

Sentinel == 0
QueueSize == Cardinality(Workers)
Parts == 1..Chunks
CallEnded == {"returned", "raised"}
CallerSteps == CallEnded \cup
    {"create", "open", "read", "check", "put", "close", "stop", "join", "settle", "complete", "abort"}
MinOf(a, b) == IF a < b THEN a ELSE b

UploadTypeOK ==
    /\ phase \in CallerSteps
    /\ upload \in {"none", "open", "completed", "aborted"}
    /\ known \in BOOLEAN /\ error \in BOOLEAN /\ failing \in BOOLEAN
    /\ read \in 0..Chunks /\ sent \in 0..Chunks
    /\ partQueue \in Seq(Parts \cup {Sentinel}) /\ Len(partQueue) <= QueueSize
    /\ wpc \in [Workers -> {"off", "get", "upload", "stopped"}]
    /\ item \in [Workers -> Parts \cup {Sentinel}]
    /\ parts \subseteq Parts
    /\ sentinels \in 0..QueueSize
    /\ failures \in 0..MaxFailures
    /\ hits \in Seq(CallerSteps) /\ Len(hits) <= MaxStrikes

UploadInit ==
    /\ phase = "create"
    /\ upload = "none" /\ known = FALSE
    /\ read = 0 /\ sent = 0
    /\ partQueue = <<>>
    /\ wpc = [w \in Workers |-> "off"]
    /\ item = [w \in Workers |-> Sentinel]
    /\ parts = {}
    /\ error = FALSE /\ failing = FALSE
    /\ sentinels = 0
    /\ failures = 0
    /\ hits = <<>>

Fail == failures < MaxFailures /\ failures' = failures + 1

workVars == <<partQueue, wpc, item, parts, error>>

-----------------------------------------------------------------------------
(* The calling task.                                                       *)

\* create_multipart_upload; without an upload id nothing will be aborted.
Create ==
    /\ phase = "create"
    /\ \/ upload' = "open" /\ known' = TRUE /\ phase' = "open" /\ UNCHANGED failures
       \/ Fail /\ upload' \in {"none", "open"} /\ phase' = "raised" /\ UNCHANGED known
    /\ UNCHANGED <<read, sent, workVars, sentinels, failing, hits>>

Open ==
    /\ phase = "open"
    /\ \/ /\ wpc' = [w \in Workers |-> "get"]
          /\ phase' = "read"
          /\ UNCHANGED failures
       \/ Fail /\ phase' = "abort" /\ UNCHANGED wpc
    /\ UNCHANGED <<upload, known, read, sent, partQueue, item, parts, error, sentinels, failing,
                   hits>>

\* An error of the pipeline, a failing read and the end of the file all lead to
\* the finally, the first two with an exception.
Read ==
    /\ phase = "read"
    /\ \/ error /\ phase' = "close" /\ failing' = TRUE /\ UNCHANGED <<read, failures>>
       \/ ~error /\ Fail /\ phase' = "close" /\ failing' = TRUE /\ UNCHANGED read
       \/ /\ ~error
          /\ read' = MinOf(read + Batch, Chunks)
          /\ phase' = IF read = Chunks THEN "close" ELSE "check"
          /\ UNCHANGED <<failing, failures>>
    /\ UNCHANGED <<upload, known, sent, workVars, sentinels, hits>>

\* The error is looked at before each chunk, not while waiting for room.
Check ==
    /\ phase = "check"
    /\ phase' = IF error THEN "close" ELSE "put"
    /\ failing' = error
    /\ UNCHANGED <<upload, known, read, sent, workVars, sentinels, failures, hits>>

PutPart ==
    /\ phase = "put"
    /\ Len(partQueue) < QueueSize
    /\ partQueue' = Append(partQueue, sent + 1)
    /\ sent' = sent + 1
    /\ phase' = IF sent + 1 = read THEN "read" ELSE "check"
    /\ UNCHANGED <<upload, known, read, wpc, item, parts, error, sentinels, failing, failures,
                   hits>>

CloseStream ==
    /\ phase = "close"
    /\ phase' = "stop"
    /\ UNCHANGED <<upload, known, read, sent, workVars, sentinels, failing, failures, hits>>

\* _shutdown_workers: one sentinel for each worker.
StopWorker ==
    /\ phase = "stop"
    /\ Len(partQueue) < QueueSize
    /\ partQueue' = Append(partQueue, Sentinel)
    /\ sentinels' = sentinels + 1
    /\ phase' = IF sentinels + 1 = QueueSize THEN "join" ELSE "stop"
    /\ UNCHANGED <<upload, known, read, sent, wpc, item, parts, error, failing, failures,
                   hits>>

\* queue.join and the gather of the workers.
Join ==
    /\ phase = "join"
    /\ partQueue = <<>>
    /\ \A w \in Workers : wpc[w] = "stopped"
    /\ phase' = IF failing THEN "abort" ELSE "settle"
    /\ UNCHANGED <<upload, known, read, sent, workVars, sentinels, failing, failures, hits>>

\* _validated_sorted_parts: the numbers start at 1 and have no gap.
Contiguous == parts # {} /\ parts = 1..Cardinality(parts)

\* Mutant: the numbers of the parts are looked at, and not the error.
SettleByNumbers ==
    /\ phase = "settle"
    /\ phase' = IF Contiguous THEN "complete" ELSE "abort"
    /\ UNCHANGED <<upload, known, read, sent, workVars, sentinels, failing, failures, hits>>

Settle ==
    /\ phase = "settle"
    /\ phase' = IF ~error /\ Contiguous THEN "complete" ELSE "abort"
    /\ UNCHANGED <<upload, known, read, sent, workVars, sentinels, failing, failures, hits>>

\* complete_multipart_upload, whose answer may be lost.
Complete ==
    /\ phase = "complete"
    /\ \/ upload' = "completed" /\ phase' = "returned" /\ UNCHANGED failures
       \/ Fail /\ upload' \in {"open", "completed"} /\ phase' = "abort"
    /\ UNCHANGED <<known, read, sent, workVars, sentinels, failing, hits>>

\* abort_multipart_upload; its own failure is logged.
Abort ==
    /\ phase = "abort"
    /\ \/ upload' = (IF upload = "open" THEN "aborted" ELSE upload) /\ UNCHANGED failures
       \/ Fail /\ UNCHANGED upload
    /\ phase' = "raised"
    /\ UNCHANGED <<known, read, sent, workVars, sentinels, failing, hits>>

\* Where a cancellation at a step leads: through the finally, to the abort, or,
\* before the id is known and in the abort itself, straight out.
AfterCancel(step) ==
    CASE step \in {"create", "abort"} -> "raised"
      [] step \in {"read", "put"} -> "close"
      [] OTHER -> "abort"

\* The shutdown is shielded from a first cancellation, and no other: a second
\* one cancels the shutdown itself.  The closing of the stream is not shielded.
Shielded == phase \in {"stop", "join"} /\ {"stop", "join"} \cap ToSet(hits) = {}

CancelUpload ==
    /\ phase \notin CallEnded \cup {"check", "settle"}
    /\ Len(hits) < MaxStrikes
    /\ hits' = Append(hits, phase)
    /\ failing' = TRUE
    /\ phase' = IF Shielded THEN phase ELSE AfterCancel(phase)
    /\ upload' \in {upload} \cup
           (CASE phase = "create" -> {"open"}
              [] phase = "complete" -> {"completed"}
              [] phase = "abort" /\ upload = "open" -> {"aborted"}
              [] OTHER -> {})
    /\ UNCHANGED <<known, read, sent, workVars, sentinels, failures>>

-----------------------------------------------------------------------------
(* A worker.                                                               *)

Take(w) ==
    /\ wpc[w] = "get"
    /\ partQueue # <<>>
    /\ partQueue' = Tail(partQueue)
    /\ item' = [item EXCEPT ![w] = Head(partQueue)]
    /\ wpc' = [wpc EXCEPT ![w] = IF Head(partQueue) = Sentinel THEN "stopped"
                                 ELSE IF error THEN "get" ELSE "upload"]
    /\ UNCHANGED <<phase, upload, known, read, sent, parts, error, sentinels, failing, failures,
                   hits>>

\* A failed part, or one without an ETag, sets the error; the worker goes on, to
\* drain the queue.  The bucket refuses parts of an upload that is over.
UploadPart(w) ==
    /\ wpc[w] = "upload"
    /\ \/ /\ upload = "open"
          /\ parts' = parts \cup {item[w]}
          /\ UNCHANGED <<error, failures>>
       \/ /\ IF upload = "open" THEN Fail ELSE UNCHANGED failures
          /\ error' = TRUE
          /\ UNCHANGED parts
    /\ wpc' = [wpc EXCEPT ![w] = "get"]
    /\ UNCHANGED <<phase, upload, known, read, sent, partQueue, item, sentinels, failing, hits>>

Caller ==
    \/ Create \/ Open \/ Read \/ Check \/ PutPart \/ CloseStream \/ StopWorker \/ Join \/ Settle
    \/ Complete \/ Abort

\* The upload is over when the call has ended: there TLC is not to report a deadlock.
UploadNext == Caller \/ CancelUpload \/ (\E w \in Workers : Take(w) \/ UploadPart(w))

UploadSpec == UploadInit /\ [][UploadNext]_uploadVars

\* Every task that can go on is run by the event loop sooner or later.
UploadFairSpec == UploadSpec /\ WF_uploadVars(Caller)
                 /\ \A w \in Workers : WF_uploadVars(Take(w)) /\ WF_uploadVars(UploadPart(w))

-----------------------------------------------------------------------------
(* Properties.                                                             *)

\* A completed object has every chunk of the archive: an upload that lost its
\* last parts, whose numbering shows no gap, is never completed.
CompletedIsWhole == upload = "completed" => parts = Parts /\ sent = Chunks

\* When the call has ended no worker is left, unless a cancellation struck the
\* closing of the stream or a second one the shutdown.
NoWorkerLeft ==
    phase \in CallEnded /\ (\E w \in Workers : wpc[w] \notin {"off", "stopped"})
        => \/ "close" \in ToSet(hits)
           \/ Len(hits) > 1 /\ {"stop", "join"} \cap ToSet(hits) # {}

\* When the call has ended the bucket holds no open upload, unless the failure
\* or the cancellation struck the creation or the abort.
NoUploadLeftOpen ==
    phase \in CallEnded /\ upload = "open"
        => \/ ToSet(hits) \cap {"create", "abort"} # {}
           \/ failures > 0

\* What a call that has ended leaves in the bucket and in the event loop
\* (snapshots.py:432-467).
UploadSettled == CompletedIsWhole /\ NoWorkerLeft /\ NoUploadLeftOpen
=============================================================================

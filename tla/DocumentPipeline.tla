-------------------------- MODULE DocumentPipeline --------------------------
(***************************************************************************)
(* Document ingestion: the upload handler (DocumentService), the BullMQ    *)
(* job it queues, the worker that runs the job (DocumentProcessor and      *)
(* VectorService), document deletion, and the three stores they share: the *)
(* uploads volume, Postgres and the queue's Redis.                         *)
(*                                                                         *)
(* One upload request has one temp file, one document id and one job (all  *)
(* fresh uuids), so every piece of state is indexed by the upload.  Each   *)
(* action is the code between two awaits; everything another request, the  *)
(* worker or a crash can do in between is an interleaving of Next.         *)
(*                                                                         *)
(* Abstracted: a document's chunk set is one statement in the code, so     *)
(* chunks counts the sets inserted; parser, size, token and empty-text     *)
(* guards all read the file only, so Unusable names the files that any of  *)
(* them rejects; traces and latency logs are left out.                     *)
(***************************************************************************)
EXTENDS Naturals

CONSTANTS
  Uploads,       \* upload requests
  Keys,          \* (sessionId, fileHash) pairs
  KeyOf,         \* the key of each upload
  Unusable,      \* uploads whose content the worker rejects
  MaxAttempts,   \* JOB_OPTIONS.attempts
  MaxStalled,    \* maxStalledCount of the @Processor decorator
  Faults         \* the faults the environment may produce

FaultKinds == {"crash",    \* the backend process dies and is restarted
               "stall",    \* the running job's lock expires under the worker
               "db",       \* a Postgres statement fails
               "queue",    \* queue.add rejects, with or without the job added
               "embed",    \* the embedding request fails after its retries
               "unlink"}   \* removing a temp file fails

ASSUME PipelineAssumption ==
  /\ KeyOf \in [Uploads -> Keys]
  /\ Unusable \subseteq Uploads
  /\ MaxAttempts \in Nat \ {0}
  /\ MaxStalled \in Nat
  /\ Faults \subseteq FaultKinds

VARIABLES
  files,      \* temp files present on the uploads volume
  handler,    \* where each upload request is
  row,        \* status of each document row, "none" where there is no row
  handle,     \* documents whose row has its jobId
  chunks,     \* chunk sets stored for each document
  job,        \* BullMQ state of each job
  made,       \* job.attemptsMade
  stalls,     \* BullMQ's stalled counter of each job
  step,       \* where the worker is in process(job)
  reaping,    \* onFailed callbacks about to unlink the file
  deleting    \* delete requests that have found the row

docVars == <<row, handle, chunks>>
queueVars == <<job, made, stalls>>
vars == <<files, handler, docVars, queueVars, step, reaping, deleting>>

RowStatus == {"PENDING", "PROCESSING", "COMPLETED", "FAILED"}

HandlerSteps == {"received", "duplicate", "creating", "enqueueing", "rollback", "saving"}
HandlerEnds == {"accepted", "refused", "errored", "unavailable", "lost"}

WorkerSteps == {"starting", "reading", "embedding", "storing", "completing",
                "cleaning", "acking", "failing", "reporting"}

JobStates == {"none", "waiting", "active", "delayed", "completed", "failed"}

TypeOK ==
  /\ files \subseteq Uploads
  /\ handler \in [Uploads -> {"idle"} \cup HandlerSteps \cup HandlerEnds]
  /\ row \in [Uploads -> {"none"} \cup RowStatus]
  /\ handle \subseteq Uploads
  /\ chunks \in [Uploads -> Nat]
  /\ job \in [Uploads -> JobStates]
  /\ made \in [Uploads -> 0..MaxAttempts]
  /\ stalls \in [Uploads -> 0..(MaxStalled + 1)]
  /\ step \in [Uploads -> {"idle"} \cup WorkerSteps]
  /\ reaping \subseteq Uploads
  /\ deleting \subseteq Uploads

Init ==
  /\ files = {}
  /\ handler = [u \in Uploads |-> "idle"]
  /\ row = [u \in Uploads |-> "none"]
  /\ handle = {}
  /\ chunks = [u \in Uploads |-> 0]
  /\ job = [u \in Uploads |-> "none"]
  /\ made = [u \in Uploads |-> 0]
  /\ stalls = [u \in Uploads |-> 0]
  /\ step = [u \in Uploads |-> "idle"]
  /\ reaping = {}
  /\ deleting = {}

Fault(kind) == kind \in Faults

HasRow(u) == row[u] # "none"

\* The unique index on (session_id, file_hash) has no entry for u's key.
KeyFree(u) == \A v \in Uploads : KeyOf[v] = KeyOf[u] => ~HasRow(v)

\* fs.promises.unlink(path).catch(...): a failure is logged and swallowed.
Unlink(u) == \/ files' = files \ {u}
             \/ Fault("unlink") /\ UNCHANGED files

HandlerAt(u, from, to) == /\ handler[u] = from
                          /\ handler' = [handler EXCEPT ![u] = to]

StepTo(u, from, to) == /\ step[u] = from
                       /\ step' = [step EXCEPT ![u] = to]

\* Deleting a document row cascades to its chunks.
DropRow(u) == /\ row' = [row EXCEPT ![u] = "none"]
              /\ handle' = handle \ {u}
              /\ chunks' = [chunks EXCEPT ![u] = 0]

-----------------------------------------------------------------------------
(* The upload request: DocumentService.uploadDocument.                     *)

\* multer has written the accepted file to a path of its own.
Receive(u) ==
  /\ HandlerAt(u, "idle", "received")
  /\ files' = files \cup {u}
  /\ UNCHANGED <<docVars, queueVars, step, reaping, deleting>>

\* document.findUnique on (sessionId, fileHash).
FindExisting(u) ==
  /\ \/ ~KeyFree(u) /\ HandlerAt(u, "received", "duplicate")
     \/ KeyFree(u) /\ HandlerAt(u, "received", "creating")
     \/ Fault("db") /\ HandlerAt(u, "received", "errored")
  /\ UNCHANGED <<files, docVars, queueVars, step, reaping, deleting>>

\* The duplicate's file is unlinked and the request answered with 409.
RefuseDuplicate(u) ==
  /\ HandlerAt(u, "duplicate", "refused")
  /\ Unlink(u)
  /\ UNCHANGED <<docVars, queueVars, step, reaping, deleting>>

\* Mutant: no unique index, the lookup alone keeps keys apart.
MutCreateUnindexed(u) ==
  /\ HandlerAt(u, "creating", "enqueueing")
  /\ row' = [row EXCEPT ![u] = "PENDING"]
  /\ UNCHANGED <<files, handle, chunks, queueVars, step, reaping, deleting>>

\* document.create; a key taken since FindExisting violates the unique index.
CreateRow(u) ==
  /\ \/ /\ KeyFree(u)
        /\ HandlerAt(u, "creating", "enqueueing")
        /\ row' = [row EXCEPT ![u] = "PENDING"]
     \/ /\ ~KeyFree(u) \/ Fault("db")
        /\ HandlerAt(u, "creating", "errored")
        /\ UNCHANGED row
  /\ UNCHANGED <<files, handle, chunks, queueVars, step, reaping, deleting>>

\* documentQueue.add; when it rejects, Redis may still have stored the job.
Enqueue(u) ==
  /\ \/ /\ HandlerAt(u, "enqueueing", "saving")
        /\ job' = [job EXCEPT ![u] = "waiting"]
     \/ /\ Fault("queue")
        /\ HandlerAt(u, "enqueueing", "rollback")
        /\ job' = job \/ job' = [job EXCEPT ![u] = "waiting"]
  /\ UNCHANGED <<files, docVars, made, stalls, step, reaping, deleting>>

\* Mutant: the row stays for the client to retry.
MutRollBack(u) ==
  /\ HandlerAt(u, "rollback", "unavailable")
  /\ UNCHANGED <<files, docVars, queueVars, step, reaping, deleting>>

\* Delete the row again, ignoring a failure, and answer 503.
RollBack(u) ==
  /\ HandlerAt(u, "rollback", "unavailable")
  /\ \/ DropRow(u)
     \/ Fault("db") /\ UNCHANGED docVars
  /\ UNCHANGED <<files, queueVars, step, reaping, deleting>>

\* Store the jobId.  Nobody knows the document id yet, so the row is there.
SaveJobId(u) ==
  /\ \/ HandlerAt(u, "saving", "accepted") /\ handle' = handle \cup {u}
     \/ Fault("db") /\ HandlerAt(u, "saving", "errored") /\ UNCHANGED handle
  /\ UNCHANGED <<files, row, chunks, queueVars, step, reaping, deleting>>

UploadStep(u) == \/ FindExisting(u) \/ RefuseDuplicate(u) \/ CreateRow(u)
                 \/ Enqueue(u) \/ RollBack(u) \/ SaveJobId(u)

-----------------------------------------------------------------------------
(* A run of the job: DocumentProcessor.process, one job at a time.         *)

\* BullMQ hands the worker a waiting job and its lock.
Take(u) ==
  /\ job[u] = "waiting"
  /\ \A v \in Uploads : step[v] = "idle"
  /\ job' = [job EXCEPT ![u] = "active"]
  /\ step' = [step EXCEPT ![u] = "starting"]
  /\ UNCHANGED <<files, handler, docVars, made, stalls, reaping, deleting>>

\* An UPDATE of the row that moves the run on; it throws where the row is gone.
UpdateRow(u, from, status, to) ==
  \/ /\ HasRow(u)
     /\ StepTo(u, from, to)
     /\ row' = [row EXCEPT ![u] = status]
  \/ /\ ~HasRow(u) \/ Fault("db")
     /\ StepTo(u, from, "failing")
     /\ UNCHANGED row

\* Phase 1: mark the document PROCESSING.
StartRun(u) ==
  /\ UpdateRow(u, "starting", "PROCESSING", "reading")
  /\ UNCHANGED <<files, handler, handle, chunks, queueVars, reaping, deleting>>

\* Mutant: no zero-chunk guard; embedAndStore returns at once for no chunks.
MutReadUnguarded(u) ==
  /\ \/ u \in files \ Unusable /\ StepTo(u, "reading", "embedding")
     \/ u \in files \cap Unusable /\ StepTo(u, "reading", "completing")
     \/ u \notin files /\ StepTo(u, "reading", "failing")
  /\ UNCHANGED <<files, handler, docVars, queueVars, reaping, deleting>>

\* Mutant: a missing file is waited for.
MutReadPatiently(u) ==
  /\ \/ u \in files \ Unusable /\ StepTo(u, "reading", "embedding")
     \/ u \in files \cap Unusable /\ StepTo(u, "reading", "failing")
     \/ u \notin files /\ StepTo(u, "reading", "starting")
  /\ UNCHANGED <<files, handler, docVars, queueVars, reaping, deleting>>

\* Phases 2 to 5: the file is there, within its limits, parsed and split.
ReadFile(u) ==
  /\ \/ u \in files \ Unusable /\ StepTo(u, "reading", "embedding")
     \/ u \notin files \ Unusable /\ StepTo(u, "reading", "failing")
  /\ UNCHANGED <<files, handler, docVars, queueVars, reaping, deleting>>

\* Mutant: each batch of chunks is stored as soon as it is embedded.
MutEmbedAndKeep(u) ==
  /\ \/ StepTo(u, "embedding", "storing") /\ UNCHANGED chunks
     \/ /\ Fault("embed") /\ HasRow(u)
        /\ StepTo(u, "embedding", "failing")
        /\ chunks' = [chunks EXCEPT ![u] = @ + 1]
  /\ UNCHANGED <<files, handler, row, handle, queueVars, reaping, deleting>>

\* Phase 6: the embedding request.
Embed(u) ==
  /\ \/ StepTo(u, "embedding", "storing")
     \/ Fault("embed") /\ StepTo(u, "embedding", "failing")
  /\ UNCHANGED <<files, handler, docVars, queueVars, reaping, deleting>>

\* Mutant: the chunk table has no foreign key to documents.
MutStoreUnreferenced(u) ==
  /\ StepTo(u, "storing", "completing")
  /\ chunks' = [chunks EXCEPT ![u] = @ + 1]
  /\ UNCHANGED <<files, handler, row, handle, queueVars, reaping, deleting>>

\* Phase 7: one INSERT of all chunks; the foreign key needs the row.
StoreChunks(u) ==
  /\ \/ /\ HasRow(u)
        /\ StepTo(u, "storing", "completing")
        /\ chunks' = [chunks EXCEPT ![u] = @ + 1]
     \/ /\ ~HasRow(u) \/ Fault("db")
        /\ StepTo(u, "storing", "failing")
        /\ UNCHANGED chunks
  /\ UNCHANGED <<files, handler, row, handle, queueVars, reaping, deleting>>

\* Phase 8: mark the document COMPLETED.
CompleteRow(u) ==
  /\ UpdateRow(u, "completing", "COMPLETED", "cleaning")
  /\ UNCHANGED <<files, handler, handle, chunks, queueVars, reaping, deleting>>

\* Phase 9: remove the temp file.
RemoveFile(u) ==
  /\ StepTo(u, "cleaning", "acking")
  /\ Unlink(u)
  /\ UNCHANGED <<handler, docVars, queueVars, reaping, deleting>>

\* process() returned: BullMQ completes the job if the worker still owns it.
Acknowledge(u) ==
  /\ StepTo(u, "acking", "idle")
  /\ job' = IF job[u] = "active" THEN [job EXCEPT ![u] = "completed"] ELSE job
  /\ UNCHANGED <<files, handler, docVars, made, stalls, reaping, deleting>>

\* Mutant: the failure is recorded by an upsert.
MutRecordByUpsert(u) ==
  /\ StepTo(u, "failing", "reporting")
  /\ row' = [row EXCEPT ![u] = "FAILED"]
  /\ UNCHANGED <<files, handler, handle, chunks, queueVars, reaping, deleting>>

\* Mutant: the failure is only logged.
MutRecordNothing(u) ==
  /\ StepTo(u, "failing", "reporting")
  /\ UNCHANGED <<files, handler, docVars, queueVars, reaping, deleting>>

\* The catch block: mark the document FAILED, swallowing a failed update.
RecordFailure(u) ==
  /\ StepTo(u, "failing", "reporting")
  /\ \/ HasRow(u) /\ row' = [row EXCEPT ![u] = "FAILED"]
     \/ (~HasRow(u) \/ Fault("db")) /\ UNCHANGED row
  /\ UNCHANGED <<files, handler, handle, chunks, queueVars, reaping, deleting>>

\* Mutant: every failed attempt removes the file.
MutReapAlways(u, attemptsMade) == reaping' = reaping \cup {u}

\* Mutant: attemptsMade is compared with > instead of >=.
MutReapNever(u, attemptsMade) ==
  reaping' = IF attemptsMade > MaxAttempts THEN reaping \cup {u} ELSE reaping

\* onFailed: the file goes only when the attempts are used up.
Reap(u, attemptsMade) ==
  reaping' = IF attemptsMade >= MaxAttempts THEN reaping \cup {u} ELSE reaping

\* process() threw: BullMQ counts the attempt, delays a retry or gives up,
\* and emits "failed".  A worker that lost the lock changes nothing.
ReportFailure(u) ==
  /\ StepTo(u, "reporting", "idle")
  /\ IF job[u] = "active"
     THEN /\ made' = [made EXCEPT ![u] = @ + 1]
          /\ job' = [job EXCEPT ![u] = IF made[u] + 1 < MaxAttempts THEN "delayed"
                                                                    ELSE "failed"]
          /\ Reap(u, made[u] + 1)
     ELSE UNCHANGED <<job, made, reaping>>
  /\ UNCHANGED <<files, handler, docVars, stalls, deleting>>

WorkerStep(u) == \/ Take(u) \/ StartRun(u) \/ ReadFile(u) \/ Embed(u) \/ StoreChunks(u)
                 \/ CompleteRow(u) \/ RemoveFile(u) \/ Acknowledge(u)
                 \/ RecordFailure(u) \/ ReportFailure(u)

\* The unlink that an onFailed callback started.
ReapFile(u) ==
  /\ u \in reaping
  /\ reaping' = reaping \ {u}
  /\ Unlink(u)
  /\ UNCHANGED <<handler, docVars, queueVars, step, deleting>>

-----------------------------------------------------------------------------
(* The queue on its own: back-off and the stalled-job sweep.               *)

BackOffOver(u) ==
  /\ job[u] = "delayed"
  /\ job' = [job EXCEPT ![u] = "waiting"]
  /\ UNCHANGED <<files, handler, docVars, made, stalls, step, reaping, deleting>>

\* Mutant: > for >=.
MutStalledOut(u) == stalls[u] > MaxStalled

\* maxStalledCount: the next stall of the job is its last.
StalledOut(u) == stalls[u] >= MaxStalled

\* A job whose lock expired goes back to the queue, or fails once it stalled
\* more than MaxStalled times.  process() is not entered for that failure;
\* whether it counts as an attempt is BullMQ's business.
Redeliver(u) ==
  /\ job[u] = "active"
  /\ stalls' = [stalls EXCEPT ![u] = @ + 1]
  /\ IF StalledOut(u)
     THEN /\ job' = [job EXCEPT ![u] = "failed"]
          /\ made' = made \/ made' = [made EXCEPT ![u] = @ + 1]
          /\ Reap(u, made'[u])
     ELSE /\ job' = [job EXCEPT ![u] = "waiting"]
          /\ UNCHANGED <<made, reaping>>
  /\ UNCHANGED <<files, handler, docVars, step, deleting>>

\* The worker that held the job died.
SweepAbandoned(u) == step[u] = "idle" /\ Redeliver(u)

\* The worker still runs it but did not renew its lock in time.
LoseLock(u) == Fault("stall") /\ step[u] # "idle" /\ Redeliver(u)

-----------------------------------------------------------------------------
(* Deletion by the owning session, which learnt the id from the response.  *)

FindForDelete(u) ==
  /\ handler[u] = "accepted"
  /\ HasRow(u)
  /\ u \notin deleting
  /\ deleting' = deleting \cup {u}
  /\ UNCHANGED <<files, handler, docVars, queueVars, step, reaping>>

DeleteRow(u) ==
  /\ u \in deleting
  /\ deleting' = deleting \ {u}
  /\ \/ DropRow(u)
     \/ Fault("db") /\ UNCHANGED docVars
  /\ UNCHANGED <<files, handler, queueVars, step, reaping>>

\* Requests in flight, the running job and pending callbacks die with the
\* process; the volume, Postgres and Redis survive.
Crash ==
  /\ Fault("crash")
  /\ \/ \E u \in Uploads : handler[u] \in HandlerSteps \/ step[u] # "idle"
     \/ reaping # {}
     \/ deleting # {}
  /\ handler' = [u \in Uploads |-> IF handler[u] \in HandlerSteps THEN "lost" ELSE handler[u]]
  /\ step' = [u \in Uploads |-> "idle"]
  /\ reaping' = {}
  /\ deleting' = {}
  /\ UNCHANGED <<files, docVars, queueVars>>

\* What happens without a new request.
Backend == \/ \E u \in Uploads :
                \/ UploadStep(u) \/ WorkerStep(u) \/ ReapFile(u) \/ BackOffOver(u)
                \/ SweepAbandoned(u) \/ LoseLock(u) \/ DeleteRow(u)
           \/ Crash

Next == \/ \E u \in Uploads : Receive(u) \/ FindForDelete(u)
        \/ Backend

Spec == Init /\ [][Next]_vars

\* Awaited promises resolve, the worker keeps taking jobs, timers fire and
\* the sweep runs.  Arrivals, deletions, lost locks and crashes are not owed.
Fairness == \A u \in Uploads : /\ WF_vars(UploadStep(u))
                               /\ WF_vars(WorkerStep(u))
                               /\ WF_vars(ReapFile(u))
                               /\ WF_vars(BackOffOver(u))
                               /\ WF_vars(SweepAbandoned(u))
                               /\ WF_vars(DeleteRow(u))

FairSpec == Spec /\ Fairness

-----------------------------------------------------------------------------
(* What ingestion guarantees.                                              *)

\* Retrieval never sees text of a document that is gone: deleting a document
\* while the worker embeds or stores it leaves no chunk behind.
NoOrphanChunks == \A u \in Uploads : chunks[u] > 0 => HasRow(u)

\* Two concurrent uploads of one file in one session never both hold a row,
\* although the dedup lookup and the insert are separate statements.
OneRowPerKey ==
  \A u, v \in Uploads : HasRow(u) /\ HasRow(v) /\ KeyOf[u] = KeyOf[v] => u = v

\* A document shown as COMPLETED has text to retrieve, however often its job
\* was retried or redelivered.
CompletedHasChunks == \A u \in Uploads : row[u] = "COMPLETED" => chunks[u] > 0

\* The job may still be run, or is being run and has not read the file yet.
MayRun(u) == \/ job[u] \in {"waiting", "delayed"}
             \/ job[u] = "active" /\ step[u] \in {"idle", "starting", "reading"}

\* A run finds its file: cleanup on success and on the final failure never
\* takes it from a retry, unless the text is already stored or the document
\* is gone.
FileKeptForRetry ==
  \A u \in Uploads : MayRun(u) /\ HasRow(u) => u \in files \/ chunks[u] > 0

\* Once the queue has given up on a job and its run is over, the document's
\* status says so: nobody polls a PENDING or PROCESSING row for ever.
GivenUpIsFinal ==
  \A u \in Uploads :
    job[u] = "failed" /\ step[u] = "idle" => row[u] \notin {"PENDING", "PROCESSING"}

\* Retries and back-off end: every queued job completes or is given up, even
\* if every run of it crashes the process.
JobsSettle ==
  \A u \in Uploads : job[u] = "waiting" ~> job[u] \in {"completed", "failed"}

\* The temp file of every queued document is removed, whatever became of it.
FilesReclaimed == \A u \in Uploads : job[u] = "waiting" ~> u \notin files

\* An accepted document reaches a status the client stops polling at, and
\* does not leave it again.
StatusSettles ==
  \A u \in Uploads : handler[u] = "accepted"
                         ~> [](row[u] \in {"none", "COMPLETED", "FAILED"})

\* A request that was turned away because its content is already there leaves
\* no temp file.
DuplicateLeavesNoFile ==
  \A u \in Uploads : handler[u] \in {"refused", "errored"} => u \notin files

\* A PENDING document always has a job that will move it on, or a handler
\* that is about to create one or take the document back.
PendingHasJob ==
  \A u \in Uploads : row[u] = "PENDING" /\ job[u] = "none"
                         => handler[u] \in {"enqueueing", "rollback"}

-----------------------------------------------------------------------------
(* The pipeline implements the life of a document.                         *)

\* A handler that ends in one of these states had created its row.
Created(u) == handler[u] \in {"accepted", "unavailable"}

Life == [u \in Uploads |-> IF HasRow(u) THEN row[u]
                           ELSE IF Created(u) THEN "removed" ELSE "absent"]

Lifecycle == INSTANCE DocumentLifecycle
             WITH Docs <- Uploads, life <- Life, copies <- chunks,
                  Redelivery <- Faults \cap {"crash", "stall", "db"} # {}

\* Every step of handlers, worker, queue and crashes is a step of one
\* document's life or none: no status, chunk set or row comes from nowhere.
ImplementsLifecycle == Lifecycle!LifeSpec
=============================================================================

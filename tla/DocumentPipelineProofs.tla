----------------------- MODULE DocumentPipelineProofs -----------------------
(***************************************************************************)
(* The safety of document ingestion for any number of uploads, any keys    *)
(* and any subset of the faults.                                           *)
(***************************************************************************)
EXTENDS DocumentPipeline, TLAPS

\* A job that is not over has attempts and stalls left, and one that was
\* never queued has used none.
Budget ==
  \A u \in Uploads :
    /\ job[u] \in {"waiting", "active", "delayed"} => made[u] < MaxAttempts /\ stalls[u] <= MaxStalled
    /\ job[u] = "none" => made[u] = 0 /\ stalls[u] = 0

\* What a request that is still short of queue.add cannot have done.
Handlers ==
  \A u \in Uploads :
    /\ handler[u] \in {"idle", "received", "duplicate", "creating", "enqueueing", "refused"}
         => job[u] = "none"
    /\ step[u] # "idle" => job[u] # "none"

TypeInv == TypeOK /\ Budget /\ Handlers

USE PipelineAssumption

LEMMA TypeInvInit == Init => TypeInv
BY DEF Init, TypeInv, TypeOK, Budget, Handlers, HandlerSteps, HandlerEnds, WorkerSteps, JobStates, RowStatus

LEMMA TypeInvUpload ==
  ASSUME TypeInv, NEW u \in Uploads, Receive(u) \/ UploadStep(u)
  PROVE  TypeInv'
<1> USE DEF TypeInv, TypeOK, Budget, Handlers, HandlerSteps, HandlerEnds, WorkerSteps, JobStates,
            RowStatus, docVars, queueVars, HandlerAt
<1>1. CASE Receive(u)
  BY <1>1 DEF Receive
<1>2. CASE FindExisting(u)
  BY <1>2 DEF FindExisting
<1>3. CASE RefuseDuplicate(u)
  BY <1>3 DEF RefuseDuplicate, Unlink
<1>4. CASE CreateRow(u)
  BY <1>4 DEF CreateRow
<1>5. CASE Enqueue(u)
  BY <1>5 DEF Enqueue
<1>6. CASE RollBack(u)
  BY <1>6 DEF RollBack, DropRow
<1>7. CASE SaveJobId(u)
  BY <1>7 DEF SaveJobId
<1> QED BY <1>1, <1>2, <1>3, <1>4, <1>5, <1>6, <1>7 DEF UploadStep

LEMMA TypeInvWorker ==
  ASSUME TypeInv, NEW u \in Uploads, WorkerStep(u)
  PROVE  TypeInv'
<1> USE DEF TypeInv, TypeOK, Budget, Handlers, HandlerSteps, HandlerEnds, WorkerSteps, JobStates,
            RowStatus, docVars, queueVars, StepTo
<1>1. CASE Take(u)
  BY <1>1 DEF Take
<1>2. CASE StartRun(u)
  BY <1>2 DEF StartRun, UpdateRow
<1>3. CASE ReadFile(u)
  BY <1>3 DEF ReadFile
<1>4. CASE Embed(u)
  BY <1>4 DEF Embed
<1>5. CASE StoreChunks(u)
  BY <1>5 DEF StoreChunks
<1>6. CASE CompleteRow(u)
  BY <1>6 DEF CompleteRow, UpdateRow
<1>7. CASE RemoveFile(u)
  BY <1>7 DEF RemoveFile, Unlink
<1>8. CASE Acknowledge(u)
  BY <1>8 DEF Acknowledge
<1>9. CASE RecordFailure(u)
  BY <1>9 DEF RecordFailure
<1>10. CASE ReportFailure(u)
  BY <1>10 DEF ReportFailure, Reap
<1> QED BY <1>1, <1>2, <1>3, <1>4, <1>5, <1>6, <1>7, <1>8, <1>9, <1>10 DEF WorkerStep

LEMMA TypeInvRest ==
  ASSUME TypeInv,
         \/ \E u \in Uploads : \/ ReapFile(u) \/ BackOffOver(u) \/ SweepAbandoned(u)
                               \/ LoseLock(u) \/ FindForDelete(u) \/ DeleteRow(u)
         \/ Crash
         \/ UNCHANGED vars
  PROVE  TypeInv'
<1> USE DEF TypeInv, TypeOK, Budget, Handlers, HandlerSteps, HandlerEnds, WorkerSteps, JobStates,
            RowStatus, docVars, queueVars
<1>1. ASSUME NEW u \in Uploads, ReapFile(u) PROVE TypeInv'
  BY <1>1 DEF ReapFile, Unlink
<1>2. ASSUME NEW u \in Uploads, BackOffOver(u) PROVE TypeInv'
  BY <1>2 DEF BackOffOver
<1>3. ASSUME NEW u \in Uploads, Redeliver(u) PROVE TypeInv'
  BY <1>3 DEF Redeliver, StalledOut, Reap
<1>4. ASSUME NEW u \in Uploads, FindForDelete(u) PROVE TypeInv'
  BY <1>4 DEF FindForDelete
<1>5. ASSUME NEW u \in Uploads, DeleteRow(u) PROVE TypeInv'
  BY <1>5 DEF DeleteRow, DropRow
<1>6. CASE Crash
  BY <1>6 DEF Crash
<1>7. CASE UNCHANGED vars
  BY <1>7 DEF vars
<1> QED BY <1>1, <1>2, <1>3, <1>4, <1>5, <1>6, <1>7 DEF SweepAbandoned, LoseLock

LEMMA TypeInvStep == TypeInv /\ [Next]_vars => TypeInv'
BY TypeInvUpload, TypeInvWorker, TypeInvRest DEF Next, Backend

\* Every variable of handlers, worker and queue keeps its type; in particular
\* attempts never exceed MaxAttempts and stalls never exceed MaxStalled + 1.
THEOREM TypeCorrect == Spec => []TypeOK
<1>1. Spec => []TypeInv
  BY TypeInvInit, TypeInvStep, PTL DEF Spec
<1> QED BY <1>1, PTL DEF TypeInv

-----------------------------------------------------------------------------
(* The inductive invariant behind the safety properties.                   *)

\* Before document.create there is no row, up to the jobId there is one, and
\* only an accepted upload is ever deleted.  A jobId is part of a row.
RowInv ==
  \A u \in Uploads :
    /\ handler[u] \in {"idle", "received", "duplicate", "creating", "refused"} => ~HasRow(u)
    /\ handler[u] \in {"enqueueing", "rollback", "saving"} => HasRow(u)
    /\ u \in deleting => handler[u] = "accepted"
    /\ u \in handle => HasRow(u)

\* Chunks belong to a row; a run that is past the INSERT left some behind,
\* and while it works on the text the row says so.
ChunkInv ==
  \A u \in Uploads :
    /\ chunks[u] > 0 => HasRow(u)
    /\ row[u] = "COMPLETED" => chunks[u] > 0
    /\ step[u] \in {"completing", "cleaning"} /\ HasRow(u) => chunks[u] > 0
    /\ step[u] \in {"reading", "embedding", "storing", "completing"} /\ HasRow(u)
         => row[u] = "PROCESSING"

\* A file that is gone was refused, given up on, or is stored as chunks.
FileInv ==
  \A u \in Uploads :
    /\ job[u] = "none" => u \in files \/ handler[u] \in {"idle", "refused"}
    /\ u \in reaping => job[u] = "failed"
    /\ HasRow(u) /\ u \notin files => job[u] = "failed" \/ chunks[u] > 0

Inv == TypeInv /\ RowInv /\ ChunkInv /\ FileInv /\ OneRowPerKey

LEMMA InvInit == Init => Inv
<1> SUFFICES ASSUME Init PROVE Inv
  OBVIOUS
<1>1. TypeInv
  BY TypeInvInit
<1>2. RowInv /\ ChunkInv /\ FileInv /\ OneRowPerKey
  BY DEF Init, RowInv, ChunkInv, FileInv, OneRowPerKey, HasRow
<1> QED BY <1>1, <1>2 DEF Inv

LEMMA InvUpload ==
  ASSUME Inv, NEW u \in Uploads, Receive(u) \/ UploadStep(u)
  PROVE  RowInv' /\ ChunkInv' /\ FileInv' /\ OneRowPerKey'
<1> USE DEF Inv, TypeInv, TypeOK, Handlers, RowInv, ChunkInv, FileInv, OneRowPerKey, HasRow,
            HandlerSteps, HandlerEnds, WorkerSteps, JobStates, RowStatus, docVars, queueVars, HandlerAt
<1>1. CASE Receive(u)
  BY <1>1 DEF Receive
<1>2. CASE FindExisting(u)
  BY <1>2 DEF FindExisting
<1>3. CASE RefuseDuplicate(u)
  BY <1>3 DEF RefuseDuplicate, Unlink
<1>4. CASE CreateRow(u)
  BY <1>4 DEF CreateRow, KeyFree
<1>5. CASE Enqueue(u)
  BY <1>5 DEF Enqueue
<1>6. CASE RollBack(u)
  BY <1>6 DEF RollBack, DropRow
<1>7. CASE SaveJobId(u)
  BY <1>7 DEF SaveJobId
<1> QED BY <1>1, <1>2, <1>3, <1>4, <1>5, <1>6, <1>7 DEF UploadStep

LEMMA InvWorker ==
  ASSUME Inv, NEW u \in Uploads, WorkerStep(u)
  PROVE  RowInv' /\ ChunkInv' /\ FileInv' /\ OneRowPerKey'
<1> USE DEF Inv, TypeInv, TypeOK, Handlers, RowInv, ChunkInv, FileInv, OneRowPerKey, HasRow,
            HandlerSteps, HandlerEnds, WorkerSteps, JobStates, RowStatus, docVars, queueVars, StepTo
<1>1. CASE Take(u)
  BY <1>1 DEF Take
<1>2. CASE StartRun(u)
  BY <1>2 DEF StartRun, UpdateRow
<1>3. CASE ReadFile(u)
  BY <1>3 DEF ReadFile
<1>4. CASE Embed(u)
  BY <1>4 DEF Embed
<1>5. CASE StoreChunks(u)
  BY <1>5 DEF StoreChunks
<1>6. CASE CompleteRow(u)
  BY <1>6 DEF CompleteRow, UpdateRow
<1>7. CASE RemoveFile(u)
  BY <1>7 DEF RemoveFile, Unlink
<1>8. CASE Acknowledge(u)
  BY <1>8 DEF Acknowledge
<1>9. CASE RecordFailure(u)
  BY <1>9 DEF RecordFailure
<1>10. CASE ReportFailure(u)
  BY <1>10 DEF ReportFailure, Reap
<1> QED BY <1>1, <1>2, <1>3, <1>4, <1>5, <1>6, <1>7, <1>8, <1>9, <1>10 DEF WorkerStep

LEMMA InvRest ==
  ASSUME Inv,
         \/ \E u \in Uploads : \/ ReapFile(u) \/ BackOffOver(u) \/ SweepAbandoned(u)
                               \/ LoseLock(u) \/ FindForDelete(u) \/ DeleteRow(u)
         \/ Crash
         \/ UNCHANGED vars
  PROVE  RowInv' /\ ChunkInv' /\ FileInv' /\ OneRowPerKey'
<1> USE DEF Inv, TypeInv, TypeOK, Handlers, RowInv, ChunkInv, FileInv, OneRowPerKey, HasRow,
            HandlerSteps, HandlerEnds, WorkerSteps, JobStates, RowStatus, docVars, queueVars
<1> DEFINE Kept == RowInv' /\ ChunkInv' /\ FileInv' /\ OneRowPerKey'
<1>1. ASSUME NEW u \in Uploads, ReapFile(u) PROVE Kept
  BY <1>1 DEF ReapFile, Unlink
<1>2. ASSUME NEW u \in Uploads, BackOffOver(u) PROVE Kept
  BY <1>2 DEF BackOffOver
<1>3. ASSUME NEW u \in Uploads, Redeliver(u) PROVE Kept
  BY <1>3 DEF Redeliver, StalledOut, Reap
<1>4. ASSUME NEW u \in Uploads, FindForDelete(u) PROVE Kept
  BY <1>4 DEF FindForDelete
<1>5. ASSUME NEW u \in Uploads, DeleteRow(u) PROVE Kept
  BY <1>5 DEF DeleteRow, DropRow
<1>6. CASE Crash
  BY <1>6 DEF Crash
<1>7. CASE UNCHANGED vars
  BY <1>7 DEF vars
<1> QED BY <1>1, <1>2, <1>3, <1>4, <1>5, <1>6, <1>7 DEF SweepAbandoned, LoseLock

LEMMA InvStep == Inv /\ [Next]_vars => Inv'
<1> SUFFICES ASSUME Inv, [Next]_vars PROVE Inv'
  OBVIOUS
<1>1. TypeInv'
  BY TypeInvStep DEF Inv
<1>2. RowInv' /\ ChunkInv' /\ FileInv' /\ OneRowPerKey'
  BY InvUpload, InvWorker, InvRest DEF Next, Backend
<1> QED BY <1>1, <1>2 DEF Inv

LEMMA SpecInv == Spec => []Inv
BY InvInit, InvStep, PTL DEF Spec

\* Deleting a document, at any point of its job, leaves no text of it.
THEOREM NoOrphans == Spec => []NoOrphanChunks
<1>1. Inv => NoOrphanChunks
  BY DEF Inv, ChunkInv, NoOrphanChunks
<1> QED BY SpecInv, <1>1, PTL

\* The unique index makes the dedup lookup safe for concurrent uploads.
THEOREM KeysAreUnique == Spec => []OneRowPerKey
<1>1. Inv => OneRowPerKey
  BY DEF Inv
<1> QED BY SpecInv, <1>1, PTL

\* COMPLETED is never a lie about the text being there.
THEOREM CompletedIsSearchable == Spec => []CompletedHasChunks
<1>1. Inv => CompletedHasChunks
  BY DEF Inv, ChunkInv, CompletedHasChunks
<1> QED BY SpecInv, <1>1, PTL

\* Cleanup never takes the file from a run that needs it, under any retries,
\* redeliveries and crashes.
THEOREM RetriesFindTheirFile == Spec => []FileKeptForRetry
<1>1. Inv => FileKeptForRetry
  BY DEF Inv, FileInv, FileKeptForRetry, MayRun
<1> QED BY SpecInv, <1>1, PTL

-----------------------------------------------------------------------------
(* Without crashes, lost locks and failed database writes no job is        *)
(* redelivered, and the status of a document follows its job exactly.      *)

Steady == Faults \cap {"crash", "stall", "db"} = {}

SteadyInv ==
  \A u \in Uploads :
    /\ job[u] = "active" <=> step[u] # "idle"
    /\ (job[u] \in {"none", "waiting", "delayed"} \/ step[u] = "starting") /\ HasRow(u)
         => row[u] \in {"PENDING", "FAILED"} /\ chunks[u] = 0
    /\ step[u] \in {"reading", "embedding", "storing", "failing"} /\ HasRow(u)
         => row[u] = "PROCESSING" /\ chunks[u] = 0
    /\ (step[u] = "reporting" \/ job[u] = "failed") /\ HasRow(u)
         => row[u] = "FAILED" /\ chunks[u] = 0

LEMMA SteadyInit == Init => SteadyInv
BY DEF Init, SteadyInv, HasRow

LEMMA SteadyUpload ==
  ASSUME Steady, Inv, SteadyInv, NEW u \in Uploads, Receive(u) \/ UploadStep(u)
  PROVE  SteadyInv'
<1> USE DEF Steady, Fault, SteadyInv, Inv, TypeInv, TypeOK, Handlers, RowInv, ChunkInv, HasRow,
            HandlerSteps, HandlerEnds, WorkerSteps, JobStates, RowStatus, docVars, queueVars, HandlerAt
<1>1. CASE Receive(u)
  BY <1>1 DEF Receive
<1>2. CASE FindExisting(u)
  BY <1>2 DEF FindExisting
<1>3. CASE RefuseDuplicate(u)
  BY <1>3 DEF RefuseDuplicate
<1>4. CASE CreateRow(u)
  BY <1>4 DEF CreateRow
<1>5. CASE Enqueue(u)
  BY <1>5 DEF Enqueue
<1>6. CASE RollBack(u)
  BY <1>6 DEF RollBack, DropRow
<1>7. CASE SaveJobId(u)
  BY <1>7 DEF SaveJobId
<1> QED BY <1>1, <1>2, <1>3, <1>4, <1>5, <1>6, <1>7 DEF UploadStep

LEMMA SteadyWorker ==
  ASSUME Steady, Inv, SteadyInv, NEW u \in Uploads, WorkerStep(u)
  PROVE  SteadyInv'
<1> USE DEF Steady, Fault, SteadyInv, Inv, TypeInv, TypeOK, Handlers, RowInv, ChunkInv, HasRow,
            HandlerSteps, HandlerEnds, WorkerSteps, JobStates, RowStatus, docVars, queueVars, StepTo
<1>1. CASE Take(u)
  BY <1>1 DEF Take
<1>2. CASE StartRun(u)
  BY <1>2 DEF StartRun, UpdateRow
<1>3. CASE ReadFile(u)
  BY <1>3 DEF ReadFile
<1>4. CASE Embed(u)
  BY <1>4 DEF Embed
<1>5. CASE StoreChunks(u)
  BY <1>5 DEF StoreChunks
<1>6. CASE CompleteRow(u)
  BY <1>6 DEF CompleteRow, UpdateRow
<1>7. CASE RemoveFile(u)
  BY <1>7 DEF RemoveFile
<1>8. CASE Acknowledge(u)
  BY <1>8 DEF Acknowledge
<1>9. CASE RecordFailure(u)
  BY <1>9 DEF RecordFailure
<1>10. CASE ReportFailure(u)
  BY <1>10 DEF ReportFailure
<1> QED BY <1>1, <1>2, <1>3, <1>4, <1>5, <1>6, <1>7, <1>8, <1>9, <1>10 DEF WorkerStep

LEMMA SteadyRest ==
  ASSUME Steady, Inv, SteadyInv,
         \/ \E u \in Uploads : \/ ReapFile(u) \/ BackOffOver(u) \/ SweepAbandoned(u)
                               \/ LoseLock(u) \/ FindForDelete(u) \/ DeleteRow(u)
         \/ Crash
         \/ UNCHANGED vars
  PROVE  SteadyInv'
<1> USE DEF Steady, Fault, SteadyInv, Inv, TypeInv, TypeOK, HasRow, docVars, queueVars
<1>1. ASSUME NEW u \in Uploads, ReapFile(u) PROVE SteadyInv'
  BY <1>1 DEF ReapFile
<1>2. ASSUME NEW u \in Uploads, BackOffOver(u) PROVE SteadyInv'
  BY <1>2 DEF BackOffOver
<1>3. ASSUME NEW u \in Uploads, SweepAbandoned(u) \/ LoseLock(u) PROVE SteadyInv'
  BY <1>3 DEF SweepAbandoned, LoseLock, Redeliver
<1>4. ASSUME NEW u \in Uploads, FindForDelete(u) PROVE SteadyInv'
  BY <1>4 DEF FindForDelete
<1>5. ASSUME NEW u \in Uploads, DeleteRow(u) PROVE SteadyInv'
  BY <1>5 DEF DeleteRow, DropRow
<1>6. CASE Crash
  BY <1>6 DEF Crash
<1>7. CASE UNCHANGED vars
  BY <1>7 DEF vars
<1> QED BY <1>1, <1>2, <1>3, <1>4, <1>5, <1>6, <1>7

LEMMA SteadyStep ==
  ASSUME Steady
  PROVE  Inv /\ SteadyInv /\ [Next]_vars => SteadyInv'
BY SteadyUpload, SteadyWorker, SteadyRest DEF Next, Backend

LEMMA SpecSteady ==
  ASSUME Steady
  PROVE  Spec => []SteadyInv
BY SpecInv, SteadyInit, SteadyStep, PTL DEF Spec

\* Without redelivery, a job that used up its attempts has left FAILED behind.
THEOREM GivingUpIsRecorded ==
  ASSUME Steady
  PROVE  Spec => []GivenUpIsFinal
<1>1. SteadyInv => GivenUpIsFinal
  BY DEF SteadyInv, GivenUpIsFinal, HasRow
<1> QED BY SpecSteady, <1>1, PTL

-----------------------------------------------------------------------------
(* A row without a job.  A crash between document.create and queue.add     *)
(* leaves one, and so does a queue.add that rejects where the row cannot   *)
(* be taken back.                                                          *)

Accompanied == "crash" \notin Faults /\ ~({"queue", "db"} \subseteq Faults)

PendingInv ==
  /\ PendingHasJob
  /\ \A u \in Uploads : handler[u] = "rollback" => Fault("queue")

LEMMA PendingUpload ==
  ASSUME Accompanied, TypeInv, PendingInv, NEW u \in Uploads, Receive(u) \/ UploadStep(u)
  PROVE  PendingInv'
<1> USE DEF PendingInv, PendingHasJob, TypeInv, TypeOK, HandlerAt, docVars, queueVars
<1>1. CASE Receive(u)
  BY <1>1 DEF Receive
<1>2. CASE FindExisting(u) \/ RefuseDuplicate(u)
  BY <1>2 DEF FindExisting, RefuseDuplicate
<1>3. CASE CreateRow(u)
  BY <1>3 DEF CreateRow
<1>4. CASE Enqueue(u)
  BY <1>4 DEF Enqueue
<1>5. CASE RollBack(u)
  <2>1. CASE DropRow(u)
    BY <1>5, <2>1 DEF RollBack, DropRow
  <2>2. CASE Fault("db") /\ UNCHANGED docVars
    BY <1>5, <2>2 DEF RollBack, Fault, Accompanied
  <2> QED BY <1>5, <2>1, <2>2 DEF RollBack
<1>6. CASE SaveJobId(u)
  BY <1>6 DEF SaveJobId
<1> QED BY <1>1, <1>2, <1>3, <1>4, <1>5, <1>6 DEF UploadStep

LEMMA PendingRest ==
  ASSUME Accompanied, TypeInv, PendingInv,
         \/ \E u \in Uploads : \/ WorkerStep(u) \/ ReapFile(u) \/ BackOffOver(u)
                               \/ SweepAbandoned(u) \/ LoseLock(u)
                               \/ FindForDelete(u) \/ DeleteRow(u)
         \/ UNCHANGED vars
  PROVE  PendingInv'
<1> USE DEF PendingInv, PendingHasJob, TypeInv, TypeOK, docVars, queueVars
<1>1. ASSUME NEW u \in Uploads, WorkerStep(u) PROVE PendingInv'
  <2>1. CASE Take(u) \/ ReadFile(u) \/ Embed(u) \/ StoreChunks(u) \/ RemoveFile(u)
    BY <2>1 DEF Take, ReadFile, Embed, StoreChunks, RemoveFile
  <2>2. CASE StartRun(u) \/ CompleteRow(u) \/ RecordFailure(u)
    BY <2>2 DEF StartRun, CompleteRow, RecordFailure, UpdateRow
  <2>3. CASE Acknowledge(u) \/ ReportFailure(u)
    BY <2>3 DEF Acknowledge, ReportFailure
  <2> QED BY <1>1, <2>1, <2>2, <2>3 DEF WorkerStep
<1>2. ASSUME NEW u \in Uploads, ReapFile(u) \/ BackOffOver(u) \/ Redeliver(u) \/ FindForDelete(u)
      PROVE  PendingInv'
  BY <1>2 DEF ReapFile, BackOffOver, Redeliver, FindForDelete
<1>3. ASSUME NEW u \in Uploads, DeleteRow(u) PROVE PendingInv'
  BY <1>3 DEF DeleteRow, DropRow
<1>4. CASE UNCHANGED vars
  BY <1>4 DEF vars
<1> QED BY <1>1, <1>2, <1>3, <1>4 DEF SweepAbandoned, LoseLock

\* A PENDING document has a job, or its handler is about to create one or to
\* take the document back (DocumentService.uploadDocument's catch around
\* queue.add), whatever worker, queue and deletions do in between.
THEOREM PendingIsQueued ==
  ASSUME Accompanied
  PROVE  Spec => []PendingHasJob
<1>1. Init => PendingInv
  BY DEF Init, PendingInv, PendingHasJob
<1>2. Inv /\ PendingInv /\ [Next]_vars => PendingInv'
  <2>1. Inv => TypeInv
    BY DEF Inv
  <2>2. ~Crash
    BY DEF Crash, Fault, Accompanied
  <2> QED BY <2>1, <2>2, PendingUpload, PendingRest DEF Next, Backend
<1>3. PendingInv => PendingHasJob
  BY DEF PendingInv
<1> QED BY <1>1, <1>2, <1>3, SpecInv, PTL DEF Spec

-----------------------------------------------------------------------------
(* The pipeline implements DocumentLifecycle.                              *)

\* The state in which the simulation is shown; Steady is the case split on
\* Redelivery.
SimInv == Inv /\ (Steady => SteadyInv)

LEMMA SpecSim == Spec => []SimInv
<1>1. CASE Steady
  BY <1>1, SpecInv, SpecSteady, PTL DEF SimInv
<1>2. CASE ~Steady
  <2>1. Inv => SimInv
    BY <1>2 DEF SimInv
  <2> QED BY <2>1, SpecInv, PTL
<1> QED BY <1>1, <1>2

Simulated == [Lifecycle!LifeNext]_(Lifecycle!lifeVars)

LEMMA LifeInitial == Init => Lifecycle!LifeInit
BY DEF Init, Lifecycle!LifeInit, Life, HasRow, Created

LEMMA SimUpload ==
  ASSUME SimInv, NEW u \in Uploads, Receive(u) \/ UploadStep(u)
  PROVE  Simulated
<1> USE DEF SimInv, Inv, TypeInv, TypeOK, Handlers, RowInv, ChunkInv, HasRow, Life, Created,
            HandlerSteps, HandlerEnds, WorkerSteps, JobStates, RowStatus, docVars, queueVars,
            HandlerAt, Simulated, Lifecycle!lifeVars
<1>1. CASE Receive(u)
  BY <1>1 DEF Receive
<1>2. CASE FindExisting(u)
  BY <1>2 DEF FindExisting
<1>3. CASE RefuseDuplicate(u)
  BY <1>3 DEF RefuseDuplicate
<1>4. CASE CreateRow(u)
  <2>1. CASE KeyFree(u) /\ row' = [row EXCEPT ![u] = "PENDING"]
    <3>1. Lifecycle!Accept(u)
      BY <1>4, <2>1 DEF CreateRow, KeyFree, Lifecycle!Accept, Lifecycle!Live, Lifecycle!LiveStates
    <3> QED BY <3>1 DEF Lifecycle!LifeNext
  <2>2. CASE UNCHANGED row
    BY <1>4, <2>2 DEF CreateRow
  <2> QED BY <1>4, <2>1, <2>2 DEF CreateRow
<1>5. CASE Enqueue(u)
  BY <1>5 DEF Enqueue
<1>6. CASE RollBack(u)
  <2>1. CASE DropRow(u)
    <3>1. Lifecycle!Remove(u)
      BY <1>6, <2>1 DEF RollBack, DropRow, Lifecycle!Remove, Lifecycle!Live, Lifecycle!LiveStates
    <3> QED BY <3>1 DEF Lifecycle!LifeNext
  <2>2. CASE UNCHANGED docVars
    BY <1>6, <2>2 DEF RollBack
  <2> QED BY <1>6, <2>1, <2>2 DEF RollBack
<1>7. CASE SaveJobId(u)
  BY <1>7 DEF SaveJobId
<1> QED BY <1>1, <1>2, <1>3, <1>4, <1>5, <1>6, <1>7 DEF UploadStep

\* A run that writes no row and no chunk is a stutter of the life.
LEMMA SimQuiet == UNCHANGED <<row, chunks, handler>> => Simulated
BY DEF Simulated, Life, HasRow, Created, Lifecycle!lifeVars

LEMMA SimWorker ==
  ASSUME SimInv, NEW u \in Uploads, WorkerStep(u)
  PROVE  Simulated
<1> USE DEF docVars, queueVars
<1>1. CASE Take(u) \/ ReadFile(u) \/ Embed(u) \/ RemoveFile(u) \/ Acknowledge(u) \/ ReportFailure(u)
  BY <1>1, SimQuiet DEF Take, ReadFile, Embed, RemoveFile, Acknowledge, ReportFailure
<1> USE DEF SimInv, SteadyInv, Steady, Inv, TypeInv, TypeOK, RowInv, ChunkInv, HasRow, Life,
            Created, RowStatus, StepTo, Lifecycle!Live, Lifecycle!LiveStates
<1>2. CASE StartRun(u)
  <2>1. CASE row' = [row EXCEPT ![u] = "PROCESSING"] /\ HasRow(u)
    <3>1. Lifecycle!Begin(u)
      BY <1>2, <2>1 DEF StartRun, UpdateRow, Lifecycle!Begin
    <3> QED BY <3>1 DEF Simulated, Lifecycle!LifeNext
  <2>2. CASE UNCHANGED row
    BY <1>2, <2>2, SimQuiet DEF StartRun
  <2> QED BY <1>2, <2>1, <2>2 DEF StartRun, UpdateRow
<1>3. CASE StoreChunks(u)
  <2>1. CASE chunks' = [chunks EXCEPT ![u] = @ + 1] /\ HasRow(u)
    <3>1. Lifecycle!Index(u)
      BY <1>3, <2>1 DEF StoreChunks, Lifecycle!Index
    <3> QED BY <3>1 DEF Simulated, Lifecycle!LifeNext
  <2>2. CASE UNCHANGED chunks
    BY <1>3, <2>2, SimQuiet DEF StoreChunks
  <2> QED BY <1>3, <2>1, <2>2 DEF StoreChunks
<1>4. CASE CompleteRow(u)
  <2>1. CASE row' = [row EXCEPT ![u] = "COMPLETED"] /\ HasRow(u)
    <3>1. Lifecycle!Finish(u)
      BY <1>4, <2>1 DEF CompleteRow, UpdateRow, Lifecycle!Finish
    <3> QED BY <3>1 DEF Simulated, Lifecycle!LifeNext
  <2>2. CASE UNCHANGED row
    BY <1>4, <2>2, SimQuiet DEF CompleteRow
  <2> QED BY <1>4, <2>1, <2>2 DEF CompleteRow, UpdateRow
<1>5. CASE RecordFailure(u)
  <2>1. CASE row' = [row EXCEPT ![u] = "FAILED"] /\ HasRow(u)
    <3>1. Lifecycle!Fail(u)
      BY <1>5, <2>1 DEF RecordFailure, Lifecycle!Fail
    <3> QED BY <3>1 DEF Simulated, Lifecycle!LifeNext
  <2>2. CASE UNCHANGED row
    BY <1>5, <2>2, SimQuiet DEF RecordFailure
  <2> QED BY <1>5, <2>1, <2>2 DEF RecordFailure
<1> QED BY <1>1, <1>2, <1>3, <1>4, <1>5 DEF WorkerStep

LEMMA SimRest ==
  ASSUME SimInv,
         \/ \E u \in Uploads : \/ ReapFile(u) \/ BackOffOver(u) \/ SweepAbandoned(u)
                               \/ LoseLock(u) \/ FindForDelete(u) \/ DeleteRow(u)
         \/ Crash
         \/ UNCHANGED vars
  PROVE  Simulated
<1> USE DEF docVars, queueVars
<1>1. ASSUME NEW u \in Uploads,
             ReapFile(u) \/ BackOffOver(u) \/ Redeliver(u) \/ FindForDelete(u)
      PROVE  Simulated
  BY <1>1, SimQuiet DEF ReapFile, BackOffOver, Redeliver, FindForDelete
<1>2. ASSUME NEW u \in Uploads, DeleteRow(u) PROVE Simulated
  <2> USE DEF SimInv, Inv, TypeInv, TypeOK, RowInv, ChunkInv, HasRow, Life, Created, RowStatus
  <2>1. CASE DropRow(u) /\ HasRow(u)
    <3>1. Lifecycle!Remove(u)
      BY <1>2, <2>1 DEF DeleteRow, DropRow, Lifecycle!Remove, Lifecycle!Live, Lifecycle!LiveStates
    <3> QED BY <3>1 DEF Simulated, Lifecycle!LifeNext
  <2>2. CASE DropRow(u) /\ ~HasRow(u)
    BY <1>2, <2>2 DEF DeleteRow, DropRow, Simulated, Lifecycle!lifeVars
  <2>3. CASE UNCHANGED docVars
    BY <1>2, <2>3, SimQuiet DEF DeleteRow
  <2> QED BY <1>2, <2>1, <2>2, <2>3 DEF DeleteRow
<1>3. CASE Crash
  BY <1>3 DEF Crash, SimInv, Inv, TypeInv, TypeOK, HasRow, Life, Created, HandlerSteps, HandlerEnds,
              Simulated, Lifecycle!lifeVars
<1>4. CASE UNCHANGED vars
  BY <1>4, SimQuiet DEF vars
<1> QED BY <1>1, <1>2, <1>3, <1>4 DEF SweepAbandoned, LoseLock

LEMMA SimStep == SimInv /\ [Next]_vars => Simulated
BY SimUpload, SimWorker, SimRest DEF Next, Backend

\* Handlers, worker, queue, deletions and crashes together only ever move a
\* document along its life.
THEOREM PipelineImplementsLifecycle == Spec => ImplementsLifecycle
BY LifeInitial, SimStep, SpecSim, PTL DEF Spec, Simulated, ImplementsLifecycle, Lifecycle!LifeSpec
=============================================================================

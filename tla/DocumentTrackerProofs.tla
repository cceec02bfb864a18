----------------------- MODULE DocumentTrackerProofs -----------------------
(***************************************************************************)
(* What the document list of a tab promises, for any number of uploads and *)
(* any subset of the faults: the tab only drives the pipeline through its  *)
(* two requests, so everything proved of the pipeline holds under it, and  *)
(* no document is listed as COMPLETED without chunks, until a reload       *)
(* brings back a list that was not the last one.                           *)
(***************************************************************************)
EXTENDS DocumentTracker, DocumentPipelineProofs

USE TrackerAssumption

\* A tab's step is a request that the pipeline accepts, a step of the
\* pipeline itself, or invisible to it.
LEMMA TrackStep == [TrackNext]_trackVars => [Next]_vars
<1> SUFFICES ASSUME [TrackNext]_trackVars PROVE [Next]_vars
  OBVIOUS
<1>1. ASSUME NEW u \in Uploads, Arrive(u) PROVE Next
  BY <1>1 DEF Arrive, Next
<1>2. ASSUME NEW u \in Uploads, ArriveRemoval(u) PROVE [Next]_vars
  BY <1>2 DEF ArriveRemoval, Next
<1>3. ASSUME NEW u \in Uploads, Pick(u) \/ TabStep(u) \/ Miss(u) \/ Remove(u)
      PROVE  UNCHANGED vars
  BY <1>3 DEF Pick, TabStep, Accepted, Refused, Ask, Look, Update, Miss, Remove
<1>4. CASE Reload
  BY <1>4 DEF Reload
<1>5. CASE Backend /\ UNCHANGED tabVars
  BY <1>5 DEF Next
<1>6. CASE UNCHANGED trackVars
  BY <1>6 DEF trackVars
<1> QED BY <1>1, <1>2, <1>3, <1>4, <1>5, <1>6 DEF TrackNext

\* The tab is one of the environments the pipeline was specified for.
THEOREM TrackerRunsPipeline == TrackSpec => Spec
<1>1. TrackInit => Init
  BY DEF TrackInit
<1> QED BY <1>1, TrackStep, PTL DEF TrackSpec, Spec

LEMMA PipelineHolds == TrackSpec => [](TypeOK /\ RowInv /\ CompletedHasChunks)
BY TrackerRunsPipeline, TypeCorrect, SpecInv, CompletedIsSearchable, PTL DEF Inv

-----------------------------------------------------------------------------
LEMMA TrackTypeInit == TrackInit => TrackTypeOK
<1> SUFFICES ASSUME TrackInit PROVE TrackTypeOK
  OBVIOUS
<1>1. shown \in [Uploads -> {"absent", "gone"} \cup RowStatus] /\ known \in SUBSET Uploads
  BY DEF TrackInit
<1>2. kept \in [shown : [Uploads -> {"absent", "gone"} \cup RowStatus], known : SUBSET Uploads]
  BY <1>1 DEF TrackInit
<1> QED BY <1>1, <1>2 DEF TrackInit, TrackTypeOK, PollSteps

\* What a write leaves in localStorage, refused or not, is a list.
LEMMA PersistKeepsType ==
  ASSUME TrackTypeOK, Persist,
         shown' \in [Uploads -> {"absent", "gone"} \cup RowStatus], known' \subseteq Uploads
  PROVE  /\ kept' \in [shown : [Uploads -> {"absent", "gone"} \cup RowStatus],
                       known : SUBSET Uploads]
         /\ reverted' \in BOOLEAN
BY DEF TrackTypeOK, Persist

LEMMA TrackTypeStep == TypeOK /\ RowInv /\ TrackTypeOK /\ [TrackNext]_trackVars => TrackTypeOK'
<1> SUFFICES ASSUME TypeOK, RowInv, TrackTypeOK, [TrackNext]_trackVars PROVE TrackTypeOK'
  OBVIOUS
<1> USE DEF PollTo, Listed
<1>1. ASSUME NEW u \in Uploads, Pick(u) PROVE TrackTypeOK'
  BY <1>1, PersistKeepsType DEF Pick, TrackTypeOK, RowStatus
<1>2. ASSUME NEW u \in Uploads, Arrive(u) PROVE TrackTypeOK'
  BY <1>2 DEF Arrive, tabVars, keptVars, TrackTypeOK
<1>3. ASSUME NEW u \in Uploads, Accepted(u) PROVE TrackTypeOK'
  BY <1>3, PersistKeepsType DEF Accepted, TrackTypeOK, PollSteps
<1>4. ASSUME NEW u \in Uploads, Refused(u) PROVE TrackTypeOK'
  BY <1>4, PersistKeepsType DEF Refused, TrackTypeOK
<1>5. ASSUME NEW u \in Uploads, Ask(u) PROVE TrackTypeOK'
  BY <1>5 DEF Ask, keptVars, TrackTypeOK, PollSteps
<1>6. ASSUME NEW u \in Uploads, Look(u) PROVE TrackTypeOK'
  <2>1. u \in known \cap handle => row[u] \in RowStatus
    BY DEF RowInv, HasRow, TypeOK
  <2> QED BY <1>6, <2>1 DEF Look, keptVars, TrackTypeOK, PollSteps
<1>7. ASSUME NEW u \in Uploads, Update(u) PROVE TrackTypeOK'
  <2>1. CASE answer[u] = "missing"
    BY <1>7, <2>1 DEF Update, keptVars, TrackTypeOK, PollSteps
  <2>2. CASE answer[u] # "missing"
    BY <1>7, <2>2, PersistKeepsType DEF Update, TrackTypeOK, PollSteps
  <2> QED BY <2>1, <2>2
<1>8. ASSUME NEW u \in Uploads, Miss(u) PROVE TrackTypeOK'
  BY <1>8 DEF Miss, keptVars, TrackTypeOK, PollSteps
<1>9. ASSUME NEW u \in Uploads, Remove(u) PROVE TrackTypeOK'
  BY <1>9, PersistKeepsType DEF Remove, TrackTypeOK, PollSteps
<1>10. ASSUME NEW u \in Uploads, ArriveRemoval(u) PROVE TrackTypeOK'
  BY <1>10 DEF ArriveRemoval, keptVars, TrackTypeOK
<1>11. CASE Reload
  BY <1>11 DEF Reload, TrackTypeOK, PollSteps
<1>12. CASE UNCHANGED tabVars
  BY <1>12 DEF tabVars, keptVars, TrackTypeOK
<1> QED BY <1>1, <1>2, <1>3, <1>4, <1>5, <1>6, <1>7, <1>8, <1>9, <1>10, <1>11, <1>12
        DEF TrackNext, TabStep, trackVars

\* Every variable of the tab keeps its type; Look needs the rows' type.
THEOREM TrackTypeCorrect == TrackSpec => []TrackTypeOK
BY PipelineHolds, TrackTypeInit, TrackTypeStep, PTL DEF TrackSpec

-----------------------------------------------------------------------------
\* A document is deleted only after it was taken off the list, and a status
\* is only ever shown or on its way for a document the tab knows.
ListInv ==
  \A u \in Uploads :
    /\ u \in removals \cup deleting => shown[u] = "gone"
    /\ u \in known => handler[u] = "accepted"
    /\ "COMPLETED" \in {shown[u], answer[u]} => u \in known
    /\ "COMPLETED" \in {shown[u], answer[u]} => chunks[u] > 0 \/ shown[u] = "gone"

\* It holds until a reload brings back a list that was not the last one: then
\* a deleted document is listed again.
LastListInv == ~reverted => ListInv

LEMMA ListInvInit == TrackInit => LastListInv
BY DEF TrackInit, Init, ListInv, LastListInv

\* No step takes back that a reload has reverted the list.
LEMMA RevertedStays == TrackTypeOK /\ [TrackNext]_trackVars /\ reverted => reverted'
<1> SUFFICES ASSUME TrackTypeOK, [TrackNext]_trackVars, reverted PROVE reverted'
  OBVIOUS
<1>1. ASSUME NEW u \in Uploads,
             Pick(u) \/ Arrive(u) \/ TabStep(u) \/ Miss(u) \/ Remove(u) \/ ArriveRemoval(u)
      PROVE  UNCHANGED reverted
  BY <1>1 DEF Pick, Arrive, TabStep, Accepted, Refused, Ask, Look, Update, Miss, Remove,
              ArriveRemoval, Persist, keptVars, tabVars
<1>2. CASE Reload
  BY <1>2 DEF Reload
<1>3. CASE UNCHANGED tabVars
  BY <1>3 DEF tabVars, keptVars
<1> QED BY <1>1, <1>2, <1>3 DEF TrackNext, trackVars

\* What the pipeline leaves alone while it works by itself: accepted uploads
\* stay accepted, no deletion starts, and chunks only go with their row.
LEMMA BackendKeeps ==
  ASSUME TypeOK, Backend, NEW u \in Uploads
  PROVE  /\ u \in deleting' => u \in deleting
         /\ handler[u] = "accepted" => handler'[u] = "accepted"
         /\ handler[u] = "accepted" /\ chunks[u] > 0 => chunks'[u] > 0 \/ u \in deleting
<1> USE DEF TypeOK, docVars, queueVars
<1> DEFINE Kept == /\ u \in deleting' => u \in deleting
                   /\ handler[u] = "accepted" => handler'[u] = "accepted"
                   /\ handler[u] = "accepted" /\ chunks[u] > 0
                        => chunks'[u] > 0 \/ u \in deleting
<1>1. ASSUME NEW v \in Uploads, UploadStep(v) PROVE Kept
  <2>1. CASE RollBack(v)
    BY <2>1 DEF RollBack, HandlerAt, DropRow
  <2>2. CASE FindExisting(v) \/ RefuseDuplicate(v) \/ CreateRow(v) \/ Enqueue(v) \/ SaveJobId(v)
    BY <2>2 DEF FindExisting, RefuseDuplicate, CreateRow, Enqueue, SaveJobId, HandlerAt
  <2> QED BY <1>1, <2>1, <2>2 DEF UploadStep
<1>2. ASSUME NEW v \in Uploads, WorkerStep(v) PROVE Kept
  <2>1. CASE StoreChunks(v)
    BY <2>1 DEF StoreChunks, StepTo
  <2>2. CASE UNCHANGED <<handler, chunks, deleting>>
    BY <2>2
  <2> QED BY <1>2, <2>1, <2>2
          DEF WorkerStep, Take, StartRun, ReadFile, Embed, CompleteRow, RemoveFile,
              Acknowledge, RecordFailure, ReportFailure
<1>3. ASSUME NEW v \in Uploads,
             ReapFile(v) \/ BackOffOver(v) \/ SweepAbandoned(v) \/ LoseLock(v)
      PROVE  Kept
  BY <1>3 DEF ReapFile, BackOffOver, SweepAbandoned, LoseLock, Redeliver
<1>4. ASSUME NEW v \in Uploads, DeleteRow(v) PROVE Kept
  BY <1>4 DEF DeleteRow, DropRow
<1>5. CASE Crash
  BY <1>5 DEF Crash, HandlerSteps
<1> QED BY <1>1, <1>2, <1>3, <1>4, <1>5 DEF Backend

LEMMA ListInvStep ==
  TypeOK /\ CompletedHasChunks /\ TrackTypeOK /\ LastListInv /\ [TrackNext]_trackVars
    => LastListInv'
<1> SUFFICES ASSUME TypeOK, CompletedHasChunks, TrackTypeOK, ListInv, ~reverted',
                    [TrackNext]_trackVars
             PROVE  ListInv'
  BY RevertedStays DEF LastListInv
<1> USE DEF ListInv, TrackTypeOK, RowStatus, PollTo, Listed
<1>1. ASSUME NEW u \in Uploads, Pick(u) PROVE ListInv'
  BY <1>1 DEF Pick, vars, docVars
<1>2. ASSUME NEW u \in Uploads, Arrive(u) PROVE ListInv'
  BY <1>2 DEF Arrive, Receive, HandlerAt, tabVars, docVars, TypeOK
<1>3. ASSUME NEW u \in Uploads, Accepted(u) PROVE ListInv'
  BY <1>3 DEF Accepted, vars, docVars
<1>4. ASSUME NEW u \in Uploads, Refused(u) PROVE ListInv'
  BY <1>4 DEF Refused, vars, docVars
<1>5. ASSUME NEW u \in Uploads, Ask(u) \/ Miss(u) PROVE ListInv'
  BY <1>5 DEF Ask, Miss, vars, docVars
<1>6. ASSUME NEW u \in Uploads, Look(u) PROVE ListInv'
  BY <1>6 DEF Look, CompletedHasChunks, vars, docVars
<1>7. ASSUME NEW u \in Uploads, Update(u) PROVE ListInv'
  BY <1>7 DEF Update, vars, docVars
<1>8. ASSUME NEW u \in Uploads, Remove(u) PROVE ListInv'
  BY <1>8 DEF Remove, vars, docVars
<1>9. ASSUME NEW u \in Uploads, ArriveRemoval(u) PROVE ListInv'
  BY <1>9 DEF ArriveRemoval, FindForDelete, vars, docVars
<1>10. CASE Reload
  BY <1>10 DEF Reload, vars, docVars
<1>11. CASE Backend /\ UNCHANGED tabVars
  BY <1>11, BackendKeeps DEF tabVars
<1>12. CASE UNCHANGED trackVars
  BY <1>12 DEF trackVars, tabVars, vars, docVars
<1> QED BY <1>1, <1>2, <1>3, <1>4, <1>5, <1>6, <1>7, <1>8, <1>9, <1>10, <1>11, <1>12
        DEF TrackNext, TabStep

\* A document listed as COMPLETED has chunks to retrieve, for any number of
\* uploads and whatever fails, until a reload reverts the list.
THEOREM ReadyDocumentsAreSearchable == TrackSpec => []ReadyIsSearchable
<1>1. TrackSpec => []LastListInv
  BY PipelineHolds, TrackTypeCorrect, ListInvInit, ListInvStep, PTL DEF TrackSpec
<1>2. LastListInv => ReadyIsSearchable
  BY DEF LastListInv, ListInv, ReadyIsSearchable
<1> QED BY <1>1, <1>2, PTL
=============================================================================

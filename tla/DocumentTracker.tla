-------------------------- MODULE DocumentTracker --------------------------
(***************************************************************************)
(* The document list of one browser tab (the hook useDocuments) over the   *)
(* ingestion pipeline: uploads, the poll chain that follows each job, the  *)
(* deletion of documents, and reloads of the page.  The tab is the only    *)
(* client of its session; every step of the pipeline interleaves with it.  *)
(*                                                                         *)
(* Abstracted: delays between polls (a timer fires at some time); files    *)
(* that validateFile rejects, which never become requests.                 *)
(***************************************************************************)
EXTENDS DocumentPipeline

CONSTANT TabFaults

TabFaultKinds == {"net",      \* a request or its response is lost
                  "reload",   \* the user reloads the page
                  "quota"}    \* localStorage refuses a write

ASSUME TrackerAssumption == TabFaults \subseteq TabFaultKinds

VARIABLES
  shown,      \* status in the list; "absent" before, "gone" after
  known,      \* documents whose jobId the tab has; others are placeholders
  awaiting,   \* uploads whose response the tab awaits
  poll,       \* where the poll chain of each document is
  answer,     \* the status in the response it awaits
  removals,   \* DELETE requests on their way
  kept,       \* the copy of the list in localStorage
  reverted    \* a reload has brought back a list that was not the last one

keptVars == <<kept, reverted>>
tabVars == <<shown, known, awaiting, poll, answer, removals, keptVars>>
trackVars == <<vars, tabVars>>

PollSteps == {"none", "timer", "asking", "answered"}

TrackTypeOK ==
  /\ shown \in [Uploads -> {"absent", "gone"} \cup RowStatus]
  /\ known \subseteq Uploads
  /\ awaiting \subseteq Uploads
  /\ poll \in [Uploads -> PollSteps]
  /\ answer \in [Uploads -> {"missing"} \cup RowStatus]
  /\ removals \subseteq Uploads
  /\ kept \in [shown : [Uploads -> {"absent", "gone"} \cup RowStatus], known : SUBSET Uploads]
  /\ reverted \in BOOLEAN

TrackInit ==
  /\ Init
  /\ shown = [u \in Uploads |-> "absent"]
  /\ known = {}
  /\ awaiting = {}
  /\ poll = [u \in Uploads |-> "none"]
  /\ answer = [u \in Uploads |-> "missing"]
  /\ removals = {}
  /\ kept = [shown |-> shown, known |-> known]
  /\ reverted = FALSE

TabFault(kind) == kind \in TabFaults

Listed(u) == shown[u] \in RowStatus

\* The effect that writes the list after each change to it.  A write that is
\* refused is swallowed: the copy stays as it was and the tab goes on.
Persist == /\ \/ kept' = [shown |-> shown', known |-> known']
              \/ TabFault("quota") /\ UNCHANGED kept
           /\ UNCHANGED reverted

PollTo(u, from, to) == /\ poll[u] = from
                       /\ poll' = [poll EXCEPT ![u] = to]

-----------------------------------------------------------------------------
(* Uploading.                                                              *)

\* uploadSingle lists a placeholder and sends the file.
Pick(u) ==
  /\ shown[u] = "absent"
  /\ shown' = [shown EXCEPT ![u] = "PENDING"]
  /\ awaiting' = awaiting \cup {u}
  /\ UNCHANGED <<vars, known, poll, answer, removals>>
  /\ Persist

\* The request reaches the server, also when the tab has given it up.
Arrive(u) ==
  /\ shown[u] # "absent"
  /\ Receive(u)
  /\ UNCHANGED tabVars

\* The response: the placeholder becomes the document, and its job is polled.
Accepted(u) ==
  /\ u \in awaiting
  /\ handler[u] = "accepted"
  /\ awaiting' = awaiting \ {u}
  /\ known' = known \cup {u}
  /\ poll' = [poll EXCEPT ![u] = "timer"]
  /\ UNCHANGED <<vars, shown, answer, removals>>
  /\ Persist

\* An error, or no response: the placeholder goes.
Refused(u) ==
  /\ u \in awaiting
  /\ handler[u] \in HandlerEnds \ {"accepted"} \/ TabFault("net")
  /\ awaiting' = awaiting \ {u}
  /\ shown' = [shown EXCEPT ![u] = "gone"]
  /\ UNCHANGED <<vars, known, poll, answer, removals>>
  /\ Persist

-----------------------------------------------------------------------------
(* Polling: schedulePoll.                                                  *)

\* The timer fires and the tab asks for the status of the job.
Ask(u) ==
  /\ PollTo(u, "timer", "asking")
  /\ UNCHANGED <<vars, shown, known, awaiting, answer, removals, keptVars>>

\* getStatusByJobId; a placeholder's jobId, '', finds nothing.
Look(u) ==
  /\ PollTo(u, "asking", "answered")
  /\ answer' = [answer EXCEPT ![u] = IF u \in known \cap handle THEN row[u] ELSE "missing"]
  /\ UNCHANGED <<vars, shown, known, awaiting, removals, keptVars>>

\* The response updates the entry, if it is still listed; COMPLETED and
\* FAILED end the chain, anything else, an error too, goes on with it.
Update(u) ==
  /\ PollTo(u, "answered", IF answer[u] \in {"COMPLETED", "FAILED"} THEN "none" ELSE "timer")
  /\ UNCHANGED <<vars, known, awaiting, answer, removals>>
  /\ IF answer[u] = "missing"
     THEN UNCHANGED <<shown, keptVars>>
     ELSE /\ shown' = IF Listed(u) THEN [shown EXCEPT ![u] = answer[u]] ELSE shown
          /\ Persist

\* Mutant: an error ends the chain.
MutMiss(u) ==
  /\ TabFault("net")
  /\ PollTo(u, "asking", "none") \/ PollTo(u, "answered", "none")
  /\ UNCHANGED <<vars, shown, known, awaiting, answer, removals, keptVars>>

\* The request or its response is lost, or the server answers 500.
Miss(u) ==
  /\ TabFault("net")
  /\ PollTo(u, "asking", "timer") \/ PollTo(u, "answered", "timer")
  /\ UNCHANGED <<vars, shown, known, awaiting, answer, removals, keptVars>>

-----------------------------------------------------------------------------
(* Deleting and reloading.                                                 *)

\* Mutant: the entry stays until the response.
MutRemove(u) ==
  /\ Listed(u)
  /\ poll' = IF u \in known /\ poll[u] = "timer" THEN [poll EXCEPT ![u] = "none"] ELSE poll
  /\ removals' = IF u \in known THEN removals \cup {u} ELSE removals
  /\ UNCHANGED <<vars, shown, known, awaiting, answer, keptVars>>

\* deleteDocument clears the timer of a job it knows, takes the entry off the
\* list and sends DELETE, which for a placeholder's id answers 404.
Remove(u) ==
  /\ Listed(u)
  /\ shown' = [shown EXCEPT ![u] = "gone"]
  /\ poll' = IF u \in known /\ poll[u] = "timer" THEN [poll EXCEPT ![u] = "none"] ELSE poll
  /\ removals' = IF u \in known THEN removals \cup {u} ELSE removals
  /\ UNCHANGED <<vars, known, awaiting, answer>>
  /\ Persist

\* The DELETE request reaches the server or is lost; nobody repeats it.
ArriveRemoval(u) ==
  /\ u \in removals
  /\ removals' = removals \ {u}
  /\ FindForDelete(u) \/ (TabFault("net") /\ UNCHANGED vars)
  /\ UNCHANGED <<shown, known, awaiting, poll, answer, keptVars>>

\* The page is loaded again: the list is what localStorage has of it, and
\* polling resumes for entries in progress.
Reload ==
  /\ TabFault("reload")
  /\ shown' = [u \in Uploads |-> IF kept.shown[u] = "absent" /\ shown[u] # "absent"
                                 THEN "gone" ELSE kept.shown[u]]
  /\ known' = kept.known
  /\ reverted' = (reverted \/ shown' # shown \/ known' # known)
  /\ awaiting' = {}
  /\ poll' = [u \in Uploads |-> IF shown'[u] \in {"PENDING", "PROCESSING"} THEN "timer"
                                                                           ELSE "none"]
  /\ UNCHANGED <<vars, answer, removals, kept>>

TabStep(u) == Accepted(u) \/ Refused(u) \/ Ask(u) \/ Look(u) \/ Update(u)

TrackNext == \/ \E u \in Uploads : \/ Pick(u) \/ Arrive(u) \/ TabStep(u) \/ Miss(u)
                                   \/ Remove(u) \/ ArriveRemoval(u)
             \/ Reload
             \/ Backend /\ UNCHANGED tabVars

TrackSpec == TrackInit /\ [][TrackNext]_trackVars

\* Requests arrive, timers fire and responses come, except those lost; the
\* network is not down for ever, so a poll that is repeated for ever gets
\* through, and its response comes back.
TrackFairness == \A u \in Uploads : /\ WF_trackVars(Arrive(u))
                                    /\ WF_trackVars(Accepted(u) \/ Refused(u))
                                    /\ WF_trackVars(Ask(u))
                                    /\ SF_trackVars(Look(u))
                                    /\ SF_trackVars(Update(u))

FairTrackSpec == TrackSpec /\ Fairness /\ TrackFairness

-----------------------------------------------------------------------------
(* What the list tells the user.                                           *)

\* The chat is unlocked by documents listed as COMPLETED: each of them has
\* chunks that retrieval will find, whatever is polled, retried, redelivered,
\* deleted or reloaded at the same time.  A reload after a write that was
\* refused may bring a deleted document back.
ReadyIsSearchable ==
  ~reverted => \A u \in Uploads : shown[u] = "COMPLETED" => chunks[u] > 0

\* A document that is COMPLETED and stays so unlocks the chat, unless a reload
\* has brought back an older list, whose placeholder has no job to poll.
CompletionUnlocks ==
  \A u \in Uploads : row[u] = "COMPLETED" /\ u \in known /\ Listed(u)
     ~> row[u] # "COMPLETED" \/ shown[u] \in {"COMPLETED", "gone"} \/ reverted

\* A document that was taken off the list is not polled again.
NoZombiePoll == \A u \in Uploads : shown[u] = "gone" => poll[u] # "timer"

\* An entry does not stay in progress for ever.
ListSettles ==
  \A u \in Uploads : shown[u] = "PENDING" ~> shown[u] \in {"COMPLETED", "FAILED", "gone"}
=============================================================================

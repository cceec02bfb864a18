---------------------------- MODULE ChatClient -----------------------------
(***************************************************************************)
(* The chat of one browser tab over the server's chat (ChatSession): the   *)
(* hook useChat with its message list, the copy of it in localStorage, the *)
(* one stream it reads, Stop, Retry and the feedback buttons.              *)
(*                                                                         *)
(* The server answers to its own history and never sees the list of the    *)
(* tab: a retry carries no message id and the question the tab sends along *)
(* is ignored (ChatController.retry).                                      *)
(*                                                                         *)
(* Abstracted: the text of an answer, which grows while it streams; the    *)
(* error banner; a request that is lost on its way, which is one the       *)
(* backend crashes on before it has done anything.  Another tab of the     *)
(* browser has its own list but the same localStorage and is not modelled. *)
(***************************************************************************)
EXTENDS ChatSession

CONSTANTS
  MaxVotes,    \* presses of a feedback button per answer (bound)
  Rated,       \* the requests whose answers are voted on (bound)
  Fragile,     \* the requests the tab may let go of, and those whose answers it
               \* may fail to save (bound)
  TabFaults    \* what may happen to the tab

TabFaultKinds == {"net",      \* a connection breaks
                  "stop",     \* the user presses Stop
                  "reload",   \* the user reloads the page
                  "quota"}    \* localStorage refuses a write

ASSUME TabAssumption ==
  /\ Client = "any"
  /\ MaxVotes \in Nat
  /\ Rated \cup Fragile \subseteq Requests
  /\ TabFaults \subseteq TabFaultKinds

VARIABLES
  list,        \* messages of useChat: what the tab shows
  stored,      \* its copy in localStorage
  unsaved,     \* the last write of that copy was refused
  streaming,   \* the request the tab is reading, or Nobody
  response,    \* what the server has sent for each request
  votes,       \* the scores posted for each answer, in order
  ballots,     \* the posts under way: <<answer, which of its votes>>
  score,       \* the score Langfuse holds for each answer
  severed      \* list and history may have parted: the tab let go of a request
               \* that may not be in the history, or lost part of its list

copyVars == <<stored, unsaved>>
listVars == <<list, copyVars, streaming, severed>>
voteVars == <<votes, ballots, score>>
tabVars == <<listVars, response, voteVars>>
clientVars == <<vars, tabVars>>

Thumbs == {"up", "down"}
Scores == Thumbs \cup {"clear"}
Responses == {"none",       \* no header yet
              "refused",    \* an HTTP error
              "open",       \* headers, perhaps tokens
              "error",      \* an error event and [DONE]
              "cached",     \* a cached answer and [DONE]
              "answered",   \* an answer, its traceId and [DONE]
              "broken"}     \* the connection broke
Over == Responses \ {"none", "open"}

Entry == [role : {"user", "assistant"}, req : Requests, traced : BOOLEAN,
          mark : Thumbs \cup {"none"}]

ClientTypeOK ==
  /\ TypeOK
  /\ list \in Seq(Entry)
  /\ stored \in Seq(Entry)
  /\ unsaved \in BOOLEAN
  /\ streaming \in Requests \cup {Nobody}
  /\ response \in [Requests -> Responses]
  /\ votes \in [Requests -> Seq(Scores)]
  /\ ballots \subseteq Requests \X (1..MaxVotes)
  /\ score \in [Requests -> Scores \cup {"none"}]
  /\ severed \in BOOLEAN

ClientInit ==
  /\ Init
  /\ list = <<>>
  /\ stored = <<>>
  /\ unsaved = FALSE
  /\ streaming = Nobody
  /\ response = [r \in Requests |-> "none"]
  /\ votes = [r \in Requests |-> <<>>]
  /\ ballots = {}
  /\ score = [r \in Requests |-> "none"]
  /\ severed = FALSE

TabFault(kind) == kind \in TabFaults

Asked(r) == [role |-> "user", req |-> r, traced |-> FALSE, mark |-> "none"]
Placeholder(r) == [role |-> "assistant", req |-> r, traced |-> FALSE, mark |-> "none"]

Front(s) == SubSeq(s, 1, Len(s) - 1)
IsPlaceholder(e, r) == e.role = "assistant" /\ e.req = r

\* The list after the traceId of r was read.
Traced(r) == [i \in DOMAIN list |-> IF IsPlaceholder(list[i], r)
                                    THEN [list[i] EXCEPT !.traced = TRUE] ELSE list[i]]
\* The list without the placeholder of r (each id is there once at most).
Without(r) == LET I == {i \in DOMAIN list : IsPlaceholder(list[i], r)}
              IN IF I = {} THEN list ELSE RemoveAt(list, CHOOSE i \in I : TRUE)

\* What the server has written for r once it is at step s; what is over is over.
Reply(r, s) ==
  IF response[r] \in Over THEN response[r]
  ELSE CASE s = "failed" /\ response[r] = "none" -> "refused"
         [] s = "failed" /\ response[r] = "open" -> "error"
         [] s = "lost" -> "broken"
         [] s \in {"promoting", "served"} -> "cached"
         [] s \in {"saving", "cachingExact", "cachingSemantic", "done"} -> "answered"
         [] s \in {"lookingUp", "loading", "matching", "routing", "retrieving",
                   "generating"} -> "open"
         [] OTHER -> "none"

Respond == response' = [r \in Requests |-> Reply(r, step'[r])]

-----------------------------------------------------------------------------
(* Sending and retrying.                                                   *)

\* sendMessage, allowed by ChatInput while nothing streams.
SendMessage(r) ==
  /\ streaming = Nobody
  /\ Send(r)
  /\ list' = list \o <<Asked(r), Placeholder(r)>>
  /\ streaming' = r
  /\ UNCHANGED <<copyVars, severed, response, voteVars>>

\* Mutant: any last message can be retried.
MutRetryLast(r) ==
  /\ streaming = Nobody
  /\ Len(list) >= 2
  /\ Retry(r)
  /\ list' = Append(Front(list), Placeholder(r))
  /\ streaming' = r
  /\ Respond
  /\ UNCHANGED <<copyVars, severed, voteVars>>

\* retryLast: the last answer makes room for the next one.
RetryLast(r) ==
  /\ streaming = Nobody
  /\ Len(list) >= 2
  /\ list[Len(list)].role = "assistant"
  /\ \E i \in DOMAIN list : list[i].role = "user"
  /\ Retry(r)
  /\ list' = Append(Front(list), Placeholder(r))
  /\ streaming' = r
  /\ Respond
  /\ UNCHANGED <<copyVars, severed, voteVars>>

\* The server goes on, whether anybody reads its response or not.
ServerStep(r) ==
  /\ RetryStep(r) \/ ChatStep(r)
  /\ Respond
  /\ UNCHANGED <<listVars, voteVars>>

-----------------------------------------------------------------------------
(* Reading the response.                                                   *)

\* writeStorage, after a change to the answer to r: a write that is refused is
\* swallowed, the copy stays as it was and the list lives on in memory.
WriteStorage(r, messagesNow) ==
  \/ stored' = messagesNow /\ unsaved' = FALSE
  \/ /\ TabFault("quota") /\ r \in Fragile
     /\ unsaved' = TRUE
     /\ UNCHANGED stored

\* The finally block: one write of the list, and the input is free again.
Finish(r, messagesNow) ==
  /\ list' = messagesNow
  /\ WriteStorage(r, messagesNow)
  /\ streaming' = Nobody
  /\ UNCHANGED <<vars, response, voteVars>>

\* Mutant: an HTTP error returns before the finally block.
MutReadResponse(r) ==
  /\ streaming = r
  /\ response[r] \in Over \ {"refused"}
  /\ Finish(r, IF response[r] = "answered" THEN Traced(r) ELSE list)
  /\ UNCHANGED severed

\* The stream is read to its end: an HTTP error takes the placeholder away,
\* anything else leaves it, with what it got.
ReadResponse(r) ==
  /\ streaming = r
  /\ response[r] \in Over
  /\ Finish(r, CASE response[r] = "refused" -> Without(r)
                 [] response[r] = "answered" -> Traced(r)
                 [] OTHER -> list)
  /\ UNCHANGED severed

\* stopStreaming, or the connection breaks: the placeholder stays, and the
\* server, which is not told, goes on.  The traceId may have been read.
LetGo(r) ==
  /\ TabFault("stop") \/ TabFault("net")
  /\ streaming = r /\ r \in Fragile
  /\ Finish(r, list) \/ (response[r] = "answered" /\ Finish(r, Traced(r)))
  /\ severed' = (severed \/ response[r] \in {"none", "refused"})

\* The page is loaded again: the list is what localStorage has of it.
Reload ==
  /\ TabFault("reload")
  /\ streaming \in Fragile \cup {Nobody}
  /\ list' = stored
  /\ unsaved' = FALSE
  /\ streaming' = Nobody
  /\ severed' = (severed \/ streaming # Nobody \/ list # stored)
  /\ UNCHANGED <<vars, stored, response, voteVars>>

-----------------------------------------------------------------------------
(* Feedback.                                                               *)

\* The answers with feedback buttons: those with a trace, but not the last
\* message while something streams.
Votable(i) == /\ list[i].role = "assistant" /\ list[i].traced
              /\ streaming = Nobody \/ i # Len(list)

Marked(i, mark) == [list EXCEPT ![i].mark = mark]

\* Mutant: a vote is written with the list, at the end of the next stream.
MutVote(i, thumb) ==
  /\ Votable(i)
  /\ LET r == list[i].req
         value == IF list[i].mark = thumb THEN "clear" ELSE thumb
     IN /\ r \in Rated /\ Len(votes[r]) < MaxVotes
        /\ list' = Marked(i, IF value = "clear" THEN "none" ELSE value)
        /\ IF streaming = Nobody THEN WriteStorage(r, list') ELSE UNCHANGED copyVars
        /\ votes' = [votes EXCEPT ![r] = Append(@, value)]
        /\ ballots' = ballots \cup {<<r, Len(votes'[r])>>}
  /\ UNCHANGED <<vars, streaming, severed, response, score>>

\* FeedbackBar and submitFeedback: pressing the thumb that is set clears it;
\* the list is written at once and the score posted, without waiting for an
\* earlier post.
Vote(i, thumb) ==
  /\ Votable(i)
  /\ LET r == list[i].req
         value == IF list[i].mark = thumb THEN "clear" ELSE thumb
     IN /\ r \in Rated /\ Len(votes[r]) < MaxVotes
        /\ list' = Marked(i, IF value = "clear" THEN "none" ELSE value)
        /\ votes' = [votes EXCEPT ![r] = Append(@, value)]
        /\ ballots' = ballots \cup {<<r, Len(votes'[r])>>}
        /\ WriteStorage(r, list')
  /\ UNCHANGED <<vars, streaming, severed, response, score>>

\* handleFeedback: record the score; a thumbs-down goes on to the caches.
Count(r, n) ==
  /\ <<r, n>> \in ballots
  /\ ballots' = ballots \ {<<r, n>>}
  /\ score' = [score EXCEPT ![r] = votes[r][n]]
  /\ IF votes[r][n] = "down" THEN Rate(r) ELSE UNCHANGED vars
  /\ UNCHANGED <<listVars, response, votes>>

\* A post is lost; nobody repeats it.
LoseVote(r, n) ==
  /\ TabFault("net")
  /\ <<r, n>> \in ballots
  /\ ballots' = ballots \ {<<r, n>>}
  /\ UNCHANGED <<vars, listVars, response, votes, score>>

\* The steps after the score was recorded.
FeedbackStep(r) == BlameStep(r) /\ UNCHANGED tabVars

-----------------------------------------------------------------------------
\* The backend dies with the requests it had not got into the history yet.
BackendCrash ==
  /\ Crash
  /\ Respond
  /\ severed' = (severed \/ \E r \in Requests : response[r] = "none" /\ step'[r] = "lost")
  /\ UNCHANGED <<list, copyVars, streaming, voteVars>>

CacheExpires == Expire /\ UNCHANGED tabVars

\* Documents come and go in the same session.
DocumentStep == /\ \E d \in Docs : Store(d) \/ Delete(d) \/ Flush(d) \/ Note(d)
                /\ UNCHANGED tabVars

ClientNext ==
  \/ \E r \in Requests :
       \/ SendMessage(r) \/ RetryLast(r) \/ ServerStep(r)
       \/ ReadResponse(r) \/ LetGo(r) \/ FeedbackStep(r)
       \/ \E n \in 1..MaxVotes : Count(r, n) \/ LoseVote(r, n)
  \/ \E i \in DOMAIN list, thumb \in Thumbs : Vote(i, thumb)
  \/ Reload \/ BackendCrash \/ CacheExpires \/ DocumentStep

ClientSpec == ClientInit /\ [][ClientNext]_clientVars

\* The server works off a request it has accepted: model calls time out or
\* run out of attempts (module RagRun).  The tab reads what was sent.
ClientFairness == \A r \in Requests : /\ WF_clientVars(ServerStep(r))
                                      /\ WF_clientVars(ReadResponse(r))

FairClientSpec == ClientSpec /\ ClientFairness

-----------------------------------------------------------------------------
(* What the tab shows.                                                     *)

\* Every answer stands under the question the server answered with it, also
\* when the server picked the question of a retry from its own history.
StandsUnderItsQuestion(i) ==
  /\ i > 1
  /\ list[i - 1].role = "user"
  /\ question[list[i].req] \in {Nobody, question[list[i - 1].req]}

\* As long as the tab has not let go of a request before it was answered with
\* headers, by which time its question is in the history, and no reload has
\* taken anything off its list.
AnswerUnderQuestion ==
  ~severed => \A i \in DOMAIN list : list[i].role = "assistant" => StandsUnderItsQuestion(i)

\* What the prompt builder cuts off as the question of the turn is never the
\* question of another one: the newest question in the window of the request the
\* tab reads is its own.  A turn the tab has let go of runs on beside it and may
\* put its answer, and a deletion its note, behind the question.
PromptsAskOwnQuestion ==
  ~severed /\ streaming # Nobody =>
    LET w == window[streaming]
    IN \A i \in DOMAIN w : w[i][1] = "user" =>
         \E j \in DOMAIN w : i <= j /\ w[j] = <<"user", streaming>>

\* ... and without that condition.
AnswerAlwaysUnderQuestion ==
  \A i \in DOMAIN list : list[i].role = "assistant" => StandsUnderItsQuestion(i)

\* A reload loses nothing that was saved: once the last write went through,
\* the copy has every message of the list, unless a stream is on, and every
\* vote at any time, also one cast on an older answer while the next one
\* streams.  A write that went through makes up for those refused before it.
ReloadLosesNothing ==
  ~unsaved =>
    /\ streaming = Nobody => stored = list
    /\ \A i \in DOMAIN list, j \in DOMAIN stored :
         /\ list[i].role = "assistant" /\ stored[j].role = "assistant"
         /\ list[i].req = stored[j].req
         => list[i].mark = stored[j].mark

\* The input does not stay locked behind a stream.
InputUnlocks == streaming # Nobody ~> streaming = Nobody

\* Once all posts are through, Langfuse holds what the buttons show.
LangfuseFollows ==
  ballots = {} => \A i \in DOMAIN list :
    LET r == list[i].req
    IN list[i].role = "assistant" /\ votes[r] # <<>> =>
         score[r] = IF list[i].mark = "none" THEN "clear" ELSE list[i].mark
=============================================================================

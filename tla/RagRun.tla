------------------------------- MODULE RagRun --------------------------------
(***************************************************************************)
(* One turn of ChatService.handleChat that no cache served: the embedding, *)
(* the graph RouterNode -> RetrievalNode -> GeneratorNode, the event       *)
(* stream the client reads and what postProcess saves.  A document of the  *)
(* session may be deleted at any time.                                     *)
(*                                                                         *)
(* Every model call climbs the ladder of withLlmRetry; attempt is its loop *)
(* variable, delays are left out.  What happens before (rate limit,        *)
(* caches, history) and after (caching, summary) is in module ChatSession, *)
(* which knows this turn by its outcomes only.                             *)
(***************************************************************************)
EXTENDS Grounding

CONSTANTS
  MaxAttempts,  \* of withLlmRetry
  MaxTokens,    \* bound on the tokens of an answer
  Faults        \* the faults the environment may produce

FaultKinds == {"transient",  \* 429, 5xx or no answer from the provider
               "client",     \* any other error status, or an embedding of wrong form
               "stream",     \* an open model stream breaks off
               "db",         \* a Postgres statement fails
               "langfuse",   \* the Langfuse client throws
               "crash"}      \* the backend process dies

ASSUME RagAssumption ==
  /\ MaxAttempts \in Nat \ {0}
  /\ MaxTokens \in Nat
  /\ Faults \subseteq FaultKinds

VARIABLES
  step,       \* where the turn is
  attempt,    \* of the model call under way
  route,      \* state.route
  arms,       \* the rankings behind the rows, while the node has them
  chunks,     \* state.chunks
  found,      \* the documents in filenameMap
  response,   \* fullResponse
  sent,       \* the kinds of the events written to the client
  said,       \* the text of the token events
  cited,      \* the content of the citations event
  saved,      \* the assistant message, once there is one
  trace,      \* the Langfuse trace
  open,       \* its observations nobody has tried to finalize
  library     \* the documents of the session that exist

nodeVars == <<route, arms, chunks, found, response>>
clientVars == <<sent, said, cited>>
traceVars == <<trace, open>>
vars == <<step, attempt, nodeVars, clientVars, saved, traceVars, library>>

CallSteps == {"embedding", "routing", "opening"}
Ends == {"done", "failed", "lost"}
Steps == CallSteps \cup {"searching", "naming", "streaming", "concluding",
                         "saving", "finalizing"} \cup Ends

Routes == {"none", "RAG_QUERY", "GREETING", "VIOLATION", "NO_CONTEXT"}

EventKinds == {"word", "canned", "error", "trace", "citations", "end"}

NoArms == [semantic |-> <<>>, keyword |-> <<>>, near |-> 0]

\* VIOLATION_RESPONSE and NO_CONTEXT_RESPONSE.
Canned == <<[mark |-> 0, wide |-> FALSE]>>

Source == [chunk : Chunks, name : Docs \cup {Unknown}]
Citation == [number : 1..Top, source : Source]

RagTypeOK ==
  /\ step \in Steps
  /\ attempt \in 1..MaxAttempts
  /\ route \in Routes
  /\ arms.semantic \in Seq(Chunks) /\ arms.keyword \in Seq(Chunks) /\ arms.near \in Nat
  /\ chunks \in Seq(Chunks) /\ Len(chunks) <= Top
  /\ found \subseteq Docs
  /\ response \in Seq(Token)
  /\ sent \in Seq(EventKinds)
  /\ said \in Seq(Token)
  /\ cited \subseteq Citation
  /\ \A m \in saved : m.text \in Seq(Token) /\ m.citations \subseteq Citation
  /\ trace \in {"none", "running", "error", "final"}
  /\ open \subseteq {"embedding", "router", "retrieval", "generator"}
  /\ library \subseteq Docs

Fault(kind) == kind \in Faults

\* Observations of a trace that could not be created, or that fail to be
\* created themselves, are null.
Begun(o) == {S \in {open, open \cup {o}} :
               /\ o \in S => trace # "none"
               /\ o \notin S => trace = "none" \/ Fault("langfuse")}

\* The turn as handleChat starts it: trace created, embedding called.
Init ==
  /\ step = "embedding"
  /\ attempt = 1
  /\ route = "none"
  /\ arms = NoArms
  /\ chunks = <<>>
  /\ found = {}
  /\ response = <<>>
  /\ sent = <<>>
  /\ said = <<>>
  /\ cited = {}
  /\ saved = {}
  /\ trace \in {"running"} \cup (IF Fault("langfuse") THEN {"none"} ELSE {})
  /\ open = IF trace = "none" THEN {} ELSE {"embedding"}
  /\ library \in SUBSET Docs

Go(from, to) == /\ step = from
                /\ step' = to

Stored == {c \in Chunks : DocOf[c] \in library}

-----------------------------------------------------------------------------
(* withLlmRetry.                                                           *)

\* Mutant: one attempt too many.
MutAgain ==
  /\ step \in CallSteps
  /\ Fault("transient") /\ attempt <= MaxAttempts
  /\ attempt' = attempt + 1
  /\ UNCHANGED <<step, nodeVars, clientVars, saved, traceVars, library>>

\* Mutant: the ladder starts over after the last attempt.
MutAgainForever ==
  /\ step \in CallSteps
  /\ Fault("transient")
  /\ attempt' = IF attempt < MaxAttempts THEN attempt + 1 ELSE 1
  /\ UNCHANGED <<step, nodeVars, clientVars, saved, traceVars, library>>

\* A transient error before the last attempt: wait and call again.
Again ==
  /\ step \in CallSteps
  /\ Fault("transient") /\ attempt < MaxAttempts
  /\ attempt' = attempt + 1
  /\ UNCHANGED <<step, nodeVars, clientVars, saved, traceVars, library>>

\* The call throws: a client error at once, any other with the last attempt.
Throws == Fault("client") \/ (Fault("transient") /\ attempt = MaxAttempts)

\* recordTraceError and finalizeTrace: an update that throws is logged, and
\* the trace stays as it was.
Recorded(outcome) ==
  \/ trace' = IF trace = "none" THEN trace ELSE outcome
  \/ Fault("langfuse") /\ UNCHANGED trace

\* Either catch block of handleChat: record the error, write it, end.
GiveUp ==
  /\ step' = "failed"
  /\ Recorded("error")
  /\ sent' = sent \o <<"error", "end">>
  /\ UNCHANGED <<attempt, nodeVars, said, cited, saved, library>>

-----------------------------------------------------------------------------
(* The nodes.                                                              *)

\* embedQuery next to loadSessionContext (Promise.all); either failing is
\* fatal.  Where the context fails first, the embedding still runs out and
\* finalizes its observation later; that is taken as one step.
Embed ==
  /\ step = "embedding"
  /\ \/ /\ step' = "routing"
        /\ attempt' = 1
        /\ \E S \in Begun("router") : open' = S \ {"embedding"}
        /\ UNCHANGED <<nodeVars, clientVars, saved, trace, library>>
     \/ /\ Throws \/ Fault("db")
        /\ GiveUp
        /\ open' = open \ {"embedding"}

\* Mutant: the catch block returns early.
MutClassify ==
  /\ \/ Go("routing", "searching") /\ route' = "RAG_QUERY" /\ open' \in Begun("retrieval")
     \/ Go("routing", "opening") /\ route' = "GREETING" /\ open' \in Begun("generator")
     \/ Go("routing", "concluding") /\ route' = "VIOLATION" /\ UNCHANGED open
  /\ attempt' = 1
  /\ UNCHANGED <<arms, chunks, found, response, clientVars, saved, trace, library>>

\* RouterNode: by pattern or by the model; RAG_QUERY is also what a call that
\* throws and an answer that cannot be read come to.
Classify ==
  /\ \/ /\ Go("routing", "searching")
        /\ route' = "RAG_QUERY"
        /\ \E S \in Begun("retrieval") : open' = S \ {"router"}
     \/ /\ Go("routing", "opening")
        /\ route' = "GREETING"
        /\ \E S \in Begun("generator") : open' = S \ {"router"}
     \/ /\ Go("routing", "concluding")
        /\ route' = "VIOLATION"
        /\ open' = open \ {"router"}
  /\ attempt' = 1
  /\ UNCHANGED <<arms, chunks, found, response, clientVars, saved, trace, library>>

\* RetrievalNode, the hybrid query; a failed query finds nothing.
Search ==
  /\ Go("searching", "naming")
  /\ \/ \E ranked \in Lists(Stored, Cardinality(Stored)),
           matched \in UNION {Lists(S, Cardinality(S)) : S \in SUBSET Stored} :
          \E near \in 0..Len(Limited(ranked, ArmLimit)) :
            /\ arms' = [semantic |-> Limited(ranked, ArmLimit),
                        keyword |-> Limited(matched, ArmLimit), near |-> near]
            /\ chunks' \in Merged(arms'.semantic, arms'.keyword)
     \/ Fault("db") /\ UNCHANGED <<arms, chunks>>
  /\ UNCHANGED <<attempt, route, found, response, clientVars, saved, traceVars, library>>

\* RetrievalNode, the file names and the guardrail, which looks at the
\* similarity of the first row.
Name ==
  /\ \/ found' = {DocOf[chunks[i]] : i \in DOMAIN chunks} \cap library
     \/ Fault("db") /\ found' = {}
  /\ IF chunks # <<>> /\ Relevant(arms.semantic, arms.near, chunks[1])
     THEN /\ Go("naming", "opening")
          /\ \E S \in Begun("generator") : open' = S \ {"retrieval"}
          /\ UNCHANGED <<route, chunks>>
     ELSE /\ Go("naming", "concluding")
          /\ route' = "NO_CONTEXT"
          /\ chunks' = <<>>
          /\ open' = open \ {"retrieval"}
  /\ arms' = NoArms
  /\ UNCHANGED <<attempt, response, clientVars, saved, trace, library>>

\* GeneratorNode opens the model stream; its observation is not finalized
\* where it fails.
OpenStream ==
  \/ /\ Go("opening", "streaming")
     /\ attempt' = 1
     /\ UNCHANGED <<nodeVars, clientVars, saved, traceVars, library>>
  \/ /\ step = "opening" /\ Throws
     /\ GiveUp
     /\ UNCHANGED open

SayToken(t) ==
  /\ step = "streaming" /\ Len(response) < MaxTokens
  /\ response' = Append(response, t)
  /\ said' = Append(said, t)
  /\ sent' = Append(sent, "word")
  /\ UNCHANGED <<step, attempt, route, arms, chunks, found, cited, saved,
                 traceVars, library>>

\* Mutant: the ladder goes round the whole stream.
MutBreakOff ==
  /\ Go("streaming", "opening")
  /\ Fault("stream") /\ attempt < MaxAttempts
  /\ attempt' = attempt + 1
  /\ response' = <<>>
  /\ UNCHANGED <<route, arms, chunks, found, clientVars, saved, traceVars, library>>

\* The model stream breaks off: nothing is retried any more.
BreakOff ==
  /\ step = "streaming" /\ Fault("stream")
  /\ GiveUp
  /\ UNCHANGED open

\* The model stream ends: marks are normalized, the observation finalized.
EndStream ==
  /\ Go("streaming", "concluding")
  /\ response' = Normal(response)
  /\ open' = open \ {"generator"}
  /\ UNCHANGED <<attempt, route, arms, chunks, found, clientVars, saved, trace, library>>

-----------------------------------------------------------------------------
(* The end of handleChat, and postProcess.                                 *)

\* Mutant: the end marker is written with the answer, the trace after it.
MutConclude ==
  /\ Go("concluding", "saving")
  /\ cited' = BuildCitations(response, Sources(chunks, found))
  /\ sent' = sent \o <<"end", "trace">>
  /\ UNCHANGED <<attempt, nodeVars, said, saved, traceVars, library>>

\* A canned text where the graph ended without an answer; the trace, the
\* citations if any, the end.
Conclude ==
  /\ Go("concluding", "saving")
  /\ IF route \in {"VIOLATION", "NO_CONTEXT"} /\ response = <<>>
     THEN /\ response' = Canned
          /\ said' = Canned
          /\ sent' = <<"canned", "trace", "end">>
          /\ UNCHANGED cited
     ELSE /\ cited' = BuildCitations(response, Sources(chunks, found))
          /\ sent' = sent \o (IF cited' = {} THEN <<"trace", "end">>
                              ELSE <<"trace", "citations", "end">>)
          /\ UNCHANGED <<response, said>>
  /\ UNCHANGED <<attempt, route, arms, chunks, found, saved, traceVars, library>>

\* postProcess saves the answer; a failure is logged.
Save ==
  /\ Go("saving", "finalizing")
  /\ \/ saved' = {[text |-> response, citations |-> cited]}
     \/ Fault("db") /\ UNCHANGED saved
  /\ UNCHANGED <<attempt, nodeVars, clientVars, traceVars, library>>

FinalizeTrace ==
  /\ Go("finalizing", "done")
  /\ Recorded("final")
  /\ UNCHANGED <<attempt, nodeVars, clientVars, saved, open, library>>

-----------------------------------------------------------------------------
(* The environment.                                                        *)

\* A document is deleted, and its chunks with it.
Delete(d) ==
  /\ d \in library /\ step \notin Ends
  /\ library' = library \ {d}
  /\ UNCHANGED <<step, attempt, nodeVars, clientVars, saved, traceVars>>

Crash ==
  /\ Fault("crash") /\ step \notin Ends
  /\ step' = "lost"
  /\ UNCHANGED <<attempt, nodeVars, clientVars, saved, traceVars, library>>

Speak == \E t \in Token : SayToken(t)

TurnStep == \/ Again \/ Embed \/ Classify \/ Search \/ Name \/ OpenStream
            \/ Speak \/ BreakOff \/ EndStream \/ Conclude \/ Save \/ FinalizeTrace

Next == TurnStep \/ (\E d \in Docs : Delete(d)) \/ Crash

Spec == Init /\ [][Next]_vars

\* The process goes on with the turn: model calls and queries return or time
\* out, and no model streams for ever.
FairSpec == Spec /\ WF_vars(TurnStep)

-----------------------------------------------------------------------------
(* What a turn can rely on.                                                *)

\* The event stream is one that AnswerStream promises: one end marker and
\* nothing after it, words of the model or a canned text and never both, an
\* answer kept only after its trace was announced.
Stream == INSTANCE AnswerStream WITH out <- sent, kept <- saved # {}, cut <- step = "lost"
KeepsStreamPromise == Stream!StreamSpec

\* What is saved is what the client has read, up to the form of the marks:
\* no attempt of the model leaves words behind that a later one repeats.
SavedAsRead == \A m \in saved : m.text = Normal(said)

\* The pill for source n shows the chunk and the file name that the model
\* was shown under [Source n], in whichever form the model wrote the mark;
\* for a source there was none of, it shows nothing.
CitationsResolve ==
  step \in {"saving", "finalizing", "done"} =>
    LET sources == Sources(chunks, found)
    IN \A p \in Pills(said, cited) :
         p.shows = IF p.number \in DOMAIN sources THEN {sources[p.number]} ELSE {}

InBoth(c) == c \in Members(arms.semantic) \cap Members(arms.keyword)

\* Whatever both arms found comes before anything that only one of them
\* found, and no row comes after one that it outranks in both arms.
FusionRespectsBothArms ==
  \A c \in Members(arms.semantic) \cup Members(arms.keyword), i \in DOMAIN chunks :
    LET d == chunks[i]
    IN step = "naming" /\ InBoth(c) =>
         /\ ~InBoth(d) => \E j \in 1..(i - 1) : chunks[j] = c
         /\ /\ InBoth(d)
            /\ RankIn(arms.semantic, c) < RankIn(arms.semantic, d)
            /\ RankIn(arms.keyword, c) < RankIn(arms.keyword, d)
            => \E j \in 1..(i - 1) : chunks[j] = c

\* A finished turn has tried to finalize each of its observations, a failed
\* one all but the generator's.  What the trace says of the outcome is true,
\* and it says something unless Langfuse threw.
TraceTellsOutcome ==
  /\ step = "done" => open = {}
  /\ step = "failed" => open \subseteq {"generator"}
  /\ trace = "final" => step = "done"
  /\ trace = "error" => step = "failed"
  /\ step \in {"done", "failed"} /\ trace = "running" => Fault("langfuse")

\* Every turn ends, however the provider behaves.
TurnEnds == <>(step \in Ends)

\* The guardrail declines only where no chunk is relevant.
GuardrailMeansIrrelevant ==
  [][Name /\ route' = "NO_CONTEXT" => arms.near = 0]_vars
=============================================================================

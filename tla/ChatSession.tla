---------------------------- MODULE ChatSession ----------------------------
(***************************************************************************)
(* The chat of one session: ChatService's message, retry and feedback      *)
(* handlers, the retrieval graph they run, the exact and semantic answer   *)
(* caches in Redis, the message history in Postgres, and the part of       *)
(* document deletion that touches caches and history.                      *)
(*                                                                         *)
(* A request has one user message, at most one answer, one Langfuse trace  *)
(* and one semantic cache entry, so all four are named by the request.     *)
(* Each action is the code between two awaits.  An answer is saved and     *)
(* cached by a callback that runs after the stream was closed, so the      *)
(* client may already be doing something else.                             *)
(*                                                                         *)
(* Abstracted: texts and embeddings (Alike is the relation "cosine         *)
(* similarity at least 0.98" between different questions), ranking of      *)
(* chunks (any set of documents may ground an answer), the running summary *)
(* (sessions stay under its threshold), skipCache sent by a client, which  *)
(* acts like a retry without its deletions.                                *)
(***************************************************************************)
EXTENDS Naturals, Sequences, FiniteSets

CONSTANTS
  Requests,    \* chat and retry requests of the session
  Questions,   \* texts a user may ask
  Alike,       \* pairs of different questions with like embeddings
  Docs,        \* documents of the session
  Window,      \* SLIDING_WINDOW_SIZE
  MaxScan,     \* MAX_ENTRIES_TO_SCAN
  Nobody,      \* null
  Client,      \* when the client starts its next operation
  Ops,         \* what it does besides sending messages
  Faults       \* the faults the environment may produce

FaultKinds == {"redis",   \* a Redis command fails; the wrapper swallows it
               "db",      \* a Postgres statement fails
               "llm",     \* a model call fails after its retries, or says nothing
               "limit",   \* the rate limit is reached (module RateLimiter)
               "ttl",     \* a cache entry expires
               "crash"}   \* the backend process dies and is restarted

ClientKinds == {"any",      \* at any time: several tabs, or a stopped stream
                "waits",    \* once the stream of its last request has ended
                "settled"}  \* once the server has nothing left to do

ASSUME ChatAssumption ==
  /\ Alike \subseteq Questions \X Questions
  /\ Window \in Nat \ {0}
  /\ MaxScan \in Nat \ {0}
  /\ Nobody \notin Requests \cup Questions
  /\ Client \in ClientKinds
  /\ Ops \subseteq {"retry", "feedback", "delete"}
  /\ Faults \subseteq FaultKinds

VARIABLES
  step,       \* where each request is
  question,   \* what it asks
  retries,    \* requests started by handleRetry
  dropped,    \* the answer a retry removes (lastAssistant)
  target,     \* the user message a retry repeats (lastUser)
  window,     \* the sliding window a running request has loaded
  route,      \* how each answer came about
  grounds,    \* the documents it was drawn from
  served,     \* the cached answer a request was served instead
  messages,   \* the history, oldest first
  exact,      \* chat:cache: the answer stored for each question
  semantic,   \* semantic: the answers stored with their embedding
  blame,      \* where the thumbs-down of each answer is
  blamed,     \* the question it found for the answer
  doc         \* each document, and where its deletion is

turnVars == <<question, retries, dropped, target, window, route, grounds, served>>
cacheVars == <<exact, semantic>>
blameVars == <<blame, blamed>>
vars == <<step, turnVars, messages, cacheVars, blameVars, doc>>

RetrySteps == {"droppingAnswer", "findingQuestion", "clearingExact",
               "clearingSemantic", "droppingQuestion"}
StreamSteps == RetrySteps \cup {"limiting", "asking", "lookingUp", "loading",
                                "matching", "routing", "retrieving", "generating"}
LateSteps == {"promoting", "saving", "cachingExact", "cachingSemantic"}
Ends == {"done", "served", "failed", "lost"}

Routes == {"none", "RAG_QUERY", "GREETING", "VIOLATION", "NO_CONTEXT",
           "EMPTY"}   \* a stream without a token

BlameSteps == {"finding", "clearingExact", "clearingSemantic"}

Message == ({"user", "assistant"} \X Requests) \cup ({"system"} \X Docs)

TypeOK ==
  /\ step \in [Requests -> {"idle"} \cup StreamSteps \cup LateSteps \cup Ends]
  /\ question \in [Requests -> Questions \cup {Nobody}]
  /\ retries \subseteq Requests
  /\ dropped \in [Requests -> Requests \cup {Nobody}]
  /\ target \in [Requests -> Requests \cup {Nobody}]
  /\ window \in [Requests -> Seq(Message)]
  /\ route \in [Requests -> Routes]
  /\ grounds \in [Requests -> SUBSET Docs]
  /\ served \in [Requests -> Requests \cup {Nobody}]
  /\ messages \in Seq(Message)
  /\ exact \in [Questions -> Requests \cup {Nobody}]
  /\ semantic \subseteq Requests
  /\ blame \in [Requests -> {"none", "done", "ignored", "lost"} \cup BlameSteps]
  /\ blamed \in [Requests -> Questions \cup {Nobody}]
  /\ doc \in [Docs -> {"absent", "stored", "flushing", "noting", "deleted"}]

Init ==
  /\ step = [r \in Requests |-> "idle"]
  /\ question = [r \in Requests |-> Nobody]
  /\ retries = {}
  /\ dropped = [r \in Requests |-> Nobody]
  /\ target = [r \in Requests |-> Nobody]
  /\ window = [r \in Requests |-> <<>>]
  /\ route = [r \in Requests |-> "none"]
  /\ grounds = [r \in Requests |-> {}]
  /\ served = [r \in Requests |-> Nobody]
  /\ messages = <<>>
  /\ exact = [q \in Questions |-> Nobody]
  /\ semantic = {}
  /\ blame = [r \in Requests |-> "none"]
  /\ blamed = [r \in Requests |-> Nobody]
  /\ doc = [d \in Docs |-> "absent"]

Fault(kind) == kind \in Faults

StepTo(r, from, to) == /\ step[r] = from
                       /\ step' = [step EXCEPT ![r] = to]

\* Cosine similarity at least SIMILARITY_THRESHOLD; 1 for the same text.
Similar(p, q) == p = q \/ <<p, q>> \in Alike

\* Positions of the messages of one role, and findFirst by createdAt desc.
At(role) == {i \in DOMAIN messages : messages[i][1] = role}
Newest(I) == CHOOSE i \in I : \A j \in I : j <= i

Present(m) == \E i \in DOMAIN messages : messages[i] = m

RemoveAt(s, i) == SubSeq(s, 1, i - 1) \o SubSeq(s, i + 1, Len(s))

\* message.delete by id.
Drop(m) == \E i \in DOMAIN messages : /\ messages[i] = m
                                     /\ messages' = RemoveAt(messages, i)

\* findMany of the last SLIDING_WINDOW_SIZE messages, in order.
SlidingWindow == IF Len(messages) <= Window THEN messages
                 ELSE SubSeq(messages, Len(messages) - Window + 1, Len(messages))

ExactTo(q, r) == \/ exact' = [exact EXCEPT ![q] = r]
                 \/ Fault("redis") /\ UNCHANGED exact

\* delPattern deletes batch by batch; a failure leaves the rest.
WipeSemantic == \/ semantic' = {}
                \/ Fault("redis") /\ semantic' \in SUBSET semantic

-----------------------------------------------------------------------------
(* The client.                                                             *)

Streaming(r) == step[r] \in StreamSteps
Deleting(d) == doc[d] \in {"flushing", "noting"}

MayStart ==
  \/ Client = "any"
  \/ Client = "waits" /\ \A r \in Requests : ~Streaming(r)
  \/ /\ Client = "settled"
     /\ \A r \in Requests : /\ ~Streaming(r) /\ step[r] \notin LateSteps
                            /\ blame[r] \notin BlameSteps
     /\ \A d \in Docs : ~Deleting(d)

\* POST /chat.
Send(r) ==
  /\ MayStart
  /\ StepTo(r, "idle", "limiting")
  /\ \E q \in Questions : question' = [question EXCEPT ![r] = q]
  /\ UNCHANGED <<retries, dropped, target, window, route, grounds, served,
                 messages, cacheVars, blameVars, doc>>

\* POST /chat/retry, up to its first await: find the newest answer.
Retry(r) ==
  /\ MayStart
  /\ "retry" \in Ops
  /\ retries' = retries \cup {r}
  /\ \/ /\ At("assistant") # {}
        /\ StepTo(r, "idle", "droppingAnswer")
        /\ dropped' = [dropped EXCEPT ![r] = messages[Newest(At("assistant"))][2]]
     \/ /\ At("assistant") = {}
        /\ StepTo(r, "idle", "findingQuestion")
        /\ UNCHANGED dropped
     \/ /\ Fault("db")
        /\ StepTo(r, "idle", "failed")
        /\ UNCHANGED dropped
  /\ UNCHANGED <<question, target, window, route, grounds, served, messages,
                 cacheVars, blameVars, doc>>

\* Thumbs-down on an answer whose trace the client has: POST /chat/feedback
\* records the score and goes on to invalidateCacheForTrace.
Rate(r) ==
  /\ MayStart
  /\ "feedback" \in Ops
  /\ step[r] \in LateSteps \ {"promoting"} \/ step[r] = "done"
  /\ blame[r] = "none"
  /\ blame' = [blame EXCEPT ![r] = "finding"]
  /\ UNCHANGED <<step, turnVars, messages, cacheVars, blamed, doc>>

\* DELETE /documents/:id, up to the delete that takes the chunks along.
Delete(d) ==
  /\ MayStart
  /\ "delete" \in Ops
  /\ doc[d] = "stored"
  /\ doc' = [doc EXCEPT ![d] = "flushing"]
  /\ UNCHANGED <<step, turnVars, messages, cacheVars, blameVars>>

\* The worker has stored the chunks of an upload (module DocumentPipeline).
Store(d) ==
  /\ doc[d] = "absent"
  /\ doc' = [doc EXCEPT ![d] = "stored"]
  /\ UNCHANGED <<step, turnVars, messages, cacheVars, blameVars>>

-----------------------------------------------------------------------------
(* ChatService.handleRetry.                                                *)

\* message.delete throws when a concurrent retry was there first.
DropAnswer(r) ==
  /\ \/ /\ StepTo(r, "droppingAnswer", "findingQuestion")
        /\ Drop(<<"assistant", dropped[r]>>)
     \/ /\ ~Present(<<"assistant", dropped[r]>>) \/ Fault("db")
        /\ StepTo(r, "droppingAnswer", "failed")
        /\ UNCHANGED messages
  /\ UNCHANGED <<turnVars, cacheVars, blameVars, doc>>

\* Find the newest user message; 400 where there is none.
FindQuestion(r) ==
  /\ \/ /\ At("user") # {}
        /\ StepTo(r, "findingQuestion", "clearingExact")
        /\ LET u == messages[Newest(At("user"))][2]
           IN /\ target' = [target EXCEPT ![r] = u]
              /\ question' = [question EXCEPT ![r] = question[u]]
     \/ /\ At("user") = {} \/ Fault("db")
        /\ StepTo(r, "findingQuestion", "failed")
        /\ UNCHANGED <<target, question>>
  /\ UNCHANGED <<retries, dropped, window, route, grounds, served, messages,
                 cacheVars, blameVars, doc>>

ClearExact(r) ==
  /\ StepTo(r, "clearingExact", "clearingSemantic")
  /\ ExactTo(question[r], Nobody)
  /\ UNCHANGED <<turnVars, messages, semantic, blameVars, doc>>

ClearSemantic(r) ==
  /\ StepTo(r, "clearingSemantic", "droppingQuestion")
  /\ WipeSemantic
  /\ UNCHANGED <<turnVars, messages, exact, blameVars, doc>>

\* Mutant: deleteMany, which does not mind that nothing is there.
MutDropQuestion(r) ==
  /\ StepTo(r, "droppingQuestion", "limiting")
  /\ \/ Drop(<<"user", target[r]>>)
     \/ ~Present(<<"user", target[r]>>) /\ UNCHANGED messages
  /\ UNCHANGED <<turnVars, cacheVars, blameVars, doc>>

\* message.delete again, now of the question.
DropQuestion(r) ==
  /\ \/ /\ StepTo(r, "droppingQuestion", "limiting")
        /\ Drop(<<"user", target[r]>>)
     \/ /\ ~Present(<<"user", target[r]>>) \/ Fault("db")
        /\ StepTo(r, "droppingQuestion", "failed")
        /\ UNCHANGED messages
  /\ UNCHANGED <<turnVars, cacheVars, blameVars, doc>>

-----------------------------------------------------------------------------
(* ChatService.handleChat.                                                 *)

\* checkRateLimit: go on or answer 429.
Limit(r) ==
  /\ \/ StepTo(r, "limiting", "asking")
     \/ Fault("limit") /\ StepTo(r, "limiting", "failed")
  /\ UNCHANGED <<turnVars, messages, cacheVars, blameVars, doc>>

\* Mutant: a retry is taken to have its question in the history already.
MutAsk(r) ==
  /\ StepTo(r, "asking", IF r \in retries THEN "loading" ELSE "lookingUp")
  /\ messages' = IF r \in retries THEN messages ELSE Append(messages, <<"user", r>>)
  /\ UNCHANGED <<turnVars, cacheVars, blameVars, doc>>

\* Save the user message before anything else.
Ask(r) ==
  /\ \/ /\ StepTo(r, "asking", IF r \in retries THEN "loading" ELSE "lookingUp")
        /\ messages' = Append(messages, <<"user", r>>)
     \/ Fault("db") /\ StepTo(r, "asking", "failed") /\ UNCHANGED messages
  /\ UNCHANGED <<turnVars, cacheVars, blameVars, doc>>

\* The exact cache; a Redis error is a miss.
LookUp(r) ==
  /\ \/ /\ StepTo(r, "lookingUp", "served")
        /\ exact[question[r]] # Nobody
        /\ served' = [served EXCEPT ![r] = exact[question[r]]]
     \/ /\ StepTo(r, "lookingUp", "loading")
        /\ exact[question[r]] = Nobody \/ Fault("redis")
        /\ UNCHANGED served
  /\ UNCHANGED <<question, retries, dropped, target, window, route, grounds,
                 messages, cacheVars, blameVars, doc>>

\* Embed the question and load the sliding window; either error ends the
\* stream with an error event.
Load(r) ==
  /\ \/ /\ StepTo(r, "loading", IF r \in retries THEN "routing" ELSE "matching")
        /\ window' = [window EXCEPT ![r] = SlidingWindow]
     \/ /\ Fault("llm") \/ Fault("db")
        /\ StepTo(r, "loading", "failed")
        /\ UNCHANGED window
  /\ UNCHANGED <<question, retries, dropped, target, route, grounds, served,
                 messages, cacheVars, blameVars, doc>>

\* What a lookup gets to see: the first MAX_ENTRIES_TO_SCAN keys that SCAN
\* returns, in no order; with Redis errors, which read as missing, any part.
Seen == {S \in SUBSET semantic :
           \/ S = semantic /\ Cardinality(S) <= MaxScan
           \/ Cardinality(S) = MaxScan
           \/ Fault("redis")}

\* Mutant: the best entry wins, however unlike it is.
MutBest(q, S) == LET same == {e \in S : question[e] = q}
                 IN IF same # {} THEN same ELSE S

\* SemanticCacheService.lookup: the entries with the greatest similarity, if
\* that reaches the threshold.
Best(q, S) == LET same == {e \in S : question[e] = q}
              IN IF same # {} THEN same ELSE {e \in S : Similar(q, question[e])}

\* The semantic cache: a hit is served and promoted, a miss goes on.
Match(r) ==
  /\ \E S \in Seen :
       \/ \E e \in Best(question[r], S) :
            /\ StepTo(r, "matching", "promoting")
            /\ served' = [served EXCEPT ![r] = e]
            /\ window' = [window EXCEPT ![r] = <<>>]
       \/ /\ StepTo(r, "matching", "routing")
          /\ Best(question[r], S) = {}
          /\ UNCHANGED <<served, window>>
  /\ UNCHANGED <<question, retries, dropped, target, route, grounds, messages,
                 cacheVars, blameVars, doc>>

\* The setImmediate callback after a semantic hit.
Promote(r) ==
  /\ StepTo(r, "promoting", "served")
  /\ ExactTo(question[r], served[r])
  /\ UNCHANGED <<turnVars, messages, semantic, blameVars, doc>>

\* Mutant: the model's word is taken for a route.
MutRoute(r) ==
  /\ \E w \in Routes \cup {"CHITCHAT"} :
       StepTo(r, "routing", "generating") /\ route' = [route EXCEPT ![r] = w]
  /\ UNCHANGED <<question, retries, dropped, target, window, grounds, served,
                 messages, cacheVars, blameVars, doc>>

\* RouterNode; its default is RAG_QUERY, also when the model fails.
Route(r) ==
  /\ \/ StepTo(r, "routing", "retrieving") /\ route' = [route EXCEPT ![r] = "RAG_QUERY"]
     \/ StepTo(r, "routing", "generating") /\ route' = [route EXCEPT ![r] = "GREETING"]
     \/ StepTo(r, "routing", "saving") /\ route' = [route EXCEPT ![r] = "VIOLATION"]
  /\ window' = [window EXCEPT ![r] = IF step'[r] = "saving" THEN <<>> ELSE @]
  /\ UNCHANGED <<question, retries, dropped, target, grounds, served, messages,
                 cacheVars, blameVars, doc>>

\* RetrievalNode: chunks of stored documents, or the guardrail, which a
\* failed query ends in as well.
Retrieve(r) ==
  /\ \E D \in SUBSET {d \in Docs : doc[d] = "stored"} :
       IF D # {}
       THEN /\ StepTo(r, "retrieving", "generating")
            /\ grounds' = [grounds EXCEPT ![r] = D]
            /\ UNCHANGED <<route, window>>
       ELSE /\ StepTo(r, "retrieving", "saving")
            /\ route' = [route EXCEPT ![r] = "NO_CONTEXT"]
            /\ window' = [window EXCEPT ![r] = <<>>]
            /\ UNCHANGED grounds
  /\ UNCHANGED <<question, retries, dropped, target, served, messages,
                 cacheVars, blameVars, doc>>

\* GeneratorNode streams the answer; an error ends the stream and the turn.
Generate(r) ==
  /\ \/ StepTo(r, "generating", "saving") /\ UNCHANGED route
     \/ /\ Fault("llm")
        /\ StepTo(r, "generating", "saving")
        /\ route' = [route EXCEPT ![r] = "EMPTY"]
     \/ Fault("llm") /\ StepTo(r, "generating", "failed") /\ UNCHANGED route
  /\ window' = [window EXCEPT ![r] = <<>>]
  /\ UNCHANGED <<question, retries, dropped, target, grounds, served, messages,
                 cacheVars, blameVars, doc>>

\* Mutant: canned replies are cached too.
MutCacheCanned(r) == r \notin retries /\ route[r] # "EMPTY"

\* What postProcess caches: no retry, no canned reply, no empty answer.
Cacheable(r) == r \notin retries /\ route[r] \in {"RAG_QUERY", "GREETING"}

\* postProcess: save the answer, ignoring a failure.
Save(r) ==
  /\ StepTo(r, "saving", IF Cacheable(r) THEN "cachingExact" ELSE "done")
  /\ \/ messages' = Append(messages, <<"assistant", r>>)
     \/ Fault("db") /\ UNCHANGED messages
  /\ UNCHANGED <<turnVars, cacheVars, blameVars, doc>>

CacheExact(r) ==
  /\ StepTo(r, "cachingExact", "cachingSemantic")
  /\ ExactTo(question[r], r)
  /\ UNCHANGED <<turnVars, messages, semantic, blameVars, doc>>

CacheSemantic(r) ==
  /\ StepTo(r, "cachingSemantic", "done")
  /\ \/ semantic' = semantic \cup {r}
     \/ Fault("redis") /\ UNCHANGED semantic
  /\ UNCHANGED <<turnVars, messages, exact, blameVars, doc>>

RetryStep(r) == \/ DropAnswer(r) \/ FindQuestion(r) \/ ClearExact(r)
                \/ ClearSemantic(r) \/ DropQuestion(r)

ChatStep(r) == \/ Limit(r) \/ Ask(r) \/ LookUp(r) \/ Load(r) \/ Match(r)
               \/ Promote(r) \/ Route(r) \/ Retrieve(r) \/ Generate(r)
               \/ Save(r) \/ CacheExact(r) \/ CacheSemantic(r)

-----------------------------------------------------------------------------
(* ChatService.invalidateCacheForTrace.                                    *)

BlameTo(r, from, to) == /\ blame[r] = from
                        /\ blame' = [blame EXCEPT ![r] = to]

\* Find the answer by its trace and the newest user message before it (two
\* reads, taken as one); nothing is invalidated where either is missing.
FindBlamed(r) ==
  /\ LET answer == {i \in At("assistant") : messages[i][2] = r}
         asked == {i \in At("user") : \A j \in answer : i < j}
     IN \/ /\ answer # {} /\ asked # {}
           /\ BlameTo(r, "finding", "clearingExact")
           /\ blamed' = [blamed EXCEPT ![r] = question[messages[Newest(asked)][2]]]
        \/ /\ answer = {} \/ asked = {} \/ Fault("db")
           /\ BlameTo(r, "finding", "ignored")
           /\ UNCHANGED blamed
  /\ UNCHANGED <<step, turnVars, messages, cacheVars, doc>>

ClearBlamedExact(r) ==
  /\ BlameTo(r, "clearingExact", "clearingSemantic")
  /\ ExactTo(blamed[r], Nobody)
  /\ UNCHANGED <<step, turnVars, messages, semantic, blamed, doc>>

\* Mutant: only the exact entry goes.
MutClearBlamedSemantic(r) ==
  /\ BlameTo(r, "clearingSemantic", "done")
  /\ UNCHANGED <<step, turnVars, messages, cacheVars, blamed, doc>>

ClearBlamedSemantic(r) ==
  /\ BlameTo(r, "clearingSemantic", "done")
  /\ WipeSemantic
  /\ UNCHANGED <<step, turnVars, messages, exact, blamed, doc>>

BlameStep(r) == FindBlamed(r) \/ ClearBlamedExact(r) \/ ClearBlamedSemantic(r)

-----------------------------------------------------------------------------
(* The rest of DocumentService.deleteDocument.                             *)

\* Mutant: the flush matches no key.
MutFlush(d) ==
  /\ doc[d] = "flushing"
  /\ doc' = [doc EXCEPT ![d] = "noting"]
  /\ UNCHANGED <<step, turnVars, messages, cacheVars, blameVars>>

\* flushSessionCache: the semantic entries only.
Flush(d) ==
  /\ doc[d] = "flushing"
  /\ doc' = [doc EXCEPT ![d] = "noting"]
  /\ WipeSemantic
  /\ UNCHANGED <<step, turnVars, messages, exact, blameVars>>

\* insertGhostMessage, ignoring a failure.
Note(d) ==
  /\ doc[d] = "noting"
  /\ doc' = [doc EXCEPT ![d] = "deleted"]
  /\ \/ messages' = Append(messages, <<"system", d>>)
     \/ Fault("db") /\ UNCHANGED messages
  /\ UNCHANGED <<step, turnVars, cacheVars, blameVars>>

-----------------------------------------------------------------------------
(* The environment.                                                        *)

Expire ==
  /\ Fault("ttl")
  /\ \/ /\ \E q \in Questions : exact[q] # Nobody /\ exact' = [exact EXCEPT ![q] = Nobody]
        /\ UNCHANGED semantic
     \/ /\ \E e \in semantic : semantic' = semantic \ {e}
        /\ UNCHANGED exact
  /\ UNCHANGED <<step, turnVars, messages, blameVars, doc>>

\* Everything in flight dies; Postgres and Redis survive.  A stream breaks
\* off; what was left to do after a stream was closed is never done.
Crash ==
  LET running == {r \in Requests : Streaming(r)}
      late == {r \in Requests : step[r] \in LateSteps}
      rating == {r \in Requests : blame[r] \in BlameSteps}
      dying == {d \in Docs : Deleting(d)}
  IN /\ Fault("crash")
     /\ running # {} \/ late # {} \/ rating # {} \/ dying # {}
     /\ step' = [r \in Requests |-> CASE r \in running -> "lost"
                                      [] r \in late -> IF step[r] = "promoting"
                                                       THEN "served" ELSE "done"
                                      [] OTHER -> step[r]]
     /\ window' = [r \in Requests |-> <<>>]
     /\ blame' = [r \in Requests |-> IF r \in rating THEN "lost" ELSE blame[r]]
     /\ doc' = [d \in Docs |-> IF d \in dying THEN "deleted" ELSE doc[d]]
     /\ UNCHANGED <<question, retries, dropped, target, route, grounds, served,
                    messages, cacheVars, blamed>>

Next == \/ \E r \in Requests : \/ Send(r) \/ Retry(r) \/ RetryStep(r) \/ ChatStep(r)
                               \/ Rate(r) \/ BlameStep(r)
        \/ \E d \in Docs : Store(d) \/ Delete(d) \/ Flush(d) \/ Note(d)
        \/ Expire
        \/ Crash

Spec == Init /\ [][Next]_vars

-----------------------------------------------------------------------------
(* What a session can rely on.                                             *)

Cached(e) == e \in semantic \/ \E q \in Questions : exact[q] = e

\* Neither cache ever holds a canned or empty reply, which would outlive the
\* document that makes it wrong, and none written by a retry.
CannedNeverCached ==
  \A e \in Requests : Cached(e) => /\ route[e] \in {"RAG_QUERY", "GREETING"}
                                   /\ e \notin retries

\* A cached answer is served only for the question it answered or one with a
\* like embedding; hits that are promoted to the exact cache do not drift
\* from question to question.
ServedForLikeQuestion ==
  \A r \in Requests : served[r] # Nobody => Similar(question[r], question[served[r]])

\* Concurrent retries never ask one question twice.
RetriedOnce ==
  \A r, s \in retries :
    /\ target[r] = target[s] /\ target[r] # Nobody
    /\ Present(<<"user", r>>) /\ Present(<<"user", s>>)
    => r = s

\* The prompt builder drops the last entry of the window because it is the
\* current question.
PromptEndsWithQuestion ==
  \A r \in Requests :
    step[r] \in {"matching", "routing", "retrieving", "generating"} =>
      /\ window[r] # <<>>
      /\ window[r][Len(window[r])] = <<"user", r>>

\* The steps of a request whose question was saved, and those a retry may be
\* at when it has got past deleting the question it repeats.
Posed == {"lookingUp", "loading", "matching", "routing", "retrieving", "generating",
          "done", "served"} \cup LateSteps
Onward == Posed \cup {"limiting", "asking", "failed", "lost"}

\* A question that was saved is there, or a retry has taken it away which is
\* about to save it again, has done so, or has ended in a failure: however
\* retries interleave, and whatever fails, only a retry that itself fails can
\* lose a question.  One that saved it again answers for it in turn.
RetryKeepsQuestion ==
  \A x \in Requests : step[x] \in Posed =>
    \/ Present(<<"user", x>>)
    \/ \E r \in retries : target[r] = x /\ step[r] \in Onward

\* A retry does not lose the question it repeats, not even when it fails.
QuestionSurvivesRetry ==
  \A r \in retries : target[r] # Nobody /\ step[r] \in Ends =>
    \/ Present(<<"user", target[r]>>)
    \/ Present(<<"user", r>>)
    \/ \E s \in retries : target[s] = r

\* The answer a retry removes is the answer to the question it repeats.
RetryRollsBackItsTurn ==
  \A r \in retries : dropped[r] # Nobody /\ target[r] # Nobody
                         => target[r] = dropped[r]

\* The answer is cached under its own question.
OwnEntry(r) == \/ r \in semantic
               \/ \E q \in Questions : question[r] = q /\ exact[q] = r

\* After a thumbs-down neither the exact entry of the question nor the
\* semantic cache holds the answer.
FeedbackPurges == \A r \in Requests : blame[r] = "done" => ~OwnEntry(r)

\* After a thumbs-down the answer is not served to anybody.
BlamedNotCached == \A r \in Requests : blame[r] = "done" => ~Cached(r)

\* After a document was deleted the semantic cache holds no answer drawn
\* from it.
FlushPurges ==
  \A d \in Docs, e \in semantic : doc[d] = "deleted" => d \notin grounds[e]

\* ... and neither does the exact cache.
DeletePurges ==
  \A d \in Docs, e \in Requests : doc[d] = "deleted" /\ Cached(e) => d \notin grounds[e]

\* What PromptBuilderService makes of a window: no last entry, no leading
\* answers, no system messages.
History(w) ==
  LET asked == {i \in 1..(Len(w) - 1) : w[i][1] = "user"}
  IN {w[i] : i \in {j \in 1..(Len(w) - 1) : /\ w[j][1] # "system"
                                            /\ \E a \in asked : a <= j}}

\* A prompt with an answer drawn from a deleted document says that it was
\* deleted.
PromptNotesDeletion ==
  \A r \in Requests, d \in Docs, e \in Requests :
    /\ step[r] = "generating"
    /\ <<"system", d>> \in {window[r][i] : i \in DOMAIN window[r]}
    /\ <<"assistant", e>> \in History(window[r])
    /\ d \in grounds[e]
    => <<"system", d>> \in History(window[r])
=============================================================================

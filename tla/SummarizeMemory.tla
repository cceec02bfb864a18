-------------------------- MODULE SummarizeMemory --------------------------
(***************************************************************************)
(* The memory of one session over many turns: the messages in Postgres,    *)
(* the running summary that SummarizeMemoryNodeService condenses the       *)
(* oldest of them into after a turn, and what a later prompt is built      *)
(* from.                                                                   *)
(*                                                                         *)
(* Messages are numbered in the order of createdAt.  A summary is the set  *)
(* of messages condensed into it: the model is taken to keep what it is    *)
(* given.  Left out: ghost messages, which are not counted, and retries.   *)
(***************************************************************************)
EXTENDS Integers, FiniteSets

CONSTANTS
  Turns,      \* chat requests of the session
  Threshold,  \* MESSAGE_THRESHOLD
  Compress,   \* MESSAGES_TO_COMPRESS
  Window,     \* SLIDING_WINDOW_SIZE
  Client,     \* when the next turn starts, as in module ChatSession
  Faults      \* subset of {"llm", "db", "crash"}

ASSUME MemoryAssumption ==
  /\ IsFiniteSet(Turns)
  /\ Threshold \in Nat /\ Compress \in Nat \ {0} /\ Window \in Nat \ {0}
  /\ Client \in {"any", "waits", "settled"}
  /\ Faults \subseteq {"llm", "db", "crash"}

VARIABLES
  log,      \* the messages in the history
  next,     \* how many messages were ever saved
  summary,  \* sessions.running_summary
  step,     \* where each turn is
  unread,   \* what loadSessionContext still has to read for it
  prompt,   \* its sliding window
  held,     \* the summary it has read
  old       \* the messages it is condensing

vars == <<log, next, summary, step, unread, prompt, held, old>>

StreamSteps == {"asked", "loading", "answering"}
LateSteps == {"saving", "counting", "fetching", "condensing", "committing"}

Numbers == 0..(2 * Cardinality(Turns) - 1)

TypeOK ==
  /\ log \subseteq Numbers
  /\ next \in 0..(2 * Cardinality(Turns))
  /\ summary \subseteq Numbers
  /\ step \in [Turns -> {"idle", "done", "lost"} \cup StreamSteps \cup LateSteps]
  /\ unread \in [Turns -> SUBSET {"messages", "session"}]
  /\ prompt \in [Turns -> SUBSET Numbers]
  /\ held \in [Turns -> SUBSET Numbers]
  /\ old \in [Turns -> SUBSET Numbers]

Init ==
  /\ log = {} /\ next = 0 /\ summary = {}
  /\ step = [t \in Turns |-> "idle"]
  /\ unread = [t \in Turns |-> {}]
  /\ prompt = [t \in Turns |-> {}]
  /\ held = [t \in Turns |-> {}]
  /\ old = [t \in Turns |-> {}]

Fault(kind) == kind \in Faults

StepTo(t, from, to) == step[t] = from /\ step' = [step EXCEPT ![t] = to]

\* The k oldest and the k newest messages.
Oldest(k) == {m \in log : Cardinality({n \in log : n < m}) < k}
Newest(k) == {m \in log : Cardinality({n \in log : n > m}) < k}

MayStart ==
  \/ Client = "any"
  \/ Client = "waits" /\ \A t \in Turns : step[t] \notin StreamSteps
  \/ Client = "settled" /\ \A t \in Turns : step[t] \notin StreamSteps \cup LateSteps

SaveMessage == log' = log \cup {next} /\ next' = next + 1

\* handleChat saves the user message.
Ask(t) ==
  /\ MayStart
  /\ \/ StepTo(t, "idle", "asked") /\ SaveMessage
     \/ Fault("db") /\ StepTo(t, "idle", "done") /\ UNCHANGED <<log, next>>
  /\ UNCHANGED <<summary, unread, prompt, held, old>>

\* A cached answer ends the turn here; otherwise the context is loaded.
LookUp(t) ==
  /\ \/ StepTo(t, "asked", "done") /\ UNCHANGED unread
     \/ /\ StepTo(t, "asked", "loading")
        /\ unread' = [unread EXCEPT ![t] = {"messages", "session"}]
  /\ UNCHANGED <<log, next, summary, prompt, held, old>>

\* loadSessionContext runs its two reads in parallel.
ReadMessages(t) ==
  /\ step[t] = "loading" /\ "messages" \in unread[t]
  /\ unread' = [unread EXCEPT ![t] = @ \ {"messages"}]
  /\ prompt' = [prompt EXCEPT ![t] = Newest(Window)]
  /\ UNCHANGED <<log, next, summary, step, held, old>>

ReadSession(t) ==
  /\ step[t] = "loading" /\ "session" \in unread[t]
  /\ unread' = [unread EXCEPT ![t] = @ \ {"session"}]
  /\ held' = [held EXCEPT ![t] = summary]
  /\ UNCHANGED <<log, next, summary, step, prompt, old>>

\* Both have been read, or one read or the embedding has failed.
Loaded(t) ==
  /\ \/ unread[t] = {} /\ StepTo(t, "loading", "answering")
     \/ (Fault("db") \/ Fault("llm")) /\ StepTo(t, "loading", "done")
  /\ unread' = [unread EXCEPT ![t] = {}]
  /\ UNCHANGED <<log, next, summary, prompt, held, old>>

\* The graph answers from the window alone, or fails.
Answer(t) ==
  /\ \/ StepTo(t, "answering", "saving")
     \/ Fault("llm") /\ StepTo(t, "answering", "done")
  /\ prompt' = [prompt EXCEPT ![t] = {}]
  /\ UNCHANGED <<log, next, summary, unread, held, old>>

\* Mutant: a failed save is tried again, also when it reached the database.
MutSaveAnswer(t) ==
  /\ StepTo(t, "saving", "counting") \/ (Fault("db") /\ StepTo(t, "saving", "saving"))
  /\ SaveMessage
  /\ UNCHANGED <<summary, unread, prompt, held, old>>

\* postProcess saves the answer, ignoring a failure, and calls execute.
SaveAnswer(t) ==
  /\ StepTo(t, "saving", "counting")
  /\ SaveMessage \/ (Fault("db") /\ UNCHANGED <<log, next>>)
  /\ UNCHANGED <<summary, unread, prompt, held, old>>

\* Mutant: < for <=.
MutCount(t) ==
  /\ StepTo(t, "counting", IF Cardinality(log) < Threshold THEN "done" ELSE "fetching")
  /\ UNCHANGED <<log, next, summary, unread, prompt, held, old>>

\* message.count: nothing to do up to the threshold.
Count(t) ==
  /\ \/ StepTo(t, "counting", IF Cardinality(log) <= Threshold THEN "done" ELSE "fetching")
     \/ Fault("db") /\ StepTo(t, "counting", "done")
  /\ UNCHANGED <<log, next, summary, unread, prompt, held, old>>

\* message.findMany of the oldest messages.
Fetch(t) ==
  /\ \/ /\ StepTo(t, "fetching", IF log = {} THEN "done" ELSE "condensing")
        /\ old' = [old EXCEPT ![t] = Oldest(Compress)]
     \/ Fault("db") /\ StepTo(t, "fetching", "done") /\ UNCHANGED old
  /\ UNCHANGED <<log, next, summary, unread, prompt, held>>

\* The model condenses the summary it was given and the old messages.
Condense(t) ==
  /\ \/ StepTo(t, "condensing", "committing")
     \/ Fault("llm") /\ StepTo(t, "condensing", "done")
  /\ UNCHANGED <<log, next, summary, unread, prompt, held, old>>

\* Mutant: the two statements are not a transaction.
MutCommit(t) ==
  /\ StepTo(t, "committing", "done")
  /\ summary' = held[t] \cup old[t]
  /\ log' = log \ old[t] \/ (Fault("db") /\ UNCHANGED log)
  /\ UNCHANGED <<next, unread, prompt, held, old>>

\* Mutant: the model is not given the summary so far.
MutCommitAnew(t) ==
  /\ StepTo(t, "committing", "done")
  /\ summary' = old[t]
  /\ log' = log \ old[t]
  /\ UNCHANGED <<next, unread, prompt, held, old>>

\* One transaction replaces the summary and deletes the messages.
Commit(t) ==
  /\ StepTo(t, "committing", "done")
  /\ \/ summary' = held[t] \cup old[t] /\ log' = log \ old[t]
     \/ Fault("db") /\ UNCHANGED <<summary, log>>
  /\ UNCHANGED <<next, unread, prompt, held, old>>

Crash ==
  LET running == {t \in Turns : step[t] \in StreamSteps \cup LateSteps}
  IN /\ Fault("crash") /\ running # {}
     /\ step' = [t \in Turns |-> IF t \in running THEN "lost" ELSE step[t]]
     /\ UNCHANGED <<log, next, summary, unread, prompt, held, old>>

Next == \/ \E t \in Turns : \/ Ask(t) \/ LookUp(t) \/ ReadMessages(t)
                            \/ ReadSession(t) \/ Loaded(t) \/ Answer(t)
                            \/ SaveAnswer(t) \/ Count(t) \/ Fetch(t)
                            \/ Condense(t) \/ Commit(t)
        \/ Crash

Spec == Init /\ [][Next]_vars

-----------------------------------------------------------------------------
\* Every message is in the history or in the summary.
NothingForgotten == \A m \in 0..(next - 1) : m \in log \cup summary

\* No message is in both: a message that was condensed is gone, whatever
\* fails between the two statements.
NothingTwice == log \cap summary = {}

\* Messages leave a history only while it is longer than the threshold.
CompressOnlyLong ==
  [][Cardinality(log') < Cardinality(log) => Cardinality(log) > Threshold]_vars

\* What was condensed is part of the next prompts.
PromptRemembers ==
  \A t \in Turns : step[t] = "answering" => held[t] \subseteq prompt[t]
=============================================================================

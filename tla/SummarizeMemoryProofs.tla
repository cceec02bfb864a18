----------------------- MODULE SummarizeMemoryProofs -----------------------
(***************************************************************************)
(* No message is both in the history and in the summary, for any number of *)
(* turns, any threshold, any client and all faults.  With a client that    *)
(* waits for the server to settle, none is lost; TLC shows that this does  *)
(* not hold without that.                                                  *)
(***************************************************************************)
EXTENDS SummarizeMemory, FiniteSetTheorems, TLAPS

\* Whatever a turn has read of the summary was condensed before, and what
\* was condensed is never saved again.
Inv ==
  /\ next \in Nat
  /\ log \subseteq 0..(next - 1)
  /\ summary \subseteq 0..(next - 1)
  /\ held \in [Turns -> SUBSET (0..(next - 1))]
  /\ old \in [Turns -> SUBSET (0..(next - 1))]
  /\ \A t \in Turns : held[t] \cap log = {}
  /\ summary \cap log = {}

LEMMA InvInit == Init => Inv
BY DEF Init, Inv

\* A step that leaves memory alone, but may read the summary or the history.
LEMMA ReadKeepsInv ==
  ASSUME Inv, UNCHANGED <<log, next, summary>>, NEW t \in Turns,
         held' = held \/ held' = [held EXCEPT ![t] = summary],
         \/ old' = old
         \/ \E M \in SUBSET log : old' = [old EXCEPT ![t] = M]
  PROVE  Inv'
BY DEF Inv

LEMMA SaveKeepsInv ==
  ASSUME Inv, SaveMessage, UNCHANGED <<summary, held, old>>
  PROVE  Inv'
<1> USE DEF Inv, SaveMessage
<1>1. next' \in Nat /\ 0..(next - 1) \subseteq 0..(next' - 1) /\ next \notin 0..(next - 1)
  OBVIOUS
<1>2. log' \subseteq 0..(next' - 1)
  OBVIOUS
<1>3. /\ held' \in [Turns -> SUBSET (0..(next' - 1))]
      /\ old' \in [Turns -> SUBSET (0..(next' - 1))]
  BY <1>1
<1>4. \A t \in Turns : held'[t] \cap log' = {}
  BY <1>1
<1>5. summary' \cap log' = {}
  BY <1>1
<1> QED BY <1>1, <1>2, <1>3, <1>4, <1>5

LEMMA InvStep == Inv /\ [Next]_vars => Inv'
<1> SUFFICES ASSUME Inv, [Next]_vars PROVE Inv'
  OBVIOUS
<1>1. ASSUME NEW t \in Turns, Ask(t) PROVE Inv'
  <2>1. CASE SaveMessage
    BY <1>1, <2>1, SaveKeepsInv DEF Ask
  <2>2. CASE UNCHANGED <<log, next>>
    BY <1>1, <2>2 DEF Ask, Inv
  <2> QED BY <1>1, <2>1, <2>2 DEF Ask
<1>2. ASSUME NEW t \in Turns, LookUp(t) \/ ReadMessages(t) \/ Loaded(t) \/ Answer(t)
      PROVE  Inv'
  BY <1>2 DEF LookUp, ReadMessages, Loaded, Answer, Inv
<1>3. ASSUME NEW t \in Turns, ReadSession(t) PROVE Inv'
  BY <1>3, ReadKeepsInv DEF ReadSession
<1>4. ASSUME NEW t \in Turns, SaveAnswer(t) PROVE Inv'
  <2>1. CASE SaveMessage
    BY <1>4, <2>1, SaveKeepsInv DEF SaveAnswer
  <2>2. CASE UNCHANGED <<log, next>>
    BY <1>4, <2>2 DEF SaveAnswer, Inv
  <2> QED BY <1>4, <2>1, <2>2 DEF SaveAnswer
<1>5. ASSUME NEW t \in Turns, Count(t) \/ Condense(t) PROVE Inv'
  BY <1>5 DEF Count, Condense, Inv
<1>6. ASSUME NEW t \in Turns, Fetch(t) PROVE Inv'
  <2>1. Oldest(Compress) \in SUBSET log
    BY DEF Oldest
  <2> QED BY <1>6, <2>1, ReadKeepsInv DEF Fetch
<1>7. ASSUME NEW t \in Turns, Commit(t) PROVE Inv'
  <2>1. CASE UNCHANGED <<summary, log>>
    BY <1>7, <2>1 DEF Commit, Inv
  <2>2. CASE summary' = held[t] \cup old[t] /\ log' = log \ old[t]
    BY <1>7, <2>2 DEF Commit, Inv
  <2> QED BY <1>7, <2>1, <2>2 DEF Commit
<1>8. CASE Crash
  BY <1>8 DEF Crash, Inv
<1>9. CASE UNCHANGED vars
  BY <1>9 DEF vars, Inv
<1> QED BY <1>1, <1>2, <1>3, <1>4, <1>5, <1>6, <1>7, <1>8, <1>9 DEF Next

\* A message that was condensed is gone from the history, whatever fails
\* between the two statements (SummarizeMemoryNodeService.execute).
THEOREM CondensedIsGone == Spec => []NothingTwice
<1>1. Inv => NothingTwice
  BY DEF Inv, NothingTwice
<1> QED BY <1>1, InvInit, InvStep, PTL DEF Spec

-----------------------------------------------------------------------------
(* Types.  A turn saves at most two messages, its question when it starts    *)
(* and its answer when it gets past saving, so there are never more.         *)

Started == {t \in Turns : step[t] # "idle"}
Past == {t \in Turns : step[t] \notin {"idle", "saving"} \cup StreamSteps}

Typed ==
  /\ Inv
  /\ step \in [Turns -> {"idle", "done", "lost"} \cup StreamSteps \cup LateSteps]
  /\ unread \in [Turns -> SUBSET {"messages", "session"}]
  /\ prompt \in [Turns -> SUBSET (0..(next - 1))]
  /\ next <= Cardinality(Started) + Cardinality(Past)

LEMMA TypedInit == Init => Typed
<1> SUFFICES ASSUME Init PROVE Typed
  OBVIOUS
<1>1. Started = {} /\ Past = {}
  BY DEF Init, Started, Past
<1>2. Cardinality(Started) = 0 /\ Cardinality(Past) = 0
  BY <1>1, FS_EmptySet
<1> QED BY <1>2, InvInit DEF Init, Typed

LEMMA SizesAreNumbers ==
  /\ IsFiniteSet(Started) /\ Cardinality(Started) \in 0..Cardinality(Turns)
  /\ IsFiniteSet(Past) /\ Cardinality(Past) \in 0..Cardinality(Turns)
  /\ Cardinality(Turns) \in Nat
<1>1. IsFiniteSet(Turns) /\ Started \in SUBSET Turns /\ Past \in SUBSET Turns
  BY MemoryAssumption DEF Started, Past
<1>2. IsFiniteSet(Started) /\ IsFiniteSet(Past)
  BY <1>1, FS_Subset
<1>3. /\ Cardinality(Started) \in Nat /\ Cardinality(Past) \in Nat
      /\ Cardinality(Turns) \in Nat
  BY <1>1, <1>2, FS_CardinalityType
<1>4. Cardinality(Started) <= Cardinality(Turns) /\ Cardinality(Past) <= Cardinality(Turns)
  BY <1>1, FS_Subset
<1> QED BY <1>2, <1>3, <1>4

\* What a step has to show: turns only go forward, and a message is saved
\* where one of the two sets grows.
LEMMA BoundStep ==
  ASSUME Typed, next' \in Nat, Started \subseteq Started', Past \subseteq Past',
         \/ next' = next
         \/ /\ next' = next + 1
            /\ \E t \in Turns : \/ t \in Started' \ Started
                                \/ t \in Past' \ Past
  PROVE  next' <= Cardinality(Started') + Cardinality(Past')
<1>1. /\ Started' \in SUBSET Turns /\ Past' \in SUBSET Turns
      /\ IsFiniteSet(Turns)
  BY MemoryAssumption DEF Started, Past
<1>2. IsFiniteSet(Started') /\ IsFiniteSet(Past')
  BY <1>1, FS_Subset
<1>3. Cardinality(Started') \in Nat /\ Cardinality(Past') \in Nat
  BY <1>2, FS_CardinalityType
<1>4. /\ Cardinality(Started) <= Cardinality(Started')
      /\ Cardinality(Past) <= Cardinality(Past')
      /\ Cardinality(Started') = Cardinality(Started) => Started' = Started
      /\ Cardinality(Past') = Cardinality(Past) => Past' = Past
  BY <1>2, FS_Subset
<1>5. next \in Nat /\ next <= Cardinality(Started) + Cardinality(Past)
  BY DEF Typed, Inv
<1>6. CASE next' = next
  BY <1>3, <1>4, <1>5, <1>6, SizesAreNumbers
<1>7. ASSUME NEW t \in Turns, next' = next + 1, t \in Started' \ Started \/ t \in Past' \ Past
      PROVE  next' <= Cardinality(Started') + Cardinality(Past')
  <2>1. Started' # Started \/ Past' # Past
    BY <1>7
  <2> QED BY <2>1, <1>3, <1>4, <1>5, <1>7, SizesAreNumbers
<1> QED BY <1>6, <1>7

LEMMA TypedStep == Typed /\ [Next]_vars => Typed'
<1> SUFFICES ASSUME Typed, [Next]_vars PROVE Typed'
  OBVIOUS
<1>1. Inv' /\ next' \in Nat /\ next \in Nat
  BY InvStep DEF Typed, Inv
<1> USE DEF Typed, StreamSteps, LateSteps, StepTo, Started, Past
<1>2. ASSUME NEW t \in Turns, Ask(t) PROVE Typed'
  <2>1. /\ Started \subseteq Started' /\ Past \subseteq Past'
        /\ t \in Started' \ Started
        /\ next' = next \/ next' = next + 1
    BY <1>2 DEF Ask, SaveMessage
  <2>2. next' <= Cardinality(Started') + Cardinality(Past')
    <3> HIDE DEF Typed, Started, Past
    <3> QED BY <1>1, <2>1, BoundStep
  <2>3. prompt' \in [Turns -> SUBSET (0..(next' - 1))]
    BY <1>1, <1>2, <2>1 DEF Ask
  <2> QED BY <1>1, <1>2, <2>2, <2>3 DEF Ask
<1>3. ASSUME NEW t \in Turns, SaveAnswer(t) PROVE Typed'
  <2>1. /\ Started \subseteq Started' /\ Past \subseteq Past'
        /\ t \in Past' \ Past
        /\ next' = next \/ next' = next + 1
    BY <1>3 DEF SaveAnswer, SaveMessage
  <2>2. next' <= Cardinality(Started') + Cardinality(Past')
    <3> HIDE DEF Typed, Started, Past
    <3> QED BY <1>1, <2>1, BoundStep
  <2>3. prompt' \in [Turns -> SUBSET (0..(next' - 1))]
    BY <1>1, <1>3, <2>1 DEF SaveAnswer
  <2> QED BY <1>1, <1>3, <2>2, <2>3 DEF SaveAnswer
<1>4. ASSUME Started \subseteq Started', Past \subseteq Past', next' = next
      PROVE  next' <= Cardinality(Started') + Cardinality(Past')
  <2> HIDE DEF Typed, Started, Past
  <2> QED BY <1>1, <1>4, BoundStep
<1>5. ASSUME NEW t \in Turns, LookUp(t) \/ ReadSession(t) \/ Loaded(t) \/ Answer(t)
      PROVE  Typed'
  <2>1. Started \subseteq Started' /\ Past \subseteq Past' /\ next' = next
    BY <1>5 DEF LookUp, ReadSession, Loaded, Answer
  <2>2. next' <= Cardinality(Started') + Cardinality(Past')
    BY <1>4, <2>1, Zenon
  <2> QED BY <1>1, <1>5, <2>2 DEF LookUp, ReadSession, Loaded, Answer
<1>6. ASSUME NEW t \in Turns, ReadMessages(t) PROVE Typed'
  <2>1. Started \subseteq Started' /\ Past \subseteq Past' /\ next' = next
    BY <1>6 DEF ReadMessages
  <2>2. next' <= Cardinality(Started') + Cardinality(Past')
    BY <1>4, <2>1, Zenon
  <2>3. Newest(Window) \in SUBSET (0..(next - 1))
    BY DEF Newest, Inv
  <2> QED BY <1>1, <1>6, <2>2, <2>3 DEF ReadMessages
<1>7. ASSUME NEW t \in Turns, Count(t) \/ Fetch(t) \/ Condense(t) \/ Commit(t)
      PROVE  Typed'
  <2>1. Started \subseteq Started' /\ Past \subseteq Past' /\ next' = next
    BY <1>7 DEF Count, Fetch, Condense, Commit
  <2>2. next' <= Cardinality(Started') + Cardinality(Past')
    BY <1>4, <2>1, Zenon
  <2> QED BY <1>1, <1>7, <2>2 DEF Count, Fetch, Condense, Commit
<1>8. CASE Crash
  <2>1. Started \subseteq Started' /\ Past \subseteq Past' /\ next' = next
    BY <1>8 DEF Crash
  <2>2. next' <= Cardinality(Started') + Cardinality(Past')
    BY <1>4, <2>1, Zenon
  <2> QED BY <1>1, <1>8, <2>2 DEF Crash
<1>9. CASE UNCHANGED vars
  <2>1. Started \subseteq Started' /\ Past \subseteq Past' /\ next' = next
    BY <1>9 DEF vars
  <2>2. next' <= Cardinality(Started') + Cardinality(Past')
    BY <1>4, <2>1, Zenon
  <2> QED BY <1>1, <1>9, <2>2 DEF vars
<1> QED BY <1>2, <1>3, <1>5, <1>6, <1>7, <1>8, <1>9 DEF Next

\* The variables keep their types: however its turns fail, a session has at
\* most two messages for each.
THEOREM MemoryTypeCorrect == Spec => []TypeOK
<1>1. Typed => TypeOK
  <2> SUFFICES ASSUME Typed PROVE TypeOK
    OBVIOUS
  <2>1. next \in 0..(2 * Cardinality(Turns))
    BY SizesAreNumbers DEF Typed, Inv
  <2>2. 0..(next - 1) \subseteq Numbers
    BY <2>1, SizesAreNumbers DEF Numbers
  <2> QED BY <2>1, <2>2 DEF Typed, Inv, TypeOK
<1> QED BY <1>1, TypedInit, TypedStep, PTL DEF Spec

-----------------------------------------------------------------------------
(* One turn at a time.                                                     *)

Active(t) == step[t] \in StreamSteps \cup LateSteps

\* From reading the session on, the turn that is active has the summary.
HasSummary(t) == \/ step[t] = "loading" /\ "session" \notin unread[t]
                 \/ step[t] \in {"answering"} \cup LateSteps

SettledInv ==
  /\ Inv
  /\ step \in [Turns -> {"idle", "done", "lost"} \cup StreamSteps \cup LateSteps]
  /\ unread \in [Turns -> SUBSET {"messages", "session"}]
  /\ \A t, u \in Turns : Active(t) /\ Active(u) => t = u
  /\ \A t \in Turns : HasSummary(t) => held[t] = summary
  /\ NothingForgotten

LEMMA SettledInit == Init => SettledInv
BY InvInit
   DEF Init, SettledInv, Active, HasSummary, StreamSteps, LateSteps, NothingForgotten

LEMMA SettledStep ==
  ASSUME Client = "settled", SettledInv, [Next]_vars
  PROVE  SettledInv'
<1>1. Inv'
  BY InvStep DEF SettledInv
<1> USE DEF SettledInv, Active, HasSummary, StreamSteps, LateSteps, StepTo
<1>2. ASSUME NEW t \in Turns, Ask(t) PROVE SettledInv'
  <2>1. /\ next \in Nat /\ summary' = summary
        /\ \/ log' = log \cup {next} /\ next' = next + 1
           \/ log' = log /\ next' = next
    BY <1>2 DEF Ask, SaveMessage, Inv
  <2>2. \A u \in Turns : ~Active(u)
    BY <1>2 DEF Ask, MayStart
  <2>3. NothingForgotten'
    BY <2>1 DEF NothingForgotten
  <2> QED BY <1>1, <1>2, <2>2, <2>3 DEF Ask
<1>3. ASSUME NEW t \in Turns, LookUp(t) \/ Loaded(t) \/ Answer(t) PROVE SettledInv'
  BY <1>1, <1>3 DEF LookUp, Loaded, Answer, NothingForgotten
<1>4. ASSUME NEW t \in Turns, ReadMessages(t) PROVE SettledInv'
  BY <1>1, <1>4 DEF ReadMessages, NothingForgotten
<1>5. ASSUME NEW t \in Turns, ReadSession(t) PROVE SettledInv'
  BY <1>1, <1>5 DEF ReadSession, NothingForgotten, Inv
<1>6. ASSUME NEW t \in Turns, SaveAnswer(t) PROVE SettledInv'
  <2>1. /\ next \in Nat /\ summary' = summary
        /\ \/ log' = log \cup {next} /\ next' = next + 1
           \/ log' = log /\ next' = next
    BY <1>6 DEF SaveAnswer, SaveMessage, Inv
  <2>2. NothingForgotten'
    BY <2>1 DEF NothingForgotten
  <2> QED BY <1>1, <1>6, <2>2 DEF SaveAnswer
<1>7. ASSUME NEW t \in Turns, Count(t) \/ Condense(t) PROVE SettledInv'
  BY <1>1, <1>7 DEF Count, Condense, NothingForgotten
<1>8. ASSUME NEW t \in Turns, Fetch(t) PROVE SettledInv'
  BY <1>1, <1>8 DEF Fetch, NothingForgotten
<1>9. ASSUME NEW t \in Turns, Commit(t) PROVE SettledInv'
  <2>1. held[t] = summary
    BY <1>9 DEF Commit
  <2>2. /\ log' \subseteq log
        /\ log \cup summary \subseteq log' \cup summary'
        /\ next' = next
    BY <1>9, <2>1 DEF Commit
  <2>3. NothingForgotten'
    BY <2>2 DEF NothingForgotten
  <2>4. \A u \in Turns : ~Active(u)'
    BY <1>9 DEF Commit
  <2> QED BY <1>1, <1>9, <2>3, <2>4 DEF Commit
<1>10. CASE Crash
  BY <1>1, <1>10 DEF Crash, NothingForgotten
<1>11. CASE UNCHANGED vars
  BY <1>1, <1>11 DEF vars, NothingForgotten
<1> QED BY <1>2, <1>3, <1>4, <1>5, <1>6, <1>7, <1>8, <1>9, <1>10, <1>11 DEF Next

\* Every message of a session stays in its history or its summary, if a turn
\* starts only when the last one has settled.
THEOREM NothingIsForgotten ==
  ASSUME Client = "settled" PROVE Spec => []NothingForgotten
<1>1. SettledInv => NothingForgotten
  BY DEF SettledInv
<1>2. SettledInv /\ [Next]_vars => SettledInv'
  BY SettledStep
<1> QED BY <1>1, <1>2, SettledInit, PTL DEF Spec
=============================================================================

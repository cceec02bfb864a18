-------------------------- MODULE ChatClientProofs --------------------------
(***************************************************************************)
(* What the chat of a tab promises, for any number of requests and votes   *)
(* and any of the faults of the tab and of the server: the tab only drives *)
(* the server through its requests, so everything proved of the session    *)
(* for any client holds under it; a reload loses nothing; and every answer *)
(* is shown under the question the server answered with it.                *)
(***************************************************************************)
EXTENDS ChatClient, ChatSessionProofs

USE TabAssumption

\* What the tab does to the session.
LEMMA TabOnly ==
  ASSUME NEW r \in Requests, \/ ReadResponse(r) \/ LetGo(r)
                             \/ \E n \in 1..MaxVotes : LoseVote(r, n)
  PROVE  UNCHANGED vars
BY DEF ReadResponse, LetGo, LoseVote, Finish

LEMMA ClientStep == [ClientNext]_clientVars => [Next]_vars
<1> SUFFICES ASSUME [ClientNext]_clientVars PROVE [Next]_vars
  OBVIOUS
<1>1. ASSUME NEW r \in Requests, SendMessage(r) \/ RetryLast(r) \/ ServerStep(r) \/ FeedbackStep(r)
      PROVE  Next
  BY <1>1 DEF SendMessage, RetryLast, ServerStep, FeedbackStep, Next
<1>2. ASSUME NEW r \in Requests, ReadResponse(r) \/ LetGo(r) PROVE UNCHANGED vars
  BY <1>2, TabOnly
<1>3. ASSUME NEW r \in Requests, NEW n \in 1..MaxVotes, Count(r, n) \/ LoseVote(r, n)
      PROVE  [Next]_vars
  BY <1>3 DEF Count, LoseVote, Next
<1>4. ASSUME NEW i \in DOMAIN list, NEW thumb \in Thumbs, Vote(i, thumb) PROVE UNCHANGED vars
  BY <1>4 DEF Vote
<1>5. CASE Reload
  BY <1>5 DEF Reload
<1>6. CASE BackendCrash \/ CacheExpires \/ DocumentStep
  BY <1>6 DEF BackendCrash, CacheExpires, DocumentStep, Next
<1>7. CASE UNCHANGED clientVars
  BY <1>7 DEF clientVars
<1> QED BY <1>1, <1>2, <1>3, <1>4, <1>5, <1>6, <1>7 DEF ClientNext

\* The tab is one of the clients the session was specified for.
THEOREM TabRunsSession == ClientSpec => Spec
<1>1. ClientInit => Init
  BY DEF ClientInit
<1> QED BY <1>1, ClientStep, PTL DEF ClientSpec, Spec

\* Behind a tab, too, the caches hold answers only (ChatService.postProcess),
\* serve them for like questions only (SemanticCacheService.lookup), and of
\* all retries of a question one at most asks it again and only one that fails
\* can lose it.
THEOREM SessionHoldsBehindTab ==
  ClientSpec => [](CannedNeverCached /\ ServedForLikeQuestion /\ RetriedOnce /\ RetryKeepsQuestion)
BY TabRunsSession, CachesHoldAnswers, CachesServeLikeQuestions, QuestionsAreRetriedOnce,
   RetriesKeepQuestions, PTL

LEMMA SessionHolds == ClientSpec => []HistTyped
BY TabRunsSession, SpecHist, PTL

-----------------------------------------------------------------------------
(* Types.                                                                  *)

\* The score of a post is one of those posted.
BallotsCast == \A r \in Requests, n \in 1..MaxVotes : <<r, n>> \in ballots => n <= Len(votes[r])

TabTyped == ClientTypeOK /\ BallotsCast

LEMMA RespondTyped ==
  ASSUME ClientTypeOK, TypeOK', Respond PROVE response' \in [Requests -> Responses]
<1> SUFFICES ASSUME NEW r \in Requests PROVE Reply(r, step'[r]) \in Responses
  BY DEF Respond
<1> QED BY DEF ClientTypeOK, Reply, Responses, Over

LEMMA Lists ==
  ASSUME list \in Seq(Entry)
  PROVE  /\ Len(list) \in Nat /\ DOMAIN list = 1..Len(list)
         /\ \A i \in DOMAIN list : list[i] \in Entry
         /\ \A r \in Requests : Asked(r) \in Entry /\ Placeholder(r) \in Entry
<1>1. Len(list) \in Nat /\ DOMAIN list = 1..Len(list)
  OBVIOUS
<1>2. \A i \in 1..Len(list) : list[i] \in Entry
  OBVIOUS
<1>3. \A r \in Requests : Asked(r) \in Entry /\ Placeholder(r) \in Entry
  BY DEF Entry, Asked, Placeholder
<1> QED BY <1>1, <1>2, <1>3

LEMMA TracedList ==
  ASSUME list \in Seq(Entry), NEW r \in Requests
  PROVE  /\ Traced(r) \in Seq(Entry) /\ Len(Traced(r)) = Len(list)
         /\ \A i \in DOMAIN list : /\ Traced(r)[i].role = list[i].role
                                   /\ Traced(r)[i].req = list[i].req
                                   /\ Traced(r)[i].mark = list[i].mark
<1>1. Len(list) \in Nat /\ DOMAIN list = 1..Len(list) /\ \A i \in DOMAIN list : list[i] \in Entry
  BY Lists
<1>2. \A i \in 1..Len(list) : Traced(r)[i] = IF IsPlaceholder(list[i], r)
                                              THEN [list[i] EXCEPT !.traced = TRUE] ELSE list[i]
  BY <1>1 DEF Traced
<1>3. ASSUME NEW i \in 1..Len(list)
      PROVE  /\ Traced(r)[i] \in Entry
             /\ Traced(r)[i].role = list[i].role /\ Traced(r)[i].req = list[i].req
             /\ Traced(r)[i].mark = list[i].mark
  BY <1>1, <1>2, <1>3 DEF Entry
<1>4. Traced(r) \in [1..Len(list) -> Entry]
  BY <1>1, <1>3 DEF Traced
<1> QED BY <1>1, <1>3, <1>4

LEMMA MarkedList ==
  ASSUME list \in Seq(Entry), NEW i \in DOMAIN list, NEW mark \in Thumbs \cup {"none"}
  PROVE  /\ Marked(i, mark) \in Seq(Entry) /\ Len(Marked(i, mark)) = Len(list)
         /\ \A j \in DOMAIN list : /\ Marked(i, mark)[j].role = list[j].role
                                   /\ Marked(i, mark)[j].req = list[j].req
                                   /\ j # i => Marked(i, mark)[j] = list[j]
<1>1. Len(list) \in Nat /\ DOMAIN list = 1..Len(list) /\ \A j \in DOMAIN list : list[j] \in Entry
  BY Lists
<1>2. [list[i] EXCEPT !.mark = mark] \in Entry
  BY <1>1 DEF Entry
<1> QED BY <1>1, <1>2 DEF Marked, Entry

LEMMA WithoutList ==
  ASSUME list \in Seq(Entry), NEW r \in Requests
  PROVE  \/ Without(r) = list /\ \A i \in DOMAIN list : ~IsPlaceholder(list[i], r)
         \/ \E i \in DOMAIN list :
              /\ IsPlaceholder(list[i], r) /\ Without(r) = RemoveAt(list, i)
              /\ Without(r) \in Seq(Entry) /\ Len(Without(r)) = Len(list) - 1
              /\ \A j \in DOMAIN Without(r) : Without(r)[j] = list[IF j < i THEN j ELSE j + 1]
<1> DEFINE I == {i \in DOMAIN list : IsPlaceholder(list[i], r)}
<1>1. CASE I = {}
  BY <1>1 DEF Without
<1>2. CASE I # {}
  <2>1. PICK i \in I : Without(r) = RemoveAt(list, i)
    BY <1>2 DEF Without
  <2>2. i \in DOMAIN list /\ IsPlaceholder(list[i], r)
    OBVIOUS
  <2>3. /\ RemoveAt(list, i) \in Seq(Entry) /\ Len(RemoveAt(list, i)) = Len(list) - 1
        /\ \A j \in DOMAIN RemoveAt(list, i) :
             RemoveAt(list, i)[j] = IF j < i THEN list[j] ELSE list[j + 1]
    BY <2>2, RemovedIsSeq
  <2> HIDE DEF I
  <2> QED BY <2>1, <2>2, <2>3
<1> QED BY <1>1, <1>2

LEMMA SentList ==
  ASSUME list \in Seq(Entry), NEW r \in Requests
  PROVE  LET l == list \o <<Asked(r), Placeholder(r)>>
         IN /\ l \in Seq(Entry) /\ Len(l) = Len(list) + 2
            /\ \A i \in DOMAIN list : l[i] = list[i]
            /\ l[Len(list) + 1] = Asked(r) /\ l[Len(list) + 2] = Placeholder(r)
BY Lists

LEMMA AppendedTo ==
  ASSUME NEW S, NEW f \in Seq(S), NEW e \in S
  PROVE  /\ Append(f, e) \in Seq(S) /\ Len(Append(f, e)) = Len(f) + 1
         /\ \A i \in 1..Len(f) : Append(f, e)[i] = f[i]
         /\ Append(f, e)[Len(f) + 1] = e
OBVIOUS

LEMMA FrontOf ==
  ASSUME NEW S, NEW s \in Seq(S), Len(s) >= 2
  PROVE  /\ Front(s) \in Seq(S) /\ Len(Front(s)) \in Nat /\ Len(Front(s)) + 1 = Len(s)
         /\ \A i \in 1..Len(s) : i # Len(s) => i \in 1..Len(Front(s)) /\ Front(s)[i] = s[i]
<1> DEFINE u == SubSeq(s, 1, Len(s) - 1)
<1>1. Len(s) \in Nat /\ Len(s) - 1 \in 1..Len(s)
  OBVIOUS
<1>2. u \in Seq(S) /\ Len(u) = Len(s) - 1 /\ \A i \in 1..(Len(s) - 1) : u[i] = s[i]
  BY <1>1
<1> HIDE DEF u
<1>3. Len(u) \in Nat /\ Len(u) + 1 = Len(s)
  BY <1>1, <1>2
<1>4. ASSUME NEW i \in 1..Len(s), i # Len(s) PROVE i \in 1..Len(u) /\ u[i] = s[i]
  BY <1>1, <1>2, <1>4
<1> QED BY <1>2, <1>3, <1>4 DEF Front, u

LEMMA RetriedList ==
  ASSUME list \in Seq(Entry), NEW r \in Requests, Len(list) >= 2
  PROVE  LET l == Append(Front(list), Placeholder(r))
         IN /\ l \in Seq(Entry) /\ Len(l) = Len(list)
            /\ \A i \in DOMAIN list : i # Len(list) => l[i] = list[i]
            /\ l[Len(list)] = Placeholder(r)
<1> DEFINE f == Front(list)
           e == Placeholder(r)
<1>1. DOMAIN list = 1..Len(list) /\ e \in Entry
  BY Lists
<1>2. /\ f \in Seq(Entry) /\ Len(f) \in Nat /\ Len(f) + 1 = Len(list)
      /\ \A i \in 1..Len(list) : i # Len(list) => i \in 1..Len(f) /\ f[i] = list[i]
  BY FrontOf
<1> HIDE DEF f, e
<1>3. /\ Append(f, e) \in Seq(Entry) /\ Len(Append(f, e)) = Len(f) + 1
      /\ \A i \in 1..Len(f) : Append(f, e)[i] = f[i]
      /\ Append(f, e)[Len(f) + 1] = e
  BY <1>1, <1>2, AppendedTo
<1>4. /\ Append(f, e) \in Seq(Entry) /\ Len(Append(f, e)) = Len(list)
      /\ \A i \in DOMAIN list : i # Len(list) => Append(f, e)[i] = list[i]
      /\ Append(f, e)[Len(list)] = e
  BY <1>1, <1>2, <1>3
<1> QED BY <1>4 DEF f, e

\* The last write went through, or was refused and is forgotten.
Written == \/ stored' = list' /\ unsaved' = FALSE
           \/ UNCHANGED stored /\ unsaved' = TRUE

\* Only these actions touch what the tab has.
LEMMA TabMoves ==
  ASSUME [ClientNext]_clientVars
  PROVE  \/ \E r \in Requests : \/ SendMessage(r) \/ RetryLast(r) \/ ReadResponse(r) \/ LetGo(r)
                                \/ \E n \in 1..MaxVotes : Count(r, n) \/ LoseVote(r, n)
         \/ \E i \in DOMAIN list, thumb \in Thumbs : Vote(i, thumb)
         \/ Reload
         \/ UNCHANGED <<list, copyVars, streaming, voteVars>>
<1>1. ASSUME NEW r \in Requests, ServerStep(r) \/ FeedbackStep(r)
      PROVE  UNCHANGED <<list, copyVars, streaming, voteVars>>
  BY <1>1 DEF ServerStep, FeedbackStep, tabVars, listVars
<1>2. CASE BackendCrash \/ CacheExpires \/ DocumentStep
  BY <1>2 DEF BackendCrash, CacheExpires, DocumentStep, tabVars, listVars
<1>3. CASE UNCHANGED clientVars
  BY <1>3 DEF clientVars, tabVars, listVars
<1> QED BY <1>1, <1>2, <1>3 DEF ClientNext

\* ... and these what the server has sent.
LEMMA ResponseMoves ==
  ASSUME [ClientNext]_clientVars PROVE Respond \/ UNCHANGED response
<1>1. ASSUME NEW r \in Requests, SendMessage(r) \/ RetryLast(r) \/ ServerStep(r) \/ ReadResponse(r)
                                 \/ LetGo(r) \/ FeedbackStep(r)
      PROVE  Respond \/ UNCHANGED response
  BY <1>1 DEF SendMessage, RetryLast, ServerStep, ReadResponse, LetGo, FeedbackStep, Finish, tabVars
<1>2. ASSUME NEW r \in Requests, NEW n \in 1..MaxVotes, Count(r, n) \/ LoseVote(r, n)
      PROVE  UNCHANGED response
  BY <1>2 DEF Count, LoseVote
<1>3. ASSUME NEW i \in DOMAIN list, NEW thumb \in Thumbs, Vote(i, thumb) PROVE UNCHANGED response
  BY <1>3 DEF Vote
<1>4. CASE Reload \/ BackendCrash \/ CacheExpires \/ DocumentStep
  BY <1>4 DEF Reload, BackendCrash, CacheExpires, DocumentStep, tabVars
<1>5. CASE UNCHANGED clientVars
  BY <1>5 DEF clientVars, tabVars
<1> QED BY <1>1, <1>2, <1>3, <1>4, <1>5 DEF ClientNext

LEMMA SeveredTyped ==
  ASSUME severed \in BOOLEAN, [ClientNext]_clientVars
  PROVE  severed' \in BOOLEAN /\ (severed => severed')
<1>1. ASSUME NEW r \in Requests, SendMessage(r) \/ RetryLast(r) \/ ServerStep(r) \/ ReadResponse(r)
                                 \/ LetGo(r) \/ FeedbackStep(r)
      PROVE  severed' \in BOOLEAN /\ (severed => severed')
  BY <1>1 DEF SendMessage, RetryLast, ServerStep, ReadResponse, LetGo, FeedbackStep, tabVars, listVars
<1>2. ASSUME NEW r \in Requests, NEW n \in 1..MaxVotes, Count(r, n) \/ LoseVote(r, n)
      PROVE  UNCHANGED severed
  BY <1>2 DEF Count, LoseVote, listVars
<1>3. ASSUME NEW i \in DOMAIN list, NEW thumb \in Thumbs, Vote(i, thumb) PROVE UNCHANGED severed
  BY <1>3 DEF Vote
<1>4. CASE Reload \/ BackendCrash \/ CacheExpires \/ DocumentStep
  BY <1>4 DEF Reload, BackendCrash, CacheExpires, DocumentStep, tabVars, listVars
<1>5. CASE UNCHANGED clientVars
  BY <1>5 DEF clientVars, tabVars, listVars
<1> QED BY <1>1, <1>2, <1>3, <1>4, <1>5 DEF ClientNext

\* The tab's own copy after the stream was read.
LEMMA FinishedList ==
  ASSUME list \in Seq(Entry), NEW r \in Requests, ReadResponse(r) \/ LetGo(r)
  PROVE  /\ list' \in Seq(Entry) /\ list' \in {list, Traced(r), Without(r)}
         /\ Written /\ streaming' = Nobody /\ UNCHANGED voteVars
<1>1. list' \in {list, Traced(r), Without(r)} /\ streaming' = Nobody /\ UNCHANGED voteVars
  BY DEF ReadResponse, LetGo, Finish
<1>2. Written
  BY DEF ReadResponse, LetGo, Finish, WriteStorage, Written
<1>3. Traced(r) \in Seq(Entry) /\ Without(r) \in Seq(Entry)
  BY TracedList, WithoutList
<1> QED BY <1>1, <1>2, <1>3

LEMMA TabTypeStep == TabTyped /\ TypeOK' /\ [ClientNext]_clientVars => TabTyped'
<1> SUFFICES ASSUME TabTyped, TypeOK', [ClientNext]_clientVars PROVE TabTyped'
  OBVIOUS
<1> USE DEF voteVars, copyVars
<1>1. ClientTypeOK /\ BallotsCast /\ list \in Seq(Entry)
  BY DEF TabTyped, ClientTypeOK
<1>2. response' \in [Requests -> Responses] /\ severed' \in BOOLEAN
  BY <1>1, RespondTyped, ResponseMoves, SeveredTyped DEF ClientTypeOK
<1>3. ASSUME list' \in Seq(Entry), Written \/ UNCHANGED copyVars \/ Reload,
             streaming' \in Requests \cup {Nobody}, UNCHANGED voteVars
      PROVE  TabTyped'
  <2>1. stored' \in Seq(Entry) /\ unsaved' \in BOOLEAN
    BY <1>1, <1>3 DEF Written, Reload, ClientTypeOK
  <2> QED BY <1>1, <1>2, <1>3, <2>1 DEF TabTyped, ClientTypeOK, BallotsCast
<1>4. ASSUME NEW r \in Requests, SendMessage(r) PROVE TabTyped'
  <2>1. list' \in Seq(Entry)
    BY <1>1, <1>4, SentList DEF SendMessage
  <2> QED BY <1>1, <1>3, <1>4, <2>1 DEF SendMessage, ClientTypeOK
<1>5. ASSUME NEW r \in Requests, RetryLast(r) PROVE TabTyped'
  <2>1. list' \in Seq(Entry)
    BY <1>1, <1>5, RetriedList DEF RetryLast
  <2> QED BY <1>1, <1>3, <1>5, <2>1 DEF RetryLast, ClientTypeOK
<1>6. ASSUME NEW r \in Requests, ReadResponse(r) \/ LetGo(r) PROVE TabTyped'
  BY <1>1, <1>3, <1>6, FinishedList
<1>7. ASSUME NEW r \in Requests, NEW n \in 1..MaxVotes, Count(r, n) \/ LoseVote(r, n)
      PROVE  TabTyped'
  <2>1. /\ <<r, n>> \in ballots /\ ballots' = ballots \ {<<r, n>>} /\ UNCHANGED <<listVars, votes>>
        /\ score' \in {score, [score EXCEPT ![r] = votes[r][n]]}
    BY <1>7 DEF Count, LoseVote
  <2>2. votes[r] \in Seq(Scores) /\ n \in 1..Len(votes[r])
    BY <1>1, <2>1 DEF ClientTypeOK, BallotsCast
  <2>3. votes[r][n] \in Scores
    BY <2>2
  <2>4. score' \in [Requests -> Scores \cup {"none"}]
    BY <1>1, <2>1, <2>3 DEF ClientTypeOK
  <2> QED BY <1>1, <1>2, <2>1, <2>4 DEF TabTyped, ClientTypeOK, BallotsCast, listVars
<1>8. ASSUME NEW i \in DOMAIN list, NEW thumb \in Thumbs, Vote(i, thumb) PROVE TabTyped'
  <2> DEFINE r == list[i].req
             value == IF list[i].mark = thumb THEN "clear" ELSE thumb
             mark == IF value = "clear" THEN "none" ELSE value
  <2>1. r \in Requests
    BY <1>1, Lists DEF Entry
  <2>2. value \in Scores /\ mark \in Thumbs \cup {"none"}
    BY DEF Scores, Thumbs
  <2>3. /\ Len(votes[r]) < MaxVotes /\ list' = Marked(i, mark)
        /\ votes' = [votes EXCEPT ![r] = Append(@, value)]
        /\ ballots' = ballots \cup {<<r, Len(votes'[r])>>}
        /\ UNCHANGED <<streaming, score>>
    BY <1>8 DEF Vote
  <2>11. Written
    BY <1>8 DEF Vote, WriteStorage, Written
  <2> HIDE DEF r, value, mark
  <2>4. list' \in Seq(Entry) /\ stored' \in Seq(Entry) /\ unsaved' \in BOOLEAN
    BY <1>1, <2>2, <2>3, <2>11, MarkedList DEF Written, ClientTypeOK
  <2>5. votes[r] \in Seq(Scores) /\ Len(votes[r]) \in Nat
    BY <1>1, <2>1 DEF ClientTypeOK
  <2>6. Append(votes[r], value) \in Seq(Scores) /\ Len(Append(votes[r], value)) = Len(votes[r]) + 1
    BY <2>2, <2>5, AppendedTo
  <2>7. votes' \in [Requests -> Seq(Scores)] /\ votes'[r] = Append(votes[r], value)
        /\ \A x \in Requests : x # r => votes'[x] = votes[x]
    BY <1>1, <2>1, <2>3, <2>6 DEF ClientTypeOK
  <2>8. Len(votes'[r]) = Len(votes[r]) + 1 /\ Len(votes'[r]) \in 1..MaxVotes
    BY <2>3, <2>5, <2>6, <2>7, TabAssumption
  <2>9. ballots' \subseteq Requests \X (1..MaxVotes)
    BY <1>1, <2>1, <2>3, <2>8 DEF ClientTypeOK
  <2>10. BallotsCast'
    BY <1>1, <2>3, <2>5, <2>7, <2>8 DEF BallotsCast
  <2> QED BY <1>1, <1>2, <2>3, <2>4, <2>7, <2>9, <2>10 DEF TabTyped, ClientTypeOK
<1>9. CASE Reload
  BY <1>1, <1>3, <1>9 DEF Reload, ClientTypeOK
<1>10. CASE UNCHANGED <<list, copyVars, streaming, voteVars>>
  BY <1>1, <1>3, <1>10 DEF ClientTypeOK
<1> QED BY <1>4, <1>5, <1>6, <1>7, <1>8, <1>9, <1>10, TabMoves

LEMMA SpecTabTyped == ClientSpec => [](TabTyped /\ HistTyped)
<1>1. ASSUME ClientInit, TypeOK PROVE TabTyped
  <2>1. <<>> \in Seq(Entry) /\ <<>> \in Seq(Scores)
    OBVIOUS
  <2>2. votes \in [Requests -> Seq(Scores)]
    BY <1>1, <2>1 DEF ClientInit
  <2>3. response \in [Requests -> Responses] /\ score \in [Requests -> Scores \cup {"none"}]
    BY <1>1 DEF ClientInit, Responses
  <2> QED BY <1>1, <2>1, <2>2, <2>3 DEF ClientInit, TabTyped, ClientTypeOK, BallotsCast
<1>2. HistTyped => TypeOK
  BY DEF HistTyped
<1> QED BY <1>1, <1>2, SessionHolds, TabTypeStep, PTL DEF ClientSpec

\* Every variable of the tab keeps its type: the list and its copy in
\* localStorage stay sequences of entries whatever of Send, Retry, Stop,
\* reload and votes interleaves (useChat), and a score that is posted is one
\* that was voted.
THEOREM TabTypeCorrect == ClientSpec => []ClientTypeOK
BY SpecTabTyped, PTL DEF TabTyped

-----------------------------------------------------------------------------
(* Reloads.  A request has one placeholder at most, since each operation of *)
(* the tab is a request of its own; so its mark is there once, in the list  *)
(* and in the copy.                                                         *)

OneEach(l) == \A i, j \in DOMAIN l :
                /\ l[i].role = "assistant" /\ l[j].role = "assistant"
                /\ l[i].req = l[j].req
                => i = j

\* Whose entries there are has been started.
Known(l) == \A i \in DOMAIN l : step[l[i].req] # "idle"

ReloadInv == /\ OneEach(list) /\ OneEach(stored)
             /\ Known(list) /\ Known(stored)
             /\ ReloadLosesNothing

LEMMA StaysKnown ==
  ASSUME HistTyped, [ClientNext]_clientVars, NEW l \in Seq(Entry), Known(l)
  PROVE  Known(l)'
<1>1. \A i \in DOMAIN l : l[i].req \in Requests
  <2>1. \A i \in DOMAIN l : l[i] \in Entry
    OBVIOUS
  <2> QED BY <2>1 DEF Entry
<1>2. \A r \in Requests : step'[r] = "idle" => step[r] = "idle"
  BY ClientStep, GroundsMove DEF HistTyped
<1> QED BY <1>1, <1>2 DEF Known

LEMMA ReloadStep == TabTyped /\ HistTyped /\ ReloadInv /\ [ClientNext]_clientVars => ReloadInv'
<1> SUFFICES ASSUME TabTyped, HistTyped, ReloadInv, [ClientNext]_clientVars PROVE ReloadInv'
  OBVIOUS
<1>1. /\ list \in Seq(Entry) /\ stored \in Seq(Entry) /\ OneEach(list) /\ OneEach(stored)
      /\ Known(list) /\ Known(stored) /\ ReloadLosesNothing
  BY DEF TabTyped, ClientTypeOK, ReloadInv
<1>2. /\ \A i \in DOMAIN list : step'[list[i].req] # "idle"
      /\ \A i \in DOMAIN stored : step'[stored[i].req] # "idle"
  BY <1>1, StaysKnown DEF Known
<1>3. /\ Len(list) \in Nat /\ DOMAIN list = 1..Len(list)
  BY <1>1
<1>4. ASSUME Written \/ stored' = list', OneEach(list'), Known(list)' PROVE ReloadInv'
  <2>1. CASE stored' = list'
    <3>1. OneEach(stored') /\ Known(stored)'
      BY <1>4, <2>1 DEF Known
    <3>2. ReloadLosesNothing'
      BY <1>4, <2>1 DEF ReloadLosesNothing, OneEach
    <3> QED BY <1>4, <3>1, <3>2 DEF ReloadInv, OneEach
  <2>2. CASE UNCHANGED stored /\ unsaved' = TRUE
    <3>1. Known(stored)' /\ ReloadLosesNothing'
      BY <1>2, <2>2 DEF Known, ReloadLosesNothing
    <3> QED BY <1>1, <1>4, <2>2, <3>1 DEF ReloadInv, OneEach
  <2> QED BY <1>4, <2>1, <2>2 DEF Written
<1>5. ASSUME UNCHANGED copyVars, streaming' # Nobody, OneEach(list'), Known(list)',
             \A i \in DOMAIN list', j \in DOMAIN stored :
               list'[i].role = "assistant" => list'[i].req # stored[j].req
                                              \/ (i \in DOMAIN list /\ list'[i] = list[i])
      PROVE  ReloadInv'
  <2>1. Known(stored)'
    BY <1>2, <1>5 DEF Known, copyVars
  <2>2. ReloadLosesNothing'
    BY <1>1, <1>5 DEF ReloadLosesNothing, copyVars
  <2> QED BY <1>1, <1>5, <2>1, <2>2 DEF ReloadInv, OneEach, copyVars
<1>6. ASSUME NEW r \in Requests, SendMessage(r) PROVE ReloadInv'
  <2>1. step[r] = "idle" /\ step'[r] # "idle"
    BY <1>6 DEF SendMessage, Send, StepTo, HistTyped, TypeOK
  <2>2. /\ \A i \in DOMAIN list : list[i].req # r
        /\ \A i \in DOMAIN stored : stored[i].req # r
    BY <1>1, <2>1 DEF Known
  <2>3. /\ list' \in Seq(Entry) /\ Len(list') = Len(list) + 2
        /\ \A i \in DOMAIN list : list'[i] = list[i]
        /\ list'[Len(list) + 1] = Asked(r) /\ list'[Len(list) + 2] = Placeholder(r)
    BY <1>1, <1>6, SentList DEF SendMessage
  <2>4. DOMAIN list' = 1..(Len(list) + 2)
    BY <1>3, <2>3
  <2>5. \A i \in DOMAIN list' : \/ i \in DOMAIN list /\ list'[i] = list[i]
                                \/ i = Len(list) + 1 /\ list'[i] = Asked(r)
                                \/ i = Len(list) + 2 /\ list'[i] = Placeholder(r)
    BY <1>3, <2>3, <2>4
  <2>6. /\ Asked(r).role = "user" /\ Asked(r).req = r
        /\ Placeholder(r).role = "assistant" /\ Placeholder(r).req = r
    BY DEF Asked, Placeholder
  <2>7. OneEach(list')
    BY <1>1, <2>2, <2>5, <2>6 DEF OneEach
  <2>8. Known(list)'
    BY <1>2, <2>1, <2>5, <2>6 DEF Known
  <2>9. streaming' # Nobody /\ UNCHANGED copyVars
    BY <1>6, ChatAssumption DEF SendMessage
  <2> QED BY <1>5, <2>2, <2>5, <2>6, <2>7, <2>8, <2>9 DEF copyVars
<1>7. ASSUME NEW r \in Requests, RetryLast(r) PROVE ReloadInv'
  <2>1. step[r] = "idle" /\ step'[r] # "idle"
    BY <1>7 DEF RetryLast, Retry, StepTo, HistTyped, TypeOK
  <2>2. /\ \A i \in DOMAIN list : list[i].req # r
        /\ \A i \in DOMAIN stored : stored[i].req # r
    BY <1>1, <2>1 DEF Known
  <2>3. /\ list' \in Seq(Entry) /\ Len(list') = Len(list)
        /\ \A i \in DOMAIN list : i # Len(list) => list'[i] = list[i]
        /\ list'[Len(list)] = Placeholder(r)
    BY <1>1, <1>7, RetriedList DEF RetryLast
  <2>4. \A i \in DOMAIN list' : \/ i \in DOMAIN list /\ list'[i] = list[i]
                                \/ i = Len(list) /\ list'[i] = Placeholder(r)
    BY <1>3, <2>3
  <2>5. Placeholder(r).role = "assistant" /\ Placeholder(r).req = r
    BY DEF Placeholder
  <2>6. OneEach(list')
    BY <1>1, <2>2, <2>4, <2>5 DEF OneEach
  <2>7. Known(list)'
    BY <1>2, <2>1, <2>4, <2>5 DEF Known
  <2>8. streaming' # Nobody /\ UNCHANGED copyVars
    BY <1>7, ChatAssumption DEF RetryLast
  <2> QED BY <1>5, <2>2, <2>4, <2>5, <2>6, <2>7, <2>8 DEF copyVars
<1>8. ASSUME list' \in Seq(Entry), Len(list') = Len(list), Written,
             \A i \in DOMAIN list : list'[i].role = list[i].role /\ list'[i].req = list[i].req
      PROVE  ReloadInv'
  <2>1. DOMAIN list' = DOMAIN list
    BY <1>3, <1>8
  <2> QED BY <1>1, <1>2, <1>4, <1>8, <2>1 DEF OneEach, Known
<1>9. ASSUME NEW r \in Requests, ReadResponse(r) \/ LetGo(r) PROVE ReloadInv'
  <2>1. /\ list' \in Seq(Entry) /\ list' \in {list, Traced(r), Without(r)} /\ Written
    BY <1>1, <1>9, FinishedList
  <2>2. CASE list' = list \/ list' = Traced(r)
    BY <1>1, <1>8, <2>1, <2>2, TracedList
  <2>3. CASE list' = Without(r) /\ list' # list
    <3>1. PICK i \in DOMAIN list :
             /\ Len(list') = Len(list) - 1
             /\ \A j \in DOMAIN list' : list'[j] = list[IF j < i THEN j ELSE j + 1]
      BY <1>1, <2>3, WithoutList
    <3>2. DOMAIN list' = 1..(Len(list) - 1)
      BY <1>3, <2>1, <3>1
    <3> DEFINE At2(j) == IF j < i THEN j ELSE j + 1
    <3>3. \A j \in DOMAIN list' : At2(j) \in DOMAIN list /\ list'[j] = list[At2(j)]
      BY <1>3, <3>1, <3>2
    <3>4. \A j, k \in DOMAIN list' : At2(j) = At2(k) => j = k
      BY <1>3, <3>2
    <3> HIDE DEF At2
    <3>5. OneEach(list')
      BY <1>1, <3>3, <3>4 DEF OneEach
    <3>6. Known(list)'
      BY <1>2, <3>3 DEF Known
    <3> QED BY <1>4, <2>1, <3>5, <3>6
  <2> QED BY <2>1, <2>2, <2>3
<1>10. ASSUME NEW i \in DOMAIN list, NEW thumb \in Thumbs, Vote(i, thumb) PROVE ReloadInv'
  <2>1. PICK mark \in Thumbs \cup {"none"} : list' = Marked(i, mark) /\ Written
    BY <1>10 DEF Vote, WriteStorage, Written
  <2> QED BY <1>1, <1>8, <2>1, MarkedList
<1>11. CASE Reload
  BY <1>1, <1>2, <1>4, <1>11 DEF Reload, Known
<1>12. CASE UNCHANGED <<list, copyVars, streaming>>
  BY <1>1, <1>2, <1>12 DEF copyVars, ReloadInv, OneEach, Known, ReloadLosesNothing
<1>13. ASSUME NEW r \in Requests, NEW n \in 1..MaxVotes, Count(r, n) \/ LoseVote(r, n)
       PROVE  UNCHANGED <<list, copyVars, streaming>>
  BY <1>13 DEF Count, LoseVote, listVars
<1> QED BY <1>6, <1>7, <1>9, <1>10, <1>11, <1>12, <1>13, TabMoves

\* A reload of the page loses nothing: useChat writes its whole list to
\* localStorage at the end of every stream and at once with every vote, also
\* while a stream runs, so that what it reads back has every message that was
\* finished and every mark.
THEOREM ReloadsLoseNothing == ClientSpec => []ReloadLosesNothing
<1>1. ClientInit => ReloadInv
  BY DEF ClientInit, ReloadInv, OneEach, Known, ReloadLosesNothing
<1> QED BY <1>1, SpecTabTyped, ReloadStep, PTL DEF ClientSpec, ReloadInv

-----------------------------------------------------------------------------
(* Turns as shown.  A retry repeats the newest question of the history; the *)
(* tab shows its answer under the last question of the list.  The two are   *)
(* the same text as long as every request the tab has let go of is in the   *)
(* history already.                                                         *)

\* Where a retry does not know its question yet.
Unfound == {"idle", "droppingAnswer", "findingQuestion"}
Found == Early \ Unfound

\* The newest question of the history is that of x.
Latest(x) == \E i \in At("user") : messages[i][2] = x /\ \A j \in At("user") : j <= i

LEMMA NewestIsLatest ==
  ASSUME messages \in Seq(Message), At("user") # {}
  PROVE  Latest(messages[Newest(At("user"))][2])
<1>1. At("user") \in SUBSET (1..Len(messages)) /\ Len(messages) \in Nat
  BY DEF At
<1>2. Newest(At("user")) \in At("user") /\ \A j \in At("user") : j <= Newest(At("user"))
  BY <1>1, NewestIsThere
<1> QED BY <1>2 DEF Latest

LEMMA LatestAppended ==
  ASSUME messages \in Seq(Message), NEW m \in Message, messages' = Append(messages, m),
         NEW x, Latest(x)'
  PROVE  IF m[1] = "user" THEN x = m[2] ELSE Latest(x)
<1>1. /\ Len(messages) \in Nat /\ DOMAIN messages = 1..Len(messages)
      /\ DOMAIN messages' = 1..(Len(messages) + 1)
      /\ \A i \in 1..Len(messages) : messages'[i] = messages[i]
      /\ messages'[Len(messages) + 1] = m
  BY AppendedHistory
<1>2. PICK i \in DOMAIN messages' :
         /\ messages'[i][1] = "user" /\ messages'[i][2] = x
         /\ \A j \in DOMAIN messages' : messages'[j][1] = "user" => j <= i
  BY DEF Latest, At
<1>3. CASE m[1] = "user"
  <2>1. i = Len(messages) + 1
    BY <1>1, <1>2, <1>3
  <2> QED BY <1>1, <1>2, <1>3, <2>1
<1>4. CASE m[1] # "user"
  <2>1. i \in 1..Len(messages) /\ messages[i][1] = "user" /\ messages[i][2] = x
    BY <1>1, <1>2, <1>4
  <2>2. \A j \in 1..Len(messages) : messages[j][1] = "user" => j <= i
    BY <1>1, <1>2
  <2> QED BY <1>1, <1>4, <2>1, <2>2 DEF Latest, At
<1> QED BY <1>3, <1>4

LEMMA LatestDropped ==
  ASSUME messages \in Seq(Message), NEW a, Drop(<<"assistant", a>>), NEW x, Latest(x)'
  PROVE  Latest(x)
<1>1. PICK k \in DOMAIN messages : /\ messages[k] = <<"assistant", a>>
                                   /\ messages' = RemoveAt(messages, k)
  BY DEF Drop
<1>2. /\ \A j \in DOMAIN messages' : /\ Was(k, j) \in DOMAIN messages \ {k}
                                     /\ messages'[j] = messages[Was(k, j)]
      /\ \A j \in DOMAIN messages \ {k} : \E h \in DOMAIN messages' : Was(k, h) = j
      /\ \A j, h \in DOMAIN messages' : j < h <=> Was(k, j) < Was(k, h)
  BY <1>1, RemovedHistory
<1>3. PICK i \in DOMAIN messages' :
         /\ messages'[i][1] = "user" /\ messages'[i][2] = x
         /\ \A j \in DOMAIN messages' : messages'[j][1] = "user" => j <= i
  BY DEF Latest, At
<1>4. /\ DOMAIN messages \in SUBSET Nat /\ DOMAIN messages' \in SUBSET Nat
  <2>1. messages' \in Seq(Message)
    BY <1>1, RemovedIsSeq
  <2>2. Len(messages) \in Nat /\ Len(messages') \in Nat
    BY <2>1
  <2> QED BY <2>1, <2>2
<1>5. ASSUME NEW j \in At("user") PROVE j <= Was(k, i)
  <2>1. j \in DOMAIN messages \ {k} /\ messages[j][1] = "user"
    BY <1>1, <1>5 DEF At
  <2>2. PICK h \in DOMAIN messages' : Was(k, h) = j
    BY <1>2, <2>1
  <2>3. h <= i
    BY <1>2, <1>3, <2>1, <2>2
  <2>4. ~(i < h)
    BY <1>4, <2>3
  <2>5. ~(Was(k, i) < j)
    BY <1>2, <2>2, <2>4
  <2> QED BY <1>2, <1>4, <2>1, <2>5
<1>6. Was(k, i) \in At("user") /\ messages[Was(k, i)][2] = x
  BY <1>2, <1>3 DEF At
<1> QED BY <1>5, <1>6 DEF Latest

\* Once it has a question a request keeps it, and what has failed has failed.
LEMMA QuestionMove ==
  ASSUME HistTyped, [Next]_vars, NEW r \in Requests
  PROVE  /\ step'[r] \in Unfound => step[r] \in Unfound /\ question'[r] = question[r]
         /\ step[r] = "failed" => step'[r] = "failed"
         /\ step[r] # "idle" /\ r \notin retries
              => question'[r] = question[r] /\ r \notin retries'
<1> DEFINE Fine == /\ step'[r] \in Unfound => step[r] \in Unfound /\ question'[r] = question[r]
                   /\ step[r] = "failed" => step'[r] = "failed"
                   /\ step[r] # "idle" /\ r \notin retries
                        => question'[r] = question[r] /\ r \notin retries'
<1>1. TypeOK /\ HasAsked
  BY DEF HistTyped, Inv
<1> USE DEF TypeOK, StepTo, turnVars, cacheVars, blameVars, Unfound
<1>2. ASSUME NEW x \in Requests, Send(x) \/ Retry(x) PROVE Fine
  BY <1>1, <1>2 DEF Send, Retry
<1>3. ASSUME NEW x \in Requests, RetryStep(x) PROVE Fine
  BY <1>1, <1>3 DEF RetryStep, DropAnswer, FindQuestion, ClearExact, ClearSemantic, DropQuestion,
                    HasAsked, RetrySteps
<1>4. ASSUME NEW x \in Requests, ChatStep(x) PROVE Fine
  <2>1. CASE Limit(x) \/ Ask(x) \/ LookUp(x)
    BY <1>1, <2>1 DEF Limit, Ask, LookUp
  <2>2. CASE Load(x) \/ Match(x) \/ Promote(x)
    BY <1>1, <2>2 DEF Load, Match, Promote
  <2>3. CASE Route(x) \/ Retrieve(x) \/ Generate(x)
    BY <1>1, <2>3 DEF Route, Retrieve, Generate
  <2>4. CASE Save(x) \/ CacheExact(x) \/ CacheSemantic(x)
    BY <1>1, <2>4 DEF Save, CacheExact, CacheSemantic
  <2> QED BY <1>4, <2>1, <2>2, <2>3, <2>4 DEF ChatStep
<1>5. ASSUME NEW x \in Requests, Rate(x) \/ BlameStep(x) PROVE Fine
  BY <1>5 DEF Rate, BlameStep, FindBlamed, ClearBlamedExact, ClearBlamedSemantic
<1>6. ASSUME NEW d \in Docs, Store(d) \/ Delete(d) \/ Flush(d) \/ Note(d) PROVE Fine
  BY <1>6 DEF Store, Delete, Flush, Note
<1>7. CASE Expire \/ UNCHANGED vars
  BY <1>7 DEF Expire, vars
<1>8. CASE Crash
  <2>1. UNCHANGED <<question, retries>>
    BY <1>8 DEF Crash
  <2>2. step'[r] \in {step[r], "lost", "served", "done"}
    BY <1>8 DEF Crash
  <2>3. step[r] = "failed" => step'[r] = "failed"
    BY <1>8 DEF Crash, Streaming, StreamSteps, RetrySteps, LateSteps
  <2> QED BY <2>1, <2>2, <2>3
<1> QED BY <1>2, <1>3, <1>4, <1>5, <1>6, <1>7, <1>8 DEF Next

\* What a request's own step does to its question and to the newest one.
LEMMA ServerMoves ==
  ASSUME HistTyped, NEW x \in Requests, RetryStep(x) \/ ChatStep(x)
  PROVE  /\ \A y \in Requests : y # x => step'[y] = step[y] /\ question'[y] = question[y]
         /\ \/ /\ step[x] \notin Early /\ step'[x] \notin Early /\ UNCHANGED question
               /\ \A y : Latest(y)' => Latest(y)
            \/ /\ x \in retries /\ step[x] \in Unfound \ {"idle"}
               /\ step'[x] \in Unfound \ {"idle"} /\ UNCHANGED question
               /\ \A y : Latest(y)' => Latest(y)
            \/ /\ x \in retries /\ step[x] \in Unfound \ {"idle"} /\ step'[x] \in Found
               /\ \E u \in Requests : Latest(u) /\ question'[x] = question[u]
            \/ step[x] \in Found /\ step'[x] \in Found /\ UNCHANGED question
            \/ /\ step[x] \in Found /\ step'[x] \notin Early /\ UNCHANGED question
               /\ \A y : Latest(y)' => y = x
            \/ /\ step[x] \in Early \ {"idle"} /\ step'[x] = "failed" /\ UNCHANGED question
<1> USE DEF HistTyped, TypeOK, StepTo, Early, Unfound, Found, RetrySteps, turnVars, cacheVars,
            blameVars
<1>1. HasAsked /\ messages \in Seq(Message) /\ HistInv
  BY DEF Inv
<1>2. UNCHANGED messages => \A y : Latest(y)' => Latest(y)
  BY DEF Latest, At
<1>3. CASE DropAnswer(x)
  <2>1. x \in retries
    BY <1>1, <1>3 DEF DropAnswer, HasAsked
  <2>2. CASE step'[x] = "failed"
    BY <1>3, <2>2 DEF DropAnswer
  <2>3. CASE Drop(<<"assistant", dropped[x]>>)
    <3>1. \A y : Latest(y)' => Latest(y)
      BY <1>1, <2>3, LatestDropped
    <3> QED BY <1>3, <2>1, <2>3, <3>1 DEF DropAnswer
  <2> QED BY <1>3, <2>2, <2>3 DEF DropAnswer
<1>4. CASE FindQuestion(x)
  <2>1. x \in retries
    BY <1>1, <1>4 DEF FindQuestion, HasAsked
  <2>2. CASE step'[x] = "failed"
    BY <1>4, <2>2 DEF FindQuestion
  <2>3. CASE step'[x] = "clearingExact" /\ At("user") # {}
    <3>1. LET u == messages[Newest(At("user"))][2] IN u \in Requests /\ Latest(u)
      BY <1>1, <2>3, NewestAsked, NewestIsLatest
    <3>2. question' = [question EXCEPT ![x] = question[messages[Newest(At("user"))][2]]]
      BY <1>4, <2>3 DEF FindQuestion
    <3> QED BY <1>4, <2>1, <2>3, <3>1, <3>2 DEF FindQuestion
  <2> QED BY <1>4, <2>2, <2>3 DEF FindQuestion
<1>5. CASE ClearExact(x) \/ ClearSemantic(x)
  BY <1>5 DEF ClearExact, ClearSemantic
<1>6. CASE DropQuestion(x)
  BY <1>6 DEF DropQuestion
<1>7. CASE Limit(x)
  BY <1>7 DEF Limit
<1>8. CASE Ask(x)
  <2>1. CASE step'[x] = "failed"
    BY <1>8, <2>1 DEF Ask
  <2>2. CASE messages' = Append(messages, <<"user", x>>)
    <3>1. \A y : Latest(y)' => y = x
      <4>1. <<"user", x>> \in Message
        BY Messages
      <4> QED BY <1>1, <2>2, <4>1, LatestAppended
    <3> QED BY <1>8, <2>2, <3>1 DEF Ask
  <2> QED BY <1>8, <2>1, <2>2 DEF Ask
<1>9. CASE Save(x)
  <2>1. ASSUME messages' = Append(messages, <<"assistant", x>>), NEW y, Latest(y)' PROVE Latest(y)
    <3>1. <<"assistant", x>> \in Message
      BY Messages
    <3> QED BY <1>1, <2>1, <3>1, LatestAppended
  <2> QED BY <1>2, <1>9, <2>1 DEF Save
<1>10. CASE LookUp(x) \/ Load(x) \/ Match(x)
  BY <1>2, <1>10 DEF LookUp, Load, Match
<1>11. CASE Promote(x) \/ Route(x) \/ Retrieve(x)
  BY <1>2, <1>11 DEF Promote, Route, Retrieve
<1>12. CASE Generate(x) \/ CacheExact(x) \/ CacheSemantic(x)
  BY <1>2, <1>12 DEF Generate, CacheExact, CacheSemantic
<1> QED BY <1>3, <1>4, <1>5, <1>6, <1>7, <1>8, <1>9, <1>10, <1>11, <1>12 DEF RetryStep, ChatStep

\* What the server has sent tells how far a request is.
AnswerInv ==
  \A r \in Requests : /\ response[r] = "none" <=> step[r] \in Early
                      /\ response[r] = "refused" => step[r] = "failed"
                      /\ step[r] \in Unfound => question[r] = Nobody

LEMMA Replies ==
  ASSUME [ClientNext]_clientVars
  PROVE  Respond \/ (UNCHANGED <<response, step>>) \/ \E r \in Requests : SendMessage(r)
<1>1. ASSUME NEW r \in Requests, RetryLast(r) \/ ServerStep(r) \/ ReadResponse(r)
                                 \/ LetGo(r) \/ FeedbackStep(r)
      PROVE  Respond \/ UNCHANGED <<response, step>>
  BY <1>1 DEF RetryLast, ServerStep, ReadResponse, LetGo, FeedbackStep, Finish, BlameStep,
              FindBlamed, ClearBlamedExact, ClearBlamedSemantic, tabVars, vars
<1>2. ASSUME NEW r \in Requests, NEW n \in 1..MaxVotes, Count(r, n) \/ LoseVote(r, n)
      PROVE  UNCHANGED <<response, step>>
  BY <1>2 DEF Count, LoseVote, Rate, vars
<1>3. ASSUME NEW i \in DOMAIN list, NEW thumb \in Thumbs, Vote(i, thumb)
      PROVE  UNCHANGED <<response, step>>
  BY <1>3 DEF Vote, vars
<1>4. CASE Reload \/ BackendCrash \/ CacheExpires \/ DocumentStep
  BY <1>4 DEF Reload, BackendCrash, CacheExpires, DocumentStep, Expire, Store, Delete, Flush, Note,
              tabVars, vars
<1>5. CASE UNCHANGED clientVars
  BY <1>5 DEF clientVars, tabVars, vars
<1> QED BY <1>1, <1>2, <1>3, <1>4, <1>5 DEF ClientNext

LEMMA AnswerStep ==
  TabTyped /\ HistTyped /\ TypeOK' /\ AnswerInv /\ [ClientNext]_clientVars => AnswerInv'
<1> SUFFICES ASSUME TabTyped, HistTyped, TypeOK', AnswerInv, [ClientNext]_clientVars,
                    NEW r \in Requests
             PROVE  /\ response'[r] = "none" <=> step'[r] \in Early
                    /\ response'[r] = "refused" => step'[r] = "failed"
                    /\ step'[r] \in Unfound => question'[r] = Nobody
  BY DEF AnswerInv
<1>1. /\ [Next]_vars /\ Forward /\ response \in [Requests -> Responses]
  BY ClientStep, ForwardStep DEF HistTyped, TabTyped, ClientTypeOK
<1>2. /\ step'[r] \in Unfound => step[r] \in Unfound /\ question'[r] = question[r]
      /\ step[r] = "failed" => step'[r] = "failed"
  BY <1>1, QuestionMove
<1>3. step'[r] \in Unfound => question'[r] = Nobody
  BY <1>2 DEF AnswerInv
<1>4. CASE Respond
  <2>1. response'[r] = Reply(r, step'[r])
    BY <1>4 DEF Respond
  <2>2. step'[r] \in {"idle"} \cup StreamSteps \cup LateSteps \cup Ends
    BY DEF TypeOK
  <2>3. CASE response[r] \in Over
    <3>1. response'[r] = response[r] /\ response[r] # "none"
      BY <2>1, <2>3 DEF Reply, Over
    <3> QED BY <1>1, <1>2, <1>3, <3>1 DEF AnswerInv, Forward
  <2>4. CASE response[r] = "open"
    <3>1. step'[r] \notin Early
      BY <1>1, <2>4 DEF AnswerInv, Forward
    <3> QED BY <1>3, <2>1, <2>2, <2>4, <3>1
            DEF Reply, Over, Early, RetrySteps, StreamSteps, LateSteps, Ends
  <2>5. CASE response[r] = "none"
    BY <1>3, <2>1, <2>2, <2>5 DEF Reply, Over, Early, RetrySteps, StreamSteps, LateSteps, Ends
  <2> QED BY <1>1, <2>3, <2>4, <2>5 DEF Over
<1>5. CASE UNCHANGED <<response, step>>
  BY <1>3, <1>5 DEF AnswerInv
<1>6. ASSUME NEW x \in Requests, SendMessage(x) PROVE step'[r] \in Early <=> step[r] \in Early
  BY <1>6 DEF SendMessage, Send, StepTo, HistTyped, TypeOK, Early
<1>7. ASSUME NEW x \in Requests, SendMessage(x)
      PROVE  /\ response'[r] = "none" <=> step'[r] \in Early
             /\ response'[r] = "refused" => step'[r] = "failed"
  BY <1>2, <1>6, <1>7 DEF SendMessage, AnswerInv
<1> QED BY <1>3, <1>4, <1>5, <1>7, Replies

\* A refusal is of a request that was not yet asked, and is never taken back.
LEMMA Refusals ==
  ASSUME TabTyped, HistTyped, AnswerInv, [ClientNext]_clientVars, NEW r \in Requests
  PROVE  /\ response[r] = "refused" => response'[r] = "refused"
         /\ response[r] = "none" /\ step'[r] = "failed" => response'[r] = "refused"
<1>1. CASE Respond
  BY <1>1 DEF Respond, Reply, Over, Responses
<1>2. CASE UNCHANGED <<response, step>>
  BY <1>2 DEF AnswerInv, Early, RetrySteps
<1>3. ASSUME NEW x \in Requests, SendMessage(x)
      PROVE  UNCHANGED response /\ (step'[r] = "failed" => step[r] = "failed")
  BY <1>3 DEF SendMessage, Send, StepTo, HistTyped, TypeOK
<1> QED BY <1>1, <1>2, <1>3, Replies DEF AnswerInv, Early, RetrySteps

\* The questions of the list are those of messages, not of retries.
PlainAsked == \A i \in DOMAIN list : list[i].role = "user" => list[i].req \notin retries

\* The question the last answer stands under.
LastAsked == question[list[Len(list) - 1].req]

\* Nothing of the tab's is between the history and the list.
InStep == \/ streaming = Nobody
          \/ step[streaming] \notin Found /\ response[streaming] # "refused"

TabInv ==
  /\ PlainAsked
  /\ \A r \in Requests : /\ step[r] \in Early \ {"idle"} => streaming = r
                         /\ streaming = r => /\ Len(list) > 0
                                             /\ IsPlaceholder(list[Len(list)], r)
  /\ \A i \in DOMAIN list : list[i].role = "assistant" => StandsUnderItsQuestion(i)
  /\ Len(list) > 0 /\ list[Len(list)].role = "assistant" =>
       /\ \A r \in Requests : streaming = r /\ step[r] \in Found => question[r] = LastAsked
       /\ InStep => \A x \in Requests : Latest(x) => question[x] = LastAsked

\* Everything known of the tab besides.
TabKnown == TabTyped /\ HistTyped /\ OnceInv /\ ReloadInv /\ AnswerInv

LEMMA ListKnown ==
  ASSUME TabKnown
  PROVE  /\ list \in Seq(Entry) /\ Len(list) \in Nat /\ DOMAIN list = 1..Len(list)
         /\ \A i \in DOMAIN list : /\ list[i].req \in Requests /\ step[list[i].req] # "idle"
                                   /\ list[i].role \in {"user", "assistant"}
         /\ OneEach(list) /\ streaming \in Requests \cup {Nobody}
         /\ TypeOK /\ HistInv /\ messages \in Seq(Message)
<1>1. /\ list \in Seq(Entry) /\ Known(list) /\ OneEach(list) /\ streaming \in Requests \cup {Nobody}
      /\ TypeOK /\ HistInv /\ messages \in Seq(Message)
  BY DEF TabKnown, TabTyped, ClientTypeOK, ReloadInv, HistTyped, TypeOK
<1>2. Len(list) \in Nat /\ DOMAIN list = 1..Len(list) /\ \A i \in DOMAIN list : list[i] \in Entry
  BY <1>1, Lists
<1> QED BY <1>1, <1>2 DEF Known, Entry

\* The questions shown stay what they are.
LEMMA ShownStays ==
  ASSUME TabKnown, PlainAsked, [ClientNext]_clientVars,
         NEW i \in DOMAIN list, list[i].role = "user"
  PROVE  question'[list[i].req] = question[list[i].req] /\ list[i].req \notin retries'
<1>1. [Next]_vars /\ HistTyped
  BY ClientStep DEF TabKnown
<1>2. list[i].req \in Requests /\ step[list[i].req] # "idle" /\ list[i].req \notin retries
  BY ListKnown DEF PlainAsked
<1> QED BY <1>1, <1>2, QuestionMove

LEMMA TabRests ==
  ASSUME TabKnown, TabInv, [ClientNext]_clientVars,
         list' \in Seq(Entry), Len(list') = Len(list),
         \A i \in DOMAIN list : list'[i].role = list[i].role /\ list'[i].req = list[i].req,
         UNCHANGED question, \A x : Latest(x)' => Latest(x),
         \A r \in Requests : step'[r] = step[r] \/ (step[r] \notin Early /\ step'[r] \notin Early),
         \/ streaming' = streaming
         \/ /\ streaming' = Nobody /\ streaming \in Requests
            /\ step[streaming] \notin Early /\ response[streaming] # "refused"
  PROVE  TabInv'
<1>1. /\ Len(list) \in Nat /\ DOMAIN list = 1..Len(list) /\ streaming \in Requests \cup {Nobody}
      /\ \A i \in DOMAIN list : list[i].req \in Requests
  BY ListKnown
<1>2. DOMAIN list' = 1..Len(list)
  BY <1>1
<1>3. PlainAsked'
  BY <1>1, <1>2, ShownStays DEF PlainAsked, TabInv
<1>4. ASSUME NEW r \in Requests
      PROVE  /\ step'[r] \in Early \ {"idle"} => streaming' = r
             /\ streaming' = r => Len(list') > 0 /\ IsPlaceholder(list'[Len(list')], r)
  <2>1. step'[r] \in Early \ {"idle"} => streaming' = r
    BY DEF TabInv
  <2>2. streaming' = r => streaming = r
    BY ChatAssumption
  <2> QED BY <1>1, <2>1, <2>2 DEF TabInv, IsPlaceholder
<1>5. ASSUME NEW i \in DOMAIN list', list'[i].role = "assistant" PROVE StandsUnderItsQuestion(i)'
  BY <1>1, <1>2, <1>5 DEF TabInv, StandsUnderItsQuestion
<1>6. ASSUME Len(list') > 0, list'[Len(list')].role = "assistant"
      PROVE  /\ \A r \in Requests : streaming' = r /\ step'[r] \in Found => question'[r] = LastAsked'
             /\ InStep' => \A x \in Requests : Latest(x)' => question'[x] = LastAsked'
  <2>1. Len(list) > 0 /\ Len(list) \in DOMAIN list /\ list[Len(list)].role = "assistant"
    BY <1>1, <1>6
  <2>2. Len(list) - 1 \in DOMAIN list
    BY <1>1, <2>1 DEF TabInv, StandsUnderItsQuestion
  <2>3. LastAsked' = LastAsked
    BY <2>2 DEF LastAsked
  <2>4. \A r \in Requests : streaming' = r /\ step'[r] \in Found => streaming = r /\ step[r] \in Found
    BY ChatAssumption DEF Found
  <2>5. ASSUME InStep' PROVE InStep
    <3>1. TabTyped /\ HistTyped /\ AnswerInv
      BY DEF TabKnown
    <3>2. streaming \in Requests => (response'[streaming] # "refused" => response[streaming] # "refused")
      BY <3>1, Refusals
    <3> QED BY <1>1, <2>5, <3>2 DEF InStep, Found
  <2> QED BY <2>1, <2>3, <2>4, <2>5 DEF TabInv
<1> QED BY <1>3, <1>4, <1>5, <1>6 DEF TabInv

\* The request the tab reads, up to its headers.
LEMMA OwnStep ==
  ASSUME TabKnown, TabInv, [ClientNext]_clientVars, NEW r \in Requests, streaming = r,
         RetryStep(r) \/ ChatStep(r), UNCHANGED <<list, streaming>>, step[r] \in Early
  PROVE  TabInv'
<1> DEFINE L == Len(list)
<1>1. /\ L \in Nat /\ DOMAIN list = 1..L
      /\ \A i \in DOMAIN list : list[i].req \in Requests
      /\ OneEach(list)
  BY ListKnown
<1>2. HistTyped /\ TabTyped /\ AnswerInv /\ PlainAsked
  BY DEF TabKnown, TabInv
<1>3. /\ L > 1 /\ L \in DOMAIN list /\ L - 1 \in DOMAIN list
      /\ list[L].role = "assistant" /\ list[L].req = r
      /\ list[L - 1].role = "user" /\ list[L - 1].req \notin retries
  <2>1. L > 0 /\ IsPlaceholder(list[L], r)
    BY DEF TabInv
  <2>2. L \in DOMAIN list /\ list[L].role = "assistant" /\ list[L].req = r
    BY <1>1, <2>1 DEF IsPlaceholder
  <2>3. StandsUnderItsQuestion(L)
    BY <2>2 DEF TabInv
  <2>4. L > 1 /\ list[L - 1].role = "user"
    BY <2>3 DEF StandsUnderItsQuestion
  <2>5. L - 1 \in DOMAIN list
    BY <1>1, <2>4
  <2> QED BY <1>2, <2>2, <2>4, <2>5 DEF PlainAsked
<1>4. /\ \A i \in DOMAIN list : list[i].role = "user" =>
           question'[list[i].req] = question[list[i].req] /\ list[i].req \notin retries'
      /\ LastAsked' = LastAsked
  BY <1>2, <1>3, ShownStays DEF LastAsked
<1>5. /\ \A y \in Requests : y # r => step'[y] = step[y] /\ question'[y] = question[y]
      /\ \/ /\ r \in retries /\ step[r] \in Unfound \ {"idle"}
            /\ step'[r] \in Unfound \ {"idle"} /\ UNCHANGED question
            /\ \A y : Latest(y)' => Latest(y)
         \/ /\ r \in retries /\ step[r] \in Unfound \ {"idle"} /\ step'[r] \in Found
            /\ \E u \in Requests : Latest(u) /\ question'[r] = question[u]
         \/ step[r] \in Found /\ step'[r] \in Found /\ UNCHANGED question
         \/ /\ step[r] \in Found /\ step'[r] \notin Early /\ UNCHANGED question
            /\ \A y : Latest(y)' => y = r
         \/ /\ step[r] \in Early \ {"idle"} /\ step'[r] = "failed" /\ UNCHANGED question
  BY <1>2, ServerMoves
<1>6. InStep <=> step[r] \notin Found
  BY <1>2, ChatAssumption DEF InStep, AnswerInv, Early, RetrySteps
<1>7. /\ step[r] \in Found => question[r] = LastAsked
      /\ step[r] \notin Found => \A x \in Requests : Latest(x) => question[x] = LastAsked
  BY <1>3, <1>6 DEF TabInv
<1>8. question'[r] = question[r] \/ question'[r] = LastAsked
  BY <1>5, <1>7 DEF Found
<1>9. ASSUME NEW i \in DOMAIN list, list[i].role = "assistant" PROVE StandsUnderItsQuestion(i)'
  <2>1. StandsUnderItsQuestion(i) /\ i - 1 \in DOMAIN list
    BY <1>1, <1>9 DEF TabInv, StandsUnderItsQuestion
  <2>2. question'[list[i - 1].req] = question[list[i - 1].req]
    BY <1>4, <2>1 DEF StandsUnderItsQuestion
  <2>3. CASE list[i].req = r
    <3>1. i = L
      BY <1>1, <1>3, <1>9, <2>3 DEF OneEach
    <3> QED BY <1>4, <1>8, <2>1, <2>2, <2>3, <3>1 DEF StandsUnderItsQuestion, LastAsked
  <2>4. CASE list[i].req # r
    <3>1. question'[list[i].req] = question[list[i].req]
      BY <1>1, <1>5, <2>4
    <3> QED BY <2>1, <2>2, <3>1 DEF StandsUnderItsQuestion
  <2> QED BY <2>3, <2>4
<1>10. ASSUME NEW y \in Requests
       PROVE  /\ step'[y] \in Early \ {"idle"} => streaming' = y
              /\ streaming' = y => Len(list') > 0 /\ IsPlaceholder(list'[Len(list')], y)
  BY <1>5 DEF TabInv, IsPlaceholder
<1>11. ASSUME NEW y \in Requests, streaming' = y, step'[y] \in Found PROVE question'[y] = LastAsked'
  BY <1>4, <1>5, <1>7, <1>11 DEF Found, Early, RetrySteps
<1>12. ASSUME InStep', NEW x \in Requests, Latest(x)' PROVE question'[x] = LastAsked'
  <2>1. step'[r] \notin Found /\ response'[r] # "refused"
    BY <1>12, ChatAssumption DEF InStep
  <2>2. step'[r] # "failed"
    BY <1>2, <2>1, Refusals DEF AnswerInv
  <2> QED BY <1>4, <1>5, <1>7, <1>12, <2>1, <2>2 DEF Found
<1>13. PlainAsked'
  BY <1>4 DEF PlainAsked
<1> QED BY <1>9, <1>10, <1>11, <1>12, <1>13 DEF TabInv

LEMMA SendShown ==
  ASSUME TabKnown, TabInv, [ClientNext]_clientVars, NEW r \in Requests, SendMessage(r)
  PROVE  TabInv'
<1> DEFINE L == Len(list)
<1>1. /\ list \in Seq(Entry) /\ L \in Nat /\ DOMAIN list = 1..L
      /\ \A i \in DOMAIN list : list[i].req \in Requests /\ step[list[i].req] # "idle"
  BY ListKnown
<1>2. /\ list' \in Seq(Entry) /\ Len(list') = L + 2
      /\ \A i \in DOMAIN list : list'[i] = list[i]
      /\ list'[L + 1] = Asked(r) /\ list'[L + 2] = Placeholder(r)
  BY <1>1, SentList DEF SendMessage
<1>3. /\ Asked(r).role = "user" /\ Asked(r).req = r
      /\ Placeholder(r).role = "assistant" /\ Placeholder(r).req = r
  BY DEF Asked, Placeholder
<1>4. /\ step[r] = "idle" /\ step'[r] = "limiting" /\ streaming = Nobody /\ streaming' = r
      /\ \A y \in Requests : y # r => step'[y] = step[y] /\ question'[y] = question[y]
      /\ UNCHANGED retries
  BY DEF SendMessage, Send, StepTo, TabKnown, HistTyped, TypeOK
<1>5. DOMAIN list' = 1..(L + 2)
  BY <1>1, <1>2
<1>6. \A i \in DOMAIN list : list[i].req # r /\ question'[list[i].req] = question[list[i].req]
  BY <1>1, <1>4
<1>7. PlainAsked'
  <2>1. r \notin retries'
    BY <1>4 DEF TabKnown, OnceInv
  <2>2. \A i \in DOMAIN list' : i \in DOMAIN list \/ i = L + 1 \/ i = L + 2
    BY <1>1, <1>5
  <2> QED BY <1>2, <1>3, <1>4, <2>1, <2>2 DEF PlainAsked, TabInv
<1>8. ASSUME NEW y \in Requests
      PROVE  /\ step'[y] \in Early \ {"idle"} => streaming' = y
             /\ streaming' = y => Len(list') > 0 /\ IsPlaceholder(list'[Len(list')], y)
  <2>1. y # r => step'[y] \notin Early \ {"idle"}
    BY <1>4, ChatAssumption DEF TabInv
  <2> QED BY <1>1, <1>2, <1>3, <1>4, <2>1 DEF IsPlaceholder
<1>9. ASSUME NEW i \in DOMAIN list', list'[i].role = "assistant" PROVE StandsUnderItsQuestion(i)'
  <2>1. CASE i \in DOMAIN list
    <3>1. StandsUnderItsQuestion(i) /\ i - 1 \in DOMAIN list
      BY <1>1, <1>2, <1>9, <2>1 DEF TabInv, StandsUnderItsQuestion
    <3> QED BY <1>2, <1>6, <2>1, <3>1 DEF StandsUnderItsQuestion
  <2>2. CASE i = L + 2
    BY <1>1, <1>2, <1>3, <2>2 DEF StandsUnderItsQuestion
  <2>3. CASE i = L + 1
    BY <1>2, <1>3, <1>9, <2>3
  <2> QED BY <1>1, <1>5, <2>1, <2>2, <2>3
<1>10. question'[r] = LastAsked'
  <2>1. Len(list') - 1 = L + 1
    BY <1>1, <1>2
  <2> QED BY <1>2, <1>3, <2>1 DEF LastAsked
<1>11. ~InStep'
  BY <1>4, ChatAssumption DEF InStep, Found, Early, Unfound
<1> QED BY <1>4, <1>7, <1>8, <1>9, <1>10, <1>11 DEF TabInv

LEMMA RetryShown ==
  ASSUME TabKnown, TabInv, [ClientNext]_clientVars, NEW r \in Requests, RetryLast(r)
  PROVE  TabInv'
<1> DEFINE L == Len(list)
<1>1. /\ list \in Seq(Entry) /\ L \in Nat /\ DOMAIN list = 1..L
      /\ \A i \in DOMAIN list : list[i].req \in Requests /\ step[list[i].req] # "idle"
  BY ListKnown
<1>2. L >= 2 /\ list[L].role = "assistant" /\ streaming = Nobody /\ streaming' = r
  BY DEF RetryLast
<1>3. /\ list' \in Seq(Entry) /\ Len(list') = L
      /\ \A i \in DOMAIN list : i # L => list'[i] = list[i]
      /\ list'[L] = Placeholder(r)
  BY <1>1, <1>2, RetriedList DEF RetryLast
<1>4. Placeholder(r).role = "assistant" /\ Placeholder(r).req = r
  BY DEF Placeholder
<1>5. /\ step[r] = "idle" /\ step'[r] \notin Found /\ UNCHANGED <<question, messages>>
      /\ \A y \in Requests : y # r => step'[y] = step[y]
  BY DEF RetryLast, Retry, StepTo, TabKnown, HistTyped, TypeOK, Found, Early, Unfound, RetrySteps
<1>6. DOMAIN list' = 1..L /\ L \in DOMAIN list /\ L - 1 \in DOMAIN list
  BY <1>1, <1>2, <1>3
<1>7. list[L - 1].role = "user" /\ list'[L - 1] = list[L - 1]
  BY <1>1, <1>2, <1>3, <1>6 DEF TabInv, StandsUnderItsQuestion
<1>8. PlainAsked'
  BY <1>1, <1>3, <1>4, <1>6, ShownStays DEF PlainAsked, TabInv
<1>9. ASSUME NEW y \in Requests
      PROVE  /\ step'[y] \in Early \ {"idle"} => streaming' = y
             /\ streaming' = y => Len(list') > 0 /\ IsPlaceholder(list'[Len(list')], y)
  <2>1. y # r => step'[y] \notin Early \ {"idle"}
    BY <1>2, <1>5, ChatAssumption DEF TabInv
  <2> QED BY <1>1, <1>2, <1>3, <1>4, <2>1 DEF IsPlaceholder
<1>10. ASSUME NEW i \in DOMAIN list', list'[i].role = "assistant" PROVE StandsUnderItsQuestion(i)'
  <2>1. CASE i # L
    <3>1. StandsUnderItsQuestion(i) /\ i - 1 \in DOMAIN list /\ i - 1 # L
      BY <1>1, <1>3, <1>6, <1>10, <2>1 DEF TabInv, StandsUnderItsQuestion
    <3> QED BY <1>1, <1>3, <1>5, <1>6, <2>1, <3>1 DEF StandsUnderItsQuestion
  <2>2. CASE i = L
    <3>1. question'[r] = Nobody
      BY <1>5 DEF TabKnown, AnswerInv, Unfound
    <3> QED BY <1>2, <1>3, <1>4, <1>7, <2>2, <3>1 DEF StandsUnderItsQuestion
  <2> QED BY <2>1, <2>2
<1>11. ASSUME NEW x \in Requests, Latest(x)' PROVE question'[x] = LastAsked'
  <2>1. LastAsked' = LastAsked
    BY <1>3, <1>5, <1>7 DEF LastAsked
  <2>2. Latest(x)
    BY <1>5, <1>11 DEF Latest, At
  <2>3. question[x] = LastAsked
    BY <1>2, <2>2 DEF TabInv, InStep
  <2> QED BY <1>5, <2>1, <2>3
<1> QED BY <1>2, <1>5, <1>8, <1>9, <1>10, <1>11 DEF TabInv

\* A refusal takes its placeholder away, which leaves a question without an
\* answer and nothing to retry.
LEMMA RefusalShown ==
  ASSUME TabKnown, TabInv, [ClientNext]_clientVars, NEW r \in Requests, ReadResponse(r),
         response[r] = "refused"
  PROVE  TabInv'
<1> DEFINE L == Len(list)
<1>1. /\ list \in Seq(Entry) /\ L \in Nat /\ DOMAIN list = 1..L /\ OneEach(list)
  BY ListKnown
<1>2. /\ streaming = r /\ list' = Without(r) /\ streaming' = Nobody
      /\ UNCHANGED vars
  BY DEF ReadResponse, Finish
<1>3. L \in DOMAIN list /\ IsPlaceholder(list[L], r)
  BY <1>1, <1>2 DEF TabInv
<1>4. PICK i \in DOMAIN list :
         /\ IsPlaceholder(list[i], r) /\ Len(list') = L - 1 /\ list' \in Seq(Entry)
         /\ \A j \in DOMAIN list' : list'[j] = list[IF j < i THEN j ELSE j + 1]
  BY <1>1, <1>2, <1>3, WithoutList
<1>5. i = L
  BY <1>1, <1>3, <1>4 DEF OneEach, IsPlaceholder
<1>6. /\ DOMAIN list' = 1..(L - 1)
      /\ \A j \in DOMAIN list' : j \in DOMAIN list /\ list'[j] = list[j]
  BY <1>1, <1>4, <1>5
<1>7. L > 1 /\ list[L - 1].role = "user"
  BY <1>1, <1>3 DEF TabInv, IsPlaceholder, StandsUnderItsQuestion
<1>8. list'[Len(list')].role = "user"
  BY <1>1, <1>4, <1>6, <1>7
<1>9. PlainAsked'
  BY <1>2, <1>6 DEF PlainAsked, TabInv, vars, turnVars
<1>10. ASSUME NEW y \in Requests
       PROVE  step'[y] \notin Early \ {"idle"} /\ streaming' # y
  <2>1. step[r] = "failed" /\ step' = step
    BY <1>2 DEF TabKnown, AnswerInv, vars
  <2> QED BY <1>2, <2>1, ChatAssumption DEF TabInv, Early, RetrySteps
<1>11. ASSUME NEW j \in DOMAIN list', list'[j].role = "assistant" PROVE StandsUnderItsQuestion(j)'
  <2>1. StandsUnderItsQuestion(j) /\ j - 1 \in DOMAIN list'
    BY <1>1, <1>6, <1>11 DEF TabInv, StandsUnderItsQuestion
  <2> QED BY <1>2, <1>6, <2>1 DEF StandsUnderItsQuestion, vars, turnVars
<1> QED BY <1>8, <1>9, <1>10, <1>11 DEF TabInv

\* A step of the server in which the tab has no part.
LEMMA ServerShown ==
  ASSUME TabKnown, TabInv, [ClientNext]_clientVars, NEW x \in Requests, ServerStep(x)
  PROVE  TabInv'
<1>1. HistTyped /\ list \in Seq(Entry)
  BY ListKnown DEF TabKnown
<1>2. RetryStep(x) \/ ChatStep(x)
  BY DEF ServerStep
<1>3. UNCHANGED <<list, streaming>>
  BY DEF ServerStep, listVars
<1>4. CASE step[x] \in Early
  <2>1. step[x] # "idle"
    BY <1>1, <1>2, <1>4, ServerMoves DEF Found, Unfound
  <2>2. streaming = x
    BY <1>4, <2>1 DEF TabInv
  <2> QED BY <1>2, <1>3, <1>4, <2>2, OwnStep
<1>5. CASE step[x] \notin Early
  <2>1. /\ step'[x] \notin Early /\ \A y : Latest(y)' => Latest(y)
        /\ \A y \in Requests : y # x => step'[y] = step[y] /\ question'[y] = question[y]
        /\ UNCHANGED question
    BY <1>1, <1>2, <1>5, ServerMoves DEF Early, Found, Unfound, RetrySteps
  <2>2. \A y \in Requests : step'[y] = step[y] \/ (step[y] \notin Early /\ step'[y] \notin Early)
    BY <1>5, <2>1
  <2> QED BY <1>1, <1>3, <2>1, <2>2, TabRests
<1> QED BY <1>4, <1>5

\* A stream that is read to its end, or let go of once its headers are there.
LEMMA FinishShown ==
  ASSUME TabKnown, TabInv, [ClientNext]_clientVars, NEW r \in Requests,
         ReadResponse(r) \/ LetGo(r), response[r] \notin {"none", "refused"}
  PROVE  TabInv'
<1>1. list \in Seq(Entry) /\ AnswerInv
  BY ListKnown DEF TabKnown
<1>2. UNCHANGED vars /\ streaming = r /\ streaming' = Nobody
  BY DEF ReadResponse, LetGo, Finish
<1>3. list' \in {list, Traced(r)}
  BY DEF ReadResponse, LetGo, Finish
<1>4. /\ list' \in Seq(Entry) /\ Len(list') = Len(list)
      /\ \A i \in DOMAIN list : list'[i].role = list[i].role /\ list'[i].req = list[i].req
  BY <1>1, <1>3, TracedList
<1>5. step[streaming] \notin Early /\ response[streaming] # "refused"
  BY <1>1, <1>2 DEF AnswerInv
<1>6. UNCHANGED <<step, question, messages>>
  BY <1>2 DEF vars, turnVars
<1>7. \A y : Latest(y)' => Latest(y)
  BY <1>6 DEF Latest, At
<1> QED BY <1>2, <1>4, <1>5, <1>6, <1>7, TabRests

\* Votes, documents, expiry and a crash that loses no question.
LEMMA RestShown ==
  ASSUME TabKnown, TabInv, [ClientNext]_clientVars,
         \/ \E r \in Requests : FeedbackStep(r) \/ \E n \in 1..MaxVotes : Count(r, n) \/ LoseVote(r, n)
         \/ \E i \in DOMAIN list, thumb \in Thumbs : Vote(i, thumb)
         \/ BackendCrash /\ ~severed'
         \/ CacheExpires \/ DocumentStep \/ UNCHANGED clientVars
  PROVE  TabInv'
<1>1. /\ list \in Seq(Entry) /\ AnswerInv /\ TypeOK /\ messages \in Seq(Message)
  BY ListKnown DEF TabKnown
<1>2. UNCHANGED messages => \A y : Latest(y)' => Latest(y)
  BY DEF Latest, At
<1>3. ASSUME UNCHANGED <<list, streaming, question, messages>>,
             \A y \in Requests : step'[y] = step[y] \/ (step[y] \notin Early /\ step'[y] \notin Early)
      PROVE  TabInv'
  BY <1>1, <1>2, <1>3, TabRests
<1>4. ASSUME NEW r \in Requests, FeedbackStep(r) PROVE TabInv'
  BY <1>3, <1>4 DEF FeedbackStep, BlameStep, FindBlamed, ClearBlamedExact, ClearBlamedSemantic,
                    tabVars, listVars, turnVars
<1>5. ASSUME NEW r \in Requests, NEW n \in 1..MaxVotes, Count(r, n) \/ LoseVote(r, n) PROVE TabInv'
  BY <1>3, <1>5 DEF Count, LoseVote, Rate, listVars, vars, turnVars
<1>6. ASSUME NEW i \in DOMAIN list, NEW thumb \in Thumbs, Vote(i, thumb) PROVE TabInv'
  <2>1. PICK mark \in Thumbs \cup {"none"} : list' = Marked(i, mark)
    BY <1>6 DEF Vote
  <2>2. UNCHANGED <<step, question, messages, streaming>>
    BY <1>6 DEF Vote, vars, turnVars
  <2>3. /\ list' \in Seq(Entry) /\ Len(list') = Len(list)
        /\ \A j \in DOMAIN list : Marked(i, mark)[j].role = list[j].role
                                 /\ Marked(i, mark)[j].req = list[j].req
    BY <1>1, <2>1, MarkedList
  <2> QED BY <1>2, <2>1, <2>2, <2>3, TabRests
<1>7. CASE BackendCrash /\ ~severed'
  <2>1. UNCHANGED <<list, streaming, question, messages>>
    BY <1>7 DEF BackendCrash, Crash
  <2>2. ASSUME NEW y \in Requests
        PROVE  step'[y] = step[y] \/ (step[y] \notin Early /\ step'[y] \notin Early)
    <3>1. response[y] = "none" => step'[y] # "lost"
      BY <1>7 DEF BackendCrash
    <3>2. \/ step'[y] = step[y] \/ step'[y] = "lost"
          \/ step[y] \in LateSteps /\ step'[y] \in {"served", "done"}
      BY <1>7 DEF BackendCrash, Crash
    <3> QED BY <1>1, <3>1, <3>2 DEF AnswerInv, Early, RetrySteps, LateSteps
  <2> QED BY <1>3, <2>1, <2>2
<1>8. CASE DocumentStep
  <2>1. UNCHANGED <<list, streaming, step, question>>
    BY <1>8 DEF DocumentStep, Store, Delete, Flush, Note, tabVars, listVars, turnVars
  <2>2. PICK d \in Docs : Store(d) \/ Delete(d) \/ Flush(d) \/ Note(d)
    BY <1>8 DEF DocumentStep
  <2>3. UNCHANGED messages \/ messages' = Append(messages, <<"system", d>>)
    BY <2>2 DEF Store, Delete, Flush, Note
  <2>4. \A y : Latest(y)' => Latest(y)
    <3>1. <<"system", d>> \in Message /\ <<"system", d>>[1] # "user"
      BY DEF Message
    <3> QED BY <1>1, <1>2, <2>3, <3>1, LatestAppended
  <2> QED BY <1>1, <2>1, <2>4, TabRests
<1>9. CASE CacheExpires \/ UNCHANGED clientVars
  BY <1>3, <1>9 DEF CacheExpires, Expire, clientVars, vars, turnVars, tabVars, listVars
<1> QED BY <1>4, <1>5, <1>6, <1>7, <1>8, <1>9

TabSafe == ~severed => TabInv

LEMMA TabStep == TabKnown /\ TabSafe /\ [ClientNext]_clientVars => TabSafe'
<1> SUFFICES ASSUME TabKnown, TabSafe, [ClientNext]_clientVars, ~severed' PROVE TabInv'
  BY DEF TabSafe
<1>1. severed \in BOOLEAN
  BY DEF TabKnown, TabTyped, ClientTypeOK
<1>2. TabInv
  BY <1>1, SeveredTyped DEF TabSafe
<1>3. ASSUME NEW r \in Requests, SendMessage(r) \/ RetryLast(r) \/ ServerStep(r) PROVE TabInv'
  BY <1>2, <1>3, SendShown, RetryShown, ServerShown
<1>4. ASSUME NEW r \in Requests, ReadResponse(r) PROVE TabInv'
  <2>1. response[r] # "none"
    BY <1>4 DEF ReadResponse, Over
  <2> QED BY <1>2, <1>4, <2>1, FinishShown, RefusalShown
<1>5. ASSUME NEW r \in Requests, LetGo(r) PROVE TabInv'
  <2>1. response[r] \notin {"none", "refused"}
    BY <1>5 DEF LetGo
  <2> QED BY <1>2, <1>5, <2>1, FinishShown
<1>6. CASE Reload
  <2>1. UNCHANGED <<list, streaming, vars>>
    BY <1>6 DEF Reload
  <2>2. UNCHANGED <<step, question, messages>>
    BY <2>1 DEF vars, turnVars
  <2>3. \A y : Latest(y)' => Latest(y)
    BY <2>2 DEF Latest, At
  <2>4. list \in Seq(Entry)
    BY ListKnown
  <2> QED BY <1>2, <2>1, <2>2, <2>3, <2>4, TabRests
<1> QED BY <1>2, <1>3, <1>4, <1>5, <1>6, RestShown DEF ClientNext

LEMMA TabStarts == ClientInit => AnswerInv /\ TabInv /\ ReloadInv
<1> SUFFICES ASSUME ClientInit PROVE AnswerInv /\ TabInv /\ ReloadInv
  OBVIOUS
<1>1. /\ list = <<>> /\ stored = <<>> /\ streaming = Nobody /\ Len(list) = 0 /\ DOMAIN list = {}
      /\ \A r \in Requests : step[r] = "idle" /\ question[r] = Nobody /\ response[r] = "none"
  BY DEF ClientInit, Init
<1>2. AnswerInv
  BY <1>1 DEF AnswerInv, Early, Unfound
<1>3. ReloadInv
  BY <1>1 DEF ReloadInv, OneEach, Known, ReloadLosesNothing
<1>4. TabInv
  BY <1>1, ChatAssumption DEF TabInv, PlainAsked
<1> QED BY <1>2, <1>3, <1>4

LEMMA SpecTabKnown == ClientSpec => []TabKnown
<1>1. ClientSpec => [](HistTyped /\ OnceInv)
  BY TabRunsSession, SpecOnce, PTL
<1>2. HistTyped => TypeOK
  BY DEF HistTyped
<1>3. ClientSpec => [](TabTyped /\ ReloadInv /\ AnswerInv)
  BY <1>2, TabStarts, SpecTabTyped, ReloadStep, AnswerStep, PTL DEF ClientSpec
<1> QED BY <1>1, <1>3, PTL DEF TabKnown

\* As long as the tab has let go of no request before its headers, every
\* answer is shown under the question the server answered with it: a retry
\* names no message, the server takes the newest question of its own history
\* (ChatService.handleRetry) and the tab puts the answer in the place of its
\* last one (useChat.retryLast), and the two are the same turn, also after
\* refusals, stopped streams, crashes and retries of retries.
THEOREM AnswersUnderQuestions == ClientSpec => []AnswerUnderQuestion
<1>1. TabInv => TabSafe
  BY DEF TabSafe
<1>2. TabSafe => AnswerUnderQuestion
  BY DEF TabSafe, TabInv, AnswerUnderQuestion
<1> QED BY <1>1, <1>2, TabStarts, SpecTabKnown, TabStep, PTL DEF ClientSpec

-----------------------------------------------------------------------------
(* The prompt.  The request the tab reads is the only one that may still    *)
(* ask, so that its question stays the newest one until its window is       *)
(* loaded, whatever turns the tab has let go of put behind it.              *)

Loading == {"lookingUp", "loading"}

Own(w, r) == \A i \in DOMAIN w : w[i][1] = "user" =>
               \E j \in DOMAIN w : i <= j /\ w[j] = <<"user", r>>

LEMMA WindowOfLatest ==
  ASSUME messages \in Seq(Message), NEW r \in Requests, Latest(r) PROVE Own(SlidingWindow, r)
<1> DEFINE L == Len(messages)
<1>1. L \in Nat /\ DOMAIN messages = 1..L /\ Window \in Nat \ {0}
  BY ChatAssumption
<1>2. PICK n \in 1..L : /\ messages[n][1] = "user" /\ messages[n][2] = r
                        /\ \A i \in 1..L : messages[i][1] = "user" => i <= n
  BY <1>1 DEF Latest, At
<1>3. messages[n] = <<"user", r>>
  <2>1. messages[n] \in Message
    BY <1>1
  <2> QED BY <1>2, <2>1 DEF Message
<1>4. CASE L <= Window
  BY <1>1, <1>2, <1>3, <1>4 DEF SlidingWindow, Own
<1>5. CASE ~(L <= Window)
  <2> DEFINE a == L - Window + 1
             w == SubSeq(messages, a, L)
  <2>1. a \in 1..L
    BY <1>1, <1>5
  <2> HIDE DEF a
  <2>2. Len(w) = L - a + 1 /\ DOMAIN w = 1..(L - a + 1)
        /\ \A i \in 1..(L - a + 1) : w[i] = messages[a + i - 1]
    BY <1>1, <2>1
  <2> HIDE DEF w
  <2>3. ASSUME NEW i \in DOMAIN w, w[i][1] = "user"
        PROVE  \E j \in DOMAIN w : i <= j /\ w[j] = <<"user", r>>
    <3>1. i \in 1..(L - a + 1) /\ a + i - 1 \in 1..L /\ messages[a + i - 1][1] = "user"
      BY <1>1, <2>1, <2>2, <2>3
    <3>2. a + i - 1 <= n
      BY <1>2, <3>1
    <3>3. n - a + 1 \in 1..(L - a + 1) /\ i <= n - a + 1 /\ a + (n - a + 1) - 1 = n
      BY <1>1, <2>1, <3>1, <3>2
    <3>4. w[n - a + 1] = messages[n]
      BY <2>2, <3>3
    <3> QED BY <1>3, <2>2, <3>3, <3>4
  <2>4. SlidingWindow = w
    BY <1>5 DEF SlidingWindow, w, a
  <2> QED BY <2>3, <2>4 DEF Own
<1> QED BY <1>4, <1>5

LEMMA LatestKept ==
  ASSUME messages \in Seq(Message), NEW m \in Message, messages' = Append(messages, m),
         NEW x, IF m[1] = "user" THEN x = m[2] ELSE Latest(x)
  PROVE  Latest(x)'
<1>1. /\ Len(messages) \in Nat /\ DOMAIN messages = 1..Len(messages)
      /\ DOMAIN messages' = 1..(Len(messages) + 1)
      /\ \A i \in 1..Len(messages) : messages'[i] = messages[i]
      /\ messages'[Len(messages) + 1] = m
  BY AppendedHistory
<1>2. CASE m[1] = "user"
  BY <1>1, <1>2 DEF Latest, At
<1>3. CASE m[1] # "user"
  <2>1. PICK n \in 1..Len(messages) :
           /\ messages[n][1] = "user" /\ messages[n][2] = x
           /\ \A j \in 1..Len(messages) : messages[j][1] = "user" => j <= n
    BY <1>1, <1>3 DEF Latest, At
  <2>2. n \in DOMAIN messages' /\ messages'[n] = messages[n]
    BY <1>1, <2>1
  <2>3. ASSUME NEW j \in DOMAIN messages', messages'[j][1] = "user" PROVE j <= n
    <3>1. j \in 1..Len(messages)
      BY <1>1, <1>3, <2>3
    <3> QED BY <1>1, <2>1, <2>3, <3>1
  <2> QED BY <2>1, <2>2, <2>3 DEF Latest, At
<1> QED BY <1>2, <1>3

\* Where a window comes from, and a request that is about to load it.
LEMMA WindowMove ==
  ASSUME TypeOK, [Next]_vars, NEW r \in Requests
  PROVE  /\ step'[r] \in Loading => step[r] \in Loading \/ AddsQuestion(r)
         /\ \/ window'[r] \in {window[r], <<>>}
            \/ step[r] = "loading" /\ window'[r] = SlidingWindow
<1> USE DEF TypeOK, StepTo, turnVars, cacheVars, blameVars, Loading
<1>1. ASSUME NEW x \in Requests, Send(x) \/ Retry(x) \/ Rate(x) \/ RetryStep(x) \/ BlameStep(x)
      PROVE  /\ window' = window
             /\ step'[r] = step[r] \/ step'[r] \notin Loading
  <2>1. CASE Send(x) \/ Retry(x) \/ Rate(x)
    BY <2>1 DEF Send, Retry, Rate
  <2>2. CASE RetryStep(x)
    BY <2>2 DEF RetryStep, DropAnswer, FindQuestion, ClearExact, ClearSemantic, DropQuestion
  <2>3. CASE BlameStep(x)
    BY <2>3 DEF BlameStep, FindBlamed, ClearBlamedExact, ClearBlamedSemantic
  <2> QED BY <1>1, <2>1, <2>2, <2>3
<1>2. ASSUME NEW x \in Requests, x # r, ChatStep(x)
      PROVE  step'[r] = step[r] /\ window'[r] = window[r]
  BY <1>2 DEF ChatStep, Limit, Ask, LookUp, Load, Match, Promote, Route, Retrieve,
              Generate, Save, CacheExact, CacheSemantic
<1>3. CASE Limit(r) \/ Ask(r) \/ LookUp(r)
  BY <1>3 DEF Limit, Ask, LookUp, AddsQuestion, Early, RetrySteps
<1>4. CASE Load(r)
  BY <1>4 DEF Load
<1>5. CASE Match(r)
  BY <1>5 DEF Match
<1>6. CASE Route(r) \/ Retrieve(r) \/ Generate(r)
  BY <1>6 DEF Route, Retrieve, Generate
<1>7. CASE Promote(r) \/ Save(r) \/ CacheExact(r) \/ CacheSemantic(r)
  BY <1>7 DEF Promote, Save, CacheExact, CacheSemantic
<1>8. ASSUME NEW d \in Docs, Store(d) \/ Delete(d) \/ Flush(d) \/ Note(d)
      PROVE  UNCHANGED <<step, window>>
  BY <1>8 DEF Store, Delete, Flush, Note
<1>9. CASE Expire \/ UNCHANGED vars
  BY <1>9 DEF Expire, vars
<1>10. CASE Crash
  <2>1. step'[r] \notin Loading /\ window'[r] = <<>>
    BY <1>10 DEF Crash, Streaming, StreamSteps, LateSteps
  <2> QED BY <2>1
<1> QED BY <1>1, <1>2, <1>3, <1>4, <1>5, <1>6, <1>7, <1>8, <1>9, <1>10 DEF Next, ChatStep

\* Only the two buttons make the tab read another response.
LEMMA StreamMove ==
  ASSUME HistTyped, [ClientNext]_clientVars, NEW r \in Requests, streaming' = r, streaming # r
  PROVE  step[r] = "idle" /\ step'[r] \notin Loading /\ window'[r] = window[r]
<1>1. ASSUME NEW x \in Requests, SendMessage(x) \/ RetryLast(x)
      PROVE  /\ x = r /\ step[x] = "idle" /\ UNCHANGED window
             /\ step'[x] \in {"limiting", "droppingAnswer", "findingQuestion", "failed"}
  BY <1>1 DEF SendMessage, RetryLast, Send, Retry, StepTo, HistTyped, TypeOK
<1>2. ASSUME NEW x \in Requests, ReadResponse(x) \/ LetGo(x) PROVE FALSE
  BY <1>2, ChatAssumption DEF ReadResponse, LetGo, Finish
<1>3. ASSUME NEW x \in Requests, NEW n \in 1..MaxVotes, Count(x, n) \/ LoseVote(x, n) PROVE FALSE
  BY <1>3 DEF Count, LoseVote, listVars
<1>4. ASSUME NEW i \in DOMAIN list, NEW thumb \in Thumbs, Vote(i, thumb) PROVE FALSE
  BY <1>4 DEF Vote
<1>5. ~Reload
  BY ChatAssumption DEF Reload
<1> QED BY <1>1, <1>2, <1>3, <1>4, <1>5, TabMoves DEF Loading

PromptInv ==
  /\ \A r \in Requests : step[r] = "idle" => window[r] = <<>>
  /\ ~severed => \A r \in Requests : streaming = r => /\ step[r] \in Loading => Latest(r)
                                                      /\ Own(window[r], r)

LEMMA PromptStep == TabKnown /\ TabSafe /\ PromptInv /\ [ClientNext]_clientVars => PromptInv'
<1> SUFFICES ASSUME TabKnown, TabSafe, PromptInv, [ClientNext]_clientVars PROVE PromptInv'
  OBVIOUS
<1>1. /\ [Next]_vars /\ HistTyped /\ TypeOK /\ messages \in Seq(Message) /\ severed \in BOOLEAN
  BY ListKnown, ClientStep DEF TabKnown, TabTyped, ClientTypeOK
<1>2. ASSUME NEW r \in Requests, step'[r] = "idle" PROVE window'[r] = <<>>
  <2>1. step[r] = "idle"
    BY <1>1, <1>2, GroundsMove
  <2> QED BY <1>1, <2>1, WindowMove DEF PromptInv
<1>3. ASSUME ~severed', NEW r \in Requests, streaming' = r
      PROVE  (step'[r] \in Loading => Latest(r)') /\ Own(window'[r], r)
  <2>1. ~severed /\ TabInv
    BY <1>1, <1>3, SeveredTyped DEF TabSafe
  <2>2. CASE streaming # r
    <3>1. step[r] = "idle" /\ step'[r] \notin Loading /\ window'[r] = window[r]
      BY <1>1, <1>3, <2>2, StreamMove
    <3>2. window'[r] = <<>>
      BY <3>1 DEF PromptInv
    <3> QED BY <3>1, <3>2 DEF Own
  <2>3. CASE streaming = r
    <3>1. (step[r] \in Loading => Latest(r)) /\ Own(window[r], r)
      BY <2>1, <2>3 DEF PromptInv
    <3>2. Own(window'[r], r)
      <4>1. CASE window'[r] = window[r]
        BY <3>1, <4>1
      <4>2. CASE step[r] = "loading" /\ window'[r] = SlidingWindow
        BY <1>1, <3>1, <4>2, WindowOfLatest DEF Loading
      <4>3. CASE window'[r] = <<>>
        BY <4>3 DEF Own
      <4> QED BY <1>1, <4>1, <4>2, <4>3, WindowMove
    <3>3. ASSUME step'[r] \in Loading PROVE Latest(r)'
      <4>1. CASE AddsQuestion(r)
        <5>1. <<"user", r>> \in Message /\ messages' = Append(messages, <<"user", r>>)
          BY <4>1, Messages DEF AddsQuestion
        <5> QED BY <1>1, <5>1, LatestKept
      <4>2. CASE step[r] \in Loading
        <5>1. \A x \in Requests : step[x] \in Early \ {"idle"} => x = r
          BY <2>1, <2>3 DEF TabInv
        <5>2. \A x \in Requests : ~AddsQuestion(x) /\ ~DropsAnswer(x) /\ ~DropsQuestion(x)
          BY <4>2, <5>1 DEF AddsQuestion, DropsAnswer, DropsQuestion, Early, RetrySteps, Loading
        <5>3. UNCHANGED messages \/ \E m \in Message : m[1] # "user" /\ messages' = Append(messages, m)
          <6>1. ASSUME NEW x \in Requests, AddsAnswer(x)
                PROVE  \E m \in Message : m[1] # "user" /\ messages' = Append(messages, m)
            BY <6>1, Messages DEF AddsAnswer
          <6>2. ASSUME NEW d \in Docs, AddsNote(d)
                PROVE  \E m \in Message : m[1] # "user" /\ messages' = Append(messages, m)
            BY <6>2, Messages DEF AddsNote
          <6> QED BY <1>1, <5>2, <6>1, <6>2, Moves
        <5>4. CASE UNCHANGED messages
          BY <3>1, <4>2, <5>4 DEF Latest, At
        <5>5. CASE \E m \in Message : m[1] # "user" /\ messages' = Append(messages, m)
          BY <1>1, <3>1, <4>2, <5>5, LatestKept
        <5> QED BY <5>3, <5>4, <5>5
      <4> QED BY <1>1, <3>3, <4>1, <4>2, WindowMove
    <3> QED BY <3>2, <3>3
  <2> QED BY <2>2, <2>3
<1> QED BY <1>2, <1>3 DEF PromptInv

\* What PromptBuilderService cuts off a window as the question of the turn is
\* never the question of another turn: a tab reads one response at a time
\* (ChatInput's isStreaming), a turn it has stopped has its question in the
\* history already, and so the newest question in the window a tab's request
\* has loaded is its own, whatever answers and notes of others came in between
\* and whatever was refused, retried or lost before.
THEOREM PromptsAskOwnQuestions == ClientSpec => []PromptsAskOwnQuestion
<1>1. ClientInit => PromptInv
  BY ChatAssumption DEF ClientInit, Init, PromptInv
<1>2. TabInv => TabSafe
  BY DEF TabSafe
<1>3. TabKnown /\ PromptInv => PromptsAskOwnQuestion
  BY ListKnown DEF PromptInv, PromptsAskOwnQuestion, Own
<1> QED BY <1>1, <1>2, <1>3, TabStarts, SpecTabKnown, TabStep, PromptStep, PTL DEF ClientSpec
=============================================================================

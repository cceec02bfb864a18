------------------------- MODULE ChatSessionProofs -------------------------
(***************************************************************************)
(* What a session promises, for any number of requests, questions and      *)
(* documents and any likeness of questions.  For any client and all        *)
(* faults: what the caches hold and serve, the types, the order of the     *)
(* history, how often a question is retried, and who keeps it.  For a      *)
(* client that waits, as far as it is named in a theorem's assumptions:    *)
(* what deletions and thumbs-down take away.                               *)
(***************************************************************************)
EXTENDS ChatSession, WellFoundedInduction, TLAPS

USE ChatAssumption

\* The part of the types the argument needs.
CacheTypes ==
  /\ step \in [Requests -> {"idle"} \cup StreamSteps \cup LateSteps \cup Ends]
  /\ question = [r \in Requests |-> question[r]]
  /\ retries \subseteq Requests
  /\ route \in [Requests -> Routes]
  /\ served \in [Requests -> Requests \cup {Nobody}]
  /\ exact \in [Questions -> Requests \cup {Nobody}]
  /\ semantic \subseteq Requests

\* Nothing will change what e asked or how it was answered any more.
Fixed(e) == step[e] \in {"cachingExact", "cachingSemantic", "done", "lost"}

\* e was a plain question answered by the model.
Sound(e) == Fixed(e) /\ Cacheable(e)

CacheInv ==
  /\ \A r \in Requests : step[r] \in {"cachingExact", "cachingSemantic"} => Cacheable(r)
  /\ \A e \in semantic : Sound(e)
  /\ \A q \in Questions : exact[q] # Nobody => Sound(exact[q]) /\ Similar(q, question[exact[q]])
  /\ \A r \in Requests : served[r] # Nobody =>
       /\ step[r] \in {"promoting", "served", "lost"}
       /\ Sound(served[r])
       /\ Similar(question[r], question[served[r]])

\* A plain request has a question; only plain requests look into the caches.
HasAsked == \A r \in Requests :
              /\ r \notin retries /\ step[r] # "idle" => question[r] \in Questions
              /\ step[r] \in RetrySteps => r \in retries
              /\ step[r] = "lookingUp" => r \notin retries

Inv == CacheTypes /\ HasAsked /\ CacheInv

LEMMA InvInit == Init => Inv
BY DEF Init, Inv, CacheTypes, HasAsked, CacheInv, Routes, RetrySteps

AtServed(r) == step[r] \in {"promoting", "served", "lost"}

\* A step that disturbs no cached and no served answer.
Stable ==
  /\ CacheTypes'
  /\ \A r \in Requests : Sound(r) => Sound(r)' /\ question'[r] = question[r]
  /\ \A r \in Requests : AtServed(r) => AtServed(r)' /\ question'[r] = question[r]
  /\ \A r \in Requests : step'[r] \in {"cachingExact", "cachingSemantic"}
                           => Cacheable(r)'

\* An answer that may be served for question q.
Fits(q, e) == e \in Requests /\ Sound(e) /\ Similar(q, question[e])

\* The step serves r with an answer that fits.
Served(r) == /\ AtServed(r)'
             /\ question'[r] = question[r]
             /\ \E e \in Requests : served'[r] = e /\ Fits(question[r], e)

LEMMA StaysFit ==
  ASSUME Inv, Stable, NEW q, NEW e, Fits(q, e)
  PROVE  Fits(q, e)'
<1>1. e \in Requests /\ Sound(e) /\ Similar(q, question[e])
  BY DEF Fits
<1>2. Sound(e)' /\ question'[e] = question[e]
  BY <1>1 DEF Stable
<1> QED BY <1>1, <1>2 DEF Fits, Similar

\* What a step has to show for the answers it caches or serves.
LEMMA StableKeepsInv ==
  ASSUME Inv, Stable,
         \A e \in semantic' : e \in semantic \/ Sound(e)',
         \A q \in Questions : exact'[q] \in {exact[q], Nobody}
                                \/ \E e \in Requests : exact'[q] = e /\ Fits(q, e)',
         \A r \in Requests : served'[r] = served[r] \/ Served(r)
  PROVE  CacheTypes' /\ CacheInv'
<1>1. CacheTypes'
  BY DEF Stable
<1>2. \A e \in semantic' : Sound(e)'
  BY DEF Inv, CacheTypes, CacheInv, Stable
<1>3. ASSUME NEW q \in Questions, exact'[q] # Nobody
      PROVE  Sound(exact[q])' /\ Similar(q, question[exact[q]])'
  <2>1. CASE \E e \in Requests : exact'[q] = e /\ Fits(q, e)'
    BY <2>1 DEF Fits
  <2>2. CASE exact'[q] = exact[q]
    <3>1. Fits(q, exact[q])
      BY <1>3, <2>2 DEF Inv, CacheTypes, CacheInv, Fits
    <3>2. Fits(q, exact[q])'
      <4> DEFINE e == exact[q]
      <4>1. Fits(q, e)
        BY <3>1
      <4> HIDE DEF e
      <4>2. Fits(q, e)'
        BY <4>1, StaysFit, <2>2 DEF e
      <4> QED BY <4>2, <2>2 DEF e
    <3> QED BY <3>2 DEF Fits
  <2> QED BY <1>3, <2>1, <2>2
<1>4. ASSUME NEW r \in Requests, served'[r] # Nobody
      PROVE  /\ step'[r] \in {"promoting", "served", "lost"}
             /\ Sound(served[r])'
             /\ Similar(question[r], question[served[r]])'
  <2>1. CASE Served(r)
    <3>1. PICK e \in Requests : served'[r] = e /\ Fits(question[r], e)
      BY <2>1 DEF Served
    <3>2. Sound(e)' /\ question'[e] = question[e]
      BY <3>1 DEF Fits, Stable
    <3> QED BY <2>1, <3>1, <3>2 DEF Served, AtServed, Fits, Similar
  <2>2. CASE served'[r] = served[r]
    <3>1. AtServed(r) /\ Fits(question[r], served[r])
      BY <1>4, <2>2 DEF Inv, CacheTypes, CacheInv, Fits, AtServed
    <3>2. AtServed(r)' /\ question'[r] = question[r]
      BY <3>1 DEF Stable
    <3>3. /\ Sound(served[r])'
          /\ question'[served[r]] = question[served[r]]
      BY <2>2, <3>1 DEF Fits, Stable
    <3> QED BY <2>2, <3>1, <3>2, <3>3 DEF Fits, AtServed, Similar
  <2> QED BY <1>4, <2>1, <2>2
<1>5. \A r \in Requests : step'[r] \in {"cachingExact", "cachingSemantic"}
                            => Cacheable(r)'
  BY DEF Stable
<1> QED BY <1>1, <1>2, <1>3, <1>4, <1>5 DEF CacheInv

\* A stable step that serves nothing and adds nothing to the caches.
Calm == /\ Stable
        /\ UNCHANGED served
        /\ semantic' \subseteq semantic
        /\ \A q \in Questions : exact'[q] \in {exact[q], Nobody}

LEMMA CalmKeepsInv == Inv /\ Calm => CacheTypes' /\ CacheInv'
<1> SUFFICES ASSUME Inv, Calm PROVE CacheTypes' /\ CacheInv'
  OBVIOUS
<1>1. /\ Stable
      /\ \A e \in semantic' : e \in semantic
      /\ \A q \in Questions : exact'[q] \in {exact[q], Nobody}
      /\ \A r \in Requests : served'[r] = served[r]
  BY DEF Calm
<1> QED BY <1>1, StableKeepsInv

LEMMA ClientCalm ==
  ASSUME Inv, NEW r \in Requests, Send(r) \/ Retry(r) \/ Rate(r)
  PROVE  Calm
<1> USE DEF Inv, CacheTypes, CacheInv, Calm, Stable, StepTo, Sound, Fixed,
            AtServed, Cacheable
<1>1. CASE Send(r)
  BY <1>1 DEF Send, cacheVars, StreamSteps
<1>2. CASE Retry(r)
  BY <1>2 DEF Retry, cacheVars, StreamSteps, RetrySteps, Ends
<1>3. CASE Rate(r)
  BY <1>3 DEF Rate, cacheVars, turnVars
<1> QED BY <1>1, <1>2, <1>3

LEMMA RetryCalm ==
  ASSUME Inv, NEW r \in Requests, RetryStep(r)
  PROVE  Calm
<1> USE DEF Inv, CacheTypes, CacheInv, Calm, Stable, StepTo, Sound, Fixed,
            AtServed, Cacheable, StreamSteps, RetrySteps, Ends
<1>1. CASE DropAnswer(r)
  BY <1>1 DEF DropAnswer, cacheVars, turnVars
<1>2. CASE FindQuestion(r)
  BY <1>2 DEF FindQuestion, cacheVars
<1>3. CASE ClearExact(r)
  BY <1>3 DEF ClearExact, ExactTo, turnVars
<1>4. CASE ClearSemantic(r)
  BY <1>4 DEF ClearSemantic, WipeSemantic, turnVars
<1>5. CASE DropQuestion(r)
  BY <1>5 DEF DropQuestion, cacheVars, turnVars
<1> QED BY <1>1, <1>2, <1>3, <1>4, <1>5 DEF RetryStep

LEMMA FeedbackCalm ==
  ASSUME Inv, NEW r \in Requests, BlameStep(r)
  PROVE  Calm
<1> USE DEF Inv, CacheTypes, CacheInv, Calm, Stable, Sound, Fixed, AtServed,
            Cacheable, turnVars
<1>1. CASE FindBlamed(r)
  BY <1>1 DEF FindBlamed, cacheVars
<1>2. CASE ClearBlamedExact(r)
  BY <1>2 DEF ClearBlamedExact, ExactTo
<1>3. CASE ClearBlamedSemantic(r)
  BY <1>3 DEF ClearBlamedSemantic, WipeSemantic
<1> QED BY <1>1, <1>2, <1>3 DEF BlameStep

LEMMA DocumentCalm ==
  ASSUME Inv, NEW d \in Docs, Store(d) \/ Delete(d) \/ Flush(d) \/ Note(d)
  PROVE  Calm
<1> USE DEF Inv, CacheTypes, CacheInv, Calm, Stable, Sound, Fixed, AtServed,
            Cacheable, turnVars, cacheVars
<1>1. CASE Store(d) \/ Delete(d)
  BY <1>1 DEF Store, Delete
<1>2. CASE Flush(d)
  BY <1>2 DEF Flush, WipeSemantic
<1>3. CASE Note(d)
  BY <1>3 DEF Note
<1> QED BY <1>1, <1>2, <1>3

LEMMA EnvironmentCalm ==
  ASSUME Inv, Expire \/ Crash \/ UNCHANGED vars
  PROVE  Calm
<1> USE DEF Inv, CacheTypes, CacheInv, Calm, Stable, Sound, Fixed, AtServed,
            Cacheable
<1>1. CASE Expire
  BY <1>1 DEF Expire, turnVars
<1>2. CASE Crash
  BY <1>2 DEF Crash, cacheVars, Streaming, StreamSteps, RetrySteps, LateSteps, Ends
<1>3. CASE UNCHANGED vars
  BY <1>3 DEF vars, turnVars, cacheVars
<1> QED BY <1>1, <1>2, <1>3

\* The steps of handleChat that neither serve nor cache.
LEMMA ChatCalm ==
  ASSUME Inv, NEW r \in Requests,
         \/ Limit(r) \/ Ask(r) \/ Load(r) \/ Route(r)
         \/ Retrieve(r) \/ Generate(r) \/ Save(r)
  PROVE  Calm
<1> USE DEF Inv, CacheTypes, CacheInv, Calm, Stable, StepTo, Sound, Fixed,
            AtServed, Cacheable, StreamSteps, LateSteps, Ends, Routes
<1>1. CASE Limit(r) \/ Ask(r)
  BY <1>1 DEF Limit, Ask, cacheVars, turnVars
<1>2. CASE Load(r)
  BY <1>2 DEF Load, cacheVars
<1>3. CASE Route(r)
  BY <1>3 DEF Route, cacheVars
<1>4. CASE Retrieve(r)
  BY <1>4 DEF Retrieve, cacheVars
<1>5. CASE Generate(r)
  BY <1>5 DEF Generate, cacheVars
<1>6. CASE Save(r)
  BY <1>6 DEF Save, cacheVars, turnVars
<1> QED BY <1>1, <1>2, <1>3, <1>4, <1>5, <1>6


\* The steps of handleChat that serve an answer or cache one.
LEMMA LookUpKeepsInv ==
  ASSUME Inv, NEW r \in Requests, LookUp(r)
  PROVE  CacheTypes' /\ CacheInv'
<1>1. /\ step[r] = "lookingUp" /\ step' \in {[step EXCEPT ![r] = "served"],
                                             [step EXCEPT ![r] = "loading"]}
      /\ UNCHANGED <<question, retries, route, exact, semantic>>
      /\ \/ served' = served
         \/ /\ served' = [served EXCEPT ![r] = exact[question[r]]]
            /\ exact[question[r]] # Nobody
            /\ step'[r] = "served"
  BY DEF LookUp, StepTo, cacheVars, Inv, CacheTypes
<1>2. question[r] \in Questions
  BY <1>1 DEF Inv, HasAsked
<1>3. Stable
  BY <1>1, <1>2 DEF Stable, Inv, CacheTypes, CacheInv, Sound, Fixed, AtServed,
                    Cacheable, StreamSteps, Ends
<1>4. ASSUME NEW s \in Requests, served'[s] # served[s] PROVE Served(s)
  <2>1. /\ s = r /\ served'[r] = exact[question[r]] /\ step'[r] = "served"
        /\ exact[question[r]] # Nobody
    BY <1>1, <1>4 DEF Inv, CacheTypes
  <2>2. exact[question[r]] \in Requests /\ Fits(question[r], exact[question[r]])
    BY <1>2, <2>1 DEF Inv, CacheTypes, CacheInv, Fits
  <2> QED BY <1>1, <2>1, <2>2 DEF Served, AtServed
<1> QED BY <1>1, <1>3, <1>4, StableKeepsInv

LEMMA MatchKeepsInv ==
  ASSUME Inv, NEW r \in Requests, Match(r)
  PROVE  CacheTypes' /\ CacheInv'
<1>1. /\ step[r] = "matching"
      /\ UNCHANGED <<question, retries, route, exact, semantic>>
      /\ \/ /\ step' = [step EXCEPT ![r] = "routing"]
            /\ served' = served
         \/ /\ step' = [step EXCEPT ![r] = "promoting"]
            /\ \E S \in SUBSET semantic : \E e \in Best(question[r], S) :
                 served' = [served EXCEPT ![r] = e]
  BY DEF Match, Seen, StepTo, cacheVars
<1>2. \A S \in SUBSET semantic : \A e \in Best(question[r], S) : Fits(question[r], e)
  BY DEF Best, Similar, Fits, Inv, CacheTypes, CacheInv
<1>3. Stable
  <2>1. CacheTypes'
    BY <1>1, <1>2 DEF Inv, CacheTypes, Fits, StreamSteps, LateSteps
  <2> QED BY <1>1, <2>1 DEF Stable, Inv, CacheTypes, CacheInv, Sound, Fixed,
                            AtServed, Cacheable
<1>4. ASSUME NEW s \in Requests, served'[s] # served[s] PROVE Served(s)
  <2>1. PICK S \in SUBSET semantic : \E e \in Best(question[r], S) : s = r /\ served'[r] = e
    BY <1>1, <1>4 DEF Inv, CacheTypes
  <2>2. step'[r] = "promoting"
    BY <1>1, <1>4, <2>1 DEF Inv, CacheTypes
  <2> QED BY <1>1, <1>2, <2>1, <2>2 DEF Served, AtServed, Fits
<1> QED BY <1>1, <1>3, <1>4, StableKeepsInv

LEMMA CachingKeepsInv ==
  ASSUME Inv, NEW r \in Requests,
         Promote(r) \/ CacheExact(r) \/ CacheSemantic(r)
  PROVE  CacheTypes' /\ CacheInv'
<1>1. UNCHANGED <<question, retries, route, served>>
  BY DEF Promote, CacheExact, CacheSemantic, turnVars
<1>2. CASE Promote(r)
  <2>1. /\ step[r] = "promoting" /\ step' = [step EXCEPT ![r] = "served"]
        /\ semantic' = semantic
        /\ exact' = [exact EXCEPT ![question[r]] = served[r]] \/ exact' = exact
    BY <1>2 DEF Promote, StepTo, ExactTo
  <2>2. served[r] # Nobody => Fits(question[r], served[r])
    BY DEF Inv, CacheTypes, CacheInv, Fits
  <2>3. Stable
    BY <1>1, <2>1 DEF Stable, Inv, CacheTypes, CacheInv, Sound, Fixed, AtServed,
                      Cacheable, Ends
  <2>4. ASSUME NEW q \in Questions, exact'[q] \notin {exact[q], Nobody}
        PROVE  \E e \in Requests : exact'[q] = e /\ Fits(q, e)'
    <3>1. q = question[r] /\ exact'[q] = served[r] /\ served[r] \in Requests
      BY <2>1, <2>4 DEF Inv, CacheTypes
    <3>2. Fits(q, served[r])
      BY <2>2, <2>4, <3>1
    <3> QED BY <1>1, <2>3, <3>1, <3>2 DEF Fits, Stable
  <2> QED BY <1>1, <2>1, <2>3, <2>4, StableKeepsInv
<1>3. CASE CacheExact(r)
  <2>1. /\ step[r] = "cachingExact" /\ step' = [step EXCEPT ![r] = "cachingSemantic"]
        /\ semantic' = semantic
        /\ exact' = [exact EXCEPT ![question[r]] = r] \/ exact' = exact
    BY <1>3 DEF CacheExact, StepTo, ExactTo
  <2>2. Fits(question[r], r)
    BY <2>1 DEF Inv, CacheInv, Fits, Sound, Fixed, Similar
  <2>3. Stable
    BY <1>1, <2>1 DEF Stable, Inv, CacheTypes, CacheInv, Sound, Fixed, AtServed,
                      Cacheable, LateSteps
  <2>4. ASSUME NEW q \in Questions, exact'[q] \notin {exact[q], Nobody}
        PROVE  \E e \in Requests : exact'[q] = e /\ Fits(q, e)'
    <3>1. q = question[r] /\ exact'[q] = r
      BY <2>1, <2>4 DEF Inv, CacheTypes
    <3> QED BY <1>1, <2>2, <2>3, <3>1 DEF Fits, Stable
  <2> QED BY <1>1, <2>1, <2>3, <2>4, StableKeepsInv
<1>4. CASE CacheSemantic(r)
  <2>1. /\ step[r] = "cachingSemantic" /\ step' = [step EXCEPT ![r] = "done"]
        /\ exact' = exact
        /\ semantic' \in {semantic \cup {r}, semantic}
    BY <1>4 DEF CacheSemantic, StepTo
  <2>2. Sound(r)
    BY <2>1 DEF Inv, CacheInv, Sound, Fixed
  <2>3. Stable
    BY <1>1, <2>1 DEF Stable, Inv, CacheTypes, CacheInv, Sound, Fixed, AtServed,
                      Cacheable, Ends
  <2>4. ASSUME NEW e \in semantic', e \notin semantic PROVE Sound(e)'
    BY <2>1, <2>2, <2>3, <2>4 DEF Stable
  <2> QED BY <1>1, <2>1, <2>3, <2>4, StableKeepsInv
<1> QED BY <1>2, <1>3, <1>4

LEMMA AskedStep == Inv /\ [Next]_vars => HasAsked'
<1> SUFFICES ASSUME Inv, [Next]_vars PROVE HasAsked'
  OBVIOUS
<1> USE DEF Inv, CacheTypes, HasAsked, StepTo, RetrySteps
<1>1. ASSUME NEW r \in Requests, Send(r) \/ Retry(r) \/ Rate(r) PROVE HasAsked'
  BY <1>1 DEF Send, Retry, Rate, turnVars
<1>2. ASSUME NEW r \in Requests, RetryStep(r) PROVE HasAsked'
  <2>1. CASE DropAnswer(r) \/ DropQuestion(r)
    BY <2>1 DEF DropAnswer, DropQuestion, turnVars
  <2>2. CASE FindQuestion(r)
    BY <2>2 DEF FindQuestion
  <2>3. CASE ClearExact(r) \/ ClearSemantic(r)
    BY <2>3 DEF ClearExact, ClearSemantic, turnVars
  <2> QED BY <1>2, <2>1, <2>2, <2>3 DEF RetryStep
<1>3. ASSUME NEW r \in Requests, Limit(r) \/ Ask(r) \/ LookUp(r) \/ Load(r)
      PROVE  HasAsked'
  BY <1>3 DEF Limit, Ask, LookUp, Load, turnVars
<1>4. ASSUME NEW r \in Requests, Match(r) \/ Promote(r) \/ Route(r) \/ Retrieve(r)
      PROVE  HasAsked'
  BY <1>4 DEF Match, Promote, Route, Retrieve, turnVars
<1>5. ASSUME NEW r \in Requests,
             Generate(r) \/ Save(r) \/ CacheExact(r) \/ CacheSemantic(r)
      PROVE  HasAsked'
  BY <1>5 DEF Generate, Save, CacheExact, CacheSemantic, turnVars
<1>6. ASSUME NEW r \in Requests, BlameStep(r) PROVE HasAsked'
  BY <1>6 DEF BlameStep, FindBlamed, ClearBlamedExact, ClearBlamedSemantic, turnVars
<1>7. ASSUME NEW d \in Docs, Store(d) \/ Delete(d) \/ Flush(d) \/ Note(d)
      PROVE  HasAsked'
  BY <1>7 DEF Store, Delete, Flush, Note, turnVars
<1>8. CASE Expire
  BY <1>8 DEF Expire, turnVars
<1>9. CASE Crash
  BY <1>9 DEF Crash, Streaming, StreamSteps, LateSteps
<1>10. CASE UNCHANGED vars
  BY <1>10 DEF vars, turnVars
<1> QED BY <1>1, <1>2, <1>3, <1>4, <1>5, <1>6, <1>7, <1>8, <1>9, <1>10
        DEF Next, ChatStep

LEMMA InvStep == Inv /\ [Next]_vars => Inv'
<1> SUFFICES ASSUME Inv, [Next]_vars PROVE CacheTypes' /\ CacheInv'
  BY AskedStep DEF Inv
<1>1. ASSUME NEW r \in Requests, Send(r) \/ Retry(r) \/ Rate(r)
      PROVE  CacheTypes' /\ CacheInv'
  BY <1>1, ClientCalm, CalmKeepsInv
<1>2. ASSUME NEW r \in Requests, RetryStep(r) PROVE CacheTypes' /\ CacheInv'
  BY <1>2, RetryCalm, CalmKeepsInv
<1>3. ASSUME NEW r \in Requests, ChatStep(r) PROVE CacheTypes' /\ CacheInv'
  <2>1. CASE \/ Limit(r) \/ Ask(r) \/ Load(r) \/ Route(r)
             \/ Retrieve(r) \/ Generate(r) \/ Save(r)
    BY <2>1, ChatCalm, CalmKeepsInv
  <2>2. CASE LookUp(r)
    BY <2>2, LookUpKeepsInv
  <2>3. CASE Match(r)
    BY <2>3, MatchKeepsInv
  <2>4. CASE Promote(r) \/ CacheExact(r) \/ CacheSemantic(r)
    BY <2>4, CachingKeepsInv
  <2> QED BY <1>3, <2>1, <2>2, <2>3, <2>4 DEF ChatStep
<1>4. ASSUME NEW r \in Requests, BlameStep(r) PROVE CacheTypes' /\ CacheInv'
  BY <1>4, FeedbackCalm, CalmKeepsInv
<1>5. ASSUME NEW d \in Docs, Store(d) \/ Delete(d) \/ Flush(d) \/ Note(d)
      PROVE  CacheTypes' /\ CacheInv'
  BY <1>5, DocumentCalm, CalmKeepsInv
<1>6. CASE Expire \/ Crash \/ UNCHANGED vars
  BY <1>6, EnvironmentCalm, CalmKeepsInv
<1> QED BY <1>1, <1>2, <1>3, <1>4, <1>5, <1>6 DEF Next

LEMMA SpecInv == Spec => []Inv
BY InvInit, InvStep, PTL DEF Spec

\* The caches hold answers the model gave to plain questions and nothing
\* else (ChatService.postProcess), whatever fails and however late a callback
\* runs.
THEOREM CachesHoldAnswers == Spec => []CannedNeverCached
<1>1. Inv => CannedNeverCached
  <2> SUFFICES ASSUME Inv, NEW e \in Requests, Cached(e)
               PROVE  /\ route[e] \in {"RAG_QUERY", "GREETING"}
                      /\ e \notin retries
    BY DEF CannedNeverCached
  <2>1. Nobody \notin Requests
    OBVIOUS
  <2>2. Sound(e)
    BY <2>1 DEF Inv, CacheInv, Cached
  <2> QED BY <2>2 DEF Sound, Cacheable
<1> QED BY <1>1, SpecInv, PTL

\* Every answer from a cache fits the question it is served for, also after
\* any number of promotions (ChatService.handleChat, steps 4 and 7).
THEOREM CachesServeLikeQuestions == Spec => []ServedForLikeQuestion
<1>1. Inv => ServedForLikeQuestion
  BY DEF Inv, CacheInv, ServedForLikeQuestion
<1> QED BY <1>1, SpecInv, PTL
-----------------------------------------------------------------------------
(* Types.                                                                  *)

LEMMA Smallest == ASSUME NEW I \in SUBSET Nat, I # {}
                  PROVE  \E i \in I : \A j \in I : i <= j
<1>1. PICK i \in I : \A j \in I : <<j, i>> \notin OpToRel(<, Nat)
  BY NatLessThanWellFounded, WFMin
<1>2. \A j \in I : ~(j < i)
  BY <1>1 DEF OpToRel
<1> QED BY <1>2

LEMMA NewestIsThere ==
  ASSUME NEW n \in Nat, NEW I \in SUBSET (1..n), I # {}
  PROVE  Newest(I) \in I /\ \A j \in I : j <= Newest(I)
<1> DEFINE J == {n - i : i \in I}
<1>1. J \in SUBSET Nat
  OBVIOUS
<1>2. J # {}
  OBVIOUS
<1>3. PICK m \in J : \A j \in J : m <= j
  <2> HIDE DEF J
  <2> QED BY <1>1, <1>2, Smallest
<1>4. PICK i \in I : m = n - i
  OBVIOUS
<1>5. \A j \in I : n - j \in J
  OBVIOUS
<1>6. ASSUME NEW j \in I PROVE j <= i
  <2>1. m <= n - j
    <3> HIDE DEF J
    <3> QED BY <1>3, <1>5
  <2> QED BY <1>4, <2>1
<1> QED BY <1>6 DEF Newest

LEMMA RemovedIsSeq ==
  ASSUME NEW S, NEW s \in Seq(S), NEW i \in DOMAIN s
  PROVE  /\ RemoveAt(s, i) \in Seq(S)
         /\ Len(RemoveAt(s, i)) = Len(s) - 1
         /\ \A j \in DOMAIN RemoveAt(s, i) :
              RemoveAt(s, i)[j] = IF j < i THEN s[j] ELSE s[j + 1]
<1> DEFINE u == SubSeq(s, 1, i - 1)
           v == SubSeq(s, i + 1, Len(s))
<1>1. Len(s) \in Nat /\ i \in 1..Len(s)
  OBVIOUS
<1>2. /\ u \in Seq(S) /\ Len(u) = i - 1
      /\ \A j \in 1..(i - 1) : u[j] = s[j]
  BY <1>1
<1>3. /\ v \in Seq(S) /\ Len(v) = Len(s) - i
      /\ \A j \in 1..(Len(s) - i) : v[j] = s[i + j]
  BY <1>1
<1> HIDE DEF u, v
<1>4. /\ u \o v \in Seq(S) /\ Len(u \o v) = Len(s) - 1
      /\ \A j \in 1..(i - 1) : (u \o v)[j] = s[j]
  BY <1>1, <1>2, <1>3
<1>5. ASSUME NEW j \in i..(Len(s) - 1) PROVE (u \o v)[j] = s[j + 1]
  <2>1. (u \o v)[j] = v[j - (i - 1)] /\ j - (i - 1) \in 1..(Len(s) - i)
    BY <1>1, <1>2, <1>3
  <2> QED BY <1>1, <1>3, <2>1
<1>6. DOMAIN (u \o v) = 1..(Len(s) - 1)
  BY <1>4
<1>7. ASSUME NEW j \in 1..(Len(s) - 1)
      PROVE  (u \o v)[j] = IF j < i THEN s[j] ELSE s[j + 1]
  <2>1. CASE j < i
    <3>1. j \in 1..(i - 1)
      BY <1>1, <2>1
    <3> QED BY <1>4, <2>1, <3>1
  <2>2. CASE ~(j < i)
    <3>1. j \in i..(Len(s) - 1)
      BY <1>1, <2>2
    <3> QED BY <1>5, <2>2, <3>1
  <2> QED BY <2>1, <2>2
<1>8. RemoveAt(s, i) = u \o v
  BY DEF RemoveAt, u, v
<1> QED BY <1>4, <1>6, <1>7, <1>8

LEMMA NewestMessage ==
  ASSUME messages \in Seq(Message), NEW role, At(role) # {}
  PROVE  /\ Newest(At(role)) \in DOMAIN messages
         /\ messages[Newest(At(role))][1] = role
         /\ messages[Newest(At(role))] \in Message
<1>1. At(role) \in SUBSET (1..Len(messages)) /\ Len(messages) \in Nat
  BY DEF At
<1>2. Newest(At(role)) \in At(role)
  BY <1>1, NewestIsThere
<1> QED BY <1>2 DEF At

LEMMA Messages ==
  /\ \A r \in Requests : <<"user", r>> \in Message /\ <<"assistant", r>> \in Message
  /\ \A d \in Docs : <<"system", d>> \in Message
  /\ \A m \in Message : m[1] \in {"user", "assistant"} => m[2] \in Requests
BY DEF Message

LEMMA DroppedIsSeq ==
  ASSUME messages \in Seq(Message), NEW m, Drop(m)
  PROVE  messages' \in Seq(Message)
BY RemovedIsSeq DEF Drop

LEMMA WindowIsSeq ==
  ASSUME messages \in Seq(Message) PROVE SlidingWindow \in Seq(Message)
<1>1. Len(messages) \in Nat /\ Window \in Nat \ {0}
  BY ChatAssumption
<1>2. CASE Len(messages) <= Window
  BY <1>2 DEF SlidingWindow
<1>3. CASE ~(Len(messages) <= Window)
  <2> DEFINE a == Len(messages) - Window + 1
  <2>1. a \in 1..Len(messages)
    BY <1>1, <1>3
  <2> HIDE DEF a
  <2>2. SubSeq(messages, a, Len(messages)) \in Seq(Message)
    BY <1>1, <2>1
  <2> QED BY <1>3, <2>2 DEF SlidingWindow, a
<1> QED BY <1>2, <1>3

LEMMA TypeInit == Init => TypeOK
BY DEF Init, TypeOK, Routes

LEMMA RetryTypes ==
  ASSUME TypeOK, NEW r \in Requests, Send(r) \/ Retry(r) \/ Rate(r) \/ RetryStep(r)
  PROVE  TypeOK'
<1> USE DEF TypeOK, StepTo, turnVars, cacheVars, blameVars, StreamSteps, RetrySteps,
            LateSteps, Ends, BlameSteps
<1>1. CASE Send(r)
  BY <1>1 DEF Send
<1>2. CASE Retry(r)
  <2>1. At("assistant") # {} => messages[Newest(At("assistant"))][2] \in Requests
    BY NewestMessage, Messages
  <2> QED BY <1>2, <2>1 DEF Retry
<1>3. CASE Rate(r)
  BY <1>3 DEF Rate
<1>4. CASE DropAnswer(r)
  BY <1>4, DroppedIsSeq DEF DropAnswer
<1>5. CASE FindQuestion(r)
  <2> DEFINE u == messages[Newest(At("user"))][2]
  <2>1. At("user") # {} => u \in Requests
    BY NewestMessage, Messages
  <2>2. /\ target' \in [Requests -> Requests \cup {Nobody}]
        /\ question' \in [Requests -> Questions \cup {Nobody}]
    <3>1. CASE /\ u \in Requests
               /\ target' = [target EXCEPT ![r] = u]
               /\ question' = [question EXCEPT ![r] = question[u]]
      <4>1. question[u] \in Questions \cup {Nobody}
        BY <3>1
      <4> HIDE DEF u
      <4> QED BY <3>1, <4>1
    <3>2. CASE UNCHANGED <<target, question>>
      BY <3>2
    <3> QED BY <1>5, <2>1, <3>1, <3>2 DEF FindQuestion
  <2>3. UNCHANGED <<retries, dropped, window, route, grounds, served, messages,
                    cacheVars, blameVars, doc>>
    BY <1>5 DEF FindQuestion
  <2>4. step' \in [Requests -> {"idle"} \cup StreamSteps \cup LateSteps \cup Ends]
    <3>1. step' \in {[step EXCEPT ![r] = "clearingExact"], [step EXCEPT ![r] = "failed"]}
      BY <1>5 DEF FindQuestion
    <3>2. step \in [Requests -> {"idle"} \cup StreamSteps \cup LateSteps \cup Ends]
      OBVIOUS
    <3> QED BY <3>1, <3>2
  <2> HIDE DEF u
  <2> QED BY <2>2, <2>3, <2>4
<1>6. CASE ClearExact(r)
  BY <1>6 DEF ClearExact, ExactTo
<1>7. CASE ClearSemantic(r)
  BY <1>7 DEF ClearSemantic, WipeSemantic
<1>8. CASE DropQuestion(r)
  BY <1>8, DroppedIsSeq DEF DropQuestion
<1> QED BY <1>1, <1>2, <1>3, <1>4, <1>5, <1>6, <1>7, <1>8 DEF RetryStep

\* An action that takes r to one of the steps.
LEMMA StepTyped ==
  ASSUME TypeOK, NEW r \in Requests, NEW from, NEW to,
         to \in {"idle"} \cup StreamSteps \cup LateSteps \cup Ends, StepTo(r, from, to)
  PROVE  step' \in [Requests -> {"idle"} \cup StreamSteps \cup LateSteps \cup Ends]
BY DEF TypeOK, StepTo

LEMMA ChatTypes ==
  ASSUME Inv, TypeOK, NEW r \in Requests, ChatStep(r)
  PROVE  TypeOK'
<1> DEFINE AllSteps == {"idle"} \cup StreamSteps \cup LateSteps \cup Ends
<1> USE DEF turnVars, cacheVars, blameVars
<1>0. /\ \A to \in {"limiting", "asking", "lookingUp", "loading", "matching", "routing",
                    "retrieving", "generating", "promoting", "saving", "cachingExact",
                    "cachingSemantic", "done", "served", "failed"} :
           to \in {"idle"} \cup StreamSteps \cup LateSteps \cup Ends
      /\ {"RAG_QUERY", "GREETING", "VIOLATION", "NO_CONTEXT", "EMPTY"} \subseteq Routes
  BY DEF StreamSteps, LateSteps, Ends, Routes
<1>1. step' \in [Requests -> {"idle"} \cup StreamSteps \cup LateSteps \cup Ends]
  BY <1>0, StepTyped
     DEF ChatStep, Limit, Ask, LookUp, Load, Match, Promote, Route, Retrieve, Generate,
         Save, CacheExact, CacheSemantic
<1>2. messages' \in Seq(Message)
  <2>1. /\ messages \in Seq(Message)
        /\ <<"user", r>> \in Message /\ <<"assistant", r>> \in Message
    BY Messages DEF TypeOK
  <2>2. \/ messages' = messages
        \/ messages' = Append(messages, <<"user", r>>)
        \/ messages' = Append(messages, <<"assistant", r>>)
    BY DEF ChatStep, Limit, Ask, LookUp, Load, Match, Promote, Route, Retrieve, Generate,
           Save, CacheExact, CacheSemantic
  <2>3. \A m \in Message : Append(messages, m) \in Seq(Message)
    BY <2>1
  <2> QED BY <2>1, <2>2, <2>3
<1>3. window' \in [Requests -> Seq(Message)]
  <2>1. /\ window \in [Requests -> Seq(Message)]
        /\ SlidingWindow \in Seq(Message) /\ <<>> \in Seq(Message)
    BY WindowIsSeq DEF TypeOK
  <2>2. \/ window' = window
        \/ window' = [window EXCEPT ![r] = SlidingWindow]
        \/ window' = [window EXCEPT ![r] = <<>>]
        \/ window' = [window EXCEPT ![r] = IF step'[r] = "saving" THEN <<>> ELSE @]
    BY DEF ChatStep, Limit, Ask, LookUp, Load, Match, Promote, Route, Retrieve, Generate,
           Save, CacheExact, CacheSemantic
  <2> QED BY <2>1, <2>2
<1>4. served' \in [Requests -> Requests \cup {Nobody}]
  <2>1. ASSUME NEW q, NEW S \in Seen PROVE Best(q, S) \subseteq Requests
    BY DEF TypeOK, Best, Seen
  <2>2. LookUp(r) => question[r] \in Questions
    BY DEF LookUp, StepTo, Inv, HasAsked
  <2>3. CASE LookUp(r)
    BY <2>2, <2>3 DEF LookUp, TypeOK
  <2>4. CASE Match(r)
    <3>1. served' = served \/ \E e \in Requests : served' = [served EXCEPT ![r] = e]
      <4>1. PICK S \in Seen :
                \/ \E e \in Best(question[r], S) : served' = [served EXCEPT ![r] = e]
                \/ served' = served
        BY <2>4 DEF Match
      <4>2. Best(question[r], S) \subseteq Requests
        BY <2>1
      <4> QED BY <4>1, <4>2
    <3> QED BY <3>1 DEF TypeOK
  <2>5. CASE ~LookUp(r) /\ ~Match(r)
    <3>1. served' = served
      BY <2>5 DEF ChatStep, Limit, Ask, Load, Promote, Route, Retrieve, Generate, Save,
                  CacheExact, CacheSemantic
    <3> QED BY <3>1 DEF TypeOK
  <2> QED BY <2>3, <2>4, <2>5
<1>5. route' \in [Requests -> Routes] /\ grounds' \in [Requests -> SUBSET Docs]
  <2>1. /\ route' = route \/ \E w \in Routes : route' = [route EXCEPT ![r] = w]
        /\ grounds' = grounds \/ \E D \in SUBSET Docs : grounds' = [grounds EXCEPT ![r] = D]
    <3>1. CASE Route(r) \/ Generate(r)
      BY <1>0, <3>1 DEF Route, Generate
    <3>2. CASE Retrieve(r)
      BY <1>0, <3>2 DEF Retrieve
    <3>3. CASE ~(Route(r) \/ Generate(r) \/ Retrieve(r))
      BY <3>3 DEF ChatStep, Limit, Ask, LookUp, Load, Match, Promote, Save,
                  CacheExact, CacheSemantic
    <3> QED BY <3>1, <3>2, <3>3
  <2>2. route' \in [Requests -> Routes]
    <3>1. route \in [Requests -> Routes]
      BY DEF TypeOK
    <3>2. CASE route' = route
      BY <3>1, <3>2
    <3>3. ASSUME NEW w \in Routes, route' = [route EXCEPT ![r] = w]
          PROVE  route' \in [Requests -> Routes]
      <4> HIDE <1>0
      <4> QED BY <3>1, <3>3
    <3> QED BY <2>1, <3>2, <3>3
  <2>3. grounds' \in [Requests -> SUBSET Docs]
    <3>1. grounds \in [Requests -> SUBSET Docs]
      BY DEF TypeOK
    <3>2. CASE grounds' = grounds
      BY <3>1, <3>2
    <3>3. ASSUME NEW D \in SUBSET Docs, grounds' = [grounds EXCEPT ![r] = D]
          PROVE  grounds' \in [Requests -> SUBSET Docs]
      BY <3>1, <3>3
    <3> QED BY <2>1, <3>2, <3>3
  <2> QED BY <2>2, <2>3
<1>6. exact' \in [Questions -> Requests \cup {Nobody}] /\ semantic' \subseteq Requests
  <2>1. CASE Promote(r)
    BY <2>1 DEF Promote, ExactTo, TypeOK
  <2>2. CASE CacheExact(r)
    BY <2>2 DEF CacheExact, ExactTo, TypeOK
  <2>3. CASE CacheSemantic(r)
    BY <2>3 DEF CacheSemantic, TypeOK
  <2>4. CASE ~(Promote(r) \/ CacheExact(r) \/ CacheSemantic(r))
    <3>1. exact' = exact /\ semantic' = semantic
      BY <2>4 DEF ChatStep, Limit, Ask, LookUp, Load, Match, Route, Retrieve, Generate, Save
    <3> QED BY <3>1 DEF TypeOK
  <2> QED BY <2>1, <2>2, <2>3, <2>4
<1>7. UNCHANGED <<question, retries, dropped, target, blame, blamed, doc>>
  BY DEF ChatStep, Limit, Ask, LookUp, Load, Match, Promote, Route, Retrieve,
         Generate, Save, CacheExact, CacheSemantic
<1> QED BY <1>1, <1>2, <1>3, <1>4, <1>5, <1>6, <1>7 DEF TypeOK

LEMMA FeedbackTypes ==
  ASSUME TypeOK, NEW r \in Requests, BlameStep(r)
  PROVE  TypeOK'
<1> USE DEF TypeOK, BlameTo, BlameSteps, turnVars, cacheVars
<1>1. CASE FindBlamed(r)
  <2> DEFINE answer == {i \in At("assistant") : messages[i][2] = r}
             asked == {i \in At("user") : \A j \in answer : i < j}
  <2>1. ASSUME asked # {} PROVE messages[Newest(asked)][2] \in Requests
    <3>1. asked \in SUBSET (1..Len(messages)) /\ Len(messages) \in Nat
      BY DEF At
    <3>2. Newest(asked) \in asked
      <4> HIDE DEF asked
      <4> QED BY <2>1, <3>1, NewestIsThere
    <3> QED BY <3>2, Messages DEF At
  <2>2. \/ /\ asked # {}
           /\ BlameTo(r, "finding", "clearingExact")
           /\ blamed' = [blamed EXCEPT ![r] = question[messages[Newest(asked)][2]]]
        \/ BlameTo(r, "finding", "ignored") /\ blamed' = blamed
    BY <1>1 DEF FindBlamed
  <2>3. UNCHANGED <<step, turnVars, messages, cacheVars, doc>>
    BY <1>1 DEF FindBlamed
  <2> HIDE DEF asked
  <2>4. CASE asked # {}
    <3>1. question[messages[Newest(asked)][2]] \in Questions \cup {Nobody}
      BY <2>1, <2>4
    <3> QED BY <2>2, <2>3, <3>1
  <2>5. CASE asked = {}
    BY <2>2, <2>3, <2>5
  <2> QED BY <2>4, <2>5
<1>2. CASE ClearBlamedExact(r)
  BY <1>2 DEF ClearBlamedExact, ExactTo
<1>3. CASE ClearBlamedSemantic(r)
  BY <1>3 DEF ClearBlamedSemantic, WipeSemantic
<1> QED BY <1>1, <1>2, <1>3 DEF BlameStep

LEMMA DocumentTypes ==
  ASSUME TypeOK, NEW d \in Docs, Store(d) \/ Delete(d) \/ Flush(d) \/ Note(d)
  PROVE  TypeOK'
<1> USE DEF TypeOK, turnVars, cacheVars, blameVars
<1>1. CASE Store(d) \/ Delete(d)
  BY <1>1 DEF Store, Delete
<1>2. CASE Flush(d)
  BY <1>2 DEF Flush, WipeSemantic
<1>3. CASE Note(d)
  <2>1. <<"system", d>> \in Message /\ messages \in Seq(Message)
    BY Messages
  <2>2. Append(messages, <<"system", d>>) \in Seq(Message)
    BY <2>1
  <2>3. messages' = Append(messages, <<"system", d>>) \/ messages' = messages
    BY <1>3 DEF Note
  <2>4. messages' \in Seq(Message)
    BY <2>1, <2>2, <2>3
  <2> QED BY <1>3, <2>4 DEF Note
<1> QED BY <1>1, <1>2, <1>3

LEMMA EnvironmentTypes ==
  ASSUME TypeOK, Expire \/ Crash \/ UNCHANGED vars
  PROVE  TypeOK'
<1> USE DEF TypeOK, turnVars, cacheVars, blameVars
<1>1. CASE Expire
  BY <1>1 DEF Expire
<1>2. CASE Crash
  <2>1. step' \in [Requests -> {"idle"} \cup StreamSteps \cup LateSteps \cup Ends]
    BY <1>2 DEF Crash, Ends
  <2>2. blame' \in [Requests -> {"none", "done", "ignored", "lost"} \cup BlameSteps]
    BY <1>2 DEF Crash
  <2>3. window' \in [Requests -> Seq(Message)] /\ doc' \in
          [Docs -> {"absent", "stored", "flushing", "noting", "deleted"}]
    BY <1>2 DEF Crash
  <2>4. UNCHANGED <<question, retries, dropped, target, route, grounds, served,
                    messages, cacheVars, blamed>>
    BY <1>2 DEF Crash
  <2> QED BY <2>1, <2>2, <2>3, <2>4
<1>3. CASE UNCHANGED vars
  BY <1>3 DEF vars
<1> QED BY <1>1, <1>2, <1>3

LEMMA TypeStep == Inv /\ TypeOK /\ [Next]_vars => TypeOK'
<1> SUFFICES ASSUME Inv, TypeOK, [Next]_vars PROVE TypeOK'
  OBVIOUS
<1>1. ASSUME NEW r \in Requests, Send(r) \/ Retry(r) \/ Rate(r) \/ RetryStep(r)
      PROVE  TypeOK'
  BY <1>1, RetryTypes
<1>2. ASSUME NEW r \in Requests, ChatStep(r) PROVE TypeOK'
  BY <1>2, ChatTypes
<1>3. ASSUME NEW r \in Requests, BlameStep(r) PROVE TypeOK'
  BY <1>3, FeedbackTypes
<1>4. ASSUME NEW d \in Docs, Store(d) \/ Delete(d) \/ Flush(d) \/ Note(d)
      PROVE  TypeOK'
  BY <1>4, DocumentTypes
<1>5. CASE Expire \/ Crash \/ UNCHANGED vars
  BY <1>5, EnvironmentTypes
<1> QED BY <1>1, <1>2, <1>3, <1>4, <1>5 DEF Next

\* Every variable of the session keeps its type: the history stays a sequence
\* of messages of this session's requests and documents however retries,
\* crashes and late callbacks interleave, and a retry takes a request out of
\* the newest message of a role (ChatService.handleRetry's findFirst).
THEOREM ChatTypeCorrect == Spec => []TypeOK
BY TypeInit, TypeStep, SpecInv, PTL DEF Spec

-----------------------------------------------------------------------------
(* The history.  Every message is there once; requests that have asked, and *)
(* documents that were deleted, do so only once.                           *)

\* Where a request may still change what it asks, or ask it.
Early == {"idle", "limiting", "asking"} \cup RetrySteps
Answered == {"cachingExact", "cachingSemantic", "done"}

Held == {messages[i] : i \in DOMAIN messages}

HistInv ==
  /\ \A i, j \in DOMAIN messages : messages[i] = messages[j] => i = j
  /\ \A r \in Requests : /\ <<"user", r>> \in Held => step[r] \notin Early
                         /\ <<"assistant", r>> \in Held => step[r] \in Answered
  /\ \A d \in Docs : <<"system", d>> \in Held => doc[d] = "deleted"

LEMMA AppendedHistory ==
  ASSUME messages \in Seq(Message), NEW m \in Message, messages' = Append(messages, m)
  PROVE  /\ Len(messages) \in Nat /\ DOMAIN messages = 1..Len(messages)
         /\ DOMAIN messages' = 1..(Len(messages) + 1)
         /\ \A i \in 1..Len(messages) : messages'[i] = messages[i]
         /\ messages'[Len(messages) + 1] = m
         /\ Held' = Held \cup {m}
<1>1. /\ Len(messages) \in Nat /\ DOMAIN messages = 1..Len(messages)
      /\ DOMAIN messages' = 1..(Len(messages) + 1)
      /\ \A i \in 1..Len(messages) : messages'[i] = messages[i]
      /\ messages'[Len(messages) + 1] = m
  OBVIOUS
<1>2. ASSUME NEW x \in Held' PROVE x \in Held \cup {m}
  <2>1. PICK i \in 1..(Len(messages) + 1) : x = messages'[i]
    BY <1>1, <1>2 DEF Held
  <2>2. i = Len(messages) + 1 \/ i \in 1..Len(messages)
    BY <1>1
  <2> QED BY <1>1, <2>1, <2>2 DEF Held
<1>3. ASSUME NEW x \in Held \cup {m} PROVE x \in Held'
  <2>1. CASE x = m
    <3>1. Len(messages) + 1 \in DOMAIN messages'
      BY <1>1
    <3> QED BY <1>1, <2>1, <3>1 DEF Held
  <2>2. CASE x \in Held
    <3>1. PICK i \in 1..Len(messages) : x = messages[i]
      BY <1>1, <2>2 DEF Held
    <3>2. i \in DOMAIN messages' /\ x = messages'[i]
      BY <1>1, <3>1
    <3> QED BY <3>2 DEF Held
  <2> QED BY <1>3, <2>1, <2>2
<1> QED BY <1>1, <1>2, <1>3

\* Where the message that is now at j was before that at i was removed.
Was(i, j) == IF j < i THEN j ELSE j + 1

LEMMA RemovedHistory ==
  ASSUME messages \in Seq(Message), NEW i \in DOMAIN messages,
         messages' = RemoveAt(messages, i)
  PROVE  /\ \A j \in DOMAIN messages' : /\ Was(i, j) \in DOMAIN messages \ {i}
                                        /\ messages'[j] = messages[Was(i, j)]
         /\ \A k \in DOMAIN messages \ {i} : \E j \in DOMAIN messages' : Was(i, j) = k
         /\ \A j, k \in DOMAIN messages' : j < k <=> Was(i, j) < Was(i, k)
<1>1. /\ Len(messages) \in Nat /\ DOMAIN messages = 1..Len(messages) /\ i \in 1..Len(messages)
      /\ messages' \in Seq(Message) /\ Len(messages') = Len(messages) - 1
      /\ \A j \in DOMAIN messages' : messages'[j] = messages[Was(i, j)]
  BY RemovedIsSeq DEF Was
<1>2. DOMAIN messages' = 1..(Len(messages) - 1)
  BY <1>1
<1>3. ASSUME NEW j \in DOMAIN messages' PROVE Was(i, j) \in DOMAIN messages \ {i}
  BY <1>1, <1>2 DEF Was
<1>4. ASSUME NEW k \in DOMAIN messages \ {i}
      PROVE  \E j \in DOMAIN messages' : Was(i, j) = k
  <2>1. CASE k < i
    <3>1. k \in DOMAIN messages' /\ Was(i, k) = k
      BY <1>1, <1>2, <2>1 DEF Was
    <3> QED BY <3>1
  <2>2. CASE ~(k < i)
    <3>1. k - 1 \in DOMAIN messages' /\ Was(i, k - 1) = k
      BY <1>1, <1>2, <2>2 DEF Was
    <3> QED BY <3>1
  <2> QED BY <2>1, <2>2
<1>5. ASSUME NEW j \in DOMAIN messages', NEW k \in DOMAIN messages'
      PROVE  j < k <=> Was(i, j) < Was(i, k)
  BY <1>1, <1>2 DEF Was
<1> QED BY <1>1, <1>3, <1>4, <1>5

LEMMA DroppedHeld ==
  ASSUME messages \in Seq(Message), HistInv, NEW m, Drop(m)
  PROVE  /\ Held' = Held \ {m}
         /\ \A i, j \in DOMAIN messages' : messages'[i] = messages'[j] => i = j
<1>1. PICK i \in DOMAIN messages : messages[i] = m /\ messages' = RemoveAt(messages, i)
  BY DEF Drop
<1>2. /\ \A j \in DOMAIN messages' : /\ Was(i, j) \in DOMAIN messages \ {i}
                                     /\ messages'[j] = messages[Was(i, j)]
      /\ \A k \in DOMAIN messages \ {i} : \E j \in DOMAIN messages' : Was(i, j) = k
      /\ \A j, k \in DOMAIN messages' : j < k <=> Was(i, j) < Was(i, k)
  BY <1>1, RemovedHistory
<1>3. \A k \in DOMAIN messages : messages[k] = m => k = i
  BY <1>1 DEF HistInv
<1>4. Held' = Held \ {m}
  <2>1. ASSUME NEW x \in Held' PROVE x \in Held \ {m}
    BY <1>2, <1>3, <2>1 DEF Held
  <2>2. ASSUME NEW x \in Held \ {m} PROVE x \in Held'
    <3>1. PICK k \in DOMAIN messages \ {i} : x = messages[k]
      BY <1>1, <2>2 DEF Held
    <3>2. PICK j \in DOMAIN messages' : Was(i, j) = k
      BY <1>2
    <3> QED BY <1>2, <3>1, <3>2 DEF Held
  <2> QED BY <2>1, <2>2
<1>5. ASSUME NEW j \in DOMAIN messages', NEW k \in DOMAIN messages', messages'[j] = messages'[k]
      PROVE  j = k
  <2>1. Was(i, j) = Was(i, k)
    BY <1>2, <1>5 DEF HistInv
  <2>2. j \in Nat /\ k \in Nat /\ i \in Nat
    <3>1. messages' \in Seq(Message)
      BY <1>1, RemovedIsSeq
    <3> QED BY <3>1
  <2> QED BY <2>1, <2>2 DEF Was
<1> QED BY <1>4, <1>5

\* A request that has asked, or has given up, is past changing its question.
Forward ==
  /\ \A r \in Requests :
       /\ step[r] \notin Early => /\ step'[r] \notin Early
                                  /\ question'[r] = question[r]
                                  /\ target'[r] = target[r]
                                  /\ r \in retries' <=> r \in retries
       /\ step[r] \in Answered => step'[r] \in Answered
  /\ \A d \in Docs : doc[d] = "deleted" => doc'[d] = "deleted"

LEMMA ForwardRequests ==
  ASSUME TypeOK, NEW r \in Requests, Send(r) \/ Retry(r) \/ RetryStep(r) \/ ChatStep(r)
  PROVE  Forward
<1> USE DEF TypeOK, Forward, StepTo, Early, RetrySteps, Answered, turnVars, cacheVars, blameVars
<1>1. CASE Send(r)
  BY <1>1 DEF Send
<1>2. CASE Retry(r)
  BY <1>2 DEF Retry
<1>3. CASE RetryStep(r)
  <2>1. CASE DropAnswer(r) \/ DropQuestion(r)
    BY <2>1 DEF DropAnswer, DropQuestion
  <2>2. CASE FindQuestion(r)
    BY <2>2 DEF FindQuestion
  <2>3. CASE ClearExact(r) \/ ClearSemantic(r)
    BY <2>3 DEF ClearExact, ClearSemantic
  <2> QED BY <1>3, <2>1, <2>2, <2>3 DEF RetryStep
<1>4. CASE ChatStep(r)
  <2>1. CASE Limit(r) \/ Ask(r) \/ LookUp(r) \/ Load(r)
    BY <2>1 DEF Limit, Ask, LookUp, Load
  <2>2. CASE Match(r) \/ Promote(r)
    BY <2>2 DEF Match, Promote
  <2>3. CASE Route(r) \/ Retrieve(r) \/ Generate(r)
    BY <2>3 DEF Route, Retrieve, Generate
  <2>4. CASE Save(r) \/ CacheExact(r) \/ CacheSemantic(r)
    BY <2>4 DEF Save, CacheExact, CacheSemantic
  <2> QED BY <1>4, <2>1, <2>2, <2>3, <2>4 DEF ChatStep
<1> QED BY <1>1, <1>2, <1>3, <1>4

LEMMA ForwardStep == TypeOK /\ [Next]_vars => Forward
<1> SUFFICES ASSUME TypeOK, [Next]_vars PROVE Forward
  OBVIOUS
<1> USE DEF TypeOK, Forward, turnVars, cacheVars
<1>1. ASSUME NEW r \in Requests, Send(r) \/ Retry(r) \/ RetryStep(r) \/ ChatStep(r)
      PROVE  Forward
  BY <1>1, ForwardRequests
<1>2. ASSUME NEW r \in Requests, Rate(r) \/ BlameStep(r) PROVE Forward
  BY <1>2 DEF Rate, BlameStep, FindBlamed, ClearBlamedExact, ClearBlamedSemantic
<1>3. ASSUME NEW d \in Docs, Store(d) \/ Delete(d) \/ Flush(d) \/ Note(d) PROVE Forward
  BY <1>3 DEF Store, Delete, Flush, Note
<1>4. CASE Expire \/ UNCHANGED vars
  BY <1>4 DEF Expire, vars
<1>5. CASE Crash
  <2>1. ASSUME NEW r \in Requests
        PROVE  /\ step[r] \notin Early => step'[r] \notin Early
               /\ step[r] \in Answered => step'[r] \in Answered
    <3>1. step'[r] \in {"lost", "served", "done", step[r]}
      BY <1>5 DEF Crash
    <3>2. step[r] \in Answered => step'[r] \in {step[r], "done"}
      BY <1>5 DEF Crash, Streaming, StreamSteps, RetrySteps, LateSteps, Answered
    <3> QED BY <3>1, <3>2 DEF Early, RetrySteps, Answered
  <2>2. \A d \in Docs : doc[d] = "deleted" => doc'[d] = "deleted"
    BY <1>5 DEF Crash
  <2>3. UNCHANGED <<question, target, retries>>
    BY <1>5 DEF Crash
  <2> QED BY <2>1, <2>2, <2>3
<1> QED BY <1>1, <1>2, <1>3, <1>4, <1>5 DEF Next

\* What a step may do to the history.
AddsQuestion(r) == /\ step[r] = "asking" /\ step'[r] \notin Early
                   /\ messages' = Append(messages, <<"user", r>>)
AddsAnswer(r) == /\ step[r] = "saving" /\ step'[r] \in Answered
                 /\ messages' = Append(messages, <<"assistant", r>>)
AddsNote(d) == /\ doc[d] = "noting" /\ doc'[d] = "deleted"
               /\ messages' = Append(messages, <<"system", d>>)
DropsAnswer(r) == /\ step[r] = "droppingAnswer" /\ step'[r] = "findingQuestion"
                  /\ Drop(<<"assistant", dropped[r]>>)
DropsQuestion(r) == /\ step[r] = "droppingQuestion" /\ step'[r] = "limiting"
                    /\ Drop(<<"user", target[r]>>)

LEMMA Moves ==
  ASSUME TypeOK, [Next]_vars
  PROVE  \/ UNCHANGED messages
         \/ \E r \in Requests : \/ AddsQuestion(r) \/ AddsAnswer(r)
                                \/ DropsAnswer(r) \/ DropsQuestion(r)
         \/ \E d \in Docs : AddsNote(d)
<1> USE DEF TypeOK, StepTo, turnVars, cacheVars, blameVars
<1>1. ASSUME NEW r \in Requests, Send(r) \/ Retry(r) \/ Rate(r) \/ BlameStep(r)
      PROVE  UNCHANGED messages
  BY <1>1 DEF Send, Retry, Rate, BlameStep, FindBlamed, ClearBlamedExact, ClearBlamedSemantic
<1>2. ASSUME NEW r \in Requests, RetryStep(r)
      PROVE  UNCHANGED messages \/ DropsAnswer(r) \/ DropsQuestion(r)
  BY <1>2 DEF RetryStep, DropAnswer, FindQuestion, ClearExact, ClearSemantic, DropQuestion,
              DropsAnswer, DropsQuestion
<1>3. ASSUME NEW r \in Requests, ChatStep(r)
      PROVE  UNCHANGED messages \/ AddsQuestion(r) \/ AddsAnswer(r)
  <2>1. CASE Ask(r)
    BY <2>1 DEF Ask, AddsQuestion, Early, RetrySteps
  <2>2. CASE Save(r)
    BY <2>2 DEF Save, AddsAnswer, Answered
  <2>3. CASE ~(Ask(r) \/ Save(r))
    BY <1>3, <2>3 DEF ChatStep, Limit, LookUp, Load, Match, Promote, Route, Retrieve,
                      Generate, CacheExact, CacheSemantic
  <2> QED BY <2>1, <2>2, <2>3
<1>4. ASSUME NEW d \in Docs, Store(d) \/ Delete(d) \/ Flush(d) \/ Note(d)
      PROVE  UNCHANGED messages \/ AddsNote(d)
  BY <1>4 DEF Store, Delete, Flush, Note, AddsNote
<1>5. CASE Expire \/ Crash \/ UNCHANGED vars
  BY <1>5 DEF Expire, Crash, vars
<1> QED BY <1>1, <1>2, <1>3, <1>4, <1>5 DEF Next

\* The newest question comes from a request that has asked.
LEMMA NewestAsked ==
  ASSUME messages \in Seq(Message), HistInv, At("user") # {}
  PROVE  LET u == messages[Newest(At("user"))][2]
         IN /\ u \in Requests /\ step[u] \notin Early
            /\ <<"user", u>> \in Held
            /\ messages[Newest(At("user"))] = <<"user", u>>
<1> DEFINE n == Newest(At("user"))
<1>1. n \in DOMAIN messages /\ messages[n][1] = "user" /\ messages[n] \in Message
  BY NewestMessage
<1> HIDE DEF n
<1>2. messages[n] = <<"user", messages[n][2]>> /\ messages[n][2] \in Requests
  BY <1>1 DEF Message
<1>3. <<"user", messages[n][2]>> \in Held
  BY <1>1, <1>2 DEF Held
<1> QED BY <1>2, <1>3 DEF HistInv, n

LEMMA HistStep == TypeOK /\ HistInv /\ [Next]_vars => HistInv'
<1> SUFFICES ASSUME TypeOK, HistInv, [Next]_vars PROVE HistInv'
  OBVIOUS
<1>1. Forward /\ messages \in Seq(Message)
  BY ForwardStep DEF TypeOK
<1>2. ASSUME NEW m \in Message, messages' = Append(messages, m), m \notin Held,
             \A r \in Requests : /\ m = <<"user", r>> => step'[r] \notin Early
                                 /\ m = <<"assistant", r>> => step'[r] \in Answered,
             \A d \in Docs : m = <<"system", d>> => doc'[d] = "deleted"
      PROVE  HistInv'
  <2>1. /\ Len(messages) \in Nat /\ DOMAIN messages = 1..Len(messages)
        /\ DOMAIN messages' = 1..(Len(messages) + 1)
        /\ \A i \in 1..Len(messages) : messages'[i] = messages[i]
        /\ messages'[Len(messages) + 1] = m
        /\ Held' = Held \cup {m}
    BY <1>1, <1>2, AppendedHistory
  <2>2. ASSUME NEW i \in DOMAIN messages', NEW j \in DOMAIN messages', messages'[i] = messages'[j]
        PROVE  i = j
    <3>1. \A k \in 1..Len(messages) : messages'[k] # m
      BY <1>2, <2>1 DEF Held
    <3>2. CASE i = Len(messages) + 1 \/ j = Len(messages) + 1
      BY <2>1, <2>2, <3>1, <3>2
    <3>3. CASE i \in 1..Len(messages) /\ j \in 1..Len(messages)
      BY <2>1, <2>2, <3>3 DEF HistInv
    <3> QED BY <2>1, <3>2, <3>3
  <2> QED BY <1>1, <1>2, <2>1, <2>2 DEF HistInv, Forward
<1>3. ASSUME NEW m, Drop(m) PROVE HistInv'
  <2>1. /\ Held' = Held \ {m}
        /\ \A i, j \in DOMAIN messages' : messages'[i] = messages'[j] => i = j
    BY <1>1, <1>3, DroppedHeld
  <2> QED BY <1>1, <2>1 DEF HistInv, Forward
<1>4. CASE UNCHANGED messages
  <2>1. Held' = Held
    BY <1>4 DEF Held
  <2> QED BY <1>1, <1>4, <2>1 DEF HistInv, Forward
<1>5. ASSUME NEW r \in Requests, AddsQuestion(r) PROVE HistInv'
  <2>1. <<"user", r>> \in Message /\ <<"user", r>> \notin Held
    BY <1>5, Messages DEF AddsQuestion, HistInv, Early
  <2> QED BY <1>2, <1>5, <2>1 DEF AddsQuestion
<1>6. ASSUME NEW r \in Requests, AddsAnswer(r) PROVE HistInv'
  <2>1. <<"assistant", r>> \in Message /\ <<"assistant", r>> \notin Held
    BY <1>6, Messages DEF AddsAnswer, HistInv, Answered
  <2> QED BY <1>2, <1>6, <2>1 DEF AddsAnswer
<1>7. ASSUME NEW d \in Docs, AddsNote(d) PROVE HistInv'
  <2>1. <<"system", d>> \in Message /\ <<"system", d>> \notin Held
    BY <1>7, Messages DEF AddsNote, HistInv
  <2> QED BY <1>2, <1>7, <2>1 DEF AddsNote
<1> QED BY <1>3, <1>4, <1>5, <1>6, <1>7, Moves DEF DropsAnswer, DropsQuestion

HistTyped == Inv /\ TypeOK /\ HistInv

LEMMA SpecHist == Spec => []HistTyped
<1>1. Init => HistInv
  BY DEF Init, HistInv, Held
<1>2. Inv /\ TypeOK /\ HistInv /\ [Next]_vars => HistInv'
  BY HistStep
<1> QED BY <1>1, <1>2, SpecInv, ChatTypeCorrect, PTL DEF Spec, HistTyped

-----------------------------------------------------------------------------
(* Retries.  A retry that got past its deletions has taken away the        *)
(* question it repeats, which is never asked again; so the next retry of   *)
(* the same question fails.                                                *)

Passed(r) == step[r] \in {"limiting", "asking"} \/ <<"user", r>> \in Held

OnceInv ==
  /\ \A r \in Requests :
       /\ step[r] = "idle" => r \notin retries /\ target[r] = Nobody
       /\ target[r] # Nobody => step[target[r]] \notin Early
       /\ step[r] \in {"clearingExact", "clearingSemantic", "droppingQuestion"}
            => target[r] # Nobody
  /\ \A r \in retries : Passed(r) => target[r] # Nobody /\ <<"user", target[r]>> \notin Held
  /\ \A r, s \in retries : Passed(r) /\ Passed(s) /\ target[r] = target[s] => r = s

\* All that a request has to be compared with others about, unless it has
\* just dropped a question.
LEMMA OnceKept ==
  ASSUME HistTyped, OnceInv, Forward, TypeOK',
         \A r \in Requests :
           /\ step'[r] = "idle" => r \notin retries' /\ target'[r] = Nobody
           /\ target'[r] # Nobody => step[target'[r]] \notin Early
           /\ step'[r] \in {"clearingExact", "clearingSemantic", "droppingQuestion"}
                => target'[r] # Nobody,
         \A r \in retries' : Passed(r)' => r \in retries /\ Passed(r) /\ target'[r] = target[r],
         \A r \in Requests : <<"user", r>> \in Held' /\ <<"user", r>> \notin Held => step[r] \in Early
  PROVE  OnceInv'
<1>1. ASSUME NEW r \in retries', Passed(r)'
      PROVE  target'[r] # Nobody /\ <<"user", target'[r]>> \notin Held'
  <2>1. /\ r \in retries /\ Passed(r) /\ target'[r] = target[r] /\ target[r] # Nobody
        /\ <<"user", target[r]>> \notin Held
    BY <1>1 DEF OnceInv
  <2>2. target[r] \in Requests /\ step[target[r]] \notin Early
    BY <2>1 DEF OnceInv, HistTyped, TypeOK
  <2> QED BY <2>1, <2>2
<1>2. ASSUME NEW r \in retries', NEW s \in retries', Passed(r)', Passed(s)',
             target'[r] = target'[s]
      PROVE  r = s
  BY <1>2 DEF OnceInv
<1>3. \A r \in Requests : target'[r] # Nobody => step'[target'[r]] \notin Early
  BY DEF Forward, TypeOK
<1> QED BY <1>1, <1>2, <1>3 DEF OnceInv

\* A step of r that drops no question.
LEMMA OnceMoves ==
  ASSUME HistTyped, OnceInv, Forward, TypeOK', NEW r \in Requests, NEW to,
         step' = [step EXCEPT ![r] = to], to # "idle",
         \/ /\ retries' = retries /\ target' = target
            /\ \A x \in Requests : <<"user", x>> \in Held' /\ <<"user", x>> \notin Held
                                   => x = r /\ step[r] = "asking"
         \/ /\ step[r] \in Early /\ to \notin {"limiting", "asking"}
            /\ Held' = Held
            /\ retries' \in {retries, retries \cup {r}}
            /\ \/ target' = target
               \/ \E u \in Requests : step[u] \notin Early /\ target' = [target EXCEPT ![r] = u],
         to \in {"clearingExact", "clearingSemantic", "droppingQuestion"} => target'[r] # Nobody,
         to \in {"limiting", "asking"} => r \notin retries \/ step[r] \in {"limiting", "asking"}
  PROVE  OnceInv'
<1> USE DEF HistTyped, TypeOK
<1>1. step'[r] = to /\ \A x \in Requests : x # r => step'[x] = step[x] /\ target'[x] = target[x]
  OBVIOUS
<1>2. \A x \in Requests : x # r => (x \in retries' <=> x \in retries)
  OBVIOUS
<1>3. \A x \in Requests : <<"user", x>> \in Held' /\ <<"user", x>> \notin Held
                            => x = r /\ step[r] = "asking" /\ target' = target /\ retries' = retries
  OBVIOUS
<1>4. step[r] \in Early => <<"user", r>> \notin Held
  BY DEF HistInv
<1>5. ASSUME NEW x \in retries', Passed(x)'
      PROVE  x \in retries /\ Passed(x) /\ target'[x] = target[x]
  <2>1. x \in Requests /\ (step'[x] \in {"limiting", "asking"} \/ <<"user", x>> \in Held')
    BY <1>5 DEF Passed
  <2>2. CASE x # r
    BY <1>1, <1>2, <1>3, <1>5, <2>1, <2>2 DEF Passed
  <2>3. CASE x = r
    <3>1. CASE retries' = retries /\ target' = target
      BY <1>1, <1>3, <1>5, <2>1, <2>3, <3>1 DEF Passed
    <3>2. CASE step[r] \in Early /\ to \notin {"limiting", "asking"} /\ Held' = Held
      BY <1>1, <1>4, <2>1, <2>3, <3>2
    <3> QED BY <3>1, <3>2
  <2> QED BY <2>2, <2>3
<1>6. ASSUME NEW x \in Requests
      PROVE  /\ step'[x] = "idle" => x \notin retries' /\ target'[x] = Nobody
             /\ target'[x] # Nobody => step[target'[x]] \notin Early
             /\ step'[x] \in {"clearingExact", "clearingSemantic", "droppingQuestion"}
                  => target'[x] # Nobody
  <2>1. target'[x] = target[x] \/ (target'[x] \in Requests /\ step[target'[x]] \notin Early)
    OBVIOUS
  <2>2. CASE x # r
    BY <1>1, <1>2, <2>1, <2>2 DEF OnceInv
  <2>3. CASE x = r
    BY <1>1, <2>1, <2>3 DEF OnceInv
  <2> QED BY <2>2, <2>3
<1>7. \A x \in Requests : <<"user", x>> \in Held' /\ <<"user", x>> \notin Held => step[x] \in Early
  BY <1>3 DEF Early
<1> QED BY <1>5, <1>6, <1>7, OnceKept

LEMMA OnceDrops ==
  ASSUME HistTyped, OnceInv, Forward, TypeOK', NEW r \in Requests, r \in retries,
         step[r] = "droppingQuestion", step' = [step EXCEPT ![r] = "limiting"],
         UNCHANGED <<target, retries>>, Drop(<<"user", target[r]>>)
  PROVE  OnceInv'
<1> USE DEF HistTyped, TypeOK
<1>1. Held' = Held \ {<<"user", target[r]>>} /\ <<"user", target[r]>> \in Held
  BY DroppedHeld DEF Drop, Held
<1>2. \A x \in Requests : Passed(x)' => Passed(x) \/ x = r
  BY <1>1 DEF Passed
<1>3. target[r] # Nobody
  BY DEF OnceInv
<1>4. \A x \in retries : Passed(x) => target[x] # target[r]
  BY <1>1 DEF OnceInv
<1>5. ASSUME NEW x \in retries', Passed(x)'
      PROVE  target'[x] # Nobody /\ <<"user", target'[x]>> \notin Held'
  BY <1>1, <1>2, <1>3, <1>5 DEF OnceInv
<1>6. ASSUME NEW x \in retries', NEW y \in retries', Passed(x)', Passed(y)',
             target'[x] = target'[y]
      PROVE  x = y
  BY <1>2, <1>4, <1>6 DEF OnceInv
<1>7. \A x \in Requests :
        /\ step'[x] = "idle" => x \notin retries' /\ target'[x] = Nobody
        /\ target'[x] # Nobody => step'[target'[x]] \notin Early
        /\ step'[x] \in {"clearingExact", "clearingSemantic", "droppingQuestion"}
             => target'[x] # Nobody
  BY DEF OnceInv, Forward
<1> QED BY <1>5, <1>6, <1>7 DEF OnceInv

LEMMA OnceRequests ==
  ASSUME HistTyped, OnceInv, Forward, TypeOK', NEW r \in Requests,
         Send(r) \/ Retry(r) \/ RetryStep(r) \/ ChatStep(r)
  PROVE  OnceInv'
<1>0. /\ messages \in Seq(Message) /\ HistInv /\ <<"user", r>> \in Message
      /\ <<"assistant", r>> \in Message
  BY Messages DEF HistTyped, TypeOK
<1> USE DEF StepTo, turnVars
<1>1. CASE Send(r)
  <2>1. Held' = Held
    BY <1>1 DEF Send, Held
  <2> QED BY <1>1, <2>1, OnceMoves DEF Send, OnceInv
<1>2. CASE Retry(r)
  <2>1. Held' = Held
    BY <1>2 DEF Retry, Held
  <2> QED BY <1>2, <2>1, OnceMoves DEF Retry, Early
<1>3. CASE DropAnswer(r)
  <2>1. Held' \subseteq Held
    <3>1. CASE Drop(<<"assistant", dropped[r]>>)
      BY <1>0, <3>1, DroppedHeld
    <3>2. CASE UNCHANGED messages
      BY <3>2 DEF Held
    <3> QED BY <1>3, <3>1, <3>2 DEF DropAnswer
  <2> QED BY <1>3, <2>1, OnceMoves DEF DropAnswer
<1>4. CASE FindQuestion(r)
  <2>1. Held' = Held /\ retries' = retries /\ step[r] \in Early
    BY <1>4 DEF FindQuestion, Held, Early, RetrySteps
  <2> DEFINE u == messages[Newest(At("user"))][2]
  <2>2. ASSUME At("user") # {} PROVE u \in Requests /\ step[u] \notin Early
    BY <1>0, <2>2, NewestAsked
  <2>3. \/ /\ u \in Requests /\ step[u] \notin Early
           /\ step' = [step EXCEPT ![r] = "clearingExact"]
           /\ target' = [target EXCEPT ![r] = u]
        \/ /\ step' = [step EXCEPT ![r] = "failed"]
           /\ target' = target
    BY <1>4, <2>2 DEF FindQuestion
  <2> HIDE DEF u
  <2>4. CASE target' = target /\ step' = [step EXCEPT ![r] = "failed"]
    BY <2>1, <2>4, OnceMoves
  <2>5. CASE /\ u \in Requests /\ step[u] \notin Early
             /\ step' = [step EXCEPT ![r] = "clearingExact"]
             /\ target' = [target EXCEPT ![r] = u]
    <3>1. target'[r] # Nobody
      BY <2>5 DEF HistTyped, TypeOK
    <3> QED BY <2>1, <2>5, <3>1, OnceMoves
  <2> QED BY <2>3, <2>4, <2>5
<1>5. CASE ClearExact(r) \/ ClearSemantic(r)
  <2>1. Held' = Held
    BY <1>5 DEF ClearExact, ClearSemantic, Held
  <2> QED BY <1>5, <2>1, OnceMoves DEF ClearExact, ClearSemantic, OnceInv
<1>6. CASE DropQuestion(r)
  <2>1. CASE UNCHANGED messages /\ step' = [step EXCEPT ![r] = "failed"]
    <3>1. Held' = Held
      BY <2>1 DEF Held
    <3> QED BY <1>6, <2>1, <3>1, OnceMoves DEF DropQuestion
  <2>2. CASE step' = [step EXCEPT ![r] = "limiting"] /\ Drop(<<"user", target[r]>>)
    <3>1. r \in retries /\ step[r] = "droppingQuestion"
      BY <1>6 DEF DropQuestion, HistTyped, Inv, HasAsked, RetrySteps
    <3> QED BY <1>6, <2>2, <3>1, OnceDrops DEF DropQuestion
  <2> QED BY <1>6, <2>1, <2>2 DEF DropQuestion
<1>7. CASE ChatStep(r)
  <2>1. UNCHANGED <<retries, target>>
    BY <1>7 DEF ChatStep, Limit, Ask, LookUp, Load, Match, Promote, Route, Retrieve,
                Generate, Save, CacheExact, CacheSemantic
  <2> DEFINE Later == {"lookingUp", "loading", "matching", "routing", "retrieving", "generating",
                       "promoting", "saving", "cachingExact", "cachingSemantic", "done",
                       "served", "failed"}
  <2>2. \/ Held' \subseteq Held
        \/ step[r] = "asking" /\ Held' = Held \cup {<<"user", r>>}
        \/ step[r] = "saving" /\ Held' = Held \cup {<<"assistant", r>>}
    <3>1. CASE Ask(r) \/ Save(r)
      BY <1>0, <3>1, AppendedHistory DEF Ask, Save, Held
    <3>2. CASE ~(Ask(r) \/ Save(r))
      BY <1>7, <3>2 DEF ChatStep, Limit, LookUp, Load, Match, Promote, Route, Retrieve,
                        Generate, CacheExact, CacheSemantic, Held
    <3> QED BY <3>1, <3>2
  <2>3. CASE Limit(r)
    <3>1. Held' = Held
      BY <2>3 DEF Limit, Held
    <3> QED BY <2>1, <2>3, <3>1, OnceMoves DEF Limit
  <2>4. CASE ~Limit(r)
    <3>1. \E to \in Later : step' = [step EXCEPT ![r] = to]
      BY <1>7, <2>4 DEF ChatStep, Ask, LookUp, Load, Match, Promote, Route, Retrieve,
                        Generate, Save, CacheExact, CacheSemantic
    <3>2. PICK to \in Later : step' = [step EXCEPT ![r] = to]
      BY <3>1
    <3>3. to \notin {"idle", "clearingExact", "clearingSemantic", "droppingQuestion",
                     "limiting", "asking"}
      OBVIOUS
    <3>4. \A x \in Requests : <<"user", x>> \in Held' /\ <<"user", x>> \notin Held
                              => x = r /\ step[r] = "asking"
      BY <2>2
    <3> HIDE DEF Later
    <3> QED BY <2>1, <3>2, <3>3, <3>4, OnceMoves
  <2> QED BY <2>3, <2>4
<1> QED BY <1>1, <1>2, <1>3, <1>4, <1>5, <1>6, <1>7 DEF RetryStep

LEMMA OnceStep == HistTyped /\ OnceInv /\ [Next]_vars => OnceInv'
<1> SUFFICES ASSUME HistTyped, OnceInv, [Next]_vars PROVE OnceInv'
  OBVIOUS
<1>1. Forward /\ TypeOK'
  BY ForwardStep, TypeStep DEF HistTyped
<1>2. ASSUME NEW r \in Requests, Send(r) \/ Retry(r) \/ RetryStep(r) \/ ChatStep(r)
      PROVE  OnceInv'
  BY <1>1, <1>2, OnceRequests
<1>3. ASSUME UNCHANGED <<retries, target>>,
             \A r \in Requests : step'[r] = step[r] \/ step'[r] \in {"lost", "served", "done"},
             \A r \in Requests : <<"user", r>> \in Held' => <<"user", r>> \in Held
      PROVE  OnceInv'
  <2>1. \A r \in Requests : Passed(r)' => Passed(r)
    BY <1>3 DEF Passed
  <2> QED BY <1>1, <1>3, <2>1, OnceKept DEF OnceInv, HistTyped, TypeOK
<1>4. ASSUME NEW r \in Requests, Rate(r) \/ BlameStep(r) PROVE OnceInv'
  BY <1>3, <1>4 DEF Rate, BlameStep, FindBlamed, ClearBlamedExact, ClearBlamedSemantic,
                    turnVars, Held
<1>5. ASSUME NEW d \in Docs, Store(d) \/ Delete(d) \/ Flush(d) \/ Note(d) PROVE OnceInv'
  <2>1. CASE UNCHANGED messages
    <3>1. Held' = Held
      BY <2>1 DEF Held
    <3> QED BY <1>3, <1>5, <3>1 DEF Store, Delete, Flush, Note, turnVars
  <2>2. CASE messages' = Append(messages, <<"system", d>>)
    <3>1. Held' = Held \cup {<<"system", d>>}
      BY <2>2, Messages, AppendedHistory DEF HistTyped, TypeOK
    <3> QED BY <1>3, <1>5, <3>1 DEF Store, Delete, Flush, Note, turnVars
  <2> QED BY <1>5, <2>1, <2>2 DEF Store, Delete, Flush, Note
<1>6. CASE Expire \/ UNCHANGED vars
  BY <1>3, <1>6 DEF Expire, vars, turnVars, Held
<1>7. CASE Crash
  <2>1. /\ UNCHANGED <<retries, target, messages>>
        /\ \A r \in Requests : step'[r] = step[r] \/ step'[r] \in {"lost", "served", "done"}
    BY <1>7 DEF Crash
  <2> QED BY <1>3, <2>1 DEF Held
<1> QED BY <1>2, <1>4, <1>5, <1>6, <1>7 DEF Next

LEMMA SpecOnce == Spec => [](HistTyped /\ OnceInv)
<1>1. Init => OnceInv
  BY DEF Init, OnceInv, Held, Passed
<1> QED BY <1>1, SpecHist, OnceStep, PTL DEF Spec

\* Of all retries of one question, however they interleave, at most one gets
\* to ask it again: message.delete of a question that is gone throws
\* (ChatService.handleRetry), and a question is never put back.
THEOREM QuestionsAreRetriedOnce == Spec => []RetriedOnce
<1>1. OnceInv => RetriedOnce
  BY DEF OnceInv, RetriedOnce, Passed, Present, Held
<1> QED BY <1>1, SpecOnce, PTL

-----------------------------------------------------------------------------
(* What goes on at once.  With a client that waits for the server to settle *)
(* it is one thing at a time.                                               *)

Busy(r) == Streaming(r) \/ step[r] \in LateSteps
Rating(r) == blame[r] \in BlameSteps

OneAtATime ==
  /\ \A r, s \in Requests : /\ Busy(r) /\ Busy(s) => r = s
                            /\ Rating(r) /\ Rating(s) => r = s
                            /\ ~(Busy(r) /\ Rating(s))
  /\ \A d \in Docs : Deleting(d) => \A r \in Requests : ~Busy(r) /\ ~Rating(r)
  /\ \A c, d \in Docs : Deleting(c) /\ Deleting(d) => c = d

Starts == \/ \E r \in Requests : Send(r) \/ Retry(r) \/ Rate(r)
          \/ \E d \in Docs : Delete(d)

\* Only the client starts anything.
GoesOn ==
  /\ \A r \in Requests : /\ Streaming(r)' => Streaming(r)
                         /\ Busy(r)' => Busy(r)
                         /\ Rating(r)' => Rating(r)
  /\ \A d \in Docs : Deleting(d)' => Deleting(d)

LEMMA GoingOn ==
  ASSUME TypeOK,
         \/ \E r \in Requests : RetryStep(r) \/ ChatStep(r) \/ BlameStep(r)
         \/ \E d \in Docs : Store(d) \/ Flush(d) \/ Note(d)
         \/ Expire \/ Crash \/ UNCHANGED vars
  PROVE  GoesOn
<1> USE DEF TypeOK, GoesOn, Streaming, Busy, Rating, Deleting, turnVars, cacheVars, blameVars
<1>1. ASSUME NEW r \in Requests, RetryStep(r) PROVE GoesOn
  <2>1. Streaming(r)
    BY <1>1 DEF RetryStep, DropAnswer, FindQuestion, ClearExact, ClearSemantic, DropQuestion,
                StepTo, StreamSteps, RetrySteps
  <2>2. \E to \in StreamSteps \cup Ends : step' = [step EXCEPT ![r] = to]
    BY <1>1 DEF RetryStep, DropAnswer, FindQuestion, ClearExact, ClearSemantic, DropQuestion,
                StepTo, StreamSteps, RetrySteps, Ends
  <2>3. UNCHANGED <<blame, doc>>
    BY <1>1 DEF RetryStep, DropAnswer, FindQuestion, ClearExact, ClearSemantic, DropQuestion
  <2> QED BY <2>1, <2>2, <2>3
<1>2. ASSUME NEW r \in Requests, ChatStep(r) PROVE GoesOn
  <2>1. UNCHANGED <<blame, doc>>
    BY <1>2 DEF ChatStep, Limit, Ask, LookUp, Load, Match, Promote, Route, Retrieve,
                Generate, Save, CacheExact, CacheSemantic
  <2>2. CASE Streaming(r)
    <3>1. \A x \in Requests : x # r => step'[x] = step[x]
      BY <1>2 DEF ChatStep, Limit, Ask, LookUp, Load, Match, Promote, Route, Retrieve,
                  Generate, Save, CacheExact, CacheSemantic, StepTo
    <3> QED BY <2>1, <2>2, <3>1
  <2>3. CASE ~Streaming(r)
    <3>1. Promote(r) \/ Save(r) \/ CacheExact(r) \/ CacheSemantic(r)
      BY <1>2, <2>3 DEF ChatStep, Limit, Ask, LookUp, Load, Match, Route, Retrieve,
                        Generate, StepTo, StreamSteps
    <3>2. /\ step[r] \in LateSteps
          /\ \E to \in {"served", "cachingExact", "cachingSemantic", "done"} :
               step' = [step EXCEPT ![r] = to]
      BY <3>1 DEF Promote, Save, CacheExact, CacheSemantic, StepTo, LateSteps
    <3>3. \A to \in {"served", "cachingExact", "cachingSemantic", "done"} : to \notin StreamSteps
      BY DEF StreamSteps, RetrySteps
    <3> QED BY <2>1, <3>2, <3>3
  <2> QED BY <2>2, <2>3
<1>3. ASSUME NEW r \in Requests, BlameStep(r) PROVE GoesOn
  BY <1>3 DEF BlameStep, FindBlamed, ClearBlamedExact, ClearBlamedSemantic, BlameTo, BlameSteps
<1>4. ASSUME NEW d \in Docs, Store(d) \/ Flush(d) \/ Note(d) PROVE GoesOn
  BY <1>4 DEF Store, Flush, Note
<1>5. CASE Expire \/ UNCHANGED vars
  BY <1>5 DEF Expire, vars
<1>6. CASE Crash
  <2>1. /\ \A r \in Requests : step'[r] = step[r] \/ step'[r] \in {"lost", "served", "done"}
        /\ \A r \in Requests : blame'[r] = blame[r] \/ blame'[r] = "lost"
        /\ \A d \in Docs : doc'[d] = doc[d] \/ doc'[d] = "deleted"
    BY <1>6 DEF Crash
  <2>2. /\ {"lost", "served", "done"} \cap (StreamSteps \cup LateSteps) = {}
        /\ "lost" \notin BlameSteps
    BY DEF StreamSteps, RetrySteps, LateSteps, BlameSteps
  <2> QED BY <2>1, <2>2
<1> QED BY <1>1, <1>2, <1>3, <1>4, <1>5, <1>6

LEMMA NothingStarts == TypeOK /\ [Next]_vars => Starts \/ GoesOn
BY GoingOn DEF Next, Starts

\* What a start finds and does.
LEMMA Starting ==
  ASSUME TypeOK, Starts
  PROVE  /\ MayStart
         /\ \/ \E r \in Requests :
                 /\ \A x \in Requests : /\ x # r => step'[x] = step[x] /\ blame'[x] = blame[x]
                                        /\ step'[x] \in LateSteps => step[x] \in LateSteps
                                        /\ step'[x] \in StreamSteps /\ step[x] \notin StreamSteps
                                             => UNCHANGED blame
                                        /\ blame'[x] # blame[x] => UNCHANGED step
                 /\ UNCHANGED doc
            \/ \E d \in Docs : /\ UNCHANGED <<step, blame>>
                               /\ \A c \in Docs : c # d => doc'[c] = doc[c]
<1> USE DEF TypeOK, turnVars, blameVars, StepTo
<1>1. ASSUME NEW r \in Requests, Send(r) \/ Retry(r)
      PROVE  /\ MayStart
             /\ \A x \in Requests : x # r => step'[x] = step[x]
             /\ step'[r] \notin LateSteps
             /\ UNCHANGED <<blame, doc>>
  BY <1>1 DEF Send, Retry, LateSteps
<1>2. ASSUME NEW r \in Requests, Rate(r)
      PROVE  /\ MayStart
             /\ \A x \in Requests : x # r => blame'[x] = blame[x]
             /\ UNCHANGED <<step, doc>>
  BY <1>2 DEF Rate
<1>3. ASSUME NEW d \in Docs, Delete(d)
      PROVE  /\ MayStart
             /\ \A c \in Docs : c # d => doc'[c] = doc[c]
             /\ UNCHANGED <<step, blame>>
  BY <1>3 DEF Delete
<1> QED BY <1>1, <1>2, <1>3 DEF Starts

LEMMA OneAtATimeStep ==
  ASSUME Client = "settled"
  PROVE  TypeOK /\ OneAtATime /\ [Next]_vars => OneAtATime'
<1> SUFFICES ASSUME TypeOK, OneAtATime, [Next]_vars PROVE OneAtATime'
  OBVIOUS
<1>1. CASE GoesOn
  BY <1>1 DEF GoesOn, OneAtATime
<1>2. CASE Starts
  <2>1. /\ \A r \in Requests : ~Busy(r) /\ ~Rating(r)
        /\ \A d \in Docs : ~Deleting(d)
    BY <1>2, Starting DEF MayStart, Busy, Rating
  <2> QED BY <1>2, <2>1, Starting DEF OneAtATime, Busy, Rating, Streaming, Deleting
<1> QED BY <1>1, <1>2, NothingStarts

-----------------------------------------------------------------------------
(* With one thing at a time the history is that of one request.             *)

SettledTyped == HistTyped /\ OneAtATime

LEMMA SpecSettled ==
  ASSUME Client = "settled" PROVE Spec => []SettledTyped
<1>1. Init => OneAtATime
  BY DEF Init, OneAtATime, Busy, Rating, Streaming, Deleting, StreamSteps, RetrySteps,
         LateSteps, BlameSteps
<1>2. HistTyped /\ OneAtATime /\ [Next]_vars => OneAtATime'
  BY OneAtATimeStep DEF HistTyped
<1> QED BY <1>1, <1>2, SpecHist, PTL DEF Spec, SettledTyped

\* The history is the busy request's alone.
LEMMA OwnHistory ==
  ASSUME SettledTyped, [Next]_vars, NEW r \in Requests, Busy(r)
  PROVE  \/ UNCHANGED messages
         \/ AddsQuestion(r) \/ AddsAnswer(r) \/ DropsAnswer(r) \/ DropsQuestion(r)
<1> USE DEF SettledTyped, HistTyped, OneAtATime
<1>1. ASSUME NEW x \in Requests, AddsQuestion(x) \/ AddsAnswer(x) \/ DropsAnswer(x) \/ DropsQuestion(x)
      PROVE  x = r
  <2>1. Busy(x)
    BY <1>1 DEF AddsQuestion, AddsAnswer, DropsAnswer, DropsQuestion, Busy, Streaming, StreamSteps,
                RetrySteps, LateSteps
  <2> QED BY <2>1
<1>2. \A d \in Docs : ~AddsNote(d)
  BY DEF AddsNote, Deleting
<1> QED BY <1>1, <1>2, Moves

LastIs(w, r) == Len(w) > 0 /\ w[Len(w)] = <<"user", r>>

-----------------------------------------------------------------------------
(* Questions.  What a retry takes away it is about to put back, or fails.   *)

KeepInv ==
  \A x \in Requests : step[x] \in Posed =>
    \/ <<"user", x>> \in Held
    \/ \E r \in retries : target[r] = x /\ step[r] \in Onward

\* Where a saved question comes from, and where a retry goes that has taken
\* one away.
KeepMove(r) ==
  /\ step'[r] \in Posed => step[r] \in Posed \/ AddsQuestion(r)
  /\ step[r] \in Onward => step'[r] \in Onward
  /\ step[r] \in Onward \cup {"droppingQuestion"} => target'[r] = target[r]
  /\ r \in retries => r \in retries'

LEMMA KeepMoves ==
  ASSUME TypeOK, NEW r \in Requests, Send(r) \/ Retry(r) \/ RetryStep(r) \/ ChatStep(r)
  PROVE  KeepMove(r) /\ \A s \in Requests : s # r => KeepMove(s)
<1> USE DEF TypeOK, StepTo, KeepMove, Posed, Onward, LateSteps, turnVars, cacheVars, blameVars
<1>1. CASE Send(r)
  BY <1>1 DEF Send
<1>2. CASE Retry(r)
  BY <1>2 DEF Retry
<1>3. CASE DropAnswer(r) \/ FindQuestion(r)
  BY <1>3 DEF DropAnswer, FindQuestion
<1>4. CASE ClearExact(r) \/ ClearSemantic(r) \/ DropQuestion(r)
  BY <1>4 DEF ClearExact, ClearSemantic, DropQuestion
<1>5. CASE Limit(r)
  BY <1>5 DEF Limit
<1>6. CASE Ask(r)
  BY <1>6 DEF Ask, AddsQuestion, Early, RetrySteps
<1>7. CASE LookUp(r) \/ Load(r) \/ Match(r)
  BY <1>7 DEF LookUp, Load, Match
<1>8. CASE Promote(r) \/ Route(r) \/ Retrieve(r)
  BY <1>8 DEF Promote, Route, Retrieve
<1>9. CASE Generate(r) \/ Save(r) \/ CacheExact(r) \/ CacheSemantic(r)
  BY <1>9 DEF Generate, Save, CacheExact, CacheSemantic
<1> QED BY <1>1, <1>2, <1>3, <1>4, <1>5, <1>6, <1>7, <1>8, <1>9 DEF RetryStep, ChatStep

\* The only question that goes is that of the retry that is at it.
LEMMA OnlyDroppedGoes ==
  ASSUME HistTyped, [Next]_vars, NEW x \in Requests, <<"user", x>> \in Held,
         \A r \in Requests : DropsQuestion(r) => target[r] # x
  PROVE  <<"user", x>> \in Held'
<1> USE DEF HistTyped, TypeOK
<1>1. ASSUME NEW m \in Message, messages' = Append(messages, m) PROVE <<"user", x>> \in Held'
  BY <1>1, AppendedHistory
<1>2. ASSUME NEW r \in Requests, AddsQuestion(r) \/ AddsAnswer(r) PROVE <<"user", x>> \in Held'
  BY <1>1, <1>2, Messages DEF AddsQuestion, AddsAnswer
<1>3. ASSUME NEW d \in Docs, AddsNote(d) PROVE <<"user", x>> \in Held'
  BY <1>1, <1>3, Messages DEF AddsNote
<1>4. ASSUME NEW r \in Requests, DropsAnswer(r) \/ DropsQuestion(r) PROVE <<"user", x>> \in Held'
  BY <1>4, DroppedHeld DEF DropsAnswer, DropsQuestion
<1>5. CASE UNCHANGED messages
  BY <1>5 DEF Held
<1> QED BY <1>2, <1>3, <1>4, <1>5, Moves

LEMMA KeepStep == HistTyped /\ KeepInv /\ [Next]_vars => KeepInv'
<1> SUFFICES ASSUME HistTyped, KeepInv, [Next]_vars PROVE KeepInv'
  OBVIOUS
<1>1. TypeOK /\ HasAsked /\ retries \subseteq Requests /\ messages \in Seq(Message)
  BY DEF HistTyped, TypeOK, Inv
<1>2. ASSUME \A r \in Requests : KeepMove(r) PROVE KeepInv'
  <2> SUFFICES ASSUME NEW x \in Requests, step'[x] \in Posed, <<"user", x>> \notin Held'
               PROVE  \E r \in retries' : target'[r] = x /\ step'[r] \in Onward
    BY DEF KeepInv
  <2>1. ASSUME NEW r \in retries, target[r] = x, step[r] \in Onward
        PROVE  r \in retries' /\ target'[r] = x /\ step'[r] \in Onward
    BY <1>1, <1>2, <2>1 DEF KeepMove
  <2>2. ~AddsQuestion(x)
    BY <1>1, Messages, AppendedHistory DEF AddsQuestion
  <2>3. step[x] \in Posed
    BY <1>2, <2>2 DEF KeepMove
  <2>4. CASE <<"user", x>> \notin Held
    BY <2>1, <2>3, <2>4 DEF KeepInv
  <2>5. CASE <<"user", x>> \in Held
    <3>1. PICK r \in Requests : DropsQuestion(r) /\ target[r] = x
      BY <2>5, OnlyDroppedGoes
    <3>2. r \in retries /\ step[r] = "droppingQuestion" /\ step'[r] = "limiting"
      BY <1>1, <3>1 DEF DropsQuestion, HasAsked, RetrySteps
    <3>3. r \in retries' /\ target'[r] = target[r]
      BY <1>2, <3>1, <3>2 DEF KeepMove
    <3> QED BY <3>1, <3>2, <3>3 DEF Onward
  <2> QED BY <2>4, <2>5
<1>3. ASSUME UNCHANGED <<step, target, retries>> PROVE KeepInv'
  BY <1>2, <1>3 DEF KeepMove
<1>4. ASSUME NEW r \in Requests, Send(r) \/ Retry(r) \/ RetryStep(r) \/ ChatStep(r)
      PROVE  KeepInv'
  BY <1>1, <1>2, <1>4, KeepMoves
<1>5. ASSUME NEW r \in Requests, Rate(r) \/ BlameStep(r) PROVE KeepInv'
  BY <1>3, <1>5 DEF Rate, BlameStep, FindBlamed, ClearBlamedExact, ClearBlamedSemantic, turnVars
<1>6. ASSUME NEW d \in Docs, Store(d) \/ Delete(d) \/ Flush(d) \/ Note(d) PROVE KeepInv'
  BY <1>3, <1>6 DEF Store, Delete, Flush, Note, turnVars
<1>7. CASE Expire \/ UNCHANGED vars
  BY <1>3, <1>7 DEF Expire, vars, turnVars
<1>8. CASE Crash
  <2>1. ASSUME NEW r \in Requests PROVE KeepMove(r)
    <3>1. /\ step'[r] = CASE Streaming(r) -> "lost"
                          [] step[r] \in LateSteps -> IF step[r] = "promoting" THEN "served" ELSE "done"
                          [] OTHER -> step[r]
          /\ UNCHANGED <<target, retries>>
      BY <1>8 DEF Crash
    <3>2. CASE Streaming(r)
      BY <3>1, <3>2 DEF KeepMove, Posed, Onward, LateSteps
    <3>3. CASE ~Streaming(r) /\ step[r] \in LateSteps
      BY <3>1, <3>3 DEF KeepMove, Posed, Onward, LateSteps
    <3>4. CASE ~Streaming(r) /\ step[r] \notin LateSteps
      BY <3>1, <3>4 DEF KeepMove
    <3> QED BY <3>2, <3>3, <3>4
  <2> QED BY <1>2, <2>1
<1> QED BY <1>4, <1>5, <1>6, <1>7, <1>8 DEF Next

\* Only a retry that fails can lose a question that was saved: whatever two
\* retries take from each other, whatever fails on the way and wherever the
\* process dies, every question the history has had is there, or on its way
\* back in by a retry that repeats it, or was last held by a retry that was
\* refused, failed or died (ChatService.handleRetry deletes before handleChat
\* has checked the rate limit and saved).
THEOREM RetriesKeepQuestions == Spec => []RetryKeepsQuestion
<1>1. Init => KeepInv
  BY DEF Init, KeepInv, Posed, LateSteps
<1>2. KeepInv => RetryKeepsQuestion
  BY DEF KeepInv, RetryKeepsQuestion, Present, Held
<1> QED BY <1>1, <1>2, SpecHist, KeepStep, PTL DEF Spec

-----------------------------------------------------------------------------
(* Deleted documents.  With one thing at a time no answer is on its way     *)
(* when a document goes, so the flush meets all of them in the cache.       *)

FlushInv ==
  /\ \A d \in Docs, e \in semantic : doc[d] \in {"noting", "deleted"} => d \notin grounds[e]
  /\ \A r \in Requests : /\ Busy(r) => \A d \in grounds[r] : doc[d] = "stored"
                         /\ step[r] = "idle" => grounds[r] = {}

\* What becomes of the grounds of an answer.
LEMMA GroundsMove ==
  ASSUME TypeOK, [Next]_vars, NEW r \in Requests
  PROVE  /\ \/ grounds'[r] = grounds[r]
            \/ /\ step[r] = "retrieving" /\ step'[r] = "generating"
               /\ \A d \in grounds'[r] : doc[d] = "stored"
               /\ UNCHANGED <<doc, semantic>>
         /\ step'[r] = "idle" => step[r] = "idle"
         /\ r \in semantic' => \/ r \in semantic
                               \/ step[r] = "cachingSemantic" /\ UNCHANGED <<grounds, doc>>
<1> USE DEF TypeOK, StepTo, turnVars, cacheVars, blameVars
<1>1. ASSUME NEW x \in Requests, Send(x) \/ Retry(x) \/ Rate(x) \/ RetryStep(x) \/ BlameStep(x)
      PROVE  /\ UNCHANGED grounds
             /\ step'[r] = "idle" => step[r] = "idle"
             /\ semantic' \subseteq semantic
  <2>1. CASE Send(x) \/ Retry(x) \/ Rate(x)
    BY <2>1 DEF Send, Retry, Rate
  <2>2. CASE RetryStep(x)
    BY <2>2 DEF RetryStep, DropAnswer, FindQuestion, ClearExact, ClearSemantic, DropQuestion,
                WipeSemantic
  <2>3. CASE BlameStep(x)
    BY <2>3 DEF BlameStep, FindBlamed, ClearBlamedExact, ClearBlamedSemantic, WipeSemantic
  <2> QED BY <1>1, <2>1, <2>2, <2>3
<1>2. ASSUME NEW x \in Requests, ChatStep(x)
      PROVE  step'[r] = "idle" => step[r] = "idle"
  BY <1>2 DEF ChatStep, Limit, Ask, LookUp, Load, Match, Promote, Route, Retrieve, Generate,
              Save, CacheExact, CacheSemantic
<1>3. ASSUME NEW x \in Requests, Retrieve(x)
      PROVE  /\ UNCHANGED <<doc, semantic>>
             /\ \/ grounds'[r] = grounds[r]
                \/ /\ x = r /\ step[r] = "retrieving" /\ step'[r] = "generating"
                   /\ \A d \in grounds'[r] : doc[d] = "stored"
  BY <1>3 DEF Retrieve
<1>4. ASSUME NEW x \in Requests, CacheSemantic(x)
      PROVE  /\ UNCHANGED <<grounds, doc>>
             /\ r \in semantic' => r \in semantic \/ step[r] = "cachingSemantic"
  BY <1>4 DEF CacheSemantic
<1>5. ASSUME NEW x \in Requests, ChatStep(x), ~Retrieve(x), ~CacheSemantic(x)
      PROVE  UNCHANGED <<grounds, semantic>>
  BY <1>5 DEF ChatStep, Limit, Ask, LookUp, Load, Match, Promote, Route, Generate, Save, CacheExact
<1>6. ASSUME NEW d \in Docs, Store(d) \/ Delete(d) \/ Flush(d) \/ Note(d)
      PROVE  UNCHANGED <<grounds, step>> /\ semantic' \subseteq semantic
  BY <1>6 DEF Store, Delete, Flush, Note, WipeSemantic
<1>7. CASE Expire \/ UNCHANGED vars
  BY <1>7 DEF Expire, vars
<1>8. CASE Crash
  BY <1>8 DEF Crash
<1> QED BY <1>1, <1>2, <1>3, <1>4, <1>5, <1>6, <1>7, <1>8 DEF Next

\* What becomes of a document.
LEMMA DocMove ==
  ASSUME TypeOK, [Next]_vars, ~Crash, NEW d \in Docs
  PROVE  \/ doc'[d] = doc[d]
         \/ doc[d] = "absent" /\ doc'[d] = "stored"
         \/ MayStart /\ doc'[d] = "flushing" /\ UNCHANGED step
         \/ Flush(d) \/ Note(d)
<1> USE DEF TypeOK
<1>1. ASSUME NEW x \in Requests, Send(x) \/ Retry(x) \/ Rate(x) \/ RetryStep(x) \/ BlameStep(x)
      PROVE  UNCHANGED doc
  BY <1>1 DEF Send, Retry, Rate, RetryStep, DropAnswer, FindQuestion, ClearExact, ClearSemantic,
              DropQuestion, BlameStep, FindBlamed, ClearBlamedExact, ClearBlamedSemantic
<1>2. ASSUME NEW x \in Requests, ChatStep(x) PROVE UNCHANGED doc
  BY <1>2 DEF ChatStep, Limit, Ask, LookUp, Load, Match, Promote, Route, Retrieve, Generate,
              Save, CacheExact, CacheSemantic
<1>3. ASSUME NEW c \in Docs, c # d, Store(c) \/ Delete(c) \/ Flush(c) \/ Note(c)
      PROVE  doc'[d] = doc[d]
  BY <1>3 DEF Store, Delete, Flush, Note
<1>4. CASE Store(d) \/ Delete(d)
  BY <1>4 DEF Store, Delete
<1>5. CASE Expire \/ UNCHANGED vars
  BY <1>5 DEF Expire, vars
<1> QED BY <1>1, <1>2, <1>3, <1>4, <1>5 DEF Next

LEMMA BusyComesFrom ==
  ASSUME TypeOK, [Next]_vars, NEW r \in Requests, Busy(r)'
  PROVE  Busy(r) \/ step[r] = "idle"
<1>1. CASE GoesOn
  BY <1>1 DEF GoesOn
<1>2. CASE Starts
  <2>1. ASSUME NEW x \in Requests, Send(x) \/ Retry(x)
        PROVE  Busy(r) \/ step[r] = "idle"
    BY <2>1 DEF Send, Retry, StepTo, TypeOK, Busy, Streaming
  <2>2. CASE UNCHANGED step
    BY <2>2 DEF Busy, Streaming
  <2> QED BY <1>2, <2>1, <2>2 DEF Starts, Rate, Delete
<1> QED BY <1>1, <1>2, NothingStarts

LEMMA FlushStep ==
  ASSUME Client = "settled", Faults \cap {"redis", "crash"} = {}
  PROVE  SettledTyped /\ FlushInv /\ [Next]_vars => FlushInv'
<1> SUFFICES ASSUME SettledTyped, FlushInv, [Next]_vars PROVE FlushInv'
  OBVIOUS
<1>1. TypeOK /\ CacheInv /\ OneAtATime /\ ~Crash
  BY DEF SettledTyped, HistTyped, Inv, Crash, Fault
<1>2. ASSUME NEW d \in Docs, NEW e \in semantic', doc'[d] \in {"noting", "deleted"}
      PROVE  d \notin grounds'[e]
  <2>1. e \in Requests
    BY <1>1, TypeStep DEF SettledTyped, HistTyped, TypeOK
  <2>2. CASE step[e] = "cachingSemantic" /\ UNCHANGED <<grounds, doc>>
    BY <1>1, <1>2, <2>1, <2>2 DEF FlushInv, Busy, LateSteps
  <2>3. CASE e \in semantic
    <3>1. grounds'[e] = grounds[e]
      BY <1>1, <2>1, <2>3, GroundsMove DEF CacheInv, Sound, Fixed
    <3>2. doc[d] \in {"noting", "deleted"} \/ Flush(d)
      BY <1>1, <1>2, DocMove DEF Note
    <3>3. ~Flush(d)
      BY <1>2 DEF Flush, WipeSemantic, Fault
    <3> QED BY <2>3, <3>1, <3>2, <3>3 DEF FlushInv
  <2> QED BY <1>1, <1>2, <2>1, <2>2, <2>3, GroundsMove
<1>3. ASSUME NEW r \in Requests, Busy(r)', NEW d \in grounds'[r]
      PROVE  doc'[d] = "stored"
  <2>1. d \in Docs
    BY <1>1, <1>3, TypeStep DEF SettledTyped, HistTyped, TypeOK
  <2>2. CASE step[r] = "retrieving" /\ UNCHANGED doc /\ \A c \in grounds'[r] : doc[c] = "stored"
    BY <1>3, <2>2
  <2>3. CASE grounds'[r] = grounds[r]
    <3>1. Busy(r) \/ step[r] = "idle"
      BY <1>1, <1>3, BusyComesFrom
    <3>2. doc[d] = "stored" /\ Busy(r)
      BY <1>3, <2>3, <3>1 DEF FlushInv
    <3>3. ~(MayStart /\ UNCHANGED step)
      BY <3>2 DEF MayStart, Busy
    <3> QED BY <1>1, <2>1, <3>2, <3>3, DocMove DEF Flush, Note
  <2> QED BY <1>1, <2>2, <2>3, GroundsMove
<1>4. ASSUME NEW r \in Requests, step'[r] = "idle" PROVE grounds'[r] = {}
  BY <1>1, <1>4, GroundsMove DEF FlushInv
<1> QED BY <1>2, <1>3, <1>4 DEF FlushInv

\* With a client that waits for the server to settle, Redis reachable and no
\* crash between the steps of a deletion, the semantic cache never again holds
\* an answer drawn from a document whose deletion got past DocumentService's
\* flushSessionCache.
THEOREM DeletionsFlush ==
  ASSUME Client = "settled", Faults \cap {"redis", "crash"} = {}
  PROVE  Spec => []FlushPurges
<1>1. Init => FlushInv
  BY DEF Init, FlushInv, Busy, Streaming, StreamSteps, RetrySteps, LateSteps
<1>2. FlushInv => FlushPurges
  BY DEF FlushInv, FlushPurges
<1> QED BY <1>1, <1>2, SpecSettled, FlushStep, PTL DEF Spec

-----------------------------------------------------------------------------
(* Turns.  With one thing at a time every answer stays right below its      *)
(* question, and a retry takes the two of the newest turn away, or a        *)
(* question that was never answered.                                        *)

Replacing == {"clearingExact", "clearingSemantic", "droppingQuestion"}
Unsaved == {"lookingUp", "loading", "matching", "routing", "retrieving", "generating", "saving"}

\* The answer is gone or was never there.
Rolling == RetrySteps \ {"droppingAnswer"}

Paired == \A a \in At("assistant") : /\ a - 1 \in DOMAIN messages
                                     /\ messages[a - 1] = <<"user", messages[a][2]>>

PairInv ==
  /\ Paired
  /\ \A r \in Requests :
       /\ step[r] \in Unsaved => LastIs(messages, r)
       /\ step[r] = "droppingAnswer" =>
            \E a \in At("assistant") : /\ messages[a] = <<"assistant", dropped[r]>>
                                       /\ \A b \in At("assistant") : b <= a
       /\ step[r] \in Rolling => \A a \in At("assistant") : \E u \in At("user") : a < u
       /\ step[r] \in Replacing =>
            \E u \in At("user") : /\ messages[u] = <<"user", target[r]>>
                                  /\ \A k \in At("user") : k <= u

\* Where the steps of a retry, and an unsaved answer, come from.
LEMMA TurnComesFrom ==
  ASSUME TypeOK, [Next]_vars, NEW r \in Requests
  PROVE  /\ step'[r] \in Unsaved => \/ step[r] \in Unsaved
                                    \/ messages' = Append(messages, <<"user", r>>)
         /\ step'[r] = "droppingAnswer" =>
              \/ step[r] = "droppingAnswer" /\ dropped'[r] = dropped[r]
              \/ /\ At("assistant") # {} /\ UNCHANGED messages
                 /\ dropped'[r] = messages[Newest(At("assistant"))][2]
         /\ step'[r] \in Rolling => \/ step[r] \in Rolling
                                    \/ DropsAnswer(r)
                                    \/ At("assistant") = {} /\ UNCHANGED messages
         /\ step'[r] \in Replacing =>
              \/ step[r] \in Replacing /\ target'[r] = target[r]
              \/ /\ At("user") # {} /\ UNCHANGED messages
                 /\ target'[r] = messages[Newest(At("user"))][2]
<1> DEFINE Same(x) == step'[x] = step[x] /\ dropped'[x] = dropped[x] /\ target'[x] = target[x]
           Now == RetrySteps \cup Unsaved
<1> USE DEF TypeOK, StepTo, turnVars, cacheVars, blameVars, Unsaved, Rolling, Replacing, RetrySteps
<1>1. CASE Send(r)
  BY <1>1 DEF Send
<1>2. CASE Retry(r)
  BY <1>2 DEF Retry
<1>3. CASE DropAnswer(r)
  BY <1>3 DEF DropAnswer, DropsAnswer
<1>4. CASE FindQuestion(r)
  BY <1>4 DEF FindQuestion
<1>5. CASE ClearExact(r) \/ ClearSemantic(r) \/ DropQuestion(r)
  BY <1>5 DEF ClearExact, ClearSemantic, DropQuestion
<1>6. CASE Limit(r) \/ Ask(r) \/ LookUp(r) \/ Load(r)
  BY <1>6 DEF Limit, Ask, LookUp, Load
<1>7. CASE Match(r) \/ Promote(r) \/ Route(r)
  BY <1>7 DEF Match, Promote, Route
<1>8. CASE Retrieve(r) \/ Generate(r) \/ Save(r) \/ CacheExact(r) \/ CacheSemantic(r)
  BY <1>8 DEF Retrieve, Generate, Save, CacheExact, CacheSemantic
<1>9. ASSUME NEW x \in Requests, x # r, Send(x) \/ Retry(x) \/ RetryStep(x) PROVE Same(r)
  BY <1>9 DEF Send, Retry, RetryStep, DropAnswer, FindQuestion, ClearExact, ClearSemantic,
              DropQuestion
<1>10. ASSUME NEW x \in Requests, x # r, ChatStep(x) PROVE Same(r)
  BY <1>10 DEF ChatStep, Limit, Ask, LookUp, Load, Match, Promote, Route, Retrieve, Generate,
               Save, CacheExact, CacheSemantic
<1>11. ASSUME NEW x \in Requests, Rate(x) \/ BlameStep(x) PROVE Same(r)
  BY <1>11 DEF Rate, BlameStep, FindBlamed, ClearBlamedExact, ClearBlamedSemantic
<1>12. ASSUME NEW d \in Docs, Store(d) \/ Delete(d) \/ Flush(d) \/ Note(d) PROVE Same(r)
  BY <1>12 DEF Store, Delete, Flush, Note
<1>13. CASE Expire \/ UNCHANGED vars
  BY <1>13 DEF Expire, vars
<1>14. CASE Crash
  <2>1. UNCHANGED <<dropped, target>> /\ (step'[r] = step[r] \/ step'[r] \in {"lost", "served", "done"})
    BY <1>14 DEF Crash
  <2> QED BY <2>1
<1> QED BY <1>1, <1>2, <1>3, <1>4, <1>5, <1>6, <1>7, <1>8, <1>9, <1>10, <1>11, <1>12, <1>13, <1>14
           DEF Next, RetryStep, ChatStep

\* A message below all answers may be appended, and the last one of the
\* turns removed.
LEMMA PairsAppended ==
  ASSUME messages \in Seq(Message), Paired, NEW m \in Message, messages' = Append(messages, m),
         m[1] = "assistant" => LastIs(messages, m[2])
  PROVE  Paired'
<1>1. /\ Len(messages) \in Nat /\ DOMAIN messages = 1..Len(messages)
      /\ DOMAIN messages' = 1..(Len(messages) + 1)
      /\ \A i \in 1..Len(messages) : messages'[i] = messages[i]
      /\ messages'[Len(messages) + 1] = m
  BY AppendedHistory
<1> SUFFICES ASSUME NEW a \in DOMAIN messages', messages'[a][1] = "assistant"
             PROVE  a - 1 \in DOMAIN messages' /\ messages'[a - 1] = <<"user", messages'[a][2]>>
  BY DEF Paired, At
<1>2. CASE a = Len(messages) + 1
  <2>1. LastIs(messages, m[2])
    BY <1>1, <1>2
  <2>2. a - 1 = Len(messages) /\ Len(messages) \in 1..Len(messages)
    BY <1>1, <1>2, <2>1 DEF LastIs
  <2> QED BY <1>1, <1>2, <2>1, <2>2 DEF LastIs
<1>3. CASE a \in 1..Len(messages)
  <2>1. a - 1 \in 1..Len(messages) /\ messages[a - 1] = <<"user", messages[a][2]>>
    BY <1>1, <1>3 DEF Paired, At
  <2> QED BY <1>1, <1>3, <2>1
<1> QED BY <1>1, <1>2, <1>3

LEMMA PairsRemoved ==
  ASSUME messages \in Seq(Message), NEW i \in DOMAIN messages, messages' = RemoveAt(messages, i),
         Paired, \A a \in At("assistant") : a <= i
  PROVE  /\ Paired'
         /\ \A a \in At("assistant")' : a < i /\ a \in At("assistant")
         /\ \A k \in DOMAIN messages : k < i => k \in DOMAIN messages' /\ messages'[k] = messages[k]
<1>1. /\ Len(messages) \in Nat /\ DOMAIN messages = 1..Len(messages)
      /\ DOMAIN messages' = 1..(Len(messages) - 1)
      /\ \A j \in DOMAIN messages' : messages'[j] = IF j < i THEN messages[j] ELSE messages[j + 1]
  BY RemovedIsSeq
<1>2. ASSUME NEW a \in At("assistant")' PROVE a < i /\ a \in At("assistant")
  <2>1. a \in DOMAIN messages' /\ messages'[a][1] = "assistant"
    BY <1>2 DEF At
  <2>2. CASE ~(a < i)
    <3>1. a + 1 \in At("assistant")
      BY <1>1, <2>1, <2>2 DEF At
    <3> QED BY <1>1, <2>1, <2>2, <3>1
  <2> QED BY <1>1, <2>1, <2>2 DEF At
<1>3. ASSUME NEW k \in DOMAIN messages, k < i
      PROVE  k \in DOMAIN messages' /\ messages'[k] = messages[k]
  BY <1>1, <1>3
<1>4. ASSUME NEW a \in At("assistant")'
      PROVE  a - 1 \in DOMAIN messages' /\ messages'[a - 1] = <<"user", messages'[a][2]>>
  <2>1. a < i /\ a \in At("assistant") /\ a \in DOMAIN messages
    BY <1>2, <1>4 DEF At
  <2>2. a - 1 \in DOMAIN messages /\ messages[a - 1] = <<"user", messages[a][2]>> /\ a - 1 < i
    BY <1>1, <2>1 DEF Paired
  <2> QED BY <1>3, <2>1, <2>2
<1> QED BY <1>2, <1>3, <1>4 DEF Paired
\* What a retry removes has no answer below it.
LEMMA PairedStep == SettledTyped /\ PairInv /\ [Next]_vars => Paired'
<1> SUFFICES ASSUME SettledTyped, PairInv, [Next]_vars PROVE Paired'
  OBVIOUS
<1>1. TypeOK /\ messages \in Seq(Message) /\ HistInv /\ Paired
  BY DEF SettledTyped, HistTyped, TypeOK, PairInv
<1>2. Len(messages) \in Nat /\ DOMAIN messages = 1..Len(messages)
  BY <1>1
<1>3. CASE UNCHANGED messages
  BY <1>1, <1>3 DEF Paired, At
<1>4. ASSUME NEW r \in Requests, AddsQuestion(r) PROVE Paired'
  BY <1>1, <1>4, Messages, PairsAppended DEF AddsQuestion
<1>5. ASSUME NEW r \in Requests, AddsAnswer(r) PROVE Paired'
  <2>1. LastIs(messages, r)
    BY <1>5 DEF AddsAnswer, PairInv, Unsaved
  <2> QED BY <1>1, <1>5, <2>1, Messages, PairsAppended DEF AddsAnswer
<1>6. ASSUME NEW d \in Docs, AddsNote(d) PROVE Paired'
  BY <1>1, <1>6, Messages, PairsAppended DEF AddsNote
<1>7. ASSUME NEW r \in Requests, DropsAnswer(r) PROVE Paired'
  <2>1. PICK i \in DOMAIN messages : /\ messages[i] = <<"assistant", dropped[r]>>
                                     /\ messages' = RemoveAt(messages, i)
    BY <1>7 DEF DropsAnswer, Drop
  <2>2. PICK a \in At("assistant") : /\ messages[a] = <<"assistant", dropped[r]>>
                                     /\ \A b \in At("assistant") : b <= a
    BY <1>7 DEF DropsAnswer, PairInv
  <2>3. a = i
    BY <1>1, <2>1, <2>2 DEF HistInv, At
  <2> QED BY <1>1, <2>1, <2>2, <2>3, PairsRemoved
<1>8. ASSUME NEW r \in Requests, DropsQuestion(r) PROVE Paired'
  <2>1. PICK i \in DOMAIN messages : /\ messages[i] = <<"user", target[r]>>
                                     /\ messages' = RemoveAt(messages, i)
    BY <1>8 DEF DropsQuestion, Drop
  <2>2. PICK u \in At("user") : /\ messages[u] = <<"user", target[r]>>
                                /\ \A k \in At("user") : k <= u
    BY <1>8 DEF DropsQuestion, PairInv, Replacing
  <2>3. u = i
    BY <1>1, <2>1, <2>2 DEF HistInv, At
  <2>4. \A a \in At("assistant") : \E k \in At("user") : a < k
    BY <1>8 DEF DropsQuestion, PairInv, Rolling, RetrySteps
  <2>5. \A a \in At("assistant") : a <= i
    <3>1. \A role : At(role) \subseteq 1..Len(messages)
      BY <1>2 DEF At
    <3> QED BY <1>2, <2>2, <2>3, <2>4, <3>1
  <2> QED BY <1>1, <2>1, <2>5, PairsRemoved
<1> QED BY <1>1, <1>3, <1>4, <1>5, <1>6, <1>7, <1>8, Moves

\* With the newest answer gone all others have a question below them: that
\* which the answer was to.
LEMMA RolledBack ==
  ASSUME TypeOK, HistInv, PairInv, NEW r \in Requests, DropsAnswer(r)
  PROVE  \A b \in At("assistant")' : \E u \in At("user")' : b < u
<1>1. messages \in Seq(Message) /\ Len(messages) \in Nat /\ DOMAIN messages = 1..Len(messages)
  BY DEF TypeOK
<1>2. PICK i \in DOMAIN messages : /\ messages[i] = <<"assistant", dropped[r]>>
                                   /\ messages' = RemoveAt(messages, i)
  BY DEF DropsAnswer, Drop
<1>3. PICK a \in At("assistant") : /\ messages[a] = <<"assistant", dropped[r]>>
                                   /\ \A b \in At("assistant") : b <= a
  BY DEF DropsAnswer, PairInv
<1>4. a = i
  BY <1>2, <1>3 DEF HistInv, At
<1>5. /\ \A b \in At("assistant")' : b < i /\ b \in At("assistant")
      /\ \A k \in DOMAIN messages : k < i => k \in DOMAIN messages' /\ messages'[k] = messages[k]
  BY <1>1, <1>2, <1>3, <1>4, PairsRemoved DEF PairInv
<1>6. i - 1 \in DOMAIN messages /\ messages[i - 1][1] = "user"
  BY <1>3, <1>4 DEF PairInv, Paired
<1>7. i - 1 \in At("user")'
  BY <1>1, <1>5, <1>6 DEF At
<1>8. ASSUME NEW b \in At("assistant")' PROVE b < i - 1
  <2>1. b < i /\ b \in 1..Len(messages) /\ messages[b][1] = "assistant"
    BY <1>1, <1>5, <1>8 DEF At
  <2>2. b # i - 1
    BY <1>6, <2>1
  <2> QED BY <1>1, <2>1, <2>2
<1> QED BY <1>7, <1>8

LEMMA PairStep == SettledTyped /\ PairInv /\ [Next]_vars => PairInv'
<1> SUFFICES ASSUME SettledTyped, PairInv, [Next]_vars PROVE PairInv'
  OBVIOUS
<1>1. TypeOK /\ messages \in Seq(Message) /\ HistInv
  BY DEF SettledTyped, HistTyped, TypeOK
<1>2. Len(messages) \in Nat /\ \A role : At(role) \in SUBSET (1..Len(messages))
  BY <1>1 DEF At
<1>3. \A role : At(role) # {} => /\ Newest(At(role)) \in At(role)
                                 /\ \A j \in At(role) : j <= Newest(At(role))
  BY <1>2, NewestIsThere
<1>4. ASSUME UNCHANGED messages PROVE \A role : At(role)' = At(role)
  BY <1>4 DEF At
<1>5. ASSUME NEW r \in Requests, step'[r] \in Unsaved PROVE LastIs(messages, r)'
  <2>1. CASE messages' = Append(messages, <<"user", r>>)
    BY <1>1, <2>1, Messages DEF LastIs
  <2>2. CASE step[r] \in Unsaved
    <3>1. UNCHANGED messages
      BY <1>5, <2>2, OwnHistory DEF Busy, Streaming, StreamSteps, LateSteps, Unsaved, AddsQuestion,
                                    AddsAnswer, DropsAnswer, DropsQuestion, Answered
    <3> QED BY <2>2, <3>1 DEF PairInv, LastIs
  <2> QED BY <1>1, <1>5, <2>1, <2>2, TurnComesFrom
<1>6. ASSUME NEW r \in Requests, step'[r] = "droppingAnswer"
      PROVE  \E a \in At("assistant")' : /\ messages'[a] = <<"assistant", dropped'[r]>>
                                         /\ \A b \in At("assistant")' : b <= a
  <2>1. CASE step[r] = "droppingAnswer" /\ dropped'[r] = dropped[r]
    <3>1. UNCHANGED messages
      BY <1>6, <2>1, OwnHistory DEF Busy, Streaming, StreamSteps, RetrySteps, AddsQuestion,
                                    AddsAnswer, DropsAnswer, DropsQuestion
    <3> QED BY <1>4, <2>1, <3>1 DEF PairInv
  <2>2. CASE /\ At("assistant") # {} /\ UNCHANGED messages
             /\ dropped'[r] = messages[Newest(At("assistant"))][2]
    <3>1. messages[Newest(At("assistant"))] = <<"assistant", dropped'[r]>>
      BY <1>1, <2>2, NewestMessage DEF Message
    <3> QED BY <1>3, <1>4, <2>2, <3>1
  <2> QED BY <1>1, <1>6, <2>1, <2>2, TurnComesFrom
<1>7. ASSUME NEW r \in Requests, step'[r] \in Rolling
      PROVE  \A a \in At("assistant")' : \E u \in At("user")' : a < u
  <2>1. CASE DropsAnswer(r)
    BY <1>1, <2>1, RolledBack
  <2>2. CASE step[r] \in Rolling
    <3>1. UNCHANGED messages
      BY <1>7, <2>2, OwnHistory DEF Busy, Streaming, StreamSteps, Rolling, RetrySteps, AddsQuestion,
                                    AddsAnswer, DropsAnswer, DropsQuestion
    <3> QED BY <1>4, <2>2, <3>1 DEF PairInv
  <2>3. CASE At("assistant") = {} /\ UNCHANGED messages
    BY <1>4, <2>3
  <2> QED BY <1>1, <1>7, <2>1, <2>2, <2>3, TurnComesFrom
<1>8. ASSUME NEW r \in Requests, step'[r] \in Replacing
      PROVE  \E u \in At("user")' : /\ messages'[u] = <<"user", target'[r]>>
                                    /\ \A k \in At("user")' : k <= u
  <2>1. CASE step[r] \in Replacing /\ target'[r] = target[r]
    <3>1. UNCHANGED messages
      BY <1>8, <2>1, OwnHistory DEF Busy, Streaming, StreamSteps, Replacing, RetrySteps,
                                    AddsQuestion, AddsAnswer, DropsAnswer, DropsQuestion
    <3> QED BY <1>4, <2>1, <3>1 DEF PairInv
  <2>2. CASE /\ At("user") # {} /\ UNCHANGED messages
             /\ target'[r] = messages[Newest(At("user"))][2]
    <3>1. messages[Newest(At("user"))] = <<"user", target'[r]>>
      BY <1>1, <2>2, NewestMessage DEF Message
    <3> QED BY <1>3, <1>4, <2>2, <3>1
  <2> QED BY <1>1, <1>8, <2>1, <2>2, TurnComesFrom
<1> QED BY <1>5, <1>6, <1>7, <1>8, PairedStep DEF PairInv, LastIs

LEMMA SpecPaired ==
  ASSUME Client = "settled" PROVE Spec => [](SettledTyped /\ PairInv)
<1>1. Init => PairInv
  BY DEF Init, PairInv, Paired, At, Unsaved, Rolling, Replacing, RetrySteps
<1> QED BY <1>1, SpecSettled, PairStep, PTL DEF Spec

-----------------------------------------------------------------------------
(* Thumbs-down.  With one thing at a time the question above an answer is   *)
(* its own, and nothing writes the answer to a cache any more.              *)

BlameInv ==
  \A r \in Requests :
    /\ blame[r] # "none" => step[r] = "done"
    /\ blame[r] \in {"clearingExact", "clearingSemantic", "done"} => blamed[r] = question[r]
    /\ blame[r] \in {"clearingSemantic", "done"} =>
         /\ \A q \in Questions : question[r] = q => exact[q] # r
         /\ \A p \in Requests : step[p] = "promoting" => served[p] # r
    /\ blame[r] = "done" => r \notin semantic

\* What becomes of a thumbs-down.
LEMMA BlameMove ==
  ASSUME TypeOK, [Next]_vars, NEW r \in Requests
  PROVE  /\ step[r] = "done" => step'[r] = "done"
         /\ \/ blame'[r] = blame[r] /\ blamed'[r] = blamed[r]
            \/ Rate(r) \/ BlameStep(r)
            \/ blame'[r] = "lost" /\ blame[r] \in BlameSteps
<1> DEFINE Same == blame'[r] = blame[r] /\ blamed'[r] = blamed[r]
<1> USE DEF TypeOK, StepTo, turnVars, cacheVars, blameVars
<1>1. ASSUME NEW x \in Requests, Send(x) \/ Retry(x) \/ RetryStep(x)
      PROVE  Same /\ (step[r] = "done" => step'[r] = "done")
  BY <1>1 DEF Send, Retry, RetryStep, DropAnswer, FindQuestion, ClearExact, ClearSemantic,
              DropQuestion
<1>2. ASSUME NEW x \in Requests, ChatStep(x)
      PROVE  Same /\ (step[r] = "done" => step'[r] = "done")
  BY <1>2 DEF ChatStep, Limit, Ask, LookUp, Load, Match, Promote, Route, Retrieve, Generate,
              Save, CacheExact, CacheSemantic
<1>3. ASSUME NEW x \in Requests, Rate(x) \/ BlameStep(x)
      PROVE  (Same \/ x = r) /\ UNCHANGED step
  BY <1>3 DEF Rate, BlameStep, FindBlamed, ClearBlamedExact, ClearBlamedSemantic, BlameTo
<1>4. ASSUME NEW d \in Docs, Store(d) \/ Delete(d) \/ Flush(d) \/ Note(d)
      PROVE  Same /\ UNCHANGED step
  BY <1>4 DEF Store, Delete, Flush, Note
<1>5. CASE Expire \/ UNCHANGED vars
  BY <1>5 DEF Expire, vars
<1>6. CASE Crash
  <2>1. step[r] = "done" => step'[r] = "done"
    BY <1>6 DEF Crash, Streaming, StreamSteps, RetrySteps, LateSteps
  <2>2. Same \/ (blame'[r] = "lost" /\ blame[r] \in BlameSteps)
    BY <1>6 DEF Crash
  <2> QED BY <2>1, <2>2
<1> QED BY <1>1, <1>2, <1>3, <1>4, <1>5, <1>6 DEF Next

\* What is written to the exact cache, and what is about to be promoted.
LEMMA ExactMove ==
  ASSUME TypeOK, [Next]_vars
  PROVE  /\ \A q \in Questions :
              \/ exact'[q] = exact[q] \/ exact'[q] = Nobody
              \/ \E x \in Requests : /\ exact'[q] = x /\ step[x] = "cachingExact"
              \/ \E p \in Requests : /\ exact'[q] = served[p] /\ step[p] = "promoting"
         /\ \A p \in Requests : step'[p] = "promoting" =>
              \/ step[p] = "promoting" /\ served'[p] = served[p]
              \/ step[p] = "matching" /\ served'[p] \in semantic
<1> DEFINE Written == \A q \in Questions :
             \/ exact'[q] = exact[q] \/ exact'[q] = Nobody
             \/ \E x \in Requests : /\ exact'[q] = x /\ step[x] = "cachingExact"
             \/ \E p \in Requests : /\ exact'[q] = served[p] /\ step[p] = "promoting"
           Promoted == \A p \in Requests : step'[p] = "promoting" =>
             \/ step[p] = "promoting" /\ served'[p] = served[p]
             \/ step[p] = "matching" /\ served'[p] \in semantic
<1> USE DEF TypeOK, StepTo, ExactTo, turnVars, cacheVars, blameVars
<1>1. ASSUME NEW x \in Requests, Send(x) \/ Retry(x) PROVE Written /\ Promoted
  BY <1>1 DEF Send, Retry
<1>2. ASSUME NEW x \in Requests, RetryStep(x) PROVE Written /\ Promoted
  BY <1>2 DEF RetryStep, DropAnswer, FindQuestion, ClearExact, ClearSemantic, DropQuestion
<1>3. ASSUME NEW x \in Requests, Match(x) PROVE Written /\ Promoted
  BY <1>3 DEF Match, Best, Seen
<1>4. ASSUME NEW x \in Requests, Promote(x) \/ CacheExact(x) PROVE Written /\ Promoted
  BY <1>4 DEF Promote, CacheExact
<1>5. ASSUME NEW x \in Requests, ChatStep(x), ~Match(x), ~Promote(x), ~CacheExact(x)
      PROVE  Written /\ Promoted
  BY <1>5 DEF ChatStep, Limit, Ask, LookUp, Load, Route, Retrieve, Generate, Save, CacheSemantic
<1>6. ASSUME NEW x \in Requests, Rate(x) \/ BlameStep(x) PROVE Written /\ Promoted
  BY <1>6 DEF Rate, BlameStep, FindBlamed, ClearBlamedExact, ClearBlamedSemantic
<1>7. ASSUME NEW d \in Docs, Store(d) \/ Delete(d) \/ Flush(d) \/ Note(d)
      PROVE  Written /\ Promoted
  BY <1>7 DEF Store, Delete, Flush, Note
<1>8. CASE Expire \/ UNCHANGED vars
  BY <1>8 DEF Expire, vars
<1>9. CASE Crash
  <2>1. UNCHANGED <<exact, served>> /\ \A p \in Requests : step'[p] = "promoting" => step[p] = "promoting"
    BY <1>9 DEF Crash, LateSteps
  <2> QED BY <2>1
<1> QED BY <1>1, <1>2, <1>3, <1>4, <1>5, <1>6, <1>7, <1>8, <1>9 DEF Next

\* The question found above an answer is the question of the answer.
LEMMA FoundQuestion ==
  ASSUME TypeOK, HistInv, Paired, NEW r \in Requests, FindBlamed(r), blame'[r] # "ignored"
  PROVE  blame'[r] = "clearingExact" /\ blamed'[r] = question[r]
<1> DEFINE answer == {i \in At("assistant") : messages[i][2] = r}
           asked == {i \in At("user") : \A j \in answer : i < j}
<1>1. /\ answer # {} /\ asked # {} /\ blame'[r] = "clearingExact"
      /\ blamed'[r] = question[messages[Newest(asked)][2]]
  BY DEF FindBlamed, BlameTo, TypeOK
<1>2. /\ messages \in Seq(Message) /\ Len(messages) \in Nat
      /\ DOMAIN messages = 1..Len(messages) /\ asked \in SUBSET (1..Len(messages))
  BY DEF At, TypeOK
<1>3. PICK a \in At("assistant") : messages[a][2] = r
  BY <1>1
<1>4. a \in 1..Len(messages) /\ a - 1 \in 1..Len(messages) /\ messages[a - 1] = <<"user", r>>
  BY <1>2, <1>3 DEF At, Paired
<1>5. \A i \in At("assistant") : messages[i][2] = r => i = a
  <2>1. \A i \in At("assistant") : messages[i] = <<"assistant", messages[i][2]>>
    BY <1>2 DEF At, Message
  <2> QED BY <1>3, <2>1 DEF HistInv, At
<1>6. a - 1 \in asked /\ \A i \in asked : i <= a - 1
  BY <1>2, <1>3, <1>4, <1>5 DEF At
<1>7. Newest(asked) \in asked /\ \A i \in asked : i <= Newest(asked)
  <2> HIDE DEF asked
  <2> QED BY <1>2, <1>6, NewestIsThere
<1>8. Newest(asked) = a - 1
  <2> HIDE DEF asked
  <2>1. Newest(asked) \in 1..Len(messages)
    BY <1>2, <1>7
  <2> QED BY <1>4, <1>6, <1>7, <2>1
<1> HIDE DEF asked
<1> QED BY <1>1, <1>4, <1>8

LEMMA BlameInvStep ==
  ASSUME Client = "settled", "redis" \notin Faults
  PROVE  SettledTyped /\ PairInv /\ BlameInv /\ [Next]_vars => BlameInv'
<1> SUFFICES ASSUME SettledTyped, PairInv, BlameInv, [Next]_vars, NEW r \in Requests
             PROVE  /\ blame'[r] # "none" => step'[r] = "done"
                    /\ blame'[r] \in {"clearingExact", "clearingSemantic", "done"}
                         => blamed'[r] = question'[r]
                    /\ blame'[r] \in {"clearingSemantic", "done"} =>
                         /\ \A q \in Questions : question'[r] = q => exact'[q] # r
                         /\ \A p \in Requests : step'[p] = "promoting" => served'[p] # r
                    /\ blame'[r] = "done" => r \notin semantic'
  BY DEF BlameInv
<1>1. TypeOK /\ HistInv /\ Paired /\ Forward
  BY ForwardStep DEF SettledTyped, HistTyped, PairInv
<1>2. ASSUME blame'[r] # "none" PROVE step[r] = "done" /\ step'[r] = "done" /\ question'[r] = question[r]
  <2>1. CASE blame[r] # "none"
    BY <1>1, <2>1, BlameMove DEF BlameInv, Forward, Early, RetrySteps
  <2>2. CASE Rate(r)
    <3>1. step[r] = "done" /\ UNCHANGED <<step, question>>
      BY <2>2 DEF Rate, MayStart, turnVars
    <3> QED BY <3>1
  <2>3. BlameStep(r) => blame[r] # "none"
    BY DEF BlameStep, FindBlamed, ClearBlamedExact, ClearBlamedSemantic, BlameTo
  <2> QED BY <1>1, <1>2, <2>1, <2>2, <2>3, BlameMove DEF BlameSteps
<1>3. CASE blame'[r] = blame[r] /\ blamed'[r] = blamed[r]
  <2>1. ASSUME blame[r] \in {"clearingSemantic", "done"}, NEW p \in Requests, step'[p] = "promoting"
        PROVE  served'[p] # r
    <3>1. ~(blame[r] = "clearingSemantic" /\ step[p] \in {"promoting", "matching"})
      BY DEF SettledTyped, OneAtATime, Rating, BlameSteps, Busy, Streaming, StreamSteps, LateSteps
    <3> QED BY <1>1, <2>1, <3>1, ExactMove DEF BlameInv
  <2>2. ASSUME blame[r] \in {"clearingSemantic", "done"}, NEW q \in Questions, question[r] = q
        PROVE  exact'[q] # r
    BY <1>1, <1>2, <1>3, <2>2, ExactMove, ChatAssumption DEF BlameInv
  <2>3. blame[r] = "done" => r \notin semantic'
    BY <1>1, <1>2, <1>3, GroundsMove DEF BlameInv
  <2> QED BY <1>2, <1>3, <2>1, <2>2, <2>3 DEF BlameInv
<1>4. CASE Rate(r)
  <2>1. blame'[r] = "finding"
    BY <1>1, <1>4 DEF Rate, TypeOK
  <2> QED BY <1>2, <2>1
<1>5. CASE FindBlamed(r)
  <2>1. blame'[r] \in {"clearingExact", "ignored"}
    BY <1>1, <1>5 DEF FindBlamed, BlameTo, TypeOK
  <2> QED BY <1>1, <1>2, <1>5, <2>1, FoundQuestion
<1>6. CASE ClearBlamedExact(r)
  <2>1. /\ blame[r] = "clearingExact" /\ blame'[r] = "clearingSemantic"
        /\ exact' = [exact EXCEPT ![blamed[r]] = Nobody]
        /\ UNCHANGED <<step, turnVars, blamed>>
    BY <1>1, <1>6 DEF ClearBlamedExact, BlameTo, ExactTo, Fault, TypeOK
  <2>2. blamed[r] = question[r]
    BY <2>1 DEF BlameInv
  <2>3. \A q \in Questions : question[r] = q => exact'[q] # r
    BY <1>1, <2>1, <2>2, ChatAssumption DEF TypeOK
  <2>4. \A p \in Requests : step[p] # "promoting"
    BY <2>1 DEF SettledTyped, OneAtATime, Rating, BlameSteps, Busy, LateSteps
  <2> QED BY <1>2, <2>1, <2>2, <2>3, <2>4 DEF turnVars
<1>7. CASE ClearBlamedSemantic(r)
  <2>1. /\ blame[r] = "clearingSemantic" /\ blame'[r] = "done"
        /\ semantic' = {} /\ UNCHANGED <<step, turnVars, exact, blamed>>
    BY <1>1, <1>7 DEF ClearBlamedSemantic, BlameTo, WipeSemantic, Fault, TypeOK
  <2> QED BY <1>2, <2>1 DEF BlameInv, turnVars
<1>8. CASE blame'[r] = "lost"
  BY <1>2, <1>8
<1> QED BY <1>1, <1>3, <1>4, <1>5, <1>6, <1>7, <1>8, BlameMove DEF BlameStep

\* With a client that waits for the server to settle, and Redis reachable, an
\* answer that got a thumbs-down is in neither cache once
\* ChatService.invalidateCacheForTrace is through, and does not come back.
THEOREM ThumbsDownPurges ==
  ASSUME Client = "settled", "redis" \notin Faults
  PROVE  Spec => []FeedbackPurges
<1>1. Init => BlameInv
  BY DEF Init, BlameInv
<1>2. BlameInv => FeedbackPurges
  BY DEF BlameInv, FeedbackPurges, OwnEntry
<1> QED BY <1>1, <1>2, SpecPaired, BlameInvStep, PTL DEF Spec

=============================================================================

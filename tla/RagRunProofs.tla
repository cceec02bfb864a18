---------------------------- MODULE RagRunProofs ----------------------------
(***************************************************************************)
(* What a turn promises, for any documents, limits and faults.  First the  *)
(* arithmetic of rank fusion, which needs no state; then an invariant that *)
(* follows the text from the model to the client and the history; then the *)
(* step simulation of AnswerStream.                                        *)
(***************************************************************************)
EXTENDS RagRun, FiniteSetTheorems, TLAPS

USE GroundingAssumption, RagAssumption

-----------------------------------------------------------------------------
(* Lists, arms and their merging.                                          *)

LEMMA ListIsSeq == ASSUME NEW S, NEW n \in Nat, NEW s \in Lists(S, n)
                   PROVE  s \in Seq(S) /\ Len(s) = n
BY DEF Lists

LEMMA LimitedIsSeq == ASSUME NEW s \in Seq(Chunks)
                      PROVE  /\ Limited(s, ArmLimit) \in Seq(Chunks)
                             /\ Len(Limited(s, ArmLimit)) <= ArmLimit
<1> DEFINE n == Least(ArmLimit, Len(s))
<1>1. n \in 0..Len(s) /\ n <= ArmLimit
  BY DEF Least
<1>2. SubSeq(s, 1, n) \in Seq(Chunks) /\ Len(SubSeq(s, 1, n)) = n
  <2> HIDE DEF n
  <2> QED BY <1>1
<1> QED BY <1>1, <1>2 DEF Limited

LEMMA MergedIsSeq == ASSUME NEW s \in Seq(Chunks), NEW k \in Seq(Chunks),
                            NEW m \in Merged(s, k)
                     PROVE  /\ m \in Seq(Chunks) /\ Len(m) <= Top
                            /\ \A i \in DOMAIN m : m[i] \in Members(s) \cup Members(k)
<1> DEFINE rows == Members(s) \cup Members(k)
           n == Least(Top, Cardinality(rows))
<1>1. rows \subseteq Chunks
  BY DEF Members
<1>2. n \in Nat /\ n <= Top
  <2>1. Cardinality(rows) \in Nat
    BY <1>1, FS_Subset, FS_CardinalityType
  <2> QED BY <2>1 DEF Least
<1>3. m \in Lists(rows, n)
  BY DEF Merged
<1>4. m \in Seq(rows) /\ Len(m) = n
  <2> HIDE DEF rows, n
  <2> QED BY <1>2, <1>3, ListIsSeq
<1>5. m \in Seq(Chunks)
  <2> HIDE DEF rows
  <2> QED BY <1>1, <1>4
<1>6. \A i \in DOMAIN m : m[i] \in rows
  <2> HIDE DEF rows
  <2> QED BY <1>4
<1>7. Len(m) <= Top
  <2> HIDE DEF n
  <2> QED BY <1>2, <1>4
<1> QED BY <1>5, <1>6, <1>7

LEMMA RankInArm == ASSUME NEW s \in Seq(Chunks), Len(s) <= ArmLimit, NEW c \in Members(s)
                   PROVE  RankIn(s, c) \in 1..61
<1>1. \E i \in DOMAIN s : s[i] = c
  BY DEF Members
<1>2. RankIn(s, c) \in DOMAIN s
  BY <1>1 DEF RankIn
<1>3. Len(s) \in Nat /\ DOMAIN s = 1..Len(s) /\ ArmLimit \in 1..61
  OBVIOUS
<1>4. RankIn(s, c) \in 1..Len(s)
  BY <1>2, <1>3
<1>5. ASSUME NEW m \in Nat, NEW n \in 1..61, m <= n, NEW i \in 1..m
      PROVE  i \in 1..61
  BY <1>5
<1> HIDE DEF RankIn
<1> QED BY <1>3, <1>4, <1>5, Zenon

\* Two ranks of at most 61 weigh more than any single rank.
LEMMA TwoRanksOutweighOne ==
  ASSUME NEW a \in 1..61, NEW b \in 1..61, NEW t \in 1..61
  PROVE  ((60 + a) + (60 + b)) * (60 + t) > (60 + a) * (60 + b)
<1>1. a * b <= 61 * 61
  <2>1. a * b <= 61 * b
    OBVIOUS
  <2> QED BY <2>1
<1>2. (60 + a) * (60 + b) = 3600 + 60 * a + 60 * b + a * b
  OBVIOUS
<1>3. ((60 + a) + (60 + b)) * (60 + t) >= ((60 + a) + (60 + b)) * 61
  <2> DEFINE x == (60 + a) + (60 + b)
              s == t - 1
  <2>1. x \in Nat /\ s \in Nat /\ 60 + t = 61 + s
    OBVIOUS
  <2>2. x * (61 + s) = x * 61 + x * s /\ x * s \in Nat
    <3> HIDE DEF x, s
    <3> QED BY <2>1
  <2> HIDE DEF x, s
  <2>3. x * (60 + t) >= x * 61
    BY <2>1, <2>2
  <2> QED BY <2>3 DEF x
<1> QED BY <1>1, <1>2, <1>3

\* The better pair of ranks weighs more.
LEMMA BetterRanksOutweigh ==
  ASSUME NEW a \in Nat, NEW b \in Nat, NEW c \in Nat, NEW d \in Nat,
         0 < a, 0 < b, a < c, b < d
  PROVE  (b + a) * (c * d) > (d + c) * (a * b)
<1>1. (b + a) * (c * d) = (b * d) * c + (a * c) * d
  OBVIOUS
<1>2. (d + c) * (a * b) = (b * d) * a + (a * c) * b
  OBVIOUS
<1>3. b * d \in Nat /\ b * d > 0 /\ a * c \in Nat /\ a * c > 0
  OBVIOUS
<1>4. (b * d) * c > (b * d) * a
  <2> DEFINE x == b * d
  <2>1. x \in Nat /\ x > 0
    BY <1>3
  <2>2. x * (c - a) > 0 /\ x * (c - a) = x * c - x * a
    <3> HIDE DEF x
    <3> QED BY <2>1
  <2>3. x * c \in Nat /\ x * a \in Nat
    <3> HIDE DEF x
    <3> QED BY <2>1
  <2> HIDE DEF x
  <2>4. x * c > x * a
    BY <2>2, <2>3
  <2> QED BY <2>4 DEF x
<1>5. (a * c) * d > (a * c) * b
  <2> DEFINE x == a * c
  <2>1. x \in Nat /\ x > 0
    BY <1>3
  <2> HIDE DEF x
  <2>2. x * (d - b) > 0 /\ x * (d - b) = x * d - x * b
    BY <2>1
  <2>3. x * d \in Nat /\ x * b \in Nat
    BY <2>1
  <2>4. x * d > x * b
    BY <2>2, <2>3
  <2> QED BY <2>4 DEF x
<1>6. (b * d) * c \in Nat /\ (b * d) * a \in Nat /\ (a * c) * d \in Nat /\ (a * c) * b \in Nat
  OBVIOUS
<1> QED BY <1>1, <1>2, <1>4, <1>5, <1>6

\* A chunk both arms found outranks any that only one of them found.
LEMMA AgreementWins ==
  ASSUME NEW s \in Seq(Chunks), Len(s) <= ArmLimit,
         NEW k \in Seq(Chunks), Len(k) <= ArmLimit,
         NEW c \in Members(s) \cap Members(k),
         NEW d \in Members(s) \cup Members(k),
         d \notin Members(s) \cap Members(k)
  PROVE  Above(RrfScore(s, k, c), RrfScore(s, k, d))
<1> DEFINE a == RankIn(s, c)
           b == RankIn(k, c)
<1>1. a \in 1..61 /\ b \in 1..61
  BY RankInArm
<1>2. RrfScore(s, k, c) = [num |-> (60 + a) + (60 + b), den |-> (60 + a) * (60 + b)]
  <2>1. RrfScore(s, k, c) = [num |-> 1 * (60 + b) + 1 * (60 + a), den |-> (60 + a) * (60 + b)]
    BY DEF RrfScore, Part, RrfK
  <2> HIDE DEF a, b
  <2>2. 1 * (60 + b) + 1 * (60 + a) = (60 + a) + (60 + b)
    BY <1>1
  <2> QED BY <2>1, <2>2
<1>3. PICK t \in 1..61 : RrfScore(s, k, d) = [num |-> 1, den |-> 60 + t]
  <2>0. ASSUME NEW t \in 1..61
        PROVE  /\ 1 * 1 + 0 * (60 + t) = 1 /\ (60 + t) * 1 = 60 + t
               /\ 0 * (60 + t) + 1 * 1 = 1 /\ 1 * (60 + t) = 60 + t
    OBVIOUS
  <2>1. CASE d \in Members(s)
    <3>1. RankIn(s, d) \in 1..61
      BY <2>1, RankInArm
    <3>2. RrfScore(s, k, d) = [num |-> 1 * 1 + 0 * (60 + RankIn(s, d)), den |-> (60 + RankIn(s, d)) * 1]
      BY <2>1 DEF RrfScore, Part, RrfK
    <3> HIDE DEF RankIn
    <3> QED BY <2>0, <3>1, <3>2
  <2>2. CASE d \in Members(k)
    <3>1. RankIn(k, d) \in 1..61
      BY <2>2, RankInArm
    <3>2. RrfScore(s, k, d) = [num |-> 0 * (60 + RankIn(k, d)) + 1 * 1, den |-> 1 * (60 + RankIn(k, d))]
      BY <2>2 DEF RrfScore, Part, RrfK
    <3> HIDE DEF RankIn
    <3> QED BY <2>0, <3>1, <3>2
  <2> QED BY <2>1, <2>2
<1> HIDE DEF a, b
<1>4. ((60 + a) + (60 + b)) * (60 + t) > (60 + a) * (60 + b)
  BY <1>1, TwoRanksOutweighOne
<1>5. 1 * ((60 + a) * (60 + b)) = (60 + a) * (60 + b)
  BY <1>1
<1> QED BY <1>2, <1>3, <1>4, <1>5 DEF Above

\* Of two that both arms found, one that both rank higher outranks the other.
LEMMA BetterInBothWins ==
  ASSUME NEW s \in Seq(Chunks), Len(s) <= ArmLimit,
         NEW k \in Seq(Chunks), Len(k) <= ArmLimit,
         NEW c \in Members(s) \cap Members(k),
         NEW d \in Members(s) \cap Members(k),
         RankIn(s, c) < RankIn(s, d), RankIn(k, c) < RankIn(k, d)
  PROVE  Above(RrfScore(s, k, c), RrfScore(s, k, d))
<1> DEFINE a == 60 + RankIn(s, c)
           b == 60 + RankIn(k, c)
           e == 60 + RankIn(s, d)
           f == 60 + RankIn(k, d)
<1>1. a \in Nat /\ b \in Nat /\ e \in Nat /\ f \in Nat /\ 0 < a /\ 0 < b /\ a < e /\ b < f
  <2>1. RankIn(s, c) \in 1..61 /\ RankIn(k, c) \in 1..61
    BY RankInArm
  <2>2. RankIn(s, d) \in 1..61 /\ RankIn(k, d) \in 1..61
    BY RankInArm
  <2>3. ASSUME NEW i \in 1..61, NEW j \in 1..61, i < j
        PROVE  60 + i \in Nat /\ 60 + j \in Nat /\ 0 < 60 + i /\ 60 + i < 60 + j
    BY <2>3
  <2> HIDE DEF RankIn
  <2>4. a \in Nat /\ e \in Nat /\ 0 < a /\ a < e
    BY <2>1, <2>2, <2>3
  <2>5. b \in Nat /\ f \in Nat /\ 0 < b /\ b < f
    BY <2>1, <2>2, <2>3
  <2> QED BY <2>4, <2>5
<1>2. /\ RrfScore(s, k, c) = [num |-> 1 * b + 1 * a, den |-> a * b]
      /\ RrfScore(s, k, d) = [num |-> 1 * f + 1 * e, den |-> e * f]
  BY DEF RrfScore, Part, RrfK
<1> HIDE DEF a, b, e, f
<1>3. (b + a) * (e * f) > (f + e) * (a * b)
  BY <1>1, BetterRanksOutweigh
<1>4. 1 * b + 1 * a = b + a /\ 1 * f + 1 * e = f + e
  BY <1>1
<1> QED BY <1>2, <1>3, <1>4 DEF Above

-----------------------------------------------------------------------------
(* Texts and citations.                                                    *)

LEMMA NormalText == ASSUME NEW text \in Seq(Token)
                    PROVE  /\ Normal(text) \in Seq(Token)
                           /\ Marks(Normal(text)) = Marks(text)
                           /\ Normal(text) = <<>> <=> text = <<>>
<1>0. ASSUME NEW t \in Token
      PROVE  [t EXCEPT !.wide = FALSE] \in Token /\ [t EXCEPT !.wide = FALSE].mark = t.mark
  BY DEF Token
<1>1. \A i \in DOMAIN text : /\ text[i] \in Token
                             /\ [text[i] EXCEPT !.wide = FALSE] \in Token
                             /\ [text[i] EXCEPT !.wide = FALSE].mark = text[i].mark
  BY <1>0
<1>2. Normal(text) \in Seq(Token) /\ DOMAIN Normal(text) = DOMAIN text
  BY <1>1 DEF Normal
<1>3. \A i \in DOMAIN text : Normal(text)[i].mark = text[i].mark
  BY <1>1 DEF Normal
<1>4. Marks(Normal(text)) = Marks(text)
  BY <1>2, <1>3 DEF Marks
<1>5. Normal(text) = <<>> <=> text = <<>>
  BY <1>2
<1> QED BY <1>2, <1>4, <1>5

LEMMA NormalFixed == ASSUME NEW text \in Seq(Token), \A i \in DOMAIN text : text[i].wide = FALSE
                     PROVE  Normal(text) = text
<1>1. ASSUME NEW t \in Token, t.wide = FALSE
      PROVE  [t EXCEPT !.wide = FALSE] = t
  BY <1>1 DEF Token
<1>2. \A i \in DOMAIN text : [text[i] EXCEPT !.wide = FALSE] = text[i]
  <2>1. \A i \in DOMAIN text : text[i] \in Token
    OBVIOUS
  <2> QED BY <1>1, <2>1, Zenon
<1>3. text = [i \in DOMAIN text |-> text[i]]
  OBVIOUS
<1> QED BY <1>2, <1>3 DEF Normal

LEMMA CannedText == Canned \in Seq(Token) /\ Normal(Canned) = Canned /\ Canned # <<>>
<1>1. [mark |-> 0, wide |-> FALSE] \in Token
  BY DEF Token
<1>2. Canned \in Seq(Token) /\ Canned # <<>>
  BY <1>1 DEF Canned
<1>3. Canned[1].wide = FALSE /\ DOMAIN Canned = {1}
  BY DEF Canned
<1>4. Normal(Canned) = Canned
  BY <1>2, <1>3, NormalFixed
<1> QED BY <1>2, <1>4

LEMMA SourcesTyped == ASSUME NEW cs \in Seq(Chunks), NEW F
                      PROVE  /\ DOMAIN Sources(cs, F) = 1..Len(cs)
                             /\ \A i \in 1..Len(cs) : Sources(cs, F)[i] \in Source
<1>1. \A c \in Chunks : NameOf(c, F) \in Docs \cup {Unknown}
  BY DEF NameOf
<1> QED BY <1>1 DEF Sources, Source

LEMMA CitationsTyped == ASSUME NEW text, NEW cs \in Seq(Chunks), Len(cs) <= Top, NEW F
                        PROVE  BuildCitations(text, Sources(cs, F)) \subseteq Citation
<1> SUFFICES ASSUME NEW n \in 1..Len(cs)
             PROVE  [number |-> n, source |-> Sources(cs, F)[n]] \in Citation
  BY SourcesTyped DEF BuildCitations
<1>1. n \in 1..Top
  <2>1. Len(cs) \in Nat /\ Top \in Nat
    OBVIOUS
  <2> QED BY <2>1
<1> QED BY <1>1, SourcesTyped DEF Citation

-----------------------------------------------------------------------------
(* Types.                                                                  *)

LEMMA TypeInit == Init => RagTypeOK
<1> SUFFICES ASSUME Init PROVE RagTypeOK
  OBVIOUS
<1>1. trace \in {"none", "running"}
  BY DEF Init
<1> QED BY <1>1 DEF Init, RagTypeOK, NoArms, Steps, CallSteps, Routes

LEMMA GiveUpType == ASSUME RagTypeOK, GiveUp, open' \subseteq open PROVE RagTypeOK'
<1>1. sent' \in Seq(EventKinds)
  BY DEF GiveUp, RagTypeOK, EventKinds
<1> QED BY <1>1 DEF GiveUp, Recorded, RagTypeOK, nodeVars, Steps, Ends

LEMMA BegunType == ASSUME RagTypeOK, NEW o \in {"embedding", "router", "retrieval", "generator"},
                          NEW S \in Begun(o)
                   PROVE  S \subseteq {"embedding", "router", "retrieval", "generator"}
BY DEF Begun, RagTypeOK

LEMMA TypeStep == RagTypeOK /\ [Next]_vars => RagTypeOK'
<1> SUFFICES ASSUME RagTypeOK, [Next]_vars PROVE RagTypeOK'
  OBVIOUS
<1> USE DEF Steps, CallSteps, Ends, Go, nodeVars, clientVars, traceVars
<1>1. CASE Again
  <2>1. attempt' \in 1..MaxAttempts
    BY <1>1 DEF Again, RagTypeOK
  <2> QED BY <1>1, <2>1 DEF Again, RagTypeOK
<1>2. CASE Embed
  <2>1. CASE GiveUp /\ open' = open \ {"embedding"}
    BY <2>1, GiveUpType
  <2>2. CASE step' = "routing"
    <3>1. open' \subseteq {"embedding", "router", "retrieval", "generator"}
      BY <1>2, <2>2, BegunType DEF Embed, GiveUp
    <3> QED BY <1>2, <2>2, <3>1 DEF Embed, GiveUp, RagTypeOK
  <2> QED BY <1>2, <2>1, <2>2 DEF Embed
<1>3. CASE Classify
  <2>1. open' \subseteq {"embedding", "router", "retrieval", "generator"}
    <3>1. open \subseteq {"embedding", "router", "retrieval", "generator"}
      BY DEF RagTypeOK
    <3> QED BY <1>3, <3>1, BegunType DEF Classify
  <2>2. step' \in Steps /\ route' \in Routes
    BY <1>3 DEF Classify, Routes
  <2> QED BY <1>3, <2>1, <2>2 DEF Classify, RagTypeOK
<1>4. CASE Search
  <2>1. CASE UNCHANGED <<arms, chunks>>
    BY <1>4, <2>1 DEF Search, RagTypeOK
  <2>2. ASSUME NEW ranked \in Lists(Stored, Cardinality(Stored)), NEW S \in SUBSET Stored,
               NEW matched \in Lists(S, Cardinality(S)),
               NEW near \in 0..Len(Limited(ranked, ArmLimit)),
               arms' = [semantic |-> Limited(ranked, ArmLimit),
                        keyword |-> Limited(matched, ArmLimit), near |-> near],
               chunks' \in Merged(arms'.semantic, arms'.keyword)
        PROVE  RagTypeOK'
    <3>1. Stored \subseteq Chunks /\ S \subseteq Chunks
      BY DEF Stored
    <3>2. Cardinality(Stored) \in Nat /\ Cardinality(S) \in Nat
      BY <3>1, FS_Subset, FS_CardinalityType
    <3>3. ranked \in Seq(Stored) /\ matched \in Seq(S)
      BY <3>2, ListIsSeq
    <3>4. ranked \in Seq(Chunks) /\ matched \in Seq(Chunks)
      BY <3>1, <3>3
    <3>5. /\ Limited(ranked, ArmLimit) \in Seq(Chunks) /\ Limited(matched, ArmLimit) \in Seq(Chunks)
      BY <3>4, LimitedIsSeq
    <3>6. /\ arms'.semantic \in Seq(Chunks) /\ arms'.keyword \in Seq(Chunks) /\ arms'.near \in Nat
      BY <2>2, <3>5
    <3>7. chunks' \in Seq(Chunks) /\ Len(chunks') <= Top
      BY <2>2, <3>6, MergedIsSeq
    <3> QED BY <1>4, <3>6, <3>7 DEF Search, RagTypeOK
  <2> QED BY <1>4, <2>1, <2>2 DEF Search
<1>5. CASE Name
  <2>1. open' \subseteq {"embedding", "router", "retrieval", "generator"}
    <3>1. open \subseteq {"embedding", "router", "retrieval", "generator"}
      BY DEF RagTypeOK
    <3> QED BY <1>5, <3>1, BegunType DEF Name
  <2>2. found' \subseteq Docs
    BY <1>5 DEF Name, RagTypeOK
  <2>3. chunks' \in Seq(Chunks) /\ Len(chunks') <= Top
    <3>1. chunks' = chunks \/ chunks' = <<>>
      BY <1>5 DEF Name
    <3>2. <<>> \in Seq(Chunks) /\ Len(<<>>) <= Top
      OBVIOUS
    <3>3. chunks \in Seq(Chunks) /\ Len(chunks) <= Top
      BY DEF RagTypeOK
    <3> QED BY <3>1, <3>2, <3>3, Zenon
  <2>4. step' \in Steps /\ route' \in Routes
    BY <1>5 DEF Name, RagTypeOK, Routes
  <2> QED BY <1>5, <2>1, <2>2, <2>3, <2>4 DEF Name, NoArms, RagTypeOK
<1>6. CASE OpenStream
  <2>1. CASE GiveUp /\ UNCHANGED open
    BY <2>1, GiveUpType
  <2>2. CASE /\ step' = "streaming" /\ attempt' = 1
             /\ UNCHANGED <<nodeVars, clientVars, saved, traceVars, library>>
    BY <2>2 DEF RagTypeOK
  <2> QED BY <1>6, <2>1, <2>2 DEF OpenStream
<1>7. CASE Speak
  <2>1. PICK t \in Token : SayToken(t)
    BY <1>7 DEF Speak
  <2>2. response \in Seq(Token) /\ said \in Seq(Token) /\ sent \in Seq(EventKinds)
        /\ "word" \in EventKinds
    BY DEF RagTypeOK, EventKinds
  <2>3. response' \in Seq(Token) /\ said' \in Seq(Token) /\ sent' \in Seq(EventKinds)
    BY <2>1, <2>2 DEF SayToken
  <2> QED BY <2>1, <2>3 DEF SayToken, RagTypeOK
<1>8. CASE BreakOff
  BY <1>8, GiveUpType DEF BreakOff
<1>9. CASE EndStream
  <2>1. response' \in Seq(Token)
    BY <1>9, NormalText DEF EndStream, RagTypeOK
  <2> QED BY <1>9, <2>1 DEF EndStream, RagTypeOK
<1>10. CASE Conclude
  <2>1. cited' \subseteq Citation
    BY <1>10, CitationsTyped DEF Conclude, RagTypeOK
  <2>2. response' \in Seq(Token) /\ said' \in Seq(Token)
    BY <1>10, CannedText DEF Conclude, RagTypeOK
  <2>3. sent' \in Seq(EventKinds)
    <3>1. /\ <<"trace", "end">> \in Seq(EventKinds)
          /\ <<"trace", "citations", "end">> \in Seq(EventKinds)
          /\ <<"canned", "trace", "end">> \in Seq(EventKinds)
      BY DEF EventKinds
    <3>2. \/ sent' = <<"canned", "trace", "end">>
          \/ sent' = sent \o <<"trace", "end">>
          \/ sent' = sent \o <<"trace", "citations", "end">>
      BY <1>10 DEF Conclude
    <3>3. sent \in Seq(EventKinds)
      BY DEF RagTypeOK
    <3>4. ASSUME NEW p \in Seq(EventKinds) PROVE sent \o p \in Seq(EventKinds)
      <4> HIDE DEF EventKinds
      <4> QED BY <3>3
    <3> QED BY <3>1, <3>2, <3>4, Zenon
  <2> QED BY <1>10, <2>1, <2>2, <2>3 DEF Conclude, RagTypeOK
<1>11. CASE Save
  BY <1>11 DEF Save, RagTypeOK
<1>12. CASE FinalizeTrace
  BY <1>12 DEF FinalizeTrace, Recorded, RagTypeOK
<1>13. ASSUME NEW d \in Docs, Delete(d) PROVE RagTypeOK'
  BY <1>13 DEF Delete, RagTypeOK
<1>14. CASE Crash
  BY <1>14 DEF Crash, RagTypeOK
<1>15. CASE UNCHANGED vars
  BY <1>15 DEF vars, RagTypeOK
<1> QED BY <1>1, <1>2, <1>3, <1>4, <1>5, <1>6, <1>7, <1>8, <1>9, <1>10, <1>11, <1>12,
           <1>13, <1>14, <1>15 DEF Next, TurnStep

LEMMA TypeInvariant == Spec => []RagTypeOK
BY TypeInit, TypeStep, PTL DEF Spec

\* The variables keep their types; no call is made more than MaxAttempts
\* times, and no message has more sources than the query returns.
THEOREM RagTypeCorrect == Spec => []RagTypeOK
BY TypeInvariant

-----------------------------------------------------------------------------
(* Fusion.                                                                 *)

\* While RetrievalNode holds the rows, they are a merge of arms within their
\* limits, or none.
Fused ==
  /\ step \in {"embedding", "routing", "searching"} => chunks = <<>> /\ arms = NoArms
  /\ step = "naming" =>
       /\ Len(arms.semantic) <= ArmLimit /\ Len(arms.keyword) <= ArmLimit
       /\ chunks = <<>> \/ chunks \in Merged(arms.semantic, arms.keyword)

LEMMA FusedStep == RagTypeOK /\ Fused /\ [Next]_vars => Fused'
<1> SUFFICES ASSUME RagTypeOK, Fused, [Next]_vars PROVE Fused'
  OBVIOUS
<1> USE DEF CallSteps, Ends, Go, nodeVars, clientVars, traceVars
<1>1. CASE Search
  <2>1. step' = "naming" /\ chunks = <<>> /\ arms = NoArms
    BY <1>1 DEF Search, Fused
  <2>2. CASE UNCHANGED <<arms, chunks>>
    BY <2>1, <2>2 DEF Fused, NoArms
  <2>3. ASSUME NEW ranked \in Lists(Stored, Cardinality(Stored)), NEW S \in SUBSET Stored,
               NEW matched \in Lists(S, Cardinality(S)), NEW near,
               arms' = [semantic |-> Limited(ranked, ArmLimit),
                        keyword |-> Limited(matched, ArmLimit), near |-> near],
               chunks' \in Merged(arms'.semantic, arms'.keyword)
        PROVE  Fused'
    <3>1. Stored \subseteq Chunks /\ S \subseteq Chunks
      BY DEF Stored
    <3>2. Cardinality(Stored) \in Nat /\ Cardinality(S) \in Nat
      BY <3>1, FS_Subset, FS_CardinalityType
    <3>3. ranked \in Seq(Stored) /\ matched \in Seq(S)
      BY <3>2, ListIsSeq
    <3>4. ranked \in Seq(Chunks) /\ matched \in Seq(Chunks)
      BY <3>1, <3>3
    <3>5. Len(arms'.semantic) <= ArmLimit /\ Len(arms'.keyword) <= ArmLimit
      BY <2>3, <3>4, LimitedIsSeq
    <3> QED BY <2>1, <2>3, <3>5 DEF Fused
  <2> QED BY <1>1, <2>2, <2>3 DEF Search
<1>2. CASE Again \/ Embed \/ Classify
  BY <1>2 DEF Again, Embed, Classify, GiveUp, Fused
<1>3. CASE Name \/ OpenStream \/ Speak \/ BreakOff \/ EndStream
  BY <1>3 DEF Name, OpenStream, Speak, SayToken, BreakOff, EndStream, GiveUp, Fused
<1>4. CASE Conclude \/ Save \/ FinalizeTrace \/ Crash
  BY <1>4 DEF Conclude, Save, FinalizeTrace, Crash, Fused
<1>5. ASSUME NEW d \in Docs, Delete(d) PROVE Fused'
  BY <1>5 DEF Delete, Fused
<1>6. CASE UNCHANGED vars
  BY <1>6 DEF vars, Fused
<1> QED BY <1>1, <1>2, <1>3, <1>4, <1>5, <1>6 DEF Next, TurnStep

LEMMA FusedRespects == RagTypeOK /\ Fused => FusionRespectsBothArms
<1> SUFFICES ASSUME RagTypeOK, Fused,
                    NEW c \in Members(arms.semantic) \cup Members(arms.keyword),
                    NEW i \in DOMAIN chunks, step = "naming", InBoth(c)
             PROVE  /\ ~InBoth(chunks[i]) => \E j \in 1..(i - 1) : chunks[j] = c
                    /\ /\ InBoth(chunks[i])
                       /\ RankIn(arms.semantic, c) < RankIn(arms.semantic, chunks[i])
                       /\ RankIn(arms.keyword, c) < RankIn(arms.keyword, chunks[i])
                       => \E j \in 1..(i - 1) : chunks[j] = c
  BY DEF FusionRespectsBothArms
<1> DEFINE s == arms.semantic
           k == arms.keyword
<1>1. /\ s \in Seq(Chunks) /\ Len(s) <= ArmLimit
      /\ k \in Seq(Chunks) /\ Len(k) <= ArmLimit
  BY DEF RagTypeOK, Fused
<1>2. chunks \in Merged(s, k)
  BY DEF Fused
<1>3. chunks[i] \in Members(s) \cup Members(k)
  BY <1>1, <1>2, MergedIsSeq
<1>4. Above(RrfScore(s, k, c), RrfScore(s, k, chunks[i])) => \E j \in 1..(i - 1) : chunks[j] = c
  BY <1>2 DEF Merged
<1>5. c \in Members(s) \cap Members(k)
  BY DEF InBoth
<1>6. ~InBoth(chunks[i]) => Above(RrfScore(s, k, c), RrfScore(s, k, chunks[i]))
  BY <1>1, <1>3, <1>5, AgreementWins DEF InBoth
<1>7. /\ InBoth(chunks[i])
      /\ RankIn(s, c) < RankIn(s, chunks[i])
      /\ RankIn(k, c) < RankIn(k, chunks[i])
      => Above(RrfScore(s, k, c), RrfScore(s, k, chunks[i]))
  BY <1>1, <1>5, BetterInBothWins DEF InBoth
<1> QED BY <1>4, <1>6, <1>7

\* Whatever both arms found comes before what only one found, and a row that
\* both arms rank higher before one they rank lower: for any chunks, any
\* rankings, and any limit of the arms up to 61.
THEOREM FusionIsFair == Spec => []FusionRespectsBothArms
<1>1. Init => Fused
  BY DEF Init, Fused
<1> QED BY <1>1, TypeInvariant, FusedStep, FusedRespects, PTL DEF Spec

-----------------------------------------------------------------------------
(* The text, from the model to the client and the history.                 *)

Told ==
  /\ step \in {"embedding", "routing", "searching", "naming", "opening"} =>
       response = <<>> /\ said = <<>>
  /\ step = "streaming" => said = response
  /\ step \in {"concluding", "saving", "finalizing", "done"} => response = Normal(said)
  /\ step \in {"saving", "finalizing", "done"} =>
       cited = BuildCitations(response, Sources(chunks, found))
  /\ step \in CallSteps \cup {"searching", "naming", "streaming", "concluding"} => cited = {}
  /\ step \notin {"finalizing", "done", "lost"} => saved = {}

LEMMA CannedCitesNothing == ASSUME NEW sources PROVE BuildCitations(Canned, sources) = {}
<1>1. Marks(Canned) = {}
  BY DEF Marks, Canned
<1> QED BY <1>1 DEF BuildCitations

LEMMA NothingNormal == Normal(<<>>) = <<>>
<1>1. <<>> \in Seq(Token)
  OBVIOUS
<1> QED BY <1>1, NormalText

LEMMA ToldStep == RagTypeOK /\ Told /\ SavedAsRead /\ [Next]_vars => Told' /\ SavedAsRead'
<1> SUFFICES ASSUME RagTypeOK, Told, SavedAsRead, [Next]_vars PROVE Told' /\ SavedAsRead'
  OBVIOUS
<1> USE DEF CallSteps, Ends, Go, nodeVars, clientVars, traceVars
<1>1. CASE Again \/ Embed
  BY <1>1 DEF Again, Embed, GiveUp, Told, SavedAsRead
<1>2. CASE Classify \/ Search \/ Name
  BY <1>2, NothingNormal DEF Classify, Search, Name, Told, SavedAsRead
<1>3. CASE OpenStream \/ Speak \/ BreakOff
  BY <1>3 DEF OpenStream, Speak, SayToken, BreakOff, GiveUp, Told, SavedAsRead
<1>4. CASE EndStream
  BY <1>4 DEF EndStream, Told, SavedAsRead
<1>5. CASE Conclude
  <2>1. step = "concluding" /\ step' = "saving" /\ saved' = {}
    BY <1>5 DEF Conclude, Told
  <2>2. response' = Normal(said')
    BY <1>5, <2>1, CannedText DEF Conclude, Told
  <2>3. cited' = BuildCitations(response', Sources(chunks', found'))
    BY <1>5, <2>1, CannedCitesNothing DEF Conclude, Told
  <2> QED BY <2>1, <2>2, <2>3 DEF Told, SavedAsRead
<1>6. CASE Save
  BY <1>6 DEF Save, Told, SavedAsRead
<1>7. CASE FinalizeTrace \/ Crash
  BY <1>7 DEF FinalizeTrace, Crash, Told, SavedAsRead
<1>8. ASSUME NEW d \in Docs, Delete(d) PROVE Told' /\ SavedAsRead'
  BY <1>8 DEF Delete, Told, SavedAsRead
<1>9. CASE UNCHANGED vars
  BY <1>9 DEF vars, Told, SavedAsRead
<1> QED BY <1>1, <1>2, <1>3, <1>4, <1>5, <1>6, <1>7, <1>8, <1>9 DEF Next, TurnStep

LEMMA ToldInvariant == Spec => [](RagTypeOK /\ Told /\ SavedAsRead)
<1>1. Init => Told /\ SavedAsRead
  BY DEF Init, Told, SavedAsRead, CallSteps
<1> QED BY <1>1, TypeInvariant, ToldStep, PTL DEF Spec

\* The history holds the text the client has read, with its marks in the one
\* form, whatever the provider did on the way.
THEOREM HistoryIsWhatWasRead == Spec => []SavedAsRead
BY ToldInvariant, PTL

LEMMA ToldResolves == RagTypeOK /\ Told => CitationsResolve
<1> DEFINE sources == Sources(chunks, found)
<1> SUFFICES ASSUME RagTypeOK, Told, step \in {"saving", "finalizing", "done"},
                    NEW p \in Pills(said, cited)
             PROVE  p.shows = IF p.number \in DOMAIN sources THEN {sources[p.number]} ELSE {}
  BY DEF CitationsResolve
<1>1. Marks(response) = Marks(said)
  BY NormalText DEF RagTypeOK, Told
<1>2. cited = {[number |-> i, source |-> sources[i]] : i \in Marks(said) \cap DOMAIN sources}
  BY <1>1 DEF Told, BuildCitations
<1>3. PICK n \in Marks(said) :
        p = [number |-> n, shows |-> {c.source : c \in {d \in cited : d.number = n}}]
  BY DEF Pills
<1> HIDE DEF sources
<1> DEFINE mine == {d \in cited : d.number = n}
<1>4. {c.source : c \in mine} = IF n \in DOMAIN sources THEN {sources[n]} ELSE {}
  <2>1. CASE n \in DOMAIN sources
    <3>1. mine = {[number |-> n, source |-> sources[n]]}
      BY <1>2, <2>1
    <3> HIDE DEF mine
    <3> QED BY <2>1, <3>1
  <2>2. CASE n \notin DOMAIN sources
    <3>1. mine = {}
      BY <1>2, <2>2
    <3> HIDE DEF mine
    <3> QED BY <2>2, <3>1
  <2> QED BY <2>1, <2>2
<1> QED BY <1>3, <1>4

\* Each pill of a finished message shows the source the model was shown under
\* that number, and one for a number without a source shows nothing.
THEOREM PillsShowSources == Spec => []CitationsResolve
BY ToldInvariant, ToldResolves, PTL

-----------------------------------------------------------------------------
(* The event stream.                                                       *)

\* Until the answer is concluded the client has one "word" per token; then
\* the trace and the end have been written.
Streamed ==
  /\ step \in CallSteps \cup {"searching", "naming", "streaming", "concluding"} =>
       sent \in Seq({"word"}) /\ Len(sent) = Len(said)
  /\ step \in {"saving", "finalizing"} => Stream!Sent("trace") /\ Stream!Sent("end")

LEMMA WordsAreOpen ==
  ASSUME sent \in Seq({"word"}), step # "lost" PROVE Stream!Open
BY DEF Stream!Open, Stream!Sent

\* A state of the turn in which GiveUp may happen maps to one where Fail may.
LEMMA GiveUpFails ==
  ASSUME Streamed, step \in CallSteps \cup {"streaming"}, GiveUp
  PROVE  Stream!Fail /\ Streamed'
<1>1. Stream!Open
  BY WordsAreOpen DEF Streamed, CallSteps
<1> QED BY <1>1 DEF Stream!Fail, GiveUp, Streamed, CallSteps

LEMMA ConcludeStream ==
  ASSUME RagTypeOK, Told, Streamed, Conclude
  PROVE  (Stream!Conclude \/ Stream!Decline) /\ Streamed'
<1>1. /\ step = "concluding" /\ step' = "saving" /\ saved' = saved
      /\ sent \in Seq({"word"}) /\ Len(sent) = Len(said)
      /\ said \in Seq(Token) /\ response = Normal(said)
  BY DEF Conclude, Go, Streamed, RagTypeOK, Told, CallSteps
<1>2. Stream!Open
  BY <1>1, WordsAreOpen
<1>3. response = <<>> => sent = <<>>
  <2> SUFFICES ASSUME response = <<>> PROVE sent = <<>>
    OBVIOUS
  <2>1. Len(said) = 0
    BY <1>1, NormalText
  <2>2. Len(sent) = 0 /\ sent \in Seq({"word"})
    BY <1>1, <2>1
  <2> QED BY <2>2
<1>4. CASE response = <<>> /\ sent' = <<"canned", "trace", "end">>
  <2>1. Stream!Decline
    BY <1>1, <1>2, <1>3, <1>4 DEF Stream!Decline
  <2>2. sent'[2] = "trace" /\ sent'[3] = "end" /\ DOMAIN sent' = 1..3
    BY <1>4
  <2> QED BY <1>1, <2>1, <2>2 DEF Streamed, CallSteps, Stream!Sent
<1>5. CASE sent' = sent \o <<"trace", "end">>
  <2>1. Stream!Conclude
    BY <1>1, <1>2, <1>5 DEF Stream!Conclude
  <2>2. /\ DOMAIN sent' = 1..(Len(sent) + 2)
        /\ sent'[Len(sent) + 1] = "trace" /\ sent'[Len(sent) + 2] = "end"
    BY <1>1, <1>5
  <2>3. Len(sent) + 1 \in 1..(Len(sent) + 2) /\ Len(sent) + 2 \in 1..(Len(sent) + 2)
    BY <1>1
  <2> QED BY <1>1, <2>1, <2>2, <2>3 DEF Streamed, CallSteps, Stream!Sent
<1>6. CASE sent' = sent \o <<"trace", "citations", "end">> /\ cited' # {}
  <2>1. cited' = BuildCitations(response, Sources(chunks, found))
    BY <1>6, <1>1, CannedText DEF Conclude, Told, CallSteps
  <2>2. response # <<>>
    BY <1>6, <2>1 DEF BuildCitations, Marks
  <2>3. said # <<>>
    BY <1>1, <2>2, NothingNormal
  <2>4. Stream!Sent("word")
    BY <1>1, <2>3 DEF Stream!Sent
  <2>5. Stream!Conclude
    BY <1>1, <1>2, <1>6, <2>4 DEF Stream!Conclude
  <2>6. /\ DOMAIN sent' = 1..(Len(sent) + 3)
        /\ sent'[Len(sent) + 1] = "trace" /\ sent'[Len(sent) + 3] = "end"
    BY <1>1, <1>6
  <2>7. Len(sent) + 1 \in 1..(Len(sent) + 3) /\ Len(sent) + 3 \in 1..(Len(sent) + 3)
    BY <1>1
  <2> QED BY <1>1, <2>5, <2>6, <2>7 DEF Streamed, CallSteps, Stream!Sent
<1> QED BY <1>4, <1>5, <1>6 DEF Conclude

LEMMA StreamStep ==
  RagTypeOK /\ Told /\ Streamed /\ [Next]_vars
    => Streamed' /\ [Stream!StreamNext]_(Stream!streamVars)
<1> SUFFICES ASSUME RagTypeOK, Told, Streamed, [Next]_vars
             PROVE  Streamed' /\ [Stream!StreamNext]_(Stream!streamVars)
  OBVIOUS
<1> USE DEF CallSteps, Ends, Go, nodeVars, clientVars, traceVars, Stream!streamVars
<1>1. CASE Again
  BY <1>1 DEF Again, Streamed, Stream!Sent
<1>2. CASE Embed
  <2>1. CASE GiveUp
    BY <1>2, <2>1, GiveUpFails DEF Embed, Stream!StreamNext
  <2>2. CASE step' = "routing" /\ UNCHANGED <<clientVars, saved>>
    BY <1>2, <2>2 DEF Embed, Streamed
  <2> QED BY <1>2, <2>1, <2>2 DEF Embed
<1>3. CASE Classify \/ Search \/ Name \/ EndStream
  BY <1>3 DEF Classify, Search, Name, EndStream, Streamed
<1>4. CASE OpenStream
  <2>1. CASE GiveUp
    BY <1>4, <2>1, GiveUpFails DEF OpenStream, Stream!StreamNext
  <2>2. CASE step' = "streaming" /\ UNCHANGED <<clientVars, saved>>
    BY <1>4, <2>2 DEF OpenStream, Streamed
  <2> QED BY <1>4, <2>1, <2>2 DEF OpenStream
<1>5. CASE Speak
  <2>1. Stream!Open
    BY <1>5, WordsAreOpen DEF Speak, SayToken, Streamed
  <2>2. Stream!Speak
    BY <1>5, <2>1 DEF Speak, SayToken, Stream!Speak
  <2>3. Streamed'
    <3>1. /\ sent \in Seq({"word"}) /\ said \in Seq(Token) /\ Len(sent) = Len(said)
          /\ step' = "streaming" /\ sent' = Append(sent, "word")
      BY <1>5 DEF Speak, SayToken, Streamed, RagTypeOK
    <3>2. PICK t \in Token : said' = Append(said, t)
      BY <1>5 DEF Speak, SayToken
    <3>3. sent' \in Seq({"word"}) /\ Len(sent') = Len(said')
      BY <3>1, <3>2
    <3> QED BY <3>1, <3>3 DEF Streamed
  <2> QED BY <2>2, <2>3 DEF Stream!StreamNext
<1>6. CASE BreakOff
  BY <1>6, GiveUpFails DEF BreakOff, Stream!StreamNext
<1>7. CASE Conclude
  BY <1>7, ConcludeStream DEF Stream!StreamNext
<1>8. CASE Save
  <2>1. Streamed'
    BY <1>8 DEF Save, Streamed, Stream!Sent
  <2>2. CASE UNCHANGED saved
    BY <1>8, <2>1, <2>2 DEF Save
  <2>3. CASE saved' = {[text |-> response, citations |-> cited]}
    <3>1. Stream!Keep
      BY <1>8, <2>3 DEF Save, Streamed, Stream!Keep, Stream!Open
    <3> QED BY <2>1, <3>1 DEF Stream!StreamNext
  <2> QED BY <1>8, <2>2, <2>3 DEF Save
<1>9. CASE FinalizeTrace
  BY <1>9 DEF FinalizeTrace, Streamed
<1>10. CASE Crash
  <2>1. Stream!Cut
    BY <1>10 DEF Crash, Stream!Cut
  <2> QED BY <1>10, <2>1 DEF Crash, Streamed, Stream!StreamNext
<1>11. ASSUME NEW d \in Docs, Delete(d)
       PROVE  Streamed' /\ [Stream!StreamNext]_(Stream!streamVars)
  BY <1>11 DEF Delete, Streamed, Stream!Sent
<1>12. CASE UNCHANGED vars
  BY <1>12 DEF vars, Streamed, Stream!Sent
<1> QED BY <1>1, <1>2, <1>3, <1>4, <1>5, <1>6, <1>7, <1>8, <1>9, <1>10, <1>11, <1>12
        DEF Next, TurnStep

\* Every turn streams as POST /chat promises, whatever fails on the way: one
\* end and nothing after it, no canned text behind words, and an answer kept
\* only after its trace was announced.
THEOREM TurnKeepsStreamPromise == Spec => KeepsStreamPromise
<1>1. Init => Streamed
  BY DEF Init, Streamed, CallSteps
<1>2. Init => Stream!Silent
  BY DEF Init, Stream!Silent
<1> QED BY <1>1, <1>2, ToldInvariant, StreamStep, PTL
        DEF Spec, KeepsStreamPromise, Stream!StreamSpec

-----------------------------------------------------------------------------
(* The trace.                                                              *)

\* The one observation that may be open at each step.
Observed ==
  /\ step = "embedding" => open \subseteq {"embedding"}
  /\ step = "routing" => open \subseteq {"router"}
  /\ step \in {"searching", "naming"} => open \subseteq {"retrieval"}
  /\ step \in {"opening", "streaming"} => open \subseteq {"generator"}
  /\ step \in {"concluding", "saving", "finalizing"} => open = {}

LEMMA BegunIs == ASSUME NEW o, NEW S \in Begun(o) PROVE S \subseteq open \cup {o}
BY DEF Begun

LEMMA ObservedStep ==
  Observed /\ TraceTellsOutcome /\ [Next]_vars => Observed' /\ TraceTellsOutcome'
<1> SUFFICES ASSUME Observed, TraceTellsOutcome, [Next]_vars
             PROVE  Observed' /\ TraceTellsOutcome'
  OBVIOUS
<1> USE DEF CallSteps, Ends, Go, nodeVars, clientVars, traceVars
<1>1. CASE Again
  BY <1>1 DEF Again, Observed, TraceTellsOutcome
<1>2. CASE Embed
  BY <1>2, BegunIs DEF Embed, GiveUp, Recorded, Observed, TraceTellsOutcome
<1>3. CASE Classify
  BY <1>3, BegunIs DEF Classify, Observed, TraceTellsOutcome
<1>4. CASE Search
  BY <1>4 DEF Search, Observed, TraceTellsOutcome
<1>5. CASE Name
  BY <1>5, BegunIs DEF Name, Observed, TraceTellsOutcome
<1>6. CASE OpenStream \/ Speak \/ BreakOff \/ EndStream
  BY <1>6 DEF OpenStream, Speak, SayToken, BreakOff, EndStream, GiveUp, Recorded, Observed,
              TraceTellsOutcome
<1>7. CASE Conclude \/ Save \/ FinalizeTrace \/ Crash
  BY <1>7 DEF Conclude, Save, FinalizeTrace, Recorded, Crash, Observed, TraceTellsOutcome
<1>8. ASSUME NEW d \in Docs, Delete(d) PROVE Observed' /\ TraceTellsOutcome'
  BY <1>8 DEF Delete, Observed, TraceTellsOutcome
<1>9. CASE UNCHANGED vars
  BY <1>9 DEF vars, Observed, TraceTellsOutcome
<1> QED BY <1>1, <1>2, <1>3, <1>4, <1>5, <1>6, <1>7, <1>8, <1>9 DEF Next, TurnStep

\* The trace tells how the turn ended, and is silent only where Langfuse may
\* throw; a finished turn forgets no observation, a failed one at most the
\* generator's.
THEOREM TraceIsTrue == Spec => []TraceTellsOutcome
<1>1. Init => Observed /\ TraceTellsOutcome
  BY DEF Init, Observed, TraceTellsOutcome, Ends
<1> QED BY <1>1, ObservedStep, PTL DEF Spec
=============================================================================

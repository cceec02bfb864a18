----------------------------- MODULE Grounding ------------------------------
(***************************************************************************)
(* How an answer is grounded: the hybrid query of RetrievalNode, the       *)
(* sources PromptBuilderService numbers, the citations ChatService builds, *)
(* and the pills MessageBubble draws.  No state: RagRun is the state       *)
(* machine over these operators.                                           *)
(*                                                                         *)
(* A chunk is known by its place in the two rankings (any order, ties      *)
(* broken by the database) and by whether its cosine similarity reaches    *)
(* the threshold.  A text is a sequence of words and citation marks.       *)
(***************************************************************************)
EXTENDS Naturals, Sequences, FiniteSets

CONSTANTS
  Chunks,    \* document_chunks of the session
  Docs,      \* its documents
  DocOf,     \* document_id of each chunk
  ArmLimit,  \* LIMIT 20 of each arm
  Top,       \* LIMIT 5 of the merged rows
  Unknown    \* 'Unknown document'

ASSUME GroundingAssumption ==
  /\ IsFiniteSet(Chunks)
  /\ DocOf \in [Chunks -> Docs]
  /\ ArmLimit \in 1..61
  /\ Top \in Nat \ {0}
  /\ Unknown \notin Docs

-----------------------------------------------------------------------------
(* Ranking.                                                                *)

\* Lists of n different members of S.
Lists(S, n) == {s \in [1..n -> S] : \A i, j \in 1..n : s[i] = s[j] => i = j}

Members(s) == {s[i] : i \in DOMAIN s}

Least(m, n) == IF m <= n THEN m ELSE n

\* ORDER BY ... LIMIT n.
Limited(s, n) == SubSeq(s, 1, Least(n, Len(s)))

\* ROW_NUMBER of a chunk in an arm.
RankIn(s, c) == CHOOSE i \in DOMAIN s : s[i] = c

\* The offset 60 of reciprocal rank fusion.
RrfK == 60

\* COALESCE(1.0 / (60.0 + rank), 0), as a fraction.
Part(arm, c) == IF c \in Members(arm) THEN [num |-> 1, den |-> RrfK + RankIn(arm, c)]
                                      ELSE [num |-> 0, den |-> 1]

\* Mutant: a chunk counts in its better arm only.
MutRrfScore(s, k, c) ==
  IF c \in Members(s) THEN Part(s, c) ELSE Part(k, c)

\* rrf_score.
RrfScore(s, k, c) ==
  LET p == Part(s, c)
      q == Part(k, c)
  IN [num |-> p.num * q.den + q.num * p.den, den |-> p.den * q.den]

Above(p, q) == p.num * q.den > q.num * p.den

\* The rows of the FULL OUTER JOIN, best first, the best Top of them.
Merged(s, k) ==
  LET rows == Members(s) \cup Members(k)
  IN {m \in Lists(rows, Least(Top, Cardinality(rows))) :
        \A i \in DOMAIN m, c \in rows :
          Above(RrfScore(s, k, c), RrfScore(s, k, m[i]))
            => \E j \in 1..(i - 1) : m[j] = c}

\* cosine_similarity of a row reaches the threshold; a row that only the
\* keyword arm found counts as 0.  The first near chunks of a ranking do.
Relevant(s, near, c) == c \in Members(s) /\ RankIn(s, c) <= near

-----------------------------------------------------------------------------
(* Sources and citations.                                                  *)

\* filenameMap.get(documentId) ?? 'Unknown document'.
NameOf(c, found) == IF DocOf[c] \in found THEN DocOf[c] ELSE Unknown

\* The context block: [Source i] above the i-th chunk.
Sources(chunks, found) ==
  [i \in DOMAIN chunks |-> [chunk |-> chunks[i], name |-> NameOf(chunks[i], found)]]

\* A token is a word (mark 0) or a mark, [Source n] or its wide form.
Token == {t \in [mark : 0..(Top + 1), wide : BOOLEAN] : t.mark = 0 => ~t.wide}

\* normalizeCitations.
Normal(text) == [i \in DOMAIN text |-> [text[i] EXCEPT !.wide = FALSE]]

\* The numbers a text cites, in either form.
Marks(text) == {text[i].mark : i \in DOMAIN text} \ {0}

\* Mutant: the numbers are taken to start at zero.
MutBuildCitations(text, sources) ==
  {[number |-> n, source |-> sources[n + 1]] :
     n \in {k \in Marks(text) : k + 1 \in DOMAIN sources}}

\* buildCitations: numbers beyond the sources are dropped.
BuildCitations(text, sources) ==
  {[number |-> n, source |-> sources[n]] : n \in Marks(text) \cap DOMAIN sources}

\* The pills of a message: each number it shows, with the citation found for
\* it, if any.  (Lines that hold nothing but marks are not shown.)
Pills(text, citations) ==
  {[number |-> n, shows |-> {c.source : c \in {d \in citations : d.number = n}}] :
     n \in Marks(text)}
=============================================================================

------------------------- MODULE RateLimiterProofs -------------------------
(***************************************************************************)
(* The rate limit holds for any number of requests and any limit, although *)
(* the increment and the comparison are separate steps and Redis may fail. *)
(***************************************************************************)
EXTENDS RateLimiter, FiniteSetTheorems, TLAPS

USE LimiterAssumption

\* Requests of a window were told distinct numbers up to the counter, or none,
\* and each was decided by what it was told.
Numbered ==
  /\ Cardinality(entered) = count
  /\ \A r \in entered : step[r] # "idle" /\ seen[r] \in 0..count
  /\ \A r \in Requests : step[r] = "idle" => seen[r] = 0
  /\ \A r, s \in entered : seen[r] = seen[s] /\ seen[r] > 0 => r = s
  /\ \A r \in Requests : step[r] = "admitted" => seen[r] <= Max
  /\ \A r \in Requests : step[r] = "rejected" => seen[r] > Max

Inv == TypeOK /\ Numbered

LEMMA EnteredFinite == ASSUME TypeOK PROVE IsFiniteSet(entered)
BY FS_Subset DEF TypeOK

LEMMA InvInit == Init => Inv
<1>1. Init => TypeOK
  <2> SUFFICES ASSUME Init PROVE TypeOK
    OBVIOUS
  <2>1. ttl \in BOOLEAN
    BY Zenon DEF Init
  <2> QED BY <2>1 DEF Init, TypeOK, Steps
<1>2. Init => Numbered
  BY FS_EmptySet DEF Init, Numbered
<1> QED BY <1>1, <1>2 DEF Inv

LEMMA TypeStep == TypeOK /\ [Next]_vars => TypeOK'
<1> SUFFICES ASSUME TypeOK, [Next]_vars PROVE TypeOK'
  OBVIOUS
<1> USE DEF TypeOK, Steps, StepTo
<1>1. ASSUME NEW r \in Requests, Count(r) PROVE TypeOK'
  BY <1>1 DEF Count
<1>2. ASSUME NEW r \in Requests, Expire(r) PROVE TypeOK'
  BY <1>2 DEF Expire
<1>3. ASSUME NEW r \in Requests, Decide(r) PROVE TypeOK'
  BY <1>3 DEF Decide
<1>4. CASE WindowEnds
  BY <1>4 DEF WindowEnds
<1>5. CASE Crash
  BY <1>5 DEF Crash
<1>6. CASE UNCHANGED vars
  BY <1>6 DEF vars
<1> QED BY <1>1, <1>2, <1>3, <1>4, <1>5, <1>6 DEF Next

LEMMA InvStep == Inv /\ [Next]_vars => Inv'
<1> SUFFICES ASSUME Inv, [Next]_vars PROVE Numbered'
  BY TypeStep DEF Inv
<1> USE DEF Inv, TypeOK, Steps, StepTo, Numbered
<1>1. ASSUME NEW r \in Requests, Count(r) PROVE Numbered'
  <2>1. CASE count' = count + 1
    <3>1. r \notin entered /\ entered' = entered \cup {r}
      BY <1>1, <2>1 DEF Count
    <3>2. Cardinality(entered') = count'
      BY <2>1, <3>1, EnteredFinite, FS_AddElement
    <3>3. \A q \in entered : seen[q] <= count
      OBVIOUS
    <3> QED BY <1>1, <2>1, <3>1, <3>2, <3>3 DEF Count
  <2>2. CASE count' = count
    BY <1>1, <2>2 DEF Count
  <2> QED BY <1>1, <2>1, <2>2 DEF Count
<1>2. ASSUME NEW r \in Requests, Expire(r) PROVE Numbered'
  BY <1>2 DEF Expire
<1>3. ASSUME NEW r \in Requests, Decide(r) PROVE Numbered'
  BY <1>3 DEF Decide
<1>4. CASE WindowEnds
  BY <1>4, FS_EmptySet DEF WindowEnds
<1>5. CASE Crash
  BY <1>5 DEF Crash, Pending
<1>6. CASE UNCHANGED vars
  BY <1>6 DEF vars
<1> QED BY <1>1, <1>2, <1>3, <1>4, <1>5, <1>6 DEF Next

LEMMA SpecInv == Spec => []Inv
BY InvInit, InvStep, PTL DEF Spec

\* Numbers up to Max are distinct, so Max requests have one.
LEMMA AtMostMax == Inv => AdmissionBound
<1> SUFFICES ASSUME Inv PROVE AdmissionBound
  OBVIOUS
<1> DEFINE S == {r \in entered : seen[r] > 0 /\ step[r] = "admitted"}
           f == [r \in S |-> seen[r]]
<1>1. IsFiniteSet(S) /\ Cardinality(S) \in Nat
  BY EnteredFinite, FS_Subset, FS_CardinalityType DEF Inv
<1>2. IsFiniteSet(1..Max) /\ Cardinality(1..Max) = Max
  BY FS_Interval
<1>3. f \in [S -> 1..Max]
  BY DEF Inv, TypeOK, Numbered
<1>4. ~\E x, y \in S : x # y /\ f[x] = f[y]
  BY DEF Inv, Numbered
<1>5. ~(Cardinality(1..Max) < Cardinality(S))
  <2> HIDE DEF S, f
  <2> QED BY <1>1, <1>2, <1>3, <1>4, FS_PigeonHole
<1> QED BY <1>1, <1>2, <1>5 DEF AdmissionBound

\* No interleaving lets more than Max requests of a window through.
THEOREM LimitHolds == Spec => []AdmissionBound
BY SpecInv, AtMostMax, PTL

\* No request is turned away while the window has room.
THEOREM LimitIsFair == Spec => []NoEarlyRejection
<1>1. Inv => NoEarlyRejection
  BY DEF Inv, TypeOK, Numbered, NoEarlyRejection
<1> QED BY SpecInv, <1>1, PTL
=============================================================================

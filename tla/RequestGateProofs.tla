------------------------- MODULE RequestGateProofs -------------------------
(***************************************************************************)
(* The guard in front of the limiter: for any number of requests, whoever  *)
(* is handled has a session row, and what was proved of the limiter holds  *)
(* of the two together, since each step is one of the limiter or none.     *)
(***************************************************************************)
EXTENDS RequestGate, RateLimiterProofs

USE GateAssumption

\* The row is there wherever the cached fact, or a request that relies on it,
\* says so.
Backed == /\ known => row
          /\ \A r \in Requests : gate[r] \in {"caching", "passed"} \/ step[r] # "idle" => row

GateInv == GateTypeOK /\ Backed

LEMMA GateInvInit == GateInit => GateInv
<1> SUFFICES ASSUME GateInit PROVE GateInv
  OBVIOUS
<1>1. TypeOK
  BY InvInit DEF GateInit, Inv
<1>2. row \in BOOLEAN /\ known \in BOOLEAN
  BY Zenon DEF GateInit
<1> QED BY <1>1, <1>2 DEF GateInit, Init, GateInv, GateTypeOK, GateSteps, Backed

\* What any step of the composition does to the limiter.
LEMMA LimiterSteps == [GateNext]_allVars => [Next]_vars
BY DEF GateNext, Handle, Die, Next, allVars

LEMMA GateTypeStep == GateTypeOK /\ [GateNext]_allVars => GateTypeOK'
<1> SUFFICES ASSUME GateTypeOK, [GateNext]_allVars PROVE GateTypeOK'
  OBVIOUS
<1>1. TypeOK'
  BY LimiterSteps, TypeStep DEF GateTypeOK
<1> USE DEF GateTypeOK, GateSteps, GateTo, gateVars
<1>2. ASSUME NEW r \in Requests, Refuse(r) PROVE GateTypeOK'
  BY <1>1, <1>2 DEF Refuse
<1>3. ASSUME NEW r \in Requests, LookUpSession(r) PROVE GateTypeOK'
  BY <1>1, <1>3 DEF LookUpSession
<1>4. ASSUME NEW r \in Requests, Upsert(r) PROVE GateTypeOK'
  BY <1>1, <1>4 DEF Upsert
<1>5. ASSUME NEW r \in Requests, Remember(r) PROVE GateTypeOK'
  BY <1>1, <1>5 DEF Remember
<1>6. CASE Forget
  BY <1>1, <1>6 DEF Forget
<1>7. CASE Die
  BY <1>1, <1>7 DEF Die
<1>8. CASE UNCHANGED gateVars
  BY <1>1, <1>8
<1> QED BY <1>2, <1>3, <1>4, <1>5, <1>6, <1>7, <1>8
        DEF GateNext, GuardStep, Handle, allVars

LEMMA BackedStep == GateInv /\ [GateNext]_allVars => Backed'
<1> SUFFICES ASSUME GateInv, [GateNext]_allVars PROVE Backed'
  OBVIOUS
<1> USE DEF GateInv, GateTypeOK, TypeOK, GateSteps, GateTo, Backed, vars, gateVars
<1>1. ASSUME NEW r \in Requests, Refuse(r), UNCHANGED vars PROVE Backed'
  BY <1>1 DEF Refuse
<1>2. ASSUME NEW r \in Requests, LookUpSession(r), UNCHANGED vars PROVE Backed'
  BY <1>2 DEF LookUpSession
<1>3. ASSUME NEW r \in Requests, Upsert(r), UNCHANGED vars PROVE Backed'
  BY <1>3 DEF Upsert
<1>4. ASSUME NEW r \in Requests, Remember(r), UNCHANGED vars PROVE Backed'
  BY <1>4 DEF Remember
<1>5. ASSUME NEW r \in Requests, Handle(r) PROVE Backed'
  BY <1>5 DEF Handle, Count, Expire, Decide, StepTo
<1>6. CASE Forget /\ UNCHANGED vars
  BY <1>6 DEF Forget
<1>7. CASE WindowEnds /\ UNCHANGED gateVars
  BY <1>7 DEF WindowEnds
<1>8. CASE Die
  BY <1>8 DEF Die, Crash, Pending
<1>9. CASE UNCHANGED allVars
  BY <1>9 DEF allVars
<1> QED BY <1>1, <1>2, <1>3, <1>4, <1>5, <1>6, <1>7, <1>8, <1>9 DEF GateNext, GuardStep

LEMMA GateSpecInv == GateSpec => []GateInv
BY GateInvInit, GateTypeStep, BackedStep, PTL DEF GateSpec, GateInv

\* Guard and limiter keep their types.
THEOREM GateTypeCorrect == GateSpec => []GateTypeOK
BY GateSpecInv, PTL DEF GateInv

\* A request that is handled has its session row: session:exists is never
\* set, and never believed, before the row is there.
THEOREM HandledRequestsHaveSession == GateSpec => []HandledHasSession
<1>1. GateInv => HandledHasSession
  BY DEF GateInv, Backed, HandledHasSession
<1> QED BY GateSpecInv, <1>1, PTL

\* The composition runs the limiter as its specification allows.
THEOREM GateRunsLimiter == GateSpec => Spec
<1>1. GateInit => Init
  BY DEF GateInit
<1> QED BY <1>1, LimiterSteps, PTL DEF GateSpec, Spec

\* So the guard in front of it changes nothing about the limit,
THEOREM LimitHoldsBehindGate == GateSpec => []AdmissionBound
BY GateRunsLimiter, LimitHolds, PTL

\* and nobody is refused early.
THEOREM LimitIsFairBehindGate == GateSpec => []NoEarlyRejection
BY GateRunsLimiter, LimitIsFair, PTL
=============================================================================

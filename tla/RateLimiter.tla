---------------------------- MODULE RateLimiter ----------------------------
(***************************************************************************)
(* ChatService.checkRateLimit for one session: a Redis counter whose first *)
(* increment gives the key its expiry.  Requests of the session run        *)
(* concurrently; RedisService swallows errors and incr then answers 0, so  *)
(* the limiter fails open.                                                 *)
(***************************************************************************)
EXTENDS Integers, FiniteSets

CONSTANTS Requests,   \* chat requests of the session
          Max,        \* RATE_LIMIT_MAX
          Faults      \* subset of {"redis", "crash"}

ASSUME LimiterAssumption == /\ IsFiniteSet(Requests)
                            /\ Max \in Nat \ {0}
                            /\ Faults \subseteq {"redis", "crash"}

VARIABLES count,    \* value of the session's key, 0 where there is no key
          ttl,      \* the key has an expiry
          step,     \* where each request is in checkRateLimit
          seen,     \* what incr answered to each request
          entered   \* requests counted since the key was last created

vars == <<count, ttl, step, seen, entered>>

Steps == {"idle", "expiring", "deciding", "admitted", "rejected", "lost"}

TypeOK == /\ count \in Nat
          /\ ttl \in BOOLEAN
          /\ step \in [Requests -> Steps]
          /\ seen \in [Requests -> Nat]
          /\ entered \subseteq Requests

Init == /\ count = 0
        /\ ttl = FALSE
        /\ step = [r \in Requests |-> "idle"]
        /\ seen = [r \in Requests |-> 0]
        /\ entered = {}

StepTo(r, from, to) == step[r] = from /\ step' = [step EXCEPT ![r] = to]

\* Mutant: the counter saturates at the limit.
MutCount(r) ==
  \/ /\ StepTo(r, "idle", IF count = 0 THEN "expiring" ELSE "deciding")
     /\ count' = IF count = Max THEN Max ELSE count + 1
     /\ seen' = [seen EXCEPT ![r] = count']
     /\ entered' = entered \cup {r}
     /\ UNCHANGED ttl
  \/ /\ "redis" \in Faults
     /\ StepTo(r, "idle", "deciding")
     /\ UNCHANGED <<count, ttl, seen, entered>>

\* redis.incr; an error is answered with 0, whether or not Redis has counted.
Count(r) ==
  \/ /\ StepTo(r, "idle", IF count = 0 THEN "expiring" ELSE "deciding")
     /\ count' = count + 1
     /\ seen' = [seen EXCEPT ![r] = count + 1]
     /\ entered' = entered \cup {r}
     /\ UNCHANGED ttl
  \/ /\ "redis" \in Faults
     /\ StepTo(r, "idle", "deciding")
     /\ \/ count' = count + 1 /\ entered' = entered \cup {r}
        \/ UNCHANGED <<count, entered>>
     /\ UNCHANGED <<ttl, seen>>

\* redis.expire, by the request that saw count === 1; an error is swallowed.
Expire(r) == /\ StepTo(r, "expiring", "deciding")
             /\ ttl' = TRUE \/ ("redis" \in Faults /\ UNCHANGED ttl)
             /\ UNCHANGED <<count, seen, entered>>

\* Mutant: >= for >.
MutDecide(r) == /\ StepTo(r, "deciding", IF seen[r] >= Max THEN "rejected" ELSE "admitted")
                /\ UNCHANGED <<count, ttl, seen, entered>>

\* The comparison with RATE_LIMIT_MAX: go on, or answer 429.
Decide(r) == /\ StepTo(r, "deciding", IF seen[r] > Max THEN "rejected" ELSE "admitted")
             /\ UNCHANGED <<count, ttl, seen, entered>>

\* Redis drops the key at the end of its time to live.
WindowEnds == /\ ttl
              /\ count' = 0
              /\ ttl' = FALSE
              /\ entered' = {}
              /\ UNCHANGED <<step, seen>>

Pending(r) == step[r] \in {"expiring", "deciding"}

\* The backend dies; Redis keeps the key.
Crash == /\ "crash" \in Faults
         /\ \E r \in Requests : Pending(r)
         /\ step' = [r \in Requests |-> IF Pending(r) THEN "lost" ELSE step[r]]
         /\ UNCHANGED <<count, ttl, seen, entered>>

Next == \/ \E r \in Requests : Count(r) \/ Expire(r) \/ Decide(r)
        \/ WindowEnds
        \/ Crash

Spec == Init /\ [][Next]_vars

Fairness == /\ \A r \in Requests : WF_vars(Expire(r)) /\ WF_vars(Decide(r))
            /\ WF_vars(WindowEnds)

FairSpec == Spec /\ Fairness

-----------------------------------------------------------------------------
\* Of the requests that were told their number in one window at most
\* RATE_LIMIT_MAX go on, however their increments, expiries and comparisons
\* interleave.
AdmissionBound ==
  Cardinality({r \in entered : seen[r] > 0 /\ step[r] = "admitted"}) <= Max

\* A request is turned away only when RATE_LIMIT_MAX others were counted
\* before it in the window it was counted in.
NoEarlyRejection ==
  \A r \in entered : step[r] = "rejected" => Cardinality(entered) > Max

\* Every window ends: no session is locked out for good.
WindowsEnd == count > 0 ~> count = 0
=============================================================================

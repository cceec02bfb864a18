---------------------------- MODULE RequestGate ----------------------------
(***************************************************************************)
(* The way of a chat request of one session to its handler: the header     *)
(* useSession provides, SessionGuard.canActivate with its Redis key        *)
(* session:exists, and the rate limiter.  No code deletes a session, so    *)
(* the key is a cache of a fact that stays true; what could go wrong is    *)
(* that it is set where the fact is not.                                   *)
(***************************************************************************)
EXTENDS RateLimiter

CONSTANT DbFails  \* the upsert may fail

ASSUME GateAssumption == DbFails \in BOOLEAN

VARIABLES gate,   \* where each request is in canActivate
          row,    \* the session has its row
          known   \* session:exists is set

gateVars == <<gate, row, known>>
allVars == <<vars, gateVars>>

GateSteps == {"idle", "upserting", "caching", "passed", "refused", "lost"}

GateTypeOK == /\ TypeOK
              /\ gate \in [Requests -> GateSteps]
              /\ row \in BOOLEAN
              /\ known \in BOOLEAN

GateInit == /\ Init
            /\ gate = [r \in Requests |-> "idle"]
            /\ row = FALSE
            /\ known = FALSE

GateTo(r, from, to) == gate[r] = from /\ gate' = [gate EXCEPT ![r] = to]

\* A request without a proper id: 400.  The page has none before its first
\* effect has run.
Refuse(r) == /\ GateTo(r, "idle", "refused")
             /\ UNCHANGED <<row, known>>

\* redis.get; an error reads as a miss.
LookUpSession(r) == /\ \/ GateTo(r, "idle", "passed") /\ known
                       \/ GateTo(r, "idle", "upserting") /\ (~known \/ "redis" \in Faults)
                    /\ UNCHANGED <<row, known>>

\* Mutant: a failed upsert is ignored, as errors of Redis are.
MutUpsert(r) == /\ GateTo(r, "upserting", "caching")
                /\ row' = TRUE \/ (DbFails /\ UNCHANGED row)
                /\ UNCHANGED known

\* session.upsert; where it fails, committed or not, the answer is 500.
Upsert(r) == /\ \/ GateTo(r, "upserting", "caching") /\ row' = TRUE
                \/ DbFails /\ GateTo(r, "upserting", "refused") /\ row' \in {row, TRUE}
             /\ UNCHANGED known

\* redis.setex; an error is swallowed.
Remember(r) == /\ GateTo(r, "caching", "passed")
               /\ known' = TRUE \/ ("redis" \in Faults /\ UNCHANGED known)
               /\ UNCHANGED row

\* The key expires after SESSION_EXISTS_TTL_SECONDS.
Forget == /\ known
          /\ known' = FALSE
          /\ UNCHANGED <<gate, row>>

\* The handler starts where the guard has answered true.
Handle(r) == /\ gate[r] = "passed"
             /\ Count(r) \/ Expire(r) \/ Decide(r)
             /\ UNCHANGED gateVars

Waiting(r) == gate[r] \in {"upserting", "caching"}

\* The backend dies with the requests in either part.
Die == /\ "crash" \in Faults
       /\ gate' = [r \in Requests |-> IF Waiting(r) THEN "lost" ELSE gate[r]]
       /\ UNCHANGED <<row, known>>
       /\ \/ Crash
          \/ /\ \A r \in Requests : ~Pending(r)
             /\ \E r \in Requests : Waiting(r)
             /\ UNCHANGED vars

GuardStep(r) == Refuse(r) \/ LookUpSession(r) \/ Upsert(r) \/ Remember(r)

GateNext == \/ \E r \in Requests : (GuardStep(r) /\ UNCHANGED vars) \/ Handle(r)
            \/ Forget /\ UNCHANGED vars
            \/ WindowEnds /\ UNCHANGED gateVars
            \/ Die

GateSpec == GateInit /\ [][GateNext]_allVars

-----------------------------------------------------------------------------
\* Whoever reaches the handler belongs to a session that has its row, so the
\* foreign key of the messages and documents it writes holds, although most
\* requests never look at the row.
HandledHasSession ==
  \A r \in Requests : gate[r] = "passed" \/ step[r] # "idle" => row
=============================================================================

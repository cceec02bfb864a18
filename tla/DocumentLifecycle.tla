------------------------- MODULE DocumentLifecycle -------------------------
(***************************************************************************)
(* What document ingestion promises a session, whatever queue, worker and  *)
(* disk do underneath.  A document has one life: accepted under a key (the *)
(* session and the hash of the file) nobody else holds, worked on, indexed *)
(* for retrieval, finished or failed, and removed for good.                *)
(*                                                                         *)
(* Redelivery says whether the environment may hand a job to the worker    *)
(* again after it ran (a crash, a lost lock, a failed database write).     *)
(* Without it the promise is the one a user expects: a completed document  *)
(* stays completed, its text is indexed exactly once, and a failed one     *)
(* contributes nothing to retrieval.                                       *)
(***************************************************************************)
EXTENDS Naturals

CONSTANTS Docs,        \* documents, over all sessions
          KeyOf,       \* the key of each document
          Redelivery   \* a Boolean, see above

VARIABLES life,    \* where each document is in its life
          copies   \* how many times its text is indexed for retrieval

lifeVars == <<life, copies>>

LiveStates == {"PENDING", "PROCESSING", "COMPLETED", "FAILED"}

Live(d) == life[d] \in LiveStates

LifeInit == /\ life = [d \in Docs |-> "absent"]
            /\ copies = [d \in Docs |-> 0]

Accept(d) == /\ life[d] = "absent"
             /\ \A e \in Docs : KeyOf[e] = KeyOf[d] => ~Live(e)
             /\ life' = [life EXCEPT ![d] = "PENDING"]
             /\ UNCHANGED copies

Begin(d) == /\ \/ life[d] \in {"PENDING", "FAILED"}
               \/ Redelivery /\ Live(d)
            /\ life' = [life EXCEPT ![d] = "PROCESSING"]
            /\ UNCHANGED copies

Index(d) == /\ life[d] = "PROCESSING"
            /\ Redelivery \/ copies[d] = 0
            /\ copies' = [copies EXCEPT ![d] = @ + 1]
            /\ UNCHANGED life

Finish(d) == /\ life[d] = "PROCESSING"
             /\ copies[d] > 0
             /\ life' = [life EXCEPT ![d] = "COMPLETED"]
             /\ UNCHANGED copies

Fail(d) == /\ \/ life[d] = "PROCESSING" /\ copies[d] = 0
              \/ Redelivery /\ Live(d)
           /\ life' = [life EXCEPT ![d] = "FAILED"]
           /\ UNCHANGED copies

Remove(d) == /\ Live(d)
             /\ life' = [life EXCEPT ![d] = "removed"]
             /\ copies' = [copies EXCEPT ![d] = 0]

LifeNext == \E d \in Docs : \/ Accept(d) \/ Begin(d) \/ Index(d)
                            \/ Finish(d) \/ Fail(d) \/ Remove(d)

LifeSpec == LifeInit /\ [][LifeNext]_lifeVars
=============================================================================

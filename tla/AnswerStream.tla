---------------------------- MODULE AnswerStream -----------------------------
(***************************************************************************)
(* What POST /chat promises of its event stream and of what is kept: first *)
(* words, all of a model or one canned text; then either an error, or the  *)
(* trace and perhaps citations; then the end marker and nothing more.  An  *)
(* answer is kept only if its trace was announced.                         *)
(***************************************************************************)
EXTENDS Naturals, Sequences

VARIABLES
  out,   \* the events sent
  kept,  \* the answer is in the history
  cut    \* the process died

streamVars == <<out, kept, cut>>

Event == {"word", "canned", "error", "trace", "citations", "end"}

Sent(e) == \E i \in DOMAIN out : out[i] = e

Open == ~cut /\ ~Sent("end")

Silent == out = <<>> /\ ~kept /\ ~cut

Speak == /\ Open
         /\ out' = Append(out, "word")
         /\ UNCHANGED <<kept, cut>>

Conclude == /\ Open
            /\ \/ out' = out \o <<"trace", "end">>
               \/ Sent("word") /\ out' = out \o <<"trace", "citations", "end">>
            /\ UNCHANGED <<kept, cut>>

Decline == /\ Open /\ out = <<>>
           /\ out' = <<"canned", "trace", "end">>
           /\ UNCHANGED <<kept, cut>>

Fail == /\ Open
        /\ out' = out \o <<"error", "end">>
        /\ UNCHANGED <<kept, cut>>

Keep == /\ ~cut /\ ~Open /\ Sent("trace")
        /\ kept' = TRUE
        /\ UNCHANGED <<out, cut>>

Cut == /\ ~cut
       /\ cut' = TRUE
       /\ UNCHANGED <<out, kept>>

StreamNext == Speak \/ Conclude \/ Decline \/ Fail \/ Keep \/ Cut

StreamSpec == Silent /\ [][StreamNext]_streamVars
=============================================================================

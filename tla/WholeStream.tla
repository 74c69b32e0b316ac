----------------------------- MODULE WholeStream -----------------------------
(***************************************************************************)
(* What every stream of chunks promises, however many copies and           *)
(* connections it passes through (copy_stream, RouterStream): what is read *)
(* was sent before, nothing is read after the end, and the end comes       *)
(* behind the last chunk, unless somebody gave the stream up.  Several     *)
(* streams may move in one step.                                           *)
(***************************************************************************)
EXTENDS Naturals

CONSTANT Stream

VARIABLES sent,      \* how many chunks each has been sent
          read,      \* how many have been read
          finished,  \* the streams whose writer sends no more
          over,      \* those whose reader has got the end
          given      \* those that somebody has given up

streamVars == <<sent, read, finished, over, given>>

StreamInit == /\ sent = [s \in Stream |-> 0] /\ read = [s \in Stream |-> 0]
              /\ finished = {} /\ over = {} /\ given = {}

Sends(s) == s \notin finished /\ sent'[s] = sent[s] + 1

Reads(s) == s \notin over /\ read[s] < sent[s] /\ read'[s] = read[s] + 1

MayEnd(s) == \/ s \in given'
             \/ s \in finished /\ read[s] = sent[s]

StreamStep(s) == /\ Sends(s) \/ sent'[s] = sent[s]
                 /\ Reads(s) \/ read'[s] = read[s]
                 /\ s \in over' \ over => MayEnd(s)

StreamNext == /\ sent' \in [Stream -> Nat] /\ read' \in [Stream -> Nat]
              /\ finished \subseteq finished' /\ over \subseteq over' /\ given \subseteq given'
              /\ \A s \in Stream : StreamStep(s)

StreamSpec == StreamInit /\ [][StreamNext]_streamVars

(* The end of a stream that nobody gave up is the end of all that was sent. *)
EndIsWhole == \A s \in over \ given : s \in finished /\ read[s] = sent[s]
=============================================================================

---------------------------- MODULE MCChatTurn ----------------------------
(* A small instance of ChatTurn for TLC. *)
EXTENDS ChatTurn, TLC
Symmetry == Permutations(Turns) \cup Permutations(Threads)

(* Refuted: what the text says and the code does not keep.  README, section 3,   *)
(* names the configuration that shows each one.                                *)

(* "Runs exactly once per turn, from whichever side reaches the end first":  *)
(* when both halves of an undisturbed turn are done it has been persisted.   *)
TurnNeverLost ==
    \A t \in Turns : Settled(t) /\ ~run[t].failed /\ ~run[t].disturbed /\ run[t].made > 0
                       => run[t].fin # "no"

(* "Capture the triggering human message BEFORE appending the assistant      *)
(* reply": whatever other requests do to the session meanwhile.              *)
QuestionIsTrigger == \A r \in feedback : r.query = r.answer
=============================================================================

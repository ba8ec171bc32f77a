---------------------------- MODULE CommandStore ----------------------------
(***************************************************************************)
(* What the workbench promises about its commands, whatever happens while  *)
(* they run: the workspace is the result of a sequence of commands applied *)
(* one after the other, each at most once; a command that reports success  *)
(* was applied, one that reports a refusal was not, and one that dies was  *)
(* applied or was not, but never in part.                                  *)
(***************************************************************************)
EXTENDS Sequences

CONSTANT Writers   \* the mutating commands that are ever run

VARIABLES
  history,   \* the commands the workspace is the result of, in order
  status     \* what is known of each command

Statuses == { "waiting", "applied", "succeeded", "refused", "dead" }

Init ==
  /\ history = <<>>
  /\ status = [ w \in Writers |-> "waiting" ]

Moves(w, from, to) ==
  /\ status[w] = from
  /\ status' = [ status EXCEPT ![w] = to ]

Apply(w)   == Moves(w, "waiting", "applied") /\ history' = Append(history, w)
Succeed(w) == Moves(w, "applied", "succeeded") /\ UNCHANGED history
Refuse(w)  == Moves(w, "waiting", "refused") /\ UNCHANGED history
Die(w)     == /\ \/ Moves(w, "waiting", "dead")
                 \/ Moves(w, "applied", "dead")
              /\ UNCHANGED history

Next == \E w \in Writers : Apply(w) \/ Succeed(w) \/ Refuse(w) \/ Die(w)

Spec == Init /\ [][Next]_<<history, status>>
=============================================================================

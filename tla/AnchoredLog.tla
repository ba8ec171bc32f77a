----------------------------- MODULE AnchoredLog -----------------------------
(* What the replay promises about the history it publishes: events are appended
   one at a time; whoever holds the anchors confirms them one at a time, and only
   as an extension of what is confirmed already; the log may be rewritten behind
   its back, but a log that differs from the confirmed history is never
   accepted, and an accepted log does not change any more until it is thrown away
   for the next attempt.                                                        *)
EXTENDS Integers, Sequences, SequencesExt

CONSTANT Events

VARIABLES log, anchored, accepted

Init ==
  /\ log = <<>>
  /\ anchored = <<>>
  /\ accepted = FALSE

AppendEvent ==
  /\ ~accepted
  /\ \E e \in Events :
       /\ \A i \in 1..Len(log) : log[i] # e
       /\ log' = Append(log, e)
  /\ UNCHANGED <<anchored, accepted>>

ConfirmNext ==
  /\ ~accepted
  /\ Len(log) = Len(anchored) + 1
  /\ IsPrefix(anchored, log)
  /\ anchored' = log
  /\ UNCHANGED <<log, accepted>>

RewriteLog ==
  /\ ~accepted
  /\ log' \in [1..Len(log) -> Events]
  /\ UNCHANGED <<anchored, accepted>>

AcceptLog ==
  /\ ~accepted
  /\ log = anchored
  /\ accepted' = TRUE
  /\ UNCHANGED <<log, anchored>>

\* The accepted log has been used: it is thrown away, or left as it is.
Discard ==
  /\ accepted
  /\ accepted' = FALSE
  /\ \/ log' = <<>> /\ anchored' = <<>>
     \/ UNCHANGED <<log, anchored>>

Next == AppendEvent \/ ConfirmNext \/ RewriteLog \/ AcceptLog \/ Discard

Spec == Init /\ [][Next]_<<log, anchored, accepted>>

=============================================================================

------------------------------ MODULE MCReplay ------------------------------
(* The instance of Replay that TLC checks: packs of four items, the smallest
   that has both deliberate crashes.                                           *)
EXTENDS Replay

MCSources == {SourceOf(p, k) : p \in Packs, k \in 1..PackLength}
               \cup {Forged(k) : k \in 1..PackLength}

\* Every second source repeats the passage "shared".
MCCandidates ==
  [s \in MCSources |-> {s} \cup (IF s[2] % 2 = 1 THEN {<<"shared", 0>>} ELSE {})]

=============================================================================

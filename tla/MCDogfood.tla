----------------------------- MODULE MCDogfood -----------------------------
EXTENDS PublicDogfood

\* An artifact for each horizon.
OneEach == [x \in {"x", "y"} |-> IF x = "x" THEN 1 ELSE 2]

=============================================================================

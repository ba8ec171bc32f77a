------------------------------ MODULE MCCustody ------------------------------
EXTENDS Custody

\* One client works through a whole corpus, the other disturbs it once.
Commands == [c \in CaptureClients |-> IF c = "c1" THEN 5 ELSE 1]

\* The second horizon has a source that is absent at the first.
Present == [h \in 1..2 |-> IF h = 1 THEN {"p"} ELSE {"p", "q"}]

\* The first item has one line.
Lines == <<1, 2>>

\* Two horizons, the second with a later valid time.
TwoHorizons == {<<[recordedAsOf |-> 4, validAt |-> 1], [recordedAsOf |-> 6, validAt |-> 2]>>}

\* An artifact for each horizon.
OneEach == [x \in {"x", "y"} |-> IF x = "x" THEN 1 ELSE 2]

=============================================================================

------------------------- MODULE EvaluationContract -------------------------
(* validateEvaluationContract (tooling/codex-evaluation-freeze.mjs): what the author's
   model returned is admitted part by part before it becomes the frozen core.  Modelled
   is what decides whether the evaluation is a fair one: the rule and the judgment of
   each horizon, the cells of the two arms, and the evidence each of them names.  One
   task stands for the eight, which are judged alike and apart from each other;
   what the fixed texts, weights and budgets are is left out.

   A horizon reveals the source item of its number.  A reference names lines of an item,
   as evidence for what is required or as counterevidence to it.                        *)
EXTENDS Naturals, Sequences, FiniteSets

CONSTANTS
  LastHorizon,    \* the horizons are 1..LastHorizon
  Dispositions,   \* what a cell may require
  LineCounts,     \* [1..LastHorizon -> lines of the item of that horizon]
  MaxLine         \* bound of the model: line numbers that the author writes

ASSUME ContractAssumption ==
  /\ LastHorizon \in Nat \ {0} /\ MaxLine \in Nat
  /\ LineCounts \in [1..LastHorizon -> Nat]
  /\ Dispositions \subseteq {"answer", "abstain", "revise", "preserve-uncertainty"}

VARIABLES
  authored,  \* the parts admitted so far: [rules, cells, earliest, judgments]
  verdict    \* the part that is looked at next, "admitted" or "refused"

contractVars == <<authored, verdict>>

EvaluationHorizons == 1..LastHorizon
Arms == {"graphtruth", "rg-baseline"}
Requiring == {"answer", "revise"}

\* What the author may write: here at most one reference under a rule or a judgment.
References ==
  [item : EvaluationHorizons, first : 0..MaxLine, last : 0..MaxLine, counter : BOOLEAN]
Evidence == {{}} \cup {{reference} : reference \in References}
Rules == [disposition : Dispositions, evidence : Evidence]
Cells == [horizon : EvaluationHorizons, arm : Arms, disposition : Dispositions]

ContractInit ==
  /\ authored = [rules |-> <<>>, cells |-> <<>>, earliest |-> 0, judgments |-> <<>>]
  /\ verdict = "rules"

-----------------------------------------------------------------------------
(* Validators.                                                                  *)

\* A mistake: the item of the next horizon too.
AllowedItemsBefore(h) == 1..(h + 1)
\* allowedItemsAt: what has been revealed by a horizon.
AllowedItemsAt(h) == 1..h

\* Who must answer must have something that speaks for the answer; counterevidence is
\* held to the same items and lines, but none is asked for and it supports nothing.
EvidenceAdmitted(evidence, h, minimum) ==
  /\ minimum => \E reference \in evidence : ~reference.counter
  /\ \A reference \in evidence :
       /\ reference.item \in AllowedItemsAt(h)
       /\ 1 <= reference.first /\ reference.first <= reference.last
       /\ reference.last <= LineCounts[reference.item]

RulesAdmitted(rules) ==
  \A h \in EvaluationHorizons :
    EvidenceAdmitted(rules[h].evidence, h, rules[h].disposition \in Requiring)

\* One cell for every horizon and arm, as the rule of its horizon says.
CellsAdmitted(cells, rules) ==
  /\ Len(cells) = 2 * LastHorizon
  /\ \A i \in DOMAIN cells : cells[i].disposition = rules[cells[i].horizon].disposition
  /\ {<<cells[i].horizon, cells[i].arm>> : i \in DOMAIN cells} = EvaluationHorizons \X Arms

EarliestAdmitted(earliest, rules) ==
  \A h \in EvaluationHorizons : h < earliest => rules[h].disposition \notin Requiring

\* The oracle's judgment of each horizon stands beside the rule of that horizon.
JudgmentsAdmitted(judgments, rules) ==
  \A h \in EvaluationHorizons :
    EvidenceAdmitted(judgments[h], h, rules[h].disposition \in Requiring)

-----------------------------------------------------------------------------
(* The parts, in the order in which they are looked at; the first that is wrong ends it. *)

Admits(ok, part, value, to) ==
  IF ok THEN authored' = [authored EXCEPT ![part] = value] /\ verdict' = to
  ELSE verdict' = "refused" /\ UNCHANGED authored

ValidateHorizonRules ==
  /\ verdict = "rules"
  /\ \E rules \in [EvaluationHorizons -> Rules] :
       Admits(RulesAdmitted(rules), "rules", rules, "cells")

ValidateCells ==
  /\ verdict = "cells"
  /\ \E n \in (2 * LastHorizon - 1)..(2 * LastHorizon) : \E cells \in [1..n -> Cells] :
       Admits(CellsAdmitted(cells, authored.rules), "cells", cells, "earliest")

ValidateEarliest ==
  /\ verdict = "earliest"
  /\ \E earliest \in EvaluationHorizons :
       Admits(EarliestAdmitted(earliest, authored.rules), "earliest", earliest, "oracle")

ValidateOracle ==
  /\ verdict = "oracle"
  /\ \E judgments \in [EvaluationHorizons -> Evidence] :
       Admits(JudgmentsAdmitted(judgments, authored.rules), "judgments", judgments, "rubric")

\* The parts that have to be what they are fixed to be: they are, or they are not.
ValidateRubricAndRoles ==
  /\ verdict = "rubric" /\ verdict' \in {"budgets", "refused"}
  /\ UNCHANGED authored

ValidateBudgetsAndDecision ==
  /\ verdict = "budgets" /\ verdict' \in {"admitted", "refused"}
  /\ UNCHANGED authored

ContractNext ==
  \/ ValidateHorizonRules
  \/ ValidateCells
  \/ ValidateEarliest
  \/ ValidateOracle
  \/ ValidateRubricAndRoles
  \/ ValidateBudgetsAndDecision

ContractSpec == ContractInit /\ [][ContractNext]_contractVars

-----------------------------------------------------------------------------
(* Properties.                                                                  *)

\* Of an admitted contract: both arms have exactly one cell at each horizon and are asked
\* for the same; nobody is asked for an answer before the earliest horizon; whoever is
\* asked for one can give it, and be judged, by what was revealed by then and speaks for
\* it; and no counterevidence, either, is of a later item.
FairContract ==
  verdict = "admitted" =>
    \A h \in EvaluationHorizons :
      /\ \A arm \in Arms :
           Cardinality({i \in DOMAIN authored.cells :
             authored.cells[i].horizon = h /\ authored.cells[i].arm = arm}) = 1
      /\ \A i, j \in DOMAIN authored.cells :
           (authored.cells[i].horizon = h /\ authored.cells[j].horizon = h) =>
             authored.cells[i].disposition = authored.cells[j].disposition
      /\ \A i \in DOMAIN authored.cells :
           (authored.cells[i].horizon = h /\ authored.cells[i].disposition \in Requiring) =>
             /\ authored.earliest <= h
             /\ \E r \in authored.rules[h].evidence : ~r.counter /\ r.item <= h
             /\ \E r \in authored.judgments[h] : ~r.counter /\ r.item <= h
      /\ \A r \in authored.rules[h].evidence \cup authored.judgments[h] : r.item <= h

=============================================================================

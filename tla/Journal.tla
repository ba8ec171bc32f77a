------------------------------ MODULE Journal ------------------------------
(***************************************************************************)
(* The canonical journal of an owner-facing workbench: the records that    *)
(* canonical/JOURNAL.jsonl may hold, the verifier every load and every     *)
(* publication runs over them, and the views (dossiers) computed from      *)
(* them.  Everything here is a pure function of a sequence of records.     *)
(*                                                                         *)
(* Abstracted data.  A record keeps the members that link it to other      *)
(* records; text, scope, reason, coverage, times and byte ranges are left  *)
(* out.  A SHA-256 over bytes is the bytes themselves (a model value), and *)
(* the hash of a record, which commits to everything before it, is its     *)
(* position: headSha256 of a horizon is the index of its closing record.   *)
(* A logical path is a number, so bytewise order is <.                     *)
(***************************************************************************)
EXTENDS Integers, SequencesExt, FiniteSetsExt

CONSTANTS
  None,        \* JSON null
  MaxRecords   \* limits.canonicalRecords

ASSUME MaxRecordsAssumption == MaxRecords \in Nat \ {0}

(***************************************************************************)
(* Positions in a journal.                                                 *)
(***************************************************************************)
LastOf(indexes) == IF indexes = {} THEN 0 ELSE Max(indexes)

Positions(records, kind) == { i \in DOMAIN records : records[i].kind = kind }

LastBefore(records, kind, i) ==
  LastOf({ j \in Positions(records, kind) : j < i })

\* Position of the HorizonOpened record whose horizon is open when record i
\* is read, 0 when no horizon is open there.
OpeningAt(records, i) ==
  LET opened == LastBefore(records, "HorizonOpened", i)
  IN  IF LastBefore(records, "HorizonClosed", i) > opened THEN 0 ELSE opened

InOpenHorizon(records, i) ==
  LET opening == OpeningAt(records, i)
  IN  opening # 0 /\ records[i].horizon = records[opening].id

-----------------------------------------------------------------------------
(***************************************************************************)
(* What the verifier asks of each kind of record, given the ones before.   *)
(***************************************************************************)
GoodOpening(records, i) ==
  /\ OpeningAt(records, i) = 0
  /\ records[i].horizon = records[i].id
  /\ \A j \in Positions(records, "HorizonOpened") :
        j < i => records[j].name # records[i].name

\* Sources come before any semantic record of their horizon, in strictly
\* increasing path order, each with bytes and a file identity of its own.
GoodSource(records, i) ==
  /\ InOpenHorizon(records, i)
  /\ \A j \in (OpeningAt(records, i) + 1) .. (i - 1) :
        /\ records[j].kind = "SourceSnapshot"
        /\ records[j].path < records[i].path
        /\ records[j].content # records[i].content
        /\ records[j].identity # records[i].identity
  /\ \A j \in Positions(records, "SourceSnapshot") :
        j < i => records[j].alias # records[i].alias

\* The horizonId of an evidence record itself is not looked at: its source
\* has to belong to the open horizon.
GoodEvidence(records, i) ==
  LET opening == OpeningAt(records, i)
  IN  /\ opening # 0
      /\ \E j \in Positions(records, "SourceSnapshot") :
            /\ j < i
            /\ records[j].id = records[i].source
            /\ records[j].horizon = records[opening].id

FollowsItsEvidence(records, i) ==
  /\ i > 1
  /\ records[i - 1].kind = "EvidenceSpan"
  /\ records[i - 1].id = records[i].span

EarlierRevisions(records, i) ==
  { j \in Positions(records, "AssertionRevision") :
      j < i /\ records[j].assertion = records[i].assertion }

GoodRevision(records, i) ==
  /\ InOpenHorizon(records, i)
  /\ FollowsItsEvidence(records, i)
  /\ LET current == LastOf(EarlierRevisions(records, i))
     IN  IF current = 0
         THEN /\ records[i].predecessor = None
              /\ \A j \in 1 .. i : records[j].id # records[i].assertion
              /\ \A j \in Positions(records, "AssertionRevision") :
                    j < i => records[j].alias # records[i].alias
         ELSE /\ records[i].predecessor = records[current].id
              /\ records[i].alias = records[current].alias

GoodQuestion(records, i) ==
  /\ InOpenHorizon(records, i)
  /\ records[i].span # None => FollowsItsEvidence(records, i)
  /\ \A j \in Positions(records, "QuestionOpened") :
        j < i => records[j].alias # records[i].alias

GoodClosing(records, i) ==
  /\ InOpenHorizon(records, i)
  /\ records[i].name = records[OpeningAt(records, i)].name
  /\ \E j \in Positions(records, "SourceSnapshot") :
        OpeningAt(records, i) < j /\ j < i

\* Every identifier taken by the journal: record ids and assertion ids.
JournalIds(records) ==
  { records[i].id : i \in DOMAIN records }
    \cup { records[i].assertion : i \in Positions(records, "AssertionRevision") }

GoodRecord(records, i) ==
  LET kind == records[i].kind
  IN  /\ records[i].id \notin JournalIds(SubSeq(records, 1, i - 1))
      /\ kind = "WorkspaceInitialized" <=> i = 1
      /\ kind = "HorizonOpened" => GoodOpening(records, i)
      /\ kind = "SourceSnapshot" => GoodSource(records, i)
      /\ kind = "EvidenceSpan" => GoodEvidence(records, i)
      /\ kind = "AssertionRevision" => GoodRevision(records, i)
      /\ kind = "QuestionOpened" => GoodQuestion(records, i)
      /\ kind = "HorizonClosed" => GoodClosing(records, i)

UsersOf(records, span) ==
  { i \in Positions(records, "AssertionRevision")
            \cup Positions(records, "QuestionOpened") :
      records[i].span = span }

VerifiedRecords(records) ==
  /\ records # <<>>
  /\ Len(records) <= MaxRecords
  /\ \A i \in DOMAIN records : GoodRecord(records, i)
  /\ OpeningAt(records, Len(records) + 1) = 0
  /\ \A i \in Positions(records, "EvidenceSpan") :
        Cardinality(UsersOf(records, records[i].id)) = 1

-----------------------------------------------------------------------------
(***************************************************************************)
(* HEAD.json and the snapshots directory are functions of the journal.     *)
(***************************************************************************)
HorizonItem(records, i) ==
  [ name |-> records[i].name, id |-> records[i].horizon, end |-> i ]

HorizonsAgree(records, horizons) ==
  /\ \A k \in DOMAIN horizons :
        /\ horizons[k].end \in Positions(records, "HorizonClosed")
        /\ horizons[k] = HorizonItem(records, horizons[k].end)
  /\ \A i \in Positions(records, "HorizonClosed") :
        \E k \in DOMAIN horizons : horizons[k].end = i
  /\ \A k, l \in DOMAIN horizons : k < l => horizons[k].end < horizons[l].end

RetainedContents(records) ==
  { records[i].content : i \in Positions(records, "SourceSnapshot") }

VerifyCanonical(records, horizons, snapshots) ==
  /\ VerifiedRecords(records)
  /\ HorizonsAgree(records, horizons)
  /\ snapshots = RetainedContents(records)

-----------------------------------------------------------------------------
(***************************************************************************)
(* Views: what a dossier shows as of one closed horizon.                   *)
(***************************************************************************)
\* Mutant: a dossier of the past reads the journal to its end.
RecordsThroughHorizonUncut(records, horizon) == records

RecordsThroughHorizon(records, horizon) == SubSeq(records, 1, horizon.end)

\* The evidence record a revision or question cites, and its source.
Cited(records, span) ==
  LET evidence == CHOOSE i \in Positions(records, "EvidenceSpan") :
                     records[i].id = span
      source   == CHOOSE i \in Positions(records, "SourceSnapshot") :
                     records[i].id = records[evidence].source
  IN  [ span |-> records[evidence], source |-> records[source] ]

LatestRevisions(records) ==
  { i \in Positions(records, "AssertionRevision") :
      ~ \E j \in Positions(records, "AssertionRevision") :
           i < j /\ records[j].assertion = records[i].assertion }

BuildView(records, horizons, horizon) ==
  LET known == RecordsThroughHorizon(records, horizon)
  IN  [ asOf       |-> horizon,
        horizons   |-> { horizons[k] : k \in
                           { l \in DOMAIN horizons :
                               horizons[l].end \in DOMAIN known } },
        sources    |-> { known[i] : i \in Positions(known, "SourceSnapshot") },
        assertions |-> { [ revision |-> known[i],
                           evidence |-> Cited(known, known[i].span) ] :
                           i \in LatestRevisions(known) },
        questions  |-> { [ question |-> known[i],
                           evidence |-> IF known[i].span = None THEN None
                                        ELSE Cited(known, known[i].span) ] :
                           i \in Positions(known, "QuestionOpened") } ]
=============================================================================

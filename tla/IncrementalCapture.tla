------------------------- MODULE IncrementalCapture -------------------------
(* The incremental capture store (runtime/experimental/incremental-capture-v1):
   an append-only record log, a directory of source snapshots beside it and
   projections derived from both.  Commands take no lock: each verifies the store,
   prepares its records against what it saw and appends them.

   A command that is refused when it starts changes nothing and is left out; so is
   the hash link of a record, since in a log that is only appended to it says no
   more than the sequence number.  The listing and the reading of one verification
   are one step: a command that falls between them is refused.                    *)
EXTENDS Naturals, Sequences, FiniteSets

CONSTANTS
  CaptureClients,   \* processes that run commands on the store
  SourcePaths,      \* the paths of the source manifest
  PresentAt,        \* [1..2 -> SUBSET SourcePaths]: what the manifest has at a horizon
  Spans,            \* identifiers of evidence spans
  Revisions,        \* identifiers of revisions of the one assertion
  Questions,        \* identifiers of questions
  MaximumRecords,   \* the record budget of the store
  MaxCommands,      \* [client -> Nat], bound of the model: commands it begins
  MaxAbandoned      \* bound of the model: commands that are killed or fail half-way

ASSUME CaptureAssumption ==
  /\ IsFiniteSet(SourcePaths) /\ PresentAt \in [1..2 -> SUBSET SourcePaths]
  /\ MaximumRecords \in Nat /\ MaxAbandoned \in Nat
  /\ MaxCommands \in [CaptureClients -> Nat]

VARIABLES
  records,      \* records.jsonl, <<>> while there is no store
  torn,         \* the file ends in the middle of a record
  snapshots,    \* [horizon -> the files of snapshots/<horizon>]
  strays,       \* a staging directory with files was left under snapshots/
  projections,  \* [horizon -> the records its projection shows, NoView or Partial]
  command,      \* [client -> the command it runs and how far it is]
  rebuilt,      \* the last rebuild compared: [h, before, built, after]
  causes,       \* history: what happened that can break a store
  begun,        \* [client -> commands it began]
  abandoned     \* commands killed or failed half-way so far

captureVars == <<records, torn, snapshots, strays, projections, command, rebuilt,
                 causes, begun, abandoned>>

\* validateControl: the horizon order is exactly H1, H2.
Horizons == 1..2
Idle == [at |-> "idle"]
NoView == {}
Nothing == [h |-> 0, before |-> NoView, built |-> NoView, after |-> NoView]

CaptureInit ==
  /\ records = <<>> /\ torn = FALSE
  /\ snapshots = [h \in Horizons |-> {}] /\ strays = FALSE
  /\ projections = [h \in Horizons |-> NoView]
  /\ command = [c \in CaptureClients |-> Idle]
  /\ rebuilt = Nothing
  /\ causes = {} /\ abandoned = 0
  /\ begun = [c \in CaptureClients |-> 0]

-----------------------------------------------------------------------------
(* Records.  A record carries the sequence number it was prepared with; horizon 0
   is the null of the two records of the corpus.                                 *)

Record(kind, h, body) == [kind |-> kind, horizon |-> h, body |-> body]
CorpusOpened == Record("CorpusOpened", 0, [horizons |-> Horizons])
CorpusClosed == Record("CorpusClosed", 0, [horizons |-> Horizons])
HorizonClosed(h) == Record("HorizonClosed", h, [horizon |-> h])
Source(h, p) ==
  Record(IF p \in PresentAt[h] THEN "SourceSnapshot" ELSE "SourceAbsence", h, [path |-> p])
EvidenceSpan(h, p, s) == Record("EvidenceSpan", h, [path |-> p, span |-> s])
AssertionRevision(h, r, pred, ev) ==
  Record("AssertionRevision", h, [revision |-> r, predecessor |-> pred, evidence |-> ev])
QuestionOpened(h, q, ev) == Record("QuestionOpened", h, [question |-> q, evidence |-> ev])

\* What an interrupted removal leaves of a projection.
Partial == {[seq |-> 0, rec |-> Record("partial", 0, [horizons |-> {}])]}

\* makeRecord: numbers go on where the log ends.
Numbered(from, rs) == [i \in DOMAIN rs |-> [seq |-> from + i, rec |-> rs[i]]]

\* The positions before i that hold a record of the kind.
Earlier(log, i, kinds) == {j \in 1..(i - 1) : log[j].rec.kind \in kinds}
ClosedBefore(log, i) == {log[j].rec.horizon : j \in Earlier(log, i, {"HorizonClosed"})}

\* Evidence a record cites is earlier and of no later horizon.
CitesVisible(log, i, cited) ==
  /\ cited # {}
  /\ \A s \in cited : \E j \in Earlier(log, i, {"EvidenceSpan"}) :
       log[j].rec.body.span = s /\ log[j].rec.horizon =< log[i].rec.horizon

\* The revision the assertion had before position i, or "null".
CurrentRevision(log, i) ==
  LET revs == Earlier(log, i, {"AssertionRevision"}) IN
  IF revs = {} THEN "null"
  ELSE log[CHOOSE j \in revs : \A k \in revs : k =< j].rec.body.revision

\* What stateFromRecords asks of the record at position i.
AdmittedBody(log, i) ==
  LET r == log[i].rec IN
  CASE r.kind \in {"SourceSnapshot", "SourceAbsence"} ->
         \A j \in Earlier(log, i, {"SourceSnapshot", "SourceAbsence"}) :
           <<log[j].rec.horizon, log[j].rec.body>> # <<r.horizon, r.body>>
    [] r.kind = "EvidenceSpan" ->
         /\ \A j \in Earlier(log, i, {"EvidenceSpan"}) : log[j].rec.body.span # r.body.span
         /\ \E j \in Earlier(log, i, {"SourceSnapshot"}) :
              log[j].rec.horizon = r.horizon /\ log[j].rec.body.path = r.body.path
    [] r.kind = "AssertionRevision" ->
         /\ \A j \in Earlier(log, i, {"AssertionRevision"}) :
              log[j].rec.body.revision # r.body.revision
         /\ CitesVisible(log, i, r.body.evidence)
         /\ r.body.predecessor = CurrentRevision(log, i)
    [] r.kind = "QuestionOpened" ->
         /\ \A j \in Earlier(log, i, {"QuestionOpened"}) :
              log[j].rec.body.question # r.body.question
         /\ CitesVisible(log, i, r.body.evidence)
    [] r.kind = "HorizonClosed" ->
         /\ r.horizon = Cardinality(ClosedBefore(log, i)) + 1
         /\ \A p \in SourcePaths :
              \E j \in Earlier(log, i, {"SourceSnapshot", "SourceAbsence"}) :
                log[j].rec.horizon = r.horizon /\ log[j].rec.body.path = p
    [] r.kind = "CorpusClosed" -> ClosedBefore(log, i) = Horizons
    [] OTHER -> TRUE

\* A mistake: evidence may still come after the horizon was closed.
NotClosedForSources(log, i) ==
  log[i].rec.kind \in {"SourceSnapshot", "SourceAbsence"} =>
    log[i].rec.horizon \notin ClosedBefore(log, i)

\* A closed horizon takes no more records of its own.
NotClosed(log, i) ==
  log[i].rec.kind \in {"CorpusOpened", "CorpusClosed", "HorizonClosed"}
    \/ log[i].rec.horizon \notin ClosedBefore(log, i)

\* Horizons are not gone back to, except to close them.
NotReopened(log, i) ==
  log[i].rec.kind = "HorizonClosed" \/ log[i].rec.horizon = 0 \/
    \A j \in 1..(i - 1) : log[j].rec.horizon =< log[i].rec.horizon

\* A log without the error of stateFromRecords.
WellFormed(log) ==
  /\ log # <<>>
  /\ \A i \in DOMAIN log :
       /\ log[i].seq = i
       /\ (log[i].rec.kind = "CorpusOpened") = (i = 1)
       /\ Earlier(log, i, {"CorpusClosed"}) = {}
       /\ NotReopened(log, i)
       /\ NotClosed(log, i)
       /\ AdmittedBody(log, i)

\* The snapshot files the records name.
SnapshotsOf(log, h) ==
  {log[i].rec.body.path : i \in {j \in DOMAIN log : log[j].rec.kind = "SourceSnapshot"
                                                /\ log[j].rec.horizon = h}}

\* verifyStore: the log parses and replays, and the snapshots are those it names.
StoreVerifies ==
  /\ ~torn
  /\ WellFormed(records)
  /\ ~strays /\ \A h \in Horizons : snapshots[h] = SnapshotsOf(records, h)
  /\ \A c \in CaptureClients : command[c].at = "rename" => PresentAt[command[c].h] = {}

Status == IF StoreVerifies THEN "verified" ELSE "rejected"

\* A mistake: only the budget is looked at.
PreparesInBudget(rs) == Len(records) + Len(rs) =< MaximumRecords

\* prepareRecords: rs fits the budget and the log with it replays.
Prepares(rs) ==
  /\ Len(records) + Len(rs) =< MaximumRecords
  /\ WellFormed(records \o Numbered(Len(records), rs))

\* A mistake: the view is not cut at the horizon.
VisibleUncut(log, h) == {log[i] : i \in DOMAIN log}

IsVisible(rec, h) == IF rec.horizon = 0 THEN rec.kind = "CorpusOpened" ELSE rec.horizon =< h

\* visibleRecords: what a view as of h is derived from; their numbers tell the order.
Visible(log, h) == {log[i] : i \in {j \in DOMAIN log : IsVisible(log[j].rec, h)}}

-----------------------------------------------------------------------------
(* The commands.                                                                *)

Writes(at) == at \in {"stage", "rename", "append", "closing"}

\* Client c goes on to the given state; two commands that write at the same time
\* are remembered.
Becomes(c, state) ==
  /\ command' = [command EXCEPT ![c] = state]
  /\ causes' = IF Writes(state.at) /\ \E d \in CaptureClients \ {c} : Writes(command[d].at)
                 THEN causes \cup {"overlap"} ELSE causes

\* A command begins: it verifies the store and then works on what it saw.
Begins(c) ==
  /\ command[c] = Idle
  /\ begun[c] < MaxCommands[c]
  /\ begun' = [begun EXCEPT ![c] = @ + 1]

\* A change of the store's parts by a step of a command.
OnlyLog == UNCHANGED <<snapshots, strays, projections, rebuilt, abandoned>>
OnlySnapshots == UNCHANGED <<records, torn, projections, rebuilt, abandoned>>
OnlyProjections == UNCHANGED <<records, torn, snapshots, strays, abandoned>>

\* initializeStore: one rename publishes control and log; over another's store it fails.
InitializeStore(c) ==
  /\ command[c] = Idle /\ records = <<>>
  /\ records' = Numbered(0, <<CorpusOpened>>)
  /\ UNCHANGED <<torn, command, causes>> /\ UNCHANGED begun /\ OnlyLog

\* The log in the order of the manifest's files.
SourcesOf(h) ==
  LET order == CHOOSE f \in [1..Cardinality(SourcePaths) -> SourcePaths] :
                 \A i, j \in DOMAIN f : f[i] = f[j] => i = j IN
  [i \in DOMAIN order |-> Source(h, order[i])]

\* appendSourceHorizon takes the horizon that is the next one to close and has
\* neither sources nor a directory.
NextHorizons ==
  {h \in Horizons :
     /\ h = Cardinality(ClosedBefore(records, Len(records) + 1)) + 1
     /\ \A i \in DOMAIN records : records[i].rec.kind \in {"SourceSnapshot", "SourceAbsence"} =>
                                  records[i].rec.horizon # h
     /\ Prepares(SourcesOf(h))
     /\ snapshots[h] = {}}

AppendSourceHorizon(c) ==
  /\ Begins(c) /\ Status = "verified"
  /\ \E h \in NextHorizons :
       Becomes(c, [at |-> "stage", h |-> h, out |-> Numbered(Len(records), SourcesOf(h))])
  /\ UNCHANGED <<records, torn>> /\ OnlyLog

WriteStage(c) ==
  /\ command[c].at = "stage"
  /\ Becomes(c, [command[c] EXCEPT !.at = "rename"])
  /\ UNCHANGED <<records, torn>> /\ UNCHANGED begun /\ OnlyLog

\* The stage becomes snapshots/<h>; over the files of another command it fails, and
\* the stage stays.
RenameStage(c) ==
  /\ command[c].at = "rename"
  /\ LET h == command[c].h IN
     IF snapshots[h] = {}
       THEN /\ snapshots' = [snapshots EXCEPT ![h] = PresentAt[h]]
            /\ Becomes(c, [command[c] EXCEPT !.at = "append"])
            /\ UNCHANGED strays
       ELSE /\ strays' = TRUE
            /\ Becomes(c, Idle)
            /\ UNCHANGED snapshots
  /\ UNCHANGED begun /\ OnlySnapshots

\* The commands of one record: it is prepared against the verified store.
AppendRecord(c, candidates, next) ==
  /\ Begins(c) /\ Status = "verified"
  /\ \E rec \in {r \in candidates : Prepares(<<r>>)} :
       Becomes(c, [at |-> next, h |-> rec.horizon, out |-> Numbered(Len(records), <<rec>>)])
  /\ UNCHANGED <<records, torn>> /\ OnlyLog

AppendEvidenceSpan(c) ==
  AppendRecord(c, {EvidenceSpan(h, p, s) : h \in Horizons, p \in SourcePaths, s \in Spans},
               "append")

AppendAssertion(c) ==
  AppendRecord(c, {AssertionRevision(h, r, pred, ev) : h \in Horizons, r \in Revisions,
                     pred \in Revisions \cup {"null"}, ev \in SUBSET Spans},
               "append")

AppendQuestion(c) ==
  AppendRecord(c, {QuestionOpened(h, q, ev) : h \in Horizons, q \in Questions,
                     ev \in SUBSET Spans},
               "append")

CloseHorizon(c) ==
  \E final \in BOOLEAN :
    AppendRecord(c, {HorizonClosed(h) : h \in Horizons}, IF final THEN "closing" ELSE "append")

\* appendPreparedRecords: one write to the end of the file, then a sync.
AppendPreparedRecords(c) ==
  /\ command[c].at = "append"
  /\ records' = records \o command[c].out
  /\ Becomes(c, Idle)
  /\ UNCHANGED torn /\ UNCHANGED begun /\ OnlyLog

\* closeHorizon with final: after its record it begins anew with that of the corpus.
AppendHorizonClosed(c) ==
  /\ command[c].at = "closing"
  /\ records' = records \o command[c].out
  /\ Becomes(c, [at |-> "corpus", h |-> command[c].h, out |-> <<>>])
  /\ UNCHANGED torn /\ UNCHANGED begun /\ OnlyLog

\* Refused when, for instance, the other horizon is open: the closed one stays closed.
CloseCorpus(c) ==
  /\ command[c].at = "corpus"
  /\ IF StoreVerifies /\ Prepares(<<CorpusClosed>>)
       THEN Becomes(c, [command[c] EXCEPT !.at = "append",
                          !.out = Numbered(Len(records), <<CorpusClosed>>)])
       ELSE Becomes(c, Idle)
  /\ UNCHANGED <<records, torn>> /\ UNCHANGED begun /\ OnlyLog

\* buildProjection: the view is derived from what was verified and placed later.
BuildProjection(c, h) ==
  /\ Begins(c) /\ projections[h] = NoView /\ Status = "verified"
  /\ Becomes(c, [at |-> "place", h |-> h, out |-> Visible(records, h), before |-> NoView])
  /\ UNCHANGED <<projections, rebuilt>> /\ OnlyProjections

\* rebuildProjectionExact: the old projection is read whole and removed first.
RebuildProjection(c, h) ==
  /\ Begins(c) /\ projections[h] \notin {NoView, Partial}
  /\ Becomes(c, [at |-> "remove", h |-> h, out |-> NoView, before |-> projections[h]])
  /\ UNCHANGED <<projections, rebuilt>> /\ OnlyProjections

RemoveProjection(c) ==
  /\ command[c].at = "remove"
  /\ projections' = [projections EXCEPT ![command[c].h] = NoView]
  /\ Becomes(c, [command[c] EXCEPT !.at = "build"])
  /\ UNCHANGED rebuilt /\ UNCHANGED begun /\ OnlyProjections

\* A store that does not verify has lost the projection.
BuildAgain(c) ==
  /\ command[c].at = "build"
  /\ IF projections[command[c].h] = NoView /\ StoreVerifies
       THEN Becomes(c, [command[c] EXCEPT !.at = "place",
                                          !.out = Visible(records, command[c].h)])
       ELSE Becomes(c, Idle)
  /\ UNCHANGED <<projections, rebuilt>> /\ UNCHANGED begun /\ OnlyProjections

PlaceProjection(c) ==
  /\ command[c].at = "place"
  /\ LET h == command[c].h IN
     IF projections[h] = NoView
       THEN /\ projections' = [projections EXCEPT ![h] = command[c].out]
            /\ Becomes(c, IF command[c].before = NoView THEN Idle
                          ELSE [command[c] EXCEPT !.at = "compare"])
       ELSE UNCHANGED projections /\ Becomes(c, Idle)
  /\ UNCHANGED rebuilt /\ UNCHANGED begun /\ OnlyProjections

\* What is there now is read back and compared with the old projection: the new one, or
\* what another rebuild has put in its place since.
CompareProjections(c) ==
  /\ command[c].at = "compare"
  /\ rebuilt' = IF projections[command[c].h] \in {NoView, Partial} THEN Nothing
                ELSE [h |-> command[c].h, before |-> command[c].before,
                      built |-> command[c].out, after |-> projections[command[c].h]]
  /\ Becomes(c, Idle)
  /\ UNCHANGED projections /\ UNCHANGED begun /\ OnlyProjections

-----------------------------------------------------------------------------
(* A command is killed, or an error of the file system ends it.                 *)

Abandons(c) ==
  /\ command[c] # Idle /\ abandoned < MaxAbandoned
  /\ abandoned' = abandoned + 1
  /\ command' = [command EXCEPT ![c] = Idle]
  /\ causes' = IF Writes(command[c].at) THEN causes \cup {"abandoned"} ELSE causes
  /\ UNCHANGED <<rebuilt, begun>>

\* Of a stage some files are left, or none.
AbandonStage(c) ==
  /\ command[c].at \in {"stage", "rename"}
  /\ Abandons(c)
  /\ strays' \in {strays, strays \/ PresentAt[command[c].h] # {}}
  /\ UNCHANGED <<records, torn, snapshots, projections>>

\* Of an append some records are left, and perhaps a part of the next.
AbandonAppend(c) ==
  /\ command[c].at \in {"append", "closing"}
  /\ Abandons(c)
  /\ \E n \in 0..Len(command[c].out) :
       /\ records' = records \o SubSeq(command[c].out, 1, n)
       /\ torn' \in (IF n < Len(command[c].out) THEN BOOLEAN ELSE {torn})
       /\ torn => torn'
  /\ UNCHANGED <<snapshots, strays, projections>>

\* Of a removal some files of the projection are left.
AbandonProjection(c) ==
  /\ command[c].at \in {"corpus", "remove", "build", "place", "compare"}
  /\ Abandons(c)
  /\ projections' \in
       {projections} \cup
         (IF command[c].at = "remove"
            THEN {[projections EXCEPT ![command[c].h] = Partial]} ELSE {})
  /\ UNCHANGED <<records, torn, snapshots, strays>>

CaptureStep(c) ==
  \/ InitializeStore(c)
  \/ AppendSourceHorizon(c)
  \/ WriteStage(c)
  \/ RenameStage(c)
  \/ AppendEvidenceSpan(c)
  \/ AppendAssertion(c)
  \/ AppendQuestion(c)
  \/ CloseHorizon(c)
  \/ AppendPreparedRecords(c)
  \/ AppendHorizonClosed(c)
  \/ CloseCorpus(c)
  \/ \E h \in Horizons : BuildProjection(c, h)
  \/ \E h \in Horizons : RebuildProjection(c, h)
  \/ RemoveProjection(c)
  \/ BuildAgain(c)
  \/ PlaceProjection(c)
  \/ CompareProjections(c)
  \/ AbandonStage(c)
  \/ AbandonAppend(c)
  \/ AbandonProjection(c)

CaptureNext == \E c \in CaptureClients : CaptureStep(c)

CaptureSpec == CaptureInit /\ [][CaptureNext]_captureVars

-----------------------------------------------------------------------------
(* Properties.                                                                  *)

\* No command protects the store from a kill or from another command; what they can do to
\* it is confined.  A record never names a snapshot that is not there, whatever happened.
\* Kills alone tear the end of the log or leave files that no record names, and the records
\* themselves replay.  And a store that does not verify has a cause in the open or in the
\* past: a command is between the files it placed and the record that names them, one was
\* killed or failed while it wrote, or two wrote at the same time.  No sequence of whole
\* commands, refused ones included, breaks it.
DamageIsConfined ==
  /\ \A h \in Horizons : SnapshotsOf(records, h) \subseteq snapshots[h]
  /\ "overlap" \notin causes => records = <<>> \/ WellFormed(records)
  /\ (records # <<>> /\ ~StoreVerifies) =>
       \/ causes # {}
       \/ \E c \in CaptureClients : Writes(command[c].at)

\* Whatever happened before, while the store verifies a closed horizon shows what it
\* showed when it was closed: no record that is visible as of it came later.
ClosedViewsAreFrozen ==
  (~torn /\ WellFormed(records)) =>
    \A i \in DOMAIN records :
      records[i].rec.kind = "HorizonClosed" =>
        LET h == records[i].rec.horizon IN
        Visible(records, h) = Visible(SubSeq(records, 1, i), h)

\* The view is one of a closed horizon.
ShowsClosed(view, h) == \E r \in view : r.rec = HorizonClosed(h)

\* A rebuild of a projection that shows a closed horizon builds the same one, and it is
\* this one that is compared, unless another command has meanwhile put one in its place
\* that was derived while the horizon was still open.
RebuildReproduces ==
  ShowsClosed(rebuilt.before, rebuilt.h) =>
    /\ rebuilt.built = rebuilt.before
    /\ ShowsClosed(rebuilt.after, rebuilt.h) => rebuilt.after = rebuilt.before

=============================================================================

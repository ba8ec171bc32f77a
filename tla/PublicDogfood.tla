---------------------------- MODULE PublicDogfood ----------------------------
(* The public dogfood store (runtime/experimental/public-dogfood-v1/core.mjs): a
   capture of events, each tagged with the horizon of its sources, is turned into
   chained records and published as a bundle, which is verified again before its
   views of the two horizons are derived.  What a view may name is decided by the tags
   when the capture is checked; which revision it shows, by the sequence number when
   the view is derived.

   A record is named by its position, which is its recordedSequence and its
   recordedAt.  A task view asks for one thing at a horizon; several are several views.
   An event whose form or references are wrong is not written down: it is refused
   before anything else is looked at.                                              *)
EXTENDS Naturals, Sequences, FiniteSets

CONSTANTS
  Artifacts,         \* the closed inventory of the source manifest
  ArtifactHorizon,   \* [Artifacts -> 1..2]
  MaxCaptured        \* bound of the model: events of the capture

ASSUME DogfoodAssumption ==
  /\ ArtifactHorizon \in [Artifacts -> 1..2]
  /\ MaxCaptured \in Nat

VARIABLES
  capture,   \* the events of CAPTURE.json
  cut,       \* [1..2 -> lastRecordedSequence], <<>> while the profile is not written
  asked,     \* [1..2 -> the event the task view of that horizon asks for]
  publisher, \* the step of the build or of the projection that runs
  bundle,    \* "absent", "built", or "changed" by someone since
  view       \* [1..2 -> what is shown], <<>> before a projection

dogfoodVars == <<capture, cut, asked, publisher, bundle, view>>

Tags == 1..2

-----------------------------------------------------------------------------
(* Events.                                                                      *)

SourceOf(t, x) == [kind |-> "SourceSnapshot", tag |-> t, artifact |-> x]
EvidenceOf(t, s) == [kind |-> "EvidenceSpan", tag |-> t, source |-> s]
AssertionOf(t, pred, cited) ==
  [kind |-> "AssertionRevision", tag |-> t, predecessor |-> pred, cites |-> cited]
LimitOf(t, target, cited) ==
  [kind |-> "Assessment", tag |-> t, target |-> target, cites |-> cited]
QuestionOf(t, basis) == [kind |-> "Question", tag |-> t, basis |-> basis]

Former(log, i, kind) == {j \in 1..(i - 1) : log[j].kind = kind}
All(log, kind) == Former(log, Len(log) + 1, kind)

\* assertReferenceHorizon: nothing refers to what a later horizon has.
InItsHorizon(log, i, references) == \A j \in references : log[j].tag <= log[i].tag

-----------------------------------------------------------------------------
(* Building: materializeRecords.                                                *)

\* A mistake: evidence is not held against the horizon of its source.
SourceMaterialUnbound(log, i) ==
  log[i].kind \in {"SourceSnapshot", "EvidenceSpan"} =>
    /\ log[i].kind = "SourceSnapshot" => ArtifactHorizon[log[i].artifact] = log[i].tag
    /\ log[i].kind = "EvidenceSpan" => log[i].source \in Former(log, i, "SourceSnapshot")
\* The event of a source, or of evidence in it.
SourceMaterial(log, i) ==
  log[i].kind \in {"SourceSnapshot", "EvidenceSpan"} =>
    /\ log[i].kind = "SourceSnapshot" => ArtifactHorizon[log[i].artifact] = log[i].tag
    /\ log[i].kind = "EvidenceSpan" =>
         log[i].source \in Former(log, i, "SourceSnapshot") /\ InItsHorizon(log, i, {log[i].source})

AssertionMaterial(log, i) ==
  log[i].kind = "AssertionRevision" =>
    LET earlier == Former(log, i, "AssertionRevision") IN
    /\ IF earlier = {} THEN log[i].predecessor = 0
       ELSE log[i].predecessor \in earlier /\ \A j \in earlier : j <= log[i].predecessor
    /\ log[i].cites \subseteq Former(log, i, "EvidenceSpan") /\ InItsHorizon(log, i, log[i].cites)

LimitMaterial(log, i) ==
  log[i].kind = "Assessment" =>
    /\ log[i].target \in Former(log, i, "AssertionRevision")
    /\ log[i].cites \subseteq Former(log, i, "EvidenceSpan")
    /\ InItsHorizon(log, i, {log[i].target} \cup log[i].cites)

QuestionMaterial(log, i) ==
  log[i].kind = "Question" =>
    log[i].basis \subseteq Former(log, i, "SourceSnapshot") /\ InItsHorizon(log, i, log[i].basis)

EventsMaterialize(log) ==
  \A i \in DOMAIN log : SourceMaterial(log, i) /\ AssertionMaterial(log, i)
                        /\ LimitMaterial(log, i) /\ QuestionMaterial(log, i)

\* Every artifact of the inventory once, and a question.
ClosureMaterializes(log) ==
  /\ {log[i].artifact : i \in All(log, "SourceSnapshot")} = Artifacts
  /\ Cardinality(All(log, "SourceSnapshot")) = Cardinality(Artifacts)
  /\ All(log, "Question") # {}

\* The record at a cut is one of its horizon; the last cut is the end.
ProfileFits(log, cuts) ==
  /\ cuts[1] < cuts[2] /\ cuts[2] = Len(log)
  /\ \A h \in Tags : log[cuts[h]].tag = h

\* validateTaskViews: what a view names has to be tagged with its horizon or an earlier
\* one; of an assertion, some revision has to be.
TaskViewsValid(log, asks) ==
  \A h \in Tags :
    IF log[asks[h]].kind = "AssertionRevision"
      THEN \E i \in All(log, "AssertionRevision") : log[i].tag <= h
      ELSE log[asks[h]].kind # "EvidenceSpan" /\ log[asks[h]].tag <= h

-----------------------------------------------------------------------------
(* Verifying: verifyBundle, written apart from the building.                    *)

VerifiesSource(log, i) ==
  log[i].kind = "SourceSnapshot" =>
    /\ ArtifactHorizon[log[i].artifact] = log[i].tag
    /\ \A j \in Former(log, i, "SourceSnapshot") : log[j].artifact # log[i].artifact

VerifiesEvidence(log, i) ==
  log[i].kind = "EvidenceSpan" =>
    log[i].source \in Former(log, i, "SourceSnapshot") /\ InItsHorizon(log, i, {log[i].source})

VerifiesRevision(log, i) ==
  log[i].kind = "AssertionRevision" =>
    LET earlier == Former(log, i, "AssertionRevision") IN
    /\ log[i].predecessor = (CHOOSE j \in earlier \cup {0} : \A k \in earlier : k <= j)
    /\ log[i].cites \subseteq Former(log, i, "EvidenceSpan") /\ InItsHorizon(log, i, log[i].cites)

VerifiesAssessment(log, i) ==
  log[i].kind = "Assessment" =>
    /\ log[i].target \in Former(log, i, "AssertionRevision")
    /\ log[i].cites \subseteq Former(log, i, "EvidenceSpan")
    /\ InItsHorizon(log, i, {log[i].target} \cup log[i].cites)

VerifiesQuestion(log, i) ==
  log[i].kind = "Question" =>
    log[i].basis \subseteq Former(log, i, "SourceSnapshot") /\ InItsHorizon(log, i, log[i].basis)

RecordsVerify(log) ==
  /\ \A i \in DOMAIN log :
       /\ VerifiesSource(log, i) /\ VerifiesEvidence(log, i) /\ VerifiesRevision(log, i)
       /\ VerifiesAssessment(log, i) /\ VerifiesQuestion(log, i)
  /\ Cardinality(All(log, "SourceSnapshot")) = Cardinality(Artifacts)
  /\ All(log, "Question") # {}
  /\ \A h \in Tags : cut[h] \in DOMAIN log /\ log[cut[h]].tag = h

VerifiesBundle == RecordsVerify(capture) /\ TaskViewsValid(capture, asked)

-----------------------------------------------------------------------------
(* The views.                                                                   *)

\* A mistake: the latest revision of all.
LatestRevisionOfAll(log, sequence) ==
  LET all == All(log, "AssertionRevision") IN CHOOSE i \in all \cup {0} : \A j \in all : j <= i
\* latestVisibleRevision: 0 if none was recorded by then.
LatestVisibleRevision(log, sequence) ==
  LET visible == {i \in All(log, "AssertionRevision") : i <= sequence} IN
  CHOOSE i \in visible \cup {0} : \A j \in visible : j <= i

\* The records a view shows at h, 0 where there is none to show.
Shows(log, h) ==
  IF log[asked[h]].kind = "AssertionRevision" THEN LatestVisibleRevision(log, cut[h])
  ELSE asked[h]

\* evidenceView, and the sources that a limit, a question or a view names.
SourcesUnder(log, i) ==
  CASE log[i].kind = "SourceSnapshot" -> {i}
    [] log[i].kind = "Question" -> log[i].basis
    [] OTHER -> {log[e].source : e \in log[i].cites}

\* deriveViews, which refuses a view that has nothing to show.
Derives == \A h \in Tags : Shows(capture, h) # 0

-----------------------------------------------------------------------------
(* The protocol.                                                                *)

DogfoodInit ==
  /\ capture = <<>> /\ cut = <<>> /\ asked = <<>>
  /\ publisher = "idle" /\ bundle = "absent" /\ view = <<>>

\* The capture is written event by event; one that materializeRecords refuses would be
\* the last that is looked at.
CapturesEvent ==
  /\ cut = <<>> /\ Len(capture) < MaxCaptured
  /\ \E t \in Tags :
       \/ \E x \in Artifacts : capture' = Append(capture, SourceOf(t, x))
       \/ \E s \in All(capture, "SourceSnapshot") :
            \/ capture' = Append(capture, EvidenceOf(t, s))
            \/ capture' = Append(capture, QuestionOf(t, {s}))
       \/ \E e \in All(capture, "EvidenceSpan"), p \in All(capture, "AssertionRevision") \cup {0} :
            \/ capture' = Append(capture, AssertionOf(t, p, {e}))
            \/ p # 0 /\ capture' = Append(capture, LimitOf(t, p, {e}))
  /\ EventsMaterialize(capture')
  /\ UNCHANGED <<cut, asked, publisher, bundle, view>>

\* loadJourney, of the capture with its profile and its task views: everything is checked
\* before anything is written.
LoadJourney ==
  /\ publisher = "idle"
  /\ EventsMaterialize(capture) /\ ClosureMaterializes(capture)
  /\ cut' \in (IF cut = <<>> THEN [Tags -> DOMAIN capture] ELSE {cut})
  /\ ProfileFits(capture, cut')
  /\ asked' \in (IF asked = <<>> THEN [Tags -> DOMAIN capture] ELSE {asked})
  /\ TaskViewsValid(capture, asked')
  /\ publisher' = "building"
  /\ UNCHANGED <<capture, bundle, view>>

OnlyPublisher == UNCHANGED <<capture, cut, asked>>

\* The stage is written and renamed; it is not verified.  The rename meets a bundle that
\* is there and fails.
BuildJourneyBundle ==
  /\ publisher = "building" /\ bundle = "absent"
  /\ publisher' = "idle" /\ bundle' = "built"
  /\ UNCHANGED view /\ OnlyPublisher

\* A change to any file of the bundle, or one more file.
SomeoneChangesBundle ==
  /\ bundle = "built" /\ bundle' = "changed"
  /\ UNCHANGED <<publisher, view>> /\ OnlyPublisher

\* Only a bundle with the manifest digest that the build gave, and the files it lists, is
\* looked into; what was read is kept for the views.
VerifyBundle ==
  /\ publisher = "idle" /\ bundle = "built" /\ view = <<>> /\ VerifiesBundle /\ Derives
  /\ publisher' = "projecting"
  /\ UNCHANGED <<bundle, view>> /\ OnlyPublisher

WriteViews ==
  /\ publisher = "projecting"
  /\ publisher' = "idle" /\ view' = [h \in Tags |-> Shows(capture, h)]
  /\ UNCHANGED bundle /\ OnlyPublisher

\* An error of a write, or a kill; the output root is not there.
EndsUnpublished ==
  /\ publisher # "idle" /\ publisher' = "idle"
  /\ UNCHANGED <<bundle, view>> /\ OnlyPublisher

DogfoodNext ==
  \/ CapturesEvent
  \/ LoadJourney
  \/ BuildJourneyBundle
  \/ SomeoneChangesBundle
  \/ VerifyBundle
  \/ WriteViews
  \/ EndsUnpublished

DogfoodSpec == DogfoodInit /\ [][DogfoodNext]_dogfoodVars

-----------------------------------------------------------------------------
(* Properties.                                                                  *)

\* The capture was written in the order of its horizons.
InOrder == \A i \in DOMAIN capture : capture[i].tag = 1 <=> i <= cut[1]

\* A bundle that was built is one that verify accepts, although the build never asks it;
\* one of a capture that is in order also has something to show at each horizon.
BuiltBundleVerifies ==
  bundle = "built" => VerifiesBundle /\ (InOrder => Derives)

\* A view of a horizon shows what was recorded by then, of sources of that horizon and
\* the one before.
ViewsAreAsOf ==
  view # <<>> =>
    \A h \in Tags :
      /\ view[h] <= cut[h]
      /\ \A s \in SourcesUnder(capture, view[h]) : capture[s].tag <= h

\* The same, of a capture that is in order.
OrderedViewsAreAsOf == view # <<>> /\ InOrder => ViewsAreAsOf

=============================================================================

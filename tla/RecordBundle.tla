---------------------------- MODULE RecordBundle ----------------------------
(* Record bundles (runtime/experimental/record-bundle-v1/core.mjs): a contract lists
   sources, events and a profile of horizons and policies; a build writes them as
   chained records into a staging directory, verifies it and renames it to its
   output root; the views of a bundle say what each policy selects at each horizon.

   Contracts of one journey grow by addition, and bundles of an earlier and of a later
   one exist side by side.  A record is named by its position, which is also its
   recordedAt (times only have to increase, and a horizon lies somewhere among them),
   so a bundle of a contract is the number of its records.  An event that the checks of
   shape, form or identifier refuse is Malformed.                                   *)
EXTENDS Naturals, Sequences, FiniteSets

CONSTANTS
  BundleSources,   \* the source paths of the contract
  Policies,        \* the policies of the profile
  Profiles,        \* the profiles a contract may have: horizons [recordedAsOf, validAt]
  OutputRoots,     \* directories a bundle, and a projection of it, may be built into
  MaxEvents        \* bound of the model: events of the contract

\* validateProfile: the horizons ascend.
ASSUME BundleAssumption ==
  /\ MaxEvents \in Nat
  /\ \A pr \in Profiles : \A h, g \in DOMAIN pr :
       /\ pr[h].recordedAsOf \in Nat
       /\ h < g => pr[h].recordedAsOf < pr[g].recordedAsOf

VARIABLES
  profile,     \* the horizons
  contract,    \* the events so far
  builder,     \* the build or rebuild that runs: [at, root, records]
  published,   \* [root -> records of the bundle there, 0 if none]
  projected    \* [root -> records of the bundle whose views are projected there]

bundleVars == <<profile, contract, builder, published, projected>>

ValidTimes == 1..2
NoBuild == [at |-> "idle", root |-> CHOOSE o \in OutputRoots : TRUE, records |-> 0]

-----------------------------------------------------------------------------
(* The records.                                                                 *)

Malformed == [kind |-> "malformed"]
SnapshotEvent(p) == [kind |-> "SourceSnapshot", path |-> p]
SpanEvent(s) == [kind |-> "EvidenceSpan", source |-> s]
RevisionEvent(pred, from, cited) ==
  [kind |-> "AssertionRevision", predecessor |-> pred, validFrom |-> from, cites |-> cited]
AssessmentEvent(target, cited) == [kind |-> "Assessment", target |-> target, cites |-> cited]
DecisionEvent(action, policy, target, revokes) ==
  [kind |-> "AcceptanceDecision", action |-> action, policy |-> policy, target |-> target,
   revokes |-> revokes]

\* The records of a kind before position i.
OfKind(log, i, kind) == {j \in 1..(i - 1) : log[j].kind = kind}

\* One snapshot of a path.
SnapshotAdmitted(log, i) ==
  \A j \in OfKind(log, i, "SourceSnapshot") : log[j].path # log[i].path

SpanAdmitted(log, i) == log[i].source \in OfKind(log, i, "SourceSnapshot")

\* A revision names the latest one, or none when it is the first.
RevisionAdmitted(log, i) ==
  LET earlier == OfKind(log, i, "AssertionRevision") IN
  /\ log[i].cites # {} /\ log[i].cites \subseteq OfKind(log, i, "EvidenceSpan")
  /\ IF earlier = {} THEN log[i].predecessor = 0
     ELSE log[i].predecessor \in earlier /\ \A j \in earlier : j <= log[i].predecessor

AssessmentAdmitted(log, i) ==
  /\ log[i].target \in OfKind(log, i, "AssertionRevision")
  /\ log[i].cites # {} /\ log[i].cites \subseteq OfKind(log, i, "EvidenceSpan")

\* A revocation takes back one acceptance, once, with its policy and its target.
DecisionAdmitted(log, i) ==
  LET decisions == OfKind(log, i, "AcceptanceDecision") IN
  /\ log[i].target \in OfKind(log, i, "AssertionRevision")
  /\ IF log[i].action = "accept" THEN log[i].revokes = 0
     ELSE /\ log[i].revokes \in decisions
          /\ log[log[i].revokes].action = "accept"
          /\ log[log[i].revokes].policy = log[i].policy
          /\ log[log[i].revokes].target = log[i].target
          /\ \A j \in decisions : log[j].revokes # log[i].revokes

BodyAdmitted(log, i) ==
  CASE log[i].kind = "SourceSnapshot" -> SnapshotAdmitted(log, i)
    [] log[i].kind = "EvidenceSpan" -> SpanAdmitted(log, i)
    [] log[i].kind = "AssertionRevision" -> RevisionAdmitted(log, i)
    [] log[i].kind = "Assessment" -> AssessmentAdmitted(log, i)
    [] log[i].kind = "AcceptanceDecision" -> DecisionAdmitted(log, i)
    [] OTHER -> FALSE

RecordsAdmitted(log) == \A i \in DOMAIN log : BodyAdmitted(log, i)

\* Every source of the contract has its record.
SourcesRecorded(log) ==
  {log[i].path : i \in OfKind(log, Len(log) + 1, "SourceSnapshot")} = BundleSources

-----------------------------------------------------------------------------
(* The views.                                                                   *)

\* visible: recordedAt <= recordedAsOf.
VisibleRecords(log, horizon) == {i \in DOMAIN log : i <= horizon.recordedAsOf}

DecisionsOf(log, visible, policy) ==
  {i \in visible : log[i].kind = "AcceptanceDecision" /\ log[i].policy = policy}

\* A mistake: a revocation counts at every horizon.
ActiveUnlessEverRevoked(log, horizon, policy) ==
  LET decisions == DecisionsOf(log, VisibleRecords(log, horizon), policy)
      all == DecisionsOf(log, DOMAIN log, policy)
      revoked == {log[i].revokes : i \in {d \in all : log[d].action = "revoke"}} IN
  {i \in decisions : /\ log[i].action = "accept" /\ i \notin revoked
                     /\ log[log[i].target].validFrom <= horizon.validAt}

\* Accepted and not revoked by the horizon, of what is valid then.
ActiveAcceptances(log, horizon, policy) ==
  LET decisions == DecisionsOf(log, VisibleRecords(log, horizon), policy)
      revoked == {log[i].revokes : i \in {d \in decisions : log[d].action = "revoke"}} IN
  {i \in decisions : /\ log[i].action = "accept" /\ i \notin revoked
                     /\ log[log[i].target].validFrom <= horizon.validAt}

Abstains == [decision |-> 0, revision |-> 0, assessments |-> {}, evidence |-> {}]

\* What a policy selects at a horizon, with what was said about it by then.
PolicyView(log, horizon, policy) ==
  LET active == ActiveAcceptances(log, horizon, policy) IN
  IF active = {} THEN Abstains
  ELSE LET decision == CHOOSE d \in active : TRUE
           revision == log[decision].target
           about == {i \in VisibleRecords(log, horizon) :
                       log[i].kind = "Assessment" /\ log[i].target = revision} IN
       [decision |-> decision, revision |-> revision, assessments |-> about,
        evidence |-> log[revision].cites \cup UNION {log[i].cites : i \in about}]

Unambiguous(log) ==
  \A h \in DOMAIN profile, p \in Policies :
     Cardinality(ActiveAcceptances(log, profile[h], p)) <= 1

\* verifyBundle, of a directory nobody has changed.
BundleVerifies(log) ==
  log # <<>> /\ RecordsAdmitted(log) /\ SourcesRecorded(log) /\ Unambiguous(log)

BundleOf(n) == SubSeq(contract, 1, n)

-----------------------------------------------------------------------------
(* The author of the contract.                                                  *)

BundleInit ==
  /\ profile \in Profiles
  /\ contract = <<>>
  /\ builder = NoBuild
  /\ published = [o \in OutputRoots |-> 0]
  /\ projected = [o \in OutputRoots |-> 0]

OnlyBuilder == UNCHANGED <<profile, contract>>

Positions == DOMAIN contract

\* The next event, well-formed or not; a contract that has a wrong one is not gone on with.
AuthorsEvent ==
  /\ Len(contract) < MaxEvents /\ RecordsAdmitted(contract)
  /\ \E event \in {Malformed}
                  \cup {SnapshotEvent(p) : p \in BundleSources}
                  \cup {SpanEvent(s) : s \in Positions}
                  \cup {RevisionEvent(q, f, {c}) :
                          q \in Positions \cup {0}, f \in ValidTimes, c \in Positions}
                  \cup {AssessmentEvent(t, {c}) : t, c \in Positions}
                  \cup {DecisionEvent("accept", p, t, 0) : p \in Policies, t \in Positions}
                  \cup {DecisionEvent("revoke", p, t, d) :
                          p \in Policies, t, d \in Positions} :
       /\ contract' = Append(contract, event)
       /\ event # Malformed => BodyAdmitted(contract', Len(contract'))
  /\ UNCHANGED <<profile, builder, published, projected>>

-----------------------------------------------------------------------------
(* A build, and a rebuild of the projection of a bundle.                         *)

BuilderAt(at) == builder' = [builder EXCEPT !.at = at]

\* createStagingDirectory: refuses an output root that exists.
BeginBuild(o) ==
  /\ builder.at = "idle" /\ contract # <<>> /\ published[o] = 0
  /\ builder' = [at |-> "stage", root |-> o, records |-> Len(contract)]
  /\ UNCHANGED <<published, projected>> /\ OnlyBuilder

\* The profile, the sources and the chained records, and a manifest of them.
WriteStageFiles ==
  /\ builder.at = "stage"
  /\ BuilderAt("verify")
  /\ UNCHANGED <<published, projected>> /\ OnlyBuilder

VerifyStage ==
  /\ builder.at = "verify" /\ BundleVerifies(BundleOf(builder.records))
  /\ BuilderAt("rename")
  /\ UNCHANGED <<published, projected>> /\ OnlyBuilder

\* A rename onto a bundle that appeared meanwhile is refused by the system.
RenameBundle ==
  /\ builder.at = "rename" /\ published[builder.root] = 0
  /\ published' = [published EXCEPT ![builder.root] = builder.records]
  /\ builder' = NoBuild
  /\ UNCHANGED projected /\ OnlyBuilder

\* A source that is not as declared, a refusal or an error of any write ends the build and
\* removes the stage; a kill leaves it, under a name that no later build uses.
EndsWithoutBundle ==
  /\ builder.at # "idle"
  /\ builder' = NoBuild
  /\ UNCHANGED <<published, projected>> /\ OnlyBuilder

\* The rebuild verifies the bundle and keeps its views in memory; a bundle that someone
\* edited does not have the digest it is called with, and is refused.
BeginRebuild(o) ==
  /\ builder.at = "idle" /\ projected[o] = 0
  /\ published[o] # 0 /\ BundleVerifies(BundleOf(published[o]))
  /\ builder' = [at |-> "project", root |-> o, records |-> published[o]]
  /\ UNCHANGED <<published, projected>> /\ OnlyBuilder

WriteProjectionDirectory ==
  /\ builder.at = "project" /\ projected[builder.root] = 0
  /\ projected' = [projected EXCEPT ![builder.root] = builder.records]
  /\ builder' = NoBuild
  /\ UNCHANGED published /\ OnlyBuilder

BundleNext ==
  \/ AuthorsEvent
  \/ \E o \in OutputRoots : BeginBuild(o)
  \/ WriteStageFiles
  \/ VerifyStage
  \/ RenameBundle
  \/ EndsWithoutBundle
  \/ \E o \in OutputRoots : BeginRebuild(o)
  \/ WriteProjectionDirectory

BundleSpec == BundleInit /\ [][BundleNext]_bundleVars

-----------------------------------------------------------------------------
(* Properties.                                                                  *)

\* What two contracts of one journey have published, and what was projected of it, never
\* disagree about a horizon both have reached: every bundle verifies, and its view of a
\* horizon is that of every longer one, whatever was revised, challenged, accepted or
\* revoked since.
PublishedViewsStand ==
  LET known == {published[o] : o \in OutputRoots} \cup {projected[o] : o \in OutputRoots} IN
  \A n \in known \ {0} :
    /\ BundleVerifies(BundleOf(n))
    /\ \A m \in known, h \in DOMAIN profile, p \in Policies :
         (n <= m /\ profile[h].recordedAsOf <= n) =>
            PolicyView(BundleOf(n), profile[h], p) = PolicyView(BundleOf(m), profile[h], p)

=============================================================================

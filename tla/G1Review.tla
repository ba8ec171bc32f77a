------------------------------ MODULE G1Review ------------------------------
(* runG1Review (tooling/codex-g1-review.mjs): one review of a locked pack by one model
   call.  The review root has an input, the pack with its lock, and an output; the
   evidence of the call goes to an anchor directory.  Reviewers, of which some are
   killed, may be started on one root and on the same or on different anchors; the
   owner may change the pack, lock it anew or exchange the tools while they work.

   verifyPackLock is one step here: module PackLock is about what happens inside it. *)
EXTENDS Naturals, FiniteSets

CONSTANTS
  Reviewers,      \* invocations of the review
  Anchors,        \* anchor directories
  InputFiles,     \* files of the pack
  Digests,        \* what a file may contain
  MaxOwnerActs    \* bound of the model: changes by the owner

ASSUME ReviewAssumption == MaxOwnerActs \in Nat /\ "none" \notin Reviewers

VARIABLES
  input,       \* [file -> digest]
  inputLock,   \* [file -> digest]: what the lock file says
  tools,       \* the version of tooling and provider binary
  anchor,      \* [anchor -> [preflight, trace, record]]: who wrote each, or "none"
  output,      \* who wrote the result, or "none"
  review,      \* [reviewer -> its state]
  modelCalls,  \* [anchor -> calls made for it]
  ownerActs

reviewVars == <<input, inputLock, tools, anchor, output, review, modelCalls, ownerActs>>

NotRead == [f \in {} |-> 0]
NotStarted == [at |-> "start", anchor |-> "none", tools |-> 0, sealed |-> NotRead,
               bundle |-> NotRead, failed |-> FALSE]
Empty == [preflight |-> "none", trace |-> "none", record |-> "none"]

ReviewInit ==
  /\ \E d \in Digests : input = [f \in InputFiles |-> d] /\ inputLock = input
  /\ tools = 0
  /\ anchor = [a \in Anchors |-> Empty] /\ output = "none"
  /\ review = [r \in Reviewers |-> NotStarted]
  /\ modelCalls = [a \in Anchors |-> 0] /\ ownerActs = 0

-----------------------------------------------------------------------------
Goes(r, at) == review' = [review EXCEPT ![r].at = at]
\* A check of reviewer r: it goes on, or ends with an error and no further record.
Checks(r, from, ok, to) ==
  /\ review[r].at = from
  /\ Goes(r, IF ok THEN to ELSE "rejected")
OnlyReview == UNCHANGED <<input, inputLock, tools, anchor, output, modelCalls, ownerActs>>
AnchorOf(r) == review[r].anchor

\* resolveReviewLayout and captureToolingIdentity: output and anchor have to be empty.
ResolveLayout(r, a) ==
  /\ review[r].at = "start"
  /\ output = "none" /\ anchor[a] = Empty
  /\ review' = [review EXCEPT ![r] = [NotStarted EXCEPT !.at = "verify", !.anchor = a,
                                                        !.tools = tools]]
  /\ OnlyReview

VerifyLockBefore(r) == Checks(r, "verify", input = inputLock, "seal") /\ OnlyReview

\* readAndValidateSealedControl reads the lock after it was verified ...
SealLock(r) ==
  /\ review[r].at = "seal"
  /\ review' = [review EXCEPT ![r].at = "bundle", ![r].sealed = inputLock]
  /\ OnlyReview

\* ... and buildG1ReviewInput reads it again and wants the same bytes.
OpenBundle(r) == Checks(r, "bundle", inputLock = review[r].sealed, "artifacts") /\ OnlyReview

\* A mistake: a file that was verified is not compared again.
AsDeclaredOrVerified(r, f) == TRUE

\* A file enters the bundle with the digest that the sealed lock declares, or not at all.
AsDeclared(r, f) == input[f] = review[r].sealed[f]

ReadArtifact(r) ==
  /\ review[r].at = "artifacts"
  /\ \E f \in InputFiles \ DOMAIN review[r].bundle :
       /\ review' = IF AsDeclared(r, f)
            THEN [review EXCEPT ![r].bundle =
                    [g \in DOMAIN @ \cup {f} |-> IF g = f THEN input[f] ELSE @[g]]]
            ELSE [review EXCEPT ![r].at = "rejected"]
  /\ OnlyReview

CloseBundle(r) ==
  /\ review[r].at = "artifacts" /\ DOMAIN review[r].bundle = InputFiles
  /\ Goes(r, "preflight") /\ OnlyReview

\* A mistake: the preflight report is replaced when it is there.
PreflightWritable(a) == TRUE

\* The report is created exclusively: it is what makes the anchor used.
PreflightFree(a) == anchor[a].preflight = "none"

\* The identity preflight of the provider's binary may fail.
WritePreflightReport(r) ==
  /\ review[r].at = "preflight"
  /\ \/ /\ PreflightFree(AnchorOf(r))
        /\ anchor' = [anchor EXCEPT ![AnchorOf(r)].preflight = r]
        /\ Goes(r, "inventory")
     \/ UNCHANGED anchor /\ Goes(r, "rejected")
  /\ UNCHANGED <<input, inputLock, tools, output, modelCalls, ownerActs>>

\* The anchor holds the report and nothing else; the output is still empty.
CheckInventories(r) ==
  /\ Checks(r, "inventory",
            /\ anchor[AnchorOf(r)] = [Empty EXCEPT !.preflight = anchor[AnchorOf(r)].preflight]
            /\ output = "none",
            "call")
  /\ OnlyReview

\* The ephemeral state is set up, the binary looked at again, and the model called with
\* the bundle; each may fail, which is remembered and answered after the checks below.
CallModel(r) ==
  /\ review[r].at = "call"
  /\ \/ /\ tools = review[r].tools
        /\ modelCalls' = [modelCalls EXCEPT ![AnchorOf(r)] = @ + 1]
        /\ \E failed \in BOOLEAN :
             review' = [review EXCEPT ![r].at = "after", ![r].failed = failed]
     \/ /\ review' = [review EXCEPT ![r].at = "after", ![r].failed = TRUE]
        /\ UNCHANGED modelCalls
  /\ UNCHANGED <<input, inputLock, tools, anchor, output, ownerActs>>

\* The lock has to verify after the call and to be the one that was sealed.
VerifyLockAfter(r) == Checks(r, "after", input = inputLock, "relock") /\ OnlyReview
CompareLock(r) == Checks(r, "relock", inputLock = review[r].sealed, "tools") /\ OnlyReview

CheckTools(r) ==
  /\ Checks(r, "tools", output = "none" /\ tools = review[r].tools /\ ~review[r].failed, "trace")
  /\ OnlyReview

\* Trace, result and run record, each created exclusively, each followed by a look at
\* what its directory holds now.
WriteTrace(r) ==
  /\ review[r].at = "trace"
  /\ IF anchor[AnchorOf(r)].trace = "none"
       THEN anchor' = [anchor EXCEPT ![AnchorOf(r)].trace = r] /\ Goes(r, "result")
       ELSE UNCHANGED anchor /\ Goes(r, "rejected")
  /\ UNCHANGED <<input, inputLock, tools, output, modelCalls, ownerActs>>

WriteResult(r) ==
  /\ review[r].at = "result"
  /\ IF output = "none" THEN output' = r /\ Goes(r, "record")
     ELSE UNCHANGED output /\ Goes(r, "rejected")
  /\ UNCHANGED <<input, inputLock, tools, anchor, modelCalls, ownerActs>>

WriteRunRecord(r) ==
  /\ review[r].at = "record"
  /\ IF anchor[AnchorOf(r)].record = "none"
       THEN anchor' = [anchor EXCEPT ![AnchorOf(r)].record = r] /\ Goes(r, "done")
       ELSE UNCHANGED anchor /\ Goes(r, "rejected")
  /\ UNCHANGED <<input, inputLock, tools, output, modelCalls, ownerActs>>

\* A reviewer is killed or stopped by an error at any point; what it wrote stays.
ReviewKilled(r) ==
  /\ review[r].at \notin {"start", "done", "rejected"}
  /\ Goes(r, "rejected") /\ OnlyReview

\* The owner edits a file, locks the pack as it is, or exchanges the tools.
OwnerActs ==
  /\ ownerActs < MaxOwnerActs
  /\ ownerActs' = ownerActs + 1
  /\ \/ /\ \E f \in InputFiles, d \in Digests : input' = [input EXCEPT ![f] = d]
        /\ UNCHANGED <<inputLock, tools>>
     \/ inputLock' = input /\ UNCHANGED <<input, tools>>
     \/ tools' = tools + 1 /\ UNCHANGED <<input, inputLock>>
  /\ UNCHANGED <<anchor, output, review, modelCalls>>

ReviewStep(r) ==
  \/ \E a \in Anchors : ResolveLayout(r, a)
  \/ VerifyLockBefore(r)
  \/ SealLock(r)
  \/ OpenBundle(r)
  \/ ReadArtifact(r)
  \/ CloseBundle(r)
  \/ WritePreflightReport(r)
  \/ CheckInventories(r)
  \/ CallModel(r)
  \/ VerifyLockAfter(r)
  \/ CompareLock(r)
  \/ CheckTools(r)
  \/ WriteTrace(r)
  \/ WriteResult(r)
  \/ WriteRunRecord(r)
  \/ ReviewKilled(r)

ReviewNext == OwnerActs \/ \E r \in Reviewers : ReviewStep(r)

ReviewSpec == ReviewInit /\ [][ReviewNext]_reviewVars

-----------------------------------------------------------------------------
(* Properties.                                                                  *)

\* Over any reviewers, killed ones included, an anchor stands for at most one model
\* call, and the report that reserves it was there first.
OneCallPerAnchor ==
  \A a \in Anchors :
    /\ modelCalls[a] =< 1
    /\ modelCalls[a] = 1 => anchor[a].preflight # "none"

\* A run record is of one reviewer only: the report, the trace and the result beside it
\* are of the same run, and the model saw all files of the pack as the lock that is
\* named in it describes them, whatever the owner did meanwhile.
RecordIsOfOneReview ==
  \A a \in Anchors :
    anchor[a].record # "none" =>
      LET r == anchor[a].record IN
      /\ anchor[a].preflight = r /\ anchor[a].trace = r /\ output = r
      /\ modelCalls[a] = 1 /\ ~review[r].failed
      /\ review[r].bundle = review[r].sealed

=============================================================================

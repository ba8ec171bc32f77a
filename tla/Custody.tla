------------------------------- MODULE Custody -------------------------------
(* The stores that hold what must not be touched up afterwards: a capture store, a
   locked pack, a review of a pack, an evaluation freeze and the contract frozen in it, a
   trace that may be read once, the bundles of a journey, a public dogfood bundle, the
   fixture and report of a sandbox preflight, and the root of a workspace while it is made.
   Each is a directory, or what goes into one, with one protocol; they share the hazards
   (two processes, a kill, a change from outside) but no state, so a behaviour of Custody
   is one of a single store, chosen at first, while the others stay as they are.    *)
EXTENDS IncrementalCapture, PackLock, G1Review, EvaluationFreeze,
        EvaluationContract, OneUseReader, RecordBundle, PublicDogfood, SandboxPreflight,
        Initialization

VARIABLE subject  \* the store this behaviour is about

custodyVars ==
  <<subject, captureVars, packVars, reviewVars, freezeVars, contractVars, readerVars,
    bundleVars, dogfoodVars, preflightVars, initializationVars>>

Subjects ==
  {"capture", "pack", "review", "freeze", "contract", "reader", "bundle", "dogfood",
   "preflight", "initialization"}

\* The stores that are not the subject: as before any command or call.
PackAtRest ==
  /\ pack = NoFiles /\ dirMark = 0 /\ clock = 0
  /\ tool = Resting /\ packAnswer = "none" /\ toolCalls = 0 /\ fitted = FALSE

ReviewAtRest ==
  /\ input = [f \in InputFiles |-> CHOOSE d \in Digests : TRUE] /\ inputLock = input
  /\ tools = 0 /\ anchor = [a \in Anchors |-> Empty] /\ output = "none"
  /\ review = [r \in Reviewers |-> NotStarted]
  /\ modelCalls = [a \in Anchors |-> 0] /\ ownerActs = 0

BundleAtRest ==
  /\ profile = CHOOSE pr \in Profiles : TRUE
  /\ contract = <<>> /\ builder = NoBuild
  /\ published = [o \in OutputRoots |-> 0] /\ projected = published

CustodyInit ==
  /\ subject \in Subjects
  /\ CaptureInit
  /\ IF subject = "pack" THEN PackInit ELSE PackAtRest
  /\ IF subject = "review" THEN ReviewInit ELSE ReviewAtRest
  /\ FreezeInit /\ ContractInit /\ ReaderInit
  /\ IF subject = "bundle" THEN BundleInit ELSE BundleAtRest
  /\ DogfoodInit /\ PreflightInit /\ InitializationInit

\* A step of one store leaves all of the others alone.
OfCapture ==
  /\ subject = "capture"
  /\ UNCHANGED <<subject, packVars, reviewVars, freezeVars, contractVars, readerVars,
                 bundleVars, dogfoodVars, preflightVars, initializationVars>>
OfPack ==
  /\ subject = "pack"
  /\ UNCHANGED <<subject, captureVars, reviewVars, freezeVars, contractVars, readerVars,
                 bundleVars, dogfoodVars, preflightVars, initializationVars>>
OfReview ==
  /\ subject = "review"
  /\ UNCHANGED <<subject, captureVars, packVars, freezeVars, contractVars, readerVars,
                 bundleVars, dogfoodVars, preflightVars, initializationVars>>
OfFreeze ==
  /\ subject = "freeze"
  /\ UNCHANGED <<subject, captureVars, packVars, reviewVars, contractVars, readerVars,
                 bundleVars, dogfoodVars, preflightVars, initializationVars>>
OfContract ==
  /\ subject = "contract"
  /\ UNCHANGED <<subject, captureVars, packVars, reviewVars, freezeVars, readerVars,
                 bundleVars, dogfoodVars, preflightVars, initializationVars>>
OfReader ==
  /\ subject = "reader"
  /\ UNCHANGED <<subject, captureVars, packVars, reviewVars, freezeVars, contractVars,
                 bundleVars, dogfoodVars, preflightVars, initializationVars>>
OfBundle ==
  /\ subject = "bundle"
  /\ UNCHANGED <<subject, captureVars, packVars, reviewVars, freezeVars, contractVars,
                 readerVars, dogfoodVars, preflightVars, initializationVars>>
OfDogfood ==
  /\ subject = "dogfood"
  /\ UNCHANGED <<subject, captureVars, packVars, reviewVars, freezeVars, contractVars,
                 readerVars, bundleVars, preflightVars, initializationVars>>
OfPreflight ==
  /\ subject = "preflight"
  /\ UNCHANGED <<subject, captureVars, packVars, reviewVars, freezeVars, contractVars,
                 readerVars, bundleVars, dogfoodVars, initializationVars>>
OfInitialization ==
  /\ subject = "initialization"
  /\ UNCHANGED <<subject, captureVars, packVars, reviewVars, freezeVars, contractVars,
                 readerVars, bundleVars, dogfoodVars, preflightVars>>

CustodyNext ==
  \/ OfCapture /\ CaptureNext
  \/ OfPack /\ PackNext
  \/ OfReview /\ ReviewNext
  \/ OfFreeze /\ FreezeNext
  \/ OfContract /\ ContractNext
  \/ OfReader /\ ReaderNext
  \/ OfBundle /\ BundleNext
  \/ OfDogfood /\ DogfoodNext
  \/ OfPreflight /\ PreflightNext
  \/ OfInitialization /\ InitializationNext

CustodySpec == CustodyInit /\ [][CustodyNext]_custodyVars

=============================================================================

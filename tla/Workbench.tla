----------------------------- MODULE Workbench -----------------------------
(***************************************************************************)
(* The owner-facing workbench: an owner captures host files into a draft   *)
(* horizon, adds assertions and questions about them, and closes the       *)
(* horizon, which appends it to an additive journal and regenerates the    *)
(* dossiers.  This module is the logical level: every command holds the    *)
(* writer lock, so a command is one step that reads the selected           *)
(* generation and publishes a new one; only close is split, because it     *)
(* reads host files that the owner may edit meanwhile.  How a generation   *)
(* is staged, selected and cleaned up, and what a crash or a second writer *)
(* does to that, is module Publication.                                    *)
(*                                                                         *)
(* A command refused by its preconditions changes nothing and is no step.  *)
(* A refusal met later, once work has been done, is a step that records    *)
(* its error code in outcome.                                              *)
(***************************************************************************)
EXTENDS Journal

CONSTANTS
  Names,            \* horizon names the owner may choose
  Paths,            \* logical paths below the source root, as numbers
  Contents,         \* bytes a host file may hold
  Identities,       \* host file identities (device, inode, times, size)
  SourceAliases, AssertionAliases, QuestionAliases,
  Serials,          \* random parts of generated identifiers
  InitialHosts,     \* what the source root may hold at the beginning
  MaxFiles,         \* limits.regularFiles
  MaxActions        \* bound: actions in one draft

Current    == "current"      \* the pair derived/current/{VIEW.json,DOSSIER.md}
Unexpected == "unexpected"   \* a file or directory the workbench never wrote
Damaged    == [ damaged |-> TRUE ]   \* a derived pair with wrong bytes or modes

ASSUME NamesAssumption ==
  Current \notin Names /\ Unexpected \notin Names /\ None \notin Names
ASSUME PathsAssumption == Paths \subseteq Nat
\* An initialized workspace has four files.
ASSUME MaxFilesAssumption == MaxFiles \in Nat /\ 4 <= MaxFiles
ASSUME InitialHostsAssumption ==
  InitialHosts \subseteq
    [ Paths -> [ identity : Identities, content : Contents ] \cup { None } ]

VARIABLES
  active,    \* the selected generation: journal, head, snapshots, draft, ...
  host,      \* path -> [identity, content] of the source root, or None
  closing,   \* the close in progress: host files revalidated so far
  outcome    \* how the last command that ran ended

vars == <<active, host, closing, outcome>>

Prefixes3 == { "wrk", "hor", "src", "ast", "rev", "evd", "qst", "cls" }
Ids       == Prefixes3 \X Serials
Files     == [ identity : Identities, content : Contents ]
NoDraft   == [ name |-> None, id |-> None, actions |-> <<>> ]
NoClose   == [ on |-> FALSE, seen |-> <<>> ]
Commands  == { "open", "source", "assertion", "revise", "question", "undo",
               "abort", "close", "dossier", "rebuild" }
Refusals  == { "LIMIT_EXCEEDED", "SOURCE_CHANGED", "UNSAFE_SOURCE",
               "ATOMIC_PUBLICATION" }
Accepted  == [ command |-> "any", code |-> "OK" ]

\* JSON null is no identifier, no alias and no current revision.
ASSUME NoneAssumption ==
  /\ None \notin Ids \cup SourceAliases
  /\ None \notin [ assertion : Ids, revision : Ids ]

\* f with the value at key, which it may not have had.
With(f, key, value) ==
  [ k \in DOMAIN f \cup { key } |-> IF k = key THEN value ELSE f[k] ]

-----------------------------------------------------------------------------
(***************************************************************************)
(* Reading a generation.                                                   *)
(***************************************************************************)
SourceSet(draft) == { a \in ToSet(draft.actions) : a.kind = "source" }
SourceByAlias(draft, alias) ==
  CHOOSE a \in SourceSet(draft) : a.alias = alias

ActionIds(a) ==
  { a.id } \cup (IF a.kind = "source" THEN {} ELSE { a.span } \ { None })
           \cup (IF a.kind = "assertion-add" THEN { a.assertion } ELSE {})

DraftIds(draft) ==
  IF draft = NoDraft THEN {}
  ELSE { draft.id } \cup UNION { ActionIds(a) : a \in ToSet(draft.actions) }

AllTakenIds(g) == JournalIds(g.records) \cup DraftIds(g.draft)

\* A finite set of numbers as an increasing sequence.
Ascending(numbers) ==
  [ k \in 1 .. Cardinality(numbers) |->
      CHOOSE n \in numbers : Cardinality({ m \in numbers : m < n }) = k - 1 ]

\* The elements of a sequence at some of its positions, in their order.
Selected(s, positions) ==
  LET at == Ascending(positions)
  IN  [ n \in DOMAIN at |-> s[at[n]] ]

\* The captured sources, and everything else, in the order of the actions.
Sources(draft) ==
  Selected(draft.actions,
           { i \in DOMAIN draft.actions : draft.actions[i].kind = "source" })

Semantics(draft) ==
  Selected(draft.actions,
           { i \in DOMAIN draft.actions : draft.actions[i].kind # "source" })

\* A fresh identifier.  The code draws a random UUID and draws again when it
\* is taken; which free one it gets does not matter, and the first free one
\* is the worst case, since it is also the one an undone action used.
GeneratedId(prefix, taken) ==
  << prefix, CHOOSE n \in Serials : <<prefix, n>> \notin taken >>

JournalAliases(records, kind) ==
  { records[i].alias : i \in Positions(records, kind) }

Revises(a, alias) ==
  a.kind \in { "assertion-add", "assertion-revise" } /\ a.alias = alias

\* The assertion behind an alias and its current revision, the draft's
\* actions taking precedence over the journal; None for an unknown alias.
AssertionState(records, actions, alias) ==
  LET drafted  == LastOf({ i \in DOMAIN actions : Revises(actions[i], alias) })
      recorded == LastOf({ i \in Positions(records, "AssertionRevision") :
                             records[i].alias = alias })
  IN  IF drafted # 0
      THEN [ assertion |-> actions[drafted].assertion,
             revision  |-> actions[drafted].id ]
      ELSE IF recorded # 0
      THEN [ assertion |-> records[recorded].assertion,
             revision  |-> records[recorded].id ]
      ELSE None

HorizonNamed(horizons, name) ==
  horizons[CHOOSE k \in DOMAIN horizons : horizons[k].name = name]
ClosedNames(horizons) == { horizons[k].name : k \in DOMAIN horizons }

-----------------------------------------------------------------------------
(***************************************************************************)
(* Projections: the supported derived files, as pairs.                     *)
(***************************************************************************)
ProjectionPaths(g) ==
  IF g.horizons = <<>> THEN {} ELSE { Current } \cup g.requestedAsOf

ExpectedProjections(g) ==
  [ p \in ProjectionPaths(g) |->
      BuildView(g.records, g.horizons,
                IF p = Current THEN Last(g.horizons)
                ELSE HorizonNamed(g.horizons, p)) ]

\* The current pair is the exact pair of an earlier head, and every other
\* file is what it should be.
IsStale(g) ==
  /\ DOMAIN g.derived = ProjectionPaths(g)
  /\ \A p \in ProjectionPaths(g) \ { Current } :
        g.derived[p] = ExpectedProjections(g)[p]
  /\ g.derived[Current] # Damaged
  /\ g.derived[Current].asOf \in ToSet(Front(g.horizons))

ProjectionStatus(g) ==
  CASE DOMAIN g.derived = {} -> "absent"
    [] DOMAIN g.derived # {} /\ g.derived = ExpectedProjections(g) -> "current"
    [] DOMAIN g.derived # {} /\ g.derived # ExpectedProjections(g) ->
         IF IsStale(g) THEN "stale" ELSE "invalid"

UsableProjections(g) == ProjectionStatus(g) \in { "absent", "current" }

\* Mutant: regeneration writes over what is there without clearing it first.
ReplaceDerivedInPlace(g) ==
  [ g EXCEPT !.derived = ExpectedProjections(g) @@ @ ]

ReplaceDerived(g) == [ g EXCEPT !.derived = ExpectedProjections(g) ]

-----------------------------------------------------------------------------
(***************************************************************************)
(* What a staged generation has to satisfy before it is selected.          *)
(***************************************************************************)
ValidMetadata(g) == g.requestedAsOf \subseteq ClosedNames(g.horizons)

\* Everything action i of a draft may refer to or must not collide with.
ValidAction(records, actions, i) ==
  LET a       == actions[i]
      earlier == SubSeq(actions, 1, i - 1)
      before  == ToSet(earlier)
      sources == { b \in before : b.kind = "source" }
      taken   == JournalIds(records) \cup UNION { ActionIds(b) : b \in before }
  IN
  /\ a.kind = "source" =>
       /\ a.id \notin taken
       /\ a.alias \notin JournalAliases(records, "SourceSnapshot")
       /\ \A b \in sources : /\ b.alias # a.alias
                             /\ b.path # a.path
                             /\ b.content # a.content
                             /\ b.identity # a.identity
  /\ a.kind = "assertion-add" =>
       /\ ActionIds(a) \cap taken = {}
       /\ AssertionState(records, earlier, a.alias) = None
  /\ a.kind = "assertion-revise" =>
       /\ ActionIds(a) \cap taken = {}
       /\ AssertionState(records, earlier, a.alias) =
            [ assertion |-> a.assertion, revision |-> a.predecessor ]
  /\ a.kind = "question" =>
       /\ ActionIds(a) \cap taken = {}
       /\ a.alias \notin JournalAliases(records, "QuestionOpened")
       /\ \A b \in before : b.kind = "question" => b.alias # a.alias
       /\ a.source = None => a.span = None
  /\ a.kind # "source" /\ a.source # None =>
       \E b \in sources : b.alias = a.source

ValidDraft(g) ==
  IF g.draft = NoDraft THEN DOMAIN g.captured = {}
  ELSE /\ g.draft.name \notin ClosedNames(g.horizons)
       /\ \A k \in DOMAIN g.horizons : g.horizons[k].id # g.draft.id
       /\ \A i \in DOMAIN g.draft.actions : ValidAction(g.records, g.draft.actions, i)
       /\ DOMAIN g.captured = { a.id : a \in SourceSet(g.draft) }
       /\ \A a \in SourceSet(g.draft) : g.captured[a.id] = a.content

ValidateStagedState(g) ==
  /\ VerifyCanonical(g.records, g.horizons, g.snapshots)
  /\ ValidMetadata(g)
  /\ ValidDraft(g)
  /\ UsableProjections(g)

\* .META.json, .STATE.json, HEAD.json and JOURNAL.jsonl, the snapshots, the
\* draft's STATE.json and captured files, and two files per dossier.
FileCount(g) ==
  4 + Cardinality(g.snapshots)
    + (IF g.draft = NoDraft THEN 0 ELSE 1 + Cardinality(DOMAIN g.captured))
    + 2 * Cardinality(DOMAIN g.derived)

Fits(g) == FileCount(g) <= MaxFiles

PublicationCode(g) ==
  IF ~ Fits(g) THEN "LIMIT_EXCEEDED"
  ELSE IF ~ ValidateStagedState(g) THEN "ATOMIC_PUBLICATION"
  ELSE "OK"

Ended(command, code) ==
  outcome' = IF code = "OK" THEN Accepted
             ELSE [ command |-> command, code |-> code ]

\* The end of every mutating command: g is selected, or nothing changes.
Publish(command, g) ==
  /\ Ended(command, PublicationCode(g))
  /\ active' = IF PublicationCode(g) = "OK" THEN g ELSE active

-----------------------------------------------------------------------------
(***************************************************************************)
(* Commands that open, extend, shorten and discard the draft.              *)
(***************************************************************************)
Init ==
  /\ active = [ records       |-> << [ kind |-> "WorkspaceInitialized",
                                       id   |-> <<"wrk", Min(Serials)>>,
                                       horizon |-> None ] >>,
                horizons      |-> <<>>,
                snapshots     |-> {},
                draft         |-> NoDraft,
                captured      |-> <<>>,
                requestedAsOf |-> {},
                derived       |-> <<>> ]
  /\ host \in InitialHosts
  /\ closing = NoClose
  /\ outcome = Accepted

\* No other command runs while a close holds the writer lock.
LockFree == ~ closing.on

MayExtendDraft ==
  /\ LockFree
  /\ active.draft # NoDraft
  /\ UsableProjections(active)

Extended(action) ==
  [ active EXCEPT !.draft.actions = Append(@, action) ]

OpenHorizon(name) ==
  /\ LockFree
  /\ active.draft = NoDraft
  /\ name \notin ClosedNames(active.horizons)
  /\ UsableProjections(active)
  /\ Publish("open",
       [ active EXCEPT !.draft =
           [ name    |-> name,
             id      |-> GeneratedId("hor", AllTakenIds(active)),
             actions |-> <<>> ] ])
  /\ UNCHANGED <<host, closing>>

AddSource(alias, path) ==
  /\ MayExtendDraft
  /\ Len(active.draft.actions) < MaxActions
  /\ alias \notin JournalAliases(active.records, "SourceSnapshot")
  /\ host[path] # None
  /\ \A a \in SourceSet(active.draft) :
        /\ a.alias # alias
        /\ a.path # path
        /\ a.content # host[path].content
        /\ a.identity # host[path].identity
  /\ LET id     == GeneratedId("src", AllTakenIds(active))
         action == [ kind     |-> "source",
                     alias    |-> alias,
                     path     |-> path,
                     id       |-> id,
                     content  |-> host[path].content,
                     identity |-> host[path].identity ]
     IN  Publish("source",
           [ Extended(action) EXCEPT !.captured = With(@, id, host[path].content) ])
  /\ UNCHANGED <<host, closing>>

AddAssertion(alias, source) ==
  /\ MayExtendDraft
  /\ Len(active.draft.actions) < MaxActions
  /\ \E a \in SourceSet(active.draft) : a.alias = source
  /\ AssertionState(active.records, active.draft.actions, alias) = None
  /\ LET taken == AllTakenIds(active)
     IN  Publish("assertion",
           Extended([ kind      |-> "assertion-add",
                      alias     |-> alias,
                      assertion |-> GeneratedId("ast", taken),
                      id        |-> GeneratedId("rev", taken),
                      span      |-> GeneratedId("evd", taken),
                      source    |-> source ]))
  /\ UNCHANGED <<host, closing>>

ReviseAssertion(alias, source) ==
  LET current == AssertionState(active.records, active.draft.actions, alias)
      taken   == AllTakenIds(active)
  IN
  /\ MayExtendDraft
  /\ Len(active.draft.actions) < MaxActions
  /\ \E a \in SourceSet(active.draft) : a.alias = source
  /\ current # None
  /\ Publish("revise",
       Extended([ kind        |-> "assertion-revise",
                  alias       |-> alias,
                  assertion   |-> current.assertion,
                  predecessor |-> current.revision,
                  id          |-> GeneratedId("rev", taken),
                  span        |-> GeneratedId("evd", taken),
                  source      |-> source ]))
  /\ UNCHANGED <<host, closing>>

\* A question may cite a source (source is its alias) or none (None).
AddQuestion(alias, source) ==
  LET taken == AllTakenIds(active)
  IN
  /\ MayExtendDraft
  /\ Len(active.draft.actions) < MaxActions
  /\ alias \notin JournalAliases(active.records, "QuestionOpened")
  /\ \A a \in ToSet(active.draft.actions) : a.kind = "question" => a.alias # alias
  /\ source # None => \E a \in SourceSet(active.draft) : a.alias = source
  /\ Publish("question",
       Extended([ kind   |-> "question",
                  alias  |-> alias,
                  id     |-> GeneratedId("qst", taken),
                  span   |-> IF source = None THEN None
                             ELSE GeneratedId("evd", taken),
                  source |-> source ]))
  /\ UNCHANGED <<host, closing>>

\* The draft without its last action; an undone source takes its captured
\* file with it.
Undone(g) ==
  LET last == Last(g.draft.actions)
  IN  [ g EXCEPT !.draft.actions = Front(@),
                 !.captured = IF last.kind = "source"
                              THEN Restrict(@, DOMAIN @ \ { last.id })
                              ELSE @ ]

UndoDraft ==
  /\ MayExtendDraft
  /\ active.draft.actions # <<>>
  /\ LET last == Last(active.draft.actions)
     IN  last.kind = "source" =>
           \A a \in ToSet(Front(active.draft.actions)) :
              a.kind # "source" => a.source # last.alias
  /\ Publish("undo", Undone(active))
  /\ UNCHANGED <<host, closing>>

\* Mutant: the captured files outlive their draft.
WithoutDraftFile(g) == [ g EXCEPT !.draft = NoDraft ]

WithoutDraft(g) == [ g EXCEPT !.draft = NoDraft, !.captured = <<>> ]

AbortHorizon ==
  /\ MayExtendDraft
  /\ Publish("abort", WithoutDraft(active))
  /\ UNCHANGED <<host, closing>>

-----------------------------------------------------------------------------
(***************************************************************************)
(* Close: revalidate the sources one by one against the host, then append  *)
(* the whole horizon to the journal, drop the draft and regenerate.        *)
(***************************************************************************)
SourceRecord(draft, a) ==
  [ kind |-> "SourceSnapshot", id |-> a.id, horizon |-> draft.id,
    alias |-> a.alias, path |-> a.path, identity |-> a.identity,
    content |-> a.content ]

SortedSources(draft) ==
  LET paths == Ascending({ a.path : a \in SourceSet(draft) })
  IN  [ n \in DOMAIN paths |->
          CHOOSE a \in SourceSet(draft) : a.path = paths[n] ]

EvidenceRecord(draft, a) ==
  [ kind |-> "EvidenceSpan", id |-> a.span, horizon |-> draft.id,
    source |-> SourceByAlias(draft, a.source).id ]

RevisionRecord(draft, a) ==
  [ kind |-> "AssertionRevision", id |-> a.id, horizon |-> draft.id,
    alias |-> a.alias, assertion |-> a.assertion, span |-> a.span,
    predecessor |-> IF a.kind = "assertion-revise" THEN a.predecessor ELSE None ]

QuestionRecord(draft, a) ==
  [ kind |-> "QuestionOpened", id |-> a.id, horizon |-> draft.id,
    alias |-> a.alias, span |-> a.span ]

\* The semantic records in order: action n leaves its record in slot 2n, and
\* its evidence, if it has any, just before it in slot 2n - 1.
Slot(n) == 2 * n

\* Mutant: only what cites evidence is recorded.
CitingSlots(draft) ==
  UNION { { Slot(n) - 1, Slot(n) } :
            n \in { m \in DOMAIN draft.actions :
                      /\ draft.actions[m].kind # "source"
                      /\ draft.actions[m].span # None } }

SemanticSlots(draft) ==
  LET semantic == { n \in DOMAIN draft.actions : draft.actions[n].kind # "source" }
      citing   == { n \in semantic : draft.actions[n].span # None }
  IN  { Slot(n) - 1 : n \in citing } \cup { Slot(n) : n \in semantic }

RecordIn(draft, slot) ==
  LET a == draft.actions[(slot + 1) \div 2]
  IN  IF slot % 2 = 1 THEN EvidenceRecord(draft, a)
      ELSE IF a.kind = "question" THEN QuestionRecord(draft, a)
      ELSE RevisionRecord(draft, a)

BoundaryRecord(kind, id, draft) ==
  [ kind |-> kind, id |-> id, horizon |-> draft.id, name |-> draft.name ]

HorizonRecords(g) ==
  LET draft   == g.draft
      sources == SortedSources(draft)
      slots   == Ascending(SemanticSlots(draft))
      closeId == GeneratedId("cls", AllTakenIds(g))
  IN  << BoundaryRecord("HorizonOpened", draft.id, draft) >>
      \o [ n \in DOMAIN sources |-> SourceRecord(draft, sources[n]) ]
      \o [ n \in DOMAIN slots |-> RecordIn(draft, slots[n]) ]
      \o << BoundaryRecord("HorizonClosed", closeId, draft) >>

\* Mutant: the close compacts the journal to its first record and the new
\* horizon.
CompactedClose(g) ==
  LET records == << g.records[1] >> \o HorizonRecords(g)
  IN  ReplaceDerived([ WithoutDraft(g) EXCEPT
        !.records       = records,
        !.horizons      = << HorizonItem(records, Len(records)) >>,
        !.snapshots     = RetainedContents(records),
        !.requestedAsOf = {} ])

\* Mutant: the close leaves the dossiers to a later rebuild.
ClosedWithoutDossiers(g) ==
  LET records  == g.records \o HorizonRecords(g)
      horizons == Append(g.horizons, HorizonItem(records, Len(records)))
  IN  [ WithoutDraft(g) EXCEPT
        !.records   = records,
        !.horizons  = horizons,
        !.snapshots = @ \cup { g.captured[a.id] : a \in SourceSet(g.draft) },
        !.derived   = <<>> ]

\* The generation a close stages.
Closed(g) ==
  LET records  == g.records \o HorizonRecords(g)
      horizons == Append(g.horizons, HorizonItem(records, Len(records)))
  IN  ReplaceDerived([ WithoutDraft(g) EXCEPT
        !.records   = records,
        !.horizons  = horizons,
        !.snapshots = @ \cup { g.captured[a.id] : a \in SourceSet(g.draft) } ])

BeginClose ==
  /\ MayExtendDraft
  /\ SourceSet(active.draft) # {}
  /\ closing' = [ on |-> TRUE, seen |-> <<>> ]
  /\ UNCHANGED <<active, host, outcome>>

NextSource == Sources(active.draft)[Len(closing.seen) + 1]

\* Mutant: the close compares bytes and not the identity of the file.
RevalidationOfBytes(source, file) ==
  IF file = None THEN "UNSAFE_SOURCE"
  ELSE IF file.content # active.captured[source.id] THEN "SOURCE_CHANGED"
  ELSE "OK"

\* What one revalidation concludes from the host file it reads.
RevalidationCode(source, file) ==
  IF file = None THEN "UNSAFE_SOURCE"
  ELSE IF \/ file.identity # source.identity
          \/ file.content # source.content
          \/ file.content # active.captured[source.id]
  THEN "SOURCE_CHANGED"
  ELSE "OK"

RevalidateSource ==
  /\ closing.on
  /\ Len(closing.seen) < Len(Sources(active.draft))
  /\ LET file == host[NextSource.path]
         code == RevalidationCode(NextSource, file)
     IN  IF code = "OK"
         THEN closing' = [ closing EXCEPT !.seen = Append(@, file) ]
              /\ UNCHANGED outcome
         ELSE closing' = NoClose /\ Ended("close", code)
  /\ UNCHANGED <<active, host>>

PublishClose ==
  /\ closing.on
  /\ Len(closing.seen) = Len(Sources(active.draft))
  /\ closing' = NoClose
  /\ IF Len(active.records \o HorizonRecords(active)) > MaxRecords
     THEN Ended("close", "LIMIT_EXCEEDED") /\ UNCHANGED active
     ELSE Publish("close", Closed(active))
  /\ UNCHANGED host

-----------------------------------------------------------------------------
(***************************************************************************)
(* Dossiers.                                                               *)
(***************************************************************************)
WithDossier(g, name) ==
  ReplaceDerived([ g EXCEPT !.requestedAsOf = @ \cup { name } ])

PublishDossier(name) ==
  /\ LockFree
  /\ name \in ClosedNames(active.horizons)
  /\ UsableProjections(active)
  /\ Publish("dossier", WithDossier(active, name))
  /\ UNCHANGED <<host, closing>>

RebuildProjections ==
  /\ LockFree
  /\ DOMAIN active.derived \subseteq ProjectionPaths(active)
  /\ Publish("rebuild", ReplaceDerived(active))
  /\ UNCHANGED <<host, closing>>

-----------------------------------------------------------------------------
(***************************************************************************)
(* The owner, outside the program: edits host files, and may delete,       *)
(* damage, replace by an older copy or add to the derived files.           *)
(***************************************************************************)
UsedIdentities ==
  { host[p].identity : p \in { q \in Paths : host[q] # None } }
    \cup { active.records[i].identity :
             i \in Positions(active.records, "SourceSnapshot") }
    \cup (IF active.draft = NoDraft THEN {}
          ELSE { a.identity : a \in SourceSet(active.draft) })

\* A write or a replacement gives the file an identity that nothing still
\* remembers.
OwnerWritesFile(path, content) ==
  /\ Identities \ UsedIdentities # {}
  /\ host' = [ host EXCEPT ![path] =
                 [ identity |-> CHOOSE i \in Identities \ UsedIdentities : TRUE,
                   content  |-> content ] ]
  /\ UNCHANGED <<active, closing, outcome>>

OwnerRemovesFile(path) ==
  /\ host[path] # None
  /\ host' = [ host EXCEPT ![path] = None ]
  /\ UNCHANGED <<active, closing, outcome>>

OwnerEditsDerived(derived) ==
  /\ active' = [ active EXCEPT !.derived = derived ]
  /\ UNCHANGED <<host, closing, outcome>>

OwnerDeletesDerived == OwnerEditsDerived(<<>>)

OwnerDamagesDossier(p) ==
  /\ p \in ProjectionPaths(active)
  /\ OwnerEditsDerived(With(active.derived, p, Damaged))

OwnerAddsUnexpected ==
  OwnerEditsDerived(With(active.derived, Unexpected, Damaged))

OwnerRestoresOlder(name) ==
  /\ { name, Current } \subseteq DOMAIN active.derived
  /\ OwnerEditsDerived([ active.derived EXCEPT ![Current] = active.derived[name] ])

Command ==
  \/ \E n \in Names : OpenHorizon(n) \/ PublishDossier(n)
  \/ \E s \in SourceAliases, p \in Paths : AddSource(s, p)
  \/ \E a \in AssertionAliases, s \in SourceAliases :
        AddAssertion(a, s) \/ ReviseAssertion(a, s)
  \/ \E q \in QuestionAliases, s \in SourceAliases \cup { None } :
        AddQuestion(q, s)
  \/ UndoDraft \/ AbortHorizon \/ RebuildProjections
  \/ BeginClose \/ RevalidateSource \/ PublishClose

OwnerOnHost ==
  \/ \E p \in Paths, c \in Contents : OwnerWritesFile(p, c)
  \/ \E p \in Paths : OwnerRemovesFile(p)

OwnerOnDerived ==
  \/ OwnerDeletesDerived
  \/ OwnerAddsUnexpected
  \/ \E p \in Names \cup { Current } : OwnerDamagesDossier(p)
  \/ \E n \in Names : OwnerRestoresOlder(n)

Next == Command \/ OwnerOnHost \/ OwnerOnDerived

Spec == Init /\ [][Next]_vars

\* The same workbench when the owner leaves the files alone, edits only the
\* host files, or edits only the derived files.
CommandSpec == Init /\ [][Command]_vars
HostSpec    == Init /\ [][Command \/ OwnerOnHost]_vars
DerivedSpec == Init /\ [][Command \/ OwnerOnDerived]_vars

-----------------------------------------------------------------------------
(***************************************************************************)
(* Properties.                                                             *)
(***************************************************************************)

\* No sequence of commands, undos, aborts and host edits leads a command to
\* stage a generation that the workbench's own verifier refuses: what the
\* commands check before they act is enough for verifyCanonical, the draft
\* validator and the projection check to pass.
GateNeverFires == outcome.code # "ATOMIC_PUBLICATION"

\* The journal only grows, and every earlier record stays where it was
\* ("Every later close retains all earlier bytes as an exact prefix").
JournalIsAdditive == [][IsPrefix(active.records, active'.records)]_active

\* What a dossier as of a closed horizon shows never changes again, whatever
\* is captured, revised, asked, undone, aborted or closed later.
AsOfIsolation ==
  [][\A n \in ClosedNames(active.horizons) :
       BuildView(active.records, active.horizons,
                 HorizonNamed(active.horizons, n))
         = BuildView(active'.records, active'.horizons,
                     HorizonNamed(active'.horizons, n))]_active

\* A close publishes the whole draft: every captured source with its bytes,
\* and every assertion, revision and question the owner did not undo, in the
\* order they were made.
ClosePublishesWholeDraft ==
  [][active'.records # active.records =>
       LET added == SubSeq(active'.records, Len(active.records) + 1,
                           Len(active'.records))
           said  == Selected(added, Positions(added, "AssertionRevision")
                                      \cup Positions(added, "QuestionOpened"))
           meant == Semantics(active.draft)
       IN  /\ [ n \in DOMAIN said |-> said[n].id ]
                = [ n \in DOMAIN meant |-> meant[n].id ]
           /\ { r.id : r \in { x \in ToSet(added) : x.kind = "SourceSnapshot" } }
                = DOMAIN active.captured
           /\ \A r \in ToSet(added) : r.kind = "SourceSnapshot" =>
                /\ r.content = active.captured[r.id]
                /\ r.content \in active'.snapshots]_active

\* What a close retains is what it validated: each source was seen on the
\* host during this close with the identity and bytes that are published.
RetainedIsValidated ==
  [][active'.records # active.records =>
       \A n \in DOMAIN Sources(active.draft) :
          LET source == Sources(active.draft)[n]
          IN  closing.seen[n] = [ identity |-> source.identity,
                                  content  |-> active.captured[source.id] ]]_active

\* Whatever the owner did to the derived files, even while the close ran, a
\* published close leaves the current dossier and every requested as-of
\* dossier exact.
CloseRegeneratesDossiers ==
  [][active'.records # active.records =>
       /\ ProjectionStatus(active') = "current"
       /\ DOMAIN active'.derived = { Current } \cup active.requestedAsOf]_active

\* Undo and abort are never refused for a limit or by the verifier, so a
\* draft that cannot be closed can always be shortened or discarded.
EscapeIsOpen == outcome.command \notin { "undo", "abort" }

\* README.md:215 says a close "fails closed if identity changes during the
\* read or before close": when a horizon is published its sources are still
\* on the host as captured.
PublishedSourcesAreLive ==
  [][active'.records # active.records =>
       \A a \in SourceSet(active.draft) :
          host[a.path] = [ identity |-> a.identity, content |-> a.content ]]_active
=============================================================================

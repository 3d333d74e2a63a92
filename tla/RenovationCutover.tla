------------------------- MODULE RenovationCutover -------------------------
(***************************************************************************)
(* How the Renovation Hub becomes the writer of the ledger (ledger.py):    *)
(* a verified package is staged, the source is frozen, the Hub's own       *)
(* database and attachments are replaced by the package's, and an operator *)
(* activates the writer with a string that names the manifest and the      *)
(* generation.  Every stop of the writer rotates the generation.           *)
(*                                                                         *)
(* Abstractions.  One thread serves the requests, so a request is a step   *)
(* of its own except where the process may be killed within it: preparing  *)
(* and seeding go step by step.  Evidence, digests and their checks are    *)
(* given by the operator and taken as right; a package is its manifest.    *)
(* What the data is is its origin: a manifest's, the Hub's own, or none.   *)
(***************************************************************************)
EXTENDS Naturals, FiniteSets

CONSTANTS
    Manifests,
    MaxGeneration,  \* bound on generations
    MaxStops        \* bound on restarts of the process

ASSUME CutoverAssumption ==
    /\ MaxGeneration \in Nat /\ MaxStops \in Nat
    /\ {"none", "empty", "gone", "partial"} \cap Manifests = {}

VARIABLES
    mode,         \* metadata writer_mode
    generation,   \* metadata writer_generation
    activeManifest, \* metadata active_manifest_id
    manifest,     \* table cutover_manifests: [state, generation]
    lease,        \* table writer_leases: [generation, held]
    staging,      \* manifests with a directory under migrations
    request,      \* the request under way: [at, on]
    db,           \* the database: [from, own]: its origin, and whether it
                  \* holds business data written here
    attachments,  \* origin of that directory, "gone" while it is moved
    candidate, previous, backup,  \* the seed's copies and rollback baseline
    confirmations,\* strings operators hold: [on, generation, read]
    suspensions,  \* how often the writer was stopped
    accepted,     \* the confirmation activated last
    written,      \* business data was written here, or was here before
    stops

leaseVars == <<mode, generation, activeManifest, manifest, lease, accepted>>
dataVars == <<db, attachments, candidate, previous, backup, written>>
cutoverVars == <<leaseVars, staging, request, dataVars, confirmations,
                 suspensions, stops>>

None == "none"
Ready == [at |-> "ready", on |-> None]
Empty == [from |-> None, own |-> FALSE]
NoConfirmation == [on |-> None, generation |-> 0, read |-> 0]
During(at, m) == request' = [at |-> at, on |-> m]
State(m) == manifest[m].state
Serving == request = Ready

\* A new Hub, or one with business data of an earlier version.
CutoverInit ==
    /\ mode \in {"read_only", "suspended"} /\ generation = 0 /\ activeManifest = None
    /\ manifest = [m \in Manifests |-> [state |-> "none", generation |-> 0]]
    /\ lease = [m \in Manifests |-> [generation |-> 0, held |-> FALSE]]
    /\ staging = {} /\ request = Ready
    /\ \E own \in BOOLEAN : db = [from |-> None, own |-> own] /\ written = own
    /\ attachments = "empty" /\ candidate = None /\ previous = None /\ backup = None
    /\ confirmations = {} /\ accepted = NoConfirmation
    /\ suspensions = 0 /\ stops = 0

\* _require_writer.
Held == {m \in Manifests : lease[m].held}
MayWrite ==
    /\ mode = "primary_writer" /\ activeManifest \in Manifests
    /\ State(activeManifest) = "primary_writer" /\ manifest[activeManifest].generation = generation
    /\ Held = {activeManifest} /\ lease[activeManifest].generation = generation

-----------------------------------------------------------------------------
(* prepare_primary_migration: the staging directory first, then the row,    *)
(* the mode, the generation and the active manifest in one transaction.     *)
StageMigration(m) ==
    /\ Serving /\ State(m) = "none" /\ mode = "read_only" /\ m \notin staging
    /\ staging' = staging \cup {m} /\ During("staged", m)
    /\ UNCHANGED <<leaseVars, dataVars, confirmations, suspensions, stops>>

PrepareMigration ==
    LET m == request.on IN
    /\ request.at = "staged" /\ generation < MaxGeneration
    /\ generation' = generation + 1 /\ activeManifest' = m /\ mode' = "migration_prepared"
    /\ manifest' = [manifest EXCEPT ![m] = [state |-> "migration_prepared",
                                            generation |-> generation + 1]]
    /\ request' = Ready
    /\ UNCHANGED <<lease, accepted, staging, dataVars, confirmations, suspensions, stops>>

\* mark_source_frozen, mark_cutover_ready; repeated, they change nothing.
Advance(m, from, to) ==
    /\ Serving /\ State(m) = from
    /\ manifest' = [manifest EXCEPT ![m].state = to] /\ mode' = to
    /\ UNCHANGED <<generation, activeManifest, lease, accepted, staging, request, dataVars,
                   confirmations, suspensions, stops>>

FreezeSource(m) == Advance(m, "migration_prepared", "source_frozen")
CutoverReady(m) == Advance(m, "primary_seeded", "cutover_ready")

-----------------------------------------------------------------------------
(* seed_primary.  Data already here is only accepted where an interrupted   *)
(* seed has left its backup.                                                *)
Occupied == db # Empty

SeedUnchanged == UNCHANGED <<leaseVars, staging, confirmations, suspensions, stops>>

BeginSeed(m) ==
    /\ Serving /\ State(m) = "source_frozen"
    /\ IF Occupied
       THEN /\ backup # None /\ During("recovering", m)
            /\ UNCHANGED dataVars
       ELSE /\ backup' = "empty" /\ candidate' = "partial" /\ During("copying", m)
            /\ UNCHANGED <<db, attachments, previous, written>>
    /\ SeedUnchanged

CopyAttachments ==
    /\ request.at = "copying" /\ candidate' = request.on
    /\ During("copied", request.on)
    /\ UNCHANGED <<db, attachments, previous, backup, written>> /\ SeedUnchanged

LoadDatabase ==
    /\ request.at = "copied" /\ db' = [from |-> request.on, own |-> FALSE]
    /\ During("loaded", request.on)
    /\ UNCHANGED <<attachments, candidate, previous, backup, written>> /\ SeedUnchanged

MoveOldAway ==
    /\ request.at = "loaded" /\ previous' = attachments /\ attachments' = "gone"
    /\ During("moved", request.on)
    /\ UNCHANGED <<db, candidate, backup, written>> /\ SeedUnchanged

\* The recovery: what stands in for the attachments gives way to the candidate.
RecoverAttachments ==
    /\ request.at = "recovering"
    /\ IF candidate = None
       THEN During("swapped_again", request.on) /\ UNCHANGED <<attachments, previous>>
       ELSE /\ previous' = IF previous = None THEN attachments ELSE previous
            /\ attachments' = "gone" /\ During("moved_again", request.on)
    /\ UNCHANGED <<db, candidate, backup, written>> /\ SeedUnchanged

MoveNewIn ==
    /\ request.at \in {"moved", "moved_again"}
    /\ attachments' = candidate /\ candidate' = None
    /\ During(IF request.at = "moved" THEN "swapped" ELSE "swapped_again", request.on)
    /\ UNCHANGED <<db, previous, backup, written>> /\ SeedUnchanged

\* _validate_canonical_shadow.
Whole(m) == db = [from |-> m, own |-> FALSE] /\ attachments = m

MarkSeeded ==
    LET m == request.on IN
    /\ request.at \in {"swapped", "swapped_again"} /\ Whole(m)
    /\ manifest' = [manifest EXCEPT ![m].state = "primary_seeded"]
    /\ mode' = "primary_seeded" /\ request' = Ready
    /\ UNCHANGED <<generation, activeManifest, lease, accepted, staging, dataVars,
                   confirmations, suspensions, stops>>

\* Any error from loading on restores the backup; a recovery that cannot be
\* confirmed ends with seed_recovery_required and touches nothing.
SeedFails ==
    /\ \/ /\ request.at \in {"copied", "loaded", "moved", "swapped"}
          /\ db' = Empty /\ During("restoring", request.on)
       \/ /\ request.at \in {"recovering", "moved_again", "swapped_again", "copying"}
          /\ request' = Ready /\ UNCHANGED db
    /\ UNCHANGED <<attachments, candidate, previous, backup, written>> /\ SeedUnchanged

RestoreAttachments ==
    /\ request.at = "restoring"
    /\ attachments' = IF previous = None THEN attachments ELSE previous
    /\ previous' = None /\ candidate' = None /\ request' = Ready
    /\ UNCHANGED <<db, backup, written>> /\ SeedUnchanged

-----------------------------------------------------------------------------
(* An operator, a script or a log takes down the confirmation string.       *)
ReadConfirmation(m) ==
    /\ State(m) # "none"
    /\ confirmations' = confirmations \cup
         {[on |-> m, generation |-> manifest[m].generation, read |-> suspensions]}
    /\ UNCHANGED <<leaseVars, staging, request, dataVars, suspensions, stops>>

ActivateWriter(c) ==
    /\ Serving /\ activeManifest = c.on /\ generation = manifest[c.on].generation
    /\ c.generation = generation
    /\ State(c.on) \in {"cutover_ready", "primary_writer"}
    /\ lease' = [m \in Manifests |-> IF m = c.on
                    THEN [generation |-> generation, held |-> TRUE]
                    ELSE [lease[m] EXCEPT !.held = FALSE]]
    /\ manifest' = [manifest EXCEPT ![c.on].state = "primary_writer"]
    /\ mode' = "primary_writer" /\ accepted' = c
    /\ UNCHANGED <<generation, activeManifest, staging, request, dataVars, confirmations,
                   suspensions, stops>>

\* suspend_writer.
KeptGeneration == generation
NextGeneration ==
    IF manifest[activeManifest].generation > generation
    THEN manifest[activeManifest].generation + 1 ELSE generation + 1

Suspended ==
    /\ lease' = [m \in Manifests |-> [lease[m] EXCEPT !.held = FALSE]]
    /\ IF activeManifest = None
       THEN UNCHANGED <<generation, manifest>>
       ELSE /\ NextGeneration <= MaxGeneration
            /\ generation' = NextGeneration
            /\ manifest' = [manifest EXCEPT ![activeManifest].generation = NextGeneration]
    /\ mode' = "suspended" /\ suspensions' = suspensions + 1
    /\ UNCHANGED <<activeManifest, accepted>>

\* Repeated it rotates the generation again; without an active manifest a
\* repetition changes nothing and is no step.
Suspend ==
    /\ Serving /\ (mode # "suspended" \/ activeManifest # None) /\ Suspended
    /\ UNCHANGED <<staging, request, dataVars, confirmations, stops>>

\* The process stops anywhere and starts with an option of its choice
\* (coordinate_configured_writer_mode); the missing directory is made anew.
StopsWriter(configured) ==
    \/ configured = "suspended" /\ mode # "suspended"
    \/ configured = "read_only" /\ mode \notin {"read_only", "shadow_validated"}

RestartHub(configured) ==
    /\ stops < MaxStops /\ stops' = stops + 1
    /\ request' = Ready
    /\ attachments' = IF attachments = "gone" THEN "empty" ELSE attachments
    /\ IF StopsWriter(configured) THEN Suspended ELSE UNCHANGED <<leaseVars, suspensions>>
    /\ UNCHANGED <<staging, db, candidate, previous, backup, written, confirmations>>

\* Any business write.
Write ==
    /\ Serving /\ MayWrite
    /\ db' = [db EXCEPT !.own = TRUE] /\ written' = TRUE
    /\ UNCHANGED <<attachments, candidate, previous, backup>>
    /\ UNCHANGED request /\ SeedUnchanged

CutoverNext ==
    \/ \E m \in Manifests :
         \/ StageMigration(m) \/ FreezeSource(m) \/ CutoverReady(m)
         \/ BeginSeed(m) \/ ReadConfirmation(m)
    \/ PrepareMigration
    \/ CopyAttachments \/ LoadDatabase \/ MoveOldAway \/ RecoverAttachments
    \/ MoveNewIn \/ MarkSeeded \/ SeedFails \/ RestoreAttachments
    \/ \E c \in confirmations : ActivateWriter(c)
    \/ Suspend \/ Write
    \/ \E configured \in {"read_only", "suspended", "primary_writer"} : RestartHub(configured)

CutoverSpec == CutoverInit /\ [][CutoverNext]_cutoverVars

-----------------------------------------------------------------------------
(* Whoever may write holds the one lease, confirmed by a string read after  *)
(* the last stop of the writer, over the seeded manifest's database and     *)
(* attachments, whole; and data written here is never replaced by a seed,   *)
(* wherever seeding was interrupted and repeated (DOCS.md:75, 132).         *)
WriterFollowsCutover ==
    /\ MayWrite => /\ accepted.on = activeManifest /\ accepted.read = suspensions
                   /\ db.from = activeManifest /\ attachments = activeManifest
    /\ written => db.own
=============================================================================

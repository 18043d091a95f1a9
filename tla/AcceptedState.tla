---------------------------- MODULE AcceptedState ----------------------------
(***************************************************************************)
(* Accepted-state synchronization (core/accepted_state_synchronization.py  *)
(* and its _legacy implementation): which of the registries a clone of the *)
(* repository can see - that of origin/main, of the checkout, of a local   *)
(* mirror - may support claims about the accepted state, what a daily      *)
(* brief reports as newly accepted, and the checkpoint that acknowledges   *)
(* it.  Files and refs change between the reads of one brief, because git  *)
(* and the writers of the archive run beside it.  The marker of the        *)
(* transfer of authority is such a file too: a switch of branch brings it  *)
(* or takes it away, and one brief reads it up to three times.             *)
(***************************************************************************)
EXTENDS Naturals, Sequences, FiniteSets

CONSTANTS
    Entry,          \* accepted_state_ids
    StageA,         \* ACCEPTED_STATE_ID
    MaxMerges,      \* bound: commits on main after the first
    MaxWritten,     \* bound: how many of marker, event and record there are
    MaxBriefs       \* bound: daily runs

ASSUME RegistryConstants == StageA \in Entry /\ {MaxMerges, MaxBriefs} \subseteq Nat

VARIABLES
    main,           \* commits of the remote main: their registries
    originMain,     \* the commit origin/main resolves to, 0 when it does not
    checkout,       \* the registry of HEAD, of main or of a branch
    mirror,         \* [registry, commit]: local mirror and its metadata
    refresh,        \* the commit a mirror refresh has still to record, or 0
    transfer,       \* the authority-transfer marker is there and effective
    chronology,     \* the event is in the chronology
    archive,        \* completion status of the archive record
    checkpoint,     \* acknowledged ids
    brief,          \* the daily run
    briefs,         \* daily runs so far
    shown,          \* history: ids some brief reported
    blind           \* history: the checkpoint was advanced without a brief
                    \* that allowed claims, or by another registry than its

acceptedVars == <<main, originMain, checkout, mirror, refresh, transfer, chronology,
                  archive, checkpoint, brief, briefs, shown, blind>>
-----------------------------------------------------------------------------
\* A missing archive record counts as pending.
ArchiveStatus == {"pending_external_write", "completed_and_verified"}

\* A registry file: the ids of its entries, whether it passes the schema, and
\* whether the Stage A entry is reviewed, accepted, bounded and uncontradicted.
\* Its entries are asked for only when it passes; a file that does not exist
\* is one that does not pass.
RegistryFile ==
    {r \in [ids : SUBSET Entry, valid : BOOLEAN, bounded : BOOLEAN] :
        /\ r.bounded => StageA \in r.ids
        /\ ~r.valid => r.ids = {}}
NoFile == [ids |-> {}, valid |-> FALSE, bounded |-> FALSE]

\* canonical text: that of origin/main, whatever is checked out.  It is read
\* by the name of the ref, after the commit the ref resolves to, 0 for none.
CanonicalFile(commit) ==
    IF commit = 0 \/ originMain = 0 THEN NoFile ELSE main[originMain]

MirrorInSync(commit) ==
    /\ CanonicalFile(commit).valid /\ mirror.registry = CanonicalFile(commit)
    /\ mirror.commit \in {0, commit}

SourceState(commit) ==
    CASE CanonicalFile(commit).valid -> "verified_repository_main"
      [] ~CanonicalFile(commit).valid /\ checkout.valid ->
            "unverified_repository_checkout"
      [] ~CanonicalFile(commit).valid /\ ~checkout.valid
            /\ mirror.registry # NoFile -> "non_authoritative_local_mirror"
      [] OTHER -> "source_unavailable"

\* resolve_registry_source
Resolution(commit) ==
    LET text == CanonicalFile(commit)
    IN  [source |-> SourceState(commit), verified |-> commit # 0,
         allowed |-> text.valid,
         lag |-> text.valid /\ mirror.registry # NoFile /\ ~MirrorInSync(commit),
         newly |-> IF text.valid THEN text.ids \ checkpoint ELSE {},
         stable |-> IF text.valid THEN text.ids \cap checkpoint ELSE {}]

\* The same under an effective transfer: main stays verified.
ProjectionOnly(r) ==
    [r EXCEPT !.source = "private_canonical_external_to_public_projection",
              !.allowed = FALSE, !.lag = FALSE, !.newly = {}, !.stable = {}]

\* _canonical_registry_for_state: read again, for a ref resolved before.
EntryRead(commit) ==
    LET text == CanonicalFile(commit)
        present == text.valid /\ StageA \in text.ids
    IN  [present |-> present, accepted |-> present /\ text.bounded]

\* build_action_state: a missing entry renames the action that was named.
ActionType(r, entry) ==
    CASE r.lag \/ ~entry.present -> "registry_synchronization"
      [] ~r.lag /\ entry.present /\ ~r.allowed -> "source_acquisition"
      [] ~r.lag /\ entry.present /\ r.allowed /\ ~chronology -> "chronology_write"
      [] ~r.lag /\ entry.present /\ r.allowed /\ chronology
            /\ archive # "completed_and_verified" -> "archive_write"
      [] OTHER -> "none"

-----------------------------------------------------------------------------
\* The repository beside the program: reviewers merge to main, the clone
\* fetches and switches.
Merge(registry) ==
    /\ Len(main) <= MaxMerges
    /\ registry.valid => main[Len(main)].ids \subseteq registry.ids
    /\ main' = Append(main, registry)
    /\ UNCHANGED <<originMain, checkout, mirror, refresh, transfer, chronology, archive,
                   checkpoint, brief, briefs, shown, blind>>

Fetch ==
    /\ originMain' = Len(main)
    /\ UNCHANGED <<main, checkout, mirror, refresh, transfer, chronology, archive,
                   checkpoint, brief, briefs, shown, blind>>

Switch(registry) ==
    /\ checkout' = registry
    /\ UNCHANGED <<main, originMain, mirror, refresh, transfer, chronology, archive,
                   checkpoint, brief, briefs, shown, blind>>

\* The marker, the chronology event and the archive record are committed, or
\* another branch brings and takes them; the brief notes a change of marker.
RecordsChange(marker, event, status) ==
    /\ Cardinality({i \in 1..3 : <<marker, event, status = "completed_and_verified">>[i]})
          <= MaxWritten
    /\ transfer' = marker /\ chronology' = event /\ archive' = status
    /\ brief' = IF brief.at = "none" \/ marker = transfer THEN brief
                ELSE [brief EXCEPT !.moved = TRUE]
    /\ UNCHANGED <<main, originMain, checkout, mirror, refresh, checkpoint, briefs,
                   shown, blind>>

\* refresh_local_mirror copies the checkout's registry if it is valid ...
CopyMirror ==
    /\ refresh = 0 /\ originMain # 0 /\ checkout.valid
    /\ mirror' = [mirror EXCEPT !.registry = checkout]
    /\ refresh' = originMain
    /\ UNCHANGED <<main, originMain, checkout, transfer, chronology, archive,
                   checkpoint, brief, briefs, shown, blind>>

\* ... and writes the commit it was told beside it, unless it is stopped.
StampMirror(stopped) ==
    /\ refresh # 0 /\ refresh' = 0
    /\ mirror' = IF stopped THEN mirror ELSE [mirror EXCEPT !.commit = refresh]
    /\ UNCHANGED <<main, originMain, checkout, transfer, chronology, archive,
                   checkpoint, brief, briefs, shown, blind>>
-----------------------------------------------------------------------------
Nothing == [source |-> "", verified |-> FALSE, allowed |-> FALSE, lag |-> FALSE,
            newly |-> {}, stable |-> {}]
NoBrief ==
    [at |-> "none", transferred |-> FALSE, moved |-> FALSE, projection |-> FALSE,
     commit |-> 0, resolution |-> Nothing, registry |-> NoFile, accepted |-> FALSE,
     action |-> "none"]
Beside == UNCHANGED <<main, originMain, checkout, mirror, refresh, transfer,
                      chronology, archive>>

\* synchronization_state reads the marker.  Under an effective transfer the
\* brief of the legacy implementation is made first and then discarded.
BeginBrief ==
    /\ brief.at = "none" /\ briefs < MaxBriefs
    /\ brief' = [NoBrief EXCEPT !.at = "ref", !.transferred = transfer]
    /\ briefs' = briefs + 1
    /\ UNCHANGED <<checkpoint, shown, blind>> /\ Beside

\* resolve_registry_source: the ref, after the marker was read once more ...
ReadRef ==
    /\ brief.at = "ref"
    /\ brief' = [brief EXCEPT !.at = "text", !.commit = originMain,
                              !.projection = brief.transferred /\ transfer]
    /\ UNCHANGED <<checkpoint, briefs, shown, blind>> /\ Beside

\* ... and the texts.
ReadText ==
    LET r == Resolution(brief.commit)
    IN  /\ brief.at = "text"
        /\ brief' = [brief EXCEPT !.at = "entry", !.registry = CanonicalFile(brief.commit),
                                  !.resolution = IF brief.projection
                                                 THEN ProjectionOnly(r) ELSE r]
        /\ UNCHANGED <<checkpoint, briefs, shown, blind>> /\ Beside

\* classify_repo_movement_acceptance: accepted only before the transfer.
ReadEntry ==
    /\ brief.at = "entry"
    /\ brief' = [brief EXCEPT !.at = "action",
                    !.accepted = ~brief.transferred /\ EntryRead(brief.commit).accepted]
    /\ UNCHANGED <<checkpoint, briefs, shown, blind>> /\ Beside

\* build_action_state reads the marker again, if it was there, and asks for
\* nothing; without it the ref is resolved again ...
ReadAction ==
    /\ brief.at = "action"
    /\ IF brief.transferred /\ transfer
       THEN /\ brief' = [brief EXCEPT !.at = "told"]
            /\ shown' = shown \cup brief.resolution.newly
       ELSE /\ brief' = [brief EXCEPT !.at = "report", !.commit = originMain]
            /\ UNCHANGED shown
    /\ UNCHANGED <<checkpoint, briefs, blind>> /\ Beside

\* ... and the texts, for the action.
ReportBrief ==
    /\ brief.at = "report"
    /\ brief' = [brief EXCEPT !.at = "told",
                    !.action = ActionType(Resolution(brief.commit), EntryRead(brief.commit))]
    /\ shown' = shown \cup brief.resolution.newly
    /\ UNCHANGED <<checkpoint, briefs, blind>> /\ Beside

\* Mutant of Acknowledged: a run that failed advances the checkpoint too.
AcknowledgedAnyway(successful, registry, ids) ==
    IF brief.resolution.verified /\ registry.valid /\ ids \subseteq registry.ids
    THEN checkpoint \cup (IF ids = {} THEN registry.ids ELSE ids)
    ELSE checkpoint

\* advance_accepted_state_checkpoint, told what the brief said of main: the
\* registry is the caller's, and need not be the brief's.  An empty list of
\* ids means all of them; unknown ids raise.
Acknowledged(successful, registry, ids) ==
    IF successful /\ brief.resolution.verified /\ registry.valid
         /\ ids \subseteq registry.ids
    THEN checkpoint \cup (IF ids = {} THEN registry.ids ELSE ids)
    ELSE checkpoint

\* The run ends after its brief, with success or without ...
EndRun(successful, registry, ids) ==
    /\ brief.at = "told"
    /\ checkpoint' = Acknowledged(successful, registry, ids)
    /\ blind' = (blind \/ (successful /\ ~(brief.resolution.allowed
                                              /\ registry = brief.registry)))
    /\ brief' = NoBrief
    /\ UNCHANGED <<briefs, shown>> /\ Beside

\* ... or breaks off before, which advances nothing.
StopRun ==
    /\ brief.at # "none" /\ brief' = NoBrief
    /\ UNCHANGED <<checkpoint, briefs, shown, blind>> /\ Beside
-----------------------------------------------------------------------------
AcceptedInit ==
    /\ main = <<[ids |-> {}, valid |-> TRUE, bounded |-> FALSE]>>
    /\ originMain \in {0, 1}
    /\ checkout = main[1]
    /\ mirror = [registry |-> NoFile, commit |-> 0] /\ refresh = 0
    /\ transfer = FALSE /\ chronology = FALSE /\ archive = "pending_external_write"
    /\ checkpoint = {} /\ brief = NoBrief /\ briefs = 0 /\ shown = {} /\ blind = FALSE

AcceptedNext ==
    \/ \E registry \in RegistryFile : Merge(registry)
    \/ Fetch
    \/ \E k \in DOMAIN main : Switch(main[k])
    \/ \E registry \in {NoFile, [ids |-> {StageA}, valid |-> TRUE, bounded |-> TRUE]} :
          Switch(registry)
    \/ \E marker, event \in BOOLEAN, status \in ArchiveStatus :
          RecordsChange(marker, event, status)
    \/ CopyMirror \/ \E stopped \in BOOLEAN : StampMirror(stopped)
    \/ BeginBrief \/ ReadRef \/ ReadText \/ ReadEntry \/ ReadAction \/ ReportBrief
    \/ StopRun
    \/ \E successful \in BOOLEAN, ids \in SUBSET Entry,
          registry \in {brief.registry, checkout, mirror.registry} :
          EndRun(successful, registry, ids)

AcceptedSpec == AcceptedInit /\ [][AcceptedNext]_acceptedVars
-----------------------------------------------------------------------------
\* An entry becomes accepted for the readers of the briefs only through the
\* main branch, whatever is checked out or mirrored, whatever the refs do
\* between the reads of a brief, and however runs fail: a brief that calls
\* the movement accepted has read it in a valid registry of main, and found
\* no effective transfer; what a brief that may claim calls new and stable is
\* one valid registry of main.  A brief all of whose reads find the transfer
\* effective claims nothing and asks for nothing.  As long as every advance
\* followed a brief that allowed claims, with the registry it had read, the
\* checkpoint holds ids some brief reported (synchronization_state,
\* build_action_state, advance_accepted_state_checkpoint).
AcceptedOnMainAndSeen ==
    /\ ~blind => checkpoint \subseteq shown
    /\ brief.at = "told" =>
          /\ brief.accepted => ~brief.transferred /\ \E k \in DOMAIN main :
                main[k].valid /\ main[k].bounded /\ StageA \in main[k].ids
          /\ brief.resolution.allowed => \E k \in DOMAIN main :
                /\ main[k].valid
                /\ main[k].ids = brief.resolution.newly \cup brief.resolution.stable
          /\ brief.transferred /\ ~brief.moved =>
                /\ ~brief.resolution.allowed /\ brief.resolution.newly = {}
                /\ brief.action = "none"
=============================================================================

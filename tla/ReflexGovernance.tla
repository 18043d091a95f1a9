-------------------------- MODULE ReflexGovernance --------------------------
(***************************************************************************)
(* The reflex governance runtime, which watches the decisions the service  *)
(* takes (app.py, _observe_reflex_governance; core/                        *)
(* reflex_governance_runtime: collector, pattern_engine, alert_engine).    *)
(* Every decision leaves a record; the records of the last 7 and of the    *)
(* last 30 days are searched for patterns; a pattern seen often enough is  *)
(* escalated and waits for an operator's resolution.                       *)
(*                                                                         *)
(* The threads of the pool observe their decisions without a lock, over    *)
(* one list, one dictionary and one .tmp file, and the process may stop    *)
(* between any two steps.  Records are appended to a file of lines; the    *)
(* escalations are written as a whole; failed writes are ignored; a line   *)
(* torn by a stop makes the next start forget all records.  The signals    *)
(* and their file, written before the escalations, are left out: no        *)
(* pattern and no escalation reads them.                                   *)
(***************************************************************************)
EXTENDS Naturals, Sequences, FiniteSets, TLC

CONSTANTS
    Recorder,       \* threads that observe a decision or act for an operator
    Observed,       \* what the collector makes of a decision: [signature,
                    \* status, intervention, class, hash, reflexes,
                    \* registered, mismatch, memory]
    ShortWindow,    \* days of the short and of the medium window
    MediumWindow,   \* (7 and 30 in the code)
    RecordCap,      \* records kept in memory (2000)
    Found,          \* what the first process finds on a day: [day, records, held]
    Gap,            \* days that may pass between decisions
    MaxRecords,     \* bound: decisions
    MaxActs,        \* bound: acts of the operator
    MaxStops,       \* bound: process stops
    MaxBadWrites    \* bound: failed writes

ASSUME ReflexConstants ==
    /\ ShortWindow \in Nat \ {0} /\ MediumWindow \in Nat
    /\ ShortWindow < MediumWindow /\ Gap \subseteq Nat
    /\ \A f \in Found :
          /\ f.held = [k \in DOMAIN f.held |-> f.held[k]]
          /\ \A k \in DOMAIN f.held :
                DOMAIN f.held[k] = {"state", "resolution", "impact"}

Action == {"HOLD", "VALIDATE", "DECAY", "REHABILITATE", "FORMALIZE"}
Strong == {"DECAY", "REHABILITATE", "FORMALIZE"}

VARIABLES
    day,            \* today
    records,        \* REFLEX_GOVERNANCE_RECORDS
    lines,          \* its file: [records, torn]
    escalations,    \* [pattern key -> [state, resolution, impact]]
    file,           \* the file of the escalations: [torn, held]
    stage,          \* what each thread is about to do
    mine,           \* its record, as a sequence of one
    todo,           \* patterns it has still to raise
    text,           \* what it has written to the .tmp file
    sharing,        \* threads whose open .tmp file another one opened
    alone,          \* history: the thread at work since whose start no other
                    \* one has started
    settled,        \* history: the last to start was alone and its write
                    \* did not fail, or nothing has started since a restart
    tally           \* [observed, acts, stops, writes] so far

memory == <<day, records, lines, escalations>>
threads == <<stage, mine, todo, text, sharing, alone>>
reflexVars == <<memory, file, threads, settled, tally>>

AllRest == \A w \in Recorder : stage[w] = "idle"
-----------------------------------------------------------------------------
(* pattern_engine.py.  A pattern is [flag, scope, window, count, impact].  *)

InWindow(r, now, days) == r.day + days >= now

Hit(flag, scope, window, hits) ==
    {[flag |-> flag, scope |-> scope, window |-> window, count |-> Cardinality(hits),
      impact |-> \E h \in hits : h.status # "ALLOW"]}
AtLeast(n, flag, scope, window, hits) ==
    IF Cardinality(hits) >= n THEN Hit(flag, scope, window, hits) ELSE {}

\* Records in the window, each with its place in the log.
Scoped(log, now, days) ==
    {log[i] @@ [place |-> i] : i \in
        {j \in DOMAIN log : InWindow(log[j], now, days)}}

Reflexes(scoped) == UNION {r.reflexes : r \in scoped}
Registered(scoped) == UNION {r.registered : r \in scoped}
Latest(scoped) == CHOOSE d \in {r.day : r \in scoped} : \A r \in scoped : r.day <= d

\* _reflex_domain_patterns.  Stale and dormant are reflexes registered last
\* a full medium window before the latest record: within that window, on
\* its first day.
Silent(scoped) ==
    {x \in Registered(scoped) : \A r \in scoped :
        x \in r.registered => r.day + MediumWindow <= Latest(scoped)}
ReflexPatterns(scoped, w) ==
    UNION {AtLeast(3, "overactive_reflex", x, w, {r \in scoped : x \in r.reflexes}) :
              x \in Reflexes(scoped)}
    \cup AtLeast(3, "ineffective_reflex", "global", w,
            {r \in scoped : r.reflexes # {} /\ r.intervention = "none"})
    \cup AtLeast(3, "reflex_conflict_pattern", "global", w,
            {r \in scoped : Cardinality(r.reflexes) > 1})
    \cup (IF w < MediumWindow THEN {}
          ELSE UNION {AtLeast(3, flag, "global", w,
                         UNION {{r @@ [reflex |-> x] : r \in {q \in scoped : x \in q.registered}} :
                                   x \in Silent(scoped)}) :
                         flag \in {"stale_reflex", "dormant_reflex"}}
               \cup (IF Cardinality(Registered(scoped) \ Reflexes(scoped)) >= 3
                     THEN Hit("memory_bloat_risk", "global", w, scoped) ELSE {}))

Bearing(scoped, signature) == {r \in scoped : r.signature = signature}
Signatures(scoped) == {r.signature : r \in scoped}
Classified(scoped) == {r \in scoped : r.class # ""}

\* _classification_domain_patterns: one class of four fifths of the records,
\* records without a class, requests classified in two ways.
ClassPatterns(scoped, w) ==
    UNION {IF /\ Cardinality(Classified(scoped)) >= 3
              /\ 10 * Cardinality({r \in scoped : r.class = c})
                     >= 8 * Cardinality(Classified(scoped))
           THEN Hit("classification_compression", c, w, {r \in scoped : r.class = c})
           ELSE {} : c \in {r.class : r \in Classified(scoped)}}
    \cup AtLeast(3, "unclassified_decisions", "global", w,
            {r \in scoped \ Classified(scoped) :
                r.reflexes # {} \/ r.status # "ALLOW" \/ r.memory})
    \cup UNION {IF Cardinality({r.class : r \in Bearing(scoped, s)}) > 1
                THEN AtLeast(2, "classification_inconsistency", s, w, Bearing(scoped, s))
                ELSE {} : s \in Signatures(scoped)}

\* _proof_domain_patterns: the signature of a request names its asset and
\* action, not its size, so that a large and a small request compare.
ProofPatterns(scoped, w) ==
    UNION {LET same == Bearing(scoped, s)
           IN  (IF \/ Cardinality({r.status : r \in same}) > 1
                   \/ Cardinality({r.intervention : r \in same}) > 1
                THEN AtLeast(2, "determinism_violation", s, w, same) ELSE {})
               \cup (IF Cardinality({r.hash : r \in same}) > 1
                     THEN AtLeast(2, "reproducibility_failure", s, w, same) ELSE {}) :
           s \in Signatures(scoped)}
    \cup AtLeast(2, "proof_mismatch", "global", w, {r \in scoped : r.mismatch})

\* _decay_patterns_from_resolutions: records after a rehabilitation, and
\* those before it, count as its failure.
DecayPatterns(scoped, w, rehabilitated) ==
    UNION {AtLeast(3, "failed_rehabilitation", scope, w,
              {r \in scoped : scope = "global" \/ scope \in r.reflexes
                                \/ scope = r.signature}) :
              scope \in rehabilitated}

PatternsIn(scoped, w, rehabilitated) ==
    IF scoped = {} THEN {}
    ELSE ReflexPatterns(scoped, w) \cup ClassPatterns(scoped, w)
         \cup ProofPatterns(scoped, w) \cup DecayPatterns(scoped, w, rehabilitated)

\* detect_structural_patterns
Patterns(log, now, rehabilitated) ==
    UNION {PatternsIn(Scoped(log, now, w), w, rehabilitated) :
              w \in {ShortWindow, MediumWindow}}
-----------------------------------------------------------------------------
(* alert_engine.py, and app.py, _observe_reflex_governance.                *)

Key(pattern) == <<pattern.flag, pattern.scope, pattern.window>>

Rehabilitated ==
    {k[2] : k \in {key \in DOMAIN escalations :
                      escalations[key].resolution = "REHABILITATE"}}

LastRecords(s) ==
    SubSeq(s, IF Len(s) > RecordCap THEN Len(s) - RecordCap + 1 ELSE 1, Len(s))

\* _load_json: a file that cannot be read counts as empty.
Torn == [torn |-> TRUE, held |-> <<>>]
Load(f) == IF f.torn THEN <<>> ELSE f.held

\* Thread w starts an operation: no other one is alone any more.
Start(w, first) ==
    /\ stage[w] = "idle" /\ stage' = [stage EXCEPT ![w] = first]
    /\ alone' = (IF AllRest THEN {w} ELSE {})
    /\ settled' = (settled /\ AllRest)
    /\ UNCHANGED <<todo, text, sharing>>

GoTo(w, next) == stage' = [stage EXCEPT ![w] = next]

LeaveOff(w) ==
    /\ GoTo(w, "idle") /\ text' = [text EXCEPT ![w] = <<>>]
    /\ alone' = alone \ {w} /\ sharing' = sharing \ {w}
    /\ UNCHANGED todo

Counted(what) == tally' = [tally EXCEPT ![what] = @ + 1]

\* A decision of today or some days later is recorded in memory.
Note(w, o, gap) ==
    LET record == o @@ [day |-> day + gap]
    IN  /\ tally.observed < MaxRecords /\ Counted("observed")
        /\ Start(w, "line") /\ mine' = [mine EXCEPT ![w] = <<record>>]
        /\ day' = day + gap
        /\ records' = LastRecords(Append(records, record))
        /\ UNCHANGED <<lines, escalations, file>>

\* _append_jsonl_file
AppendLine(w, written) ==
    /\ stage[w] = "line" /\ GoTo(w, "detect")
    /\ IF written
       THEN /\ lines' = [lines EXCEPT !.records = @ \o mine[w]]
            /\ UNCHANGED tally
       ELSE /\ tally.writes < MaxBadWrites /\ Counted("writes")
            /\ UNCHANGED lines
    /\ mine' = [mine EXCEPT ![w] = <<>>]
    /\ UNCHANGED <<day, records, escalations, file, todo, text, sharing, alone, settled>>

\* detect_structural_patterns.  Three occurrences are escalated, two are
\* watched.  The resolutions are read from a dictionary: when another thread
\* inserts meanwhile the observation ends in an exception, which is ignored.
Detect(w) ==
    /\ stage[w] = "detect"
    /\ \/ /\ GoTo(w, "look")
          /\ todo' = [todo EXCEPT ![w] = {p \in Patterns(records, day, Rehabilitated) :
                                             p.count >= 3}]
          /\ UNCHANGED <<text, sharing, alone>>
       \/ /\ \E v \in Recorder \ {w} : stage[v] = "enter"
          /\ LeaveOff(w)
    /\ UNCHANGED <<memory, file, mine, settled, tally>>

\* The pattern whose turn it is: some order of the list of patterns.
Turn(w) == CHOOSE p \in todo[w] : TRUE
PassOn(w) ==
    /\ GoTo(w, "look") /\ todo' = [todo EXCEPT ![w] = @ \ {Turn(w)}]
    /\ UNCHANGED <<mine, text, sharing, alone>>

\* _ensure_escalation: one that is there keeps its state, even a resolved one.
Look(w) ==
    LET key == Key(Turn(w))
    IN  /\ stage[w] = "look"
        /\ \/ /\ todo[w] # {} /\ key \in DOMAIN escalations
              /\ escalations' = [escalations EXCEPT ![key].impact = Turn(w).impact]
              /\ PassOn(w)
           \/ /\ \/ todo[w] = {} /\ GoTo(w, "dump")
                 \/ todo[w] # {} /\ key \notin DOMAIN escalations /\ GoTo(w, "enter")
              /\ UNCHANGED <<escalations, mine, todo, text, sharing, alone>>
        /\ UNCHANGED <<day, records, lines, file, settled, tally>>

\* The escalation that was not there is entered, over one that another
\* thread has entered meanwhile.
Enter(w) ==
    /\ stage[w] = "enter" /\ PassOn(w)
    /\ escalations' =
          [k \in DOMAIN escalations \cup {Key(Turn(w))} |->
             IF k = Key(Turn(w))
             THEN [state |-> "pending_resolution", resolution |-> "none",
                   impact |-> Turn(w).impact]
             ELSE escalations[k]]
    /\ UNCHANGED <<day, records, lines, file, settled, tally>>

\* A strong action needs a pattern of the medium window that has affected
\* decisions, as the pattern was when last seen.
Admissible(k, action) ==
    action \in Strong => k[3] >= MediumWindow /\ escalations[k].impact

\* record_resolution, up to its write.
Resolve(w, k, action) ==
    /\ tally.acts < MaxActs /\ Counted("acts")
    /\ Admissible(k, action) /\ Start(w, "dump")
    /\ escalations' = [escalations EXCEPT ![k].state = "resolved",
                                          ![k].resolution = action]
    /\ UNCHANGED <<day, records, lines, file, mine>>

\* mark_active_watch, up to its write: also of a resolved one, which keeps
\* its resolution.
Watch(w, k) ==
    /\ tally.acts < MaxActs /\ Counted("acts")
    /\ Start(w, "dump")
    /\ escalations' = [escalations EXCEPT ![k].state = "active_watch"]
    /\ UNCHANGED <<day, records, lines, file, mine>>

\* Mutant of Dump: the file is written in place, and empty until it is.
DumpInPlace(w) ==
    /\ stage[w] = "dump" /\ GoTo(w, "rename")
    /\ text' = [text EXCEPT ![w] = escalations]
    /\ file' = Torn
    /\ UNCHANGED <<memory, mine, todo, sharing, alone, settled, tally>>

\* _write_json writes what the dictionary holds now to the one .tmp file.
Written == {v \in Recorder : stage[v] = "rename"}
Dump(w) ==
    /\ stage[w] = "dump" /\ GoTo(w, "rename")
    /\ text' = [text EXCEPT ![w] = escalations]
    /\ sharing' = IF Written = {} THEN sharing ELSE sharing \cup Written \cup {w}
    /\ UNCHANGED <<memory, file, mine, todo, alone, settled, tally>>

\* The .tmp file becomes the file.  One that several threads had open holds
\* the text of one of them or cannot be read, or another has renamed it.
Rename(w) ==
    /\ stage[w] = "rename" /\ LeaveOff(w)
    /\ \/ file' = [torn |-> FALSE, held |-> text[w]]
       \/ /\ w \in sharing
          /\ \/ file' = file \/ file' = Torn
             \/ \E v \in Written : file' = [torn |-> FALSE, held |-> text[v]]
    /\ settled' = (settled \/ w \in alone)
    /\ UNCHANGED <<memory, mine, tally>>

\* Any error of the write is ignored.
FailWrite(w) ==
    /\ stage[w] \in {"dump", "rename"} /\ LeaveOff(w)
    /\ tally.writes < MaxBadWrites /\ Counted("writes")
    /\ settled' = FALSE
    /\ UNCHANGED <<memory, file, mine>>

\* The process stops, maybe while a line is appended, and starts again with
\* all the records of the file, or none when a line of it is torn.
StopWatching(torn) ==
    /\ tally.stops < MaxStops /\ Counted("stops")
    /\ torn => \E w \in Recorder : stage[w] = "line"
    /\ lines' = [lines EXCEPT !.torn = @ \/ torn]
    /\ records' = IF lines'.torn THEN <<>> ELSE lines.records
    /\ escalations' = Load(file)
    /\ stage' = [w \in Recorder |-> "idle"] /\ mine' = [w \in Recorder |-> <<>>]
    /\ todo' = [w \in Recorder |-> {}] /\ text' = [w \in Recorder |-> <<>>]
    /\ sharing' = {} /\ alone' = {} /\ settled' = TRUE
    /\ UNCHANGED <<day, file>>
-----------------------------------------------------------------------------
ReflexInit ==
    /\ \E f \in Found :
          /\ day = f.day /\ records = f.records /\ escalations = f.held
          /\ lines = [records |-> f.records, torn |-> FALSE]
          /\ file = [torn |-> FALSE, held |-> f.held]
    /\ stage = [w \in Recorder |-> "idle"] /\ mine = [w \in Recorder |-> <<>>]
    /\ todo = [w \in Recorder |-> {}] /\ text = [w \in Recorder |-> <<>>]
    /\ sharing = {} /\ alone = {} /\ settled = TRUE
    /\ tally = [observed |-> 0, acts |-> 0, stops |-> 0, writes |-> 0]

ReflexNext ==
    \/ \E w \in Recorder :
          \/ \E o \in Observed, gap \in Gap : Note(w, o, gap)
          \/ \E written \in BOOLEAN : AppendLine(w, written)
          \/ Detect(w) \/ Look(w) \/ Enter(w)
          \/ Dump(w) \/ Rename(w) \/ FailWrite(w)
          \/ \E k \in DOMAIN escalations :
                (\E action \in Action : Resolve(w, k, action)) \/ Watch(w, k)
    \/ \E torn \in BOOLEAN : StopWatching(torn)

ReflexSpec == ReflexInit /\ [][ReflexNext]_reflexVars
-----------------------------------------------------------------------------
\* before's escalations are all in after, none of them pending again and
\* none without the resolution it was given.
KeptIn(before, after) ==
    \A k \in DOMAIN before :
        /\ k \in DOMAIN after
        /\ before[k].state # "pending_resolution" =>
               after[k].state # "pending_resolution"
        /\ before[k].resolution # "none" => after[k].resolution # "none"

\* Observations that overlap may lose an escalation, in memory or in the
\* file, and a failed write leaves the file behind.  One operation that runs
\* undisturbed repairs that, and so does a restart: from then on the file
\* says what the memory says whenever no thread works, no escalation that
\* the file holds is lost or reverted in the file or in memory, and the
\* process may stop between any two steps (observe_patterns,
\* record_resolution, mark_active_watch, _write_json).
EscalationsKept ==
    [][settled => /\ AllRest => Load(file) = escalations
                  /\ KeptIn(Load(file), Load(file'))
                  /\ KeptIn(Load(file), escalations')]_reflexVars
=============================================================================

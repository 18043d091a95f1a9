---------------------------- MODULE RecordProofs ----------------------------
(***************************************************************************)
(* Proofs about what is recorded and what is reported of it: the           *)
(* escalations of ReflexGovernance, for every set of observations and      *)
(* however many decisions, acts and restarts; the registries and the       *)
(* checkpoint of AcceptedState, for every set of entries and any number of *)
(* merges and briefs; the answers of ReflexMemory on every shelf; the      *)
(* State Pings and Context Deltas of RetailContext, for every set of       *)
(* publications; the briefs of ArchitectOperations, for every finite       *)
(* registry and fixture; and the scores of EnvironmentTelemetry, for every *)
(* set of answers and threads and any window of up to 333 records.         *)
(***************************************************************************)
EXTENDS ReflexGovernance, AcceptedState, ReflexMemory, RetailContext,
        ArchitectOperations, EnvironmentTelemetry, FiniteSetTheorems,
        SequenceTheorems, WellFoundedInduction, TLAPS

-----------------------------------------------------------------------------
(* Reflex governance: the inductive invariant.                             *)

\* A dictionary of escalations, each with a state and a resolution.
Escalations(f) ==
    /\ f = [k \in DOMAIN f |-> f[k]]
    /\ \A k \in DOMAIN f : DOMAIN f[k] = {"state", "resolution", "impact"}

Stage == {"idle", "line", "detect", "look", "enter", "dump", "rename"}
ReflexType ==
    /\ stage \in [Recorder -> Stage] /\ alone \subseteq Recorder
    /\ settled \in BOOLEAN
    /\ DOMAIN todo = Recorder /\ todo = [w \in Recorder |-> todo[w]]
    /\ DOMAIN text = Recorder /\ text = [w \in Recorder |-> text[w]]
    /\ Escalations(escalations) /\ Escalations(Load(file))
    /\ \A w \in Recorder : Escalations(text[w])

\* What only one thread at a time can know: nobody else works, what it is
\* about to enter is not there, and what it has written is what there is.
AloneOK ==
    \A w \in alone :
        /\ stage[w] # "idle" /\ \A v \in Recorder \ {w} : stage[v] = "idle"
        /\ stage[w] = "enter" => Key(Turn(w)) \notin DOMAIN escalations
        /\ stage[w] = "rename" => text[w] = escalations /\ w \notin sharing

\* While settled, whoever works is alone, nothing that the file holds is lost
\* in memory, and the file is complete when no one works.
SettledOK ==
    settled => /\ \A w \in Recorder : stage[w] # "idle" => w \in alone
               /\ KeptIn(Load(file), escalations)
               /\ AllRest => Load(file) = escalations

\* Who is idle shares no .tmp file.
SharingOK == \A w \in sharing : w \in Recorder /\ stage[w] = "rename"

ReflexInv == ReflexType /\ AloneOK /\ SettledOK /\ SharingOK

\* What the property asks of a step.
KeepsFile == settled => /\ KeptIn(Load(file), Load(file'))
                        /\ KeptIn(Load(file), escalations')

LEMMA NothingEscalated == Escalations(<<>>) /\ \A a : KeptIn(a, a)
  BY DEF Escalations, KeptIn

LEMMA KeptTwice ==
    ASSUME NEW a, NEW b, NEW c, KeptIn(a, b), KeptIn(b, c) PROVE KeptIn(a, c)
  BY DEF KeptIn

LEMMA StartSaved == ReflexInit => ReflexInv
<1> SUFFICES ASSUME ReflexInit PROVE ReflexInv
  OBVIOUS
<1>a. PICK f \in Found : escalations = f.held /\ file = [torn |-> FALSE, held |-> f.held]
  BY DEF ReflexInit
<1>b. Escalations(f.held)
  BY ReflexConstants DEF Escalations
<1>1. /\ stage = [w \in Recorder |-> "idle"] /\ settled = TRUE
      /\ todo = [w \in Recorder |-> {}] /\ text = [w \in Recorder |-> <<>>]
      /\ alone = {} /\ sharing = {}
  BY DEF ReflexInit
<1>2. /\ Load(file) = escalations /\ KeptIn(Load(file), escalations)
      /\ Escalations(escalations)
  BY <1>a, <1>b, NothingEscalated DEF Load
<1>3. ReflexType
  BY <1>1, <1>2, NothingEscalated DEF ReflexType, Stage
<1> QED
  BY <1>1, <1>2, <1>3 DEF ReflexInv, AloneOK, SettledOK, SharingOK

\* A thread that is alone is the only one.
LEMMA OneAlone ==
    ASSUME ReflexInv, NEW w \in Recorder, stage[w] # "idle"
    PROVE  /\ \A v \in alone : v = w
           /\ settled => w \in alone
  BY DEF ReflexInv, AloneOK, SettledOK, ReflexType

\* A thread goes on with its work, and the file stays.
LEMMA GoesOn ==
    ASSUME ReflexInv, NEW w \in Recorder, stage[w] \in Stage \ {"idle", "rename"},
           NEW next \in Stage \ {"idle", "rename"}, GoTo(w, next),
           todo' = [v \in Recorder |-> todo'[v]], DOMAIN todo' = Recorder,
           w \in alone /\ next = "enter" => Key(Turn(w)') \notin DOMAIN escalations',
           Escalations(escalations'),
           w \in alone => KeptIn(escalations, escalations'),
           UNCHANGED <<file, settled, text, sharing, alone>>
    PROVE  ReflexInv' /\ KeepsFile
<1>1. stage' = [stage EXCEPT ![w] = next]
  BY DEF GoTo
<1>2. /\ stage' \in [Recorder -> Stage] /\ stage'[w] = next
      /\ \A v \in Recorder : v # w => stage'[v] = stage[v]
      /\ \A v \in Recorder : stage'[v] = "idle" <=> stage[v] = "idle"
  BY <1>1 DEF ReflexInv, ReflexType
<1>3. Load(file)' = Load(file) /\ Load(file') = Load(file)
  BY DEF Load
<1>4. ReflexType'
  BY <1>2, <1>3 DEF ReflexInv, ReflexType
<1>5. \A v \in alone : v = w
  BY OneAlone
<1>6. AloneOK'
  BY <1>2, <1>5 DEF ReflexInv, AloneOK
<1>7. settled => KeptIn(Load(file), escalations')
  BY OneAlone, KeptTwice DEF ReflexInv, SettledOK
<1>8. SettledOK'
  BY <1>2, <1>3, <1>7 DEF ReflexInv, SettledOK, AllRest
<1>9. SharingOK'
  BY <1>2 DEF ReflexInv, SharingOK
<1> QED
  BY <1>3, <1>4, <1>6, <1>7, <1>8, <1>9, NothingEscalated DEF ReflexInv, KeepsFile

\* A thread starts: no other one is alone any more, and it is if none works.
LEMMA StartKept ==
    ASSUME ReflexInv, NEW w \in Recorder, NEW first \in {"line", "dump"},
           Start(w, first), Escalations(escalations'),
           KeptIn(escalations, escalations'), file' = file
    PROVE  ReflexInv' /\ KeepsFile
<1>1. /\ stage[w] = "idle" /\ stage' = [stage EXCEPT ![w] = first]
      /\ alone' = IF AllRest THEN {w} ELSE {}
      /\ settled' = (settled /\ AllRest)
      /\ UNCHANGED <<todo, text, sharing>>
  BY DEF Start
<1>2. /\ stage' \in [Recorder -> Stage] /\ stage'[w] = first
      /\ \A v \in Recorder : v # w => stage'[v] = stage[v]
  BY <1>1 DEF ReflexInv, ReflexType, Stage
<1>3. Load(file)' = Load(file) /\ Load(file') = Load(file)
  BY DEF Load
<1>4. ReflexType'
  BY <1>1, <1>2, <1>3 DEF ReflexInv, ReflexType, AllRest
<1>5. AloneOK'
  BY <1>1, <1>2 DEF AloneOK, AllRest
<1>6. settled => KeptIn(Load(file), escalations')
  BY KeptTwice DEF ReflexInv, SettledOK
<1>7. SettledOK'
  BY <1>1, <1>2, <1>3, <1>6 DEF SettledOK, AllRest
<1>8. SharingOK'
  BY <1>1, <1>2 DEF ReflexInv, SharingOK
<1> QED
  BY <1>3, <1>4, <1>5, <1>6, <1>7, <1>8, NothingEscalated DEF ReflexInv, KeepsFile

LEMMA NoteKept ==
    ASSUME ReflexInv, NEW w \in Recorder, NEW o, NEW gap, Note(w, o, gap)
    PROVE  ReflexInv' /\ KeepsFile
<1>1. Start(w, "line") /\ UNCHANGED <<escalations, file>>
  BY DEF Note
<1>2. Escalations(escalations')
  BY <1>1 DEF ReflexInv, ReflexType
<1> QED
  BY <1>1, <1>2, NothingEscalated, StartKept

LEMMA ResolveKept ==
    ASSUME ReflexInv, NEW w \in Recorder, NEW k \in DOMAIN escalations,
           NEW action \in Action, Resolve(w, k, action)
    PROVE  ReflexInv' /\ KeepsFile
<1>1. /\ Start(w, "dump") /\ file' = file
      /\ escalations' = [escalations EXCEPT ![k].state = "resolved",
                                            ![k].resolution = action]
  BY DEF Resolve
<1>2. Escalations(escalations) /\ action # "none"
  BY DEF ReflexInv, ReflexType, Action
<1>3. /\ DOMAIN escalations' = DOMAIN escalations
      /\ escalations' = [j \in DOMAIN escalations' |-> escalations'[j]]
      /\ \A j \in DOMAIN escalations : j # k => escalations'[j] = escalations[j]
      /\ DOMAIN escalations'[k] = DOMAIN escalations[k]
      /\ escalations'[k].state = "resolved" /\ escalations'[k].resolution = action
  BY <1>1, <1>2 DEF Escalations
<1>4. Escalations(escalations')
  BY <1>2, <1>3 DEF Escalations
<1>5. KeptIn(escalations, escalations')
  BY <1>2, <1>3 DEF KeptIn
<1> QED
  BY <1>1, <1>4, <1>5, StartKept

LEMMA WatchKept ==
    ASSUME ReflexInv, NEW w \in Recorder, NEW k \in DOMAIN escalations, Watch(w, k)
    PROVE  ReflexInv' /\ KeepsFile
<1>1. /\ Start(w, "dump") /\ file' = file
      /\ escalations' = [escalations EXCEPT ![k].state = "active_watch"]
  BY DEF Watch
<1>2. Escalations(escalations)
  BY DEF ReflexInv, ReflexType
<1>3. /\ DOMAIN escalations' = DOMAIN escalations
      /\ escalations' = [j \in DOMAIN escalations' |-> escalations'[j]]
      /\ \A j \in DOMAIN escalations : j # k => escalations'[j] = escalations[j]
      /\ DOMAIN escalations'[k] = DOMAIN escalations[k]
      /\ escalations'[k].state = "active_watch"
      /\ escalations'[k].resolution = escalations[k].resolution
  BY <1>1, <1>2 DEF Escalations
<1>4. Escalations(escalations')
  BY <1>2, <1>3 DEF Escalations
<1>5. KeptIn(escalations, escalations')
  BY <1>3 DEF KeptIn
<1> QED
  BY <1>1, <1>4, <1>5, StartKept

\* A thread leaves off.  If all is settled then, it was alone and the file
\* says what the memory says.
LEMMA Leaves ==
    ASSUME ReflexInv, NEW w \in Recorder, stage[w] # "idle", LeaveOff(w),
           UNCHANGED escalations, Escalations(Load(file')), settled' \in BOOLEAN,
           settled' => w \in alone /\ Load(file') = escalations,
           settled => KeptIn(Load(file), Load(file'))
    PROVE  ReflexInv' /\ KeepsFile
<1>1. /\ stage' = [stage EXCEPT ![w] = "idle"] /\ text' = [text EXCEPT ![w] = <<>>]
      /\ alone' = alone \ {w} /\ sharing' = sharing \ {w} /\ todo' = todo
  BY DEF LeaveOff, GoTo
<1>2. /\ stage' \in [Recorder -> Stage] /\ stage'[w] = "idle"
      /\ \A v \in Recorder : v # w => stage'[v] = stage[v]
  BY <1>1 DEF ReflexInv, ReflexType, Stage
<1>3. /\ DOMAIN text' = Recorder /\ text' = [v \in Recorder |-> text'[v]]
      /\ text'[w] = <<>> /\ \A v \in Recorder : v # w => text'[v] = text[v]
  BY <1>1 DEF ReflexInv, ReflexType
<1>4. ReflexType'
  BY <1>1, <1>2, <1>3, NothingEscalated DEF ReflexInv, ReflexType, Load
<1>5. alone' = {}
  BY <1>1, OneAlone
<1>6. AloneOK'
  BY <1>5 DEF AloneOK
<1>7. SettledOK'
  <2> SUFFICES ASSUME settled'
               PROVE  /\ \A v \in Recorder : stage'[v] = "idle"
                      /\ KeptIn(Load(file'), escalations')
                      /\ Load(file') = escalations'
    BY DEF SettledOK, Load
  <2>1. \A v \in Recorder : v # w => stage[v] = "idle"
    BY DEF ReflexInv, AloneOK
  <2> QED
    BY <1>2, <2>1, NothingEscalated
<1>8. SharingOK'
  BY <1>1, <1>2 DEF ReflexInv, SharingOK
<1>9. KeepsFile
  BY DEF KeepsFile, ReflexInv, SettledOK
<1> QED
  BY <1>4, <1>6, <1>7, <1>8, <1>9 DEF ReflexInv

LEMMA AppendKept ==
    ASSUME ReflexInv, NEW w \in Recorder, NEW written \in BOOLEAN, AppendLine(w, written)
    PROVE  ReflexInv' /\ KeepsFile
<1>1. /\ stage[w] = "line" /\ GoTo(w, "detect")
      /\ UNCHANGED <<escalations, file, settled, todo, text, sharing, alone>>
  BY DEF AppendLine
<1>2. /\ Escalations(escalations') /\ DOMAIN todo' = Recorder
      /\ todo' = [v \in Recorder |-> todo'[v]]
  BY <1>1 DEF ReflexInv, ReflexType
<1> QED
  BY <1>1, <1>2, GoesOn, NothingEscalated DEF Stage

LEMMA DetectKept ==
    ASSUME ReflexInv, NEW w \in Recorder, Detect(w)
    PROVE  ReflexInv' /\ KeepsFile
<1>1. stage[w] = "detect" /\ UNCHANGED <<escalations, file, settled>>
  BY DEF Detect, memory
<1>2. /\ Escalations(escalations') /\ Escalations(Load(file')) /\ settled \in BOOLEAN
      /\ DOMAIN todo = Recorder
  BY <1>1 DEF ReflexInv, ReflexType, Load
<1>3. CASE (\E v \in Recorder \ {w} : stage[v] = "enter") /\ LeaveOff(w)
  <2>1. ~settled
    BY <1>1, <1>3 DEF ReflexInv, AloneOK, SettledOK
  <2> QED
    BY <1>1, <1>2, <1>3, <2>1, Leaves
<1>4. CASE ~((\E v \in Recorder \ {w} : stage[v] = "enter") /\ LeaveOff(w))
  <2>1. PICK raised : todo' = [todo EXCEPT ![w] = raised]
    BY <1>4 DEF Detect
  <2>2. GoTo(w, "look") /\ UNCHANGED <<text, sharing, alone>>
    BY <1>4 DEF Detect
  <2>3. DOMAIN todo' = Recorder /\ todo' = [v \in Recorder |-> todo'[v]]
    BY <1>2, <2>1
  <2> QED
    BY <1>1, <1>2, <2>2, <2>3, GoesOn, NothingEscalated DEF Stage
<1> QED
  BY <1>3, <1>4

LEMMA LookKept ==
    ASSUME ReflexInv, NEW w \in Recorder, Look(w)
    PROVE  ReflexInv' /\ KeepsFile
<1>1. stage[w] = "look" /\ UNCHANGED <<file, settled, text, sharing, alone>>
  BY DEF Look, PassOn
<1>2. /\ Escalations(escalations) /\ DOMAIN todo = Recorder
      /\ todo = [v \in Recorder |-> todo[v]]
  BY DEF ReflexInv, ReflexType
<1>3. CASE todo[w] = {} /\ GoTo(w, "dump") /\ UNCHANGED <<escalations, todo>>
  BY <1>1, <1>2, <1>3, GoesOn, NothingEscalated DEF Stage
<1>4. CASE /\ Key(Turn(w)) \notin DOMAIN escalations /\ GoTo(w, "enter")
           /\ UNCHANGED <<escalations, todo>>
  <2>1. Key(Turn(w)') \notin DOMAIN escalations'
    BY <1>4 DEF Turn
  <2> QED
    BY <1>1, <1>2, <1>4, <2>1, GoesOn, NothingEscalated DEF Stage
<1>5. CASE /\ Key(Turn(w)) \in DOMAIN escalations /\ PassOn(w)
           /\ escalations' = [escalations EXCEPT ![Key(Turn(w))].impact = Turn(w).impact]
  <2> DEFINE k == Key(Turn(w))
             impact == Turn(w).impact
  <2>1. /\ k \in DOMAIN escalations
        /\ escalations' = [escalations EXCEPT ![k].impact = impact]
    BY <1>5
  <2> HIDE DEF k, impact
  <2>2. /\ DOMAIN escalations' = DOMAIN escalations
        /\ escalations' = [j \in DOMAIN escalations' |-> escalations'[j]]
        /\ \A j \in DOMAIN escalations : j # k => escalations'[j] = escalations[j]
        /\ DOMAIN escalations'[k] = DOMAIN escalations[k]
        /\ escalations'[k].state = escalations[k].state
        /\ escalations'[k].resolution = escalations[k].resolution
    BY <1>2, <2>1 DEF Escalations
  <2>3. Escalations(escalations') /\ KeptIn(escalations, escalations')
    BY <1>2, <2>2 DEF Escalations, KeptIn
  <2>4. GoTo(w, "look") /\ todo' = [todo EXCEPT ![w] = @ \ {Turn(w)}]
    BY <1>5 DEF PassOn
  <2>5. DOMAIN todo' = Recorder /\ todo' = [v \in Recorder |-> todo'[v]]
    BY <1>2, <2>4
  <2> QED
    BY <1>1, <2>3, <2>4, <2>5, GoesOn DEF Stage
<1> QED
  BY <1>3, <1>4, <1>5 DEF Look

LEMMA EnterKept ==
    ASSUME ReflexInv, NEW w \in Recorder, Enter(w)
    PROVE  ReflexInv' /\ KeepsFile
<1> DEFINE k == Key(Turn(w))
           new == [state |-> "pending_resolution", resolution |-> "none",
                   impact |-> Turn(w).impact]
<1>1. /\ stage[w] = "enter" /\ GoTo(w, "look")
      /\ UNCHANGED <<file, settled, text, sharing, alone>>
      /\ todo' = [todo EXCEPT ![w] = @ \ {Turn(w)}]
      /\ escalations' = [j \in DOMAIN escalations \cup {k} |->
                           IF j = k THEN new ELSE escalations[j]]
  BY DEF Enter, PassOn
<1>2. Escalations(escalations) /\ DOMAIN todo = Recorder
  BY DEF ReflexInv, ReflexType
<1>3. w \in alone => k \notin DOMAIN escalations
  BY <1>1 DEF ReflexInv, AloneOK
<1>4. DOMAIN new = {"state", "resolution", "impact"}
  OBVIOUS
<1> HIDE DEF k, new
<1>5. Escalations(escalations')
  BY <1>1, <1>2, <1>4 DEF Escalations
<1>6. w \in alone => KeptIn(escalations, escalations')
  BY <1>1, <1>3 DEF KeptIn
<1>7. DOMAIN todo' = Recorder /\ todo' = [v \in Recorder |-> todo'[v]]
  BY <1>1, <1>2
<1> QED
  BY <1>1, <1>5, <1>6, <1>7, GoesOn DEF Stage

LEMMA DumpKept ==
    ASSUME ReflexInv, NEW w \in Recorder, Dump(w)
    PROVE  ReflexInv' /\ KeepsFile
<1>1. /\ stage[w] = "dump" /\ stage' = [stage EXCEPT ![w] = "rename"]
      /\ text' = [text EXCEPT ![w] = escalations]
      /\ sharing' = IF Written = {} THEN sharing ELSE sharing \cup Written \cup {w}
      /\ UNCHANGED <<escalations, file, todo, alone, settled>>
  BY DEF Dump, GoTo, memory
<1>2. /\ stage' \in [Recorder -> Stage] /\ stage'[w] = "rename"
      /\ \A v \in Recorder : v # w => stage'[v] = stage[v]
      /\ \A v \in Recorder : stage'[v] = "idle" <=> stage[v] = "idle"
  BY <1>1 DEF ReflexInv, ReflexType, Stage
<1>3. /\ DOMAIN text' = Recorder /\ text' = [v \in Recorder |-> text'[v]]
      /\ text'[w] = escalations /\ \A v \in Recorder : v # w => text'[v] = text[v]
  BY <1>1 DEF ReflexInv, ReflexType
<1>4. Load(file)' = Load(file) /\ Load(file') = Load(file)
  BY <1>1 DEF Load
<1>5. ReflexType'
  BY <1>1, <1>2, <1>3, <1>4 DEF ReflexInv, ReflexType
<1>6. w \in alone => sharing' = sharing /\ w \notin sharing
  BY <1>1 DEF ReflexInv, AloneOK, SharingOK, Written
<1>7. AloneOK'
  <2> SUFFICES ASSUME NEW v \in alone
               PROVE  /\ v = w
                      /\ \A u \in Recorder \ {w} : stage'[u] = "idle"
                      /\ text'[w] = escalations' /\ w \notin sharing'
    BY <1>1, <1>2 DEF AloneOK
  <2>1. v = w
    BY <1>1, OneAlone
  <2> QED
    BY <1>1, <1>2, <1>3, <1>6, <2>1 DEF ReflexInv, AloneOK
<1>8. SettledOK'
  BY <1>1, <1>2, <1>4 DEF ReflexInv, SettledOK, AllRest
<1>9. SharingOK'
  BY <1>1, <1>2 DEF ReflexInv, SharingOK, Written
<1>10. KeepsFile
  BY <1>1, <1>4, NothingEscalated DEF ReflexInv, SettledOK, KeepsFile
<1> QED
  BY <1>5, <1>7, <1>8, <1>9, <1>10 DEF ReflexInv

LEMMA RenameKept ==
    ASSUME ReflexInv, NEW w \in Recorder, Rename(w)
    PROVE  ReflexInv' /\ KeepsFile
<1>1. /\ stage[w] = "rename" /\ LeaveOff(w) /\ UNCHANGED escalations
      /\ settled' = (settled \/ w \in alone)
  BY DEF Rename, memory
<1>2. settled \in BOOLEAN /\ (settled => w \in alone)
  BY <1>1, OneAlone DEF ReflexInv, ReflexType
<1>3. Escalations(Load(file'))
  <2>1. \/ file' = file \/ file' = [torn |-> TRUE, held |-> <<>>]
        \/ \E v \in Recorder : file' = [torn |-> FALSE, held |-> text[v]]
    BY DEF Rename, Written, Torn
  <2>2. CASE file' = file
    BY <2>2 DEF ReflexInv, ReflexType
  <2>3. CASE file' = [torn |-> TRUE, held |-> <<>>]
    BY <2>3, NothingEscalated DEF Load
  <2>4. ASSUME NEW v \in Recorder, file' = [torn |-> FALSE, held |-> text[v]]
        PROVE  Escalations(Load(file'))
    BY <2>4 DEF ReflexInv, ReflexType, Load
  <2> QED
    BY <2>1, <2>2, <2>3, <2>4
<1>4. w \in alone => Load(file') = escalations
  <2> SUFFICES ASSUME w \in alone PROVE Load(file') = escalations
    OBVIOUS
  <2>1. text[w] = escalations /\ w \notin sharing
    BY <1>1 DEF ReflexInv, AloneOK
  <2>2. file' = [torn |-> FALSE, held |-> text[w]]
    BY <2>1 DEF Rename
  <2> QED
    BY <2>1, <2>2 DEF Load
<1>5. settled' \in BOOLEAN /\ (settled' => w \in alone /\ Load(file') = escalations)
  BY <1>1, <1>2, <1>4
<1>6. settled => KeptIn(Load(file), Load(file'))
  BY <1>2, <1>4 DEF ReflexInv, SettledOK
<1> QED
  BY <1>1, <1>3, <1>5, <1>6, Leaves

LEMMA FailKept ==
    ASSUME ReflexInv, NEW w \in Recorder, FailWrite(w)
    PROVE  ReflexInv' /\ KeepsFile
<1>1. /\ stage[w] # "idle" /\ LeaveOff(w) /\ UNCHANGED <<escalations, file>>
      /\ settled' = FALSE
  BY DEF FailWrite, memory
<1>2. Load(file') = Load(file) /\ Escalations(Load(file'))
  BY <1>1 DEF ReflexInv, ReflexType, Load
<1> QED
  BY <1>1, <1>2, NothingEscalated, Leaves

\* A restart reads back what the file holds.
LEMMA StopKept ==
    ASSUME ReflexInv, NEW torn \in BOOLEAN, StopWatching(torn)
    PROVE  ReflexInv' /\ KeepsFile
<1>1. /\ escalations' = Load(file) /\ file' = file /\ settled' = TRUE
      /\ stage' = [w \in Recorder |-> "idle"]
      /\ todo' = [w \in Recorder |-> {}] /\ text' = [w \in Recorder |-> <<>>]
      /\ sharing' = {} /\ alone' = {}
  BY DEF StopWatching
<1>2. Load(file)' = Load(file) /\ Load(file') = Load(file)
  BY <1>1 DEF Load
<1>3. ReflexType'
  BY <1>1, <1>2, NothingEscalated DEF ReflexInv, ReflexType, Stage
<1>4. AloneOK' /\ SettledOK' /\ SharingOK'
  BY <1>1, <1>2, NothingEscalated DEF AloneOK, SettledOK, SharingOK
<1>5. KeepsFile
  BY <1>1, <1>2, NothingEscalated DEF KeepsFile
<1> QED
  BY <1>3, <1>4, <1>5 DEF ReflexInv

LEMMA ReflexStep ==
    ReflexInv /\ [ReflexNext]_reflexVars =>
        ReflexInv' /\ (UNCHANGED reflexVars \/ KeepsFile)
<1> SUFFICES ASSUME ReflexInv, [ReflexNext]_reflexVars
             PROVE  ReflexInv' /\ (UNCHANGED reflexVars \/ KeepsFile)
  OBVIOUS
<1>1. CASE UNCHANGED reflexVars
  <2>1. UNCHANGED <<escalations, file, stage, todo, text, sharing, alone, settled>>
    BY <1>1 DEF reflexVars, memory, threads
  <2>2. ReflexType' /\ SharingOK'
    BY <2>1 DEF ReflexInv, ReflexType, SharingOK, Load
  <2>3. AloneOK' /\ SettledOK'
    BY <2>1 DEF ReflexInv, AloneOK, SettledOK, Turn, AllRest, Load
  <2> QED
    BY <1>1, <2>2, <2>3 DEF ReflexInv
<1>2. CASE ReflexNext
  BY <1>2, NoteKept, AppendKept, DetectKept, LookKept, EnterKept, DumpKept,
     RenameKept, FailKept, ResolveKept, WatchKept, StopKept DEF ReflexNext
<1> QED
  BY <1>1, <1>2

\* From a restart on, or from an operation that ran undisturbed, until
\* operations overlap or a write fails, no escalation that the file holds is
\* dropped, made pending again or stripped of its resolution, in the file or
\* in memory, by whatever patterns come and go and wherever the process
\* stops; and one undisturbed operation brings that state back.
THEOREM EscalationsStay == ReflexSpec => EscalationsKept
<1>1. ReflexInv => (settled => (AllRest => Load(file) = escalations))
  BY DEF ReflexInv, SettledOK
<1>2. ReflexInv /\ [ReflexNext]_reflexVars =>
        [settled => /\ AllRest => Load(file) = escalations
                    /\ KeptIn(Load(file), Load(file'))
                    /\ KeptIn(Load(file), escalations')]_reflexVars
  BY <1>1, ReflexStep DEF KeepsFile
<1>3. ReflexSpec => []ReflexInv
  BY StartSaved, ReflexStep, PTL DEF ReflexSpec
<1> QED
  BY <1>2, <1>3, PTL DEF ReflexSpec, EscalationsKept

-----------------------------------------------------------------------------
(* Accepted state: the inductive invariant.                                *)

OnMain(reg) == \E k \in DOMAIN main : main[k] = reg /\ main[k].valid
AcceptedOnMain ==
    \E k \in DOMAIN main :
        main[k].valid /\ main[k].bounded /\ StageA \in main[k].ids

MainType ==
    /\ main \in Seq(RegistryFile) /\ originMain \in 0..Len(main)

SourceName ==
    {"", "verified_repository_main", "unverified_repository_checkout",
     "non_authoritative_local_mirror", "source_unavailable",
     "private_canonical_external_to_public_projection"}
ActionName ==
    {"none", "registry_synchronization", "source_acquisition", "chronology_write",
     "archive_write"}
ResolutionType ==
    [source : SourceName, verified : BOOLEAN, allowed : BOOLEAN, lag : BOOLEAN,
     newly : SUBSET Entry, stable : SUBSET Entry]
BriefType ==
    [at : {"none", "ref", "text", "entry", "action", "report", "told"},
     transferred : BOOLEAN, moved : BOOLEAN, projection : BOOLEAN,
     commit : Nat, resolution : ResolutionType, registry : RegistryFile,
     accepted : BOOLEAN, action : ActionName]

\* What a resolution may claim rests on one registry of main, and what it
\* calls stable was acknowledged.
Grounded(r, reg) ==
    r.allowed => /\ OnMain(reg) /\ r.newly \cup r.stable = reg.ids
                 /\ r.stable \subseteq checkpoint

\* While the marker a brief has found stays, its next reads find it too.
Unmoved(b) ==
    b.transferred /\ ~b.moved =>
        /\ b.at # "none" => transfer
        /\ b.at # "report" /\ (b.at = "text" => b.projection)
        /\ ~b.resolution.allowed /\ b.resolution.newly = {} /\ b.action = "none"

BriefOK ==
    /\ brief \in BriefType
    /\ Grounded(brief.resolution, brief.registry)
    /\ brief.accepted => ~brief.transferred /\ AcceptedOnMain
    /\ brief.at = "told" => brief.resolution.newly \subseteq shown
    /\ Unmoved(brief)

AcceptInv ==
    MainType /\ transfer \in BOOLEAN /\ BriefOK /\ (~blind => checkpoint \subseteq shown)

LEMMA NoBriefType ==
    /\ NoFile \in RegistryFile /\ Nothing \in ResolutionType
    /\ NoBrief \in BriefType
<1>1. NoFile \in RegistryFile
  BY DEF NoFile, RegistryFile
<1>2. Nothing \in ResolutionType
  BY DEF Nothing, ResolutionType, SourceName
<1> QED
  BY <1>1, <1>2 DEF NoBrief, BriefType, ActionName

\* No brief claims nothing.
LEMMA NoBriefOK ==
    ASSUME brief' = NoBrief PROVE BriefOK'
<1>1. /\ NoBrief.at = "none" /\ NoBrief.transferred = FALSE
      /\ NoBrief.resolution = Nothing /\ NoBrief.accepted = FALSE
      /\ Nothing.allowed = FALSE
  BY DEF NoBrief, Nothing
<1> QED
  BY <1>1, NoBriefType DEF BriefOK, Grounded, Unmoved

LEMMA AcceptStart == AcceptedInit => AcceptInv
<1> SUFFICES ASSUME AcceptedInit PROVE AcceptInv
  OBVIOUS
<1>1. [ids |-> {}, valid |-> TRUE, bounded |-> FALSE] \in RegistryFile
  BY DEF RegistryFile
<1>2. MainType
  BY <1>1 DEF MainType, AcceptedInit
<1>3. /\ NoBrief.at = "none" /\ NoBrief.transferred = FALSE
      /\ NoBrief.resolution = Nothing /\ NoBrief.accepted = FALSE
      /\ Nothing.allowed = FALSE
  BY DEF NoBrief, Nothing
<1>4. BriefOK
  BY <1>3, NoBriefType DEF BriefOK, Grounded, Unmoved, AcceptedInit
<1> QED
  BY <1>2, <1>4 DEF AcceptInv, AcceptedInit

\* A registry that passes is one of main, which origin/main shows.
LEMMA CanonicalOnMain ==
    ASSUME MainType, NEW commit
    PROVE  /\ CanonicalFile(commit) \in RegistryFile
           /\ CanonicalFile(commit).valid => OnMain(CanonicalFile(commit))
<1>1. CASE commit = 0 \/ originMain = 0
  <2>1. CanonicalFile(commit) = NoFile /\ NoFile.valid = FALSE
    BY <1>1 DEF CanonicalFile, NoFile
  <2> QED
    BY <2>1, NoBriefType
<1>2. CASE ~(commit = 0 \/ originMain = 0)
  <2>1. CanonicalFile(commit) = main[originMain] /\ originMain \in DOMAIN main
    BY <1>2 DEF CanonicalFile, MainType
  <2> QED
    BY <2>1 DEF MainType, OnMain
<1> QED
  BY <1>1, <1>2

LEMMA ResolutionGrounded ==
    ASSUME MainType, NEW commit
    PROVE  /\ Resolution(commit) \in ResolutionType
           /\ Grounded(Resolution(commit), CanonicalFile(commit))
<1> DEFINE canon == CanonicalFile(commit)
           r == Resolution(commit)
<1>1. canon \in RegistryFile /\ (canon.valid => OnMain(canon))
  BY CanonicalOnMain
<1>2. canon.ids \subseteq Entry /\ canon.valid \in BOOLEAN
  BY <1>1 DEF RegistryFile
<1>3. SourceState(commit) \in SourceName
  BY <1>2 DEF SourceState, SourceName
<1>4. /\ r.allowed = canon.valid
      /\ r.newly = IF canon.valid THEN canon.ids \ checkpoint ELSE {}
      /\ r.stable = IF canon.valid THEN canon.ids \cap checkpoint ELSE {}
  BY DEF Resolution
<1>5. r \in ResolutionType
  BY <1>2, <1>3 DEF Resolution, ResolutionType
<1> HIDE DEF canon, r
<1>6. Grounded(r, canon)
  BY <1>1, <1>4 DEF Grounded
<1> QED
  BY <1>5, <1>6 DEF canon, r

LEMMA ProjectionClaimsNothing ==
    ASSUME NEW r \in ResolutionType
    PROVE  /\ ProjectionOnly(r) \in ResolutionType
           /\ ProjectionOnly(r).allowed = FALSE /\ ProjectionOnly(r).newly = {}
  BY DEF ProjectionOnly, ResolutionType, SourceName

LEMMA EntryOnMain ==
    ASSUME MainType, NEW commit
    PROVE  /\ EntryRead(commit).accepted \in BOOLEAN
           /\ EntryRead(commit).accepted => AcceptedOnMain
<1>1. /\ CanonicalFile(commit) \in RegistryFile
      /\ CanonicalFile(commit).valid => OnMain(CanonicalFile(commit))
  BY CanonicalOnMain
<1>2. EntryRead(commit).accepted =
        (/\ CanonicalFile(commit).valid /\ StageA \in CanonicalFile(commit).ids
         /\ CanonicalFile(commit).bounded)
  BY DEF EntryRead
<1> QED
  BY <1>1, <1>2 DEF OnMain, AcceptedOnMain

\* Main only grows, so what was on it stays there.
LEMMA MainGrows ==
    ASSUME AcceptInv, main' = main \/ \E reg \in RegistryFile : main' = Append(main, reg)
    PROVE  /\ main' \in Seq(RegistryFile) /\ Len(main) <= Len(main')
           /\ \A reg : OnMain(reg) => OnMain(reg)'
           /\ AcceptedOnMain => AcceptedOnMain'
<1>1. main \in Seq(RegistryFile)
  BY DEF AcceptInv, MainType
<1>2. /\ main' \in Seq(RegistryFile) /\ Len(main) <= Len(main')
      /\ \A k \in DOMAIN main : k \in DOMAIN main' /\ main'[k] = main[k]
  BY <1>1
<1> QED
  BY <1>2 DEF OnMain, AcceptedOnMain

\* Git, the mirror and the archive leave the brief as it is, but for the
\* note that the marker has changed.
LEMMA BesideKept ==
    ASSUME AcceptInv, UNCHANGED <<checkpoint, shown, blind>>,
           main' = main \/ \E reg \in RegistryFile : main' = Append(main, reg),
           originMain' \in {originMain, Len(main)}, transfer' \in BOOLEAN,
           \/ brief' = brief /\ (brief.at = "none" \/ transfer' = transfer)
           \/ brief' = [brief EXCEPT !.moved = TRUE]
    PROVE  AcceptInv'
<1>1. /\ main' \in Seq(RegistryFile) /\ Len(main) <= Len(main')
      /\ \A reg : OnMain(reg) => OnMain(reg)'
      /\ AcceptedOnMain => AcceptedOnMain'
  BY MainGrows
<1>2. MainType'
  BY <1>1 DEF AcceptInv, MainType
<1>3. /\ brief' \in BriefType
      /\ brief'.resolution = brief.resolution /\ brief'.registry = brief.registry
      /\ brief'.accepted = brief.accepted /\ brief'.at = brief.at
      /\ brief'.transferred = brief.transferred /\ brief'.action = brief.action
      /\ brief'.projection = brief.projection
      /\ brief'.moved = TRUE \/ (brief'.moved = brief.moved
                                 /\ (brief.at = "none" \/ transfer' = transfer))
  BY DEF AcceptInv, BriefOK, BriefType
<1>4. Grounded(brief.resolution, brief.registry)'
  BY <1>1, <1>3 DEF AcceptInv, BriefOK, Grounded
<1>5. Unmoved(brief)'
  BY <1>3 DEF AcceptInv, BriefOK, Unmoved
<1>6. BriefOK'
  BY <1>1, <1>3, <1>4, <1>5 DEF AcceptInv, BriefOK
<1> QED
  BY <1>2, <1>6 DEF AcceptInv

\* Steps of the daily run.
LEMMA MainStands ==
    ASSUME AcceptInv, Beside
    PROVE  /\ MainType' /\ transfer' \in BOOLEAN
           /\ \A reg : OnMain(reg)' <=> OnMain(reg)
           /\ AcceptedOnMain' <=> AcceptedOnMain
  BY DEF AcceptInv, Beside, MainType, OnMain, AcceptedOnMain

LEMMA BeginKept == ASSUME AcceptInv, BeginBrief PROVE AcceptInv'
<1>1. /\ brief' = [NoBrief EXCEPT !.at = "ref", !.transferred = transfer]
      /\ UNCHANGED <<checkpoint, shown, blind>> /\ Beside /\ transfer' = transfer
  BY DEF BeginBrief, Beside
<1>2. /\ brief' \in BriefType /\ brief'.at = "ref" /\ brief'.transferred = transfer
      /\ brief'.resolution = Nothing /\ brief'.accepted = FALSE
      /\ brief'.action = "none" /\ Nothing.allowed = FALSE /\ Nothing.newly = {}
  BY <1>1, NoBriefType DEF AcceptInv, NoBrief, BriefType, Nothing, ActionName
<1>3. BriefOK'
  BY <1>1, <1>2 DEF BriefOK, Grounded, Unmoved
<1> QED
  BY <1>1, <1>3, MainStands DEF AcceptInv

LEMMA RefKept == ASSUME AcceptInv, ReadRef PROVE AcceptInv'
<1> DEFINE seen == brief.transferred /\ transfer
<1>1. /\ brief.at = "ref" /\ transfer' = transfer
      /\ brief' = [brief EXCEPT !.at = "text", !.commit = originMain, !.projection = seen]
      /\ UNCHANGED <<checkpoint, shown, blind>> /\ Beside
  BY DEF ReadRef, Beside
<1>2. originMain \in Nat /\ seen \in BOOLEAN /\ brief \in BriefType
  BY DEF AcceptInv, MainType, BriefOK, BriefType
<1> HIDE DEF seen
<1>3. /\ brief' \in BriefType /\ brief'.at = "text" /\ brief'.projection = seen
      /\ brief'.transferred = brief.transferred /\ brief'.moved = brief.moved
      /\ brief'.resolution = brief.resolution /\ brief'.registry = brief.registry
      /\ brief'.accepted = brief.accepted /\ brief'.action = brief.action
  BY <1>1, <1>2 DEF BriefType
<1>4. Grounded(brief.resolution, brief.registry)'
  BY <1>1, <1>3, MainStands DEF AcceptInv, BriefOK, Grounded
<1>5. Unmoved(brief)'
  BY <1>1, <1>3 DEF AcceptInv, BriefOK, Unmoved, seen
<1> QED
  BY <1>1, <1>3, <1>4, <1>5, MainStands DEF AcceptInv, BriefOK

LEMMA TextKept == ASSUME AcceptInv, ReadText PROVE AcceptInv'
<1> DEFINE r == Resolution(brief.commit)
           reg == CanonicalFile(brief.commit)
           told == IF brief.projection THEN ProjectionOnly(r) ELSE r
<1>1. /\ brief.at = "text" /\ transfer' = transfer
      /\ brief' = [brief EXCEPT !.at = "entry", !.registry = reg, !.resolution = told]
      /\ UNCHANGED <<checkpoint, shown, blind>> /\ Beside
  BY DEF ReadText, Beside
<1>2. /\ r \in ResolutionType /\ Grounded(r, reg) /\ reg \in RegistryFile
      /\ brief \in BriefType
  BY ResolutionGrounded, CanonicalOnMain DEF AcceptInv, BriefOK
<1> HIDE DEF r, reg
<1>3. /\ told \in ResolutionType
      /\ brief.projection => told.allowed = FALSE /\ told.newly = {}
      /\ ~brief.projection => told = r
  BY <1>2, ProjectionClaimsNothing
<1> HIDE DEF told
<1>4. Grounded(told, reg)
  BY <1>2, <1>3 DEF Grounded
<1>5. /\ brief' \in BriefType /\ brief'.at = "entry"
      /\ brief'.transferred = brief.transferred /\ brief'.moved = brief.moved
      /\ brief'.resolution = told /\ brief'.registry = reg
      /\ brief'.accepted = brief.accepted /\ brief'.action = brief.action
  BY <1>1, <1>2, <1>3 DEF BriefType
<1>6. Grounded(brief.resolution, brief.registry)'
  BY <1>1, <1>4, <1>5, MainStands DEF Grounded
<1>7. Unmoved(brief)'
  BY <1>1, <1>3, <1>5 DEF AcceptInv, BriefOK, Unmoved
<1> QED
  BY <1>1, <1>5, <1>6, <1>7, MainStands DEF AcceptInv, BriefOK

LEMMA EntryKept == ASSUME AcceptInv, ReadEntry PROVE AcceptInv'
<1> DEFINE accepted == ~brief.transferred /\ EntryRead(brief.commit).accepted
<1>1. /\ brief.at = "entry" /\ transfer' = transfer
      /\ brief' = [brief EXCEPT !.at = "action", !.accepted = accepted]
      /\ UNCHANGED <<checkpoint, shown, blind>> /\ Beside
  BY DEF ReadEntry, Beside
<1>2. /\ accepted \in BOOLEAN /\ brief \in BriefType
      /\ accepted => ~brief.transferred /\ AcceptedOnMain
  BY EntryOnMain DEF AcceptInv, BriefOK
<1> HIDE DEF accepted
<1>3. /\ brief' \in BriefType /\ brief'.at = "action" /\ brief'.accepted = accepted
      /\ brief'.transferred = brief.transferred /\ brief'.moved = brief.moved
      /\ brief'.resolution = brief.resolution /\ brief'.registry = brief.registry
      /\ brief'.action = brief.action
  BY <1>1, <1>2 DEF BriefType
<1>4. Grounded(brief.resolution, brief.registry)'
  BY <1>1, <1>3, MainStands DEF AcceptInv, BriefOK, Grounded
<1>5. Unmoved(brief)'
  BY <1>1, <1>3 DEF AcceptInv, BriefOK, Unmoved
<1> QED
  BY <1>1, <1>2, <1>3, <1>4, <1>5, MainStands DEF AcceptInv, BriefOK

\* What is told has been shown.
LEMMA ToldKept ==
    ASSUME AcceptInv, Beside, UNCHANGED <<checkpoint, blind, transfer>>,
           NEW at \in {"told", "report"}, NEW commit \in Nat, NEW action \in ActionName,
           brief' = [brief EXCEPT !.at = at, !.commit = commit, !.action = action],
           shown' = shown \cup (IF at = "told" THEN brief.resolution.newly ELSE {}),
           brief.at # "none",
           at = "report" \/ action # brief.action => ~(brief.transferred /\ transfer)
    PROVE  AcceptInv'
<1>1. /\ brief' \in BriefType /\ brief'.at = at /\ brief'.action = action
      /\ brief'.transferred = brief.transferred /\ brief'.moved = brief.moved
      /\ brief'.resolution = brief.resolution /\ brief'.registry = brief.registry
      /\ brief'.accepted = brief.accepted
  BY DEF AcceptInv, BriefOK, BriefType
<1>2. Grounded(brief.resolution, brief.registry)'
  BY <1>1, MainStands DEF AcceptInv, BriefOK, Grounded
<1>3. Unmoved(brief)'
  BY <1>1 DEF AcceptInv, BriefOK, Unmoved
<1>4. /\ brief'.at = "told" => brief'.resolution.newly \subseteq shown'
      /\ shown \subseteq shown'
  BY <1>1
<1> QED
  BY <1>1, <1>2, <1>3, <1>4, MainStands DEF AcceptInv, BriefOK

LEMMA ActionKept == ASSUME AcceptInv, ReadAction PROVE AcceptInv'
<1>1. brief.at = "action" /\ UNCHANGED <<checkpoint, blind, transfer>> /\ Beside
  BY DEF ReadAction, Beside
<1>2. brief \in BriefType /\ brief.commit \in Nat /\ brief.action \in ActionName
      /\ originMain \in Nat
  BY DEF AcceptInv, BriefOK, BriefType, MainType
<1>3. CASE brief.transferred /\ transfer
  <2>1. brief' = [brief EXCEPT !.at = "told", !.commit = brief.commit,
                               !.action = brief.action]
    BY <1>2, <1>3 DEF ReadAction, BriefType
  <2>2. shown' = shown \cup brief.resolution.newly
    BY <1>3 DEF ReadAction
  <2> QED
    BY <1>1, <1>2, <2>1, <2>2, ToldKept
<1>4. CASE ~(brief.transferred /\ transfer)
  <2>1. /\ brief' = [brief EXCEPT !.at = "report", !.commit = originMain,
                                  !.action = brief.action]
        /\ shown' = shown \cup {}
    BY <1>2, <1>4 DEF ReadAction, BriefType
  <2> QED
    BY <1>1, <1>2, <1>4, <2>1, ToldKept
<1> QED
  BY <1>3, <1>4

LEMMA ReportKept == ASSUME AcceptInv, ReportBrief PROVE AcceptInv'
<1> DEFINE action == ActionType(Resolution(brief.commit), EntryRead(brief.commit))
<1>1. /\ brief.at = "report" /\ UNCHANGED <<checkpoint, blind, transfer>> /\ Beside
      /\ brief' = [brief EXCEPT !.at = "told", !.action = action]
      /\ shown' = shown \cup brief.resolution.newly
  BY DEF ReportBrief, Beside
<1>2. action \in ActionName
  BY DEF ActionType, ActionName
<1> HIDE DEF action
<1>3. /\ brief' \in BriefType /\ brief'.at = "told"
      /\ brief'.transferred = brief.transferred /\ brief'.moved = brief.moved
      /\ brief'.resolution = brief.resolution /\ brief'.registry = brief.registry
      /\ brief'.accepted = brief.accepted
  BY <1>1, <1>2 DEF AcceptInv, BriefOK, BriefType
<1>4. Grounded(brief.resolution, brief.registry)'
  BY <1>1, <1>3, MainStands DEF AcceptInv, BriefOK, Grounded
<1>5. Unmoved(brief)'
  BY <1>1, <1>3 DEF AcceptInv, BriefOK, Unmoved
<1> QED
  BY <1>1, <1>3, <1>4, <1>5, MainStands DEF AcceptInv, BriefOK

LEMMA EndKept ==
    ASSUME AcceptInv, NEW successful \in BOOLEAN, NEW registry, NEW ids,
           EndRun(successful, registry, ids)
    PROVE  AcceptInv'
<1>1. /\ brief.at = "told"
      /\ checkpoint' = Acknowledged(successful, registry, ids) /\ brief' = NoBrief
      /\ blind' = (blind \/ (successful /\ ~(brief.resolution.allowed
                                             /\ registry = brief.registry)))
      /\ UNCHANGED shown /\ Beside
  BY DEF EndRun
<1>2. ~blind' => checkpoint' \subseteq shown'
  <2>1. CASE ~blind' /\ successful
    <3>1. /\ brief.registry.ids = brief.resolution.newly \cup brief.resolution.stable
          /\ brief.resolution.newly \subseteq shown
          /\ brief.resolution.stable \subseteq checkpoint
          /\ checkpoint \subseteq shown /\ registry = brief.registry
      BY <1>1, <2>1 DEF AcceptInv, BriefOK, Grounded
    <3>2. checkpoint' \subseteq checkpoint \cup registry.ids
      BY <1>1 DEF Acknowledged
    <3> QED
      BY <1>1, <3>1, <3>2
  <2>2. CASE ~successful
    BY <1>1, <2>2 DEF Acknowledged, AcceptInv
  <2> QED
    BY <2>1, <2>2
<1> QED
  BY <1>1, <1>2, MainStands, NoBriefOK DEF AcceptInv

LEMMA AcceptStep == AcceptInv /\ [AcceptedNext]_acceptedVars => AcceptInv'
<1> SUFFICES ASSUME AcceptInv, [AcceptedNext]_acceptedVars PROVE AcceptInv'
  OBVIOUS
<1> USE DEF AcceptInv
<1>1. ASSUME NEW registry \in RegistryFile, Merge(registry) PROVE AcceptInv'
  BY <1>1, BesideKept DEF Merge
<1>2. CASE Fetch
  BY <1>2, BesideKept DEF Fetch
<1>3. ASSUME NEW head, Switch(head) PROVE AcceptInv'
  BY <1>3, BesideKept DEF Switch
<1>4. ASSUME NEW marker \in BOOLEAN, NEW event, NEW status,
             RecordsChange(marker, event, status)
      PROVE  AcceptInv'
  BY <1>4, BesideKept DEF RecordsChange
<1>5. CASE CopyMirror \/ \E stopped \in BOOLEAN : StampMirror(stopped)
  BY <1>5, BesideKept DEF CopyMirror, StampMirror
<1>6. CASE StopRun
  <2>1. brief' = NoBrief /\ UNCHANGED <<checkpoint, shown, blind>> /\ Beside
    BY <1>6 DEF StopRun
  <2> QED
    BY <2>1, MainStands, NoBriefOK
<1>7. CASE UNCHANGED acceptedVars
  BY <1>7, BesideKept DEF acceptedVars
<1> QED
  BY <1>1, <1>2, <1>3, <1>4, <1>5, <1>6, <1>7, BeginKept, RefKept, TextKept,
     EntryKept, ActionKept, ReportKept, EndKept DEF AcceptedNext

\* Whatever git and the mirror do between the reads of a brief, accepted
\* means read on main, a brief that may claim tells one registry of main, one
\* that finds the transfer throughout claims nothing, and what is
\* acknowledged on such briefs was reported before.
THEOREM AcceptedMeansMain == AcceptedSpec => []AcceptedOnMainAndSeen
<1>1. AcceptInv => AcceptedOnMainAndSeen
  <2> SUFFICES ASSUME AcceptInv PROVE AcceptedOnMainAndSeen
    OBVIOUS
  <2>1. brief.resolution.allowed =>
          \E k \in DOMAIN main :
             /\ main[k].valid
             /\ main[k].ids = brief.resolution.newly \cup brief.resolution.stable
    BY DEF AcceptInv, BriefOK, Grounded, OnMain
  <2>2. brief.accepted =>
          ~brief.transferred /\ \E k \in DOMAIN main :
              main[k].valid /\ main[k].bounded /\ StageA \in main[k].ids
    BY DEF AcceptInv, BriefOK, AcceptedOnMain
  <2>3. brief.transferred /\ ~brief.moved =>
          ~brief.resolution.allowed /\ brief.resolution.newly = {} /\ brief.action = "none"
    BY DEF AcceptInv, BriefOK, Unmoved
  <2> QED
    BY <2>1, <2>2, <2>3 DEF AcceptInv, AcceptedOnMainAndSeen
<1> QED
  BY <1>1, AcceptStart, AcceptStep, PTL DEF AcceptedSpec

-----------------------------------------------------------------------------
(* Reflex memory.                                                          *)

Stance == {"baseline_review", "constrained_review", "elevated_review_attention"}

Informs(a) ==
    \/ a.posture = "error"
    \/ /\ a.proof # {} <=> a.posture # "baseline_review"
       /\ a.proof # {} => a.triggered
       /\ a.age = "stale" => a.posture = "baseline_review"

LEMMA AnswerInforms ==
    ASSUME NEW request
    PROVE  Informs(Answer(request)) /\ Consistent(Answer(request))
<1> SUFFICES ASSUME NEW active, active = ActiveFor(request),
                    NEW used, used = {e \in active : Influences(e)}
             PROVE  Informs(Answer(request)) /\ Consistent(Answer(request))
  OBVIOUS
<1>1. \A e \in active : e.posture # "baseline_review" /\ e.posture \in Stance
  <2>1. \A e \in active : e \in Registry /\ e.id \in {"stress", "fragility"}
    BY DEF ActiveFor
  <2>2. ASSUME NEW e \in Registry, e.id \in {"stress", "fragility"}
        PROVE  e.posture # "baseline_review" /\ e.posture \in Stance
    <3>1. \/ e = Lesson("stress", "fragility_escalation", "elevated_review_attention")
          \/ e = Lesson("fragility", "liquidity_deterioration", "constrained_review")
          \/ e = Lesson("monitoring", "baseline_monitoring", "baseline_review")
      BY DEF Registry
    <3> QED
      BY <2>2, <3>1 DEF Lesson, Stance
  <2> QED
    BY <2>1, <2>2
<1>2. (CHOOSE e \in used : TRUE) \in used \/ used = {}
  OBVIOUS
<1> SUFFICES ASSUME NEW a, a = Answer(request) PROVE Informs(a) /\ Consistent(a)
  OBVIOUS
<1>3. a.triggered <=> active # {}
  BY DEF Answer
<1>4. a.applied <=> used # {}
  BY DEF Answer
<1>5. a.proof = {e.id : e \in used}
  BY DEF Answer
<1>6. a.age = IF active = {} THEN "not_applicable" ELSE AgeState
  BY DEF Answer
<1>7. a.posture = IF used = {} THEN "baseline_review"
                  ELSE (CHOOSE e \in used : TRUE).posture
  BY DEF Answer
<1>8. /\ used # {} => a.posture # "baseline_review" /\ active # {}
      /\ used = {} => a.posture = "baseline_review"
      /\ a.posture \in Stance
  BY <1>1, <1>2, <1>7 DEF Stance
<1>9. used = {} <=> a.proof = {}
  BY <1>5
<1>10. AgeState = "stale" => used = {}
  BY DEF Influences
<1>11. Consistent(a)
  <2>1. a.proof # {} => a.triggered
    BY <1>3, <1>8, <1>9
  <2>2. a.applied => a.triggered
    BY <1>3, <1>4, <1>8
  <2> QED
    BY <1>8, <2>1, <2>2 DEF Consistent, Stance
<1>12. Informs(a)
  <2>1. a.proof # {} => a.triggered
    BY <1>3, <1>8, <1>9
  <2>2. a.proof # {} <=> a.posture # "baseline_review"
    BY <1>8, <1>9
  <2>3. a.age = "stale" => a.posture = "baseline_review"
    BY <1>6, <1>8, <1>10
  <2> QED
    BY <2>1, <2>2, <2>3 DEF Informs
<1> QED
  BY <1>11, <1>12

\* The memory informs and never decides, for any registry of keys, shelf of
\* fixtures and requests.
THEOREM MemoryInforms == MemorySpec => []MemoryOnlyInforms
<1>1. MemoryInit => Informs(answer)
  BY DEF MemoryInit, Informs, Failed
<1>2. Informs(answer) /\ [MemoryNext]_memoryVars => Informs(answer)'
  <2> SUFFICES ASSUME Informs(answer), [MemoryNext]_memoryVars PROVE Informs(answer')
    BY DEF Informs
  <2>1. CASE UNCHANGED answer
    BY <2>1
  <2>2. ASSUME NEW r \in Request, Recall(r) PROVE Informs(answer')
    <3>1. answer' \in {Answer(r), Failed}
      BY <2>2 DEF Recall
    <3>2. Informs(Answer(r)) /\ Informs(Failed)
      BY AnswerInforms DEF Informs, Failed
    <3> QED
      BY <3>1, <3>2
  <2> QED
    BY <2>1, <2>2 DEF MemoryNext, memoryVars, Reconfigure, Restock
<1>3. Informs(answer) => MemoryOnlyInforms
  BY AnswerInforms DEF Informs, MemoryOnlyInforms
<1> QED
  BY <1>1, <1>2, <1>3, PTL DEF MemorySpec
-----------------------------------------------------------------------------
(* State Ping and Context Delta.                                           *)

LEMMA TwoOrMore ==
    ASSUME NEW S, IsFiniteSet(S), NEW a \in S, NEW b \in S, a # b
    PROVE  Cardinality(S) > 1
<1>1. /\ IsFiniteSet({a}) /\ Cardinality({a}) = 1
  BY FS_Singleton
<1>2. /\ IsFiniteSet({a} \cup {b}) /\ Cardinality({a} \cup {b}) = 2
  <2>1. b \notin {a}
    OBVIOUS
  <2> QED
    BY <1>1, <2>1, FS_AddElement
<1>3. {a} \cup {b} \subseteq S
  OBVIOUS
<1> QED
  BY <1>2, <1>3, FS_Subset, FS_CardinalityType

\* What a publication claims is finite.
ClaimsAreFinite == \A o \in Publication : IsFiniteSet(o.claims)
PublishedFinite(O) == O \subseteq Publication /\ IsFiniteSet(O)

LEMMA ImageFinite ==
    ASSUME NEW S, IsFiniteSet(S), NEW T, NEW f \in [S -> T],
           \A y \in T : \E x \in S : f[x] = y
    PROVE  IsFiniteSet(T)
<1>1. f \in Surjection(S, T)
  BY DEF Surjection
<1> QED
  BY <1>1, FS_Surjection

LEMMA ClaimsFinite ==
    ASSUME ClaimsAreFinite, NEW O, PublishedFinite(O), NEW C, C \subseteq O
    PROVE  IsFiniteSet(ClaimsOf(C))
<1>0. SUFFICES ASSUME NEW Of,
        Of = [o \in C |->
                {[observation |-> o.id, source |-> o.source, scope |-> c.scope,
                  statement |-> c.statement, status |-> c.status] : c \in o.claims}],
                      NEW parts, parts = {Of[o] : o \in C}
             PROVE  IsFiniteSet(ClaimsOf(C))
  OBVIOUS
<1>1. IsFiniteSet(C) /\ C \subseteq Publication
  BY FS_Subset DEF PublishedFinite
<1>2. \A o \in C : IsFiniteSet(Of[o])
  <2> TAKE o \in C
  <2>0. SUFFICES ASSUME NEW f,
        f = [c \in o.claims |->
               [observation |-> o.id, source |-> o.source, scope |-> c.scope,
                statement |-> c.statement, status |-> c.status]]
               PROVE  IsFiniteSet(Of[o])
    OBVIOUS
  <2>1. IsFiniteSet(o.claims)
    BY <1>1 DEF ClaimsAreFinite
  <2>2. f \in [o.claims -> Of[o]]
    BY <1>0, <2>0
  <2>3. \A y \in Of[o] : \E c \in o.claims : f[c] = y
    BY <1>0, <2>0
  <2> QED
    BY <2>1, <2>2, <2>3, ImageFinite
<1>3. Of \in [C -> parts] /\ \A y \in parts : \E o \in C : Of[o] = y
  BY <1>0
<1>4. IsFiniteSet(parts)
  BY <1>1, <1>3, ImageFinite
<1>5. ClaimsOf(C) = UNION parts
  <2>1. parts =
          {{[observation |-> o.id, source |-> o.source, scope |-> c.scope,
             statement |-> c.statement, status |-> c.status] : c \in o.claims} : o \in C}
    BY <1>0
  <2> QED
    BY <2>1 DEF ClaimsOf
<1>6. \A T \in parts : IsFiniteSet(T)
  BY <1>2, <1>3
<1> QED
  BY <1>4, <1>5, <1>6, FS_UNION

\* Two sources of different statements dispute a scope.
LEMMA DisagreementDisputes ==
    ASSUME NEW claims, IsFiniteSet(claims), NEW a \in claims, NEW b \in claims,
           NEW x \in claims, NEW y \in claims, NEW scope,
           a.scope = scope, b.scope = scope, x.scope = scope, y.scope = scope,
           a.source # b.source, x.statement # y.statement
    PROVE  Disputed(claims, scope)
<1> SUFFICES ASSUME NEW scoped, scoped = {c \in claims : c.scope = scope},
                    NEW sources, sources = {c.source : c \in scoped},
                    NEW statements, statements = {c.statement : c \in scoped}
             PROVE  Cardinality(sources) > 1 /\ Cardinality(statements) > 1
  BY DEF Disputed
<1>1. IsFiniteSet(scoped)
  BY FS_Subset
<1>2. IsFiniteSet(sources)
  <2> SUFFICES ASSUME NEW f, f = [c \in scoped |-> c.source]
               PROVE  IsFiniteSet(sources)
    OBVIOUS
  <2>1. f \in [scoped -> sources] /\ \A s \in sources : \E c \in scoped : f[c] = s
    OBVIOUS
  <2> QED
    BY <1>1, <2>1, ImageFinite
<1>3. IsFiniteSet(statements)
  <2> SUFFICES ASSUME NEW f, f = [c \in scoped |-> c.statement]
               PROVE  IsFiniteSet(statements)
    OBVIOUS
  <2>1. f \in [scoped -> statements]
        /\ \A s \in statements : \E c \in scoped : f[c] = s
    OBVIOUS
  <2> QED
    BY <1>1, <2>1, ImageFinite
<1>4. a.source \in sources /\ b.source \in sources
  OBVIOUS
<1>5. x.statement \in statements /\ y.statement \in statements
  OBVIOUS
<1>6. Cardinality(sources) > 1
  BY <1>2, <1>4, TwoOrMore
<1>7. Cardinality(statements) > 1
  BY <1>3, <1>5, TwoOrMore
<1> QED
  BY <1>6, <1>7

\* Every claim of a contributing observation is one of the claims.
LEMMA ClaimIn ==
    ASSUME NEW C, NEW o \in C, NEW c \in o.claims
    PROVE  \E d \in ClaimsOf(C) :
              /\ d.source = o.source /\ d.scope = c.scope /\ d.statement = c.statement
              /\ d.observation = o.id /\ d.status = c.status
<1> SUFFICES ASSUME NEW d, d = [observation |-> o.id, source |-> o.source,
                     scope |-> c.scope, statement |-> c.statement, status |-> c.status]
             PROVE  d \in ClaimsOf(C)
  <2> SUFFICES ASSUME NEW d, d = [observation |-> o.id, source |-> o.source,
                     scope |-> c.scope, statement |-> c.statement, status |-> c.status]
               PROVE  \E e \in ClaimsOf(C) :
                         /\ e.source = o.source /\ e.scope = c.scope
                         /\ e.statement = c.statement
                         /\ e.observation = o.id /\ e.status = c.status
    OBVIOUS
  <2>1. /\ d.source = o.source /\ d.scope = c.scope /\ d.statement = c.statement
        /\ d.observation = o.id /\ d.status = c.status
    OBVIOUS
  <2> QED
    BY <2>1
<1>1. d \in {[observation |-> o.id, source |-> o.source, scope |-> e.scope,
              statement |-> e.statement, status |-> e.status] : e \in o.claims}
  OBVIOUS
<1> QED
  BY <1>1 DEF ClaimsOf

LEMMA SourcesDisagree ==
    ASSUME ClaimsAreFinite, NEW O, PublishedFinite(O), NEW C, C \subseteq O,
           NEW o \in C, NEW u \in C, NEW c \in o.claims, o.source # u.source,
           Statements(u, c.scope) # {}, Statements(u, c.scope) # Statements(o, c.scope)
    PROVE  Disputed(ClaimsOf(C), c.scope) /\ C # {}
<1>1. PICK e \in u.claims : e.scope = c.scope
  BY DEF Statements
<1>2. PICK a \in ClaimsOf(C) : a.source = o.source /\ a.scope = c.scope
  BY ClaimIn
<1>3. PICK b \in ClaimsOf(C) : b.source = u.source /\ b.scope = c.scope
  BY <1>1, ClaimIn
<1>4. \E s, t : /\ s # t /\ s \in Statements(u, c.scope) \cup Statements(o, c.scope)
                /\ t \in Statements(u, c.scope) \cup Statements(o, c.scope)
  <2>1. c.statement \in Statements(o, c.scope)
    BY DEF Statements
  <2> QED
    BY <2>1
<1>5. PICK s, t : /\ s # t /\ s \in Statements(u, c.scope) \cup Statements(o, c.scope)
                  /\ t \in Statements(u, c.scope) \cup Statements(o, c.scope)
  BY <1>4
<1>6. \A r \in Statements(u, c.scope) \cup Statements(o, c.scope) :
         \E d \in ClaimsOf(C) : d.scope = c.scope /\ d.statement = r
  <2> TAKE r \in Statements(u, c.scope) \cup Statements(o, c.scope)
  <2>1. PICK z \in {u, o} : \E e1 \in z.claims : e1.scope = c.scope /\ e1.statement = r
    BY DEF Statements
  <2>2. PICK e1 \in z.claims : e1.scope = c.scope /\ e1.statement = r
    BY <2>1
  <2>3. z \in C
    OBVIOUS
  <2> QED
    BY <2>2, <2>3, ClaimIn
<1>7. PICK x \in ClaimsOf(C) : x.scope = c.scope /\ x.statement = s
  BY <1>5, <1>6
<1>8. PICK y \in ClaimsOf(C) : y.scope = c.scope /\ y.statement = t
  BY <1>5, <1>6
<1>9. IsFiniteSet(ClaimsOf(C))
  BY ClaimsFinite
<1> QED
  BY <1>2, <1>3, <1>5, <1>7, <1>8, <1>9, DisagreementDisputes

LEMMA PingSays ==
    ASSUME NEW O, NEW L, NEW p, p = StatePing(O, L)
    PROVE  LET C == Contributing(O, L)
               claims == ClaimsOf(C)
           IN  /\ p.id.observations = O /\ p.id.entries = L
               /\ p.status = ContextStatus(O, L) /\ p.confidence = Confidence(O, L)
               /\ p.evidence =
                    {[id |-> EvidenceOf(c), status |-> EvidenceStatus(claims, c)] :
                        c \in claims}
  BY DEF StatePing

\* A disagreement makes a ping unresolved.
LEMMA DisagreementLasts ==
    ASSUME ClaimsAreFinite, NEW O, PublishedFinite(O), NEW L,
           NEW C, C = Contributing(O, L), NEW p, p = StatePing(O, L),
           NEW o \in C, NEW u \in C, NEW c \in o.claims, o.source # u.source,
           Statements(u, c.scope) # {}, Statements(u, c.scope) # Statements(o, c.scope)
    PROVE  /\ p.status = "unresolved" /\ p.confidence = "low"
           /\ \A e \in p.evidence : e.id.scope = c.scope => e.status = "contradicted"
<1>0. SUFFICES ASSUME NEW claims, claims = ClaimsOf(C)
      PROVE  /\ p.status = "unresolved" /\ p.confidence = "low"
             /\ \A e \in p.evidence : e.id.scope = c.scope => e.status = "contradicted"
  OBVIOUS
<1>1. C \subseteq O
  BY DEF Contributing
<1>2. Disputed(claims, c.scope) /\ C # {}
  BY <1>0, <1>1, SourcesDisagree
<1>3. PICK d \in claims : d.scope = c.scope
  BY <1>0, ClaimIn
<1>4. Contradictions(claims) # {}
  <2>1. c.scope \in {x \in {e.scope : e \in claims} : Disputed(claims, x)}
    BY <1>2, <1>3
  <2> QED
    BY <2>1 DEF Contradictions
<1>5. ContextStatus(O, L) = "unresolved"
  BY <1>0, <1>2, <1>4 DEF ContextStatus
<1>6. Confidence(O, L) = "low"
  BY <1>5 DEF Confidence
<1>7. /\ p.status = ContextStatus(O, L) /\ p.confidence = Confidence(O, L)
      /\ p.evidence = {[id |-> EvidenceOf(e), status |-> EvidenceStatus(claims, e)] :
                          e \in claims}
  BY <1>0, PingSays
<1>8. ASSUME NEW e \in p.evidence, e.id.scope = c.scope
      PROVE  e.status = "contradicted"
  <2>1. PICK x \in claims : e = [id |-> EvidenceOf(x), status |-> EvidenceStatus(claims, x)]
    BY <1>7
  <2>2. Disputed(claims, x.scope) /\ e.status = EvidenceStatus(claims, x)
    BY <1>2, <1>8, <2>1 DEF EvidenceOf
  <2> QED
    BY <2>2 DEF EvidenceStatus
<1> QED
  BY <1>5, <1>6, <1>7, <1>8

\* A ping is resolved only where nothing is missing.
LEMMA ResolvedRests ==
    ASSUME NEW O, NEW L, NEW C, C = Contributing(O, L), ContextStatus(O, L) = "resolved"
    PROVE  O # {} /\ \A o \in O :
              /\ o \in C /\ o.status = "observed" /\ o.verification = "verified"
              /\ ~o.material /\ \A c \in o.claims : c.status = "observed"
<1>1. C # {} /\ Gaps(O, L) = {}
  BY DEF ContextStatus
<1>0. C \subseteq O /\ \A o \in O : o \in C <=> Positive(o) /\ Eligible(o, L)
  BY DEF Contributing
<1>2. ASSUME NEW o \in O PROVE ~o.material /\ Positive(o) /\ Eligible(o, L)
  <2>1. {[about |-> x.id, why |-> "limitation"] : x \in {y \in O : y.material}} = {}
    BY <1>1 DEF Gaps, Limits
  <2>2. {[about |-> x.id, why |-> x.status] : x \in {y \in O : ~Positive(y)}} = {}
    BY <1>1 DEF Gaps, Limits
  <2>3. {[about |-> x.id, why |-> "ineligible"] :
           x \in {y \in O : Positive(y) /\ ~Eligible(y, L)}} = {}
    BY <1>1 DEF Gaps, Limits
  <2>4. ~o.material
    BY <2>1
  <2>5. Positive(o)
    BY <2>2
  <2>6. Eligible(o, L)
    BY <2>3, <2>5
  <2> QED
    BY <2>4, <2>5, <2>6
<1>3. ASSUME NEW o \in O PROVE o.status = "observed" /\ o.verification = "verified"
  <2>1. o \in C
    BY <1>0, <1>2
  <2>2. o.status # "stale" /\ o.verification = "verified"
    BY <1>1, <2>1 DEF Gaps, Limits
  <2> QED
    BY <1>2, <2>2 DEF Positive
<1>4. ASSUME NEW o \in O, NEW c \in o.claims PROVE c.status = "observed"
  <2>1. o \in C
    BY <1>0, <1>2
  <2>2. PICK d \in ClaimsOf(C) : d.status = c.status
    BY <2>1, ClaimIn
  <2>3. d.status = "observed"
    BY <1>1, <2>2 DEF Gaps, Limits
  <2> QED
    BY <2>2, <2>3
<1> QED
  BY <1>0, <1>1, <1>2, <1>3, <1>4

\* A contradiction that goes is a change.
LEMMA RemovalChanges ==
    ASSUME NEW p, NEW q, NEW k \in p.contradictions, k \notin q.contradictions,
           NEW d, d = ContextDelta(p, q)
    PROVE  d.status = "changed" /\ k \in d.contradictions.removed
<1>1. k \in ContradictionChanges(p, q).removed
  BY DEF ContradictionChanges, Changes, Ids, ItsId
<1>2. ~Unchanged(ContradictionChanges(p, q))
  BY <1>1 DEF Unchanged
<1>3. d.contradictions = ContradictionChanges(p, q)
  BY DEF ContextDelta
<1>4. d.status = "changed"
  BY <1>2 DEF ContextDelta
<1> QED
  BY <1>1, <1>3, <1>4

PingInv ==
    /\ PublishedFinite(published) /\ PublishedFinite(ping.id.observations)
    /\ ping = StatePing(ping.id.observations, ping.id.entries)
    /\ delta = [built |-> FALSE] \/ delta = ContextDelta(earlier, ping)

LEMMA NothingPublished == PublishedFinite({})
  BY FS_EmptySet DEF PublishedFinite

LEMMA OneMorePublished ==
    ASSUME PublishedFinite(published), NEW o \in Publication,
           Publish(o) \/ PublishBoth(o)
    PROVE  PublishedFinite(published')
<1> SUFFICES ASSUME NEW kept, kept \subseteq published, published' = kept \cup {o}
             PROVE  PublishedFinite(published')
  BY DEF Publish, PublishBoth
<1>1. IsFiniteSet(kept) /\ kept \subseteq Publication
  BY FS_Subset DEF PublishedFinite
<1> QED
  BY <1>1, FS_AddElement DEF PublishedFinite

LEMMA PingStep == PingInv /\ [RetailContextNext]_retailContextVars => PingInv'
<1> SUFFICES ASSUME PingInv, [RetailContextNext]_retailContextVars PROVE PingInv'
  OBVIOUS
<1>1. CASE UNCHANGED retailContextVars
  BY <1>1 DEF retailContextVars, PingInv, PublishedFinite
<1>2. ASSUME NEW o \in Publication, Publish(o) \/ PublishBoth(o) PROVE PingInv'
  <2>1. ping' = ping /\ earlier' = earlier /\ delta' = delta
    BY <1>2 DEF Publish, PublishBoth
  <2>2. PublishedFinite(published')
    BY <1>2, OneMorePublished DEF PingInv
  <2> QED
    BY <2>1, <2>2 DEF PingInv, PublishedFinite
<1>3. ASSUME NEW entry \in Listing, List(entry) PROVE PingInv'
  BY <1>3 DEF List, PingInv, PublishedFinite
<1>4. CASE TakePing
  <2>0. SUFFICES ASSUME NEW p, p = StatePing(published, listed) PROVE PingInv'
    OBVIOUS
  <2>1. /\ ping' = p /\ earlier' = ping /\ published' = published
        /\ delta' = ContextDelta(ping, ping') \/ delta' = [built |-> FALSE]
    BY <1>4, <2>0 DEF TakePing
  <2>2. p.id.observations = published /\ p.id.entries = listed
    BY <2>0, PingSays
  <2>3. ping' = StatePing(ping'.id.observations, ping'.id.entries)
    BY <2>0, <2>1, <2>2
  <2>4. PublishedFinite(published)
    BY DEF PingInv
  <2>5. PublishedFinite(published)' /\ PublishedFinite(ping.id.observations)'
    BY <2>1, <2>2, <2>4 DEF PublishedFinite
  <2>6. (delta = ContextDelta(earlier, ping) \/ delta = [built |-> FALSE])'
    BY <2>1
  <2> QED
    BY <2>3, <2>5, <2>6 DEF PingInv
<1> QED
  BY <1>1, <1>2, <1>3, <1>4 DEF RetailContextNext

\* What sources disagree about is shown, in a ping and in a delta, for any
\* sources, observations, claims and registries.
THEOREM DisagreementIsShown == ASSUME ClaimsAreFinite
                               PROVE  RetailContextSpec => []DisagreementShown
<1>1. RetailContextInit => PingInv
  <2>0. SUFFICES ASSUME RetailContextInit, NEW p, p = StatePing({}, {}) PROVE PingInv
    OBVIOUS
  <2>1. /\ published = {} /\ ping = p /\ earlier = p /\ delta = ContextDelta(p, p)
    BY <2>0 DEF RetailContextInit
  <2>2. p.id.observations = {} /\ p.id.entries = {}
    BY <2>0, PingSays
  <2>3. ping = StatePing(ping.id.observations, ping.id.entries)
    BY <2>0, <2>1, <2>2
  <2> QED
    BY <2>1, <2>2, <2>3, NothingPublished DEF PingInv
<1>2. PingInv => DisagreementShown
  <2>0. SUFFICES ASSUME PingInv, NEW O, O = ping.id.observations,
                        NEW L, L = ping.id.entries, NEW C, C = Contributing(O, L)
                 PROVE  DisagreementShown
    OBVIOUS
  <2>1. PublishedFinite(O) /\ ping = StatePing(O, L)
    BY <2>0 DEF PingInv
  <2>2. \A o, u \in C : \A c \in o.claims :
           /\ o.source # u.source /\ Statements(u, c.scope) # {}
           /\ Statements(u, c.scope) # Statements(o, c.scope)
           => /\ ping.status = "unresolved" /\ ping.confidence = "low"
              /\ \A e \in ping.evidence :
                    e.id.scope = c.scope => e.status = "contradicted"
    BY <2>0, <2>1, DisagreementLasts
  <2>3. ping.status = ContextStatus(O, L)
    BY <2>1, PingSays
  <2>4. ping.status = "resolved" => O # {} /\ \A o \in O :
           /\ o \in C /\ o.status = "observed" /\ o.verification = "verified"
           /\ ~o.material /\ \A c \in o.claims : c.status = "observed"
    <3>1. CASE ping.status = "resolved"
      <4>1. ContextStatus(O, L) = "resolved"
        BY <2>3, <3>1
      <4>2. C = Contributing(O, L)
        BY <2>0
      <4> QED
        BY <4>1, <4>2, ResolvedRests
    <3> QED
      BY <3>1
  <2>5. delta.built => \A k \in earlier.contradictions \ ping.contradictions :
           delta.status = "changed" /\ k \in delta.contradictions.removed
    <3>1. CASE delta = [built |-> FALSE]
      BY <3>1
    <3>2. CASE delta = ContextDelta(earlier, ping)
      BY <3>2, RemovalChanges
    <3> QED
      BY <2>0, <3>1, <3>2 DEF PingInv
  <2> QED
    BY <2>0, <2>2, <2>4, <2>5 DEF DisagreementShown
<1> QED
  BY <1>1, <1>2, PingStep, PTL DEF RetailContextSpec
-----------------------------------------------------------------------------
(* The Architect's brief.                                                  *)

\* A proof has an id of its own; what a file holds is finite.
EvidenceIsFinite ==
    /\ IsFiniteSet(ProofRecord) /\ \A R \in Fixture : IsFiniteSet(R)
    /\ \A p, q \in ProofRecord : p.id = q.id => p = q

Due(now) == {p \in readFrom : InObservation(p, now)}

LoadedOK ==
    /\ IsFiniteSet(work.records)
    /\ work.mode = "pilot_proof_registry" =>
          work.records = {Observation(p) : p \in Due(work.now)}

ToldOK ==
    /\ LoadedOK
    /\ work.mode = "pilot_proof_registry" =>
          work.sources.proof_registry.count = Cardinality(work.records)
    /\ work.health = [d \in HealthDomain |-> Health(d, work.records)]
    /\ work.anomalies = Anomalies(work.records)
    /\ work.quiet = {a.type : a \in {b \in work.anomalies : ~b.notification}}
    /\ work.action = {a.type : a \in {b \in work.anomalies : b.notification}}

ArchitectInv ==
    /\ proofFile.proofs \subseteq ProofRecord /\ readFrom \subseteq ProofRecord
    /\ work.at \in {"none", "loaded", "told"}
    /\ work.at = "loaded" => LoadedOK
    /\ work.at = "told" => ToldOK

LEMMA CountsAre ==
    ASSUME NEW R, IsFiniteSet(R), NEW f
    PROVE  /\ Count(R, f) \in Nat
           /\ Count(R, f) = 0 <=> \A r \in R : f \notin r.flags
<1>1. IsFiniteSet(Flagged(R, f))
  BY FS_Subset DEF Flagged
<1>2. Cardinality(Flagged(R, f)) \in Nat
  BY <1>1, FS_CardinalityType
<1>3. Cardinality(Flagged(R, f)) = 0 <=> Flagged(R, f) = {}
  BY <1>1, FS_EmptySet
<1>4. Flagged(R, f) = {} <=> \A r \in R : f \notin r.flags
  BY DEF Flagged
<1> QED
  BY <1>2, <1>3, <1>4 DEF Count

LEMMA PartCounts ==
    ASSUME NEW R, IsFiniteSet(R), NEW S, S \subseteq R
    PROVE  Cardinality(S) \in Nat /\ (Cardinality(S) = 0 <=> S = {})
  BY FS_Subset, FS_CardinalityType, FS_EmptySet

LEMMA BoundaryShows ==
    ASSUME NEW R, IsFiniteSet(R), NEW r \in R,
           r.flags \cap {"authority_invalid", "execution_attempted"} # {}
    PROVE  Health("boundary", R) \in {"degraded", "unavailable"}
<1>1. /\ Count(R, "authority_invalid") \in Nat /\ Count(R, "execution_attempted") \in Nat
      /\ Count(R, "approval_language") \in Nat
      /\ Count(R, "authority_invalid") # 0 \/ Count(R, "execution_attempted") # 0
  BY CountsAre
<1>2. Failures("boundary", R) \in Nat /\ Failures("boundary", R) # 0
  BY <1>1 DEF Failures, BoundaryFailures
<1>3. Total("boundary", R) = Cardinality(R)
  BY DEF Total
<1>4. Total("boundary", R) \in Nat /\ Total("boundary", R) # 0
  BY <1>3, PartCounts
<1>5. SeenBy("boundary", R)
  BY DEF SeenBy
<1> QED
  BY <1>2, <1>4, <1>5 DEF Health

LEMMA ChronologyShows ==
    ASSUME NEW R, IsFiniteSet(R), NEW r \in R, "link_failed" \in r.flags
    PROVE  Health("chronology", R) \in {"degraded", "unavailable"}
<1>1. /\ Count(R, "link_failed") \in Nat /\ Count(R, "interruption") \in Nat
      /\ Count(R, "archive_dependency") \in Nat /\ Count(R, "link_failed") # 0
  BY CountsAre
<1>2. Failures("chronology", R) \in Nat /\ Failures("chronology", R) # 0
  BY <1>1 DEF Failures
<1>3. Total("chronology", R) = Cardinality(R)
  BY DEF Total
<1>4. Total("chronology", R) \in Nat /\ Total("chronology", R) # 0
  BY <1>3, PartCounts
<1>5. SeenBy("chronology", R)
  BY DEF SeenBy
<1> QED
  BY <1>2, <1>4, <1>5 DEF Health

\* An anomaly is known by its type and affects somebody.
LEMMA AnomalyOfType ==
    ASSUME NEW R, NEW a \in Anomalies(R)
    PROVE  /\ Affected(a.type, R) # {}
           /\ a = [type |-> a.type, affected |-> {r.id : r \in Affected(a.type, R)},
                   severity |-> Severity(a.type),
                   notification |-> Notifies(a.type, Cardinality(Affected(a.type, R)))]
  BY DEF Anomalies

\* An anomaly notified at once shows in the health of its domain.
LEMMA NotifiedShows ==
    ASSUME NEW R, IsFiniteSet(R), NEW a \in Anomalies(R), a.type \in DOMAIN ShownBy
    PROVE  Health(ShownBy[a.type], R) \in {"degraded", "unavailable"}
<1>1. a.type \in {"authority_effect_invalid", "execution_boundary_violation",
                  "chronology_link_failure"}
  BY DEF ShownBy
<1>2. PICK r \in Affected(a.type, R) : TRUE
  BY AnomalyOfType
<1>3. CASE a.type = "authority_effect_invalid"
  <2>1. r \in R /\ "authority_invalid" \in r.flags
    BY <1>2, <1>3 DEF Affected, Flagged, AnomalyOf
  <2>2. ShownBy[a.type] = "boundary"
    BY <1>3 DEF ShownBy
  <2> QED
    BY <2>1, <2>2, BoundaryShows
<1>4. CASE a.type = "execution_boundary_violation"
  <2>1. r \in R /\ "execution_attempted" \in r.flags
    BY <1>2, <1>4 DEF Affected, Flagged, AnomalyOf
  <2>2. ShownBy[a.type] = "boundary"
    BY <1>4 DEF ShownBy
  <2> QED
    BY <2>1, <2>2, BoundaryShows
<1>5. CASE a.type = "chronology_link_failure"
  <2>1. r \in R /\ "link_failed" \in r.flags
    BY <1>2, <1>5 DEF Affected, Flagged, AnomalyOf
  <2>2. ShownBy[a.type] = "chronology"
    BY <1>5 DEF ShownBy
  <2> QED
    BY <2>1, <2>2, ChronologyShows
<1> QED
  BY <1>1, <1>3, <1>4, <1>5

LEMMA NothingSummed ==
    ASSUME NEW a \in Nat, NEW b \in Nat, NEW c \in Nat, NEW d \in Nat, a + b + c + d = 0
    PROVE  a = 0
  OBVIOUS

\* A healthy domain of proofs has seen some, and none that failed.
LEMMA HealthyProofs ==
    ASSUME NEW R, IsFiniteSet(R), Health("proof", R) = "healthy"
    PROVE  /\ R # {}
           /\ \A r \in R : ~("proof_created" \in r.flags /\ "proof_failed" \in r.flags)
<1>0. SUFFICES ASSUME
      NEW bad, bad = Flagged(R, "proof_created") \cap Flagged(R, "proof_failed"),
      NEW odd, odd = Flagged(R, "replay_attempted") \cap Flagged(R, "replay_failed")
      PROVE  R # {} /\ bad = {}
  BY DEF Flagged
<1>1. SeenBy("proof", R) /\ Failures("proof", R) = 0
  BY DEF Health
<1>2. Failures("proof", R) =
        Cardinality(bad) + Cardinality(odd)
          + Count(R, "signature_mismatch") + Count(R, "output_variance")
  BY <1>0 DEF Failures
<1>3. /\ Cardinality(bad) \in Nat /\ Cardinality(odd) \in Nat
      /\ Count(R, "signature_mismatch") \in Nat /\ Count(R, "output_variance") \in Nat
      /\ Cardinality(bad) = 0 <=> bad = {}
  <2>1. bad \subseteq R /\ odd \subseteq R
    BY <1>0 DEF Flagged
  <2>2. Cardinality(bad) \in Nat /\ (Cardinality(bad) = 0 <=> bad = {})
    BY <2>1, PartCounts
  <2>3. Cardinality(odd) \in Nat
    BY <2>1, PartCounts
  <2> QED
    BY <2>2, <2>3, CountsAre
<1>4. R # {}
  BY <1>1 DEF SeenBy
<1>5. Cardinality(bad) = 0
  BY <1>1, <1>2, <1>3, NothingSummed
<1> QED
  BY <1>3, <1>4, <1>5

\* Of a proof the permitted fields are observed.
LEMMA ObservationSays ==
    ASSUME NEW p, NEW o, o = Observation(p)
    PROVE  /\ o.id = p.id /\ "proof_created" \in o.flags
           /\ "proof_failed" \in o.flags <=> p.status = "failed"
           /\ o = [id |-> o.id, class |-> "unknown", live |-> FALSE, flags |-> o.flags]
<1>1. "proof_created" \in o.flags /\ ("proof_failed" \in o.flags <=> p.status = "failed")
  BY DEF Observation
<1>2. o = [id |-> o.id, class |-> "unknown", live |-> FALSE, flags |-> o.flags]
  BY DEF Observation
<1>3. o.id = p.id
  BY DEF Observation
<1> QED
  BY <1>1, <1>2, <1>3

\* What is not called live is left as it is.
LEMMA NothingNormalized ==
    ASSUME NEW R,
           \A o \in R :
              o = [id |-> o.id, class |-> "unknown", live |-> FALSE, flags |-> o.flags]
    PROVE  Normalized(R) = R
<1>1. \A o \in R :
         [o EXCEPT !.class = IF @ = "live" /\ ~o.live THEN "unknown" ELSE @] = o
  <2> TAKE o \in R
  <2> SUFFICES ASSUME NEW c, c = IF o.class = "live" /\ ~o.live THEN "unknown"
                                 ELSE o.class
               PROVE  [o EXCEPT !.class = c] = o
    OBVIOUS
  <2>1. PICK i, f : o = [id |-> i, class |-> "unknown", live |-> FALSE, flags |-> f]
    OBVIOUS
  <2>2. c = "unknown"
    BY <2>1
  <2>3. [o EXCEPT !.class = c] = [id |-> i, class |-> c, live |-> FALSE, flags |-> f]
    BY <2>1
  <2> QED
    BY <2>1, <2>2, <2>3
<1> QED
  BY <1>1 DEF Normalized

LEMMA NormalizedFinite ==
    ASSUME NEW R, IsFiniteSet(R) PROVE IsFiniteSet(Normalized(R))
<1>0. SUFFICES ASSUME NEW f,
        f = [r \in R |->
               [r EXCEPT !.class = IF @ = "live" /\ ~r.live THEN "unknown" ELSE @]]
      PROVE  IsFiniteSet(Normalized(R))
  OBVIOUS
<1>1. /\ f \in [R -> Normalized(R)]
      /\ \A y \in Normalized(R) : \E r \in R : f[r] = y
  BY <1>0 DEF Normalized
<1> QED
  BY <1>1, ImageFinite

\* As many records are observed as proofs are due.
LEMMA ObservedAreDue ==
    ASSUME EvidenceIsFinite, NEW S, S \subseteq ProofRecord,
           NEW R, R = {Observation(p) : p \in S}
    PROVE  /\ IsFiniteSet(R) /\ Cardinality(R) = Cardinality(S)
           /\ Normalized(R) = R
<1>0. SUFFICES ASSUME NEW f, f = [p \in S |-> Observation(p)]
      PROVE  /\ IsFiniteSet(R) /\ Cardinality(R) = Cardinality(S)
             /\ Normalized(R) = R
  OBVIOUS
<1>1. IsFiniteSet(S)
  BY FS_Subset DEF EvidenceIsFinite
<1>2. f \in [S -> R] /\ (\A y \in R : \E p \in S : f[p] = y)
      /\ \A p \in S : f[p] = Observation(p)
  BY <1>0
<1>3. ASSUME NEW p \in S, NEW q \in S, f[p] = f[q] PROVE p = q
  <2>1. f[p].id = p.id /\ f[q].id = q.id
    BY <1>2, ObservationSays
  <2> QED
    BY <1>3, <2>1 DEF EvidenceIsFinite
<1>4. f \in Surjection(S, R) /\ f \in Injection(S, R)
  BY <1>2, <1>3 DEF Surjection, Injection, IsInjective
<1>5. IsFiniteSet(R) /\ Cardinality(R) = Cardinality(S)
  BY <1>1, <1>4, FS_Surjection
<1>6. \A o \in R :
         o = [id |-> o.id, class |-> "unknown", live |-> FALSE, flags |-> o.flags]
  BY ObservationSays
<1> QED
  BY <1>5, <1>6, NothingNormalized

LEMMA LoadKept ==
    ASSUME EvidenceIsFinite, ArchitectInv, NEW now \in GeneratedAt,
           LoadRegistry(now) \/ \E read \in Fixture \cup {{}} : LoadFixture(read, now)
    PROVE  ArchitectInv'
<1>1. proofFile' = proofFile /\ proofFile.proofs \subseteq ProofRecord
  BY DEF LoadRegistry, LoadFixture, ArchitectInv
<1>2. CASE LoadRegistry(now)
  <2>1. /\ work' = [at |-> "loaded", mode |-> "pilot_proof_registry",
                    records |-> PilotRecords(now), now |-> now]
        /\ readFrom' = proofFile.proofs
    BY <1>2 DEF LoadRegistry
  <2>2. /\ work'.at = "loaded" /\ work'.records = PilotRecords(now) /\ work'.now = now
    BY <2>1
  <2>3. PilotRecords(now) =
          {Observation(p) : p \in {q \in proofFile.proofs : InObservation(q, now)}}
    BY DEF PilotRecords
  <2>4. IsFiniteSet(PilotRecords(now))
    <3>1. {q \in proofFile.proofs : InObservation(q, now)} \subseteq ProofRecord
      BY <1>1
    <3> QED
      BY <2>3, <3>1, ObservedAreDue
  <2>5. Due(work.now)' = {q \in proofFile.proofs : InObservation(q, now)}
    BY <2>1, <2>2 DEF Due, InObservation
  <2>6. work'.records = {Observation(p) : p \in Due(work.now)'}
    BY <2>2, <2>3, <2>5
  <2>7. LoadedOK'
    BY <2>2, <2>4, <2>6 DEF LoadedOK
  <2> QED
    BY <1>1, <2>1, <2>2, <2>7 DEF ArchitectInv
<1>3. ASSUME NEW read \in Fixture \cup {{}}, LoadFixture(read, now)
      PROVE  ArchitectInv'
  <2>1. /\ work'.at = "loaded" /\ work'.mode = "offline_fixture"
        /\ work'.records = read /\ readFrom' = {}
    BY <1>3 DEF LoadFixture
  <2>2. IsFiniteSet(read)
    BY <1>3, FS_EmptySet DEF EvidenceIsFinite
  <2>3. LoadedOK'
    BY <2>1, <2>2 DEF LoadedOK
  <2> QED
    BY <1>1, <2>1, <2>3 DEF ArchitectInv
<1> QED
  BY <1>2, <1>3

LEMMA SnapshotKept ==
    ASSUME EvidenceIsFinite, ArchitectInv, Snapshot PROVE ArchitectInv'
<1>0. SUFFICES ASSUME NEW R, R = Normalized(work.records),
               NEW n, n = IF work.mode = "pilot_proof_registry" THEN Cardinality(R) ELSE 0
      PROVE  ArchitectInv'
  OBVIOUS
<1>1. /\ work.at = "loaded" /\ work'.at = "told" /\ work'.mode = work.mode
      /\ work'.now = work.now /\ work'.records = R /\ work'.sources = SourcesFound(n)
      /\ work'.health = [d \in HealthDomain |-> Health(d, R)]
      /\ work'.anomalies = Anomalies(R)
      /\ work'.quiet = {a.type : a \in {b \in Anomalies(R) : ~b.notification}}
      /\ work'.action = {a.type : a \in {b \in Anomalies(R) : b.notification}}
      /\ proofFile' = proofFile /\ readFrom' = readFrom
  BY <1>0 DEF Snapshot
<1>2. LoadedOK
  BY <1>1 DEF ArchitectInv
<1>3. IsFiniteSet(R)
  BY <1>0, <1>2, NormalizedFinite DEF LoadedOK
<1>4. SourcesFound(n).proof_registry.count = n
  BY DEF SourcesFound
<1>5. Due(work.now)' = Due(work.now)
  BY <1>1 DEF Due
<1>6. ASSUME work.mode = "pilot_proof_registry"
      PROVE  R = {Observation(p) : p \in Due(work.now)} /\ n = Cardinality(R)
  <2>1. work.records = {Observation(p) : p \in Due(work.now)}
    BY <1>2, <1>6 DEF LoadedOK
  <2>2. Due(work.now) \subseteq ProofRecord
    BY DEF Due, ArchitectInv
  <2>3. Normalized(work.records) = work.records
    BY <2>1, <2>2, ObservedAreDue
  <2> QED
    BY <1>0, <1>6, <2>1, <2>3
<1>7. LoadedOK'
  BY <1>1, <1>3, <1>5, <1>6 DEF LoadedOK
<1>8. ToldOK'
  BY <1>1, <1>4, <1>6, <1>7 DEF ToldOK, Health, HealthDomain
<1> QED
  BY <1>1, <1>8 DEF ArchitectInv

LEMMA ArchitectStep ==
    ASSUME EvidenceIsFinite
    PROVE  ArchitectInv /\ [ArchitectNext]_architectVars => ArchitectInv'
<1> SUFFICES ASSUME ArchitectInv, [ArchitectNext]_architectVars PROVE ArchitectInv'
  OBVIOUS
<1>1. ASSUME work' = work, readFrom' = readFrom, proofFile'.proofs \subseteq ProofRecord
      PROVE  ArchitectInv'
  <2>1. LoadedOK => LoadedOK'
    BY <1>1 DEF LoadedOK, Due
  <2>2. ToldOK => ToldOK'
    BY <1>1, <2>1 DEF ToldOK
  <2> QED
    BY <1>1, <2>1, <2>2 DEF ArchitectInv
<1>2. CASE UNCHANGED architectVars
  BY <1>1, <1>2 DEF architectVars, ArchitectInv
<1>3. ASSUME NEW reg, NEW reflex, FilesChange(reg, reflex),
             reg.proofs \subseteq ProofRecord
      PROVE  ArchitectInv'
  BY <1>1, <1>3 DEF FilesChange
<1>4. CASE Finish
  <2>1. work'.at = "none" /\ proofFile' = proofFile /\ readFrom' = readFrom
    BY <1>4 DEF Finish, NoWork
  <2> QED
    BY <2>1 DEF ArchitectInv
<1>5. CASE \E now \in GeneratedAt :
              LoadRegistry(now)
              \/ \E read \in Fixture \cup {{}} : LoadFixture(read, now)
  BY <1>5, LoadKept
<1>6. CASE \E reflex \in BOOLEAN :
             \/ FilesChange([present |-> FALSE, proofs |-> {}], reflex)
             \/ \E P \in SUBSET ProofRecord :
                   FilesChange([present |-> TRUE, proofs |-> P], reflex)
  BY <1>3, <1>6
<1> QED
  BY <1>2, <1>4, <1>5, <1>6, SnapshotKept DEF ArchitectNext

LEMMA AnomalyFound ==
    ASSUME NEW R, NEW t \in AnomalyType, Affected(t, R) # {}
    PROVE  \E a \in Anomalies(R) :
              a.type = t /\ a.affected = {r.id : r \in Affected(t, R)}
<1>1. PICK a : a = [type |-> t, affected |-> {r.id : r \in Affected(t, R)},
                    severity |-> Severity(t),
                    notification |-> Notifies(t, Cardinality(Affected(t, R)))]
  OBVIOUS
<1>2. t \in {u \in AnomalyType : Affected(u, R) # {}}
  OBVIOUS
<1>3. a \in Anomalies(R)
  BY ZenonT(30), <1>1, <1>2 DEF Anomalies
<1>4. a.type = t /\ a.affected = {r.id : r \in Affected(t, R)}
  <2>1. SUFFICES ASSUME NEW A, A = {r.id : r \in Affected(t, R)},
                        NEW sev, NEW note,
                        a = [type |-> t, affected |-> A, severity |-> sev,
                             notification |-> note]
                 PROVE  a.type = t /\ a.affected = A
    BY Zenon, <1>1
  <2> QED
    BY <2>1
<1> QED
  BY <1>3, <1>4

LEMMA ToldIsHonest == ASSUME EvidenceIsFinite, ArchitectInv PROVE BriefIsHonest
<1>0. SUFFICES ASSUME work.at = "told", NEW R, R = work.records,
                      NEW due, due = {p \in readFrom : InObservation(p, work.now)}
      PROVE
        /\ \A a \in work.anomalies :
              /\ a.notification /\ a.type \in DOMAIN ShownBy =>
                    work.health[ShownBy[a.type]] \in {"degraded", "unavailable"}
              /\ (a.type \in work.action) # (a.type \in work.quiet)
        /\ work.mode = "pilot_proof_registry" =>
              LET failed == {p \in due : p.status = "failed"}
              IN  /\ work.sources.proof_registry.count = Cardinality(due)
                  /\ failed = {} \/ \E a \in work.anomalies :
                        /\ a.type = "proof_verification_failure"
                        /\ a.affected = {p.id : p \in failed}
                  /\ work.health["proof"] = "healthy" => failed = {} /\ due # {}
  BY DEF BriefIsHonest
<1>1. ToldOK /\ IsFiniteSet(R) /\ work.anomalies = Anomalies(R)
  BY <1>0 DEF ArchitectInv, ToldOK, LoadedOK
<1>2. work.health = [d \in HealthDomain |-> Health(d, R)]
  BY <1>0, <1>1 DEF ToldOK
<1>3. ASSUME NEW a \in work.anomalies, a.type \in DOMAIN ShownBy
      PROVE  work.health[ShownBy[a.type]] \in {"degraded", "unavailable"}
  <2>1. Health(ShownBy[a.type], R) \in {"degraded", "unavailable"}
    BY <1>1, <1>3, NotifiedShows
  <2>2. ShownBy[a.type] \in HealthDomain
    BY <1>3 DEF ShownBy, HealthDomain
  <2> QED
    BY <1>2, <2>1, <2>2
<1>4. ASSUME NEW a \in work.anomalies
      PROVE  (a.type \in work.action) # (a.type \in work.quiet)
  <2>1. \A b \in work.anomalies : b.type = a.type => b.notification = a.notification
    BY <1>1, <1>4, AnomalyOfType
  <2>2. a.type \in work.action <=> a.notification
    BY <1>1, <1>4, <2>1 DEF ToldOK
  <2>3. a.type \in work.quiet <=> ~a.notification
    BY <1>1, <1>4, <2>1 DEF ToldOK
  <2> QED
    BY <2>2, <2>3
<1>5. ASSUME work.mode = "pilot_proof_registry",
             NEW failed, failed = {p \in due : p.status = "failed"}
      PROVE  /\ work.sources.proof_registry.count = Cardinality(due)
             /\ failed = {} \/ \E a \in work.anomalies :
                   /\ a.type = "proof_verification_failure"
                   /\ a.affected = {p.id : p \in failed}
             /\ work.health["proof"] = "healthy" => failed = {} /\ due # {}
  <2>1. /\ R = {Observation(p) : p \in due}
        /\ work.sources.proof_registry.count = Cardinality(R)
    BY <1>0, <1>1, <1>5 DEF ToldOK, LoadedOK, Due
  <2>2. due \subseteq ProofRecord
    BY <1>0 DEF ArchitectInv
  <2>3. Cardinality(R) = Cardinality(due)
    BY <2>1, <2>2, ObservedAreDue
  <2>4. \A p \in due :
           /\ Observation(p) \in R /\ Observation(p).id = p.id
           /\ "proof_created" \in Observation(p).flags
           /\ "proof_failed" \in Observation(p).flags <=> p.status = "failed"
    BY <2>1, ObservationSays
  <2>5. Affected("proof_verification_failure", R) = {Observation(p) : p \in failed}
    <3>1. Affected("proof_verification_failure", R) =
            {r \in R : "proof_failed" \in r.flags}
      BY DEF Affected, Flagged, AnomalyOf
    <3> QED
      BY <1>5, <2>1, <2>4, <3>1
  <2>6. ASSUME failed # {}
        PROVE  \E a \in work.anomalies :
                  /\ a.type = "proof_verification_failure"
                  /\ a.affected = {p.id : p \in failed}
    <3>1. "proof_verification_failure" \in AnomalyType
      BY DEF AnomalyType, AnomalyOf
    <3>2. Affected("proof_verification_failure", R) # {}
      BY <2>5, <2>6
    <3>3. PICK a \in Anomalies(R) :
             /\ a.type = "proof_verification_failure"
             /\ a.affected = {r.id : r \in Affected("proof_verification_failure", R)}
      BY <3>1, <3>2, AnomalyFound
    <3>4. {r.id : r \in Affected("proof_verification_failure", R)} = {p.id : p \in failed}
      BY <1>5, <2>4, <2>5
    <3> QED
      BY <1>1, <3>3, <3>4
  <2>7. ASSUME work.health["proof"] = "healthy" PROVE failed = {} /\ due # {}
    <3>1. Health("proof", R) = "healthy"
      BY <1>2, <2>7 DEF HealthDomain
    <3>2. R # {} /\ \A r \in R : ~("proof_created" \in r.flags /\ "proof_failed" \in r.flags)
      BY <1>1, <3>1, HealthyProofs
    <3> QED
      BY <1>5, <2>1, <2>4, <3>2
  <2> QED
    BY <2>1, <2>3, <2>6, <2>7
<1> QED
  BY <1>3, <1>4, <1>5

\* A brief shows what it found, however the files change under it, for any
\* finite registry and fixtures.
THEOREM BriefsAreHonest == ASSUME EvidenceIsFinite
                           PROVE  ArchitectSpec => []BriefIsHonest
<1>1. ArchitectInit => ArchitectInv
  <2> SUFFICES ASSUME ArchitectInit PROVE ArchitectInv
    OBVIOUS
  <2>1. proofFile.proofs = {} /\ work.at = "none" /\ readFrom = {}
    BY DEF ArchitectInit, NoWork
  <2> QED
    BY <2>1 DEF ArchitectInv
<1> QED
  BY <1>1, ArchitectStep, ToldIsHonest, PTL DEF ArchitectSpec

-----------------------------------------------------------------------------
(* The feed: the least number, induction, and what rests on them.          *)

\* A set of naturals has a least member: the order is well founded.
LEMMA Least == ASSUME NEW S, S \subseteq Nat, S # {}
               PROVE  \E n \in S : \A m \in S : n <= m
<1>1. PICK R : R = OpToRel(<, Nat)
  OBVIOUS
<1>2. IsWellFoundedOn(R, Nat)
  BY <1>1, NatLessThanWellFounded
<1>3. PICK n \in S : \A m \in S : ~(<<m, n>> \in R)
  BY <1>2, WFMin
<1>4. ASSUME NEW m \in Nat, NEW k \in Nat, m < k PROVE <<m, k>> \in R
  BY <1>1, <1>4 DEF OpToRel
<1>5. \A m \in S : ~(m < n)
  BY <1>3, <1>4
<1>6. \A m \in S : m \in Nat /\ n \in Nat
  OBVIOUS
<1> QED
  BY <1>5, <1>6

\* So a set that holds 0 and with each number the next holds them all.
LEMMA Induct ==
    ASSUME NEW S, 0 \in S, \A n \in Nat : n \in S => n + 1 \in S
    PROVE  Nat \subseteq S
<1>1. SUFFICES ASSUME Nat \ S # {} PROVE FALSE
  OBVIOUS
<1>2. PICK n \in Nat \ S : \A m \in Nat \ S : n <= m
  BY <1>1, Least
<1>3. n # 0 /\ n - 1 \in Nat /\ ~(n <= n - 1)
  OBVIOUS
<1> QED
  BY <1>2, <1>3, n = (n - 1) + 1

\* And a bounded one has a greatest member.
LEMMA MaxOf ==
    ASSUME NEW S, S \subseteq Nat, S # {}, NEW b \in Nat, \A x \in S : x <= b
    PROVE  Max(S) \in S /\ \A x \in S : x <= Max(S)
<1>1. PICK u : /\ u \in {v \in Nat : \A x \in S : x <= v}
               /\ \A v \in {v \in Nat : \A x \in S : x <= v} : u <= v
  <2>1. b \in {v \in Nat : \A x \in S : x <= v}
    OBVIOUS
  <2>2. {v \in Nat : \A x \in S : x <= v} \subseteq Nat
    OBVIOUS
  <2> QED
    BY <2>1, <2>2, Least
<1>2. u \in S
  <2>1. SUFFICES ASSUME u \notin S PROVE FALSE
    OBVIOUS
  <2>2. u # 0
    <3>1. PICK x \in S : x \in Nat /\ x <= u
      BY <1>1
    <3> QED
      BY <2>1, <3>1
  <2>3. \A x \in S : x \in Nat /\ x <= u /\ x # u
    BY <1>1, <2>1
  <2>4. u - 1 \in Nat /\ \A x \in S : x <= u - 1
    BY <1>1, <2>2, <2>3
  <2> QED
    BY <1>1, <2>4
<1>3. \E m \in S : \A x \in S : m >= x
  BY <1>1, <1>2
<1> QED
  BY <1>3 DEF Max

-----------------------------------------------------------------------------
(* Sums.                                                                   *)

\* The partial sums of n values.
Summing(f, values, n) ==
    /\ f \in [0..n -> Nat] /\ f[0] = 0
    /\ \A i \in 1..n : f[i] = f[i - 1] + values[i]

LEMMA SumsExist ==
    ASSUME NEW values, NEW n \in Nat, \A i \in 1..n : values[i] \in Nat
    PROVE  \E f : Summing(f, values, n)
<1>1. PICK S : S = {m \in Nat : m <= n => \E f : Summing(f, values, m)}
  OBVIOUS
<1>2. 0 \in S
  <2>1. Summing([i \in 0..0 |-> 0], values, 0)
    BY DEF Summing
  <2> QED
    BY <1>1, <2>1
<1>3. ASSUME NEW m \in Nat, m \in S PROVE m + 1 \in S
  <2>1. SUFFICES ASSUME m + 1 <= n PROVE \E f : Summing(f, values, m + 1)
    BY <1>1
  <2>2. PICK f : Summing(f, values, m)
    BY <1>1, <1>3, <2>1
  <2>3. m + 1 \in 1..n /\ values[m + 1] \in Nat
    BY <2>1
  <2> DEFINE g == [i \in 0..(m + 1) |->
                      IF i = m + 1 THEN f[m] + values[m + 1] ELSE f[i]]
  <2>4. g \in [0..(m + 1) -> Nat] /\ g[0] = 0
    BY <2>2, <2>3 DEF Summing
  <2>5. ASSUME NEW i \in 1..(m + 1) PROVE g[i] = g[i - 1] + values[i]
    <3>1. CASE i = m + 1
      BY <2>2, <3>1 DEF Summing
    <3>2. CASE i # m + 1
      <4>1. i \in 1..m /\ i - 1 \in 0..(m + 1) /\ i - 1 # m + 1 /\ i \in 0..(m + 1)
        BY <2>5, <3>2
      <4> QED
        BY <2>2, <3>2, <4>1 DEF Summing
    <3> QED
      BY <3>1, <3>2
  <2> QED
    BY <2>4, <2>5 DEF Summing
<1>4. Nat \subseteq S
  BY <1>2, <1>3, Induct
<1> QED
  BY <1>1, <1>4

\* The sum is the last of the partial sums.
LEMMA SumIsLast ==
    ASSUME NEW window, NEW values, NEW n \in Nat, n = Len(window),
           \A i \in 1..n : values[i] \in Nat
    PROVE  \E f : Summing(f, values, n) /\ SumOf(window, values) = f[n]
<1> DEFINE Rec(g) == g = [m \in 0..n |-> IF m = 0 THEN 0 ELSE g[m - 1] + values[m]]
<1>1. PICK f : Summing(f, values, n)
  BY SumsExist
<1>2. Rec(f)
  <2>1. f = [m \in 0..n |-> f[m]]
    BY <1>1 DEF Summing
  <2>2. \A m \in 0..n : f[m] = IF m = 0 THEN 0 ELSE f[m - 1] + values[m]
    BY <1>1 DEF Summing
  <2> QED
    BY <2>1, <2>2
<1>3. PICK g : g = CHOOSE h : Rec(h)
  OBVIOUS
<1>4. Rec(g)
  BY <1>2, <1>3
<1>5. SumOf(window, values) = g[n]
  BY <1>3 DEF SumOf
<1>6. \A m \in 0..n : g[m] = IF m = 0 THEN 0 ELSE g[m - 1] + values[m]
  BY <1>4
<1>7. Summing(g, values, n)
  <2>1. PICK S : S = {m \in Nat : m <= n => g[m] \in Nat}
    OBVIOUS
  <2>2. 0 \in S
    BY <1>6, <2>1
  <2>3. ASSUME NEW m \in Nat, m \in S PROVE m + 1 \in S
    <3>1. SUFFICES ASSUME m + 1 <= n PROVE g[m + 1] \in Nat
      BY <2>1
    <3>2. g[m] \in Nat /\ values[m + 1] \in Nat
      BY <2>1, <2>3, <3>1
    <3>3. m + 1 \in 0..n /\ m + 1 # 0 /\ m + 1 - 1 = m
      BY <3>1
    <3>4. g[m + 1] = g[m + 1 - 1] + values[m + 1]
      BY <1>6, <3>3
    <3> QED
      BY <3>2, <3>3, <3>4
  <2>4. Nat \subseteq S
    BY <2>2, <2>3, Induct
  <2>5. \A m \in 0..n : g[m] \in Nat
    BY <2>1, <2>4
  <2>6. g = [m \in 0..n |-> g[m]]
    BY <1>4
  <2>7. g \in [0..n -> Nat]
    BY <2>5, <2>6
  <2>8. g[0] = 0 /\ \A i \in 1..n : g[i] = g[i - 1] + values[i]
    BY <1>6
  <2> QED
    BY <2>7, <2>8 DEF Summing
<1> QED
  BY <1>5, <1>7

\* A sum of larger values is no smaller, and one of noughts is nought.
LEMMA SumGrows ==
    ASSUME NEW window, NEW values, NEW others, NEW other, NEW n \in Nat,
           n = Len(window), n = Len(other),
           \A i \in 1..n : values[i] \in Nat /\ others[i] \in Nat
                             /\ values[i] <= others[i]
    PROVE  /\ SumOf(window, values) \in Nat /\ SumOf(other, others) \in Nat
           /\ SumOf(window, values) <= SumOf(other, others)
<1>1. PICK f : Summing(f, values, n) /\ SumOf(window, values) = f[n]
  BY SumIsLast
<1>2. PICK g : Summing(g, others, n) /\ SumOf(other, others) = g[n]
  BY SumIsLast
<1>3. PICK S : S = {m \in Nat : m <= n => f[m] <= g[m]}
  OBVIOUS
<1>4. 0 \in S
  BY <1>1, <1>2, <1>3 DEF Summing
<1>5. ASSUME NEW m \in Nat, m \in S PROVE m + 1 \in S
  <2>1. SUFFICES ASSUME m + 1 <= n PROVE f[m + 1] <= g[m + 1]
    BY <1>3
  <2>2. m + 1 \in 1..n /\ m + 1 - 1 = m /\ m \in 0..n /\ f[m] <= g[m]
    BY <1>3, <1>5, <2>1
  <2>3. f[m + 1] = f[m] + values[m + 1] /\ g[m + 1] = g[m] + others[m + 1]
    BY <1>1, <1>2, <2>2 DEF Summing
  <2>4. f[m] \in Nat /\ g[m] \in Nat
    BY <1>1, <1>2, <2>2 DEF Summing
  <2> QED
    BY <2>2, <2>3, <2>4
<1>6. Nat \subseteq S
  BY <1>4, <1>5, Induct
<1>7. f[n] <= g[n]
  BY <1>3, <1>6
<1>8. f[n] \in Nat /\ g[n] \in Nat
  BY <1>1, <1>2 DEF Summing
<1> QED
  BY <1>1, <1>2, <1>7, <1>8

LEMMA SumOfNoughts ==
    ASSUME NEW window, NEW values, NEW n \in Nat, n = Len(window),
           \A i \in 1..n : values[i] = 0
    PROVE  SumOf(window, values) = 0
<1>1. PICK f : Summing(f, values, n) /\ SumOf(window, values) = f[n]
  BY SumIsLast
<1>2. PICK S : S = {m \in Nat : m <= n => f[m] = 0}
  OBVIOUS
<1>3. 0 \in S
  BY <1>1, <1>2 DEF Summing
<1>4. ASSUME NEW m \in Nat, m \in S PROVE m + 1 \in S
  <2>1. SUFFICES ASSUME m + 1 <= n PROVE f[m + 1] = 0
    BY <1>2
  <2>2. m + 1 \in 1..n /\ m + 1 - 1 = m /\ f[m] = 0
    BY <1>2, <1>4, <2>1
  <2>3. f[m + 1] = f[m + 1 - 1] + values[m + 1] /\ values[m + 1] = 0
    BY <1>1, <2>2 DEF Summing
  <2> QED
    BY <2>2, <2>3
<1>5. Nat \subseteq S
  BY <1>3, <1>4, Induct
<1> QED
  BY <1>1, <1>2, <1>5

-----------------------------------------------------------------------------
(* Rounding.                                                               *)

\* A larger dividend has no smaller quotient.
LEMMA DivisionGrows ==
    ASSUME NEW d \in Nat \ {0}, NEW x \in Nat, NEW y \in Nat, x <= y
    PROVE  x \div d <= y \div d /\ x \div d \in Nat /\ y \div d \in Nat
<1> DEFINE p == x \div d
           q == y \div d
<1>1. p \in Nat /\ q \in Nat /\ d * p <= x /\ y < d * q + d
  OBVIOUS
<1>2. SUFFICES ASSUME p > q PROVE FALSE
  BY <1>1
<1>3. PICK k \in Nat : p = q + 1 + k
  <2>1. p - q - 1 \in Nat /\ p = q + 1 + (p - q - 1)
    BY <1>1, <1>2
  <2> QED
    BY <2>1
<1> HIDE DEF p, q
<1>4. d * p = d * q + d + d * k
  BY <1>1, <1>3
<1>5. d * k \in Nat /\ d * q \in Nat
  BY <1>1, <1>3
<1> QED
  BY <1>1, <1>4, <1>5

LEMMA RoundedGrows ==
    ASSUME NEW d \in Nat \ {0}, NEW x \in Nat, NEW y \in Nat, x <= y
    PROVE  Rounded(x, d) <= Rounded(y, d) /\ Rounded(x, d) \in Nat /\ Rounded(y, d) \in Nat
<1>1. 2 * d \in Nat \ {0} /\ 2 * x + d \in Nat /\ 2 * y + d \in Nat
      /\ 2 * x + d <= 2 * y + d
  OBVIOUS
<1> QED
  BY <1>1, DivisionGrows DEF Rounded

LEMMA RoundedNatural ==
    ASSUME NEW d \in Nat \ {0}, NEW x \in Nat PROVE Rounded(x, d) \in Nat
<1>1. 2 * d \in Nat \ {0} /\ 2 * x + d \in Nat
  OBVIOUS
<1> QED
  BY <1>1 DEF Rounded

LEMMA RoundedNought ==
    ASSUME NEW d \in Nat \ {0} PROVE Rounded(0, d) = 0
<1>1. PICK q : q = d \div (2 * d)
  OBVIOUS
<1>2. 2 * d \in Nat \ {0}
  OBVIOUS
<1>3. q \in Nat /\ (2 * d) * q <= d
  BY <1>1, <1>2
<1>4. q = 0
  <2>1. SUFFICES ASSUME NEW k \in Nat, q = k + 1 PROVE FALSE
    <3>1. q # 0 => q - 1 \in Nat /\ q = (q - 1) + 1
      BY <1>3
    <3> QED
      BY <2>1, <3>1
  <2>2. (2 * d) * q = 2 * (d * k) + 2 * d /\ d * k \in Nat
    BY <2>1
  <2> QED
    BY <1>3, <2>2
<1>5. 2 * 0 + d = d
  OBVIOUS
<1> QED
  BY <1>1, <1>4, <1>5 DEF Rounded

LEMMA TimesCancel ==
    ASSUME NEW d \in Nat \ {0}, NEW a \in Nat, NEW b \in Nat, d * a < d * b
    PROVE  a < b
<1>1. SUFFICES ASSUME NEW k \in Nat, a = b + k PROVE FALSE
  <2>1. a >= b => a - b \in Nat /\ a = b + (a - b)
    OBVIOUS
  <2> QED
    BY <1>1, <2>1
<1>2. d * a = d * b + d * k /\ d * k \in Nat /\ d * b \in Nat
  BY <1>1
<1> QED
  BY <1>2

\* A quotient of a sum is the sum of the quotients or one more.
LEMMA QuotientOfSum ==
    ASSUME NEW d \in Nat \ {0}, NEW x \in Nat, NEW y \in Nat
    PROVE  /\ x \div d + y \div d <= (x + y) \div d
           /\ (x + y) \div d <= x \div d + y \div d + 1
           /\ (x + y) \div d \in Nat /\ x \div d \in Nat /\ y \div d \in Nat
<1>1. PICK p, q, z : p = x \div d /\ q = y \div d /\ z = (x + y) \div d
  OBVIOUS
<1>2. /\ p \in Nat /\ q \in Nat /\ z \in Nat
      /\ d * p <= x /\ x < d * p + d
      /\ d * q <= y /\ y < d * q + d
      /\ d * z <= x + y /\ x + y < d * z + d
  BY <1>1
<1>3. /\ d * (p + q) = d * p + d * q /\ d * (z + 1) = d * z + d
      /\ d * (p + q + 2) = d * p + d * q + 2 * d
      /\ d * p \in Nat /\ d * q \in Nat /\ d * z \in Nat
  BY <1>2
<1>4. p + q < z + 1
  <2>1. d * (p + q) < d * (z + 1) /\ p + q \in Nat /\ z + 1 \in Nat
    BY <1>2, <1>3
  <2> QED
    BY <2>1, TimesCancel
<1>5. z < p + q + 2
  <2>1. d * z < d * (p + q + 2) /\ p + q + 2 \in Nat
    BY <1>2, <1>3
  <2> QED
    BY <1>2, <2>1, TimesCancel
<1> QED
  BY <1>1, <1>2, <1>4, <1>5

\* One record more is the same share of a window everywhere, up to one: in
\* a window of up to 333 records three thousandths at least.
LEMMA ShareOfOne ==
    ASSUME NEW l \in 1..333, NEW n \in Nat, NEW m \in Nat
    PROVE  48 * Rounded(1000 * (n + 1), l) + 36 * Rounded(1000 * m, l)
             >= 48 * Rounded(1000 * n, l) + 36 * Rounded(1000 * (m + 1), l)
<1>1. PICK d, k, x, y : /\ d = 2 * l /\ k = 2000 \div d
                        /\ x = 2 * (1000 * n) + l /\ y = 2 * (1000 * m) + l
  OBVIOUS
<1>2. /\ d \in Nat \ {0} /\ d <= 666 /\ k \in Nat /\ x \in Nat /\ y \in Nat
      /\ 2 * (1000 * (n + 1)) + l = x + 2000
      /\ 2 * (1000 * (m + 1)) + l = y + 2000
  BY <1>1
<1>3. k >= 3
  <2>1. 2000 < d * k + d
    BY <1>1, <1>2
  <2>2. SUFFICES ASSUME k \in {0, 1, 2} PROVE FALSE
    BY <1>2
  <2> QED
    BY <1>2, <2>1, <2>2
<1>4. /\ x \div d + k <= (x + 2000) \div d
      /\ (x + 2000) \div d \in Nat /\ x \div d \in Nat
  BY <1>1, <1>2, QuotientOfSum
<1>5. /\ (y + 2000) \div d <= y \div d + k + 1
      /\ (y + 2000) \div d \in Nat /\ y \div d \in Nat
  BY <1>1, <1>2, QuotientOfSum
<1>6. /\ Rounded(1000 * n, l) = x \div d
      /\ Rounded(1000 * m, l) = y \div d
      /\ Rounded(1000 * (n + 1), l) = (x + 2000) \div d
      /\ Rounded(1000 * (m + 1), l) = (y + 2000) \div d
  BY <1>1, <1>2 DEF Rounded
<1> QED
  BY <1>2, <1>3, <1>4, <1>5, <1>6

-----------------------------------------------------------------------------
(* Records and windows of them.                                            *)

LEMMA MaxOfTwo ==
    ASSUME NEW a \in Int, NEW b \in Int
    PROVE  Max({a, b}) \in {a, b} /\ Max({a, b}) >= a /\ Max({a, b}) >= b
<1>1. \E m \in {a, b} : \A x \in {a, b} : m >= x
  OBVIOUS
<1> QED
  BY <1>1 DEF Max

LEMMA WeightsRank ==
    ASSUME NEW status
    PROVE  /\ StatusWeight(status) \in 0..1000
           /\ Bucket(status) \in {"allow", "constrain", "deny"}
           /\ Bucket(status) = "allow" => StatusWeight(status) = 0
           /\ Bucket(status) = "constrain" => StatusWeight(status) \in 500..660
           /\ Bucket(status) = "deny" => StatusWeight(status) \in 820..1000
<1>1. CASE status \in {"ALLOW", "CONSTRAIN", "REDUCE", "DELAY", "RETRY_DELAYED",
                       "RETRY_BLOCKED", "PRESSURE_ESCALATED", "DENY", "VETO", "HALT"}
  BY <1>1 DEF StatusWeight, Bucket, Allowing, Denying
<1>2. CASE status \notin {"ALLOW", "CONSTRAIN", "REDUCE", "DELAY", "RETRY_DELAYED",
                          "RETRY_BLOCKED", "PRESSURE_ESCALATED", "DENY", "VETO", "HALT"}
  BY <1>2 DEF StatusWeight, Bucket, Allowing, Denying
<1> QED
  BY <1>1, <1>2

LEMMA StatesRank ==
    ASSUME NEW state
    PROVE  /\ StateWeight(state) \in 0..1000
           /\ state \in Strained <=> StateWeight(state) >= 700
           /\ StateWeight(state) = 0 => state = "NORMAL"
<1>1. CASE state \in {"NORMAL", "CONSTRAINED_OPERATION", "RECOVERY_REVIEW_REQUIRED",
                      "PRESSURE_ELEVATED", "TELEMETRY_DEGRADED", "HALT_RECOMMENDED",
                      "HALT_ACTIVE"}
  BY <1>1 DEF StateWeight, Strained
<1>2. CASE state \notin {"NORMAL", "CONSTRAINED_OPERATION", "RECOVERY_REVIEW_REQUIRED",
                      "PRESSURE_ELEVATED", "TELEMETRY_DEGRADED", "HALT_RECOMMENDED",
                      "HALT_ACTIVE"}
  BY <1>2 DEF StateWeight, Strained
<1> QED
  BY <1>1, <1>2

Record == {Condensed(o) : o \in Outcome}

\* What the properties need of a record: nothing weighs in it that does not
\* constrain, too.
LEMMA RecordFacts ==
    ASSUME NEW r \in Record
    PROVE  /\ r.constraint \in Nat /\ r.divergence \in Nat
           /\ r.admissibility = StatusWeight(r.status)
           /\ r.loop \in 0..1000 /\ r.mismatch \in BOOLEAN
           /\ r.constraint = 0 =>
                 /\ Bucket(r.status) = "allow" /\ r.state = "NORMAL"
                 /\ r.loop = 0 /\ r.divergence = 0 /\ r.posture = "QUIET"
<1>1. PICK o \in Outcome : r = Condensed(o)
  BY DEF Record
<1>2. PICK a, b, c : a = StatusWeight(o.status) /\ b = StateWeight(o.state) /\ c = o.loop
  OBVIOUS
<1>3. a \in 0..1000 /\ b \in 0..1000 /\ c \in 0..1000
      /\ o.telemetry \in BOOLEAN /\ o.temporal \in BOOLEAN /\ o.disagreement \in BOOLEAN
  BY <1>2, WeightsRank, StatesRank, TelemetryConstants
<1>4. PICK m : m = Max({a, b, c})
  OBVIOUS
<1>5. m \in Nat /\ a <= m /\ b <= m /\ c <= m
  <2>1. {a, b, c} \subseteq Nat /\ {a, b, c} # {} /\ \A x \in {a, b, c} : x <= 1000
    BY <1>3
  <2> QED
    BY <1>4, <2>1, MaxOf
<1>6. /\ r.status = o.status /\ r.state = o.state /\ r.loop = c
      /\ r.admissibility = a /\ r.mismatch = (o.temporal \/ o.disagreement)
      /\ r.posture = Posture(o)
      /\ r.divergence = Rounded(65 * a + 25 * b + 10 * c, 100)
      /\ r.constraint = UpToOne(m + If(o.telemetry, 200) + If(o.temporal, 150)
                                  + If(o.disagreement, 150))
  BY <1>1, <1>2, <1>4 DEF Condensed
<1>7. r.constraint \in Nat /\ (r.constraint = 0 => m = 0)
  BY <1>5, <1>6 DEF UpToOne, If
<1>8. r.divergence \in Nat
  <2>1. 65 * a + 25 * b + 10 * c \in Nat /\ 100 \in Nat \ {0}
    BY <1>3
  <2> QED
    BY <1>6, <2>1, RoundedNatural
<1>9. ASSUME r.constraint = 0
      PROVE  /\ Bucket(r.status) = "allow" /\ r.state = "NORMAL"
             /\ r.loop = 0 /\ r.divergence = 0 /\ r.posture = "QUIET"
  <2>1. a = 0 /\ b = 0 /\ c = 0
    <3>1. m = 0
      BY <1>7, <1>9
    <3>2. a \in Nat /\ b \in Nat /\ c \in Nat
      BY <1>3
    <3>3. a <= 0 /\ b <= 0 /\ c <= 0
      BY <1>5, <3>1
    <3> QED
      BY <3>2, <3>3
  <2>2. Bucket(o.status) = "allow" /\ o.state = "NORMAL"
    <3>1. StatusWeight(o.status) = 0 /\ StateWeight(o.state) = 0
      BY <1>2, <2>1
    <3>2. Bucket(o.status) = "allow"
      BY <3>1, WeightsRank
    <3>3. o.state = "NORMAL"
      BY <3>1, StatesRank
    <3> QED
      BY <3>2, <3>3
  <2>3. o.status = "ALLOW"
    BY <2>2 DEF Bucket, Allowing
  <2>4. Posture(o) = "QUIET"
    BY <2>2, <2>3 DEF Posture, Constraining
  <2>5. r.divergence = 0
    <3>1. 65 * a + 25 * b + 10 * c = 0
      BY <2>1
    <3> QED
      BY <1>6, <3>1, RoundedNought
  <2> QED
    BY <1>6, <2>1, <2>2, <2>4, <2>5
<1> QED
  BY <1>2, <1>3, <1>6, <1>7, <1>8, <1>9

LEMMA RateIs ==
    ASSUME NEW window, Len(window) \in Nat \ {0}, NEW n \in Nat
    PROVE  /\ Rate(n, window) = Rounded(1000 * n, Len(window))
           /\ Rate(n, window) \in Nat
<1> SUFFICES ASSUME NEW l \in Nat \ {0}, l = Len(window)
             PROVE  Rate(n, window) = Rounded(1000 * n, l) /\ Rate(n, window) \in Nat
  OBVIOUS
<1>1. Max({1, l}) = l
  <2>1. l \in Int /\ 1 \in Int /\ l >= 1
    OBVIOUS
  <2>2. Max({1, l}) \in {1, l} /\ Max({1, l}) >= l
    BY <2>1, MaxOfTwo
  <2> QED
    BY <2>1, <2>2
<1>2. Rounded(1000 * n, l) \in Nat
  <2>1. SUFFICES ASSUME NEW x \in Nat, x = 1000 * n PROVE Rounded(x, l) \in Nat
    OBVIOUS
  <2> QED
    BY RoundedNatural
<1> QED
  BY <1>1, <1>2 DEF Rate

LEMMA RateGrows ==
    ASSUME NEW window, NEW other, Len(window) \in Nat \ {0}, Len(other) = Len(window),
           NEW n \in Nat, NEW m \in Nat, n <= m
    PROVE  Rate(n, window) <= Rate(m, other)
<1>1. PICK a, b, l : a = Rate(n, window) /\ b = Rate(m, other) /\ l = Len(window)
  OBVIOUS
<1>2. a = Rounded(1000 * n, l) /\ b = Rounded(1000 * m, l) /\ l \in Nat \ {0}
  <2>1. a = Rounded(1000 * n, Len(window))
    BY <1>1, RateIs
  <2>2. b = Rounded(1000 * m, Len(other))
    BY <1>1, RateIs
  <2> QED
    BY <1>1, <2>1, <2>2
<1>3. Rounded(1000 * n, l) <= Rounded(1000 * m, l)
  <2>1. 1000 * n \in Nat /\ 1000 * m \in Nat /\ 1000 * n <= 1000 * m
    OBVIOUS
  <2> QED
    BY <1>2, <2>1, RoundedGrows
<1>4. a <= b
  BY <1>2, <1>3
<1> QED
  BY <1>1, <1>4

LEMMA ScoreGrows ==
    ASSUME NEW window, NEW other, NEW l \in Nat \ {0}, l = Len(window), l = Len(other),
           NEW a \in Nat, NEW b \in Nat, a <= b, NEW x \in Nat, NEW y \in Nat, x <= y
    PROVE  /\ ScoreOf(a, x, window) <= ScoreOf(b, y, other)
           /\ ScoreOf(a, x, window) \in Nat
<1>1. a * l <= b * l /\ a * l \in Nat /\ b * l \in Nat
  <2>1. PICK k \in Nat : b = a + k
    <3>1. b - a \in Nat /\ b = a + (b - a)
      OBVIOUS
    <3> QED
      BY <3>1
  <2>2. b * l = a * l + k * l /\ k * l \in Nat /\ a * l \in Nat /\ b * l \in Nat
    BY <2>1
  <2> QED
    BY <2>2
<1>2. a * l + x <= b * l + y /\ a * l + x \in Nat /\ b * l + y \in Nat
      /\ 100 * l \in Nat \ {0}
  BY <1>1
<1>3. PICK p, q : p = Rounded(a * l + x, 100 * l) /\ q = Rounded(b * l + y, 100 * l)
  OBVIOUS
<1>4. p <= q /\ p \in Nat /\ q \in Nat
  BY <1>2, <1>3, RoundedGrows
<1> QED
  BY <1>3, <1>4 DEF ScoreOf, UpToOne

-----------------------------------------------------------------------------
(* One record of a window weighs more.                                     *)

Weightier(s, r) ==
    /\ StatusWeight(s.status) >= StatusWeight(r.status)
    /\ StateWeight(s.state) >= StateWeight(r.state)
    /\ s.loop >= r.loop /\ (r.mismatch => s.mismatch)
    /\ s.constraint >= r.constraint

Worsened(w, v, i) ==
    /\ w \in Seq(Record) /\ v \in Seq(Record)
    /\ Len(w) \in 1..333 /\ Len(v) = Len(w) /\ i \in 1..Len(w)
    /\ \A j \in 1..Len(w) : j # i => v[j] = w[j]
    /\ Weightier(v[i], w[i])

LEMMA BucketsRank ==
    ASSUME NEW s, NEW r, StatusWeight(s) >= StatusWeight(r)
    PROVE  /\ Bucket(r) = "deny" => Bucket(s) = "deny"
           /\ Bucket(s) = "allow" => Bucket(r) = "allow"
<1>1. PICK a, b : a = StatusWeight(r) /\ b = StatusWeight(s)
  OBVIOUS
<1>2. /\ a \in 0..1000 /\ Bucket(r) \in {"allow", "constrain", "deny"}
      /\ Bucket(r) = "allow" => a = 0
      /\ Bucket(r) = "constrain" => a \in 500..660
      /\ Bucket(r) = "deny" => a \in 820..1000
  BY <1>1, WeightsRank
<1>3. /\ b \in 0..1000 /\ Bucket(s) \in {"allow", "constrain", "deny"}
      /\ Bucket(s) = "allow" => b = 0
      /\ Bucket(s) = "constrain" => b \in 500..660
      /\ Bucket(s) = "deny" => b \in 820..1000
  BY <1>1, WeightsRank
<1> QED
  BY <1>1, <1>2, <1>3

LEMMA WindowFacts ==
    ASSUME NEW S, NEW w \in Seq(S), NEW l \in Nat, l = Len(w)
    PROVE  DOMAIN w = 1..l /\ \A j \in 1..l : w[j] \in S
<1>1. DOMAIN w = 1..l
  BY LenProperties
<1>2. \A j \in 1..l : w[j] \in S
  <2>1. \A j \in 1..Len(w) : w[j] \in S
    BY ElementOfSeq
  <2> QED
    BY <2>1
<1> QED
  BY <1>1, <1>2

LEMMA WorsenedFacts ==
    ASSUME NEW w, NEW v, NEW i, Worsened(w, v, i)
    PROVE  /\ Len(w) \in 1..333 /\ Len(w) \in Nat \ {0} /\ Len(v) = Len(w)
           /\ Len(v) \in Nat \ {0} /\ i \in 1..Len(w)
           /\ DOMAIN w = 1..Len(w) /\ DOMAIN v = 1..Len(w)
           /\ \A j \in 1..Len(w) : w[j] \in Record /\ v[j] \in Record
           /\ \A j \in 1..Len(w) : j # i => v[j] = w[j]
           /\ Weightier(v[i], w[i])
<1>1. /\ Len(w) \in 1..333 /\ Len(v) = Len(w) /\ i \in 1..Len(w)
      /\ w \in Seq(Record) /\ v \in Seq(Record)
      /\ \A j \in 1..Len(w) : j # i => v[j] = w[j]
      /\ Weightier(v[i], w[i])
  BY DEF Worsened
<1>2. PICK l \in 1..333 : l = Len(w)
  BY <1>1
<1>3. l \in Nat \ {0}
  OBVIOUS
<1>4. DOMAIN w = 1..l /\ \A j \in 1..l : w[j] \in Record
  BY <1>1, <1>2, <1>3, WindowFacts
<1>5. DOMAIN v = 1..l /\ \A j \in 1..l : v[j] \in Record
  <2>1. l = Len(v)
    BY <1>1, <1>2
  <2> QED
    BY <1>1, <1>3, <2>1, WindowFacts
<1> QED
  BY <1>1, <1>2, <1>3, <1>4, <1>5

LEMMA BucketCounts ==
    ASSUME NEW w, NEW v, NEW i, Worsened(w, v, i), NEW b
    PROVE  /\ InBucket(w, b) \in Nat /\ InBucket(v, b) \in Nat
           /\ InBucket(w, b) <= Len(w) /\ InBucket(v, b) <= Len(w)
           /\ (Bucket(w[i].status) = b <=> Bucket(v[i].status) = b) =>
                 InBucket(v, b) = InBucket(w, b)
           /\ Bucket(w[i].status) = b /\ Bucket(v[i].status) # b =>
                 InBucket(w, b) = InBucket(v, b) + 1
           /\ Bucket(w[i].status) # b /\ Bucket(v[i].status) = b =>
                 InBucket(v, b) = InBucket(w, b) + 1
<1>0. PICK l \in Nat \ {0} : l = Len(w)
  BY WorsenedFacts
<1>w. /\ DOMAIN w = 1..l /\ DOMAIN v = 1..l /\ i \in 1..l
      /\ \A j \in 1..l : j # i => v[j] = w[j]
  BY <1>0, WorsenedFacts
<1>1. PICK A, B : /\ A = {j \in 1..l : Bucket(w[j].status) = b}
                  /\ B = {j \in 1..l : Bucket(v[j].status) = b}
  OBVIOUS
<1>3. InBucket(w, b) = Cardinality(A) /\ InBucket(v, b) = Cardinality(B)
  BY <1>1, <1>w DEF InBucket
<1>4. A \in SUBSET (1..l) /\ B \in SUBSET (1..l) /\ A \ {i} = B \ {i}
  BY <1>1, <1>w
<1>5. /\ IsFiniteSet(A) /\ IsFiniteSet(B)
      /\ Cardinality(A) \in Nat /\ Cardinality(B) \in Nat
      /\ Cardinality(A) <= l /\ Cardinality(B) <= l
  <2>1. IsFiniteSet(1..l) /\ Cardinality(1..l) = l
    <3>1. 1 \in Int /\ l \in Int /\ l >= 1 /\ l - 1 + 1 = l
      OBVIOUS
    <3> QED
      BY <3>1, FS_Interval
  <2>u. PICK U : U = 1..l
    OBVIOUS
  <2>v. IsFiniteSet(U) /\ Cardinality(U) = l /\ A \in SUBSET U /\ B \in SUBSET U
    BY <1>4, <2>1, <2>u
  <2>2. IsFiniteSet(A) /\ Cardinality(A) <= l
    BY <2>v, FS_Subset
  <2>3. IsFiniteSet(B) /\ Cardinality(B) <= l
    BY <2>v, FS_Subset
  <2> QED
    BY <2>2, <2>3, FS_CardinalityType
<1>6. /\ i \in A <=> Bucket(w[i].status) = b
      /\ i \in B <=> Bucket(v[i].status) = b
  BY <1>1, <1>w
<1>7. ASSUME i \in A <=> i \in B PROVE Cardinality(A) = Cardinality(B)
  <2>1. A = B
    BY <1>4, <1>7
  <2> QED
    BY <2>1
<1>8. ASSUME i \in A, i \notin B PROVE Cardinality(A) = Cardinality(B) + 1
  <2>1. A = B \cup {i}
    BY <1>4, <1>8
  <2> QED
    BY <1>5, <1>8, <2>1, FS_AddElement
<1>9. ASSUME i \notin A, i \in B PROVE Cardinality(B) = Cardinality(A) + 1
  <2>1. B = A \cup {i}
    BY <1>4, <1>9
  <2> QED
    BY <1>5, <1>9, <2>1, FS_AddElement
<1> QED
  BY <1>0, <1>3, <1>5, <1>6, <1>7, <1>8, <1>9

\* A constraint that becomes a denial is a larger share of the score.
LEMMA SharesGrow ==
    ASSUME NEW w, NEW v, NEW i, Worsened(w, v, i)
    PROVE  36 * Rate(InBucket(w, "constrain"), w) + 48 * Rate(InBucket(w, "deny"), w)
             <= 36 * Rate(InBucket(v, "constrain"), v) + 48 * Rate(InBucket(v, "deny"), v)
<1>1. PICK l, c, d, e, f :
          /\ l = Len(w)
          /\ c = InBucket(w, "constrain") /\ d = InBucket(w, "deny")
          /\ e = InBucket(v, "constrain") /\ f = InBucket(v, "deny")
  OBVIOUS
<1>2. /\ l \in 1..333 /\ Len(w) \in Nat \ {0} /\ Len(v) = Len(w)
      /\ Len(v) \in Nat \ {0}
      /\ StatusWeight(v[i].status) >= StatusWeight(w[i].status)
  <2>1. /\ Len(w) \in 1..333 /\ Len(w) \in Nat \ {0} /\ Len(v) = Len(w)
        /\ Len(v) \in Nat \ {0} /\ Weightier(v[i], w[i])
    BY WorsenedFacts
  <2>2. StatusWeight(v[i].status) >= StatusWeight(w[i].status)
    BY <2>1 DEF Weightier
  <2>3. l \in 1..333
    BY <1>1, <2>1
  <2> QED
    BY <2>1, <2>2, <2>3
<1>3. c \in Nat /\ d \in Nat /\ e \in Nat /\ f \in Nat
  BY <1>1, BucketCounts
<1>4. PICK p, q, s, t : /\ p = Rate(c, w) /\ q = Rate(d, w)
                        /\ s = Rate(e, v) /\ t = Rate(f, v)
  OBVIOUS
<1>5. p \in Nat /\ q \in Nat /\ s \in Nat /\ t \in Nat
  <2>1. p \in Nat /\ q \in Nat
    BY <1>2, <1>3, <1>4, RateIs
  <2>2. Len(v) \in Nat \ {0}
    BY <1>2
  <2> QED
    BY <1>3, <1>4, <2>1, <2>2, RateIs
<1>6. /\ Bucket(w[i].status) = "deny" => Bucket(v[i].status) = "deny"
      /\ Bucket(v[i].status) = "allow" => Bucket(w[i].status) = "allow"
      /\ Bucket(w[i].status) \in {"allow", "constrain", "deny"}
      /\ Bucket(v[i].status) \in {"allow", "constrain", "deny"}
  BY <1>2, BucketsRank, WeightsRank
<1>7. CASE Bucket(w[i].status) = "constrain" /\ Bucket(v[i].status) = "deny"
  <2>1. c = e + 1 /\ f = d + 1
    BY <1>1, <1>7, BucketCounts
  <2>2. /\ p = Rounded(1000 * (e + 1), l) /\ q = Rounded(1000 * d, l)
        /\ s = Rounded(1000 * e, l) /\ t = Rounded(1000 * (d + 1), l)
    <3>1. /\ p = Rounded(1000 * c, Len(w)) /\ q = Rounded(1000 * d, Len(w))
      BY <1>2, <1>3, <1>4, RateIs
    <3>2. Len(v) \in Nat \ {0}
      BY <1>2
    <3>3. /\ s = Rounded(1000 * e, Len(v)) /\ t = Rounded(1000 * f, Len(v))
      BY <1>3, <1>4, <3>2, RateIs
    <3>4. Len(w) = l /\ Len(v) = l
      BY <1>1, <1>2
    <3>5. p = Rounded(1000 * (e + 1), l) /\ q = Rounded(1000 * d, l)
      BY <2>1, <3>1, <3>4
    <3>6. s = Rounded(1000 * e, l) /\ t = Rounded(1000 * (d + 1), l)
      BY <2>1, <3>3, <3>4
    <3> QED
      BY <3>5, <3>6
  <2>3. 48 * t + 36 * s >= 48 * q + 36 * p
    <3>1. l \in 1..333 /\ d \in Nat /\ e \in Nat
      BY <1>2, <1>3
    <3>2. 48 * Rounded(1000 * (d + 1), l) + 36 * Rounded(1000 * e, l)
            >= 48 * Rounded(1000 * d, l) + 36 * Rounded(1000 * (e + 1), l)
      BY <3>1, ShareOfOne
    <3> QED
      BY <2>2, <3>2
  <2>4. 36 * p + 48 * q <= 36 * s + 48 * t
    BY <1>5, <2>3
  <2> QED
    BY <1>1, <1>4, <2>4
<1>8. CASE ~(Bucket(w[i].status) = "constrain" /\ Bucket(v[i].status) = "deny")
  <2>1. d <= f
    <3>1. Bucket(v[i].status) = "deny" \/ ~(Bucket(w[i].status) = "deny")
      BY <1>6
    <3>2. f = d \/ f = d + 1
      BY <1>1, <3>1, BucketCounts
    <3> QED
      BY <1>3, <3>2
  <2>2. c <= e
    <3>1. Bucket(v[i].status) = "constrain" \/ ~(Bucket(w[i].status) = "constrain")
      BY <1>6, <1>8
    <3>2. e = c \/ e = c + 1
      BY <1>1, <3>1, BucketCounts
    <3> QED
      BY <1>3, <3>2
  <2>3. p <= s
    BY <1>2, <1>3, <1>4, <2>2, RateGrows
  <2>4. q <= t
    BY <1>2, <1>3, <1>4, <2>1, RateGrows
  <2>5. 36 * p + 48 * q <= 36 * s + 48 * t
    BY <1>5, <2>3, <2>4
  <2> QED
    BY <1>1, <1>4, <2>5
<1> QED
  BY <1>7, <1>8

-----------------------------------------------------------------------------
(* The longest run of denials.                                             *)

Denials(recent) ==
    {n \in 0..Len(recent) : \E before \in 0..(Len(recent) - n) :
        \A i \in (before + 1)..(before + n) :
            Bucket(recent[i].status) = "deny"}

LEMMA RunsGrow ==
    ASSUME NEW r, NEW q, NEW c \in Nat \ {0}, Len(r) = c, Len(q) = c,
           \A j \in 1..c : Bucket(r[j].status) = "deny" => Bucket(q[j].status) = "deny"
    PROVE  /\ Rate(Max(Denials(r)), r) <= Rate(Max(Denials(q)), q)
           /\ Rate(Max(Denials(r)), r) \in Nat
<1>1. PICK A, B : A = Denials(r) /\ B = Denials(q)
  OBVIOUS
<1>2. A \subseteq B
  <2>1. SUFFICES ASSUME NEW n \in 0..c, NEW before \in 0..(c - n),
                        \A j \in (before + 1)..(before + n) : Bucket(r[j].status) = "deny"
                 PROVE  \A j \in (before + 1)..(before + n) : Bucket(q[j].status) = "deny"
    BY <1>1 DEF Denials
  <2>2. SUFFICES ASSUME NEW j \in (before + 1)..(before + n)
                 PROVE  Bucket(q[j].status) = "deny"
    OBVIOUS
  <2>3. j \in 1..c
    OBVIOUS
  <2> QED
    BY <2>1, <2>3
<1>3. 0 \in A
  <2>1. 0 \in 0..c /\ 0 \in 0..(c - 0) /\ (0 + 1)..(0 + 0) = {}
    OBVIOUS
  <2> QED
    BY <1>1, <2>1 DEF Denials
<1>4. A \subseteq 0..c /\ B \subseteq 0..c
  BY <1>1 DEF Denials
<1>5. Max(A) \in A
  <2>1. A \subseteq Nat /\ A # {} /\ c \in Nat /\ \A x \in A : x <= c
    BY <1>3, <1>4
  <2> QED
    BY <2>1, MaxOf
<1>6. Max(B) \in B /\ \A x \in B : x <= Max(B)
  <2>1. B \subseteq Nat /\ B # {} /\ c \in Nat /\ \A x \in B : x <= c
    BY <1>2, <1>3, <1>4
  <2> QED
    BY <2>1, MaxOf
<1>7. Max(A) \in Nat /\ Max(B) \in Nat /\ Max(A) <= Max(B)
  <2>1. Max(A) \in B /\ Max(A) \in 0..c /\ Max(B) \in 0..c
    BY <1>2, <1>4, <1>5, <1>6
  <2> QED
    BY <1>6, <2>1
<1>8. Len(r) \in Nat \ {0} /\ Len(q) = Len(r)
  OBVIOUS
<1>9. Rate(Max(A), r) <= Rate(Max(B), q)
  BY <1>7, <1>8, RateGrows
<1>10. Rate(Max(A), r) \in Nat
  BY <1>7, <1>8, RateIs
<1> QED
  BY <1>1, <1>9, <1>10

\* The last records of a window.
LEMMA RecentOf ==
    ASSUME NEW S, NEW w \in Seq(S), NEW k \in 1..Len(w)
    PROVE  /\ SubSeq(w, k, Len(w)) \in Seq(S)
           /\ Len(SubSeq(w, k, Len(w))) = Len(w) - k + 1
           /\ \A j \in 1..(Len(w) - k + 1) : SubSeq(w, k, Len(w))[j] = w[k + j - 1]
<1>1. PICK l \in Nat : l = Len(w)
  BY LenProperties
<1>2. \A j \in k..l : w[j] \in S
  <2>1. \A j \in 1..l : w[j] \in S
    BY <1>1, WindowFacts
  <2> QED
    BY <1>1, <2>1
<1>3. k \in Int /\ l \in Int /\ k <= l
  BY <1>1
<1>4. /\ SubSeq(w, k, l) \in Seq(S) /\ Len(SubSeq(w, k, l)) = l - k + 1
      /\ \A j \in 1..(l - k + 1) : SubSeq(w, k, l)[j] = w[k + j - 1]
  BY <1>2, <1>3, SubSeqProperties
<1> QED
  BY <1>1, <1>4

LEMMA ClusterIs ==
    ASSUME NEW w, NEW k, k = Max({1, Len(w) - 4}), NEW r, r = SubSeq(w, k, Len(w))
    PROVE  DenyCluster(w) = Rate(Max(Denials(r)), r)
BY DEF DenyCluster, Denials

LEMMA ClusterGrows ==
    ASSUME NEW w, NEW v, NEW i, Worsened(w, v, i)
    PROVE  DenyCluster(w) <= DenyCluster(v) /\ DenyCluster(w) \in Nat
<1>1. PICK l \in Nat \ {0} : l = Len(w) /\ l = Len(v)
  BY WorsenedFacts
<1>2. w \in Seq(Record) /\ v \in Seq(Record)
  BY DEF Worsened
<1>3. PICK k : k = Max({1, l - 4})
  OBVIOUS
<1>4. PICK r, q : r = SubSeq(w, k, l) /\ q = SubSeq(v, k, l)
  OBVIOUS
<1>5. PICK c : c = l - k + 1
  OBVIOUS
<1>k. k \in 1..l /\ k \in 1..Len(w) /\ k \in 1..Len(v)
  <2>1. 1 \in Int /\ l - 4 \in Int
    OBVIOUS
  <2>2. k \in {1, l - 4} /\ k >= 1
    BY <1>3, <2>1, MaxOfTwo
  <2>3. k \in 1..l
    BY <2>2
  <2> QED
    BY <1>1, <2>3
<1>6. /\ c \in Nat \ {0} /\ Len(r) = c
      /\ \A j \in 1..c : r[j] = w[k + j - 1] /\ k + j - 1 \in 1..l
  <2>1. c \in Nat \ {0} /\ \A j \in 1..c : k + j - 1 \in 1..l
    BY <1>5, <1>k
  <2>2. /\ Len(SubSeq(w, k, Len(w))) = Len(w) - k + 1
        /\ \A j \in 1..(Len(w) - k + 1) : SubSeq(w, k, Len(w))[j] = w[k + j - 1]
    BY <1>2, <1>k, RecentOf
  <2>3. SubSeq(w, k, Len(w)) = r /\ Len(w) - k + 1 = c
    BY <1>1, <1>4, <1>5
  <2> QED
    BY <2>1, <2>2, <2>3
<1>7. Len(q) = c /\ \A j \in 1..c : q[j] = v[k + j - 1]
  <2>2. /\ Len(SubSeq(v, k, Len(v))) = Len(v) - k + 1
        /\ \A j \in 1..(Len(v) - k + 1) : SubSeq(v, k, Len(v))[j] = v[k + j - 1]
    BY <1>2, <1>k, RecentOf
  <2>3. SubSeq(v, k, Len(v)) = q /\ Len(v) - k + 1 = c
    BY <1>1, <1>4, <1>5
  <2> QED
    BY <2>2, <2>3
<1>8. ASSUME NEW n \in 1..l, Bucket(w[n].status) = "deny"
      PROVE  Bucket(v[n].status) = "deny"
  <2>1. CASE n = i
    <3>1. StatusWeight(v[i].status) >= StatusWeight(w[i].status)
      BY WorsenedFacts DEF Weightier
    <3> QED
      BY <1>8, <2>1, <3>1, BucketsRank
  <2>2. CASE n # i
    <3>1. v[n] = w[n]
      BY <1>1, <2>2, WorsenedFacts
    <3> QED
      BY <1>8, <3>1
  <2> QED
    BY <2>1, <2>2
<1>9. \A j \in 1..c : Bucket(r[j].status) = "deny" => Bucket(q[j].status) = "deny"
  <2>1. SUFFICES ASSUME NEW j \in 1..c, Bucket(r[j].status) = "deny"
                 PROVE  Bucket(q[j].status) = "deny"
    OBVIOUS
  <2>2. PICK n : n = k + j - 1
    OBVIOUS
  <2>3. n \in 1..l /\ r[j] = w[n] /\ q[j] = v[n]
    BY <1>6, <1>7, <2>2
  <2> QED
    BY <1>8, <2>1, <2>3
<1>10. DenyCluster(w) = Rate(Max(Denials(r)), r) /\ DenyCluster(v) = Rate(Max(Denials(q)), q)
  BY <1>1, <1>3, <1>4, ClusterIs
<1>11. /\ Rate(Max(Denials(r)), r) <= Rate(Max(Denials(q)), q)
       /\ Rate(Max(Denials(r)), r) \in Nat
  BY <1>6, <1>7, <1>9, RunsGrow
<1> QED
  BY <1>10, <1>11

-----------------------------------------------------------------------------
(* The scores.                                                             *)

LEMMA SameWeighs == ASSUME NEW r \in Record PROVE Weightier(r, r)
<1>1. PICK a, b, c, d : /\ a = StatusWeight(r.status) /\ b = StateWeight(r.state)
                        /\ c = r.loop /\ d = r.constraint
  OBVIOUS
<1>2. a \in 0..1000
  BY <1>1, WeightsRank
<1>3. b \in 0..1000
  BY <1>1, StatesRank
<1>4. c \in 0..1000 /\ d \in Nat
  BY <1>1, RecordFacts
<1>5. a >= a /\ b >= b /\ c >= c /\ d >= d
  BY <1>2, <1>3, <1>4
<1> QED
  BY <1>1, <1>5 DEF Weightier

LEMMA EachWeighs ==
    ASSUME NEW w, NEW v, NEW i, Worsened(w, v, i), NEW j \in 1..Len(w)
    PROVE  /\ w[j] \in Record /\ v[j] \in Record /\ Weightier(v[j], w[j])
<1>1. w[j] \in Record /\ v[j] \in Record
  BY WorsenedFacts
<1>2. CASE j = i
  BY <1>1, <1>2, WorsenedFacts
<1>3. CASE j # i
  <2>1. v[j] = w[j]
    BY <1>3, WorsenedFacts
  <2>3. Weightier(w[j], w[j])
    BY <1>1, SameWeighs
  <2> QED
    BY <1>1, <2>1, <2>3
<1> QED
  BY <1>2, <1>3

Strain(r) == IF r.state \in Strained THEN 1000 ELSE r.loop

\* What the sums of the scores are made of.
LEMMA PartsGrow ==
    ASSUME NEW r \in Record, NEW s \in Record, Weightier(s, r)
    PROVE  /\ r.constraint \in Nat /\ s.constraint \in Nat
           /\ r.constraint <= s.constraint
           /\ r.admissibility \in Nat /\ s.admissibility \in Nat
           /\ r.admissibility <= s.admissibility
           /\ Strain(r) \in Nat /\ Strain(s) \in Nat /\ Strain(r) <= Strain(s)
           /\ If(r.mismatch, 1) \in Nat /\ If(s.mismatch, 1) \in Nat
           /\ If(r.mismatch, 1) <= If(s.mismatch, 1)
<1>1. /\ r.constraint \in Nat /\ s.constraint \in Nat
      /\ r.admissibility = StatusWeight(r.status)
      /\ s.admissibility = StatusWeight(s.status)
      /\ r.loop \in 0..1000 /\ s.loop \in 0..1000
  BY RecordFacts
<1>2. StatusWeight(r.status) \in 0..1000 /\ StatusWeight(s.status) \in 0..1000
  BY WeightsRank
<1>3. /\ r.constraint \in Nat /\ s.constraint \in Nat /\ r.constraint <= s.constraint
  BY <1>1 DEF Weightier
<1>4. /\ r.admissibility \in Nat /\ s.admissibility \in Nat
      /\ r.admissibility <= s.admissibility
  <2>1. PICK a, b : a = StatusWeight(r.status) /\ b = StatusWeight(s.status)
    OBVIOUS
  <2>2. a \in 0..1000 /\ b \in 0..1000
    BY <1>2, <2>1
  <2>3. b >= a
    BY <2>1 DEF Weightier
  <2>4. r.admissibility = a /\ s.admissibility = b
    BY <1>1, <2>1
  <2>5. a \in Nat /\ b \in Nat /\ a <= b
    BY <2>2, <2>3
  <2> QED
    BY <2>4, <2>5
<1>5. Strain(r) \in Nat /\ Strain(s) \in Nat /\ Strain(r) <= Strain(s)
  <2>1. r.state \in Strained => s.state \in Strained
    <3>1. PICK a, b : a = StateWeight(r.state) /\ b = StateWeight(s.state)
      OBVIOUS
    <3>2. a \in 0..1000 /\ b \in 0..1000 /\ a <= b
      <4>1. b >= a
        BY <3>1 DEF Weightier
      <4>2. StateWeight(r.state) \in 0..1000 /\ StateWeight(s.state) \in 0..1000
        BY StatesRank
      <4>3. a \in 0..1000 /\ b \in 0..1000
        BY <3>1, <4>2
      <4> QED
        BY <4>1, <4>3
    <3>3. (r.state \in Strained <=> a >= 700) /\ (s.state \in Strained <=> b >= 700)
      BY <3>1, StatesRank
    <3> QED
      BY <3>2, <3>3
  <2>2. r.loop <= s.loop
    BY <1>1 DEF Weightier
  <2>3. /\ Strain(r) = IF r.state \in Strained THEN 1000 ELSE r.loop
        /\ Strain(s) = IF s.state \in Strained THEN 1000 ELSE s.loop
    BY DEF Strain
  <2>4. PICK a, b : a = r.loop /\ b = s.loop
    OBVIOUS
  <2>5. a \in 0..1000 /\ b \in 0..1000 /\ a <= b
    BY <1>1, <2>2, <2>4
  <2>6. CASE s.state \in Strained
    <3>1. Strain(s) = 1000 /\ Strain(r) \in {1000, a}
      BY <2>3, <2>4, <2>6
    <3> QED
      BY <2>5, <3>1
  <2>7. CASE s.state \notin Strained
    <3>1. Strain(s) = b /\ Strain(r) = a
      BY <2>1, <2>3, <2>4, <2>7
    <3> QED
      BY <2>5, <3>1
  <2> QED
    BY <2>6, <2>7
<1>6. /\ If(r.mismatch, 1) \in Nat /\ If(s.mismatch, 1) \in Nat
      /\ If(r.mismatch, 1) <= If(s.mismatch, 1)
  BY DEF If, Weightier
<1> QED
  BY <1>3, <1>4, <1>5, <1>6

LEMMA PressureGrows ==
    ASSUME NEW w, NEW v, NEW i, Worsened(w, v, i)
    PROVE  PressureScore(w) <= PressureScore(v)
<1>1. PICK l \in Nat \ {0} : l = Len(w) /\ l = Len(v)
  BY WorsenedFacts
<1>2. w # <<>> /\ v # <<>>
  BY <1>1
<1>d. DOMAIN w = 1..l /\ DOMAIN v = 1..l
  BY <1>1, WorsenedFacts
<1>3. PICK f, g : /\ f = [n \in DOMAIN w |-> w[n].constraint]
                  /\ g = [n \in DOMAIN v |-> v[n].constraint]
  OBVIOUS
<1>4. PICK x, y : x = SumOf(w, f) /\ y = SumOf(v, g)
  OBVIOUS
<1>5. x \in Nat /\ y \in Nat /\ x <= y
  <2>1. ASSUME NEW j \in 1..l
        PROVE  f[j] \in Nat /\ g[j] \in Nat /\ f[j] <= g[j]
    <3>1. f[j] = w[j].constraint /\ g[j] = v[j].constraint
      BY <1>3, <1>d
    <3>2. w[j] \in Record /\ v[j] \in Record /\ Weightier(v[j], w[j])
      BY <1>1, EachWeighs
    <3>3. w[j].constraint \in Nat /\ v[j].constraint \in Nat
          /\ w[j].constraint <= v[j].constraint
      BY <3>2, PartsGrow
    <3> QED
      BY <3>1, <3>3
  <2> QED
    BY <1>1, <1>4, <2>1, SumGrows
<1>6. PICK p, q, s, t :
          /\ p = 36 * Rate(InBucket(w, "constrain"), w) + 48 * Rate(InBucket(w, "deny"), w)
          /\ q = 36 * Rate(InBucket(v, "constrain"), v) + 48 * Rate(InBucket(v, "deny"), v)
          /\ s = DenyCluster(w) /\ t = DenyCluster(v)
  OBVIOUS
<1>7. p <= q
  BY <1>6, SharesGrow
<1>8. s <= t /\ s \in Nat
  BY <1>6, ClusterGrows
<1>9. p \in Nat /\ q \in Nat /\ t \in Nat
  <2>1. /\ InBucket(w, "constrain") \in Nat /\ InBucket(w, "deny") \in Nat
        /\ InBucket(v, "constrain") \in Nat /\ InBucket(v, "deny") \in Nat
    BY BucketCounts
  <2>2. Len(w) \in Nat \ {0} /\ Len(v) \in Nat \ {0}
    BY <1>1
  <2>3. /\ Rate(InBucket(w, "constrain"), w) \in Nat /\ Rate(InBucket(w, "deny"), w) \in Nat
        /\ Rate(InBucket(v, "constrain"), v) \in Nat /\ Rate(InBucket(v, "deny"), v) \in Nat
    BY <2>1, <2>2, RateIs
  <2>4. p \in Nat /\ q \in Nat
    BY <1>6, <2>3
  <2>5. t \in Nat
    <3>1. Worsened(v, v, i)
      <4>1. v \in Seq(Record) /\ Len(v) \in 1..333 /\ i \in 1..Len(v)
        BY WorsenedFacts DEF Worsened
      <4>2. v[i] \in Record
        BY WorsenedFacts
      <4>4. Weightier(v[i], v[i])
        BY <4>2, SameWeighs
      <4> QED
        BY <4>1, <4>4 DEF Worsened
    <3> QED
      BY <1>6, <3>1, ClusterGrows
  <2> QED
    BY <2>4, <2>5
<1>10. ScoreOf(p + 18 * s, 32 * x, w) <= ScoreOf(q + 18 * t, 32 * y, v)
  <2>1. /\ p + 18 * s \in Nat /\ q + 18 * t \in Nat /\ p + 18 * s <= q + 18 * t
        /\ 32 * x \in Nat /\ 32 * y \in Nat /\ 32 * x <= 32 * y
    BY <1>5, <1>7, <1>8, <1>9
  <2> QED
    BY <1>1, <2>1, ScoreGrows
<1>11. PressureScore(w) = ScoreOf(p + 18 * s, 32 * x, w)
  BY <1>2, <1>3, <1>4, <1>6 DEF PressureScore
<1>12. PressureScore(v) = ScoreOf(q + 18 * t, 32 * y, v)
  BY <1>2, <1>3, <1>4, <1>6 DEF PressureScore
<1> QED
  BY <1>10, <1>11, <1>12

LEMMA DriftGrows ==
    ASSUME NEW w, NEW v, NEW i, Worsened(w, v, i)
    PROVE  DriftScore(w) <= DriftScore(v)
<1>1. PICK l \in Nat \ {0} : l = Len(w) /\ l = Len(v)
  BY WorsenedFacts
<1>2. w # <<>> /\ v # <<>>
  BY <1>1
<1>d. DOMAIN w = 1..l /\ DOMAIN v = 1..l
  BY <1>1, WorsenedFacts
<1>3. PICK f1, g1, f2, g2, f3, g3 :
          /\ f1 = [n \in DOMAIN w |-> w[n].admissibility]
          /\ g1 = [n \in DOMAIN v |-> v[n].admissibility]
          /\ f2 = [n \in DOMAIN w |-> IF w[n].state \in Strained THEN 1000 ELSE w[n].loop]
          /\ g2 = [n \in DOMAIN v |-> IF v[n].state \in Strained THEN 1000 ELSE v[n].loop]
          /\ f3 = [n \in DOMAIN w |-> If(w[n].mismatch, 1)]
          /\ g3 = [n \in DOMAIN v |-> If(v[n].mismatch, 1)]
  OBVIOUS
<1>4. PICK x1, y1, x2, y2, x3, y3 :
          /\ x1 = SumOf(w, f1) /\ y1 = SumOf(v, g1)
          /\ x2 = SumOf(w, f2) /\ y2 = SumOf(v, g2)
          /\ x3 = SumOf(w, f3) /\ y3 = SumOf(v, g3)
  OBVIOUS
<1>5. ASSUME NEW j \in 1..l
      PROVE  /\ f1[j] \in Nat /\ g1[j] \in Nat /\ f1[j] <= g1[j]
             /\ f2[j] \in Nat /\ g2[j] \in Nat /\ f2[j] <= g2[j]
             /\ f3[j] \in Nat /\ g3[j] \in Nat /\ f3[j] <= g3[j]
  <2>1. PICK r, s : r = w[j] /\ s = v[j]
    OBVIOUS
  <2>2. /\ f1[j] = r.admissibility /\ g1[j] = s.admissibility
        /\ f2[j] = Strain(r) /\ g2[j] = Strain(s)
        /\ f3[j] = If(r.mismatch, 1) /\ g3[j] = If(s.mismatch, 1)
    BY <1>3, <1>d, <2>1 DEF Strain
  <2>3. r \in Record /\ s \in Record /\ Weightier(s, r)
    BY <1>1, <2>1, EachWeighs
  <2>4. /\ r.admissibility \in Nat /\ s.admissibility \in Nat
        /\ r.admissibility <= s.admissibility
        /\ Strain(r) \in Nat /\ Strain(s) \in Nat /\ Strain(r) <= Strain(s)
        /\ If(r.mismatch, 1) \in Nat /\ If(s.mismatch, 1) \in Nat
        /\ If(r.mismatch, 1) <= If(s.mismatch, 1)
    BY <2>3, PartsGrow
  <2> QED
    BY <2>2, <2>4
<1>6. x1 \in Nat /\ y1 \in Nat /\ x1 <= y1
  <2>1. \A j \in 1..l : f1[j] \in Nat /\ g1[j] \in Nat /\ f1[j] <= g1[j]
    BY <1>5
  <2> QED
    BY <1>1, <1>4, <2>1, SumGrows
<1>7. x2 \in Nat /\ y2 \in Nat /\ x2 <= y2
  <2>1. \A j \in 1..l : f2[j] \in Nat /\ g2[j] \in Nat /\ f2[j] <= g2[j]
    BY <1>5
  <2> QED
    BY <1>1, <1>4, <2>1, SumGrows
<1>8. x3 \in Nat /\ y3 \in Nat /\ x3 <= y3
  <2>1. \A j \in 1..l : f3[j] \in Nat /\ g3[j] \in Nat /\ f3[j] <= g3[j]
    BY <1>5
  <2> QED
    BY <1>1, <1>4, <2>1, SumGrows
<1>9. PICK p, q : p = InBucket(w, "allow") /\ q = InBucket(v, "allow")
  OBVIOUS
<1>10. p \in Nat /\ q \in Nat /\ p <= l /\ q <= l /\ q <= p
  <2>1. p \in Nat /\ q \in Nat /\ p <= l /\ q <= l
    BY <1>1, <1>9, BucketCounts
  <2>2. StatusWeight(v[i].status) >= StatusWeight(w[i].status)
    BY WorsenedFacts DEF Weightier
  <2>3. Bucket(v[i].status) = "allow" => Bucket(w[i].status) = "allow"
    BY <2>2, BucketsRank
  <2>4. q = p \/ p = q + 1
    BY <1>9, <2>3, BucketCounts
  <2> QED
    BY <2>1, <2>4
<1>11. PICK a, b :
           /\ a = 32000 * (l - p) + 28 * x1 + 28 * x2 + 12000 * x3
           /\ b = 32000 * (l - q) + 28 * y1 + 28 * y2 + 12000 * y3
  OBVIOUS
<1>12. a \in Nat /\ b \in Nat /\ a <= b
  BY <1>6, <1>7, <1>8, <1>10, <1>11
<1>13. ScoreOf(0, a, w) <= ScoreOf(0, b, v)
  <2>1. 0 \in Nat /\ 0 <= 0
    OBVIOUS
  <2> QED
    BY <1>1, <1>12, <2>1, ScoreGrows
<1>14. DriftScore(w) = ScoreOf(0, a, w)
  BY <1>1, <1>2, <1>3, <1>4, <1>9, <1>11 DEF DriftScore
<1>15. DriftScore(v) = ScoreOf(0, b, v)
  BY <1>1, <1>2, <1>3, <1>4, <1>9, <1>11 DEF DriftScore
<1> QED
  BY <1>13, <1>14, <1>15

-----------------------------------------------------------------------------
(* A window of plain allowances.                                           *)

Quiet(w) ==
    /\ w \in Seq(Record) /\ Len(w) \in Nat \ {0}
    /\ \A n \in 1..Len(w) : w[n].constraint = 0 /\ ~w[n].mismatch

LEMMA QuietFacts ==
    ASSUME NEW w, Quiet(w), NEW n \in 1..Len(w)
    PROVE  /\ Bucket(w[n].status) = "allow" /\ w[n].state \notin Strained
           /\ w[n].loop = 0 /\ w[n].divergence = 0 /\ w[n].posture = "QUIET"
           /\ w[n].constraint = 0 /\ w[n].admissibility = 0 /\ ~w[n].mismatch
<1>1. PICK r : r = w[n]
  OBVIOUS
<1>2. r \in Record /\ r.constraint = 0 /\ ~r.mismatch
  <2>1. w \in Seq(Record) /\ Len(w) \in Nat /\ w[n].constraint = 0 /\ ~w[n].mismatch
    BY DEF Quiet
  <2>2. w[n] \in Record
    BY <2>1, WindowFacts
  <2> QED
    BY <1>1, <2>1, <2>2
<1>3. /\ Bucket(r.status) = "allow" /\ r.state = "NORMAL"
      /\ r.loop = 0 /\ r.divergence = 0 /\ r.posture = "QUIET"
      /\ r.admissibility = StatusWeight(r.status)
  BY <1>2, RecordFacts
<1>4. r.state \notin Strained
  BY <1>3 DEF Strained
<1>5. r.admissibility = 0
  BY <1>3, WeightsRank
<1> QED
  BY <1>1, <1>2, <1>3, <1>4, <1>5

LEMMA RateOfNone ==
    ASSUME NEW w, Len(w) \in Nat \ {0} PROVE Rate(0, w) = 0
<1>1. Rate(0, w) = Rounded(1000 * 0, Len(w))
  <2>1. 0 \in Nat
    OBVIOUS
  <2> QED
    BY <2>1, RateIs
<1>2. 1000 * 0 = 0 /\ Rounded(0, Len(w)) = 0
  BY RoundedNought
<1> QED
  BY <1>1, <1>2

LEMMA ScoreOfNone ==
    ASSUME NEW w, NEW l \in Nat \ {0}, l = Len(w) PROVE ScoreOf(0, 0, w) = 0
<1>1. 0 * l + 0 = 0 /\ 100 * l \in Nat \ {0}
  OBVIOUS
<1>2. Rounded(0, 100 * l) = 0
  BY <1>1, RoundedNought
<1> QED
  BY <1>1, <1>2 DEF ScoreOf, UpToOne

LEMMA QuietBuckets ==
    ASSUME NEW w, Quiet(w)
    PROVE  /\ InBucket(w, "constrain") = 0 /\ InBucket(w, "deny") = 0
           /\ InBucket(w, "allow") = Len(w)
<1>1. PICK l \in Nat \ {0} : l = Len(w)
  BY DEF Quiet
<1>2. DOMAIN w = 1..l
  <2>1. w \in Seq(Record) /\ l \in Nat
    BY DEF Quiet
  <2> QED
    BY <1>1, <2>1, WindowFacts
<1>3. \A n \in 1..l : Bucket(w[n].status) = "allow"
  BY <1>1, QuietFacts
<1>4. PICK A, B, C : /\ A = {n \in 1..l : Bucket(w[n].status) = "constrain"}
                     /\ B = {n \in 1..l : Bucket(w[n].status) = "deny"}
                     /\ C = {n \in 1..l : Bucket(w[n].status) = "allow"}
  OBVIOUS
<1>5. A = {} /\ B = {} /\ C = 1..l
  BY <1>3, <1>4
<1>6. /\ InBucket(w, "constrain") = Cardinality(A)
      /\ InBucket(w, "deny") = Cardinality(B)
      /\ InBucket(w, "allow") = Cardinality(C)
  BY <1>2, <1>4 DEF InBucket
<1>7. Cardinality({}) = 0
  BY FS_EmptySet
<1>8. Cardinality(1..l) = l
  <2>1. 1 \in Int /\ l \in Int /\ l >= 1 /\ l - 1 + 1 = l
    OBVIOUS
  <2> QED
    BY <2>1, FS_Interval
<1> QED
  BY <1>1, <1>5, <1>6, <1>7, <1>8

LEMMA QuietCluster ==
    ASSUME NEW w, Quiet(w) PROVE DenyCluster(w) = 0
<1>1. PICK l \in Nat \ {0} : l = Len(w)
  BY DEF Quiet
<1>2. PICK k : k = Max({1, l - 4})
  OBVIOUS
<1>3. k \in 1..l
  <2>1. 1 \in Int /\ l - 4 \in Int
    OBVIOUS
  <2>2. k \in {1, l - 4} /\ k >= 1
    BY <1>2, <2>1, MaxOfTwo
  <2> QED
    BY <2>2
<1>4. PICK r, c : r = SubSeq(w, k, l) /\ c = l - k + 1
  OBVIOUS
<1>5. c \in Nat \ {0} /\ Len(r) = c /\ \A j \in 1..c : r[j] = w[k + j - 1]
  <2>1. w \in Seq(Record) /\ k \in 1..Len(w)
    BY <1>1, <1>3 DEF Quiet
  <2>2. /\ Len(SubSeq(w, k, Len(w))) = Len(w) - k + 1
        /\ \A j \in 1..(Len(w) - k + 1) : SubSeq(w, k, Len(w))[j] = w[k + j - 1]
    BY <2>1, RecentOf
  <2>3. SubSeq(w, k, Len(w)) = r /\ Len(w) - k + 1 = c /\ c \in Nat \ {0}
    BY <1>1, <1>3, <1>4
  <2> QED
    BY <2>2, <2>3
<1>6. ASSUME NEW j \in 1..c PROVE Bucket(r[j].status) # "deny"
  <2>1. PICK n : n = k + j - 1
    OBVIOUS
  <2>2. n \in 1..Len(w) /\ r[j] = w[n]
    BY <1>1, <1>3, <1>4, <1>5, <2>1
  <2>3. Bucket(w[n].status) = "allow"
    BY <2>2, QuietFacts
  <2> QED
    BY <2>2, <2>3
<1>7. Denials(r) = {0}
  <2>1. 0 \in Denials(r)
    <3>1. 0 \in 0..c /\ 0 \in 0..(c - 0) /\ (0 + 1)..(0 + 0) = {}
      BY <1>5
    <3> QED
      BY <1>5, <3>1 DEF Denials
  <2>2. ASSUME NEW n \in Denials(r) PROVE n = 0
    <3>1. n \in 0..c
      BY <1>5 DEF Denials
    <3>2. SUFFICES ASSUME n # 0 PROVE FALSE
      OBVIOUS
    <3>3. PICK before \in 0..(c - n) :
              \A j \in (before + 1)..(before + n) : Bucket(r[j].status) = "deny"
      BY <1>5 DEF Denials
    <3>4. before + 1 \in (before + 1)..(before + n) /\ before + 1 \in 1..c
      BY <1>5, <3>1, <3>2, <3>3
    <3> QED
      BY <1>6, <3>3, <3>4
  <2> QED
    BY <2>1, <2>2
<1>8. Max({0}) = 0
  <2>1. {0} \subseteq Nat /\ {0} # {} /\ 0 \in Nat /\ \A x \in {0} : x <= 0
    OBVIOUS
  <2>2. Max({0}) \in {0}
    BY <2>1, MaxOf
  <2> QED
    BY <2>2
<1>9. Rate(0, r) = 0
  BY <1>5, RateOfNone
<1>10. DenyCluster(w) = Rate(Max(Denials(r)), r)
  BY <1>1, <1>2, <1>4, ClusterIs
<1> QED
  BY <1>7, <1>8, <1>9, <1>10

LEMMA QuietSteady ==
    ASSUME NEW w, Quiet(w) PROVE Volatility(w) = 0 /\ Fragmentation(w) = 0
<1>1. PICK l \in Nat \ {0} : l = Len(w)
  BY DEF Quiet
<1>2. DOMAIN w = 1..l
  <2>1. w \in Seq(Record) /\ l \in Nat
    BY DEF Quiet
  <2> QED
    BY <1>1, <2>1, WindowFacts
<1>3. \A n \in 1..l : Bucket(w[n].status) = "allow" /\ w[n].posture = "QUIET"
  BY <1>1, QuietFacts
<1>4. Volatility(w) = 0
  <2>1. PICK T : T = {n \in 1..(l - 1) : Bucket(w[n].status) # Bucket(w[n + 1].status)}
    OBVIOUS
  <2>2. T = {}
    <3>1. ASSUME NEW n \in 1..(l - 1) PROVE Bucket(w[n].status) = Bucket(w[n + 1].status)
      <4>1. n \in 1..l /\ n + 1 \in 1..l
        OBVIOUS
      <4> QED
        BY <1>3, <4>1
    <3> QED
      BY <2>1, <3>1
  <2>3. Cardinality(T) = 0
    BY <2>2, FS_EmptySet
  <2>4. PICK d : d = Max({1, l - 1})
    OBVIOUS
  <2>5. d \in Nat \ {0}
    <3>1. 1 \in Int /\ l - 1 \in Int
      OBVIOUS
    <3>2. d \in {1, l - 1} /\ d >= 1
      BY <2>4, <3>1, MaxOfTwo
    <3> QED
      BY <3>2
  <2>6. Volatility(w) = Rounded(1000 * Cardinality(T), d)
    BY <1>1, <2>1, <2>4 DEF Volatility
  <2>7. 1000 * 0 = 0 /\ Rounded(0, d) = 0
    BY <2>5, RoundedNought
  <2> QED
    BY <2>3, <2>6, <2>7
<1>5. Fragmentation(w) = 0
  <2>1. PICK P : P = {w[n].posture : n \in DOMAIN w}
    OBVIOUS
  <2>2. P = {"QUIET"}
    <3>1. 1 \in 1..l
      OBVIOUS
    <3> QED
      BY <1>2, <1>3, <2>1, <3>1
  <2>3. Cardinality(P) = 1
    BY <2>2, FS_Singleton
  <2>4. Fragmentation(w) = Rounded(1000 * (Cardinality(P) - 1), 4)
    BY <2>1 DEF Fragmentation
  <2>5. 1000 * (1 - 1) = 0 /\ 4 \in Nat \ {0}
    OBVIOUS
  <2>6. Rounded(0, 4) = 0
    BY <2>5, RoundedNought
  <2> QED
    BY <2>3, <2>4, <2>5, <2>6
<1> QED
  BY <1>4, <1>5

LEMMA QuietScores ==
    ASSUME NEW w, Quiet(w)
    PROVE  PressureScore(w) = 0 /\ DriftScore(w) = 0 /\ StabilityScore(w) = 1000
<1>1. PICK l \in Nat \ {0} : l = Len(w)
  BY DEF Quiet
<1>2. w # <<>>
  BY <1>1
<1>3. DOMAIN w = 1..l
  <2>1. w \in Seq(Record) /\ l \in Nat
    BY DEF Quiet
  <2> QED
    BY <1>1, <2>1, WindowFacts
<1>4. PICK f1, f2, f3, f4, f5, f6 :
          /\ f1 = [n \in DOMAIN w |-> w[n].constraint]
          /\ f2 = [n \in DOMAIN w |-> w[n].admissibility]
          /\ f3 = [n \in DOMAIN w |-> IF w[n].state \in Strained THEN 1000 ELSE w[n].loop]
          /\ f4 = [n \in DOMAIN w |-> If(w[n].mismatch, 1)]
          /\ f5 = [n \in DOMAIN w |-> w[n].divergence]
          /\ f6 = [n \in DOMAIN w |-> IF w[n].mismatch THEN 1000 ELSE w[n].loop]
  OBVIOUS
<1>5. ASSUME NEW n \in 1..l
      PROVE  f1[n] = 0 /\ f2[n] = 0 /\ f3[n] = 0 /\ f4[n] = 0 /\ f5[n] = 0 /\ f6[n] = 0
  <2>1. /\ w[n].state \notin Strained /\ w[n].loop = 0 /\ w[n].divergence = 0
        /\ w[n].constraint = 0 /\ w[n].admissibility = 0 /\ ~w[n].mismatch
    BY <1>1, QuietFacts
  <2> QED
    BY <1>3, <1>4, <2>1 DEF If
<1>6. /\ SumOf(w, f1) = 0 /\ SumOf(w, f2) = 0 /\ SumOf(w, f3) = 0
      /\ SumOf(w, f4) = 0 /\ SumOf(w, f5) = 0 /\ SumOf(w, f6) = 0
  <2>0. l \in Nat /\ l = Len(w)
    BY <1>1
  <2>1. SumOf(w, f1) = 0
    BY <1>5, <2>0, SumOfNoughts
  <2>2. SumOf(w, f2) = 0
    BY <1>5, <2>0, SumOfNoughts
  <2>3. SumOf(w, f3) = 0
    BY <1>5, <2>0, SumOfNoughts
  <2>4. SumOf(w, f4) = 0
    BY <1>5, <2>0, SumOfNoughts
  <2>5. SumOf(w, f5) = 0
    BY <1>5, <2>0, SumOfNoughts
  <2>6. SumOf(w, f6) = 0
    BY <1>5, <2>0, SumOfNoughts
  <2> QED
    BY <2>1, <2>2, <2>3, <2>4, <2>5, <2>6
<1>7. ScoreOf(0, 0, w) = 0
  BY <1>1, ScoreOfNone
<1>8. PressureScore(w) = 0
  <2>1. Rate(InBucket(w, "constrain"), w) = 0 /\ Rate(InBucket(w, "deny"), w) = 0
    BY <1>1, QuietBuckets, RateOfNone
  <2>2. DenyCluster(w) = 0
    BY QuietCluster
  <2>3. PressureScore(w) = ScoreOf(36 * 0 + 48 * 0 + 18 * 0, 32 * 0, w)
    BY <1>2, <1>4, <1>6, <2>1, <2>2 DEF PressureScore
  <2>4. 36 * 0 + 48 * 0 + 18 * 0 = 0 /\ 32 * 0 = 0
    OBVIOUS
  <2> QED
    BY <1>7, <2>3, <2>4
<1>9. DriftScore(w) = 0
  <2>1. InBucket(w, "allow") = l
    BY <1>1, QuietBuckets
  <2>2. DriftScore(w)
          = ScoreOf(0, 32000 * (l - l) + 28 * 0 + 28 * 0 + 12000 * 0, w)
    BY <1>1, <1>2, <1>4, <1>6, <2>1 DEF DriftScore
  <2>3. 32000 * (l - l) + 28 * 0 + 28 * 0 + 12000 * 0 = 0
    OBVIOUS
  <2> QED
    BY <1>7, <2>2, <2>3
<1>10. StabilityScore(w) = 1000
  <2>1. Volatility(w) = 0 /\ Fragmentation(w) = 0
    BY QuietSteady
  <2>2. StabilityScore(w) = 1000 - ScoreOf(28 * 0 + 14 * 0, 28 * 0 + 30 * 0, w)
    BY <1>2, <1>4, <1>6, <2>1 DEF StabilityScore
  <2>3. 28 * 0 + 14 * 0 = 0 /\ 28 * 0 + 30 * 0 = 0
    OBVIOUS
  <2> QED
    BY <1>7, <2>2, <2>3
<1> QED
  BY <1>8, <1>9, <1>10

-----------------------------------------------------------------------------
(* The deque and the feed.                                                 *)

Draft == {<<>>} \cup {<<r>> : r \in Record}

\* The deque and the drafts hold records of answers.
RecordsKept == deque \in Seq(Record) /\ drafts \in [Answerer -> Draft]

\* The latest records of a sequence, b of them at most.
LEMMA LatestOf ==
    ASSUME NEW s \in Seq(Record), NEW b \in Nat \ {0},
           NEW k, k = Max({1, Len(s) - b + 1}), NEW r, r = SubSeq(s, k, Len(s))
    PROVE  r \in Seq(Record) /\ Len(r) \in 0..b
<1>1. PICK l \in Nat : l = Len(s)
  BY LenProperties
<1>2. k \in Int /\ k >= 1 /\ k >= l - b + 1
  <2>1. 1 \in Int /\ l - b + 1 \in Int
    OBVIOUS
  <2>2. k \in {1, l - b + 1} /\ k >= 1 /\ k >= l - b + 1
    BY <1>1, <2>1, MaxOfTwo
  <2> QED
    BY <2>1, <2>2
<1>3. \A j \in k..l : s[j] \in Record
  <2>1. \A j \in 1..l : s[j] \in Record
    BY <1>1, WindowFacts
  <2>2. \A j \in k..l : j \in 1..l
    BY <1>2
  <2> QED
    BY <2>1, <2>2
<1>4. l \in Int /\ k \in Int
  BY <1>2
<1>5. SubSeq(s, k, l) \in Seq(Record)
  BY <1>3, <1>4, SubSeqProperties
<1>6. Len(SubSeq(s, k, l)) = IF k <= l THEN l - k + 1 ELSE 0
  BY <1>3, <1>4, SubSeqProperties
<1>7. PICK n : n = Len(r)
  OBVIOUS
<1>8. n = IF k <= l THEN l - k + 1 ELSE 0
  BY <1>1, <1>6, <1>7
<1>9. n \in 0..b
  BY <1>2, <1>8
<1> QED
  BY <1>1, <1>5, <1>7, <1>9

LEMMA RecordsKeptInit == TelemetryInit => RecordsKept
BY DEF TelemetryInit, RecordsKept, Draft

LEMMA RecordsKeptStep ==
    RecordsKept /\ [TelemetryNext]_telemetryVars => RecordsKept'
<1>1. SUFFICES ASSUME RecordsKept, [TelemetryNext]_telemetryVars PROVE RecordsKept'
  OBVIOUS
<1>2. deque \in Seq(Record) /\ drafts \in [Answerer -> Draft]
  BY <1>1 DEF RecordsKept
<1>3. ASSUME NEW a \in Answerer, NEW o \in Outcome, Condense(a, o) PROVE RecordsKept'
  <2>1. <<Condensed(o)>> \in Draft
    BY DEF Draft, Record
  <2>2. drafts' \in [Answerer -> Draft]
    BY <1>2, <1>3, <2>1 DEF Condense
  <2>3. deque' = deque
    BY <1>3 DEF Condense
  <2> QED
    BY <1>2, <2>2, <2>3 DEF RecordsKept
<1>4. ASSUME NEW a \in Answerer, Capture(a) PROVE RecordsKept'
  <2>1. drafts' \in [Answerer -> Draft]
    <3>1. <<>> \in Draft
      BY DEF Draft
    <3> QED
      BY <1>2, <1>4, <3>1 DEF Capture
  <2>2. drafts[a] \in Seq(Record)
    <3>1. drafts[a] \in Draft /\ drafts[a] # <<>>
      BY <1>2, <1>4 DEF Capture
    <3>2. PICK r \in Record : drafts[a] = <<r>>
      BY <3>1 DEF Draft
    <3> QED
      BY <3>2
  <2>3. PICK all : all = deque \o drafts[a]
    OBVIOUS
  <2>4. all \in Seq(Record)
    BY <1>2, <2>2, <2>3, ConcatProperties
  <2>5. deque' = SubSeq(all, Max({1, Len(all) - RecordLimit + 1}), Len(all))
    BY <1>4, <2>3 DEF Capture
  <2>6. RecordLimit \in Nat \ {0}
    BY TelemetryConstants
  <2>7. deque' \in Seq(Record)
    BY <2>4, <2>5, <2>6, LatestOf
  <2> QED
    BY <2>1, <2>7 DEF RecordsKept
<1>5. CASE UNCHANGED telemetryVars
  BY <1>2, <1>5 DEF telemetryVars, RecordsKept
<1> QED
  BY <1>1, <1>3, <1>4, <1>5 DEF TelemetryNext

LEMMA WorseIsWorsened ==
    ASSUME NEW w \in Seq(Record), Len(w) \in 0..333, NEW i \in DOMAIN w,
           NEW o \in Outcome, Heavier(o, w[i])
    PROVE  Worsened(w, [w EXCEPT ![i] = Condensed(o)], i)
<1>1. PICK r, c, v : r = w[i] /\ c = Condensed(o) /\ v = [w EXCEPT ![i] = c]
  OBVIOUS
<1>2. PICK l \in Nat : l = Len(w) /\ DOMAIN w = 1..l
  BY LenProperties
<1>3. l \in 1..333 /\ i \in 1..l
  <2>1. l \in 0..333 /\ i \in 1..l
    BY <1>2
  <2> QED
    BY <2>1
<1>4. c \in Record
  BY <1>1 DEF Record
<1>5. /\ v \in Seq(Record) /\ Len(v) = Len(w)
      /\ \A j \in 1..Len(w) : v[j] = IF j = i THEN c ELSE w[j]
  <2>1. i \in 1..Len(w)
    BY <1>2, <1>3
  <2> QED
    BY <1>1, <1>4, <2>1, ExceptSeq
<1>6. Weightier(c, r)
  <2>1. c.status = o.status /\ c.state = o.state /\ c.loop = o.loop
        /\ c.mismatch = (o.temporal \/ o.disagreement)
    BY <1>1 DEF Condensed
  <2>2. /\ StatusWeight(o.status) >= StatusWeight(r.status)
        /\ StateWeight(o.state) >= StateWeight(r.state)
        /\ o.loop >= r.loop /\ (r.mismatch => o.temporal \/ o.disagreement)
        /\ c.constraint >= r.constraint
    BY <1>1 DEF Heavier
  <2> QED
    BY <2>1, <2>2 DEF Weightier
<1>7. v[i] = c
  BY <1>2, <1>3, <1>5
<1>8. \A j \in 1..Len(w) : j # i => v[j] = w[j]
  BY <1>5
<1>9. Len(w) \in 1..333 /\ i \in 1..Len(w) /\ Weightier(v[i], w[i])
  BY <1>1, <1>2, <1>3, <1>6, <1>7
<1> QED
  BY <1>1, <1>5, <1>8, <1>9 DEF Worsened

LEMMA WeighsInWindow == RecordsKept => HeavierNeverCalms
<1>1. SUFFICES ASSUME RecordsKept PROVE HeavierNeverCalms
  OBVIOUS
<1>2. PICK w : w = Feed
  OBVIOUS
<1>3. w \in Seq(Record) /\ Len(w) \in 0..333
  <2>1. deque \in Seq(Record) /\ WindowLimit \in Nat \ {0} /\ 0..WindowLimit \subseteq 0..333
    BY <1>1, TelemetryConstants DEF RecordsKept
  <2>2. PICK k : k = Max({1, Len(deque) - WindowLimit + 1})
    OBVIOUS
  <2>3. w = SubSeq(deque, k, Len(deque))
    BY <1>2, <2>2 DEF Feed
  <2>4. w \in Seq(Record) /\ Len(w) \in 0..WindowLimit
    BY <2>1, <2>2, <2>3, LatestOf
  <2> QED
    BY <2>1, <2>4
<1>4. ASSUME NEW i \in DOMAIN w, NEW o \in Outcome, Heavier(o, w[i]),
             NEW worse, worse = [w EXCEPT ![i] = Condensed(o)]
      PROVE  /\ PressureScore(worse) >= PressureScore(w)
             /\ DriftScore(worse) >= DriftScore(w)
  <2>1. Worsened(w, worse, i)
    BY <1>3, <1>4, WorseIsWorsened
  <2>2. PressureScore(w) <= PressureScore(worse) /\ DriftScore(w) <= DriftScore(worse)
    BY <2>1, PressureGrows, DriftGrows
  <2> QED
    BY <2>2
<1>5. ASSUME \A i \in DOMAIN w : w[i].constraint = 0 /\ ~w[i].mismatch
      PROVE  /\ PressureLabel(PressureScore(w)) = "QUIET"
             /\ EnvironmentLabel(PressureScore(w), DominantPosture(w)) = "QUIET"
             /\ DriftLabel(DriftScore(w)) = "QUIET"
             /\ StabilityLabel(StabilityScore(w)) = "QUIET"
  <2>1. PressureScore(w) = 0 /\ DriftScore(w) = 0 /\ StabilityScore(w) = 1000
    <3>1. CASE w = <<>>
      BY <3>1 DEF PressureScore, DriftScore, StabilityScore
    <3>2. CASE w # <<>>
      <4>1. PICK l \in Nat : l = Len(w) /\ DOMAIN w = 1..l
        BY <1>3, LenProperties
      <4>2. l # 0
        <5>1. w \in Seq(Record)
          BY <1>3
        <5>2. Len(w) = 0 => w = <<>>
          BY <5>1, EmptySeq
        <5> QED
          BY <3>2, <4>1, <5>2
      <4>3. Quiet(w)
        BY <1>3, <1>5, <4>1, <4>2 DEF Quiet
      <4> QED
        BY <4>3, QuietScores
    <3> QED
      BY <3>1, <3>2
  <2>2. PressureLabel(0) = "QUIET" /\ DriftLabel(0) = "QUIET" /\ StabilityLabel(1000) = "QUIET"
    BY DEF PressureLabel, DriftLabel, StabilityLabel
  <2>3. EnvironmentLabel(0, DominantPosture(w)) = "QUIET"
    BY DEF EnvironmentLabel
  <2> QED
    BY <2>1, <2>2, <2>3
<1>6. \A i \in DOMAIN w, o \in Outcome : Heavier(o, w[i]) =>
          LET worse == [w EXCEPT ![i] = Condensed(o)]
          IN  /\ PressureScore(worse) >= PressureScore(w)
              /\ DriftScore(worse) >= DriftScore(w)
  BY <1>4
<1> QED
  BY <1>2, <1>5, <1>6 DEF HeavierNeverCalms

\* An answer that weighs more never calms the feed or the engine, and plain
\* allowances are reported quiet: for every deque, every window of up to 333
\* records and every set of answers (telemetry_engine.py's tables against
\* the buckets and scores of environmental_state_engine.py).
THEOREM HeavierCalmsNever == TelemetrySpec => []HeavierNeverCalms
<1>1. TelemetryInit => RecordsKept
  BY RecordsKeptInit
<1>2. RecordsKept /\ [TelemetryNext]_telemetryVars => RecordsKept'
  BY RecordsKeptStep
<1>3. RecordsKept => HeavierNeverCalms
  BY WeighsInWindow
<1> QED
  BY <1>1, <1>2, <1>3, PTL DEF TelemetrySpec
=============================================================================

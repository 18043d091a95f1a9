----------------------- MODULE DecisionEvidenceProofs -----------------------
(***************************************************************************)
(* Proofs about DecisionEvidence for every set of threads, owners and      *)
(* refusals, and any number of decisions, failed writes and restarts; and  *)
(* about DecisionQueue for every set of threads and decisions, any cap,    *)
(* expiry and epoch, and any number of calls.                              *)
(***************************************************************************)
EXTENDS DecisionEvidence, DecisionQueue, FiniteSetTheorems, TLAPS

-----------------------------------------------------------------------------
(* The tables.                                                             *)

DomainName == {"stablecoin", "validator", "governance", "macro", "liquidity",
               "general"}

\* A request is always in some domain.
LEMMA DomainKnown == ASSUME NEW asked PROVE Domain(asked) \in DomainName
<1> DEFINE hinted == {i \in DOMAIN DomainOrder : DomainOrder[i] \in asked.domains}
           first == CHOOSE i \in hinted : \A j \in hinted : i <= j
<1>1. hinted \subseteq {1, 2, 3, 4, 5}
  BY DEF DomainOrder
<1> HIDE DEF hinted
<1>2. hinted # {} => \E i \in hinted : \A j \in hinted : i <= j
  <2>1. CASE 1 \in hinted
    BY <1>1, <2>1
  <2>2. CASE 1 \notin hinted /\ 2 \in hinted
    BY <1>1, <2>2
  <2>3. CASE 1 \notin hinted /\ 2 \notin hinted /\ 3 \in hinted
    BY <1>1, <2>3
  <2>4. CASE 1 \notin hinted /\ 2 \notin hinted /\ 3 \notin hinted
            /\ 4 \in hinted
    BY <1>1, <2>4
  <2>5. CASE 1 \notin hinted /\ 2 \notin hinted /\ 3 \notin hinted
            /\ 4 \notin hinted
    <3>1. \A j \in hinted : j = 5
      BY <1>1, <2>5
    <3>2. \A i, j \in hinted : i <= j
      BY <3>1
    <3> QED
      BY <3>2
  <2> QED
    BY <2>1, <2>2, <2>3, <2>4, <2>5
<1>3. hinted # {} => first \in {1, 2, 3, 4, 5}
  BY <1>1, <1>2
<1>4. Domain(asked) = IF hinted = {} THEN "general" ELSE DomainOrder[first]
  BY DEF Domain, hinted
<1> HIDE DEF first
<1> QED
  BY <1>3, <1>4 DEF DomainOrder, DomainName

\* What a proof of a status has to say.
Tells(proof, status) ==
    /\ proof.hash.intervention = "none" <=> status = "ALLOW"
    /\ proof.hash.intervention = "reduced" <=> status \in {"CONSTRAIN", "REDUCE"}
    /\ proof.prevented = "none" <=> status = "ALLOW"
    /\ proof.hash.class = "unclassified" <=> status = "ALLOW"

\* A refusal is proven as one, whatever its category.
LEMMA RefusalTells ==
    ASSUME NEW asked, NEW category, NEW status \in RefusingStatus
    PROVE  Tells(Proof(asked, category, status), status)
<1> DEFINE proven == StatusForProof(status)
           effect == Effect(category, proven)
<1>1. proven \in {"DENY", "DELAY", "HALT"}
  BY DEF StatusForProof, RefusingStatus
<1>2. status \notin {"ALLOW", "CONSTRAIN", "REDUCE"}
  BY DEF RefusingStatus
<1> HIDE DEF proven
<1>3. effect \in {"entry_blocked", "delayed", "halted"}
  BY <1>1 DEF Effect
<1> HIDE DEF effect
<1>4. InterventionType(proven, effect) \notin {"none", "reduced"}
  BY <1>1, <1>3 DEF InterventionType
<1>5. Classification(category, proven) # "unclassified"
  BY <1>1 DEF Classification, ProcessCategory
<1>6. Prevented(category, proven, asked.increases) # "none"
  BY <1>1 DEF Prevented, ProcessCategory
<1> QED
  BY <1>2, <1>4, <1>5, <1>6 DEF Tells, Proof, proven, effect

\* So is what was decided once the checks had passed.
LEMMA OutcomeTells ==
    ASSUME NEW asked, NEW category, NEW status \in Outcomes(asked),
           category = IF status = "REDUCE" THEN "permission_budgeting"
                      ELSE Domain(asked)
    PROVE  Tells(Proof(asked, category, status), status)
<1>1. category \in DomainName \cup {"permission_budgeting"}
  BY DomainKnown
<1>2. CASE status = "VETO"
  BY <1>2, RefusalTells DEF RefusingStatus
<1>3. CASE status = "ALLOW"
  <2>1. StatusForProof(status) = "ALLOW"
    BY <1>3 DEF StatusForProof
  <2>2. Effect(category, "ALLOW") = "none"
    BY DEF Effect
  <2>3. InterventionType("ALLOW", "none") = "none"
    BY DEF InterventionType
  <2>4. Classification(category, "ALLOW") = "unclassified"
    BY <1>1 DEF Classification, ProcessCategory, DomainName
  <2>5. Prevented(category, "ALLOW", asked.increases) = "none"
    BY <1>1 DEF Prevented, ProcessCategory, DomainName
  <2> QED
    BY <1>3, <2>1, <2>2, <2>3, <2>4, <2>5 DEF Tells, Proof
<1>4. CASE status \in {"CONSTRAIN", "REDUCE"}
  <2> DEFINE effect == Effect(category, "CONSTRAIN")
  <2>1. StatusForProof(status) = "CONSTRAIN"
    BY <1>4 DEF StatusForProof
  <2>2. effect \in {"concentration_limited", "exposure_reduction"}
    BY DEF Effect
  <2> HIDE DEF effect
  <2>3. InterventionType("CONSTRAIN", effect) = "reduced"
    BY <2>2 DEF InterventionType
  <2>4. Classification(category, "CONSTRAIN") # "unclassified"
    BY <1>1 DEF Classification, ProcessCategory, DomainName
  <2>5. Prevented(category, "CONSTRAIN", asked.increases) # "none"
    BY <1>1 DEF Prevented, ProcessCategory, DomainName
  <2> QED
    BY <1>4, <2>1, <2>3, <2>4, <2>5 DEF Tells, Proof, effect
<1> QED
  BY <1>2, <1>3, <1>4 DEF Outcomes
-----------------------------------------------------------------------------
(* The inductive invariant.                                                *)

\* A thread that is about to record or to attach holds a decision whose
\* proof tells what was decided.
Honest(d) ==
    \/ d = Free
    \/ /\ d.at \in {"record", "attach"}
       /\ Tells(Proof(d.asked, d.category, d.status), d.status)

\* The ids issued are numbered; a registry, in memory or in the file, holds
\* proofs of issued ids only, each its owner's and telling its outcome.
Numbered == \E n \in Nat : DOMAIN issued = 1..n
Told(book) ==
    \A id \in DOMAIN book :
        /\ id \in DOMAIN issued
        /\ book[id].owner = issued[id].owner
        /\ Tells(book[id].proof, issued[id].status)
Kept ==
    \A id \in DOMAIN issued \ lost :
        id \in DOMAIN registry /\ (id \in unsaved \/ id \in DOMAIN saved)

EvidenceInv ==
    /\ \A t \in Server : Honest(server[t])
    /\ DOMAIN server = Server
    /\ Numbered /\ Told(registry) /\ Told(saved) /\ Kept
    /\ audit.found => audit.rightful

LEMMA StartKept == EvidenceInit => EvidenceInv
<1> SUFFICES ASSUME EvidenceInit PROVE EvidenceInv
  OBVIOUS
<1>1. DOMAIN issued = 1..0
  BY DEF EvidenceInit
<1> QED
  BY <1>1 DEF EvidenceInit, EvidenceInv, Honest, Numbered, Told, Kept

\* The books of a step that only moves a thread.
LEMMA BooksStay ==
    ASSUME EvidenceInv, UNCHANGED <<registry, saved, issued, unsaved, lost>>
    PROVE  /\ Numbered' /\ Told(registry)' /\ Told(saved)' /\ Kept'
  BY DEF EvidenceInv, Numbered, Told, Kept

LEMMA ThreadMoves ==
    ASSUME EvidenceInv, UNCHANGED <<registry, saved, issued, unsaved, lost, audit>>,
           NEW t \in Server, NEW d, Honest(d), server' = [server EXCEPT ![t] = d]
    PROVE  EvidenceInv'
<1>1. DOMAIN server' = Server /\ \A u \in Server : Honest(server'[u])
  BY DEF EvidenceInv
<1>2. \A u \in Server : Honest(server[u])'
  BY <1>1 DEF Honest
<1> QED
  BY <1>1, <1>2, BooksStay DEF EvidenceInv

LEMMA AssessKept ==
    ASSUME EvidenceInv, NEW t \in Server, NEW owner, NEW asked,
           NEW status \in Outcomes(asked), Assess(t, owner, asked, status)
    PROVE  EvidenceInv'
<1> DEFINE category == IF status = "REDUCE" THEN "permission_budgeting"
                       ELSE Trace(owner, asked, status).category
           d == [at |-> "record", owner |-> owner, asked |-> asked,
                 status |-> status,
                 pressure |-> Trace(owner, asked, status).pressure,
                 category |-> category]
<1>1. Trace(owner, asked, status).category = Domain(asked)
  BY DEF Trace
<1>2. Tells(Proof(asked, category, status), status)
  BY <1>1, OutcomeTells
<1>3. /\ d.at = "record" /\ d.asked = asked /\ d.category = category
      /\ d.status = status
  OBVIOUS
<1>4. server' = [server EXCEPT ![t] = d]
      /\ UNCHANGED <<registry, saved, issued, unsaved, lost, audit>>
  BY DEF Assess
<1> HIDE DEF d, category
<1>5. Honest(d)
  BY <1>2, <1>3 DEF Honest
<1> QED
  BY <1>4, <1>5, ThreadMoves

LEMMA RefuseKept ==
    ASSUME EvidenceInv, NEW t \in Server, NEW owner, NEW asked,
           NEW refusal \in Refusal, Refuse(t, owner, asked, refusal)
    PROVE  EvidenceInv'
<1> DEFINE d == [at |-> "attach", owner |-> owner, asked |-> asked,
                 pressure |-> FALSE, status |-> refusal.status,
                 category |-> refusal.category]
<1>1. Tells(Proof(asked, refusal.category, refusal.status), refusal.status)
  BY EvidenceConstants, RefusalTells
<1>2. Honest(d)
  BY <1>1 DEF Honest
<1>3. server' = [server EXCEPT ![t] = d]
      /\ UNCHANGED <<registry, saved, issued, unsaved, lost, audit>>
  BY DEF Refuse
<1> HIDE DEF d
<1> QED
  BY <1>2, <1>3, ThreadMoves

LEMMA RecordKept ==
    ASSUME EvidenceInv, NEW t \in Server, Record(t)
    PROVE  EvidenceInv'
<1>1. Honest(server[t]) /\ DOMAIN server = Server /\ server[t].at = "record"
  BY DEF EvidenceInv, Record
<1>2. server[t] # Free
  BY <1>1 DEF Free
<1> DEFINE d == [server[t] EXCEPT !.at = "attach"]
<1>3. /\ d.at \in {"record", "attach"} \/ d = server[t]
      /\ d.asked = server[t].asked /\ d.category = server[t].category
      /\ d.status = server[t].status
  OBVIOUS
<1>4. Honest(d)
  BY <1>1, <1>2, <1>3 DEF Honest
<1>5. server' = [server EXCEPT ![t] = d]
      /\ UNCHANGED <<registry, saved, issued, unsaved, lost, audit>>
  BY DEF Record
<1> HIDE DEF d
<1> QED
  BY <1>4, <1>5, ThreadMoves

LEMMA BillKept ==
    ASSUME EvidenceInv, NEW t \in Server, Bill(t)
    PROVE  EvidenceInv'
<1> DEFINE d == [at |-> "attach", owner |-> server[t].owner,
                 asked |-> server[t].asked, pressure |-> FALSE,
                 status |-> "DENY", category |-> "billing"]
<1>1. Tells(Proof(server[t].asked, "billing", "DENY"), "DENY")
  BY RefusalTells DEF RefusingStatus
<1>2. Honest(d)
  BY <1>1 DEF Honest
<1>3. server' = [server EXCEPT ![t] = d]
      /\ UNCHANGED <<registry, saved, issued, unsaved, lost, audit>>
  BY DEF Bill
<1> HIDE DEF d
<1> QED
  BY <1>2, <1>3, ThreadMoves

\* A new proof enters the books.
LEMMA AttachKept ==
    ASSUME EvidenceInv, NEW t \in Server, NEW written \in BOOLEAN,
           Attach(t, written)
    PROVE  EvidenceInv'
<1> SUFFICES ASSUME NEW d, d = server[t], NEW n \in Nat, DOMAIN issued = 1..n,
                    NEW id \in Nat, id = n + 1
             PROVE  EvidenceInv'
  BY DEF EvidenceInv, Numbered
<1> DEFINE record == [owner |-> d.owner, pressure |-> d.pressure,
                      proof |-> Proof(d.asked, d.category, d.status)]
           told == [owner |-> d.owner, status |-> d.status]
<1>1. Cardinality(1..n) = n
  BY FS_Interval
<1>2. /\ d.at = "attach" /\ Entered(id, record, written)
      /\ issued' = Extended(issued, id, told)
      /\ server' = [server EXCEPT ![t] = Free]
      /\ UNCHANGED <<lost, audit>>
  BY <1>1 DEF Attach
<1>3. d # Free
  BY <1>2 DEF Free
<1>4. Tells(Proof(d.asked, d.category, d.status), d.status)
  BY <1>3 DEF EvidenceInv, Honest
<1>5. /\ record.owner = d.owner /\ told.owner = d.owner
      /\ told.status = d.status
      /\ record.proof = Proof(d.asked, d.category, d.status)
  OBVIOUS
<1>6. record.owner = told.owner /\ Tells(record.proof, told.status)
  BY <1>4, <1>5
<1> HIDE DEF record, told
<1>7. id \notin DOMAIN issued /\ DOMAIN issued' = 1..id /\ id \in Nat
  BY <1>2 DEF Extended
<1>8. /\ issued'[id] = told
      /\ \A i \in DOMAIN issued : issued'[i] = issued[i]
  BY <1>2, <1>7 DEF Extended
<1>9. /\ registry' = Extended(registry, id, record)
      /\ saved' = IF written THEN registry' ELSE saved
      /\ unsaved' = IF written THEN {} ELSE unsaved \cup {id}
  BY <1>2 DEF Entered
<1>10. /\ DOMAIN registry' = DOMAIN registry \cup {id}
       /\ registry'[id] = record
       /\ \A i \in DOMAIN registry : i # id => registry'[i] = registry[i]
  BY <1>9 DEF Extended
<1>11. Told(registry)'
  <2> SUFFICES ASSUME NEW i \in DOMAIN registry'
               PROVE  /\ i \in DOMAIN issued'
                      /\ registry'[i].owner = issued'[i].owner
                      /\ Tells(registry'[i].proof, issued'[i].status)
    BY DEF Told, Tells
  <2>1. CASE i = id
    <3>1. i \in DOMAIN issued'
      BY <1>7, <2>1
    <3>2. registry'[i] = record /\ issued'[i] = told
      BY <1>8, <1>10, <2>1
    <3> QED
      BY <1>6, <3>1, <3>2
  <2>2. CASE i # id
    <3>1. i \in DOMAIN registry /\ registry'[i] = registry[i]
      BY <1>10, <2>2
    <3>2. /\ i \in DOMAIN issued /\ registry[i].owner = issued[i].owner
          /\ Tells(registry[i].proof, issued[i].status)
      BY <3>1 DEF EvidenceInv, Told
    <3>3. i \in DOMAIN issued' /\ issued'[i] = issued[i]
      BY <1>7, <1>8, <3>2
    <3> QED
      BY <3>1, <3>2, <3>3
  <2> QED
    BY <2>1, <2>2
<1>12. Told(saved)'
  <2>1. CASE written
    <3>1. saved' = registry'
      BY <1>9, <2>1
    <3> QED
      BY <1>11, <3>1 DEF Told, Tells
  <2>2. CASE ~written
    <3>1. saved' = saved
      BY <1>9, <2>2
    <3>2. \A i \in DOMAIN saved :
             /\ i \in DOMAIN issued /\ i \in DOMAIN issued'
             /\ issued'[i] = issued[i]
      BY <1>7, <1>8 DEF EvidenceInv, Told
    <3> QED
      BY <3>1, <3>2 DEF EvidenceInv, Told, Tells
  <2> QED
    BY <2>1, <2>2
<1>13. Kept'
  <2> SUFFICES ASSUME NEW i \in DOMAIN issued' \ lost
               PROVE  /\ i \in DOMAIN registry'
                      /\ i \in unsaved' \/ i \in DOMAIN saved'
    BY <1>2 DEF Kept
  <2>1. i = id \/ i \in DOMAIN issued
    BY <1>7
  <2>2. i \in DOMAIN registry'
    BY <1>10, <2>1 DEF EvidenceInv, Kept
  <2>3. CASE written
    BY <1>9, <2>2, <2>3
  <2>4. CASE ~written
    <3>1. unsaved' = unsaved \cup {id} /\ saved' = saved
      BY <1>9, <2>4
    <3>2. i # id => i \in DOMAIN issued \ lost
      BY <1>2, <2>1
    <3>3. i # id => i \in unsaved \/ i \in DOMAIN saved
      BY <3>2 DEF EvidenceInv, Kept
    <3> QED
      BY <2>2, <3>1, <3>3
  <2> QED
    BY <2>2, <2>3, <2>4
<1>14. Numbered'
  BY <1>7 DEF Numbered
<1>15. DOMAIN server' = Server /\ \A u \in Server : Honest(server[u])'
  BY <1>2 DEF EvidenceInv, Honest
<1> QED
  BY <1>2, <1>11, <1>12, <1>13, <1>14, <1>15 DEF EvidenceInv

LEMMA RetrieveKept ==
    ASSUME EvidenceInv, NEW owner, NEW id \in DOMAIN issued, Retrieve(owner, id)
    PROVE  EvidenceInv'
<1>1. UNCHANGED <<server, registry, saved, issued, unsaved, lost>>
  BY DEF Retrieve
<1>2. audit'.found => audit'.rightful
  <2>1. /\ audit'.found = (id \in DOMAIN registry /\ registry[id].owner = owner)
        /\ audit'.rightful = (issued[id].owner = owner)
    BY DEF Retrieve
  <2>2. id \in DOMAIN registry => registry[id].owner = issued[id].owner
    BY DEF EvidenceInv, Told
  <2> QED
    BY <2>1, <2>2
<1> QED
  BY <1>1, <1>2, BooksStay DEF EvidenceInv, Honest

\* What the file holds is there again after a restart.
LEMMA RestartKept ==
    ASSUME EvidenceInv, RestartServer PROVE EvidenceInv'
<1>1. /\ server' = [t \in Server |-> Free] /\ registry' = saved
      /\ lost' = lost \cup unsaved /\ unsaved' = {}
      /\ UNCHANGED <<saved, issued, audit>>
  BY DEF RestartServer
<1>2. Told(registry)' /\ Told(saved)' /\ Numbered'
  BY <1>1 DEF EvidenceInv, Told, Numbered
<1>3. Kept'
  BY <1>1 DEF EvidenceInv, Kept
<1>4. DOMAIN server' = Server /\ \A u \in Server : Honest(server[u])'
  BY <1>1 DEF Honest
<1> QED
  BY <1>1, <1>2, <1>3, <1>4 DEF EvidenceInv

LEMMA EvidenceStep == EvidenceInv /\ [EvidenceNext]_evidenceVars => EvidenceInv'
<1> SUFFICES ASSUME EvidenceInv, [EvidenceNext]_evidenceVars PROVE EvidenceInv'
  OBVIOUS
<1>1. CASE UNCHANGED evidenceVars
  BY <1>1, BooksStay DEF evidenceVars, EvidenceInv, Honest
<1> QED
  BY <1>1, AssessKept, RefuseKept, RecordKept, BillKept, AttachKept, RetrieveKept,
     RestartKept DEF EvidenceNext

\* No proof tells another story than the answer did.
THEOREM ProofsAreHonest == EvidenceSpec => []ProofTellsOutcome
<1>1. EvidenceInv => ProofTellsOutcome
  BY DEF EvidenceInv, Told, Tells, ProofTellsOutcome
<1> QED
  BY <1>1, StartKept, EvidenceStep, PTL DEF EvidenceSpec

\* A decision id can be retrieved by its owner, and by nobody else, unless it
\* was issued after the last write before a restart.
THEOREM ProofsLast == EvidenceSpec => []IssuedProofsLast
<1>1. EvidenceInv => IssuedProofsLast
  BY DEF EvidenceInv, Told, Kept, IssuedProofsLast
<1> QED
  BY <1>1, StartKept, EvidenceStep, PTL DEF EvidenceSpec

-----------------------------------------------------------------------------
(* The queue: division and the epochs.                                     *)

\* Division rounds down and keeps the order.
LEMMA DivisionGrows ==
    ASSUME NEW d \in Nat \ {0}, NEW x \in Nat, NEW y \in Nat, x <= y
    PROVE  x \div d <= y \div d /\ x \div d \in Nat /\ y \div d \in Nat
<1> DEFINE p == x \div d
           q == y \div d
<1>1. p \in Nat /\ q \in Nat /\ d * p <= x /\ y < d * q + d
  OBVIOUS
<1>2. SUFFICES ASSUME p > q PROVE FALSE
  BY <1>1
<1>3. PICK k \in Nat : p = q + 1 + k
  <2>1. p - q - 1 \in Nat /\ p = q + 1 + (p - q - 1)
    BY <1>1, <1>2
  <2> QED
    BY <2>1
<1> HIDE DEF p, q
<1>4. d * p = d * q + d + d * k
  BY <1>1, <1>3
<1>5. d * k \in Nat /\ d * q \in Nat
  BY <1>1, <1>3
<1> QED
  BY <1>1, <1>4, <1>5

LEMMA EpochBetween ==
    ASSUME NEW a \in Nat, NEW b \in Nat, NEW c \in Nat, a <= b, b <= c,
           Epoch(a) = Epoch(c)
    PROVE  Epoch(b) = Epoch(c)
<1>1. EpochLength \in Nat \ {0}
  BY QueueConstants
<1>2. Epoch(a) <= Epoch(b) /\ Epoch(a) \in Nat /\ Epoch(b) \in Nat
  BY <1>1, DivisionGrows DEF Epoch
<1>3. Epoch(b) <= Epoch(c) /\ Epoch(c) \in Nat
  BY <1>1, DivisionGrows DEF Epoch
<1> QED
  BY <1>2, <1>3

-----------------------------------------------------------------------------
Candidate ==
    [rank : 0..2, asset : {d.asset : d \in Decision}, time : Nat, sequence : Nat]

\* What calls that come one at a time leave behind them.
Sorted ==
    /\ arrivals \in Seq(Candidate)
    /\ \A i \in 1..Len(arrivals) :
          arrivals[i].sequence = i /\ arrivals[i].time <= clock
    /\ \A i, j \in 1..Len(arrivals) :
          i <= j => arrivals[i].time <= arrivals[j].time

\* The calls a prune at the time finds.
Remaining(time) ==
    {i \in 1..Len(arrivals) :
        Live(arrivals[i], time) /\ Len(arrivals) - i < QueueCap}

\* The queue behind the last call: that call and what its prune left.
Lined ==
    {i \in 1..Len(arrivals) :
        \/ i = Len(arrivals)
        \/ /\ Live(arrivals[i], arrivals[Len(arrivals)].time)
           /\ Len(arrivals) - 1 - i < QueueCap}

UpToDate(time) ==
    /\ time \in Nat /\ time <= clock
    /\ \A i \in 1..Len(arrivals) : arrivals[i].time <= time

CallerOK(t) ==
    /\ caller[t].at \in {"idle", "prune", "assign", "number", "place"}
    /\ Step(t, "prune") \/ Step(t, "assign") \/ Step(t, "number") =>
          caller[t].decision \in Decision /\ UpToDate(caller[t].time)
    /\ Step(t, "assign") => caller[t].kept = Remaining(caller[t].time)
    /\ Step(t, "number") =>
          queue = Remaining(caller[t].time) /\ caller[t].sequence = Len(arrivals) + 1
    /\ Step(t, "place") =>
          /\ Len(arrivals) > 0
          /\ caller[t].sequence = Len(arrivals)
          /\ caller[t].decision.asset = arrivals[Len(arrivals)].asset

QueueInv ==
    /\ caller = [t \in Thread |-> caller[t]]
    /\ raced \in BOOLEAN /\ clock \in Nat
    /\ ~raced =>
          /\ Sorted /\ nextSequence = Len(arrivals) + 1
          /\ \A t, u \in Thread : ~Step(t, "idle") /\ ~Step(u, "idle") => t = u
          /\ \A t \in Thread : CallerOK(t)
          /\ (\A t \in Thread : ~Step(t, "number")) => queue = Lined
    /\ SerialCallsRanked

LEMMA SortedFacts ==
    ASSUME Sorted
    PROVE  /\ Len(arrivals) \in Nat
           /\ \A i \in 1..Len(arrivals) :
                 /\ arrivals[i].rank \in 0..2 /\ arrivals[i].time \in Nat
                 /\ arrivals[i].sequence = i /\ arrivals[i].time <= clock
           /\ \A i, j \in 1..Len(arrivals) :
                 i <= j => arrivals[i].time <= arrivals[j].time
<1>1. arrivals \in Seq(Candidate)
  BY DEF Sorted
<1>2. Len(arrivals) \in Nat /\ \A i \in 1..Len(arrivals) : arrivals[i] \in Candidate
  BY <1>1
<1>3. ASSUME NEW c \in Candidate PROVE c.rank \in 0..2 /\ c.time \in Nat
  BY <1>3 DEF Candidate
<1> QED
  BY <1>2, <1>3 DEF Sorted

LEMMA LiveLater ==
    ASSUME NEW a, NEW b, a.time \in Nat, b.time \in Nat, NEW t \in Nat,
           a.time <= b.time, b.time <= t, Live(a, t)
    PROVE  Live(b, t) /\ Live(a, b.time)
<1>1. Epoch(b.time) = Epoch(t)
  BY EpochBetween DEF Live
<1>2. Epoch(a.time) = Epoch(b.time)
  BY <1>1 DEF Live
<1> QED
  BY <1>1, <1>2, QueueConstants DEF Live

\* All of the calls up to m that follow one of the set are in it.
EndOf(L, m) == L \subseteq 1..m /\ \A i \in L, j \in 1..m : i <= j => j \in L

LEMMA LastOfEnd ==
    ASSUME NEW m \in Nat, NEW L, EndOf(L, m), NEW n \in Nat
    PROVE  LastOf(L, n) = {i \in L : m - i < n}
<1>1. ASSUME NEW i \in L PROVE Cardinality({j \in L : j > i}) = m - i
  <2>0. i \in 1..m
    BY DEF EndOf
  <2>1. ASSUME NEW j \in L, j > i PROVE j \in (i + 1)..m
    <3>1. j \in 1..m
      BY DEF EndOf
    <3> QED
      BY <2>0, <2>1, <3>1
  <2>4. ASSUME NEW j \in (i + 1)..m PROVE j \in L /\ j > i
    <3>1. j \in 1..m /\ i <= j /\ j > i
      BY <2>0, <2>4
    <3> QED
      BY <3>1 DEF EndOf
  <2>3. {j \in L : j > i} = (i + 1)..m
    BY <2>1, <2>4
  <2>2. Cardinality((i + 1)..m) = m - i
    BY <2>0, FS_Interval
  <2> QED
    BY <2>2, <2>3
<1> QED
  BY <1>1 DEF LastOf

\* Of all calls so far a prune finds the latest of the live ones.
LEMMA PrunedHistory ==
    ASSUME Sorted, NEW m \in 0..Len(arrivals), NEW t \in Nat,
           \A i \in 1..m : arrivals[i].time <= t
    PROVE  Pruned(1..m, t) = {i \in 1..m : Live(arrivals[i], t) /\ m - i < QueueCap}
<1>0. SUFFICES ASSUME NEW L, L = {i \in 1..m : Live(arrivals[i], t)}
               PROVE  LastOf(L, QueueCap) = {i \in L : m - i < QueueCap}
  BY DEF Pruned
<1>2. m \in Nat /\ m <= Len(arrivals) /\ Len(arrivals) \in Nat
  BY DEF Sorted
<1>1. ASSUME NEW i \in 1..m, NEW j \in 1..m, i \in L, i <= j PROVE j \in L
  <2>1. /\ i \in 1..Len(arrivals) /\ j \in 1..Len(arrivals) /\ i <= j
        /\ Live(arrivals[i], t) /\ j \in 1..m /\ i \in 1..m
    BY <1>0, <1>1, <1>2
  <2>2. /\ arrivals[i].time \in Nat /\ arrivals[j].time \in Nat
        /\ arrivals[i].time <= arrivals[j].time /\ arrivals[j].time <= t
    BY <2>1, SortedFacts
  <2> QED
    BY <1>0, <2>1, <2>2, LiveLater
<1>3. EndOf(L, m)
  BY <1>0, <1>1 DEF EndOf
<1>4. QueueCap \in Nat
  BY QueueConstants
<1> QED
  BY <1>2, <1>3, <1>4, LastOfEnd

\* And the queue has not forgotten one of them.
LEMMA PrunedQueue ==
    ASSUME Sorted, NEW t, UpToDate(t) PROVE Pruned(Lined, t) = Remaining(t)
<1>0. SUFFICES ASSUME NEW L, L = {i \in Lined : Live(arrivals[i], t)},
                      NEW n, n = Len(arrivals)
               PROVE  LastOf(L, QueueCap) = Remaining(t)
  BY DEF Pruned
<1>1. n \in Nat /\ L \subseteq 1..n /\ t \in Nat
  BY <1>0 DEF Lined, Sorted, UpToDate
<1>2. ASSUME NEW i \in 1..n, NEW j \in 1..n, i <= j, Live(arrivals[i], t)
      PROVE  Live(arrivals[j], t) /\ Live(arrivals[i], arrivals[j].time)
  <2>1. /\ arrivals[i].time \in Nat /\ arrivals[j].time \in Nat
        /\ arrivals[i].time <= arrivals[j].time /\ arrivals[j].time <= t
    BY <1>0, <1>1, <1>2, SortedFacts DEF UpToDate
  <2> QED
    BY <1>1, <1>2, <2>1, LiveLater
<1>3. ASSUME NEW i \in 1..n, NEW j \in 1..n, i \in L, i <= j PROVE j \in L
  <2>1. i \in 1..n /\ j \in 1..n /\ i <= j /\ Live(arrivals[i], t) /\ i \in Lined
    BY <1>0, <1>1, <1>3
  <2>2. Live(arrivals[j], t)
    BY <1>2, <2>1
  <2>3. CASE j = n
    BY <1>0, <2>1, <2>2, <2>3 DEF Lined
  <2>4. CASE j # n
    <3>1. n - 1 - i < QueueCap
      <4>1. i # n
        BY <2>1, <2>4, <1>1
      <4> QED
        BY <1>0, <2>1, <4>1 DEF Lined
    <3>2. Live(arrivals[j], arrivals[n].time)
      BY <1>1, <1>2, <2>1, <2>2
    <3> QED
      BY <1>0, <1>1, <2>1, <2>2, <3>1, <3>2, QueueConstants DEF Lined
  <2> QED
    BY <2>3, <2>4
<1>4. LastOf(L, QueueCap) = {i \in L : n - i < QueueCap}
  <2>1. QueueCap \in Nat
    BY QueueConstants
  <2>2. EndOf(L, n)
    BY <1>1, <1>3 DEF EndOf
  <2> QED
    BY <1>1, <2>1, <2>2, LastOfEnd
<1>5. ASSUME NEW i \in 1..n, Live(arrivals[i], t), n - i < QueueCap
      PROVE  i \in L
  <2>1. Live(arrivals[i], arrivals[n].time)
    BY <1>1, <1>2, <1>5
  <2> QED
    BY <1>0, <1>1, <1>5, <2>1, QueueConstants DEF Lined
<1> QED
  BY <1>0, <1>1, <1>4, <1>5 DEF Remaining

LEMMA GotoMoves ==
    ASSUME NEW t \in Thread, NEW r, Goto(t, r), caller = [u \in Thread |-> caller[u]]
    PROVE  /\ caller' = [u \in Thread |-> caller'[u]]
           /\ caller'[t] = r /\ \A u \in Thread \ {t} : caller'[u] = caller[u]
  BY DEF Goto

LEMMA QueueStart == QueueInit => QueueInv
<1> SUFFICES ASSUME QueueInit PROVE QueueInv
  OBVIOUS
<1>1. arrivals \in Seq(Candidate) /\ Len(arrivals) = 0
  BY DEF QueueInit
<1>2. \A t \in Thread : Step(t, "idle") /\ caller[t].at = "idle"
  BY DEF QueueInit, Idle, Step
<1>3. \A t \in Thread : CallerOK(t)
  BY <1>2 DEF CallerOK, Step
<1>4. Sorted
  BY <1>1 DEF Sorted
<1>5. queue = Lined
  BY <1>1 DEF QueueInit, Lined
<1>6. SerialCallsRanked
  BY DEF SerialCallsRanked, QueueInit
<1>7. nextSequence = Len(arrivals) + 1
  BY <1>1 DEF QueueInit
<1>8. caller = [t \in Thread |-> caller[t]] /\ raced \in BOOLEAN /\ clock \in Nat
  BY DEF QueueInit
<1> QED
  BY <1>2, <1>3, <1>4, <1>5, <1>6, <1>7, <1>8 DEF QueueInv

\* The history stands as long as nothing is appended and the clock goes on.
LEMMA HistoryKept ==
    ASSUME Sorted, clock \in Nat, clock' \in Nat, clock <= clock', arrivals' = arrivals
    PROVE  Sorted' /\ Lined' = Lined
<1>1. \A i \in 1..Len(arrivals) : arrivals[i].time <= clock'
  BY SortedFacts
<1>2. Sorted'
  BY <1>1 DEF Sorted
<1>3. Lined' = Lined
  BY DEF Lined, Live, Epoch
<1> QED
  BY <1>2, <1>3

LEMMA CallKept ==
    ASSUME NEW t, UpToDate(t), clock \in Nat, clock' \in Nat, clock <= clock',
           arrivals' = arrivals
    PROVE  UpToDate(t)' /\ Remaining(t)' = Remaining(t)
<1>1. Remaining(t)' = Remaining(t)
  BY DEF Remaining, Live, Epoch
<1> QED
  BY <1>1 DEF UpToDate

LEMMA ArriveKept ==
    ASSUME QueueInv, NEW t \in Thread, NEW d \in Decision, Arrive(t, d)
    PROVE  QueueInv'
<1>1. /\ caller' = [u \in Thread |-> caller'[u]]
      /\ caller'[t] = [at |-> "prune", decision |-> d, time |-> clock]
      /\ \A u \in Thread \ {t} : caller'[u] = caller[u]
  BY GotoMoves DEF QueueInv, Arrive
<1>2. raced' \in BOOLEAN /\ clock' = clock /\ clock \in Nat
  BY DEF QueueInv, Arrive
<1>3. SerialCallsRanked'
  BY <1>1 DEF SerialCallsRanked, Step
<1>4. ASSUME ~raced'
      PROVE  /\ Sorted' /\ nextSequence' = Len(arrivals') + 1
             /\ \A v, u \in Thread : ~Step(v, "idle")' /\ ~Step(u, "idle")' => v = u
             /\ \A u \in Thread : CallerOK(u)'
             /\ (\A u \in Thread : ~Step(u, "number")') => queue' = Lined'
  <2>1. ~raced /\ \A u \in Thread : Step(u, "idle")
    BY <1>4 DEF Arrive
  <2>2. Sorted /\ nextSequence = Len(arrivals) + 1 /\ queue = Lined
    BY <2>1 DEF QueueInv, Step
  <2>3. arrivals' = arrivals /\ nextSequence' = nextSequence /\ queue' = queue
    BY DEF Arrive
  <2>4. Sorted' /\ Lined' = Lined
    BY <1>2, <2>2, <2>3, HistoryKept
  <2>5. UpToDate(clock)'
    BY <1>2, <2>3, <2>2, SortedFacts DEF UpToDate
  <2>6. \A u \in Thread \ {t} : Step(u, "idle")'
    BY <1>1, <2>1 DEF Step
  <2>7. CallerOK(t)'
    BY <1>1, <1>2, <2>5 DEF CallerOK, Step
  <2>8. \A u \in Thread \ {t} : CallerOK(u)'
    BY <2>6 DEF CallerOK, Step
  <2> QED
    BY <2>2, <2>3, <2>4, <2>6, <2>7, <2>8
<1> QED
  BY <1>1, <1>2, <1>3, <1>4 DEF QueueInv

\* What a thread that is in the queue alone leaves to be shown.
InLine ==
    /\ Sorted /\ nextSequence = Len(arrivals) + 1
    /\ (\A u \in Thread : ~Step(u, "number")) => queue = Lined

LEMMA AloneKept ==
    ASSUME QueueInv, NEW t \in Thread, ~Step(t, "idle"), NEW r, Goto(t, r),
           raced' = raced, clock' = clock, SerialCallsRanked',
           ASSUME ~raced, \A u \in Thread \ {t} : Step(u, "idle") /\ Step(u, "idle")'
           PROVE  InLine' /\ CallerOK(t)'
    PROVE  QueueInv'
<1>1. /\ caller' = [u \in Thread |-> caller'[u]]
      /\ \A u \in Thread \ {t} : caller'[u] = caller[u]
  BY GotoMoves DEF QueueInv
<1>2. raced' \in BOOLEAN /\ clock' \in Nat
  BY DEF QueueInv
<1>3. ASSUME ~raced'
      PROVE  /\ InLine'
             /\ \A v, u \in Thread : ~Step(v, "idle")' /\ ~Step(u, "idle")' => v = u
             /\ \A u \in Thread : CallerOK(u)'
  <2>1. ~raced /\ \A u \in Thread \ {t} : Step(u, "idle")
    BY <1>3 DEF QueueInv
  <2>2. \A u \in Thread \ {t} : Step(u, "idle")'
    BY <1>1, <2>1 DEF Step
  <2>3. InLine' /\ CallerOK(t)'
    BY <2>1, <2>2
  <2>4. \A u \in Thread \ {t} : CallerOK(u)'
    BY <2>2 DEF CallerOK, Step
  <2> QED
    BY <2>2, <2>3, <2>4
<1> QED
  BY <1>1, <1>2, <1>3 DEF QueueInv, InLine

LEMMA PruneKept ==
    ASSUME QueueInv, NEW t \in Thread, Prune(t) PROVE QueueInv'
<1> DEFINE r == [at |-> "assign", decision |-> caller[t].decision,
                 time |-> caller[t].time, kept |-> Pruned(queue, caller[t].time)]
<1>1. Goto(t, r) /\ ~Step(t, "idle") /\ raced' = raced /\ clock' = clock
  BY DEF Prune, Step
<1>2. caller'[t] = r
  BY <1>1, GotoMoves DEF QueueInv
<1>3. SerialCallsRanked'
  BY <1>2 DEF SerialCallsRanked, Step
<1>4. ASSUME ~raced, \A u \in Thread \ {t} : Step(u, "idle") /\ Step(u, "idle")'
      PROVE  InLine' /\ CallerOK(t)'
  <2>1. \A u \in Thread : ~Step(u, "number")
    BY <1>4 DEF Prune, Step
  <2>2. /\ Sorted /\ nextSequence = Len(arrivals) + 1 /\ queue = Lined
        /\ CallerOK(t) /\ clock \in Nat
    BY <1>4, <2>1 DEF QueueInv
  <2>3. /\ arrivals' = arrivals /\ nextSequence' = nextSequence /\ queue' = queue
        /\ Step(t, "prune")
    BY DEF Prune
  <2>4. Sorted' /\ Lined' = Lined
    BY <1>1, <2>2, <2>3, HistoryKept
  <2>5. SUFFICES ASSUME NEW now, now = caller[t].time PROVE InLine' /\ CallerOK(t)'
    OBVIOUS
  <2>6. UpToDate(now) /\ caller[t].decision \in Decision
    BY <2>2, <2>3, <2>5 DEF CallerOK
  <2>7. UpToDate(now)' /\ Remaining(now)' = Remaining(now)
    BY <1>1, <2>2, <2>3, <2>6, CallKept
  <2>8. Pruned(queue, now) = Remaining(now)
    BY <2>2, <2>6, PrunedQueue
  <2>9. /\ caller'[t].at = "assign" /\ caller'[t].time = now
        /\ caller'[t].decision = caller[t].decision /\ caller'[t].kept = Remaining(now)
    BY <1>2, <2>5, <2>8
  <2>10. CallerOK(t)'
    BY <2>6, <2>7, <2>9 DEF CallerOK, Step
  <2> QED
    BY <2>2, <2>3, <2>4, <2>10 DEF InLine
<1> HIDE DEF r
<1> QED
  BY <1>1, <1>3, <1>4, AloneKept

LEMMA AssignKept ==
    ASSUME QueueInv, NEW t \in Thread, Assign(t) PROVE QueueInv'
<1> DEFINE r == [at |-> "number", decision |-> caller[t].decision,
                 time |-> caller[t].time, sequence |-> nextSequence]
<1>1. Goto(t, r) /\ ~Step(t, "idle") /\ raced' = raced /\ clock' = clock
  BY DEF Assign, Step
<1>2. caller'[t] = r
  BY <1>1, GotoMoves DEF QueueInv
<1>3. SerialCallsRanked'
  BY <1>2 DEF SerialCallsRanked, Step
<1>4. ASSUME ~raced, \A u \in Thread \ {t} : Step(u, "idle") /\ Step(u, "idle")'
      PROVE  InLine' /\ CallerOK(t)'
  <2>2. /\ Sorted /\ nextSequence = Len(arrivals) + 1
        /\ CallerOK(t) /\ clock \in Nat
    BY <1>4 DEF QueueInv
  <2>3. /\ arrivals' = arrivals /\ nextSequence' = nextSequence
        /\ queue' = caller[t].kept /\ Step(t, "assign")
    BY DEF Assign
  <2>4. Sorted' /\ Lined' = Lined
    BY <1>1, <2>2, <2>3, HistoryKept
  <2>5. SUFFICES ASSUME NEW now, now = caller[t].time PROVE InLine' /\ CallerOK(t)'
    OBVIOUS
  <2>6. /\ UpToDate(now) /\ caller[t].decision \in Decision
        /\ caller[t].kept = Remaining(now)
    BY <2>2, <2>3, <2>5 DEF CallerOK
  <2>7. UpToDate(now)' /\ Remaining(now)' = Remaining(now)
    BY <1>1, <2>2, <2>3, <2>6, CallKept
  <2>9. /\ caller'[t].at = "number" /\ caller'[t].time = now
        /\ caller'[t].decision = caller[t].decision
        /\ caller'[t].sequence = nextSequence
    BY <1>2, <2>5
  <2>10. CallerOK(t)'
    BY <2>2, <2>3, <2>6, <2>7, <2>9 DEF CallerOK, Step
  <2>11. Step(t, "number")'
    BY <2>9 DEF Step
  <2> QED
    BY <2>2, <2>3, <2>4, <2>10, <2>11 DEF InLine
<1> HIDE DEF r
<1> QED
  BY <1>1, <1>3, <1>4, AloneKept

LEMMA EnqueueKept ==
    ASSUME QueueInv, NEW t \in Thread, Enqueue(t) PROVE QueueInv'
<1> DEFINE r == [caller[t] EXCEPT !.at = "place"]
<1>1. Goto(t, r) /\ ~Step(t, "idle") /\ raced' = raced /\ clock' = clock
  BY DEF Enqueue, Step
<1>2. caller'[t] = r /\ Step(t, "number")
  BY <1>1, GotoMoves DEF QueueInv, Enqueue
<1>0. CallerOK(t) /\ ~raced => Step(t, "place")'
  BY <1>2 DEF CallerOK, Step
<1>4. ASSUME ~raced, \A u \in Thread \ {t} : Step(u, "idle") /\ Step(u, "idle")'
      PROVE  InLine' /\ CallerOK(t)' /\ Step(t, "place")'
  <2>1. SUFFICES ASSUME NEW n, n = Len(arrivals), NEW now, now = caller[t].time,
                        NEW e, e = [rank |-> caller[t].decision.rank,
                                    asset |-> caller[t].decision.asset,
                                    time |-> now, sequence |-> caller[t].sequence]
                 PROVE  InLine' /\ CallerOK(t)' /\ Step(t, "place")'
    OBVIOUS
  <2>2. Sorted /\ CallerOK(t) /\ clock \in Nat /\ n \in Nat
    BY <1>4, <2>1 DEF QueueInv, Sorted
  <2>3. /\ UpToDate(now) /\ caller[t].decision \in Decision
        /\ queue = Remaining(now) /\ caller[t].sequence = n + 1
    BY <1>2, <2>1, <2>2 DEF CallerOK
  <2>4. /\ e.rank \in 0..2 /\ e.asset = caller[t].decision.asset
        /\ e.time = now /\ e.sequence = n + 1 /\ now \in Nat /\ now <= clock
    BY <2>1, <2>3, QueueConstants DEF UpToDate
  <2>5. e \in Candidate
    BY <2>1, <2>3, <2>4 DEF Candidate
  <2>6. arrivals' = Append(arrivals, e)
    BY <2>1 DEF Enqueue
  <2>7. /\ arrivals' \in Seq(Candidate) /\ Len(arrivals') = n + 1
        /\ arrivals'[n + 1] = e /\ \A i \in 1..n : arrivals'[i] = arrivals[i]
    BY <2>1, <2>2, <2>5, <2>6 DEF Sorted
  <2>8. Sorted'
    <3>1. \A i \in 1..(n + 1) : i \in 1..n \/ i = n + 1
      BY <2>2
    <3>2. \A i \in 1..(n + 1) : arrivals'[i].sequence = i /\ arrivals'[i].time <= clock
      BY <2>1, <2>2, <2>4, <2>7, <3>1, SortedFacts
    <3>3. \A i, j \in 1..(n + 1) : i <= j => arrivals'[i].time <= arrivals'[j].time
      <4>1. \A i \in 1..n : arrivals[i].time <= now
        BY <2>1, <2>3 DEF UpToDate
      <4> QED
        BY <2>1, <2>2, <2>4, <2>7, <3>1, <4>1, SortedFacts
    <3> QED
      BY <1>1, <2>7, <3>2, <3>3 DEF Sorted
  <2>9. queue' = Lined'
    <3>1. queue' = Remaining(now) \cup {n + 1}
      BY <2>3, <2>7 DEF Enqueue
    <3>5. SUFFICES ASSUME NEW N, N = Len(arrivals'), NEW T, T = arrivals'[N].time
                   PROVE  queue' = Lined'
      OBVIOUS
    <3>6. N = n + 1 /\ T = now
      BY <2>4, <2>7, <3>5
    <3>2. \A i \in 1..n : Live(arrivals'[i], T) <=> Live(arrivals[i], now)
      BY <2>7, <3>6
    <3>3. \A i : i \in Lined' <=>
                    /\ i \in 1..N
                    /\ \/ i = N
                       \/ Live(arrivals'[i], T) /\ N - 1 - i < QueueCap
      BY <3>5 DEF Lined, Live, Epoch
    <3>4. \A i : i \in Remaining(now) <=>
                    i \in 1..n /\ Live(arrivals[i], now) /\ n - i < QueueCap
      BY <2>1 DEF Remaining
    <3> QED
      BY <2>2, <3>1, <3>2, <3>3, <3>4, <3>6
  <2>10. nextSequence' = Len(arrivals') + 1
    BY <2>2, <2>3, <2>7 DEF Enqueue
  <2>11. Step(t, "place")'
    BY <1>0, <1>4, <2>2
  <2>12. CallerOK(t)'
    <3>1. /\ caller'[t].sequence = caller[t].sequence
          /\ caller'[t].decision = caller[t].decision
      BY <1>2
    <3> QED
      BY <2>2, <2>3, <2>4, <2>7, <2>11, <3>1 DEF CallerOK, Step
  <2> QED
    BY <2>8, <2>9, <2>10, <2>11, <2>12 DEF InLine
<1>3. SerialCallsRanked'
  <2>1. SUFFICES ASSUME ~raced, \A u \in Thread : Step(u, "idle")' PROVE FALSE
    BY <1>1 DEF SerialCallsRanked
  <2>2. \A u \in Thread \ {t} : Step(u, "idle")
    BY <1>1, <2>1 DEF QueueInv
  <2> QED
    BY <1>4, <2>1, <2>2 DEF Step
<1> HIDE DEF r
<1> QED
  BY <1>1, <1>3, <1>4, AloneKept

LEMMA MoreThanOne ==
    ASSUME NEW S, IsFiniteSet(S), NEW x \in S
    PROVE  Cardinality(S) > 1 <=> \E y \in S : y # x
<1>1. IsFiniteSet(S \ {x}) /\ Cardinality(S \ {x}) = Cardinality(S) - 1
  BY FS_RemoveElement
<1>2. Cardinality(S \ {x}) = 0 <=> S \ {x} = {}
  BY <1>1, FS_EmptySet
<1>3. Cardinality(S) \in Nat /\ Cardinality(S \ {x}) \in Nat
  BY <1>1, FS_CardinalityType
<1> QED
  BY <1>1, <1>2, <1>3

\* What the n-th call, placed alone, is to be told.
Ranked(told, n) ==
    LET own == arrivals[n]
        live == Pruned(1..(n - 1), own.time)
        ahead == {i \in live : arrivals[i].rank <= own.rank}
    IN  /\ told.position = {1 + Cardinality(ahead)}
        /\ told.batch <=> \E i \in live : arrivals[i].asset = own.asset

LEMMA PlaceKept ==
    ASSUME QueueInv, NEW t \in Thread, Place(t) PROVE QueueInv'
<1>1. Goto(t, Idle) /\ ~Step(t, "idle") /\ raced' = raced /\ clock' = clock
  BY DEF Place, Step
<1>2. caller'[t] = Idle /\ Step(t, "place") /\ Step(t, "idle")'
  BY <1>1, GotoMoves DEF QueueInv, Place, Idle, Step
<1>3. /\ arrivals' = arrivals /\ queue' = queue /\ nextSequence' = nextSequence
  BY DEF Place
<1>4. ASSUME ~raced, \A u \in Thread \ {t} : Step(u, "idle")
      PROVE  /\ Sorted /\ CallerOK(t) /\ queue = Lined /\ clock \in Nat
             /\ nextSequence = Len(arrivals) + 1
  <2>1. \A u \in Thread : ~Step(u, "number")
    BY <1>2, <1>4 DEF Step
  <2> QED
    BY <1>4, <2>1 DEF QueueInv
<1>5. ASSUME ~raced, \A u \in Thread \ {t} : Step(u, "idle") /\ Step(u, "idle")'
      PROVE  InLine' /\ CallerOK(t)'
  <2>1. Sorted' /\ Lined' = Lined
    BY <1>1, <1>3, <1>4, <1>5, HistoryKept
  <2>2. CallerOK(t)'
    BY <1>2 DEF CallerOK, Step
  <2> QED
    BY <1>3, <1>4, <1>5, <2>1, <2>2 DEF InLine
<1>6. SerialCallsRanked'
  <2>1a. SUFFICES ASSUME ~raced, \A u \in Thread \ {t} : Step(u, "idle")
                 PROVE  Ranked(placed', Len(arrivals))
    <3>1. placed'.call = Len(arrivals)
      BY DEF Place
    <3>2. \A u \in Thread \ {t} : Step(u, "idle")' => Step(u, "idle")
      BY <1>1, GotoMoves DEF QueueInv, Step
    <3>3. SerialCallsRanked' <=>
            (~raced /\ placed'.call > 0 /\ placed'.call = Len(arrivals)
               /\ (\A u \in Thread : Step(u, "idle")')
                 => Ranked(placed', placed'.call))
      BY <1>1, <1>3 DEF SerialCallsRanked, Ranked, Pruned, LastOf, Live, Epoch
    <3> QED
      BY <3>1, <3>2, <3>3
  <2>1b. SUFFICES ASSUME NEW n, n = Len(arrivals), NEW own, own = arrivals[n],
                        NEW live, live = Pruned(1..(n - 1), own.time)
                 PROVE  Ranked(placed', Len(arrivals))
    OBVIOUS
  <2>0. /\ ~raced /\ \A u \in Thread \ {t} : Step(u, "idle")
        /\ n = Len(arrivals) /\ own = arrivals[n]
        /\ live = Pruned(1..(n - 1), own.time)
    BY <2>1a, <2>1b
  <2>1. /\ Sorted /\ CallerOK(t) /\ queue = Lined /\ n \in Nat /\ n > 0
        /\ caller[t].sequence = n /\ caller[t].decision.asset = own.asset
    BY <1>2, <1>4, <2>0, SortedFacts DEF CallerOK
  <2>2. /\ placed'.position = PlaceOf(queue, n)
        /\ placed'.batch <=>
              Cardinality({i \in queue : arrivals[i].asset = own.asset}) > 1
    BY <2>1 DEF Place
  <2>3. /\ own.rank \in Nat /\ own.time \in Nat
        /\ \A i \in 1..n : arrivals[i].rank \in Nat /\ arrivals[i].sequence = i
        /\ \A i \in 1..(n - 1) : arrivals[i].time <= own.time
    BY <2>0, <2>1, SortedFacts
  <2>4. live = {i \in 1..(n - 1) : Live(arrivals[i], own.time) /\ n - 1 - i < QueueCap}
    <3>1. SUFFICES ASSUME NEW m, m = n - 1
                   PROVE  live = {i \in 1..m : Live(arrivals[i], own.time) /\ m - i < QueueCap}
      OBVIOUS
    <3>2. /\ m \in 0..Len(arrivals) /\ own.time \in Nat /\ Sorted
          /\ \A i \in 1..m : arrivals[i].time <= own.time
      BY <2>0, <2>1, <2>3, <3>1
    <3>3. live = Pruned(1..m, own.time)
      BY <2>0, <3>1
    <3> QED
      BY <3>2, <3>3, PrunedHistory
  <2>5. queue = live \cup {n} /\ live \subseteq 1..(n - 1)
    BY <2>0, <2>1, <2>4 DEF Lined
  <2>6. queue \subseteq 1..n /\ IsFiniteSet(queue)
    <3>1. ASSUME NEW i \in queue PROVE i \in 1..n
      <4>1. n \in Nat /\ n > 0 /\ (i = n \/ i \in 1..(n - 1))
        BY <2>1, <2>5, <3>1
      <4> QED
        BY <4>1
    <3>2. queue \in SUBSET (1..n)
      BY <3>1
    <3>3. IsFiniteSet(1..n)
      BY <2>1, FS_Interval
    <3> QED
      BY <3>2, <3>3, FS_Subset
  <2>7. PlaceOf(queue, n) = {1 + Cardinality({i \in live : arrivals[i].rank <= own.rank})}
    <3>1. {arrivals[i].rank : i \in {j \in queue : arrivals[j].sequence = n}} = {own.rank}
      <4>1. {j \in queue : arrivals[j].sequence = n} = {n}
        BY <2>1, <2>3, <2>5, <2>6
      <4> QED
        BY <2>0, <4>1
    <3>2. {i \in queue : \/ arrivals[i].rank < own.rank
                         \/ arrivals[i].rank = own.rank /\ arrivals[i].sequence < n}
            = {i \in live : arrivals[i].rank <= own.rank}
      BY <2>0, <2>1, <2>3, <2>5
    <3>3. {r \in {own.rank} : \A other \in {own.rank} : r <= other} = {own.rank}
      BY <2>3
    <3>4. PlaceOf(queue, n) =
            {1 + Cardinality({i \in queue :
                   \/ arrivals[i].rank < rank
                   \/ arrivals[i].rank = rank /\ arrivals[i].sequence < n}) :
             rank \in {own.rank}}
      BY <3>1, <3>3 DEF PlaceOf
    <3> QED
      BY <3>2, <3>4
  <2>8. Cardinality({i \in queue : arrivals[i].asset = own.asset}) > 1
          <=> \E i \in live : arrivals[i].asset = own.asset
    <3>1. SUFFICES ASSUME NEW S, S = {i \in queue : arrivals[i].asset = own.asset}
          PROVE  Cardinality(S) > 1 <=> \E i \in live : arrivals[i].asset = own.asset
      OBVIOUS
    <3>2. IsFiniteSet(S) /\ n \in S
      BY <2>0, <2>5, <2>6, <3>1, FS_Subset
    <3>3. (\E y \in S : y # n) <=> \E i \in live : arrivals[i].asset = own.asset
      BY <2>1, <2>5, <3>1
    <3> QED
      BY <3>2, <3>3, MoreThanOne
  <2>9. placed'.batch <=> \E i \in live : arrivals[i].asset = own.asset
    BY <2>2, <2>8
  <2> QED
    BY <2>0, <2>2, <2>7, <2>9 DEF Ranked
<1> QED
  BY <1>1, <1>5, <1>6, AloneKept

LEMMA TimePasses ==
    ASSUME QueueInv, clock' \in Nat, clock <= clock',
           queue' = queue, nextSequence' = nextSequence, caller' = caller,
           arrivals' = arrivals, placed' = placed, raced' = raced
    PROVE  QueueInv'
<1>1. clock \in Nat
  BY DEF QueueInv
<1>3. SerialCallsRanked'
  <2>1. SerialCallsRanked' <=> SerialCallsRanked
    BY DEF SerialCallsRanked, Pruned, LastOf, Live, Epoch, Step
  <2> QED
    BY <2>1 DEF QueueInv
<1>4. ASSUME ~raced
      PROVE  Sorted' /\ Lined' = Lined /\ \A t \in Thread : CallerOK(t)'
  <2>1. Sorted' /\ Lined' = Lined
    BY <1>1, <1>4, HistoryKept DEF QueueInv
  <2>2. ASSUME NEW t \in Thread PROVE CallerOK(t)'
    <3>0. SUFFICES ASSUME NEW now, now = caller[t].time PROVE CallerOK(t)'
      OBVIOUS
    <3>1. CallerOK(t)
      BY <1>4 DEF QueueInv
    <3>2. UpToDate(now) => UpToDate(now)' /\ Remaining(now)' = Remaining(now)
      BY <1>1, CallKept
    <3>3. Step(t, "number") => UpToDate(now)
      BY <3>0, <3>1 DEF CallerOK
    <3>4. Step(t, "assign") => UpToDate(now)
      BY <3>0, <3>1 DEF CallerOK
    <3> QED
      BY <3>0, <3>1, <3>2, <3>3, <3>4 DEF CallerOK, Step
  <2> QED
    BY <2>1, <2>2
<1> QED
  BY <1>1, <1>3, <1>4 DEF QueueInv, Step

LEMMA QueueStep == QueueInv /\ [QueueNext]_queueVars => QueueInv'
<1> SUFFICES ASSUME QueueInv, [QueueNext]_queueVars PROVE QueueInv'
  OBVIOUS
<1>1. CASE UNCHANGED queueVars
  <2>1. clock' = clock /\ clock \in Nat
    BY <1>1 DEF queueVars, QueueInv
  <2> QED
    BY <1>1, <2>1, TimePasses DEF queueVars
<1>2. CASE QueueTick
  <2>1. clock' = clock + 1 /\ clock \in Nat
    BY <1>2 DEF QueueTick, QueueInv
  <2> QED
    BY <1>2, <2>1, TimePasses DEF QueueTick
<1>3. CASE \E t \in Thread, d \in Decision : Arrive(t, d)
  BY <1>3, ArriveKept
<1>4. CASE \E t \in Thread : Prune(t) \/ Assign(t) \/ Enqueue(t) \/ Place(t)
  BY <1>4, PruneKept, AssignKept, EnqueueKept, PlaceKept
<1> QED
  BY <1>1, <1>2, <1>3, <1>4 DEF QueueNext

\* Calls that come one at a time are told their rank among all the calls
\* that are still live, whatever has expired, changed epoch or fallen off
\* the cap since (_evaluate_queue_governance, _prune_queue_entries).
THEOREM SerialCallsAreRanked == QueueSpec => []SerialCallsRanked
<1>1. QueueInv => SerialCallsRanked
  BY DEF QueueInv
<1> QED
  BY QueueStart, QueueStep, <1>1, PTL DEF QueueSpec

=============================================================================

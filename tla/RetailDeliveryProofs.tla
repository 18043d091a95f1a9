------------------------ MODULE RetailDeliveryProofs ------------------------
(***************************************************************************)
(* Proofs about RetailDelivery for every set of workers, requests, builds  *)
(* and settlements.                                                        *)
(***************************************************************************)
EXTENDS RetailDelivery, FiniteSetTheorems, TLAPS

\* Moving a worker, or ending its request, keeps pc and job well-typed.
LEMMA GotoType ==
    ASSUME TypeOK, NEW w \in Worker, NEW s \in Step, Goto(w, s)
    PROVE  pc' \in [Worker -> Step]
  BY DEF Goto, TypeOK

LEMMA FinishType ==
    ASSUME TypeOK, NEW w \in Worker, Finish(w)
    PROVE  pc' \in [Worker -> Step] /\ job' \in [Worker -> Job]
<1>1. NoJob \in Job
  BY DEF NoJob, Job
<1>2. pc' \in [Worker -> Step]
  BY GotoType DEF Finish, Step
<1>3. job' \in [Worker -> Job]
  BY <1>1 DEF Finish, TypeOK
<1> QED
  BY <1>2, <1>3

\* Marking a delivery keeps the rows well-formed.
LEMMA ResolveType ==
    ASSUME TypeOK, NEW w \in Worker, NEW s \in Status,
           NEW b \in Body \cup {None}, Resolve(w, s, b)
    PROVE  claims' \subseteq Row
<1> SUFFICES ASSUME NEW c \in claims
             PROVE  (IF c \in ClaimOf(w) /\ c.status = "pending"
                     THEN [uri |-> c.uri, tx |-> c.tx,
                           status |-> s, body |-> b]
                     ELSE c) \in Row
  BY DEF Resolve
<1>1. c \in Row
  BY DEF TypeOK
<1> QED
  BY <1>1 DEF Row

\* The ways a step can change what a worker knows: it ends its request, or
\* moves on with the same locals, having a body if the next step needs one.
LEMMA FinishJobOK ==
    ASSUME TypeOK, JobOK, NEW w \in Worker, Finish(w),
           settled \subseteq settled'
    PROVE  JobOK'
  BY DEF Finish, Goto, JobOK, TypeOK

LEMMA GotoJobOK ==
    ASSUME TypeOK, JobOK, NEW w \in Worker, NEW s \in Step, Goto(w, s),
           pc[w] \notin {"idle", "settle"}, job' = job, settled' = settled,
           s \in {"read", "mark", "reread", "respond"} => job[w].body \in Body
    PROVE  JobOK'
  BY DEF Goto, JobOK, TypeOK

\* What a worker past settlement writes about its claim is well-typed.
LEMMA RefuseType ==
    ASSUME TypeOK, JobOK, NEW w \in Worker, NEW reason \in Refusal,
           Refuse(w, reason), pc[w] \notin {"idle", "settle"}
    PROVE  refused' \subseteq [uri : Uri, tx : Tx, reason : Refusal]
<1>1. job[w].uri \in Uri /\ job[w].tx \in Tx
  BY DEF JobOK
<1> QED
  BY <1>1 DEF Refuse, TypeOK

LEMMA LogType ==
    ASSUME TypeOK, JobOK, NEW w \in Worker, NEW type \in EventType,
           Log(type, w), pc[w] \notin {"idle", "settle"}
    PROVE  evidence' \subseteq Event
<1>1. job[w].uri \in Uri /\ job[w].tx \in Tx
  BY DEF JobOK
<1> QED
  BY <1>1 DEF Log, TypeOK, Event

\* Types and locals together are inductive.
LEMMA TypeInit == Init => TypeOK /\ JobOK
<1> SUFFICES ASSUME Init PROVE TypeOK /\ JobOK
  OBVIOUS
<1>1. NoJob \in Job
  BY DEF NoJob, Job
<1> QED
  BY <1>1 DEF Init, TypeOK, JobOK, Mode, Step

LEMMA TypeStep ==
    TypeOK /\ JobOK /\ [Next]_vars => TypeOK' /\ JobOK'
<1> SUFFICES ASSUME TypeOK, JobOK, [Next]_vars PROVE TypeOK' /\ JobOK'
  OBVIOUS
<1>0. \A w \in Worker : pc[w] \in Step /\ job[w] \in Job
  BY DEF TypeOK
<1>1. ASSUME NEW w \in Worker, NEW r \in Request, Receive(w, r)
      PROVE  TypeOK' /\ JobOK'
  <2>1. <<r, SourceBinding[build[w]][r]>> \in Uri
    BY DeliveryAssumption DEF TypeOK, Uri
  <2>2. job' \in [Worker -> Job]
    BY <1>1, <2>1 DEF Receive, TypeOK, Job
  <2>3. pc' \in [Worker -> Step]
    BY <1>1, GotoType DEF Receive, Step
  <2>4. TypeOK'
    BY <1>1, <2>2, <2>3 DEF Receive, TypeOK
  <2>5. JobOK'
    BY <1>0, <1>1, <2>1 DEF Receive, Goto, JobOK, TypeOK, Job
  <2> QED
    BY <2>4, <2>5
<1>2. ASSUME NEW w \in Worker, NEW tx \in Tx, SettlementConfirmed(w, tx)
      PROVE  TypeOK' /\ JobOK'
  <2>1. job[w].uri \in Uri
    BY <1>2 DEF SettlementConfirmed, JobOK
  <2>2. job' \in [Worker -> Job]
    BY <1>2 DEF SettlementConfirmed, TypeOK, Job
  <2>3. pc' \in [Worker -> Step]
    BY <1>2, GotoType DEF SettlementConfirmed, Step
  <2>4. TypeOK'
    BY <1>2, <2>1, <2>2, <2>3 DEF SettlementConfirmed, TypeOK
  <2>5. JobOK'
    BY <1>0, <1>2, <2>1 DEF SettlementConfirmed, Goto, JobOK, TypeOK, Job
  <2> QED
    BY <2>4, <2>5
<1>3. ASSUME NEW w \in Worker, NEW tx \in Tx, SettlementReplyLost(w, tx)
      PROVE  TypeOK' /\ JobOK'
  <2>1. job[w].uri \in Uri
    BY <1>3 DEF SettlementReplyLost, JobOK
  <2>2. TypeOK'
    BY <1>3, <2>1, FinishType DEF SettlementReplyLost, TypeOK
  <2>3. JobOK'
    BY <1>3, FinishJobOK DEF SettlementReplyLost
  <2> QED
    BY <2>2, <2>3
<1>4. ASSUME NEW w \in Worker, SettlementRefused(w) PROVE TypeOK' /\ JobOK'
  BY <1>4, FinishType, FinishJobOK DEF SettlementRefused, TypeOK
<1>5. ASSUME NEW w \in Worker, CheckMode(w) PROVE TypeOK' /\ JobOK'
  <2>1. CASE mode = "controlled_proof"
    BY <1>5, <2>1, GotoType, GotoJobOK DEF CheckMode, TypeOK, Step
  <2>2. CASE mode # "controlled_proof"
    BY <1>5, <2>2, FinishType, FinishJobOK DEF CheckMode, TypeOK
  <2> QED
    BY <2>1, <2>2
<1>6. ASSUME NEW w \in Worker, ClaimInserted(w) PROVE TypeOK' /\ JobOK'
  <2>1. job[w].uri \in Uri /\ job[w].tx \in Tx
    BY <1>6 DEF ClaimInserted, JobOK
  <2>2. claims' \subseteq Row
    BY <1>6, <2>1 DEF ClaimInserted, TypeOK, Row, Status
  <2>3. evidence' \subseteq Event
    BY <1>6, LogType DEF ClaimInserted, EventType
  <2>4. JobOK' /\ pc' \in [Worker -> Step]
    BY <1>6, GotoType, GotoJobOK DEF ClaimInserted, Step
  <2> QED
    BY <1>6, <2>1, <2>2, <2>3, <2>4 DEF ClaimInserted, TypeOK
<1>7. ASSUME NEW w \in Worker, ClaimConsumed(w) PROVE TypeOK' /\ JobOK'
  BY <1>7, GotoType, GotoJobOK DEF ClaimConsumed, TypeOK, Step
<1>8. ASSUME NEW w \in Worker, ClaimConflict(w) PROVE TypeOK' /\ JobOK'
  BY <1>8, RefuseType, FinishType, FinishJobOK
     DEF ClaimConflict, Refuse, Refusal, TypeOK
<1>9. ASSUME NEW w \in Worker, Resume(w) PROVE TypeOK' /\ JobOK'
  <2>1. ASSUME NEW reason \in Refusal, Refuse(w, reason)
        PROVE  TypeOK' /\ JobOK'
    BY <1>9, <2>1, RefuseType, FinishType, FinishJobOK
       DEF Resume, Refuse, TypeOK
  <2>2. ASSUME Goto(w, "render"), UNCHANGED <<job, refused>>
        PROVE  TypeOK' /\ JobOK'
    BY <1>9, <2>2, GotoType, GotoJobOK DEF Resume, TypeOK, Step
  <2> QED
    BY <1>9, <2>1, <2>2 DEF Resume, Refusal
<1>10. ASSUME NEW w \in Worker, RenderSucceeds(w) PROVE TypeOK' /\ JobOK'
  <2>1. job[w].uri \in Uri
    BY <1>10 DEF RenderSucceeds, JobOK
  <2>2. Rendering[build[w]][job[w].uri] \in Body
    BY <1>10, <2>1, DeliveryAssumption DEF RenderSucceeds, TypeOK
  <2>3. job' \in [Worker -> Job]
    BY <1>10, <2>2 DEF RenderSucceeds, TypeOK, Job
  <2>4. pc' \in [Worker -> Step]
    BY <1>10, GotoType DEF RenderSucceeds, Step
  <2>5. TypeOK'
    BY <1>10, <2>3, <2>4 DEF RenderSucceeds, TypeOK
  <2>6. JobOK'
    BY <1>0, <1>10, <2>2 DEF RenderSucceeds, Goto, JobOK, TypeOK, Job
  <2> QED
    BY <2>5, <2>6
<1>11. ASSUME NEW w \in Worker, RenderFails(w) PROVE TypeOK' /\ JobOK'
  BY <1>11, GotoType, GotoJobOK DEF RenderFails, TypeOK, Step
<1>12. ASSUME NEW w \in Worker, ReadForFailure(w) PROVE TypeOK' /\ JobOK'
  <2>1. CASE ClaimIs(w, "pending")
    BY <1>12, <2>1, GotoType, GotoJobOK DEF ReadForFailure, TypeOK, Step
  <2>2. CASE ~ClaimIs(w, "pending")
    BY <1>12, <2>2, FinishType, FinishJobOK DEF ReadForFailure, TypeOK
  <2> QED
    BY <2>1, <2>2
<1>13. ASSUME NEW w \in Worker, MarkFailed(w) PROVE TypeOK' /\ JobOK'
  <2>1. claims' \subseteq Row
    BY <1>13, ResolveType DEF MarkFailed, Status
  <2>2. evidence' \subseteq Event
    BY <1>13, LogType DEF MarkFailed, EventType, TypeOK
  <2> QED
    BY <1>13, <2>1, <2>2, FinishType, FinishJobOK DEF MarkFailed, TypeOK
<1>14. ASSUME NEW w \in Worker, CompareDigest(w), pc[w] \in {"read", "reread"},
              UNCHANGED <<mode, claims, evidence, settled, build, released,
                          late>>
       PROVE  TypeOK' /\ JobOK'
  <2>1. CASE Refuse(w, "response_digest_mismatch")
    BY <1>14, <2>1, RefuseType, FinishType, FinishJobOK
       DEF Refuse, Refusal, TypeOK
  <2>2. CASE Goto(w, "respond") /\ UNCHANGED <<job, refused>>
    <3>1. job[w].body \in Body
      BY <1>14 DEF JobOK
    <3> QED
      BY <1>14, <2>2, <3>1, GotoType, GotoJobOK DEF TypeOK, Step
  <2> QED
    BY <1>14, <2>1, <2>2 DEF CompareDigest
<1>15. ASSUME NEW w \in Worker, ReadClaim(w) PROVE TypeOK' /\ JobOK'
  <2>1. ASSUME NEW reason \in Refusal, Refuse(w, reason)
        PROVE  TypeOK' /\ JobOK'
    BY <1>15, <2>1, RefuseType, FinishType, FinishJobOK
       DEF ReadClaim, Refuse, TypeOK
  <2>2. ASSUME Goto(w, "mark"), UNCHANGED <<job, refused>>
        PROVE  TypeOK' /\ JobOK'
    <3>1. job[w].body \in Body
      BY <1>15 DEF ReadClaim, JobOK
    <3> QED
      BY <1>15, <2>2, <3>1, GotoType, GotoJobOK DEF ReadClaim, TypeOK, Step
  <2> QED
    BY <1>14, <1>15, <2>1, <2>2 DEF ReadClaim, Refusal
<1>16. ASSUME NEW w \in Worker, MarkDelivered(w) PROVE TypeOK' /\ JobOK'
  <2>1. job[w].body \in Body
    BY <1>16 DEF MarkDelivered, JobOK
  <2>2. claims' \subseteq Row
    BY <1>16, <2>1, ResolveType DEF MarkDelivered, Status
  <2>3. evidence' \subseteq Event
    BY <1>16, LogType DEF MarkDelivered, EventType, TypeOK
  <2>4. PICK s \in {"respond", "reread"} : Goto(w, s)
    BY <1>16 DEF MarkDelivered
  <2>5. pc' \in [Worker -> Step]
    BY <2>4, GotoType DEF Step
  <2>6. JobOK'
    BY <1>16, <2>1, <2>4, GotoJobOK DEF MarkDelivered, Step
  <2> QED
    BY <1>16, <2>2, <2>3, <2>5, <2>6 DEF MarkDelivered, TypeOK
<1>17. ASSUME NEW w \in Worker, ReadRaced(w) PROVE TypeOK' /\ JobOK'
  <2>1. ASSUME Finish(w), UNCHANGED refused PROVE TypeOK' /\ JobOK'
    BY <1>17, <2>1, FinishType, FinishJobOK DEF ReadRaced, TypeOK
  <2> QED
    BY <1>14, <1>17, <2>1 DEF ReadRaced
<1>18. ASSUME NEW w \in Worker, Respond(w) PROVE TypeOK' /\ JobOK'
  <2>1. job[w] \in [uri : Uri, tx : Tx, body : Body]
    BY <1>0, <1>18 DEF Respond, JobOK, Job
  <2> QED
    BY <1>18, <2>1, FinishType, FinishJobOK DEF Respond, TypeOK
<1>19. ASSUME NEW w \in Worker, StoreFails(w) PROVE TypeOK' /\ JobOK'
  BY <1>19, FinishType, FinishJobOK DEF StoreFails, TypeOK
<1>20. ASSUME NEW w \in Worker, NEW b \in Build, Crash(w, b)
       PROVE  TypeOK' /\ JobOK'
  BY <1>20, FinishType, FinishJobOK DEF Crash, TypeOK
<1>21. ASSUME NEW m \in Mode, SetMode(m) PROVE TypeOK' /\ JobOK'
  BY <1>21 DEF SetMode, TypeOK, JobOK
<1>22. CASE UNCHANGED vars
  BY <1>22 DEF vars, TypeOK, JobOK
<1> QED
  BY <1>1, <1>2, <1>3, <1>4, <1>5, <1>6, <1>7, <1>8, <1>9, <1>10, <1>11,
     <1>12, <1>13, <1>15, <1>16, <1>17, <1>18, <1>19, <1>20, <1>21, <1>22
     DEF Next, Serve, Settle, Claim, Render
-----------------------------------------------------------------------------
\* The claim table. Three actions write it, the settlements only grow.
LEMMA WhoWrites ==
    ASSUME [Next]_vars
    PROVE  /\ settled \subseteq settled'
           /\ \/ UNCHANGED <<claims, evidence>>
              \/ \E w \in Worker : ClaimInserted(w)
              \/ \E w \in Worker : MarkFailed(w)
              \/ \E w \in Worker : MarkDelivered(w)
<1>1. CASE UNCHANGED vars
  BY <1>1 DEF vars
<1>2. ASSUME NEW w \in Worker, Serve(w) \/ StoreFails(w)
      PROVE  /\ settled \subseteq settled'
             /\ \/ UNCHANGED <<claims, evidence>>
                \/ ClaimInserted(w) \/ MarkFailed(w) \/ MarkDelivered(w)
  BY <1>2 DEF Serve, Settle, Claim, Render, Receive, SettlementConfirmed,
     SettlementReplyLost, SettlementRefused, CheckMode, ClaimInserted,
     ClaimConsumed, ClaimConflict, Resume, RenderSucceeds, RenderFails,
     ReadForFailure, MarkFailed, ReadClaim, MarkDelivered, ReadRaced,
     Respond, StoreFails
<1>3. CASE \/ \E w \in Worker, b \in Build : Crash(w, b)
           \/ \E m \in Mode : SetMode(m)
  BY <1>3 DEF Crash, SetMode
<1> QED
  BY <1>1, <1>2, <1>3 DEF Next

\* The UPDATE of mark_delivery changes nothing unless the claim is pending,
\* and then exactly the worker's claim.
LEMMA ResolveNothing ==
    ASSUME NEW w \in Worker, NEW s, NEW b, Resolve(w, s, b),
           ~ClaimIs(w, "pending")
    PROVE  claims' = claims
  BY DEF Resolve, ClaimIs

LEMMA ResolveOne ==
    ASSUME TypeOK, OneSettledClaimPerTx, NEW w \in Worker, NEW s, NEW b,
           Resolve(w, s, b), ClaimIs(w, "pending")
    PROVE  \E c \in claims :
               /\ c.uri = job[w].uri /\ c.tx = job[w].tx
               /\ c.status = "pending"
               /\ claims' = (claims \ {c}) \cup
                    {[uri |-> job[w].uri, tx |-> job[w].tx,
                      status |-> s, body |-> b]}
<1>1. PICK c \in claims : /\ c.uri = job[w].uri /\ c.tx = job[w].tx
                          /\ c.status = "pending"
  BY DEF ClaimIs, ClaimOf
<1>2. \A d \in claims : d \in ClaimOf(w) /\ d.status = "pending" <=> d = c
  BY <1>1 DEF OneSettledClaimPerTx, ClaimOf
<1>3. claims' = {IF d = c THEN [uri |-> d.uri, tx |-> d.tx,
                                 status |-> s, body |-> b]
                 ELSE d : d \in claims}
  BY <1>2 DEF Resolve
<1> QED
  BY <1>1, <1>3

\* No row is deleted, rebound or reopened.
LEMMA AdvanceStep ==
    ASSUME TypeOK, OneSettledClaimPerTx, [Next]_vars
    PROVE  ClaimsAdvance
<1>1. CASE UNCHANGED <<claims, evidence>>
  BY <1>1 DEF ClaimsAdvance
<1>2. ASSUME NEW w \in Worker, ClaimInserted(w) PROVE ClaimsAdvance
  BY <1>2 DEF ClaimInserted, ClaimsAdvance
<1>3. ASSUME NEW w \in Worker, NEW s, NEW b, Resolve(w, s, b)
      PROVE  ClaimsAdvance
  <2>1. CASE ClaimIs(w, "pending")
    <3>1. PICK c \in claims :
               /\ c.uri = job[w].uri /\ c.tx = job[w].tx
               /\ c.status = "pending"
               /\ claims' = (claims \ {c}) \cup
                    {[uri |-> job[w].uri, tx |-> job[w].tx,
                      status |-> s, body |-> b]}
      BY <1>3, <2>1, ResolveOne
    <3>2. \E d \in claims' : d.uri = c.uri /\ d.tx = c.tx
      <4> DEFINE d == [uri |-> job[w].uri, tx |-> job[w].tx,
                       status |-> s, body |-> b]
      <4>1. d \in claims' /\ d.uri = c.uri /\ d.tx = c.tx
        BY <3>1
      <4> QED
        BY <4>1
    <3>3. \A e \in claims : e # c => e \in claims'
      BY <3>1
    <3> QED
      BY <3>1, <3>2, <3>3 DEF ClaimsAdvance
  <2>2. CASE ~ClaimIs(w, "pending")
    <3>1. claims' = claims
      BY <1>3, <2>2, ResolveNothing
    <3> QED
      BY <3>1 DEF ClaimsAdvance
  <2> QED
    BY <2>1, <2>2
<1> QED
  BY <1>1, <1>2, <1>3, WhoWrites DEF MarkFailed, MarkDelivered

\* One settlement, one settled claim.
LEMMA OneClaimStep ==
    ASSUME TypeOK, JobOK, OneSettledClaimPerTx, [Next]_vars
    PROVE  OneSettledClaimPerTx'
<1>1. settled \subseteq settled'
  BY WhoWrites
<1>2. CASE UNCHANGED <<claims, evidence>>
  BY <1>1, <1>2 DEF OneSettledClaimPerTx
<1>3. ASSUME NEW w \in Worker, ClaimInserted(w) PROVE OneSettledClaimPerTx'
  <2>1. <<job[w].uri, job[w].tx>> \in settled
    BY <1>3 DEF ClaimInserted, JobOK
  <2> QED
    BY <1>1, <1>3, <2>1 DEF ClaimInserted, OneSettledClaimPerTx
<1>4. ASSUME NEW w \in Worker, NEW s, NEW b, Resolve(w, s, b)
      PROVE  OneSettledClaimPerTx'
  <2>1. CASE ClaimIs(w, "pending")
    <3>1. PICK c \in claims :
               /\ c.uri = job[w].uri /\ c.tx = job[w].tx
               /\ c.status = "pending"
               /\ claims' = (claims \ {c}) \cup
                    {[uri |-> job[w].uri, tx |-> job[w].tx,
                      status |-> s, body |-> b]}
      BY <1>4, <2>1, ResolveOne
    <3> QED
      BY <1>1, <3>1 DEF OneSettledClaimPerTx
  <2>2. CASE ~ClaimIs(w, "pending")
    <3>1. claims' = claims
      BY <1>4, <2>2, ResolveNothing
    <3> QED
      BY <1>1, <3>1 DEF OneSettledClaimPerTx
  <2> QED
    BY <2>1, <2>2
<1> QED
  BY <1>2, <1>3, <1>4, WhoWrites DEF MarkFailed, MarkDelivered

\* The claim of a worker outlives every step, and a delivered or failed one
\* keeps its row: what ClaimHeld of an unmoved worker rests on.
LEMMA HeldByOthers ==
    ASSUME ClaimsAdvance, ClaimHeld, NEW w \in Worker,
           pc'[w] = pc[w], job'[w] = job[w]
    PROVE  /\ pc'[w] \in {"resume", "render", "read", "mark", "reread",
                          "fail", "markfail", "respond"} => ClaimOf(w)' # {}
           /\ pc'[w] = "respond" => \E c \in ClaimOf(w)' :
                 c.status = "delivered" /\ c.body = job'[w].body
<1>1. ASSUME pc[w] \in {"resume", "render", "read", "mark", "reread", "fail",
                        "markfail", "respond"}
      PROVE  ClaimOf(w)' # {}
  BY <1>1 DEF ClaimHeld, ClaimsAdvance, ClaimOf
<1>2. ASSUME pc[w] = "respond"
      PROVE  \E c \in ClaimOf(w)' :
                 c.status = "delivered" /\ c.body = job'[w].body
  <2>1. PICK c \in ClaimOf(w) : c.status = "delivered" /\ c.body = job[w].body
    BY <1>2 DEF ClaimHeld
  <2>2. c \in claims'
    BY <2>1 DEF ClaimsAdvance, ClaimOf
  <2> QED
    BY <2>1, <2>2 DEF ClaimOf
<1> QED
  BY <1>1, <1>2

LEMMA HeldStep ==
    ASSUME TypeOK, JobOK, OneSettledClaimPerTx, ClaimHeld, [Next]_vars
    PROVE  ClaimHeld'
<1>0. ClaimsAdvance
  BY AdvanceStep
<1> DEFINE Held(w) ==
      /\ pc[w] \in {"resume", "render", "read", "mark", "reread", "fail",
                    "markfail", "respond"} => ClaimOf(w) # {}
      /\ pc[w] = "respond" => \E c \in ClaimOf(w) :
             c.status = "delivered" /\ c.body = job[w].body
<1>1. ASSUME NEW w \in Worker, pc'[w] = pc[w], job'[w] = job[w]
      PROVE  Held(w)'
  BY <1>0, <1>1, HeldByOthers
<1>2. ASSUME NEW w \in Worker,
             \A v \in Worker \ {w} : pc'[v] = pc[v] /\ job'[v] = job[v],
             Held(w)'
      PROVE  ClaimHeld'
  BY <1>1, <1>2 DEF ClaimHeld
<1>3. ASSUME NEW w \in Worker, Finish(w) PROVE ClaimHeld'
  BY <1>2, <1>3 DEF Finish, Goto, TypeOK
<1>4. ASSUME NEW w \in Worker, NEW s, Goto(w, s), s # "respond",
             \A v \in Worker \ {w} : job'[v] = job[v],
             s \in Step \ {"idle", "settle", "mode", "claim"} =>
                 ClaimOf(w)' # {}
      PROVE  ClaimHeld'
  BY <1>2, <1>4 DEF Goto, TypeOK, Step
<1>5. ASSUME NEW w \in Worker, NEW s, Goto(w, s), s # "respond",
             ClaimOf(w) # {}, UNCHANGED job
      PROVE  ClaimHeld'
  <2>1. ClaimOf(w)' # {}
    BY <1>0, <1>5 DEF ClaimsAdvance, ClaimOf
  <2> QED
    BY <1>4, <1>5, <2>1
<1>6. ASSUME NEW w \in Worker, CompareDigest(w), claims' = claims
      PROVE  ClaimHeld'
  <2>1. CASE Refuse(w, "response_digest_mismatch")
    BY <1>3, <2>1 DEF Refuse
  <2>2. CASE /\ \E c \in ClaimOf(w) :
                    c.status = "delivered" /\ c.body = job[w].body
             /\ Goto(w, "respond") /\ UNCHANGED <<job, refused>>
    BY <1>2, <1>6, <2>2 DEF Goto, TypeOK, ClaimOf
  <2> QED
    BY <1>6, <2>1, <2>2 DEF CompareDigest
<1>7. ASSUME NEW w \in Worker, ClaimInserted(w) PROVE ClaimHeld'
  <2>1. [uri |-> job[w].uri, tx |-> job[w].tx, status |-> "pending",
         body |-> None] \in ClaimOf(w)'
    BY <1>7 DEF ClaimInserted, ClaimOf
  <2> QED
    BY <1>4, <1>7, <2>1 DEF ClaimInserted
<1>8. ASSUME NEW w \in Worker, MarkDelivered(w) PROVE ClaimHeld'
  <2>1. CASE ClaimIs(w, "pending")
    <3>1. PICK c \in claims :
               /\ c.uri = job[w].uri /\ c.tx = job[w].tx
               /\ c.status = "pending"
               /\ claims' = (claims \ {c}) \cup
                    {[uri |-> job[w].uri, tx |-> job[w].tx,
                      status |-> "delivered", body |-> job[w].body]}
      BY <1>8, <2>1, ResolveOne DEF MarkDelivered
    <3>2. [uri |-> job[w].uri, tx |-> job[w].tx, status |-> "delivered",
           body |-> job[w].body] \in ClaimOf(w)'
      BY <1>8, <3>1 DEF MarkDelivered, ClaimOf
    <3> QED
      BY <1>2, <1>8, <2>1, <3>2 DEF MarkDelivered, Goto, TypeOK
  <2>2. CASE ~ClaimIs(w, "pending")
    BY <1>5, <1>8, <2>2 DEF MarkDelivered, ClaimHeld
  <2> QED
    BY <2>1, <2>2
<1>9. ASSUME NEW w \in Worker, Serve(w) PROVE ClaimHeld'
  <2>1. CASE \E r \in Request : Receive(w, r)
    BY <1>4, <2>1 DEF Receive
  <2>2. CASE Settle(w)
    <3>1. ASSUME NEW tx \in Tx, SettlementConfirmed(w, tx) PROVE ClaimHeld'
      BY <1>4, <3>1 DEF SettlementConfirmed, TypeOK
    <3> QED
      BY <1>3, <2>2, <3>1 DEF Settle, SettlementReplyLost, SettlementRefused
  <2>3. CASE CheckMode(w)
    BY <1>3, <1>4, <2>3 DEF CheckMode
  <2>4. CASE ClaimConsumed(w) \/ ClaimConflict(w)
    BY <1>3, <1>5, <2>4 DEF ClaimConsumed, ClaimConflict, Refuse
  <2>5. CASE Resume(w)
    BY <1>3, <1>5, <2>5 DEF Resume, Refuse
  <2>6. CASE RenderSucceeds(w)
    <3>1. ClaimOf(w)' # {}
      BY <2>6 DEF RenderSucceeds, ClaimHeld, ClaimOf, TypeOK, Job
    <3> QED
      BY <1>4, <2>6, <3>1 DEF RenderSucceeds
  <2>7. CASE RenderFails(w)
    BY <1>5, <2>7 DEF RenderFails, ClaimHeld
  <2>8. CASE ReadForFailure(w) \/ MarkFailed(w)
    BY <1>3, <1>5, <2>8 DEF ReadForFailure, MarkFailed, ClaimHeld
  <2>9. CASE ReadClaim(w)
    BY <1>3, <1>5, <1>6, <2>9 DEF ReadClaim, Refuse
  <2>10. CASE ReadRaced(w)
    BY <1>3, <1>6, <2>10 DEF ReadRaced
  <2>11. CASE Respond(w)
    BY <1>3, <2>11 DEF Respond
  <2> QED
    BY <1>7, <1>8, <1>9, <2>1, <2>2, <2>3, <2>4, <2>5, <2>6, <2>7, <2>8,
       <2>9, <2>10, <2>11 DEF Serve, Claim, Render
<1>10. CASE \E w \in Worker : StoreFails(w) \/ \E b \in Build : Crash(w, b)
  BY <1>3, <1>10 DEF StoreFails, Crash
<1>11. CASE UNCHANGED vars \/ \E m \in Mode : SetMode(m)
  BY <1>1, <1>11 DEF vars, SetMode, ClaimHeld
<1> QED
  BY <1>9, <1>10, <1>11 DEF Next

\* A body is answered only by a worker at "respond", whose claim is durable.
LEMMA ReleasedStep ==
    ASSUME TypeOK, OneSettledClaimPerTx, ClaimHeld, ReleasedIsDurable,
           [Next]_vars
    PROVE  ReleasedIsDurable'
<1>0. ClaimsAdvance
  BY AdvanceStep
<1>1. ASSUME NEW r \in released
      PROVE  \E c \in claims' : /\ c.uri = r.uri /\ c.tx = r.tx
                                /\ c.status = "delivered" /\ c.body = r.body
  <2>1. PICK c \in claims : /\ c.uri = r.uri /\ c.tx = r.tx
                            /\ c.status = "delivered" /\ c.body = r.body
    BY DEF ReleasedIsDurable
  <2>2. c \in claims'
    BY <1>0, <2>1 DEF ClaimsAdvance
  <2> QED
    BY <2>1, <2>2
<1>2. CASE released' = released
  BY <1>1, <1>2 DEF ReleasedIsDurable
<1>3. ASSUME NEW w \in Worker, Respond(w) PROVE ReleasedIsDurable'
  <2>1. \E c \in claims' :
            /\ c.uri = job[w].uri /\ c.tx = job[w].tx
            /\ c.status = "delivered" /\ c.body = job[w].body
    BY <1>3 DEF Respond, ClaimHeld, ClaimOf
  <2> QED
    BY <1>1, <1>3, <2>1 DEF Respond, ReleasedIsDurable
<1>4. released' = released \/ \E w \in Worker : Respond(w)
  BY DEF Next, Serve, Settle, Claim, Render, Receive, SettlementConfirmed,
     SettlementReplyLost, SettlementRefused, CheckMode, ClaimInserted,
     ClaimConsumed, ClaimConflict, Resume, RenderSucceeds, RenderFails,
     ReadForFailure, MarkFailed, ReadClaim, MarkDelivered, ReadRaced,
     StoreFails, Crash, SetMode, vars
<1> QED
  BY <1>2, <1>3, <1>4

\* Each refusal is justified when it is given, and the row that justifies it
\* stays.
LEMMA RefusalsStep ==
    ASSUME TypeOK, JobOK, OneSettledClaimPerTx, ClaimHeld, RefusalsAreReal,
           [Next]_vars
    PROVE  RefusalsAreReal'
<1>0. ClaimsAdvance
  BY AdvanceStep
<1>1. ASSUME NEW r, Justified(r) PROVE Justified(r)'
  BY <1>0, <1>1 DEF Justified, ClaimsAdvance
<1>2. CASE refused' = refused
  BY <1>1, <1>2 DEF RefusalsAreReal
<1>3. ASSUME NEW w \in Worker, NEW reason, Refuse(w, reason),
             Justified([uri |-> job[w].uri, tx |-> job[w].tx,
                        reason |-> reason])
      PROVE  RefusalsAreReal'
  <2> DEFINE r == [uri |-> job[w].uri, tx |-> job[w].tx, reason |-> reason]
  <2>1. PICK q : q = r
    OBVIOUS
  <2>2. Justified(q)'
    BY <1>1, <1>3, <2>1
  <2>3. refused' = refused \cup {q}
    BY <1>3, <2>1 DEF Refuse
  <2> QED
    BY <1>1, <2>2, <2>3 DEF RefusalsAreReal
<1>4. ASSUME NEW w \in Worker, Refuse(w, "payment_replay_conflict"),
             ClaimOf(w) = {}, \E c \in claims : c.tx = job[w].tx
      PROVE  RefusalsAreReal'
  <2>1. Justified([uri |-> job[w].uri, tx |-> job[w].tx,
                   reason |-> "payment_replay_conflict"])
    BY <1>4 DEF Justified, ClaimOf
  <2> QED
    BY <1>3, <1>4, <2>1
<1>5. ASSUME NEW w \in Worker, ClaimIs(w, "failed"),
             Refuse(w, "delivery_reconciliation_required")
      PROVE  RefusalsAreReal'
  <2>1. Justified([uri |-> job[w].uri, tx |-> job[w].tx,
                   reason |-> "delivery_reconciliation_required"])
    BY <1>5 DEF Justified, ClaimIs, ClaimOf
  <2> QED
    BY <1>3, <1>5, <2>1
<1>6. ASSUME NEW w \in Worker, ClaimIs(w, "delivered"), CompareDigest(w)
      PROVE  RefusalsAreReal'
  <2>1. Justified([uri |-> job[w].uri, tx |-> job[w].tx,
                   reason |-> "response_digest_mismatch"])
    BY <1>6 DEF Justified, ClaimIs, ClaimOf
  <2> QED
    BY <1>2, <1>3, <1>6, <2>1 DEF CompareDigest
<1>7. ASSUME NEW w \in Worker, ClaimConflict(w) PROVE RefusalsAreReal'
  BY <1>4, <1>7 DEF ClaimConflict
<1>8. ASSUME NEW w \in Worker, Resume(w) PROVE RefusalsAreReal'
  BY <1>2, <1>5, <1>8 DEF Resume, ClaimHeld
<1>9. ASSUME NEW w \in Worker, ReadClaim(w) PROVE RefusalsAreReal'
  BY <1>2, <1>5, <1>6, <1>9 DEF ReadClaim, ClaimHeld
<1>10. ASSUME NEW w \in Worker, ReadRaced(w) PROVE RefusalsAreReal'
  BY <1>2, <1>6, <1>10 DEF ReadRaced
<1>11. \/ refused' = refused
       \/ \E w \in Worker : ClaimConflict(w) \/ Resume(w) \/ ReadClaim(w)
                            \/ ReadRaced(w)
  BY DEF Next, Serve, Settle, Claim, Render, Receive, SettlementConfirmed,
     SettlementReplyLost, SettlementRefused, CheckMode, ClaimInserted,
     ClaimConsumed, RenderSucceeds, RenderFails, ReadForFailure, MarkFailed,
     MarkDelivered, Respond, StoreFails, Crash, SetMode, vars
<1> QED
  BY <1>2, <1>7, <1>8, <1>9, <1>10, <1>11

\* One more row means one more event.
LEMMA EventsOfMore ==
    ASSUME NEW type, NEW rows, NEW c
    PROVE  EventsOf(type, rows \cup {c}) =
             EventsOf(type, rows) \cup
             {[type |-> type, uri |-> c.uri, tx |-> c.tx]}
  BY DEF EventsOf

LEMMA EventsOfClaims ==
    ASSUME NEW type, NEW c \in claims, NEW d, d.uri = c.uri, d.tx = c.tx
    PROVE  EventsOf(type, (claims \ {c}) \cup {d}) = EventsOf(type, claims)
  BY DEF EventsOf

\* A pending claim that is resolved as the worker's evidence says.
LEMMA ResolveEvidence ==
    ASSUME TypeOK, OneSettledClaimPerTx, EvidenceMatchesClaims,
           NEW w \in Worker, NEW b, ClaimIs(w, "pending"),
           \/ Resolve(w, "failed", b) /\ Log("delivery_failed", w)
           \/ Resolve(w, "delivered", b) /\ Log("delivery_completed", w)
    PROVE  EvidenceMatchesClaims'
<1>1. PICK s \in {"failed", "delivered"} :
           /\ Resolve(w, s, b)
           /\ s = "failed" => Log("delivery_failed", w)
           /\ s = "delivered" => Log("delivery_completed", w)
  OBVIOUS
<1>2. PICK c \in claims :
           /\ c.uri = job[w].uri /\ c.tx = job[w].tx
           /\ c.status = "pending"
           /\ claims' = (claims \ {c}) \cup
                {[uri |-> job[w].uri, tx |-> job[w].tx,
                  status |-> s, body |-> b]}
  BY <1>1, ResolveOne
<1>3. PICK d : d = [uri |-> job[w].uri, tx |-> job[w].tx,
                    status |-> s, body |-> b]
  OBVIOUS
<1>4. EventsOf("payment_claimed", claims') = EventsOf("payment_claimed", claims)
  BY <1>2, <1>3, EventsOfClaims
<1>5. WithStatus(s)' = WithStatus(s) \cup {d}
  BY <1>2, <1>3 DEF WithStatus
<1>6. \A t : t # s /\ t # "pending" => WithStatus(t)' = WithStatus(t)
  BY <1>2, <1>3 DEF WithStatus
<1>7. \A t : EventsOf(t, WithStatus(s)') = EventsOf(t, WithStatus(s)) \cup
               {[type |-> t, uri |-> job[w].uri, tx |-> job[w].tx]}
  BY <1>3, <1>5, EventsOfMore
<1>8. CASE s = "failed"
  <2>1. WithStatus("delivered")' = WithStatus("delivered")
    BY <1>6, <1>8
  <2> QED
    BY <1>1, <1>4, <1>7, <1>8, <2>1 DEF EvidenceMatchesClaims, Log, EventsOf
<1>9. CASE s = "delivered"
  <2>1. WithStatus("failed")' = WithStatus("failed")
    BY <1>6, <1>9
  <2> QED
    BY <1>1, <1>4, <1>7, <1>9, <2>1 DEF EvidenceMatchesClaims, Log, EventsOf
<1> QED
  BY <1>8, <1>9

LEMMA EvidenceStep ==
    ASSUME TypeOK, OneSettledClaimPerTx, EvidenceMatchesClaims, [Next]_vars
    PROVE  EvidenceMatchesClaims'
<1>1. CASE UNCHANGED <<claims, evidence>>
  BY <1>1 DEF EvidenceMatchesClaims, EventsOf, WithStatus
<1>2. ASSUME NEW w \in Worker, ClaimInserted(w)
      PROVE  EvidenceMatchesClaims'
  <2>1. PICK d : d = [uri |-> job[w].uri, tx |-> job[w].tx,
                      status |-> "pending", body |-> None]
    OBVIOUS
  <2>2. claims' = claims \cup {d}
    BY <1>2, <2>1 DEF ClaimInserted
  <2>3. EventsOf("payment_claimed", claims') =
          EventsOf("payment_claimed", claims) \cup
          {[type |-> "payment_claimed", uri |-> job[w].uri, tx |-> job[w].tx]}
    BY <2>1, <2>2, EventsOfMore
  <2>4. /\ WithStatus("delivered")' = WithStatus("delivered")
        /\ WithStatus("failed")' = WithStatus("failed")
    BY <2>1, <2>2 DEF WithStatus
  <2> QED
    BY <1>2, <2>3, <2>4 DEF ClaimInserted, Log, EvidenceMatchesClaims, EventsOf
<1>3. ASSUME NEW w \in Worker, MarkFailed(w) PROVE EvidenceMatchesClaims'
  <2>1. CASE ClaimIs(w, "pending")
    BY <1>3, <2>1, ResolveEvidence DEF MarkFailed
  <2>2. CASE ~ClaimIs(w, "pending")
    BY <1>1, <1>3, <2>2, ResolveNothing DEF MarkFailed
  <2> QED
    BY <2>1, <2>2
<1>4. ASSUME NEW w \in Worker, MarkDelivered(w) PROVE EvidenceMatchesClaims'
  <2>1. CASE ClaimIs(w, "pending")
    BY <1>4, <2>1, ResolveEvidence DEF MarkDelivered
  <2>2. CASE ~ClaimIs(w, "pending")
    BY <1>1, <1>4, <2>2, ResolveNothing DEF MarkDelivered
  <2> QED
    BY <2>1, <2>2
<1> QED
  BY <1>1, <1>2, <1>3, <1>4, WhoWrites
-----------------------------------------------------------------------------
\* The inductive invariant. OneSettledClaimPerTx needs JobOK (a claim is made
\* for a confirmed settlement); ReleasedIsDurable and RefusalsAreReal need
\* ClaimHeld (what a worker read is still so when it answers).
Inv ==
    /\ TypeOK /\ JobOK /\ ClaimHeld
    /\ OneSettledClaimPerTx /\ ReleasedIsDurable /\ RefusalsAreReal
    /\ EvidenceMatchesClaims

\* The invariant holds at the start and is kept by every step.
LEMMA InvInit == Init => Inv
<1> SUFFICES ASSUME Init PROVE Inv
  OBVIOUS
<1>1. TypeOK /\ JobOK
  BY TypeInit
<1> QED
  BY <1>1 DEF Init, Inv, ClaimHeld, OneSettledClaimPerTx, ReleasedIsDurable,
     RefusalsAreReal, EvidenceMatchesClaims, EventsOf, WithStatus

LEMMA InvStep == Inv /\ [Next]_vars => Inv'
<1> SUFFICES ASSUME Inv, [Next]_vars PROVE Inv'
  OBVIOUS
<1> QED
  BY TypeStep, OneClaimStep, HeldStep, ReleasedStep, RefusalsStep,
     EvidenceStep DEF Inv

\* The invariant of every behaviour of the claim protocol.
THEOREM Invariance == Spec => []Inv
  BY InvInit, InvStep, PTL DEF Spec

\* Type correctness: every variable keeps to its type.
THEOREM TypeCorrect == Spec => []TypeOK
<1>1. Inv => TypeOK
  BY DEF Inv
<1> QED
  BY <1>1, Invariance, PTL

\* However workers, crashes and redeploys interleave, a settlement has at
\* most one claim row, for a resource the facilitator settled it for.
THEOREM SingleUse == Spec => []OneSettledClaimPerTx
<1>1. Inv => OneSettledClaimPerTx
  BY DEF Inv
<1> QED
  BY <1>1, Invariance, PTL

\* Every body answered with 200 is the durable body of its settlement.
THEOREM Durability == Spec => []ReleasedIsDurable
<1>1. Inv => ReleasedIsDurable
  BY DEF Inv
<1> QED
  BY <1>1, Invariance, PTL

\* A refusal that names a conflict, a failure or another body is right.
THEOREM HonestRefusals == Spec => []RefusalsAreReal
<1>1. Inv => RefusalsAreReal
  BY DEF Inv
<1> QED
  BY <1>1, Invariance, PTL

\* Telemetry and claim table tell the same story.
THEOREM FaithfulEvidence == Spec => []EvidenceMatchesClaims
<1>1. Inv => EvidenceMatchesClaims
  BY DEF Inv
<1> QED
  BY <1>1, Invariance, PTL

\* No step deletes, rebinds or reopens a claim.
THEOREM Monotonicity == Spec => ClaimsOnlyAdvance
<1>1. Inv /\ [Next]_vars => [ClaimsAdvance]_vars
  BY AdvanceStep DEF Inv
<1> QED
  BY <1>1, Invariance, PTL DEF Spec, ClaimsOnlyAdvance
-----------------------------------------------------------------------------
\* Draining.  The workers about to claim are counted: each may consume one
\* settlement more, and CheckMode sends none after them while the service is
\* disabled.
AtClaim == {w \in Worker : pc[w] = "claim"}
DrainInv == IsFiniteSet(late) /\ DisabledDrains

\* A step that sends nobody to the claim, and consumes nothing, drains.
LEMMA NobodyArrives ==
    ASSUME DrainInv, late' = late,
           mode' = "disabled" => mode = "disabled", AtClaim' \subseteq AtClaim
    PROVE  DrainInv'
<1>1. /\ IsFiniteSet(AtClaim) /\ Cardinality(AtClaim) \in Nat
      /\ Cardinality(AtClaim') \in Nat
      /\ Cardinality(AtClaim') <= Cardinality(AtClaim)
  BY DeliveryAssumption, FS_Subset, FS_CardinalityType DEF AtClaim
<1>2. Cardinality(late) \in Nat /\ Cardinality(Worker) \in Nat
  BY DeliveryAssumption, FS_CardinalityType DEF DrainInv
<1> QED
  BY <1>1, <1>2 DEF DrainInv, DisabledDrains, AtClaim

\* A claim consumes one settlement and takes its worker off the claim.
LEMMA ClaimDrains ==
    ASSUME TypeOK, DrainInv,
           NEW w \in Worker, ClaimInserted(w)
    PROVE  DrainInv'
<1>1. AtClaim' = AtClaim \ {w} /\ w \in AtClaim
  BY DEF ClaimInserted, Goto, TypeOK, AtClaim
<1>2. /\ IsFiniteSet(AtClaim) /\ Cardinality(AtClaim) \in Nat
      /\ Cardinality(AtClaim') = Cardinality(AtClaim) - 1
  BY <1>1, DeliveryAssumption, FS_Subset, FS_CardinalityType, FS_RemoveElement DEF AtClaim
<1>3. /\ Cardinality(late) \in Nat /\ Cardinality(Worker) \in Nat
      /\ IsFiniteSet(late') /\ Cardinality(late') \in Nat
      /\ Cardinality(late') <= Cardinality(late) + 1
  <2>1. late' = late \/ \E tx : late' = late \cup {tx}
    BY DEF ClaimInserted
  <2>2. ASSUME NEW tx
        PROVE  /\ IsFiniteSet(late \cup {tx})
               /\ Cardinality(late \cup {tx}) <= Cardinality(late) + 1
    <3>1. IsFiniteSet(late) /\ Cardinality(late) \in Nat
      BY FS_CardinalityType DEF DrainInv
    <3>2. /\ IsFiniteSet(late \cup {tx})
          /\ Cardinality(late \cup {tx}) =
                IF tx \in late THEN Cardinality(late) ELSE Cardinality(late) + 1
      BY <3>1, FS_AddElement
    <3> QED
      BY <3>1, <3>2
  <2>3. Cardinality(late) \in Nat /\ Cardinality(Worker) \in Nat
    BY DeliveryAssumption, FS_CardinalityType DEF DrainInv
  <2>4. IsFiniteSet(late') /\ Cardinality(late') <= Cardinality(late) + 1
    <3>1. CASE late' = late
      BY <2>3, <3>1 DEF DrainInv
    <3>2. CASE \E tx : late' = late \cup {tx}
      BY <2>2, <3>2
    <3> QED
      BY <2>1, <3>1, <3>2
  <2> QED
    BY <2>3, <2>4, FS_CardinalityType
<1>4. mode' = mode
  BY DEF ClaimInserted
<1> QED
  BY <1>2, <1>3, <1>4 DEF DrainInv, DisabledDrains, AtClaim

LEMMA DrainStep == TypeOK /\ DrainInv /\ [Next]_vars => DrainInv'
<1> SUFFICES ASSUME TypeOK, DrainInv, [Next]_vars PROVE DrainInv'
  OBVIOUS
<1>1. ASSUME NEW w \in Worker, ClaimInserted(w) PROVE DrainInv'
  BY <1>1, ClaimDrains
<1>2. ASSUME NEW w \in Worker, CheckMode(w) PROVE DrainInv'
  <2>1. CASE mode = "controlled_proof"
    BY <1>2, <2>1 DEF CheckMode, DrainInv, DisabledDrains
  <2>2. CASE mode # "controlled_proof"
    <3>1. AtClaim' \subseteq AtClaim
      BY <1>2, <2>2 DEF CheckMode, Finish, Goto, TypeOK, AtClaim
    <3> QED
      BY <1>2, <3>1, NobodyArrives DEF CheckMode
  <2> QED
    BY <2>1, <2>2
<1>3. ASSUME NEW w \in Worker, NEW s \in Step \ {"claim"}, Goto(w, s),
             late' = late, mode' = mode
      PROVE  DrainInv'
  <2>1. AtClaim' \subseteq AtClaim
    BY <1>3 DEF Goto, TypeOK, AtClaim
  <2> QED
    BY <1>3, <2>1, NobodyArrives
<1>4. ASSUME NEW m \in Mode, SetMode(m) PROVE DrainInv'
  <2>1. AtClaim' = AtClaim
    BY <1>4 DEF SetMode, AtClaim
  <2>2. CASE m = mode
    BY <1>4, <2>1, <2>2, NobodyArrives DEF SetMode
  <2>3. CASE m # mode
    <3>1. late' = {} /\ IsFiniteSet(late') /\ Cardinality(late') = 0
      BY <1>4, <2>3, FS_EmptySet DEF SetMode
    <3>2. /\ Cardinality(AtClaim') \in Nat
          /\ Cardinality(AtClaim') <= Cardinality(Worker)
      BY <2>1, DeliveryAssumption, FS_Subset, FS_CardinalityType DEF AtClaim
    <3> QED
      BY <3>1, <3>2 DEF DrainInv, DisabledDrains, AtClaim
  <2> QED
    BY <2>2, <2>3
<1>5. CASE UNCHANGED vars
  BY <1>5 DEF vars, DrainInv, DisabledDrains
<1>6. ASSUME NEW w \in Worker, Serve(w), ~ClaimInserted(w), ~CheckMode(w)
      PROVE  /\ late' = late /\ mode' = mode
             /\ \E s \in Step \ {"claim"} : Goto(w, s)
  <2>1. CASE \E r \in Request : Receive(w, r)
    BY <2>1 DEF Receive, Step
  <2>2. CASE Settle(w)
    BY <2>2 DEF Settle, SettlementConfirmed, SettlementReplyLost,
       SettlementRefused, Finish, Step
  <2>3. CASE ClaimConsumed(w) \/ ClaimConflict(w)
    BY <2>3 DEF ClaimConsumed, ClaimConflict, Refuse, Finish, Step
  <2>4. CASE Resume(w)
    BY <2>4 DEF Resume, Refuse, Finish, Step
  <2>5. CASE Render(w)
    BY <2>5 DEF Render, RenderSucceeds, RenderFails, Step
  <2>6. CASE ReadForFailure(w) \/ MarkFailed(w)
    BY <2>6 DEF ReadForFailure, MarkFailed, Finish, Step
  <2>7. CASE ReadClaim(w)
    BY <2>7 DEF ReadClaim, CompareDigest, Refuse, Finish, Step
  <2>8. CASE MarkDelivered(w)
    BY <2>8 DEF MarkDelivered, Step
  <2>9. CASE ReadRaced(w) \/ Respond(w)
    BY <2>9 DEF ReadRaced, Respond, CompareDigest, Refuse, Finish, Step
  <2> QED
    BY <1>6, <2>1, <2>2, <2>3, <2>4, <2>5, <2>6, <2>7, <2>8, <2>9
       DEF Serve, Claim
<1>7. ASSUME NEW w \in Worker, StoreFails(w) \/ \E b \in Build : Crash(w, b)
      PROVE  /\ late' = late /\ mode' = mode
             /\ \E s \in Step \ {"claim"} : Goto(w, s)
  BY <1>7 DEF StoreFails, Crash, Finish, Step
<1> QED
  BY <1>1, <1>2, <1>3, <1>4, <1>5, <1>6, <1>7 DEF Next

\* Once the service is disabled, at most one settlement per worker is still
\* consumed.
THEOREM Draining == Spec => []DisabledDrains
<1>1. Init => DrainInv
  <2> SUFFICES ASSUME Init PROVE DrainInv
    OBVIOUS
  <2>1. AtClaim = {} /\ late = {}
    BY DEF Init, AtClaim
  <2>2. Cardinality(Worker) \in Nat
    BY DeliveryAssumption, FS_CardinalityType
  <2> QED
    BY <2>1, <2>2, FS_EmptySet DEF DrainInv, DisabledDrains, AtClaim
<1>2. TypeOK /\ DrainInv /\ [Next]_vars => DrainInv'
  BY DrainStep
<1>3. DrainInv => DisabledDrains
  BY DEF DrainInv
<1> QED
  BY <1>1, <1>2, <1>3, TypeCorrect, PTL DEF Spec
-----------------------------------------------------------------------------
\* The promise to the payer. A settlement's row is the one RowOf chooses.
LEMMA RowIs ==
    ASSUME OneSettledClaimPerTx, NEW c \in claims
    PROVE  Claimed(c.tx) /\ RowOf(c.tx) = c
  BY DEF Claimed, RowOf, OneSettledClaimPerTx

\* A step that touches one settlement's row leaves the others' view alone.
LEMMA OthersSame ==
    ASSUME OneSettledClaimPerTx, OneSettledClaimPerTx', NEW tx,
           \A c : c.tx = tx => (c \in claims <=> c \in claims')
    PROVE  /\ Claimed(tx)' = Claimed(tx)
           /\ Claimed(tx) => RowOf(tx)' = RowOf(tx)
<1>1. Claimed(tx)' <=> Claimed(tx)
  BY DEF Claimed
<1>2. ASSUME Claimed(tx) PROVE RowOf(tx)' = RowOf(tx)
  <2>1. PICK c \in claims : c.tx = tx
    BY <1>2 DEF Claimed
  <2>2. c \in claims'
    BY <2>1
  <2>3. RowOf(tx) = c
    BY <2>1, RowIs
  <2>4. RowOf(tx)' = c
    BY <2>1, <2>2 DEF RowOf, OneSettledClaimPerTx
  <2> QED
    BY <2>3, <2>4
<1>3. Claimed(tx) \in BOOLEAN /\ Claimed(tx)' \in BOOLEAN
  BY DEF Claimed
<1> QED
  BY <1>1, <1>2, <1>3

LEMMA PromiseInit == Init => Entitlement!Init
  BY DEF Init, Entitlement!Init, Bought, Fate, Fixed, HandedOut, Claimed

LEMMA PromiseStutter ==
    ASSUME UNCHANGED <<claims, released>>
    PROVE  UNCHANGED Entitlement!vars
  BY DEF Entitlement!vars, Bought, Fate, Fixed, HandedOut, Claimed, RowOf

\* Inserting a claim row buys its resource with its settlement.
LEMMA PromiseBuy ==
    ASSUME Inv, Inv', NEW w \in Worker, ClaimInserted(w)
    PROVE  Entitlement!Buy(job[w].tx, job[w].uri) /\ job[w].tx \in Tx
           /\ job[w].uri \in Uri
<1>0. OneSettledClaimPerTx /\ OneSettledClaimPerTx'
  BY DEF Inv
<1>1. job[w].tx \in Tx /\ job[w].uri \in Uri
  BY DEF ClaimInserted, Inv, JobOK
<1>2. PICK t \in Tx, u \in Uri : t = job[w].tx /\ u = job[w].uri
  BY <1>1
<1>3. PICK d : d = [uri |-> u, tx |-> t, status |-> "pending", body |-> None]
  OBVIOUS
<1>4. claims' = claims \cup {d} /\ d.tx = t /\ d.uri = u
      /\ d.status = "pending"
  BY <1>2, <1>3 DEF ClaimInserted
<1>5. ~Claimed(t)
  BY <1>2 DEF ClaimInserted, Claimed
<1>6. Claimed(t)' /\ RowOf(t)' = d
  BY <1>0, <1>4 DEF Claimed, RowOf, OneSettledClaimPerTx
<1>7. \A x \in Tx : x # t => /\ Claimed(x)' = Claimed(x)
                             /\ Claimed(x) => RowOf(x)' = RowOf(x)
  BY <1>0, <1>4, OthersSame
<1>8. Bought[t] = None
  BY <1>5 DEF Bought
<1>9. Bought' = [Bought EXCEPT ![t] = u]
  BY <1>4, <1>5, <1>6, <1>7 DEF Bought
<1>10. Fate' = Fate /\ Fixed' = Fixed
  BY <1>4, <1>5, <1>6, <1>7 DEF Fate, Fixed
<1>11. HandedOut' = HandedOut
  BY DEF ClaimInserted, HandedOut
<1> QED
  BY <1>1, <1>2, <1>8, <1>9, <1>10, <1>11 DEF Entitlement!Buy

\* Resolving a pending claim decides the fate of its settlement.
LEMMA PromiseResolve ==
    ASSUME Inv, Inv', NEW w \in Worker, NEW s \in {"delivered", "failed"},
           NEW b, Resolve(w, s, b), ClaimIs(w, "pending"),
           released' = released, job[w].tx \in Tx
    PROVE  /\ Bought[job[w].tx] # None
           /\ Fate[job[w].tx] = "open"
           /\ Fate' = [Fate EXCEPT ![job[w].tx] = s]
           /\ s = "delivered" => Fixed' = [Fixed EXCEPT ![job[w].tx] = b]
           /\ s = "failed" => Fixed' = Fixed
           /\ Bought' = Bought
           /\ HandedOut' = HandedOut
<1>0. OneSettledClaimPerTx /\ OneSettledClaimPerTx' /\ TypeOK
  BY DEF Inv
<1>1. PICK t \in Tx : t = job[w].tx
  OBVIOUS
<1>2. PICK c \in claims :
           /\ c.uri = job[w].uri /\ c.tx = job[w].tx
           /\ c.status = "pending"
           /\ claims' = (claims \ {c}) \cup
                {[uri |-> job[w].uri, tx |-> job[w].tx,
                  status |-> s, body |-> b]}
  BY <1>0, ResolveOne
<1>3. PICK d : d = [uri |-> job[w].uri, tx |-> job[w].tx,
                    status |-> s, body |-> b]
  OBVIOUS
<1>4. /\ claims' = (claims \ {c}) \cup {d}
      /\ d.tx = t /\ d.uri = c.uri /\ d.status = s /\ d.body = b
      /\ c.tx = t
  BY <1>1, <1>2, <1>3
<1>5. Claimed(t) /\ RowOf(t) = c
  BY <1>0, <1>4, RowIs
<1>6. Claimed(t)' /\ RowOf(t)' = d
  BY <1>0, <1>4 DEF Claimed, RowOf, OneSettledClaimPerTx
<1>7. \A x \in Tx : x # t => /\ Claimed(x)' = Claimed(x)
                             /\ Claimed(x) => RowOf(x)' = RowOf(x)
  BY <1>0, <1>4, OthersSame
<1>8. c.uri \in Uri /\ None \notin Uri
  BY <1>0, DeliveryAssumption DEF TypeOK, Row
<1>9. Bought[t] # None /\ Fate[t] = "open"
  BY <1>2, <1>5, <1>8 DEF Bought, Fate
<1>10. Bought' = Bought
  BY <1>4, <1>5, <1>6, <1>7 DEF Bought
<1>11. Fate' = [Fate EXCEPT ![t] = s]
  BY <1>4, <1>5, <1>6, <1>7 DEF Fate
<1>12. s = "delivered" => Fixed' = [Fixed EXCEPT ![t] = b]
  BY <1>4, <1>5, <1>6, <1>7 DEF Fixed
<1>13. s = "failed" => Fixed' = Fixed
  BY <1>2, <1>4, <1>5, <1>6, <1>7 DEF Fixed
<1>14. HandedOut' = HandedOut
  BY DEF HandedOut
<1> QED
  BY <1>1, <1>9, <1>10, <1>11, <1>12, <1>13, <1>14

\* Answering with 200 hands out the body that was fixed.
LEMMA PromiseHandOut ==
    ASSUME Inv, NEW w \in Worker, Respond(w)
    PROVE  Entitlement!HandOut(job[w].tx) /\ job[w].tx \in Tx
<1>0. OneSettledClaimPerTx
  BY DEF Inv
<1>1. job[w].tx \in Tx
  BY DEF Respond, Inv, JobOK
<1>2. PICK t \in Tx : t = job[w].tx
  BY <1>1
<1>3. PICK c \in claims : /\ c.uri = job[w].uri /\ c.tx = t
                          /\ c.status = "delivered" /\ c.body = job[w].body
  BY <1>2 DEF Respond, Inv, ClaimHeld, ClaimOf
<1>4. Claimed(t) /\ RowOf(t) = c
  BY <1>0, <1>3, RowIs
<1>5. Fate[t] = "delivered" /\ Bought[t] = job[w].uri
      /\ Fixed[t] = job[w].body
  BY <1>3, <1>4 DEF Fate, Bought, Fixed
<1>6. HandedOut' = HandedOut \cup {<<t, job[w].uri, job[w].body>>}
  BY <1>2 DEF Respond, HandedOut
<1>7. UNCHANGED <<Bought, Fate, Fixed>>
  BY DEF Respond, Bought, Fate, Fixed, Claimed, RowOf
<1> QED
  BY <1>1, <1>2, <1>5, <1>6, <1>7 DEF Entitlement!HandOut

\* Only the three claim writers and the answer are visible to the payer.
LEMMA WhoShows ==
    ASSUME [Next]_vars
    PROVE  \/ UNCHANGED <<claims, released>>
           \/ \E w \in Worker : \/ ClaimInserted(w) \/ MarkFailed(w)
                                \/ MarkDelivered(w) \/ Respond(w)
  BY DEF Next, Serve, Settle, Claim, Render, Receive, SettlementConfirmed,
     SettlementReplyLost, SettlementRefused, CheckMode, ClaimConsumed,
     ClaimConflict, Resume, RenderSucceeds, RenderFails, ReadForFailure,
     ReadClaim, ReadRaced, StoreFails, Crash, SetMode, vars

LEMMA PromiseStep ==
    ASSUME Inv, Inv', [Next]_vars
    PROVE  [Entitlement!Next]_(Entitlement!vars)
<1>1. CASE UNCHANGED <<claims, released>>
  BY <1>1, PromiseStutter
<1>2. ASSUME NEW w \in Worker, ClaimInserted(w) PROVE Entitlement!Next
  BY <1>2, PromiseBuy DEF Entitlement!Next
<1>3. ASSUME NEW w \in Worker, MarkFailed(w), ClaimIs(w, "pending")
      PROVE  Entitlement!Next
  <2>1. job[w].tx \in Tx
    BY <1>3 DEF MarkFailed, Inv, JobOK
  <2>2. Entitlement!Fail(job[w].tx)
    BY <1>3, <2>1, PromiseResolve DEF MarkFailed, Entitlement!Fail
  <2> QED
    BY <2>1, <2>2 DEF Entitlement!Next
<1>4. ASSUME NEW w \in Worker, MarkDelivered(w), ClaimIs(w, "pending")
      PROVE  Entitlement!Next
  <2>1. job[w].tx \in Tx /\ job[w].body \in Body
    BY <1>4 DEF MarkDelivered, Inv, JobOK
  <2>2. Entitlement!Deliver(job[w].tx, job[w].body)
    BY <1>4, <2>1, PromiseResolve DEF MarkDelivered, Entitlement!Deliver
  <2> QED
    BY <2>1, <2>2 DEF Entitlement!Next
<1>5. ASSUME NEW w \in Worker, MarkFailed(w) \/ MarkDelivered(w),
             ~ClaimIs(w, "pending")
      PROVE  UNCHANGED <<claims, released>>
  BY <1>5, ResolveNothing DEF MarkFailed, MarkDelivered
<1>6. ASSUME NEW w \in Worker, Respond(w) PROVE Entitlement!Next
  BY <1>6, PromiseHandOut DEF Entitlement!Next
<1> QED
  BY <1>1, <1>2, <1>3, <1>4, <1>5, <1>6, WhoShows

\* The claim protocol keeps the promise: every behaviour of RetailDelivery is
\* one of RetailEntitlement, for any number of workers, builds, settlements.
THEOREM Refinement == Spec => KeepsPromise
  BY PromiseInit, PromiseStep, Invariance, PTL
     DEF Spec, KeepsPromise, Entitlement!Spec
=============================================================================

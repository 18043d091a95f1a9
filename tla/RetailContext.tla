---------------------------- MODULE RetailContext ----------------------------
(***************************************************************************)
(* The two retail resources: State Ping (retail_context/state_ping.py), an *)
(* account of what the eligible sources say of a subject, and Context      *)
(* Delta (context_delta.py), the structural differences of two such        *)
(* accounts.  Sources (sources.py) publish observations and the registry   *)
(* that makes them eligible changes between one ping and the next.         *)
(*                                                                         *)
(* The stable ids, digests of what they identify, are those things.        *)
(***************************************************************************)
EXTENDS Naturals, FiniteSets

CONSTANTS
    Publication,    \* [id, source, status, verification, age, material,
                    \* claims] a source may publish; claims are [scope,
                    \* statement, status]
    Listing,        \* [source, ready, namespace, access, terms] of registries
    MaxPublished    \* bound: publications per ping

VARIABLES
    published,      \* observations of the subject
    listed,         \* source entries
    earlier,        \* the ping before the last
    ping,           \* the last ping
    delta           \* their Context Delta

retailContextVars == <<published, listed, earlier, ping, delta>>
-----------------------------------------------------------------------------
\* is_source_usable: configured, and no fixture; public sources are free of
\* credentials, licensed ones have those of the retail plane.
UsableTerms == {<<"retail_public_sources", "public", "none">>,
                <<"retail_licensed_sources", "retail_licensed", "retail_context">>}
Usable(e) == e.ready /\ <<e.namespace, e.access, e.terms>> \in UsableTerms

Positive(o) == o.status \in {"observed", "stale"}
Eligible(o, L) == \E e \in L : e.source = o.source /\ Usable(e)
Contributing(O, L) == {o \in O : Positive(o) /\ Eligible(o, L)}

\* The claims of the contributing observations; the identity of the evidence
\* of a claim leaves out its status.
ClaimsOf(C) ==
    UNION {{[observation |-> o.id, source |-> o.source, scope |-> c.scope,
             statement |-> c.statement, status |-> c.status] : c \in o.claims} : o \in C}

EvidenceOf(c) == [observation |-> c.observation, source |-> c.source,
                  scope |-> c.scope, statement |-> c.statement]

\* Mutant of Disputed: sources that share one statement of a scope are taken
\* to agree on all of it.
DisputedUnlessShared(claims, scope) ==
    LET scoped == {c \in claims : c.scope = scope}
    IN  /\ Cardinality({c.source : c \in scoped}) > 1
        /\ ~ \E s \in {c.statement : c \in scoped} : \A x \in {c.source : c \in scoped} :
               \E c \in scoped : c.source = x /\ c.statement = s

Disputed(claims, scope) ==
    LET scoped == {c \in claims : c.scope = scope}
    IN  /\ Cardinality({c.source : c \in scoped}) > 1
        /\ Cardinality({c.statement : c \in scoped}) > 1

Contradictions(claims) ==
    {[claim |-> s, evidence |-> {EvidenceOf(c) : c \in {x \in claims : x.scope = s}}] :
        s \in {x \in {c.scope : c \in claims} : Disputed(claims, x)}}

EvidenceStatus(claims, c) ==
    IF Disputed(claims, c.scope) THEN "contradicted"
    ELSE IF c.status = "observed" THEN "observed" ELSE "unresolved"

\* limitations: [about, why]
Limits(O, L) ==
    LET C == Contributing(O, L)
    IN  {[about |-> o.id, why |-> "limitation"] : o \in {x \in O : x.material}}
        \cup {[about |-> o.id, why |-> o.status] : o \in {x \in O : ~Positive(x)}}
        \cup {[about |-> o.id, why |-> "ineligible"] :
                 o \in {x \in O : Positive(x) /\ ~Eligible(x, L)}}
        \cup {[about |-> o.id, why |-> "stale"] : o \in {x \in C : x.status = "stale"}}
        \cup {[about |-> o.id, why |-> o.verification] :
                 o \in {x \in C : x.verification # "verified"}}

\* unresolved_evidence: the limitations and what the claims leave open.
Gaps(O, L) ==
    LET C == Contributing(O, L)
        claims == ClaimsOf(C)
    IN  Limits(O, L)
        \cup {[about |-> c.observation, why |-> c.scope] :
                 c \in {x \in claims : x.status # "observed"}}
        \cup {[about |-> k.claim, why |-> "contradiction"] : k \in Contradictions(claims)}
        \cup (IF C = {} THEN {[about |-> "subject", why |-> "missing"]} ELSE {})

ContextStatus(O, L) ==
    IF Contributing(O, L) = {} THEN "insufficient_evidence"
    ELSE IF Contradictions(ClaimsOf(Contributing(O, L))) # {} THEN "unresolved"
    ELSE IF Gaps(O, L) # {} THEN "partially_resolved" ELSE "resolved"

Confidence(O, L) ==
    LET C == Contributing(O, L)
    IN  CASE ContextStatus(O, L) = "insufficient_evidence" -> "indeterminate"
          [] ContextStatus(O, L) = "unresolved" -> "low"
          [] ContextStatus(O, L) = "resolved" -> "medium"
          [] OTHER -> IF \A o \in C : o.verification = "verified" /\ o.status = "observed"
                      THEN "medium" ELSE "low"

Freshness(C) ==
    IF C = {} THEN [age |-> 0, status |-> "unknown"]
    ELSE [age |-> CHOOSE a \in {o.age : o \in C} : \A o \in C : o.age <= a,
          status |-> IF \E o \in C : o.status = "stale" THEN "stale" ELSE "unknown"]

Provenance(C) ==
    LET claims == ClaimsOf(C)
        Of(o) == {c \in claims : c.observation = o.id}
    IN  {[source |-> o.source, observation |-> o.id, verification |-> o.verification,
          scope |-> {c.scope : c \in Of(o)},
          reconciliation |->
             IF \E c \in Of(o) : Disputed(claims, c.scope) THEN "contradicted"
             ELSE IF \E c \in Of(o) : c.status # "observed" THEN "unresolved"
             ELSE "not_assessed"] : o \in C}

\* build_state_ping
StatePing(O, L) ==
    LET C == Contributing(O, L)
        claims == ClaimsOf(C)
    IN  [id |-> [observations |-> O, entries |-> L],
         status |-> ContextStatus(O, L), confidence |-> Confidence(O, L),
         freshness |-> Freshness(C), provenance |-> Provenance(C),
         evidence |-> {[id |-> EvidenceOf(c), status |-> EvidenceStatus(claims, c)] :
                          c \in claims},
         repeated |-> \E c, d \in claims : c # d /\ EvidenceOf(c) = EvidenceOf(d),
         contradictions |-> Contradictions(claims),
         gaps |-> Gaps(O, L), limitations |-> Limits(O, L)]
-----------------------------------------------------------------------------
\* The changes of a part whose items are known by an id.
Ids(P, Id(_)) == {Id(x) : x \in P}
Changes(P, Q, Id(_)) ==
    [added |-> Ids(Q, Id) \ Ids(P, Id), removed |-> Ids(P, Id) \ Ids(Q, Id),
     changed |-> {Id(x) : x \in {y \in P : \E z \in Q : Id(y) = Id(z) /\ y # z}}]
Unchanged(c) == c.added = {} /\ c.removed = {} /\ c.changed = {}

EvidenceId(x) == x.id
SourceId(x) == x.source
ItsId(x) == x

\* _index_by_id refuses a context in which an id is there twice: a statement
\* that was made with two statuses has one evidence id, two contributing
\* observations of one source have one provenance id.
Indexed(p) ==
    /\ ~p.repeated
    /\ \A x, y \in p.provenance : x.source = y.source => x = y

EvidenceChanges(p, q) == Changes(p.evidence, q.evidence, EvidenceId)
ContradictionChanges(p, q) == Changes(p.contradictions, q.contradictions, ItsId)
UnresolvedChanges(p, q) == Changes(p.gaps, q.gaps, ItsId)
LimitationChanges(p, q) == Changes(p.limitations, q.limitations, ItsId)

\* The observation a provenance rests on is not compared.
ProvenanceChanges(p, q) ==
    Changes({[r EXCEPT !.observation = "any"] : r \in p.provenance},
            {[r EXCEPT !.observation = "any"] : r \in q.provenance}, SourceId)

ValuesChange(p, q) ==
    p.status # q.status \/ p.freshness # q.freshness \/ p.confidence # q.confidence

\* build_context_delta
ContextDelta(p, q) ==
    LET material ==
            \/ ValuesChange(p, q)
            \/ ~Unchanged(EvidenceChanges(p, q)) \/ ~Unchanged(ContradictionChanges(p, q))
            \/ ~Unchanged(UnresolvedChanges(p, q)) \/ ~Unchanged(LimitationChanges(p, q))
            \/ ~Unchanged(ProvenanceChanges(p, q))
    IN  [built |-> TRUE, contradictions |-> ContradictionChanges(p, q),
         status |-> IF material THEN "changed"
                    ELSE IF p.status = "insufficient_evidence" THEN "indeterminate"
                    ELSE "unchanged"]
-----------------------------------------------------------------------------
Publish(o) ==
    /\ Cardinality(published) < MaxPublished \/ \E x \in published : x.source = o.source
    /\ published' = {x \in published : x.source # o.source} \cup {o}
    /\ published' # published
    /\ UNCHANGED <<listed, earlier, ping, delta>>

\* A second observation of a source in one request.
PublishBoth(o) ==
    /\ Cardinality(published) < MaxPublished
    /\ \A x \in published : x.id # o.id
    /\ published' = published \cup {o}
    /\ UNCHANGED <<listed, earlier, ping, delta>>

List(entry) ==
    /\ listed' = {e \in listed : e.source # entry.source} \cup {entry}
    /\ listed' # listed
    /\ UNCHANGED <<published, earlier, ping, delta>>

TakePing ==
    /\ published # {}
    /\ ping' = StatePing(published, listed) /\ earlier' = ping
    /\ delta' = IF Indexed(ping) /\ Indexed(ping') THEN ContextDelta(ping, ping')
                ELSE [built |-> FALSE]
    /\ UNCHANGED <<published, listed>>

RetailContextInit ==
    /\ published = {} /\ listed = {}
    /\ ping = StatePing({}, {}) /\ earlier = ping
    /\ delta = ContextDelta(ping, ping)

RetailContextNext ==
    \/ \E o \in Publication : Publish(o) \/ PublishBoth(o)
    \/ \E entry \in Listing : List(entry)
    \/ TakePing

RetailContextSpec == RetailContextInit /\ [][RetailContextNext]_retailContextVars
-----------------------------------------------------------------------------
Statements(o, scope) == {c.statement : c \in {x \in o.claims : x.scope = scope}}

\* Sources that disagree are never smoothed over, and a delta does not pass
\* over it when the disagreement goes: if two eligible sources state different
\* things of one scope, the ping is unresolved, of low confidence, and all its
\* evidence of that scope is contradicted; a resolved ping rests on eligible,
\* verified and fresh observations alone; and a contradiction that the earlier
\* ping had and this one has not is a removal in a delta that says "changed",
\* unless the contexts cannot be indexed (build_state_ping,
\* build_context_delta).
DisagreementShown ==
    LET O == ping.id.observations
        C == Contributing(O, ping.id.entries)
    IN  /\ \A o, u \in C : \A c \in o.claims :
              /\ o.source # u.source /\ Statements(u, c.scope) # {}
              /\ Statements(u, c.scope) # Statements(o, c.scope)
              => /\ ping.status = "unresolved" /\ ping.confidence = "low"
                 /\ \A e \in ping.evidence :
                       e.id.scope = c.scope => e.status = "contradicted"
        /\ ping.status = "resolved" => O # {} /\ \A o \in O :
              /\ o \in C /\ o.status = "observed" /\ o.verification = "verified"
              /\ ~o.material /\ \A c \in o.claims : c.status = "observed"
        /\ delta.built => \A k \in earlier.contradictions \ ping.contradictions :
              delta.status = "changed" /\ k \in delta.contradictions.removed
=============================================================================

-------------------------- MODULE RetailEntitlement --------------------------
(***************************************************************************)
(* What the retail runtime promises a payer: a settlement buys one         *)
(* resource, which is delivered with one body or fails, for good; that     *)
(* body, and no other, may then be handed out again and again.             *)
(* docs/retail-context-network/controlled-production-proof-v0.1.md, "Exact *)
(* request and delivery recovery". RetailDelivery implements it.           *)
(***************************************************************************)
CONSTANTS Tx,    \* settlements
          Uri,   \* resources on sale
          Body,  \* response bodies
          None

VARIABLES bought,     \* bought[tx]: the resource tx pays for, or None
          fate,       \* fate[tx]: "open", "delivered" or "failed"
          fixed,      \* fixed[tx]: the delivered body, or None
          handedOut   \* <<tx, uri, body>> sent to a client

vars == <<bought, fate, fixed, handedOut>>

Init ==
    /\ bought = [tx \in Tx |-> None]
    /\ fate = [tx \in Tx |-> "open"]
    /\ fixed = [tx \in Tx |-> None]
    /\ handedOut = {}

Buy(tx, uri) ==
    /\ bought[tx] = None
    /\ bought' = [bought EXCEPT ![tx] = uri]
    /\ UNCHANGED <<fate, fixed, handedOut>>

Deliver(tx, body) ==
    /\ bought[tx] # None /\ fate[tx] = "open"
    /\ fate' = [fate EXCEPT ![tx] = "delivered"]
    /\ fixed' = [fixed EXCEPT ![tx] = body]
    /\ UNCHANGED <<bought, handedOut>>

Fail(tx) ==
    /\ bought[tx] # None /\ fate[tx] = "open"
    /\ fate' = [fate EXCEPT ![tx] = "failed"]
    /\ UNCHANGED <<bought, fixed, handedOut>>

HandOut(tx) ==
    /\ fate[tx] = "delivered"
    /\ handedOut' = handedOut \cup {<<tx, bought[tx], fixed[tx]>>}
    /\ UNCHANGED <<bought, fate, fixed>>

Next == \E tx \in Tx : \/ \E uri \in Uri : Buy(tx, uri)
                       \/ \E body \in Body : Deliver(tx, body)
                       \/ Fail(tx)
                       \/ HandOut(tx)

Spec == Init /\ [][Next]_vars
=============================================================================

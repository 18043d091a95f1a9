---------------------------- MODULE KeyLifecycle ----------------------------
(***************************************************************************)
(* The lifecycle of API keys that Stripe drives: POST /webhook/stripe      *)
(* (app.py, stripe_webhook) and the key store it writes (key_manager.py).  *)
(*                                                                         *)
(* Stripe delivers every event until it is answered with a 2xx status,     *)
(* maybe again after that, and in any order.  The handler first records    *)
(* the event as processed, in memory and in a file, and only then acts on  *)
(* it; the process may stop in between.  The handler holds the event loop, *)
(* so one event is handled at a time.  Keys are numbered in the order of   *)
(* their creation; each write of keys.json replaces the whole file.        *)
(***************************************************************************)
EXTENDS Naturals, Sequences, FiniteSets

CONSTANTS
    Event,          \* what Stripe sends: [id, kind, customer, email,
                    \* price]
    ManualOwner,    \* e-mails an operator creates keys for
    MaxCrashes,     \* bound: process stops
    MaxFailures,    \* bound: failed writes and price lookups
    MaxManual       \* bound: keys created by hand

Customer == {e.customer : e \in Event}
Paying == {"checkout.session.completed", "invoice.payment_succeeded"}
Tier == {"emerging", "core", "enterprise"}
Status == {"active", "suspended", "inactive"}

ASSUME EventsAreStripeEvents ==
    /\ Event # {}
    /\ \A e \in Event :
          /\ e.kind \in Paying \cup {"invoice.payment_failed",
                          "customer.subscription.deleted",
                          "customer.subscription.updated", "other"}
          /\ e.email # "stripe_customer"

VARIABLES
    keys,           \* keys.json: sequence of [owner, customer, tier, status]
    seen, seenFile, \* PROCESSED_EVENTS and the file it is loaded from
    step,           \* where the handler is: "idle", "marked" or "done"
    event,          \* the event it handles
    acted,          \* how often each event was acted upon
    told,           \* per customer: the status its last event asked for
    broken,         \* events whose handling broke off after the mark
    acked,          \* events answered with a 2xx status
    faults          \* [crashes, failures, manual] so far

keyVars == <<keys, seen, seenFile, step, event, acted, told, broken, acked,
             faults>>
-----------------------------------------------------------------------------
\* Without an e-mail every customer is the owner "stripe_customer".
OwnerOf(e) == IF e.email = "" THEN "stripe_customer" ELSE e.email

\* map_price_to_tier: a price of ours is its tier, any other is free.
TierOf(price) == IF price \in Tier THEN price ELSE "free"

KeysOf(customer) ==
    {k \in DOMAIN keys : customer # "" /\ keys[k].customer = customer}
OwnedBy(owner) == {k \in DOMAIN keys : keys[k].owner = owner}

\* find_key_by_owner: an active key rather than none, the latest of them.
Preferred(owner) ==
    LET active == {k \in OwnedBy(owner) : keys[k].status = "active"}
        pool == IF active # {} THEN active ELSE OwnedBy(owner)
    IN  {k \in pool : \A other \in pool : other <= k}

\* The keys a payment may renew: the customer's, otherwise its owner's.
Renewable(e) == IF KeysOf(e.customer) # {} THEN KeysOf(e.customer)
                ELSE Preferred(OwnerOf(e))
-----------------------------------------------------------------------------
(* One action per step of the handler.                                     *)

Faulty(kind) == faults' = [faults EXCEPT ![kind] = @ + 1]
Close == step' = "done" /\ UNCHANGED event

Known(e) == e \in seen

\* A duplicate is answered at once.
Duplicate(e) ==
    /\ step = "idle" /\ Known(e)
    /\ acked' = acked \cup {e}
    /\ UNCHANGED <<keys, seen, seenFile, step, event, acted, told, broken, faults>>

\* Mutant of Mark: the mark is kept in memory only.
MarkInMemory(e) ==
    /\ step = "idle" /\ ~Known(e)
    /\ seen' = seen \cup {e} /\ step' = "marked" /\ event' = e
    /\ UNCHANGED <<keys, seenFile, acted, told, broken, acked, faults>>

\* _is_duplicate_event marks the event in memory, then in the file.
Mark(e) ==
    /\ step = "idle" /\ ~Known(e)
    /\ seen' = seen \cup {e} /\ seenFile' = seen'
    /\ step' = "marked" /\ event' = e
    /\ UNCHANGED <<keys, acted, told, broken, acked, faults>>

\* The file cannot be written: the handler raises, the memory keeps the mark.
MarkFails(e) ==
    /\ step = "idle" /\ ~Known(e)
    /\ faults.failures < MaxFailures /\ Faulty("failures")
    /\ seen' = seen \cup {e} /\ broken' = broken \cup {e}
    /\ UNCHANGED <<keys, seenFile, step, event, acted, told, acked>>

\* What an event asks for the key of its customer; "none" asks nothing.
StatusAsked(e) ==
    IF e.kind \in Paying \cup {"customer.subscription.updated"}
    THEN IF TierOf(e.price) = "free" THEN "none" ELSE "active"
    ELSE IF e.kind = "invoice.payment_failed" THEN "suspended"
    ELSE IF e.kind = "customer.subscription.deleted" THEN "inactive"
    ELSE "none"

Handled ==
    /\ step = "marked" /\ Close
    /\ acted' = [acted EXCEPT ![event] = @ + 1]
    /\ told' = [told EXCEPT ![event.customer] =
                   IF StatusAsked(event) = "none" THEN @ ELSE StatusAsked(event)]
    /\ UNCHANGED <<seen, seenFile, broken, acked, faults>>

\* Mutant of Activate: the wrapper from before the lifecycle, which sets the
\* tier and leaves the status (update_key_tier).
ChangeTier(k, e) ==
    keys' = [keys EXCEPT ![k].tier = TierOf(e.price),
                ![k].customer = IF e.customer = "" THEN @ ELSE e.customer]

\* A payment or an update makes a key of the customer active at its tier.
Activate(k, e) ==
    keys' = [keys EXCEPT ![k].tier = TierOf(e.price), ![k].status = "active",
                ![k].customer = IF e.customer = "" THEN @ ELSE e.customer]

Renew ==
    /\ Handled
    /\ event.kind \in Paying /\ TierOf(event.price) # "free"
    /\ \E k \in Renewable(event) : Activate(k, event)

\* Only a checkout creates a key; a renewal without one is refused.
Create ==
    /\ Handled
    /\ event.kind = "checkout.session.completed"
    /\ TierOf(event.price) # "free" /\ Renewable(event) = {}
    /\ keys' = Append(keys, [owner |-> OwnerOf(event),
                             customer |-> event.customer,
                             tier |-> TierOf(event.price),
                             status |-> "active"])

\* A failed payment suspends the customer's key, or the owner's keys: those
\* not yet inactive.
Suspend ==
    /\ Handled
    /\ event.kind = "invoice.payment_failed"
    /\ keys' = [k \in DOMAIN keys |->
                  IF \/ k \in KeysOf(event.customer)
                     \/ /\ KeysOf(event.customer) = {}
                        /\ k \in OwnedBy(OwnerOf(event))
                        /\ keys[k].status # "inactive"
                  THEN [keys[k] EXCEPT !.status = "suspended"] ELSE keys[k]]

\* The end of a subscription makes them inactive; the e-mail is then the
\* one of the metadata, without a default.
Deactivate ==
    /\ Handled
    /\ event.kind = "customer.subscription.deleted"
    /\ keys' = [k \in DOMAIN keys |->
                  IF \/ k \in KeysOf(event.customer)
                     \/ /\ KeysOf(event.customer) = {} /\ event.email # ""
                        /\ k \in OwnedBy(event.email)
                  THEN [keys[k] EXCEPT !.status = "inactive"] ELSE keys[k]]

Update ==
    /\ Handled
    /\ event.kind = "customer.subscription.updated"
    /\ TierOf(event.price) # "free"
    /\ \E k \in KeysOf(event.customer) : Activate(k, event)

\* Nothing to act upon: the event is only written to the audit log.
Ignore ==
    /\ Handled
    /\ \/ event.kind = "other"
       \/ /\ event.kind \in Paying \cup {"customer.subscription.updated"}
          /\ TierOf(event.price) = "free"
       \/ /\ event.kind = "invoice.payment_succeeded"
          /\ Renewable(event) = {}
       \/ /\ event.kind = "customer.subscription.updated"
          /\ KeysOf(event.customer) = {}
    /\ UNCHANGED keys

\* The line items of a checkout cannot be had: answered with an error of
\* status 200, so that Stripe does not deliver the event again.
LookupFails ==
    /\ step = "marked" /\ event.kind = "checkout.session.completed"
    /\ faults.failures < MaxFailures /\ Faulty("failures")
    /\ broken' = broken \cup {event}
    /\ Close
    /\ UNCHANGED <<keys, seen, seenFile, acted, told, acked>>

\* The handler raises on the event's form or because keys.json cannot be
\* written: a 5xx status, after which Stripe delivers the event again.
HandlerRaises ==
    /\ step = "marked" /\ event.kind # "other"
    /\ faults.failures < MaxFailures /\ Faulty("failures")
    /\ broken' = broken \cup {event}
    /\ step' = "idle"
    /\ UNCHANGED <<keys, seen, seenFile, event, acted, told, acked>>

Acknowledge ==
    /\ step = "done" /\ step' = "idle"
    /\ acked' = acked \cup {event}
    /\ UNCHANGED <<keys, seen, seenFile, event, acted, told, broken, faults>>

\* The process stops and starts again with what the files hold.
StopHandler ==
    /\ faults.crashes < MaxCrashes /\ Faulty("crashes")
    /\ seen' = seenFile
    /\ broken' = IF step = "marked" THEN broken \cup {event} ELSE broken
    /\ step' = "idle"
    /\ UNCHANGED <<keys, seenFile, event, acted, told, acked>>

\* manual_create_key: an operator's key has no customer.
CreateManually(owner) ==
    /\ step = "idle" /\ faults.manual < MaxManual /\ Faulty("manual")
    /\ keys' = Append(keys, [owner |-> owner, customer |-> "",
                             tier |-> "core", status |-> "active"])
    /\ UNCHANGED <<seen, seenFile, step, event, acted, told, broken, acked>>
-----------------------------------------------------------------------------
KeyInit ==
    /\ keys = <<>>
    /\ seen = {} /\ seenFile = {}
    /\ step = "idle" /\ event = CHOOSE e \in Event : TRUE
    /\ acted = [e \in Event |-> 0]
    /\ told = [c \in Customer |-> "none"]
    /\ broken = {} /\ acked = {}
    /\ faults = [crashes |-> 0, failures |-> 0, manual |-> 0]

KeyNext ==
    \/ \E e \in Event : Duplicate(e) \/ Mark(e) \/ MarkFails(e)
    \/ Renew \/ Create \/ Suspend \/ Deactivate \/ Update \/ Ignore
    \/ LookupFails \/ HandlerRaises \/ Acknowledge \/ StopHandler
    \/ \E owner \in ManualOwner : CreateManually(owner)

KeySpec == KeyInit /\ [][KeyNext]_keyVars
-----------------------------------------------------------------------------
\* An event is acted upon at most once, whatever is delivered again and
\* wherever the process stops; and an event Stripe no longer delivers was
\* acted upon, unless its handling broke off after the mark
\* (_is_duplicate_event, stripe_webhook).
EventsHandledOnce ==
    \A e \in Event :
        /\ acted[e] <= 1
        /\ e \in acked => acted[e] = 1 \/ e \in broken

\* The key of a customer who shares its e-mail with nobody has the status
\* the customer's own last delivered event asked for: no other customer's
\* event and no key made by hand gets in between (stripe_webhook,
\* suspend_keys_for_owner, deactivate_keys_for_owner).
Alone(c) ==
    \A e \in Event :
        e.customer = c /\ e.kind \in Paying \cup {"invoice.payment_failed"} =>
            /\ e.email # ""
            /\ \A other \in Event :
                  other.customer # c => other.email # e.email
KeyFollowsItsEvents ==
    \A c \in Customer : Alone(c) =>
        \A k \in KeysOf(c) : keys[k].status = told[c]
=============================================================================

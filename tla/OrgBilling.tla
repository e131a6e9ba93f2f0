----------------------------- MODULE OrgBilling -----------------------------
(***************************************************************************)
(* The plan of an organization and the Stripe subscriptions that pay for   *)
(* it: app/payments/subscription_service.py, its endpoints in              *)
(* app/payments/router.py and the billing columns of                       *)
(* app/organizations/models.py.                                            *)
(*                                                                         *)
(* A manager opens a Checkout session, Stripe makes a subscription of it   *)
(* and tells of every change with events, in any order and more than once. *)
(* An event carries the subscription as it was, or makes the handler       *)
(* retrieve it as it is; the handler loads the row, compares, and writes   *)
(* the columns that differ from what it loaded.                            *)
(***************************************************************************)
EXTENDS Naturals, FiniteSets

CONSTANTS
  Handler,       \* webhook requests in flight at a time
  Buyer,         \* checkout requests in flight at a time
  Sub, Customer, \* Stripe's subscriptions and customers
  Null,          \* NULL
  MaxSessions,   \* bound on Checkout sessions open at a time
  MaxChanges,    \* bound on the changes of subscriptions at Stripe
  MaxRepeats     \* bound on repeated deliveries and failed handlers

Plan == {"solo", "team"}  \* a price grants the plan it is named after

\* "active" stands for trialing and past_due too: all of them entitle.
_ENTITLED_STATUSES == {"active"}
\* "canceled" is final and stands for incomplete_expired too.
_REVOKED_STATUSES == {"unpaid", "canceled"}
Status == _ENTITLED_STATUSES \cup _REVOKED_STATUSES \cup {"incomplete"}

Object == [sub : Sub, customer : Customer, status : Status, price : Plan]

\* An event with the object in its payload, or one that names it only.
Event == [sub : Sub, object : Object \cup {Null}]

Row == [sub : Sub \cup {Null}, status : Status \cup {Null},
        price : Plan \cup {Null}, plan : Plan]

ASSUME BillingAssumption ==
  /\ Null \notin Sub \cup Customer \cup Object \cup Event \cup Row
  /\ MaxSessions \in Nat /\ MaxChanges \in Nat /\ MaxRepeats \in Nat

VARIABLES
  stripe_customer_id, stripe_subscription_id,  \* columns of the organization
  subscription_status, subscription_price, plan,
  buying,     \* per checkout request: what it is about to use as customer
  customers,  \* Stripe: customers created
  sessions,   \* Stripe: open Checkout sessions
  subs,       \* Stripe: the subscriptions
  was,        \* every state a subscription has ever been in
  events,     \* events Stripe has still to deliver
  handling,   \* per webhook request: the object it resolved
  handled,    \* per webhook request: its event
  copy,       \* per webhook request: the row it loaded
  changes, repeats

rowVars == <<stripe_customer_id, stripe_subscription_id, subscription_status,
             subscription_price, plan>>
subscriptionVars == <<customers, sessions, subs, was, changes>>
handlerVars == <<handling, handled, copy>>
billingVars == <<rowVars, subscriptionVars, handlerVars, buying, events, repeats>>

-----------------------------------------------------------------------------
row == [sub |-> stripe_subscription_id, status |-> subscription_status,
        price |-> subscription_price, plan |-> plan]

BillingInit ==
  /\ stripe_customer_id = Null /\ stripe_subscription_id = Null
  /\ subscription_status = Null /\ subscription_price = Null /\ plan = "solo"
  /\ buying = [b \in Buyer |-> "idle"]
  /\ customers = {} /\ sessions = {} /\ was = {} /\ events = {}
  /\ subs = [s \in Sub |-> Null]
  /\ handling = [h \in Handler |-> Null] /\ handled = [h \in Handler |-> Null]
  /\ copy = [h \in Handler |-> Null]
  /\ changes = 0 /\ repeats = 0

-----------------------------------------------------------------------------
(* Checkout.                                                               *)

\* The organization is loaded, the membership of the caller awaited.
_resolve_billing_org(b) ==
  /\ buying[b] = "idle"
  /\ buying' = [buying EXCEPT ![b] = stripe_customer_id]
  /\ UNCHANGED <<rowVars, subscriptionVars, handlerVars, events, repeats>>

\* Stripe makes up the identifiers of what it creates.
Fresh(S) == CHOOSE x \in S : TRUE

\* Mutant: a customer is created whatever the organization has.
MutEnsureCustomer(b) ==
  IF customers = Customer THEN buying[b] ELSE Fresh(Customer \ customers)

ensure_customer(b) == IF buying[b] = Null THEN Fresh(Customer \ customers) ELSE buying[b]

\* A customer made on the way is kept, unless Stripe refuses the session.
create_subscription_checkout(b) ==
  /\ buying[b] # "idle" /\ Cardinality(sessions) < MaxSessions
  /\ buying[b] = Null => Customer \ customers # {}
  /\ LET c == ensure_customer(b)
     IN /\ customers' = customers \cup {c}
        /\ \/ /\ \E p \in Plan : sessions' = sessions \cup {[customer |-> c, price |-> p]}
              /\ stripe_customer_id' = IF c = buying[b] THEN stripe_customer_id ELSE c
           \/ UNCHANGED <<sessions, stripe_customer_id>>
  /\ buying' = [buying EXCEPT ![b] = "idle"]
  /\ UNCHANGED <<stripe_subscription_id, subscription_status, subscription_price, plan,
                 subs, was, changes, handlerVars, events, repeats>>

-----------------------------------------------------------------------------
(* Stripe.                                                                 *)

\* A subscription takes a new state, and an event says so; what an invoice or
\* the Checkout session says of it is sent as well when there was one.
Becomes(o, invoiced) ==
  /\ changes < MaxChanges /\ changes' = changes + 1
  /\ subs' = [subs EXCEPT ![o.sub] = o]
  /\ was' = was \cup {o}
  /\ events' = events \cup {[sub |-> o.sub, object |-> o]}
       \cup (IF invoiced THEN {[sub |-> o.sub, object |-> Null]} ELSE {})
  /\ UNCHANGED <<rowVars, customers, handlerVars, buying, repeats>>

\* A session is completed; some banks take their time to let the money through.
SessionCompleted(x) ==
  /\ \E s \in Sub : subs[s] = Null
  /\ \E st \in {"incomplete", "active"} :
       Becomes([sub |-> Fresh({s \in Sub : subs[s] = Null}), customer |-> x.customer,
                status |-> st, price |-> x.price], st = "active")
  /\ sessions' = sessions \ {x}

SubscriptionChanges(s) ==
  /\ subs[s] # Null
  /\ \/ \* the first invoice is paid, or is not
        /\ subs[s].status = "incomplete"
        /\ \/ Becomes([subs[s] EXCEPT !.status = "active"], TRUE)
           \/ Becomes([subs[s] EXCEPT !.status = "canceled"], FALSE)
     \/ \* dunning
        /\ subs[s].status = "active"
        /\ Becomes([subs[s] EXCEPT !.status = "unpaid"], TRUE)
     \/ /\ subs[s].status = "unpaid"
        /\ Becomes([subs[s] EXCEPT !.status = "active"], TRUE)
     \/ /\ subs[s].status \in {"active", "unpaid"}
        /\ Becomes([subs[s] EXCEPT !.status = "canceled"], FALSE)
  /\ UNCHANGED sessions

\* In the billing portal, which is that of the organization's customer.
create_billing_portal_session(s) ==
  /\ subs[s] # Null /\ subs[s].status = "active"
  /\ stripe_customer_id = subs[s].customer
  /\ \E p \in Plan \ {subs[s].price} : Becomes([subs[s] EXCEPT !.price = p], TRUE)
  /\ UNCHANGED sessions

-----------------------------------------------------------------------------
(* Events.                                                                 *)

\* An event arrives; Stripe may send it once more later.
handle_subscription_event(h) ==
  /\ handling[h] = Null
  /\ \E e \in events :
       /\ handled' = [handled EXCEPT ![h] = e]
       /\ handling' = [handling EXCEPT ![h] =
            IF e.object = Null THEN subs[e.sub] ELSE e.object]
       /\ \/ events' = events \ {e} /\ UNCHANGED repeats
          \/ repeats < MaxRepeats /\ repeats' = repeats + 1 /\ UNCHANGED events
  /\ UNCHANGED <<rowVars, subscriptionVars, copy, buying>>

\* By customer, or by the organization named in the metadata: the row is found
\* either way.
_find_org_for_subscription(h) ==
  /\ handling[h] # Null /\ copy[h] = Null
  /\ copy' = [copy EXCEPT ![h] = row]
  /\ UNCHANGED <<rowVars, subscriptionVars, handling, handled, buying, events, repeats>>

Revoked(o) == o.status \in _REVOKED_STATUSES

\* Mutant: whatever a subscription says that is not the tracked one is stale.
MutStale(o, known) == known.sub # Null /\ known.sub # o.sub

\* A revocation of a subscription that was replaced.
Stale(o, known) == Revoked(o) /\ known.sub # Null /\ known.sub # o.sub

PlanFor(o, known) ==
  CASE o.status \in _ENTITLED_STATUSES -> o.price
    [] Revoked(o) -> "solo"
    [] OTHER -> known.plan

Answered(h) ==
  /\ handling' = [handling EXCEPT ![h] = Null]
  /\ handled' = [handled EXCEPT ![h] = Null]
  /\ copy' = [copy EXCEPT ![h] = Null]

\* Mutant: of an unpaid first invoice only the subscription is noted.
MutApply(h) ==
  /\ copy[h] # Null
  /\ LET o == handling[h]
         Column(now, loaded, new) == IF new = loaded THEN now ELSE new
     IN IF Stale(o, copy[h])
          THEN UNCHANGED rowVars
          ELSE /\ stripe_subscription_id' = Column(stripe_subscription_id, copy[h].sub, o.sub)
               /\ subscription_status' = Column(subscription_status, copy[h].status, o.status)
               /\ subscription_price' =
                    IF o.status = "incomplete" THEN subscription_price
                    ELSE Column(subscription_price, copy[h].price, o.price)
               /\ plan' = Column(plan, copy[h].plan, PlanFor(o, copy[h]))
               /\ UNCHANGED stripe_customer_id
  /\ Answered(h)
  /\ UNCHANGED <<subscriptionVars, buying, events, repeats>>

\* The mirror: a column is written when it differs from what was loaded.
_apply_subscription_to_org(h) ==
  /\ copy[h] # Null
  /\ LET o == handling[h]
         Column(now, loaded, new) == IF new = loaded THEN now ELSE new
     IN IF Stale(o, copy[h])
          THEN UNCHANGED rowVars
          ELSE /\ stripe_subscription_id' = Column(stripe_subscription_id, copy[h].sub, o.sub)
               /\ subscription_status' = Column(subscription_status, copy[h].status, o.status)
               /\ subscription_price' = Column(subscription_price, copy[h].price, o.price)
               /\ plan' = Column(plan, copy[h].plan, PlanFor(o, copy[h]))
               /\ UNCHANGED stripe_customer_id
  /\ Answered(h)
  /\ UNCHANGED <<subscriptionVars, buying, events, repeats>>

\* Stripe or the database fail the handler: 500, and the event is sent again.
HandlerFails(h) ==
  /\ handling[h] # Null /\ repeats < MaxRepeats
  /\ repeats' = repeats + 1
  /\ events' = events \cup {handled[h]}
  /\ Answered(h)
  /\ UNCHANGED <<rowVars, subscriptionVars, buying>>

-----------------------------------------------------------------------------
Webhook(h) ==
  \/ handle_subscription_event(h) \/ _find_org_for_subscription(h)
  \/ _apply_subscription_to_org(h)

BillingNext ==
  \/ \E b \in Buyer : _resolve_billing_org(b) \/ create_subscription_checkout(b)
  \/ \E x \in sessions : SessionCompleted(x)
  \/ \E s \in Sub : SubscriptionChanges(s) \/ create_billing_portal_session(s)
  \/ \E h \in Handler : Webhook(h) \/ HandlerFails(h)

\* Stripe sends until it is answered; nobody has to buy or to pay.
BillingFairness == \A h \in Handler : WF_billingVars(Webhook(h))

BillingSpec == BillingInit /\ [][BillingNext]_billingVars
BillingFairSpec == BillingSpec /\ BillingFairness

-----------------------------------------------------------------------------
(* Properties.                                                             *)

BillingTypeOK ==
  /\ stripe_customer_id \in Customer \cup {Null}
  /\ stripe_subscription_id \in Sub \cup {Null}
  /\ subscription_status \in Status \cup {Null}
  /\ subscription_price \in Plan \cup {Null} /\ plan \in Plan
  /\ buying \in [Buyer -> Customer \cup {Null, "idle"}]
  /\ customers \subseteq Customer
  /\ sessions \subseteq [customer : Customer, price : Plan]
  /\ subs \in [Sub -> Object \cup {Null}] /\ was \subseteq Object
  /\ events \subseteq Event
  /\ handling \in [Handler -> Object \cup {Null}]
  /\ handled \in [Handler -> Event \cup {Null}]
  /\ copy \in [Handler -> Row \cup {Null}]
  /\ changes \in 0..MaxChanges /\ repeats \in 0..MaxRepeats

\* The row is the image of one state of one subscription, not a mixture of
\* two: what the billing page shows was true at some time.
RowWasReal ==
  stripe_subscription_id # Null =>
    \E o \in was : /\ o.sub = stripe_subscription_id
                   /\ o.status = subscription_status
                   /\ o.price = subscription_price

\* An organization whose subscription is known to be unpaid or canceled is on
\* the free plan.
RevokedHasNoPlan == subscription_status \in _REVOKED_STATUSES => plan = "solo"

\* The portal opens for the customer who pays: managing billing reaches the
\* subscription that the organization is on.
PortalReachesSubscription ==
  stripe_subscription_id # Null => subs[stripe_subscription_id].customer = stripe_customer_id

\* A subscription to the team plan that is paid gives the plan, in whatever
\* order its events arrive and whatever others there are, as long as no
\* subscription was ever revoked or on the other price.
PaidGetsPlan ==
  \A s \in Sub :
    (subs[s] # Null /\ subs[s] = [subs[s] EXCEPT !.status = "active", !.price = "team"])
      ~> (plan = "team" \/ \E o \in was : Revoked(o) \/ o.price # "team")

\* Once every event is handled the row shows the subscription as it is
\* ("out-of-order webhook delivery still converges", subscription_service.py).
Converged ==
  events = {} /\ (\A h \in Handler : handling[h] = Null) /\ stripe_subscription_id # Null
    => subs[stripe_subscription_id].status = subscription_status

\* The end of a subscription that was replaced does not take the plan of an
\* organization that pays for another ("must never downgrade a paying org").
PayingKeepsPlan ==
  [][\A h \in Handler :
       _apply_subscription_to_org(h) /\ plan = "team" /\ plan' = "solo" /\ Revoked(handling[h])
         => \A s \in Sub \ {handling[h].sub} :
              subs[s] # Null => subs[s].status # "active" \/ subs[s].price # "team"]_billingVars
=============================================================================

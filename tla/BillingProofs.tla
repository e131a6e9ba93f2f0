--------------------------- MODULE BillingProofs ---------------------------
(***************************************************************************)
(* Proofs about what is paid again and again: the plan of an organization  *)
(* (OrgBilling) and the renewals of a trademark (Renewal).                 *)
(*                                                                         *)
(* The row of an organization keeps its types whatever Stripe sends.  When *)
(* events are handled one at a time a revoked subscription leaves no plan  *)
(* behind; when managers check out one at a time the portal is that of the *)
(* subscription.                                                           *)
(*                                                                         *)
(* With any number of requests an overdue owner is reminded, and with one  *)
(* request at a time the books agree with the register and every renewal   *)
(* was paid for.                                                           *)
(***************************************************************************)
EXTENDS OrgBilling, Renewal, FiniteSetTheorems, TLAPS

-----------------------------------------------------------------------------
(* The plan of an organization.                                            *)

\* A request is at work on the subscription its event names.
WorkOK ==
  /\ \A e \in events : e.object # Null \/ subs[e.sub] # Null
  /\ \A h \in Handler : (handling[h] = Null) = (handled[h] = Null)
  /\ \A h \in Handler : copy[h] # Null => handling[h] # Null
  /\ \A h \in Handler : handled[h] # Null => handled[h].object # Null \/ subs[handled[h].sub] # Null

IInv == BillingTypeOK /\ WorkOK

LEMMA NewInSet == ASSUME NEW S, S # {} PROVE Fresh(S) \in S
BY DEF Fresh

LEMMA InitOK == BillingInit => IInv
<1> SUFFICES ASSUME BillingInit PROVE IInv
  OBVIOUS
<1>1. BillingTypeOK
  BY BillingAssumption DEF BillingInit, BillingTypeOK, Plan
<1>. QED BY <1>1 DEF BillingInit, IInv, WorkOK

-----------------------------------------------------------------------------
LEMMA CheckoutStep ==
  ASSUME IInv, NEW b \in Buyer, _resolve_billing_org(b) \/ create_subscription_checkout(b)
  PROVE  IInv'
<1>1. CASE _resolve_billing_org(b)
  BY <1>1 DEF _resolve_billing_org, IInv, BillingTypeOK, WorkOK, rowVars, subscriptionVars, handlerVars
<1>2. CASE create_subscription_checkout(b)
  <2>1. ensure_customer(b) \in Customer
    BY <1>2, NewInSet DEF create_subscription_checkout, ensure_customer, IInv, BillingTypeOK
  <2>2. UNCHANGED <<stripe_subscription_id, subscription_status, subscription_price, plan,
                    subs, was, changes, handlerVars, events, repeats>>
    BY <1>2 DEF create_subscription_checkout
  <2>3. /\ customers' = customers \cup {ensure_customer(b)}
        /\ stripe_customer_id' \in {stripe_customer_id, ensure_customer(b)}
        /\ sessions' = sessions
             \/ \E p \in Plan : sessions' = sessions \cup {[customer |-> ensure_customer(b), price |-> p]}
        /\ buying' = [buying EXCEPT ![b] = "idle"]
    BY <1>2 DEF create_subscription_checkout
  <2>4. sessions' \subseteq [customer : Customer, price : Plan]
    BY <2>1, <2>3 DEF IInv, BillingTypeOK
  <2>5. BillingTypeOK'
    BY <2>1, <2>2, <2>3, <2>4 DEF IInv, BillingTypeOK, handlerVars
  <2>. QED BY <2>2, <2>5 DEF IInv, WorkOK, handlerVars
<1>. QED BY <1>1, <1>2

\* Stripe gives a subscription a state of its own.
LEMMA BecomesOK ==
  ASSUME IInv, NEW o \in Object, NEW i \in BOOLEAN, Becomes(o, i),
         sessions' \subseteq [customer : Customer, price : Plan]
  PROVE  IInv'
<1>1. /\ [sub |-> o.sub, object |-> o] \in Event /\ [sub |-> o.sub, object |-> Null] \in Event
      /\ o.sub \in Sub /\ o # Null
  <2>1. o.sub \in Sub
    BY DEF Object
  <2>2. o # Null
    BY BillingAssumption DEF Object
  <2>. QED BY <2>1, <2>2 DEF Event
<1>2. /\ changes' \in 0..MaxChanges /\ was' \subseteq Object /\ subs' \in [Sub -> Object \cup {Null}]
      /\ subs' = [subs EXCEPT ![o.sub] = o]
  BY <1>1, BillingAssumption DEF Becomes, IInv, BillingTypeOK
<1>3. events' \subseteq events \cup {[sub |-> o.sub, object |-> o], [sub |-> o.sub, object |-> Null]}
  BY DEF Becomes
<1>4. UNCHANGED <<rowVars, customers, handlerVars, buying, repeats>>
  BY DEF Becomes
<1>5. BillingTypeOK'
  BY <1>1, <1>2, <1>3, <1>4 DEF IInv, BillingTypeOK, rowVars, handlerVars
<1>6. \A s \in Sub : subs[s] # Null => subs'[s] # Null
  BY <1>1, <1>2 DEF IInv, BillingTypeOK
<1>7. \A e \in events' : e.object # Null \/ subs'[e.sub] # Null
  BY <1>1, <1>2, <1>3, <1>6 DEF IInv, BillingTypeOK, WorkOK, Event
<1>8. WorkOK'
  BY <1>4, <1>6, <1>7 DEF IInv, BillingTypeOK, WorkOK, Event, handlerVars
<1>. QED BY <1>5, <1>8 DEF IInv


\* The customers of whom Stripe has a session or a subscription.
Owns(c) ==
  \/ \E x \in sessions : x.customer = c
  \/ \E s \in Sub : subs[s] # Null /\ subs[s].customer = c

\* Whatever Stripe does to a subscription is Becomes with some object of it.
LEMMA StripeBecomes ==
  ASSUME IInv,
         \/ \E x \in sessions : SessionCompleted(x)
         \/ \E s \in Sub : SubscriptionChanges(s) \/ create_billing_portal_session(s)
  PROVE  /\ \E o \in Object, i \in BOOLEAN : Becomes(o, i) /\ Owns(o.customer)
         /\ sessions' \subseteq sessions
         /\ sessions' \subseteq [customer : Customer, price : Plan]
<1>1. ASSUME NEW x \in sessions, SessionCompleted(x)
      PROVE  \E o \in Object, i \in BOOLEAN : Becomes(o, i) /\ Owns(o.customer)
  <2>1. PICK st \in {"incomplete", "active"} :
          Becomes([sub |-> Fresh({s \in Sub : subs[s] = Null}), customer |-> x.customer,
                   status |-> st, price |-> x.price], st = "active")
    BY <1>1 DEF SessionCompleted
  <2>2. Fresh({s \in Sub : subs[s] = Null}) \in Sub
    BY <1>1, NewInSet DEF SessionCompleted
  <2>3. [sub |-> Fresh({s \in Sub : subs[s] = Null}), customer |-> x.customer,
         status |-> st, price |-> x.price] \in Object
    BY <2>2 DEF IInv, BillingTypeOK, Object, Status, _ENTITLED_STATUSES
  <2>. QED BY <2>1, <2>3 DEF Owns
<1>2. ASSUME NEW s \in Sub, SubscriptionChanges(s)
      PROVE  \E o \in Object, i \in BOOLEAN : Becomes(o, i) /\ Owns(o.customer)
  <2>1. subs[s] \in Object
    BY <1>2 DEF SubscriptionChanges, IInv, BillingTypeOK
  <2>2. \A st \in Status : /\ [subs[s] EXCEPT !.status = st] \in Object
                            /\ [subs[s] EXCEPT !.status = st].customer = subs[s].customer
    BY <2>1 DEF Object
  <2>3. "active" \in Status /\ "unpaid" \in Status /\ "canceled" \in Status
    BY DEF Status, _ENTITLED_STATUSES, _REVOKED_STATUSES
  <2>4. \E st \in {"active", "unpaid", "canceled"}, i \in BOOLEAN :
          Becomes([subs[s] EXCEPT !.status = st], i)
    BY <1>2 DEF SubscriptionChanges
  <2>5. subs[s] # Null
    BY <1>2 DEF SubscriptionChanges
  <2>. QED BY <2>2, <2>3, <2>4, <2>5 DEF Owns
<1>3. ASSUME NEW s \in Sub, create_billing_portal_session(s)
      PROVE  \E o \in Object, i \in BOOLEAN : Becomes(o, i) /\ Owns(o.customer)
  <2>1. \A p \in Plan : /\ [subs[s] EXCEPT !.price = p] \in Object
                         /\ [subs[s] EXCEPT !.price = p].customer = subs[s].customer
    BY <1>3 DEF create_billing_portal_session, IInv, BillingTypeOK, Object
  <2>2. \E p \in Plan : Becomes([subs[s] EXCEPT !.price = p], TRUE)
    BY <1>3 DEF create_billing_portal_session
  <2>3. subs[s] # Null
    BY <1>3 DEF create_billing_portal_session
  <2>. QED BY <2>1, <2>2, <2>3 DEF Owns
<1>4. sessions' \subseteq sessions
  BY DEF SessionCompleted, SubscriptionChanges, create_billing_portal_session
<1>. QED BY <1>1, <1>2, <1>3, <1>4 DEF IInv, BillingTypeOK

-----------------------------------------------------------------------------
\* What the mirror writes has the type of the column.
LEMMA ApplyRow ==
  ASSUME BillingTypeOK, NEW h \in Handler, handling[h] # Null, _apply_subscription_to_org(h)
  PROVE  /\ stripe_customer_id' \in Customer \cup {Null}
         /\ stripe_subscription_id' \in Sub \cup {Null}
         /\ subscription_status' \in Status \cup {Null}
         /\ subscription_price' \in Plan \cup {Null} /\ plan' \in Plan
<1>1. handling[h] \in Object /\ copy[h] \in Row
  BY DEF BillingTypeOK, _apply_subscription_to_org
<1>2. PlanFor(handling[h], copy[h]) \in Plan
  BY <1>1 DEF PlanFor, Object, Row, Plan
<1>3. CASE Stale(handling[h], copy[h])
  BY <1>3 DEF _apply_subscription_to_org, BillingTypeOK, rowVars
<1>4. CASE ~Stale(handling[h], copy[h])
  BY <1>1, <1>2, <1>4 DEF _apply_subscription_to_org, BillingTypeOK, Object
<1>. QED BY <1>3, <1>4

LEMMA WebhookStep ==
  ASSUME IInv, NEW h \in Handler, Webhook(h) \/ HandlerFails(h)
  PROVE  IInv'
<1>1. CASE handle_subscription_event(h)
  <2>1. PICK e \in events :
          /\ handled' = [handled EXCEPT ![h] = e]
          /\ handling' = [handling EXCEPT ![h] = IF e.object = Null THEN subs[e.sub] ELSE e.object]
          /\ \/ events' = events \ {e} /\ UNCHANGED repeats
             \/ repeats < MaxRepeats /\ repeats' = repeats + 1 /\ UNCHANGED events
    BY <1>1 DEF handle_subscription_event
  <2>2. e \in Event /\ (IF e.object = Null THEN subs[e.sub] ELSE e.object) \in Object
    BY DEF IInv, BillingTypeOK, WorkOK, Event
  <2>3. e # Null
    BY <2>2, BillingAssumption
  <2>4. UNCHANGED <<rowVars, subscriptionVars, copy, buying>>
    BY <1>1 DEF handle_subscription_event
  <2>5. repeats' \in 0..MaxRepeats /\ events' \subseteq events
    BY <2>1, BillingAssumption DEF IInv, BillingTypeOK
  <2>6. BillingTypeOK'
    BY <2>1, <2>2, <2>4, <2>5 DEF IInv, BillingTypeOK, rowVars, subscriptionVars
  <2>7. (IF e.object = Null THEN subs[e.sub] ELSE e.object) # Null
    BY <2>2, BillingAssumption
  <2>8. WorkOK'
    BY <2>1, <2>2, <2>3, <2>4, <2>5, <2>7 DEF IInv, BillingTypeOK, WorkOK, subscriptionVars
  <2>. QED BY <2>6, <2>8 DEF IInv
<1>2. CASE _find_org_for_subscription(h)
  <2>1. row \in Row
    BY DEF IInv, BillingTypeOK, row, Row
  <2>. QED BY <1>2, <2>1 DEF _find_org_for_subscription, IInv, BillingTypeOK, WorkOK, rowVars, subscriptionVars
<1>3. CASE _apply_subscription_to_org(h)
  <2>1. handling[h] # Null
    BY <1>3 DEF _apply_subscription_to_org, IInv, WorkOK
  <2>. QED BY <1>3, <2>1, ApplyRow
       DEF _apply_subscription_to_org, Answered, IInv, BillingTypeOK, WorkOK, subscriptionVars
<1>4. CASE HandlerFails(h)
  <2>1. handled[h] \in Event /\ handled[h] # Null
    BY <1>4 DEF HandlerFails, IInv, BillingTypeOK, WorkOK
  <2>2. repeats' \in 0..MaxRepeats
    BY <1>4, BillingAssumption DEF HandlerFails, IInv, BillingTypeOK
  <2>. QED BY <1>4, <2>1, <2>2
       DEF HandlerFails, Answered, IInv, BillingTypeOK, WorkOK, rowVars, subscriptionVars
<1>. QED BY <1>1, <1>2, <1>3, <1>4 DEF Webhook

LEMMA NextOK == IInv /\ [BillingNext]_billingVars => IInv'
<1> SUFFICES ASSUME IInv, [BillingNext]_billingVars PROVE IInv'
  OBVIOUS
<1>1. CASE BillingNext
  BY <1>1, CheckoutStep, StripeBecomes, BecomesOK, WebhookStep DEF BillingNext
<1>2. CASE UNCHANGED billingVars
  BY <1>2 DEF IInv, BillingTypeOK, WorkOK, billingVars, rowVars, subscriptionVars, handlerVars
<1>. QED BY <1>1, <1>2

\* The columns hold what their readers expect, a handler at work has an object
\* to apply, and no event names a subscription Stripe does not have.
THEOREM TypeCorrect == BillingSpec => []BillingTypeOK
<1>1. BillingInit => IInv
  BY InitOK
<1>2. IInv /\ [BillingNext]_billingVars => IInv'
  BY NextOK
<1>3. IInv => BillingTypeOK
  BY DEF IInv
<1>. QED BY <1>1, <1>2, <1>3, PTL DEF BillingSpec

-----------------------------------------------------------------------------
(* One webhook at a time: what the handler loaded is what it overwrites.   *)

OneHandler == \A g, h \in Handler : g = h

\* Whatever reaches the handler was the state of its subscription once, and
\* nobody has written the row since it was loaded.
MirrorInv ==
  /\ \A s \in Sub : subs[s] # Null => subs[s] \in was /\ subs[s].sub = s
  /\ \A e \in events : e.object # Null => e.object \in was
  /\ \A h \in Handler : handling[h] # Null => handling[h] \in was
  /\ \A h \in Handler :
       handled[h] # Null => (handled[h].object # Null => handled[h].object \in was)
  /\ \A h \in Handler : copy[h] # Null => copy[h] = row
  /\ RowWasReal /\ RevokedHasNoPlan

LEMMA MirrorInit == BillingInit => MirrorInv
BY BillingAssumption DEF BillingInit, MirrorInv, RowWasReal, RevokedHasNoPlan, _REVOKED_STATUSES

LEMMA BecomesMirror ==
  ASSUME IInv, MirrorInv, NEW o \in Object, NEW i \in BOOLEAN, Becomes(o, i)
  PROVE  MirrorInv'
<1>1. /\ o.sub \in Sub /\ subs' = [subs EXCEPT ![o.sub] = o] /\ was' = was \cup {o}
      /\ events' \subseteq events \cup {[sub |-> o.sub, object |-> o], [sub |-> o.sub, object |-> Null]}
  BY DEF Becomes, Object
<1>2. UNCHANGED <<rowVars, handlerVars>>
  BY DEF Becomes
<1>3. \A s \in Sub : subs'[s] # Null => subs'[s] \in was' /\ subs'[s].sub = s
  BY <1>1 DEF MirrorInv, IInv, BillingTypeOK
<1>4. \A e \in events' : e.object # Null => e.object \in was'
  BY <1>1 DEF MirrorInv
<1>5. /\ \A h \in Handler : handling'[h] # Null => handling'[h] \in was'
      /\ \A h \in Handler :
           handled'[h] # Null => (handled'[h].object # Null => handled'[h].object \in was')
      /\ \A h \in Handler : copy'[h] # Null => copy'[h] = row'
  BY <1>1, <1>2 DEF MirrorInv, rowVars, handlerVars, row
<1>6. RowWasReal' /\ RevokedHasNoPlan'
  BY <1>1, <1>2 DEF MirrorInv, rowVars, RowWasReal, RevokedHasNoPlan
<1>. QED BY <1>3, <1>4, <1>5, <1>6 DEF MirrorInv

LEMMA WebhookMirror ==
  ASSUME OneHandler, IInv, MirrorInv, NEW h \in Handler, Webhook(h) \/ HandlerFails(h)
  PROVE  MirrorInv'
<1>0. Handler = {h}
  BY DEF OneHandler
<1>1. CASE handle_subscription_event(h)
  <2>1. PICK e \in events :
          /\ handling' = [handling EXCEPT ![h] =
                           IF e.object = Null THEN subs[e.sub] ELSE e.object]
          /\ handled' = [handled EXCEPT ![h] = e]
    BY <1>1 DEF handle_subscription_event
  <2>2. /\ events' \subseteq events /\ handling[h] = Null
        /\ UNCHANGED <<rowVars, subscriptionVars, copy>>
    BY <1>1 DEF handle_subscription_event
  <2>3. (IF e.object = Null THEN subs[e.sub] ELSE e.object) \in was
    <3>1. e.sub \in Sub /\ (e.object # Null \/ subs[e.sub] # Null)
      BY DEF IInv, BillingTypeOK, WorkOK, Event
    <3>. QED BY <3>1 DEF MirrorInv
  <2>4. /\ handling'[h] \in was /\ copy[h] = Null
        /\ handled'[h].object # Null => handled'[h].object \in was
    BY <2>1, <2>2, <2>3 DEF MirrorInv, IInv, BillingTypeOK, WorkOK
  <2>. QED BY <1>0, <2>2, <2>4
       DEF MirrorInv, rowVars, subscriptionVars, row, RowWasReal, RevokedHasNoPlan
<1>2. CASE _find_org_for_subscription(h)
  BY <1>0, <1>2 DEF _find_org_for_subscription, MirrorInv, IInv, BillingTypeOK, rowVars, subscriptionVars,
                    row, RowWasReal, RevokedHasNoPlan
<1>3. CASE _apply_subscription_to_org(h)
  <2>1. /\ copy' = [copy EXCEPT ![h] = Null] /\ handling' = [handling EXCEPT ![h] = Null]
        /\ handled' = [handled EXCEPT ![h] = Null]
        /\ UNCHANGED <<subscriptionVars, events>>
    BY <1>3 DEF _apply_subscription_to_org, Answered
  <2>2. copy[h] = row /\ handling[h] \in was /\ handling[h] \in Object
    BY <1>3 DEF _apply_subscription_to_org, MirrorInv, IInv, BillingTypeOK, WorkOK
  <2>3. RowWasReal' /\ RevokedHasNoPlan'
    <3>1. CASE Stale(handling[h], copy[h])
      BY <1>3, <2>1, <3>1
         DEF _apply_subscription_to_org, rowVars, subscriptionVars, MirrorInv, RowWasReal, RevokedHasNoPlan
    <3>2. CASE ~Stale(handling[h], copy[h])
      <4>1. /\ stripe_subscription_id' = handling[h].sub
            /\ subscription_status' = handling[h].status
            /\ subscription_price' = handling[h].price
            /\ plan' = PlanFor(handling[h], copy[h])
        BY <1>3, <2>2, <3>2 DEF _apply_subscription_to_org, row
      <4>2. RowWasReal'
        BY <2>1, <2>2, <4>1 DEF RowWasReal, subscriptionVars
      <4>3. RevokedHasNoPlan'
        BY <4>1 DEF RevokedHasNoPlan, PlanFor, Revoked, _ENTITLED_STATUSES, _REVOKED_STATUSES
      <4>. QED BY <4>2, <4>3
    <3>. QED BY <3>1, <3>2
  <2>4. handling'[h] = Null /\ copy'[h] = Null /\ handled'[h] = Null
    BY <2>1 DEF IInv, BillingTypeOK
  <2>. QED BY <1>0, <2>1, <2>3, <2>4 DEF MirrorInv, subscriptionVars
<1>4. CASE HandlerFails(h)
  <2>1. /\ UNCHANGED <<rowVars, subscriptionVars>> /\ handling'[h] = Null /\ copy'[h] = Null
        /\ handled'[h] = Null /\ events' = events \cup {handled[h]}
    BY <1>4 DEF HandlerFails, Answered, IInv, BillingTypeOK
  <2>2. handled[h].object # Null => handled[h].object \in was
    BY <1>4 DEF HandlerFails, MirrorInv, IInv, WorkOK
  <2>. QED BY <1>0, <2>1, <2>2
       DEF MirrorInv, rowVars, subscriptionVars, row, RowWasReal, RevokedHasNoPlan
<1>. QED BY <1>1, <1>2, <1>3, <1>4 DEF Webhook

LEMMA MirrorNext == OneHandler /\ IInv /\ MirrorInv /\ [BillingNext]_billingVars => MirrorInv'
<1> SUFFICES ASSUME OneHandler, IInv, MirrorInv, [BillingNext]_billingVars PROVE MirrorInv'
  OBVIOUS
<1>1. CASE \E b \in Buyer : _resolve_billing_org(b) \/ create_subscription_checkout(b)
  <2>1. UNCHANGED <<stripe_subscription_id, subscription_status, subscription_price, plan,
                    subs, was, events, handlerVars>>
    BY <1>1 DEF _resolve_billing_org, create_subscription_checkout, rowVars, subscriptionVars
  <2>. QED BY <2>1 DEF MirrorInv, handlerVars, row, RowWasReal, RevokedHasNoPlan
<1>2. CASE \/ \E x \in sessions : SessionCompleted(x)
           \/ \E s \in Sub : SubscriptionChanges(s) \/ create_billing_portal_session(s)
  BY <1>2, StripeBecomes, BecomesMirror
<1>3. CASE \E h \in Handler : Webhook(h) \/ HandlerFails(h)
  BY <1>3, WebhookMirror
<1>4. CASE UNCHANGED billingVars
  BY <1>4 DEF billingVars, rowVars, subscriptionVars, handlerVars, MirrorInv, row, RowWasReal, RevokedHasNoPlan
<1>. QED BY <1>1, <1>2, <1>3, <1>4 DEF BillingNext

\* Events handled one at a time leave a row that was true once, in whatever
\* order they come, and no plan to whom the tracked subscription was revoked.
THEOREM MirrorIsSound ==
  ASSUME OneHandler PROVE BillingSpec => [](RowWasReal /\ RevokedHasNoPlan)
<1>1. BillingInit => IInv /\ MirrorInv
  BY InitOK, MirrorInit
<1>2. IInv /\ MirrorInv /\ [BillingNext]_billingVars => (IInv /\ MirrorInv)'
  BY NextOK, MirrorNext
<1>3. MirrorInv => RowWasReal /\ RevokedHasNoPlan
  BY DEF MirrorInv
<1>. QED BY <1>1, <1>2, <1>3, PTL DEF BillingSpec

-----------------------------------------------------------------------------
(* One checkout at a time: the customer it was given is still that of the  *)
(* organization when it opens its session.                                 *)

OneBuyer == \A a, b \in Buyer : a = b

\* All sessions and subscriptions are of the organization's customer.
OwnedOK ==
  /\ \A x \in sessions : x.customer = stripe_customer_id
  /\ \A s \in Sub : subs[s] # Null => subs[s].customer = stripe_customer_id
  /\ \A b \in Buyer : buying[b] # "idle" => buying[b] = stripe_customer_id

\* A subscription that is named anywhere is one Stripe has.
Exists(s) == s \in Sub /\ subs[s] # Null

Names(e) == Exists(e.sub) /\ (e.object # Null => e.object.sub = e.sub)

NamedOK ==
  /\ \A s \in Sub : subs[s] # Null => subs[s].sub = s
  /\ \A e \in events : Names(e)
  /\ \A h \in Handler : handled[h] # Null => Names(handled[h])
  /\ \A h \in Handler : handling[h] # Null => Exists(handling[h].sub)
  /\ stripe_subscription_id # Null => Exists(stripe_subscription_id)

PortalInv == OwnedOK /\ NamedOK

\* A first customer is stored with its session, or has none.
LEMMA CheckoutOwned ==
  ASSUME OneBuyer, IInv, OwnedOK, NEW b \in Buyer, create_subscription_checkout(b)
  PROVE  OwnedOK'
<1>1. buying[b] = stripe_customer_id /\ Buyer = {b}
  BY DEF create_subscription_checkout, OwnedOK, OneBuyer
<1>2. buying' = [buying EXCEPT ![b] = "idle"] /\ subs' = subs
  BY DEF create_subscription_checkout
<1>3. CASE UNCHANGED <<sessions, stripe_customer_id>>
  BY <1>1, <1>2, <1>3 DEF OwnedOK, IInv, BillingTypeOK
<1>4. ASSUME NEW p \in Plan,
             sessions' = sessions \cup {[customer |-> ensure_customer(b), price |-> p]},
             stripe_customer_id' =
               IF ensure_customer(b) = buying[b] THEN stripe_customer_id ELSE ensure_customer(b)
      PROVE  OwnedOK'
  <2>1. stripe_customer_id' = ensure_customer(b)
    BY <1>1, <1>4
  <2>2. CASE buying[b] # Null
    <3>1. ensure_customer(b) = stripe_customer_id
      BY <1>1, <2>2 DEF ensure_customer
    <3>. QED BY <1>1, <1>2, <1>4, <2>1, <3>1 DEF OwnedOK, IInv, BillingTypeOK
  <2>3. CASE buying[b] = Null
    <3>1. sessions = {} /\ \A s \in Sub : subs[s] = Null
      BY <1>1, <2>3, BillingAssumption DEF OwnedOK, IInv, BillingTypeOK, Object
    <3>. QED BY <1>1, <1>2, <1>4, <2>1, <3>1 DEF OwnedOK, IInv, BillingTypeOK
  <2>. QED BY <2>2, <2>3
<1>. QED BY <1>3, <1>4 DEF create_subscription_checkout

LEMMA CheckoutPortal ==
  ASSUME OneBuyer, IInv, PortalInv, NEW b \in Buyer,
         _resolve_billing_org(b) \/ create_subscription_checkout(b)
  PROVE  PortalInv'
<1>1. UNCHANGED <<stripe_subscription_id, subs, events, handlerVars>>
  BY DEF _resolve_billing_org, create_subscription_checkout, rowVars, subscriptionVars
<1>2. NamedOK'
  BY <1>1 DEF PortalInv, NamedOK, Names, Exists, handlerVars
<1>3. CASE _resolve_billing_org(b)
  BY <1>2, <1>3 DEF _resolve_billing_org, PortalInv, OwnedOK, IInv, BillingTypeOK, rowVars, subscriptionVars
<1>4. CASE create_subscription_checkout(b)
  BY <1>2, <1>4, CheckoutOwned DEF PortalInv
<1>. QED BY <1>3, <1>4

\* Stripe keeps the customer of what it has, and forgets no subscription.
LEMMA BecomesPortal ==
  ASSUME IInv, PortalInv, NEW o \in Object, NEW i \in BOOLEAN, Becomes(o, i),
         Owns(o.customer), sessions' \subseteq sessions
  PROVE  PortalInv'
<1>1. /\ o.sub \in Sub /\ subs' = [subs EXCEPT ![o.sub] = o]
      /\ events' \subseteq events \cup {[sub |-> o.sub, object |-> o], [sub |-> o.sub, object |-> Null]}
      /\ UNCHANGED <<rowVars, handlerVars, buying>>
  BY DEF Becomes, Object
<1>2. o # Null /\ o.customer = stripe_customer_id
  BY BillingAssumption DEF Owns, PortalInv, OwnedOK
<1>3. \A s \in Sub : subs'[s] = IF s = o.sub THEN o ELSE subs[s]
  BY <1>1 DEF IInv, BillingTypeOK
<1>4. OwnedOK'
  BY <1>1, <1>2, <1>3 DEF PortalInv, OwnedOK, rowVars
<1>5. \A s : Exists(s) => Exists(s)'
  BY <1>2, <1>3 DEF Exists
<1>6. Exists(o.sub)'
  BY <1>1, <1>2, <1>3 DEF Exists
<1>7. \A e \in events' : Names(e)'
  BY <1>1, <1>5, <1>6 DEF PortalInv, NamedOK, Names
<1>8. NamedOK'
  BY <1>1, <1>3, <1>5, <1>7 DEF PortalInv, NamedOK, Names, rowVars, handlerVars
<1>. QED BY <1>4, <1>8 DEF PortalInv

\* Handlers write the name of a subscription that exists, however many they are.
LEMMA WebhookPortal ==
  ASSUME IInv, PortalInv, NEW h \in Handler, Webhook(h) \/ HandlerFails(h)
  PROVE  PortalInv'
<1>1. UNCHANGED <<subscriptionVars, buying>>
  BY DEF Webhook, handle_subscription_event, _find_org_for_subscription,
         _apply_subscription_to_org, HandlerFails
<1>2. stripe_customer_id' = stripe_customer_id
  BY DEF Webhook, handle_subscription_event, _find_org_for_subscription,
         _apply_subscription_to_org, HandlerFails, rowVars
<1>3. OwnedOK'
  BY <1>1, <1>2 DEF PortalInv, OwnedOK, subscriptionVars
<1>4. subs' = subs
  BY <1>1 DEF subscriptionVars
<1>5. CASE handle_subscription_event(h)
  <2>1. PICK e \in events :
          /\ handling' = [handling EXCEPT ![h] =
                           IF e.object = Null THEN subs[e.sub] ELSE e.object]
          /\ handled' = [handled EXCEPT ![h] = e]
    BY <1>5 DEF handle_subscription_event
  <2>2. events' \subseteq events /\ UNCHANGED rowVars
    BY <1>5 DEF handle_subscription_event
  <2>3. Names(e) /\ Exists(e.sub)
    BY DEF PortalInv, NamedOK, Names
  <2>4. Exists((IF e.object = Null THEN subs[e.sub] ELSE e.object).sub)
    BY <2>3 DEF PortalInv, NamedOK, Names, Exists
  <2>. QED BY <1>3, <1>4, <2>1, <2>2, <2>3, <2>4
       DEF PortalInv, NamedOK, Names, Exists, IInv, BillingTypeOK, rowVars
<1>6. CASE _find_org_for_subscription(h)
  BY <1>3, <1>4, <1>6
  DEF _find_org_for_subscription, PortalInv, NamedOK, Names, Exists, rowVars
<1>7. CASE _apply_subscription_to_org(h)
  <2>1. handling[h] # Null
    BY <1>7 DEF _apply_subscription_to_org, IInv, WorkOK
  <2>2. stripe_subscription_id' \in {stripe_subscription_id, handling[h].sub}
    BY <1>7 DEF _apply_subscription_to_org, rowVars
  <2>3. /\ handling' = [handling EXCEPT ![h] = Null] /\ handled' = [handled EXCEPT ![h] = Null]
        /\ events' = events
    BY <1>7 DEF _apply_subscription_to_org, Answered
  <2>. QED BY <1>3, <1>4, <2>1, <2>2, <2>3
       DEF PortalInv, NamedOK, Names, Exists, IInv, BillingTypeOK
<1>8. CASE HandlerFails(h)
  <2>1. handled[h] # Null
    BY <1>8 DEF HandlerFails, IInv, WorkOK
  <2>2. /\ handling' = [handling EXCEPT ![h] = Null] /\ handled' = [handled EXCEPT ![h] = Null]
        /\ events' = events \cup {handled[h]} /\ UNCHANGED rowVars
    BY <1>8 DEF HandlerFails, Answered
  <2>. QED BY <1>3, <1>4, <2>1, <2>2
       DEF PortalInv, NamedOK, Names, Exists, IInv, BillingTypeOK, rowVars
<1>. QED BY <1>5, <1>6, <1>7, <1>8 DEF Webhook

\* When managers check out one at a time the portal reaches the subscription the
\* organization is on, however many events are handled together.
THEOREM PortalIsOfSubscription ==
  ASSUME OneBuyer PROVE BillingSpec => []PortalReachesSubscription
<1>1. BillingInit => IInv /\ PortalInv
  <2>1. BillingInit => PortalInv
    BY DEF BillingInit, PortalInv, OwnedOK, NamedOK
  <2>. QED BY <2>1, InitOK
<1>2. IInv /\ PortalInv /\ [BillingNext]_billingVars => (IInv /\ PortalInv)'
  <2> SUFFICES ASSUME IInv, PortalInv, [BillingNext]_billingVars PROVE PortalInv'
    BY NextOK
  <2>1. CASE \/ \E x \in sessions : SessionCompleted(x)
             \/ \E s \in Sub : SubscriptionChanges(s) \/ create_billing_portal_session(s)
    BY <2>1, StripeBecomes, BecomesPortal
  <2>2. CASE UNCHANGED billingVars
    BY <2>2 DEF billingVars, rowVars, subscriptionVars, handlerVars, PortalInv, OwnedOK, NamedOK, Names, Exists
  <2>. QED BY <2>1, <2>2, CheckoutPortal, WebhookPortal DEF BillingNext
<1>3. PortalInv => PortalReachesSubscription
  BY DEF PortalInv, OwnedOK, NamedOK, Exists, PortalReachesSubscription
<1>. QED BY <1>1, <1>2, <1>3, PTL DEF BillingSpec

-----------------------------------------------------------------------------
(* The windows have a largest and a smallest member.                       *)

\* Every set of naturals that has a member has a smallest one.
LEMMA HasSmallest ==
  ASSUME NEW S \in SUBSET Nat, S # {}
  PROVE  \E x \in S : \A y \in S : x <= y
<1> DEFINE R == {ss \in Nat \X Nat : ss[1] < ss[2]}
<1>1. OpToRel(<, Nat) = R BY DEF OpToRel
<1>2. IsWellFoundedOn(R, Nat) BY <1>1, NatLessThanWellFounded
<1> HIDE DEF R
<1>3. PICK x \in S : \A y \in S : ~(<<y, x>> \in R) BY <1>2, WFMin
<1>4. ASSUME NEW y \in S PROVE x <= y
  <2>1. x \in Nat /\ y \in Nat OBVIOUS
  <2>2. ~(y < x) BY <1>3, <2>1 DEF R
  <2> QED BY <2>1, <2>2
<1> QED BY <1>4

\* Every set of naturals that is bounded and has a member has a largest one.
LEMMA HasLargest ==
  ASSUME NEW n \in Nat, NEW S \in SUBSET (0 .. n), S # {}
  PROVE  \E x \in S : \A y \in S : x >= y
<1> DEFINE T == {n - x : x \in S}
<1>1. \A x \in S : x \in Nat /\ n - x \in Nat OBVIOUS
<1>5. T \subseteq Nat BY <1>1
<1>6. T # {} BY DEF T
<1> HIDE DEF T
<1>2. PICK t \in T : \A u \in T : t <= u BY <1>5, <1>6, HasSmallest
<1>3. PICK x \in S : t = n - x BY DEF T
<1>4. ASSUME NEW y \in S PROVE x >= y
  <2>1. n - y \in T BY DEF T
  <2>2. n - x <= n - y BY <1>2, <1>3, <2>1
  <2>3. x \in 0 .. n /\ y \in 0 .. n OBVIOUS
  <2> QED BY <2>2, <2>3
<1> QED BY <1>4

\* The largest and the smallest window, as the code's max and min take them.
LEMMA WindowFacts ==
  /\ Max(REMINDER_WINDOWS_DAYS) \in REMINDER_WINDOWS_DAYS
  /\ Min(REMINDER_WINDOWS_DAYS) \in REMINDER_WINDOWS_DAYS
  /\ \A w \in REMINDER_WINDOWS_DAYS : w \in Nat /\ w <= Term
  /\ Max(REMINDER_WINDOWS_DAYS) \in Nat /\ Max(REMINDER_WINDOWS_DAYS) <= Term
  /\ Min(REMINDER_WINDOWS_DAYS) \in Nat
<1> DEFINE W == REMINDER_WINDOWS_DAYS
<1>1. W \in SUBSET (0 .. Term) /\ W # {} /\ Term \in Nat BY RenewalAssumption
<1>2. \A w \in W : w \in Nat /\ w <= Term BY <1>1
<1>3. \E x \in W : \A y \in W : x >= y BY <1>1, HasLargest
<1>4. W \in SUBSET Nat BY <1>2
<1>5. \E x \in W : \A y \in W : x <= y BY <1>1, <1>4, HasSmallest
<1>6. Max(W) \in W BY <1>3 DEF Max
<1>7. Min(W) \in W BY <1>5 DEF Min
<1> QED BY <1>2, <1>6, <1>7

-----------------------------------------------------------------------------
(* Reminders, with any number of requests.                                 *)

\* The last reminder of the date the case has now.
LastReminder == [window |-> Min(REMINDER_WINDOWS_DAYS), due |-> renewal_due_at]

\* The nights begun since the date whose job is over.
NightsMissed == now - renewal_due_at + (IF pulsed THEN 1 ELSE 0)

ClockOK ==
  /\ now \in Nat /\ pulsed \in BOOLEAN /\ faults \in Nat
  /\ renewal_due_at \in Nat /\ last_renewed_at \in Nat /\ last_renewed_at <= now

\* An open job has read the date of the case, unless it was advanced tonight.
JobOK ==
  job # None =>
    /\ ~pulsed
    /\ last_renewed_at < now => job = [window |-> detect_open_window, due |-> renewal_due_at]

\* Each night after the date on which the last reminder is not recorded has
\* cost a fault, until the case is scanned no more.
MissesAreFaults ==
  last_renewed_at < renewal_due_at /\ renewal_due_at <= now /\ LastReminder \notin reminders =>
    faults >= NightsMissed \/ faults >= Max(REMINDER_WINDOWS_DAYS) + 2

JobInv == ClockOK /\ JobOK /\ MissesAreFaults

\* Once the date is there every window is open, and the smallest is named.
LEMMA AllWindowsOpen ==
  ASSUME ClockOK, renewal_due_at <= now
  PROVE  /\ OpenWindows = REMINDER_WINDOWS_DAYS
         /\ [window |-> detect_open_window, due |-> renewal_due_at] = LastReminder
<1>1. \A w \in REMINDER_WINDOWS_DAYS : now >= renewal_due_at - w
  BY WindowFacts DEF ClockOK
<1>2. OpenWindows = REMINDER_WINDOWS_DAYS BY <1>1 DEF OpenWindows
<1> QED BY <1>2 DEF detect_open_window, LastReminder

LEMMA JobInitial == Init => JobInv
<1> SUFFICES ASSUME Init PROVE JobInv OBVIOUS
<1> DEFINE m == Max(REMINDER_WINDOWS_DAYS)
<1>5. m \in Nat /\ m <= Term /\ Term \in Nat BY WindowFacts, RenewalAssumption
<1>6. /\ now = Term - m /\ pulsed = FALSE /\ renewal_due_at = Term /\ last_renewed_at = 0
      /\ faults = 0
  BY DEF Init
<1> HIDE DEF m
<1>7. pulsed \in BOOLEAN BY <1>6, Zenon
<1>1. ClockOK BY <1>5, <1>6, <1>7 DEF ClockOK
<1>2. JobOK BY DEF Init, JobOK
<1>3. now - renewal_due_at <= 0 /\ pulsed = FALSE /\ faults = 0
  BY <1>5, <1>6
<1>4. faults >= NightsMissed BY <1>1, <1>3 DEF NightsMissed, ClockOK
<1> QED BY <1>1, <1>2, <1>4 DEF JobInv, MissesAreFaults

\* What leaves the job and the dates alone, and may cost a fault, keeps it.
LEMMA JobUntouched ==
  ASSUME JobInv, UNCHANGED <<jobVars, renewal_due_at, last_renewed_at>>,
         faults' \in Nat, faults' >= faults
  PROVE  JobInv'
<1>1. ClockOK' BY DEF JobInv, ClockOK, jobVars
<1>2. JobOK' BY DEF JobInv, JobOK, jobVars, detect_open_window, OpenWindows
<1>3. NightsMissed' = NightsMissed /\ LastReminder' = LastReminder
  BY DEF NightsMissed, LastReminder, jobVars
<1>4. NightsMissed \in Int BY DEF NightsMissed, JobInv, ClockOK
<1>5. Max(REMINDER_WINDOWS_DAYS) \in Nat BY WindowFacts
<1>6. faults \in Nat BY DEF JobInv, ClockOK
<1>7. MissesAreFaults' 
  <2> SUFFICES ASSUME last_renewed_at' < renewal_due_at', renewal_due_at' <= now',
                      LastReminder' \notin reminders'
               PROVE  (faults >= NightsMissed \/ faults >= Max(REMINDER_WINDOWS_DAYS) + 2)'
    BY DEF MissesAreFaults
  <2>1. faults >= NightsMissed \/ faults >= Max(REMINDER_WINDOWS_DAYS) + 2
    BY <1>3 DEF JobInv, MissesAreFaults, jobVars
  <2> QED BY <1>3, <1>4, <1>5, <1>6, <2>1
<1> QED BY <1>1, <1>2, <1>7 DEF JobInv

\* Renewing tonight sets a date that lies ahead, or one no reminder is due for.
LEMMA JobRenewal ==
  ASSUME JobInv, mark_case_renewed, UNCHANGED <<jobVars, faults>>
  PROVE  JobInv'
<1>1. renewal_due_at' = renewal_due_at + Term /\ last_renewed_at' = now
  BY DEF mark_case_renewed
<1>2. ClockOK' BY <1>1, RenewalAssumption DEF JobInv, ClockOK, jobVars
<1>3. JobOK' BY <1>1 DEF JobInv, JobOK, ClockOK, jobVars
<1>4. MissesAreFaults' BY <1>1, <1>2 DEF MissesAreFaults, ClockOK, jobVars
<1> QED BY <1>2, <1>3, <1>4 DEF JobInv

LEMMA JobScan ==
  ASSUME JobInv, scan_and_dispatch_due_reminders
  PROVE  JobInv'
<1> DEFINE r == [window |-> detect_open_window, due |-> renewal_due_at]
<1>1. /\ job = None /\ pulsed = FALSE
      /\ UNCHANGED <<now, renewal_due_at, last_renewed_at, reminders, faults>>
      /\ \/ Scanned /\ OpenWindows # {} /\ r \in reminders /\ pulsed' = TRUE /\ job' = job
         \/ Scanned /\ OpenWindows # {} /\ r \notin reminders /\ job' = r /\ pulsed' = pulsed
         \/ ~(Scanned /\ OpenWindows # {}) /\ pulsed' = TRUE /\ job' = job
  <2>1. pulsed \in BOOLEAN BY DEF JobInv, ClockOK
  <2> QED BY <2>1 DEF scan_and_dispatch_due_reminders, Recorded, caseVars
<1> HIDE DEF r
<1>2. r' = r BY <1>1 DEF r, detect_open_window, OpenWindows
<1>3. ClockOK' BY <1>1 DEF JobInv, ClockOK
<1>4. JobOK' BY <1>1, <1>2 DEF JobOK, r
<1>5. LastReminder' = LastReminder BY <1>1 DEF LastReminder
<1>6. MissesAreFaults'
  <2> SUFFICES ASSUME last_renewed_at < renewal_due_at, renewal_due_at <= now,
                      LastReminder \notin reminders
               PROVE  (faults >= NightsMissed \/ faults >= Max(REMINDER_WINDOWS_DAYS) + 2)'
    BY <1>1, <1>5 DEF MissesAreFaults
  <2>1. OpenWindows # {} /\ r = LastReminder
    BY AllWindowsOpen, RenewalAssumption DEF JobInv, r
  <2>2. faults >= NightsMissed \/ faults >= Max(REMINDER_WINDOWS_DAYS) + 2
    BY DEF JobInv, MissesAreFaults
  <2>3. CASE Scanned
    <3>1. pulsed' = pulsed BY <1>1, <2>1, <2>3
    <3>2. NightsMissed' = NightsMissed BY <1>1, <3>1 DEF NightsMissed
    <3> QED BY <1>1, <2>2, <3>2
  <2>4. CASE ~Scanned
    <3>1. now - renewal_due_at >= Max(REMINDER_WINDOWS_DAYS) + 2
      BY <2>4, WindowFacts DEF Scanned, JobInv, ClockOK
    <3>2. NightsMissed = now - renewal_due_at BY <1>1 DEF NightsMissed, JobInv, ClockOK
    <3>3. faults >= Max(REMINDER_WINDOWS_DAYS) + 2
      BY <2>2, <3>1, <3>2, WindowFacts DEF JobInv, ClockOK
    <3> QED BY <1>1, <3>3
  <2> QED BY <2>3, <2>4
<1> QED BY <1>3, <1>4, <1>6 DEF JobInv

LEMMA JobCommit ==
  ASSUME JobInv, dispatch_renewal_reminders
  PROVE  JobInv'
<1>1. /\ job # None /\ job' = None /\ pulsed' = TRUE /\ reminders' = reminders \cup {job}
      /\ UNCHANGED <<now, renewal_due_at, last_renewed_at, faults>>
  BY DEF dispatch_renewal_reminders, caseVars
<1>2. ClockOK' BY <1>1 DEF JobInv, ClockOK
<1>3. JobOK' BY <1>1 DEF JobOK
<1>4. MissesAreFaults'
  <2> SUFFICES ASSUME last_renewed_at < renewal_due_at, renewal_due_at <= now
               PROVE  LastReminder' \in reminders'
    BY <1>1 DEF MissesAreFaults
  <2>1. last_renewed_at < now BY DEF JobInv, ClockOK
  <2>2. job = LastReminder BY <1>1, <2>1, AllWindowsOpen DEF JobInv, JobOK
  <2>3. LastReminder' = LastReminder BY <1>1 DEF LastReminder
  <2> QED BY <1>1, <2>2, <2>3
<1> QED BY <1>2, <1>3, <1>4 DEF JobInv

LEMMA JobFault ==
  ASSUME JobInv, JobDies
  PROVE  JobInv'
<1>1. /\ job # None /\ job' = None /\ pulsed' = TRUE /\ faults' = faults + 1
      /\ UNCHANGED <<now, renewal_due_at, last_renewed_at, reminders>>
  BY DEF JobDies, caseVars
<1>2. ClockOK' BY <1>1 DEF JobInv, ClockOK
<1>3. JobOK' BY <1>1 DEF JobOK
<1>4. LastReminder' = LastReminder BY <1>1 DEF LastReminder
<1>5. ~pulsed BY <1>1 DEF JobInv, JobOK
<1>6. /\ NightsMissed = now - renewal_due_at /\ NightsMissed' = now - renewal_due_at + 1
      /\ now - renewal_due_at \in Int
  BY <1>1, <1>5 DEF NightsMissed, JobInv, ClockOK
<1>7. MissesAreFaults'
  <2> SUFFICES ASSUME last_renewed_at < renewal_due_at, renewal_due_at <= now,
                      LastReminder \notin reminders
               PROVE  faults' >= NightsMissed' \/ faults' >= Max(REMINDER_WINDOWS_DAYS) + 2
    BY <1>1, <1>4 DEF MissesAreFaults
  <2>1. faults >= NightsMissed \/ faults >= Max(REMINDER_WINDOWS_DAYS) + 2
    BY DEF JobInv, MissesAreFaults
  <2>2. faults \in Nat BY DEF JobInv, ClockOK
  <2> QED BY <1>1, <1>6, <2>1, <2>2, WindowFacts
<1> QED BY <1>2, <1>3, <1>7 DEF JobInv

LEMMA JobNight ==
  ASSUME JobInv, Night
  PROVE  JobInv'
<1>1. /\ pulsed = TRUE /\ pulsed' = FALSE /\ now' = now + 1 /\ job' = job
      /\ UNCHANGED <<renewal_due_at, last_renewed_at, reminders, faults>>
  BY DEF Night, caseVars, JobInv, ClockOK
<1>8. pulsed' \in BOOLEAN BY <1>1, Zenon
<1>2. ClockOK' BY <1>1, <1>8 DEF JobInv, ClockOK
<1>7. job' = None BY <1>1 DEF JobInv, JobOK
<1>3. JobOK' BY <1>7 DEF JobOK
<1>4. LastReminder' = LastReminder BY <1>1 DEF LastReminder
<1>5. /\ NightsMissed = now - renewal_due_at + 1 /\ NightsMissed' = now - renewal_due_at + 1
      /\ now \in Nat /\ renewal_due_at \in Nat /\ faults \in Nat
  BY <1>1 DEF NightsMissed, JobInv, ClockOK
<1>6. MissesAreFaults'
  <2> SUFFICES ASSUME last_renewed_at < renewal_due_at, renewal_due_at <= now + 1,
                      LastReminder \notin reminders
               PROVE  faults >= NightsMissed' \/ faults >= Max(REMINDER_WINDOWS_DAYS) + 2
    BY <1>1, <1>4 DEF MissesAreFaults
  <2>1. CASE renewal_due_at <= now
    BY <1>5, <2>1 DEF JobInv, MissesAreFaults
  <2>2. CASE renewal_due_at = now + 1 BY <1>5, <2>2
  <2> QED BY <1>5, <2>1, <2>2
<1> QED BY <1>2, <1>3, <1>6 DEF JobInv

\* No step of a request or of Stripe touches the job; one of them renews.
LEMMA JobStep == JobInv /\ [Next]_vars => JobInv'
<1> SUFFICES ASSUME JobInv, [Next]_vars PROVE JobInv' OBVIOUS
<1>1. faults \in Nat /\ MaxFaults \in Nat BY RenewalAssumption DEF JobInv, ClockOK
<1>2. ASSUME UNCHANGED <<jobVars, renewal_due_at, last_renewed_at, faults>> PROVE JobInv'
  <2>1. faults' \in Nat /\ faults' >= faults BY <1>1, <1>2
  <2> QED BY <1>2, <2>1, JobUntouched
<1>3. CASE \E p \in Proc : Request(p)
  <2> PICK p \in Proc : Request(p) BY <1>3
  <2>1. CASE create_renewal_checkout(p)
    BY <1>2, <2>1 DEF create_renewal_checkout, caseVars
  <2>2. CASE Continue(p)
    <3>1. CASE SessionRefused(p) BY <1>2, <3>1 DEF SessionRefused, caseVars
    <3>2. CASE CheckoutCommit(p) BY <1>2, <3>2 DEF CheckoutCommit
    <3>3. CASE StatusCommit(p) BY <1>2, <3>3 DEF StatusCommit
    <3>4. CASE ReconcileCommit(p)
      <4>1. UNCHANGED <<jobVars, faults>> BY <3>4 DEF ReconcileCommit
      <4>2. mark_case_renewed \/ UNCHANGED <<renewal_due_at, last_renewed_at>>
        BY <3>4 DEF ReconcileCommit, caseVars
      <4> QED BY <1>2, <4>1, <4>2, JobRenewal
    <3> QED BY <2>2, <3>1, <3>2, <3>3, <3>4 DEF Continue
  <2>3. CASE RequestDies(p)
    <3>1. /\ UNCHANGED <<jobVars, renewal_due_at, last_renewed_at>> /\ faults' = faults + 1
      BY <2>3 DEF RequestDies, caseVars
    <3>2. faults' \in Nat /\ faults' >= faults BY <1>1, <3>1
    <3> QED BY <3>1, <3>2, JobUntouched
  <2>4. CASE \E s \in Session : OpenSession(p, s) \/ reconcile_session(p, s)
    BY <1>2, <2>4 DEF OpenSession, reconcile_session, caseVars
  <2>5. CASE \E s \in Session, from \in {"expired", "failed", "refunded"} : StatusEvent(p, s, from)
    <3>1. UNCHANGED <<jobVars, caseVars, faults>> BY <2>5 DEF StatusEvent
    <3> QED BY <1>2, <3>1 DEF caseVars
  <2> QED BY <2>1, <2>2, <2>3, <2>4, <2>5 DEF Request
<1>4. CASE Stripe
  <2>1. UNCHANGED <<jobVars, caseVars, faults>>
    BY <1>4 DEF Stripe, CustomerPays, CardDeclined, SessionExpires, DashboardRefund,
                _handle_renewal_session_completed, IdempotencyKeyPruned
  <2> QED BY <1>2, <2>1 DEF caseVars
<1>5. CASE Job BY <1>5, JobScan, JobCommit DEF Job
<1>6. CASE JobDies BY <1>6, JobFault
<1>7. CASE Night BY <1>7, JobNight
<1>8. CASE UNCHANGED vars BY <1>2, <1>8 DEF vars, caseVars
<1> QED BY <1>3, <1>4, <1>5, <1>6, <1>7, <1>8 DEF Next

LEMMA JobInvReminds == JobInv => OverdueIsReminded
<1> SUFFICES ASSUME JobInv, last_renewed_at < renewal_due_at,
                    faults <= Max(REMINDER_WINDOWS_DAYS) + 1,
                    now >= renewal_due_at + faults + 1, LastReminder \notin reminders
             PROVE  FALSE
  BY DEF OverdueIsReminded, LastReminder
<1>1. now \in Nat /\ renewal_due_at \in Nat /\ faults \in Nat BY DEF JobInv, ClockOK
<1>2. NightsMissed >= now - renewal_due_at BY <1>1 DEF NightsMissed
<1>3. NightsMissed \in Int BY <1>1 DEF NightsMissed
<1>4. faults >= NightsMissed \/ faults >= Max(REMINDER_WINDOWS_DAYS) + 2
  BY <1>1 DEF JobInv, MissesAreFaults
<1> QED BY <1>1, <1>2, <1>3, <1>4, WindowFacts

\* However many requests and events interleave with the job, whatever the
\* windows and the term are: an owner whose date has passed has been told so,
\* but for the nights on which scan_and_dispatch_due_reminders died.
THEOREM OwnerIsTold == Spec => []OverdueIsReminded
<1>1. Init => JobInv BY JobInitial
<1>2. JobInv /\ [Next]_vars => JobInv' BY JobStep
<1>3. JobInv => OverdueIsReminded BY JobInvReminds
<1> QED BY <1>1, <1>2, <1>3, PTL DEF Spec

-----------------------------------------------------------------------------
(* One request at a time: the type and the invariant of the books.         *)

JobType ==
  /\ now \in Nat /\ pulsed \in BOOLEAN /\ last_renewed_at \in Nat
  /\ job \in Reminder \cup {None} /\ reminders \subseteq Reminder
  /\ mails \in [Reminder -> Nat] /\ faults \in 0 .. MaxFaults

CaseType ==
  /\ renewal_due_at \in {Term * (k + 1) : k \in 0 .. MaxCycle + 1}
  /\ intent \in [Cycle -> Intent \cup {None}]

StripeType ==
  /\ sess \in [Session -> Sess \cup {None}]
  /\ idem \in [Cycle -> Session \cup {None}]
  /\ shown \subseteq Session /\ declined \subseteq Session /\ refunded \subseteq Session
  /\ answer \in [Session -> {"none", "failed", "ok"}]

RequestType ==
  /\ pc \in [Proc -> {"idle", "checkout", "opened", "expired", "failed", "refunded", "reconcile"}]
  /\ at \in [Proc -> [sess : Session \cup {None}, cycle : Cycle]]
  /\ seen \in [Proc -> Intent \cup {None}]

\* An intent is marked as renewed exactly when the date is beyond its cycle; it
\* waits only before, and is confirmed only after.
IntentsOK ==
  \A k \in Cycle :
    IF intent[k] = None THEN k >= Renewals
    ELSE /\ intent[k].committed <=> k < Renewals
         /\ intent[k].status = "awaiting" => k >= Renewals
         /\ intent[k].status = "confirmed" => k < Renewals

\* Stripe knows no session of a cycle to come, and keys and pages name sessions
\* of their cycle.
SessionsOK ==
  /\ \A s \in Session : sess[s] # None => sess[s].cycle <= Renewals
  /\ \A k \in Cycle : idem[k] # None => sess[idem[k]] # None /\ sess[idem[k]].cycle = k
  /\ \A s \in shown : sess[s] # None /\ intent[sess[s].cycle] # None

\* Nobody else writes between what a request reads and what it writes.
RequestOK(p) ==
  LET k == at[p].cycle
      s == at[p].sess
  IN /\ pc[p] \in {"checkout", "opened"} => k = Renewals
     /\ pc[p] = "opened" => s \in Session /\ sess[s] # None /\ sess[s].cycle = k
     /\ pc[p] \in {"opened", "expired", "failed", "refunded"} => seen[p] = intent[k]
     /\ pc[p] \in {"expired", "failed", "refunded"} => intent[k] # None
     /\ pc[p] \in {"expired", "failed"} => seen[p].status = "awaiting"
     /\ pc[p] = "reconcile" => s \in shown /\ sess[s].cycle = k

\* Each cycle the date is beyond has a session that was paid.
PaidFor == \A k \in Cycle : k < Renewals => \E s \in Paid : sess[s].cycle = k

BookInv ==
  /\ CaseType /\ StripeType /\ RequestType
  /\ IntentsOK /\ SessionsOK /\ PaidFor /\ IsFiniteSet(Paid)
  /\ \A p \in Proc : RequestOK(p)

LEMMA TypeSplits == TypeOK <=> JobType /\ CaseType /\ StripeType /\ RequestType
BY DEF TypeOK, JobType, CaseType, StripeType, RequestType

LEMMA NoneFacts ==
  /\ None \notin Session /\ None \notin Intent /\ None \notin Sess /\ None \notin Reminder
BY NoneAssumption

\* renewal_due_at is a whole number of terms, and Renewals counts them.
LEMMA DividedByTerm ==
  ASSUME NEW k \in Nat
  PROVE  (Term * (k + 1)) \div Term - 1 = k
<1>1. Term \in Nat \ {0} BY RenewalAssumption
<1>2. (Term * (k + 1)) \div Term = k + 1 BY <1>1
<1> QED BY <1>2

LEMMA RenewalsCount ==
  ASSUME CaseType
  PROVE  Renewals \in 0 .. MaxCycle + 1 /\ renewal_due_at = Term * (Renewals + 1)
<1>1. PICK k \in 0 .. MaxCycle + 1 : renewal_due_at = Term * (k + 1) BY DEF CaseType
<1>2. k \in Nat BY RenewalAssumption
<1>3. Renewals = k BY <1>1, <1>2, DividedByTerm DEF Renewals
<1> QED BY <1>1, <1>3

LEMMA RenewalAdvances ==
  ASSUME CaseType, renewal_due_at' = renewal_due_at + Term, Renewals \in Cycle
  PROVE  /\ Renewals' = Renewals + 1
         /\ renewal_due_at' \in {Term * (k + 1) : k \in 0 .. MaxCycle + 1}
<1> PICK r : r = Renewals OBVIOUS
<1>1. r \in Nat /\ Term \in Nat \ {0} /\ MaxCycle \in Nat /\ r <= MaxCycle
  BY RenewalAssumption DEF Cycle
<1>2. renewal_due_at' = Term * (r + 1) + Term BY RenewalsCount
<1>3. renewal_due_at' = Term * ((r + 1) + 1) BY <1>1, <1>2
<1>4. r + 1 \in 0 .. MaxCycle + 1 /\ r + 1 \in Nat BY <1>1
<1>5. (Term * ((r + 1) + 1)) \div Term - 1 = r + 1 BY <1>4, DividedByTerm
<1>6. Renewals' = r + 1 BY <1>3, <1>5 DEF Renewals
<1> QED BY <1>3, <1>4, <1>6

LEMMA BookInitial == Init => TypeOK /\ BookInv
<1> SUFFICES ASSUME Init PROVE TypeOK /\ BookInv OBVIOUS
<1>1. /\ Term \in Nat \ {0} /\ MaxCycle \in Nat /\ MaxNow \in Nat /\ MaxFaults \in Nat
  BY RenewalAssumption
<1>2. renewal_due_at = Term * (0 + 1) /\ 0 \in 0 .. MaxCycle + 1 BY <1>1 DEF Init
<1>3. CaseType BY <1>2 DEF Init, CaseType
<1>4. Renewals = 0 BY <1>2, DividedByTerm DEF Renewals
<1>5. StripeType BY DEF Init, StripeType
<1>6. 0 \in Cycle BY <1>1 DEF Cycle
<1>7. RequestType BY <1>6 DEF Init, RequestType, Nowhere
<1>8. IntentsOK
  <2>1. \A k \in Cycle : intent[k] = None /\ k >= 0 BY <1>1 DEF Init, Cycle
  <2> QED BY <1>4, <2>1 DEF IntentsOK
<1>9. SessionsOK BY DEF Init, SessionsOK
<1>10. Paid = {} BY DEF Init, Paid
<1>11. IsFiniteSet(Paid) BY <1>10, FS_EmptySet
<1>12. PaidFor
  <2>1. \A k \in Cycle : ~(k < 0) BY <1>1 DEF Cycle
  <2> QED BY <1>4, <2>1 DEF PaidFor
<1>13. \A p \in Proc : RequestOK(p) BY DEF Init, RequestOK
<1>14. BookInv BY <1>3, <1>5, <1>7, <1>8, <1>9, <1>11, <1>12, <1>13 DEF BookInv
<1>15. JobType
  <2>1. now \in Nat
    <3>1. PICK m : m = Max(REMINDER_WINDOWS_DAYS) OBVIOUS
    <3>2. m \in Nat /\ m <= Term BY <3>1, WindowFacts
    <3>3. now = Term - m BY <3>1 DEF Init
    <3> QED BY <1>1, <3>2, <3>3
  <2>2. pulsed \in BOOLEAN BY Zenon DEF Init
  <2>3. job \in Reminder \cup {None} /\ reminders \subseteq Reminder /\ mails \in [Reminder -> Nat]
    BY DEF Init
  <2>4. last_renewed_at \in Nat /\ faults \in 0 .. MaxFaults BY <1>1 DEF Init
  <2> QED BY <2>1, <2>2, <2>3, <2>4 DEF JobType
<1> QED BY <1>3, <1>5, <1>7, <1>14, <1>15, TypeSplits

-----------------------------------------------------------------------------
(* Steps that leave the case and its intents alone.                        *)

\* The books depend on the date and the intents only; sessions may be paid or
\* closed under them.
LEMMA BooksFollow ==
  ASSUME BookInv, UNCHANGED <<renewal_due_at, intent, idem, shown, procVars>>, StripeType',
         \A s \in Session : sess[s] # None => sess'[s] # None /\ sess'[s].cycle = sess[s].cycle,
         \A s \in Session : sess[s] = None => sess'[s] = None,
         Paid \subseteq Paid', IsFiniteSet(Paid')
  PROVE  BookInv'
<1>1. CaseType' /\ RequestType' BY DEF BookInv, CaseType, RequestType, procVars
<1>2. Renewals' = Renewals BY DEF Renewals
<1>3. IntentsOK' BY <1>2 DEF BookInv, IntentsOK
<1>4. SessionsOK'
  <2>1. \A s \in Session : sess'[s] # None => sess'[s].cycle <= Renewals'
    BY <1>2 DEF BookInv, SessionsOK
  <2>2. \A k \in Cycle : idem'[k] # None => sess'[idem'[k]] # None /\ sess'[idem'[k]].cycle = k
    <3> TAKE k \in Cycle
    <3>1. idem' = idem /\ idem[k] \in Session \cup {None} BY DEF BookInv, StripeType
    <3> QED BY <3>1 DEF BookInv, SessionsOK
  <2>3. \A s \in shown' : sess'[s] # None /\ intent'[sess'[s].cycle] # None
    <3>1. shown' = shown /\ intent' = intent /\ shown \subseteq Session BY DEF BookInv, StripeType
    <3> QED BY <3>1 DEF BookInv, SessionsOK
  <2> QED BY <2>1, <2>2, <2>3 DEF SessionsOK
<1>5. PaidFor'
  <2> SUFFICES ASSUME NEW k \in Cycle, k < Renewals PROVE \E s \in Paid' : sess'[s].cycle = k
    BY <1>2 DEF PaidFor
  <2>1. PICK s \in Paid : sess[s].cycle = k BY DEF BookInv, PaidFor
  <2>2. s \in Session /\ sess[s] # None BY DEF Paid
  <2> QED BY <2>1, <2>2
<1>6. \A q \in Proc : RequestOK(q)'
  <2> TAKE q \in Proc
  <2>1. RequestOK(q) /\ shown \subseteq Session BY DEF BookInv, StripeType
  <2>2. UNCHANGED <<intent, shown, pc, at, seen>> BY DEF procVars
  <2> QED BY <1>2, <2>1, <2>2 DEF RequestOK
<1> QED BY <1>1, <1>3, <1>4, <1>5, <1>6 DEF BookInv

\* A session is paid, or closes.
LEMMA SessionCloses ==
  ASSUME BookInv, UNCHANGED <<renewal_due_at, intent, idem, shown, declined, refunded, answer,
                              procVars>>,
         NEW s \in Session, sess[s] # None, sess[s].status = "open",
         NEW st \in {"paid", "expired"}, sess' = [sess EXCEPT ![s].status = st]
  PROVE  BookInv'
<1> DEFINE entry == [sess[s] EXCEPT !.status = st]
<1>1. sess \in [Session -> Sess \cup {None}] /\ sess[s] \in Sess BY DEF BookInv, StripeType
<1>2. entry \in Sess /\ entry.cycle = sess[s].cycle /\ entry.status = st BY <1>1 DEF Sess
<1>3. sess' = [sess EXCEPT ![s] = entry] BY <1>1
<1> HIDE DEF entry
<1>4. entry # None BY <1>2, NoneFacts
<1>5. StripeType' BY <1>1, <1>2, <1>3 DEF BookInv, StripeType
<1>6. \A t \in Session : sess'[t] = IF t = s THEN entry ELSE sess[t] BY <1>1, <1>3
<1>7. Paid \subseteq Paid' /\ Paid' \subseteq Paid \cup {s} BY <1>6 DEF Paid
<1>8. IsFiniteSet(Paid')
  <2>1. IsFiniteSet(Paid \cup {s}) BY FS_AddElement DEF BookInv
  <2> QED BY <1>7, <2>1, FS_Subset
<1>9. \A t \in Session : /\ sess[t] # None => sess'[t] # None /\ sess'[t].cycle = sess[t].cycle
                         /\ sess[t] = None => sess'[t] = None
  BY <1>2, <1>4, <1>6
<1> QED BY <1>5, <1>7, <1>8, <1>9, BooksFollow

LEMMA StripeStep ==
  ASSUME BookInv, Stripe
  PROVE  BookInv' /\ UNCHANGED <<jobVars, last_renewed_at, faults>>
<1>1. ASSUME UNCHANGED <<renewal_due_at, intent, idem, shown, procVars, sess>>, StripeType'
      PROVE  BookInv'
  <2>1. Paid' = Paid BY <1>1 DEF Paid
  <2> QED BY <1>1, <2>1, BooksFollow DEF BookInv
<1>2. ASSUME NEW s \in Session, CustomerPays(s) PROVE BookInv'
  <2>1. s \in shown /\ sess[s] # None BY <1>2 DEF CustomerPays, BookInv, SessionsOK
  <2> QED BY <1>2, <2>1, SessionCloses DEF CustomerPays, caseVars
<1>3. ASSUME NEW s \in Session, SessionExpires(s) PROVE BookInv'
  BY <1>3, SessionCloses DEF SessionExpires, caseVars
<1>4. ASSUME NEW s \in Session, CardDeclined(s) PROVE BookInv'
  BY <1>1, <1>4 DEF CardDeclined, caseVars, BookInv, StripeType
<1>5. ASSUME NEW s \in Session, DashboardRefund(s) PROVE BookInv'
  BY <1>1, <1>5 DEF DashboardRefund, caseVars, BookInv, StripeType
<1>6. ASSUME NEW s \in Session, _handle_renewal_session_completed(s) PROVE BookInv'
  <2>1. PICK a \in {"failed", "ok"} : answer' = [answer EXCEPT ![s] = a]
    BY <1>6 DEF _handle_renewal_session_completed
  <2>2. UNCHANGED <<renewal_due_at, intent, sess, idem, shown, declined, refunded, procVars>>
    BY <1>6 DEF _handle_renewal_session_completed, caseVars
  <2>3. StripeType' BY <2>1, <2>2 DEF BookInv, StripeType
  <2> QED BY <1>1, <2>2, <2>3
<1>7. ASSUME NEW k \in Cycle, IdempotencyKeyPruned(k) PROVE BookInv'
  <2>1. /\ idem' = [idem EXCEPT ![k] = None]
        /\ UNCHANGED <<renewal_due_at, intent, sess, shown, declined, refunded, answer, procVars>>
    BY <1>7 DEF IdempotencyKeyPruned, caseVars
  <2>2. StripeType' BY <2>1 DEF BookInv, StripeType
  <2>3. CaseType' /\ RequestType' BY <2>1 DEF BookInv, CaseType, RequestType, procVars
  <2>4. Renewals' = Renewals BY <2>1 DEF Renewals
  <2>5. IntentsOK' BY <2>1, <2>4 DEF BookInv, IntentsOK
  <2>6. \A j \in Cycle : idem'[j] = IF j = k THEN None ELSE idem[j]
    BY <2>1 DEF BookInv, StripeType
  <2>7. SessionsOK' BY <2>1, <2>4, <2>6 DEF BookInv, SessionsOK
  <2>8. Paid' = Paid BY <2>1 DEF Paid
  <2>9. PaidFor' /\ IsFiniteSet(Paid') BY <2>1, <2>4, <2>8 DEF BookInv, PaidFor
  <2>10. \A q \in Proc : RequestOK(q)' BY <2>1, <2>4 DEF BookInv, RequestOK, procVars
  <2> QED BY <2>2, <2>3, <2>5, <2>7, <2>9, <2>10 DEF BookInv
<1>8. UNCHANGED <<jobVars, last_renewed_at, faults>>
  BY DEF Stripe, CustomerPays, CardDeclined, SessionExpires, DashboardRefund,
         _handle_renewal_session_completed, IdempotencyKeyPruned, caseVars
<1> QED BY <1>2, <1>3, <1>4, <1>5, <1>6, <1>7, <1>8 DEF Stripe

\* A request moves on and writes nothing yet.
LEMMA RequestMoves ==
  ASSUME BookInv, NEW p, Proc = {p}, UNCHANGED <<renewal_due_at, intent, stripeVars>>,
         RequestType', RequestOK(p)'
  PROVE  BookInv'
<1>1. CaseType' /\ StripeType' BY DEF BookInv, CaseType, StripeType, stripeVars
<1>2. Renewals' = Renewals BY DEF Renewals
<1>3. IntentsOK' BY <1>2 DEF BookInv, IntentsOK
<1>4. SessionsOK' BY <1>2 DEF BookInv, SessionsOK, stripeVars
<1>5. Paid' = Paid BY DEF Paid, stripeVars
<1>6. PaidFor' /\ IsFiniteSet(Paid') BY <1>2, <1>5 DEF BookInv, PaidFor, stripeVars
<1> QED BY <1>1, <1>3, <1>4, <1>6 DEF BookInv

LEMMA RequestFinishes ==
  ASSUME RequestType, NEW p, Proc = {p}, Finish(p)
  PROVE  RequestType' /\ RequestOK(p)'
<1>1. 0 \in Cycle BY RenewalAssumption DEF Cycle
<1>2. RequestType' BY <1>1 DEF RequestType, Finish, Nowhere
<1>3. pc'[p] = "idle" BY DEF Finish, RequestType
<1>4. RequestOK(p)' BY <1>3 DEF RequestOK
<1> QED BY <1>2, <1>4

-----------------------------------------------------------------------------
(* The steps of a request.                                                 *)

LEMMA RequestBegins ==
  ASSUME BookInv, NEW p, Proc = {p},
         \/ create_renewal_checkout(p)
         \/ \E s \in Session : reconcile_session(p, s)
         \/ \E s \in Session, from \in {"expired", "failed", "refunded"} : StatusEvent(p, s, from)
  PROVE  BookInv' /\ UNCHANGED <<jobVars, last_renewed_at, faults>>
<1>1. RequestType /\ CaseType /\ Renewals \in Nat
  BY RenewalsCount, RenewalAssumption DEF BookInv
<1>2. CASE create_renewal_checkout(p)
  <2>1. UNCHANGED <<renewal_due_at, last_renewed_at, intent, stripeVars, jobVars, faults>>
    BY <1>2 DEF create_renewal_checkout, caseVars
  <2>2. Renewals \in Cycle /\ Renewals' = Renewals
    BY <1>1, <1>2, <2>1 DEF create_renewal_checkout, _current_renewal_cycle, Cycle, Renewals
  <2>3. pc' = [pc EXCEPT ![p] = "checkout"] /\ at' = [at EXCEPT ![p].cycle = Renewals] /\ seen' = seen
    BY <1>2 DEF create_renewal_checkout, _current_renewal_cycle
  <2>4. RequestType' BY <1>1, <2>2, <2>3 DEF RequestType
  <2>5. pc'[p] = "checkout" /\ at'[p].cycle = Renewals' BY <1>1, <2>2, <2>3 DEF RequestType
  <2>6. RequestOK(p)' BY <2>5 DEF RequestOK
  <2> QED BY <2>1, <2>4, <2>6, RequestMoves
<1>3. ASSUME NEW s \in Session, reconcile_session(p, s)
      PROVE  BookInv' /\ UNCHANGED <<jobVars, last_renewed_at, faults>>
  <2>1. UNCHANGED <<renewal_due_at, last_renewed_at, intent, stripeVars, jobVars, faults>>
    BY <1>3 DEF reconcile_session, caseVars
  <2>2. s \in shown /\ sess[s] # None BY <1>3 DEF reconcile_session, BookInv, SessionsOK
  <2>3. sess[s].cycle \in Cycle BY <2>2 DEF BookInv, StripeType, Sess
  <2>4. /\ pc' = [pc EXCEPT ![p] = "reconcile"] /\ seen' = seen
        /\ at' = [at EXCEPT ![p] = [sess |-> s, cycle |-> sess[s].cycle]]
    BY <1>3 DEF reconcile_session
  <2>5. RequestType' BY <1>1, <2>3, <2>4 DEF RequestType
  <2>6. pc'[p] = "reconcile" /\ at'[p].sess = s /\ at'[p].cycle = sess[s].cycle
    BY <1>1, <2>4 DEF RequestType
  <2>7. RequestOK(p)' BY <2>1, <2>2, <2>6 DEF RequestOK, stripeVars
  <2> QED BY <2>1, <2>5, <2>7, RequestMoves
<1>4. ASSUME NEW s \in Session, NEW from \in {"expired", "failed", "refunded"},
             StatusEvent(p, s, from)
      PROVE  BookInv' /\ UNCHANGED <<jobVars, last_renewed_at, faults>>
  <2>1. UNCHANGED <<renewal_due_at, last_renewed_at, intent, stripeVars, jobVars, faults>>
    BY <1>4 DEF StatusEvent, caseVars
  <2> PICK k : k = sess[s].cycle OBVIOUS
  <2>2. /\ sess[s] # None /\ intent[k] # None
        /\ from \in {"expired", "failed"} => intent[k].status = "awaiting"
        /\ pc' = [pc EXCEPT ![p] = from] /\ seen' = [seen EXCEPT ![p] = intent[k]]
        /\ at' = [at EXCEPT ![p] = [sess |-> s, cycle |-> k]]
    BY <1>4 DEF StatusEvent
  <2>3. k \in Cycle BY <2>2 DEF BookInv, StripeType, Sess
  <2>4. intent[k] \in Intent BY <1>1, <2>2, <2>3 DEF CaseType
  <2>5. RequestType' BY <1>1, <2>2, <2>3, <2>4 DEF RequestType
  <2>6. pc'[p] = from /\ at'[p].cycle = k /\ seen'[p] = intent[k]
    BY <1>1, <2>2 DEF RequestType
  <2>7. RequestOK(p)' BY <2>1, <2>2, <2>6 DEF RequestOK
  <2> QED BY <2>1, <2>5, <2>7, RequestMoves
<1> QED BY <1>2, <1>3, <1>4

\* Opening a session for the current cycle, or having it replayed.
LEMMA SessionOpens ==
  ASSUME BookInv, NEW p, Proc = {p}, NEW s \in Session, OpenSession(p, s)
  PROVE  BookInv' /\ UNCHANGED <<jobVars, last_renewed_at, faults>>
<1> PICK k : k = at[p].cycle OBVIOUS
<1>1. /\ pc[p] = "checkout"
      /\ pc' = [pc EXCEPT ![p] = "opened"] /\ at' = [at EXCEPT ![p].sess = s]
      /\ seen' = [seen EXCEPT ![p] = intent[k]]
      /\ UNCHANGED <<renewal_due_at, last_renewed_at, intent, shown, declined, refunded, answer,
                     jobVars, faults>>
  BY DEF OpenSession, caseVars
<1>2. k = Renewals /\ RequestOK(p) BY <1>1 DEF BookInv, RequestOK
<1>3. k \in Cycle BY DEF BookInv, RequestType
<1>4. intent[k] \in Intent \cup {None} BY <1>3 DEF BookInv, CaseType
<1>5. RequestType' BY <1>1, <1>4 DEF BookInv, RequestType
<1>6. Renewals' = Renewals BY <1>1 DEF Renewals
<1>7. pc'[p] = "opened" /\ at'[p].sess = s /\ at'[p].cycle = k /\ seen'[p] = intent'[k]
  BY <1>1 DEF BookInv, RequestType
<1>8. CASE intent[k] # None /\ idem[k] = s /\ UNCHANGED <<sess, idem>>
  <2>1. sess[s] # None /\ sess[s].cycle = k BY <1>3, <1>8, NoneFacts DEF BookInv, SessionsOK
  <2>2. RequestOK(p)' BY <1>2, <1>6, <1>7, <1>8, <2>1 DEF RequestOK
  <2> QED BY <1>1, <1>5, <1>8, <2>2, RequestMoves DEF stripeVars
<1>9. CASE /\ idem[k] = None /\ Unopened # {} /\ s = New(Unopened)
           /\ sess' = [sess EXCEPT ![s] = [status |-> "open", cycle |-> k]]
           /\ idem' = [idem EXCEPT ![k] = s]
  <2> PICK entry : entry = [status |-> "open", cycle |-> k] OBVIOUS
  <2>1. entry \in Sess /\ entry # None /\ entry.cycle = k /\ entry.status = "open"
    <3>1. entry \in Sess BY <1>3 DEF Sess
    <3> QED BY <3>1, NoneFacts
  <2>2. sess[s] = None BY <1>9 DEF New, Unopened
  <2>3. sess' = [sess EXCEPT ![s] = entry] BY <1>9
  <2>4. StripeType' BY <1>1, <1>3, <1>9, <2>1, <2>3 DEF BookInv, StripeType
  <2>5. \A t \in Session : sess'[t] = IF t = s THEN entry ELSE sess[t]
    BY <2>3 DEF BookInv, StripeType
  <2>6. \A j \in Cycle : idem'[j] = IF j = k THEN s ELSE idem[j]
    BY <1>9 DEF BookInv, StripeType
  <2>7. CaseType' BY <1>1 DEF BookInv, CaseType
  <2>8. IntentsOK' BY <1>1, <1>6 DEF BookInv, IntentsOK
  <2>9. k <= Renewals BY <1>2, <1>3 DEF Cycle
  <2>10. SessionsOK'
    <3>1. \A t \in Session : sess'[t] # None => sess'[t].cycle <= Renewals'
      BY <1>6, <2>1, <2>5, <2>9 DEF BookInv, SessionsOK
    <3>2. \A j \in Cycle : idem'[j] # None => sess'[idem'[j]] # None /\ sess'[idem'[j]].cycle = j
      <4> TAKE j \in Cycle
      <4>1. CASE j = k BY <2>1, <2>5, <2>6, <4>1
      <4>2. CASE j # k /\ idem[j] # None
        <5>1. idem[j] \in Session /\ sess[idem[j]] # None /\ sess[idem[j]].cycle = j
          BY <4>2 DEF BookInv, SessionsOK, StripeType
        <5> QED BY <2>2, <2>5, <2>6, <4>2, <5>1
      <4>3. CASE j # k /\ idem[j] = None BY <2>6, <4>3
      <4> QED BY <4>1, <4>2, <4>3
    <3>3. \A t \in shown' : sess'[t] # None /\ intent'[sess'[t].cycle] # None
      <4>1. shown' = shown /\ intent' = intent /\ shown \subseteq Session
        BY <1>1 DEF BookInv, StripeType
      <4> QED BY <2>2, <2>5, <4>1 DEF BookInv, SessionsOK
    <3> QED BY <3>1, <3>2, <3>3 DEF SessionsOK
  <2>11. Paid' = Paid BY <2>1, <2>2, <2>5 DEF Paid
  <2>12. PaidFor'
    <3> SUFFICES ASSUME NEW j \in Cycle, j < Renewals PROVE \E t \in Paid' : sess'[t].cycle = j
      BY <1>6 DEF PaidFor
    <3>1. PICK t \in Paid : sess[t].cycle = j BY DEF BookInv, PaidFor
    <3>2. t \in Session /\ t # s BY <2>2 DEF Paid
    <3> QED BY <2>5, <2>11, <3>1, <3>2
  <2>13. RequestOK(p)'
    <3>1. sess'[s] # None /\ sess'[s].cycle = k BY <2>1, <2>5
    <3> QED BY <1>2, <1>6, <1>7, <3>1 DEF RequestOK
  <2>14. IsFiniteSet(Paid') BY <2>11 DEF BookInv
  <2> QED BY <1>1, <1>5, <2>4, <2>7, <2>8, <2>10, <2>12, <2>13, <2>14 DEF BookInv
<1> QED BY <1>1, <1>8, <1>9 DEF OpenSession

\* A request writes the intent of a cycle and ends; the date advances, if at
\* all, from that cycle, for which a session was paid.
LEMMA IntentWritten ==
  ASSUME BookInv, NEW p, Proc = {p}, Finish(p), NEW k \in Cycle, NEW entry \in Intent,
         intent' = [intent EXCEPT ![k] = entry],
         renewal_due_at' \in {Term * (j + 1) : j \in 0 .. MaxCycle + 1},
         \/ Renewals' = Renewals
         \/ Renewals' = Renewals + 1 /\ k = Renewals /\ \E s \in Paid : sess[s].cycle = k,
         entry.committed <=> k < Renewals',
         entry.status = "awaiting" => k >= Renewals',
         entry.status = "confirmed" => k < Renewals',
         UNCHANGED <<sess, idem, declined, refunded, answer>>,
         \A s \in shown' : s \in shown \/ (s \in Session /\ sess[s] # None /\ sess[s].cycle = k)
  PROVE  BookInv'
<1>1. CaseType /\ StripeType /\ RequestType BY DEF BookInv
<1>2. CaseType' BY <1>1 DEF CaseType
<1>3. StripeType' BY <1>1 DEF StripeType
<1>4. RequestType' /\ RequestOK(p)' BY <1>1, RequestFinishes
<1>5. Renewals \in Nat /\ Renewals' \in Nat /\ Renewals <= Renewals'
  BY <1>1, RenewalsCount, RenewalAssumption
<1>6. \A j \in Cycle : intent'[j] = IF j = k THEN entry ELSE intent[j] BY <1>1 DEF CaseType
<1>7. entry # None BY NoneFacts
<1>8. IntentsOK'
  <2> SUFFICES ASSUME NEW j \in Cycle
               PROVE  IF intent'[j] = None THEN j >= Renewals'
                      ELSE /\ intent'[j].committed <=> j < Renewals'
                           /\ intent'[j].status = "awaiting" => j >= Renewals'
                           /\ intent'[j].status = "confirmed" => j < Renewals'
    BY DEF IntentsOK
  <2>1. CASE j = k BY <1>6, <1>7, <2>1
  <2>2. CASE j # k
    <3>1. (j < Renewals' <=> j < Renewals) /\ (j >= Renewals' <=> j >= Renewals)
      <4>1. j \in Nat /\ k \in Nat BY DEF Cycle
      <4>2. j # Renewals \/ Renewals' = Renewals BY <2>2
      <4> QED BY <1>5, <4>1, <4>2
    <3>2. IF intent[j] = None THEN j >= Renewals
          ELSE /\ intent[j].committed <=> j < Renewals
               /\ intent[j].status = "awaiting" => j >= Renewals
               /\ intent[j].status = "confirmed" => j < Renewals
      BY DEF BookInv, IntentsOK
    <3>3. intent'[j] = intent[j] BY <1>6, <2>2
    <3> QED BY <3>1, <3>2, <3>3
  <2> QED BY <2>1, <2>2
<1>9. SessionsOK'
  <2>1. \A s \in Session : sess'[s] # None => sess'[s].cycle <= Renewals'
    <3> TAKE s \in Session
    <3> HAVE sess'[s] # None
    <3>1. sess[s] \in Sess /\ sess[s].cycle <= Renewals BY <1>1 DEF StripeType, BookInv, SessionsOK
    <3>2. sess[s].cycle \in Nat BY <3>1 DEF Sess, Cycle
    <3> QED BY <1>5, <3>1, <3>2
  <2>2. \A j \in Cycle : idem'[j] # None => sess'[idem'[j]] # None /\ sess'[idem'[j]].cycle = j
    BY DEF BookInv, SessionsOK
  <2>3. \A s \in shown' : sess'[s] # None /\ intent'[sess'[s].cycle] # None
    <3> TAKE s \in shown'
    <3>1. s \in Session /\ sess[s] # None BY <1>1 DEF StripeType, BookInv, SessionsOK
    <3>2. sess[s].cycle \in Cycle BY <1>1, <3>1 DEF StripeType, Sess
    <3>3. sess[s].cycle = k \/ intent[sess[s].cycle] # None BY DEF BookInv, SessionsOK
    <3> QED BY <1>6, <1>7, <3>1, <3>2, <3>3
  <2> QED BY <2>1, <2>2, <2>3 DEF SessionsOK
<1>10. Paid' = Paid BY DEF Paid
<1>11. PaidFor'
  <2> SUFFICES ASSUME NEW j \in Cycle, j < Renewals' PROVE \E s \in Paid : sess[s].cycle = j
    BY <1>10 DEF PaidFor
  <2>1. j \in Nat BY DEF Cycle
  <2>2. j < Renewals \/ (j = k /\ \E s \in Paid : sess[s].cycle = k) BY <1>5, <2>1
  <2> QED BY <2>2 DEF BookInv, PaidFor
<1>12. IsFiniteSet(Paid') BY <1>10 DEF BookInv
<1> QED BY <1>2, <1>3, <1>4, <1>8, <1>9, <1>11, <1>12 DEF BookInv

\* What create_renewal_checkout writes: the intent waits again.
LEMMA CheckoutWrites ==
  ASSUME BookInv, NEW p, Proc = {p}, CheckoutCommit(p)
  PROVE  BookInv' /\ UNCHANGED <<jobVars, last_renewed_at, faults>>
<1> PICK k : k = at[p].cycle OBVIOUS
<1> PICK s : s = at[p].sess OBVIOUS
<1> PICK old : old = seen[p] OBVIOUS
<1>1. /\ pc[p] = "opened" /\ Finish(p) /\ shown' = shown \cup {s}
      /\ UNCHANGED <<renewal_due_at, last_renewed_at, sess, idem, declined, refunded, answer,
                     jobVars, faults>>
  BY DEF CheckoutCommit
<1>2. RequestOK(p) BY DEF BookInv
<1>3. k = Renewals /\ s \in Session /\ sess[s] # None /\ sess[s].cycle = k /\ old = intent[k]
  BY <1>1, <1>2 DEF RequestOK
<1>4. k \in Cycle BY DEF BookInv, RequestType
<1>5. intent \in [Cycle -> Intent \cup {None}] BY DEF BookInv, CaseType
<1>6. PICK entry : /\ entry \in Intent /\ entry.status = "awaiting" /\ entry.committed = FALSE
                 /\ intent' = [intent EXCEPT ![k] = entry]
  <2>1. CASE old = None
    <3> PICK entry : entry = [status |-> "awaiting", gateway |-> s, pi |-> EagerPaymentIntent,
                          stored |-> s, committed |-> FALSE] OBVIOUS
    <3>1. entry \in Intent
      BY <1>3, RenewalAssumption DEF Intent, PaymentIntentStatus
    <3>2. entry.status = "awaiting" /\ entry.committed = FALSE OBVIOUS
    <3>3. intent' = [intent EXCEPT ![k] = entry] BY <1>3, <2>1 DEF CheckoutCommit
    <3> QED BY <3>1, <3>2, <3>3
  <2>2. CASE old # None
    <3>1. old \in Intent BY <1>3, <1>4, <1>5, <2>2
    <3>2. old.committed = FALSE
      <4>1. old.committed \in BOOLEAN BY <3>1 DEF Intent
      <4>2. old.committed <=> k < Renewals BY <1>3, <1>4, <2>2 DEF BookInv, IntentsOK
      <4>3. ~(k < Renewals) BY <1>3, <1>4 DEF Cycle
      <4> QED BY <4>1, <4>2, <4>3
    <3> DEFINE same == old.gateway = s /\ old.pi = EagerPaymentIntent
    <3> PICK entry : entry = [status |-> IF old.status = "awaiting" THEN old.status ELSE "awaiting",
                          gateway |-> IF same THEN old.gateway ELSE s,
                          pi |-> IF same THEN old.pi ELSE EagerPaymentIntent,
                          stored |-> IF old.stored = s THEN old.stored ELSE s,
                          committed |-> IF old.stored = s THEN old.committed ELSE old.committed]
      OBVIOUS
    <3>3. entry.status = "awaiting" /\ entry.committed = FALSE BY <3>2
    <3>4. entry \in Intent
      <4>1. EagerPaymentIntent \in BOOLEAN /\ old.pi \in BOOLEAN BY <3>1, RenewalAssumption DEF Intent
      <4>2. entry.pi \in BOOLEAN /\ entry.gateway \in Session /\ entry.stored \in Session
        BY <1>3, <4>1
      <4>3. entry = [status |-> entry.status, gateway |-> entry.gateway, pi |-> entry.pi,
                   stored |-> entry.stored, committed |-> entry.committed] OBVIOUS
      <4> QED BY <3>3, <4>2, <4>3 DEF Intent, PaymentIntentStatus
    <3>5. intent' = [intent EXCEPT ![k] = entry] BY <1>3, <1>4, <1>5, <2>2 DEF CheckoutCommit
    <3> QED BY <3>3, <3>4, <3>5
  <2> QED BY <2>1, <2>2
<1>7. Renewals' = Renewals BY <1>1 DEF Renewals
<1>8. k >= Renewals' /\ ~(k < Renewals') BY <1>3, <1>4, <1>7 DEF Cycle
<1>9. renewal_due_at' \in {Term * (j + 1) : j \in 0 .. MaxCycle + 1}
  BY <1>1 DEF BookInv, CaseType
<1>10. BookInv' BY <1>1, <1>3, <1>4, <1>6, <1>7, <1>8, <1>9, IntentWritten
<1> QED BY <1>1, <1>10

\* What an expiry, a failure or a refund writes to the intent it loaded.
LEMMA StatusWrites ==
  ASSUME BookInv, NEW p, Proc = {p}, StatusCommit(p)
  PROVE  BookInv' /\ UNCHANGED <<jobVars, last_renewed_at, faults>>
<1> PICK k : k = at[p].cycle OBVIOUS
<1>1. /\ pc[p] \in {"expired", "failed", "refunded"} /\ Finish(p)
      /\ UNCHANGED <<renewal_due_at, last_renewed_at, stripeVars, jobVars, faults>>
  BY DEF StatusCommit
<1>2. RequestOK(p) BY DEF BookInv
<1>3. /\ seen[p] = intent[k] /\ intent[k] # None
      /\ pc[p] \in {"expired", "failed"} => intent[k].status = "awaiting"
  BY <1>1, <1>2 DEF RequestOK
<1>4. k \in Cycle BY DEF BookInv, RequestType
<1>5. intent \in [Cycle -> Intent \cup {None}] BY DEF BookInv, CaseType
<1> PICK old : old = intent[k] OBVIOUS
<1> PICK entry : entry = [old EXCEPT !.status = pc[p]] OBVIOUS
<1>6. old \in Intent BY <1>3, <1>4, <1>5
<1>7. entry \in Intent /\ entry.status = pc[p] /\ entry.committed = old.committed
  BY <1>1, <1>6 DEF Intent, PaymentIntentStatus
<1>8. intent' = [intent EXCEPT ![k] = entry]
  <2>1. intent' = [intent EXCEPT ![k] =
           [intent[k] EXCEPT !.status = IF old.status = pc[p] THEN intent[k].status ELSE pc[p],
                             !.stored = IF pc[p] = "expired" THEN intent[k].stored ELSE old.stored,
                             !.committed = IF pc[p] = "expired" THEN intent[k].committed
                                           ELSE old.committed]]
    BY <1>3 DEF StatusCommit
  <2>2. entry = [old EXCEPT !.status = IF old.status = pc[p] THEN old.status ELSE pc[p],
                          !.stored = IF pc[p] = "expired" THEN old.stored ELSE old.stored,
                          !.committed = IF pc[p] = "expired" THEN old.committed ELSE old.committed]
    BY <1>6 DEF Intent
  <2> QED BY <2>1, <2>2
<1>9. Renewals' = Renewals BY <1>1 DEF Renewals
<1>10. entry.committed <=> k < Renewals' BY <1>3, <1>4, <1>7, <1>9 DEF BookInv, IntentsOK
<1>11. renewal_due_at' \in {Term * (j + 1) : j \in 0 .. MaxCycle + 1}
  BY <1>1 DEF BookInv, CaseType
<1>12. entry.status # "awaiting" /\ entry.status # "confirmed" BY <1>1, <1>7
<1>13. BookInv'
  BY <1>1, <1>4, <1>7, <1>8, <1>9, <1>10, <1>11, <1>12, IntentWritten DEF stripeVars
<1> QED BY <1>1, <1>13

\* The return to the success page: the one place where the date advances.
LEMMA ReconcileWrites ==
  ASSUME BookInv, NEW p, Proc = {p}, ReconcileCommit(p)
  PROVE  /\ BookInv' /\ UNCHANGED <<jobVars, faults>>
         /\ last_renewed_at' \in {last_renewed_at, now}
<1> PICK k : k = at[p].cycle OBVIOUS
<1> PICK s : s = at[p].sess OBVIOUS
<1>1. pc[p] = "reconcile" /\ Finish(p) /\ UNCHANGED <<stripeVars, jobVars, faults>>
  BY DEF ReconcileCommit
<1>2. RequestOK(p) BY DEF BookInv
<1>3. s \in shown /\ sess[s].cycle = k BY <1>1, <1>2 DEF RequestOK
<1>4. s \in Session /\ sess[s] \in Sess /\ k <= Renewals /\ intent[k] # None
  BY <1>3 DEF BookInv, SessionsOK, StripeType
<1>5. k \in Cycle /\ k \in Nat BY DEF BookInv, RequestType, Cycle
<1>6. intent \in [Cycle -> Intent \cup {None}] /\ intent[k] \in Intent
  BY <1>4, <1>5 DEF BookInv, CaseType
<1>7. Renewals \in Nat /\ CaseType BY RenewalsCount, RenewalAssumption DEF BookInv
<1>8. CASE UNCHANGED caseVars
  <2>1. RequestType' /\ RequestOK(p)' BY <1>1, RequestFinishes DEF BookInv
  <2> QED BY <1>1, <1>8, <2>1, RequestMoves DEF caseVars
<1>9. ASSUME ~Settled(k) PROVE k = Renewals
  <2>1. intent[k].status = "awaiting" 
    BY <1>6, <1>9 DEF Settled, _TERMINAL_STATUSES, Intent, PaymentIntentStatus
  <2>2. k >= Renewals BY <1>4, <1>5, <2>1 DEF BookInv, IntentsOK
  <2> QED BY <1>4, <1>5, <1>7, <2>2
<1>10. CASE /\ ~Settled(k) /\ s \in Paid /\ mark_case_renewed
            /\ intent' = [intent EXCEPT ![k] = [@ EXCEPT !.status = "confirmed", !.committed = TRUE,
                                                         !.gateway = s, !.pi = TRUE]]
  <2>1. Renewals \in Cycle /\ k = Renewals BY <1>5, <1>9, <1>10
  <2>2. /\ Renewals' = Renewals + 1
        /\ renewal_due_at' \in {Term * (j + 1) : j \in 0 .. MaxCycle + 1}
    BY <1>7, <1>10, <2>1, RenewalAdvances DEF mark_case_renewed
  <2> PICK entry : entry = [intent[k] EXCEPT !.status = "confirmed", !.committed = TRUE,
                                         !.gateway = s, !.pi = TRUE] OBVIOUS
  <2>3. entry \in Intent /\ entry.status = "confirmed" /\ entry.committed = TRUE
    BY <1>4, <1>6 DEF Intent, PaymentIntentStatus
  <2>4. intent' = [intent EXCEPT ![k] = entry] BY <1>10
  <2>5. k < Renewals' BY <1>7, <2>1, <2>2
  <2>6. \E t \in Paid : sess[t].cycle = k BY <1>3, <1>10
  <2>7. BookInv'
    BY <1>1, <1>5, <2>1, <2>2, <2>3, <2>4, <2>5, <2>6, IntentWritten DEF stripeVars
  <2> QED BY <1>1, <1>10, <2>7 DEF mark_case_renewed
<1>11. CASE /\ ~Settled(k) /\ UNCHANGED <<renewal_due_at, last_renewed_at>>
            /\ intent' = [intent EXCEPT ![k].status = "expired"]
  <2>1. k = Renewals /\ Renewals' = Renewals BY <1>9, <1>11 DEF Renewals
  <2> PICK entry : entry = [intent[k] EXCEPT !.status = "expired"] OBVIOUS
  <2>2. entry \in Intent /\ entry.status = "expired" /\ entry.committed = intent[k].committed
    BY <1>6 DEF Intent, PaymentIntentStatus
  <2>3. intent' = [intent EXCEPT ![k] = entry] BY <1>11
  <2>4. entry.committed <=> k < Renewals' BY <1>4, <1>5, <2>1, <2>2 DEF BookInv, IntentsOK
  <2>5. renewal_due_at' \in {Term * (j + 1) : j \in 0 .. MaxCycle + 1}
    BY <1>7, <1>11 DEF CaseType
  <2>6. BookInv'
    BY <1>1, <1>5, <2>1, <2>2, <2>3, <2>4, <2>5, IntentWritten DEF stripeVars
  <2> QED BY <1>1, <1>11, <2>6
<1>12. \/ UNCHANGED caseVars
       \/ /\ ~Settled(k) /\ s \in Paid /\ mark_case_renewed
          /\ intent' = [intent EXCEPT ![k] = [@ EXCEPT !.status = "confirmed", !.committed = TRUE,
                                                       !.gateway = s, !.pi = TRUE]]
       \/ /\ ~Settled(k) /\ UNCHANGED <<renewal_due_at, last_renewed_at>>
          /\ intent' = [intent EXCEPT ![k].status = "expired"]
  BY DEF ReconcileCommit
<1>13. UNCHANGED caseVars => last_renewed_at' = last_renewed_at BY DEF caseVars
<1> QED BY <1>1, <1>8, <1>10, <1>11, <1>12, <1>13

LEMMA RequestStep ==
  ASSUME BookInv, NEW p, Proc = {p}, Request(p)
  PROVE  /\ BookInv' /\ UNCHANGED jobVars
         /\ last_renewed_at' \in {last_renewed_at, now}
         /\ faults' = faults \/ (faults < MaxFaults /\ faults' = faults + 1)
<1>1. ASSUME SessionRefused(p) \/ RequestDies(p)
      PROVE  /\ BookInv' /\ UNCHANGED <<jobVars, last_renewed_at>>
             /\ faults' = faults \/ (faults < MaxFaults /\ faults' = faults + 1)
  <2>1. Finish(p) /\ UNCHANGED <<caseVars, stripeVars, jobVars>>
    BY <1>1 DEF SessionRefused, RequestDies
  <2>2. RequestType' /\ RequestOK(p)' BY <2>1, RequestFinishes DEF BookInv
  <2>3. BookInv' BY <2>1, <2>2, RequestMoves DEF caseVars
  <2> QED BY <1>1, <2>1, <2>3 DEF SessionRefused, RequestDies, caseVars
<1>2. CASE \/ create_renewal_checkout(p)
           \/ \E s \in Session : reconcile_session(p, s)
           \/ \E s \in Session, from \in {"expired", "failed", "refunded"} : StatusEvent(p, s, from)
  BY <1>2, RequestBegins
<1>3. CASE \E s \in Session : OpenSession(p, s) BY <1>3, SessionOpens
<1>4. CASE CheckoutCommit(p) BY <1>4, CheckoutWrites
<1>5. CASE StatusCommit(p) BY <1>5, StatusWrites
<1>6. CASE ReconcileCommit(p) BY <1>6, ReconcileWrites
<1> QED BY <1>1, <1>2, <1>3, <1>4, <1>5, <1>6 DEF Request, Continue

\* The job writes nothing that the books depend on.
LEMMA BooksUntouched ==
  ASSUME BookInv, UNCHANGED <<caseVars, stripeVars, procVars>>
  PROVE  BookInv'
<1>1. UNCHANGED <<renewal_due_at, intent, idem, shown, sess, procVars>>
  BY DEF caseVars, stripeVars
<1>2. StripeType' BY DEF BookInv, StripeType, stripeVars
<1>3. Paid' = Paid BY <1>1 DEF Paid
<1> QED BY <1>1, <1>2, <1>3, BooksFollow DEF BookInv

LEMMA JobTypeStep ==
  ASSUME JobType, CaseType, Job \/ JobDies \/ Night
  PROVE  JobType' /\ UNCHANGED <<caseVars, stripeVars, procVars>>
<1>1. MaxFaults \in Nat BY RenewalAssumption
<1>2. CASE scan_and_dispatch_due_reminders
  <2> PICK r : r = [window |-> detect_open_window, due |-> renewal_due_at] OBVIOUS
  <2>1. /\ UNCHANGED <<caseVars, stripeVars, procVars, now, reminders, faults>>
        /\ \/ pulsed' = TRUE /\ UNCHANGED <<job, mails>>
           \/ /\ OpenWindows # {} /\ job' = r /\ pulsed' = pulsed
              /\ mails' = [mails EXCEPT ![r] = @ + 1]
    BY <1>2 DEF scan_and_dispatch_due_reminders
  <2>2. now' = now /\ reminders' = reminders /\ faults' = faults /\ last_renewed_at' = last_renewed_at
    BY <2>1 DEF caseVars
  <2>3. CASE pulsed' = TRUE /\ UNCHANGED <<job, mails>>
    <3>1. pulsed' \in BOOLEAN BY <2>3, Zenon
    <3> QED BY <2>1, <2>2, <2>3, <3>1 DEF JobType
  <2>4. CASE /\ OpenWindows # {} /\ job' = r /\ pulsed' = pulsed
             /\ mails' = [mails EXCEPT ![r] = @ + 1]
    <3>1. OpenWindows \in SUBSET Nat BY WindowFacts DEF OpenWindows
    <3>2. \E w \in OpenWindows : \A v \in OpenWindows : w <= v BY <2>4, <3>1, HasSmallest
    <3>3. detect_open_window \in OpenWindows BY <3>2 DEF detect_open_window, Min
    <3>4. r \in Reminder BY <3>3 DEF OpenWindows, Reminder, CaseType
    <3>5. mails' \in [Reminder -> Nat] BY <2>4, <3>4 DEF JobType
    <3> QED BY <2>1, <2>2, <2>4, <3>4, <3>5 DEF JobType
  <2> QED BY <2>1, <2>3, <2>4
<1>3. CASE dispatch_renewal_reminders
  <2>1. /\ job # None /\ reminders' = reminders \cup {job} /\ job' = None /\ pulsed' = TRUE
        /\ UNCHANGED <<caseVars, stripeVars, procVars, now, mails, faults>>
    BY <1>3 DEF dispatch_renewal_reminders
  <2>2. pulsed' \in BOOLEAN BY <2>1, Zenon
  <2>3. last_renewed_at' = last_renewed_at BY <2>1 DEF caseVars
  <2> QED BY <2>1, <2>2, <2>3 DEF JobType
<1>4. CASE JobDies
  <2>1. /\ faults < MaxFaults /\ faults' = faults + 1 /\ job' = None /\ pulsed' = TRUE
        /\ UNCHANGED <<caseVars, stripeVars, procVars, now, reminders, mails>>
    BY <1>4 DEF JobDies
  <2>2. pulsed' \in BOOLEAN BY <2>1, Zenon
  <2>3. last_renewed_at' = last_renewed_at BY <2>1 DEF caseVars
  <2> QED BY <1>1, <2>1, <2>2, <2>3 DEF JobType
<1>5. CASE Night
  <2>1. /\ now' = now + 1 /\ pulsed' = FALSE
        /\ UNCHANGED <<caseVars, stripeVars, procVars, job, reminders, mails, faults>>
    BY <1>5 DEF Night
  <2>2. pulsed' \in BOOLEAN BY <2>1, Zenon
  <2>3. last_renewed_at' = last_renewed_at BY <2>1 DEF caseVars
  <2> QED BY <2>1, <2>2, <2>3 DEF JobType
<1> QED BY <1>2, <1>3, <1>4, <1>5 DEF Job

LEMMA BookStep ==
  ASSUME NEW p, Proc = {p}
  PROVE  TypeOK /\ BookInv /\ [Next]_vars => (TypeOK /\ BookInv)'
<1> SUFFICES ASSUME TypeOK, BookInv, [Next]_vars PROVE JobType' /\ BookInv'
  BY TypeSplits, PTL DEF BookInv
<1>1. JobType /\ CaseType /\ MaxFaults \in Nat BY TypeSplits, RenewalAssumption
<1>2. ASSUME UNCHANGED jobVars, last_renewed_at' \in {last_renewed_at, now},
             faults' = faults \/ (faults < MaxFaults /\ faults' = faults + 1)
      PROVE  JobType'
  <2>1. UNCHANGED <<now, pulsed, job, reminders, mails>> BY <1>2 DEF jobVars
  <2>2. faults' \in 0 .. MaxFaults BY <1>1, <1>2 DEF JobType
  <2> QED BY <1>1, <1>2, <2>1, <2>2 DEF JobType
<1>3. CASE \E q \in Proc : Request(q)
  <2>1. Request(p) BY <1>3
  <2> QED BY <1>2, <2>1, RequestStep
<1>4. CASE Stripe BY <1>2, <1>4, StripeStep
<1>5. CASE Job \/ JobDies \/ Night BY <1>1, <1>5, JobTypeStep, BooksUntouched
<1>6. CASE UNCHANGED vars
  <2>1. UNCHANGED <<caseVars, stripeVars, procVars, jobVars, last_renewed_at, faults>>
    BY <1>6 DEF vars, caseVars
  <2> QED BY <1>2, <2>1, BooksUntouched
<1> QED BY <1>3, <1>4, <1>5, <1>6 DEF Next

-----------------------------------------------------------------------------
(* Theorems.                                                               *)

\* Each cycle the date is beyond has a paid session of its own.
LEMMA PaidForCounts == BookInv => RenewalsArePaid
<1> SUFFICES ASSUME BookInv PROVE Renewals <= Cardinality(Paid) BY DEF RenewalsArePaid
<1> PICK r : r = Renewals OBVIOUS
<1>1. r \in Nat /\ r <= MaxCycle + 1 /\ MaxCycle \in Nat
  BY RenewalsCount, RenewalAssumption DEF BookInv
<1> DEFINE K == 0 .. (r - 1)
<1> DEFINE f == [k \in K |-> CHOOSE s \in Paid : sess[s].cycle = k]
<1>2. \A k \in K : f[k] \in Paid /\ sess[f[k]].cycle = k
  <2> TAKE k \in K
  <2>1. k \in Cycle /\ k < Renewals BY <1>1 DEF Cycle
  <2>2. \E s \in Paid : sess[s].cycle = k BY <2>1 DEF BookInv, PaidFor
  <2> QED BY <2>2
<1>3. f \in [K -> Paid] BY <1>2
<1>4. \A a, b \in K : f[a] = f[b] => a = b BY <1>2
<1> HIDE DEF f
<1>5. f \in Injection(K, Paid) BY <1>3, <1>4 DEF Injection, IsInjective
<1>6. IsFiniteSet(Paid) BY DEF BookInv
<1> HIDE DEF K
<1>7. Cardinality(K) <= Cardinality(Paid) BY <1>5, <1>6, FS_Injection
<1>8. Cardinality(K) = r
  <2>1. 0 \in Int /\ r - 1 \in Int BY <1>1
  <2>2. Cardinality(0 .. (r - 1)) = IF 0 > r - 1 THEN 0 ELSE (r - 1) - 0 + 1
    BY <2>1, FS_Interval
  <2> QED BY <1>1, <2>2 DEF K
<1> QED BY <1>7, <1>8

LEMMA IntentsAgree == BookInv => BooksAgree
<1> SUFFICES ASSUME BookInv, NEW k \in Cycle
             PROVE  /\ (intent[k] # None /\ intent[k].status = "confirmed"
                          => intent[k] # None /\ intent[k].committed)
                    /\ (intent[k] # None /\ intent[k].committed) <=> k < Renewals
  BY DEF BooksAgree
<1>1. k \in Nat /\ Renewals \in Nat BY RenewalsCount, RenewalAssumption DEF Cycle, BookInv
<1>2. CASE intent[k] = None
  <2>1. k >= Renewals BY <1>2 DEF BookInv, IntentsOK
  <2> QED BY <1>1, <1>2, <2>1
<1>3. CASE intent[k] # None BY <1>3 DEF BookInv, IntentsOK
<1> QED BY <1>2, <1>3

\* With one request at a time, whatever events Stripe sends late or again and
\* whatever the job does: the variables have their types, the intents agree with
\* renewal_due_at, and no more terms are granted than sessions were paid.
THEOREM OneRequestKeepsBooks ==
  ASSUME NEW p, Proc = {p}
  PROVE  Spec => [](TypeOK /\ BooksAgree /\ RenewalsArePaid)
<1>1. Init => TypeOK /\ BookInv BY BookInitial
<1>2. TypeOK /\ BookInv /\ [Next]_vars => (TypeOK /\ BookInv)' BY BookStep
<1>3. TypeOK /\ BookInv => TypeOK /\ BooksAgree /\ RenewalsArePaid
  BY PaidForCounts, IntentsAgree
<1> QED BY <1>1, <1>2, <1>3, PTL DEF Spec

\* In particular, with one request at a time the trademark is renewed no more
\* often than it was paid for.
THEOREM OneRequestIsPaid ==
  ASSUME NEW p, Proc = {p}
  PROVE  Spec => []RenewalsArePaid
BY OneRequestKeepsBooks, PTL
=============================================================================

------------------------------ MODULE Renewal ------------------------------
(***************************************************************************)
(* The renewals of one registered trademark: app/renewals, the renewal     *)
(* lane of app/payments/service.py and the dispatcher endpoint of          *)
(* app/admin/router.py.                                                    *)
(*                                                                         *)
(* Each cycle of the case has one payment intent, found by its idempotency *)
(* key.  The owner opens a Checkout session for the current cycle; when it *)
(* is paid, Stripe's event and the owner's return to the success page both *)
(* want to advance renewal_due_at.  A nightly job reminds of the due date. *)
(* One unit of time is a night.                                            *)
(***************************************************************************)
EXTENDS Integers, FiniteSets, FiniteSetsExt

CONSTANTS
  Proc,      \* requests in flight at a time
  Session,   \* Stripe Checkout sessions
  None,
  Term,      \* EUIPO_RENEWAL_TERM_YEARS, in nights
  REMINDER_WINDOWS_DAYS,
  MaxCycle,  \* bound on the cycles that may be paid for
  MaxNow,    \* bound on the nights
  MaxFaults, \* bound on requests and jobs that die half way
  EagerPaymentIntent \* Stripe creates the payment intent with the session

ASSUME RenewalAssumption ==
  /\ Term \in Nat \ {0} /\ MaxCycle \in Nat /\ MaxNow \in Nat /\ MaxFaults \in Nat
  /\ REMINDER_WINDOWS_DAYS \subseteq 0 .. Term
  /\ REMINDER_WINDOWS_DAYS # {} /\ IsFiniteSet(REMINDER_WINDOWS_DAYS)
  /\ EagerPaymentIntent \in BOOLEAN

VARIABLES
  now, pulsed,      \* tonight, and whether the scheduler has run the job
  renewal_due_at,   \* columns of the case, filed on night 0: the date, and
  last_renewed_at,  \* the night on which it was last advanced (at first 0)
  intent,           \* per cycle: the payment intent
  sess,             \* Stripe: the sessions
  idem,             \* Stripe: per cycle, the session its idempotency key names
  shown, declined, refunded, \* sessions with this past
  answer,           \* Stripe: what became of each completed event
  pc, at, seen,     \* per request: where it is, on which session and cycle,
                    \* and the intent it loaded
  job,              \* the reminder an open job transaction is about to record
  reminders,        \* renewal_reminder
  mails,            \* per reminder: emails handed to the mail task
  faults

caseVars == <<renewal_due_at, last_renewed_at, intent>>
stripeVars == <<sess, idem, shown, declined, refunded, answer>>
procVars == <<pc, at, seen>>
jobVars == <<now, pulsed, job, reminders, mails>>
vars == <<caseVars, stripeVars, procVars, jobVars, faults>>

-----------------------------------------------------------------------------
Cycle == 0 .. MaxCycle
PaymentIntentStatus == {"awaiting", "confirmed", "refunded", "failed", "expired"}
_TERMINAL_STATUSES == {"confirmed", "refunded", "failed", "expired"}

\* pi: gateway_payment_id is a payment intent, not a session;
\* committed: renewal_committed_at is in the metadata.
Intent == [status : PaymentIntentStatus, gateway : Session, pi : BOOLEAN,
           stored : Session, committed : BOOLEAN]
Sess == [status : {"open", "paid", "expired"}, cycle : Cycle]
Reminder == [window : REMINDER_WINDOWS_DAYS, due : {Term * (k + 1) : k \in 0 .. MaxCycle + 1}]
Nowhere == [sess |-> None, cycle |-> 0]

\* The absence of a row, of a session and of a reminder is told from all of them.
ASSUME NoneAssumption == None \notin Session \cup Intent \cup Sess \cup Reminder

Paid == {s \in Session : sess[s] # None /\ sess[s].status = "paid"}
Renewals == renewal_due_at \div Term - 1

\* The nights before the first window opens are all alike.
Init ==
  /\ now = Term - Max(REMINDER_WINDOWS_DAYS) /\ pulsed = FALSE /\ renewal_due_at = Term
  /\ last_renewed_at = 0
  /\ intent = [k \in Cycle |-> None]
  /\ sess = [s \in Session |-> None] /\ idem = [k \in Cycle |-> None]
  /\ shown = {} /\ declined = {} /\ refunded = {}
  /\ answer = [s \in Session |-> "none"]
  /\ pc = [p \in Proc |-> "idle"] /\ at = [p \in Proc |-> Nowhere]
  /\ seen = [p \in Proc |-> None]
  /\ job = None /\ reminders = {} /\ mails = [r \in Reminder |-> 0]
  /\ faults = 0

Finish(p) ==
  /\ pc' = [pc EXCEPT ![p] = "idle"]
  /\ at' = [at EXCEPT ![p] = Nowhere]
  /\ seen' = [seen EXCEPT ![p] = None]

-----------------------------------------------------------------------------
(* create_renewal_checkout: read the case, read or insert the intent of    *)
(* its cycle and have Stripe open or replay a session, write the intent.   *)

\* 0-based: how often renewal_due_at has advanced beyond the first term.
_current_renewal_cycle == Renewals

create_renewal_checkout(p) ==
  /\ pc[p] = "idle" /\ _current_renewal_cycle <= MaxCycle
  /\ pc' = [pc EXCEPT ![p] = "checkout"]
  /\ at' = [at EXCEPT ![p].cycle = _current_renewal_cycle]
  /\ UNCHANGED <<caseVars, stripeVars, seen, jobVars, faults>>

\* The flushed INSERT of one request makes the others wait for its commit.
Inserting(k) == \E q \in Proc : pc[q] = "opened" /\ at[q].cycle = k /\ seen[q] = None

\* Stripe makes up the identifier of a session.
Unopened == {s \in Session : sess[s] = None}
New(S) == CHOOSE x \in S : TRUE

\* The key of the cycle names a session as long as Stripe remembers it.
OpenSession(p, s) ==
  LET k == at[p].cycle
  IN /\ pc[p] = "checkout" /\ (intent[k] = None => ~Inserting(k))
     /\ \/ intent[k] # None /\ idem[k] = s /\ UNCHANGED <<sess, idem>>
        \/ /\ idem[k] = None /\ Unopened # {} /\ s = New(Unopened)
           /\ sess' = [sess EXCEPT ![s] = [status |-> "open", cycle |-> k]]
           /\ idem' = [idem EXCEPT ![k] = s]
     /\ pc' = [pc EXCEPT ![p] = "opened"]
     /\ at' = [at EXCEPT ![p].sess = s]
     /\ seen' = [seen EXCEPT ![p] = intent[k]]
     /\ UNCHANGED <<caseVars, shown, declined, refunded, answer, jobVars, faults>>

\* Stripe refuses the key with another intent, email or amount; the inserted
\* intent is rolled back.
SessionRefused(p) ==
  /\ pc[p] = "checkout"
  /\ idem[at[p].cycle] # None \/ Unopened = {}
  /\ Finish(p)
  /\ UNCHANGED <<caseVars, stripeVars, jobVars, faults>>

\* Columns are written when they differ from what was loaded.
CheckoutCommit(p) ==
  LET k == at[p].cycle
      s == at[p].sess
      old == seen[p]
      new == [status |-> "awaiting", gateway |-> s, pi |-> EagerPaymentIntent,
              stored |-> s, committed |-> FALSE]
  IN /\ pc[p] = "opened"
     /\ IF old = None
          THEN intent' = IF intent[k] = None THEN [intent EXCEPT ![k] = new] ELSE intent
          ELSE intent' = [intent EXCEPT ![k] =
                 LET sameGateway == old.gateway = s /\ old.pi = EagerPaymentIntent
                 IN [status |-> IF old.status = "awaiting" THEN @.status ELSE "awaiting",
                     gateway |-> IF sameGateway THEN @.gateway ELSE s,
                     pi |-> IF sameGateway THEN @.pi ELSE EagerPaymentIntent,
                     stored |-> IF old.stored = s THEN @.stored ELSE s,
                     committed |-> IF old.stored = s THEN @.committed ELSE old.committed]]
     /\ shown' = shown \cup {s}
     /\ Finish(p)
     /\ UNCHANGED <<renewal_due_at, last_renewed_at, sess, idem, declined, refunded, answer,
                    jobVars, faults>>

-----------------------------------------------------------------------------
(* Stripe and the owner.                                                   *)

CustomerPays(s) ==
  /\ s \in shown /\ sess[s].status = "open"
  /\ sess' = [sess EXCEPT ![s].status = "paid"]
  /\ UNCHANGED <<caseVars, idem, shown, declined, refunded, answer, procVars, jobVars, faults>>

CardDeclined(s) ==
  /\ s \in shown \ declined /\ sess[s].status = "open"
  /\ declined' = declined \cup {s}
  /\ UNCHANGED <<caseVars, sess, idem, shown, refunded, answer, procVars, jobVars, faults>>

SessionExpires(s) ==
  /\ sess[s] # None /\ sess[s].status = "open"
  /\ sess' = [sess EXCEPT ![s].status = "expired"]
  /\ UNCHANGED <<caseVars, idem, shown, declined, refunded, answer, procVars, jobVars, faults>>

IdempotencyKeyPruned(k) ==
  /\ idem[k] # None /\ sess[idem[k]].status # "open"
  /\ idem' = [idem EXCEPT ![k] = None]
  /\ UNCHANGED <<caseVars, sess, shown, declined, refunded, answer, procVars, jobVars, faults>>

DashboardRefund(s) ==
  /\ s \in Paid \ refunded
  /\ refunded' = refunded \cup {s}
  /\ UNCHANGED <<caseVars, sess, idem, shown, declined, answer, procVars, jobVars, faults>>

-----------------------------------------------------------------------------
(* Events that change the status of the intent: loaded without a lock,     *)
(* then written.  Any may come late or again.                              *)

StatusEvent(p, s, from) ==
  LET k == sess[s].cycle
      ByGateway == intent[k].gateway = s /\ intent[k].pi
  IN /\ pc[p] = "idle" /\ sess[s] # None /\ intent[k] # None
     /\ CASE from = "expired"  -> sess[s].status = "expired" /\ intent[k].status = "awaiting"
          [] from = "failed"   -> s \in declined /\ ByGateway /\ intent[k].status = "awaiting"
          [] from = "refunded" -> s \in refunded /\ ByGateway
     /\ pc' = [pc EXCEPT ![p] = from]
     /\ at' = [at EXCEPT ![p] = [sess |-> s, cycle |-> k]]
     /\ seen' = [seen EXCEPT ![p] = intent[k]]
     /\ UNCHANGED <<caseVars, stripeVars, jobVars, faults>>

\* Two of them add to the metadata, and write the dict they loaded.
StatusCommit(p) ==
  LET k == at[p].cycle
      row == intent[k]
      old == seen[p]
  IN /\ pc[p] \in {"expired", "failed", "refunded"}
     /\ intent' = [intent EXCEPT ![k] =
          [row EXCEPT !.status = IF old.status = pc[p] THEN row.status ELSE pc[p],
                      !.stored = IF pc[p] = "expired" THEN row.stored ELSE old.stored,
                      !.committed = IF pc[p] = "expired" THEN row.committed ELSE old.committed]]
     /\ Finish(p)
     /\ UNCHANGED <<renewal_due_at, last_renewed_at, stripeVars, jobVars, faults>>

-----------------------------------------------------------------------------
(* Confirmation.                                                           *)

Settled(k) == intent[k].status \in _TERMINAL_STATUSES

\* Mutant: the handler gives up on the case and lets the request commit.
MutRenewalSessionCompleted(s) ==
  /\ s \in Paid /\ answer[s] # "ok" /\ intent[sess[s].cycle] # None
  /\ intent' = [intent EXCEPT ![sess[s].cycle].status = IF Settled(sess[s].cycle) THEN @ ELSE "confirmed"]
  /\ answer' = [answer EXCEPT ![s] = "ok"]
  /\ UNCHANGED <<renewal_due_at, last_renewed_at, sess, idem, shown, declined, refunded,
                 procVars, jobVars, faults>>

\* The handler confirms the intent and then asks for Case, a name its module
\* does not have: the request fails, and with it goes what it wrote.
_handle_renewal_session_completed(s) ==
  /\ s \in Paid /\ answer[s] # "ok" /\ intent[sess[s].cycle] # None
  /\ LET k == sess[s].cycle
     IN answer' = [answer EXCEPT ![s] =
          IF intent[k].committed \/ Settled(k) THEN "ok" ELSE "failed"]
  /\ UNCHANGED <<caseVars, sess, idem, shown, declined, refunded, procVars, jobVars, faults>>

\* The owner is back on the success page; the session is retrieved first.
reconcile_session(p, s) ==
  /\ pc[p] = "idle" /\ s \in shown /\ sess[s].status # "open"
  /\ pc' = [pc EXCEPT ![p] = "reconcile"]
  /\ at' = [at EXCEPT ![p] = [sess |-> s, cycle |-> sess[s].cycle]]
  /\ UNCHANGED <<caseVars, stripeVars, seen, jobVars, faults>>

\* The new date counts from the old one, not from the day of payment.
mark_case_renewed ==
  /\ renewal_due_at' = renewal_due_at + Term
  /\ last_renewed_at' = now

\* Mutant: the intent is asked for the marker of the filing lane only.
MutReconcileCommit(p) ==
  LET k == at[p].cycle
      s == at[p].sess
  IN /\ pc[p] = "reconcile"
     /\ IF s \in Paid
          THEN /\ mark_case_renewed
               /\ intent' = [intent EXCEPT ![k] =
                    [@ EXCEPT !.status = "confirmed", !.committed = TRUE,
                              !.gateway = s, !.pi = TRUE]]
          ELSE /\ intent' = [intent EXCEPT ![k].status = "expired"]
               /\ UNCHANGED <<renewal_due_at, last_renewed_at>>
     /\ Finish(p)
     /\ UNCHANGED <<stripeVars, jobVars, faults>>

\* Under the lock of the intent: confirmed, the case advanced, committed.
ReconcileCommit(p) ==
  LET k == at[p].cycle
      s == at[p].sess
  IN /\ pc[p] = "reconcile"
     /\ IF Settled(k) THEN UNCHANGED caseVars
        ELSE IF s \in Paid
          THEN /\ mark_case_renewed
               /\ intent' = [intent EXCEPT ![k] =
                    [@ EXCEPT !.status = "confirmed", !.committed = TRUE,
                              !.gateway = s, !.pi = TRUE]]
          ELSE /\ intent' = [intent EXCEPT ![k].status = "expired"]
               /\ UNCHANGED <<renewal_due_at, last_renewed_at>>
     /\ Finish(p)
     /\ UNCHANGED <<stripeVars, jobVars, faults>>

RequestDies(p) ==
  /\ pc[p] # "idle" /\ faults < MaxFaults
  /\ faults' = faults + 1
  /\ Finish(p)
  /\ UNCHANGED <<caseVars, stripeVars, jobVars>>

-----------------------------------------------------------------------------
(* Reminders.                                                              *)

\* Mutant: on the night of the trigger itself nothing is sent.
MutDetectOpenWindow == {w \in REMINDER_WINDOWS_DAYS : now > renewal_due_at - w}

OpenWindows == {w \in REMINDER_WINDOWS_DAYS : now >= renewal_due_at - w}

\* The smallest open window is the most urgent.
detect_open_window == Min(OpenWindows)

\* Cases long past their date are no longer scanned.
Scanned == renewal_due_at >= now - (Max(REMINDER_WINDOWS_DAYS) + 1)

Recorded(r) == r \in reminders

\* The scan reads the case, adds the row and hands the email to a task of its
\* own, which waits for nothing.
scan_and_dispatch_due_reminders ==
  /\ job = None /\ ~pulsed
  /\ IF Scanned /\ OpenWindows # {}
       THEN LET r == [window |-> detect_open_window, due |-> renewal_due_at]
            IN IF Recorded(r)
                 THEN pulsed' = TRUE /\ UNCHANGED <<job, mails>>
                 ELSE /\ job' = r /\ UNCHANGED pulsed
                      /\ mails' = [mails EXCEPT ![r] = @ + 1]
       ELSE pulsed' = TRUE /\ UNCHANGED <<job, mails>>
  /\ UNCHANGED <<caseVars, stripeVars, procVars, now, reminders, faults>>

dispatch_renewal_reminders ==
  /\ job # None
  /\ reminders' = reminders \cup {job}
  /\ job' = None /\ pulsed' = TRUE
  /\ UNCHANGED <<caseVars, stripeVars, procVars, now, mails, faults>>

\* The session it shares with the mail tasks refuses a statement, or it dies.
JobDies ==
  /\ job # None /\ faults < MaxFaults
  /\ faults' = faults + 1
  /\ job' = None /\ pulsed' = TRUE
  /\ UNCHANGED <<caseVars, stripeVars, procVars, now, reminders, mails>>

\* The scheduler pulses the job every night.
Night ==
  /\ pulsed /\ now < MaxNow
  /\ now' = now + 1 /\ pulsed' = FALSE
  /\ UNCHANGED <<caseVars, stripeVars, procVars, job, reminders, mails, faults>>

-----------------------------------------------------------------------------
Continue(p) == SessionRefused(p) \/ CheckoutCommit(p) \/ StatusCommit(p) \/ ReconcileCommit(p)

Request(p) ==
  \/ create_renewal_checkout(p) \/ Continue(p) \/ RequestDies(p)
  \/ \E s \in Session : OpenSession(p, s) \/ reconcile_session(p, s)
  \/ \E s \in Session, from \in {"expired", "failed", "refunded"} : StatusEvent(p, s, from)

Stripe ==
  \/ \E s \in Session : \/ CustomerPays(s) \/ CardDeclined(s) \/ SessionExpires(s)
                        \/ DashboardRefund(s) \/ _handle_renewal_session_completed(s)
  \/ \E k \in Cycle : IdempotencyKeyPruned(k)

Job == scan_and_dispatch_due_reminders \/ dispatch_renewal_reminders

Next == (\E p \in Proc : Request(p)) \/ Stripe \/ Job \/ JobDies \/ Night

Spec == Init /\ [][Next]_vars

\* Requests end and Stripe delivers; nobody has to pay or to come back.
Fairness ==
  /\ \A p \in Proc : WF_vars(Continue(p) \/ \E s \in Session : OpenSession(p, s))
  /\ \A s \in Session : WF_vars(_handle_renewal_session_completed(s))
FairSpec == Spec /\ Fairness

-----------------------------------------------------------------------------
(* Properties.                                                             *)

TypeOK ==
  /\ now \in Nat /\ pulsed \in BOOLEAN
  /\ renewal_due_at \in {Term * (k + 1) : k \in 0 .. MaxCycle + 1}
  /\ last_renewed_at \in Nat
  /\ intent \in [Cycle -> Intent \cup {None}]
  /\ sess \in [Session -> Sess \cup {None}]
  /\ idem \in [Cycle -> Session \cup {None}]
  /\ shown \subseteq Session /\ declined \subseteq Session /\ refunded \subseteq Session
  /\ answer \in [Session -> {"none", "failed", "ok"}]
  /\ pc \in [Proc -> {"idle", "checkout", "opened", "expired", "failed", "refunded", "reconcile"}]
  /\ at \in [Proc -> [sess : Session \cup {None}, cycle : Cycle]]
  /\ seen \in [Proc -> Intent \cup {None}]
  /\ job \in Reminder \cup {None} /\ reminders \subseteq Reminder
  /\ mails \in [Reminder -> Nat] /\ faults \in 0 .. MaxFaults

\* A trademark is renewed no more often than it was paid for, however often
\* events and success pages come again.
RenewalsArePaid == Renewals <= Cardinality(Paid)

\* The books and the register agree: a payment that is confirmed has renewed the
\* trademark, and the cycles marked as renewed are those the date is beyond.
BooksAgree ==
  \A k \in Cycle :
    LET committed == intent[k] # None /\ intent[k].committed IN
    /\ intent[k] # None /\ intent[k].status = "confirmed" => committed
    /\ committed <=> k < Renewals

\* But for the nights on which the job died, an owner is told that the date has
\* passed.  The two provisos are what the code does not promise: a date that was
\* already past when the renewal set it, and a date that all the nights on which
\* the case was still scanned have missed, are never reminded of.
OverdueIsReminded ==
  /\ last_renewed_at < renewal_due_at
  /\ faults <= Max(REMINDER_WINDOWS_DAYS) + 1
  /\ now >= renewal_due_at + faults + 1
  => [window |-> Min(REMINDER_WINDOWS_DAYS), due |-> renewal_due_at] \in reminders

\* Money that is taken renews the trademark, unless one of the sessions was
\* declined, refunded or left to expire.
PaidIsRenewed ==
  \A s \in Session :
    s \in Paid ~> \/ s \in Paid /\ intent[sess[s].cycle].committed
                  \/ declined \cup refunded # {}
                  \/ \E t \in Session : sess[t] # None /\ sess[t].status = "expired"

\* "a duplicate click does not double-charge" (renewals/router.py).
OneChargePerCycle ==
  \A s, t \in Paid : sess[s].cycle = sess[t].cycle => s = t

\* An owner is not told to renew a trademark that is renewed.
NoReminderAfterRenewal ==
  [][\A r \in reminders' \ reminders : r.due = renewal_due_at]_vars
=============================================================================

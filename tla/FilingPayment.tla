---------------------------- MODULE FilingPayment ----------------------------
(***************************************************************************)
(* The Stripe lane of one filing draft: app/payments/service.py driving    *)
(* app/agent/filing_service.py and app/compliance/service.py.              *)
(*                                                                         *)
(* A draft, its PaymentIntent row, its Stripe Checkout sessions, the EUIPO *)
(* applications, the on-chain compliance proof and the promoted case.      *)
(* Requests of one FastAPI process interleave at every await; each has its *)
(* own database transaction (READ COMMITTED).  Only the "completed"        *)
(* webhook and the success-url reconciler lock the intent row, so at most  *)
(* one request holds "lock" and has uncommitted work in "tx".  The others  *)
(* read a row, decide, and write later; SQLAlchemy then writes only the    *)
(* columns whose value differs from the one that was loaded.               *)
(***************************************************************************)
EXTENDS Naturals, FiniteSets

CONSTANTS
  Session,            \* Stripe Checkout sessions that may be opened
  NoSession,
  Proc,               \* requests the API serves concurrently
  NoProc,
  MaxEdits,           \* bound on edits of the draft in the chat
  MaxAborts,          \* bound on rolled back requests (crash, exception)
  MaxLost,            \* bound on answers of EUIPO or Solana that are lost
  MaxTroubles,        \* bound on edits, rolled back requests and lost answers together
  EagerPaymentIntent, \* Session.create already returns a payment_intent id
  DictPayloads,       \* webhook objects support .get() (older stripe-python)
  VerifierEnabled     \* settings.solana_zk_verifier_enabled

ASSUME NoSessionAssumption == NoSession \notin Session
ASSUME NoProcAssumption == NoProc \notin Proc
ASSUME BoundsAssumption ==
  MaxEdits \in Nat /\ MaxAborts \in Nat /\ MaxLost \in Nat /\ MaxTroubles \in Nat
ASSUME FlagsAssumption ==
  EagerPaymentIntent \in BOOLEAN /\ DictPayloads \in BOOLEAN /\ VerifierEnabled \in BOOLEAN

VARIABLES
  \* Stripe
  sess,      \* status of every session
  sessVer,   \* version of the draft a session was opened for
  idem,      \* session Stripe replays for the draft's idempotency key
  shown,     \* sessions whose url reached the customer
  declined,  \* sessions on which a card was declined
  refunded,  \* sessions whose charge Stripe refunded
  acked,     \* sessions whose completed event was answered with 2xx
  \* committed database rows
  draft,     \* case_draft: status, version of its contents, promoted case?
  intent,    \* payment_intent: status, gateway_payment_id and, of its metadata,
             \* stripe_session_id (stored) and auto_submit_committed_at (done)
  rows,      \* filing_attempt rows with status submitted
  artifact,  \* compliance_artifact.status
  chat,      \* payment confirmations pushed to the chat
  \* the outside world
  apps,      \* applications EUIPO has accepted
  onchain,   \* compliance records on chain: <<session, version>>
  \* requests in flight
  pc, sid, seen, seenDraft, lock, tx,
  aborts, lost

stripeVars == <<sess, sessVer, idem, shown, declined, refunded>>
dbVars     == <<draft, intent, rows, artifact, chat>>
worldVars  == <<apps, onchain>>
localVars  == <<pc, sid, seen, seenDraft>>
vars == <<stripeVars, acked, dbVars, worldVars, localVars, lock, tx, aborts, lost>>

-----------------------------------------------------------------------------
(* Types.                                                                  *)

Version        == 0 .. MaxEdits
SessionStatus  == {"none", "open", "paid", "expired"}
CaseDraftStatus == {"validated", "awaiting_payment", "paid"}
PaymentIntentStatus ==
  {"none", "awaiting", "confirmed", "failed", "refunded", "expired"}
ArtifactStatus == {"none", "created", "verified", "failed"}

GatewayId == [kind : {"none", "cs", "pi"}, sess : Session \cup {NoSession}]
Draft  == [status : CaseDraftStatus, ver : Version, promoted : BOOLEAN]
Intent == [status : PaymentIntentStatus, gpid : GatewayId,
           stored : Session \cup {NoSession}, done : BOOLEAN]
Tx == [draft : Draft, gpid : GatewayId, row : BOOLEAN, refund : BOOLEAN,
       artifact : ArtifactStatus, done : BOOLEAN, hook : BOOLEAN]

PC == {"idle", "checkout", "opened", "expire", "decline", "chargeback",
       "refunding", "reconcile", "file", "refund", "prove", "attest",
       "promote", "commit", "tool", "tool_ok"}

NoGateway == [kind |-> "none", sess |-> NoSession]
NewDraft  == [status |-> "validated", ver |-> 0, promoted |-> FALSE]
NoIntent  == [status |-> "none", gpid |-> NoGateway, stored |-> NoSession, done |-> FALSE]
NoTx == [draft |-> NewDraft, gpid |-> NoGateway, row |-> FALSE, refund |-> FALSE,
         artifact |-> "none", done |-> FALSE, hook |-> FALSE]

\* service.py _TERMINAL_STATUSES
Terminal == {"confirmed", "refunded", "failed", "expired"}

\* Sessions whose money Stripe holds or has held.
Captured == {s \in Session : sess[s] = "paid"}

\* session.payment_status == "paid"
MutSessionPaid(s) == sess[s] # "expired" /\ s \in shown
SessionPaid(s) == sess[s] = "paid"

\* The stages of the confirmation pipeline, which runs under the row lock.
PipelinePC == {"file", "refund", "prove", "attest", "promote", "commit"}

Init ==
  /\ sess = [s \in Session |-> "none"]
  /\ sessVer = [s \in Session |-> 0]
  /\ idem = NoSession
  /\ shown = {} /\ declined = {} /\ refunded = {} /\ acked = {}
  /\ draft = NewDraft
  /\ intent = NoIntent
  /\ rows = 0 /\ artifact = "none" /\ chat = 0
  /\ apps = 0 /\ onchain = {}
  /\ pc = [p \in Proc |-> "idle"]
  /\ sid = [p \in Proc |-> NoSession]
  /\ seen = [p \in Proc |-> NoIntent]
  /\ seenDraft = [p \in Proc |-> NewDraft]
  /\ lock = NoProc /\ tx = NoTx
  /\ aborts = 0 /\ lost = 0

\* A request ends and forgets what it had loaded.
Finish(p) ==
  /\ pc' = [pc EXCEPT ![p] = "idle"]
  /\ sid' = [sid EXCEPT ![p] = NoSession]
  /\ seen' = [seen EXCEPT ![p] = NoIntent]
  /\ seenDraft' = [seenDraft EXCEPT ![p] = NewDraft]

\* A request continues; what it had loaded stays in its identity map.
Goto(p, label) ==
  /\ pc' = [pc EXCEPT ![p] = label]
  /\ UNCHANGED <<sid, seen, seenDraft>>

\* One more edit, rollback or lost answer is within the bound on all of them.
Trouble == draft.ver + aborts + lost < MaxTroubles

\* The pipeline has flushed a change of the draft row and so holds its lock.
DraftLocked == lock # NoProc /\ tx.draft # seenDraft[lock]

-----------------------------------------------------------------------------
(* The chat.  An edit validates the draft again whatever its status was;   *)
(* its UPDATE waits for the row lock of a pipeline that changed the draft. *)

CreateCaseDraft ==
  /\ draft.ver < MaxEdits /\ Trouble
  /\ ~DraftLocked
  /\ draft' = [draft EXCEPT !.status = "validated", !.ver = @ + 1]
  /\ UNCHANGED <<stripeVars, acked, intent, rows, artifact, chat, worldVars,
                 localVars, lock, tx, aborts, lost>>

\* The x402 lane opens its own intent (which nothing confirms) and moves the
\* same draft to awaiting_payment.
PreparePayment ==
  /\ draft.status = "validated"
  /\ ~DraftLocked
  /\ draft' = [draft EXCEPT !.status = "awaiting_payment"]
  /\ UNCHANGED <<stripeVars, acked, intent, rows, artifact, chat, worldVars,
                 localVars, lock, tx, aborts, lost>>

-----------------------------------------------------------------------------
(* create_checkout_session: read the draft, read or insert the intent and  *)
(* open (or have Stripe replay) a session, write both rows.  The branch    *)
(* that re-uses an open session needs status 'created' together with a     *)
(* stored session id; the two are written together with 'awaiting', so no  *)
(* committed row ever satisfies it.                                        *)

MutPayable == TRUE
Payable == draft.status \in {"validated", "awaiting_payment"}

CheckoutBegin(p) ==
  /\ pc[p] = "idle"
  /\ Payable
  /\ pc' = [pc EXCEPT ![p] = "checkout"]
  /\ seenDraft' = [seenDraft EXCEPT ![p] = draft]
  /\ UNCHANGED <<stripeVars, acked, dbVars, worldVars, sid, seen, lock, tx, aborts, lost>>

\* An uncommitted INSERT of the intent makes other inserters wait.
Inserting == \E q \in Proc : pc[q] = "opened" /\ seen[q].status = "none"

\* Stripe answers the idempotency key with the session it created for it, if
\* the parameters are the same: same intent id, same draft contents.
Replays(p) == idem # NoSession /\ intent.status # "none"
              /\ sessVer[idem] = seenDraft[p].ver

CheckoutOpen(p, s) ==
  /\ pc[p] = "checkout"
  /\ intent.status = "none" => ~Inserting
  /\ \/ /\ Replays(p) /\ s = idem
        /\ UNCHANGED <<sess, sessVer, idem>>
     \/ /\ idem = NoSession /\ sess[s] = "none"
        /\ sess' = [sess EXCEPT ![s] = "open"]
        /\ sessVer' = [sessVer EXCEPT ![s] = seenDraft[p].ver]
        /\ idem' = s
  /\ pc' = [pc EXCEPT ![p] = "opened"]
  /\ sid' = [sid EXCEPT ![p] = s]
  /\ seen' = [seen EXCEPT ![p] = intent]
  /\ UNCHANGED <<shown, declined, refunded, acked, dbVars, worldVars, seenDraft,
                 lock, tx, aborts, lost>>

\* Stripe refuses the key with other parameters, no session is left to open, or
\* the request read no intent row and waits with an INSERT of its own: the unique
\* key rejects it once the other row is committed.
CheckoutReject(p) ==
  /\ pc[p] = "checkout"
  /\ \/ idem # NoSession /\ ~Replays(p)
     \/ idem = NoSession /\ \A s \in Session : sess[s] # "none"
     \/ intent.status = "none" /\ Inserting
  /\ Finish(p)
  /\ UNCHANGED <<stripeVars, acked, dbVars, worldVars, lock, tx, aborts, lost>>

\* session.payment_intent or session.id
GatewayOf(s) == [kind |-> IF EagerPaymentIntent THEN "pi" ELSE "cs", sess |-> s]

CheckoutCommit(p) ==
  LET old == seen[p]
      s   == sid[p]
  IN
  /\ pc[p] = "opened"
  /\ lock = NoProc
  /\ draft' = IF seenDraft[p].status # "awaiting_payment"
                THEN [draft EXCEPT !.status = "awaiting_payment"] ELSE draft
  /\ intent' = [status |-> IF old.status # "awaiting" THEN "awaiting" ELSE intent.status,
                gpid   |-> IF old.gpid # GatewayOf(s) THEN GatewayOf(s) ELSE intent.gpid,
                stored |-> IF old.stored # s THEN s ELSE intent.stored,
                done   |-> IF old.stored # s THEN old.done ELSE intent.done]
  /\ shown' = shown \cup {s}
  /\ Finish(p)
  /\ UNCHANGED <<sess, sessVer, idem, declined, refunded, acked, rows, artifact,
                 chat, worldVars, lock, tx, aborts, lost>>

-----------------------------------------------------------------------------
(* Stripe and the customer.  A session stays open for 24 hours and Stripe  *)
(* prunes an idempotency key no sooner than 24 hours after its use.        *)

CustomerPays(s) ==
  /\ s \in shown /\ sess[s] = "open"
  /\ sess' = [sess EXCEPT ![s] = "paid"]
  /\ UNCHANGED <<sessVer, idem, shown, declined, refunded, acked, dbVars, worldVars,
                 localVars, lock, tx, aborts, lost>>

CardDeclined(s) ==
  /\ s \in shown \ declined /\ sess[s] = "open"
  /\ declined' = declined \cup {s}
  /\ UNCHANGED <<sess, sessVer, idem, shown, refunded, acked, dbVars, worldVars,
                 localVars, lock, tx, aborts, lost>>

SessionExpires(s) ==
  /\ sess[s] = "open"
  /\ sess' = [sess EXCEPT ![s] = "expired"]
  /\ UNCHANGED <<sessVer, idem, shown, declined, refunded, acked, dbVars, worldVars,
                 localVars, lock, tx, aborts, lost>>

IdempotencyKeyPruned ==
  /\ idem # NoSession /\ sess[idem] # "open"
  /\ idem' = NoSession
  /\ UNCHANGED <<sess, sessVer, shown, declined, refunded, acked, dbVars, worldVars,
                 localVars, lock, tx, aborts, lost>>

\* An operator refunds in the Stripe dashboard.
DashboardRefund(s) ==
  /\ s \in Captured \ refunded
  /\ refunded' = refunded \cup {s}
  /\ UNCHANGED <<sess, sessVer, idem, shown, declined, acked, dbVars, worldVars,
                 localVars, lock, tx, aborts, lost>>

-----------------------------------------------------------------------------
(* Webhooks that only change the status of the intent.  They take no row   *)
(* lock: the guard is evaluated on the row as loaded, the UPDATE waits for *)
(* whoever holds the row and is then applied to whatever it has become.    *)
(* Stripe may deliver any event late, again, or out of order.              *)

Load(p, s, label) ==
  /\ pc[p] = "idle"
  /\ pc' = [pc EXCEPT ![p] = label]
  /\ sid' = [sid EXCEPT ![p] = s]
  /\ seen' = [seen EXCEPT ![p] = intent]
  /\ UNCHANGED <<stripeVars, acked, dbVars, worldVars, seenDraft, lock, tx, aborts, lost>>

ExpiredRead(p, s) ==
  /\ DictPayloads /\ sess[s] = "expired"
  /\ intent.status \notin Terminal \cup {"none"}
  /\ Load(p, s, "expire")

\* payment_intent.payment_failed finds its row by gateway_payment_id only.
PaymentFailedRead(p, s) ==
  /\ DictPayloads /\ s \in declined
  /\ intent.gpid = [kind |-> "pi", sess |-> s]
  /\ intent.status \notin Terminal
  /\ Load(p, s, "decline")

ChargeRefundedRead(p, s) ==
  /\ DictPayloads /\ s \in refunded
  /\ intent.gpid = [kind |-> "pi", sess |-> s]
  /\ Load(p, s, "chargeback")

\* The whole metadata dict is written when the handler adds a key to it.
WriteStatus(p, status, withMetadata) ==
  /\ lock = NoProc
  /\ intent' = [intent EXCEPT
                  !.status = IF seen[p].status # status THEN status ELSE @,
                  !.stored = IF withMetadata THEN seen[p].stored ELSE @,
                  !.done   = IF withMetadata THEN seen[p].done ELSE @]
  /\ Finish(p)
  /\ UNCHANGED <<stripeVars, acked, draft, rows, artifact, chat, worldVars, lock,
                 tx, aborts, lost>>

ExpiredCommit(p)        == pc[p] = "expire" /\ WriteStatus(p, "expired", FALSE)
PaymentFailedCommit(p)  == pc[p] = "decline" /\ WriteStatus(p, "failed", TRUE)
ChargeRefundedCommit(p) == pc[p] = "chargeback" /\ WriteStatus(p, "refunded", TRUE)

\* The admin endpoint: the Stripe call follows the read at once, the UPDATE
\* later.  Stripe refuses a payment it has not captured, and answers a second
\* call under the intent's idempotency key with the refund it has made.
OperatorRefund(p) ==
  /\ pc[p] = "idle"
  /\ intent.status = "confirmed"
  /\ intent.gpid.kind = "pi" /\ intent.gpid.sess \in Captured
  /\ refunded' = refunded \cup {intent.gpid.sess}
  /\ pc' = [pc EXCEPT ![p] = "refunding"]
  /\ seen' = [seen EXCEPT ![p] = intent]
  /\ UNCHANGED <<sess, sessVer, idem, shown, declined, acked, dbVars, worldVars,
                 sid, seenDraft, lock, tx, aborts, lost>>

OperatorRefundCommit(p) == pc[p] = "refunding" /\ WriteStatus(p, "refunded", TRUE)

-----------------------------------------------------------------------------
(* Confirmation.  The webhook reads the draft after it has the row lock,   *)
(* the reconciler before it.                                               *)

MutAlreadySettled == intent.status = "refunded"
AlreadySettled == intent.done \/ intent.status \in Terminal

\* The transaction of the request that confirms session s.  A draft that is
\* not awaiting payment is left as it is, and is not submitted unless paid.
Confirm(p, s, d, hook) ==
  LET d2 == IF d.status = "awaiting_payment" THEN [d EXCEPT !.status = "paid"] ELSE d
  IN
  /\ lock' = p
  /\ tx' = [draft |-> d2, gpid |-> [kind |-> "pi", sess |-> s], row |-> FALSE,
            refund |-> FALSE, artifact |-> artifact, done |-> FALSE, hook |-> hook]
  /\ pc' = [pc EXCEPT ![p] = IF d2.status = "paid" THEN "file" ELSE "commit"]
  /\ sid' = [sid EXCEPT ![p] = s]
  /\ seenDraft' = [seenDraft EXCEPT ![p] = d]

CompletedWebhook(p, s) ==
  /\ pc[p] = "idle"
  /\ SessionPaid(s) /\ intent.status # "none"
  /\ lock = NoProc
  /\ IF AlreadySettled
       THEN acked' = acked \cup {s} /\ UNCHANGED <<localVars, lock, tx>>
       ELSE Confirm(p, s, draft, TRUE) /\ UNCHANGED <<seen, acked>>
  /\ UNCHANGED <<stripeVars, dbVars, worldVars, aborts, lost>>

\* The session is retrieved and the draft read before the lock is requested.
ReconcileBegin(p, s) ==
  /\ pc[p] = "idle"
  /\ s \in shown /\ intent.status # "none"
  /\ SessionPaid(s) \/ sess[s] = "expired"
  /\ pc' = [pc EXCEPT ![p] = "reconcile"]
  /\ sid' = [sid EXCEPT ![p] = s]
  /\ seenDraft' = [seenDraft EXCEPT ![p] = draft]
  /\ UNCHANGED <<stripeVars, acked, dbVars, worldVars, seen, lock, tx, aborts, lost>>

ReconcileLocked(p) ==
  /\ pc[p] = "reconcile"
  /\ lock = NoProc
  /\ \/ /\ AlreadySettled
        /\ Finish(p)
        /\ UNCHANGED <<intent, lock, tx>>
     \/ /\ ~AlreadySettled /\ sess[sid[p]] = "expired"
        /\ intent' = [intent EXCEPT !.status = "expired"]
        /\ Finish(p)
        /\ UNCHANGED <<lock, tx>>
     \/ /\ ~AlreadySettled /\ SessionPaid(sid[p])
        /\ Confirm(p, sid[p], seenDraft[p], FALSE)
        /\ UNCHANGED <<intent, seen>>
  /\ UNCHANGED <<stripeVars, acked, draft, rows, artifact, chat, worldVars, aborts, lost>>

-----------------------------------------------------------------------------
(* The pipeline of _auto_submit_after_confirmation, in the transaction of  *)
(* the request that holds the lock; calls to EUIPO, Stripe and Solana take *)
(* effect at once, database work at PipelineCommit.                        *)

LoseAnswer == lost < MaxLost /\ Trouble /\ lost' = lost + 1

\* find_submitted_attempt
MutFiled == FALSE
Filed == rows > 0

\* A rejection of the request itself is refunded; after a failure of the login or of
\* EUIPO the money is kept.
_should_auto_refund == {"refund", "prove"}

\* submit_eutm, unless a submitted attempt exists.  A lost answer and a
\* transient error look the same: an attempt row with status error.
AutoFile(p) ==
  /\ pc[p] = "file"
  /\ IF Filed
       THEN Goto(p, "commit") /\ UNCHANGED <<apps, tx, lost>>
       ELSE \/ /\ apps' = apps + 1
               /\ tx' = [tx EXCEPT !.row = TRUE]
               /\ Goto(p, "prove")
               /\ UNCHANGED lost
            \/ LoseAnswer /\ apps' = apps + 1 /\ Goto(p, "prove") /\ UNCHANGED tx
            \/ /\ \E next \in _should_auto_refund : Goto(p, next)
               /\ UNCHANGED <<apps, tx, lost>>
  /\ UNCHANGED <<stripeVars, acked, dbVars, onchain, lock, aborts>>

\* A permanent rejection is refunded; a failing refund is only logged.
MutAutoRefund(p) ==
  /\ pc[p] = "refund"
  /\ refunded' \in {refunded, refunded \cup {tx.gpid.sess}}
  /\ tx' = [tx EXCEPT !.refund = TRUE]
  /\ Goto(p, "commit")
  /\ UNCHANGED <<sess, sessVer, idem, shown, declined, acked, dbVars, worldVars,
                 lock, aborts, lost>>

AutoRefund(p) ==
  /\ pc[p] = "refund"
  /\ \/ /\ refunded' = refunded \cup {tx.gpid.sess}
        /\ tx' = [tx EXCEPT !.refund = TRUE]
     \/ UNCHANGED <<refunded, tx>>
  /\ Goto(p, "commit")
  /\ UNCHANGED <<sess, sessVer, idem, shown, declined, acked, dbVars, worldVars,
                 lock, aborts, lost>>

\* A proof, or a prover that is missing, stopped, killed after its time or unreadable.
_run_prover == {"created", "failed"}

\* generate_for_payment_intent: an artifact that did not fail is re-used.  The
\* chat confirmation and the marker follow unless a proof must still be attested;
\* without a payment id or the operator's key there is no artifact and no marker.
GenerateProof(p) ==
  /\ pc[p] = "prove"
  /\ \/ \E a \in (IF artifact \in {"created", "verified"} THEN {artifact} ELSE _run_prover) :
          /\ tx' = [tx EXCEPT !.artifact = a, !.done = (a # "created")]
          /\ Goto(p, IF a = "created" THEN "attest" ELSE "commit")
     \/ /\ artifact \notin {"created", "verified"}
        /\ Goto(p, "commit") /\ UNCHANGED tx
  /\ UNCHANGED <<stripeVars, acked, dbVars, worldVars, lock, aborts, lost>>

\* The record's address is derived from a digest of the draft's contents and
\* the Stripe payment; the verifier program refuses to write a record twice.
Digest == <<tx.gpid.sess, tx.draft.ver>>

\* Where the pipeline goes when the proof could not be recorded.
AfterFailedProof == "commit"

SubmitAttestation(p) ==
  /\ pc[p] = "attest"
  /\ \/ ~VerifierEnabled /\ Goto(p, "promote") /\ UNCHANGED <<onchain, tx, lost>>
     \/ /\ VerifierEnabled /\ Digest \notin onchain
        /\ onchain' = onchain \cup {Digest}
        /\ tx' = [tx EXCEPT !.artifact = "verified"]
        /\ Goto(p, "promote")
        /\ UNCHANGED lost
     \/ /\ VerifierEnabled
        /\ \/ LoseAnswer /\ onchain' = onchain \cup {Digest}
           \/ UNCHANGED <<onchain, lost>>
        /\ tx' = [tx EXCEPT !.artifact = "failed"]
        /\ Goto(p, AfterFailedProof)
  /\ UNCHANGED <<stripeVars, acked, dbVars, apps, lock, aborts>>

\* promote_draft_and_setup_nft creates the case once per draft.  A clash on
\* the case number poisons the transaction and is an Abort; another exception,
\* before or after the draft names its case, only leaves the marker out.
PromoteDraft(p) ==
  /\ pc[p] = "promote"
  /\ \/ tx' = [tx EXCEPT !.draft.promoted = TRUE, !.done = TRUE]
     \/ ~tx.draft.promoted /\ tx' \in {tx, [tx EXCEPT !.draft.promoted = TRUE]}
  /\ Goto(p, "commit")
  /\ UNCHANGED <<stripeVars, acked, dbVars, worldVars, lock, aborts, lost>>

PipelineCommit(p) ==
  LET old == seenDraft[p]
  IN
  /\ pc[p] = "commit"
  /\ draft' = [draft EXCEPT
       !.status   = IF tx.draft.status # old.status THEN tx.draft.status ELSE @,
       !.promoted = IF tx.draft.promoted # old.promoted THEN tx.draft.promoted ELSE @]
  /\ intent' = [intent EXCEPT !.status = IF tx.refund THEN "refunded" ELSE "confirmed",
                              !.gpid = tx.gpid, !.done = tx.done]
  /\ rows' = IF tx.row THEN rows + 1 ELSE rows
  /\ artifact' = tx.artifact
  /\ chat' = IF tx.done THEN chat + 1 ELSE chat
  /\ acked' = IF tx.hook THEN acked \cup {sid[p]} ELSE acked
  /\ lock' = NoProc /\ tx' = NoTx
  /\ Finish(p)
  /\ UNCHANGED <<stripeVars, worldVars, aborts, lost>>

-----------------------------------------------------------------------------
(* The submit_filing tool of the agent: its own session, no lock.          *)

SubmitFilingBegin(p) ==
  /\ pc[p] = "idle"
  /\ ~Filed /\ draft.status = "paid"
  /\ pc' = [pc EXCEPT ![p] = "tool"]
  /\ UNCHANGED <<stripeVars, acked, dbVars, worldVars, sid, seen, seenDraft, lock,
                 tx, aborts, lost>>

MutSubmitFilingCall(p) ==
  /\ pc[p] = "tool"
  /\ apps' \in {apps, apps + 1} /\ Goto(p, "tool_ok")
  /\ UNCHANGED <<stripeVars, acked, dbVars, onchain, lock, tx, aborts, lost>>

SubmitFilingCall(p) ==
  /\ pc[p] = "tool"
  /\ \/ apps' = apps + 1 /\ Goto(p, "tool_ok") /\ UNCHANGED lost
     \/ LoseAnswer /\ apps' = apps + 1 /\ Finish(p)
     \/ Finish(p) /\ UNCHANGED <<apps, lost>>
  /\ UNCHANGED <<stripeVars, acked, dbVars, onchain, lock, tx, aborts>>

SubmitFilingCommit(p) ==
  /\ pc[p] = "tool_ok"
  /\ rows' = rows + 1
  /\ Finish(p)
  /\ UNCHANGED <<stripeVars, acked, draft, intent, artifact, chat, worldVars, lock,
                 tx, aborts, lost>>

-----------------------------------------------------------------------------
\* A crash, or an exception that makes get_db roll back: the row lock and the
\* uncommitted work are gone, what the outside world accepted is not.
MutAbort(p) ==
  /\ pc[p] # "idle" /\ aborts < MaxAborts /\ Trouble
  /\ aborts' = aborts + 1
  /\ IF lock = p THEN lock' = NoProc /\ tx' = NoTx ELSE UNCHANGED <<lock, tx>>
  /\ acked' = IF lock = p /\ tx.hook THEN acked \cup {sid[p]} ELSE acked
  /\ Finish(p)
  /\ UNCHANGED <<stripeVars, dbVars, worldVars, lost>>

Abort(p) ==
  /\ pc[p] # "idle" /\ aborts < MaxAborts /\ Trouble
  /\ aborts' = aborts + 1
  /\ IF lock = p THEN lock' = NoProc /\ tx' = NoTx ELSE UNCHANGED <<lock, tx>>
  /\ Finish(p)
  /\ UNCHANGED <<stripeVars, acked, dbVars, worldVars, lost>>

Pipeline(p) ==
  \/ AutoFile(p) \/ AutoRefund(p) \/ GenerateProof(p) \/ SubmitAttestation(p)
  \/ PromoteDraft(p) \/ PipelineCommit(p)

\* Steps of a request that has begun.
Continue(p) ==
  \/ \E s \in Session : CheckoutOpen(p, s)
  \/ CheckoutReject(p) \/ CheckoutCommit(p)
  \/ ExpiredCommit(p) \/ PaymentFailedCommit(p) \/ ChargeRefundedCommit(p)
  \/ OperatorRefundCommit(p)
  \/ ReconcileLocked(p)
  \/ Pipeline(p)
  \/ SubmitFilingCall(p) \/ SubmitFilingCommit(p)

\* Requests that arrive.
Arrive(p) ==
  \/ CheckoutBegin(p) \/ OperatorRefund(p) \/ SubmitFilingBegin(p)
  \/ \E s \in Session :
       \/ ExpiredRead(p, s) \/ PaymentFailedRead(p, s) \/ ChargeRefundedRead(p, s)
       \/ CompletedWebhook(p, s) \/ ReconcileBegin(p, s)

Environment ==
  \/ CreateCaseDraft \/ PreparePayment \/ IdempotencyKeyPruned
  \/ \E s \in Session :
       CustomerPays(s) \/ CardDeclined(s) \/ SessionExpires(s) \/ DashboardRefund(s)

Next ==
  \/ Environment
  \/ \E p \in Proc : Arrive(p) \/ Continue(p) \/ Abort(p)

Spec == Init /\ [][Next]_vars

\* A request that has begun runs on; the row lock is granted in turn.  Stripe
\* re-sends a completed event for days until it is answered with 2xx.
Fairness ==
  /\ \A p \in Proc : SF_vars(Continue(p))
  /\ \A s \in Session : SF_vars(s \notin acked /\ \E p \in Proc : CompletedWebhook(p, s))

FairSpec == Spec /\ Fairness
-----------------------------------------------------------------------------
(* Properties.                                                             *)

\* Every variable has its type; the row lock is held exactly by a request in
\* the pipeline.
TypeOK ==
  /\ sess \in [Session -> SessionStatus]
  /\ sessVer \in [Session -> Version]
  /\ idem \in Session \cup {NoSession}
  /\ shown \in SUBSET Session /\ declined \in SUBSET Session
  /\ refunded \in SUBSET Session /\ acked \in SUBSET Session
  /\ draft \in Draft /\ intent \in Intent
  /\ rows \in Nat /\ artifact \in ArtifactStatus /\ chat \in Nat
  /\ apps \in Nat /\ onchain \in SUBSET (Session \X Version)
  /\ pc \in [Proc -> PC] /\ sid \in [Proc -> Session \cup {NoSession}]
  /\ seen \in [Proc -> Intent] /\ seenDraft \in [Proc -> Draft]
  /\ lock \in Proc \cup {NoProc} /\ tx \in Tx
  /\ aborts \in Nat /\ lost \in Nat

\* The system never acts on a payment that was not made: a confirmed intent, a
\* paid draft, an application at EUIPO or a promoted case means Stripe captured
\* the money of some session, and a compliance record is bound to a session
\* whose money was captured -- whichever of webhook and reconciler came first,
\* whatever a stale request wrote afterwards and whatever was rolled back.
PaidBeforeActing ==
  /\ intent.status = "confirmed" \/ draft.status = "paid" \/ draft.promoted \/ apps > 0
       => Captured # {}
  /\ \A rec \in onchain : rec[1] \in Captured

\* A row that says refunded is backed by a refund at Stripe, and Stripe only
\* refunds money it captured (refund_payment_intent writes after the call).
RefundsBacked ==
  /\ refunded \subseteq Captured
  /\ intent.status = "refunded" => refunded # {}

\* Every attempt row in status submitted stands for an application of its own
\* that EUIPO accepted; an error or a lost answer never becomes a filing.
NoPhantomFiling == rows <= apps

\* A case is promoted only after a compliance record landed on chain (when the
\* verifier is enabled), although proof, attestation and promotion can each fail.
CaseHasProof == draft.promoted /\ VerifierEnabled => onchain # {}

\* With one request at a time the books never show two filings of a draft.
FiledOnceInBooks == rows <= 1

\* With one request at a time the chat confirms no payment twice, however often
\* events are delivered and the success page is reloaded.
OneConfirmationPerPayment == chat <= Cardinality(Captured)

\* With one request at a time only an edit takes a draft back from paid, and a
\* confirmed payment is reopened only by a checkout for contents of the draft
\* that differ from those that were paid for.
OnlyEditReopens ==
  [][/\ draft.status = "paid" /\ draft'.status # "paid" => draft'.ver > draft.ver
     /\ intent.status = "confirmed" /\ intent'.status \notin {"confirmed", "refunded"}
          => draft.ver > sessVer[intent.gpid.sess]]_vars

\* A payment is recorded: while Stripe has captured money, the intent becomes
\* confirmed (or refunded) again and again, rolled back pipelines and repeated
\* deliveries of the completed event notwithstanding, unless another session
\* was opened for the draft: its expiry ends the intent of both; or the row has the
\* payment intent from the start and the event of a declined card, or of a refund,
\* found it by that before the payment was recorded.
PaymentIsRecorded ==
  \A s \in Session :
    sess[s] = "paid" ~> \/ intent.status \in {"confirmed", "refunded"}
                        \/ \E t \in Session \ {s} : sess[t] # "none"
                        \/ EagerPaymentIntent /\ s \in declined \cup refunded

\* The lane implements the ledger of money and filings.
Ledger == INSTANCE FilingLedger WITH
  Payment <- Session, ProofRequired <- VerifierEnabled,
  captured <- Captured, returned <- refunded, filings <- apps,
  proofs <- {rec[1] : rec \in onchain}, opened <- draft.promoted

ImplementsLedger == Ledger!Spec

-----------------------------------------------------------------------------
(* Statements of the code's comments that its behaviours do not satisfy.   *)

\* "re-delivering the same event ... on an already-terminal PaymentIntent is a
\* no-op": a confirmed payment does not become failed or expired.
ConfirmedNeverFails ==
  [][intent.status = "confirmed" => intent'.status \notin {"failed", "expired"}]_vars

\* "Advance the draft so subsequent submit_filing knows payment is done": the
\* step that confirms a payment leaves the draft paid.
ConfirmationAdvancesDraft ==
  [][intent.status # "confirmed" /\ intent'.status = "confirmed"
       => draft'.status = "paid"]_vars

\* "submission requires status='paid' (payment confirmed)": no application goes
\* to EUIPO for a payment whose own row says refunded.
NothingFiledAfterRefund ==
  [][apps' > apps => intent.status # "refunded"]_vars

\* "re-uses the Stripe session if it is still open, otherwise creates a fresh
\* one": a checkout hands the customer a session that can be paid.
CheckoutHandsOutOpenSession ==
  [][\A p \in Proc : pc[p] = "checkout" /\ pc'[p] = "opened"
       => sess'[sid'[p]] = "open"]_vars

\* "never spend another EUIPO API call on an already-filed draft".
FiledOnce == apps <= 1
=============================================================================

-------------------------- MODULE CaseAttestation --------------------------
(***************************************************************************)
(* The on-chain attestation of one case and the events recorded on it:     *)
(* the attestation endpoints of app/cases/router.py, the records they keep *)
(* (app/cases/service.py), the Helius event of app/solana/events.py and    *)
(* the etornie-attestation program.                                        *)
(*                                                                         *)
(* A wallet signs a transaction that was prepared for it, the operator     *)
(* co-signs and submits it, and the request then records it.  Creating an  *)
(* attestation emits no program event; updating it does, and Helius        *)
(* delivers that event to the webhook, which records it as well.           *)
(***************************************************************************)
EXTENDS Naturals, FiniteSets

CONSTANTS
  Update,        \* signed transactions of lifecycle events
  NoUpdate,
  Handler,       \* requests and deliveries at a time
  MaxUnanswered  \* bound on answers that never arrive or arrive at a dead process

ASSUME UpdateAssumption == Update \cap {NoUpdate, "none", "create"} = {}
ASSUME LostBoundAssumption == MaxUnanswered \in Nat

VARIABLES
  attested,        \* the CaseAttestation account exists
  landed,          \* updates that succeeded on chain
  attestation_tx,  \* column of the case row: "none", "create" or an update
  events,          \* number of case_events rows of each update
  setups,          \* NFT set-ups that recorded attestations have scheduled
  signedCreate,    \* the creation was prepared and signed
  signedUpdates,   \* updates that were prepared and signed
  answered,        \* updates whose event was answered with 200
  swallowed,       \* those among them that once failed to be reconciled
  step, upd, seenTx, \* per handler: step, update it handles, attestation_tx it read
  unheard          \* transactions that landed and whose request never learned so

accountVars == <<attested, landed>>
dbVars == <<attestation_tx, events>>
answerVars == <<answered, swallowed>>
handlerVars == <<step, upd, seenTx>>
attestationVars ==
  <<accountVars, dbVars, setups, signedCreate, signedUpdates, answerVars, handlerVars, unheard>>

AttestationTx == {"none", "create"} \cup Update
Step == {"idle", "create", "created", "update", "updated", "webhook"}

AttestationInit ==
  /\ attested = FALSE /\ landed = {}
  /\ attestation_tx = "none" /\ events = [u \in Update |-> 0] /\ setups = 0
  /\ signedCreate = FALSE /\ signedUpdates = {} /\ answered = {} /\ swallowed = {}
  /\ step = [p \in Handler |-> "idle"]
  /\ upd = [p \in Handler |-> NoUpdate]
  /\ seenTx = [p \in Handler |-> "none"]
  /\ unheard = {}

Begin(p, label, u) ==
  /\ step[p] = "idle"
  /\ step' = [step EXCEPT ![p] = label]
  /\ upd' = [upd EXCEPT ![p] = u]
  /\ seenTx' = [seenTx EXCEPT ![p] = attestation_tx]

Return(p) ==
  /\ step' = [step EXCEPT ![p] = "idle"]
  /\ upd' = [upd EXCEPT ![p] = NoUpdate]
  /\ seenTx' = [seenTx EXCEPT ![p] = "none"]

\* Transaction t has landed, and the request that sent it learns so or not.
Confirmed(p, t, label) ==
  \/ step' = [step EXCEPT ![p] = label] /\ UNCHANGED <<upd, seenTx, unheard>>
  \/ /\ unheard' = unheard \cup {t} /\ Cardinality(unheard') <= MaxUnanswered
     /\ Return(p)

-----------------------------------------------------------------------------
(* The creation.                                                           *)

PrepareAttestation ==
  /\ attestation_tx = "none"
  /\ signedCreate' = TRUE
  /\ UNCHANGED <<accountVars, dbVars, setups, signedUpdates, answerVars, handlerVars, unheard>>

\* create_case_attestation initialises the account of the case id.
Creatable == ~attested

\* submit_case_attestation does not ask whether the case has an attestation;
\* the preflight simulation refuses to create the account again.
SubmitAttestation(p) ==
  /\ signedCreate /\ Creatable
  /\ Begin(p, "create", NoUpdate)
  /\ UNCHANGED <<accountVars, dbVars, setups, signedCreate, signedUpdates, answerVars, unheard>>

\* The account is created, or has been by a transaction that landed after the
\* preflight (the same one sent twice, or another): confirm_transaction waits
\* for the commitment level and does not look at the transaction's error.
CreateLands(p) ==
  /\ step[p] = "create"
  /\ attested' = TRUE
  /\ Confirmed(p, "create", "created")
  /\ UNCHANGED <<landed, dbVars, setups, signedCreate, signedUpdates, answerVars>>

\* Any transaction may be refused, by the checks on its signer and payer or by the node,
\* or its blockhash may expire.
SubmitFails(p) ==
  /\ step[p] \in {"create", "update"}
  /\ Return(p)
  /\ UNCHANGED <<accountVars, dbVars, setups, signedCreate, signedUpdates, answerVars, unheard>>

RecordCaseAttestation(p) ==
  /\ step[p] = "created"
  /\ attestation_tx' = "create"
  /\ setups' = setups + 1
  /\ Return(p)
  /\ UNCHANGED <<accountVars, events, signedCreate, signedUpdates, answerVars, unheard>>

-----------------------------------------------------------------------------
(* Updates.                                                                *)

MutPreparesEvent == attested
PreparesEvent == attestation_tx # "none"

PrepareCaseEvent(u) ==
  /\ PreparesEvent
  /\ signedUpdates' = signedUpdates \cup {u}
  /\ UNCHANGED <<accountVars, dbVars, setups, signedCreate, answerVars, handlerVars, unheard>>

\* The preflight refuses a transaction that was already processed.
SubmitCaseEvent(p, u) ==
  /\ u \in signedUpdates \ landed
  /\ Begin(p, "update", u)
  /\ UNCHANGED <<accountVars, dbVars, setups, signedCreate, signedUpdates, answerVars, unheard>>

UpdateLands(p) ==
  /\ step[p] = "update"
  /\ attested
  /\ landed' = landed \cup {upd[p]}
  /\ Confirmed(p, upd[p], "updated")
  /\ UNCHANGED <<attested, dbVars, setups, signedCreate, signedUpdates, answerVars>>

\* record_case_event does not look for a row of the same transaction.
RecordCaseEvent(p) ==
  /\ step[p] = "updated"
  /\ events' = [events EXCEPT ![upd[p]] = @ + 1]
  /\ Return(p)
  /\ UNCHANGED <<accountVars, attestation_tx, setups, signedCreate, signedUpdates, answerVars, unheard>>

-----------------------------------------------------------------------------
(* _reconcile_attestation: a committed row of the event makes it a no-op,  *)
(* and an empty attestation_tx is filled with the signature of the update. *)

MutAttestedAlready(u) == attestation_tx # "none"
Already(u) == events[u] > 0

Emitted(u) == u \in landed

WebhookBegin(p, u) ==
  /\ Emitted(u)
  /\ IF Already(u)
       THEN step[p] = "idle" /\ answered' = answered \cup {u} /\ UNCHANGED handlerVars
       ELSE Begin(p, "webhook", u) /\ UNCHANGED answered
  /\ UNCHANGED <<accountVars, dbVars, setups, signedCreate, signedUpdates, swallowed, unheard>>

WebhookCommit(p) ==
  /\ step[p] = "webhook"
  /\ events' = [events EXCEPT ![upd[p]] = @ + 1]
  /\ attestation_tx' = IF seenTx[p] = "none" THEN upd[p] ELSE attestation_tx
  /\ answered' = answered \cup {upd[p]}
  /\ Return(p)
  /\ UNCHANGED <<accountVars, setups, signedCreate, signedUpdates, swallowed, unheard>>

\* reconcile_events swallows whatever _reconcile_attestation raises (a SELECT
\* that fails, say), and the webhook answers 200: the event does not come again.
WebhookFails(u) ==
  /\ Emitted(u)
  /\ answered' = answered \cup {u} /\ swallowed' = swallowed \cup {u}
  /\ UNCHANGED <<accountVars, dbVars, setups, signedCreate, signedUpdates, handlerVars, unheard>>

-----------------------------------------------------------------------------
Proceed(p) ==
  \/ CreateLands(p) \/ UpdateLands(p) \/ SubmitFails(p)
  \/ RecordCaseAttestation(p) \/ RecordCaseEvent(p) \/ WebhookCommit(p)

AttestationNext ==
  \/ PrepareAttestation
  \/ \E u \in Update : PrepareCaseEvent(u) \/ WebhookFails(u)
  \/ \E p \in Handler :
       \/ SubmitAttestation(p)
       \/ \E u \in Update : SubmitCaseEvent(p, u) \/ WebhookBegin(p, u)
       \/ Proceed(p)

AttestationSpec == AttestationInit /\ [][AttestationNext]_attestationVars

\* What has begun runs on, an event is delivered until it is answered (which is
\* not to say that it was applied), and the
\* wallet's owner sends a signed creation again as long as the row shows none.
AttestationFairness ==
  /\ \A p \in Handler : WF_attestationVars(Proceed(p))
  /\ \A u \in Update : SF_attestationVars(u \notin answered /\ \E p \in Handler : WebhookBegin(p, u))
  /\ SF_attestationVars(attestation_tx = "none" /\ \E p \in Handler : SubmitAttestation(p))

AttestationFairSpec == AttestationSpec /\ AttestationFairness
-----------------------------------------------------------------------------
(* Properties.                                                             *)

\* Every variable has its type.
AttestationTypeOK ==
  /\ attested \in BOOLEAN /\ landed \in SUBSET Update
  /\ attestation_tx \in AttestationTx /\ events \in [Update -> Nat] /\ setups \in Nat
  /\ signedCreate \in BOOLEAN /\ signedUpdates \in SUBSET Update
  /\ answered \in SUBSET Update /\ swallowed \in SUBSET Update
  /\ step \in [Handler -> Step] /\ upd \in [Handler -> Update \cup {NoUpdate}]
  /\ seenTx \in [Handler -> AttestationTx]
  /\ unheard \in SUBSET ({"create"} \cup Update)

\* What the database says of the chain is true: a case with an attestation
\* transaction is attested, and an event row stands for an update that landed.
RecordsAreOnChain ==
  /\ attestation_tx # "none" => attested
  /\ \A u \in Update : events[u] > 0 => u \in landed

\* attestation_tx names a transaction that was sent to create the attestation,
\* never one that updates it, although the webhook is prepared to write the
\* latter: an update is prepared only when the row already shows a creation.
AttestationTxIsCreation == attestation_tx \notin Update

\* An update that landed gets its row unless two things went wrong with this
\* very update: its request never heard of it and its event was dropped.
EventIsRecorded ==
  \A u \in Update : u \in landed ~> events[u] > 0 \/ u \in unheard \cap swallowed

-----------------------------------------------------------------------------
(* Statements of the code and its docs that its behaviours do not satisfy. *)

\* "a re-delivered webhook does not duplicate the CaseEvent row": the webhook
\* adds a row only for an event that has none.
WebhookAddsFirstRow ==
  [][\A p \in Handler : step[p] = "webhook" /\ events' # events => events[upd[p]] = 0]_attestationVars

\* "The backend writes intents (a case attestation, ...) and confirms them
\* synchronously. If that confirmation is dropped ... This webhook closes the
\* gap": an attestation on chain reaches the case row.
AttestationIsRecorded == attested ~> attestation_tx # "none"

\* Said of its events as well: an update that landed gets its row.
UpdateIsRecorded == \A u \in Update : u \in landed ~> events[u] > 0
=============================================================================

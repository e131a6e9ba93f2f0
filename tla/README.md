# Etornie: specifications of the filing backend

Etornie takes a customer from a chat about a trademark to a paid filing at an
IP office, an on-chain compliance proof and a case NFT. This directory holds
TLA+ models of the backend (`services/api/app`), the TLC configurations that
check them, and theorems about them checked by TLAPS.

Paths below are relative to the repository; `payments/service.py` and the like
are under `services/api/app/`.

## 1. Inventory

| Part | State it keeps | Operations | Talks to | Hard behaviour | What makes it correct |
|---|---|---|---|---|---|
| Stripe filing payments (`payments/service.py`, `payments/router.py`) | `payment_intent` row: status, `gateway_payment_id`, metadata (session id, commit marker) | open checkout, six webhook handlers, success-url reconciler, operator refund, confirmation pipeline | Stripe, filing service, compliance service, chat | webhook and reconciler race; late and repeated events; row lock held over remote calls; rollback after a remote effect | money before action; refunds backed; one confirmation per payment; a captured payment is recorded |
| Filing service and agent tools (`agent/filing_service.py`, `agent/tools/*`) | `case_draft` status and contents, `filing_attempt` rows | create/edit draft, prepare x402 payment, submit filing | EUIPO client, payments | check-then-act without a lock; edits during payment | filing only when paid, and once |
| Compliance (`compliance/service.py`) | `compliance_artifact` status | generate proof, attest on chain, promote draft to case | prover, zk-verifier program, cases | each stage may fail by itself; replay guard of the program | no case without a record on chain |
| Database session (`database.py`) | one transaction per request | commit at the end, rollback on exception | all handlers | what a rollback cannot undo | — (part of every model) |
| Cases and case NFTs (`cases/service.py`, `cases/router.py`) | `case` row: `nft_state`, mint, tx ids, number | create, set up NFT, claim, record claim, burn | ip-token program, Helius events | two background set-ups; claim and event write the same row; numbering by count | one mint per case; state follows the chain; no burn undone |
| Solana client and events (`solana/*`) | event rows, counters | build/submit instructions, decode and reconcile events | programs, cases | repeated and reordered webhooks; a failed event is answered 200 | events are idempotent and the last state wins; request or event reaches the row |
| Solana programs (`programs/*`) | PDAs: case attestation, case NFT, compliance record | create/update attestation, mint, burn, verify and record | — | account-level guards | no record twice; soul-bound token lifecycle |
| UKIPO filing (`services/ukipo/*`, `agent/router.py`) | `ukipo_submission` row, in-memory task table | run robot, browser confirmation, Solana or Stripe payment, mark filed | Playwright robot, Stripe, x402, Solana | background task dies with the process; two payment providers; retry after crash | filed only once, only after payment and proof |
| Subscriptions (`payments/subscription_service.py`) | billing columns of `organization` | checkout, portal, mirror subscription and invoice events | Stripe | events out of order, or handled at once; re-reads of the live object | the row shows a state that was real; whoever pays gets the plan and can manage it |
| Renewals (`renewals/*`, part of `payments/service.py`) | `renewal_due_at`, reminders, renewal intents | compute windows, send reminders, checkout, advance cycle | Stripe, notifications | several scans, duplicate reminders, webhook repeats | a window is reminded once; a payment advances one cycle |
| Authentication (`auth/*`, `cases/guest_linking.py`) | users, codes and challenges in Redis, TOTP secret and recovery codes | register by code, wallet sign-in, second factor; a new account takes over its guest cases | Redis, mail | nothing is locked between read and write | a challenge, a recovery code and a guest case are used once; the live secret is the one that was proved |
| Notifications (`notifications/*`, `in_app_notifications/*`) | notification rows with status and retry count | schedule, reschedule, cancel, process | WhatsApp, e-mail | sent one by one, committed together; several processors | what is recorded agrees with what was sent |
| Agent orchestrator (`agent/orchestrator.py`, `agent/service.py`, `agent/uploads.py`) | session row (title, tokens, deleted), messages, uploads, the draft | run a turn: build a prompt, ask the model, run its tools; rename, delete, upload, cancel | language and vision model, tools, payments | a turn holds the session's row while it calls the model; tools commit in sessions of their own; messages are stamped before they wait | the prompt stays well formed; a draft is what the chat shows of it; every message is answered |
| Braid audit (`braid/hooks.py`, `internal.py`, `learning.py`) | one budget row, a weight per capability, decisions, grades | hook, gate, audit, learn, grade | filing, cases and proposals, in their transactions | rows locked until the flow commits; inserts that collide; windows that expire | one call at a time; weights follow decisions; every flow gets its answer |
| Proposals (`proposals/*`) | status, answer, reason | generate, send, answer | — | status read once, written by key | an answer is final |
| E-signature (`esign/*`) | row per signature request, signed document | four calls at the provider; webhook | Yousign, storage | provider acts before the row is committed; repeated webhooks | a signed document reaches its row, once |
| Organizations (`organizations/*`) | members, invites, default organization | create, switch, invite, accept, revoke | — | unique slugs and members; two acceptances | an invite is used once |
| Documents, required documents (`documents/*`, `required_documents/*`) | rows linked to each other, claim and proof of ownership | upload, review, cancel, generate, attach a proof | storage, zk-verifier | two rows written by several requests | the copy of a status agrees with its document |
| Paid chat (`etorniegpt/router.py`, `lib/x402`) | stored answers, payments | pay, prove, ask, store | Solana, model | payment and record stay when a later step fails | a stored answer was paid for and is on chain; who paid gets an answer |
| Sponsored proofs (`zk/router.py`, `solana/client.py`) | records on chain | submit a proof for a wallet | zk-verifier | a status is not a success; lost answers | what is reported is on chain |
| Erasure (`compliance/erasure.py`) | the user's rows everywhere | erase | all of the above | requests in flight; columns read as empty | erased data does not come back |
| EUIPO client (`services/euipo/client.py`, `auth.py`, `router.py`) | the operator's session (one row), the application's token (in memory), the limiter's window | search, file, refresh, log in | EUIPO | the locks are those of one process and logins take none; a refresh token may be good once, and its answer can be lost | filings go on while EUIPO accepts the session; every call returns |
| x402 core, prompting, the external Braid agent, circuits, retention and export, administration, dashboard, SDKs | little or none of their own | HTTP clients, queries, front ends, cryptography | — | — | environment of the models |

The parts meet in three ways: direct awaited calls inside one request (payments
→ filing → compliance → cases, all in one database transaction), events of
third parties delivered at least once and in any order (Stripe, Helius,
Yousign), and background tasks with a session of their own (NFT set-up and
burn, the UKIPO robot, schedulers).

## 2. Plan

In order of importance; each model is an independent module with its own runs.

1. **`FilingPayment`**, with the abstract **`FilingLedger`** it implements and
   `FilingPaymentProofs` — *done here*: the Stripe lane of one draft, from
   checkout to the promoted case.
2. **`CaseNft`** and **`CaseAttestation`**, with `CaseProofs` — *done here*:
   the token of one case (set-up in the background, claim, burn, Helius events,
   the program's guards), and its attestation with the events recorded on it.
   No abstract specification yet: with two set-ups the row's token may change
   and a repeated event may undo a burn (section 5), so the intended
   none → pending → minted → burned is refuted and not implemented.
3. **`UkipoFiling`** with **`UkipoForm`** (the robot against the office's form),
   the abstract **`UkipoLedger`** it implements and `UkipoFilingProofs` — *done*.
4. **`OrgBilling`** — *done*: the billing columns of an organization against the
   history of its Stripe subscriptions.
5. **`Renewal`** — *done*: payment intents and sessions per cycle, the due date,
   the nightly reminders; `BillingProofs` is about this module and the one before.
6. **`Braid`**, with `BraidProofs`, and **`AgentTurn`**, with `AgentTurnProofs` —
   *done*: the audit hooks that run inside other flows' transactions, and one chat
   session of the agent.
7. **`ProofRequests`**, composed of **`ZkVerifier`**, **`PaidQuery`** and
   **`CaseDocuments`** — *done*: everybody who has the verifier program record a
   proof, and the documents that refer to such a record; with
   `ProofRequestsProofs`.
8. **`ClientRecords`**, composed of **`Accounts`**, **`Organizations`**,
   **`Agreements`**, **`Notices`** and **`EuipoSession`** — *done*: what is kept of
   a client, its erasure, and the office's own session at EUIPO; with
   `ClientRecordsProofs`.
9. Open: the calls of the external Braid agent that move money
   (`braid/router.py`).

## 3. What is modelled

### `FilingPayment.tla` — the Stripe lane of one draft on one platform

*Atomicity.* The API is one asyncio process: a request runs undisturbed between
two awaits that leave the process, and each request has a transaction of its own
(`get_db`, READ COMMITTED). An action is the code between two points at which
another request, or the outside world, can change what the request depends on.
The calls to `stripe.*` are synchronous, so a read and the Stripe call that
directly follows it are not interleaved; the write at commit is.

*Rows and copies.* `draft`, `intent`, `rows`, `artifact`, `chat` are committed
rows. A request loads rows into its identity map (`seen`, `seenDraft`) and at
commit SQLAlchemy writes only the columns whose value differs from the loaded
one; `CheckoutCommit`, `WriteStatus` and `PipelineCommit` say exactly that,
which is how a stale request can overwrite a newer value and how it can fail to.
The metadata dict is one JSON column and is written as a whole.

*Lock.* `_handle_session_completed` and `reconcile_session` take the intent row
with `FOR UPDATE` and then run the whole pipeline. `lock` is the holder and `tx`
what its transaction has not committed. An UPDATE by another request waits for
the lock (`lock = NoProc` in the guards of the writes); a plain read does not.
The reads of the draft differ: the webhook reads it after the lock, the
reconciler before.

| Code | Actions |
|---|---|
| `create_case_draft._execute` | `CreateCaseDraft` (an edit; contents are a version number) |
| `prepare_payment._execute` | `PreparePayment` |
| `create_checkout_session` | `CheckoutBegin` (read draft), `CheckoutOpen` / `CheckoutReject` (read or insert intent, `Session.create`), `CheckoutCommit` |
| `_handle_session_completed` | `CompletedWebhook`, `Confirm` |
| `reconcile_session` | `ReconcileBegin`, `ReconcileLocked` |
| `_auto_submit_after_confirmation` | `AutoFile`, `AutoRefund` |
| `_generate_compliance_after_confirmation` | `GenerateProof`, `SubmitAttestation`, `PromoteDraft`, `PipelineCommit` |
| `_handle_session_expired`, `_handle_payment_intent_failed`, `_handle_charge_refunded` | `ExpiredRead/Commit`, `PaymentFailedRead/Commit`, `ChargeRefundedRead/Commit` |
| `refund_payment_intent` (operator) | `OperatorRefund`, `OperatorRefundCommit` |
| `submit_filing._execute`, `submit_eutm` | `SubmitFilingBegin`, `SubmitFilingCall`, `SubmitFilingCommit` |
| exception or crash, `get_db` rollback | `Abort` |
| Stripe and the customer | `CustomerPays`, `CardDeclined`, `SessionExpires`, `IdempotencyKeyPruned`, `DashboardRefund` |

Stripe's side is external: a session is opened once per idempotency key and
replayed for the same parameters (`idem`), refused for others, and the key is
forgotten some time after its session has closed. An event may be delivered as
soon as it is true of the session, at any later time and any number of times.
EUIPO, the prover and Solana accept, reject, or accept without the answer
arriving (`lost`). Of two first checkouts the slower one waits with its INSERT for the
unique key and is refused (`CheckoutReject`). Where the pipeline catches an exception
and returns without its marker, because there is nothing to prove with
(`GenerateProof`) or the promotion fails (`PromoteDraft`), the pipeline ends there and
the next delivery does it again.

Constants that stand for facts about the deployment rather than for sizes:

- `EagerPaymentIntent`: whether `Session.create` already returns a
  `payment_intent`, i.e. what `session.payment_intent or session.id` stores. It
  depends on the Stripe API version. Without it the events that look a row up by
  `gateway_payment_id` find it only after confirmation. The two runs of this module
  take `FALSE`; every theorem holds for both values, and the properties of the runs
  hold with `TRUE` too, in about twice the states.
- `DictPayloads`: whether webhook objects support `.get()`. The comment at
  `payments/service.py:1210` says they do not; `services/api/pyproject.toml:42`
  (`stripe>=11.0.0`) admits releases in which they do. Only the "completed"
  handler normalises its payload, so with `FALSE` the other handlers raise
  before they read anything and their actions are disabled. The runs take
  `TRUE`, which has more behaviours; every theorem holds for both.
- `VerifierEnabled`: `settings.solana_zk_verifier_enabled` (also a constant of
  `UkipoFiling`).

Left out: prices, receipts and e-mails, chat wording, the polling of the
checkout's status, second platforms of one draft (a separate intent row),
`async_payment_failed` (sessions are card-only) and partial refunds. The UKIPO,
renewal and subscription sessions that share the webhook endpoint have modules
of their own, and the background NFT set-up that a promotion schedules is in
`CaseNft`.

### `FilingLedger.tla` — what the lane promises

Captured and returned money, filings, proofs and the case, with the order
between them: money first, refunds only of captured money, a case only after a
proof, and nothing undone. `FilingPayment` implements it under the mapping at the
end of that module: captured payments are the sessions Stripe shows as paid, the
proofs are the sessions the on-chain records are bound to.

### `CaseNft.tla` — the soul-bound token of one case

*Atomicity.* As above, an action is the code between two awaits that leave the
process. Nobody locks the case row here: a request, a background task or a
webhook delivery reads it once (`Load`: `seen` is its copy), talks to Solana or to
a Node subprocess for up to 90 seconds, and then writes the columns that differ
from what it had read. The set-up writes unconditionally, because it goes on only
if the state it read was `none`.

| Code | Actions |
|---|---|
| `promote_draft_and_setup_nft`, then the commit of its request | the promoted case of `Init`, `PromotionCommit` |
| `submit_case_attestation` | `AttestationRecorded` (detailed in `CaseAttestation`) |
| `trigger_nft_setup`, `run_nft_setup` | `SetupBegin`, `SetupMint` / `SetupFail`, `SetupCommit` |
| `prepare_nft_claim` and the client's signature | `PrepareNftClaim` |
| `finalize_nft_claim_endpoint`, `finalize_mint_claim_tx`, `record_nft_claim` | `ClaimBegin`, `ClaimLands` / `ClaimLandsFailed` / `ClaimFail`, `RecordNftClaim` |
| `update_case_endpoint` (status only) | `PatchBegin`, `PatchCommit` |
| `trigger_nft_burn`, `run_nft_burn` | `BurnBegin`, `BurnLands` / `BurnFail`, `BurnCommit` |
| `helius_webhook`, `_reconcile_nft_minted`, `_reconcile_nft_burned` | `EventBegin`, `EventCommit` |
| `reconcile_events` on an exception | `EventFails` |
| a restart of the API | `Restart` (external) |

`row` has the columns that decide something; `committed` is whether other
transactions see it. `tasks` counts background tasks by kind; they live in memory,
so `Restart` forgets them and every request. On chain there are the mint accounts
(`mints`), the one `CaseNftRecord` of the case (`record`: the program creates it
with `init`, so the first claim that lands is the only one) and whether its
`burned_at` is set. `Answer` is the way back from the chain: the answer arrives, or
the transaction has landed and nobody hears of it. `ClaimLandsFailed` is a
transaction that was confirmed with an error: `confirm_transaction` waits for the
commitment level and does not look at the error. `Happened` is when an event can
be delivered: any time after its transaction landed, any number of times.
`reconcile_events` catches whatever an event raises, a failing SELECT for one, and the
webhook answers 200 (`solana/events.py:233`, `solana/webhook_router.py:11`), so
Helius does not send it again: `EventFails` marks the event as delivered and
`dropped`, with nothing written.

Left out: several transactions in one webhook call (each is reconciled and
committed by itself), expiry of a blockhash (one more refusal), metadata, fees, and
the other columns of a PATCH. Background tasks start after the request's commit,
as in FastAPI before 0.118; the release is left open by
`services/api/pyproject.toml:7`, and a hazard names what changes after it.

### `CaseAttestation.tla` — the attestation and the events of one case

| Code | Actions |
|---|---|
| `prepare_case_attestation_endpoint` and the wallet's signature | `PrepareAttestation` |
| `submit_case_attestation`, `finalize_sponsored_attestation_tx`, `record_case_attestation` | `SubmitAttestation`, `CreateLands` / `SubmitFails`, `RecordCaseAttestation` |
| `prepare_case_event` | `PrepareCaseEvent` |
| `submit_case_event_endpoint`, `record_case_event` | `SubmitCaseEvent`, `UpdateLands` / `SubmitFails`, `RecordCaseEvent` |
| `_reconcile_attestation` | `WebhookBegin`, `WebhookCommit` |
| `reconcile_events` on an exception | `WebhookFails` |

`attested` and `landed` are the chain, `attestation_tx` and `events` (rows per
update) the database. `attestation_tx` tells a creation from an update and not one
creation from another. `RecordCaseAttestation` is what `CaseNft` calls
`AttestationRecorded`: it schedules a set-up (`setups`). A request that dies after
its transaction landed is an answer that was lost. `unheard` are the transactions whose
request never learned that they landed, `swallowed` the updates whose event failed and
was answered. Left out: metadata hashes,
event types (the identity of an event is its transaction) and fees.

### `UkipoFiling.tla`, `UkipoForm.tla` — one UK IPO submission

*Atomicity.* As above. No handler locks the submission's row: run requests, robots,
confirmations and card events each load it, talk to somebody, and write what they
have found. The task table `_RUNNING_TASKS` is a variable of the process and is
filled in after the commit of `running` and a refresh.

| Code | Actions |
|---|---|
| `create_submission` (panel), the agent's tool `start_ukipo_filing` | `create_submission`; `start_ukipo_filing`, `LoadCreated` (it creates and runs) |
| `run_submission_endpoint`, `start_submission_run` | `run_submission_endpoint`, `RunRefused`, `start_submission_run`, `create_task` |
| `_execute_robot`, `build_robot_input`, `run_ukipo_filing` and its steps | `build_robot_input`, `_update_step`, `_execute_robot`, `_mark_failed`, `_forget_task` |
| chat payment: requirements, the wallet, `filing_confirm_payment_endpoint` | `filing_payment_requirements_endpoint`, `handlePay`, `verify_payment_tx`, `submit_compliance_proof_tx`, `filing_confirm_payment_endpoint`, `Resent` |
| panel payment: `record_solana_payment` | `handlePay`, `record_solana_payment` |
| card: `create_ukipo_checkout_session` | `create_ukipo_checkout_session`, `ReuseSession`, `CreateSession` |
| `_handle_ukipo_session_completed` | `_handle_ukipo_session_completed`, `CardProof`, `CardFiled`, `CardProofFails`, `Redelivered` |
| Stripe, the tab, the chain, the process, the database | `SessionEnds`, `KeyForgotten`, `TabClosed`, `ChatProofFails`, `Crash`, `OutcomeUnwritten` |

`UkipoForm` gives the outcomes of each of the robot's fourteen steps from the page
the form is really on, a step with several fields being composed of the outcomes of
filling each kind of field: the robot enters data, clicks, and reads an error summary,
which it may fail to see; so it can run ahead of the form, and the next step then
does not find its control, except where the code has a fallback. `CheckboxPages`
are the pages on which the fallback of `_step_confirm_bottom_option` finds a box to
tick. `prepared` is a ghost: some robot has carried the form through. `wallets`
have one transfer of either kind at a time, `records` is keyed by user and query
hash as the program derives its address, and `Fault` bounds crashes, lost answers
and failing services together. A robot that cannot begin, for want of a setting or of a
browser, fails the row (`_mark_failed`); one whose first read or last write of the row
fails ends with the row as it is (`OutcomeUnwritten`); its progress may be lost
at every step (`_update_step` swallows the failure). With `VerifierEnabled` false a card
files without a record on chain, which `FiledIsPaidAndProved` says and the ledger,
whose filings are proved, does not allow.

Left out: the data in the form, artifacts and screenshots, prices, the verification
of a transfer beyond "found", and the operator's own click at the office after
filing.

### `UkipoLedger.tla` — what the UK lane promises

Nobody can pay before a robot has completed the application; a filing names money
that was received and proved; nothing is undone. `UkipoFiling` implements it under
the mapping at its end: payments are wallets (by their chat transfers) and card
sessions, proofs are the records on chain read back to the payment in their
address.

### `OrgBilling.tla` — the plan of one organization

| Code | Actions |
|---|---|
| `_resolve_billing_org`, `create_subscription_checkout`, `ensure_customer` | `_resolve_billing_org`, `ensure_customer`, `create_subscription_checkout` |
| `create_billing_portal_session` and the portal | `create_billing_portal_session` |
| `stripe_webhook`, `handle_subscription_event`, `_find_org_for_subscription` | `handle_subscription_event`, `_find_org_for_subscription` |
| `_apply_subscription_to_org` | `_apply_subscription_to_org`, with `Stale`, `Revoked`, `PlanFor` |
| a handler that fails: 500 and a repeat | `HandlerFails` |
| Stripe | `SessionCompleted`, `SubscriptionChanges` |

`customer.subscription.*` events carry the subscription as it was; checkout and
invoice events make the handler retrieve it as it is. Both are `Event`. A handler
loads the row (`copy`), and writes only the columns whose value differs from what
it loaded. `was` is the history of all subscriptions, a ghost. Three prices and
eight statuses are reduced to those the code tells apart.

### `Renewal.tla` — the renewals of one trademark

One unit of time is a night. Each cycle has one intent, found by an idempotency key
that names case and cycle.

| Code | Actions |
|---|---|
| `create_renewal_checkout`, its commit | `create_renewal_checkout`, `OpenSession`, `SessionRefused`, `CheckoutCommit` |
| expired, failed, refunded events | `StatusEvent`, `StatusCommit` |
| `_handle_renewal_session_completed` | the action of that name: it always fails (section 5) |
| `reconcile_session` | `reconcile_session`, `ReconcileCommit` with `mark_case_renewed` |
| `scan_and_dispatch_due_reminders`, `detect_open_window`, `_record_reminder`, the commit | `scan_and_dispatch_due_reminders`, `dispatch_renewal_reminders` |
| a request or a job that dies | `RequestDies`, `JobDies` |
| the scheduler, Stripe, the owner | `Night`, and the actions of `Stripe` |

Left out: calendar arithmetic (a term is a number of nights, so the fallback for
29 February is not seen), the texts of reminders, and prices.

### `Braid.tla` — the audit hooks inside other flows

A hook runs in the transaction of the flow it serves, so the rows it writes stay
locked until that flow commits. `tx` is what each request has written, and
`BudgetFree` and `WeightFree` are the waits for a row lock. An UPDATE writes the
columns that differ from what was loaded.

| Code | Actions |
|---|---|
| a case, proposal, submission or application calls its hook | `Begin`, `Hook`, `AutoProposal` |
| `consume_budget` | `CreateBudget`, `LoadBudget`, `RollWindow`, `LoadWeight`, `InsertWeight`, `consume_budget` |
| `call_capability`, `_audit`, `update_weight_from_outcome` | `Handler`, `_audit`, `update_weight_from_outcome` |
| `record_feedback` | `record_feedback` |
| the end of the request | `Commit`, `Abort`, `GiveUp` |
| a unique constraint, a deadlock | `DuplicateWeight`, `Poison`, `DeadlockVictim` |
| the budget's window | `WindowEnds` |

Weights are log-odds in thousandths; `overlapped` is a ghost that names the
capabilities that were graded while in use. The capabilities that the external
agent calls are not modelled, except that they may have left decisions to grade.

### `AgentTurn.tla` — one chat session

A turn runs in its request's transaction and holds the session's row from its first
flush (`append_user_message`) to its commit (`Reply`), the calls of the language
model included; a tool commits in a session of its own. A message is made, and
stamped, before its request waits for the row, so it sorts into the turn that
holds it: `log` is ordered by time and contains rows not committed yet, and
`Visible` is what a request sees of it.

| Code | Actions |
|---|---|
| `send_message_endpoint` up to the flush, the flush | `Send`, `append_user_message` |
| `_load_history`, `_to_llm_messages` | the operators `SeenRows`, `_load_history`, `Kept`, `Shown`, `paired`, `Cuts`, `_to_llm_messages` |
| the loop of `run_turn` | `AskModel`, `PersistCall`, `Duplicate`, `PersistChain`, `ChainResult`, `Exhausted` |
| tools that change something | `create_case_draft`, `prepare_payment`, `validate_uploaded_document`, `mark_validated` |
| every other tool, refusals included | `OtherTool` |
| the title, the token totals, the commit | `Reply` |
| an exception, a disconnect, a crash | `Abort` |
| other endpoints | `rename_session`, `soft_delete_session`, `store_upload`, `cancel_upload` |
| a payment is confirmed (`FilingPayment`) | `_push_chat_confirmation` |

A message has the size one, so that the cap on the prompt's characters is a number
of messages; `lost` is a ghost: the draft was last written by a turn that was cut
off. Left out: the truncation of a long result, what the reading tools answer, and
prices. The ownership proof of an upload is in `CaseDocuments`.

### `ZkVerifier.tla`, `PaidQuery.tla`, `CaseDocuments.tla`, `ProofRequests.tla` — who has a proof recorded

`ZkVerifier` has the program's records by their address (seed, wallet, content), the
transactions the node has taken, and `told`, the addresses a client was told of.
The simulation of a transaction and its landing are two steps, so two transactions
for one address may both be taken and the later one fails on chain. `PaidQuery` and
`CaseDocuments` use its requests and its `Send`; `ProofRequests` puts the three side
by side over one chain.

| Code | Actions |
|---|---|
| the program's three verifying instructions and their replay guards | the operators `verify_proof`, `verify_file_ownership_proof`, `verify_compliance_proof` |
| sending and waiting for a status | `Send`, `Land`, `Drop`, `Unconfirmed`, `SendFails` |
| the sponsored endpoints and their client | `submitProofOnChain`, `proveDocumentOwnershipOnChain`, `ProofAlreadyRecorded`, `SubmitSucceeds`, `SubmitFails` |
| the paid question | `Ask`, `CacheHit`, `CacheMiss`, `ProofSubmitted`, `ProofRefused`, `ProofFails`, `AnswerFails`, `Answer` |
| an upload to a case or to a chat | `Upload`, `UploadToSession`, `UploadCommits` |
| a proof is attached | `Attach`, `AttachEnds` |
| review and cancellation | `Review`, `Cancel`, `CancelUpload`, `UpdateDocument`, `DocumentCommits` |
| required documents | `Generate`, `GenerateCommits`, `Regenerate`, `RegenerateCommits` |

`harmed`, `crossed` and `stale` are histories: a question whose request failed after
payment, one that two requests took for new, a requirement that a request wrote
after another had relinked it. Secret and commitment are functions of wallet and
content, as the client derives them; a pairing check is a choice of valid or not.
Left out: prompts, countries, amounts, scans and files.

### `Accounts.tla`, `Organizations.tla`, `Agreements.tla`, `Notices.tla`, `ClientRecords.tla` — what is kept of a client

*Atomicity.* A request loads the rows it is about (`saw`), awaits, and writes at the
end the columns whose value differs from the loaded one. The calls of Redis are
synchronous and the API is one process (`services/api/Dockerfile` starts uvicorn
without workers), so look-up and deletion of a code or a challenge are one step.
An UPDATE waits for the request that has written the row (`Free`, `Erasing`).

| Code | Actions |
|---|---|
| registration, with and without a code; guest cases | `register`, `register_request`, `register_verify`, `create_user`, `link_guest_cases`; `OtpExpires` |
| sign-in with a wallet | `request_wallet_nonce`, `verify_wallet_signature`, `authenticate_or_create`; `NonceExpires` |
| the second factor | `begin_enrollment`, `enable`, `disable`, `verify_second_factor`, then `FactorCommits` |
| profile, avatar, the administrator's changes | `update_user`, `upload_my_avatar`, `delete_my_avatar`, `update_by_admin`, then `ProfileCommits` |
| cases, as far as accounts depend on them | `create_case`, `CaseCommits`, `create_case_for`, `update_case` |
| a draft at checkout and its promotion (`FilingPayment`) | `prepare_payment`, `promote_draft_and_setup_nft` |
| organizations | `create_organization`, `OrganizationCommits`, `switch_default_organization`, `SwitchCommits` |
| invites | `create_invite`, `accept_invite`, `revoke_invite` and `InviteCommits`, `AcceptCommits`, `RevokeCommits`; `InviteExpires` |
| proposals | `generate_proposal`, `ProposalCommits`; `send_proposal`, `respond_to_proposal`, `StatusCommits` |
| a signature request and its four calls | `create_signature_request`, `ProviderCall`, `ProviderRefuses`, `SignatureFails`, `SignatureCommits` |
| the signer, and the webhook | `Decide`; `yousign_webhook`, `handle_webhook`, `HookCommits`, `HookFails` |
| notices | `create_notification`, `NoticeCommits`; `update_notification`, `UpdateCommits`; `Due` |
| the processing of notices | `process_notifications`, `get_pending_notifications`, `Send`, `Mark`, `Again`, `ProcessCommits`, `ProcessFails` |
| erasure | `erase_user`, `EraseRecords` (the DELETEs), `EraseCommits` (the tombstone) |

`spent` and `again` are histories of what may be used once; `crossed` names what a
request wrote after another one had changed what it had read, or after the erasure
it did not see. The properties allow for exactly these, so they say that nothing
*but* such a crossing breaks the rule: the code locks no row here.

An administrator opens a case for any account, erased ones included
(`cases/router.py:163`), which `crossed` records like every other write of an
administrator. A draft at checkout is a case to come (status `draft`): it blocks no
erasure, and when its payment arrives afterwards the webhook opens a case of the erased
user without a look at the account (`compliance/service.py:507`). `ErasedStaysErased`
therefore speaks of cases `OpenedByHand`; that an erased account has no open case is
refuted (section 5). A system administrator may act on an organization without being a
member (`Admin`), and a recovery code also turns the second factor off (`disable`).

Left out: passwords and tokens (no state), texts, files and their scans, the deleted
chat messages, uploads and case notes of an erased user, and the read-only export.

### `EuipoSession.tla` — the calls to EUIPO

*Atomicity.* An action is the code between two awaits that leave the process or wait
for one of its three locks: the limiter's (kept while a call sleeps), the one of the
application's token and the one of the operator's session (both kept during the
exchange at EUIPO). A login takes none of them, and the bootstrap script is another
process, so `login` is independent of the calls.

| Code | Actions |
|---|---|
| the methods of the client, `_authed_request` | `search_trademarks`, `search_designs`, `search_terms`, `create_application`, `SendRequest`, `RetryRequest` |
| `SlidingWindowLimiter.acquire` | `acquire`, `Awake` |
| `get_client_credentials_token`, `invalidate_token` | `UseCached`, `LockCache`, `get_client_credentials_token`, `FetchFails` |
| `get_user_token`, the exchange, `_store_user_token`, `_delete_user_token` | `UseSession`, `NoUserSession`, `get_user_token`, `RefreshExchanged` / `RefreshRefused` / `RefreshLost`, `StoreRefreshed`, `_delete_user_token`, `CommitFails` |
| the login endpoint and the bootstrap script | `exchange_authorization_code`, `StoreLogin`, `LoginFails` |
| time, EUIPO, a restart | `SessionAges`, `CacheAges`, `SessionRevoked`, `Restart` |

Refresh tokens are numbered as EUIPO issues them; `good` are those it accepts. It may
answer a refresh with a new one, which uses up the old one, and may end the operator's
earlier sessions at a login; whether it accepts an access token is its own choice.
`lost` is a history: since the last login an answer was lost, EUIPO refused a token it
accepts, or a refresh wrote over a row it had not read. In `ClientRecords` the calls
are a lane of their own: they share no row with the clients.

### The MC modules

They add the symmetry sets for TLC (used only in the run without liveness
properties, where requests and sessions are interchangeable), and the constants
that are not model values: the form's stray checkboxes, log-odds that one or two
outcomes reach, and the calls the model may make.

## 4. Runs

| Run | Instance | Shows |
|---|---|---|
| `PaymentConcurrent.cfg` | 2 requests, 1 session, verifier enabled, and two of an edit, a rollback, a lost answer | `PaidBeforeActing`, `RefundsBacked`, `NoPhantomFiling`, the refinement `ImplementsLedger` |
| `PaymentRecorded.cfg` | 1 request at a time, 2 sessions, verifier switched off, and one of an edit, a rollback, a lost answer | `FiledOnceInBooks`, `OneConfirmationPerPayment`; liveness: a captured payment is recorded (`PaymentIsRecorded`) |
| `NftCatchesUp.cfg` | 2 processes, 2 mints, the set-up of a promotion or of an attestation, 2 patches, a lost answer, a restart | `RowFollowsChain`; liveness: a claim reaches the row by its request or its event (`MintReachesRow`) |
| `EventsRecorded.cfg` | 3 processes, 2 updates, 2 lost answers | `AttestationTxIsCreation`; liveness: `EventIsRecorded` |
| `UkipoOneRobot.cfg` | 1 run request at a time, 2 robots, 1 wallet with 2 transfers, 1 card session, 1 repeat, 1 fault | `FiledIsPaidAndProved`, `RunningHasRobot`, the refinement `LedgerSpec`; liveness: `PaidIsFiled` |
| `BillingSequential.cfg` | 1 checkout and 1 delivery at a time, 2 subscriptions, 2 customers, 3 changes, 1 repeat | `RowWasReal`, `PortalReachesSubscription`; liveness: `PaidGetsPlan` |
| `RenewalPaid.cfg` | 1 request, the job and the webhook, 2 sessions, 2 cycles, 1 fault | `RenewalsArePaid`, `BooksAgree`, `OverdueIsReminded` |
| `RenewalWebhook.cfg` | 1 request, 1 session, nobody returns to the success page | violated: `PaidIsRenewed` (section 5) |
| `BraidShared.cfg` | 2 requests, 1 grade, a budget of 2 calls, 1 window that ends, 1 request that fails | `CallsAreSerial`, `WeightFollowsDecisions`; liveness: `RequestReturns` |
| `ChatTurns.cfg` | 2 messages, 1 mark and the empty one, 2 tool calls, both in one answer or one each, 2 iterations, a window of 6 rows, a context of 4 messages, 1 request cut off, 1 other action of the user | `PromptIsPaired`, `TurnIsRemembered`, `DraftIsAsShown`; liveness: `MessageIsAnswered` |
| `ProofRequests.cfg` | 2 requests at a time and 3 in all, 2 wallets, 1 content, 2 documents, 3 keys of requirements, 1 fault | `ReportedIsOnChain`, `OneAnswerUnlessCrossed`, `RequirementFollowsDocument`; liveness: `PaidIsAnswered` |
| `ClientRecords.cfg` | 2 requests at a time and 3 in all, an account with an e-mail and one of a wallet, 1 case, 2 organizations, 1 invite, 1 proposal, 1 signature, 2 notices, 1 fault; or 2 calls to EUIPO, 1 login, 1 fault | `ErasedStaysErased`, `SecondFactorHolds`, `TakenOnce`, `NoticeIsAsRecorded`, `SessionIsKept`, the action property `OutcomeStands`; liveness: `SignedReachesRow`, `CallReturns` |

The type invariants are proved (section 6), that of `Renewal` for one request at a
time; they, and the following, hold on the instances above and no run checks them
again: `OnlyEditReopens`
(`FilingPayment`, on the instance of `PaymentRecorded.cfg`), `RecordsAreAudited`
(`Braid`), with a single process, three mints and three set-ups, `MintAgrees`,
`NoSpareMint` and `TokenKept` (`CaseNft`), and the liveness property `BurnReachesRow`
(`CaseNft`). All but the last are proved, those of `FilingPayment` and `CaseNft` of one
request or process at a time.

*Why these bounds.* A race needs two requests, an interference by an older
session needs two sessions, and the other hazards need one edit, one rollback
or one lost answer. `PaymentRecorded` has one request at a time: with two, a
stale `CheckoutCommit` can write `awaiting` over the confirmed status. It has two
sessions and one trouble, an edit, a rollback or a lost answer, which decide whether
a retry ends; with the verifier enabled it passes too, in the full five minutes. The concurrent run has one session so that two
interleaved pipelines and two troubles fit (five million states); the theorems cover every size. `rows`, `apps` and `chat` need no bound of their own: a pipeline
that files has a payment, and filing by the tool stops once a row is committed.
Deadlock is not checked because a draft that is settled, or whose edits are
used up, has nothing more to do.

For the token, two overlapping processes take two mints: one may be made in vain.
`MaxSetups` counts a promotion as well as recorded attestations; `NftCatchesUp` has one set-up, because its liveness fails with two (section 5: the
second set-up writes over the token); `RowFollowsChain` is proved for any number. Two patches are
the least that close and reopen a case. Three processes in `EventsRecorded` let
two requests and a delivery of the same update overlap. One case at a time is
enough: neither module couples two cases.

For UKIPO one wallet that pays twice and one card session are two lanes and a
repeat; the second robot lets a failed run be started again after a restart or
while its predecessor's entry is forgotten. A second wallet exceeds a million
states, and the proof covers any number. With two run requests two robots may run
(section 5), and what the run then checks is false.

For billing, one subscription that replaces another needs two, three changes are
activation, end and one more, and a repeat delivers an old event late. For
renewals, two sessions are what one cycle needs to be paid twice and two cycles
what a stale one needs; two windows and a term of two nights make every reminder
due, late or passed over within three nights. `RenewalPaid` has one request beside
the webhook and the job: with two, a stale checkout may write over the books
(section 5).

For Braid, two requests are what collides on a row, and a budget of two reaches
both pressure and exhaustion. For the chat, two messages overlap; two calls are one
draft and its payment, with the chained search between them and the window and the
context small enough to cut through them. Three calls exceed several million states
with two messages; the statements that need three (section 5) were refuted with one
message.

For the proofs, two requests race for one record, the third is a retry or a later
question; two wallets are what a swapped address would show, and the third key of a
requirement is what a regeneration needs beside a duplicate.

For the clients, each behaviour serves the requests of one lane (accounts,
organizations, agreements, notices or the office's at EUIPO: `Lane`) and the erasure of an account, which
is where the lanes meet; within a lane any two of its requests interleave. The lanes
share no row but the account, of which the last three read whether it is active and
write the default organization, so that no lane decides on what another writes.
Members come from both accounts; agreements and notices are those of one, because
nothing relates them to those of another. Three requests are a race and a later use
of what it left; two notices let one
request mark several rows before it commits, and one that fails take both back. A
second organization is what makes two slugs collide. Two calls to EUIPO, with a window
of one call for each flow, wait for the window and for each other's refresh; a login
can cross both.

*The safety properties of `PaymentRecorded`* are false when requests interleave, and
`FilingPayment` says so where they are stated: the tool and the pipeline check
for a submitted attempt without a common lock, and a stale checkout can write
over a settled row. That they hold otherwise is the design the code aims at.

*Fairness.* `SF` on the steps of a request that has begun: the event loop
schedules every ready coroutine, remote calls have timeouts, and PostgreSQL
grants a row lock in the order it was asked for — strong, because another
request may hold the row in between. `SF` on the delivery of a completed event
that was not acknowledged: Stripe re-sends it for days. `PaymentIsRecorded`
needs both; rollbacks are bounded by `MaxAborts` (a crash on every delivery would
defeat any retry). Nothing is assumed of customers, edits or other events.

In `CaseNft` and `CaseAttestation`: `WF` on a process that has begun; `SF` on
starting a scheduled task (the event loop starts it as soon as it runs) and on
the delivery of an event not yet answered with 200 (Helius retries; strong because
in the model all processes may be busy in between). An event answered is not an event
applied: one that fails is answered too, at any time and without a bound, so
`MintReachesRow` and `EventIsRecorded` allow for a transaction both of whose reporters
failed, the request and the event, and for nothing else. Restarts and lost answers are
bounded, clients and administrators are free to do nothing.

In the other modules `WF` is enough, because nothing but the step itself ends what
it waits for, or everybody who holds it is under the same assumption:
`UkipoFiling` on run requests, robots, confirmations and card events (asyncio runs
what is ready, Playwright and RPC calls time out, Stripe sends again);
`OrgBilling` on the webhook; `Renewal` on requests that have begun and on Stripe's
delivery; `Braid` on every request (calls of a handler time out and PostgreSQL ends
a deadlock, whose victim is chosen by `DeadlockVictim`); `AgentTurn` on the turn
that holds the row (a model call ends after 120 seconds and a tool's exception is
its result) and on the request that waits for the row, of which there are finitely
many; `ProofRequests` on every request that has begun (RPC calls time out), and on
transactions, which land or expire with their blockhash; `ClientRecords` on requests
about agreements and on erasure, and on the webhook (Yousign delivers again until it
is answered with 200), and on calls to EUIPO (requests have timeouts, and a sleep of
the limiter ends). Nothing is assumed of wallets, signers, administrators or of
whoever processes notices: a script and a button of the dashboard call that endpoint.

## 5. Disagreements with the code's own statements

`RenewalWebhook.cfg` shows one that everybody meets: `_handle_renewal_session_completed`
uses the name `Case`, which `payments/service.py` does not import, so every delivery
fails after it has confirmed the intent, and is rolled back. A renewal takes place
only if the owner returns to the success page. The quoted line is in `PROJECT.json`
under `findings`.

The statements below are refuted by the models and have no run of their own. The
definitions are kept at the end of their modules, and each counterexample is short;
to see one, name the definition as `INVARIANT` or `PROPERTY` in a configuration with
the bounds given (one process unless said otherwise, other bounds zero; in
`FilingPayment` `EagerPaymentIntent` false, the other flags true).

| Definition | Statement | What happens | Bounds |
|---|---|---|---|
| `ConfirmedNeverFails` (`FilingPayment`) | `payments/service.py:1111`, on a terminal intent: "no-op" | the expired and failed handlers test the status without the row lock; their UPDATE waits behind the pipeline and lands on the confirmed row | 2 requests, 2 sessions |
| `ConfirmationAdvancesDraft` (`FilingPayment`) | `payments/service.py:1289`: "Advance the draft so subsequent submit_filing knows payment is done" | an edit sets the draft back to `validated` while the customer is on the Checkout page; the confirmation leaves it and skips the filing, and it can be paid again | 1 session, 1 edit |
| `FiledOnce` (`FilingPayment`) | `agent/filing_service.py:100`: "never spend another EUIPO API call on an already-filed draft" | the attempt row is committed with the pipeline; a rollback after EUIPO accepted loses it and the repeated event files again | 1 session, 1 rollback |
| `NothingFiledAfterRefund` (`FilingPayment`) | `agent/filing_service.py:133`: "submission requires status='paid' (payment confirmed)." | a refund changes the intent and not the draft, whose status is all that the filing tool asks | 1 session |
| `CheckoutHandsOutOpenSession` (`FilingPayment`) | `payments/service.py:193`: "re-uses the Stripe session if it is still open, otherwise creates a fresh one" | the re-use branch asks for a status no row with a session has; the fixed idempotency key replays a session that has expired | 2 sessions |
| `SetupKeepsToken` (`CaseNft`) | `cases/service.py:355`: "Safe to call once; subsequent calls no-op when nft_state != none." | a promotion and an attestation each schedule one; both read `none` before the subprocess, and the later writes its mint over a token that may be claimed | 2 processes, 2 mints, 2 set-ups |
| `SetupFindsCase` (`CaseNft`) | `compliance/service.py:531`: "We commit the case row first via the caller's outer transaction, then the scheduled coroutine opens its own session." | the task runs while its request still awaits other calls, finds no case and ends | 1 mint, 1 set-up |
| `RedeliveryIsNoOp` (`CaseNft`) | `docs/HELIUS_WEBHOOK.md:26`: "Re-delivery is a no-op." | the minted event delivered again after the burn writes `minted` over `burned` | 1 mint, 1 set-up, 1 patch |
| `MintedEventBindsWallet` (`CaseNft`) | `docs/HELIUS_WEBHOOK.md:24`: "mint → `nft_state=minted`, `nft_mint`, `nft_mint_tx`, `client_wallet`" | after `record_nft_claim` the event is in sync and skipped; without a wallet the token is never burned | 1 mint, 1 set-up |
| `BurnOnlyClosed` (`CaseNft`) | `programs/etornie-ip-token/src/lib.rs:100`: "the backend must enforce that precondition off-chain before invoking." | closed and reopened before the scheduled burn runs | 1 mint, 1 set-up, 2 patches |
| `ClosedIsBurned` (`CaseNft`, under `FairSpec`) | `README.md:127`: "When a case transitions to `closed`, the NFT is automatically burned by the operator" | closed while the token waits for its claim, claimed afterwards | 1 mint, 1 set-up, 1 patch |
| `WebhookAddsFirstRow` (`CaseAttestation`) | `solana/events.py:286`: "a re-delivered webhook does not duplicate the CaseEvent row." | a delivery that found no row commits after the request recorded the update | 2 processes, 1 update |
| `AttestationIsRecorded` (`CaseAttestation`, under `AttestationFairSpec`) | `docs/HELIUS_WEBHOOK.md:3`: "This webhook closes the gap" | creating an attestation emits no event, the back-fill needs an update event, an update is refused while the row shows no attestation, and creating it again is refused by the program | 1 lost answer |
| `WebhookClosesGap` (`CaseNft`, under `FairSpec`) | `docs/HELIUS_WEBHOOK.md:3`: "This webhook closes the gap" | the answer to the claim is lost, reconciling its event raises, and the webhook answers 200 | 1 mint, 1 set-up, 1 lost answer |
| `UpdateIsRecorded` (`CaseAttestation`, under `AttestationFairSpec`) | the same, of an update | the same | 1 update, 1 lost answer |
| `ErasedHasNoOpenCase` (`ClientRecords`) | `users/router.py:337`: "refused with 409 + the blocking cases if the subject has an active legal proceeding" | a draft at checkout is no case yet and blocks nothing; it is promoted when it is paid after the erasure | the bounds of `ClientRecords.cfg` |
| `RetryReusesRecord` (`UkipoFiling`) | `agent/router.py:374`: "Reuse the existing on-chain record so a retry from the user does not double-submit." | the stored address is empty when the answer was lost; the retry proves again and meets the replay guard | 1 wallet, 1 fault |
| `OneRobot` (`UkipoFiling`) | `services/ukipo/service.py:47`: "Lets the run endpoint refuse a duplicate kick-off" | two requests pass the check before either has committed, and the table is filled in later | 2 run requests, 2 robots |
| `Converged` (`OrgBilling`) | `payments/subscription_service.py:417`: "so out-of-order webhook delivery still converges" | subscription events are applied with the payload they carry; the last one delivered wins | 1 subscription, 2 changes |
| `PayingKeepsPlan` (`OrgBilling`) | `payments/subscription_service.py:366`: "must never downgrade a paying org" | an older event makes the replaced subscription the tracked one again, and its end takes the plan | 2 subscriptions |
| `OneChargePerCycle` (`Renewal`) | `renewals/router.py:190`: "so a duplicate click does not double-charge" | a second click after the key is forgotten opens another session of the cycle | 2 sessions |
| `NoReminderAfterRenewal` (`Renewal`) | — (what the job is for) | the scan reads the case before a renewal commits and records a reminder of the old date afterwards | the request and the job |
| `HookIsHarmless` (`Braid`) | `braid/hooks.py:7`: "The hook MUST NOT propagate failure"; `proposals/service.py:71`: "Failure must not roll back proposal generation." | two first calls of a capability insert its weight; the loser's transaction is aborted, and swallowing the exception does not revive it | 2 requests |
| `BudgetBoundsCalls` (`Braid`) | the column `daily_call_budget` | two first calls make two budget rows, or both decide on a row read before the wait | 2 requests |
| `HealthyRuns` (`Braid`) | the pressure and skip thresholds | a skipped call is audited as a failure and lowers the weight that had it skipped | a spent budget |
| `DraftWasSearched` (`AgentTurn`) | `agent/orchestrator.py:606`: "force a trademark_search BEFORE the user is asked to pay" | the turn is cut off after the tools committed: draft and payment stay, the search is gone from the chat | 1 message, 2 calls, 1 cut-off |

`PaymentIsRecorded` has a proviso for another session of the draft, without which it
is refuted with two sessions: `payments/router.py:247` says "never silently swallow
failures that could leave a PaymentIntent stuck in 'awaiting' forever", but the
expired event of an older session makes the shared intent terminal, and the completed
event of the paid one is answered 200. With `EagerPaymentIntent` one session is enough: the
event of a declined card finds the row, makes it terminal, and the payment that the
customer then makes on the same page is not recorded; the same proviso names it.

The provisos `crossed`, `harmed`, `stale` and `missed` of `ProofRequests` and
`ClientRecords` mark the same kind of disagreement:

- `etorniegpt/router.py:313`: "so the user never pays twice for the same question +
  wallet pair"; the look-up of a stored answer comes after a payment was made and
  verified.
- `documents/service.py:72`: "Cancel a document (soft-delete). Irreversible."; a
  review that was under way revives it, and marks its requirement with it.
- Two requests that generate the required documents of one case both find none and
  make them twice; each later upload for that kind then fails on two matching rows.
- `users/router.py:336` calls the erasure irreversible; an administrator's PATCH may
  set the account active and give it a phone number again, or open a case for it, and a
  request in flight
  writes columns that the tombstone has skipped because they were read as empty.
- `auth/totp_service.py:36` refuses "to silently overwrite a live secret"; an
  enrollment that began before the enabling does.
- `esign/service.py:230`: "the signed document is only stored once"; two deliveries
  at a time store it twice. A webhook that comes before the row is committed is
  answered with 200 and not repeated.
- `notifications/scheduler.py` sends and marks notices one by one, and the request
  commits them: what was sent before a failure is sent again.
- The docstring of `_slugify` in `organizations/router.py` speaks of a retry loop on
  the unique constraint; the INSERT of the slower request fails instead.

Two more about EUIPO: the docstring of `EuipoAuthError` (`services/euipo/auth.py:90`)
speaks of 4xx, but any status from 400 on, a 503 too, deletes the operator's session;
and a 401 for a filing is retried with the same stored token, although
`services/euipo/client.py:130` says that it is refreshed: only the application's token
is dropped from its cache.

Other hazards that the models show and no comment speaks of. A trademark renewed more
than a whole term late gets a date that has passed again, and a case that was not
scanned for longer than the largest window is scanned no more: neither is reminded of
(`renewals/service.py:266`; `OverdueIsReminded` excludes both). With two deliveries at
a time `RowWasReal` fails (columns of two states are mixed), with two checkouts
`PortalReachesSubscription` (the column keeps the other customer), with two
requests `BooksAgree`, `RenewalsArePaid`, `FiledOnceInBooks` and `OnlyEditReopens`, and,
if the draft also has two sessions, `OneConfirmationPerPayment` (a late checkout takes the
marker away). `WeightFollowsDecisions` needs its
proviso: a grade given while its capability is in use loses one of two updates,
although `braid/internal.py:59` wants audit and weight in lockstep. In the chat, with
the bounds of `ChatTurns.cfg` or, for three and four calls, with one message: a
draft that was validated and then overwritten with an empty mark can be paid; the
memo of a turn answers A for a draft that A, B and A were asked of and that is B;
overlapping messages lose token updates (`agent/service.py:160` speaks of an atomic
one), and a name the user chose while a message waited; a cancellation during the
vision call is overwritten although the file is gone; a turn may run on a deleted
session; and a message, or a payment's confirmation, that sorts into a running turn
can push that turn's own results out of its next prompt ("The current user message is
always preserved", `agent/orchestrator.py:176`). `notifications/email_dispatcher.py:115`
shares one session between a job and its mail tasks, so a run may fail after it has
mailed and mail again. A case's number is a count plus one (`cases/service.py:27`), so
that two promotions at once collide; `cases/router.py:686` relies on background tasks
that start after the commit, which later releases of FastAPI changed.

## 6. Proofs

For every set of sessions, requests, mints, updates, wallets, robots,
subscriptions, users, notices, calls and messages, and every bound:

| Theorem | States |
|---|---|
| `FilingPaymentProofs!Invariance` | `Spec => []IInv` |
| `FilingPaymentProofs!TypeCorrect` | `Spec => []TypeOK` |
| `FilingPaymentProofs!NothingBeforePayment` | `Spec => []PaidBeforeActing` |
| `FilingPaymentProofs!RefundsAreBacked` | `Spec => []RefundsBacked` |
| `FilingPaymentProofs!NoCaseWithoutProof` | `Spec => []CaseHasProof` |
| `FilingPaymentProofs!LaneImplementsLedger` | `Spec => ImplementsLedger` |
| `FilingPaymentProofs!EveryRowWasFiled` | `Spec => []NoPhantomFiling` |
| `FilingPaymentProofs!AloneFiledOnce` | with a single request, `Spec => []FiledOnceInBooks` |
| `FilingPaymentProofs!AloneConfirmedOnce` | with a single request, `Spec => []OneConfirmationPerPayment` |
| `FilingPaymentProofs!AloneOnlyEditReopens` | with a single request, `Spec => OnlyEditReopens` |
| `CaseProofs!TypeCorrect` | `Spec => []TypeOK` |
| `CaseProofs!RowIsBacked` | `Spec => []RowFollowsChain` |
| `CaseProofs!OneAtATimeKeepsToken` | with a single process, `Spec => []MintAgrees /\ TokenKept` |
| `CaseProofs!OneAtATimeWastesNothing` | with a single process, `Spec => []NoSpareMint` |
| `CaseProofs!AttestationTypeCorrect` | `AttestationSpec => []AttestationTypeOK` |
| `CaseProofs!RecordsAreBacked` | `AttestationSpec => []RecordsAreOnChain` |
| `CaseProofs!BackfillIsDead` | `AttestationSpec => []AttestationTxIsCreation` |
| `UkipoFilingProofs!TypeCorrect` | `Spec => []TypeOK` |
| `UkipoFilingProofs!FiledPaidProved` | `Spec => []FiledIsPaidAndProved` |
| `UkipoFilingProofs!SomebodyRuns` | `Spec => []RunningHasRobot` |
| `UkipoFilingProofs!LaneImplementsLedger` | with a single run request and the verifier enabled, `Spec => LedgerSpec` |
| `UkipoFilingProofs!AloneOneRobot` | with a single run request, `Spec => []OneRobot` |
| `BillingProofs!TypeCorrect` | `BillingSpec => []BillingTypeOK` |
| `BillingProofs!MirrorIsSound` | with a single handler, `BillingSpec => [](RowWasReal /\ RevokedHasNoPlan)` |
| `BillingProofs!PortalIsOfSubscription` | with a single buyer, `BillingSpec => []PortalReachesSubscription` |
| `BillingProofs!OwnerIsTold` | `Spec => []OverdueIsReminded` |
| `BillingProofs!OneRequestKeepsBooks` | with a single request, `Spec => [](TypeOK /\ BooksAgree /\ RenewalsArePaid)` |
| `BillingProofs!OneRequestIsPaid` | with a single request, `Spec => []RenewalsArePaid` |
| `BraidProofs!TypeCorrect` | `Spec => []TypeOK` |
| `BraidProofs!OneCallAtATime` | with finitely many requests, `Spec => []CallsAreSerial` |
| `BraidProofs!WeightsFollow` | with finitely many requests, `Spec => []WeightFollowsDecisions` |
| `BraidProofs!EveryRecordIsAudited` | with finitely many requests, `Spec => []RecordsAreAudited` |
| `AgentTurnProofs!Invariance` | `Spec => []IInv` |
| `AgentTurnProofs!TypeCorrect` | `Spec => []TypeOK` |
| `AgentTurnProofs!PromptsArePaired` | `Spec => []PromptIsPaired` |
| `AgentTurnProofs!TurnsAreRemembered` | `Spec => []TurnIsRemembered` |
| `AgentTurnProofs!DraftsAreAsShown` | `Spec => []DraftIsAsShown` |
| `ProofRequestsProofs!ReportsAreTrue` | `Spec => []ReportedIsOnChain` |
| `ProofRequestsProofs!AnswersAreSingle` | `Spec => []OneAnswerUnlessCrossed` |
| `ProofRequestsProofs!RequirementsFollow` | `Spec => []RequirementFollowsDocument` |
| `ClientRecordsProofs!TypeCorrect` | `Spec => []TypeOK` |
| `ClientRecordsProofs!FactorHolds` | `Spec => []SecondFactorHolds` |
| `ClientRecordsProofs!AnswersStand` | `Spec => OutcomeStands` |
| `ClientRecordsProofs!NothingIsTakenTwice` | `Spec => []TakenOnce` |
| `ClientRecordsProofs!ErasureHolds` | `Spec => []ErasedStaysErased` |
| `ClientRecordsProofs!NoticesAreAsRecorded` | `Spec => []NoticeIsAsRecorded` |
| `ClientRecordsProofs!OfficeKeepsSession` | `Spec => []SessionIsKept` |

`CaseProofs` extends both `CaseNft` and `CaseAttestation`, whose constants and variables
are apart; each machine is proved about under its own specification. In the same way
`BillingProofs` extends both `OrgBilling` and `Renewal`; the names of `OrgBilling` that
would clash carry its own prefix (`BillingSpec`, `BillingTypeOK`).

*Assumptions.* `NoMint \notin Mint`; the names "none", "create" and `NoUpdate` are not
updates (`UpdateAssumption`); `NoSession \notin Session`, `NoProc \notin Proc`, the bounds are
natural numbers and the flags are Boolean. `UkipoAssumption` and `BillingAssumption`
say the same of wallets, sessions, tasks, subscriptions and `NULL`, and
`CheckboxAssumption` that stray checkboxes are on pages of the form. `NoUser`, `NoOrg`
and `NoDoc` are not users, organizations or documents; there are finitely many
organizations (`OrgAssumption`), without which a free slug need not exist, and at least
one document, which the initial state names (`SomeDocAssumption`). A mark is not
`Blank`, the limits of the chat's loop, window and cap are at least one
(`AgentAssumption`), and what the model may ask for are calls (`AskedAssumption`). TLC evaluates
them in every run. The theorems named `Alone...` and `OneAtATime...`, `MirrorIsSound`,
`PortalIsOfSubscription`, `OneRequestKeepsBooks`, `OneRequestIsPaid` and `UkipoFilingProofs!LaneImplementsLedger`
also assume in their statement that one process runs; section 5 says what two may do.

*Argument: payments.* The three safety properties speak of rows and of the outside world,
and are not inductive: a request in flight holds a copy of a row, or a whole
uncommitted transaction, that it will write later. `IInv` adds what is true of
these. `LocalOK(p)`: a request past its choice of session has one; it is in the
pipeline exactly when it holds the lock; a copy of the draft that says paid or
promoted was made when that was backed by money and by a proof; a request about
to write "refunded" follows a refund at Stripe. `UncommittedOK`: the open
transaction confirms a session whose money is captured, has a proof before it
promotes, and never un-promotes. Captured money, refunds and records on chain
only grow, which is why an old copy stays good.

There is a lemma per family of handlers (`EnvironmentStep`, `CheckoutStep`,
`StatusReadStep`, `StatusCommitStep`, `CompletedWebhookStep`,
`ReconcileBeginStep`, `ReconcileLockedStep`, `PipelineStep`, `ToolStep`), each
with one step per action. `WriteStatusKeeps` and `ConfirmKeeps` carry the code
that handlers share. For the refinement, `LedgerStep` shows that under `IInv`
each step is a step of the ledger or changes nothing it shows; `CommitOpens` is
the interesting case, where a commit writes the promotion that an earlier proof
allowed.

*Argument: filings and confirmations.* `EveryRowWasFiled` counts. `FilingsCovered` says
that the rows and the requests whose filing EUIPO accepted and whose row is still to be
committed (`Unwritten`) are together no more than the applications: an accepted filing
adds one to both sides, a commit moves one from the requests to the rows, and a rollback
only lowers the left side, which is how an application without a row arises and a row
without an application cannot. The other three need the single request, whose copies
are then what the rows still hold (`AloneLock`). `BooksAlone`: whoever is to write a row
has found none. `ConfirmedAlone`: the chat has been told exactly when the intent's marker
is set, and whoever holds the lock has found it unset. `EditsAlone` adds the versions:
every open session is of a version of the draft no newer than the present one, and older
when the draft must be validated again (`SessionsAreOfDraft`); while a checkout is open the
draft is not paid (`CheckoutKnows`); and a payment that is confirmed, being confirmed or
reconciled is one for contents since edited unless the draft is paid
(`ConfirmedIsSettled`, `PipelineSettles`, `HandlersKnow`).

*Argument: the token.* `RowFollowsChain` is not inductive: a process writes what it
learned long ago. `CaseProofs!IInv` adds `LocalOK`, that every process on its
way to a write carries something that happened on chain (a mint that exists, a
claim or a burn that landed), and `ChainOK`, that what clients signed and what the
record names are mints that exist. Mints, record and burn only grow, so what was
true when a process began still is. `OneAtATimeKeepsToken` assumes
`Proc = {p}`; its invariant `OneTokenOK` says that the state is `none` exactly
while there is no token, that it still is while a set-up is in progress (nobody
writes in between), and that what is signed, claimed or on record is the token of
the row. `OneAtATimeWastesNothing` counts the mints that neither the row nor the process
names (`Unnamed`): `SpareOK` adds that only a set-up that has just made a mint holds one
the row does not name, so that a mint is left over only when that set-up loses its answer
or its process. That the mints left over are finitely many is part of the invariant.

*Argument: the attestation.* `AInv` adds that an update is signed only after the
row shows the creation (`Prepared`), and that a delivery handles an update that
landed and so read a row that already showed it. This is why the webhook's
back-fill of `attestation_tx` never writes (`BackfillIsDead`).

*Argument: UKIPO.* That a filed submission is paid and proved is not inductive: a
confirmation or a card event holds an address, or a verified transfer, that it will
write after any number of other steps. `UkipoFilingProofs!IInv` is `TypeOK` and
`PaidInv`: a wallet past verification has made a chat transfer, an event being
handled is of a paid session, every record on chain is bound to a payment that was
made, and every address stored, read back or about to be stored is that of such a
record. Transfers, paid sessions and records only grow. `SomebodyRuns` holds of any number
of requests and is inductive over the types of `IInv`.
`FiledPaidProved` covers both settings of the verifier.
`LaneImplementsLedger` needs it enabled, and the single request: two that loaded the same "pending" row
both start a robot, and the slower one pulls a row that is filed by then back to
`running`. `SoleInv` says that the registry names the only robot at work and the row follows it
(`RobotsOK`), that the request knows what the row still says and starts no second robot
(`RequestOK`), and that whoever pays does so for a form that a robot completed
(`StageOK`).
`OneRobot`, the comment's claim that two requests refute, follows from the same
invariant.

*Argument: billing.* With two handlers the row can mix two states, so
`MirrorIsSound` assumes one. `MirrorInv` says that while it works nobody else writes
the row, so its copy is the row; that the object it resolved, and every payload
still to be delivered, is in the history; and that a row with a revoked status has
the free plan. `PortalIsOfSubscription` leaves the handlers as many as they are and
assumes one buyer: while a checkout runs nobody else names a customer, so every session
and subscription is of the one the row names (`OwnedOK`), and whatever subscription an
event, a handler or the row names is one that Stripe has (`NamedOK`).

*Argument: renewals.* `OwnerIsTold` counts nights. `JobInv` says that every night since
the date on which the last reminder is still not recorded has cost a fault, until the
case is no longer scanned, and that an open job holds the present date unless the
renewal came tonight; a renewal moves the date past tonight, or to a night that had
passed already, which the property leaves out. The proof found these two provisos:
the run's nights are too few for a renewal a whole term late. `OneRequestKeepsBooks`
rests on `BookInv`: a cycle is marked as renewed exactly when the date is beyond it
and its intent waits only before that, so that the one write that advances the date
(`ReconcileWrites`) can only be of the current cycle, and each cycle the date is
beyond has a paid session (`PaidFor`); distinct cycles have distinct sessions, which
gives the count. `RequestOK` needs the single request: what it loaded is what the row
still holds.

*Argument: Braid.* A call is serial because of what it holds: `BraidProofs!IInv` says that
nobody writes a row that another request has written, and that a call past its gate has
written a budget row (`CountedOK`); with one budget row two handlers would hold it both.
The finitely many requests are what makes the cardinality of the budget rows mean
anything. `WeightsFollow` needs more than the committed tables, which are only half of
what is written. `LearnInv` keeps the account of every request: the decisions and grades
that it wrote and its weight row does not count are the one that it is about to learn
(`WrittenOK`), its weight row counts what is committed and what it wrote (`RowOK`), and
the row it has loaded to learn on is still the present one (`SeenOK`). The last two hold
only for a request that sees one budget row (`Alone`), and survive the commit of another
one because that other would have to hold the same budget row, or grade a capability in
use, which `overlapped` records (`CommitSpares`).
`EveryRecordIsAudited` is about two kinds of records: those of a proposal or a submission
are written in the transaction of the hook that follows them, those of a case or a search
have been committed before. `AuditInv` counts for each request what it has written and
what the call under way still owes (`Owes`); a record that was committed first stands for
the decision of at most one request (`CaseOwed`, `EutmOwed`). A rollback takes the
decision away and leaves such a record behind, which is why these are inequalities.

*Argument: the chat.* The prompt is made from rows of several requests, so what it says of
one row depends on rows that others wrote, undid or have not committed. The invariant
`AgentTurnProofs!IInv` therefore speaks of one request at a time. `OwnRows(r)` are the
rows of `r` in the order of the chat, as a subsequence; `TurnRows` says of them that they
start with the user's message and go on with calls, each directly followed by its
result, but for the call that is open while its tool runs (`Open`), and that a text comes
last. A row that is appended goes to the end of one subsequence and leaves the others
alone (`Picked` of `Append`); a message that sorts into a running turn and the rows that a
rollback removes are none of that turn's, which is why `Send` and `Abort` change no
other request's rows. `QueueOK` says that away from the
model a call is at hand, and `DraftOK` that the draft is the last one shown.

From there the proofs go through the functions that make the prompt. `PromptPaired`
holds of any history: the rows that are kept are calls with their result behind
them and results with their call before them, nothing stays between the two, and no
cut lies between them (`Cuts`). `TurnIsRemembered` needs the invariant: what a request
sees of its own rows are all of them (`SeenProperties`); nobody else's are behind its
message, so they are the end of what it sees (`OwnAreTheEnd`), and of the history, when
they fit the window; all of them are kept, and as its message is the last of a user, no
cut reaches it (`EndIsSent`). `DraftsAreAsShown` follows from `DraftOK` as it stands: the
last member of a subsequence is the one with the largest index. The lemmas on the
elements of a sequence at a set of indices (`Place`, `Nth`, `Selected`, `Picked`) are
about any sequence; they count members instead of using induction.

*Argument: proofs and documents.* `ProofRequestsProofs!IInv` rests on `ChainOK`: what the
node took is a valid proof, so a transaction fails only where its account exists, and
any status means that the record is there; this is why it does no harm that the
code takes every status for success. A request that waits names a transaction of its own
instruction (`SenderOK`), and records and statuses never change back
(`ChainGrows`). Two answers to one question name two transactions for one address, of
which at most one made the record. `OnceOK` says that, uncrossed, one request is past its
look-up and only while there is no answer. For documents, at most one requirement is
linked to a document (`NeedsOK`), and from the UPDATE of a document on no other is
linked to it (`HolderOK`), so the one row that a request has read is the one to write.

*Argument: what is kept of a client.* All six theorems of `ClientRecordsProofs` rest on
`RecordsOK`, the types of the rows and of every request in flight (`RequestOK` says what a
request carries at each of its steps); for a guest's slug that needs a free number,
the pigeonhole `SlugIsNumber` over the finitely many organizations. None of the
properties is inductive, because a request writes what it decided on rows it read
earlier; each invariant adds what such requests may still carry:

- `FactorInv`: a request that enrolls began while the factor was off.
- `AgreementInv`: a request that answers had read "sent", one that signs had not read
  "signed", and a signature's row is made by one request only.
- `TakenInv`: what was spent is gone from the rows (the case has a client, the invite
  is accepted or revoked, the challenge and the code are in no list), and a list of
  codes carries the number of the request that made it, so no later list repeats one.
- `MarksInv`: two requests never hold the row lock of the same notice, what is left
  `todo` was pending, and an erased user's notices are deleted or gone.
- `ErasedInv`: a request whose copy of the user is the tombstone has crossed the erasure. A
  request that loads an erased user is refused, which is why nothing else returns but
  the cases of drafts that were paid, whose promotion loads no user at all.
- `NoticeInv`: `Accounted` relates what a request has sent and not committed to what it
  marks, and `CountOK` says how often a notice was taken when nobody, and when
  exactly one request, has sent it with its transaction still open.

A step that touches none of this is dealt with once per family of handlers by a frame
lemma (`FactorFrame`, `AgreementFrame`, `RowsFrame`, `ErasedFrame`, `CountFrame`).

*Argument: EUIPO.* `SessionIsKept` speaks of a state at rest. `EuipoInv` says where the
good token is meanwhile: in the row, or got by the one call that holds the operator's
lock and read the token that is still in the row (`RowOrRefresh`). A token about to be
deleted was refused, one about to be stored is good, and a login that is not stored
yet is in no call's hands.

*Only model-checked.* The liveness properties: temporal proofs under fairness and
`ENABLED` are beyond the prover. Induction over data and recursive definitions stay with
TLC throughout; no module here uses a RECURSIVE operator.

## 7. What is not modelled

See the components of `PROJECT.json`, and item 9 of the plan. Outside any plan:
Groth16 verification and the circuits (cryptography), HTTP and RPC clients and the
selectors of the browser robot (pure I/O; their outcomes are choices of the
environment), prompting and text retrieval, reports and queries, case import and
export, the capabilities of the external Braid agent and its TypeScript service,
front end and SDKs. Calendar arithmetic is abstracted to nights, prices and amounts
everywhere to equality. `ProofRequests` and `ClientRecords` are compositions; the
other modules are not composed with each other: they meet in a
draft's status (`AgentTurn` and `FilingPayment`), a case's promotion
(`FilingPayment` and `CaseNft`) and the recorded attestation (`CaseAttestation` and
`CaseNft`), and each takes the other's step as an action of its environment.

## 8. Running

```
tlc -workers 2 -config PaymentConcurrent.cfg MCFilingPayment
tlc -workers 2 -config PaymentRecorded.cfg MCFilingPayment
tlc -workers 2 -config NftCatchesUp.cfg MCCaseNft
tlc -workers 2 -config EventsRecorded.cfg MCCaseAttestation
tlc -workers 2 -config UkipoOneRobot.cfg MCUkipoFiling
tlc -workers 2 -config BillingSequential.cfg MCOrgBilling
tlc -workers 2 -config RenewalPaid.cfg MCRenewal
tlc -workers 2 -config RenewalWebhook.cfg MCRenewal
tlc -workers 2 -config BraidShared.cfg MCBraid
tlc -workers 2 -config ChatTurns.cfg MCAgentTurn
tlc -workers 2 -config ProofRequests.cfg MCProofRequests
tlc -workers 2 -config ClientRecords.cfg MCClientRecords
tlapm FilingPaymentProofs.tla
tlapm CaseProofs.tla
tlapm UkipoFilingProofs.tla
tlapm BillingProofs.tla
tlapm BraidProofs.tla
tlapm AgentTurnProofs.tla
tlapm ProofRequestsProofs.tla
tlapm ClientRecordsProofs.tla
```

A run takes between seconds and about three minutes; the proofs of
`ClientRecords` take a quarter of an hour, the others together a few minutes.

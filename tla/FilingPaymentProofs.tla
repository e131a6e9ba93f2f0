------------------------- MODULE FilingPaymentProofs -------------------------
(***************************************************************************)
(* Theorems of FilingPayment, for any number of requests, sessions, edits, *)
(* rolled back requests and lost answers.                                  *)
(*                                                                         *)
(* The properties relate what is committed to what Stripe, EUIPO and the   *)
(* chain know.  They are not inductive alone: a request in flight carries  *)
(* copies of rows it will write back.  IInv says of every such copy what   *)
(* the properties say of the rows.                                         *)
(***************************************************************************)
EXTENDS FilingPayment, FiniteSetTheorems, TLAPS

\* A request that is past the point where it has chosen a session.
HasSession == {"opened", "reconcile"} \cup PipelinePC

\* What a request holds in its own memory.
LocalOK(p) ==
  /\ pc[p] \in HasSession => sid[p] \in Session
  /\ pc[p] \in PipelinePC <=> lock = p
  /\ pc[p] \in {"tool", "tool_ok"} => Captured # {}
  /\ pc[p] \in {"refunding", "chargeback"} => refunded # {}
  /\ seenDraft[p].status = "paid" => Captured # {}
  /\ seenDraft[p].promoted => Captured # {} /\ (VerifierEnabled => onchain # {})

\* What the request that holds the row lock has not committed yet.
UncommittedOK ==
  lock # NoProc =>
    /\ tx.gpid.sess \in Captured
    /\ tx.refund => refunded # {}
    /\ (tx.draft.promoted \/ pc[lock] = "promote") /\ VerifierEnabled => onchain # {}
    /\ seenDraft[lock].promoted => tx.draft.promoted

IInv ==
  /\ TypeOK
  /\ \A p \in Proc : LocalOK(p)
  /\ UncommittedOK
  /\ PaidBeforeActing
  /\ RefundsBacked
  /\ CaseHasProof
-----------------------------------------------------------------------------
\* The values a request starts from and returns to have their types.
LEMMA RestingValues ==
  NoTx \in Tx /\ NoIntent \in Intent /\ NewDraft \in Draft /\ NoGateway \in GatewayId
BY BoundsAssumption
   DEF NoTx, NoIntent, NewDraft, NoGateway, Tx, Intent, Draft, GatewayId, CaseDraftStatus,
       PaymentIntentStatus, ArtifactStatus, Version

\* A request that ends forgets what it knew, and so satisfies LocalOK again.
LEMMA FinishTyped ==
  ASSUME TypeOK, NEW p \in Proc, Finish(p)
  PROVE  /\ pc' \in [Proc -> PC] /\ sid' \in [Proc -> Session \cup {NoSession}]
         /\ seen' \in [Proc -> Intent] /\ seenDraft' \in [Proc -> Draft]
BY RestingValues DEF TypeOK, Finish, PC

\* A status write types the intent row, and says refunded only when told to.
LEMMA WriteStatusTyped ==
  ASSUME TypeOK, NEW p \in Proc, NEW st \in PaymentIntentStatus, NEW b \in BOOLEAN,
         WriteStatus(p, st, b)
  PROVE  intent' \in Intent /\ intent'.status \in {intent.status, st}
<1>1. seen[p] \in Intent
  BY DEF TypeOK
<1>. QED BY <1>1 DEF TypeOK, WriteStatus, Intent

\* Handlers that change only the status of the intent, and then end.
LEMMA WriteStatusKeeps ==
  ASSUME IInv, NEW p \in Proc, NEW st \in {"expired", "failed", "refunded"},
         NEW b \in BOOLEAN, WriteStatus(p, st, b), pc[p] \notin PipelinePC,
         st = "refunded" => refunded # {}
  PROVE  IInv'
<1>1. intent' \in Intent /\ intent'.status \in {intent.status, st}
  BY WriteStatusTyped DEF IInv, PaymentIntentStatus
<1>2. TypeOK'
  BY <1>1, FinishTyped DEF IInv, TypeOK, WriteStatus, stripeVars, worldVars
<1>3. ASSUME NEW q \in Proc PROVE LocalOK(q)'
  BY <1>1 DEF IInv, TypeOK, LocalOK, WriteStatus, Finish, Captured, HasSession, PipelinePC,
              stripeVars, worldVars, NewDraft
<1>4. UncommittedOK' /\ PaidBeforeActing' /\ RefundsBacked' /\ CaseHasProof'
  BY <1>1, NoProcAssumption
     DEF IInv, TypeOK, WriteStatus, Finish, Captured, UncommittedOK, PaidBeforeActing,
         RefundsBacked, CaseHasProof, stripeVars, worldVars
<1>. QED BY <1>2, <1>3, <1>4 DEF IInv

\* What the confirmation of session s puts into the open transaction.
LEMMA ConfirmTyped ==
  ASSUME TypeOK, NEW p \in Proc, NEW s \in Session, NEW d \in Draft, NEW h \in BOOLEAN,
         Confirm(p, s, d, h)
  PROVE  tx' \in Tx /\ tx'.gpid.sess = s /\ ~tx'.refund /\ tx'.draft.promoted = d.promoted
<1> DEFINE d2 == IF d.status = "awaiting_payment" THEN [d EXCEPT !.status = "paid"] ELSE d
<1>1. d2 \in Draft /\ d2.promoted = d.promoted
  BY DEF Draft, CaseDraftStatus
<1>2. tx' = [draft |-> d2, gpid |-> [kind |-> "pi", sess |-> s], row |-> FALSE,
            refund |-> FALSE, artifact |-> artifact, done |-> FALSE, hook |-> h]
  BY DEF Confirm
<1> HIDE DEF d2
<1>3. tx' \in Tx
  BY <1>1, <1>2 DEF Tx, GatewayId, TypeOK
<1>. QED BY <1>1, <1>2, <1>3

\* A request that takes the free row lock for a session that was paid.
LEMMA ConfirmKeeps ==
  ASSUME IInv, NEW p \in Proc, NEW s \in Session, NEW d \in Draft, NEW h \in BOOLEAN,
         Confirm(p, s, d, h), lock = NoProc, s \in Captured,
         d.promoted /\ VerifierEnabled => onchain # {},
         UNCHANGED <<stripeVars, acked, dbVars, worldVars, seen, aborts, lost>>
  PROVE  IInv'
<1>1. tx' \in Tx /\ tx'.gpid.sess = s /\ ~tx'.refund /\ tx'.draft.promoted = d.promoted
  BY ConfirmTyped DEF IInv
<1>2. PICK label \in {"file", "commit"} :
        /\ pc' = [pc EXCEPT ![p] = label] /\ lock' = p
        /\ sid' = [sid EXCEPT ![p] = s] /\ seenDraft' = [seenDraft EXCEPT ![p] = d]
  BY DEF Confirm
<1>3. Captured' = Captured /\ Captured # {} /\ refunded' = refunded /\ onchain' = onchain
  BY DEF Captured, stripeVars, worldVars
<1>4. TypeOK /\ TypeOK'
  BY <1>1, <1>2 DEF IInv, TypeOK, PC, stripeVars, dbVars, worldVars
<1>5. ASSUME NEW q \in Proc PROVE LocalOK(q)'
  <2>1. CASE q = p
    BY <1>2, <1>3, <1>4, <2>1 DEF TypeOK, LocalOK, HasSession, PipelinePC
  <2>2. CASE q # p
    <3>1. LocalOK(q) /\ lock # q
      BY NoProcAssumption DEF IInv
    <3>2. pc'[q] = pc[q] /\ sid'[q] = sid[q] /\ seenDraft'[q] = seenDraft[q] /\ lock' # q
      BY <1>2, <1>4, <2>2 DEF TypeOK
    <3>. QED BY <1>3, <3>1, <3>2 DEF LocalOK
  <2>. QED BY <2>1, <2>2
<1>6. UncommittedOK'
  BY <1>1, <1>2, <1>3, <1>4 DEF TypeOK, UncommittedOK
<1>7. PaidBeforeActing' /\ RefundsBacked' /\ CaseHasProof'
  BY <1>3 DEF IInv, PaidBeforeActing, RefundsBacked, CaseHasProof, stripeVars, dbVars, worldVars
<1>. QED BY <1>4, <1>5, <1>6, <1>7 DEF IInv

\* What every stage of the pipeline before the commit leaves in the transaction.
LEMMA PipelineTx ==
  ASSUME TypeOK, NEW p \in Proc
  PROVE  /\ AutoFile(p) \/ GenerateProof(p) \/ SubmitAttestation(p) =>
              tx' \in Tx /\ tx'.gpid = tx.gpid /\ tx'.draft = tx.draft /\ tx'.refund = tx.refund
         /\ AutoRefund(p) => tx' \in Tx /\ tx'.gpid = tx.gpid /\ tx'.draft = tx.draft
         /\ PromoteDraft(p) =>
              /\ tx' \in Tx /\ tx'.gpid = tx.gpid /\ tx'.refund = tx.refund
              /\ tx'.draft \in {tx.draft, [tx.draft EXCEPT !.promoted = TRUE]}
<1>1. tx \in Tx
  BY DEF TypeOK
<1>2. AutoFile(p) => tx' \in {tx, [tx EXCEPT !.row = TRUE]}
  BY DEF AutoFile, _should_auto_refund, LoseAnswer
<1>3. GenerateProof(p) =>
        \/ tx' = tx
        \/ \E a \in ArtifactStatus, b \in BOOLEAN : tx' = [tx EXCEPT !.artifact = a, !.done = b]
  BY DEF GenerateProof, _run_prover, ArtifactStatus
<1>4. SubmitAttestation(p) =>
        tx' = tx \/ \E a \in ArtifactStatus : tx' = [tx EXCEPT !.artifact = a]
  BY DEF SubmitAttestation, ArtifactStatus
<1>5. AutoRefund(p) => tx' \in {tx, [tx EXCEPT !.refund = TRUE]}
  BY DEF AutoRefund
<1>6. PromoteDraft(p) =>
        \/ tx' = [tx EXCEPT !.draft.promoted = TRUE, !.done = TRUE]
        \/ tx' = tx
        \/ tx' = [tx EXCEPT !.draft.promoted = TRUE]
  BY DEF PromoteDraft
<1>7. AutoFile(p) \/ GenerateProof(p) \/ SubmitAttestation(p) =>
        tx' \in Tx /\ tx'.gpid = tx.gpid /\ tx'.draft = tx.draft /\ tx'.refund = tx.refund
  BY <1>1, <1>2, <1>3, <1>4 DEF Tx
<1>8. AutoRefund(p) => tx' \in Tx /\ tx'.gpid = tx.gpid /\ tx'.draft = tx.draft
  BY <1>1, <1>5 DEF Tx
<1>9. PromoteDraft(p) =>
        /\ tx' \in Tx /\ tx'.gpid = tx.gpid /\ tx'.refund = tx.refund
        /\ tx'.draft \in {tx.draft, [tx.draft EXCEPT !.promoted = TRUE]}
  <2> DEFINE d == [tx.draft EXCEPT !.promoted = TRUE]
  <2>1. d \in Draft
    BY <1>1 DEF Tx, Draft
  <2>2. PromoteDraft(p) =>
          tx' \in {[tx EXCEPT !.draft = d, !.done = TRUE], tx, [tx EXCEPT !.draft = d]}
    BY <1>6
  <2>3. ASSUME PromoteDraft(p)
        PROVE  tx' \in Tx /\ tx'.gpid = tx.gpid /\ tx'.refund = tx.refund /\ tx'.draft \in {tx.draft, d}
    <3> HIDE DEF d
    <3>. QED BY <1>1, <2>1, <2>2, <2>3 DEF Tx
  <2>. QED BY <2>3
<1>. QED BY <1>7, <1>8, <1>9

\* The chat, Stripe and the customer.
LEMMA EnvironmentStep ==
  ASSUME IInv, Environment
  PROVE  IInv'
<1> USE NoProcAssumption, NoSessionAssumption, BoundsAssumption, FlagsAssumption
    DEF IInv, TypeOK, SessionStatus, Version, CaseDraftStatus, PaymentIntentStatus, ArtifactStatus,
          GatewayId, PC, HasSession, PipelinePC, Captured, LocalOK, UncommittedOK,
          PaidBeforeActing, RefundsBacked, CaseHasProof, stripeVars, dbVars, worldVars,
          localVars
<1>1. CASE CreateCaseDraft
  <2>0. draft \in Draft /\ draft.ver + 1 \in Version
    BY <1>1 DEF CreateCaseDraft, Draft
  <2>1. draft' \in Draft /\ draft'.promoted = draft.promoted /\ draft'.status = "validated"
    BY <1>1, <2>0 DEF CreateCaseDraft, Draft
  <2>2. TypeOK'
    BY <1>1, <2>1 DEF CreateCaseDraft
  <2>3. ASSUME NEW q \in Proc PROVE LocalOK(q)'
    BY <1>1 DEF CreateCaseDraft
  <2>4. UncommittedOK' /\ PaidBeforeActing' /\ RefundsBacked' /\ CaseHasProof'
    BY <1>1, <2>1 DEF CreateCaseDraft
  <2>. QED BY <2>2, <2>3, <2>4
<1>2. CASE PreparePayment
  <2>0. draft \in Draft
    BY <1>2 DEF PreparePayment, Draft
  <2>1. draft' \in Draft /\ draft'.promoted = draft.promoted /\ draft'.status = "awaiting_payment"
    BY <1>2, <2>0 DEF PreparePayment, Draft
  <2>2. TypeOK'
    BY <1>2, <2>1 DEF PreparePayment
  <2>3. ASSUME NEW q \in Proc PROVE LocalOK(q)'
    BY <1>2 DEF PreparePayment
  <2>4. UncommittedOK' /\ PaidBeforeActing' /\ RefundsBacked' /\ CaseHasProof'
    BY <1>2, <2>1 DEF PreparePayment
  <2>. QED BY <2>2, <2>3, <2>4
<1>3. ASSUME NEW s \in Session, CustomerPays(s) PROVE IInv'
  <2>1. TypeOK'
    BY <1>3 DEF CustomerPays, Draft, Intent, Tx, NoGateway, NewDraft,
        NoIntent, NoTx
  <2>2. ASSUME NEW q \in Proc PROVE LocalOK(q)'
    BY <1>3 DEF CustomerPays, Draft, Intent, Tx, NoGateway, NewDraft,
        NoIntent, NoTx
  <2>3. UncommittedOK' /\ PaidBeforeActing' /\ RefundsBacked' /\ CaseHasProof'
    BY <1>3 DEF CustomerPays, Draft, Intent, Tx, NoGateway, NewDraft,
        NoIntent, NoTx
  <2>. QED BY <2>1, <2>2, <2>3
<1>4. ASSUME NEW s \in Session, CardDeclined(s) PROVE IInv'
  <2>1. TypeOK'
    BY <1>4 DEF CardDeclined, Draft, Intent, Tx, NoGateway, NewDraft,
        NoIntent, NoTx
  <2>2. ASSUME NEW q \in Proc PROVE LocalOK(q)'
    BY <1>4 DEF CardDeclined, Draft, Intent, Tx, NoGateway, NewDraft,
        NoIntent, NoTx
  <2>3. UncommittedOK' /\ PaidBeforeActing' /\ RefundsBacked' /\ CaseHasProof'
    BY <1>4 DEF CardDeclined, Draft, Intent, Tx, NoGateway, NewDraft,
        NoIntent, NoTx
  <2>. QED BY <2>1, <2>2, <2>3
<1>5. ASSUME NEW s \in Session, SessionExpires(s) PROVE IInv'
  <2>1. TypeOK'
    BY <1>5 DEF SessionExpires, Draft, Intent, Tx, NoGateway, NewDraft,
        NoIntent, NoTx
  <2>2. ASSUME NEW q \in Proc PROVE LocalOK(q)'
    BY <1>5 DEF SessionExpires, Draft, Intent, Tx, NoGateway, NewDraft,
        NoIntent, NoTx
  <2>3. UncommittedOK' /\ PaidBeforeActing' /\ RefundsBacked' /\ CaseHasProof'
    BY <1>5 DEF SessionExpires, Draft, Intent, Tx, NoGateway, NewDraft,
        NoIntent, NoTx
  <2>. QED BY <2>1, <2>2, <2>3
<1>6. CASE IdempotencyKeyPruned
  <2>1. TypeOK'
    BY <1>6 DEF IdempotencyKeyPruned, Draft, Intent, Tx, NoGateway, NewDraft,
        NoIntent, NoTx
  <2>2. ASSUME NEW q \in Proc PROVE LocalOK(q)'
    BY <1>6 DEF IdempotencyKeyPruned, Draft, Intent, Tx, NoGateway, NewDraft,
        NoIntent, NoTx
  <2>3. UncommittedOK' /\ PaidBeforeActing' /\ RefundsBacked' /\ CaseHasProof'
    BY <1>6 DEF IdempotencyKeyPruned, Draft, Intent, Tx, NoGateway, NewDraft,
        NoIntent, NoTx
  <2>. QED BY <2>1, <2>2, <2>3
<1>7. ASSUME NEW s \in Session, DashboardRefund(s) PROVE IInv'
  <2>1. TypeOK'
    BY <1>7 DEF DashboardRefund, Draft, Intent, Tx, NoGateway, NewDraft,
        NoIntent, NoTx
  <2>2. ASSUME NEW q \in Proc PROVE LocalOK(q)'
    BY <1>7 DEF DashboardRefund, Draft, Intent, Tx, NoGateway, NewDraft,
        NoIntent, NoTx
  <2>3. UncommittedOK' /\ PaidBeforeActing' /\ RefundsBacked' /\ CaseHasProof'
    BY <1>7 DEF DashboardRefund, Draft, Intent, Tx, NoGateway, NewDraft,
        NoIntent, NoTx
  <2>. QED BY <2>1, <2>2, <2>3
<1>. QED BY <1>1, <1>2, <1>3, <1>4, <1>5, <1>6, <1>7 DEF Environment

\* Opening a Checkout session.
LEMMA CheckoutStep ==
  ASSUME IInv, NEW p \in Proc,
         \/ CheckoutBegin(p)
         \/ \E s \in Session : CheckoutOpen(p, s)
         \/ CheckoutReject(p)
         \/ CheckoutCommit(p)
  PROVE  IInv'
<1> USE NoProcAssumption, NoSessionAssumption, BoundsAssumption, FlagsAssumption
    DEF IInv, TypeOK, SessionStatus, Version, CaseDraftStatus, PaymentIntentStatus, ArtifactStatus,
          GatewayId, PC, HasSession, PipelinePC, Captured, LocalOK, UncommittedOK,
          PaidBeforeActing, RefundsBacked, CaseHasProof, stripeVars, dbVars, worldVars,
          localVars
<1>1. CASE CheckoutBegin(p)
  <2>1. TypeOK'
    BY <1>1 DEF CheckoutBegin, Payable, Draft, Intent, Tx, NoGateway,
        NewDraft, NoIntent, NoTx
  <2>2. ASSUME NEW q \in Proc PROVE LocalOK(q)'
    BY <1>1 DEF CheckoutBegin, Payable, Draft, Intent, Tx, NoGateway,
        NewDraft, NoIntent, NoTx
  <2>3. UncommittedOK' /\ PaidBeforeActing' /\ RefundsBacked' /\ CaseHasProof'
    BY <1>1 DEF CheckoutBegin, Payable, Draft, Intent, Tx, NoGateway,
        NewDraft, NoIntent, NoTx
  <2>. QED BY <2>1, <2>2, <2>3
<1>2. ASSUME NEW s \in Session, CheckoutOpen(p, s) PROVE IInv'
  <2>1. sess' \in [Session -> SessionStatus] /\ sessVer' \in [Session -> Version]
        /\ idem' \in Session \cup {NoSession} /\ Captured' = Captured
    BY <1>2 DEF CheckoutOpen, Draft
  <2>2. TypeOK'
    BY <1>2, <2>1 DEF CheckoutOpen
  <2>3. ASSUME NEW q \in Proc PROVE LocalOK(q)'
    BY <1>2, <2>1 DEF CheckoutOpen
  <2>4. UncommittedOK' /\ PaidBeforeActing' /\ RefundsBacked' /\ CaseHasProof'
    BY <1>2, <2>1 DEF CheckoutOpen
  <2>. QED BY <2>2, <2>3, <2>4
<1>3. CASE CheckoutReject(p)
  <2>1. TypeOK'
    BY <1>3 DEF CheckoutReject, Replays, Finish, Draft, Intent, Tx, NoGateway,
        NewDraft, NoIntent, NoTx
  <2>2. ASSUME NEW q \in Proc PROVE LocalOK(q)'
    BY <1>3 DEF CheckoutReject, Replays, Finish, Draft, Intent, Tx, NoGateway,
        NewDraft, NoIntent, NoTx
  <2>3. UncommittedOK' /\ PaidBeforeActing' /\ RefundsBacked' /\ CaseHasProof'
    BY <1>3 DEF CheckoutReject, Replays, Finish, Draft, Intent, Tx, NoGateway,
        NewDraft, NoIntent, NoTx
  <2>. QED BY <2>1, <2>2, <2>3
<1>4. CASE CheckoutCommit(p)
  <2>1. sid[p] \in Session /\ seen[p] \in Intent
    BY <1>4 DEF CheckoutCommit
  <2>2. draft' \in Draft /\ draft'.promoted = draft.promoted
        /\ draft'.status \in {draft.status, "awaiting_payment"}
    BY <1>4 DEF CheckoutCommit, Draft
  <2>3. intent' \in Intent /\ intent'.status \in {intent.status, "awaiting"}
    <3>1. GatewayOf(sid[p]) \in GatewayId
      BY <2>1 DEF GatewayOf
    <3>. QED BY <1>4, <2>1, <3>1 DEF CheckoutCommit, Intent
  <2>4. TypeOK'
    BY <1>4, <2>1, <2>2, <2>3, FinishTyped DEF CheckoutCommit
  <2>5. ASSUME NEW q \in Proc PROVE LocalOK(q)'
    BY <1>4 DEF CheckoutCommit, Finish, NewDraft
  <2>6. UncommittedOK' /\ PaidBeforeActing' /\ RefundsBacked' /\ CaseHasProof'
    BY <1>4, <2>2, <2>3 DEF CheckoutCommit
  <2>. QED BY <2>4, <2>5, <2>6
<1>. QED BY <1>1, <1>2, <1>3, <1>4

\* Handlers that will change only the status of the intent.
LEMMA StatusReadStep ==
  ASSUME IInv, NEW p \in Proc,
         \/ \E s \in Session : ExpiredRead(p, s)
         \/ \E s \in Session : PaymentFailedRead(p, s)
         \/ \E s \in Session : ChargeRefundedRead(p, s)
         \/ OperatorRefund(p)
  PROVE  IInv'
<1> USE NoProcAssumption, NoSessionAssumption, BoundsAssumption, FlagsAssumption
    DEF IInv, TypeOK, SessionStatus, Version, CaseDraftStatus, PaymentIntentStatus, ArtifactStatus,
          GatewayId, PC, HasSession, PipelinePC, Captured, LocalOK, UncommittedOK,
          PaidBeforeActing, RefundsBacked, CaseHasProof, stripeVars, dbVars, worldVars,
          localVars
<1>1. ASSUME NEW s \in Session, ExpiredRead(p, s) PROVE IInv'
  <2>1. TypeOK'
    BY <1>1 DEF ExpiredRead, Load, Terminal, Draft, Intent, Tx, NoGateway,
        NewDraft, NoIntent, NoTx
  <2>2. ASSUME NEW q \in Proc PROVE LocalOK(q)'
    BY <1>1 DEF ExpiredRead, Load, Terminal, Draft, Intent, Tx, NoGateway,
        NewDraft, NoIntent, NoTx
  <2>3. UncommittedOK' /\ PaidBeforeActing' /\ RefundsBacked' /\ CaseHasProof'
    BY <1>1 DEF ExpiredRead, Load, Terminal, Draft, Intent, Tx, NoGateway,
        NewDraft, NoIntent, NoTx
  <2>. QED BY <2>1, <2>2, <2>3
<1>2. ASSUME NEW s \in Session, PaymentFailedRead(p, s) PROVE IInv'
  <2>1. TypeOK'
    BY <1>2 DEF PaymentFailedRead, Load, Terminal, Draft, Intent, Tx,
        NoGateway, NewDraft, NoIntent, NoTx
  <2>2. ASSUME NEW q \in Proc PROVE LocalOK(q)'
    BY <1>2 DEF PaymentFailedRead, Load, Terminal, Draft, Intent, Tx,
        NoGateway, NewDraft, NoIntent, NoTx
  <2>3. UncommittedOK' /\ PaidBeforeActing' /\ RefundsBacked' /\ CaseHasProof'
    BY <1>2 DEF PaymentFailedRead, Load, Terminal, Draft, Intent, Tx,
        NoGateway, NewDraft, NoIntent, NoTx
  <2>. QED BY <2>1, <2>2, <2>3
<1>3. ASSUME NEW s \in Session, ChargeRefundedRead(p, s) PROVE IInv'
  <2>1. TypeOK'
    BY <1>3 DEF ChargeRefundedRead, Load, Draft, Intent, Tx, NoGateway,
        NewDraft, NoIntent, NoTx
  <2>2. ASSUME NEW q \in Proc PROVE LocalOK(q)'
    BY <1>3 DEF ChargeRefundedRead, Load, Draft, Intent, Tx, NoGateway,
        NewDraft, NoIntent, NoTx
  <2>3. UncommittedOK' /\ PaidBeforeActing' /\ RefundsBacked' /\ CaseHasProof'
    BY <1>3 DEF ChargeRefundedRead, Load, Draft, Intent, Tx, NoGateway,
        NewDraft, NoIntent, NoTx
  <2>. QED BY <2>1, <2>2, <2>3
<1>4. CASE OperatorRefund(p)
  <2>1. TypeOK'
    BY <1>4 DEF OperatorRefund, Draft, Intent, Tx, NoGateway, NewDraft,
        NoIntent, NoTx
  <2>2. ASSUME NEW q \in Proc PROVE LocalOK(q)'
    BY <1>4 DEF OperatorRefund, Draft, Intent, Tx, NoGateway, NewDraft,
        NoIntent, NoTx
  <2>3. UncommittedOK' /\ PaidBeforeActing' /\ RefundsBacked' /\ CaseHasProof'
    BY <1>4 DEF OperatorRefund, Draft, Intent, Tx, NoGateway, NewDraft,
        NoIntent, NoTx
  <2>. QED BY <2>1, <2>2, <2>3
<1>. QED BY <1>1, <1>2, <1>3, <1>4

\* The confirmation pipeline.
LEMMA PipelineStep ==
  ASSUME IInv, NEW p \in Proc,
         \/ AutoFile(p)
         \/ AutoRefund(p)
         \/ GenerateProof(p)
         \/ SubmitAttestation(p)
         \/ PromoteDraft(p)
         \/ PipelineCommit(p)
  PROVE  IInv'
<1> USE NoProcAssumption, NoSessionAssumption, BoundsAssumption, FlagsAssumption
    DEF IInv, TypeOK, SessionStatus, Version, CaseDraftStatus, PaymentIntentStatus, ArtifactStatus,
          GatewayId, PC, HasSession, PipelinePC, Captured, LocalOK, UncommittedOK,
          PaidBeforeActing, RefundsBacked, CaseHasProof, stripeVars, dbVars, worldVars,
          localVars
<1>1. CASE AutoFile(p)
  <2>1. lock = p /\ lock # NoProc /\ tx.gpid.sess \in Captured
    BY <1>1 DEF AutoFile
  <2>2. tx' \in Tx /\ tx'.gpid = tx.gpid /\ tx'.draft = tx.draft /\ tx'.refund = tx.refund
    BY <1>1, PipelineTx
  <2>3. TypeOK'
    BY <1>1, <2>1, <2>2 DEF AutoFile, _should_auto_refund, Goto, LoseAnswer, Filed
  <2>4. ASSUME NEW q \in Proc PROVE LocalOK(q)'
    BY <1>1, <2>1 DEF AutoFile, _should_auto_refund, Goto, LoseAnswer, Filed
  <2>5. UncommittedOK' /\ PaidBeforeActing' /\ RefundsBacked' /\ CaseHasProof'
    BY <1>1, <2>1, <2>2 DEF AutoFile, _should_auto_refund, Goto, LoseAnswer, Filed
  <2>. QED BY <2>3, <2>4, <2>5
<1>2. CASE AutoRefund(p)
  <2>1. lock = p /\ lock # NoProc /\ tx.gpid.sess \in Captured
    BY <1>2 DEF AutoRefund
  <2>2. tx' \in Tx /\ tx'.gpid = tx.gpid /\ tx'.draft = tx.draft
    BY <1>2, PipelineTx
  <2>3. TypeOK'
    BY <1>2, <2>1, <2>2 DEF AutoRefund, Goto
  <2>4. ASSUME NEW q \in Proc PROVE LocalOK(q)'
    BY <1>2, <2>1 DEF AutoRefund, Goto
  <2>5. UncommittedOK' /\ PaidBeforeActing' /\ RefundsBacked' /\ CaseHasProof'
    BY <1>2, <2>1, <2>2 DEF AutoRefund, Goto
  <2>. QED BY <2>3, <2>4, <2>5
<1>3. CASE GenerateProof(p)
  <2>1. lock = p /\ lock # NoProc /\ tx.gpid.sess \in Captured
    BY <1>3 DEF GenerateProof
  <2>2. tx' \in Tx /\ tx'.gpid = tx.gpid /\ tx'.draft = tx.draft /\ tx'.refund = tx.refund
    BY <1>3, PipelineTx
  <2>3. PICK label \in {"attest", "commit"} : pc' = [pc EXCEPT ![p] = label]
    BY <1>3 DEF GenerateProof, _run_prover, Goto
  <2>4. UNCHANGED <<stripeVars, acked, dbVars, worldVars, seen, seenDraft, sid, lock, aborts, lost>>
    BY <1>3 DEF GenerateProof, Goto
  <2>5. TypeOK'
    BY <2>2, <2>3, <2>4
  <2>6. ASSUME NEW q \in Proc PROVE LocalOK(q)'
    BY <2>1, <2>3, <2>4
  <2>7. UncommittedOK' /\ PaidBeforeActing' /\ RefundsBacked' /\ CaseHasProof'
    BY <2>1, <2>2, <2>3, <2>4
  <2>. QED BY <2>5, <2>6, <2>7
<1>4. CASE SubmitAttestation(p)
  <2>1. lock = p /\ lock # NoProc /\ tx.gpid.sess \in Captured
    BY <1>4 DEF SubmitAttestation
  <2>2. tx' \in Tx /\ tx'.gpid = tx.gpid /\ tx'.draft = tx.draft /\ tx'.refund = tx.refund
    BY <1>4, PipelineTx
  <2>3. Digest \in Session \X Version
    BY <2>1 DEF Digest, Tx, Draft
  <2>4. onchain' \in SUBSET (Session \X Version)
    BY <1>4, <2>3 DEF SubmitAttestation
  <2>5. TypeOK'
    BY <1>4, <2>1, <2>2, <2>4 DEF SubmitAttestation, Goto, LoseAnswer, AfterFailedProof
  <2>6. ASSUME NEW q \in Proc PROVE LocalOK(q)'
    BY <1>4, <2>1 DEF SubmitAttestation, Goto, LoseAnswer, Digest, AfterFailedProof
  <2>7. UncommittedOK' /\ PaidBeforeActing' /\ RefundsBacked' /\ CaseHasProof'
    BY <1>4, <2>1, <2>2 DEF SubmitAttestation, Goto, LoseAnswer, Digest, AfterFailedProof
  <2>. QED BY <2>5, <2>6, <2>7
<1>5. CASE PromoteDraft(p)
  <2>1. lock = p /\ lock # NoProc /\ tx.gpid.sess \in Captured
    BY <1>5 DEF PromoteDraft
  <2>2. /\ tx' \in Tx /\ tx'.gpid = tx.gpid /\ tx'.refund = tx.refund
        /\ tx'.draft \in {tx.draft, [tx.draft EXCEPT !.promoted = TRUE]}
    BY <1>5, PipelineTx
  <2>3. TypeOK'
    BY <1>5, <2>1, <2>2 DEF PromoteDraft, Goto
  <2>4. ASSUME NEW q \in Proc PROVE LocalOK(q)'
    BY <1>5, <2>1 DEF PromoteDraft, Goto
  <2>5. PaidBeforeActing' /\ RefundsBacked' /\ CaseHasProof'
    BY <1>5 DEF PromoteDraft
  <2>6. tx.draft.promoted => tx'.draft.promoted
    BY <2>2 DEF Tx, Draft
  <2>7. UncommittedOK'
    BY <1>5, <2>1, <2>2, <2>6 DEF PromoteDraft, Goto
  <2>. QED BY <2>3, <2>4, <2>5, <2>7
<1>6. CASE PipelineCommit(p)
  <2>1. lock = p /\ lock # NoProc /\ tx.gpid.sess \in Captured /\ sid[p] \in Session
    BY <1>6 DEF PipelineCommit
  <2>2. draft' \in Draft /\ draft'.status \in {draft.status, tx.draft.status}
        /\ draft'.promoted \in {draft.promoted, tx.draft.promoted}
    BY <1>6 DEF PipelineCommit, Draft, Tx
  <2>3. intent' \in Intent /\ (intent'.status = "refunded" => tx.refund)
    BY <1>6 DEF PipelineCommit, Intent, Tx
  <2>4. tx.artifact \in ArtifactStatus
    BY DEF Tx
  <2>5. TypeOK'
    BY <1>6, <2>1, <2>2, <2>3, <2>4, RestingValues, FinishTyped DEF PipelineCommit
  <2>6. ASSUME NEW q \in Proc PROVE LocalOK(q)'
    BY <1>6, <2>1 DEF PipelineCommit, Finish, NewDraft
  <2>7. UncommittedOK' /\ PaidBeforeActing' /\ RefundsBacked' /\ CaseHasProof'
    BY <1>6, <2>1, <2>2, <2>3 DEF PipelineCommit
  <2>. QED BY <2>5, <2>6, <2>7
<1>. QED BY <1>1, <1>2, <1>3, <1>4, <1>5, <1>6

\* The submit_filing tool, and a rollback.
LEMMA ToolStep ==
  ASSUME IInv, NEW p \in Proc,
         \/ SubmitFilingBegin(p)
         \/ SubmitFilingCall(p)
         \/ SubmitFilingCommit(p)
         \/ Abort(p)
  PROVE  IInv'
<1> USE NoProcAssumption, NoSessionAssumption, BoundsAssumption, FlagsAssumption
    DEF IInv, TypeOK, SessionStatus, Version, CaseDraftStatus, PaymentIntentStatus, ArtifactStatus,
          GatewayId, PC, HasSession, PipelinePC, Captured, LocalOK, UncommittedOK,
          PaidBeforeActing, RefundsBacked, CaseHasProof, stripeVars, dbVars, worldVars,
          localVars
<1>1. CASE SubmitFilingBegin(p)
  <2>1. TypeOK'
    BY <1>1 DEF SubmitFilingBegin, Filed, Draft, Intent, Tx, NoGateway,
        NewDraft, NoIntent, NoTx
  <2>2. ASSUME NEW q \in Proc PROVE LocalOK(q)'
    BY <1>1 DEF SubmitFilingBegin, Filed, Draft, Intent, Tx, NoGateway,
        NewDraft, NoIntent, NoTx
  <2>3. UncommittedOK' /\ PaidBeforeActing' /\ RefundsBacked' /\ CaseHasProof'
    BY <1>1 DEF SubmitFilingBegin, Filed, Draft, Intent, Tx, NoGateway,
        NewDraft, NoIntent, NoTx
  <2>. QED BY <2>1, <2>2, <2>3
<1>2. CASE SubmitFilingCall(p)
  <2>1. TypeOK'
    BY <1>2, FinishTyped DEF SubmitFilingCall, Goto, LoseAnswer
  <2>2. ASSUME NEW q \in Proc PROVE LocalOK(q)'
    BY <1>2 DEF SubmitFilingCall, Goto, LoseAnswer, Finish, NewDraft
  <2>3. UncommittedOK' /\ PaidBeforeActing' /\ RefundsBacked' /\ CaseHasProof'
    BY <1>2 DEF SubmitFilingCall, Goto, LoseAnswer, Finish
  <2>. QED BY <2>1, <2>2, <2>3
<1>3. CASE SubmitFilingCommit(p)
  <2>1. TypeOK'
    BY <1>3 DEF SubmitFilingCommit, Finish, Draft, Intent, Tx, NoGateway,
        NewDraft, NoIntent, NoTx
  <2>2. ASSUME NEW q \in Proc PROVE LocalOK(q)'
    BY <1>3 DEF SubmitFilingCommit, Finish, Draft, Intent, Tx, NoGateway,
        NewDraft, NoIntent, NoTx
  <2>3. UncommittedOK' /\ PaidBeforeActing' /\ RefundsBacked' /\ CaseHasProof'
    BY <1>3 DEF SubmitFilingCommit, Finish, Draft, Intent, Tx, NoGateway,
        NewDraft, NoIntent, NoTx
  <2>. QED BY <2>1, <2>2, <2>3
<1>4. CASE Abort(p)
  <2>1. TypeOK'
    BY <1>4, FinishTyped, RestingValues DEF Abort
  <2>2. ASSUME NEW q \in Proc PROVE LocalOK(q)'
    BY <1>4 DEF Abort, Finish, NewDraft
  <2>3. UncommittedOK' /\ PaidBeforeActing' /\ RefundsBacked' /\ CaseHasProof'
    BY <1>4 DEF Abort, Finish
  <2>. QED BY <2>1, <2>2, <2>3
<1>. QED BY <1>1, <1>2, <1>3, <1>4
\* Webhook and reconciler.
LEMMA CompletedWebhookStep ==
  ASSUME IInv, NEW p \in Proc, NEW s \in Session, CompletedWebhook(p, s)
  PROVE  IInv'
<1>1. CASE AlreadySettled
  <2>1. /\ acked' \in SUBSET Session
        /\ UNCHANGED <<stripeVars, dbVars, worldVars, localVars, lock, tx, aborts, lost>>
    BY <1>1 DEF CompletedWebhook, IInv, TypeOK
  <2>. QED BY <2>1
    DEF IInv, TypeOK, LocalOK, UncommittedOK, PaidBeforeActing, RefundsBacked, CaseHasProof,
        Captured, stripeVars, dbVars, worldVars, localVars
<1>2. CASE ~AlreadySettled
  <2>1. /\ Confirm(p, s, draft, TRUE) /\ lock = NoProc /\ s \in Captured /\ draft \in Draft
        /\ UNCHANGED <<stripeVars, acked, dbVars, worldVars, seen, aborts, lost>>
    BY <1>2 DEF CompletedWebhook, SessionPaid, Captured, IInv, TypeOK
  <2>2. draft.promoted /\ VerifierEnabled => onchain # {}
    BY DEF IInv, CaseHasProof
  <2>. QED BY <2>1, <2>2, ConfirmKeeps
<1>. QED BY <1>1, <1>2

LEMMA ReconcileBeginStep ==
  ASSUME IInv, NEW p \in Proc, NEW s \in Session, ReconcileBegin(p, s)
  PROVE  IInv'
<1>1. /\ pc' = [pc EXCEPT ![p] = "reconcile"] /\ sid' = [sid EXCEPT ![p] = s]
      /\ seenDraft' = [seenDraft EXCEPT ![p] = draft] /\ pc[p] = "idle"
      /\ UNCHANGED <<stripeVars, acked, dbVars, worldVars, seen, lock, tx, aborts, lost>>
  BY DEF ReconcileBegin
<1>2. Captured' = Captured
  BY <1>1 DEF Captured, stripeVars
<1>3. TypeOK'
  BY <1>1 DEF IInv, TypeOK, PC, stripeVars, dbVars, worldVars
<1>4. ASSUME NEW q \in Proc PROVE LocalOK(q)'
  BY <1>1, <1>2
     DEF IInv, TypeOK, LocalOK, PaidBeforeActing, CaseHasProof, HasSession, PipelinePC,
         stripeVars, dbVars, worldVars
<1>5. lock # p
  BY <1>1 DEF IInv, LocalOK, PipelinePC
<1>6. UncommittedOK'
  BY <1>1, <1>2, <1>5, NoProcAssumption
     DEF IInv, TypeOK, UncommittedOK, stripeVars, worldVars
<1>7. PaidBeforeActing' /\ RefundsBacked' /\ CaseHasProof'
  BY <1>1, <1>2
     DEF IInv, PaidBeforeActing, RefundsBacked, CaseHasProof, stripeVars, dbVars, worldVars
<1>. QED BY <1>3, <1>4, <1>6, <1>7 DEF IInv

LEMMA ReconcileLockedStep ==
  ASSUME IInv, NEW p \in Proc, ReconcileLocked(p)
  PROVE  IInv'
<1>1. /\ pc[p] = "reconcile" /\ lock = NoProc /\ sid[p] \in Session /\ seenDraft[p] \in Draft
      /\ UNCHANGED <<stripeVars, acked, draft, rows, artifact, chat, worldVars, aborts, lost>>
  BY DEF ReconcileLocked, IInv, TypeOK, LocalOK, HasSession
<1>2. CASE Confirm(p, sid[p], seenDraft[p], FALSE) /\ SessionPaid(sid[p])
           /\ UNCHANGED <<intent, seen>>
  <2>1. sid[p] \in Captured /\ UNCHANGED dbVars
    BY <1>1, <1>2 DEF SessionPaid, Captured, dbVars
  <2>2. seenDraft[p].promoted /\ VerifierEnabled => onchain # {}
    BY DEF IInv, LocalOK
  <2>. QED BY <1>1, <1>2, <2>1, <2>2, ConfirmKeeps
<1>3. CASE Finish(p) /\ intent' \in {intent, [intent EXCEPT !.status = "expired"]}
           /\ UNCHANGED <<lock, tx>>
  <2>1. intent' \in Intent /\ intent'.status \in {intent.status, "expired"}
    BY <1>3 DEF IInv, TypeOK, Intent, PaymentIntentStatus
  <2>2. Captured' = Captured
    BY <1>1 DEF Captured, stripeVars
  <2>3. TypeOK'
    BY <1>1, <1>3, <2>1, FinishTyped DEF IInv, TypeOK, stripeVars, worldVars
  <2>4. ASSUME NEW q \in Proc PROVE LocalOK(q)'
    BY <1>1, <1>3, <2>2
       DEF IInv, TypeOK, LocalOK, Finish, HasSession, PipelinePC, NewDraft, stripeVars, worldVars
  <2>5. UncommittedOK' /\ PaidBeforeActing' /\ RefundsBacked' /\ CaseHasProof'
    BY <1>1, <1>3, <2>1, <2>2
       DEF IInv, UncommittedOK, PaidBeforeActing, RefundsBacked, CaseHasProof, stripeVars,
           worldVars
  <2>. QED BY <2>3, <2>4, <2>5 DEF IInv
<1>. QED BY <1>2, <1>3 DEF ReconcileLocked

\* The status writes of the handlers above.
LEMMA StatusCommitStep ==
  ASSUME IInv, NEW p \in Proc,
         \/ ExpiredCommit(p) \/ PaymentFailedCommit(p)
         \/ ChargeRefundedCommit(p) \/ OperatorRefundCommit(p)
  PROVE  IInv'
<1>1. pc[p] \in {"chargeback", "refunding"} => refunded # {}
  BY DEF IInv, LocalOK
<1>2. CASE ExpiredCommit(p)
  BY <1>2, WriteStatusKeeps DEF ExpiredCommit, PipelinePC
<1>3. CASE PaymentFailedCommit(p)
  BY <1>3, WriteStatusKeeps DEF PaymentFailedCommit, PipelinePC
<1>4. CASE ChargeRefundedCommit(p)
  BY <1>1, <1>4, WriteStatusKeeps DEF ChargeRefundedCommit, PipelinePC
<1>5. CASE OperatorRefundCommit(p)
  BY <1>1, <1>5, WriteStatusKeeps DEF OperatorRefundCommit, PipelinePC
<1>. QED BY <1>2, <1>3, <1>4, <1>5

-----------------------------------------------------------------------------
\* IInv is inductive.
THEOREM Invariance == Spec => []IInv
<1>1. Init => IInv
  <2> SUFFICES ASSUME Init PROVE IInv
    OBVIOUS
  <2>1. TypeOK
    BY RestingValues, BoundsAssumption
       DEF Init, TypeOK, PC, Version, SessionStatus, ArtifactStatus
  <2>2. ASSUME NEW p \in Proc PROVE LocalOK(p)
    BY NoProcAssumption DEF Init, LocalOK, HasSession, PipelinePC, NewDraft
  <2>3. UncommittedOK /\ PaidBeforeActing /\ RefundsBacked /\ CaseHasProof
    BY DEF Init, UncommittedOK, PaidBeforeActing, RefundsBacked, CaseHasProof, NewDraft, NoIntent
  <2>. QED BY <2>1, <2>2, <2>3 DEF IInv
<1>2. IInv /\ [Next]_vars => IInv'
  <2> SUFFICES ASSUME IInv, [Next]_vars PROVE IInv'
    OBVIOUS
  <2>1. CASE UNCHANGED vars
    BY <2>1
       DEF vars, IInv, TypeOK, LocalOK, UncommittedOK, PaidBeforeActing, RefundsBacked,
           CaseHasProof, Captured, stripeVars, dbVars, worldVars, localVars
  <2>2. CASE Environment
    BY <2>2, EnvironmentStep
  <2>3. ASSUME NEW p \in Proc, Arrive(p) PROVE IInv'
    BY <2>3, CheckoutStep, StatusReadStep, ToolStep, CompletedWebhookStep, ReconcileBeginStep
       DEF Arrive
  <2>4. ASSUME NEW p \in Proc, Continue(p) PROVE IInv'
    BY <2>4, CheckoutStep, StatusCommitStep, ToolStep, ReconcileLockedStep, PipelineStep
       DEF Continue, Pipeline
  <2>5. ASSUME NEW p \in Proc, Abort(p) PROVE IInv'
    BY <2>5, ToolStep
  <2>. QED BY <2>1, <2>2, <2>3, <2>4, <2>5 DEF Next
<1>. QED BY <1>1, <1>2, PTL DEF Spec

\* Every variable keeps its type in every behaviour.
THEOREM TypeCorrect == Spec => []TypeOK
BY Invariance, PTL DEF IInv

\* Nothing is confirmed, filed, proved or promoted without captured money.
THEOREM NothingBeforePayment == Spec => []PaidBeforeActing
BY Invariance, PTL DEF IInv

\* A row says refunded only if Stripe returned captured money.
THEOREM RefundsAreBacked == Spec => []RefundsBacked
BY Invariance, PTL DEF IInv

\* No case is promoted without a compliance record on chain.
THEOREM NoCaseWithoutProof == Spec => []CaseHasProof
BY Invariance, PTL DEF IInv

-----------------------------------------------------------------------------
(* The lane implements the ledger.  A step of the lane that no other party *)
(* sees is a stutter of the ledger; IInv supplies the guards of the others.*)

Proved == {rec[1] : rec \in onchain}

\* Only these steps change what the ledger shows: a customer pays, somebody
\* refunds, an application is filed, a proof lands, a case is committed.
LEMMA Stutter ==
  ASSUME UNCHANGED <<sess, refunded, apps, onchain>>, draft'.promoted = draft.promoted
  PROVE  UNCHANGED Ledger!ledger
BY DEF Captured, Ledger!ledger

\* A session that is paid stays paid, and all of them count as captured.
LEMMA PaysCaptures ==
  ASSUME TypeOK, NEW s \in Session, CustomerPays(s)
  PROVE  Ledger!Capture(s)
BY DEF TypeOK, CustomerPays, Captured, Ledger!Capture, dbVars, worldVars

\* Opening a session captures nothing.
LEMMA OpenCapturesNothing ==
  ASSUME TypeOK, NEW p \in Proc, NEW s \in Session, CheckoutOpen(p, s)
  PROVE  Captured' = Captured
BY DEF TypeOK, CheckoutOpen, Captured

\* Whatever expires was not paid.
LEMMA ExpiryCapturesNothing ==
  ASSUME TypeOK, NEW s \in Session, SessionExpires(s)
  PROVE  Captured' = Captured
BY DEF TypeOK, SessionExpires, Captured

\* Stripe returns the money of one payment.
LEMMA RefundReturns ==
  ASSUME NEW s \in Captured, refunded' = refunded \cup {s},
         UNCHANGED <<sess, apps, onchain>>, draft'.promoted = draft.promoted
  PROVE  Ledger!Next
<1>1. Captured' = Captured /\ s \in Session
  BY DEF Captured
<1>2. Ledger!Return(s)
  BY <1>1 DEF Ledger!Return
<1>. QED BY <1>1, <1>2 DEF Ledger!Next

\* An application is filed when some payment was captured.
LEMMA FilingFiles ==
  ASSUME Captured # {}, apps' = apps + 1,
         UNCHANGED <<sess, refunded, onchain>>, draft'.promoted = draft.promoted
  PROVE  Ledger!Next
BY DEF Captured, Ledger!File, Ledger!Next

\* A record on chain proves the payment it is bound to.
LEMMA RecordProves ==
  ASSUME NEW s \in Captured, NEW v, onchain' = onchain \cup {<<s, v>>},
         UNCHANGED <<sess, refunded, apps>>, draft'.promoted = draft.promoted
  PROVE  Ledger!Next
<1>1. Captured' = Captured /\ s \in Session
  BY DEF Captured
<1>2. Proved' = Proved \cup {s}
  <2>1. Proved' = {rec[1] : rec \in onchain \cup {<<s, v>>}}
    BY DEF Proved
  <2>2. ASSUME NEW x PROVE x \in Proved' <=> x \in Proved \cup {s}
    <3>1. x \in Proved' <=> \E rec \in onchain \cup {<<s, v>>} : x = rec[1]
      BY <2>1
    <3>2. x \in Proved <=> \E rec \in onchain : x = rec[1]
      BY DEF Proved
    <3>3. (<<s, v>>)[1] = s
      OBVIOUS
    <3>. QED BY <3>1, <3>2, <3>3
  <2>. QED BY <2>2
<1>3. Ledger!Prove(s)
  BY <1>1, <1>2 DEF Ledger!Prove, Proved
<1>. QED BY <1>1, <1>3 DEF Ledger!Next

\* The commit of the pipeline opens a case, once it has money and proof.
LEMMA CommitOpens ==
  ASSUME IInv, NEW p \in Proc, PipelineCommit(p)
  PROVE  [Ledger!Next]_Ledger!ledger
<1>1. lock = p /\ Captured # {} /\ (tx.draft.promoted /\ VerifierEnabled => onchain # {})
  BY NoProcAssumption DEF IInv, LocalOK, UncommittedOK, PipelineCommit, PipelinePC
<1>2. draft \in Draft /\ tx.draft.promoted \in BOOLEAN /\ seenDraft[p].promoted \in BOOLEAN
      /\ (seenDraft[p].promoted = TRUE => tx.draft.promoted = TRUE)
  BY <1>1, NoProcAssumption DEF IInv, TypeOK, Tx, Draft, UncommittedOK
<1>3. UNCHANGED <<sess, refunded, apps, onchain>> /\ Captured' = Captured
  BY DEF PipelineCommit, stripeVars, worldVars, Captured
<1>4. draft'.promoted = IF tx.draft.promoted # seenDraft[p].promoted
                          THEN tx.draft.promoted ELSE draft.promoted
  BY <1>2 DEF PipelineCommit, Draft
<1>5. CASE draft'.promoted = draft.promoted
  BY <1>3, <1>5, Stutter
<1>6. CASE draft'.promoted = TRUE /\ tx.draft.promoted = TRUE
  <2>1. VerifierEnabled => Proved # {}
    BY <1>1, <1>6 DEF Proved
  <2>2. Ledger!OpenCase
    BY <1>1, <1>3, <1>6, <2>1 DEF Ledger!OpenCase, Proved
  <2>. QED BY <2>2 DEF Ledger!Next
<1>. QED BY <1>2, <1>4, <1>5, <1>6

\* Each step of the lane is a step of the ledger, or one it does not see.
LEMMA LedgerStep ==
  ASSUME IInv, [Next]_vars
  PROVE  [Ledger!Next]_Ledger!ledger
<1> TypeOK
  BY DEF IInv
<1>1. CASE UNCHANGED vars
  BY <1>1, Stutter DEF vars, stripeVars, dbVars, worldVars
<1>2. CASE Environment
  <2>1. CASE CreateCaseDraft \/ PreparePayment
    <3>1. draft'.promoted = draft.promoted
      BY <2>1 DEF CreateCaseDraft, PreparePayment, TypeOK, Draft
    <3>. QED BY <2>1, <3>1, Stutter DEF CreateCaseDraft, PreparePayment, stripeVars, worldVars
  <2>2. CASE IdempotencyKeyPruned
    BY <2>2, Stutter DEF IdempotencyKeyPruned, dbVars, worldVars
  <2>3. ASSUME NEW s \in Session, CustomerPays(s) PROVE Ledger!Next
    BY <2>3, PaysCaptures DEF Ledger!Next
  <2>4. ASSUME NEW s \in Session, CardDeclined(s) PROVE UNCHANGED Ledger!ledger
    BY <2>4, Stutter DEF CardDeclined, dbVars, worldVars
  <2>5. ASSUME NEW s \in Session, SessionExpires(s) PROVE UNCHANGED Ledger!ledger
    BY <2>5, ExpiryCapturesNothing DEF SessionExpires, dbVars, worldVars, Ledger!ledger
  <2>6. ASSUME NEW s \in Session, DashboardRefund(s) PROVE Ledger!Next
    BY <2>6, RefundReturns DEF DashboardRefund, dbVars, worldVars
  <2>. QED BY <1>2, <2>1, <2>2, <2>3, <2>4, <2>5, <2>6 DEF Environment
<1>3. ASSUME NEW p \in Proc, Arrive(p) PROVE [Ledger!Next]_Ledger!ledger
  <2>1. CASE OperatorRefund(p)
    BY <2>1, RefundReturns DEF OperatorRefund, dbVars, worldVars
  <2>2. CASE ~OperatorRefund(p)
    <3>1. UNCHANGED <<sess, refunded, apps, onchain, draft>>
      BY <1>3, <2>2 DEF Arrive, CheckoutBegin, SubmitFilingBegin, ExpiredRead,
         PaymentFailedRead, ChargeRefundedRead, Load, CompletedWebhook, ReconcileBegin,
         stripeVars, dbVars, worldVars
    <3>. QED BY <3>1, Stutter
  <2>. QED BY <2>1, <2>2
<1>4. ASSUME NEW p \in Proc, Continue(p) PROVE [Ledger!Next]_Ledger!ledger
  <2>1. ASSUME NEW s \in Session, CheckoutOpen(p, s) PROVE UNCHANGED Ledger!ledger
    BY <2>1, OpenCapturesNothing DEF CheckoutOpen, dbVars, worldVars, Ledger!ledger
  <2>2. CASE CheckoutCommit(p)
    <3>1. draft'.promoted = draft.promoted
      BY <2>2 DEF CheckoutCommit, TypeOK, Draft
    <3>. QED BY <2>2, <3>1, Stutter DEF CheckoutCommit, worldVars
  <2>3. CASE \/ CheckoutReject(p) \/ ExpiredCommit(p) \/ PaymentFailedCommit(p)
            \/ ChargeRefundedCommit(p) \/ OperatorRefundCommit(p) \/ ReconcileLocked(p)
            \/ SubmitFilingCommit(p)
    <3>1. UNCHANGED <<sess, refunded, apps, onchain, draft>>
      BY <2>3 DEF CheckoutReject, ExpiredCommit, PaymentFailedCommit, ChargeRefundedCommit,
         OperatorRefundCommit, WriteStatus, ReconcileLocked, SubmitFilingCommit, stripeVars,
         dbVars, worldVars
    <3>. QED BY <3>1, Stutter
  <2>4. CASE SubmitFilingCall(p)
    <3>1. UNCHANGED <<sess, refunded, onchain, draft>> /\ apps' \in {apps, apps + 1}
      BY <2>4 DEF SubmitFilingCall, LoseAnswer, stripeVars, dbVars
    <3>2. Captured # {}
      BY <2>4 DEF SubmitFilingCall, IInv, LocalOK
    <3>. QED BY <3>1, <3>2, FilingFiles, Stutter
  <2>5. ASSUME Pipeline(p) PROVE lock = p /\ tx.gpid.sess \in Captured
    <3>1. pc[p] \in PipelinePC
      BY <2>5 DEF Pipeline, AutoFile, _should_auto_refund, AutoRefund, GenerateProof, _run_prover, SubmitAttestation,
         PromoteDraft, PipelineCommit, PipelinePC
    <3>. QED BY <3>1, NoProcAssumption DEF IInv, LocalOK, UncommittedOK
  <2>6. CASE AutoFile(p)
    <3>1. UNCHANGED <<sess, refunded, onchain, draft>> /\ apps' \in {apps, apps + 1}
      BY <2>6 DEF AutoFile, _should_auto_refund, LoseAnswer, stripeVars, dbVars
    <3>. QED BY <2>5, <2>6, <3>1, FilingFiles, Stutter DEF Pipeline
  <2>7. CASE AutoRefund(p)
    <3>1. /\ UNCHANGED <<sess, apps, onchain, draft>>
          /\ refunded' \in {refunded, refunded \cup {tx.gpid.sess}}
      BY <2>7 DEF AutoRefund, dbVars, worldVars
    <3>. QED BY <2>5, <2>7, <3>1, RefundReturns, Stutter DEF Pipeline
  <2>8. CASE SubmitAttestation(p)
    <3>1. /\ UNCHANGED <<sess, refunded, apps, draft>>
          /\ onchain' \in {onchain, onchain \cup {<<tx.gpid.sess, tx.draft.ver>>}}
      BY <2>8 DEF SubmitAttestation, LoseAnswer, Digest, stripeVars, dbVars
    <3>. QED BY <2>5, <2>8, <3>1, RecordProves, Stutter DEF Pipeline
  <2>9. CASE GenerateProof(p) \/ PromoteDraft(p)
    BY <2>9, Stutter DEF GenerateProof, _run_prover, PromoteDraft, stripeVars, dbVars, worldVars
  <2>. QED
    BY <1>4, <2>1, <2>2, <2>3, <2>4, <2>6, <2>7, <2>8, <2>9, CommitOpens DEF Continue, Pipeline
<1>5. ASSUME NEW p \in Proc, Abort(p) PROVE UNCHANGED Ledger!ledger
  BY <1>5, Stutter DEF Abort, stripeVars, dbVars, worldVars
<1>. QED BY <1>1, <1>2, <1>3, <1>4, <1>5 DEF Next

\* Whatever requests, events and crashes interleave, the outside world sees the
\* ledger: money, then filings and proofs, then a case, and nothing undone.
THEOREM LaneImplementsLedger == Spec => ImplementsLedger
<1>1. Init => Ledger!Init
  BY DEF Init, Ledger!Init, Captured, NewDraft
<1>2. IInv /\ [Next]_vars => [Ledger!Next]_Ledger!ledger
  BY LedgerStep
<1>. QED BY <1>1, <1>2, Invariance, PTL DEF Spec, ImplementsLedger, Ledger!Spec
-----------------------------------------------------------------------------
(* Filings.  Every submitted row stands for an application of its own, and *)
(* so does every such row a request has yet to commit: the applications    *)
(* are at least as many as both together.                                  *)

\* Requests whose filing EUIPO accepted and whose row is not committed.
Unwritten == {q \in Proc : pc[q] = "tool_ok" \/ (lock = q /\ tx.row)}

FilingsCovered ==
  IsFiniteSet(Unwritten) /\ rows + Cardinality(Unwritten) <= apps

\* No request has got a row to commit by a step that files nothing.
LEMMA NothingFiled ==
  ASSUME TypeOK, FilingsCovered, Unwritten' \subseteq Unwritten,
         rows' = rows, apps' = apps \/ apps' = apps + 1
  PROVE  FilingsCovered'
<1>1. Unwritten' \in SUBSET Unwritten
  OBVIOUS
<1>2. IsFiniteSet(Unwritten') /\ Cardinality(Unwritten') <= Cardinality(Unwritten)
  BY <1>1, FS_Subset DEF FilingsCovered
<1>3. Cardinality(Unwritten) \in Nat /\ Cardinality(Unwritten') \in Nat
  BY <1>2, FS_CardinalityType DEF FilingsCovered
<1>. QED BY <1>2, <1>3 DEF TypeOK, FilingsCovered

\* The one request that files may owe the row of what it filed.
LEMMA OneFiled ==
  ASSUME TypeOK, FilingsCovered, NEW p \in Proc, Unwritten' \subseteq Unwritten \cup {p},
         rows' = rows, apps' = apps + 1
  PROVE  FilingsCovered'
<1>1. /\ IsFiniteSet(Unwritten \cup {p})
      /\ Cardinality(Unwritten \cup {p}) \in {Cardinality(Unwritten), Cardinality(Unwritten) + 1}
  BY FS_AddElement DEF FilingsCovered
<1>2. Unwritten' \in SUBSET (Unwritten \cup {p})
  OBVIOUS
<1>3. IsFiniteSet(Unwritten') /\ Cardinality(Unwritten') <= Cardinality(Unwritten \cup {p})
  BY <1>1, <1>2, FS_Subset
<1>4. Cardinality(Unwritten) \in Nat /\ Cardinality(Unwritten') \in Nat
  BY <1>3, FS_CardinalityType DEF FilingsCovered
<1>. QED BY <1>1, <1>3, <1>4 DEF TypeOK, FilingsCovered

\* A row that is committed is owed no longer.
LEMMA OneWritten ==
  ASSUME TypeOK, FilingsCovered, NEW p \in Unwritten, Unwritten' \subseteq Unwritten \ {p},
         rows' = rows + 1, apps' = apps
  PROVE  FilingsCovered'
<1>1. IsFiniteSet(Unwritten \ {p}) /\ Cardinality(Unwritten \ {p}) = Cardinality(Unwritten) - 1
  BY FS_RemoveElement DEF FilingsCovered
<1>2. Unwritten' \in SUBSET (Unwritten \ {p})
  OBVIOUS
<1>3. IsFiniteSet(Unwritten') /\ Cardinality(Unwritten') <= Cardinality(Unwritten \ {p})
  BY <1>1, <1>2, FS_Subset
<1>4. Cardinality(Unwritten) \in Nat /\ Cardinality(Unwritten') \in Nat
  BY <1>3, FS_CardinalityType DEF FilingsCovered
<1>. QED BY <1>1, <1>3, <1>4 DEF TypeOK, FilingsCovered

\* A request that comes to rest, or to a stage where it has nothing to commit, owes
\* nothing new.
LEMMA OwesNothingNew ==
  ASSUME NEW p \in Proc, pc'[p] # "tool_ok", \A q \in Proc \ {p} : pc'[q] = pc[q],
         \/ lock' = NoProc
         \/ lock' = p /\ ~tx'.row
         \/ lock' = lock /\ tx'.row = tx.row
  PROVE  Unwritten' \subseteq Unwritten
BY NoProcAssumption DEF Unwritten

\* Only the filing marks the row in the open transaction.
LEMMA RowStays ==
  ASSUME tx \in Tx, NEW p \in Proc,
         AutoRefund(p) \/ GenerateProof(p) \/ SubmitAttestation(p) \/ PromoteDraft(p)
  PROVE  tx'.row = tx.row
<1>1. CASE AutoRefund(p)
  BY <1>1 DEF AutoRefund, Tx
<1>2. CASE GenerateProof(p)
  BY <1>2 DEF GenerateProof, Tx
<1>3. CASE SubmitAttestation(p)
  BY <1>3 DEF SubmitAttestation, Tx
<1>4. CASE PromoteDraft(p)
  BY <1>4 DEF PromoteDraft, Tx
<1>. QED BY <1>1, <1>2, <1>3, <1>4

\* The pipeline owes the row of the application it files, until it commits.
LEMMA PipelineCovers ==
  ASSUME IInv, FilingsCovered, NEW p \in Proc, Pipeline(p)
  PROVE  FilingsCovered'
<1>1. TypeOK /\ tx \in Tx /\ pc[p] \in PipelinePC
  BY DEF IInv, TypeOK, Pipeline, AutoFile, AutoRefund, GenerateProof, SubmitAttestation,
         PromoteDraft, PipelineCommit, PipelinePC
<1>2. lock = p /\ p # NoProc
  BY <1>1, NoProcAssumption DEF IInv, LocalOK
<1>3. ASSUME NEW label \in PipelinePC, pc' = [pc EXCEPT ![p] = label]
      PROVE  pc'[p] # "tool_ok" /\ \A q \in Proc \ {p} : pc'[q] = pc[q]
  BY <1>1, <1>3 DEF TypeOK, PipelinePC
<1>4. CASE AutoFile(p)
  <2>1. PICK label \in PipelinePC : pc' = [pc EXCEPT ![p] = label]
    BY <1>4 DEF AutoFile, Goto, _should_auto_refund, PipelinePC
  <2>2. rows' = rows /\ lock' = lock
    BY <1>4 DEF AutoFile, dbVars
  <2>3. CASE tx' = tx
    <3>1. Unwritten' \subseteq Unwritten
      BY <1>3, <2>1, <2>2, <2>3, OwesNothingNew
    <3>2. apps' = apps \/ apps' = apps + 1
      BY <1>4 DEF AutoFile, LoseAnswer
    <3>. QED BY <1>1, <2>2, <3>1, <3>2, NothingFiled
  <2>4. CASE tx' # tx
    <3>1. apps' = apps + 1
      BY <1>4, <2>4 DEF AutoFile
    <3>2. Unwritten' \subseteq Unwritten \cup {p}
      BY <1>2, <1>3, <2>1, <2>2 DEF Unwritten
    <3>. QED BY <1>1, <2>2, <3>1, <3>2, OneFiled
  <2>. QED BY <2>3, <2>4
<1>5. CASE AutoRefund(p) \/ GenerateProof(p) \/ SubmitAttestation(p) \/ PromoteDraft(p)
  <2>1. PICK label \in PipelinePC : pc' = [pc EXCEPT ![p] = label]
    BY <1>5 DEF AutoRefund, GenerateProof, SubmitAttestation, PromoteDraft, Goto,
                AfterFailedProof, PipelinePC
  <2>2. rows' = rows /\ apps' = apps /\ lock' = lock
    BY <1>5 DEF AutoRefund, GenerateProof, SubmitAttestation, PromoteDraft, dbVars, worldVars
  <2>3. tx'.row = tx.row
    BY <1>1, <1>5, RowStays
  <2>4. Unwritten' \subseteq Unwritten
    BY <1>3, <2>1, <2>2, <2>3, OwesNothingNew
  <2>. QED BY <1>1, <2>2, <2>4, NothingFiled
<1>6. CASE PipelineCommit(p)
  <2>1. /\ pc' = [pc EXCEPT ![p] = "idle"] /\ lock' = NoProc /\ apps' = apps
        /\ rows' = IF tx.row THEN rows + 1 ELSE rows
    BY <1>6 DEF PipelineCommit, Finish, worldVars
  <2>2. Unwritten' \subseteq Unwritten \ {p}
    BY <1>1, <2>1, NoProcAssumption DEF Unwritten, TypeOK
  <2>3. CASE tx.row
    BY <1>1, <1>2, <2>1, <2>2, <2>3, OneWritten DEF Unwritten
  <2>4. CASE ~tx.row
    BY <1>1, <2>1, <2>2, <2>4, NothingFiled
  <2>. QED BY <2>3, <2>4
<1>. QED BY <1>4, <1>5, <1>6 DEF Pipeline

\* So does the tool, between EUIPO's answer and its own commit.
LEMMA ToolCovers ==
  ASSUME IInv, FilingsCovered, NEW p \in Proc,
         SubmitFilingCall(p) \/ SubmitFilingCommit(p)
  PROVE  FilingsCovered'
<1>1. TypeOK
  BY DEF IInv
<1>2. lock' = lock /\ tx' = tx /\ lock # p
  BY DEF SubmitFilingCall, SubmitFilingCommit, IInv, LocalOK, PipelinePC
<1>3. PICK label \in {"idle", "tool_ok"} : pc' = [pc EXCEPT ![p] = label]
  BY DEF SubmitFilingCall, SubmitFilingCommit, Goto, Finish
<1>4. /\ Unwritten' \subseteq Unwritten \cup {p}
      /\ label = "idle" => Unwritten' \subseteq Unwritten \ {p}
  BY <1>1, <1>2, <1>3 DEF TypeOK, Unwritten
<1>5. CASE SubmitFilingCall(p)
  <2>1. rows' = rows /\ (apps' = apps + 1 \/ (apps' = apps /\ Finish(p)))
    BY <1>1, <1>5 DEF SubmitFilingCall, LoseAnswer, dbVars, TypeOK
  <2>2. CASE apps' = apps + 1
    BY <1>1, <1>4, <2>1, <2>2, OneFiled
  <2>3. Finish(p) => label = "idle"
    <3>1. Finish(p) => pc' = [pc EXCEPT ![p] = "idle"]
      BY DEF Finish
    <3>. QED BY <1>1, <1>3, <3>1 DEF TypeOK
  <2>4. CASE apps' = apps /\ Finish(p)
    BY <1>1, <1>4, <2>1, <2>3, <2>4, NothingFiled
  <2>. QED BY <2>1, <2>2, <2>4
<1>6. CASE SubmitFilingCommit(p)
  <2>1. rows' = rows + 1 /\ apps' = apps /\ pc[p] = "tool_ok" /\ pc'[p] = "idle"
    BY <1>1, <1>6 DEF SubmitFilingCommit, Finish, worldVars, TypeOK
  <2>2. p \in Unwritten /\ label = "idle"
    BY <1>1, <1>3, <2>1 DEF Unwritten, TypeOK
  <2>. QED BY <1>1, <1>4, <2>1, <2>2, OneWritten
<1>. QED BY <1>5, <1>6

\* All other steps of a request.
Elsewhere(p) ==
  \/ Arrive(p) \/ Abort(p) \/ ReconcileLocked(p) \/ OperatorRefundCommit(p)
  \/ \E s \in Session : CheckoutOpen(p, s)
  \/ CheckoutReject(p) \/ CheckoutCommit(p)
  \/ ExpiredCommit(p) \/ PaymentFailedCommit(p) \/ ChargeRefundedCommit(p)

\* They neither file nor write a row, and have none to commit.
LEMMA ElsewhereFilesNothing ==
  ASSUME IInv, NEW p \in Proc, Elsewhere(p)
  PROVE  /\ rows' = rows /\ apps' = apps
         /\ \/ pc' = pc
            \/ \E label \in PC \ {"tool_ok"} :
                 pc' = [pc EXCEPT ![p] = label] /\ (label = "tool" => ~Filed)
         /\ \/ lock' = lock /\ tx' = tx
            \/ lock' = NoProc
            \/ lock' = p /\ ~tx'.row
<1>1. rows' = rows /\ apps' = apps
  BY DEF Elsewhere, Arrive, CheckoutBegin, OperatorRefund, SubmitFilingBegin, ExpiredRead,
         PaymentFailedRead, ChargeRefundedRead, Load, CompletedWebhook, ReconcileBegin, Abort,
         ReconcileLocked, OperatorRefundCommit, CheckoutOpen, CheckoutReject, CheckoutCommit,
         ExpiredCommit, PaymentFailedCommit, ChargeRefundedCommit, WriteStatus, dbVars, worldVars
<1>2. CASE \E s \in Session, d \in {draft, seenDraft[p]}, h \in BOOLEAN : Confirm(p, s, d, h)
  <2>1. lock' = p /\ ~tx'.row
    BY <1>2 DEF Confirm
  <2>2. pc' = [pc EXCEPT ![p] = "file"] \/ pc' = [pc EXCEPT ![p] = "commit"]
    BY <1>2 DEF Confirm
  <2>. QED BY <1>1, <2>1, <2>2 DEF PC
<1>3. CASE Finish(p) /\ ((lock' = lock /\ tx' = tx) \/ lock' = NoProc)
  <2>1. pc' = [pc EXCEPT ![p] = "idle"]
    BY <1>3 DEF Finish
  <2>2. "idle" \in PC \ {"tool_ok"} /\ "idle" # "tool"
    BY DEF PC
  <2>3. (lock' = lock /\ tx' = tx) \/ lock' = NoProc
    BY <1>3
  <2>. QED BY <1>1, <2>1, <2>2, <2>3, Zenon
<1>4. CASE \E s \in Session : CompletedWebhook(p, s)
  BY <1>1, <1>2, <1>4 DEF CompletedWebhook, localVars
<1>5. CASE ReconcileLocked(p)
  <2>1. sid[p] \in Session
    BY <1>5 DEF IInv, LocalOK, HasSession, ReconcileLocked
  <2>. QED BY <1>2, <1>3, <1>5, <2>1 DEF ReconcileLocked
<1>6. CASE \/ Abort(p) \/ CheckoutReject(p) \/ CheckoutCommit(p) \/ ExpiredCommit(p)
           \/ PaymentFailedCommit(p) \/ ChargeRefundedCommit(p) \/ OperatorRefundCommit(p)
  BY <1>3, <1>6 DEF Abort, CheckoutReject, CheckoutCommit, ExpiredCommit, PaymentFailedCommit,
       ChargeRefundedCommit, OperatorRefundCommit, WriteStatus
<1>7. CASE SubmitFilingBegin(p)
  BY <1>1, <1>7 DEF SubmitFilingBegin, PC
<1>8. CASE \/ CheckoutBegin(p) \/ OperatorRefund(p) \/ \E s \in Session : CheckoutOpen(p, s)
           \/ \E s \in Session : \/ ExpiredRead(p, s) \/ PaymentFailedRead(p, s)
                                \/ ChargeRefundedRead(p, s) \/ ReconcileBegin(p, s)
  <2>1. PICK label \in {"checkout", "opened", "refunding", "expire", "decline", "chargeback",
                        "reconcile"} : pc' = [pc EXCEPT ![p] = label]
    BY <1>8 DEF CheckoutBegin, OperatorRefund, CheckoutOpen, ExpiredRead, PaymentFailedRead,
         ChargeRefundedRead, Load, ReconcileBegin
  <2>2. lock' = lock /\ tx' = tx
    BY <1>8 DEF CheckoutBegin, OperatorRefund, CheckoutOpen, ExpiredRead, PaymentFailedRead,
         ChargeRefundedRead, Load, ReconcileBegin
  <2>. QED BY <1>1, <2>1, <2>2 DEF PC
<1>. QED BY <1>4, <1>5, <1>6, <1>7, <1>8 DEF Elsewhere, Arrive

LEMMA ElsewhereCovers ==
  ASSUME IInv, FilingsCovered, NEW p \in Proc, Elsewhere(p)
  PROVE  FilingsCovered'
<1>1. pc \in [Proc -> PC]
  BY DEF IInv, TypeOK
<1>2. pc' = pc \/ (pc'[p] # "tool_ok" /\ \A q \in Proc \ {p} : pc'[q] = pc[q])
  BY <1>1, ElsewhereFilesNothing
<1>3. Unwritten' \subseteq Unwritten
  BY <1>2, ElsewhereFilesNothing, NoProcAssumption DEF Unwritten
<1>. QED BY <1>3, ElsewhereFilesNothing, NothingFiled DEF IInv

\* Whatever the chat, the customer, Stripe and an operator do.
LEMMA EnvironmentCovers ==
  ASSUME IInv, FilingsCovered, Environment \/ UNCHANGED vars
  PROVE  FilingsCovered'
<1>1. rows' = rows /\ apps' = apps /\ pc' = pc /\ lock' = lock /\ tx' = tx
  BY DEF Environment, CreateCaseDraft, PreparePayment, IdempotencyKeyPruned, CustomerPays,
         CardDeclined, SessionExpires, DashboardRefund, vars, dbVars, worldVars, localVars
<1>2. Unwritten' \subseteq Unwritten
  BY <1>1 DEF Unwritten
<1>. QED BY <1>1, <1>2, NothingFiled DEF IInv

\* No row is submitted that EUIPO did not accept, whoever filed it and whatever was
\* lost or rolled back in between.
THEOREM EveryRowWasFiled == Spec => []NoPhantomFiling
<1>1. Init => FilingsCovered
  <2> SUFFICES ASSUME Init PROVE FilingsCovered
    OBVIOUS
  <2>1. Unwritten = {}
    BY NoProcAssumption DEF Init, Unwritten
  <2>. QED BY <2>1, FS_EmptySet DEF Init, FilingsCovered
<1>2. IInv /\ FilingsCovered /\ [Next]_vars => FilingsCovered'
  <2> SUFFICES ASSUME IInv, FilingsCovered, [Next]_vars PROVE FilingsCovered'
    OBVIOUS
  <2>1. ASSUME NEW p \in Proc, Continue(p) PROVE FilingsCovered'
    BY <2>1, PipelineCovers, ToolCovers, ElsewhereCovers DEF Continue, Elsewhere
  <2>2. ASSUME NEW p \in Proc, Arrive(p) \/ Abort(p) PROVE FilingsCovered'
    BY <2>2, ElsewhereCovers DEF Elsewhere
  <2>. QED BY <2>1, <2>2, EnvironmentCovers DEF Next
<1>3. IInv /\ FilingsCovered => NoPhantomFiling
  <2> SUFFICES ASSUME IInv, FilingsCovered PROVE rows <= apps
    BY DEF NoPhantomFiling
  <2>1. Cardinality(Unwritten) \in Nat
    BY FS_CardinalityType DEF FilingsCovered
  <2>. QED BY <2>1 DEF IInv, TypeOK, FilingsCovered
<1>. QED BY <1>1, <1>2, <1>3, Invariance, PTL DEF Spec

-----------------------------------------------------------------------------
(* One request at a time.  Nothing then changes the intent or the books    *)
(* while the request waits for Stripe, EUIPO or the chain: what it loaded  *)
(* is what it will overwrite.                                              *)

\* A row that is to be committed is the first.
BooksAlone(r) ==
  /\ rows <= 1
  /\ lock # NoProc /\ tx.row => rows = 0
  /\ pc[r] \in {"tool", "tool_ok"} => rows = 0

\* The chat has confirmed exactly what the marker in the intent says it has.
ConfirmedAlone(r) ==
  /\ pc[r] \in {"opened", "expire", "decline", "chargeback", "refunding"} => seen[r] = intent
  /\ chat = IF intent.done THEN 1 ELSE 0
  /\ lock # NoProc => ~intent.done
  /\ intent.done => Captured # {}
  /\ IsFiniteSet(Captured)

\* The row lock is held by this request or by nobody.
LEMMA AloneLock ==
  ASSUME NEW r, Proc = {r}, IInv
  PROVE  /\ r \in Proc /\ r # NoProc /\ lock \in {r, NoProc}
         /\ lock = r <=> pc[r] \in PipelinePC
BY NoProcAssumption DEF IInv, TypeOK, LocalOK

LEMMA BooksStep ==
  ASSUME NEW r, Proc = {r}, IInv, BooksAlone(r), [Next]_vars
  PROVE  BooksAlone(r)'
<1>1. /\ r \in Proc /\ r # NoProc /\ lock \in {r, NoProc}
      /\ lock = r <=> pc[r] \in PipelinePC
      /\ pc \in [Proc -> PC] /\ rows \in Nat /\ tx \in Tx
  BY AloneLock DEF IInv, TypeOK
<1>2. CASE Environment \/ UNCHANGED vars
  BY <1>2 DEF BooksAlone, Environment, CreateCaseDraft, PreparePayment, IdempotencyKeyPruned,
       CustomerPays, CardDeclined, SessionExpires, DashboardRefund, vars, dbVars, localVars
<1>3. CASE Elsewhere(r)
  BY <1>1, <1>3, ElsewhereFilesNothing DEF BooksAlone, Filed
<1>4. CASE SubmitFilingCall(r) \/ SubmitFilingCommit(r)
  BY <1>1, <1>4 DEF BooksAlone, SubmitFilingCall, SubmitFilingCommit, Goto, Finish, dbVars,
       PipelinePC
<1>5. CASE AutoFile(r)
  <2>1. rows' = rows /\ pc' \in [Proc -> PipelinePC]
    BY <1>1, <1>5 DEF AutoFile, Goto, _should_auto_refund, dbVars, PipelinePC
  <2>2. tx' = tx \/ rows = 0
    BY <1>1, <1>5 DEF AutoFile, Filed
  <2>3. lock' = lock
    BY <1>5 DEF AutoFile
  <2>. QED BY <1>1, <2>1, <2>2, <2>3 DEF BooksAlone, PipelinePC
<1>6. CASE AutoRefund(r) \/ GenerateProof(r) \/ SubmitAttestation(r) \/ PromoteDraft(r)
  <2>1. rows' = rows /\ lock' = lock /\ pc' \in [Proc -> PipelinePC]
    BY <1>1, <1>6 DEF AutoRefund, GenerateProof, SubmitAttestation, PromoteDraft, Goto,
         AfterFailedProof, dbVars, PipelinePC
  <2>2. tx'.row = tx.row
    BY <1>1, <1>6, RowStays
  <2>. QED BY <1>1, <2>1, <2>2 DEF BooksAlone, PipelinePC
<1>7. CASE PipelineCommit(r)
  BY <1>1, <1>7 DEF BooksAlone, PipelineCommit, Finish, PipelinePC
<1>. QED
  BY <1>1, <1>2, <1>3, <1>4, <1>5, <1>6, <1>7
  DEF Next, Continue, Pipeline, Elsewhere

\* With one request at a time a draft's books show one filing at most.
THEOREM AloneFiledOnce ==
  ASSUME NEW CONSTANT r, Proc = {r}
  PROVE  Spec => []FiledOnceInBooks
<1>1. Init => BooksAlone(r)
  BY DEF Init, BooksAlone
<1>2. IInv /\ BooksAlone(r) /\ [Next]_vars => BooksAlone(r)'
  BY BooksStep
<1>3. BooksAlone(r) => FiledOnceInBooks
  BY DEF BooksAlone, FiledOnceInBooks
<1>. QED BY <1>1, <1>2, <1>3, Invariance, PTL DEF Spec

\* Only a payment changes what Stripe has captured.
LEMMA CapturedGrows ==
  ASSUME TypeOK, [Next]_vars
  PROVE  \/ Captured' = Captured
         \/ \E s \in Session : CustomerPays(s) /\ Captured' = Captured \cup {s}
<1>1. ASSUME NEW s \in Session, CustomerPays(s) PROVE Captured' = Captured \cup {s}
  BY <1>1 DEF TypeOK, CustomerPays, Captured
<1>2. CASE \E s \in Session : SessionExpires(s)
  BY <1>2, ExpiryCapturesNothing
<1>3. CASE \E p \in Proc, s \in Session : CheckoutOpen(p, s)
  BY <1>3, OpenCapturesNothing
<1>4. CASE sess' = sess
  BY <1>4 DEF Captured
<1>5. CASE Environment \/ UNCHANGED vars
  BY <1>1, <1>2, <1>4, <1>5
  DEF Environment, CreateCaseDraft, PreparePayment, IdempotencyKeyPruned, CardDeclined,
      DashboardRefund, vars, stripeVars
<1>6. ASSUME NEW p \in Proc, Arrive(p) \/ Abort(p) \/ Continue(p)
      PROVE  sess' = sess \/ \E s \in Session : CheckoutOpen(p, s)
  BY <1>6
  DEF Arrive, CheckoutBegin, OperatorRefund, SubmitFilingBegin, ExpiredRead, PaymentFailedRead,
      ChargeRefundedRead, Load, CompletedWebhook, ReconcileBegin, Abort, Continue,
      ReconcileLocked, OperatorRefundCommit, CheckoutReject, CheckoutCommit, ExpiredCommit,
      PaymentFailedCommit, ChargeRefundedCommit, WriteStatus, Pipeline, AutoFile, AutoRefund,
      GenerateProof, SubmitAttestation, PromoteDraft, PipelineCommit, SubmitFilingCall,
      SubmitFilingCommit, stripeVars
<1>. QED BY <1>3, <1>4, <1>5, <1>6 DEF Next

LEMMA ConfirmedStep ==
  ASSUME NEW r, Proc = {r}, IInv, ConfirmedAlone(r), [Next]_vars
  PROVE  ConfirmedAlone(r)'
<1>1. /\ r \in Proc /\ r # NoProc /\ lock \in {r, NoProc}
      /\ lock = r <=> pc[r] \in PipelinePC
      /\ pc \in [Proc -> PC] /\ seen \in [Proc -> Intent]
      /\ intent \in Intent /\ chat \in Nat /\ tx \in Tx
  BY AloneLock DEF IInv, TypeOK
<1>2. IsFiniteSet(Captured') /\ Captured \subseteq Captured'
  BY CapturedGrows, FS_AddElement DEF IInv, ConfirmedAlone
<1>3. \/ Environment \/ UNCHANGED vars
      \/ Arrive(r) \/ Abort(r) \/ CheckoutReject(r) \/ \E s \in Session : CheckoutOpen(r, s)
      \/ CheckoutCommit(r) \/ ReconcileLocked(r)
      \/ ExpiredCommit(r) \/ PaymentFailedCommit(r) \/ ChargeRefundedCommit(r)
      \/ OperatorRefundCommit(r) \/ SubmitFilingCall(r) \/ SubmitFilingCommit(r)
      \/ AutoFile(r) \/ AutoRefund(r) \/ GenerateProof(r) \/ SubmitAttestation(r)
      \/ PromoteDraft(r) \/ PipelineCommit(r)
  BY DEF Next, Continue, Pipeline
<1> USE <1>1, <1>2 DEF ConfirmedAlone, PipelinePC
<1>4. CASE Environment \/ UNCHANGED vars
  BY <1>4 DEF Environment, CreateCaseDraft, PreparePayment, IdempotencyKeyPruned, CustomerPays,
       CardDeclined, SessionExpires, DashboardRefund, vars, dbVars, localVars
<1>5. CASE Arrive(r)
  BY <1>5 DEF Arrive, CheckoutBegin, OperatorRefund, SubmitFilingBegin, ExpiredRead,
       PaymentFailedRead, ChargeRefundedRead, Load, CompletedWebhook, Confirm, AlreadySettled,
       ReconcileBegin, dbVars, localVars
<1>6. CASE Abort(r) \/ CheckoutReject(r)
  BY <1>6 DEF Abort, CheckoutReject, Finish, dbVars
<1>7. CASE \E s \in Session : CheckoutOpen(r, s)
  BY <1>7 DEF CheckoutOpen, dbVars
<1>8. CASE CheckoutCommit(r)
  <2>1. pc[r] = "opened" /\ pc' = [pc EXCEPT ![r] = "idle"] /\ chat' = chat /\ lock' = lock
    BY <1>8 DEF CheckoutCommit, Finish
  <2>2. intent'.done = intent.done
    BY <2>1, <1>8 DEF CheckoutCommit
  <2>. QED BY <2>1, <2>2
<1>9. CASE ReconcileLocked(r)
  <2>1. chat' = chat
    BY <1>9 DEF ReconcileLocked
  <2>2. intent'.done = intent.done
    BY <1>9 DEF ReconcileLocked, Intent
  <2>3. pc'[r] \in {"idle", "file", "commit"}
    BY <1>9 DEF ReconcileLocked, Finish, Confirm
  <2>4. lock' # NoProc => ~intent.done
    BY <1>9 DEF ReconcileLocked, AlreadySettled
  <2>. QED BY <2>1, <2>2, <2>3, <2>4
<1>10. CASE \/ ExpiredCommit(r) \/ PaymentFailedCommit(r) \/ ChargeRefundedCommit(r)
            \/ OperatorRefundCommit(r)
  <2>1. PICK st \in PaymentIntentStatus, b \in BOOLEAN : WriteStatus(r, st, b)
    BY <1>10 DEF ExpiredCommit, PaymentFailedCommit, ChargeRefundedCommit,
         OperatorRefundCommit, PaymentIntentStatus
  <2>2. seen[r] = intent
    BY <1>10 DEF ExpiredCommit, PaymentFailedCommit, ChargeRefundedCommit,
         OperatorRefundCommit
  <2>3. intent'.done = intent.done
    BY <2>1, <2>2 DEF WriteStatus, Intent
  <2>4. chat' = chat /\ lock' = lock /\ pc' = [pc EXCEPT ![r] = "idle"]
    BY <2>1 DEF WriteStatus, Finish
  <2>. QED BY <2>3, <2>4
<1>11. CASE SubmitFilingCall(r) \/ SubmitFilingCommit(r)
  BY <1>11 DEF SubmitFilingCall, SubmitFilingCommit, Goto, Finish, dbVars
<1>12. CASE AutoFile(r) \/ AutoRefund(r) \/ GenerateProof(r) \/ SubmitAttestation(r)
            \/ PromoteDraft(r)
  BY <1>12 DEF AutoFile, AutoRefund, GenerateProof, SubmitAttestation, PromoteDraft, Goto,
       _should_auto_refund, AfterFailedProof, dbVars
<1>13. CASE PipelineCommit(r)
  <2>1. lock = r /\ ~intent.done /\ chat = 0 /\ Captured # {}
    BY <1>13 DEF PipelineCommit, IInv, UncommittedOK
  <2>2. pc' = [pc EXCEPT ![r] = "idle"] /\ lock' = NoProc /\ intent'.done = tx.done
    BY <1>13 DEF PipelineCommit, Finish, Intent
  <2>3. chat' = IF tx.done THEN 1 ELSE 0
    BY <2>1, <1>13 DEF PipelineCommit
  <2>. QED BY <2>1, <2>2, <2>3
<1>. QED BY <1>3, <1>4, <1>5, <1>6, <1>7, <1>8, <1>9, <1>10, <1>11, <1>12, <1>13

\* With one request at a time no payment is confirmed to the customer twice: the
\* marker and the message are committed together, and nothing stale resets it.
THEOREM AloneConfirmedOnce ==
  ASSUME NEW CONSTANT r, Proc = {r}
  PROVE  Spec => []OneConfirmationPerPayment
<1>1. Init => ConfirmedAlone(r)
  <2> SUFFICES ASSUME Init PROVE ConfirmedAlone(r)
    OBVIOUS
  <2>1. Captured = {}
    BY DEF Init, Captured
  <2>. QED BY <2>1, FS_EmptySet DEF Init, ConfirmedAlone, NoIntent
<1>2. IInv /\ ConfirmedAlone(r) /\ [Next]_vars => ConfirmedAlone(r)'
  BY ConfirmedStep
<1>3. ConfirmedAlone(r) => OneConfirmationPerPayment
  <2> SUFFICES ASSUME ConfirmedAlone(r) PROVE chat <= Cardinality(Captured)
    BY DEF OneConfirmationPerPayment
  <2>1. Cardinality(Captured) \in Nat /\ (intent.done => Cardinality(Captured) # 0)
    BY FS_CardinalityType, FS_EmptySet DEF ConfirmedAlone
  <2>. QED BY <2>1 DEF ConfirmedAlone
<1>. QED BY <1>1, <1>2, <1>3, Invariance, PTL DEF Spec

\* A payment whose draft is no longer paid is one for contents since edited.
PaidOrEdited(s) == draft.status = "paid" \/ draft.ver > sessVer[s]

\* Sessions carry the contents they were opened for; a draft that must be validated
\* again differs from all that a customer was shown.
SessionsAreOfDraft ==
  /\ \A s \in Session : sess[s] # "none" => sessVer[s] <= draft.ver
  /\ \A s \in shown : sess[s] # "none" /\ (draft.status = "validated" => draft.ver > sessVer[s])
  /\ Captured \subseteq shown /\ shown \subseteq Session
  /\ idem # NoSession => sess[idem] # "none"

\* What a checkout knows of the draft and of the session it has opened.
CheckoutKnows(r) ==
  /\ pc[r] \in {"checkout", "opened"} =>
       /\ draft.status # "paid" /\ seenDraft[r].status # "paid"
       /\ seenDraft[r].ver <= draft.ver
       /\ seenDraft[r].status = "awaiting_payment" /\ draft.status = "validated"
            => draft.ver > seenDraft[r].ver
  /\ pc[r] = "opened" => sess[sid[r]] # "none" /\ sessVer[sid[r]] = seenDraft[r].ver

\* What a reconciliation has loaded, and what a handler of a failure has seen.
HandlersKnow(r) ==
  /\ pc[r] = "reconcile" =>
       sid[r] \in shown /\ (seenDraft[r].status # "awaiting_payment" => PaidOrEdited(sid[r]))
  /\ pc[r] \in {"expire", "decline"} => intent.status # "confirmed"

\* A pipeline makes the draft paid unless that is done, or the draft was edited.
PipelineSettles(r) ==
  lock # NoProc =>
    /\ tx.gpid.sess \in shown
    /\ tx.draft.status # seenDraft[r].status => tx.draft.status = "paid"
    /\ tx.draft.status = seenDraft[r].status => PaidOrEdited(tx.gpid.sess)

ConfirmedIsSettled ==
  intent.status = "confirmed" => intent.gpid.sess \in shown /\ PaidOrEdited(intent.gpid.sess)

DraftAlone(r) ==
  CheckoutKnows(r) /\ HandlersKnow(r) /\ PipelineSettles(r) /\ ConfirmedIsSettled

EditsAlone(r) == SessionsAreOfDraft /\ ConfirmedAlone(r) /\ DraftAlone(r)

\* The steps of one request, and of nobody.
LEMMA AloneSteps ==
  ASSUME NEW r, Proc = {r}, [Next]_vars
  PROVE  \/ Environment \/ UNCHANGED vars
         \/ CheckoutBegin(r) \/ OperatorRefund(r) \/ SubmitFilingBegin(r)
         \/ \E s \in Session : ExpiredRead(r, s) \/ PaymentFailedRead(r, s)
                              \/ ChargeRefundedRead(r, s)
         \/ \E s \in Session : CompletedWebhook(r, s)
         \/ \E s \in Session : ReconcileBegin(r, s)
         \/ \E s \in Session : CheckoutOpen(r, s)
         \/ Abort(r) \/ CheckoutReject(r) \/ CheckoutCommit(r) \/ ReconcileLocked(r)
         \/ ExpiredCommit(r) \/ PaymentFailedCommit(r) \/ ChargeRefundedCommit(r)
         \/ OperatorRefundCommit(r) \/ SubmitFilingCall(r) \/ SubmitFilingCommit(r)
         \/ AutoFile(r) \/ AutoRefund(r) \/ GenerateProof(r) \/ SubmitAttestation(r)
         \/ PromoteDraft(r) \/ PipelineCommit(r)
BY DEF Next, Arrive, Continue, Pipeline

\* The draft and Stripe's sessions are left alone by all steps but these.
LEMMA RowsAtRest ==
  ASSUME NEW r, Proc = {r}, [Next]_vars
  PROVE  \/ UNCHANGED <<sess, sessVer, idem, shown, draft>>
         \/ Environment /\ UNCHANGED <<intent, localVars, lock, tx>>
         \/ \E s \in Session : CheckoutOpen(r, s)
         \/ CheckoutCommit(r) \/ PipelineCommit(r)
<1>1. CASE Environment
  BY <1>1 DEF Environment, CreateCaseDraft, PreparePayment, IdempotencyKeyPruned, CustomerPays,
       CardDeclined, SessionExpires, DashboardRefund, dbVars
<1>2. CASE UNCHANGED vars
  BY <1>2 DEF vars, stripeVars, dbVars
<1>3. CASE \/ CheckoutBegin(r) \/ OperatorRefund(r) \/ SubmitFilingBegin(r)
           \/ \E s \in Session : ExpiredRead(r, s) \/ PaymentFailedRead(r, s)
                                \/ ChargeRefundedRead(r, s)
           \/ \E s \in Session : CompletedWebhook(r, s)
           \/ \E s \in Session : ReconcileBegin(r, s)
           \/ Abort(r) \/ CheckoutReject(r) \/ ReconcileLocked(r)
           \/ ExpiredCommit(r) \/ PaymentFailedCommit(r) \/ ChargeRefundedCommit(r)
           \/ OperatorRefundCommit(r)
  BY <1>3 DEF CheckoutBegin, OperatorRefund, SubmitFilingBegin, ExpiredRead, PaymentFailedRead,
       ChargeRefundedRead, Load, CompletedWebhook, ReconcileBegin, Abort, CheckoutReject,
       ReconcileLocked, ExpiredCommit, PaymentFailedCommit, ChargeRefundedCommit,
       OperatorRefundCommit, WriteStatus, stripeVars, dbVars
<1>4. CASE \/ SubmitFilingCall(r) \/ SubmitFilingCommit(r) \/ AutoFile(r) \/ AutoRefund(r)
           \/ GenerateProof(r) \/ SubmitAttestation(r) \/ PromoteDraft(r)
  BY <1>4 DEF SubmitFilingCall, SubmitFilingCommit, AutoFile, AutoRefund, GenerateProof,
       SubmitAttestation, PromoteDraft, stripeVars, dbVars
<1>. QED BY <1>1, <1>2, <1>3, <1>4, AloneSteps

\* How the draft moves: contents change by an edit only, and what is paid stays paid
\* until then.
LEMMA DraftMoves ==
  ASSUME NEW r, Proc = {r}, IInv, EditsAlone(r), [Next]_vars
  PROVE  \/ CreateCaseDraft /\ draft'.ver = draft.ver + 1
         \/ draft'.ver = draft.ver /\ draft'.status = draft.status
         \/ draft'.ver = draft.ver /\ draft'.status = "awaiting_payment" /\ draft.status # "paid"
         \/ draft'.ver = draft.ver /\ draft'.status = "paid" /\ PipelineCommit(r)
<1>1. draft \in Draft
  BY DEF IInv, TypeOK
<1>2. CASE Environment
  BY <1>1, <1>2 DEF Environment, CreateCaseDraft, PreparePayment, IdempotencyKeyPruned,
       CustomerPays, CardDeclined, SessionExpires, DashboardRefund, dbVars, Draft
<1>3. CASE CheckoutCommit(r)
  BY <1>1, <1>3 DEF CheckoutCommit, EditsAlone, DraftAlone, CheckoutKnows, Draft
<1>4. CASE PipelineCommit(r)
  <2>1. lock = r /\ lock # NoProc
    BY <1>4, AloneLock DEF PipelineCommit, PipelinePC
  <2>2. tx.draft.status # seenDraft[r].status => tx.draft.status = "paid"
    BY <2>1 DEF EditsAlone, DraftAlone, PipelineSettles
  <2>. QED BY <1>1, <1>4, <2>2 DEF PipelineCommit, Draft
<1>5. CASE \E s \in Session : CheckoutOpen(r, s)
  BY <1>5 DEF CheckoutOpen, dbVars
<1>. QED BY <1>2, <1>3, <1>4, <1>5, RowsAtRest

\* Sessions keep what they were opened for.
LEMMA SessionMoves ==
  ASSUME NEW r, Proc = {r}, IInv, [Next]_vars
  PROVE  /\ \A s \in Session : sess[s] # "none" => sess'[s] # "none" /\ sessVer'[s] = sessVer[s]
         /\ \A s \in Session : sess[s] = "none" /\ sess'[s] # "none" =>
              CheckoutOpen(r, s) /\ sessVer'[s] = seenDraft[r].ver
         /\ shown' = shown \/ (CheckoutCommit(r) /\ shown' = shown \cup {sid[r]})
<1>1. sess \in [Session -> SessionStatus] /\ sessVer \in [Session -> Version]
  BY DEF IInv, TypeOK
<1>2. CASE Environment
  BY <1>1, <1>2 DEF Environment, CreateCaseDraft, PreparePayment, IdempotencyKeyPruned,
       CustomerPays, CardDeclined, SessionExpires, DashboardRefund, stripeVars
<1>3. CASE CheckoutCommit(r)
  BY <1>3 DEF CheckoutCommit
<1>4. CASE PipelineCommit(r)
  BY <1>4 DEF PipelineCommit, stripeVars
<1>5. ASSUME NEW t \in Session, CheckoutOpen(r, t)
      PROVE  /\ \A s \in Session : sess[s] # "none" => sess'[s] # "none" /\ sessVer'[s] = sessVer[s]
             /\ \A s \in Session : sess[s] = "none" /\ sess'[s] # "none" =>
                  CheckoutOpen(r, s) /\ sessVer'[s] = seenDraft[r].ver
             /\ shown' = shown
  <2>1. shown' = shown
    BY <1>5 DEF CheckoutOpen
  <2>2. \/ UNCHANGED <<sess, sessVer>>
        \/ /\ sess[t] = "none" /\ sess' = [sess EXCEPT ![t] = "open"]
           /\ sessVer' = [sessVer EXCEPT ![t] = seenDraft[r].ver]
    BY <1>5 DEF CheckoutOpen
  <2>3. ASSUME NEW s \in Session, sess[s] # "none"
        PROVE  sess'[s] # "none" /\ sessVer'[s] = sessVer[s]
    BY <1>1, <2>2, <2>3
  <2>4. ASSUME NEW s \in Session, sess[s] = "none", sess'[s] # "none"
        PROVE  s = t /\ sessVer'[s] = seenDraft[r].ver
    BY <1>1, <2>2, <2>4
  <2>. QED BY <1>5, <2>1, <2>3, <2>4
<1>6. CASE UNCHANGED <<sess, sessVer, idem, shown, draft>>
  BY <1>6
<1>. QED BY <1>2, <1>3, <1>4, <1>5, <1>6, RowsAtRest

LEMMA SessionsStep ==
  ASSUME NEW r, Proc = {r}, IInv, EditsAlone(r), [Next]_vars
  PROVE  SessionsAreOfDraft'
<1>1. /\ draft \in Draft /\ sessVer \in [Session -> Version] /\ shown \subseteq Session
      /\ sess \in [Session -> SessionStatus] /\ idem \in Session \cup {NoSession}
      /\ seenDraft[r] \in Draft /\ draft.ver \in Nat /\ \A s \in Session : sessVer[s] \in Nat
  BY AloneLock, BoundsAssumption DEF IInv, TypeOK, Draft, Version
<1>2. draft'.ver = draft.ver \/ (draft'.ver = draft.ver + 1 /\ draft.ver < draft'.ver)
  BY <1>1, DraftMoves
<1>3. ASSUME NEW s \in Session, sess'[s] # "none" PROVE sessVer'[s] <= draft'.ver
  <2>1. CASE sess[s] # "none"
    BY <1>1, <1>2, <1>3, <2>1, SessionMoves DEF EditsAlone, SessionsAreOfDraft
  <2>2. CASE sess[s] = "none"
    <3>1. CheckoutOpen(r, s) /\ sessVer'[s] = seenDraft[r].ver
      BY <1>3, <2>2, SessionMoves
    <3>2. draft' = draft /\ seenDraft[r].ver <= draft.ver
      BY <3>1 DEF CheckoutOpen, dbVars, EditsAlone, DraftAlone, CheckoutKnows
    <3>. QED BY <3>1, <3>2
  <2>. QED BY <2>1, <2>2
<1>4. ASSUME NEW s \in shown'
      PROVE  /\ s \in Session /\ sess'[s] # "none"
             /\ draft'.status = "validated" => draft'.ver > sessVer'[s]
  <2>1. CASE s \in shown
    <3>1. s \in Session /\ sess[s] # "none" /\ sessVer[s] <= draft.ver
          /\ (draft.status = "validated" => draft.ver > sessVer[s])
      BY <1>1, <2>1 DEF EditsAlone, SessionsAreOfDraft
    <3>2. sess'[s] # "none" /\ sessVer'[s] = sessVer[s]
      BY <3>1, SessionMoves
    <3>. QED BY <1>1, <3>1, <3>2, DraftMoves
  <2>2. CASE s \notin shown
    <3>1. CheckoutCommit(r) /\ s = sid[r]
      BY <1>4, <2>2, SessionMoves
    <3>2. pc[r] = "opened" /\ UNCHANGED <<sess, sessVer>>
      BY <3>1 DEF CheckoutCommit
    <3>3. s \in Session /\ sess[s] # "none" /\ sessVer[s] = seenDraft[r].ver
      BY <3>1, <3>2, AloneLock DEF IInv, LocalOK, HasSession, EditsAlone, DraftAlone,
         CheckoutKnows
    <3>4. seenDraft[r].status = "awaiting_payment" /\ draft.status = "validated"
            => draft.ver > seenDraft[r].ver
      BY <3>2 DEF EditsAlone, DraftAlone, CheckoutKnows
    <3>5. draft' = IF seenDraft[r].status # "awaiting_payment"
                     THEN [draft EXCEPT !.status = "awaiting_payment"] ELSE draft
      BY <3>1 DEF CheckoutCommit
    <3>6. draft'.status = "validated" =>
            draft' = draft /\ seenDraft[r].status = "awaiting_payment"
      BY <1>1, <3>5 DEF Draft
    <3>. QED BY <3>2, <3>3, <3>4, <3>6
  <2>. QED BY <2>1, <2>2
<1>5. Captured' \subseteq shown'
  <2>1. shown \subseteq shown' /\ Captured \subseteq shown
    BY SessionMoves DEF EditsAlone, SessionsAreOfDraft
  <2>2. \A s \in Session : CustomerPays(s) => s \in shown
    BY DEF CustomerPays
  <2>. QED BY <2>1, <2>2, CapturedGrows DEF IInv
<1>6. idem' # NoSession => sess'[idem'] # "none"
  <2>1. CASE idem' = idem
    BY <1>1, <2>1, SessionMoves DEF EditsAlone, SessionsAreOfDraft
  <2>2. CASE idem' # idem
    <3>1. idem' = NoSession \/ \E s \in Session : CheckoutOpen(r, s)
      BY <2>2, RowsAtRest DEF Environment, CreateCaseDraft, PreparePayment,
         IdempotencyKeyPruned, CustomerPays, CardDeclined, SessionExpires, DashboardRefund,
         CheckoutCommit, PipelineCommit, stripeVars
    <3>2. ASSUME NEW s \in Session, CheckoutOpen(r, s) PROVE sess'[idem'] # "none"
      BY <1>1, <2>2, <3>2 DEF CheckoutOpen
    <3>. QED BY <3>1, <3>2
  <2>. QED BY <2>1, <2>2
<1>7. shown' \subseteq Session
  BY <1>4
<1>. QED BY <1>3, <1>4, <1>5, <1>6, <1>7 DEF SessionsAreOfDraft

\* A payment that is settled with its draft stays so.
LEMMA SettledStays ==
  ASSUME NEW r, Proc = {r}, IInv, EditsAlone(r), [Next]_vars,
         NEW s \in shown, PaidOrEdited(s)
  PROVE  s \in shown' /\ PaidOrEdited(s)'
<1>1. s \in Session /\ sess[s] # "none" /\ sessVer[s] <= draft.ver
  BY DEF EditsAlone, SessionsAreOfDraft
<1>2. sessVer'[s] = sessVer[s] /\ s \in shown'
  BY <1>1, SessionMoves
<1>3. draft.ver \in Nat /\ sessVer[s] \in Nat
  BY <1>1, BoundsAssumption DEF IInv, TypeOK, Draft, Version
<1>. QED BY <1>1, <1>2, <1>3, DraftMoves DEF PaidOrEdited

\* The steps that lead a request to each of its stages.
LEMMA StagesReached ==
  ASSUME NEW r, Proc = {r}, IInv, [Next]_vars
  PROVE  \/ UNCHANGED <<localVars, intent, lock, tx>>
         \/ CheckoutBegin(r)
         \/ \E s \in Session : CheckoutOpen(r, s)
         \/ \E s \in Session : ReconcileBegin(r, s)
         \/ \E s \in Session : ExpiredRead(r, s) \/ PaymentFailedRead(r, s)
         \/ pc'[r] \notin {"checkout", "opened", "reconcile", "expire", "decline"}
<1>1. pc \in [Proc -> PC] /\ r \in Proc
  BY DEF IInv, TypeOK
<1>2. CASE Environment \/ UNCHANGED vars
  BY <1>2 DEF Environment, CreateCaseDraft, PreparePayment, IdempotencyKeyPruned, CustomerPays,
       CardDeclined, SessionExpires, DashboardRefund, vars, dbVars
<1>3. CASE \/ OperatorRefund(r) \/ SubmitFilingBegin(r)
           \/ \E s \in Session : ChargeRefundedRead(r, s)
           \/ Abort(r) \/ CheckoutReject(r) \/ CheckoutCommit(r)
           \/ ExpiredCommit(r) \/ PaymentFailedCommit(r) \/ ChargeRefundedCommit(r)
           \/ OperatorRefundCommit(r)
  BY <1>1, <1>3 DEF OperatorRefund, SubmitFilingBegin, ChargeRefundedRead, Load, Abort,
       CheckoutReject, CheckoutCommit, ExpiredCommit, PaymentFailedCommit,
       ChargeRefundedCommit, OperatorRefundCommit, WriteStatus, Finish
<1>4. CASE ReconcileLocked(r) \/ \E s \in Session : CompletedWebhook(r, s)
  BY <1>1, <1>4 DEF ReconcileLocked, CompletedWebhook, Confirm, Finish, dbVars
<1>5. CASE \/ SubmitFilingCall(r) \/ SubmitFilingCommit(r) \/ AutoFile(r) \/ AutoRefund(r)
           \/ GenerateProof(r) \/ SubmitAttestation(r) \/ PromoteDraft(r) \/ PipelineCommit(r)
  BY <1>1, <1>5 DEF SubmitFilingCall, SubmitFilingCommit, AutoFile, _should_auto_refund,
       AutoRefund, GenerateProof, SubmitAttestation, AfterFailedProof, PromoteDraft,
       PipelineCommit, Goto, Finish
<1>. QED BY <1>2, <1>3, <1>4, <1>5, AloneSteps

LEMMA CheckoutKnowsStep ==
  ASSUME NEW r, Proc = {r}, IInv, EditsAlone(r), [Next]_vars
  PROVE  CheckoutKnows(r)'
<1>1. /\ r \in Proc /\ pc \in [Proc -> PC] /\ seenDraft \in [Proc -> Draft] /\ draft \in Draft
      /\ sid \in [Proc -> Session \cup {NoSession}]
      /\ pc[r] \in HasSession => sid[r] \in Session
      /\ draft.ver \in Nat /\ seenDraft[r].ver \in Nat
  BY BoundsAssumption DEF IInv, TypeOK, LocalOK, Draft, Version
<1>2. CheckoutKnows(r) /\ SessionsAreOfDraft
  BY DEF EditsAlone, DraftAlone
<1>3. CASE UNCHANGED <<localVars, intent, lock, tx>>
  <2>1. pc' = pc /\ sid' = sid /\ seenDraft' = seenDraft
    BY <1>3 DEF localVars
  <2>2. pc[r] \in {"checkout", "opened"} => ~PipelineCommit(r)
    BY DEF PipelineCommit
  <2>3. pc[r] = "opened" => sess'[sid[r]] # "none" /\ sessVer'[sid[r]] = seenDraft[r].ver
    BY <1>1, <1>2, SessionMoves DEF CheckoutKnows, HasSession
  <2>4. ASSUME pc[r] \in {"checkout", "opened"}
        PROVE  /\ draft'.status # "paid" /\ seenDraft[r].ver <= draft'.ver
               /\ seenDraft[r].status = "awaiting_payment" /\ draft'.status = "validated"
                    => draft'.ver > seenDraft[r].ver
    <3>1. /\ draft.status # "paid" /\ seenDraft[r].ver <= draft.ver
          /\ seenDraft[r].status = "awaiting_payment" /\ draft.status = "validated"
               => draft.ver > seenDraft[r].ver
      BY <1>2, <2>4 DEF CheckoutKnows
    <3>2. CASE CreateCaseDraft /\ draft'.ver = draft.ver + 1
      <4>1. draft'.status = "validated"
        BY <1>1, <3>2 DEF CreateCaseDraft, Draft
      <4>. QED BY <1>1, <3>1, <3>2, <4>1
    <3>3. CASE draft'.ver = draft.ver /\ draft'.status \in {draft.status, "awaiting_payment"}
      BY <3>1, <3>3
    <3>. QED BY <2>2, <2>4, <3>2, <3>3, DraftMoves
  <2>5. pc[r] \in {"checkout", "opened"} => seenDraft[r].status # "paid"
    BY <1>2 DEF CheckoutKnows
  <2>. QED BY <2>1, <2>3, <2>4, <2>5 DEF CheckoutKnows
<1>4. CASE CheckoutBegin(r)
  <2>1. pc'[r] = "checkout" /\ seenDraft'[r] = draft /\ draft' = draft /\ Payable
    BY <1>1, <1>4 DEF CheckoutBegin, dbVars
  <2>. QED BY <1>1, <2>1 DEF CheckoutKnows, Payable
<1>5. ASSUME NEW s \in Session, CheckoutOpen(r, s) PROVE CheckoutKnows(r)'
  <2>1. /\ pc[r] = "checkout" /\ pc'[r] = "opened" /\ sid'[r] = s
        /\ UNCHANGED <<draft, seenDraft>>
    BY <1>1, <1>5 DEF CheckoutOpen, dbVars
  <2>2. sess'[s] # "none" /\ sessVer'[s] = seenDraft[r].ver
    <3>1. CASE Replays(r) /\ s = idem /\ UNCHANGED <<sess, sessVer, idem>>
      BY <1>2, <3>1 DEF Replays, SessionsAreOfDraft
    <3>2. CASE /\ sess' = [sess EXCEPT ![s] = "open"]
               /\ sessVer' = [sessVer EXCEPT ![s] = seenDraft[r].ver]
      BY <3>2 DEF IInv, TypeOK
    <3>. QED BY <1>5, <3>1, <3>2 DEF CheckoutOpen
  <2>. QED BY <1>2, <2>1, <2>2 DEF CheckoutKnows
<1>6. CASE pc'[r] \notin {"checkout", "opened"}
  BY <1>6 DEF CheckoutKnows
<1>7. ASSUME NEW s \in Session, ReconcileBegin(r, s) \/ ExpiredRead(r, s) \/ PaymentFailedRead(r, s)
      PROVE  pc'[r] \notin {"checkout", "opened"}
  BY <1>1, <1>7 DEF ReconcileBegin, ExpiredRead, PaymentFailedRead, Load
<1>. QED BY <1>3, <1>4, <1>5, <1>6, <1>7, StagesReached

LEMMA HandlersKnowStep ==
  ASSUME NEW r, Proc = {r}, IInv, EditsAlone(r), [Next]_vars
  PROVE  HandlersKnow(r)'
<1>1. /\ r \in Proc /\ pc \in [Proc -> PC] /\ seenDraft \in [Proc -> Draft] /\ draft \in Draft
      /\ sid \in [Proc -> Session \cup {NoSession}]
  BY DEF IInv, TypeOK
<1>2. HandlersKnow(r) /\ SessionsAreOfDraft
  BY DEF EditsAlone, DraftAlone
<1>3. CASE UNCHANGED <<localVars, intent, lock, tx>>
  <2>1. pc' = pc /\ sid' = sid /\ seenDraft' = seenDraft /\ intent' = intent
    BY <1>3 DEF localVars
  <2>2. pc[r] = "reconcile" => sid[r] \in shown'
    BY <1>2, SessionMoves DEF HandlersKnow
  <2>3. PICK s : s = sid[r]
    OBVIOUS
  <2>4. pc[r] = "reconcile" /\ seenDraft[r].status # "awaiting_payment" => PaidOrEdited(s)'
    BY <1>2, <2>3, SettledStays DEF HandlersKnow
  <2>. QED BY <1>2, <2>1, <2>2, <2>3, <2>4 DEF HandlersKnow, PaidOrEdited
<1>4. ASSUME NEW s \in Session, ReconcileBegin(r, s) PROVE HandlersKnow(r)'
  <2>1. /\ pc'[r] = "reconcile" /\ sid'[r] = s /\ seenDraft'[r] = draft /\ s \in shown
        /\ UNCHANGED <<draft, shown, sessVer>>
    BY <1>1, <1>4 DEF ReconcileBegin, dbVars, stripeVars
  <2>2. draft.status # "awaiting_payment" => PaidOrEdited(s)
    BY <1>1, <1>2, <2>1 DEF SessionsAreOfDraft, PaidOrEdited, Draft, CaseDraftStatus
  <2>. QED BY <2>1, <2>2 DEF HandlersKnow, PaidOrEdited
<1>5. ASSUME NEW s \in Session, ExpiredRead(r, s) \/ PaymentFailedRead(r, s) PROVE HandlersKnow(r)'
  <2>1. pc'[r] \in {"expire", "decline"} /\ intent' = intent /\ intent.status \notin Terminal
    BY <1>1, <1>5 DEF ExpiredRead, PaymentFailedRead, Load, dbVars
  <2>. QED BY <2>1 DEF HandlersKnow, Terminal
<1>6. CASE pc'[r] \notin {"reconcile", "expire", "decline"}
  BY <1>6 DEF HandlersKnow
<1>7. ASSUME CheckoutBegin(r) \/ \E s \in Session : CheckoutOpen(r, s)
      PROVE  pc'[r] \notin {"reconcile", "expire", "decline"}
  BY <1>1, <1>7 DEF CheckoutBegin, CheckoutOpen
<1>. QED BY <1>3, <1>4, <1>5, <1>6, <1>7, StagesReached

\* The stages before the commit leave the session and the draft's status as they were.
LEMMA PipelineKeeps ==
  ASSUME TypeOK, NEW p \in Proc,
         \/ AutoFile(p) \/ AutoRefund(p) \/ GenerateProof(p) \/ SubmitAttestation(p)
         \/ PromoteDraft(p)
  PROVE  /\ tx'.gpid = tx.gpid /\ tx'.draft.status = tx.draft.status
         /\ lock' = lock /\ seenDraft' = seenDraft
<1>1. lock' = lock /\ seenDraft' = seenDraft
  BY DEF AutoFile, AutoRefund, GenerateProof, SubmitAttestation, PromoteDraft, Goto
<1>2. CASE PromoteDraft(p)
  <2>1. tx'.gpid = tx.gpid /\ tx'.draft \in {tx.draft, [tx.draft EXCEPT !.promoted = TRUE]}
    BY <1>2, PipelineTx
  <2>2. tx'.draft.status = tx.draft.status
    BY <2>1 DEF TypeOK, Tx, Draft
  <2>. QED BY <1>1, <2>1, <2>2
<1>3. CASE AutoFile(p) \/ AutoRefund(p) \/ GenerateProof(p) \/ SubmitAttestation(p)
  BY <1>1, <1>3, PipelineTx
<1>. QED BY <1>2, <1>3

\* The request that confirms session s with the draft as it had loaded it.
LEMMA ConfirmSettles ==
  ASSUME NEW r, Proc = {r}, IInv, NEW s \in shown, NEW d \in Draft, NEW h, Confirm(r, s, d, h),
         d.status # "awaiting_payment" => PaidOrEdited(s), UNCHANGED <<draft, sessVer, shown>>
  PROVE  PipelineSettles(r)'
<1>1. seenDraft'[r] = d /\ tx'.gpid.sess = s
  BY DEF Confirm, IInv, TypeOK
<1>2. tx'.draft = IF d.status = "awaiting_payment" THEN [d EXCEPT !.status = "paid"] ELSE d
  BY DEF Confirm
<1>3. tx'.draft.status = IF d.status = "awaiting_payment" THEN "paid" ELSE d.status
  BY <1>2 DEF Draft
<1>. QED BY <1>1, <1>3 DEF PaidOrEdited, PipelineSettles

LEMMA PipelineSettlesStep ==
  ASSUME NEW r, Proc = {r}, IInv, EditsAlone(r), [Next]_vars
  PROVE  PipelineSettles(r)'
<1>1. /\ r \in Proc /\ r # NoProc /\ lock \in {r, NoProc}
      /\ lock = r <=> pc[r] \in PipelinePC
      /\ seenDraft \in [Proc -> Draft] /\ draft \in Draft /\ TypeOK
  BY AloneLock DEF IInv, TypeOK
<1>2. HandlersKnow(r) /\ SessionsAreOfDraft /\ PipelineSettles(r)
  BY DEF EditsAlone, DraftAlone
<1>3. ASSUME lock' = lock, tx'.gpid = tx.gpid, tx'.draft.status = tx.draft.status,
             seenDraft' = seenDraft
      PROVE  PipelineSettles(r)'
  <2>1. PICK s : s = tx.gpid.sess
    OBVIOUS
  <2>2. CASE lock = NoProc
    BY <1>3, <2>2 DEF PipelineSettles
  <2>3. CASE lock # NoProc
    <3>1. s \in shown /\ s \in shown'
      BY <1>2, <2>1, <2>3, SessionMoves DEF PipelineSettles
    <3>2. tx.draft.status = seenDraft[r].status => PaidOrEdited(s)'
      BY <1>2, <2>1, <2>3, <3>1, SettledStays DEF PipelineSettles
    <3>. QED BY <1>2, <1>3, <2>1, <2>3, <3>1, <3>2 DEF PipelineSettles, PaidOrEdited
  <2>. QED BY <2>2, <2>3
<1>4. CASE lock' = NoProc
  BY <1>4 DEF PipelineSettles
<1>5. CASE Environment \/ UNCHANGED vars
  BY <1>3, <1>5 DEF Environment, CreateCaseDraft, PreparePayment, IdempotencyKeyPruned,
       CustomerPays, CardDeclined, SessionExpires, DashboardRefund, vars, localVars
<1>6. CASE AutoFile(r) \/ AutoRefund(r) \/ GenerateProof(r) \/ SubmitAttestation(r) \/ PromoteDraft(r)
  BY <1>1, <1>3, <1>6, PipelineKeeps
<1>7. ASSUME NEW s \in Session, CompletedWebhook(r, s) PROVE PipelineSettles(r)'
  <2>1. CASE UNCHANGED <<localVars, lock, tx>>
    BY <1>3, <2>1 DEF localVars
  <2>2. CASE Confirm(r, s, draft, TRUE)
    <3>1. s \in shown /\ UNCHANGED <<draft, sessVer, shown>>
      BY <1>2, <1>7 DEF CompletedWebhook, SessionPaid, Captured, SessionsAreOfDraft, stripeVars, dbVars
    <3>2. draft.status # "awaiting_payment" => PaidOrEdited(s)
      BY <1>1, <1>2, <3>1 DEF SessionsAreOfDraft, PaidOrEdited, Draft, CaseDraftStatus
    <3>. QED BY <1>1, <2>2, <3>1, <3>2, ConfirmSettles
  <2>. QED BY <1>7, <2>1, <2>2 DEF CompletedWebhook
<1>8. CASE ReconcileLocked(r)
  <2>1. CASE Confirm(r, sid[r], seenDraft[r], FALSE)
    <3>1. sid[r] \in shown /\ UNCHANGED <<draft, sessVer, shown>>
      BY <1>2, <1>8 DEF ReconcileLocked, HandlersKnow, stripeVars
    <3>2. seenDraft[r].status # "awaiting_payment" => PaidOrEdited(sid[r])
      BY <1>2, <1>8 DEF ReconcileLocked, HandlersKnow
    <3>3. PICK s, d : s = sid[r] /\ d = seenDraft[r]
      OBVIOUS
    <3>. QED BY <1>1, <2>1, <3>1, <3>2, <3>3, ConfirmSettles
  <2>2. CASE UNCHANGED <<lock, tx>>
    BY <1>4, <1>8, <2>2 DEF ReconcileLocked
  <2>. QED BY <1>8, <2>1, <2>2 DEF ReconcileLocked
<1>9. CASE pc[r] \notin PipelinePC /\ lock' = lock
  BY <1>1, <1>4, <1>9
<1>10. CASE \/ CheckoutBegin(r) \/ OperatorRefund(r) \/ SubmitFilingBegin(r)
            \/ \E s \in Session : ExpiredRead(r, s) \/ PaymentFailedRead(r, s)
                                 \/ ChargeRefundedRead(r, s)
            \/ \E s \in Session : ReconcileBegin(r, s)
            \/ \E s \in Session : CheckoutOpen(r, s)
            \/ CheckoutReject(r) \/ CheckoutCommit(r)
            \/ ExpiredCommit(r) \/ PaymentFailedCommit(r) \/ ChargeRefundedCommit(r)
            \/ OperatorRefundCommit(r) \/ SubmitFilingCall(r) \/ SubmitFilingCommit(r)
  BY <1>9, <1>10 DEF CheckoutBegin, OperatorRefund, SubmitFilingBegin, ExpiredRead,
       PaymentFailedRead, ChargeRefundedRead, Load, ReconcileBegin, CheckoutOpen,
       CheckoutReject, CheckoutCommit, ExpiredCommit, PaymentFailedCommit,
       ChargeRefundedCommit, OperatorRefundCommit, WriteStatus, SubmitFilingCall,
       SubmitFilingCommit, PipelinePC
<1>11. CASE Abort(r) \/ PipelineCommit(r)
  BY <1>1, <1>4, <1>11 DEF Abort, PipelineCommit
<1>. QED BY <1>5, <1>6, <1>7, <1>8, <1>10, <1>11, AloneSteps

\* Only a commit of the pipeline confirms an intent.
LEMMA OnlyCommitConfirms ==
  ASSUME NEW r, Proc = {r}, IInv, EditsAlone(r), [Next]_vars, ~PipelineCommit(r)
  PROVE  /\ intent'.status = "confirmed" => intent.status = "confirmed" /\ intent'.gpid = intent.gpid
         /\ intent.status = "confirmed" /\ intent'.status \notin {"confirmed", "refunded"}
              => CheckoutCommit(r)
<1>1. intent \in Intent
  BY DEF IInv, TypeOK
<1>2. CASE intent' = intent
  BY <1>2
<1>3. CASE CheckoutCommit(r)
  BY <1>3 DEF CheckoutCommit, EditsAlone, ConfirmedAlone
<1>4. CASE ReconcileLocked(r)
  BY <1>1, <1>4 DEF ReconcileLocked, AlreadySettled, Terminal, Intent
<1>5. CASE ExpiredCommit(r) \/ PaymentFailedCommit(r)
  <2>1. intent.status # "confirmed"
    BY <1>5 DEF ExpiredCommit, PaymentFailedCommit, EditsAlone, DraftAlone, HandlersKnow
  <2>2. intent'.status \in {intent.status, "expired", "failed"}
    BY <1>1, <1>5 DEF ExpiredCommit, PaymentFailedCommit, WriteStatus, Intent
  <2>. QED BY <2>1, <2>2
<1>6. CASE ChargeRefundedCommit(r) \/ OperatorRefundCommit(r)
  BY <1>1, <1>6 DEF ChargeRefundedCommit, OperatorRefundCommit, WriteStatus, Intent
<1>7. CASE Environment \/ UNCHANGED vars
  BY <1>2, <1>7 DEF Environment, CreateCaseDraft, PreparePayment, IdempotencyKeyPruned,
       CustomerPays, CardDeclined, SessionExpires, DashboardRefund, vars, dbVars
<1>8. CASE \/ CheckoutBegin(r) \/ OperatorRefund(r) \/ SubmitFilingBegin(r)
           \/ \E s \in Session : ExpiredRead(r, s) \/ PaymentFailedRead(r, s)
                                \/ ChargeRefundedRead(r, s)
           \/ \E s \in Session : CompletedWebhook(r, s)
           \/ \E s \in Session : ReconcileBegin(r, s)
           \/ \E s \in Session : CheckoutOpen(r, s)
           \/ Abort(r) \/ CheckoutReject(r) \/ SubmitFilingCall(r) \/ SubmitFilingCommit(r)
           \/ AutoFile(r) \/ AutoRefund(r) \/ GenerateProof(r) \/ SubmitAttestation(r)
           \/ PromoteDraft(r)
  BY <1>2, <1>8 DEF CheckoutBegin, OperatorRefund, SubmitFilingBegin, ExpiredRead,
       PaymentFailedRead, ChargeRefundedRead, Load, CompletedWebhook, ReconcileBegin,
       CheckoutOpen, Abort, CheckoutReject, SubmitFilingCall, SubmitFilingCommit, AutoFile,
       AutoRefund, GenerateProof, SubmitAttestation, PromoteDraft, dbVars
<1>. QED BY <1>3, <1>4, <1>5, <1>6, <1>7, <1>8, AloneSteps

LEMMA ConfirmedIsSettledStep ==
  ASSUME NEW r, Proc = {r}, IInv, EditsAlone(r), [Next]_vars
  PROVE  ConfirmedIsSettled'
<1>1. ConfirmedIsSettled /\ PipelineSettles(r)
  BY DEF EditsAlone, DraftAlone
<1>2. CASE ~PipelineCommit(r)
  <2>1. PICK s : s = intent.gpid.sess
    OBVIOUS
  <2>2. CASE intent'.status = "confirmed"
    <3>1. intent.status = "confirmed" /\ intent'.gpid = intent.gpid
      BY <1>2, <2>2, OnlyCommitConfirms
    <3>2. s \in shown /\ PaidOrEdited(s)
      BY <1>1, <2>1, <3>1 DEF ConfirmedIsSettled
    <3>3. s \in shown' /\ PaidOrEdited(s)'
      BY <3>2, SettledStays
    <3>. QED BY <2>1, <3>1, <3>3 DEF ConfirmedIsSettled, PaidOrEdited
  <2>. QED BY <2>2 DEF ConfirmedIsSettled
<1>3. CASE PipelineCommit(r)
  <2>1. lock # NoProc
    BY <1>3, AloneLock DEF PipelineCommit, PipelinePC
  <2>2. PICK s : s = tx.gpid.sess
    OBVIOUS
  <2>3. intent'.gpid = tx.gpid /\ shown' = shown
    BY <1>3 DEF PipelineCommit, stripeVars, IInv, TypeOK, Intent
  <2>4. s \in shown
    BY <1>1, <2>1, <2>2 DEF PipelineSettles
  <2>5. PaidOrEdited(s)'
    <3>1. CASE tx.draft.status = seenDraft[r].status
      BY <1>1, <2>1, <2>2, <2>4, <3>1, SettledStays DEF PipelineSettles
    <3>2. CASE tx.draft.status # seenDraft[r].status
      <4>1. tx.draft.status = "paid"
        BY <1>1, <2>1, <3>2 DEF PipelineSettles
      <4>2. draft'.status = "paid"
        BY <1>3, <3>2, <4>1 DEF PipelineCommit, IInv, TypeOK, Draft
      <4>. QED BY <4>2 DEF PaidOrEdited
    <3>. QED BY <3>1, <3>2
  <2>. QED BY <2>2, <2>3, <2>4, <2>5 DEF ConfirmedIsSettled, PaidOrEdited
<1>. QED BY <1>2, <1>3

\* With one request at a time a paid draft leaves that status by an edit only, and a
\* confirmed payment is reopened only for contents other than those paid for.
THEOREM AloneOnlyEditReopens ==
  ASSUME NEW CONSTANT r, Proc = {r}
  PROVE  Spec => OnlyEditReopens
<1> DEFINE Reopens ==
      /\ draft.status = "paid" /\ draft'.status # "paid" => draft'.ver > draft.ver
      /\ intent.status = "confirmed" /\ intent'.status \notin {"confirmed", "refunded"}
           => draft.ver > sessVer[intent.gpid.sess]
<1>1. Init => EditsAlone(r)
  <2> SUFFICES ASSUME Init PROVE EditsAlone(r)
    OBVIOUS
  <2>1. Captured = {}
    BY DEF Init, Captured
  <2>2. SessionsAreOfDraft
    BY <2>1 DEF Init, SessionsAreOfDraft
  <2>3. ConfirmedAlone(r)
    BY <2>1, FS_EmptySet DEF Init, ConfirmedAlone, NoIntent
  <2>4. DraftAlone(r)
    BY DEF Init, DraftAlone, CheckoutKnows, HandlersKnow, PipelineSettles, ConfirmedIsSettled,
       NoIntent
  <2>. QED BY <2>2, <2>3, <2>4 DEF EditsAlone
<1>2. IInv /\ EditsAlone(r) /\ [Next]_vars => EditsAlone(r)'
  BY SessionsStep, ConfirmedStep, CheckoutKnowsStep, HandlersKnowStep, PipelineSettlesStep,
     ConfirmedIsSettledStep DEF EditsAlone, DraftAlone
<1>3. IInv /\ EditsAlone(r) /\ [Next]_vars => [Reopens]_vars
  <2> SUFFICES ASSUME IInv, EditsAlone(r), [Next]_vars PROVE Reopens
    OBVIOUS
  <2>1. draft.ver \in Nat
    BY BoundsAssumption DEF IInv, TypeOK, Draft, Version
  <2>2. draft.status = "paid" /\ draft'.status # "paid" => draft'.ver > draft.ver
    BY <2>1, DraftMoves
  <2>3. ASSUME intent.status = "confirmed", intent'.status \notin {"confirmed", "refunded"}
        PROVE  draft.ver > sessVer[intent.gpid.sess]
    <3>1. ~PipelineCommit(r)
      BY <2>3 DEF PipelineCommit, IInv, TypeOK, Intent
    <3>2. pc[r] = "opened"
      BY <2>3, <3>1, OnlyCommitConfirms DEF CheckoutCommit
    <3>3. draft.status # "paid" /\ PaidOrEdited(intent.gpid.sess)
      BY <2>3, <3>2 DEF EditsAlone, DraftAlone, CheckoutKnows, ConfirmedIsSettled
    <3>. QED BY <3>3 DEF PaidOrEdited
  <2>. QED BY <2>2, <2>3
<1>. QED BY <1>1, <1>2, <1>3, Invariance, PTL DEF Spec, OnlyEditReopens
=============================================================================

----------------------------- MODULE PaidQuery ------------------------------
(***************************************************************************)
(* The paid chat of app/etorniegpt/router.py and its client lib/x402.      *)
(*                                                                         *)
(* The wallet pays with a transaction whose memo binds question and        *)
(* commitment.  The request then verifies the payment, looks for an answer *)
(* it has stored for wallet and question, has the program record the proof *)
(* of compliance, asks the model and stores the answer.  It holds no lock, *)
(* and the transaction on chain is not undone if a later step fails.       *)
(***************************************************************************)
EXTENDS ZkVerifier

VARIABLES
  paid,     \* payments taken for a request: their memo, and whether they succeeded
  rows,     \* chat_messages: payer, question, compliance transaction
  harmed,   \* (history) questions of wallets whose request failed after payment
  crossed   \* (history) questions that two requests took for new at a time

chatVars == <<paid, rows, harmed, crossed>>

Memo(w, c) == <<c, Commitment(w, c)>>
Payment == [memo : {Memo(w, c) : w \in Wallet, c \in Content}, ok : BOOLEAN]

ChatInit == paid = {} /\ rows = {} /\ harmed = {} /\ crossed = {}

-----------------------------------------------------------------------------
(* The request.                                                            *)

\* verify_payment_tx: it succeeded, and carries the memo the request asks for.
PaymentVerified(payment, w, c) == payment.ok /\ payment.memo = Memo(w, c)

\* The browser pays, and asks without looking whether the payment failed.  The
\* request up to a verified payment; another one is answered with 402.
Ask(p) ==
  \E payment \in Payment, w \in Wallet, c \in Content, valid \in BOOLEAN :
    /\ PaymentVerified(payment, w, c)
    /\ Begin(p, [at |-> "lookup", op |-> "ask", tx |-> 0,
                 ix |-> [seed |-> "compliance", user |-> w, content |-> c,
                         valid |-> valid]])
    /\ paid' = paid \cup {payment}
    /\ UNCHANGED <<chainVars, rows, harmed, crossed>>

Asking(p) == req[p].at # "idle" /\ req[p].op = "ask"
Asked(p) == <<req[p].ix.user, req[p].ix.content>>

Cached(w, c) == \E r \in rows : r.payer = w /\ r.query = c

CacheHit(p) ==
  /\ At(p, "lookup") /\ Cached(req[p].ix.user, req[p].ix.content)
  /\ End(p) /\ UNCHANGED <<chainVars, chatVars, used>>

CacheMiss(p) ==
  /\ At(p, "lookup") /\ ~Cached(req[p].ix.user, req[p].ix.content)
  /\ Goto(p, "send")
  /\ crossed' = IF \E q \in Proc \ {p} : /\ Asking(q) /\ Asked(q) = Asked(p)
                                         /\ req[q].at # "lookup"
                THEN crossed \cup {Asked(p)} ELSE crossed
  /\ UNCHANGED <<chainVars, used, paid, rows, harmed>>

\* submit_compliance_proof_tx has a status: the model is asked.
ProofSubmitted(p) ==
  /\ Asking(p) /\ Confirmed(p)
  /\ Goto(p, "model") /\ UNCHANGED <<chainVars, chatVars, used>>

\* The record is there already: the request before this one made it.
ProofRefused(p) ==
  /\ Asking(p) /\ ProofAlreadyRecorded(p)
  /\ End(p) /\ UNCHANGED <<chainVars, chatVars, used>>

\* It has none, or the proof is not accepted.
ProofFails(p) ==
  /\ Asking(p) /\ ~ProofAlreadyRecorded(p) /\ (SendFails(p) \/ Unconfirmed(p))
  /\ harmed' = harmed \cup {Asked(p)}
  /\ End(p) /\ UNCHANGED <<chainVars, paid, rows, crossed>>

\* The model fails, or the row cannot be stored.
AnswerFails(p) ==
  /\ At(p, "model") /\ Fault
  /\ harmed' = harmed \cup {Asked(p)}
  /\ End(p) /\ UNCHANGED <<chainVars, paid, rows, crossed>>

\* The answer is stored and committed.
Answer(p) ==
  /\ At(p, "model")
  /\ rows' = rows \cup {[payer |-> req[p].ix.user, query |-> req[p].ix.content,
                         compliance_tx |-> req[p].tx]}
  /\ End(p) /\ UNCHANGED <<chainVars, used, paid, harmed, crossed>>

ChatNext ==
  \E p \in Proc : \/ Ask(p) \/ CacheHit(p) \/ CacheMiss(p)
                  \/ ProofSubmitted(p) \/ ProofRefused(p)
                  \/ ProofFails(p) \/ AnswerFails(p) \/ Answer(p)
=============================================================================

----------------------------- MODULE Agreements -----------------------------
(***************************************************************************)
(* What a client agrees to: proposals (app/proposals) and signatures       *)
(* through Yousign (app/esign).                                            *)
(*                                                                         *)
(* A proposal is made, sent and answered; each request reads its status    *)
(* once and writes it at the end.  A signature request is built at the     *)
(* provider in four calls while its row is not committed yet; the outcome  *)
(* comes as a webhook, delivered until it is answered.                     *)
(***************************************************************************)
EXTENDS Accounts

CONSTANTS Proposal, Signature

VARIABLES
  proposals,  \* proposals: status, author, whether a reason for rejection is stored
  rows,       \* signature_requests, by the request at the provider
  provider,   \* signature requests at Yousign: calls done, and the outcome
  hooks,      \* outcomes whose webhook was not answered with 200 yet
  stored,     \* (history) how many signed documents were stored
  missed      \* (history) webhooks that found no row and were answered

agreementVars == <<proposals, rows, provider, hooks, stored, missed>>
signatureVars == <<rows, provider, hooks, stored, missed>>

NoProposal == [st |-> "none", by |-> NoUser, reason |-> FALSE]
Answers == {"accepted", "rejected"}
Outcomes == {"signed", "declined", "expired"}

-----------------------------------------------------------------------------
(* Proposals.                                                              *)

generate_proposal(p) ==
  /\ Room({k \in Proposal : proposals[k].st = "none"}, "propose")
  /\ \E u \in User : Request(p, "agreement", u, "propose", {})
  /\ UNCHANGED <<accountVars, history, agreementVars>>

ProposalCommits(p) ==
  /\ At(p, "propose")
  /\ \E k \in Proposal :
       /\ proposals[k].st = "none"
       /\ proposals' = [proposals EXCEPT ![k] =
                          [NoProposal EXCEPT !.st = "draft", !.by = req[p].user]]
  /\ Cross(Late(p))
  /\ End(p) /\ UNCHANGED <<accountVars, spent, again, signatureVars, used>>

Reads(p, k, op) ==
  Begin(p, {"agreement"}, [at |-> op, op |-> op, proposal |-> k, saw |-> proposals[k]])

\* Mutant: a proposal of any status may be sent.
MutSendable(k) == proposals[k].st \notin {"none", "deleted"}
Sendable(k) == proposals[k].st = "draft"

send_proposal(p) ==
  /\ \E k \in Proposal : Sendable(k) /\ Reads(p, k, "sent")
  /\ UNCHANGED <<accountVars, history, agreementVars>>

respond_to_proposal(p) ==
  /\ \E k \in Proposal, answer \in Answers : proposals[k].st = "sent" /\ Reads(p, k, answer)
  /\ UNCHANGED <<accountVars, history, agreementVars>>

\* The row is written by key; the request fails when it is gone.  A reason comes
\* with a rejection, and stays when an acceptance overwrites it.
StatusCommits(p) ==
  /\ \E op \in {"sent"} \cup Answers : At(p, op)
  /\ ~Erasing(proposals[req[p].proposal].by)
  /\ LET k == req[p].proposal
         now == proposals[k]
     IN
     IF now.st = "deleted" THEN UNCHANGED <<proposals, crossed>>
     ELSE /\ proposals' = [proposals EXCEPT ![k] =
                             [now EXCEPT !.st = req[p].at,
                                         !.reason = @ \/ At(p, "rejected")]]
          /\ Cross(IF now # req[p].saw THEN {<<"proposal", k>>} ELSE {})
  /\ End(p) /\ UNCHANGED <<accountVars, spent, again, signatureVars, used>>

EraseProposals(records) ==
  proposals' = [k \in Proposal |-> IF <<"proposal", k>> \in records
                                   THEN [NoProposal EXCEPT !.st = "deleted"]
                                   ELSE proposals[k]]

-----------------------------------------------------------------------------
(* A signature request.                                                    *)

\* create, upload, add signer, activate.
Calls == 0..3
Activated == 4
NotMade == [calls |-> 0, outcome |-> "open"]
NoSignature == [st |-> "none", ids |-> FALSE, document |-> 0]

create_signature_request(p) ==
  /\ \E k \in Signature :
       /\ provider[k] = NotMade /\ \A q \in Proc : ~(Serves(q, "sign") /\ req[q].signature = k)
       /\ rows[k] = NoSignature
       /\ Begin(p, {"agreement"}, [at |-> "call", op |-> "sign", signature |-> k, done |-> 0])
  /\ UNCHANGED <<accountVars, history, agreementVars>>

Keep(p, st) ==
  LET k == req[p].signature
  IN rows' = [rows EXCEPT ![k] = [NoSignature EXCEPT !.st = st, !.ids = req[p].done > 1]]

\* The provider does what it is asked for.
ProviderCall(p) ==
  LET k == req[p].signature
  IN
  /\ At(p, "call") /\ req[p].done \in Calls
  /\ provider' = [provider EXCEPT ![k].calls = @ + 1]
  /\ req' = [req EXCEPT ![p].done = @ + 1]
  /\ UNCHANGED <<accountVars, history, proposals, rows, hooks, stored, missed, used>>

\* It refuses, or answers with an error: the row says so.
ProviderRefuses(p) ==
  LET k == req[p].signature
  IN
  /\ At(p, "call") /\ req[p].done \in Calls /\ Fault
  /\ \E n \in {0, 1} : provider' = [provider EXCEPT ![k].calls = @ + n]
  /\ Keep(p, "error")
  /\ End(p) /\ UNCHANGED <<accountVars, history, proposals, hooks, stored, missed>>

\* The connection breaks before or after, or the process stops: no row is left.
SignatureFails(p) ==
  LET k == req[p].signature
  IN
  /\ At(p, "call") /\ Fault
  /\ \E n \in {0, 1} :
       /\ n = 1 => req[p].done \in Calls
       /\ provider' = [provider EXCEPT ![k].calls = @ + n]
  /\ End(p) /\ UNCHANGED <<accountVars, history, proposals, rows, hooks, stored, missed>>

SignatureCommits(p) ==
  /\ At(p, "call") /\ req[p].done = Activated
  /\ Keep(p, "ongoing")
  /\ End(p)
  /\ UNCHANGED <<accountVars, history, proposals, provider, hooks, stored, missed, used>>

-----------------------------------------------------------------------------
(* The webhook.                                                            *)

\* The signer opens the mail of the provider and decides, or does not in time.
Decide(k, outcome) ==
  /\ provider[k] = [calls |-> Activated, outcome |-> "open"]
  /\ provider' = [provider EXCEPT ![k].outcome = outcome]
  /\ hooks' = hooks \cup {k}
  /\ UNCHANGED <<accountVars, history, proposals, rows, stored, missed, req, used>>

Answered(p, k) == hooks' = hooks \ {k} /\ End(p)

\* A delivery, the next one of which does not wait for this one.
yousign_webhook(p, k) ==
  /\ k \in hooks /\ At(p, "idle")
  /\ req' = [req EXCEPT ![p] = [at |-> "hook", op |-> "hook", signature |-> k]]
  /\ UNCHANGED <<accountVars, history, agreementVars, used>>

Settled(k) == rows[k].st = "signed"

\* The row is looked up by the id at the provider.
handle_webhook(p) ==
  LET k == req[p].signature
  IN
  /\ At(p, "hook")
  /\ IF rows[k].st = "none"
     THEN Answered(p, k) /\ missed' = missed \cup {k}
     ELSE /\ UNCHANGED missed
          /\ IF Settled(k) THEN Answered(p, k)
             ELSE /\ req' = [req EXCEPT ![p] = [at |-> "outcome", op |-> "hook",
                                                signature |-> k, saw |-> rows[k]]]
                  /\ UNCHANGED hooks
  /\ UNCHANGED <<accountVars, history, proposals, rows, provider, stored, used>>

\* The signed document is downloaded and stored, unless the row that was loaded has
\* one; then the outcome is committed.  The answer may get lost.
HookCommits(p) ==
  LET k == req[p].signature
      fresh == provider[k].outcome = "signed" /\ req[p].saw.document = 0 /\ req[p].saw.ids
      now == rows[k]
      n == stored[k] + 1
  IN
  /\ At(p, "outcome")
  /\ stored' = IF fresh THEN [stored EXCEPT ![k] = n] ELSE stored
  /\ rows' = [rows EXCEPT ![k] = [now EXCEPT !.st = provider[k].outcome,
                                             !.document = IF fresh THEN n ELSE now.document]]
  /\ Cross(IF now # req[p].saw THEN {<<"signature", k>>} ELSE {})
  /\ \/ Answered(p, k) /\ UNCHANGED used
     \/ End(p) /\ Fault /\ UNCHANGED hooks
  /\ UNCHANGED <<accountVars, spent, again, proposals, provider, missed>>

\* Mutant: a delivery that failed is answered with 200.
MutHookFails(p) ==
  /\ At(p, "hook") \/ At(p, "outcome")
  /\ Fault /\ Answered(p, req[p].signature)
  /\ UNCHANGED <<accountVars, history, proposals, rows, provider, stored, missed>>

\* The download fails, or the process stops: no 200, and another delivery.
HookFails(p) ==
  /\ At(p, "hook") \/ At(p, "outcome")
  /\ Fault /\ End(p) /\ UNCHANGED <<accountVars, history, agreementVars>>

-----------------------------------------------------------------------------
AgreementInit ==
  /\ \E u \in {v \in User : Active(v)}, st \in {"none", "draft", "sent"} :
       proposals = [k \in Proposal |-> IF st = "none" \/ used.lane # "agreement" THEN NoProposal
                                       ELSE [NoProposal EXCEPT !.st = st, !.by = u]]
  /\ rows = [k \in Signature |-> NoSignature] /\ provider = [k \in Signature |-> NotMade]
  /\ hooks = {} /\ stored = [k \in Signature |-> 0] /\ missed = {}

AgreementStarts(p) ==
  \/ generate_proposal(p) \/ send_proposal(p) \/ respond_to_proposal(p)
  \/ create_signature_request(p) \/ \E k \in Signature : yousign_webhook(p, k)

AgreementGoes(p) ==
  \/ ProposalCommits(p) \/ StatusCommits(p)
  \/ ProviderCall(p) \/ ProviderRefuses(p) \/ SignatureFails(p) \/ SignatureCommits(p)
  \/ handle_webhook(p) \/ HookCommits(p) \/ HookFails(p)

AgreementNext ==
  \/ \E p \in Proc : AgreementStarts(p) \/ AgreementGoes(p)
  \/ \E k \in Signature, o \in Outcomes : Decide(k, o)
=============================================================================

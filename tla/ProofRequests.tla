--------------------------- MODULE ProofRequests ---------------------------
(***************************************************************************)
(* The users of the verifier program side by side: sponsored submissions   *)
(* (ZkVerifier), the paid chat (PaidQuery) and the documents of a case     *)
(* (CaseDocuments) share the program's records and the requests served at  *)
(* a time.  What an answer, a row or a screen says of the chain is decided *)
(* by requests that look at it once and write later.                       *)
(***************************************************************************)
EXTENDS PaidQuery, CaseDocuments

vars == <<chainVars, req, used, chatVars, docVars>>

Init == ChainInit /\ ChatInit /\ DocInit

Next ==
  \/ ChainNext /\ UNCHANGED <<chatVars, docVars>>
  \/ ChatNext /\ UNCHANGED docVars
  \/ DocNext /\ UNCHANGED chatVars

Spec == Init /\ [][Next]_vars

\* A request that is served goes on, and a transaction that was taken lands or
\* expires; nothing is assumed of clients.
Serve(p) ==
  \/ Send(p) /\ UNCHANGED <<chatVars, docVars>>
  \/ /\ \/ CacheHit(p) \/ CacheMiss(p) \/ ProofSubmitted(p) \/ ProofRefused(p)
        \/ ProofFails(p) \/ AnswerFails(p) \/ Answer(p)
     /\ UNCHANGED docVars
Settle ==
  \E n \in DOMAIN tx : (Land(n) \/ Drop(n)) /\ UNCHANGED <<chatVars, docVars>>

Fairness ==
  /\ \A p \in Proc : WF_vars(Serve(p))
  /\ WF_vars(Settle)

FairSpec == Spec /\ Fairness

-----------------------------------------------------------------------------
(* Properties.                                                             *)

\* What the API reports of the chain is true, although it takes any status of a
\* transaction for success: the records that a client was told of are there, a
\* stored answer was paid for with the memo of its wallet and question and has
\* its record, and a proof attached to a document is the record of its claim.
ReportedIsOnChain ==
  /\ \A a \in told : record[a] # 0
  /\ \A r \in rows :
       /\ record[<<"compliance", r.payer, r.query>>] # 0
       /\ [memo |-> Memo(r.payer, r.query), ok |-> TRUE] \in paid
  /\ \A d \in Doc :
       docs[d].proof # NoPda =>
         /\ record[docs[d].proof] # 0
         /\ docs[d].claim = Commitment(docs[d].proof[2], docs[d].proof[3])

\* A question of a wallet is put to the model and stored twice only if two
\* requests took it for new at the same time; then at least one of the two rows
\* names a transaction that recorded nothing.
OneAnswerUnlessCrossed ==
  \A r, s \in rows :
    r # s /\ r.payer = s.payer /\ r.query = s.query =>
      /\ <<r.payer, r.query>> \in crossed
      /\ "failed" \in {tx[r.compliance_tx].st, tx[s.compliance_tx].st}

\* A request whose payment was verified leads to a stored answer, be it by a
\* second request that asked the same and overtook it, unless a request of this
\* wallet and question failed after its payment.
PaidIsAnswered ==
  \A w \in Wallet, c \in Content :
    (\E p \in Proc : Asking(p) /\ Asked(p) = <<w, c>>)
      ~> Cached(w, c) \/ <<w, c>> \in harmed

\* The copy of a document's status in the requirement it is linked to agrees
\* with the document, so that an administrator reads the same in both lists,
\* unless a request wrote the requirement after another one had relinked it.
RequirementFollowsDocument ==
  \A n \in Rows \ stale :
    needs[n].doc # NoDoc => needs[n].status = docs[needs[n].doc].status
=============================================================================

---------------------------- MODULE ClientRecords ---------------------------
(***************************************************************************)
(* What the office keeps of its clients: accounts, organizations,          *)
(* agreements and notices, the erasure of a client from all of them        *)
(* (app/compliance/erasure.py), and the office's own session at EUIPO.     *)
(***************************************************************************)
EXTENDS Organizations, Agreements, Notices, EuipoSession

vars == <<accountVars, history, req, used, orgVars, agreementVars, noticeVars, euipoVars>>

-----------------------------------------------------------------------------
(* Erasure.                                                                *)

\* The rows of a user that are deleted with the account.
Records(u) ==
  {<<"member", o>> : o \in {x \in Org : Member(x, u)}} \cup
  {<<"proposal", k>> : k \in {x \in Proposal : proposals[x].by = u}} \cup
  {<<"notice", n>> : n \in {x \in Notice : notices[x].by = u}}

\* The DELETEs wait for the notices that others have marked.
EraseRecords(p) ==
  LET u == req[p].user
  IN
  /\ At(p, "erase") /\ ~Erasing(u)
  /\ \A n \in Notice, q \in Proc : n \in Marked(q) => notices[n].by # u
  /\ req' = [req EXCEPT ![p] = [@ EXCEPT !.at = "tombstone", !.arg = Records(u)]]
  /\ UNCHANGED <<accountVars, history, orgVars, agreementVars, noticeVars, euipoVars, used>>

\* The rows that were deleted, and the tombstone, are committed.
EraseCommits(p) ==
  LET u == req[p].user
      records == req[p].arg
  IN
  /\ EraseAccount(p)
  /\ EraseMemberships(u, records) /\ EraseProposals(records) /\ EraseNotices(records)
  /\ Cross(Overtaken(p) \cup IF Records(u) # records THEN {<<"erased", u>>} ELSE {})
  /\ End(p) /\ UNCHANGED <<invites, signatureVars, sends, euipoVars>>

-----------------------------------------------------------------------------
(* The system.                                                             *)

Init == AccountInit /\ OrgInit /\ AgreementInit /\ NoticeInit /\ EuipoInit

AccountStep == AccountNext /\ UNCHANGED <<orgVars, agreementVars, noticeVars, euipoVars>>
OrgStep == OrgNext /\ UNCHANGED <<agreementVars, noticeVars, euipoVars>>
AgreementStep == AgreementNext /\ UNCHANGED <<orgVars, noticeVars, euipoVars>>
NoticeStep == NoticeNext /\ UNCHANGED <<orgVars, agreementVars, euipoVars>>
EraseStep(p) == EraseRecords(p) \/ EraseCommits(p)

ClientVars == <<accountVars, history, req, used, orgVars, agreementVars, noticeVars>>
OfEuipo(step) == used.lane = "euipo" /\ step /\ UNCHANGED ClientVars
EuipoStep == OfEuipo(EuipoNext)

Next ==
  \/ AccountStep \/ OrgStep \/ AgreementStep \/ NoticeStep \/ EuipoStep
  \/ \E p \in Proc : EraseStep(p)

Serve(p) ==
  \/ AgreementGoes(p) /\ UNCHANGED <<orgVars, noticeVars, euipoVars>>
  \/ EraseStep(p)

Deliver(k) ==
  \E p \in Proc : yousign_webhook(p, k) /\ UNCHANGED <<orgVars, noticeVars, euipoVars>>

\* A request that was accepted is served to its end (those about agreements and
\* erasure; of the others nothing is promised here), the provider delivers a webhook
\* until it is answered, and a call to EUIPO goes on.
Fairness ==
  /\ \A p \in Proc : WF_vars(Serve(p))
  /\ \A k \in Signature : WF_vars(Deliver(k))
  /\ \A c \in EuipoCall : WF_euipoVars(CallContinues(c))

Spec == Init /\ [][Next]_vars /\ Fairness

-----------------------------------------------------------------------------
(* Properties.                                                             *)

TypeOK ==
  /\ \A u \in User :
       /\ users[u].st \in {"none", "active", "inactive"} /\ users[u].erased \in BOOLEAN
       /\ users[u].pii \subseteq {"name", "phone", "avatar"}
       /\ users[u].org \in Org \cup {NoOrg}
  /\ otp \subseteq User /\ \A u \in User : nonce[u] \subseteq 1..MaxRequests
  /\ \A c \in Case : cases[c].st \in {"none", "draft", "open", "closed"}
  /\ \A o \in Org : orgs[o].slug \in Nat
  /\ \A k \in Proposal : proposals[k].st \in {"none", "draft", "sent", "deleted"} \cup Answers
  /\ \A k \in Signature : rows[k].st \in {"none", "ongoing", "error"} \cup Outcomes
  /\ \A n \in Notice :
       notices[n].st \in {"none", "pending", "sent", "failed", "cancelled", "deleted"}

\* Once an account is erased, nothing personal comes back: no column, no membership,
\* proposal or notice, and no open case but of a draft it sent to checkout
\* ("Irreversible", users/router.py), except by what a request wrote that had loaded
\* the account before, or an administrator.
ErasedStaysErased ==
  \A u \in User :
    users[u].erased /\ <<"erased", u>> \notin crossed =>
      /\ users[u].pii = {} /\ users[u].st = "inactive" /\ users[u].org = NoOrg
      /\ Records(u) = {} /\ OpenedByHand(u) = {}

\* Sign-in asks for a code of the secret that its owner proved to hold
\* (begin_enrollment: "refuse to silently overwrite a live secret"), unless an
\* enrollment crossed the enabling.
SecondFactorHolds ==
  \A u \in User :
    users[u].factor.on =>
      users[u].factor.secret = users[u].factor.proved \/ <<"secret", u>> \in crossed

\* A wallet challenge, a recovery code, an invite and a guest case are each used once,
\* a revoked invite not at all, unless two requests had read it before either wrote.
TakenOnce == again \subseteq crossed

\* The answer to a proposal is final, and so is a signature and the document stored
\* with it, unless two requests had read the row before either wrote.
OutcomeStands ==
  [][/\ \A k \in Proposal :
          proposals[k].st \in Answers /\ <<"proposal", k>> \notin crossed' =>
            proposals'[k].st \in {proposals[k].st, "deleted"}
     /\ \A k \in Signature :
          rows[k].st = "signed" /\ <<"signature", k>> \notin crossed' =>
            rows'[k] = rows[k] /\ stored'[k] = stored[k]]_vars

\* A document signed at the provider ends up with its row signed and the document
\* stored, unless the row was not committed when the webhook came, or never.
SignedReachesRow ==
  \A k \in Signature :
    provider[k].outcome = "signed" ~>
      (rows[k].st = "signed" /\ rows[k].document > 0) \/ k \in missed

\* A notice is recorded as sent only if WhatsApp took it; it is taken once, and not
\* at all when cancelled, unless an answer or a transaction was lost or two
\* requests had read it before either wrote.
NoticeIsAsRecorded ==
  \A n \in Notice :
    /\ notices[n].st = "sent" => sends[n] > 0
    /\ \/ sends[n] > 1
       \/ notices[n].st \in {"cancelled", "failed"} /\ sends[n] > 0
       => \/ <<"notice", n>> \in crossed
          \/ \E p \in Proc : Processes(p) /\ \E x \in req[p].sent : x[1] = n

-----------------------------------------------------------------------------
(* A statement of the docs that behaviours of the code do not satisfy.     *)

\* "the request is refused with 409 + the blocking cases if the subject has an active
\* legal proceeding": an erased account has no open case.  A draft at checkout is none
\* yet, and is promoted to one when it is paid afterwards.
ErasedHasNoOpenCase ==
  \A u \in User :
    users[u].erased /\ <<"erased", u>> \notin crossed => find_erasure_blockers(u) = {}
=============================================================================

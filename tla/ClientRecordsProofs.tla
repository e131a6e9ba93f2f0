------------------------ MODULE ClientRecordsProofs -------------------------
(***************************************************************************)
(* Theorems about what is kept of the clients, and about the office's own  *)
(* session at EUIPO, for every number of users, requests and calls.        *)
(***************************************************************************)
EXTENDS ClientRecords, TLAPS, FiniteSetTheorems, WellFoundedInduction
-----------------------------------------------------------------------------
(* Rows and requests, with the types that the proofs need.                 *)

Factor ==
  [secret : SUBSET Nat, on : BOOLEAN, codes : SUBSET (Nat \X {1, 2}), proved : SUBSET Nat]
Account ==
  [st : {"none", "active", "inactive"}, erased : BOOLEAN, pii : SUBSET {"name", "phone", "avatar"},
   factor : Factor, org : Org \cup {NoOrg}]
CaseRow ==
  {row \in [st : {"none", "draft", "open", "closed"}, client : User \cup {NoUser}, draft : BOOLEAN] :
     row.st = "draft" => row.draft}
Role == {"none", "owner", "member"}
InviteRow ==
  [org : Org \cup {NoOrg}, role : Role, accepted : BOOLEAN, revoked : BOOLEAN, expired : BOOLEAN]
ProposalRow ==
  [st : {"none", "draft", "sent", "deleted"} \cup Answers, by : User \cup {NoUser}, reason : BOOLEAN]
SignatureRow == [st : {"none", "ongoing", "error"} \cup Outcomes, ids : BOOLEAN, document : Nat]
NoticeStatus == {"none", "pending", "sent", "failed", "cancelled", "deleted"}
NoticeRow == [st : NoticeStatus, tries : Nat, by : User \cup {NoUser}, due : BOOLEAN]

AccountsOK ==
  /\ users \in [User -> Account] /\ otp \subseteq User /\ nonce \in [User -> SUBSET Nat]
  /\ cases \in [Case -> CaseRow]
OrgsOK ==
  orgs \in [Org -> [slug : Nat, role : [User -> Role]]] /\ invites \in [Invite -> InviteRow]
AgreementsOK ==
  /\ proposals \in [Proposal -> ProposalRow]
  /\ rows \in [Signature -> SignatureRow] /\ stored \in [Signature -> Nat]
  /\ provider \in [Signature -> [calls : Nat, outcome : {"open"} \cup Outcomes]]
  /\ \A k \in hooks : k \in Signature /\ provider[k].outcome # "open"
\* A webhook that is served tells of an outcome.
HooksOK ==
  \A p \in Proc : At(p, "hook") \/ At(p, "outcome") => provider[req[p].signature].outcome # "open"
NoticesOK == notices \in [Notice -> NoticeRow] /\ sends \in [Notice -> Nat]
UsedOK == used \in [requests : Nat, faults : Nat, lane : Lane]

\* What a request of a user carries, by the step it is at.
ArgOK(at, arg) ==
  CASE at = "link"               -> arg \subseteq Case \X CaseRow
    [] at \in {"enroll", "enable"} -> arg \subseteq Nat
    [] at \in {"disable", "recover"} -> arg \subseteq Nat \X {1, 2}
    [] at \in {"update", "unset", "admin"} -> arg \subseteq {"name", "phone", "avatar"}
    [] at = "organization"       -> arg \subseteq Nat
    [] at = "switch"             -> arg \subseteq Org
    [] at = "invite"             -> arg \subseteq Org \X Role
    [] at \in {"accept", "revoke"} -> arg \subseteq Invite \X InviteRow
    [] at = "notify"             -> arg \subseteq BOOLEAN
    [] at \in {"later", "cancel"} -> arg \subseteq Notice \X NoticeRow
    [] OTHER                     -> TRUE

Named == {"enroll", "enable", "disable", "recover", "update", "unset", "case", "organization",
          "switch", "invite", "accept", "revoke", "propose", "notify", "later", "cancel"}
OpOK(at, op) ==
  CASE at \in {"wallet", "create", "link"} -> op = "register"
    [] at \in {"erase", "tombstone"}       -> op = "erase"
    [] at = "admin"                        -> op \in {"active", "inactive"}
    [] OTHER                               -> op = at

UserRequest(r) ==
  /\ DOMAIN r = {"at", "op", "user", "saw", "arg"}
  /\ r.at \in Named \cup {"wallet", "create", "link", "erase", "tombstone", "admin"}
  /\ OpOK(r.at, r.op) /\ ArgOK(r.at, r.arg)
  /\ r.user \in User /\ r.saw \in Account

ProposalRequest(r) ==
  /\ DOMAIN r = {"at", "op", "proposal", "saw"} /\ r.op = r.at
  /\ r.at \in {"sent"} \cup Answers /\ r.proposal \in Proposal /\ r.saw \in ProposalRow

SignatureRequest(r) ==
  /\ "signature" \in DOMAIN r /\ r.signature \in Signature
  /\ \/ DOMAIN r = {"at", "op", "signature", "done"} /\ r.at = "call" /\ r.op = "sign" /\ r.done \in Nat
     \/ DOMAIN r = {"at", "op", "signature"} /\ r.at = "hook" /\ r.op = "hook"
     \/ /\ DOMAIN r = {"at", "op", "signature", "saw"} /\ r.at = "outcome" /\ r.op = "hook"
        /\ r.saw \in SignatureRow

NoticeRequest(r) ==
  /\ DOMAIN r = {"at", "op", "saw", "user", "passes", "todo", "now", "sent", "marks"}
  /\ r.op = "process"
  /\ r.at \in {"read", "send", "taken", "refused", "lost"}
  /\ r.saw \in Account /\ r.user \in User \cup {NoUser}
  /\ r.todo \cup r.now \cup r.sent \subseteq Notice \X NoticeRow
  /\ DOMAIN r.marks \subseteq Notice /\ r.marks \in [DOMAIN r.marks -> NoticeRow]

RequestOK(r) ==
  r = Idle \/ UserRequest(r) \/ ProposalRequest(r) \/ SignatureRequest(r) \/ NoticeRequest(r)

RequestsOK == req = [p \in Proc |-> req[p]] /\ \A p \in Proc : RequestOK(req[p])

RecordsOK ==
  /\ AccountsOK /\ OrgsOK /\ AgreementsOK /\ NoticesOK /\ UsedOK /\ RequestsOK /\ HooksOK

LEMMA RequestStep ==
  ASSUME RequestsOK, NEW p \in Proc, NEW r, RequestOK(r), req' = [req EXCEPT ![p] = r]
  PROVE  /\ RequestsOK' /\ req'[p] = r
         /\ \A q \in Proc : q # p => req'[q] = req[q]
  BY DEF RequestsOK

\* A write of a case by a request that ends with it.
LEMMA CaseWritten ==
  \A p : WriteCase(p) => /\ Begin(p, {"account"}, Idle) /\ UNCHANGED <<users, otp, nonce, spent, again>>
                         /\ crossed \subseteq crossed'
  BY DEF WriteCase, create_case_for, prepare_payment, promote_draft_and_setup_nft, update_case, Cross

\* What is written: a new case, or the status of one.
LEMMA CaseWrites ==
  ASSUME AccountsOK, NEW p, WriteCase(p)
  PROVE  \E c \in Case, row \in CaseRow :
           /\ cases' = [cases EXCEPT ![c] = row] /\ row.st # "none"
           /\ row.client = cases[c].client \/ cases[c].st = "none"
           /\ row.draft \/ OfErased(row.client) \subseteq crossed'
<1>1. CASE create_case_for(p)
  <2>1. PICK client \in User \cup {NoUser}, c \in Case :
          cases[c].st = "none" /\ cases' = [cases EXCEPT ![c] = Open(client)] /\ OfErased(client) \subseteq crossed'
    BY <1>1 DEF create_case_for, Inserted, NewCase, Cross
  <2>2. Open(client) \in CaseRow /\ Open(client).st = "open" /\ Open(client).client = client
    BY DEF Open, CaseRow
  <2> QED
    BY <2>1, <2>2
<1>2. CASE prepare_payment(p)
  <2>1. PICK u \in User, c \in Case : cases[c].st = "none" /\ cases' = [cases EXCEPT ![c] = Draft(u)]
    BY <1>2 DEF prepare_payment, Inserted, NewCase
  <2>2. Draft(u) \in CaseRow /\ Draft(u).st = "draft" /\ Draft(u).draft
    BY DEF Draft, CaseRow
  <2> QED
    BY <2>1, <2>2
<1>3. ASSUME NEW c \in Case, NEW st \in {"open", "closed"}, cases' = [cases EXCEPT ![c].st = st],
             cases[c].draft \/ OfErased(cases[c].client) \subseteq crossed'
      PROVE  \E row \in CaseRow :
               /\ cases' = [cases EXCEPT ![c] = row] /\ row.st # "none" /\ row.client = cases[c].client
               /\ row.draft \/ OfErased(row.client) \subseteq crossed'
  <2>1. PICK row : row = [cases[c] EXCEPT !.st = st]
    OBVIOUS
  <2>2. row \in CaseRow /\ row.st = st /\ row.client = cases[c].client /\ row.draft = cases[c].draft
    BY <2>1 DEF AccountsOK, CaseRow
  <2>3. cases' = [cases EXCEPT ![c] = row]
    BY <1>3, <2>1
  <2> QED
    BY <1>3, <2>2, <2>3
<1>4. CASE promote_draft_and_setup_nft(p)
  <2>1. PICK c \in Case : cases[c].st = "draft" /\ cases' = [cases EXCEPT ![c].st = "open"]
    BY <1>4 DEF promote_draft_and_setup_nft
  <2>2. cases[c].draft
    BY <2>1 DEF AccountsOK, CaseRow
  <2> QED
    BY <1>3, <2>1, <2>2
<1>5. CASE update_case(p)
  BY <1>3, <1>5 DEF update_case, Cross
<1> QED
  BY <1>1, <1>2, <1>4, <1>5 DEF WriteCase

LEMMA EndStep ==
  ASSUME RequestsOK, NEW p \in Proc, End(p)
  PROVE  /\ RequestsOK' /\ req'[p] = Idle
         /\ \A q \in Proc : q # p => req'[q] = req[q]
<1>1. RequestOK(Idle) /\ req' = [req EXCEPT ![p] = Idle]
  BY DEF End, RequestOK
<1> QED
  BY <1>1 DEF RequestsOK

LEMMA IdleStep ==
  ASSUME RequestsOK, UsedOK, NEW p \in Proc, NEW lanes, Begin(p, lanes, Idle)
  PROVE  /\ RequestsOK' /\ req'[p] = Idle
         /\ \A q \in Proc : q # p => req'[q] = req[q]
         /\ UsedOK'
         /\ used'.requests = used.requests + 1
<1>1. RequestOK(Idle) /\ req' = [req EXCEPT ![p] = Idle]
  BY DEF Begin, RequestOK
<1>2. UsedOK' /\ used'.requests = used.requests + 1
  BY DEF Begin, UsedOK
<1> QED
  BY <1>1, <1>2 DEF RequestsOK

\* A request of a user begins.
LEMMA UserBegins ==
  ASSUME RequestsOK, UsedOK, users \in [User -> Account], NEW p \in Proc, NEW lane, NEW u \in User, NEW op \in Named, NEW more,
         ArgOK(op, more), Request(p, lane, u, op, more)
  PROVE  /\ RequestsOK'
         /\ req'[p] = [at |-> op, op |-> op, user |-> u, saw |-> users[u], arg |-> more]
         /\ \A q \in Proc : q # p => req'[q] = req[q]
         /\ UsedOK'
         /\ used'.requests = used.requests + 1
         /\ users[u].st = "active" /\ req[p].at = "idle"
<1> DEFINE r == [at |-> op, op |-> op, user |-> u, saw |-> users[u], arg |-> more]
<1>1. UserRequest(r)
  BY DEF UserRequest, OpOK, Named
<1>2. req' = [req EXCEPT ![p] = r] /\ RequestsOK
  BY DEF Request, Begin
<1> HIDE DEF r
<1>3. /\ RequestsOK' /\ req'[p] = r
      /\ \A q \in Proc : q # p => req'[q] = req[q]
  BY <1>1, <1>2, RequestStep DEF RequestOK
<1>4. /\ UsedOK'
      /\ used'.requests = used.requests + 1
  BY DEF Request, Begin, UsedOK
<1> QED
  BY <1>3, <1>4 DEF Request, Begin, At, Active, r

LEMMA FaultTypes ==
  ASSUME UsedOK, Fault
  PROVE  UsedOK' /\ used'.requests = used.requests
  BY DEF UsedOK, Fault

LEMMA AccountRows == NoAccount \in Account /\ Registered \in Account /\ Enrolled \in Account
<1>1. NoFactor \in Factor /\ [NoFactor EXCEPT !.proved = {}] \in Factor
  BY DEF NoFactor, Factor
<1>2. NoAccount \in Account
  BY <1>1 DEF NoAccount, Account
<1>3. Registered \in Account
  BY <1>2 DEF Registered, Account
<1>4. Codes(0) \in SUBSET (Nat \X {1, 2})
  BY DEF Codes
<1>5. [secret |-> {0}, on |-> TRUE, codes |-> Codes(0), proved |-> {0}] \in Factor
  BY <1>4 DEF Factor
<1>6. Enrolled \in Account
  BY <1>3, <1>5 DEF Enrolled, Account
<1> QED
  BY <1>2, <1>3, <1>6

LEMMA RegistersOK ==
  ASSUME NEW p, NEW u \in User
  PROVE  /\ RequestOK(Registers(p, u))
         /\ RequestOK([Registers(p, u) EXCEPT !.at = "wallet"])
  BY AccountRows DEF RequestOK, UserRequest, Registers, OpOK, ArgOK

\* Registration and sign-in.
LEMMA RegistrationTypes ==
  ASSUME RecordsOK, NEW p \in Proc,
         register(p) \/ register_request(p) \/ register_verify(p)
         \/ request_wallet_nonce(p) \/ verify_wallet_signature(p)
         \/ create_user(p) \/ link_guest_cases(p) \/ authenticate_or_create(p)
  PROVE  AccountsOK' /\ UsedOK' /\ RequestsOK'
<1> USE DEF RecordsOK
<1>1. ASSUME NEW u \in User, NEW lanes, Begin(p, lanes, Registers(p, u))
      PROVE  RequestsOK' /\ UsedOK'
  <2>1. req' = [req EXCEPT ![p] = Registers(p, u)] /\ UsedOK'
    BY <1>1 DEF Begin, UsedOK
  <2>2. RequestOK(Registers(p, u))
    BY RegistersOK
  <2> QED
    BY <2>1, <2>2, RequestStep
<1>2. CASE register(p) \/ register_verify(p)
  <2>1. PICK u \in User : Begin(p, {"account"}, Registers(p, u))
    BY <1>2 DEF register, register_verify, AccountsOK
  <2> QED
    BY <1>1, <1>2, <2>1 DEF register, register_verify, verify_code, AccountsOK, accountVars
<1>3. CASE register_request(p)
  <2>1. PICK u \in User : store_pending(u) /\ Begin(p, {"account"}, Idle)
    BY <1>3 DEF register_request
  <2> QED
    BY <1>3, <2>1, IdleStep DEF register_request, store_pending, AccountsOK
<1>4. CASE request_wallet_nonce(p)
  <2>1. PICK u \in WalletUser : generate_nonce(u) /\ Begin(p, {"account"}, Idle)
    BY <1>4 DEF request_wallet_nonce
  <2>2. RequestsOK' /\ UsedOK'
    BY <2>1, IdleStep
  <2>3. {Number} \in SUBSET Nat
    BY DEF Number, UsedOK
  <2>4. nonce' \in [User -> SUBSET Nat]
    BY <2>1, <2>3 DEF AccountsOK, generate_nonce
  <2> QED
    BY <1>4, <2>2, <2>4 DEF request_wallet_nonce, AccountsOK
<1>5. CASE verify_wallet_signature(p)
  <2>1. PICK u \in WalletUser :
          /\ consume_cached_nonce(u)
          /\ \/ Begin(p, {"account"}, [Registers(p, u) EXCEPT !.at = "wallet"])
             \/ Begin(p, {"account"}, Idle)
    BY <1>5 DEF verify_wallet_signature
  <2>2. RequestsOK' /\ UsedOK'
    BY <2>1, IdleStep, RegistersOK, RequestStep, NoUserAssumption DEF Begin, UsedOK
  <2> QED
    BY <1>5, <2>1, <2>2 DEF verify_wallet_signature, AccountsOK, consume_cached_nonce
<1>6. CASE create_user(p)
  <2>1. CASE End(p)
    BY <1>6, <2>1, EndStep DEF create_user, AccountsOK, accountVars, UsedOK
  <2>2. CASE req' = [req EXCEPT ![p] = [@ EXCEPT !.at = "link", !.arg = Guests(req[p].user)]]
    <3>1. UserRequest(req[p]) /\ req[p].at = "create" /\ req[p].op = "register"
      BY <1>6 DEF create_user, At, RequestsOK, RequestOK, Idle, ProposalRequest, SignatureRequest,
                  NoticeRequest, Answers, UserRequest, OpOK
    <3>2. Guests(req[p].user) \subseteq Case \X CaseRow
      BY DEF Guests, AccountsOK
    <3>3. RequestOK([req[p] EXCEPT !.at = "link", !.arg = Guests(req[p].user)])
      BY <3>1, <3>2 DEF RequestOK, UserRequest, OpOK, ArgOK
    <3>4. req' = [req EXCEPT ![p] = [req[p] EXCEPT !.at = "link", !.arg = Guests(req[p].user)]]
      BY <2>2
    <3> QED
      BY <1>6, <3>3, <3>4, RequestStep DEF create_user, AccountsOK, accountVars, UsedOK
  <2> QED
    BY <1>6, <2>1, <2>2 DEF create_user
<1>7. CASE link_guest_cases(p)
  <2>1. UserRequest(req[p])
    BY <1>7 DEF link_guest_cases, At, RequestsOK, RequestOK, Idle, ProposalRequest, SignatureRequest,
                NoticeRequest, Answers
  <2>2. UsedOK'
    BY <1>7, FaultTypes DEF link_guest_cases, UsedOK
  <2>3. AccountsOK'
    <3>1. req[p].user \in User
      BY <2>1 DEF UserRequest
    <3>2. users' \in [User -> Account]
      BY <1>7, AccountRows DEF link_guest_cases, AccountsOK
    <3>3. \A c \in Case : [cases[c] EXCEPT !.client = req[p].user] \in CaseRow
      BY <3>1 DEF AccountsOK, CaseRow
    <3>4. cases' \in [Case -> CaseRow]
      BY <1>7, <3>3 DEF link_guest_cases, AccountsOK
    <3> QED
      BY <1>7, <3>2, <3>4 DEF link_guest_cases, AccountsOK
  <2> QED
    BY <1>7, <2>2, <2>3, EndStep DEF link_guest_cases
<1>8. CASE authenticate_or_create(p)
  <2>1. UserRequest(req[p]) /\ req[p].at = "wallet" /\ req[p].op = "register"
    BY <1>8 DEF authenticate_or_create, At, RequestsOK, RequestOK, Idle, ProposalRequest, SignatureRequest,
                NoticeRequest, Answers, UserRequest, OpOK
  <2>2. RequestOK([req[p] EXCEPT !.at = "create"])
    BY <2>1 DEF RequestOK, UserRequest, OpOK, ArgOK
  <2>3. Goto(p, "create") => req' = [req EXCEPT ![p] = [req[p] EXCEPT !.at = "create"]]
    BY DEF Goto
  <2> QED
    BY <1>8, <2>2, <2>3, RequestStep, EndStep DEF authenticate_or_create, AccountsOK, accountVars, UsedOK
<1> QED
  BY <1>2, <1>3, <1>4, <1>5, <1>6, <1>7, <1>8

\* The second factor, the profile, administrators and cases.
LEMMA ProfileTypes ==
  ASSUME RecordsOK, NEW p \in Proc,
         begin_enrollment(p) \/ enable(p) \/ disable(p) \/ verify_second_factor(p)
         \/ update_user(p) \/ upload_my_avatar(p) \/ delete_my_avatar(p) \/ update_by_admin(p)
         \/ create_case(p) \/ WriteCase(p) \/ erase_user(p)
         \/ FactorCommits(p) \/ ProfileCommits(p) \/ CaseCommits(p)
  PROVE  AccountsOK' /\ UsedOK' /\ RequestsOK'
<1> USE DEF RecordsOK
<1>1. CASE begin_enrollment(p) \/ enable(p) \/ disable(p) \/ verify_second_factor(p)
           \/ update_user(p) \/ upload_my_avatar(p) \/ delete_my_avatar(p) \/ create_case(p)
  <2>1. \E more : \E u \in User, op \in Named : ArgOK(op, more) /\ Request(p, "account", u, op, more)
    <3>1. ArgOK("enroll", {Number}) /\ ArgOK("enable", {Number})
      BY DEF ArgOK, Number, UsedOK
    <3>2. ArgOK("disable", {}) /\ ArgOK("case", {})
      BY DEF ArgOK
    <3>3. \A u \in User : \A code \in users[u].factor.codes : ArgOK("recover", {code}) /\ ArgOK("disable", {code})
      BY DEF ArgOK, AccountsOK, Account, Factor
    <3>4. \A cols : cols \subseteq {"name", "phone", "avatar"} =>
             ArgOK("update", cols) /\ ArgOK("unset", cols)
      BY DEF ArgOK
    <3> QED
      BY <1>1, <3>1, <3>2, <3>3, <3>4 DEF begin_enrollment, enable, disable, verify_second_factor,
          update_user, upload_my_avatar, delete_my_avatar, create_case, Named
  <2>2. UNCHANGED accountVars
    BY <1>1 DEF begin_enrollment, enable, disable, verify_second_factor, update_user, upload_my_avatar,
                delete_my_avatar, create_case
  <2> QED
    BY <2>1, <2>2, UserBegins DEF AccountsOK, accountVars
<1>2. CASE update_by_admin(p)
  <2>1. PICK u \in User, st \in {"active", "inactive"}, cols \in SUBSET {"phone"} :
          Begin(p, {"account"}, [at |-> "admin", op |-> st, user |-> u, saw |-> users[u], arg |-> cols])
    BY <1>2 DEF update_by_admin
  <2>2. RequestOK([at |-> "admin", op |-> st, user |-> u, saw |-> users[u], arg |-> cols])
    BY DEF RequestOK, UserRequest, OpOK, ArgOK, AccountsOK
  <2>3. RequestsOK'
    BY <2>1, <2>2, RequestStep DEF Begin
  <2> QED
    BY <1>2, <2>1, <2>3 DEF update_by_admin, AccountsOK, accountVars, Begin, UsedOK
<1>3. CASE erase_user(p)
  <2>1. PICK u \in User :
          Begin(p, Lane \ {"euipo"},
                [at |-> "erase", op |-> "erase", user |-> u, saw |-> users[u], arg |-> {}])
    BY <1>3 DEF erase_user
  <2>2. RequestOK([at |-> "erase", op |-> "erase", user |-> u, saw |-> users[u], arg |-> {}])
    BY DEF RequestOK, UserRequest, OpOK, ArgOK, AccountsOK
  <2>3. RequestsOK'
    BY <2>1, <2>2, RequestStep DEF Begin
  <2> QED
    BY <1>3, <2>1, <2>3 DEF erase_user, AccountsOK, accountVars, Begin, UsedOK
<1>4. CASE WriteCase(p)
  <2>1. RequestsOK' /\ UsedOK' /\ UNCHANGED <<users, otp, nonce>>
    BY <1>4, IdleStep, CaseWritten
  <2>2. cases' \in [Case -> CaseRow]
    BY <1>4, CaseWrites DEF AccountsOK
  <2> QED
    BY <2>1, <2>2 DEF AccountsOK
<1>5. CASE CaseCommits(p)
  <2>1. UserRequest(req[p])
    BY <1>5 DEF CaseCommits, At, RequestsOK, RequestOK, Idle, ProposalRequest, SignatureRequest,
                NoticeRequest, Answers
  <2> QED
    <3>1. Open(req[p].user) \in CaseRow
      BY <2>1 DEF Open, CaseRow, UserRequest
    <3>2. cases' \in [Case -> CaseRow]
      BY <1>5, <3>1 DEF CaseCommits, AccountsOK, Inserted, NewCase
    <3> QED
      BY <1>5, <3>2, EndStep DEF CaseCommits, AccountsOK, UsedOK
<1>6. CASE ProfileCommits(p)
  <2>1. UserRequest(req[p]) /\ req[p].arg \subseteq {"name", "phone", "avatar"}
        /\ (At(p, "admin") => req[p].op \in {"active", "inactive"})
    BY <1>6 DEF ProfileCommits, At, RequestsOK, RequestOK, Idle, ProposalRequest, SignatureRequest,
                NoticeRequest, Answers, UserRequest, ArgOK, OpOK
  <2>2. PICK pii \in SUBSET {"name", "phone", "avatar"}, st \in {"none", "active", "inactive"} :
          users' = [users EXCEPT ![req[p].user] = [@ EXCEPT !.pii = pii, !.st = st]]
    <3>1. /\ users[req[p].user].pii \subseteq {"name", "phone", "avatar"}
          /\ users[req[p].user].st \in {"none", "active", "inactive"}
      BY <2>1 DEF UserRequest, AccountsOK, Account
    <3> QED
      BY <1>6, <2>1, <3>1 DEF ProfileCommits
  <2>3. users' \in [User -> Account]
    <3>1. [users[req[p].user] EXCEPT !.pii = pii, !.st = st] \in Account
      BY <2>1 DEF UserRequest, AccountsOK, Account
    <3>2. users' = [users EXCEPT ![req[p].user] = [users[req[p].user] EXCEPT !.pii = pii, !.st = st]]
      BY <2>2
    <3> QED
      BY <3>1, <3>2 DEF AccountsOK
  <2> QED
    BY <1>6, <2>3, EndStep DEF ProfileCommits, AccountsOK, UsedOK
<1>7. CASE FactorCommits(p)
  <2>1. UserRequest(req[p]) /\ ArgOK(req[p].at, req[p].arg) /\ req[p].op = req[p].at
    BY <1>7 DEF FactorCommits, At, RequestsOK, RequestOK, Idle, ProposalRequest, SignatureRequest,
                NoticeRequest, Answers, UserRequest, OpOK
  <2>2. users[req[p].user].factor \in Factor /\ req[p].saw.factor \in Factor
    BY <2>1 DEF UserRequest, AccountsOK, Account
  <2>3. FactorAfter(p) \in Factor
    <3>1. CASE At(p, "enroll")
      BY <2>1, <2>2, <3>1 DEF FactorAfter, Serves, At, ArgOK, Factor
    <3>2. CASE At(p, "enable")
      <4>1. UNION {Codes(k) : k \in req[p].arg} \subseteq Nat \X {1, 2}
        BY <2>1, <3>2 DEF ArgOK, Codes, At
      <4> QED
        BY <2>1, <2>2, <3>2, <4>1 DEF FactorAfter, Serves, At, Factor
    <3>3. CASE At(p, "disable")
      BY <2>1, <2>2, <3>3 DEF FactorAfter, Serves, At, Factor, NoFactor
    <3>4. CASE At(p, "recover")
      BY <2>1, <2>2, <3>4 DEF FactorAfter, Serves, At, Factor, consume_recovery_code
    <3> QED
      BY <1>7, <3>1, <3>2, <3>3, <3>4 DEF FactorCommits
  <2>4. users' \in [User -> Account]
    <3>1. [users[req[p].user] EXCEPT !.factor = FactorAfter(p)] \in Account
      BY <2>1, <2>3 DEF UserRequest, AccountsOK, Account
    <3>2. users' = [users EXCEPT ![req[p].user] = [users[req[p].user] EXCEPT !.factor = FactorAfter(p)]]
      BY <1>7 DEF FactorCommits
    <3> QED
      BY <3>1, <3>2 DEF AccountsOK
  <2> QED
    BY <1>7, <2>4, EndStep DEF FactorCommits, AccountsOK, UsedOK
<1> QED
  BY <1>1, <1>2, <1>3, <1>4, <1>5, <1>6, <1>7

LEMMA AccountTypes ==
  ASSUME RecordsOK, AccountNext
  PROVE  AccountsOK' /\ UsedOK' /\ RequestsOK'
<1>1. ASSUME NEW u \in User, OtpExpires(u) \/ NonceExpires(u)
      PROVE  AccountsOK' /\ UsedOK' /\ RequestsOK'
  BY <1>1 DEF OtpExpires, NonceExpires, RecordsOK, AccountsOK, UsedOK, RequestsOK, history
<1> QED
  BY <1>1, RegistrationTypes, ProfileTypes DEF AccountNext, AccountStarts, AccountGoes

\* An organization always finds a number for its slug: there are more numbers than rows.
LEMMA SlugIsNumber == resolve_unique_slug \in 1..(Cardinality(Org) + 1)
<1> DEFINE N == Cardinality(Org) + 1
           f == [o \in Org |-> orgs[o].slug]
           S == {f[o] : o \in Org}
           T == (1..N) \ S
           R == {z \in Nat \X Nat : z[1] < z[2]}
<1>1. N \in Nat /\ Cardinality(Org) \in Nat
  BY FS_CardinalityType, OrgAssumption
<1>2. IsFiniteSet(S) /\ Cardinality(S) <= Cardinality(Org)
  <2>1. f \in Surjection(Org, S)
    BY DEF Surjection
  <2> QED
    BY <2>1, FS_Surjection, OrgAssumption
<1>3. T # {}
  <2>1. SUFFICES ASSUME 1..N \subseteq S
                 PROVE  FALSE
    OBVIOUS
  <2>2. Cardinality(1..N) = N
    BY <1>1, FS_Interval
  <2>3. Cardinality(1..N) <= Cardinality(S)
    BY <1>2, <2>1, FS_Subset
  <2>4. Cardinality(S) \in Nat
    BY <1>2, FS_CardinalityType
  <2> QED
    BY <1>1, <1>2, <2>2, <2>3, <2>4
<1>4. PICK n \in T : \A m \in T : ~(<<m, n>> \in R)
  <2>1. T \subseteq Nat
    BY <1>1
  <2> HIDE DEF T, R
  <2>2. IsWellFoundedOn(R, Nat)
    BY NatLessThanWellFounded DEF R, OpToRel
  <2> QED
    BY <1>3, <2>1, <2>2, WFMin
<1>5. \A m \in T : ~(m < n)
  <2>1. SUFFICES ASSUME NEW m \in T, m < n
                 PROVE  FALSE
    OBVIOUS
  <2>2. m \in Nat /\ n \in Nat
    BY <1>1
  <2>3. <<m, n>> \in R
    BY <2>1, <2>2
  <2> QED
    BY <1>4, <2>3
<1>6. /\ \A o \in Org : orgs[o].slug # n
      /\ \A m \in 1..(n - 1) : \E o \in Org : orgs[o].slug = m
  BY <1>1, <1>5
<1> QED
  BY <1>1, <1>6 DEF resolve_unique_slug

\* A record that a request carries, from the step it is at.
LEMMA AtUser ==
  ASSUME RequestsOK, NEW p \in Proc,
         req[p].at \in Named \cup {"wallet", "create", "link", "erase", "tombstone", "admin"}
  PROVE  UserRequest(req[p])
  BY DEF RequestsOK, RequestOK, Idle, ProposalRequest, SignatureRequest, NoticeRequest, Answers, Named

LEMMA RoleStep ==
  ASSUME OrgsOK, NEW o \in Org, NEW u, NEW role \in Role, orgs' = [orgs EXCEPT ![o].role[u] = role]
  PROVE  orgs' \in [Org -> [slug : Nat, role : [User -> Role]]]
<1>1. [orgs[o].role EXCEPT ![u] = role] \in [User -> Role]
  BY DEF OrgsOK
<1>2. [orgs[o] EXCEPT !.role[u] = role] \in [slug : Nat, role : [User -> Role]]
  BY <1>1 DEF OrgsOK
<1> QED
  BY <1>2 DEF OrgsOK

\* The default organization of an account.
LEMMA DefaultOrgStep ==
  ASSUME AccountsOK, NEW u \in User, NEW o \in Org \cup {NoOrg},
         users' = [users EXCEPT ![u].org = o]
  PROVE  users' \in [User -> Account]
<1>1. [users[u] EXCEPT !.org = o] \in Account
  BY DEF AccountsOK, Account
<1> QED
  BY <1>1 DEF AccountsOK

LEMMA OrgTypes ==
  ASSUME RecordsOK, OrgNext
  PROVE  AccountsOK' /\ OrgsOK' /\ UsedOK' /\ RequestsOK'
<1> USE DEF RecordsOK
<1>1. ASSUME NEW p \in Proc, OrgStarts(p)
      PROVE  AccountsOK' /\ OrgsOK' /\ UsedOK' /\ RequestsOK'
  <2>1. \E more : \E u \in User, op \in Named : ArgOK(op, more) /\ Request(p, "org", u, op, more)
    <3>1. CASE create_organization(p)
      <4>1. ArgOK("organization", {resolve_unique_slug})
        BY SlugIsNumber, FS_CardinalityType, OrgAssumption DEF ArgOK
      <4> QED
        BY <3>1, <4>1 DEF create_organization, Named
    <3>2. CASE switch_default_organization(p)
      <4>1. \A o \in Org : ArgOK("switch", {o})
        BY DEF ArgOK
      <4> QED
        BY <3>2, <4>1 DEF switch_default_organization, Named
    <3>3. CASE create_invite(p)
      <4>1. \A o \in Org, role \in {"owner", "member"} : ArgOK("invite", {<<o, role>>})
        BY DEF ArgOK, Role
      <4> QED
        BY <3>3, <4>1 DEF create_invite, Named
    <3>4. CASE accept_invite(p) \/ revoke_invite(p)
      <4>1. \A i \in Invite : ArgOK("accept", {<<i, invites[i]>>}) /\ ArgOK("revoke", {<<i, invites[i]>>})
        BY DEF ArgOK, OrgsOK
      <4> QED
        BY <3>4, <4>1 DEF accept_invite, revoke_invite, Named
    <3> QED
      BY <1>1, <3>1, <3>2, <3>3, <3>4 DEF OrgStarts
  <2>2. UNCHANGED <<accountVars, orgVars>>
    BY <1>1 DEF OrgStarts, create_organization, switch_default_organization, create_invite,
        accept_invite, revoke_invite
  <2> QED
    BY <2>1, <2>2, UserBegins DEF AccountsOK, OrgsOK, accountVars, orgVars
<1>2. ASSUME NEW p \in Proc, OrganizationCommits(p)
      PROVE  AccountsOK' /\ OrgsOK' /\ UsedOK' /\ RequestsOK'
  <2>1. UserRequest(req[p]) /\ req[p].arg \subseteq Nat /\ req[p].user \in User
    BY <1>2, AtUser DEF OrganizationCommits, At, Named, UserRequest, ArgOK
  <2>2. PICK n \in req[p].arg, o \in Inserted({x \in Org : ~Exists(x)}) :
          \/ /\ orgs' = [orgs EXCEPT ![o] = [slug |-> n, role |-> [@.role EXCEPT ![req[p].user] = "owner"]]]
             /\ users' = [users EXCEPT ![req[p].user].org = IF req[p].saw.org = NoOrg THEN o ELSE @]
          \/ UNCHANGED <<orgs, users>>
    BY <1>2 DEF OrganizationCommits
  <2>3. o \in Org /\ n \in Nat
    BY <2>1, <2>2 DEF Inserted
  <2>4. [orgs[o].role EXCEPT ![req[p].user] = "owner"] \in [User -> Role]
    BY <2>3 DEF OrgsOK, Role
  <2>5. orgs' \in [Org -> [slug : Nat, role : [User -> Role]]]
    BY <2>2, <2>3, <2>4 DEF OrgsOK
  <2>6. users' \in [User -> Account]
    <3>1. users[req[p].user].org \in Org \cup {NoOrg}
      BY <2>1 DEF AccountsOK, Account
    <3>2. \/ UNCHANGED users
          \/ \E x \in Org \cup {NoOrg} : users' = [users EXCEPT ![req[p].user].org = x]
      BY <2>2, <2>3, <3>1
    <3> QED
      BY <2>1, <3>2, DefaultOrgStep DEF AccountsOK
  <2> QED
    BY <1>2, <2>5, <2>6, EndStep DEF OrganizationCommits, AccountsOK, OrgsOK, UsedOK
<1>3. ASSUME NEW p \in Proc, SwitchCommits(p)
      PROVE  AccountsOK' /\ OrgsOK' /\ UsedOK' /\ RequestsOK'
  <2>1. UserRequest(req[p]) /\ req[p].arg \subseteq Org /\ req[p].user \in User
    BY <1>3, AtUser DEF SwitchCommits, At, Named, UserRequest, ArgOK
  <2>2. \E x \in Org \cup {NoOrg} : users' = [users EXCEPT ![req[p].user].org = x]
    <3>1. users[req[p].user].org \in Org \cup {NoOrg}
      BY <2>1 DEF AccountsOK, Account
    <3> QED
      BY <1>3, <2>1, <3>1 DEF SwitchCommits
  <2>3. users' \in [User -> Account]
    BY <2>1, <2>2, DefaultOrgStep
  <2> QED
    BY <1>3, <2>3, EndStep DEF SwitchCommits, AccountsOK, OrgsOK, UsedOK, orgVars
<1>4. ASSUME NEW p \in Proc, InviteCommits(p)
      PROVE  AccountsOK' /\ OrgsOK' /\ UsedOK' /\ RequestsOK'
  <2>1. req[p].arg \subseteq Org \X Role
    BY <1>4, AtUser DEF InviteCommits, At, Named, UserRequest, ArgOK
  <2>2. PICK x \in req[p].arg, i \in Inserted({j \in Invite : invites[j] = NoInvite}) :
          invites' = [invites EXCEPT ![i] = [NoInvite EXCEPT !.org = x[1], !.role = x[2]]]
    BY <1>4 DEF InviteCommits
  <2>3. [NoInvite EXCEPT !.org = x[1], !.role = x[2]] \in InviteRow
    BY <2>1 DEF NoInvite, InviteRow
  <2>4. invites' \in [Invite -> InviteRow]
    BY <2>2, <2>3 DEF OrgsOK
  <2> QED
    BY <1>4, <2>4, EndStep DEF InviteCommits, AccountsOK, OrgsOK, UsedOK, accountVars
<1>5. ASSUME NEW p \in Proc, AcceptCommits(p)
      PROVE  AccountsOK' /\ OrgsOK' /\ UsedOK' /\ RequestsOK'
  <2>1. UserRequest(req[p]) /\ req[p].arg \subseteq Invite \X InviteRow /\ req[p].user \in User
    BY <1>5, AtUser DEF AcceptCommits, At, Named, UserRequest, ArgOK
  <2>2. PICK x \in req[p].arg :
          \/ UNCHANGED <<users, orgVars>>
          \/ /\ orgs' = [orgs EXCEPT ![invites[x[1]].org].role[req[p].user] = invites[x[1]].role]
             /\ invites' = [invites EXCEPT ![x[1]].accepted = TRUE]
             /\ users' = [users EXCEPT ![req[p].user].org =
                            IF req[p].saw.org = NoOrg THEN invites[x[1]].org ELSE @]
    BY <1>5 DEF AcceptCommits
  <2>3. CASE UNCHANGED <<users, orgVars>>
    BY <1>5, <2>3, EndStep DEF AcceptCommits, AccountsOK, OrgsOK, UsedOK, orgVars
  <2>4. CASE /\ orgs' = [orgs EXCEPT ![invites[x[1]].org].role[req[p].user] = invites[x[1]].role]
             /\ invites' = [invites EXCEPT ![x[1]].accepted = TRUE]
             /\ users' = [users EXCEPT ![req[p].user].org =
                            IF req[p].saw.org = NoOrg THEN invites[x[1]].org ELSE @]
    <3>1. x[1] \in Invite /\ invites[x[1]] \in InviteRow
      BY <2>1 DEF OrgsOK
    <3>2. orgs' \in [Org -> [slug : Nat, role : [User -> Role]]]
      <4>1. CASE invites[x[1]].org = NoOrg
        BY <2>4, <4>1, NoOrgAssumption DEF OrgsOK
      <4>2. CASE invites[x[1]].org \in Org
        BY <2>4, <3>1, <4>2, RoleStep DEF InviteRow
      <4> QED
        BY <3>1, <4>1, <4>2 DEF InviteRow
    <3>3. invites' \in [Invite -> InviteRow]
      <4>1. [invites[x[1]] EXCEPT !.accepted = TRUE] \in InviteRow
        BY <3>1 DEF InviteRow
      <4> QED
        BY <2>4, <4>1 DEF OrgsOK
    <3>4. users' \in [User -> Account]
      <4>1. users[req[p].user].org \in Org \cup {NoOrg} /\ invites[x[1]].org \in Org \cup {NoOrg}
        BY <2>1, <3>1 DEF AccountsOK, Account, InviteRow
      <4>2. \E y \in Org \cup {NoOrg} : users' = [users EXCEPT ![req[p].user].org = y]
        BY <2>4, <4>1
      <4> QED
        BY <2>1, <4>2, DefaultOrgStep
    <3> QED
      BY <1>5, <3>2, <3>3, <3>4, EndStep DEF AcceptCommits, AccountsOK, OrgsOK, UsedOK
  <2> QED
    BY <2>2, <2>3, <2>4
<1>6. ASSUME NEW p \in Proc, RevokeCommits(p)
      PROVE  AccountsOK' /\ OrgsOK' /\ UsedOK' /\ RequestsOK'
  <2>1. PICK x \in req[p].arg : invites' = [invites EXCEPT ![x[1]].revoked = TRUE]
    BY <1>6 DEF RevokeCommits
  <2>2. invites' \in [Invite -> InviteRow]
    <3>1. \A i \in Invite : [invites[i] EXCEPT !.revoked = TRUE] \in InviteRow
      BY DEF OrgsOK, InviteRow
    <3> QED
      BY <2>1, <3>1 DEF OrgsOK
  <2> QED
    BY <1>6, <2>2, EndStep DEF RevokeCommits, AccountsOK, OrgsOK, UsedOK, accountVars
<1>7. ASSUME NEW i \in Invite, InviteExpires(i)
      PROVE  AccountsOK' /\ OrgsOK' /\ UsedOK' /\ RequestsOK'
  <2>1. [invites[i] EXCEPT !.expired = TRUE] \in InviteRow
    BY DEF OrgsOK, InviteRow
  <2>2. invites' \in [Invite -> InviteRow]
    BY <1>7, <2>1 DEF InviteExpires, OrgsOK
  <2> QED
    BY <1>7, <2>2 DEF InviteExpires, AccountsOK, OrgsOK, UsedOK, RequestsOK, accountVars
<1> QED
  BY <1>1, <1>2, <1>3, <1>4, <1>5, <1>6, <1>7 DEF OrgNext, OrgGoes

\* A request about a proposal, a signature, or the notices, from the step it is at.
LEMMA AtOther ==
  ASSUME RequestsOK, NEW p \in Proc
  PROVE  /\ req[p].at \in {"sent"} \cup Answers => ProposalRequest(req[p])
         /\ req[p].at \in {"call", "hook", "outcome"} => SignatureRequest(req[p])
         /\ req[p].at \in {"read", "send", "taken", "refused", "lost"} => NoticeRequest(req[p])
  BY DEF RequestsOK, RequestOK, Idle, UserRequest, ProposalRequest, SignatureRequest, NoticeRequest,
         Answers, Named

\* Calls to the provider, and the decision of the signer.
LEMMA ProviderStep ==
  ASSUME AgreementsOK, NEW k \in Signature,
         \/ \E n \in {0, 1} : provider' = [provider EXCEPT ![k].calls = @ + n]
         \/ \E o \in Outcomes : provider' = [provider EXCEPT ![k].outcome = o]
  PROVE  /\ provider' \in [Signature -> [calls : Nat, outcome : {"open"} \cup Outcomes]]
         /\ \A j \in Signature : provider[j].outcome # "open" => provider'[j].outcome # "open"
<1> DEFINE P == [calls : Nat, outcome : {"open"} \cup Outcomes]
<1>1. provider[k] \in P /\ "open" \notin Outcomes
  BY DEF AgreementsOK, Outcomes
<1>2. CASE \E n \in {0, 1} : provider' = [provider EXCEPT ![k].calls = @ + n]
  <2>1. PICK n \in {0, 1} : provider' = [provider EXCEPT ![k] = [provider[k] EXCEPT !.calls = provider[k].calls + n]]
    BY <1>2
  <2>2. [provider[k] EXCEPT !.calls = provider[k].calls + n] \in P
    BY <1>1
  <2> QED
    BY <1>1, <2>1, <2>2 DEF AgreementsOK
<1>3. CASE \E o \in Outcomes : provider' = [provider EXCEPT ![k].outcome = o]
  <2>1. PICK o \in Outcomes : provider' = [provider EXCEPT ![k] = [provider[k] EXCEPT !.outcome = o]]
    BY <1>3
  <2>2. [provider[k] EXCEPT !.outcome = o] \in P
    BY <1>1
  <2> QED
    BY <1>1, <2>1, <2>2 DEF AgreementsOK
<1> QED
  BY <1>2, <1>3

LEMMA AgreementTypes ==
  ASSUME RecordsOK, AgreementNext
  PROVE  AgreementsOK' /\ UsedOK' /\ RequestsOK'
<1> USE DEF RecordsOK
<1>1. ASSUME NEW p \in Proc, generate_proposal(p)
      PROVE  AgreementsOK' /\ UsedOK' /\ RequestsOK'
  <2>1. "propose" \in Named /\ ArgOK("propose", {})
    BY DEF Named, ArgOK
  <2> QED
    BY <1>1, <2>1, UserBegins DEF generate_proposal, agreementVars, AgreementsOK, AccountsOK
<1>2. ASSUME NEW p \in Proc, send_proposal(p) \/ respond_to_proposal(p)
      PROVE  AgreementsOK' /\ UsedOK' /\ RequestsOK'
  <2>1. PICK k \in Proposal, op \in {"sent"} \cup Answers : Reads(p, k, op)
    BY <1>2 DEF send_proposal, respond_to_proposal
  <2>2. RequestOK([at |-> op, op |-> op, proposal |-> k, saw |-> proposals[k]])
    BY DEF RequestOK, ProposalRequest, AgreementsOK
  <2>4. UsedOK'
    BY <2>1 DEF Reads, Begin, UsedOK
  <2>5. req' = [req EXCEPT ![p] = [at |-> op, op |-> op, proposal |-> k, saw |-> proposals[k]]]
    BY <2>1 DEF Reads, Begin
  <2>3. RequestsOK' /\ UsedOK'
    BY <2>2, <2>4, <2>5, RequestStep
  <2> QED
    BY <1>2, <2>3 DEF send_proposal, respond_to_proposal, agreementVars, AgreementsOK
<1>3. ASSUME NEW p \in Proc, create_signature_request(p)
      PROVE  AgreementsOK' /\ UsedOK' /\ RequestsOK'
  <2>1. PICK k \in Signature :
          Begin(p, {"agreement"}, [at |-> "call", op |-> "sign", signature |-> k, done |-> 0])
    BY <1>3 DEF create_signature_request
  <2>2. RequestOK([at |-> "call", op |-> "sign", signature |-> k, done |-> 0])
    BY DEF RequestOK, SignatureRequest
  <2>4. UsedOK'
    BY <2>1 DEF Begin, UsedOK
  <2>5. req' = [req EXCEPT ![p] = [at |-> "call", op |-> "sign", signature |-> k, done |-> 0]]
    BY <2>1 DEF Begin
  <2>3. RequestsOK' /\ UsedOK'
    BY <2>2, <2>4, <2>5, RequestStep
  <2> QED
    BY <1>3, <2>3 DEF create_signature_request, agreementVars, AgreementsOK
<1>4. ASSUME NEW p \in Proc, NEW k \in Signature, yousign_webhook(p, k)
      PROVE  AgreementsOK' /\ UsedOK' /\ RequestsOK'
  <2>1. RequestOK([at |-> "hook", op |-> "hook", signature |-> k])
    BY DEF RequestOK, SignatureRequest
  <2>2. RequestsOK'
    BY <1>4, <2>1, RequestStep DEF yousign_webhook
  <2> QED
    BY <1>4, <2>2 DEF yousign_webhook, agreementVars, AgreementsOK, UsedOK
<1>5. ASSUME NEW p \in Proc, ProposalCommits(p)
      PROVE  AgreementsOK' /\ UsedOK' /\ RequestsOK'
  <2>1. req[p].user \in User
    BY <1>5, AtUser DEF ProposalCommits, At, Named, UserRequest
  <2>2. [NoProposal EXCEPT !.st = "draft", !.by = req[p].user] \in ProposalRow
    BY <2>1 DEF NoProposal, ProposalRow
  <2>3. proposals' \in [Proposal -> ProposalRow]
    BY <1>5, <2>2 DEF ProposalCommits, AgreementsOK
  <2> QED
    BY <1>5, <2>3, EndStep DEF ProposalCommits, AgreementsOK, UsedOK, signatureVars
<1>6. ASSUME NEW p \in Proc, StatusCommits(p)
      PROVE  AgreementsOK' /\ UsedOK' /\ RequestsOK'
  <2>1. ProposalRequest(req[p])
    BY <1>6, AtOther DEF StatusCommits, At
  <2>2. req[p].at \in {"sent"} \cup Answers /\ req[p].proposal \in Proposal
    BY <2>1 DEF ProposalRequest
  <2>3. [proposals[req[p].proposal] EXCEPT !.st = req[p].at, !.reason = @ \/ At(p, "rejected")]
          \in ProposalRow
    <3>1. proposals[req[p].proposal] \in ProposalRow
      BY <2>2 DEF AgreementsOK
    <3>2. (proposals[req[p].proposal].reason \/ At(p, "rejected")) \in BOOLEAN
      OBVIOUS
    <3> QED
      BY <2>2, <3>1, <3>2 DEF ProposalRow
  <2>4. proposals' \in [Proposal -> ProposalRow]
    BY <1>6, <2>2, <2>3 DEF StatusCommits, AgreementsOK
  <2> QED
    BY <1>6, <2>4, EndStep DEF StatusCommits, AgreementsOK, UsedOK, signatureVars
<1>7. ASSUME NEW p \in Proc, ProviderCall(p)
      PROVE  AgreementsOK' /\ UsedOK' /\ RequestsOK'
  <2>1. SignatureRequest(req[p]) /\ req[p].at = "call"
    BY <1>7, AtOther DEF ProviderCall, At
  <2>2. RequestOK([req[p] EXCEPT !.done = @ + 1])
    BY <2>1 DEF RequestOK, SignatureRequest
  <2>3. req' = [req EXCEPT ![p] = [req[p] EXCEPT !.done = @ + 1]]
    BY <1>7 DEF ProviderCall
  <2>4. req[p].signature \in Signature
    BY <2>1 DEF SignatureRequest
  <2>5. \E n \in {0, 1} : provider' = [provider EXCEPT ![req[p].signature].calls = @ + n]
    BY <1>7 DEF ProviderCall
  <2>6. AgreementsOK'
    BY <1>7, <2>4, <2>5, ProviderStep DEF ProviderCall, AgreementsOK
  <2> QED
    BY <1>7, <2>2, <2>3, <2>6, RequestStep DEF ProviderCall, UsedOK
<1>8. ASSUME NEW p \in Proc, ProviderRefuses(p) \/ SignatureFails(p) \/ SignatureCommits(p)
      PROVE  AgreementsOK' /\ UsedOK' /\ RequestsOK'
  <2>1. RequestsOK' /\ UsedOK'
    BY <1>8, EndStep, FaultTypes DEF ProviderRefuses, SignatureFails, SignatureCommits, UsedOK
  <2>4. (req[p].done > 1) \in BOOLEAN
    OBVIOUS
  <2>2. \A st \in {"error", "ongoing"} :
          [NoSignature EXCEPT !.st = st, !.ids = req[p].done > 1] \in SignatureRow
    BY <2>4 DEF NoSignature, SignatureRow
  <2>3. rows' \in [Signature -> SignatureRow]
    BY <1>8, <2>2 DEF ProviderRefuses, SignatureFails, SignatureCommits, AgreementsOK, Keep
  <2>5. SignatureRequest(req[p]) /\ req[p].signature \in Signature
    BY <1>8, AtOther DEF ProviderRefuses, SignatureFails, SignatureCommits, At, SignatureRequest
  <2>6. \/ \E n \in {0, 1} : provider' = [provider EXCEPT ![req[p].signature].calls = @ + n]
        \/ UNCHANGED provider
    BY <1>8 DEF ProviderRefuses, SignatureFails, SignatureCommits
  <2>7. UNCHANGED <<proposals, hooks, stored>>
    BY <1>8 DEF ProviderRefuses, SignatureFails, SignatureCommits
  <2> QED
    BY <2>1, <2>3, <2>5, <2>6, <2>7, ProviderStep DEF AgreementsOK
<1>9. ASSUME NEW p \in Proc, handle_webhook(p)
      PROVE  AgreementsOK' /\ UsedOK' /\ RequestsOK'
  <2>1. SignatureRequest(req[p])
    BY <1>9, AtOther DEF handle_webhook, At
  <2>2. RequestOK([at |-> "outcome", op |-> "hook", signature |-> req[p].signature,
                   saw |-> rows[req[p].signature]])
    BY <2>1 DEF RequestOK, SignatureRequest, AgreementsOK
  <2>3. RequestsOK'
    BY <1>9, <2>2, EndStep, RequestStep DEF handle_webhook, Answered
  <2> QED
    BY <1>9, <2>3 DEF handle_webhook, AgreementsOK, UsedOK, Answered
<1>10. ASSUME NEW p \in Proc, HookCommits(p)
       PROVE  AgreementsOK' /\ UsedOK' /\ RequestsOK'
  <2>1. RequestsOK' /\ UsedOK'
    BY <1>10, EndStep, FaultTypes DEF HookCommits, Answered, UsedOK
  <2>2. SignatureRequest(req[p]) /\ req[p].signature \in Signature
    BY <1>10, AtOther DEF HookCommits, At, SignatureRequest
  <2>3. stored' \in [Signature -> Nat]
    BY <1>10, <2>2 DEF HookCommits, AgreementsOK
  <2>5. provider[req[p].signature].outcome \in Outcomes
    BY <1>10, <2>2 DEF HookCommits, AgreementsOK, HooksOK
  <2>6. rows[req[p].signature] \in SignatureRow /\ stored[req[p].signature] + 1 \in Nat
    BY <2>2 DEF AgreementsOK
  <2>7. rows' \in [Signature -> SignatureRow]
    <3>1. PICK n \in Nat : rows' = [rows EXCEPT ![req[p].signature] =
                  [rows[req[p].signature] EXCEPT !.st = provider[req[p].signature].outcome,
                                                 !.document = n]]
      BY <1>10, <2>6 DEF HookCommits, SignatureRow
    <3> QED
      BY <2>5, <2>6, <3>1 DEF AgreementsOK, SignatureRow
  <2> QED
    BY <1>10, <2>1, <2>2, <2>3, <2>7 DEF HookCommits, AgreementsOK, Answered
<1>11. ASSUME NEW p \in Proc, HookFails(p)
       PROVE  AgreementsOK' /\ UsedOK' /\ RequestsOK'
  BY <1>11, EndStep, FaultTypes DEF HookFails, agreementVars, AgreementsOK
<1>12. ASSUME NEW k \in Signature, NEW o \in Outcomes, Decide(k, o)
       PROVE  AgreementsOK' /\ UsedOK' /\ RequestsOK'
  <2>1. provider' = [provider EXCEPT ![k].outcome = o] /\ hooks' = hooks \cup {k}
        /\ UNCHANGED <<proposals, rows, stored, used, req>>
    BY <1>12 DEF Decide
  <2>2. o # "open" /\ provider'[k].outcome = o
    BY <2>1 DEF AgreementsOK, Outcomes
  <2> QED
    BY <2>1, <2>2, ProviderStep DEF AgreementsOK, UsedOK, RequestsOK
<1> QED
  BY <1>1, <1>2, <1>3, <1>4, <1>5, <1>6, <1>7, <1>8, <1>9, <1>10, <1>11, <1>12
  DEF AgreementNext, AgreementStarts, AgreementGoes

\* Rows of notices that a request writes.
LEMMA NoticeRows ==
  /\ \A u \in User, due \in BOOLEAN : Pending(u, due) \in NoticeRow
  /\ \A answer : \A now, row \in NoticeRow : MarkOf(now, row, answer) \in NoticeRow
  /\ \A op : \A row \in NoticeRow : Written(op, row) \in NoticeRow
  /\ NoNotice \in NoticeRow /\ [NoNotice EXCEPT !.st = "deleted"] \in NoticeRow
<1>1. NoNotice \in NoticeRow
  BY DEF NoNotice, NoticeRow, NoticeStatus
<1>2. ASSUME NEW now \in NoticeRow, NEW row \in NoticeRow, NEW answer
      PROVE  MarkOf(now, row, answer) \in NoticeRow
  <2>1. CASE answer = "taken"
    BY <1>2, <2>1 DEF MarkOf, NoticeRow, NoticeStatus
  <2>2. CASE answer # "taken"
    <3>1. PICK st : /\ st \in NoticeStatus
                    /\ MarkOf(now, row, answer) = [now EXCEPT !.tries = row.tries + 1, !.st = st]
      <4>1. now.st \in NoticeStatus /\ "failed" \in NoticeStatus
        BY <1>2 DEF NoticeRow, NoticeStatus
      <4>2. CASE row.tries + 1 >= MaxRetries
        BY <2>2, <4>1, <4>2 DEF MarkOf
      <4>3. CASE ~(row.tries + 1 >= MaxRetries)
        <5>1. MarkOf(now, row, answer) = [now EXCEPT !.tries = row.tries + 1, !.st = now.st]
          BY <1>2, <2>2, <4>3 DEF MarkOf, NoticeRow
        <5> QED
          BY <4>1, <5>1
      <4> QED
        BY <4>2, <4>3
    <3>2. [now EXCEPT !.tries = row.tries + 1, !.st = st] \in NoticeRow
      <4>1. \A n \in Nat : [now EXCEPT !.tries = n, !.st = st] \in NoticeRow
        BY <1>2, <3>1 DEF NoticeRow
      <4>2. row.tries + 1 \in Nat
        BY <1>2 DEF NoticeRow
      <4> QED
        BY <4>1, <4>2
    <3> QED
      BY <3>1, <3>2
  <2> QED
    BY <2>1, <2>2
<1>3. ASSUME NEW row \in NoticeRow, NEW op
      PROVE  Written(op, row) \in NoticeRow
  BY <1>3 DEF Written, NoticeRow, NoticeStatus
<1> QED
  BY <1>1, <1>2, <1>3 DEF Pending, NoticeRow, NoticeStatus

LEMMA SeenIsRow ==
  ASSUME RequestsOK, NoticesOK, NEW p \in Proc, NoticeRequest(req[p]), NEW n \in Notice
  PROVE  Seen(p, n) \in NoticeRow
  BY DEF Seen, Marked, NoticeRequest, NoticesOK

LEMMA NoticeTypes ==
  ASSUME RecordsOK, NoticeNext
  PROVE  NoticesOK' /\ UsedOK' /\ RequestsOK'
<1> USE DEF RecordsOK
<1>1. ASSUME NEW p \in Proc, create_notification(p) \/ update_notification(p)
      PROVE  NoticesOK' /\ UsedOK' /\ RequestsOK'
  <2>1. \E more : \E u \in User, op \in Named : ArgOK(op, more) /\ Request(p, "notice", u, op, more)
    <3>1. CASE create_notification(p)
      <4>1. \A due \in BOOLEAN : ArgOK("notify", {due})
        BY DEF ArgOK
      <4> QED
        BY <3>1, <4>1 DEF create_notification, Named
    <3>2. CASE update_notification(p)
      <4>1. PICK n \in Notice, u \in User, op \in {"later", "cancel"} :
              Request(p, "notice", u, op, {<<n, notices[n]>>})
        BY <3>2 DEF update_notification
      <4>2. ArgOK(op, {<<n, notices[n]>>}) /\ op \in Named
        BY DEF ArgOK, NoticesOK, Named
      <4> QED
        BY <4>1, <4>2
    <3> QED
      BY <1>1, <3>1, <3>2
  <2> QED
    BY <1>1, <2>1, UserBegins DEF create_notification, update_notification, noticeVars, NoticesOK,
                                  AccountsOK
<1>2. ASSUME NEW p \in Proc, NoticeCommits(p)
      PROVE  NoticesOK' /\ UsedOK' /\ RequestsOK'
  <2>1. UserRequest(req[p]) /\ req[p].user \in User /\ req[p].arg \subseteq BOOLEAN
    BY <1>2, AtUser DEF NoticeCommits, At, Named, UserRequest, ArgOK
  <2>2. PICK due \in req[p].arg, n \in Inserted(Unused) :
          notices' = [notices EXCEPT ![n] = Pending(req[p].user, due)]
    BY <1>2 DEF NoticeCommits
  <2>3. Pending(req[p].user, due) \in NoticeRow
    BY <2>1, NoticeRows
  <2> QED
    BY <1>2, <2>2, <2>3, EndStep DEF NoticeCommits, NoticesOK, UsedOK
<1>3. ASSUME NEW n \in Notice, Due(n)
      PROVE  NoticesOK' /\ UsedOK' /\ RequestsOK'
  <2>1. [notices[n] EXCEPT !.due = TRUE] \in NoticeRow
    BY DEF NoticesOK, NoticeRow
  <2> QED
    BY <1>3, <2>1 DEF Due, NoticesOK, UsedOK, RequestsOK
<1>4. ASSUME NEW p \in Proc, UpdateCommits(p)
      PROVE  NoticesOK' /\ UsedOK' /\ RequestsOK'
  <2>1. PICK x \in req[p].arg :
          \/ UNCHANGED notices
          \/ notices' = [notices EXCEPT ![x[1]] = Written(req[p].op, notices[x[1]])]
    BY <1>4 DEF UpdateCommits
  <2>2. x[1] \in Notice
    BY <1>4, AtUser DEF UpdateCommits, At, Named, UserRequest, ArgOK
  <2>3. Written(req[p].op, notices[x[1]]) \in NoticeRow
    BY <2>2, NoticeRows DEF NoticesOK
  <2> QED
    BY <1>4, <2>1, <2>2, <2>3, EndStep DEF UpdateCommits, NoticesOK, UsedOK
<1>5. ASSUME NEW p \in Proc, process_notifications(p)
      PROVE  NoticesOK' /\ UsedOK' /\ RequestsOK'
  <2>1. PICK u \in User, mine \in SUBSET Notice, passes \in {1, 2} :
          Begin(p, {"notice"}, [at |-> "read", op |-> "process", saw |-> users[u],
                                user |-> IF mine = {} THEN NoUser ELSE u,
                                passes |-> passes, todo |-> {}, now |-> {}, sent |-> {},
                                marks |-> [n \in mine |-> Pending(u, TRUE)]])
    BY <1>5 DEF process_notifications, Inserted, Unused
  <2> DEFINE r == [at |-> "read", op |-> "process", saw |-> users[u],
                   user |-> IF mine = {} THEN NoUser ELSE u,
                   passes |-> passes, todo |-> {}, now |-> {}, sent |-> {},
                   marks |-> [n \in mine |-> Pending(u, TRUE)]]
  <2>2. NoticeRequest(r)
    BY NoticeRows DEF NoticeRequest, AccountsOK
  <2>3. req' = [req EXCEPT ![p] = r] /\ UsedOK'
    BY <2>1 DEF Begin, UsedOK
  <2> HIDE DEF r
  <2> QED
    BY <1>5, <2>2, <2>3, RequestStep DEF RequestOK, process_notifications, NoticesOK, noticeVars
<1>6. ASSUME NEW p \in Proc, get_pending_notifications(p)
      PROVE  NoticesOK' /\ UsedOK' /\ RequestsOK'
  <2> DEFINE todo == {<<n, Seen(p, n)>> : n \in {m \in Notice : PendingDue(Seen(p, m))}}
             r == [req[p] EXCEPT !.at = "send", !.todo = todo, !.passes = @ - 1]
  <2>1. NoticeRequest(req[p])
    BY <1>6, AtOther DEF get_pending_notifications, At
  <2>2. todo \subseteq Notice \X NoticeRow
    BY <2>1, SeenIsRow
  <2>3. req' = [req EXCEPT ![p] = r]
    BY <1>6 DEF get_pending_notifications
  <2>4. NoticeRequest(r)
    <3> HIDE DEF todo
    <3> QED
      BY <2>1, <2>2 DEF NoticeRequest
  <2> HIDE DEF r
  <2> QED
    BY <1>6, <2>3, <2>4, RequestStep DEF RequestOK, get_pending_notifications, NoticesOK, noticeVars, UsedOK
<1>7. ASSUME NEW p \in Proc, Send(p)
      PROVE  NoticesOK' /\ UsedOK' /\ RequestsOK'
  <2>1. NoticeRequest(req[p])
    BY <1>7, AtOther DEF Send, At
  <2>2. PICK x \in req[p].todo, answer \in {"taken", "refused", "lost"} :
          /\ sends' = IF answer = "refused" THEN sends ELSE [sends EXCEPT ![x[1]] = @ + 1]
          /\ req' = [req EXCEPT ![p] =
                       [req[p] EXCEPT !.at = answer, !.todo = @ \ {x}, !.now = {x},
                                      !.sent = IF answer = "refused" THEN @ ELSE @ \cup {x}]]
    BY <1>7 DEF Send
  <2> DEFINE sent == IF answer = "refused" THEN req[p].sent ELSE req[p].sent \cup {x}
             r == [req[p] EXCEPT !.at = answer, !.todo = req[p].todo \ {x}, !.now = {x}, !.sent = sent]
  <2>3. req' = [req EXCEPT ![p] = r]
    BY <2>2
  <2>4. x \in Notice \X NoticeRow /\ sent \subseteq Notice \X NoticeRow
    BY <2>1 DEF NoticeRequest
  <2>5. NoticeRequest(r)
    <3> HIDE DEF sent
    <3> QED
      BY <2>1, <2>4 DEF NoticeRequest
  <2>6. sends' \in [Notice -> Nat]
    BY <2>2, <2>4 DEF NoticesOK
  <2>7. UsedOK'
    BY <1>7, FaultTypes DEF Send, UsedOK
  <2> HIDE DEF r
  <2> QED
    BY <1>7, <2>3, <2>5, <2>6, <2>7, RequestStep DEF RequestOK, Send, NoticesOK
<1>8. ASSUME NEW p \in Proc, Mark(p)
      PROVE  NoticesOK' /\ UsedOK' /\ RequestsOK'
  <2>1. NoticeRequest(req[p]) /\ req[p].at \in {"taken", "refused", "lost"}
    BY <1>8, AtOther DEF Mark, At
  <2>2. CASE End(p)
    BY <1>8, <2>2, EndStep DEF Mark, RolledBack, NoticesOK, UsedOK
  <2>3. CASE ~End(p)
    <3>1. PICK x \in req[p].now :
            req' = [req EXCEPT ![p] =
                      [req[p] EXCEPT !.at = "send", !.now = {},
                                     !.marks = With(@, x[1], MarkOf(Seen(p, x[1]), x[2], req[p].at))]]
      BY <1>8, <2>3 DEF Mark, RolledBack
    <3> DEFINE marks == With(req[p].marks, x[1], MarkOf(Seen(p, x[1]), x[2], req[p].at))
               r == [req[p] EXCEPT !.at = "send", !.now = {}, !.marks = marks]
    <3>2. x[1] \in Notice /\ MarkOf(Seen(p, x[1]), x[2], req[p].at) \in NoticeRow
      <4>1. x[1] \in Notice /\ x[2] \in NoticeRow
        BY <2>1 DEF NoticeRequest
      <4>2. Seen(p, x[1]) \in NoticeRow
        BY <2>1, <4>1 DEF Seen, Marked, Processes, Serves, NoticesOK, NoticeRequest
      <4> QED
        BY <4>1, <4>2, NoticeRows
    <3>3. marks \in [DOMAIN marks -> NoticeRow] /\ DOMAIN marks \subseteq Notice
      BY <2>1, <3>2 DEF NoticeRequest, With
    <3>4. NoticeRequest(r)
      <4> HIDE DEF marks
      <4> QED
        BY <2>1, <3>3 DEF NoticeRequest
    <3>5. req' = [req EXCEPT ![p] = r]
      BY <3>1
    <3> HIDE DEF r
    <3> QED
      BY <1>8, <3>4, <3>5, RequestStep DEF RequestOK, Mark, RolledBack, NoticesOK, UsedOK
  <2> QED
    BY <2>2, <2>3
<1>9. ASSUME NEW p \in Proc, Again(p)
      PROVE  NoticesOK' /\ UsedOK' /\ RequestsOK'
  <2>1. NoticeRequest([req[p] EXCEPT !.at = "read"])
    BY <1>9, AtOther DEF Again, At, NoticeRequest
  <2>2. req' = [req EXCEPT ![p] = [req[p] EXCEPT !.at = "read"]]
    BY <1>9 DEF Again, Goto
  <2> QED
    BY <1>9, <2>1, <2>2, RequestStep DEF RequestOK, Again, NoticesOK, UsedOK, noticeVars
<1>10. ASSUME NEW p \in Proc, ProcessCommits(p)
       PROVE  NoticesOK' /\ UsedOK' /\ RequestsOK'
  <2>1. NoticeRequest(req[p])
    BY <1>10, AtOther DEF ProcessCommits, At
  <2>2. notices' \in [Notice -> NoticeRow]
    BY <1>10, <2>1, SeenIsRow DEF ProcessCommits
  <2> QED
    BY <1>10, <2>2, EndStep DEF ProcessCommits, NoticesOK, UsedOK
<1>11. ASSUME NEW p \in Proc, ProcessFails(p)
       PROVE  NoticesOK' /\ UsedOK' /\ RequestsOK'
  BY <1>11, EndStep, FaultTypes DEF ProcessFails, RolledBack, NoticesOK
<1> QED
  BY <1>1, <1>2, <1>3, <1>4, <1>5, <1>6, <1>7, <1>8, <1>9, <1>10, <1>11
  DEF NoticeNext, NoticeStarts, NoticeGoes

\* The steps of the requests of each module.
AccountAt ==
  {"wallet", "create", "link", "enroll", "enable", "disable", "recover", "update", "unset",
   "admin", "case", "erase"}
OrgAt == {"organization", "switch", "invite", "accept", "revoke"}
AgreementAt == {"propose", "sent", "call", "hook", "outcome"} \cup Answers
NoticeAt == {"notify", "later", "cancel", "read", "send", "taken", "refused", "lost"}

\* A step changes at most one request, which stays one of its module or ends.
Moves(at) ==
  \/ UNCHANGED req
  \/ \E p \in Proc : /\ \A q \in Proc \ {p} : req'[q] = req[q]
                     /\ req'[p] = Idle \/ req'[p].at \in at

LEMMA MovesBy ==
  ASSUME RequestsOK, NEW p \in Proc, NEW r, req' = [req EXCEPT ![p] = r],
         NEW at, r = Idle \/ r.at \in at
  PROVE  Moves(at)
  BY DEF Moves, RequestsOK

LEMMA AccountMoves ==
  ASSUME RequestsOK, AccountNext
  PROVE  Moves(AccountAt)
<1>1. ASSUME NEW p \in Proc, NEW lanes, NEW r, Begin(p, lanes, r), r = Idle \/ r.at \in AccountAt
      PROVE  Moves(AccountAt)
  BY <1>1, MovesBy DEF Begin
<1>2. ASSUME NEW p \in Proc, NEW u, NEW op \in AccountAt, NEW more, Request(p, "account", u, op, more)
      PROVE  Moves(AccountAt)
  BY <1>1, <1>2 DEF Request
<1>3. ASSUME NEW p \in Proc, End(p)
      PROVE  Moves(AccountAt)
  BY <1>3, MovesBy DEF End
<1>4. ASSUME NEW p \in Proc, AccountGoes(p)
      PROVE  Moves(AccountAt)
  <2>1. CASE create_user(p) \/ authenticate_or_create(p)
    <3>1. End(p) \/ (\E r : req' = [req EXCEPT ![p] = r] /\ r.at \in {"link", "create"})
      <4>1. CASE create_user(p)
        <5>1. DOMAIN req[p] = {"at", "op", "user", "saw", "arg"}
          BY <4>1, AtUser DEF create_user, At, UserRequest
        <5>2. [req[p] EXCEPT !.at = "link", !.arg = Guests(req[p].user)].at = "link"
          BY <5>1
        <5> QED
          BY <4>1, <5>2 DEF create_user
      <4>2. CASE authenticate_or_create(p)
        <5>1. DOMAIN req[p] = {"at", "op", "user", "saw", "arg"}
          BY <4>2, AtUser DEF authenticate_or_create, At, UserRequest
        <5>2. [req[p] EXCEPT !.at = "create"].at = "create"
          BY <5>1
        <5>3. Goto(p, "create") => req' = [req EXCEPT ![p] = [req[p] EXCEPT !.at = "create"]]
          BY DEF Goto
        <5> QED
          BY <4>2, <5>2, <5>3 DEF authenticate_or_create
      <4> QED
        BY <2>1, <4>1, <4>2
    <3> QED
      BY <1>3, <3>1, MovesBy DEF AccountAt
  <2>2. CASE link_guest_cases(p) \/ FactorCommits(p) \/ ProfileCommits(p) \/ CaseCommits(p)
    BY <1>3, <2>2 DEF link_guest_cases, FactorCommits, ProfileCommits, CaseCommits
  <2> QED
    BY <1>4, <2>1, <2>2 DEF AccountGoes
<1>5. ASSUME NEW p \in Proc, AccountStarts(p)
      PROVE  Moves(AccountAt)
  <2>1. CASE begin_enrollment(p) \/ enable(p) \/ disable(p) \/ verify_second_factor(p)
             \/ update_user(p) \/ upload_my_avatar(p) \/ delete_my_avatar(p) \/ create_case(p)
    <3>1. \E u, more : \E op \in AccountAt : Request(p, "account", u, op, more)
      BY <2>1 DEF begin_enrollment, enable, disable, verify_second_factor, update_user,
          upload_my_avatar, delete_my_avatar, create_case, AccountAt
    <3> QED
      BY <1>2, <3>1
  <2>2. CASE register(p) \/ register_request(p) \/ register_verify(p)
             \/ request_wallet_nonce(p) \/ verify_wallet_signature(p)
             \/ update_by_admin(p) \/ WriteCase(p) \/ erase_user(p)
    <3>1. CASE register_request(p) \/ request_wallet_nonce(p) \/ WriteCase(p)
      BY <1>1, <3>1, CaseWritten DEF register_request, request_wallet_nonce
    <3>2. CASE register(p) \/ register_verify(p) \/ verify_wallet_signature(p)
      <4>1. \A u : Registers(p, u).at \in AccountAt
                  /\ [Registers(p, u) EXCEPT !.at = "wallet"].at \in AccountAt
        BY DEF Registers, AccountAt
      <4> QED
        BY <1>1, <3>2, <4>1 DEF register, register_verify, verify_wallet_signature
    <3>3. CASE update_by_admin(p)
      <4>1. PICK r : Begin(p, {"account"}, r) /\ r.at = "admin"
        BY <3>3 DEF update_by_admin
      <4> QED
        BY <1>1, <4>1 DEF AccountAt
    <3>4. CASE erase_user(p)
      <4>1. PICK r : Begin(p, Lane \ {"euipo"}, r) /\ r.at = "erase"
        BY <3>4 DEF erase_user
      <4> QED
        BY <1>1, <4>1 DEF AccountAt
    <3> QED
      BY <2>2, <3>1, <3>2, <3>3, <3>4
  <2> QED
    BY <1>5, <2>1, <2>2 DEF AccountStarts
<1>6. ASSUME NEW u \in User, OtpExpires(u) \/ NonceExpires(u)
      PROVE  UNCHANGED req
  BY <1>6 DEF OtpExpires, NonceExpires, history
<1> QED
  BY <1>4, <1>5, <1>6 DEF AccountNext, Moves

LEMMA OrgMoves ==
  ASSUME RequestsOK, OrgNext
  PROVE  Moves(OrgAt)
<1>0. req = [p \in Proc |-> req[p]]
  BY DEF RequestsOK
<1>1. ASSUME NEW p \in Proc, OrgStarts(p)
      PROVE  Moves(OrgAt)
  <2>1. (\A q \in Proc \ {p} : req'[q] = req[q]) /\ req'[p].at \in OrgAt
    BY <1>0, <1>1 DEF OrgStarts, create_organization, switch_default_organization, create_invite,
        accept_invite, revoke_invite, Request, Begin, OrgAt
  <2> QED
    BY <2>1 DEF Moves
<1>2. ASSUME NEW p \in Proc, OrgGoes(p)
      PROVE  Moves(OrgAt)
  BY <1>2, MovesBy DEF OrgGoes, OrganizationCommits, SwitchCommits, InviteCommits, AcceptCommits,
      RevokeCommits, End
<1>3. ASSUME NEW i \in Invite, InviteExpires(i)
      PROVE  Moves(OrgAt)
  BY <1>3 DEF InviteExpires, Moves
<1> QED
  BY <1>1, <1>2, <1>3 DEF OrgNext

LEMMA AgreementMoves ==
  ASSUME RequestsOK, AgreementNext
  PROVE  Moves(AgreementAt)
<1>0. req = [p \in Proc |-> req[p]]
  BY DEF RequestsOK
<1>1. ASSUME NEW p \in Proc, AgreementStarts(p)
      PROVE  Moves(AgreementAt)
  <2>1. (\A q \in Proc \ {p} : req'[q] = req[q]) /\ req'[p].at \in AgreementAt
    BY <1>0, <1>1 DEF AgreementStarts, generate_proposal, send_proposal, respond_to_proposal, Reads,
        create_signature_request, yousign_webhook, Request, Begin, AgreementAt
  <2> QED
    BY <2>1 DEF Moves
<1>2. ASSUME NEW p \in Proc, ProviderCall(p)
      PROVE  Moves(AgreementAt)
  <2>1. SignatureRequest(req[p]) /\ req[p].at = "call"
    BY <1>2, AtOther DEF ProviderCall, At
  <2>2. [req[p] EXCEPT !.done = @ + 1].at \in AgreementAt
    BY <2>1 DEF SignatureRequest, AgreementAt
  <2>3. req' = [req EXCEPT ![p] = [req[p] EXCEPT !.done = @ + 1]]
    BY <1>2 DEF ProviderCall
  <2> QED
    BY <2>2, <2>3, MovesBy
<1>3. ASSUME NEW p \in Proc, handle_webhook(p)
      PROVE  Moves(AgreementAt)
  <2>1. (\A q \in Proc \ {p} : req'[q] = req[q]) /\ (req'[p] = Idle \/ req'[p].at = "outcome")
    BY <1>0, <1>3 DEF handle_webhook, Answered, End
  <2> QED
    BY <2>1 DEF Moves, AgreementAt
<1>4. ASSUME NEW p \in Proc, AgreementGoes(p), ~ProviderCall(p), ~handle_webhook(p)
      PROVE  Moves(AgreementAt)
  BY <1>4, MovesBy DEF AgreementGoes, ProposalCommits, StatusCommits, ProviderRefuses,
      SignatureFails, SignatureCommits, HookCommits, HookFails, Answered, End
<1>5. ASSUME NEW k \in Signature, NEW o \in Outcomes, Decide(k, o)
      PROVE  Moves(AgreementAt)
  BY <1>5 DEF Decide, Moves
<1> QED
  BY <1>1, <1>2, <1>3, <1>4, <1>5 DEF AgreementNext

LEMMA NoticeMoves ==
  ASSUME RequestsOK, NoticeNext
  PROVE  Moves(NoticeAt)
<1>0. req = [p \in Proc |-> req[p]]
  BY DEF RequestsOK
<1>1. ASSUME NEW p \in Proc, create_notification(p) \/ update_notification(p) \/ process_notifications(p)
      PROVE  Moves(NoticeAt)
  <2>1. CASE create_notification(p) \/ update_notification(p)
    <3>1. (\A q \in Proc \ {p} : req'[q] = req[q]) /\ req'[p].at \in NoticeAt
      BY <1>0, <2>1 DEF create_notification, update_notification, Request, Begin, NoticeAt
    <3> QED
      BY <3>1 DEF Moves
  <2>2. CASE process_notifications(p)
    <3>1. (\A q \in Proc \ {p} : req'[q] = req[q]) /\ req'[p].at = "read"
      BY <1>0, <2>2 DEF process_notifications, Begin
    <3> QED
      BY <3>1 DEF Moves, NoticeAt
  <2> QED
    BY <1>1, <2>1, <2>2
<1>2. ASSUME NEW p \in Proc, get_pending_notifications(p) \/ Send(p) \/ Mark(p) \/ Again(p)
      PROVE  Moves(NoticeAt)
  <2>1. DOMAIN req[p] = {"at", "op", "saw", "user", "passes", "todo", "now", "sent", "marks"}
    BY <1>2, AtOther DEF get_pending_notifications, Send, Mark, Again, At, NoticeRequest
  <2>2. CASE get_pending_notifications(p)
    <3>1. (\A q \in Proc \ {p} : req'[q] = req[q]) /\ req'[p].at = "send"
      BY <1>0, <2>1, <2>2 DEF get_pending_notifications
    <3> QED
      BY <3>1 DEF Moves, NoticeAt
  <2>3. CASE Send(p)
    <3>1. (\A q \in Proc \ {p} : req'[q] = req[q]) /\ req'[p].at \in {"taken", "refused", "lost"}
      BY <1>0, <2>1, <2>3 DEF Send
    <3> QED
      BY <3>1 DEF Moves, NoticeAt
  <2>4. CASE Mark(p)
    <3>1. (\A q \in Proc \ {p} : req'[q] = req[q]) /\ (req'[p] = Idle \/ req'[p].at = "send")
      BY <1>0, <2>1, <2>4 DEF Mark, RolledBack, End
    <3> QED
      BY <3>1 DEF Moves, NoticeAt
  <2>5. CASE Again(p)
    <3>1. req' = [req EXCEPT ![p] = [req[p] EXCEPT !.at = "read"]] /\ [req[p] EXCEPT !.at = "read"].at = "read"
      BY <2>1, <2>5 DEF Again, Goto
    <3> QED
      BY <3>1, MovesBy DEF NoticeAt
  <2> QED
    BY <1>2, <2>2, <2>3, <2>4, <2>5
<1>3. ASSUME NEW p \in Proc,
             NoticeCommits(p) \/ UpdateCommits(p) \/ ProcessCommits(p) \/ ProcessFails(p)
      PROVE  Moves(NoticeAt)
  BY <1>3, MovesBy DEF NoticeCommits, UpdateCommits, ProcessCommits, ProcessFails, RolledBack, End
<1>4. ASSUME NEW n \in Notice, Due(n)
      PROVE  Moves(NoticeAt)
  BY <1>4 DEF Due, Moves
<1> QED
  BY <1>1, <1>2, <1>3, <1>4 DEF NoticeNext, NoticeStarts, NoticeGoes

LEMMA EraseMoves ==
  ASSUME RequestsOK, NEW p \in Proc, EraseStep(p)
  PROVE  Moves({"tombstone"})
<1>0. req = [q \in Proc |-> req[q]]
  BY DEF RequestsOK
<1>1. CASE EraseRecords(p)
  <2>1. DOMAIN req[p] = {"at", "op", "user", "saw", "arg"}
    BY <1>1, AtUser DEF EraseRecords, At, UserRequest
  <2>2. (\A q \in Proc \ {p} : req'[q] = req[q]) /\ req'[p].at = "tombstone"
    BY <1>0, <1>1, <2>1 DEF EraseRecords
  <2> QED
    BY <2>2 DEF Moves
<1>2. CASE EraseCommits(p)
  BY <1>2, MovesBy DEF EraseCommits, End
<1> QED
  BY <1>1, <1>2 DEF EraseStep

\* Erasure.
LEMMA EraseTypes ==
  ASSUME RecordsOK, NEW p \in Proc, EraseStep(p)
  PROVE  AccountsOK' /\ OrgsOK' /\ AgreementsOK' /\ NoticesOK' /\ UsedOK' /\ RequestsOK'
<1> USE DEF RecordsOK
<1>1. CASE EraseRecords(p)
  <2>1. UserRequest(req[p])
    BY <1>1, AtUser DEF EraseRecords, At
  <2>2. UserRequest([req[p] EXCEPT !.at = "tombstone", !.arg = Records(req[p].user)])
    BY <1>1, <2>1 DEF UserRequest, OpOK, ArgOK, EraseRecords, At
  <2>3. req' = [req EXCEPT ![p] = [req[p] EXCEPT !.at = "tombstone", !.arg = Records(req[p].user)]]
    BY <1>1 DEF EraseRecords
  <2>4. RequestsOK'
    BY <2>2, <2>3, RequestStep DEF RequestOK
  <2> QED
    BY <1>1, <2>4 DEF EraseRecords, accountVars, orgVars, agreementVars, noticeVars, AccountsOK, OrgsOK,
        AgreementsOK, NoticesOK, UsedOK
<1>2. CASE EraseCommits(p)
  <2>1. UserRequest(req[p]) /\ req[p].user \in User /\ req[p].saw \in Account
    BY <1>2, AtUser DEF EraseCommits, EraseAccount, At, UserRequest
  <2>2. AccountsOK' /\ UsedOK'
    <3>1. user_tombstone(users[req[p].user], req[p].saw) \in Account
      <4>1. users[req[p].user] \in Account
        BY <2>1 DEF AccountsOK
      <4> QED
        BY <2>1, <4>1 DEF user_tombstone, Account
    <3> QED
      BY <1>2, <3>1 DEF EraseCommits, EraseAccount, AccountsOK, UsedOK
  <2>3. OrgsOK'
    <3>1. \A o \in Org : [orgs[o] EXCEPT !.role[req[p].user] = "none"] \in [slug : Nat, role : [User -> Role]]
      <4>1. \A o \in Org : orgs[o] \in [slug : Nat, role : [User -> Role]]
        BY DEF OrgsOK
      <4>2. \A f \in [User -> Role] : [f EXCEPT ![req[p].user] = "none"] \in [User -> Role]
        BY DEF Role
      <4> QED
        BY <4>1, <4>2
    <3> QED
      BY <1>2, <3>1 DEF EraseCommits, EraseMemberships, OrgsOK
  <2>4. AgreementsOK'
    <3>1. [NoProposal EXCEPT !.st = "deleted"] \in ProposalRow
      BY DEF NoProposal, ProposalRow
    <3> QED
      BY <1>2, <3>1 DEF EraseCommits, EraseProposals, AgreementsOK, signatureVars
  <2>5. NoticesOK'
    BY <1>2, NoticeRows DEF EraseCommits, EraseNotices, NoticesOK
  <2> QED
    BY <1>2, <2>2, <2>3, <2>4, <2>5, EndStep DEF EraseCommits
<1> QED
  BY <1>1, <1>2 DEF EraseStep

\* The bound on requests is kept, whoever makes one.
Counts ==
  \/ used'.requests = used.requests
  \/ used.requests < MaxRequests /\ used'.requests = used.requests + 1

LEMMA BeginCounts ==
  ASSUME UsedOK, NEW p, NEW lanes, NEW r, Begin(p, lanes, r)
  PROVE  Counts
  BY DEF UsedOK, Begin, Counts

LEMMA FaultCounts == ASSUME UsedOK, Fault PROVE Counts
  BY DEF UsedOK, Fault, Counts

LEMMA RequestCounts ==
  ASSUME UsedOK, NEW p, NEW lane, NEW u, NEW op, NEW more, Request(p, lane, u, op, more)
  PROVE  Counts
  BY BeginCounts DEF Request

LEMMA StepCounts ==
  ASSUME UsedOK, AccountNext \/ OrgNext \/ AgreementNext \/ NoticeNext \/ (\E p \in Proc : EraseStep(p))
  PROVE  Counts
<1>1. ASSUME NEW p \in Proc, AccountStarts(p)
      PROVE  Counts
  BY <1>1, BeginCounts, RequestCounts, CaseWritten DEF AccountStarts, register, register_request, register_verify,
      request_wallet_nonce, verify_wallet_signature, begin_enrollment, enable, disable,
      verify_second_factor, update_user, upload_my_avatar, delete_my_avatar, update_by_admin,
      create_case, erase_user
<1>2. ASSUME NEW p \in Proc, AccountGoes(p)
      PROVE  Counts
  BY <1>2, FaultCounts DEF AccountGoes, create_user, link_guest_cases, authenticate_or_create,
      FactorCommits, ProfileCommits, CaseCommits, Counts
<1>3. ASSUME NEW p \in Proc, OrgStarts(p) \/ OrgGoes(p)
      PROVE  Counts
  BY <1>3, RequestCounts DEF OrgStarts, OrgGoes, create_organization, switch_default_organization,
      create_invite, accept_invite, revoke_invite, OrganizationCommits, SwitchCommits,
      InviteCommits, AcceptCommits, RevokeCommits, Counts
<1>4. ASSUME NEW p \in Proc, AgreementStarts(p)
      PROVE  Counts
  BY <1>4, BeginCounts, RequestCounts DEF AgreementStarts, generate_proposal, send_proposal,
      respond_to_proposal, Reads, create_signature_request, yousign_webhook, Counts
<1>5. ASSUME NEW p \in Proc, AgreementGoes(p)
      PROVE  Counts
  BY <1>5, FaultCounts DEF AgreementGoes, ProposalCommits, StatusCommits, ProviderCall,
      ProviderRefuses, SignatureFails, SignatureCommits, handle_webhook, HookCommits, HookFails, Counts
<1>6. ASSUME NEW p \in Proc, NoticeStarts(p)
      PROVE  Counts
  BY <1>6, BeginCounts, RequestCounts DEF NoticeStarts, create_notification, update_notification,
      process_notifications
<1>7. ASSUME NEW p \in Proc, NoticeGoes(p) \/ EraseStep(p)
      PROVE  Counts
  BY <1>7, FaultCounts DEF NoticeGoes, NoticeCommits, UpdateCommits, get_pending_notifications, Send,
      Mark, Again, ProcessCommits, ProcessFails, EraseStep, EraseRecords, EraseCommits, EraseAccount,
      Counts
<1>8. \/ \E u \in User : OtpExpires(u) \/ NonceExpires(u)
      \/ \E i \in Invite : InviteExpires(i)
      \/ \E k \in Signature, o \in Outcomes : Decide(k, o)
      \/ \E n \in Notice : Due(n)
      => Counts
  BY DEF OtpExpires, NonceExpires, InviteExpires, Decide, Due, Counts
<1> QED
  BY <1>1, <1>2, <1>3, <1>4, <1>5, <1>6, <1>7, <1>8
  DEF AccountNext, OrgNext, AgreementNext, NoticeNext

\* The challenges of the wallets are numbered by their requests.
NoncesOK ==
  used.requests <= MaxRequests /\ \A u \in User : nonce[u] \subseteq 1..used.requests

LEMMA NonceFrame ==
  ASSUME UsedOK, UsedOK', NoncesOK, Counts, UNCHANGED nonce
  PROVE  NoncesOK'
<1>1. /\ used.requests \in Nat /\ used'.requests \in Nat /\ used.requests <= used'.requests
      /\ used'.requests <= MaxRequests
  BY RequestBounds DEF UsedOK, Counts, NoncesOK
<1>2. 1..used.requests \subseteq 1..used'.requests
  BY <1>1
<1> QED
  BY <1>1, <1>2 DEF NoncesOK

\* A wallet gets a new challenge, or loses its own.
LEMMA NonceStep ==
  ASSUME UsedOK, UsedOK', AccountsOK, NoncesOK, Counts, NEW u \in User,
         \/ nonce' = [nonce EXCEPT ![u] = {}]
         \/ used'.requests = Number /\ nonce' = [nonce EXCEPT ![u] = {Number}]
  PROVE  NoncesOK'
<1>1. /\ used.requests \in Nat /\ used'.requests \in Nat /\ used.requests <= used'.requests
      /\ used'.requests <= MaxRequests
  BY RequestBounds DEF UsedOK, Counts, NoncesOK
<1>2. 1..used.requests \subseteq 1..used'.requests
  BY <1>1
<1>3. \A v \in User : nonce'[v] = nonce[v] \/ nonce'[v] = {}
                      \/ (nonce'[v] = {used'.requests} /\ used'.requests = Number)
  BY DEF AccountsOK
<1>4. used'.requests = Number => used'.requests \in 1..used'.requests
  BY <1>1 DEF Number
<1> QED
  BY <1>1, <1>2, <1>3, <1>4 DEF NoncesOK

LEMMA AccountNonces ==
  ASSUME RecordsOK, UsedOK', NoncesOK, AccountNext
  PROVE  NoncesOK'
<1> USE DEF RecordsOK
<1>1. Counts
  BY StepCounts
<1>2. ASSUME NEW u \in User, NonceExpires(u)
      PROVE  NoncesOK'
  BY <1>1, <1>2, NonceStep DEF NonceExpires
<1>3. ASSUME NEW p \in Proc, request_wallet_nonce(p)
      PROVE  NoncesOK'
  <2>1. PICK u \in WalletUser : generate_nonce(u) /\ Begin(p, {"account"}, Idle)
    BY <1>3 DEF request_wallet_nonce
  <2>2. used'.requests = Number
    BY <2>1 DEF Begin, UsedOK, Number
  <2> QED
    BY <1>1, <2>1, <2>2, NonceStep, NoUserAssumption DEF generate_nonce
<1>4. ASSUME NEW p \in Proc, verify_wallet_signature(p)
      PROVE  NoncesOK'
  BY <1>1, <1>4, NonceStep, NoUserAssumption DEF verify_wallet_signature, consume_cached_nonce
<1>5. \/ \E u \in User : NonceExpires(u)
      \/ \E p \in Proc : request_wallet_nonce(p) \/ verify_wallet_signature(p)
      \/ UNCHANGED nonce
  BY CaseWritten DEF AccountNext, AccountStarts, AccountGoes, register, register_request, register_verify,
      begin_enrollment, enable, disable, verify_second_factor, update_user, upload_my_avatar,
      delete_my_avatar, update_by_admin, create_case, erase_user,
      create_user, link_guest_cases, authenticate_or_create, FactorCommits, ProfileCommits,
      CaseCommits, OtpExpires, accountVars
<1> QED
  BY <1>1, <1>2, <1>3, <1>4, <1>5, NonceFrame

LEMMA HooksFrame ==
  ASSUME HooksOK, UNCHANGED provider, NEW at, Moves(at), {"hook", "outcome"} \cap at = {}
  PROVE  HooksOK'
  BY DEF HooksOK, Moves, At, Idle

LEMMA AgreementHooks ==
  ASSUME RecordsOK, AgreementNext
  PROVE  HooksOK'
<1> USE DEF RecordsOK
<1>0. req = [p \in Proc |-> req[p]]
  BY DEF RequestsOK
<1>1. \/ UNCHANGED provider
      \/ \E k \in Signature : \/ \E n \in {0, 1} : provider' = [provider EXCEPT ![k].calls = @ + n]
                              \/ \E o \in Outcomes : provider' = [provider EXCEPT ![k].outcome = o]
  <2>1. ASSUME NEW p \in Proc, ProviderCall(p) \/ ProviderRefuses(p) \/ SignatureFails(p)
        PROVE  \E k \in Signature, n \in {0, 1} : provider' = [provider EXCEPT ![k].calls = @ + n]
    <3>1. req[p].signature \in Signature
      BY <2>1, AtOther DEF ProviderCall, ProviderRefuses, SignatureFails, At, SignatureRequest
    <3> QED
      BY <2>1, <3>1 DEF ProviderCall, ProviderRefuses, SignatureFails
  <2> QED
    BY <2>1 DEF AgreementNext, AgreementStarts, AgreementGoes, generate_proposal, send_proposal,
      respond_to_proposal, create_signature_request, yousign_webhook, ProposalCommits,
      StatusCommits, SignatureCommits, handle_webhook, HookCommits, HookFails, Decide,
      agreementVars, signatureVars
<1>2. \A k \in Signature : provider[k].outcome # "open" => provider'[k].outcome # "open"
  BY <1>1, ProviderStep
<1>3. \A p \in Proc : At(p, "hook") \/ At(p, "outcome") => req[p].signature \in Signature
  BY AtOther DEF At, SignatureRequest
<1>4. ASSUME NEW p \in Proc, NEW k \in Signature, yousign_webhook(p, k)
      PROVE  HooksOK'
  BY <1>0, <1>4 DEF yousign_webhook, HooksOK, At, AgreementsOK, agreementVars
<1>5. ASSUME NEW p \in Proc, handle_webhook(p)
      PROVE  HooksOK'
  BY <1>0, <1>5 DEF handle_webhook, HooksOK, At, Answered, End, Idle
<1>6. ASSUME \A p \in Proc : /\ ~handle_webhook(p)
                             /\ \A k \in Signature : ~yousign_webhook(p, k)
      PROVE  \A p \in Proc : (At(p, "hook") \/ At(p, "outcome"))' => req'[p] = req[p]
  <2>1. ASSUME NEW p \in Proc,
               \/ generate_proposal(p) \/ send_proposal(p) \/ respond_to_proposal(p)
               \/ create_signature_request(p) \/ ProviderCall(p)
        PROVE  \A q \in Proc : (At(q, "hook") \/ At(q, "outcome"))' => req'[q] = req[q]
    <3>1. CASE generate_proposal(p) \/ send_proposal(p) \/ respond_to_proposal(p) \/ create_signature_request(p)
      BY <1>0, <3>1 DEF generate_proposal, send_proposal, respond_to_proposal, create_signature_request,
         Reads, Request, Begin, At, Answers
    <3>2. CASE ProviderCall(p)
      <4>1. SignatureRequest(req[p]) /\ req[p].at = "call"
        BY <3>2, AtOther DEF ProviderCall, At
      <4>2. [req[p] EXCEPT !.done = @ + 1].at = "call"
        BY <4>1 DEF SignatureRequest
      <4>3. req' = [req EXCEPT ![p] = [req[p] EXCEPT !.done = @ + 1]]
        BY <3>2 DEF ProviderCall
      <4> QED
        BY <1>0, <4>2, <4>3 DEF At
    <3> QED
      BY <2>1, <3>1, <3>2
  <2>2. ASSUME NEW p \in Proc, AgreementGoes(p), ~ProviderCall(p), ~handle_webhook(p)
        PROVE  \A q \in Proc : (At(q, "hook") \/ At(q, "outcome"))' => req'[q] = req[q]
    <3>1. End(p)
      BY <2>2 DEF AgreementGoes, ProposalCommits, StatusCommits, ProviderRefuses, SignatureFails,
         SignatureCommits, HookCommits, HookFails, Answered
    <3> QED
      BY <1>0, <3>1 DEF End, At, Idle
  <2> QED
    BY <1>6, <2>1, <2>2 DEF AgreementNext, AgreementStarts, Decide
<1>7. CASE \A p \in Proc : /\ ~handle_webhook(p)
                           /\ \A k \in Signature : ~yousign_webhook(p, k)
  BY <1>2, <1>3, <1>6, <1>7 DEF HooksOK, At
<1> QED
  BY <1>4, <1>5, <1>7

LEMMA RecordsStart == Init => RecordsOK /\ NoncesOK
<1> SUFFICES ASSUME Init
             PROVE  RecordsOK /\ NoncesOK
  OBVIOUS
<1>0. AccountInit /\ OrgInit /\ AgreementInit /\ NoticeInit
  BY DEF Init
<1>1. UsedOK /\ used.requests = 0
  BY <1>0 DEF AccountInit, UsedOK
<1>2. AccountsOK
  <2>1. /\ \A S : users \in {f \in [User -> {NoAccount, Registered, Enrolled}] : S} =>
               users \in [User -> Account]
        /\ \A lane : users = [u \in User |-> IF lane = "org" \/ u = Fresh(User) THEN Registered
                                             ELSE NoAccount] => users \in [User -> Account]
    BY AccountRows
  <2>2. users \in [User -> Account]
    BY <1>0, <2>1, AccountRows DEF AccountInit
  <2>3. NoCase \in CaseRow /\ Open(NoUser) \in CaseRow
    BY DEF NoCase, Open, CaseRow
  <2>4. cases \in [Case -> CaseRow]
    BY <1>0, <2>3 DEF AccountInit
  <2> QED
    BY <1>0, <2>2, <2>4 DEF AccountInit, AccountsOK
<1>3. OrgsOK
  <2>1. \A x : [v \in User |-> IF v = x THEN "owner" ELSE "none"] \in [User -> Role]
    BY DEF Role
  <2>2. NoOrganization \in [slug : Nat, role : [User -> Role]]
    BY DEF NoOrganization, Role
  <2>3. orgs \in [Org -> [slug : Nat, role : [User -> Role]]]
    <3>1. PICK some \in {{}, {Fresh(Org)}}, u \in User \cup {NoUser} :
            orgs = [x \in Org |-> IF x \in some /\ used.lane = "org"
                                  THEN [slug |-> 1, role |-> [v \in User |-> IF v = u THEN "owner" ELSE "none"]]
                                  ELSE NoOrganization]
      BY <1>0 DEF OrgInit
    <3>2. [slug |-> 1, role |-> [v \in User |-> IF v = u THEN "owner" ELSE "none"]]
            \in [slug : Nat, role : [User -> Role]]
      BY <2>1
    <3> QED
      BY <2>2, <3>1, <3>2
  <2>4. NoInvite \in InviteRow
        /\ \A o \in Org : [NoInvite EXCEPT !.org = o, !.role = "member"] \in InviteRow
    BY DEF NoInvite, InviteRow, Role
  <2>5. invites \in [Invite -> InviteRow]
    <3>1. {NoInvite} \cup {[NoInvite EXCEPT !.org = o, !.role = "member"] : o \in {x \in Org : Exists(x)}}
             \subseteq InviteRow
      BY <2>4
    <3>2. PICK f \in [Invite -> {NoInvite} \cup
                    {[NoInvite EXCEPT !.org = o, !.role = "member"] : o \in {x \in Org : Exists(x)}}] :
            invites = f
      BY <1>0 DEF OrgInit
    <3> DEFINE S == {NoInvite} \cup {[NoInvite EXCEPT !.org = o, !.role = "member"] : o \in {x \in Org : Exists(x)}}
    <3>3. f \in [Invite -> S] /\ S \subseteq InviteRow
      BY <3>1, <3>2
    <3> HIDE DEF S
    <3> QED
      BY <3>2, <3>3
  <2> QED
    BY <2>3, <2>5 DEF OrgsOK
<1>4. AgreementsOK
  <2>1. NoProposal \in ProposalRow
        /\ \A u \in User, st \in {"draft", "sent"} : [NoProposal EXCEPT !.st = st, !.by = u] \in ProposalRow
    BY DEF NoProposal, ProposalRow
  <2>2. proposals \in [Proposal -> ProposalRow]
    <3>1. PICK u \in User, st \in {"none", "draft", "sent"} :
            proposals = [k \in Proposal |-> IF st = "none" \/ used.lane # "agreement" THEN NoProposal
                                            ELSE [NoProposal EXCEPT !.st = st, !.by = u]]
      BY <1>0 DEF AgreementInit
    <3> QED
      BY <2>1, <3>1
  <2>3. NoSignature \in SignatureRow
    BY DEF NoSignature, SignatureRow
  <2>4. NotMade \in [calls : Nat, outcome : {"open"} \cup Outcomes]
    BY DEF NotMade
  <2> QED
    BY <1>0, <2>2, <2>3, <2>4 DEF AgreementInit, AgreementsOK
<1>5. NoticesOK
  <2>1. PICK u \in User, some \in {{}, {Fresh(Notice)}} :
          notices = [n \in Notice |-> IF n \in some /\ used.lane = "notice"
                                      THEN Pending(u, FALSE) ELSE NoNotice]
    BY <1>0 DEF NoticeInit
  <2> QED
    BY <1>0, <2>1, NoticeRows DEF NoticeInit, NoticesOK
<1>6. RequestsOK /\ HooksOK
  BY <1>0 DEF AccountInit, RequestsOK, RequestOK, HooksOK, At, Idle
<1>7. NoncesOK
  BY <1>0, <1>1, RequestBounds DEF AccountInit, NoncesOK
<1> QED
  BY <1>1, <1>2, <1>3, <1>4, <1>5, <1>6, <1>7 DEF RecordsOK

LEMMA RecordsKept == RecordsOK /\ NoncesOK /\ [Next]_vars => RecordsOK' /\ NoncesOK'
<1> SUFFICES ASSUME RecordsOK, NoncesOK, [Next]_vars
             PROVE  RecordsOK' /\ NoncesOK'
  OBVIOUS
<1>0. /\ AccountsOK /\ OrgsOK /\ AgreementsOK /\ NoticesOK /\ UsedOK /\ RequestsOK /\ HooksOK
  BY DEF RecordsOK
<1>1. CASE AccountStep
  <2>1. AccountsOK' /\ UsedOK' /\ RequestsOK' /\ NoncesOK'
    BY <1>1, AccountTypes, AccountNonces DEF AccountStep
  <2>2. OrgsOK' /\ AgreementsOK' /\ NoticesOK'
    BY <1>0, <1>1 DEF AccountStep, orgVars, agreementVars, noticeVars, OrgsOK, AgreementsOK, NoticesOK
  <2>3. HooksOK'
    BY <1>0, <1>1, AccountMoves, HooksFrame DEF AccountStep, agreementVars, AccountAt
  <2> QED
    BY <2>1, <2>2, <2>3 DEF RecordsOK
<1>2. CASE OrgStep
  <2>1. AccountsOK' /\ OrgsOK' /\ UsedOK' /\ RequestsOK'
    BY <1>2, OrgTypes DEF OrgStep
  <2>2. AgreementsOK' /\ NoticesOK'
    BY <1>0, <1>2 DEF OrgStep, agreementVars, noticeVars, AgreementsOK, NoticesOK
  <2>3. HooksOK'
    BY <1>0, <1>2, OrgMoves, HooksFrame DEF OrgStep, agreementVars, OrgAt
  <2>4. UNCHANGED nonce
    BY <1>2 DEF OrgStep, OrgNext, OrgStarts, OrgGoes, create_organization, switch_default_organization,
      create_invite, accept_invite, revoke_invite, OrganizationCommits, SwitchCommits,
      InviteCommits, AcceptCommits, RevokeCommits, InviteExpires, accountVars
  <2>5. NoncesOK'
    BY <1>0, <1>2, <2>1, <2>4, StepCounts, NonceFrame DEF OrgStep
  <2> QED
    BY <2>1, <2>2, <2>3, <2>5 DEF RecordsOK
<1>3. CASE AgreementStep
  <2>1. AgreementsOK' /\ UsedOK' /\ RequestsOK' /\ HooksOK'
    BY <1>3, AgreementTypes, AgreementHooks DEF AgreementStep
  <2>2. UNCHANGED accountVars
    BY <1>3 DEF AgreementStep, AgreementNext, AgreementStarts, AgreementGoes, generate_proposal,
      send_proposal, respond_to_proposal, create_signature_request, yousign_webhook, ProposalCommits,
      StatusCommits, ProviderCall, ProviderRefuses, SignatureFails, SignatureCommits,
      handle_webhook, HookCommits, HookFails, Decide
  <2>3. AccountsOK' /\ OrgsOK' /\ NoticesOK'
    BY <1>0, <1>3, <2>2 DEF AgreementStep, orgVars, noticeVars, accountVars, AccountsOK, OrgsOK, NoticesOK
  <2>4. NoncesOK'
    BY <1>0, <1>3, <2>1, <2>2, StepCounts, NonceFrame DEF AgreementStep, accountVars
  <2> QED
    BY <2>1, <2>3, <2>4 DEF RecordsOK
<1>4. CASE NoticeStep
  <2>1. NoticesOK' /\ UsedOK' /\ RequestsOK'
    BY <1>4, NoticeTypes DEF NoticeStep
  <2>2. UNCHANGED accountVars
    BY <1>4 DEF NoticeStep, NoticeNext, NoticeStarts, NoticeGoes, create_notification,
      update_notification, process_notifications, NoticeCommits, UpdateCommits,
      get_pending_notifications, Send, Mark, Again, ProcessCommits, ProcessFails, Due
  <2>3. AccountsOK' /\ OrgsOK' /\ AgreementsOK'
    BY <1>0, <1>4, <2>2 DEF NoticeStep, orgVars, agreementVars, accountVars, AccountsOK, OrgsOK, AgreementsOK
  <2>4. NoncesOK'
    BY <1>0, <1>4, <2>1, <2>2, StepCounts, NonceFrame DEF NoticeStep, accountVars
  <2>5. HooksOK'
    BY <1>0, <1>4, NoticeMoves, HooksFrame DEF NoticeStep, agreementVars, NoticeAt
  <2> QED
    BY <2>1, <2>3, <2>4, <2>5 DEF RecordsOK
<1>5. ASSUME NEW p \in Proc, EraseStep(p)
      PROVE  RecordsOK' /\ NoncesOK'
  <2>1. AccountsOK' /\ OrgsOK' /\ AgreementsOK' /\ NoticesOK' /\ UsedOK' /\ RequestsOK'
    BY <1>5, EraseTypes
  <2>2. UNCHANGED <<nonce, provider>>
    BY <1>5 DEF EraseStep, EraseRecords, EraseCommits, EraseAccount, accountVars, agreementVars,
      signatureVars
  <2>3. NoncesOK'
    BY <1>0, <1>5, <2>1, <2>2, StepCounts, NonceFrame
  <2>4. HooksOK'
    BY <1>0, <1>5, <2>2, EraseMoves, HooksFrame
  <2> QED
    BY <2>1, <2>3, <2>4 DEF RecordsOK
<1>6. CASE EuipoStep \/ UNCHANGED vars
  <2>1. UNCHANGED <<accountVars, req, used, orgVars, agreementVars, noticeVars>>
    BY <1>6 DEF EuipoStep, OfEuipo, ClientVars, vars
  <2> QED
    BY <1>0, <2>1 DEF RecordsOK, AccountsOK, OrgsOK, AgreementsOK, NoticesOK, UsedOK, RequestsOK,
       HooksOK, NoncesOK, accountVars, orgVars, agreementVars, noticeVars, At
<1> QED
  BY <1>1, <1>2, <1>3, <1>4, <1>5, <1>6 DEF Next

\* The rows of the clients keep their types, and challenges their numbers.
THEOREM TypeCorrect == Spec => []TypeOK
<1>1. RecordsOK /\ NoncesOK => TypeOK
  <2> SUFFICES ASSUME RecordsOK, NoncesOK
               PROVE  TypeOK
    OBVIOUS
  <2>1. AccountsOK /\ OrgsOK /\ AgreementsOK /\ NoticesOK /\ UsedOK
    BY DEF RecordsOK
  <2>2. \A u \in User : nonce[u] \subseteq 1..MaxRequests
    <3>1. 1..used.requests \subseteq 1..MaxRequests
      BY <2>1, RequestBounds DEF NoncesOK, UsedOK
    <3> QED
      BY <3>1 DEF NoncesOK
  <2>3. \A u \in User :
       /\ users[u].st \in {"none", "active", "inactive"} /\ users[u].erased \in BOOLEAN
       /\ users[u].pii \subseteq {"name", "phone", "avatar"}
       /\ users[u].org \in Org \cup {NoOrg}
    BY <2>1 DEF AccountsOK, Account
  <2>4. /\ \A c \in Case : cases[c].st \in {"none", "draft", "open", "closed"}
        /\ \A o \in Org : orgs[o].slug \in Nat
        /\ \A k \in Proposal : proposals[k].st \in {"none", "draft", "sent", "deleted"} \cup Answers
    BY <2>1 DEF AccountsOK, CaseRow, OrgsOK, AgreementsOK, ProposalRow
  <2>5. /\ \A k \in Signature : rows[k].st \in {"none", "ongoing", "error"} \cup Outcomes
        /\ \A n \in Notice :
             notices[n].st \in {"none", "pending", "sent", "failed", "cancelled", "deleted"}
    BY <2>1 DEF AgreementsOK, SignatureRow, NoticesOK, NoticeRow, NoticeStatus
  <2> QED
    BY <2>1, <2>2, <2>3, <2>4, <2>5 DEF TypeOK, AccountsOK
<1> QED
  BY <1>1, RecordsStart, RecordsKept, PTL DEF Spec

-----------------------------------------------------------------------------
(* Which action takes a request of an account where.                       *)

LEMMA AccountStartsAt ==
  ASSUME RequestsOK, NEW p \in Proc, AccountStarts(p)
  PROVE  /\ \A q \in Proc \ {p} : req'[q] = req[q]
         /\ req'[p].at \notin {"link", "tombstone"}
         /\ req'[p].at = "enroll" => begin_enrollment(p)
         /\ req'[p].at = "enable" => enable(p)
         /\ req'[p].at = "recover" => verify_second_factor(p)
         /\ req'[p].at = "disable" => disable(p)
         /\ UNCHANGED users
<1>0. req = [q \in Proc |-> req[q]]
  BY DEF RequestsOK
<1>1. UNCHANGED users
  BY CaseWritten DEF AccountStarts, register, register_request, register_verify, request_wallet_nonce,
      verify_wallet_signature, begin_enrollment, enable, disable, verify_second_factor, update_user,
      upload_my_avatar, delete_my_avatar, update_by_admin, create_case, erase_user, accountVars
<1>2. CASE begin_enrollment(p) \/ enable(p) \/ disable(p) \/ verify_second_factor(p) \/ update_user(p)
           \/ upload_my_avatar(p) \/ delete_my_avatar(p) \/ create_case(p)
  <2>1. \E u, more : \/ Request(p, "account", u, "enroll", more) /\ begin_enrollment(p)
                     \/ Request(p, "account", u, "enable", more) /\ enable(p)
                     \/ Request(p, "account", u, "recover", more) /\ verify_second_factor(p)
                     \/ Request(p, "account", u, "disable", more) /\ disable(p)
                     \/ \E op \in {"update", "unset", "case"} : Request(p, "account", u, op, more)
    <3>1. begin_enrollment(p) => \E u, more : Request(p, "account", u, "enroll", more)
      BY DEF begin_enrollment
    <3>2. enable(p) => \E u, more : Request(p, "account", u, "enable", more)
      BY DEF enable
    <3>3. verify_second_factor(p) => \E u, more : Request(p, "account", u, "recover", more)
      BY DEF verify_second_factor
    <3>4. update_user(p) \/ upload_my_avatar(p) \/ delete_my_avatar(p) \/ create_case(p) =>
            \E u, more : \E op \in {"update", "unset", "case"} : Request(p, "account", u, op, more)
      BY DEF update_user, upload_my_avatar, delete_my_avatar, create_case
    <3>5. disable(p) => \E u, more : Request(p, "account", u, "disable", more)
      BY DEF disable
    <3> QED
      BY <1>2, <3>1, <3>2, <3>3, <3>4, <3>5
  <2> QED
    BY <1>0, <1>1, <2>1 DEF Request, Begin
<1>3. CASE register_request(p) \/ request_wallet_nonce(p) \/ WriteCase(p)
  <2>1. PICK lanes : Begin(p, lanes, Idle)
    BY <1>3, CaseWritten DEF register_request, request_wallet_nonce
  <2> QED
    BY <1>0, <1>1, <2>1 DEF Begin, Idle
<1>4. CASE register(p) \/ register_verify(p) \/ verify_wallet_signature(p)
  <2>1. \A u : Registers(p, u).at = "create" /\ [Registers(p, u) EXCEPT !.at = "wallet"].at = "wallet"
               /\ Idle.at = "idle"
    BY DEF Registers, Idle
  <2> QED
    BY <1>0, <1>1, <1>4, <2>1 DEF register, register_verify, verify_wallet_signature, Begin
<1>5. CASE update_by_admin(p)
  BY <1>0, <1>1, <1>5 DEF update_by_admin, Begin
<1>6. CASE erase_user(p)
  BY <1>0, <1>1, <1>6 DEF erase_user, Begin
<1> QED
  BY <1>2, <1>3, <1>4, <1>5, <1>6 DEF AccountStarts

LEMMA AccountGoesAt ==
  ASSUME RequestsOK, NEW p \in Proc, AccountGoes(p)
  PROVE  /\ \A q \in Proc \ {p} : req'[q] = req[q]
         /\ req'[p].at \in {"idle", "create", "link"}
         /\ req'[p].at = "link" => create_user(p) /\ req'[p].arg = Guests(req[p].user)
                                   /\ req'[p].user = req[p].user
<1>0. req = [q \in Proc |-> req[q]]
  BY DEF RequestsOK
<1>1. CASE create_user(p)
  <2>1. DOMAIN req[p] = {"at", "op", "user", "saw", "arg"}
    BY <1>1, AtUser DEF create_user, At, UserRequest
  <2>2. \/ End(p)
        \/ req' = [req EXCEPT ![p] = [req[p] EXCEPT !.at = "link", !.arg = Guests(req[p].user)]]
    BY <1>1 DEF create_user
  <2>3. /\ [req[p] EXCEPT !.at = "link", !.arg = Guests(req[p].user)].at = "link"
        /\ [req[p] EXCEPT !.at = "link", !.arg = Guests(req[p].user)].arg = Guests(req[p].user)
        /\ [req[p] EXCEPT !.at = "link", !.arg = Guests(req[p].user)].user = req[p].user
        /\ Idle.at = "idle"
    BY <2>1 DEF Idle
  <2> QED
    BY <1>0, <1>1, <2>2, <2>3 DEF End
<1>2. CASE authenticate_or_create(p)
  <2>1. DOMAIN req[p] = {"at", "op", "user", "saw", "arg"}
    BY <1>2, AtUser DEF authenticate_or_create, At, UserRequest
  <2>2. End(p) \/ req' = [req EXCEPT ![p] = [req[p] EXCEPT !.at = "create"]]
    BY <1>2 DEF authenticate_or_create, Goto
  <2> QED
    BY <1>0, <2>1, <2>2 DEF End, Idle
<1>3. CASE link_guest_cases(p) \/ FactorCommits(p) \/ ProfileCommits(p) \/ CaseCommits(p)
  <2>1. End(p)
    BY <1>3 DEF link_guest_cases, FactorCommits, ProfileCommits, CaseCommits
  <2> QED
    BY <1>0, <2>1 DEF End, Idle
<1> QED
  BY <1>1, <1>2, <1>3 DEF AccountGoes

\* Which columns of an account the steps of others may write.
LEMMA OrgFactors ==
  ASSUME AccountsOK, OrgNext
  PROVE  \A u \in User : users'[u].factor = users[u].factor
<1>1. ASSUME NEW p \in Proc, OrgStarts(p) \/ InviteCommits(p) \/ RevokeCommits(p)
      PROVE  UNCHANGED users
  BY <1>1 DEF OrgStarts, create_organization, switch_default_organization,
    create_invite, accept_invite, revoke_invite, InviteCommits, RevokeCommits, accountVars
<1>2. ASSUME NEW p \in Proc, OrganizationCommits(p) \/ AcceptCommits(p)
      PROVE  UNCHANGED users \/ \E u, o : users' = [users EXCEPT ![u].org = o]
  BY <1>2 DEF OrganizationCommits, AcceptCommits
<1>3. ASSUME NEW p \in Proc, SwitchCommits(p)
      PROVE  UNCHANGED users \/ \E u, o : users' = [users EXCEPT ![u].org = o]
  BY <1>3 DEF SwitchCommits
<1>4. UNCHANGED users \/ \E u, o : users' = [users EXCEPT ![u].org = o]
  BY <1>1, <1>2, <1>3 DEF OrgNext, OrgGoes, InviteExpires, accountVars
<1> QED
  BY <1>4 DEF AccountsOK, Account

LEMMA EraseFactors ==
  ASSUME AccountsOK, NEW p \in Proc, EraseStep(p)
  PROVE  \A u \in User : users'[u].factor = users[u].factor
<1>1. UNCHANGED users \/ users' = [users EXCEPT ![req[p].user] = user_tombstone(users[req[p].user], req[p].saw)]
  BY DEF EraseStep, EraseRecords, EraseCommits, EraseAccount, accountVars
<1>2. \A saw : \A row \in Account : user_tombstone(row, saw).factor = row.factor
  BY DEF user_tombstone, Account
<1> QED
  BY <1>1, <1>2 DEF AccountsOK

LEMMA ProfileFactors ==
  ASSUME AccountsOK, NEW p \in Proc, ProfileCommits(p)
  PROVE  \A u \in User : users'[u].factor = users[u].factor
<1>1. PICK pii, st : users' = [users EXCEPT ![req[p].user] = [@ EXCEPT !.pii = pii, !.st = st]]
  BY DEF ProfileCommits
<1> QED
  BY <1>1 DEF AccountsOK, Account

\* What the other modules leave alone.
LEMMA OrgKeeps == OrgStep => UNCHANGED <<otp, nonce, cases>>
  BY DEF OrgStep, OrgNext, OrgStarts, OrgGoes, create_organization, switch_default_organization,
     create_invite, accept_invite, revoke_invite, OrganizationCommits, SwitchCommits,
     InviteCommits, AcceptCommits, RevokeCommits, InviteExpires, accountVars

LEMMA AgreementKeeps == AgreementStep => UNCHANGED accountVars
  BY DEF AgreementStep, AgreementNext, AgreementStarts, AgreementGoes, generate_proposal,
     send_proposal, respond_to_proposal, create_signature_request, yousign_webhook, ProposalCommits,
     StatusCommits, ProviderCall, ProviderRefuses, SignatureFails, SignatureCommits,
     handle_webhook, HookCommits, HookFails, Decide

LEMMA NoticeKeeps == NoticeStep => UNCHANGED accountVars
  BY DEF NoticeStep, NoticeNext, NoticeStarts, NoticeGoes, create_notification,
     update_notification, process_notifications, NoticeCommits, UpdateCommits,
     get_pending_notifications, Send, Mark, Again, ProcessCommits, ProcessFails, Due

LEMMA EraseKeeps ==
  ASSUME NEW p \in Proc, EraseStep(p)
  PROVE  UNCHANGED <<otp, nonce, cases>>
  BY DEF EraseStep, EraseRecords, EraseCommits, EraseAccount, accountVars

-----------------------------------------------------------------------------
(* What was crossed or spent stays so.                                     *)

LEMMA HistoryGrows ==
  ASSUME [Next]_vars
  PROVE  crossed \subseteq crossed' /\ spent \subseteq spent'
<1>1. ASSUME NEW p \in Proc, AccountStarts(p) \/ AccountGoes(p)
      PROVE  crossed \subseteq crossed' /\ spent \subseteq spent'
  BY <1>1, CaseWritten DEF AccountStarts, register, register_request, register_verify,
      request_wallet_nonce, verify_wallet_signature, begin_enrollment, enable, disable,
      verify_second_factor, update_user, upload_my_avatar, delete_my_avatar, update_by_admin,
      create_case, erase_user, AccountGoes, create_user, link_guest_cases,
      authenticate_or_create, FactorCommits, ProfileCommits, CaseCommits, history, Cross, Take
<1>2. ASSUME NEW p \in Proc, OrgStarts(p) \/ OrgGoes(p)
      PROVE  crossed \subseteq crossed' /\ spent \subseteq spent'
  BY <1>2 DEF OrgStarts, OrgGoes, create_organization, switch_default_organization,
      create_invite, accept_invite, revoke_invite, OrganizationCommits, SwitchCommits,
      InviteCommits, AcceptCommits, RevokeCommits, history, Cross, Take
<1>3. ASSUME NEW p \in Proc, AgreementStarts(p) \/ AgreementGoes(p)
      PROVE  crossed \subseteq crossed' /\ spent \subseteq spent'
  BY <1>3 DEF AgreementStarts, AgreementGoes, generate_proposal, send_proposal,
      respond_to_proposal, create_signature_request, yousign_webhook, ProposalCommits, StatusCommits,
      ProviderCall, ProviderRefuses, SignatureFails, SignatureCommits, handle_webhook, HookCommits,
      HookFails, history, Cross
<1>4. ASSUME NEW p \in Proc, NoticeStarts(p) \/ NoticeGoes(p)
      PROVE  crossed \subseteq crossed' /\ spent \subseteq spent'
  BY <1>4 DEF NoticeStarts, NoticeGoes, create_notification, update_notification,
      process_notifications, NoticeCommits, UpdateCommits, get_pending_notifications, Send,
      Mark, Again, ProcessCommits, ProcessFails, RolledBack, history, Cross
<1>5. ASSUME NEW p \in Proc, EraseStep(p)
      PROVE  crossed \subseteq crossed' /\ spent \subseteq spent'
  BY <1>5 DEF EraseStep, EraseRecords, EraseCommits, EraseAccount, history, Cross
<1>6. \/ \E u \in User : OtpExpires(u) \/ NonceExpires(u)
      \/ \E i \in Invite : InviteExpires(i)
      \/ \E k \in Signature, o \in Outcomes : Decide(k, o)
      \/ \E n \in Notice : Due(n)
      \/ EuipoStep \/ UNCHANGED vars
      => UNCHANGED history
  BY DEF OtpExpires, NonceExpires, InviteExpires, Decide, Due, EuipoStep, OfEuipo, ClientVars, vars
<1> QED
  BY <1>1, <1>2, <1>3, <1>4, <1>5, <1>6 DEF Next, AccountStep, AccountNext, OrgStep, OrgNext,
     AgreementStep, AgreementNext, NoticeStep, NoticeNext, history

-----------------------------------------------------------------------------
(* The second factor.                                                      *)

\* An enrollment began when the second factor was off.
EnrolledWhenOff == \A p \in Proc : At(p, "enroll") => ~req[p].saw.factor.on

FactorInv == SecondFactorHolds /\ EnrolledWhenOff

LEMMA FactorFrame ==
  ASSUME FactorInv, crossed \subseteq crossed',
         \A u \in User : users'[u].factor = users[u].factor,
         \A p \in Proc : req'[p] = req[p] \/ req'[p].at # "enroll"
  PROVE  FactorInv'
  BY DEF FactorInv, SecondFactorHolds, EnrolledWhenOff, At

LEMMA FactorStep ==
  ASSUME RecordsOK, FactorInv, NEW p \in Proc, FactorCommits(p)
  PROVE  SecondFactorHolds'
<1> USE DEF RecordsOK
<1>1. UserRequest(req[p]) /\ req[p].user \in User /\ req[p].op = req[p].at
  BY AtUser DEF FactorCommits, At, Named, UserRequest, OpOK
<1>2. users[req[p].user].factor \in Factor /\ req[p].saw.factor \in Factor
  BY <1>1 DEF UserRequest, AccountsOK, Account
<1>3. \A u \in User \ {req[p].user} : users'[u] = users[u]
  BY DEF FactorCommits, AccountsOK
<1>4. users'[req[p].user].factor = FactorAfter(p)
  BY <1>1 DEF FactorCommits, AccountsOK, Account
<1>5. crossed' = crossed \cup FactorCrossed(p)
  BY DEF FactorCommits, Cross
<1>6. FactorAfter(p).on =>
        FactorAfter(p).secret = FactorAfter(p).proved \/ <<"secret", req[p].user>> \in crossed'
  <2>1. CASE At(p, "enroll")
    <3>1. FactorAfter(p) = [users[req[p].user].factor EXCEPT !.secret = req[p].arg]
      BY <1>1, <2>1 DEF FactorAfter, Serves, At
    <3>2. users[req[p].user].factor.on => <<"secret", req[p].user>> \in FactorCrossed(p)
      BY <1>1, <2>1 DEF FactorCrossed, FactorInv, EnrolledWhenOff, Serves, At
    <3> QED
      BY <1>2, <1>5, <3>1, <3>2 DEF Factor
  <2>2. CASE At(p, "enable")
    <3>1. /\ FactorAfter(p).secret = users[req[p].user].factor.secret
          /\ FactorAfter(p).proved = req[p].saw.factor.secret
      BY <1>1, <1>2, <2>2 DEF FactorAfter, Serves, At, Factor
    <3>2. users[req[p].user].factor.secret # req[p].saw.factor.secret =>
            <<"secret", req[p].user>> \in FactorCrossed(p)
      BY <1>1, <2>2 DEF FactorCrossed, Serves, At
    <3> QED
      BY <1>5, <3>1, <3>2
  <2>3. CASE At(p, "disable")
    BY <1>1, <2>3 DEF FactorAfter, Serves, At, NoFactor
  <2>4. CASE At(p, "recover")
    <3>1. /\ FactorAfter(p).secret = users[req[p].user].factor.secret
          /\ FactorAfter(p).proved = users[req[p].user].factor.proved
          /\ FactorAfter(p).on = users[req[p].user].factor.on
      BY <1>1, <1>2, <2>4 DEF FactorAfter, Serves, At, Factor
    <3> QED
      BY <1>1, <1>5, <3>1 DEF FactorInv, SecondFactorHolds
  <2> QED
    BY <2>1, <2>2, <2>3, <2>4 DEF FactorCommits
<1> QED
  BY <1>3, <1>4, <1>5, <1>6 DEF FactorInv, SecondFactorHolds

LEMMA FactorStart == Init => FactorInv
<1> SUFFICES ASSUME Init
             PROVE  FactorInv
  OBVIOUS
<1>1. users \in [User -> {NoAccount, Registered, Enrolled}]
  BY DEF Init, AccountInit
<1>2. \A row \in {NoAccount, Registered, Enrolled} : row.factor.on => row.factor.secret = row.factor.proved
  <2>1. NoAccount.factor = NoFactor /\ Registered.factor = NoFactor /\ ~NoFactor.on
    BY DEF NoAccount, Registered, NoFactor
  <2>2. Enrolled.factor = [secret |-> {0}, on |-> TRUE, codes |-> Codes(0), proved |-> {0}]
    BY DEF Enrolled, Registered, NoAccount
  <2> QED
    BY <2>1, <2>2
<1>3. SecondFactorHolds
  BY <1>1, <1>2 DEF SecondFactorHolds
<1> QED
  BY <1>3 DEF FactorInv, EnrolledWhenOff, Init, AccountInit, At, Idle

LEMMA FactorKept == RecordsOK /\ FactorInv /\ [Next]_vars => FactorInv'
<1> SUFFICES ASSUME RecordsOK, FactorInv, [Next]_vars
             PROVE  FactorInv'
  OBVIOUS
<1> USE DEF RecordsOK
<1>0. req = [p \in Proc |-> req[p]] /\ crossed \subseteq crossed'
  BY HistoryGrows DEF RequestsOK
<1>1. ASSUME NEW p \in Proc, begin_enrollment(p)
      PROVE  FactorInv'
  <2>1. PICK u \in User : ~users[u].factor.on /\ Request(p, "account", u, "enroll", {Number})
    BY <1>1 DEF begin_enrollment
  <2>2. EnrolledWhenOff'
    BY <1>0, <2>1 DEF Request, Begin, FactorInv, EnrolledWhenOff, At
  <2> QED
    BY <1>1, <2>2 DEF FactorInv, SecondFactorHolds, begin_enrollment, accountVars, history
<1>2. ASSUME NEW p \in Proc, FactorCommits(p)
      PROVE  FactorInv'
  BY <1>0, <1>2, FactorStep DEF FactorCommits, End, FactorInv, EnrolledWhenOff, At, Idle
<1>3. ASSUME NEW p \in Proc, AccountStarts(p), ~begin_enrollment(p)
      PROVE  FactorInv'
  BY <1>0, <1>3, AccountStartsAt, FactorFrame
<1>4. ASSUME NEW p \in Proc, create_user(p) \/ authenticate_or_create(p)
      PROVE  FactorInv'
  BY <1>0, <1>4, AccountGoesAt, FactorFrame DEF AccountGoes, create_user, authenticate_or_create, accountVars
<1>5. ASSUME NEW p \in Proc, link_guest_cases(p)
      PROVE  FactorInv'
  <2>1. users' = users \/ users' = [users EXCEPT ![req[p].user] = Registered]
    BY <1>5 DEF link_guest_cases
  <2>2. \A u \in User : users'[u] = users[u] \/ ~users'[u].factor.on
    <3>1. ~Registered.factor.on
      BY DEF Registered, NoAccount, NoFactor
    <3> QED
      BY <2>1, <3>1 DEF AccountsOK
  <2>3. SecondFactorHolds'
    BY <1>0, <2>2 DEF FactorInv, SecondFactorHolds
  <2> QED
    BY <1>0, <1>5, <2>3 DEF link_guest_cases, End, FactorInv, EnrolledWhenOff, At, Idle
<1>6. ASSUME NEW p \in Proc, ProfileCommits(p) \/ CaseCommits(p)
      PROVE  FactorInv'
  <2>1. \A u \in User : users'[u].factor = users[u].factor
    BY <1>6, ProfileFactors DEF CaseCommits
  <2>2. \A q \in Proc : req'[q] = req[q] \/ req'[q].at # "enroll"
    BY <1>0, <1>6 DEF ProfileCommits, CaseCommits, End, Idle
  <2> QED
    BY <1>0, <2>1, <2>2, FactorFrame
<1>7. CASE AccountStep
  <2>1. ASSUME NEW u \in User, OtpExpires(u) \/ NonceExpires(u)
        PROVE  FactorInv'
    BY <1>0, <2>1, FactorFrame DEF OtpExpires, NonceExpires
  <2> QED
    BY <1>1, <1>2, <1>3, <1>4, <1>5, <1>6, <1>7, <2>1 DEF AccountStep, AccountNext, AccountGoes
<1>8. CASE OrgStep
  <2>1. \A q \in Proc : req'[q] = req[q] \/ req'[q].at # "enroll"
    BY <1>8, OrgMoves DEF OrgStep, Moves, OrgAt, Idle
  <2> QED
    BY <1>0, <1>8, <2>1, OrgFactors, FactorFrame DEF OrgStep
<1>9. CASE AgreementStep
  <2>1. \A q \in Proc : req'[q] = req[q] \/ req'[q].at # "enroll"
    BY <1>9, AgreementMoves DEF AgreementStep, Moves, AgreementAt, Answers, Idle
  <2> QED
    BY <1>0, <1>9, <2>1, AgreementKeeps, FactorFrame DEF accountVars
<1>10. CASE NoticeStep
  <2>1. \A q \in Proc : req'[q] = req[q] \/ req'[q].at # "enroll"
    BY <1>10, NoticeMoves DEF NoticeStep, Moves, NoticeAt, Idle
  <2> QED
    BY <1>0, <1>10, <2>1, NoticeKeeps, FactorFrame DEF accountVars
<1>11. ASSUME NEW p \in Proc, EraseStep(p)
       PROVE  FactorInv'
  <2>1. \A q \in Proc : req'[q] = req[q] \/ req'[q].at # "enroll"
    BY <1>11, EraseMoves DEF Moves, Idle
  <2> QED
    BY <1>0, <1>11, <2>1, EraseFactors, FactorFrame
<1>12. CASE EuipoStep \/ UNCHANGED vars
  BY <1>0, <1>12, FactorFrame DEF EuipoStep, OfEuipo, ClientVars, vars, accountVars
<1> QED
  BY <1>7, <1>8, <1>9, <1>10, <1>11, <1>12 DEF Next

\* Whoever signs in with a second factor is asked for the secret that was proved,
\* however enrollments, recoveries and the rest of the account's requests interleave.
THEOREM FactorHolds == Spec => []SecondFactorHolds
<1>1. Init => RecordsOK /\ NoncesOK /\ FactorInv
  BY RecordsStart, FactorStart
<1>2. RecordsOK /\ NoncesOK /\ FactorInv /\ [Next]_vars => (RecordsOK /\ NoncesOK /\ FactorInv)'
  BY RecordsKept, FactorKept
<1>3. FactorInv => SecondFactorHolds
  BY DEF FactorInv
<1> QED
  BY <1>1, <1>2, <1>3, PTL DEF Spec

-----------------------------------------------------------------------------
(* Answers and signatures are final.                                       *)

\* What the requests had read when they began, and who makes a signature's row.
ReadInTime ==
  \A p \in Proc : /\ At(p, "sent") => req[p].saw.st = "draft"
                  /\ At(p, "accepted") \/ At(p, "rejected") => req[p].saw.st = "sent"
                  /\ At(p, "outcome") => req[p].saw.st # "signed"
RowInMaking ==
  \A p \in Proc :
    /\ At(p, "call") => /\ rows[req[p].signature] = NoSignature
                        /\ \A q \in Proc : At(q, "call") /\ req[q].signature = req[p].signature => q = p
    /\ At(p, "outcome") => rows[req[p].signature].st # "none"
AgreementInv == ReadInTime /\ RowInMaking

LEMMA AgreementFrame ==
  ASSUME AgreementInv, UNCHANGED rows,
         \A p \in Proc : req'[p] = req[p]
                         \/ req'[p].at \notin {"sent", "accepted", "rejected", "outcome", "call"}
  PROVE  AgreementInv'
  BY DEF AgreementInv, ReadInTime, RowInMaking, At

LEMMA AgreementStart == Init => AgreementInv
  BY DEF Init, AccountInit, AgreementInv, ReadInTime, RowInMaking, At, Idle

LEMMA SignedIsFar == NoSignature.st = "none" /\ NoSignature.st # "signed"
  BY DEF NoSignature

\* What is begun.
LEMMA AgreementBegins ==
  ASSUME RecordsOK, AgreementInv, NEW p \in Proc, AgreementStarts(p)
  PROVE  AgreementInv'
<1>0. req = [q \in Proc |-> req[q]]
  BY DEF RecordsOK, RequestsOK
<1>1. CASE generate_proposal(p)
  BY <1>0, <1>1, AgreementFrame DEF generate_proposal, Request, Begin, agreementVars
<1>2. CASE send_proposal(p) \/ respond_to_proposal(p)
  <2>1. /\ \A q \in Proc \ {p} : req'[q] = req[q]
        /\ req'[p].at \in {"sent"} \cup Answers
        /\ req'[p].at = "sent" => req'[p].saw.st = "draft"
        /\ req'[p].at \in Answers => req'[p].saw.st = "sent"
    BY <1>0, <1>2 DEF send_proposal, respond_to_proposal, Sendable, Reads, Begin, Answers
  <2> QED
    BY <1>2, <2>1 DEF send_proposal, respond_to_proposal, agreementVars, AgreementInv, ReadInTime,
       RowInMaking, At, Answers
<1>3. CASE create_signature_request(p)
  <2>1. PICK k \in Signature :
          /\ \A q \in Proc : ~(Serves(q, "sign") /\ req[q].signature = k)
          /\ rows[k] = NoSignature
          /\ Begin(p, {"agreement"}, [at |-> "call", op |-> "sign", signature |-> k, done |-> 0])
    BY <1>3 DEF create_signature_request
  <2>2. (\A q \in Proc \ {p} : req'[q] = req[q]) /\ req'[p].at = "call" /\ req'[p].signature = k
    BY <1>0, <2>1 DEF Begin
  <2>3. \A q \in Proc : At(q, "call") => req[q].signature # k
    BY <2>1, AtOther DEF RecordsOK, SignatureRequest, At, Serves
  <2> QED
    BY <1>3, <2>1, <2>2, <2>3 DEF create_signature_request, agreementVars, AgreementInv, ReadInTime,
       RowInMaking, At
<1>4. CASE \E k \in Signature : yousign_webhook(p, k)
  BY <1>0, <1>4, AgreementFrame DEF yousign_webhook, agreementVars
<1> QED
  BY <1>1, <1>2, <1>3, <1>4 DEF AgreementStarts

\* What goes on.
LEMMA AgreementGoesOn ==
  ASSUME RecordsOK, AgreementInv, NEW p \in Proc, AgreementGoes(p)
  PROVE  AgreementInv'
<1> USE DEF RecordsOK
<1>0. req = [q \in Proc |-> req[q]] /\ rows = [k \in Signature |-> rows[k]]
  BY DEF RequestsOK, AgreementsOK
<1>1. CASE ProviderCall(p)
  <2>1. SignatureRequest(req[p]) /\ req[p].at = "call"
    BY <1>1, AtOther DEF ProviderCall, At
  <2>2. [req[p] EXCEPT !.done = @ + 1].at = "call"
        /\ [req[p] EXCEPT !.done = @ + 1].signature = req[p].signature
    BY <2>1 DEF SignatureRequest
  <2>3. req' = [req EXCEPT ![p] = [req[p] EXCEPT !.done = @ + 1]]
    BY <1>1 DEF ProviderCall
  <2>4. (\A q \in Proc \ {p} : req'[q] = req[q]) /\ req'[p].at = "call" /\ req'[p].signature = req[p].signature
    BY <1>0, <2>2, <2>3
  <2> QED
    BY <1>1, <2>1, <2>4 DEF ProviderCall, AgreementInv, ReadInTime, RowInMaking, At
<1>2. CASE ProviderRefuses(p) \/ SignatureCommits(p)
  <2>1. At(p, "call") /\ req[p].signature \in Signature
    BY <1>2, AtOther DEF ProviderRefuses, SignatureCommits, SignatureRequest, At
  <2>2. PICK st \in {"error", "ongoing"} : Keep(p, st)
    BY <1>2 DEF ProviderRefuses, SignatureCommits
  <2>3. (\A k \in Signature \ {req[p].signature} : rows'[k] = rows[k]) /\ rows'[req[p].signature].st # "none"
    BY <1>0, <2>1, <2>2 DEF Keep, NoSignature
  <2>4. (\A q \in Proc \ {p} : req'[q] = req[q]) /\ req'[p].at = "idle"
    BY <1>0, <1>2 DEF ProviderRefuses, SignatureCommits, End, Idle
  <2>5. \A q \in Proc : At(q, "call") \/ At(q, "outcome") => req[q].signature \in Signature
    BY AtOther DEF SignatureRequest, At
  <2>6. ReadInTime'
    BY <2>4 DEF AgreementInv, ReadInTime, At
  <2>7. ASSUME NEW q \in Proc, At(q, "call")'
        PROVE  /\ q # p /\ req[q].signature \in Signature \ {req[p].signature}
               /\ rows[req[q].signature] = NoSignature
    BY <2>1, <2>4, <2>5, <2>7 DEF AgreementInv, RowInMaking, At
  <2>8. ASSUME NEW q \in Proc, At(q, "outcome")'
        PROVE  q # p /\ rows[req[q].signature].st # "none" /\ req[q].signature \in Signature
    BY <2>4, <2>5, <2>8 DEF AgreementInv, RowInMaking, At
  <2> QED
    BY <2>3, <2>4, <2>6, <2>7, <2>8 DEF AgreementInv, RowInMaking, At
<1>3. CASE handle_webhook(p)
  <2>1. SignatureRequest(req[p])
    BY <1>3, AtOther DEF handle_webhook, At
  <2>2. \/ (\A q \in Proc \ {p} : req'[q] = req[q]) /\ req'[p].at = "idle"
        \/ /\ \A q \in Proc \ {p} : req'[q] = req[q]
           /\ req'[p] = [at |-> "outcome", op |-> "hook", signature |-> req[p].signature,
                         saw |-> rows[req[p].signature]]
           /\ rows[req[p].signature].st \notin {"none", "signed"}
    BY <1>0, <1>3 DEF handle_webhook, Answered, End, Idle, Settled
  <2> QED
    BY <1>3, <2>2 DEF handle_webhook, AgreementInv, ReadInTime, RowInMaking, At
<1>4. CASE HookCommits(p)
  <2>1. req[p].signature \in Signature /\ At(p, "outcome") /\ provider[req[p].signature].outcome # "open"
    BY <1>4, AtOther DEF HookCommits, SignatureRequest, At, HooksOK
  <2>2. /\ \A k \in Signature \ {req[p].signature} : rows'[k] = rows[k]
        /\ rows'[req[p].signature].st # "none"
    <3>1. PICK d : rows' = [rows EXCEPT ![req[p].signature] =
                     [rows[req[p].signature] EXCEPT !.st = provider[req[p].signature].outcome,
                                                    !.document = d]]
      BY <1>4 DEF HookCommits
    <3>2. provider[req[p].signature].outcome \in Outcomes
      BY <2>1 DEF AgreementsOK
    <3>3. "none" \notin Outcomes
      BY DEF Outcomes
    <3> QED
      BY <2>1, <3>1, <3>2, <3>3 DEF AgreementsOK, SignatureRow
  <2>3. rows[req[p].signature].st # "none"
    BY <2>1 DEF AgreementInv, RowInMaking
  <2>4. (\A q \in Proc \ {p} : req'[q] = req[q]) /\ req'[p].at = "idle"
    BY <1>0, <1>4 DEF HookCommits, Answered, End, Idle
  <2>5. \A q \in Proc : At(q, "call") \/ At(q, "outcome") => req[q].signature \in Signature
    BY AtOther DEF SignatureRequest, At
  <2>6. ReadInTime'
    BY <2>4 DEF AgreementInv, ReadInTime, At
  <2>7. ASSUME NEW q \in Proc, At(q, "call")'
        PROVE  /\ q # p /\ req[q].signature \in Signature \ {req[p].signature}
               /\ rows[req[q].signature] = NoSignature
    BY <2>3, <2>4, <2>5, <2>7, SignedIsFar DEF AgreementInv, RowInMaking, At
  <2>8. ASSUME NEW q \in Proc, At(q, "outcome")'
        PROVE  q # p /\ rows[req[q].signature].st # "none" /\ req[q].signature \in Signature
    BY <2>4, <2>5, <2>8 DEF AgreementInv, RowInMaking, At
  <2> QED
    BY <2>2, <2>4, <2>6, <2>7, <2>8 DEF AgreementInv, RowInMaking, At
<1>5. CASE ProposalCommits(p) \/ StatusCommits(p) \/ SignatureFails(p) \/ HookFails(p)
  BY <1>0, <1>5, AgreementFrame DEF ProposalCommits, StatusCommits, SignatureFails, HookFails, End, Idle,
     signatureVars, agreementVars
<1> QED
  BY <1>1, <1>2, <1>3, <1>4, <1>5 DEF AgreementGoes

LEMMA AgreementKept == RecordsOK /\ AgreementInv /\ [Next]_vars => AgreementInv'
<1> SUFFICES ASSUME RecordsOK, AgreementInv, [Next]_vars
             PROVE  AgreementInv'
  OBVIOUS
<1> USE DEF RecordsOK
<1>1. CASE AccountStep
  BY <1>1, AccountMoves, AgreementFrame DEF AccountStep, Moves, AccountAt, Idle, agreementVars
<1>2. CASE OrgStep
  BY <1>2, OrgMoves, AgreementFrame DEF OrgStep, Moves, OrgAt, Idle, agreementVars
<1>3. CASE NoticeStep
  BY <1>3, NoticeMoves, AgreementFrame DEF NoticeStep, Moves, NoticeAt, Idle, agreementVars
<1>4. ASSUME NEW p \in Proc, EraseStep(p)
      PROVE  AgreementInv'
  <2>1. UNCHANGED rows
    BY <1>4 DEF EraseStep, EraseRecords, EraseCommits, agreementVars, signatureVars
  <2>2. Moves({"tombstone"})
    BY <1>4, EraseMoves
  <2> QED
    BY <2>1, <2>2, AgreementFrame DEF Moves, Idle
<1>5. CASE EuipoStep \/ UNCHANGED vars
  BY <1>5, AgreementFrame DEF EuipoStep, OfEuipo, ClientVars, vars, agreementVars
<1>6. CASE AgreementStep
  <2>1. ASSUME NEW k \in Signature, NEW o \in Outcomes, Decide(k, o)
        PROVE  AgreementInv'
    BY <2>1, AgreementFrame DEF Decide
  <2> QED
    BY <1>6, <2>1, AgreementBegins, AgreementGoesOn DEF AgreementStep, AgreementNext
<1> QED
  BY <1>1, <1>2, <1>3, <1>4, <1>5, <1>6 DEF Next

\* The step that OutcomeStands speaks of.
LEMMA OutcomeStep ==
  ASSUME RecordsOK, AgreementInv, [Next]_vars
  PROVE  /\ \A k \in Proposal :
              proposals[k].st \in Answers /\ <<"proposal", k>> \notin crossed' =>
                proposals'[k].st \in {proposals[k].st, "deleted"}
         /\ \A k \in Signature :
              rows[k].st = "signed" /\ <<"signature", k>> \notin crossed' =>
                rows'[k] = rows[k] /\ stored'[k] = stored[k]
<1> USE DEF RecordsOK
<1>1. ASSUME NEW p \in Proc, StatusCommits(p), NEW k \in Proposal,
             proposals[k].st \in Answers, <<"proposal", k>> \notin crossed'
      PROVE  proposals'[k] = proposals[k]
  <2>1. ProposalRequest(req[p])
    BY <1>1, AtOther DEF StatusCommits, At
  <2>2. CASE k # req[p].proposal
    BY <1>1, <2>1, <2>2 DEF StatusCommits, AgreementsOK
  <2>3. CASE k = req[p].proposal
    <3>1. req[p].saw.st \in {"draft", "sent"}
      BY <1>1 DEF StatusCommits, AgreementInv, ReadInTime, At, Answers
    <3>2. proposals[k] # req[p].saw
      BY <1>1, <3>1 DEF Answers
    <3> QED
      BY <1>1, <2>3, <3>2 DEF StatusCommits, Cross, Answers
  <2> QED
    BY <2>2, <2>3
<1>2. ASSUME NEW p \in Proc, ProposalCommits(p), NEW k \in Proposal, proposals[k].st \in Answers
      PROVE  proposals'[k] = proposals[k]
  BY <1>2 DEF ProposalCommits, AgreementsOK, Answers
<1>3. ASSUME NEW p \in Proc, EraseStep(p), NEW k \in Proposal
      PROVE  proposals'[k] = proposals[k] \/ proposals'[k].st = "deleted"
  BY <1>3 DEF EraseStep, EraseRecords, EraseCommits, EraseProposals, NoProposal, agreementVars
<1>4. UNCHANGED proposals \/ \E p \in Proc : ProposalCommits(p) \/ StatusCommits(p) \/ EraseStep(p)
  BY DEF Next, AccountStep, OrgStep, NoticeStep, AgreementStep, EuipoStep, OfEuipo, ClientVars, vars,
     agreementVars, AgreementNext, AgreementStarts, AgreementGoes, generate_proposal, send_proposal,
     respond_to_proposal, create_signature_request, yousign_webhook, ProviderCall, ProviderRefuses,
     SignatureFails, SignatureCommits, handle_webhook, HookCommits, HookFails, Decide
<1>5. ASSUME NEW p \in Proc, HookCommits(p), NEW k \in Signature,
             rows[k].st = "signed", <<"signature", k>> \notin crossed'
      PROVE  rows'[k] = rows[k] /\ stored'[k] = stored[k]
  <2>1. SignatureRequest(req[p])
    BY <1>5, AtOther DEF HookCommits, At
  <2>2. k # req[p].signature
    BY <1>5 DEF HookCommits, AgreementInv, ReadInTime, Cross
  <2> QED
    BY <1>5, <2>1, <2>2 DEF HookCommits, AgreementsOK
<1>6. ASSUME NEW p \in Proc, ProviderRefuses(p) \/ SignatureCommits(p), NEW k \in Signature,
             rows[k].st = "signed"
      PROVE  rows'[k] = rows[k] /\ stored'[k] = stored[k]
  <2>1. SignatureRequest(req[p]) /\ rows[req[p].signature] = NoSignature
    BY <1>6, AtOther DEF ProviderRefuses, SignatureCommits, At, AgreementInv, RowInMaking
  <2>2. k # req[p].signature
    BY <1>6, <2>1, SignedIsFar
  <2> QED
    BY <1>6, <2>1, <2>2 DEF ProviderRefuses, SignatureCommits, Keep, AgreementsOK
<1>7. \/ UNCHANGED <<rows, stored>>
      \/ \E p \in Proc : HookCommits(p) \/ ProviderRefuses(p) \/ SignatureCommits(p)
  BY DEF Next, AccountStep, OrgStep, NoticeStep, AgreementStep, EuipoStep, OfEuipo, ClientVars, vars,
     agreementVars, signatureVars, AgreementNext, AgreementStarts, AgreementGoes, generate_proposal,
     send_proposal, respond_to_proposal, create_signature_request, yousign_webhook, ProposalCommits,
     StatusCommits, ProviderCall, SignatureFails, handle_webhook, HookFails, Decide,
     EraseStep, EraseRecords, EraseCommits
<1> QED
  BY <1>1, <1>2, <1>3, <1>4, <1>5, <1>6, <1>7

\* The answer to a proposal, a signature and the signed document stand, whatever
\* other requests, webhooks and erasures do, unless a write crossed another one.
THEOREM AnswersStand == Spec => OutcomeStands
<1>1. Init => RecordsOK /\ NoncesOK /\ AgreementInv
  BY RecordsStart, AgreementStart
<1>2. RecordsOK /\ NoncesOK /\ AgreementInv /\ [Next]_vars => (RecordsOK /\ NoncesOK /\ AgreementInv)'
  BY RecordsKept, AgreementKept
<1>3. RecordsOK /\ AgreementInv /\ [Next]_vars =>
        [/\ \A k \in Proposal :
              proposals[k].st \in Answers /\ <<"proposal", k>> \notin crossed' =>
                proposals'[k].st \in {proposals[k].st, "deleted"}
         /\ \A k \in Signature :
              rows[k].st = "signed" /\ <<"signature", k>> \notin crossed' =>
                rows'[k] = rows[k] /\ stored'[k] = stored[k]]_vars
  BY OutcomeStep
<1> QED
  BY <1>1, <1>2, <1>3, PTL DEF Spec, OutcomeStands

-----------------------------------------------------------------------------
(* What may be taken once is taken once.                                   *)

\* A guest's case has a client once it was taken; it is found without one.
CasesTaken ==
  /\ \A c \in Case : <<"case", c>> \in spent => cases[c].client # NoUser /\ cases[c].st # "none"
  /\ \A p \in Proc : At(p, "link") =>
       \A x \in req[p].arg : x[1] \in Case /\ x[2].client = NoUser /\ cases[x[1]].st # "none"

\* A challenge that was signed is nobody's any more.
NoncesTaken ==
  /\ \A u, v \in User : \A n \in nonce[u] :
       <<"nonce", n>> \notin spent /\ (n \in nonce[v] => u = v)
  /\ \A n \in Nat : <<"nonce", n>> \in spent => n <= used.requests

\* An invite that was taken is accepted or revoked; it was neither when it was read.
InvitesTaken ==
  /\ \A i \in Invite : <<"invite", i>> \in spent => invites[i].accepted \/ invites[i].revoked
  /\ \A p \in Proc : /\ At(p, "accept") => \A x \in req[p].arg : ~x[2].accepted /\ ~x[2].revoked
                     /\ At(p, "revoke") => \A x \in req[p].arg : ~x[2].accepted

\* A list of recovery codes is numbered by the request that enables them, and a code
\* that was taken is in no list, unless two requests had read it.
Older(n) == n \in 0..used.requests /\ \A p \in Proc : At(p, "enable") => n \notin req[p].arg
TakesCode(p) == At(p, "disable") \/ At(p, "recover")
CodesTaken ==
  /\ \A u \in User : \A c \in users[u].factor.codes :
       Older(c[1]) /\ (<<"code", u, c>> \in spent => <<"code", u, c>> \in crossed)
  /\ \A u \in User, n \in Nat, i \in {1, 2} : <<"code", u, <<n, i>>>> \in spent => Older(n)
  /\ \A p \in Proc :
       /\ TakesCode(p) =>
            req[p].arg \subseteq req[p].saw.factor.codes /\ \A c \in req[p].saw.factor.codes : Older(c[1])
       /\ At(p, "enable") =>
            /\ req[p].arg \subseteq 1..used.requests
            /\ \A q \in Proc : At(q, "enable") /\ req[p].arg \cap req[q].arg # {} => p = q

TakenInv == TakenOnce /\ CasesTaken /\ NoncesTaken /\ InvitesTaken /\ CodesTaken

\* Who takes what.
LEMMA WhoTakes ==
  ASSUME [Next]_vars
  PROVE  \/ UNCHANGED <<spent, again>>
         \/ \E p \in Proc : \/ link_guest_cases(p) \/ verify_wallet_signature(p) \/ FactorCommits(p)
                            \/ AcceptCommits(p) \/ RevokeCommits(p)
<1>1. ASSUME NEW p \in Proc, AccountStarts(p), ~verify_wallet_signature(p)
      PROVE  UNCHANGED <<spent, again>>
  BY <1>1, CaseWritten DEF AccountStarts, register, register_request, register_verify,
      request_wallet_nonce, begin_enrollment, enable, disable,
      verify_second_factor, update_user, upload_my_avatar, delete_my_avatar, update_by_admin,
      create_case, erase_user, history
<1>2. ASSUME NEW p \in Proc, create_user(p) \/ authenticate_or_create(p) \/ ProfileCommits(p) \/ CaseCommits(p)
      PROVE  UNCHANGED <<spent, again>>
  BY <1>2 DEF create_user, authenticate_or_create, ProfileCommits, CaseCommits, history
<1>3. ASSUME NEW p \in Proc, OrgStarts(p) \/ OrganizationCommits(p) \/ SwitchCommits(p) \/ InviteCommits(p)
      PROVE  UNCHANGED <<spent, again>>
  BY <1>3 DEF OrgStarts, create_organization, switch_default_organization,
      create_invite, accept_invite, revoke_invite, OrganizationCommits, SwitchCommits,
      InviteCommits, history
<1>4. ASSUME NEW p \in Proc, AgreementStarts(p) \/ AgreementGoes(p)
      PROVE  UNCHANGED <<spent, again>>
  BY <1>4 DEF AgreementStarts, AgreementGoes, generate_proposal, send_proposal,
      respond_to_proposal, create_signature_request, yousign_webhook, ProposalCommits, StatusCommits,
      ProviderCall, ProviderRefuses, SignatureFails, SignatureCommits, handle_webhook, HookCommits,
      HookFails, history
<1>5. ASSUME NEW p \in Proc, NoticeStarts(p) \/ NoticeGoes(p)
      PROVE  UNCHANGED <<spent, again>>
  BY <1>5 DEF NoticeStarts, NoticeGoes, create_notification, update_notification,
      process_notifications, NoticeCommits, UpdateCommits, get_pending_notifications, Send,
      Mark, Again, ProcessCommits, ProcessFails, history
<1>6. ASSUME NEW p \in Proc, EraseStep(p)
      PROVE  UNCHANGED <<spent, again>>
  BY <1>6 DEF EraseStep, EraseRecords, EraseCommits, EraseAccount, history
<1>7. \/ \E u \in User : OtpExpires(u) \/ NonceExpires(u)
      \/ \E i \in Invite : InviteExpires(i)
      \/ \E k \in Signature, o \in Outcomes : Decide(k, o)
      \/ \E n \in Notice : Due(n)
      \/ EuipoStep \/ UNCHANGED vars
      => UNCHANGED <<spent, again>>
  BY DEF OtpExpires, NonceExpires, InviteExpires, Decide, Due, EuipoStep, OfEuipo, ClientVars, vars, history
<1>8. CASE AccountStep
  BY <1>1, <1>2, <1>7, <1>8 DEF AccountStep, AccountNext, AccountGoes
<1>9. CASE OrgStep
  BY <1>3, <1>7, <1>9 DEF OrgStep, OrgNext, OrgGoes
<1>10. CASE AgreementStep \/ NoticeStep
  BY <1>4, <1>5, <1>7, <1>10 DEF AgreementStep, AgreementNext, NoticeStep, NoticeNext
<1> QED
  BY <1>6, <1>7, <1>8, <1>9, <1>10 DEF Next

LEMMA SpentTags ==
  ASSUME [Next]_vars
  PROVE  /\ (\E p \in Proc : link_guest_cases(p))
            \/ \A c : <<"case", c>> \in spent' => <<"case", c>> \in spent
         /\ (\E p \in Proc : verify_wallet_signature(p))
            \/ \A n : <<"nonce", n>> \in spent' => <<"nonce", n>> \in spent
         /\ (\E p \in Proc : FactorCommits(p))
            \/ \A u, c : <<"code", u, c>> \in spent' => <<"code", u, c>> \in spent
         /\ (\E p \in Proc : AcceptCommits(p) \/ RevokeCommits(p))
            \/ \A i : <<"invite", i>> \in spent' => <<"invite", i>> \in spent
<1>1. ASSUME NEW p \in Proc, link_guest_cases(p)
      PROVE  \A x : x \in spent' => x \in spent \/ \E c : x = <<"case", c>>
  <2>1. UNCHANGED spent \/ \E found : Take({<<"case", c>> : c \in found})
    BY <1>1 DEF link_guest_cases, history
  <2> QED
    BY <2>1 DEF Take
<1>2. ASSUME NEW p \in Proc, verify_wallet_signature(p)
      PROVE  \A x : x \in spent' => x \in spent \/ \E n : x = <<"nonce", n>>
  BY <1>2 DEF verify_wallet_signature, Take
<1>3. ASSUME NEW p \in Proc, FactorCommits(p)
      PROVE  \A x : x \in spent' => x \in spent \/ \E u, c : x = <<"code", u, c>>
  BY <1>3 DEF FactorCommits, Take
<1>4. ASSUME NEW p \in Proc, AcceptCommits(p) \/ RevokeCommits(p)
      PROVE  \A x : x \in spent' => x \in spent \/ \E i : x = <<"invite", i>>
  <2>1. AcceptCommits(p) => UNCHANGED spent \/ \E i : Take({<<"invite", i>>})
    BY DEF AcceptCommits, history
  <2>2. RevokeCommits(p) => UNCHANGED spent \/ \E i : Take({<<"invite", i>>})
    BY DEF RevokeCommits, history
  <2> QED
    BY <1>4, <2>1, <2>2 DEF Take
<1>5. \A c, n, i, u, d : /\ <<"case", c>> # <<"nonce", n>> /\ <<"case", c>> # <<"invite", i>>
                         /\ <<"nonce", n>> # <<"invite", i>> /\ <<"case", c>> # <<"code", u, d>>
                         /\ <<"nonce", n>> # <<"code", u, d>> /\ <<"invite", i>> # <<"code", u, d>>
  OBVIOUS
<1> QED
  BY <1>1, <1>2, <1>3, <1>4, <1>5, WhoTakes

LEMMA GuestsHaveNoClient ==
  \A u \in User : \A x \in Guests(u) : x[1] \in Case /\ x[2].client = NoUser /\ cases[x[1]].st # "none"
  BY DEF Guests

LEMMA CasesTakenKept ==
  ASSUME RecordsOK, CasesTaken, [Next]_vars
  PROVE  CasesTaken'
<1> USE DEF RecordsOK
<1>0. req = [p \in Proc |-> req[p]]
  BY DEF RequestsOK
<1> DEFINE Kept(c) == cases[c].st = "none"
                      \/ (cases'[c].st # "none" /\ cases'[c].client \in {cases[c].client} \cup User)
           OfGuest(x) == x[1] \in Case /\ x[2].client = NoUser /\ cases[x[1]].st # "none"
<1>1. ASSUME \A c \in Case : Kept(c),
             \A c \in Case : <<"case", c>> \in spent' =>
                <<"case", c>> \in spent \/ (cases'[c].client # NoUser /\ cases'[c].st # "none"),
             \A p \in Proc : req'[p] = req[p] \/ req'[p].at # "link" \/ \A x \in req'[p].arg : OfGuest(x)
      PROVE  CasesTaken'
  <2>1. \A c \in Case : <<"case", c>> \in spent' => cases'[c].client # NoUser /\ cases'[c].st # "none"
    BY <1>1, NoUserAssumption DEF CasesTaken
  <2>2. \A p \in Proc : At(p, "link")' => \A x \in req'[p].arg : OfGuest(x)
    BY <1>1 DEF CasesTaken, At
  <2>3. \A p \in Proc : At(p, "link")' =>
          \A x \in req'[p].arg : x[1] \in Case /\ x[2].client = NoUser /\ cases'[x[1]].st # "none"
    BY <1>1, <2>2
  <2> QED
    BY <2>1, <2>3 DEF CasesTaken
<1>2. ASSUME NEW p \in Proc, link_guest_cases(p)
      PROVE  CasesTaken'
  <2>1. UserRequest(req[p]) /\ req[p].user \in User /\ req[p].arg \subseteq Case \X CaseRow
    BY <1>2, AtUser DEF link_guest_cases, At, UserRequest, ArgOK
  <2> DEFINE found == {x[1] : x \in req[p].arg}
  <2>2. \/ UNCHANGED <<cases, spent>>
        \/ /\ cases' = [c \in Case |-> IF c \in found THEN [cases[c] EXCEPT !.client = req[p].user] ELSE cases[c]]
           /\ spent' = spent \cup {<<"case", c>> : c \in found}
    BY <1>2 DEF link_guest_cases, Take, history
  <2>3. \A c \in found : cases[c].st # "none"
    BY <1>2 DEF CasesTaken, link_guest_cases
  <2> HIDE DEF found
  <2>4. \A c \in Case : /\ [cases[c] EXCEPT !.client = req[p].user].client = req[p].user
                         /\ [cases[c] EXCEPT !.client = req[p].user].st = cases[c].st
    BY DEF AccountsOK, CaseRow
  <2>5. \A c : <<"case", c>> \in {<<"case", d>> : d \in found} => c \in found
    OBVIOUS
  <2>6. \A q \in Proc : req'[q] = req[q] \/ req'[q].at # "link"
    BY <1>0, <1>2 DEF link_guest_cases, End, Idle
  <2>7. \A c \in Case : Kept(c)
    BY <2>1, <2>2, <2>4
  <2>8. \A c \in Case : <<"case", c>> \in spent' =>
           <<"case", c>> \in spent \/ (cases'[c].client # NoUser /\ cases'[c].st # "none")
    BY <2>1, <2>2, <2>3, <2>4, <2>5, NoUserAssumption
  <2> QED
    BY <1>1, <2>6, <2>7, <2>8
<1>3. ASSUME AccountStep, \A p \in Proc : ~link_guest_cases(p)
      PROVE  CasesTaken'
  <2>1. \A c : <<"case", c>> \in spent' => <<"case", c>> \in spent
    BY <1>3, SpentTags
  <2>2. ASSUME NEW p \in Proc, create_case(p) \/ AccountStarts(p) \/ create_user(p) \/ authenticate_or_create(p)
                               \/ FactorCommits(p) \/ ProfileCommits(p),
               ~WriteCase(p)
        PROVE  UNCHANGED cases
    BY <2>2 DEF AccountStarts, register, register_request, register_verify, request_wallet_nonce,
      verify_wallet_signature, begin_enrollment, enable, disable, verify_second_factor, update_user,
      upload_my_avatar, delete_my_avatar, update_by_admin, create_case, erase_user, create_user,
      authenticate_or_create, FactorCommits, ProfileCommits, accountVars
  <2>3. ASSUME NEW p \in Proc, WriteCase(p) \/ CaseCommits(p)
        PROVE  \A c \in Case : Kept(c)
    <3>1. CASE WriteCase(p)
      BY <3>1, CaseWrites DEF AccountsOK
    <3>2. CASE CaseCommits(p)
      BY <3>2 DEF CaseCommits, Inserted, NewCase, AccountsOK
    <3> QED
      BY <2>3, <3>1, <3>2
  <2>4. \A c \in Case : Kept(c)
    BY <1>3, <2>2, <2>3 DEF AccountStep, AccountNext, AccountGoes, OtpExpires, NonceExpires
  <2>5. \A q \in Proc : req'[q] = req[q] \/ req'[q].at # "link" \/ \A x \in req'[q].arg : OfGuest(x)
    <3>1. ASSUME NEW p \in Proc, AccountStarts(p)
          PROVE  \A q \in Proc : req'[q] = req[q] \/ req'[q].at # "link"
      BY <3>1, AccountStartsAt
    <3>2. ASSUME NEW p \in Proc, AccountGoes(p)
          PROVE  \A q \in Proc : req'[q] = req[q] \/ req'[q].at # "link" \/ \A x \in req'[q].arg : OfGuest(x)
      <4>1. create_user(p) => req[p].user \in User
        BY AtUser DEF create_user, At, UserRequest
      <4> QED
        BY <3>2, <4>1, AccountGoesAt, GuestsHaveNoClient
    <3>3. ASSUME NEW u \in User, OtpExpires(u) \/ NonceExpires(u)
          PROVE  UNCHANGED req
      BY <3>3 DEF OtpExpires, NonceExpires
    <3> QED
      BY <1>3, <3>1, <3>2, <3>3 DEF AccountStep, AccountNext
  <2> QED
    BY <1>1, <2>1, <2>4, <2>5
<1>4. ASSUME UNCHANGED cases, NEW at, Moves(at), "link" \notin at
      PROVE  CasesTaken'
  <2>1. \A q \in Proc : req'[q] = req[q] \/ req'[q].at # "link"
    BY <1>4 DEF Moves, Idle
  <2>2. (\E p \in Proc : link_guest_cases(p)) \/ \A c : <<"case", c>> \in spent' => <<"case", c>> \in spent
    BY SpentTags
  <2> QED
    BY <1>1, <1>2, <1>4, <2>1, <2>2
<1>5. CASE OrgStep
  <2>1. UNCHANGED cases
    BY <1>5, OrgKeeps
  <2> QED
    BY <1>4, <1>5, <2>1, OrgMoves DEF OrgStep, OrgAt
<1>6. CASE AgreementStep
  <2>1. UNCHANGED cases
    BY <1>6, AgreementKeeps DEF accountVars
  <2> QED
    BY <1>4, <1>6, <2>1, AgreementMoves DEF AgreementStep, AgreementAt, Answers
<1>7. CASE NoticeStep
  <2>1. UNCHANGED cases
    BY <1>7, NoticeKeeps DEF accountVars
  <2> QED
    BY <1>4, <1>7, <2>1, NoticeMoves DEF NoticeStep, NoticeAt
<1>8. ASSUME NEW p \in Proc, EraseStep(p)
      PROVE  CasesTaken'
  <2>1. UNCHANGED cases
    BY <1>8, EraseKeeps
  <2>2. Moves({"tombstone"})
    BY <1>8, EraseMoves
  <2> QED
    BY <1>4, <2>1, <2>2
<1>9. CASE EuipoStep \/ UNCHANGED vars
  BY <1>9 DEF EuipoStep, OfEuipo, ClientVars, vars, accountVars, history, CasesTaken, At
<1> QED
  BY <1>2, <1>3, <1>5, <1>6, <1>7, <1>8, <1>9 DEF Next

LEMMA NoncesTakenKept ==
  ASSUME RecordsOK, UsedOK', NoncesOK, Counts, NoncesTaken, [Next]_vars
  PROVE  NoncesTaken'
<1> USE DEF RecordsOK
<1>1. /\ used.requests \in Nat /\ used'.requests \in Nat /\ used.requests <= used'.requests
      /\ \A n \in Nat : <<"nonce", n>> \in spent => n <= used.requests
      /\ \A u \in User : \A n \in nonce[u] : n \in Nat /\ n <= used.requests
  BY RequestBounds DEF UsedOK, Counts, NoncesOK, NoncesTaken
<1>2. ASSUME \A u \in User : nonce'[u] = nonce[u] \/ nonce'[u] = {},
             \A n : <<"nonce", n>> \in spent' => <<"nonce", n>> \in spent
      PROVE  NoncesTaken'
  <2>1. \A u \in User : nonce'[u] \subseteq nonce[u]
    BY <1>2
  <2>2. \A n \in Nat : <<"nonce", n>> \in spent' => n <= used'.requests
    BY <1>1, <1>2
  <2> QED
    BY <1>2, <2>1, <2>2 DEF NoncesTaken
<1>3. ASSUME NEW p \in Proc, verify_wallet_signature(p)
      PROVE  NoncesTaken'
  <2>1. PICK u \in WalletUser, n \in 1..MaxRequests :
          /\ nonce' = [nonce EXCEPT ![u] = {}]
          /\ IF n \in nonce[u] THEN spent' = spent \cup {<<"nonce", n>>} ELSE spent' = spent
    BY <1>3 DEF verify_wallet_signature, consume_cached_nonce, verify_signature, Take
  <2>2. u \in User
    BY NoUserAssumption
  <2>3. nonce'[u] = {} /\ \A v \in User \ {u} : nonce'[v] = nonce[v]
    BY <2>1, <2>2 DEF AccountsOK
  <2>4. \A m : <<"nonce", m>> \in spent' => <<"nonce", m>> \in spent \/ (m = n /\ n \in nonce[u])
    BY <2>1
  <2>5. \A m \in Nat : <<"nonce", m>> \in spent' => m <= used'.requests
    BY <1>1, <2>2, <2>4
  <2>6. \A v \in User : \A m \in nonce'[v] : m \in nonce[v] /\ v # u
    BY <2>3
  <2>7. \A v \in User : \A m \in nonce'[v] : <<"nonce", m>> \notin spent'
    <3> SUFFICES ASSUME NEW v \in User, NEW m \in nonce'[v]
                 PROVE  <<"nonce", m>> \notin spent'
      OBVIOUS
    <3>1. m \in nonce[v] /\ v # u
      BY <2>6
    <3>2. <<"nonce", m>> \notin spent
      BY <3>1 DEF NoncesTaken
    <3>3. m \notin nonce[u]
      BY <2>2, <3>1 DEF NoncesTaken
    <3> QED
      BY <2>4, <3>2, <3>3
  <2> QED
    BY <2>5, <2>6, <2>7 DEF NoncesTaken
<1>4. CASE ~\E p \in Proc : verify_wallet_signature(p)
  <2>1. \A n : <<"nonce", n>> \in spent' => <<"nonce", n>> \in spent
    BY <1>4, SpentTags
  <2>2. ASSUME NEW p \in Proc, request_wallet_nonce(p)
        PROVE  NoncesTaken'
    <3>1. PICK u \in WalletUser : nonce' = [nonce EXCEPT ![u] = {Number}]
      BY <2>2 DEF request_wallet_nonce, generate_nonce
    <3>2. u \in User /\ Number \in Nat /\ Number > used.requests
      BY <1>1, NoUserAssumption DEF Number
    <3>3. nonce'[u] = {Number} /\ \A v \in User \ {u} : nonce'[v] = nonce[v]
      BY <3>1, <3>2 DEF AccountsOK
    <3>4. <<"nonce", Number>> \notin spent /\ \A v \in User : Number \notin nonce[v]
      BY <1>1, <3>2
    <3>5. \A v \in User : \A n \in nonce'[v] : <<"nonce", n>> \notin spent'
      BY <2>1, <3>3, <3>4 DEF NoncesTaken
    <3>6. \A v, w \in User : \A n \in nonce'[v] : n \in nonce'[w] => v = w
      <4>1. \A v \in User : nonce'[v] = nonce[v] \/ (v = u /\ nonce'[v] = {Number})
        BY <3>3
      <4>2. \A v \in User \ {u} : Number \notin nonce'[v]
        BY <3>3, <3>4
      <4>3. \A v, w \in User \ {u} : \A n \in nonce'[v] : n \in nonce'[w] => v = w
        BY <3>3 DEF NoncesTaken
      <4> QED
        BY <3>3, <4>2, <4>3
    <3>7. \A n \in Nat : <<"nonce", n>> \in spent' => n <= used'.requests
      BY <1>1, <2>1
    <3> QED
      BY <3>5, <3>6, <3>7 DEF NoncesTaken
  <2>3. ASSUME NEW u \in User, NonceExpires(u)
        PROVE  NoncesTaken'
    BY <1>2, <2>1, <2>3 DEF NonceExpires, AccountsOK
  <2>4. CASE UNCHANGED nonce
    BY <1>2, <2>1, <2>4
  <2>5. CASE AccountStep
    <3>1. \/ \E u \in User : NonceExpires(u)
          \/ \E p \in Proc : request_wallet_nonce(p)
          \/ UNCHANGED nonce
      BY <1>4, <2>5, CaseWritten DEF AccountStep, AccountNext, AccountStarts, AccountGoes, register, register_request,
        register_verify, begin_enrollment, enable, disable, verify_second_factor, update_user,
        upload_my_avatar, delete_my_avatar, update_by_admin, create_case, erase_user,
        create_user, link_guest_cases, authenticate_or_create, FactorCommits, ProfileCommits,
        CaseCommits, OtpExpires, accountVars
    <3> QED
      BY <2>2, <2>3, <2>4, <3>1
  <2>6. CASE EuipoStep \/ UNCHANGED vars
    BY <2>4, <2>6 DEF EuipoStep, OfEuipo, ClientVars, vars, accountVars
  <2> QED
    BY <2>4, <2>5, <2>6, OrgKeeps, AgreementKeeps, NoticeKeeps, EraseKeeps DEF Next, accountVars
<1> QED
  BY <1>3, <1>4

\* An invite is marked as accepted or revoked for good.
LEMMA InviteStep ==
  ASSUME OrgsOK, NEW i \in Invite,
         \/ invites' = [invites EXCEPT ![i].accepted = TRUE]
         \/ invites' = [invites EXCEPT ![i].revoked = TRUE]
         \/ invites' = [invites EXCEPT ![i].expired = TRUE]
  PROVE  \A j \in Invite : /\ invites[j].accepted => invites'[j].accepted
                           /\ invites[j].revoked => invites'[j].revoked
  BY DEF OrgsOK, InviteRow

LEMMA InvitesTakenKept ==
  ASSUME RecordsOK, InvitesTaken, [Next]_vars
  PROVE  InvitesTaken'
<1> USE DEF RecordsOK
<1>0. req = [p \in Proc |-> req[p]]
  BY DEF RequestsOK
<1>1. ASSUME \A i \in Invite : /\ invites[i].accepted => invites'[i].accepted
                               /\ invites[i].revoked => invites'[i].revoked,
             \A i \in Invite : <<"invite", i>> \in spent' =>
               <<"invite", i>> \in spent \/ invites'[i].accepted \/ invites'[i].revoked,
             \A p \in Proc : \/ req'[p] = req[p] \/ req'[p].at \notin {"accept", "revoke"}
                             \/ /\ req'[p].at = "accept" => \A x \in req'[p].arg : ~x[2].accepted /\ ~x[2].revoked
                                /\ req'[p].at = "revoke" => \A x \in req'[p].arg : ~x[2].accepted
      PROVE  InvitesTaken'
  BY <1>1 DEF InvitesTaken, At
<1>2. ASSUME UNCHANGED invites, ~\E p \in Proc : AcceptCommits(p) \/ RevokeCommits(p),
             NEW at, Moves(at), {"accept", "revoke"} \cap at = {}
      PROVE  InvitesTaken'
  <2>1. \A q \in Proc : req'[q] = req[q] \/ req'[q].at \notin {"accept", "revoke"}
    BY <1>2 DEF Moves, Idle
  <2>2. \A i : <<"invite", i>> \in spent' => <<"invite", i>> \in spent
    BY <1>2, SpentTags
  <2> QED
    BY <1>1, <1>2, <2>1, <2>2
<1>3. ASSUME NEW p \in Proc, accept_invite(p) \/ revoke_invite(p)
      PROVE  InvitesTaken'
  <2>1. \A q \in Proc \ {p} : req'[q] = req[q]
    BY <1>0, <1>3 DEF accept_invite, revoke_invite, Request, Begin
  <2>2. \/ req'[p].at = "accept" /\ \E i \in Invite : req'[p].arg = {<<i, invites[i]>>}
                                        /\ ~invites[i].accepted /\ ~invites[i].revoked
        \/ req'[p].at = "revoke" /\ \E i \in Invite : req'[p].arg = {<<i, invites[i]>>} /\ ~invites[i].accepted
    BY <1>0, <1>3 DEF accept_invite, revoke_invite, Redeemable, Request, Begin
  <2>3. UNCHANGED <<invites, spent>>
    BY <1>3 DEF accept_invite, revoke_invite, orgVars, history
  <2> QED
    BY <1>1, <2>1, <2>2, <2>3
<1>4. ASSUME NEW p \in Proc, AcceptCommits(p) \/ RevokeCommits(p)
      PROVE  InvitesTaken'
  <2>1. req[p].arg \subseteq Invite \X InviteRow
    BY <1>4, AtUser DEF AcceptCommits, RevokeCommits, At, Named, UserRequest, ArgOK
  <2>2. \A q \in Proc : req'[q] = req[q] \/ req'[q].at \notin {"accept", "revoke"}
    <3>1. End(p)
      BY <1>4 DEF AcceptCommits, RevokeCommits
    <3> QED
      BY <1>0, <3>1 DEF End, Idle
  <2>3. \/ UNCHANGED <<invites, spent>>
        \/ \E i \in Invite : /\ \/ invites' = [invites EXCEPT ![i].accepted = TRUE]
                                \/ invites' = [invites EXCEPT ![i].revoked = TRUE]
                             /\ spent' = spent \/ spent' = spent \cup {<<"invite", i>>}
    <3>1. AcceptCommits(p) => \/ UNCHANGED <<invites, spent>>
                              \/ \E x \in req[p].arg : /\ invites' = [invites EXCEPT ![x[1]].accepted = TRUE]
                                                       /\ spent' = spent \cup {<<"invite", x[1]>>}
      BY DEF AcceptCommits, Take, orgVars, history
    <3>2. RevokeCommits(p) =>
            \E x \in req[p].arg : /\ invites' = [invites EXCEPT ![x[1]].revoked = TRUE]
                                  /\ spent' = spent \/ spent' = spent \cup {<<"invite", x[1]>>}
      BY DEF RevokeCommits, Take, history
    <3> QED
      BY <1>4, <2>1, <3>1, <3>2
  <2>4. CASE UNCHANGED <<invites, spent>>
    BY <1>1, <2>2, <2>4
  <2>5. CASE ~UNCHANGED <<invites, spent>>
    <3>1. PICK i \in Invite : /\ \/ invites' = [invites EXCEPT ![i].accepted = TRUE]
                                 \/ invites' = [invites EXCEPT ![i].revoked = TRUE]
                              /\ spent' = spent \/ spent' = spent \cup {<<"invite", i>>}
      BY <2>3, <2>5
    <3>2. \A j \in Invite : /\ invites[j].accepted => invites'[j].accepted
                            /\ invites[j].revoked => invites'[j].revoked
      BY <3>1, InviteStep
    <3>3. invites'[i].accepted \/ invites'[i].revoked
      BY <3>1 DEF OrgsOK, InviteRow
    <3>4. \A j : <<"invite", j>> \in spent' => <<"invite", j>> \in spent \/ j = i
      BY <3>1
    <3> QED
      BY <1>1, <2>2, <3>2, <3>3, <3>4
  <2> QED
    BY <2>4, <2>5
<1>5. ASSUME OrgStep, ~\E p \in Proc : AcceptCommits(p) \/ RevokeCommits(p)
      PROVE  InvitesTaken'
  <2>1. \A i : <<"invite", i>> \in spent' => <<"invite", i>> \in spent
    BY <1>5, SpentTags
  <2>2. ASSUME NEW p \in Proc, InviteCommits(p)
        PROVE  InvitesTaken'
    <3>1. \A q \in Proc : req'[q] = req[q] \/ req'[q].at \notin {"accept", "revoke"}
      BY <1>0, <2>2 DEF InviteCommits, End, Idle
    <3>2. \A i \in Invite : invites'[i] = invites[i] \/ invites[i] = NoInvite
      <4>1. PICK i, row : invites[i] = NoInvite /\ invites' = [invites EXCEPT ![i] = row]
        BY <2>2 DEF InviteCommits, Inserted
      <4> QED
        BY <4>1 DEF OrgsOK
    <3>3. ~NoInvite.accepted /\ ~NoInvite.revoked
      BY DEF NoInvite
    <3> QED
      BY <1>1, <2>1, <3>1, <3>2, <3>3
  <2>3. ASSUME NEW i \in Invite, InviteExpires(i)
        PROVE  InvitesTaken'
    BY <1>1, <2>1, <2>3, InviteStep DEF InviteExpires
  <2>4. ASSUME NEW p \in Proc, \/ create_organization(p) \/ switch_default_organization(p) \/ create_invite(p)
                               \/ OrganizationCommits(p) \/ SwitchCommits(p)
        PROVE  InvitesTaken'
    <3>1. \A q \in Proc : req'[q] = req[q] \/ req'[q].at \notin {"accept", "revoke"}
      <4>1. CASE OrganizationCommits(p) \/ SwitchCommits(p)
        BY <1>0, <4>1 DEF OrganizationCommits, SwitchCommits, End, Idle
      <4>2. CASE create_organization(p) \/ switch_default_organization(p) \/ create_invite(p)
        BY <1>0, <4>2 DEF create_organization, switch_default_organization, create_invite, Request, Begin
      <4> QED
        BY <2>4, <4>1, <4>2
    <3>2. UNCHANGED invites
      BY <2>4 DEF create_organization, switch_default_organization, create_invite, OrganizationCommits,
        SwitchCommits, orgVars
    <3> QED
      BY <1>1, <2>1, <3>1, <3>2
  <2> QED
    BY <1>3, <1>5, <2>2, <2>3, <2>4 DEF OrgStep, OrgNext, OrgStarts, OrgGoes
<1>6. CASE AccountStep
  BY <1>1, <1>2, <1>4, <1>6, AccountMoves DEF AccountStep, AccountAt, orgVars
<1>7. CASE AgreementStep
  BY <1>2, <1>4, <1>7, AgreementMoves DEF AgreementStep, AgreementAt, Answers, orgVars
<1>8. CASE NoticeStep
  BY <1>2, <1>4, <1>8, NoticeMoves DEF NoticeStep, NoticeAt, orgVars
<1>9. ASSUME NEW p \in Proc, EraseStep(p)
      PROVE  InvitesTaken'
  <2>1. UNCHANGED invites
    BY <1>9 DEF EraseStep, EraseRecords, EraseCommits, orgVars
  <2>2. Moves({"tombstone"})
    BY <1>9, EraseMoves
  <2> QED
    BY <1>2, <1>4, <2>1, <2>2
<1>10. CASE EuipoStep \/ UNCHANGED vars
  BY <1>10 DEF EuipoStep, OfEuipo, ClientVars, vars, orgVars, history, InvitesTaken, At
<1> QED
  BY <1>4, <1>5, <1>6, <1>7, <1>8, <1>9, <1>10 DEF Next

LEMMA OlderStays ==
  ASSUME UsedOK, UsedOK', Counts, NEW n, Older(n),
         \A p \in Proc : req'[p] = req[p] \/ req'[p].at # "enable" \/ n \notin req'[p].arg
  PROVE  Older(n)'
<1>1. /\ used.requests \in Nat /\ used'.requests \in Nat /\ used.requests <= used'.requests
  BY DEF UsedOK, Counts
<1> QED
  BY <1>1 DEF Older, At

\* The requests' part of it, when none begins.
LEMMA CodesRequests ==
  ASSUME UsedOK, UsedOK', Counts, CodesTaken,
         \A p \in Proc : req'[p] = req[p] \/ req'[p].at \notin {"enable", "disable", "recover"}
  PROVE  \A p \in Proc :
           /\ TakesCode(p)' =>
                req'[p].arg \subseteq req'[p].saw.factor.codes /\ \A c \in req'[p].saw.factor.codes : Older(c[1])'
           /\ At(p, "enable")' =>
                /\ req'[p].arg \subseteq 1..used'.requests
                /\ \A q \in Proc : At(q, "enable")' /\ req'[p].arg \cap req'[q].arg # {} => p = q
<1>1. used.requests \in Nat /\ used'.requests \in Nat /\ 1..used.requests \subseteq 1..used'.requests
  BY DEF UsedOK, Counts
<1>2. \A n : Older(n) => Older(n)'
  BY OlderStays
<1>3. \A p \in Proc : TakesCode(p)' =>
        req'[p].arg \subseteq req'[p].saw.factor.codes /\ \A c \in req'[p].saw.factor.codes : Older(c[1])'
  BY <1>2 DEF CodesTaken, At, TakesCode
<1>4. \A p \in Proc : At(p, "enable")' =>
        /\ req'[p].arg \subseteq 1..used'.requests
        /\ \A q \in Proc : At(q, "enable")' /\ req'[p].arg \cap req'[q].arg # {} => p = q
  BY <1>1 DEF CodesTaken, At
<1> QED
  BY <1>3, <1>4

LEMMA CodesFrame ==
  ASSUME UsedOK, UsedOK', Counts, CodesTaken, crossed \subseteq crossed',
         \A u \in User : users'[u].factor.codes \subseteq users[u].factor.codes,
         \A u, c : <<"code", u, c>> \in spent' => <<"code", u, c>> \in spent,
         \A p \in Proc : req'[p] = req[p] \/ req'[p].at \notin {"enable", "disable", "recover"}
  PROVE  CodesTaken'
<1>1. \A n : Older(n) => Older(n)'
  BY OlderStays
<1>2. \A u \in User : \A c \in users'[u].factor.codes :
        Older(c[1])' /\ (<<"code", u, c>> \in spent' => <<"code", u, c>> \in crossed')
  BY <1>1 DEF CodesTaken
<1>3. \A u \in User, n \in Nat, i \in {1, 2} : <<"code", u, <<n, i>>>> \in spent' => Older(n)'
  BY <1>1 DEF CodesTaken
<1> QED
  BY <1>2, <1>3, CodesRequests DEF CodesTaken

\* A list is enabled, a code is sent, or the second factor is written.
LEMMA EnableCodes ==
  ASSUME RecordsOK, UsedOK', Counts, CodesTaken, NEW p \in Proc, enable(p)
  PROVE  CodesTaken'
<1> USE DEF RecordsOK
<1>0. req = [q \in Proc |-> req[q]] /\ used.requests \in Nat
  BY DEF RequestsOK, UsedOK
<1>1. /\ \A q \in Proc \ {p} : req'[q] = req[q]
      /\ req'[p].at = "enable" /\ req'[p].arg = {Number} /\ used'.requests = Number
      /\ UNCHANGED <<users, spent, crossed>>
  BY <1>0 DEF enable, Request, Begin, UsedOK, Number, accountVars, history
<1>2. Number = used.requests + 1
  BY DEF Number
<1>3. \A n : Older(n) => Older(n)'
  <2>1. \A n \in 0..used.requests : n # Number
    BY <1>0, <1>2
  <2>2. \A n : Older(n) => \A q \in Proc : req'[q] = req[q] \/ req'[q].at # "enable" \/ n \notin req'[q].arg
    BY <1>1, <2>1 DEF Older
  <2> QED
    BY <2>2, OlderStays
<1>4. \A u \in User : \A c \in users'[u].factor.codes :
        Older(c[1])' /\ (<<"code", u, c>> \in spent' => <<"code", u, c>> \in crossed')
  BY <1>1, <1>3 DEF CodesTaken
<1>5. \A u \in User, n \in Nat, i \in {1, 2} : <<"code", u, <<n, i>>>> \in spent' => Older(n)'
  BY <1>1, <1>3 DEF CodesTaken
<1>6. \A q \in Proc : TakesCode(q)' =>
        req'[q].arg \subseteq req'[q].saw.factor.codes /\ \A c \in req'[q].saw.factor.codes : Older(c[1])'
  BY <1>1, <1>3 DEF CodesTaken, At, TakesCode
<1>7. \A q \in Proc : At(q, "enable")' => req'[q].arg \subseteq 1..used'.requests
  <2>1. \A q \in Proc \ {p} : At(q, "enable")' => req'[q].arg \subseteq 1..used.requests
    BY <1>1 DEF CodesTaken, At
  <2>2. 1..used.requests \subseteq 1..used'.requests /\ used'.requests \in 1..used'.requests
    BY <1>0, <1>1, <1>2
  <2> QED
    BY <1>1, <2>1, <2>2
<1>8. \A q, r \in Proc : At(q, "enable")' /\ At(r, "enable")' /\ req'[q].arg \cap req'[r].arg # {} => q = r
  <2>1. \A q \in Proc \ {p} : At(q, "enable")' => At(q, "enable") /\ req'[q].arg = req[q].arg /\ Number \notin req[q].arg
    <3>1. Number \notin 1..used.requests
      BY <1>0, <1>2
    <3> QED
      BY <1>1, <3>1 DEF CodesTaken, At
  <2> QED
    BY <1>1, <2>1 DEF CodesTaken
<1> QED
  BY <1>4, <1>5, <1>6, <1>7, <1>8 DEF CodesTaken

LEMMA RecoverCodes ==
  ASSUME RecordsOK, UsedOK', Counts, CodesTaken, NEW p \in Proc, disable(p) \/ verify_second_factor(p)
  PROVE  CodesTaken'
<1> USE DEF RecordsOK
<1>0. req = [q \in Proc |-> req[q]] /\ used.requests \in Nat /\ used'.requests \in Nat
      /\ 1..used.requests \subseteq 1..used'.requests
  BY DEF RequestsOK, UsedOK, Counts
<1>1. /\ \A q \in Proc \ {p} : req'[q] = req[q]
      /\ req'[p].at \in {"disable", "recover"}
      /\ \E u \in User : req'[p].saw = users[u] /\ req'[p].arg \subseteq users[u].factor.codes
      /\ UNCHANGED <<users, spent, crossed>>
  BY <1>0 DEF disable, verify_second_factor, Request, Begin, accountVars, history
<1>3. \A n : Older(n) => Older(n)'
  BY <1>1, OlderStays
<1>4. \A u \in User : \A c \in users'[u].factor.codes :
        Older(c[1])' /\ (<<"code", u, c>> \in spent' => <<"code", u, c>> \in crossed')
  BY <1>1, <1>3 DEF CodesTaken
<1>5. \A u \in User, n \in Nat, i \in {1, 2} : <<"code", u, <<n, i>>>> \in spent' => Older(n)'
  BY <1>1, <1>3 DEF CodesTaken
<1>6. \A q \in Proc : TakesCode(q)' =>
        req'[q].arg \subseteq req'[q].saw.factor.codes /\ \A c \in req'[q].saw.factor.codes : Older(c[1])'
  BY <1>1, <1>3 DEF CodesTaken, At, TakesCode
<1>7. \A q \in Proc : At(q, "enable")' =>
        /\ req'[q].arg \subseteq 1..used'.requests
        /\ \A r \in Proc : At(r, "enable")' /\ req'[q].arg \cap req'[r].arg # {} => q = r
  BY <1>0, <1>1 DEF CodesTaken, At
<1> QED
  BY <1>4, <1>5, <1>6, <1>7 DEF CodesTaken

LEMMA FactorCodes ==
  ASSUME RecordsOK, UsedOK', Counts, CodesTaken, crossed \subseteq crossed', NEW p \in Proc, FactorCommits(p)
  PROVE  CodesTaken'
<1> USE DEF RecordsOK
<1>0. req = [q \in Proc |-> req[q]]
  BY DEF RequestsOK
<1>1. UserRequest(req[p]) /\ req[p].user \in User /\ req[p].op = req[p].at /\ req[p].at \in {"enroll", "enable", "disable", "recover"}
  BY AtUser DEF FactorCommits, At, Named, UserRequest, OpOK
<1>2. users[req[p].user].factor \in Factor /\ req[p].saw.factor \in Factor
  BY <1>1 DEF UserRequest, AccountsOK, Account
<1>3. /\ \A u \in User \ {req[p].user} : users'[u] = users[u]
      /\ users'[req[p].user].factor = FactorAfter(p)
  BY <1>1 DEF FactorCommits, AccountsOK, Account
<1>4. /\ (\A q \in Proc \ {p} : req'[q] = req[q]) /\ req'[p].at = "idle"
  BY <1>0 DEF FactorCommits, End, Idle
<1>5. \A n : Older(n) => Older(n)'
  BY <1>4, OlderStays
<1>6. CASE At(p, "enroll")
  <2>1. FactorAfter(p).codes \subseteq users[req[p].user].factor.codes
    BY <1>1, <1>2, <1>6 DEF FactorAfter, Serves, At, Factor
  <2>2. spent' = spent
    BY <1>6 DEF FactorCommits, Take, At
  <2> QED
    BY <1>3, <1>4, <2>1, <2>2, CodesFrame
<1>7. CASE At(p, "enable")
  <2>1. FactorAfter(p).codes = UNION {Codes(k) : k \in req[p].arg}
    BY <1>1, <1>2, <1>7 DEF FactorAfter, Serves, At, Factor
  <2>2. spent' = spent
    BY <1>7 DEF FactorCommits, Take, At
  <2>3. req[p].arg \subseteq 1..used.requests
    BY <1>7 DEF CodesTaken
  <2>4. \A k \in req[p].arg : Older(k)'
    <3>1. used.requests \in Nat /\ used'.requests \in Nat /\ used.requests <= used'.requests
      BY DEF UsedOK, Counts
    <3>2. \A k \in req[p].arg : k \in 0..used'.requests
      BY <2>3, <3>1
    <3>3. \A q \in Proc \ {p} : At(q, "enable") => req[p].arg \cap req[q].arg = {}
      BY <1>7 DEF CodesTaken
    <3> QED
      BY <1>4, <3>2, <3>3 DEF Older, At
  <2>5. \A c \in FactorAfter(p).codes : \E k \in req[p].arg, i \in {1, 2} : c = <<k, i>>
    BY <2>1 DEF Codes
  <2>6. \A c \in FactorAfter(p).codes : Older(c[1])' /\ <<"code", req[p].user, c>> \notin spent'
    <3>1. ASSUME NEW k \in req[p].arg, NEW i \in {1, 2}
          PROVE  <<"code", req[p].user, <<k, i>>>> \notin spent
      <4>1. k \in Nat
        BY <2>3
      <4>2. ~Older(k)
        BY <1>7 DEF Older
      <4> QED
        BY <1>1, <4>1, <4>2 DEF CodesTaken
    <3>2. ASSUME NEW c \in FactorAfter(p).codes
          PROVE  Older(c[1])' /\ <<"code", req[p].user, c>> \notin spent'
      <4>1. PICK k \in req[p].arg, i \in {1, 2} : c = <<k, i>>
        BY <2>5
      <4>2. c[1] = k
        BY <4>1
      <4> QED
        BY <2>2, <2>4, <3>1, <4>1, <4>2
    <3> QED
      BY <3>2
  <2>7. \A u \in User : \A c \in users'[u].factor.codes :
          Older(c[1])' /\ (<<"code", u, c>> \in spent' => <<"code", u, c>> \in crossed')
    BY <1>3, <1>5, <2>2, <2>6 DEF CodesTaken
  <2>8. \A u \in User, n \in Nat, i \in {1, 2} : <<"code", u, <<n, i>>>> \in spent' => Older(n)'
    BY <1>5, <2>2 DEF CodesTaken
  <2> QED
    BY <1>4, <1>5, <2>7, <2>8, CodesRequests DEF CodesTaken
<1>8. CASE At(p, "recover")
  <2>1. FactorAfter(p).codes = req[p].saw.factor.codes \ req[p].arg
    BY <1>1, <1>2, <1>8 DEF FactorAfter, Serves, At, Factor, consume_recovery_code
  <2>2. spent' = spent \cup {<<"code", req[p].user, c>> : c \in req[p].arg}
    BY <1>8 DEF FactorCommits, Take
  <2>3. \A c \in req[p].saw.factor.codes \ users[req[p].user].factor.codes : <<"code", req[p].user, c>> \in crossed'
    BY <1>1, <1>8 DEF FactorCommits, FactorCrossed, Serves, Cross, At
  <2>4. req[p].arg \subseteq req[p].saw.factor.codes /\ \A c \in req[p].saw.factor.codes : Older(c[1])'
    BY <1>5, <1>8 DEF CodesTaken, At, TakesCode
  <2>5. \A u, c : <<"code", u, c>> \in spent' =>
          <<"code", u, c>> \in spent \/ (u = req[p].user /\ c \in req[p].arg)
    BY <2>2
  <2>6. \A u \in User : \A c \in users'[u].factor.codes :
          Older(c[1])' /\ (<<"code", u, c>> \in spent' => <<"code", u, c>> \in crossed')
    <3>1. ASSUME NEW u \in User, u # req[p].user, NEW c \in users'[u].factor.codes
          PROVE  Older(c[1])' /\ (<<"code", u, c>> \in spent' => <<"code", u, c>> \in crossed')
      BY <1>3, <1>5, <2>5, <3>1 DEF CodesTaken
    <3>2. ASSUME NEW c \in FactorAfter(p).codes
          PROVE  /\ Older(c[1])'
                 /\ <<"code", req[p].user, c>> \in spent' => <<"code", req[p].user, c>> \in crossed'
      <4>1. c \in req[p].saw.factor.codes /\ c \notin req[p].arg
        BY <2>1, <3>2
      <4>2. <<"code", req[p].user, c>> \in spent' => <<"code", req[p].user, c>> \in spent
        BY <2>5, <4>1
      <4> QED
        BY <1>1, <2>3, <2>4, <4>1, <4>2 DEF CodesTaken
    <3> QED
      BY <1>1, <1>3, <3>1, <3>2
  <2>7. \A u \in User, n \in Nat, i \in {1, 2} : <<"code", u, <<n, i>>>> \in spent' => Older(n)'
    <3> SUFFICES ASSUME NEW u \in User, NEW n \in Nat, NEW i \in {1, 2}, <<"code", u, <<n, i>>>> \in spent'
                 PROVE  Older(n)'
      OBVIOUS
    <3>1. <<"code", u, <<n, i>>>> \in spent \/ <<n, i>> \in req[p].arg
      BY <2>5
    <3>2. <<n, i>> \in req[p].arg => Older(<<n, i>>[1])'
      BY <2>4
    <3>3. <<n, i>>[1] = n
      OBVIOUS
    <3> QED
      BY <1>5, <3>1, <3>2, <3>3 DEF CodesTaken
  <2> QED
    BY <1>4, <1>5, <2>6, <2>7, CodesRequests DEF CodesTaken
<1>9. CASE At(p, "disable")
  <2>1. FactorAfter(p).codes = {}
    BY <1>1, <1>9 DEF FactorAfter, Serves, At, NoFactor
  <2>2. spent' = spent \cup {<<"code", req[p].user, c>> : c \in req[p].arg}
    BY <1>9 DEF FactorCommits, Take
  <2>3. \A u, c : <<"code", u, c>> \in spent' =>
          <<"code", u, c>> \in spent \/ (u = req[p].user /\ c \in req[p].arg)
    BY <2>2
  <2>4. \A u \in User : \A c \in users'[u].factor.codes :
          Older(c[1])' /\ (<<"code", u, c>> \in spent' => <<"code", u, c>> \in crossed')
    <3> SUFFICES ASSUME NEW u \in User, NEW c \in users'[u].factor.codes
                 PROVE  Older(c[1])' /\ (<<"code", u, c>> \in spent' => <<"code", u, c>> \in crossed')
      OBVIOUS
    <3>1. u # req[p].user
      BY <1>3, <2>1
    <3> QED
      BY <1>3, <1>5, <2>3, <3>1 DEF CodesTaken
  <2>5. \A u \in User, n \in Nat, i \in {1, 2} : <<"code", u, <<n, i>>>> \in spent' => Older(n)'
    <3> SUFFICES ASSUME NEW u \in User, NEW n \in Nat, NEW i \in {1, 2}, <<"code", u, <<n, i>>>> \in spent'
                 PROVE  Older(n)'
      OBVIOUS
    <3>1. <<"code", u, <<n, i>>>> \in spent \/ <<n, i>> \in req[p].arg
      BY <2>3
    <3>2. <<n, i>> \in req[p].arg => Older(<<n, i>>[1])'
      <4>1. \A c \in req[p].arg : Older(c[1])
        BY <1>9 DEF CodesTaken, At, TakesCode
      <4> QED
        BY <1>5, <4>1
    <3>3. <<n, i>>[1] = n
      OBVIOUS
    <3> QED
      BY <1>5, <3>1, <3>2, <3>3 DEF CodesTaken
  <2> QED
    BY <1>4, <1>5, <2>4, <2>5, CodesRequests DEF CodesTaken
<1> QED
  BY <1>1, <1>6, <1>7, <1>8, <1>9 DEF At

LEMMA CodesTakenKept ==
  ASSUME RecordsOK, UsedOK', Counts, CodesTaken, [Next]_vars
  PROVE  CodesTaken'
<1> USE DEF RecordsOK
<1>0. req = [p \in Proc |-> req[p]] /\ crossed \subseteq crossed'
  BY HistoryGrows DEF RequestsOK
<1>1. ASSUME NEW p \in Proc, FactorCommits(p)
      PROVE  CodesTaken'
  BY <1>0, <1>1, FactorCodes
<1>2. ASSUME ~\E p \in Proc : FactorCommits(p)
      PROVE  CodesTaken'
  <2>1. \A u, c : <<"code", u, c>> \in spent' => <<"code", u, c>> \in spent
    BY <1>2, SpentTags
  <2>2. ASSUME \A u \in User : users'[u].factor = users[u].factor,
               \A q \in Proc : req'[q] = req[q] \/ req'[q].at \notin {"enable", "disable", "recover"}
        PROVE  CodesTaken'
    BY <1>0, <2>1, <2>2, CodesFrame
  <2>3. ASSUME NEW p \in Proc, AccountStarts(p)
        PROVE  CodesTaken'
    BY <2>2, <2>3, EnableCodes, RecoverCodes, AccountStartsAt
  <2>4. ASSUME NEW p \in Proc, link_guest_cases(p)
        PROVE  CodesTaken'
    <3>1. users' = users \/ users' = [users EXCEPT ![req[p].user] = Registered]
      BY <2>4 DEF link_guest_cases
    <3>2. Registered.factor.codes = {}
      BY DEF Registered, NoAccount, NoFactor
    <3>3. \A u \in User : users'[u].factor.codes \subseteq users[u].factor.codes
      BY <3>1, <3>2 DEF AccountsOK
    <3>4. \A q \in Proc : req'[q] = req[q] \/ req'[q].at \notin {"enable", "disable", "recover"}
      BY <1>0, <2>4 DEF link_guest_cases, End, Idle
    <3> QED
      BY <1>0, <2>1, <3>3, <3>4, CodesFrame
  <2>5. ASSUME NEW p \in Proc, create_user(p) \/ authenticate_or_create(p) \/ ProfileCommits(p) \/ CaseCommits(p)
        PROVE  CodesTaken'
    <3>1. \A u \in User : users'[u].factor = users[u].factor
      BY <2>5, ProfileFactors DEF create_user, authenticate_or_create, CaseCommits, accountVars
    <3>2. \A q \in Proc : req'[q] = req[q] \/ req'[q].at \notin {"enable", "disable", "recover"}
      BY <2>5, AccountGoesAt DEF AccountGoes
    <3> QED
      BY <2>2, <3>1, <3>2
  <2>6. CASE AccountStep
    <3>1. ASSUME NEW u \in User, OtpExpires(u) \/ NonceExpires(u)
          PROVE  CodesTaken'
      BY <2>2, <3>1 DEF OtpExpires, NonceExpires
    <3> QED
      BY <1>2, <2>3, <2>4, <2>5, <2>6, <3>1 DEF AccountStep, AccountNext, AccountGoes
  <2>7. CASE OrgStep
    <3>1. \A q \in Proc : req'[q] = req[q] \/ req'[q].at \notin {"enable", "disable", "recover"}
      BY <2>7, OrgMoves DEF OrgStep, Moves, OrgAt, Idle
    <3> QED
      BY <2>2, <2>7, <3>1, OrgFactors DEF OrgStep
  <2>8. CASE AgreementStep
    <3>1. \A q \in Proc : req'[q] = req[q] \/ req'[q].at \notin {"enable", "disable", "recover"}
      BY <2>8, AgreementMoves DEF AgreementStep, Moves, AgreementAt, Answers, Idle
    <3> QED
      BY <2>2, <2>8, <3>1, AgreementKeeps DEF accountVars
  <2>9. CASE NoticeStep
    <3>1. \A q \in Proc : req'[q] = req[q] \/ req'[q].at \notin {"enable", "disable", "recover"}
      BY <2>9, NoticeMoves DEF NoticeStep, Moves, NoticeAt, Idle
    <3> QED
      BY <2>2, <2>9, <3>1, NoticeKeeps DEF accountVars
  <2>10. ASSUME NEW p \in Proc, EraseStep(p)
         PROVE  CodesTaken'
    <3>1. \A q \in Proc : req'[q] = req[q] \/ req'[q].at \notin {"enable", "disable", "recover"}
      BY <2>10, EraseMoves DEF Moves, Idle
    <3> QED
      BY <2>2, <2>10, <3>1, EraseFactors
  <2>11. CASE EuipoStep \/ UNCHANGED vars
    BY <2>2, <2>11 DEF EuipoStep, OfEuipo, ClientVars, vars, accountVars
  <2> QED
    BY <2>6, <2>7, <2>8, <2>9, <2>10, <2>11 DEF Next
<1> QED
  BY <1>1, <1>2

\* Nothing is taken again that was not crossed.
LEMMA TakenOnceKept ==
  ASSUME RecordsOK, TakenInv, [Next]_vars
  PROVE  TakenOnce'
<1> USE DEF RecordsOK
<1>0. crossed \subseteq crossed'
  BY HistoryGrows
<1>1. ASSUME NEW things, Take(things), things \cap spent \subseteq crossed'
      PROVE  TakenOnce'
  BY <1>0, <1>1 DEF Take, TakenInv, TakenOnce
<1>2. ASSUME UNCHANGED again
      PROVE  TakenOnce'
  BY <1>0, <1>2 DEF TakenInv, TakenOnce
<1>3. ASSUME NEW p \in Proc, link_guest_cases(p)
      PROVE  TakenOnce'
  <2>1. req[p].arg \subseteq Case \X CaseRow
    BY <1>3, AtUser DEF link_guest_cases, At, UserRequest, ArgOK
  <2> DEFINE found == {x[1] : x \in req[p].arg}
  <2>2. \/ UNCHANGED again
        \/ /\ Take({<<"case", c>> : c \in found})
           /\ Cross({<<"case", x[1]>> : x \in {y \in req[p].arg : cases[y[1]].client # y[2].client}})
    BY <1>3 DEF link_guest_cases, history
  <2>3. ASSUME Cross({<<"case", x[1]>> : x \in {y \in req[p].arg : cases[y[1]].client # y[2].client}}),
               NEW x \in req[p].arg, <<"case", x[1]>> \in spent
        PROVE  <<"case", x[1]>> \in crossed'
    <3>1. x[1] \in Case /\ x[2].client = NoUser /\ cases[x[1]].client # NoUser
      BY <1>3, <2>1, <2>3 DEF TakenInv, CasesTaken, link_guest_cases
    <3> QED
      BY <2>3, <3>1 DEF Cross
  <2>4. ASSUME Cross({<<"case", x[1]>> : x \in {y \in req[p].arg : cases[y[1]].client # y[2].client}})
        PROVE  {<<"case", c>> : c \in found} \cap spent \subseteq crossed'
    BY <2>3, <2>4
  <2> QED
    BY <1>1, <1>2, <2>2, <2>4
<1>4. ASSUME NEW p \in Proc, verify_wallet_signature(p)
      PROVE  TakenOnce'
  <2>1. PICK u \in WalletUser, n \in 1..MaxRequests :
          UNCHANGED again \/ (n \in nonce[u] /\ Take({<<"nonce", n>>}))
    BY <1>4 DEF verify_wallet_signature, verify_signature
  <2>2. n \in nonce[u] => <<"nonce", n>> \notin spent
    BY NoUserAssumption DEF TakenInv, NoncesTaken
  <2> QED
    BY <1>1, <1>2, <2>1, <2>2
<1>5. ASSUME NEW p \in Proc, FactorCommits(p)
      PROVE  TakenOnce'
  <2>1. UserRequest(req[p]) /\ req[p].user \in User /\ req[p].op = req[p].at
    BY <1>5, AtUser DEF FactorCommits, At, Named, UserRequest, OpOK
  <2>2. CASE TakesCode(p)
    <3>1. \A c \in req[p].arg \ users[req[p].user].factor.codes : <<"code", req[p].user, c>> \in crossed'
      <4>1. req[p].arg \subseteq req[p].saw.factor.codes
        BY <2>2 DEF TakenInv, CodesTaken
      <4> QED
        BY <1>5, <2>1, <2>2, <4>1 DEF FactorCommits, FactorCrossed, Serves, Cross, At, TakesCode
    <3>2. \A c \in req[p].arg : <<"code", req[p].user, c>> \in spent => <<"code", req[p].user, c>> \in crossed'
      BY <1>0, <2>1, <3>1 DEF TakenInv, CodesTaken
    <3>3. Take({<<"code", req[p].user, c>> : c \in req[p].arg})
      BY <1>5, <2>2 DEF FactorCommits, TakesCode
    <3> QED
      BY <1>1, <3>2, <3>3
  <2>3. CASE ~TakesCode(p)
    <3>1. Take({})
      BY <1>5, <2>3 DEF FactorCommits, TakesCode
    <3> QED
      BY <1>1, <3>1
  <2> QED
    BY <2>2, <2>3
<1>6. ASSUME NEW p \in Proc, AcceptCommits(p) \/ RevokeCommits(p)
      PROVE  TakenOnce'
  <2>1. req[p].arg \subseteq Invite \X InviteRow
    BY <1>6, AtUser DEF AcceptCommits, RevokeCommits, At, Named, UserRequest, ArgOK
  <2>2. CASE AcceptCommits(p)
    <3>1. \/ UNCHANGED again
          \/ \E x \in req[p].arg : Take({<<"invite", x[1]>>}) /\ Overwrites(x) \subseteq crossed'
      BY <2>2 DEF AcceptCommits, Cross, history
    <3>2. ASSUME NEW x \in req[p].arg, <<"invite", x[1]>> \in spent, Overwrites(x) \subseteq crossed'
          PROVE  <<"invite", x[1]>> \in crossed'
      <4>1. ~x[2].accepted /\ ~x[2].revoked /\ (invites[x[1]].accepted \/ invites[x[1]].revoked)
        BY <2>1, <2>2, <3>2 DEF AcceptCommits, TakenInv, InvitesTaken
      <4> QED
        BY <3>2, <4>1 DEF Overwrites
    <3> QED
      BY <1>1, <1>2, <3>1, <3>2
  <2>3. CASE RevokeCommits(p)
    <3>1. \/ UNCHANGED again
          \/ \E x \in req[p].arg : /\ ~invites[x[1]].revoked
                                   /\ Take({<<"invite", x[1]>>}) /\ Overwrites(x) \subseteq crossed'
      BY <2>3 DEF RevokeCommits, Cross, history
    <3>2. ASSUME NEW x \in req[p].arg, ~invites[x[1]].revoked, <<"invite", x[1]>> \in spent,
                 Overwrites(x) \subseteq crossed'
          PROVE  <<"invite", x[1]>> \in crossed'
      <4>1. ~x[2].accepted /\ invites[x[1]].accepted
        BY <2>1, <2>3, <3>2 DEF RevokeCommits, TakenInv, InvitesTaken
      <4> QED
        BY <3>2, <4>1 DEF Overwrites
    <3> QED
      BY <1>1, <1>2, <3>1, <3>2
  <2> QED
    BY <1>6, <2>2, <2>3
<1> QED
  BY <1>2, <1>3, <1>4, <1>5, <1>6, WhoTakes

LEMMA TakenStart == Init => TakenInv
<1> SUFFICES ASSUME Init
             PROVE  TakenInv
  OBVIOUS
<1>1. /\ spent = {} /\ again = {} /\ nonce = [u \in User |-> {}] /\ used.requests = 0
      /\ users \in [User -> {NoAccount, Registered, Enrolled}]
      /\ \A p \in Proc : req[p].at = "idle"
  BY DEF Init, AccountInit, Idle
<1>2. /\ NoAccount.factor.codes = {} /\ Registered.factor.codes = {} /\ Enrolled.factor.codes = {<<0, 1>>, <<0, 2>>}
  BY DEF NoAccount, Registered, Enrolled, NoFactor, Codes
<1>3. \A u \in User : \A c \in users[u].factor.codes : c[1] = 0
  BY <1>1, <1>2
<1>4. \A u \in User : \A c \in users[u].factor.codes : Older(c[1])
  BY <1>1, <1>3 DEF Older, At
<1>5. CodesTaken
  BY <1>1, <1>4 DEF CodesTaken, At, TakesCode
<1>6. TakenOnce /\ CasesTaken /\ InvitesTaken
  BY <1>1 DEF TakenOnce, CasesTaken, InvitesTaken, At
<1>7. NoncesTaken
  BY <1>1 DEF NoncesTaken
<1> QED
  BY <1>5, <1>6, <1>7 DEF TakenInv

\* A wallet's challenge, a recovery code, an invite and a guest's case are each taken
\* once, and a revoked invite not at all, unless two requests had read it before either wrote.
THEOREM NothingIsTakenTwice == Spec => []TakenOnce
<1>1. Init => RecordsOK /\ NoncesOK /\ TakenInv
  BY RecordsStart, TakenStart
<1>2. RecordsOK /\ NoncesOK /\ TakenInv /\ [Next]_vars => (RecordsOK /\ NoncesOK /\ TakenInv)'
  <2> SUFFICES ASSUME RecordsOK, NoncesOK, TakenInv, [Next]_vars
               PROVE  (RecordsOK /\ NoncesOK /\ TakenInv)'
    OBVIOUS
  <2>1. RecordsOK' /\ NoncesOK'
    BY RecordsKept
  <2>2. Counts
    BY StepCounts DEF RecordsOK, Next, AccountStep, OrgStep, AgreementStep, NoticeStep, EuipoStep, OfEuipo,
       ClientVars, vars, Counts
  <2>3. TakenOnce' /\ CasesTaken' /\ NoncesTaken' /\ InvitesTaken' /\ CodesTaken'
    BY <2>1, <2>2, TakenOnceKept, CasesTakenKept, NoncesTakenKept, InvitesTakenKept, CodesTakenKept
    DEF RecordsOK, TakenInv
  <2> QED
    BY <2>1, <2>3 DEF TakenInv
<1>3. TakenInv => TakenOnce
  BY DEF TakenInv
<1> QED
  BY <1>1, <1>2, <1>3, PTL DEF Spec

-----------------------------------------------------------------------------
(* What a request that processes the notices has read and marked, and what *)
(* an erasure has deleted, others leave alone.                             *)

ProcessAt == {"read", "send", "taken", "refused", "lost"}

\* A row that was never written is nobody's.
NoticesUnused == \A n \in Notice : notices[n].st = "none" => notices[n].by = NoUser

\* A row is marked by one request, keeps its owner, and stays until the request ends.
MarksApart == \A p, q \in Proc : \A n \in Notice : n \in Marked(p) /\ n \in Marked(q) => p = q
OwnMarks(p) ==
  \A n \in Marked(p) :
    /\ notices[n].st # "deleted" /\ req[p].marks[n].st # "none"
    /\ \/ notices[n].st # "none" /\ req[p].marks[n].by = notices[n].by
       \/ notices[n].st = "none" /\ req[p].marks[n].by = req[p].user /\ req[p].user # NoUser

\* What is still to be sent, or to be marked, was pending and is its owner's, or gone.
ToDo(p) ==
  Processes(p) =>
    /\ \A x \in req[p].todo \cup req[p].now :
         /\ x[2].st = "pending"
         /\ x[1] \in Marked(p) => req[p].marks[x[1]].by = x[2].by
         /\ x[1] \notin Marked(p) =>
              notices[x[1]].st = "deleted" \/ (notices[x[1]].st # "none" /\ notices[x[1]].by = x[2].by)
    /\ \A x \in req[p].todo, y \in req[p].todo \cup req[p].now : x[1] = y[1] => x = y /\ y \notin req[p].now
    /\ \A x, y \in req[p].now : x = y
    /\ req[p].at \in {"read", "send"} => req[p].now = {}

\* The rows that an erasure deletes are its user's, and nobody marks them.
Tombstones ==
  \A p \in Proc : At(p, "tombstone") =>
    /\ \A q \in Proc : At(q, "tombstone") /\ req[q].user = req[p].user => q = p
    /\ \A n \in Notice : <<"notice", n>> \in req[p].arg =>
         notices[n].by = req[p].user /\ \A q \in Proc : n \notin Marked(q)

MarksInv == NoticesUnused /\ MarksApart /\ (\A p \in Proc : OwnMarks(p) /\ ToDo(p)) /\ Tombstones

LEMMA ProcessRow ==
  ASSUME NEW r, RequestOK(r)
  PROVE  /\ r.at # "idle" /\ r.op = "process" <=> r.at \in ProcessAt
         /\ r.at \in ProcessAt => NoticeRequest(r)
         /\ r.at = "tombstone" => UserRequest(r)
<1>1. CASE r = Idle
  BY <1>1 DEF Idle, ProcessAt
<1>2. CASE UserRequest(r)
  BY <1>2 DEF UserRequest, OpOK, ProcessAt, Named
<1>3. CASE ProposalRequest(r) \/ SignatureRequest(r)
  BY <1>3 DEF ProposalRequest, SignatureRequest, ProcessAt, Answers
<1>4. CASE NoticeRequest(r)
  BY <1>4 DEF NoticeRequest, ProcessAt
<1> QED
  BY <1>1, <1>2, <1>3, <1>4 DEF RequestOK

LEMMA MarkedRows ==
  ASSUME RequestsOK, NEW p \in Proc
  PROVE  /\ Processes(p) <=> req[p].at \in ProcessAt
         /\ Processes(p) => NoticeRequest(req[p]) /\ Marked(p) = DOMAIN req[p].marks
         /\ ~Processes(p) => Marked(p) = {}
         /\ Marked(p) \subseteq Notice
<1>1. RequestOK(req[p])
  BY DEF RequestsOK
<1>2. (Processes(p) <=> req[p].at \in ProcessAt) /\ (Processes(p) => NoticeRequest(req[p]))
  BY <1>1, ProcessRow DEF Processes, Serves
<1> QED
  BY <1>2 DEF Marked, NoticeRequest

\* Rows that nobody has marked are written; no request begins to process or to delete.
LEMMA RowsFrame ==
  ASSUME RequestsOK, RequestsOK', MarksInv,
         \A n \in Notice : notices'[n] = notices[n] \/
           /\ \A q \in Proc : n \notin Marked(q)
           /\ \/ notices[n].st = "none" /\ (notices'[n].st = "none" => notices'[n].by = NoUser)
              \/ notices'[n].st = "deleted"
              \/ /\ notices[n].st \notin {"none", "deleted"} /\ notices'[n].st # "none"
                 /\ notices'[n].by = notices[n].by,
         \A q \in Proc : req'[q] = req[q] \/ req'[q].at \notin ProcessAt \cup {"tombstone"},
         \A q \in Proc, n \in Notice :
           At(q, "tombstone")' /\ <<"notice", n>> \in req[q].arg => notices'[n].by = notices[n].by
  PROVE  MarksInv'
<1>1. \A q \in Proc : /\ Processes(q)' => req'[q] = req[q] /\ Processes(q)
                      /\ At(q, "tombstone")' => req'[q] = req[q] /\ At(q, "tombstone")
                      /\ Marked(q)' \subseteq Marked(q)
                      /\ Marked(q)' # {} => Marked(q)' = Marked(q) /\ req'[q] = req[q]
  <2>1. ASSUME NEW q \in Proc
        PROVE  (Processes(q)' <=> req'[q].at \in ProcessAt) /\ (At(q, "tombstone")' <=> req'[q].at = "tombstone")
    <3>1. RequestOK(req'[q])
      BY DEF RequestsOK
    <3> QED
      BY <3>1, ProcessRow DEF Processes, Serves, At
  <2>2. \A q \in Proc : Processes(q)' => req'[q] = req[q] /\ Processes(q)
    BY <2>1 DEF Processes, Serves
  <2>3. \A q \in Proc : At(q, "tombstone")' => req'[q] = req[q] /\ At(q, "tombstone")
    BY <2>1 DEF At
  <2> QED
    BY <2>2, <2>3 DEF Marked
<1>2. NoticesUnused'
  BY DEF MarksInv, NoticesUnused
<1>3. MarksApart'
  BY <1>1 DEF MarksInv, MarksApart
<1>4. ASSUME NEW p \in Proc
      PROVE  OwnMarks(p)' /\ ToDo(p)'
  <2>1. OwnMarks(p)'
    <3> SUFFICES ASSUME NEW n \in Marked(p)'
                 PROVE  /\ n \in Marked(p) /\ req'[p] = req[p] /\ notices'[n] = notices[n]
      BY DEF MarksInv, OwnMarks
    <3>1. n \in Notice
      BY <1>1, MarkedRows
    <3> QED
      BY <1>1, <3>1
  <2>2. ToDo(p)'
    <3> SUFFICES ASSUME Processes(p)'
                 PROVE  ToDo(p)'
      BY DEF ToDo
    <3>1. req'[p] = req[p] /\ Processes(p) /\ Marked(p)' = Marked(p) /\ NoticeRequest(req[p])
      BY <1>1, MarkedRows DEF Marked
    <3>2. \A x \in req[p].todo \cup req[p].now : x[1] \in Notice
      BY <3>1 DEF NoticeRequest
    <3>3. ASSUME NEW x \in req[p].todo \cup req[p].now, x[1] \notin Marked(p)
          PROVE  notices'[x[1]].st = "deleted" \/ (notices'[x[1]].st # "none" /\ notices'[x[1]].by = x[2].by)
      BY <3>1, <3>2, <3>3 DEF MarksInv, ToDo
    <3> QED
      BY <3>1, <3>3 DEF MarksInv, ToDo
  <2> QED
    BY <2>1, <2>2
<1>5. Tombstones'
  BY <1>1 DEF MarksInv, Tombstones
<1> QED
  BY <1>2, <1>3, <1>4, <1>5 DEF MarksInv

\* A request that processes goes on, or one begins; no row is written.
LEMMA ProcessFrame ==
  ASSUME RequestsOK, RequestsOK', MarksInv, UNCHANGED notices, NEW p \in Proc,
         \A q \in Proc \ {p} : req'[q] = req[q], req'[p].at # "tombstone",
         \A n \in Marked(p)' : n \in Marked(p) \/
           /\ \A q \in Proc : n \notin Marked(q)
           /\ \A q \in Proc : At(q, "tombstone") => <<"notice", n>> \notin req[q].arg,
         OwnMarks(p)', ToDo(p)'
  PROVE  MarksInv'
<1>1. \A q \in Proc \ {p} : Processes(q)' = Processes(q) /\ Marked(q)' = Marked(q)
                            /\ At(q, "tombstone")' = At(q, "tombstone")
  BY DEF Processes, Serves, Marked, At
<1>2. NoticesUnused'
  BY DEF MarksInv, NoticesUnused
<1>3. MarksApart'
  <2>1. \A q, r \in Proc : \A n \in Notice : n \in Marked(q) /\ n \in Marked(r) => q = r
    BY DEF MarksInv, MarksApart
  <2>2. \A q \in Proc \ {p} : \A n \in Notice : n \in Marked(p)' /\ n \in Marked(q)' => FALSE
    BY <1>1, <2>1
  <2>3. \A q, r \in Proc \ {p} : \A n \in Notice : n \in Marked(q)' /\ n \in Marked(r)' => q = r
    BY <1>1, <2>1
  <2> QED
    BY <2>2, <2>3 DEF MarksApart
<1>4. \A q \in Proc \ {p} : OwnMarks(q)' /\ ToDo(q)'
  BY <1>1 DEF MarksInv, OwnMarks, ToDo
<1>5. Tombstones'
  BY <1>1 DEF MarksInv, Tombstones, At
<1> QED
  BY <1>2, <1>3, <1>4, <1>5 DEF MarksInv

\* What a mark and an update do to a row.
LEMMA MarkRow ==
  ASSUME NEW now \in NoticeRow, NEW row \in NoticeRow, NEW answer
  PROVE  /\ MarkOf(now, row, answer).by = now.by
         /\ answer = "taken" => MarkOf(now, row, answer).st = "sent"
         /\ answer # "taken" => MarkOf(now, row, answer).st \in {now.st, "failed"}
<1>1. CASE answer = "taken"
  BY <1>1 DEF MarkOf, NoticeRow
<1>2. CASE answer # "taken"
  <2>1. \E n, st : st \in {now.st, "failed"} /\ MarkOf(now, row, answer) = [now EXCEPT !.tries = n, !.st = st]
    <3>1. CASE row.tries + 1 >= MaxRetries
      BY <1>2, <3>1 DEF MarkOf
    <3>2. CASE ~(row.tries + 1 >= MaxRetries)
      <4>1. MarkOf(now, row, answer) = [now EXCEPT !.tries = row.tries + 1, !.st = now.st]
        BY <1>2, <3>2 DEF MarkOf, NoticeRow
      <4> QED
        BY <4>1
    <3> QED
      BY <3>1, <3>2
  <2> QED
    BY <1>2, <2>1 DEF NoticeRow
<1> QED
  BY <1>1, <1>2

LEMMA UpdateRow ==
  ASSUME NEW row \in NoticeRow, NEW op
  PROVE  /\ Written(op, row).by = row.by /\ Written(op, row).st \in {row.st, "cancelled"}
         /\ op = "later" => Written(op, row).st = row.st
         /\ op # "later" => Written(op, row).st = "cancelled"
  BY DEF Written, NoticeRow

LEMMA PendingRow == \A u, due : Pending(u, due).st = "pending" /\ Pending(u, due).by = u
  BY DEF Pending, NoNotice

\* A row that nobody has marked, or whose erasure is under way.
LEMMA FreeRow ==
  ASSUME NEW n \in Notice, Free(n)
  PROVE  /\ \A q \in Proc : n \notin Marked(q)
         /\ \A q \in Proc : At(q, "tombstone") => req[q].user # notices[n].by
  BY DEF Free, Erasing

LEMMA ToDoProcess ==
  ASSUME MarksInv, NEW p \in Proc, Processes(p)
  PROVE  /\ OwnMarks(p) /\ ToDo(p)
         /\ \A x \in req[p].todo \cup req[p].now :
              /\ x[2].st = "pending"
              /\ x[1] \in Marked(p) => req[p].marks[x[1]].by = x[2].by
              /\ x[1] \notin Marked(p) =>
                   notices[x[1]].st = "deleted" \/ (notices[x[1]].st # "none" /\ notices[x[1]].by = x[2].by)
         /\ \A x \in req[p].todo, y \in req[p].todo \cup req[p].now : x[1] = y[1] => x = y /\ y \notin req[p].now
         /\ \A x, y \in req[p].now : x = y
         /\ req[p].at \in {"read", "send"} => req[p].now = {}
  BY DEF MarksInv, ToDo

LEMMA RowsWritten ==
  ASSUME RecordsOK, RequestsOK', MarksInv, NEW p \in Proc,
         NoticeCommits(p) \/ UpdateCommits(p)
  PROVE  MarksInv'
<1> USE DEF RecordsOK
<1>0. req = [q \in Proc |-> req[q]] /\ notices = [n \in Notice |-> notices[n]]
  BY DEF RequestsOK, NoticesOK
<1>1. \A q \in Proc : req'[q] = req[q] \/ req'[q].at \notin ProcessAt \cup {"tombstone"}
  <2>1. End(p)
    BY DEF NoticeCommits, UpdateCommits
  <2> QED
    BY <1>0, <2>1 DEF End, Idle, ProcessAt
<1>2. CASE NoticeCommits(p)
  <2>1. PICK n \in Unused : \E due : notices' = [notices EXCEPT ![n] = Pending(req[p].user, due)]
    BY <1>2 DEF NoticeCommits, Inserted
  <2>2. /\ n \in Notice /\ notices[n].st = "none" /\ notices[n].by = NoUser
        /\ \A q \in Proc : n \notin Marked(q)
    BY <2>1 DEF Unused, MarksInv, NoticesUnused
  <2>3. notices'[n].st = "pending" /\ \A m \in Notice \ {n} : notices'[m] = notices[m]
    BY <1>0, <2>1, <2>2, PendingRow
  <2>4. \A q \in Proc : At(q, "tombstone")' /\ <<"notice", n>> \in req[q].arg => FALSE
    <3>1. \A q \in Proc : At(q, "tombstone")' => At(q, "tombstone")
      BY <1>1 DEF At
    <3>2. \A q \in Proc : At(q, "tombstone") => req[q].user # NoUser
      BY AtUser, NoUserAssumption DEF At, UserRequest
    <3> QED
      BY <2>2, <3>1, <3>2 DEF MarksInv, Tombstones
  <2>5. \A m \in Notice : notices'[m] = notices[m] \/
           (/\ \A q \in Proc : m \notin Marked(q)
            /\ notices'[m].st # "none" /\ notices[m].st = "none")
    BY <2>2, <2>3
  <2>6. \A q \in Proc, m \in Notice :
           At(q, "tombstone")' /\ <<"notice", m>> \in req[q].arg => notices'[m].by = notices[m].by
    BY <2>3, <2>4
  <2> QED
    BY <1>1, <2>5, <2>6, RowsFrame
<1>3. CASE UpdateCommits(p)
  <2>1. req[p].arg \subseteq Notice \X NoticeRow
    BY <1>3, AtUser DEF UpdateCommits, At, Named, UserRequest, ArgOK
  <2>2. PICK n \in Notice : /\ Free(n)
                            /\ \/ UNCHANGED notices
                               \/ /\ notices[n].st # "deleted"
                                  /\ notices' = [notices EXCEPT ![n] = Written(req[p].op, notices[n])]
    BY <1>3, <2>1 DEF UpdateCommits
  <2>3. \/ UNCHANGED notices
        \/ /\ notices[n].st # "deleted" /\ notices'[n].by = notices[n].by
           /\ notices'[n].st \in {notices[n].st, "cancelled"}
           /\ \A m \in Notice \ {n} : notices'[m] = notices[m]
    BY <1>0, <2>2, UpdateRow DEF NoticesOK
  <2>4. \A m \in Notice : notices'[m].by = notices[m].by
    BY <2>3
  <2>5. \A m \in Notice : notices'[m] = notices[m] \/
           /\ \A q \in Proc : m \notin Marked(q)
           /\ \/ notices[m].st = "none" /\ notices'[m].by = NoUser
              \/ /\ notices[m].st \notin {"none", "deleted"} /\ notices'[m].st # "none"
                 /\ notices'[m].by = notices[m].by
    <3>1. \A q \in Proc : n \notin Marked(q)
      BY <2>2, FreeRow
    <3>2. notices[n].st = "none" => notices[n].by = NoUser
      BY DEF MarksInv, NoticesUnused
    <3> QED
      BY <2>3, <3>1, <3>2
  <2> QED
    BY <1>1, <2>4, <2>5, RowsFrame
<1> QED
  BY <1>2, <1>3

LEMMA ProcessBegins ==
  ASSUME RecordsOK, RequestsOK', MarksInv, NEW p \in Proc, process_notifications(p)
  PROVE  MarksInv'
<1> USE DEF RecordsOK
<1>0. req = [q \in Proc |-> req[q]]
  BY DEF RequestsOK
<1>1. PICK u \in User : \E mine \in {{}} \cup {{n} : n \in Inserted(Unused)} : \E passes :
        req' = [req EXCEPT ![p] = [at |-> "read", op |-> "process", saw |-> users[u],
                                   user |-> IF mine = {} THEN NoUser ELSE u,
                                   passes |-> passes, todo |-> {}, now |-> {}, sent |-> {},
                                   marks |-> [n \in mine |-> Pending(u, TRUE)]]]
  BY DEF process_notifications, Begin
<1>2. PICK mine \in {{}} \cup {{n} : n \in Inserted(Unused)} : \E passes :
        req' = [req EXCEPT ![p] = [at |-> "read", op |-> "process", saw |-> users[u],
                                   user |-> IF mine = {} THEN NoUser ELSE u,
                                   passes |-> passes, todo |-> {}, now |-> {}, sent |-> {},
                                   marks |-> [n \in mine |-> Pending(u, TRUE)]]]
  BY <1>1
<1> DEFINE owner == IF mine = {} THEN NoUser ELSE u
           added == [n \in mine |-> Pending(u, TRUE)]
<1>3. /\ \A q \in Proc \ {p} : req'[q] = req[q]
      /\ req'[p].at = "read" /\ req'[p].op = "process" /\ req'[p].todo = {} /\ req'[p].now = {}
      /\ req'[p].user = owner /\ req'[p].marks = added
  <2>1. PICK passes : req' = [req EXCEPT ![p] = [at |-> "read", op |-> "process", saw |-> users[u],
                                   user |-> owner,
                                   passes |-> passes, todo |-> {}, now |-> {}, sent |-> {},
                                   marks |-> added]]
    BY <1>2
  <2> HIDE DEF owner, added
  <2> QED
    BY <1>0, <2>1
<1>4. /\ mine \subseteq Unused
      /\ \A n \in mine : /\ n \in Notice /\ notices[n].st = "none" /\ notices[n].by = NoUser
                         /\ \A q \in Proc : n \notin Marked(q)
  <2>1. mine \subseteq Unused
    BY DEF Inserted
  <2> QED
    BY <2>1 DEF Unused, MarksInv, NoticesUnused
<1>5. Marked(p)' = mine
  BY <1>3 DEF Marked, Processes, Serves
<1>6. UNCHANGED notices
  BY DEF process_notifications, noticeVars
<1>7. \A n \in mine : \A q \in Proc : At(q, "tombstone") => <<"notice", n>> \notin req[q].arg
  <2>1. \A q \in Proc : At(q, "tombstone") => req[q].user # NoUser
    BY AtUser, NoUserAssumption DEF At, UserRequest
  <2> QED
    BY <1>4, <2>1 DEF MarksInv, Tombstones
<1>8. OwnMarks(p)'
  <2>1. \A n \in mine : req'[p].user = u /\ u # NoUser /\ req'[p].marks[n] = Pending(u, TRUE)
    BY <1>3, NoUserAssumption
  <2>2. Pending(u, TRUE).st = "pending" /\ Pending(u, TRUE).by = u
    BY PendingRow
  <2>3. \A n \in mine : req'[p].marks[n].st = "pending" /\ req'[p].marks[n].by = u
    BY <2>1, <2>2
  <2> QED
    BY <1>4, <1>5, <1>6, <2>1, <2>3 DEF OwnMarks
<1>9. ToDo(p)'
  BY <1>3 DEF ToDo
<1> QED
  BY <1>3, <1>4, <1>5, <1>6, <1>7, <1>8, <1>9, ProcessFrame

LEMMA ProcessReads ==
  ASSUME RecordsOK, RequestsOK', MarksInv, NEW p \in Proc, get_pending_notifications(p)
  PROVE  MarksInv'
<1> USE DEF RecordsOK
<1>0. req = [q \in Proc |-> req[q]]
  BY DEF RequestsOK
<1>1. NoticeRequest(req[p]) /\ Processes(p) /\ req[p].at = "read"
  BY MarkedRows DEF get_pending_notifications, At, ProcessAt
<1>2. /\ \A q \in Proc \ {p} : req'[q] = req[q]
      /\ req'[p].at = "send" /\ req'[p].op = "process" /\ req'[p].now = req[p].now
      /\ req'[p].user = req[p].user /\ req'[p].marks = req[p].marks
      /\ req'[p].todo = {<<n, Seen(p, n)>> : n \in {m \in Notice : PendingDue(Seen(p, m))}}
  BY <1>0, <1>1 DEF get_pending_notifications, NoticeRequest
<1>3. Marked(p)' = Marked(p) /\ req[p].now = {} /\ UNCHANGED notices
  BY <1>1, <1>2, ToDoProcess DEF Marked, Processes, Serves, get_pending_notifications, noticeVars
<1>4. OwnMarks(p)'
  BY <1>2, <1>3 DEF MarksInv, OwnMarks
<1>5. \A x \in req'[p].todo : /\ x[1] \in Notice /\ x = <<x[1], Seen(p, x[1])>> /\ x[2] = Seen(p, x[1])
                              /\ Seen(p, x[1]).st = "pending"
  BY <1>2 DEF PendingDue
<1>6. \A n \in Notice : /\ n \in Marked(p) => Seen(p, n) = req[p].marks[n]
                        /\ n \notin Marked(p) => Seen(p, n) = notices[n]
  BY DEF Seen
<1>7. ToDo(p)'
  BY <1>2, <1>3, <1>5, <1>6 DEF ToDo
<1> QED
  BY <1>2, <1>3, <1>4, <1>7, ProcessFrame

LEMMA ProcessSends ==
  ASSUME RecordsOK, RequestsOK', MarksInv, NEW p \in Proc, Send(p)
  PROVE  MarksInv'
<1> USE DEF RecordsOK
<1>0. req = [q \in Proc |-> req[q]]
  BY DEF RequestsOK
<1>1. NoticeRequest(req[p]) /\ Processes(p) /\ req[p].at = "send"
  BY MarkedRows DEF Send, At, ProcessAt
<1>2. PICK x \in req[p].todo, answer \in {"taken", "refused", "lost"} :
        req' = [req EXCEPT ![p] =
                  [req[p] EXCEPT !.at = answer, !.todo = req[p].todo \ {x}, !.now = {x},
                                 !.sent = IF answer = "refused" THEN req[p].sent ELSE req[p].sent \cup {x}]]
  BY <1>1 DEF Send, NoticeRequest
<1>3. /\ \A q \in Proc \ {p} : req'[q] = req[q]
      /\ req'[p].at \in {"taken", "refused", "lost"} /\ req'[p].op = "process"
      /\ req'[p].user = req[p].user /\ req'[p].marks = req[p].marks
      /\ req'[p].todo = req[p].todo \ {x} /\ req'[p].now = {x}
  <2> DEFINE s == IF answer = "refused" THEN req[p].sent ELSE req[p].sent \cup {x}
  <2>1. req' = [req EXCEPT ![p] = [req[p] EXCEPT !.at = answer, !.todo = req[p].todo \ {x}, !.now = {x},
                                                 !.sent = s]]
    BY <1>2
  <2> HIDE DEF s
  <2> QED
    BY <1>0, <1>1, <2>1 DEF NoticeRequest
<1>4. Marked(p)' = Marked(p) /\ UNCHANGED notices
  BY <1>1, <1>3 DEF Marked, Processes, Serves, Send
<1>5. OwnMarks(p)'
  BY <1>3, <1>4 DEF MarksInv, OwnMarks
<1>6. ToDo(p)'
  BY <1>1, <1>3, <1>4, ToDoProcess DEF ToDo
<1> QED
  BY <1>3, <1>4, <1>5, <1>6, ProcessFrame

\* What a process sees of the row that it is about to mark.
LEMMA SeenRow ==
  ASSUME RecordsOK, MarksInv, NEW p \in Proc, Processes(p), NEW x \in req[p].now, Seen(p, x[1]).st # "deleted"
  PROVE  /\ Seen(p, x[1]) \in NoticeRow
         /\ Seen(p, x[1]).by = x[2].by /\ Seen(p, x[1]).st # "none"
<1> USE DEF RecordsOK
<1>1. NoticeRequest(req[p]) /\ Marked(p) = DOMAIN req[p].marks
  BY MarkedRows
<1>2. x[1] \in Notice
  BY <1>1 DEF NoticeRequest
<1>3. CASE x[1] \in Marked(p)
  <2>1. Seen(p, x[1]) = req[p].marks[x[1]]
    BY <1>3 DEF Seen
  <2>2. req[p].marks[x[1]] \in NoticeRow
    BY <1>1, <1>3 DEF NoticeRequest
  <2> QED
    BY <1>3, <2>1, <2>2, ToDoProcess DEF OwnMarks
<1>4. CASE x[1] \notin Marked(p)
  <2>1. Seen(p, x[1]) = notices[x[1]]
    BY <1>4 DEF Seen
  <2> QED
    BY <1>2, <1>4, <2>1, ToDoProcess DEF NoticesOK
<1> QED
  BY <1>3, <1>4

LEMMA ProcessEnds ==
  ASSUME RecordsOK, RequestsOK', MarksInv, NEW p \in Proc, End(p), UNCHANGED notices
  PROVE  MarksInv'
<1>1. \A q \in Proc : req'[q] = req[q] \/ req'[q].at \notin ProcessAt \cup {"tombstone"}
  BY DEF End, Idle, ProcessAt, RecordsOK, RequestsOK
<1> QED
  BY <1>1, RowsFrame DEF RecordsOK

LEMMA ProcessMarks ==
  ASSUME RecordsOK, RequestsOK', MarksInv, NEW p \in Proc, Mark(p)
  PROVE  MarksInv'
<1> USE DEF RecordsOK
<1>0. req = [q \in Proc |-> req[q]]
  BY DEF RequestsOK
<1>1. NoticeRequest(req[p]) /\ Processes(p)
  BY MarkedRows DEF Mark, At, ProcessAt
<1>2. UNCHANGED notices
  BY DEF Mark, RolledBack
<1>3. PICK x \in req[p].now :
        /\ x[1] \in Marked(p) \/ Free(x[1])
        /\ \/ End(p)
           \/ /\ Seen(p, x[1]).st # "deleted"
              /\ req' = [req EXCEPT ![p] =
                           [req[p] EXCEPT !.at = "send", !.now = {},
                                          !.marks = With(@, x[1], MarkOf(Seen(p, x[1]), x[2], req[p].at))]]
  BY DEF Mark, RolledBack
<1>4. CASE End(p)
  BY <1>2, <1>4, ProcessEnds
<1>5. CASE ~End(p)
  <2> DEFINE marks == With(req[p].marks, x[1], MarkOf(Seen(p, x[1]), x[2], req[p].at))
             row == [req[p] EXCEPT !.at = "send", !.now = {}, !.marks = marks]
  <2>1. /\ \A q \in Proc \ {p} : req'[q] = req[q]
        /\ req'[p].at = "send" /\ req'[p].op = "process" /\ req'[p].now = {} /\ req'[p].todo = req[p].todo
        /\ req'[p].user = req[p].user /\ req'[p].marks = marks
        /\ Seen(p, x[1]).st # "deleted"
    <3>1. /\ row.at = "send" /\ row.op = "process" /\ row.now = {} /\ row.todo = req[p].todo
          /\ row.user = req[p].user /\ row.marks = marks
      <4> HIDE DEF marks
      <4> QED
        BY <1>1 DEF NoticeRequest
    <3>2. req' = [req EXCEPT ![p] = row] /\ Seen(p, x[1]).st # "deleted"
      BY <1>3, <1>5
    <3> HIDE DEF row
    <3> QED
      BY <1>0, <3>1, <3>2
  <2>2. x[1] \in Notice /\ x[2] \in NoticeRow /\ x[2].st = "pending"
    BY <1>1, ToDoProcess DEF NoticeRequest
  <2>3. Marked(p) = DOMAIN req[p].marks /\ Marked(p)' = Marked(p) \cup {x[1]}
    BY <1>1, <2>1 DEF Marked, Processes, Serves, With
  <2>4. /\ \A n \in Marked(p) \ {x[1]} : req'[p].marks[n] = req[p].marks[n]
        /\ req'[p].marks[x[1]] = MarkOf(Seen(p, x[1]), x[2], req[p].at)
    BY <2>1, <2>3 DEF With
  <2>5. MarkOf(Seen(p, x[1]), x[2], req[p].at).by = x[2].by /\ MarkOf(Seen(p, x[1]), x[2], req[p].at).st # "none"
    BY <1>1, <2>1, <2>2, SeenRow, MarkRow
  <2>6. CASE x[1] \in Marked(p)
    <3>1. Marked(p)' = Marked(p)
      BY <2>3, <2>6
    <3>2. req[p].marks[x[1]].by = x[2].by
      BY <1>1, <2>6, ToDoProcess
    <3>3. \A n \in Marked(p) : req'[p].marks[n].by = req[p].marks[n].by /\ req'[p].marks[n].st # "none"
      BY <2>4, <2>5, <3>2 DEF MarksInv, OwnMarks
    <3>4. OwnMarks(p)'
      BY <1>2, <2>1, <3>1, <3>3 DEF MarksInv, OwnMarks
    <3>5. ToDo(p)'
      BY <1>1, <1>2, <2>1, <3>1, <3>3, ToDoProcess DEF ToDo
    <3> QED
      BY <1>2, <2>1, <3>1, <3>4, <3>5, ProcessFrame
  <2>7. CASE x[1] \notin Marked(p)
    <3>1. /\ \A q \in Proc : x[1] \notin Marked(q)
          /\ \A q \in Proc : At(q, "tombstone") => req[q].user # notices[x[1]].by
      BY <1>3, <2>2, <2>7, FreeRow
    <3>2. notices[x[1]].st \notin {"deleted", "none"} /\ notices[x[1]].by = x[2].by
      BY <1>1, <2>1, <2>7, ToDoProcess DEF Seen
    <3>3. OwnMarks(p)'
      BY <1>2, <2>1, <2>3, <2>4, <2>5, <3>2 DEF MarksInv, OwnMarks
    <3>4. \A y \in req[p].todo : y[1] # x[1]
      BY <1>1, ToDoProcess
    <3>5. ToDo(p)'
      BY <1>1, <1>2, <2>1, <2>3, <2>4, <3>4, ToDoProcess DEF ToDo
    <3>6. \A q \in Proc : At(q, "tombstone") => <<"notice", x[1]>> \notin req[q].arg
      BY <2>2, <3>1 DEF MarksInv, Tombstones
    <3> QED
      BY <1>2, <2>1, <2>3, <3>1, <3>3, <3>5, <3>6, ProcessFrame
  <2> QED
    BY <2>6, <2>7
<1> QED
  BY <1>4, <1>5

LEMMA ProcessAgain ==
  ASSUME RecordsOK, RequestsOK', MarksInv, NEW p \in Proc, Again(p)
  PROVE  MarksInv'
<1> USE DEF RecordsOK
<1>0. req = [q \in Proc |-> req[q]]
  BY DEF RequestsOK
<1>1. NoticeRequest(req[p]) /\ Processes(p) /\ req[p].at = "send"
  BY MarkedRows DEF Again, At, ProcessAt
<1>2. req' = [req EXCEPT ![p] = [req[p] EXCEPT !.at = "read"]]
  BY DEF Again, Goto
<1>3. /\ \A q \in Proc \ {p} : req'[q] = req[q]
      /\ req'[p].at = "read" /\ req'[p].op = "process"
      /\ req'[p].user = req[p].user /\ req'[p].marks = req[p].marks
      /\ req'[p].todo = req[p].todo /\ req'[p].now = req[p].now
  BY <1>0, <1>1, <1>2 DEF NoticeRequest
<1>4. Marked(p)' = Marked(p) /\ UNCHANGED notices
  BY <1>1, <1>3 DEF Marked, Processes, Serves, Again, noticeVars
<1>5. OwnMarks(p)'
  BY <1>3, <1>4 DEF MarksInv, OwnMarks
<1>6. ToDo(p)'
  BY <1>1, <1>3, <1>4, ToDoProcess DEF ToDo
<1> QED
  BY <1>3, <1>4, <1>5, <1>6, ProcessFrame

\* The marks become rows.
LEMMA ProcessWrites ==
  ASSUME RecordsOK, RequestsOK', MarksInv, NEW p \in Proc, ProcessCommits(p)
  PROVE  MarksInv'
<1> USE DEF RecordsOK
<1>1. Processes(p)
  BY MarkedRows DEF ProcessCommits, At, ProcessAt
<1>2. /\ \A q \in Proc \ {p} : req'[q] = req[q]
      /\ req'[p].at = "idle"
  BY DEF ProcessCommits, End, Idle, RequestsOK
<1>3. /\ \A q \in Proc \ {p} : /\ Processes(q)' = Processes(q) /\ Marked(q)' = Marked(q)
                               /\ At(q, "tombstone")' = At(q, "tombstone")
      /\ ~Processes(p)' /\ Marked(p)' = {} /\ ~At(p, "tombstone")'
  BY <1>2 DEF Processes, Serves, Marked, At
<1>4. \A n \in Notice : /\ n \notin Marked(p) => notices'[n] = notices[n]
                        /\ n \in Marked(p) => notices'[n] = req[p].marks[n]
  BY DEF ProcessCommits, Seen
<1>5. \A n \in Marked(p) :
        /\ n \in Notice /\ notices'[n].st # "none" /\ notices[n].st # "deleted"
        /\ notices[n].st # "none" => notices'[n].by = notices[n].by
  BY <1>4, MarkedRows DEF MarksInv, OwnMarks
<1>6. \A q \in Proc \ {p} : \A n \in Marked(q) : n \in Notice /\ n \notin Marked(p) /\ notices'[n] = notices[n]
  BY <1>4, MarkedRows DEF MarksInv, MarksApart
<1>7. NoticesUnused'
  BY <1>4, <1>5 DEF MarksInv, NoticesUnused
<1>8. MarksApart'
  BY <1>3 DEF MarksInv, MarksApart
<1>9. ASSUME NEW q \in Proc
      PROVE  OwnMarks(q)' /\ ToDo(q)'
  <2>1. CASE q = p
    BY <1>3, <2>1 DEF OwnMarks, ToDo
  <2>2. CASE q # p
    <3>0. req'[q] = req[q] /\ Marked(q)' = Marked(q) /\ Processes(q)' = Processes(q)
      BY <1>2, <1>3, <2>2
    <3>1. OwnMarks(q)'
      <4>1. OwnMarks(q)
        BY DEF MarksInv
      <4>2. \A n \in Marked(q) : notices'[n] = notices[n]
        BY <1>6, <2>2
      <4> QED
        BY <3>0, <4>1, <4>2 DEF OwnMarks
    <3>2. CASE Processes(q)
      <4>1. \A x \in req[q].todo \cup req[q].now : x[1] \in Notice
        BY <3>2, MarkedRows DEF NoticeRequest
      <4>2. \A x \in req[q].todo \cup req[q].now : x[1] \notin Marked(q) =>
              notices'[x[1]].st = "deleted" \/ (notices'[x[1]].st # "none" /\ notices'[x[1]].by = x[2].by)
        BY <1>4, <1>5, <3>2, <4>1, ToDoProcess
      <4> QED
        BY <3>0, <3>1, <3>2, <4>2, ToDoProcess DEF ToDo
    <3>3. CASE ~Processes(q)
      BY <3>0, <3>1, <3>3 DEF ToDo
    <3> QED
      BY <3>1, <3>2, <3>3
  <2> QED
    BY <2>1, <2>2
<1>10. Tombstones'
  BY <1>2, <1>3, <1>4 DEF MarksInv, Tombstones
<1> QED
  BY <1>7, <1>8, <1>9, <1>10 DEF MarksInv

LEMMA RecordsFrame ==
  ASSUME RecordsOK, RequestsOK', MarksInv, UNCHANGED notices, NEW at,
         at \cap (ProcessAt \cup {"tombstone"}) = {}, Moves(at)
  PROVE  MarksInv'
<1>1. \A q \in Proc : req'[q] = req[q] \/ req'[q].at \notin ProcessAt \cup {"tombstone"}
  BY DEF Moves, Idle, ProcessAt
<1> QED
  BY <1>1, RowsFrame DEF RecordsOK

\* The rows of the user that is erased are nobody else's, and nobody marks them.
LEMMA ErasureMarks ==
  ASSUME RecordsOK, RequestsOK', MarksInv, NEW p \in Proc, EraseStep(p)
  PROVE  MarksInv'
<1> USE DEF RecordsOK
<1>0. req = [q \in Proc |-> req[q]]
  BY DEF RequestsOK
<1>1. CASE EraseRecords(p)
  <2> DEFINE u == req[p].user
             r == [req[p] EXCEPT !.at = "tombstone", !.arg = Records(u)]
  <2>1. UserRequest(req[p]) /\ ~Processes(p) /\ ~At(p, "tombstone")
    BY <1>1, AtUser, MarkedRows DEF EraseRecords, At, ProcessAt
  <2>2. r.at = "tombstone" /\ r.user = u /\ r.arg = Records(u)
    BY <2>1 DEF UserRequest
  <2>3. req' = [req EXCEPT ![p] = r] /\ UNCHANGED notices
    BY <1>1 DEF EraseRecords, noticeVars
  <2>4. /\ \A q \in Proc \ {p} : req'[q] = req[q]
        /\ req'[p].at = "tombstone" /\ req'[p].user = u /\ req'[p].arg = Records(u)
    <3> HIDE DEF r
    <3> QED
      BY <1>0, <2>2, <2>3
  <2>5. ~Processes(p)' /\ Marked(p)' = {} /\ Marked(p) = {}
    <3>1. RequestOK(req'[p])
      BY DEF RequestsOK
    <3>2. ~Processes(p)'
      BY <2>4, <3>1, ProcessRow DEF Processes, Serves, ProcessAt
    <3> QED
      BY <2>1, <3>2 DEF Marked
  <2>6. \A q \in Proc \ {p} : /\ Processes(q)' = Processes(q) /\ Marked(q)' = Marked(q)
                              /\ At(q, "tombstone")' = At(q, "tombstone")
    BY <2>4 DEF Processes, Serves, Marked, At
  <2>7. NoticesUnused' /\ MarksApart'
    BY <2>3, <2>5, <2>6 DEF MarksInv, NoticesUnused, MarksApart
  <2>8. OwnMarks(p)' /\ ToDo(p)'
    BY <2>5 DEF OwnMarks, ToDo
  <2>9. \A q \in Proc \ {p} : OwnMarks(q)' /\ ToDo(q)'
    BY <2>3, <2>4, <2>6 DEF MarksInv, OwnMarks, ToDo
  <2>10. \A n \in Notice : <<"notice", n>> \in Records(u) =>
           notices[n].by = u /\ \A q \in Proc : n \notin Marked(q)
    BY <1>1 DEF EraseRecords, Records
  <2>11. \A q \in Proc : At(q, "tombstone") => req[q].user # u
    BY <1>1 DEF EraseRecords, Erasing
  <2>12. \A q \in Proc : At(q, "tombstone")' <=> (q = p \/ At(q, "tombstone"))
    BY <2>4, <2>6 DEF At
  <2>13. \A q \in Proc \ {p} : req'[q] = req[q]
    BY <2>4
  <2>14. \A q \in Proc : Marked(q)' = Marked(q)
    BY <2>5, <2>6
  <2>15. Tombstones'
    <3> HIDE DEF u
    <3>1. ASSUME NEW q \in Proc \ {p}, At(q, "tombstone")'
          PROVE  /\ \A k \in Proc : At(k, "tombstone")' /\ req'[k].user = req'[q].user => k = q
                 /\ \A n \in Notice : <<"notice", n>> \in req'[q].arg =>
                      notices'[n].by = req'[q].user /\ \A k \in Proc : n \notin Marked(k)'
      BY <2>3, <2>4, <2>11, <2>12, <2>13, <2>14, <3>1 DEF MarksInv, Tombstones
    <3>2. /\ \A k \in Proc : At(k, "tombstone")' /\ req'[k].user = req'[p].user => k = p
          /\ \A n \in Notice : <<"notice", n>> \in req'[p].arg =>
               notices'[n].by = req'[p].user /\ \A k \in Proc : n \notin Marked(k)'
      BY <2>3, <2>4, <2>10, <2>11, <2>12, <2>13, <2>14
    <3> QED
      BY <3>1, <3>2 DEF Tombstones
  <2> QED
    BY <2>7, <2>8, <2>9, <2>15 DEF MarksInv
<1>2. CASE EraseCommits(p)
  <2>1. /\ At(p, "tombstone") /\ req'[p].at = "idle" /\ \A q \in Proc \ {p} : req'[q] = req[q]
    BY <1>0, <1>2 DEF EraseCommits, EraseAccount, End, Idle
  <2>2. \A q \in Proc : req'[q] = req[q] \/ req'[q].at \notin ProcessAt \cup {"tombstone"}
    BY <2>1 DEF ProcessAt
  <2>3. \A n \in Notice : notices'[n] = IF <<"notice", n>> \in req[p].arg
                                        THEN [NoNotice EXCEPT !.st = "deleted"] ELSE notices[n]
    BY <1>2 DEF EraseCommits, EraseNotices
  <2>4. [NoNotice EXCEPT !.st = "deleted"].st = "deleted"
    BY DEF NoNotice
  <2>5. \A n \in Notice : notices'[n] = notices[n] \/
          (notices'[n].st = "deleted" /\ \A q \in Proc : n \notin Marked(q))
    BY <2>1, <2>3, <2>4 DEF MarksInv, Tombstones
  <2>6. \A q \in Proc, n \in Notice :
          At(q, "tombstone")' /\ <<"notice", n>> \in req[q].arg => notices'[n].by = notices[n].by
    <3> SUFFICES ASSUME NEW q \in Proc, NEW n \in Notice,
                        At(q, "tombstone")', <<"notice", n>> \in req[q].arg
                 PROVE  notices'[n] = notices[n]
      OBVIOUS
    <3>1. q # p /\ At(q, "tombstone")
      BY <2>1 DEF At
    <3>2. <<"notice", n>> \notin req[p].arg
      BY <2>1, <3>1 DEF MarksInv, Tombstones
    <3> QED
      BY <2>3, <3>2
  <2> QED
    BY <2>2, <2>5, <2>6, RowsFrame
<1> QED
  BY <1>1, <1>2 DEF EraseStep

LEMMA NoticeMarks ==
  ASSUME RecordsOK, RequestsOK', MarksInv, NoticeNext
  PROVE  MarksInv'
<1> USE DEF RecordsOK
<1>0. req = [q \in Proc |-> req[q]] /\ notices = [n \in Notice |-> notices[n]]
  BY DEF RequestsOK, NoticesOK
<1>1. ASSUME NEW p \in Proc, create_notification(p) \/ update_notification(p)
      PROVE  MarksInv'
  <2>1. UNCHANGED notices
    BY <1>1 DEF create_notification, update_notification, noticeVars
  <2>2. (\A q \in Proc \ {p} : req'[q] = req[q]) /\ req'[p].at \in {"notify", "later", "cancel"}
    BY <1>0, <1>1 DEF create_notification, update_notification, Request, Begin
  <2>3. Moves({"notify", "later", "cancel"})
    BY <2>2 DEF Moves
  <2> QED
    BY <2>1, <2>3, RecordsFrame DEF ProcessAt
<1>2. ASSUME NEW p \in Proc, ProcessFails(p)
      PROVE  MarksInv'
  BY <1>2, ProcessEnds DEF ProcessFails, RolledBack
<1>3. ASSUME NEW n \in Notice, Due(n)
      PROVE  MarksInv'
  <2>1. /\ UNCHANGED req /\ notices[n].st = "pending" /\ \A q \in Proc : n \notin Marked(q)
        /\ \A m \in Notice \ {n} : notices'[m] = notices[m]
        /\ notices'[n].st = notices[n].st /\ notices'[n].by = notices[n].by
    BY <1>0, <1>3, FreeRow DEF Due, NoticesOK, NoticeRow
  <2>2. \A m \in Notice : notices'[m] = notices[m] \/
           /\ \A q \in Proc : m \notin Marked(q)
           /\ notices[m].st \notin {"none", "deleted"} /\ notices'[m].st # "none"
           /\ notices'[m].by = notices[m].by
    BY <2>1
  <2>3. \A m \in Notice : notices'[m].by = notices[m].by
    BY <2>1
  <2>4. \A q \in Proc : req'[q] = req[q]
    BY <2>1
  <2> QED
    BY <2>2, <2>3, <2>4, RowsFrame
<1> QED
  BY <1>1, <1>2, <1>3, RowsWritten, ProcessBegins, ProcessReads, ProcessSends, ProcessMarks, ProcessAgain,
     ProcessWrites DEF NoticeNext, NoticeStarts, NoticeGoes

LEMMA MarksKept == RecordsOK /\ RequestsOK' /\ MarksInv /\ [Next]_vars => MarksInv'
<1> SUFFICES ASSUME RecordsOK, RequestsOK', MarksInv, [Next]_vars
             PROVE  MarksInv'
  OBVIOUS
<1> USE DEF RecordsOK
<1>1. CASE AccountStep
  BY <1>1, AccountMoves, RecordsFrame DEF AccountStep, noticeVars, AccountAt, ProcessAt
<1>2. CASE OrgStep
  BY <1>2, OrgMoves, RecordsFrame DEF OrgStep, noticeVars, OrgAt, ProcessAt
<1>3. CASE AgreementStep
  <2>1. AgreementAt \cap (ProcessAt \cup {"tombstone"}) = {}
    BY DEF AgreementAt, ProcessAt, Answers
  <2> QED
    BY <1>3, <2>1, AgreementMoves, RecordsFrame DEF AgreementStep, noticeVars
<1>4. CASE NoticeStep
  BY <1>4, NoticeMarks DEF NoticeStep
<1>5. CASE EuipoStep \/ UNCHANGED vars
  <2>1. UNCHANGED <<notices, req>>
    BY <1>5 DEF EuipoStep, OfEuipo, ClientVars, noticeVars, vars
  <2>2. Moves({})
    BY <2>1 DEF Moves
  <2>3. {} \cap (ProcessAt \cup {"tombstone"}) = {} /\ UNCHANGED notices
    BY <2>1
  <2> QED
    BY <2>2, <2>3, RecordsFrame
<1> QED
  BY <1>1, <1>2, <1>3, <1>4, <1>5, ErasureMarks DEF Next

LEMMA MarksStart == Init => MarksInv
<1> SUFFICES ASSUME Init
             PROVE  MarksInv
  OBVIOUS
<1>1. \A p \in Proc : req[p].at = "idle"
  BY DEF Init, AccountInit, Idle
<1>2. \A p \in Proc : ~Processes(p) /\ Marked(p) = {} /\ ~At(p, "tombstone")
  BY <1>1 DEF Processes, Serves, Marked, At
<1>3. NoticesUnused
  <2>1. PICK u, some : notices = [n \in Notice |-> IF n \in some /\ used.lane = "notice"
                                                  THEN Pending(u, FALSE) ELSE NoNotice]
    BY DEF Init, NoticeInit
  <2>2. Pending(u, FALSE).st = "pending" /\ NoNotice.by = NoUser
    BY PendingRow DEF NoNotice
  <2> QED
    BY <2>1, <2>2 DEF NoticesUnused
<1> QED
  BY <1>2, <1>3 DEF MarksInv, MarksApart, OwnMarks, ToDo, Tombstones

-----------------------------------------------------------------------------
(* What an erasure leaves of a user.                                       *)

\* A request of a user who is erased crossed the erasure.
ErasedIsSeen ==
  \A p \in Proc :
    req[p].at \in Named \cup ProcessAt /\ req[p].user # NoUser /\ req[p].saw.erased =>
      <<"erased", req[p].user>> \in crossed

ErasedInv == ErasedStaysErased /\ ErasedIsSeen

\* A request that begins has loaded an active account, or is not about one.
Loads(p) ==
  \/ req'[p].at \notin Named \cup ProcessAt
  \/ req'[p].user = NoUser
  \/ req'[p].user \in User /\ Active(req'[p].user) /\ req'[p].saw = users[req'[p].user]

LEMMA RequestLoads ==
  ASSUME RequestsOK, NEW p \in Proc, NEW lane, NEW u \in User, NEW op, NEW more,
         Request(p, lane, u, op, more)
  PROVE  (\A q \in Proc \ {p} : req'[q] = req[q]) /\ Loads(p)
  BY DEF Request, Begin, Loads, RequestsOK

LEMMA StartsLoad ==
  ASSUME RequestsOK, NEW p \in Proc,
         AccountStarts(p) \/ OrgStarts(p) \/ AgreementStarts(p) \/ NoticeStarts(p)
  PROVE  (\A q \in Proc \ {p} : req'[q] = req[q]) /\ Loads(p)
<1>0. req = [q \in Proc |-> req[q]]
  BY DEF RequestsOK
<1>1. ASSUME NEW lanes, NEW r, Begin(p, lanes, r), r.at \notin Named \cup ProcessAt
      PROVE  (\A q \in Proc \ {p} : req'[q] = req[q]) /\ Loads(p)
  BY <1>0, <1>1 DEF Begin, Loads
<1>2. CASE AccountStarts(p)
  <2>1. CASE begin_enrollment(p) \/ enable(p) \/ disable(p) \/ verify_second_factor(p) \/ update_user(p)
             \/ upload_my_avatar(p) \/ delete_my_avatar(p) \/ create_case(p)
    <3>1. \E u \in User : \E op, more : Request(p, "account", u, op, more)
      BY <2>1 DEF begin_enrollment, enable, disable, verify_second_factor, update_user,
         upload_my_avatar, delete_my_avatar, create_case
    <3> QED
      BY <3>1, RequestLoads
  <2>2. CASE register_request(p) \/ request_wallet_nonce(p) \/ WriteCase(p)
    <3>1. Idle.at \notin Named \cup ProcessAt
      BY DEF Idle, Named, ProcessAt
    <3> QED
      BY <1>1, <2>2, <3>1, CaseWritten DEF register_request, request_wallet_nonce
  <2>3. CASE register(p) \/ register_verify(p) \/ verify_wallet_signature(p)
    <3>1. \A u : Registers(p, u).at = "create" /\ [Registers(p, u) EXCEPT !.at = "wallet"].at = "wallet"
      BY DEF Registers
    <3>2. Idle.at \notin Named \cup ProcessAt
      BY DEF Idle, Named, ProcessAt
    <3>3. "create" \notin Named \cup ProcessAt /\ "wallet" \notin Named \cup ProcessAt
      BY DEF Named, ProcessAt
    <3> QED
      BY <1>1, <2>3, <3>1, <3>2, <3>3 DEF register, register_verify, verify_wallet_signature
  <2>4. CASE update_by_admin(p)
    <3>1. PICK r : Begin(p, {"account"}, r) /\ r.at = "admin"
      BY <2>4 DEF update_by_admin
    <3> QED
      BY <1>1, <3>1 DEF Named, ProcessAt
  <2>5. CASE erase_user(p)
    <3>1. PICK r : Begin(p, Lane \ {"euipo"}, r) /\ r.at = "erase"
      BY <2>5 DEF erase_user
    <3> QED
      BY <1>1, <3>1 DEF Named, ProcessAt
  <2> QED
    BY <1>2, <2>1, <2>2, <2>3, <2>4, <2>5 DEF AccountStarts
<1>3. CASE OrgStarts(p)
  <2>1. \E u \in User : \E op, more : Request(p, "org", u, op, more)
    BY <1>3 DEF OrgStarts, create_organization, switch_default_organization, create_invite,
       accept_invite, revoke_invite
  <2> QED
    BY <2>1, RequestLoads
<1>4. CASE AgreementStarts(p)
  <2>1. CASE generate_proposal(p)
    <3>1. \E u \in User : \E more : Request(p, "agreement", u, "propose", more)
      BY <2>1 DEF generate_proposal
    <3> QED
      BY <3>1, RequestLoads
  <2>2. CASE ~generate_proposal(p)
    <3>1. (\A q \in Proc \ {p} : req'[q] = req[q]) /\ req'[p].at \in {"sent", "call", "hook"} \cup Answers
      <4>1. send_proposal(p) \/ respond_to_proposal(p) =>
              (\A q \in Proc \ {p} : req'[q] = req[q]) /\ req'[p].at \in {"sent"} \cup Answers
        BY <1>0 DEF send_proposal, respond_to_proposal, Reads, Begin
      <4>2. create_signature_request(p) => (\A q \in Proc \ {p} : req'[q] = req[q]) /\ req'[p].at = "call"
        BY <1>0 DEF create_signature_request, Begin
      <4>3. (\E k \in Signature : yousign_webhook(p, k)) =>
              (\A q \in Proc \ {p} : req'[q] = req[q]) /\ req'[p].at = "hook"
        BY <1>0 DEF yousign_webhook
      <4> QED
        BY <1>4, <2>2, <4>1, <4>2, <4>3 DEF AgreementStarts
    <3> QED
      BY <3>1 DEF Loads, Named, ProcessAt, Answers
  <2> QED
    BY <2>1, <2>2
<1>5. CASE NoticeStarts(p)
  <2>1. CASE create_notification(p) \/ update_notification(p)
    <3>1. \E u \in User : \E op, more : Request(p, "notice", u, op, more)
      BY <2>1 DEF create_notification, update_notification
    <3> QED
      BY <3>1, RequestLoads
  <2>2. CASE process_notifications(p)
    <3>1. PICK u \in User : Active(u) /\ \E mine \in {{}} \cup {{n} : n \in Inserted(Unused)} : \E passes :
        req' = [req EXCEPT ![p] = [at |-> "read", op |-> "process", saw |-> users[u],
                                   user |-> IF mine = {} THEN NoUser ELSE u,
                                   passes |-> passes, todo |-> {}, now |-> {}, sent |-> {},
                                   marks |-> [n \in mine |-> Pending(u, TRUE)]]]
      BY <2>2 DEF process_notifications, Begin
    <3>2. PICK mine, passes :
        req' = [req EXCEPT ![p] = [at |-> "read", op |-> "process", saw |-> users[u],
                                   user |-> IF mine = {} THEN NoUser ELSE u,
                                   passes |-> passes, todo |-> {}, now |-> {}, sent |-> {},
                                   marks |-> [n \in mine |-> Pending(u, TRUE)]]]
      BY <3>1
    <3> DEFINE marks == [n \in mine |-> Pending(u, TRUE)]
               owner == IF mine = {} THEN NoUser ELSE u
    <3>3. (\A q \in Proc \ {p} : req'[q] = req[q]) /\ req'[p].user = owner /\ req'[p].saw = users[u]
      <4>1. req' = [req EXCEPT ![p] = [at |-> "read", op |-> "process", saw |-> users[u],
                                   user |-> owner,
                                   passes |-> passes, todo |-> {}, now |-> {}, sent |-> {}, marks |-> marks]]
        BY <3>2
      <4> HIDE DEF marks, owner
      <4> QED
        BY <1>0, <4>1
    <3> QED
      BY <3>1, <3>3 DEF Loads
  <2> QED
    BY <1>5, <2>1, <2>2 DEF NoticeStarts
<1> QED
  BY <1>2, <1>3, <1>4, <1>5

\* A request that goes on is about the same user, as it was loaded.
Continues(p) ==
  \/ req'[p].at \notin Named \cup ProcessAt
  \/ req[p].at \in ProcessAt /\ req'[p].user = req[p].user /\ req'[p].saw = req[p].saw

LEMMA GoesContinue ==
  ASSUME RequestsOK, NEW p \in Proc,
         AccountGoes(p) \/ OrgGoes(p) \/ AgreementGoes(p) \/ NoticeGoes(p) \/ EraseStep(p)
  PROVE  (\A q \in Proc \ {p} : req'[q] = req[q]) /\ Continues(p)
<1>0. req = [q \in Proc |-> req[q]]
  BY DEF RequestsOK
<1>1. ASSUME End(p)
      PROVE  (\A q \in Proc \ {p} : req'[q] = req[q]) /\ Continues(p)
  BY <1>0, <1>1 DEF End, Idle, Continues, Named, ProcessAt
<1>2. CASE AccountGoes(p)
  BY <1>2, AccountGoesAt DEF Continues, Named, ProcessAt
<1>3. CASE OrgGoes(p)
  BY <1>1, <1>3 DEF OrgGoes, OrganizationCommits, SwitchCommits, InviteCommits, AcceptCommits, RevokeCommits
<1>4. CASE AgreementGoes(p)
  <2>1. CASE ProviderCall(p)
    <3>1. SignatureRequest(req[p]) /\ req[p].at = "call" /\ req' = [req EXCEPT ![p].done = @ + 1]
      BY <2>1, AtOther DEF ProviderCall, At
    <3>2. (\A q \in Proc \ {p} : req'[q] = req[q]) /\ req'[p].at = "call"
      BY <1>0, <3>1 DEF SignatureRequest
    <3> QED
      BY <3>2 DEF Continues, Named, ProcessAt
  <2>2. CASE handle_webhook(p)
    <3>1. (\A q \in Proc \ {p} : req'[q] = req[q]) /\ req'[p].at \in {"idle", "outcome"}
      BY <1>0, <2>2 DEF handle_webhook, Answered, End, Idle
    <3> QED
      BY <3>1 DEF Continues, Named, ProcessAt
  <2>3. CASE ProposalCommits(p) \/ StatusCommits(p) \/ ProviderRefuses(p) \/ SignatureFails(p)
             \/ SignatureCommits(p) \/ HookFails(p) \/ HookCommits(p)
    BY <1>1, <2>3 DEF ProposalCommits, StatusCommits, ProviderRefuses, SignatureFails, SignatureCommits,
       HookFails, HookCommits, Answered
  <2> QED
    BY <1>4, <2>1, <2>2, <2>3 DEF AgreementGoes
<1>5. CASE NoticeGoes(p)
  <2>1. CASE NoticeCommits(p) \/ UpdateCommits(p) \/ ProcessCommits(p) \/ ProcessFails(p)
    BY <1>1, <2>1 DEF NoticeCommits, UpdateCommits, ProcessCommits, ProcessFails, RolledBack
  <2>2. CASE get_pending_notifications(p) \/ Send(p) \/ Mark(p) \/ Again(p)
    <3>1. NoticeRequest(req[p]) /\ req[p].at \in ProcessAt
      BY <2>2, MarkedRows DEF get_pending_notifications, Send, Mark, Again, At, ProcessAt
    <3>2. End(p) \/ ((\A q \in Proc \ {p} : req'[q] = req[q]) /\ req'[p].user = req[p].user /\ req'[p].saw = req[p].saw)
      <4>1. CASE get_pending_notifications(p)
        BY <1>0, <3>1, <4>1 DEF get_pending_notifications, NoticeRequest
      <4>2. CASE Send(p)
        <5>1. PICK x \in req[p].todo, answer \in {"taken", "refused", "lost"} :
                req' = [req EXCEPT ![p] =
                          [req[p] EXCEPT !.at = answer, !.todo = @ \ {x}, !.now = {x},
                                         !.sent = IF answer = "refused" THEN @ ELSE @ \cup {x}]]
          BY <4>2 DEF Send
        <5> DEFINE todo == req[p].todo \ {x}
                   sent == IF answer = "refused" THEN req[p].sent ELSE req[p].sent \cup {x}
        <5>2. req' = [req EXCEPT ![p] = [req[p] EXCEPT !.at = answer, !.todo = todo, !.now = {x}, !.sent = sent]]
          BY <5>1
        <5> HIDE DEF todo, sent
        <5> QED
          BY <1>0, <3>1, <5>2 DEF NoticeRequest
      <4>3. CASE Mark(p)
        <5>1. PICK x \in req[p].now :
                \/ End(p)
                \/ req' = [req EXCEPT ![p] =
                             [req[p] EXCEPT !.at = "send", !.now = {},
                                            !.marks = With(@, x[1], MarkOf(Seen(p, x[1]), x[2], req[p].at))]]
          BY <4>3 DEF Mark, RolledBack
        <5> DEFINE marks == With(req[p].marks, x[1], MarkOf(Seen(p, x[1]), x[2], req[p].at))
        <5>2. End(p) \/ req' = [req EXCEPT ![p] = [req[p] EXCEPT !.at = "send", !.now = {}, !.marks = marks]]
          BY <5>1
        <5> HIDE DEF marks
        <5> QED
          BY <1>0, <3>1, <5>2 DEF NoticeRequest
      <4>4. CASE Again(p)
        BY <1>0, <3>1, <4>4 DEF Again, Goto, NoticeRequest
      <4> QED
        BY <2>2, <4>1, <4>2, <4>3, <4>4
    <3> QED
      BY <1>1, <3>1, <3>2 DEF Continues
  <2> QED
    BY <1>5, <2>1, <2>2 DEF NoticeGoes
<1>6. CASE EraseStep(p)
  <2>1. (\A q \in Proc \ {p} : req'[q] = req[q]) /\ (req'[p] = req[p] \/ req'[p] = Idle \/ req'[p].at = "tombstone")
    <3>1. CASE EraseRecords(p)
      <4>1. UserRequest(req[p])
        BY <3>1, AtUser DEF EraseRecords, At
      <4> QED
        BY <1>0, <3>1, <4>1 DEF EraseRecords, UserRequest
    <3>2. CASE EraseCommits(p)
      BY <1>0, <3>2 DEF EraseCommits, End
    <3> QED
      BY <1>6, <3>1, <3>2 DEF EraseStep
  <2>2. req[p].at \in {"erase", "tombstone"}
    BY <1>6 DEF EraseStep, EraseRecords, EraseCommits, EraseAccount, At
  <2> QED
    BY <2>1, <2>2 DEF Continues, Named, ProcessAt, Idle
<1> QED
  BY <1>2, <1>3, <1>4, <1>5, <1>6

LEMMA SeenKept == RecordsOK /\ ErasedInv /\ [Next]_vars => ErasedIsSeen'
<1> SUFFICES ASSUME RecordsOK, ErasedInv, [Next]_vars
             PROVE  ErasedIsSeen'
  OBVIOUS
<1> USE DEF RecordsOK
<1>0. crossed \subseteq crossed'
  BY HistoryGrows
<1>1. ASSUME NEW p \in Proc, \A q \in Proc \ {p} : req'[q] = req[q], Loads(p) \/ Continues(p)
      PROVE  ErasedIsSeen'
  <2>1. ASSUME NEW q \in Proc \ {p}
        PROVE  req'[q].at \in Named \cup ProcessAt /\ req'[q].user # NoUser /\ req'[q].saw.erased =>
                 <<"erased", req'[q].user>> \in crossed'
    BY <1>0, <1>1 DEF ErasedInv, ErasedIsSeen
  <2>2. ASSUME req'[p].at \in Named \cup ProcessAt, req'[p].user # NoUser, req'[p].saw.erased
        PROVE  <<"erased", req'[p].user>> \in crossed'
    <3>1. CASE Loads(p)
      <4>1. req'[p].user \in User /\ Active(req'[p].user) /\ users[req'[p].user].erased
        BY <2>2, <3>1 DEF Loads
      <4> QED
        BY <1>0, <4>1 DEF ErasedInv, ErasedStaysErased, Active
    <3>2. CASE Continues(p)
      BY <1>0, <2>2, <3>2 DEF Continues, ErasedInv, ErasedIsSeen
    <3> QED
      BY <1>1, <3>1, <3>2
  <2> QED
    BY <2>1, <2>2 DEF ErasedIsSeen
<1>2. ASSUME UNCHANGED req
      PROVE  ErasedIsSeen'
  BY <1>0, <1>2 DEF ErasedInv, ErasedIsSeen
<1>3. ASSUME NEW p \in Proc, AccountStarts(p) \/ OrgStarts(p) \/ AgreementStarts(p) \/ NoticeStarts(p)
      PROVE  ErasedIsSeen'
  BY <1>1, <1>3, StartsLoad
<1>4. ASSUME NEW p \in Proc, AccountGoes(p) \/ OrgGoes(p) \/ AgreementGoes(p) \/ NoticeGoes(p) \/ EraseStep(p)
      PROVE  ErasedIsSeen'
  BY <1>1, <1>4, GoesContinue
<1>5. \/ \E u \in User : OtpExpires(u) \/ NonceExpires(u)
      \/ \E i \in Invite : InviteExpires(i)
      \/ \E k \in Signature, o \in Outcomes : Decide(k, o)
      \/ \E n \in Notice : Due(n)
      \/ EuipoStep \/ UNCHANGED vars
      => UNCHANGED req
  BY DEF OtpExpires, NonceExpires, InviteExpires, Decide, Due, EuipoStep, OfEuipo, ClientVars, vars
<1> QED
  BY <1>2, <1>3, <1>4, <1>5 DEF Next, AccountStep, AccountNext, OrgStep, OrgNext,
     AgreementStep, AgreementNext, NoticeStep, NoticeNext

\* What an uncrossed erasure left does not grow again.
AccountStays(u) ==
  users'[u].erased /\ <<"erased", u>> \notin crossed' =>
    /\ users[u].erased /\ users'[u].st = users[u].st /\ users'[u].pii \subseteq users[u].pii
    /\ users'[u].org \in {users[u].org, NoOrg}
    /\ OpenedByHand(u)' \subseteq OpenedByHand(u)
RecordsStay(u) ==
  users'[u].erased /\ <<"erased", u>> \notin crossed' => Records(u)' \subseteq Records(u)

LEMMA ErasedFrame ==
  ASSUME ErasedStaysErased, crossed \subseteq crossed', NEW u \in User, AccountStays(u), RecordsStay(u)
  PROVE  users'[u].erased /\ <<"erased", u>> \notin crossed' =>
           /\ users'[u].pii = {} /\ users'[u].st = "inactive" /\ users'[u].org = NoOrg
           /\ Records(u)' = {} /\ OpenedByHand(u)' = {}
  BY DEF ErasedStaysErased, AccountStays, RecordsStay

LEMMA RecordsSame ==
  ASSUME UNCHANGED <<orgVars, proposals, notices>>, NEW u \in User
  PROVE  RecordsStay(u)
  BY DEF RecordsStay, Records, Member, orgVars

LEMMA AccountSame ==
  ASSUME crossed \subseteq crossed', UNCHANGED <<users, cases>>, NEW u \in User
  PROVE  AccountStays(u)
  BY DEF AccountStays, OpenedByHand, find_erasure_blockers

\* A request of a user that was erased crosses, whether it had loaded the account
\* before the erasure or after.
LEMMA LateCrosses ==
  ASSUME ErasedIsSeen, NEW p \in Proc, req[p].at \in Named \cup ProcessAt, req[p].user # NoUser,
         users[req[p].user].erased, crossed \subseteq crossed', Late(p) \subseteq crossed'
  PROVE  <<"erased", req[p].user>> \in crossed'
<1>1. CASE req[p].saw.erased
  BY <1>1 DEF ErasedIsSeen
<1>2. CASE ~req[p].saw.erased
  BY <1>2 DEF Late
<1> QED
  BY <1>1, <1>2

LEMMA AccountErased ==
  ASSUME RecordsOK, ErasedInv, crossed \subseteq crossed', AccountNext, NEW u \in User
  PROVE  AccountStays(u)
<1> USE DEF RecordsOK
<1>0. users = [v \in User |-> users[v]] /\ cases = [c \in Case |-> cases[c]]
  BY DEF AccountsOK
<1>1. ASSUME NEW p \in Proc, link_guest_cases(p)
      PROVE  AccountStays(u)
  <2>1. CASE UNCHANGED <<users, cases>>
    BY <2>1, AccountSame
  <2>2. CASE ~UNCHANGED <<users, cases>>
    <3> DEFINE found == {x[1] : x \in req[p].arg}
    <3>1. /\ req[p].user \in User
          /\ users' = [users EXCEPT ![req[p].user] = Registered]
          /\ cases' = [c \in Case |-> IF c \in found THEN [cases[c] EXCEPT !.client = req[p].user] ELSE cases[c]]
      BY <1>1, <2>2, AtUser DEF link_guest_cases, At, UserRequest
    <3>2. ~Registered.erased
      BY DEF Registered, NoAccount
    <3>3. CASE u = req[p].user
      BY <1>0, <3>1, <3>2, <3>3 DEF AccountStays
    <3>4. CASE u # req[p].user
      <4>1. users'[u] = users[u]
        BY <3>1, <3>4
      <4>2. \A c \in Case : cases'[c].client = u => cases'[c] = cases[c]
        BY <3>1, <3>4 DEF AccountsOK, CaseRow
      <4>3. OpenedByHand(u)' \subseteq OpenedByHand(u)
        BY <4>2 DEF OpenedByHand, find_erasure_blockers
      <4> QED
        BY <4>1, <4>3 DEF AccountStays
    <3> QED
      BY <3>3, <3>4
  <2> QED
    BY <2>1, <2>2
<1>2. ASSUME NEW p \in Proc, FactorCommits(p)
      PROVE  AccountStays(u)
  <2>1. UNCHANGED cases /\ users' = [users EXCEPT ![req[p].user].factor = FactorAfter(p)]
    BY <1>2 DEF FactorCommits
  <2>2. /\ users'[u].erased = users[u].erased /\ users'[u].st = users[u].st
        /\ users'[u].pii = users[u].pii /\ users'[u].org = users[u].org
    BY <1>0, <2>1 DEF AccountsOK, Account
  <2> QED
    BY <2>1, <2>2 DEF AccountStays, OpenedByHand, find_erasure_blockers
<1>3. ASSUME NEW p \in Proc, ProfileCommits(p)
      PROVE  AccountStays(u)
  <2>1. UserRequest(req[p])
    BY <1>3, AtUser DEF ProfileCommits, At, Named
  <2>2. /\ UNCHANGED cases /\ \A v \in User \ {req[p].user} : users'[v] = users[v]
        /\ users'[req[p].user].erased = users[req[p].user].erased
    <3>1. PICK pii, st : users' = [users EXCEPT ![req[p].user] = [@ EXCEPT !.pii = pii, !.st = st]]
      BY <1>3 DEF ProfileCommits
    <3> QED
      BY <1>3, <3>1 DEF ProfileCommits, AccountsOK, Account
  <2>3. users[req[p].user].erased => <<"erased", req[p].user>> \in crossed'
    <3>1. CASE At(p, "admin")
      BY <1>3, <3>1 DEF ProfileCommits, Cross
    <3>2. CASE ~At(p, "admin")
      <4>1. req[p].at \in {"update", "unset"} /\ Late(p) \subseteq crossed'
        BY <1>3, <3>2 DEF ProfileCommits, Cross, At
      <4> QED
        BY <2>1, <4>1, NoUserAssumption, LateCrosses DEF ErasedInv, UserRequest, Named
    <3> QED
      BY <3>1, <3>2
  <2> QED
    BY <2>2, <2>3 DEF AccountStays, OpenedByHand, find_erasure_blockers
<1>4. ASSUME NEW p \in Proc, CaseCommits(p)
      PROVE  AccountStays(u)
  <2>1. UserRequest(req[p]) /\ req[p].at = "case"
    BY <1>4, AtUser DEF CaseCommits, At, Named
  <2>2. users[req[p].user].erased => <<"erased", req[p].user>> \in crossed'
    BY <1>4, <2>1, NoUserAssumption, LateCrosses DEF CaseCommits, Cross, ErasedInv, UserRequest, Named
  <2>3. UNCHANGED users /\ \E c : cases' = [cases EXCEPT ![c] = Open(req[p].user)]
    BY <1>4 DEF CaseCommits
  <2>4. u # req[p].user => OpenedByHand(u)' \subseteq OpenedByHand(u)
    BY <1>0, <2>3 DEF OpenedByHand, find_erasure_blockers, Open
  <2> QED
    BY <2>2, <2>3, <2>4 DEF AccountStays
<1>5. ASSUME NEW p \in Proc, WriteCase(p)
      PROVE  AccountStays(u)
  <2>1. UNCHANGED users
    BY <1>5, CaseWritten
  <2>2. PICK c \in Case, row \in CaseRow :
          cases' = [cases EXCEPT ![c] = row] /\ (row.draft \/ OfErased(row.client) \subseteq crossed')
    BY <1>5, CaseWrites
  <2>3. cases'[c] = row /\ \A d \in Case \ {c} : cases'[d] = cases[d]
    BY <1>0, <2>2
  <2>4. CASE row.draft \/ row.client # u
    BY <2>1, <2>3, <2>4 DEF AccountStays, OpenedByHand, find_erasure_blockers
  <2>5. CASE row.client = u /\ OfErased(row.client) \subseteq crossed'
    BY <2>1, <2>5 DEF AccountStays, OfErased
  <2> QED
    BY <2>2, <2>4, <2>5
<1>6. ASSUME NEW p \in Proc, create_user(p) \/ authenticate_or_create(p)
      PROVE  UNCHANGED <<users, cases>>
  BY <1>6 DEF create_user, authenticate_or_create, accountVars
<1>7. ASSUME NEW p \in Proc, AccountStarts(p), ~WriteCase(p)
      PROVE  UNCHANGED <<users, cases>>
  BY <1>7 DEF AccountStarts, register, register_request, register_verify, request_wallet_nonce,
      verify_wallet_signature, begin_enrollment, enable, disable, verify_second_factor, update_user,
      upload_my_avatar, delete_my_avatar, update_by_admin, create_case, erase_user, accountVars
<1>8. ASSUME NEW v \in User, OtpExpires(v) \/ NonceExpires(v)
      PROVE  UNCHANGED <<users, cases>>
  BY <1>8 DEF OtpExpires, NonceExpires
<1> QED
  BY <1>1, <1>2, <1>3, <1>4, <1>5, <1>6, <1>7, <1>8, AccountSame DEF AccountNext, AccountGoes

LEMMA RecordsSubset ==
  ASSUME NEW u \in User,
         \A o \in Org : Member(o, u)' => Member(o, u),
         \A k \in Proposal : proposals'[k].by = u => proposals[k].by = u,
         \A n \in Notice : notices'[n].by = u => notices[n].by = u
  PROVE  Records(u)' \subseteq Records(u)
  BY DEF Records

LEMMA OrgErased ==
  ASSUME RecordsOK, ErasedInv, crossed \subseteq crossed', OrgStep, NEW u \in User
  PROVE  AccountStays(u) /\ RecordsStay(u)
<1> USE DEF RecordsOK
<1>0. /\ users = [v \in User |-> users[v]] /\ orgs = [o \in Org |-> orgs[o]]
      /\ \A o \in Org : orgs[o] = [slug |-> orgs[o].slug, role |-> orgs[o].role]
                        /\ orgs[o].role = [v \in User |-> orgs[o].role[v]]
  BY DEF AccountsOK, OrgsOK
<1>1. UNCHANGED <<cases, proposals, notices>>
  BY OrgKeeps DEF OrgStep, agreementVars, noticeVars
<1>2. ASSUME UNCHANGED <<users, orgs>>
      PROVE  AccountStays(u) /\ RecordsStay(u)
  BY <1>1, <1>2, AccountSame DEF RecordsStay, Records, Member
<1>3. ASSUME NEW v \in User, users[v].erased => <<"erased", v>> \in crossed',
             \A w \in User \ {v} : users'[w] = users[w], users'[v].erased = users[v].erased,
             \A o \in Org : \A w \in User \ {v} : orgs'[o].role[w] = orgs[o].role[w]
      PROVE  AccountStays(u) /\ RecordsStay(u)
  <2>1. CASE u = v
    BY <1>3, <2>1 DEF AccountStays, RecordsStay
  <2>2. CASE u # v
    <3>1. users'[u] = users[u] /\ \A o \in Org : Member(o, u)' => Member(o, u)
      BY <1>3, <2>2 DEF Member
    <3> QED
      BY <1>1, <3>1, RecordsSubset DEF AccountStays, RecordsStay, OpenedByHand, find_erasure_blockers
  <2> QED
    BY <2>1, <2>2
<1>4. ASSUME NEW p \in Proc, req[p].at \in OrgAt
      PROVE  /\ req[p].user \in User
             /\ Late(p) \subseteq crossed' /\ users[req[p].user].erased => <<"erased", req[p].user>> \in crossed'
  <2>1. UserRequest(req[p]) /\ req[p].at \in Named
    BY <1>4, AtUser DEF OrgAt, Named
  <2> QED
    BY <2>1, NoUserAssumption, LateCrosses DEF ErasedInv, UserRequest
<1>5. ASSUME NEW v \in User, NEW o, users' = [users EXCEPT ![v].org = o]
      PROVE  (\A w \in User \ {v} : users'[w] = users[w]) /\ users'[v].erased = users[v].erased
  BY <1>5 DEF AccountsOK, Account
<1>6. ASSUME NEW p \in Proc, OrganizationCommits(p)
      PROVE  AccountStays(u) /\ RecordsStay(u)
  <2>1. req[p].user \in User /\ req[p].at \in OrgAt
    BY <1>4, <1>6 DEF OrganizationCommits, At, OrgAt
  <2>2. CASE UNCHANGED <<users, orgs>>
    BY <1>2, <2>2
  <2>3. CASE ~UNCHANGED <<users, orgs>>
    <3>1. PICK n \in req[p].arg : \E o \in Inserted({x \in Org : ~Exists(x)}) :
            /\ orgs' = [orgs EXCEPT ![o] = [slug |-> n, role |-> [orgs[o].role EXCEPT ![req[p].user] = "owner"]]]
            /\ users' = [users EXCEPT ![req[p].user].org = IF req[p].saw.org = NoOrg THEN o ELSE @]
            /\ Cross(Late(p))
      BY <1>6, <2>3 DEF OrganizationCommits
    <3>2. PICK o \in Org :
            /\ orgs' = [orgs EXCEPT ![o] = [slug |-> n, role |-> [orgs[o].role EXCEPT ![req[p].user] = "owner"]]]
            /\ users' = [users EXCEPT ![req[p].user].org = IF req[p].saw.org = NoOrg THEN o ELSE @]
            /\ Cross(Late(p))
      BY <3>1 DEF Inserted
    <3>3. \A x \in Org : \A w \in User \ {req[p].user} : orgs'[x].role[w] = orgs[x].role[w]
      BY <1>0, <2>1, <3>2
    <3>4. \E d : users' = [users EXCEPT ![req[p].user].org = d]
      BY <3>2
    <3> QED
      BY <1>3, <1>4, <1>5, <2>1, <3>2, <3>3, <3>4 DEF Cross
  <2> QED
    BY <2>2, <2>3
<1>7. ASSUME NEW p \in Proc, SwitchCommits(p)
      PROVE  AccountStays(u) /\ RecordsStay(u)
  <2>1. req[p].user \in User /\ req[p].at \in OrgAt /\ UNCHANGED orgs /\ Cross(Late(p))
    BY <1>4, <1>7 DEF SwitchCommits, At, OrgAt, orgVars
  <2>2. \E d : users' = [users EXCEPT ![req[p].user].org = d]
    BY <1>7 DEF SwitchCommits
  <2> QED
    BY <1>3, <1>4, <1>5, <2>1, <2>2 DEF Cross
<1>8. ASSUME NEW p \in Proc, AcceptCommits(p)
      PROVE  AccountStays(u) /\ RecordsStay(u)
  <2>1. req[p].user \in User /\ req[p].at \in OrgAt
    BY <1>4, <1>8 DEF AcceptCommits, At, OrgAt
  <2>2. CASE UNCHANGED <<users, orgs>>
    BY <1>2, <2>2
  <2>3. CASE ~UNCHANGED <<users, orgs>>
    <3>1. PICK x \in req[p].arg :
            /\ orgs' = [orgs EXCEPT ![invites[x[1]].org].role[req[p].user] = invites[x[1]].role]
            /\ users' = [users EXCEPT ![req[p].user].org = IF req[p].saw.org = NoOrg THEN invites[x[1]].org ELSE @]
            /\ Cross(Late(p) \cup Overwrites(x))
      BY <1>8, <2>3 DEF AcceptCommits, orgVars
    <3>2. /\ \E o, role : orgs' = [orgs EXCEPT ![o].role[req[p].user] = role]
          /\ \E d : users' = [users EXCEPT ![req[p].user].org = d]
          /\ Late(p) \subseteq crossed'
      BY <3>1 DEF Cross
    <3>3. \A y \in Org : \A w \in User \ {req[p].user} : orgs'[y].role[w] = orgs[y].role[w]
      BY <1>0, <3>2
    <3> QED
      BY <1>3, <1>4, <1>5, <2>1, <3>2, <3>3
  <2> QED
    BY <2>2, <2>3
<1>9. ASSUME NEW p \in Proc, OrgStarts(p) \/ InviteCommits(p) \/ RevokeCommits(p)
      PROVE  UNCHANGED <<users, orgs>>
  BY <1>9 DEF OrgStarts, create_organization, switch_default_organization,
    create_invite, accept_invite, revoke_invite, InviteCommits, RevokeCommits, accountVars, orgVars
<1>10. ASSUME NEW i \in Invite, InviteExpires(i)
       PROVE  UNCHANGED <<users, orgs>>
  BY <1>10 DEF InviteExpires, accountVars
<1> QED
  BY <1>2, <1>6, <1>7, <1>8, <1>9, <1>10 DEF OrgStep, OrgNext, OrgGoes

LEMMA AgreementErased ==
  ASSUME RecordsOK, ErasedInv, crossed \subseteq crossed', AgreementStep, NEW u \in User
  PROVE  AccountStays(u) /\ RecordsStay(u)
<1> USE DEF RecordsOK
<1>0. proposals = [k \in Proposal |-> proposals[k]]
  BY DEF AgreementsOK
<1>1. UNCHANGED <<users, cases, orgs, notices>>
  BY AgreementKeeps DEF AgreementStep, orgVars, noticeVars, accountVars
<1>2. AccountStays(u)
  BY <1>1, AccountSame
<1>3. ASSUME \A k \in Proposal : proposals'[k].by = proposals[k].by
      PROVE  RecordsStay(u)
  BY <1>1, <1>3, RecordsSubset DEF RecordsStay, Member
<1>4. ASSUME NEW p \in Proc, ProposalCommits(p)
      PROVE  RecordsStay(u)
  <2>1. UserRequest(req[p]) /\ req[p].at = "propose"
    BY <1>4, AtUser DEF ProposalCommits, At, Named
  <2>2. users[req[p].user].erased => <<"erased", req[p].user>> \in crossed'
    BY <1>4, <2>1, NoUserAssumption, LateCrosses DEF ProposalCommits, Cross, ErasedInv, UserRequest, Named
  <2>3. PICK k \in Proposal :
          proposals' = [proposals EXCEPT ![k] = [NoProposal EXCEPT !.st = "draft", !.by = req[p].user]]
    BY <1>4 DEF ProposalCommits
  <2>4. \A j \in Proposal : proposals'[j].by \in {proposals[j].by, req[p].user}
    BY <1>0, <2>3 DEF NoProposal
  <2>5. u # req[p].user => Records(u)' \subseteq Records(u)
    BY <1>1, <2>4, RecordsSubset DEF Member
  <2> QED
    BY <1>1, <2>2, <2>5 DEF RecordsStay
<1>5. ASSUME NEW p \in Proc, StatusCommits(p)
      PROVE  RecordsStay(u)
  <2> DEFINE k == req[p].proposal
             reason == proposals[k].reason \/ At(p, "rejected")
  <2>1. UNCHANGED proposals \/
          proposals' = [proposals EXCEPT ![k] = [proposals[k] EXCEPT !.st = req[p].at, !.reason = reason]]
    BY <1>5 DEF StatusCommits
  <2> HIDE DEF k, reason
  <2>2. \A j \in Proposal : proposals[j] \in ProposalRow
    BY DEF AgreementsOK
  <2>3. \A row \in ProposalRow : \A st, b : [row EXCEPT !.st = st, !.reason = b].by = row.by
    BY DEF ProposalRow
  <2>4. \A j \in Proposal : proposals'[j].by = proposals[j].by
    <3>1. CASE UNCHANGED proposals
      BY <3>1
    <3>2. CASE proposals' = [proposals EXCEPT ![k] = [proposals[k] EXCEPT !.st = req[p].at, !.reason = reason]]
      <4> DEFINE row == [proposals[k] EXCEPT !.st = req[p].at, !.reason = reason]
      <4>1. k \in Proposal => row.by = proposals[k].by
        BY <2>2, <2>3
      <4>2. proposals' = [proposals EXCEPT ![k] = row]
        BY <3>2
      <4> HIDE DEF row
      <4> QED
        BY <1>0, <4>1, <4>2
    <3> QED
      BY <2>1, <3>1, <3>2
  <2> QED
    BY <1>3, <2>4
<1>6. ASSUME NEW p \in Proc,
             AgreementStarts(p) \/ ProviderCall(p) \/ ProviderRefuses(p) \/ SignatureFails(p)
             \/ SignatureCommits(p) \/ handle_webhook(p) \/ HookCommits(p) \/ HookFails(p)
      PROVE  UNCHANGED proposals
  BY <1>6 DEF AgreementStarts, generate_proposal, send_proposal, respond_to_proposal,
     create_signature_request, yousign_webhook, ProviderCall, ProviderRefuses, SignatureFails,
     SignatureCommits, handle_webhook, HookCommits, HookFails, agreementVars
<1>7. ASSUME NEW k \in Signature, NEW o \in Outcomes, Decide(k, o)
      PROVE  UNCHANGED proposals
  BY <1>7 DEF Decide
<1> QED
  BY <1>2, <1>3, <1>4, <1>5, <1>6, <1>7 DEF AgreementStep, AgreementNext, AgreementGoes

LEMMA NoticeErased ==
  ASSUME RecordsOK, MarksInv, ErasedInv, crossed \subseteq crossed', NoticeStep, NEW u \in User
  PROVE  AccountStays(u) /\ RecordsStay(u)
<1> USE DEF RecordsOK
<1>0. notices = [n \in Notice |-> notices[n]]
  BY DEF NoticesOK
<1>1. UNCHANGED <<users, cases, orgs, proposals>>
  BY NoticeKeeps DEF NoticeStep, orgVars, agreementVars, accountVars
<1>2. AccountStays(u)
  BY <1>1, AccountSame
<1>3. ASSUME \A n \in Notice : notices'[n].by = notices[n].by
      PROVE  RecordsStay(u)
  BY <1>1, <1>3, RecordsSubset DEF RecordsStay, Member
<1>4. ASSUME NEW v, \A n \in Notice : notices'[n].by = u => notices[n].by = u \/ u = v,
             users[v].erased => <<"erased", v>> \in crossed'
      PROVE  RecordsStay(u)
  <2>1. u # v => Records(u)' \subseteq Records(u)
    BY <1>1, <1>4, RecordsSubset DEF Member
  <2> QED
    BY <1>1, <1>4, <2>1 DEF RecordsStay
<1>5. ASSUME NEW p \in Proc, NoticeCommits(p)
      PROVE  RecordsStay(u)
  <2>1. UserRequest(req[p]) /\ req[p].at = "notify"
    BY <1>5, AtUser DEF NoticeCommits, At, Named
  <2>2. users[req[p].user].erased => <<"erased", req[p].user>> \in crossed'
    BY <1>5, <2>1, NoUserAssumption, LateCrosses DEF NoticeCommits, Cross, ErasedInv, UserRequest, Named
  <2>3. PICK n \in Unused : \E due : notices' = [notices EXCEPT ![n] = Pending(req[p].user, due)]
    BY <1>5 DEF NoticeCommits, Inserted
  <2>4. \A m \in Notice : notices'[m].by \in {notices[m].by, req[p].user}
    BY <1>0, <2>3, PendingRow
  <2> QED
    BY <1>4, <2>2, <2>4
<1>6. ASSUME NEW p \in Proc, UpdateCommits(p)
      PROVE  RecordsStay(u)
  <2>1. \/ UNCHANGED notices
        \/ \E n : notices' = [notices EXCEPT ![n] = Written(req[p].op, notices[n])]
    BY <1>6 DEF UpdateCommits
  <2> QED
    BY <1>0, <1>3, <2>1, UpdateRow DEF NoticesOK
<1>7. ASSUME NEW p \in Proc, ProcessCommits(p)
      PROVE  RecordsStay(u)
  <2>1. Processes(p) /\ NoticeRequest(req[p]) /\ req[p].at \in ProcessAt
    BY <1>7, MarkedRows DEF ProcessCommits, At, ProcessAt
  <2>2. \A n \in Notice : /\ n \notin Marked(p) => notices'[n] = notices[n]
                          /\ n \in Marked(p) => notices'[n] = req[p].marks[n]
    BY <1>7 DEF ProcessCommits, Seen
  <2>3. OwnMarks(p)
    BY DEF MarksInv
  <2>4. CASE \A n \in Marked(p) : notices[n].st # "none"
    <3>1. \A n \in Notice : notices'[n].by = notices[n].by
      BY <2>2, <2>3, <2>4 DEF OwnMarks
    <3> QED
      BY <1>3, <3>1
  <2>5. CASE \E n \in Marked(p) : notices[n].st = "none"
    <3>1. req[p].user # NoUser /\ Late(p) \subseteq crossed'
      BY <1>7, <2>3, <2>5 DEF OwnMarks, ProcessCommits, Cross
    <3>2. users[req[p].user].erased => <<"erased", req[p].user>> \in crossed'
      BY <2>1, <3>1, LateCrosses DEF ErasedInv
    <3>3. \A n \in Notice : notices'[n].by = u => notices[n].by = u \/ u = req[p].user
      BY <2>2, <2>3 DEF OwnMarks
    <3> QED
      BY <1>4, <3>2, <3>3
  <2> QED
    BY <2>4, <2>5
<1>8. ASSUME NEW p \in Proc,
             NoticeStarts(p) \/ get_pending_notifications(p) \/ Send(p) \/ Mark(p) \/ Again(p) \/ ProcessFails(p)
      PROVE  UNCHANGED notices
  BY <1>8 DEF NoticeStarts, create_notification, update_notification, process_notifications,
     get_pending_notifications, Send, Mark, Again, ProcessFails, RolledBack, noticeVars
<1>9. ASSUME NEW n \in Notice, Due(n)
      PROVE  RecordsStay(u)
  BY <1>0, <1>3, <1>9 DEF Due, NoticesOK, NoticeRow
<1> QED
  BY <1>2, <1>3, <1>5, <1>6, <1>7, <1>8, <1>9 DEF NoticeStep, NoticeNext, NoticeGoes

\* What was read before the DELETEs is what the tombstone overwrites, or it crosses.
LEMMA EraseErased ==
  ASSUME RecordsOK, ErasedInv, crossed \subseteq crossed', NEW p \in Proc, EraseStep(p)
  PROVE  ErasedStaysErased'
<1> USE DEF RecordsOK
<1>0. /\ users = [v \in User |-> users[v]] /\ \A o \in Org : orgs[o].role = [v \in User |-> orgs[o].role[v]]
      /\ \A v \in User : users[v] \in Account
  BY DEF AccountsOK, OrgsOK
<1> DEFINE Kept(u) == users'[u].erased /\ <<"erased", u>> \notin crossed' =>
                        /\ users'[u].pii = {} /\ users'[u].st = "inactive" /\ users'[u].org = NoOrg
                        /\ Records(u)' = {} /\ OpenedByHand(u)' = {}
<1>1. CASE EraseRecords(p)
  <2>1. UNCHANGED <<users, cases, orgs, proposals, notices>>
    BY <1>1 DEF EraseRecords, accountVars, orgVars, agreementVars, noticeVars
  <2>2. \A u \in User : AccountStays(u) /\ RecordsStay(u)
    BY <2>1, AccountSame DEF RecordsStay, Records, Member
  <2>3. \A u \in User : Kept(u)
    BY <2>2, ErasedFrame DEF ErasedInv
  <2> QED
    BY <2>3 DEF ErasedStaysErased
<1>2. CASE EraseCommits(p)
  <2>0. req[p].user \in User /\ req[p].saw \in Account
    BY <1>2, AtUser DEF EraseCommits, EraseAccount, At, UserRequest
  <2>1. PICK v \in User, saw \in Account : v = req[p].user /\ saw = req[p].saw
    BY <2>0
  <2>9. PICK records : records = req[p].arg
    OBVIOUS
  <2>2. /\ users' = [users EXCEPT ![v] = user_tombstone(users[v], saw)] /\ UNCHANGED cases
        /\ orgs' = [o \in Org |-> IF <<"member", o>> \in records
                                  THEN [orgs[o] EXCEPT !.role[v] = "none"] ELSE orgs[o]]
        /\ proposals' = [k \in Proposal |-> IF <<"proposal", k>> \in records
                                            THEN [NoProposal EXCEPT !.st = "deleted"] ELSE proposals[k]]
        /\ notices' = [n \in Notice |-> IF <<"notice", n>> \in records
                                        THEN [NoNotice EXCEPT !.st = "deleted"] ELSE notices[n]]
        /\ Overtaken(p) \subseteq crossed'
        /\ Records(v) # records => <<"erased", v>> \in crossed'
    BY <1>2, <2>1, <2>9 DEF EraseCommits, EraseAccount, EraseMemberships, EraseProposals, EraseNotices, Cross
  <2>3. [NoProposal EXCEPT !.st = "deleted"].by = NoUser /\ [NoNotice EXCEPT !.st = "deleted"].by = NoUser
    BY DEF NoProposal, NoNotice
  <2>4. /\ \A o \in Org : \A w \in User :
             orgs'[o].role[w] = IF <<"member", o>> \in records /\ w = v THEN "none" ELSE orgs[o].role[w]
        /\ \A k \in Proposal :
             proposals'[k].by = IF <<"proposal", k>> \in records THEN NoUser ELSE proposals[k].by
        /\ \A n \in Notice :
             notices'[n].by = IF <<"notice", n>> \in records THEN NoUser ELSE notices[n].by
    <3>1. \A o \in Org : \A w \in User :
             orgs'[o].role[w] = IF <<"member", o>> \in records /\ w = v THEN "none" ELSE orgs[o].role[w]
      <4>1. \A o \in Org : orgs[o] \in [slug : Nat, role : [User -> Role]]
        BY DEF OrgsOK
      <4>2. \A row \in [slug : Nat, role : [User -> Role]] : \A w \in User :
              [row EXCEPT !.role[v] = "none"].role[w] = IF w = v THEN "none" ELSE row.role[w]
        OBVIOUS
      <4> QED
        BY <2>2, <4>1, <4>2
    <3> QED
      BY <2>2, <2>3, <3>1
  <2>5. ASSUME NEW u \in User, u # v
        PROVE  Kept(u)
    <3>1. users'[u] = users[u]
      BY <2>2, <2>5
    <3>2. Records(u)' \subseteq Records(u)
      BY <2>4, <2>5, NoUserAssumption, RecordsSubset DEF Member
    <3>3. AccountStays(u) /\ RecordsStay(u)
      BY <2>2, <3>1, <3>2 DEF AccountStays, RecordsStay, OpenedByHand, find_erasure_blockers
    <3> QED
      BY <3>3, ErasedFrame DEF ErasedInv
  <2>6. Kept(v)
    <3> SUFFICES ASSUME <<"erased", v>> \notin crossed'
                 PROVE  /\ users'[v].pii = {} /\ users'[v].st = "inactive" /\ users'[v].org = NoOrg
                        /\ Records(v)' = {} /\ OpenedByHand(v)' = {}
      OBVIOUS
    <3>1. /\ [users[v] EXCEPT !.factor = NoFactor] = [saw EXCEPT !.factor = NoFactor]
          /\ find_erasure_blockers(v) = {} /\ Records(v) = records
      BY <2>1, <2>2 DEF Overtaken
    <3>2. users[v].st = saw.st /\ users[v].pii = saw.pii /\ users[v].org = saw.org
      <4>1. \A row \in Account : /\ [row EXCEPT !.factor = NoFactor].st = row.st
                                 /\ [row EXCEPT !.factor = NoFactor].pii = row.pii
                                 /\ [row EXCEPT !.factor = NoFactor].org = row.org
        BY DEF Account
      <4>2. users[v] \in Account
        BY <1>0
      <4>3. /\ [users[v] EXCEPT !.factor = NoFactor].st = users[v].st
            /\ [users[v] EXCEPT !.factor = NoFactor].pii = users[v].pii
            /\ [users[v] EXCEPT !.factor = NoFactor].org = users[v].org
        BY <4>1, <4>2
      <4>4. /\ [saw EXCEPT !.factor = NoFactor].st = saw.st
            /\ [saw EXCEPT !.factor = NoFactor].pii = saw.pii
            /\ [saw EXCEPT !.factor = NoFactor].org = saw.org
        BY <4>1
      <4> QED
        BY <3>1, <4>3, <4>4
    <3>3. users'[v] = user_tombstone(users[v], saw)
      BY <1>0, <2>1, <2>2
    <3>4. \A row \in Account, r \in Account : row.st = r.st /\ row.pii = r.pii /\ row.org = r.org =>
            /\ user_tombstone(row, r).st = "inactive" /\ user_tombstone(row, r).org = NoOrg
            /\ user_tombstone(row, r).pii = {}
      BY DEF user_tombstone, Account
    <3>5. Records(v)' = {}
      <4>1. \A o \in Org : ~Member(o, v)'
        BY <2>1, <2>4, <3>1 DEF Member, Records
      <4>2. \A k \in Proposal : proposals'[k].by # v
        <5>1. \A k \in Proposal : proposals[k].by = v => <<"proposal", k>> \in records
          BY <3>1 DEF Records
        <5> QED
          BY <2>4, <5>1, NoUserAssumption
      <4>3. \A n \in Notice : notices'[n].by # v
        <5>1. \A n \in Notice : notices[n].by = v => <<"notice", n>> \in records
          BY <3>1 DEF Records
        <5> QED
          BY <2>4, <5>1, NoUserAssumption
      <4> QED
        BY <4>1, <4>2, <4>3 DEF Records
    <3>6. OpenedByHand(v)' = {}
      BY <2>2, <3>1 DEF OpenedByHand, find_erasure_blockers
    <3> QED
      BY <1>0, <2>1, <3>2, <3>3, <3>4, <3>5, <3>6
  <2>7. \A u \in User : Kept(u)
    BY <2>5, <2>6
  <2> QED
    BY <2>7 DEF ErasedStaysErased
<1> QED
  BY <1>1, <1>2 DEF EraseStep

LEMMA ErasedKept == RecordsOK /\ MarksInv /\ ErasedInv /\ [Next]_vars => ErasedInv'
<1> SUFFICES ASSUME RecordsOK, MarksInv, ErasedInv, [Next]_vars
             PROVE  ErasedInv'
  OBVIOUS
<1>0. crossed \subseteq crossed' /\ ErasedIsSeen'
  BY HistoryGrows, SeenKept
<1>1. ASSUME \A u \in User : AccountStays(u) /\ RecordsStay(u)
      PROVE  ErasedInv'
  <2>1. \A u \in User : users'[u].erased /\ <<"erased", u>> \notin crossed' =>
           /\ users'[u].pii = {} /\ users'[u].st = "inactive" /\ users'[u].org = NoOrg
           /\ Records(u)' = {} /\ OpenedByHand(u)' = {}
    BY <1>0, <1>1, ErasedFrame DEF ErasedInv
  <2> QED
    BY <1>0, <2>1 DEF ErasedInv, ErasedStaysErased
<1>2. CASE AccountStep
  BY <1>0, <1>1, <1>2, AccountErased, RecordsSame DEF AccountStep, agreementVars, noticeVars
<1>3. CASE OrgStep
  BY <1>0, <1>1, <1>3, OrgErased
<1>4. CASE AgreementStep
  BY <1>0, <1>1, <1>4, AgreementErased
<1>5. CASE NoticeStep
  BY <1>0, <1>1, <1>5, NoticeErased
<1>6. ASSUME NEW p \in Proc, EraseStep(p)
      PROVE  ErasedInv'
  BY <1>0, <1>6, EraseErased DEF ErasedInv
<1>7. CASE EuipoStep \/ UNCHANGED vars
  <2>1. UNCHANGED <<users, cases, orgVars, proposals, notices>>
    BY <1>7 DEF EuipoStep, OfEuipo, ClientVars, vars, accountVars, agreementVars, noticeVars
  <2> QED
    BY <1>0, <1>1, <2>1, AccountSame, RecordsSame
<1> QED
  BY <1>2, <1>3, <1>4, <1>5, <1>6, <1>7 DEF Next

LEMMA ErasedStart == Init => ErasedInv
<1> SUFFICES ASSUME Init
             PROVE  ErasedInv
  OBVIOUS
<1>1. users \in [User -> {NoAccount, Registered, Enrolled}] /\ \A p \in Proc : req[p].at = "idle"
  BY DEF Init, AccountInit, Idle
<1>2. ~NoAccount.erased /\ ~Registered.erased /\ ~Enrolled.erased
  BY DEF NoAccount, Registered, Enrolled
<1>3. ErasedIsSeen
  BY <1>1 DEF ErasedIsSeen, Named, ProcessAt
<1> QED
  BY <1>1, <1>2, <1>3 DEF ErasedInv, ErasedStaysErased

\* Once an account is erased, no column, membership, proposal, notice or open case of it
\* comes back, but for what a request wrote that had loaded the account before the
\* erasure committed, or an administrator.
THEOREM ErasureHolds == Spec => []ErasedStaysErased
<1>1. Init => RecordsOK /\ NoncesOK /\ MarksInv /\ ErasedInv
  BY RecordsStart, MarksStart, ErasedStart
<1>2. RecordsOK /\ NoncesOK /\ MarksInv /\ ErasedInv /\ [Next]_vars =>
        (RecordsOK /\ NoncesOK /\ MarksInv /\ ErasedInv)'
  <2>1. RecordsOK /\ NoncesOK /\ [Next]_vars => RequestsOK'
    BY RecordsKept DEF RecordsOK
  <2> QED
    BY <2>1, RecordsKept, MarksKept, ErasedKept
<1>3. ErasedInv => ErasedStaysErased
  BY DEF ErasedInv
<1> QED
  BY <1>1, <1>2, <1>3, PTL DEF Spec

-----------------------------------------------------------------------------
(* What is recorded of a notice that was sent.                             *)

Sender(p, n) == Processes(p) /\ \E x \in req[p].sent : x[1] = n
Crossed(n) == <<"notice", n>> \in crossed

\* What a request has sent it marks as sent, unless it crossed; what it is about to
\* send it has not sent yet.
Accounted(p) ==
  Processes(p) =>
    /\ \A n \in Marked(p) : req[p].marks[n].st = "sent" => sends[n] > 0
    /\ \A x \in req[p].todo : Sender(p, x[1]) => Crossed(x[1])
    /\ \A x \in req[p].now : \/ req[p].at = "taken" /\ sends[x[1]] > 0
                             \/ req[p].at = "refused" /\ (Sender(p, x[1]) => Crossed(x[1]))
                             \/ req[p].at = "lost" /\ Crossed(x[1])
    /\ \A x \in req[p].sent :
         /\ x[1] \in Marked(p) \/ notices[x[1]].st # "none"
         /\ \/ Crossed(x[1])
            \/ req[p].at = "taken" /\ x \in req[p].now
            \/ x[1] \in Marked(p) /\ req[p].marks[x[1]].st = "sent"

SentIsTaken == \A n \in Notice : notices[n].st = "sent" => sends[n] > 0
\* Only a pending notice is rescheduled or cancelled.
UpdatesPending == \A p \in Proc : At(p, "later") \/ At(p, "cancel") => \A x \in req[p].arg : x[2].st = "pending"

\* How often a notice was taken, when nobody has sent it whose transaction is open,
\* and when one request has.
CountOK(n) ==
  Crossed(n) \/
    /\ \A p \in Proc : n \in Marked(p) => notices[n].st \in {"none", "pending"}
    /\ (\A p \in Proc : ~Sender(p, n)) =>
         \/ sends[n] = 0 /\ notices[n].st # "sent"
         \/ sends[n] = 1 /\ notices[n].st \in {"sent", "deleted"}
    /\ \A p \in Proc : /\ Sender(p, n) /\ (\A q \in Proc : Sender(q, n) => q = p)
                       /\ n \in Marked(p) \/ notices[n].st = "pending"
                       => sends[n] = 1

NoticeInv ==
  /\ \A p \in Proc : Accounted(p)
  /\ SentIsTaken /\ UpdatesPending
  /\ \A n \in Notice : CountOK(n)

LEMMA SameRequest ==
  ASSUME NEW q \in Proc, req'[q] = req[q]
  PROVE  /\ Processes(q)' = Processes(q) /\ Marked(q)' = Marked(q)
         /\ \A n : Sender(q, n)' = Sender(q, n)
  BY DEF Processes, Serves, Marked, Sender

LEMMA AccountedProcess ==
  ASSUME NEW p \in Proc, Processes(p), Accounted(p)
  PROVE  /\ \A n \in Marked(p) : req[p].marks[n].st = "sent" => sends[n] > 0
         /\ \A x \in req[p].todo : Sender(p, x[1]) => Crossed(x[1])
         /\ \A x \in req[p].now : \/ req[p].at = "taken" /\ sends[x[1]] > 0
                                  \/ req[p].at = "refused" /\ (Sender(p, x[1]) => Crossed(x[1]))
                                  \/ req[p].at = "lost" /\ Crossed(x[1])
         /\ \A x \in req[p].sent :
              /\ x[1] \in Marked(p) \/ notices[x[1]].st # "none"
              /\ \/ Crossed(x[1])
                 \/ req[p].at = "taken" /\ x \in req[p].now
                 \/ x[1] \in Marked(p) /\ req[p].marks[x[1]].st = "sent"
  BY DEF Accounted

LEMMA AccountedFrame ==
  ASSUME RecordsOK, NEW q \in Proc, Accounted(q), req'[q] = req[q], crossed \subseteq crossed',
         \A n \in Notice : /\ sends[n] > 0 => sends'[n] > 0
                           /\ notices[n].st # "none" => notices'[n].st # "none"
  PROVE  Accounted(q)'
<1>1. CASE ~Processes(q)
  BY <1>1, SameRequest DEF Accounted
<1>2. CASE Processes(q)
  <2>1. /\ Processes(q)' = Processes(q) /\ Marked(q)' = Marked(q)
        /\ \A n : Sender(q, n)' = Sender(q, n)
    BY SameRequest
  <2>2. /\ Marked(q) \subseteq Notice
        /\ \A x \in req[q].todo \cup req[q].now \cup req[q].sent : x[1] \in Notice
    BY <1>2, MarkedRows DEF RecordsOK, NoticeRequest
  <2>3. \A n : Crossed(n) => Crossed(n)'
    BY DEF Crossed
  <2>4. \A n \in Marked(q) : req[q].marks[n].st = "sent" => sends'[n] > 0
    BY <1>2, <2>2, AccountedProcess
  <2>5. \A x \in req[q].todo : Sender(q, x[1]) => Crossed(x[1])'
    BY <1>2, <2>3, AccountedProcess
  <2>6. \A x \in req[q].now : \/ req[q].at = "taken" /\ sends'[x[1]] > 0
                              \/ req[q].at = "refused" /\ (Sender(q, x[1]) => Crossed(x[1])')
                              \/ req[q].at = "lost" /\ Crossed(x[1])'
    BY <1>2, <2>2, <2>3, AccountedProcess
  <2>7. \A x \in req[q].sent :
          /\ x[1] \in Marked(q) \/ notices'[x[1]].st # "none"
          /\ \/ Crossed(x[1])'
             \/ req[q].at = "taken" /\ x \in req[q].now
             \/ x[1] \in Marked(q) /\ req[q].marks[x[1]].st = "sent"
    BY <1>2, <2>2, <2>3, AccountedProcess
  <2> QED
    BY <2>1, <2>4, <2>5, <2>6, <2>7 DEF Accounted
<1> QED
  BY <1>1, <1>2

LEMMA CountFrame ==
  ASSUME NEW n \in Notice, CountOK(n), crossed \subseteq crossed', sends'[n] = sends[n],
         notices'[n].st = notices[n].st,
         \A q \in Proc : Sender(q, n)' = Sender(q, n),
         \A q \in Proc : n \in Marked(q)' => n \in Marked(q) \/
            (notices[n].st \in {"none", "pending"} /\ (Sender(q, n) => notices[n].st = "pending"))
  PROVE  CountOK(n)'
<1>1. CASE Crossed(n)
  BY <1>1 DEF CountOK, Crossed
<1>2. CASE ~Crossed(n)
  <2>1. \A p \in Proc : n \in Marked(p)' => notices'[n].st \in {"none", "pending"}
    BY <1>2 DEF CountOK
  <2>2. (\A p \in Proc : ~Sender(p, n)') =>
          \/ sends'[n] = 0 /\ notices'[n].st # "sent"
          \/ sends'[n] = 1 /\ notices'[n].st \in {"sent", "deleted"}
    BY <1>2 DEF CountOK
  <2>3. \A p \in Proc : /\ Sender(p, n)' /\ (\A q \in Proc : Sender(q, n)' => q = p)
                        /\ n \in Marked(p)' \/ notices'[n].st = "pending"
                        => sends'[n] = 1
    BY <1>2 DEF CountOK
  <2> QED
    BY <2>1, <2>2, <2>3 DEF CountOK
<1> QED
  BY <1>1, <1>2

\* Requests that process no notices come and go.
LEMMA QuietNotices ==
  ASSUME RecordsOK, RequestsOK', NoticeInv, crossed \subseteq crossed', UNCHANGED <<notices, sends>>,
         \A q \in Proc : req'[q] = req[q] \/
           (req[q].at \notin ProcessAt /\ req'[q].at \notin ProcessAt \cup {"later", "cancel"})
  PROVE  NoticeInv'
<1>1. \A q \in Proc : req'[q] = req[q] \/ (~Processes(q) /\ ~Processes(q)')
  <2> SUFFICES ASSUME NEW q \in Proc, req'[q] # req[q]
               PROVE  ~Processes(q) /\ ~Processes(q)'
    OBVIOUS
  <2>1. RequestOK(req[q]) /\ RequestOK(req'[q])
    BY DEF RecordsOK, RequestsOK
  <2> QED
    BY <2>1, ProcessRow DEF Processes, Serves
<1>2. \A q \in Proc : Marked(q)' = Marked(q) /\ \A n : Sender(q, n)' = Sender(q, n)
  BY <1>1, SameRequest DEF Marked, Sender
<1>3. \A q \in Proc : Accounted(q)'
  <2>1. \A q \in Proc : req'[q] = req[q] => Accounted(q)'
    BY AccountedFrame DEF NoticeInv
  <2> QED
    BY <1>1, <2>1 DEF Accounted
<1>4. SentIsTaken' /\ UpdatesPending'
  BY DEF NoticeInv, SentIsTaken, UpdatesPending, At
<1>5. \A n \in Notice : CountOK(n)'
  BY <1>2, CountFrame DEF NoticeInv
<1> QED
  BY <1>3, <1>4, <1>5 DEF NoticeInv

\* Who is not processing: the requests of the other modules.
LEMMA OtherSteps ==
  ASSUME RecordsOK, RequestsOK', NEW p \in Proc,
         \/ AccountStarts(p) \/ AccountGoes(p) \/ OrgStarts(p) \/ OrgGoes(p)
         \/ AgreementStarts(p) \/ AgreementGoes(p) \/ EraseStep(p)
  PROVE  /\ req[p].at \notin ProcessAt
         /\ \A q \in Proc \ {p} : req'[q] = req[q]
<1>1. \A q \in Proc \ {p} : req'[q] = req[q]
  BY StartsLoad, GoesContinue DEF RecordsOK
<1>2. AccountStarts(p) => req[p].at = "idle"
  BY CaseWritten DEF AccountStarts, register, register_request, register_verify, request_wallet_nonce,
      verify_wallet_signature, begin_enrollment, enable, disable, verify_second_factor, update_user,
      upload_my_avatar, delete_my_avatar, update_by_admin, create_case, erase_user,
      Request, Begin, At
<1>3. OrgStarts(p) => req[p].at = "idle"
  BY DEF OrgStarts, create_organization, switch_default_organization, create_invite, accept_invite,
      revoke_invite, Request, Begin, At
<1>4. AgreementStarts(p) => req[p].at = "idle"
  BY DEF AgreementStarts, generate_proposal, send_proposal, respond_to_proposal, create_signature_request,
      yousign_webhook, Request, Reads, Begin, At
<1>5. AccountGoes(p) => req[p].at \in {"create", "link", "wallet", "case", "enroll", "enable", "disable",
                                        "recover", "update", "unset", "admin"}
  BY DEF AccountGoes, create_user, link_guest_cases, authenticate_or_create, FactorCommits,
      ProfileCommits, CaseCommits, At
<1>6. OrgGoes(p) => req[p].at \in OrgAt
  BY DEF OrgGoes, OrganizationCommits, SwitchCommits, InviteCommits, AcceptCommits, RevokeCommits, At, OrgAt
<1>7. AgreementGoes(p) => req[p].at \in AgreementAt
  BY DEF AgreementGoes, ProposalCommits, StatusCommits, ProviderCall, ProviderRefuses, SignatureFails,
      SignatureCommits, handle_webhook, HookCommits, HookFails, At, AgreementAt
<1>8. EraseStep(p) => req[p].at \in {"erase", "tombstone"}
  BY DEF EraseStep, EraseRecords, EraseCommits, EraseAccount, At
<1> QED
  BY <1>1, <1>2, <1>3, <1>4, <1>5, <1>6, <1>7, <1>8 DEF ProcessAt, OrgAt, AgreementAt, Answers

LEMMA OthersKeepNotices ==
  ASSUME RecordsOK, RequestsOK', NoticeInv, [Next]_vars, UNCHANGED noticeVars,
         \/ \E p \in Proc : EraseStep(p)
         \/ AccountStep \/ OrgStep \/ AgreementStep \/ EuipoStep \/ UNCHANGED vars
  PROVE  NoticeInv'
<1> USE DEF RecordsOK
<1>0. crossed \subseteq crossed' /\ UNCHANGED <<notices, sends>>
  BY HistoryGrows DEF noticeVars
<1>1. ASSUME NEW at, at \cap (ProcessAt \cup {"later", "cancel"}) = {}, Moves(at),
             UNCHANGED req \/ \E p \in Proc : /\ req[p].at \notin ProcessAt
                                              /\ \A q \in Proc \ {p} : req'[q] = req[q]
      PROVE  NoticeInv'
  <2>1. \A q \in Proc : req'[q] = req[q] \/
           (req[q].at \notin ProcessAt /\ req'[q].at \notin ProcessAt \cup {"later", "cancel"})
    BY <1>1 DEF Moves, Idle, ProcessAt
  <2> QED
    BY <1>0, <2>1, QuietNotices
<1>2. CASE AccountStep
  <2>1. UNCHANGED req \/ \E p \in Proc : AccountStarts(p) \/ AccountGoes(p)
    BY <1>2 DEF AccountStep, AccountNext, OtpExpires, NonceExpires
  <2>2. AccountAt \cap (ProcessAt \cup {"later", "cancel"}) = {}
    BY DEF AccountAt, ProcessAt
  <2>3. Moves(AccountAt)
    BY <1>2, AccountMoves DEF AccountStep
  <2> QED
    BY <1>1, <2>1, <2>2, <2>3, OtherSteps
<1>3. CASE OrgStep
  <2>1. UNCHANGED req \/ \E p \in Proc : OrgStarts(p) \/ OrgGoes(p)
    BY <1>3 DEF OrgStep, OrgNext, InviteExpires
  <2>2. OrgAt \cap (ProcessAt \cup {"later", "cancel"}) = {}
    BY DEF OrgAt, ProcessAt
  <2>3. Moves(OrgAt)
    BY <1>3, OrgMoves DEF OrgStep
  <2> QED
    BY <1>1, <2>1, <2>2, <2>3, OtherSteps
<1>4. CASE AgreementStep
  <2>1. UNCHANGED req \/ \E p \in Proc : AgreementStarts(p) \/ AgreementGoes(p)
    BY <1>4 DEF AgreementStep, AgreementNext, Decide
  <2>2. AgreementAt \cap (ProcessAt \cup {"later", "cancel"}) = {}
    BY DEF AgreementAt, ProcessAt, Answers
  <2>3. Moves(AgreementAt)
    BY <1>4, AgreementMoves DEF AgreementStep
  <2> QED
    BY <1>1, <2>1, <2>2, <2>3, OtherSteps
<1>5. ASSUME NEW p \in Proc, EraseStep(p)
      PROVE  NoticeInv'
  <2>1. {"tombstone"} \cap (ProcessAt \cup {"later", "cancel"}) = {}
    BY DEF ProcessAt
  <2> QED
    BY <1>1, <1>5, <2>1, EraseMoves, OtherSteps
<1>6. CASE EuipoStep \/ UNCHANGED vars
  <2>1. UNCHANGED req
    BY <1>6 DEF EuipoStep, OfEuipo, ClientVars, vars
  <2> QED
    BY <1>0, <2>1, QuietNotices
<1> QED
  BY <1>2, <1>3, <1>4, <1>5, <1>6

\* Rows that nobody has marked are written, and nothing is sent.
LEMMA FreeRowsWritten ==
  ASSUME RecordsOK, RequestsOK', NoticeInv, crossed \subseteq crossed', UNCHANGED sends, NEW p \in Proc,
         \A q \in Proc \ {p} : req'[q] = req[q], ~Processes(p), ~Processes(p)',
         req'[p].at \notin {"later", "cancel"},
         \A n \in Notice : notices'[n] = notices[n] \/
           /\ \A q \in Proc : n \notin Marked(q)
           /\ \/ notices[n].st = "none" /\ notices'[n].st = "pending"
              \/ notices'[n].st = "deleted"
              \/ notices'[n].st = notices[n].st
              \/ notices[n].st = "pending" /\ notices'[n].st = "cancelled"
              \/ notices'[n].st = "cancelled" /\ Crossed(n)'
  PROVE  NoticeInv'
<1>1. \A q \in Proc : Marked(q)' = Marked(q) /\ \A n : Sender(q, n)' = Sender(q, n)
  <2>1. \A q \in Proc \ {p} : Marked(q)' = Marked(q) /\ \A n : Sender(q, n)' = Sender(q, n)
    BY SameRequest
  <2> QED
    BY <2>1 DEF Marked, Sender
<1>2. \A n \in Notice : notices[n].st # "none" => notices'[n].st # "none"
  OBVIOUS
<1>3. \A q \in Proc : Accounted(q)'
  <2>1. \A q \in Proc \ {p} : Accounted(q)'
    BY <1>2, AccountedFrame DEF NoticeInv
  <2> QED
    BY <2>1 DEF Accounted
<1>4. SentIsTaken'
  BY DEF NoticeInv, SentIsTaken
<1>5. UpdatesPending'
  BY DEF NoticeInv, UpdatesPending, At
<1>6. ASSUME NEW n \in Notice
      PROVE  CountOK(n)'
  <2>1. CASE Crossed(n)'
    BY <2>1 DEF CountOK
  <2>2. CASE notices'[n].st = notices[n].st
    BY <1>1, <2>2, CountFrame DEF NoticeInv
  <2>3. CASE ~Crossed(n)' /\ notices'[n].st # notices[n].st
    <3>1. ~Crossed(n) /\ CountOK(n)
      BY <2>3 DEF Crossed, NoticeInv
    <3>2. \A q \in Proc : n \notin Marked(q)
      BY <2>3
    <3>3. (\A q \in Proc : ~Sender(q, n)') =>
            \/ sends'[n] = 0 /\ notices'[n].st # "sent"
            \/ sends'[n] = 1 /\ notices'[n].st \in {"sent", "deleted"}
      BY <1>1, <2>3, <3>1 DEF CountOK
    <3>4. \A q \in Proc : Sender(q, n) => notices[n].st # "none"
      BY <3>2, AccountedProcess DEF Sender, NoticeInv
    <3>5. \A q \in Proc : Sender(q, n)' => notices'[n].st # "pending"
      BY <1>1, <2>3, <3>4
    <3> QED
      BY <1>1, <3>2, <3>3, <3>5 DEF CountOK
  <2> QED
    BY <2>1, <2>2, <2>3
<1> QED
  BY <1>3, <1>4, <1>5, <1>6 DEF NoticeInv

LEMMA EndsQuiet ==
  ASSUME RequestsOK, RequestsOK', NEW p \in Proc, req[p].at \notin ProcessAt, End(p)
  PROVE  /\ \A q \in Proc \ {p} : req'[q] = req[q]
         /\ ~Processes(p) /\ ~Processes(p)' /\ req'[p].at = "idle"
<1>1. RequestOK(req[p]) /\ req'[p] = Idle /\ \A q \in Proc \ {p} : req'[q] = req[q]
  BY DEF RequestsOK, End
<1> QED
  BY <1>1, ProcessRow DEF Processes, Serves, Idle

LEMMA NoticeRowsWritten ==
  ASSUME RecordsOK, RequestsOK', MarksInv, NoticeInv, crossed \subseteq crossed', NEW p \in Proc,
         NoticeCommits(p) \/ UpdateCommits(p) \/ EraseCommits(p)
  PROVE  NoticeInv'
<1> USE DEF RecordsOK
<1>0. notices = [n \in Notice |-> notices[n]] /\ \A n \in Notice : notices[n] \in NoticeRow
  BY DEF NoticesOK
<1>1. /\ UNCHANGED sends /\ req[p].at \notin ProcessAt
      /\ \A q \in Proc \ {p} : req'[q] = req[q]
      /\ ~Processes(p) /\ ~Processes(p)' /\ req'[p].at = "idle"
  <2>1. UNCHANGED sends /\ End(p) /\ req[p].at \in {"notify", "later", "cancel", "tombstone"}
    BY DEF NoticeCommits, UpdateCommits, EraseCommits, EraseAccount, At
  <2> QED
    BY <2>1, EndsQuiet DEF ProcessAt
<1>2. CASE NoticeCommits(p)
  <2>1. PICK n \in Unused : \E due : notices' = [notices EXCEPT ![n] = Pending(req[p].user, due)]
    BY <1>2 DEF NoticeCommits, Inserted
  <2>2. /\ notices[n].st = "none" /\ \A q \in Proc : n \notin Marked(q)
        /\ notices'[n].st = "pending" /\ \A m \in Notice \ {n} : notices'[m] = notices[m]
    BY <1>0, <2>1, PendingRow DEF Unused
  <2> QED
    BY <1>1, <2>2, FreeRowsWritten
<1>3. CASE UpdateCommits(p)
  <2>0. UserRequest(req[p]) /\ req[p].op = req[p].at
    BY <1>3, AtUser DEF UpdateCommits, At, Named, UserRequest, OpOK
  <2>1. req[p].arg \subseteq Notice \X NoticeRow /\ \A x \in req[p].arg : x[2].st = "pending"
    BY <1>3, <2>0 DEF UpdateCommits, At, UserRequest, ArgOK, NoticeInv, UpdatesPending
  <2>2. PICK x \in req[p].arg :
          /\ Free(x[1])
          /\ \/ UNCHANGED notices
             \/ /\ notices[x[1]].st # "deleted"
                /\ notices' = [notices EXCEPT ![x[1]] = Written(req[p].op, notices[x[1]])]
                /\ notices[x[1]] # x[2] => Crossed(x[1])'
    BY <1>3 DEF UpdateCommits, Cross, Crossed
  <2>3. CASE UNCHANGED notices
    BY <1>1, <2>3, FreeRowsWritten
  <2>4. CASE ~UNCHANGED notices
    <3>1. x[1] \in Notice /\ \A q \in Proc : x[1] \notin Marked(q)
      BY <2>1, <2>2, FreeRow
    <3>2. /\ \A m \in Notice \ {x[1]} : notices'[m] = notices[m]
          /\ notices'[x[1]].st \in {notices[x[1]].st, "cancelled"}
          /\ notices[x[1]].st # "pending" => Crossed(x[1])'
      BY <1>0, <2>1, <2>2, <2>4, <3>1, UpdateRow
    <3> QED
      BY <1>1, <3>1, <3>2, FreeRowsWritten
  <2> QED
    BY <2>3, <2>4
<1>4. CASE EraseCommits(p)
  <2>1. At(p, "tombstone")
    BY <1>4 DEF EraseCommits, EraseAccount
  <2>2. \A n \in Notice : notices'[n] = IF <<"notice", n>> \in req[p].arg
                                        THEN [NoNotice EXCEPT !.st = "deleted"] ELSE notices[n]
    BY <1>4 DEF EraseCommits, EraseNotices
  <2>3. [NoNotice EXCEPT !.st = "deleted"].st = "deleted"
    BY DEF NoNotice
  <2>4. \A n \in Notice : notices'[n] = notices[n] \/
          (notices'[n].st = "deleted" /\ \A q \in Proc : n \notin Marked(q))
    BY <2>1, <2>2, <2>3 DEF MarksInv, Tombstones
  <2> QED
    BY <1>1, <2>4, FreeRowsWritten
<1> QED
  BY <1>2, <1>3, <1>4

\* A request that processes goes on, and no row is written.
LEMMA ProcessGoesOn ==
  ASSUME RecordsOK, RequestsOK', NoticeInv, crossed \subseteq crossed', UNCHANGED notices, NEW p \in Proc,
         \A q \in Proc \ {p} : req'[q] = req[q], req'[p].at \notin {"later", "cancel"},
         \A n \in Notice : sends[n] > 0 => sends'[n] > 0,
         Accounted(p)', \A n \in Notice : CountOK(n)'
  PROVE  NoticeInv'
<1>1. \A q \in Proc \ {p} : Accounted(q)'
  BY AccountedFrame DEF NoticeInv
<1>2. SentIsTaken' /\ UpdatesPending'
  BY DEF NoticeInv, SentIsTaken, UpdatesPending, At
<1> QED
  BY <1>1, <1>2 DEF NoticeInv

LEMMA NoticesBegin ==
  ASSUME RecordsOK, RequestsOK', NoticeInv, crossed \subseteq crossed', NEW p \in Proc, NoticeStarts(p)
  PROVE  NoticeInv'
<1> USE DEF RecordsOK
<1>0. /\ req = [q \in Proc |-> req[q]] /\ RequestOK(req[p]) /\ RequestOK(req'[p])
      /\ UNCHANGED <<notices, sends>> /\ req[p].at = "idle"
  BY DEF RequestsOK, NoticeStarts, create_notification, update_notification, process_notifications,
     Request, Begin, noticeVars, At
<1>1. ~Processes(p)
  BY <1>0 DEF Processes, Serves
<1>2. CASE create_notification(p) \/ update_notification(p)
  <2>1. /\ \A q \in Proc \ {p} : req'[q] = req[q]
        /\ req'[p].at \in {"notify", "later", "cancel"}
        /\ req'[p].at \in {"later", "cancel"} => \A x \in req'[p].arg : x[2].st = "pending"
    BY <1>0, <1>2 DEF create_notification, update_notification, Request, Begin
  <2>2. ~Processes(p)'
    BY <1>0, <2>1, ProcessRow DEF Processes, Serves, ProcessAt
  <2>3. \A q \in Proc : Marked(q)' = Marked(q) /\ \A n : Sender(q, n)' = Sender(q, n)
    <3>1. \A q \in Proc \ {p} : Marked(q)' = Marked(q) /\ \A n : Sender(q, n)' = Sender(q, n)
      BY <2>1, SameRequest
    <3> QED
      BY <1>1, <2>2, <3>1 DEF Marked, Sender
  <2>4. \A q \in Proc : Accounted(q)'
    <3>1. \A q \in Proc \ {p} : Accounted(q)'
      BY <1>0, <2>1, AccountedFrame DEF NoticeInv
    <3> QED
      BY <2>2, <3>1 DEF Accounted
  <2>5. SentIsTaken' /\ UpdatesPending'
    BY <1>0, <2>1 DEF NoticeInv, SentIsTaken, UpdatesPending, At
  <2>6. \A n \in Notice : CountOK(n)'
    BY <1>0, <2>3, CountFrame DEF NoticeInv
  <2> QED
    BY <2>4, <2>5, <2>6 DEF NoticeInv
<1>3. CASE process_notifications(p)
  <2>1. PICK u \in User : \E mine \in {{}} \cup {{n} : n \in Inserted(Unused)} : \E passes :
        req' = [req EXCEPT ![p] = [at |-> "read", op |-> "process", saw |-> users[u],
                                   user |-> IF mine = {} THEN NoUser ELSE u,
                                   passes |-> passes, todo |-> {}, now |-> {}, sent |-> {},
                                   marks |-> [n \in mine |-> Pending(u, TRUE)]]]
    BY <1>3 DEF process_notifications, Begin
  <2>2. PICK mine \in {{}} \cup {{n} : n \in Inserted(Unused)} : \E passes :
        req' = [req EXCEPT ![p] = [at |-> "read", op |-> "process", saw |-> users[u],
                                   user |-> IF mine = {} THEN NoUser ELSE u,
                                   passes |-> passes, todo |-> {}, now |-> {}, sent |-> {},
                                   marks |-> [n \in mine |-> Pending(u, TRUE)]]]
    BY <2>1
  <2> DEFINE owner == IF mine = {} THEN NoUser ELSE u
             added == [n \in mine |-> Pending(u, TRUE)]
  <2>3. /\ \A q \in Proc \ {p} : req'[q] = req[q]
        /\ req'[p].at = "read" /\ req'[p].op = "process" /\ req'[p].todo = {} /\ req'[p].now = {}
        /\ req'[p].sent = {} /\ req'[p].marks = added
    <3>1. PICK passes : req' = [req EXCEPT ![p] = [at |-> "read", op |-> "process", saw |-> users[u],
                                     user |-> owner,
                                     passes |-> passes, todo |-> {}, now |-> {}, sent |-> {},
                                     marks |-> added]]
      BY <2>2
    <3> HIDE DEF owner, added
    <3> QED
      BY <1>0, <3>1
  <2>4. \A n \in mine : notices[n].st = "none" /\ \A q \in Proc : n \notin Marked(q)
    BY DEF Inserted, Unused
  <2>5. Marked(p)' = mine /\ \A n : ~Sender(p, n) /\ ~Sender(p, n)'
    BY <1>1, <2>3 DEF Marked, Sender, Processes, Serves
  <2>6. \A q \in Proc \ {p} : Marked(q)' = Marked(q) /\ \A n : Sender(q, n)' = Sender(q, n)
    BY <2>3, SameRequest
  <2>7. Accounted(p)'
    <3>1. \A n \in mine : req'[p].marks[n].st = "pending"
      <4>1. Pending(u, TRUE).st = "pending"
        BY PendingRow
      <4> QED
        BY <2>3, <4>1
    <3> QED
      BY <2>3, <2>5, <3>1 DEF Accounted
  <2>8. \A n \in Notice : CountOK(n)'
    <3>1. \A n \in Notice : \A q \in Proc : Sender(q, n)' = Sender(q, n)
      <4>1. \A n : Sender(p, n)' = Sender(p, n)
        BY <2>5 DEF Sender
      <4> QED
        BY <2>6, <4>1
    <3>2. \A n \in Notice : \A q \in Proc : n \in Marked(q)' => n \in Marked(q) \/
            (notices[n].st \in {"none", "pending"} /\ (Sender(q, n) => notices[n].st = "pending"))
      <4> SUFFICES ASSUME NEW n \in Notice, NEW q \in Proc, n \in Marked(q)'
                   PROVE  n \in Marked(q) \/ (notices[n].st = "none" /\ ~Sender(q, n))
        OBVIOUS
      <4>1. CASE q = p
        BY <2>4, <2>5, <4>1
      <4>2. CASE q # p
        BY <2>6, <4>2
      <4> QED
        BY <4>1, <4>2
    <3> QED
      BY <1>0, <3>1, <3>2, CountFrame DEF NoticeInv
  <2> QED
    BY <1>0, <2>3, <2>7, <2>8, ProcessGoesOn
<1> QED
  BY <1>2, <1>3 DEF NoticeStarts

\* The notices to be sent are read; those that were sent are not among them.
LEMMA ReadNotices ==
  ASSUME RecordsOK, RequestsOK', MarksInv, NoticeInv, crossed \subseteq crossed', NEW p \in Proc,
         get_pending_notifications(p) \/ Again(p)
  PROVE  NoticeInv'
<1> USE DEF RecordsOK
<1>0. req = [q \in Proc |-> req[q]]
  BY DEF RequestsOK
<1>1. NoticeRequest(req[p]) /\ Processes(p) /\ req[p].at \in {"read", "send"} /\ req[p].now = {}
      /\ UNCHANGED <<notices, sends>>
  BY MarkedRows, ToDoProcess DEF get_pending_notifications, Again, At, ProcessAt, noticeVars
<1>2. /\ \A q \in Proc \ {p} : req'[q] = req[q]
      /\ req'[p].at \in {"read", "send"} /\ req'[p].op = "process" /\ req'[p].now = {}
      /\ req'[p].sent = req[p].sent /\ req'[p].marks = req[p].marks
      /\ req'[p].todo \in {req[p].todo, {<<n, Seen(p, n)>> : n \in {m \in Notice : PendingDue(Seen(p, m))}}}
  <2>1. CASE get_pending_notifications(p)
    BY <1>0, <1>1, <2>1 DEF get_pending_notifications, NoticeRequest
  <2>2. CASE Again(p)
    <3>1. req' = [req EXCEPT ![p] = [req[p] EXCEPT !.at = "read"]]
      BY <2>2 DEF Again, Goto
    <3> QED
      BY <1>0, <1>1, <3>1 DEF NoticeRequest
  <2> QED
    BY <2>1, <2>2
<1>3. Processes(p)' /\ Marked(p)' = Marked(p) /\ \A n : Sender(p, n)' = Sender(p, n)
  BY <1>1, <1>2 DEF Marked, Processes, Serves, Sender
<1>4. \A q \in Proc \ {p} : Marked(q)' = Marked(q) /\ \A n : Sender(q, n)' = Sender(q, n)
  BY <1>2, SameRequest
<1>5. \A n : Crossed(n) => Crossed(n)'
  BY DEF Crossed
<1>6. \A x \in req[p].sent :
        /\ x[1] \in Marked(p) \/ notices[x[1]].st # "none"
        /\ Crossed(x[1]) \/ (x[1] \in Marked(p) /\ req[p].marks[x[1]].st = "sent")
  BY <1>1, AccountedProcess DEF NoticeInv
<1>7. ASSUME NEW n \in Notice, PendingDue(Seen(p, n)), Sender(p, n)
      PROVE  Crossed(n)'
  BY <1>5, <1>6, <1>7 DEF Sender, PendingDue, Seen
<1>8. \A x \in req'[p].todo : Sender(p, x[1]) => Crossed(x[1])'
  <2>1. CASE req'[p].todo = req[p].todo
    BY <1>1, <1>5, <2>1, AccountedProcess DEF NoticeInv
  <2>2. CASE req'[p].todo = {<<n, Seen(p, n)>> : n \in {m \in Notice : PendingDue(Seen(p, m))}}
    BY <1>7, <2>2
  <2> QED
    BY <1>2, <2>1, <2>2
<1>9. Accounted(p)'
  <2>1. \A n \in Marked(p) : req[p].marks[n].st = "sent" => sends[n] > 0
    BY <1>1, AccountedProcess DEF NoticeInv
  <2> QED
    BY <1>1, <1>2, <1>3, <1>5, <1>6, <1>8, <2>1 DEF Accounted
<1>10. \A n \in Notice : CountOK(n)'
  BY <1>1, <1>3, <1>4, CountFrame DEF NoticeInv
<1> QED
  BY <1>1, <1>2, <1>9, <1>10, ProcessGoesOn

LEMMA NoticeSent ==
  ASSUME RecordsOK, RequestsOK', MarksInv, NoticeInv, crossed \subseteq crossed', NEW p \in Proc, Send(p)
  PROVE  NoticeInv'
<1> USE DEF RecordsOK
<1>0. req = [q \in Proc |-> req[q]] /\ sends \in [Notice -> Nat]
  BY DEF RequestsOK, NoticesOK
<1>1. NoticeRequest(req[p]) /\ Processes(p) /\ req[p].at = "send" /\ UNCHANGED notices
  BY MarkedRows DEF Send, At, ProcessAt
<1>2. PICK x \in req[p].todo, answer \in {"taken", "refused", "lost"} :
        /\ sends' = IF answer = "refused" THEN sends ELSE [sends EXCEPT ![x[1]] = @ + 1]
        /\ answer = "lost" => Crossed(x[1])'
        /\ req' = [req EXCEPT ![p] =
                    [req[p] EXCEPT !.at = answer, !.todo = @ \ {x}, !.now = {x},
                                   !.sent = IF answer = "refused" THEN @ ELSE @ \cup {x}]]
  BY DEF Send, Cross, Crossed
<1>3. PICK n \in Notice : n = x[1]
  BY <1>1 DEF NoticeRequest
<1>4. /\ \A q \in Proc \ {p} : req'[q] = req[q]
      /\ req'[p].at = answer /\ req'[p].op = "process" /\ req'[p].now = {x}
      /\ req'[p].todo = req[p].todo \ {x} /\ req'[p].marks = req[p].marks
      /\ req'[p].sent = IF answer = "refused" THEN req[p].sent ELSE req[p].sent \cup {x}
  <2> DEFINE todo == req[p].todo \ {x}
             sent == IF answer = "refused" THEN req[p].sent ELSE req[p].sent \cup {x}
  <2>1. req' = [req EXCEPT ![p] = [req[p] EXCEPT !.at = answer, !.todo = todo, !.now = {x}, !.sent = sent]]
    BY <1>2
  <2>2. (\A q \in Proc \ {p} : req'[q] = req[q]) /\ req'[p].at = answer /\ req'[p].op = "process"
        /\ req'[p].now = {x} /\ req'[p].todo = todo /\ req'[p].marks = req[p].marks /\ req'[p].sent = sent
    <3> HIDE DEF todo, sent
    <3> QED
      BY <1>0, <1>1, <2>1 DEF NoticeRequest
  <2> QED
    BY <2>2
<1>5. /\ Processes(p)' /\ Marked(p)' = Marked(p)
      /\ \A m : Sender(p, m)' = (Sender(p, m) \/ (answer # "refused" /\ m = n))
  <2>1. Processes(p)' /\ Marked(p)' = Marked(p)
    BY <1>1, <1>4 DEF Marked, Processes, Serves
  <2>2. \A m : (\E y \in req'[p].sent : y[1] = m) = ((\E y \in req[p].sent : y[1] = m) \/ (answer # "refused" /\ m = n))
    BY <1>3, <1>4
  <2> QED
    BY <1>1, <2>1, <2>2 DEF Sender
<1>6. \A q \in Proc \ {p} : Marked(q)' = Marked(q) /\ \A m : Sender(q, m)' = Sender(q, m)
  BY <1>4, SameRequest
<1>7. /\ \A m : Crossed(m) => Crossed(m)'
      /\ \A m \in Notice : sends[m] > 0 => sends'[m] > 0
      /\ \A m \in Notice \ {n} : sends'[m] = sends[m]
      /\ sends'[n] = IF answer = "refused" THEN sends[n] ELSE sends[n] + 1
  BY <1>0, <1>2, <1>3 DEF Crossed
<1>8. Sender(p, n) => Crossed(n)
  BY <1>1, <1>3, AccountedProcess DEF NoticeInv
<1>9. Accounted(p)'
  <2>1. \A m \in Marked(p) : req[p].marks[m].st = "sent" => sends'[m] > 0
    BY <1>1, <1>7, AccountedProcess, MarkedRows DEF NoticeInv
  <2>2. \A y \in req[p].todo \ {x} : Sender(p, y[1])' => Crossed(y[1])'
    <3>1. \A y \in req[p].todo \ {x} : y[1] # n /\ (Sender(p, y[1]) => Crossed(y[1]))
      BY <1>1, <1>3, AccountedProcess, ToDoProcess DEF NoticeInv
    <3> QED
      BY <1>5, <1>7, <3>1
  <2>3. \/ answer = "taken" /\ sends'[n] > 0
        \/ answer = "refused" /\ (Sender(p, n)' => Crossed(n)')
        \/ answer = "lost" /\ Crossed(n)'
    <3>1. CASE answer = "taken"
      <4>1. sends[n] \in Nat
        BY <1>0
      <4> QED
        BY <1>7, <3>1, <4>1
    <3>2. CASE answer = "refused"
      BY <1>5, <1>7, <1>8, <3>2
    <3>3. CASE answer = "lost"
      BY <1>2, <1>3, <3>3
    <3> QED
      BY <3>1, <3>2, <3>3
  <2>4. \A y \in req[p].sent :
          /\ y[1] \in Marked(p) \/ notices'[y[1]].st # "none"
          /\ Crossed(y[1])' \/ (y[1] \in Marked(p) /\ req[p].marks[y[1]].st = "sent")
    BY <1>1, <1>7, AccountedProcess DEF NoticeInv
  <2>5. x[1] \in Marked(p) \/ notices'[x[1]].st # "none"
    BY <1>1, ToDoProcess
  <2>6. answer # "refused" => Crossed(x[1])' \/ answer = "taken"
    BY <1>2
  <2>7. \A y \in req'[p].sent :
          /\ y[1] \in Marked(p) \/ notices'[y[1]].st # "none"
          /\ \/ Crossed(y[1])'
             \/ answer = "taken" /\ y \in {x}
             \/ y[1] \in Marked(p) /\ req[p].marks[y[1]].st = "sent"
    BY <1>4, <2>4, <2>5, <2>6
  <2>8. \A y \in {x} : y[1] = n
    BY <1>3
  <2> QED
    BY <1>4, <1>5, <2>1, <2>2, <2>3, <2>7, <2>8 DEF Accounted
<1>10. \A m \in Notice \ {n} : CountOK(m)'
  <2>1. \A m \in Notice \ {n} : \A q \in Proc : Sender(q, m)' = Sender(q, m)
    <3>1. \A m \in Notice \ {n} : Sender(p, m)' = Sender(p, m)
      BY <1>5 DEF Sender
    <3> QED
      BY <1>6, <3>1
  <2>2. \A q \in Proc : Marked(q)' = Marked(q)
    BY <1>5, <1>6
  <2> QED
    BY <1>1, <1>7, <2>1, <2>2, CountFrame DEF NoticeInv
<1>11. CountOK(n)'
  <2>1. CASE answer = "refused"
    <3>1. \A q \in Proc : Sender(q, n)' = Sender(q, n) /\ Marked(q)' = Marked(q)
      <4>1. Sender(p, n)' = Sender(p, n)
        BY <1>5, <2>1 DEF Sender
      <4> QED
        BY <1>5, <1>6, <4>1
    <3> QED
      BY <1>1, <1>7, <2>1, <3>1, CountFrame DEF NoticeInv
  <2>2. CASE Crossed(n)'
    BY <2>2 DEF CountOK
  <2>3. CASE answer # "refused" /\ ~Crossed(n)'
    <3>1. ~Crossed(n) /\ CountOK(n) /\ ~Sender(p, n) /\ Sender(p, n)'
      BY <1>5, <1>7, <1>8, <2>3 DEF NoticeInv
    <3>2. \A q \in Proc : n \in Marked(q)' => notices'[n].st \in {"none", "pending"}
      BY <1>1, <1>5, <1>6, <3>1 DEF CountOK
    <3>3. ASSUME NEW q \in Proc, Sender(q, n)', \A r \in Proc : Sender(r, n)' => r = q,
                 n \in Marked(q)' \/ notices'[n].st = "pending"
          PROVE  sends'[n] = 1
      <4>1. q = p /\ \A r \in Proc : ~Sender(r, n)
        BY <1>6, <3>1, <3>3
      <4>2. sends[n] = 0
        BY <1>1, <3>1, <3>2, <3>3, <4>1 DEF CountOK
      <4> QED
        BY <1>7, <2>3, <4>2
    <3> QED
      BY <3>1, <3>2, <3>3 DEF CountOK
  <2> QED
    BY <2>1, <2>2, <2>3
<1>12. \A m \in Notice : CountOK(m)'
  BY <1>10, <1>11
<1> QED
  BY <1>1, <1>4, <1>7, <1>9, <1>12, ProcessGoesOn

\* What a request had sent that is rolled back crossed.
LEMMA NoticeRolledBack ==
  ASSUME RecordsOK, RequestsOK', NoticeInv, crossed \subseteq crossed', UNCHANGED <<notices, sends>>,
         NEW p \in Proc, Processes(p), End(p), \A x \in req[p].sent : Crossed(x[1])'
  PROVE  NoticeInv'
<1> USE DEF RecordsOK
<1>1. (\A q \in Proc \ {p} : req'[q] = req[q]) /\ req'[p].at = "idle"
  BY DEF RequestsOK, End, Idle
<1>2. ~Processes(p)' /\ Marked(p)' = {} /\ \A n : ~Sender(p, n)'
  BY <1>1 DEF Processes, Serves, Marked, Sender
<1>3. \A q \in Proc \ {p} : Marked(q)' = Marked(q) /\ \A n : Sender(q, n)' = Sender(q, n)
  BY <1>1, SameRequest
<1>4. Accounted(p)'
  BY <1>2 DEF Accounted
<1>5. ASSUME NEW n \in Notice
      PROVE  CountOK(n)'
  <2>1. CASE Sender(p, n)
    BY <2>1 DEF Sender, CountOK
  <2>2. CASE ~Sender(p, n)
    <3>1. \A q \in Proc : Sender(q, n)' = Sender(q, n) /\ (n \in Marked(q)' => n \in Marked(q))
      <4>1. Sender(p, n)' = Sender(p, n) /\ n \notin Marked(p)'
        BY <1>2, <2>2 DEF Sender
      <4> QED
        BY <1>3, <4>1
    <3> QED
      BY <3>1, CountFrame DEF NoticeInv
  <2> QED
    BY <2>1, <2>2
<1> QED
  BY <1>1, <1>4, <1>5, ProcessGoesOn

LEMMA NoticeMarked ==
  ASSUME RecordsOK, RequestsOK', MarksInv, NoticeInv, crossed \subseteq crossed', NEW p \in Proc, Mark(p)
  PROVE  NoticeInv'
<1> USE DEF RecordsOK
<1>0. req = [q \in Proc |-> req[q]]
  BY DEF RequestsOK
<1>1. /\ NoticeRequest(req[p]) /\ Processes(p) /\ req[p].at \in {"taken", "refused", "lost"}
      /\ UNCHANGED <<notices, sends>>
  BY MarkedRows DEF Mark, At, ProcessAt, RolledBack
<1>2. PICK x \in req[p].now :
        \/ RolledBack(p)
        \/ /\ x[1] \in Marked(p) \/ Free(x[1])
           /\ Seen(p, x[1]).st # "deleted"
           /\ req' = [req EXCEPT ![p] =
                        [req[p] EXCEPT !.at = "send", !.now = {},
                                       !.marks = With(@, x[1], MarkOf(Seen(p, x[1]), x[2], req[p].at))]]
           /\ Seen(p, x[1]) # x[2] => Crossed(x[1])'
  BY DEF Mark, Cross, Crossed
<1>3. CASE RolledBack(p)
  BY <1>1, <1>3, NoticeRolledBack DEF RolledBack, Cross, Crossed
<1>4. CASE ~RolledBack(p)
  <2>1. PICK n \in Notice : n = x[1]
    BY <1>1 DEF NoticeRequest
  <2>2. /\ x[2] \in NoticeRow /\ x[2].st = "pending"
        /\ req[p].now = {x} /\ \A y \in req[p].todo : y[1] # n
    BY <1>1, <2>1, ToDoProcess DEF NoticeRequest
  <2> DEFINE marks == With(req[p].marks, n, MarkOf(Seen(p, x[1]), x[2], req[p].at))
             row == [req[p] EXCEPT !.at = "send", !.now = {}, !.marks = marks]
  <2>3. /\ \A q \in Proc \ {p} : req'[q] = req[q]
        /\ req'[p].at = "send" /\ req'[p].op = "process" /\ req'[p].now = {} /\ req'[p].todo = req[p].todo
        /\ req'[p].sent = req[p].sent /\ req'[p].marks = marks
    <3>1. /\ row.at = "send" /\ row.op = "process" /\ row.now = {} /\ row.todo = req[p].todo
          /\ row.sent = req[p].sent /\ row.marks = marks
      <4> HIDE DEF marks
      <4> QED
        BY <1>1 DEF NoticeRequest
    <3>2. req' = [req EXCEPT ![p] = row]
      BY <1>2, <1>4, <2>1
    <3> HIDE DEF row
    <3> QED
      BY <1>0, <3>1, <3>2
  <2>4. /\ Processes(p)' /\ \A m : Sender(p, m)' = Sender(p, m)
        /\ Marked(p)' = Marked(p) \cup {n}
        /\ \A m \in Marked(p) \ {n} : req'[p].marks[m] = req[p].marks[m]
        /\ req'[p].marks[n] = MarkOf(Seen(p, x[1]), x[2], req[p].at)
    <3>1. Processes(p)' /\ \A m : Sender(p, m)' = Sender(p, m)
      BY <1>1, <2>3 DEF Processes, Serves, Sender
    <3>2. Marked(p) = DOMAIN req[p].marks /\ Marked(p)' = DOMAIN marks
      BY <1>1, <2>3, <3>1 DEF Marked
    <3> QED
      BY <2>3, <3>1, <3>2 DEF With
  <2>5. \A q \in Proc \ {p} : Marked(q)' = Marked(q) /\ \A m : Sender(q, m)' = Sender(q, m)
    BY <2>3, SameRequest
  <2>6. /\ req[p].at = "taken" => MarkOf(Seen(p, x[1]), x[2], req[p].at).st = "sent" /\ sends[n] > 0
        /\ req[p].at # "taken" => (Sender(p, n) => Crossed(n))
        /\ MarkOf(Seen(p, x[1]), x[2], req[p].at).st = "sent" => sends[n] > 0
    <3>1. Seen(p, n) \in NoticeRow
      BY <1>1, <1>2, <1>4, <2>1, SeenRow
    <3>2. Seen(p, n).st = "sent" => sends[n] > 0
      BY <1>1, AccountedProcess DEF Seen, NoticeInv, SentIsTaken
    <3>3. /\ req[p].at = "taken" => MarkOf(Seen(p, x[1]), x[2], req[p].at).st = "sent"
          /\ req[p].at # "taken" => MarkOf(Seen(p, x[1]), x[2], req[p].at).st \in {Seen(p, n).st, "failed"}
      BY <2>1, <2>2, <3>1, MarkRow
    <3> QED
      BY <1>1, <2>1, <2>2, <3>2, <3>3, AccountedProcess DEF NoticeInv
  <2>7. \A m : Crossed(m) => Crossed(m)'
    BY DEF Crossed
  <2>8. Accounted(p)'
    <3>1. \A m \in Marked(p)' : req'[p].marks[m].st = "sent" => sends'[m] > 0
      <4>1. \A m \in Marked(p) : req[p].marks[m].st = "sent" => sends[m] > 0
        BY <1>1, AccountedProcess DEF NoticeInv
      <4> QED
        BY <1>1, <2>4, <2>6, <4>1
    <3>2. \A y \in req'[p].todo : Sender(p, y[1])' => Crossed(y[1])'
      BY <1>1, <2>3, <2>4, <2>7, AccountedProcess DEF NoticeInv
    <3>3. ASSUME NEW y \in req[p].sent
          PROVE  /\ y[1] \in Marked(p)' \/ notices'[y[1]].st # "none"
                 /\ Crossed(y[1])' \/ (y[1] \in Marked(p)' /\ req'[p].marks[y[1]].st = "sent")
      <4>1. /\ y[1] \in Marked(p) \/ notices[y[1]].st # "none"
            /\ \/ Crossed(y[1])
               \/ req[p].at = "taken" /\ y = x
               \/ y[1] \in Marked(p) /\ req[p].marks[y[1]].st = "sent"
        BY <1>1, <2>2, AccountedProcess DEF NoticeInv
      <4>2. CASE y[1] = n
        <5>1. Sender(p, n)
          BY <1>1, <4>2 DEF Sender
        <5> QED
          BY <2>4, <2>6, <2>7, <4>2, <5>1
      <4>3. CASE y[1] # n
        BY <1>1, <2>1, <2>4, <2>7, <4>1, <4>3
      <4> QED
        BY <4>2, <4>3
    <3> QED
      BY <2>3, <2>4, <3>1, <3>2, <3>3 DEF Accounted
  <2>9. ASSUME NEW m \in Notice \ {n}
        PROVE  CountOK(m)'
    <3>1. \A q \in Proc : Sender(q, m)' = Sender(q, m)
      BY <2>4, <2>5
    <3>2. \A q \in Proc : (m \in Marked(q)') => (m \in Marked(q))
      BY <2>4, <2>5
    <3>3. CountOK(m) /\ sends'[m] = sends[m] /\ notices'[m].st = notices[m].st
      BY <1>1 DEF NoticeInv
    <3> QED
      BY <3>1, <3>2, <3>3, CountFrame
  <2>10. CountOK(n)'
    <3>1. CASE Crossed(n)'
      BY <3>1 DEF CountOK
    <3>2. CASE ~Crossed(n)'
      <4>1. n \in Marked(p) \/ notices[n].st = "pending"
        BY <1>2, <1>4, <2>1, <2>2, <3>2 DEF Seen
      <4>2. \A q \in Proc : Sender(q, n)' = Sender(q, n)
        BY <2>4, <2>5
      <4>3. \A q \in Proc : n \in Marked(q)' => n \in Marked(q) \/ notices[n].st = "pending"
        BY <2>4, <2>5, <4>1
      <4> QED
        BY <1>1, <4>2, <4>3, CountFrame DEF NoticeInv
    <3> QED
      BY <3>1, <3>2
  <2>11. \A m \in Notice : CountOK(m)'
    BY <2>9, <2>10
  <2> QED
    BY <1>1, <2>3, <2>8, <2>11, ProcessGoesOn
<1> QED
  BY <1>3, <1>4

\* The marks become rows: what was sent and did not cross is marked as sent.
LEMMA NoticeMarksWritten ==
  ASSUME RecordsOK, RequestsOK', MarksInv, NoticeInv, crossed \subseteq crossed', NEW p \in Proc,
         ProcessCommits(p)
  PROVE  NoticeInv'
<1> USE DEF RecordsOK
<1>1. NoticeRequest(req[p]) /\ Processes(p) /\ req[p].at = "send" /\ UNCHANGED sends
  BY MarkedRows DEF ProcessCommits, At, ProcessAt
<1>2. (\A q \in Proc \ {p} : req'[q] = req[q]) /\ req'[p].at = "idle"
  BY DEF ProcessCommits, RequestsOK, End, Idle
<1>3. ~Processes(p)' /\ Marked(p)' = {} /\ \A n : ~Sender(p, n)'
  BY <1>2 DEF Processes, Serves, Marked, Sender
<1>4. \A q \in Proc \ {p} : Marked(q)' = Marked(q) /\ \A n : Sender(q, n)' = Sender(q, n)
  BY <1>2, SameRequest
<1>5. \A n \in Notice : /\ n \notin Marked(p) => notices'[n] = notices[n]
                        /\ n \in Marked(p) => notices'[n] = req[p].marks[n]
  BY DEF ProcessCommits, Seen
<1>6. /\ \A n \in Marked(p) : /\ req[p].marks[n].st # "none"
                              /\ req[p].marks[n].st = "sent" => sends[n] > 0
                              /\ \A q \in Proc \ {p} : n \notin Marked(q)
      /\ \A n \in Notice : Sender(p, n) /\ ~Crossed(n) => n \in Marked(p) /\ req[p].marks[n].st = "sent"
  <2>1. \A n \in Marked(p) : req[p].marks[n].st # "none" /\ \A q \in Proc \ {p} : n \notin Marked(q)
    BY MarkedRows DEF MarksInv, OwnMarks, MarksApart
  <2>2. \A n \in Marked(p) : req[p].marks[n].st = "sent" => sends[n] > 0
    BY <1>1, AccountedProcess DEF NoticeInv
  <2>3. \A x \in req[p].sent : Crossed(x[1]) \/ (x[1] \in Marked(p) /\ req[p].marks[x[1]].st = "sent")
    BY <1>1, AccountedProcess DEF NoticeInv
  <2> QED
    BY <2>1, <2>2, <2>3 DEF Sender
<1>7. \A n \in Notice : notices[n].st # "none" => notices'[n].st # "none"
  BY <1>5, <1>6
<1>8. \A q \in Proc : Accounted(q)'
  <2>1. \A q \in Proc \ {p} : Accounted(q)'
    BY <1>1, <1>2, <1>7, AccountedFrame DEF NoticeInv
  <2> QED
    BY <1>3, <2>1 DEF Accounted
<1>9. SentIsTaken' /\ UpdatesPending'
  BY <1>1, <1>2, <1>5, <1>6 DEF NoticeInv, SentIsTaken, UpdatesPending, At
<1>10. ASSUME NEW n \in Notice
       PROVE  CountOK(n)'
  <2>1. CASE Crossed(n)'
    BY <2>1 DEF CountOK
  <2>2. CASE ~Crossed(n)' /\ n \notin Marked(p)
    <3>1. ~Sender(p, n)
      BY <1>6, <2>2 DEF Crossed
    <3>2. \A q \in Proc : Sender(q, n)' = Sender(q, n) /\ (n \in Marked(q)' => n \in Marked(q))
      <4>1. Sender(p, n)' = Sender(p, n)
        BY <1>3, <3>1 DEF Sender
      <4> QED
        BY <1>3, <1>4, <4>1
    <3>3. notices'[n].st = notices[n].st
      BY <1>5, <2>2
    <3> QED
      BY <1>1, <3>2, <3>3, CountFrame DEF NoticeInv
  <2>3. CASE ~Crossed(n)' /\ n \in Marked(p)
    <3>1. ~Crossed(n) /\ CountOK(n) /\ sends'[n] = sends[n] /\ notices'[n].st = req[p].marks[n].st
      BY <1>1, <1>5, <2>3 DEF Crossed, NoticeInv
    <3>2. \A q \in Proc : n \notin Marked(q)'
      BY <1>3, <1>4, <1>6, <2>3
    <3>3. notices[n].st \in {"none", "pending"}
      BY <2>3, <3>1 DEF CountOK
    <3>4. ASSUME \A q \in Proc : ~Sender(q, n)'
          PROVE  \/ sends[n] = 0 /\ req[p].marks[n].st # "sent"
                 \/ sends[n] = 1 /\ req[p].marks[n].st \in {"sent", "deleted"}
      <4>1. \A q \in Proc \ {p} : ~Sender(q, n)
        BY <1>4, <3>4
      <4>2. CASE Sender(p, n)
        <5>1. sends[n] = 1
          BY <2>3, <3>1, <4>1, <4>2 DEF CountOK
        <5> QED
          BY <1>6, <3>1, <4>2, <5>1
      <4>3. CASE ~Sender(p, n)
        <5>1. sends[n] = 0
          BY <3>1, <3>3, <4>1, <4>3 DEF CountOK
        <5> QED
          BY <1>6, <2>3, <5>1
      <4> QED
        BY <4>2, <4>3
    <3>5. ASSUME NEW q \in Proc, Sender(q, n)', \A r \in Proc : Sender(r, n)' => r = q,
                 req[p].marks[n].st = "pending"
          PROVE  sends[n] = 1
      <4>1. q # p /\ Sender(q, n)
        BY <1>3, <1>4, <3>5
      <4>2. ~Sender(p, n)
        BY <1>6, <3>1, <3>5
      <4>3. \A r \in Proc : Sender(r, n) => r = q
        BY <1>4, <3>5, <4>2
      <4>4. notices[n].st # "none"
        <5>1. n \notin Marked(q)
          BY <1>6, <2>3, <4>1
        <5> QED
          BY <4>1, <5>1, AccountedProcess DEF Sender, NoticeInv
      <4> QED
        BY <3>1, <3>3, <4>1, <4>3, <4>4 DEF CountOK
    <3> QED
      BY <3>1, <3>2, <3>4, <3>5 DEF CountOK
  <2> QED
    BY <2>1, <2>2, <2>3
<1> QED
  BY <1>8, <1>9, <1>10 DEF NoticeInv

LEMMA NoticesKept == RecordsOK /\ RequestsOK' /\ MarksInv /\ NoticeInv /\ [Next]_vars => NoticeInv'
<1> SUFFICES ASSUME RecordsOK, RequestsOK', MarksInv, NoticeInv, [Next]_vars
             PROVE  NoticeInv'
  OBVIOUS
<1> USE DEF RecordsOK
<1>0. crossed \subseteq crossed'
  BY HistoryGrows
<1>1. CASE AccountStep \/ OrgStep \/ AgreementStep \/ EuipoStep \/ UNCHANGED vars
  <2>1. UNCHANGED noticeVars
    BY <1>1 DEF AccountStep, OrgStep, AgreementStep, EuipoStep, OfEuipo, ClientVars, vars, noticeVars
  <2> QED
    BY <1>1, <2>1, OthersKeepNotices
<1>2. ASSUME NEW p \in Proc, EraseStep(p)
      PROVE  NoticeInv'
  <2>1. CASE EraseRecords(p)
    <3>1. UNCHANGED noticeVars
      BY <2>1 DEF EraseRecords
    <3> QED
      BY <1>2, <3>1, OthersKeepNotices
  <2>2. CASE EraseCommits(p)
    BY <1>0, <2>2, NoticeRowsWritten
  <2> QED
    BY <1>2, <2>1, <2>2 DEF EraseStep
<1>3. ASSUME NEW p \in Proc, ProcessFails(p)
      PROVE  NoticeInv'
  BY <1>0, <1>3, NoticeRolledBack DEF ProcessFails, RolledBack, Cross, Crossed
<1>4. ASSUME NEW n \in Notice, Due(n)
      PROVE  NoticeInv'
  <2>1. /\ UNCHANGED <<req, sends>>
        /\ \A m \in Notice : notices'[m].st = notices[m].st
    BY <1>4 DEF Due, NoticesOK, NoticeRow
  <2>2. \A q \in Proc : Marked(q)' = Marked(q) /\ \A m : Sender(q, m)' = Sender(q, m)
    BY <2>1, SameRequest
  <2>3. \A q \in Proc : Accounted(q)'
    BY <1>0, <2>1, AccountedFrame DEF NoticeInv
  <2>4. SentIsTaken' /\ UpdatesPending'
    BY <2>1 DEF NoticeInv, SentIsTaken, UpdatesPending, At
  <2>5. \A m \in Notice : CountOK(m)'
    BY <1>0, <2>1, <2>2, CountFrame DEF NoticeInv
  <2> QED
    BY <2>3, <2>4, <2>5 DEF NoticeInv
<1>5. ASSUME NEW p \in Proc, NoticeStarts(p) \/ NoticeGoes(p), ~ProcessFails(p)
      PROVE  NoticeInv'
  BY <1>0, <1>5, NoticesBegin, NoticeRowsWritten, ReadNotices, NoticeSent, NoticeMarked, NoticeMarksWritten
  DEF NoticeGoes
<1>6. CASE NoticeStep
  BY <1>3, <1>4, <1>5, <1>6 DEF NoticeStep, NoticeNext
<1> QED
  BY <1>1, <1>2, <1>6 DEF Next

LEMMA NoticesStart == Init => NoticeInv
<1> SUFFICES ASSUME Init
             PROVE  NoticeInv
  OBVIOUS
<1>1. \A p \in Proc : req[p].at = "idle"
  BY DEF Init, AccountInit, Idle
<1>2. \A p \in Proc : ~Processes(p) /\ Marked(p) = {} /\ \A n : ~Sender(p, n)
  BY <1>1 DEF Processes, Serves, Marked, Sender
<1>3. \A n \in Notice : notices[n].st \in {"none", "pending"} /\ sends[n] = 0
  <2>1. PICK u, some : notices = [n \in Notice |-> IF n \in some /\ used.lane = "notice"
                                                  THEN Pending(u, FALSE) ELSE NoNotice]
    BY DEF Init, NoticeInit
  <2>2. Pending(u, FALSE).st = "pending" /\ NoNotice.st = "none"
    BY PendingRow DEF NoNotice
  <2> QED
    BY <2>1, <2>2 DEF Init, NoticeInit
<1>4. \A p \in Proc : Accounted(p)
  BY <1>2 DEF Accounted
<1>5. SentIsTaken /\ UpdatesPending
  BY <1>1, <1>3 DEF SentIsTaken, UpdatesPending, At
<1>6. \A n \in Notice : CountOK(n)
  BY <1>2, <1>3 DEF CountOK
<1> QED
  BY <1>4, <1>5, <1>6 DEF NoticeInv

\* A notice is recorded as sent only if WhatsApp took it; it is taken once, and not at
\* all when cancelled or failed, unless an answer or a transaction was lost, two requests
\* had read it before either wrote, or the request that sent it has not committed yet.
THEOREM NoticesAreAsRecorded == Spec => []NoticeIsAsRecorded
<1>1. Init => RecordsOK /\ NoncesOK /\ MarksInv /\ NoticeInv
  BY RecordsStart, MarksStart, NoticesStart
<1>2. RecordsOK /\ NoncesOK /\ MarksInv /\ NoticeInv /\ [Next]_vars =>
        (RecordsOK /\ NoncesOK /\ MarksInv /\ NoticeInv)'
  <2>1. RecordsOK /\ NoncesOK /\ [Next]_vars => RequestsOK'
    BY RecordsKept DEF RecordsOK
  <2> QED
    BY <2>1, RecordsKept, MarksKept, NoticesKept
<1>3. NoticeInv => NoticeIsAsRecorded
  <2> SUFFICES ASSUME NoticeInv, NEW n \in Notice
               PROVE  /\ notices[n].st = "sent" => sends[n] > 0
                      /\ \/ sends[n] > 1
                         \/ notices[n].st \in {"cancelled", "failed"} /\ sends[n] > 0
                         => \/ Crossed(n)
                            \/ \E p \in Proc : Sender(p, n)
    BY DEF NoticeIsAsRecorded, Crossed, Sender
  <2>1. CountOK(n) /\ (notices[n].st = "sent" => sends[n] > 0)
    BY DEF NoticeInv, SentIsTaken
  <2> QED
    BY <2>1 DEF CountOK
<1> QED
  BY <1>1, <1>2, <1>3, PTL DEF Spec

-----------------------------------------------------------------------------
(* The session at EUIPO.  Its invariant speaks of the refresh token that   *)
(* is on its way: what a login or a refresh has got from EUIPO and not yet *)
(* written, and what a refusal is about to delete.                         *)

CallStep == {"idle", "acquire", "sleep", "headers", "fetch", "refresh", "store", "delete", "send"}

EuipoTypeOK ==
  /\ session \in [refresh : Nat, fresh : BOOLEAN] /\ cache \in BOOLEAN
  /\ call \in [EuipoCall ->
       [at : CallStep, flow : Flow, retried : BOOLEAN, saw : Nat, got : Nat]]
  /\ login \in Nat /\ issued \in Nat /\ lost \in BOOLEAN

\* The call is between its look at the row and the end of the refresh.
HasUserLock(c) == call[c].at \in {"refresh", "store", "delete"}

\* What is stored, read or got was issued.
TokensIssued ==
  /\ session.refresh <= issued /\ login <= issued /\ good \subseteq 1..issued
  /\ \A c \in EuipoCall : call[c].saw <= issued /\ call[c].got <= issued

UserLockHeldOnce ==
  \A c, d \in EuipoCall : HasUserLock(c) /\ HasUserLock(d) => c = d

\* No call has the token of a login that is not stored yet.
LoginIsApart ==
  login # NoLogin =>
    /\ session.refresh # login
    /\ \A c \in EuipoCall : HasUserLock(c) => call[c].saw # login
    /\ \A c \in EuipoCall : CallAt(c, "store") => call[c].got # login

LoginIsGood == login # NoLogin /\ good # {} => login \in good

DeletesTheRefused ==
  \A c \in EuipoCall :
    CallAt(c, "delete") /\ ~lost /\ call[c].saw = session.refresh => call[c].saw \notin good

StoresTheGood ==
  \A c \in EuipoCall :
    CallAt(c, "store") /\ ~lost /\ call[c].saw = session.refresh /\ login = NoLogin /\ good # {} =>
      call[c].got \in good

\* The row holds a good token, or the one that took its place is about to be written.
RowOrRefresh ==
  ~lost /\ login = NoLogin /\ good # {} =>
    \/ session.refresh \in good
    \/ \E c \in EuipoCall : CallAt(c, "store") /\ call[c].saw = session.refresh

EuipoInv ==
  /\ EuipoTypeOK /\ TokensIssued /\ UserLockHeldOnce
  /\ LoginIsApart /\ LoginIsGood
  /\ DeletesTheRefused /\ StoresTheGood /\ RowOrRefresh

\* Steps that leave the tokens alone, and in which calls that have something to write
\* go on unchanged; those that held the lock may let go of it.
LEMMA EuipoQuiet ==
  ASSUME EuipoInv, EuipoTypeOK',
         session'.refresh = session.refresh, UNCHANGED <<login, issued, good, lost>>,
         \A c \in EuipoCall : HasUserLock(c)' => call'[c] = call[c],
         \A c \in EuipoCall : CallAt(c, "store") => call'[c] = call[c],
         \A c \in EuipoCall : call'[c].saw \in {0, call[c].saw} /\ call'[c].got \in {0, call[c].got}
  PROVE  EuipoInv'
<1>1. TokensIssued'
  BY DEF EuipoInv, TokensIssued, EuipoTypeOK
<1>2. UserLockHeldOnce'
  BY DEF EuipoInv, UserLockHeldOnce, HasUserLock
<1>3. LoginIsApart' /\ LoginIsGood'
  BY DEF EuipoInv, LoginIsApart, LoginIsGood, HasUserLock, CallAt
<1>4. DeletesTheRefused' /\ StoresTheGood'
  BY DEF EuipoInv, DeletesTheRefused, StoresTheGood, HasUserLock, CallAt
<1>5. RowOrRefresh'
  BY DEF EuipoInv, RowOrRefresh, CallAt
<1> QED
  BY <1>1, <1>2, <1>3, <1>4, <1>5 DEF EuipoInv

\* The limiter, the token of the application, and the request itself.
LEMMA QuietSteps ==
  ASSUME EuipoInv, NEW c \in EuipoCall,
         \/ search_trademarks(c) \/ search_designs(c) \/ search_terms(c)
         \/ create_application(c)
         \/ acquire(c) \/ Awake(c) \/ UseCached(c) \/ LockCache(c)
         \/ get_client_credentials_token(c) \/ FetchFails(c)
         \/ UseSession(c) \/ NoUserSession(c)
         \/ SendRequest(c) \/ RetryRequest(c)
  PROVE  EuipoInv'
<1>1. ~HasUserLock(c) /\ UNCHANGED <<session, login, issued, good, lost>>
  BY DEF search_trademarks, search_designs, search_terms, create_application, euipo_request,
         acquire, Awake, UseCached, LockCache, get_client_credentials_token, FetchFails, UseSession, NoUserSession,
         SendRequest, RetryRequest, CallAt, HasUserLock, get_auth_headers
<1>2. /\ call' = [call EXCEPT ![c] = call'[c]]
      /\ call'[c].at \in CallStep \ {"refresh", "store", "delete"}
      /\ call'[c] \in [at : CallStep, flow : Flow, retried : BOOLEAN, saw : Nat, got : Nat]
      /\ call'[c].saw \in {0, call[c].saw} /\ call'[c].got \in {0, call[c].got}
  <2>1. call[c] \in [at : CallStep, flow : Flow, retried : BOOLEAN, saw : Nat, got : Nat]
        /\ call \in [EuipoCall -> [at : CallStep, flow : Flow, retried : BOOLEAN, saw : Nat, got : Nat]]
    BY DEF EuipoInv, EuipoTypeOK
  <2>2. CASE search_trademarks(c) \/ search_designs(c) \/ search_terms(c)
               \/ create_application(c) \/ acquire(c) \/ Awake(c) \/ LockCache(c)
    BY <2>1, <2>2 DEF search_trademarks, search_designs, search_terms, create_application,
        euipo_request, acquire, Awake, LockCache, CallGoes, CallStep, Flow
  <2>3. CASE RetryRequest(c)
    BY <2>1, <2>3 DEF RetryRequest, CallStep
  <2>4. CASE CallEnds(c)
    BY <2>1, <2>4 DEF CallEnds, NoCall, CallStep, Flow
  <2>5. CASE Presents(c)
    BY <2>1, <2>5 DEF Presents, CallStep
  <2>6. CASE UseCached(c) \/ get_client_credentials_token(c) \/ FetchFails(c)
             \/ UseSession(c) \/ NoUserSession(c) \/ SendRequest(c)
    BY <2>4, <2>5, <2>6 DEF UseCached, get_client_credentials_token, FetchFails, UseSession,
        NoUserSession, SendRequest
  <2> QED
    BY <2>2, <2>3, <2>6
<1>3. cache' \in BOOLEAN
  BY DEF EuipoInv, EuipoTypeOK, search_trademarks, search_designs, search_terms, create_application,
         euipo_request, acquire, Awake, UseCached, LockCache, get_client_credentials_token, FetchFails, UseSession,
         NoUserSession, SendRequest, RetryRequest, invalidate_token
<1>4. EuipoTypeOK'
  BY <1>1, <1>2, <1>3 DEF EuipoInv, EuipoTypeOK
<1>5. /\ \A d \in EuipoCall : HasUserLock(d)' => call'[d] = call[d]
      /\ \A d \in EuipoCall : CallAt(d, "store") => call'[d] = call[d]
      /\ \A d \in EuipoCall : call'[d].saw \in {0, call[d].saw} /\ call'[d].got \in {0, call[d].got}
  BY <1>1, <1>2 DEF EuipoInv, EuipoTypeOK, HasUserLock, CallAt, CallStep
<1> QED
  BY <1>1, <1>4, <1>5, EuipoQuiet

\* What a call has read and got, when one call goes on.
LEMMA EuipoTypeStep ==
  ASSUME EuipoInv, NEW c \in EuipoCall, UNCHANGED <<cache, login>>, lost' \in BOOLEAN,
         session' \in [refresh : Nat, fresh : BOOLEAN], session'.refresh <= issued',
         issued' \in {issued, issued + 1}, good' \subseteq 1..issued',
         call' = [call EXCEPT ![c] = call'[c]],
         call'[c] \in [at : CallStep, flow : Flow, retried : BOOLEAN, saw : Nat, got : Nat],
         call'[c].saw <= issued', call'[c].got <= issued'
  PROVE  /\ EuipoTypeOK' /\ TokensIssued'
         /\ \A d \in EuipoCall : d # c => call'[d] = call[d]
<1>1. /\ EuipoTypeOK'
      /\ \A d \in EuipoCall : d # c => call'[d] = call[d]
  BY DEF EuipoInv, EuipoTypeOK
<1>2. TokensIssued'
  BY <1>1 DEF EuipoInv, EuipoTypeOK, TokensIssued
<1> QED
  BY <1>1, <1>2

LEMMA RotatesWithin ==
  ASSUME EuipoInv, NEW old, Rotates(old)
  PROVE  issued' = issued + 1 /\ good' \subseteq 1..issued'
<1>1. issued \in Nat /\ good \subseteq 1..issued
  BY DEF EuipoInv, EuipoTypeOK, TokensIssued
<1>2. issued' = issued + 1 /\ good' = (good \ {old}) \cup {issued + 1}
  BY DEF Rotates
<1>3. \A x \in good' : x \in 1..(issued + 1)
  BY <1>1, <1>2
<1> QED
  BY <1>2, <1>3

LEMMA RefreshBegins ==
  ASSUME EuipoInv, NEW c \in EuipoCall, get_user_token(c)
  PROVE  EuipoInv'
<1>1. /\ \A d \in EuipoCall : ~HasUserLock(d)
      /\ call' = [call EXCEPT ![c] = call'[c]]
      /\ call'[c].at = "refresh" /\ call'[c].saw = session.refresh
      /\ call'[c].got = call[c].got
      /\ call'[c] \in [at : CallStep, flow : Flow, retried : BOOLEAN, saw : Nat, got : Nat]
      /\ UNCHANGED <<session, login, issued, good, lost, cache>>
  BY DEF EuipoInv, EuipoTypeOK, get_user_token, UserLockFree, HasUserLock, CallStep
<1>2. /\ EuipoTypeOK' /\ TokensIssued'
      /\ \A d \in EuipoCall : d # c => call'[d] = call[d]
  BY <1>1, EuipoTypeStep DEF EuipoInv, EuipoTypeOK, TokensIssued
<1>3. UserLockHeldOnce'
  BY <1>1, <1>2 DEF UserLockHeldOnce, HasUserLock
<1>4. LoginIsApart' /\ LoginIsGood'
  BY <1>1, <1>2 DEF EuipoInv, LoginIsApart, LoginIsGood, HasUserLock, CallAt
<1>5. DeletesTheRefused' /\ StoresTheGood' /\ RowOrRefresh'
  BY <1>1, <1>2 DEF EuipoInv, DeletesTheRefused, StoresTheGood, RowOrRefresh, HasUserLock, CallAt
<1> QED
  BY <1>2, <1>3, <1>4, <1>5 DEF EuipoInv

\* EUIPO uses up the token that is exchanged, or answers without a new one.
LEMMA RefreshAnswered ==
  ASSUME EuipoInv, NEW c \in EuipoCall, RefreshExchanged(c)
  PROVE  EuipoInv'
<1>1. /\ CallAt(c, "refresh") /\ call[c].saw \in good
      /\ UNCHANGED <<session, login, lost, cache>>
      /\ call' = [call EXCEPT ![c] = call'[c]]
      /\ call'[c].at = "store" /\ call'[c].saw = call[c].saw
      /\ call'[c] \in [at : CallStep, flow : Flow, retried : BOOLEAN, saw : Nat, got : Nat]
      /\ \/ call'[c].got = call[c].saw /\ UNCHANGED <<issued, good>>
         \/ call'[c].got = issued + 1 /\ Rotates(call[c].saw)
  <2>1. PICK new \in {call[c].saw, issued + 1} :
          /\ IF new = call[c].saw THEN UNCHANGED <<issued, good>> ELSE Rotates(call[c].saw)
          /\ call' = [call EXCEPT ![c] = [@ EXCEPT !.at = "store", !.got = new]]
    BY DEF RefreshExchanged
  <2>2. /\ call[c] \in [at : CallStep, flow : Flow, retried : BOOLEAN, saw : Nat, got : Nat]
        /\ call \in [EuipoCall -> [at : CallStep, flow : Flow, retried : BOOLEAN, saw : Nat, got : Nat]]
        /\ new \in Nat
    BY DEF EuipoInv, EuipoTypeOK
  <2>3. /\ call'[c] = [call[c] EXCEPT !.at = "store", !.got = new]
        /\ call' = [call EXCEPT ![c] = call'[c]]
    BY <2>1, <2>2
  <2>4. /\ call'[c] \in [at : CallStep, flow : Flow, retried : BOOLEAN, saw : Nat, got : Nat]
        /\ call'[c].at = "store" /\ call'[c].saw = call[c].saw /\ call'[c].got = new
    BY <2>2, <2>3 DEF CallStep
  <2> QED
    BY <2>1, <2>3, <2>4 DEF RefreshExchanged
<1>2. /\ issued' \in {issued, issued + 1} /\ good' \subseteq 1..issued'
      /\ call'[c].got <= issued' /\ call'[c].saw <= issued' /\ session.refresh <= issued'
  <2>1. /\ issued \in Nat /\ good \subseteq 1..issued
        /\ call[c].saw <= issued /\ session.refresh <= issued
        /\ call[c].saw \in Nat /\ session.refresh \in Nat
    BY DEF EuipoInv, EuipoTypeOK, TokensIssued
  <2>2. Rotates(call[c].saw) => issued' = issued + 1 /\ good' \subseteq 1..issued'
    BY RotatesWithin
  <2>3. CASE UNCHANGED <<issued, good>>
    <3>1. issued' = issued /\ good' \subseteq 1..issued'
      BY <2>1, <2>3
    <3> QED
      BY <1>1, <2>1, <2>2, <3>1
  <2>4. CASE Rotates(call[c].saw)
    <3>1. issued' = issued + 1 /\ good' \subseteq 1..issued'
      BY <2>2, <2>4
    <3> QED
      BY <1>1, <2>1, <3>1
  <2> QED
    BY <1>1, <2>3, <2>4
<1>3. /\ EuipoTypeOK' /\ TokensIssued'
      /\ \A d \in EuipoCall : d # c => call'[d] = call[d]
  BY <1>1, <1>2, EuipoTypeStep DEF EuipoInv, EuipoTypeOK
<1>4. \A d \in EuipoCall : d # c => ~HasUserLock(d) /\ ~HasUserLock(d)'
  BY <1>1, <1>3 DEF EuipoInv, UserLockHeldOnce, HasUserLock, CallAt
<1>5. UserLockHeldOnce'
  BY <1>4 DEF UserLockHeldOnce
<1>6. \A x : x \in good /\ x # call[c].saw => x \in good'
  BY <1>1 DEF Rotates
<1>7. LoginIsApart' /\ LoginIsGood'
  <2>1. login # NoLogin => call[c].saw # login /\ login # issued + 1 /\ login \in good
    BY <1>1 DEF EuipoInv, EuipoTypeOK, LoginIsApart, LoginIsGood, HasUserLock, CallAt, TokensIssued
  <2> QED
    BY <1>1, <1>4, <1>6, <2>1 DEF EuipoInv, LoginIsApart, LoginIsGood, HasUserLock, CallAt
<1>8. DeletesTheRefused' /\ StoresTheGood'
  BY <1>1, <1>4 DEF DeletesTheRefused, StoresTheGood, HasUserLock, CallAt, Rotates
<1>9. RowOrRefresh'
  <2>1. ~lost /\ login = NoLogin => session.refresh \in good
    BY <1>1, <1>4 DEF EuipoInv, RowOrRefresh, CallAt, HasUserLock
  <2> QED
    BY <1>1, <1>6, <2>1 DEF RowOrRefresh, CallAt
<1> QED
  BY <1>3, <1>5, <1>7, <1>8, <1>9 DEF EuipoInv

LEMMA RefreshIsRefused ==
  ASSUME EuipoInv, NEW c \in EuipoCall, RefreshRefused(c)
  PROVE  EuipoInv'
<1>1. /\ CallAt(c, "refresh") /\ ((call[c].saw \notin good /\ UNCHANGED lost) \/ lost' = TRUE)
      /\ UNCHANGED <<session, login, cache, issued, good>>
      /\ call' = [call EXCEPT ![c] = call'[c]]
      /\ call'[c].at = "delete" /\ call'[c].saw = call[c].saw /\ call'[c].got = call[c].got
      /\ call'[c] \in [at : CallStep, flow : Flow, retried : BOOLEAN, saw : Nat, got : Nat]
  BY DEF EuipoInv, EuipoTypeOK, RefreshRefused, CallAt, CallGoes, CallStep
<1>2. /\ EuipoTypeOK' /\ TokensIssued'
      /\ \A d \in EuipoCall : d # c => call'[d] = call[d]
  BY <1>1, EuipoTypeStep DEF EuipoInv, EuipoTypeOK, TokensIssued
<1>3. \A d \in EuipoCall : d # c => ~HasUserLock(d) /\ ~HasUserLock(d)'
  BY <1>1, <1>2 DEF EuipoInv, UserLockHeldOnce, HasUserLock, CallAt
<1>4. UserLockHeldOnce'
  BY <1>3 DEF UserLockHeldOnce
<1>5. LoginIsApart' /\ LoginIsGood'
  BY <1>1, <1>3 DEF EuipoInv, LoginIsApart, LoginIsGood, HasUserLock, CallAt
<1>6. DeletesTheRefused' /\ StoresTheGood'
  BY <1>1, <1>3 DEF DeletesTheRefused, StoresTheGood, HasUserLock, CallAt
<1>7. RowOrRefresh'
  BY <1>1, <1>3 DEF EuipoInv, RowOrRefresh, HasUserLock, CallAt
<1> QED
  BY <1>2, <1>4, <1>5, <1>6, <1>7 DEF EuipoInv

LEMMA RefreshIsLost ==
  ASSUME EuipoInv, NEW c \in EuipoCall, RefreshLost(c)
  PROVE  EuipoInv'
<1>1. /\ CallAt(c, "refresh")
      /\ UNCHANGED <<session, login, cache>>
      /\ call' = [call EXCEPT ![c] = call'[c]] /\ call'[c] = NoCall
      /\ NoCall \in [at : CallStep, flow : Flow, retried : BOOLEAN, saw : Nat, got : Nat]
      /\ \/ UNCHANGED <<issued, good, lost>>
         \/ call[c].saw \in good /\ Rotates(call[c].saw) /\ lost'
      /\ lost' \in BOOLEAN
  BY DEF EuipoInv, EuipoTypeOK, RefreshLost, CallAt, CallEnds, NoCall, CallStep, Flow
<1>2. /\ issued' \in {issued, issued + 1} /\ good' \subseteq 1..issued'
      /\ call'[c].got <= issued' /\ call'[c].saw <= issued' /\ session.refresh <= issued'
  <2>1. /\ issued \in Nat /\ good \subseteq 1..issued
        /\ call[c].saw <= issued /\ session.refresh <= issued
        /\ call[c].saw \in Nat /\ session.refresh \in Nat
    BY DEF EuipoInv, EuipoTypeOK, TokensIssued
  <2>2. Rotates(call[c].saw) => issued' = issued + 1 /\ good' \subseteq 1..issued'
    BY RotatesWithin
  <2>3. CASE UNCHANGED <<issued, good>>
    <3>1. issued' = issued /\ good' \subseteq 1..issued'
      BY <2>1, <2>3
    <3> QED
      BY <1>1, <2>1, <2>2, <3>1 DEF NoCall
  <2>4. CASE Rotates(call[c].saw)
    <3>1. issued' = issued + 1 /\ good' \subseteq 1..issued'
      BY <2>2, <2>4
    <3> QED
      BY <1>1, <2>1, <3>1 DEF NoCall
  <2> QED
    BY <1>1, <2>3, <2>4
<1>3. /\ EuipoTypeOK' /\ TokensIssued'
      /\ \A d \in EuipoCall : d # c => call'[d] = call[d]
  BY <1>1, <1>2, EuipoTypeStep DEF EuipoInv, EuipoTypeOK
<1>4. \A d \in EuipoCall : ~HasUserLock(d)' /\ (d # c => ~HasUserLock(d))
  BY <1>1, <1>3 DEF EuipoInv, UserLockHeldOnce, HasUserLock, CallAt, NoCall
<1>5. UserLockHeldOnce' /\ DeletesTheRefused' /\ StoresTheGood'
  BY <1>4 DEF UserLockHeldOnce, DeletesTheRefused, StoresTheGood, HasUserLock, CallAt
<1>6. LoginIsApart' /\ LoginIsGood'
  BY <1>1, <1>4 DEF EuipoInv, LoginIsApart, LoginIsGood, HasUserLock, CallAt, Rotates
<1>7. RowOrRefresh'
  BY <1>1, <1>4 DEF EuipoInv, RowOrRefresh, HasUserLock, CallAt
<1> QED
  BY <1>3, <1>5, <1>6, <1>7 DEF EuipoInv

\* The refresh token that is written is the one the answer brought.
LEMMA RefreshIsStored ==
  ASSUME EuipoInv, NEW c \in EuipoCall, StoreRefreshed(c)
  PROVE  EuipoInv'
<1>1. /\ CallAt(c, "store")
      /\ session' \in [refresh : Nat, fresh : BOOLEAN]
      /\ session'.refresh = IF call[c].got # 0 THEN call[c].got ELSE session.refresh
      /\ lost' = (lost \/ session.refresh # call[c].saw) /\ lost' \in BOOLEAN
      /\ UNCHANGED <<login, cache, issued, good>>
      /\ call' = [call EXCEPT ![c] = call'[c]]
      /\ call'[c].at = "send" /\ call'[c].saw = 0 /\ call'[c].got = 0
      /\ call'[c] \in [at : CallStep, flow : Flow, retried : BOOLEAN, saw : Nat, got : Nat]
  BY DEF EuipoInv, EuipoTypeOK, StoreRefreshed, CallAt, _store_user_token, Overwritten,
         Presents, CallStep
<1>2. good \subseteq 1..issued /\ issued \in Nat /\ session.refresh <= issued
      /\ call[c].got <= issued /\ call[c].got \in Nat
  BY DEF EuipoInv, EuipoTypeOK, TokensIssued
<1>3. /\ EuipoTypeOK' /\ TokensIssued'
      /\ \A d \in EuipoCall : d # c => call'[d] = call[d]
  BY <1>1, <1>2, EuipoTypeStep
<1>4. \A d \in EuipoCall : ~HasUserLock(d)' /\ (d # c => ~HasUserLock(d))
  BY <1>1, <1>3 DEF EuipoInv, UserLockHeldOnce, HasUserLock, CallAt
<1>5. UserLockHeldOnce' /\ DeletesTheRefused' /\ StoresTheGood'
  BY <1>4 DEF UserLockHeldOnce, DeletesTheRefused, StoresTheGood, HasUserLock, CallAt
<1>6. LoginIsApart' /\ LoginIsGood'
  BY <1>1, <1>4 DEF EuipoInv, LoginIsApart, LoginIsGood, HasUserLock, CallAt
<1>7. RowOrRefresh'
  <2>1. SUFFICES ASSUME ~lost', login = NoLogin, good # {}
                 PROVE  session'.refresh \in good
    BY <1>1 DEF RowOrRefresh
  <2>2. call[c].got \in good
    BY <1>1, <2>1 DEF EuipoInv, StoresTheGood
  <2> QED
    BY <1>1, <1>2, <2>2
<1> QED
  BY <1>3, <1>5, <1>6, <1>7 DEF EuipoInv

\* The row that is deleted holds the token that was refused, or lost is true.
LEMMA SessionIsDeleted ==
  ASSUME EuipoInv, NEW c \in EuipoCall, _delete_user_token(c)
  PROVE  EuipoInv'
<1>1. /\ CallAt(c, "delete")
      /\ session' = NoSession
      /\ NoSession \in [refresh : Nat, fresh : BOOLEAN] /\ NoSession.refresh = 0
      /\ lost' = (lost \/ session.refresh # call[c].saw) /\ lost' \in BOOLEAN
      /\ UNCHANGED <<login, cache, issued, good>>
      /\ call' = [call EXCEPT ![c] = call'[c]] /\ call'[c] = NoCall
      /\ NoCall \in [at : CallStep, flow : Flow, retried : BOOLEAN, saw : Nat, got : Nat]
  BY DEF EuipoInv, EuipoTypeOK, _delete_user_token, CallAt, NoSession, Overwritten,
         CallEnds, NoCall, CallStep, Flow
<1>2. good \subseteq 1..issued /\ issued \in Nat /\ NoCall.saw = 0 /\ NoCall.got = 0
  BY DEF EuipoInv, EuipoTypeOK, TokensIssued, NoCall
<1>3. /\ EuipoTypeOK' /\ TokensIssued'
      /\ \A d \in EuipoCall : d # c => call'[d] = call[d]
  BY <1>1, <1>2, EuipoTypeStep
<1>4. \A d \in EuipoCall : ~HasUserLock(d)' /\ (d # c => ~HasUserLock(d))
  BY <1>1, <1>3 DEF EuipoInv, UserLockHeldOnce, HasUserLock, CallAt, NoCall
<1>5. UserLockHeldOnce' /\ DeletesTheRefused' /\ StoresTheGood'
  BY <1>4 DEF UserLockHeldOnce, DeletesTheRefused, StoresTheGood, HasUserLock, CallAt
<1>6. LoginIsApart' /\ LoginIsGood'
  BY <1>1, <1>4 DEF EuipoInv, LoginIsApart, LoginIsGood, HasUserLock, CallAt, NoLogin
<1>7. RowOrRefresh'
  <2>1. SUFFICES ASSUME ~lost', login = NoLogin, good # {}
                 PROVE  FALSE
    BY <1>1 DEF RowOrRefresh
  <2>2. ~lost /\ session.refresh = call[c].saw /\ session.refresh \notin good
    BY <1>1, <2>1 DEF EuipoInv, DeletesTheRefused
  <2> QED
    BY <1>1, <1>4, <2>1, <2>2 DEF EuipoInv, RowOrRefresh, HasUserLock, CallAt
<1> QED
  BY <1>3, <1>5, <1>6, <1>7 DEF EuipoInv

LEMMA WriteIsLost ==
  ASSUME EuipoInv, NEW c \in EuipoCall, CommitFails(c)
  PROVE  EuipoInv'
<1>1. /\ (CallAt(c, "store") /\ lost' = TRUE) \/ (CallAt(c, "delete") /\ UNCHANGED lost)
      /\ lost' \in BOOLEAN
      /\ UNCHANGED <<session, login, cache, issued, good>>
      /\ call' = [call EXCEPT ![c] = call'[c]] /\ call'[c] = NoCall
      /\ NoCall \in [at : CallStep, flow : Flow, retried : BOOLEAN, saw : Nat, got : Nat]
      /\ NoCall.saw = 0 /\ NoCall.got = 0
  <2>1. /\ (CallAt(c, "store") /\ lost' = TRUE) \/ (CallAt(c, "delete") /\ UNCHANGED lost)
        /\ UNCHANGED <<session, login, cache, issued, good>>
    BY DEF CommitFails
  <2>4. lost' \in BOOLEAN
    BY <2>1 DEF EuipoInv, EuipoTypeOK
  <2>2. call' = [call EXCEPT ![c] = call'[c]] /\ call'[c] = NoCall
    BY DEF EuipoInv, EuipoTypeOK, CommitFails, CallEnds
  <2>3. /\ NoCall \in [at : CallStep, flow : Flow, retried : BOOLEAN, saw : Nat, got : Nat]
        /\ NoCall.saw = 0 /\ NoCall.got = 0
    BY DEF NoCall, CallStep, Flow
  <2> QED
    BY <2>1, <2>2, <2>3, <2>4
<1>2. /\ EuipoTypeOK' /\ TokensIssued'
      /\ \A d \in EuipoCall : d # c => call'[d] = call[d]
  BY <1>1, EuipoTypeStep DEF EuipoInv, EuipoTypeOK, TokensIssued
<1>3. \A d \in EuipoCall : ~HasUserLock(d)' /\ (d # c => ~HasUserLock(d))
  BY <1>1, <1>2 DEF EuipoInv, UserLockHeldOnce, HasUserLock, CallAt, NoCall
<1>4. UserLockHeldOnce' /\ DeletesTheRefused' /\ StoresTheGood'
  BY <1>3 DEF UserLockHeldOnce, DeletesTheRefused, StoresTheGood, HasUserLock, CallAt
<1>5. LoginIsApart' /\ LoginIsGood'
  BY <1>1, <1>3 DEF EuipoInv, LoginIsApart, LoginIsGood, HasUserLock, CallAt
<1>6. RowOrRefresh'
  BY <1>1, <1>3 DEF EuipoInv, RowOrRefresh, HasUserLock, CallAt
<1> QED
  BY <1>2, <1>4, <1>5, <1>6 DEF EuipoInv

\* Logins: EUIPO issues a token that no call knows.
LEMMA LoginSteps ==
  ASSUME EuipoInv, exchange_authorization_code \/ StoreLogin \/ LoginFails
  PROVE  EuipoInv'
<1>1. /\ issued \in Nat /\ login \in Nat /\ session \in [refresh : Nat, fresh : BOOLEAN]
      /\ login <= issued /\ session.refresh <= issued /\ good \subseteq 1..issued
      /\ \A c \in EuipoCall : /\ call[c].saw <= issued /\ call[c].got <= issued
                              /\ call[c].saw \in Nat /\ call[c].got \in Nat
  BY DEF EuipoInv, EuipoTypeOK, TokensIssued
<1>2. CASE exchange_authorization_code
  <2>1. /\ login = NoLogin /\ issued' = issued + 1 /\ login' = issued + 1 /\ login' # NoLogin
        /\ good' = good \cup {issued + 1} \/ good' = {issued + 1}
        /\ UNCHANGED <<session, call, lost, cache>>
    BY <1>1, <1>2 DEF exchange_authorization_code, NoLogin
  <2>2. good' \subseteq 1..issued'
    <3>1. 1..issued \subseteq 1..issued' /\ issued + 1 \in 1..issued'
      BY <1>1, <2>1
    <3> QED
      BY <1>1, <2>1, <3>1
  <2>3. EuipoTypeOK' /\ TokensIssued' /\ UserLockHeldOnce'
    BY <1>1, <2>1, <2>2 DEF EuipoInv, EuipoTypeOK, TokensIssued, UserLockHeldOnce, HasUserLock
  <2>4. LoginIsApart' /\ LoginIsGood'
    BY <1>1, <2>1 DEF LoginIsApart, LoginIsGood
  <2>5. DeletesTheRefused'
    BY <1>1, <2>1 DEF EuipoInv, DeletesTheRefused, CallAt
  <2>6. StoresTheGood' /\ RowOrRefresh'
    BY <2>1 DEF StoresTheGood, RowOrRefresh
  <2> QED
    BY <2>3, <2>4, <2>5, <2>6 DEF EuipoInv
<1>3. CASE StoreLogin
  <2>1. /\ login # NoLogin /\ login' = NoLogin /\ lost' = FALSE /\ NoLogin = 0
        /\ session' = [refresh |-> login, fresh |-> TRUE]
        /\ UNCHANGED <<call, cache, issued, good>>
    BY <1>3 DEF StoreLogin, _store_user_token, NoLogin
  <2>2. session' \in [refresh : Nat, fresh : BOOLEAN] /\ session'.refresh <= issued
    BY <1>1, <2>1
  <2>7. EuipoTypeOK'
    BY <2>1, <2>2 DEF EuipoInv, EuipoTypeOK
  <2>8. TokensIssued' /\ UserLockHeldOnce'
    BY <1>1, <2>1, <2>2 DEF EuipoInv, TokensIssued, UserLockHeldOnce, HasUserLock
  <2>3. LoginIsApart' /\ LoginIsGood'
    BY <2>1 DEF LoginIsApart, LoginIsGood
  <2>4. \A c \in EuipoCall : HasUserLock(c) => call'[c].saw # session'.refresh
    BY <2>1 DEF EuipoInv, LoginIsApart
  <2>5. DeletesTheRefused' /\ StoresTheGood'
    BY <2>1, <2>4 DEF DeletesTheRefused, StoresTheGood, CallAt, HasUserLock
  <2>6. RowOrRefresh'
    BY <2>1 DEF EuipoInv, LoginIsGood, RowOrRefresh
  <2> QED
    BY <2>3, <2>5, <2>6, <2>7, <2>8 DEF EuipoInv
<1>4. CASE LoginFails
  <2>1. /\ login' = NoLogin /\ lost' = TRUE /\ NoLogin = 0
        /\ UNCHANGED <<session, call, cache, issued, good>>
    BY <1>4 DEF LoginFails, NoLogin
  <2>2. EuipoTypeOK' /\ TokensIssued' /\ UserLockHeldOnce'
    BY <1>1, <2>1 DEF EuipoInv, EuipoTypeOK, TokensIssued, UserLockHeldOnce, HasUserLock
  <2>3. LoginIsApart' /\ LoginIsGood' /\ DeletesTheRefused' /\ StoresTheGood' /\ RowOrRefresh'
    BY <2>1 DEF LoginIsApart, LoginIsGood, DeletesTheRefused, StoresTheGood, RowOrRefresh
  <2> QED
    BY <2>2, <2>3 DEF EuipoInv
<1> QED
  BY <1>2, <1>3, <1>4

LEMMA TimeSteps ==
  ASSUME EuipoInv, SessionAges \/ CacheAges \/ SessionRevoked
  PROVE  EuipoInv'
<1>1. CASE SessionAges \/ CacheAges
  <2>1. UNCHANGED <<call, login, issued, good, lost>> /\ session'.refresh = session.refresh
        /\ EuipoTypeOK'
    BY <1>1 DEF EuipoInv, EuipoTypeOK, SessionAges, CacheAges
  <2> QED
    BY <2>1, EuipoQuiet
<1>2. CASE SessionRevoked
  <2>1. UNCHANGED <<session, cache, call, login, issued, lost>> /\ good' = {}
    BY <1>2 DEF SessionRevoked
  <2>2. EuipoTypeOK' /\ TokensIssued' /\ UserLockHeldOnce' /\ LoginIsApart'
    BY <2>1 DEF EuipoInv, EuipoTypeOK, TokensIssued, UserLockHeldOnce, LoginIsApart, HasUserLock, CallAt
  <2>3. LoginIsGood' /\ DeletesTheRefused' /\ StoresTheGood' /\ RowOrRefresh'
    BY <2>1 DEF LoginIsGood, DeletesTheRefused, StoresTheGood, RowOrRefresh
  <2> QED
    BY <2>2, <2>3 DEF EuipoInv
<1> QED
  BY <1>1, <1>2

\* A restart in a refresh loses the session; otherwise nobody had anything to write.
LEMMA RestartStep ==
  ASSUME EuipoInv, Restart
  PROVE  EuipoInv'
<1>1. /\ call' = [c \in EuipoCall |-> NoCall] /\ cache' = FALSE
      /\ login' \in {login, NoLogin} /\ UNCHANGED session
      /\ lost' = (lost \/ login' # login \/ ~UserLockFree) /\ lost' \in BOOLEAN
  BY DEF Restart, EuipoInv, EuipoTypeOK
<1>2. \/ UNCHANGED <<issued, good>>
      \/ \E c \in EuipoCall :
           HasUserLock(c) /\ call[c].saw \in good /\ Rotates(call[c].saw)
  BY DEF Restart, HasUserLock, CallAt
<1>3. /\ issued' \in {issued, issued + 1} /\ good' \subseteq 1..issued'
      /\ (login # NoLogin /\ good' # {} => good # {} /\ (login \in good => login \in good'))
      /\ (lost' \/ good' = good)
  <2>1. CASE UNCHANGED <<issued, good>>
    <3>1. good \subseteq 1..issued
      BY DEF EuipoInv, TokensIssued
    <3>2. issued' = issued /\ good' = good
      BY <2>1
    <3> QED
      BY <3>1, <3>2
  <2>2. ASSUME NEW c \in EuipoCall, HasUserLock(c), call[c].saw \in good, Rotates(call[c].saw)
        PROVE  <1>3!:
    <3>1. lost' = TRUE
      BY <1>1, <2>2 DEF UserLockFree, HasUserLock
    <3>2. issued' = issued + 1 /\ good' \subseteq 1..issued'
      BY <2>2, RotatesWithin
    <3>3. login # NoLogin => login # call[c].saw
      BY <2>2 DEF EuipoInv, LoginIsApart
    <3> QED
      BY <2>2, <3>1, <3>2, <3>3 DEF Rotates
  <2> QED
    BY <1>2, <2>1, <2>2
<1>4. \A c \in EuipoCall : ~HasUserLock(c)' /\ call'[c].saw = 0 /\ call'[c].got = 0
  BY <1>1 DEF HasUserLock, NoCall
<1>5. EuipoTypeOK'
  <2>1. NoCall \in [at : CallStep, flow : Flow, retried : BOOLEAN, saw : Nat, got : Nat]
    BY DEF NoCall, CallStep, Flow
  <2>2. issued' \in Nat /\ login' \in Nat
    BY <1>1, <1>3 DEF EuipoInv, EuipoTypeOK, NoLogin
  <2> QED
    BY <1>1, <2>1, <2>2 DEF EuipoInv, EuipoTypeOK
<1>6. TokensIssued'
  <2>1. issued \in Nat /\ issued <= issued'
    BY <1>3 DEF EuipoInv, EuipoTypeOK
  <2> QED
    BY <1>1, <1>3, <1>4, <1>5, <2>1 DEF EuipoInv, EuipoTypeOK, TokensIssued, NoLogin
<1>7. UserLockHeldOnce' /\ DeletesTheRefused' /\ StoresTheGood'
  BY <1>4 DEF UserLockHeldOnce, DeletesTheRefused, StoresTheGood, HasUserLock, CallAt
<1>8. LoginIsApart' /\ LoginIsGood'
  BY <1>1, <1>3, <1>4 DEF EuipoInv, LoginIsApart, LoginIsGood, HasUserLock, CallAt
<1>9. RowOrRefresh'
  BY <1>1, <1>3, <1>4 DEF EuipoInv, RowOrRefresh, HasUserLock, CallAt, UserLockFree
<1> QED
  BY <1>5, <1>6, <1>7, <1>8, <1>9 DEF EuipoInv

LEMMA EuipoStart == EuipoInit => EuipoInv
<1> SUFFICES ASSUME EuipoInit
             PROVE  EuipoInv
  OBVIOUS
<1>1. /\ session = [refresh |-> 1, fresh |-> FALSE] /\ issued = 1 /\ good = {1}
      /\ cache = FALSE /\ call = [c \in EuipoCall |-> NoCall] /\ login = 0 /\ lost = FALSE
      /\ NoCall \in [at : CallStep, flow : Flow, retried : BOOLEAN, saw : Nat, got : Nat]
      /\ NoCall.at = "idle" /\ NoCall.saw = 0 /\ NoCall.got = 0
  BY DEF EuipoInit, NoCall, NoLogin, CallStep, Flow
<1>2. EuipoTypeOK
  BY <1>1 DEF EuipoTypeOK
<1>5. TokensIssued
  <2>1. session.refresh = 1 /\ \A c \in EuipoCall : call[c].saw = 0 /\ call[c].got = 0
    BY <1>1
  <2> QED
    BY <1>1, <2>1 DEF TokensIssued
<1>3. UserLockHeldOnce /\ LoginIsApart /\ LoginIsGood
  BY <1>1 DEF UserLockHeldOnce, LoginIsApart, LoginIsGood, HasUserLock, NoLogin
<1>4. DeletesTheRefused /\ StoresTheGood /\ RowOrRefresh
  BY <1>1 DEF DeletesTheRefused, StoresTheGood, RowOrRefresh, CallAt
<1> QED
  BY <1>2, <1>3, <1>4, <1>5 DEF EuipoInv

LEMMA EuipoNextKeeps == EuipoInv /\ [EuipoNext]_euipoVars => EuipoInv'
<1> SUFFICES ASSUME EuipoInv, [EuipoNext]_euipoVars
             PROVE  EuipoInv'
  OBVIOUS
<1>1. ASSUME NEW c \in EuipoCall,
             search_trademarks(c) \/ search_designs(c) \/ search_terms(c)
             \/ create_application(c) \/ CallContinues(c)
      PROVE  EuipoInv'
  BY <1>1, QuietSteps, RefreshBegins, RefreshAnswered, RefreshIsRefused, RefreshIsLost,
     RefreshIsStored, SessionIsDeleted, WriteIsLost DEF CallContinues
<1>2. CASE UNCHANGED euipoVars
  <2>1. UNCHANGED <<session, cache, call, login, issued, good, lost>> /\ EuipoTypeOK'
    BY <1>2 DEF euipoVars, EuipoInv, EuipoTypeOK
  <2> QED
    BY <2>1, EuipoQuiet
<1> QED
  BY <1>1, <1>2, LoginSteps, TimeSteps, RestartStep DEF EuipoNext

\* Whatever clients do at the same time, the office's session at EUIPO is kept.
THEOREM OfficeKeepsSession == Spec => []SessionIsKept
<1>1. Init => EuipoInv
  BY EuipoStart DEF Init
<1>2. EuipoInv /\ [Next]_vars => EuipoInv'
  <2>1. [Next]_vars => [EuipoNext]_euipoVars
    BY DEF Next, vars, AccountStep, OrgStep, AgreementStep, NoticeStep, EuipoStep, OfEuipo,
           EraseStep, EraseRecords, EraseCommits
  <2> QED
    BY <2>1, EuipoNextKeeps
<1>3. EuipoInv => SessionIsKept
  BY DEF EuipoInv, RowOrRefresh, SessionIsKept, AtRest, CallAt
<1> QED
  BY <1>1, <1>2, <1>3, PTL DEF Spec
=====

------------------------------ MODULE Accounts ------------------------------
(***************************************************************************)
(* The accounts of the users: registration and sign-in of app/auth, the    *)
(* second factor, the profile of app/users, and the cases that wait for a  *)
(* client to register (app/cases/guest_linking.py).                        *)
(*                                                                         *)
(* A request loads the rows it is about, decides, awaits (the password     *)
(* hash, the mail relay, the virus scanner, the database) and writes at the *)
(* end: an UPDATE by key, of the columns whose new value differs from the  *)
(* one it had loaded.  Nothing is locked while it decides.                 *)
(***************************************************************************)
EXTENDS Naturals, FiniteSets

CONSTANTS
  User, NoUser,  \* accounts: rows of users, those to come included
  WalletUser,    \* the accounts that belong to a wallet; the others have an email
  Case,          \* rows of cases
  Org, NoOrg,    \* organizations, one of which an account has as its default
  Proc,          \* requests served at a time
  Lane,          \* bound: a behaviour serves the requests of one of these kinds
  MaxRequests,   \* bound on requests
  MaxFaults      \* bound on failures

ASSUME NoUserAssumption == NoUser \notin User /\ WalletUser \subseteq User
ASSUME NoOrgAssumption == NoOrg \notin Org
ASSUME RequestBounds == MaxRequests \in Nat /\ MaxFaults \in Nat

VARIABLES
  users,    \* users, by account
  otp,      \* accounts whose registration waits for its code (Redis)
  nonce,    \* per account, the challenge its wallet has to sign, as a set (Redis)
  cases,    \* client and status of the cases, those to come of drafts included
  spent,    \* (history) challenges, recovery codes, invites and guest cases taken
  again,    \* (history) those that were taken once more
  crossed,  \* (history) what a request wrote after another one had changed what it read
  req,      \* per process, the request it serves and the step it is at
  used      \* how much of each bound is used up, and the lane

accountVars == <<users, otp, nonce, cases>>
history == <<spent, again, crossed>>

-----------------------------------------------------------------------------
(* Rows and requests.                                                      *)

\* The columns with personal data, of which the tombstone clears the avatar
\* unseen; secret and its recovery codes, and the secret that was proved last.
NoFactor == [secret |-> {}, on |-> FALSE, codes |-> {}, proved |-> {}]
NoAccount == [st |-> "none", erased |-> FALSE, pii |-> {}, factor |-> NoFactor, org |-> NoOrg]
Registered == [NoAccount EXCEPT !.st = "active", !.pii = {"name"}]
Codes(n) == {<<n, 1>>, <<n, 2>>}
Enrolled ==
  [Registered EXCEPT !.factor =
     [secret |-> {0}, on |-> TRUE, codes |-> Codes(0), proved |-> {0}]]

\* A case, or (status "draft") the one a draft at checkout is promoted to when paid.
NoCase == [st |-> "none", client |-> NoUser, draft |-> FALSE]
Open(u) == [st |-> "open", client |-> u, draft |-> FALSE]
Draft(u) == [st |-> "draft", client |-> u, draft |-> TRUE]

Active(u) == users[u].st = "active"
Idle == [at |-> "idle"]
At(p, step) == req[p].at = step
Serves(p, op) == req[p].at # "idle" /\ req[p].op = op

\* The number of a request names what it mints.
Begin(p, lanes, r) ==
  /\ At(p, "idle") /\ used.requests < MaxRequests /\ used.lane \in lanes
  /\ req' = [req EXCEPT ![p] = r]
  /\ used' = [used EXCEPT !.requests = @ + 1]

Number == used.requests + 1
\* bound: a row for every request that inserts one
Room(free, step) == Cardinality({q \in Proc : At(q, step)}) < Cardinality(free)
Fresh(free) == CHOOSE key \in free : TRUE
Inserted(free) == {key \in free : key = Fresh(free)}
Goto(p, step) == req' = [req EXCEPT ![p].at = step]
End(p) == req' = [req EXCEPT ![p] = Idle]
Fault == used.faults < MaxFaults /\ used' = [used EXCEPT !.faults = @ + 1]

Take(things) == spent' = spent \cup things /\ again' = again \cup (things \cap spent)
Cross(things) == crossed' = crossed \cup things

\* A write for an account that was erased since the request loaded it.
Late(p) ==
  LET u == req[p].user
  IN IF users[u].erased /\ ~req[p].saw.erased THEN {<<"erased", u>>} ELSE {}

\* get_current_user: the account is loaded, and is active.
Request(p, lane, u, op, more) ==
  /\ Active(u)
  /\ Begin(p, {lane}, [at |-> op, op |-> op, user |-> u, saw |-> users[u], arg |-> more])

-----------------------------------------------------------------------------
(* Registration.                                                           *)

Registers(p, u) ==
  [at |-> "create", op |-> "register", user |-> u, saw |-> NoAccount, arg |-> {}]

\* /register and /register/admin: the email is not in use.
register(p) ==
  /\ \E u \in User \ WalletUser :
       users[u].st = "none" /\ Begin(p, {"account"}, Registers(p, u))
  /\ UNCHANGED <<accountVars, history>>

store_pending(u) == otp' = otp \cup {u}
verify_code(u) == otp' = otp \ {u}

\* /register/request: the code and the data are kept for ten minutes, whether the
\* mail with the code gets through or not.
register_request(p) ==
  /\ \E u \in User \ WalletUser :
       /\ users[u].st = "none" /\ store_pending(u)
       /\ Begin(p, {"account"}, Idle)
  /\ UNCHANGED <<users, nonce, cases, history>>

OtpExpires(u) ==
  u \in otp /\ otp' = otp \ {u} /\ UNCHANGED <<users, nonce, cases, history, req, used>>

\* /register/verify: the code is deleted before the account is made.
register_verify(p) ==
  /\ \E u \in otp : verify_code(u) /\ Begin(p, {"account"}, Registers(p, u))
  /\ UNCHANGED <<users, nonce, cases, history>>

\* Mutant: the cases are not looked up by their missing client.
MutGuests(u) == {<<c, cases[c]>> : c \in {d \in Case : cases[d].st # "none"}}

\* Guest cases with the email or the phone number of the new account, and without
\* a client.  A wallet account has neither.
Guests(u) ==
  IF u \in WalletUser THEN {}
  ELSE {<<c, cases[c]>> : c \in {d \in Case : cases[d].st # "none" /\ cases[d].client = NoUser}}

\* The INSERT waits for another one of the same key, and fails when that commits.
create_user(p) ==
  /\ At(p, "create")
  /\ LET u == req[p].user IN
     /\ \A q \in Proc : ~(At(q, "link") /\ req[q].user = u)
     /\ IF users[u].st = "none"
        THEN req' = [req EXCEPT ![p] = [@ EXCEPT !.at = "link", !.arg = Guests(u)]]
        ELSE End(p)
  /\ UNCHANGED <<accountVars, history, used>>

\* The guest cases that were found get the new account as client, and the request
\* commits; or it is rolled back.
link_guest_cases(p) ==
  /\ At(p, "link")
  /\ LET u == req[p].user
         found == {x[1] : x \in req[p].arg}
     IN
     \/ /\ users' = [users EXCEPT ![u] = Registered]
        /\ cases' = [c \in Case |->
                       IF c \in found THEN [cases[c] EXCEPT !.client = u] ELSE cases[c]]
        /\ Take({<<"case", c>> : c \in found})
        /\ Cross({<<"case", x[1]>> : x \in {y \in req[p].arg : cases[y[1]].client # y[2].client}})
        /\ UNCHANGED used
     \/ Fault /\ UNCHANGED <<users, cases, history>>
  /\ End(p) /\ UNCHANGED <<otp, nonce>>

-----------------------------------------------------------------------------
(* Sign-in with a wallet.                                                  *)

\* A new challenge replaces the one before.
generate_nonce(u) == nonce' = [nonce EXCEPT ![u] = {Number}]

request_wallet_nonce(p) ==
  /\ \E u \in WalletUser : generate_nonce(u) /\ Begin(p, {"account"}, Idle)
  /\ UNCHANGED <<users, otp, cases, history>>

\* Mutant: the challenge is read and not deleted.
MutConsume(u) == UNCHANGED nonce
consume_cached_nonce(u) == nonce' = [nonce EXCEPT ![u] = {}]

NonceExpires(u) ==
  /\ nonce[u] # {}
  /\ nonce' = [nonce EXCEPT ![u] = {}]
  /\ UNCHANGED <<users, otp, cases, history, req, used>>

\* The message that was signed is the one that was issued last.
verify_signature(u, n) == n \in nonce[u]

\* Any challenge that was ever issued may be signed and sent; the pending one is
\* consumed, whatever the verdict.
verify_wallet_signature(p) ==
  /\ \E u \in WalletUser, n \in 1..MaxRequests :
       /\ nonce[u] # {} /\ n < Number
       /\ consume_cached_nonce(u)
       /\ IF verify_signature(u, n)
          THEN /\ Begin(p, {"account"}, [Registers(p, u) EXCEPT !.at = "wallet"])
               /\ Take({<<"nonce", n>>})
          ELSE Begin(p, {"account"}, Idle) /\ UNCHANGED <<spent, again>>
  /\ UNCHANGED <<users, otp, cases, crossed>>

\* The account of the wallet, if there is one, must be active; or one is made.
authenticate_or_create(p) ==
  /\ At(p, "wallet")
  /\ IF users[req[p].user].st = "none" THEN Goto(p, "create") ELSE End(p)
  /\ UNCHANGED <<accountVars, history, used>>

-----------------------------------------------------------------------------
(* The second factor.                                                      *)

\* Mutant: whether 2FA is on is not asked.
MutBeginEnrollment(p) ==
  /\ \E u \in User : Request(p, "account", u, "enroll", {Number})
  /\ UNCHANGED <<accountVars, history>>

\* A secret is shown; 2FA is off.
begin_enrollment(p) ==
  /\ \E u \in User :
       ~users[u].factor.on /\ Request(p, "account", u, "enroll", {Number})
  /\ UNCHANGED <<accountVars, history>>

\* A code of the pending secret is sent.
enable(p) ==
  /\ \E u \in User :
       /\ ~users[u].factor.on /\ users[u].factor.secret # {}
       /\ Request(p, "account", u, "enable", {Number})
  /\ UNCHANGED <<accountVars, history>>

\* A code of the secret is sent to turn 2FA off, which leaves no trace but the one of
\* this request; or a recovery code that is in the list that was loaded.
disable(p) ==
  /\ \E u \in User : \E by \in {{}} \cup {{code} : code \in users[u].factor.codes} :
       users[u].factor.on /\ Request(p, "account", u, "disable", by)
  /\ UNCHANGED <<accountVars, history>>

\* Sign-in with a recovery code that is in the list that was loaded.
verify_second_factor(p) ==
  /\ \E u \in User : \E code \in users[u].factor.codes :
       users[u].factor.on /\ Request(p, "account", u, "recover", {code})
  /\ UNCHANGED <<accountVars, history>>

\* Mutant: the list is stored as it was.
MutConsumeRecovery(stored, code) == stored
consume_recovery_code(stored, code) == stored \ code

\* What each of them writes.
FactorAfter(p) ==
  LET u == req[p].user
      now == users[u].factor
      saw == req[p].saw.factor
      n == req[p].arg
  IN
  CASE Serves(p, "enroll")  -> [now EXCEPT !.secret = n]
    [] Serves(p, "enable")  ->
         [now EXCEPT !.on = TRUE, !.codes = UNION {Codes(k) : k \in n}, !.proved = saw.secret]
    [] Serves(p, "disable") -> [NoFactor EXCEPT !.proved = now.proved]
    [] Serves(p, "recover") -> [now EXCEPT !.codes = consume_recovery_code(saw.codes, n)]

\* A secret replaced when it is live, or before it goes live; codes put back, or
\* used although another request has used them up.
FactorCrossed(p) ==
  LET u == req[p].user
      now == users[u].factor
      saw == req[p].saw.factor
  IN
  IF Serves(p, "recover") THEN {<<"code", u, c>> : c \in saw.codes \ now.codes}
  ELSE IF Serves(p, "disable") THEN {<<"code", u, c>> : c \in req[p].arg \ now.codes}
  ELSE IF \/ Serves(p, "enroll") /\ now.on /\ ~saw.on
          \/ Serves(p, "enable") /\ now.secret # saw.secret
       THEN {<<"secret", u>>} ELSE {}

FactorCommits(p) ==
  /\ \E op \in {"enroll", "enable", "disable", "recover"} : At(p, op)
  /\ users' = [users EXCEPT ![req[p].user].factor = FactorAfter(p)]
  /\ Take(IF At(p, "recover") \/ At(p, "disable")
          THEN {<<"code", req[p].user, c>> : c \in req[p].arg} ELSE {})
  /\ Cross(FactorCrossed(p))
  /\ End(p) /\ UNCHANGED <<otp, nonce, cases, used>>

-----------------------------------------------------------------------------
(* The profile, and what administrators do to accounts.                    *)

\* The user changes name or phone number.
update_user(p) ==
  /\ \E u \in User, cols \in {{"name"}, {"phone"}} : Request(p, "account", u, "update", cols)
  /\ UNCHANGED <<accountVars, history>>

\* A picture is uploaded, and scanned before it is stored; or deleted.
upload_my_avatar(p) ==
  /\ \E u \in User : Request(p, "account", u, "update", {"avatar"})
  /\ UNCHANGED <<accountVars, history>>

delete_my_avatar(p) ==
  /\ \E u \in User : "avatar" \in users[u].pii /\ Request(p, "account", u, "unset", {"avatar"})
  /\ UNCHANGED <<accountVars, history>>

\* An administrator changes a column or the status of any account, of an erased
\* one too; soft_delete_user is the change to inactive.
update_by_admin(p) ==
  /\ \E u \in User, st \in {"active", "inactive"}, cols \in SUBSET {"phone"} :
       /\ users[u].st # "none"
       /\ Begin(p, {"account"}, [at |-> "admin", op |-> st, user |-> u, saw |-> users[u],
                                 arg |-> cols])
  /\ UNCHANGED <<accountVars, history>>

ProfileCommits(p) ==
  LET u == req[p].user
      cols == req[p].arg
      pii == IF At(p, "unset") THEN users[u].pii \ cols ELSE users[u].pii \cup cols
      st == IF At(p, "admin") /\ req[p].op # req[p].saw.st THEN req[p].op ELSE users[u].st
  IN
  /\ At(p, "update") \/ At(p, "unset") \/ At(p, "admin")
  /\ users' = [users EXCEPT ![u] = [@ EXCEPT !.pii = pii, !.st = st]]
  /\ Cross(IF At(p, "admin") /\ users[u].erased THEN {<<"erased", u>>} ELSE Late(p))
  /\ End(p) /\ UNCHANGED <<otp, nonce, cases, spent, again, used>>

-----------------------------------------------------------------------------
(* Cases, as far as accounts depend on them.                               *)

NewCase == {c \in Case : cases[c].st = "none"}
OfErased(client) == {<<"erased", u>> : u \in {v \in User : v = client /\ users[v].erased}}

\* A user opens a case for itself.
create_case(p) ==
  /\ Room(NewCase, "case") /\ \E u \in User : Request(p, "account", u, "case", {})
  /\ UNCHANGED <<accountVars, history>>

CaseCommits(p) ==
  /\ At(p, "case")
  /\ \E c \in Inserted(NewCase) : cases' = [cases EXCEPT ![c] = Open(req[p].user)]
  /\ Cross(Late(p))
  /\ End(p) /\ UNCHANGED <<users, otp, nonce, spent, again, used>>

\* The other writes depend on nothing that their request has read: each is one step.
\* An administrator opens a case for any account, an erased one too, or for a guest.
create_case_for(p) ==
  /\ Room(NewCase, "case") /\ Begin(p, {"account"}, Idle)
  /\ \E client \in {u \in User : users[u].st # "none"} \cup {NoUser}, c \in Inserted(NewCase) :
       cases' = [cases EXCEPT ![c] = Open(client)] /\ Cross(OfErased(client))

\* A user sends a draft to checkout (it was active when the request loaded it).
prepare_payment(p) ==
  /\ Room(NewCase, "case") /\ Begin(p, {"account"}, Idle)
  /\ \E u \in {v \in User : users[v].st # "none"}, c \in Inserted(NewCase) :
       cases' = [cases EXCEPT ![c] = Draft(u)]
  /\ UNCHANGED crossed

\* Stripe's webhook, or the reconciler, promotes a draft that was paid to a case of
\* the draft's user, at any later time and without a look at the account.
promote_draft_and_setup_nft(p) ==
  /\ Begin(p, {"account"}, Idle)
  /\ \E c \in Case : cases[c].st = "draft" /\ cases' = [cases EXCEPT ![c].st = "open"]
  /\ UNCHANGED crossed

\* The case is closed, or opened again.
update_case(p) ==
  /\ Begin(p, {"account"}, Idle)
  /\ \E c \in Case, st \in {"open", "closed"} :
       /\ cases[c].st \notin {"none", "draft", st}
       /\ cases' = [cases EXCEPT ![c].st = st]
       /\ Cross(OfErased(cases[c].client))

WriteCase(p) ==
  /\ create_case_for(p) \/ prepare_payment(p) \/ promote_draft_and_setup_nft(p) \/ update_case(p)
  /\ UNCHANGED <<users, otp, nonce, spent, again>>

-----------------------------------------------------------------------------
(* Erasure of the account; its other rows are the business of the modules  *)
(* that know them.                                                         *)

find_erasure_blockers(u) == {c \in Case : cases[c].client = u /\ cases[c].st = "open"}
\* Those among them that no paid draft was promoted to.
OpenedByHand(u) == {c \in find_erasure_blockers(u) : ~cases[c].draft}

\* Asked for by the user or by an administrator; an account that was erased before,
\* or that has open cases, is left alone.
erase_user(p) ==
  /\ \E u \in User :
       /\ users[u].st # "none" /\ ~users[u].erased /\ find_erasure_blockers(u) = {}
       /\ Begin(p, Lane \ {"euipo"},
                [at |-> "erase", op |-> "erase", user |-> u, saw |-> users[u], arg |-> {}])
  /\ UNCHANGED <<accountVars, history>>

\* The tombstone: what was empty when the account was loaded is not written.
user_tombstone(row, saw) ==
  [row EXCEPT !.st = IF saw.st = "inactive" THEN @ ELSE "inactive",
              !.erased = TRUE,
              !.pii = IF "phone" \in saw.pii THEN {} ELSE @ \cap {"phone"},
              !.org = IF saw.org = NoOrg THEN @ ELSE NoOrg]

\* The account, or its open cases, changed while its rows were deleted.
Overtaken(p) ==
  LET u == req[p].user
  IN IF \/ [users[u] EXCEPT !.factor = NoFactor] # [req[p].saw EXCEPT !.factor = NoFactor]
        \/ find_erasure_blockers(u) # {}
     THEN {<<"erased", u>>} ELSE {}

\* Its rows elsewhere are deleted, and stay locked; the transaction commits later.
Erasing(u) == \E q \in Proc : At(q, "tombstone") /\ req[q].user = u

EraseAccount(p) ==
  /\ At(p, "tombstone")
  /\ users' = [users EXCEPT ![req[p].user] = user_tombstone(@, req[p].saw)]
  /\ UNCHANGED <<otp, nonce, cases, spent, again, used>>

-----------------------------------------------------------------------------
\* Any accounts and a guest's case; members come from all accounts, while agreements
\* and notices of one account have nothing to do with those of another.
AccountInit ==
  /\ \E lane \in Lane :
       /\ used = [requests |-> 0, faults |-> 0, lane |-> lane]
       /\ users \in IF lane = "account"
                    THEN {f \in [User -> {NoAccount, Registered, Enrolled}] :
                            \A u \in User : f[u] = Enrolled => u \notin WalletUser}
                    ELSE {[u \in User |-> IF lane = "org" \/ u = Fresh(User) THEN Registered
                                          ELSE NoAccount]}
       /\ cases \in IF lane = "account" THEN [Case -> {NoCase, Open(NoUser)}]
                    ELSE [Case -> {NoCase}]
  /\ otp = {} /\ nonce = [u \in User |-> {}]
  /\ spent = {} /\ again = {} /\ crossed = {}
  /\ req = [p \in Proc |-> Idle]

AccountStarts(p) ==
  \/ register(p) \/ register_request(p) \/ register_verify(p)
  \/ request_wallet_nonce(p) \/ verify_wallet_signature(p)
  \/ begin_enrollment(p) \/ enable(p) \/ disable(p) \/ verify_second_factor(p)
  \/ update_user(p) \/ upload_my_avatar(p) \/ delete_my_avatar(p) \/ update_by_admin(p)
  \/ create_case(p) \/ WriteCase(p) \/ erase_user(p)

AccountGoes(p) ==
  \/ create_user(p) \/ link_guest_cases(p) \/ authenticate_or_create(p)
  \/ FactorCommits(p) \/ ProfileCommits(p) \/ CaseCommits(p)

AccountNext ==
  \/ \E p \in Proc : AccountStarts(p) \/ AccountGoes(p)
  \/ \E u \in User : OtpExpires(u) \/ NonceExpires(u)
=============================================================================

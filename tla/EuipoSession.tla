---------------------------- MODULE EuipoSession ----------------------------
(***************************************************************************)
(* Calls to EUIPO: the rate limiter and the retry of services/euipo/       *)
(* client.py, and the two kinds of tokens of services/euipo/auth.py.       *)
(*                                                                         *)
(* Searches use a token of the application, cached in the process.         *)
(* Filings use the session of the operator, one row that survives          *)
(* restarts, whose refresh token may be good for one exchange only.  Locks *)
(* of the process keep refreshes, fetches and waiting calls apart.  Logins *)
(* of the operator take none of them, and may come from another process.   *)
(***************************************************************************)
EXTENDS Naturals

CONSTANTS
  EuipoCall,        \* calls in flight at a time
  MaxRecorded,      \* max_calls of every group of the limiter
  MaxCalls,         \* bound on the calls
  MaxLogins,        \* bound on the logins
  MaxEuipoFaults    \* bound on restarts, lost answers and refusals of EUIPO's own

ASSUME EuipoAssumption ==
  /\ MaxRecorded \in Nat \ {0}
  /\ MaxCalls \in Nat /\ MaxLogins \in Nat /\ MaxEuipoFaults \in Nat

VARIABLES
  session,   \* euipo_oauth_token: the row, or NoSession
  cache,     \* _client_cache holds a token that is not expired
  recorded,  \* per group, the calls of the limiter's window
  call,      \* per call, its step, and the refresh tokens it read and got
  login,     \* the exchange of an authorization code that is under way
  issued,    \* EUIPO: number of the last refresh token it issued
  good,      \* EUIPO: refresh tokens it accepts
  lost,      \* (history) what came after the last login may have cost the session
  spending   \* how much of each bound is used up

euipoVars ==
  <<session, cache, recorded, call, login, issued, good, lost, spending>>

-----------------------------------------------------------------------------
(* Calls and tokens.                                                       *)

\* Every group of the limiter belongs to one flow; one group of each is enough.
Flow == {"client", "user"}

\* Refresh tokens are numbered, and 0 is none.  fresh: the access token's expiry is
\* further away than the leeway.  Whether EUIPO accepts an access token is its own
\* choice at each request: it may have revoked it.
NoSession == [refresh |-> 0, fresh |-> FALSE]
NoLogin == 0
NoCall == [at |-> "idle", flow |-> "client", retried |-> FALSE, saw |-> 0, got |-> 0]

CallAt(c, step) == call[c].at = step
CallGoes(c, step) == call' = [call EXCEPT ![c].at = step]
CallEnds(c) == call' = [call EXCEPT ![c] = NoCall]
Presents(c) == call' = [call EXCEPT ![c].at = "send", ![c].saw = 0, ![c].got = 0]

EuipoFault ==
  spending.faults < MaxEuipoFaults /\ spending' = [spending EXCEPT !.faults = @ + 1]

-----------------------------------------------------------------------------
(* The limiter.                                                            *)

euipo_request(c, flow) ==
  /\ CallAt(c, "idle")
  /\ spending.calls < MaxCalls /\ spending' = [spending EXCEPT !.calls = @ + 1]
  /\ call' = [call EXCEPT ![c].at = "acquire", ![c].flow = flow]
  /\ UNCHANGED <<session, cache, recorded, login, issued, good, lost>>

\* Searches and classification, for the API and for the agent.
search_trademarks(c) == euipo_request(c, "client")
search_designs(c) == euipo_request(c, "client")
search_terms(c) == euipo_request(c, "client")

\* Drafts, filings and receipts.
create_application(c) == euipo_request(c, "user")

\* A call that waits for its window keeps the lock, which is one for all groups.
LimiterFree == \A c \in EuipoCall : ~CallAt(c, "sleep")

Counted(c, kept) == recorded' = [recorded EXCEPT ![call[c].flow] = kept + 1]

\* Calls that have left the window are pruned.
acquire(c) ==
  /\ CallAt(c, "acquire") /\ LimiterFree
  /\ \E kept \in 0..recorded[call[c].flow] :
       \/ kept < MaxRecorded /\ Counted(c, kept) /\ CallGoes(c, "headers")
       \/ kept >= MaxRecorded /\ UNCHANGED recorded /\ CallGoes(c, "sleep")
  /\ UNCHANGED <<session, cache, login, issued, good, lost, spending>>

\* The oldest call has left the window, and perhaps others after it.
Awake(c) ==
  /\ CallAt(c, "sleep")
  /\ \E kept \in 0..(recorded[call[c].flow] - 1) : Counted(c, kept)
  /\ CallGoes(c, "headers")
  /\ UNCHANGED <<session, cache, login, issued, good, lost, spending>>

-----------------------------------------------------------------------------
(* The token of the application.                                           *)

get_auth_headers(c, flow) == CallAt(c, "headers") /\ call[c].flow = flow

UseCached(c) ==
  /\ get_auth_headers(c, "client") /\ cache
  /\ Presents(c)
  /\ UNCHANGED <<session, cache, recorded, login, issued, good, lost, spending>>

\* The lock is taken, and the cache is still of no use.
LockCache(c) ==
  /\ get_auth_headers(c, "client") /\ ~cache
  /\ \A d \in EuipoCall : ~CallAt(d, "fetch")
  /\ CallGoes(c, "fetch")
  /\ UNCHANGED <<session, cache, recorded, login, issued, good, lost, spending>>

get_client_credentials_token(c) ==
  /\ CallAt(c, "fetch")
  /\ cache' = TRUE /\ Presents(c)
  /\ UNCHANGED <<session, recorded, login, issued, good, lost, spending>>

FetchFails(c) ==
  /\ CallAt(c, "fetch") /\ EuipoFault
  /\ CallEnds(c)
  /\ UNCHANGED <<session, cache, recorded, login, issued, good, lost>>

-----------------------------------------------------------------------------
(* The session of the operator.                                            *)

\* _user_lock is held from the look at the row to the end of a refresh.
UserLockFree == \A c \in EuipoCall : call[c].at \notin {"refresh", "store", "delete"}

UseSession(c) ==
  /\ get_auth_headers(c, "user") /\ UserLockFree
  /\ session.fresh
  /\ Presents(c)
  /\ UNCHANGED <<session, cache, recorded, login, issued, good, lost, spending>>

\* EuipoAuthError: there is no row, or nothing to refresh it with.
NoUserSession(c) ==
  /\ get_auth_headers(c, "user") /\ UserLockFree
  /\ ~session.fresh /\ session.refresh = 0
  /\ CallEnds(c)
  /\ UNCHANGED <<session, cache, recorded, login, issued, good, lost, spending>>

get_user_token(c) ==
  /\ get_auth_headers(c, "user") /\ UserLockFree
  /\ ~session.fresh /\ session.refresh # 0
  /\ call' = [call EXCEPT ![c].at = "refresh", ![c].saw = session.refresh]
  /\ UNCHANGED <<session, cache, recorded, login, issued, good, lost, spending>>

\* EUIPO may answer with another refresh token; the old one is used up then.
Rotates(old) == issued' = issued + 1 /\ good' = (good \ {old}) \cup {issued + 1}

RefreshExchanged(c) ==
  LET old == call[c].saw IN
  /\ CallAt(c, "refresh") /\ old \in good
  /\ \E new \in {old, issued + 1} :
       /\ IF new = old THEN UNCHANGED <<issued, good>> ELSE Rotates(old)
       /\ call' = [call EXCEPT ![c].at = "store", ![c].got = new]
  /\ UNCHANGED <<session, cache, recorded, login, lost, spending>>

\* Mutant: a refusal is taken for a failure that passes, and is asked again.
MutRefreshRefused(c) ==
  /\ CallAt(c, "refresh")
  /\ \/ call[c].saw \notin good /\ CallGoes(c, "headers") /\ UNCHANGED <<lost, spending>>
     \/ EuipoFault /\ lost' = TRUE /\ CallGoes(c, "delete")
  /\ UNCHANGED <<session, cache, recorded, login, issued, good>>

\* EUIPO refuses the token, or fails: any status from 400 on is a refusal.
RefreshRefused(c) ==
  /\ CallAt(c, "refresh")
  /\ \/ call[c].saw \notin good /\ UNCHANGED <<lost, spending>>
     \/ EuipoFault /\ lost' = TRUE
  /\ CallGoes(c, "delete")
  /\ UNCHANGED <<session, cache, recorded, login, issued, good>>

\* There is no answer; the exchange may have been made.
RefreshLost(c) ==
  /\ CallAt(c, "refresh") /\ EuipoFault
  /\ CallEnds(c)
  /\ \/ UNCHANGED <<issued, good, lost>>
     \/ call[c].saw \in good /\ Rotates(call[c].saw) /\ lost' = TRUE
  /\ UNCHANGED <<session, cache, recorded, login>>

_store_user_token(refresh) ==
  session' = [refresh |-> IF refresh # 0 THEN refresh ELSE session.refresh,
              fresh |-> TRUE]

\* The row is written although it is not the one that was read.
Overwritten(c) == lost' = (lost \/ session.refresh # call[c].saw)

\* Mutant: the refresh token that came with the answer is not stored.
MutStoreRefreshed(c) ==
  /\ CallAt(c, "store")
  /\ _store_user_token(call[c].saw)
  /\ Overwritten(c) /\ Presents(c)
  /\ UNCHANGED <<cache, recorded, login, issued, good, spending>>

StoreRefreshed(c) ==
  /\ CallAt(c, "store")
  /\ _store_user_token(call[c].got)
  /\ Overwritten(c) /\ Presents(c)
  /\ UNCHANGED <<cache, recorded, login, issued, good, spending>>

_delete_user_token(c) ==
  /\ CallAt(c, "delete")
  /\ session' = NoSession
  /\ Overwritten(c) /\ CallEnds(c)
  /\ UNCHANGED <<cache, recorded, login, issued, good, spending>>

\* The transaction fails: the row stays as it is, and with it a token just used up.
CommitFails(c) ==
  /\ \/ CallAt(c, "store") /\ lost' = TRUE
     \/ CallAt(c, "delete") /\ UNCHANGED lost
  /\ EuipoFault /\ CallEnds(c)
  /\ UNCHANGED <<session, cache, recorded, login, issued, good>>

-----------------------------------------------------------------------------
(* The request.                                                            *)

\* Whatever is refused, the cache of the application's token is emptied.
invalidate_token == cache' = FALSE

\* The access token is accepted; the request is answered, refused or lost.
SendRequest(c) ==
  /\ CallAt(c, "send")
  /\ CallEnds(c)
  /\ UNCHANGED <<session, cache, recorded, login, issued, good, lost, spending>>

\* 401: once, and for the session of the operator with the same row as before.
RetryRequest(c) ==
  /\ CallAt(c, "send") /\ ~call[c].retried
  /\ invalidate_token
  /\ call' = [call EXCEPT ![c].at = "headers", ![c].retried = TRUE]
  /\ UNCHANGED <<session, recorded, login, issued, good, lost, spending>>

-----------------------------------------------------------------------------
(* Logins, through the endpoint or the bootstrap script.                   *)

\* EUIPO issues tokens, and may end the earlier sessions of the operator.
exchange_authorization_code ==
  /\ login = NoLogin
  /\ spending.logins < MaxLogins
  /\ issued' = issued + 1
  /\ good' \in {good \cup {issued + 1}, {issued + 1}}
  /\ login' = issued + 1
  /\ spending' = [spending EXCEPT !.logins = @ + 1]
  /\ UNCHANGED <<session, cache, recorded, call, lost>>

StoreLogin ==
  /\ login # NoLogin
  /\ _store_user_token(login)
  /\ login' = NoLogin /\ lost' = FALSE
  /\ UNCHANGED <<cache, recorded, call, issued, good, spending>>

LoginFails ==
  /\ login # NoLogin /\ EuipoFault
  /\ login' = NoLogin /\ lost' = TRUE
  /\ UNCHANGED <<session, cache, recorded, call, issued, good>>

-----------------------------------------------------------------------------
(* Time, EUIPO and restarts.                                               *)

SessionAges ==
  /\ session.fresh
  /\ session' = [session EXCEPT !.fresh = FALSE]
  /\ UNCHANGED <<cache, recorded, call, login, issued, good, lost, spending>>

CacheAges ==
  /\ cache /\ cache' = FALSE
  /\ UNCHANGED <<session, recorded, call, login, issued, good, lost, spending>>

\* EUIPO ends the operator's sessions.
SessionRevoked ==
  /\ good # {} /\ EuipoFault
  /\ good' = {}
  /\ UNCHANGED <<session, cache, recorded, call, login, issued, lost>>

\* The limiter forgets its window, and an exchange under way may still be made; a
\* login may be another process's.
Restart ==
  /\ EuipoFault
  /\ call' = [c \in EuipoCall |-> NoCall]
  /\ cache' = FALSE /\ recorded' = [f \in Flow |-> 0]
  /\ login' \in {login, NoLogin}
  /\ lost' = (lost \/ login' # login \/ ~UserLockFree)
  /\ \/ UNCHANGED <<issued, good>>
     \/ \E c \in EuipoCall : CallAt(c, "refresh") /\ call[c].saw \in good /\ Rotates(call[c].saw)
  /\ UNCHANGED session

-----------------------------------------------------------------------------
\* The operator has logged in before.
EuipoInit ==
  /\ session = [refresh |-> 1, fresh |-> FALSE] /\ issued = 1 /\ good = {1}
  /\ cache = FALSE /\ recorded = [f \in Flow |-> 0]
  /\ call = [c \in EuipoCall |-> NoCall] /\ login = NoLogin
  /\ lost = FALSE
  /\ spending = [calls |-> 0, logins |-> 0, faults |-> 0]

CallContinues(c) ==
  \/ acquire(c) \/ Awake(c)
  \/ UseCached(c) \/ LockCache(c) \/ get_client_credentials_token(c) \/ FetchFails(c)
  \/ UseSession(c) \/ NoUserSession(c) \/ get_user_token(c)
  \/ RefreshExchanged(c) \/ RefreshRefused(c) \/ RefreshLost(c)
  \/ StoreRefreshed(c) \/ _delete_user_token(c) \/ CommitFails(c)
  \/ SendRequest(c) \/ RetryRequest(c)

EuipoNext ==
  \/ \E c \in EuipoCall :
       \/ search_trademarks(c) \/ search_designs(c) \/ search_terms(c)
       \/ create_application(c) \/ CallContinues(c)
  \/ exchange_authorization_code \/ StoreLogin \/ LoginFails
  \/ SessionAges \/ CacheAges
  \/ SessionRevoked \/ Restart

EuipoSpec == EuipoInit /\ [][EuipoNext]_euipoVars

-----------------------------------------------------------------------------
(* Properties.                                                             *)

\* No login waits to be stored, and no refresh to be written.
AtRest == login = NoLogin /\ \A c \in EuipoCall : call[c].at \notin {"store", "delete"}

\* Filings go on without another login ("the bootstrap OIDC dance only has to happen once
\* per refresh_token lifetime", auth.py): while EUIPO accepts a refresh token of the
\* operator, the row holds one that it accepts, whatever calls, logins and restarts
\* overlap, unless since the last login an answer of EUIPO was lost or a failure, a
\* refresh was written over a row it had not read, or the process stopped in a refresh.
SessionIsKept == good # {} /\ AtRest /\ ~lost => session.refresh \in good

\* Every call comes to an end, however many wait for the window of their group behind
\* the one lock of the limiter, or behind a refresh ("refresh token and retry once").
CallReturns == \A c \in EuipoCall : []<>CallAt(c, "idle")
=============================================================================

------------------------------ MODULE CaseNft ------------------------------
(***************************************************************************)
(* The soul-bound NFT of one case: app/cases/service.py and router.py, the *)
(* Helius events of app/solana/events.py and the etornie-ip-token program. *)
(*                                                                         *)
(* A set-up task creates a Token-2022 mint and offers it, the client       *)
(* claims it with a transaction the operator co-signs, and closing the     *)
(* case schedules a burn.  Requests, background tasks and webhook          *)
(* deliveries interleave at every await.  None of them locks the case row: *)
(* each reads it once, talks to the chain, and then writes the columns     *)
(* that differ from what it had read.                                      *)
(***************************************************************************)
EXTENDS Naturals, FiniteSets

CONSTANTS
  Mint,            \* mint accounts that set-ups may create
  NoMint,
  Proc,            \* requests, background tasks and deliveries at a time
  MaxSetups,       \* bound on set-ups that a promotion or a recorded attestation schedules
  MaxPatches,      \* bound on status changes by administrators
  MaxLost,         \* bound on answers of the chain that never arrive
  MaxRestarts      \* bound on restarts of the API process

ASSUME NoMintAssumption == NoMint \notin Mint
ASSUME NftBoundsAssumption ==
  MaxSetups \in Nat /\ MaxPatches \in Nat /\ MaxLost \in Nat /\ MaxRestarts \in Nat

VARIABLES
  row,       \* the cases row, and whether its INSERT is committed
  mints,     \* mint accounts on chain
  record,    \* CaseNftRecord of the case: the minted token, or NoMint
  burned,    \* burned_at of that record is set
  tasks,     \* background tasks scheduled in the process, by kind
  signed,    \* tokens whose claim transaction the client has signed
  delivered, \* events answered with 200 at least once
  dropped,   \* events answered with 200 although reconciling them had failed
  pc, seen, got,  \* per process: step, the row it read, the token it handles
  used       \* how much of each bound is used up

chainVars == <<mints, record, burned>>
eventVars == <<delivered, dropped>>
localVars == <<pc, seen, got>>
vars == <<row, chainVars, tasks, signed, eventVars, localVars, used>>

-----------------------------------------------------------------------------
(* Types.                                                                  *)

CaseNftState == {"none", "pending_claim", "minted", "burned"}
Row == [nft_state : CaseNftState, nft_mint : Mint \cup {NoMint},
        client_wallet : BOOLEAN,  \* is the client's wallet bound?
        closed : BOOLEAN,         \* status = closed
        committed : BOOLEAN]      \* visible to other transactions
Event == {"minted", "burned"}
PC == {"idle", "setup", "set_up", "claim", "claimed", "patch",
       "burn", "burnt", "minted", "burned"}

NewRow(wallet, committed) ==
  [nft_state |-> "none", nft_mint |-> NoMint, client_wallet |-> wallet,
   closed |-> FALSE, committed |-> committed]

\* A case is opened through the API, or by a promotion that schedules the
\* set-up before the transaction that inserts the row commits.
Init ==
  /\ \E wallet, promoted \in BOOLEAN :
       /\ row = NewRow(wallet, ~promoted)
       /\ tasks = [setup |-> IF promoted THEN 1 ELSE 0, burn |-> 0]
  /\ mints = {} /\ record = NoMint /\ burned = FALSE
  /\ signed = {} /\ delivered = {} /\ dropped = {}
  /\ pc = [p \in Proc |-> "idle"]
  /\ seen = [p \in Proc |-> NewRow(FALSE, FALSE)]
  /\ got = [p \in Proc |-> NoMint]
  /\ used = [setups |-> tasks.setup, patches |-> 0, lost |-> 0, restarts |-> 0]

\* A process starts with a read of the row, and ends without keeping it.
Load(p, label, m) ==
  /\ pc' = [pc EXCEPT ![p] = label]
  /\ seen' = [seen EXCEPT ![p] = row]
  /\ got' = [got EXCEPT ![p] = m]

Finish(p) ==
  /\ pc' = [pc EXCEPT ![p] = "idle"]
  /\ seen' = [seen EXCEPT ![p] = NewRow(FALSE, FALSE)]
  /\ got' = [got EXCEPT ![p] = NoMint]

Goto(p, label, m) ==
  /\ pc' = [pc EXCEPT ![p] = label]
  /\ got' = [got EXCEPT ![p] = m]
  /\ UNCHANGED seen

\* The chain did what it was asked, and the answer arrives or does not: the
\* RPC connection breaks, or the subprocess is killed after 90 seconds.
Answer(p, label, m) ==
  \/ Goto(p, label, m) /\ UNCHANGED used
  \/ /\ used.lost < MaxLost
     /\ used' = [used EXCEPT !.lost = @ + 1]
     /\ Finish(p)

-----------------------------------------------------------------------------
(* Where set-ups come from: the transaction of a promotion commits at the  *)
(* end of its request; submit_case_attestation schedules one more set-up   *)
(* after it has recorded the attestation.                                  *)

PromotionCommit ==
  /\ ~row.committed
  /\ row' = [row EXCEPT !.committed = TRUE]
  /\ UNCHANGED <<chainVars, tasks, signed, eventVars, localVars, used>>

AttestationRecorded ==
  /\ row.committed
  /\ used.setups < MaxSetups
  /\ used' = [used EXCEPT !.setups = @ + 1]
  /\ tasks' = [tasks EXCEPT !.setup = @ + 1]
  /\ UNCHANGED <<row, chainVars, signed, eventVars, localVars>>

-----------------------------------------------------------------------------
(* trigger_nft_setup, in a background task.                                *)

MutNeedsSetup == row.committed
MutRetriesSetup == row.committed /\ row.nft_state \in {"none", "pending_claim"}
NeedsSetup == row.committed /\ row.nft_state = "none"

SetupBegin(p) ==
  /\ pc[p] = "idle"
  /\ tasks.setup > 0
  /\ tasks' = [tasks EXCEPT !.setup = @ - 1]
  /\ IF NeedsSetup
       THEN Load(p, "setup", NoMint)
       ELSE UNCHANGED localVars
  /\ UNCHANGED <<row, chainVars, signed, eventVars, used>>

\* setup_mint.ts generates a key pair, so every run makes a mint of its own.
SetupMint(p) ==
  /\ pc[p] = "setup"
  /\ \E m \in Mint \ mints :
       /\ mints' = mints \cup {m}
       /\ Answer(p, "set_up", m)
  /\ UNCHANGED <<row, record, burned, tasks, signed, eventVars>>

SetupFail(p) ==
  /\ pc[p] = "setup"
  /\ Finish(p)
  /\ UNCHANGED <<row, chainVars, tasks, signed, eventVars, used>>

\* The loaded row had neither state nor mint, so both columns are written.
SetupCommit(p) ==
  /\ pc[p] = "set_up"
  /\ row' = [row EXCEPT !.nft_mint = got[p], !.nft_state = "pending_claim"]
  /\ Finish(p)
  /\ UNCHANGED <<chainVars, tasks, signed, eventVars, used>>

-----------------------------------------------------------------------------
(* The claim.  prepare-claim hands out a transaction for the row's token   *)
(* and the client's wallet signs it; finalize-claim reads the row,         *)
(* co-signs, submits and records.                                          *)

PrepareNftClaim ==
  /\ row.committed
  /\ row.nft_state = "pending_claim" /\ row.nft_mint # NoMint
  /\ signed' = signed \cup {row.nft_mint}
  /\ UNCHANGED <<row, chainVars, tasks, eventVars, localVars, used>>

\* The preflight simulation refuses a claim whose record account exists.
ClaimBegin(p) ==
  /\ pc[p] = "idle"
  /\ record = NoMint
  /\ \E m \in signed : Load(p, "claim", m)
  /\ UNCHANGED <<row, chainVars, tasks, signed, eventVars, used>>

\* mint_case_nft creates the record account, once for a case.
ClaimLands(p) ==
  /\ pc[p] = "claim"
  /\ record = NoMint
  /\ record' = got[p]
  /\ Answer(p, "claimed", got[p])
  /\ UNCHANGED <<row, mints, burned, tasks, signed, eventVars>>

\* Another claim, or this one sent twice, landed after the preflight:
\* confirm_transaction waits for the commitment level and does not look at the
\* error of the transaction.
ClaimLandsFailed(p) ==
  /\ pc[p] = "claim"
  /\ record # NoMint
  /\ Goto(p, "claimed", got[p]) /\ UNCHANGED used
  /\ UNCHANGED <<row, chainVars, tasks, signed, eventVars>>

ClaimFail(p) ==
  /\ pc[p] = "claim"
  /\ Finish(p)
  /\ UNCHANGED <<row, chainVars, tasks, signed, eventVars, used>>

\* record_nft_claim: the state is written unless it was minted when loaded.
RecordNftClaim(p) ==
  /\ pc[p] = "claimed"
  /\ row' = [row EXCEPT !.nft_state = IF seen[p].nft_state = "minted" THEN @ ELSE "minted"]
  /\ Finish(p)
  /\ UNCHANGED <<chainVars, tasks, signed, eventVars, used>>

-----------------------------------------------------------------------------
(* update_case_endpoint: a change of status.  update_case flushes and      *)
(* refreshes, so the burn is decided on the old status as it was loaded    *)
(* and on the mint as it is now.                                           *)

PatchBegin(p) ==
  /\ pc[p] = "idle"
  /\ row.committed
  /\ used.patches < MaxPatches
  /\ used' = [used EXCEPT !.patches = @ + 1]
  /\ Load(p, "patch", NoMint)
  /\ UNCHANGED <<row, chainVars, tasks, signed, eventVars>>

SchedulesBurn(old, closed) == ~old.closed /\ closed /\ row.nft_mint # NoMint

PatchCommit(p) ==
  /\ pc[p] = "patch"
  /\ \E closed \in BOOLEAN :
       /\ row' = [row EXCEPT !.closed = IF seen[p].closed = closed THEN @ ELSE closed]
       /\ tasks' = [tasks EXCEPT !.burn = IF SchedulesBurn(seen[p], closed) THEN @ + 1 ELSE @]
  /\ Finish(p)
  /\ UNCHANGED <<chainVars, signed, eventVars, used>>

-----------------------------------------------------------------------------
(* trigger_nft_burn, in a background task.  It does not ask for the status *)
(* of the case.                                                            *)

CanBurn == row.nft_state = "minted" /\ row.nft_mint # NoMint /\ row.client_wallet

BurnBegin(p) ==
  /\ pc[p] = "idle"
  /\ tasks.burn > 0
  /\ tasks' = [tasks EXCEPT !.burn = @ - 1]
  /\ IF CanBurn
       THEN Load(p, "burn", row.nft_mint)
       ELSE UNCHANGED localVars
  /\ UNCHANGED <<row, chainVars, signed, eventVars, used>>

\* burn_case_nft: the record is of this mint and burned_at is not set.
BurnLands(p) ==
  /\ pc[p] = "burn"
  /\ record = got[p] /\ ~burned
  /\ burned' = TRUE
  /\ Answer(p, "burnt", got[p])
  /\ UNCHANGED <<row, mints, record, tasks, signed, eventVars>>

BurnFail(p) ==
  /\ pc[p] = "burn"
  /\ Finish(p)
  /\ UNCHANGED <<row, chainVars, tasks, signed, eventVars, used>>

BurnCommit(p) ==
  /\ pc[p] = "burnt"
  /\ row' = [row EXCEPT !.nft_state = "burned"]
  /\ Finish(p)
  /\ UNCHANGED <<chainVars, tasks, signed, eventVars, used>>

-----------------------------------------------------------------------------
(* The Helius webhook.  An event can be delivered as soon as its           *)
(* transaction has landed, at any later time and any number of times.      *)

MutHappened(e) == mints # {}
Happened(e) == IF e = "minted" THEN record # NoMint ELSE burned

\* _reconcile_nft_minted, _reconcile_nft_burned: nothing to do.
MutMintedInSync(e) ==
  IF e = "minted" THEN row.nft_mint = record ELSE row.nft_state = "burned"
MutBurnedInSync(e) == row.nft_state \in {"minted", "burned"}
InSync(e) ==
  IF e = "minted" THEN row.nft_state = "minted" /\ row.nft_mint = record
                  ELSE row.nft_state = "burned"

EventBegin(p, e) ==
  /\ pc[p] = "idle"
  /\ Happened(e)
  /\ IF InSync(e)
       THEN delivered' = delivered \cup {e} /\ UNCHANGED localVars
       ELSE Load(p, e, record) /\ UNCHANGED delivered
  /\ UNCHANGED <<row, chainVars, tasks, signed, dropped, used>>

\* A column is written when the event's value differs from the loaded one.
MintedRow(old, m) ==
  [row EXCEPT !.nft_mint = IF old.nft_mint = m THEN @ ELSE m,
              !.nft_state = IF old.nft_state = "minted" THEN @ ELSE "minted",
              !.client_wallet = IF old.client_wallet THEN @ ELSE TRUE]

EventCommit(p) ==
  /\ pc[p] \in Event
  /\ row' = IF pc[p] = "minted" THEN MintedRow(seen[p], got[p])
                                ELSE [row EXCEPT !.nft_state = "burned"]
  /\ delivered' = delivered \cup {pc[p]}
  /\ Finish(p)
  /\ UNCHANGED <<chainVars, tasks, signed, dropped, used>>

\* reconcile_events swallows whatever _reconcile_one raises (a SELECT that
\* fails, say) and the webhook answers 200 all the same: Helius takes the event
\* for received.
EventFails(e) ==
  /\ Happened(e)
  /\ delivered' = delivered \cup {e} /\ dropped' = dropped \cup {e}
  /\ UNCHANGED <<row, chainVars, tasks, signed, localVars, used>>

-----------------------------------------------------------------------------
\* The process dies.  Tasks and requests live in its memory only.  A restart
\* before the promotion commits leaves no case at all.
Restart ==
  /\ row.committed
  /\ used.restarts < MaxRestarts
  /\ used' = [used EXCEPT !.restarts = @ + 1]
  /\ tasks' = [setup |-> 0, burn |-> 0]
  /\ pc' = [p \in Proc |-> "idle"]
  /\ seen' = [p \in Proc |-> NewRow(FALSE, FALSE)]
  /\ got' = [p \in Proc |-> NoMint]
  /\ UNCHANGED <<row, chainVars, signed, eventVars>>

Arrive(p) ==
  \/ SetupBegin(p) \/ ClaimBegin(p) \/ PatchBegin(p) \/ BurnBegin(p)
  \/ \E e \in Event : EventBegin(p, e)

Continue(p) ==
  \/ SetupMint(p) \/ SetupFail(p) \/ SetupCommit(p)
  \/ ClaimLands(p) \/ ClaimLandsFailed(p) \/ ClaimFail(p) \/ RecordNftClaim(p)
  \/ PatchCommit(p)
  \/ BurnLands(p) \/ BurnFail(p) \/ BurnCommit(p)
  \/ EventCommit(p)

Next ==
  \/ PromotionCommit \/ AttestationRecorded \/ PrepareNftClaim \/ Restart
  \/ \E e \in Event : EventFails(e)
  \/ \E p \in Proc : Arrive(p) \/ Continue(p)

Spec == Init /\ [][Next]_vars

\* What has begun runs on, the loop starts scheduled tasks, and an event is
\* delivered until it is answered, which is not to say that it was applied.
Fairness ==
  /\ \A p \in Proc : WF_vars(Continue(p))
  /\ SF_vars(\E p \in Proc : SetupBegin(p))
  /\ SF_vars(\E p \in Proc : BurnBegin(p))
  /\ \A e \in Event : SF_vars(e \notin delivered /\ \E p \in Proc : EventBegin(p, e))

FairSpec == Spec /\ Fairness
-----------------------------------------------------------------------------
(* Properties.                                                             *)

\* Every variable has its type.
TypeOK ==
  /\ row \in Row
  /\ mints \in SUBSET Mint /\ record \in Mint \cup {NoMint} /\ burned \in BOOLEAN
  /\ tasks \in [setup : Nat, burn : Nat]
  /\ signed \in SUBSET Mint /\ delivered \in SUBSET Event /\ dropped \in SUBSET Event
  /\ pc \in [Proc -> PC] /\ seen \in [Proc -> Row] /\ got \in [Proc -> Mint \cup {NoMint}]
  /\ used \in [setups : Nat, patches : Nat, lost : Nat, restarts : Nat]

\* The row never runs ahead of the chain, although set-ups, claims, burns and
\* events write it from rows they read long before: a token it names exists,
\* "minted" means the claim's record account exists, "burned" that it is burned.
RowFollowsChain ==
  /\ row.nft_mint # NoMint => row.nft_mint \in mints
  /\ row.nft_state = "pending_claim" => row.nft_mint # NoMint
  /\ row.nft_state = "minted" => record # NoMint
  /\ row.nft_state = "burned" => burned

\* With one process at a time the row names the token the client holds.
MintAgrees == record # NoMint => row.nft_mint = record

\* With one process at a time a case keeps the token that was set up for it,
\* however many set-ups are scheduled and whatever events report.
TokenKept == [][row.nft_mint # NoMint => row'.nft_mint = row.nft_mint]_vars

\* With one process at a time a mint is left unused only if the answer of the
\* set-up that made it was lost or the process died.
Spare == mints \ ({row.nft_mint} \cup {got[p] : p \in Proc})
NoSpareMint == Cardinality(Spare) <= used.lost + used.restarts

\* With a single set-up, a claim that landed is shown by the row again and
\* again unless two things went wrong: the request that submitted it never
\* heard of it or died, and the event was dropped.  Either alone is made good
\* by the other.
LeftBehind(e) == used.lost + used.restarts > 0 /\ e \in dropped
MintReachesRow ==
  record # NoMint ~> row.nft_state \in {"minted", "burned"} \/ LeftBehind("minted")

\* With a single set-up, a burn whose answer was lost is still shown by the row
\* some time unless its event was dropped too (a late repetition of the minted
\* event may hide it again).
BurnReachesRow == <>burned => <>(row.nft_state = "burned" \/ LeftBehind("burned"))

-----------------------------------------------------------------------------
(* Statements of the code and its docs that its behaviours do not satisfy. *)

\* "subsequent calls no-op when nft_state != none": no set-up writes over a row
\* that has a token.
SetupKeepsToken ==
  [][\A p \in Proc : pc[p] = "set_up" /\ row' # row => row.nft_state = "none"]_vars

\* "We commit the case row first via the caller's outer transaction, then the
\* scheduled coroutine opens its own session": a set-up task finds its case.
SetupFindsCase == [][tasks'.setup < tasks.setup => row.committed]_vars

\* "This closes the gap where a dropped confirmation or a slot rollback left
\* the DB out of sync with the chain": a claim that landed is shown by the row.
WebhookClosesGap == record # NoMint ~> row.nft_state \in {"minted", "burned"}

\* "Re-delivery is a no-op": an event that was applied leaves the row as it is.
RedeliveryIsNoOp ==
  [][\A p \in Proc : pc[p] \in delivered /\ pc'[p] = "idle" => row' = row]_vars

\* "mint -> nft_state=minted, nft_mint, nft_mint_tx, client_wallet": after the
\* event the row has a wallet, without which it is never burned.
MintedEventBindsWallet == "minted" \in delivered => row.client_wallet

\* "the backend must enforce that precondition off-chain before invoking": a
\* token is burned only while its case is closed.
BurnOnlyClosed == [][burned' # burned => row.closed]_vars

\* "When a case transitions to closed, the NFT is automatically burned".
ClosedIsBurned == record # NoMint /\ row.closed ~> burned \/ ~row.closed
=============================================================================

----------------------------- MODULE ZkVerifier -----------------------------
(***************************************************************************)
(* The verifier program of programs/etornie-zk-verifier, the transactions  *)
(* the API sends to it (app/solana/client.py) and the sponsored submission *)
(* of app/zk/router.py.  Requests of the API run in processes of a pool.   *)
(*                                                                         *)
(* A node simulates a transaction before it takes it: a proof the program  *)
(* refuses then and there is an error of the sender.  What was taken lands *)
(* later, or never, and may fail where the simulation had passed.  The     *)
(* sender waits for the status of its transaction and does not look at the *)
(* error in it.                                                            *)
(***************************************************************************)
EXTENDS Naturals, Sequences

CONSTANTS
  Wallet, Content,  \* wallets of users, hashes of questions and of files
  Proc,             \* requests served at a time
  MaxRequests,      \* bound on requests
  MaxFaults         \* bound on lost transactions and answers, and on failed calls

ASSUME VerifierBounds == MaxRequests \in Nat /\ MaxFaults \in Nat

VARIABLES
  record,   \* per address, the transaction that initialized the account there, or 0
  tx,       \* the transactions taken by the node so far: their instruction and status
  told,     \* addresses whose record a client was told to be there
  req,      \* per process, the request it serves and the step it is at
  used      \* how much of each bound is used up

chainVars == <<record, tx, told>>

-----------------------------------------------------------------------------
(* The program.                                                            *)

Seed == {"proof", "file-ownership", "compliance"}

\* Mutant: the wallet is left out of the seeds.
MutPda(seed, w, c) == <<seed, CHOOSE v \in Wallet : TRUE, c>>

\* The address of a record.  Secret, and with it the commitment, are functions
\* of wallet and content: an address has one possible commitment.
Pda(seed, w, c) == <<seed, w, c>>
Commitment(w, c) == <<w, c>>

Instruction == [seed : Seed, user : Wallet, content : Content, valid : BOOLEAN]
Address(i) == Pda(i.seed, i.user, i.content)
Recorded(i) == record[Address(i)] # 0

\* The replay guard comes first, then the pairing check.
verify_proof(i) == i.seed = "proof" /\ ~Recorded(i) /\ i.valid
verify_file_ownership_proof(i) == i.seed = "file-ownership" /\ ~Recorded(i) /\ i.valid

\* Mutant: without the replay guard, which init_if_needed does not replace.
MutVerifyCompliance(i) == i.seed = "compliance" /\ i.valid
verify_compliance_proof(i) == i.seed = "compliance" /\ ~Recorded(i) /\ i.valid
Succeeds(i) ==
  verify_proof(i) \/ verify_file_ownership_proof(i) \/ verify_compliance_proof(i)

-----------------------------------------------------------------------------
(* Requests.                                                               *)

Idle == [at |-> "idle"]
At(p, step) == req[p].at = step

Begin(p, r) ==
  /\ At(p, "idle") /\ used.requests < MaxRequests
  /\ req' = [req EXCEPT ![p] = r]
  /\ used' = [used EXCEPT !.requests = @ + 1]

Goto(p, step) == req' = [req EXCEPT ![p].at = step]
End(p) == req' = [req EXCEPT ![p] = Idle]
Fault == used.faults < MaxFaults /\ used' = [used EXCEPT !.faults = @ + 1]

ChainInit ==
  /\ record = [a \in Seed \X Wallet \X Content |-> 0] /\ tx = <<>> /\ told = {}
  /\ req = [p \in Proc |-> Idle] /\ used = [requests |-> 0, faults |-> 0]

-----------------------------------------------------------------------------
(* Sending a transaction and waiting for it.                               *)

\* Mutant: the transaction is sent with skip_preflight.
MutPreflight(i) == TRUE

\* The node takes what its simulation accepts.
Preflight(i) == Succeeds(i)

Send(p) ==
  /\ At(p, "send") /\ Preflight(req[p].ix)
  /\ tx' = Append(tx, [ix |-> req[p].ix, st |-> "sent"])
  /\ req' = [req EXCEPT ![p] = [@ EXCEPT !.at = "confirm", !.tx = Len(tx) + 1]]
  /\ UNCHANGED <<record, told, used>>

\* The transaction lands.  The account it creates may exist by now.
Land(n) ==
  /\ tx[n].st = "sent"
  /\ IF Succeeds(tx[n].ix)
     THEN /\ tx' = [tx EXCEPT ![n].st = "done"]
          /\ record' = [record EXCEPT ![Address(tx[n].ix)] = n]
     ELSE tx' = [tx EXCEPT ![n].st = "failed"] /\ UNCHANGED record
  /\ UNCHANGED <<told, req, used>>

\* It never lands: its blockhash expires.
Drop(n) ==
  /\ tx[n].st = "sent" /\ Fault
  /\ tx' = [tx EXCEPT ![n].st = "dropped"]
  /\ UNCHANGED <<record, told, req>>

\* confirm_transaction returns as soon as there is a status, whatever it says.
Confirmed(p) == At(p, "confirm") /\ tx[req[p].tx].st \in {"done", "failed"}

\* It raises when there is none in time, or when a call fails on the way.
Unconfirmed(p) ==
  /\ At(p, "confirm")
  /\ \/ tx[req[p].tx].st = "dropped" /\ UNCHANGED used
     \/ Fault

\* The calls before the transaction is taken fail, or the simulation refuses it.
SendFails(p) ==
  /\ At(p, "send")
  /\ \/ ~Preflight(req[p].ix) /\ UNCHANGED used
     \/ Fault

-----------------------------------------------------------------------------
(* zk/router.py: a transaction that the user's wallet has signed gets the  *)
(* operator's signature and is sent.  The client is told that the record   *)
(* is there when the transaction is confirmed, and when the program refuses*)
(* it because it is there already.                                         *)

Submitting(p) == req[p].at # "idle" /\ req[p].op = "submit"

Submits(p, seed) ==
  /\ \E w \in Wallet, c \in Content, v \in BOOLEAN :
       Begin(p, [at |-> "send", op |-> "submit", tx |-> 0,
                 ix |-> [seed |-> seed, user |-> w, content |-> c, valid |-> v]])
  /\ UNCHANGED chainVars

submitProofOnChain(p) == Submits(p, "proof")
proveDocumentOwnershipOnChain(p) == Submits(p, "file-ownership")

ProofAlreadyRecorded(p) ==
  At(p, "send") /\ ~Preflight(req[p].ix) /\ Recorded(req[p].ix)

SubmitSucceeds(p) ==
  /\ Submitting(p) /\ (Confirmed(p) \/ ProofAlreadyRecorded(p))
  /\ told' = told \cup {Address(req[p].ix)}
  /\ End(p) /\ UNCHANGED <<record, tx, used>>

SubmitFails(p) ==
  /\ Submitting(p) /\ ~ProofAlreadyRecorded(p) /\ (SendFails(p) \/ Unconfirmed(p))
  /\ End(p) /\ UNCHANGED chainVars

ChainNext ==
  \/ \E n \in DOMAIN tx : Land(n) \/ Drop(n)
  \/ \E p \in Proc : \/ Send(p) \/ SubmitSucceeds(p) \/ SubmitFails(p)
                     \/ submitProofOnChain(p) \/ proveDocumentOwnershipOnChain(p)
=============================================================================

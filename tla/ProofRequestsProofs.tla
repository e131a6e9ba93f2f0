------------------------ MODULE ProofRequestsProofs ------------------------
(***************************************************************************)
(* What is reported of the chain is true, a question is answered once, and *)
(* the required documents follow: for any number of wallets, contents,     *)
(* documents, requests served at a time and faults.                        *)
(***************************************************************************)
EXTENDS ProofRequests, TLAPS
-----------------------------------------------------------------------------
(* The invariant.                                                          *)

Addresses == Seed \X Wallet \X Content
Transaction == [ix : Instruction, st : {"sent", "done", "failed", "dropped"}]

\* What was taken is a valid proof, and is recorded once it has a status: it
\* fails only where the account exists, and what succeeds makes the account.
ChainOK ==
  /\ record \in [Addresses -> Nat] /\ tx \in Seq(Transaction)
  /\ \A n \in DOMAIN tx : /\ tx[n].ix.valid = TRUE
                          /\ tx[n].st \in {"done", "failed"} => Recorded(tx[n].ix)
                          /\ tx[n].st = "done" => record[Address(tx[n].ix)] = n

PaidFor(w, c) == [memo |-> Memo(w, c), ok |-> TRUE] \in paid

\* Requests that send a transaction, and what they have done of it.
ChainStep == {"lookup", "send", "confirm", "model"}
ChainRequest == [at : ChainStep, op : {"submit", "ask"}, tx : Nat, ix : Instruction]
SenderOK(r) ==
  r.at \in ChainStep =>
    /\ r \in ChainRequest
    /\ r.op = "ask" => r.ix.seed = "compliance" /\ PaidFor(r.ix.user, r.ix.content)
    /\ r.at \in {"lookup", "model"} => r.op = "ask"
    /\ r.at \in {"confirm", "model"} => r.tx \in DOMAIN tx /\ tx[r.tx].ix = r.ix
    /\ r.at = "model" => tx[r.tx].st \in {"done", "failed"}

\* Requests about a document, and what they know of it.  From the UPDATE of the
\* document on, nobody links another requirement to it.
DocStep == {"link", "fetch", "review", "cancel", "reviewed", "cancelled", "generate", "regenerate"}
DocStatus == {"absent", "uploaded", "approved", "rejected", "cancelled"}
HolderOK(r) ==
  /\ r.at \in ChainStep \cup DocStep \cup {"idle"}
  /\ r.at \in DocStep => r.op # "ask"
  /\ r.at = "link" => /\ r.doc \in Doc /\ docs[r.doc].status = "absent"
                      /\ r.kind \in {"case", "agent"} /\ r.claim \in Claim
                      /\ r.link \subseteq Need /\ \A n, m \in r.link : n = m
  /\ r.at \in {"fetch", "review", "cancel", "reviewed", "cancelled"} =>
       r.doc \in Doc /\ docs[r.doc].status # "absent"
  /\ r.at = "fetch" => docs[r.doc].claim = r.claim /\ r.pda \in Addresses
  /\ r.at = "review" => r.verdict \in Verdict
  /\ r.at \in {"reviewed", "cancelled"} =>
       /\ r.status \in DocStatus \ {"absent"}
       /\ Linked(r.doc) \subseteq DOMAIN r.saw
       /\ DOMAIN r.saw \subseteq Need /\ \A n, m \in DOMAIN r.saw : n = m
       /\ \A n \in DOMAIN r.saw : r.saw[n].doc = r.doc

RequestsOK ==
  /\ req = [p \in Proc |-> req[p]]
  /\ \A p \in Proc : SenderOK(req[p]) /\ HolderOK(req[p])
  /\ \A p, q \in Proc : At(p, "link") /\ At(q, "link") /\ req[p].doc = req[q].doc => p = q

ToldOK == \A a \in told : a \in Addresses /\ record[a] # 0

\* A stored answer was paid for, and its transaction has a status.
RowsOK ==
  \A r \in rows :
    /\ r \in [payer : Wallet, query : Content, compliance_tx : DOMAIN tx]
    /\ PaidFor(r.payer, r.query)
    /\ tx[r.compliance_tx].st \in {"done", "failed"}
    /\ Address(tx[r.compliance_tx].ix) = Pda("compliance", r.payer, r.query)

\* Who took a question for new; unless crossed, nobody else did, and it has no answer.
TookForNew(p) == Asking(p) /\ req[p].at # "lookup"
OnceOK ==
  /\ \A p \in Proc :
       TookForNew(p) /\ Asked(p) \notin crossed =>
         /\ \A q \in Proc : TookForNew(q) /\ Asked(q) = Asked(p) => q = p
         /\ \A r \in rows : <<r.payer, r.query>> # Asked(p)
  /\ \A r, s \in rows :
       r.payer = s.payer /\ r.query = s.query /\ <<r.payer, r.query>> \notin crossed => r = s

DocRow == [kind : {"case", "agent"}, status : DocStatus, claim : Claim, proof : Addresses \cup {NoPda}]
DocsOK ==
  /\ docs \in [Doc -> DocRow]
  /\ \A d \in Doc : docs[d].proof # NoPda => /\ record[docs[d].proof] # 0
                                             /\ docs[d].claim = Commitment(docs[d].proof[2], docs[d].proof[3])

\* At most one requirement is linked to a document, and only to one that was uploaded.
NeedRow == [status : DocStatus \cup {"pending", "deleted"}, doc : Doc \cup {NoDoc}]
NeedsOK ==
  /\ needs \in [Need -> NeedRow]
  /\ \A n \in Need : needs[n].doc # NoDoc => n \in Rows /\ docs[needs[n].doc].status # "absent"
  /\ \A n, m \in Need : needs[n].doc # NoDoc /\ needs[n].doc = needs[m].doc => n = m

IInv ==
  /\ ChainOK /\ ToldOK /\ RowsOK /\ RequestsOK /\ OnceOK
  /\ DocsOK /\ NeedsOK /\ RequirementFollowsDocument

LEMMA InitOK == Init => IInv
<1> SUFFICES ASSUME Init
             PROVE  IInv
  OBVIOUS
<1>1. ChainOK
  BY DEF Init, ChainInit, ChainOK, Addresses
<1>2. RequestsOK
  BY DEF Init, ChainInit, RequestsOK, SenderOK, HolderOK, ChainStep, DocStep, Idle, At
<1>3. ToldOK /\ RowsOK
  BY DEF Init, ChainInit, ChatInit, ToldOK, RowsOK
<1>4. OnceOK
  BY DEF Init, ChainInit, ChatInit, OnceOK, TookForNew, Asking, Idle
<1> DEFINE d == CHOOSE e \in Doc : TRUE
           n == CHOOSE m \in Need : TRUE
           row == [Absent EXCEPT !.status = "rejected"]
<1>5. /\ d \in Doc
      /\ \/ docs = [e \in Doc |-> Absent] /\ needs = [m \in Need |-> IF m = n THEN Pending ELSE NoRow]
         \/ /\ docs = [e \in Doc |-> IF e = d THEN row ELSE Absent]
            /\ needs = [m \in Need |-> IF m = n THEN [status |-> "rejected", doc |-> d] ELSE NoRow]
  BY SomeDocAssumption DEF Init, DocInit
<1>6. /\ Absent \in DocRow /\ Absent.proof = NoPda
      /\ row \in DocRow /\ row.proof = NoPda /\ row.status = "rejected"
  BY DEF Absent, DocRow, DocStatus, Claim
<1>7. /\ Pending \in NeedRow /\ NoRow \in NeedRow /\ Pending.doc = NoDoc /\ NoRow.doc = NoDoc
      /\ \A e \in Doc : [status |-> "rejected", doc |-> e] \in NeedRow
  BY DEF Pending, NoRow, NeedRow, DocStatus
<1> HIDE DEF d, n, row
<1>8. DocsOK
  BY <1>5, <1>6 DEF DocsOK
<1>9. NeedsOK /\ RequirementFollowsDocument
  BY <1>5, <1>6, <1>7, NoDocAssumption DEF NeedsOK, RequirementFollowsDocument, Rows
<1> QED
  BY <1>1, <1>2, <1>3, <1>4, <1>8, <1>9 DEF IInv

-----------------------------------------------------------------------------
(* What stays when the chain grows and documents change.                   *)

\* Records stay, transactions stay what they are and keep the status they have got.
ChainGrows ==
  /\ \A a \in Addresses : record[a] # 0 => record'[a] = record[a]
  /\ \A n \in DOMAIN tx : /\ n \in DOMAIN tx' /\ tx'[n].ix = tx[n].ix
                          /\ tx[n].st \in {"done", "failed"} => tx'[n].st = tx[n].st

\* A document that is there keeps its claim and gets no other requirement.
DocsGrow ==
  \A d \in Doc :
    docs[d].status # "absent" =>
      /\ docs'[d].status # "absent" /\ docs'[d].claim = docs[d].claim
      /\ Linked(d)' \subseteq Linked(d)

LEMMA AddressTyped ==
  ASSUME NEW i \in Instruction
  PROVE  Address(i) \in Addresses
  BY DEF Instruction, Address, Pda, Addresses

LEMMA ReportsStay ==
  ASSUME IInv, ChainGrows, paid \subseteq paid'
  PROVE  /\ UNCHANGED told => ToldOK'
         /\ UNCHANGED rows => RowsOK'
         /\ UNCHANGED docs => DocsOK'
<1>1. UNCHANGED told => ToldOK'
  BY DEF IInv, ChainGrows, ToldOK
<1>2. UNCHANGED rows => RowsOK'
  <2> SUFFICES ASSUME UNCHANGED rows, NEW r \in rows
               PROVE  /\ r \in [payer : Wallet, query : Content, compliance_tx : DOMAIN tx']
                      /\ PaidFor(r.payer, r.query)'
                      /\ tx'[r.compliance_tx].st \in {"done", "failed"}
                      /\ Address(tx'[r.compliance_tx].ix) = Pda("compliance", r.payer, r.query)
    BY DEF RowsOK, Address
  <2>1. /\ r \in [payer : Wallet, query : Content, compliance_tx : DOMAIN tx]
        /\ PaidFor(r.payer, r.query)
        /\ tx[r.compliance_tx].st \in {"done", "failed"}
        /\ Address(tx[r.compliance_tx].ix) = Pda("compliance", r.payer, r.query)
    BY DEF IInv, RowsOK
  <2> QED
    BY <2>1 DEF ChainGrows, PaidFor
<1>3. UNCHANGED docs => DocsOK'
  <2> SUFFICES ASSUME UNCHANGED docs, NEW d \in Doc, docs[d].proof # NoPda
               PROVE  record'[docs[d].proof] # 0
    BY DEF IInv, DocsOK
  <2>1. docs[d].proof \in Addresses /\ record[docs[d].proof] # 0
    BY DEF IInv, DocsOK, DocRow
  <2> QED
    BY <2>1 DEF ChainGrows
<1> QED
  BY <1>1, <1>2, <1>3

LEMMA ChainStays ==
  ASSUME IInv, UNCHANGED <<record, tx>>
  PROVE  ChainGrows /\ ChainOK'
  BY DEF IInv, ChainGrows, ChainOK, Recorded

LEMMA DocsStay ==
  ASSUME IInv, UNCHANGED docVars
  PROVE  DocsGrow /\ NeedsOK' /\ RequirementFollowsDocument'
  BY DEF IInv, docVars, DocsGrow, Linked, Rows, NeedsOK, RequirementFollowsDocument

LEMMA SenderStays ==
  ASSUME IInv, ChainGrows, paid \subseteq paid', NEW r, SenderOK(r)
  PROVE  SenderOK(r)'
  BY DEF SenderOK, ChainGrows, PaidFor

LEMMA HolderStays ==
  ASSUME IInv, DocsGrow, NEW r, HolderOK(r), r.at = "link" => docs'[r.doc].status = "absent"
  PROVE  HolderOK(r)'
  BY DEF HolderOK, DocsGrow, ChainStep, DocStep

LEMMA IdleOK == SenderOK(Idle)' /\ HolderOK(Idle)' /\ Idle.at = "idle"
  BY DEF Idle, SenderOK, HolderOK, ChainStep, DocStep

\* What others upload is still new, and is not what r uploads.
LinksStay(p, r) ==
  \A q \in Proc \ {p} : At(q, "link") => /\ docs'[req[q].doc].status = "absent"
                                         /\ r.at = "link" => req[q].doc # r.doc

\* A step that gives one request a new state: the others keep theirs.
LEMMA OneMoves ==
  ASSUME IInv, ChainGrows, paid \subseteq paid', DocsGrow,
         NEW p \in Proc, NEW r, req' = [req EXCEPT ![p] = r], SenderOK(r)', HolderOK(r)',
         LinksStay(p, r)
  PROVE  /\ RequestsOK'
         /\ req'[p] = r /\ \A q \in Proc \ {p} : req'[q] = req[q]
<1>1. /\ req' = [q \in Proc |-> req'[q]] /\ req'[p] = r
      /\ \A q \in Proc \ {p} : req'[q] = req[q]
  BY DEF IInv, RequestsOK
<1>2. \A q \in Proc \ {p} : SenderOK(req[q])' /\ HolderOK(req[q])'
  <2> SUFFICES ASSUME NEW q \in Proc \ {p}, NEW s, s = req[q]
               PROVE  SenderOK(s)' /\ HolderOK(s)'
    BY <1>1
  <2> QED
    BY SenderStays, HolderStays DEF IInv, RequestsOK, At, LinksStay
<1>3. \A q \in Proc : SenderOK(req[q])' /\ HolderOK(req[q])'
  <2>1. SenderOK(req[p])' /\ HolderOK(req[p])'
    BY <1>1
  <2> QED
    BY <1>2, <2>1
<1> QED
  BY <1>1, <1>3 DEF IInv, RequestsOK, At, LinksStay

\* Nobody takes a question for new, and nothing is answered.
LEMMA OnceStays ==
  ASSUME IInv, UNCHANGED rows, crossed \subseteq crossed',
         \A q \in Proc : TookForNew(q)' => TookForNew(q) /\ Asked(q)' = Asked(q)
  PROVE  OnceOK'
  BY DEF IInv, OnceOK

\* A request about documents, or one that ends, leaves chain and chat alone.
LEMMA QuietMove ==
  ASSUME IInv, UNCHANGED <<record, tx, rows>>, paid \subseteq paid', crossed \subseteq crossed', DocsGrow,
         NEW p \in Proc, NEW r, req' = [req EXCEPT ![p] = r],
         r.at = "idle" \/ (r.at \in DocStep /\ r.op # "ask"), HolderOK(r)', LinksStay(p, r)
  PROVE  ChainOK' /\ (UNCHANGED told => ToldOK') /\ RowsOK' /\ RequestsOK' /\ OnceOK'
         /\ (UNCHANGED docs => DocsOK')
<1>1. ChainOK' /\ ChainGrows
  BY ChainStays
<1>2. SenderOK(r)'
  BY DEF SenderOK, ChainStep, DocStep
<1>3. /\ RequestsOK' /\ req'[p] = r /\ \A q \in Proc \ {p} : req'[q] = req[q]
  BY <1>1, <1>2, OneMoves
<1>4. ~TookForNew(p)'
  BY <1>3 DEF TookForNew, Asking
<1>5. \A q \in Proc \ {p} : TookForNew(q)' => TookForNew(q) /\ Asked(q)' = Asked(q)
  BY <1>3 DEF TookForNew, Asking, Asked
<1> QED
  BY <1>1, <1>3, <1>4, <1>5, OnceStays, ReportsStay

\* A request that ends and leaves the documents alone.
LEMMA Ended ==
  ASSUME IInv, UNCHANGED <<record, tx, rows>>, paid \subseteq paid', crossed \subseteq crossed',
         UNCHANGED docVars, NEW p \in Proc, End(p), ToldOK'
  PROVE  IInv'
<1>1. DocsGrow /\ NeedsOK' /\ RequirementFollowsDocument'
  BY DocsStay
<1>2. LinksStay(p, Idle)
  BY IdleOK DEF LinksStay, IInv, RequestsOK, HolderOK, At, docVars
<1> QED
  BY <1>1, <1>2, IdleOK, QuietMove DEF End, IInv, docVars

-----------------------------------------------------------------------------
(* Transactions.                                                           *)

LEMMA SucceedsValid ==
  ASSUME NEW i \in Instruction
  PROVE  Succeeds(i) <=> i.valid = TRUE /\ ~Recorded(i)
  BY DEF Instruction, Seed, Succeeds, verify_proof, verify_file_ownership_proof, verify_compliance_proof

LEMMA SendStep ==
  ASSUME IInv, NEW p \in Proc, Send(p), UNCHANGED <<chatVars, docVars>>
  PROVE  IInv'
<1> DEFINE i == req[p].ix
           n == Len(tx) + 1
<1>0. PICK r : r = [req[p] EXCEPT !.at = "confirm", !.tx = n]
  OBVIOUS
<1>1. /\ req[p].at = "send" /\ Succeeds(i) /\ UNCHANGED <<record, told, paid, rows, crossed, docs, needs, stale>>
      /\ tx' = Append(tx, [ix |-> i, st |-> "sent"]) /\ req' = [req EXCEPT ![p] = r]
  BY <1>0 DEF Send, Preflight, At, chatVars, docVars
<1>2. SenderOK(req[p]) /\ req[p] \in ChainRequest
  BY <1>1 DEF IInv, RequestsOK, SenderOK, ChainStep
<1>3. i \in Instruction /\ i.valid = TRUE
  BY <1>1, <1>2, SucceedsValid DEF ChainRequest
<1>4. tx \in Seq(Transaction) /\ [ix |-> i, st |-> "sent"] \in Transaction
  BY <1>3 DEF IInv, ChainOK, Transaction
<1>5. /\ tx' \in Seq(Transaction) /\ DOMAIN tx' = DOMAIN tx \cup {n}
      /\ \A m \in DOMAIN tx : tx'[m] = tx[m]
      /\ tx'[n] = [ix |-> i, st |-> "sent"] /\ n \in Nat
  BY <1>1, <1>4
<1>6. ChainGrows
  BY <1>1, <1>5 DEF ChainGrows
<1>7. ChainOK'
  BY <1>1, <1>3, <1>5 DEF IInv, ChainOK, Recorded
<1>8. /\ r \in ChainRequest /\ r.ix = i /\ r.op = req[p].op /\ r.tx = n /\ r.at = "confirm"
  BY <1>0, <1>2, <1>5 DEF ChainRequest, ChainStep
<1>9. SenderOK(r)' /\ HolderOK(r)'
  BY <1>1, <1>2, <1>5, <1>8 DEF SenderOK, HolderOK, PaidFor, ChainStep, DocStep
<1>10. DocsGrow /\ NeedsOK' /\ RequirementFollowsDocument'
  BY <1>1, DocsStay DEF docVars
<1>11. RequestsOK' /\ req'[p] = r /\ \A q \in Proc \ {p} : req'[q] = req[q]
  <2>1. LinksStay(p, r)
    BY <1>1, <1>8 DEF LinksStay, IInv, RequestsOK, HolderOK, At
  <2> QED
    BY <1>1, <1>6, <1>9, <1>10, <2>1, OneMoves
<1>12. \A q \in Proc : TookForNew(q)' => TookForNew(q) /\ Asked(q)' = Asked(q)
  BY <1>1, <1>8, <1>11 DEF TookForNew, Asking, Asked
<1>13. OnceOK'
  BY <1>1, <1>12, OnceStays
<1> QED
  BY <1>1, <1>6, <1>7, <1>10, <1>11, <1>13, ReportsStay DEF IInv

LEMMA LandStep ==
  ASSUME IInv, NEW n \in DOMAIN tx, Land(n) \/ Drop(n), UNCHANGED <<chatVars, docVars>>
  PROVE  IInv'
<1> DEFINE i == tx[n].ix
<1>1. /\ tx[n].st = "sent" /\ UNCHANGED <<told, req, paid, rows, crossed, docs, needs, stale>>
      /\ \/ /\ Succeeds(i) /\ tx' = [tx EXCEPT ![n].st = "done"]
            /\ record' = [record EXCEPT ![Address(i)] = n]
         \/ ~Succeeds(i) /\ tx' = [tx EXCEPT ![n].st = "failed"] /\ UNCHANGED record
         \/ tx' = [tx EXCEPT ![n].st = "dropped"] /\ UNCHANGED record
  BY DEF Land, Drop, chatVars, docVars
<1>2. /\ tx \in Seq(Transaction) /\ n \in Nat \ {0} /\ tx[n] \in Transaction
      /\ i \in Instruction /\ i.valid = TRUE /\ Address(i) \in Addresses
  <2>1. tx \in Seq(Transaction) /\ i.valid = TRUE
    BY DEF IInv, ChainOK
  <2>2. tx[n] \in Transaction /\ n \in Nat \ {0}
    BY <2>1
  <2>3. i \in Instruction
    BY <2>2 DEF Transaction
  <2> QED
    BY <2>1, <2>2, <2>3, AddressTyped
<1>3. PICK st \in {"done", "failed", "dropped"} :
        /\ tx' = [tx EXCEPT ![n].st = st]
        /\ st = "done" => ~Recorded(i) /\ record' = [record EXCEPT ![Address(i)] = n]
        /\ st # "done" => UNCHANGED record
        /\ st = "failed" => Recorded(i)
  <2>1. CASE Succeeds(i) /\ tx' = [tx EXCEPT ![n].st = "done"] /\ record' = [record EXCEPT ![Address(i)] = n]
    BY <1>2, <2>1, SucceedsValid
  <2>2. CASE ~Succeeds(i) /\ tx' = [tx EXCEPT ![n].st = "failed"] /\ UNCHANGED record
    BY <1>2, <2>2, SucceedsValid
  <2>3. CASE tx' = [tx EXCEPT ![n].st = "dropped"] /\ UNCHANGED record
    BY <2>3
  <2> QED
    BY <1>1, <2>1, <2>2, <2>3
<1>4. /\ tx' \in Seq(Transaction) /\ DOMAIN tx' = DOMAIN tx
      /\ tx'[n] = [ix |-> i, st |-> st] /\ \A m \in DOMAIN tx \ {n} : tx'[m] = tx[m]
  <2>1. [tx[n] EXCEPT !.st = st] = [ix |-> i, st |-> st]
    BY <1>2 DEF Transaction
  <2>2. tx' = [tx EXCEPT ![n] = [ix |-> i, st |-> st]] /\ [ix |-> i, st |-> st] \in Transaction
    BY <1>2, <1>3, <2>1 DEF Transaction
  <2> QED
    BY <1>2, <2>2
<1>5. /\ record' \in [Addresses -> Nat]
      /\ \A a \in Addresses : record[a] # 0 => record'[a] = record[a]
      /\ st = "done" => record'[Address(i)] = n
  BY <1>2, <1>3 DEF IInv, ChainOK, Recorded
<1>6. ChainGrows
  BY <1>1, <1>4, <1>5 DEF ChainGrows
<1>7. ChainOK'
  <2>1. ASSUME NEW m \in DOMAIN tx
        PROVE  /\ tx'[m].ix.valid = TRUE
               /\ tx'[m].st \in {"done", "failed"} => record'[Address(tx'[m].ix)] # 0
               /\ tx'[m].st = "done" => record'[Address(tx'[m].ix)] = m
    <3>1. CASE m = n
      BY <1>2, <1>3, <1>4, <1>5, <3>1 DEF Recorded
    <3>2. CASE m # n
      <4>1. /\ tx'[m] = tx[m] /\ Address(tx[m].ix) \in Addresses /\ m \in Nat \ {0}
            /\ tx[m].ix.valid = TRUE
            /\ tx[m].st \in {"done", "failed"} => record[Address(tx[m].ix)] # 0
            /\ tx[m].st = "done" => record[Address(tx[m].ix)] = m
        <5>1. tx'[m] = tx[m] /\ tx[m] \in Transaction /\ m \in Nat \ {0}
          BY <1>2, <1>4, <3>2
        <5>2. Address(tx[m].ix) \in Addresses
          BY <5>1, AddressTyped DEF Transaction
        <5> QED
          BY <5>1, <5>2 DEF IInv, ChainOK, Recorded
      <4>2. PICK a \in Addresses : a = Address(tx[m].ix)
        BY <4>1
      <4>3. Address(tx'[m].ix) = a
        BY <4>1, <4>2
      <4> QED
        BY <1>5, <4>1, <4>2, <4>3
    <3> QED
      BY <3>1, <3>2
  <2> QED
    BY <1>4, <1>5, <2>1 DEF ChainOK, Recorded, Address
<1>8. DocsGrow /\ NeedsOK' /\ RequirementFollowsDocument'
  BY <1>1, DocsStay DEF docVars
<1>9. RequestsOK'
  <2>1. ASSUME NEW p \in Proc
        PROVE  SenderOK(req[p])' /\ HolderOK(req[p])'
    <3> SUFFICES ASSUME NEW s, s = req[p]
                 PROVE  SenderOK(s)' /\ HolderOK(s)'
      BY <1>1
    <3>1. SenderOK(s) /\ HolderOK(s)
      BY DEF IInv, RequestsOK
    <3>2. s.at = "link" => docs'[s.doc].status = "absent"
      BY <1>1, <3>1 DEF HolderOK
    <3> QED
      BY <1>1, <1>6, <1>8, <3>1, <3>2, SenderStays, HolderStays
  <2> QED
    BY <1>1, <2>1 DEF IInv, RequestsOK, At
<1>10. OnceOK'
  BY <1>1, OnceStays DEF TookForNew, Asking, Asked
<1> QED
  BY <1>1, <1>6, <1>7, <1>8, <1>9, <1>10, ReportsStay DEF IInv

-----------------------------------------------------------------------------
(* Submissions.                                                            *)

\* A client or a chat begins with an instruction.
LEMMA SenderBegins ==
  ASSUME IInv, UNCHANGED <<record, tx, told, rows, crossed>>, paid \subseteq paid', UNCHANGED docVars,
         NEW p \in Proc, NEW r \in ChainRequest, req' = [req EXCEPT ![p] = r], SenderOK(r)',
         r.op = "ask" => r.at = "lookup"
  PROVE  IInv'
<1>1. ChainOK' /\ ChainGrows
  BY ChainStays
<1>2. DocsGrow /\ NeedsOK' /\ RequirementFollowsDocument'
  BY DocsStay
<1>3. HolderOK(r)' /\ r.at # "link"
  BY DEF HolderOK, ChainRequest, ChainStep, DocStep
<1>4. LinksStay(p, r)
  BY <1>3 DEF LinksStay, IInv, RequestsOK, HolderOK, At, docVars
<1>5. RequestsOK' /\ req'[p] = r /\ \A q \in Proc \ {p} : req'[q] = req[q]
  BY <1>1, <1>2, <1>3, <1>4, OneMoves
<1>6. \A q \in Proc : TookForNew(q)' => TookForNew(q) /\ Asked(q)' = Asked(q)
  BY <1>5 DEF TookForNew, Asking, Asked
<1> QED
  BY <1>1, <1>2, <1>5, <1>6, OnceStays, ReportsStay DEF IInv, docVars

LEMMA SubmitBegins ==
  ASSUME IInv, NEW p \in Proc, submitProofOnChain(p) \/ proveDocumentOwnershipOnChain(p),
         UNCHANGED <<chatVars, docVars>>
  PROVE  IInv'
<1>1. PICK seed \in Seed, w \in Wallet, c \in Content, v \in BOOLEAN :
        req' = [req EXCEPT ![p] = [at |-> "send", op |-> "submit", tx |-> 0,
                                   ix |-> [seed |-> seed, user |-> w, content |-> c, valid |-> v]]]
  BY DEF submitProofOnChain, proveDocumentOwnershipOnChain, Submits, Begin, Seed
<1> DEFINE r == [at |-> "send", op |-> "submit", tx |-> 0,
                 ix |-> [seed |-> seed, user |-> w, content |-> c, valid |-> v]]
<1>2. r \in ChainRequest /\ r.op = "submit" /\ r.at = "send"
  BY DEF ChainRequest, ChainStep, Instruction
<1>3. UNCHANGED <<record, tx, told, rows, paid, crossed>>
  BY DEF submitProofOnChain, proveDocumentOwnershipOnChain, Submits, chainVars, chatVars
<1>4. req' = [req EXCEPT ![p] = r]
  BY <1>1
<1> HIDE DEF r
<1>5. SenderOK(r)'
  BY <1>2 DEF SenderOK
<1> QED
  BY <1>2, <1>3, <1>4, <1>5, SenderBegins DEF docVars

\* A request that has a status, or is refused because the record exists, reports what is there.
LEMMA ReportedRecord ==
  ASSUME IInv, NEW p \in Proc, Confirmed(p) \/ ProofAlreadyRecorded(p)
  PROVE  req[p].ix \in Instruction /\ Recorded(req[p].ix)
<1>1. SenderOK(req[p]) /\ req[p].at \in {"send", "confirm"}
  BY DEF IInv, RequestsOK, Confirmed, ProofAlreadyRecorded, At
<1>2. req[p].ix \in Instruction
  BY <1>1 DEF SenderOK, ChainStep, ChainRequest
<1>3. Confirmed(p) => Recorded(req[p].ix)
  BY <1>1 DEF SenderOK, ChainStep, Confirmed, At, IInv, ChainOK
<1> QED
  BY <1>2, <1>3 DEF ProofAlreadyRecorded

LEMMA SubmitEnds ==
  ASSUME IInv, NEW p \in Proc, SubmitSucceeds(p) \/ SubmitFails(p), UNCHANGED <<chatVars, docVars>>
  PROVE  IInv'
<1>1. /\ End(p) /\ UNCHANGED <<record, tx, rows, paid, crossed>>
  BY DEF SubmitSucceeds, SubmitFails, chainVars, chatVars
<1>2. ToldOK'
  <2>1. CASE SubmitSucceeds(p)
    <3>1. told' = told \cup {Address(req[p].ix)}
      BY <2>1 DEF SubmitSucceeds
    <3>2. Address(req[p].ix) \in Addresses /\ record[Address(req[p].ix)] # 0
      BY <2>1, ReportedRecord, AddressTyped DEF SubmitSucceeds, Recorded
    <3> QED
      BY <1>1, <3>1, <3>2 DEF IInv, ToldOK
  <2>2. CASE SubmitFails(p)
    BY <1>1, <2>2 DEF SubmitFails, chainVars, IInv, ToldOK
  <2> QED
    BY <2>1, <2>2
<1> QED
  BY <1>1, <1>2, Ended

-----------------------------------------------------------------------------
(* The paid chat.                                                          *)

LEMMA AskBegins ==
  ASSUME IInv, NEW p \in Proc, Ask(p), UNCHANGED docVars
  PROVE  IInv'
<1>1. PICK payment \in Payment, w \in Wallet, c \in Content, v \in BOOLEAN :
        /\ PaymentVerified(payment, w, c) /\ paid' = paid \cup {payment}
        /\ req' = [req EXCEPT ![p] = [at |-> "lookup", op |-> "ask", tx |-> 0,
                                      ix |-> [seed |-> "compliance", user |-> w, content |-> c, valid |-> v]]]
  BY DEF Ask, Begin
<1> DEFINE r == [at |-> "lookup", op |-> "ask", tx |-> 0,
                 ix |-> [seed |-> "compliance", user |-> w, content |-> c, valid |-> v]]
<1>2. /\ r \in ChainRequest /\ r.op = "ask" /\ r.at = "lookup"
      /\ r.ix.seed = "compliance" /\ r.ix.user = w /\ r.ix.content = c
  BY DEF ChainRequest, ChainStep, Instruction, Seed
<1>3. UNCHANGED <<record, tx, told, rows, crossed>>
  BY DEF Ask, chainVars
<1>4. PaidFor(w, c)'
  <2>1. payment = [memo |-> Memo(w, c), ok |-> TRUE]
    BY <1>1 DEF PaymentVerified, Payment
  <2> QED
    BY <1>1, <2>1 DEF PaidFor
<1>5. req' = [req EXCEPT ![p] = r]
  BY <1>1
<1> HIDE DEF r
<1>6. SenderOK(r)'
  BY <1>2, <1>4 DEF SenderOK, PaidFor
<1> QED
  BY <1>1, <1>2, <1>3, <1>5, <1>6, SenderBegins

\* A request of the chat goes on to another step; nobody else changes.
LEMMA AskGoesOn ==
  ASSUME IInv, NEW p \in Proc, Asking(p), req[p].at \in ChainStep, NEW step \in {"send", "model"}, Goto(p, step),
         UNCHANGED <<record, tx, told, paid, rows>>, UNCHANGED docVars, crossed \subseteq crossed',
         step = "model" => Confirmed(p)
  PROVE  /\ ChainOK' /\ ToldOK' /\ RowsOK' /\ RequestsOK' /\ DocsOK' /\ NeedsOK' /\ RequirementFollowsDocument'
         /\ req'[p].op = "ask" /\ req'[p].at = step /\ req'[p].ix = req[p].ix
         /\ \A q \in Proc \ {p} : req'[q] = req[q]
<1>0. PICK r : r = [req[p] EXCEPT !.at = step]
  OBVIOUS
<1>1. SenderOK(req[p]) /\ req[p] \in ChainRequest
  BY DEF IInv, RequestsOK, SenderOK
<1>2. /\ r \in ChainRequest /\ r.op = "ask" /\ r.ix = req[p].ix /\ r.tx = req[p].tx /\ r.at = step
  BY <1>0, <1>1 DEF ChainRequest, ChainStep, Asking
<1>3. req' = [req EXCEPT ![p] = r]
  BY <1>0 DEF Goto
<1>4. step = "model" => /\ req[p].tx \in DOMAIN tx /\ tx[req[p].tx].ix = req[p].ix
                        /\ tx[req[p].tx].st \in {"done", "failed"}
  BY <1>1 DEF Confirmed, At, SenderOK
<1>5. SenderOK(r)' /\ HolderOK(r)'
  <2>1. req[p].ix.seed = "compliance" /\ PaidFor(req[p].ix.user, req[p].ix.content)
    BY <1>1 DEF SenderOK, Asking
  <2>2. HolderOK(r)'
    BY <1>2 DEF HolderOK, ChainStep, DocStep
  <2> QED
    BY <1>2, <1>4, <2>1, <2>2 DEF SenderOK, PaidFor
<1>6. ChainOK' /\ ChainGrows
  BY ChainStays
<1>7. DocsGrow /\ NeedsOK' /\ RequirementFollowsDocument'
  BY DocsStay
<1>8. LinksStay(p, r)
  BY <1>2 DEF LinksStay, IInv, RequestsOK, HolderOK, At, docVars
<1>9. RequestsOK' /\ req'[p] = r /\ \A q \in Proc \ {p} : req'[q] = req[q]
  BY <1>2, <1>3, <1>5, <1>6, <1>7, <1>8, OneMoves
<1> QED
  BY <1>2, <1>6, <1>7, <1>9, ReportsStay DEF docVars

LEMMA AskTyped ==
  ASSUME IInv, NEW p \in Proc, Asking(p)
  PROVE  SenderOK(req[p]) /\ req[p] \in ChainRequest
  BY DEF IInv, RequestsOK, SenderOK, HolderOK, Asking

LEMMA LookupStep ==
  ASSUME IInv, NEW p \in Proc, CacheMiss(p), UNCHANGED docVars
  PROVE  IInv'
<1>1. /\ req[p].at = "lookup" /\ ~Cached(req[p].ix.user, req[p].ix.content) /\ Goto(p, "send")
      /\ UNCHANGED <<record, tx, told, paid, rows>> /\ crossed \subseteq crossed'
      /\ Asked(p) \notin crossed' => \A q \in Proc \ {p} : TookForNew(q) => Asked(q) # Asked(p)
  BY DEF CacheMiss, At, chainVars, TookForNew
<1>2. Asking(p) /\ req[p].at \in ChainStep
  BY <1>1 DEF IInv, RequestsOK, SenderOK, ChainStep, Asking
<1>3. /\ ChainOK' /\ ToldOK' /\ RowsOK' /\ RequestsOK' /\ DocsOK' /\ NeedsOK' /\ RequirementFollowsDocument'
      /\ req'[p].op = "ask" /\ req'[p].at = "send" /\ req'[p].ix = req[p].ix
      /\ \A q \in Proc \ {p} : req'[q] = req[q]
  BY <1>1, <1>2, AskGoesOn
<1>4. OnceOK'
  <2>1. Asked(p)' = Asked(p) /\ \A q \in Proc \ {p} : Asked(q)' = Asked(q) /\ (TookForNew(q)' <=> TookForNew(q))
    BY <1>3 DEF Asked, TookForNew, Asking
  <2>2. \A r \in rows : <<r.payer, r.query>> # Asked(p)
    BY <1>1 DEF Cached, Asked
  <2> QED
    BY <1>1, <2>1, <2>2 DEF IInv, OnceOK
<1> QED
  BY <1>3, <1>4 DEF IInv

LEMMA SubmittedStep ==
  ASSUME IInv, NEW p \in Proc, ProofSubmitted(p), UNCHANGED docVars
  PROVE  IInv'
<1>1. /\ Asking(p) /\ Confirmed(p) /\ req[p].at = "confirm" /\ Goto(p, "model")
      /\ UNCHANGED <<record, tx, told, paid, rows, crossed>>
  BY DEF ProofSubmitted, Confirmed, At, chainVars, chatVars
<1>2. /\ ChainOK' /\ ToldOK' /\ RowsOK' /\ RequestsOK' /\ DocsOK' /\ NeedsOK' /\ RequirementFollowsDocument'
      /\ req'[p].op = "ask" /\ req'[p].at = "model" /\ req'[p].ix = req[p].ix
      /\ \A q \in Proc \ {p} : req'[q] = req[q]
  <2>1. req[p].at \in ChainStep
    BY <1>1 DEF ChainStep
  <2> QED
    BY <1>1, <2>1, AskGoesOn
<1>3. \A q \in Proc : TookForNew(q)' => TookForNew(q) /\ Asked(q)' = Asked(q)
  BY <1>1, <1>2 DEF TookForNew, Asking, Asked
<1> QED
  BY <1>1, <1>2, <1>3, OnceStays DEF IInv

LEMMA AskEnds ==
  ASSUME IInv, NEW p \in Proc, CacheHit(p) \/ ProofRefused(p) \/ ProofFails(p) \/ AnswerFails(p),
         UNCHANGED docVars
  PROVE  IInv'
<1>1. End(p) /\ UNCHANGED <<record, tx, told, rows, paid, crossed>>
  BY DEF CacheHit, ProofRefused, ProofFails, AnswerFails, chainVars, chatVars
<1>2. ToldOK'
  BY <1>1 DEF IInv, ToldOK
<1> QED
  BY <1>1, <1>2, Ended

LEMMA AnswerStep ==
  ASSUME IInv, NEW p \in Proc, Answer(p), UNCHANGED docVars
  PROVE  IInv'
<1> DEFINE row == [payer |-> req[p].ix.user, query |-> req[p].ix.content, compliance_tx |-> req[p].tx]
<1>1. /\ req[p].at = "model" /\ rows' = rows \cup {row} /\ req' = [req EXCEPT ![p] = Idle]
      /\ UNCHANGED <<record, tx, told, paid, crossed>>
  BY DEF Answer, At, End, chainVars
<1>2. /\ SenderOK(req[p]) /\ req[p] \in ChainRequest /\ req[p].op = "ask" /\ TookForNew(p)
  BY <1>1 DEF IInv, RequestsOK, SenderOK, ChainStep, TookForNew, Asking
<1>3. /\ row \in [payer : Wallet, query : Content, compliance_tx : DOMAIN tx]
      /\ PaidFor(row.payer, row.query)
      /\ tx[row.compliance_tx].st \in {"done", "failed"}
      /\ Address(tx[row.compliance_tx].ix) = Pda("compliance", row.payer, row.query)
      /\ <<row.payer, row.query>> = Asked(p)
  <2>1. req[p].ix \in Instruction /\ req[p].ix.seed = "compliance"
    BY <1>2 DEF ChainRequest, SenderOK, ChainStep
  <2>2. /\ req[p].tx \in DOMAIN tx /\ tx[req[p].tx].ix = req[p].ix
        /\ tx[req[p].tx].st \in {"done", "failed"} /\ PaidFor(req[p].ix.user, req[p].ix.content)
    BY <1>1, <1>2 DEF SenderOK, ChainStep
  <2> QED
    BY <2>1, <2>2 DEF Instruction, Address, Asked
<1> HIDE DEF row
<1>4. RowsOK'
  BY <1>1, <1>3 DEF IInv, RowsOK, PaidFor, Address, Pda
<1>5. ChainOK' /\ ChainGrows
  BY <1>1, ChainStays
<1>6. DocsGrow /\ NeedsOK' /\ RequirementFollowsDocument'
  BY DocsStay
<1>7. LinksStay(p, Idle)
  BY IdleOK DEF LinksStay, IInv, RequestsOK, HolderOK, At, docVars
<1>8. RequestsOK' /\ req'[p] = Idle /\ \A q \in Proc \ {p} : req'[q] = req[q]
  BY <1>1, <1>5, <1>6, <1>7, IdleOK, OneMoves
<1>9. OnceOK'
  <2>1. ~TookForNew(p)' /\ \A q \in Proc \ {p} : Asked(q)' = Asked(q) /\ (TookForNew(q)' <=> TookForNew(q))
    BY <1>8, IdleOK DEF Asked, TookForNew, Asking
  <2>2. Asked(p) \notin crossed =>
          /\ \A q \in Proc \ {p} : TookForNew(q) => Asked(q) # Asked(p)
          /\ \A r \in rows : <<r.payer, r.query>> # Asked(p)
    BY <1>2 DEF IInv, OnceOK
  <2>3. ASSUME NEW q \in Proc, TookForNew(q)', Asked(q)' \notin crossed'
        PROVE  /\ \A o \in Proc : TookForNew(o)' /\ Asked(o)' = Asked(q)' => o = q
               /\ \A r \in rows' : <<r.payer, r.query>> # Asked(q)'
    BY <1>1, <1>3, <2>1, <2>2, <2>3 DEF IInv, OnceOK
  <2>4. ASSUME NEW r \in rows', NEW s \in rows', r.payer = s.payer, r.query = s.query,
               <<r.payer, r.query>> \notin crossed'
        PROVE  r = s
    BY <1>1, <1>3, <2>2, <2>4 DEF IInv, OnceOK
  <2> QED
    BY <2>3, <2>4 DEF OnceOK
<1> QED
  BY <1>1, <1>4, <1>5, <1>6, <1>8, <1>9, ReportsStay DEF IInv, docVars

-----------------------------------------------------------------------------
(* Requests about documents.                                               *)

LEMMA DocBegins ==
  ASSUME IInv, NEW p \in Proc, UNCHANGED <<chainVars, chatVars, docVars>>,
         NEW r, req' = [req EXCEPT ![p] = r], r.at \in DocStep, r.op # "ask", HolderOK(r)',
         r.at = "link" => \A q \in Proc : At(q, "link") => req[q].doc # r.doc
  PROVE  IInv'
<1>1. DocsGrow /\ NeedsOK' /\ RequirementFollowsDocument'
  BY DocsStay DEF docVars
<1>2. LinksStay(p, r)
  BY DEF LinksStay, IInv, RequestsOK, HolderOK, At, docVars
<1> QED
  BY <1>1, <1>2, QuietMove DEF IInv, chainVars, chatVars, docVars

LEMMA UploadBegins ==
  ASSUME IInv, NEW p \in Proc, Upload(p) \/ UploadToSession(p), UNCHANGED chatVars
  PROVE  IInv'
<1>1. PICK kind \in {"case", "agent"}, link \in {{}, Linkable} :
        Uploads(p, kind, link) /\ (link = {} \/ OneOrNone(link))
  BY DEF Upload, UploadToSession
<1>2. link \subseteq Need /\ \A n, m \in link : n = m
  BY <1>1 DEF Linkable, OneOrNone
<1>3. PICK claim \in Claim :
        req' = [req EXCEPT ![p] = [at |-> "link", op |-> "upload", doc |-> CHOOSE d \in NewDoc : TRUE,
                                   kind |-> kind, claim |-> claim, link |-> link,
                                   saw |-> [n \in link |-> needs[n]]]]
  BY <1>1 DEF Uploads, Begin
<1>4. PICK d \in NewDoc : d = CHOOSE e \in NewDoc : TRUE
  BY <1>1 DEF Uploads
<1>5. PICK r : r = [at |-> "link", op |-> "upload", doc |-> d, kind |-> kind, claim |-> claim, link |-> link,
                    saw |-> [n \in link |-> needs[n]]]
  OBVIOUS
<1>6. /\ r.at = "link" /\ r.op = "upload" /\ r.doc = d /\ r.kind = kind /\ r.claim = claim /\ r.link = link
      /\ req' = [req EXCEPT ![p] = r]
  BY <1>3, <1>4, <1>5
<1>7. UNCHANGED <<chainVars, docVars>>
  BY <1>1 DEF Uploads
<1>8. HolderOK(r)' /\ \A q \in Proc : At(q, "link") => req[q].doc # r.doc
  BY <1>2, <1>4, <1>6, <1>7 DEF HolderOK, NewDoc, DocStep, docVars
<1> QED
  BY <1>6, <1>7, <1>8, DocBegins DEF DocStep

LEMMA OtherBegins ==
  ASSUME IInv, NEW p \in Proc, UNCHANGED chatVars,
         Attach(p) \/ Review(p) \/ Cancel(p) \/ CancelUpload(p) \/ Generate(p) \/ Regenerate(p)
  PROVE  IInv'
<1>0. UNCHANGED <<chainVars, docVars>>
  BY DEF Attach, Review, Cancel, CancelUpload, Cancels, Generate, Regenerate
<1>1. CASE Attach(p)
  <2>1. PICK d \in Doc, w \in Wallet, c \in Content :
          /\ Attachable(d)
          /\ req' = [req EXCEPT ![p] = [at |-> "fetch", op |-> "attach", doc |-> d, claim |-> docs[d].claim,
                                        pda |-> Pda("file-ownership", w, c)]]
    BY <1>1 DEF Attach, Begin
  <2>2. Pda("file-ownership", w, c) \in Addresses
    BY DEF Pda, Addresses, Seed
  <2>3. PICK r : r = [at |-> "fetch", op |-> "attach", doc |-> d, claim |-> docs[d].claim,
                      pda |-> Pda("file-ownership", w, c)]
    OBVIOUS
  <2>4. /\ r.at = "fetch" /\ r.op = "attach" /\ r.doc = d /\ r.claim = docs[d].claim
        /\ r.pda = Pda("file-ownership", w, c) /\ req' = [req EXCEPT ![p] = r]
    BY <2>1, <2>3
  <2>5. HolderOK(r)'
    BY <1>0, <2>1, <2>2, <2>4 DEF HolderOK, DocStep, Attachable, docVars
  <2> QED
    BY <1>0, <2>4, <2>5, DocBegins DEF DocStep
<1>2. CASE Review(p)
  <2>1. PICK d \in Doc, verdict \in Verdict :
          /\ docs[d].status # "absent"
          /\ req' = [req EXCEPT ![p] = [at |-> "review", op |-> "review", doc |-> d, verdict |-> verdict,
                                        seen |-> docs[d].status]]
    BY <1>2 DEF Review, Begin
  <2>2. PICK r : r = [at |-> "review", op |-> "review", doc |-> d, verdict |-> verdict, seen |-> docs[d].status]
    OBVIOUS
  <2>3. /\ r.at = "review" /\ r.op = "review" /\ r.doc = d /\ r.verdict = verdict
        /\ req' = [req EXCEPT ![p] = r]
    BY <2>1, <2>2
  <2>4. HolderOK(r)'
    BY <1>0, <2>1, <2>3 DEF HolderOK, DocStep, docVars
  <2> QED
    BY <1>0, <2>3, <2>4, DocBegins DEF DocStep
<1>3. CASE Cancel(p) \/ CancelUpload(p)
  <2>1. PICK d \in Doc :
          /\ docs[d].status # "absent"
          /\ req' = [req EXCEPT ![p] = [at |-> "cancel", op |-> "cancel", doc |-> d]]
    BY <1>3 DEF Cancel, CancelUpload, Cancels, Begin
  <2> DEFINE r == [at |-> "cancel", op |-> "cancel", doc |-> d]
  <2>2. r.at = "cancel" /\ r.op = "cancel" /\ r.doc = d /\ req' = [req EXCEPT ![p] = r]
    BY <2>1
  <2> HIDE DEF r
  <2>3. HolderOK(r)'
    BY <1>0, <2>1, <2>2 DEF HolderOK, DocStep, docVars
  <2> QED
    BY <1>0, <2>2, <2>3, DocBegins DEF DocStep
<1>4. CASE Generate(p) \/ Regenerate(p)
  <2>1. PICK r : req' = [req EXCEPT ![p] = r] /\ r.at \in {"generate", "regenerate"} /\ r.op = r.at
    <3> DEFINE saw == [n \in {m \in Rows : needs[m].status = "pending"} |-> needs[n]]
    <3>1. CASE Generate(p)
      <4>1. PICK r : r = [at |-> "generate", op |-> "generate"]
        OBVIOUS
      <4>2. req' = [req EXCEPT ![p] = r] /\ r.at = "generate" /\ r.op = "generate"
        BY <3>1, <4>1 DEF Generate, Begin
      <4> QED
        BY <4>2
    <3>2. CASE Regenerate(p)
      <4>1. PICK listed \in BOOLEAN :
              req' = [req EXCEPT ![p] = [at |-> "regenerate", op |-> "regenerate", listed |-> listed, saw |-> saw]]
        BY <3>2 DEF Regenerate, Begin
      <4>2. PICK r : r = [at |-> "regenerate", op |-> "regenerate", listed |-> listed, saw |-> saw]
        OBVIOUS
      <4> HIDE DEF saw
      <4>3. req' = [req EXCEPT ![p] = r] /\ r.at = "regenerate" /\ r.op = "regenerate"
        BY <4>1, <4>2
      <4> QED
        BY <4>3
    <3> QED
      BY <1>4, <3>1, <3>2
  <2>2. HolderOK(r)'
    BY <2>1 DEF HolderOK, DocStep
  <2> QED
    BY <1>0, <2>1, <2>2, DocBegins DEF DocStep
<1> QED
  BY <1>1, <1>2, <1>3, <1>4

\* The requirement that an UPDATE reads is the only one linked to the document.
LEMMA UpdateStep ==
  ASSUME IInv, NEW p \in Proc, UpdateDocument(p), UNCHANGED chatVars
  PROVE  IInv'
<1> DEFINE d == req[p].doc
           saw == [n \in Linked(d) |-> needs[n]]
<1>1. /\ req[p].at \in {"review", "cancel"} /\ UNCHANGED <<chainVars, docVars>>
      /\ d \in Doc /\ docs[d].status # "absent" /\ req[p].op # "ask"
      /\ req[p].at = "review" => req[p].verdict \in Verdict
  BY DEF UpdateDocument, At, IInv, RequestsOK, HolderOK, DocStep
<1>2. PICK step \in {"reviewed", "cancelled"}, status \in DocStatus \ {"absent"} :
        req' = [req EXCEPT ![p] = [at |-> step, op |-> req[p].op, doc |-> d, saw |-> saw, status |-> status]]
  <2>1. /\ Verdict \subseteq DocStatus \ {"absent"} /\ "cancelled" \in DocStatus \ {"absent"}
        /\ docs[d].status \in DocStatus \ {"absent"}
    BY <1>1 DEF Verdict, DocStatus, IInv, DocsOK, DocRow
  <2> HIDE DEF saw
  <2>2. CASE At(p, "cancel")
    <3>1. req' = [req EXCEPT ![p] = [at |-> "cancelled", op |-> req[p].op, doc |-> d, saw |-> saw,
                                     status |-> "cancelled"]]
      BY <2>2 DEF UpdateDocument, saw
    <3> QED
      BY <2>1, <3>1
  <2>3. CASE ~At(p, "cancel")
    <3> DEFINE status == IF req[p].verdict = req[p].seen THEN docs[d].status ELSE req[p].verdict
    <3>1. req' = [req EXCEPT ![p] = [at |-> "reviewed", op |-> req[p].op, doc |-> d, saw |-> saw,
                                     status |-> status]]
      BY <2>3 DEF UpdateDocument, saw
    <3>2. status \in DocStatus \ {"absent"}
      BY <1>1, <2>1, <2>3 DEF At
    <3> QED
      BY <3>1, <3>2
  <2> QED
    BY <2>2, <2>3
<1>3. DOMAIN saw = Linked(d) /\ \A n \in Linked(d) : saw[n] = needs[n]
  OBVIOUS
<1>4. /\ Linked(d) \subseteq Need /\ (\A n, m \in Linked(d) : n = m) /\ \A n \in Linked(d) : needs[n].doc = d
  BY <1>1, NoDocAssumption DEF Linked, Rows, IInv, NeedsOK
<1>5. PICK r : r = [at |-> step, op |-> req[p].op, doc |-> d, saw |-> saw, status |-> status]
  OBVIOUS
<1> HIDE DEF saw
<1>6. /\ r.at = step /\ r.op = req[p].op /\ r.doc = d /\ r.saw = saw /\ r.status = status
      /\ req' = [req EXCEPT ![p] = r]
  BY <1>2, <1>5
<1>7. HolderOK(r)'
  <2>1. Linked(r.doc)' = Linked(d)
    BY <1>1, <1>6 DEF Linked, Rows, docVars
  <2> QED
    BY <1>1, <1>3, <1>4, <1>6, <2>1 DEF HolderOK, DocStep, docVars
<1> QED
  BY <1>1, <1>6, <1>7, DocBegins DEF DocStep

-----------------------------------------------------------------------------
(* What they write.                                                        *)

\* A request that wrote and ends.
LEMMA DocEnds ==
  ASSUME IInv, NEW p \in Proc, UNCHANGED <<chainVars, chatVars>>, End(p), DocsGrow,
         \A q \in Proc \ {p} : At(q, "link") => docs'[req[q].doc].status = "absent",
         DocsOK', NeedsOK', RequirementFollowsDocument'
  PROVE  IInv'
<1>1. req' = [req EXCEPT ![p] = Idle]
  BY DEF End
<1>2. LinksStay(p, Idle)
  BY IdleOK DEF LinksStay
<1>3. ChainOK' /\ ToldOK' /\ RowsOK' /\ RequestsOK' /\ OnceOK'
  BY <1>1, <1>2, IdleOK, QuietMove DEF chainVars, chatVars
<1> QED
  BY <1>3 DEF IInv

LEMMA LinkIsNew ==
  ASSUME IInv, NEW q \in Proc, At(q, "link")
  PROVE  req[q].doc \in Doc /\ docs[req[q].doc].status = "absent"
  BY DEF IInv, RequestsOK, HolderOK, At

LEMMA UploadStep ==
  ASSUME IInv, NEW p \in Proc, UploadCommits(p), UNCHANGED chatVars
  PROVE  IInv'
<1> DEFINE d == req[p].doc
           row == [kind |-> req[p].kind, status |-> "uploaded", claim |-> req[p].claim, proof |-> NoPda]
           need == [status |-> "uploaded", doc |-> d]
<1>1. /\ At(p, "link") /\ End(p) /\ UNCHANGED chainVars
      /\ HolderOK(req[p]) /\ d \in Doc /\ docs[d].status = "absent"
      /\ req[p].kind \in {"case", "agent"} /\ req[p].claim \in Claim /\ req[p].link \subseteq Need
  BY DEF UploadCommits, IInv, RequestsOK, HolderOK, At
<1>2. \A q \in Proc \ {p} : At(q, "link") => req[q].doc # d
  BY <1>1 DEF IInv, RequestsOK
<1>3. CASE UNCHANGED docVars
  <2>1. DocsGrow /\ NeedsOK' /\ RequirementFollowsDocument'
    BY <1>3, DocsStay
  <2>2. DocsOK'
    BY <1>1, <1>3 DEF IInv, DocsOK, chainVars, docVars
  <2>3. \A q \in Proc : At(q, "link") => docs'[req[q].doc].status = "absent"
    BY <1>3, LinkIsNew DEF docVars
  <2> QED
    BY <1>1, <2>1, <2>2, <2>3, DocEnds
<1>4. CASE ~UNCHANGED docVars
  <2>1. /\ req[p].link \subseteq Rows /\ docs' = [docs EXCEPT ![d] = row]
        /\ \/ UNCHANGED needs /\ UNCHANGED stale
           \/ \E n \in req[p].link : /\ needs' = [needs EXCEPT ![n] = need] /\ stale \subseteq stale'
    <3>1. CASE req[p].link = {}
      BY <1>4, <3>1 DEF UploadCommits, UnchangedNeeds
    <3>2. CASE req[p].link # {}
      BY <1>4, <3>2 DEF UploadCommits, Writes
    <3> QED
      BY <3>1, <3>2
  <2>2. row \in DocRow /\ row.status = "uploaded" /\ row.proof = NoPda
    BY <1>1 DEF DocRow, DocStatus
  <2>3. need \in NeedRow /\ need.status = "uploaded" /\ need.doc = d
    BY <1>1 DEF NeedRow, DocStatus
  <2> HIDE DEF row, need
  <2>4. /\ docs \in [Doc -> DocRow] /\ docs' \in [Doc -> DocRow] /\ docs'[d] = row
        /\ \A e \in Doc \ {d} : docs'[e] = docs[e]
    BY <1>1, <2>1, <2>2 DEF IInv, DocsOK
  <2>5. DocsOK'
    BY <1>1, <2>2, <2>4 DEF IInv, DocsOK, chainVars
  <2>6. \A n \in Need : needs[n].doc # d
    BY <1>1, NoDocAssumption DEF IInv, NeedsOK
  <2>7. /\ needs' \in [Need -> NeedRow]
        /\ \/ needs' = needs
           \/ \E n \in Need : needs'[n] = need /\ \A m \in Need \ {n} : needs'[m] = needs[m]
        /\ stale \subseteq stale'
    BY <1>1, <2>1, <2>3 DEF IInv, NeedsOK
  <2>8. NeedsOK'
    <3>1. \A n \in Need : needs[n].doc # NoDoc =>
            /\ needs[n].status \notin {"absent", "deleted"} /\ needs[n].doc \in Doc \ {d}
            /\ docs[needs[n].doc].status # "absent"
      BY <2>6 DEF IInv, NeedsOK, NeedRow, Rows
    <3> QED
      BY <1>1, <2>2, <2>3, <2>4, <2>6, <2>7, <3>1 DEF IInv, NeedsOK, Rows
  <2>9. RequirementFollowsDocument'
    <3>1. \A n \in Need : needs[n].doc # NoDoc => needs[n].doc \in Doc \ {d}
      BY <2>6 DEF IInv, NeedsOK, NeedRow
    <3>2. \A n \in Need : needs[n].status \notin {"absent", "deleted"} /\ n \notin stale /\ needs[n].doc # NoDoc
                          => needs[n].status = docs[needs[n].doc].status
      BY DEF IInv, RequirementFollowsDocument, Rows
    <3> QED
      BY <2>2, <2>3, <2>4, <2>7, <3>1, <3>2 DEF RequirementFollowsDocument, Rows
  <2>10. DocsGrow
    <3> SUFFICES ASSUME NEW e \in Doc, docs[e].status # "absent"
                 PROVE  /\ docs'[e].status # "absent" /\ docs'[e].claim = docs[e].claim
                        /\ Linked(e)' \subseteq Linked(e)
      BY DEF DocsGrow
    <3>1. e # d
      BY <1>1
    <3> QED
      BY <2>3, <2>4, <2>7, <3>1 DEF Linked, Rows
  <2>11. \A q \in Proc \ {p} : At(q, "link") => docs'[req[q].doc].status = "absent"
    BY <1>2, <2>4, LinkIsNew
  <2> QED
    BY <1>1, <2>5, <2>8, <2>9, <2>10, <2>11, DocEnds
<1> QED
  BY <1>3, <1>4

LEMMA AttachStep ==
  ASSUME IInv, NEW p \in Proc, AttachEnds(p), UNCHANGED chatVars
  PROVE  IInv'
<1> DEFINE d == req[p].doc
<1>1. /\ End(p) /\ UNCHANGED <<chainVars, needs, stale>>
      /\ d \in Doc /\ docs[d].claim = req[p].claim /\ req[p].pda \in Addresses
      /\ \/ /\ RecordMatches(req[p].pda, req[p].claim)
            /\ docs' = [docs EXCEPT ![d].proof = req[p].pda]
         \/ UNCHANGED docs
  BY DEF AttachEnds, IInv, RequestsOK, HolderOK, At
<1>2. /\ docs' \in [Doc -> DocRow]
      /\ \A e \in Doc : /\ docs'[e].status = docs[e].status /\ docs'[e].claim = docs[e].claim
                        /\ docs'[e].proof = docs[e].proof \/ (e = d /\ docs'[e].proof = req[p].pda
                                                              /\ RecordMatches(req[p].pda, req[p].claim))
  <2> DEFINE row == [docs[d] EXCEPT !.proof = req[p].pda]
  <2>1. docs \in [Doc -> DocRow]
    BY DEF IInv, DocsOK
  <2>2. /\ row \in DocRow /\ row.status = docs[d].status /\ row.claim = docs[d].claim
        /\ row.proof = req[p].pda
    BY <1>1, <2>1 DEF DocRow
  <2>3. UNCHANGED docs \/ (docs' = [docs EXCEPT ![d] = row] /\ RecordMatches(req[p].pda, req[p].claim))
    BY <1>1
  <2> HIDE DEF row
  <2> QED
    BY <1>1, <2>1, <2>2, <2>3
<1>3. DocsOK'
  BY <1>1, <1>2 DEF IInv, DocsOK, chainVars, RecordMatches
<1>4. NeedsOK' /\ RequirementFollowsDocument' /\ DocsGrow
  <2>1. Rows' = Rows /\ \A e \in Doc : Linked(e)' = Linked(e)
    BY <1>1 DEF Rows, Linked
  <2>2. \A n \in Need : needs[n].doc # NoDoc => needs[n].doc \in Doc
    BY DEF IInv, NeedsOK, NeedRow
  <2>3. Rows \subseteq Need
    BY DEF Rows
  <2> QED
    BY <1>1, <1>2, <2>1, <2>2, <2>3 DEF IInv, NeedsOK, RequirementFollowsDocument, DocsGrow
<1>5. \A q \in Proc : At(q, "link") => docs'[req[q].doc].status = "absent"
  BY <1>2, LinkIsNew
<1> QED
  BY <1>1, <1>3, <1>4, <1>5, DocEnds

\* A verdict or a cancellation reaches the only requirement linked to the document,
\* unless it has been linked to another one, or deleted, meanwhile.
LEMMA CommitStep ==
  ASSUME IInv, NEW p \in Proc, DocumentCommits(p), UNCHANGED chatVars
  PROVE  IInv'
<1> DEFINE d == req[p].doc
           saw == req[p].saw
           row == [docs[d] EXCEPT !.status = req[p].status]
<1>1. /\ At(p, "reviewed") \/ At(p, "cancelled")
      /\ End(p) /\ UNCHANGED chainVars
      /\ d \in Doc /\ docs[d].status # "absent" /\ req[p].status \in DocStatus \ {"absent"}
      /\ Linked(d) \subseteq DOMAIN saw /\ DOMAIN saw \subseteq Need
      /\ \A n, m \in DOMAIN saw : n = m
      /\ \A n \in DOMAIN saw : saw[n].doc = d
  BY DEF DocumentCommits, IInv, RequestsOK, HolderOK, At
<1>2. CASE UNCHANGED docVars
  <2>1. DocsGrow /\ NeedsOK' /\ RequirementFollowsDocument'
    BY <1>2, DocsStay
  <2>2. DocsOK'
    BY <1>1, <1>2 DEF IInv, DocsOK, chainVars, docVars
  <2>3. \A q \in Proc : At(q, "link") => docs'[req[q].doc].status = "absent"
    BY <1>2, LinkIsNew DEF docVars
  <2> QED
    BY <1>1, <2>1, <2>2, <2>3, DocEnds
<1>3. CASE ~UNCHANGED docVars
  <2>1. /\ DOMAIN saw \subseteq Rows /\ docs' = [docs EXCEPT ![d] = row]
        /\ \/ UNCHANGED <<needs, stale>> /\ DOMAIN saw = {}
           \/ \E n \in DOMAIN saw : Writes(n, saw[n], Follows(p, n))
    <3>1. CASE DOMAIN saw = {}
      BY <1>3, <3>1 DEF DocumentCommits, UnchangedNeeds
    <3>2. CASE DOMAIN saw # {}
      BY <1>3, <3>2 DEF DocumentCommits
    <3> QED
      BY <3>1, <3>2
  <2>2. /\ row \in DocRow /\ row.status = req[p].status /\ row.claim = docs[d].claim
        /\ row.proof = docs[d].proof
    BY <1>1 DEF IInv, DocsOK, DocRow
  <2> HIDE DEF row
  <2>3. /\ docs' \in [Doc -> DocRow] /\ docs'[d] = row /\ \A e \in Doc \ {d} : docs'[e] = docs[e]
    BY <1>1, <2>1, <2>2 DEF IInv, DocsOK
  <2>4. DocsOK'
    BY <1>1, <2>2, <2>3 DEF IInv, DocsOK, chainVars
  <2>5. \A e \in Doc : docs[e].status # "absent" => docs'[e].status # "absent" /\ docs'[e].claim = docs[e].claim
    BY <1>1, <2>2, <2>3
  <2>6. \A n \in Need : needs[n].doc # NoDoc => needs[n].doc \in Doc /\ n \in Rows
    BY DEF IInv, NeedsOK, NeedRow
  <2>7. \A q \in Proc : At(q, "link") => docs'[req[q].doc].status = "absent"
    BY <1>1, <2>3, LinkIsNew
  <2>8. CASE UNCHANGED <<needs, stale>> /\ DOMAIN saw = {}
    <3>1. \A n \in Need : needs[n].doc # d
      BY <1>1, <2>6, <2>8, NoDocAssumption DEF Linked
    <3>2. Rows' = Rows /\ Rows \subseteq Need /\ \A e \in Doc : Linked(e)' = Linked(e)
      BY <2>8 DEF Rows, Linked
    <3>3. NeedsOK' /\ DocsGrow
      BY <2>5, <2>6, <2>8, <3>2 DEF IInv, NeedsOK, DocsGrow
    <3>4. RequirementFollowsDocument'
      BY <2>3, <2>6, <2>8, <3>1, <3>2 DEF IInv, RequirementFollowsDocument
    <3> QED
      BY <1>1, <2>4, <2>7, <3>3, <3>4, DocEnds
  <2>9. ASSUME NEW n \in DOMAIN saw, Writes(n, saw[n], Follows(p, n))
        PROVE  IInv'
    <3> DEFINE need == Follows(p, n)
    <3>1. n \in Need /\ n \in Rows /\ needs[n] \in NeedRow /\ needs[n].status \notin {"absent", "deleted"}
      BY <1>1, <2>1 DEF IInv, NeedsOK, Rows
    <3>2. /\ need \in NeedRow /\ need.status \notin {"absent", "deleted"}
          /\ need.doc \in {NoDoc, needs[n].doc}
          /\ need.doc # NoDoc /\ needs[n] = saw[n] => need.status = req[p].status
      <4>1. CASE need = Pending
        BY <4>1 DEF Pending, NeedRow
      <4>2. CASE need = needs[n] /\ saw[n].status = req[p].status
        BY <3>1, <4>2
      <4>3. CASE need = [needs[n] EXCEPT !.status = req[p].status]
        BY <1>1, <3>1, <4>3 DEF NeedRow, DocStatus
      <4> QED
        BY <4>1, <4>2, <4>3 DEF Follows
    <3> HIDE DEF need
    <3>3. /\ needs' \in [Need -> NeedRow] /\ needs'[n] = need /\ \A m \in Need \ {n} : needs'[m] = needs[m]
          /\ stale \subseteq stale' /\ (n \notin stale' => needs[n] = saw[n])
      BY <2>9, <3>1, <3>2 DEF Writes, IInv, NeedsOK, need
    <3>4. Rows' = Rows /\ Rows \subseteq Need
      BY <3>1, <3>2, <3>3 DEF Rows
    <3>5. \A m \in Need : needs'[m].doc # NoDoc => needs'[m].doc = needs[m].doc
      BY <3>2, <3>3
    <3>6. NeedsOK'
      BY <2>5, <2>6, <3>3, <3>4, <3>5 DEF IInv, NeedsOK
    <3>7. DocsGrow
      <4>1. \A e \in Doc : Linked(e)' \subseteq Linked(e)
        BY <3>4, <3>5, NoDocAssumption DEF Linked
      <4> QED
        BY <2>5, <4>1 DEF DocsGrow
    <3>8. RequirementFollowsDocument'
      <4> SUFFICES ASSUME NEW m \in Rows \ stale', needs'[m].doc # NoDoc
                   PROVE  needs'[m].status = docs'[needs'[m].doc].status
        BY <3>4 DEF RequirementFollowsDocument
      <4>1. CASE m = n
        BY <1>1, <2>2, <2>3, <3>2, <3>3, <3>5, <4>1
      <4>2. CASE m # n
        <5>1. m \notin DOMAIN saw
          BY <1>1, <4>2
        <5>2. needs[m].doc # d
          BY <1>1, <5>1 DEF Linked
        <5> QED
          BY <2>3, <2>6, <3>3, <3>4, <4>2, <5>2 DEF IInv, RequirementFollowsDocument
      <4> QED
        BY <4>1, <4>2
    <3> QED
      BY <1>1, <2>4, <2>7, <3>6, <3>7, <3>8, DocEnds
  <2> QED
    BY <2>1, <2>8, <2>9
<1> QED
  BY <1>2, <1>3

\* The rows of requirements that are made and deleted are linked to no document.
LEMMA GenerateStep ==
  ASSUME IInv, NEW p \in Proc, GenerateCommits(p) \/ RegenerateCommits(p), UNCHANGED chatVars
  PROVE  IInv'
<1>1. End(p) /\ UNCHANGED chainVars /\ UNCHANGED docs /\ stale \subseteq stale'
  BY DEF GenerateCommits, RegenerateCommits, docVars
<1>2. /\ needs' \in [Need -> NeedRow]
      /\ \A n \in Need : needs'[n] = needs[n] \/ needs'[n].doc = NoDoc
  <2>1. Pending \in NeedRow /\ Deleted \in NeedRow /\ Pending.doc = NoDoc /\ Deleted.doc = NoDoc
    BY DEF Pending, Deleted, NeedRow
  <2>2. needs \in [Need -> NeedRow]
    BY DEF IInv, NeedsOK
  <2>3. CASE GenerateCommits(p)
    BY <2>1, <2>2, <2>3 DEF GenerateCommits
  <2>4. CASE RegenerateCommits(p)
    <3> DEFINE gone == DOMAIN req[p].saw \cap Rows
               kept == [n \in Need |-> IF n \in gone THEN Deleted ELSE needs[n]]
    <3>1. needs' \in {needs, kept} \/ needs' = [kept EXCEPT ![CHOOSE n \in Unused : TRUE] = Pending]
      BY <2>4 DEF RegenerateCommits, docVars
    <3>2. kept \in [Need -> NeedRow] /\ \A n \in Need : kept[n] = needs[n] \/ kept[n].doc = NoDoc
      BY <2>1, <2>2
    <3> HIDE DEF kept
    <3> QED
      BY <2>1, <2>2, <3>1, <3>2
  <2> QED
    BY <2>3, <2>4
<1>3. DocsOK'
  BY <1>1 DEF IInv, DocsOK, chainVars
<1>4. \A n \in Need : needs'[n].doc # NoDoc => needs'[n] = needs[n]
  BY <1>2
<1>5. NeedsOK' /\ RequirementFollowsDocument'
  BY <1>1, <1>2, <1>4 DEF IInv, NeedsOK, RequirementFollowsDocument, Rows
<1>6. DocsGrow
  BY <1>1, <1>4, NoDocAssumption DEF DocsGrow, Linked, Rows
<1>7. \A q \in Proc : At(q, "link") => docs'[req[q].doc].status = "absent"
  BY <1>1, LinkIsNew
<1> QED
  BY <1>1, <1>3, <1>5, <1>6, <1>7, DocEnds

-----------------------------------------------------------------------------
(* The theorems.                                                           *)

LEMMA IInvKept == IInv /\ [Next]_vars => IInv'
<1> SUFFICES ASSUME IInv, [Next]_vars
             PROVE  IInv'
  OBVIOUS
<1>1. CASE ChainNext /\ UNCHANGED <<chatVars, docVars>>
  BY <1>1, SendStep, LandStep, SubmitBegins, SubmitEnds DEF ChainNext
<1>2. CASE ChatNext /\ UNCHANGED docVars
  BY <1>2, AskBegins, LookupStep, SubmittedStep, AskEnds, AnswerStep DEF ChatNext
<1>3. CASE DocNext /\ UNCHANGED chatVars
  BY <1>3, UploadBegins, OtherBegins, UpdateStep, UploadStep, AttachStep, CommitStep, GenerateStep
  DEF DocNext
<1>4. CASE UNCHANGED vars
  <2>1. UNCHANGED <<record, tx, told, req, paid, rows, crossed, docs, needs, stale>>
    BY <1>4 DEF vars, chainVars, chatVars, docVars
  <2>2. ChainGrows /\ ChainOK' /\ DocsGrow /\ NeedsOK' /\ RequirementFollowsDocument'
    BY <2>1, ChainStays, DocsStay DEF docVars
  <2>3. RequestsOK' /\ OnceOK'
    BY <2>1 DEF IInv, RequestsOK, OnceOK, SenderOK, HolderOK, PaidFor, At, Linked, Rows, TookForNew, Asking, Asked
  <2> QED
    BY <2>1, <2>2, <2>3, ReportsStay DEF IInv
<1> QED
  BY <1>1, <1>2, <1>3, <1>4 DEF Next

LEMMA Invariance == Spec => []IInv
  BY InitOK, IInvKept, PTL DEF Spec

\* What the API reports of the chain is true, for any number of requests and faults:
\* although it takes any status of a transaction for success, a transaction that it
\* has sent fails only where the record is there already.
THEOREM ReportsAreTrue == Spec => []ReportedIsOnChain
<1>1. IInv => ReportedIsOnChain
  <2> SUFFICES ASSUME IInv
               PROVE  ReportedIsOnChain
    OBVIOUS
  <2>1. \A a \in told : record[a] # 0
    BY DEF IInv, ToldOK
  <2>2. ASSUME NEW r \in rows
        PROVE  /\ record[<<"compliance", r.payer, r.query>>] # 0
               /\ [memo |-> Memo(r.payer, r.query), ok |-> TRUE] \in paid
    BY DEF IInv, RowsOK, ChainOK, PaidFor, Recorded, Pda
  <2>3. ASSUME NEW d \in Doc, docs[d].proof # NoPda
        PROVE  /\ record[docs[d].proof] # 0
               /\ docs[d].claim = Commitment(docs[d].proof[2], docs[d].proof[3])
    BY <2>3 DEF IInv, DocsOK
  <2> QED
    BY <2>1, <2>2, <2>3 DEF ReportedIsOnChain
<1> QED
  BY <1>1, Invariance, PTL

\* A question of a wallet is answered once, unless two requests took it for new at the
\* same time; then one of the two answers names a transaction that recorded nothing.
THEOREM AnswersAreSingle == Spec => []OneAnswerUnlessCrossed
<1>1. IInv => OneAnswerUnlessCrossed
  <2> SUFFICES ASSUME IInv, NEW r \in rows, NEW s \in rows, r # s, r.payer = s.payer, r.query = s.query
               PROVE  /\ <<r.payer, r.query>> \in crossed
                      /\ "failed" \in {tx[r.compliance_tx].st, tx[s.compliance_tx].st}
    BY DEF OneAnswerUnlessCrossed
  <2>1. /\ r \in [payer : Wallet, query : Content, compliance_tx : DOMAIN tx]
        /\ s \in [payer : Wallet, query : Content, compliance_tx : DOMAIN tx]
        /\ tx[r.compliance_tx].st \in {"done", "failed"} /\ tx[s.compliance_tx].st \in {"done", "failed"}
        /\ Address(tx[r.compliance_tx].ix) = Address(tx[s.compliance_tx].ix)
    BY DEF IInv, RowsOK
  <2>2. r.compliance_tx # s.compliance_tx
    BY <2>1
  <2>3. ~(tx[r.compliance_tx].st = "done" /\ tx[s.compliance_tx].st = "done")
    BY <2>1, <2>2 DEF IInv, ChainOK
  <2> QED
    BY <2>1, <2>3 DEF IInv, OnceOK
<1> QED
  BY <1>1, Invariance, PTL

\* The copy of a document's status in the requirement it is linked to agrees with the
\* document, unless a request wrote the requirement after another one had relinked it.
THEOREM RequirementsFollow == Spec => []RequirementFollowsDocument
  BY Invariance, PTL DEF IInv
=============================================================================

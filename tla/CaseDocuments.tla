--------------------------- MODULE CaseDocuments ----------------------------
(***************************************************************************)
(* Documents of a case and uploads of a chat: app/documents, the required  *)
(* documents of app/required_documents and the uploads of app/agent/router.*)
(*                                                                         *)
(* A required document is a row of its own, linked to the document that    *)
(* was uploaded for it and carrying a copy of its status.  Upload, review  *)
(* and cancellation write both rows; a change of the jurisdiction deletes  *)
(* and makes required documents.  Each request reads, then writes the rows *)
(* by their key and the columns that differ from what it had read, and     *)
(* commits; the row of the document is locked from its UPDATE on.  A proof *)
(* of ownership is attached after a look at the record on chain.           *)
(***************************************************************************)
EXTENDS ZkVerifier

CONSTANTS Doc, NoDoc, Need  \* documents and rows of required documents

ASSUME NoDocAssumption == NoDoc \notin Doc
ASSUME SomeDocAssumption == Doc # {}

VARIABLES
  docs,   \* documents and agent_upload, by document
  needs,  \* case_required_documents of one case and one kind of document
  stale   \* (history) required documents written by a request that had read another row

docVars == <<docs, needs, stale>>

NoClaim == <<>>
NoPda == <<>>
Absent == [kind |-> "case", status |-> "absent", claim |-> NoClaim, proof |-> NoPda]
NoRow == [status |-> "absent", doc |-> NoDoc]
Pending == [status |-> "pending", doc |-> NoDoc]
Deleted == [status |-> "deleted", doc |-> NoDoc]
Rows == {n \in Need : needs[n].status \notin {"absent", "deleted"}}

\* Keys of rows that were never used; a deleted row's key is not used again.
Unused == {n \in Need : needs[n].status = "absent"}

\* A case that was opened with the required documents of its jurisdiction: none
\* was uploaded yet, or the first one was and has been rejected.
DocInit ==
  LET d == CHOOSE e \in Doc : TRUE
      n == CHOOSE m \in Need : TRUE
  IN
  /\ \/ /\ docs = [e \in Doc |-> Absent]
        /\ needs = [m \in Need |-> IF m = n THEN Pending ELSE NoRow]
     \/ /\ docs = [e \in Doc |-> IF e = d THEN [Absent EXCEPT !.status = "rejected"]
                                 ELSE Absent]
        /\ needs = [m \in Need |-> IF m = n THEN [status |-> "rejected", doc |-> d]
                                  ELSE NoRow]
  /\ stale = {}

Holds(p, d) == req[p].at \in {"reviewed", "cancelled"} /\ req[p].doc = d
Locked(d) == \E p \in Proc : Holds(p, d)

\* The process writes row n of the required documents, which it read as `saw'.
Writes(n, saw, row) ==
  /\ needs' = [needs EXCEPT ![n] = row]
  /\ stale' = IF needs[n] # saw THEN stale \cup {n} ELSE stale

UnchangedNeeds == UNCHANGED <<needs, stale>>

\* scalar_one_or_none: a query with two rows raises.
OneOrNone(S) == \A n, m \in S : n = m

-----------------------------------------------------------------------------
(* Upload.                                                                 *)

NewDoc == {d \in Doc : /\ docs[d].status = "absent"
                       /\ \A q \in Proc : At(q, "link") => req[q].doc # d}
Claim == {NoClaim} \cup {Commitment(w, c) : w \in Wallet, c \in Content}

\* The rows an upload of the required kind may be linked to.
Linkable == {n \in Need : needs[n].status \in {"pending", "rejected"}}

Uploads(p, kind, link) ==
  /\ NewDoc # {}
  /\ \E claim \in Claim :
       Begin(p, [at |-> "link", op |-> "upload", doc |-> CHOOSE d \in NewDoc : TRUE,
                 kind |-> kind, claim |-> claim, link |-> link,
                 saw |-> [n \in link |-> needs[n]]])
  /\ UNCHANGED <<chainVars, docVars>>

\* To a case, with a type or without; two rows of the type make it fail.
Upload(p) ==
  \/ Uploads(p, "case", {})
  \/ OneOrNone(Linkable) /\ Uploads(p, "case", Linkable)

\* To the session of a chat.
UploadToSession(p) == Uploads(p, "agent", {})

\* A row that was deleted meanwhile cannot be linked: the upload is rolled back.
UploadCommits(p) ==
  /\ At(p, "link")
  /\ IF req[p].link \subseteq Rows
     THEN /\ docs' = [docs EXCEPT ![req[p].doc] =
                       [kind |-> req[p].kind, status |-> "uploaded",
                        claim |-> req[p].claim, proof |-> NoPda]]
          /\ IF req[p].link = {} THEN UnchangedNeeds
             ELSE \E n \in req[p].link :
                    Writes(n, req[p].saw[n], [status |-> "uploaded", doc |-> req[p].doc])
     ELSE UNCHANGED docVars
  /\ End(p) /\ UNCHANGED <<chainVars, used>>

-----------------------------------------------------------------------------
(* The proof of ownership.                                                 *)

\* A cancelled upload of a chat takes none; a cancelled document does.
Attachable(d) ==
  /\ docs[d].status # "absent" /\ docs[d].claim # NoClaim /\ docs[d].proof = NoPda
  /\ docs[d].kind = "agent" => docs[d].status # "cancelled"

Attach(p) ==
  \E d \in Doc, w \in Wallet, c \in Content :
    /\ Attachable(d)
    /\ Begin(p, [at |-> "fetch", op |-> "attach", doc |-> d, claim |-> docs[d].claim,
                 pda |-> Pda("file-ownership", w, c)])
    /\ UNCHANGED <<chainVars, docVars>>

\* The record exists, with the hash and the commitment of the document.
RecordMatches(pda, claim) == record[pda] # 0 /\ Commitment(pda[2], pda[3]) = claim

AttachEnds(p) ==
  /\ At(p, "fetch") /\ ~Locked(req[p].doc)
  /\ \/ /\ RecordMatches(req[p].pda, req[p].claim)
        /\ docs' = [docs EXCEPT ![req[p].doc].proof = req[p].pda] /\ UNCHANGED used
     \/ ~RecordMatches(req[p].pda, req[p].claim) /\ UNCHANGED <<docs, used>>
     \/ Fault /\ UNCHANGED docs
  /\ End(p) /\ UNCHANGED <<chainVars, needs, stale>>

-----------------------------------------------------------------------------
(* Review and cancellation.                                                *)

Verdict == {"approved", "rejected"}

\* The document is read; a cancelled one may be reviewed, but not cancelled.
Review(p) ==
  \E d \in Doc, verdict \in Verdict :
    /\ docs[d].kind = "case" /\ docs[d].status # "absent"
    /\ Begin(p, [at |-> "review", op |-> "review", doc |-> d, verdict |-> verdict,
                 seen |-> docs[d].status])
    /\ UNCHANGED <<chainVars, docVars>>

Cancels(p, kind) ==
  \E d \in Doc :
    /\ docs[d].kind = kind /\ docs[d].status \notin {"absent", "cancelled"}
    /\ Begin(p, [at |-> "cancel", op |-> "cancel", doc |-> d])
    /\ UNCHANGED <<chainVars, docVars>>

Cancel(p) == Cancels(p, "case")
CancelUpload(p) == Cancels(p, "agent")

Linked(d) == {n \in Rows : needs[n].doc = d}

\* Its UPDATE waits for the row of the document; then the linked requirement is
\* read.  A verdict that equals the status read before is not written again.
UpdateDocument(p) ==
  LET d == req[p].doc
      saw == [n \in Linked(d) |-> needs[n]]
      Updated(step, status) ==
        req' = [req EXCEPT ![p] = [at |-> step, op |-> @.op, doc |-> d, saw |-> saw,
                                   status |-> status]]
  IN
  /\ At(p, "review") \/ At(p, "cancel")
  /\ ~Locked(d)
  /\ IF At(p, "cancel") THEN Updated("cancelled", "cancelled")
     ELSE Updated("reviewed", IF req[p].verdict = req[p].seen THEN docs[d].status
                              ELSE req[p].verdict)
  /\ UNCHANGED <<chainVars, docVars, used>>

\* Mutant: a cancellation leaves the requirement as it is.
MutFollows(p, n) ==
  IF At(p, "cancelled") THEN needs[n] ELSE [needs[n] EXCEPT !.status = req[p].status]

\* The requirement follows: a review copies the status, a cancellation unlinks.
Follows(p, n) ==
  IF At(p, "cancelled") THEN Pending
  ELSE IF req[p].saw[n].status = req[p].status THEN needs[n]
       ELSE [needs[n] EXCEPT !.status = req[p].status]

DocumentCommits(p) ==
  /\ At(p, "reviewed") \/ At(p, "cancelled")
  /\ IF DOMAIN req[p].saw \subseteq Rows
     THEN /\ docs' = [docs EXCEPT ![req[p].doc].status = req[p].status]
          /\ IF DOMAIN req[p].saw = {} THEN UnchangedNeeds
             ELSE \E n \in DOMAIN req[p].saw : Writes(n, req[p].saw[n], Follows(p, n))
     ELSE UNCHANGED docVars
  /\ End(p) /\ UNCHANGED <<chainVars, used>>

-----------------------------------------------------------------------------
(* The required documents of the case.                                     *)

\* An administrator generates them for a case that has none.
Generate(p) ==
  /\ Rows = {}
  /\ Begin(p, [at |-> "generate", op |-> "generate"])
  /\ UNCHANGED <<chainVars, docVars>>

GenerateCommits(p) ==
  /\ At(p, "generate")
  /\ Unused # {} /\ needs' = [needs EXCEPT ![CHOOSE n \in Unused : TRUE] = Pending]
  /\ End(p) /\ UNCHANGED <<chainVars, docs, stale, used>>

\* The jurisdiction changes: its update holds the row of the case, so that changes
\* come one at a time.  Pending rows are read, then deleted by their key.
\* The new one may ask for the document: a row is made if none is left; two
\* rows that are left make the request fail.
Regenerate(p) ==
  /\ \A q \in Proc : ~At(q, "regenerate")
  /\ \E listed \in BOOLEAN :
       Begin(p, [at |-> "regenerate", op |-> "regenerate", listed |-> listed,
                 saw |-> [n \in {m \in Rows : needs[m].status = "pending"} |-> needs[n]]])
  /\ UNCHANGED <<chainVars, docVars>>

RegenerateCommits(p) ==
  /\ At(p, "regenerate")
  /\ LET gone == DOMAIN req[p].saw \cap Rows
         left == Rows \ gone
         kept == [n \in Need |-> IF n \in gone THEN Deleted ELSE needs[n]]
     IN
     IF req[p].listed /\ ~OneOrNone(left)
     THEN UNCHANGED docVars
     ELSE /\ IF req[p].listed /\ left = {}
             THEN /\ Unused # {}
                  /\ needs' = [kept EXCEPT ![CHOOSE n \in Unused : TRUE] = Pending]
             ELSE needs' = kept
          /\ stale' = stale \cup {n \in gone : needs[n] # req[p].saw[n]}
          /\ UNCHANGED docs
  /\ End(p) /\ UNCHANGED <<chainVars, used>>

DocNext ==
  \E p \in Proc : \/ Upload(p) \/ UploadToSession(p) \/ UploadCommits(p)
                  \/ Attach(p) \/ AttachEnds(p)
                  \/ Review(p) \/ Cancel(p) \/ CancelUpload(p) \/ UpdateDocument(p) \/ DocumentCommits(p)
                  \/ Generate(p) \/ GenerateCommits(p)
                  \/ Regenerate(p) \/ RegenerateCommits(p)
=============================================================================

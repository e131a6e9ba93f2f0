------------------------------- MODULE Notices ------------------------------
(***************************************************************************)
(* WhatsApp notices: app/notifications and the notice of a new case.       *)
(*                                                                         *)
(* Whoever processes the notices reads those that are pending and due,     *)
(* sends one after the other and marks each in the transaction of its      *)
(* request.  A mark holds the row until that transaction ends; a send is   *)
(* not undone by a rollback.                                               *)
(***************************************************************************)
EXTENDS Accounts

CONSTANTS
  Notice,
  MaxRetries  \* max_retries of every notice

ASSUME RetriesAssumption == MaxRetries \in Nat \ {0}

VARIABLES
  notices,  \* notifications, by notice
  sends     \* (history) how many messages WhatsApp took for a notice

noticeVars == <<notices, sends>>

NoNotice == [st |-> "none", tries |-> 0, by |-> NoUser, due |-> FALSE]
Pending(u, due) == [NoNotice EXCEPT !.st = "pending", !.by = u, !.due = due]
\* A request that processes notices; the rows its transaction has written.
Processes(p) == Serves(p, "process")
Marked(p) == IF Processes(p) THEN DOMAIN req[p].marks ELSE {}
Unused == {n \in Notice : notices[n].st = "none" /\ \A q \in Proc : n \notin Marked(q)}
Free(n) == (\A q \in Proc : n \notin Marked(q)) /\ ~Erasing(notices[n].by)

-----------------------------------------------------------------------------
(* Scheduling, rescheduling, cancelling.                                   *)

create_notification(p) ==
  /\ Room(Unused, "notify")
  /\ \E u \in User, due \in BOOLEAN : Request(p, "notice", u, "notify", {due})
  /\ UNCHANGED <<accountVars, history, noticeVars>>

NoticeCommits(p) ==
  /\ At(p, "notify")
  /\ \E due \in req[p].arg, n \in Inserted(Unused) :
       notices' = [notices EXCEPT ![n] = Pending(req[p].user, due)]
  /\ Cross(Late(p))
  /\ End(p) /\ UNCHANGED <<accountVars, spent, again, sends, used>>

\* Its time comes.
Due(n) ==
  /\ notices[n].st = "pending" /\ ~notices[n].due /\ Free(n)
  /\ notices' = [notices EXCEPT ![n].due = TRUE]
  /\ UNCHANGED <<accountVars, history, sends, req, used>>

\* Only a pending notice is rescheduled or cancelled, by the one who made it.
update_notification(p) ==
  /\ \E n \in Notice, u \in User, op \in {"later", "cancel"} :
       /\ notices[n].st = "pending" /\ notices[n].by = u
       /\ Request(p, "notice", u, op, {<<n, notices[n]>>})
  /\ UNCHANGED <<accountVars, history, noticeVars>>

Written(op, row) ==
  IF op = "later" THEN [row EXCEPT !.due = FALSE] ELSE [row EXCEPT !.st = "cancelled"]

UpdateCommits(p) ==
  /\ At(p, "later") \/ At(p, "cancel")
  /\ \E x \in req[p].arg :
       LET n == x[1]
       IN /\ Free(n)
          /\ IF notices[n].st = "deleted" THEN UNCHANGED <<notices, crossed>>
             ELSE /\ notices' = [notices EXCEPT ![n] = Written(req[p].op, @)]
                  /\ Cross(IF notices[n] # x[2] THEN {<<"notice", n>>} ELSE {})
  /\ End(p) /\ UNCHANGED <<accountVars, spent, again, sends, used>>

-----------------------------------------------------------------------------
(* Processing.                                                             *)

\* What the transaction sees, its own writes before the rows.
Seen(p, n) == IF n \in Marked(p) THEN req[p].marks[n] ELSE notices[n]

\* The marks with the one of n.
With(marks, n, row) == [m \in DOMAIN marks \cup {n} |-> IF m = n THEN row ELSE marks[m]]

PendingDue(row) == row.st = "pending" /\ row.due

\* An administrator processes all notices, once; the one who opens a case adds a
\* notice of it, and processes all notices once (a guest's) or twice (a client's).
process_notifications(p) ==
  /\ \E u \in User, mine \in {{}} \cup {{n} : n \in Inserted(Unused)}, passes \in {1, 2} :
       /\ Active(u) /\ (IF mine = {} THEN passes = 1 ELSE Room(Unused, "notify"))
       /\ Begin(p, {"notice"}, [at |-> "read", op |-> "process", saw |-> users[u],
                                user |-> IF mine = {} THEN NoUser ELSE u,
                                passes |-> passes, todo |-> {}, now |-> {}, sent |-> {},
                                marks |-> [n \in mine |-> Pending(u, TRUE)]])
  /\ UNCHANGED <<accountVars, history, noticeVars>>

get_pending_notifications(p) ==
  /\ At(p, "read")
  /\ LET todo == {n \in Notice : PendingDue(Seen(p, n))}
     IN req' = [req EXCEPT ![p] =
                  [req[p] EXCEPT !.at = "send", !.todo = {<<n, Seen(p, n)>> : n \in todo},
                                 !.passes = @ - 1]]
  /\ UNCHANGED <<accountVars, history, noticeVars, used>>

\* WhatsApp takes the message, refuses it, or takes it and the answer is lost.
Send(p) ==
  /\ At(p, "send")
  /\ \E x \in req[p].todo, answer \in {"taken", "refused", "lost"} :
       /\ IF answer = "taken" THEN UNCHANGED used ELSE Fault
       /\ sends' = IF answer = "refused" THEN sends ELSE [sends EXCEPT ![x[1]] = @ + 1]
       /\ Cross(IF answer = "lost" THEN {<<"notice", x[1]>>} ELSE {})
       /\ req' = [req EXCEPT ![p] =
                    [req[p] EXCEPT !.at = answer, !.todo = @ \ {x}, !.now = {x},
                                   !.sent = IF answer = "refused" THEN @ ELSE @ \cup {x}]]
  /\ UNCHANGED <<accountVars, spent, again, notices>>

\* Mutant: a notice that was taken keeps its status.
MutMarkOf(now, row, answer) == IF answer = "taken" THEN now ELSE [now EXCEPT !.tries = @ + 1]

\* Of the row as it is now, the columns are written that differ from the loaded one: the
\* status only when the message was taken or was refused for the last time.
MarkOf(now, row, answer) ==
  IF answer = "taken" THEN [now EXCEPT !.st = "sent"]
  ELSE [now EXCEPT !.tries = row.tries + 1,
                   !.st = IF row.tries + 1 >= MaxRetries THEN "failed" ELSE @]

\* The request is rolled back; what it had sent stays sent.
RolledBack(p) ==
  /\ Cross({<<"notice", x[1]>> : x \in req[p].sent})
  /\ End(p) /\ UNCHANGED notices

\* The row is written when nobody else holds it; a row that is gone makes the session
\* unusable, and the request fails.
Mark(p) ==
  /\ \E answer \in {"taken", "refused", "lost"} : At(p, answer)
  /\ \E x \in req[p].now :
       LET n == x[1]
       IN
       /\ n \in Marked(p) \/ Free(n)
       /\ IF Seen(p, n).st = "deleted" THEN RolledBack(p)
          ELSE /\ req' = [req EXCEPT ![p] =
                            [req[p] EXCEPT !.at = "send", !.now = {},
                                           !.marks = With(@, n, MarkOf(Seen(p, n), x[2], req[p].at))]]
               /\ Cross(IF Seen(p, n) # x[2] THEN {<<"notice", n>>} ELSE {})
               /\ UNCHANGED notices
  /\ UNCHANGED <<accountVars, spent, again, sends, used>>

Again(p) ==
  /\ At(p, "send") /\ req[p].todo = {} /\ req[p].passes > 0
  /\ Goto(p, "read")
  /\ UNCHANGED <<accountVars, history, noticeVars, used>>

ProcessCommits(p) ==
  /\ At(p, "send") /\ req[p].todo = {} /\ req[p].passes = 0
  /\ notices' = [n \in Notice |-> Seen(p, n)]
  /\ Cross(IF \E n \in Marked(p) : notices[n].st = "none" THEN Late(p) ELSE {})
  /\ End(p) /\ UNCHANGED <<accountVars, spent, again, sends, used>>

\* The process stops, or another step of the request fails.
ProcessFails(p) ==
  /\ Processes(p) /\ Fault
  /\ RolledBack(p)
  /\ UNCHANGED <<accountVars, spent, again, sends>>

EraseNotices(records) ==
  notices' = [n \in Notice |-> IF <<"notice", n>> \in records
                               THEN [NoNotice EXCEPT !.st = "deleted"] ELSE notices[n]]

-----------------------------------------------------------------------------
\* One notice that waits, or none.
NoticeInit ==
  /\ \E u \in {v \in User : Active(v)}, some \in {{}, {Fresh(Notice)}} :
       notices = [n \in Notice |-> IF n \in some /\ used.lane = "notice"
                                   THEN Pending(u, FALSE) ELSE NoNotice]
  /\ sends = [n \in Notice |-> 0]

NoticeStarts(p) ==
  create_notification(p) \/ update_notification(p) \/ process_notifications(p)

NoticeGoes(p) ==
  \/ NoticeCommits(p) \/ UpdateCommits(p)
  \/ get_pending_notifications(p) \/ Send(p) \/ Mark(p) \/ Again(p)
  \/ ProcessCommits(p) \/ ProcessFails(p)

NoticeNext ==
  \/ \E p \in Proc : NoticeStarts(p) \/ NoticeGoes(p)
  \/ \E n \in Notice : Due(n)
=============================================================================

----------------------------- MODULE AgentTurn -----------------------------
(***************************************************************************)
(* One chat session of the agent: app/agent/orchestrator.py, service.py,   *)
(* uploads.py, the message, session and upload endpoints of router.py, and *)
(* the tools that change the session's draft or its upload.                *)
(*                                                                         *)
(* A turn runs in the transaction of its request and holds the session's   *)
(* row from its first write to its end; a tool commits in a session of its *)
(* own.  Messages are ordered by the time they were made, which for a      *)
(* user's message is before the wait for the row.                          *)
(***************************************************************************)
EXTENDS Integers, Sequences, FiniteSets, FiniteSetsExt

CONSTANTS
  Request,              \* the messages the user sends
  NoRequest,
  Mark, Blank,          \* mark texts, and the empty one
  MAX_TOOL_ITERATIONS,
  MAX_HISTORY_MESSAGES,
  MAX_CONTEXT_CHARS,    \* in messages, each of which has the same size
  MaxParallel,          \* bound on the calls in one answer of the model
  Asked,                \* the calls the model may ask for
  MaxCalls,             \* bound on the calls of the model in all
  MaxTouches,           \* bound on what else the user does
  MaxAborts             \* bound on the requests that are cut off

ASSUME AgentAssumption ==
  /\ NoRequest \notin Request /\ Blank \notin Mark
  /\ MAX_TOOL_ITERATIONS \in Nat \ {0} /\ MAX_HISTORY_MESSAGES \in Nat \ {0}
  /\ MAX_CONTEXT_CHARS \in Nat \ {0}
  /\ MaxParallel \in Nat \ {0} /\ MaxCalls \in Nat
  /\ MaxTouches \in Nat /\ MaxAborts \in Nat

VARIABLES
  session, \* agent_session: title, tokens, deleted
  log,     \* agent_message, by created_at, with rows not committed yet
  draft,   \* case_draft of the session: mark and status
  upload,  \* agent_upload: status of the one upload, and whether its file exists
  pc,      \* per request: idle, waiting, turn, done or aborted
  view,    \* per request: the session row it has loaded
  lock,    \* the request that has written the session's row
  turn,    \* its loop: where it is, iteration, calls to run, calls run, tokens
  calls, touches, aborts,
  lost   \* the draft was last written by a turn that was cut off

vars == <<session, log, draft, upload, pc, view, lock, turn, calls, touches,
          aborts, lost>>

-----------------------------------------------------------------------------
\* What the model may call: "other" is a tool that changes nothing here, an
\* unknown one, or one that refuses its arguments.
Call == [tool : {"create_case_draft"}, mark : Mark \cup {Blank}]
        \cup [tool : {"trademark_search"}, mark : Mark \cup {Blank}]
        \cup [tool : {"prepare_payment", "validate_uploaded_document", "other"},
              mark : {Blank}]

ASSUME AskedAssumption == Asked \subseteq Call

Search(m) == [tool |-> "trademark_search", mark |-> m]

\* Rows of agent_message.  `said' tells whether a call comes with some text,
\* `call' and `id' what was called, and `fresh' whether a result is a new one.
Row == [by : Request \cup {NoRequest}, kind : {"user", "text", "call", "result"},
        id : Nat, call : Call, said : BOOLEAN, fresh : BOOLEAN]

Session == [title : {"none", "chosen", "generated"}, tokens : Nat, deleted : BOOLEAN]

NoCall == [tool |-> "other", mark |-> Blank]

Text(r, kind) == [by |-> r, kind |-> kind, id |-> 0, call |-> NoCall,
                  said |-> TRUE, fresh |-> FALSE]
CallRow(r, n, c, said) == [by |-> r, kind |-> "call", id |-> n, call |-> c,
                           said |-> said, fresh |-> FALSE]
ResultRow(r, n, c, fresh) == [by |-> r, kind |-> "result", id |-> n, call |-> c,
                              said |-> FALSE, fresh |-> fresh]

NoDraft == [mark |-> Blank, status |-> "none"]
NoTurn == [at |-> "model", iteration |-> 0, queue |-> <<>>, seen |-> {},
           ran |-> 0, tokens |-> 0]

Init ==
  /\ session = [title |-> "none", tokens |-> 0, deleted |-> FALSE]
  /\ log = <<>> /\ draft = NoDraft
  /\ \/ upload = [status |-> "none", file |-> FALSE]
     \/ upload = [status |-> "uploaded", file |-> TRUE]
  /\ pc = [r \in Request |-> "idle"]
  /\ view = [r \in Request |-> session]
  /\ lock = NoRequest /\ turn = NoTurn
  /\ calls = 0 /\ touches = 0 /\ aborts = 0
  /\ lost = FALSE

-----------------------------------------------------------------------------
\* The prompt of a turn.

\* The elements of a sequence at the indices in K, in their order.
Nth(K, n) == CHOOSE i \in K : Cardinality({j \in K : j < i}) = n - 1
Selected(seq, K) == [n \in 1 .. Cardinality(K) |-> seq[Nth(K, n)]]

Visible(r, row) == row.by \in {r, NoRequest} \/ pc[row.by] = "done"

SeenRows(r) == Selected(log, {i \in 1 .. Len(log) : Visible(r, log[i])})

\* Mutant: the oldest messages, not the newest.
Mut_load_history(r) ==
  LET rows == SeenRows(r)
  IN  SubSeq(rows, 1, Min({Len(rows), MAX_HISTORY_MESSAGES}))

_load_history(r) ==
  LET rows == SeenRows(r)
  IN  SubSeq(rows, Max({1, Len(rows) - MAX_HISTORY_MESSAGES + 1}), Len(rows))

\* Row i is a call and the next row is its result.
is_paired(rows, i) ==
  /\ i \in 1 .. Len(rows) - 1
  /\ rows[i].kind = "call" /\ rows[i + 1].kind = "result"
  /\ rows[i].by = rows[i + 1].by /\ rows[i].id = rows[i + 1].id

\* A call without its result keeps its text only, a result without its call
\* is left out.
Kept(rows) ==
  {i \in 1 .. Len(rows) :
     \/ rows[i].kind \in {"user", "text"}
     \/ rows[i].kind = "call" /\ (is_paired(rows, i) \/ rows[i].said)
     \/ rows[i].kind = "result" /\ is_paired(rows, i - 1)}

Shown(rows, i) ==
  IF rows[i].kind = "call" /\ ~ is_paired(rows, i)
  THEN [rows[i] EXCEPT !.kind = "text"] ELSE rows[i]

paired(rows) == Selected([i \in 1 .. Len(rows) |-> Shown(rows, i)], Kept(rows))

\* Mutant: a call may go without its result.
MutCuts(msgs) == 0 .. Len(msgs)

\* How many messages may be dropped: a call goes with its result, and the last
\* message of the user stays.
Cuts(msgs) ==
  LET Users == {i \in 1 .. Len(msgs) : msgs[i].kind = "user"}
      drop_limit == IF Users = {} THEN 0
                    ELSE Max(Users) - 1
  IN  {n \in 0 .. drop_limit : n < Len(msgs) => msgs[n + 1].kind # "result"}

_to_llm_messages(rows) ==
  LET msgs == paired(rows)
      fitting == {n \in Cuts(msgs) : Len(msgs) - n <= MAX_CONTEXT_CHARS}
      start == IF fitting = {} THEN Max(Cuts(msgs)) ELSE Min(fitting)
  IN  SubSeq(msgs, start + 1, Len(msgs))

Prompt(r) == _to_llm_messages(_load_history(r))

-----------------------------------------------------------------------------
\* The session's row.

Touch == touches < MaxTouches /\ touches' = touches + 1

\* A message arrives: the session is loaded, the message made and stamped.
Send(r) ==
  /\ pc[r] = "idle" /\ ~ session.deleted
  /\ pc' = [pc EXCEPT ![r] = "waiting"]
  /\ view' = [view EXCEPT ![r] = session]
  /\ log' = Append(log, Text(r, "user"))
  /\ UNCHANGED <<session, draft, upload, lock, turn, calls, touches, aborts, lost>>

\* The flush of last_activity_at gets the row.
append_user_message(r) ==
  /\ pc[r] = "waiting" /\ lock = NoRequest
  /\ pc' = [pc EXCEPT ![r] = "turn"]
  /\ lock' = r
  /\ UNCHANGED <<session, log, draft, upload, view, turn, calls, touches, aborts, lost>>

rename_session ==
  /\ Touch
  /\ lock = NoRequest /\ ~ session.deleted
  /\ session' = [session EXCEPT !.title = "chosen"]
  /\ UNCHANGED <<log, draft, upload, pc, view, lock, turn, calls, aborts, lost>>

soft_delete_session ==
  /\ Touch
  /\ lock = NoRequest /\ ~ session.deleted
  /\ session' = [session EXCEPT !.deleted = TRUE]
  /\ UNCHANGED <<log, draft, upload, pc, view, lock, turn, calls, aborts, lost>>

-----------------------------------------------------------------------------
\* The loop of a turn.

Working(at) == lock # NoRequest /\ turn.at = at

frame == UNCHANGED <<session, pc, view, lock, touches, aborts>>

\* The model fails, answers with a text, or asks for tools.
AskModel ==
  /\ Working("model") /\ turn.iteration < MAX_TOOL_ITERATIONS
  /\ \/ /\ log' = Append(log, Text(lock, "text"))
        /\ turn' = [turn EXCEPT !.at = "reply"]
        /\ UNCHANGED calls
     \/ /\ log' = Append(log, Text(lock, "text"))
        /\ turn' = [turn EXCEPT !.at = "reply", !.tokens = @ + 1]
        /\ UNCHANGED calls
     \/ \E n \in 1 .. MaxParallel : \E queue \in [1 .. n -> Asked] :
        /\ calls + n <= MaxCalls /\ calls' = calls + n
        /\ turn' = [turn EXCEPT !.at = "call", !.iteration = @ + 1,
                                !.queue = queue, !.tokens = @ + 1]
        /\ UNCHANGED log
  /\ UNCHANGED <<draft, upload, lost>> /\ frame

\* MAX_TOOL_ITERATIONS is reached: a message says so.
Exhausted ==
  /\ Working("model") /\ turn.iteration = MAX_TOOL_ITERATIONS
  /\ log' = Append(log, Text(lock, "text"))
  /\ turn' = [turn EXCEPT !.at = "reply"]
  /\ UNCHANGED <<draft, upload, calls, lost>> /\ frame

PersistCall ==
  /\ Working("call")
  /\ log' = Append(log, CallRow(lock, turn.ran + 1, Head(turn.queue), TRUE))
  /\ turn' = [turn EXCEPT !.at = "tool", !.ran = @ + 1]
  /\ UNCHANGED <<draft, upload, calls, lost>> /\ frame

\* Where the loop goes after the result of a call.
Next_at(queue) == IF queue = <<>> THEN "model" ELSE "call"

\* The result of the first call of the queue is persisted; `seen' keeps the
\* calls whose result this turn knows.
Result(c, fresh) ==
  /\ log' = Append(log, ResultRow(lock, turn.ran, c, fresh))
  /\ turn' = [turn EXCEPT !.queue = Tail(@), !.seen = @ \cup {c},
                          !.at = Next_at(Tail(turn.queue))]

Duplicate ==
  /\ Working("tool") /\ Head(turn.queue) \in turn.seen
  /\ Result(Head(turn.queue), FALSE)
  /\ UNCHANGED <<draft, upload, calls, lost>> /\ frame

Runs(tool) ==
  /\ Working("tool") /\ Head(turn.queue) \notin turn.seen
  /\ Head(turn.queue).tool = tool

\* Mutant: a draft that exists is left alone.
MutUpsert(c) ==
  IF draft # NoDraft THEN draft
  ELSE [mark |-> c.mark, status |-> IF c.mark # Blank THEN "validated" ELSE "collecting"]

\* The draft is made or overwritten, whatever its status; it is validated when
\* every slot is filled, the mark among them.
Upsert(c) ==
  [mark |-> c.mark,
   status |-> IF c.mark # Blank THEN "validated"
              ELSE IF draft = NoDraft THEN "collecting" ELSE draft.status]

\* A validated draft has its mark searched, once in a turn.
Chained(c) ==
  draft'.status = "validated" /\ Search(c.mark) \notin turn.seen

create_case_draft ==
  LET c == Head(turn.queue) IN
  /\ Runs("create_case_draft")
  /\ draft' = Upsert(c)
  /\ log' = Append(log, ResultRow(lock, turn.ran, c, TRUE))
  /\ turn' = [turn EXCEPT !.queue = Tail(@), !.seen = @ \cup {c},
                          !.at = IF Chained(c) THEN "chain"
                                 ELSE Next_at(Tail(turn.queue))]
  /\ lost' = FALSE
  /\ UNCHANGED <<upload, calls>> /\ frame

\* The chained call, and its result.
PersistChain ==
  /\ Working("chain")
  /\ log' = Append(log, CallRow(lock, turn.ran + 1, Search(draft.mark), FALSE))
  /\ turn' = [turn EXCEPT !.at = "search", !.ran = @ + 1]
  /\ UNCHANGED <<draft, upload, calls, lost>> /\ frame

ChainResult ==
  /\ Working("search")
  /\ log' = Append(log, ResultRow(lock, turn.ran, Search(draft.mark), TRUE))
  /\ turn' = [turn EXCEPT !.seen = @ \cup {Search(draft.mark)},
                          !.at = Next_at(turn.queue)]
  /\ UNCHANGED <<draft, upload, calls, lost>> /\ frame

\* Only a validated draft, or one that was prepared before, awaits payment.
prepare_payment ==
  /\ Runs("prepare_payment")
  /\ draft' = IF draft.status \in {"validated", "awaiting_payment"}
              THEN [draft EXCEPT !.status = "awaiting_payment"] ELSE draft
  /\ Result(Head(turn.queue), TRUE)
  /\ UNCHANGED <<upload, calls, lost>> /\ frame

\* A tool that only reads, or refuses: the search among them.
OtherTool ==
  /\ Runs("trademark_search") \/ Runs("other")
  /\ Result(Head(turn.queue), TRUE)
  /\ UNCHANGED <<draft, upload, calls, lost>> /\ frame

\* An upload that can be looked at.
Usable == upload.status \notin {"none", "cancelled"} /\ upload.file

\* The upload is loaded and its file handed to the vision model, or refused.
validate_uploaded_document ==
  /\ Runs("validate_uploaded_document")
  /\ IF Usable THEN turn' = [turn EXCEPT !.at = "vision"] /\ UNCHANGED log
     ELSE Result(Head(turn.queue), TRUE)
  /\ UNCHANGED <<draft, upload, calls, lost>> /\ frame

\* The model's verdict is written, whatever has become of the upload.
mark_validated ==
  /\ Working("vision")
  /\ \/ UNCHANGED upload
     \/ \E verdict \in {"validated", "rejected"} :
          upload' = [upload EXCEPT !.status = verdict]
  /\ Result(Head(turn.queue), TRUE)
  /\ UNCHANGED <<draft, calls, lost>> /\ frame

\* The session is named if it had no name when it was loaded, and the
\* request commits what it has changed of the row.
Commit(own, name) ==
  session' = [session EXCEPT
    !.title = name,
    !.tokens = IF own = 0 THEN @ ELSE view[lock].tokens + own]

needs_title == view[lock].title = "none"

Reply ==
  /\ Working("reply")
  /\ \/ Commit(turn.tokens, session.title)
     \/ /\ needs_title
        /\ Commit(turn.tokens + 1, "generated")
  /\ pc' = [pc EXCEPT ![lock] = "done"]
  /\ lock' = NoRequest /\ turn' = NoTurn
  /\ UNCHANGED <<log, draft, upload, view, calls, touches, aborts, lost>>

\* Mutant: the row stays locked.
MutAbort(r) ==
  /\ pc[r] \in {"waiting", "turn"} /\ aborts < MaxAborts
  /\ aborts' = aborts + 1
  /\ log' = Selected(log, {i \in 1 .. Len(log) : log[i].by # r})
  /\ pc' = [pc EXCEPT ![r] = "aborted"]
  /\ turn' = IF lock = r THEN [turn EXCEPT !.at = "gone"] ELSE turn
  /\ UNCHANGED <<session, draft, upload, view, lock, calls, touches, lost>>

\* The request fails or its process dies: its rows go, what its tools have
\* committed stays.
Abort(r) ==
  /\ pc[r] \in {"waiting", "turn"} /\ aborts < MaxAborts
  /\ aborts' = aborts + 1
  /\ log' = Selected(log, {i \in 1 .. Len(log) : log[i].by # r})
  /\ pc' = [pc EXCEPT ![r] = "aborted"]
  /\ IF lock = r THEN lock' = NoRequest /\ turn' = NoTurn ELSE UNCHANGED <<lock, turn>>
  /\ lost' = (lost \/ \E i \in 1 .. Len(log) :
                /\ log[i].by = r /\ log[i].kind = "result" /\ log[i].fresh
                /\ log[i].call.tool = "create_case_draft")
  /\ UNCHANGED <<session, draft, upload, view, calls, touches>>

-----------------------------------------------------------------------------
\* What others do to the session's chat, draft and upload.

\* A payment is confirmed in a transaction of its own (see FilingPayment):
\* the draft goes on to be filed, and the chat is told.
_push_chat_confirmation ==
  /\ draft.status = "awaiting_payment"
  /\ draft' = [draft EXCEPT !.status = "paid"]
  /\ log' = Append(log, Text(NoRequest, "text"))
  /\ UNCHANGED <<session, upload, pc, view, lock, turn, calls, touches, aborts, lost>>

store_upload ==
  /\ Touch
  /\ upload.status = "none" /\ ~ session.deleted
  /\ upload' = [status |-> "uploaded", file |-> TRUE]
  /\ UNCHANGED <<session, log, draft, pc, view, lock, turn, calls, aborts, lost>>

\* The file is removed before the row is written, which may fail.
cancel_upload ==
  /\ Touch
  /\ upload.status \notin {"none", "cancelled"}
  /\ \/ /\ upload' = [status |-> "cancelled", file |-> FALSE]
        /\ UNCHANGED aborts
     \/ /\ aborts < MaxAborts /\ aborts' = aborts + 1
        /\ upload' = [upload EXCEPT !.file = FALSE]
  /\ UNCHANGED <<session, log, draft, pc, view, lock, turn, calls, lost>>

Next ==
  \/ \E r \in Request : Send(r) \/ append_user_message(r) \/ Abort(r)
  \/ AskModel \/ Exhausted \/ PersistCall \/ Duplicate
  \/ create_case_draft \/ PersistChain \/ ChainResult
  \/ prepare_payment \/ OtherTool \/ validate_uploaded_document \/ mark_validated
  \/ Reply
  \/ rename_session \/ soft_delete_session
  \/ _push_chat_confirmation \/ store_upload \/ cancel_upload

Spec == Init /\ [][Next]_vars

\* The event loop goes on with every request; the model and the tools answer
\* or time out.
Turn == AskModel \/ Exhausted \/ PersistCall \/ Duplicate \/ create_case_draft
        \/ PersistChain \/ ChainResult \/ prepare_payment
        \/ OtherTool \/ validate_uploaded_document \/ mark_validated \/ Reply

FairSpec ==
  /\ Spec /\ WF_vars(Turn)
  /\ \A r \in Request : WF_vars(append_user_message(r))

-----------------------------------------------------------------------------
\* The state is well typed.
TypeOK ==
  /\ session \in Session
  /\ log \in Seq(Row)
  /\ draft \in [mark : Mark \cup {Blank},
                status : {"none", "collecting", "validated", "awaiting_payment", "paid"}]
  /\ upload \in [status : {"none", "uploaded", "validated", "rejected", "cancelled"},
                 file : BOOLEAN]
  /\ pc \in [Request -> {"idle", "waiting", "turn", "done", "aborted"}]
  /\ lock \in Request \cup {NoRequest}
  /\ \A r \in Request : pc[r] = "turn" <=> lock = r
  /\ view \in [Request -> Session]
  /\ turn \in [at : {"model", "call", "tool", "chain", "search", "vision", "reply"},
               iteration : 0 .. MAX_TOOL_ITERATIONS, queue : Seq(Call),
               seen : SUBSET Call, ran : Nat, tokens : Nat]
  /\ calls \in Nat /\ touches \in Nat /\ aborts \in Nat /\ lost \in BOOLEAN

\* In a prompt a call is followed by its result and a result preceded by its
\* call, whatever rows came in between, were lost or fell out of the window:
\* the model's API refuses anything else.
PromptIsPaired ==
  Working("model") =>
    LET P == Prompt(lock) IN
    \A i \in 1 .. Len(P) :
      /\ P[i].kind = "call" => is_paired(P, i)
      /\ P[i].kind = "result" => is_paired(P, i - 1)

\* While no other message was sent and no payment was confirmed during a turn,
\* the model sees the message that it answers and every result it has asked
\* for, as long as they are within the newest MAX_HISTORY_MESSAGES rows.
TurnIsRemembered ==
  Working("model") =>
    LET P == Prompt(lock)
        rows == SeenRows(lock)
        first == CHOOSE i \in 1 .. Len(rows) : rows[i] = Text(lock, "user")
        own == {i \in first .. Len(rows) : rows[i].by = lock}
    IN  (first .. Len(rows) = own /\ Cardinality(own) <= MAX_HISTORY_MESSAGES) =>
          \A i \in own : \E j \in 1 .. Len(P) : P[j] = rows[i]

\* The draft is the one that the last new result of create_case_draft in the
\* chat has shown to the model, but for a turn that was cut off.
DraftIsAsShown ==
  LET shown == {i \in 1 .. Len(log) : /\ log[i].kind = "result" /\ log[i].fresh
                                     /\ log[i].call.tool = "create_case_draft"}
  IN  ~ lost => IF shown = {} THEN draft = NoDraft
                ELSE draft.mark = log[Max(shown)].call.mark

\* Every message is answered, or its request cut off.
MessageIsAnswered ==
  \A r \in Request : pc[r] = "waiting" ~> pc[r] \in {"done", "aborted"}

-----------------------------------------------------------------------------
\* What the code does not keep.

\* "force a trademark_search BEFORE the user is asked to pay" (orchestrator.py):
\* a draft that waits for its payment, or is paid, has had its mark searched in
\* a turn the chat still shows.
DraftWasSearched ==
  draft.status \in {"awaiting_payment", "paid"} =>
    \E i \in 1 .. Len(log) :
      log[i].kind = "result" /\ log[i].call = Search(draft.mark)
=============================================================================

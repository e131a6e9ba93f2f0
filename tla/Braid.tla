------------------------------- MODULE Braid -------------------------------
(***************************************************************************)
(* The BRAID audit of the API's own flows: app/braid/hooks.py, internal.py *)
(* and learning.py, the flows that call a hook in the middle of their own  *)
(* transaction, and the feedback endpoint of app/braid/admin_router.py.    *)
(*                                                                         *)
(* A hook counts its call against one budget row, looks at the weight of   *)
(* its capability, calls the capability, and records decision and weight,  *)
(* all in the transaction of the request it serves.  What a transaction    *)
(* wrote is seen by the others when it commits; a row it wrote is locked   *)
(* until then.  Weights are log-odds in thousandths.                       *)
(***************************************************************************)
EXTENDS Integers, FiniteSets

CONSTANTS
  Proc,              \* requests in flight at a time
  NoRow,
  DailyCallBudget,   \* daily_call_budget
  PressureTenths,    \* pressure_threshold, in tenths
  SkipThreshold,     \* log-odds of skip_threshold
  WeightFloor, WeightCeiling, \* log-odds of the columns of these names
  Started,           \* the flows that requests start
  MaxDays,           \* bound on the expiries of the budget window
  MaxRequests,       \* bound on the requests
  MaxGrades,         \* bound on the feedback requests
  MaxAborts          \* bound on the requests that fail for a reason of their own

Flow == {"case", "proposal", "submission", "eutm"}  \* flows that call a hook

ASSUME BraidAssumption ==
  /\ NoRow \notin [used : Int, skipped : Int, day : Int]
  /\ NoRow \notin [weight : Int, successes : Int, failures : Int]
  /\ Started \subseteq Flow
  /\ DailyCallBudget \in Nat /\ PressureTenths \in Nat /\ SkipThreshold \in Int
  /\ WeightFloor \in Int /\ WeightCeiling \in Int
  /\ WeightFloor <= 0 /\ 0 <= WeightCeiling
  /\ MaxDays \in Nat /\ MaxRequests \in Nat /\ MaxGrades \in Nat /\ MaxAborts \in Nat

VARIABLES
  budget,    \* braid_budget_state: the row each request has created
  weights,   \* braid_capability_weights
  decisions, \* braid_decisions: their number, per capability and outcome
  feedback,  \* braid_calibration_events: per capability and grade
  records,   \* rows of the flows: cases, proposals, submissions, applications
  tx,        \* per request: what its transaction has written
  pc, op,    \* per request: where it is, and in which flow
  seen,      \* per request: the budget row and the weight row it has loaded
  outcome,   \* per request: what the gate or the capability has answered
  today, requests, grades, aborts,
  overlapped \* capabilities graded while a request was using or grading them

tables == <<budget, weights, decisions, feedback, records>>
local  == <<pc, op, seen, outcome>>
bounds == <<today, requests, grades, aborts>>
vars == <<tables, tx, local, bounds, overlapped>>

-----------------------------------------------------------------------------
Capability == {"validate_nice_classification", "score_document_completeness",
               "check_trademark_conflict"}
Outcome == {"ok", "error", "skipped"}
BudgetRow == [used : Nat, skipped : Nat, day : Nat]
WeightRow == [weight : WeightFloor .. WeightCeiling, successes : Nat, failures : Nat]

LOG_UPDATE_CLAMP == 2000

_clamp(value, low, high) ==
  IF value < low THEN low ELSE IF value > high THEN high ELSE value

_bayesian_step(current_weight, success) ==
  current_weight + _clamp(IF success THEN 500 ELSE -500,
                          -LOG_UPDATE_CLAMP, LOG_UPDATE_CLAMP)

\* What a handler may answer.  Two of the three turn what goes wrong into an
\* ordinary answer.
validate_nice_classification == {"ok", "error"}
score_document_completeness == {"ok"}
check_trademark_conflict == {"ok"}

Answers(c) ==
  CASE c = "validate_nice_classification" -> validate_nice_classification
    [] c = "score_document_completeness" -> score_document_completeness
    [] c = "check_trademark_conflict" -> check_trademark_conflict

\* The capability that the hook of each flow calls.
CapabilityOf(f) ==
  CASE f = "case" -> "validate_nice_classification"
    [] f = "proposal" -> "score_document_completeness"
    [] f \in {"submission", "eutm"} -> "check_trademark_conflict"

\* The record of these flows is there for good before the hook is called: the
\* case is committed, the application is filed at the office.
Durable == {"case", "eutm"}

Idle == "idle"

NoWrites == [budget |-> [q \in Proc |-> NoRow],
             weights |-> [c \in Capability |-> NoRow],
             decisions |-> [c \in Capability |-> [o \in Outcome |-> 0]],
             feedback |-> [c \in Capability |-> [g \in {"ok", "error"} |-> 0]],
             records |-> [f \in Flow |-> 0]]

FreshBudget == [used |-> 0, skipped |-> 0, day |-> 0]

\* The dashboard may have been opened: it makes the budget row as a call does.
Init ==
  /\ \/ budget = NoWrites.budget
     \/ budget = [NoWrites.budget EXCEPT ![CHOOSE p \in Proc : TRUE] = FreshBudget]
  /\ weights = NoWrites.weights
  /\ decisions = NoWrites.decisions /\ feedback = NoWrites.feedback
  /\ records = NoWrites.records
  /\ tx = [p \in Proc |-> NoWrites]
  /\ pc = [p \in Proc |-> Idle]
  /\ op = [p \in Proc |-> [kind |-> Idle, cap |-> NoRow]]
  /\ seen = [p \in Proc |-> [budget |-> NoRow, weight |-> NoRow]]
  /\ outcome = [p \in Proc |-> "none"]
  /\ today = 0 /\ requests = 0 /\ grades = 0 /\ aborts = 0
  /\ overlapped = {}

\* What a SELECT of p finds.
BudgetOf(p, r) == IF tx[p].budget[r] # NoRow THEN tx[p].budget[r] ELSE budget[r]
WeightOf(p) ==
  LET c == op[p].cap IN IF tx[p].weights[c] # NoRow THEN tx[p].weights[c] ELSE weights[c]

\* What an UPDATE of p, or an INSERT of the same capability, has to wait for.
HasBudget(q, r) == tx[q].budget[r] # NoRow
HasWeight(q, c) == tx[q].weights[c] # NoRow
BudgetFree(p, r) == \A q \in Proc \ {p} : ~ HasBudget(q, r)
WeightFree(p) == \A q \in Proc \ {p} : ~ HasWeight(q, op[p].cap)

Goto(p, label) == pc' = [pc EXCEPT ![p] = label]

InUse(c) == \E q \in Proc : pc[q] # Idle /\ (op[q].cap = c \/ HasWeight(q, c))
InGrading(c) == \E q \in Proc : pc[q] # Idle /\ op[q] = [kind |-> "feedback", cap |-> c]

-----------------------------------------------------------------------------
\* The requests.

\* The flow calls its hook; its record is durable or waits for the commit.
Hook(p, f) ==
  LET c == CapabilityOf(f) IN
  /\ op' = [op EXCEPT ![p] = [kind |-> f, cap |-> c]]
  /\ outcome' = [outcome EXCEPT ![p] = "none"]
  /\ overlapped' = overlapped \cup (IF InGrading(c) THEN {c} ELSE {})
  /\ IF f \in Durable
     THEN records' = [records EXCEPT ![f] = @ + 1] /\ UNCHANGED tx
     ELSE tx' = [tx EXCEPT ![p].records[f] = @ + 1] /\ UNCHANGED records
  /\ Goto(p, "budget")
  /\ UNCHANGED <<budget, weights, decisions, feedback, seen>>

Begin(p, f) ==
  /\ pc[p] = Idle
  /\ requests < MaxRequests /\ requests' = requests + 1
  /\ Hook(p, f)
  /\ UNCHANGED <<today, grades, aborts>>

\* A case with classes and a jurisdiction gets a proposal in the same request.
AutoProposal(p) ==
  /\ pc[p] = "return" /\ op[p].kind = "case"
  /\ Hook(p, "proposal")
  /\ UNCHANGED bounds

\* An administrator grades a decision: one of these, or one that the external
\* agent has recorded, of which every capability may have some.
record_feedback(p, c, grade) ==
  /\ pc[p] = Idle
  /\ grades < MaxGrades /\ grades' = grades + 1
  /\ op' = [op EXCEPT ![p] = [kind |-> "feedback", cap |-> c]]
  /\ outcome' = [outcome EXCEPT ![p] = grade]
  /\ tx' = [tx EXCEPT ![p].feedback[c][grade] = @ + 1]
  /\ overlapped' = overlapped \cup (IF InUse(c) THEN {c} ELSE {})
  /\ Goto(p, "weight")
  /\ UNCHANGED <<tables, seen, today, requests, aborts>>

-----------------------------------------------------------------------------
\* consume_budget.

\* No row is in sight: the first request makes one.
CreateBudget(p) ==
  /\ pc[p] = "budget"
  /\ \A r \in Proc : BudgetOf(p, r) = NoRow
  /\ LET row == [FreshBudget EXCEPT !.day = today] IN
     /\ tx' = [tx EXCEPT ![p].budget[p] = row]
     /\ seen' = [seen EXCEPT ![p].budget = [id |-> p, row |-> row]]
  /\ Goto(p, "weight")
  /\ UNCHANGED <<tables, op, outcome, bounds, overlapped>>

\* LIMIT 1 takes any row.
LoadBudget(p) ==
  /\ pc[p] = "budget"
  /\ \E r \in Proc :
       /\ BudgetOf(p, r) # NoRow
       /\ seen' = [seen EXCEPT ![p].budget = [id |-> r, row |-> BudgetOf(p, r)]]
       /\ Goto(p, IF BudgetOf(p, r).day < today THEN "roll" ELSE "weight")
  /\ UNCHANGED <<tables, tx, op, outcome, bounds, overlapped>>

\* An UPDATE writes the columns that differ from what was loaded.
RollWindow(p) ==
  LET b == seen[p].budget
      now == BudgetOf(p, b.id)
      row == [used |-> IF b.row.used # 0 THEN 0 ELSE now.used,
              skipped |-> IF b.row.skipped # 0 THEN 0 ELSE now.skipped,
              day |-> today]
  IN
  /\ pc[p] = "roll" /\ BudgetFree(p, b.id)
  /\ tx' = [tx EXCEPT ![p].budget[b.id] = row]
  /\ seen' = [seen EXCEPT ![p].budget.row = [used |-> 0, skipped |-> 0, day |-> today]]
  /\ Goto(p, "weight")
  /\ UNCHANGED <<tables, op, outcome, bounds, overlapped>>

AfterWeight(p) == IF op[p].kind = "feedback" THEN "learn" ELSE "consume"

\* _get_or_create_weight, in the gate and for a grade.
LoadWeight(p) ==
  /\ pc[p] = "weight"
  /\ seen' = [seen EXCEPT ![p].weight = WeightOf(p)]
  /\ Goto(p, IF WeightOf(p) = NoRow THEN "insert" ELSE AfterWeight(p))
  /\ UNCHANGED <<tables, tx, op, outcome, bounds, overlapped>>

InsertWeight(p) ==
  LET row == [weight |-> 0, successes |-> 0, failures |-> 0] IN
  /\ pc[p] = "insert" /\ WeightFree(p) /\ WeightOf(p) = NoRow
  /\ tx' = [tx EXCEPT ![p].weights[op[p].cap] = row]
  /\ seen' = [seen EXCEPT ![p].weight = row]
  /\ Goto(p, AfterWeight(p))
  /\ UNCHANGED <<tables, op, outcome, bounds, overlapped>>

UnderPressure(row) ==
  DailyCallBudget = 0 \/ 10 * row.used >= PressureTenths * DailyCallBudget

Allowed(row, weight) ==
  /\ row.used < DailyCallBudget
  /\ ~ (UnderPressure(row) /\ weight.weight < SkipThreshold)

\* Mutant: an allowed call is counted in memory only.
MutConsumeUnflushed(p) ==
  LET b == seen[p].budget
      now == BudgetOf(p, b.id)
      allowed == Allowed(b.row, seen[p].weight)
  IN
  /\ pc[p] = "consume" /\ BudgetFree(p, b.id)
  /\ IF allowed THEN UNCHANGED tx
     ELSE tx' = [tx EXCEPT ![p].budget[b.id] = [now EXCEPT !.skipped = b.row.skipped + 1]]
  /\ outcome' = [outcome EXCEPT ![p] = IF allowed THEN "none" ELSE "skipped"]
  /\ Goto(p, IF allowed THEN "handler" ELSE "audit")
  /\ UNCHANGED <<tables, op, seen, bounds, overlapped>>

\* Mutant: a refused call leaves no decision.
MutConsumeSilent(p) ==
  LET b == seen[p].budget
      now == BudgetOf(p, b.id)
      allowed == Allowed(b.row, seen[p].weight)
  IN
  /\ pc[p] = "consume" /\ BudgetFree(p, b.id)
  /\ tx' = [tx EXCEPT ![p].budget[b.id] =
              IF allowed THEN [now EXCEPT !.used = b.row.used + 1]
                         ELSE [now EXCEPT !.skipped = b.row.skipped + 1]]
  /\ outcome' = [outcome EXCEPT ![p] = IF allowed THEN "none" ELSE "skipped"]
  /\ Goto(p, IF allowed THEN "handler" ELSE "return")
  /\ UNCHANGED <<tables, op, seen, bounds, overlapped>>

consume_budget(p) ==
  LET b == seen[p].budget
      now == BudgetOf(p, b.id)
      allowed == Allowed(b.row, seen[p].weight)
  IN
  /\ pc[p] = "consume" /\ BudgetFree(p, b.id)
  /\ tx' = [tx EXCEPT ![p].budget[b.id] =
              IF allowed THEN [now EXCEPT !.used = b.row.used + 1]
                         ELSE [now EXCEPT !.skipped = b.row.skipped + 1]]
  /\ outcome' = [outcome EXCEPT ![p] = IF allowed THEN "none" ELSE "skipped"]
  /\ Goto(p, IF allowed THEN "handler" ELSE "audit")
  /\ UNCHANGED <<tables, op, seen, bounds, overlapped>>

-----------------------------------------------------------------------------
\* call_capability, once the gate is open, and _audit.

Handler(p) ==
  /\ pc[p] = "handler"
  /\ \E o \in Answers(op[p].cap) : outcome' = [outcome EXCEPT ![p] = o]
  /\ Goto(p, "audit")
  /\ UNCHANGED <<tables, tx, op, seen, bounds, overlapped>>

\* The decision is inserted and the weight is loaded, anew.
_audit(p) ==
  /\ pc[p] = "audit"
  /\ tx' = [tx EXCEPT ![p].decisions[op[p].cap][outcome[p]] = @ + 1]
  /\ seen' = [seen EXCEPT ![p] = [budget |-> NoRow, weight |-> WeightOf(p)]]
  /\ Goto(p, "learn")
  /\ UNCHANGED <<tables, op, outcome, bounds, overlapped>>

\* Mutant: a call that failed teaches nothing.
MutUpdateWeight(p) ==
  LET row == seen[p].weight
      weight == _clamp(_bayesian_step(row.weight, TRUE), WeightFloor, WeightCeiling)
  IN
  /\ pc[p] = "learn" /\ WeightFree(p)
  /\ IF outcome[p] # "ok" THEN UNCHANGED tx
     ELSE tx' = [tx EXCEPT ![p].weights[op[p].cap] =
                   [row EXCEPT !.weight = weight, !.successes = @ + 1]]
  /\ seen' = [seen EXCEPT ![p].weight = NoRow]
  /\ Goto(p, "return")
  /\ UNCHANGED <<tables, op, outcome, bounds, overlapped>>

update_weight_from_outcome(p) ==
  LET success == outcome[p] = "ok"
      row == seen[p].weight
      weight == _clamp(_bayesian_step(row.weight, success), WeightFloor, WeightCeiling)
      now == WeightOf(p)
  IN
  /\ pc[p] = "learn" /\ WeightFree(p)
  /\ tx' = [tx EXCEPT ![p].weights[op[p].cap] =
       [weight |-> IF weight # row.weight THEN weight ELSE now.weight,
        successes |-> IF success THEN row.successes + 1 ELSE now.successes,
        failures |-> IF success THEN now.failures ELSE row.failures + 1]]
  /\ seen' = [seen EXCEPT ![p].weight = NoRow]
  /\ Goto(p, "return")
  /\ UNCHANGED <<tables, op, outcome, bounds, overlapped>>

-----------------------------------------------------------------------------
\* The end of the request's transaction.

\* The request is over, and its uncommitted writes are gone.
Leave(p) ==
  /\ tx' = [tx EXCEPT ![p] = NoWrites]
  /\ op' = [op EXCEPT ![p] = [kind |-> Idle, cap |-> NoRow]]
  /\ seen' = [seen EXCEPT ![p] = [budget |-> NoRow, weight |-> NoRow]]
  /\ outcome' = [outcome EXCEPT ![p] = "none"]
  /\ Goto(p, Idle)

Commit(p) ==
  /\ pc[p] = "return"
  /\ budget' = [r \in Proc |-> BudgetOf(p, r)]
  /\ weights' = [c \in Capability |->
                   IF HasWeight(p, c) THEN tx[p].weights[c] ELSE weights[c]]
  /\ decisions' = [c \in Capability |->
                     [o \in Outcome |-> decisions[c][o] + tx[p].decisions[c][o]]]
  /\ feedback' = [c \in Capability |->
                    [g \in {"ok", "error"} |-> feedback[c][g] + tx[p].feedback[c][g]]]
  /\ records' = [f \in Flow |-> records[f] + tx[p].records[f]]
  /\ Leave(p)
  /\ UNCHANGED <<bounds, overlapped>>

\* A statement failed: the database transaction is rolled back, and the
\* session refuses everything until the request gives up.
Poison(p) ==
  /\ tx' = [tx EXCEPT ![p] = NoWrites]
  /\ Goto(p, "poisoned")
  /\ UNCHANGED <<tables, op, seen, outcome, bounds, overlapped>>

\* Another request has committed the row meanwhile: IntegrityError.
DuplicateWeight(p) ==
  /\ pc[p] = "insert" /\ WeightFree(p) /\ WeightOf(p) # NoRow
  /\ Poison(p)

WaitsFor(p, q) ==
  /\ p # q
  /\ \/ pc[p] \in {"roll", "consume"} /\ HasBudget(q, seen[p].budget.id)
     \/ pc[p] \in {"insert", "learn"} /\ HasWeight(q, op[p].cap)

\* PostgreSQL breaks a cycle of waits by failing one of its statements.
DeadlockVictim(p) ==
  /\ \E S \in SUBSET Proc :
       /\ p \in S
       /\ \A q \in S : (\E r \in S : WaitsFor(q, r)) /\ (\E r \in S : WaitsFor(r, q))
  /\ Poison(p)

GiveUp(p) ==
  /\ pc[p] = "poisoned"
  /\ Leave(p)
  /\ UNCHANGED <<tables, bounds, overlapped>>

\* Mutant: get_db does not roll back, and the transaction stays open.
MutAbort(p) ==
  /\ pc[p] \notin {Idle, "poisoned"}
  /\ aborts < MaxAborts /\ aborts' = aborts + 1
  /\ op' = [op EXCEPT ![p] = [kind |-> Idle, cap |-> NoRow]]
  /\ seen' = [seen EXCEPT ![p] = [budget |-> NoRow, weight |-> NoRow]]
  /\ outcome' = [outcome EXCEPT ![p] = "none"]
  /\ Goto(p, Idle)
  /\ UNCHANGED <<tables, tx, today, requests, grades, overlapped>>

\* The request fails for a reason of its own: get_db rolls back.
Abort(p) ==
  /\ pc[p] \notin {Idle, "poisoned"}
  /\ aborts < MaxAborts /\ aborts' = aborts + 1
  /\ Leave(p)
  /\ UNCHANGED <<tables, today, requests, grades, overlapped>>

WindowEnds ==
  /\ today < MaxDays /\ today' = today + 1
  /\ UNCHANGED <<tables, tx, local, requests, grades, aborts, overlapped>>

Step(p) ==
  \/ AutoProposal(p) \/ CreateBudget(p) \/ LoadBudget(p) \/ RollWindow(p)
  \/ LoadWeight(p) \/ InsertWeight(p) \/ consume_budget(p) \/ Handler(p)
  \/ _audit(p) \/ update_weight_from_outcome(p) \/ Commit(p)
  \/ DuplicateWeight(p) \/ DeadlockVictim(p) \/ GiveUp(p)

Next ==
  \/ \E p \in Proc :
       \/ \E f \in Started : Begin(p, f)
       \/ \E c \in Capability, g \in {"ok", "error"} : record_feedback(p, c, g)
       \/ Step(p)
       \/ Abort(p)
  \/ WindowEnds

Spec == Init /\ [][Next]_vars

\* A request whose next step is not blocked takes it: the calls of a handler
\* time out, and the database detects deadlocks.
FairSpec == Spec /\ \A p \in Proc : WF_vars(Step(p))

-----------------------------------------------------------------------------
Counts == [Capability -> [Outcome -> Nat]]
PC == {Idle, "budget", "roll", "weight", "insert", "consume", "handler", "audit",
       "learn", "return", "poisoned"}
Grades == [Capability -> [{"ok", "error"} -> Nat]]

\* The tables, and what each request has written and loaded, hold rows of
\* their shape; a weight stays between floor and ceiling.
TypeOK ==
  /\ budget \in [Proc -> BudgetRow \cup {NoRow}]
  /\ weights \in [Capability -> WeightRow \cup {NoRow}]
  /\ decisions \in Counts /\ feedback \in Grades /\ records \in [Flow -> Nat]
  /\ tx \in [Proc -> [budget : [Proc -> BudgetRow \cup {NoRow}],
                      weights : [Capability -> WeightRow \cup {NoRow}],
                      decisions : Counts, feedback : Grades, records : [Flow -> Nat]]]
  /\ pc \in [Proc -> PC]
  /\ op \in [Proc -> [kind : Flow \cup {"feedback", Idle}, cap : Capability \cup {NoRow}]]
  /\ seen \in [Proc -> [budget : [id : Proc, row : BudgetRow] \cup {NoRow},
                        weight : WeightRow \cup {NoRow}]]
  /\ outcome \in [Proc -> Outcome \cup {"none"}]
  /\ today \in Nat /\ requests \in Nat /\ grades \in Nat /\ aborts \in Nat
  /\ overlapped \subseteq Capability

BudgetRows == {r \in Proc : budget[r] # NoRow \/ \E p \in Proc : HasBudget(p, r)}
OneBudgetRow == Cardinality(BudgetRows) <= 1

\* While there is one budget row, the calls of the whole API run one at a
\* time: the request that counted its call keeps the row locked until it
\* commits, which is after the answer of the model.
CallsAreSerial ==
  OneBudgetRow => \A p, q \in Proc : (pc[p] = "handler" /\ pc[q] = "handler") => p = q

Total(c) == decisions[c]["ok"] + decisions[c]["error"] + decisions[c]["skipped"]
              + feedback[c]["ok"] + feedback[c]["error"]

\* The weight row counts every decision and every grade (_audit: "keeps the
\* audit row + weight history in lockstep so admin dashboards never see a
\* decision without a matching weight update").
InLockstep(c) ==
  IF weights[c] = NoRow THEN Total(c) = 0
  ELSE weights[c].successes + weights[c].failures = Total(c)

\* A weight is no better than its successes and no worse than its failures.
Earned(c) ==
  weights[c] # NoRow =>
    /\ -500 * weights[c].failures <= weights[c].weight
    /\ weights[c].weight <= 500 * weights[c].successes

\* Both hold for calls that race each other; a grade given while the capability
\* is in use may be lost, or lose a call's update.
WeightFollowsDecisions ==
  OneBudgetRow => \A c \in Capability : c \in overlapped \/ (InLockstep(c) /\ Earned(c))

Decided(c) == decisions[c]["ok"] + decisions[c]["error"] + decisions[c]["skipped"]

\* A record that is committed with its hook has its decision, and no decision
\* outlives the record it was made for.
RecordsAreAudited ==
  /\ Decided("score_document_completeness") = records["proposal"]
  /\ Decided("validate_nice_classification") <= records["case"]
  /\ Decided("check_trademark_conflict") >= records["submission"]
  /\ Decided("check_trademark_conflict") <= records["submission"] + records["eutm"]

\* Every request is answered, whoever holds the rows it waits for.
RequestReturns == \A p \in Proc : []<>(pc[p] = Idle)

-----------------------------------------------------------------------------
\* What the code does not keep.

\* "The hook MUST NOT propagate failure" (hooks.py): no record is rolled back
\* because of its hook.
HookIsHarmless ==
  \A p \in Proc : pc[p] = "poisoned" => op[p].kind \in Durable \cup {"feedback"}

\* The calls of a window stay within daily_call_budget.
BudgetBoundsCalls ==
  MaxDays = 0 =>
    LET calls(c) == decisions[c]["ok"] + decisions[c]["error"] IN
    calls("validate_nice_classification") + calls("score_document_completeness")
      + calls("check_trademark_conflict") <= DailyCallBudget

\* A capability that has never failed and was never graded down is refused
\* only when the budget is spent.
HealthyRuns ==
  \A p \in Proc : (pc[p] = "consume" /\ seen[p].budget.row.used < DailyCallBudget) =>
    LET c == op[p].cap IN
    (decisions[c]["error"] = 0 /\ feedback[c]["error"] = 0) =>
      Allowed(seen[p].budget.row, seen[p].weight)
=============================================================================

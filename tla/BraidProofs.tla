----------------------------- MODULE BraidProofs -----------------------------
(***************************************************************************)
(* The calls of the API's own flows are serial while there is one budget   *)
(* row, and a weight follows what was decided and graded, for any number   *)
(* of requests, grades, rolled back requests and days.                     *)
(***************************************************************************)
EXTENDS Braid, FiniteSetTheorems, TLAPS

Writes == [budget : [Proc -> BudgetRow \cup {NoRow}],
           weights : [Capability -> WeightRow \cup {NoRow}],
           decisions : Counts, feedback : Grades, records : [Flow -> Nat]]

LoadedBudget == [id : Proc, row : BudgetRow]

Grading(p) == op[p].kind = "feedback"

\* What a request has in hand at each of its steps.
LocalOK(p) ==
  /\ pc[p] = Idle => tx[p] = NoWrites
  /\ pc[p] # Idle => op[p].cap \in Capability
  /\ Grading(p) => pc[p] \notin {"budget", "roll", "consume", "handler", "audit"}
  /\ pc[p] \in {"roll", "consume"} \/ (pc[p] \in {"weight", "insert"} /\ ~ Grading(p)) =>
       seen[p].budget \in LoadedBudget /\ BudgetOf(p, seen[p].budget.id) # NoRow
  /\ pc[p] \in {"consume", "handler", "audit", "learn"} => WeightOf(p) # NoRow
  /\ pc[p] \in {"consume", "learn"} => seen[p].weight # NoRow
  /\ pc[p] = "audit" => outcome[p] \in Outcome
  /\ Grading(p) => outcome[p] \in {"ok", "error"}

\* A call that was counted has written a budget row.
CountedOK(p) ==
  pc[p] \in {"handler", "audit"} \/ (pc[p] \in {"learn", "return"} /\ ~ Grading(p)) =>
    \E r \in Proc : HasBudget(p, r)

\* Nobody writes a row that another one has written, or made and not committed.
LocksOK ==
  /\ \A p, r \in Proc : HasBudget(p, r) => r = p \/ budget[r] # NoRow
  /\ \A p, q, r \in Proc : HasBudget(p, r) /\ HasBudget(q, r) => p = q
  /\ \A p, q \in Proc, c \in Capability : HasWeight(p, c) /\ HasWeight(q, c) => p = q

IInv == TypeOK /\ LocksOK /\ \A p \in Proc : LocalOK(p) /\ CountedOK(p)

-----------------------------------------------------------------------------
\* A set with at most one element.
LEMMA OnlyOne ==
  ASSUME IsFiniteSet(Proc), Cardinality(BudgetRows) <= 1,
         NEW r \in BudgetRows, NEW s \in BudgetRows
  PROVE  r = s
<1>1. IsFiniteSet(BudgetRows)
  BY FS_Subset DEF BudgetRows
<1>2. {r, s} \in SUBSET BudgetRows
  OBVIOUS
<1>3. Cardinality({r, s}) <= Cardinality(BudgetRows)
  BY <1>1, <1>2, FS_Subset
<1>4. IsFiniteSet({r}) /\ Cardinality({r}) = 1
  BY FS_Singleton
<1>5. r # s => Cardinality({r} \cup {s}) = 2
  BY <1>4, FS_AddElement
<1>6. {r, s} = {r} \cup {s} /\ Cardinality(BudgetRows) \in Nat
  BY <1>1, FS_CardinalityType
<1>. QED BY <1>3, <1>5, <1>6

(* Rows and writes.                                                        *)

LEMMA RowsAreRows ==
  /\ NoRow \notin BudgetRow /\ NoRow \notin WeightRow
  /\ FreshBudget \in BudgetRow
  /\ \A d \in Nat : [FreshBudget EXCEPT !.day = d] \in BudgetRow
BY BraidAssumption DEF BudgetRow, WeightRow, FreshBudget

LEMMA NoWritesTyped == NoWrites \in Writes
BY DEF NoWrites, Writes, Counts, Grades, Flow, Outcome

LEMMA FieldTypes ==
  ASSUME TypeOK, NEW p \in Proc
  PROVE  /\ tx \in [Proc -> Writes] /\ tx[p] \in Writes
         /\ tx[p].budget \in [Proc -> BudgetRow \cup {NoRow}]
         /\ tx[p].weights \in [Capability -> WeightRow \cup {NoRow}]
         /\ tx[p].decisions \in Counts /\ tx[p].feedback \in Grades
         /\ tx[p].records \in [Flow -> Nat]
<1>1. tx \in [Proc -> Writes]
  BY DEF TypeOK, Writes
<1>2. tx[p] \in Writes
  BY <1>1
<1>. QED BY <1>1, <1>2 DEF Writes

\* Only p writes, and only in the named field.
Keeps(p, f) ==
  /\ tx' \in [Proc -> Writes]
  /\ \A q \in Proc \ {p} : tx'[q] = tx[q]
  /\ f # "budget" => tx'[p].budget = tx[p].budget
  /\ f # "weights" => tx'[p].weights = tx[p].weights
  /\ f # "decisions" => tx'[p].decisions = tx[p].decisions
  /\ f # "feedback" => tx'[p].feedback = tx[p].feedback
  /\ f # "records" => tx'[p].records = tx[p].records

LEMMA PutWrites ==
  ASSUME TypeOK, NEW p \in Proc, NEW w \in Writes, tx' = [tx EXCEPT ![p] = w]
  PROVE  /\ tx' \in [Proc -> Writes] /\ tx'[p] = w
         /\ \A q \in Proc \ {p} : tx'[q] = tx[q]
BY FieldTypes

LEMMA WriteBudget ==
  ASSUME TypeOK, NEW p \in Proc, NEW r \in Proc, NEW row \in BudgetRow,
         tx' = [tx EXCEPT ![p].budget[r] = row]
  PROVE  Keeps(p, "budget") /\ tx'[p].budget = [tx[p].budget EXCEPT ![r] = row]
<1>1. [tx[p] EXCEPT !.budget = [tx[p].budget EXCEPT ![r] = row]] \in Writes
  BY FieldTypes DEF Writes
<1>2. tx' = [tx EXCEPT ![p] = [tx[p] EXCEPT !.budget = [tx[p].budget EXCEPT ![r] = row]]]
  BY FieldTypes DEF Writes
<1>4. tx'[p] = [tx[p] EXCEPT !.budget = [tx[p].budget EXCEPT ![r] = row]]
  BY <1>1, <1>2, PutWrites
<1>5. /\ tx'[p].budget = [tx[p].budget EXCEPT ![r] = row]
      /\ tx'[p].weights = tx[p].weights
      /\ tx'[p].decisions = tx[p].decisions
      /\ tx'[p].feedback = tx[p].feedback
      /\ tx'[p].records = tx[p].records
  BY <1>4, FieldTypes DEF Writes
<1>. QED BY <1>1, <1>2, <1>4, <1>5, PutWrites DEF Keeps

LEMMA WriteWeight ==
  ASSUME TypeOK, NEW p \in Proc, NEW c \in Capability, NEW row \in WeightRow,
         tx' = [tx EXCEPT ![p].weights[c] = row]
  PROVE  Keeps(p, "weights") /\ tx'[p].weights = [tx[p].weights EXCEPT ![c] = row]
<1>1. [tx[p] EXCEPT !.weights = [tx[p].weights EXCEPT ![c] = row]] \in Writes
  BY FieldTypes DEF Writes
<1>2. tx' = [tx EXCEPT ![p] = [tx[p] EXCEPT !.weights = [tx[p].weights EXCEPT ![c] = row]]]
  BY FieldTypes DEF Writes
<1>4. tx'[p] = [tx[p] EXCEPT !.weights = [tx[p].weights EXCEPT ![c] = row]]
  BY <1>1, <1>2, PutWrites
<1>5. /\ tx'[p].weights = [tx[p].weights EXCEPT ![c] = row]
      /\ tx'[p].budget = tx[p].budget
      /\ tx'[p].decisions = tx[p].decisions
      /\ tx'[p].feedback = tx[p].feedback
      /\ tx'[p].records = tx[p].records
  BY <1>4, FieldTypes DEF Writes
<1>. QED BY <1>1, <1>2, <1>4, <1>5, PutWrites DEF Keeps

LEMMA WriteDecision ==
  ASSUME TypeOK, NEW p \in Proc, NEW c \in Capability, NEW o \in Outcome,
         tx' = [tx EXCEPT ![p].decisions[c][o] = @ + 1]
  PROVE  /\ Keeps(p, "decisions")
         /\ tx'[p].decisions =
              [tx[p].decisions EXCEPT ![c] = [tx[p].decisions[c] EXCEPT ![o] = @ + 1]]
<1> DEFINE D == [tx[p].decisions EXCEPT ![c] = [tx[p].decisions[c] EXCEPT ![o] = @ + 1]]
<1>1. D \in Counts
  BY FieldTypes DEF Counts
<1>2. [tx[p] EXCEPT !.decisions = D] \in Writes
  BY <1>1, FieldTypes DEF Writes
<1>3. tx' = [tx EXCEPT ![p] = [tx[p] EXCEPT !.decisions = D]]
  BY FieldTypes DEF Writes, Counts
<1>4. tx'[p] = [tx[p] EXCEPT !.decisions = D]
  BY <1>2, <1>3, PutWrites
<1>5. /\ tx'[p].decisions = D
      /\ tx'[p].budget = tx[p].budget
      /\ tx'[p].weights = tx[p].weights
      /\ tx'[p].feedback = tx[p].feedback
      /\ tx'[p].records = tx[p].records
  BY <1>4, FieldTypes DEF Writes
<1>. QED BY <1>2, <1>3, <1>4, <1>5, PutWrites DEF Keeps

LEMMA WriteFeedback ==
  ASSUME TypeOK, NEW p \in Proc, NEW c \in Capability, NEW g \in {"ok", "error"},
         tx' = [tx EXCEPT ![p].feedback[c][g] = @ + 1]
  PROVE  /\ Keeps(p, "feedback")
         /\ tx'[p].feedback =
              [tx[p].feedback EXCEPT ![c] = [tx[p].feedback[c] EXCEPT ![g] = @ + 1]]
<1> DEFINE D == [tx[p].feedback EXCEPT ![c] = [tx[p].feedback[c] EXCEPT ![g] = @ + 1]]
<1>1. D \in Grades
  BY FieldTypes DEF Grades
<1>2. [tx[p] EXCEPT !.feedback = D] \in Writes
  BY <1>1, FieldTypes DEF Writes
<1>3. tx' = [tx EXCEPT ![p] = [tx[p] EXCEPT !.feedback = D]]
  BY FieldTypes DEF Writes, Grades
<1>4. tx'[p] = [tx[p] EXCEPT !.feedback = D]
  BY <1>2, <1>3, PutWrites
<1>5. /\ tx'[p].feedback = D
      /\ tx'[p].budget = tx[p].budget
      /\ tx'[p].weights = tx[p].weights
      /\ tx'[p].decisions = tx[p].decisions
      /\ tx'[p].records = tx[p].records
  BY <1>4, FieldTypes DEF Writes
<1>. QED BY <1>2, <1>3, <1>4, <1>5, PutWrites DEF Keeps

LEMMA WriteRecord ==
  ASSUME TypeOK, NEW p \in Proc, NEW f \in Flow,
         tx' = [tx EXCEPT ![p].records[f] = @ + 1]
  PROVE  Keeps(p, "records") /\ tx'[p].records = [tx[p].records EXCEPT ![f] = @ + 1]
<1> DEFINE D == [tx[p].records EXCEPT ![f] = @ + 1]
<1>1. D \in [Flow -> Nat]
  BY FieldTypes
<1>2. [tx[p] EXCEPT !.records = D] \in Writes
  BY <1>1, FieldTypes DEF Writes
<1>3. tx' = [tx EXCEPT ![p] = [tx[p] EXCEPT !.records = D]]
  BY FieldTypes DEF Writes
<1>4. tx'[p] = [tx[p] EXCEPT !.records = D]
  BY <1>2, <1>3, PutWrites
<1>5. /\ tx'[p].records = D
      /\ tx'[p].budget = tx[p].budget
      /\ tx'[p].weights = tx[p].weights
      /\ tx'[p].decisions = tx[p].decisions
      /\ tx'[p].feedback = tx[p].feedback
  BY <1>4, FieldTypes DEF Writes
<1>. QED BY <1>2, <1>3, <1>4, <1>5, PutWrites DEF Keeps

LEMMA ForgetWrites ==
  ASSUME TypeOK, NEW p \in Proc, tx' = [tx EXCEPT ![p] = NoWrites]
  PROVE  /\ tx' \in [Proc -> Writes] /\ tx'[p] = NoWrites
         /\ \A q \in Proc \ {p} : tx'[q] = tx[q]
         /\ \A r \in Proc : ~ HasBudget(p, r)'
         /\ \A c \in Capability : ~ HasWeight(p, c)'
BY FieldTypes, NoWritesTyped DEF HasBudget, HasWeight, NoWrites

-----------------------------------------------------------------------------
(* Steps of one request.                                                   *)

\* What the others have in hand stays.
Mine(p) ==
  \A q \in Proc \ {p} :
    /\ pc'[q] = pc[q] /\ op'[q] = op[q] /\ seen'[q] = seen[q]
    /\ outcome'[q] = outcome[q] /\ tx'[q] = tx[q]

\* A committed row is there for good.
RowsStay ==
  /\ \A r \in Proc : budget[r] # NoRow => budget'[r] # NoRow
  /\ \A c \in Capability : weights[c] # NoRow => weights'[c] # NoRow

\* A row that p begins to write is written by nobody else.
TakesOnlyFree(p) ==
  /\ \A r \in Proc : HasBudget(p, r)' =>
       HasBudget(p, r) \/ ((r = p \/ budget[r] # NoRow) /\ BudgetFree(p, r))
  /\ \A c \in Capability : HasWeight(p, c)' =>
       HasWeight(p, c) \/ \A q \in Proc \ {p} : ~ HasWeight(q, c)

LEMMA OthersKept ==
  ASSUME NEW p \in Proc, NEW q \in Proc \ {p}, Mine(p), RowsStay,
         LocalOK(q), CountedOK(q)
  PROVE  LocalOK(q)' /\ CountedOK(q)'
<1>1. /\ pc'[q] = pc[q] /\ op'[q] = op[q] /\ seen'[q] = seen[q]
      /\ outcome'[q] = outcome[q] /\ tx'[q] = tx[q]
  BY DEF Mine
<1>2. CountedOK(q)'
  BY <1>1 DEF CountedOK, HasBudget, Grading
<1>3. \A r \in Proc : BudgetOf(q, r) # NoRow => BudgetOf(q, r)' # NoRow
  BY <1>1 DEF BudgetOf, RowsStay
<1>4. op[q].cap \in Capability /\ WeightOf(q) # NoRow => WeightOf(q)' # NoRow
  BY <1>1 DEF WeightOf, RowsStay
<1>5. seen[q].budget \in LoadedBudget => seen[q].budget.id \in Proc
  BY DEF LoadedBudget
<1>6. Grading(q)' = Grading(q)
  BY <1>1 DEF Grading
<1>. QED BY <1>1, <1>2, <1>3, <1>4, <1>5, <1>6 DEF LocalOK, Idle

LEMMA StepKeeps ==
  ASSUME IInv, NEW p \in Proc, Mine(p), RowsStay, TakesOnlyFree(p),
         TypeOK', LocalOK(p)', CountedOK(p)'
  PROVE  IInv'
<1>1. \A q \in Proc : LocalOK(q)' /\ CountedOK(q)'
  BY OthersKept DEF IInv
<1>2. \A q \in Proc \ {p} : /\ \A r \in Proc : HasBudget(q, r)' = HasBudget(q, r)
                           /\ \A c \in Capability : HasWeight(q, c)' = HasWeight(q, c)
  BY DEF Mine, HasBudget, HasWeight
<1>3. \A q, r \in Proc : HasBudget(q, r)' => r = q \/ budget'[r] # NoRow
  BY <1>2 DEF IInv, LocksOK, RowsStay, TakesOnlyFree
<1>4. \A q, v, r \in Proc : HasBudget(q, r)' /\ HasBudget(v, r)' => q = v
  BY <1>2 DEF IInv, LocksOK, TakesOnlyFree, BudgetFree
<1>5. \A q, v \in Proc, c \in Capability : HasWeight(q, c)' /\ HasWeight(v, c)' => q = v
  BY <1>2 DEF IInv, LocksOK, TakesOnlyFree
<1>6. LocksOK'
  BY <1>3, <1>4, <1>5 DEF LocksOK
<1>. QED BY <1>1, <1>6 DEF IInv

LEMMA TablesKept == ASSUME UNCHANGED tables PROVE RowsStay
BY DEF tables, RowsStay

\* A field other than the two with locks has been written, or none.
LEMMA NothingTaken ==
  ASSUME NEW p \in Proc,
         \A r \in Proc : HasBudget(p, r)' => HasBudget(p, r),
         \A c \in Capability : HasWeight(p, c)' => HasWeight(p, c)
  PROVE  TakesOnlyFree(p)
BY DEF TakesOnlyFree

LEMMA CapabilityOfFlow == \A f \in Flow : CapabilityOf(f) \in Capability
BY DEF Flow, CapabilityOf, Capability

\* A request that loads a row changes what it has seen, and nothing else's.
LEMMA SeeRow ==
  ASSUME TypeOK, NEW p \in Proc,
         NEW x \in [budget : LoadedBudget \cup {NoRow}, weight : WeightRow \cup {NoRow}],
         seen' = [seen EXCEPT ![p] = x]
  PROVE  /\ seen'[p] = x
         /\ seen' \in [Proc -> [budget : LoadedBudget \cup {NoRow}, weight : WeightRow \cup {NoRow}]]
         /\ \A q \in Proc \ {p} : seen'[q] = seen[q]
<1>1. seen \in [Proc -> [budget : LoadedBudget \cup {NoRow}, weight : WeightRow \cup {NoRow}]]
  BY DEF TypeOK, LoadedBudget
<1>. QED BY <1>1

LEMMA SeeBudget ==
  ASSUME TypeOK, NEW p \in Proc, NEW b \in LoadedBudget,
         seen' = [seen EXCEPT ![p].budget = b]
  PROVE  /\ seen'[p].budget = b
         /\ seen' \in [Proc -> [budget : LoadedBudget \cup {NoRow}, weight : WeightRow \cup {NoRow}]]
         /\ \A q \in Proc \ {p} : seen'[q] = seen[q]
<1>1. seen[p] \in [budget : LoadedBudget \cup {NoRow}, weight : WeightRow \cup {NoRow}]
  BY DEF TypeOK, LoadedBudget
<1>2. [seen[p] EXCEPT !.budget = b]
        \in [budget : LoadedBudget \cup {NoRow}, weight : WeightRow \cup {NoRow}]
  BY <1>1
<1>3. seen' = [seen EXCEPT ![p] = [seen[p] EXCEPT !.budget = b]]
  OBVIOUS
<1>4. [seen[p] EXCEPT !.budget = b].budget = b
  BY <1>1
<1>. QED BY <1>2, <1>3, <1>4, SeeRow

LEMMA SeeWeight ==
  ASSUME TypeOK, NEW p \in Proc, NEW w \in WeightRow \cup {NoRow},
         seen' = [seen EXCEPT ![p].weight = w]
  PROVE  /\ seen'[p].weight = w /\ seen'[p].budget = seen[p].budget
         /\ seen' \in [Proc -> [budget : LoadedBudget \cup {NoRow}, weight : WeightRow \cup {NoRow}]]
         /\ \A q \in Proc \ {p} : seen'[q] = seen[q]
<1>1. seen[p] \in [budget : LoadedBudget \cup {NoRow}, weight : WeightRow \cup {NoRow}]
  BY DEF TypeOK, LoadedBudget
<1>2. [seen[p] EXCEPT !.weight = w]
        \in [budget : LoadedBudget \cup {NoRow}, weight : WeightRow \cup {NoRow}]
  BY <1>1
<1>3. seen' = [seen EXCEPT ![p] = [seen[p] EXCEPT !.weight = w]]
  OBVIOUS
<1>4. /\ [seen[p] EXCEPT !.weight = w].weight = w
      /\ [seen[p] EXCEPT !.weight = w].budget = seen[p].budget
  BY <1>1
<1>. QED BY <1>2, <1>3, <1>4, SeeRow

\* What is known of p before any of its steps.
LEMMA Mine1 ==
  ASSUME IInv, NEW p \in Proc
  PROVE  /\ TypeOK /\ LocalOK(p) /\ CountedOK(p)
         /\ pc[p] \in PC /\ outcome[p] \in Outcome \cup {"none"}
         /\ op[p] \in [kind : Flow \cup {"feedback", Idle}, cap : Capability \cup {NoRow}]
         /\ seen[p] \in [budget : LoadedBudget \cup {NoRow}, weight : WeightRow \cup {NoRow}]
         /\ \A r \in Proc : BudgetOf(p, r) \in BudgetRow \cup {NoRow}
         /\ op[p].cap \in Capability => WeightOf(p) \in WeightRow \cup {NoRow}
<1>1. TypeOK /\ LocalOK(p) /\ CountedOK(p)
  BY DEF IInv
<1>2. \A r \in Proc : BudgetOf(p, r) \in BudgetRow \cup {NoRow}
  BY <1>1, FieldTypes DEF TypeOK, BudgetOf
<1>3. op[p].cap \in Capability => WeightOf(p) \in WeightRow \cup {NoRow}
  BY <1>1, FieldTypes DEF TypeOK, WeightOf
<1>4. seen[p] \in [budget : LoadedBudget \cup {NoRow}, weight : WeightRow \cup {NoRow}]
  BY <1>1 DEF TypeOK, LoadedBudget
<1>5. /\ pc[p] \in PC /\ outcome[p] \in Outcome \cup {"none"}
      /\ op[p] \in [kind : Flow \cup {"feedback", Idle}, cap : Capability \cup {NoRow}]
  BY <1>1 DEF TypeOK
<1>. QED BY <1>1, <1>2, <1>3, <1>4, <1>5

LEMMA HookStep ==
  ASSUME IInv, NEW p \in Proc, NEW f \in Flow, Hook(p, f),
         pc[p] = Idle \/ pc[p] = "return",
         requests' \in Nat, UNCHANGED <<today, grades, aborts>>
  PROVE  IInv' /\ Mine(p)
<1> DEFINE c == CapabilityOf(f)
<1>1. c \in Capability
  BY CapabilityOfFlow
<1>2. /\ op' = [op EXCEPT ![p] = [kind |-> f, cap |-> c]]
      /\ outcome' = [outcome EXCEPT ![p] = "none"]
      /\ overlapped' \subseteq overlapped \cup {c}
      /\ pc' = [pc EXCEPT ![p] = "budget"]
      /\ UNCHANGED <<budget, weights, decisions, feedback, seen>>
  BY DEF Hook, Goto
<1>3. /\ records' \in [Flow -> Nat] /\ tx' \in [Proc -> Writes]
      /\ \A q \in Proc \ {p} : tx'[q] = tx[q]
      /\ tx'[p].budget = tx[p].budget /\ tx'[p].weights = tx[p].weights
  <2>1. CASE records' = [records EXCEPT ![f] = @ + 1] /\ tx' = tx
    BY <2>1, FieldTypes DEF IInv, TypeOK
  <2>2. CASE tx' = [tx EXCEPT ![p].records[f] = @ + 1] /\ records' = records
    BY <2>2, WriteRecord DEF IInv, TypeOK, Keeps
  <2>. QED BY <2>1, <2>2 DEF Hook
<1>4. TypeOK'
  BY <1>1, <1>2, <1>3, Mine1 DEF TypeOK, PC, Writes
<1>5. /\ Mine(p) /\ RowsStay /\ TakesOnlyFree(p)
  BY <1>2, <1>3, Mine1 DEF TypeOK, Mine, RowsStay, TakesOnlyFree, HasBudget, HasWeight
<1>6. LocalOK(p)' /\ CountedOK(p)'
  BY <1>1, <1>2, Mine1 DEF TypeOK, LocalOK, CountedOK, Grading, Flow, Idle
<1>. QED BY <1>4, <1>5, <1>6, StepKeeps
LEMMA GradeStep ==
  ASSUME IInv, NEW p \in Proc, NEW c \in Capability, NEW g \in {"ok", "error"},
         record_feedback(p, c, g)
  PROVE  IInv' /\ Mine(p)
<1>1. /\ pc[p] = Idle /\ grades' = grades + 1
      /\ op' = [op EXCEPT ![p] = [kind |-> "feedback", cap |-> c]]
      /\ outcome' = [outcome EXCEPT ![p] = g]
      /\ overlapped' \subseteq overlapped \cup {c}
      /\ pc' = [pc EXCEPT ![p] = "weight"]
      /\ UNCHANGED <<tables, seen, today, requests, aborts>>
  BY DEF record_feedback, Goto
<1>2. Keeps(p, "feedback")
  BY WriteFeedback DEF record_feedback, IInv
<1>3. TypeOK'
  BY <1>1, <1>2, Mine1 DEF TypeOK, tables, PC, Keeps, Writes, Outcome
<1>4. Mine(p) /\ RowsStay /\ TakesOnlyFree(p)
  BY <1>1, <1>2, Mine1 DEF TypeOK, Mine, RowsStay, TakesOnlyFree, HasBudget, HasWeight, Keeps, tables
<1>5. LocalOK(p)' /\ CountedOK(p)'
  BY <1>1, Mine1 DEF TypeOK, LocalOK, CountedOK, Grading, Idle
<1>. QED BY <1>3, <1>4, <1>5, StepKeeps

LEMMA CreateBudgetStep ==
  ASSUME IInv, NEW p \in Proc, CreateBudget(p)
  PROVE  IInv' /\ Mine(p)
<1> DEFINE row == [FreshBudget EXCEPT !.day = today]
<1>1. /\ pc[p] = "budget" /\ \A r \in Proc : BudgetOf(p, r) = NoRow
      /\ tx' = [tx EXCEPT ![p].budget[p] = row]
      /\ seen' = [seen EXCEPT ![p].budget = [id |-> p, row |-> row]]
      /\ pc' = [pc EXCEPT ![p] = "weight"]
      /\ UNCHANGED <<tables, op, outcome, bounds, overlapped>>
  BY DEF CreateBudget, Goto
<1>2. row \in BudgetRow /\ row # NoRow
  BY RowsAreRows DEF IInv, TypeOK
<1>3. Keeps(p, "budget") /\ tx'[p].budget = [tx[p].budget EXCEPT ![p] = row]
  BY <1>1, <1>2, WriteBudget DEF IInv
<1>4. seen'[p].budget = [id |-> p, row |-> row] /\ [id |-> p, row |-> row] \in LoadedBudget
      /\ seen' \in [Proc -> [budget : LoadedBudget \cup {NoRow}, weight : WeightRow \cup {NoRow}]]
      /\ \A q \in Proc \ {p} : seen'[q] = seen[q]
  <2>1. [id |-> p, row |-> row] \in LoadedBudget
    BY <1>2 DEF LoadedBudget
  <2> HIDE DEF row
  <2>. QED BY <1>1, <2>1, SeeBudget DEF IInv
<1>5. TypeOK'
  BY <1>1, <1>3, <1>4, Mine1 DEF TypeOK, tables, bounds, PC, Keeps, Writes, LoadedBudget
<1>6. Mine(p) /\ RowsStay
  BY <1>1, <1>3, <1>4, Mine1 DEF TypeOK, Mine, RowsStay, Keeps, tables
<1>7. budget[p] = NoRow /\ BudgetFree(p, p)
  BY <1>1 DEF BudgetOf, HasBudget, BudgetFree, IInv, LocksOK
<1>8. TakesOnlyFree(p)
  BY <1>3, <1>7, FieldTypes DEF TakesOnlyFree, HasBudget, HasWeight, Keeps, IInv
<1>9. BudgetOf(p, p)' # NoRow
  BY <1>2, <1>3, FieldTypes DEF BudgetOf, IInv
<1>10. LocalOK(p)' /\ CountedOK(p)'
  BY <1>1, <1>4, <1>9, Mine1 DEF TypeOK, LocalOK, CountedOK, Grading, Idle
<1>. QED BY <1>5, <1>6, <1>8, <1>10, StepKeeps

LEMMA LoadBudgetStep ==
  ASSUME IInv, NEW p \in Proc, LoadBudget(p)
  PROVE  IInv' /\ Mine(p)
<1>1. PICK r \in Proc :
        /\ BudgetOf(p, r) # NoRow
        /\ seen' = [seen EXCEPT ![p].budget = [id |-> r, row |-> BudgetOf(p, r)]]
        /\ pc' = [pc EXCEPT ![p] = IF BudgetOf(p, r).day < today THEN "roll" ELSE "weight"]
  BY DEF LoadBudget, Goto
<1>2. pc[p] = "budget" /\ UNCHANGED <<tables, tx, op, outcome, bounds, overlapped>>
  BY DEF LoadBudget
<1>3. [id |-> r, row |-> BudgetOf(p, r)] \in LoadedBudget
  BY <1>1, Mine1 DEF LoadedBudget
<1>4. /\ seen'[p].budget = [id |-> r, row |-> BudgetOf(p, r)]
      /\ seen' \in [Proc -> [budget : LoadedBudget \cup {NoRow}, weight : WeightRow \cup {NoRow}]]
      /\ \A q \in Proc \ {p} : seen'[q] = seen[q]
  BY <1>1, <1>3, SeeBudget DEF IInv
<1>5. pc' \in [Proc -> PC] /\ pc'[p] \in {"roll", "weight"} /\ \A q \in Proc \ {p} : pc'[q] = pc[q]
  BY <1>1 DEF IInv, TypeOK, PC
<1>6. TypeOK'
  BY <1>2, <1>4, <1>5, Mine1 DEF TypeOK, tables, bounds, LoadedBudget
<1>7. Mine(p) /\ RowsStay /\ TakesOnlyFree(p)
  BY <1>2, <1>4, <1>5 DEF Mine, RowsStay, TakesOnlyFree, HasBudget, HasWeight, tables
<1>8. BudgetOf(p, r)' # NoRow
  BY <1>1, <1>2 DEF BudgetOf, tables
<1>9. LocalOK(p)' /\ CountedOK(p)'
  BY <1>2, <1>3, <1>4, <1>5, <1>8, Mine1 DEF LocalOK, CountedOK, Grading, Idle
<1>. QED BY <1>6, <1>7, <1>9, StepKeeps
LEMMA RollWrites ==
  ASSUME IInv, NEW p \in Proc, RollWindow(p)
  PROVE  \E r \in Proc, row \in BudgetRow : tx' = [tx EXCEPT ![p].budget[r] = row]
<1> DEFINE b == seen[p].budget
           now == BudgetOf(p, b.id)
<1>1. pc[p] = "roll"
  BY DEF RollWindow
<1>2. b \in LoadedBudget /\ now \in BudgetRow
  BY <1>1, Mine1 DEF LocalOK, LoadedBudget
<1>. QED BY <1>2 DEF RollWindow, IInv, TypeOK, LoadedBudget, BudgetRow

LEMMA ConsumeWrites ==
  ASSUME IInv, NEW p \in Proc, consume_budget(p)
  PROVE  \E r \in Proc, row \in BudgetRow : tx' = [tx EXCEPT ![p].budget[r] = row]
<1> DEFINE b == seen[p].budget
           now == BudgetOf(p, b.id)
<1>1. pc[p] = "consume"
  BY DEF consume_budget
<1>2. b \in LoadedBudget /\ now \in BudgetRow
  BY <1>1, Mine1 DEF LocalOK, LoadedBudget
<1>3. b.id \in Proc /\ b.row \in BudgetRow
  BY <1>2 DEF LoadedBudget
<1>4. /\ [now EXCEPT !.used = b.row.used + 1] \in BudgetRow
      /\ [now EXCEPT !.skipped = b.row.skipped + 1] \in BudgetRow
  BY <1>2, <1>3 DEF BudgetRow
<1>. QED BY <1>3, <1>4 DEF consume_budget

LEMMA RollStep ==
  ASSUME IInv, NEW p \in Proc, RollWindow(p)
  PROVE  IInv' /\ Mine(p)
<1> DEFINE b == seen[p].budget
           now == BudgetOf(p, b.id)
           row == [used |-> IF b.row.used # 0 THEN 0 ELSE now.used,
                   skipped |-> IF b.row.skipped # 0 THEN 0 ELSE now.skipped,
                   day |-> today]
           fresh == [used |-> 0, skipped |-> 0, day |-> today]
<1>1. /\ pc[p] = "roll" /\ BudgetFree(p, b.id)
      /\ tx' = [tx EXCEPT ![p].budget[b.id] = row]
      /\ seen' = [seen EXCEPT ![p].budget.row = fresh]
      /\ pc' = [pc EXCEPT ![p] = "weight"]
      /\ UNCHANGED <<tables, op, outcome, bounds, overlapped>>
  BY DEF RollWindow, Goto
<1>2. b \in LoadedBudget /\ now \in BudgetRow
  BY <1>1, Mine1 DEF LocalOK, LoadedBudget
<1>3. b.id \in Proc /\ row \in BudgetRow /\ row # NoRow /\ fresh \in BudgetRow
  BY <1>2, RowsAreRows DEF IInv, TypeOK, LoadedBudget, BudgetRow
<1> HIDE DEF row, fresh
<1>4. Keeps(p, "budget") /\ tx'[p].budget = [tx[p].budget EXCEPT ![b.id] = row]
  BY <1>1, <1>3, WriteBudget DEF IInv
<1>5. /\ seen'[p].budget \in LoadedBudget /\ seen'[p].budget.id = b.id
      /\ seen' \in [Proc -> [budget : LoadedBudget \cup {NoRow}, weight : WeightRow \cup {NoRow}]]
      /\ \A q \in Proc \ {p} : seen'[q] = seen[q]
  <2>1. [b EXCEPT !.row = fresh] \in LoadedBudget /\ [b EXCEPT !.row = fresh].id = b.id
    BY <1>2, <1>3 DEF LoadedBudget
  <2>2. /\ seen'[p].budget = [b EXCEPT !.row = fresh]
        /\ seen' \in [Proc -> [budget : LoadedBudget \cup {NoRow}, weight : WeightRow \cup {NoRow}]]
        /\ \A q \in Proc \ {p} : seen'[q] = seen[q]
    <3>1. seen' = [seen EXCEPT ![p].budget = [b EXCEPT !.row = fresh]]
      BY <1>1
    <3>. QED BY <2>1, <3>1, SeeBudget DEF IInv
  <2>. QED BY <2>1, <2>2
<1>6. TypeOK'
  BY <1>1, <1>4, <1>5, Mine1 DEF TypeOK, tables, bounds, PC, Keeps, Writes, LoadedBudget
<1>7. Mine(p) /\ RowsStay
  BY <1>1, <1>4, <1>5, Mine1 DEF TypeOK, Mine, RowsStay, Keeps, tables
<1>8. now # NoRow
  BY <1>1, Mine1 DEF LocalOK
<1>9. TakesOnlyFree(p)
  <2>1. HasBudget(p, b.id) \/ budget[b.id] # NoRow
    BY <1>8 DEF BudgetOf, HasBudget
  <2>. QED BY <1>1, <1>3, <1>4, <2>1, FieldTypes
       DEF TakesOnlyFree, HasBudget, HasWeight, Keeps, IInv
<1>10. BudgetOf(p, b.id)' # NoRow
  BY <1>3, <1>4, <1>5, FieldTypes DEF BudgetOf, IInv
<1>11. LocalOK(p)' /\ CountedOK(p)'
  BY <1>1, <1>5, <1>10, Mine1 DEF TypeOK, LocalOK, CountedOK, Grading, Idle
<1>. QED BY <1>6, <1>7, <1>9, <1>11, StepKeeps

LEMMA LoadWeightStep ==
  ASSUME IInv, NEW p \in Proc, LoadWeight(p)
  PROVE  IInv' /\ Mine(p)
<1>1. /\ pc[p] = "weight"
      /\ seen' = [seen EXCEPT ![p].weight = WeightOf(p)]
      /\ pc' = [pc EXCEPT ![p] = IF WeightOf(p) = NoRow THEN "insert" ELSE AfterWeight(p)]
      /\ UNCHANGED <<tables, tx, op, outcome, bounds, overlapped>>
  BY DEF LoadWeight, Goto
<1>2. op[p].cap \in Capability /\ WeightOf(p) \in WeightRow \cup {NoRow}
  BY <1>1, Mine1 DEF LocalOK, Idle
<1>3. /\ seen'[p].weight = WeightOf(p) /\ seen'[p].budget = seen[p].budget
      /\ seen' \in [Proc -> [budget : LoadedBudget \cup {NoRow}, weight : WeightRow \cup {NoRow}]]
      /\ \A q \in Proc \ {p} : seen'[q] = seen[q]
  BY <1>1, <1>2, SeeWeight DEF IInv
<1>4. /\ pc' \in [Proc -> PC] /\ \A q \in Proc \ {p} : pc'[q] = pc[q]
      /\ pc'[p] = IF WeightOf(p) = NoRow THEN "insert"
                  ELSE IF Grading(p) THEN "learn" ELSE "consume"
  BY <1>1 DEF IInv, TypeOK, PC, AfterWeight, Grading
<1>5. TypeOK'
  BY <1>1, <1>3, <1>4, Mine1 DEF TypeOK, tables, bounds, LoadedBudget
<1>6. Mine(p) /\ RowsStay /\ TakesOnlyFree(p)
  BY <1>1, <1>3, <1>4 DEF Mine, RowsStay, TakesOnlyFree, HasBudget, HasWeight, tables
<1>7. WeightOf(p)' = WeightOf(p) /\ \A r \in Proc : BudgetOf(p, r)' = BudgetOf(p, r)
  BY <1>1 DEF WeightOf, BudgetOf, tables
<1>8. seen[p].budget \in LoadedBudget => seen[p].budget.id \in Proc
  BY DEF LoadedBudget
<1>9. LocalOK(p)' /\ CountedOK(p)'
  BY <1>1, <1>2, <1>3, <1>4, <1>7, <1>8, Mine1 DEF LocalOK, CountedOK, Grading, Idle
<1>. QED BY <1>5, <1>6, <1>9, StepKeeps

LEMMA InsertStep ==
  ASSUME IInv, NEW p \in Proc, InsertWeight(p)
  PROVE  IInv' /\ Mine(p)
<1> DEFINE row == [weight |-> 0, successes |-> 0, failures |-> 0]
           c == op[p].cap
<1>1. /\ pc[p] = "insert" /\ WeightFree(p) /\ WeightOf(p) = NoRow
      /\ tx' = [tx EXCEPT ![p].weights[c] = row]
      /\ seen' = [seen EXCEPT ![p].weight = row]
      /\ pc' = [pc EXCEPT ![p] = AfterWeight(p)]
      /\ UNCHANGED <<tables, op, outcome, bounds, overlapped>>
  BY DEF InsertWeight, Goto
<1>2. c \in Capability
  BY <1>1, Mine1 DEF LocalOK, Idle
<1>3. row \in WeightRow /\ row # NoRow
  BY RowsAreRows, BraidAssumption DEF WeightRow
<1> HIDE DEF row
<1>4. Keeps(p, "weights") /\ tx'[p].weights = [tx[p].weights EXCEPT ![c] = row]
  BY <1>1, <1>2, <1>3, WriteWeight DEF IInv
<1>5. /\ seen'[p].weight = row /\ seen'[p].budget = seen[p].budget
      /\ seen' \in [Proc -> [budget : LoadedBudget \cup {NoRow}, weight : WeightRow \cup {NoRow}]]
      /\ \A q \in Proc \ {p} : seen'[q] = seen[q]
  BY <1>1, <1>3, SeeWeight DEF IInv
<1>6. /\ pc' \in [Proc -> PC] /\ \A q \in Proc \ {p} : pc'[q] = pc[q]
      /\ pc'[p] = IF Grading(p) THEN "learn" ELSE "consume"
  BY <1>1 DEF IInv, TypeOK, PC, AfterWeight, Grading
<1>7. TypeOK'
  BY <1>1, <1>4, <1>5, <1>6, Mine1 DEF TypeOK, tables, bounds, LoadedBudget, Keeps, Writes
<1>8. Mine(p) /\ RowsStay
  BY <1>1, <1>4, <1>5, <1>6 DEF Mine, RowsStay, Keeps, tables
<1>9. TakesOnlyFree(p)
  BY <1>1, <1>2, <1>4, FieldTypes DEF TakesOnlyFree, HasBudget, HasWeight, Keeps, IInv, WeightFree
<1>10. WeightOf(p)' # NoRow /\ \A r \in Proc : BudgetOf(p, r)' = BudgetOf(p, r)
  BY <1>1, <1>2, <1>3, <1>4, FieldTypes DEF WeightOf, BudgetOf, Keeps, tables, IInv
<1>11. seen[p].budget \in LoadedBudget => seen[p].budget.id \in Proc
  BY DEF LoadedBudget
<1>12. LocalOK(p)' /\ CountedOK(p)'
  BY <1>1, <1>2, <1>3, <1>5, <1>6, <1>10, <1>11, Mine1 DEF LocalOK, CountedOK, Grading, Idle
<1>. QED BY <1>7, <1>8, <1>9, <1>12, StepKeeps

LEMMA ConsumeStep ==
  ASSUME IInv, NEW p \in Proc, consume_budget(p)
  PROVE  IInv' /\ Mine(p)
<1> DEFINE b == seen[p].budget
           now == BudgetOf(p, b.id)
           allowed == Allowed(b.row, seen[p].weight)
           row == IF allowed THEN [now EXCEPT !.used = b.row.used + 1]
                             ELSE [now EXCEPT !.skipped = b.row.skipped + 1]
<1>1. /\ pc[p] = "consume" /\ BudgetFree(p, b.id)
      /\ tx' = [tx EXCEPT ![p].budget[b.id] = row]
      /\ outcome' = [outcome EXCEPT ![p] = IF allowed THEN "none" ELSE "skipped"]
      /\ pc' = [pc EXCEPT ![p] = IF allowed THEN "handler" ELSE "audit"]
      /\ UNCHANGED <<tables, op, seen, bounds, overlapped>>
  BY DEF consume_budget, Goto
<1>2. b \in LoadedBudget /\ now \in BudgetRow /\ now # NoRow
  BY <1>1, Mine1 DEF LocalOK, LoadedBudget
<1>3. b.id \in Proc /\ row \in BudgetRow /\ row # NoRow
  BY <1>2, RowsAreRows DEF LoadedBudget, BudgetRow
<1> HIDE DEF row, allowed
<1>4. Keeps(p, "budget") /\ tx'[p].budget = [tx[p].budget EXCEPT ![b.id] = row]
  BY <1>1, <1>3, WriteBudget DEF IInv
<1>5. /\ pc' \in [Proc -> PC] /\ outcome' \in [Proc -> Outcome \cup {"none"}]
      /\ \A q \in Proc \ {p} : pc'[q] = pc[q] /\ outcome'[q] = outcome[q]
      /\ pc'[p] = "handler" \/ (pc'[p] = "audit" /\ outcome'[p] = "skipped")
  BY <1>1 DEF IInv, TypeOK, PC, Outcome
<1>6. TypeOK'
  BY <1>1, <1>4, <1>5, Mine1 DEF TypeOK, tables, bounds, Keeps, Writes
<1>7. Mine(p) /\ RowsStay
  BY <1>1, <1>4, <1>5 DEF Mine, RowsStay, Keeps, tables
<1>8. TakesOnlyFree(p)
  <2>1. HasBudget(p, b.id) \/ budget[b.id] # NoRow
    BY <1>2 DEF BudgetOf, HasBudget
  <2>. QED BY <1>1, <1>3, <1>4, <2>1, FieldTypes
       DEF TakesOnlyFree, HasBudget, HasWeight, Keeps, IInv
<1>9. HasBudget(p, b.id)' /\ WeightOf(p)' = WeightOf(p)
  BY <1>1, <1>3, <1>4, FieldTypes DEF HasBudget, WeightOf, Keeps, tables, IInv
<1>10. LocalOK(p)' /\ CountedOK(p)'
  BY <1>1, <1>3, <1>5, <1>9, Mine1 DEF LocalOK, CountedOK, Grading, Idle, Outcome
<1>. QED BY <1>6, <1>7, <1>8, <1>10, StepKeeps
LEMMA HandlerStep ==
  ASSUME IInv, NEW p \in Proc, Handler(p)
  PROVE  IInv' /\ Mine(p)
<1>1. PICK o \in Answers(op[p].cap) : outcome' = [outcome EXCEPT ![p] = o]
  BY DEF Handler
<1>2. /\ pc[p] = "handler" /\ pc' = [pc EXCEPT ![p] = "audit"]
      /\ UNCHANGED <<tables, tx, op, seen, bounds, overlapped>>
  BY DEF Handler, Goto
<1>3. op[p].cap \in Capability
  BY <1>2, Mine1 DEF LocalOK, Idle
<1>4. o \in Outcome
  BY <1>3 DEF Answers, Capability, Outcome, validate_nice_classification,
              score_document_completeness, check_trademark_conflict
<1>5. TypeOK'
  BY <1>1, <1>2, <1>4, Mine1 DEF TypeOK, tables, bounds, PC
<1>6. Mine(p) /\ RowsStay /\ TakesOnlyFree(p)
  BY <1>1, <1>2 DEF Mine, RowsStay, TakesOnlyFree, HasBudget, HasWeight, tables
<1>7. WeightOf(p)' = WeightOf(p)
  BY <1>2 DEF WeightOf, tables
<1>8. LocalOK(p)'
  BY <1>1, <1>2, <1>4, <1>7, Mine1 DEF TypeOK, LocalOK, Grading, Idle
<1>9. CountedOK(p)'
  BY <1>2, Mine1 DEF TypeOK, CountedOK, HasBudget, Grading
<1>. QED BY <1>5, <1>6, <1>8, <1>9, StepKeeps

LEMMA AuditStep ==
  ASSUME IInv, NEW p \in Proc, _audit(p)
  PROVE  IInv' /\ Mine(p)
<1> DEFINE c == op[p].cap
<1>1. /\ pc[p] = "audit"
      /\ tx' = [tx EXCEPT ![p].decisions[c][outcome[p]] = @ + 1]
      /\ seen' = [seen EXCEPT ![p] = [budget |-> NoRow, weight |-> WeightOf(p)]]
      /\ pc' = [pc EXCEPT ![p] = "learn"]
      /\ UNCHANGED <<tables, op, outcome, bounds, overlapped>>
  BY DEF _audit, Goto
<1>2. c \in Capability /\ outcome[p] \in Outcome /\ WeightOf(p) \in WeightRow /\ WeightOf(p) # NoRow
  BY <1>1, Mine1 DEF LocalOK, Idle
<1>3. Keeps(p, "decisions")
  BY <1>1, <1>2, WriteDecision DEF IInv
<1>4. /\ seen'[p].weight = WeightOf(p)
      /\ seen' \in [Proc -> [budget : LoadedBudget \cup {NoRow}, weight : WeightRow \cup {NoRow}]]
      /\ \A q \in Proc \ {p} : seen'[q] = seen[q]
  <2>1. [budget |-> NoRow, weight |-> WeightOf(p)]
          \in [budget : LoadedBudget \cup {NoRow}, weight : WeightRow \cup {NoRow}]
    BY <1>2
  <2>. QED BY <1>1, <2>1, SeeRow DEF IInv
<1>5. TypeOK'
  BY <1>1, <1>3, <1>4, Mine1 DEF TypeOK, tables, bounds, LoadedBudget, Keeps, Writes, PC
<1>6. Mine(p) /\ RowsStay /\ TakesOnlyFree(p)
  BY <1>1, <1>3, <1>4 DEF Mine, RowsStay, TakesOnlyFree, HasBudget, HasWeight, tables, Keeps
<1>7. WeightOf(p)' = WeightOf(p)
  BY <1>1, <1>3 DEF WeightOf, tables, Keeps
<1>8. LocalOK(p)'
  BY <1>1, <1>2, <1>4, <1>7, Mine1 DEF TypeOK, LocalOK, Grading, Idle
<1>9. CountedOK(p)'
  BY <1>1, <1>3, Mine1 DEF TypeOK, CountedOK, HasBudget, Grading, Keeps
<1>. QED BY <1>5, <1>6, <1>8, <1>9, StepKeeps

\* The log-odds move by 500, but not beyond floor and ceiling.
Learned(row, success) ==
  _clamp(_bayesian_step(row.weight, success), WeightFloor, WeightCeiling)

LEMMA LearnedBounds ==
  ASSUME NEW row \in WeightRow, NEW success \in BOOLEAN
  PROVE  /\ Learned(row, success) \in WeightFloor .. WeightCeiling
         /\ success => /\ Learned(row, success) <= row.weight + 500
                       /\ Learned(row, success) >= row.weight \/ Learned(row, success) >= 0
         /\ ~ success => /\ Learned(row, success) >= row.weight - 500
                         /\ Learned(row, success) <= row.weight \/ Learned(row, success) <= 0
BY BraidAssumption
DEF Learned, _clamp, _bayesian_step, LOG_UPDATE_CLAMP, WeightRow

LEMMA LearnStep ==
  ASSUME IInv, NEW p \in Proc, update_weight_from_outcome(p)
  PROVE  IInv' /\ Mine(p)
<1> DEFINE c == op[p].cap
           success == outcome[p] = "ok"
           old == seen[p].weight
           weight == Learned(old, success)
           now == WeightOf(p)
           row == [weight |-> IF weight # old.weight THEN weight ELSE now.weight,
                   successes |-> IF success THEN old.successes + 1 ELSE now.successes,
                   failures |-> IF success THEN now.failures ELSE old.failures + 1]
<1>1. /\ pc[p] = "learn" /\ WeightFree(p)
      /\ tx' = [tx EXCEPT ![p].weights[c] = row]
      /\ seen' = [seen EXCEPT ![p].weight = NoRow]
      /\ pc' = [pc EXCEPT ![p] = "return"]
      /\ UNCHANGED <<tables, op, outcome, bounds, overlapped>>
  BY DEF update_weight_from_outcome, Goto, Learned
<1>2. c \in Capability /\ old \in WeightRow /\ now \in WeightRow
  BY <1>1, Mine1 DEF LocalOK, Idle
<1>3. weight \in WeightFloor .. WeightCeiling
  BY <1>2, LearnedBounds
<1> HIDE DEF weight
<1>4. row \in WeightRow
  BY <1>2, <1>3 DEF WeightRow
<1>5. row # NoRow
  BY <1>4, RowsAreRows
<1> HIDE DEF row
<1>6. Keeps(p, "weights") /\ tx'[p].weights = [tx[p].weights EXCEPT ![c] = row]
  BY <1>1, <1>2, <1>4, WriteWeight DEF IInv
<1>7. /\ seen' \in [Proc -> [budget : LoadedBudget \cup {NoRow}, weight : WeightRow \cup {NoRow}]]
      /\ \A q \in Proc \ {p} : seen'[q] = seen[q]
  BY <1>1 DEF IInv, TypeOK, LoadedBudget
<1>8. TypeOK'
  BY <1>1, <1>6, <1>7, Mine1 DEF TypeOK, tables, bounds, LoadedBudget, Keeps, Writes, PC
<1>9. Mine(p) /\ RowsStay
  BY <1>1, <1>6, <1>7 DEF Mine, RowsStay, tables, Keeps
<1>10. TakesOnlyFree(p)
  BY <1>1, <1>2, <1>6, FieldTypes DEF TakesOnlyFree, HasBudget, HasWeight, Keeps, IInv, WeightFree
<1>11. LocalOK(p)'
  BY <1>1, <1>2, Mine1 DEF TypeOK, LocalOK, Grading, Idle
<1>12. CountedOK(p)'
  BY <1>1, <1>6, Mine1 DEF TypeOK, CountedOK, HasBudget, Grading, Keeps
<1>. QED BY <1>8, <1>9, <1>10, <1>11, <1>12, StepKeeps

\* A request ends, or the database has failed its statement: its writes are gone.
LEMMA LeaveStep ==
  ASSUME IInv, NEW p \in Proc, Leave(p), RowsStay, overlapped' = overlapped,
         budget' \in [Proc -> BudgetRow \cup {NoRow}],
         weights' \in [Capability -> WeightRow \cup {NoRow}],
         decisions' \in Counts, feedback' \in Grades, records' \in [Flow -> Nat],
         aborts' \in Nat, UNCHANGED <<today, requests, grades>>
  PROVE  IInv' /\ Mine(p)
<1>1. /\ tx' = [tx EXCEPT ![p] = NoWrites]
      /\ op' = [op EXCEPT ![p] = [kind |-> Idle, cap |-> NoRow]]
      /\ seen' = [seen EXCEPT ![p] = [budget |-> NoRow, weight |-> NoRow]]
      /\ outcome' = [outcome EXCEPT ![p] = "none"]
      /\ pc' = [pc EXCEPT ![p] = Idle]
  BY DEF Leave, Goto
<1>2. TypeOK'
  BY <1>1, ForgetWrites, Mine1 DEF TypeOK, PC, Writes
<1>3. Mine(p) /\ TakesOnlyFree(p)
  BY <1>1, ForgetWrites, Mine1 DEF TypeOK, Mine, TakesOnlyFree
<1>4. LocalOK(p)' /\ CountedOK(p)'
  BY <1>1, ForgetWrites, Mine1 DEF TypeOK, LocalOK, CountedOK, Grading, Idle
<1>. QED BY <1>2, <1>3, <1>4, StepKeeps

LEMMA PoisonStep ==
  ASSUME IInv, NEW p \in Proc, Poison(p), pc[p] # Idle
  PROVE  IInv' /\ Mine(p)
<1>1. /\ tx' = [tx EXCEPT ![p] = NoWrites] /\ pc' = [pc EXCEPT ![p] = "poisoned"]
      /\ UNCHANGED <<tables, op, seen, outcome, bounds, overlapped>>
  BY DEF Poison, Goto
<1>2. TypeOK'
  BY <1>1, ForgetWrites, Mine1 DEF TypeOK, PC, Writes, tables, bounds
<1>3. Mine(p) /\ RowsStay /\ TakesOnlyFree(p)
  BY <1>1, ForgetWrites, Mine1 DEF TypeOK, Mine, RowsStay, TakesOnlyFree, tables
<1>4. LocalOK(p)' /\ CountedOK(p)'
  BY <1>1, Mine1 DEF TypeOK, LocalOK, CountedOK, Grading, Idle
<1>. QED BY <1>2, <1>3, <1>4, StepKeeps

\* What a commit makes of the tables.
LEMMA CommitTables ==
  ASSUME IInv, NEW p \in Proc, Commit(p)
  PROVE  /\ RowsStay
         /\ budget' \in [Proc -> BudgetRow \cup {NoRow}]
         /\ \A r \in Proc : budget'[r] = BudgetOf(p, r)
         /\ weights' \in [Capability -> WeightRow \cup {NoRow}]
         /\ \A c \in Capability :
              weights'[c] = IF HasWeight(p, c) THEN tx[p].weights[c] ELSE weights[c]
         /\ decisions' \in Counts /\ feedback' \in Grades /\ records' \in [Flow -> Nat]
<1>1. /\ budget' = [r \in Proc |-> BudgetOf(p, r)]
      /\ weights' = [c \in Capability |->
                       IF HasWeight(p, c) THEN tx[p].weights[c] ELSE weights[c]]
      /\ decisions' = [c \in Capability |->
                         [o \in Outcome |-> decisions[c][o] + tx[p].decisions[c][o]]]
      /\ feedback' = [c \in Capability |->
                        [g \in {"ok", "error"} |-> feedback[c][g] + tx[p].feedback[c][g]]]
      /\ records' = [f \in Flow |-> records[f] + tx[p].records[f]]
  BY DEF Commit
<1>2. budget' \in [Proc -> BudgetRow \cup {NoRow}]
  BY <1>1, Mine1
<1>3. weights' \in [Capability -> WeightRow \cup {NoRow}]
  BY <1>1, Mine1, FieldTypes DEF TypeOK
<1>4. decisions' \in Counts
  BY <1>1, Mine1, FieldTypes DEF TypeOK, Counts
<1>5. feedback' \in Grades
  BY <1>1, Mine1, FieldTypes DEF TypeOK, Grades
<1>6. records' \in [Flow -> Nat]
  BY <1>1, Mine1, FieldTypes DEF TypeOK
<1>7. RowsStay
  BY <1>1 DEF RowsStay, BudgetOf, HasWeight
<1>. QED BY <1>1, <1>2, <1>3, <1>4, <1>5, <1>6, <1>7

LEMMA EndStep ==
  ASSUME IInv, NEW p \in Proc,
         Commit(p) \/ DuplicateWeight(p) \/ DeadlockVictim(p) \/ GiveUp(p) \/ Abort(p)
  PROVE  IInv' /\ Mine(p)
<1>1. CASE Commit(p)
  <2>1. /\ Leave(p) /\ overlapped' = overlapped /\ aborts' \in Nat
        /\ UNCHANGED <<today, requests, grades>>
    BY <1>1 DEF Commit, bounds, IInv, TypeOK
  <2>. QED BY <1>1, <2>1, CommitTables, LeaveStep
<1>2. CASE GiveUp(p) \/ Abort(p)
  <2>1. /\ Leave(p) /\ overlapped' = overlapped /\ aborts' \in Nat
        /\ UNCHANGED <<today, requests, grades>> /\ UNCHANGED tables
    BY <1>2 DEF GiveUp, Abort, bounds, IInv, TypeOK
  <2>2. /\ budget' \in [Proc -> BudgetRow \cup {NoRow}]
        /\ weights' \in [Capability -> WeightRow \cup {NoRow}]
        /\ decisions' \in Counts /\ feedback' \in Grades /\ records' \in [Flow -> Nat]
    BY <2>1 DEF tables, IInv, TypeOK
  <2>. QED BY <2>1, <2>2, TablesKept, LeaveStep
<1>3. CASE DuplicateWeight(p)
  BY <1>3, PoisonStep DEF DuplicateWeight, Idle
<1>4. CASE DeadlockVictim(p)
  <2>1. pc[p] # Idle
    BY <1>4 DEF DeadlockVictim, WaitsFor, Idle
  <2>. QED BY <1>4, <2>1, PoisonStep DEF DeadlockVictim
<1>. QED BY <1>1, <1>2, <1>3, <1>4

\* Nothing that a request holds or has written changes.
LEMMA IdleStep ==
  ASSUME IInv, UNCHANGED <<tables, tx, local, requests, grades, aborts, overlapped>>,
         today' \in Nat
  PROVE  IInv'
BY DEF IInv, TypeOK, LocksOK, LocalOK, CountedOK, HasBudget, HasWeight, BudgetOf, WeightOf,
       Grading, tables, local

\* Every request holds what it has written alone, for any number of requests.
THEOREM Invariance == Spec => []IInv
<1>1. Init => IInv
  <2> SUFFICES ASSUME Init PROVE IInv
    OBVIOUS
  <2>1. tx = [p \in Proc |-> NoWrites] /\ budget \in [Proc -> {FreshBudget, NoRow}]
    BY DEF Init, NoWrites
  <2>2. NoWrites.weights \in [Capability -> {NoRow}] /\ NoWrites.decisions \in Counts
        /\ NoWrites.feedback \in Grades /\ NoWrites.records \in [Flow -> Nat]
    BY DEF NoWrites, Counts, Grades, Outcome
  <2>3. TypeOK
    BY <2>1, <2>2, NoWritesTyped, RowsAreRows
    DEF Init, TypeOK, Writes, PC, Idle, Outcome
  <2>4. \A p \in Proc : /\ \A r \in Proc : ~ HasBudget(p, r)
                       /\ \A c \in Capability : ~ HasWeight(p, c)
    BY <2>1 DEF HasBudget, HasWeight, NoWrites
  <2>5. \A p \in Proc : LocalOK(p) /\ CountedOK(p)
    BY <2>1 DEF Init, LocalOK, CountedOK, Grading, Idle
  <2>. QED BY <2>3, <2>4, <2>5 DEF IInv, LocksOK
<1>2. IInv /\ [Next]_vars => IInv'
  <2> SUFFICES ASSUME IInv, [Next]_vars PROVE IInv'
    OBVIOUS
  <2>1. ASSUME NEW p \in Proc, NEW f \in Started, Begin(p, f) PROVE IInv'
    BY <2>1, HookStep, BraidAssumption DEF Begin, IInv, TypeOK
  <2>2. ASSUME NEW p \in Proc, AutoProposal(p) PROVE IInv'
    BY <2>2, HookStep DEF AutoProposal, bounds, IInv, TypeOK, Flow
  <2>3. ASSUME NEW p \in Proc, Step(p) PROVE IInv'
    BY <2>2, <2>3, CreateBudgetStep, LoadBudgetStep, RollStep, LoadWeightStep, InsertStep,
       ConsumeStep, HandlerStep, AuditStep, LearnStep, EndStep DEF Step
  <2>4. CASE WindowEnds \/ UNCHANGED vars
    BY <2>4, IdleStep DEF WindowEnds, vars, bounds, IInv, TypeOK
  <2>. QED BY <2>1, <2>3, <2>4, GradeStep, EndStep DEF Next
<1>. QED BY <1>1, <1>2, PTL DEF Spec

\* Rows, writes and loaded rows keep their shape, and a weight stays between its
\* floor and its ceiling.
THEOREM TypeCorrect == Spec => []TypeOK
BY Invariance, PTL DEF IInv

\* While there is one budget row the calls of the API are serial: a handler runs
\* under a lock on the row that counted its call.
THEOREM OneCallAtATime == ASSUME IsFiniteSet(Proc) PROVE Spec => []CallsAreSerial
<1>1. ASSUME IInv, OneBudgetRow, NEW p \in Proc, NEW q \in Proc,
             pc[p] = "handler", pc[q] = "handler"
      PROVE  p = q
  <2>1. PICK r \in Proc : HasBudget(p, r)
    BY <1>1 DEF IInv, CountedOK
  <2>2. PICK s \in Proc : HasBudget(q, s)
    BY <1>1 DEF IInv, CountedOK
  <2>3. r \in BudgetRows /\ s \in BudgetRows
    BY <2>1, <2>2 DEF BudgetRows
  <2>4. r = s
    BY <1>1, <2>3, OnlyOne DEF OneBudgetRow
  <2>. QED BY <1>1, <2>1, <2>2, <2>4 DEF IInv, LocksOK
<1>2. IInv => CallsAreSerial
  BY <1>1 DEF CallsAreSerial
<1>. QED BY <1>2, Invariance, PTL

-----------------------------------------------------------------------------
(* What a weight has learned.  A call that holds the one budget row is the *)
(* only call that commits; a grade of a capability in use is set aside.    *)

OneRow == \A r, s \in Proc : budget[r] # NoRow /\ budget[s] # NoRow => r = s

\* p sees one budget row at most: it commits no second one.
Alone(p) ==
  \A r, s \in Proc : BudgetOf(p, r) # NoRow /\ BudgetOf(p, s) # NoRow => r = s

Learnt(row) == IF row = NoRow THEN 0 ELSE row.successes + row.failures

EarnedBy(row) ==
  row # NoRow => /\ -500 * row.failures <= row.weight
                 /\ row.weight <= 500 * row.successes

\* Decisions and grades that p has written and not committed.
Written(p, c) ==
  tx[p].decisions[c]["ok"] + tx[p].decisions[c]["error"] + tx[p].decisions[c]["skipped"]
    + tx[p].feedback[c]["ok"] + tx[p].feedback[c]["error"]

\* One of them is yet to be learned.
Unlearnt(p, c) ==
  IF op[p].cap = c /\ (pc[p] = "learn" \/ (Grading(p) /\ pc[p] \in {"weight", "insert"}))
  THEN 1 ELSE 0

\* A capability that is in use while it is graded is marked.
WatchOK ==
  \A p, q \in Proc, c \in Capability :
    /\ p # q /\ pc[q] # Idle /\ Grading(q) /\ op[q].cap = c
    /\ pc[p] # Idle /\ (op[p].cap = c \/ HasWeight(p, c))
    => c \in overlapped

GraderOK(p) == Grading(p) => \A c \in Capability : HasWeight(p, c) => c = op[p].cap

\* What is not in a weight row of p was not learned.
WrittenOK(p) ==
  \A c \in Capability : ~ HasWeight(p, c) => Written(p, c) = Unlearnt(p, c)

\* The weight to learn on is the present one.
SeenOK(p) ==
  pc[p] = "learn" /\ Alone(p) /\ op[p].cap \notin overlapped =>
    seen[p].weight = WeightOf(p)

\* A weight row that p has written counts what is committed and what p wrote.
RowOK(p) ==
  \A c \in Capability :
    HasWeight(p, c) /\ Alone(p) /\ c \notin overlapped =>
      /\ Learnt(tx[p].weights[c]) + Unlearnt(p, c) = Total(c) + Written(p, c)
      /\ EarnedBy(tx[p].weights[c])

TableOK ==
  \A c \in Capability :
    OneRow /\ c \notin overlapped => Learnt(weights[c]) = Total(c) /\ EarnedBy(weights[c])

RequestLearns(p) == GraderOK(p) /\ WrittenOK(p) /\ SeenOK(p) /\ RowOK(p)

LearnInv == WatchOK /\ TableOK /\ \A p \in Proc : RequestLearns(p)

\* Numbers.
LEMMA Numbers ==
  ASSUME TypeOK, NEW p \in Proc, NEW c \in Capability
  PROVE  /\ Total(c) \in Nat /\ Written(p, c) \in Nat /\ Unlearnt(p, c) \in {0, 1}
         /\ weights[c] \in WeightRow \cup {NoRow}
         /\ tx[p].weights[c] \in WeightRow \cup {NoRow}
         /\ \A o \in Outcome : decisions[c][o] \in Nat /\ tx[p].decisions[c][o] \in Nat
         /\ \A g \in {"ok", "error"} : feedback[c][g] \in Nat /\ tx[p].feedback[c][g] \in Nat
<1>1. /\ decisions \in Counts /\ feedback \in Grades
      /\ tx[p].decisions \in Counts /\ tx[p].feedback \in Grades
  BY FieldTypes DEF TypeOK
<1>2. /\ \A o \in Outcome : decisions[c][o] \in Nat /\ tx[p].decisions[c][o] \in Nat
      /\ \A g \in {"ok", "error"} : feedback[c][g] \in Nat /\ tx[p].feedback[c][g] \in Nat
  BY <1>1 DEF Counts, Grades
<1>3. Total(c) \in Nat /\ Written(p, c) \in Nat
  BY <1>2 DEF Total, Written, Outcome
<1>4. Unlearnt(p, c) \in {0, 1}
  BY DEF Unlearnt
<1>. QED BY <1>2, <1>3, <1>4, FieldTypes DEF TypeOK

\* The others' steps.
LEMMA LearnFrame ==
  ASSUME LearnInv, NEW p \in Proc, Mine(p),
         UNCHANGED <<budget, weights, decisions, feedback>>,
         overlapped \subseteq overlapped', WatchOK', RequestLearns(p)'
  PROVE  LearnInv'
<1>1. OneRow' = OneRow /\ \A c \in Capability : Total(c)' = Total(c)
  BY DEF OneRow, Total
<1>2. TableOK'
  BY <1>1 DEF LearnInv, TableOK
<1>3. ASSUME NEW q \in Proc \ {p} PROVE RequestLearns(q)'
  <2>1. /\ pc'[q] = pc[q] /\ op'[q] = op[q] /\ seen'[q] = seen[q] /\ tx'[q] = tx[q]
        /\ RequestLearns(q)
    BY DEF Mine, LearnInv
  <2>2. /\ Alone(q)' = Alone(q) /\ WeightOf(q)' = WeightOf(q) /\ Grading(q)' = Grading(q)
        /\ \A c \in Capability : /\ HasWeight(q, c)' = HasWeight(q, c)
                                 /\ Written(q, c)' = Written(q, c)
                                 /\ Unlearnt(q, c)' = Unlearnt(q, c)
    BY <2>1 DEF Alone, BudgetOf, WeightOf, HasWeight, Written, Unlearnt, Grading
  <2>3. GraderOK(q)' /\ WrittenOK(q)'
    BY <2>1, <2>2 DEF RequestLearns, GraderOK, WrittenOK
  <2>4. SeenOK(q)'
    BY <2>1, <2>2 DEF RequestLearns, SeenOK
  <2>5. RowOK(q)'
    BY <1>1, <2>1, <2>2 DEF RequestLearns, RowOK
  <2>. QED BY <2>3, <2>4, <2>5 DEF RequestLearns
<1>. QED BY <1>2, <1>3 DEF LearnInv

\* A request that goes on with its capability.
LEMMA WatchKept ==
  ASSUME LearnInv, NEW p \in Proc, Mine(p), pc[p] # Idle, op'[p] = op[p],
         \A c \in Capability : HasWeight(p, c)' => HasWeight(p, c) \/ c = op[p].cap,
         overlapped \subseteq overlapped'
  PROVE  WatchOK'
<1>1. \A q \in Proc \ {p} : /\ pc'[q] = pc[q] /\ op'[q] = op[q]
                           /\ \A c \in Capability : HasWeight(q, c)' = HasWeight(q, c)
  BY DEF Mine, HasWeight
<1>2. \A q \in Proc : Grading(q)' = Grading(q) /\ op'[q] = op[q]
  BY <1>1 DEF Grading
<1>. QED BY <1>1, <1>2 DEF LearnInv, WatchOK

\* A request that has written nothing, and has nothing to learn.
LEMMA NothingLearnt ==
  ASSUME NEW p \in Proc, tx'[p] = NoWrites, pc'[p] \in {Idle, "poisoned"}
  PROVE  RequestLearns(p)'
<1>1. \A c \in Capability : /\ ~ HasWeight(p, c)' /\ Written(p, c)' = 0
                           /\ Unlearnt(p, c)' = 0
  BY DEF HasWeight, Written, Unlearnt, NoWrites, Outcome, Idle
<1>. QED BY <1>1 DEF RequestLearns, GraderOK, WrittenOK, SeenOK, RowOK, Idle

\* Steps that neither write nor learn.
LEMMA QuietStep ==
  ASSUME LearnInv, NEW p \in Proc, Mine(p), pc[p] # Idle, op'[p] = op[p],
         UNCHANGED <<budget, weights, decisions, feedback, overlapped>>,
         tx'[p].weights = tx[p].weights, tx'[p].decisions = tx[p].decisions,
         tx'[p].feedback = tx[p].feedback,
         \A r \in Proc : BudgetOf(p, r) # NoRow => BudgetOf(p, r)' # NoRow,
         \A c \in Capability : Unlearnt(p, c)' = Unlearnt(p, c),
         SeenOK(p)'
  PROVE  LearnInv'
<1>1. \A c \in Capability : HasWeight(p, c)' = HasWeight(p, c) /\ Written(p, c)' = Written(p, c)
  BY DEF HasWeight, Written
<1>2. Alone(p)' => Alone(p)
  BY DEF Alone
<1>3. \A c \in Capability : Total(c)' = Total(c)
  BY DEF Total
<1>4. WatchOK'
  BY <1>1, WatchKept
<1>5. GraderOK(p)' /\ WrittenOK(p)'
  BY <1>1 DEF LearnInv, RequestLearns, GraderOK, WrittenOK, Grading
<1>6. RowOK(p)'
  BY <1>1, <1>2, <1>3 DEF LearnInv, RequestLearns, RowOK
<1>. QED BY <1>4, <1>5, <1>6, LearnFrame DEF RequestLearns
\* What p sees includes what is committed.
LEMMA AloneSeesAll == ASSUME NEW p \in Proc, Alone(p) PROVE OneRow
BY DEF Alone, OneRow, BudgetOf

LEMMA CallStep ==
  ASSUME IInv, LearnInv, NEW p \in Proc,
         \/ CreateBudget(p) \/ LoadBudget(p) \/ RollWindow(p)
         \/ consume_budget(p) \/ Handler(p)
  PROVE  LearnInv'
<1>1. Mine(p)
  BY CreateBudgetStep, LoadBudgetStep, RollStep, ConsumeStep, HandlerStep
<1>2. /\ pc[p] \in {"budget", "roll", "consume", "handler"}
      /\ pc'[p] \in {"roll", "weight", "handler", "audit"}
      /\ UNCHANGED <<tables, op, overlapped>>
  BY Mine1
  DEF CreateBudget, LoadBudget, RollWindow, consume_budget, Handler, Goto, TypeOK
<1>3. pc[p] # Idle /\ ~ Grading(p) /\ ~ Grading(p)'
  BY <1>2, Mine1 DEF LocalOK, Idle, Grading
<1>4. \A c \in Capability : Unlearnt(p, c)' = Unlearnt(p, c)
  BY <1>2, <1>3 DEF Unlearnt
<1>5. SeenOK(p)'
  BY <1>2 DEF SeenOK
<1>6. /\ tx'[p].weights = tx[p].weights /\ tx'[p].decisions = tx[p].decisions
      /\ tx'[p].feedback = tx[p].feedback
      /\ \A r \in Proc : tx[p].budget[r] # NoRow => tx'[p].budget[r] # NoRow
  <2>1. CASE LoadBudget(p) \/ Handler(p)
    BY <2>1 DEF LoadBudget, Handler
  <2>2. ASSUME NEW r \in Proc, NEW row \in BudgetRow,
               tx' = [tx EXCEPT ![p].budget[r] = row]
        PROVE  <1>6
    BY <2>2, WriteBudget, FieldTypes, RowsAreRows DEF Keeps, IInv
  <2>3. CASE CreateBudget(p)
    BY <2>2, <2>3, RowsAreRows DEF CreateBudget, IInv, TypeOK
  <2>4. CASE RollWindow(p)
    BY <2>2, <2>4, RollWrites
  <2>5. CASE consume_budget(p)
    BY <2>2, <2>5, ConsumeWrites
  <2>. QED BY <2>1, <2>3, <2>4, <2>5
<1>7. \A r \in Proc : BudgetOf(p, r) # NoRow => BudgetOf(p, r)' # NoRow
  BY <1>2, <1>6 DEF BudgetOf, tables
<1>. QED BY <1>1, <1>2, <1>3, <1>4, <1>5, <1>6, <1>7, QuietStep DEF tables

LEMMA LoadWeightLearns ==
  ASSUME IInv, LearnInv, NEW p \in Proc, LoadWeight(p)
  PROVE  LearnInv'
<1>1. Mine(p)
  BY LoadWeightStep
<1>2. /\ pc[p] = "weight" /\ UNCHANGED <<tables, tx, op, overlapped>>
      /\ seen' = [seen EXCEPT ![p].weight = WeightOf(p)]
      /\ pc' = [pc EXCEPT ![p] = IF WeightOf(p) = NoRow THEN "insert" ELSE AfterWeight(p)]
  BY DEF LoadWeight, Goto
<1>3. /\ pc'[p] \in {"insert", "learn", "consume"}
      /\ pc'[p] = "consume" => ~ Grading(p)
      /\ pc'[p] = "learn" => Grading(p)
  BY <1>2, Mine1 DEF TypeOK, AfterWeight, Grading
<1>4. \A c \in Capability : Unlearnt(p, c)' = Unlearnt(p, c)
  BY <1>2, <1>3 DEF Unlearnt, Grading
<1>5. seen'[p].weight = WeightOf(p) /\ WeightOf(p)' = WeightOf(p)
  BY <1>2, Mine1 DEF TypeOK, WeightOf, tables
<1>6. SeenOK(p)'
  BY <1>5 DEF SeenOK
<1>7. \A r \in Proc : BudgetOf(p, r)' = BudgetOf(p, r)
  BY <1>2 DEF BudgetOf, tables
<1>. QED BY <1>1, <1>2, <1>4, <1>6, <1>7, QuietStep DEF tables, Idle

\* The row that InsertWeight makes has learned nothing, and nothing was decided.
LEMMA InsertLearns ==
  ASSUME IInv, LearnInv, NEW p \in Proc, InsertWeight(p)
  PROVE  LearnInv'
<1> DEFINE row == [weight |-> 0, successes |-> 0, failures |-> 0]
<1>1. Mine(p)
  BY InsertStep
<1>3. PICK c \in Capability : c = op[p].cap /\ pc[p] # Idle
  BY Mine1 DEF InsertWeight, LocalOK, Idle
<1>2. /\ c = op[p].cap /\ pc[p] = "insert" /\ WeightOf(p) = NoRow
      /\ tx' = [tx EXCEPT ![p].weights[c] = row]
      /\ seen' = [seen EXCEPT ![p].weight = row]
      /\ pc' = [pc EXCEPT ![p] = AfterWeight(p)]
      /\ UNCHANGED <<tables, op, overlapped>>
  BY <1>3 DEF InsertWeight, Goto
<1>4. row \in WeightRow /\ row # NoRow
  BY RowsAreRows, BraidAssumption DEF WeightRow
<1>5. Learnt(row) = 0 /\ EarnedBy(row)
  BY <1>4 DEF Learnt, EarnedBy
<1> HIDE DEF row
<1>6. Keeps(p, "weights") /\ tx'[p].weights = [tx[p].weights EXCEPT ![c] = row]
  BY <1>2, <1>3, <1>4, WriteWeight DEF IInv
<1>7. /\ \A d \in Capability \ {c} : /\ HasWeight(p, d)' = HasWeight(p, d)
                                    /\ tx'[p].weights[d] = tx[p].weights[d]
      /\ tx'[p].weights[c] = row /\ HasWeight(p, c)'
      /\ ~ HasWeight(p, c) /\ weights[c] = NoRow
  BY <1>2, <1>3, <1>4, <1>6, FieldTypes DEF HasWeight, WeightOf, IInv
<1>8. /\ \A d \in Capability : Written(p, d)' = Written(p, d) /\ Total(d)' = Total(d)
      /\ Alone(p)' = Alone(p) /\ OneRow' = OneRow
  BY <1>2, <1>6 DEF Written, Total, Alone, BudgetOf, OneRow, tables, Keeps
<1>9. /\ pc'[p] \in {"learn", "consume"}
      /\ pc'[p] = "consume" <=> ~ Grading(p)
      /\ Grading(p)' = Grading(p)
  BY <1>2, Mine1 DEF TypeOK, AfterWeight, Grading
<1>10. \A d \in Capability : Unlearnt(p, d)' = Unlearnt(p, d)
  BY <1>2, <1>9 DEF Unlearnt
<1>11. GraderOK(p)'
  BY <1>2, <1>7, <1>9 DEF LearnInv, RequestLearns, GraderOK
<1>12. WrittenOK(p)'
  BY <1>7, <1>8, <1>10 DEF LearnInv, RequestLearns, WrittenOK
<1>13. SeenOK(p)'
  BY <1>2, <1>3, <1>7, Mine1 DEF TypeOK, SeenOK, WeightOf, HasWeight
<1>14. RowOK(p)'
  <2>1. ASSUME NEW d \in Capability \ {c}
        PROVE  HasWeight(p, d)' /\ Alone(p)' /\ d \notin overlapped' =>
                 /\ Learnt(tx'[p].weights[d]) + Unlearnt(p, d)' = Total(d)' + Written(p, d)'
                 /\ EarnedBy(tx'[p].weights[d])
    BY <1>2, <1>7, <1>8, <1>10 DEF LearnInv, RequestLearns, RowOK
  <2>2. ASSUME Alone(p)', c \notin overlapped'
        PROVE  Learnt(row) + Unlearnt(p, c)' = Total(c)' + Written(p, c)'
    <3>1. OneRow
      BY <1>8, <2>2, AloneSeesAll
    <3>2. Total(c) = 0
      BY <1>2, <1>3, <1>7, <2>2, <3>1 DEF LearnInv, TableOK, Learnt
    <3>3. Written(p, c) = Unlearnt(p, c)
      BY <1>3, <1>7 DEF LearnInv, RequestLearns, WrittenOK
    <3>4. /\ Unlearnt(p, c)' = Unlearnt(p, c) /\ Total(c)' = 0
          /\ Written(p, c)' = Unlearnt(p, c) /\ Unlearnt(p, c) \in {0, 1}
      BY <1>3, <1>8, <1>10, <3>2, <3>3, Numbers DEF IInv
    <3>. QED BY <1>5, <3>4
  <2>3. \A d \in Capability :
          HasWeight(p, d)' /\ Alone(p)' /\ d \notin overlapped' =>
            /\ Learnt(tx'[p].weights[d]) + Unlearnt(p, d)' = Total(d)' + Written(p, d)'
            /\ EarnedBy(tx'[p].weights[d])
    BY <1>5, <1>7, <2>1, <2>2
  <2>. QED BY <2>3 DEF RowOK, Learnt, EarnedBy
<1>15. WatchOK'
  BY <1>1, <1>2, <1>3, <1>7, WatchKept
<1>. QED BY <1>1, <1>2, <1>11, <1>12, <1>13, <1>14, <1>15, LearnFrame DEF RequestLearns, tables

\* The decision that _audit writes is learned next, on the weight it loads.
LEMMA AuditLearns ==
  ASSUME IInv, LearnInv, NEW p \in Proc, _audit(p)
  PROVE  LearnInv'
<1>1. Mine(p)
  BY AuditStep
<1>2. PICK c \in Capability : c = op[p].cap /\ pc[p] # Idle
  BY Mine1 DEF _audit, LocalOK, Idle
<1>3. PICK o \in Outcome : o = outcome[p] /\ ~ Grading(p)
  BY Mine1 DEF _audit, LocalOK
<1>4. /\ pc[p] = "audit" /\ pc'[p] = "learn"
      /\ tx' = [tx EXCEPT ![p].decisions[c][o] = @ + 1]
      /\ seen' = [seen EXCEPT ![p] = [budget |-> NoRow, weight |-> WeightOf(p)]]
      /\ UNCHANGED <<tables, op, overlapped>>
  BY <1>2, <1>3, Mine1 DEF _audit, Goto, TypeOK
<1>5. /\ Keeps(p, "decisions")
      /\ tx'[p].decisions =
           [tx[p].decisions EXCEPT ![c] = [tx[p].decisions[c] EXCEPT ![o] = @ + 1]]
  <2>1. TypeOK /\ tx' = [tx EXCEPT ![p].decisions[c][o] = @ + 1]
    BY <1>4 DEF IInv
  <2>. QED BY <2>1, WriteDecision
<1>6. /\ Written(p, c)' = Written(p, c) + 1
      /\ \A d \in Capability \ {c} : Written(p, d)' = Written(p, d)
  <2>1. tx[p].decisions \in Counts /\ tx'[p].feedback = tx[p].feedback
    BY <1>5, FieldTypes DEF IInv, Keeps
  <2>2. \A d \in Capability \ {c} : tx'[p].decisions[d] = tx[p].decisions[d]
    BY <1>5, <2>1 DEF Counts
  <2>3. tx'[p].decisions[c] = [tx[p].decisions[c] EXCEPT ![o] = @ + 1]
    BY <1>5, <2>1 DEF Counts
  <2>4. tx[p].decisions[c] \in [Outcome -> Nat]
    BY <2>1 DEF Counts
  <2>5. \A g \in {"ok", "error"} : tx[p].feedback[c][g] \in Nat
    BY Numbers DEF IInv
  <2>. QED BY <1>3, <2>1, <2>2, <2>3, <2>4, <2>5 DEF Written, Outcome
<1>7. /\ \A d \in Capability : /\ Total(d)' = Total(d) /\ HasWeight(p, d)' = HasWeight(p, d)
                              /\ tx'[p].weights[d] = tx[p].weights[d]
      /\ Alone(p)' = Alone(p) /\ WeightOf(p)' = WeightOf(p) /\ Grading(p)' = Grading(p)
  BY <1>4, <1>5 DEF Total, HasWeight, Alone, BudgetOf, WeightOf, Grading, tables, Keeps
<1>8. /\ Unlearnt(p, c) = 0 /\ Unlearnt(p, c)' = 1
      /\ \A d \in Capability \ {c} : Unlearnt(p, d)' = Unlearnt(p, d)
  BY <1>2, <1>3, <1>4 DEF Unlearnt
<1>9. GraderOK(p)'
  BY <1>3, <1>7 DEF GraderOK
<1>10. WrittenOK(p)'
  BY <1>6, <1>7, <1>8, Numbers DEF LearnInv, RequestLearns, WrittenOK, IInv
<1>11. SeenOK(p)'
  BY <1>4, <1>7, Mine1 DEF SeenOK, TypeOK
<1>12. RowOK(p)'
  <2>1. ASSUME NEW d \in Capability, HasWeight(p, d), Alone(p), d \notin overlapped
        PROVE  /\ Learnt(tx[p].weights[d]) + Unlearnt(p, d)' = Total(d) + Written(p, d)'
               /\ EarnedBy(tx[p].weights[d])
    <3>1. /\ Learnt(tx[p].weights[d]) + Unlearnt(p, d) = Total(d) + Written(p, d)
          /\ EarnedBy(tx[p].weights[d])
      BY <2>1 DEF LearnInv, RequestLearns, RowOK
    <3>2. Learnt(tx[p].weights[d]) \in Nat /\ Total(d) \in Nat /\ Written(p, d) \in Nat
      BY Numbers DEF Learnt, WeightRow, IInv
    <3>. QED BY <1>6, <1>8, <3>1, <3>2
  <2>2. \A d \in Capability :
          HasWeight(p, d)' /\ Alone(p)' /\ d \notin overlapped' =>
            /\ Learnt(tx'[p].weights[d]) + Unlearnt(p, d)' = Total(d)' + Written(p, d)'
            /\ EarnedBy(tx'[p].weights[d])
    BY <1>4, <1>7, <2>1
  <2>. QED BY <2>2 DEF RowOK, Learnt, EarnedBy
<1>13. WatchOK'
  BY <1>1, <1>2, <1>4, <1>7, WatchKept
<1>. QED BY <1>1, <1>4, <1>9, <1>10, <1>11, <1>12, <1>13, LearnFrame DEF RequestLearns, tables

\* What update_weight_from_outcome makes of the row it has loaded, when that row
\* is the present one.
LEMMA LearnedRow ==
  ASSUME NEW old \in WeightRow, NEW success \in BOOLEAN, NEW row, EarnedBy(old),
         row = [weight |-> IF Learned(old, success) # old.weight
                             THEN Learned(old, success) ELSE old.weight,
                successes |-> IF success THEN old.successes + 1 ELSE old.successes,
                failures |-> IF success THEN old.failures ELSE old.failures + 1]
  PROVE  row \in WeightRow /\ Learnt(row) = Learnt(old) + 1 /\ EarnedBy(row)
<1>1. old # NoRow /\ old.successes \in Nat /\ old.failures \in Nat /\ old.weight \in Int
  BY RowsAreRows, BraidAssumption DEF WeightRow
<1>2. row.weight = Learned(old, success) /\ row.weight \in WeightFloor .. WeightCeiling
  BY LearnedBounds
<1>3. row \in WeightRow /\ row # NoRow
  BY <1>1, <1>2, RowsAreRows DEF WeightRow
<1>4. row.weight \in Int /\ row.successes \in Nat /\ row.failures \in Nat
  BY <1>3, BraidAssumption DEF WeightRow
<1>5. Learnt(row) = Learnt(old) + 1
  BY <1>1, <1>3 DEF Learnt
<1>6. -500 * old.failures <= old.weight /\ old.weight <= 500 * old.successes
  BY <1>1 DEF EarnedBy
<1>7. CASE success
  <2>1. row.successes = old.successes + 1 /\ row.failures = old.failures
    BY <1>7
  <2>2. row.weight <= old.weight + 500 /\ (row.weight >= old.weight \/ row.weight >= 0)
    <3>1. /\ Learned(old, success) <= old.weight + 500
          /\ Learned(old, success) >= old.weight \/ Learned(old, success) >= 0
      BY <1>7, LearnedBounds, Zenon
    <3>. QED BY <1>2, <3>1
  <2>3. -500 * row.failures <= row.weight /\ row.weight <= 500 * row.successes
    BY <1>1, <1>4, <1>6, <2>1, <2>2
  <2>. QED BY <1>3, <1>5, <2>3 DEF EarnedBy
<1>8. CASE ~ success
  <2>1. row.successes = old.successes /\ row.failures = old.failures + 1
    BY <1>8
  <2>2. row.weight >= old.weight - 500 /\ (row.weight <= old.weight \/ row.weight <= 0)
    BY <1>2, <1>8, LearnedBounds
  <2>3. -500 * row.failures <= row.weight /\ row.weight <= 500 * row.successes
    BY <1>1, <1>4, <1>6, <2>1, <2>2
  <2>. QED BY <1>3, <1>5, <2>3 DEF EarnedBy
<1>. QED BY <1>7, <1>8

\* The row that update_weight_from_outcome writes counts one more decision.
LEMMA LearnLearns ==
  ASSUME IInv, LearnInv, NEW p \in Proc, update_weight_from_outcome(p)
  PROVE  LearnInv'
<1>1. Mine(p)
  BY LearnStep
<1>2. PICK c \in Capability : c = op[p].cap /\ pc[p] # Idle
  BY Mine1 DEF update_weight_from_outcome, LocalOK, Idle
<1>3. PICK success \in BOOLEAN : success = (outcome[p] = "ok")
  OBVIOUS
<1> DEFINE old == seen[p].weight
           now == WeightOf(p)
           row == [weight |-> IF Learned(old, success) # old.weight
                                THEN Learned(old, success) ELSE now.weight,
                   successes |-> IF success THEN old.successes + 1 ELSE now.successes,
                   failures |-> IF success THEN now.failures ELSE old.failures + 1]
<1>4. /\ pc[p] = "learn" /\ pc'[p] = "return"
      /\ tx' = [tx EXCEPT ![p].weights[c] = row]
      /\ UNCHANGED <<tables, op, overlapped>>
  BY <1>2, <1>3, Mine1 DEF update_weight_from_outcome, Goto, Learned, TypeOK
<1>5. old \in WeightRow /\ now \in WeightRow /\ now # NoRow
  BY <1>2, <1>4, Mine1 DEF LocalOK
<1>6. row \in WeightRow
  <2>1. Learned(old, success) \in WeightFloor .. WeightCeiling
    BY <1>5, LearnedBounds
  <2>. QED BY <1>5, <2>1 DEF WeightRow
<1> HIDE DEF row
<1>7. Keeps(p, "weights") /\ tx'[p].weights = [tx[p].weights EXCEPT ![c] = row]
  BY <1>4, <1>6, WriteWeight DEF IInv
<1>8. /\ \A d \in Capability \ {c} : /\ HasWeight(p, d)' = HasWeight(p, d)
                                    /\ tx'[p].weights[d] = tx[p].weights[d]
      /\ tx'[p].weights[c] = row /\ HasWeight(p, c)'
  BY <1>6, <1>7, RowsAreRows, FieldTypes DEF HasWeight, IInv
<1>9. /\ \A d \in Capability : Written(p, d)' = Written(p, d) /\ Total(d)' = Total(d)
      /\ Alone(p)' = Alone(p) /\ Grading(p)' = Grading(p)
  BY <1>4, <1>7 DEF Written, Total, Alone, BudgetOf, Grading, tables, Keeps
<1>10. /\ Unlearnt(p, c) = 1 /\ \A d \in Capability : Unlearnt(p, d)' = 0
       /\ \A d \in Capability \ {c} : Unlearnt(p, d) = 0
  BY <1>2, <1>4 DEF Unlearnt
<1>11. GraderOK(p)'
  BY <1>2, <1>4, <1>8, <1>9 DEF LearnInv, RequestLearns, GraderOK
<1>12. WrittenOK(p)'
  BY <1>8, <1>9, <1>10 DEF LearnInv, RequestLearns, WrittenOK
<1>13. SeenOK(p)'
  BY <1>4 DEF SeenOK
<1>14. ASSUME Alone(p), c \notin overlapped
       PROVE  Learnt(row) = Total(c) + Written(p, c) /\ EarnedBy(row)
  <2>1. old = now
    BY <1>2, <1>4, <1>14 DEF LearnInv, RequestLearns, SeenOK
  <2>2. Learnt(now) + 1 = Total(c) + Written(p, c) /\ EarnedBy(now)
    <3>1. CASE HasWeight(p, c)
      <4>1. now = tx[p].weights[c]
        BY <1>2, <3>1 DEF WeightOf, HasWeight
      <4>. QED BY <1>10, <1>14, <3>1, <4>1 DEF LearnInv, RequestLearns, RowOK
    <3>2. CASE ~ HasWeight(p, c)
      <4>1. now = weights[c]
        BY <1>2, <3>2 DEF WeightOf, HasWeight
      <4>2. Learnt(weights[c]) = Total(c) /\ EarnedBy(weights[c])
        BY <1>14, AloneSeesAll DEF LearnInv, TableOK
      <4>3. Written(p, c) = 1
        BY <1>10, <3>2 DEF LearnInv, RequestLearns, WrittenOK
      <4>. QED BY <4>1, <4>2, <4>3
    <3>. QED BY <3>1, <3>2
  <2>3. row \in WeightRow /\ Learnt(row) = Learnt(now) + 1 /\ EarnedBy(row)
    BY <1>5, <2>1, <2>2, LearnedRow DEF row
  <2>. QED BY <2>2, <2>3
<1>15. RowOK(p)'
  <2>1. ASSUME NEW d \in Capability, HasWeight(p, d)', Alone(p), d \notin overlapped
        PROVE  /\ Learnt(tx'[p].weights[d]) = Total(d) + Written(p, d)
               /\ EarnedBy(tx'[p].weights[d])
    <3>1. CASE d = c
      BY <1>8, <1>14, <2>1, <3>1
    <3>2. CASE d # c
      <4>1. /\ Learnt(tx[p].weights[d]) + 0 = Total(d) + Written(p, d)
            /\ EarnedBy(tx[p].weights[d])
        BY <1>8, <1>10, <2>1, <3>2 DEF LearnInv, RequestLearns, RowOK
      <4>2. Learnt(tx[p].weights[d]) \in Nat
        BY Numbers DEF Learnt, WeightRow, IInv
      <4>. QED BY <1>8, <3>2, <4>1, <4>2
    <3>. QED BY <3>1, <3>2
  <2>2. \A d \in Capability : Total(d) \in Nat /\ Written(p, d) \in Nat
    BY Numbers DEF IInv
  <2>3. \A d \in Capability :
          HasWeight(p, d)' /\ Alone(p)' /\ d \notin overlapped' =>
            /\ Learnt(tx'[p].weights[d]) + Unlearnt(p, d)' = Total(d)' + Written(p, d)'
            /\ EarnedBy(tx'[p].weights[d])
    BY <1>4, <1>9, <1>10, <2>1, <2>2
  <2>. QED BY <2>3 DEF RowOK, Learnt, EarnedBy
<1>16. WatchOK'
  BY <1>1, <1>2, <1>4, <1>8, WatchKept
<1>. QED BY <1>1, <1>4, <1>11, <1>12, <1>13, <1>15, <1>16, LearnFrame DEF RequestLearns, tables

\* A hook starts: nothing is left to learn of what the request did before.
LEMMA HookLearns ==
  ASSUME IInv, LearnInv, NEW p \in Proc, NEW f \in Flow, Hook(p, f), Mine(p),
         pc[p] = Idle \/ (pc[p] = "return" /\ ~ Grading(p))
  PROVE  LearnInv'
<1>1. PICK c \in Capability : c = CapabilityOf(f)
  BY CapabilityOfFlow
<1>2. /\ op'[p] = [kind |-> f, cap |-> c] /\ pc'[p] = "budget"
      /\ overlapped' = overlapped \cup (IF InGrading(c) THEN {c} ELSE {})
      /\ UNCHANGED <<budget, weights, decisions, feedback>>
  BY <1>1, Mine1 DEF Hook, Goto, TypeOK
<1>3. /\ tx'[p].budget = tx[p].budget /\ tx'[p].weights = tx[p].weights
      /\ tx'[p].decisions = tx[p].decisions /\ tx'[p].feedback = tx[p].feedback
  <2>1. CASE tx' = [tx EXCEPT ![p].records[f] = @ + 1]
    BY <2>1, WriteRecord DEF IInv, Keeps
  <2>2. CASE tx' = tx
    BY <2>2
  <2>. QED BY <2>1, <2>2 DEF Hook
<1>4. /\ \A d \in Capability : /\ HasWeight(p, d)' = HasWeight(p, d)
                              /\ Written(p, d)' = Written(p, d) /\ Total(d)' = Total(d)
      /\ Alone(p)' = Alone(p)
  BY <1>2, <1>3 DEF HasWeight, Written, Total, Alone, BudgetOf
<1>5. ~ Grading(p)' /\ (pc[p] # Idle => ~ Grading(p))
  BY <1>2 DEF Grading, Flow, Idle
<1>6. \A d \in Capability : Unlearnt(p, d) = 0 /\ Unlearnt(p, d)' = 0
  BY <1>2, <1>5 DEF Unlearnt, Idle
<1>7. GraderOK(p)' /\ WrittenOK(p)' /\ SeenOK(p)'
  BY <1>2, <1>4, <1>5, <1>6
  DEF LearnInv, RequestLearns, GraderOK, WrittenOK, SeenOK
<1>8. RowOK(p)'
  BY <1>2, <1>3, <1>4, <1>6 DEF LearnInv, RequestLearns, RowOK
<1>9. WatchOK'
  <2>1. pc[p] = Idle => \A d \in Capability : ~ HasWeight(p, d)
    BY Mine1 DEF LocalOK, HasWeight, NoWrites
  <2>2. \A q \in Proc \ {p} : /\ pc'[q] = pc[q] /\ op'[q] = op[q] /\ Grading(q)' = Grading(q)
                             /\ \A d \in Capability : HasWeight(q, d)' = HasWeight(q, d)
    BY DEF Mine, HasWeight, Grading
  <2>3. \A q \in Proc \ {p} : pc[q] # Idle /\ Grading(q) /\ op[q].cap = c => c \in overlapped'
    <3>1. ASSUME NEW q \in Proc \ {p}, pc[q] # Idle, Grading(q), op[q].cap = c
          PROVE  op[q] = [kind |-> "feedback", cap |-> c]
      BY <3>1, Mine1 DEF Grading
    <3>. QED BY <1>2, <3>1 DEF InGrading
  <2>4. overlapped \subseteq overlapped'
    BY <1>2
  <2>. QED BY <1>2, <1>4, <1>5, <2>1, <2>2, <2>3, <2>4 DEF LearnInv, WatchOK
<1>. QED BY <1>2, <1>7, <1>8, <1>9, LearnFrame DEF RequestLearns

\* A grade is written and is to be learned.
LEMMA GradeLearns ==
  ASSUME IInv, LearnInv, NEW p \in Proc, NEW c \in Capability, NEW g \in {"ok", "error"},
         record_feedback(p, c, g)
  PROVE  LearnInv'
<1>1. Mine(p)
  BY GradeStep
<1>2. /\ pc[p] = Idle /\ op'[p] = [kind |-> "feedback", cap |-> c] /\ pc'[p] = "weight"
      /\ overlapped' = overlapped \cup (IF InUse(c) THEN {c} ELSE {})
      /\ tx' = [tx EXCEPT ![p].feedback[c][g] = @ + 1]
      /\ UNCHANGED tables
  BY Mine1 DEF record_feedback, Goto, TypeOK
<1>3. tx[p] = NoWrites
  BY <1>2, Mine1 DEF LocalOK
<1>4. /\ Keeps(p, "feedback")
      /\ tx'[p].feedback =
           [tx[p].feedback EXCEPT ![c] = [tx[p].feedback[c] EXCEPT ![g] = @ + 1]]
  <2>1. TypeOK
    BY DEF IInv
  <2>. QED BY <1>2, <2>1, WriteFeedback
<1>5. \A d \in Capability : ~ HasWeight(p, d) /\ ~ HasWeight(p, d)'
  BY <1>3, <1>4 DEF Keeps, HasWeight, NoWrites
<1>6. /\ Written(p, c)' = 1 /\ \A d \in Capability \ {c} : Written(p, d)' = 0
  <2>1. /\ \A d \in Capability : \A o \in Outcome : tx'[p].decisions[d][o] = 0
        /\ tx[p].feedback = [d \in Capability |-> [e \in {"ok", "error"} |-> 0]]
    BY <1>3, <1>4 DEF Keeps, NoWrites
  <2>2. \A d \in Capability, e \in {"ok", "error"} :
          tx'[p].feedback[d][e] = IF d = c /\ e = g THEN 1 ELSE 0
    BY <1>4, <2>1
  <2>. QED BY <2>1, <2>2 DEF Written, Outcome
<1>7. Grading(p)' /\ Unlearnt(p, c)' = 1 /\ \A d \in Capability \ {c} : Unlearnt(p, d)' = 0
  BY <1>2 DEF Grading, Unlearnt
<1>8. RequestLearns(p)'
  BY <1>2, <1>5, <1>6, <1>7 DEF RequestLearns, GraderOK, WrittenOK, SeenOK, RowOK
<1>9. WatchOK'
  <2>1. \A q \in Proc \ {p} : /\ pc'[q] = pc[q] /\ op'[q] = op[q] /\ Grading(q)' = Grading(q)
                             /\ \A d \in Capability : HasWeight(q, d)' = HasWeight(q, d)
    BY <1>1 DEF Mine, HasWeight, Grading
  <2>2. \A q \in Proc \ {p} : pc[q] # Idle /\ (op[q].cap = c \/ HasWeight(q, c)) => c \in overlapped'
    BY <1>2 DEF InUse
  <2>3. overlapped \subseteq overlapped' /\ op'[p].cap = c
    BY <1>2
  <2>. QED BY <1>5, <2>1, <2>2, <2>3 DEF LearnInv, WatchOK
<1>. QED BY <1>1, <1>2, <1>8, <1>9, LearnFrame DEF tables

\* A request that ends, or has lost its transaction, teaches nothing.
LEMMA ForgetLearns ==
  ASSUME IInv, LearnInv, NEW p \in Proc, Mine(p), UNCHANGED <<tables, overlapped>>,
         \/ Leave(p)
         \/ pc[p] # Idle /\ Poison(p)
  PROVE  LearnInv'
<1>1. tx'[p] = NoWrites /\ pc'[p] \in {Idle, "poisoned"}
  BY FieldTypes, Mine1 DEF Leave, Poison, Goto, TypeOK
<1>2. RequestLearns(p)'
  BY <1>1, NothingLearnt
<1>3. \A c \in Capability : ~ HasWeight(p, c)'
  BY <1>1 DEF HasWeight, NoWrites
<1>4. WatchOK'
  <2>1. CASE Leave(p)
    <3>1. pc'[p] = Idle
      BY <2>1, Mine1 DEF Leave, Goto, TypeOK
    <3>2. \A q \in Proc \ {p} : /\ pc'[q] = pc[q] /\ op'[q] = op[q] /\ Grading(q)' = Grading(q)
                               /\ \A c \in Capability : HasWeight(q, c)' = HasWeight(q, c)
      BY DEF Mine, HasWeight, Grading
    <3>. QED BY <3>1, <3>2 DEF LearnInv, WatchOK
  <2>2. CASE pc[p] # Idle /\ Poison(p)
    BY <1>3, <2>2, WatchKept DEF Poison
  <2>. QED BY <2>1, <2>2
<1>. QED BY <1>2, <1>4, LearnFrame DEF tables

\* A commit moves to the tables what the request has written.
LEMMA CommitSums ==
  ASSUME IInv, NEW p \in Proc, Commit(p), NEW c \in Capability
  PROVE  Total(c)' = Total(c) + Written(p, c)
<1>1. /\ decisions'[c]["ok"] = decisions[c]["ok"] + tx[p].decisions[c]["ok"]
      /\ decisions'[c]["error"] = decisions[c]["error"] + tx[p].decisions[c]["error"]
      /\ decisions'[c]["skipped"] = decisions[c]["skipped"] + tx[p].decisions[c]["skipped"]
      /\ feedback'[c]["ok"] = feedback[c]["ok"] + tx[p].feedback[c]["ok"]
      /\ feedback'[c]["error"] = feedback[c]["error"] + tx[p].feedback[c]["error"]
  BY DEF Commit, Outcome
<1>2. /\ decisions[c]["ok"] \in Nat /\ tx[p].decisions[c]["ok"] \in Nat
      /\ decisions[c]["error"] \in Nat /\ tx[p].decisions[c]["error"] \in Nat
      /\ decisions[c]["skipped"] \in Nat /\ tx[p].decisions[c]["skipped"] \in Nat
      /\ feedback[c]["ok"] \in Nat /\ tx[p].feedback[c]["ok"] \in Nat
      /\ feedback[c]["error"] \in Nat /\ tx[p].feedback[c]["error"] \in Nat
  BY Numbers DEF IInv, Outcome
<1>. QED BY <1>1, <1>2 DEF Total, Written

\* While there is one budget row, a commit of p does not change a weight that
\* another request is about to learn on: that one waits for p's lock, or the
\* capability was graded while it was in use.
LEMMA CommitSpares ==
  ASSUME IInv, LearnInv, NEW p \in Proc, Commit(p), NEW q \in Proc \ {p}, Alone(q)',
         pc[q] = "learn", op[q].cap \notin overlapped
  PROVE  ~ HasWeight(p, op[q].cap)
<1> SUFFICES ASSUME HasWeight(p, op[q].cap) PROVE FALSE
  OBVIOUS
<1>1. PICK c \in Capability : c = op[q].cap
  BY Mine1 DEF LocalOK, Idle
<1>2. pc[p] = "return" /\ pc[p] # Idle /\ pc[q] # Idle
  BY DEF Commit, Idle
<1>3. ~ Grading(q)
  BY <1>1, <1>2 DEF LearnInv, WatchOK
<1>4. ~ Grading(p)
  BY <1>1, <1>2 DEF LearnInv, WatchOK, RequestLearns, GraderOK
<1>5. PICK r \in Proc : HasBudget(p, r)
  BY <1>2, <1>4, Mine1 DEF CountedOK
<1>6. PICK s \in Proc : HasBudget(q, s)
  BY <1>3, Mine1 DEF CountedOK
<1>7. budget'[r] # NoRow
  BY <1>5, CommitTables DEF BudgetOf, HasBudget
<1>8. tx'[q] = tx[q]
  BY EndStep DEF Mine
<1>9. BudgetOf(q, r)' # NoRow /\ BudgetOf(q, s)' # NoRow
  BY <1>6, <1>7, <1>8 DEF BudgetOf, HasBudget
<1>10. r = s
  BY <1>9 DEF Alone
<1>. QED BY <1>5, <1>6, <1>10 DEF IInv, LocksOK

LEMMA CommitLearns ==
  ASSUME IInv, LearnInv, NEW p \in Proc, Commit(p)
  PROVE  LearnInv'
<1>1. /\ pc[p] = "return" /\ pc'[p] = Idle /\ tx'[p] = NoWrites /\ overlapped' = overlapped
  BY FieldTypes, Mine1 DEF Commit, Leave, Goto, TypeOK
<1>2. Mine(p)
  BY EndStep
<1>3. \A c \in Capability : Unlearnt(p, c) = 0
  BY <1>1 DEF Unlearnt
<1>4. OneRow' <=> Alone(p)
  BY CommitTables DEF OneRow, Alone
<1>5. TableOK'
  <2>1. ASSUME NEW c \in Capability, Alone(p), c \notin overlapped
        PROVE  Learnt(weights'[c]) = Total(c)' /\ EarnedBy(weights'[c])
    <3>1. Total(c) \in Nat /\ Written(p, c) \in Nat
      BY Numbers DEF IInv
    <3>2. CASE HasWeight(p, c)
      <4>1. /\ Learnt(tx[p].weights[c]) + 0 = Total(c) + Written(p, c)
            /\ EarnedBy(tx[p].weights[c])
        BY <1>3, <2>1, <3>2 DEF LearnInv, RequestLearns, RowOK
      <4>2. Learnt(tx[p].weights[c]) \in Nat
        BY Numbers DEF Learnt, WeightRow, IInv
      <4>. QED BY <3>2, <4>1, <4>2, CommitTables, CommitSums
    <3>3. CASE ~ HasWeight(p, c)
      <4>1. Learnt(weights[c]) = Total(c) /\ EarnedBy(weights[c])
        BY <2>1, AloneSeesAll DEF LearnInv, TableOK
      <4>2. Written(p, c) = 0
        BY <1>3, <3>3 DEF LearnInv, RequestLearns, WrittenOK
      <4>. QED BY <3>1, <3>3, <4>1, <4>2, CommitTables, CommitSums
    <3>. QED BY <3>2, <3>3
  <2>2. \A c \in Capability : OneRow' /\ c \notin overlapped' =>
          Learnt(weights'[c]) = Total(c)' /\ EarnedBy(weights'[c])
    BY <1>1, <1>4, <2>1
  <2>. QED BY <2>2 DEF TableOK, Learnt, EarnedBy
<1>6. RequestLearns(p)'
  BY <1>1, NothingLearnt
<1>7. ASSUME NEW q \in Proc \ {p} PROVE RequestLearns(q)'
  <2>1. /\ pc'[q] = pc[q] /\ op'[q] = op[q] /\ seen'[q] = seen[q] /\ tx'[q] = tx[q]
        /\ RequestLearns(q)
    BY <1>2 DEF Mine, LearnInv
  <2>2. /\ Grading(q)' = Grading(q)
        /\ \A c \in Capability : /\ HasWeight(q, c)' = HasWeight(q, c)
                                 /\ Written(q, c)' = Written(q, c)
                                 /\ Unlearnt(q, c)' = Unlearnt(q, c)
    BY <2>1 DEF HasWeight, Written, Unlearnt, Grading
  <2>3. Alone(q)' => Alone(q)
    BY <2>1, CommitTables DEF Alone, BudgetOf, RowsStay
  <2>4. GraderOK(q)' /\ WrittenOK(q)'
    BY <2>1, <2>2 DEF RequestLearns, GraderOK, WrittenOK
  <2>5. SeenOK(q)'
    <3>1. ASSUME pc[q] = "learn", Alone(q)', op[q].cap \notin overlapped
          PROVE  seen[q].weight = WeightOf(q)'
      <4>1. PICK c \in Capability : c = op[q].cap
        BY <3>1, Mine1 DEF LocalOK, Idle
      <4>2. weights'[c] = weights[c]
        BY <3>1, <4>1, CommitTables, CommitSpares
      <4>3. WeightOf(q)' = WeightOf(q)
        BY <2>1, <4>1, <4>2 DEF WeightOf
      <4>. QED BY <2>1, <2>3, <3>1, <4>3 DEF RequestLearns, SeenOK
    <3>. QED BY <1>1, <2>1, <3>1 DEF SeenOK
  <2>6. RowOK(q)'
    <3>1. ASSUME NEW c \in Capability, HasWeight(q, c), Alone(q)', c \notin overlapped
          PROVE  /\ Learnt(tx[q].weights[c]) + Unlearnt(q, c) = Total(c)' + Written(q, c)
                 /\ EarnedBy(tx[q].weights[c])
      <4>1. ~ HasWeight(p, c)
        BY <3>1 DEF IInv, LocksOK
      <4>2. Written(p, c) = 0
        BY <1>3, <4>1 DEF LearnInv, RequestLearns, WrittenOK
      <4>3. Total(c)' = Total(c)
        BY <4>2, CommitSums, Numbers DEF IInv
      <4>. QED BY <2>1, <2>3, <3>1, <4>3 DEF RequestLearns, RowOK
    <3>2. \A c \in Capability :
            HasWeight(q, c)' /\ Alone(q)' /\ c \notin overlapped' =>
              /\ Learnt(tx'[q].weights[c]) + Unlearnt(q, c)' = Total(c)' + Written(q, c)'
              /\ EarnedBy(tx'[q].weights[c])
      BY <1>1, <2>1, <2>2, <3>1
    <3>. QED BY <3>2 DEF RowOK, Learnt, EarnedBy
  <2>. QED BY <2>4, <2>5, <2>6 DEF RequestLearns
<1>8. WatchOK'
  <2>1. \A q \in Proc \ {p} : /\ pc'[q] = pc[q] /\ op'[q] = op[q] /\ Grading(q)' = Grading(q)
                             /\ \A c \in Capability : HasWeight(q, c)' = HasWeight(q, c)
    BY <1>2 DEF Mine, HasWeight, Grading
  <2>. QED BY <1>1, <2>1 DEF LearnInv, WatchOK
<1>. QED BY <1>5, <1>6, <1>7, <1>8 DEF LearnInv

LEMMA EndLearns ==
  ASSUME IInv, LearnInv, NEW p \in Proc,
         Commit(p) \/ DuplicateWeight(p) \/ DeadlockVictim(p) \/ GiveUp(p) \/ Abort(p)
  PROVE  LearnInv'
<1>1. Mine(p)
  BY EndStep
<1>2. CASE DuplicateWeight(p) \/ DeadlockVictim(p)
  BY <1>1, <1>2, ForgetLearns DEF DuplicateWeight, DeadlockVictim, WaitsFor, Poison, Idle
<1>3. CASE GiveUp(p) \/ Abort(p)
  BY <1>1, <1>3, ForgetLearns DEF GiveUp, Abort
<1>. QED BY <1>2, <1>3, CommitLearns

\* The weights and the counts of decisions and grades stay together, for any
\* number of requests.
THEOREM Learning == Spec => []LearnInv
<1>1. Init => LearnInv
  <2> SUFFICES ASSUME Init PROVE LearnInv
    OBVIOUS
  <2>1. \A p \in Proc : tx[p] = NoWrites /\ pc[p] = Idle /\ op[p].kind = Idle
    BY DEF Init
  <2>2. \A p \in Proc : RequestLearns(p)
    <3>1. \A p \in Proc, c \in Capability :
            ~ HasWeight(p, c) /\ Written(p, c) = 0 /\ Unlearnt(p, c) = 0
      BY <2>1 DEF HasWeight, Written, Unlearnt, NoWrites, Outcome, Idle, Grading
    <3>. QED BY <2>1, <3>1 DEF RequestLearns, GraderOK, WrittenOK, SeenOK, RowOK, Idle
  <2>3. \A c \in Capability : weights[c] = NoRow /\ Total(c) = 0
    BY DEF Init, NoWrites, Total, Outcome
  <2>4. TableOK
    BY <2>3 DEF TableOK, Learnt, EarnedBy
  <2>5. WatchOK
    BY <2>1 DEF WatchOK
  <2>. QED BY <2>2, <2>4, <2>5 DEF LearnInv
<1>2. IInv /\ LearnInv /\ [Next]_vars => LearnInv'
  <2> SUFFICES ASSUME IInv, LearnInv, [Next]_vars PROVE LearnInv'
    OBVIOUS
  <2>1. ASSUME NEW p \in Proc, NEW f \in Started, Begin(p, f) PROVE LearnInv'
    <3>1. f \in Flow /\ Hook(p, f) /\ pc[p] = Idle
      BY <2>1, BraidAssumption DEF Begin
    <3>2. Mine(p)
      BY <2>1, <3>1, HookStep DEF Begin, IInv, TypeOK
    <3>. QED BY <3>1, <3>2, HookLearns
  <2>2. ASSUME NEW p \in Proc, AutoProposal(p) PROVE LearnInv'
    <3>1. "proposal" \in Flow /\ Hook(p, "proposal") /\ pc[p] = "return" /\ ~ Grading(p)
      BY <2>2 DEF AutoProposal, Flow, Grading
    <3>2. Mine(p)
      BY <2>2, <3>1, HookStep DEF AutoProposal, bounds, IInv, TypeOK
    <3>. QED BY <3>1, <3>2, HookLearns
  <2>3. ASSUME NEW p \in Proc, Step(p) PROVE LearnInv'
    BY <2>2, <2>3, CallStep, LoadWeightLearns, InsertLearns, AuditLearns, LearnLearns, EndLearns
    DEF Step
  <2>4. CASE WindowEnds \/ UNCHANGED vars
    BY <2>4
    DEF WindowEnds, vars, tables, local, LearnInv, WatchOK, TableOK, RequestLearns, GraderOK,
        WrittenOK, SeenOK, RowOK, OneRow, Alone, BudgetOf, WeightOf, HasWeight, Grading,
        Total, Written, Unlearnt
  <2>. QED BY <2>1, <2>3, <2>4, GradeLearns, EndLearns DEF Next
<1>. QED BY <1>1, <1>2, Invariance, PTL DEF Spec

\* While there is one budget row, the weight row of a capability that was not
\* graded while in use counts every committed decision and grade, and is no
\* better than its successes and no worse than its failures.
THEOREM WeightsFollow == ASSUME IsFiniteSet(Proc) PROVE Spec => []WeightFollowsDecisions
<1>1. ASSUME LearnInv, OneBudgetRow, NEW c \in Capability, c \notin overlapped
      PROVE  InLockstep(c) /\ Earned(c)
  <2>1. OneRow
    <3>1. \A r, s \in BudgetRows : r = s
      BY <1>1, OnlyOne DEF OneBudgetRow
    <3>. QED BY <3>1 DEF OneRow, BudgetRows
  <2>2. Learnt(weights[c]) = Total(c) /\ EarnedBy(weights[c])
    BY <1>1, <2>1 DEF LearnInv, TableOK
  <2>. QED BY <2>2 DEF Learnt, EarnedBy, InLockstep, Earned
<1>2. LearnInv => WeightFollowsDecisions
  BY <1>1 DEF WeightFollowsDecisions
<1>. QED BY <1>2, Learning, PTL

-----------------------------------------------------------------------------
(* The audit trail.                                                        *)

\* A call that is under way, and whose decision the request has still to file.
Calls(p) ==
  /\ ~ Grading(p)
  /\ pc[p] \in {"budget", "roll", "weight", "insert", "consume", "handler", "audit"}

Owes(p, f) == IF Calls(p) /\ op[p].kind = f THEN 1 ELSE 0

Decides(p, c) ==
  tx[p].decisions[c]["ok"] + tx[p].decisions[c]["error"] + tx[p].decisions[c]["skipped"]

\* The decisions that a durable record of the request is there for: they come
\* with the commit or not at all.
CaseDue(p) == Decides(p, "validate_nice_classification") + Owes(p, "case")

EutmDue(p) ==
  IF tx[p].records["submission"] = 0
  THEN Decides(p, "check_trademark_conflict") + Owes(p, "eutm") ELSE 0

\* A request files one decision for each call, and commits a proposal or a
\* submission with the decision on it.
AuditedOK(p) ==
  /\ pc[p] \in {Idle, "poisoned"} => tx[p] = NoWrites
  /\ Calls(p) => op[p].kind \in Flow /\ op[p].cap = CapabilityOf(op[p].kind)
  /\ tx[p].records["proposal"] = Decides(p, "score_document_completeness") + Owes(p, "proposal")
  /\ CaseDue(p) \in {0, 1} /\ EutmDue(p) \in {0, 1}
  /\ tx[p].records["submission"] \in {0, 1}
  /\ Owes(p, "submission") = 1 => tx[p].records["submission"] = 1
  /\ Decides(p, "check_trademark_conflict") + Owes(p, "submission") + Owes(p, "eutm") \in {0, 1}
  /\ tx[p].records["submission"] = 1 =>
       Decides(p, "check_trademark_conflict") + Owes(p, "submission") = 1

CaseOwed == {p \in Proc : CaseDue(p) # 0}
EutmOwed == {p \in Proc : EutmDue(p) # 0}

TableAudit ==
  /\ Decided("score_document_completeness") = records["proposal"]
  /\ Decided("validate_nice_classification") + Cardinality(CaseOwed) <= records["case"]
  /\ records["submission"] <= Decided("check_trademark_conflict")
  /\ Decided("check_trademark_conflict") + Cardinality(EutmOwed)
       <= records["submission"] + records["eutm"]

AuditInv == TableAudit /\ \A p \in Proc : AuditedOK(p)

\* A set that changes in one element alone.
LEMMA OneMoves ==
  ASSUME IsFiniteSet(Proc), NEW p \in Proc, NEW S \in SUBSET Proc, NEW T \in SUBSET Proc,
         S \ {p} = T \ {p}, NEW a \in {0, 1}, NEW b \in {0, 1},
         p \in S <=> a # 0, p \in T <=> b # 0
  PROVE  /\ Cardinality(S) \in Nat /\ Cardinality(T) \in Nat
         /\ Cardinality(T) + a = Cardinality(S) + b
<1> DEFINE R == S \ {p}
<1>1. R \in SUBSET Proc /\ p \notin R
  OBVIOUS
<1>2. IsFiniteSet(R) /\ Cardinality(R) \in Nat
  BY <1>1, FS_Subset, FS_CardinalityType
<1>3. Cardinality(R \cup {p}) = Cardinality(R) + 1
  BY <1>1, <1>2, FS_AddElement
<1>4. a = 0 => S = R
  OBVIOUS
<1>5. a = 1 => S = R \cup {p}
  OBVIOUS
<1>6. b = 0 => T = R
  OBVIOUS
<1>7. b = 1 => T = R \cup {p}
  OBVIOUS
<1> HIDE DEF R
<1>8. Cardinality(S) = Cardinality(R) + a
  <2>1. CASE a = 0
    BY <1>2, <1>4, <2>1
  <2>2. CASE a = 1
    BY <1>3, <1>5, <2>2
  <2>. QED BY <2>1, <2>2
<1>9. Cardinality(T) = Cardinality(R) + b
  <2>1. CASE b = 0
    BY <1>2, <1>6, <2>1
  <2>2. CASE b = 1
    BY <1>3, <1>7, <2>2
  <2>. QED BY <2>1, <2>2
<1>. QED BY <1>2, <1>8, <1>9

LEMMA AuditNumbers ==
  ASSUME TypeOK, NEW p \in Proc
  PROVE  /\ \A c \in Capability : Decided(c) \in Nat /\ Decides(p, c) \in Nat
         /\ \A f \in Flow : records[f] \in Nat /\ tx[p].records[f] \in Nat
         /\ \A f \in Flow : Owes(p, f) \in {0, 1}
<1>1. ASSUME NEW c \in Capability PROVE Decided(c) \in Nat /\ Decides(p, c) \in Nat
  <2>1. /\ decisions[c]["ok"] \in Nat /\ tx[p].decisions[c]["ok"] \in Nat
        /\ decisions[c]["error"] \in Nat /\ tx[p].decisions[c]["error"] \in Nat
        /\ decisions[c]["skipped"] \in Nat /\ tx[p].decisions[c]["skipped"] \in Nat
    BY Numbers DEF Outcome
  <2>. QED BY <2>1 DEF Decided, Decides
<1>2. ASSUME NEW f \in Flow PROVE records[f] \in Nat /\ tx[p].records[f] \in Nat
  BY FieldTypes DEF TypeOK
<1>. QED BY <1>1, <1>2 DEF Owes

LEMMA CallNames ==
  /\ "validate_nice_classification" \in Capability
  /\ "score_document_completeness" \in Capability
  /\ "check_trademark_conflict" \in Capability
  /\ "case" \in Flow /\ "proposal" \in Flow /\ "submission" \in Flow /\ "eutm" \in Flow
BY DEF Capability, Flow

\* A step of p that adds no more than it has records for.
LEMMA AuditFrame ==
  ASSUME IsFiniteSet(Proc), TypeOK, TypeOK', AuditInv, NEW p \in Proc, Mine(p), AuditedOK(p)',
         Decided("score_document_completeness")' + records["proposal"]
           = Decided("score_document_completeness") + records'["proposal"],
         Decided("validate_nice_classification")' + CaseDue(p)' + records["case"]
           <= Decided("validate_nice_classification") + CaseDue(p) + records'["case"],
         records'["submission"] + Decided("check_trademark_conflict")
           <= records["submission"] + Decided("check_trademark_conflict")',
         Decided("check_trademark_conflict")' + EutmDue(p)' + records["submission"] + records["eutm"]
           <= Decided("check_trademark_conflict") + EutmDue(p)
                + records'["submission"] + records'["eutm"]
  PROVE  AuditInv'
<1>1. ASSUME NEW q \in Proc \ {p}
      PROVE  AuditedOK(q)' /\ CaseDue(q)' = CaseDue(q) /\ EutmDue(q)' = EutmDue(q)
  <2>1. tx'[q] = tx[q] /\ pc'[q] = pc[q] /\ op'[q] = op[q] /\ AuditedOK(q)
    BY DEF Mine, AuditInv
  <2>2. Calls(q)' = Calls(q) /\ \A c \in Capability : Decides(q, c)' = Decides(q, c)
    BY <2>1 DEF Calls, Grading, Decides
  <2>3. \A f \in Flow : Owes(q, f)' = Owes(q, f)
    BY <2>1, <2>2 DEF Owes
  <2>4. CaseDue(q)' = CaseDue(q) /\ EutmDue(q)' = EutmDue(q)
    BY <2>1, <2>2, <2>3, CallNames DEF CaseDue, EutmDue
  <2>. QED BY <2>1, <2>2, <2>3, <2>4, CallNames DEF AuditedOK
<1>2. \A q \in Proc : AuditedOK(q)'
  BY <1>1
<1>3. CaseDue(p) \in {0, 1} /\ CaseDue(p)' \in {0, 1} /\ EutmDue(p) \in {0, 1} /\ EutmDue(p)' \in {0, 1}
  BY DEF AuditInv, AuditedOK
<1>4. /\ Cardinality(CaseOwed) \in Nat /\ Cardinality(CaseOwed)' \in Nat
      /\ Cardinality(CaseOwed)' + CaseDue(p) = Cardinality(CaseOwed) + CaseDue(p)'
  <2>1. CaseOwed \ {p} = CaseOwed' \ {p}
    BY <1>1 DEF CaseOwed
  <2>2. /\ CaseOwed \in SUBSET Proc /\ CaseOwed' \in SUBSET Proc
        /\ p \in CaseOwed <=> CaseDue(p) # 0
        /\ p \in CaseOwed' <=> CaseDue(p)' # 0
    BY DEF CaseOwed
  <2>. QED BY <1>3, <2>1, <2>2, OneMoves
<1>5. /\ Cardinality(EutmOwed) \in Nat /\ Cardinality(EutmOwed)' \in Nat
      /\ Cardinality(EutmOwed)' + EutmDue(p) = Cardinality(EutmOwed) + EutmDue(p)'
  <2>1. EutmOwed \ {p} = EutmOwed' \ {p}
    BY <1>1 DEF EutmOwed
  <2>2. /\ EutmOwed \in SUBSET Proc /\ EutmOwed' \in SUBSET Proc
        /\ p \in EutmOwed <=> EutmDue(p) # 0
        /\ p \in EutmOwed' <=> EutmDue(p)' # 0
    BY DEF EutmOwed
  <2>. QED BY <1>3, <2>1, <2>2, OneMoves
<1>6. /\ \A c \in Capability : Decided(c) \in Nat /\ Decided(c)' \in Nat
      /\ \A f \in Flow : records[f] \in Nat /\ records'[f] \in Nat
  <2>1. ASSUME NEW c \in Capability PROVE Decided(c)' \in Nat
    BY DEF TypeOK, Counts, Outcome, Decided
  <2>2. \A f \in Flow : records'[f] \in Nat
    BY DEF TypeOK
  <2>. QED BY <2>1, <2>2, AuditNumbers
<1>7. TableAudit'
  <2>1. Decided("score_document_completeness")' = records'["proposal"]
    BY <1>6, CallNames DEF AuditInv, TableAudit
  <2>2. Decided("validate_nice_classification")' + Cardinality(CaseOwed)' <= records'["case"]
    BY <1>3, <1>4, <1>6, CallNames DEF AuditInv, TableAudit
  <2>3. records'["submission"] <= Decided("check_trademark_conflict")'
    BY <1>6, CallNames DEF AuditInv, TableAudit
  <2>4. Decided("check_trademark_conflict")' + Cardinality(EutmOwed)'
          <= records'["submission"] + records'["eutm"]
    BY <1>3, <1>5, <1>6, CallNames DEF AuditInv, TableAudit
  <2>. QED BY <2>1, <2>2, <2>3, <2>4 DEF TableAudit
<1>. QED BY <1>2, <1>7 DEF AuditInv

\* A step that files nothing and owes what it owed.
LEMMA AuditQuiet ==
  ASSUME IsFiniteSet(Proc), TypeOK, TypeOK', AuditInv, NEW p \in Proc, Mine(p),
         UNCHANGED <<decisions, records>>,
         tx'[p].decisions = tx[p].decisions, tx'[p].records = tx[p].records,
         pc'[p] \notin {Idle, "poisoned"},
         Calls(p)' => op'[p].kind \in Flow /\ op'[p].cap = CapabilityOf(op'[p].kind),
         \A f \in Flow : Owes(p, f)' = Owes(p, f)
  PROVE  AuditInv'
<1>1. \A c \in Capability : Decides(p, c)' = Decides(p, c) /\ Decided(c)' = Decided(c)
  BY DEF Decides, Decided
<1>2. CaseDue(p)' = CaseDue(p) /\ EutmDue(p)' = EutmDue(p)
  BY <1>1, CallNames DEF CaseDue, EutmDue
<1>3. AuditedOK(p)'
  BY <1>1, <1>2, CallNames DEF AuditInv, AuditedOK
<1>4. CaseDue(p) \in Nat /\ EutmDue(p) \in Nat
  BY DEF AuditInv, AuditedOK
<1>. QED BY <1>1, <1>2, <1>3, <1>4, CallNames, AuditNumbers, AuditFrame

\* The four flows: what a record of each owes.
LEMMA HookAudit ==
  ASSUME IsFiniteSet(Proc), IInv, TypeOK', AuditInv, NEW p \in Proc, NEW f \in Flow,
         Hook(p, f), Mine(p),
         pc[p] = Idle \/ (pc[p] = "return" /\ f = "proposal")
  PROVE  AuditInv'
<1>1. /\ op'[p] = [kind |-> f, cap |-> CapabilityOf(f)] /\ pc'[p] = "budget"
      /\ decisions' = decisions
      /\ f \in Durable => records' = [records EXCEPT ![f] = @ + 1] /\ tx' = tx
      /\ f \notin Durable => tx' = [tx EXCEPT ![p].records[f] = @ + 1] /\ records' = records
  BY Mine1 DEF Hook, Goto, TypeOK
<1>2. tx'[p].decisions = tx[p].decisions
  BY <1>1, WriteRecord, Mine1 DEF Keeps
<1>3. \A c \in Capability : Decides(p, c)' = Decides(p, c) /\ Decided(c)' = Decided(c)
  BY <1>1, <1>2 DEF Decides, Decided
<1>4. \A g \in Flow : Owes(p, g) = 0 /\ Owes(p, g)' = IF g = f THEN 1 ELSE 0
  <2>1. ~ Calls(p)
    BY DEF Calls, Idle
  <2>2. Calls(p)'
    BY <1>1 DEF Calls, Grading, Flow
  <2>. QED BY <1>1, <2>1, <2>2 DEF Owes
<1>5. pc[p] = Idle =>
        /\ \A c \in Capability : Decides(p, c) = 0
        /\ \A g \in Flow : tx[p].records[g] = 0
  BY Mine1 DEF LocalOK, NoWrites, Decides, Outcome
<1>6. \A g \in Flow : tx'[p].records[g] = tx[p].records[g] + (IF g = f /\ f \notin Durable THEN 1 ELSE 0)
  <2>1. \A g \in Flow : tx[p].records[g] \in Nat
    BY AuditNumbers DEF IInv
  <2>2. CASE f \in Durable
    BY <1>1, <2>1, <2>2
  <2>3. CASE f \notin Durable
    <3>1. tx'[p].records = [tx[p].records EXCEPT ![f] = @ + 1] /\ tx[p].records \in [Flow -> Nat]
      BY <1>1, <2>3, WriteRecord, FieldTypes DEF IInv
    <3>. QED BY <2>1, <2>3, <3>1
  <2>. QED BY <2>2, <2>3
<1>7. \A g \in Flow : records'[g] = records[g] + (IF g = f /\ f \in Durable THEN 1 ELSE 0)
  BY <1>1, Mine1 DEF TypeOK
<1>8. AuditedOK(p)
  BY DEF AuditInv
<1>9. pc'[p] \notin {Idle, "poisoned"} /\ op'[p].kind \in Flow /\ op'[p].cap = CapabilityOf(op'[p].kind)
  BY <1>1 DEF Idle
<1>10. /\ \A c \in Capability : Decides(p, c) \in Nat
       /\ \A g \in Flow : tx[p].records[g] \in Nat
  BY AuditNumbers DEF IInv
<1>11. CASE f = "case"
  <2>1. /\ CaseDue(p) = 0 /\ CaseDue(p)' = 1 /\ EutmDue(p) = 0 /\ EutmDue(p)' = 0
        /\ AuditedOK(p)'
    BY <1>3, <1>4, <1>5, <1>6, <1>8, <1>9, <1>11, CallNames
    DEF CaseDue, EutmDue, AuditedOK, Durable
  <2>. QED BY <1>3, <1>7, <1>11, <2>1, CallNames, AuditNumbers, AuditFrame DEF IInv, Durable
<1>12. CASE f = "proposal"
  <2>1. /\ CaseDue(p)' = CaseDue(p) /\ EutmDue(p)' = EutmDue(p)
        /\ AuditedOK(p)'
    <3>1. /\ CaseDue(p)' = CaseDue(p) /\ EutmDue(p)' = EutmDue(p)
          /\ tx'[p].records["submission"] = tx[p].records["submission"]
          /\ tx'[p].records["proposal"] = tx[p].records["proposal"] + 1
      BY <1>3, <1>4, <1>6, <1>12, <1>10, CallNames DEF CaseDue, EutmDue, Durable
    <3>2. Owes(p, "proposal") = 0 /\ Owes(p, "proposal")' = 1
      BY <1>4, <1>12, CallNames
    <3>. QED BY <1>3, <1>4, <1>8, <1>9, <1>12, <1>10, <3>1, <3>2, CallNames DEF AuditedOK
  <2>2. CaseDue(p) \in Nat /\ EutmDue(p) \in Nat
    BY <1>8 DEF AuditedOK
  <2>. QED BY <1>3, <1>7, <1>12, <2>1, <2>2, CallNames, AuditNumbers, AuditFrame DEF IInv, Durable
<1>13. CASE f = "submission"
  <2>1. /\ CaseDue(p) = 0 /\ CaseDue(p)' = 0 /\ EutmDue(p) = 0 /\ EutmDue(p)' = 0
        /\ AuditedOK(p)'
    BY <1>3, <1>4, <1>5, <1>6, <1>8, <1>9, <1>13, CallNames
    DEF CaseDue, EutmDue, AuditedOK, Durable
  <2>. QED BY <1>3, <1>7, <1>13, <2>1, CallNames, AuditNumbers, AuditFrame DEF IInv, Durable
<1>14. CASE f = "eutm"
  <2>1. /\ CaseDue(p) = 0 /\ CaseDue(p)' = 0 /\ EutmDue(p) = 0 /\ EutmDue(p)' = 1
        /\ AuditedOK(p)'
    BY <1>3, <1>4, <1>5, <1>6, <1>8, <1>9, <1>14, CallNames
    DEF CaseDue, EutmDue, AuditedOK, Durable
  <2>. QED BY <1>3, <1>7, <1>14, <2>1, CallNames, AuditNumbers, AuditFrame DEF IInv, Durable
<1>. QED BY <1>11, <1>12, <1>13, <1>14 DEF Flow

\* A call files its decision and owes it no more.
LEMMA FileAudit ==
  ASSUME IsFiniteSet(Proc), IInv, TypeOK', AuditInv, NEW p \in Proc, _audit(p), Mine(p)
  PROVE  AuditInv'
<1>1. /\ pc[p] = "audit" /\ pc'[p] = "learn" /\ op' = op
      /\ tx' = [tx EXCEPT ![p].decisions[op[p].cap][outcome[p]] = @ + 1]
      /\ decisions' = decisions /\ records' = records
  BY Mine1 DEF _audit, Goto, TypeOK, tables
<1>2. Calls(p) /\ ~ Calls(p)'
  BY <1>1, Mine1 DEF Calls, LocalOK
<1>3. PICK f \in Flow, c \in Capability :
        f = op[p].kind /\ c = op[p].cap /\ c = CapabilityOf(f) /\ AuditedOK(p)
  BY <1>2, CapabilityOfFlow DEF AuditInv, AuditedOK
<1>4. PICK o \in Outcome : o = outcome[p]
  BY <1>1, Mine1 DEF LocalOK
<1>5. /\ Keeps(p, "decisions")
      /\ tx'[p].decisions = [tx[p].decisions EXCEPT ![c] = [tx[p].decisions[c] EXCEPT ![o] = @ + 1]]
  <2>1. tx' = [tx EXCEPT ![p].decisions[c][o] = @ + 1]
    BY <1>1, <1>3, <1>4
  <2>2. TypeOK
    BY DEF IInv
  <2>. QED BY <2>1, <2>2, WriteDecision
<1>6. tx'[p].records = tx[p].records
  BY <1>5 DEF Keeps
<1>7. \A d \in Capability : Decides(p, d)' = Decides(p, d) + (IF d = c THEN 1 ELSE 0)
  <2>1. TypeOK
    BY DEF IInv
  <2>2. ASSUME NEW d \in Capability, d # c PROVE Decides(p, d)' = Decides(p, d)
    BY <1>5, <2>1, <2>2, FieldTypes DEF Decides, Counts
  <2>3. Decides(p, c)' = Decides(p, c) + 1
    <3>1. \A e \in Outcome : tx'[p].decisions[c][e] =
                               tx[p].decisions[c][e] + (IF e = o THEN 1 ELSE 0)
      BY <1>5, <2>1, FieldTypes DEF Counts
    <3>2. /\ tx[p].decisions[c]["ok"] \in Nat /\ tx[p].decisions[c]["error"] \in Nat
          /\ tx[p].decisions[c]["skipped"] \in Nat
      BY <2>1, Numbers DEF Outcome
    <3>. QED BY <3>1, <3>2 DEF Decides, Outcome
  <2>4. \A d \in Capability : Decides(p, d) \in Nat
    BY <2>1, AuditNumbers
  <2>. QED BY <2>2, <2>3, <2>4
<1>8. \A g \in Flow : Owes(p, g) = (IF g = f THEN 1 ELSE 0) /\ Owes(p, g)' = 0
  BY <1>2, <1>3 DEF Owes
<1>9. \A d \in Capability : Decided(d)' = Decided(d)
  BY <1>1 DEF Decided
<1>10. pc'[p] \notin {Idle, "poisoned"}
  BY <1>1 DEF Idle
<1>11. \A d \in Capability : Decides(p, d) \in Nat
  BY AuditNumbers DEF IInv
<1>12. /\ CaseDue(p)' = CaseDue(p) /\ EutmDue(p)' <= EutmDue(p)
       /\ CaseDue(p) \in Nat /\ EutmDue(p) \in Nat /\ EutmDue(p)' \in Nat
       /\ AuditedOK(p)'
  <2>1. CASE f = "case"
    <3>1. c = "validate_nice_classification"
      BY <1>3, <2>1 DEF CapabilityOf
    <3>. QED BY <1>2, <1>3, <1>6, <1>7, <1>8, <1>10, <1>11, <2>1, <3>1, CallNames
         DEF CaseDue, EutmDue, AuditedOK
  <2>2. CASE f = "proposal"
    <3>1. c = "score_document_completeness"
      BY <1>3, <2>2 DEF CapabilityOf
    <3>. QED BY <1>2, <1>3, <1>6, <1>7, <1>8, <1>10, <1>11, <2>2, <3>1, CallNames
         DEF CaseDue, EutmDue, AuditedOK
  <2>3. CASE f = "submission"
    <3>1. c = "check_trademark_conflict"
      BY <1>3, <2>3 DEF CapabilityOf
    <3>. QED BY <1>2, <1>3, <1>6, <1>7, <1>8, <1>10, <1>11, <2>3, <3>1, CallNames
         DEF CaseDue, EutmDue, AuditedOK
  <2>4. CASE f = "eutm"
    <3>1. c = "check_trademark_conflict"
      BY <1>3, <2>4 DEF CapabilityOf
    <3>. QED BY <1>2, <1>3, <1>6, <1>7, <1>8, <1>10, <1>11, <2>4, <3>1, CallNames
         DEF CaseDue, EutmDue, AuditedOK
  <2>. QED BY <1>3, <2>1, <2>2, <2>3, <2>4 DEF Flow
<1>. QED BY <1>1, <1>9, <1>12, CallNames, AuditNumbers, AuditFrame DEF IInv

\* A request that has lost its transaction, or leaves without one, takes its
\* writes and what it owes with it.
LEMMA ForgetAudit ==
  ASSUME IsFiniteSet(Proc), IInv, TypeOK', AuditInv, NEW p \in Proc, Mine(p),
         UNCHANGED tables, Leave(p) \/ Poison(p)
  PROVE  AuditInv'
<1>1. tx'[p] = NoWrites /\ pc'[p] \in {Idle, "poisoned"} /\ UNCHANGED <<decisions, records>>
  BY FieldTypes, Mine1 DEF Leave, Poison, Goto, TypeOK, tables
<1>2. /\ \A c \in Capability : Decides(p, c)' = 0 /\ Decided(c)' = Decided(c)
      /\ \A f \in Flow : tx'[p].records[f] = 0 /\ Owes(p, f)' = 0
      /\ ~ Calls(p)'
  <2>1. ~ Calls(p)'
    BY <1>1 DEF Calls, Idle
  <2>. QED BY <1>1, <2>1 DEF Decides, Decided, NoWrites, Outcome, Owes
<1>3. CaseDue(p)' = 0 /\ EutmDue(p)' = 0
  BY <1>2, CallNames DEF CaseDue, EutmDue
<1>4. AuditedOK(p)'
  BY <1>1, <1>2, <1>3, CallNames DEF AuditedOK
<1>5. CaseDue(p) \in Nat /\ EutmDue(p) \in Nat
  BY DEF AuditInv, AuditedOK
<1>. QED BY <1>1, <1>2, <1>3, <1>4, <1>5, CallNames, AuditNumbers, AuditFrame DEF IInv

\* A commit files the records together with their decisions.
LEMMA CommitAudit ==
  ASSUME IsFiniteSet(Proc), IInv, TypeOK', AuditInv, NEW p \in Proc, Mine(p), Commit(p)
  PROVE  AuditInv'
<1>1. /\ pc[p] = "return" /\ tx'[p] = NoWrites /\ pc'[p] = Idle
  BY FieldTypes, Mine1 DEF Commit, Leave, Goto, TypeOK
<1>2. \A f \in Flow : Owes(p, f) = 0 /\ Owes(p, f)' = 0
  BY <1>1 DEF Owes, Calls, Idle
<1>3. ~ Calls(p)' /\ \A c \in Capability : Decides(p, c)' = 0
  BY <1>1 DEF Calls, Decides, NoWrites, Outcome, Idle
<1>4. \A f \in Flow : tx'[p].records[f] = 0 /\ records'[f] = records[f] + tx[p].records[f]
  BY <1>1 DEF NoWrites, Commit
<1>5. CaseDue(p)' = 0 /\ EutmDue(p)' = 0
  BY <1>2, <1>3, <1>4, CallNames DEF CaseDue, EutmDue
<1>6. AuditedOK(p)'
  BY <1>1, <1>2, <1>3, <1>4, <1>5, CallNames DEF AuditedOK
<1>7. ASSUME NEW c \in Capability PROVE Decided(c)' = Decided(c) + Decides(p, c)
  <2>1. /\ decisions'[c]["ok"] = decisions[c]["ok"] + tx[p].decisions[c]["ok"]
        /\ decisions'[c]["error"] = decisions[c]["error"] + tx[p].decisions[c]["error"]
        /\ decisions'[c]["skipped"] = decisions[c]["skipped"] + tx[p].decisions[c]["skipped"]
    BY DEF Commit, Outcome
  <2>2. /\ decisions[c]["ok"] \in Nat /\ tx[p].decisions[c]["ok"] \in Nat
        /\ decisions[c]["error"] \in Nat /\ tx[p].decisions[c]["error"] \in Nat
        /\ decisions[c]["skipped"] \in Nat /\ tx[p].decisions[c]["skipped"] \in Nat
    BY Numbers DEF IInv, Outcome
  <2>. QED BY <2>1, <2>2 DEF Decided, Decides
<1>8. AuditedOK(p)
  BY DEF AuditInv
<1>9. /\ \A c \in Capability : Decided(c) \in Nat /\ Decides(p, c) \in Nat
      /\ \A f \in Flow : records[f] \in Nat /\ tx[p].records[f] \in Nat
  BY AuditNumbers DEF IInv
<1>10. /\ tx[p].records["proposal"] = Decides(p, "score_document_completeness")
       /\ CaseDue(p) = Decides(p, "validate_nice_classification")
  BY <1>2, <1>8, <1>9, CallNames DEF AuditedOK, CaseDue
<1>11. /\ tx[p].records["submission"] <= Decides(p, "check_trademark_conflict")
       /\ Decides(p, "check_trademark_conflict") <= EutmDue(p) + tx[p].records["submission"]
  BY <1>2, <1>8, <1>9, CallNames DEF AuditedOK, EutmDue
<1>12. EutmDue(p) \in Nat
  BY <1>8 DEF AuditedOK
<1>13. /\ Decided("score_document_completeness")' + records["proposal"]
            = Decided("score_document_completeness") + records'["proposal"]
       /\ Decided("validate_nice_classification")' + CaseDue(p)' + records["case"]
            <= Decided("validate_nice_classification") + CaseDue(p) + records'["case"]
  BY <1>4, <1>5, <1>7, <1>9, <1>10, CallNames
<1>14. /\ records'["submission"] + Decided("check_trademark_conflict")
            <= records["submission"] + Decided("check_trademark_conflict")'
       /\ Decided("check_trademark_conflict")' + EutmDue(p)' + records["submission"] + records["eutm"]
            <= Decided("check_trademark_conflict") + EutmDue(p)
                 + records'["submission"] + records'["eutm"]
  BY <1>4, <1>5, <1>7, <1>9, <1>11, <1>12, CallNames
<1>. QED BY <1>6, <1>13, <1>14, AuditFrame DEF IInv

\* The steps of a call between its record and its decision, and the weight's.
LEMMA CallAudit ==
  ASSUME IsFiniteSet(Proc), IInv, TypeOK', AuditInv, NEW p \in Proc, Mine(p),
         \/ CreateBudget(p) \/ LoadBudget(p) \/ RollWindow(p) \/ LoadWeight(p)
         \/ InsertWeight(p) \/ consume_budget(p) \/ Handler(p) \/ update_weight_from_outcome(p)
  PROVE  AuditInv'
<1>1. UNCHANGED <<decisions, records>> /\ op' = op
  BY DEF CreateBudget, LoadBudget, RollWindow, LoadWeight, InsertWeight, consume_budget, Handler,
         update_weight_from_outcome, tables
<1>2. pc'[p] \notin {Idle, "poisoned"} /\ Calls(p)' = Calls(p)
  <2>1. Grading(p)' = Grading(p)
    BY <1>1 DEF Grading
  <2>2. CASE CreateBudget(p) \/ LoadBudget(p)
    BY <2>1, <2>2, Mine1 DEF CreateBudget, LoadBudget, Goto, TypeOK, Calls, Idle
  <2>3. CASE RollWindow(p) \/ consume_budget(p) \/ Handler(p)
    BY <2>1, <2>3, Mine1 DEF RollWindow, consume_budget, Handler, Goto, TypeOK, Calls, Idle
  <2>4. CASE LoadWeight(p) \/ InsertWeight(p)
    BY <2>1, <2>4, Mine1
    DEF LoadWeight, InsertWeight, AfterWeight, Grading, Goto, TypeOK, Calls, Idle
  <2>5. CASE update_weight_from_outcome(p)
    BY <2>1, <2>5, Mine1 DEF update_weight_from_outcome, Goto, TypeOK, Calls, Idle
  <2>. QED BY <2>2, <2>3, <2>4, <2>5
<1>3. tx'[p].decisions = tx[p].decisions /\ tx'[p].records = tx[p].records
  <2>1. ASSUME NEW r \in Proc, NEW row \in BudgetRow, tx' = [tx EXCEPT ![p].budget[r] = row]
        PROVE  <1>3
    BY <2>1, WriteBudget DEF Keeps, IInv
  <2>2. ASSUME NEW c, NEW row, c \in Capability, tx' = [tx EXCEPT ![p].weights[c] = row]
        PROVE  <1>3
    BY <2>2, FieldTypes DEF IInv, Writes
  <2>3. CASE LoadBudget(p) \/ LoadWeight(p) \/ Handler(p)
    BY <2>3 DEF LoadBudget, LoadWeight, Handler
  <2>4. CASE CreateBudget(p)
    BY <2>1, <2>4, RowsAreRows DEF CreateBudget, IInv, TypeOK
  <2>5. CASE RollWindow(p)
    BY <2>1, <2>5, RollWrites
  <2>6. CASE consume_budget(p)
    BY <2>1, <2>6, ConsumeWrites
  <2>7. CASE InsertWeight(p)
    <3>1. op[p].cap \in Capability
      BY <2>7, Mine1 DEF InsertWeight, LocalOK, Idle
    <3>. QED BY <2>2, <2>7, <3>1 DEF InsertWeight
  <2>8. CASE update_weight_from_outcome(p)
    <3>1. op[p].cap \in Capability
      BY <2>8, Mine1 DEF update_weight_from_outcome, LocalOK, Idle
    <3>. QED BY <2>2, <2>8, <3>1 DEF update_weight_from_outcome
  <2>. QED BY <2>3, <2>4, <2>5, <2>6, <2>7, <2>8
<1>4. \A f \in Flow : Owes(p, f)' = Owes(p, f)
  BY <1>1, <1>2 DEF Owes
<1>5. Calls(p)' => op'[p].kind \in Flow /\ op'[p].cap = CapabilityOf(op'[p].kind)
  BY <1>1, <1>2 DEF AuditInv, AuditedOK
<1>. QED BY <1>1, <1>2, <1>3, <1>4, <1>5, AuditQuiet DEF IInv

\* A grade is no decision.
LEMMA GradeAudit ==
  ASSUME IsFiniteSet(Proc), IInv, TypeOK', AuditInv, NEW p \in Proc, Mine(p),
         NEW c \in Capability, NEW g \in {"ok", "error"}, record_feedback(p, c, g)
  PROVE  AuditInv'
<1>1. /\ UNCHANGED <<decisions, records>> /\ pc[p] = Idle /\ pc'[p] = "weight"
      /\ op'[p] = [kind |-> "feedback", cap |-> c]
  BY Mine1 DEF record_feedback, Goto, TypeOK, tables
<1>2. Keeps(p, "feedback")
  BY WriteFeedback DEF record_feedback, IInv
<1>3. ~ Calls(p) /\ ~ Calls(p)'
  BY <1>1 DEF Calls, Grading, Idle
<1>4. \A f \in Flow : Owes(p, f)' = Owes(p, f)
  BY <1>3 DEF Owes
<1>. QED BY <1>1, <1>2, <1>3, <1>4, AuditQuiet DEF IInv, Keeps, Idle

\* The records and the decisions stay together, for any number of requests.
THEOREM Auditing == ASSUME IsFiniteSet(Proc) PROVE Spec => []AuditInv
<1>1. Init => AuditInv
  <2> SUFFICES ASSUME Init PROVE AuditInv
    OBVIOUS
  <2>1. \A p \in Proc : tx[p] = NoWrites /\ pc[p] = Idle
    BY DEF Init
  <2>2. ASSUME NEW p \in Proc
        PROVE  /\ ~ Calls(p) /\ \A c \in Capability : Decides(p, c) = 0
               /\ \A f \in Flow : Owes(p, f) = 0 /\ tx[p].records[f] = 0
    BY <2>1 DEF Calls, Owes, Decides, NoWrites, Outcome, Idle
  <2>3. \A p \in Proc : CaseDue(p) = 0 /\ EutmDue(p) = 0
    BY <2>2, CallNames DEF CaseDue, EutmDue
  <2>4. \A p \in Proc : AuditedOK(p)
    BY <2>1, <2>2, <2>3, CallNames DEF AuditedOK
  <2>5. /\ \A c \in Capability : Decided(c) = 0
        /\ \A f \in Flow : records[f] = 0
    BY DEF Init, NoWrites, Decided, Outcome
  <2>6. Cardinality(CaseOwed) = 0 /\ Cardinality(EutmOwed) = 0
    BY <2>3, FS_EmptySet DEF CaseOwed, EutmOwed
  <2>. QED BY <2>4, <2>5, <2>6, CallNames DEF AuditInv, TableAudit
<1>2. IInv /\ IInv' /\ AuditInv /\ [Next]_vars => AuditInv'
  <2> SUFFICES ASSUME IInv, IInv', AuditInv, [Next]_vars PROVE AuditInv'
    OBVIOUS
  <2>1. TypeOK /\ TypeOK'
    BY DEF IInv
  <2>2. ASSUME NEW p \in Proc, NEW f \in Started, Begin(p, f) PROVE AuditInv'
    <3>1. f \in Flow /\ Hook(p, f) /\ pc[p] = Idle
      BY <2>2, BraidAssumption DEF Begin
    <3>2. Mine(p)
      BY <2>2, <3>1, HookStep DEF Begin, IInv, TypeOK
    <3>. QED BY <2>1, <3>1, <3>2, HookAudit
  <2>3. ASSUME NEW p \in Proc, AutoProposal(p) PROVE AuditInv'
    <3>1. "proposal" \in Flow /\ Hook(p, "proposal") /\ pc[p] = "return" /\ ~ Grading(p)
      BY <2>3 DEF AutoProposal, Flow, Grading
    <3>2. Mine(p)
      BY <2>3, <3>1, HookStep DEF AutoProposal, bounds, IInv, TypeOK
    <3>. QED BY <2>1, <3>1, <3>2, HookAudit
  <2>4. ASSUME NEW p \in Proc, NEW c \in Capability, NEW g \in {"ok", "error"},
               record_feedback(p, c, g)
        PROVE  AuditInv'
    <3>1. Mine(p)
      BY <2>4, GradeStep
    <3>. QED BY <2>1, <2>4, <3>1, GradeAudit
  <2>5. ASSUME NEW p \in Proc,
               Commit(p) \/ DuplicateWeight(p) \/ DeadlockVictim(p) \/ GiveUp(p) \/ Abort(p)
        PROVE  AuditInv'
    <3>1. Mine(p)
      BY <2>5, EndStep
    <3>2. CASE Commit(p)
      BY <2>1, <3>1, <3>2, CommitAudit
    <3>3. CASE DuplicateWeight(p) \/ DeadlockVictim(p)
      BY <2>1, <3>1, <3>3, ForgetAudit DEF DuplicateWeight, DeadlockVictim, Poison
    <3>4. CASE GiveUp(p) \/ Abort(p)
      BY <2>1, <3>1, <3>4, ForgetAudit DEF GiveUp, Abort
    <3>. QED BY <2>5, <3>2, <3>3, <3>4
  <2>6. ASSUME NEW p \in Proc,
               \/ CreateBudget(p) \/ LoadBudget(p) \/ RollWindow(p) \/ LoadWeight(p)
               \/ InsertWeight(p) \/ consume_budget(p) \/ Handler(p)
               \/ update_weight_from_outcome(p)
        PROVE  AuditInv'
    <3>1. Mine(p)
      BY <2>6, CreateBudgetStep, LoadBudgetStep, RollStep, LoadWeightStep, InsertStep,
         ConsumeStep, HandlerStep, LearnStep
    <3>. QED BY <2>1, <2>6, <3>1, CallAudit
  <2>7. ASSUME NEW p \in Proc, _audit(p) PROVE AuditInv'
    <3>1. Mine(p)
      BY <2>7, AuditStep
    <3>. QED BY <2>1, <2>7, <3>1, FileAudit
  <2>8. ASSUME NEW p \in Proc, Step(p) PROVE AuditInv'
    BY <2>3, <2>5, <2>6, <2>7, <2>8 DEF Step
  <2>9. CASE WindowEnds \/ UNCHANGED vars
    <3>1. UNCHANGED <<decisions, records, tx, pc, op>>
      BY <2>9 DEF WindowEnds, vars, tables, local
    <3>2. /\ \A c \in Capability : Decided(c)' = Decided(c)
          /\ \A p \in Proc, c \in Capability : Decides(p, c)' = Decides(p, c)
          /\ \A p \in Proc : Calls(p)' = Calls(p)
          /\ \A p \in Proc, f \in Flow : Owes(p, f)' = Owes(p, f)
      BY <3>1 DEF Decided, Decides, Calls, Owes, Grading
    <3>3. \A p \in Proc : CaseDue(p)' = CaseDue(p) /\ EutmDue(p)' = EutmDue(p)
      BY <3>1, <3>2, CallNames DEF CaseDue, EutmDue
    <3>4. CaseOwed' = CaseOwed /\ EutmOwed' = EutmOwed
      BY <3>3 DEF CaseOwed, EutmOwed
    <3>5. \A p \in Proc : AuditedOK(p)'
      BY <3>1, <3>2, <3>3, CallNames DEF AuditInv, AuditedOK
    <3>6. TableAudit'
      BY <3>1, <3>2, <3>4, CallNames DEF AuditInv, TableAudit
    <3>. QED BY <3>5, <3>6 DEF AuditInv
  <2>. QED BY <2>2, <2>4, <2>5, <2>8, <2>9 DEF Next
<1>. QED BY <1>1, <1>2, Invariance, PTL DEF Spec

\* Every committed proposal has its decision, and only it; no decision on a
\* case or a trademark search is there without the record it is about, and no
\* submission without its decision.
THEOREM EveryRecordIsAudited ==
  ASSUME IsFiniteSet(Proc) PROVE Spec => []RecordsAreAudited
<1>1. IInv /\ AuditInv => RecordsAreAudited
  <2> SUFFICES ASSUME IInv, AuditInv PROVE RecordsAreAudited
    OBVIOUS
  <2>1. Cardinality(CaseOwed) \in Nat /\ Cardinality(EutmOwed) \in Nat
    BY FS_Subset, FS_CardinalityType DEF CaseOwed, EutmOwed
  <2>2. /\ \A c \in Capability : Decided(c) \in Nat
        /\ \A f \in Flow : records[f] \in Nat
    BY DEF IInv, TypeOK, Counts, Outcome, Decided
  <2>. QED BY <2>1, <2>2, CallNames DEF AuditInv, TableAudit, RecordsAreAudited
<1>. QED BY <1>1, Invariance, Auditing, PTL
=============================================================================

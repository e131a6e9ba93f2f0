---------------------------- MODULE UkipoFiling ----------------------------
(***************************************************************************)
(* One UK IPO submission from its row to "filed": app/services/ukipo, the  *)
(* payment endpoints of app/agent/router.py, the card lane of              *)
(* app/payments/service.py and the wallet code of the dashboard.           *)
(*                                                                         *)
(* A run request marks the row running and starts a robot, an asyncio task *)
(* of the process; the robot's outcome makes the row payable.  Wallets of  *)
(* several people and a Stripe Checkout may then pay at the same time.     *)
(* No handler locks the row: each reads it, talks to the chain or to       *)
(* Stripe, and writes what it has found.                                   *)
(***************************************************************************)
EXTENDS UkipoForm, FiniteSets

CONSTANTS
  Request,       \* run requests in flight at a time
  Task,          \* robots that may be started: bounds the runs
  NoTask,
  Wallet,        \* wallets of the client and of the administrators
  Operator,      \* the operator's own account
  Session,       \* Stripe Checkout sessions that may be created
  Nothing,       \* a column that is NULL
  MaxTransfers,  \* bound on the transfers of all wallets
  MaxDuplicates, \* bound on events and confirmations sent again after an answer
  MaxFaults,     \* bound on crashes, lost answers and failing services
  VerifierEnabled \* settings.solana_zk_verifier_enabled

\* Transfers carry the memo of the chat, bound to the proof, or of the panel.
Transfer == [payer : Wallet, memo : {"chat", "panel"}, n : 1..MaxTransfers]

\* A record's address: the user it is for, and the query hash, which names the
\* submission alone in the wallet lane and the card payment as well in the other.
Pda == [user : Wallet \cup {Operator}, query_hash : Session \cup {"filing"}]

ASSUME UkipoAssumption ==
  /\ NoTask \notin Task
  /\ Operator \notin Wallet
  /\ Wallet \cap Session = {}
  /\ Nothing \notin Session \cup Wallet \cup {Operator}
  /\ Nothing \notin Transfer \cup Pda
  /\ "filing" \notin Session
  /\ VerifierEnabled \in BOOLEAN
  /\ MaxTransfers \in Nat /\ MaxDuplicates \in Nat /\ MaxFaults \in Nat

VARIABLES
  status, current_step,            \* columns of the ukipo_submissions row
  payment_tx, compliance_pda,
  checkout_session, stripe_confirmed,
  running_tasks,                   \* the entry of _RUNNING_TASKS for the row
  req,                             \* per run request: the status it loaded, or its step
  robot, robot_step, page,         \* per robot: phase, next step, page of its form
  pay, transfer, seen_pda,         \* per wallet: step, its transfer, the column read
  checkout,                        \* the columns the checkout request loaded
  hook, hook_user,                 \* per session: its event, the user of the proof
  transfers,                       \* payments on chain
  records,                         \* compliance records on chain
  sessions, keyed,                 \* Stripe: sessions, the one bound to the idempotency key
  prepared,                        \* has some robot completed the application?
  duplicates, faults

row == <<status, current_step, payment_tx, compliance_pda, checkout_session,
         stripe_confirmed>>
robots == <<running_tasks, req, robot, robot_step, page, prepared>>
wallets == <<pay, transfer, seen_pda, transfers>>
cards == <<checkout, hook, hook_user, sessions, keyed, duplicates>>
vars == <<row, robots, wallets, cards, records, faults>>

-----------------------------------------------------------------------------
Status == {"none", "pending", "running", "awaiting_payment", "filed", "failed"}

ChatPda(w) == [user |-> w, query_hash |-> "filing"]
CardPda(s) == [user |-> hook_user[s], query_hash |-> s]

Init ==
  /\ status = "none" /\ current_step = 0
  /\ payment_tx = Nothing /\ compliance_pda = Nothing
  /\ checkout_session = Nothing /\ stripe_confirmed = FALSE
  /\ running_tasks = NoTask /\ prepared = FALSE
  /\ req = [r \in Request |-> "idle"]
  /\ robot = [t \in Task |-> "unused"]
  /\ robot_step = [t \in Task |-> 1] /\ page = [t \in Task |-> 0]
  /\ pay = [w \in Wallet |-> "idle"] /\ transfer = [w \in Wallet |-> Nothing]
  /\ seen_pda = [w \in Wallet |-> Nothing]
  /\ transfers = {} /\ records = {}
  /\ checkout = Nothing
  /\ hook = [s \in Session |-> "none"] /\ hook_user = [s \in Session |-> Nothing]
  /\ sessions = [s \in Session |-> "none"] /\ keyed = Nothing
  /\ duplicates = 0 /\ faults = 0

-----------------------------------------------------------------------------
(* The row and its robots.                                                 *)

\* Through the panel's form.
create_submission ==
  /\ status = "none"
  /\ status' = "pending"
  /\ UNCHANGED <<current_step, payment_tx, compliance_pda, checkout_session,
                 stripe_confirmed, robots, wallets, cards, records, faults>>

InFlight == {r \in Request : req[r] # "idle"}
Unused == {t \in Task : robot[t] = "unused"}

\* The endpoint loads the row, then awaits the case.
run_submission_endpoint(r) ==
  /\ req[r] = "idle" /\ status # "none"
  /\ Cardinality(InFlight) < Cardinality(Unused)
  /\ req' = [req EXCEPT ![r] = status]
  /\ UNCHANGED <<row, running_tasks, robot, robot_step, page, prepared, wallets,
                 cards, records, faults>>

\* The agent's tool commits a row of its own; then it loads it in another session, as
\* a request does, and runs it.
start_ukipo_filing(r) ==
  /\ req[r] = "idle" /\ status = "none"
  /\ Cardinality(InFlight) < Cardinality(Unused)
  /\ status' = "pending"
  /\ req' = [req EXCEPT ![r] = "created"]
  /\ UNCHANGED <<current_step, payment_tx, compliance_pda, checkout_session,
                 stripe_confirmed, running_tasks, robot, robot_step, page, prepared,
                 wallets, cards, records, faults>>

LoadCreated(r) ==
  /\ req[r] = "created"
  /\ req' = [req EXCEPT ![r] = status]
  /\ UNCHANGED <<row, running_tasks, robot, robot_step, page, prepared, wallets,
                 cards, records, faults>>

\* Both checks are made on what this request and this process know.
CanRun(r) ==
  /\ req[r] \in {"pending", "failed"}
  /\ running_tasks # NoTask => robot[running_tasks] = "done"

RunRefused(r) ==
  /\ req[r] \in Status /\ ~CanRun(r)
  /\ req' = [req EXCEPT ![r] = "idle"]
  /\ UNCHANGED <<row, running_tasks, robot, robot_step, page, prepared, wallets,
                 cards, records, faults>>

start_submission_run(r) ==
  /\ req[r] \in Status /\ CanRun(r)
  /\ status' = "running" /\ current_step' = 0
  /\ req' = [req EXCEPT ![r] = "committed"]
  /\ UNCHANGED <<payment_tx, compliance_pda, checkout_session, stripe_confirmed,
                 running_tasks, robot, robot_step, page, prepared, wallets,
                 cards, records, faults>>

\* The task is created and registered only after the commit and a refresh.
create_task(r) ==
  /\ req[r] = "committed"
  /\ \E t \in Unused :
       /\ robot' = [robot EXCEPT ![t] = "started"]
       /\ running_tasks' = t
  /\ req' = [req EXCEPT ![r] = "idle"]
  /\ UNCHANGED <<row, robot_step, page, prepared, wallets, cards, records,
                 faults>>

\* Settings that are missing, or a browser that does not start, end the run before
\* its first step.
build_robot_input(t) ==
  /\ robot[t] = "started"
  /\ \E outcome \in {"driving", "broken"} : robot' = [robot EXCEPT ![t] = outcome]
  /\ UNCHANGED <<row, running_tasks, req, robot_step, page, prepared, wallets,
                 cards, records, faults>>

\* One step of the form; the row is told of it before, and a failure to is swallowed.
_update_step(t) ==
  /\ robot[t] = "driving"
  /\ current_step' \in {current_step, robot_step[t]}
  /\ \E outcome \in StepOutcomes(robot_step[t], page[t]) :
       IF outcome = Raise
         THEN /\ robot' = [robot EXCEPT ![t] = "lost"]
              /\ UNCHANGED <<robot_step, page, prepared>>
         ELSE /\ page' = [page EXCEPT ![t] = outcome]
              /\ IF robot_step[t] = 14
                   THEN /\ robot' = [robot EXCEPT ![t] = "arrived"]
                        /\ UNCHANGED robot_step
                   ELSE /\ robot_step' = [robot_step EXCEPT ![t] = @ + 1]
                        /\ UNCHANGED robot
              /\ prepared' = (prepared \/ (robot_step[t] = 14 /\ outcome >= 13))
  /\ UNCHANGED <<status, payment_tx, compliance_pda, checkout_session,
                 stripe_confirmed, running_tasks, req, wallets, cards, records,
                 faults>>

\* Mutant: only a robot that arrived is written to the row.
MutExecuteRobot(t) ==
  /\ robot[t] \in {"arrived", "lost"}
  /\ status' = IF robot[t] = "arrived" THEN "awaiting_payment" ELSE status
  /\ robot' = [robot EXCEPT ![t] = "written"]
  /\ UNCHANGED <<current_step, payment_tx, compliance_pda, checkout_session,
                 stripe_confirmed, running_tasks, req, robot_step, page, prepared,
                 wallets, cards, records, faults>>

\* Mutant: nobody looks whether the robot arrived.
MutOutcome(t) ==
  /\ robot[t] \in {"arrived", "lost"}
  /\ status' = "awaiting_payment" /\ current_step' = robot_step[t]
  /\ robot' = [robot EXCEPT ![t] = "written"]
  /\ UNCHANGED <<payment_tx, compliance_pda, checkout_session, stripe_confirmed,
                 running_tasks, req, robot_step, page, prepared, wallets, cards,
                 records, faults>>

\* The outcome is written over whatever the row says by now.
_execute_robot(t) ==
  /\ robot[t] \in {"arrived", "lost"}
  /\ status' = IF robot[t] = "arrived" THEN "awaiting_payment" ELSE "failed"
  /\ current_step' = robot_step[t]
  /\ robot' = [robot EXCEPT ![t] = "written"]
  /\ UNCHANGED <<payment_tx, compliance_pda, checkout_session, stripe_confirmed,
                 running_tasks, req, robot_step, page, prepared, wallets, cards,
                 records, faults>>

\* A run without a result: its row is failed too, at whatever step it shows.
_mark_failed(t) ==
  /\ robot[t] = "broken"
  /\ status' = "failed"
  /\ robot' = [robot EXCEPT ![t] = "written"]
  /\ UNCHANGED <<current_step, payment_tx, compliance_pda, checkout_session,
                 stripe_confirmed, running_tasks, req, robot_step, page, prepared,
                 wallets, cards, records, faults>>

\* The finally clause forgets the entry, whichever robot it names.
_forget_task(t) ==
  /\ robot[t] = "written"
  /\ robot' = [robot EXCEPT ![t] = "done"]
  /\ robot_step' = [robot_step EXCEPT ![t] = 1] /\ page' = [page EXCEPT ![t] = 0]
  /\ running_tasks' = NoTask
  /\ UNCHANGED <<row, req, prepared, wallets, cards, records, faults>>

-----------------------------------------------------------------------------
(* Wallet payments, through the chat or through the panel.                 *)

\* Payments the wallets are about to send.
Quoted == {w \in Wallet : pay[w] = "quoted"}

filing_payment_requirements_endpoint(w) ==
  /\ pay[w] = "idle" /\ status = "awaiting_payment"
  /\ Cardinality(transfers) + Cardinality(Quoted) < MaxTransfers
  /\ \E n \in 1..MaxTransfers :
       /\ \A tx \in transfers : tx.payer = w => tx.n < n
       /\ \E memo \in {"chat", "panel"} :
            /\ memo = "panel" => payment_tx = Nothing  \* the panel's button
            /\ transfer' = [transfer EXCEPT ![w] = [payer |-> w, memo |-> memo, n |-> n]]
  /\ pay' = [pay EXCEPT ![w] = "quoted"]
  /\ UNCHANGED <<row, robots, seen_pda, transfers, cards, records, faults>>

Answered(w) ==
  /\ pay' = [pay EXCEPT ![w] = "idle"]
  /\ transfer' = [transfer EXCEPT ![w] = Nothing]
  /\ seen_pda' = [seen_pda EXCEPT ![w] = Nothing]

\* The wallet signs and the transfer is confirmed, whatever happened meanwhile;
\* or its owner declines.
handlePay(w) ==
  /\ pay[w] = "quoted"
  /\ \/ /\ transfers' = transfers \cup {transfer[w]}
        /\ pay' = [pay EXCEPT ![w] = "sent"]
        /\ UNCHANGED <<transfer, seen_pda>>
     \/ Answered(w) /\ UNCHANGED transfers
  /\ UNCHANGED <<row, robots, cards, records, faults>>

\* The chat's confirmation is taken on a filed row too.
ChatAccepts == status \in {"awaiting_payment", "filed"}

\* The server has loaded the row and found the transfer on chain.
verify_payment_tx(w) ==
  /\ pay[w] = "sent"
  /\ LET accepted ==
           IF transfer[w].memo = "chat"
             THEN ChatAccepts
             ELSE /\ status = "awaiting_payment"
                  /\ payment_tx \in {Nothing, transfer[w]}
     IN IF accepted
          THEN /\ pay' = [pay EXCEPT ![w] = "verified"]
               /\ seen_pda' = [seen_pda EXCEPT ![w] = compliance_pda]
               /\ UNCHANGED transfer
          ELSE Answered(w)
  /\ UNCHANGED <<row, robots, transfers, cards, records, faults>>

\* The verifier program refuses a second record at the same address.
submit_compliance_proof_tx(w) ==
  /\ pay[w] = "verified" /\ transfer[w].memo = "chat"
  /\ \/ /\ seen_pda[w] = ChatPda(w)
        /\ pay' = [pay EXCEPT ![w] = "proved"]
        /\ UNCHANGED <<records, transfer, seen_pda>>
     \/ /\ seen_pda[w] # ChatPda(w) /\ ChatPda(w) \notin records
        /\ records' = records \cup {ChatPda(w)}
        /\ pay' = [pay EXCEPT ![w] = "proved"]
        /\ UNCHANGED <<transfer, seen_pda>>
     \/ /\ seen_pda[w] # ChatPda(w) /\ ChatPda(w) \in records
        /\ Answered(w) /\ UNCHANGED records
  /\ UNCHANGED <<row, robots, transfers, cards, faults>>

filing_confirm_payment_endpoint(w) ==
  /\ pay[w] = "proved"
  /\ payment_tx' = transfer[w]
  /\ compliance_pda' = ChatPda(w)
  /\ status' = "filed"
  /\ Answered(w)
  /\ UNCHANGED <<current_step, checkout_session, stripe_confirmed, robots,
                 transfers, cards, records, faults>>

record_solana_payment(w) ==
  /\ pay[w] = "verified" /\ transfer[w].memo = "panel"
  /\ payment_tx' = transfer[w]
  /\ Answered(w)
  /\ UNCHANGED <<status, current_step, compliance_pda, checkout_session,
                 stripe_confirmed, robots, transfers, cards, records, faults>>

\* A confirmation is posted again.
Resent(w) ==
  /\ pay[w] = "idle" /\ duplicates < MaxDuplicates
  /\ duplicates' = duplicates + 1
  /\ pay' = [pay EXCEPT ![w] = "sent"]
  /\ \E tx \in {x \in transfers : x.payer = w} : transfer' = [transfer EXCEPT ![w] = tx]
  /\ UNCHANGED <<row, robots, seen_pda, transfers, checkout, hook, hook_user, sessions,
                 keyed, records, faults>>

-----------------------------------------------------------------------------
(* The card.                                                               *)

create_ukipo_checkout_session ==
  /\ checkout = Nothing /\ status = "awaiting_payment"
  /\ checkout' = [session |-> checkout_session, confirmed |-> stripe_confirmed]
  /\ UNCHANGED <<row, robots, wallets, hook, hook_user, sessions, keyed,
                 duplicates, records, faults>>

Reusable ==
  /\ checkout.session \in Session /\ ~checkout.confirmed
  /\ sessions[checkout.session] = "open"

ReuseSession ==
  /\ checkout # Nothing /\ Reusable
  /\ checkout' = Nothing
  /\ UNCHANGED <<row, robots, wallets, hook, hook_user, sessions, keyed,
                 duplicates, records, faults>>

\* Under the key of the submission Stripe answers with the session it made
\* before, in whatever state that is now.
CreateSession ==
  /\ checkout # Nothing /\ ~Reusable
  /\ \E s \in Session :
       /\ IF keyed # Nothing THEN s = keyed ELSE sessions[s] = "none"
       /\ sessions' = [sessions EXCEPT ![s] = IF @ = "none" THEN "open" ELSE @]
       /\ keyed' = s
       /\ checkout_session' = s
  /\ checkout' = Nothing
  /\ UNCHANGED <<status, current_step, payment_tx, compliance_pda,
                 stripe_confirmed, robots, wallets, hook, hook_user, duplicates,
                 records, faults>>

\* Stripe: an open session is paid or expires, a key is forgotten after a day.
SessionEnds(s) ==
  /\ sessions[s] = "open"
  /\ \/ /\ sessions' = [sessions EXCEPT ![s] = "paid"]
        /\ hook' = [hook EXCEPT ![s] = "event"]
     \/ /\ sessions' = [sessions EXCEPT ![s] = "expired"]
        /\ UNCHANGED hook
  /\ UNCHANGED <<row, robots, wallets, checkout, hook_user, keyed, duplicates,
                 records, faults>>

KeyForgotten ==
  /\ keyed # Nothing
  /\ keyed' = Nothing
  /\ UNCHANGED <<row, robots, wallets, checkout, hook, hook_user, sessions,
                 duplicates, records, faults>>

\* The handler has loaded the row; the proof is for the wallet that paid
\* through the panel or the chat, if one did, and for the operator otherwise.
_handle_ukipo_session_completed(s) ==
  /\ hook[s] = "event"
  /\ IF status = "filed"
       THEN hook' = [hook EXCEPT ![s] = "answered"] /\ UNCHANGED hook_user
       ELSE /\ hook' = [hook EXCEPT ![s] = "loaded"]
            /\ hook_user' = [hook_user EXCEPT ![s] =
                 IF payment_tx = Nothing THEN Operator ELSE payment_tx.payer]
  /\ UNCHANGED <<row, robots, wallets, checkout, sessions, keyed, duplicates,
                 records, faults>>

EventAnswered(s) ==
  /\ hook' = [hook EXCEPT ![s] = "answered"]
  /\ hook_user' = [hook_user EXCEPT ![s] = Nothing]
  /\ stripe_confirmed' = TRUE

\* A proof already on chain is refused; the event is answered all the same.
CardProof(s) ==
  /\ VerifierEnabled
  /\ hook[s] = "loaded"
  /\ IF CardPda(s) \in records
       THEN EventAnswered(s) /\ UNCHANGED records
       ELSE /\ hook' = [hook EXCEPT ![s] = "proved"]
            /\ records' = records \cup {CardPda(s)}
            /\ UNCHANGED <<hook_user, stripe_confirmed>>
  /\ UNCHANGED <<status, current_step, payment_tx, compliance_pda,
                 checkout_session, robots, wallets, checkout, sessions, keyed,
                 duplicates, faults>>

\* Mutant: the record is stored, the status is not.
MutCardFiled(s) ==
  /\ hook[s] = IF VerifierEnabled THEN "proved" ELSE "loaded"
  /\ EventAnswered(s)
  /\ compliance_pda' = CardPda(s)
  /\ UNCHANGED <<status, current_step, payment_tx, checkout_session, robots, wallets,
                 checkout, sessions, keyed, duplicates, records, faults>>

\* With the verifier switched off the proof is made and goes nowhere.
CardFiled(s) ==
  /\ hook[s] = IF VerifierEnabled THEN "proved" ELSE "loaded"
  /\ EventAnswered(s)
  /\ compliance_pda' = IF VerifierEnabled THEN CardPda(s) ELSE compliance_pda
  /\ status' = "filed"
  /\ UNCHANGED <<current_step, payment_tx, checkout_session, robots, wallets,
                 checkout, sessions, keyed, duplicates, records, faults>>

Redelivered(s) ==
  /\ hook[s] = "answered" /\ duplicates < MaxDuplicates
  /\ duplicates' = duplicates + 1
  /\ hook' = [hook EXCEPT ![s] = "event"]
  /\ UNCHANGED <<row, robots, wallets, checkout, hook_user, sessions, keyed,
                 records, faults>>

-----------------------------------------------------------------------------
(* Faults.                                                                 *)

Fault == faults < MaxFaults /\ faults' = faults + 1

\* The tab is closed between the transfer and the call that reports it.
TabClosed(w) ==
  /\ Fault
  /\ pay[w] = "sent" /\ Answered(w)
  /\ UNCHANGED <<row, robots, transfers, cards, records>>

\* The chain does not answer the operator: the record may be there or not.
ChatProofFails(w) ==
  /\ Fault
  /\ pay[w] = "verified" /\ transfer[w].memo = "chat" /\ seen_pda[w] # ChatPda(w)
  /\ Answered(w)
  /\ records' \in {records, records \cup {ChatPda(w)}}
  /\ UNCHANGED <<row, robots, transfers, cards>>

\* Mutant: a card payment is filed although its proof failed.
MutCardProofFails(s) ==
  /\ Fault
  /\ hook[s] = "loaded" /\ EventAnswered(s)
  /\ status' = "filed" /\ compliance_pda' = CardPda(s)
  /\ records' \in {records, records \cup {CardPda(s)}}
  /\ UNCHANGED <<current_step, payment_tx, checkout_session, robots, wallets, checkout,
                 sessions, keyed, duplicates>>

\* Prover or chain fail the card's proof: the event is answered all the same.
CardProofFails(s) ==
  /\ Fault
  /\ hook[s] = "loaded" /\ EventAnswered(s)
  /\ records' \in {records, IF VerifierEnabled THEN records \cup {CardPda(s)} ELSE records}
  /\ UNCHANGED <<status, current_step, payment_tx, compliance_pda,
                 checkout_session, robots, wallets, checkout, sessions, keyed,
                 duplicates>>

\* The database fails a robot when it reads or writes its row: the task ends with
\* the row as it is.
OutcomeUnwritten(t) ==
  /\ Fault
  /\ robot[t] \in {"started", "arrived", "lost", "broken"}
  /\ robot' = [robot EXCEPT ![t] = "written"]
  /\ UNCHANGED <<row, running_tasks, req, robot_step, page, prepared, wallets, cards,
                 records>>

\* The process restarts: its robots and requests are gone, Stripe will retry.
Crash ==
  /\ Fault
  /\ running_tasks' = NoTask
  /\ req' = [r \in Request |-> "idle"]
  /\ robot' = [t \in Task |-> IF robot[t] = "unused" THEN "unused" ELSE "done"]
  /\ robot_step' = [t \in Task |-> 1] /\ page' = [t \in Task |-> 0]
  /\ LET cut == {w \in Wallet : pay[w] \in {"verified", "proved"}}
     IN /\ pay' = [w \in Wallet |-> IF w \in cut THEN "idle" ELSE pay[w]]
        /\ transfer' = [w \in Wallet |-> IF w \in cut THEN Nothing ELSE transfer[w]]
        /\ seen_pda' = [w \in Wallet |-> Nothing]
  /\ checkout' = Nothing
  /\ hook' = [s \in Session |-> IF hook[s] \in {"loaded", "proved"} THEN "event" ELSE hook[s]]
  /\ hook_user' = [s \in Session |-> Nothing]
  /\ UNCHANGED <<row, prepared, transfers, sessions, keyed, duplicates, records>>

-----------------------------------------------------------------------------
RunRequest(r) ==
  \/ run_submission_endpoint(r) \/ start_ukipo_filing(r) \/ LoadCreated(r)
  \/ RunRefused(r) \/ start_submission_run(r) \/ create_task(r)
Robot(t) ==
  \/ build_robot_input(t) \/ _update_step(t) \/ _execute_robot(t) \/ _mark_failed(t)
  \/ _forget_task(t)
Confirm(w) ==
  \/ verify_payment_tx(w) \/ submit_compliance_proof_tx(w)
  \/ filing_confirm_payment_endpoint(w) \/ record_solana_payment(w)
Checkout == create_ukipo_checkout_session \/ ReuseSession \/ CreateSession
Event(s) == _handle_ukipo_session_completed(s) \/ CardProof(s) \/ CardFiled(s)

Next ==
  \/ create_submission \/ Checkout \/ KeyForgotten \/ Crash
  \/ \E r \in Request : RunRequest(r)
  \/ \E t \in Task : Robot(t) \/ OutcomeUnwritten(t)
  \/ \E w \in Wallet :
       \/ filing_payment_requirements_endpoint(w) \/ handlePay(w) \/ Confirm(w)
       \/ Resent(w) \/ TabClosed(w) \/ ChatProofFails(w)
  \/ \E s \in Session : SessionEnds(s) \/ Event(s) \/ Redelivered(s) \/ CardProofFails(s)

\* What the process, the client's script and Stripe carry on with by
\* themselves; nobody has to run a robot, quote or pay.
Fairness ==
  /\ \A r \in Request : WF_vars(start_submission_run(r) \/ create_task(r))
  /\ \A t \in Task : WF_vars(Robot(t))
  /\ \A w \in Wallet : WF_vars(Confirm(w))
  /\ \A s \in Session : WF_vars(Event(s))

Spec == Init /\ [][Next]_vars
FairSpec == Spec /\ Fairness

-----------------------------------------------------------------------------
(* Properties.                                                             *)

RowTyped ==
  /\ status \in Status /\ current_step \in 0..14
  /\ payment_tx \in Transfer \cup {Nothing} /\ compliance_pda \in Pda \cup {Nothing}
  /\ checkout_session \in Session \cup {Nothing} /\ stripe_confirmed \in BOOLEAN

RobotsTyped ==
  /\ running_tasks \in Task \cup {NoTask} /\ prepared \in BOOLEAN
  /\ req \in [Request -> Status \cup {"idle", "created", "committed"}]
  /\ robot \in [Task -> {"unused", "started", "driving", "arrived", "lost", "broken", "written",
                       "done"}]
  /\ robot_step \in [Task -> Steps] /\ page \in [Task -> Pages]

WalletsTyped ==
  /\ pay \in [Wallet -> {"idle", "quoted", "sent", "verified", "proved"}]
  /\ transfer \in [Wallet -> Transfer \cup {Nothing}]
  /\ seen_pda \in [Wallet -> Pda \cup {Nothing}]
  /\ transfers \subseteq Transfer

CardsTyped ==
  /\ checkout \in {Nothing}
       \cup [session : Session \cup {Nothing}, confirmed : BOOLEAN]
  /\ hook \in [Session -> {"none", "event", "loaded", "proved", "answered"}]
  /\ hook_user \in [Session -> Wallet \cup {Operator, Nothing}]
  /\ sessions \in [Session -> {"none", "open", "paid", "expired"}]
  /\ keyed \in Session \cup {Nothing}
  /\ duplicates \in 0..MaxDuplicates

TypeOK ==
  /\ RowTyped /\ RobotsTyped /\ WalletsTyped /\ CardsTyped
  /\ records \subseteq Pda /\ faults \in 0..MaxFaults

\* Was the payment a record is bound to really made?
Paid(pda) ==
  IF pda.query_hash = "filing"
    THEN \E tx \in transfers : tx.payer = pda.user /\ tx.memo = "chat"
    ELSE sessions[pda.query_hash] = "paid"

\* A filed submission names a compliance record that is on chain and bound to
\* a payment that was made, whichever lane, wallet or redelivery filed it last;
\* with the verifier switched off a card files it without a record, once paid.
FiledIsPaidAndProved ==
  status = "filed" =>
    \/ compliance_pda \in records /\ Paid(compliance_pda)
    \/ ~VerifierEnabled /\ \E s \in Session : sessions[s] = "paid"

AtWork == {"started", "driving", "arrived", "lost", "broken"}
Driving == {t \in Task : robot[t] \in AtWork}

\* A row says "running" only while a robot, or the request that is about to
\* start one, will write its outcome; only a restart, or a database that fails the
\* robot's last write, leaves it that way.
RunningHasRobot ==
  status = "running" =>
    \/ Driving # {}
    \/ \E r \in Request : req[r] = "committed"
    \/ faults > 0

ChatOrCardPaid ==
  \/ \E tx \in transfers : tx.memo = "chat"
  \/ \E s \in Session : sessions[s] = "paid"

\* Money paid by card or from the chat files the submission unless some
\* service failed: no interleaving of the lanes leaves it unfiled.
PaidIsFiled == ChatOrCardPaid ~> (status = "filed" \/ faults > 0)

\* One robot at a time fills in the application ("refuse a duplicate kick-off",
\* service.py); two requests that run at the same time start two.
OneRobot == Cardinality(Driving) <= 1

\* A payment whose record is already on chain is confirmed by that record
\* ("Reuse the existing on-chain record", agent/router.py), not refused.
RetryReusesRecord ==
  [][\A w \in Wallet :
       pay[w] = "verified" /\ ChatPda(w) \in records /\ submit_compliance_proof_tx(w)
         => pay'[w] = "proved"]_vars

\* A payment that was made, seen from the ledger.
PaymentOf(pda) == IF pda.query_hash = "filing" THEN pda.user ELSE pda.query_hash

\* The lane, its verifier enabled, implements its ledger.
Ledger == INSTANCE UkipoLedger WITH
  Payment <- Wallet \cup Session, NoPayment <- Nothing,
  prepared <- prepared,
  money <- {tx.payer : tx \in {x \in transfers : x.memo = "chat"}}
             \cup {s \in Session : sessions[s] = "paid"},
  proved <- {PaymentOf(pda) : pda \in records},
  filedOn <- IF status = "filed" THEN PaymentOf(compliance_pda) ELSE Nothing

LedgerSpec == Ledger!Spec
=============================================================================

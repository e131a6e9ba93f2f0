------------------------- MODULE UkipoFilingProofs -------------------------
(***************************************************************************)
(* A submission is filed on a payment that was made and a record that is   *)
(* on chain, for any number of wallets, sessions, robots and faults.       *)
(***************************************************************************)
EXTENDS UkipoFiling, FiniteSetTheorems, TLAPS

\* A record the row, or somebody about to write the row, may name.
Backed(pda) == pda \in records /\ Paid(pda)

RowOK ==
  /\ status = "filed" =>
       compliance_pda # Nothing \/ (~VerifierEnabled /\ \E s \in Session : sessions[s] = "paid")
  /\ compliance_pda # Nothing => Backed(compliance_pda)

\* What a confirmation carries: its own transfer, and a record it has read or made.
WalletOK(w) ==
  /\ pay[w] # "idle" => transfer[w] # Nothing /\ transfer[w].payer = w
  /\ pay[w] \in {"sent", "verified", "proved"} => transfer[w] \in transfers
  /\ pay[w] = "proved" => ChatPda(w) \in records /\ transfer[w].memo = "chat"
  /\ seen_pda[w] # Nothing => seen_pda[w] \in records

CardOK(s) ==
  /\ hook[s] # "none" => sessions[s] = "paid"
  /\ hook[s] \in {"loaded", "proved"} => hook_user[s] # Nothing
  /\ hook[s] = "proved" => CardPda(s) \in records

PaidInv == RowOK /\ (\A w \in Wallet : WalletOK(w)) /\ (\A s \in Session : CardOK(s))

IInv == TypeOK /\ PaidInv

-----------------------------------------------------------------------------
\* A step of the robot leads to a page of the form, or raises.
LEMMA OutcomesTyped ==
  ASSUME NEW k \in Steps, NEW p \in Pages, NEW o \in StepOutcomes(k, p), o # Raise
  PROVE  o \in Pages
<1>1. ASSUME NEW here \in 0..13, NEW q, NEW x \in _check_validation_errors(here, q)
      PROVE  x = Raise \/ x \in Pages
  BY DEF _check_validation_errors, Pages, Raise
<1>2. \A x \in _step_confirm_bottom_option(p) : x = Raise \/ x \in Pages
  BY CheckboxAssumption DEF _step_confirm_bottom_option, Pages, Raise
<1>3. CASE k \in {1, 9, 13}
  BY <1>2, <1>3 DEF StepOutcomes, _step_open_form, _step_declaration, Pages, Raise
<1>4. CASE k \in {2, 6, 7}
  BY <1>1, <1>4 DEF StepOutcomes, _step_choose_representative_role, _step_single_trade_mark,
     _step_select_class_manually
<1>6. CASE k \in {3, 4, 5, 8}
  <2>1. PICK here \in 0..13 : \E q : o \in _check_validation_errors(here, q)
    BY <1>6 DEF StepOutcomes, _step_fill_representative_details, _step_fill_owner_details,
       _step_choose_mark_type, _step_enter_nice_classes
  <2>. QED BY <1>1, <2>1
<1>5. CASE k \in {10, 11, 12, 14}
  BY <1>1, <1>5 DEF StepOutcomes, _step_answer_no_questions, _step_choose_standard_mark,
     _step_choose_examination_type, _step_reach_payment_screen
<1>. QED BY <1>3, <1>4, <1>5, <1>6 DEF Steps

LEMMA InitOK == Init => IInv
<1> SUFFICES ASSUME Init PROVE IInv
  OBVIOUS
<1>1. RowTyped
  <2>1. stripe_confirmed \in BOOLEAN
    BY ZenonT(10) DEF Init
  <2>2. current_step \in 0..14
    BY DEF Init
  <2>. QED BY <2>1, <2>2 DEF Init, RowTyped, Status
<1>5. RobotsTyped
  <2>1. req \in [Request -> Status \cup {"idle", "created", "committed"}] /\ running_tasks = NoTask /\ prepared = FALSE
    BY DEF Init
  <2>2. robot \in [Task -> {"unused", "started", "driving", "arrived", "lost", "broken", "written", "done"}]
    BY DEF Init
  <2>3. robot_step \in [Task -> Steps] /\ page \in [Task -> Pages]
    BY DEF Init, Steps, Pages
  <2>. QED BY <2>1, <2>2, <2>3 DEF RobotsTyped
<1>2. WalletsTyped /\ records \subseteq Pda
  BY DEF Init, WalletsTyped
<1>3. CardsTyped /\ faults \in 0..MaxFaults
  BY UkipoAssumption DEF Init, CardsTyped
<1>4. PaidInv
  BY DEF Init, PaidInv, RowOK, WalletOK, CardOK
<1>. QED BY <1>1, <1>2, <1>3, <1>4, <1>5 DEF IInv, TypeOK

\* Records and payments stay; what a step leaves alone stays backed by them.
LEMMA BackedKept ==
  ASSUME NEW pda, Backed(pda), records \subseteq records', transfers \subseteq transfers',
         \A s \in Session : sessions[s] = "paid" => sessions'[s] = "paid",
         pda \in Pda
  PROVE  Backed(pda)'
BY DEF Backed, Paid, Pda

-----------------------------------------------------------------------------
\* Requests and robots: they touch neither money nor records, and do not file.
LEMMA RobotStep ==
  ASSUME IInv, create_submission \/ (\E r \in Request : RunRequest(r))
                 \/ (\E t \in Task : Robot(t))
  PROVE  IInv'
<1>1. /\ UNCHANGED <<payment_tx, compliance_pda, checkout_session, stripe_confirmed,
                     wallets, cards, records, faults>>
      /\ status' # "filed" \/ UNCHANGED status
  BY DEF create_submission, RunRequest, Robot, run_submission_endpoint, start_ukipo_filing,
     LoadCreated, RunRefused, start_submission_run, create_task, build_robot_input,
     _update_step, _execute_robot, _mark_failed, _forget_task, row
<1>2. WalletsTyped' /\ CardsTyped' /\ (records \subseteq Pda /\ faults \in 0..MaxFaults)'
  BY <1>1 DEF IInv, TypeOK, WalletsTyped, CardsTyped, wallets, cards
<1>3. PaidInv'
  BY <1>1 DEF IInv, PaidInv, RowOK, WalletOK, CardOK, Backed, Paid, ChatPda, CardPda,
     wallets, cards
<1>4. ASSUME NEW t \in Task, _update_step(t)
      PROVE  RowTyped' /\ RobotsTyped'
  <2>1. robot_step[t] \in Steps /\ page[t] \in Pages
    BY DEF IInv, TypeOK, RobotsTyped
  <2>2. PICK o \in StepOutcomes(robot_step[t], page[t]) :
          IF o = Raise
            THEN /\ robot' = [robot EXCEPT ![t] = "lost"]
                 /\ UNCHANGED <<robot_step, page, prepared>>
            ELSE /\ page' = [page EXCEPT ![t] = o]
                 /\ IF robot_step[t] = 14
                      THEN /\ robot' = [robot EXCEPT ![t] = "arrived"]
                           /\ UNCHANGED robot_step
                      ELSE /\ robot_step' = [robot_step EXCEPT ![t] = @ + 1]
                           /\ UNCHANGED robot
                 /\ prepared' = (prepared \/ (robot_step[t] = 14 /\ o >= 13))
    BY <1>4 DEF _update_step
  <2>3. o # Raise => o \in Pages
    BY <2>1, OutcomesTyped
  <2>4. RowTyped'
    BY <1>4, <2>1 DEF _update_step, IInv, TypeOK, RowTyped, Steps
  <2>5. (running_tasks \in Task \cup {NoTask} /\ req \in [Request -> Status \cup {"idle", "created", "committed"}])'
    BY <1>4 DEF _update_step, IInv, TypeOK, RobotsTyped
  <2>6. prepared' \in BOOLEAN
    BY <2>2 DEF IInv, TypeOK, RobotsTyped
  <2>7. robot' \in [Task -> {"unused", "started", "driving", "arrived", "lost", "broken", "written", "done"}]
    BY <2>2 DEF IInv, TypeOK, RobotsTyped
  <2>8. robot_step' \in [Task -> Steps] /\ page' \in [Task -> Pages]
    BY <2>1, <2>2, <2>3 DEF IInv, TypeOK, RobotsTyped, Steps
  <2>. QED BY <2>4, <2>5, <2>6, <2>7, <2>8 DEF RobotsTyped
<1>5. ASSUME NEW r \in Request, start_submission_run(r)
      PROVE  RowTyped' /\ RobotsTyped'
  <2>1. status' \in Status /\ current_step' \in 0..14
    BY <1>5 DEF start_submission_run, Status, IInv, TypeOK, RowTyped
  <2>2. RobotsTyped'
    BY <1>5 DEF start_submission_run, robots, IInv, TypeOK, RobotsTyped
  <2>. QED BY <1>1, <2>1, <2>2 DEF RowTyped, IInv, TypeOK
<1>9. ASSUME create_submission
      PROVE  RowTyped' /\ RobotsTyped'
  <2>1. status' \in Status /\ current_step' \in 0..14
    BY <1>9 DEF create_submission, Status, IInv, TypeOK, RowTyped
  <2>2. RobotsTyped'
    BY <1>9 DEF create_submission, robots, IInv, TypeOK, RobotsTyped
  <2>. QED BY <1>1, <2>1, <2>2 DEF RowTyped, IInv, TypeOK
<1>12. ASSUME NEW r \in Request, start_ukipo_filing(r)
      PROVE  RowTyped' /\ RobotsTyped'
  <2>1. status' \in Status /\ current_step' \in 0..14
    BY <1>12 DEF start_ukipo_filing, Status, IInv, TypeOK, RowTyped
  <2>2. RobotsTyped'
    BY <1>12 DEF start_ukipo_filing, IInv, TypeOK, RobotsTyped
  <2>. QED BY <1>1, <2>1, <2>2 DEF RowTyped, IInv, TypeOK
<1>10. ASSUME NEW r \in Request, run_submission_endpoint(r) \/ LoadCreated(r) \/ RunRefused(r)
      PROVE  RowTyped' /\ RobotsTyped'
  <2>1. RowTyped'
    BY <1>10 DEF run_submission_endpoint, LoadCreated, RunRefused, row, IInv, TypeOK, RowTyped
  <2>2. RobotsTyped'
    BY <1>10 DEF run_submission_endpoint, LoadCreated, RunRefused, IInv, TypeOK, RowTyped, RobotsTyped
  <2>. QED BY <2>1, <2>2
<1>11. ASSUME NEW r \in Request, create_task(r)
      PROVE  RowTyped' /\ RobotsTyped'
  BY <1>11 DEF create_task, Unused, row, IInv, TypeOK, RowTyped, RobotsTyped
<1>6. ASSUME NEW t \in Task, build_robot_input(t)
      PROVE  RowTyped' /\ RobotsTyped'
  BY <1>6 DEF build_robot_input, row, IInv, TypeOK, RowTyped, RobotsTyped
<1>7. ASSUME NEW t \in Task, _execute_robot(t)
      PROVE  RowTyped' /\ RobotsTyped'
  <2>1. RobotsTyped'
    BY <1>7 DEF _execute_robot, IInv, TypeOK, RobotsTyped
  <2>2. status' \in Status /\ current_step' \in 0..14
    BY <1>7 DEF _execute_robot, IInv, TypeOK, RobotsTyped, Status, Steps
  <2>. QED BY <1>7, <2>1, <2>2 DEF _execute_robot, IInv, TypeOK, RowTyped
<1>13. ASSUME NEW t \in Task, _mark_failed(t)
       PROVE  RowTyped' /\ RobotsTyped'
  <2>1. RobotsTyped'
    BY <1>13 DEF _mark_failed, IInv, TypeOK, RobotsTyped
  <2>2. status' \in Status
    BY <1>13 DEF _mark_failed, Status
  <2>. QED BY <1>13, <2>1, <2>2 DEF _mark_failed, IInv, TypeOK, RowTyped
<1>8. ASSUME NEW t \in Task, _forget_task(t)
      PROVE  RowTyped' /\ RobotsTyped'
  BY <1>8 DEF _forget_task, row, IInv, TypeOK, RowTyped, RobotsTyped, Steps, Pages
<1>. QED BY <1>2, <1>3, <1>4, <1>5, <1>6, <1>7, <1>8, <1>9, <1>10, <1>11,
     <1>12, <1>13 DEF IInv, TypeOK, RunRequest, Robot

\* A robot whose row could not be read or written leaves it as it is.
LEMMA UnwrittenStep ==
  ASSUME IInv, NEW t \in Task, OutcomeUnwritten(t)
  PROVE  IInv'
<1>1. UNCHANGED <<status, current_step, payment_tx, compliance_pda, checkout_session,
                  stripe_confirmed, wallets, cards, records>>
  BY DEF OutcomeUnwritten, row
<1>2. RowTyped' /\ WalletsTyped' /\ CardsTyped' /\ (records \subseteq Pda)'
  BY <1>1 DEF IInv, TypeOK, RowTyped, WalletsTyped, CardsTyped, wallets, cards
<1>3. RobotsTyped'
  BY DEF OutcomeUnwritten, IInv, TypeOK, RobotsTyped
<1>4. faults' \in 0..MaxFaults
  BY UkipoAssumption DEF OutcomeUnwritten, Fault, IInv, TypeOK
<1>5. PaidInv'
  BY <1>1 DEF IInv, PaidInv, RowOK, WalletOK, CardOK, Backed, Paid, ChatPda, CardPda,
     wallets, cards
<1>. QED BY <1>2, <1>3, <1>4, <1>5 DEF IInv, TypeOK

\* Steps that write neither a request nor a robot.
LEMMA RobotsKept ==
  ASSUME IInv, UNCHANGED robots
  PROVE  RobotsTyped'
BY DEF IInv, TypeOK, RobotsTyped, robots

\* Of the steps of a wallet and of the card: while money and records only
\* grow, whoever does not move keeps what he carries.
LEMMA Monotone ==
  ASSUME IInv, records \subseteq records', transfers \subseteq transfers',
         \A s \in Session : sessions[s] = "paid" => sessions'[s] = "paid"
  PROVE  /\ \A pda \in Pda : Backed(pda) => Backed(pda)'
         /\ \A w \in Wallet : UNCHANGED <<pay[w], transfer[w], seen_pda[w]>> => WalletOK(w)'
         /\ \A s \in Session : UNCHANGED <<hook[s], hook_user[s]>> => CardOK(s)'
<1>1. \A pda \in Pda : Backed(pda) => Backed(pda)'
  BY BackedKept
<1>2. ASSUME NEW w \in Wallet, UNCHANGED <<pay[w], transfer[w], seen_pda[w]>>
      PROVE  WalletOK(w)'
  BY <1>2 DEF IInv, PaidInv, WalletOK, ChatPda
<1>3. ASSUME NEW s \in Session, UNCHANGED <<hook[s], hook_user[s]>>
      PROVE  CardOK(s)'
  BY <1>3 DEF IInv, PaidInv, CardOK, CardPda
<1>. QED BY <1>1, <1>2, <1>3

\* The end of a wallet's request.
LEMMA AnsweredOK ==
  ASSUME IInv, NEW w \in Wallet, Answered(w), records \subseteq records',
         UNCHANGED <<transfers, sessions, hook, hook_user>>
  PROVE  /\ WalletsTyped'
         /\ \A v \in Wallet : WalletOK(v)'
<1>1. WalletsTyped'
  BY DEF Answered, IInv, TypeOK, WalletsTyped
<1>2. WalletOK(w)'
  BY DEF Answered, IInv, TypeOK, WalletsTyped, WalletOK
<1>3. \A v \in Wallet \ {w} : UNCHANGED <<pay[v], transfer[v], seen_pda[v]>>
  BY DEF Answered, IInv, TypeOK, WalletsTyped
<1>. QED BY <1>1, <1>2, <1>3, Monotone

\* The end of a wallet's step that moves it on, or that answers it.
LEMMA WalletMoves ==
  ASSUME IInv, NEW w \in Wallet,
         UNCHANGED <<robots, cards>>,
         records \subseteq records', transfers \subseteq transfers', records' \subseteq Pda,
         faults' \in 0..MaxFaults,
         RowTyped', WalletsTyped', RowOK', WalletOK(w)',
         \A v \in Wallet \ {w} : UNCHANGED <<pay[v], transfer[v], seen_pda[v]>>
  PROVE  IInv'
<1>1. RobotsTyped' /\ CardsTyped'
  BY RobotsKept DEF IInv, TypeOK, CardsTyped, cards
<1>2. PaidInv'
  BY Monotone DEF PaidInv, cards
<1>. QED BY <1>1, <1>2 DEF IInv, TypeOK

\* A wallet that was quoted gets a transfer of its own to send.
LEMMA WalletQuoted ==
  ASSUME IInv, NEW w \in Wallet, filing_payment_requirements_endpoint(w)
  PROVE  IInv'
<1>1. PICK tx \in Transfer : tx.payer = w /\ transfer' = [transfer EXCEPT ![w] = tx]
  BY DEF filing_payment_requirements_endpoint, Transfer
<1>2. tx # Nothing
  BY UkipoAssumption
<1>3. WalletsTyped' /\ pay'[w] = "quoted" /\ transfer'[w] = tx /\ seen_pda'[w] = seen_pda[w]
  BY <1>1 DEF filing_payment_requirements_endpoint, IInv, TypeOK, WalletsTyped
<1>4. WalletOK(w)'
  BY <1>1, <1>2, <1>3 DEF filing_payment_requirements_endpoint, IInv, PaidInv, WalletOK
<1>5. \A v \in Wallet \ {w} : UNCHANGED <<pay[v], transfer[v], seen_pda[v]>>
  BY <1>1 DEF filing_payment_requirements_endpoint, IInv, TypeOK, WalletsTyped
<1>6. UNCHANGED <<row, robots, cards, transfers, records, faults>>
  BY DEF filing_payment_requirements_endpoint
<1>7. RowTyped' /\ RowOK'
  BY <1>6 DEF row, cards, IInv, TypeOK, PaidInv, RowTyped, RowOK, Backed, Paid
<1>. QED BY <1>3, <1>4, <1>5, <1>6, <1>7, WalletMoves DEF IInv, TypeOK

\* What a wallet, its owner's browser and the server do before the row is written.
LEMMA WalletStep ==
  ASSUME IInv, NEW w \in Wallet,
         \/ handlePay(w) \/ verify_payment_tx(w) \/ submit_compliance_proof_tx(w)
         \/ TabClosed(w) \/ ChatProofFails(w)
  PROVE  IInv'
<1>1. UNCHANGED <<row, robots, cards>>
  BY DEF handlePay, verify_payment_tx, submit_compliance_proof_tx, TabClosed, ChatProofFails
<1>2. /\ pay[w] # "idle" /\ transfer[w] \in Transfer /\ transfer[w] # Nothing
      /\ transfer[w].payer = w
  BY DEF handlePay, verify_payment_tx, submit_compliance_proof_tx, TabClosed, ChatProofFails,
     IInv, TypeOK, WalletsTyped, PaidInv, WalletOK
<1>3. ChatPda(w) \in Pda
  BY DEF ChatPda, Pda
<1>4. /\ records \subseteq records' /\ records' \subseteq Pda
      /\ transfers \subseteq transfers' /\ faults' \in 0..MaxFaults
  BY <1>2, <1>3, UkipoAssumption DEF handlePay, verify_payment_tx, submit_compliance_proof_tx,
     TabClosed, ChatProofFails, Fault, IInv, TypeOK
<1>5. RowTyped' /\ RowOK'
  BY <1>1, <1>4, Monotone DEF row, cards, IInv, TypeOK, PaidInv, RowTyped, RowOK
<1>6. \A v \in Wallet \ {w} : UNCHANGED <<pay[v], transfer[v], seen_pda[v]>>
  BY DEF handlePay, verify_payment_tx, submit_compliance_proof_tx, TabClosed, ChatProofFails,
     Answered, IInv, TypeOK, WalletsTyped
<1>7. CASE Answered(w)
  <2>1. WalletOK(w)'
    BY <1>7 DEF Answered, IInv, TypeOK, WalletsTyped, WalletOK
  <2>2. WalletsTyped'
    BY <1>2, <1>7 DEF Answered, handlePay, verify_payment_tx, submit_compliance_proof_tx,
       TabClosed, ChatProofFails, IInv, TypeOK, WalletsTyped
  <2>. QED BY <1>1, <1>4, <1>5, <1>6, <2>1, <2>2, WalletMoves
<1>8. CASE ~Answered(w) /\ handlePay(w)
  <2>1. WalletsTyped' /\ pay'[w] = "sent" /\ UNCHANGED <<transfer, seen_pda, records>>
        /\ transfer[w] \in transfers'
    BY <1>2, <1>8 DEF handlePay, IInv, TypeOK, WalletsTyped
  <2>2. WalletOK(w)'
    BY <1>2, <2>1 DEF IInv, PaidInv, WalletOK
  <2>. QED BY <1>1, <1>4, <1>5, <1>6, <2>1, <2>2, WalletMoves
<1>9. CASE ~Answered(w) /\ verify_payment_tx(w)
  <2>1. /\ pay[w] = "sent" /\ pay' = [pay EXCEPT ![w] = "verified"]
        /\ seen_pda' = [seen_pda EXCEPT ![w] = compliance_pda]
        /\ UNCHANGED <<transfer, transfers, records>>
    BY <1>9 DEF verify_payment_tx
  <2>2. WalletsTyped' /\ pay'[w] = "verified" /\ seen_pda'[w] = compliance_pda
    BY <2>1 DEF IInv, TypeOK, WalletsTyped, RowTyped
  <2>3. WalletOK(w)'
    BY <1>2, <2>1, <2>2 DEF IInv, PaidInv, WalletOK, RowOK, Backed
  <2>. QED BY <1>1, <1>4, <1>5, <1>6, <2>2, <2>3, WalletMoves
<1>10. CASE ~Answered(w) /\ submit_compliance_proof_tx(w)
  <2>1. /\ pay[w] = "verified" /\ transfer[w].memo = "chat"
        /\ pay' = [pay EXCEPT ![w] = "proved"]
        /\ UNCHANGED <<transfer, seen_pda, transfers>>
    BY <1>10 DEF submit_compliance_proof_tx
  <2>2. WalletsTyped' /\ pay'[w] = "proved"
    BY <2>1 DEF IInv, TypeOK, WalletsTyped
  <2>3. ChatPda(w) \in records'
    <3>1. CASE seen_pda[w] = ChatPda(w)
      BY <1>3, <1>4, <3>1, UkipoAssumption DEF IInv, PaidInv, WalletOK
    <3>2. CASE seen_pda[w] # ChatPda(w)
      BY <1>10, <3>2 DEF submit_compliance_proof_tx
    <3>. QED BY <3>1, <3>2
  <2>4. WalletOK(w)'
    BY <1>2, <1>4, <2>1, <2>2, <2>3 DEF IInv, PaidInv, WalletOK, ChatPda
  <2>. QED BY <1>1, <1>4, <1>5, <1>6, <2>2, <2>4, WalletMoves
<1>. QED BY <1>7, <1>8, <1>9, <1>10 DEF TabClosed, ChatProofFails

\* A confirmation writes the row: the record it names is backed by its transfer.
LEMMA ConfirmStep ==
  ASSUME IInv, NEW w \in Wallet,
         filing_confirm_payment_endpoint(w) \/ record_solana_payment(w)
  PROVE  IInv'
<1>1. UNCHANGED <<robots, cards, transfers, records, faults>> /\ Answered(w)
  BY DEF filing_confirm_payment_endpoint, record_solana_payment
<1>2. /\ pay[w] \in {"verified", "proved"} /\ transfer[w] \in Transfer
      /\ transfer[w] \in transfers /\ transfer[w].payer = w
  BY DEF filing_confirm_payment_endpoint, record_solana_payment, IInv, TypeOK, WalletsTyped,
     PaidInv, WalletOK
<1>3. WalletsTyped' /\ (\A v \in Wallet : WalletOK(v)')
  BY <1>1, AnsweredOK DEF cards
<1>4. RowTyped' /\ RowOK'
  <2>1. CASE filing_confirm_payment_endpoint(w)
    <3>1. /\ pay[w] = "proved" /\ payment_tx' = transfer[w] /\ compliance_pda' = ChatPda(w)
          /\ status' = "filed"
          /\ UNCHANGED <<current_step, checkout_session, stripe_confirmed>>
      BY <2>1 DEF filing_confirm_payment_endpoint
    <3>2. ChatPda(w) \in Pda /\ ChatPda(w).user = w /\ ChatPda(w).query_hash = "filing"
      BY DEF ChatPda, Pda
    <3>3. ChatPda(w) \in records /\ transfer[w].memo = "chat"
      BY <3>1 DEF IInv, PaidInv, WalletOK
    <3>4. Backed(ChatPda(w))
      BY <1>2, <3>2, <3>3 DEF Backed, Paid
    <3>5. Backed(ChatPda(w))'
      BY <1>1, <3>2, <3>4, Monotone DEF cards
    <3>6. RowTyped'
      BY <1>2, <3>1, <3>2 DEF IInv, TypeOK, RowTyped, Status
    <3>7. Backed(compliance_pda)' /\ compliance_pda' # Nothing
      BY <3>1, <3>2, <3>5, UkipoAssumption DEF Backed, Paid, ChatPda
    <3>. QED BY <3>6, <3>7 DEF RowOK
  <2>2. CASE record_solana_payment(w)
    BY <1>1, <1>2, <2>2, Monotone DEF record_solana_payment, cards, IInv, TypeOK, PaidInv,
       RowTyped, RowOK, Backed, Paid
  <2>. QED BY <2>1, <2>2
<1>5. RobotsTyped' /\ CardsTyped' /\ \A s \in Session : CardOK(s)'
  BY <1>1, RobotsKept, Monotone DEF cards, IInv, TypeOK, CardsTyped
<1>. QED BY <1>1, <1>3, <1>4, <1>5 DEF IInv, TypeOK, PaidInv

\* A confirmation posted again names a transfer that was made.
LEMMA ResentStep ==
  ASSUME IInv, NEW w \in Wallet, Resent(w)
  PROVE  IInv'
<1>1. PICK tx \in transfers : tx.payer = w /\ transfer' = [transfer EXCEPT ![w] = tx]
  BY DEF Resent
<1>2. /\ UNCHANGED <<row, robots, seen_pda, transfers, checkout, hook, hook_user, sessions,
                     keyed, records, faults>>
      /\ pay' = [pay EXCEPT ![w] = "sent"]
      /\ duplicates < MaxDuplicates /\ duplicates' = duplicates + 1
  BY DEF Resent
<1>3. tx \in Transfer /\ tx # Nothing
  BY UkipoAssumption DEF IInv, TypeOK, WalletsTyped
<1>4. WalletsTyped' /\ pay'[w] = "sent" /\ transfer'[w] = tx
  BY <1>1, <1>2, <1>3 DEF IInv, TypeOK, WalletsTyped
<1>5. CardsTyped' /\ RobotsTyped' /\ RowTyped'
  BY <1>2, UkipoAssumption, RobotsKept DEF IInv, TypeOK, CardsTyped, RowTyped, row
<1>6. WalletOK(w)'
  BY <1>1, <1>2, <1>3, <1>4 DEF IInv, PaidInv, WalletOK
<1>7. \A v \in Wallet \ {w} : UNCHANGED <<pay[v], transfer[v], seen_pda[v]>>
  BY <1>1, <1>2 DEF IInv, TypeOK, WalletsTyped
<1>8. RowOK'
  BY <1>2 DEF row, IInv, PaidInv, RowOK, Backed, Paid
<1>9. PaidInv'
  BY <1>2, <1>6, <1>7, <1>8, Monotone DEF PaidInv
<1>. QED BY <1>2, <1>4, <1>5, <1>9 DEF IInv, TypeOK

-----------------------------------------------------------------------------
\* Sessions, the idempotency key and the checkout request.
LEMMA CheckoutStep ==
  ASSUME IInv, Checkout \/ KeyForgotten \/ \E s \in Session : SessionEnds(s)
  PROVE  IInv'
<1>1. /\ UNCHANGED <<status, current_step, payment_tx, compliance_pda, stripe_confirmed,
                     robots, wallets, hook_user, duplicates, records, faults>>
      /\ checkout_session' \in Session \cup {Nothing}
  BY DEF Checkout, create_ukipo_checkout_session, ReuseSession, CreateSession, KeyForgotten,
     SessionEnds, row, IInv, TypeOK, RowTyped
<1>2. RowTyped' /\ RobotsTyped' /\ WalletsTyped'
  BY <1>1, RobotsKept DEF IInv, TypeOK, RowTyped, WalletsTyped, wallets
<1>3. CardsTyped' /\ (\A s \in Session : sessions[s] = "paid" => sessions'[s] = "paid")
      /\ (\A s \in Session : CardOK(s)')
  <2>1. CASE create_ukipo_checkout_session
    BY <2>1 DEF create_ukipo_checkout_session, IInv, TypeOK, RowTyped, CardsTyped, PaidInv,
       CardOK, CardPda
  <2>2. CASE ReuseSession \/ KeyForgotten
    BY <2>2 DEF ReuseSession, KeyForgotten, IInv, TypeOK, CardsTyped, PaidInv, CardOK, CardPda
  <2>3. CASE CreateSession
    BY <2>3 DEF CreateSession, IInv, TypeOK, CardsTyped, PaidInv, CardOK, CardPda
  <2>4. ASSUME NEW s \in Session, SessionEnds(s)
        PROVE  CardsTyped' /\ (\A t \in Session : sessions[t] = "paid" => sessions'[t] = "paid")
               /\ (\A t \in Session : CardOK(t)')
    BY <2>4 DEF SessionEnds, IInv, TypeOK, CardsTyped, PaidInv, CardOK, CardPda
  <2>. QED BY <2>1, <2>2, <2>3, <2>4 DEF Checkout
<1>4. RowOK' /\ \A w \in Wallet : WalletOK(w)'
  BY <1>1, <1>3, Monotone DEF wallets, IInv, TypeOK, RowTyped, PaidInv, RowOK
<1>. QED BY <1>1, <1>2, <1>3, <1>4 DEF IInv, TypeOK, PaidInv

\* The card's events: a session that completed was paid, and is filed on its proof.
LEMMA EventStep ==
  ASSUME IInv, NEW s \in Session,
         Event(s) \/ Redelivered(s) \/ CardProofFails(s)
  PROVE  IInv'
<1>1. UNCHANGED <<current_step, payment_tx, checkout_session, robots, wallets, checkout,
                  sessions, keyed>>
  BY DEF Event, _handle_ukipo_session_completed, CardProof, CardFiled, Redelivered,
     CardProofFails, row
<1>2. hook[s] # "none" /\ sessions[s] = "paid" /\ s # "filing"
  BY UkipoAssumption DEF Event, _handle_ukipo_session_completed, CardProof, CardFiled,
     Redelivered, CardProofFails, IInv, PaidInv, CardOK
<1>3. hook[s] \in {"loaded", "proved"} => CardPda(s) \in Pda
  BY DEF IInv, TypeOK, CardsTyped, PaidInv, CardOK, CardPda, Pda
<1>4. /\ records \subseteq records' /\ records' \subseteq Pda
      /\ faults' \in 0..MaxFaults /\ duplicates' \in 0..MaxDuplicates
  BY <1>3, UkipoAssumption DEF Event, _handle_ukipo_session_completed, CardProof, CardFiled,
     Redelivered, CardProofFails, EventAnswered, Fault, IInv, TypeOK, CardsTyped
<1>5. RobotsTyped' /\ WalletsTyped' /\ \A w \in Wallet : WalletOK(w)'
  BY <1>1, <1>4, RobotsKept, Monotone DEF wallets, IInv, TypeOK, WalletsTyped
<1>6. CardsTyped' /\ \A t \in Session \ {s} : UNCHANGED <<hook[t], hook_user[t]>>
  BY <1>1, <1>4 DEF Event, _handle_ukipo_session_completed, CardProof, CardFiled, Redelivered,
     CardProofFails, EventAnswered, IInv, TypeOK, RowTyped, CardsTyped, Transfer
<1>7. CardOK(s)'
  <2>1. CASE _handle_ukipo_session_completed(s)
    <3>1. payment_tx # Nothing => payment_tx.payer \in Wallet
      BY DEF IInv, TypeOK, RowTyped, Transfer
    <3>2. \A w \in Wallet : w # Nothing
      BY UkipoAssumption
    <3>. QED BY <1>1, <1>2, <2>1, <3>1, <3>2, UkipoAssumption
         DEF _handle_ukipo_session_completed, IInv, TypeOK, CardsTyped, CardOK
  <2>2. CASE EventAnswered(s) \/ Redelivered(s)
    BY <1>1, <1>2, <2>2 DEF EventAnswered, Redelivered, IInv, TypeOK, CardsTyped, CardOK
  <2>3. CASE CardProof(s) /\ ~EventAnswered(s)
    BY <1>1, <1>2, <2>3 DEF CardProof, IInv, TypeOK, CardsTyped, PaidInv, CardOK, CardPda
  <2>. QED BY <2>1, <2>2, <2>3 DEF Event, CardFiled, CardProofFails
<1>8. RowTyped' /\ RowOK'
  <2>1. CASE UNCHANGED <<status, compliance_pda>>
    <3>1. stripe_confirmed' \in BOOLEAN
      BY <2>1 DEF Event, _handle_ukipo_session_completed, CardProof, CardFiled, Redelivered,
         CardProofFails, EventAnswered, row, IInv, TypeOK, RowTyped
    <3>. QED BY <1>1, <1>4, <2>1, <3>1, Monotone DEF wallets, IInv, TypeOK, RowTyped, PaidInv, RowOK
  <2>2. CASE CardFiled(s) /\ VerifierEnabled
    <3>1. /\ hook[s] = "proved" /\ compliance_pda' = CardPda(s) /\ status' = "filed"
          /\ stripe_confirmed' = TRUE /\ UNCHANGED records
      BY <2>2 DEF CardFiled, EventAnswered
    <3>2. CardPda(s) \in Pda /\ CardPda(s) \in records /\ CardPda(s).query_hash = s
      BY <1>3, <3>1 DEF IInv, PaidInv, CardOK, CardPda
    <3>3. Backed(CardPda(s))
      BY <1>2, <3>2 DEF Backed, Paid
    <3>4. Backed(compliance_pda)' /\ compliance_pda' # Nothing
      BY <1>1, <3>1, <3>2, <3>3, UkipoAssumption DEF Backed, Paid, wallets
    <3>5. RowTyped'
      BY <1>1, <3>1, <3>2 DEF IInv, TypeOK, RowTyped, Status
    <3>. QED BY <3>4, <3>5 DEF RowOK
  <2>3. CASE CardFiled(s) /\ ~VerifierEnabled
    <3>1. /\ status' = "filed" /\ stripe_confirmed' = TRUE /\ UNCHANGED <<compliance_pda, records>>
      BY <2>3 DEF CardFiled, EventAnswered
    <3>2. RowTyped'
      BY <1>1, <3>1 DEF IInv, TypeOK, RowTyped, Status
    <3>3. compliance_pda' # Nothing => Backed(compliance_pda)'
      BY <1>1, <3>1 DEF wallets, IInv, PaidInv, RowOK, Backed, Paid
    <3>4. sessions'[s] = "paid"
      BY <1>1, <1>2
    <3>. QED BY <2>3, <3>2, <3>3, <3>4 DEF RowOK
  <2>. QED BY <2>1, <2>2, <2>3 DEF Event, _handle_ukipo_session_completed, CardProof, Redelivered,
       CardProofFails, row
<1>. QED BY <1>4, <1>5, <1>6, <1>7, <1>8, Monotone, <1>1 DEF IInv, TypeOK, PaidInv, wallets

-----------------------------------------------------------------------------
\* A restart drops what is in flight; the row, the money and the records stay.
LEMMA CrashStep ==
  ASSUME IInv, Crash
  PROVE  IInv'
<1>1. UNCHANGED <<row, prepared, transfers, sessions, keyed, duplicates, records>>
  BY DEF Crash
<1>2. RowTyped' /\ RowOK' /\ faults' \in 0..MaxFaults
  BY <1>1, UkipoAssumption DEF Crash, Fault, row, IInv, TypeOK, RowTyped, PaidInv, RowOK,
     Backed, Paid
<1>3. RobotsTyped'
  BY <1>1 DEF Crash, IInv, TypeOK, RobotsTyped, Steps, Pages
<1>4. WalletsTyped'
  BY <1>1 DEF Crash, IInv, TypeOK, WalletsTyped
<1>5. CardsTyped'
  BY <1>1 DEF Crash, IInv, TypeOK, CardsTyped
<1>6. ASSUME NEW w \in Wallet
      PROVE  WalletOK(w)'
  BY <1>1 DEF Crash, IInv, TypeOK, WalletsTyped, PaidInv, WalletOK
<1>7. ASSUME NEW s \in Session
      PROVE  CardOK(s)'
  BY <1>1 DEF Crash, IInv, TypeOK, CardsTyped, PaidInv, CardOK
<1>. QED BY <1>1, <1>2, <1>3, <1>4, <1>5, <1>6, <1>7 DEF IInv, TypeOK, PaidInv

LEMMA StutterStep ==
  ASSUME IInv, UNCHANGED vars
  PROVE  IInv'
<1>1. UNCHANGED <<status, current_step, payment_tx, compliance_pda, checkout_session,
                  stripe_confirmed, robots, wallets, cards, records, faults>>
  BY DEF vars, row
<1>2. TypeOK'
  BY <1>1, RobotsKept DEF IInv, TypeOK, RowTyped, WalletsTyped, CardsTyped, wallets, cards
<1>3. PaidInv'
  BY <1>1 DEF IInv, PaidInv, RowOK, WalletOK, CardOK, Backed, Paid, ChatPda, CardPda,
     wallets, cards
<1>. QED BY <1>2, <1>3 DEF IInv

LEMMA NextOK == IInv /\ [Next]_vars => IInv'
<1> SUFFICES ASSUME IInv, [Next]_vars PROVE IInv'
  OBVIOUS
<1>. QED BY RobotStep, UnwrittenStep, WalletQuoted, WalletStep, ConfirmStep, ResentStep, CheckoutStep,
     EventStep, CrashStep, StutterStep DEF Next, Confirm

LEMMA Inductive == Spec => []IInv
BY InitOK, NextOK, PTL DEF Spec

\* Every column, robot, wallet and session keeps its type.
THEOREM TypeCorrect == Spec => []TypeOK
<1>1. IInv => TypeOK
  BY DEF IInv
<1>. QED BY <1>1, Inductive, PTL

\* Whichever wallet, session or redelivery filed a submission last, the record
\* the row names is on chain and its payment was made.
THEOREM FiledPaidProved == Spec => []FiledIsPaidAndProved
<1>1. IInv => FiledIsPaidAndProved
  BY DEF IInv, PaidInv, RowOK, Backed, FiledIsPaidAndProved
<1>. QED BY <1>1, Inductive, PTL

-----------------------------------------------------------------------------
(* A row that says "running" has somebody who will write its outcome.      *)

\* The phases in which a robot has yet to write the row.
LEMMA DrivingIs ==
  ASSUME NEW t \in Task
  PROVE  t \in Driving <=> robot[t] \in AtWork
BY DEF Driving

LEMMA RunningStep == IInv /\ RunningHasRobot /\ [Next]_vars => RunningHasRobot'
<1> SUFFICES ASSUME IInv, RunningHasRobot, [Next]_vars, status' = "running"
             PROVE  \/ \E t \in Task : robot'[t] \in AtWork
                    \/ \E r \in Request : req'[r] = "committed"
                    \/ faults' > 0
  BY DEF RunningHasRobot, Driving
<1> USE DEF AtWork
<1>1. /\ req \in [Request -> Status \cup {"idle", "created", "committed"}]
      /\ robot \in [Task -> {"unused", "started", "driving", "arrived", "lost", "broken", "written", "done"}]
      /\ faults \in Nat
  BY UkipoAssumption DEF IInv, TypeOK, RobotsTyped
<1>2. ASSUME status = "running", UNCHANGED <<req, robot, faults>>
      PROVE  RunningHasRobot'
  BY <1>2 DEF RunningHasRobot, Driving
<1>3. ASSUME Fault PROVE faults' > 0 BY <1>1, <1>3 DEF Fault
<1>4. CASE UNCHANGED vars
  BY <1>2, <1>4 DEF vars, row, robots, RunningHasRobot, Driving
<1>5. CASE create_submission BY <1>5 DEF create_submission
<1>6. ASSUME NEW r \in Request, RunRequest(r)
      PROVE  \/ \E t \in Task : robot'[t] \in AtWork
             \/ \E q \in Request : req'[q] = "committed"
             \/ faults' > 0
  <2>1. CASE start_submission_run(r)
    <3>1. req'[r] = "committed" BY <1>1, <2>1 DEF start_submission_run
    <3> QED BY <3>1
  <2>2. CASE create_task(r)
    <3>1. PICK t \in Unused : robot' = [robot EXCEPT ![t] = "started"] BY <2>2 DEF create_task
    <3>2. t \in Task /\ robot'[t] = "started" BY <1>1, <3>1 DEF Unused
    <3> QED BY <3>2
  <2>3. CASE run_submission_endpoint(r) \/ LoadCreated(r) \/ RunRefused(r)
    <3>1. UNCHANGED <<status, robot, faults>>
      BY <2>3 DEF run_submission_endpoint, LoadCreated, RunRefused, row
    <3>2. req[r] # "committed"
      BY <2>3 DEF run_submission_endpoint, LoadCreated, RunRefused, Status
    <3>3. \A q \in Request : q # r => req'[q] = req[q]
      BY <1>1, <2>3 DEF run_submission_endpoint, LoadCreated, RunRefused
    <3> QED BY <3>1, <3>2, <3>3 DEF RunningHasRobot, Driving
  <2>4. CASE start_ukipo_filing(r) BY <2>4 DEF start_ukipo_filing
  <2> QED BY <1>6, <2>1, <2>2, <2>3, <2>4 DEF RunRequest
<1>7. ASSUME NEW t \in Task, Robot(t)
      PROVE  \/ \E u \in Task : robot'[u] \in AtWork
             \/ \E q \in Request : req'[q] = "committed"
             \/ faults' > 0
  <2>1. CASE build_robot_input(t) \/ _update_step(t)
    <3>1. robot'[t] \in {"driving", "lost", "broken", "arrived"}
      BY <1>1, <2>1 DEF build_robot_input, _update_step
    <3> QED BY <3>1
  <2>2. CASE _execute_robot(t) \/ _mark_failed(t) BY <2>2 DEF _execute_robot, _mark_failed
  <2>3. CASE _forget_task(t)
    <3>1. robot[t] = "written" /\ UNCHANGED <<status, req, faults>>
      BY <2>3 DEF _forget_task, row
    <3>2. \A u \in Task : u # t => robot'[u] = robot[u] BY <1>1, <2>3 DEF _forget_task
    <3> QED BY <3>1, <3>2 DEF RunningHasRobot, Driving
  <2> QED BY <1>7, <2>1, <2>2, <2>3 DEF Robot
<1>8. ASSUME NEW w \in Wallet,
             \/ filing_payment_requirements_endpoint(w) \/ handlePay(w) \/ Confirm(w)
             \/ Resent(w)
      PROVE  UNCHANGED <<req, robot, faults>> /\ status = "running"
  BY <1>8 DEF filing_payment_requirements_endpoint, handlePay, Confirm, Resent,
     verify_payment_tx, submit_compliance_proof_tx, filing_confirm_payment_endpoint,
     record_solana_payment, row, robots
<1>9. CASE Checkout \/ KeyForgotten \/ \E s \in Session : SessionEnds(s) \/ Event(s) \/ Redelivered(s)
  <2>1. UNCHANGED <<req, robot, faults>> /\ status = "running"
    BY <1>9 DEF Checkout, create_ukipo_checkout_session, ReuseSession, CreateSession, KeyForgotten,
       SessionEnds, Event, _handle_ukipo_session_completed, CardProof, CardFiled, Redelivered,
       row, robots
  <2> QED BY <1>2, <2>1 DEF RunningHasRobot, Driving
<1>10. CASE \/ Crash \/ \E w \in Wallet : TabClosed(w) \/ ChatProofFails(w)
            \/ \E s \in Session : CardProofFails(s)
            \/ \E t \in Task : OutcomeUnwritten(t)
  BY <1>3, <1>10 DEF Crash, TabClosed, ChatProofFails, CardProofFails, OutcomeUnwritten
<1>11. CASE \E w \in Wallet :
              \/ filing_payment_requirements_endpoint(w) \/ handlePay(w) \/ Confirm(w)
              \/ Resent(w)
  BY <1>2, <1>8, <1>11 DEF RunningHasRobot, Driving
<1> QED BY <1>4, <1>5, <1>6, <1>7, <1>9, <1>10, <1>11 DEF Next

\* However many requests and robots there are: a row that says "running" is one
\* whose outcome somebody will write, unless the process was restarted
\* or the database failed the write.
THEOREM SomebodyRuns == Spec => []RunningHasRobot
<1>1. Init => RunningHasRobot BY DEF Init, RunningHasRobot
<1> QED BY <1>1, RunningStep, Inductive, PTL DEF Spec

-----------------------------------------------------------------------------
(* One run request at a time: nothing pulls a submission back once it may  *)
(* be paid, and what money is asked for has been prepared.                 *)

Payable == status \in {"awaiting_payment", "filed"}

\* The registry names the only robot at work, and the row follows it.
RobotsOK ==
  \A t \in Task :
    /\ robot[t] \notin {"unused", "done"} => running_tasks = t
    /\ robot[t] \in AtWork => status = "running"
    /\ robot[t] = "arrived" => prepared

\* A request has loaded what the row still says, and starts no second robot.
RequestOK(r) ==
  /\ req[r] \in {"pending", "failed"} => status = req[r]
  /\ req[r] = "committed" =>
       status = "running" /\ \A t \in Task : robot[t] \in {"unused", "done"}

\* Whoever pays, or has paid, does so for a submission that a robot completed.
StageOK ==
  /\ Payable => prepared
  /\ \A w \in Wallet : pay[w] # "idle" => Payable
  /\ \A s \in Session : sessions[s] # "none" => Payable
  /\ checkout # Nothing \/ transfers # {} => Payable

SoleInv(r) == RobotsOK /\ RequestOK(r) /\ StageOK

LEMMA SoleInitial ==
  ASSUME NEW r \in Request, Init
  PROVE  SoleInv(r)
BY DEF Init, SoleInv, RobotsOK, RequestOK, StageOK, Payable, AtWork

\* While the row may be paid, nothing is about to pull it back.
LEMMA PayableIsQuiet ==
  ASSUME NEW r \in Request, SoleInv(r), Payable
  PROVE  /\ \A t \in Task : robot[t] \notin AtWork
         /\ req[r] \notin {"pending", "failed", "committed"}
         /\ prepared
BY DEF SoleInv, RobotsOK, RequestOK, StageOK, Payable

\* Payments leave robots and requests alone; the row stays payable.
LEMMA PaymentsKeepSole ==
  ASSUME NEW r \in Request, SoleInv(r), UNCHANGED robots, status' = status \/ status' = "filed",
         (\E w \in Wallet : pay'[w] # "idle") => Payable,
         (\E s \in Session : sessions'[s] # "none") => Payable,
         checkout' # Nothing => Payable, transfers' # {} => Payable,
         status' # status => Payable
  PROVE  SoleInv(r)'
<1>1. Payable => Payable' BY DEF Payable
<1>2. UNCHANGED <<running_tasks, req, robot, prepared>> BY DEF robots
<1>3. CASE Payable
  <2>1. /\ \A t \in Task : robot[t] \notin AtWork
        /\ req[r] \notin {"pending", "failed", "committed"} /\ prepared
    BY <1>3, PayableIsQuiet
  <2>2. RobotsOK' BY <1>2, <2>1 DEF SoleInv, RobotsOK
  <2>3. RequestOK(r)' BY <1>2, <2>1 DEF RequestOK
  <2>4. StageOK' BY <1>1, <1>2, <1>3, <2>1 DEF StageOK
  <2> QED BY <2>2, <2>3, <2>4 DEF SoleInv
<1>4. CASE ~Payable
  <2>1. status' = status BY <1>4
  <2> QED BY <1>1, <1>2, <1>4, <2>1 DEF SoleInv, RobotsOK, RequestOK, StageOK, Payable
<1> QED BY <1>3, <1>4

\* Robots and requests leave payments alone, and move only a row that is not
\* payable yet.
LEMMA RobotsKeepSole ==
  ASSUME NEW r \in Request, SoleInv(r), UNCHANGED <<wallets, cards>>,
         RobotsOK', RequestOK(r)', Payable => Payable', Payable' => prepared'
  PROVE  SoleInv(r)'
BY DEF SoleInv, StageOK, wallets, cards

LEMMA SoleRequestStep ==
  ASSUME IInv, NEW r \in Request, SoleInv(r), create_submission \/ RunRequest(r)
  PROVE  SoleInv(r)'
<1>1. UNCHANGED <<wallets, cards>>
  BY DEF create_submission, RunRequest, run_submission_endpoint, start_ukipo_filing, LoadCreated,
     RunRefused, start_submission_run, create_task
<1>2. /\ req \in [Request -> Status \cup {"idle", "created", "committed"}]
      /\ robot \in [Task -> {"unused", "started", "driving", "arrived", "lost", "broken", "written", "done"}]
      /\ status \in Status
  BY DEF IInv, TypeOK, RobotsTyped, RowTyped
<1>3. CASE create_submission
  <2>1. status = "none" /\ status' = "pending" /\ UNCHANGED <<robot, running_tasks, req, prepared>>
    BY <1>3 DEF create_submission, robots
  <2>2. RobotsOK' BY <2>1 DEF SoleInv, RobotsOK
  <2>3. RequestOK(r)' BY <2>1 DEF SoleInv, RequestOK
  <2> QED BY <1>1, <2>1, <2>2, <2>3, RobotsKeepSole DEF Payable
<1>7. CASE start_ukipo_filing(r)
  <2>1. /\ status = "none" /\ status' = "pending" /\ req'[r] = "created"
        /\ UNCHANGED <<robot, running_tasks, prepared>>
    BY <1>2, <1>7 DEF start_ukipo_filing
  <2>2. RobotsOK' BY <2>1 DEF SoleInv, RobotsOK
  <2>3. RequestOK(r)' BY <2>1 DEF RequestOK
  <2> QED BY <1>1, <2>1, <2>2, <2>3, RobotsKeepSole DEF Payable
<1>4. CASE run_submission_endpoint(r) \/ LoadCreated(r) \/ RunRefused(r)
  <2>1. /\ UNCHANGED <<status, robot, running_tasks, prepared>>
        /\ req'[r] \in {status, "idle"}
    BY <1>2, <1>4 DEF run_submission_endpoint, LoadCreated, RunRefused, row
  <2>2. RobotsOK' BY <2>1 DEF SoleInv, RobotsOK
  <2>3. RequestOK(r)' BY <1>2, <2>1 DEF RequestOK, Status
  <2> QED BY <1>1, <2>1, <2>2, <2>3, RobotsKeepSole DEF Payable, SoleInv, StageOK
<1>5. CASE start_submission_run(r)
  <2>1. /\ req[r] \in {"pending", "failed"} /\ status = req[r]
        /\ running_tasks # NoTask => robot[running_tasks] = "done"
        /\ status' = "running" /\ req'[r] = "committed"
        /\ UNCHANGED <<robot, running_tasks, prepared>>
    BY <1>2, <1>5 DEF start_submission_run, CanRun, SoleInv, RequestOK
  <2>2. \A t \in Task : robot[t] \in {"unused", "done"}
    <3> TAKE t \in Task
    <3>1. t # NoTask BY UkipoAssumption
    <3> QED BY <1>2, <2>1, <3>1 DEF SoleInv, RobotsOK
  <2>3. RobotsOK' BY <2>1, <2>2 DEF RobotsOK
  <2>4. RequestOK(r)' BY <2>1, <2>2 DEF RequestOK
  <2> QED BY <1>1, <2>1, <2>3, <2>4, RobotsKeepSole DEF Payable
<1>6. CASE create_task(r)
  <2>1. PICK t \in Unused : robot' = [robot EXCEPT ![t] = "started"] /\ running_tasks' = t
    BY <1>6 DEF create_task
  <2>2. /\ req[r] = "committed" /\ req'[r] = "idle" /\ UNCHANGED <<status, prepared>>
        /\ status = "running" /\ \A u \in Task : robot[u] \in {"unused", "done"}
    BY <1>2, <1>6 DEF create_task, SoleInv, RequestOK, row
  <2>3. t \in Task /\ \A u \in Task : robot'[u] = IF u = t THEN "started" ELSE robot[u]
    BY <1>2, <2>1 DEF Unused
  <2>4. RobotsOK' BY <2>1, <2>2, <2>3 DEF RobotsOK
  <2>5. RequestOK(r)' BY <2>2 DEF RequestOK
  <2> QED BY <1>1, <2>2, <2>4, <2>5, RobotsKeepSole DEF Payable
<1> QED BY <1>3, <1>4, <1>5, <1>6, <1>7 DEF RunRequest

LEMMA SoleRobotStep ==
  ASSUME IInv, NEW r \in Request, SoleInv(r), NEW t \in Task, Robot(t)
  PROVE  SoleInv(r)'
<1> USE DEF AtWork
<1>1. UNCHANGED <<wallets, cards, req>>
  BY DEF Robot, build_robot_input, _update_step, _execute_robot, _mark_failed, _forget_task
<1>2. /\ req \in [Request -> Status \cup {"idle", "created", "committed"}]
      /\ robot \in [Task -> {"unused", "started", "driving", "arrived", "lost", "broken", "written", "done"}]
      /\ prepared \in BOOLEAN /\ robot_step[t] \in Steps /\ page[t] \in Pages
  BY DEF IInv, TypeOK, RobotsTyped
<1>3. robot[t] \notin {"unused", "done"}
  BY DEF Robot, build_robot_input, _update_step, _execute_robot, _mark_failed, _forget_task
<1>4. running_tasks = t /\ req[r] # "committed" /\ \A u \in Task \ {t} : robot[u] \in {"unused", "done"}
  BY <1>3 DEF SoleInv, RobotsOK, RequestOK
<1>5. CASE build_robot_input(t) \/ _update_step(t)
  <2>1. status = "running" /\ UNCHANGED <<status, running_tasks>>
    BY <1>5 DEF build_robot_input, _update_step, SoleInv, RobotsOK, row
  <2>2. /\ robot'[t] \in {"driving", "lost", "broken", "arrived"}
        /\ \A u \in Task \ {t} : robot'[u] = robot[u]
        /\ prepared => prepared'
    BY <1>2, <1>5 DEF build_robot_input, _update_step
  <2>3. robot'[t] = "arrived" => prepared'
    <3>1. CASE build_robot_input(t) BY <1>2, <3>1 DEF build_robot_input
    <3>2. CASE _update_step(t) /\ robot'[t] = "arrived"
      <4>1. PICK o \in StepOutcomes(robot_step[t], page[t]) :
               /\ o # Raise /\ robot_step[t] = 14
               /\ prepared' = (prepared \/ (robot_step[t] = 14 /\ o >= 13))
        BY <1>2, <3>2 DEF _update_step
      <4>2. o \in _check_validation_errors(13, page[t])
        BY <4>1 DEF StepOutcomes, _step_reach_payment_screen
      <4>3. o >= 13 BY <4>1, <4>2 DEF _check_validation_errors
      <4> QED BY <4>1, <4>3
    <3> QED BY <1>5, <3>1, <3>2
  <2>4. RobotsOK' BY <1>4, <2>1, <2>2, <2>3 DEF SoleInv, RobotsOK
  <2>5. RequestOK(r)' BY <1>1, <1>4, <2>1 DEF SoleInv, RequestOK
  <2> QED BY <1>1, <2>1, <2>4, <2>5, RobotsKeepSole DEF Payable
<1>6. CASE _execute_robot(t) \/ _mark_failed(t)
  <2>1. /\ status = "running" /\ robot' = [robot EXCEPT ![t] = "written"]
        /\ status' = IF robot[t] = "arrived" THEN "awaiting_payment" ELSE "failed"
        /\ UNCHANGED <<running_tasks, prepared>>
    BY <1>6 DEF _execute_robot, _mark_failed, SoleInv, RobotsOK
  <2>2. \A u \in Task : robot'[u] = IF u = t THEN "written" ELSE robot[u] BY <1>2, <2>1
  <2>3. RobotsOK' BY <1>4, <2>1, <2>2 DEF RobotsOK
  <2>4. RequestOK(r)' BY <1>1, <1>4, <2>1 DEF SoleInv, RequestOK
  <2>5. Payable' => prepared' BY <2>1 DEF Payable, SoleInv, RobotsOK
  <2> QED BY <1>1, <2>1, <2>3, <2>4, <2>5, RobotsKeepSole DEF Payable
<1>7. CASE _forget_task(t)
  <2>1. /\ robot' = [robot EXCEPT ![t] = "done"] /\ UNCHANGED <<status, prepared>>
    BY <1>7 DEF _forget_task, row
  <2>2. \A u \in Task : robot'[u] = IF u = t THEN "done" ELSE robot[u] BY <1>2, <2>1
  <2>3. RobotsOK' BY <1>4, <2>2 DEF RobotsOK
  <2>4. RequestOK(r)' BY <1>1, <1>4, <2>1 DEF SoleInv, RequestOK
  <2> QED BY <1>1, <2>1, <2>3, <2>4, RobotsKeepSole DEF Payable, SoleInv, StageOK
<1> QED BY <1>5, <1>6, <1>7 DEF Robot

\* A robot that ends without a word leaves a running row that no request will run.
LEMMA SoleUnwritten ==
  ASSUME IInv, NEW r \in Request, SoleInv(r), NEW t \in Task, OutcomeUnwritten(t)
  PROVE  SoleInv(r)'
<1>1. UNCHANGED <<status, running_tasks, req, prepared, wallets, cards>>
  BY DEF OutcomeUnwritten, row
<1>2. /\ robot[t] \in AtWork /\ robot'[t] = "written"
      /\ \A u \in Task \ {t} : robot'[u] = robot[u]
  BY DEF OutcomeUnwritten, AtWork, IInv, TypeOK, RobotsTyped
<1>3. RobotsOK' BY <1>1, <1>2 DEF SoleInv, RobotsOK, AtWork
<1>4. RequestOK(r)' BY <1>1, <1>2 DEF SoleInv, RequestOK, AtWork
<1> QED BY <1>1, <1>3, <1>4, RobotsKeepSole DEF Payable, SoleInv, StageOK

\* A wallet that is busy, a session or a checkout: each was begun on a payable row.
LEMMA SoleWalletStep ==
  ASSUME IInv, NEW r \in Request, SoleInv(r), NEW w \in Wallet,
         \/ filing_payment_requirements_endpoint(w) \/ handlePay(w) \/ Confirm(w)
         \/ Resent(w) \/ TabClosed(w) \/ ChatProofFails(w)
  PROVE  SoleInv(r)'
<1>1. UNCHANGED <<robots, sessions, checkout>>
  BY DEF filing_payment_requirements_endpoint, handlePay, Confirm, verify_payment_tx,
     submit_compliance_proof_tx, filing_confirm_payment_endpoint, record_solana_payment, Resent,
     TabClosed, ChatProofFails, cards
<1>2. pay \in [Wallet -> {"idle", "quoted", "sent", "verified", "proved"}]
  BY DEF IInv, TypeOK, WalletsTyped
<1>3. Payable
  <2>1. CASE filing_payment_requirements_endpoint(w)
    BY <2>1 DEF filing_payment_requirements_endpoint, Payable
  <2>2. CASE Resent(w)
    BY <2>2 DEF Resent, SoleInv, StageOK
  <2>3. CASE handlePay(w) \/ Confirm(w) \/ TabClosed(w) \/ ChatProofFails(w)
    <3>1. pay[w] # "idle"
      BY <2>3 DEF handlePay, Confirm, verify_payment_tx, submit_compliance_proof_tx,
         filing_confirm_payment_endpoint, record_solana_payment, TabClosed, ChatProofFails
    <3> QED BY <3>1 DEF SoleInv, StageOK
  <2> QED BY <2>1, <2>2, <2>3
<1>4. status' = status \/ status' = "filed"
  BY DEF filing_payment_requirements_endpoint, handlePay, Confirm, verify_payment_tx,
     submit_compliance_proof_tx, filing_confirm_payment_endpoint, record_solana_payment, Resent,
     TabClosed, ChatProofFails, row
<1> QED BY <1>1, <1>3, <1>4, PaymentsKeepSole

LEMMA SoleCardStep ==
  ASSUME IInv, NEW r \in Request, SoleInv(r),
         \/ Checkout \/ KeyForgotten
         \/ \E s \in Session : SessionEnds(s) \/ Event(s) \/ Redelivered(s) \/ CardProofFails(s)
  PROVE  SoleInv(r)'
<1>1. UNCHANGED <<robots, pay, transfers>>
  BY DEF Checkout, create_ukipo_checkout_session, ReuseSession, CreateSession, KeyForgotten,
     SessionEnds, Event, _handle_ukipo_session_completed, CardProof, CardFiled, Redelivered,
     CardProofFails, wallets
<1>2. sessions \in [Session -> {"none", "open", "paid", "expired"}]
  BY DEF IInv, TypeOK, CardsTyped
<1>3. CASE KeyForgotten
  <2>1. UNCHANGED <<status, sessions, checkout>> BY <1>3 DEF KeyForgotten, row
  <2> QED BY <1>1, <2>1, PaymentsKeepSole DEF SoleInv, StageOK
<1>4. CASE ~KeyForgotten
  <2>1. Payable
    <3>1. CASE create_ukipo_checkout_session
      BY <3>1 DEF create_ukipo_checkout_session, Payable
    <3>2. CASE ReuseSession \/ CreateSession
      BY <3>2 DEF ReuseSession, CreateSession, SoleInv, StageOK
    <3>3. ASSUME NEW s \in Session,
                 SessionEnds(s) \/ Event(s) \/ Redelivered(s) \/ CardProofFails(s)
          PROVE  Payable
      <4>1. sessions[s] # "none"
        BY <3>3 DEF SessionEnds, Event, _handle_ukipo_session_completed, CardProof, CardFiled,
           Redelivered, CardProofFails, IInv, PaidInv, CardOK
      <4> QED BY <4>1 DEF SoleInv, StageOK
    <3> QED BY <1>4, <3>1, <3>2, <3>3 DEF Checkout
  <2>2. status' = status \/ status' = "filed"
    BY DEF Checkout, create_ukipo_checkout_session, ReuseSession, CreateSession, KeyForgotten,
       SessionEnds, Event, _handle_ukipo_session_completed, CardProof, CardFiled, Redelivered,
       CardProofFails, row
  <2> QED BY <1>1, <2>1, <2>2, PaymentsKeepSole
<1> QED BY <1>3, <1>4

\* A restart leaves no robot and no request; who pays is payable still.
LEMMA SoleCrash ==
  ASSUME IInv, NEW r \in Request, SoleInv(r), Crash
  PROVE  SoleInv(r)'
<1>1. UNCHANGED <<status, prepared, transfers, sessions>> /\ checkout' = Nothing
  BY DEF Crash, row
<1>2. req'[r] = "idle" /\ \A t \in Task : robot'[t] \in {"unused", "done"}
  BY DEF Crash
<1>3. \A w \in Wallet : pay'[w] # "idle" => pay[w] # "idle"
  BY DEF Crash
<1>4. RobotsOK' /\ RequestOK(r)'
  BY <1>2 DEF RobotsOK, RequestOK, AtWork
<1>5. StageOK'
  BY <1>1, <1>3 DEF SoleInv, StageOK, Payable
<1> QED BY <1>4, <1>5 DEF SoleInv

LEMMA SoleStep ==
  ASSUME NEW r, Request = {r}, IInv, SoleInv(r), [Next]_vars
  PROVE  SoleInv(r)'
<1>1. r \in Request OBVIOUS
<1>2. CASE UNCHANGED vars
  <2>1. UNCHANGED <<status, running_tasks, req, robot, prepared, pay, sessions, checkout, transfers>>
    BY <1>2 DEF vars, row, robots, wallets, cards
  <2> QED BY <2>1 DEF SoleInv, RobotsOK, RequestOK, StageOK, Payable
<1>3. CASE create_submission \/ \E q \in Request : RunRequest(q)
  BY <1>1, <1>3, SoleRequestStep
<1>4. CASE \E t \in Task : Robot(t) \/ OutcomeUnwritten(t)
  BY <1>1, <1>4, SoleRobotStep, SoleUnwritten
<1>5. CASE \E w \in Wallet :
             \/ filing_payment_requirements_endpoint(w) \/ handlePay(w) \/ Confirm(w)
             \/ Resent(w) \/ TabClosed(w) \/ ChatProofFails(w)
  BY <1>1, <1>5, SoleWalletStep
<1>6. CASE \/ Checkout \/ KeyForgotten
           \/ \E s \in Session : SessionEnds(s) \/ Event(s) \/ Redelivered(s) \/ CardProofFails(s)
  BY <1>1, <1>6, SoleCardStep
<1>7. CASE Crash BY <1>1, <1>7, SoleCrash
<1> QED BY <1>2, <1>3, <1>4, <1>5, <1>6, <1>7 DEF Next

-----------------------------------------------------------------------------
(* The lane as its ledger.                                                 *)

ChatPayers == {tx.payer : tx \in {x \in transfers : x.memo = "chat"}}
CardPayments == {s \in Session : sessions[s] = "paid"}
FiledOn == IF status = "filed" THEN PaymentOf(compliance_pda) ELSE Nothing

\* What the ledger sees of a state.
LEMMA LedgerReads ==
  /\ (Ledger!ledger
        = <<prepared, ChatPayers \cup CardPayments, {PaymentOf(pda) : pda \in records}, FiledOn>>)
  /\ (Ledger!ledger'
        = <<prepared, ChatPayers \cup CardPayments, {PaymentOf(pda) : pda \in records}, FiledOn>>')
BY DEF Ledger!ledger, ChatPayers, CardPayments, FiledOn

\* What leaves columns, money and records alone is not seen.
LEMMA Unseen ==
  ASSUME UNCHANGED <<prepared, transfers, sessions, records>>,
         UNCHANGED <<status, compliance_pda>> \/ (status # "filed" /\ status' # "filed")
  PROVE  UNCHANGED Ledger!ledger
<1>1. FiledOn' = FiledOn BY DEF FiledOn, PaymentOf
<1>2. /\ (ChatPayers \cup CardPayments)' = ChatPayers \cup CardPayments
      /\ {PaymentOf(pda) : pda \in records}' = {PaymentOf(pda) : pda \in records}
  BY DEF ChatPayers, CardPayments, PaymentOf
<1> QED BY <1>1, <1>2, LedgerReads

LEMMA FiledOnKept ==
  ASSUME UNCHANGED <<status, compliance_pda>>
  PROVE  FiledOn' = FiledOn
BY DEF FiledOn, PaymentOf

\* The payments that records stand for: one more record, one more payment.
LEMMA PaymentsOfRecords ==
  ASSUME NEW pda, records' \in {records, records \cup {pda}}
  PROVE  {PaymentOf(x) : x \in records}' \in
           {{PaymentOf(x) : x \in records}, {PaymentOf(x) : x \in records} \cup {PaymentOf(pda)}}
BY DEF PaymentOf

LEMMA ProofIsSeen ==
  ASSUME IInv, NEW pda \in Pda, Paid(pda),
         records' \in {records, records \cup {pda}},
         UNCHANGED <<prepared, transfers, sessions, status, compliance_pda>>
  PROVE  Ledger!Next \/ UNCHANGED Ledger!ledger
<1>1. FiledOn' = FiledOn BY DEF FiledOn, PaymentOf
<1>2. (ChatPayers \cup CardPayments)' = ChatPayers \cup CardPayments
  BY DEF ChatPayers, CardPayments
<1>3. PaymentOf(pda) \in Wallet \cup Session /\ PaymentOf(pda) \in ChatPayers \cup CardPayments
  <2>1. CASE pda.query_hash = "filing"
    <3>1. PICK tx \in transfers : tx.payer = pda.user /\ tx.memo = "chat" BY <2>1 DEF Paid
    <3>2. PaymentOf(pda) = tx.payer BY <2>1, <3>1 DEF PaymentOf
    <3>3. tx.payer \in ChatPayers BY <3>1 DEF ChatPayers
    <3>4. tx.payer \in Wallet BY DEF IInv, TypeOK, WalletsTyped, Transfer
    <3> QED BY <3>2, <3>3, <3>4
  <2>2. CASE pda.query_hash # "filing"
    BY <2>2 DEF Paid, PaymentOf, CardPayments, Pda
  <2> QED BY <2>1, <2>2
<1>4. CASE {PaymentOf(x) : x \in records}' = {PaymentOf(x) : x \in records}
  BY <1>1, <1>2, <1>4, LedgerReads
<1>5. CASE {PaymentOf(x) : x \in records}' = {PaymentOf(x) : x \in records} \cup {PaymentOf(pda)}
  <2>1. Ledger!Prove(PaymentOf(pda))
    BY <1>1, <1>2, <1>3, <1>5 DEF Ledger!Prove, ChatPayers, CardPayments, FiledOn
  <2> QED BY <1>3, <2>1 DEF Ledger!Next
<1> QED BY <1>4, <1>5, PaymentsOfRecords

LEMMA FilingIsSeen ==
  ASSUME NEW pda \in Pda, pda \in records, PaymentOf(pda) \in Wallet \cup Session,
         UNCHANGED <<prepared, transfers, sessions, records>>,
         status' = "filed", compliance_pda' = pda
  PROVE  Ledger!Next
<1>1. FiledOn' = PaymentOf(pda) BY DEF FiledOn, PaymentOf
<1>2. /\ (ChatPayers \cup CardPayments)' = ChatPayers \cup CardPayments
      /\ {PaymentOf(x) : x \in records}' = {PaymentOf(x) : x \in records}
  BY DEF ChatPayers, CardPayments, PaymentOf
<1>3. PaymentOf(pda) \in {PaymentOf(x) : x \in records} OBVIOUS
<1>4. Ledger!File(PaymentOf(pda))
  BY <1>1, <1>2, <1>3 DEF Ledger!File, ChatPayers, CardPayments, FiledOn
<1> QED BY <1>4 DEF Ledger!Next

LEMMA MoneyIsSeen ==
  ASSUME NEW m \in Wallet \cup Session, prepared,
         (ChatPayers \cup CardPayments)' = ChatPayers \cup CardPayments \cup {m},
         UNCHANGED <<prepared, records, status, compliance_pda>>
  PROVE  Ledger!Next
<1>1. FiledOn' = FiledOn BY FiledOnKept
<1>2. {PaymentOf(x) : x \in records}' = {PaymentOf(x) : x \in records} BY DEF PaymentOf
<1>3. Ledger!Pay(m)
  BY <1>1, <1>2 DEF Ledger!Pay, ChatPayers, CardPayments, FiledOn
<1> QED BY <1>3 DEF Ledger!Next

-----------------------------------------------------------------------------
\* A robot that comes to the last page has prepared the application.
LEMMA RobotLedger ==
  ASSUME IInv, NEW r \in Request, SoleInv(r),
         create_submission \/ RunRequest(r) \/ \E t \in Task : Robot(t)
  PROVE  [Ledger!Next]_Ledger!ledger
<1>1. UNCHANGED <<compliance_pda, wallets, cards, records>>
  BY DEF create_submission, RunRequest, run_submission_endpoint, start_ukipo_filing, LoadCreated,
     RunRefused, start_submission_run, create_task, Robot, build_robot_input, _update_step,
     _execute_robot, _mark_failed, _forget_task, row
<1>2. UNCHANGED <<transfers, sessions, compliance_pda, records>> BY <1>1 DEF wallets, cards
<1>3. UNCHANGED status \/ (status # "filed" /\ status' # "filed")
  <2>1. CASE create_submission BY <2>1 DEF create_submission
  <2>2. CASE RunRequest(r)
    BY <2>2 DEF RunRequest, run_submission_endpoint, start_ukipo_filing, LoadCreated, RunRefused,
       start_submission_run, create_task, CanRun, row, SoleInv, RequestOK
  <2>3. ASSUME NEW t \in Task, Robot(t)
        PROVE  UNCHANGED status \/ (status # "filed" /\ status' # "filed")
    BY <2>3 DEF Robot, build_robot_input, _update_step, _execute_robot, _mark_failed, _forget_task, row, SoleInv,
       RobotsOK, AtWork
  <2> QED BY <2>1, <2>2, <2>3
<1>4. CASE UNCHANGED prepared BY <1>2, <1>3, <1>4, Unseen
<1>5. CASE prepared' # prepared
  <2>1. PICK t \in Task : _update_step(t)
    BY <1>5 DEF create_submission, RunRequest, run_submission_endpoint, start_ukipo_filing,
       LoadCreated, RunRefused, start_submission_run, create_task, Robot, build_robot_input,
       _execute_robot, _mark_failed, _forget_task,
       robots
  <2>2. prepared \in BOOLEAN BY DEF IInv, TypeOK, RobotsTyped
  <2>3. prepared' = TRUE BY <1>5, <2>1, <2>2 DEF _update_step
  <2>4. UNCHANGED status BY <2>1 DEF _update_step
  <2>5. /\ FiledOn' = FiledOn /\ (ChatPayers \cup CardPayments)' = ChatPayers \cup CardPayments
        /\ {PaymentOf(x) : x \in records}' = {PaymentOf(x) : x \in records}
    BY <1>2, <2>4 DEF FiledOn, PaymentOf, ChatPayers, CardPayments
  <2>6. Ledger!Prepare
    BY <2>3, <2>5 DEF Ledger!Prepare, ChatPayers, CardPayments, FiledOn
  <2> QED BY <2>6 DEF Ledger!Next
<1> QED BY <1>4, <1>5

LEMMA WalletLedger ==
  ASSUME IInv, NEW r \in Request, SoleInv(r), NEW w \in Wallet,
         \/ filing_payment_requirements_endpoint(w) \/ handlePay(w) \/ Confirm(w)
         \/ Resent(w) \/ TabClosed(w) \/ ChatProofFails(w)
  PROVE  [Ledger!Next]_Ledger!ledger
<1>1. UNCHANGED <<prepared, sessions>>
  BY DEF filing_payment_requirements_endpoint, handlePay, Confirm, verify_payment_tx,
     submit_compliance_proof_tx, filing_confirm_payment_endpoint, record_solana_payment, Resent,
     TabClosed, ChatProofFails, cards, robots
<1>2. ChatPda(w) \in Pda /\ PaymentOf(ChatPda(w)) = w
  BY DEF ChatPda, Pda, PaymentOf
<1>3. WalletOK(w) BY DEF IInv, PaidInv
<1>4. CASE UNCHANGED <<status, compliance_pda, transfers, records>>
  BY <1>1, <1>4, Unseen
<1>5. CASE handlePay(w) /\ transfers' # transfers
  <2>1. /\ pay[w] = "quoted" /\ transfers' = transfers \cup {transfer[w]}
        /\ UNCHANGED <<status, compliance_pda, records>>
    BY <1>5 DEF handlePay, row
  <2>2. transfer[w].payer = w BY <1>3, <2>1 DEF WalletOK
  <2>3. prepared BY <2>1 DEF SoleInv, StageOK
  <2>4. CASE transfer[w].memo = "chat"
    <3>1. ChatPayers' = ChatPayers \cup {w} BY <2>1, <2>2, <2>4 DEF ChatPayers
    <3>2. CardPayments' = CardPayments BY <1>1 DEF CardPayments
    <3> QED BY <1>1, <2>1, <2>3, <3>1, <3>2, MoneyIsSeen
  <2>5. CASE transfer[w].memo # "chat"
    <3>1. {x \in transfers' : x.memo = "chat"} = {x \in transfers : x.memo = "chat"}
      BY <2>1, <2>5
    <3>2. ChatPayers' = ChatPayers BY <3>1 DEF ChatPayers
    <3>3. CardPayments' = CardPayments BY <1>1 DEF CardPayments
    <3>4. /\ FiledOn' = FiledOn
          /\ {PaymentOf(x) : x \in records}' = {PaymentOf(x) : x \in records}
      BY <2>1, FiledOnKept DEF PaymentOf
    <3> QED BY <1>1, <3>2, <3>3, <3>4, LedgerReads
  <2> QED BY <2>4, <2>5
<1>6. CASE submit_compliance_proof_tx(w) \/ ChatProofFails(w)
  <2>1. /\ pay[w] = "verified" /\ transfer[w].memo = "chat"
        /\ records' \in {records, records \cup {ChatPda(w)}}
        /\ UNCHANGED <<status, compliance_pda, transfers>>
    BY <1>6 DEF submit_compliance_proof_tx, ChatProofFails, row
  <2>2. Paid(ChatPda(w)) BY <1>3, <2>1 DEF WalletOK, Paid, ChatPda
  <2> QED BY <1>1, <1>2, <2>1, <2>2, ProofIsSeen
<1>7. CASE filing_confirm_payment_endpoint(w)
  <2>1. /\ pay[w] = "proved" /\ status' = "filed" /\ compliance_pda' = ChatPda(w)
        /\ UNCHANGED <<transfers, records>>
    BY <1>7 DEF filing_confirm_payment_endpoint
  <2>2. ChatPda(w) \in records BY <1>3, <2>1 DEF WalletOK
  <2> QED BY <1>1, <1>2, <2>1, <2>2, FilingIsSeen
<1> QED BY <1>4, <1>5, <1>6, <1>7 DEF filing_payment_requirements_endpoint, handlePay, Confirm,
     verify_payment_tx, record_solana_payment, Resent, TabClosed, row

LEMMA CardLedger ==
  ASSUME VerifierEnabled, IInv, NEW r \in Request, SoleInv(r),
         \/ Checkout \/ KeyForgotten \/ Crash
         \/ \E s \in Session : SessionEnds(s) \/ Event(s) \/ Redelivered(s) \/ CardProofFails(s)
  PROVE  [Ledger!Next]_Ledger!ledger
<1>1. UNCHANGED <<prepared, transfers>>
  BY DEF Checkout, create_ukipo_checkout_session, ReuseSession, CreateSession, KeyForgotten, Crash,
     SessionEnds, Event, _handle_ukipo_session_completed, CardProof, CardFiled, Redelivered,
     CardProofFails, wallets, robots
<1>2. sessions \in [Session -> {"none", "open", "paid", "expired"}]
  BY DEF IInv, TypeOK, CardsTyped
<1>3. ChatPayers' = ChatPayers BY <1>1 DEF ChatPayers
<1>4. CASE Checkout \/ KeyForgotten \/ Crash
  <2>1. /\ UNCHANGED <<status, compliance_pda, records>>
        /\ \A s \in Session : sessions'[s] = "paid" <=> sessions[s] = "paid"
    BY <1>2, <1>4 DEF Checkout, create_ukipo_checkout_session, ReuseSession, CreateSession,
       KeyForgotten, Crash, row
  <2>2. CardPayments' = CardPayments BY <2>1 DEF CardPayments
  <2>3. FiledOn' = FiledOn /\ {PaymentOf(x) : x \in records}' = {PaymentOf(x) : x \in records}
    BY <2>1, FiledOnKept DEF PaymentOf
  <2> QED BY <1>1, <1>3, <2>2, <2>3, LedgerReads
<1>5. ASSUME NEW s \in Session, SessionEnds(s)
      PROVE  [Ledger!Next]_Ledger!ledger
  <2>1. UNCHANGED <<status, compliance_pda, records>> /\ sessions[s] = "open"
    BY <1>5 DEF SessionEnds, row
  <2>2. prepared BY <2>1 DEF SoleInv, StageOK
  <2>3. FiledOn' = FiledOn /\ {PaymentOf(x) : x \in records}' = {PaymentOf(x) : x \in records}
    BY <2>1, FiledOnKept DEF PaymentOf
  <2>4. CASE sessions' = [sessions EXCEPT ![s] = "paid"]
    <3>1. CardPayments' = CardPayments \cup {s} BY <1>2, <2>4 DEF CardPayments
    <3> QED BY <1>1, <1>3, <2>1, <2>2, <3>1, MoneyIsSeen
  <2>5. CASE sessions' = [sessions EXCEPT ![s] = "expired"]
    <3>1. CardPayments' = CardPayments BY <1>2, <2>1, <2>5 DEF CardPayments
    <3> QED BY <1>1, <1>3, <2>3, <3>1, LedgerReads
  <2> QED BY <1>5, <2>4, <2>5 DEF SessionEnds
<1>6. ASSUME NEW s \in Session, Event(s) \/ Redelivered(s) \/ CardProofFails(s)
      PROVE  [Ledger!Next]_Ledger!ledger
  <2>1. UNCHANGED sessions
    BY <1>6 DEF Event, _handle_ukipo_session_completed, CardProof, CardFiled, Redelivered,
       CardProofFails
  <2>2. CardOK(s) BY DEF IInv, PaidInv
  <2>3. CASE UNCHANGED <<status, compliance_pda, records>>
    BY <1>1, <2>1, <2>3, Unseen
  <2>4. hook[s] \in {"loaded", "proved"} =>
          CardPda(s) \in Pda /\ PaymentOf(CardPda(s)) = s /\ Paid(CardPda(s))
    BY <2>2, UkipoAssumption DEF IInv, TypeOK, CardsTyped, CardOK, CardPda, Pda, PaymentOf, Paid
  <2>5. CASE CardProof(s) \/ CardProofFails(s)
    <3>1. /\ hook[s] = "loaded" /\ records' \in {records, records \cup {CardPda(s)}}
          /\ UNCHANGED <<status, compliance_pda>>
      BY <2>5 DEF CardProof, CardProofFails
    <3> QED BY <1>1, <2>1, <2>4, <3>1, ProofIsSeen
  <2>6. CASE CardFiled(s)
    <3>1. /\ hook[s] = "proved" /\ status' = "filed" /\ compliance_pda' = CardPda(s)
          /\ UNCHANGED records
      BY <2>6 DEF CardFiled
    <3>2. CardPda(s) \in records BY <2>2, <3>1 DEF CardOK
    <3> QED BY <1>1, <2>1, <2>4, <3>1, <3>2, FilingIsSeen
  <2> QED BY <1>6, <2>3, <2>5, <2>6 DEF Event, _handle_ukipo_session_completed, Redelivered, row
<1> QED BY <1>4, <1>5, <1>6

LEMMA LedgerStep ==
  ASSUME VerifierEnabled, NEW r, Request = {r}, IInv, SoleInv(r), [Next]_vars
  PROVE  [Ledger!Next]_Ledger!ledger
<1>1. r \in Request OBVIOUS
<1>2. CASE UNCHANGED vars
  <2>1. UNCHANGED <<status, compliance_pda, prepared, transfers, sessions, records>>
    BY <1>2 DEF vars, row, robots, wallets, cards
  <2> QED BY <2>1, Unseen
<1>3. CASE create_submission \/ (\E q \in Request : RunRequest(q)) \/ \E t \in Task : Robot(t)
  BY <1>1, <1>3, RobotLedger
<1>4. CASE \E w \in Wallet :
             \/ filing_payment_requirements_endpoint(w) \/ handlePay(w) \/ Confirm(w)
             \/ Resent(w) \/ TabClosed(w) \/ ChatProofFails(w)
  BY <1>1, <1>4, WalletLedger
<1>5. CASE \/ Checkout \/ KeyForgotten \/ Crash
           \/ \E s \in Session : SessionEnds(s) \/ Event(s) \/ Redelivered(s) \/ CardProofFails(s)
  BY <1>1, <1>5, CardLedger
<1>6. CASE \E t \in Task : OutcomeUnwritten(t)
  <2>1. UNCHANGED <<status, compliance_pda, prepared, transfers, sessions, records>>
    BY <1>6 DEF OutcomeUnwritten, row, wallets, cards
  <2> QED BY <2>1, Unseen
<1> QED BY <1>2, <1>3, <1>4, <1>5, <1>6 DEF Next

LEMMA LedgerStarts == Init => Ledger!Init
BY DEF Init, Ledger!Init, PaymentOf

\* While run requests come one at a time and the verifier is enabled, the lane is its ledger, whatever the
\* wallets, cards, events and restarts do: money only for a prepared
\* application, a record only on money, a filing only on a record, none undone.
THEOREM LaneImplementsLedger ==
  ASSUME NEW CONSTANT r, Request = {r}, VerifierEnabled
  PROVE  Spec => LedgerSpec
<1>1. Init => Ledger!Init BY LedgerStarts
<1>2. Init => SoleInv(r)
  <2>1. r \in Request OBVIOUS
  <2> QED BY <2>1, SoleInitial
<1>3. IInv /\ SoleInv(r) /\ [Next]_vars => SoleInv(r)' BY SoleStep
<1>4. IInv /\ SoleInv(r) /\ [Next]_vars => [Ledger!Next]_Ledger!ledger BY LedgerStep
<1> QED BY <1>1, <1>2, <1>3, <1>4, Inductive, PTL DEF Spec, LedgerSpec, Ledger!Spec

\* One run request at a time starts one robot at a time, so it takes two requests
\* in flight together to get past the check of the registry.
THEOREM AloneOneRobot ==
  ASSUME NEW CONSTANT r, Request = {r}
  PROVE  Spec => []OneRobot
<1>1. Init => SoleInv(r)
  <2>1. r \in Request OBVIOUS
  <2> QED BY <2>1, SoleInitial
<1>2. IInv /\ SoleInv(r) /\ [Next]_vars => SoleInv(r)' BY SoleStep
<1>3. SoleInv(r) => OneRobot
  <2> SUFFICES ASSUME SoleInv(r) PROVE Cardinality(Driving) <= 1 BY DEF OneRobot
  <2>1. Driving \subseteq {running_tasks} BY DEF Driving, AtWork, SoleInv, RobotsOK
  <2>2. IsFiniteSet({running_tasks}) /\ Cardinality({running_tasks}) = 1 BY FS_Singleton
  <2>3. Cardinality(Driving) <= Cardinality({running_tasks}) BY <2>1, <2>2, FS_Subset
  <2> QED BY <2>2, <2>3
<1> QED BY <1>1, <1>2, <1>3, Inductive, PTL DEF Spec
=============================================================================

---------------------------- MODULE UkipoLedger ----------------------------
(***************************************************************************)
(* What the UK IPO lane promises about one submission: nobody is asked for *)
(* money before a robot has carried the application through the whole      *)
(* form; it is filed only on money that was paid and proved on chain; and  *)
(* none of this is ever undone.                                            *)
(***************************************************************************)
CONSTANTS Payment, NoPayment

VARIABLES
  prepared,  \* has a robot completed the application?
  money,     \* payments received
  proved,    \* payments with a compliance record on chain
  filedOn    \* the payment the submission is filed on, or NoPayment

ledger == <<prepared, money, proved, filedOn>>

Init == prepared = FALSE /\ money = {} /\ proved = {} /\ filedOn = NoPayment

Prepare == prepared' = TRUE /\ UNCHANGED <<money, proved, filedOn>>

Pay(m) ==
  /\ prepared
  /\ money' = money \cup {m}
  /\ UNCHANGED <<prepared, proved, filedOn>>

Prove(m) ==
  /\ m \in money
  /\ proved' = proved \cup {m}
  /\ UNCHANGED <<prepared, money, filedOn>>

\* A second payment may take the place of the first on the filing.
File(m) ==
  /\ m \in proved
  /\ filedOn' = m
  /\ UNCHANGED <<prepared, money, proved>>

Next == Prepare \/ \E m \in Payment : Pay(m) \/ Prove(m) \/ File(m)

Spec == Init /\ [][Next]_ledger
=============================================================================

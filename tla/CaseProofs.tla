----------------------------- MODULE CaseProofs -----------------------------
(***************************************************************************)
(* The two machines of a case, its NFT and its attestation, for every set  *)
(* of mints, updates and processes; and what holds of the NFT in addition  *)
(* when processes run one at a time.  The machines share nothing that      *)
(* either writes: each is proved about on its own.                         *)
(***************************************************************************)
EXTENDS CaseNft, CaseAttestation, FiniteSetTheorems, TLAPS

-----------------------------------------------------------------------------
(* The NFT.                                                                *)

\* A process on its way to a write of the row carries something that happened
\* on chain: a mint that exists, a claim or a burn that landed.
LocalOK(p) ==
  /\ pc[p] \in {"set_up", "claim"} => got[p] \in mints
  /\ pc[p] \in {"claimed", "minted"} => record # NoMint
  /\ pc[p] = "minted" => got[p] = record
  /\ pc[p] \in {"burnt", "burned"} => burned

ChainOK ==
  /\ signed \subseteq mints
  /\ record # NoMint => record \in mints

IInv == TypeOK /\ RowFollowsChain /\ ChainOK /\ \A p \in Proc : LocalOK(p)

-----------------------------------------------------------------------------
\* The helpers that start, continue and end a process.
LEMMA LoadTyped ==
  ASSUME TypeOK, NEW p \in Proc, NEW l \in PC, NEW m \in Mint \cup {NoMint}, Load(p, l, m)
  PROVE  /\ pc' \in [Proc -> PC] /\ seen' \in [Proc -> Row] /\ got' \in [Proc -> Mint \cup {NoMint}]
         /\ pc'[p] = l /\ got'[p] = m
         /\ \A q \in Proc \ {p} : pc'[q] = pc[q] /\ got'[q] = got[q]
BY DEF TypeOK, Load

LEMMA FinishTyped ==
  ASSUME TypeOK, NEW p \in Proc, Finish(p)
  PROVE  /\ pc' \in [Proc -> PC] /\ seen' \in [Proc -> Row] /\ got' \in [Proc -> Mint \cup {NoMint}]
         /\ pc'[p] = "idle" /\ got'[p] = NoMint
         /\ \A q \in Proc \ {p} : pc'[q] = pc[q] /\ got'[q] = got[q]
BY DEF TypeOK, Finish, PC, NewRow, Row, CaseNftState

LEMMA AnswerTyped ==
  ASSUME TypeOK, NEW p \in Proc, NEW l \in PC, NEW m \in Mint \cup {NoMint}, Answer(p, l, m)
  PROVE  /\ pc' \in [Proc -> PC] /\ seen' \in [Proc -> Row] /\ got' \in [Proc -> Mint \cup {NoMint}]
         /\ used' \in [setups : Nat, patches : Nat, lost : Nat, restarts : Nat]
         /\ (pc'[p] = l /\ got'[p] = m) \/ pc'[p] = "idle"
         /\ \A q \in Proc \ {p} : pc'[q] = pc[q] /\ got'[q] = got[q]
<1>1. CASE Goto(p, l, m) /\ UNCHANGED used
  BY <1>1 DEF TypeOK, Goto
<1>2. CASE Finish(p) /\ used' = [used EXCEPT !.lost = @ + 1]
  BY <1>2, FinishTyped DEF TypeOK
<1>. QED BY <1>1, <1>2 DEF Answer

\* What a process carries stays true while the chain grows.
LEMMA OthersKept ==
  ASSUME NEW q \in Proc, LocalOK(q), pc'[q] = pc[q], got'[q] = got[q],
         mints \subseteq mints', burned => burned', record # NoMint => record' = record
  PROVE  LocalOK(q)'
BY DEF LocalOK

-----------------------------------------------------------------------------
\* Set-ups, the client's signature and a restart: steps of no process.
LEMMA EnvironmentStep ==
  ASSUME IInv,
         \/ PromotionCommit \/ AttestationRecorded \/ PrepareNftClaim \/ Restart
         \/ \E e \in Event : EventFails(e)
  PROVE  IInv'
<1> USE NftBoundsAssumption
<1>1. CASE PromotionCommit
  BY <1>1 DEF eventVars, PromotionCommit, IInv, TypeOK, RowFollowsChain, ChainOK, LocalOK, Row, chainVars, localVars
<1>2. CASE AttestationRecorded
  BY <1>2 DEF eventVars, AttestationRecorded, IInv, TypeOK, RowFollowsChain, ChainOK, LocalOK, Row, chainVars, localVars
<1>3. CASE PrepareNftClaim
  BY <1>3 DEF eventVars, PrepareNftClaim, IInv, TypeOK, RowFollowsChain, ChainOK, LocalOK, Row, chainVars, localVars
<1>4. CASE Restart
  <2>1. TypeOK'
    BY <1>4 DEF eventVars, Restart, IInv, TypeOK, PC, NewRow, Row, CaseNftState, chainVars
  <2>2. \A p \in Proc : LocalOK(p)'
    BY <1>4 DEF Restart, LocalOK
  <2>. QED BY <1>4, <2>1, <2>2 DEF Restart, IInv, RowFollowsChain, ChainOK, chainVars
<1>5. ASSUME NEW e \in Event, EventFails(e) PROVE IInv'
  BY <1>5 DEF EventFails, IInv, TypeOK, RowFollowsChain, ChainOK, LocalOK, chainVars, localVars
<1>. QED BY <1>1, <1>2, <1>3, <1>4, <1>5

\* A process starts: it reads the row and writes nothing.
LEMMA ArriveStep ==
  ASSUME IInv, NEW p \in Proc, Arrive(p)
  PROVE  IInv'
<1>1. UNCHANGED <<row, chainVars, signed>>
  BY DEF Arrive, SetupBegin, ClaimBegin, PatchBegin, BurnBegin, EventBegin
<1>2. TypeOK
  BY DEF IInv
<1>3. ASSUME NEW l \in PC, NEW m \in Mint \cup {NoMint}, Load(p, l, m),
             l = "claim" => m \in mints,
             l = "minted" => record # NoMint /\ m = record,
             l = "burned" => burned,
             l \notin {"set_up", "claimed", "burnt"},
             tasks' \in [setup : Nat, burn : Nat],
             delivered' \in SUBSET Event, dropped' \in SUBSET Event,
             used' \in [setups : Nat, patches : Nat, lost : Nat, restarts : Nat]
      PROVE  IInv'
  <2>1. TypeOK'
    BY <1>1, <1>2, <1>3, LoadTyped DEF TypeOK, chainVars
  <2>2. LocalOK(p)'
    BY <1>1, <1>2, <1>3, LoadTyped DEF LocalOK, chainVars
  <2>3. \A q \in Proc \ {p} : LocalOK(q)'
    BY <1>1, <1>2, <1>3, LoadTyped, OthersKept DEF IInv, chainVars
  <2>. QED BY <1>1, <2>1, <2>2, <2>3 DEF IInv, RowFollowsChain, ChainOK, chainVars
<1>4. ASSUME UNCHANGED localVars, used' = used,
             tasks' \in [setup : Nat, burn : Nat],
             delivered' \in SUBSET Event, dropped' \in SUBSET Event
      PROVE  IInv'
  BY <1>1, <1>4 DEF IInv, TypeOK, RowFollowsChain, ChainOK, LocalOK, chainVars, localVars
<1>5. CASE SetupBegin(p)
  <2>1. /\ tasks' \in [setup : Nat, burn : Nat] /\ used' = used
        /\ delivered' \in SUBSET Event /\ dropped' \in SUBSET Event
    BY <1>2, <1>5 DEF eventVars, SetupBegin, TypeOK
  <2>2. UNCHANGED localVars \/ Load(p, "setup", NoMint)
    BY <1>5 DEF SetupBegin
  <2>. QED BY <1>2, <1>3, <1>4, <2>1, <2>2 DEF TypeOK, PC
<1>6. CASE ClaimBegin(p)
  <2>1. PICK m \in signed : Load(p, "claim", m)
    BY <1>6 DEF ClaimBegin
  <2>2. m \in Mint /\ m \in mints
    BY <2>1 DEF IInv, TypeOK, ChainOK
  <2>. QED BY <1>2, <1>3, <1>6, <2>1, <2>2 DEF eventVars, ClaimBegin, TypeOK, PC
<1>7. CASE PatchBegin(p)
  BY <1>2, <1>3, <1>7 DEF eventVars, PatchBegin, TypeOK, PC
<1>8. CASE BurnBegin(p)
  <2>1. /\ tasks' \in [setup : Nat, burn : Nat] /\ used' = used
        /\ delivered' \in SUBSET Event /\ dropped' \in SUBSET Event
    BY <1>2, <1>8 DEF eventVars, BurnBegin, TypeOK
  <2>2. UNCHANGED localVars \/ Load(p, "burn", row.nft_mint)
    BY <1>8 DEF BurnBegin
  <2>. QED BY <1>2, <1>3, <1>4, <2>1, <2>2 DEF TypeOK, PC, Row
<1>9. ASSUME NEW e \in Event, EventBegin(p, e) PROVE IInv'
  <2>1. /\ tasks' \in [setup : Nat, burn : Nat] /\ used' = used
        /\ delivered' \in SUBSET Event /\ dropped' \in SUBSET Event
    BY <1>2, <1>9 DEF EventBegin, TypeOK
  <2>2. UNCHANGED localVars \/ Load(p, e, record)
    BY <1>9 DEF EventBegin
  <2>3. e \in PC /\ Happened(e) /\ e \in {"minted", "burned"}
    BY <1>9 DEF EventBegin, Event, PC
  <2>. QED BY <1>2, <1>3, <1>4, <2>1, <2>2, <2>3 DEF TypeOK, Happened
<1>. QED BY <1>5, <1>6, <1>7, <1>8, <1>9 DEF Arrive

-----------------------------------------------------------------------------
\* A transaction lands or a mint is created: the chain grows, the row waits.
LEMMA ChainStep ==
  ASSUME IInv, NEW p \in Proc,
         SetupMint(p) \/ ClaimLands(p) \/ ClaimLandsFailed(p) \/ BurnLands(p)
  PROVE  IInv'
<1>1. TypeOK
  BY DEF IInv
<1>2. CASE SetupMint(p)
  <2>1. PICK m \in Mint \ mints : mints' = mints \cup {m} /\ Answer(p, "set_up", m)
    BY <1>2 DEF SetupMint
  <2>2. TypeOK'
    BY <1>1, <1>2, <2>1, AnswerTyped DEF eventVars, SetupMint, TypeOK, PC
  <2>3. LocalOK(p)'
    BY <1>1, <2>1, AnswerTyped DEF LocalOK, PC
  <2>4. \A q \in Proc \ {p} : LocalOK(q)'
    BY <1>1, <1>2, <2>1, AnswerTyped, OthersKept DEF SetupMint, IInv, PC
  <2>. QED BY <1>2, <2>1, <2>2, <2>3, <2>4 DEF SetupMint, IInv, RowFollowsChain, ChainOK
<1>3. CASE ClaimLands(p)
  <2>1. got[p] \in Mint /\ got[p] \in mints /\ Answer(p, "claimed", got[p])
    BY <1>1, <1>3 DEF ClaimLands, IInv, LocalOK, TypeOK
  <2>2. TypeOK'
    BY <1>1, <1>3, <2>1, AnswerTyped DEF eventVars, ClaimLands, TypeOK, PC
  <2>3. LocalOK(p)'
    BY <1>1, <1>3, <2>1, AnswerTyped, NoMintAssumption DEF ClaimLands, LocalOK, PC
  <2>4. \A q \in Proc \ {p} : LocalOK(q)'
    BY <1>1, <1>3, <2>1, AnswerTyped, OthersKept DEF ClaimLands, IInv, PC
  <2>. QED BY <1>3, <2>1, <2>2, <2>3, <2>4 DEF ClaimLands, IInv, RowFollowsChain, ChainOK
<1>4. CASE ClaimLandsFailed(p)
  <2>1. Answer(p, "claimed", got[p]) /\ got[p] \in Mint \cup {NoMint}
    BY <1>1, <1>4 DEF ClaimLandsFailed, Answer, TypeOK
  <2>2. TypeOK'
    BY <1>1, <1>4, <2>1, AnswerTyped DEF eventVars, ClaimLandsFailed, TypeOK, PC, chainVars
  <2>3. LocalOK(p)'
    BY <1>1, <1>4, <2>1, AnswerTyped DEF ClaimLandsFailed, LocalOK, PC, chainVars
  <2>4. \A q \in Proc \ {p} : LocalOK(q)'
    BY <1>1, <1>4, <2>1, AnswerTyped, OthersKept DEF ClaimLandsFailed, IInv, PC, chainVars
  <2>. QED BY <1>4, <2>2, <2>3, <2>4 DEF ClaimLandsFailed, IInv, RowFollowsChain, ChainOK, chainVars
<1>5. CASE BurnLands(p)
  <2>1. Answer(p, "burnt", got[p]) /\ got[p] \in Mint \cup {NoMint}
    BY <1>1, <1>5 DEF BurnLands, TypeOK
  <2>2. TypeOK'
    BY <1>1, <1>5, <2>1, AnswerTyped DEF eventVars, BurnLands, TypeOK, PC
  <2>3. LocalOK(p)'
    BY <1>1, <1>5, <2>1, AnswerTyped DEF BurnLands, LocalOK, PC
  <2>4. \A q \in Proc \ {p} : LocalOK(q)'
    BY <1>1, <1>5, <2>1, AnswerTyped, OthersKept DEF BurnLands, IInv, PC
  <2>. QED BY <1>5, <2>2, <2>3, <2>4 DEF BurnLands, IInv, RowFollowsChain, ChainOK
<1>. QED BY <1>2, <1>3, <1>4, <1>5

-----------------------------------------------------------------------------
\* A process ends, and may write the row: what it writes is true on chain now,
\* whatever the row has become since it was read.
LEMMA FinishStep ==
  ASSUME IInv, NEW p \in Proc, Finish(p), UNCHANGED <<chainVars, signed, used>>,
         row' \in Row, tasks' \in [setup : Nat, burn : Nat],
         delivered' \in SUBSET Event, dropped' \in SUBSET Event, RowFollowsChain'
  PROVE  IInv'
<1>1. TypeOK'
  BY FinishTyped DEF IInv, TypeOK, chainVars
<1>2. LocalOK(p)'
  BY FinishTyped DEF IInv, LocalOK
<1>3. \A q \in Proc \ {p} : LocalOK(q)'
  BY FinishTyped, OthersKept DEF IInv, chainVars
<1>. QED BY <1>1, <1>2, <1>3 DEF IInv, ChainOK, chainVars

LEMMA WriteStep ==
  ASSUME IInv, NEW p \in Proc,
         \/ SetupFail(p) \/ SetupCommit(p) \/ ClaimFail(p) \/ RecordNftClaim(p)
         \/ PatchCommit(p) \/ BurnFail(p) \/ BurnCommit(p) \/ EventCommit(p)
  PROVE  IInv'
<1>1. TypeOK /\ RowFollowsChain /\ LocalOK(p)
  BY DEF IInv
<1>2. CASE SetupFail(p) \/ ClaimFail(p) \/ BurnFail(p)
  BY <1>1, <1>2, FinishStep
     DEF eventVars, SetupFail, ClaimFail, BurnFail, TypeOK, RowFollowsChain, chainVars
<1>3. CASE SetupCommit(p)
  <2>1. got[p] \in Mint /\ got[p] \in mints /\ got[p] # NoMint
    BY <1>1, <1>3, NoMintAssumption DEF SetupCommit, LocalOK, TypeOK
  <2>2. row' \in Row /\ RowFollowsChain'
    BY <1>1, <1>3, <2>1 DEF SetupCommit, TypeOK, Row, CaseNftState, RowFollowsChain, chainVars
  <2>. QED BY <1>1, <1>3, <2>2, FinishStep DEF eventVars, SetupCommit, TypeOK
<1>4. CASE RecordNftClaim(p)
  <2>1. row' \in Row /\ RowFollowsChain'
    BY <1>1, <1>4
       DEF RecordNftClaim, LocalOK, TypeOK, Row, CaseNftState, RowFollowsChain, chainVars
  <2>. QED BY <1>1, <1>4, <2>1, FinishStep DEF eventVars, RecordNftClaim, TypeOK
<1>5. CASE PatchCommit(p)
  <2>1. PICK closed \in BOOLEAN :
          /\ row' = [row EXCEPT !.closed = IF seen[p].closed = closed THEN @ ELSE closed]
          /\ tasks' = [tasks EXCEPT !.burn = IF SchedulesBurn(seen[p], closed) THEN @ + 1 ELSE @]
    BY <1>5 DEF PatchCommit
  <2>2. row' \in Row /\ RowFollowsChain'
    BY <1>1, <1>5, <2>1 DEF PatchCommit, TypeOK, Row, RowFollowsChain, chainVars
  <2>3. tasks' \in [setup : Nat, burn : Nat]
    BY <1>1, <2>1 DEF TypeOK
  <2>. QED BY <1>1, <1>5, <2>2, <2>3, FinishStep DEF eventVars, PatchCommit, TypeOK
<1>6. CASE BurnCommit(p)
  <2>1. row' \in Row /\ RowFollowsChain'
    BY <1>1, <1>6
       DEF BurnCommit, LocalOK, TypeOK, Row, CaseNftState, RowFollowsChain, chainVars
  <2>. QED BY <1>1, <1>6, <2>1, FinishStep DEF eventVars, BurnCommit, TypeOK
<1>7. CASE EventCommit(p)
  <2>1. CASE pc[p] = "minted"
    <3>1. record # NoMint /\ got[p] = record /\ record \in Mint /\ record \in mints
      BY <1>1, <2>1 DEF LocalOK, IInv, ChainOK, TypeOK
    <3>2. row' = MintedRow(seen[p], got[p])
      BY <1>7, <2>1 DEF EventCommit
    <3>3. PICK m \in {row.nft_mint, record}, s \in {row.nft_state, "minted"}, w \in BOOLEAN :
            row' = [row EXCEPT !.nft_mint = m, !.nft_state = s, !.client_wallet = w]
      BY <1>1, <3>1, <3>2 DEF MintedRow, TypeOK, Row
    <3>4. row' \in Row /\ row'.nft_mint = m /\ row'.nft_state = s
      BY <1>1, <3>1, <3>3 DEF TypeOK, Row, CaseNftState
    <3>5. RowFollowsChain'
      BY <1>1, <1>7, <3>1, <3>3, <3>4 DEF EventCommit, RowFollowsChain, chainVars
    <3>. QED BY <1>1, <1>7, <3>4, <3>5, FinishStep DEF EventCommit, TypeOK
  <2>2. CASE pc[p] # "minted"
    <3>1. burned /\ row' = [row EXCEPT !.nft_state = "burned"]
      BY <1>1, <1>7, <2>2 DEF EventCommit, Event, LocalOK
    <3>2. row' \in Row /\ RowFollowsChain'
      BY <1>1, <1>7, <3>1
         DEF EventCommit, TypeOK, Row, CaseNftState, RowFollowsChain, chainVars
    <3>. QED BY <1>1, <1>7, <3>2, FinishStep DEF EventCommit, TypeOK
  <2>. QED BY <2>1, <2>2
<1>. QED BY <1>2, <1>3, <1>4, <1>5, <1>6, <1>7

-----------------------------------------------------------------------------
\* The inductive invariant: whatever set-ups, claims, burns and events are in
\* flight, each of them carries only what has happened on chain.
THEOREM Invariance == Spec => []IInv
<1>1. ASSUME Init PROVE IInv
  <2>1. PICK wallet, promoted \in BOOLEAN :
          /\ row = NewRow(wallet, ~promoted)
          /\ tasks = [setup |-> IF promoted THEN 1 ELSE 0, burn |-> 0]
    BY <1>1 DEF Init
  <2>2. row \in Row /\ row.nft_mint = NoMint /\ row.nft_state = "none"
    BY <2>1 DEF NewRow, Row, CaseNftState
  <2>3. tasks \in [setup : Nat, burn : Nat]
    BY <2>1
  <2>4. NewRow(FALSE, FALSE) \in Row
    BY DEF NewRow, Row, CaseNftState
  <2>5. TypeOK
    BY <1>1, <2>2, <2>3, <2>4 DEF Init, TypeOK, PC
  <2>. QED BY <1>1, <2>2, <2>5 DEF Init, IInv, RowFollowsChain, ChainOK, LocalOK
<1>2. IInv /\ [Next]_vars => IInv'
  <2> SUFFICES ASSUME IInv, [Next]_vars PROVE IInv'
    OBVIOUS
  <2>1. CASE UNCHANGED vars
    BY <2>1 DEF eventVars, vars, chainVars, localVars, IInv, TypeOK, RowFollowsChain, ChainOK, LocalOK
  <2>2. CASE Next
    BY <2>2, EnvironmentStep, ArriveStep, ChainStep, WriteStep DEF Next, Continue
  <2>. QED BY <2>1, <2>2
<1>. QED BY <1>1, <1>2, PTL DEF Spec

\* The variables of the case NFT have their types in every reachable state.
THEOREM TypeCorrect == Spec => []TypeOK
BY Invariance, PTL DEF IInv

\* The case row never runs ahead of the chain, whatever rows its writers had read.
THEOREM RowIsBacked == Spec => []RowFollowsChain
BY Invariance, PTL DEF IInv

-----------------------------------------------------------------------------
\* One process at a time.  A set-up that has begun is then alone with a row that
\* has no token, and a claim is always of the token in the row.
OneTokenOK(p) ==
  /\ row.nft_state = "none" <=> row.nft_mint = NoMint
  /\ signed \subseteq {row.nft_mint}
  /\ record # NoMint => row.nft_mint = record
  /\ burned => record # NoMint
  /\ pc[p] \in {"setup", "set_up"} => row.nft_state = "none"
  /\ pc[p] = "claim" => got[p] = row.nft_mint
  /\ pc[p] = "burn" => got[p] # NoMint

\* Steps that leave the token of the row alone.
LEMMA TokenUntouched ==
  ASSUME IInv, NEW p \in Proc, OneTokenOK(p), UNCHANGED <<record, burned, signed>>,
         row'.nft_mint = row.nft_mint, row'.nft_state = row.nft_state,
         \/ pc'[p] = pc[p] /\ got'[p] = got[p]
         \/ /\ pc'[p] \in {"set_up", "idle", "claimed", "patch", "minted", "burned"}
            /\ pc'[p] = "set_up" => pc[p] = "setup"
  PROVE  OneTokenOK(p)'
BY DEF OneTokenOK

\* Steps of a process that ends and moves the state of a row that has a token.
LEMMA StateMoves ==
  ASSUME IInv, NEW p \in Proc, OneTokenOK(p), UNCHANGED <<chainVars, signed>>,
         pc'[p] = "idle", row.nft_mint # NoMint, row'.nft_mint = row.nft_mint,
         row'.nft_state # "none"
  PROVE  OneTokenOK(p)'
BY DEF OneTokenOK, chainVars

LEMMA OneTokenEnvironment ==
  ASSUME IInv, NEW p \in Proc, OneTokenOK(p),
         \/ PromotionCommit \/ AttestationRecorded \/ PrepareNftClaim \/ Restart
         \/ \E e \in Event : EventFails(e)
  PROVE  OneTokenOK(p)' /\ row'.nft_mint = row.nft_mint
<1>1. CASE PromotionCommit
  BY <1>1 DEF PromotionCommit, OneTokenOK, IInv, TypeOK, Row, chainVars, localVars
<1>2. CASE AttestationRecorded
  BY <1>2 DEF AttestationRecorded, OneTokenOK, chainVars, localVars
<1>3. CASE PrepareNftClaim
  BY <1>3 DEF PrepareNftClaim, OneTokenOK, chainVars, localVars
<1>4. CASE Restart
  BY <1>4 DEF Restart, OneTokenOK, chainVars
<1>5. ASSUME NEW e \in Event, EventFails(e) PROVE OneTokenOK(p)' /\ row'.nft_mint = row.nft_mint
  BY <1>5 DEF EventFails, OneTokenOK, chainVars, localVars
<1>. QED BY <1>1, <1>2, <1>3, <1>4, <1>5

LEMMA OneTokenArrive ==
  ASSUME IInv, NEW p \in Proc, OneTokenOK(p), Arrive(p)
  PROVE  OneTokenOK(p)' /\ row'.nft_mint = row.nft_mint
<1>1. UNCHANGED <<row, chainVars, signed>>
  BY DEF Arrive, SetupBegin, ClaimBegin, PatchBegin, BurnBegin, EventBegin
<1>2. TypeOK
  BY DEF IInv
<1>3. CASE UNCHANGED localVars
  BY <1>1, <1>3 DEF OneTokenOK, chainVars, localVars
<1>4. ASSUME NEW l \in PC, NEW m \in Mint \cup {NoMint}, Load(p, l, m),
             l \in {"setup", "set_up"} => row.nft_state = "none",
             l = "claim" => m = row.nft_mint, l = "burn" => m # NoMint
      PROVE  OneTokenOK(p)'
  BY <1>1, <1>2, <1>4, LoadTyped DEF OneTokenOK, chainVars
<1>5. CASE SetupBegin(p)
  BY <1>3, <1>4, <1>5 DEF SetupBegin, NeedsSetup, PC
<1>6. CASE ClaimBegin(p)
  <2>1. PICK m \in signed : Load(p, "claim", m)
    BY <1>6 DEF ClaimBegin
  <2>2. m = row.nft_mint /\ m \in Mint \cup {NoMint}
    BY <1>2, <2>1 DEF OneTokenOK, TypeOK
  <2>3. "claim" \in PC
    BY DEF PC
  <2>. QED BY <1>1, <1>2, <2>1, <2>2, <2>3, LoadTyped DEF OneTokenOK, chainVars
<1>7. CASE PatchBegin(p)
  BY <1>4, <1>7 DEF PatchBegin, PC
<1>8. CASE BurnBegin(p)
  BY <1>2, <1>3, <1>4, <1>8 DEF BurnBegin, CanBurn, TypeOK, Row, PC
<1>9. ASSUME NEW e \in Event, EventBegin(p, e) PROVE OneTokenOK(p)'
  BY <1>2, <1>3, <1>4, <1>9 DEF EventBegin, Event, TypeOK, PC
<1>. QED BY <1>1, <1>5, <1>6, <1>7, <1>8, <1>9 DEF Arrive

LEMMA OneTokenContinue ==
  ASSUME IInv, NEW p \in Proc, OneTokenOK(p), Continue(p)
  PROVE  /\ OneTokenOK(p)'
         /\ row.nft_mint # NoMint => row'.nft_mint = row.nft_mint
<1>1. TypeOK /\ LocalOK(p)
  BY DEF IInv
<1>2. CASE SetupMint(p)
  <2>1. PICK m \in Mint \ mints : Answer(p, "set_up", m)
    BY <1>2 DEF SetupMint
  <2>2. pc'[p] \in {"set_up", "idle"}
    BY <1>1, <2>1, AnswerTyped DEF PC
  <2>. QED BY <1>2, <2>2, TokenUntouched DEF SetupMint
<1>3. CASE SetupFail(p) \/ ClaimFail(p) \/ BurnFail(p)
  BY <1>1, <1>3, FinishTyped, TokenUntouched DEF SetupFail, ClaimFail, BurnFail, chainVars
<1>4. CASE SetupCommit(p)
  <2>1. got[p] \in Mint /\ got[p] # NoMint /\ row.nft_state = "none" /\ row.nft_mint = NoMint
    BY <1>1, <1>4, NoMintAssumption DEF SetupCommit, LocalOK, TypeOK, OneTokenOK
  <2>2. record = NoMint /\ signed = {}
    BY <1>1, <2>1, NoMintAssumption DEF OneTokenOK, TypeOK
  <2>3. row'.nft_mint = got[p] /\ row'.nft_state = "pending_claim" /\ pc'[p] = "idle"
    BY <1>1, <1>4, FinishTyped DEF SetupCommit, TypeOK, Row
  <2>. QED BY <1>4, <2>1, <2>2, <2>3 DEF SetupCommit, OneTokenOK, chainVars
<1>5. CASE ClaimLands(p)
  <2>1. got[p] \in Mint /\ got[p] = row.nft_mint /\ record' = got[p]
    BY <1>1, <1>5 DEF ClaimLands, OneTokenOK, LocalOK, TypeOK
  <2>2. pc'[p] \in {"claimed", "idle"}
    BY <1>1, <1>5, <2>1, AnswerTyped DEF ClaimLands, PC
  <2>. QED BY <1>5, <2>1, <2>2 DEF ClaimLands, OneTokenOK
<1>6. CASE ClaimLandsFailed(p)
  <2>1. pc'[p] = "claimed"
    BY <1>1, <1>6 DEF ClaimLandsFailed, Goto, TypeOK
  <2>. QED BY <1>6, <2>1, TokenUntouched DEF ClaimLandsFailed, chainVars
<1>7. CASE RecordNftClaim(p)
  <2>1. row.nft_mint # NoMint /\ pc'[p] = "idle"
    BY <1>1, <1>7, FinishTyped DEF RecordNftClaim, LocalOK, OneTokenOK
  <2>2. row.nft_state # "none" /\ row'.nft_mint = row.nft_mint /\ row'.nft_state # "none"
    BY <1>1, <1>7, <2>1 DEF RecordNftClaim, OneTokenOK, TypeOK, Row
  <2>. QED BY <1>7, <2>1, <2>2, StateMoves DEF RecordNftClaim
<1>8. CASE PatchCommit(p)
  <2>1. row'.nft_mint = row.nft_mint /\ row'.nft_state = row.nft_state
    BY <1>1, <1>8 DEF PatchCommit, TypeOK, Row
  <2>. QED BY <1>1, <1>8, <2>1, FinishTyped, TokenUntouched DEF PatchCommit, chainVars
<1>9. CASE BurnLands(p)
  <2>1. record # NoMint
    BY <1>9 DEF BurnLands, OneTokenOK
  <2>2. pc'[p] \in {"burnt", "idle"}
    BY <1>1, <1>9, AnswerTyped DEF BurnLands, TypeOK, PC
  <2>. QED BY <1>9, <2>1, <2>2 DEF BurnLands, OneTokenOK
<1>10. CASE BurnCommit(p)
  <2>1. row.nft_mint # NoMint /\ pc'[p] = "idle"
    BY <1>1, <1>10, FinishTyped DEF BurnCommit, LocalOK, OneTokenOK
  <2>2. row'.nft_mint = row.nft_mint /\ row'.nft_state # "none"
    BY <1>1, <1>10 DEF BurnCommit, TypeOK, Row
  <2>. QED BY <1>10, <2>1, <2>2, StateMoves DEF BurnCommit
<1>11. CASE EventCommit(p)
  <2>1. record # NoMint /\ pc'[p] = "idle"
    BY <1>1, <1>11, FinishTyped DEF EventCommit, Event, LocalOK, OneTokenOK
  <2>2. row.nft_mint = record /\ row.nft_state # "none" /\ (pc[p] = "minted" => got[p] = record)
    BY <1>1, <2>1 DEF OneTokenOK, LocalOK
  <2>3. CASE pc[p] = "minted"
    <3>1. row' = MintedRow(seen[p], record)
      BY <1>11, <2>2, <2>3 DEF EventCommit
    <3>2. row'.nft_mint = row.nft_mint
      BY <1>1, <2>2, <3>1 DEF MintedRow, TypeOK, Row
    <3>3. row'.nft_state \in {row.nft_state, "minted"}
      BY <1>1, <3>1 DEF MintedRow, TypeOK, Row
    <3>. QED BY <1>11, <2>1, <2>2, <3>2, <3>3, StateMoves DEF EventCommit
  <2>4. CASE pc[p] # "minted"
    <3>1. row'.nft_mint = row.nft_mint /\ row'.nft_state = "burned"
      BY <1>1, <1>11, <2>4 DEF EventCommit, TypeOK, Row
    <3>. QED BY <1>11, <2>1, <2>2, <3>1, StateMoves DEF EventCommit
  <2>. QED BY <2>3, <2>4
<1>. QED BY <1>2, <1>3, <1>4, <1>5, <1>6, <1>7, <1>8, <1>9, <1>10, <1>11 DEF Continue

LEMMA OneTokenStep ==
  ASSUME NEW p \in Proc, Proc = {p}, IInv, OneTokenOK(p), [Next]_vars
  PROVE  /\ OneTokenOK(p)'
         /\ row.nft_mint # NoMint => row'.nft_mint = row.nft_mint
<1>1. CASE UNCHANGED vars
  BY <1>1 DEF vars, chainVars, localVars, OneTokenOK
<1>2. CASE Next
  BY <1>2, OneTokenEnvironment, OneTokenArrive, OneTokenContinue DEF Next
<1>. QED BY <1>1, <1>2

\* Were requests, tasks and deliveries handled one at a time, then however many
\* set-ups are scheduled, the row would keep its token and name the one that was
\* claimed: what goes wrong with two set-ups is their interleaving alone.
THEOREM OneAtATimeKeepsToken ==
  ASSUME NEW p \in Proc, Proc = {p}
  PROVE  Spec => []MintAgrees /\ TokenKept
<1>1. Init => OneTokenOK(p)
  BY DEF Init, OneTokenOK, NewRow
<1>2. IInv /\ OneTokenOK(p) /\ [Next]_vars => OneTokenOK(p)'
  BY OneTokenStep
<1>3. IInv /\ OneTokenOK(p) /\ [Next]_vars
        => [row.nft_mint # NoMint => row'.nft_mint = row.nft_mint]_vars
  BY OneTokenStep
<1>4. OneTokenOK(p) => MintAgrees
  BY DEF OneTokenOK, MintAgrees
<1>. QED BY <1>1, <1>2, <1>3, <1>4, Invariance, PTL DEF Spec, TokenKept

-----------------------------------------------------------------------------
\* One process at a time wastes no mint of its own accord: a mint that neither
\* the row nor the process names is the price of a lost answer or of a restart.
\* But for the set-up that has made a mint, a process names no other than the
\* row does.
Unnamed(p) == mints \ {row.nft_mint, got[p]}

SpareOK(p) ==
  /\ IsFiniteSet(Unnamed(p)) /\ Cardinality(Unnamed(p)) <= used.lost + used.restarts
  /\ pc[p] # "set_up" => got[p] \in {NoMint, row.nft_mint}

LEMMA OneMore ==
  ASSUME NEW A, NEW B, NEW x, IsFiniteSet(A), B \subseteq A \cup {x}
  PROVE  /\ IsFiniteSet(B) /\ Cardinality(A) \in Nat /\ Cardinality(B) \in Nat
         /\ Cardinality(B) <= Cardinality(A) + 1
         /\ B \subseteq A => Cardinality(B) <= Cardinality(A)
<1>1. /\ IsFiniteSet(A \cup {x}) /\ Cardinality(A) \in Nat
      /\ Cardinality(A \cup {x}) = Cardinality(A) \/ Cardinality(A \cup {x}) = Cardinality(A) + 1
  BY FS_AddElement, FS_CardinalityType
<1>2. IsFiniteSet(B) /\ Cardinality(B) <= Cardinality(A \cup {x})
  BY <1>1, FS_Subset
<1>3. Cardinality(B) \in Nat
  BY <1>2, FS_CardinalityType
<1>4. B \subseteq A => Cardinality(B) <= Cardinality(A)
  BY FS_Subset
<1>. QED BY <1>1, <1>2, <1>3, <1>4

\* The steps that make no mint and give the row none.
LEMMA NamesKept ==
  ASSUME IInv, NEW p \in Proc, SpareOK(p), mints' = mints, row'.nft_mint = row.nft_mint,
         pc[p] # "set_up", pc'[p] # "set_up" => got'[p] \in {NoMint, row.nft_mint},
         used'.lost \in {used.lost, used.lost + 1}, used'.restarts = used.restarts
  PROVE  SpareOK(p)'
<1>1. mints \subseteq Mint /\ used.lost \in Nat /\ used.restarts \in Nat
  BY DEF IInv, TypeOK
<1>2. Unnamed(p)' \subseteq Unnamed(p)
  BY <1>1, NoMintAssumption DEF Unnamed, SpareOK
<1>3. /\ IsFiniteSet(Unnamed(p)') /\ Cardinality(Unnamed(p)') <= Cardinality(Unnamed(p))
      /\ Cardinality(Unnamed(p)) \in Nat /\ Cardinality(Unnamed(p)') \in Nat
  BY <1>2, OneMore DEF SpareOK
<1>4. Cardinality(Unnamed(p)') <= used'.lost + used'.restarts
  BY <1>1, <1>3 DEF SpareOK
<1>. QED BY <1>3, <1>4 DEF SpareOK

LEMMA SpareEnvironment ==
  ASSUME IInv, NEW p \in Proc, SpareOK(p),
         \/ PromotionCommit \/ AttestationRecorded \/ PrepareNftClaim \/ Restart
         \/ \E e \in Event : EventFails(e)
  PROVE  SpareOK(p)'
<1>1. used.lost \in Nat /\ used.restarts \in Nat /\ TypeOK
  BY DEF IInv, TypeOK
<1>2. CASE PromotionCommit \/ AttestationRecorded \/ PrepareNftClaim
  <2>1. /\ mints' = mints /\ row'.nft_mint = row.nft_mint /\ pc' = pc /\ got' = got
        /\ used'.lost = used.lost /\ used'.restarts = used.restarts
    BY <1>1, <1>2
       DEF PromotionCommit, AttestationRecorded, PrepareNftClaim, TypeOK, Row, chainVars, localVars
  <2>. QED BY <2>1 DEF SpareOK, Unnamed
<1>3. CASE Restart
  <2>1. /\ mints' = mints /\ row' = row /\ got'[p] = NoMint
        /\ used'.lost = used.lost /\ used'.restarts = used.restarts + 1
    BY <1>1, <1>3 DEF Restart, TypeOK, chainVars
  <2>2. Unnamed(p)' \subseteq Unnamed(p) \cup {got[p]}
    BY <2>1 DEF Unnamed
  <2>3. /\ IsFiniteSet(Unnamed(p)') /\ Cardinality(Unnamed(p)') <= Cardinality(Unnamed(p)) + 1
        /\ Cardinality(Unnamed(p)) \in Nat /\ Cardinality(Unnamed(p)') \in Nat
    BY <2>2, OneMore DEF SpareOK
  <2>4. Cardinality(Unnamed(p)') <= used'.lost + used'.restarts
    BY <1>1, <2>1, <2>3 DEF SpareOK
  <2>. QED BY <2>1, <2>3, <2>4 DEF SpareOK
<1>4. ASSUME NEW e \in Event, EventFails(e) PROVE SpareOK(p)'
  BY <1>4 DEF EventFails, SpareOK, Unnamed, chainVars, localVars
<1>. QED BY <1>2, <1>3, <1>4

LEMMA SpareArrive ==
  ASSUME IInv, NEW p \in Proc, OneTokenOK(p), SpareOK(p), Arrive(p)
  PROVE  SpareOK(p)'
<1>1. TypeOK /\ row' = row /\ mints' = mints /\ pc[p] = "idle"
  BY DEF IInv, Arrive, SetupBegin, ClaimBegin, PatchBegin, BurnBegin, EventBegin, chainVars
<1>2. used'.lost = used.lost /\ used'.restarts = used.restarts
  BY <1>1 DEF TypeOK, Arrive, SetupBegin, ClaimBegin, PatchBegin, BurnBegin, EventBegin
<1>3. CASE UNCHANGED localVars
  BY <1>1, <1>2, <1>3, NamesKept DEF SpareOK, localVars
<1>4. ASSUME NEW l \in PC, NEW m \in {NoMint, row.nft_mint}, Load(p, l, m)
      PROVE  SpareOK(p)'
  <2>1. m \in Mint \cup {NoMint}
    BY <1>1 DEF TypeOK, Row
  <2>2. got'[p] = m
    BY <1>1, <1>4, <2>1, LoadTyped
  <2>. QED BY <1>1, <1>2, <2>2, NamesKept
<1>5. CASE SetupBegin(p)
  BY <1>3, <1>4, <1>5 DEF SetupBegin, PC
<1>6. CASE ClaimBegin(p)
  <2>1. PICK m \in signed : Load(p, "claim", m)
    BY <1>6 DEF ClaimBegin
  <2>. QED BY <1>4, <2>1 DEF OneTokenOK, PC
<1>7. CASE PatchBegin(p)
  BY <1>4, <1>7 DEF PatchBegin, PC
<1>8. CASE BurnBegin(p)
  BY <1>3, <1>4, <1>8 DEF BurnBegin, PC
<1>9. ASSUME NEW e \in Event, EventBegin(p, e) PROVE SpareOK(p)'
  <2>1. UNCHANGED localVars \/ Load(p, e, record)
    BY <1>9 DEF EventBegin
  <2>2. e \in PC /\ record = row.nft_mint
    BY <1>9 DEF EventBegin, Event, PC, Happened, OneTokenOK
  <2>. QED BY <1>3, <1>4, <2>1, <2>2
<1>. QED BY <1>5, <1>6, <1>7, <1>8, <1>9 DEF Arrive

\* A mint is made, and the process names it unless the answer is lost.
LEMMA SpareSetupMint ==
  ASSUME IInv, NEW p \in Proc, SpareOK(p), SetupMint(p)
  PROVE  SpareOK(p)'
<1>1. PICK m \in Mint \ mints : mints' = mints \cup {m} /\ Answer(p, "set_up", m)
  BY DEF SetupMint
<1>2. /\ TypeOK /\ mints \subseteq Mint /\ row' = row /\ got[p] \in {NoMint, row.nft_mint}
      /\ used.lost \in Nat /\ used.restarts \in Nat
  BY DEF SetupMint, IInv, TypeOK, SpareOK
<1>3. Unnamed(p)' \subseteq Unnamed(p) \cup {m}
  BY <1>1, <1>2, NoMintAssumption DEF Unnamed
<1>4. /\ IsFiniteSet(Unnamed(p)') /\ Cardinality(Unnamed(p)') <= Cardinality(Unnamed(p)) + 1
      /\ Cardinality(Unnamed(p)) \in Nat /\ Cardinality(Unnamed(p)') \in Nat
      /\ Unnamed(p)' \subseteq Unnamed(p) => Cardinality(Unnamed(p)') <= Cardinality(Unnamed(p))
  BY <1>3, OneMore DEF SpareOK
<1>5. CASE Goto(p, "set_up", m) /\ UNCHANGED used
  <2>1. pc'[p] = "set_up" /\ got'[p] = m
    BY <1>2, <1>5 DEF Goto, TypeOK
  <2>2. Unnamed(p)' \subseteq Unnamed(p)
    BY <1>3, <2>1 DEF Unnamed
  <2>3. Cardinality(Unnamed(p)') <= used'.lost + used'.restarts
    BY <1>2, <1>4, <1>5, <2>2 DEF SpareOK
  <2>. QED BY <1>4, <2>1, <2>3 DEF SpareOK
<1>6. CASE Finish(p) /\ used' = [used EXCEPT !.lost = @ + 1]
  <2>1. used'.lost = used.lost + 1 /\ used'.restarts = used.restarts /\ got'[p] = NoMint
    BY <1>2, <1>6, FinishTyped DEF TypeOK
  <2>2. Cardinality(Unnamed(p)') <= used'.lost + used'.restarts
    BY <1>2, <1>4, <2>1 DEF SpareOK
  <2>. QED BY <1>4, <2>1, <2>2 DEF SpareOK
<1>. QED BY <1>1, <1>5, <1>6 DEF Answer

\* The row, which had no token, names the one that the process named.
LEMMA SpareSetupCommit ==
  ASSUME IInv, NEW p \in Proc, OneTokenOK(p), SpareOK(p), SetupCommit(p)
  PROVE  SpareOK(p)'
<1>1. TypeOK /\ row.nft_mint = NoMint /\ mints' = mints /\ used' = used
  BY DEF SetupCommit, IInv, OneTokenOK, chainVars
<1>2. row'.nft_mint = got[p] /\ got'[p] = NoMint
  BY <1>1, FinishTyped DEF SetupCommit, TypeOK, Row
<1>3. Unnamed(p)' = Unnamed(p)
  BY <1>1, <1>2 DEF Unnamed
<1>. QED BY <1>1, <1>2, <1>3 DEF SpareOK

LEMMA SpareContinue ==
  ASSUME IInv, NEW p \in Proc, OneTokenOK(p), SpareOK(p), Continue(p)
  PROVE  SpareOK(p)'
<1>1. TypeOK /\ LocalOK(p)
  BY DEF IInv
<1>2. ASSUME Finish(p), pc[p] # "set_up", mints' = mints, used' = used,
             row'.nft_mint = row.nft_mint
      PROVE  SpareOK(p)'
  <2>1. got'[p] = NoMint
    BY <1>1, <1>2, FinishTyped
  <2>. QED BY <1>2, <2>1, NamesKept
<1>3. ASSUME NEW l \in PC, Answer(p, l, got[p]), pc[p] # "set_up", mints' = mints, row' = row
      PROVE  SpareOK(p)'
  <2>1. got[p] \in {NoMint, row.nft_mint}
    BY <1>3 DEF SpareOK
  <2>2. got'[p] \in {NoMint, got[p]}
    BY <1>1, <1>3 DEF Answer, Goto, Finish, TypeOK
  <2>3. used'.lost \in {used.lost, used.lost + 1} /\ used'.restarts = used.restarts
    BY <1>1, <1>3 DEF Answer, TypeOK
  <2>. QED BY <1>3, <2>1, <2>2, <2>3, NamesKept
<1>4. CASE SetupMint(p)
  BY <1>4, SpareSetupMint
<1>5. CASE SetupCommit(p)
  BY <1>5, SpareSetupCommit
<1>6. CASE SetupFail(p) \/ ClaimFail(p) \/ BurnFail(p)
  BY <1>2, <1>6 DEF SetupFail, ClaimFail, BurnFail, chainVars
<1>7. CASE ClaimLands(p)
  BY <1>3, <1>7 DEF ClaimLands, PC
<1>8. CASE ClaimLandsFailed(p)
  BY <1>3, <1>8 DEF ClaimLandsFailed, Answer, PC, chainVars
<1>9. CASE BurnLands(p)
  BY <1>3, <1>9 DEF BurnLands, PC
<1>10. CASE RecordNftClaim(p) \/ PatchCommit(p) \/ BurnCommit(p)
  <2>1. row'.nft_mint = row.nft_mint
    BY <1>1, <1>10 DEF RecordNftClaim, PatchCommit, BurnCommit, TypeOK, Row
  <2>. QED BY <1>2, <1>10, <2>1 DEF RecordNftClaim, PatchCommit, BurnCommit, chainVars
<1>11. CASE EventCommit(p)
  <2>1. row.nft_mint # NoMint
    BY <1>1, <1>11 DEF EventCommit, Event, LocalOK, OneTokenOK
  <2>2. row'.nft_mint = row.nft_mint
    BY <2>1, OneTokenContinue
  <2>. QED BY <1>2, <1>11, <2>2 DEF EventCommit, Event, chainVars
<1>. QED BY <1>4, <1>5, <1>6, <1>7, <1>8, <1>9, <1>10, <1>11 DEF Continue

\* Were requests, tasks and deliveries handled one at a time, then however many
\* set-ups are scheduled, no more mints would be left over than answers were lost
\* and processes restarted.
THEOREM OneAtATimeWastesNothing ==
  ASSUME NEW p \in Proc, Proc = {p}
  PROVE  Spec => []NoSpareMint
<1>1. Init => OneTokenOK(p) /\ SpareOK(p)
  <2> SUFFICES ASSUME Init PROVE OneTokenOK(p) /\ SpareOK(p)
    OBVIOUS
  <2>1. OneTokenOK(p)
    BY DEF Init, OneTokenOK, NewRow
  <2>2. Unnamed(p) = {} /\ got[p] = NoMint /\ used.lost = 0 /\ used.restarts = 0
    BY DEF Init, Unnamed
  <2>. QED BY <2>1, <2>2, FS_EmptySet DEF SpareOK
<1>2. IInv /\ OneTokenOK(p) /\ SpareOK(p) /\ [Next]_vars => OneTokenOK(p)' /\ SpareOK(p)'
  <2> SUFFICES ASSUME IInv, OneTokenOK(p), SpareOK(p), [Next]_vars PROVE SpareOK(p)'
    BY OneTokenStep
  <2>1. CASE UNCHANGED vars
    BY <2>1 DEF vars, chainVars, localVars, SpareOK, Unnamed
  <2>2. CASE Next
    BY <2>2, SpareEnvironment, SpareArrive, SpareContinue DEF Next
  <2>. QED BY <2>1, <2>2
<1>3. SpareOK(p) => NoSpareMint
  <2>1. Spare = Unnamed(p)
    BY DEF Spare, Unnamed
  <2>. QED BY <2>1 DEF SpareOK, NoSpareMint
<1>. QED BY <1>1, <1>2, <1>3, Invariance, PTL DEF Spec

-----------------------------------------------------------------------------
(* The attestation.                                                        *)

\* What a process is about to record has landed, and a process that handles an
\* update began after the row showed the creation.
CarriesOK(p) ==
  /\ step[p] = "created" => attested
  /\ step[p] = "update" => upd[p] \in signedUpdates
  /\ step[p] \in {"updated", "webhook"} => upd[p] \in landed
  /\ step[p] = "webhook" => seenTx[p] # "none"

\* Updates are signed only once the row shows the creation, and land once signed.
Prepared ==
  /\ signedUpdates # {} => attestation_tx # "none"
  /\ landed \subseteq signedUpdates

AInv ==
  /\ AttestationTypeOK /\ RecordsAreOnChain /\ AttestationTxIsCreation /\ Prepared
  /\ \A p \in Handler : CarriesOK(p)

-----------------------------------------------------------------------------
LEMMA AttestationBeginTyped ==
  ASSUME AttestationTypeOK, NEW p \in Handler, NEW l \in Step,
         NEW u \in Update \cup {NoUpdate}, Begin(p, l, u)
  PROVE  /\ step' \in [Handler -> Step] /\ upd' \in [Handler -> Update \cup {NoUpdate}]
         /\ seenTx' \in [Handler -> AttestationTx]
         /\ step'[p] = l /\ upd'[p] = u /\ seenTx'[p] = attestation_tx
         /\ \A q \in Handler \ {p} : step'[q] = step[q] /\ upd'[q] = upd[q] /\ seenTx'[q] = seenTx[q]
BY DEF AttestationTypeOK, Begin

LEMMA AttestationReturnTyped ==
  ASSUME AttestationTypeOK, NEW p \in Handler, Return(p)
  PROVE  /\ step' \in [Handler -> Step] /\ upd' \in [Handler -> Update \cup {NoUpdate}]
         /\ seenTx' \in [Handler -> AttestationTx]
         /\ step'[p] = "idle"
         /\ \A q \in Handler \ {p} : step'[q] = step[q] /\ upd'[q] = upd[q] /\ seenTx'[q] = seenTx[q]
BY DEF AttestationTypeOK, Return, Step, AttestationTx

LEMMA AttestationConfirmedTyped ==
  ASSUME AttestationTypeOK, NEW p \in Handler, NEW l \in Step,
         NEW t \in {"create"} \cup Update, Confirmed(p, t, l)
  PROVE  /\ step' \in [Handler -> Step] /\ upd' \in [Handler -> Update \cup {NoUpdate}]
         /\ seenTx' \in [Handler -> AttestationTx] /\ unheard' \in SUBSET ({"create"} \cup Update)
         /\ (step'[p] = l /\ upd'[p] = upd[p]) \/ step'[p] = "idle"
         /\ \A q \in Handler \ {p} : step'[q] = step[q] /\ upd'[q] = upd[q] /\ seenTx'[q] = seenTx[q]
<1>1. CASE step' = [step EXCEPT ![p] = l] /\ UNCHANGED <<upd, seenTx, unheard>>
  BY <1>1 DEF AttestationTypeOK
<1>2. CASE unheard' = unheard \cup {t} /\ Return(p)
  BY <1>2, AttestationReturnTyped DEF AttestationTypeOK
<1>. QED BY <1>1, <1>2 DEF Confirmed

\* What a process carries stays true while the chain grows.
LEMMA AttestationOthersKept ==
  ASSUME NEW q \in Handler, CarriesOK(q),
         step'[q] = step[q], upd'[q] = upd[q], seenTx'[q] = seenTx[q],
         attested => attested', landed \subseteq landed', signedUpdates \subseteq signedUpdates'
  PROVE  CarriesOK(q)'
BY DEF CarriesOK

-----------------------------------------------------------------------------
LEMMA AttestationPrepareStep ==
  ASSUME AInv, PrepareAttestation \/ \E u \in Update : PrepareCaseEvent(u) \/ WebhookFails(u)
  PROVE  AInv'
<1>1. CASE PrepareAttestation
  BY <1>1 DEF answerVars, PrepareAttestation, AInv, AttestationTypeOK, RecordsAreOnChain, AttestationTxIsCreation,
              Prepared, CarriesOK, accountVars, dbVars, handlerVars
<1>2. ASSUME NEW u \in Update, PrepareCaseEvent(u) PROVE AInv'
  BY <1>2 DEF answerVars, PrepareCaseEvent, PreparesEvent, AInv, AttestationTypeOK, RecordsAreOnChain,
              AttestationTxIsCreation, Prepared, CarriesOK, accountVars, dbVars, handlerVars
<1>3. ASSUME NEW u \in Update, WebhookFails(u) PROVE AInv'
  BY <1>3 DEF WebhookFails, AInv, AttestationTypeOK, RecordsAreOnChain, AttestationTxIsCreation,
              Prepared, CarriesOK, accountVars, dbVars, handlerVars
<1>. QED BY <1>1, <1>2, <1>3

LEMMA AttestationArriveStep ==
  ASSUME AInv, NEW p \in Handler,
         SubmitAttestation(p) \/ \E u \in Update : SubmitCaseEvent(p, u) \/ WebhookBegin(p, u)
  PROVE  AInv'
<1>1. AttestationTypeOK
  BY DEF AInv
<1>2. ASSUME NEW l \in {"create", "update", "webhook"}, NEW u \in Update \cup {NoUpdate},
             Begin(p, l, u), UNCHANGED <<accountVars, dbVars, setups, signedCreate, signedUpdates, unheard>>,
             UNCHANGED answerVars,
             l = "update" => u \in signedUpdates, l = "webhook" => u \in landed
      PROVE  AInv'
  <2>1. l \in Step /\ (l = "webhook" => attestation_tx # "none")
    BY <1>2 DEF AInv, Prepared, Step
  <2>2. AttestationTypeOK'
    BY <1>1, <1>2, <2>1, AttestationBeginTyped DEF answerVars, AttestationTypeOK, accountVars, dbVars
  <2>3. CarriesOK(p)'
    BY <1>1, <1>2, <2>1, AttestationBeginTyped DEF CarriesOK, accountVars
  <2>4. \A q \in Handler \ {p} : CarriesOK(q)'
    BY <1>1, <1>2, <2>1, AttestationBeginTyped, AttestationOthersKept DEF AInv, accountVars
  <2>. QED BY <1>2, <2>2, <2>3, <2>4
       DEF AInv, RecordsAreOnChain, AttestationTxIsCreation, Prepared, accountVars, dbVars
<1>3. CASE SubmitAttestation(p)
  BY <1>2, <1>3 DEF SubmitAttestation
<1>4. ASSUME NEW u \in Update, SubmitCaseEvent(p, u) PROVE AInv'
  BY <1>2, <1>4 DEF SubmitCaseEvent
<1>5. ASSUME NEW u \in Update, WebhookBegin(p, u) PROVE AInv'
  <2>1. CASE Already(u)
    BY <1>5, <2>1
       DEF WebhookBegin, AInv, AttestationTypeOK, RecordsAreOnChain, AttestationTxIsCreation, Prepared,
           CarriesOK, accountVars, dbVars, handlerVars
  <2>2. CASE ~Already(u)
    BY <1>2, <1>5, <2>2 DEF answerVars, WebhookBegin, Emitted
  <2>. QED BY <2>1, <2>2
<1>. QED BY <1>3, <1>4, <1>5

LEMMA AttestationChainStep ==
  ASSUME AInv, NEW p \in Handler, CreateLands(p) \/ UpdateLands(p)
  PROVE  AInv'
<1>1. AttestationTypeOK /\ CarriesOK(p)
  BY DEF AInv
<1>2. CASE CreateLands(p)
  <2>1. AttestationTypeOK'
    BY <1>1, <1>2, AttestationConfirmedTyped DEF answerVars, CreateLands, AttestationTypeOK, Step, dbVars
  <2>2. CarriesOK(p)'
    BY <1>1, <1>2, AttestationConfirmedTyped DEF CreateLands, CarriesOK, Step
  <2>3. \A q \in Handler \ {p} : CarriesOK(q)'
    BY <1>1, <1>2, AttestationConfirmedTyped, AttestationOthersKept DEF CreateLands, AInv, Step
  <2>. QED BY <1>2, <2>1, <2>2, <2>3
       DEF CreateLands, AInv, RecordsAreOnChain, AttestationTxIsCreation, Prepared, dbVars
<1>3. CASE UpdateLands(p)
  <2>1. upd[p] \in Update /\ upd[p] \in signedUpdates
    BY <1>1, <1>3 DEF UpdateLands, CarriesOK, AttestationTypeOK
  <2>2. Confirmed(p, upd[p], "updated") /\ upd[p] \in {"create"} \cup Update
    BY <1>3, <2>1 DEF UpdateLands
  <2>3. AttestationTypeOK'
    BY <1>1, <1>3, <2>2, <2>1, AttestationConfirmedTyped DEF answerVars, UpdateLands, AttestationTypeOK, Step, dbVars
  <2>4. CarriesOK(p)'
    BY <1>1, <1>3, <2>2, AttestationConfirmedTyped DEF answerVars, UpdateLands, CarriesOK, Step
  <2>5. \A q \in Handler \ {p} : CarriesOK(q)'
    BY <1>1, <1>3, <2>2, AttestationConfirmedTyped, AttestationOthersKept DEF answerVars, UpdateLands, AInv, Step
  <2>. QED BY <1>3, <2>1, <2>3, <2>4, <2>5
       DEF UpdateLands, AInv, RecordsAreOnChain, AttestationTxIsCreation, Prepared, dbVars
<1>. QED BY <1>2, <1>3

LEMMA AttestationRecordStep ==
  ASSUME AInv, NEW p \in Handler,
         SubmitFails(p) \/ RecordCaseAttestation(p) \/ RecordCaseEvent(p) \/ WebhookCommit(p)
  PROVE  AInv'
<1>1. AttestationTypeOK /\ CarriesOK(p)
  BY DEF AInv
<1>2. Return(p) /\ UNCHANGED <<accountVars, signedCreate, signedUpdates, unheard>>
  BY DEF SubmitFails, RecordCaseAttestation, RecordCaseEvent, WebhookCommit
<1>3. CarriesOK(p)' /\ \A q \in Handler \ {p} : CarriesOK(q)'
  <2>1. CarriesOK(p)'
    BY <1>1, <1>2, AttestationReturnTyped DEF CarriesOK
  <2>2. \A q \in Handler \ {p} : CarriesOK(q)'
    BY <1>1, <1>2, AttestationReturnTyped, AttestationOthersKept DEF AInv, accountVars
  <2>. QED BY <2>1, <2>2
<1>4. ASSUME attestation_tx' \in {attestation_tx, "create"},
             attestation_tx' = "create" => attested \/ attestation_tx = "create",
             \/ events' = events
             \/ /\ events' = [events EXCEPT ![upd[p]] = @ + 1]
                /\ upd[p] \in landed,
             setups' \in Nat, answered' \in SUBSET Update, swallowed' \in SUBSET Update
      PROVE  AInv'
  <2>1. events' \in [Update -> Nat] /\ \A u \in Update : events'[u] > 0 => u \in landed
    BY <1>1, <1>4 DEF AttestationTypeOK, AInv, RecordsAreOnChain
  <2>2. AttestationTypeOK'
    BY <1>1, <1>2, <1>4, <2>1, AttestationReturnTyped DEF AttestationTypeOK, AttestationTx, accountVars
  <2>3. RecordsAreOnChain' /\ AttestationTxIsCreation' /\ Prepared'
    BY <1>2, <1>4, <2>1, UpdateAssumption
       DEF AInv, RecordsAreOnChain, AttestationTxIsCreation, Prepared, accountVars
  <2>. QED BY <1>3, <2>2, <2>3 DEF AInv
<1>5. CASE SubmitFails(p)
  BY <1>1, <1>4, <1>5 DEF answerVars, SubmitFails, AttestationTypeOK, AInv, RecordsAreOnChain, dbVars
<1>6. CASE RecordCaseAttestation(p)
  BY <1>1, <1>4, <1>6 DEF answerVars, RecordCaseAttestation, AttestationTypeOK, CarriesOK
<1>7. CASE RecordCaseEvent(p)
  BY <1>1, <1>4, <1>7 DEF answerVars, RecordCaseEvent, AttestationTypeOK, CarriesOK, AInv, RecordsAreOnChain
<1>8. CASE WebhookCommit(p)
  BY <1>1, <1>4, <1>8 DEF WebhookCommit, AttestationTypeOK, CarriesOK, AInv, RecordsAreOnChain
<1>. QED BY <1>5, <1>6, <1>7, <1>8

-----------------------------------------------------------------------------
\* The inductive invariant: requests and deliveries in flight carry only what
\* has landed.
THEOREM AttestationInvariance == AttestationSpec => []AInv
<1>1. ASSUME AttestationInit PROVE AInv
  <2>1. AttestationTypeOK
    BY <1>1 DEF AttestationInit, AttestationTypeOK, AttestationTx, Step
  <2>2. AttestationTxIsCreation
    BY <1>1, UpdateAssumption DEF AttestationInit, AttestationTxIsCreation
  <2>3. \A p \in Handler : CarriesOK(p)
    BY <1>1 DEF AttestationInit, CarriesOK
  <2>. QED BY <1>1, <2>1, <2>2, <2>3 DEF AttestationInit, AInv, RecordsAreOnChain, Prepared
<1>2. AInv /\ [AttestationNext]_attestationVars => AInv'
  <2> SUFFICES ASSUME AInv, [AttestationNext]_attestationVars PROVE AInv'
    OBVIOUS
  <2>1. CASE UNCHANGED attestationVars
    BY <2>1 DEF answerVars, attestationVars, accountVars, dbVars, handlerVars, AInv, AttestationTypeOK,
                RecordsAreOnChain, AttestationTxIsCreation, Prepared, CarriesOK
  <2>2. CASE AttestationNext
    BY <2>2, AttestationPrepareStep, AttestationArriveStep, AttestationChainStep,
       AttestationRecordStep DEF AttestationNext, Proceed
  <2>. QED BY <2>1, <2>2
<1>. QED BY <1>1, <1>2, PTL DEF AttestationSpec

\* The variables of the attestation have their types in every reachable state.
THEOREM AttestationTypeCorrect == AttestationSpec => []AttestationTypeOK
BY AttestationInvariance, PTL DEF AInv

\* An attestation or an event that the database records is on chain.
THEOREM RecordsAreBacked == AttestationSpec => []RecordsAreOnChain
BY AttestationInvariance, PTL DEF AInv

\* The webhook never fills attestation_tx with the signature of an update: the
\* back-fill it offers has no case in which it happens.
THEOREM BackfillIsDead == AttestationSpec => []AttestationTxIsCreation
BY AttestationInvariance, PTL DEF AInv
=============================================================================

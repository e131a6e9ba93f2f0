-------------------------- MODULE AgentTurnProofs --------------------------
(***************************************************************************)
(* Theorems of AgentTurn, for any number of messages, calls, other rows    *)
(* and requests cut off, and for every window and cap of the prompt.       *)
(*                                                                         *)
(* What the model sees is made from rows that several requests wrote.  The *)
(* invariant speaks of the rows of one request at a time: in the chat they *)
(* are a subsequence that starts with the user's message and goes on with  *)
(* calls, each followed by its result.  The proofs follow it through the   *)
(* rows a request has read (SeenRows), the window of _load_history, the    *)
(* pairing and the cap of _to_llm_messages.                                *)
(***************************************************************************)
EXTENDS AgentTurn, FiniteSetTheorems, FunctionTheorems, SequenceTheorems, TLAPS

-----------------------------------------------------------------------------
(* The elements of a sequence at a set of indices.                         *)

\* The place of index i among the indices in K.
Place(K, i) == Cardinality({j \in K : j < i}) + 1

LEMMA PlaceTyped ==
  ASSUME NEW N \in Nat, NEW K \in SUBSET (1 .. N), NEW i \in K
  PROVE  /\ IsFiniteSet(K) /\ Cardinality(K) \in Nat
         /\ IsFiniteSet({j \in K : j < i})
         /\ Place(K, i) \in 1 .. Cardinality(K)
         /\ Place(K, i) \in Nat /\ i \in Nat /\ i \in 1 .. N
<1>1. IsFiniteSet(1 .. N)
  BY FS_Interval
<1>2. IsFiniteSet(K) /\ Cardinality(K) \in Nat
  BY <1>1, FS_Subset, FS_CardinalityType
<1> DEFINE B == {j \in K : j < i}
<1>3. B \subseteq K \ {i} /\ B \subseteq K
  OBVIOUS
<1>4. IsFiniteSet(K \ {i}) /\ Cardinality(K \ {i}) = Cardinality(K) - 1
  BY <1>2, FS_RemoveElement
<1>5. IsFiniteSet(B) /\ Cardinality(B) <= Cardinality(K \ {i})
  BY <1>3, <1>4, FS_Subset
<1>6. Cardinality(B) \in Nat
  BY <1>5, FS_CardinalityType
<1>7. i \in 1 .. N /\ i \in Nat
  OBVIOUS
<1>. QED BY <1>2, <1>4, <1>5, <1>6, <1>7 DEF Place

LEMMA SizeTyped ==
  ASSUME NEW N \in Nat, NEW K \in SUBSET (1 .. N)
  PROVE  IsFiniteSet(K) /\ Cardinality(K) \in 0 .. N
<1>1. IsFiniteSet(1 .. N) /\ Cardinality(1 .. N) = N
  BY FS_Interval
<1>2. IsFiniteSet(K) /\ Cardinality(K) <= Cardinality(1 .. N)
  BY <1>1, FS_Subset
<1>3. Cardinality(K) \in Nat
  BY <1>2, FS_CardinalityType
<1>. QED BY <1>1, <1>2, <1>3

\* Places are in the order of the indices, without gaps.
LEMMA PlaceMonotonic ==
  ASSUME NEW N \in Nat, NEW K \in SUBSET (1 .. N), NEW i \in K, NEW k \in K, i < k
  PROVE  /\ Place(K, i) < Place(K, k)
         /\ (\A j \in K : j <= i \/ k <= j) => Place(K, k) = Place(K, i) + 1
<1> DEFINE B == {j \in K : j < i}
           C == {j \in K : j < k}
<1>0. \A j \in K : j \in Int
  OBVIOUS
<1>1. IsFiniteSet(B) /\ IsFiniteSet(C)
  <2>1. IsFiniteSet(B)
    BY PlaceTyped
  <2>2. IsFiniteSet(C)
    BY PlaceTyped
  <2>. QED BY <2>1, <2>2
<1>2. IsFiniteSet(B \cup {i}) /\ Cardinality(B \cup {i}) = Cardinality(B) + 1
  <2>1. i \notin B
    BY <1>0
  <2>. QED BY <1>1, <2>1, FS_AddElement
<1>3. B \cup {i} \subseteq C
  <2>1. \A j \in B : j \in K /\ j < k
    BY <1>0
  <2>2. i \in C
    OBVIOUS
  <2>. QED BY <2>1, <2>2
<1>4. Cardinality(B \cup {i}) <= Cardinality(C)
  BY <1>1, <1>3, FS_Subset
<1>5. Cardinality(B) \in Nat /\ Cardinality(C) \in Nat
  BY <1>1, FS_CardinalityType
<1>6. ASSUME \A j \in K : j <= i \/ k <= j PROVE C = B \cup {i}
  <2>1. \A j \in C : j \in B \cup {i}
    <3> TAKE j \in C
    <3>1. j \in K /\ j < k /\ j \in Int /\ i \in Int /\ k \in Int
      BY <1>0
    <3>2. j <= i
      BY <1>6, <3>1
    <3>. QED BY <3>1, <3>2
  <2>. QED BY <1>3, <2>1
<1>. QED BY <1>2, <1>4, <1>5, <1>6 DEF Place

\* Every place is taken.
LEMMA PlaceTaken ==
  ASSUME NEW N \in Nat, NEW K \in SUBSET (1 .. N), NEW n \in 1 .. Cardinality(K)
  PROVE  \E i \in K : Place(K, i) = n
<1> DEFINE f == [i \in K |-> Place(K, i)]
           c == Cardinality(K)
<1>1. IsFiniteSet(K) /\ c \in Nat
  BY SizeTyped
<1>2. f \in [K -> 1 .. c]
  <2>1. \A i \in K : Place(K, i) \in 1 .. c
    BY PlaceTyped
  <2>. QED BY <2>1
<1>3. \A i, k \in K : f[i] = f[k] => i = k
  <2> SUFFICES ASSUME NEW i \in K, NEW k \in K, i # k PROVE f[i] # f[k]
    OBVIOUS
  <2>1. i \in Nat /\ k \in Nat
    OBVIOUS
  <2>2. Place(K, i) \in Nat /\ Place(K, k) \in Nat
    BY PlaceTyped
  <2>3. Place(K, i) < Place(K, k) \/ Place(K, k) < Place(K, i)
    <3>1. i < k => Place(K, i) < Place(K, k)
      BY PlaceMonotonic
    <3>2. k < i => Place(K, k) < Place(K, i)
      BY PlaceMonotonic
    <3>. QED BY <2>1, <3>1, <3>2
  <2>. QED BY <2>2, <2>3
<1>4. f \in Injection(K, 1 .. c)
  BY <1>2, <1>3, Fun_IsInj
<1>5. IsFiniteSet(1 .. c) /\ Cardinality(1 .. c) = c
  <2> HIDE DEF c
  <2>1. c \in Int /\ 1 \in Int /\ c \in Nat
    BY <1>1
  <2>. QED BY <2>1, FS_Interval
<1>6. f \in Surjection(K, 1 .. c)
  BY <1>4, <1>5, FS_Injection
<1>7. \E i \in K : f[i] = n
  <2> HIDE DEF f
  <2>1. \A t \in 1 .. c : \E s \in K : f[s] = t
    BY <1>6, Fun_SurjectionProperties
  <2>. QED BY <2>1
<1>. QED BY <1>7

\* Nth inverts Place.
LEMMA NthProperties ==
  ASSUME NEW N \in Nat, NEW K \in SUBSET (1 .. N)
  PROVE  /\ \A n \in 1 .. Cardinality(K) : Nth(K, n) \in K /\ Place(K, Nth(K, n)) = n
         /\ \A i \in K : Place(K, i) \in 1 .. Cardinality(K) /\ Nth(K, Place(K, i)) = i
         /\ \A m, n \in 1 .. Cardinality(K) : m < n <=> Nth(K, m) < Nth(K, n)
<1>1. ASSUME NEW n \in 1 .. Cardinality(K) PROVE Nth(K, n) \in K /\ Place(K, Nth(K, n)) = n
  <2>1. PICK i \in K : Place(K, i) = n
    BY PlaceTaken
  <2>2. \A j \in K : Place(K, j) = n <=> Cardinality({x \in K : x < j}) = n - 1
    <3> SUFFICES ASSUME NEW j \in K
                 PROVE  Place(K, j) = n <=> Cardinality({x \in K : x < j}) = n - 1
      OBVIOUS
    <3>1. Cardinality({x \in K : x < j}) \in Nat
      BY PlaceTyped, FS_CardinalityType
    <3>. QED BY <3>1 DEF Place
  <2>3. \E j \in K : Cardinality({x \in K : x < j}) = n - 1
    BY <2>1, <2>2
  <2>4. Nth(K, n) \in K /\ Cardinality({x \in K : x < Nth(K, n)}) = n - 1
    BY <2>3 DEF Nth
  <2>. QED BY <2>2, <2>4
<1>2. ASSUME NEW i \in K, NEW k \in K, Place(K, i) = Place(K, k) PROVE i = k
  <2>1. i \in Nat /\ k \in Nat
    OBVIOUS
  <2>2. Place(K, i) \in Nat /\ Place(K, k) \in Nat
    BY PlaceTyped
  <2>3. i < k => Place(K, i) < Place(K, k)
    BY PlaceMonotonic
  <2>4. k < i => Place(K, k) < Place(K, i)
    BY PlaceMonotonic
  <2>. QED BY <1>2, <2>1, <2>2, <2>3, <2>4
<1>3. ASSUME NEW i \in K PROVE Place(K, i) \in 1 .. Cardinality(K) /\ Nth(K, Place(K, i)) = i
  <2>1. Place(K, i) \in 1 .. Cardinality(K)
    BY PlaceTyped
  <2>. QED BY <1>1, <1>2, <2>1
<1>4. ASSUME NEW m \in 1 .. Cardinality(K), NEW n \in 1 .. Cardinality(K)
      PROVE  m < n <=> Nth(K, m) < Nth(K, n)
  <2> DEFINE i == Nth(K, m)
             k == Nth(K, n)
  <2>1. i \in K /\ k \in K /\ Place(K, i) = m /\ Place(K, k) = n
    BY <1>1
  <2> HIDE DEF i, k
  <2>2. i \in Nat /\ k \in Nat /\ m \in Nat /\ n \in Nat
    BY <2>1
  <2>3. i < k => m < n
    BY <2>1, PlaceMonotonic
  <2>4. k < i => n < m
    BY <2>1, PlaceMonotonic
  <2>5. i = k => m = n
    BY <2>1
  <2>6. m < n <=> i < k
    BY <2>2, <2>3, <2>4, <2>5
  <2>. QED BY <2>6 DEF i, k
<1>. QED BY <1>1, <1>3, <1>4

\* Indices with no other between them are next to each other in the selection.
LEMMA NthNext ==
  ASSUME NEW N \in Nat, NEW K \in SUBSET (1 .. N), NEW i \in K, NEW k \in K, i < k,
         \A j \in K : j <= i \/ k <= j
  PROVE  Place(K, k) = Place(K, i) + 1
BY PlaceMonotonic

LEMMA SelectedTyped ==
  ASSUME NEW S, NEW seq \in Seq(S), NEW K \in SUBSET (1 .. Len(seq))
  PROVE  /\ Selected(seq, K) \in Seq(S)
         /\ Len(Selected(seq, K)) = Cardinality(K)
         /\ \A n \in 1 .. Cardinality(K) : Selected(seq, K)[n] = seq[Nth(K, n)]
<1>1. Len(seq) \in Nat /\ Cardinality(K) \in Nat
  BY SizeTyped
<1>2. \A n \in 1 .. Cardinality(K) : seq[Nth(K, n)] \in S
  <2>1. \A n \in 1 .. Cardinality(K) : Nth(K, n) \in K
    BY <1>1, NthProperties
  <2>2. \A i \in K : seq[i] \in S
    OBVIOUS
  <2>. QED BY <2>1, <2>2
<1>3. Selected(seq, K) \in [1 .. Cardinality(K) -> S]
  BY <1>2 DEF Selected
<1>. QED BY <1>1, <1>3 DEF Selected

\* A set that 1 .. m enumerates has m members.
LEMMA Enumerated ==
  ASSUME NEW T, NEW m \in Nat, NEW g \in Injection(1 .. m, T), g \in Surjection(1 .. m, T)
  PROVE  Cardinality(T) = m
<1>1. IsFiniteSet(1 .. m) /\ Cardinality(1 .. m) = m
  BY FS_Interval
<1>. QED BY <1>1, FS_Surjection

LEMMA Counted ==
  ASSUME NEW T, NEW m \in Nat, NEW g \in [1 .. m -> T],
         \A a, b \in 1 .. m : g[a] = g[b] => a = b,
         \A t \in T : \E a \in 1 .. m : g[a] = t
  PROVE  Cardinality(T) = m
<1>1. g \in Injection(1 .. m, T)
  BY Fun_IsInj
<1>2. g \in Surjection(1 .. m, T)
  BY Fun_IsSurj
<1>3. IsFiniteSet(1 .. m) /\ Cardinality(1 .. m) = m
  BY FS_Interval
<1>. QED BY <1>1, <1>2, <1>3, FS_Surjection

\* There is one way to enumerate the indices in their order.
LEMMA NthUnique ==
  ASSUME NEW N \in Nat, NEW K \in SUBSET (1 .. N), NEW m \in Nat, NEW g \in [1 .. m -> K],
         \A a, b \in 1 .. m : a < b => g[a] < g[b],
         \A i \in K : \E a \in 1 .. m : g[a] = i
  PROVE  /\ Cardinality(K) = m
         /\ \A n \in 1 .. m : Nth(K, n) = g[n]
<1>0. \A i \in K : i \in Int
  OBVIOUS
<1>1. \A a \in 1 .. m : g[a] \in K /\ g[a] \in Int
  BY <1>0
<1>2. ASSUME NEW a \in 1 .. m, NEW b \in 1 .. m PROVE g[a] < g[b] <=> a < b
  <2>1. a \in Int /\ b \in Int /\ g[a] \in Int /\ g[b] \in Int
    BY <1>1
  <2>. QED BY <2>1
<1>3. \A a, b \in 1 .. m : g[a] = g[b] => a = b
  <2> TAKE a, b \in 1 .. m
  <2>1. a \in Int /\ b \in Int /\ g[a] \in Int /\ g[b] \in Int
    BY <1>1
  <2>. QED BY <1>2, <2>1
<1>4. Cardinality(K) = m
  <2>1. \A t \in K : \E a \in 1 .. m : g[a] = t
    OBVIOUS
  <2>2. g \in [1 .. m -> K] /\ m \in Nat
    OBVIOUS
  <2>3. g \in Injection(1 .. m, K) /\ g \in Surjection(1 .. m, K)
    BY <1>3, <2>1, <2>2, Fun_IsInj, Fun_IsSurj
  <2>. QED BY <2>2, <2>3, Enumerated
<1>5. ASSUME NEW n \in 1 .. m PROVE Nth(K, n) = g[n]
  <2> DEFINE B == {j \in K : j < g[n]}
             h == [a \in 1 .. n - 1 |-> g[a]]
  <2>1. n - 1 \in Nat /\ \A a \in 1 .. n - 1 : a \in 1 .. m /\ a < n
    OBVIOUS
  <2>2. \A a \in 1 .. n - 1 : g[a] \in B
    BY <1>1, <1>2, <2>1
  <2>3. h \in [1 .. n - 1 -> B]
    BY <2>2
  <2>4. \A a, b \in 1 .. n - 1 : h[a] = h[b] => a = b
    BY <1>3, <2>1
  <2>5. \A j \in B : \E a \in 1 .. n - 1 : h[a] = j
    <3> TAKE j \in B
    <3>1. PICK a \in 1 .. m : g[a] = j
      OBVIOUS
    <3>2. a < n
      BY <1>2, <3>1
    <3>3. a \in 1 .. n - 1
      BY <3>2
    <3>. QED BY <3>1, <3>3
  <2>6. Cardinality(B) = n - 1
    <3> HIDE DEF h, B
    <3>. QED BY <2>1, <2>3, <2>4, <2>5, Counted
  <2>7. Place(K, g[n]) = n
    BY <2>6 DEF Place
  <2>. QED BY <1>1, <2>7, NthProperties
<1>. QED BY <1>4, <1>5

-----------------------------------------------------------------------------
(* The rows of a sequence that are in a set, in their order.               *)

Where(seq, A) == {i \in 1 .. Len(seq) : seq[i] \in A}

Picked(seq, A) == Selected(seq, Where(seq, A))

LEMMA SequencesEqual ==
  ASSUME NEW S, NEW p \in Seq(S), NEW q \in Seq(S), Len(p) = Len(q),
         \A n \in 1 .. Len(p) : p[n] = q[n]
  PROVE  p = q
BY SeqEqual

LEMMA PickedTyped ==
  ASSUME NEW S, NEW seq \in Seq(S), NEW A
  PROVE  /\ Where(seq, A) \in SUBSET (1 .. Len(seq)) /\ Len(seq) \in Nat
         /\ Picked(seq, A) \in Seq(S)
         /\ Len(Picked(seq, A)) = Cardinality(Where(seq, A))
         /\ Len(Picked(seq, A)) \in Nat
         /\ \A n \in 1 .. Len(Picked(seq, A)) :
              /\ Nth(Where(seq, A), n) \in Where(seq, A)
              /\ Picked(seq, A)[n] = seq[Nth(Where(seq, A), n)]
              /\ Picked(seq, A)[n] \in A
<1> DEFINE K == Where(seq, A)
<1>1. K \in SUBSET (1 .. Len(seq)) /\ Len(seq) \in Nat
  BY DEF Where
<1>2. \A i \in K : seq[i] \in A
  BY DEF Where
<1> HIDE DEF K
<1>3. \A n \in 1 .. Cardinality(K) : Nth(K, n) \in K
  BY <1>1, NthProperties
<1>4. /\ Selected(seq, K) \in Seq(S) /\ Len(Selected(seq, K)) = Cardinality(K)
      /\ \A n \in 1 .. Cardinality(K) : Selected(seq, K)[n] = seq[Nth(K, n)]
  BY <1>1, SelectedTyped
<1>5. Len(Selected(seq, K)) \in Nat
  BY <1>4
<1>. QED BY <1>1, <1>2, <1>3, <1>4, <1>5 DEF K, Picked

\* Function g goes through the indices in K in their order.
Enumerates(g, m, K) ==
  /\ g \in [1 .. m -> K]
  /\ \A a, b \in 1 .. m : a < b => g[a] < g[b]
  /\ \A i \in K : \E a \in 1 .. m : g[a] = i

\* Whatever enumerates the indices in their order gives the rows.
LEMMA PickedUnique ==
  ASSUME NEW S, NEW seq \in Seq(S), NEW A, NEW m \in Nat, NEW g,
         Enumerates(g, m, Where(seq, A))
  PROVE  /\ Len(Picked(seq, A)) = m
         /\ \A n \in 1 .. m : Picked(seq, A)[n] = seq[g[n]]
<1> DEFINE K == Where(seq, A)
<1>1. K \in SUBSET (1 .. Len(seq)) /\ Len(seq) \in Nat
  BY PickedTyped
<1>2. Cardinality(K) = m /\ \A n \in 1 .. m : Nth(K, n) = g[n]
  <2> HIDE DEF K
  <2>1. /\ g \in [1 .. m -> K] /\ \A a, b \in 1 .. m : a < b => g[a] < g[b]
        /\ \A i \in K : \E a \in 1 .. m : g[a] = i
    BY DEF K, Enumerates
  <2>. QED BY <1>1, <2>1, NthUnique
<1>. QED BY <1>2, PickedTyped

LEMMA PickedAppend ==
  ASSUME NEW S, NEW seq \in Seq(S), NEW A, NEW e \in S
  PROVE  Picked(Append(seq, e), A) =
           IF e \in A THEN Append(Picked(seq, A), e) ELSE Picked(seq, A)
<1> DEFINE K == Where(seq, A)
           t == Append(seq, e)
           L == Len(seq)
           c == Len(Picked(seq, A))
<1>1. /\ K \in SUBSET (1 .. L) /\ L \in Nat /\ c \in Nat
      /\ Picked(seq, A) \in Seq(S) /\ c = Cardinality(K)
      /\ \A n \in 1 .. c : Nth(K, n) \in K /\ Picked(seq, A)[n] = seq[Nth(K, n)]
  BY PickedTyped
<1>2. /\ t \in Seq(S) /\ Len(t) = L + 1 /\ t[L + 1] = e
      /\ \A i \in 1 .. L : t[i] = seq[i]
  OBVIOUS
<1>3. /\ Picked(t, A) \in Seq(S)
  BY <1>2, PickedTyped
<1>4. /\ \A a, b \in 1 .. c : a < b => Nth(K, a) < Nth(K, b)
      /\ \A i \in K : \E a \in 1 .. c : Nth(K, a) = i
  BY <1>1, NthProperties
<1>5. \A i : i \in K <=> i \in 1 .. L /\ seq[i] \in A
  BY DEF Where
<1>6. \A i : i \in Where(t, A) <=> i \in 1 .. L + 1 /\ t[i] \in A
  BY <1>2 DEF Where
<1> HIDE DEF K, t, L, c
<1>7. CASE e \in A
  <2> DEFINE g == [n \in 1 .. c + 1 |-> IF n <= c THEN Nth(K, n) ELSE L + 1]
  <2>1. \A n \in 1 .. c + 1 : n \in 1 .. c \/ (n = c + 1 /\ ~(n <= c))
    BY <1>1
  <2>2. \A n \in 1 .. c + 1 : g[n] \in Where(t, A)
    <3> TAKE n \in 1 .. c + 1
    <3>1. CASE n \in 1 .. c
      <4>1. Nth(K, n) \in K /\ n <= c
        BY <1>1, <3>1
      <4>2. Nth(K, n) \in 1 .. L /\ seq[Nth(K, n)] \in A
        BY <1>5, <4>1
      <4>3. Nth(K, n) \in 1 .. L + 1 /\ t[Nth(K, n)] \in A
        BY <1>1, <1>2, <4>2
      <4>. QED BY <1>6, <4>1, <4>3
    <3>2. CASE n = c + 1 /\ ~(n <= c)
      <4>1. L + 1 \in 1 .. L + 1 /\ t[L + 1] \in A
        BY <1>1, <1>2, <1>7
      <4>. QED BY <1>6, <3>2, <4>1
    <3>. QED BY <2>1, <3>1, <3>2
  <2>3. g \in [1 .. c + 1 -> Where(t, A)]
    <3>1. \A n \in 1 .. c + 1 : (IF n <= c THEN Nth(K, n) ELSE L + 1) \in Where(t, A)
      BY <2>2
    <3>. QED BY <3>1
  <2>4. \A a, b \in 1 .. c + 1 : a < b => g[a] < g[b]
    <3> SUFFICES ASSUME NEW a \in 1 .. c + 1, NEW b \in 1 .. c + 1, a < b PROVE g[a] < g[b]
      OBVIOUS
    <3>1. a \in 1 .. c /\ a <= c
      BY <1>1
    <3>2. CASE b \in 1 .. c
      BY <1>4, <3>1, <3>2
    <3>3. CASE b = c + 1 /\ ~(b <= c)
      <4>1. Nth(K, a) \in 1 .. L
        BY <1>1, <1>5, <3>1
      <4>2. Nth(K, a) < L + 1
        BY <1>1, <4>1
      <4>. QED BY <3>1, <3>3, <4>2
    <3>. QED BY <2>1, <3>2, <3>3
  <2>5. \A i \in Where(t, A) : \E a \in 1 .. c + 1 : g[a] = i
    <3> TAKE i \in Where(t, A)
    <3>1. i \in 1 .. L + 1 /\ t[i] \in A
      BY <1>6
    <3>2. CASE i \in 1 .. L
      <4>1. i \in K
        BY <1>2, <1>5, <3>1, <3>2
      <4>2. PICK a \in 1 .. c : Nth(K, a) = i
        BY <1>4, <4>1
      <4>3. a \in 1 .. c + 1 /\ a <= c
        BY <1>1
      <4>. QED BY <4>2, <4>3
    <3>3. CASE i = L + 1
      <4>1. c + 1 \in 1 .. c + 1 /\ ~(c + 1 <= c)
        BY <1>1
      <4>2. g[c + 1] = i
        BY <3>3, <4>1
      <4>. QED BY <4>1, <4>2
    <3>. QED BY <1>1, <3>1, <3>2, <3>3
  <2>6. /\ Len(Picked(t, A)) = c + 1
        /\ \A n \in 1 .. c + 1 : Picked(t, A)[n] = t[g[n]]
    <3> HIDE DEF g
    <3>1. c + 1 \in Nat
      BY <1>1
    <3>2. Enumerates(g, c + 1, Where(t, A))
      BY <2>3, <2>4, <2>5 DEF Enumerates
    <3>. QED BY <1>2, <3>1, <3>2, PickedUnique
  <2>7. /\ Append(Picked(seq, A), e) \in Seq(S) /\ Len(Append(Picked(seq, A), e)) = c + 1
        /\ Append(Picked(seq, A), e)[c + 1] = e
        /\ \A n \in 1 .. c : Append(Picked(seq, A), e)[n] = Picked(seq, A)[n]
    BY <1>1 DEF c
  <2>8. \A n \in 1 .. c + 1 : Picked(t, A)[n] = Append(Picked(seq, A), e)[n]
    <3> TAKE n \in 1 .. c + 1
    <3>1. CASE n \in 1 .. c
      <4>1. Nth(K, n) \in 1 .. L /\ n <= c
        BY <1>1, <1>5, <3>1
      <4>2. Picked(t, A)[n] = seq[Nth(K, n)]
        BY <1>2, <2>6, <4>1
      <4>. QED BY <1>1, <2>7, <3>1, <4>2
    <3>2. CASE n = c + 1 /\ ~(n <= c)
      BY <1>2, <2>6, <2>7, <3>2
    <3>. QED BY <2>1, <3>1, <3>2
  <2>9. Picked(t, A) = Append(Picked(seq, A), e)
    BY <1>3, <2>6, <2>7, <2>8, SequencesEqual
  <2>. QED BY <1>7, <2>9 DEF t
<1>8. CASE e \notin A
  <2>1. Where(t, A) = K
    <3>1. \A i \in Where(t, A) : i \in K
      <4> TAKE i \in Where(t, A)
      <4>1. i \in 1 .. L + 1 /\ t[i] \in A /\ i # L + 1
        BY <1>2, <1>6, <1>8
      <4>2. i \in 1 .. L
        BY <1>1, <4>1
      <4>. QED BY <1>2, <1>5, <4>1, <4>2
    <3>2. \A i \in K : i \in Where(t, A)
      <4> TAKE i \in K
      <4>1. i \in 1 .. L /\ seq[i] \in A
        BY <1>5
      <4>2. i \in 1 .. L + 1
        BY <1>1, <4>1
      <4>. QED BY <1>2, <1>6, <4>1, <4>2
    <3>. QED BY <3>1, <3>2
  <2>2. /\ Len(Picked(t, A)) = Cardinality(Where(t, A))
        /\ \A n \in 1 .. Len(Picked(t, A)) : Picked(t, A)[n] = t[Nth(Where(t, A), n)]
    BY <1>2, PickedTyped
  <2>3. Len(Picked(t, A)) = c
    BY <1>1, <2>1, <2>2
  <2>4. \A n \in 1 .. c : Picked(t, A)[n] = Picked(seq, A)[n]
    <3> TAKE n \in 1 .. c
    <3>1. Nth(K, n) \in 1 .. L
      BY <1>1, <1>5
    <3>. QED BY <1>1, <1>2, <2>1, <2>2, <2>3, <3>1
  <2>5. Picked(t, A) = Picked(seq, A)
    BY <1>1, <1>3, <2>3, <2>4, SequencesEqual DEF c
  <2>. QED BY <1>8, <2>5 DEF t
<1>. QED BY <1>7, <1>8

\* What is picked from a selection is picked from the whole.
LEMMA PickedTwice ==
  ASSUME NEW S, NEW seq \in Seq(S), NEW A, NEW B, B \subseteq A
  PROVE  Picked(Picked(seq, A), B) = Picked(seq, B)
<1> DEFINE K == Where(seq, A)
           t == Picked(seq, A)
           L == Where(t, B)
           m == Len(Picked(t, B))
           g == [n \in 1 .. m |-> Nth(K, Nth(L, n))]
<1>1. /\ K \in SUBSET (1 .. Len(seq)) /\ Len(seq) \in Nat
      /\ t \in Seq(S) /\ Len(t) = Cardinality(K) /\ Len(t) \in Nat
      /\ \A n \in 1 .. Len(t) : Nth(K, n) \in K /\ t[n] = seq[Nth(K, n)]
  BY PickedTyped
<1>2. /\ L \in SUBSET (1 .. Len(t))
      /\ Picked(t, B) \in Seq(S) /\ m = Cardinality(L) /\ m \in Nat
      /\ \A n \in 1 .. m : Nth(L, n) \in L /\ Picked(t, B)[n] = t[Nth(L, n)]
                           /\ Picked(t, B)[n] \in B
  BY <1>1, PickedTyped
<1>3. Picked(seq, B) \in Seq(S)
  BY PickedTyped
<1>4. /\ \A a, b \in 1 .. Len(t) : a < b => Nth(K, a) < Nth(K, b)
      /\ \A i \in K : \E a \in 1 .. Len(t) : Nth(K, a) = i
  BY <1>1, NthProperties
<1>5. /\ \A a, b \in 1 .. m : a < b => Nth(L, a) < Nth(L, b)
      /\ \A i \in L : \E a \in 1 .. m : Nth(L, a) = i
  <2> HIDE DEF L, t, m
  <2>1. \A a, b \in 1 .. Cardinality(L) : a < b => Nth(L, a) < Nth(L, b)
    BY <1>1, <1>2, NthProperties
  <2>2. \A i \in L : Place(L, i) \in 1 .. Cardinality(L) /\ Nth(L, Place(L, i)) = i
    BY <1>1, <1>2, NthProperties
  <2>. QED BY <1>2, <2>1, <2>2
<1>6. \A i : i \in Where(seq, B) <=> i \in 1 .. Len(seq) /\ seq[i] \in B
  BY DEF Where
<1>7. \A i : i \in L <=> i \in 1 .. Len(t) /\ t[i] \in B
  BY DEF Where
<1>8. \A i : i \in K <=> i \in 1 .. Len(seq) /\ seq[i] \in A
  BY DEF Where
<1> HIDE DEF K, t, L, m
<1>9. \A n \in 1 .. m : /\ Nth(L, n) \in 1 .. Len(t)
                        /\ Nth(K, Nth(L, n)) \in Where(seq, B)
                        /\ seq[Nth(K, Nth(L, n))] = Picked(t, B)[n]
  <2> TAKE n \in 1 .. m
  <2>1. Nth(L, n) \in 1 .. Len(t) /\ t[Nth(L, n)] \in B
    BY <1>2, <1>7
  <2>2. Nth(K, Nth(L, n)) \in K /\ seq[Nth(K, Nth(L, n))] = t[Nth(L, n)]
    BY <1>1, <2>1
  <2>3. Nth(K, Nth(L, n)) \in 1 .. Len(seq)
    BY <1>8, <2>2
  <2>. QED BY <1>2, <1>6, <2>1, <2>2, <2>3
<1>10. g \in [1 .. m -> Where(seq, B)]
  BY <1>9
<1>11. \A a, b \in 1 .. m : a < b => g[a] < g[b]
  BY <1>4, <1>5, <1>9
<1>12. \A i \in Where(seq, B) : \E a \in 1 .. m : g[a] = i
  <2> TAKE i \in Where(seq, B)
  <2>1. i \in 1 .. Len(seq) /\ seq[i] \in B
    BY <1>6
  <2>2. i \in K
    BY <1>8, <2>1
  <2>3. PICK p \in 1 .. Len(t) : Nth(K, p) = i
    BY <1>4, <2>2
  <2>4. p \in L
    BY <1>1, <1>7, <2>1, <2>3
  <2>5. PICK a \in 1 .. m : Nth(L, a) = p
    BY <1>5, <2>4
  <2>. QED BY <2>3, <2>5
<1>13. /\ Len(Picked(seq, B)) = m
       /\ \A n \in 1 .. m : Picked(seq, B)[n] = seq[g[n]]
  <2> HIDE DEF g
  <2>1. Enumerates(g, m, Where(seq, B))
    BY <1>10, <1>11, <1>12 DEF Enumerates
  <2>. QED BY <1>2, <2>1, PickedUnique
<1>14. \A n \in 1 .. m : Picked(t, B)[n] = Picked(seq, B)[n]
  BY <1>9, <1>13
<1>15. Picked(t, B) = Picked(seq, B)
  <2>1. Len(Picked(t, B)) = m
    BY DEF m
  <2>. QED BY <1>2, <1>3, <1>13, <1>14, <2>1, SequencesEqual
<1>. QED BY <1>15 DEF t

\* Picking the rows from some place on.
LEMMA PickedEnd ==
  ASSUME NEW S, NEW seq \in Seq(S), NEW A, NEW f \in 1 .. Len(seq),
         Where(seq, A) = f .. Len(seq)
  PROVE  /\ Len(Picked(seq, A)) = Len(seq) - f + 1
         /\ \A n \in 1 .. Len(seq) - f + 1 : Picked(seq, A)[n] = seq[f + n - 1]
<1> DEFINE m == Len(seq) - f + 1
           g == [n \in 1 .. m |-> f + n - 1]
<1>1. Len(seq) \in Nat /\ f \in Nat /\ m \in Nat
  OBVIOUS
<1>2. \A n \in 1 .. m : f + n - 1 \in f .. Len(seq)
  BY <1>1
<1>3. g \in [1 .. m -> Where(seq, A)]
  BY <1>2
<1>4. \A a, b \in 1 .. m : a < b => g[a] < g[b]
  BY <1>1
<1>5. \A i \in Where(seq, A) : \E a \in 1 .. m : g[a] = i
  <2> TAKE i \in Where(seq, A)
  <2>1. i - f + 1 \in 1 .. m /\ f + (i - f + 1) - 1 = i
    BY <1>1
  <2>. QED BY <2>1
<1> HIDE DEF m
<1>6. Len(Picked(seq, A)) = m /\ \A n \in 1 .. m : Picked(seq, A)[n] = seq[g[n]]
  <2> HIDE DEF g
  <2>1. Enumerates(g, m, Where(seq, A))
    BY <1>3, <1>4, <1>5 DEF Enumerates
  <2>. QED BY <1>1, <2>1, PickedUnique
<1>. QED BY <1>6 DEF m

-----------------------------------------------------------------------------
(* Largest and smallest members, as the code's max and min take them.      *)

LEMMA SmallestMember ==
  ASSUME NEW S \in SUBSET Nat, S # {}
  PROVE  Min(S) \in S /\ \A y \in S : Min(S) <= y
<1> DEFINE R == {ss \in Nat \X Nat : ss[1] < ss[2]}
<1>1. IsWellFoundedOn(R, Nat)
  <2>1. OpToRel(<, Nat) = R
    BY DEF OpToRel
  <2>. QED BY <2>1, NatLessThanWellFounded
<1> HIDE DEF R
<1>2. PICK x \in S : \A y \in S : ~(<<y, x>> \in R)
  BY <1>1, WFMin
<1>3. ASSUME NEW y \in S PROVE x <= y
  <2>1. x \in Nat /\ y \in Nat
    OBVIOUS
  <2>2. ~(y < x)
    BY <1>2, <2>1 DEF R
  <2>. QED BY <2>1, <2>2
<1>4. \E z \in S : \A y \in S : z =< y
  BY <1>3
<1>. QED BY <1>4 DEF Min

LEMMA LargestMember ==
  ASSUME NEW n \in Nat, NEW S \in SUBSET (0 .. n), S # {}
  PROVE  Max(S) \in S /\ \A y \in S : y <= Max(S)
<1> DEFINE T == {n - x : x \in S}
<1>1. T \in SUBSET Nat /\ T # {}
  <2>1. \A x \in S : x \in Nat /\ n - x \in Nat
    OBVIOUS
  <2>2. T \subseteq Nat
    BY <2>1
  <2>3. PICK x \in S : TRUE
    OBVIOUS
  <2>4. n - x \in T
    OBVIOUS
  <2>. QED BY <2>2, <2>4
<1> DEFINE t == Min(T)
<1>2. t \in T /\ \A u \in T : t <= u
  BY <1>1, SmallestMember
<1> HIDE DEF t
<1>3. PICK x \in S : t = n - x
  BY <1>2
<1>4. \A y \in S : n - x <= n - y /\ x \in 0 .. n /\ y \in 0 .. n
  BY <1>2, <1>3
<1>5. \A y \in S : x >= y
  BY <1>4
<1>6. Max(S) \in S /\ \A y \in S : Max(S) >= y
  BY <1>5 DEF Max
<1>7. Max(S) \in 0 .. n /\ \A y \in S : y \in 0 .. n
  BY <1>6
<1>. QED BY <1>6, <1>7

-----------------------------------------------------------------------------
(* The prompt.                                                             *)

\* In a sequence of messages calls and results go together.
WellPaired(msgs) ==
  \A n \in 1 .. Len(msgs) :
    /\ msgs[n].kind = "call" => is_paired(msgs, n)
    /\ msgs[n].kind = "result" => is_paired(msgs, n - 1)

LEMMA ShownTyped ==
  ASSUME NEW rows \in Seq(Row)
  PROVE  /\ [i \in 1 .. Len(rows) |-> Shown(rows, i)] \in Seq(Row)
         /\ Len([i \in 1 .. Len(rows) |-> Shown(rows, i)]) = Len(rows)
         /\ \A i \in 1 .. Len(rows) : [k \in 1 .. Len(rows) |-> Shown(rows, k)][i] = Shown(rows, i)
<1>1. Len(rows) \in Nat /\ \A i \in 1 .. Len(rows) : rows[i] \in Row
  OBVIOUS
<1>2. ASSUME NEW i \in 1 .. Len(rows) PROVE Shown(rows, i) \in Row
  BY <1>1 DEF Shown, Row
<1>3. [i \in 1 .. Len(rows) |-> Shown(rows, i)] \in [1 .. Len(rows) -> Row]
  BY <1>2
<1>. QED BY <1>1, <1>3

\* Every kept row is shown, in its place.
LEMMA PairedProperties ==
  ASSUME NEW rows \in Seq(Row)
  PROVE  /\ Kept(rows) \in SUBSET (1 .. Len(rows))
         /\ paired(rows) \in Seq(Row)
         /\ Len(paired(rows)) = Cardinality(Kept(rows))
         /\ \A n \in 1 .. Len(paired(rows)) :
              paired(rows)[n] = Shown(rows, Nth(Kept(rows), n))
<1> DEFINE K == Kept(rows)
           shown == [i \in 1 .. Len(rows) |-> Shown(rows, i)]
<1>1. K \in SUBSET (1 .. Len(rows)) /\ Len(rows) \in Nat
  BY DEF Kept
<1>2. /\ shown \in Seq(Row) /\ Len(shown) = Len(rows)
      /\ \A i \in 1 .. Len(rows) : shown[i] = Shown(rows, i)
  BY ShownTyped
<1>3. \A n \in 1 .. Cardinality(K) : Nth(K, n) \in 1 .. Len(rows)
  BY <1>1, NthProperties
<1> HIDE DEF K, shown
<1>4. /\ Selected(shown, K) \in Seq(Row)
      /\ Len(Selected(shown, K)) = Cardinality(K)
      /\ \A n \in 1 .. Cardinality(K) : Selected(shown, K)[n] = shown[Nth(K, n)]
  BY <1>1, <1>2, SelectedTyped
<1>5. paired(rows) = Selected(shown, K)
  BY DEF paired, shown, K
<1>6. \A n \in 1 .. Cardinality(K) : Selected(shown, K)[n] = Shown(rows, Nth(K, n))
  BY <1>2, <1>3, <1>4
<1>. QED BY <1>1, <1>4, <1>5, <1>6 DEF K

LEMMA PairedIsWellPaired ==
  ASSUME NEW rows \in Seq(Row)
  PROVE  WellPaired(paired(rows))
<1> DEFINE K == Kept(rows)
           msgs == paired(rows)
<1>1. K \in SUBSET (1 .. Len(rows)) /\ Len(rows) \in Nat
  BY PairedProperties
<1>2. /\ msgs \in Seq(Row) /\ Len(msgs) = Cardinality(K) /\ Len(msgs) \in Nat
      /\ \A n \in 1 .. Len(msgs) : msgs[n] = Shown(rows, Nth(K, n))
  BY PairedProperties
<1>3. \A i \in 1 .. Len(rows) : rows[i] \in Row
  OBVIOUS
<1> HIDE DEF K, msgs
\* a pair of the rows stays together
<1>4. ASSUME NEW i \in 1 .. Len(rows), is_paired(rows, i)
      PROVE  /\ i \in K /\ i + 1 \in K
             /\ Place(K, i) \in 1 .. Len(msgs) - 1 /\ Place(K, i + 1) = Place(K, i) + 1
             /\ is_paired(msgs, Place(K, i))
  <2>1. i \in Nat /\ i + 1 \in 1 .. Len(rows) /\ (i + 1) - 1 = i
    BY <1>1, <1>4 DEF is_paired
  <2>2. i \in K /\ i + 1 \in K
    BY <1>4, <2>1 DEF K, Kept, is_paired
  <2>3. Place(K, i + 1) = Place(K, i) + 1
    <3>1. \A j \in K : j \in Int
      BY <1>1
    <3>2. (\A j \in K : j <= i \/ i + 1 <= j) /\ i < i + 1
      BY <2>1, <3>1
    <3>. QED BY <1>1, <2>2, <3>2, NthNext
  <2>4. /\ Place(K, i) \in 1 .. Len(msgs) /\ Nth(K, Place(K, i)) = i
        /\ Place(K, i + 1) \in 1 .. Len(msgs) /\ Nth(K, Place(K, i + 1)) = i + 1
    BY <1>1, <1>2, <2>2, NthProperties
  <2>5. msgs[Place(K, i)] = rows[i] /\ msgs[Place(K, i + 1)] = rows[i + 1]
    <3>1. Shown(rows, i) = rows[i]
      BY <1>4 DEF Shown
    <3>2. rows[i + 1].kind # "call"
      BY <1>4 DEF is_paired
    <3>3. Shown(rows, i + 1) = rows[i + 1]
      BY <3>2 DEF Shown
    <3>. QED BY <1>2, <2>4, <3>1, <3>3
  <2>6. Place(K, i) \in 1 .. Len(msgs) - 1
    BY <1>2, <2>3, <2>4
  <2>7. is_paired(msgs, Place(K, i))
    BY <1>4, <2>3, <2>5, <2>6 DEF is_paired
  <2>. QED BY <2>2, <2>3, <2>6, <2>7
<1>5. SUFFICES ASSUME NEW n \in 1 .. Len(msgs)
               PROVE  /\ msgs[n].kind = "call" => is_paired(msgs, n)
                      /\ msgs[n].kind = "result" => is_paired(msgs, n - 1)
  BY DEF WellPaired, msgs
<1>6. PICK i \in K : i = Nth(K, n) /\ Place(K, i) = n
  BY <1>1, <1>2, NthProperties
<1>7. i \in 1 .. Len(rows) /\ rows[i] \in Row /\ msgs[n] = Shown(rows, i)
  BY <1>1, <1>2, <1>3, <1>6
<1>8. CASE msgs[n].kind = "call"
  <2>1. rows[i].kind = "call" /\ is_paired(rows, i)
    BY <1>7, <1>8 DEF Shown, Row
  <2>. QED BY <1>4, <1>6, <1>7, <1>8, <2>1
<1>9. CASE msgs[n].kind = "result"
  <2>1. rows[i].kind = "result"
    BY <1>7, <1>9 DEF Shown, Row
  <2>2. is_paired(rows, i - 1)
    BY <1>6, <2>1 DEF K, Kept
  <2>3. i - 1 \in 1 .. Len(rows) /\ (i - 1) + 1 = i
    BY <1>1, <1>7, <2>2 DEF is_paired
  <2>4. Place(K, i) = Place(K, i - 1) + 1 /\ is_paired(msgs, Place(K, i - 1))
        /\ Place(K, i - 1) \in 1 .. Len(msgs) - 1
    BY <1>4, <2>2, <2>3
  <2>5. Place(K, i - 1) = n - 1
    BY <1>6, <2>4
  <2>. QED BY <1>9, <2>4, <2>5
<1>. QED BY <1>8, <1>9

-----------------------------------------------------------------------------
\* The first message that may be dropped and the last that must not.
LEMMA CutsProperties ==
  ASSUME NEW msgs \in Seq(Row), WellPaired(msgs)
  PROVE  /\ 0 \in Cuts(msgs) /\ Cuts(msgs) \in SUBSET (0 .. Len(msgs))
         /\ \A n \in Cuts(msgs) :
              /\ n < Len(msgs) => msgs[n + 1].kind # "result"
              /\ \A i \in 1 .. Len(msgs) :
                   (msgs[i].kind = "user" /\ \A k \in i + 1 .. Len(msgs) : msgs[k].kind # "user")
                     => n < i
<1> DEFINE Users == {i \in 1 .. Len(msgs) : msgs[i].kind = "user"}
           drop_limit == IF Users = {} THEN 0 ELSE Max(Users) - 1
<1>1. Len(msgs) \in Nat
  OBVIOUS
<1>2. Cuts(msgs) = {n \in 0 .. drop_limit : n < Len(msgs) => msgs[n + 1].kind # "result"}
  BY DEF Cuts
<1>3. Users # {} => Max(Users) \in Users /\ \A u \in Users : u <= Max(Users)
  <2>1. Users \in SUBSET (0 .. Len(msgs))
    BY <1>1
  <2> HIDE DEF Users
  <2>. QED BY <1>1, <2>1, LargestMember
<1>4. drop_limit \in 0 .. Len(msgs)
  BY <1>1, <1>3
<1>5. 0 < Len(msgs) => msgs[1].kind # "result"
  <2> SUFFICES ASSUME 0 < Len(msgs), msgs[1].kind = "result" PROVE FALSE
    OBVIOUS
  <2>1. is_paired(msgs, 1 - 1)
    BY <1>1 DEF WellPaired
  <2>. QED BY <2>1 DEF is_paired
<1>6. 0 \in Cuts(msgs) /\ Cuts(msgs) \in SUBSET (0 .. Len(msgs))
  <2> HIDE DEF drop_limit
  <2>1. 0 \in 0 .. drop_limit /\ 0 + 1 = 1
    BY <1>4
  <2>. QED BY <1>1, <1>2, <1>4, <1>5, <2>1
<1>7. ASSUME NEW n \in Cuts(msgs), NEW i \in 1 .. Len(msgs), msgs[i].kind = "user",
             \A k \in i + 1 .. Len(msgs) : msgs[k].kind # "user"
      PROVE  n < i
  <2>1. i \in Users
    BY <1>7
  <2>2. Max(Users) \in Users /\ i <= Max(Users)
    BY <1>3, <2>1
  <2>3. Max(Users) = i
    BY <1>1, <1>7, <2>2
  <2>4. drop_limit = i - 1
    BY <2>1, <2>3
  <2> HIDE DEF drop_limit
  <2>. QED BY <1>1, <1>2, <2>4
<1>8. \A n \in Cuts(msgs) : n < Len(msgs) => msgs[n + 1].kind # "result"
  BY <1>2
<1>. QED BY <1>6, <1>7, <1>8

\* What is sent is the end of the paired messages, from a place where nothing
\* that belongs together is cut.
LEMMA PromptIsAnEnd ==
  ASSUME NEW rows \in Seq(Row)
  PROVE  \E start \in Cuts(paired(rows)) :
           _to_llm_messages(rows) = SubSeq(paired(rows), start + 1, Len(paired(rows)))
<1> DEFINE msgs == paired(rows)
           fitting == {n \in Cuts(msgs) : Len(msgs) - n <= MAX_CONTEXT_CHARS}
           start == IF fitting = {} THEN Max(Cuts(msgs)) ELSE Min(fitting)
<1>1. msgs \in Seq(Row) /\ WellPaired(msgs) /\ Len(msgs) \in Nat
  BY PairedProperties, PairedIsWellPaired
<1>2. _to_llm_messages(rows) = SubSeq(msgs, start + 1, Len(msgs))
  BY DEF _to_llm_messages
<1>3. start \in Cuts(msgs)
  <2>1. Cuts(msgs) \in SUBSET (0 .. Len(msgs)) /\ Cuts(msgs) # {}
    <3> HIDE DEF msgs
    <3>. QED BY <1>1, CutsProperties
  <2>2. Max(Cuts(msgs)) \in Cuts(msgs)
    <3> HIDE DEF msgs
    <3>. QED BY <1>1, <2>1, LargestMember
  <2>3. fitting \in SUBSET Nat /\ fitting \subseteq Cuts(msgs)
    BY <2>1
  <2>4. fitting # {} => Min(fitting) \in Cuts(msgs)
    <3> HIDE DEF fitting
    <3>. QED BY <2>3, SmallestMember
  <2>. QED BY <2>2, <2>4
<1> HIDE DEF start
<1>. QED BY <1>2, <1>3

LEMMA PromptPaired ==
  ASSUME NEW rows \in Seq(Row)
  PROVE  WellPaired(_to_llm_messages(rows))
<1> DEFINE msgs == paired(rows)
<1>1. msgs \in Seq(Row) /\ WellPaired(msgs) /\ Len(msgs) \in Nat
  BY PairedProperties, PairedIsWellPaired
<1>2. PICK start \in Cuts(msgs) : _to_llm_messages(rows) = SubSeq(msgs, start + 1, Len(msgs))
  BY PromptIsAnEnd
<1> HIDE DEF msgs
<1>3. start \in 0 .. Len(msgs) /\ (start < Len(msgs) => msgs[start + 1].kind # "result")
  BY <1>1, CutsProperties
<1>4. PICK P : P = SubSeq(msgs, start + 1, Len(msgs))
  OBVIOUS
<1>5. /\ Len(P) = Len(msgs) - start
      /\ \A n \in 1 .. Len(P) : P[n] = msgs[start + n]
  BY <1>1, <1>3, <1>4
<1>6. ASSUME NEW n \in 1 .. Len(P) - 1, is_paired(msgs, start + n) PROVE is_paired(P, n)
  <2>1. P[n] = msgs[start + n] /\ P[n + 1] = msgs[(start + n) + 1]
    BY <1>1, <1>3, <1>5
  <2>. QED BY <1>6, <2>1 DEF is_paired
<1>7. ASSUME NEW n \in 1 .. Len(P)
      PROVE  /\ P[n].kind = "call" => is_paired(P, n)
             /\ P[n].kind = "result" => is_paired(P, n - 1)
  <2>1. start + n \in 1 .. Len(msgs) /\ P[n] = msgs[start + n]
    BY <1>1, <1>3, <1>5
  <2>2. CASE P[n].kind = "call"
    <3>1. is_paired(msgs, start + n)
      BY <1>1, <2>1, <2>2 DEF WellPaired
    <3>2. n \in 1 .. Len(P) - 1
      BY <1>1, <1>3, <1>5, <3>1 DEF is_paired
    <3>. QED BY <1>6, <2>2, <3>1, <3>2
  <2>3. CASE P[n].kind = "result"
    <3>1. is_paired(msgs, (start + n) - 1)
      BY <1>1, <2>1, <2>3 DEF WellPaired
    <3>2. n # 1
      BY <1>1, <1>3, <2>1, <2>3
    <3>3. n - 1 \in 1 .. Len(P) - 1 /\ (start + n) - 1 = start + (n - 1)
      BY <1>1, <1>3, <1>5, <3>2
    <3>. QED BY <1>6, <2>3, <3>1, <3>3
  <2>. QED BY <2>2, <2>3
<1>. QED BY <1>2, <1>4, <1>7 DEF WellPaired
-----------------------------------------------------------------------------
(* The inductive invariant.                                                *)

\* The rows of a request, in their order, and the results that have shown the
\* model a new draft.
OwnBy(r) == {row \in Row : row.by = r}
OwnRows(r) == Picked(log, OwnBy(r))

Drafts == {row \in Row : /\ row.kind = "result" /\ row.fresh
                         /\ row.call.tool = "create_case_draft"}

\* Where the loop is when a call is persisted and its result is not.
Open == {"tool", "search", "vision"}

\* The rows of a turn: its user's message first, and after it calls with their
\* results, but for the one that is open; its text comes last.
TurnRows(s, r, t) ==
  /\ Len(s) >= 1 /\ s[1] = Text(r, "user")
  /\ \A n \in 2 .. Len(s) :
       /\ s[n].kind # "user"
       /\ s[n].kind = "text" => t.at = "reply"
       /\ s[n].kind = "call" => is_paired(s, n) \/ (t.at \in Open /\ n = Len(s))
       /\ s[n].kind = "result" => is_paired(s, n - 1)
  /\ t.at \in Open => s[Len(s)].kind = "call" /\ s[Len(s)].id = t.ran

OwnOK(r) ==
  /\ pc[r] = "idle" => OwnRows(r) = <<>>
  /\ pc[r] = "waiting" => OwnRows(r) = <<Text(r, "user")>>
  /\ pc[r] = "turn" => TurnRows(OwnRows(r), r, turn)

\* Away from the model a call is at hand, and the one the vision model looks
\* at is of the tool that asks it.
QueueOK ==
  /\ lock = NoRequest => turn = NoTurn
  /\ turn.at \in {"call", "tool", "vision"} => turn.queue # <<>>
  /\ turn.at = "vision" => Head(turn.queue).tool = "validate_uploaded_document"

\* The last of these results is the draft's.
DraftOK ==
  LET shown == Picked(log, Drafts)
  IN  ~ lost => IF Len(shown) = 0 THEN draft = NoDraft
                ELSE draft.mark = shown[Len(shown)].call.mark

IInv == TypeOK /\ QueueOK /\ DraftOK /\ \A r \in Request : OwnOK(r)

TurnState ==
  [at : {"model", "call", "tool", "chain", "search", "vision", "reply"},
   iteration : 0 .. MAX_TOOL_ITERATIONS, queue : Seq(Call),
   seen : SUBSET Call, ran : Nat, tokens : Nat]

-----------------------------------------------------------------------------
(* Rows and the steps that add one.                                        *)

LEMMA RowsTyped ==
  ASSUME NEW r \in Request \cup {NoRequest}, NEW n \in Nat, NEW c \in Call, NEW b \in BOOLEAN
  PROVE  /\ Text(r, "user") \in Row /\ Text(r, "text") \in Row
         /\ CallRow(r, n, c, b) \in Row /\ ResultRow(r, n, c, b) \in Row
<1>1. NoCall \in Call
  BY DEF NoCall, Call
<1>2. 0 \in Nat
  OBVIOUS
<1>3. Text(r, "user") \in Row /\ Text(r, "text") \in Row
  BY <1>1, <1>2 DEF Text, Row
<1>4. CallRow(r, n, c, b) \in Row
  BY DEF CallRow, Row
<1>5. ResultRow(r, n, c, b) \in Row
  BY DEF ResultRow, Row
<1>. QED BY <1>3, <1>4, <1>5

LEMMA OwnTyped ==
  ASSUME log \in Seq(Row), NEW r
  PROVE  OwnRows(r) \in Seq(Row) /\ \A n \in 1 .. Len(OwnRows(r)) : OwnRows(r)[n] \in OwnBy(r)
BY PickedTyped DEF OwnRows

LEMMA OwnAppend ==
  ASSUME log \in Seq(Row), NEW e \in Row, log' = Append(log, e), NEW r
  PROVE  OwnRows(r)' = IF e.by = r THEN Append(OwnRows(r), e) ELSE OwnRows(r)
<1>1. e \in OwnBy(r) <=> e.by = r
  BY DEF OwnBy
<1>2. Picked(Append(log, e), OwnBy(r)) =
        IF e \in OwnBy(r) THEN Append(Picked(log, OwnBy(r)), e) ELSE Picked(log, OwnBy(r))
  BY PickedAppend
<1>3. OwnRows(r)' = Picked(Append(log, e), OwnBy(r))
  BY DEF OwnRows
<1>. QED BY <1>1, <1>2, <1>3 DEF OwnRows

\* A call is followed by its result, or is the last row.
LEMMA PairedAppend ==
  ASSUME NEW s \in Seq(Row), NEW e \in Row, NEW n \in Int
  PROVE  /\ is_paired(s, n) => is_paired(Append(s, e), n)
         /\ Len(Append(s, e)) = Len(s) + 1 /\ Append(s, e)[Len(s) + 1] = e
         /\ \A i \in 1 .. Len(s) : Append(s, e)[i] = s[i]
         /\ Len(s) \in Nat
<1>1. /\ Len(Append(s, e)) = Len(s) + 1 /\ Append(s, e)[Len(s) + 1] = e
      /\ \A i \in 1 .. Len(s) : Append(s, e)[i] = s[i]
      /\ Len(s) \in Nat
  OBVIOUS
<1>2. ASSUME is_paired(s, n) PROVE is_paired(Append(s, e), n)
  <2>1. n \in 1 .. Len(s) /\ n + 1 \in 1 .. Len(s) /\ n \in 1 .. Len(s) + 1 - 1
    BY <1>1, <1>2 DEF is_paired
  <2>2. Append(s, e)[n] = s[n] /\ Append(s, e)[n + 1] = s[n + 1]
    BY <1>1, <2>1
  <2>. QED BY <1>1, <1>2, <2>1, <2>2 DEF is_paired
<1>. QED BY <1>1, <1>2

LEMMA TurnRowsCall ==
  ASSUME NEW s \in Seq(Row), NEW r, NEW t, NEW u, NEW e \in Row, TurnRows(s, r, t),
         t.at \notin Open, t.at # "reply",
         e.kind = "call", e.id = u.ran, u.at \in Open
  PROVE  TurnRows(Append(s, e), r, u)
<1> DEFINE q == Append(s, e)
           L == Len(s)
<1>1. /\ L \in Nat /\ Len(q) = L + 1 /\ q[L + 1] = e /\ \A i \in 1 .. L : q[i] = s[i]
      /\ \A n \in Int : is_paired(s, n) => is_paired(q, n)
  BY PairedAppend
<1>2. L >= 1 /\ s[1] = Text(r, "user")
  BY DEF TurnRows
<1>3. \A n \in 2 .. L :
        /\ s[n].kind # "user" /\ s[n].kind # "text"
        /\ s[n].kind = "call" => is_paired(s, n)
        /\ s[n].kind = "result" => is_paired(s, n - 1)
  BY DEF TurnRows
<1> HIDE DEF q, L
<1>4. 1 \in 1 .. L /\ q[1] = Text(r, "user") /\ Len(q) >= 1
  BY <1>1, <1>2
<1>5. ASSUME NEW n \in 2 .. Len(q)
      PROVE  /\ q[n].kind # "user"
             /\ q[n].kind = "text" => u.at = "reply"
             /\ q[n].kind = "call" => is_paired(q, n) \/ (u.at \in Open /\ n = Len(q))
             /\ q[n].kind = "result" => is_paired(q, n - 1)
  <2>1. CASE n \in 2 .. L
    <3>1. n \in 1 .. L /\ n \in Int /\ n - 1 \in Int
      BY <2>1
    <3>. QED BY <1>1, <1>3, <2>1, <3>1
  <2>2. CASE n = L + 1
    BY <1>1, <2>2
  <2>. QED BY <1>1, <2>1, <2>2
<1>6. q[Len(q)].kind = "call" /\ q[Len(q)].id = u.ran
  BY <1>1
<1>7. TurnRows(q, r, u)
  BY <1>4, <1>5, <1>6 DEF TurnRows
<1>. QED BY <1>7 DEF q

LEMMA TurnRowsResult ==
  ASSUME NEW s \in Seq(Row), NEW r, NEW t, NEW u, NEW e \in Row, TurnRows(s, r, t),
         \A n \in 1 .. Len(s) : s[n].by = r,
         t.at \in Open, e.kind = "result", e.by = r, e.id = t.ran, u.at \notin Open
  PROVE  TurnRows(Append(s, e), r, u)
<1> DEFINE q == Append(s, e)
           L == Len(s)
<1>1. /\ L \in Nat /\ Len(q) = L + 1 /\ q[L + 1] = e /\ \A i \in 1 .. L : q[i] = s[i]
      /\ \A n \in Int : is_paired(s, n) => is_paired(q, n)
  BY PairedAppend
<1>2. L >= 1 /\ s[1] = Text(r, "user") /\ s[L].kind = "call" /\ s[L].id = t.ran
  BY DEF TurnRows
<1>3. \A n \in 2 .. L :
        /\ s[n].kind # "user"
        /\ s[n].kind = "text" => t.at = "reply"
        /\ s[n].kind = "call" => is_paired(s, n) \/ n = L
        /\ s[n].kind = "result" => is_paired(s, n - 1)
  BY DEF TurnRows
<1>4. t.at # "reply"
  BY DEF Open
<1>5. s[L].by = r
  BY <1>1, <1>2
<1> HIDE DEF q, L
<1>6. 1 \in 1 .. L /\ q[1] = Text(r, "user") /\ Len(q) >= 1
  BY <1>1, <1>2
<1>7. is_paired(q, L)
  <2>1. L \in 1 .. L /\ L \in 1 .. (L + 1) - 1
    BY <1>1, <1>2
  <2>2. q[L] = s[L] /\ q[L + 1] = e
    BY <1>1, <2>1
  <2>. QED BY <1>1, <1>2, <1>5, <2>1, <2>2 DEF is_paired
<1>8. ASSUME NEW n \in 2 .. Len(q)
      PROVE  /\ q[n].kind # "user"
             /\ q[n].kind = "text" => u.at = "reply"
             /\ q[n].kind = "call" => is_paired(q, n) \/ (u.at \in Open /\ n = Len(q))
             /\ q[n].kind = "result" => is_paired(q, n - 1)
  <2>1. CASE n \in 2 .. L
    <3>1. n \in 1 .. L /\ n \in Int /\ n - 1 \in Int
      BY <2>1
    <3>. QED BY <1>1, <1>3, <1>4, <1>7, <2>1, <3>1
  <2>2. CASE n = L + 1
    <3>1. n - 1 = L
      BY <1>1, <2>2
    <3>. QED BY <1>1, <1>7, <2>2, <3>1
  <2>. QED BY <1>1, <2>1, <2>2
<1>9. TurnRows(q, r, u)
  BY <1>6, <1>8 DEF TurnRows
<1>. QED BY <1>9 DEF q

LEMMA TurnRowsText ==
  ASSUME NEW s \in Seq(Row), NEW r, NEW t, NEW u, NEW e \in Row, TurnRows(s, r, t),
         t.at \notin Open, e.kind = "text", u.at = "reply"
  PROVE  TurnRows(Append(s, e), r, u)
<1> DEFINE q == Append(s, e)
           L == Len(s)
<1>1. /\ L \in Nat /\ Len(q) = L + 1 /\ q[L + 1] = e /\ \A i \in 1 .. L : q[i] = s[i]
      /\ \A n \in Int : is_paired(s, n) => is_paired(q, n)
  BY PairedAppend
<1>2. L >= 1 /\ s[1] = Text(r, "user")
  BY DEF TurnRows
<1>3. \A n \in 2 .. L :
        /\ s[n].kind # "user"
        /\ s[n].kind = "call" => is_paired(s, n)
        /\ s[n].kind = "result" => is_paired(s, n - 1)
  BY DEF TurnRows
<1> HIDE DEF q, L
<1>4. 1 \in 1 .. L /\ q[1] = Text(r, "user") /\ Len(q) >= 1 /\ u.at \notin Open
  BY <1>1, <1>2 DEF Open
<1>5. ASSUME NEW n \in 2 .. Len(q)
      PROVE  /\ q[n].kind # "user"
             /\ q[n].kind = "text" => u.at = "reply"
             /\ q[n].kind = "call" => is_paired(q, n) \/ (u.at \in Open /\ n = Len(q))
             /\ q[n].kind = "result" => is_paired(q, n - 1)
  <2>1. CASE n \in 2 .. L
    <3>1. n \in 1 .. L /\ n \in Int /\ n - 1 \in Int
      BY <2>1
    <3>. QED BY <1>1, <1>3, <2>1, <3>1
  <2>2. CASE n = L + 1
    BY <1>1, <2>2
  <2>. QED BY <1>1, <2>1, <2>2
<1>6. TurnRows(q, r, u)
  BY <1>4, <1>5 DEF TurnRows
<1>. QED BY <1>6 DEF q

LEMMA TurnRowsSame ==
  ASSUME NEW s, NEW r, NEW t, NEW u, TurnRows(s, r, t),
         t.at \in Open <=> u.at \in Open, t.at \in Open => u.ran = t.ran,
         t.at # "reply"
  PROVE  TurnRows(s, r, u)
BY DEF TurnRows

LEMMA TurnRowsBegin ==
  ASSUME NEW r \in Request
  PROVE  TurnRows(<<Text(r, "user")>>, r, NoTurn)
<1>1. Len(<<Text(r, "user")>>) = 1 /\ <<Text(r, "user")>>[1] = Text(r, "user")
  OBVIOUS
<1>2. NoTurn.at \notin Open
  BY DEF NoTurn, Open
<1>. QED BY <1>1, <1>2 DEF TurnRows
-----------------------------------------------------------------------------
(* Steps of the loop.                                                      *)

\* A step of a turn adds at most one row, of its own request.
LEMMA OwnStep ==
  ASSUME IInv, lock \in Request, UNCHANGED <<pc, lock>>,
         \/ log' = log /\ TurnRows(OwnRows(lock), lock, turn')
         \/ \E e \in Row : /\ e.by = lock /\ log' = Append(log, e)
                           /\ TurnRows(Append(OwnRows(lock), e), lock, turn')
  PROVE  \A r \in Request : OwnOK(r)'
<1>1. log \in Seq(Row) /\ \A r \in Request : pc[r] = "turn" <=> lock = r
  BY DEF IInv, TypeOK
<1>2. SUFFICES ASSUME NEW r \in Request PROVE OwnOK(r)'
  OBVIOUS
<1>3. OwnOK(r) /\ OwnOK(lock) /\ pc' = pc
  BY DEF IInv
<1>4. CASE log' = log /\ TurnRows(OwnRows(lock), lock, turn')
  <2>1. OwnRows(r)' = OwnRows(r)
    BY <1>4 DEF OwnRows
  <2>. QED BY <1>1, <1>3, <1>4, <2>1 DEF OwnOK
<1>5. ASSUME NEW e \in Row, e.by = lock, log' = Append(log, e),
             TurnRows(Append(OwnRows(lock), e), lock, turn')
      PROVE  OwnOK(r)'
  <2>1. OwnRows(r)' = IF e.by = r THEN Append(OwnRows(r), e) ELSE OwnRows(r)
    BY <1>1, <1>5, OwnAppend
  <2>2. CASE r = lock
    <3>1. pc'[r] = "turn" /\ TurnRows(OwnRows(r)', r, turn')
      BY <1>1, <1>3, <1>5, <2>1, <2>2
    <3>. QED BY <3>1 DEF OwnOK
  <2>3. CASE r # lock
    <3>1. pc'[r] # "turn" /\ OwnRows(r)' = OwnRows(r)
      BY <1>1, <1>3, <1>5, <2>1, <2>3
    <3>. QED BY <1>3, <3>1 DEF OwnOK
  <2>. QED BY <2>2, <2>3
<1>. QED BY <1>4, <1>5

\* A step that changes neither what was shown of the draft nor its mark.
LEMMA DraftKept ==
  ASSUME log \in Seq(Row), DraftOK, lost' = lost,
         log' = log \/ \E e \in Row : e \notin Drafts /\ log' = Append(log, e),
         draft'.mark = draft.mark, draft = NoDraft => draft' = NoDraft
  PROVE  DraftOK'
<1>1. Picked(log', Drafts) = Picked(log, Drafts)
  <2>1. CASE log' = log
    BY <2>1
  <2>2. ASSUME NEW e \in Row, e \notin Drafts, log' = Append(log, e)
        PROVE  Picked(log', Drafts) = Picked(log, Drafts)
    <3>1. Picked(Append(log, e), Drafts) =
            IF e \in Drafts THEN Append(Picked(log, Drafts), e) ELSE Picked(log, Drafts)
      BY PickedAppend
    <3>. QED BY <2>2, <3>1
  <2>. QED BY <2>1, <2>2
<1>. QED BY <1>1 DEF DraftOK

\* What a step of the loop has to show.
LEMMA LoopStep ==
  ASSUME IInv, lock \in Request, frame,
         \/ log' = log /\ TurnRows(OwnRows(lock), lock, turn')
         \/ \E e \in Row : /\ e.by = lock /\ log' = Append(log, e)
                           /\ TurnRows(Append(OwnRows(lock), e), lock, turn'),
         turn' \in TurnState, calls' \in Nat,
         turn'.at \in {"call", "tool", "vision"} => turn'.queue # <<>>,
         turn'.at = "vision" => Head(turn'.queue).tool = "validate_uploaded_document",
         upload' \in [status : {"none", "uploaded", "validated", "rejected", "cancelled"},
                      file : BOOLEAN],
         draft' \in [mark : Mark \cup {Blank},
                     status : {"none", "collecting", "validated", "awaiting_payment", "paid"}],
         DraftOK', lost' \in BOOLEAN
  PROVE  IInv'
<1>1. TypeOK /\ NoRequest \notin Request
  BY AgentAssumption DEF IInv
<1>2. UNCHANGED <<session, pc, view, lock, touches, aborts>>
  BY DEF frame
<1>3. \A r \in Request : OwnOK(r)'
  BY <1>2, OwnStep
<1>4. log' \in Seq(Row)
  <2>1. log \in Seq(Row)
    BY <1>1 DEF TypeOK
  <2>2. \A e \in Row : Append(log, e) \in Seq(Row)
    BY <2>1
  <2>. QED BY <2>1, <2>2
<1>5. TypeOK'
  <2>1. turn' \in [at : {"model", "call", "tool", "chain", "search", "vision", "reply"},
                   iteration : 0 .. MAX_TOOL_ITERATIONS, queue : Seq(Call),
                   seen : SUBSET Call, ran : Nat, tokens : Nat]
    BY DEF TurnState
  <2>. QED BY <1>1, <1>2, <1>4, <2>1 DEF TypeOK
<1>6. QueueOK'
  <2>1. lock' # NoRequest
    BY <1>1, <1>2
  <2>. QED BY <2>1 DEF QueueOK
<1>. QED BY <1>3, <1>5, <1>6 DEF IInv

\* The facts every step of the loop starts from.
LEMMA LoopFacts ==
  ASSUME IInv, lock # NoRequest
  PROVE  /\ lock \in Request /\ log \in Seq(Row) /\ turn \in TurnState
         /\ turn.at \in {"model", "call", "tool", "chain", "search", "vision", "reply"}
         /\ turn.iteration \in 0 .. MAX_TOOL_ITERATIONS
         /\ turn.queue \in Seq(Call) /\ turn.seen \in SUBSET Call
         /\ turn.ran \in Nat /\ turn.tokens \in Nat
         /\ draft \in [mark : Mark \cup {Blank},
                       status : {"none", "collecting", "validated", "awaiting_payment", "paid"}]
         /\ upload \in [status : {"none", "uploaded", "validated", "rejected", "cancelled"},
                        file : BOOLEAN]
         /\ calls \in Nat /\ lost \in BOOLEAN /\ DraftOK
         /\ TurnRows(OwnRows(lock), lock, turn)
         /\ OwnRows(lock) \in Seq(Row)
         /\ \A n \in 1 .. Len(OwnRows(lock)) : OwnRows(lock)[n].by = lock
<1>1. TypeOK /\ DraftOK /\ \A r \in Request : OwnOK(r)
  BY DEF IInv
<1>2. lock \in Request /\ log \in Seq(Row) /\ pc[lock] = "turn"
  BY <1>1 DEF TypeOK
<1>3. TurnRows(OwnRows(lock), lock, turn)
  BY <1>1, <1>2 DEF OwnOK
<1>4. OwnRows(lock) \in Seq(Row) /\ \A n \in 1 .. Len(OwnRows(lock)) : OwnRows(lock)[n].by = lock
  BY <1>2, OwnTyped DEF OwnBy
<1>5. turn \in TurnState
  BY <1>1 DEF TypeOK, TurnState
<1>6. /\ turn.at \in {"model", "call", "tool", "chain", "search", "vision", "reply"}
      /\ turn.iteration \in 0 .. MAX_TOOL_ITERATIONS
      /\ turn.queue \in Seq(Call) /\ turn.seen \in SUBSET Call
      /\ turn.ran \in Nat /\ turn.tokens \in Nat
  BY <1>5 DEF TurnState
<1>7. /\ draft \in [mark : Mark \cup {Blank},
                    status : {"none", "collecting", "validated", "awaiting_payment", "paid"}]
      /\ upload \in [status : {"none", "uploaded", "validated", "rejected", "cancelled"},
                     file : BOOLEAN]
      /\ calls \in Nat /\ lost \in BOOLEAN
  BY <1>1 DEF TypeOK
<1>. QED BY <1>1, <1>2, <1>3, <1>4, <1>5, <1>6, <1>7

\* The head of a queue is a call, and the rest a queue.
LEMMA QueueTyped ==
  ASSUME NEW q \in Seq(Call), q # <<>>
  PROVE  Head(q) \in Call /\ Tail(q) \in Seq(Call)
OBVIOUS

\* The result of the call at hand is persisted.
LEMMA ResultStep ==
  ASSUME IInv, lock # NoRequest, turn.at \in {"tool", "vision"}, NEW fresh \in BOOLEAN,
         Result(Head(turn.queue), fresh), frame,
         fresh => Head(turn.queue).tool # "create_case_draft",
         calls' = calls, lost' = lost,
         upload' \in [status : {"none", "uploaded", "validated", "rejected", "cancelled"},
                      file : BOOLEAN],
         draft' \in [mark : Mark \cup {Blank},
                     status : {"none", "collecting", "validated", "awaiting_payment", "paid"}],
         draft'.mark = draft.mark, draft = NoDraft => draft' = NoDraft
  PROVE  IInv'
<1> DEFINE c == Head(turn.queue)
           q == Tail(turn.queue)
           e == ResultRow(lock, turn.ran, c, fresh)
<1>1. /\ lock \in Request /\ log \in Seq(Row) /\ turn \in TurnState
      /\ turn.iteration \in 0 .. MAX_TOOL_ITERATIONS
      /\ turn.queue \in Seq(Call) /\ turn.seen \in SUBSET Call
      /\ turn.ran \in Nat /\ turn.tokens \in Nat /\ calls \in Nat /\ lost \in BOOLEAN
      /\ DraftOK /\ TurnRows(OwnRows(lock), lock, turn) /\ OwnRows(lock) \in Seq(Row)
      /\ \A n \in 1 .. Len(OwnRows(lock)) : OwnRows(lock)[n].by = lock
  BY LoopFacts
<1>2. turn.queue # <<>>
  BY DEF IInv, QueueOK
<1>3. c \in Call /\ q \in Seq(Call)
  BY <1>1, <1>2, QueueTyped
<1>4. log' = Append(log, e)
  BY DEF Result
<1>5. turn' = [turn EXCEPT !.queue = q, !.seen = turn.seen \cup {c}, !.at = Next_at(q)]
  BY DEF Result
<1>6. e \in Row
  BY <1>1, <1>3, RowsTyped
<1>7. e.kind = "result" /\ e.by = lock /\ e.id = turn.ran /\ e.call = c /\ e.fresh = fresh
  BY DEF ResultRow
<1>8. Next_at(q) \in {"model", "call"} /\ (Next_at(q) = "call" => q # <<>>)
  BY DEF Next_at
<1> HIDE DEF e, c, q
<1>9. /\ turn'.at = Next_at(q) /\ turn'.queue = q /\ turn'.seen = turn.seen \cup {c}
      /\ turn' \in TurnState
  BY <1>1, <1>3, <1>5, <1>8 DEF TurnState
<1>10. turn'.at \notin Open
  BY <1>8, <1>9 DEF Open
<1>11. turn.at \in Open
  BY DEF Open
<1>12. TurnRows(Append(OwnRows(lock), e), lock, turn')
  <2>1. e.by = lock /\ e.id = turn.ran /\ e.kind = "result"
    BY <1>7
  <2>. QED BY <1>1, <1>6, <1>10, <1>11, <2>1, TurnRowsResult
<1>13. e \notin Drafts
  BY <1>7 DEF Drafts, c
<1>14. DraftOK'
  BY <1>1, <1>4, <1>6, <1>13, DraftKept
<1>15. calls' \in Nat /\ lost' \in BOOLEAN
  BY <1>1
<1>16. /\ turn'.at \in {"call", "tool", "vision"} => turn'.queue # <<>>
       /\ turn'.at # "vision"
  BY <1>8, <1>9
<1>17. \E x \in Row : /\ x.by = lock /\ log' = Append(log, x)
                      /\ TurnRows(Append(OwnRows(lock), x), lock, turn')
  BY <1>4, <1>6, <1>7, <1>12
<1>. QED BY <1>1, <1>9, <1>14, <1>15, <1>16, <1>17, LoopStep

\* A call is persisted.
LEMMA CallStep ==
  ASSUME IInv, lock # NoRequest, turn.at \in {"call", "chain"}, frame,
         NEW c \in Call, NEW said \in BOOLEAN, NEW at \in {"tool", "search"},
         log' = Append(log, CallRow(lock, turn.ran + 1, c, said)),
         turn' = [turn EXCEPT !.at = at, !.ran = turn.ran + 1],
         at = "tool" => turn.queue # <<>>,
         UNCHANGED <<draft, upload, calls, lost>>
  PROVE  IInv'
<1> DEFINE e == CallRow(lock, turn.ran + 1, c, said)
<1>1. /\ lock \in Request /\ log \in Seq(Row) /\ turn \in TurnState
      /\ turn.queue \in Seq(Call) /\ turn.ran \in Nat
      /\ draft \in [mark : Mark \cup {Blank},
                    status : {"none", "collecting", "validated", "awaiting_payment", "paid"}]
      /\ upload \in [status : {"none", "uploaded", "validated", "rejected", "cancelled"},
                     file : BOOLEAN]
      /\ calls \in Nat /\ lost \in BOOLEAN
      /\ DraftOK /\ TurnRows(OwnRows(lock), lock, turn) /\ OwnRows(lock) \in Seq(Row)
  BY LoopFacts
<1>2. turn.ran + 1 \in Nat
  BY <1>1
<1>3. e \in Row
  BY <1>1, <1>2, RowsTyped
<1>4. e.kind = "call" /\ e.by = lock /\ e.id = turn.ran + 1
  BY DEF CallRow
<1> HIDE DEF e
<1>5. /\ turn'.at = at /\ turn'.queue = turn.queue /\ turn'.ran = turn.ran + 1
      /\ turn' \in TurnState
  BY <1>1, <1>2 DEF TurnState
<1>6. turn.at \notin Open /\ turn.at # "reply" /\ turn'.at \in Open
  BY <1>5 DEF Open
<1>7. TurnRows(Append(OwnRows(lock), e), lock, turn')
  <2>1. e.id = turn'.ran
    BY <1>4, <1>5
  <2>. QED BY <1>1, <1>3, <1>4, <1>6, <2>1, TurnRowsCall
<1>8. e \notin Drafts
  BY <1>4 DEF Drafts
<1>9. DraftOK'
  <2>1. log' = Append(log, e)
    BY DEF e
  <2>. QED BY <1>1, <1>3, <1>8, <2>1, DraftKept
<1>10. \E x \in Row : /\ x.by = lock /\ log' = Append(log, x)
                      /\ TurnRows(Append(OwnRows(lock), x), lock, turn')
  BY <1>3, <1>4, <1>7 DEF e
<1>11. /\ turn'.at \in {"call", "tool", "vision"} => turn'.queue # <<>>
       /\ turn'.at # "vision"
  BY <1>5
<1>12. /\ draft' \in [mark : Mark \cup {Blank},
                      status : {"none", "collecting", "validated", "awaiting_payment", "paid"}]
       /\ upload' \in [status : {"none", "uploaded", "validated", "rejected", "cancelled"},
                       file : BOOLEAN]
       /\ calls' \in Nat /\ lost' \in BOOLEAN
  BY <1>1
<1>. QED BY <1>1, <1>5, <1>9, <1>10, <1>11, <1>12, LoopStep

\* The turn ends with a text.
LEMMA TextStep ==
  ASSUME IInv, lock # NoRequest, turn.at = "model", frame, NEW tokens \in Nat,
         log' = Append(log, Text(lock, "text")),
         turn' = [turn EXCEPT !.at = "reply", !.tokens = tokens],
         UNCHANGED <<draft, upload, calls, lost>>
  PROVE  IInv'
<1> DEFINE e == Text(lock, "text")
<1>1. /\ lock \in Request /\ log \in Seq(Row) /\ turn \in TurnState
      /\ draft \in [mark : Mark \cup {Blank},
                    status : {"none", "collecting", "validated", "awaiting_payment", "paid"}]
      /\ upload \in [status : {"none", "uploaded", "validated", "rejected", "cancelled"},
                     file : BOOLEAN]
      /\ calls \in Nat /\ lost \in BOOLEAN
      /\ DraftOK /\ TurnRows(OwnRows(lock), lock, turn) /\ OwnRows(lock) \in Seq(Row)
  BY LoopFacts
<1>2. e \in Row
  <2>1. NoCall \in Call /\ 0 \in Nat
    BY DEF NoCall, Call
  <2>. QED BY <1>1, <2>1, RowsTyped
<1>3. e.kind = "text" /\ e.by = lock
  BY DEF Text
<1> HIDE DEF e
<1>4. turn'.at = "reply" /\ turn' \in TurnState
  BY <1>1 DEF TurnState
<1>5. turn.at \notin Open
  BY DEF Open
<1>6. TurnRows(Append(OwnRows(lock), e), lock, turn')
  BY <1>1, <1>2, <1>3, <1>4, <1>5, TurnRowsText
<1>7. e \notin Drafts
  BY <1>3 DEF Drafts
<1>8. DraftOK'
  <2>1. log' = Append(log, e)
    BY DEF e
  <2>. QED BY <1>1, <1>2, <1>7, <2>1, DraftKept
<1>9. \E x \in Row : /\ x.by = lock /\ log' = Append(log, x)
                     /\ TurnRows(Append(OwnRows(lock), x), lock, turn')
  BY <1>2, <1>3, <1>6 DEF e
<1>10. turn'.at \notin {"call", "tool", "vision"}
  BY <1>4
<1>11. /\ draft' \in [mark : Mark \cup {Blank},
                      status : {"none", "collecting", "validated", "awaiting_payment", "paid"}]
       /\ upload' \in [status : {"none", "uploaded", "validated", "rejected", "cancelled"},
                       file : BOOLEAN]
       /\ calls' \in Nat /\ lost' \in BOOLEAN
  BY <1>1
<1>. QED BY <1>1, <1>4, <1>8, <1>9, <1>10, <1>11, LoopStep
LEMMA AskModelInv ==
  ASSUME IInv, AskModel
  PROVE  IInv'
<1>1. lock # NoRequest /\ turn.at = "model" /\ turn.iteration < MAX_TOOL_ITERATIONS
      /\ frame /\ UNCHANGED <<draft, upload, lost>>
  BY DEF AskModel, Working
<1>2. /\ lock \in Request /\ log \in Seq(Row) /\ turn \in TurnState
      /\ turn.iteration \in 0 .. MAX_TOOL_ITERATIONS /\ turn.tokens \in Nat
      /\ draft \in [mark : Mark \cup {Blank},
                    status : {"none", "collecting", "validated", "awaiting_payment", "paid"}]
      /\ upload \in [status : {"none", "uploaded", "validated", "rejected", "cancelled"},
                     file : BOOLEAN]
      /\ calls \in Nat /\ lost \in BOOLEAN
      /\ DraftOK /\ TurnRows(OwnRows(lock), lock, turn)
  BY <1>1, LoopFacts
<1>3. ASSUME NEW tokens \in Nat, log' = Append(log, Text(lock, "text")),
             turn' = [turn EXCEPT !.at = "reply", !.tokens = tokens], calls' = calls
      PROVE  IInv'
  BY <1>1, <1>3, TextStep
<1>4. CASE /\ log' = Append(log, Text(lock, "text"))
           /\ turn' = [turn EXCEPT !.at = "reply"]
           /\ UNCHANGED calls
  <2>1. turn' = [turn EXCEPT !.at = "reply", !.tokens = turn.tokens]
    BY <1>2, <1>4 DEF TurnState
  <2>. QED BY <1>2, <1>3, <1>4, <2>1
<1>5. CASE /\ log' = Append(log, Text(lock, "text"))
           /\ turn' = [turn EXCEPT !.at = "reply", !.tokens = @ + 1]
           /\ UNCHANGED calls
  <2>1. turn.tokens + 1 \in Nat
    BY <1>2
  <2>. QED BY <1>3, <1>5, <2>1
<1>6. ASSUME NEW n \in 1 .. MaxParallel, NEW queue \in [1 .. n -> Asked],
             calls' = calls + n, log' = log,
             turn' = [turn EXCEPT !.at = "call", !.iteration = @ + 1,
                                  !.queue = queue, !.tokens = @ + 1]
      PROVE  IInv'
  <2>1. queue \in Seq(Call) /\ queue # <<>> /\ n \in Nat
    <3>1. n \in Nat /\ 1 <= n
      BY AgentAssumption
    <3>2. queue \in [1 .. n -> Call]
      BY AskedAssumption
    <3>3. queue \in Seq(Call) /\ Len(queue) = n
      BY <3>1, <3>2
    <3>. QED BY <3>1, <3>3
  <2>2. turn.iteration + 1 \in 0 .. MAX_TOOL_ITERATIONS /\ turn.tokens + 1 \in Nat
    BY <1>1, <1>2, AgentAssumption
  <2>3. turn' = [turn EXCEPT !.at = "call", !.iteration = turn.iteration + 1,
                             !.queue = queue, !.tokens = turn.tokens + 1]
    BY <1>6
  <2>4. turn'.at = "call" /\ turn'.queue = queue /\ turn' \in TurnState
    BY <1>2, <2>1, <2>2, <2>3 DEF TurnState
  <2>5. TurnRows(OwnRows(lock), lock, turn')
    <3>1. turn.at \notin Open /\ turn'.at \notin Open /\ turn.at # "reply"
      BY <1>1, <2>4 DEF Open
    <3>. QED BY <1>2, <3>1, TurnRowsSame
  <2>6. DraftOK'
    BY <1>1, <1>2, <1>6, DraftKept
  <2>7. calls' \in Nat
    BY <1>2, <1>6, <2>1
  <2>8. turn'.queue # <<>> /\ turn'.at # "vision"
    BY <2>1, <2>4
  <2>9. /\ draft' \in [mark : Mark \cup {Blank},
                       status : {"none", "collecting", "validated", "awaiting_payment", "paid"}]
        /\ upload' \in [status : {"none", "uploaded", "validated", "rejected", "cancelled"},
                        file : BOOLEAN]
        /\ lost' \in BOOLEAN
    BY <1>1, <1>2
  <2>. QED BY <1>1, <1>2, <1>6, <2>4, <2>5, <2>6, <2>7, <2>8, <2>9, LoopStep
<1>. QED BY <1>4, <1>5, <1>6 DEF AskModel

LEMMA ExhaustedInv ==
  ASSUME IInv, Exhausted
  PROVE  IInv'
<1>1. /\ lock # NoRequest /\ turn.at = "model" /\ frame
      /\ log' = Append(log, Text(lock, "text")) /\ turn' = [turn EXCEPT !.at = "reply"]
      /\ UNCHANGED <<draft, upload, calls, lost>>
  BY DEF Exhausted, Working
<1>2. turn \in TurnState /\ turn.tokens \in Nat
  BY <1>1, LoopFacts
<1>3. turn' = [turn EXCEPT !.at = "reply", !.tokens = turn.tokens]
  BY <1>1, <1>2 DEF TurnState
<1>. QED BY <1>1, <1>2, <1>3, TextStep

LEMMA PersistCallInv ==
  ASSUME IInv, PersistCall
  PROVE  IInv'
<1>1. /\ lock # NoRequest /\ turn.at = "call" /\ frame
      /\ log' = Append(log, CallRow(lock, turn.ran + 1, Head(turn.queue), TRUE))
      /\ turn' = [turn EXCEPT !.at = "tool", !.ran = turn.ran + 1]
      /\ UNCHANGED <<draft, upload, calls, lost>>
  BY DEF PersistCall, Working
<1>2. turn.queue \in Seq(Call) /\ turn.queue # <<>>
  BY <1>1, LoopFacts DEF IInv, QueueOK
<1>3. Head(turn.queue) \in Call
  BY <1>2, QueueTyped
<1>. QED BY <1>1, <1>2, <1>3, CallStep

LEMMA PersistChainInv ==
  ASSUME IInv, PersistChain
  PROVE  IInv'
<1>1. /\ lock # NoRequest /\ turn.at = "chain" /\ frame
      /\ log' = Append(log, CallRow(lock, turn.ran + 1, Search(draft.mark), FALSE))
      /\ turn' = [turn EXCEPT !.at = "search", !.ran = turn.ran + 1]
      /\ UNCHANGED <<draft, upload, calls, lost>>
  BY DEF PersistChain, Working
<1>2. draft.mark \in Mark \cup {Blank}
  BY <1>1, LoopFacts
<1>3. Search(draft.mark) \in Call
  BY <1>2 DEF Search, Call
<1>. QED BY <1>1, <1>3, CallStep

LEMMA DuplicateInv ==
  ASSUME IInv, Duplicate
  PROVE  IInv'
<1>1. /\ lock # NoRequest /\ turn.at = "tool" /\ frame
      /\ Result(Head(turn.queue), FALSE) /\ UNCHANGED <<draft, upload, calls, lost>>
  BY DEF Duplicate, Working
<1>. QED BY <1>1, LoopFacts, ResultStep

LEMMA preparePaymentInv ==
  ASSUME IInv, prepare_payment
  PROVE  IInv'
<1>1. /\ lock # NoRequest /\ turn.at = "tool" /\ frame
      /\ Head(turn.queue).tool = "prepare_payment"
      /\ draft' = (IF draft.status \in {"validated", "awaiting_payment"}
                   THEN [draft EXCEPT !.status = "awaiting_payment"] ELSE draft)
      /\ Result(Head(turn.queue), TRUE) /\ UNCHANGED <<upload, calls, lost>>
  BY DEF prepare_payment, Runs, Working
<1>2. /\ draft \in [mark : Mark \cup {Blank},
                    status : {"none", "collecting", "validated", "awaiting_payment", "paid"}]
      /\ upload \in [status : {"none", "uploaded", "validated", "rejected", "cancelled"},
                     file : BOOLEAN]
  BY <1>1, LoopFacts
<1>3. /\ draft' \in [mark : Mark \cup {Blank},
                     status : {"none", "collecting", "validated", "awaiting_payment", "paid"}]
      /\ draft'.mark = draft.mark
  BY <1>1, <1>2
<1>4. draft = NoDraft => draft' = NoDraft
  BY <1>1 DEF NoDraft
<1>5. turn.at \in {"tool", "vision"} /\ Head(turn.queue).tool # "create_case_draft"
      /\ calls' = calls /\ lost' = lost
  BY <1>1
<1>6. upload' \in [status : {"none", "uploaded", "validated", "rejected", "cancelled"},
                   file : BOOLEAN]
  BY <1>1, <1>2
<1>. QED BY <1>1, <1>3, <1>4, <1>5, <1>6, ResultStep

LEMMA OtherToolInv ==
  ASSUME IInv, OtherTool
  PROVE  IInv'
<1>1. /\ lock # NoRequest /\ turn.at = "tool" /\ frame
      /\ Head(turn.queue).tool # "create_case_draft"
      /\ Result(Head(turn.queue), TRUE) /\ UNCHANGED <<draft, upload, calls, lost>>
  BY DEF OtherTool, Runs, Working
<1>. QED BY <1>1, LoopFacts, ResultStep

LEMMA validateInv ==
  ASSUME IInv, validate_uploaded_document
  PROVE  IInv'
<1>1. /\ lock # NoRequest /\ turn.at = "tool" /\ frame
      /\ Head(turn.queue).tool = "validate_uploaded_document"
      /\ UNCHANGED <<draft, upload, calls, lost>>
      /\ \/ turn' = [turn EXCEPT !.at = "vision"] /\ log' = log
         \/ Result(Head(turn.queue), TRUE)
  BY DEF validate_uploaded_document, Runs, Working
<1>2. /\ lock \in Request /\ log \in Seq(Row) /\ turn \in TurnState
      /\ draft \in [mark : Mark \cup {Blank},
                    status : {"none", "collecting", "validated", "awaiting_payment", "paid"}]
      /\ upload \in [status : {"none", "uploaded", "validated", "rejected", "cancelled"},
                     file : BOOLEAN]
      /\ calls \in Nat /\ lost \in BOOLEAN
      /\ DraftOK /\ TurnRows(OwnRows(lock), lock, turn)
  BY <1>1, LoopFacts
<1>3. CASE Result(Head(turn.queue), TRUE)
  BY <1>1, <1>2, <1>3, ResultStep
<1>4. CASE turn' = [turn EXCEPT !.at = "vision"] /\ log' = log
  <2>1. /\ turn'.at = "vision" /\ turn'.queue = turn.queue /\ turn'.ran = turn.ran
        /\ turn' \in TurnState
    BY <1>2, <1>4 DEF TurnState
  <2>2. turn.queue # <<>>
    BY <1>1 DEF IInv, QueueOK
  <2>3. TurnRows(OwnRows(lock), lock, turn')
    <3>1. turn.at \in Open /\ turn'.at \in Open /\ turn.at # "reply"
      BY <1>1, <2>1 DEF Open
    <3>. QED BY <1>2, <2>1, <3>1, TurnRowsSame
  <2>4. DraftOK'
    BY <1>1, <1>2, <1>4, DraftKept
  <2>5. turn'.queue # <<>> /\ Head(turn'.queue).tool = "validate_uploaded_document"
    BY <1>1, <2>1, <2>2
  <2>6. /\ draft' \in [mark : Mark \cup {Blank},
                       status : {"none", "collecting", "validated", "awaiting_payment", "paid"}]
        /\ upload' \in [status : {"none", "uploaded", "validated", "rejected", "cancelled"},
                        file : BOOLEAN]
        /\ calls' \in Nat /\ lost' \in BOOLEAN
    BY <1>1, <1>2
  <2>. QED BY <1>1, <1>2, <1>4, <2>1, <2>3, <2>4, <2>5, <2>6, LoopStep
<1>. QED BY <1>1, <1>3, <1>4

LEMMA markValidatedInv ==
  ASSUME IInv, mark_validated
  PROVE  IInv'
<1>1. /\ lock # NoRequest /\ turn.at = "vision" /\ frame
      /\ Result(Head(turn.queue), TRUE) /\ UNCHANGED <<draft, calls, lost>>
      /\ \/ upload' = upload
         \/ \E verdict \in {"validated", "rejected"} :
              upload' = [upload EXCEPT !.status = verdict]
  BY DEF mark_validated, Working
<1>2. /\ draft \in [mark : Mark \cup {Blank},
                    status : {"none", "collecting", "validated", "awaiting_payment", "paid"}]
      /\ upload \in [status : {"none", "uploaded", "validated", "rejected", "cancelled"},
                     file : BOOLEAN]
  BY <1>1, LoopFacts
<1>3. upload' \in [status : {"none", "uploaded", "validated", "rejected", "cancelled"},
                   file : BOOLEAN]
  BY <1>1, <1>2
<1>4. Head(turn.queue).tool # "create_case_draft"
  BY <1>1 DEF IInv, QueueOK
<1>5. turn.at \in {"tool", "vision"}
  BY <1>1
<1>. QED BY <1>1, <1>2, <1>3, <1>4, <1>5, ResultStep

\* The draft is overwritten, and its result is the last one of the kind.
LEMMA createCaseDraftInv ==
  ASSUME IInv, create_case_draft
  PROVE  IInv'
<1> DEFINE c == Head(turn.queue)
           q == Tail(turn.queue)
           e == ResultRow(lock, turn.ran, c, TRUE)
           at == IF Chained(c) THEN "chain" ELSE Next_at(q)
<1>1. /\ lock # NoRequest /\ turn.at = "tool" /\ c.tool = "create_case_draft"
      /\ draft' = Upsert(c) /\ log' = Append(log, e)
      /\ turn' = [turn EXCEPT !.queue = q, !.seen = turn.seen \cup {c}, !.at = at]
      /\ lost' = FALSE /\ UNCHANGED <<upload, calls>> /\ frame
  BY DEF create_case_draft, Runs, Working
<1>2. /\ lock \in Request /\ log \in Seq(Row) /\ turn \in TurnState
      /\ turn.queue \in Seq(Call) /\ turn.seen \in SUBSET Call /\ turn.ran \in Nat
      /\ draft \in [mark : Mark \cup {Blank},
                    status : {"none", "collecting", "validated", "awaiting_payment", "paid"}]
      /\ upload \in [status : {"none", "uploaded", "validated", "rejected", "cancelled"},
                     file : BOOLEAN]
      /\ calls \in Nat
      /\ TurnRows(OwnRows(lock), lock, turn) /\ OwnRows(lock) \in Seq(Row)
      /\ \A n \in 1 .. Len(OwnRows(lock)) : OwnRows(lock)[n].by = lock
  BY <1>1, LoopFacts
<1>3. turn.queue # <<>>
  BY <1>1 DEF IInv, QueueOK
<1>4. c \in Call /\ q \in Seq(Call)
  BY <1>2, <1>3, QueueTyped
<1>5. e \in Row
  BY <1>2, <1>4, RowsTyped
<1>6. e.kind = "result" /\ e.by = lock /\ e.id = turn.ran /\ e.call = c /\ e.fresh = TRUE
  BY DEF ResultRow
<1>7. at \in {"model", "call", "chain"} /\ (at = "call" => q # <<>>)
  BY DEF Next_at
<1>8. c.mark \in Mark \cup {Blank}
  BY <1>4 DEF Call
<1>9. /\ draft' \in [mark : Mark \cup {Blank},
                     status : {"none", "collecting", "validated", "awaiting_payment", "paid"}]
      /\ draft'.mark = c.mark
  <2> HIDE DEF c
  <2>1. draft' = [mark |-> c.mark,
                  status |-> IF c.mark # Blank THEN "validated"
                             ELSE IF draft = NoDraft THEN "collecting" ELSE draft.status]
    BY <1>1 DEF Upsert
  <2>. QED BY <1>2, <1>8, <2>1
<1> HIDE DEF c, q, e, at
<1>10. turn'.at = at /\ turn'.queue = q /\ turn' \in TurnState
  <2>1. turn.seen \cup {c} \in SUBSET Call
    BY <1>2, <1>4
  <2>. QED BY <1>1, <1>2, <1>4, <1>7, <2>1 DEF TurnState
<1>11. turn.at \in Open /\ turn'.at \notin Open
  BY <1>1, <1>7, <1>10 DEF Open
<1>12. TurnRows(Append(OwnRows(lock), e), lock, turn')
  <2>1. e.by = lock /\ e.id = turn.ran /\ e.kind = "result"
    BY <1>6
  <2>. QED BY <1>2, <1>5, <1>11, <2>1, TurnRowsResult
<1>13. DraftOK'
  <2>1. e \in Drafts
    BY <1>1, <1>5, <1>6 DEF Drafts
  <2>2. Picked(log', Drafts) = Append(Picked(log, Drafts), e)
    <3>1. Picked(Append(log, e), Drafts) =
            IF e \in Drafts THEN Append(Picked(log, Drafts), e) ELSE Picked(log, Drafts)
      BY <1>2, <1>5, PickedAppend
    <3>. QED BY <1>1, <2>1, <3>1
  <2>3. Picked(log, Drafts) \in Seq(Row)
    BY <1>2, PickedTyped
  <2>4. PICK s \in Seq(Row) : s = Picked(log, Drafts)
    BY <2>3
  <2>5. Len(Append(s, e)) # 0 /\ Append(s, e)[Len(Append(s, e))] = e
    BY <1>5, <2>4
  <2>. QED BY <1>6, <1>9, <2>2, <2>4, <2>5 DEF DraftOK
<1>14. \E x \in Row : /\ x.by = lock /\ log' = Append(log, x)
                      /\ TurnRows(Append(OwnRows(lock), x), lock, turn')
  BY <1>1, <1>5, <1>6, <1>12
<1>15. /\ turn'.at \in {"call", "tool", "vision"} => turn'.queue # <<>>
       /\ turn'.at # "vision"
  BY <1>7, <1>10
<1>16. /\ upload' \in [status : {"none", "uploaded", "validated", "rejected", "cancelled"},
                       file : BOOLEAN]
       /\ calls' \in Nat /\ lost' \in BOOLEAN
  BY <1>1, <1>2
<1>. QED BY <1>1, <1>2, <1>9, <1>10, <1>13, <1>14, <1>15, <1>16, LoopStep

\* The result of a chained search is persisted.
LEMMA ChainResultInv ==
  ASSUME IInv, ChainResult
  PROVE  IInv'
<1> DEFINE c == Search(draft.mark)
           e == ResultRow(lock, turn.ran, c, TRUE)
           at == Next_at(turn.queue)
<1>1. /\ lock # NoRequest /\ turn.at = "search" /\ log' = Append(log, e)
      /\ turn' = [turn EXCEPT !.seen = turn.seen \cup {c}, !.at = at]
      /\ UNCHANGED <<draft, upload, calls, lost>> /\ frame
  BY DEF ChainResult, Working
<1>2. /\ lock \in Request /\ log \in Seq(Row) /\ turn \in TurnState
      /\ turn.queue \in Seq(Call) /\ turn.seen \in SUBSET Call /\ turn.ran \in Nat
      /\ draft \in [mark : Mark \cup {Blank},
                    status : {"none", "collecting", "validated", "awaiting_payment", "paid"}]
      /\ upload \in [status : {"none", "uploaded", "validated", "rejected", "cancelled"},
                     file : BOOLEAN]
      /\ calls \in Nat /\ lost \in BOOLEAN /\ DraftOK
      /\ TurnRows(OwnRows(lock), lock, turn) /\ OwnRows(lock) \in Seq(Row)
      /\ \A n \in 1 .. Len(OwnRows(lock)) : OwnRows(lock)[n].by = lock
  BY <1>1, LoopFacts
<1>3. c \in Call /\ c.tool = "trademark_search"
  BY <1>2 DEF Search, Call
<1> HIDE DEF c
<1>4. e \in Row
  BY <1>2, <1>3, RowsTyped
<1>5. e.kind = "result" /\ e.by = lock /\ e.id = turn.ran /\ e.call = c
  BY DEF ResultRow
<1>6. at \in {"model", "call"} /\ (at = "call" => turn.queue # <<>>)
  BY DEF Next_at
<1> HIDE DEF e, at
<1>7. turn'.at = at /\ turn'.queue = turn.queue /\ turn' \in TurnState
  <2>1. turn.seen \cup {c} \in SUBSET Call
    BY <1>2, <1>3
  <2>. QED BY <1>1, <1>2, <1>6, <2>1 DEF TurnState
<1>8. turn.at \in Open /\ turn'.at \notin Open
  BY <1>1, <1>6, <1>7 DEF Open
<1>9. TurnRows(Append(OwnRows(lock), e), lock, turn')
  <2>1. e.by = lock /\ e.id = turn.ran /\ e.kind = "result"
    BY <1>5
  <2>. QED BY <1>2, <1>4, <1>8, <2>1, TurnRowsResult
<1>10. e \notin Drafts
  BY <1>3, <1>5 DEF Drafts
<1>11. DraftOK'
  BY <1>1, <1>2, <1>4, <1>10, DraftKept
<1>12. \E x \in Row : /\ x.by = lock /\ log' = Append(log, x)
                      /\ TurnRows(Append(OwnRows(lock), x), lock, turn')
  BY <1>1, <1>4, <1>5, <1>9
<1>13. /\ turn'.at \in {"call", "tool", "vision"} => turn'.queue # <<>>
       /\ turn'.at # "vision"
  BY <1>6, <1>7
<1>14. /\ upload' \in [status : {"none", "uploaded", "validated", "rejected", "cancelled"},
                       file : BOOLEAN]
       /\ draft' \in [mark : Mark \cup {Blank},
                      status : {"none", "collecting", "validated", "awaiting_payment", "paid"}]
       /\ calls' \in Nat /\ lost' \in BOOLEAN
  BY <1>1, <1>2
<1>. QED BY <1>1, <1>2, <1>7, <1>11, <1>12, <1>13, <1>14, LoopStep
-----------------------------------------------------------------------------
(* The other steps.                                                        *)

\* Rows that nobody of interest has written change nothing.
LEMMA OwnUnchanged ==
  ASSUME IInv, NEW r \in Request, OwnRows(r)' = OwnRows(r), pc'[r] = pc[r],
         pc[r] = "turn" => turn' = turn
  PROVE  OwnOK(r)'
<1>1. OwnOK(r)
  BY DEF IInv
<1>. QED BY <1>1 DEF OwnOK

LEMMA InitInv == Init => IInv
<1> SUFFICES ASSUME Init PROVE IInv
  OBVIOUS
<1>1. log = <<>> /\ log \in Seq(Row) /\ Len(log) = 0
  BY DEF Init
<1>2. ASSUME NEW A PROVE Picked(log, A) = <<>> /\ Len(Picked(log, A)) = 0
  <2>1. Where(log, A) = {}
    BY <1>1 DEF Where
  <2>2. Cardinality({}) = 0
    BY FS_EmptySet
  <2>3. Picked(log, A) \in Seq(Row) /\ Len(Picked(log, A)) = 0
    BY <1>1, <2>1, <2>2, PickedTyped
  <2>. QED BY <2>3
<1>3. \A r \in Request : OwnOK(r)
  BY <1>2 DEF OwnOK, OwnRows, Init
<1>4. DraftOK
  BY <1>2 DEF DraftOK, Init
<1>5. QueueOK
  BY DEF QueueOK, Init, NoTurn
<1>6. TypeOK
  <2>1. session \in Session /\ view \in [Request -> Session]
    BY DEF Init, Session
  <2>2. draft \in [mark : Mark \cup {Blank},
                   status : {"none", "collecting", "validated", "awaiting_payment", "paid"}]
    BY DEF Init, NoDraft
  <2>3. upload \in [status : {"none", "uploaded", "validated", "rejected", "cancelled"},
                    file : BOOLEAN]
    <3>1. \/ upload = [status |-> "none", file |-> FALSE]
          \/ upload = [status |-> "uploaded", file |-> TRUE]
      BY DEF Init
    <3>2. CASE upload = [status |-> "none", file |-> FALSE]
      BY <3>2
    <3>3. CASE upload = [status |-> "uploaded", file |-> TRUE]
      BY <3>3
    <3>. QED BY <3>1, <3>2, <3>3
  <2>4. turn \in [at : {"model", "call", "tool", "chain", "search", "vision", "reply"},
                  iteration : 0 .. MAX_TOOL_ITERATIONS, queue : Seq(Call),
                  seen : SUBSET Call, ran : Nat, tokens : Nat]
    <3>1. <<>> \in Seq(Call) /\ 0 \in 0 .. MAX_TOOL_ITERATIONS
      BY AgentAssumption
    <3>. QED BY <3>1 DEF Init, NoTurn
  <2>5. /\ pc \in [Request -> {"idle", "waiting", "turn", "done", "aborted"}]
        /\ lock \in Request \cup {NoRequest}
        /\ \A r \in Request : pc[r] = "turn" <=> lock = r
    BY AgentAssumption DEF Init
  <2>6. calls \in Nat /\ touches \in Nat /\ aborts \in Nat /\ lost \in BOOLEAN
    BY DEF Init
  <2>. QED BY <1>1, <2>1, <2>2, <2>3, <2>4, <2>5, <2>6 DEF TypeOK
<1>. QED BY <1>3, <1>4, <1>5, <1>6 DEF IInv

LEMMA SendInv ==
  ASSUME IInv, NEW r \in Request, Send(r)
  PROVE  IInv'
<1> DEFINE e == Text(r, "user")
<1>1. TypeOK /\ DraftOK /\ QueueOK
  BY DEF IInv
<1>2. /\ pc[r] = "idle" /\ pc' = [pc EXCEPT ![r] = "waiting"]
      /\ view' = [view EXCEPT ![r] = session] /\ log' = Append(log, e)
      /\ UNCHANGED <<session, draft, upload, lock, turn, calls, touches, aborts, lost>>
  BY DEF Send
<1>3. e \in Row /\ e.by = r /\ e \notin Drafts
  <2>1. NoCall \in Call /\ 0 \in Nat
    BY DEF NoCall, Call
  <2>2. e \in Row
    BY <2>1, RowsTyped
  <2>. QED BY <2>2 DEF Text, Drafts
<1>4. log \in Seq(Row)
  BY <1>1 DEF TypeOK
<1> HIDE DEF e
<1>5. ASSUME NEW r2 \in Request PROVE OwnOK(r2)'
  <2>1. OwnRows(r2)' = IF e.by = r2 THEN Append(OwnRows(r2), e) ELSE OwnRows(r2)
    BY <1>2, <1>3, <1>4, OwnAppend
  <2>2. CASE r2 = r
    <3>1. OwnRows(r) = <<>>
      BY <1>2 DEF IInv, OwnOK
    <3>2. OwnRows(r)' = <<e>>
      BY <1>3, <2>1, <2>2, <3>1
    <3>3. pc'[r] = "waiting"
      BY <1>1, <1>2 DEF TypeOK
    <3>. QED BY <2>2, <3>2, <3>3 DEF OwnOK, e
  <2>3. CASE r2 # r
    <3>1. OwnRows(r2)' = OwnRows(r2) /\ pc'[r2] = pc[r2]
      BY <1>1, <1>2, <1>3, <2>1, <2>3 DEF TypeOK
    <3>. QED BY <1>2, <3>1, OwnUnchanged
  <2>. QED BY <2>2, <2>3
<1>6. DraftOK'
  BY <1>1, <1>2, <1>3, <1>4, DraftKept
<1>7. TypeOK'
  <2>1. log' \in Seq(Row)
    BY <1>2, <1>3, <1>4
  <2>2. view' \in [Request -> Session]
    BY <1>1, <1>2 DEF TypeOK
  <2>3. /\ pc' \in [Request -> {"idle", "waiting", "turn", "done", "aborted"}]
        /\ \A x \in Request : pc'[x] = "turn" <=> lock' = x
    BY <1>1, <1>2 DEF TypeOK
  <2>. QED BY <1>1, <1>2, <2>1, <2>2, <2>3 DEF TypeOK
<1>8. QueueOK'
  BY <1>1, <1>2 DEF QueueOK
<1>. QED BY <1>5, <1>6, <1>7, <1>8 DEF IInv

LEMMA appendUserMessageInv ==
  ASSUME IInv, NEW r \in Request, append_user_message(r)
  PROVE  IInv'
<1>1. TypeOK /\ DraftOK /\ QueueOK /\ OwnOK(r) /\ NoRequest \notin Request
  BY AgentAssumption DEF IInv
<1>2. /\ pc[r] = "waiting" /\ lock = NoRequest /\ pc' = [pc EXCEPT ![r] = "turn"] /\ lock' = r
      /\ UNCHANGED <<session, log, draft, upload, view, turn, calls, touches, aborts, lost>>
  BY DEF append_user_message
<1>3. turn = NoTurn /\ turn' = NoTurn
  BY <1>1, <1>2 DEF QueueOK
<1>4. log \in Seq(Row)
  BY <1>1 DEF TypeOK
<1>5. ASSUME NEW r2 \in Request PROVE OwnOK(r2)'
  <2>1. OwnRows(r2)' = OwnRows(r2)
    BY <1>2 DEF OwnRows
  <2>2. CASE r2 = r
    <3>1. OwnRows(r)' = <<Text(r, "user")>>
      BY <1>1, <1>2, <2>1, <2>2 DEF OwnOK
    <3>2. TurnRows(<<Text(r, "user")>>, r, NoTurn)
      BY TurnRowsBegin
    <3>3. pc'[r] = "turn"
      BY <1>1, <1>2 DEF TypeOK
    <3>. QED BY <1>3, <2>2, <3>1, <3>2, <3>3 DEF OwnOK
  <2>3. CASE r2 # r
    <3>1. pc'[r2] = pc[r2]
      BY <1>1, <1>2, <2>3 DEF TypeOK
    <3>. QED BY <1>2, <2>1, <3>1, OwnUnchanged
  <2>. QED BY <2>2, <2>3
<1>6. DraftOK'
  BY <1>1, <1>2, <1>4, DraftKept
<1>7. TypeOK'
  <2>1. /\ pc' \in [Request -> {"idle", "waiting", "turn", "done", "aborted"}]
        /\ lock' \in Request \cup {NoRequest}
        /\ \A x \in Request : pc'[x] = "turn" <=> lock' = x
    BY <1>1, <1>2 DEF TypeOK
  <2>. QED BY <1>1, <1>2, <2>1 DEF TypeOK
<1>8. QueueOK'
  BY <1>1, <1>2, <1>3 DEF QueueOK, NoTurn
<1>. QED BY <1>5, <1>6, <1>7, <1>8 DEF IInv

\* The rows of the others stay, in their order.
LEMMA AbortInv ==
  ASSUME IInv, NEW r \in Request, Abort(r)
  PROVE  IInv'
<1> DEFINE Others == {row \in Row : row.by # r}
<1>1. TypeOK /\ DraftOK /\ QueueOK /\ NoRequest \notin Request
  BY AgentAssumption DEF IInv
<1>2. /\ pc[r] \in {"waiting", "turn"} /\ aborts' = aborts + 1
      /\ log' = Selected(log, {i \in 1 .. Len(log) : log[i].by # r})
      /\ pc' = [pc EXCEPT ![r] = "aborted"]
      /\ IF lock = r THEN lock' = NoRequest /\ turn' = NoTurn ELSE UNCHANGED <<lock, turn>>
      /\ lost' = (lost \/ \E i \in 1 .. Len(log) :
                    /\ log[i].by = r /\ log[i].kind = "result" /\ log[i].fresh
                    /\ log[i].call.tool = "create_case_draft")
      /\ UNCHANGED <<session, draft, upload, view, calls, touches>>
  BY DEF Abort
<1>3. log \in Seq(Row) /\ \A i \in 1 .. Len(log) : log[i] \in Row
  BY <1>1 DEF TypeOK
<1>4. log' = Picked(log, Others)
  <2>1. {i \in 1 .. Len(log) : log[i].by # r} = Where(log, Others)
    BY <1>3 DEF Where
  <2>. QED BY <1>2, <2>1 DEF Picked
<1>5. log' \in Seq(Row) /\ \A n \in 1 .. Len(log') : log'[n] \in Others
  BY <1>3, <1>4, PickedTyped
<1>6. ASSUME NEW r2 \in Request PROVE OwnOK(r2)'
  <2>1. CASE r2 = r
    <3>1. pc'[r] = "aborted"
      BY <1>1, <1>2 DEF TypeOK
    <3>. QED BY <2>1, <3>1 DEF OwnOK
  <2>2. CASE r2 # r
    <3>1. OwnBy(r2) \subseteq Others
      BY <2>2 DEF OwnBy
    <3>2. Picked(Picked(log, Others), OwnBy(r2)) = Picked(log, OwnBy(r2))
      <4> HIDE DEF Others
      <4>. QED BY <1>3, <3>1, PickedTwice
    <3>3. OwnRows(r2)' = OwnRows(r2)
      BY <1>4, <3>2 DEF OwnRows
    <3>4. pc'[r2] = pc[r2]
      BY <1>1, <1>2, <2>2 DEF TypeOK
    <3>5. pc[r2] = "turn" => turn' = turn
      BY <1>1, <1>2, <2>2 DEF TypeOK
    <3>. QED BY <3>3, <3>4, <3>5, OwnUnchanged
  <2>. QED BY <2>1, <2>2
<1>7. DraftOK'
  <2>1. SUFFICES ASSUME ~ lost' PROVE DraftOK'
    BY DEF DraftOK
  <2>2. ~ lost /\ \A i \in 1 .. Len(log) : log[i] \in Drafts => log[i] \in Others
    BY <1>2, <1>3, <2>1 DEF Drafts
  <2> DEFINE D == Drafts \cap Others
  <2>3. Where(log, Drafts) = Where(log, D)
    BY <2>2 DEF Where
  <2>4. Where(log', Drafts) = Where(log', D)
    BY <1>5 DEF Where
  <2>5. Picked(Picked(log, Others), D) = Picked(log, D)
    <3>1. D \subseteq Others
      OBVIOUS
    <3> HIDE DEF D, Others
    <3>. QED BY <1>3, <3>1, PickedTwice
  <2>6. Picked(log', Drafts) = Picked(log, Drafts)
    <3> HIDE DEF D, Others
    <3>. QED BY <1>4, <2>3, <2>4, <2>5 DEF Picked
  <2>. QED BY <1>1, <1>2, <2>2, <2>6 DEF DraftOK
<1>8. TypeOK'
  <2>1. /\ pc' \in [Request -> {"idle", "waiting", "turn", "done", "aborted"}]
        /\ lock' \in Request \cup {NoRequest}
        /\ \A x \in Request : pc'[x] = "turn" <=> lock' = x
    BY <1>1, <1>2 DEF TypeOK
  <2>2. turn' \in [at : {"model", "call", "tool", "chain", "search", "vision", "reply"},
                   iteration : 0 .. MAX_TOOL_ITERATIONS, queue : Seq(Call),
                   seen : SUBSET Call, ran : Nat, tokens : Nat]
    <3>1. <<>> \in Seq(Call) /\ 0 \in 0 .. MAX_TOOL_ITERATIONS
      BY AgentAssumption
    <3>2. NoTurn \in [at : {"model", "call", "tool", "chain", "search", "vision", "reply"},
                      iteration : 0 .. MAX_TOOL_ITERATIONS, queue : Seq(Call),
                      seen : SUBSET Call, ran : Nat, tokens : Nat]
      BY <3>1 DEF NoTurn
    <3>. QED BY <1>1, <1>2, <3>2 DEF TypeOK
  <2>3. aborts' \in Nat /\ lost' \in BOOLEAN
    BY <1>1, <1>2 DEF TypeOK
  <2>. QED BY <1>1, <1>2, <1>5, <2>1, <2>2, <2>3 DEF TypeOK
<1>9. QueueOK'
  BY <1>1, <1>2 DEF QueueOK, NoTurn
<1>. QED BY <1>6, <1>7, <1>8, <1>9 DEF IInv

LEMMA ReplyInv ==
  ASSUME IInv, Reply
  PROVE  IInv'
<1>1. TypeOK /\ DraftOK /\ QueueOK /\ NoRequest \notin Request
  BY AgentAssumption DEF IInv
<1>2. /\ lock # NoRequest /\ turn.at = "reply"
      /\ pc' = [pc EXCEPT ![lock] = "done"] /\ lock' = NoRequest /\ turn' = NoTurn
      /\ UNCHANGED <<log, draft, upload, view, calls, touches, aborts, lost>>
  BY DEF Reply, Working
<1>3. lock \in Request /\ log \in Seq(Row) /\ turn.tokens \in Nat
  BY <1>2, LoopFacts
<1>4. ASSUME NEW r \in Request PROVE OwnOK(r)'
  <2>1. CASE r = lock
    <3>1. pc'[r] = "done"
      BY <1>1, <1>2, <2>1 DEF TypeOK
    <3>. QED BY <3>1 DEF OwnOK
  <2>2. CASE r # lock
    <3>1. OwnRows(r)' = OwnRows(r)
      BY <1>2 DEF OwnRows
    <3>2. pc'[r] = pc[r] /\ pc[r] # "turn"
      BY <1>1, <1>2, <2>2 DEF TypeOK
    <3>. QED BY <3>1, <3>2, OwnUnchanged
  <2>. QED BY <2>1, <2>2
<1>5. DraftOK'
  BY <1>1, <1>2, <1>3, DraftKept
<1>6. TypeOK'
  <2>1. /\ pc' \in [Request -> {"idle", "waiting", "turn", "done", "aborted"}]
        /\ lock' \in Request \cup {NoRequest}
        /\ \A x \in Request : pc'[x] = "turn" <=> lock' = x
    BY <1>1, <1>2, <1>3 DEF TypeOK
  <2>2. turn' \in [at : {"model", "call", "tool", "chain", "search", "vision", "reply"},
                   iteration : 0 .. MAX_TOOL_ITERATIONS, queue : Seq(Call),
                   seen : SUBSET Call, ran : Nat, tokens : Nat]
    <3>1. <<>> \in Seq(Call) /\ 0 \in 0 .. MAX_TOOL_ITERATIONS
      BY AgentAssumption
    <3>. QED BY <1>2, <3>1 DEF NoTurn
  <2>3. session' \in Session
    <3>1. ASSUME NEW own \in Nat, NEW name \in {"none", "chosen", "generated"},
                 Commit(own, name)
          PROVE  session' \in Session
      <4>1. session \in Session /\ view[lock] \in Session
        BY <1>1, <1>3 DEF TypeOK
      <4>2. session.tokens \in Nat /\ view[lock].tokens + own \in Nat
        BY <4>1 DEF Session
      <4>3. session' = [session EXCEPT !.title = name,
                          !.tokens = IF own = 0 THEN session.tokens ELSE view[lock].tokens + own]
        BY <3>1 DEF Commit
      <4>. QED BY <4>1, <4>2, <4>3 DEF Session
    <3>2. session.title \in {"none", "chosen", "generated"}
      BY <1>1 DEF TypeOK, Session
    <3>3. turn.tokens + 1 \in Nat
      BY <1>3
    <3>4. Commit(turn.tokens, session.title) \/ Commit(turn.tokens + 1, "generated")
      BY DEF Reply
    <3>. QED BY <1>3, <3>1, <3>2, <3>3, <3>4
  <2>. QED BY <1>1, <1>2, <2>1, <2>2, <2>3 DEF TypeOK
<1>7. QueueOK'
  BY <1>2 DEF QueueOK, NoTurn
<1>. QED BY <1>4, <1>5, <1>6, <1>7 DEF IInv

\* What happens beside the requests and their rows.
LEMMA AsideInv ==
  ASSUME IInv, rename_session \/ soft_delete_session \/ store_upload \/ cancel_upload
  PROVE  IInv'
<1>1. TypeOK /\ DraftOK /\ QueueOK
  BY DEF IInv
<1>2. UNCHANGED <<log, draft, pc, view, lock, turn, calls, lost>>
  BY DEF rename_session, soft_delete_session, store_upload, cancel_upload
<1>3. log \in Seq(Row)
  BY <1>1 DEF TypeOK
<1>4. ASSUME NEW r \in Request PROVE OwnOK(r)'
  <2>1. OwnRows(r)' = OwnRows(r)
    BY <1>2 DEF OwnRows
  <2>. QED BY <1>2, <2>1, OwnUnchanged
<1>5. DraftOK'
  BY <1>1, <1>2, <1>3, DraftKept
<1>6. touches' \in Nat /\ aborts' \in Nat
  BY <1>1 DEF TypeOK, Touch, rename_session, soft_delete_session, store_upload, cancel_upload
<1>7. session' \in Session
  <2>1. session \in Session
    BY <1>1 DEF TypeOK
  <2>2. \/ session' = session \/ session' = [session EXCEPT !.title = "chosen"]
        \/ session' = [session EXCEPT !.deleted = TRUE]
    BY DEF rename_session, soft_delete_session, store_upload, cancel_upload
  <2>. QED BY <2>1, <2>2 DEF Session
<1>8. upload' \in [status : {"none", "uploaded", "validated", "rejected", "cancelled"},
                   file : BOOLEAN]
  <2>1. upload \in [status : {"none", "uploaded", "validated", "rejected", "cancelled"},
                    file : BOOLEAN]
    BY <1>1 DEF TypeOK
  <2>2. \/ upload' = upload \/ upload' = [status |-> "uploaded", file |-> TRUE]
        \/ upload' = [status |-> "cancelled", file |-> FALSE]
        \/ upload' = [upload EXCEPT !.file = FALSE]
    BY DEF rename_session, soft_delete_session, store_upload, cancel_upload
  <2>3. CASE upload' = upload
    BY <2>1, <2>3
  <2>6. CASE upload' = [status |-> "uploaded", file |-> TRUE]
    BY <2>6
  <2>4. CASE upload' = [status |-> "cancelled", file |-> FALSE]
    BY <2>4
  <2>5. CASE upload' = [upload EXCEPT !.file = FALSE]
    BY <2>1, <2>5
  <2>. QED BY <2>2, <2>3, <2>4, <2>5, <2>6
<1>9. TypeOK'
  BY <1>1, <1>2, <1>6, <1>7, <1>8 DEF TypeOK
<1>10. QueueOK'
  BY <1>1, <1>2 DEF QueueOK
<1>. QED BY <1>4, <1>5, <1>9, <1>10 DEF IInv

LEMMA pushChatConfirmationInv ==
  ASSUME IInv, _push_chat_confirmation
  PROVE  IInv'
<1> DEFINE e == Text(NoRequest, "text")
<1>1. TypeOK /\ DraftOK /\ QueueOK /\ NoRequest \notin Request
  BY AgentAssumption DEF IInv
<1>2. /\ draft.status = "awaiting_payment" /\ draft' = [draft EXCEPT !.status = "paid"]
      /\ log' = Append(log, e)
      /\ UNCHANGED <<session, upload, pc, view, lock, turn, calls, touches, aborts, lost>>
  BY DEF _push_chat_confirmation
<1>3. e \in Row /\ e.by = NoRequest /\ e \notin Drafts
  <2>1. NoCall \in Call /\ 0 \in Nat
    BY DEF NoCall, Call
  <2>2. e \in Row
    BY <2>1, RowsTyped
  <2>. QED BY <2>2 DEF Text, Drafts
<1>4. log \in Seq(Row)
  BY <1>1 DEF TypeOK
<1>5. draft \in [mark : Mark \cup {Blank},
                 status : {"none", "collecting", "validated", "awaiting_payment", "paid"}]
  BY <1>1 DEF TypeOK
<1> HIDE DEF e
<1>6. ASSUME NEW r \in Request PROVE OwnOK(r)'
  <2>1. OwnRows(r)' = IF e.by = r THEN Append(OwnRows(r), e) ELSE OwnRows(r)
    BY <1>2, <1>3, <1>4, OwnAppend
  <2>2. OwnRows(r)' = OwnRows(r)
    BY <1>1, <1>3, <2>1
  <2>. QED BY <1>2, <2>2, OwnUnchanged
<1>7. DraftOK'
  <2>1. draft'.mark = draft.mark /\ draft # NoDraft
    BY <1>2, <1>5 DEF NoDraft
  <2>. QED BY <1>1, <1>2, <1>3, <1>4, <2>1, DraftKept
<1>8. TypeOK'
  <2>1. log' \in Seq(Row)
    BY <1>2, <1>3, <1>4
  <2>2. draft' \in [mark : Mark \cup {Blank},
                    status : {"none", "collecting", "validated", "awaiting_payment", "paid"}]
    BY <1>2, <1>5
  <2>. QED BY <1>1, <1>2, <2>1, <2>2 DEF TypeOK
<1>9. QueueOK'
  BY <1>1, <1>2 DEF QueueOK
<1>. QED BY <1>6, <1>7, <1>8, <1>9 DEF IInv

LEMMA NextInv == IInv /\ [Next]_vars => IInv'
<1> SUFFICES ASSUME IInv, [Next]_vars PROVE IInv'
  OBVIOUS
<1>1. ASSUME NEW r \in Request, Send(r) \/ append_user_message(r) \/ Abort(r)
      PROVE  IInv'
  BY <1>1, SendInv, appendUserMessageInv, AbortInv
<1>2. CASE AskModel \/ Exhausted \/ PersistCall \/ Duplicate
  BY <1>2, AskModelInv, ExhaustedInv, PersistCallInv, DuplicateInv
<1>3. CASE create_case_draft \/ PersistChain \/ ChainResult
  BY <1>3, createCaseDraftInv, PersistChainInv, ChainResultInv
<1>4. CASE prepare_payment \/ OtherTool \/ validate_uploaded_document \/ mark_validated
  BY <1>4, preparePaymentInv, OtherToolInv, validateInv, markValidatedInv
<1>5. CASE Reply
  BY <1>5, ReplyInv
<1>6. CASE rename_session \/ soft_delete_session \/ store_upload \/ cancel_upload
  BY <1>6, AsideInv
<1>7. CASE _push_chat_confirmation
  BY <1>7, pushChatConfirmationInv
<1>8. CASE UNCHANGED vars
  <2>1. UNCHANGED <<session, log, draft, upload, pc, view, lock, turn, calls, touches,
                    aborts, lost>>
    BY <1>8 DEF vars
  <2>2. \A r \in Request : OwnOK(r)'
    <3> TAKE r \in Request
    <3>1. OwnRows(r)' = OwnRows(r)
      BY <2>1 DEF OwnRows
    <3>. QED BY <2>1, <3>1, OwnUnchanged
  <2>3. TypeOK'
    BY <2>1 DEF IInv, TypeOK
  <2>4. QueueOK'
    BY <2>1 DEF IInv, QueueOK
  <2>5. DraftOK'
    BY <2>1 DEF IInv, DraftOK
  <2>. QED BY <2>2, <2>3, <2>4, <2>5 DEF IInv
<1>. QED BY <1>1, <1>2, <1>3, <1>4, <1>5, <1>6, <1>7, <1>8 DEF Next

\* The invariant holds throughout: no step of a turn, of another request, of a
\* payment or of a rollback takes a row from those of another request or adds
\* one to them, whatever the order in which they are written.
THEOREM Invariance == Spec => []IInv
BY InitInv, NextInv, PTL DEF Spec
-----------------------------------------------------------------------------
(* What the model sees.                                                    *)

LEMMA EndOfSequence ==
  ASSUME NEW s \in Seq(Row), NEW d \in 0 .. Len(s)
  PROVE  /\ SubSeq(s, d + 1, Len(s)) \in Seq(Row)
         /\ Len(SubSeq(s, d + 1, Len(s))) = Len(s) - d
         /\ \A i \in 1 .. Len(s) - d : SubSeq(s, d + 1, Len(s))[i] = s[d + i]
<1>1. Len(s) \in Nat /\ d \in Nat /\ d <= Len(s)
  OBVIOUS
<1>2. \A i \in d + 1 .. Len(s) : s[i] \in Row
  BY <1>1
<1>3. SubSeq(s, d + 1, Len(s)) \in Seq(Row) /\ Len(SubSeq(s, d + 1, Len(s))) = Len(s) - d
  BY <1>1, <1>2
<1>4. ASSUME NEW i \in 1 .. Len(s) - d PROVE SubSeq(s, d + 1, Len(s))[i] = s[d + i]
  BY <1>1
<1>. QED BY <1>3, <1>4

LEMMA LargerOfTwo ==
  ASSUME NEW a \in Int, NEW b \in Int
  PROVE  Max({a, b}) = IF a >= b THEN a ELSE b
<1>1. \E x \in {a, b} : \A y \in {a, b} : x >= y
  OBVIOUS
<1>2. Max({a, b}) \in {a, b} /\ \A y \in {a, b} : Max({a, b}) >= y
  BY <1>1 DEF Max
<1>. QED BY <1>2

SeenBy(r) == {row \in Row : Visible(r, row)}

LEMMA SeenProperties ==
  ASSUME log \in Seq(Row), NEW r
  PROVE  /\ SeenRows(r) = Picked(log, SeenBy(r)) /\ SeenRows(r) \in Seq(Row)
         /\ Picked(SeenRows(r), OwnBy(r)) = OwnRows(r)
<1>1. {i \in 1 .. Len(log) : Visible(r, log[i])} = Where(log, SeenBy(r))
  <2>1. \A i \in 1 .. Len(log) : log[i] \in Row
    OBVIOUS
  <2>. QED BY <2>1 DEF Where, SeenBy
<1>2. SeenRows(r) = Picked(log, SeenBy(r))
  BY <1>1 DEF SeenRows, Picked
<1>3. OwnBy(r) \subseteq SeenBy(r)
  BY DEF OwnBy, SeenBy, Visible
<1>4. Picked(Picked(log, SeenBy(r)), OwnBy(r)) = Picked(log, OwnBy(r))
  BY <1>3, PickedTwice
<1>5. Picked(log, SeenBy(r)) \in Seq(Row)
  BY PickedTyped
<1>. QED BY <1>2, <1>4, <1>5 DEF OwnRows

\* The history is the end of the rows, at most MAX_HISTORY_MESSAGES of them.
LEMMA HistoryProperties ==
  ASSUME log \in Seq(Row), NEW r
  PROVE  \E d \in 0 .. Len(SeenRows(r)) :
           /\ _load_history(r) \in Seq(Row)
           /\ Len(_load_history(r)) = Len(SeenRows(r)) - d
           /\ \A i \in 1 .. Len(SeenRows(r)) - d : _load_history(r)[i] = SeenRows(r)[d + i]
           /\ d = 0 \/ d = Len(SeenRows(r)) - MAX_HISTORY_MESSAGES
<1> DEFINE rows == SeenRows(r)
           L == Len(rows)
           M == MAX_HISTORY_MESSAGES
           d == IF 1 >= L - M + 1 THEN 0 ELSE L - M
<1>1. rows \in Seq(Row) /\ L \in Nat /\ M \in Nat
  BY SeenProperties, AgentAssumption
<1>2. _load_history(r) = SubSeq(rows, Max({1, L - M + 1}), L)
  BY DEF _load_history
<1> HIDE DEF rows, M
<1>3. Max({1, L - M + 1}) = IF 1 >= L - M + 1 THEN 1 ELSE L - M + 1
  <2>1. L - M + 1 \in Int /\ 1 \in Int
    BY <1>1
  <2> HIDE DEF L
  <2>. QED BY <2>1, LargerOfTwo
<1>4. Max({1, L - M + 1}) = d + 1 /\ d \in 0 .. L
  BY <1>1, <1>3
<1>5. d = 0 \/ d = L - M
  OBVIOUS
<1> HIDE DEF d
<1>6. /\ SubSeq(rows, d + 1, L) \in Seq(Row) /\ Len(SubSeq(rows, d + 1, L)) = L - d
      /\ \A i \in 1 .. L - d : SubSeq(rows, d + 1, L)[i] = rows[d + i]
  BY <1>1, <1>4, EndOfSequence
<1>. QED BY <1>2, <1>4, <1>5, <1>6 DEF rows, M

\* From the last message of a user on, rows that are in pairs are all sent.
LEMMA EndIsSent ==
  ASSUME NEW H \in Seq(Row), NEW b \in 1 .. Len(H), H[b].kind = "user",
         \A i \in b + 1 .. Len(H) :
           /\ H[i].kind \notin {"user", "text"}
           /\ H[i].kind = "call" => is_paired(H, i)
           /\ H[i].kind = "result" => is_paired(H, i - 1)
  PROVE  \A i \in b .. Len(H) :
           \E j \in 1 .. Len(_to_llm_messages(H)) : _to_llm_messages(H)[j] = H[i]
<1> DEFINE K == Kept(H)
           msgs == paired(H)
           q == Place(K, b)
<1>1. Len(H) \in Nat /\ b \in Nat /\ b <= Len(H) /\ \A i \in 1 .. Len(H) : H[i] \in Row
  OBVIOUS
<1>2. ASSUME NEW i \in b .. Len(H) PROVE i \in K /\ Shown(H, i) = H[i]
  <2>1. i \in 1 .. Len(H) /\ (i = b \/ i \in b + 1 .. Len(H))
    BY <1>1
  <2>2. H[i].kind \in {"user", "text", "call", "result"}
    BY <1>1, <2>1 DEF Row
  <2>3. /\ H[i].kind = "call" => is_paired(H, i)
        /\ H[i].kind = "result" => is_paired(H, i - 1)
    BY <2>1
  <2>4. i \in K
    BY <2>1, <2>2, <2>3 DEF Kept
  <2>5. Shown(H, i) = H[i]
    BY <2>3 DEF Shown
  <2>. QED BY <2>4, <2>5
<1>3. /\ K \in SUBSET (1 .. Len(H)) /\ msgs \in Seq(Row) /\ Len(msgs) = Cardinality(K)
      /\ Len(msgs) \in Nat
      /\ \A n \in 1 .. Len(msgs) : msgs[n] = Shown(H, Nth(K, n))
      /\ WellPaired(msgs)
  BY PairedProperties, PairedIsWellPaired
<1> HIDE DEF K, msgs
<1>4. /\ \A n \in 1 .. Len(msgs) : Nth(K, n) \in K /\ Place(K, Nth(K, n)) = n
      /\ \A i \in K : Place(K, i) \in 1 .. Len(msgs) /\ Nth(K, Place(K, i)) = i
      /\ \A m, n \in 1 .. Len(msgs) : m < n <=> Nth(K, m) < Nth(K, n)
  BY <1>1, <1>3, NthProperties
<1>5. ASSUME NEW i \in b .. Len(H)
      PROVE  Place(K, i) \in 1 .. Len(msgs) /\ msgs[Place(K, i)] = H[i]
  BY <1>2, <1>3, <1>4
<1>6. b \in b .. Len(H) /\ b \in K
  BY <1>1, <1>2
<1>7. q \in 1 .. Len(msgs) /\ msgs[q].kind = "user" /\ Nth(K, q) = b
  BY <1>4, <1>5, <1>6
<1>8. ASSUME NEW k \in q + 1 .. Len(msgs) PROVE msgs[k].kind # "user"
  <2>1. k \in 1 .. Len(msgs) /\ q < k
    BY <1>3, <1>7
  <2>2. b < Nth(K, k) /\ Nth(K, k) \in K
    BY <1>4, <1>7, <2>1
  <2>3. Nth(K, k) \in b + 1 .. Len(H) /\ Nth(K, k) \in b .. Len(H)
    <3>1. Nth(K, k) \in 1 .. Len(H)
      BY <1>3, <2>2
    <3>. QED BY <1>1, <2>2, <3>1
  <2>4. msgs[k] = H[Nth(K, k)]
    BY <1>2, <1>3, <2>1, <2>3
  <2>. QED BY <2>3, <2>4
<1>9. ASSUME NEW i \in b .. Len(H) PROVE q <= Place(K, i)
  <2>1. Place(K, i) \in 1 .. Len(msgs) /\ Nth(K, Place(K, i)) = i /\ i \in K
    BY <1>2, <1>4
  <2>2. ~(Place(K, i) < q)
    <3> SUFFICES ASSUME Place(K, i) < q PROVE FALSE
      OBVIOUS
    <3>1. i < b
      BY <1>4, <1>7, <2>1
    <3>. QED BY <1>1, <3>1
  <2>. QED BY <1>3, <1>7, <2>1, <2>2
<1>10. PICK start \in Cuts(msgs) : _to_llm_messages(H) = SubSeq(msgs, start + 1, Len(msgs))
  BY PromptIsAnEnd DEF msgs
<1>11. start \in 0 .. Len(msgs) /\ start < q
  <2> HIDE DEF q
  <2>. QED BY <1>3, <1>7, <1>8, CutsProperties
<1>12. PICK P : P = SubSeq(msgs, start + 1, Len(msgs))
  OBVIOUS
<1>13. Len(P) = Len(msgs) - start /\ \A j \in 1 .. Len(msgs) - start : P[j] = msgs[start + j]
  BY <1>3, <1>11, <1>12, EndOfSequence
<1> HIDE DEF q
<1>14. ASSUME NEW i \in b .. Len(H) PROVE \E j \in 1 .. Len(P) : P[j] = H[i]
  <2>1. Place(K, i) \in 1 .. Len(msgs) /\ msgs[Place(K, i)] = H[i] /\ q <= Place(K, i)
    BY <1>5, <1>9
  <2>2. /\ Place(K, i) - start \in 1 .. Len(msgs) - start
        /\ start + (Place(K, i) - start) = Place(K, i)
    BY <1>3, <1>7, <1>11, <2>1
  <2>. QED BY <1>13, <2>1, <2>2
<1>. QED BY <1>10, <1>12, <1>14

\* The rows of a turn are the end of what it sees when nobody else has written
\* since its message.
LEMMA OwnAreTheEnd ==
  ASSUME IInv, Working("model"),
         NEW first, first = CHOOSE i \in 1 .. Len(SeenRows(lock)) :
                              SeenRows(lock)[i] = Text(lock, "user"),
         first .. Len(SeenRows(lock)) =
           {i \in first .. Len(SeenRows(lock)) : SeenRows(lock)[i].by = lock}
  PROVE  /\ first \in 1 .. Len(SeenRows(lock))
         /\ Len(OwnRows(lock)) = Len(SeenRows(lock)) - first + 1
         /\ \A n \in 1 .. Len(OwnRows(lock)) :
              OwnRows(lock)[n] = SeenRows(lock)[first + n - 1]
<1> DEFINE rows == SeenRows(lock)
           B == OwnBy(lock)
           J == Where(rows, B)
           s == OwnRows(lock)
<1>1. /\ lock \in Request /\ log \in Seq(Row) /\ s \in Seq(Row)
      /\ TurnRows(s, lock, turn)
  BY LoopFacts DEF Working
<1>2. rows \in Seq(Row) /\ s = Picked(rows, B)
  BY <1>1, SeenProperties
<1>3. Text(lock, "user") \in B /\ Text(lock, "user").kind = "user"
  <2>1. NoCall \in Call /\ 0 \in Nat
    BY DEF NoCall, Call
  <2>2. Text(lock, "user") \in Row
    BY <1>1, <2>1, RowsTyped
  <2>. QED BY <2>2 DEF OwnBy, Text
<1>4. /\ Len(s) >= 1 /\ s[1] = Text(lock, "user") /\ Len(s) \in Nat
      /\ \A n \in 2 .. Len(s) : s[n].kind # "user"
  BY <1>1 DEF TurnRows
<1> HIDE DEF rows, B, s
<1>5. /\ J \in SUBSET (1 .. Len(rows)) /\ Len(rows) \in Nat /\ Len(s) = Cardinality(J)
      /\ \A n \in 1 .. Len(s) : Nth(J, n) \in J /\ s[n] = rows[Nth(J, n)]
  BY <1>2, PickedTyped
<1>6. \A i : i \in J <=> i \in 1 .. Len(rows) /\ rows[i] \in B
  BY DEF Where
<1> HIDE DEF J
<1>7. first \in 1 .. Len(rows) /\ rows[first] = Text(lock, "user")
  <2>1. 1 \in 1 .. Len(s)
    BY <1>4
  <2>2. Nth(J, 1) \in 1 .. Len(rows) /\ rows[Nth(J, 1)] = Text(lock, "user")
    BY <1>4, <1>5, <2>1
  <2>3. \E i \in 1 .. Len(rows) : rows[i] = Text(lock, "user")
    BY <2>2
  <2>4. first = CHOOSE i \in 1 .. Len(rows) : rows[i] = Text(lock, "user")
    BY DEF rows
  <2>. QED BY <2>3, <2>4
<1>8. first \in J
  BY <1>3, <1>6, <1>7
<1>9. /\ \A i \in J : Place(J, i) \in 1 .. Len(s) /\ Nth(J, Place(J, i)) = i
      /\ \A m, n \in 1 .. Len(s) : m < n <=> Nth(J, m) < Nth(J, n)
  BY <1>5, NthProperties
<1>10. Place(J, first) = 1
  <2>1. Place(J, first) \in 1 .. Len(s) /\ s[Place(J, first)] = rows[first]
    BY <1>5, <1>8, <1>9
  <2>2. s[Place(J, first)].kind = "user"
    BY <1>3, <1>7, <2>1
  <2>3. Place(J, first) \notin 2 .. Len(s)
    BY <1>4, <2>2
  <2>. QED BY <1>4, <2>1, <2>3
<1>11. ASSUME NEW j \in J PROVE first <= j
  <2>1. Place(J, j) \in 1 .. Len(s) /\ Nth(J, Place(J, j)) = j /\ Nth(J, 1) = first
        /\ 1 \in 1 .. Len(s)
    BY <1>4, <1>8, <1>9, <1>10
  <2>2. CASE Place(J, j) = 1
    <3>1. j = first /\ first \in Int
      BY <1>7, <2>1, <2>2
    <3>. QED BY <3>1
  <2>3. CASE 1 < Place(J, j)
    <3>1. \A x \in J : x \in 1 .. Len(rows)
      BY <1>5
    <3>2. first \in 1 .. Len(rows) /\ j \in 1 .. Len(rows)
      BY <1>8, <3>1
    <3>3. first \in Int /\ j \in Int
      BY <1>5, <3>2
    <3>4. Nth(J, 1) < Nth(J, Place(J, j))
      BY <1>9, <2>1, <2>3
    <3>5. first < j
      BY <2>1, <3>4
    <3>. QED BY <3>3, <3>5
  <2>. QED BY <1>4, <2>1, <2>2, <2>3
<1>12. J = first .. Len(rows)
  <2>1. \A j \in J : j \in first .. Len(rows)
    BY <1>5, <1>6, <1>7, <1>11
  <2>2. ASSUME NEW i \in first .. Len(rows) PROVE i \in J
    <3>1. rows[i].by = lock
      BY DEF rows
    <3>2. i \in 1 .. Len(rows)
      BY <1>5, <1>7
    <3>3. rows[i] \in B
      BY <1>2, <3>1, <3>2 DEF B, OwnBy
    <3>. QED BY <1>6, <3>2, <3>3
  <2>. QED BY <2>1, <2>2
<1>13. /\ Len(Picked(rows, B)) = Len(rows) - first + 1
       /\ \A n \in 1 .. Len(rows) - first + 1 : Picked(rows, B)[n] = rows[first + n - 1]
  <2>1. Where(rows, B) = first .. Len(rows)
    BY <1>12 DEF J
  <2>2. rows \in Seq(Row) /\ first \in 1 .. Len(rows)
    BY <1>2, <1>7
  <2>3. \A r \in Seq(Row) : \A f \in 1 .. Len(r) : Where(r, B) = f .. Len(r) =>
          /\ Len(Picked(r, B)) = Len(r) - f + 1
          /\ \A n \in 1 .. Len(r) - f + 1 : Picked(r, B)[n] = r[f + n - 1]
    BY PickedEnd
  <2>. QED BY <2>1, <2>2, <2>3
<1>. QED BY <1>2, <1>7, <1>13 DEF rows, s

LEMMA PromptIsPairedInv == IInv => PromptIsPaired
<1> SUFFICES ASSUME IInv, Working("model") PROVE PromptIsPaired
  BY DEF PromptIsPaired
<1>1. log \in Seq(Row)
  BY DEF IInv, TypeOK
<1>2. _load_history(lock) \in Seq(Row)
  BY <1>1, HistoryProperties
<1>3. WellPaired(Prompt(lock))
  BY <1>2, PromptPaired DEF Prompt
<1>. QED BY <1>3 DEF PromptIsPaired, WellPaired

LEMMA DraftIsAsShownInv == IInv => DraftIsAsShown
<1> SUFFICES ASSUME IInv PROVE DraftIsAsShown
  OBVIOUS
<1> DEFINE shown == {i \in 1 .. Len(log) : /\ log[i].kind = "result" /\ log[i].fresh
                                          /\ log[i].call.tool = "create_case_draft"}
           d == Picked(log, Drafts)
<1>1. log \in Seq(Row) /\ DraftOK
  BY DEF IInv, TypeOK
<1>2. shown = Where(log, Drafts)
  <2>1. \A i \in 1 .. Len(log) : log[i] \in Row
    BY <1>1
  <2>. QED BY <2>1 DEF Where, Drafts
<1>3. ~ lost => IF Len(d) = 0 THEN draft = NoDraft ELSE draft.mark = d[Len(d)].call.mark
  BY <1>1 DEF DraftOK
<1> HIDE DEF shown
<1>4. /\ shown \in SUBSET (1 .. Len(log)) /\ Len(log) \in Nat
      /\ Len(d) = Cardinality(shown) /\ Len(d) \in Nat
      /\ \A n \in 1 .. Len(d) : d[n] = log[Nth(shown, n)]
  BY <1>1, <1>2, PickedTyped
<1> HIDE DEF d
<1>5. CASE shown = {}
  <2>1. Len(d) = 0
    BY <1>4, <1>5, FS_EmptySet
  <2>. QED BY <1>3, <1>5, <2>1 DEF DraftIsAsShown, shown
<1>6. CASE shown # {}
  <2>1. shown \in SUBSET (0 .. Len(log))
    BY <1>4
  <2>2. Max(shown) \in shown /\ \A y \in shown : y <= Max(shown)
    BY <1>4, <1>6, <2>1, LargestMember
  <2>3. /\ \A n \in 1 .. Len(d) : Nth(shown, n) \in shown
        /\ \A i \in shown : Place(shown, i) \in 1 .. Len(d) /\ Nth(shown, Place(shown, i)) = i
        /\ \A m, n \in 1 .. Len(d) : m < n <=> Nth(shown, m) < Nth(shown, n)
    BY <1>4, NthProperties
  <2>4. Place(shown, Max(shown)) \in 1 .. Len(d) /\ Nth(shown, Place(shown, Max(shown))) = Max(shown)
    BY <2>2, <2>3
  <2>5. Len(d) \in 1 .. Len(d)
    BY <1>4, <2>4
  <2>6. ~(Place(shown, Max(shown)) < Len(d))
    <3> SUFFICES ASSUME Place(shown, Max(shown)) < Len(d) PROVE FALSE
      OBVIOUS
    <3>1. Max(shown) < Nth(shown, Len(d))
      BY <2>3, <2>4, <2>5
    <3>2. Nth(shown, Len(d)) <= Max(shown)
      BY <2>2, <2>3, <2>5
    <3>3. \A x \in shown : x \in 1 .. Len(log)
      BY <1>4
    <3>4. Max(shown) \in 1 .. Len(log) /\ Nth(shown, Len(d)) \in 1 .. Len(log)
      BY <2>2, <2>3, <2>5, <3>3
    <3>5. Max(shown) \in Int /\ Nth(shown, Len(d)) \in Int
      BY <1>4, <3>4
    <3>. QED BY <3>1, <3>2, <3>5
  <2>7. Place(shown, Max(shown)) = Len(d) /\ Len(d) # 0
    BY <1>4, <2>4, <2>6
  <2>8. d[Len(d)] = log[Max(shown)]
    BY <1>4, <2>4, <2>5, <2>7
  <2>. QED BY <1>3, <1>6, <2>7, <2>8 DEF DraftIsAsShown, shown
<1>. QED BY <1>5, <1>6

LEMMA TurnIsRememberedInv == IInv => TurnIsRemembered
<1> DEFINE rows == SeenRows(lock)
           H == _load_history(lock)
           P == Prompt(lock)
           s == OwnRows(lock)
           first == CHOOSE i \in 1 .. Len(rows) : rows[i] = Text(lock, "user")
           own == {i \in first .. Len(rows) : rows[i].by = lock}
<1> SUFFICES ASSUME IInv, Working("model"),
                    first .. Len(rows) = own, Cardinality(own) <= MAX_HISTORY_MESSAGES
             PROVE  \A i \in own : \E j \in 1 .. Len(P) : P[j] = rows[i]
  BY DEF TurnIsRemembered
<1>1. /\ log \in Seq(Row) /\ s \in Seq(Row) /\ TurnRows(s, lock, turn)
      /\ turn.at = "model"
  BY LoopFacts DEF Working
<1>2. rows \in Seq(Row) /\ Len(rows) \in Nat
  BY <1>1, SeenProperties
<1>3. /\ first \in 1 .. Len(rows) /\ Len(s) = Len(rows) - first + 1
      /\ \A n \in 1 .. Len(s) : s[n] = rows[first + n - 1]
  BY OwnAreTheEnd
<1>4. PICK d \in 0 .. Len(rows) :
        /\ H \in Seq(Row) /\ Len(H) = Len(rows) - d
        /\ \A i \in 1 .. Len(rows) - d : H[i] = rows[d + i]
        /\ d = 0 \/ d = Len(rows) - MAX_HISTORY_MESSAGES
  BY <1>1, HistoryProperties
<1>5. P = _to_llm_messages(H)
  BY DEF Prompt
<1>6. own = first .. Len(rows) /\ Cardinality(own) <= MAX_HISTORY_MESSAGES
  OBVIOUS
<1> HIDE DEF rows, H, P, s, first, own
<1>7. d < first
  <2>1. Cardinality(first .. Len(rows)) = Len(rows) - first + 1
    BY <1>2, <1>3, FS_Interval
  <2>2. Len(rows) - first + 1 <= MAX_HISTORY_MESSAGES /\ MAX_HISTORY_MESSAGES \in Nat
    BY <1>6, <2>1, AgentAssumption
  <2>. QED BY <1>2, <1>3, <1>4, <2>2
<1> DEFINE b == first - d
<1>8. /\ b \in 1 .. Len(H) /\ b \in Nat /\ d \in Nat /\ first \in Nat /\ Len(H) \in Nat
      /\ Len(s) = Len(H) - b + 1
  BY <1>2, <1>3, <1>4, <1>7
<1>9. ASSUME NEW i \in b .. Len(H) PROVE i - b + 1 \in 1 .. Len(s) /\ H[i] = s[i - b + 1]
  <2>1. i - b + 1 \in 1 .. Len(s) /\ i \in 1 .. Len(rows) - d
    BY <1>4, <1>8
  <2>2. H[i] = rows[d + i] /\ s[i - b + 1] = rows[first + (i - b + 1) - 1]
    BY <1>3, <1>4, <2>1
  <2>3. first + (i - b + 1) - 1 = d + i
    BY <1>8
  <2>. QED BY <2>1, <2>2, <2>3
<1>10. /\ s[1].kind = "user"
       /\ \A n \in 2 .. Len(s) :
            /\ s[n].kind \notin {"user", "text"}
            /\ s[n].kind = "call" => is_paired(s, n)
            /\ s[n].kind = "result" => is_paired(s, n - 1)
  BY <1>1 DEF TurnRows, Open, Text
<1> HIDE DEF b
<1>11. ASSUME NEW i \in b .. Len(H), is_paired(s, i - b + 1) PROVE is_paired(H, i)
  <2>1. i - b + 1 \in 1 .. Len(s) - 1
    BY <1>11 DEF is_paired
  <2>2. i \in 1 .. Len(H) - 1 /\ i + 1 \in b .. Len(H) /\ (i + 1) - b + 1 = (i - b + 1) + 1
    BY <1>8, <2>1
  <2>3. H[i] = s[i - b + 1] /\ H[i + 1] = s[(i - b + 1) + 1]
    <3>1. H[i + 1] = s[(i + 1) - b + 1]
      BY <1>9, <2>2
    <3>. QED BY <1>9, <2>2, <3>1
  <2>. QED BY <1>11, <2>2, <2>3 DEF is_paired
<1>12. ASSUME NEW i \in b + 1 .. Len(H)
       PROVE  /\ H[i].kind \notin {"user", "text"}
              /\ H[i].kind = "call" => is_paired(H, i)
              /\ H[i].kind = "result" => is_paired(H, i - 1)
  <2>1. /\ i \in b .. Len(H) /\ i - b + 1 \in 2 .. Len(s)
        /\ i - 1 \in b .. Len(H) /\ (i - 1) - b + 1 = (i - b + 1) - 1
    BY <1>8
  <2>2. H[i] = s[i - b + 1]
    BY <1>9, <2>1
  <2>3. s[i - b + 1].kind \notin {"user", "text"}
    BY <1>10, <2>1
  <2>4. s[i - b + 1].kind = "call" => is_paired(H, i)
    BY <1>10, <1>11, <2>1
  <2>5. s[i - b + 1].kind = "result" => is_paired(H, i - 1)
    <3> SUFFICES ASSUME s[i - b + 1].kind = "result" PROVE is_paired(H, i - 1)
      OBVIOUS
    <3>1. is_paired(s, (i - b + 1) - 1)
      BY <1>10, <2>1
    <3>2. is_paired(s, (i - 1) - b + 1)
      BY <2>1, <3>1
    <3>. QED BY <1>11, <2>1, <3>2
  <2>. QED BY <2>2, <2>3, <2>4, <2>5
<1>13. H[b].kind = "user"
  <2>1. b \in b .. Len(H) /\ b - b + 1 = 1
    BY <1>8
  <2>. QED BY <1>9, <1>10, <2>1
<1>14. \A i \in b .. Len(H) : \E j \in 1 .. Len(P) : P[j] = H[i]
  <2>1. \A i \in b .. Len(H) :
          \E j \in 1 .. Len(_to_llm_messages(H)) : _to_llm_messages(H)[j] = H[i]
    BY <1>4, <1>8, <1>12, <1>13, EndIsSent
  <2>. QED BY <1>5, <2>1
<1>15. ASSUME NEW i \in own PROVE \E j \in 1 .. Len(P) : P[j] = rows[i]
  <2>1. i \in first .. Len(rows)
    BY <1>6
  <2>2. i - d \in b .. Len(H) /\ i - d \in 1 .. Len(rows) - d /\ d + (i - d) = i
    BY <1>2, <1>3, <1>4, <1>7, <1>8, <2>1 DEF b
  <2>3. H[i - d] = rows[i]
    BY <1>4, <2>2
  <2>. QED BY <1>14, <2>2, <2>3
<1>. QED BY <1>15

-----------------------------------------------------------------------------
(* The theorems.                                                           *)

\* The rows, the draft and the state of the loop have their types: in particular
\* a turn never counts more than MAX_TOOL_ITERATIONS, and the turn that is
\* running is that of the request that holds the session's row.
THEOREM TypeCorrect == Spec => []TypeOK
<1>1. IInv => TypeOK
  BY DEF IInv
<1>. QED BY <1>1, Invariance, PTL

\* Every prompt the model is asked with has each call followed by its result
\* and each result preceded by its call: what other requests have written in
\* between, what was rolled back and what fell out of the window or of the
\* character cap never separates the two (_to_llm_messages).
THEOREM PromptsArePaired == Spec => []PromptIsPaired
BY Invariance, PromptIsPairedInv, PTL

\* As long as nobody else writes to the chat during a turn and its rows are
\* within MAX_HISTORY_MESSAGES, every prompt of the turn has the message it
\* answers and each result it has asked for: neither the window of
\* _load_history nor the cap of _to_llm_messages takes one away.
THEOREM TurnsAreRemembered == Spec => []TurnIsRemembered
BY Invariance, TurnIsRememberedInv, PTL

\* The draft's mark is the one in the last result of create_case_draft that the
\* chat has kept, unless the turn that wrote it was cut off: no other tool, no
\* payment and no other request's end changes the one without the other.
THEOREM DraftsAreAsShown == Spec => []DraftIsAsShown
BY Invariance, DraftIsAsShownInv, PTL
=============================================================================

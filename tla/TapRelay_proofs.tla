-------------------------- MODULE TapRelay_proofs --------------------------
(***************************************************************************)
(* The B blocks are right for every number of stages, every split of the   *)
(* layers (empty stages included) and every set of tapped layers: what is  *)
(* sent fits what is allocated, and the last stage hands the draft what a  *)
(* single stage would.                                                     *)
(*                                                                         *)
(* The argument: what a stage has received and collected are the lists of  *)
(* two adjacent ranges of layers, and the lists of adjacent ranges         *)
(* concatenate to the list of their union.                                 *)
(***************************************************************************)
EXTENDS TapRelay, FiniteSetTheorems, SequenceTheorems, TLAPS

LEMMA LenTaps ==
  ASSUME NEW b, NEW S, IsFiniteSet(S)
  PROVE  Len(TapsOf(b, S)) = Cardinality(S)
<1>1. Cardinality(S) \in Nat
  BY FS_CardinalityType
<1>2. DOMAIN TapsOf(b, S) = 1..Cardinality(S)
  BY DEF TapsOf
<1>3. QED
  BY <1>1, <1>2 DEF TapsOf

\* Appending the list of later layers to the list of earlier ones.
LEMMA ConcatTaps ==
  ASSUME NEW b, NEW S \in SUBSET Nat, NEW T \in SUBSET Nat,
         IsFiniteSet(S), IsFiniteSet(T),
         \A x \in S, y \in T : x < y
  PROVE  TapsOf(b, S) \o TapsOf(b, T) = TapsOf(b, S \cup T)
<1> DEFINE U == S \cup T
           m == Cardinality(S)
           n == Cardinality(T)
           At(A, i) == The({L \in A : Rank(A, L) = i})
           R == {Tap(b, At(S, i)) : i \in 1..m} \cup {Tap(b, At(T, i)) : i \in 1..n}
<1>1. /\ m \in Nat /\ n \in Nat
      /\ IsFiniteSet(U) /\ Cardinality(U) = m + n
  <2>1. S \cap T = {}
    OBVIOUS
  <2>2. Cardinality(S \cap T) = 0
    BY <2>1, FS_EmptySet
  <2>3. m \in Nat /\ n \in Nat
    BY FS_CardinalityType
  <2>4. IsFiniteSet(U) /\ Cardinality(U) = m + n - Cardinality(S \cap T)
    BY FS_Union
  <2>5. QED
    BY <2>2, <2>3, <2>4
<1>2. ASSUME NEW A \in SUBSET Nat, IsFiniteSet(A), NEW L \in A
      PROVE  Rank(A, L) \in 1..Cardinality(A)
  <2> DEFINE B == {M \in A : M <= L}
  <2>1. /\ IsFiniteSet(B) /\ Cardinality(B) <= Cardinality(A)
        /\ Cardinality(B) \in Nat /\ Cardinality(A) \in Nat
    BY <1>2, FS_Subset, FS_CardinalityType
  <2>2. L \in B
    OBVIOUS
  <2>3. Cardinality(B) # 0
    BY <2>1, <2>2, FS_EmptySet
  <2>4. QED
    BY <2>1, <2>3 DEF Rank
<1> HIDE DEF m, n
<1>3. ASSUME NEW L \in S
      PROVE  Rank(U, L) = Rank(S, L)
  <2>1. \A M \in T : ~(M <= L)
    BY L \in Nat
  <2>2. {M \in U : M <= L} = {M \in S : M <= L}
    BY <2>1
  <2>3. QED
    BY <2>2 DEF Rank
<1>4. ASSUME NEW L \in T
      PROVE  Rank(U, L) = m + Rank(T, L)
  <2> DEFINE B == {M \in T : M <= L}
  <2>0. \A M \in S : M <= L
    BY L \in Nat
  <2>1. {M \in U : M <= L} = S \cup B
    BY <2>0
  <2>2. S \cap B = {}
    <3>1. S \cap T = {}
      OBVIOUS
    <3>2. QED
      BY <3>1
  <2>3. IsFiniteSet(B) /\ Cardinality(B) \in Nat
    BY FS_Subset, FS_CardinalityType
  <2>4. Cardinality(S \cup B) = m + Cardinality(B) - Cardinality(S \cap B)
    BY <2>3, FS_Union DEF m
  <2>5. Cardinality(S \cap B) = 0
    BY <2>2, FS_EmptySet
  <2>6. QED
    BY <1>1, <2>1, <2>3, <2>4, <2>5 DEF Rank
<1> DEFINE A1 == \A L \in S : Rank(S, L) \in 1..m
           A2 == \A L \in T : Rank(T, L) \in 1..n
<1>4a. A1 /\ A2
  BY <1>2 DEF m, n
<1>5. ASSUME NEW i \in 1..m
      PROVE  At(U, i) = At(S, i)
  <2>1. ASSUME NEW L \in T
        PROVE  Rank(U, L) # i
    BY <1>1, <1>4, <1>4a
  <2>2. \A L : L \in U /\ Rank(U, L) = i <=> L \in S /\ Rank(S, L) = i
    BY <1>3, <2>1
  <2>3. {L \in U : Rank(U, L) = i} = {L \in S : Rank(S, L) = i}
    BY <2>2
  <2>4. QED
    BY <2>3
<1>6. ASSUME NEW i \in 1..n
      PROVE  At(U, m + i) = At(T, i)
  <2>1. ASSUME NEW L \in S
        PROVE  Rank(U, L) # m + i
    BY <1>1, <1>3, <1>4a
  <2>2. ASSUME NEW L \in T
        PROVE  Rank(U, L) = m + i <=> Rank(T, L) = i
    <3>1. Rank(T, L) \in Int /\ Rank(U, L) = m + Rank(T, L)
      BY <1>1, <1>4, <1>4a
    <3>2. QED
      BY <1>1, <3>1
  <2>3. \A L : L \in U /\ Rank(U, L) = m + i <=> L \in T /\ Rank(T, L) = i
    BY <2>1, <2>2
  <2>4. {L \in U : Rank(U, L) = m + i} = {L \in T : Rank(T, L) = i}
    BY <2>3
  <2>5. QED
    BY <2>4
<1>7. /\ TapsOf(b, S) = [i \in 1..m |-> Tap(b, At(S, i))]
      /\ TapsOf(b, T) = [i \in 1..n |-> Tap(b, At(T, i))]
      /\ TapsOf(b, U) = [i \in 1..(m + n) |-> Tap(b, At(U, i))]
  BY <1>1 DEF TapsOf, m, n
<1> HIDE DEF At
<1>8. /\ TapsOf(b, S) \in Seq(R) /\ Len(TapsOf(b, S)) = m
      /\ TapsOf(b, T) \in Seq(R) /\ Len(TapsOf(b, T)) = n
      /\ TapsOf(b, U) \in Seq(R) /\ Len(TapsOf(b, U)) = m + n
  <2>1. \A i \in 1..m : Tap(b, At(S, i)) \in R
    OBVIOUS
  <2>2. \A i \in 1..n : Tap(b, At(T, i)) \in R
    OBVIOUS
  <2> HIDE DEF R
  <2>3. ASSUME NEW i \in 1..(m + n)
        PROVE  Tap(b, At(U, i)) \in R
    <3>1. CASE i <= m
      BY <1>1, <1>5, <2>1, <3>1
    <3>2. CASE i > m
      <4>1. i - m \in 1..n /\ m + (i - m) = i
        BY <1>1, <3>2
      <4>2. QED
        BY <1>6, <2>2, <4>1
    <3>3. QED
      BY <1>1, <3>1, <3>2
  <2>4. TapsOf(b, S) \in Seq(R) /\ Len(TapsOf(b, S)) = m
    BY <1>1, <1>7, <2>1
  <2>5. TapsOf(b, T) \in Seq(R) /\ Len(TapsOf(b, T)) = n
    BY <1>1, <1>7, <2>2
  <2>6. m + n \in Nat /\ \A i \in 1..(m + n) : Tap(b, At(U, i)) \in R
    BY <1>1, <2>3
  <2> HIDE DEF U
  <2>7. TapsOf(b, U) \in Seq(R) /\ Len(TapsOf(b, U)) = m + n
    BY <1>7, <2>6
  <2>8. QED
    BY <2>4, <2>5, <2>7
<1> HIDE DEF R
<1> DEFINE C == TapsOf(b, S) \o TapsOf(b, T)
<1>9. /\ C \in Seq(R) /\ Len(C) = m + n
      /\ \A i \in 1..(m + n) :
           C[i] = IF i <= m THEN TapsOf(b, S)[i] ELSE TapsOf(b, T)[i - m]
  BY <1>8, ConcatProperties
<1> HIDE DEF C, U
<1>10. ASSUME NEW i \in 1..(m + n)
       PROVE  C[i] = TapsOf(b, U)[i]
  <2>1. CASE i <= m
    <3>1. i \in 1..m
      BY <1>1, <2>1
    <3>2. QED
      BY <1>5, <1>7, <1>9, <2>1, <3>1
  <2>2. CASE i > m
    <3>1. i - m \in 1..n /\ m + (i - m) = i /\ ~(i <= m)
      BY <1>1, <2>2
    <3>2. At(U, i) = At(T, i - m)
      BY <1>6, <3>1
    <3>3. QED
      BY <1>7, <1>9, <3>1, <3>2, ZenonT(30)
  <2>3. QED
    BY <1>1, <2>1, <2>2
<1>11. C = TapsOf(b, U)
  BY <1>8, <1>9, <1>10, SeqEqual
<1>12. QED
  BY <1>11 DEF C, U

LEMMA EmptyTaps ==
  ASSUME NEW b
  PROVE  TapsOf(b, {}) = <<>>
BY FS_EmptySet DEF TapsOf

\* One more tapped layer, later than all before.
LEMMA AppendTap ==
  ASSUME NEW b, NEW S \in SUBSET Nat, IsFiniteSet(S), NEW L \in Nat,
         \A x \in S : x < L, NEW E, TapsOf(b, S) \in Seq(E), Tap(b, L) \in E
  PROVE  Append(TapsOf(b, S), Tap(b, L)) = TapsOf(b, S \cup {L})
<1>1. IsFiniteSet({L}) /\ Cardinality({L}) = 1
  BY FS_Singleton
<1>2. {M \in {L} : M <= L} = {L}
  OBVIOUS
<1>3. {M \in {L} : Rank({L}, M) = 1} = {L}
  BY <1>1, <1>2 DEF Rank
<1>4. The({L}) = L
  BY DEF The
<1>5. TapsOf(b, {L}) = <<Tap(b, L)>>
  <2> DEFINE At(i) == The({M \in {L} : Rank({L}, M) = i})
  <2>1. At(1) = L
    BY <1>3, <1>4
  <2>2. TapsOf(b, {L}) = [i \in 1..Cardinality({L}) |-> Tap(b, At(i))]
    BY DEF TapsOf
  <2> HIDE DEF At
  <2>3. [i \in 1..Cardinality({L}) |-> Tap(b, At(i))] = <<Tap(b, At(1))>>
    <3> DEFINE E1 == {Tap(b, At(1))}
               s == TapsOf(b, {L})
               t == <<Tap(b, At(1))>>
    <3>0. 1..Cardinality({L}) = {1}
      BY <1>1
    <3>1. s = [i \in {1} |-> Tap(b, At(i))]
      BY <2>2, <3>0
    <3>2. s \in Seq(E1) /\ Len(s) = 1 /\ s[1] = Tap(b, At(1))
      <4>1. s \in [{1} -> E1] /\ s[1] = Tap(b, At(1))
        BY <3>1
      <4>2. {1} = 1..1
        OBVIOUS
      <4> HIDE DEF s, E1
      <4>3. s \in [1..1 -> E1]
        BY <4>1, <4>2
      <4>4. s \in Seq(E1)
        <5>1. PICK n \in Nat : n = 1
          OBVIOUS
        <5>2. s \in [1..n -> E1]
          BY <4>3, <5>1
        <5>3. QED
          BY <5>2
      <4>5. DOMAIN s = 1..1
        BY <4>3
      <4>6. Len(s) = 1
        BY <4>4, <4>5
      <4>7. QED
        BY <4>1, <4>4, <4>6
    <3>3. t \in Seq(E1) /\ Len(t) = 1 /\ t[1] = Tap(b, At(1))
      OBVIOUS
    <3> HIDE DEF s, t
    <3>4. s = t
      BY <3>2, <3>3, SeqEqual
    <3>5. QED
      BY <2>2, <3>4 DEF s, t
  <2>4. QED
    BY <2>1, <2>2, <2>3
<1>6. TapsOf(b, S) \o TapsOf(b, {L}) = TapsOf(b, S \cup {L})
  <2>1. {L} \in SUBSET Nat /\ \A x \in S, y \in {L} : x < y
    OBVIOUS
  <2>2. QED
    BY <1>1, <2>1, ConcatTaps
<1>7. Append(TapsOf(b, S), Tap(b, L)) = TapsOf(b, S) \o <<Tap(b, L)>>
  BY AppendIsConcat
<1>8. QED
  BY <1>5, <1>6, <1>7

----------------------------------------------------------------------------

\* Tapped layers up to x, and those after x up to y.
Upto(x) == {L \in aux : L <= x}
Between(x, y) == {L \in aux : x < L /\ L <= y}

\* Batches a stage has passed on.
Done(r) == IF busy[r] THEN begun[r] - 1 ELSE begun[r]

Flow ==
  /\ \A r \in Stages : busy[r] => begun[r] > 0
  /\ \A r \in Stages : r > 0 => begun[r] + Len(chan[r]) = Done(r - 1)
  /\ Len(delivered) = Done(Last)
  /\ chan[0] = <<>>

Collected ==
  \A r \in Stages : busy[r] =>
    /\ start[r] <= pos[r] /\ pos[r] <= start[r + 1]
    /\ carried[r] = TapsOf(begun[r], Upto(start[r]))
    /\ own[r] = TapsOf(begun[r], Between(start[r], pos[r]))

OnTheWay ==
  \A r \in Stages : r > 0 => \A i \in 1..Len(chan[r]) :
    /\ chan[r][i].batch = begun[r] + i
    /\ chan[r][i].taps = TapsOf(begun[r] + i, Upto(start[r]))

HandedOver == \A i \in 1..Len(delivered) : delivered[i] = TapsOf(i, aux)

IInv == TypeOK /\ Flow /\ Collected /\ OnTheWay /\ HandedOver

----------------------------------------------------------------------------

\* The static facts about the split and the tapped layers.
LEMMA SplitFacts ==
  ASSUME TypeOK, NEW r \in Stages
  PROVE  /\ r \in Nat /\ r < PP /\ r + 1 \in 0..PP
         /\ start[r] \in Nat /\ start[r + 1] \in Nat
         /\ start[r] <= start[r + 1] /\ start[r + 1] <= NumLayers
         /\ start[0] = 0 /\ start[PP] = NumLayers
<1> USE TapRelayAssumption
<1>1. start \in Splits /\ r \in 0..PP /\ r + 1 \in 0..PP /\ r \in Nat /\ r < PP
  BY DEF TypeOK, Stages
<1>2. QED
  BY <1>1 DEF Splits

LEMMA LayerSets ==
  ASSUME TypeOK, NEW x \in Nat, NEW y \in Nat, x <= y
  PROVE  /\ aux \in SUBSET Nat /\ IsFiniteSet(aux)
         /\ Upto(x) \in SUBSET Nat /\ IsFiniteSet(Upto(x))
         /\ Between(x, y) \in SUBSET Nat /\ IsFiniteSet(Between(x, y))
         /\ Upto(x) \cup Between(x, y) = Upto(y)
         /\ \A L \in Upto(x), M \in Between(x, y) : L < M
<1> USE TapRelayAssumption
<1>1. aux \subseteq 1..NumLayers
  BY DEF TypeOK
<1>2. aux \in SUBSET Nat /\ IsFiniteSet(aux)
  <2>1. IsFiniteSet(1..NumLayers)
    BY 1 \in Int, NumLayers \in Int, FS_Interval
  <2>2. IsFiniteSet(aux)
    BY <1>1, <2>1, FS_Subset
  <2>3. QED
    BY <1>1, <2>2
<1>3. Upto(x) \subseteq aux /\ Between(x, y) \subseteq aux
  BY DEF Upto, Between
<1>4. IsFiniteSet(Upto(x)) /\ IsFiniteSet(Between(x, y))
  BY <1>2, <1>3, FS_Subset
<1>5. Upto(x) \cup Between(x, y) = Upto(y)
  <2>1. ASSUME NEW L \in Nat
        PROVE  (L <= x \/ (x < L /\ L <= y)) <=> L <= y
    OBVIOUS
  <2>2. QED
    BY <1>2, <2>1 DEF Upto, Between
<1>6. \A L \in Upto(x), M \in Between(x, y) : L < M
  BY <1>2 DEF Upto, Between
<1>7. QED
  BY <1>2, <1>3, <1>4, <1>5, <1>6

LEMMA InitInv == Init => IInv
<1> USE TapRelayAssumption
<1> SUFFICES ASSUME Init PROVE IInv
  OBVIOUS
<1>1. TypeOK
  <2>1. /\ start \in Splits /\ aux \subseteq 1..NumLayers
        /\ begun \in [Stages -> 0..MaxBatches] /\ busy \in [Stages -> BOOLEAN]
        /\ pos \in [Stages -> 0..NumLayers]
    BY DEF Init
  <2>2. <<>> \in TapList /\ <<>> \in Seq(TapList)
        /\ <<>> \in Seq(Message)
    BY DEF TapList
  <2>3. QED
    BY <2>1, <2>2 DEF Init, TypeOK
<1>2. Flow /\ Collected /\ OnTheWay /\ HandedOver
  BY DEF Init, Flow, Collected, OnTheWay, HandedOver, Done, Stages, Last
<1>3. QED
  BY <1>1, <1>2 DEF IInv

\* What TypeOK says of one stage.
LEMMA StageFacts ==
  ASSUME TypeOK, NEW r \in Stages
  PROVE  /\ begun[r] \in 0..MaxBatches /\ busy[r] \in BOOLEAN
         /\ pos[r] \in 0..NumLayers
         /\ carried[r] \in TapList /\ own[r] \in TapList
         /\ chan[r] \in Seq(Message)
         /\ Len(chan[r]) \in Nat
<1>1. chan[r] \in Seq(Message)
  BY DEF TypeOK
<1>2. Len(chan[r]) \in Nat
  BY <1>1, LenProperties
<1>3. busy[r] \in BOOLEAN
  BY DEF TypeOK
<1>4. begun[r] \in 0..MaxBatches /\ pos[r] \in 0..NumLayers
  BY DEF TypeOK
<1>5. carried[r] \in TapList /\ own[r] \in TapList
  BY DEF TypeOK
<1>6. QED
  BY <1>1, <1>2, <1>3, <1>4, <1>5

\* No layer is tapped before the first, and none in an empty range.
LEMMA EmptyRanges ==
  ASSUME TypeOK, NEW x \in Nat
  PROVE  Upto(0) = {} /\ Between(x, x) = {}
<1>1. \A L \in aux : L \in Nat /\ L > 0
  BY TapRelayAssumption DEF TypeOK
<1>2. \A L \in aux : ~(L <= 0)
  BY <1>1
<1>3. \A L \in aux : ~(x < L /\ L <= x)
  BY <1>1
<1>4. QED
  BY <1>2, <1>3 DEF Upto, Between

LEMMA BeginFirstInv ==
  ASSUME IInv, BeginFirst
  PROVE  IInv'
<1> USE TapRelayAssumption
<1>1. TypeOK /\ 0 \in Stages
  BY DEF IInv, Stages
<1>2. start[0] = 0 /\ \A r \in Stages : start[r] \in Nat /\ start[r + 1] \in Nat
  BY <1>1, SplitFacts
<1>3. BoundaryTap(0, begun[0] + 1) = <<>>
  <2>1. ~(0 \in aux)
    BY <1>1 DEF TypeOK
  <2>2. QED
    BY <1>2, <2>1 DEF BoundaryTap
<1>4. /\ start' = start /\ aux' = aux /\ chan' = chan /\ delivered' = delivered
      /\ begun' = [begun EXCEPT ![0] = begun[0] + 1]
      /\ busy' = [busy EXCEPT ![0] = TRUE]
      /\ pos' = [pos EXCEPT ![0] = 0]
      /\ carried' = [carried EXCEPT ![0] = <<>>]
      /\ own' = [own EXCEPT ![0] = <<>>]
      /\ busy[0] = FALSE /\ begun[0] < MaxBatches
  BY <1>1, <1>2, <1>3, StageFacts DEF BeginFirst
<1>5. /\ begun[0] \in Nat
      /\ begun'[0] = begun[0] + 1 /\ busy'[0] = TRUE /\ pos'[0] = 0
      /\ carried'[0] = <<>> /\ own'[0] = <<>>
      /\ \A r \in Stages : r # 0 => /\ begun'[r] = begun[r] /\ busy'[r] = busy[r]
                                    /\ pos'[r] = pos[r] /\ carried'[r] = carried[r]
                                    /\ own'[r] = own[r]
  BY <1>1, <1>4 DEF TypeOK
<1>6. TypeOK'
  <2>1. <<>> \in TapList
    BY DEF TapList
  <2>2. begun[0] + 1 \in 0..MaxBatches
    BY <1>4, <1>5
  <2>3. QED
    BY <1>1, <1>4, <2>1, <2>2 DEF TypeOK
<1>7. \A r \in Stages : Done(r)' = Done(r)
  BY <1>4, <1>5 DEF Done
<1>8. Flow'
  <2>1. Last \in Stages
    BY DEF Last, Stages
  <2>2. \A r \in Stages : r > 0 => r - 1 \in Stages
    BY DEF Stages
  <2>3. QED
    BY <1>4, <1>5, <1>7, <2>1, <2>2 DEF IInv, Flow
<1>9. Collected'
  <2> SUFFICES ASSUME NEW r \in Stages, busy'[r]
               PROVE  /\ start[r] <= pos'[r] /\ pos'[r] <= start[r + 1]
                      /\ carried'[r] = TapsOf(begun'[r], Upto(start[r]))
                      /\ own'[r] = TapsOf(begun'[r], Between(start[r], pos'[r]))
    BY <1>4 DEF Collected, Upto, Between
  <2>1. CASE r = 0
    <3>1. Upto(0) = {} /\ Between(0, 0) = {}
      BY <1>1, EmptyRanges
    <3>2. TapsOf(begun[0] + 1, Upto(0)) = <<>> /\ TapsOf(begun[0] + 1, Between(0, 0)) = <<>>
      BY <3>1, EmptyTaps
    <3>3. start[0] <= start[0 + 1]
      BY <1>1, SplitFacts
    <3>4. QED
      BY <1>2, <1>5, <2>1, <3>2, <3>3
  <2>2. CASE r # 0
    BY <1>5, <2>2 DEF IInv, Collected
  <2>3. QED
    BY <2>1, <2>2
<1>10. OnTheWay' /\ HandedOver'
  <2>1. \A r \in Stages : r > 0 => r # 0
    BY DEF Stages
  <2>2. OnTheWay'
    BY <1>4, <1>5, <2>1 DEF IInv, OnTheWay, Upto
  <2>3. HandedOver'
    BY <1>4 DEF IInv, HandedOver
  <2>4. QED
    BY <2>2, <2>3
<1>11. QED
  BY <1>6, <1>8, <1>9, <1>10 DEF IInv

LEMMA BeginNextInv ==
  ASSUME IInv, NEW s \in Stages, BeginNext(s)
  PROVE  IInv'
<1> USE TapRelayAssumption
<1> DEFINE m == Head(chan[s])
<1>1. TypeOK /\ s \in Nat /\ s > 0 /\ s # 0 /\ s - 1 \in Stages /\ s + 1 \in 0..PP
  BY DEF IInv, BeginNext, Stages
<1>2. /\ start[s] \in Nat /\ start[s + 1] \in Nat /\ start[s] <= start[s + 1]
      /\ start[s + 1] <= NumLayers
  BY <1>1, SplitFacts
<1>3. /\ begun[s] \in Nat /\ busy[s] = FALSE /\ chan[s] # <<>>
      /\ chan[s] \in Seq(Message)
      /\ Len(chan[s]) \in Nat /\ Len(chan[s]) > 0
  <2>1. chan[s] # <<>> /\ ~busy[s]
    BY DEF BeginNext
  <2>2. begun[s] \in Nat /\ chan[s] \in Seq(Message) /\ busy[s] \in BOOLEAN
    BY <1>1, StageFacts
  <2>3. Len(chan[s]) \in Nat /\ Len(chan[s]) > 0
    BY <2>1, <2>2, EmptySeq
  <2>4. QED
    BY <2>1, <2>2, <2>3
<1>4. /\ m = chan[s][1] /\ m \in Message
      /\ m.batch = begun[s] + 1
      /\ m.taps = TapsOf(begun[s] + 1, Upto(start[s]))
      /\ m.batch \in 1..MaxBatches /\ m.taps \in TapList
  <2>1. m = chan[s][1] /\ 1 \in 1..Len(chan[s])
    BY <1>3
  <2>2. m \in Message
    BY <1>3, <2>1, ElementOfSeq
  <2>3. m.batch \in 1..MaxBatches /\ m.taps \in TapList
    BY <2>2 DEF Message
  <2>4. m.batch = begun[s] + 1 /\ m.taps = TapsOf(begun[s] + 1, Upto(start[s]))
    BY <1>1, <2>1 DEF IInv, OnTheWay
  <2>5. QED
    BY <2>1, <2>2, <2>3, <2>4
<1>5. BoundaryTap(s, m.batch) = <<>>
  BY <1>1 DEF BoundaryTap
<1> HIDE DEF m
<1>6. /\ start' = start /\ aux' = aux /\ delivered' = delivered
      /\ begun' = [begun EXCEPT ![s] = begun[s] + 1]
      /\ busy' = [busy EXCEPT ![s] = TRUE]
      /\ pos' = [pos EXCEPT ![s] = start[s]]
      /\ carried' = [carried EXCEPT ![s] = m.taps]
      /\ own' = [own EXCEPT ![s] = <<>>]
      /\ chan' = [chan EXCEPT ![s] = Tail(chan[s])]
  BY <1>5 DEF BeginNext, m
<1>7. /\ begun'[s] = begun[s] + 1 /\ busy'[s] = TRUE /\ pos'[s] = start[s]
      /\ carried'[s] = m.taps /\ own'[s] = <<>> /\ chan'[s] = Tail(chan[s])
      /\ \A r \in Stages : r # s => /\ begun'[r] = begun[r] /\ busy'[r] = busy[r]
                                    /\ pos'[r] = pos[r] /\ carried'[r] = carried[r]
                                    /\ own'[r] = own[r] /\ chan'[r] = chan[r]
  BY <1>1, <1>6 DEF TypeOK
<1>8. /\ Len(Tail(chan[s])) = Len(chan[s]) - 1
      /\ \A i \in 1..(Len(chan[s]) - 1) : Tail(chan[s])[i] = chan[s][i + 1]
      /\ Tail(chan[s]) \in Seq(Message)
  BY <1>3
<1>9. begun[s] + 1 \in 0..MaxBatches
  BY <1>3, <1>4
<1>10. TypeOK'
  <2>1. <<>> \in TapList /\ m.taps \in TapList /\ start[s] \in 0..NumLayers
    BY <1>2, <1>4 DEF TapList
  <2>2. QED
    BY <1>1, <1>6, <1>8, <1>9, <2>1 DEF TypeOK
<1>11. \A r \in Stages : Done(r)' = Done(r)
  BY <1>3, <1>7 DEF Done
<1>12. Flow'
  <2>1. Last \in Stages /\ 0 \in Stages
    BY DEF Last, Stages
  <2>2. \A r \in Stages : r > 0 => r - 1 \in Stages
    BY DEF Stages
  <2>3. begun'[s] + Len(chan'[s]) = Done(s - 1)
    <3>1. begun[s] + Len(chan[s]) = Done(s - 1)
      BY <1>1 DEF IInv, Flow
    <3>2. (begun[s] + 1) + (Len(chan[s]) - 1) = begun[s] + Len(chan[s])
      BY <1>3
    <3>3. QED
      BY <1>7, <1>8, <3>1, <3>2
  <2>4. ASSUME NEW r \in Stages, r > 0
        PROVE  begun'[r] + Len(chan'[r]) = Done(r - 1)'
    <3>1. Done(r - 1)' = Done(r - 1)
      BY <1>11, <2>2, <2>4
    <3>2. CASE r = s
      BY <2>3, <3>1, <3>2
    <3>3. CASE r # s
      BY <1>7, <2>4, <3>1, <3>3 DEF IInv, Flow
    <3>4. QED
      BY <3>2, <3>3
  <2>5. \A r \in Stages : busy'[r] => begun'[r] > 0
    BY <1>3, <1>7 DEF IInv, Flow
  <2>6. chan'[0] = <<>> /\ Len(delivered') = Done(Last)'
    BY <1>1, <1>6, <1>7, <1>11, <2>1 DEF IInv, Flow
  <2>7. QED
    BY <2>4, <2>5, <2>6 DEF Flow
<1>13. Collected'
  <2> SUFFICES ASSUME NEW r \in Stages, busy'[r]
               PROVE  /\ start[r] <= pos'[r] /\ pos'[r] <= start[r + 1]
                      /\ carried'[r] = TapsOf(begun'[r], Upto(start[r]))
                      /\ own'[r] = TapsOf(begun'[r], Between(start[r], pos'[r]))
    BY <1>6 DEF Collected, Upto, Between
  <2>1. CASE r = s
    <3>1. TapsOf(begun[s] + 1, Between(start[s], start[s])) = <<>>
      BY <1>1, <1>2, EmptyRanges, EmptyTaps
    <3>2. QED
      BY <1>2, <1>4, <1>7, <2>1, <3>1
  <2>2. CASE r # s
    BY <1>7, <2>2 DEF IInv, Collected
  <2>3. QED
    BY <2>1, <2>2
<1>14. OnTheWay'
  <2> SUFFICES ASSUME NEW r \in Stages, r > 0, NEW i \in 1..Len(chan'[r])
               PROVE  /\ chan'[r][i].batch = begun'[r] + i
                      /\ chan'[r][i].taps = TapsOf(begun'[r] + i, Upto(start[r]))
    BY <1>6 DEF OnTheWay, Upto
  <2>1. CASE r = s
    <3>0. i \in 1..(Len(chan[s]) - 1)
      BY <1>7, <1>8, <2>1
    <3>1. chan'[s][i] = chan[s][i + 1]
      BY <1>7, <1>8, <3>0
    <3>2. i + 1 \in 1..Len(chan[s]) /\ begun'[s] + i = begun[s] + (i + 1)
      <4>1. Len(chan[s]) \in Nat /\ begun[s] \in Nat
        BY <1>3
      <4>2. begun'[s] = begun[s] + 1
        BY <1>7
      <4>3. i \in Nat /\ i + 1 \in 1..Len(chan[s])
        BY <3>0, <4>1
      <4>4. QED
        BY <4>1, <4>2, <4>3
    <3>3. QED
      BY <1>1, <2>1, <3>1, <3>2 DEF IInv, OnTheWay
  <2>2. CASE r # s
    BY <1>7, <2>2 DEF IInv, OnTheWay
  <2>3. QED
    BY <2>1, <2>2
<1>15. HandedOver'
  BY <1>6 DEF IInv, HandedOver
<1>16. QED
  BY <1>10, <1>12, <1>13, <1>14, <1>15 DEF IInv

LEMMA RunLayerInv ==
  ASSUME IInv, NEW s \in Stages, RunLayer(s)
  PROVE  IInv'
<1> USE TapRelayAssumption
<1> DEFINE b == begun[s]
           p == pos[s]
           o == IF p + 1 \in aux THEN Append(own[s], Tap(b, p + 1)) ELSE own[s]
<1>1. TypeOK
  BY DEF IInv
<1>2. /\ start[s] \in Nat /\ start[s + 1] \in Nat /\ start[s] <= start[s + 1]
      /\ start[s + 1] <= NumLayers
  BY <1>1, SplitFacts
<1>3. /\ b \in 1..MaxBatches /\ p \in Nat /\ p < start[s + 1] /\ start[s] <= p
      /\ busy[s] /\ own[s] \in TapList
      /\ carried[s] = TapsOf(b, Upto(start[s]))
      /\ own[s] = TapsOf(b, Between(start[s], p))
  <2>1. busy[s] /\ p < start[s + 1]
    BY DEF RunLayer, LayersLeft
  <2>2. begun[s] \in 0..MaxBatches /\ pos[s] \in 0..NumLayers /\ own[s] \in TapList
    BY <1>1, StageFacts
  <2>3. begun[s] > 0
    BY <2>1 DEF IInv, Flow
  <2>4. QED
    BY <2>1, <2>2, <2>3 DEF IInv, Collected
<1> HIDE DEF b, p
<1>4. /\ start' = start /\ aux' = aux /\ begun' = begun /\ busy' = busy
      /\ carried' = carried /\ chan' = chan /\ delivered' = delivered
      /\ pos' = [pos EXCEPT ![s] = p + 1]
      /\ own' = [own EXCEPT ![s] = o]
  BY DEF RunLayer, p, b
<1>5. o = TapsOf(b, Between(start[s], p + 1))
  <2>1. /\ Between(start[s], p) \in SUBSET Nat /\ IsFiniteSet(Between(start[s], p))
        /\ aux \in SUBSET Nat
    BY <1>1, <1>2, <1>3, LayerSets
  <2>2. CASE p + 1 \in aux
    <3>1. Between(start[s], p + 1) = Between(start[s], p) \cup {p + 1}
      <4>1. \A L \in Nat : L <= p + 1 <=> L <= p \/ L = p + 1
        BY <1>3
      <4>2. start[s] < p + 1
        BY <1>2, <1>3
      <4>3. QED
        BY <2>1, <2>2, <4>1, <4>2 DEF Between
    <3>2. \A x \in Between(start[s], p) : x < p + 1
      BY <1>3, <2>1 DEF Between
    <3>3. Tap(b, p + 1) \in [batch : 1..MaxBatches, layer : 1..NumLayers]
      BY <1>2, <1>3 DEF Tap
    <3>4. p + 1 \in Nat
      BY <1>3
    <3>5. TapsOf(b, Between(start[s], p)) \in Seq([batch : 1..MaxBatches, layer : 1..NumLayers])
      BY <1>3 DEF TapList
    <3>6. Append(TapsOf(b, Between(start[s], p)), Tap(b, p + 1))
            = TapsOf(b, Between(start[s], p) \cup {p + 1})
      BY <2>1, <3>2, <3>3, <3>4, <3>5, AppendTap
    <3>7. QED
      BY <1>3, <2>2, <3>1, <3>6
  <2>3. CASE ~(p + 1 \in aux)
    <3>1. Between(start[s], p + 1) = Between(start[s], p)
      <4>1. \A L \in Nat : L <= p + 1 /\ L # p + 1 <=> L <= p
        BY <1>3
      <4>2. QED
        BY <2>1, <2>3, <4>1 DEF Between
    <3>2. QED
      BY <1>3, <2>3, <3>1
  <2>4. QED
    BY <2>2, <2>3
<1>6. o \in TapList
  <2>1. CASE p + 1 \in aux
    <3>1. Tap(b, p + 1) \in [batch : 1..MaxBatches, layer : 1..NumLayers]
      BY <1>2, <1>3 DEF Tap
    <3>2. QED
      BY <1>3, <2>1, <3>1, AppendProperties DEF TapList
  <2>2. QED
    BY <1>3, <2>1
<1> HIDE DEF o
<1>7. /\ pos'[s] = p + 1 /\ own'[s] = o
      /\ \A r \in Stages : r # s => pos'[r] = pos[r] /\ own'[r] = own[r]
  BY <1>1, <1>4 DEF TypeOK
<1>8. TypeOK'
  <2>1. p + 1 \in 0..NumLayers
    BY <1>2, <1>3
  <2>2. QED
    BY <1>1, <1>4, <1>6, <2>1 DEF TypeOK
<1>9. Flow' /\ OnTheWay' /\ HandedOver'
  BY <1>4 DEF IInv, Flow, Done, OnTheWay, HandedOver, Upto
<1>10. Collected'
  <2> SUFFICES ASSUME NEW r \in Stages, busy[r]
               PROVE  /\ start[r] <= pos'[r] /\ pos'[r] <= start[r + 1]
                      /\ carried[r] = TapsOf(begun[r], Upto(start[r]))
                      /\ own'[r] = TapsOf(begun[r], Between(start[r], pos'[r]))
    BY <1>4 DEF Collected, Upto, Between
  <2>1. CASE r = s
    <3>1. start[s] <= p + 1 /\ p + 1 <= start[s + 1]
      BY <1>2, <1>3
    <3>2. QED
      BY <1>3, <1>5, <1>7, <2>1, <3>1 DEF b
  <2>2. CASE r # s
    BY <1>7, <2>2 DEF IInv, Collected
  <2>3. QED
    BY <2>1, <2>2
<1>11. QED
  BY <1>8, <1>9, <1>10 DEF IInv

\* What a stage passes on when it has run its last layer.
LEMMA UnionFacts ==
  ASSUME IInv, NEW s \in Stages, busy[s], ~LayersLeft(s)
  PROVE  /\ begun[s] \in 1..MaxBatches
         /\ Union(s) \in TapList
         /\ Union(s) = TapsOf(begun[s], Upto(start[s + 1]))
<1> USE TapRelayAssumption
<1>1. TypeOK
  BY DEF IInv
<1>2. /\ start[s] \in Nat /\ start[s + 1] \in Nat /\ start[s] <= start[s + 1]
  BY <1>1, SplitFacts
<1>3. /\ begun[s] \in 0..MaxBatches /\ pos[s] \in 0..NumLayers
      /\ carried[s] \in TapList /\ own[s] \in TapList
  BY <1>1, StageFacts
<1>4. begun[s] > 0
  BY DEF IInv, Flow
<1>5. pos[s] = start[s + 1]
  <2>1. pos[s] <= start[s + 1]
    BY DEF IInv, Collected
  <2>2. QED
    BY <1>2, <1>3, <2>1 DEF LayersLeft
<1>6. /\ carried[s] = TapsOf(begun[s], Upto(start[s]))
      /\ own[s] = TapsOf(begun[s], Between(start[s], start[s + 1]))
  BY <1>5 DEF IInv, Collected
<1>7. Union(s) = TapsOf(begun[s], Upto(start[s]) \cup Between(start[s], start[s + 1]))
  <2> DEFINE S == Upto(start[s])
             T == Between(start[s], start[s + 1])
  <2>1. /\ S \in SUBSET Nat /\ IsFiniteSet(S) /\ T \in SUBSET Nat /\ IsFiniteSet(T)
        /\ \A x \in S, y \in T : x < y
    BY <1>1, <1>2, LayerSets
  <2> HIDE DEF S, T
  <2>2. TapsOf(begun[s], S) \o TapsOf(begun[s], T) = TapsOf(begun[s], S \cup T)
    BY <2>1, ConcatTaps
  <2>3. QED
    BY <1>6, <2>2 DEF Union, S, T
<1>8. Upto(start[s]) \cup Between(start[s], start[s + 1]) = Upto(start[s + 1])
  BY <1>1, <1>2, LayerSets
<1>9. Union(s) \in TapList
  BY <1>3, ConcatProperties DEF Union, TapList
<1>10. begun[s] \in 1..MaxBatches
  BY <1>3, <1>4
<1>11. Union(s) = TapsOf(begun[s], Upto(start[s + 1]))
  BY <1>7, <1>8
<1>12. QED
  BY <1>9, <1>10, <1>11

LEMMA SendInv ==
  ASSUME IInv, NEW s \in Stages, Send(s)
  PROVE  IInv'
<1> USE TapRelayAssumption
<1> DEFINE t == s + 1
           m == [batch |-> begun[s], taps |-> Union(s)]
<1>1. /\ TypeOK /\ s \in Nat /\ t \in Stages /\ t > 0 /\ t # 0 /\ t # s /\ t - 1 = s
      /\ 0 \in Stages /\ Last \in Stages /\ Last # s
  BY DEF IInv, Send, Stages, Last
<1>2. busy[s] /\ ~LayersLeft(s)
  BY DEF Send
<1>3. /\ begun[s] \in 1..MaxBatches /\ Union(s) \in TapList
      /\ Union(s) = TapsOf(begun[s], Upto(start[t]))
  BY <1>2, UnionFacts
<1>4. m \in Message
  BY <1>3 DEF Message
<1>5. /\ begun[t] \in Nat /\ Len(chan[t]) \in Nat /\ chan[t] \in Seq(Message)
      /\ begun[t] + Len(chan[t]) = begun[s] - 1
  <2>1. begun[t] \in Nat /\ Len(chan[t]) \in Nat /\ chan[t] \in Seq(Message)
    BY <1>1, StageFacts
  <2>2. begun[t] + Len(chan[t]) = Done(t - 1)
    BY <1>1 DEF IInv, Flow
  <2>3. QED
    BY <1>1, <1>2, <2>1, <2>2 DEF Done
<1>6. /\ start' = start /\ aux' = aux /\ begun' = begun /\ pos' = pos
      /\ carried' = carried /\ own' = own /\ delivered' = delivered
      /\ busy' = [busy EXCEPT ![s] = FALSE]
      /\ chan' = [chan EXCEPT ![t] = Append(chan[t], m)]
  BY DEF Send
<1>7. /\ busy'[s] = FALSE /\ chan'[t] = Append(chan[t], m)
      /\ \A r \in Stages : r # s => busy'[r] = busy[r]
      /\ \A r \in Stages : r # t => chan'[r] = chan[r]
  BY <1>1, <1>6 DEF TypeOK
<1> HIDE DEF m
<1>8. /\ Append(chan[t], m) \in Seq(Message)
      /\ Len(Append(chan[t], m)) = Len(chan[t]) + 1
      /\ \A i \in 1..Len(chan[t]) : Append(chan[t], m)[i] = chan[t][i]
      /\ Append(chan[t], m)[Len(chan[t]) + 1] = m
  BY <1>4, <1>5, AppendProperties
<1>9. TypeOK'
  BY <1>1, <1>6, <1>8 DEF TypeOK
<1>10. Done(s)' = Done(s) + 1 /\ \A r \in Stages : r # s => Done(r)' = Done(r)
  BY <1>2, <1>3, <1>6, <1>7 DEF Done
<1>11. Flow'
  <2>1. ASSUME NEW r \in Stages, r > 0
        PROVE  begun'[r] + Len(chan'[r]) = Done(r - 1)'
    <3>1. CASE r = t
      <4>1. Done(t - 1)' = Done(s)'
        BY <1>1
      <4>2. Done(s)' = begun[s]
        BY <1>6, <1>7 DEF Done
      <4>3. begun[t] + (Len(chan[t]) + 1) = begun[s]
        BY <1>3, <1>5
      <4>4. QED
        BY <1>6, <1>7, <1>8, <3>1, <4>1, <4>2, <4>3
    <3>2. CASE r # t
      <4>1. r - 1 \in Stages /\ r - 1 # s
        BY <1>1, <2>1, <3>2 DEF Stages
      <4>2. QED
        BY <1>6, <1>7, <1>10, <2>1, <3>2, <4>1 DEF IInv, Flow
    <3>3. QED
      BY <3>1, <3>2
  <2>2. \A r \in Stages : busy'[r] => begun'[r] > 0
    BY <1>6, <1>7 DEF IInv, Flow
  <2>3. chan'[0] = <<>> /\ Len(delivered') = Done(Last)'
    BY <1>1, <1>6, <1>7, <1>10 DEF IInv, Flow
  <2>4. QED
    BY <2>1, <2>2, <2>3 DEF Flow
<1>12. Collected'
  <2>1. \A r \in Stages : busy'[r] => busy[r]
    BY <1>7
  <2>2. QED
    BY <1>6, <2>1 DEF IInv, Collected, Upto, Between
<1>13. OnTheWay'
  <2> SUFFICES ASSUME NEW r \in Stages, r > 0, NEW i \in 1..Len(chan'[r])
               PROVE  /\ chan'[r][i].batch = begun[r] + i
                      /\ chan'[r][i].taps = TapsOf(begun[r] + i, Upto(start[r]))
    BY <1>6 DEF OnTheWay, Upto
  <2>1. CASE r # t
    BY <1>7, <2>1 DEF IInv, OnTheWay
  <2>2. CASE r = t /\ i \in 1..Len(chan[t])
    BY <1>1, <1>7, <1>8, <2>2, SMTT(30) DEF IInv, OnTheWay
  <2>3. CASE r = t /\ i = Len(chan[t]) + 1
    <3>1. chan'[r][i] = m
      BY <1>7, <1>8, <2>3
    <3>2. begun[t] + i = begun[s]
      <4>1. begun[t] \in Nat /\ Len(chan[t]) \in Nat /\ begun[s] \in Int
            /\ begun[t] + Len(chan[t]) = begun[s] - 1 /\ i = Len(chan[t]) + 1
        BY <1>3, <1>5, <2>3
      <4>2. QED
        BY <4>1
    <3>3. QED
      BY <1>3, <2>3, <3>1, <3>2 DEF m
  <2>4. i \in 1..(Len(chan[t]) + 1) \/ r # t
    BY <1>7, <1>8
  <2>5. QED
    BY <1>5, <2>1, <2>2, <2>3, <2>4
<1>14. HandedOver'
  BY <1>6 DEF IInv, HandedOver
<1>15. QED
  BY <1>9, <1>11, <1>12, <1>13, <1>14 DEF IInv

\* What the last stage hands over: the next batch, complete.
LEMMA ReturnFacts ==
  ASSUME IInv, Return
  PROVE  /\ Last \in Stages /\ busy[Last] /\ begun[Last] \in 1..MaxBatches
         /\ Len(delivered) \in Nat /\ Len(delivered) + 1 = begun[Last]
         /\ Union(Last) \in TapList
         /\ Union(Last) = TapsOf(Len(delivered) + 1, aux)
<1> USE TapRelayAssumption
<1>1. TypeOK /\ Last \in Stages /\ Last + 1 = PP
  BY DEF IInv, Stages, Last
<1>2. busy[Last] /\ ~LayersLeft(Last)
  BY DEF Return
<1>3. /\ begun[Last] \in 1..MaxBatches /\ Union(Last) \in TapList
      /\ Union(Last) = TapsOf(begun[Last], Upto(start[Last + 1]))
  BY <1>1, <1>2, UnionFacts
<1>4. start[Last + 1] = NumLayers
  BY <1>1, SplitFacts
<1>5. Upto(NumLayers) = aux
  <2>1. \A L \in aux : L <= NumLayers
    BY <1>1 DEF TypeOK
  <2>2. QED
    BY <2>1 DEF Upto
<1>6. Len(delivered) = begun[Last] - 1
  BY <1>2 DEF IInv, Flow, Done
<1>7. Len(delivered) \in Nat /\ Len(delivered) + 1 = begun[Last]
  BY <1>3, <1>6
<1>8. QED
  BY <1>1, <1>2, <1>3, <1>4, <1>5, <1>7

LEMMA ReturnInv ==
  ASSUME IInv, Return
  PROVE  IInv'
<1> USE TapRelayAssumption
<1> DEFINE u == Union(Last)
<1>1. /\ TypeOK /\ Last \in Stages /\ busy[Last] /\ begun[Last] \in 1..MaxBatches
      /\ Len(delivered) \in Nat /\ Len(delivered) + 1 = begun[Last]
      /\ u \in TapList /\ u = TapsOf(Len(delivered) + 1, aux)
  BY ReturnFacts DEF IInv
<1>2. /\ start' = start /\ aux' = aux /\ begun' = begun /\ pos' = pos
      /\ carried' = carried /\ own' = own /\ chan' = chan
      /\ busy' = [busy EXCEPT ![Last] = FALSE]
      /\ delivered' = Append(delivered, u)
  BY DEF Return
<1> HIDE DEF u
<1>3. /\ busy'[Last] = FALSE
      /\ \A r \in Stages : r # Last => busy'[r] = busy[r]
  BY <1>1, <1>2 DEF TypeOK
<1>4. /\ delivered' \in Seq(TapList) /\ Len(delivered') = Len(delivered) + 1
      /\ \A i \in 1..Len(delivered) : delivered'[i] = delivered[i]
      /\ delivered'[Len(delivered) + 1] = u
  <2>1. delivered \in Seq(TapList)
    BY <1>1 DEF TypeOK
  <2>2. QED
    BY <1>1, <1>2, <2>1, AppendProperties
<1>5. TypeOK'
  BY <1>1, <1>2, <1>4 DEF TypeOK
<1>6. Flow'
  <2>1. \A r \in Stages : r # Last => Done(r)' = Done(r)
    BY <1>2, <1>3 DEF Done
  <2>2. Done(Last)' = begun[Last]
    BY <1>2, <1>3 DEF Done
  <2>3. ASSUME NEW r \in Stages, r > 0
        PROVE  begun'[r] + Len(chan'[r]) = Done(r - 1)'
    <3>1. r - 1 \in Stages /\ r - 1 # Last
      BY <2>3 DEF Stages, Last
    <3>2. QED
      BY <1>2, <2>1, <2>3, <3>1 DEF IInv, Flow
  <2>4. \A r \in Stages : busy'[r] => begun'[r] > 0
    BY <1>2, <1>3 DEF IInv, Flow
  <2>5. chan'[0] = <<>> /\ Len(delivered') = Done(Last)'
    BY <1>1, <1>2, <1>4, <2>2 DEF IInv, Flow
  <2>6. QED
    BY <2>3, <2>4, <2>5 DEF Flow
<1>7. Collected'
  <2>1. \A r \in Stages : busy'[r] => busy[r]
    BY <1>3
  <2>2. QED
    BY <1>2, <2>1 DEF IInv, Collected, Upto, Between
<1>8. OnTheWay'
  BY <1>2 DEF IInv, OnTheWay, Upto
<1>9. HandedOver'
  <2> SUFFICES ASSUME NEW i \in 1..Len(delivered')
               PROVE  delivered'[i] = TapsOf(i, aux)
    BY <1>2 DEF HandedOver
  <2>1. CASE i \in 1..Len(delivered)
    BY <1>4, <2>1 DEF IInv, HandedOver
  <2>2. CASE i = Len(delivered) + 1
    BY <1>1, <1>4, <2>2
  <2>3. i \in 1..(Len(delivered) + 1)
    BY <1>4
  <2>4. QED
    BY <1>1, <2>1, <2>2, <2>3
<1>10. QED
  BY <1>5, <1>6, <1>7, <1>8, <1>9 DEF IInv

LEMMA StepInv == IInv /\ [Next]_vars => IInv'
<1> SUFFICES ASSUME IInv, [Next]_vars
             PROVE  IInv'
  OBVIOUS
<1>1. CASE BeginFirst
  BY <1>1, BeginFirstInv
<1>2. ASSUME NEW r \in Stages, BeginNext(r)
      PROVE  IInv'
  BY <1>2, BeginNextInv
<1>3. ASSUME NEW r \in Stages, RunLayer(r)
      PROVE  IInv'
  BY <1>3, RunLayerInv
<1>4. ASSUME NEW r \in Stages, Send(r)
      PROVE  IInv'
  BY <1>4, SendInv
<1>5. CASE Return
  BY <1>5, ReturnInv
<1>6. CASE UNCHANGED vars
  <2>1. TypeOK'
    BY <1>6 DEF vars, IInv, TypeOK
  <2>2. Flow'
    BY <1>6 DEF vars, IInv, Flow, Done
  <2>3. Collected' /\ OnTheWay' /\ HandedOver'
    BY <1>6 DEF vars, IInv, Collected, OnTheWay, HandedOver, Upto, Between
  <2>4. QED
    BY <2>1, <2>2, <2>3 DEF IInv
<1>7. QED
  BY <1>1, <1>2, <1>3, <1>4, <1>5, <1>6 DEF Next, Step, Drained

----------------------------------------------------------------------------

\* The lists every stage holds, has sent and has handed over are those of its
\* range of layers, in every reachable state.
THEOREM Inductive == Spec => []IInv
BY InitInv, StepInv, PTL DEF Spec

\* Batch numbers, layer positions and tap lists stay in range.
THEOREM TypeCorrect == Spec => []TypeOK
<1>1. IInv => TypeOK
  BY DEF IInv
<1>2. QED
  BY <1>1, Inductive, PTL

\* The buffers make_empty_intermediate_tensors allocates fit every message: the
\* receive that hung while B4 counted the taps strictly below start_layer.
THEOREM RecvMatchesSendHolds == Spec => []RecvMatchesSend
<1>1. IInv => RecvMatchesSend
  <2> SUFFICES ASSUME IInv, NEW r \in Stages, NEW i \in DOMAIN chan[r]
               PROVE  Len(chan[r][i].taps) = NumUpstream(r)
    BY DEF RecvMatchesSend
  <2>1. TypeOK
    BY DEF IInv
  <2>2. chan[r] \in Seq(Message) /\ DOMAIN chan[r] = 1..Len(chan[r])
    BY <2>1, StageFacts, LenProperties
  <2>3. r > 0
    <3>1. CASE r = 0
      BY <2>2, <3>1 DEF IInv, Flow
    <3>2. QED
      BY <3>1 DEF Stages
  <2>4. chan[r][i].taps = TapsOf(begun[r] + i, Upto(start[r]))
    BY <2>2, <2>3 DEF IInv, OnTheWay
  <2>5. IsFiniteSet(Upto(start[r]))
    <3>1. start[r] \in Nat
      BY <2>1, SplitFacts
    <3>2. start[r] <= start[r]
      BY <3>1
    <3>3. QED
      BY <2>1, <3>1, <3>2, LayerSets
  <2>6. Len(chan[r][i].taps) = Cardinality(Upto(start[r]))
    BY <2>4, <2>5, LenTaps
  <2>7. QED
    BY <2>6 DEF NumUpstream, Upto
<1>2. QED
  BY <1>1, Inductive, PTL

\* Gate 2 of the design document: what the last rank assembles is what a run on
\* one stage assembles, for every number of stages and every split.
THEOREM Refinement == Spec => RefinesSingleStage
<1>1. Init => Single!Init
  BY DEF Init, Single!Init
<1>2. IInv /\ [Next]_vars => [Single!Forward]_Single!vars
  <2> SUFFICES ASSUME IInv, [Next]_vars
               PROVE  [Single!Forward]_Single!vars
    OBVIOUS
  <2>1. CASE Return
    <3>1. /\ begun[Last] \in 1..MaxBatches /\ Len(delivered) \in Nat
          /\ Len(delivered) + 1 = begun[Last]
          /\ Union(Last) = TapsOf(Len(delivered) + 1, aux)
      BY <2>1, ReturnFacts
    <3>2. Len(delivered) < MaxBatches
      BY <3>1, TapRelayAssumption
    <3>3. delivered' = Append(delivered, TapsOf(Len(delivered) + 1, aux)) /\ aux' = aux
      BY <2>1, <3>1 DEF Return
    <3>4. QED
      BY <3>2, <3>3 DEF Single!Forward
  <2>2. CASE UNCHANGED <<aux, delivered>>
    BY <2>2 DEF Single!vars
  <2>3. QED
    BY <2>1, <2>2 DEF Next, Step, Drained, BeginFirst, BeginNext, RunLayer, Send, vars
<1>3. QED
  BY <1>1, <1>2, Inductive, PTL DEF Spec, RefinesSingleStage, Single!Spec
=============================================================================

-------------------------- MODULE PackedRow_proofs --------------------------
(***************************************************************************)
(* Theorems about the decode kernel and the rows it reads.                 *)
(*                                                                         *)
(* ExactPrefix, of SplitDecode alone: for both dispatches, every batch but *)
(* the one P5 has no table rows for, every page table, block size and      *)
(* number of splits.                                                       *)
(*                                                                         *)
(* RowLayout: for every row layout that meets PackedRowAssumption, every   *)
(* page table of a cache that int64 can address and every batch, the       *)
(* kernel's three views read the fields of a slot where the writer put     *)
(* them, and no two fields overlap.                                        *)
(*                                                                         *)
(* DecodeExact: the bit-math decode of a byte is its entry of the table.   *)
(***************************************************************************)
EXTENDS PackedRow, SequenceTheorems, TLAPS

----------------------------------------------------------------------------
(* Arithmetic *)

LEMMA Monotone == \A i, j, m \in Nat : i <= j => i * m <= j * m
  OBVIOUS

\* The splits reach the end of the row.
LEMMA CeilCovers ==
  ASSUME NEW n \in Nat, NEW d \in Nat \ {0}
  PROVE  /\ CeilDiv(n, d) \in Nat
         /\ CeilDiv(n, d) * d >= n
  <1> DEFINE q == (n + d - 1) \div d
  <1>1. q \in Nat /\ q * d + d > n + d - 1
    <2>1. q \in Nat
      OBVIOUS
    <2>2. n + d - 1 = d * q + ((n + d - 1) % d) /\ (n + d - 1) % d < d
      OBVIOUS
    <2>q. QED BY <2>1, <2>2
  <1>q. QED BY <1>1 DEF CeilDiv

----------------------------------------------------------------------------
(* Stretches of a row of the cache *)

\* The cache rows of positions a to b - 1.
Stretch(r, a, b) == [i \in 1..(b - a) |-> Slot(r, a + i - 1)]

SlotsOf(r) == {Slot(r, n) : n \in Int}

LEMMA StretchSeq ==
  ASSUME NEW r, NEW a \in Nat, NEW b \in Nat, a <= b
  PROVE  /\ Stretch(r, a, b) \in Seq(SlotsOf(r))
         /\ Len(Stretch(r, a, b)) = b - a
         /\ a = b => Stretch(r, a, b) = <<>>
         /\ Stretch(r, a, b) = <<>> => a = b
  <1>1. b - a \in Nat
    OBVIOUS
  <1>2. \A i \in 1..(b - a) : a + i - 1 \in Int /\ Slot(r, a + i - 1) \in SlotsOf(r)
    BY DEF SlotsOf
  <1>3. Stretch(r, a, b) \in Seq(SlotsOf(r))
    BY <1>1, <1>2 DEF Stretch
  <1>4. Len(Stretch(r, a, b)) = b - a
    BY <1>1 DEF Stretch
  <1>5. (a = b => Stretch(r, a, b) = <<>>) /\ (Stretch(r, a, b) = <<>> => a = b)
    BY <1>3, <1>4, EmptySeq
  <1>q. QED BY <1>3, <1>4, <1>5 DEF Stretch

LEMMA StretchOfNone ==
  ASSUME NEW r, NEW a \in Nat
  PROVE  Stretch(r, a, a) = <<>>
  <1>1. a <= a
    OBVIOUS
  <1>q. QED BY <1>1, StretchSeq

LEMMA StretchesJoin ==
  ASSUME NEW r, NEW a \in Nat, NEW b \in Nat, NEW c \in Nat, a <= b, b <= c
  PROVE  Stretch(r, a, b) \o Stretch(r, b, c) = Stretch(r, a, c)
  <1> DEFINE T == SlotsOf(r)
  <1>1. PICK left : left = Stretch(r, a, b)
    OBVIOUS
  <1>2. PICK right : right = Stretch(r, b, c)
    OBVIOUS
  <1>3. PICK whole : whole = Stretch(r, a, c)
    OBVIOUS
  <1>l. left \in Seq(T) /\ Len(left) = b - a
    BY <1>1, StretchSeq
  <1>r. right \in Seq(T) /\ Len(right) = c - b
    BY <1>2, StretchSeq
  <1>w. whole \in Seq(T) /\ Len(whole) = c - a
    <2>1. a <= c
      OBVIOUS
    <2>q. QED BY <1>3, <2>1, StretchSeq
  <1>4. /\ \A i \in 1..(b - a) : left[i] = Slot(r, a + i - 1)
        /\ \A i \in 1..(c - b) : right[i] = Slot(r, b + i - 1)
        /\ \A i \in 1..(c - a) : whole[i] = Slot(r, a + i - 1)
    BY <1>1, <1>2, <1>3 DEF Stretch
  <1> HIDE DEF T
  <1>5. /\ left \o right \in Seq(T) /\ Len(left \o right) = c - a
        /\ \A i \in 1..(c - a) :
             (left \o right)[i] = IF i <= b - a THEN left[i] ELSE right[i - (b - a)]
    <2>1. /\ left \o right \in Seq(T) /\ Len(left \o right) = Len(left) + Len(right)
          /\ \A i \in 1..(Len(left) + Len(right)) :
               (left \o right)[i] = IF i <= Len(left) THEN left[i] ELSE right[i - Len(left)]
      BY <1>l, <1>r, ConcatProperties
    <2>2. Len(left) + Len(right) = c - a
      BY <1>l, <1>r
    <2>q. QED BY <1>l, <2>1, <2>2
  <1>6. ASSUME NEW i \in 1..(c - a) PROVE (left \o right)[i] = whole[i]
    <2>1. CASE i <= b - a
      BY <1>4, <1>5, <2>1
    <2>2. CASE i > b - a
      <3>1. i - (b - a) \in 1..(c - b) /\ b + (i - (b - a)) - 1 = a + i - 1
        BY <2>2
      <3>2. (left \o right)[i] = right[i - (b - a)]
        BY <1>5, <2>2
      <3>3. right[i - (b - a)] = Slot(r, b + (i - (b - a)) - 1)
        BY <1>4, <3>1
      <3>4. whole[i] = Slot(r, a + i - 1)
        BY <1>4
      <3>q. QED BY <3>1, <3>2, <3>3, <3>4
    <2>3. i <= b - a \/ i > b - a
      OBVIOUS
    <2>q. QED BY <2>1, <2>2, <2>3
  <1>7. left \o right = whole
    BY <1>w, <1>5, <1>6, SeqEqual
  <1>q. QED BY <1>1, <1>2, <1>3, <1>7


----------------------------------------------------------------------------
(* The rows of a launch *)

\* The dispatch has a table row for every query token.
Served == ~PackedVerification

\* The metadata: a row ends at its own token, which is in the sequence.
Metadata ==
  /\ dtype \in Dtypes
  /\ launch \in Nat
  /\ kind \in Kinds
  /\ query \in 1..MaxQuery
  /\ lens \in [Seqs -> Nat]
  /\ query = 1 \/ (\A s \in Seqs : lens[s] >= query)

LEMMA RowOfSequence ==
  ASSUME NEW n \in Nat, NEW q \in Nat \ {0}, NEW r \in 0..(n * q - 1)
  PROVE  /\ r \div q \in 0..(n - 1)
         /\ r % q \in 0..(q - 1)
  <1>1. r = q * (r \div q) + (r % q) /\ r % q \in 0..(q - 1) /\ r \div q \in Nat
    OBVIOUS
  <1>2. ASSUME n <= r \div q PROVE FALSE
    <2>1. n * q <= (r \div q) * q
      BY <1>1, <1>2, Monotone
    <2>2. (r \div q) * q = q * (r \div q)
      BY <1>1
    <2>q. QED BY <1>1, <2>1, <2>2
  <1>q. QED BY <1>1, <1>2

\* Every row of q has a row in the tables, of its sequence and its prefix.
LEMMA RowGeometry ==
  Served /\ Metadata =>
    \A r \in QueryRows :
      /\ r \in TableRows /\ r \in Rows
      /\ SeqOf(r) \in Seqs /\ LenOf(r) \in Nat
      /\ SeqOf(r) = TokenSeq(r) /\ LenOf(r) = Prefix(r)
  <1> SUFFICES ASSUME Served, Metadata, NEW r \in QueryRows
               PROVE  /\ r \in TableRows /\ r \in Rows
                      /\ SeqOf(r) \in Seqs /\ LenOf(r) \in Nat
                      /\ SeqOf(r) = TokenSeq(r) /\ LenOf(r) = Prefix(r)
    OBVIOUS
  <1>1. NumSeqs \in Nat /\ MaxQuery \in Nat /\ query \in Nat \ {0} /\ query <= MaxQuery
    BY SplitDecodeAssumption DEF Metadata
  <1>2. r \in Rows
    <2>1. query * NumSeqs <= MaxQuery * NumSeqs
      BY <1>1, Monotone
    <2>2. query * NumSeqs = NumSeqs * query /\ MaxQuery * NumSeqs = NumSeqs * MaxQuery
      BY <1>1
    <2>q. QED BY <1>1, <2>1, <2>2 DEF QueryRows, Rows
  <1>3. r \div query \in Seqs /\ r % query \in 0..(query - 1)
    BY <1>1, RowOfSequence DEF QueryRows, Seqs
  <1>4. lens[r \div query] \in Nat
    BY <1>3 DEF Metadata
  <1>5. CASE query = 1
    <2>1. ~Expanded
      BY <1>5 DEF Expanded, ExpandedPacked, ExpandedAuto
    <2>2. r \in Seqs /\ r \div query = r /\ r % query = 0
      BY <1>1, <1>5 DEF QueryRows, Seqs
    <2>3. SeqOf(r) = r /\ TokenSeq(r) = r /\ r \in TableRows
      BY <2>1, <2>2 DEF SeqOf, TokenSeq, TableRows
    <2>4. lens[r] \in Nat
      BY <1>4, <2>2
    <2>5. LenOf(r) = lens[r] /\ Prefix(r) = lens[r]
      BY <1>5, <2>1, <2>2, <2>3, <2>4 DEF LenOf, Prefix
    <2>q. QED BY <1>2, <2>2, <2>3, <2>4, <2>5
  <1>6. CASE query # 1
    <2>1. Expanded
      BY <1>1, <1>6 DEF Expanded, ExpandedPacked, ExpandedAuto, Served, PackedVerification,
         Metadata, Kinds, Dtypes
    <2>2. SeqOf(r) = r \div query /\ TokenSeq(r) = r \div query /\ r \in TableRows
      BY <2>1 DEF SeqOf, TokenSeq, TableRows
    <2>3. lens[r \div query] >= query
      BY <1>3, <1>6 DEF Metadata
    <2>4. LenOf(r) \in Nat /\ LenOf(r) = Prefix(r)
      BY <1>1, <1>3, <1>4, <2>1, <2>2, <2>3 DEF LenOf, Prefix
    <2>q. QED BY <1>2, <1>3, <2>2, <2>4
  <1>q. QED BY <1>5, <1>6

----------------------------------------------------------------------------
(* The splits of a row *)

\* How far the splits before split j reach.
Reach(r, j) == IF SplitLen(r) * j < LenOf(r) THEN SplitLen(r) * j ELSE LenOf(r)

LEMMA SplitGeometry ==
  ASSUME NEW r, LenOf(r) \in Nat
  PROVE  /\ Reach(r, 0) = 0
         /\ Reach(r, NumSplits) = LenOf(r)
         /\ \A k \in Splits :
              /\ SplitStart(r, k) \in Nat /\ SplitEnd(r, k) \in Nat
              /\ NonEmpty(r, k) => SplitStart(r, k) < SplitEnd(r, k)
              /\ NonEmpty(r, k) => Reach(r, k) = SplitStart(r, k)
              /\ NonEmpty(r, k) => Reach(r, k + 1) = SplitEnd(r, k)
              /\ ~NonEmpty(r, k) => Reach(r, k + 1) = Reach(r, k)
         /\ \A j \in 0..NumSplits : Reach(r, j) \in Nat
  <1>1. NumSplits \in Nat \ {0}
    BY SplitDecodeAssumption
  <1>2. PICK L : L = LenOf(r)
    OBVIOUS
  <1>3. PICK S : S = SplitLen(r)
    OBVIOUS
  <1>4. L \in Nat /\ S \in Nat /\ S * NumSplits >= L
    BY <1>1, <1>2, <1>3, CeilCovers DEF SplitLen
  <1>5. \A j : Reach(r, j) = IF S * j < L THEN S * j ELSE L
    BY <1>2, <1>3 DEF Reach
  <1>6. Reach(r, 0) = 0
    BY <1>4, <1>5
  <1>7. Reach(r, NumSplits) = L
    BY <1>1, <1>4, <1>5
  <1>8. \A j \in 0..NumSplits : Reach(r, j) \in Nat
    BY <1>1, <1>4, <1>5
  <1>9. ASSUME NEW k \in Splits
        PROVE  /\ SplitStart(r, k) \in Nat /\ SplitEnd(r, k) \in Nat
               /\ NonEmpty(r, k) => SplitStart(r, k) < SplitEnd(r, k)
               /\ NonEmpty(r, k) => Reach(r, k) = SplitStart(r, k)
               /\ NonEmpty(r, k) => Reach(r, k + 1) = SplitEnd(r, k)
               /\ ~NonEmpty(r, k) => Reach(r, k + 1) = Reach(r, k)
    <2>1. PICK s : s = S * k
      OBVIOUS
    <2>2. s \in Nat /\ S * (k + 1) = s + S
      BY <1>1, <1>4, <2>1 DEF Splits
    <2>3. SplitStart(r, k) = s
      BY <1>3, <2>1 DEF SplitStart
    <2>4. SplitEnd(r, k) = IF s + S < L THEN s + S ELSE L
      BY <1>2, <1>3, <2>3 DEF SplitEnd
    <2>5. Reach(r, k) = IF s < L THEN s ELSE L
      BY <1>5, <2>1
    <2>6. Reach(r, k + 1) = IF s + S < L THEN s + S ELSE L
      BY <1>5, <2>2
    <2>7. NonEmpty(r, k) <=> SplitEnd(r, k) > s
      BY <2>3 DEF NonEmpty
    <2>q. QED BY <1>4, <2>2, <2>3, <2>4, <2>5, <2>6, <2>7
  <1>q. QED BY <1>2, <1>6, <1>7, <1>8, <1>9

----------------------------------------------------------------------------
(* The invariant *)

\* A program has attended its split up to its cursor; behind the end the
\* result waits in the program or has reached the buffer.
ProgramOK(r, k) ==
  NonEmpty(r, k) =>
    LET s == SplitStart(r, k)
        e == SplitEnd(r, k)
        c == cursor[<<r, k>>]
    IN /\ c \in Nat /\ c >= s
       /\ c < e => acc[<<r, k>>] = Stretch(r, s, c)
       /\ c >= e => \/ acc[<<r, k>>] = Stretch(r, s, e)
                    \/ acc[<<r, k>>] = <<>> /\ mid[<<r, k>>] = Stretch(r, s, e)

\* Stage 2 has merged the splits it has looked at.
MergeOK(r) ==
  /\ split[r] \in 0..NumSplits
  /\ out[r] = Stretch(r, 0, Reach(r, split[r]))

Shapes ==
  /\ DOMAIN cursor = Programs /\ DOMAIN acc = Programs /\ DOMAIN mid = Programs
  /\ DOMAIN split = Rows /\ DOMAIN out = Rows

SplitInv ==
  /\ Metadata
  /\ Shapes
  /\ Served => \A r \in QueryRows, k \in Splits : ProgramOK(r, k)
  /\ Served => \A r \in QueryRows : MergeOK(r)

LEMMA InitInv == Init => SplitInv
  <1> SUFFICES ASSUME Init PROVE SplitInv
    OBVIOUS
  <1> USE DEF Init
  <1>0. Served
    BY DEF Served, PackedVerification
  <1>1. Metadata
    BY SplitDecodeAssumption DEF Metadata, Kinds
  <1>2. Shapes
    BY DEF Shapes
  <1>3. ASSUME NEW r \in QueryRows
        PROVE  LenOf(r) = 0 /\ r \in Rows /\ LenOf(r) \in Nat
    <2>1. r \in Rows /\ SeqOf(r) \in Seqs
      BY <1>0, <1>1, RowGeometry
    <2>2. ~Expanded /\ lens[SeqOf(r)] = 0
      BY <2>1 DEF Expanded, ExpandedPacked, ExpandedAuto
    <2>q. QED BY <2>1, <2>2 DEF LenOf
  <1>4. ASSUME NEW r \in QueryRows, NEW k \in Splits PROVE ProgramOK(r, k)
    <2>1. SplitStart(r, k) \in Nat /\ (NonEmpty(r, k) => SplitStart(r, k) < SplitEnd(r, k))
      BY <1>3, SplitGeometry
    <2>2. SplitEnd(r, k) <= 0
      <3>1. PICK S : S = SplitLen(r)
        OBVIOUS
      <3>2. S \in Nat
        BY <1>3, <3>1, CeilCovers, SplitDecodeAssumption DEF SplitLen
      <3>q. QED BY <1>3, <2>1, <3>1, <3>2 DEF SplitEnd
    <2>3. SplitEnd(r, k) \in Nat
      BY <1>3, SplitGeometry
    <2>q. QED BY <2>1, <2>2, <2>3 DEF ProgramOK
  <1>5. ASSUME NEW r \in QueryRows PROVE MergeOK(r)
    <2>1. split[r] = NumSplits /\ out[r] = <<>>
      BY <1>3
    <2>2. Reach(r, NumSplits) = 0
      BY <1>3, SplitGeometry
    <2>3. Stretch(r, 0, 0) = <<>>
      BY StretchOfNone
    <2>q. QED BY <2>1, <2>2, <2>3, SplitDecodeAssumption DEF MergeOK
  <1>q. QED BY <1>1, <1>2, <1>4, <1>5 DEF SplitInv

----------------------------------------------------------------------------
(* Steps within a launch *)

\* What depends on the metadata alone stays.
LEMMA SameLaunch ==
  ASSUME UNCHANGED metadata
  PROVE  /\ Metadata => Metadata'
         /\ QueryRows' = QueryRows /\ TableRows' = TableRows /\ Served' = Served
         /\ \A r : SplitLen(r)' = SplitLen(r) /\ LenOf(r)' = LenOf(r)
         /\ \A r, k : /\ SplitStart(r, k)' = SplitStart(r, k)
                       /\ SplitEnd(r, k)' = SplitEnd(r, k)
                       /\ NonEmpty(r, k)' = NonEmpty(r, k)
         /\ \A r, a, b : Stretch(r, a, b)' = Stretch(r, a, b)
         /\ \A r, j : Reach(r, j)' = Reach(r, j)
  <1> USE DEF metadata
  <1>1. Metadata => Metadata'
    BY DEF Metadata
  <1>2. /\ QueryRows' = QueryRows /\ TableRows' = TableRows /\ Expanded' = Expanded
        /\ Served' = Served
    BY DEF QueryRows, TableRows, Expanded, ExpandedPacked, ExpandedAuto, Served, PackedVerification
  <1>3. \A r : SeqOf(r)' = SeqOf(r)
    BY <1>2 DEF SeqOf
  <1>4. \A r : LenOf(r)' = LenOf(r)
    BY <1>2, <1>3 DEF LenOf
  <1>5. \A r : SplitLen(r)' = SplitLen(r)
    BY <1>4 DEF SplitLen
  <1>6. \A r, k : SplitStart(r, k)' = SplitStart(r, k) /\ SplitEnd(r, k)' = SplitEnd(r, k)
    BY <1>4, <1>5 DEF SplitStart, SplitEnd
  <1>7. \A r, k : NonEmpty(r, k)' = NonEmpty(r, k)
    BY <1>6 DEF NonEmpty
  <1>8. \A r, n : Slot(r, n)' = Slot(r, n)
    BY <1>3 DEF Slot
  <1>9. \A r, a, b : Stretch(r, a, b)' = Stretch(r, a, b)
    BY <1>8 DEF Stretch
  <1>10. \A r, j : Reach(r, j)' = Reach(r, j)
    BY <1>4, <1>5 DEF Reach
  <1>q. QED BY <1>1, <1>2, <1>4, <1>5, <1>6, <1>7, <1>9, <1>10

\* A row none of whose cells a step touches stays as it was.
LEMMA OtherProgram ==
  ASSUME UNCHANGED metadata, NEW r, NEW k, ProgramOK(r, k),
         cursor'[<<r, k>>] = cursor[<<r, k>>], acc'[<<r, k>>] = acc[<<r, k>>],
         mid'[<<r, k>>] = mid[<<r, k>>]
  PROVE  ProgramOK(r, k)'
  <1>1. /\ SplitStart(r, k)' = SplitStart(r, k) /\ SplitEnd(r, k)' = SplitEnd(r, k)
        /\ NonEmpty(r, k)' = NonEmpty(r, k)
        /\ \A a, b : Stretch(r, a, b)' = Stretch(r, a, b)
    BY SameLaunch
  <1>q. QED BY <1>1 DEF ProgramOK

LEMMA OtherRow ==
  ASSUME UNCHANGED metadata, NEW r, MergeOK(r),
         split'[r] = split[r], out'[r] = out[r]
  PROVE  MergeOK(r)'
  <1>1. /\ \A j : Reach(r, j)' = Reach(r, j)
        /\ \A a, b : Stretch(r, a, b)' = Stretch(r, a, b)
    BY SameLaunch
  <1>q. QED BY <1>1 DEF MergeOK

LEMMA AttendKeeps ==
  ASSUME Served, SplitInv, NEW r \in Rows, NEW k \in Splits, Attend(r, k)
  PROVE  SplitInv'
  <1> DEFINE p == <<r, k>>
  <1>1. /\ r \in QueryRows /\ NonEmpty(r, k) /\ cursor[p] < SplitEnd(r, k)
        /\ UNCHANGED metadata /\ UNCHANGED <<mid, split, out>>
    BY DEF Attend
  <1>2. Metadata /\ Shapes /\ p \in Programs /\ ProgramOK(r, k) /\ LenOf(r) \in Nat
    BY <1>1, RowGeometry DEF SplitInv, Programs
  <1>3. PICK a : a = SplitStart(r, k)
    OBVIOUS
  <1>4. PICK e : e = SplitEnd(r, k)
    OBVIOUS
  <1>5. PICK c : c = cursor[p]
    OBVIOUS
  <1>6. PICK b : b = BlockEnd(r, k, c)
    OBVIOUS
  <1>7. /\ a \in Nat /\ e \in Nat /\ c \in Nat /\ BlockN \in Nat \ {0}
        /\ a <= c /\ c < e /\ acc[p] = Stretch(r, a, c)
    BY <1>1, <1>2, <1>3, <1>4, <1>5, SplitGeometry, SplitDecodeAssumption DEF ProgramOK
  <1>8. /\ b = IF c + BlockN < e THEN c + BlockN ELSE e
        /\ b \in Nat /\ c <= b
    BY <1>4, <1>6, <1>7 DEF BlockEnd
  <1>9. /\ acc' = [acc EXCEPT ![p] = @ \o Stretch(r, c, b)]
        /\ cursor' = [cursor EXCEPT ![p] = @ + BlockN]
    <2>1. (b - 1) - c + 1 = b - c
      BY <1>7, <1>8
    <2>2. acc' = [acc EXCEPT ![p] = @ \o [i \in 1..((b - 1) - c + 1) |-> Slot(r, c + i - 1)]]
      BY <1>5, <1>6 DEF Attend
    <2>3. [i \in 1..((b - 1) - c + 1) |-> Slot(r, c + i - 1)] = Stretch(r, c, b)
      BY <2>1 DEF Stretch
    <2>q. QED BY <2>2, <2>3 DEF Attend
  <1>10. acc'[p] = Stretch(r, a, b) /\ cursor'[p] = c + BlockN
    <2>1. acc'[p] = acc[p] \o Stretch(r, c, b) /\ cursor'[p] = c + BlockN
      BY <1>2, <1>5, <1>9 DEF Shapes
    <2>2. a \in Nat /\ b \in Nat /\ c \in Nat /\ a <= c /\ c <= b
      BY <1>7, <1>8
    <2>3. Stretch(r, a, c) \o Stretch(r, c, b) = Stretch(r, a, b)
      BY <2>2, StretchesJoin
    <2>q. QED BY <1>7, <2>1, <2>3
  <1>11. /\ SplitStart(r, k)' = a /\ SplitEnd(r, k)' = e
         /\ \A x, y : Stretch(r, x, y)' = Stretch(r, x, y)
    BY <1>1, <1>3, <1>4, SameLaunch
  <1>12. ProgramOK(r, k)'
    <2>1. cursor'[p] < e => b = cursor'[p]
      BY <1>7, <1>8, <1>10
    <2>2. cursor'[p] >= e => b = e
      BY <1>7, <1>8, <1>10
    <2>3. cursor'[p] \in Nat /\ cursor'[p] >= a
      BY <1>7, <1>10
    <2>q. QED BY <1>10, <1>11, <2>1, <2>2, <2>3 DEF ProgramOK
  <1>13. Shapes'
    BY <1>1, <1>2, <1>9 DEF Shapes
  <1>14. ASSUME NEW r1 \in QueryRows', NEW k1 \in Splits PROVE ProgramOK(r1, k1)'
    <2>1. r1 \in QueryRows
      BY <1>1, SameLaunch
    <2>2. ProgramOK(r1, k1) /\ <<r1, k1>> \in Programs
      BY <1>2, <2>1, RowGeometry DEF SplitInv, Programs
    <2>3. CASE r1 = r /\ k1 = k
      BY <1>12, <2>3
    <2>4. CASE ~(r1 = r /\ k1 = k)
      <3>1. <<r1, k1>> # p
        BY <2>4
      <3>2. /\ cursor'[<<r1, k1>>] = cursor[<<r1, k1>>]
            /\ acc'[<<r1, k1>>] = acc[<<r1, k1>>]
            /\ mid'[<<r1, k1>>] = mid[<<r1, k1>>]
        BY <1>1, <1>2, <1>9, <2>2, <3>1 DEF Shapes
      <3>q. QED BY <1>1, <2>2, <3>2, OtherProgram
    <2>q. QED BY <2>3, <2>4
  <1>15. ASSUME NEW r1 \in QueryRows' PROVE MergeOK(r1)'
    <2>1. MergeOK(r1)
      BY <1>1, SameLaunch DEF SplitInv
    <2>q. QED BY <1>1, <2>1, OtherRow
  <1>q. QED BY <1>1, <1>2, <1>13, <1>14, <1>15, SameLaunch DEF SplitInv

LEMMA StoreKeeps ==
  ASSUME Served, SplitInv, NEW r \in Rows, NEW k \in Splits, Store(r, k)
  PROVE  SplitInv'
  <1> DEFINE p == <<r, k>>
  <1>1. /\ r \in QueryRows /\ NonEmpty(r, k) /\ cursor[p] >= SplitEnd(r, k) /\ acc[p] # <<>>
        /\ UNCHANGED metadata /\ UNCHANGED <<cursor, split, out>>
        /\ mid' = [mid EXCEPT ![p] = acc[p]] /\ acc' = [acc EXCEPT ![p] = <<>>]
    BY DEF Store
  <1>2. Metadata /\ Shapes /\ p \in Programs /\ ProgramOK(r, k)
    BY <1>1 DEF SplitInv, Programs
  <1>3. /\ acc'[p] = <<>> /\ cursor'[p] = cursor[p]
        /\ mid'[p] = Stretch(r, SplitStart(r, k), SplitEnd(r, k))
    BY <1>1, <1>2 DEF Shapes, ProgramOK
  <1>4. /\ SplitStart(r, k)' = SplitStart(r, k) /\ SplitEnd(r, k)' = SplitEnd(r, k)
        /\ \A x, y : Stretch(r, x, y)' = Stretch(r, x, y)
    BY <1>1, SameLaunch
  <1>5. ProgramOK(r, k)'
    <2>1. LenOf(r) \in Nat
      BY <1>1, <1>2, RowGeometry
    <2>2. SplitEnd(r, k) \in Nat /\ cursor[p] \in Nat /\ cursor[p] >= SplitStart(r, k)
      BY <1>1, <1>2, <2>1, SplitGeometry DEF ProgramOK
    <2>3. ~(cursor[p] < SplitEnd(r, k))
      BY <1>1, <2>2
    <2>q. QED BY <1>3, <1>4, <2>2, <2>3 DEF ProgramOK
  <1>6. Shapes'
    BY <1>1, <1>2 DEF Shapes
  <1>7. ASSUME NEW r1 \in QueryRows', NEW k1 \in Splits PROVE ProgramOK(r1, k1)'
    <2>1. r1 \in QueryRows
      BY <1>1, SameLaunch
    <2>2. ProgramOK(r1, k1) /\ <<r1, k1>> \in Programs
      BY <1>2, <2>1, RowGeometry DEF SplitInv, Programs
    <2>3. CASE r1 = r /\ k1 = k
      BY <1>5, <2>3
    <2>4. CASE ~(r1 = r /\ k1 = k)
      <3>1. <<r1, k1>> # p
        BY <2>4
      <3>2. /\ cursor'[<<r1, k1>>] = cursor[<<r1, k1>>]
            /\ acc'[<<r1, k1>>] = acc[<<r1, k1>>]
            /\ mid'[<<r1, k1>>] = mid[<<r1, k1>>]
        BY <1>1, <1>2, <2>2, <3>1 DEF Shapes
      <3>q. QED BY <1>1, <2>2, <3>2, OtherProgram
    <2>q. QED BY <2>3, <2>4
  <1>8. ASSUME NEW r1 \in QueryRows' PROVE MergeOK(r1)'
    <2>1. MergeOK(r1)
      BY <1>1, SameLaunch DEF SplitInv
    <2>q. QED BY <1>1, <2>1, OtherRow
  <1>q. QED BY <1>1, <1>2, <1>6, <1>7, <1>8, SameLaunch DEF SplitInv

LEMMA MergeKeeps ==
  ASSUME Served, SplitInv, NEW r \in Rows, Merge(r)
  PROVE  SplitInv'
  <1>1. PICK k : k = split[r]
    OBVIOUS
  <1>2. /\ r \in QueryRows /\ r \in TableRows /\ k < NumSplits /\ Stage1Done
        /\ UNCHANGED metadata /\ UNCHANGED <<cursor, acc, mid>>
        /\ split' = [split EXCEPT ![r] = @ + 1]
        /\ out' = [out EXCEPT ![r] = IF NonEmpty(r, k) THEN @ \o mid[<<r, k>>] ELSE @]
    BY <1>1 DEF Merge
  <1>3. Metadata /\ Shapes /\ MergeOK(r) /\ LenOf(r) \in Nat
    BY <1>2, RowGeometry DEF SplitInv
  <1>4. k \in Splits /\ NumSplits \in Nat
    BY <1>1, <1>2, <1>3, SplitDecodeAssumption DEF MergeOK, Splits
  <1>5. split'[r] = k + 1 /\ k + 1 \in 0..NumSplits
    BY <1>1, <1>2, <1>3, <1>4 DEF Shapes, Splits
  <1>6. ProgramOK(r, k)
    BY <1>2, <1>4 DEF SplitInv
  <1>7. out'[r] = Stretch(r, 0, Reach(r, k + 1))
    <2>1. out[r] = Stretch(r, 0, Reach(r, k))
      BY <1>1, <1>3 DEF MergeOK
    <2>2. CASE ~NonEmpty(r, k)
      <3>1. Reach(r, k + 1) = Reach(r, k)
        BY <1>3, <1>4, <2>2, SplitGeometry
      <3>q. QED BY <1>2, <1>3, <2>1, <2>2, <3>1 DEF Shapes
    <2>3. CASE NonEmpty(r, k)
      <3>1. PICK a : a = SplitStart(r, k)
        OBVIOUS
      <3>2. PICK e : e = SplitEnd(r, k)
        OBVIOUS
      <3>3. /\ a \in Nat /\ e \in Nat /\ a < e
            /\ Reach(r, k) = a /\ Reach(r, k + 1) = e
        BY <1>3, <1>4, <2>3, <3>1, <3>2, SplitGeometry
      <3>4. cursor[<<r, k>>] >= e /\ acc[<<r, k>>] = <<>>
        BY <1>2, <1>4, <2>3, <3>2 DEF Stage1Done
      <3>5. Stretch(r, a, e) # <<>>
        <4>1. a <= e /\ a # e
          BY <3>3
        <4>q. QED BY <3>3, <4>1, StretchSeq
      <3>6. mid[<<r, k>>] = Stretch(r, a, e)
        BY <1>6, <2>3, <3>1, <3>2, <3>4, <3>5 DEF ProgramOK
      <3>7. Stretch(r, 0, a) \o Stretch(r, a, e) = Stretch(r, 0, e)
        <4>1. 0 \in Nat /\ 0 <= a /\ a <= e
          BY <3>3
        <4>q. QED BY <3>3, <4>1, StretchesJoin, ZenonT(30)
      <3>8. out'[r] = out[r] \o mid[<<r, k>>]
        BY <1>2, <1>3, <2>3 DEF Shapes
      <3>q. QED BY <2>1, <3>3, <3>6, <3>7, <3>8
    <2>q. QED BY <2>2, <2>3
  <1>8. MergeOK(r)'
    <2>1. /\ \A j : Reach(r, j)' = Reach(r, j)
          /\ \A x, y : Stretch(r, x, y)' = Stretch(r, x, y)
      BY <1>2, SameLaunch
    <2>q. QED BY <1>5, <1>7, <2>1 DEF MergeOK
  <1>9. Shapes'
    BY <1>2, <1>3 DEF Shapes
  <1>10. ASSUME NEW r1 \in QueryRows', NEW k1 \in Splits PROVE ProgramOK(r1, k1)'
    <2>1. ProgramOK(r1, k1)
      BY <1>2, SameLaunch DEF SplitInv
    <2>q. QED BY <1>2, <2>1, OtherProgram
  <1>11. ASSUME NEW r1 \in QueryRows' PROVE MergeOK(r1)'
    <2>1. r1 \in QueryRows
      BY <1>2, SameLaunch
    <2>2. MergeOK(r1) /\ r1 \in Rows
      BY <1>3, <2>1, RowGeometry DEF SplitInv
    <2>3. CASE r1 = r
      BY <1>8, <2>3
    <2>4. CASE r1 # r
      <3>1. split'[r1] = split[r1] /\ out'[r1] = out[r1]
        BY <1>2, <1>3, <2>2, <2>4 DEF Shapes
      <3>q. QED BY <1>2, <2>2, <3>1, OtherRow
    <2>q. QED BY <2>3, <2>4
  <1>q. QED BY <1>2, <1>3, <1>9, <1>10, <1>11, SameLaunch DEF SplitInv

----------------------------------------------------------------------------
(* The next launch *)

LEMMA BeforeFirstBlock ==
  Served /\ Metadata =>
    \A r \in QueryRows :
      /\ r \in QueryRows \cap TableRows /\ r \in Rows
      /\ Stretch(r, 0, Reach(r, 0)) = <<>>
      /\ \A k \in Splits :
           /\ SplitStart(r, k) \in Nat /\ SplitEnd(r, k) \in Nat
           /\ NonEmpty(r, k) => SplitStart(r, k) < SplitEnd(r, k)
           /\ Stretch(r, SplitStart(r, k), SplitStart(r, k)) = <<>>
  <1> SUFFICES ASSUME Served, Metadata, NEW r \in QueryRows
               PROVE  /\ r \in QueryRows \cap TableRows /\ r \in Rows
                      /\ Stretch(r, 0, Reach(r, 0)) = <<>>
                      /\ \A k \in Splits :
                           /\ SplitStart(r, k) \in Nat /\ SplitEnd(r, k) \in Nat
                           /\ NonEmpty(r, k) => SplitStart(r, k) < SplitEnd(r, k)
                           /\ Stretch(r, SplitStart(r, k), SplitStart(r, k)) = <<>>
    OBVIOUS
  <1>1. r \in QueryRows \cap TableRows /\ r \in Rows /\ LenOf(r) \in Nat
    BY RowGeometry
  <1>2. /\ Reach(r, 0) = 0
        /\ \A k \in Splits :
             /\ SplitStart(r, k) \in Nat /\ SplitEnd(r, k) \in Nat
             /\ NonEmpty(r, k) => SplitStart(r, k) < SplitEnd(r, k)
    BY <1>1, SplitGeometry
  <1>3. \A a \in Nat : Stretch(r, a, a) = <<>>
    BY StretchOfNone
  <1>4. Stretch(r, 0, Reach(r, 0)) = <<>>
    BY <1>2, <1>3
  <1>q. QED BY <1>1, <1>2, <1>3, <1>4

LEMMA RelaunchKeeps ==
  ASSUME SplitInv, Relaunch
  PROVE  SplitInv'
  <1>1. Batch(launch + 1) /\ Begin /\ UNCHANGED <<dtype, mid>>
    BY DEF Relaunch
  <1>2. Metadata'
    <2>1. /\ dtype' \in Dtypes /\ launch' \in Nat /\ kind' \in Kinds /\ query' \in 1..MaxQuery
          /\ lens' \in [Seqs -> query'..MaxLen]
      BY <1>1 DEF Batch, SplitInv, Metadata
    <2>2. query' \in Nat
      BY <2>1
    <2>3. \A s \in Seqs : lens'[s] \in Nat /\ lens'[s] >= query'
      BY <2>1, <2>2, SplitDecodeAssumption
    <2>q. QED BY <2>1, <2>3 DEF Metadata
  <1>3. (Served /\ Metadata)' =>
          (\A r \in QueryRows :
            /\ r \in QueryRows \cap TableRows /\ r \in Rows
            /\ Stretch(r, 0, Reach(r, 0)) = <<>>
            /\ \A k \in Splits :
                 /\ SplitStart(r, k) \in Nat /\ SplitEnd(r, k) \in Nat
                 /\ NonEmpty(r, k) => SplitStart(r, k) < SplitEnd(r, k)
                 /\ Stretch(r, SplitStart(r, k), SplitStart(r, k)) = <<>>)'
    BY BeforeFirstBlock, PTL
  <1>4. Shapes'
    BY <1>1 DEF Begin, Shapes, SplitInv
  <1>5. ASSUME Served', NEW r \in QueryRows', NEW k \in Splits PROVE ProgramOK(r, k)'
    <2>1. <<r, k>> \in Programs /\ r \in (QueryRows \cap TableRows)'
      BY <1>2, <1>3, <1>5 DEF Programs
    <2>2. cursor'[<<r, k>>] = SplitStart(r, k)' /\ acc'[<<r, k>>] = <<>>
      BY <1>1, <2>1 DEF Begin
    <2>3. /\ SplitStart(r, k)' \in Nat /\ SplitEnd(r, k)' \in Nat
          /\ NonEmpty(r, k)' => SplitStart(r, k)' < SplitEnd(r, k)'
          /\ Stretch(r, SplitStart(r, k), SplitStart(r, k))' = <<>>
      BY <1>2, <1>3, <1>5
    <2>4. PICK s : s = SplitStart(r, k)'
      OBVIOUS
    <2>5. PICK e : e = SplitEnd(r, k)'
      OBVIOUS
    <2>6. /\ s \in Nat /\ s >= s
          /\ NonEmpty(r, k)' => s < e /\ ~(s >= e)
      BY <2>3, <2>4, <2>5
    <2>q. QED BY <2>2, <2>3, <2>4, <2>5, <2>6 DEF ProgramOK
  <1>6. ASSUME Served', NEW r \in QueryRows' PROVE MergeOK(r)'
    <2>1. r \in Rows /\ Stretch(r, 0, Reach(r, 0))' = <<>>
      BY <1>2, <1>3, <1>6
    <2>2. split'[r] = 0 /\ out'[r] = <<>>
      BY <1>1, <2>1 DEF Begin
    <2>q. QED BY <2>1, <2>2, SplitDecodeAssumption DEF MergeOK
  <1>q. QED BY <1>2, <1>4, <1>5, <1>6 DEF SplitInv

----------------------------------------------------------------------------

\* Of a batch the dispatch has no rows for only the shapes are kept.
LEMMA UnservedKeeps ==
  ASSUME SplitInv, ~Served, UNCHANGED metadata,
         NEW r \in Rows, NEW k \in Splits, Attend(r, k) \/ Store(r, k) \/ Merge(r)
  PROVE  SplitInv'
  <1>1. ~Served'
    BY SameLaunch
  <1>2. Shapes'
    <2>1. Shapes
      BY DEF SplitInv
    <2>2. CASE Attend(r, k)
      BY <2>1, <2>2 DEF Attend, Shapes
    <2>3. CASE Store(r, k)
      BY <2>1, <2>3 DEF Store, Shapes
    <2>4. CASE Merge(r)
      BY <2>1, <2>4 DEF Merge, Shapes
    <2>q. QED BY <2>2, <2>3, <2>4
  <1>3. Metadata'
    BY SameLaunch DEF SplitInv
  <1>q. QED BY <1>1, <1>2, <1>3 DEF SplitInv

LEMMA StepInv == SplitInv /\ [Next]_vars => SplitInv'
  <1> SUFFICES ASSUME SplitInv, [Next]_vars PROVE SplitInv'
    OBVIOUS
  <1>1. CASE Relaunch
    BY <1>1, RelaunchKeeps
  <1>2. ASSUME NEW r \in Rows, NEW k \in Splits, Attend(r, k) PROVE SplitInv'
    BY <1>2, AttendKeeps, UnservedKeeps DEF Attend
  <1>3. ASSUME NEW r \in Rows, NEW k \in Splits, Store(r, k) PROVE SplitInv'
    BY <1>3, StoreKeeps, UnservedKeeps DEF Store
  <1>4. ASSUME NEW r \in Rows, Merge(r) PROVE SplitInv'
    <2>1. 0 \in Splits
      BY SplitDecodeAssumption DEF Splits
    <2>q. QED BY <1>4, <2>1, MergeKeeps, UnservedKeeps DEF Merge
  <1>5. CASE UNCHANGED vars
    <2>1. UNCHANGED metadata /\ UNCHANGED <<cursor, acc, mid, split, out>>
      BY <1>5 DEF vars, metadata
    <2>2. Served => \A r \in QueryRows, k \in Splits : ProgramOK(r, k)'
      BY <2>1, OtherProgram DEF SplitInv
    <2>3. Served => \A r \in QueryRows : MergeOK(r)'
      BY <2>1, OtherRow DEF SplitInv
    <2>4. Shapes'
      BY <2>1 DEF SplitInv, Shapes
    <2>q. QED BY <2>1, <2>2, <2>3, <2>4, SameLaunch DEF SplitInv
  <1>q. QED BY <1>1, <1>2, <1>3, <1>4, <1>5 DEF Next

\* The splits reach the end of the row, which is the prefix of its token.
LEMMA InvExactPrefix == SplitInv => ExactPrefix
  <1> SUFFICES ASSUME SplitInv, Served, NEW r \in QueryRows, Merged(r)
               PROVE  out[r] = [i \in 1..Prefix(r) |->
                         Pages[TokenSeq(r)][(i - 1) \div PageSize + 1] * PageSize + ((i - 1) % PageSize)]
    BY DEF ExactPrefix, AttendsPrefix, Served
  <1>1. LenOf(r) \in Nat /\ SeqOf(r) = TokenSeq(r) /\ LenOf(r) = Prefix(r)
    BY RowGeometry DEF SplitInv
  <1>2. out[r] = Stretch(r, 0, LenOf(r))
    <2>1. Reach(r, NumSplits) = LenOf(r)
      BY <1>1, SplitGeometry
    <2>2. split[r] = NumSplits /\ MergeOK(r)
      BY DEF SplitInv, Merged
    <2>q. QED BY <2>1, <2>2 DEF MergeOK
  <1>3. PICK n : n = Prefix(r)
    OBVIOUS
  <1>4. n \in Nat /\ n - 0 = n
    BY <1>1, <1>3
  <1>5. out[r] = [i \in 1..n |-> Slot(r, 0 + i - 1)]
    BY <1>1, <1>2, <1>3, <1>4 DEF Stretch
  <1>6. ASSUME NEW i \in 1..n
        PROVE  Slot(r, 0 + i - 1) =
                 Pages[TokenSeq(r)][(i - 1) \div PageSize + 1] * PageSize + ((i - 1) % PageSize)
    <2>1. 0 + i - 1 = i - 1
      BY <1>4
    <2>q. QED BY <1>1, <2>1 DEF Slot
  <1>q. QED BY <1>3, <1>5, <1>6

\* Whatever order the programs of a launch run in and whatever the launch
\* before left in attn_logits, a query token has attended its own prefix, each
\* position once, from its sequence's pages (kernel.py): on the ordinary cache
\* with A6's tables in every batch, on the packed cache with P5's in every
\* batch but a causal one with several tokens of a sequence.
THEOREM ExactPrefixHolds == Spec => []ExactPrefix
  <1>1. Init => SplitInv
    BY InitInv
  <1>2. SplitInv /\ [Next]_vars => SplitInv'
    BY StepInv
  <1>3. SplitInv => ExactPrefix
    BY InvExactPrefix
  <1>q. QED BY <1>1, <1>2, <1>3, PTL DEF Spec

----------------------------------------------------------------------------
(* Rows *)

\* A row starts at an element boundary of each view.
LEMMA RowStarts ==
  ASSUME NEW tok \in Nat
  PROVE  /\ RowF32 \in Nat /\ RowU16 \in Nat
         /\ tok * RowBytes \in Nat
         /\ tok * RowF32 \in Nat /\ 4 * (tok * RowF32) = tok * RowBytes
         /\ tok * RowU16 \in Nat /\ 2 * (tok * RowU16) = tok * RowBytes
<1>1. RowF32 \in Nat /\ RowBytes = 4 * RowF32
  BY PackedRowAssumption DEF RowF32
<1>2. RowU16 \in Nat /\ RowBytes = 2 * RowU16
  BY PackedRowAssumption DEF RowU16
<1>3. tok * RowBytes = tok * (4 * RowF32) /\ tok * RowBytes = tok * (2 * RowU16)
  BY <1>1, <1>2
<1>4. /\ \A r \in Nat : tok * r \in Nat
      /\ \A r \in Nat : tok * (4 * r) = 4 * (tok * r)
      /\ \A r \in Nat : tok * (2 * r) = 2 * (tok * r)
  OBVIOUS
<1>5. QED
  BY <1>1, <1>2, <1>3, <1>4, PackedRowAssumption

\* A row of the cache that int64 reaches.
Reached(tok) == tok \in Nat /\ tok * RowBytes + RowBytes <= LongHalf

\* Arithmetic that stays below the half of its range does not wrap.
LEMMA NoWrap ==
  ASSUME NEW n \in Nat, n < LongHalf
  PROVE  Address(n) = n
<1>1. LongHalf \in Nat /\ n + LongHalf \in 0..(2 * LongHalf - 1) /\ 2 * LongHalf > 0
  BY PackedRowAssumption
<1>2. \A m \in Int, k \in Nat : k > 0 /\ 0 <= m /\ m < k => m % k = m
  OBVIOUS
<1>3. (n + LongHalf) % (2 * LongHalf) = n + LongHalf
  BY <1>1, <1>2
<1>4. QED
  BY <1>1, <1>3 DEF Address, Wrapped

\* The offsets of the fields in whole elements of their view.
LEMMA Offsets ==
  /\ ScaleF32Off \in Nat /\ 4 * ScaleF32Off = ScaleByteOff
  /\ RopeU16Off \in Nat /\ 2 * RopeU16Off = RopeByteOff
BY PackedRowAssumption DEF ScaleF32Off, RopeU16Off

\* The tile of a latent is one of the row's tiles.
LEMMA TileInRow ==
  /\ NTiles \in Nat
  /\ \A d \in Latents : TileOf(d) \in Tiles
<1>1. NTiles \in Nat /\ Nope = Tile * NTiles
  BY PackedRowAssumption DEF NTiles
<1>2. ASSUME NEW d \in Latents
      PROVE  TileOf(d) \in Tiles
  <2>1. d \in Nat /\ d < Tile * NTiles /\ Tile \in Nat /\ Tile > 0
    BY <1>1, PackedRowAssumption DEF Latents
  <2>2. PICK t \in Nat : t = TileOf(d)
    BY <2>1 DEF TileOf
  <2>3. Tile * t <= d
    BY <2>1, <2>2 DEF TileOf
  <2>4. t < NTiles
    <3>1. SUFFICES ASSUME t >= NTiles PROVE FALSE
      BY <1>1
    <3>2. Tile * t >= Tile * NTiles
      BY <3>1, <2>1, <1>1
    <3>3. QED
      BY <3>2, <2>1, <2>3, <1>1
  <2>5. QED
    BY <1>1, <2>2, <2>4 DEF Tiles
<1>3. QED
  BY <1>1, <1>2

\* The fields follow each other in the row.
LEMMA RowOrder ==
  /\ Nope \in Nat /\ Rope \in Nat /\ ScaleByteOff \in Nat /\ RopeByteOff \in Nat
  /\ RowBytes \in Nat /\ LongHalf \in Nat
  /\ Nope <= ScaleByteOff /\ ScaleByteOff + 4 * NTiles <= RopeByteOff
  /\ RopeByteOff + 2 * Rope <= RowBytes
BY PackedRowAssumption

\* The views agree with the writer at every slot.
LEMMA ViewsAgree ==
  ASSUME NEW tok, Reached(tok)
  PROVE  ReadsWhatWasWritten(tok)
<1>0. tok \in Nat /\ tok * RowBytes + RowBytes <= LongHalf /\ LongHalf \in Nat
  BY PackedRowAssumption DEF Reached
<1>1. ASSUME NEW d \in Latents
      PROVE  LatentRead(tok, d) = LatentBytes(tok, d)
  <2>1. PICK start \in Nat : start = tok * RowBytes
    BY <1>0, RowStarts
  <2>2. start + d \in Nat /\ start + d < LongHalf
    BY <1>0, <2>1, TileInRow, RowOrder DEF Latents
  <2>3. Address(start + d) = start + d
    BY <2>2, NoWrap
  <2>4. QED
    BY <2>1, <2>2, <2>3 DEF LatentRead, LatentBytes, Element, Bytes
<1>2. ASSUME NEW d \in Latents
      PROVE  ScaleRead(tok, d) = ScaleBytes(tok, TileOf(d))
  <2>1. TileOf(d) \in Nat /\ TileOf(d) = d \div Tile
    BY TileInRow DEF TileOf, Tiles
  <2>2. 4 * (tok * RowF32 + ScaleF32Off + TileOf(d))
          = tok * RowBytes + ScaleByteOff + 4 * TileOf(d)
    <3>1. PICK at \in Nat, start \in Nat : at = tok * RowF32 /\ start = tok * RowBytes
      BY <1>0, RowStarts
    <3>2. 4 * at = start
      BY <1>0, <3>1, RowStarts
    <3>3. 4 * (at + ScaleF32Off + TileOf(d)) = start + ScaleByteOff + 4 * TileOf(d)
      BY <2>1, <3>2, Offsets, PackedRowAssumption
    <3>4. QED
      BY <3>1, <3>3
  <2>3. TileOf(d) < NTiles /\ NTiles \in Nat
    BY TileInRow DEF Tiles
  <2>4. PICK n \in Nat : n = tok * RowF32 + ScaleF32Off + TileOf(d)
    BY <1>0, <2>1, RowStarts, Offsets
  <2>5. n < LongHalf
    <3>1. PICK start \in Nat : start = tok * RowBytes
      BY <1>0, RowStarts
    <3>2. 4 * n < start + RowBytes
      BY <2>1, <2>2, <2>3, <2>4, <3>1, RowOrder
    <3>3. QED
      BY <1>0, <3>1, <3>2, RowOrder
  <2>6. Address(n) = n
    BY <2>5, NoWrap
  <2>7. QED
    BY <2>1, <2>2, <2>4, <2>6 DEF ScaleRead, ScaleBytes, Element
<1>3. ASSUME NEW j \in Rotary
      PROVE  RotaryRead(tok, j) = RotaryBytes(tok, j)
  <2>1. 2 * (tok * RowU16 + RopeU16Off + j) = tok * RowBytes + RopeByteOff + 2 * j
    <3>1. PICK at \in Nat, start \in Nat : at = tok * RowU16 /\ start = tok * RowBytes
      BY <1>0, RowStarts
    <3>2. 2 * at = start
      BY <1>0, <3>1, RowStarts
    <3>3. 2 * (at + RopeU16Off + j) = start + RopeByteOff + 2 * j
      BY <3>2, Offsets, PackedRowAssumption DEF Rotary
    <3>4. QED
      BY <3>1, <3>3
  <2>2. PICK n \in Nat : n = tok * RowU16 + RopeU16Off + j
    BY <1>0, RowStarts, Offsets DEF Rotary
  <2>3. n < LongHalf
    <3>1. PICK start \in Nat : start = tok * RowBytes
      BY <1>0, RowStarts
    <3>2. 2 * n < start + RowBytes
      BY <2>1, <2>2, <3>1, TileInRow, RowOrder DEF Rotary
    <3>3. QED
      BY <1>0, <3>1, <3>2, RowOrder
  <2>4. Address(n) = n
    BY <2>3, NoWrap
  <2>5. QED
    BY <2>1, <2>2, <2>4 DEF RotaryRead, RotaryBytes, Element
<1>4. QED
  BY <1>1, <1>2, <1>3 DEF ReadsWhatWasWritten

\* The fields of a row lie side by side inside it.
LEMMA FieldsLieApart ==
  ASSUME NEW tok \in Nat
  PROVE  FieldsApart(tok)
<1>1. PICK row \in Nat : row = tok * RowBytes
  BY RowStarts
<1>2. ASSUME NEW d \in Latents, NEW b \in LatentBytes(tok, d)
      PROVE  b \in Int /\ row <= b /\ b < row + ScaleByteOff
  BY <1>1, <1>2, PackedRowAssumption DEF LatentBytes, Bytes, Latents
<1>3. ASSUME NEW t \in Tiles, NEW b \in ScaleBytes(tok, t)
      PROVE  b \in Int /\ row + ScaleByteOff <= b /\ b < row + RopeByteOff
  BY <1>1, <1>3, TileInRow, PackedRowAssumption DEF ScaleBytes, Bytes, Tiles
<1>4. ASSUME NEW j \in Rotary, NEW b \in RotaryBytes(tok, j)
      PROVE  b \in Int /\ row + RopeByteOff <= b /\ b < row + RowBytes
  BY <1>1, <1>4, PackedRowAssumption DEF RotaryBytes, Bytes, Rotary
<1>5. ScaleByteOff \in Nat /\ RopeByteOff \in Nat /\ RowBytes \in Nat
      /\ ScaleByteOff <= RopeByteOff /\ RopeByteOff <= RowBytes
  BY TileInRow, PackedRowAssumption
<1>6. Bytes(tok * RowBytes, RowBytes) = {b \in Int : row <= b /\ b < row + RowBytes}
  BY <1>1, <1>5 DEF Bytes
<1> DEFINE latents == UNION {LatentBytes(tok, d) : d \in Latents}
           scales == UNION {ScaleBytes(tok, t) : t \in Tiles}
           rotary == UNION {RotaryBytes(tok, j) : j \in Rotary}
<1>7. \A b \in latents : b \in Int /\ row <= b /\ b < row + ScaleByteOff
  BY <1>2
<1>8. \A b \in scales : b \in Int /\ row + ScaleByteOff <= b /\ b < row + RopeByteOff
  BY <1>3
<1>9. \A b \in rotary : b \in Int /\ row + RopeByteOff <= b /\ b < row + RowBytes
  BY <1>4
<1> HIDE DEF latents, scales, rotary
<1>10. latents \cap scales = {} /\ scales \cap rotary = {} /\ latents \cap rotary = {}
  BY <1>1, <1>5, <1>7, <1>8, <1>9
<1>11. /\ latents \subseteq Bytes(tok * RowBytes, RowBytes)
       /\ scales \subseteq Bytes(tok * RowBytes, RowBytes)
       /\ rotary \subseteq Bytes(tok * RowBytes, RowBytes)
  BY <1>1, <1>5, <1>6, <1>7, <1>8, <1>9
<1>12. QED
  BY <1>10, <1>11 DEF FieldsApart, latents, scales, rotary

\* The slots of a launch are rows of the cache.
LEMMA AttendedSlots ==
  ASSUME Relaunch
  PROVE  \A tok \in Attended' : Reached(tok)
<1>1. lens' \in [Seqs -> query'..MaxLen] /\ query' \in 1..MaxQuery
  BY DEF Relaunch, Batch
<1>2. SUFFICES ASSUME NEW s \in Seqs, NEW n \in 0..(lens'[s] - 1)
               PROVE  Reached(Pages[s][n \div PageSize + 1] * PageSize + (n % PageSize))
  BY DEF Attended
<1>3. n \in Nat /\ n < MaxLen
  BY <1>1, SplitDecodeAssumption
<1>4. PageSize \in Nat \ {0} /\ Pages[s] \in Seq(Nat)
      /\ Len(Pages[s]) \in Nat /\ Len(Pages[s]) * PageSize >= MaxLen /\ MaxLen \in Nat
  BY SplitDecodeAssumption
<1>5. PICK page \in Nat : page = n \div PageSize
  BY <1>3, <1>4
<1>6. n % PageSize \in Nat /\ n % PageSize < PageSize /\ page * PageSize <= n
  BY <1>3, <1>4, <1>5
<1>7. page < Len(Pages[s])
  <2>1. SUFFICES ASSUME page >= Len(Pages[s]) PROVE FALSE
    BY <1>3, <1>4
  <2>2. page * PageSize >= Len(Pages[s]) * PageSize
    BY <2>1, <1>4
  <2>3. QED
    BY <2>2, <1>3, <1>4, <1>6
<1>8. Pages[s][page + 1] \in Nat
  BY <1>4, <1>7
<1>9. PICK base \in Nat : base = Pages[s][page + 1] * PageSize
  BY <1>4, <1>8
<1>10. (base + PageSize) * RowBytes <= LongHalf
  BY <1>4, <1>7, <1>9, PackedRowAssumption
<1>11. PICK at \in Nat : at = n % PageSize
  BY <1>6
<1>12. (base + at) * RowBytes + RowBytes <= (base + PageSize) * RowBytes
  <2>1. RowBytes \in Nat /\ base + at + 1 <= base + PageSize /\ PageSize \in Nat
    BY <1>4, <1>6, <1>11, PackedRowAssumption
  <2>2. \A i, k, r \in Nat : i <= k => i * r <= k * r
    OBVIOUS
  <2>3. (base + at + 1) * RowBytes <= (base + PageSize) * RowBytes
    BY <2>1, <2>2
  <2>4. (base + at + 1) * RowBytes = (base + at) * RowBytes + RowBytes
    BY <2>1
  <2>5. QED
    BY <2>3, <2>4
<1>13. QED
  <2>1. /\ (base + at) * RowBytes \in Nat /\ (base + PageSize) * RowBytes \in Nat
        /\ LongHalf \in Nat /\ RowBytes \in Nat /\ base + at \in Nat
    BY <1>4, PackedRowAssumption
  <2>2. (base + at) * RowBytes + RowBytes <= LongHalf
    BY <2>1, <1>10, <1>12
  <2>3. QED
    BY <1>5, <1>9, <1>11, <2>1, <2>2 DEF Reached

\* The kernel reads every field of every slot a launch attends where the writer
\* stored it, and no field of a row lies on another, whatever the sizes of the
\* row, the page tables and the batch are.
THEOREM RowLayoutHolds == Spec => RowLayout
<1>1. ASSUME [Next]_vars, launch' # launch
      PROVE  \A tok \in Attended' : ReadsWhatWasWritten(tok) /\ FieldsApart(tok)
  <2>1. Relaunch
    BY <1>1 DEF Next, vars, metadata, Attend, Store, Merge
  <2>2. QED
    BY <2>1, AttendedSlots, ViewsAgree, FieldsLieApart DEF Reached
<1>2. [Next]_vars => [launch' # launch =>
        \A tok \in Attended' : ReadsWhatWasWritten(tok) /\ FieldsApart(tok)]_vars
  BY <1>1
<1>3. QED
  BY <1>2, PTL DEF Spec, RowLayout

----------------------------------------------------------------------------
(* The decode of a byte *)

\* The scale of an exponent, of the two halves of their range.
LEMMA Scales ==
  ASSUME NEW e \in 1..15
  PROVE  \/ /\ e <= 8
            /\ \E p \in {1, 2, 4, 8, 16, 32, 64, 128} : 2 ^ (e - 1) = p
         \/ /\ e > 8
            /\ \E p \in {2, 4, 8, 16, 32, 64, 128} : 2 ^ (e - 1) = 128 * p
  <1> DEFINE f == [i \in 0..14 |-> 2 ^ i]
  <1>1. /\ f[0] = 1 /\ f[1] = 2 /\ f[2] = 4 /\ f[3] = 8
        /\ f[4] = 16 /\ f[5] = 32 /\ f[6] = 64 /\ f[7] = 128
    OBVIOUS
  <1>2. /\ f[8] = 128 * 2 /\ f[9] = 128 * 4 /\ f[10] = 128 * 8 /\ f[11] = 128 * 16
        /\ f[12] = 128 * 32 /\ f[13] = 128 * 64 /\ f[14] = 128 * 128
    OBVIOUS
  <1>3. PICK d : d = e - 1 /\ d \in 0..14 /\ f[d] = 2 ^ (e - 1)
    <2>1. e - 1 \in 0..14
      OBVIOUS
    <2>2. f[e - 1] = 2 ^ (e - 1)
      BY <2>1, Zenon
    <2>q. QED BY <2>1, <2>2, Zenon
  <1> HIDE DEF f
  <1>4. CASE e <= 8
    <2>1. d \in {0, 1, 2, 3, 4, 5, 6, 7}
      BY <1>3, <1>4
    <2>2. f[d] \in {1, 2, 4, 8, 16, 32, 64, 128}
      BY <1>1, <2>1
    <2>q. QED BY <1>3, <1>4, <2>2
  <1>5. CASE e > 8
    <2>1. d \in {8, 9, 10, 11, 12, 13, 14}
      BY <1>3, <1>5
    <2>2. \E p \in {2, 4, 8, 16, 32, 64, 128} : f[d] = 128 * p
      BY <1>2, <2>1
    <2>q. QED BY <1>3, <1>5, <2>2
  <1>q. QED BY <1>4, <1>5

\* fp16 holds eleven significant bits times one of two powers of two.
LEMMA Representables ==
  ASSUME NEW n \in Nat, n < 2048
  PROVE  Representable(128 * n) /\ Representable(16384 * n)
  <1>1. 2 ^ 7 = 128 /\ 2 ^ 14 = 16384
    OBVIOUS
  <1>2. /\ (128 * n) % 128 = 0 /\ (128 * n) \div 128 = n
        /\ (128 * n) \div 65536 < 65504
    OBVIOUS
  <1>3. /\ (16384 * n) % 16384 = 0 /\ (16384 * n) \div 16384 = n
        /\ (16384 * n) \div 65536 < 65504
    OBVIOUS
  <1>4. Representable(128 * n)
    <2>1. (128 * n) % 2 ^ 7 = 0 /\ (128 * n) \div 2 ^ 7 < 2048
      BY <1>1, <1>2
    <2>2. 7 \in 0..20
      OBVIOUS
    <2>q. QED BY <1>2, <2>1, <2>2 DEF Representable
  <1>5. Representable(16384 * n)
    <2>1. (16384 * n) % 2 ^ 14 = 0 /\ (16384 * n) \div 2 ^ 14 < 2048
      BY <1>1, <1>3
    <2>2. 14 \in 0..20
      OBVIOUS
    <2>q. QED BY <1>3, <2>1, <2>2 DEF Representable
  <1>q. QED BY <1>4, <1>5

\* Seven bits shifted by seven: the exponent's and the mantissa's stay apart.
LEMMA ShiftedBits ==
  ASSUME NEW b \in AllBytes
  PROVE  LET e == Low(b) \div 8
             m == Low(b) % 8
         IN  /\ e \in 0..15 /\ m \in 0..7
             /\ HalfBits(b) \div 1024 = e /\ HalfBits(b) % 1024 = 128 * m
  <1>1. PICK l : l = Low(b)
    OBVIOUS
  <1>2. l \in 0..127
    BY <1>1 DEF Low, AllBytes
  <1>3. l \div 8 \in 0..15 /\ l % 8 \in 0..7
    BY <1>2
  <1>4. (l * 128) \div 1024 = l \div 8 /\ (l * 128) % 1024 = 128 * (l % 8)
    BY <1>2
  <1>q. QED BY <1>1, <1>3, <1>4 DEF HalfBits

LEMMA DecodeOfByte ==
  ASSUME NEW b \in AllBytes
  PROVE  Dequant(b) = Lut(b) /\ (Dequant(b) # Nan => Representable(Dequant(b)))
  <1>1. CASE Low(b) = 127
    BY <1>1 DEF Dequant, Lut
  <1>2. CASE Low(b) # 127
    <2>1. PICK e, m : e = Low(b) \div 8 /\ m = Low(b) % 8
      OBVIOUS
    <2>2. /\ e \in 0..15 /\ m \in 0..7
          /\ HalfBits(b) \div 1024 = e /\ HalfBits(b) % 1024 = 128 * m
      BY <2>1, ShiftedBits
    <2>3. CASE e = 0
      <3>1. Dequant(b) = 128 * m /\ Lut(b) = 128 * m
        BY <1>2, <2>1, <2>2, <2>3 DEF Dequant, Lut, Half256
      <3>q. QED BY <2>2, <3>1, Representables
    <2>4. CASE e # 0
      <3>1. PICK x : x = 2 ^ (e - 1)
        OBVIOUS
      <3>2. Dequant(b) = (1024 + 128 * m) * x /\ Lut(b) = 128 * ((8 + m) * x)
        BY <1>2, <2>1, <2>2, <2>4, <3>1 DEF Dequant, Lut, Half256
      <3>3. e \in 1..15
        BY <2>2, <2>4
      <3>4. CASE \E p \in {1, 2, 4, 8, 16, 32, 64, 128} : x = p
        <4>1. PICK p \in {1, 2, 4, 8, 16, 32, 64, 128} : x = p
          BY <3>4
        <4>2. /\ (8 + m) * p \in Nat /\ (8 + m) * p < 2048
              /\ (1024 + 128 * m) * p = 128 * ((8 + m) * p)
          BY <2>2
        <4>q. QED BY <3>2, <4>1, <4>2, Representables
      <3>5. CASE \E p \in {2, 4, 8, 16, 32, 64, 128} : x = 128 * p
        <4>1. PICK p \in {2, 4, 8, 16, 32, 64, 128} : x = 128 * p
          BY <3>5
        <4>2. /\ (8 + m) * p \in Nat /\ (8 + m) * p < 2048
              /\ (1024 + 128 * m) * (128 * p) = 16384 * ((8 + m) * p)
              /\ 128 * ((8 + m) * (128 * p)) = 16384 * ((8 + m) * p)
          BY <2>2
        <4>q. QED BY <3>2, <4>1, <4>2, Representables
      <3>q. QED BY <3>1, <3>3, <3>4, <3>5, Scales, ZenonT(30)
    <2>q. QED BY <2>3, <2>4
  <1>q. QED BY <1>1, <1>2

\* Whatever the rows a launch reads hold, the kernel's bit arithmetic gives what
\* the table of dequant.py gives, exactly.
THEOREM DecodeExactHolds == Spec => DecodeExact
<1>1. [Next]_vars => [launch' # launch =>
        \A b \in AllBytes : /\ Dequant(b) = Lut(b)
                            /\ Dequant(b) # Nan => Representable(Dequant(b))]_vars
  BY DecodeOfByte
<1>2. QED
  BY <1>1, PTL DEF Spec, DecodeExact
=============================================================================

-------------------------- MODULE ProbeTree_proofs --------------------------
(***************************************************************************)
(* The probes on one tree, for every choice of scripts, every order of the *)
(* methods and any number of runs, kills and removals.                     *)
(*                                                                         *)
(* The argument: there is one line of all segments, upstream's and         *)
(* inserted ones, of which every file is always a stretch with holes       *)
(* (Ordered).  A block writes next to its anchor, so what it writes finds  *)
(* its place on the line free; a text whose test looks for the whole       *)
(* insertion is found again because its parts are neighbours on the line   *)
(* and nothing can come between them, which needs that parts on both sides *)
(* of an anchor come and go together (Paired).  What a run has behind it   *)
(* (Named, Matched) then gives NothingDangles.                             *)
(***************************************************************************)
EXTENDS ProbeTree, SequenceTheorems, WellFoundedInduction, FiniteSetTheorems, TLAPS

\* The two texts that may be there several times.
Repeated == {"S1", "ppProbe"}

\* Where a segment stands: hundreds for the method or file, units for the place
\* in it when all there is to insert has been inserted.
Place ==
  [helper |-> 1, class |-> 2,
   anchorProbe |-> 101, combine |-> 102,
   commitProbe |-> 201, advance |-> 202,
   select |-> 301, P13a |-> 302, logits |-> 303, P13b |-> 304, hiddenProbe |-> 305,
   P14 |-> 306, bitmask |-> 307, P15 |-> 308, choice |-> 309, verifyProbe |-> 310,
   verdict |-> 311,
   S1 |-> 401, stateTest |-> 402, P8a |-> 403, receive |-> 404, P8b |-> 405, P9a |-> 406,
   sample |-> 407, P9b |-> 408, ifHandler |-> 409, deferred |-> 410, P10a |-> 411,
   broadcast |-> 412, P10b |-> 413, mtpProbe |-> 414, propose |-> 415, sendBelow |-> 416,
   setDraft |-> 417,
   P12 |-> 501, speculate |-> 502,
   import |-> 601, ppProbe |-> 602, maskSet |-> 603, needProbe |-> 604, maskReturn |-> 605,
   recvGuard |-> 606, S3 |-> 607, recvSlack |-> 608, lastAssert |-> 609, S2 |-> 610,
   sendGuard |-> 611, sendSlack |-> 612,
   wmMark |-> 701, entry |-> 702, encoderReturn |-> 703, skip |-> 704, P4 |-> 705,
   specSteps |-> 706, P6a |-> 707, prefillRun |-> 708, P6b |-> 709, P7a |-> 710,
   prefillSample |-> 711, P7b |-> 712, P5 |-> 713, phase |-> 714, steps |-> 715, P1 |-> 716]

Segs == DOMAIN Place

\* r is such a line: the same places, the four methods in some order.
Line(r) ==
  /\ r \in [Segs -> Int]
  /\ \A x, y \in Segs : r[x] = r[y] => x = y
  /\ \A x, y \in Segs : Place[y] = Place[x] + 1 => r[y] = r[x] + 1
  /\ \A x \in Segs : Place[x] > 2 => r["class"] < r[x]

\* s is a stretch of the line with holes.
Follows(r, s) ==
  /\ s \in Seq(Segs)
  /\ \A i, j \in DOMAIN s :
       i < j => r[s[i]] < r[s[j]] \/ (s[i] = s[j] /\ s[i] \in Repeated)

Pairs == {<<"P8a", "P8b">>, <<"P9a", "P9b">>, <<"P10a", "P10b">>, <<"P13a", "P13b">>,
          <<"P6a", "P6b">>, <<"P7a", "P7b">>}

Files == {"runner", "pp_utils", "warmup"}

Holds(f) == Range(text[f])

Ordered == \E r : Line(r) /\ \A f \in Files : Follows(r, text[f])

Coupled(H) ==
  /\ \A p \in Pairs : p[1] \in H <=> p[2] \in H
  /\ "S3" \in H => "recvGuard" \notin H

Paired == \A f \in Files : Coupled(Holds(f))

Running(t) == outcome = "running" /\ tool = t

HeadSteps == {"P8a", "P9a", "P10a", "P12", "P13a", "P14", "P15"}

FileSteps == {"P4", "P5", "P6a", "P7a"}

Named ==
  /\ clean /\ ~Running("warmup") /\ Holds("runner") \cap HeadSteps # {} => "helper" \in Holds("runner")
  /\ Running("warmup") /\ block > 10 => "helper" \in Holds("runner")
  /\ Running("warmup") /\ block > 2 => "wmMark" \in Holds("warmup")
  /\ Holds("warmup") \cap FileSteps # {} => "wmMark" \in Holds("warmup")

Matched ==
  /\ Running("relay") /\ ~missed =>
       /\ block > 1 => "deferred" \in Holds("runner")
       /\ block > 2 => "sendBelow" \in Holds("runner")
       /\ block > 3 => "recvSlack" \in Holds("pp_utils")
       /\ block > 4 => "sendSlack" \in Holds("pp_utils")
  /\ clean /\ ~Running("relay") =>
       /\ "deferred" \in Holds("runner") <=> "sendBelow" \in Holds("runner")
       /\ "recvSlack" \in Holds("pp_utils") <=> "sendSlack" \in Holds("pp_utils")

ProbeTypeOK ==
  /\ DOMAIN text = Files
  /\ ~Over => tool \in Tools
  /\ block \in Nat \ {0}
  /\ missed \in BOOLEAN /\ clean \in BOOLEAN

ProbeInv == ProbeTypeOK /\ Ordered /\ Paired /\ Named /\ Matched

----------------------------------------------------------------------------
(* The line *)

LEMMA Neighbours ==
  ASSUME NEW r, Line(r)
  PROVE  /\ r["class"] = r["helper"] + 1
         /\ r["combine"] = r["anchorProbe"] + 1
         /\ r["advance"] = r["commitProbe"] + 1
         /\ r["speculate"] = r["P12"] + 1
  BY DEF Line, Segs, Place

LEMMA SelectLine ==
  ASSUME NEW r, Line(r)
  PROVE  /\ r["P13a"] = r["select"] + 1
         /\ r["logits"] = r["P13a"] + 1
         /\ r["P13b"] = r["logits"] + 1
         /\ r["hiddenProbe"] = r["P13b"] + 1
         /\ r["P14"] = r["hiddenProbe"] + 1
         /\ r["bitmask"] = r["P14"] + 1
         /\ r["P15"] = r["bitmask"] + 1
         /\ r["choice"] = r["P15"] + 1
         /\ r["verifyProbe"] = r["choice"] + 1
         /\ r["verdict"] = r["verifyProbe"] + 1
  BY DEF Line, Segs, Place

LEMMA StateLine ==
  ASSUME NEW r, Line(r)
  PROVE  /\ r["stateTest"] = r["S1"] + 1
         /\ r["P8a"] = r["stateTest"] + 1
         /\ r["receive"] = r["P8a"] + 1
         /\ r["P8b"] = r["receive"] + 1
         /\ r["P9a"] = r["P8b"] + 1
         /\ r["sample"] = r["P9a"] + 1
         /\ r["P9b"] = r["sample"] + 1
         /\ r["ifHandler"] = r["P9b"] + 1
         /\ r["deferred"] = r["ifHandler"] + 1
         /\ r["P10a"] = r["deferred"] + 1
         /\ r["broadcast"] = r["P10a"] + 1
         /\ r["P10b"] = r["broadcast"] + 1
         /\ r["mtpProbe"] = r["P10b"] + 1
         /\ r["propose"] = r["mtpProbe"] + 1
         /\ r["sendBelow"] = r["propose"] + 1
         /\ r["setDraft"] = r["sendBelow"] + 1
  BY DEF Line, Segs, Place

LEMMA PPUtilsLine ==
  ASSUME NEW r, Line(r)
  PROVE  /\ r["ppProbe"] = r["import"] + 1
         /\ r["maskSet"] = r["ppProbe"] + 1
         /\ r["needProbe"] = r["maskSet"] + 1
         /\ r["maskReturn"] = r["needProbe"] + 1
         /\ r["recvGuard"] = r["maskReturn"] + 1
         /\ r["S3"] = r["recvGuard"] + 1
         /\ r["recvSlack"] = r["S3"] + 1
         /\ r["lastAssert"] = r["recvSlack"] + 1
         /\ r["S2"] = r["lastAssert"] + 1
         /\ r["sendGuard"] = r["S2"] + 1
         /\ r["sendSlack"] = r["sendGuard"] + 1
  BY DEF Line, Segs, Place

LEMMA WarmupLine ==
  ASSUME NEW r, Line(r)
  PROVE  /\ r["entry"] = r["wmMark"] + 1
         /\ r["encoderReturn"] = r["entry"] + 1
         /\ r["skip"] = r["encoderReturn"] + 1
         /\ r["P4"] = r["skip"] + 1
         /\ r["specSteps"] = r["P4"] + 1
         /\ r["P6a"] = r["specSteps"] + 1
         /\ r["prefillRun"] = r["P6a"] + 1
         /\ r["P6b"] = r["prefillRun"] + 1
         /\ r["P7a"] = r["P6b"] + 1
         /\ r["prefillSample"] = r["P7a"] + 1
         /\ r["P7b"] = r["prefillSample"] + 1
         /\ r["P5"] = r["P7b"] + 1
         /\ r["phase"] = r["P5"] + 1
         /\ r["steps"] = r["phase"] + 1
         /\ r["P1"] = r["steps"] + 1
  BY DEF Line, Segs, Place

\* No two segments have the same place.
LEMMA PlacesDiffer ==
  ASSUME NEW x \in Segs, NEW y \in Segs, Place[x] = Place[y]
  PROVE  x = y
  BY SMTT(60) DEF Segs, Place

----------------------------------------------------------------------------
(* Finding and replacing *)

LEMMA LeastOf ==
  ASSUME NEW S \in SUBSET Nat, S # {}
  PROVE  \E n \in S : \A m \in S : n <= m
  <1> DEFINE below == {0..(n - 1) : n \in S}
  <1>1. below \subseteq FiniteSubsetsOf(Nat) /\ below # {}
    <2>1. ASSUME NEW n \in S PROVE 0..(n - 1) \in FiniteSubsetsOf(Nat)
      <3>1. n - 1 \in Int /\ 0..(n - 1) \subseteq Nat
        OBVIOUS
      <3>2. IsFiniteSet(0..(n - 1))
        BY <3>1, FS_Interval
      <3>q. QED BY <3>1, <3>2 DEF FiniteSubsetsOf
    <2>q. QED BY <2>1
  <1>2. \E x \in below : \A y \in below : ~(<<y, x>> \in StrictSubsetOrdering(Nat))
    <2> HIDE DEF below
    <2>q. QED BY <1>1, FS_StrictSubsetOrderingWellFounded, WFMin
  <1>3. PICK n \in S : \A m \in S : ~(<<0..(m - 1), 0..(n - 1)>> \in StrictSubsetOrdering(Nat))
    BY <1>2
  <1>4. ASSUME NEW m \in S, m < n PROVE FALSE
    <2>1. 0..(m - 1) \subseteq 0..(n - 1) /\ m \in 0..(n - 1) /\ m \notin 0..(m - 1)
      BY <1>4
    <2>2. 0..(m - 1) \in SUBSET Nat /\ 0..(n - 1) \in SUBSET Nat
      OBVIOUS
    <2>3. <<0..(m - 1), 0..(n - 1)>> \in StrictSubsetOrdering(Nat)
      BY <2>1, <2>2 DEF StrictSubsetOrdering
    <2>q. QED BY <1>3, <2>3
  <1>q. QED BY <1>4

LEMMA FirstIs ==
  ASSUME NEW S \in SUBSET Nat, S # {}
  PROVE  First(S) \in S /\ \A j \in S : First(S) <= j
  BY LeastOf DEF First

\* Where a text occurs, its segments stand one after the other.
LEMMA OccursAt ==
  ASSUME NEW T, NEW s \in Seq(T), NEW pat \in Seq(T), NEW i
  PROVE  i \in Occurs(pat, s) <=>
           /\ i \in 1..(Len(s) - Len(pat) + 1)
           /\ \A k \in 1..Len(pat) : s[i + k - 1] = pat[k]
  <1> SUFFICES ASSUME i \in 1..(Len(s) - Len(pat) + 1)
               PROVE  SubSeq(s, i, i + Len(pat) - 1) = pat <=>
                        \A k \in 1..Len(pat) : s[i + k - 1] = pat[k]
    BY DEF Occurs
  <1> DEFINE n == Len(pat)
             c == SubSeq(s, i, i + n - 1)
  <1>1. n \in Nat /\ Len(s) \in Nat /\ i \in Nat /\ i + n - 1 <= Len(s)
    OBVIOUS
  <1>2. \A j \in i..(i + n - 1) : s[j] \in T
    BY <1>1
  <1>3. c \in Seq(T) /\ Len(c) = n /\ \A k \in 1..n : c[k] = s[i + k - 1]
    <2>1. /\ c \in Seq(T)
          /\ Len(c) = IF i <= i + n - 1 THEN (i + n - 1) - i + 1 ELSE 0
          /\ \A k \in 1..((i + n - 1) - i + 1) : c[k] = s[i + k - 1]
      BY <1>1, <1>2, SubSeqProperties
    <2>q. QED BY <1>1, <2>1
  <1>4. (\A k \in 1..n : s[i + k - 1] = pat[k]) => c = pat
    <2> HIDE DEF c
    <2>q. QED BY <1>3, SeqEqual
  <1>5. c = pat => \A k \in 1..n : s[i + k - 1] = pat[k]
    BY <1>3
  <1>q. QED BY <1>4, <1>5

LEMMA OneOccurs ==
  ASSUME NEW T, NEW s \in Seq(T), NEW x \in T
  PROVE  Occurs(<<x>>, s) # {} <=> x \in Range(s)
  <1>1. Len(s) \in Nat /\ DOMAIN s = 1..Len(s)
    OBVIOUS
  <1>2. PICK pat : pat = <<x>>
    OBVIOUS
  <1>3. pat \in Seq(T) /\ Len(pat) = 1 /\ pat[1] = x
    BY <1>2
  <1>4. ASSUME NEW i PROVE i \in Occurs(pat, s) <=> i \in 1..Len(s) /\ s[i] = x
    <2>1. i \in Occurs(pat, s) <=> /\ i \in 1..(Len(s) - Len(pat) + 1)
                                  /\ \A k \in 1..Len(pat) : s[i + k - 1] = pat[k]
      <3>1. pat \in Seq(T)
        BY <1>3
      <3>q. QED BY <3>1, OccursAt
    <2>q. QED BY <1>1, <1>3, <2>1
  <1>q. QED BY <1>1, <1>2, <1>4 DEF Range

\* What replacing the first occurrence gives, position by position.
LEMMA ReplacedIs ==
  ASSUME NEW T, NEW s \in Seq(T), NEW old \in Seq(T), NEW new \in Seq(T), Occurs(old, s) # {}
  PROVE  \E i \in Occurs(old, s) :
           LET t == Replaced(s, old, new)
           IN  /\ t \in Seq(T)
               /\ Len(t) = Len(s) - Len(old) + Len(new)
               /\ \A k \in 1..Len(t) :
                    t[k] = IF k < i THEN s[k]
                           ELSE IF k < i + Len(new) THEN new[k - i + 1]
                           ELSE s[k - Len(new) + Len(old)]
  <1> DEFINE i == First(Occurs(old, s))
             a == SubSeq(s, 1, i - 1)
             b == SubSeq(s, i + Len(old), Len(s))
  <1>1. i \in Occurs(old, s)
    <2>1. Occurs(old, s) \in SUBSET Nat
      BY DEF Occurs
    <2>q. QED BY <2>1, FirstIs
  <1>2. /\ i \in 1..(Len(s) - Len(old) + 1)
        /\ Len(s) \in Nat /\ Len(old) \in Nat /\ Len(new) \in Nat
    BY <1>1, OccursAt
  <1> HIDE DEF i
  <1>3. a \in Seq(T) /\ Len(a) = i - 1 /\ \A k \in 1..(i - 1) : a[k] = s[k]
    <2>1. \A j \in 1..(i - 1) : s[j] \in T
      BY <1>2
    <2>2. /\ a \in Seq(T)
          /\ Len(a) = IF 1 <= i - 1 THEN (i - 1) - 1 + 1 ELSE 0
          /\ \A k \in 1..((i - 1) - 1 + 1) : a[k] = s[1 + k - 1]
      BY <1>2, <2>1, SubSeqProperties
    <2>q. QED BY <1>2, <2>2
  <1>4. /\ b \in Seq(T)
        /\ Len(b) = Len(s) - Len(old) - i + 1
        /\ \A k \in 1..Len(b) : b[k] = s[i + Len(old) + k - 1]
    <2>1. \A j \in (i + Len(old))..Len(s) : s[j] \in T
      BY <1>2
    <2>2. /\ b \in Seq(T)
          /\ Len(b) = IF i + Len(old) <= Len(s) THEN Len(s) - (i + Len(old)) + 1 ELSE 0
          /\ \A k \in 1..(Len(s) - (i + Len(old)) + 1) : b[k] = s[(i + Len(old)) + k - 1]
      BY <1>2, <2>1, SubSeqProperties
    <2>3. Len(b) = Len(s) - Len(old) - i + 1
      BY <1>2, <2>2
    <2>q. QED BY <1>2, <2>2, <2>3
  <1> HIDE DEF a, b
  <1>5. /\ a \o new \in Seq(T)
        /\ Len(a \o new) = (i - 1) + Len(new)
        /\ \A k \in 1..((i - 1) + Len(new)) : (a \o new)[k] = IF k <= i - 1 THEN a[k] ELSE new[k - (i - 1)]
    BY <1>3, ConcatProperties
  <1>6. PICK c : /\ c = a \o new
                 /\ c \in Seq(T) /\ Len(c) = (i - 1) + Len(new)
                 /\ \A k \in 1..Len(c) : c[k] = IF k <= i - 1 THEN a[k] ELSE new[k - (i - 1)]
    BY <1>5
  <1>7. /\ c \o b \in Seq(T)
        /\ Len(c \o b) = Len(c) + Len(b)
        /\ \A k \in 1..(Len(c) + Len(b)) : (c \o b)[k] = IF k <= Len(c) THEN c[k] ELSE b[k - Len(c)]
    <2>1. b \in Seq(T) /\ c \in Seq(T)
      BY <1>4, <1>6
    <2>q. QED BY <2>1, ConcatProperties
  <1>8. Replaced(s, old, new) = c \o b
    BY <1>6 DEF Replaced, i, a, b
  <1>9. PICK t : /\ t = c \o b /\ Len(t) = Len(c) + Len(b)
                 /\ \A k \in 1..Len(t) : t[k] = IF k <= Len(c) THEN c[k] ELSE b[k - Len(c)]
    BY <1>7
  <1>10. Len(t) = Len(s) - Len(old) + Len(new)
    BY <1>2, <1>4, <1>6, <1>9
  <1>11. ASSUME NEW k \in 1..Len(t)
         PROVE  t[k] = IF k < i THEN s[k]
                       ELSE IF k < i + Len(new) THEN new[k - i + 1]
                       ELSE s[k - Len(new) + Len(old)]
    <2>1. CASE k < i
      BY <1>2, <1>3, <1>6, <1>9, <1>10, <2>1
    <2>2. CASE ~(k < i) /\ k < i + Len(new)
      BY <1>2, <1>6, <1>9, <1>10, <2>2, SMTT(30)
    <2>3. CASE ~(k < i + Len(new))
      <3>1. t[k] = b[k - Len(c)] /\ k - Len(c) \in 1..Len(b)
        BY <1>2, <1>4, <1>6, <1>9, <1>10, <2>3, SMTT(30)
      <3>2. i + Len(old) + (k - Len(c)) - 1 = k - Len(new) + Len(old)
        BY <1>2, <1>6
      <3>3. ~(k < i)
        BY <1>2, <2>3
      <3>q. QED BY <1>4, <2>3, <3>1, <3>2, <3>3
    <2>q. QED BY <2>1, <2>2, <2>3
  <1>q. QED BY <1>1, <1>7, <1>8, <1>9, <1>10, <1>11

\* The places of new next to those of old are free, or taken by a repeated
\* text that is inserted once more.
Fits(r, s, old, new) ==
  /\ old \in Seq(Segs \ Repeated) /\ Len(old) > 0
  /\ new \in Seq(Segs) /\ Len(new) > 0
  /\ \A i, j \in DOMAIN new : i < j => r[new[i]] < r[new[j]]
  /\ \A z \in Range(s) : r[new[1]] <= r[z] /\ r[z] < r[old[1]] => z = new[1] /\ z \in Repeated
  /\ \A z \in Range(s) :
       r[old[Len(old)]] < r[z] /\ r[z] <= r[new[Len(new)]] => z = new[Len(new)] /\ z \in Repeated

\* Then the file still follows the line, and holds new in the place of old.
LEMMA FittedIn ==
  ASSUME NEW r, Line(r), NEW s, Follows(r, s), NEW old, NEW new, Fits(r, s, old, new),
         Occurs(old, s) # {}
  PROVE  /\ Follows(r, Replaced(s, old, new))
         /\ Range(Replaced(s, old, new)) = (Range(s) \ Range(old)) \cup Range(new)
  <1> DEFINE m == Len(old)
             n == Len(new)
             first == old[1]
             last == old[m]
  <1>1. /\ s \in Seq(Segs) /\ old \in Seq(Segs) /\ new \in Seq(Segs)
        /\ Len(s) \in Nat /\ m \in Nat \ {0} /\ n \in Nat \ {0}
        /\ DOMAIN s = 1..Len(s) /\ DOMAIN old = 1..m /\ DOMAIN new = 1..n
        /\ \A k \in 1..m : old[k] \in Segs /\ old[k] \notin Repeated
        /\ \A k \in 1..n : new[k] \in Segs
        /\ \A k \in 1..Len(s) : s[k] \in Segs
    <2>1. old \in Seq(Segs \ Repeated) /\ new \in Seq(Segs) /\ s \in Seq(Segs)
      BY DEF Fits, Follows
    <2>2. old \in Seq(Segs) /\ \A k \in 1..m : old[k] \in Segs /\ old[k] \notin Repeated
      BY <2>1
    <2>q. QED BY <2>1, <2>2 DEF Fits
  <1> HIDE DEF m, n
  <1>0. s \in Seq(Segs) /\ old \in Seq(Segs) /\ new \in Seq(Segs)
    BY <1>1
  <1>2. PICK i \in Occurs(old, s) :
          LET t == Replaced(s, old, new)
          IN  /\ t \in Seq(Segs)
              /\ Len(t) = Len(s) - m + n
              /\ \A k \in 1..Len(t) :
                   t[k] = IF k < i THEN s[k]
                          ELSE IF k < i + n THEN new[k - i + 1]
                          ELSE s[k - n + m]
    BY <1>0, ReplacedIs DEF m, n
  <1>3. PICK t : t = Replaced(s, old, new)
    OBVIOUS
  <1>4. /\ t \in Seq(Segs) /\ Len(t) = Len(s) - m + n /\ DOMAIN t = 1..Len(t)
        /\ \A k \in 1..Len(t) : t[k] = IF k < i THEN s[k]
                                       ELSE IF k < i + n THEN new[k - i + 1]
                                       ELSE s[k - n + m]
    BY <1>2, <1>3
  <1>5. i \in 1..(Len(s) - m + 1) /\ \A k \in 1..m : s[i + k - 1] = old[k]
    <2>1. i \in Occurs(old, s)
      BY <1>2
    <2>q. QED BY <1>0, <2>1, OccursAt DEF m
  <1>6. \A x \in Segs : r[x] \in Int
    BY DEF Line
  <1>7. s[i] = first /\ s[i + m - 1] = last
    <2>1. 1 \in 1..m /\ m \in 1..m
      BY <1>1
    <2>2. s[i + m - 1] = old[m]
      BY <1>5, <2>1
    <2>3. s[i + 1 - 1] = old[1]
      BY <1>5, <2>1
    <2>4. i + 1 - 1 = i
      BY <1>5
    <2>q. QED BY <2>2, <2>3, <2>4
  \* What stands before the anchor is lower than all that is written,
  <1>8. ASSUME NEW k \in 1..(i - 1), NEW j \in 1..n
        PROVE  r[s[k]] < r[new[j]] \/ (s[k] = new[j] /\ s[k] \in Repeated)
    <2>0. k \in DOMAIN s /\ i \in DOMAIN s /\ k < i /\ s[k] \in Segs
      <3>1. k \in 1..Len(s) /\ i \in 1..Len(s) /\ k < i
        BY <1>1, <1>5
      <3>q. QED BY <1>1, <3>1
    <2>1. k \in DOMAIN s /\ i \in DOMAIN s /\ k < i /\ s[k] \in Segs /\ s[k] \in Range(s)
      BY <2>0 DEF Range
    <2>2. r[s[k]] < r[first]
      BY <1>1, <1>7, <2>1 DEF Follows
    <2>3. r[new[1]] <= r[s[k]] => s[k] = new[1] /\ s[k] \in Repeated
      BY <2>1, <2>2 DEF Fits
    <2>4. j # 1 => r[new[1]] < r[new[j]]
      BY <1>1, SMTT(30) DEF Fits
    <2>5. r[new[1]] \in Int /\ r[new[j]] \in Int /\ r[s[k]] \in Int
      BY <1>1, <1>6, <2>1
    <2>q. QED BY <2>3, <2>4, <2>5
  \* and what stands behind it is higher.
  <1>9. ASSUME NEW k \in (i + m)..Len(s), NEW j \in 1..n
        PROVE  r[new[j]] < r[s[k]] \/ (s[k] = new[j] /\ s[k] \in Repeated)
    <2>1. /\ k \in DOMAIN s /\ i + m - 1 \in DOMAIN s /\ i + m - 1 < k
          /\ s[k] \in Segs /\ s[k] \in Range(s)
      BY <1>1, <1>5 DEF Range
    <2>2. r[last] < r[s[k]]
      BY <1>1, <1>7, <2>1 DEF Follows
    <2>3. r[s[k]] <= r[new[n]] => s[k] = new[n] /\ s[k] \in Repeated
      BY <2>1, <2>2 DEF Fits, m, n
    <2>4. j # n => r[new[j]] < r[new[n]]
      <3>1. j \in DOMAIN new /\ n \in DOMAIN new /\ (j # n => j < n)
        BY <1>1
      <3>q. QED BY <3>1 DEF Fits
    <2>5. r[new[n]] \in Int /\ r[new[j]] \in Int /\ r[s[k]] \in Int
      BY <1>1, <1>6, <2>1
    <2>q. QED BY <2>3, <2>4, <2>5
  <1> HIDE DEF m, n, first, last
  <1>10. ASSUME NEW j \in DOMAIN t, NEW k \in DOMAIN t, j < k
         PROVE  r[t[j]] < r[t[k]] \/ (t[j] = t[k] /\ t[j] \in Repeated)
    <2>1. CASE k < i
      <3>1. t[j] = s[j] /\ t[k] = s[k] /\ j \in DOMAIN s /\ k \in DOMAIN s
        BY <1>1, <1>4, <1>5, <1>10, <2>1
      <3>q. QED BY <1>10, <3>1 DEF Follows
    <2>2. CASE j < i /\ ~(k < i) /\ k < i + n
      <3>1. t[j] = s[j] /\ t[k] = new[k - i + 1] /\ j \in 1..(i - 1) /\ k - i + 1 \in 1..n
        BY <1>1, <1>4, <1>5, <2>2
      <3>q. QED BY <1>8, <3>1
    <2>3. CASE j < i /\ ~(k < i + n)
      <3>1. /\ t[j] = s[j] /\ t[k] = s[k - n + m]
            /\ j \in DOMAIN s /\ k - n + m \in DOMAIN s /\ j < k - n + m
        BY <1>1, <1>4, <1>5, <2>3
      <3>q. QED BY <3>1 DEF Follows
    <2>4. CASE ~(j < i) /\ k < i + n
      <3>1. /\ t[j] = new[j - i + 1] /\ t[k] = new[k - i + 1]
            /\ j - i + 1 \in DOMAIN new /\ k - i + 1 \in DOMAIN new /\ j - i + 1 < k - i + 1
        BY <1>1, <1>4, <1>5, <1>10, <2>4
      <3>q. QED BY <3>1 DEF Fits
    <2>5. CASE ~(j < i) /\ j < i + n /\ ~(k < i + n)
      <3>1. /\ t[j] = new[j - i + 1] /\ t[k] = s[k - n + m]
            /\ j - i + 1 \in 1..n /\ k - n + m \in (i + m)..Len(s)
        BY <1>1, <1>4, <1>5, <2>5
      <3>2. r[new[j - i + 1]] < r[s[k - n + m]]
              \/ (s[k - n + m] = new[j - i + 1] /\ s[k - n + m] \in Repeated)
        BY <1>9, <3>1
      <3>q. QED BY <3>1, <3>2
    <2>6. CASE ~(j < i + n)
      <3>1. /\ t[j] = s[j - n + m] /\ t[k] = s[k - n + m]
            /\ j - n + m \in DOMAIN s /\ k - n + m \in DOMAIN s /\ j - n + m < k - n + m
        BY <1>1, <1>4, <1>5, <1>10, <2>6
      <3>q. QED BY <3>1 DEF Follows
    <2>q. QED BY <1>1, <1>4, <1>5, <1>10, <2>1, <2>2, <2>3, <2>4, <2>5, <2>6
  <1>11. ASSUME NEW z, z \in Range(t)
         PROVE  z \in (Range(s) \ Range(old)) \cup Range(new)
    <2>1. PICK k \in DOMAIN t : t[k] = z
      BY <1>11 DEF Range
    <2>2. CASE ~(k < i) /\ k < i + n
      <3>1. z = new[k - i + 1] /\ k - i + 1 \in DOMAIN new
        BY <1>1, <1>4, <1>5, <2>1, <2>2
      <3>q. QED BY <3>1 DEF Range
    <2>3. CASE k < i \/ ~(k < i + n)
      <3>1. PICK h \in DOMAIN s : z = s[h] /\ (h < i \/ i + m <= h)
        <4>1. CASE k < i
          <5>1. k \in DOMAIN s /\ t[k] = s[k]
            BY <1>1, <1>4, <1>5, <4>1
          <5>q. QED BY <2>1, <4>1, <5>1
        <4>2. CASE ~(k < i) /\ ~(k < i + n)
          <5>1. k - n + m \in DOMAIN s /\ i + m <= k - n + m
            BY <1>1, <1>4, <1>5, <4>2
          <5>2. t[k] = s[k - n + m]
            BY <1>4, <4>2
          <5>q. QED BY <2>1, <5>1, <5>2
        <4>q. QED BY <2>3, <4>1, <4>2
      <3>2. ASSUME NEW g \in DOMAIN old, old[g] = z PROVE FALSE
        <4>1. i + g - 1 \in DOMAIN s /\ s[i + g - 1] = z /\ h # i + g - 1 /\ z \notin Repeated
          BY <1>1, <1>5, <3>1, <3>2
        <4>2. r[z] < r[z]
          <5>1. \/ h < i + g - 1
                \/ i + g - 1 < h
            BY <1>1, <1>5, <4>1
          <5>q. QED BY <3>1, <4>1, <5>1 DEF Follows
        <4>3. r[z] \in Int
          BY <1>1, <1>6, <3>1
        <4>q. QED BY <4>2, <4>3
      <3>q. QED BY <3>1, <3>2 DEF Range
    <2>q. QED BY <2>2, <2>3
  <1>12. ASSUME NEW z, z \in (Range(s) \ Range(old)) \cup Range(new)
         PROVE  z \in Range(t)
    <2>1. CASE z \in Range(new)
      <3>1. PICK k \in DOMAIN new : new[k] = z
        BY <2>1 DEF Range
      <3>4. i + k - 1 \in 1..Len(t) /\ ~(i + k - 1 < i) /\ i + k - 1 < i + n
        BY <1>1, <1>4, <1>5
      <3>2. i + k - 1 \in DOMAIN t /\ t[i + k - 1] = new[(i + k - 1) - i + 1]
        BY <1>4, <3>4
      <3>3. (i + k - 1) - i + 1 = k
        BY <1>1, <1>5
      <3>q. QED BY <3>1, <3>2, <3>3 DEF Range
    <2>2. CASE z \in Range(s) /\ z \notin Range(old)
      <3>1. PICK h \in DOMAIN s : s[h] = z
        BY <2>2 DEF Range
      <3>2. CASE h < i
        <4>1. h \in DOMAIN t /\ t[h] = s[h]
          BY <1>1, <1>4, <1>5, <3>2
        <4>q. QED BY <3>1, <4>1 DEF Range
      <3>3. CASE i + m <= h
        <4>3. h - m + n \in 1..Len(t) /\ ~(h - m + n < i) /\ ~(h - m + n < i + n)
          BY <1>1, <1>4, <1>5, <3>3
        <4>1. h - m + n \in DOMAIN t /\ t[h - m + n] = s[(h - m + n) - n + m]
          BY <1>4, <4>3
        <4>2. (h - m + n) - n + m = h
          BY <1>1
        <4>q. QED BY <3>1, <4>1, <4>2 DEF Range
      <3>4. CASE ~(h < i) /\ ~(i + m <= h)
        <4>1. h - i + 1 \in 1..m /\ i + (h - i + 1) - 1 = h
          BY <1>1, <1>5, <3>4
        <4>2. s[h] = old[h - i + 1]
          <5>1. s[i + (h - i + 1) - 1] = old[h - i + 1]
            BY <1>5, <4>1
          <5>q. QED BY <4>1, <5>1
        <4>q. QED BY <1>1, <2>2, <3>1, <4>1, <4>2 DEF Range
      <3>q. QED BY <3>2, <3>3, <3>4
    <2>q. QED BY <1>12, <2>1, <2>2
  <1>13. Range(t) = (Range(s) \ Range(old)) \cup Range(new)
    BY <1>11, <1>12
  <1>q. QED BY <1>3, <1>4, <1>10, <1>13 DEF Follows

----------------------------------------------------------------------------
(* Short texts *)

LEMMA One ==
  ASSUME NEW S, NEW a \in S
  PROVE  /\ <<a>> \in Seq(S) /\ Len(<<a>>) = 1 /\ DOMAIN <<a>> = 1..1
         /\ <<a>>[1] = a
         /\ Range(<<a>>) = {a}
  BY DEF Range

LEMMA Two ==
  ASSUME NEW S, NEW a \in S, NEW b \in S
  PROVE  /\ <<a, b>> \in Seq(S) /\ Len(<<a, b>>) = 2 /\ DOMAIN <<a, b>> = 1..2
         /\ <<a, b>>[1] = a /\ <<a, b>>[2] = b
         /\ Range(<<a, b>>) = {a, b}
  BY DEF Range

LEMMA Three ==
  ASSUME NEW S, NEW a \in S, NEW b \in S, NEW c \in S
  PROVE  /\ <<a, b, c>> \in Seq(S) /\ Len(<<a, b, c>>) = 3 /\ DOMAIN <<a, b, c>> = 1..3
         /\ <<a, b, c>>[1] = a /\ <<a, b, c>>[2] = b /\ <<a, b, c>>[3] = c
         /\ Range(<<a, b, c>>) = {a, b, c}
  BY DEF Range

LEMMA Four ==
  ASSUME NEW S, NEW a \in S, NEW b \in S, NEW c \in S, NEW d \in S
  PROVE  /\ <<a, b, c, d>> \in Seq(S) /\ Len(<<a, b, c, d>>) = 4 /\ DOMAIN <<a, b, c, d>> = 1..4
         /\ <<a, b, c, d>>[1] = a /\ <<a, b, c, d>>[2] = b
         /\ <<a, b, c, d>>[3] = c /\ <<a, b, c, d>>[4] = d
         /\ Range(<<a, b, c, d>>) = {a, b, c, d}
  BY DEF Range

----------------------------------------------------------------------------
(* Neighbours on the line are neighbours in the file *)

LEMMA NextTo ==
  ASSUME NEW r, Line(r), NEW s, Follows(r, s),
         NEW x \in Segs \ Repeated, NEW y \in Segs \ Repeated, r[y] = r[x] + 1,
         NEW i \in DOMAIN s, s[i] = x, y \in Range(s)
  PROVE  i + 1 \in DOMAIN s /\ s[i + 1] = y
  <1>1. PICK j \in DOMAIN s : s[j] = y
    BY DEF Range
  <1>2. DOMAIN s = 1..Len(s) /\ Len(s) \in Nat /\ \A k \in DOMAIN s : s[k] \in Segs
    BY DEF Follows
  <1>3. \A z \in Segs : r[z] \in Int
    BY DEF Line
  <1>4. i < j
    <2>1. CASE j < i
      <3>1. r[y] < r[x] \/ y = x
        BY <1>1, <2>1 DEF Follows
      <3>q. QED BY <1>3, <3>1
    <2>2. CASE j = i
      BY <1>1, <1>3, <2>2
    <2>q. QED BY <1>1, <1>2, <2>1, <2>2
  <1>5. CASE i + 1 < j
    <2>1. i + 1 \in DOMAIN s /\ i < i + 1
      BY <1>2, <1>4
    <2>2. r[x] < r[s[i + 1]]
      BY <2>1 DEF Follows
    <2>3. r[s[i + 1]] < r[y]
      BY <1>1, <1>5, <2>1 DEF Follows
    <2>4. r[s[i + 1]] \in Int /\ r[x] \in Int
      BY <1>2, <1>3, <2>1
    <2>q. QED BY <2>2, <2>3, <2>4
  <1>q. QED BY <1>1, <1>2, <1>4, <1>5

LEMMA PairOccurs ==
  ASSUME NEW r, Line(r), NEW s, Follows(r, s),
         NEW x \in Segs \ Repeated, NEW y \in Segs \ Repeated, r[y] = r[x] + 1,
         x \in Range(s), y \in Range(s)
  PROVE  Occurs(<<x, y>>, s) # {}
  <1>1. PICK i \in DOMAIN s : s[i] = x
    BY DEF Range
  <1>2. i + 1 \in DOMAIN s /\ s[i + 1] = y
    BY <1>1, NextTo
  <1>3. PICK pat : pat = <<x, y>>
    OBVIOUS
  <1>4. pat \in Seq(Segs) /\ Len(pat) = 2 /\ pat[1] = x /\ pat[2] = y
    BY <1>3, Two
  <1>5. s \in Seq(Segs) /\ DOMAIN s = 1..Len(s) /\ Len(s) \in Nat
    BY DEF Follows
  <1>6. i \in 1..(Len(s) - Len(pat) + 1) /\ \A k \in 1..Len(pat) : s[i + k - 1] = pat[k]
    BY <1>1, <1>2, <1>4, <1>5
  <1>7. i \in Occurs(pat, s)
    <2>1. pat \in Seq(Segs)
      BY <1>4
    <2>q. QED BY <1>5, <1>6, <2>1, OccursAt
  <1>q. QED BY <1>3, <1>7

LEMMA TripleOccurs ==
  ASSUME NEW r, Line(r), NEW s, Follows(r, s),
         NEW x \in Segs \ Repeated, NEW y \in Segs \ Repeated, NEW z \in Segs \ Repeated,
         r[y] = r[x] + 1, r[z] = r[y] + 1,
         x \in Range(s), y \in Range(s), z \in Range(s)
  PROVE  Occurs(<<x, y, z>>, s) # {}
  <1>1. PICK i \in DOMAIN s : s[i] = x
    BY DEF Range
  <1>2. i + 1 \in DOMAIN s /\ s[i + 1] = y
    BY <1>1, NextTo
  <1>3. PICK h : h = i + 1
    OBVIOUS
  <1>4. h + 1 \in DOMAIN s /\ s[h + 1] = z
    BY <1>2, <1>3, NextTo
  <1>5. PICK pat : pat = <<x, y, z>>
    OBVIOUS
  <1>6. pat \in Seq(Segs) /\ Len(pat) = 3 /\ pat[1] = x /\ pat[2] = y /\ pat[3] = z
    BY <1>5, Three
  <1>7. s \in Seq(Segs) /\ DOMAIN s = 1..Len(s) /\ Len(s) \in Nat
    BY DEF Follows
  <1>8. i \in 1..(Len(s) - Len(pat) + 1) /\ \A k \in 1..Len(pat) : s[i + k - 1] = pat[k]
    BY <1>1, <1>2, <1>3, <1>4, <1>6, <1>7
  <1>9. i \in Occurs(pat, s)
    <2>1. pat \in Seq(Segs)
      BY <1>6
    <2>q. QED BY <1>7, <1>8, <2>1, OccursAt
  <1>q. QED BY <1>5, <1>9

\* Nothing in the file belongs between two segments that stand side by side.
LEMMA NothingBetween ==
  ASSUME NEW r, Line(r), NEW s, Follows(r, s), NEW x \in Segs, NEW y \in Segs,
         Occurs(<<x, y>>, s) # {}, NEW z \in Range(s)
  PROVE  ~(r[x] < r[z] /\ r[z] < r[y])
  <1>1. PICK pat : pat = <<x, y>>
    OBVIOUS
  <1>2. pat \in Seq(Segs) /\ Len(pat) = 2 /\ pat[1] = x /\ pat[2] = y
    BY <1>1, Two
  <1>3. s \in Seq(Segs) /\ DOMAIN s = 1..Len(s) /\ Len(s) \in Nat
    BY DEF Follows
  <1>4. PICK i \in Occurs(pat, s) : TRUE
    BY <1>1
  <1>5. i \in 1..(Len(s) - Len(pat) + 1) /\ \A k \in 1..Len(pat) : s[i + k - 1] = pat[k]
    <2>1. pat \in Seq(Segs)
      BY <1>2
    <2>q. QED BY <1>3, <1>4, <2>1, OccursAt
  <1>6. i \in DOMAIN s /\ i + 1 \in DOMAIN s /\ s[i] = x /\ s[i + 1] = y
    <2>1. s[i + 1 - 1] = x /\ s[i + 2 - 1] = y
      BY <1>2, <1>5
    <2>q. QED BY <1>2, <1>3, <1>5, <2>1
  <1>7. PICK h \in DOMAIN s : s[h] = z
    BY DEF Range
  <1>8. r[x] \in Int /\ r[y] \in Int /\ r[z] \in Int
    BY <1>3, <1>7 DEF Line
  <1>9. CASE h < i
    BY <1>6, <1>7, <1>8, <1>9 DEF Follows
  <1>10. CASE h = i \/ h = i + 1
    BY <1>6, <1>7, <1>8, <1>10
  <1>11. CASE i + 1 < h
    BY <1>6, <1>7, <1>8, <1>11 DEF Follows
  <1>q. QED BY <1>3, <1>6, <1>7, <1>9, <1>10, <1>11

\* Both ends of what occurs are there.
LEMMA PairHeld ==
  ASSUME NEW s \in Seq(Segs), NEW x \in Segs, NEW y \in Segs, Occurs(<<x, y>>, s) # {}
  PROVE  x \in Range(s) /\ y \in Range(s)
  <1>1. PICK pat : pat = <<x, y>>
    OBVIOUS
  <1>2. pat \in Seq(Segs) /\ Len(pat) = 2 /\ pat[1] = x /\ pat[2] = y
    BY <1>1, Two
  <1>3. PICK i \in Occurs(pat, s) : TRUE
    BY <1>1
  <1>4. i \in 1..(Len(s) - Len(pat) + 1) /\ \A k \in 1..Len(pat) : s[i + k - 1] = pat[k]
    <2>1. pat \in Seq(Segs)
      BY <1>2
    <2>q. QED BY <1>3, <2>1, OccursAt
  <1>5. s[i + 1 - 1] = x /\ s[i + 2 - 1] = y
    BY <1>2, <1>4
  <1>6. i + 1 - 1 \in DOMAIN s /\ i + 2 - 1 \in DOMAIN s
    BY <1>2, <1>4
  <1>q. QED BY <1>5, <1>6 DEF Range

----------------------------------------------------------------------------
(* The shapes of blocks, and when each fits *)

LEMMA BeforeFits ==
  ASSUME NEW r, Line(r), NEW s, Follows(r, s),
         NEW x \in Segs \ Repeated, NEW p \in Segs, r[x] = r[p] + 1,
         p \in Range(s) => p \in Repeated
  PROVE  Fits(r, s, <<x>>, <<p, x>>)
  <1>1. \A z \in Range(s) : z \in Segs
    BY DEF Follows, Range
  <1>2. r[p] \in Int /\ r[x] \in Int /\ \A z \in Segs : r[z] \in Int /\ (r[z] = r[p] => z = p)
    BY DEF Line
  <1>3. ASSUME NEW z \in Range(s), r[p] <= r[z], r[z] < r[x]
        PROVE  z = p /\ z \in Repeated
    <2>1. r[z] = r[p]
      BY <1>1, <1>2, <1>3
    <2>q. QED BY <1>1, <1>2, <2>1
  <1>4. PICK o, n : o = <<x>> /\ n = <<p, x>>
    OBVIOUS
  <1>5. /\ o \in Seq(Segs \ Repeated) /\ Len(o) = 1 /\ o[1] = x
        /\ n \in Seq(Segs) /\ Len(n) = 2 /\ DOMAIN n = 1..2 /\ n[1] = p /\ n[2] = x
    BY <1>4, One, Two
  <1>6. \A i, j \in DOMAIN n : i < j => r[n[i]] < r[n[j]]
    BY <1>2, <1>5
  <1>7. Fits(r, s, o, n)
    BY <1>1, <1>2, <1>3, <1>5, <1>6 DEF Fits
  <1>q. QED BY <1>4, <1>7

LEMMA AfterFits ==
  ASSUME NEW r, Line(r), NEW s, Follows(r, s),
         NEW x \in Segs \ Repeated, NEW p \in Segs, r[p] = r[x] + 1,
         p \in Range(s) => p \in Repeated
  PROVE  Fits(r, s, <<x>>, <<x, p>>)
  <1>1. \A z \in Range(s) : z \in Segs
    BY DEF Follows, Range
  <1>2. r[p] \in Int /\ r[x] \in Int /\ \A z \in Segs : r[z] \in Int /\ (r[z] = r[p] => z = p)
    BY DEF Line
  <1>3. ASSUME NEW z \in Range(s), r[x] < r[z], r[z] <= r[p]
        PROVE  z = p /\ z \in Repeated
    <2>1. r[z] = r[p]
      BY <1>1, <1>2, <1>3
    <2>q. QED BY <1>1, <1>2, <2>1
  <1>4. PICK o, n : o = <<x>> /\ n = <<x, p>>
    OBVIOUS
  <1>5. /\ o \in Seq(Segs \ Repeated) /\ Len(o) = 1 /\ o[1] = x
        /\ n \in Seq(Segs) /\ Len(n) = 2 /\ DOMAIN n = 1..2 /\ n[1] = x /\ n[2] = p
    BY <1>4, One, Two
  <1>6. \A i, j \in DOMAIN n : i < j => r[n[i]] < r[n[j]]
    BY <1>2, <1>5
  <1>7. Fits(r, s, o, n)
    BY <1>1, <1>2, <1>3, <1>5, <1>6 DEF Fits
  <1>q. QED BY <1>4, <1>7

LEMMA AroundFits ==
  ASSUME NEW r, Line(r), NEW s, Follows(r, s),
         NEW x \in Segs \ Repeated, NEW a \in Segs, NEW b \in Segs,
         r[x] = r[a] + 1, r[b] = r[x] + 1, a \notin Range(s), b \notin Range(s)
  PROVE  Fits(r, s, <<x>>, <<a, x, b>>)
  <1>1. \A z \in Range(s) : z \in Segs
    BY DEF Follows, Range
  <1>2. /\ r[a] \in Int /\ r[x] \in Int /\ r[b] \in Int
        /\ \A z \in Segs : r[z] \in Int /\ (r[z] = r[a] => z = a) /\ (r[z] = r[b] => z = b)
    BY DEF Line
  <1>3. ASSUME NEW z \in Range(s)
        PROVE  ~(r[a] <= r[z] /\ r[z] < r[x]) /\ ~(r[x] < r[z] /\ r[z] <= r[b])
    <2>1. r[z] # r[a] /\ r[z] # r[b]
      BY <1>1, <1>2
    <2>q. QED BY <1>1, <1>2, <2>1
  <1>4. PICK o, n : o = <<x>> /\ n = <<a, x, b>>
    OBVIOUS
  <1>5. /\ o \in Seq(Segs \ Repeated) /\ Len(o) = 1 /\ o[1] = x
        /\ n \in Seq(Segs) /\ Len(n) = 3 /\ DOMAIN n = 1..3 /\ n[1] = a /\ n[2] = x /\ n[3] = b
    BY <1>4, One, Three
  <1>6. \A i, j \in DOMAIN n : i < j => r[n[i]] < r[n[j]]
    BY <1>2, <1>5
  <1>7. Fits(r, s, o, n)
    BY <1>1, <1>2, <1>3, <1>5, <1>6 DEF Fits
  <1>q. QED BY <1>4, <1>7

LEMMA InsteadFits ==
  ASSUME NEW r, Line(r), NEW s, Follows(r, s),
         NEW x \in Segs \ Repeated, NEW y \in Segs, r[x] < r[y],
         \A z \in Range(s) : ~(r[x] < r[z] /\ r[z] <= r[y])
  PROVE  Fits(r, s, <<x>>, <<y>>)
  <1>1. \A z \in Range(s) : z \in Segs
    BY DEF Follows, Range
  <1>2. r[x] \in Int /\ r[y] \in Int /\ \A z \in Segs : r[z] \in Int
    BY DEF Line
  <1>3. PICK o, n : o = <<x>> /\ n = <<y>>
    OBVIOUS
  <1>4. /\ o \in Seq(Segs \ Repeated) /\ Len(o) = 1 /\ o[1] = x
        /\ n \in Seq(Segs) /\ Len(n) = 1 /\ DOMAIN n = 1..1 /\ n[1] = y
    BY <1>3, One
  <1>5. Fits(r, s, o, n)
    BY <1>1, <1>2, <1>4 DEF Fits
  <1>q. QED BY <1>3, <1>5

\* The anchor is two segments, and what is written stays between them.
LEMMA BetweenFits ==
  ASSUME NEW r, Line(r), NEW s, Follows(r, s),
         NEW x \in Segs \ Repeated, NEW y \in Segs \ Repeated, NEW p \in Segs,
         r[x] < r[p], r[p] < r[y]
  PROVE  /\ Fits(r, s, <<x, y>>, <<x, p, y>>)
         /\ Fits(r, s, <<x, y>>, <<x, p>>)
         /\ Fits(r, s, <<x, y>>, <<p>>)
  <1>1. \A z \in Range(s) : z \in Segs
    BY DEF Follows, Range
  <1>2. r[x] \in Int /\ r[y] \in Int /\ r[p] \in Int /\ \A z \in Segs : r[z] \in Int
    BY DEF Line
  <1>3. PICK o, n3, n2, n1 : o = <<x, y>> /\ n3 = <<x, p, y>> /\ n2 = <<x, p>> /\ n1 = <<p>>
    OBVIOUS
  <1>4. o \in Seq(Segs \ Repeated) /\ Len(o) = 2 /\ o[1] = x /\ o[2] = y
    BY <1>3, Two
  <1>5. n3 \in Seq(Segs) /\ Len(n3) = 3 /\ DOMAIN n3 = 1..3 /\ n3[1] = x /\ n3[2] = p /\ n3[3] = y
    BY <1>3, Three
  <1>6. n2 \in Seq(Segs) /\ Len(n2) = 2 /\ DOMAIN n2 = 1..2 /\ n2[1] = x /\ n2[2] = p
    BY <1>3, Two
  <1>7. n1 \in Seq(Segs) /\ Len(n1) = 1 /\ DOMAIN n1 = 1..1 /\ n1[1] = p
    BY <1>3, One
  <1>8. Fits(r, s, o, n3)
    <2>1. \A i, j \in DOMAIN n3 : i < j => r[n3[i]] < r[n3[j]]
      BY <1>2, <1>5
    <2>q. QED BY <1>1, <1>2, <1>4, <1>5, <2>1 DEF Fits
  <1>9. Fits(r, s, o, n2)
    <2>1. \A i, j \in DOMAIN n2 : i < j => r[n2[i]] < r[n2[j]]
      BY <1>2, <1>6
    <2>q. QED BY <1>1, <1>2, <1>4, <1>6, <2>1 DEF Fits
  <1>10. Fits(r, s, o, n1)
    BY <1>1, <1>2, <1>4, <1>7 DEF Fits
  <1>q. QED BY <1>3, <1>8, <1>9, <1>10

\* What is written reaches beyond the second segment.
LEMMA BeyondFits ==
  ASSUME NEW r, Line(r), NEW s, Follows(r, s),
         NEW x \in Segs \ Repeated, NEW y \in Segs \ Repeated, NEW p \in Segs,
         r[x] < r[y], r[y] < r[p],
         \A z \in Range(s) : ~(r[y] < r[z] /\ r[z] <= r[p])
  PROVE  /\ Fits(r, s, <<x, y>>, <<x, y, p>>)
         /\ \A q \in Segs : r[x] < r[q] /\ r[q] < r[y] => Fits(r, s, <<x, y>>, <<x, q, y, p>>)
  <1>1. \A z \in Range(s) : z \in Segs
    BY DEF Follows, Range
  <1>2. r[x] \in Int /\ r[y] \in Int /\ r[p] \in Int /\ \A z \in Segs : r[z] \in Int
    BY DEF Line
  <1>3. PICK o, n : o = <<x, y>> /\ n = <<x, y, p>>
    OBVIOUS
  <1>4. o \in Seq(Segs \ Repeated) /\ Len(o) = 2 /\ o[1] = x /\ o[2] = y
    BY <1>3, Two
  <1>5. n \in Seq(Segs) /\ Len(n) = 3 /\ DOMAIN n = 1..3 /\ n[1] = x /\ n[2] = y /\ n[3] = p
    BY <1>3, Three
  <1>6. Fits(r, s, o, n)
    <2>1. \A i, j \in DOMAIN n : i < j => r[n[i]] < r[n[j]]
      BY <1>2, <1>5
    <2>q. QED BY <1>1, <1>2, <1>4, <1>5, <2>1 DEF Fits
  <1>7. ASSUME NEW q \in Segs, r[x] < r[q], r[q] < r[y]
        PROVE  Fits(r, s, <<x, y>>, <<x, q, y, p>>)
    <2>1. PICK m : m = <<x, q, y, p>>
      OBVIOUS
    <2>2. /\ m \in Seq(Segs) /\ Len(m) = 4 /\ DOMAIN m = 1..4
          /\ m[1] = x /\ m[2] = q /\ m[3] = y /\ m[4] = p
      BY <2>1, Four
    <2>3. r[q] \in Int
      BY <1>2
    <2>4. \A i, j \in DOMAIN m : i < j => r[m[i]] < r[m[j]]
      BY <1>2, <1>7, <2>2, <2>3
    <2>5. Fits(r, s, o, m)
      BY <1>1, <1>2, <1>4, <2>2, <2>4 DEF Fits
    <2>q. QED BY <1>3, <2>1, <2>5
  <1>q. QED BY <1>3, <1>6, <1>7

----------------------------------------------------------------------------
(* The blocks *)

\* Wherever the block finds its anchor and not its mark, there is room for it.
Fitting(r, b) ==
  \A s : /\ Follows(r, s) /\ Coupled(Range(s))
         /\ Occurs(b.mark, s) = {} /\ Occurs(b.old, s) # {}
         => Fits(r, s, b.old, b.new)

LEMMA BeforeFitting ==
  ASSUME NEW r, Line(r), NEW f, NEW x \in Segs \ Repeated, NEW p \in Segs \ Repeated,
         r[x] = r[p] + 1
  PROVE  /\ Fitting(r, Block(f, <<x>>, <<p, x>>, <<p, x>>))
         /\ Fitting(r, Block(f, <<x>>, <<p, x>>, <<p>>))
  <1>1. ASSUME NEW s, Follows(r, s), Occurs(<<x>>, s) # {},
               Occurs(<<p, x>>, s) = {} \/ Occurs(<<p>>, s) = {}
        PROVE  Fits(r, s, <<x>>, <<p, x>>)
    <2>1. s \in Seq(Segs)
      BY <1>1 DEF Follows
    <2>2. x \in Range(s)
      BY <1>1, <2>1, OneOccurs
    <2>3. p \notin Range(s)
      <3>1. CASE Occurs(<<p, x>>, s) = {}
        BY <1>1, <2>2, <3>1, PairOccurs
      <3>2. CASE Occurs(<<p>>, s) = {}
        BY <2>1, <3>2, OneOccurs
      <3>q. QED BY <1>1, <3>1, <3>2
    <2>q. QED BY <1>1, <2>3, BeforeFits
  <1>q. QED BY <1>1 DEF Fitting, Block

LEMMA AfterFitting ==
  ASSUME NEW r, Line(r), NEW f, NEW x \in Segs \ Repeated, NEW p \in Segs \ Repeated,
         r[p] = r[x] + 1
  PROVE  Fitting(r, Block(f, <<x>>, <<x, p>>, <<p>>))
  <1>1. ASSUME NEW s, Follows(r, s), Occurs(<<p>>, s) = {}
        PROVE  Fits(r, s, <<x>>, <<x, p>>)
    <2>1. s \in Seq(Segs)
      BY <1>1 DEF Follows
    <2>2. p \notin Range(s)
      BY <1>1, <2>1, OneOccurs
    <2>q. QED BY <1>1, <2>2, AfterFits
  <1>q. QED BY <1>1 DEF Fitting, Block

LEMMA AroundFitting ==
  ASSUME NEW r, Line(r), NEW f, NEW x \in Segs \ Repeated,
         NEW a \in Segs \ Repeated, NEW b \in Segs \ Repeated,
         r[x] = r[a] + 1, r[b] = r[x] + 1, <<a, b>> \in Pairs
  PROVE  Fitting(r, Block(f, <<x>>, <<a, x, b>>, <<a, x, b>>))
  <1>1. ASSUME NEW s, Follows(r, s), Coupled(Range(s)), Occurs(<<x>>, s) # {},
               Occurs(<<a, x, b>>, s) = {}
        PROVE  Fits(r, s, <<x>>, <<a, x, b>>)
    <2>1. s \in Seq(Segs)
      BY <1>1 DEF Follows
    <2>2. x \in Range(s)
      BY <1>1, <2>1, OneOccurs
    <2>3. a \in Range(s) <=> b \in Range(s)
      <3>1. PICK p \in Pairs : p = <<a, b>>
        OBVIOUS
      <3>2. p[1] = a /\ p[2] = b
        BY <3>1
      <3>q. QED BY <1>1, <3>2 DEF Coupled
    <2>4. a \notin Range(s) /\ b \notin Range(s)
      BY <1>1, <2>2, <2>3, TripleOccurs
    <2>q. QED BY <1>1, <2>4, AroundFits
  <1>q. QED BY <1>1 DEF Fitting, Block

\* Of a block whose anchor is two segments only these places matter.
LEMMA BetweenFitting ==
  ASSUME NEW r, Line(r), NEW f, NEW mark,
         NEW x \in Segs \ Repeated, NEW y \in Segs \ Repeated, NEW p \in Segs,
         r[x] < r[p], r[p] < r[y]
  PROVE  /\ Fitting(r, Block(f, <<x, y>>, <<x, p, y>>, mark))
         /\ Fitting(r, Block(f, <<x, y>>, <<x, p>>, mark))
         /\ Fitting(r, Block(f, <<x, y>>, <<p>>, mark))
  BY BetweenFits DEF Fitting, Block

\* What no block takes away: nothing of it is ever an anchor.
Lasting ==
  {"P8a", "P8b", "P9a", "P9b", "P10a", "P10b", "P13a", "P13b", "P6a", "P6b", "P7a", "P7b",
   "helper", "wmMark", "deferred", "sendBelow", "recvSlack", "sendSlack"}

Relayed == {"deferred", "sendBelow", "recvSlack", "sendSlack"}

\* What block k of t takes away and writes.
Tame(t, k, b) ==
  LET O == Range(b.old)
      N == Range(b.new)
  IN  /\ b.file \in Files
      /\ O \cap Lasting = {}
      /\ \A p \in Pairs : p[1] \in N <=> p[2] \in N
      /\ "recvGuard" \notin N
      /\ "S3" \in N => "recvGuard" \in O
      /\ N \cap HeadSteps # {} => t = "warmup"
      /\ N \cap FileSteps # {} => t = "warmup" /\ k > 2
      /\ N \cap Relayed # {} => t = "relay"

LEMMA Ranges ==
  /\ \A a : Range(<<a>>) = {a}
  /\ \A a, b : Range(<<a, b>>) = {a, b}
  /\ \A a, b, c : Range(<<a, b, c>>) = {a, b, c}
  /\ \A a, b, c, d : Range(<<a, b, c, d>>) = {a, b, c, d}
  <1>1. ASSUME NEW a PROVE Range(<<a>>) = {a}
    BY One, a \in {a}
  <1>2. ASSUME NEW a, NEW b PROVE Range(<<a, b>>) = {a, b}
    BY Two, a \in {a, b}, b \in {a, b}
  <1>3. ASSUME NEW a, NEW b, NEW c PROVE Range(<<a, b, c>>) = {a, b, c}
    <2>1. PICK S : a \in S /\ b \in S /\ c \in S
      <3>1. a \in {a, b, c} /\ b \in {a, b, c} /\ c \in {a, b, c}
        OBVIOUS
      <3>q. QED BY <3>1
    <2>q. QED BY <2>1, Three
  <1>4. ASSUME NEW a, NEW b, NEW c, NEW d PROVE Range(<<a, b, c, d>>) = {a, b, c, d}
    <2>1. PICK S : a \in S /\ b \in S /\ c \in S /\ d \in S
      <3>1. a \in {a, b, c, d} /\ b \in {a, b, c, d} /\ c \in {a, b, c, d} /\ d \in {a, b, c, d}
        OBVIOUS
      <3>q. QED BY <3>1
    <2>q. QED BY <2>1, Four
  <1>q. QED BY <1>1, <1>2, <1>3, <1>4

\* The probes of one block.
LEMMA ProbesFit ==
  ASSUME NEW r, Line(r)
  PROVE  /\ Fitting(r, AnchorBlocks[1])
         /\ Fitting(r, MtpBlocks[1])
         /\ Fitting(r, CommitBlocks[1])
         /\ Fitting(r, VerifyBlocks[1])
         /\ Fitting(r, NeedBlocks[1])
         /\ Fitting(r, SkipBlocks[1])
  <1>1. {"anchorProbe", "combine", "mtpProbe", "propose", "commitProbe", "advance",
         "verifyProbe", "verdict", "maskSet", "needProbe", "maskReturn",
         "encoderReturn", "skip"} \subseteq Segs \ Repeated
    BY DEF Segs, Place, Repeated
  <1>2. \A x \in Segs : r[x] \in Int
    BY DEF Line
  <1>3. Fitting(r, Tagged("runner", <<"combine">>, <<"anchorProbe", "combine">>, "anchorProbe"))
    BY <1>1, BeforeFitting, Neighbours DEF Tagged
  <1>4. Fitting(r, Tagged("runner", <<"propose">>, <<"mtpProbe", "propose">>, "mtpProbe"))
    BY <1>1, BeforeFitting, StateLine DEF Tagged
  <1>5. Fitting(r, Tagged("runner", <<"advance">>, <<"commitProbe", "advance">>, "commitProbe"))
    BY <1>1, BeforeFitting, Neighbours DEF Tagged
  <1>6. Fitting(r, Tagged("runner", <<"verdict">>, <<"verifyProbe", "verdict">>, "verifyProbe"))
    BY <1>1, BeforeFitting, SelectLine DEF Tagged
  <1>7. Fitting(r, Tagged("pp_utils", <<"maskSet", "maskReturn">>,
                          <<"maskSet", "needProbe", "maskReturn">>, "needProbe"))
    <2>1. r["maskSet"] < r["needProbe"] /\ r["needProbe"] < r["maskReturn"]
      BY <1>1, <1>2, PPUtilsLine
    <2>q. QED BY <1>1, <2>1, BetweenFitting DEF Tagged
  <1>8. Fitting(r, Tagged("warmup", <<"encoderReturn">>, <<"encoderReturn", "skip">>, "skip"))
    BY <1>1, AfterFitting, WarmupLine DEF Tagged
  <1>q. QED BY <1>3, <1>4, <1>5, <1>6, <1>7, <1>8
            DEF AnchorBlocks, MtpBlocks, CommitBlocks, VerifyBlocks, NeedBlocks, SkipBlocks

\* hidden_rows_probe.py finds its anchor only where P13 is not.
LEMMA HiddenFits ==
  ASSUME NEW r, Line(r)
  PROVE  /\ Fitting(r, HiddenBlocks[1])
         /\ Fitting(r, Patch("runner", <<"select", "logits">>, <<"select", "P13a", "logits", "P13b">>))
  <1>1. {"select", "P13a", "logits", "P13b", "hiddenProbe"} \subseteq Segs \ Repeated
    BY DEF Segs, Place, Repeated
  <1>2. \A x, y \in Segs : r[x] \in Int /\ (r[x] = r[y] => x = y)
    BY DEF Line
  <1>3. /\ r["select"] < r["P13a"] /\ r["P13a"] < r["logits"] /\ r["select"] < r["logits"]
        /\ r["P13b"] = r["logits"] + 1 /\ r["hiddenProbe"] = r["P13b"] + 1
    BY <1>1, <1>2, SelectLine
  <1>4. ASSUME NEW s, Follows(r, s), Coupled(Range(s)), Occurs(<<"select", "logits">>, s) # {}
        PROVE  "P13b" \notin Range(s)
    <2>1. "P13a" \notin Range(s)
      BY <1>1, <1>3, <1>4, NothingBetween
    <2>2. <<"P13a", "P13b">> \in Pairs
      BY DEF Pairs
    <2>3. PICK p \in Pairs : p = <<"P13a", "P13b">>
      BY <2>2
    <2>4. p[1] = "P13a" /\ p[2] = "P13b"
      BY <2>3
    <2>q. QED BY <1>4, <2>1, <2>4 DEF Coupled
  <1>5. ASSUME NEW s, Follows(r, s), Coupled(Range(s)), Occurs(<<"select", "logits">>, s) # {},
               Occurs(<<"hiddenProbe">>, s) = {}
        PROVE  Fits(r, s, <<"select", "logits">>, <<"select", "logits", "hiddenProbe">>)
    <2>1. s \in Seq(Segs) /\ \A z \in Range(s) : z \in Segs
      BY <1>5 DEF Follows, Range
    <2>2. "hiddenProbe" \notin Range(s) /\ "P13b" \notin Range(s)
      BY <1>1, <1>4, <1>5, <2>1, OneOccurs
    <2>3. ASSUME NEW z \in Range(s), r["logits"] < r[z], r[z] <= r["hiddenProbe"] PROVE FALSE
      <3>1. r[z] = r["P13b"] \/ r[z] = r["hiddenProbe"]
        BY <1>1, <1>2, <1>3, <2>1, <2>3
      <3>q. QED BY <1>1, <1>2, <2>1, <2>2, <3>1
    <2>4. r["logits"] < r["hiddenProbe"]
      BY <1>1, <1>2, <1>3
    <2>q. QED BY <1>1, <1>3, <1>5, <2>3, <2>4, BeyondFits
  <1>6. ASSUME NEW s, Follows(r, s), Coupled(Range(s)), Occurs(<<"select", "logits">>, s) # {}
        PROVE  Fits(r, s, <<"select", "logits">>, <<"select", "P13a", "logits", "P13b">>)
    <2>1. \A z \in Range(s) : z \in Segs
      BY <1>6 DEF Follows, Range
    <2>2. ASSUME NEW z \in Range(s), r["logits"] < r[z], r[z] <= r["P13b"] PROVE FALSE
      <3>1. r[z] = r["P13b"]
        BY <1>1, <1>2, <1>3, <2>1, <2>2
      <3>q. QED BY <1>1, <1>2, <1>4, <1>6, <2>1, <3>1
    <2>3. r["logits"] < r["P13b"]
      BY <1>1, <1>2, <1>3
    <2>q. QED BY <1>1, <1>3, <1>6, <2>2, <2>3, BeyondFits
  <1>7. Fitting(r, HiddenBlocks[1])
    <2>1. HiddenBlocks[1] = Block("runner", <<"select", "logits">>,
                                  <<"select", "logits", "hiddenProbe">>, <<"hiddenProbe">>)
      BY DEF HiddenBlocks, Tagged
    <2>q. QED BY <1>5, <2>1 DEF Fitting, Block
  <1>q. QED BY <1>6, <1>7 DEF Fitting, Block, Patch

\* sample_tokens_probe.py never finds its mark, but two of its blocks take their
\* anchors away and the third may write again what it has written.
LEMMA StatesFit ==
  ASSUME NEW r, Line(r)
  PROVE  Fitting(r, StateBlocks[1]) /\ Fitting(r, StateBlocks[2]) /\ Fitting(r, StateBlocks[3])
  <1>1. {"stateTest", "lastAssert", "S2", "sendGuard", "recvGuard", "S3"} \subseteq Segs \ Repeated
        /\ "S1" \in Segs /\ "S1" \in Repeated
    BY DEF Segs, Place, Repeated
  <1>2. \A x, y \in Segs : r[x] \in Int /\ (r[x] = r[y] => x = y)
    BY DEF Line
  <1>3. Fitting(r, Block("runner", <<"stateTest">>, <<"S1", "stateTest">>, <<"never">>))
    <2>1. \A s : Follows(r, s) => Fits(r, s, <<"stateTest">>, <<"S1", "stateTest">>)
      BY <1>1, BeforeFits, StateLine
    <2>q. QED BY <2>1 DEF Fitting, Block
  <1>4. Fitting(r, Block("pp_utils", <<"lastAssert", "sendGuard">>, <<"lastAssert", "S2">>, <<"never">>))
    <2>1. r["lastAssert"] < r["S2"] /\ r["S2"] < r["sendGuard"]
      BY <1>1, <1>2, PPUtilsLine
    <2>q. QED BY <1>1, <2>1, BetweenFitting
  <1>5. ASSUME NEW s, Follows(r, s), Coupled(Range(s)), Occurs(<<"recvGuard">>, s) # {}
        PROVE  Fits(r, s, <<"recvGuard">>, <<"S3">>)
    <2>1. s \in Seq(Segs) /\ \A z \in Range(s) : z \in Segs
      BY <1>5 DEF Follows, Range
    <2>2. "S3" \notin Range(s)
      BY <1>1, <1>5, <2>1, OneOccurs DEF Coupled
    <2>3. r["S3"] = r["recvGuard"] + 1
      BY PPUtilsLine
    <2>4. ASSUME NEW z \in Range(s), r["recvGuard"] < r[z], r[z] <= r["S3"] PROVE FALSE
      <3>1. r[z] = r["S3"]
        BY <1>1, <1>2, <2>1, <2>3, <2>4
      <3>q. QED BY <1>1, <1>2, <2>1, <2>2, <3>1
    <2>5. r["recvGuard"] < r["S3"]
      BY <1>1, <1>2, <2>3
    <2>q. QED BY <1>1, <1>5, <2>4, <2>5, InsteadFits
  <1>6. Fitting(r, Block("pp_utils", <<"recvGuard">>, <<"S3">>, <<"never">>))
    BY <1>5 DEF Fitting, Block
  <1>q. QED BY <1>3, <1>4, <1>6 DEF StateBlocks, Unmarked

LEMMA RelayFits ==
  ASSUME NEW r, Line(r)
  PROVE  /\ Fitting(r, RelayBlocks[1]) /\ Fitting(r, RelayBlocks[2])
         /\ Fitting(r, RelayBlocks[3]) /\ Fitting(r, RelayBlocks[4])
  <1>1. {"ifHandler", "deferred", "broadcast", "sendBelow", "setDraft", "recvGuard", "S3",
         "recvSlack", "sendGuard", "sendSlack"} \subseteq Segs \ Repeated
    BY DEF Segs, Place, Repeated
  <1>2. \A x, y \in Segs : r[x] \in Int /\ (r[x] = r[y] => x = y)
    BY DEF Line
  <1>3. Fitting(r, Patch("runner", <<"ifHandler", "broadcast">>, <<"deferred">>))
    <2>1. {"P10a"} \subseteq Segs
      BY DEF Segs, Place
    <2>2. r["ifHandler"] < r["deferred"] /\ r["deferred"] < r["broadcast"]
      BY <1>1, <1>2, <2>1, StateLine
    <2>q. QED BY <1>1, <2>2, BetweenFitting DEF Patch
  <1>4. Fitting(r, Patch("runner", <<"setDraft">>, <<"sendBelow", "setDraft">>))
    BY <1>1, BeforeFitting, StateLine DEF Patch
  <1>5. ASSUME NEW s, Follows(r, s), Coupled(Range(s)), Occurs(<<"recvGuard">>, s) # {},
               Occurs(<<"recvSlack">>, s) = {}
        PROVE  Fits(r, s, <<"recvGuard">>, <<"recvSlack">>)
    <2>1. s \in Seq(Segs) /\ \A z \in Range(s) : z \in Segs
      BY <1>5 DEF Follows, Range
    <2>2. "S3" \notin Range(s) /\ "recvSlack" \notin Range(s)
      BY <1>1, <1>5, <2>1, OneOccurs DEF Coupled
    <2>3. r["S3"] = r["recvGuard"] + 1 /\ r["recvSlack"] = r["S3"] + 1
      BY PPUtilsLine
    <2>4. ASSUME NEW z \in Range(s), r["recvGuard"] < r[z], r[z] <= r["recvSlack"] PROVE FALSE
      <3>1. r[z] = r["S3"] \/ r[z] = r["recvSlack"]
        BY <1>1, <1>2, <2>1, <2>3, <2>4
      <3>q. QED BY <1>1, <1>2, <2>1, <2>2, <3>1
    <2>5. r["recvGuard"] < r["recvSlack"]
      BY <1>1, <1>2, <2>3
    <2>q. QED BY <1>1, <1>5, <2>4, <2>5, InsteadFits
  <1>6. ASSUME NEW s, Follows(r, s), Occurs(<<"sendSlack">>, s) = {}
        PROVE  Fits(r, s, <<"sendGuard">>, <<"sendSlack">>)
    <2>1. s \in Seq(Segs) /\ \A z \in Range(s) : z \in Segs
      BY <1>6 DEF Follows, Range
    <2>2. "sendSlack" \notin Range(s)
      BY <1>1, <1>6, <2>1, OneOccurs
    <2>3. r["sendSlack"] = r["sendGuard"] + 1
      BY PPUtilsLine
    <2>4. ASSUME NEW z \in Range(s), r["sendGuard"] < r[z], r[z] <= r["sendSlack"] PROVE FALSE
      <3>1. r[z] = r["sendSlack"]
        BY <1>1, <1>2, <2>1, <2>3, <2>4
      <3>q. QED BY <1>1, <1>2, <2>1, <2>2, <3>1
    <2>5. r["sendGuard"] < r["sendSlack"]
      BY <1>1, <1>2, <2>3
    <2>q. QED BY <1>1, <1>6, <2>4, <2>5, InsteadFits
  <1>7. /\ Fitting(r, Patch("pp_utils", <<"recvGuard">>, <<"recvSlack">>))
        /\ Fitting(r, Patch("pp_utils", <<"sendGuard">>, <<"sendSlack">>))
    BY <1>5, <1>6 DEF Fitting, Block, Patch
  <1>q. QED BY <1>3, <1>4, <1>7 DEF RelayBlocks

\* warmup_pp_probe.py, file by file.
LEMMA WarmupFileFits ==
  ASSUME NEW r, Line(r)
  PROVE  /\ Fitting(r, WarmupFileBlocks[1]) /\ Fitting(r, WarmupFileBlocks[2])
         /\ Fitting(r, WarmupFileBlocks[3]) /\ Fitting(r, WarmupFileBlocks[4])
         /\ Fitting(r, WarmupFileBlocks[5]) /\ Fitting(r, WarmupFileBlocks[6])
  <1>1. {"steps", "P1", "wmMark", "entry", "encoderReturn", "skip", "P4", "specSteps", "P5", "phase",
         "P6a", "prefillRun", "P6b", "P7a", "prefillSample", "P7b"} \subseteq Segs \ Repeated
    BY DEF Segs, Place, Repeated
  <1>2. \A x, y \in Segs : r[x] \in Int /\ (r[x] = r[y] => x = y)
    BY DEF Line
  <1>3. ASSUME NEW s, Follows(r, s), Occurs(<<"P1">>, s) = {}
        PROVE  Fits(r, s, <<"steps">>, <<"P1">>)
    <2>1. s \in Seq(Segs) /\ \A z \in Range(s) : z \in Segs
      BY <1>3 DEF Follows, Range
    <2>2. "P1" \notin Range(s)
      BY <1>1, <1>3, <2>1, OneOccurs
    <2>3. r["P1"] = r["steps"] + 1
      BY WarmupLine
    <2>4. ASSUME NEW z \in Range(s), r["steps"] < r[z], r[z] <= r["P1"] PROVE FALSE
      <3>1. r[z] = r["P1"]
        BY <1>1, <1>2, <2>1, <2>3, <2>4
      <3>q. QED BY <1>1, <1>2, <2>1, <2>2, <3>1
    <2>5. r["steps"] < r["P1"]
      BY <1>1, <1>2, <2>3
    <2>q. QED BY <1>1, <1>3, <2>4, <2>5, InsteadFits
  <1>4. Fitting(r, Patch("warmup", <<"steps">>, <<"P1">>))
    BY <1>3 DEF Fitting, Block, Patch
  <1>5. Fitting(r, Patch("warmup", <<"entry">>, <<"wmMark", "entry">>))
    BY <1>1, BeforeFitting, WarmupLine DEF Patch
  <1>6. Fitting(r, Patch("warmup", <<"encoderReturn", "specSteps">>, <<"encoderReturn", "P4", "specSteps">>))
    <2>1. r["encoderReturn"] < r["P4"] /\ r["P4"] < r["specSteps"]
      BY <1>1, <1>2, WarmupLine
    <2>q. QED BY <1>1, <2>1, BetweenFitting DEF Patch
  <1>7. Fitting(r, Patch("warmup", <<"phase">>, <<"P5", "phase">>))
    BY <1>1, BeforeFitting, WarmupLine DEF Patch
  <1>8. <<"P6a", "P6b">> \in Pairs /\ <<"P7a", "P7b">> \in Pairs
    BY DEF Pairs
  <1>9. /\ Fitting(r, Patch("warmup", <<"prefillRun">>, <<"P6a", "prefillRun", "P6b">>))
        /\ Fitting(r, Patch("warmup", <<"prefillSample">>, <<"P7a", "prefillSample", "P7b">>))
    BY <1>1, <1>8, AroundFitting, WarmupLine DEF Patch
  <1>q. QED BY <1>4, <1>5, <1>6, <1>7, <1>9 DEF WarmupFileBlocks

LEMMA MarksFit ==
  ASSUME NEW r, Line(r)
  PROVE  /\ Fitting(r, MarkBlocks[1]) /\ Fitting(r, MarkBlocks[2]) /\ Fitting(r, MarkBlocks[3])
         /\ Fitting(r, MarkBlocks[4]) /\ Fitting(r, MarkBlocks[5]) /\ Fitting(r, MarkBlocks[6])
         /\ Fitting(r, MarkBlocks[7]) /\ Fitting(r, MarkBlocks[8])
  <1>1. {"P8a", "receive", "P8b", "P9a", "sample", "P9b", "P10a", "broadcast", "P10b", "helper",
         "class", "P12", "speculate", "P14", "bitmask", "P15", "choice"} \subseteq Segs \ Repeated
    BY DEF Segs, Place, Repeated
  <1>2. <<"P8a", "P8b">> \in Pairs /\ <<"P9a", "P9b">> \in Pairs /\ <<"P10a", "P10b">> \in Pairs
    BY DEF Pairs
  <1>3. /\ Fitting(r, Around("receive", "P8a", "P8b"))
        /\ Fitting(r, Around("sample", "P9a", "P9b"))
        /\ Fitting(r, Around("broadcast", "P10a", "P10b"))
    BY <1>1, <1>2, AroundFitting, StateLine DEF Around, Patch
  <1>4. Fitting(r, Tagged("runner", <<"class">>, <<"helper", "class">>, "helper"))
    BY <1>1, BeforeFitting, Neighbours DEF Tagged
  <1>5. Fitting(r, Before("speculate", "P12"))
    BY <1>1, BeforeFitting, Neighbours DEF Before, Patch
  <1>6. Fitting(r, Before("bitmask", "P14")) /\ Fitting(r, Before("choice", "P15"))
    BY <1>1, BeforeFitting, SelectLine DEF Before, Patch
  <1>q. QED BY <1>3, <1>4, <1>5, <1>6, HiddenFits DEF MarkBlocks

\* ppProbe is written after the import whether it is there or not.
LEMMA PayloadFits ==
  ASSUME NEW r, Line(r)
  PROVE  Fitting(r, PayloadBlocks[1])
  <1>1. "import" \in Segs \ Repeated /\ "ppProbe" \in Segs /\ "ppProbe" \in Repeated
    BY DEF Segs, Place, Repeated
  <1>2. \A s : Follows(r, s) => Fits(r, s, <<"import">>, <<"import", "ppProbe">>)
    BY <1>1, AfterFits, PPUtilsLine
  <1>q. QED BY <1>2 DEF Fitting, PayloadBlocks, Unmarked, Block

\* The blocks of warmup_pp_probe.py are those of the three files in a row.
LEMMA WarmupBlocksAre ==
  /\ Len(WarmupBlocks) = 15
  /\ \A k \in 1..15 : WarmupBlocks[k] = IF k <= 6 THEN WarmupFileBlocks[k]
                                        ELSE IF k <= 14 THEN MarkBlocks[k - 6]
                                        ELSE PayloadBlocks[1]
  <1>1. PICK T : WarmupFileBlocks \in Seq(T) /\ MarkBlocks \in Seq(T) /\ PayloadBlocks \in Seq(T)
    <2> DEFINE A == {WarmupFileBlocks[i] : i \in 1..6}
               B == {MarkBlocks[i] : i \in 1..8}
               C == {PayloadBlocks[i] : i \in 1..1}
    <2>1. WarmupFileBlocks \in Seq(A)
      BY DEF WarmupFileBlocks
    <2>2. MarkBlocks \in Seq(B)
      BY DEF MarkBlocks
    <2>3. PayloadBlocks \in Seq(C)
      BY DEF PayloadBlocks
    <2> HIDE DEF A, B, C
    <2>4. /\ WarmupFileBlocks \in Seq(A \cup B \cup C)
          /\ MarkBlocks \in Seq(A \cup B \cup C)
          /\ PayloadBlocks \in Seq(A \cup B \cup C)
      BY <2>1, <2>2, <2>3
    <2>q. QED BY <2>4
  <1>2. Len(WarmupFileBlocks) = 6 /\ Len(MarkBlocks) = 8 /\ Len(PayloadBlocks) = 1
    BY DEF WarmupFileBlocks, MarkBlocks, PayloadBlocks
  <1>3. PICK a, b, c : a = WarmupFileBlocks /\ b = MarkBlocks /\ c = PayloadBlocks
    OBVIOUS
  <1>4. a \in Seq(T) /\ b \in Seq(T) /\ c \in Seq(T) /\ Len(a) = 6 /\ Len(b) = 8 /\ Len(c) = 1
    BY <1>1, <1>2, <1>3
  <1>5. PICK d : d = a \o b
    OBVIOUS
  <1>6. d \in Seq(T) /\ Len(d) = 14 /\ \A k \in 1..14 : d[k] = IF k <= 6 THEN a[k] ELSE b[k - 6]
    <2>1. /\ d \in Seq(T)
          /\ Len(d) = Len(a) + Len(b)
          /\ \A k \in 1..(Len(a) + Len(b)) : d[k] = IF k <= Len(a) THEN a[k] ELSE b[k - Len(a)]
      BY <1>4, <1>5, ConcatProperties
    <2>q. QED BY <1>4, <2>1
  <1>7. /\ Len(d \o c) = 15
        /\ \A k \in 1..15 : (d \o c)[k] = IF k <= 14 THEN d[k] ELSE c[k - 14]
    <2>1. /\ Len(d \o c) = Len(d) + Len(c)
          /\ \A k \in 1..(Len(d) + Len(c)) : (d \o c)[k] = IF k <= Len(d) THEN d[k] ELSE c[k - Len(d)]
      BY <1>4, <1>6, ConcatProperties
    <2>q. QED BY <1>4, <1>6, <2>1, SMTT(30)
  <1>8. WarmupBlocks = d \o c
    BY <1>3, <1>5 DEF WarmupBlocks
  <1>9. PICK w : w = d \o c
    OBVIOUS
  <1>10. \A k \in 1..15 : w[k] = IF k <= 6 THEN a[k] ELSE IF k <= 14 THEN b[k - 6] ELSE c[1]
    <2> TAKE k \in 1..15
    <2>1. w[k] = IF k <= 14 THEN d[k] ELSE c[k - 14]
      BY <1>7, <1>9
    <2>2. CASE k <= 14
      BY <1>6, <2>1, <2>2
    <2>3. CASE k = 15
      BY <2>1, <2>3
    <2>q. QED BY <2>2, <2>3
  <1>q. QED BY <1>3, <1>7, <1>8, <1>9, <1>10

\* The same of the sets that are taken away and written.
Clean(t, k, O, N) ==
  /\ O \cap Lasting = {}
  /\ \A p \in Pairs : p[1] \in N <=> p[2] \in N
  /\ "recvGuard" \notin N
  /\ "S3" \in N => "recvGuard" \in O
  /\ N \cap HeadSteps # {} => t = "warmup"
  /\ N \cap FileSteps # {} => t = "warmup" /\ k > 2
  /\ N \cap Relayed # {} => t = "relay"

LEMMA TameIs ==
  ASSUME NEW t, NEW k, NEW f \in Files, NEW old, NEW new, NEW mark,
         Clean(t, k, Range(old), Range(new))
  PROVE  Tame(t, k, Block(f, old, new, mark))
  BY DEF Tame, Clean, Block

LEMMA ProbesTame ==
  /\ Tame("hidden", 1, HiddenBlocks[1])
  /\ Tame("anchor", 1, AnchorBlocks[1])
  /\ Tame("mtp", 1, MtpBlocks[1])
  /\ Tame("commit", 1, CommitBlocks[1])
  /\ Tame("verify", 1, VerifyBlocks[1])
  /\ Tame("need", 1, NeedBlocks[1])
  /\ Tame("skip", 1, SkipBlocks[1])
  <1>0. "runner" \in Files /\ "pp_utils" \in Files /\ "warmup" \in Files
    BY DEF Files
  <1>1. Tame("hidden", 1, HiddenBlocks[1])
    <2>1. Clean("hidden", 1, Range(<<"select", "logits">>), Range(<<"select", "logits", "hiddenProbe">>))
      BY Ranges DEF Clean, Lasting, Pairs, HeadSteps, FileSteps, Relayed
    <2>q. QED BY <1>0, <2>1, TameIs DEF HiddenBlocks, Tagged
  <1>2. Tame("anchor", 1, AnchorBlocks[1])
    <2>1. Clean("anchor", 1, Range(<<"combine">>), Range(<<"anchorProbe", "combine">>))
      BY Ranges DEF Clean, Lasting, Pairs, HeadSteps, FileSteps, Relayed
    <2>q. QED BY <1>0, <2>1, TameIs DEF AnchorBlocks, Tagged
  <1>3. Tame("mtp", 1, MtpBlocks[1])
    <2>1. Clean("mtp", 1, Range(<<"propose">>), Range(<<"mtpProbe", "propose">>))
      BY Ranges DEF Clean, Lasting, Pairs, HeadSteps, FileSteps, Relayed
    <2>q. QED BY <1>0, <2>1, TameIs DEF MtpBlocks, Tagged
  <1>4. Tame("commit", 1, CommitBlocks[1])
    <2>1. Clean("commit", 1, Range(<<"advance">>), Range(<<"commitProbe", "advance">>))
      BY Ranges DEF Clean, Lasting, Pairs, HeadSteps, FileSteps, Relayed
    <2>q. QED BY <1>0, <2>1, TameIs DEF CommitBlocks, Tagged
  <1>5. Tame("verify", 1, VerifyBlocks[1])
    <2>1. Clean("verify", 1, Range(<<"verdict">>), Range(<<"verifyProbe", "verdict">>))
      BY Ranges DEF Clean, Lasting, Pairs, HeadSteps, FileSteps, Relayed
    <2>q. QED BY <1>0, <2>1, TameIs DEF VerifyBlocks, Tagged
  <1>6. Tame("need", 1, NeedBlocks[1])
    <2>1. Clean("need", 1, Range(<<"maskSet", "maskReturn">>), Range(<<"maskSet", "needProbe", "maskReturn">>))
      BY Ranges DEF Clean, Lasting, Pairs, HeadSteps, FileSteps, Relayed
    <2>q. QED BY <1>0, <2>1, TameIs DEF NeedBlocks, Tagged
  <1>7. Tame("skip", 1, SkipBlocks[1])
    <2>1. Clean("skip", 1, Range(<<"encoderReturn">>), Range(<<"encoderReturn", "skip">>))
      BY Ranges DEF Clean, Lasting, Pairs, HeadSteps, FileSteps, Relayed
    <2>q. QED BY <1>0, <2>1, TameIs DEF SkipBlocks, Tagged
  <1>q. QED BY <1>1, <1>2, <1>3, <1>4, <1>5, <1>6, <1>7

LEMMA StatesTame ==
  /\ Tame("states", 1, StateBlocks[1])
  /\ Tame("states", 2, StateBlocks[2])
  /\ Tame("states", 3, StateBlocks[3])
  <1>0. "runner" \in Files /\ "pp_utils" \in Files /\ "warmup" \in Files
    BY DEF Files
  <1>1. Tame("states", 1, StateBlocks[1])
    <2>1. Clean("states", 1, Range(<<"stateTest">>), Range(<<"S1", "stateTest">>))
      BY Ranges DEF Clean, Lasting, Pairs, HeadSteps, FileSteps, Relayed
    <2>q. QED BY <1>0, <2>1, TameIs DEF StateBlocks, Unmarked
  <1>2. Tame("states", 2, StateBlocks[2])
    <2>1. Clean("states", 2, Range(<<"lastAssert", "sendGuard">>), Range(<<"lastAssert", "S2">>))
      BY Ranges DEF Clean, Lasting, Pairs, HeadSteps, FileSteps, Relayed
    <2>q. QED BY <1>0, <2>1, TameIs DEF StateBlocks, Unmarked
  <1>3. Tame("states", 3, StateBlocks[3])
    <2>1. Clean("states", 3, Range(<<"recvGuard">>), Range(<<"S3">>))
      BY Ranges DEF Clean, Lasting, Pairs, HeadSteps, FileSteps, Relayed
    <2>q. QED BY <1>0, <2>1, TameIs DEF StateBlocks, Unmarked
  <1>q. QED BY <1>1, <1>2, <1>3

LEMMA RelayTame ==
  /\ Tame("relay", 1, RelayBlocks[1])
  /\ Tame("relay", 2, RelayBlocks[2])
  /\ Tame("relay", 3, RelayBlocks[3])
  /\ Tame("relay", 4, RelayBlocks[4])
  <1>0. "runner" \in Files /\ "pp_utils" \in Files /\ "warmup" \in Files
    BY DEF Files
  <1>1. Tame("relay", 1, RelayBlocks[1])
    <2>1. Clean("relay", 1, Range(<<"ifHandler", "broadcast">>), Range(<<"deferred">>))
      BY Ranges DEF Clean, Lasting, Pairs, HeadSteps, FileSteps, Relayed
    <2>q. QED BY <1>0, <2>1, TameIs DEF RelayBlocks, Patch
  <1>2. Tame("relay", 2, RelayBlocks[2])
    <2>1. Clean("relay", 2, Range(<<"setDraft">>), Range(<<"sendBelow", "setDraft">>))
      BY Ranges DEF Clean, Lasting, Pairs, HeadSteps, FileSteps, Relayed
    <2>q. QED BY <1>0, <2>1, TameIs DEF RelayBlocks, Patch
  <1>3. Tame("relay", 3, RelayBlocks[3])
    <2>1. Clean("relay", 3, Range(<<"recvGuard">>), Range(<<"recvSlack">>))
      BY Ranges DEF Clean, Lasting, Pairs, HeadSteps, FileSteps, Relayed
    <2>q. QED BY <1>0, <2>1, TameIs DEF RelayBlocks, Patch
  <1>4. Tame("relay", 4, RelayBlocks[4])
    <2>1. Clean("relay", 4, Range(<<"sendGuard">>), Range(<<"sendSlack">>))
      BY Ranges DEF Clean, Lasting, Pairs, HeadSteps, FileSteps, Relayed
    <2>q. QED BY <1>0, <2>1, TameIs DEF RelayBlocks, Patch
  <1>q. QED BY <1>1, <1>2, <1>3, <1>4

LEMMA WarmupTame ==
  /\ Tame("warmup", 1, WarmupFileBlocks[1])
  /\ Tame("warmup", 2, WarmupFileBlocks[2])
  /\ Tame("warmup", 3, WarmupFileBlocks[3])
  /\ Tame("warmup", 4, WarmupFileBlocks[4])
  /\ Tame("warmup", 5, WarmupFileBlocks[5])
  /\ Tame("warmup", 6, WarmupFileBlocks[6])
  /\ Tame("warmup", 7, MarkBlocks[1])
  /\ Tame("warmup", 8, MarkBlocks[2])
  /\ Tame("warmup", 9, MarkBlocks[3])
  /\ Tame("warmup", 10, MarkBlocks[4])
  /\ Tame("warmup", 11, MarkBlocks[5])
  /\ Tame("warmup", 12, MarkBlocks[6])
  /\ Tame("warmup", 13, MarkBlocks[7])
  /\ Tame("warmup", 14, MarkBlocks[8])
  /\ Tame("warmup", 15, PayloadBlocks[1])
  <1>0. "runner" \in Files /\ "pp_utils" \in Files /\ "warmup" \in Files
    BY DEF Files
  <1>1. Tame("warmup", 1, WarmupFileBlocks[1])
    <2>1. Clean("warmup", 1, Range(<<"steps">>), Range(<<"P1">>))
      BY Ranges DEF Clean, Lasting, Pairs, HeadSteps, FileSteps, Relayed
    <2>q. QED BY <1>0, <2>1, TameIs DEF WarmupFileBlocks, Patch
  <1>2. Tame("warmup", 2, WarmupFileBlocks[2])
    <2>1. Clean("warmup", 2, Range(<<"entry">>), Range(<<"wmMark", "entry">>))
      BY Ranges DEF Clean, Lasting, Pairs, HeadSteps, FileSteps, Relayed
    <2>q. QED BY <1>0, <2>1, TameIs DEF WarmupFileBlocks, Patch
  <1>3. Tame("warmup", 3, WarmupFileBlocks[3])
    <2>1. Clean("warmup", 3, Range(<<"encoderReturn", "specSteps">>), Range(<<"encoderReturn", "P4", "specSteps">>))
      BY Ranges DEF Clean, Lasting, Pairs, HeadSteps, FileSteps, Relayed
    <2>q. QED BY <1>0, <2>1, TameIs DEF WarmupFileBlocks, Patch
  <1>4. Tame("warmup", 4, WarmupFileBlocks[4])
    <2>1. Clean("warmup", 4, Range(<<"phase">>), Range(<<"P5", "phase">>))
      BY Ranges DEF Clean, Lasting, Pairs, HeadSteps, FileSteps, Relayed
    <2>q. QED BY <1>0, <2>1, TameIs DEF WarmupFileBlocks, Patch
  <1>5. Tame("warmup", 5, WarmupFileBlocks[5])
    <2>1. Clean("warmup", 5, Range(<<"prefillRun">>), Range(<<"P6a", "prefillRun", "P6b">>))
      BY Ranges DEF Clean, Lasting, Pairs, HeadSteps, FileSteps, Relayed
    <2>q. QED BY <1>0, <2>1, TameIs DEF WarmupFileBlocks, Patch
  <1>6. Tame("warmup", 6, WarmupFileBlocks[6])
    <2>1. Clean("warmup", 6, Range(<<"prefillSample">>), Range(<<"P7a", "prefillSample", "P7b">>))
      BY Ranges DEF Clean, Lasting, Pairs, HeadSteps, FileSteps, Relayed
    <2>q. QED BY <1>0, <2>1, TameIs DEF WarmupFileBlocks, Patch
  <1>7. Tame("warmup", 7, MarkBlocks[1])
    <2>1. Clean("warmup", 7, Range(<<"receive">>), Range(<<"P8a", "receive", "P8b">>))
      BY Ranges DEF Clean, Lasting, Pairs, HeadSteps, FileSteps, Relayed
    <2>q. QED BY <1>0, <2>1, TameIs DEF MarkBlocks, Around, Patch
  <1>8. Tame("warmup", 8, MarkBlocks[2])
    <2>1. Clean("warmup", 8, Range(<<"sample">>), Range(<<"P9a", "sample", "P9b">>))
      BY Ranges DEF Clean, Lasting, Pairs, HeadSteps, FileSteps, Relayed
    <2>q. QED BY <1>0, <2>1, TameIs DEF MarkBlocks, Around, Patch
  <1>9. Tame("warmup", 9, MarkBlocks[3])
    <2>1. Clean("warmup", 9, Range(<<"broadcast">>), Range(<<"P10a", "broadcast", "P10b">>))
      BY Ranges DEF Clean, Lasting, Pairs, HeadSteps, FileSteps, Relayed
    <2>q. QED BY <1>0, <2>1, TameIs DEF MarkBlocks, Around, Patch
  <1>10. Tame("warmup", 10, MarkBlocks[4])
    <2>1. Clean("warmup", 10, Range(<<"class">>), Range(<<"helper", "class">>))
      BY Ranges DEF Clean, Lasting, Pairs, HeadSteps, FileSteps, Relayed
    <2>q. QED BY <1>0, <2>1, TameIs DEF MarkBlocks, Tagged
  <1>11. Tame("warmup", 11, MarkBlocks[5])
    <2>1. Clean("warmup", 11, Range(<<"speculate">>), Range(<<"P12", "speculate">>))
      BY Ranges DEF Clean, Lasting, Pairs, HeadSteps, FileSteps, Relayed
    <2>q. QED BY <1>0, <2>1, TameIs DEF MarkBlocks, Before, Patch
  <1>12. Tame("warmup", 12, MarkBlocks[6])
    <2>1. Clean("warmup", 12, Range(<<"select", "logits">>), Range(<<"select", "P13a", "logits", "P13b">>))
      BY Ranges DEF Clean, Lasting, Pairs, HeadSteps, FileSteps, Relayed
    <2>q. QED BY <1>0, <2>1, TameIs DEF MarkBlocks, Patch
  <1>13. Tame("warmup", 13, MarkBlocks[7])
    <2>1. Clean("warmup", 13, Range(<<"bitmask">>), Range(<<"P14", "bitmask">>))
      BY Ranges DEF Clean, Lasting, Pairs, HeadSteps, FileSteps, Relayed
    <2>q. QED BY <1>0, <2>1, TameIs DEF MarkBlocks, Before, Patch
  <1>14. Tame("warmup", 14, MarkBlocks[8])
    <2>1. Clean("warmup", 14, Range(<<"choice">>), Range(<<"P15", "choice">>))
      BY Ranges DEF Clean, Lasting, Pairs, HeadSteps, FileSteps, Relayed
    <2>q. QED BY <1>0, <2>1, TameIs DEF MarkBlocks, Before, Patch
  <1>15. Tame("warmup", 15, PayloadBlocks[1])
    <2>1. Clean("warmup", 15, Range(<<"import">>), Range(<<"import", "ppProbe">>))
      BY Ranges DEF Clean, Lasting, Pairs, HeadSteps, FileSteps, Relayed
    <2>q. QED BY <1>0, <2>1, TameIs DEF PayloadBlocks, Unmarked
  <1>q. QED BY <1>1, <1>2, <1>3, <1>4, <1>5, <1>6, <1>7, <1>8, <1>9, <1>10, <1>11, <1>12, <1>13, <1>14, <1>15

LEMMA LengthsAre ==
  /\ Len(BlocksOf("hidden")) = 1 /\ Len(BlocksOf("anchor")) = 1 /\ Len(BlocksOf("mtp")) = 1
  /\ Len(BlocksOf("commit")) = 1 /\ Len(BlocksOf("verify")) = 1 /\ Len(BlocksOf("need")) = 1
  /\ Len(BlocksOf("skip")) = 1
  /\ Len(BlocksOf("states")) = 3
  /\ Len(BlocksOf("warmup")) = 15
  /\ Len(BlocksOf("relay")) = 4
  BY WarmupBlocksAre
     DEF BlocksOf, HiddenBlocks, AnchorBlocks, MtpBlocks, CommitBlocks, VerifyBlocks, NeedBlocks,
         SkipBlocks, StateBlocks, RelayBlocks

LEMMA EveryBlock ==
  ASSUME NEW r, Line(r), NEW t \in Tools, NEW k \in 1..Len(BlocksOf(t))
  PROVE  Fitting(r, BlocksOf(t)[k]) /\ Tame(t, k, BlocksOf(t)[k])
  <1>1. t \in {"hidden", "anchor", "mtp", "commit", "verify", "need", "states", "warmup", "skip", "relay"}
    BY ProbeTreeAssumption
  <1>2. CASE t \in {"hidden", "anchor", "mtp", "commit", "verify", "need", "skip"}
    <2>1. k = 1
      <3>1. Len(BlocksOf(t)) = 1
        BY <1>2, LengthsAre
      <3>2. k \in 1..1
        BY <3>1
      <3>q. QED BY <3>2
    <2>q. QED BY <1>2, <2>1, HiddenFits, ProbesFit, ProbesTame DEF BlocksOf
  <1>3. CASE t = "states"
    <2>1. k = 1 \/ k = 2 \/ k = 3
      <3>1. Len(BlocksOf(t)) = 3
        BY <1>3, LengthsAre
      <3>2. k \in 1..3
        BY <3>1
      <3>q. QED BY <3>2
    <2>q. QED BY <1>3, <2>1, StatesFit, StatesTame DEF BlocksOf
  <1>4. CASE t = "relay"
    <2>1. k = 1 \/ k = 2 \/ k = 3 \/ k = 4
      <3>1. Len(BlocksOf(t)) = 4
        BY <1>4, LengthsAre
      <3>2. k \in 1..4
        BY <3>1
      <3>q. QED BY <3>2
    <2>q. QED BY <1>4, <2>1, RelayFits, RelayTame DEF BlocksOf
  <1>5. CASE t = "warmup"
    <2>1. k \in 1..15 /\ BlocksOf(t) = WarmupBlocks
      BY <1>5, LengthsAre DEF BlocksOf
    <2>2. CASE k <= 6
      <3>1. WarmupBlocks[k] = WarmupFileBlocks[k]
        BY <2>1, <2>2, WarmupBlocksAre
      <3>2. k = 1 \/ k = 2 \/ k = 3 \/ k = 4 \/ k = 5 \/ k = 6
        BY <2>1, <2>2
      <3>q. QED BY <1>5, <2>1, <3>1, <3>2, WarmupFileFits, WarmupTame
    <2>3. CASE ~(k <= 6) /\ k <= 14
      <3>1. WarmupBlocks[k] = MarkBlocks[k - 6]
        BY <2>1, <2>3, WarmupBlocksAre
      <3>2. \/ k = 7 \/ k = 8 \/ k = 9 \/ k = 10
            \/ k = 11 \/ k = 12 \/ k = 13 \/ k = 14
        <4>1. k \in 7..14
          BY <2>1, <2>3
        <4>q. QED BY <4>1
      <3>q. QED BY <1>5, <2>1, <3>1, <3>2, MarksFit, WarmupTame
    <2>4. CASE k = 15
      <3>1. WarmupBlocks[k] = PayloadBlocks[1]
        BY <2>4, WarmupBlocksAre
      <3>q. QED BY <1>5, <2>1, <2>4, <3>1, PayloadFits, WarmupTame
    <2>q. QED BY <2>1, <2>2, <2>3, <2>4
  <1>q. QED BY <1>1, <1>2, <1>3, <1>4, <1>5

\* What must be in the files when block k of t is done: in R, U and W.
Left(t, k, R, U, W) ==
  /\ t = "warmup" /\ k = 10 => "helper" \in R
  /\ t = "warmup" /\ k = 2 => "wmMark" \in W
  /\ t = "relay" /\ k = 1 => "deferred" \in R
  /\ t = "relay" /\ k = 2 => "sendBelow" \in R
  /\ t = "relay" /\ k = 3 => "recvSlack" \in U
  /\ t = "relay" /\ k = 4 => "sendSlack" \in U

\* Such a block writes it, and finds its mark only if it is there.
LEMMA LeavesIt ==
  ASSUME NEW t \in Tools, NEW k \in 1..Len(BlocksOf(t)), NEW R, NEW U, NEW W,
         LET b == BlocksOf(t)[k]
             H == IF b.file = "runner" THEN R ELSE IF b.file = "pp_utils" THEN U ELSE W
         IN  \/ Range(b.new) \subseteq H
             \/ \E s : s \in Seq(Segs) /\ Range(s) = H /\ Occurs(b.mark, s) # {}
  PROVE  Left(t, k, R, U, W)
  <1>1. {"helper", "wmMark", "entry", "deferred", "sendBelow", "setDraft", "recvSlack",
         "sendSlack"} \subseteq Segs
    BY DEF Segs, Place
  <1>2. ASSUME t = "warmup", k = 10 PROVE "helper" \in R
    <2>1. BlocksOf(t)[k] = Block("runner", <<"class">>, <<"helper", "class">>, <<"helper">>)
      <3>1. BlocksOf(t)[k] = MarkBlocks[10 - 6]
        BY <1>2, WarmupBlocksAre DEF BlocksOf
      <3>2. MarkBlocks[4] = Tagged("runner", <<"class">>, <<"helper", "class">>, "helper")
        BY DEF MarkBlocks
      <3>q. QED BY <3>1, <3>2 DEF Tagged
    <2>q. QED BY <1>1, <2>1, Ranges, OneOccurs DEF Block
  <1>3. ASSUME t = "warmup", k = 2 PROVE "wmMark" \in W
    <2>1. BlocksOf(t)[k] = Block("warmup", <<"entry">>, <<"wmMark", "entry">>, <<"wmMark", "entry">>)
      BY <1>3, WarmupBlocksAre DEF BlocksOf, WarmupFileBlocks, Patch
    <2>q. QED BY <1>1, <2>1, Ranges, PairHeld DEF Block
  <1>4. ASSUME t = "relay", k = 1 PROVE "deferred" \in R
    <2>1. BlocksOf(t)[k] = Block("runner", <<"ifHandler", "broadcast">>, <<"deferred">>, <<"deferred">>)
      BY <1>4 DEF BlocksOf, RelayBlocks, Patch
    <2>q. QED BY <1>1, <2>1, Ranges, OneOccurs DEF Block
  <1>5. ASSUME t = "relay", k = 2 PROVE "sendBelow" \in R
    <2>1. BlocksOf(t)[k] = Block("runner", <<"setDraft">>, <<"sendBelow", "setDraft">>,
                                 <<"sendBelow", "setDraft">>)
      BY <1>5 DEF BlocksOf, RelayBlocks, Patch
    <2>q. QED BY <1>1, <2>1, Ranges, PairHeld DEF Block
  <1>6. ASSUME t = "relay", k = 3 PROVE "recvSlack" \in U
    <2>1. BlocksOf(t)[k] = Block("pp_utils", <<"recvGuard">>, <<"recvSlack">>, <<"recvSlack">>)
      BY <1>6 DEF BlocksOf, RelayBlocks, Patch
    <2>q. QED BY <1>1, <2>1, Ranges, OneOccurs DEF Block
  <1>7. ASSUME t = "relay", k = 4 PROVE "sendSlack" \in U
    <2>1. BlocksOf(t)[k] = Block("pp_utils", <<"sendGuard">>, <<"sendSlack">>, <<"sendSlack">>)
      BY <1>7 DEF BlocksOf, RelayBlocks, Patch
    <2>q. QED BY <1>1, <2>1, Ranges, OneOccurs DEF Block
  <1>q. QED BY <1>2, <1>3, <1>4, <1>5, <1>6, <1>7 DEF Left

----------------------------------------------------------------------------
(* The steps *)

LEMMA CoupledAfter ==
  ASSUME NEW t, NEW k, NEW H, Coupled(H), NEW O, NEW N, Clean(t, k, O, N)
  PROVE  Coupled((H \ O) \cup N)
  <1>1. \A p \in Pairs : p[1] \in Lasting /\ p[2] \in Lasting
    BY DEF Pairs, Lasting
  <1>2. \A p \in Pairs : p[1] \notin O /\ p[2] \notin O
    BY <1>1 DEF Clean
  <1>q. QED BY <1>2 DEF Coupled, Clean

\* A run takes a block of its script: it takes O away from a file f and writes N,
\* and what the block has to leave is there unless the run has missed something.
LEMMA GoOnKeeps ==
  ASSUME ProbeInv, Active, GoOn, NEW f \in Files, NEW O, NEW N, Clean(tool, block, O, N),
         DOMAIN text' = Files, Ordered',
         \A g \in Files : Holds(g)' = IF g = f THEN (Holds(g) \ O) \cup N ELSE Holds(g),
         missed' \in BOOLEAN, missed => missed',
         (tool = "relay" /\ missed')
           \/ Left(tool, block, Holds("runner")', Holds("pp_utils")', Holds("warmup")')
  PROVE  ProbeInv'
  <1>1. /\ ~Over /\ ~Over' /\ tool \in Tools /\ block \in Nat \ {0}
        /\ block' = block + 1 /\ tool' = tool /\ outcome' = outcome /\ clean' = clean
        /\ outcome = "running"
    BY DEF ProbeInv, ProbeTypeOK, Active, GoOn, Over
  <1>2. ProbeTypeOK'
    BY <1>1 DEF ProbeInv, ProbeTypeOK
  <1>3. \A g \in Files : Holds(g)' = Holds(g) \/ Holds(g)' = (Holds(g) \ O) \cup N
    OBVIOUS
  <1>4. Paired'
    <2>1. ASSUME NEW g \in Files PROVE Coupled(Holds(g)')
      <3>1. Coupled(Holds(g))
        BY DEF ProbeInv, Paired
      <3>q. QED BY <1>3, <3>1, CoupledAfter
    <2>q. QED BY <2>1 DEF Paired, Coupled
  <1>5. \A g \in Files, x \in Lasting : x \in Holds(g) => x \in Holds(g)'
    BY <1>3 DEF Clean
  <1>6. /\ "runner" \in Files /\ "pp_utils" \in Files /\ "warmup" \in Files
        /\ "helper" \in Lasting /\ "wmMark" \in Lasting /\ "deferred" \in Lasting
        /\ "sendBelow" \in Lasting /\ "recvSlack" \in Lasting /\ "sendSlack" \in Lasting
    BY DEF Files, Lasting
  <1>7. Named'
    <2>1. ASSUME clean, tool # "warmup", Holds("runner")' \cap HeadSteps # {}
          PROVE  "helper" \in Holds("runner")'
      <3>1. N \cap HeadSteps = {}
        BY <2>1 DEF Clean
      <3>2. Holds("runner") \cap HeadSteps # {}
        BY <1>3, <1>6, <2>1, <3>1
      <3>q. QED BY <1>5, <1>6, <2>1, <3>2 DEF ProbeInv, Named, Running
    <2>2. ASSUME tool = "warmup", block + 1 > 10
          PROVE  "helper" \in Holds("runner")'
      <3>1. CASE block = 10
        BY <2>2, <3>1 DEF Left
      <3>2. CASE block > 10
        BY <1>1, <1>5, <1>6, <2>2, <3>2 DEF ProbeInv, Named, Running
      <3>q. QED BY <1>1, <2>2, <3>1, <3>2
    <2>3. ASSUME tool = "warmup", block + 1 > 2
          PROVE  "wmMark" \in Holds("warmup")'
      <3>1. CASE block = 2
        BY <2>3, <3>1 DEF Left
      <3>2. CASE block > 2
        BY <1>1, <1>5, <1>6, <2>3, <3>2 DEF ProbeInv, Named, Running
      <3>q. QED BY <1>1, <2>3, <3>1, <3>2
    <2>4. ASSUME Holds("warmup")' \cap FileSteps # {}
          PROVE  "wmMark" \in Holds("warmup")'
      <3>1. CASE Holds("warmup") \cap FileSteps # {}
        BY <1>5, <1>6, <3>1 DEF ProbeInv, Named
      <3>2. CASE N \cap FileSteps # {}
        <4>1. tool = "warmup" /\ block > 2
          BY <3>2 DEF Clean
        <4>q. QED BY <1>1, <1>5, <1>6, <4>1 DEF ProbeInv, Named, Running
      <3>q. QED BY <1>3, <1>6, <2>4, <3>1, <3>2
    <2>q. QED BY <1>1, <2>1, <2>2, <2>3, <2>4 DEF Named, Running
  <1>8. Matched'
    <2>1. ASSUME tool = "relay", ~missed'
          PROVE  /\ block + 1 > 1 => "deferred" \in Holds("runner")'
                 /\ block + 1 > 2 => "sendBelow" \in Holds("runner")'
                 /\ block + 1 > 3 => "recvSlack" \in Holds("pp_utils")'
                 /\ block + 1 > 4 => "sendSlack" \in Holds("pp_utils")'
      <3>1. Left("relay", block, Holds("runner")', Holds("pp_utils")', Holds("warmup")')
        BY <2>1
      <3>2. /\ block > 1 => "deferred" \in Holds("runner")
            /\ block > 2 => "sendBelow" \in Holds("runner")
            /\ block > 3 => "recvSlack" \in Holds("pp_utils")
            /\ block > 4 => "sendSlack" \in Holds("pp_utils")
        BY <1>1, <2>1 DEF ProbeInv, Matched, Running
      <3>3. /\ block > 1 => "deferred" \in Holds("runner")'
            /\ block > 2 => "sendBelow" \in Holds("runner")'
            /\ block > 3 => "recvSlack" \in Holds("pp_utils")'
            /\ block > 4 => "sendSlack" \in Holds("pp_utils")'
        BY <1>5, <1>6, <3>2
      <3>4. /\ block = 1 => "deferred" \in Holds("runner")'
            /\ block = 2 => "sendBelow" \in Holds("runner")'
            /\ block = 3 => "recvSlack" \in Holds("pp_utils")'
            /\ block = 4 => "sendSlack" \in Holds("pp_utils")'
        BY <3>1 DEF Left
      <3>5. /\ block + 1 > 1 => block > 1 \/ block = 1
            /\ block + 1 > 2 => block > 2 \/ block = 2
            /\ block + 1 > 3 => block > 3 \/ block = 3
            /\ block + 1 > 4 => block > 4 \/ block = 4
        BY <1>1
      <3>q. QED BY <3>3, <3>4, <3>5
    <2>2. ASSUME clean, tool # "relay"
          PROVE  /\ "deferred" \in Holds("runner")' <=> "sendBelow" \in Holds("runner")'
                 /\ "recvSlack" \in Holds("pp_utils")' <=> "sendSlack" \in Holds("pp_utils")'
      <3>1. N \cap Relayed = {}
        BY <2>2 DEF Clean
      <3>2. "deferred" \notin N /\ "sendBelow" \notin N /\ "recvSlack" \notin N /\ "sendSlack" \notin N
        BY <3>1 DEF Relayed
      <3>3. /\ "deferred" \in Holds("runner")' <=> "deferred" \in Holds("runner")
            /\ "sendBelow" \in Holds("runner")' <=> "sendBelow" \in Holds("runner")
            /\ "recvSlack" \in Holds("pp_utils")' <=> "recvSlack" \in Holds("pp_utils")
            /\ "sendSlack" \in Holds("pp_utils")' <=> "sendSlack" \in Holds("pp_utils")
        BY <1>3, <1>5, <1>6, <3>2
      <3>q. QED BY <2>2, <3>3 DEF ProbeInv, Matched, Running
    <2>q. QED BY <1>1, <2>1, <2>2 DEF Matched, Running
  <1>q. QED BY <1>2, <1>4, <1>7, <1>8 DEF ProbeInv

\* The file and the block a running script is at.
LEMMA AtBlock ==
  ASSUME ProbeInv, Active
  PROVE  /\ tool \in Tools /\ block \in 1..Len(BlocksOf(tool))
         /\ Current.file \in Files
         /\ Clean(tool, block, Range(Current.old), Range(Current.new))
         /\ \A r : Line(r) => Fitting(r, Current)
  <1>1. tool \in Tools /\ block \in 1..Len(BlocksOf(tool))
    <2>1. tool \in Tools /\ block \in Nat \ {0} /\ block <= Len(BlocksOf(tool))
      BY DEF ProbeInv, ProbeTypeOK, Active
    <2>2. Len(BlocksOf(tool)) \in Nat
      BY <2>1, LengthsAre, ProbeTreeAssumption
    <2>q. QED BY <2>1, <2>2
  <1>2. \E r : Line(r)
    BY DEF ProbeInv, Ordered
  <1>3. Tame(tool, block, Current)
    BY <1>1, <1>2, EveryBlock DEF Current
  <1>4. \A r : Line(r) => Fitting(r, Current)
    BY <1>1, EveryBlock DEF Current
  <1>q. QED BY <1>1, <1>3, <1>4 DEF Tame, Clean

LEMMA InsertKeeps ==
  ASSUME ProbeInv, Insert
  PROVE  ProbeInv'
  <1>1. Active /\ ~IsHere /\ Found(Current.old) /\ GoOn /\ missed' = missed
    BY DEF Insert
  <1>2. PICK b : b = Current
    OBVIOUS
  <1>3. PICK f, O, N : f = b.file /\ O = Range(b.old) /\ N = Range(b.new)
    OBVIOUS
  <1>4. /\ tool \in Tools /\ block \in 1..Len(BlocksOf(tool))
        /\ f \in Files /\ Clean(tool, block, O, N)
    BY <1>1, <1>2, <1>3, AtBlock
  <1>5. PICK s : s = text[f]
    OBVIOUS
  <1>6. PICK t : t = Replaced(s, b.old, b.new)
    OBVIOUS
  <1>7. DOMAIN text = Files /\ text' = [text EXCEPT ![f] = t]
    BY <1>2, <1>3, <1>5, <1>6 DEF Insert, ProbeInv, ProbeTypeOK
  <1>8. PICK r : Line(r) /\ \A g \in Files : Follows(r, text[g])
    BY DEF ProbeInv, Ordered
  <1>9. Fits(r, s, b.old, b.new) /\ Occurs(b.old, s) # {}
    <2>1. Coupled(Range(s))
      BY <1>4, <1>5 DEF ProbeInv, Paired, Holds
    <2>2. Occurs(b.mark, s) = {} /\ Occurs(b.old, s) # {}
      BY <1>1, <1>2, <1>3, <1>5 DEF IsHere, Found
    <2>3. Fitting(r, b)
      BY <1>1, <1>2, <1>8, AtBlock
    <2>4. Follows(r, s)
      BY <1>4, <1>5, <1>8
    <2>q. QED BY <2>1, <2>2, <2>3, <2>4 DEF Fitting
  <1>10. Follows(r, t) /\ Range(t) = (Range(s) \ O) \cup N
    <2>1. Follows(r, s)
      BY <1>4, <1>5, <1>8
    <2>q. QED BY <1>3, <1>6, <1>8, <1>9, <2>1, FittedIn
  <1>11. DOMAIN text' = Files /\ \A g \in Files : text'[g] = IF g = f THEN t ELSE text[g]
    BY <1>4, <1>7
  <1>12. Ordered'
    BY <1>8, <1>10, <1>11 DEF Ordered
  <1>13. \A g \in Files : Holds(g)' = IF g = f THEN (Holds(g) \ O) \cup N ELSE Holds(g)
    BY <1>5, <1>10, <1>11 DEF Holds
  <1>14. Left(tool, block, Holds("runner")', Holds("pp_utils")', Holds("warmup")')
    <2>1. f = "runner" \/ f = "pp_utils" \/ f = "warmup"
      BY <1>4 DEF Files
    <2>2. /\ f = "runner" => N \subseteq Holds("runner")'
          /\ f = "pp_utils" => N \subseteq Holds("pp_utils")'
          /\ f = "warmup" => N \subseteq Holds("warmup")'
      BY <1>13 DEF Files
    <2>3. PICK R, U, W : R = Holds("runner")' /\ U = Holds("pp_utils")' /\ W = Holds("warmup")'
      OBVIOUS
    <2>4. PICK k, y : k = block /\ y = tool
      OBVIOUS
    <2>5. /\ y \in Tools /\ k \in 1..Len(BlocksOf(y))
          /\ b = BlocksOf(y)[k]
      BY <1>2, <1>4, <2>4 DEF Current
    <2>6. Left(y, k, R, U, W)
      <3>1. Range(b.new) \subseteq IF b.file = "runner" THEN R ELSE IF b.file = "pp_utils" THEN U ELSE W
        BY <1>3, <2>1, <2>2, <2>3
      <3>q. QED BY <2>5, <3>1, LeavesIt
    <2>q. QED BY <2>3, <2>4, <2>6
  <1>15. missed' \in BOOLEAN
    BY <1>1 DEF ProbeInv, ProbeTypeOK
  <1>q. QED BY <1>1, <1>4, <1>11, <1>12, <1>13, <1>14, <1>15, GoOnKeeps

LEMMA NothingClean ==
  ASSUME NEW t, NEW k
  PROVE  Clean(t, k, {}, {})
  BY DEF Clean

LEMMA Unchanged ==
  ASSUME ProbeInv, text' = text
  PROVE  /\ \A g \in Files : Holds(g)' = Holds(g)
         /\ Holds("runner")' = Holds("runner") /\ Holds("pp_utils")' = Holds("pp_utils")
         /\ Holds("warmup")' = Holds("warmup")
         /\ DOMAIN text' = Files /\ Ordered' /\ Paired'
  <1>1. DOMAIN text = Files
    BY DEF ProbeInv, ProbeTypeOK
  <1>2. Ordered'
    BY DEF ProbeInv, Ordered
  <1>3. Paired'
    BY DEF ProbeInv, Paired, Holds
  <1>q. QED BY <1>1, <1>2, <1>3 DEF Holds

LEMMA SkipKeeps ==
  ASSUME ProbeInv, Skip
  PROVE  ProbeInv'
  <1>1. Active /\ IsHere /\ GoOn /\ missed' = missed /\ text' = text
    BY DEF Skip
  <1>2. PICK b : b = Current
    OBVIOUS
  <1>3. PICK f : f = b.file
    OBVIOUS
  <1>4. tool \in Tools /\ block \in 1..Len(BlocksOf(tool)) /\ f \in Files
    BY <1>1, <1>2, <1>3, AtBlock
  <1>5. PICK s : s = text[f]
    OBVIOUS
  <1>6. s \in Seq(Segs) /\ Occurs(b.mark, s) # {}
    <2>1. Occurs(b.mark, s) # {}
      BY <1>1, <1>2, <1>3, <1>5 DEF IsHere, Found
    <2>q. QED BY <1>4, <1>5, <2>1 DEF ProbeInv, Ordered, Follows
  <1>7. \A g \in Files : Holds(g)' = IF g = f THEN (Holds(g) \ {}) \cup {} ELSE Holds(g)
    BY <1>1, Unchanged
  <1>8. Left(tool, block, Holds("runner")', Holds("pp_utils")', Holds("warmup")')
    <2>1. PICK R, U, W : R = Holds("runner")' /\ U = Holds("pp_utils")' /\ W = Holds("warmup")'
      OBVIOUS
    <2>2. PICK k, y : k = block /\ y = tool
      OBVIOUS
    <2>3. /\ y \in Tools /\ k \in 1..Len(BlocksOf(y))
          /\ b = BlocksOf(y)[k]
      BY <1>2, <1>4, <2>2 DEF Current
    <2>4. Range(s) = IF b.file = "runner" THEN R ELSE IF b.file = "pp_utils" THEN U ELSE W
      BY <1>1, <1>3, <1>4, <1>5, <2>1, Unchanged DEF Files, Holds
    <2>5. Left(y, k, R, U, W)
      BY <1>6, <2>3, <2>4, LeavesIt
    <2>q. QED BY <2>1, <2>2, <2>5
  <1>9. missed' \in BOOLEAN /\ Clean(tool, block, {}, {}) /\ DOMAIN text' = Files /\ Ordered'
    BY <1>1, NothingClean, Unchanged DEF ProbeInv, ProbeTypeOK
  <1>q. QED BY <1>1, <1>4, <1>7, <1>8, <1>9, GoOnKeeps

\* How a run ends: what it reports success of it has done.
LEMMA EndKeeps ==
  ASSUME ProbeInv, ~Over, text' = text, NEW how, how # "running", Ends(how),
         how = "done" => block > Len(BlocksOf(tool)) /\ ~missed
  PROVE  ProbeInv'
  <1>1. /\ outcome = "running" /\ outcome' # "running" /\ tool' = tool /\ block' = 1
        /\ missed' = FALSE /\ clean' = (clean /\ how = "done")
        /\ tool \in Tools /\ block \in Nat \ {0} /\ clean \in BOOLEAN
    BY DEF ProbeInv, ProbeTypeOK, Over, Ends
  <1>2. /\ Holds("runner")' = Holds("runner") /\ Holds("pp_utils")' = Holds("pp_utils")
        /\ Holds("warmup")' = Holds("warmup")
        /\ DOMAIN text' = Files /\ Ordered' /\ Paired'
    BY Unchanged
  <1>3. ProbeTypeOK'
    <2>1. clean' \in BOOLEAN /\ missed' \in BOOLEAN
      BY <1>1, Zenon
    <2>2. block' \in Nat \ {0} /\ ((~Over)' => tool' \in Tools)
      BY <1>1
    <2>q. QED BY <1>2, <2>1, <2>2 DEF ProbeTypeOK
  <1>4. Named'
    <2>1. ASSUME clean, how = "done", Holds("runner") \cap HeadSteps # {}
          PROVE  "helper" \in Holds("runner")
      <3>1. CASE tool = "warmup"
        <4>1. block > 15
          BY <2>1, <3>1, LengthsAre
        <4>2. block > 10
          BY <1>1, <4>1
        <4>q. QED BY <1>1, <3>1, <4>2 DEF ProbeInv, Named, Running
      <3>2. CASE tool # "warmup"
        BY <2>1, <3>2 DEF ProbeInv, Named, Running
      <3>q. QED BY <3>1, <3>2
    <2>2. Holds("warmup") \cap FileSteps # {} => "wmMark" \in Holds("warmup")
      BY DEF ProbeInv, Named
    <2>q. QED BY <1>1, <1>2, <2>1, <2>2 DEF Named, Running
  <1>5. Matched'
    <2>1. ASSUME clean, how = "done"
          PROVE  /\ "deferred" \in Holds("runner") <=> "sendBelow" \in Holds("runner")
                 /\ "recvSlack" \in Holds("pp_utils") <=> "sendSlack" \in Holds("pp_utils")
      <3>1. CASE tool = "relay"
        <4>1. block > 4
          BY <2>1, <3>1, LengthsAre
        <4>2. block > 1 /\ block > 2 /\ block > 3
          BY <1>1, <4>1
        <4>q. QED BY <1>1, <2>1, <3>1, <4>1, <4>2 DEF ProbeInv, Matched, Running
      <3>2. CASE tool # "relay"
        BY <2>1, <3>2 DEF ProbeInv, Matched, Running
      <3>q. QED BY <3>1, <3>2
    <2>q. QED BY <1>1, <1>2, <2>1 DEF Matched, Running
  <1>q. QED BY <1>2, <1>3, <1>4, <1>5 DEF ProbeInv

LEMMA MissesKeeps ==
  ASSUME ProbeInv, Misses
  PROVE  ProbeInv'
  <1>1. Active /\ text' = text
    BY DEF Misses
  <1>2. CASE GoesOn(tool) /\ missed' = TRUE /\ GoOn
    <2>1. PICK f : f \in Files
      BY DEF Files
    <2>2. \A g \in Files : Holds(g)' = IF g = f THEN (Holds(g) \ {}) \cup {} ELSE Holds(g)
      BY <1>1, Unchanged
    <2>3. Clean(tool, block, {}, {}) /\ DOMAIN text' = Files /\ Ordered'
      BY <1>1, NothingClean, Unchanged
    <2>4. \/ tool = "relay" /\ missed'
          \/ Left(tool, block, Holds("runner")', Holds("pp_utils")', Holds("warmup")')
      BY <1>2 DEF GoesOn, Left
    <2>q. QED BY <1>1, <1>2, <2>1, <2>2, <2>3, <2>4, GoOnKeeps
  <1>3. CASE ~GoesOn(tool) /\ Ends("failed")
    BY <1>1, <1>3, EndKeeps DEF Active
  <1>q. QED BY <1>2, <1>3 DEF Misses

LEMMA ExitKeeps ==
  ASSUME ProbeInv, Exit
  PROVE  ProbeInv'
  <1>1. PICK how : how = ExitStatus
    OBVIOUS
  <1>2. how \in {"failed", "done"} /\ (how = "done" => ~missed)
    BY <1>1 DEF ExitStatus, ProbeInv, ProbeTypeOK
  <1>3. ~Over /\ block > Len(BlocksOf(tool)) /\ Ends(how) /\ text' = text
    BY <1>1 DEF Exit
  <1>q. QED BY <1>2, <1>3, EndKeeps

LEMMA KillKeeps ==
  ASSUME ProbeInv, Kill
  PROVE  ProbeInv'
  BY EndKeeps DEF Kill

LEMMA StartKeeps ==
  ASSUME ProbeInv, NEW t \in Tools, Start(t)
  PROVE  ProbeInv'
  <1>1. /\ outcome # "running" /\ outcome' = "running" /\ tool' = t /\ block' = 1
        /\ missed' = FALSE /\ clean' = clean /\ text' = text
    BY DEF Start, Over
  <1>2. /\ Holds("runner")' = Holds("runner") /\ Holds("pp_utils")' = Holds("pp_utils")
        /\ Holds("warmup")' = Holds("warmup")
        /\ DOMAIN text' = Files /\ Ordered' /\ Paired'
    BY <1>1, Unchanged
  <1>3. ProbeTypeOK'
    <2>1. clean' \in BOOLEAN /\ missed' \in BOOLEAN
      BY <1>1, Zenon DEF ProbeInv, ProbeTypeOK
    <2>2. block' \in Nat \ {0} /\ ((~Over)' => tool' \in Tools)
      BY <1>1
    <2>q. QED BY <1>2, <2>1, <2>2 DEF ProbeTypeOK
  <1>4. Named'
    BY <1>1, <1>2 DEF ProbeInv, Named, Running
  <1>5. Matched'
    BY <1>1, <1>2 DEF ProbeInv, Matched, Running
  <1>q. QED BY <1>2, <1>3, <1>4, <1>5 DEF ProbeInv

LEMMA StutterKeeps ==
  ASSUME ProbeInv, UNCHANGED vars
  PROVE  ProbeInv'
  <1>1. /\ Holds("runner")' = Holds("runner") /\ Holds("pp_utils")' = Holds("pp_utils")
        /\ Holds("warmup")' = Holds("warmup")
        /\ DOMAIN text' = Files /\ Ordered' /\ Paired'
    BY Unchanged DEF vars
  <1>2. ProbeTypeOK' /\ Named' /\ Matched'
    BY <1>1 DEF ProbeInv, ProbeTypeOK, Named, Matched, Running, Over, vars
  <1>q. QED BY <1>1, <1>2 DEF ProbeInv

----------------------------------------------------------------------------
(* Removal *)

\* s without the segments from a to e.
Cut(s, a, e) == SubSeq(s, 1, a - 1) \o SubSeq(s, e + 1, Len(s))

\* What it holds, position by position.
LEMMA CutIs ==
  ASSUME NEW T, NEW s \in Seq(T), NEW a \in DOMAIN s, NEW e \in DOMAIN s, a <= e
  PROVE  LET t == Cut(s, a, e)
         IN  /\ t \in Seq(T)
             /\ Len(t) = Len(s) - (e - a + 1)
             /\ \A k \in 1..Len(t) : t[k] = IF k < a THEN s[k] ELSE s[k + (e - a + 1)]
  <1>1. PICK u, v : u = SubSeq(s, 1, a - 1) /\ v = SubSeq(s, e + 1, Len(s))
    OBVIOUS
  <1>2. Len(s) \in Nat /\ a \in 1..Len(s) /\ e \in 1..Len(s) /\ a <= e
    OBVIOUS
  <1>3. u \in Seq(T) /\ Len(u) = a - 1 /\ \A k \in 1..(a - 1) : u[k] = s[k]
    <2>1. \A j \in 1..(a - 1) : s[j] \in T
      BY <1>2
    <2>2. /\ u \in Seq(T)
          /\ Len(u) = IF 1 <= a - 1 THEN (a - 1) - 1 + 1 ELSE 0
          /\ \A k \in 1..((a - 1) - 1 + 1) : u[k] = s[1 + k - 1]
      BY <1>1, <1>2, <2>1, SubSeqProperties
    <2>q. QED BY <1>2, <2>2
  <1>4. v \in Seq(T) /\ Len(v) = Len(s) - e /\ \A k \in 1..Len(v) : v[k] = s[e + k]
    <2>1. \A j \in (e + 1)..Len(s) : s[j] \in T
      BY <1>2
    <2>2. /\ v \in Seq(T)
          /\ Len(v) = IF e + 1 <= Len(s) THEN Len(s) - (e + 1) + 1 ELSE 0
          /\ \A k \in 1..(Len(s) - (e + 1) + 1) : v[k] = s[(e + 1) + k - 1]
      BY <1>1, <1>2, <2>1, SubSeqProperties
    <2>3. Len(v) = Len(s) - e
      BY <1>2, <2>2
    <2>4. \A k \in 1..Len(v) : (e + 1) + k - 1 = e + k
      BY <1>2
    <2>q. QED BY <1>2, <2>2, <2>3, <2>4
  <1>5. /\ u \o v \in Seq(T)
        /\ Len(u \o v) = Len(u) + Len(v)
        /\ \A k \in 1..(Len(u) + Len(v)) : (u \o v)[k] = IF k <= Len(u) THEN u[k] ELSE v[k - Len(u)]
    <2>1. u \in Seq(T) /\ v \in Seq(T)
      BY <1>3, <1>4
    <2>q. QED BY <2>1, ConcatProperties
  <1>6. PICK t : /\ t = u \o v /\ t \in Seq(T) /\ Len(t) = Len(u) + Len(v)
                 /\ \A k \in 1..Len(t) : t[k] = IF k <= Len(u) THEN u[k] ELSE v[k - Len(u)]
    BY <1>5
  <1>7. Len(t) = Len(s) - (e - a + 1)
    BY <1>2, <1>3, <1>4, <1>6
  <1>8. ASSUME NEW k \in 1..Len(t)
        PROVE  t[k] = IF k < a THEN s[k] ELSE s[k + (e - a + 1)]
    <2>1. CASE k < a
      BY <1>2, <1>3, <1>6, <2>1
    <2>2. CASE ~(k < a)
      <3>0. ~(k <= Len(u)) /\ k - Len(u) \in 1..Len(v)
        <4>1. PICK l, m, q : l = Len(s) /\ m = Len(t) /\ q = Len(v)
          OBVIOUS
        <4>2. Len(u) = a - 1 /\ q = l - e /\ m = (a - 1) + q /\ k \in 1..m
          BY <1>3, <1>4, <1>6, <4>1
        <4>3. l \in Nat /\ a \in Int /\ e \in Int /\ e <= l
          BY <1>2, <4>1
        <4>q. QED BY <2>2, <4>1, <4>2, <4>3
      <3>1. t[k] = v[k - Len(u)] /\ k - Len(u) \in 1..Len(v)
        BY <1>6, <3>0
      <3>2. e + (k - Len(u)) = k + (e - a + 1)
        BY <1>2, <1>3
      <3>q. QED BY <1>4, <2>2, <3>1, <3>2
    <2>q. QED BY <2>1, <2>2
  <1>q. QED BY <1>1, <1>6, <1>7, <1>8 DEF Cut

\* Of the texts that are there once, the cut takes those between its ends.
LEMMA CutFollows ==
  ASSUME NEW r, Line(r), NEW s, Follows(r, s), NEW a \in DOMAIN s, NEW e \in DOMAIN s, a <= e,
         NEW t, t = Cut(s, a, e)
  PROVE  /\ Follows(r, t)
         /\ Range(t) \subseteq Range(s)
         /\ \A z \in Range(s) \ Repeated : z \in Range(t) <=> r[z] < r[s[a]] \/ r[s[e]] < r[z]
  <1>1. s \in Seq(Segs) /\ Len(s) \in Nat /\ DOMAIN s = 1..Len(s)
        /\ a \in 1..Len(s) /\ e \in 1..Len(s) /\ \A k \in DOMAIN s : s[k] \in Segs
    BY DEF Follows
  <1>2. PICK n : n = e - a + 1
    OBVIOUS
  <1>3. n \in Nat \ {0} /\ n <= Len(s)
    BY <1>1, <1>2
  <1>4. /\ t \in Seq(Segs) /\ Len(t) = Len(s) - n /\ DOMAIN t = 1..Len(t)
        /\ \A k \in 1..Len(t) : t[k] = IF k < a THEN s[k] ELSE s[k + n]
    <2>1. s \in Seq(Segs)
      BY <1>1
    <2>2. /\ t \in Seq(Segs)
          /\ Len(t) = Len(s) - (e - a + 1)
          /\ \A k \in 1..Len(t) : t[k] = IF k < a THEN s[k] ELSE s[k + (e - a + 1)]
      BY <2>1, CutIs
    <2>3. DOMAIN t = 1..Len(t)
      BY <2>2
    <2>4. Len(t) = Len(s) - n
      BY <1>2, <2>2
    <2>q. QED BY <1>2, <2>2, <2>3, <2>4, Zenon
  <1>5. \A x \in Segs : r[x] \in Int
    BY DEF Line
  <1>6. ASSUME NEW k \in DOMAIN t
        PROVE  \E h \in DOMAIN s : t[k] = s[h] /\ ((h = k /\ k < a) \/ (h = k + n /\ a <= k /\ e < h))
    <2>1. CASE k < a
      <3>1. k \in DOMAIN s /\ t[k] = s[k]
        BY <1>1, <1>4, <2>1
      <3>2. PICK h \in DOMAIN s : h = k
        BY <3>1
      <3>3. t[k] = s[h] /\ ((h = k /\ k < a) \/ (h = k + n /\ a <= k /\ e < h))
        BY <2>1, <3>1, <3>2
      <3>q. QED BY <3>3
    <2>2. CASE ~(k < a)
      <3>1. PICK h : h = k + n
        OBVIOUS
      <3>2. h \in DOMAIN s /\ a <= k /\ e < h
        BY <1>1, <1>2, <1>3, <1>4, <2>2, <3>1
      <3>3. t[k] = s[h]
        BY <1>4, <2>2, <3>1
      <3>q. QED BY <3>1, <3>2, <3>3
    <2>q. QED BY <2>1, <2>2
  <1>7. Follows(r, t)
    <2>1. ASSUME NEW j \in DOMAIN t, NEW k \in DOMAIN t, j < k
          PROVE  r[t[j]] < r[t[k]] \/ (t[j] = t[k] /\ t[j] \in Repeated)
      <3>1. PICK g \in DOMAIN s : t[j] = s[g] /\ ((g = j /\ j < a) \/ (g = j + n /\ a <= j /\ e < g))
        BY <1>6
      <3>2. PICK h \in DOMAIN s : t[k] = s[h] /\ ((h = k /\ k < a) \/ (h = k + n /\ a <= k /\ e < h))
        BY <1>6
      <3>3. g < h
        BY <1>1, <1>3, <1>4, <2>1, <3>1, <3>2
      <3>q. QED BY <3>1, <3>2, <3>3 DEF Follows
    <2>q. QED BY <1>4, <2>1 DEF Follows
  <1>8. ASSUME NEW z \in Range(t) PROVE z \in Range(s)
    <2>1. PICK k \in DOMAIN t : t[k] = z
      BY DEF Range
    <2>2. PICK h \in DOMAIN s : t[k] = s[h]
      BY <1>6
    <2>q. QED BY <2>1, <2>2 DEF Range
  <1>9. ASSUME NEW z \in Range(s) \ Repeated, z \in Range(t)
        PROVE  r[z] < r[s[a]] \/ r[s[e]] < r[z]
    <2>1. PICK k \in DOMAIN t : t[k] = z
      BY <1>9 DEF Range
    <2>2. PICK h \in DOMAIN s : t[k] = s[h] /\ ((h = k /\ k < a) \/ (h = k + n /\ a <= k /\ e < h))
      BY <1>6
    <2>3. h < a \/ e < h
      BY <2>2
    <2>q. QED BY <1>1, <2>1, <2>2, <2>3 DEF Follows
  <1>10. ASSUME NEW z \in Range(s) \ Repeated, r[z] < r[s[a]] \/ r[s[e]] < r[z]
         PROVE  z \in Range(t)
    <2>1. PICK h \in DOMAIN s : s[h] = z
      BY DEF Range
    <2>2. r[z] \in Int /\ r[s[a]] \in Int /\ r[s[e]] \in Int
      BY <1>1, <1>5, <2>1
    <2>3. h < a \/ e < h
      <3>1. ASSUME a <= h, h <= e PROVE FALSE
        <4>1. a = h \/ a < h
          BY <1>1, <3>1
        <4>2. h = e \/ h < e
          BY <1>1, <3>1
        <4>3. r[s[a]] <= r[z]
          <5>1. CASE a = h
            BY <2>1, <2>2, <5>1
          <5>2. CASE a < h
            <6>1. r[s[a]] < r[s[h]] \/ s[a] = s[h]
              BY <5>2 DEF Follows
            <6>q. QED BY <2>1, <2>2, <6>1
          <5>q. QED BY <4>1, <5>1, <5>2
        <4>4. r[z] <= r[s[e]]
          BY <1>1, <2>1, <2>2, <4>2 DEF Follows
        <4>q. QED BY <1>10, <2>2, <4>3, <4>4
      <3>q. QED BY <1>1, <3>1
    <2>4. CASE h < a
      <3>1. h \in 1..Len(t)
        BY <1>1, <1>2, <1>4, <2>4
      <3>q. QED BY <1>4, <2>1, <2>4, <3>1 DEF Range
    <2>5. CASE e < h
      <3>1. h - n \in 1..Len(t) /\ ~(h - n < a)
        BY <1>1, <1>2, <1>3, <1>4, <2>5
      <3>2. t[h - n] = s[(h - n) + n]
        BY <1>4, <3>1
      <3>3. (h - n) + n = h
        BY <1>1, <1>3
      <3>q. QED BY <1>4, <2>1, <3>1, <3>2, <3>3 DEF Range
    <2>q. QED BY <2>3, <2>4, <2>5
  <1>q. QED BY <1>7, <1>8, <1>9, <1>10

\* What one --remove looks for, and from where it cuts.
LEMMA ProbeIs ==
  /\ Probe("hidden") = "hiddenProbe" /\ Probe("anchor") = "anchorProbe" /\ Probe("mtp") = "mtpProbe"
  BY DEF Probe, BlocksOf, HiddenBlocks, AnchorBlocks, MtpBlocks, Tagged, Block

\* No cut ends within the span of texts that come and go together.
LEMMA ApartFromCuts ==
  ASSUME NEW r, Line(r), NEW c \in TryProbes
  PROVE  /\ \A p \in Pairs : ~(r[p[1]] <= r[c] /\ r[c] <= r[p[2]]) /\ r[p[1]] < r[p[2]]
         /\ ~(r["deferred"] <= r[c] /\ r[c] <= r["sendBelow"]) /\ r["deferred"] < r["sendBelow"]
         /\ r["helper"] < r[c]
  <1>1. c \in {"hiddenProbe", "anchorProbe", "commitProbe", "verifyProbe"}
    BY DEF TryProbes
  <1>2. \A x, y \in Segs : r[x] \in Int /\ (r[x] = r[y] => x = y)
    BY DEF Line
  <1>3. /\ {"P8a", "receive", "P8b", "P9a", "sample", "P9b", "deferred", "P10a", "broadcast", "P10b",
             "mtpProbe", "propose", "sendBelow"} \subseteq Segs
        /\ {"P13a", "logits", "P13b", "P6a", "prefillRun", "P6b", "P7a", "prefillSample", "P7b"} \subseteq Segs
        /\ {"helper", "class", "hiddenProbe", "anchorProbe", "commitProbe", "verifyProbe"} \subseteq Segs
    BY DEF Segs, Place
  <1>4. c \in Segs
    BY <1>1, <1>3
  \* Three neighbours, of which the cut is none.
  <1>5. ASSUME NEW x \in Segs, NEW y \in Segs, NEW z \in Segs, r[y] = r[x] + 1, r[z] = r[y] + 1,
               c # x, c # y, c # z
        PROVE  ~(r[x] <= r[c] /\ r[c] <= r[z]) /\ r[x] < r[z]
    <2>1. r[c] # r[x] /\ r[c] # r[y] /\ r[c] # r[z]
      BY <1>2, <1>4, <1>5
    <2>q. QED BY <1>2, <1>4, <1>5, <2>1
  <1>6. ~(r["P8a"] <= r[c] /\ r[c] <= r["P8b"]) /\ r["P8a"] < r["P8b"]
    BY <1>1, <1>3, <1>5, StateLine
  <1>7. ~(r["P9a"] <= r[c] /\ r[c] <= r["P9b"]) /\ r["P9a"] < r["P9b"]
    BY <1>1, <1>3, <1>5, StateLine
  <1>8. ~(r["P10a"] <= r[c] /\ r[c] <= r["P10b"]) /\ r["P10a"] < r["P10b"]
    BY <1>1, <1>3, <1>5, StateLine
  <1>9. ~(r["P13a"] <= r[c] /\ r[c] <= r["P13b"]) /\ r["P13a"] < r["P13b"]
    BY <1>1, <1>3, <1>5, SelectLine
  <1>10. ~(r["P6a"] <= r[c] /\ r[c] <= r["P6b"]) /\ r["P6a"] < r["P6b"]
    BY <1>1, <1>3, <1>5, WarmupLine
  <1>11. ~(r["P7a"] <= r[c] /\ r[c] <= r["P7b"]) /\ r["P7a"] < r["P7b"]
    BY <1>1, <1>3, <1>5, WarmupLine
  <1>12. \A p \in Pairs : ~(r[p[1]] <= r[c] /\ r[c] <= r[p[2]]) /\ r[p[1]] < r[p[2]]
    <2>1. ASSUME NEW p \in Pairs
          PROVE  \/ p[1] = "P8a" /\ p[2] = "P8b"
                 \/ p[1] = "P9a" /\ p[2] = "P9b"
                 \/ p[1] = "P10a" /\ p[2] = "P10b"
                 \/ p[1] = "P13a" /\ p[2] = "P13b"
                 \/ p[1] = "P6a" /\ p[2] = "P6b"
                 \/ p[1] = "P7a" /\ p[2] = "P7b"
      BY DEF Pairs
    <2>q. QED BY <1>6, <1>7, <1>8, <1>9, <1>10, <1>11, <2>1
  <1>13. ~(r["deferred"] <= r[c] /\ r[c] <= r["sendBelow"]) /\ r["deferred"] < r["sendBelow"]
    <2>1. /\ r[c] # r["deferred"] /\ r[c] # r["P10a"] /\ r[c] # r["broadcast"] /\ r[c] # r["P10b"]
          /\ r[c] # r["mtpProbe"] /\ r[c] # r["propose"] /\ r[c] # r["sendBelow"]
      BY <1>1, <1>2, <1>3, <1>4
    <2>2. /\ r["deferred"] \in Int /\ r[c] \in Int
      BY <1>2, <1>3, <1>4
    <2>3. /\ r["P10a"] = r["deferred"] + 1 /\ r["broadcast"] = r["deferred"] + 2
          /\ r["P10b"] = r["deferred"] + 3 /\ r["mtpProbe"] = r["deferred"] + 4
          /\ r["propose"] = r["deferred"] + 5 /\ r["sendBelow"] = r["deferred"] + 6
      BY <2>2, StateLine
    <2>4. /\ r[c] # r["deferred"] /\ r[c] # r["deferred"] + 1 /\ r[c] # r["deferred"] + 2
          /\ r[c] # r["deferred"] + 3 /\ r[c] # r["deferred"] + 4
          /\ r[c] # r["deferred"] + 5 /\ r[c] # r["deferred"] + 6
      BY <2>1, <2>3
    <2>q. QED BY <2>2, <2>3, <2>4
  <1>14. r["helper"] < r[c]
    <2>1. Place[c] > 2
      BY <1>1 DEF Place
    <2>2. r["class"] < r[c]
      BY <1>4, <2>1 DEF Line
    <2>q. QED BY <1>2, <1>3, <1>4, <2>2, Neighbours
  <1>q. QED BY <1>12, <1>13, <1>14

\* What a removal leaves of the runner: pairs stay pairs, and all that a probe
\* is not cut with is there as before.
LEMMA CutKeeps ==
  ASSUME NEW r, Line(r), NEW s, Follows(r, s), Coupled(Range(s)),
         NEW a \in DOMAIN s, NEW e \in DOMAIN s, a <= e,
         \/ s[a] = s[e] /\ s[e] \in TryProbes \cup {"mtpProbe"}
         \/ s[a] \in TryProbes /\ s[e] \in TryProbes,
         NEW t, t = Cut(s, a, e)
  PROVE  /\ Follows(r, t) /\ Range(t) \subseteq Range(s) /\ Coupled(Range(t))
         /\ "deferred" \in Range(s) /\ "sendBelow" \in Range(s)
              => ("deferred" \in Range(t) <=> "sendBelow" \in Range(t))
         /\ "helper" \in Range(s) => "helper" \in Range(t)
  <1>1. /\ Follows(r, t) /\ Range(t) \subseteq Range(s)
        /\ \A z \in Range(s) \ Repeated : z \in Range(t) <=> r[z] < r[s[a]] \/ r[s[e]] < r[z]
    BY CutFollows
  <1>2. \A x, y \in Segs : r[x] \in Int /\ (r[x] = r[y] => x = y)
    BY DEF Line
  <1>3. s[a] \in Segs /\ s[e] \in Segs /\ Range(s) \subseteq Segs
    BY DEF Follows, Range
  <1>4. \A p \in Pairs : /\ p[1] \in Segs \ Repeated /\ p[2] \in Segs \ Repeated
                         /\ p[1] \notin TryProbes \cup {"mtpProbe"}
                         /\ p[2] \notin TryProbes \cup {"mtpProbe"}
    BY SMTT(60) DEF Pairs, Segs, Place, Repeated, TryProbes
  <1>5. /\ {"deferred", "sendBelow", "helper"} \subseteq Segs \ Repeated
        /\ "deferred" \notin TryProbes \cup {"mtpProbe"} /\ "sendBelow" \notin TryProbes \cup {"mtpProbe"}
        /\ "helper" \notin TryProbes \cup {"mtpProbe"}
    BY DEF Segs, Place, Repeated, TryProbes
  \* Of two texts one side of all that is cut, or of all but one segment, both stay or none.
  <1>6. ASSUME NEW x \in Segs \ Repeated, NEW y \in Segs \ Repeated,
               x \in Range(s), y \in Range(s),
               x \notin TryProbes \cup {"mtpProbe"}, y \notin TryProbes \cup {"mtpProbe"},
               \A c \in TryProbes : ~(r[x] <= r[c] /\ r[c] <= r[y]) /\ r[x] < r[y]
        PROVE  x \in Range(t) <=> y \in Range(t)
    <2>1. r[x] \in Int /\ r[y] \in Int /\ r[s[a]] \in Int /\ r[s[e]] \in Int
      BY <1>2, <1>3
    <2>2. CASE s[a] = s[e] /\ s[e] \in TryProbes \cup {"mtpProbe"}
      <3>1. r[x] # r[s[e]] /\ r[y] # r[s[e]]
        BY <1>2, <1>3, <1>6, <2>2
      <3>2. x \in Range(t) /\ y \in Range(t)
        BY <1>1, <1>6, <2>1, <2>2, <3>1
      <3>q. QED BY <3>2
    <2>3. CASE s[a] \in TryProbes /\ s[e] \in TryProbes
      <3>1. /\ ~(r[x] <= r[s[a]] /\ r[s[a]] <= r[y]) /\ ~(r[x] <= r[s[e]] /\ r[s[e]] <= r[y])
            /\ r[x] < r[y]
        BY <1>6, <2>3
      <3>2. (r[x] < r[s[a]] \/ r[s[e]] < r[x]) <=> (r[y] < r[s[a]] \/ r[s[e]] < r[y])
        BY <2>1, <3>1
      <3>q. QED BY <1>1, <1>6, <3>2
    <2>q. QED BY <2>2, <2>3
  <1>7. ASSUME NEW p \in Pairs PROVE p[1] \in Range(t) <=> p[2] \in Range(t)
    <2>1. p[1] \in Range(s) <=> p[2] \in Range(s)
      BY DEF Coupled
    <2>2. CASE p[1] \in Range(s) /\ p[2] \in Range(s)
      <3>1. \A c \in TryProbes : ~(r[p[1]] <= r[c] /\ r[c] <= r[p[2]]) /\ r[p[1]] < r[p[2]]
        BY ApartFromCuts
      <3>q. QED BY <1>4, <1>6, <2>2, <3>1
    <2>3. CASE p[1] \notin Range(s) /\ p[2] \notin Range(s)
      BY <1>1, <2>3
    <2>q. QED BY <2>1, <2>2, <2>3
  <1>8. Coupled(Range(t))
    BY <1>1, <1>7 DEF Coupled
  <1>9. ASSUME "deferred" \in Range(s), "sendBelow" \in Range(s)
        PROVE  "deferred" \in Range(t) <=> "sendBelow" \in Range(t)
    <2>1. \A c \in TryProbes : ~(r["deferred"] <= r[c] /\ r[c] <= r["sendBelow"])
                               /\ r["deferred"] < r["sendBelow"]
      BY ApartFromCuts
    <2>q. QED BY <1>5, <1>6, <1>9, <2>1
  <1>10. ASSUME "helper" \in Range(s) PROVE "helper" \in Range(t)
    <2>1. CASE s[a] = s[e] /\ s[e] \in TryProbes \cup {"mtpProbe"}
      <3>1. r["helper"] # r[s[e]]
        BY <1>2, <1>3, <1>5, <2>1
      <3>q. QED BY <1>1, <1>2, <1>3, <1>5, <1>10, <2>1, <3>1
    <2>2. CASE s[a] \in TryProbes
      BY <1>1, <1>5, <1>10, <2>2, ApartFromCuts
    <2>q. QED BY <2>1, <2>2
  <1>q. QED BY <1>1, <1>8, <1>9, <1>10

LEMMA RemoveKeeps ==
  ASSUME ProbeInv, NEW u \in Tools, Remove(u)
  PROVE  ProbeInv'
  <1>1. PICK s : s = text["runner"]
    OBVIOUS
  <1>2. PICK e, a : /\ e = First(Occurs(<<Probe(u)>>, s))
                    /\ a = First({i \in DOMAIN s : s[i] \in CutFrom(u)})
    OBVIOUS
  <1>3. PICK t : t = Cut(s, a, e)
    OBVIOUS
  <1>4. /\ Over /\ u \in {"hidden", "anchor", "mtp"} /\ Occurs(<<Probe(u)>>, s) # {}
        /\ text' = [text EXCEPT !["runner"] = t]
        /\ outcome' = "removed" /\ block' = block /\ missed' = missed /\ clean' = clean
    BY <1>1, <1>2, <1>3 DEF Remove, Cut
  <1>5. DOMAIN text = Files /\ "runner" \in Files
    BY DEF ProbeInv, ProbeTypeOK, Files
  <1>6. /\ DOMAIN text' = Files
        /\ text'["runner"] = t /\ \A g \in Files : g # "runner" => text'[g] = text[g]
    BY <1>4, <1>5
  <1>7. PICK r : Line(r) /\ \A g \in Files : Follows(r, text[g])
    BY DEF ProbeInv, Ordered
  <1>8. Follows(r, s) /\ Coupled(Range(s)) /\ s \in Seq(Segs) /\ DOMAIN s \subseteq Nat
    <2>1. Follows(r, s) /\ Coupled(Range(s))
      BY <1>1, <1>5, <1>7 DEF ProbeInv, Paired, Holds
    <2>q. QED BY <2>1 DEF Follows
  <1>9. e \in DOMAIN s /\ s[e] = Probe(u)
    <2>1. PICK pat : pat = <<Probe(u)>>
      OBVIOUS
    <2>2. Probe(u) \in Segs
      BY <1>4, ProbeIs DEF Segs, Place
    <2>3. pat \in Seq(Segs) /\ Len(pat) = 1 /\ pat[1] = Probe(u)
      BY <2>1, <2>2, One
    <2>4. Occurs(pat, s) \in SUBSET Nat
      BY DEF Occurs
    <2>5. e \in Occurs(pat, s)
      BY <1>2, <1>4, <2>1, <2>4, FirstIs
    <2>6. e \in 1..(Len(s) - Len(pat) + 1) /\ s[e + 1 - 1] = pat[1]
      <3>1. pat \in Seq(Segs)
        BY <2>3
      <3>2. s \in Seq(Segs)
        BY <1>8
      <3>3. /\ e \in 1..(Len(s) - Len(pat) + 1)
            /\ \A k \in 1..Len(pat) : s[e + k - 1] = pat[k]
        BY <2>5, <3>1, <3>2, OccursAt
      <3>q. QED BY <2>3, <3>3
    <2>q. QED BY <1>8, <2>3, <2>6
  <1>10. a \in DOMAIN s /\ s[a] \in CutFrom(u) /\ a <= e
    <2>1. Probe(u) \in CutFrom(u)
      BY <1>4, ProbeIs DEF CutFrom, TryProbes
    <2>2. {i \in DOMAIN s : s[i] \in CutFrom(u)} \in SUBSET Nat
      BY <1>8
    <2>3. e \in {i \in DOMAIN s : s[i] \in CutFrom(u)}
      BY <1>9, <2>1
    <2>4. /\ a \in {i \in DOMAIN s : s[i] \in CutFrom(u)}
          /\ \A j \in {i \in DOMAIN s : s[i] \in CutFrom(u)} : a <= j
      BY <1>2, <2>2, <2>3, FirstIs
    <2>q. QED BY <2>3, <2>4
  <1>11. \/ s[a] = s[e] /\ s[e] \in TryProbes \cup {"mtpProbe"}
         \/ s[a] \in TryProbes /\ s[e] \in TryProbes
    BY <1>4, <1>9, <1>10, ProbeIs DEF CutFrom, TryProbes
  <1>12. /\ Follows(r, t) /\ Range(t) \subseteq Range(s) /\ Coupled(Range(t))
         /\ "deferred" \in Range(s) /\ "sendBelow" \in Range(s)
              => ("deferred" \in Range(t) <=> "sendBelow" \in Range(t))
         /\ "helper" \in Range(s) => "helper" \in Range(t)
    BY <1>3, <1>7, <1>8, <1>9, <1>10, <1>11, CutKeeps
  <1>13. /\ Holds("runner") = Range(s) /\ Holds("runner")' = Range(t)
         /\ Holds("pp_utils")' = Holds("pp_utils") /\ Holds("warmup")' = Holds("warmup")
         /\ \A g \in Files : g # "runner" => Holds(g)' = Holds(g)
    BY <1>1, <1>6 DEF Holds, Files
  <1>14. Ordered'
    BY <1>6, <1>7, <1>12 DEF Ordered
  <1>15. Paired'
    <2>1. ASSUME NEW g \in Files PROVE Coupled(Holds(g)')
      BY <1>12, <1>13 DEF ProbeInv, Paired
    <2>q. QED BY <2>1 DEF Paired, Coupled
  <1>16. outcome # "running" /\ outcome' # "running"
    BY <1>4 DEF Over
  <1>17. ProbeTypeOK'
    BY <1>4, <1>6, <1>16 DEF ProbeInv, ProbeTypeOK, Over
  <1>18. Named'
    BY <1>4, <1>12, <1>13, <1>16 DEF ProbeInv, Named, Running
  <1>19. Matched'
    BY <1>4, <1>12, <1>13, <1>16 DEF ProbeInv, Matched, Running
  <1>q. QED BY <1>14, <1>15, <1>17, <1>18, <1>19 DEF ProbeInv

----------------------------------------------------------------------------
(* The installed tree *)

\* Upstream's own segments.
Upstream ==
  {"class", "combine", "advance", "select", "logits", "bitmask", "choice", "verdict",
   "stateTest", "receive", "sample", "ifHandler", "broadcast", "propose", "setDraft", "speculate",
   "import", "maskSet", "maskReturn", "recvGuard", "lastAssert", "sendGuard",
   "entry", "encoderReturn", "specSteps", "prefillRun", "prefillSample", "phase", "steps"}

\* The line when the four methods are the p1st, p2nd, p3rd and p4th of the file.
Moved(p1, p2, p3, p4) ==
  [x \in Segs |->
     IF Place[x] < 100 \/ Place[x] > 500 THEN Place[x]
     ELSE IF Place[x] < 200 THEN Place[x] + 100 * (p1 - 1)
     ELSE IF Place[x] < 300 THEN Place[x] + 100 * (p2 - 2)
     ELSE IF Place[x] < 400 THEN Place[x] + 100 * (p3 - 3)
     ELSE Place[x] + 100 * (p4 - 4)]

LEMMA PlacesAre ==
  ASSUME NEW x \in Segs
  PROVE  /\ Place[x] \in Nat /\ Place[x] # 0 /\ Place[x] < 800
         /\ Place[x] # 100 /\ Place[x] # 200 /\ Place[x] # 300 /\ Place[x] # 400
         /\ Place[x] # 500 /\ Place[x] # 600 /\ Place[x] # 700
  BY SMTT(60) DEF Segs, Place

LEMMA MovedIsLine ==
  ASSUME NEW p1 \in 1..4, NEW p2 \in 1..4, NEW p3 \in 1..4, NEW p4 \in 1..4,
         p1 # p2, p1 # p3, p1 # p4, p2 # p3, p2 # p4, p3 # p4
  PROVE  Line(Moved(p1, p2, p3, p4))
  <1>1. PICK r : r = Moved(p1, p2, p3, p4)
    OBVIOUS
  <1>2. PICK P : P = Place /\ \A x \in Segs : P[x] \in Nat /\ P[x] # 0 /\ P[x] < 800
                             /\ P[x] # 100 /\ P[x] # 200 /\ P[x] # 300 /\ P[x] # 400
                             /\ P[x] # 500 /\ P[x] # 600 /\ P[x] # 700
    BY PlacesAre
  <1>3. \A x \in Segs :
          r[x] = IF P[x] < 100 \/ P[x] > 500 THEN P[x]
                 ELSE IF P[x] < 200 THEN P[x] + 100 * (p1 - 1)
                 ELSE IF P[x] < 300 THEN P[x] + 100 * (p2 - 2)
                 ELSE IF P[x] < 400 THEN P[x] + 100 * (p3 - 3)
                 ELSE P[x] + 100 * (p4 - 4)
    BY <1>1, <1>2 DEF Moved
  <1>4. r \in [Segs -> Int]
    <2>1. \A x \in Segs : r[x] \in Int
      BY <1>2, <1>3
    <2>2. r = [x \in Segs |-> r[x]]
      BY <1>1 DEF Moved
    <2>q. QED BY <2>1, <2>2
  <1>5. ASSUME NEW x \in Segs, NEW y \in Segs, r[x] = r[y] PROVE x = y
    <2>1. P[x] = P[y]
      BY <1>2, <1>3, <1>5
    <2>q. QED BY <1>2, <2>1, PlacesDiffer
  <1>6. ASSUME NEW x \in Segs, NEW y \in Segs, P[y] = P[x] + 1 PROVE r[y] = r[x] + 1
    BY <1>2, <1>3, <1>6
  <1>7. ASSUME NEW x \in Segs, P[x] > 2 PROVE r["class"] < r[x]
    <2>1. "class" \in Segs /\ P["class"] = 2
      BY <1>2 DEF Segs, Place
    <2>q. QED BY <1>2, <1>3, <1>7, <2>1
  <1>q. QED BY <1>1, <1>2, <1>4, <1>5, <1>6, <1>7 DEF Line

\* s rises along the line, from lo on and below hi.
Rises(r, s, lo, hi) ==
  /\ s \in Seq(Upstream)
  /\ \A i, j \in DOMAIN s : i < j => r[s[i]] < r[s[j]]
  /\ \A i \in DOMAIN s : lo <= r[s[i]] /\ r[s[i]] < hi

LEMMA RisesOn ==
  ASSUME NEW r, Line(r), NEW s, NEW t, NEW lo \in Int, NEW mid \in Int, NEW hi \in Int,
         lo <= mid, mid <= hi, Rises(r, s, lo, mid), Rises(r, t, mid, hi)
  PROVE  Rises(r, s \o t, lo, hi)
  <1>1. s \in Seq(Upstream) /\ t \in Seq(Upstream)
    BY DEF Rises
  <1>2. PICK u : u = s \o t
    OBVIOUS
  <1>3. /\ u \in Seq(Upstream) /\ Len(u) = Len(s) + Len(t)
        /\ \A k \in 1..(Len(s) + Len(t)) : u[k] = IF k <= Len(s) THEN s[k] ELSE t[k - Len(s)]
    BY <1>1, <1>2, ConcatProperties
  <1>4. /\ Len(s) \in Nat /\ Len(t) \in Nat /\ DOMAIN s = 1..Len(s) /\ DOMAIN t = 1..Len(t)
        /\ DOMAIN u = 1..(Len(s) + Len(t))
    BY <1>1, <1>3
  <1>5. Upstream \subseteq Segs
    BY DEF Upstream, Segs, Place
  <1>6. \A k \in DOMAIN u : r[u[k]] \in Int
    <2>1. \A k \in DOMAIN u : u[k] \in Segs
      BY <1>3, <1>5
    <2>q. QED BY <2>1 DEF Line
  <1>7. ASSUME NEW k \in DOMAIN u
        PROVE  \/ k <= Len(s) /\ k \in DOMAIN s /\ u[k] = s[k]
               \/ Len(s) < k /\ k - Len(s) \in DOMAIN t /\ u[k] = t[k - Len(s)]
    <2>1. k \in 1..(Len(s) + Len(t))
      BY <1>4
    <2>2. CASE k <= Len(s)
      BY <1>3, <1>4, <2>1, <2>2
    <2>3. CASE ~(k <= Len(s))
      <3>1. k - Len(s) \in DOMAIN t /\ Len(s) < k
        BY <1>4, <2>1, <2>3
      <3>2. u[k] = t[k - Len(s)]
        BY <1>3, <2>1, <2>3
      <3>q. QED BY <3>1, <3>2
    <2>q. QED BY <2>2, <2>3
  <1>8. ASSUME NEW i \in DOMAIN u, NEW j \in DOMAIN u, i < j PROVE r[u[i]] < r[u[j]]
    <2>1. CASE j <= Len(s)
      <3>1. i \in DOMAIN s /\ j \in DOMAIN s /\ u[i] = s[i] /\ u[j] = s[j]
        BY <1>4, <1>7, <1>8, <2>1
      <3>q. QED BY <1>8, <3>1 DEF Rises
    <2>2. CASE i <= Len(s) /\ Len(s) < j
      <3>1. i \in DOMAIN s /\ u[i] = s[i]
        BY <1>4, <1>7, <2>2
      <3>2. j - Len(s) \in DOMAIN t /\ u[j] = t[j - Len(s)]
        BY <1>4, <1>7, <2>2
      <3>3. r[u[i]] < mid
        BY <3>1 DEF Rises
      <3>4. mid <= r[u[j]]
        BY <3>2 DEF Rises
      <3>q. QED BY <1>6, <3>3, <3>4
    <2>3. CASE Len(s) < i
      <3>1. PICK g, h : g = i - Len(s) /\ h = j - Len(s)
        OBVIOUS
      <3>2. g \in DOMAIN t /\ h \in DOMAIN t /\ g < h
        BY <1>4, <1>7, <1>8, <2>3, <3>1
      <3>3. u[i] = t[g] /\ u[j] = t[h]
        BY <1>4, <1>7, <1>8, <2>3, <3>1
      <3>q. QED BY <3>2, <3>3 DEF Rises
    <2>q. QED BY <1>4, <1>8, <2>1, <2>2, <2>3
  <1>9. ASSUME NEW k \in DOMAIN u PROVE lo <= r[u[k]] /\ r[u[k]] < hi
    <2>1. CASE k \in DOMAIN s /\ u[k] = s[k]
      <3>1. lo <= r[u[k]] /\ r[u[k]] < mid
        BY <2>1 DEF Rises
      <3>q. QED BY <1>6, <3>1
    <2>2. CASE k - Len(s) \in DOMAIN t /\ u[k] = t[k - Len(s)]
      <3>1. mid <= r[u[k]] /\ r[u[k]] < hi
        BY <2>2 DEF Rises
      <3>q. QED BY <1>6, <3>1
    <2>q. QED BY <1>7, <2>1, <2>2
  <1>10. Rises(r, u, lo, hi)
    BY <1>3, <1>8, <1>9 DEF Rises
  <1>q. QED BY <1>2, <1>10

LEMMA RisesFollows ==
  ASSUME NEW r, NEW s, NEW lo, NEW hi, Rises(r, s, lo, hi)
  PROVE  Follows(r, s) /\ Range(s) \subseteq Upstream
  <1>1. Upstream \subseteq Segs
    BY DEF Upstream, Segs, Place
  <1>2. s \in Seq(Upstream)
    BY DEF Rises
  <1>3. s \in Seq(Segs)
    BY <1>1, <1>2
  <1>4. Range(s) \subseteq Upstream
    BY <1>2 DEF Range
  <1>q. QED BY <1>3, <1>4 DEF Rises, Follows

LEMMA Five ==
  ASSUME NEW S, NEW a \in S, NEW b \in S, NEW c \in S, NEW d \in S, NEW e \in S
  PROVE  /\ <<a, b, c, d, e>> \in Seq(S) /\ DOMAIN <<a, b, c, d, e>> = 1..5
         /\ <<a, b, c, d, e>>[1] = a /\ <<a, b, c, d, e>>[2] = b /\ <<a, b, c, d, e>>[3] = c
         /\ <<a, b, c, d, e>>[4] = d /\ <<a, b, c, d, e>>[5] = e
  OBVIOUS

LEMMA Six ==
  ASSUME NEW S, NEW a \in S, NEW b \in S, NEW c \in S, NEW d \in S, NEW e \in S, NEW f \in S
  PROVE  /\ <<a, b, c, d, e, f>> \in Seq(S) /\ DOMAIN <<a, b, c, d, e, f>> = 1..6
         /\ <<a, b, c, d, e, f>>[1] = a /\ <<a, b, c, d, e, f>>[2] = b /\ <<a, b, c, d, e, f>>[3] = c
         /\ <<a, b, c, d, e, f>>[4] = d /\ <<a, b, c, d, e, f>>[5] = e /\ <<a, b, c, d, e, f>>[6] = f
  OBVIOUS

LEMMA Seven ==
  ASSUME NEW S, NEW a \in S, NEW b \in S, NEW c \in S, NEW d \in S, NEW e \in S, NEW f \in S, NEW g \in S
  PROVE  /\ <<a, b, c, d, e, f, g>> \in Seq(S) /\ DOMAIN <<a, b, c, d, e, f, g>> = 1..7
         /\ <<a, b, c, d, e, f, g>>[1] = a /\ <<a, b, c, d, e, f, g>>[2] = b
         /\ <<a, b, c, d, e, f, g>>[3] = c /\ <<a, b, c, d, e, f, g>>[4] = d
         /\ <<a, b, c, d, e, f, g>>[5] = e /\ <<a, b, c, d, e, f, g>>[6] = f
         /\ <<a, b, c, d, e, f, g>>[7] = g
  OBVIOUS

\* Where the line has upstream's segments.
UpstreamAt(r, p1, p2, p3, p4) ==
  /\ r["class"] = 2 /\ r["combine"] = 2 + 100 * p1 /\ r["advance"] = 2 + 100 * p2
  /\ r["select"] = 1 + 100 * p3 /\ r["logits"] = 3 + 100 * p3 /\ r["bitmask"] = 7 + 100 * p3
  /\ r["choice"] = 9 + 100 * p3 /\ r["verdict"] = 11 + 100 * p3
  /\ r["stateTest"] = 2 + 100 * p4 /\ r["receive"] = 4 + 100 * p4 /\ r["sample"] = 7 + 100 * p4
  /\ r["ifHandler"] = 9 + 100 * p4 /\ r["broadcast"] = 12 + 100 * p4
  /\ r["propose"] = 15 + 100 * p4 /\ r["setDraft"] = 17 + 100 * p4
  /\ r["speculate"] = 502
  /\ r["import"] = 601 /\ r["maskSet"] = 603 /\ r["maskReturn"] = 605 /\ r["recvGuard"] = 606
  /\ r["lastAssert"] = 609 /\ r["sendGuard"] = 611
  /\ r["entry"] = 702 /\ r["encoderReturn"] = 703 /\ r["specSteps"] = 706
  /\ r["prefillRun"] = 708 /\ r["prefillSample"] = 711 /\ r["phase"] = 714 /\ r["steps"] = 715

LEMMA MovedUpstream ==
  ASSUME NEW p1 \in 1..4, NEW p2 \in 1..4, NEW p3 \in 1..4, NEW p4 \in 1..4,
         NEW r, r = Moved(p1, p2, p3, p4)
  PROVE  UpstreamAt(r, p1, p2, p3, p4)
  <1>1. \A x \in Segs :
          r[x] = IF Place[x] < 100 \/ Place[x] > 500 THEN Place[x]
                 ELSE IF Place[x] < 200 THEN Place[x] + 100 * (p1 - 1)
                 ELSE IF Place[x] < 300 THEN Place[x] + 100 * (p2 - 2)
                 ELSE IF Place[x] < 400 THEN Place[x] + 100 * (p3 - 3)
                 ELSE Place[x] + 100 * (p4 - 4)
    BY DEF Moved
  <1>2. Upstream \subseteq Segs
    BY DEF Upstream, Segs, Place
  <1>3. /\ Place["class"] = 2 /\ Place["combine"] = 102 /\ Place["advance"] = 202
        /\ Place["select"] = 301 /\ Place["logits"] = 303 /\ Place["bitmask"] = 307
        /\ Place["choice"] = 309 /\ Place["verdict"] = 311
        /\ Place["stateTest"] = 402 /\ Place["receive"] = 404 /\ Place["sample"] = 407
        /\ Place["ifHandler"] = 409 /\ Place["broadcast"] = 412
        /\ Place["propose"] = 415 /\ Place["setDraft"] = 417
        /\ Place["speculate"] = 502
        /\ Place["import"] = 601 /\ Place["maskSet"] = 603 /\ Place["maskReturn"] = 605
        /\ Place["recvGuard"] = 606 /\ Place["lastAssert"] = 609 /\ Place["sendGuard"] = 611
        /\ Place["entry"] = 702 /\ Place["encoderReturn"] = 703 /\ Place["specSteps"] = 706
        /\ Place["prefillRun"] = 708 /\ Place["prefillSample"] = 711 /\ Place["phase"] = 714
        /\ Place["steps"] = 715
    BY DEF Place
  <1>q. QED BY <1>1, <1>2, <1>3 DEF Upstream, UpstreamAt

\* Every part of an installed file rises along its hundred of the line.
StartsRising(r, p1, p2, p3, p4) ==
  /\ Rises(r, <<"class">>, 0, 100) /\ Rises(r, <<"speculate">>, 500, 600)
  /\ Rises(r, <<"combine">>, 100 * p1, 100 * p1 + 100)
  /\ Rises(r, <<"advance">>, 100 * p2, 100 * p2 + 100)
  /\ Rises(r, <<"select", "logits", "bitmask", "choice", "verdict">>,
           100 * p3, 100 * p3 + 100)
  /\ Rises(r, <<"stateTest", "receive", "sample", "ifHandler", "broadcast", "propose",
                "setDraft">>, 100 * p4, 100 * p4 + 100)
  /\ Rises(r, PPUtils, 600, 700)
  /\ Rises(r, Warmup, 700, 800)

LEMMA InitialRises ==
  ASSUME NEW p1 \in 1..4, NEW p2 \in 1..4, NEW p3 \in 1..4, NEW p4 \in 1..4,
         NEW r, r = Moved(p1, p2, p3, p4)
  PROVE  StartsRising(r, p1, p2, p3, p4)
  <1>0. UpstreamAt(r, p1, p2, p3, p4)
    BY MovedUpstream
  <1>1. /\ \A x \in {"class", "combine", "advance", "select", "logits", "bitmask", "choice", "verdict",
                     "stateTest", "receive", "sample", "ifHandler", "broadcast", "propose",
                     "setDraft", "speculate"} : x \in Upstream
        /\ \A x \in {"import", "maskSet", "maskReturn", "recvGuard", "lastAssert", "sendGuard",
                     "entry", "encoderReturn", "specSteps", "prefillRun", "prefillSample", "phase",
                     "steps"} : x \in Upstream
    BY DEF Upstream
  <1>2. ASSUME NEW x \in Upstream, NEW lo, NEW hi, lo <= r[x], r[x] < hi
        PROVE  Rises(r, <<x>>, lo, hi)
    <2>1. PICK s : s = <<x>>
      OBVIOUS
    <2>2. s \in Seq(Upstream) /\ DOMAIN s = 1..1 /\ s[1] = x
      BY <2>1, One
    <2>3. Rises(r, s, lo, hi)
      BY <1>2, <2>2 DEF Rises
    <2>q. QED BY <2>1, <2>3
  <1>3. Rises(r, <<"class">>, 0, 100) /\ Rises(r, <<"speculate">>, 500, 600)
    BY <1>0, <1>1, <1>2 DEF UpstreamAt
  <1>4. /\ Rises(r, <<"combine">>, 100 * p1, 100 * p1 + 100)
        /\ Rises(r, <<"advance">>, 100 * p2, 100 * p2 + 100)
    BY <1>0, <1>1, <1>2 DEF UpstreamAt
  <1>5. Rises(r, <<"select", "logits", "bitmask", "choice", "verdict">>, 100 * p3, 100 * p3 + 100)
    <2>1. PICK s : s = <<"select", "logits", "bitmask", "choice", "verdict">>
      OBVIOUS
    <2>2. /\ s \in Seq(Upstream) /\ DOMAIN s = 1..5
          /\ s[1] = "select" /\ s[2] = "logits" /\ s[3] = "bitmask" /\ s[4] = "choice" /\ s[5] = "verdict"
      BY <1>1, <2>1, Five
    <2>3. /\ r[s[1]] = 1 + 100 * p3 /\ r[s[2]] = 3 + 100 * p3 /\ r[s[3]] = 7 + 100 * p3
          /\ r[s[4]] = 9 + 100 * p3 /\ r[s[5]] = 11 + 100 * p3
      BY <2>2, <1>0 DEF UpstreamAt
    <2>4. \A i \in 1..5 : i = 1 \/ i = 2 \/ i = 3 \/ i = 4 \/ i = 5
      OBVIOUS
    <2>5. \A i, j \in 1..5 : i < j => r[s[i]] < r[s[j]]
      BY <2>3, <2>4
    <2>6. \A i \in 1..5 : 100 * p3 <= r[s[i]] /\ r[s[i]] < 100 * p3 + 100
      BY <2>3, <2>4
    <2>q. QED BY <2>1, <2>2, <2>5, <2>6 DEF Rises
  <1>6. Rises(r, <<"stateTest", "receive", "sample", "ifHandler", "broadcast", "propose",
                   "setDraft">>, 100 * p4, 100 * p4 + 100)
    <2>1. PICK s : s = <<"stateTest", "receive", "sample", "ifHandler", "broadcast", "propose", "setDraft">>
      OBVIOUS
    <2>2. /\ s \in Seq(Upstream) /\ DOMAIN s = 1..7
          /\ s[1] = "stateTest" /\ s[2] = "receive" /\ s[3] = "sample" /\ s[4] = "ifHandler"
          /\ s[5] = "broadcast" /\ s[6] = "propose" /\ s[7] = "setDraft"
      BY <1>1, <2>1, Seven
    <2>3. /\ r[s[1]] = 2 + 100 * p4 /\ r[s[2]] = 4 + 100 * p4 /\ r[s[3]] = 7 + 100 * p4
          /\ r[s[4]] = 9 + 100 * p4 /\ r[s[5]] = 12 + 100 * p4 /\ r[s[6]] = 15 + 100 * p4
          /\ r[s[7]] = 17 + 100 * p4
      BY <2>2, <1>0 DEF UpstreamAt
    <2>4. \A i \in 1..7 : i = 1 \/ i = 2 \/ i = 3 \/ i = 4 \/ i = 5 \/ i = 6 \/ i = 7
      OBVIOUS
    <2>5. \A i, j \in 1..7 : i < j => r[s[i]] < r[s[j]]
      BY <2>3, <2>4
    <2>6. \A i \in 1..7 : 100 * p4 <= r[s[i]] /\ r[s[i]] < 100 * p4 + 100
      BY <2>3, <2>4
    <2>q. QED BY <2>1, <2>2, <2>5, <2>6 DEF Rises
  <1>7. Rises(r, PPUtils, 600, 700)
    <2>1. PICK s : s = PPUtils
      OBVIOUS
    <2>2. /\ s \in Seq(Upstream) /\ DOMAIN s = 1..6
          /\ s[1] = "import" /\ s[2] = "maskSet" /\ s[3] = "maskReturn" /\ s[4] = "recvGuard"
          /\ s[5] = "lastAssert" /\ s[6] = "sendGuard"
      BY <1>1, <2>1, Six DEF PPUtils
    <2>3. /\ r[s[1]] = 601 /\ r[s[2]] = 603 /\ r[s[3]] = 605 /\ r[s[4]] = 606
          /\ r[s[5]] = 609 /\ r[s[6]] = 611
      BY <2>2, <1>0 DEF UpstreamAt
    <2>4. \A i \in 1..6 : i = 1 \/ i = 2 \/ i = 3 \/ i = 4 \/ i = 5 \/ i = 6
      OBVIOUS
    <2>5. \A i, j \in 1..6 : i < j => r[s[i]] < r[s[j]]
      BY <2>3, <2>4
    <2>6. \A i \in 1..6 : 600 <= r[s[i]] /\ r[s[i]] < 700
      BY <2>3, <2>4
    <2>q. QED BY <2>1, <2>2, <2>5, <2>6 DEF Rises
  <1>8. Rises(r, Warmup, 700, 800)
    <2>1. PICK s : s = Warmup
      OBVIOUS
    <2>2. /\ s \in Seq(Upstream) /\ DOMAIN s = 1..7
          /\ s[1] = "entry" /\ s[2] = "encoderReturn" /\ s[3] = "specSteps" /\ s[4] = "prefillRun"
          /\ s[5] = "prefillSample" /\ s[6] = "phase" /\ s[7] = "steps"
      BY <1>1, <2>1, Seven DEF Warmup
    <2>3. /\ r[s[1]] = 702 /\ r[s[2]] = 703 /\ r[s[3]] = 706 /\ r[s[4]] = 708
          /\ r[s[5]] = 711 /\ r[s[6]] = 714 /\ r[s[7]] = 715
      BY <2>2, <1>0 DEF UpstreamAt
    <2>4. \A i \in 1..7 : i = 1 \/ i = 2 \/ i = 3 \/ i = 4 \/ i = 5 \/ i = 6 \/ i = 7
      OBVIOUS
    <2>5. \A i, j \in 1..7 : i < j => r[s[i]] < r[s[j]]
      BY <2>3, <2>4
    <2>6. \A i \in 1..7 : 700 <= r[s[i]] /\ r[s[i]] < 800
      BY <2>3, <2>4
    <2>q. QED BY <2>1, <2>2, <2>5, <2>6 DEF Rises
  <1>q. QED BY <1>3, <1>4, <1>5, <1>6, <1>7, <1>8 DEF StartsRising

\* In whatever order the methods come, there is a line the runner follows.
LEMMA OrdersFollow ==
  ASSUME NEW order \in [1..4 -> Methods],
         \A i, j \in 1..4 : order[i] = order[j] => i = j
  PROVE  \E r : /\ Line(r)
                /\ Follows(r, Runner(order)) /\ Follows(r, PPUtils) /\ Follows(r, Warmup)
                /\ Range(Runner(order)) \subseteq Upstream
                /\ Range(PPUtils) \subseteq Upstream
                /\ Range(Warmup) \subseteq Upstream
  <1>1. PICK m1, m2, m3, m4 :
          /\ m1 = <<"combine">> /\ m2 = <<"advance">>
          /\ m3 = <<"select", "logits", "bitmask", "choice", "verdict">>
          /\ m4 = <<"stateTest", "receive", "sample", "ifHandler", "broadcast", "propose", "setDraft">>
    OBVIOUS
  <1>2. m1 # m2 /\ m1 # m3 /\ m1 # m4 /\ m2 # m3 /\ m2 # m4 /\ m3 # m4
    <2>1. m1[1] = "combine" /\ m2[1] = "advance" /\ m3[1] = "select" /\ m4[1] = "stateTest"
      BY <1>1
    <2>q. QED BY <2>1
  <1>3. Methods = {m1, m2, m3, m4}
    BY <1>1 DEF Methods
  <1>4. \A m \in {m1, m2, m3, m4} : \E p \in 1..4 : order[p] = m
    <2>1. PICK o1, o2, o3, o4 : o1 = order[1] /\ o2 = order[2] /\ o3 = order[3] /\ o4 = order[4]
      OBVIOUS
    <2>2. {o1, o2, o3, o4} \subseteq {m1, m2, m3, m4}
      BY <1>3, <2>1
    <2>3. o1 # o2 /\ o1 # o3 /\ o1 # o4 /\ o2 # o3 /\ o2 # o4 /\ o3 # o4
      BY <2>1
    <2>4. \A m \in {m1, m2, m3, m4} : m = o1 \/ m = o2 \/ m = o3 \/ m = o4
      BY <2>2, <2>3
    <2>5. 1 \in 1..4 /\ 2 \in 1..4 /\ 3 \in 1..4 /\ 4 \in 1..4
      OBVIOUS
    <2>q. QED BY <2>1, <2>4, <2>5
  <1>5. PICK p1 \in 1..4 : order[p1] = m1
    BY <1>4
  <1>6. PICK p2 \in 1..4 : order[p2] = m2
    BY <1>4
  <1>7. PICK p3 \in 1..4 : order[p3] = m3
    BY <1>4
  <1>8. PICK p4 \in 1..4 : order[p4] = m4
    BY <1>4
  <1>9. p1 # p2 /\ p1 # p3 /\ p1 # p4 /\ p2 # p3 /\ p2 # p4 /\ p3 # p4
    BY <1>2, <1>5, <1>6, <1>7, <1>8
  <1>10. PICK r : r = Moved(p1, p2, p3, p4)
    OBVIOUS
  <1>11. Line(r)
    BY <1>9, <1>10, MovedIsLine
  <1>12. /\ Rises(r, <<"class">>, 0, 100) /\ Rises(r, <<"speculate">>, 500, 600)
         /\ Rises(r, m1, 100 * p1, 100 * p1 + 100)
         /\ Rises(r, m2, 100 * p2, 100 * p2 + 100)
         /\ Rises(r, m3, 100 * p3, 100 * p3 + 100)
         /\ Rises(r, m4, 100 * p4, 100 * p4 + 100)
         /\ Rises(r, PPUtils, 600, 700)
         /\ Rises(r, Warmup, 700, 800)
    <2>1. StartsRising(r, p1, p2, p3, p4)
      BY <1>10, InitialRises
    <2>q. QED BY <1>1, <2>1 DEF StartsRising
  <1>13. ASSUME NEW i \in 1..4 PROVE Rises(r, order[i], 100 * i, 100 * i + 100)
    <2>1. i = p1 \/ i = p2 \/ i = p3 \/ i = p4
      BY <1>9
    <2>q. QED BY <1>5, <1>6, <1>7, <1>8, <1>12, <2>1
  <1>14. /\ Rises(r, order[1], 100, 200) /\ Rises(r, order[2], 200, 300)
         /\ Rises(r, order[3], 300, 400) /\ Rises(r, order[4], 400, 500)
    <2>1. /\ Rises(r, order[1], 100 * 1, 100 * 1 + 100) /\ Rises(r, order[2], 100 * 2, 100 * 2 + 100)
          /\ Rises(r, order[3], 100 * 3, 100 * 3 + 100) /\ Rises(r, order[4], 100 * 4, 100 * 4 + 100)
      BY <1>13, 1 \in 1..4, 2 \in 1..4, 3 \in 1..4, 4 \in 1..4
    <2>2. /\ 100 * 1 = 100 /\ 100 * 2 = 200 /\ 100 * 3 = 300 /\ 100 * 4 = 400
          /\ 100 * 1 + 100 = 200 /\ 100 * 2 + 100 = 300 /\ 100 * 3 + 100 = 400 /\ 100 * 4 + 100 = 500
      OBVIOUS
    <2>q. QED BY <2>1, <2>2
  <1>15. Rises(r, Runner(order), 0, 600)
    <2>1. PICK c, d : c = <<"class">> /\ d = <<"speculate">>
      OBVIOUS
    <2>2. Rises(r, c \o order[1], 0, 200)
      <3>1. Rises(r, c, 0, 100)
        BY <1>12, <2>1
      <3>q. QED BY <1>11, <1>14, <3>1, RisesOn
    <2>3. Rises(r, c \o order[1] \o order[2], 0, 300)
      BY <1>11, <1>14, <2>2, RisesOn
    <2>4. Rises(r, c \o order[1] \o order[2] \o order[3], 0, 400)
      BY <1>11, <1>14, <2>3, RisesOn
    <2>5. Rises(r, c \o order[1] \o order[2] \o order[3] \o order[4], 0, 500)
      BY <1>11, <1>14, <2>4, RisesOn
    <2>6. Rises(r, c \o order[1] \o order[2] \o order[3] \o order[4] \o d, 0, 600)
      <3>1. Rises(r, d, 500, 600)
        BY <1>12, <2>1
      <3>q. QED BY <1>11, <2>5, <3>1, RisesOn
    <2>q. QED BY <2>1, <2>6 DEF Runner
  <1>q. QED BY <1>11, <1>12, <1>15, RisesFollows

LEMMA InitKeeps ==
  ASSUME Init
  PROVE  ProbeInv
  <1>1. PICK order \in [1..4 -> Methods] :
          /\ \A i, j \in 1..4 : order[i] = order[j] => i = j
          /\ text = [f \in {"runner", "pp_utils", "warmup"} |->
                       CASE f = "runner" -> Runner(order)
                         [] f = "pp_utils" -> PPUtils
                         [] f = "warmup" -> Warmup]
    BY DEF Init
  <1>2. /\ DOMAIN text = Files /\ text["runner"] = Runner(order) /\ text["pp_utils"] = PPUtils
        /\ text["warmup"] = Warmup
    BY <1>1 DEF Files
  <1>3. PICK r : /\ Line(r)
                 /\ Follows(r, Runner(order)) /\ Follows(r, PPUtils) /\ Follows(r, Warmup)
                 /\ Range(Runner(order)) \subseteq Upstream
                 /\ Range(PPUtils) \subseteq Upstream
                 /\ Range(Warmup) \subseteq Upstream
    BY <1>1, OrdersFollow
  <1>4. Ordered
    BY <1>2, <1>3 DEF Ordered, Files
  <1>5. \A f \in Files : Holds(f) \subseteq Upstream
    BY <1>2, <1>3 DEF Holds, Files
  <1>6. /\ \A p \in Pairs : p[1] \notin Upstream /\ p[2] \notin Upstream
        /\ "S3" \notin Upstream
    BY DEF Pairs, Upstream
  <1>7. Paired
    BY <1>5, <1>6 DEF Paired, Coupled
  <1>8. /\ outcome = "none" /\ block = 1 /\ missed = FALSE /\ clean = TRUE
    BY DEF Init
  <1>9. ProbeTypeOK
    <2>1. clean \in BOOLEAN /\ missed \in BOOLEAN
      BY <1>8, Zenon
    <2>2. block \in Nat \ {0} /\ Over
      BY <1>8 DEF Over
    <2>q. QED BY <1>2, <2>1, <2>2 DEF ProbeTypeOK
  <1>10. Holds("runner") \cap HeadSteps = {} /\ Holds("warmup") \cap FileSteps = {}
    <2>1. Upstream \cap HeadSteps = {} /\ Upstream \cap FileSteps = {}
      BY DEF Upstream, HeadSteps, FileSteps
    <2>q. QED BY <1>5, <2>1 DEF Files
  <1>11. /\ "deferred" \notin Holds("runner") /\ "sendBelow" \notin Holds("runner")
         /\ "recvSlack" \notin Holds("pp_utils") /\ "sendSlack" \notin Holds("pp_utils")
    <2>1. /\ "deferred" \notin Upstream /\ "sendBelow" \notin Upstream
          /\ "recvSlack" \notin Upstream /\ "sendSlack" \notin Upstream
      BY DEF Upstream
    <2>q. QED BY <1>5, <2>1 DEF Files
  <1>12. Named
    BY <1>8, <1>10 DEF Named, Running
  <1>13. Matched
    BY <1>8, <1>11 DEF Matched, Running
  <1>q. QED BY <1>4, <1>7, <1>9, <1>12, <1>13 DEF ProbeInv

----------------------------------------------------------------------------
(* The theorems *)

LEMMA NextKeeps ==
  ASSUME ProbeInv, [Next]_vars
  PROVE  ProbeInv'
  <1>1. ASSUME NEW t \in Tools, Start(t) PROVE ProbeInv'
    BY <1>1, StartKeeps
  <1>2. ASSUME NEW t \in Tools, Remove(t) PROVE ProbeInv'
    BY <1>2, RemoveKeeps
  <1>3. CASE Skip
    BY <1>3, SkipKeeps
  <1>4. CASE Insert
    BY <1>4, InsertKeeps
  <1>5. CASE Misses
    BY <1>5, MissesKeeps
  <1>6. CASE Exit
    BY <1>6, ExitKeeps
  <1>7. CASE Kill
    BY <1>7, KillKeeps
  <1>8. CASE UNCHANGED vars
    BY <1>8, StutterKeeps
  <1>q. QED BY <1>1, <1>2, <1>3, <1>4, <1>5, <1>6, <1>7, <1>8 DEF Next

\* The inductive invariant of the scripts of src/tools on one tree: every file is
\* a stretch of one line, texts around an anchor come and go together, and what
\* a run has behind it is there.
THEOREM ProbeAlways == Spec => []ProbeInv
  <1>1. Init => ProbeInv
    BY InitKeeps
  <1>2. ProbeInv /\ [Next]_vars => ProbeInv'
    BY NextKeeps
  <1>q. QED BY <1>1, <1>2, PTL DEF Spec

\* Whichever scripts of src/tools are run, killed, removed and run again, in
\* whatever order, none inserts a text a second time; but for the two whose
\* test looks for what they never write.
THEOREM EachOnceHolds == Spec => []EachOnce
  <1>1. ASSUME ProbeInv PROVE EachOnce
    <2>1. PICK r : Line(r) /\ \A f \in Files : Follows(r, text[f])
      BY <1>1 DEF ProbeInv, Ordered
    <2>2. ASSUME NEW f \in DOMAIN text, NEW i \in DOMAIN text[f], NEW j \in DOMAIN text[f],
                 text[f][i] = text[f][j], text[f][i] \notin {"S1", "ppProbe"}
          PROVE  i = j
      <3>1. PICK s : s = text[f]
        OBVIOUS
      <3>2. Follows(r, s)
        BY <1>1, <2>1, <3>1 DEF ProbeInv, ProbeTypeOK
      <3>3. /\ i \in DOMAIN s /\ j \in DOMAIN s /\ s[i] = s[j] /\ s[i] \notin Repeated
            /\ DOMAIN s \subseteq Nat /\ s[i] \in Segs
        BY <2>2, <3>1, <3>2 DEF Repeated, Follows
      <3>4. r[s[i]] \in Int
        BY <2>1, <3>3 DEF Line
      <3>5. ~(i < j)
        BY <3>2, <3>3, <3>4 DEF Follows
      <3>6. ~(j < i)
        BY <3>2, <3>3, <3>4 DEF Follows
      <3>q. QED BY <3>3, <3>5, <3>6
    <2>q. QED BY <2>2 DEF EachOnce
  <1>q. QED BY <1>1, ProbeAlways, PTL

\* While every run has reported success, whatever a probe refers to is there:
\* the helper of warmup_pp_probe.py, its mark, and both halves of the relay of
\* specdec_pp_relay.py with the same slack on both sides.
THEOREM NothingDanglesHolds == Spec => []NothingDangles
  <1>1. ASSUME ProbeInv PROVE NothingDangles
    <2>1. DOMAIN text = Files
      BY <1>1 DEF ProbeInv, ProbeTypeOK
    <2>2. \A f \in Files : \A x : Has(f, x) <=> x \in Holds(f)
      BY DEF Has, Holds, Range
    <2>3. "runner" \in Files /\ "pp_utils" \in Files /\ "warmup" \in Files
      BY DEF Files
    <2>4. ASSUME Over, clean
          PROVE  /\ Holds("runner") \cap HeadSteps # {} => "helper" \in Holds("runner")
                 /\ Holds("warmup") \cap FileSteps # {} => "wmMark" \in Holds("warmup")
                 /\ "deferred" \in Holds("runner") <=> "sendBelow" \in Holds("runner")
                 /\ "recvSlack" \in Holds("pp_utils") <=> "sendSlack" \in Holds("pp_utils")
      BY <1>1, <2>4 DEF ProbeInv, Named, Matched, Running, Over
    <2>5. ASSUME Over, clean, NEW x \in {"P8a", "P9a", "P10a", "P12", "P13a", "P14", "P15"},
                 Has("runner", x)
          PROVE  Has("runner", "helper")
      BY <2>2, <2>3, <2>4, <2>5 DEF HeadSteps
    <2>6. ASSUME Over, clean, NEW x \in {"P4", "P5", "P6a", "P7a"}, Has("warmup", x)
          PROVE  Has("warmup", "wmMark")
      BY <2>2, <2>3, <2>4, <2>6 DEF FileSteps
    <2>7. ASSUME Over, clean
          PROVE  /\ Has("runner", "deferred") <=> Has("runner", "sendBelow")
                 /\ Has("pp_utils", "recvSlack") <=> Has("pp_utils", "sendSlack")
      BY <2>2, <2>3, <2>4, <2>7
    <2>q. QED BY <2>5, <2>6, <2>7 DEF NothingDangles
  <1>q. QED BY <1>1, ProbeAlways, PTL
=============================================================================

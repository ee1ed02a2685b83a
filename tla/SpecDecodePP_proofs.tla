------------------------ MODULE SpecDecodePP_proofs ------------------------
(***************************************************************************)
(* Theorems about PPScheduler and, after them, about SpecDecodePP.         *)
(*                                                                         *)
(* No variable of the model remembers the batches that have gone through   *)
(* every queue, yet the ring of a rank, the broadcasts on their way and    *)
(* the rows of the request states are only related through the batches     *)
(* they belong to.  Both invariants therefore begin with \E H, ...: there  *)
(* is a history that explains the state, and each step extends it.         *)
(*                                                                         *)
(*   H[k]     the k-th batch scheduled, for k in 1..S                      *)
(*   R        how many of them have been reported                          *)
(*   E[r]     how many rank r has executed                                 *)
(*   N        how many broadcasts have been carried out                    *)
(*   A[k][q]  the last rank's row of q after batch k, for k in 1..E[Last]  *)
(*                                                                         *)
(* Aligned, the counting layer, holds with any patches: every queue is a   *)
(* stretch of H, the ring of a rank the last PP batches it executed, and   *)
(* the relay of a rank the broadcasts of the batches since its oldest      *)
(* slot.  It gives RelayPaired and the refinement of PPScheduler.          *)
(*                                                                         *)
(* Served, the semantic layer, needs the cadence.  Two steps of a request  *)
(* are then PP batches apart, so the slot of a step is due exactly when a  *)
(* rank reads the row again: a rank that is not the last holds a row that  *)
(* is booked for less than PP batches and settled from then on, and every  *)
(* input, broadcast and result follows from the last rank's rows.          *)
(***************************************************************************)
EXTENDS SpecDecodePP, FiniteSetTheorems, FunctionTheorems, SequenceTheorems, WellFoundedInduction, TLAPS

----------------------------------------------------------------------------
(* The scheduler on its own (SchedSpec, with the cadence): no request is   *)
(* ever scheduled on top of a step that has not been reported, so the      *)
(* malformed steps the anchor fix and the in-flight gate guard against     *)
(* cannot be planned.  While an entry of a request is still in the queue   *)
(* with j younger batches behind it, its countdown is at least PP - j.     *)
(* The queue holds at most PP batches, so the countdown reaches the value  *)
(* at which the request is eligible only after the entry has left.         *)

\* The steps a request can have in the queue: a chunk of its prompt, or its last
\* sampled token and the drafts that hang off it.
StepShape(q, w) ==
  \/ w.pos >= PromptLen /\ w.n = w.d + 1 /\ w.pos = ntok[q] - 1
  \/ w.pos < PromptLen /\ w.d = 0 /\ w.pos + w.n <= PromptLen /\ ntok[q] = PromptLen

\* Where a request stands when all its steps have been reported.
RestShape(q) ==
  \/ ncomp[q] >= PromptLen /\ ncomp[q] = ntok[q] - 1
  \/ ncomp[q] < PromptLen /\ ntok[q] = PromptLen /\ spec[q] = 0

NoLiveStep(q) == \A i \in 1..Len(queue) : ~IsLive(q, queue[i][q])

EntryInv ==
  \A i \in 1..Len(queue), q \in Reqs :
    LET w == queue[i][q]
    IN  /\ w.gen <= gen[q]
        /\ w.d > 0 => w.d < w.n
        /\ w.n > 0 /\ w.pos >= PromptLen => w.n = w.d + 1

Spacing ==
  PP > 1 => \A i \in 1..Len(queue), q \in Reqs :
              IsLive(q, queue[i][q]) => wait[q] >= PP - (Len(queue) - i)

OneLive ==
  \A i, j \in 1..Len(queue), q \in Reqs :
    IsLive(q, queue[i][q]) /\ IsLive(q, queue[j][q]) => i = j

Booked ==
  \A i \in 1..Len(queue), q \in Reqs :
    LET w == queue[i][q]
    IN  IsLive(q, w) => /\ inflight[q] = w.n
                        /\ ncomp[q] = w.pos + w.n
                        /\ StepShape(q, w)

AtRest ==
  \A q \in Reqs : status[q] = "running" =>
    /\ ntok[q] >= PromptLen /\ ntok[q] < MaxLen
    /\ spec[q] > 0 => ncomp[q] >= PromptLen
    /\ NoLiveStep(q) => inflight[q] = 0 /\ RestShape(q)

IInv == SchedTypeOK /\ EntryInv /\ Spacing /\ OneLive /\ Booked /\ AtRest

----------------------------------------------------------------------------

\* A step the cadence lets the scheduler plan: the request has nothing in the
\* queue, so it is planned against a position that is confirmed.
LEMMA PlannedAtRest ==
  ASSUME IInv, "cadence" \in Patches, Len(queue) < PP,
         NEW q \in Reqs, Schedulable(q)
  PROVE  /\ NoLiveStep(q)
         /\ inflight[q] = 0
         /\ RestShape(q)
<1> USE PPSchedulerAssumption DEF IInv, SchedTypeOK
<1>1. ASSUME NEW i \in 1..Len(queue), IsLive(q, queue[i][q])
      PROVE  FALSE
  <2>1. PP > 1
    BY Len(queue) \in Nat
  <2>2. wait[q] >= PP - (Len(queue) - i)
    BY <1>1, <2>1 DEF Spacing
  <2>3. wait[q] <= 1
    BY DEF Schedulable, Eligible
  <2>4. QED
    BY <2>2, <2>3, Len(queue) \in Nat, wait[q] \in Nat
<1>2. NoLiveStep(q)
  BY <1>1 DEF NoLiveStep
<1>3. QED
  BY <1>2 DEF AtRest, Schedulable

\* The entry such a step puts into the queue.
LEMMA PlannedShape ==
  ASSUME IInv, "cadence" \in Patches, Len(queue) < PP,
         NEW q \in Reqs, Schedulable(q)
  PROVE  /\ Work(q) \in BatchEntry
         /\ Work(q).n > 0
         /\ Work(q).gen = gen[q]
         /\ Work(q).pos = ncomp[q]
         /\ StepShape(q, Work(q))
         /\ Work(q).d < Work(q).n
<1> USE PPSchedulerAssumption
<1> DEFINE n == NumScheduled(q)
           d == NumDrafts(q)
<1>1. /\ ntok[q] \in Nat /\ ncomp[q] \in Nat /\ spec[q] \in Nat /\ gen[q] \in Nat
      /\ spec[q] \in {0, K}
  BY DEF IInv, SchedTypeOK
<1>2. inflight[q] = 0 /\ RestShape(q)
  BY PlannedAtRest
<1>3. Work(q) = [n |-> n, d |-> d, pos |-> ncomp[q], gen |-> gen[q]]
  BY DEF Work
<1>4. ntok[q] + spec[q] - ncomp[q] > 0
  BY DEF Schedulable, NumNewTokens
<1>5. /\ n \in Nat /\ n > 0
      /\ n <= ntok[q] + spec[q] - ncomp[q]
  BY <1>1, <1>4 DEF NumScheduled, NumNewTokens, MinOf
<1>6. SpecAfterGate(q) = spec[q]
  BY <1>2 DEF SpecAfterGate
<1>7. CASE ncomp[q] < PromptLen
  <2>1. spec[q] = 0 /\ ntok[q] = PromptLen
    BY <1>1, <1>2, <1>7 DEF RestShape
  <2>2. d = 0
    BY <2>1, <1>6 DEF NumDrafts
  <2>3. ncomp[q] + n <= PromptLen
    BY <1>1, <1>5, <2>1
  <2> HIDE DEF n, d
  <2>4. QED
    BY <1>1, <1>3, <1>5, <1>7, <2>1, <2>2, <2>3 DEF BatchEntry, StepShape
<1>8. CASE ncomp[q] >= PromptLen
  <2>1. ncomp[q] = ntok[q] - 1
    BY <1>1, <1>2, <1>8 DEF RestShape
  <2>2. ClippedSpec(q) = n - 1
    BY <1>1, <1>5, <2>1 DEF ClippedSpec, UnclippedSpec, MinOf
  <2>3. CASE spec[q] = 0
    <3>1. n = 1
      BY <1>1, <1>5, <2>1, <2>3
    <3>2. d = 0
      BY <1>6, <2>3 DEF NumDrafts
    <3> HIDE DEF n, d
    <3>3. QED
      BY <1>1, <1>3, <1>5, <1>8, <2>1, <3>1, <3>2 DEF BatchEntry, StepShape
  <2>4. CASE spec[q] = K
    <3>1. d = n - 1
      BY <1>5, <1>6, <2>2, <2>4 DEF NumDrafts, MaxOf
    <3> HIDE DEF n, d
    <3>2. QED
      BY <1>1, <1>3, <1>5, <1>8, <2>1, <3>1 DEF BatchEntry, StepShape
  <2>5. QED
    BY <1>1, <2>3, <2>4
<1>9. QED
  BY <1>1, <1>7, <1>8

----------------------------------------------------------------------------

LEMMA InitInv == SchedInit => IInv
<1> USE PPSchedulerAssumption
<1> SUFFICES ASSUME SchedInit
             PROVE  IInv
  OBVIOUS
<1>1. SchedTypeOK
  BY DEF SchedInit, SchedTypeOK
<1>2. Len(queue) = 0
  BY DEF SchedInit
<1>3. EntryInv /\ Spacing /\ OneLive /\ Booked
  BY <1>2 DEF EntryInv, Spacing, OneLive, Booked
<1>4. AtRest
  BY DEF AtRest, SchedInit
<1>5. QED
  BY <1>1, <1>3, <1>4 DEF IInv

LEMMA ScheduleInv ==
  ASSUME IInv, "cadence" \in Patches, Schedule
  PROVE  IInv'
<1> USE PPSchedulerAssumption
<1>1. PICK L \in Nat : L = Len(queue) /\ L < PP
  BY DEF Schedule, IInv, SchedTypeOK
<1>2. ASSUME NEW q \in Reqs
      PROVE  Work(q) \in BatchEntry
  <2>1. CASE Schedulable(q)
    BY <1>1, <2>1, PlannedShape
  <2>2. CASE ~Schedulable(q)
    BY <2>2 DEF Work, NoWork, BatchEntry
  <2>3. QED
    BY <2>1, <2>2
<1>3. /\ Len(queue') = L + 1
      /\ \A i \in 1..L, q \in Reqs : queue'[i][q] = queue[i][q]
      /\ \A q \in Reqs : queue'[L + 1][q] = Work(q)
      /\ queue' \in Seq([Reqs -> BatchEntry])
  <2>1. [q \in Reqs |-> Work(q)] \in [Reqs -> BatchEntry]
    BY <1>2
  <2>2. queue \in Seq([Reqs -> BatchEntry])
    BY DEF IInv, SchedTypeOK
  <2>3. queue' = Append(queue, [q \in Reqs |-> Work(q)])
    BY DEF Schedule
  <2>4. QED
    BY <2>1, <2>2, <2>3, <1>1
<1>4. ASSUME NEW q \in Reqs, Schedulable(q)
      PROVE  /\ NoLiveStep(q) /\ inflight[q] = 0 /\ RestShape(q)
             /\ Work(q) \in BatchEntry /\ Work(q).n > 0
             /\ Work(q).gen = gen[q] /\ Work(q).pos = ncomp[q]
             /\ StepShape(q, Work(q)) /\ Work(q).d < Work(q).n
  BY <1>1, <1>4, PlannedAtRest, PlannedShape
<1>5. ASSUME NEW q \in Reqs, ~Schedulable(q)
      PROVE  Work(q) = NoWork
  BY <1>5 DEF Work
<1>6. /\ status' = status /\ gen' = gen /\ ntok' = ntok
      /\ \A q \in Reqs : ncomp'[q] = ncomp[q] + Work(q).n
      /\ \A q \in Reqs : inflight'[q] = inflight[q] + Work(q).n
      /\ \A q \in Reqs : spec'[q] = IF Schedulable(q) THEN 0 ELSE spec[q]
      /\ \A q \in Reqs : wait'[q] = IF Schedulable(q) THEN NextEligible ELSE Countdown(q)
  BY DEF Schedule, WaitAfter
<1>7. SchedTypeOK'
  <2>1. ncomp' \in [Reqs -> Nat] /\ inflight' \in [Reqs -> Nat]
    <3>1. \A q \in Reqs : Work(q).n \in Nat
      BY <1>2 DEF BatchEntry
    <3>2. \A q \in Reqs : ncomp[q] \in Nat /\ inflight[q] \in Nat
      BY DEF IInv, SchedTypeOK
    <3>3. QED
      BY <3>1, <3>2 DEF Schedule
  <2>2. spec' \in [Reqs -> {0, K}]
    BY DEF Schedule, IInv, SchedTypeOK
  <2>3. wait' \in [Reqs -> 0..PP]
    <3>1. \A q \in Reqs : wait[q] \in 0..PP
      BY DEF IInv, SchedTypeOK
    <3>2. NextEligible \in 0..PP /\ \A q \in Reqs : Countdown(q) \in 0..PP
      BY <3>1 DEF NextEligible, Countdown, MaxOf
    <3>3. QED
      BY <3>2 DEF Schedule, WaitAfter
  <2>4. QED
    BY <1>1, <1>3, <1>6, <2>1, <2>2, <2>3 DEF IInv, SchedTypeOK
<1>8. EntryInv'
  <2> SUFFICES ASSUME NEW i \in 1..(L + 1), NEW q \in Reqs
               PROVE  LET w == queue'[i][q]
                      IN  /\ w.gen <= gen[q]
                          /\ w.d > 0 => w.d < w.n
                          /\ w.n > 0 /\ w.pos >= PromptLen => w.n = w.d + 1
    BY <1>3, <1>6 DEF EntryInv
  <2>1. CASE i \in 1..L
    BY <1>1, <2>1, <1>3 DEF IInv, EntryInv
  <2>2. CASE i = L + 1 /\ Schedulable(q)
    <3>1. queue'[i][q] = Work(q)
      BY <1>3, <2>2
    <3>2. gen[q] \in Nat
      BY DEF IInv, SchedTypeOK
    <3>3. QED
      BY <1>4, <2>2, <3>1, <3>2 DEF StepShape, BatchEntry
  <2>3. CASE i = L + 1 /\ ~Schedulable(q)
    BY <1>3, <1>5, <2>3 DEF NoWork, IInv, SchedTypeOK
  <2>4. QED
    BY <1>1, <2>1, <2>2, <2>3
<1>9. ASSUME NEW q \in Reqs, NEW i \in 1..(L + 1), IsLive(q, queue[i][q])'
      PROVE  \/ i \in 1..L /\ IsLive(q, queue[i][q]) /\ ~Schedulable(q)
                /\ queue'[i][q] = queue[i][q]
             \/ i = L + 1 /\ Schedulable(q) /\ queue'[i][q] = Work(q)
  <2>1. CASE i \in 1..L
    <3>1. IsLive(q, queue[i][q])
      BY <1>3, <1>6, <1>9, <2>1 DEF IsLive
    <3>2. ~Schedulable(q)
      BY <1>1, <1>4, <2>1, <3>1 DEF NoLiveStep
    <3>3. QED
      BY <1>3, <2>1, <3>1, <3>2
  <2>2. CASE i = L + 1
    BY <1>3, <1>5, <1>9, <2>2 DEF IsLive, NoWork
  <2>3. QED
    BY <1>1, <2>1, <2>2
<1>10. Spacing'
  <2> SUFFICES ASSUME PP > 1, NEW i \in 1..(L + 1), NEW q \in Reqs,
                      IsLive(q, queue[i][q])'
               PROVE  wait'[q] >= PP - (L + 1 - i)
    BY <1>3 DEF Spacing
  <2>1. CASE i \in 1..L /\ IsLive(q, queue[i][q]) /\ ~Schedulable(q)
    <3>1. wait[q] >= PP - (L - i)
      BY <1>1, <2>1 DEF IInv, Spacing
    <3>2. wait'[q] = Countdown(q) /\ wait[q] \in Nat
      BY <1>6, <2>1 DEF IInv, SchedTypeOK
    <3>3. QED
      BY <1>1, <2>1, <3>1, <3>2 DEF Countdown, MaxOf
  <2>2. CASE i = L + 1 /\ Schedulable(q)
    BY <1>1, <1>6, <2>2 DEF NextEligible
  <2>3. QED
    BY <1>9, <2>1, <2>2
<1>11. OneLive'
  <2> SUFFICES ASSUME NEW i \in 1..(L + 1), NEW j \in 1..(L + 1), NEW q \in Reqs,
                      IsLive(q, queue[i][q])', IsLive(q, queue[j][q])'
               PROVE  i = j
    BY <1>3 DEF OneLive
  <2>1. CASE Schedulable(q)
    BY <1>9, <2>1
  <2>2. CASE ~Schedulable(q)
    BY <1>1, <1>9, <2>2 DEF IInv, OneLive
  <2>3. QED
    BY <2>1, <2>2
<1>12. Booked'
  <2> SUFFICES ASSUME NEW i \in 1..(L + 1), NEW q \in Reqs, IsLive(q, queue[i][q])'
               PROVE  /\ inflight'[q] = queue'[i][q].n
                      /\ ncomp'[q] = queue'[i][q].pos + queue'[i][q].n
                      /\ StepShape(q, queue[i][q])'
    BY <1>3 DEF Booked
  <2>1. CASE i \in 1..L /\ IsLive(q, queue[i][q]) /\ ~Schedulable(q)
             /\ queue'[i][q] = queue[i][q]
    <3>1. /\ inflight[q] = queue[i][q].n
          /\ ncomp[q] = queue[i][q].pos + queue[i][q].n
          /\ StepShape(q, queue[i][q])
      BY <1>1, <2>1 DEF IInv, Booked
    <3>2. inflight'[q] = inflight[q] /\ ncomp'[q] = ncomp[q]
      BY <1>5, <1>6, <2>1 DEF NoWork, IInv, SchedTypeOK
    <3>3. QED
      BY <1>6, <2>1, <3>1, <3>2 DEF StepShape
  <2>2. CASE i = L + 1 /\ Schedulable(q) /\ queue'[i][q] = Work(q)
    <3>1. Work(q).n \in Nat
      BY <1>2 DEF BatchEntry
    <3>2. QED
      BY <1>4, <1>6, <2>2, <3>1 DEF StepShape
  <2>3. QED
    BY <1>9, <2>1, <2>2
<1>13. AtRest'
  <2> SUFFICES ASSUME NEW q \in Reqs, status'[q] = "running"
               PROVE  /\ ntok'[q] >= PromptLen /\ ntok'[q] < MaxLen
                      /\ spec'[q] > 0 => ncomp'[q] >= PromptLen
                      /\ NoLiveStep(q)' => inflight'[q] = 0 /\ RestShape(q)'
    BY DEF AtRest
  <2>1. CASE Schedulable(q)
    <3>1. IsLive(q, queue[L + 1][q])'
      BY <1>3, <1>4, <1>6, <2>1 DEF IsLive
    <3>2. ~NoLiveStep(q)'
      BY <1>1, <1>3, <3>1 DEF NoLiveStep
    <3>3. QED
      BY <1>6, <2>1, <3>2 DEF IInv, AtRest
  <2>2. CASE ~Schedulable(q)
    <3>1. inflight'[q] = inflight[q] /\ ncomp'[q] = ncomp[q] /\ spec'[q] = spec[q]
      BY <1>5, <1>6, <2>2 DEF NoWork, IInv, SchedTypeOK
    <3>2. NoLiveStep(q)' => NoLiveStep(q)
      BY <1>1, <1>3, <1>6 DEF NoLiveStep, IsLive
    <3>3. QED
      BY <1>6, <3>1, <3>2 DEF IInv, AtRest, RestShape
  <2>3. QED
    BY <2>1, <2>2
<1>14. QED
  BY <1>7, <1>8, <1>10, <1>11, <1>12, <1>13 DEF IInv

LEMMA ReportInv ==
  ASSUME IInv, queue # <<>>, NEW acc \in Verdicts, NEW eos \in SUBSET Reqs,
         NEW asked \in SUBSET Reqs, Report(acc, eos, asked)
  PROVE  IInv'
<1> USE PPSchedulerAssumption
<1>1. PICK L \in Nat : Len(queue) = L + 1 /\ L < PP
  <2>1. Len(queue) \in Nat \ {0} /\ Len(queue) <= PP
    BY DEF IInv, SchedTypeOK
  <2>2. /\ Len(queue) = (Len(queue) - 1) + 1
        /\ Len(queue) - 1 \in Nat /\ Len(queue) - 1 < PP
    BY <2>1
  <2>3. QED
    BY <2>2
<1>2. /\ Len(queue') = L
      /\ \A i \in 1..L : queue'[i] = queue[i + 1]
      /\ queue' \in Seq([Reqs -> BatchEntry])
      /\ Head(queue) = queue[1]
  <2>1. queue \in Seq([Reqs -> BatchEntry]) /\ queue' = Tail(queue)
    BY DEF IInv, SchedTypeOK, Report
  <2>2. QED
    BY <1>1, <2>1
<1>3. ASSUME NEW q \in Reqs
      PROVE  /\ queue[1][q] \in BatchEntry
             /\ acc[q] \in 0..K /\ acc[q] <= queue[1][q].d
             /\ status[q] \in {"running", "finished"} /\ gen[q] \in Nat
             /\ ntok[q] \in 0..MaxLen /\ ncomp[q] \in Nat /\ inflight[q] \in Nat
             /\ spec[q] \in {0, K} /\ wait[q] \in 0..PP
  BY <1>1, <1>2 DEF IInv, SchedTypeOK, Verdicts
<1>4. ASSUME NEW q \in Reqs
      PROVE  /\ ntok'[q] = TokensAfter(q, queue[1][q], acc[q])
             /\ ncomp'[q] = RolledBack(q, queue[1][q], acc[q])
             /\ inflight'[q] = IF IsLive(q, queue[1][q]) THEN inflight[q] - queue[1][q].n
                               ELSE inflight[q]
             /\ status'[q] = IF Sampled(q, queue[1][q]) /\ (ntok'[q] = MaxLen \/ q \in eos)
                             THEN "finished" ELSE status[q]
             /\ spec'[q] \in {spec[q], K}
             /\ spec'[q] # spec[q] => ncomp'[q] >= PromptLen
             /\ gen'[q] = gen[q] /\ wait'[q] = wait[q]
  <2>1. /\ ntok' = [x \in Reqs |-> TokensAfter(x, queue[1][x], acc[x])]
        /\ ncomp' = [x \in Reqs |-> RolledBack(x, queue[1][x], acc[x])]
        /\ inflight' = [x \in Reqs |-> IF IsLive(x, queue[1][x])
                                       THEN inflight[x] - queue[1][x].n ELSE inflight[x]]
        /\ status' = [x \in Reqs |->
                        IF Sampled(x, queue[1][x]) /\ (ntok'[x] = MaxLen \/ x \in eos)
                        THEN "finished" ELSE status[x]]
        /\ spec' = [x \in Reqs |-> IF x \in asked /\ status'[x] = "running"
                                      /\ ncomp'[x] >= PromptLen
                                   THEN K ELSE spec[x]]
        /\ gen' = gen /\ wait' = wait
    BY <1>2 DEF Report
  <2>2. QED
    BY <2>1
\* What the report does to a request whose step it carries.
<1>5. ASSUME NEW q \in Reqs, IsLive(q, queue[1][q])
      PROVE  /\ inflight'[q] = 0
             /\ ncomp'[q] \in Nat
             /\ ntok'[q] \in PromptLen..MaxLen
             /\ spec'[q] > 0 => ncomp'[q] >= PromptLen
             /\ status'[q] = "running" => ntok'[q] < MaxLen /\ RestShape(q)'
  <2> DEFINE w == queue[1][q]
  <2>1. /\ inflight[q] = w.n /\ ncomp[q] = w.pos + w.n /\ StepShape(q, w)
        /\ w.n > 0 /\ status[q] = "running"
    BY <1>1, <1>5 DEF IInv, Booked, IsLive
  <2>2. /\ w.n \in Nat /\ w.d \in Nat /\ w.pos \in Nat
        /\ acc[q] \in Nat /\ acc[q] <= w.d
    BY <1>3 DEF BatchEntry
  <2>3. ntok[q] >= PromptLen /\ ntok[q] < MaxLen /\ (spec[q] > 0 => ncomp[q] >= PromptLen)
    BY <2>1 DEF IInv, AtRest
  <2>4. inflight'[q] = 0
    BY <1>4, <1>5, <2>1, <2>2
  <2>5. CASE w.pos >= PromptLen /\ w.n = w.d + 1 /\ w.pos = ntok[q] - 1
    <3>1. Sampled(q, w)
      BY <1>5, <2>2, <2>5 DEF Sampled, ProducesSample
    <3>2. /\ ncomp'[q] = ncomp[q] - (w.d - acc[q])
          /\ ntok'[q] = MinOf(ntok[q] + acc[q] + 1, MaxLen)
      BY <1>4, <3>1 DEF RolledBack, TokensAfter
    <3>3. status'[q] = "running" => ntok'[q] # MaxLen
      BY <1>4, <3>1
    <3> HIDE DEF w
    <3>4. ncomp'[q] = ntok[q] + acc[q]
      <4>1. ncomp'[q] = ncomp[q] - (w.d - acc[q]) /\ ncomp[q] = w.pos + w.n
        BY <2>1, <3>2
      <4>2. w.n = w.d + 1 /\ w.pos = ntok[q] - 1
        BY <2>5
      <4>3. w.d \in Nat /\ acc[q] \in Nat /\ ntok[q] \in Int
        BY <1>3, <2>2
      <4>q. QED BY <4>1, <4>2, <4>3
    <3>5. /\ ntok'[q] \in PromptLen..MaxLen
          /\ ntok'[q] # MaxLen => ntok'[q] = ntok[q] + acc[q] + 1
      BY <1>3, <2>2, <2>3, <3>2 DEF MinOf
    <3>6. ncomp'[q] \in Nat /\ ncomp'[q] >= PromptLen
      BY <1>3, <2>2, <2>3, <2>5, <3>4
    <3>7. QED
      BY <1>3, <2>2, <2>4, <3>3, <3>4, <3>5, <3>6 DEF RestShape
  <2>6. CASE w.pos < PromptLen /\ w.d = 0 /\ w.pos + w.n = PromptLen /\ ntok[q] = PromptLen
    <3>1. Sampled(q, w)
      BY <1>5, <2>2, <2>6 DEF Sampled, ProducesSample
    <3>2. acc[q] = 0
      BY <2>2, <2>6
    <3>3. ncomp'[q] = PromptLen /\ ntok'[q] = PromptLen + 1
      BY <1>3, <1>4, <2>1, <2>2, <2>6, <3>1, <3>2 DEF RolledBack, TokensAfter, MinOf
    <3>4. status'[q] = "running" => ntok'[q] < MaxLen
      BY <1>3, <1>4, <2>2, <3>1, <3>3
    <3>5. QED
      BY <1>3, <2>4, <3>3, <3>4 DEF RestShape
  <2>7. CASE w.pos < PromptLen /\ w.d = 0 /\ w.pos + w.n < PromptLen /\ ntok[q] = PromptLen
    <3>1. ~Sampled(q, w)
      BY <2>2, <2>7 DEF Sampled, ProducesSample
    <3>2. ncomp'[q] = ncomp[q] /\ ntok'[q] = PromptLen
      BY <1>4, <2>7, <3>1 DEF RolledBack, TokensAfter
    <3>3. spec[q] = 0
      BY <1>3, <2>1, <2>2, <2>3, <2>7
    <3>4. spec'[q] = 0
      BY <1>3, <1>4, <2>1, <2>2, <2>7, <3>2, <3>3
    <3>5. QED
      BY <1>3, <2>1, <2>2, <2>4, <2>7, <3>2, <3>4 DEF RestShape
  <2>8. QED
    BY <2>1, <2>2, <2>5, <2>6, <2>7 DEF StepShape
\* And to every other request.
<1>6. ASSUME NEW q \in Reqs, ~IsLive(q, queue[1][q])
      PROVE  /\ inflight'[q] = inflight[q] /\ ncomp'[q] = ncomp[q]
             /\ ntok'[q] = ntok[q] /\ status'[q] = status[q]
             /\ spec'[q] # spec[q] => ncomp[q] >= PromptLen
  BY <1>4, <1>6 DEF Sampled, RolledBack, TokensAfter
\* A live entry of the shorter queue was live one place further back, and then
\* the oldest one was not.
<1>7. ASSUME NEW q \in Reqs, NEW i \in 1..L, IsLive(q, queue[i][q])'
      PROVE  /\ IsLive(q, queue[i + 1][q])
             /\ ~IsLive(q, queue[1][q])
             /\ queue'[i][q] = queue[i + 1][q]
             /\ i + 1 \in 1..(L + 1)
  <2>1. queue'[i][q] = queue[i + 1][q] /\ i + 1 \in 1..(L + 1)
    BY <1>2
  <2>2. IsLive(q, queue[i + 1][q])
    BY <1>4, <1>7, <2>1 DEF IsLive
  <2>3. ~IsLive(q, queue[1][q])
    BY <1>1, <2>1, <2>2 DEF IInv, OneLive
  <2>4. QED
    BY <2>1, <2>2, <2>3
<1>8. SchedTypeOK'
  <2>1. ASSUME NEW q \in Reqs
        PROVE  /\ ntok'[q] \in 0..MaxLen /\ ncomp'[q] \in Nat /\ inflight'[q] \in Nat
               /\ spec'[q] \in {0, K} /\ wait'[q] \in 0..PP
               /\ status'[q] \in {"running", "finished"}
    BY <1>3, <1>4, <1>5, <1>6
  <2>2. /\ DOMAIN ntok' = Reqs /\ DOMAIN ncomp' = Reqs /\ DOMAIN inflight' = Reqs
        /\ DOMAIN status' = Reqs /\ DOMAIN spec' = Reqs
        /\ ntok' = [q \in Reqs |-> ntok'[q]] /\ ncomp' = [q \in Reqs |-> ncomp'[q]]
        /\ inflight' = [q \in Reqs |-> inflight'[q]]
        /\ status' = [q \in Reqs |-> status'[q]] /\ spec' = [q \in Reqs |-> spec'[q]]
        /\ gen' = gen /\ wait' = wait
    BY DEF Report
  <2>3. QED
    BY <1>1, <1>2, <2>1, <2>2 DEF IInv, SchedTypeOK
<1>9. EntryInv'
  <2> SUFFICES ASSUME NEW i \in 1..L, NEW q \in Reqs
               PROVE  LET w == queue'[i][q]
                      IN  /\ w.gen <= gen'[q]
                          /\ w.d > 0 => w.d < w.n
                          /\ w.n > 0 /\ w.pos >= PromptLen => w.n = w.d + 1
    BY <1>2 DEF EntryInv
  <2>1. queue'[i] = queue[i + 1] /\ i + 1 \in 1..Len(queue)
    BY <1>1, <1>2
  <2>2. QED
    BY <1>4, <2>1 DEF IInv, EntryInv
<1>10. Spacing'
  <2> SUFFICES ASSUME PP > 1, NEW i \in 1..L, NEW q \in Reqs, IsLive(q, queue[i][q])'
               PROVE  wait'[q] >= PP - (L - i)
    BY <1>2 DEF Spacing
  <2>1. wait[q] >= PP - ((L + 1) - (i + 1))
    BY <1>1, <1>7 DEF IInv, Spacing
  <2>2. QED
    BY <1>3, <1>4, <2>1
<1>11. OneLive'
  <2> SUFFICES ASSUME NEW i \in 1..L, NEW j \in 1..L, NEW q \in Reqs,
                      IsLive(q, queue[i][q])', IsLive(q, queue[j][q])'
               PROVE  i = j
    BY <1>2 DEF OneLive
  <2>1. i + 1 = j + 1
    BY <1>1, <1>7 DEF IInv, OneLive
  <2>2. QED
    BY <2>1
<1>12. Booked'
  <2> SUFFICES ASSUME NEW i \in 1..L, NEW q \in Reqs, IsLive(q, queue[i][q])'
               PROVE  /\ inflight'[q] = queue'[i][q].n
                      /\ ncomp'[q] = queue'[i][q].pos + queue'[i][q].n
                      /\ StepShape(q, queue[i][q])'
    BY <1>2 DEF Booked
  <2>1. /\ inflight[q] = queue[i + 1][q].n
        /\ ncomp[q] = queue[i + 1][q].pos + queue[i + 1][q].n
        /\ StepShape(q, queue[i + 1][q])
    BY <1>1, <1>7 DEF IInv, Booked
  <2>2. QED
    BY <1>6, <1>7, <2>1 DEF StepShape
<1>13. AtRest'
  <2> SUFFICES ASSUME NEW q \in Reqs, status'[q] = "running"
               PROVE  /\ ntok'[q] >= PromptLen /\ ntok'[q] < MaxLen
                      /\ spec'[q] > 0 => ncomp'[q] >= PromptLen
                      /\ NoLiveStep(q)' => inflight'[q] = 0 /\ RestShape(q)'
    BY DEF AtRest
  <2>1. CASE IsLive(q, queue[1][q])
    BY <1>3, <1>5, <2>1
  <2>2. CASE ~IsLive(q, queue[1][q])
    <3>1. /\ ntok[q] >= PromptLen /\ ntok[q] < MaxLen
          /\ spec[q] > 0 => ncomp[q] >= PromptLen
          /\ NoLiveStep(q) => inflight[q] = 0 /\ RestShape(q)
      BY <1>6, <2>2 DEF IInv, AtRest
    <3>2. NoLiveStep(q)' => NoLiveStep(q)
      <4> SUFFICES ASSUME NoLiveStep(q)', NEW i \in 1..(L + 1), IsLive(q, queue[i][q])
                   PROVE  FALSE
        BY <1>1 DEF NoLiveStep
      <4>1. i # 1 /\ i - 1 \in 1..L
        BY <2>2
      <4>2. queue'[i - 1][q] = queue[i][q]
        BY <1>2, <4>1
      <4>3. PICK k \in 1..L : k = i - 1
        BY <4>1
      <4>4. IsLive(q, queue[k][q])'
        BY <1>4, <1>6, <2>2, <4>2, <4>3 DEF IsLive
      <4>5. QED
        BY <1>2, <4>4 DEF NoLiveStep
    <3>3. QED
      BY <1>3, <1>4, <1>6, <2>2, <3>1, <3>2 DEF RestShape
  <2>3. QED
    BY <2>1, <2>2
<1>14. QED
  BY <1>8, <1>9, <1>10, <1>11, <1>12, <1>13 DEF IInv

\* Admitting or aborting a request changes nothing for the other indices and
\* leaves no live entry at its own.
LEMMA OneRequestInv ==
  ASSUME IInv, NEW p \in Reqs, Admit(p) \/ Abort(p)
  PROVE  IInv'
<1> USE PPSchedulerAssumption
<1>1. queue' = queue /\ queue \in Seq([Reqs -> BatchEntry])
  BY DEF Admit, Abort, IInv, SchedTypeOK
<1>2. ASSUME NEW q \in Reqs
      PROVE  /\ status[q] \in {"running", "finished"} /\ gen[q] \in 0..MaxGen
             /\ ntok[q] \in 0..MaxLen /\ ncomp[q] \in Nat /\ inflight[q] \in Nat
             /\ spec[q] \in {0, K} /\ wait[q] \in 0..PP
  BY DEF IInv, SchedTypeOK
<1>3. SchedTypeOK'
  <2>1. CASE Admit(p)
    <3>1. gen[p] + 1 \in 0..MaxGen
      BY <1>2, <2>1 DEF Admit
    <3>2. QED
      BY <1>1, <2>1, <3>1 DEF Admit, IInv, SchedTypeOK
  <2>2. CASE Abort(p)
    BY <2>2 DEF Abort, IInv, SchedTypeOK
  <2>3. QED
    BY <2>1, <2>2
<1>4. ASSUME NEW q \in Reqs, q # p
      PROVE  /\ status'[q] = status[q] /\ gen'[q] = gen[q] /\ ntok'[q] = ntok[q]
             /\ ncomp'[q] = ncomp[q] /\ inflight'[q] = inflight[q]
             /\ spec'[q] = spec[q] /\ wait'[q] = wait[q]
  <2>1. CASE Admit(p)
    BY <1>4, <2>1 DEF Admit, IInv, SchedTypeOK
  <2>2. CASE Abort(p)
    BY <1>4, <2>2 DEF Abort, IInv, SchedTypeOK
  <2>3. QED
    BY <2>1, <2>2
<1>5. /\ gen'[p] \in Nat /\ gen[p] <= gen'[p]
      /\ \/ gen[p] < gen'[p] /\ ntok'[p] = PromptLen /\ ncomp'[p] = 0
            /\ spec'[p] = 0 /\ inflight'[p] = 0
         \/ status'[p] = "finished"
  <2>1. CASE Admit(p)
    BY <1>2, <2>1 DEF Admit, IInv, SchedTypeOK
  <2>2. CASE Abort(p)
    BY <1>2, <2>2 DEF Abort, IInv, SchedTypeOK
  <2>3. QED
    BY <2>1, <2>2
<1>6. ASSUME NEW i \in 1..Len(queue), NEW q \in Reqs
      PROVE  /\ queue[i][q] \in BatchEntry
             /\ queue[i][q].gen <= gen[q]
             /\ queue[i][q].gen \in Nat
  <2>1. queue[i][q] \in BatchEntry
    BY <1>1
  <2>2. QED
    BY <2>1 DEF IInv, EntryInv, BatchEntry
<1>7. ASSUME NEW i \in 1..Len(queue), NEW q \in Reqs, IsLive(q, queue[i][q])'
      PROVE  q # p /\ IsLive(q, queue[i][q])
  <2>1. q # p
    <3>1. ASSUME q = p
          PROVE  FALSE
      <4>1. queue[i][p].gen = gen'[p] /\ status'[p] = "running"
        BY <1>1, <1>7, <3>1 DEF IsLive
      <4>2. queue[i][p].gen <= gen[p] /\ queue[i][p].gen \in Nat
        BY <1>6
      <4>3. QED
        BY <1>2, <1>5, <4>1, <4>2
    <3>2. QED
      BY <3>1
  <2>2. QED
    BY <1>1, <1>4, <1>7, <2>1 DEF IsLive
<1>8. EntryInv'
  <2> SUFFICES ASSUME NEW i \in 1..Len(queue), NEW q \in Reqs
               PROVE  LET w == queue[i][q]
                      IN  /\ w.gen <= gen'[q]
                          /\ w.d > 0 => w.d < w.n
                          /\ w.n > 0 /\ w.pos >= PromptLen => w.n = w.d + 1
    BY <1>1 DEF EntryInv
  <2>1. gen[q] <= gen'[q] /\ gen'[q] \in Nat
    BY <1>2, <1>4, <1>5
  <2>2. queue[i][q].gen <= gen'[q]
    BY <1>2, <1>6, <2>1
  <2>3. QED
    BY <2>2 DEF IInv, EntryInv
<1>9. Spacing'
  BY <1>1, <1>4, <1>7 DEF IInv, Spacing
<1>10. OneLive'
  BY <1>1, <1>7 DEF IInv, OneLive
<1>11. Booked'
  BY <1>1, <1>4, <1>7 DEF IInv, Booked, StepShape
<1>12. AtRest'
  <2> SUFFICES ASSUME NEW q \in Reqs, status'[q] = "running"
               PROVE  /\ ntok'[q] >= PromptLen /\ ntok'[q] < MaxLen
                      /\ spec'[q] > 0 => ncomp'[q] >= PromptLen
                      /\ NoLiveStep(q)' => inflight'[q] = 0 /\ RestShape(q)'
    BY DEF AtRest
  <2>1. CASE q = p
    BY <1>5, <2>1 DEF RestShape
  <2>2. CASE q # p
    <3>1. NoLiveStep(q)' => NoLiveStep(q)
      BY <1>1, <1>4, <2>2 DEF NoLiveStep, IsLive
    <3>2. QED
      BY <1>4, <2>2, <3>1 DEF IInv, AtRest, RestShape
  <2>3. QED
    BY <2>1, <2>2
<1>13. QED
  BY <1>3, <1>8, <1>9, <1>10, <1>11, <1>12 DEF IInv

LEMMA StepInv ==
  ASSUME "cadence" \in Patches, IInv, [SchedNext]_schedVars
  PROVE  IInv'
<1>1. CASE Schedule
  BY <1>1, ScheduleInv
<1>2. CASE ReportSome
  BY <1>2, ReportInv DEF ReportSome
<1>3. ASSUME NEW p \in Reqs, Admit(p) \/ Abort(p)
      PROVE  IInv'
  BY <1>3, OneRequestInv
<1>4. CASE UNCHANGED schedVars
  BY <1>4 DEF schedVars, IInv, SchedTypeOK, EntryInv, Spacing, OneLive, Booked, AtRest,
              NoLiveStep, RestShape, StepShape, IsLive
<1>5. QED
  BY <1>1, <1>2, <1>3, <1>4 DEF SchedNext

----------------------------------------------------------------------------

\* With sched_cadence_fix.py applied, the strengthened invariant holds in every
\* reachable state, for any number of ranks, drafts, requests and lengths.
THEOREM Inductive == "cadence" \in Patches => (SchedSpec => []IInv)
<1> SUFFICES ASSUME "cadence" \in Patches
             PROVE  SchedSpec => []IInv
  OBVIOUS
<1>1. IInv /\ [SchedNext]_schedVars => IInv'
  BY StepInv
<1>2. QED
  BY <1>1, InitInv, PTL DEF SchedSpec

\* The scheduler's counters stay in range: no request outgrows max_seq_len and
\* the batch queue never holds more than PP steps.
THEOREM TypeCorrect == "cadence" \in Patches => (SchedSpec => []SchedTypeOK)
<1>1. IInv => SchedTypeOK
  BY DEF IInv
<1>2. QED
  BY <1>1, Inductive, PTL

\* Every step that carries drafts carries the token they hang off: what
\* sched_anchor_fix.py enforces by clipping, the cadence gives by construction
\* of its steps.
THEOREM AnchorSlotHolds == "cadence" \in Patches => (SchedSpec => []AnchorSlot)
<1>1. IInv => AnchorSlot
  <2> SUFFICES ASSUME IInv, NEW i \in DOMAIN queue, NEW q \in Reqs, queue[i][q].d > 0
               PROVE  queue[i][q].d < queue[i][q].n
    BY DEF AnchorSlot
  <2>1. DOMAIN queue = 1..Len(queue)
    BY DEF IInv, SchedTypeOK
  <2>2. QED
    BY <2>1 DEF IInv, EntryInv
<1>2. QED
  BY <1>1, Inductive, PTL

\* Past the prompt a step is the last sampled token and its drafts, exactly as
\* at PP = 1, whatever the verdicts on earlier steps were.
THEOREM DecodeShapeHolds == "cadence" \in Patches => (SchedSpec => []DecodeShape)
<1>1. IInv => DecodeShape
  <2> SUFFICES ASSUME IInv, NEW i \in DOMAIN queue, NEW q \in Reqs,
                      queue[i][q].n > 0, queue[i][q].pos >= PromptLen
               PROVE  queue[i][q].n = queue[i][q].d + 1
    BY DEF DecodeShape
  <2>1. DOMAIN queue = 1..Len(queue)
    BY DEF IInv, SchedTypeOK
  <2>2. QED
    BY <2>1 DEF IInv, EntryInv
<1>2. QED
  BY <1>1, Inductive, PTL

\* The booked position less what is in flight is the confirmed one, through any
\* number of schedules, rejections and rollbacks.
THEOREM ConfirmedPositionHolds == "cadence" \in Patches => (SchedSpec => []ConfirmedPosition)
<1> USE PPSchedulerAssumption
<1>1. IInv => ConfirmedPosition
  <2> SUFFICES ASSUME IInv, NEW q \in Reqs, status[q] = "running"
               PROVE  /\ ncomp[q] - inflight[q] >= 0
                      /\ ntok[q] > PromptLen => ncomp[q] - inflight[q] = ntok[q] - 1
    BY DEF ConfirmedPosition
  <2>1. ntok[q] \in Nat /\ ncomp[q] \in Nat /\ inflight[q] \in Nat
    BY DEF IInv, SchedTypeOK
  <2>2. CASE NoLiveStep(q)
    BY <2>1, <2>2 DEF IInv, AtRest, RestShape
  <2>3. CASE ~NoLiveStep(q)
    <3>1. PICK i \in 1..Len(queue) : IsLive(q, queue[i][q])
      BY <2>3 DEF NoLiveStep
    <3>2. /\ inflight[q] = queue[i][q].n
          /\ ncomp[q] = queue[i][q].pos + queue[i][q].n
          /\ StepShape(q, queue[i][q])
      BY <3>1 DEF IInv, Booked
    <3>3. queue[i][q] \in BatchEntry
      BY DEF IInv, SchedTypeOK
    <3>4. queue[i][q].n \in Nat /\ queue[i][q].pos \in Nat
      BY <3>3 DEF BatchEntry
    <3>5. QED
      BY <2>1, <3>2, <3>4 DEF StepShape
  <2>4. QED
    BY <2>2, <2>3
<1>2. QED
  BY <1>1, Inductive, PTL

\* A request has at most one step that has not been reported: the cadence alone
\* makes it wait for its own previous step.
THEOREM OneStepInFlightHolds == "cadence" \in Patches => (SchedSpec => []OneStepInFlight)
<1>1. IInv => OneStepInFlight
  <2>1. IInv => DOMAIN queue = 1..Len(queue)
    BY DEF IInv, SchedTypeOK
  <2>2. QED
    BY <2>1 DEF IInv, OneLive, OneStepInFlight
<1>2. QED
  BY <1>1, Inductive, PTL

\* No step of the scheduler ever books tokens for a request whose previous step
\* has not been reported, so no position it plans is optimistic.
THEOREM ReportedBeforeScheduledHolds ==
  "cadence" \in Patches => (SchedSpec => ReportedBeforeScheduled)
<1> DEFINE A == \A q \in Reqs : gen'[q] = gen[q] /\ inflight'[q] > inflight[q]
                                  => inflight[q] = 0
<1> SUFFICES ASSUME "cadence" \in Patches
             PROVE  SchedSpec => ReportedBeforeScheduled
  OBVIOUS
<1>1. ASSUME IInv, [SchedNext]_schedVars
      PROVE  [A]_schedVars
  <2>0. \A q \in Reqs : inflight[q] \in Nat /\ gen[q] \in Nat
    BY <1>1, PPSchedulerAssumption DEF IInv, SchedTypeOK
  <2>1. CASE Schedule
    <3> SUFFICES ASSUME NEW q \in Reqs, inflight'[q] > inflight[q]
                 PROVE  inflight[q] = 0
      OBVIOUS
    <3>1. inflight'[q] = inflight[q] + Work(q).n
      BY <2>1 DEF Schedule
    <3>2. Schedulable(q)
      BY <2>0, <3>1 DEF Work, NoWork
    <3>3. QED
      BY <1>1, <2>1, <3>2, PlannedAtRest DEF Schedule
  <2>2. CASE ReportSome
    <3> SUFFICES ASSUME NEW q \in Reqs
                 PROVE  ~(inflight'[q] > inflight[q])
      OBVIOUS
    <3>1. inflight'[q] = IF IsLive(q, Head(queue)[q]) THEN inflight[q] - Head(queue)[q].n
                         ELSE inflight[q]
      BY <2>2 DEF ReportSome, Report
    <3>2. Head(queue)[q] \in BatchEntry
      BY <1>1, <2>2 DEF ReportSome, IInv, SchedTypeOK
    <3>3. QED
      BY <2>0, <3>1, <3>2 DEF BatchEntry
  <2>3. ASSUME NEW p \in Reqs, Admit(p)
        PROVE  A
    <3>1. \A q \in Reqs : q # p => inflight'[q] = inflight[q]
      BY <1>1, <2>3 DEF Admit, IInv, SchedTypeOK
    <3>2. gen'[p] # gen[p]
      BY <1>1, <2>0, <2>3 DEF Admit, IInv, SchedTypeOK
    <3>3. QED
      BY <2>0, <3>1, <3>2
  <2>4. ASSUME NEW p \in Reqs, Abort(p)
        PROVE  A
    BY <2>0, <2>4 DEF Abort
  <2>5. QED
    BY <1>1, <2>1, <2>2, <2>3, <2>4 DEF SchedNext
<1>2. IInv /\ [SchedNext]_schedVars => [A]_schedVars
  BY <1>1
<1>3. QED
  BY <1>2, Inductive, PTL DEF SchedSpec, ReportedBeforeScheduled

----------------------------------------------------------------------------
(* Data *)

\* Every set of natural numbers has a least element: what takes the place of
\* induction below.
LEMMA LeastNatural ==
  ASSUME NEW T \in SUBSET Nat, T # {}
  PROVE  \E n \in T : \A m \in T : n <= m
  <1> DEFINE below == {0..(n - 1) : n \in T}
  <1>1. below \subseteq FiniteSubsetsOf(Nat) /\ below # {}
    <2>1. ASSUME NEW n \in T PROVE 0..(n - 1) \in FiniteSubsetsOf(Nat)
      <3>1. n - 1 \in Int /\ 0..(n - 1) \subseteq Nat
        OBVIOUS
      <3>2. IsFiniteSet(0..(n - 1))
        BY <3>1, FS_Interval
      <3>q. QED BY <3>1, <3>2 DEF FiniteSubsetsOf
    <2>q. QED BY <2>1
  <1>2. \E x \in below : \A y \in below : ~(<<y, x>> \in StrictSubsetOrdering(Nat))
    <2> HIDE DEF below
    <2>q. QED BY <1>1, FS_StrictSubsetOrderingWellFounded, WFMin
  <1>3. PICK n \in T : \A m \in T : ~(<<0..(m - 1), 0..(n - 1)>> \in StrictSubsetOrdering(Nat))
    BY <1>2
  <1>4. ASSUME NEW m \in T, m < n PROVE FALSE
    <2>1. 0..(m - 1) \subseteq 0..(n - 1) /\ m \in 0..(n - 1) /\ m \notin 0..(m - 1)
      BY <1>4
    <2>2. 0..(m - 1) \in SUBSET Nat /\ 0..(n - 1) \in SUBSET Nat
      OBVIOUS
    <2>3. <<0..(m - 1), 0..(n - 1)>> \in StrictSubsetOrdering(Nat)
      BY <2>1, <2>2 DEF StrictSubsetOrdering
    <2>q. QED BY <1>3, <2>3
  <1>q. QED BY <1>4

\* The longest prefix of 1..n inside a set exists and is the only one.
LEMMA LongestPrefix ==
  ASSUME NEW n \in Nat, NEW B
  PROVE  \E m \in 0..n : (\A j \in 1..m : j \in B) /\ (m < n => m + 1 \notin B)
  <1> DEFINE out1 == (1..n) \ B
  <1>1. CASE out1 = {}
    <2>1. \A j \in 1..n : j \in B
      BY <1>1
    <2>q. QED BY <2>1
  <1>2. CASE out1 # {}
    <2>1. PICK j \in out1 : \A i \in out1 : j <= i
      <3>1. out1 \in SUBSET Nat
        OBVIOUS
      <3> HIDE DEF out1
      <3>q. QED BY <1>2, <3>1, LeastNatural
    <2>2. j - 1 \in 0..n /\ (j - 1) + 1 = j /\ j \notin B
      BY <2>1
    <2>3. \A i \in 1..(j - 1) : i \in B
      BY <2>1, <2>2
    <2>q. QED BY <2>2, <2>3
  <1>q. QED BY <1>1, <1>2

----------------------------------------------------------------------------
(* The history.  H[k] is the k-th batch scheduled, S of them so far; R have   *)
(* been reported and E[r] executed by rank r.  A[k][q] is the last rank's row *)
(* of q after batch k, and N broadcasts have been carried out.                *)

IsSeq(s) == \E T : s \in Seq(T)

Needed(H, k) == {i \in 1..k : NeedSampled(H[i], K) # {}}

\* How many of the first k batches have a broadcast.
Count(H, k) == Cardinality(Needed(H, k))

\* The slots of rank r are those of the batches behind this one.
Oldest(E, r) == IF E[r] > PP THEN E[r] - PP ELSE 0

Counters(S, R, E, N) ==
  /\ S \in Nat /\ R \in Nat /\ N \in Nat /\ E \in [Ranks -> Nat]
  /\ S <= R + PP /\ R <= E[Last]
  /\ \A r \in Ranks : E[r] <= S
  /\ \A r, x \in Ranks : r <= x => E[x] <= E[r]

\* What holds of the scheduler's counts with any patches.
Loose ==
  /\ ntok \in [Reqs -> Int] /\ ncomp \in [Reqs -> Int]
  /\ spec \in [Reqs -> {0, K}] /\ gen \in [Reqs -> Nat]
  /\ drafted \subseteq Reqs

LooseEntry == [n : Nat, d : 0..K, pos : Int, gen : Nat]

QueueIs(H, S, R) ==
  /\ \A k \in 1..S : H[k] \in [Reqs -> LooseEntry]
  /\ IsSeq(queue)
  /\ Len(queue) = S - R
  /\ \A i \in 1..(S - R) : queue[i] = H[R + i]

WorkIs(H, S, E) ==
  /\ DOMAIN work = Ranks
  /\ \A r \in Ranks :
       /\ IsSeq(work[r])
       /\ Len(work[r]) = S - E[r]
       /\ \A i \in 1..(S - E[r]) : work[r][i] = H[E[r] + i]

HiddenIs(E) ==
  /\ DOMAIN hidden = Ranks
  /\ \A r \in Ranks :
       /\ IsSeq(hidden[r])
       /\ Len(hidden[r]) = IF r = 0 THEN 0 ELSE E[r - 1] - E[r]

RingIs(H, E) ==
  /\ DOMAIN ring = Ranks
  /\ \A r \in 0..(Last - 1) :
       /\ IsSeq(ring[r])
       /\ Len(ring[r]) = E[r] - Oldest(E, r)
       /\ \A i \in 1..Len(ring[r]) :
            /\ ring[r][i].mask = NeedSampled(H[Oldest(E, r) + i], K)
            /\ ring[r][i].posted = (ring[r][i].mask # {})

RelayIs(H, E, N) ==
  /\ DOMAIN relay = Ranks
  /\ \A r \in 0..(Last - 1) :
       IsSeq(relay[r]) /\ Len(relay[r]) = N - Count(H, Oldest(E, r))
  /\ IsSeq(sending)
  /\ Len(sending) = Count(H, E[Last]) - N

ResultsIs(H, R, E) ==
  /\ IsSeq(results)
  /\ Len(results) = E[Last] - R
  /\ \A i \in 1..(E[Last] - R), q \in Reqs : results[i][q].acc \in 0..H[R + i][q].d

Aligned(H, S, R, E, N) ==
  /\ Counters(S, R, E, N) /\ Loose
  /\ QueueIs(H, S, R) /\ WorkIs(H, S, E) /\ HiddenIs(E)
  /\ RingIs(H, E) /\ RelayIs(H, E, N) /\ ResultsIs(H, R, E)


LEMMA LenIs ==
  ASSUME NEW s, IsSeq(s)
  PROVE  Len(s) \in Nat /\ (s = <<>> => Len(s) = 0) /\ (s # <<>> => Len(s) > 0)
  <1>1. PICK T : s \in Seq(T)
    BY DEF IsSeq
  <1>q. QED BY <1>1, EmptySeq

LEMMA EmptyIs == IsSeq(<<>>) /\ Len(<<>>) = 0
  <1>1. <<>> \in Seq({})
    OBVIOUS
  <1>q. QED BY <1>1 DEF IsSeq

LEMMA AppendIs ==
  ASSUME NEW s, NEW x, IsSeq(s)
  PROVE  /\ IsSeq(Append(s, x))
         /\ Len(s) \in Nat
         /\ Len(Append(s, x)) = Len(s) + 1
         /\ \A i \in 1..Len(s) : Append(s, x)[i] = s[i]
         /\ Append(s, x)[Len(s) + 1] = x
  <1>1. PICK T : s \in Seq(T)
    BY DEF IsSeq
  <1>2. s \in Seq(T \cup {x})
    BY <1>1
  <1>3. Append(s, x) \in Seq(T \cup {x})
    BY <1>2
  <1>4. IsSeq(Append(s, x))
    BY <1>3 DEF IsSeq
  <1>q. QED BY <1>2, <1>4, AppendProperties

LEMMA TailIs ==
  ASSUME NEW s, IsSeq(s), s # <<>>
  PROVE  /\ Len(s) \in Nat /\ Len(s) > 0
         /\ Head(s) = s[1]
         /\ IsSeq(Tail(s))
         /\ Len(Tail(s)) = Len(s) - 1
         /\ \A i \in 1..(Len(s) - 1) : Tail(s)[i] = s[i + 1]
  <1>1. PICK T : s \in Seq(T)
    BY DEF IsSeq
  <1>2. Tail(s) \in Seq(T)
    BY <1>1
  <1>3. IsSeq(Tail(s))
    BY <1>2 DEF IsSeq
  <1>4. Len(s) \in Nat /\ Len(s) > 0
    BY LenIs
  <1>q. QED BY <1>1, <1>3, <1>4, HeadTailProperties


----------------------------------------------------------------------------
(* Counting broadcasts *)

LEMMA NeededFinite ==
  ASSUME NEW H, NEW k \in Nat
  PROVE  IsFiniteSet(Needed(H, k)) /\ Count(H, k) \in Nat /\ Count(H, 0) = 0
  <1>1. IsFiniteSet(1..k)
    BY FS_Interval
  <1>2. Needed(H, k) \in SUBSET (1..k) /\ Needed(H, 0) = {}
    BY DEF Needed
  <1>3. IsFiniteSet(Needed(H, k))
    BY <1>1, <1>2, FS_Subset
  <1>q. QED BY <1>2, <1>3, FS_CardinalityType, FS_EmptySet DEF Count

LEMMA CountNext ==
  ASSUME NEW H, NEW k \in Nat
  PROVE  Count(H, k + 1) = IF NeedSampled(H[k + 1], K) # {} THEN Count(H, k) + 1 ELSE Count(H, k)
  <1>0. IsFiniteSet(Needed(H, k))
    BY NeededFinite
  <1>1. IsFiniteSet(Needed(H, k)) /\ k + 1 \notin Needed(H, k)
    BY <1>0 DEF Needed
  <1>2. CASE NeedSampled(H[k + 1], K) # {}
    <2>1. Needed(H, k + 1) = Needed(H, k) \cup {k + 1}
      BY <1>2 DEF Needed
    <2>q. QED BY <1>1, <1>2, <2>1, FS_AddElement DEF Count
  <1>3. CASE NeedSampled(H[k + 1], K) = {}
    <2>1. ASSUME NEW i \in Needed(H, k + 1) PROVE i \in Needed(H, k)
      <3>1. i # k + 1
        BY <1>3 DEF Needed
      <3>q. QED BY <3>1 DEF Needed
    <2>2. Needed(H, k) \subseteq Needed(H, k + 1)
      BY DEF Needed
    <2>3. Needed(H, k + 1) = Needed(H, k)
      BY <2>1, <2>2
    <2>q. QED BY <1>3, <2>3 DEF Count
  <1>q. QED BY <1>2, <1>3

\* The broadcasts of the batches between a and b.
LEMMA CountBetween ==
  ASSUME NEW H, NEW a \in Nat, NEW b \in Nat, a <= b
  PROVE  /\ IsFiniteSet(Needed(H, b) \ Needed(H, a))
         /\ Cardinality(Needed(H, b) \ Needed(H, a)) = Count(H, b) - Count(H, a)
         /\ Count(H, a) <= Count(H, b) /\ Count(H, b) - Count(H, a) <= b - a
  <1> DEFINE D == Needed(H, b) \ Needed(H, a)
  <1>1. IsFiniteSet(Needed(H, a)) /\ IsFiniteSet(Needed(H, b)) /\ Count(H, a) \in Nat /\ Count(H, b) \in Nat
    BY NeededFinite
  <1>2. IsFiniteSet(D) /\ Cardinality(D) \in Nat
    BY <1>1, FS_Subset, FS_CardinalityType
  <1>3. D \cup Needed(H, a) = Needed(H, b) /\ D \cap Needed(H, a) = {}
    BY DEF Needed
  <1>4. Cardinality(D \cup Needed(H, a)) = Cardinality(D) + Cardinality(Needed(H, a)) - Cardinality({})
    <2> HIDE DEF D
    <2>q. QED BY <1>1, <1>2, <1>3, FS_Union
  <1>5. Cardinality(D) = Count(H, b) - Count(H, a)
    BY <1>1, <1>2, <1>3, <1>4, FS_EmptySet DEF Count
  <1>6. Cardinality(D) <= b - a
    <2>0. a + 1 \in Int /\ b \in Int /\ (IF a + 1 > b THEN 0 ELSE b - (a + 1) + 1) = b - a
      OBVIOUS
    <2>1. IsFiniteSet((a + 1)..b) /\ Cardinality((a + 1)..b) = b - a
      BY <2>0, FS_Interval
    <2>2. D \in SUBSET ((a + 1)..b)
      BY DEF Needed
    <2>q. QED BY <2>1, <2>2, FS_Subset
  <1>q. QED BY <1>1, <1>2, <1>5, <1>6

LEMMA CountBefore ==
  ASSUME NEW H, NEW a \in Nat, NEW k \in Nat, a < k, NeedSampled(H[k], K) # {}
  PROVE  Count(H, a) < Count(H, k)
  <1>1. k - 1 \in Nat /\ a <= k - 1 /\ (k - 1) + 1 = k
    OBVIOUS
  <1>2. Count(H, k) = Count(H, k - 1) + 1
    BY <1>1, CountNext
  <1>3. Count(H, a) \in Nat /\ Count(H, k - 1) \in Nat
    BY <1>1, NeededFinite
  <1>4. Count(H, a) <= Count(H, k - 1)
    BY <1>1, CountBetween
  <1>q. QED BY <1>2, <1>3, <1>4

\* A batch more changes nothing about those before it.
LEMMA NeededKept ==
  ASSUME NEW G, NEW H, NEW k \in Nat, \A i \in 1..k : G[i] = H[i]
  PROVE  Needed(G, k) = Needed(H, k) /\ Count(G, k) = Count(H, k)
  BY DEF Needed, Count

----------------------------------------------------------------------------
(* Batches stay in order *)

LEMMA RankFacts ==
  /\ Last \in Nat /\ Last > 0 /\ Last \in Ranks /\ 0 \in Ranks /\ Last + 1 = PP
  /\ \A r \in 0..(Last - 1) : r \in Ranks /\ r + 1 \in Ranks /\ r # Last
  /\ \A r \in Ranks : r \in Nat /\ r <= Last /\ (r # Last => r \in 0..(Last - 1))
  BY PPSchedulerAssumption, SpecDecodeAssumption DEF Ranks, Last

LEMMA OldestIs ==
  ASSUME NEW E \in [Ranks -> Nat], NEW r \in Ranks
  PROVE  /\ Oldest(E, r) \in Nat /\ Oldest(E, r) <= E[r] /\ E[r] - Oldest(E, r) <= PP
         /\ E[r] - Oldest(E, r) = PP <=> E[r] >= PP
         /\ E[r] >= PP => Oldest(E, r) = E[r] - PP
         /\ E[r] < PP => Oldest(E, r) = 0
  <1>1. E[r] \in Nat /\ PP \in Nat
    BY PPSchedulerAssumption
  <1>q. QED BY <1>1 DEF Oldest

LEMMA WorkLoose ==
  ASSUME Loose, NEW q \in Reqs
  PROVE  Work(q) \in LooseEntry
  <1>1. /\ ntok[q] \in Int /\ ncomp[q] \in Int /\ spec[q] \in {0, K} /\ gen[q] \in Nat
        /\ K \in Nat /\ Chunk \in Nat \ {0}
    BY PPSchedulerAssumption DEF Loose
  <1>2. CASE ~Schedulable(q)
    BY <1>1, <1>2 DEF Work, NoWork, LooseEntry
  <1>3. CASE Schedulable(q)
    <2>1. NumNewTokens(q) \in Int /\ NumNewTokens(q) > 0
      BY <1>1, <1>3 DEF Schedulable, NumNewTokens
    <2>2. NumScheduled(q) \in Nat /\ NumScheduled(q) <= ntok[q] + spec[q] - ncomp[q]
      BY <1>1, <2>1 DEF NumScheduled, MinOf, NumNewTokens
    <2>3. ClippedSpec(q) \in Int /\ ClippedSpec(q) <= spec[q]
      BY <1>1, <2>2 DEF ClippedSpec, UnclippedSpec, MinOf
    <2>4. NumDrafts(q) \in 0..K
      BY <1>1, <2>3 DEF NumDrafts, MaxOf
    <2>5. Work(q) = [n |-> NumScheduled(q), d |-> NumDrafts(q), pos |-> ncomp[q], gen |-> gen[q]]
      BY <1>3 DEF Work
    <2>q. QED BY <1>1, <2>2, <2>4, <2>5 DEF LooseEntry
  <1>q. QED BY <1>2, <1>3

LEMMA ScheduleAligned ==
  ASSUME NEW H, NEW S, NEW R, NEW E, NEW N, Aligned(H, S, R, E, N), EngineSchedule,
         NEW G, \A k \in 1..S : G[k] = H[k], G[S + 1] = [q \in Reqs |-> Work(q)]
  PROVE  Aligned(G, S + 1, R, E, N)'
  <1>1. /\ Counters(S, R, E, N) /\ Loose /\ QueueIs(H, S, R) /\ WorkIs(H, S, E) /\ HiddenIs(E)
        /\ RingIs(H, E) /\ RelayIs(H, E, N) /\ ResultsIs(H, R, E)
    BY DEF Aligned
  <1>2. /\ Len(queue) < PP /\ queue' = Append(queue, G[S + 1])
        /\ work' = [r \in Ranks |-> Append(work[r], queue'[Len(queue')])]
        /\ UNCHANGED <<gen, ntok, hidden, ring, relay, results, drafted, sending>>
        /\ ncomp' = [q \in Reqs |-> ncomp[q] + Work(q).n]
        /\ spec' = [q \in Reqs |-> IF Schedulable(q) THEN 0 ELSE spec[q]]
    BY DEF EngineSchedule, Schedule
  <1>3. S \in Nat /\ R \in Nat /\ E \in [Ranks -> Nat] /\ N \in Nat
    BY <1>1 DEF Counters
  <1>4. /\ IsSeq(queue') /\ Len(queue') = S - R + 1 /\ Len(queue) \in Nat
        /\ \A i \in 1..(S - R) : queue'[i] = H[R + i]
        /\ queue'[S - R + 1] = G[S + 1]
    BY <1>1, <1>2, AppendIs DEF QueueIs
  <1>5. S + 1 <= R + PP /\ R <= S
    <2>1. R <= E[Last] /\ E[Last] <= S
      BY <1>1, RankFacts DEF Counters
    <2>q. QED BY <1>1, <1>2, <1>3, <2>1, RankFacts, PPSchedulerAssumption DEF QueueIs
  <1>6. Counters(S + 1, R, E, N)
    BY <1>1, <1>3, <1>5 DEF Counters
  <1>7. Loose'
    <2>1. \A q \in Reqs : Work(q) \in LooseEntry
      BY <1>1, WorkLoose
    <2>q. QED BY <1>1, <1>2, <2>1, PPSchedulerAssumption DEF Loose, LooseEntry
  <1>8. \A k \in 1..(S + 1) : G[k] \in [Reqs -> LooseEntry]
    <2>1. G[S + 1] \in [Reqs -> LooseEntry]
      BY <1>1, WorkLoose
    <2>2. \A k \in 1..S : G[k] \in [Reqs -> LooseEntry]
      BY <1>1 DEF QueueIs
    <2>q. QED BY <1>3, <2>1, <2>2
  <1>9. QueueIs(G, S + 1, R)'
    <2>1. ASSUME NEW i \in 1..((S + 1) - R) PROVE queue'[i] = G[R + i]
      <3>1. CASE i = S - R + 1
        BY <1>3, <1>4, <1>5, <3>1
      <3>2. CASE i # S - R + 1
        <4>1. i \in 1..(S - R) /\ R + i \in 1..S
          BY <1>3, <1>5, <3>2
        <4>q. QED BY <1>4, <4>1
      <3>q. QED BY <3>1, <3>2
    <2>2. (S + 1) - R = S - R + 1
      BY <1>3
    <2>q. QED BY <1>4, <1>8, <2>1, <2>2 DEF QueueIs
  <1>10. WorkIs(G, S + 1, E)'
    <2>1. ASSUME NEW r \in Ranks
          PROVE  /\ IsSeq(work'[r]) /\ Len(work'[r]) = (S + 1) - E[r]
                 /\ \A i \in 1..((S + 1) - E[r]) : work'[r][i] = G[E[r] + i]
      <3>1. PICK w : w = work[r]
        OBVIOUS
      <3>2. work'[r] = Append(w, G[S + 1]) /\ E[r] \in Nat /\ E[r] <= S
        BY <1>1, <1>2, <1>3, <1>4, <3>1 DEF Counters
      <3>3. /\ IsSeq(w) /\ Len(w) = S - E[r]
            /\ \A i \in 1..(S - E[r]) : w[i] = H[E[r] + i]
        BY <1>1, <3>1 DEF WorkIs
      <3>4. /\ IsSeq(work'[r]) /\ Len(work'[r]) = S - E[r] + 1
            /\ \A i \in 1..(S - E[r]) : work'[r][i] = H[E[r] + i]
            /\ work'[r][S - E[r] + 1] = G[S + 1]
        BY <3>2, <3>3, AppendIs
      <3>5. ASSUME NEW i \in 1..((S + 1) - E[r]) PROVE work'[r][i] = G[E[r] + i]
        <4>1. CASE i = S - E[r] + 1
          <5>1. E[r] + i = S + 1
            BY <1>3, <3>2, <4>1
          <5>q. QED BY <3>4, <4>1, <5>1
        <4>2. CASE i # S - E[r] + 1
          <5>1. i \in 1..(S - E[r]) /\ E[r] + i \in 1..S
            BY <1>3, <3>2, <4>2
          <5>q. QED BY <3>4, <5>1
        <4>q. QED BY <4>1, <4>2
      <3>6. S - E[r] + 1 = (S + 1) - E[r]
        BY <1>3, <3>2
      <3>q. QED BY <3>4, <3>5, <3>6
    <2>2. DOMAIN work' = Ranks
      BY <1>2
    <2>q. QED BY <2>1, <2>2 DEF WorkIs
  <1>11. HiddenIs(E)'
    BY <1>1, <1>2 DEF HiddenIs
  <1>12. ASSUME NEW r \in Ranks
         PROVE  /\ Oldest(E, r) \in Nat /\ Oldest(E, r) <= E[r] /\ E[r] <= S
                /\ Count(G, Oldest(E, r)) = Count(H, Oldest(E, r))
                /\ Count(G, E[r]) = Count(H, E[r])
    <2>1. Oldest(E, r) \in Nat /\ Oldest(E, r) <= E[r] /\ E[r] <= S /\ E[r] \in Nat
      BY <1>1, <1>3, OldestIs DEF Counters
    <2>2. (\A k \in 1..E[r] : G[k] = H[k]) /\ (\A k \in 1..Oldest(E, r) : G[k] = H[k])
      BY <1>3, <2>1
    <2>q. QED BY <2>1, <2>2, NeededKept
  <1>13. RingIs(G, E)'
    <2>1. ASSUME NEW r \in 0..(Last - 1), NEW i \in 1..Len(ring[r])
          PROVE  G[Oldest(E, r) + i] = H[Oldest(E, r) + i]
      <3>1. r \in Ranks
        BY RankFacts
      <3>2. Len(ring[r]) = E[r] - Oldest(E, r)
        BY <1>1 DEF RingIs
      <3>3. Oldest(E, r) + i \in 1..S
        BY <1>3, <1>12, <3>1, <3>2
      <3>q. QED BY <3>3
    <2>q. QED BY <1>1, <1>2, <2>1 DEF RingIs
  <1>14. RelayIs(G, E, N)'
    BY <1>1, <1>2, <1>12, RankFacts DEF RelayIs
  <1>15. ResultsIs(G, R, E)'
    <2>1. \A i \in 1..(E[Last] - R) : G[R + i] = H[R + i]
      <3>1. E[Last] \in Nat /\ E[Last] <= S
        BY <1>3, <1>12, RankFacts
      <3>q. QED BY <1>3, <3>1
    <2>q. QED BY <1>1, <1>2, <2>1 DEF ResultsIs
  <1>q. QED
    BY <1>6, <1>7, <1>9, <1>10, <1>11, <1>13, <1>14, <1>15 DEF Aligned, Counters

LEMMA ReportAligned ==
  ASSUME NEW H, NEW S, NEW R, NEW E, NEW N, Aligned(H, S, R, E, N), NEW eos, EngineReport(eos)
  PROVE  /\ Aligned(H, S, R + 1, E, N)'
         /\ R + 1 <= E[Last] /\ Head(queue) = H[R + 1] /\ Head(results) = results[1]
         /\ queue # <<>>
  <1>1. /\ Counters(S, R, E, N) /\ Loose /\ QueueIs(H, S, R) /\ WorkIs(H, S, E) /\ HiddenIs(E)
        /\ RingIs(H, E) /\ RelayIs(H, E, N) /\ ResultsIs(H, R, E)
    BY DEF Aligned
  <1>2. S \in Nat /\ R \in Nat /\ E \in [Ranks -> Nat] /\ N \in Nat /\ E[Last] \in Nat /\ E[Last] <= S
    BY <1>1, RankFacts DEF Counters
  <1>3. /\ results # <<>> /\ results' = Tail(results) /\ drafted' = {}
        /\ UNCHANGED <<gen, work, hidden, ring, relay, sending>>
        /\ Report([q \in Reqs |-> Head(results)[q].acc], eos, drafted)
    BY DEF EngineReport, Report
  <1>4. R + 1 <= E[Last] /\ IsSeq(results) /\ Len(results) = E[Last] - R
    BY <1>1, <1>2, <1>3, LenIs DEF ResultsIs
  <1>5. queue # <<>> /\ IsSeq(queue) /\ Len(queue) = S - R
    <2>1. Len(queue) > 0 /\ IsSeq(queue) /\ Len(queue) = S - R
      BY <1>1, <1>2, <1>4 DEF QueueIs
    <2>q. QED BY <2>1, LenIs
  <1>6. Head(queue) = H[R + 1] /\ H[R + 1] \in [Reqs -> LooseEntry]
    <2>1. Head(queue) = queue[1] /\ 1 \in 1..(S - R) /\ R + 1 \in 1..S
      BY <1>2, <1>4, <1>5, TailIs
    <2>q. QED BY <1>1, <2>1 DEF QueueIs
  <1>7. Head(results) = results[1] /\ \A q \in Reqs : results[1][q].acc \in 0..H[R + 1][q].d
    <2>1. Head(results) = results[1] /\ 1 \in 1..(E[Last] - R)
      BY <1>2, <1>3, <1>4, TailIs
    <2>q. QED BY <1>1, <2>1 DEF ResultsIs
  <1>8. Counters(S, R + 1, E, N)
    BY <1>1, <1>2, <1>4, PPSchedulerAssumption DEF Counters
  <1>9. Loose'
    <2>1. /\ ntok' = [q \in Reqs |-> TokensAfter(q, H[R + 1][q], results[1][q].acc)]
          /\ ncomp' = [q \in Reqs |-> RolledBack(q, H[R + 1][q], results[1][q].acc)]
          /\ \E B : spec' = [q \in Reqs |-> IF q \in B THEN K ELSE spec[q]]
      <3>1. \E B : spec' = [q \in Reqs |-> IF q \in B THEN K ELSE spec[q]]
        <4> DEFINE B == {q \in Reqs : q \in drafted /\ status'[q] = "running" /\ ncomp'[q] >= PromptLen}
        <4>1. spec' = [q \in Reqs |-> IF q \in B THEN K ELSE spec[q]]
          BY <1>3 DEF Report
        <4>q. QED BY <4>1
      <3>2. /\ ntok' = [q \in Reqs |-> TokensAfter(q, H[R + 1][q], Head(results)[q].acc)]
            /\ ncomp' = [q \in Reqs |-> RolledBack(q, H[R + 1][q], Head(results)[q].acc)]
        BY <1>3, <1>6 DEF Report
      <3>q. QED BY <1>7, <3>1, <3>2
    <2>2. ASSUME NEW q \in Reqs
          PROVE  /\ TokensAfter(q, H[R + 1][q], results[1][q].acc) \in Int
                 /\ RolledBack(q, H[R + 1][q], results[1][q].acc) \in Int
      <3>1. /\ ntok[q] \in Int /\ ncomp[q] \in Int /\ H[R + 1][q].d \in Int
            /\ results[1][q].acc \in Int /\ MaxLen \in Int
        BY <1>1, <1>6, <1>7, PPSchedulerAssumption DEF Loose, LooseEntry
      <3>q. QED BY <3>1 DEF TokensAfter, RolledBack, MinOf
    <2>3. ntok' \in [Reqs -> Int] /\ ncomp' \in [Reqs -> Int]
      BY <2>1, <2>2
    <2>4. spec' \in [Reqs -> {0, K}]
      BY <1>1, <2>1 DEF Loose
    <2>5. gen' \in [Reqs -> Nat] /\ drafted' \subseteq Reqs
      BY <1>1, <1>3 DEF Loose
    <2>q. QED BY <2>3, <2>4, <2>5 DEF Loose
  <1>10. QueueIs(H, S, R + 1)'
    <2>1. /\ IsSeq(queue') /\ Len(queue') = (S - R) - 1
          /\ \A i \in 1..((S - R) - 1) : queue'[i] = queue[i + 1]
      <3>1. queue' = Tail(queue)
        BY <1>3 DEF Report
      <3>q. QED BY <1>5, <3>1, TailIs
    <2>2. ASSUME NEW i \in 1..(S - (R + 1)) PROVE queue'[i] = H[(R + 1) + i]
      <3>1. i \in 1..((S - R) - 1) /\ i + 1 \in 1..(S - R) /\ R + (i + 1) = (R + 1) + i
        BY <1>2
      <3>q. QED BY <1>1, <2>1, <3>1 DEF QueueIs
    <2>3. (S - R) - 1 = S - (R + 1)
      BY <1>2
    <2>q. QED BY <1>1, <2>1, <2>2, <2>3 DEF QueueIs
  <1>11. WorkIs(H, S, E)' /\ HiddenIs(E)' /\ RingIs(H, E)' /\ RelayIs(H, E, N)'
    BY <1>1, <1>3 DEF WorkIs, HiddenIs, RingIs, RelayIs
  <1>12. ResultsIs(H, R + 1, E)'
    <2>1. /\ IsSeq(results') /\ Len(results') = (E[Last] - R) - 1
          /\ \A i \in 1..((E[Last] - R) - 1) : results'[i] = results[i + 1]
      BY <1>3, <1>4, TailIs
    <2>2. ASSUME NEW i \in 1..(E[Last] - (R + 1)), NEW q \in Reqs
          PROVE  results'[i][q].acc \in 0..H[(R + 1) + i][q].d
      <3>1. /\ i \in 1..((E[Last] - R) - 1) /\ i + 1 \in 1..(E[Last] - R)
            /\ R + (i + 1) = (R + 1) + i
        BY <1>2
      <3>q. QED BY <1>1, <2>1, <3>1 DEF ResultsIs
    <2>3. (E[Last] - R) - 1 = E[Last] - (R + 1)
      BY <1>2
    <2>q. QED BY <2>1, <2>2, <2>3 DEF ResultsIs
  <1>q. QED
    BY <1>4, <1>5, <1>6, <1>7, <1>8, <1>9, <1>10, <1>11, <1>12 DEF Aligned, Counters

LEMMA OtherAligned ==
  ASSUME NEW H, NEW S, NEW R, NEW E, NEW N, Aligned(H, S, R, E, N),
         UNCHANGED <<queue, work, hidden, ring, relay, results, sending>>, Loose'
  PROVE  Aligned(H, S, R, E, N)'
  BY DEF Aligned, Counters, QueueIs, WorkIs, HiddenIs, RingIs, RelayIs, ResultsIs

LEMMA RequestLoose ==
  ASSUME Loose, NEW q \in Reqs, EngineAdmit(q) \/ EngineAbort(q)
  PROVE  Loose' /\ UNCHANGED <<queue, work, hidden, ring, relay, results, sending>>
  <1>1. CASE EngineAdmit(q)
    BY <1>1, PPSchedulerAssumption DEF EngineAdmit, Admit, Loose, workerVars
  <1>2. CASE EngineAbort(q)
    BY <1>2 DEF EngineAbort, Abort, Loose, workerVars
  <1>q. QED BY <1>1, <1>2

\* The slot rank r reads now is that of the batch PP steps back.
LEMMA SlotIs ==
  ASSUME NEW H, NEW S, NEW R, NEW E, NEW N, Aligned(H, S, R, E, N), NEW r \in 0..(Last - 1)
  PROVE  /\ IsSeq(ring[r]) /\ E[r] \in Nat
         /\ RingFull(r) <=> E[r] >= PP
         /\ E[r] >= PP => /\ ring[r] # <<>> /\ Head(ring[r]) = ring[r][1]
                          /\ Head(ring[r]).mask = NeedSampled(H[(E[r] - PP) + 1], K)
         /\ SlotDue(r) <=> E[r] >= PP /\ NeedSampled(H[(E[r] - PP) + 1], K) # {}
  <1>1. /\ RingIs(H, E) /\ E \in [Ranks -> Nat] /\ r \in Ranks /\ PP \in Nat /\ PP > 0
    BY RankFacts, PPSchedulerAssumption DEF Aligned, Counters
  <1>2. PICK o : o = Oldest(E, r)
    OBVIOUS
  <1>3. /\ o \in Nat /\ o <= E[r] /\ E[r] - o <= PP /\ E[r] \in Nat
        /\ E[r] - o = PP <=> E[r] >= PP
        /\ E[r] >= PP => o = E[r] - PP
    BY <1>1, <1>2, OldestIs
  <1>4. /\ IsSeq(ring[r]) /\ Len(ring[r]) = E[r] - o
        /\ \A i \in 1..Len(ring[r]) : /\ ring[r][i].mask = NeedSampled(H[o + i], K)
                                      /\ ring[r][i].posted = (ring[r][i].mask # {})
    BY <1>1, <1>2 DEF RingIs
  <1>5. RingFull(r) <=> E[r] >= PP
    BY <1>3, <1>4 DEF RingFull
  <1>6. ASSUME E[r] >= PP
        PROVE  /\ ring[r] # <<>> /\ Head(ring[r]) = ring[r][1]
               /\ Head(ring[r]).mask = NeedSampled(H[(E[r] - PP) + 1], K)
               /\ Head(ring[r]).posted <=> Head(ring[r]).mask # {}
    <2>1. Len(ring[r]) = PP /\ o = E[r] - PP
      BY <1>3, <1>4, <1>6
    <2>2. ring[r] # <<>>
      BY <1>1, <1>4, <2>1, EmptyIs
    <2>3. Head(ring[r]) = ring[r][1] /\ 1 \in 1..Len(ring[r])
      BY <1>1, <1>4, <2>1, <2>2, TailIs
    <2>q. QED BY <1>4, <2>1, <2>2, <2>3
  <1>q. QED BY <1>1, <1>3, <1>4, <1>5, <1>6 DEF SlotDue

\* The rows of rank r when it executes, and what it hands to the next rank.
Corrected(r) ==
  LET s1 == Added(state[r], Head(work[r]))
  IN  IF SlotDue(r) THEN Applied(s1, Head(ring[r]), Head(relay[r])) ELSE s1

Computed(r) ==
  [q \in Reqs |->
     IF Head(work[r])[q].n = 0 THEN NoInput
     ELSE IF r = 0 THEN InputOf(q, Head(work[r])[q], Corrected(r)[q])
     ELSE Staged(Head(hidden[r])[q], Head(work[r])[q], Corrected(r)[q])]

LEMMA ExecuteIs ==
  ASSUME NEW r \in Ranks, Execute(r)
  PROVE  /\ r < Last /\ work[r] # <<>> /\ (r > 0 => hidden[r] # <<>>)
         /\ SlotDue(r) => relay[r] # <<>>
         /\ work' = [work EXCEPT ![r] = Tail(work[r])]
         /\ hidden' = [x \in Ranks |-> IF x = r + 1 THEN Append(hidden[x], Computed(r))
                                       ELSE IF x = r /\ r > 0 THEN Tail(hidden[x]) ELSE hidden[x]]
         /\ state' = [state EXCEPT ![r] = Advanced(Corrected(r), Head(work[r]))]
         /\ ring' = [ring EXCEPT ![r] = Append(IF RingFull(r) THEN Tail(ring[r]) ELSE ring[r],
                                               Receive(Head(work[r]), Corrected(r)))]
         /\ relay' = IF SlotDue(r) THEN [relay EXCEPT ![r] = Tail(relay[r])] ELSE relay
         /\ UNCHANGED <<schedVars, out, cached, results, drafted, buffer, sending>>
  <1>1. hidden' = [x \in Ranks |-> CASE x = r + 1      -> Append(hidden[x], Computed(r))
                                     [] x = r /\ r > 0 -> Tail(hidden[x])
                                     [] OTHER          -> hidden[x]]
    BY Zenon DEF Execute, Corrected, Computed
  <1>2. \A x \in Ranks : ~(x = r + 1 /\ x = r /\ r > 0)
    BY RankFacts
  <1>3. \A x \in Ranks :
          (CASE x = r + 1      -> Append(hidden[x], Computed(r))
             [] x = r /\ r > 0 -> Tail(hidden[x])
             [] OTHER          -> hidden[x])
          = IF x = r + 1 THEN Append(hidden[x], Computed(r))
            ELSE IF x = r /\ r > 0 THEN Tail(hidden[x]) ELSE hidden[x]
    BY <1>2
  <1>4. hidden' = [x \in Ranks |-> IF x = r + 1 THEN Append(hidden[x], Computed(r))
                                   ELSE IF x = r /\ r > 0 THEN Tail(hidden[x]) ELSE hidden[x]]
    BY <1>1, <1>3, Zenon
  <1>q. QED BY <1>4 DEF Execute, Corrected, Delivered

LEMMA ExecuteAligned ==
  ASSUME NEW H, NEW S, NEW R, NEW E, NEW N, Aligned(H, S, R, E, N), NEW r \in Ranks, Execute(r)
  PROVE  /\ Aligned(H, S, R, [E EXCEPT ![r] = E[r] + 1], N)'
         /\ r \in 0..(Last - 1) /\ E[r] + 1 <= S /\ Head(work[r]) = H[E[r] + 1]
         /\ r > 0 => E[r] + 1 <= E[r - 1] /\ Head(hidden[r]) = hidden[r][1]
  <1> DEFINE E1 == [E EXCEPT ![r] = E[r] + 1]
             b  == H[E[r] + 1]
  <1>1. /\ Counters(S, R, E, N) /\ Loose /\ QueueIs(H, S, R) /\ WorkIs(H, S, E) /\ HiddenIs(E)
        /\ RingIs(H, E) /\ RelayIs(H, E, N) /\ ResultsIs(H, R, E)
    BY DEF Aligned
  <1>2. /\ S \in Nat /\ R \in Nat /\ E \in [Ranks -> Nat] /\ N \in Nat
        /\ \A x \in Ranks : E[x] \in Nat /\ E[x] <= S
        /\ \A a, x \in Ranks : a <= x => E[x] <= E[a]
    BY <1>1 DEF Counters
  <1>3. r \in 0..(Last - 1) /\ r \in Nat /\ r # Last /\ r + 1 \in Ranks /\ r <= Last
    BY RankFacts DEF Execute
  <1>4. /\ work[r] # <<>> /\ (r > 0 => hidden[r] # <<>>)
        /\ work' = [work EXCEPT ![r] = Tail(work[r])]
        /\ relay' = IF SlotDue(r) THEN [relay EXCEPT ![r] = Tail(relay[r])] ELSE relay
        /\ SlotDue(r) => relay[r] # <<>>
        /\ UNCHANGED <<gen, ntok, ncomp, spec, queue, results, drafted, sending>>
    BY ExecuteIs DEF schedVars
  <1>5. /\ IsSeq(work[r]) /\ Len(work[r]) = S - E[r] /\ E[r] \in Nat
        /\ \A i \in 1..(S - E[r]) : work[r][i] = H[E[r] + i]
    BY <1>1, <1>2 DEF WorkIs
  <1>6. E[r] + 1 <= S /\ Head(work[r]) = b
    <2>1. Len(work[r]) > 0 /\ Head(work[r]) = work[r][1]
      BY <1>4, <1>5, TailIs
    <2>2. E[r] + 1 <= S /\ 1 \in 1..(S - E[r])
      BY <1>2, <1>5, <2>1
    <2>q. QED BY <1>5, <2>1, <2>2
  <1>7. r > 0 => /\ r - 1 \in Ranks /\ E[r] + 1 <= E[r - 1] /\ Head(hidden[r]) = hidden[r][1]
                 /\ IsSeq(Tail(hidden[r])) /\ Len(Tail(hidden[r])) = Len(hidden[r]) - 1
    <2>1. ASSUME r > 0 PROVE r - 1 \in Ranks
      BY <1>3, <2>1, PPSchedulerAssumption DEF Ranks, Last
    <2>2. ASSUME r > 0 PROVE /\ IsSeq(hidden[r]) /\ Len(hidden[r]) = E[r - 1] - E[r]
      BY <1>1, <2>2 DEF HiddenIs
    <2>3. ASSUME r > 0
          PROVE  /\ Len(hidden[r]) > 0 /\ Head(hidden[r]) = hidden[r][1]
                 /\ IsSeq(Tail(hidden[r])) /\ Len(Tail(hidden[r])) = Len(hidden[r]) - 1
      BY <1>4, <2>2, <2>3, TailIs
    <2>q. QED BY <1>2, <2>1, <2>2, <2>3
  <1>8. E1 \in [Ranks -> Nat] /\ E1[r] = E[r] + 1 /\ (\A x \in Ranks : x # r => E1[x] = E[x])
    BY <1>2
  <1> HIDE DEF E1
  <1>9. Counters(S, R, E1, N)
    <2>1. ASSUME NEW a \in Ranks, NEW x \in Ranks, a <= x PROVE E1[x] <= E1[a]
      <3>1. CASE x = r /\ a # r
        <4>1. r > 0 /\ a <= r - 1 /\ a \in Nat
          BY <1>3, <2>1, <3>1, RankFacts
        <4>2. E[r - 1] <= E[a]
          BY <1>2, <1>7, <4>1
        <4>q. QED BY <1>2, <1>7, <1>8, <3>1, <4>1, <4>2
      <3>2. CASE x # r
        BY <1>2, <1>8, <2>1, <3>2
      <3>q. QED BY <1>2, <1>8, <3>1, <3>2
    <2>2. R <= E1[Last] /\ S <= R + PP
      BY <1>1, <1>3, <1>8, RankFacts DEF Counters
    <2>q. QED BY <1>2, <1>6, <1>8, <2>1, <2>2 DEF Counters
  <1>10. Loose' /\ QueueIs(H, S, R)' /\ ResultsIs(H, R, E1)'
    <2>1. E1[Last] = E[Last]
      BY <1>3, <1>8, RankFacts
    <2>q. QED BY <1>1, <1>4, <2>1 DEF Loose, QueueIs, ResultsIs
  <1>11. WorkIs(H, S, E1)'
    <2>1. /\ IsSeq(Tail(work[r])) /\ Len(Tail(work[r])) = (S - E[r]) - 1
          /\ \A i \in 1..((S - E[r]) - 1) : Tail(work[r])[i] = work[r][i + 1]
      BY <1>4, <1>5, TailIs
    <2>2. \A i \in 1..(S - E1[r]) : Tail(work[r])[i] = H[E1[r] + i]
      <3>1. ASSUME NEW i \in 1..(S - E1[r]) PROVE Tail(work[r])[i] = H[E1[r] + i]
        <4>1. /\ i \in 1..((S - E[r]) - 1) /\ i + 1 \in 1..(S - E[r])
              /\ E[r] + (i + 1) = E1[r] + i
          <5>1. S \in Nat /\ E[r] \in Nat /\ E[r] + 1 <= S /\ E1[r] = E[r] + 1
            BY <1>2, <1>5, <1>6, <1>8
          <5>q. QED BY <5>1
        <4>q. QED BY <1>5, <2>1, <4>1
      <3>q. QED BY <3>1
    <2>3. (S - E[r]) - 1 = S - E1[r]
      BY <1>2, <1>5, <1>8
    <2>4. DOMAIN work' = Ranks /\ work'[r] = Tail(work[r]) /\ \A x \in Ranks : x # r => work'[x] = work[x]
      BY <1>1, <1>4 DEF WorkIs
    <2>5. ASSUME NEW x \in Ranks
          PROVE  /\ IsSeq(work'[x]) /\ Len(work'[x]) = S - E1[x]
                 /\ \A i \in 1..(S - E1[x]) : work'[x][i] = H[E1[x] + i]
      <3>1. CASE x = r
        BY <2>1, <2>2, <2>3, <2>4, <3>1
      <3>2. CASE x # r
        BY <1>1, <1>8, <2>4, <3>2 DEF WorkIs
      <3>q. QED BY <3>1, <3>2
    <2>q. QED BY <2>4, <2>5 DEF WorkIs
  <1>12. HiddenIs(E1)'
    <2>2. PICK in : hidden' = [x \in Ranks |-> IF x = r + 1 THEN Append(hidden[x], in)
                                               ELSE IF x = r /\ r > 0 THEN Tail(hidden[x]) ELSE hidden[x]]
      BY ExecuteIs
    <2>3. /\ \A x \in Ranks : IsSeq(hidden[x])
          /\ \A x \in Ranks : Len(hidden[x]) = IF x = 0 THEN 0 ELSE E[x - 1] - E[x]
      BY <1>1 DEF HiddenIs
    <2>4. ASSUME NEW x \in Ranks
          PROVE  IsSeq(hidden'[x]) /\ Len(hidden'[x]) = IF x = 0 THEN 0 ELSE E1[x - 1] - E1[x]
      <3>0. x \in Nat /\ x <= Last /\ E[x] \in Nat /\ (x # 0 => x - 1 \in Ranks)
        BY <1>2, RankFacts, PPSchedulerAssumption DEF Ranks, Last
      <3>1. CASE x = r + 1
        <4>1. hidden'[x] = Append(hidden[x], in)
          BY <1>3, <2>2, <3>0, <3>1
        <4>2. IsSeq(hidden'[x]) /\ Len(hidden'[x]) = Len(hidden[x]) + 1
          BY <2>3, <4>1, AppendIs
        <4>3. x # 0 /\ x - 1 = r /\ x # r /\ Len(hidden[x]) = E[r] - E[x]
          BY <1>3, <2>3, <3>1
        <4>4. E1[x - 1] - E1[x] = (E[r] - E[x]) + 1
          BY <1>5, <1>8, <3>0, <4>3
        <4>q. QED BY <4>2, <4>3, <4>4
      <3>2. CASE x = r /\ r > 0
        <4>1. hidden'[x] = Tail(hidden[x])
          BY <1>3, <2>2, <3>2
        <4>2. Len(hidden[x]) = E[x - 1] - E[x] /\ E1[x - 1] = E[x - 1] /\ E1[x] = E[x] + 1
          BY <1>3, <1>7, <1>8, <2>3, <3>2
        <4>q. QED BY <1>2, <1>7, <3>0, <3>2, <4>1, <4>2
      <3>3. CASE x # r + 1 /\ ~(x = r /\ r > 0)
        <4>1. hidden'[x] = hidden[x]
          BY <2>2, <3>3
        <4>2. x # 0 => x # r /\ x - 1 # r
          BY <1>3, <3>0, <3>3
        <4>q. QED BY <1>8, <2>3, <3>0, <4>1, <4>2
      <3>q. QED BY <3>1, <3>2, <3>3
    <2>q. QED BY <2>2, <2>4 DEF HiddenIs
  <1>13. PICK s2 : ring' = [ring EXCEPT ![r] = Append(IF RingFull(r) THEN Tail(ring[r]) ELSE ring[r],
                                                      Receive(b, s2))]
    <2>1. ring' = [ring EXCEPT ![r] = Append(IF RingFull(r) THEN Tail(ring[r]) ELSE ring[r],
                                             Receive(Head(work[r]), Corrected(r)))]
      BY ExecuteIs
    <2>q. QED BY <1>6, <2>1
  <1>14. Receive(b, s2).mask = NeedSampled(b, K) /\ Receive(b, s2).posted = (Receive(b, s2).mask # {})
    BY DEF Receive, Skipped
  <1>15. PICK o : o = Oldest(E, r)
    OBVIOUS
  <1>16. /\ o \in Nat /\ o <= E[r]
         /\ Oldest(E1, r) = IF E[r] >= PP THEN o + 1 ELSE o
         /\ E[r] >= PP => o = E[r] - PP
         /\ E[r] < PP => o = 0
    <2>1. r \in Ranks /\ PP \in Nat
      BY PPSchedulerAssumption
    <2>2. /\ Oldest(E1, r) \in Nat
          /\ E1[r] >= PP => Oldest(E1, r) = E1[r] - PP
          /\ E1[r] < PP => Oldest(E1, r) = 0
      BY <1>8, <2>1, OldestIs
    <2>3. /\ o \in Nat /\ o <= E[r] /\ (E[r] >= PP => o = E[r] - PP) /\ (E[r] < PP => o = 0)
      BY <1>2, <1>15, OldestIs
    <2>q. QED BY <1>5, <1>8, <2>1, <2>2, <2>3
  <1>17. \A x \in Ranks : x # r => Oldest(E1, x) = Oldest(E, x)
    BY <1>8 DEF Oldest
  <1>18. RingIs(H, E1)'
    <2>1. PICK t : t = IF RingFull(r) THEN Tail(ring[r]) ELSE ring[r]
      OBVIOUS
    <2>2. /\ IsSeq(t) /\ Len(t) = E[r] - Oldest(E1, r)
          /\ \A i \in 1..Len(t) : /\ t[i].mask = NeedSampled(H[Oldest(E1, r) + i], K)
                                  /\ t[i].posted = (t[i].mask # {})
      <3>1. /\ IsSeq(ring[r]) /\ Len(ring[r]) = E[r] - o
            /\ \A i \in 1..Len(ring[r]) : /\ ring[r][i].mask = NeedSampled(H[o + i], K)
                                          /\ ring[r][i].posted = (ring[r][i].mask # {})
        BY <1>1, <1>3, <1>15 DEF RingIs
      <3>2. (RingFull(r) <=> E[r] >= PP) /\ (E[r] >= PP => ring[r] # <<>>)
        BY <1>3, SlotIs
      <3>3. CASE E[r] >= PP
        <4>1. /\ t = Tail(ring[r]) /\ IsSeq(t) /\ Len(t) = (E[r] - o) - 1 /\ E[r] - o \in Nat
              /\ \A i \in 1..((E[r] - o) - 1) : t[i] = ring[r][i + 1]
          BY <2>1, <3>1, <3>2, <3>3, TailIs
        <4>2. ASSUME NEW i \in 1..Len(t)
              PROVE  t[i].mask = NeedSampled(H[Oldest(E1, r) + i], K) /\ t[i].posted = (t[i].mask # {})
          <5>1. /\ i + 1 \in 1..Len(ring[r]) /\ o + (i + 1) = Oldest(E1, r) + i
                /\ i \in 1..((E[r] - o) - 1)
            BY <1>5, <1>16, <3>1, <3>3, <4>1
          <5>q. QED BY <3>1, <4>1, <5>1
        <4>3. (E[r] - o) - 1 = E[r] - Oldest(E1, r)
          BY <1>5, <1>16, <3>3
        <4>q. QED BY <4>1, <4>2, <4>3
      <3>4. CASE E[r] < PP
        <4>1. ~(E[r] >= PP)
          BY <1>5, <3>4, PPSchedulerAssumption
        <4>q. QED BY <1>16, <2>1, <3>1, <3>2, <4>1
      <3>q. QED BY <1>5, <3>3, <3>4, PPSchedulerAssumption
    <2>3. DOMAIN ring' = Ranks /\ ring'[r] = Append(t, Receive(b, s2)) /\ \A x \in Ranks : x # r => ring'[x] = ring[x]
      BY <1>1, <1>13, <2>1 DEF RingIs
    <2>4. /\ IsSeq(ring'[r]) /\ Len(ring'[r]) = E1[r] - Oldest(E1, r)
          /\ \A i \in 1..Len(ring'[r]) : /\ ring'[r][i].mask = NeedSampled(H[Oldest(E1, r) + i], K)
                                         /\ ring'[r][i].posted = (ring'[r][i].mask # {})
      <3>1. /\ IsSeq(ring'[r]) /\ Len(ring'[r]) = Len(t) + 1 /\ Len(t) \in Nat
            /\ \A i \in 1..Len(t) : ring'[r][i] = t[i]
            /\ ring'[r][Len(t) + 1] = Receive(b, s2)
        BY <2>2, <2>3, AppendIs
      <3>2. Oldest(E1, r) \in Nat
        BY <1>16
      <3>3. Oldest(E1, r) + (Len(t) + 1) = E[r] + 1
        BY <1>5, <2>2, <3>2
      <3>4. ASSUME NEW i \in 1..Len(ring'[r])
            PROVE  ring'[r][i].mask = NeedSampled(H[Oldest(E1, r) + i], K) /\ ring'[r][i].posted = (ring'[r][i].mask # {})
        <4>1. CASE i = Len(t) + 1
          BY <1>14, <3>1, <3>3, <4>1
        <4>2. CASE i # Len(t) + 1
          BY <2>2, <3>1, <4>2, SMTT(30)
        <4>q. QED BY <4>1, <4>2
      <3>5. Len(t) + 1 = E1[r] - Oldest(E1, r)
        BY <1>5, <1>8, <2>2, <3>2
      <3>q. QED BY <3>1, <3>4, <3>5
    <2>5. ASSUME NEW x \in 0..(Last - 1), x # r
          PROVE  /\ IsSeq(ring'[x]) /\ Len(ring'[x]) = E1[x] - Oldest(E1, x)
                 /\ \A i \in 1..Len(ring'[x]) : /\ ring'[x][i].mask = NeedSampled(H[Oldest(E1, x) + i], K)
                                                /\ ring'[x][i].posted = (ring'[x][i].mask # {})
      <3>1. x \in Ranks
        BY RankFacts
      <3>2. ring'[x] = ring[x] /\ Oldest(E1, x) = Oldest(E, x) /\ E1[x] = E[x]
        BY <1>8, <1>17, <2>3, <2>5, <3>1
      <3>q. QED BY <1>1, <3>2 DEF RingIs
    <2>q. QED BY <2>3, <2>4, <2>5 DEF RingIs
  <1>19. RelayIs(H, E1, N)'
    <2>1. E1[Last] = E[Last] /\ DOMAIN relay' = Ranks /\ IsSeq(sending') /\ Len(sending') = Count(H, E1[Last]) - N
      <3>1. E1[Last] = E[Last]
        BY <1>3, <1>8, RankFacts
      <3>q. QED BY <1>1, <1>4, <3>1 DEF RelayIs
    <2>2. IsSeq(relay[r]) /\ Len(relay[r]) = N - Count(H, o)
      BY <1>1, <1>3, <1>15 DEF RelayIs
    <2>3. SlotDue(r) <=> E[r] >= PP /\ NeedSampled(H[(E[r] - PP) + 1], K) # {}
      BY <1>3, SlotIs
    <2>4. Count(H, o + 1) = (IF NeedSampled(H[o + 1], K) # {} THEN Count(H, o) + 1 ELSE Count(H, o)) /\ Count(H, o) \in Nat
      BY <1>16, CountNext, NeededFinite
    <2>5. IsSeq(relay'[r]) /\ Len(relay'[r]) = N - Count(H, Oldest(E1, r))
      <3>1. CASE SlotDue(r)
        <4>1. relay'[r] = Tail(relay[r])
          BY <1>1, <1>4, <3>1 DEF RelayIs
        <4>2. IsSeq(relay'[r]) /\ Len(relay'[r]) = (N - Count(H, o)) - 1
          BY <1>4, <2>2, <3>1, <4>1, TailIs
        <4>3. Count(H, Oldest(E1, r)) = Count(H, o) + 1
          BY <1>16, <2>3, <2>4, <3>1
        <4>q. QED BY <1>2, <2>4, <4>2, <4>3
      <3>2. CASE ~SlotDue(r)
        <4>1. relay'[r] = relay[r]
          BY <1>4, <3>2
        <4>2. Count(H, Oldest(E1, r)) = Count(H, o)
          BY <1>16, <2>3, <2>4, <3>2
        <4>q. QED BY <2>2, <4>1, <4>2
      <3>q. QED BY <3>1, <3>2
    <2>6. ASSUME NEW x \in 0..(Last - 1), x # r
          PROVE  IsSeq(relay'[x]) /\ Len(relay'[x]) = N - Count(H, Oldest(E1, x))
      <3>1. x \in Ranks
        BY RankFacts
      <3>2. relay'[x] = relay[x] /\ Oldest(E1, x) = Oldest(E, x)
        BY <1>1, <1>4, <1>17, <2>6, <3>1 DEF RelayIs
      <3>q. QED BY <1>1, <3>2 DEF RelayIs
    <2>q. QED BY <2>1, <2>5, <2>6 DEF RelayIs
  <1>q. QED
    BY <1>3, <1>6, <1>7, <1>9, <1>10, <1>11, <1>12, <1>18, <1>19 DEF Aligned, Counters, E1

\* num_sampled of a row of d drafts: as many drafts as agree with the target.
LEMMA AcceptedIs ==
  ASSUME NEW q, NEW w, w.d \in Nat, NEW s, NEW right
  PROVE  /\ Accepted(q, w, s, right) \in 0..w.d
         /\ \A j \in 1..Accepted(q, w, s, right) : s.draft[j] = Target(q, w, s, right, j)
         /\ Accepted(q, w, s, right) < w.d =>
              s.draft[Accepted(q, w, s, right) + 1] # Target(q, w, s, right, Accepted(q, w, s, right) + 1)
  <1> DEFINE B == {j \in 1..w.d : s.draft[j] = Target(q, w, s, right, j)}
  <1>1. \E m \in 0..w.d : (\A j \in 1..m : j \in B) /\ (m < w.d => m + 1 \notin B)
    <2> HIDE DEF B
    <2>q. QED BY LongestPrefix, Zenon
  <1>2. PICK m \in 0..w.d : (\A j \in 1..m : j \in B) /\ (m < w.d => m + 1 \notin B)
    BY <1>1
  <1>3. m < w.d => m + 1 \in 1..w.d
    OBVIOUS
  <1>4. /\ \A j \in 1..m : s.draft[j] = Target(q, w, s, right, j)
        /\ m < w.d => s.draft[m + 1] # Target(q, w, s, right, m + 1)
    BY <1>2, <1>3, Zenon
  <1>q. QED BY <1>4 DEF Accepted

\* What the last rank makes of the rows of its next batch.
SampledRows(h) ==
  LET b  == Head(work[Last])
      st == Added(state[Last], b)
  IN  [q \in Reqs |->
         IF b[q].n > 0 THEN SampleRow(q, b[q], st[q], Head(hidden[Last])[q], h[q])
         ELSE [acc |-> 0, toks |-> <<>>, right |-> cached[q], state |-> st[q]]]

LEMMA ExecuteLastIs ==
  ASSUME NEW h, ExecuteLast(h)
  PROVE  /\ work[Last] # <<>> /\ hidden[Last] # <<>>
         /\ work' = [work EXCEPT ![Last] = Tail(work[Last])]
         /\ hidden' = [hidden EXCEPT ![Last] = Tail(hidden[Last])]
         /\ state' = [state EXCEPT ![Last] = [q \in Reqs |-> SampledRows(h)[q].state]]
         /\ cached' = [q \in Reqs |-> SampledRows(h)[q].right]
         /\ sending' = IF NeedSampled(Head(work[Last]), K) # {}
                       THEN Append(sending, Payload(Head(work[Last]), SampledRows(h))) ELSE sending
         /\ results' = Append(results, [q \in Reqs |-> [acc |-> SampledRows(h)[q].acc,
                                                        toks |-> SampledRows(h)[q].toks]])
         /\ drafted' = IF InBatch(Head(work[Last])) # {} THEN InBatch(Head(work[Last])) ELSE drafted
         /\ UNCHANGED <<schedVars, out, ring, relay>>
  BY Zenon DEF ExecuteLast, SampledRows, SendsRelay

LEMMA ExecuteLastAligned ==
  ASSUME NEW H, NEW S, NEW R, NEW E, NEW N, Aligned(H, S, R, E, N), NEW h, ExecuteLast(h)
  PROVE  /\ Aligned(H, S, R, [E EXCEPT ![Last] = E[Last] + 1], N)'
         /\ Last > 0 /\ E[Last] + 1 <= S /\ Head(work[Last]) = H[E[Last] + 1]
         /\ E[Last] + 1 <= E[Last - 1] /\ Head(hidden[Last]) = hidden[Last][1]
  <1> DEFINE E1 == [E EXCEPT ![Last] = E[Last] + 1]
             b  == H[E[Last] + 1]
  <1>1. /\ Counters(S, R, E, N) /\ Loose /\ QueueIs(H, S, R) /\ WorkIs(H, S, E) /\ HiddenIs(E)
        /\ RingIs(H, E) /\ RelayIs(H, E, N) /\ ResultsIs(H, R, E)
    BY DEF Aligned
  <1>2. /\ S \in Nat /\ R \in Nat /\ E \in [Ranks -> Nat] /\ N \in Nat
        /\ \A x \in Ranks : E[x] \in Nat /\ E[x] <= S
        /\ \A a, x \in Ranks : a <= x => E[x] <= E[a]
    BY <1>1 DEF Counters
  <1>3. Last \in Ranks /\ Last \in Nat /\ \A x \in Ranks : x \in Nat /\ x <= Last
    BY RankFacts
  <1>4. /\ work[Last] # <<>> /\ hidden[Last] # <<>>
        /\ work' = [work EXCEPT ![Last] = Tail(work[Last])]
        /\ hidden' = [hidden EXCEPT ![Last] = Tail(hidden[Last])]
        /\ sending' = IF NeedSampled(Head(work[Last]), K) # {}
                      THEN Append(sending, Payload(Head(work[Last]), SampledRows(h))) ELSE sending
        /\ results' = Append(results, [q \in Reqs |-> [acc |-> SampledRows(h)[q].acc,
                                                       toks |-> SampledRows(h)[q].toks]])
        /\ drafted' = drafted \/ drafted' = InBatch(Head(work[Last]))
        /\ UNCHANGED <<gen, ntok, ncomp, spec, queue, ring, relay>>
    BY ExecuteLastIs DEF schedVars
  <1>5. /\ IsSeq(work[Last]) /\ Len(work[Last]) = S - E[Last] /\ E[Last] \in Nat
        /\ \A i \in 1..(S - E[Last]) : work[Last][i] = H[E[Last] + i]
    BY <1>1, <1>2, <1>3 DEF WorkIs
  <1>6. /\ Head(work[Last]) = work[Last][1] /\ E[Last] + 1 <= S
        /\ IsSeq(Tail(work[Last])) /\ Len(Tail(work[Last])) = (S - E[Last]) - 1
        /\ \A i \in 1..((S - E[Last]) - 1) : Tail(work[Last])[i] = work[Last][i + 1]
    <2>1. /\ Head(work[Last]) = work[Last][1] /\ Len(work[Last]) > 0
          /\ IsSeq(Tail(work[Last])) /\ Len(Tail(work[Last])) = Len(work[Last]) - 1
          /\ \A i \in 1..(Len(work[Last]) - 1) : Tail(work[Last])[i] = work[Last][i + 1]
      BY <1>4, <1>5, TailIs
    <2>q. QED BY <1>2, <1>5, <2>1
  <1>7. Head(work[Last]) = b /\ b \in [Reqs -> LooseEntry]
    <2>1. 1 \in 1..(S - E[Last]) /\ E[Last] + 1 \in 1..S
      BY <1>2, <1>5, <1>6
    <2>q. QED BY <1>1, <1>5, <1>6, <2>1 DEF QueueIs
  <1>8. /\ IsSeq(hidden[Last]) /\ Head(hidden[Last]) = hidden[Last][1] /\ Len(hidden[Last]) > 0
        /\ IsSeq(Tail(hidden[Last])) /\ Len(Tail(hidden[Last])) = Len(hidden[Last]) - 1
    <2>1. IsSeq(hidden[Last])
      BY <1>1, <1>3 DEF HiddenIs
    <2>q. QED BY <1>4, <2>1, TailIs
  <1>9. Last > 0 /\ Len(hidden[Last]) = E[Last - 1] - E[Last] /\ Last - 1 \in Ranks /\ E[Last] + 1 <= E[Last - 1]
    <2>1. Len(hidden[Last]) = IF Last = 0 THEN 0 ELSE E[Last - 1] - E[Last]
      BY <1>1, <1>3 DEF HiddenIs
    <2>2. Last > 0
      BY <1>3, <1>8, <2>1
    <2>3. Last - 1 \in Ranks
      BY <1>3, <2>2 DEF Ranks, Last
    <2>q. QED BY <1>2, <1>5, <1>8, <2>1, <2>2, <2>3
  <1>10. E1 \in [Ranks -> Nat] /\ E1[Last] = E[Last] + 1 /\ (\A x \in Ranks : x # Last => E1[x] = E[x])
    BY <1>2, <1>3
  <1> HIDE DEF E1
  <1>11. Counters(S, R, E1, N)
    <2>1. ASSUME NEW a \in Ranks, NEW x \in Ranks, a <= x PROVE E1[x] <= E1[a]
      <3>1. CASE x = Last /\ a # Last
        <4>1. a <= Last - 1 /\ a \in Nat
          BY <1>3, <3>1
        <4>2. E[Last - 1] <= E[a]
          BY <1>2, <1>9, <4>1
        <4>q. QED BY <1>2, <1>9, <1>10, <3>1, <4>2
      <3>2. CASE x # Last
        <4>1. a # Last
          BY <1>3, <2>1, <3>2
        <4>q. QED BY <1>2, <1>10, <2>1, <3>2, <4>1
      <3>q. QED BY <1>2, <1>10, <3>1, <3>2
    <2>2. R <= E1[Last] /\ S <= R + PP
      BY <1>1, <1>2, <1>5, <1>10 DEF Counters
    <2>q. QED BY <1>2, <1>6, <1>10, <2>1, <2>2 DEF Counters
  <1>12. Loose' /\ QueueIs(H, S, R)'
    <2>1. drafted' \subseteq Reqs
      BY <1>1, <1>4 DEF Loose, InBatch
    <2>q. QED BY <1>1, <1>4, <2>1 DEF Loose, QueueIs
  <1>13. WorkIs(H, S, E1)'
    <2>1. ASSUME NEW i \in 1..(S - E1[Last]) PROVE Tail(work[Last])[i] = H[E1[Last] + i]
      <3>0. S \in Nat /\ E[Last] \in Nat /\ E[Last] + 1 <= S /\ E1[Last] = E[Last] + 1
        BY <1>2, <1>5, <1>6, <1>10
      <3>1. /\ i \in 1..((S - E[Last]) - 1) /\ i + 1 \in 1..(S - E[Last])
            /\ E[Last] + (i + 1) = E1[Last] + i
        BY <3>0
      <3>q. QED BY <1>5, <1>6, <3>1
    <2>2. (S - E[Last]) - 1 = S - E1[Last]
      BY <1>2, <1>5, <1>10
    <2>3. DOMAIN work' = Ranks /\ work'[Last] = Tail(work[Last]) /\ \A x \in Ranks : x # Last => work'[x] = work[x]
      BY <1>1, <1>3, <1>4 DEF WorkIs
    <2>4. ASSUME NEW x \in Ranks
          PROVE  /\ IsSeq(work'[x]) /\ Len(work'[x]) = S - E1[x]
                 /\ \A i \in 1..(S - E1[x]) : work'[x][i] = H[E1[x] + i]
      <3>1. CASE x = Last
        BY <1>6, <2>1, <2>2, <2>3, <3>1
      <3>2. CASE x # Last
        BY <1>1, <1>10, <2>3, <3>2 DEF WorkIs
      <3>q. QED BY <3>1, <3>2
    <2>q. QED BY <2>3, <2>4 DEF WorkIs
  <1>14. HiddenIs(E1)'
    <2>1. DOMAIN hidden' = Ranks /\ hidden'[Last] = Tail(hidden[Last]) /\ \A x \in Ranks : x # Last => hidden'[x] = hidden[x]
      BY <1>1, <1>3, <1>4 DEF HiddenIs
    <2>2. ASSUME NEW x \in Ranks
          PROVE  IsSeq(hidden'[x]) /\ Len(hidden'[x]) = IF x = 0 THEN 0 ELSE E1[x - 1] - E1[x]
      <3>0. x \in Nat /\ (x # 0 => x - 1 \in Ranks /\ x - 1 # Last)
        BY <1>3, RankFacts, PPSchedulerAssumption DEF Ranks, Last
      <3>1. CASE x = Last
        <4>1. E1[x - 1] = E[x - 1] /\ E1[x] = E[x] + 1 /\ x # 0 /\ E[x - 1] \in Nat /\ E[x] \in Nat
          BY <1>2, <1>3, <1>9, <1>10, <3>0, <3>1
        <4>2. hidden'[x] = Tail(hidden[Last]) /\ Len(Tail(hidden[Last])) = (E[x - 1] - E[x]) - 1
          BY <1>8, <1>9, <2>1, <3>1
        <4>3. (E[x - 1] - E[x]) - 1 = E1[x - 1] - E1[x]
          BY <4>1
        <4>q. QED BY <1>8, <4>1, <4>2, <4>3
      <3>2. CASE x # Last
        BY <1>1, <1>10, <2>1, <3>0, <3>2 DEF HiddenIs
      <3>q. QED BY <3>1, <3>2
    <2>q. QED BY <2>1, <2>2 DEF HiddenIs
  <1>15. RingIs(H, E1)' /\ \A x \in 0..(Last - 1) : Oldest(E1, x) = Oldest(E, x)
    <2>1. \A x \in 0..(Last - 1) : E1[x] = E[x]
      BY <1>10, RankFacts
    <2>2. \A x \in 0..(Last - 1) : Oldest(E1, x) = Oldest(E, x)
      BY <2>1 DEF Oldest
    <2>q. QED BY <1>1, <1>4, <2>1, <2>2 DEF RingIs
  <1>16. RelayIs(H, E1, N)'
    <2>1. /\ Count(H, E[Last] + 1) = IF NeedSampled(b, K) # {} THEN Count(H, E[Last]) + 1 ELSE Count(H, E[Last])
          /\ Count(H, E[Last]) \in Nat
      BY <1>5, CountNext, NeededFinite
    <2>2. IsSeq(sending) /\ Len(sending) = Count(H, E[Last]) - N
      BY <1>1 DEF RelayIs
    <2>3. IsSeq(sending') /\ Len(sending') = Count(H, E[Last] + 1) - N
      <3>1. CASE NeedSampled(b, K) # {}
        <4>1. sending' = Append(sending, Payload(Head(work[Last]), SampledRows(h)))
          BY <1>4, <1>7, <3>1
        <4>2. IsSeq(sending') /\ Len(sending') = Len(sending) + 1
          BY <2>2, <4>1, AppendIs
        <4>q. QED BY <1>2, <2>1, <2>2, <3>1, <4>2
      <3>2. CASE NeedSampled(b, K) = {}
        BY <1>4, <1>7, <2>1, <2>2, <3>2
      <3>q. QED BY <3>1, <3>2
    <2>4. DOMAIN relay' = Ranks /\ \A x \in 0..(Last - 1) : IsSeq(relay'[x]) /\ Len(relay'[x]) = N - Count(H, Oldest(E1, x))
      BY <1>1, <1>4, <1>15 DEF RelayIs
    <2>q. QED BY <1>10, <2>3, <2>4 DEF RelayIs
  <1>17. ResultsIs(H, R, E1)'
    <2>1. ASSUME NEW q \in Reqs PROVE SampledRows(h)[q].acc \in 0..b[q].d
      <3>1. b[q].d \in Nat
        BY <1>7 DEF LooseEntry
      <3>2. \A s, right : Accepted(q, b[q], s, right) \in 0..b[q].d
        BY <3>1, AcceptedIs
      <3>q. QED BY <1>7, <3>1, <3>2 DEF SampledRows, SampleRow
    <2>2. PICK x : /\ results' = Append(results, x)
                   /\ \A q \in Reqs : x[q].acc = SampledRows(h)[q].acc
      BY <1>4
    <2>3. /\ IsSeq(results) /\ Len(results) = E[Last] - R
          /\ \A i \in 1..(E[Last] - R), q \in Reqs : results[i][q].acc \in 0..H[R + i][q].d
      BY <1>1 DEF ResultsIs
    <2>4. /\ IsSeq(results') /\ Len(results') = (E[Last] - R) + 1
          /\ \A i \in 1..(E[Last] - R) : results'[i] = results[i]
          /\ results'[(E[Last] - R) + 1] = x
      BY <2>2, <2>3, AppendIs
    <2>5. R <= E[Last]
      BY <1>1 DEF Counters
    <2>6. ASSUME NEW i \in 1..(E1[Last] - R), NEW q \in Reqs
          PROVE  results'[i][q].acc \in 0..H[R + i][q].d
      <3>0. R \in Nat /\ E[Last] \in Nat /\ E1[Last] = E[Last] + 1
        BY <1>2, <1>5, <1>10
      <3>1. CASE i = (E[Last] - R) + 1
        <4>1. R + i = E[Last] + 1
          BY <2>5, <3>0, <3>1
        <4>q. QED BY <2>1, <2>2, <2>4, <3>1, <4>1
      <3>2. CASE i # (E[Last] - R) + 1
        <4>1. i \in 1..(E[Last] - R)
          BY <2>5, <3>0, <3>2
        <4>q. QED BY <2>3, <2>4, <4>1
      <3>q. QED BY <3>1, <3>2
    <2>7. (E[Last] - R) + 1 = E1[Last] - R
      BY <1>2, <1>5, <1>10
    <2>q. QED BY <2>4, <2>6, <2>7 DEF ResultsIs
  <1>q. QED
    BY <1>6, <1>7, <1>8, <1>9, <1>11, <1>12, <1>13, <1>14, <1>15, <1>16, <1>17 DEF Aligned, Counters, E1

LEMMA BroadcastAligned ==
  ASSUME NEW H, NEW S, NEW R, NEW E, NEW N, Aligned(H, S, R, E, N), Broadcast
  PROVE  Aligned(H, S, R, E, N + 1)'
  <1>1. /\ Counters(S, R, E, N) /\ Loose /\ QueueIs(H, S, R) /\ WorkIs(H, S, E) /\ HiddenIs(E)
        /\ RingIs(H, E) /\ RelayIs(H, E, N) /\ ResultsIs(H, R, E)
    BY DEF Aligned
  <1>2. PICK msg : /\ sending # <<>> /\ sending' = Tail(sending)
                   /\ relay' = [r \in Ranks |-> IF r < Last THEN Append(relay[r], msg) ELSE relay[r]]
                   /\ UNCHANGED <<gen, ntok, ncomp, spec, queue, work, hidden, ring, results, drafted>>
    BY DEF Broadcast, schedVars
  <1>3. RelayIs(H, E, N + 1)'
    <2>1. N \in Nat /\ E \in [Ranks -> Nat] /\ E[Last] \in Nat /\ Count(H, E[Last]) \in Nat
      BY <1>1, RankFacts, NeededFinite DEF Counters
    <2>2. IsSeq(sending) /\ Len(sending) = Count(H, E[Last]) - N
      BY <1>1 DEF RelayIs
    <2>3. IsSeq(sending') /\ Len(sending') = (Count(H, E[Last]) - N) - 1
      BY <1>2, <2>2, TailIs
    <2>4. ASSUME NEW x \in 0..(Last - 1)
          PROVE  IsSeq(relay'[x]) /\ Len(relay'[x]) = (N + 1) - Count(H, Oldest(E, x))
      <3>1. x \in Ranks /\ x < Last
        BY RankFacts
      <3>2. relay'[x] = Append(relay[x], msg) /\ IsSeq(relay[x]) /\ Len(relay[x]) = N - Count(H, Oldest(E, x))
        BY <1>1, <1>2, <3>1 DEF RelayIs
      <3>3. IsSeq(relay'[x]) /\ Len(relay'[x]) = Len(relay[x]) + 1
        BY <3>2, AppendIs
      <3>4. Count(H, Oldest(E, x)) \in Nat
        BY <2>1, <3>1, OldestIs, NeededFinite
      <3>q. QED BY <2>1, <3>2, <3>3, <3>4
    <2>5. DOMAIN relay' = Ranks /\ (Count(H, E[Last]) - N) - 1 = Count(H, E[Last]) - (N + 1)
      BY <1>2, <2>1
    <2>q. QED BY <2>3, <2>4, <2>5 DEF RelayIs
  <1>4. Counters(S, R, E, N + 1) /\ Loose'
    BY <1>1, <1>2 DEF Counters, Loose
  <1>5. QueueIs(H, S, R)' /\ WorkIs(H, S, E)' /\ HiddenIs(E)' /\ RingIs(H, E)' /\ ResultsIs(H, R, E)'
    BY <1>1, <1>2 DEF QueueIs, WorkIs, HiddenIs, RingIs, ResultsIs
  <1>q. QED BY <1>3, <1>4, <1>5 DEF Aligned, Counters


----------------------------------------------------------------------------
(* For any patches: the scheduler's own steps, and a broadcast per receive   *)

Counted == \E H, S, R, E, N : Aligned(H, S, R, E, N)

LEMMA InitAligned ==
  ASSUME Init, NEW H
  PROVE  Aligned(H, 0, 0, [r \in Ranks |-> 0], 0)
  <1> DEFINE E == [r \in Ranks |-> 0]
  <1>1. Counters(0, 0, E, 0)
    BY RankFacts, PPSchedulerAssumption DEF Counters
  <1>2. Loose
    BY PPSchedulerAssumption DEF Init, SchedInit, Loose
  <1>3. \A r \in Ranks : E[r] = 0 /\ Oldest(E, r) = 0
    BY PPSchedulerAssumption DEF Oldest
  <1>4. /\ queue = <<>> /\ results = <<>> /\ sending = <<>>
        /\ work = [r \in Ranks |-> <<>>] /\ hidden = [r \in Ranks |-> <<>>]
        /\ ring = [r \in Ranks |-> <<>>] /\ relay = [r \in Ranks |-> <<>>]
    BY DEF Init, SchedInit
  <1> HIDE DEF E
  <1>5. QueueIs(H, 0, 0) /\ WorkIs(H, 0, E) /\ ResultsIs(H, 0, E)
    <2>1. QueueIs(H, 0, 0)
      BY <1>4, EmptyIs DEF QueueIs
    <2>2. WorkIs(H, 0, E)
      BY <1>3, <1>4, EmptyIs DEF WorkIs
    <2>3. ResultsIs(H, 0, E)
      BY <1>3, <1>4, EmptyIs, RankFacts DEF ResultsIs
    <2>q. QED BY <2>1, <2>2, <2>3
  <1>6. HiddenIs(E)
    <2>1. \A r \in Ranks : r # 0 => r - 1 \in Ranks
      BY PPSchedulerAssumption DEF Ranks
    <2>q. QED BY <1>3, <1>4, <2>1, EmptyIs DEF HiddenIs
  <1>7. RingIs(H, E) /\ RelayIs(H, E, 0)
    <2>1. Count(H, 0) = 0
      BY NeededFinite
    <2>q. QED BY <1>3, <1>4, <2>1, EmptyIs, RankFacts DEF RingIs, RelayIs
  <1>q. QED BY <1>1, <1>2, <1>5, <1>6, <1>7 DEF Aligned, E

LEMMA StepCounted ==
  ASSUME Counted, [Next]_vars
  PROVE  Counted'
  <1>1. PICK H, S, R, E, N : Aligned(H, S, R, E, N)
    BY DEF Counted
  <1>2. CASE EngineSchedule
    <2>1. S \in Nat
      BY <1>1 DEF Aligned, Counters
    <2>2. PICK G : (\A k \in 1..S : G[k] = H[k]) /\ G[S + 1] = [q \in Reqs |-> Work(q)]
      <3> DEFINE F == [k \in 1..(S + 1) |-> IF k = S + 1 THEN [q \in Reqs |-> Work(q)] ELSE H[k]]
      <3>1. (\A k \in 1..S : F[k] = H[k]) /\ F[S + 1] = [q \in Reqs |-> Work(q)]
        BY <2>1
      <3>q. QED BY <3>1
    <2>3. Aligned(G, S + 1, R, E, N)'
      BY <1>1, <1>2, <2>2, ScheduleAligned
    <2>q. QED BY <2>3 DEF Counted
  <1>3. CASE \E eos \in MayEnd : EngineReport(eos)
    <2>1. Aligned(H, S, R + 1, E, N)'
      BY <1>1, <1>3, ReportAligned
    <2>q. QED BY <2>1 DEF Counted
  <1>4. ASSUME NEW q \in Reqs, EngineAdmit(q) \/ EngineAbort(q) PROVE Counted'
    <2>0. Loose
      BY <1>1 DEF Aligned
    <2>1. Aligned(H, S, R, E, N)'
      BY <1>1, <1>4, <2>0, RequestLoose, OtherAligned
    <2>q. QED BY <2>1 DEF Counted
  <1>5. ASSUME NEW r \in Ranks, Execute(r) PROVE Counted'
    <2>1. Aligned(H, S, R, [E EXCEPT ![r] = E[r] + 1], N)'
      BY <1>1, <1>5, ExecuteAligned
    <2>q. QED BY <2>1 DEF Counted
  <1>6. ASSUME NEW h, ExecuteLast(h) PROVE Counted'
    <2>1. Aligned(H, S, R, [E EXCEPT ![Last] = E[Last] + 1], N)'
      BY <1>1, <1>6, ExecuteLastAligned
    <2>q. QED BY <2>1 DEF Counted
  <1>7. CASE Broadcast
    <2>1. Aligned(H, S, R, E, N + 1)'
      BY <1>1, <1>7, BroadcastAligned
    <2>q. QED BY <2>1 DEF Counted
  <1>8. CASE UNCHANGED vars
    <2>1. Loose'
      BY <1>1, <1>8 DEF Aligned, Loose, vars, workerVars, schedVars
    <2>2. Aligned(H, S, R, E, N)'
      BY <1>1, <1>8, <2>1, OtherAligned DEF vars, workerVars, schedVars
    <2>q. QED BY <2>2 DEF Counted
  <1>q. QED BY <1>2, <1>3, <1>4, <1>5, <1>6, <1>7, <1>8 DEF Next

\* A verdict the last rank gives is one the scheduler allows for.
LEMMA ReportIsVerdict ==
  ASSUME Counted, NEW eos \in MayEnd, EngineReport(eos)
  PROVE  ReportSome
  <1>1. PICK H, S, R, E, N : Aligned(H, S, R, E, N)
    BY DEF Counted
  <1>2. /\ R \in Nat /\ S \in Nat /\ E[Last] \in Nat /\ E[Last] <= S /\ Loose
        /\ QueueIs(H, S, R) /\ ResultsIs(H, R, E)
    BY <1>1, RankFacts DEF Aligned, Counters
  <1>3. /\ R + 1 <= E[Last] /\ Head(queue) = H[R + 1] /\ Head(results) = results[1]
        /\ queue # <<>>
    BY <1>1, ReportAligned
  <1> DEFINE acc == [q \in Reqs |-> Head(results)[q].acc]
  <1>4. Report(acc, eos, drafted)
    BY DEF EngineReport
  <1>5. ASSUME NEW q \in Reqs
        PROVE  acc[q] \in 0..K /\ acc[q] <= Head(queue)[q].d
    <2>1. 1 \in 1..(E[Last] - R) /\ R + 1 \in 1..S
      BY <1>2, <1>3
    <2>2. results[1][q].acc \in 0..H[R + 1][q].d /\ H[R + 1][q].d \in 0..K
      BY <1>2, <2>1 DEF ResultsIs, QueueIs, LooseEntry
    <2>q. QED BY <1>3, <2>2, PPSchedulerAssumption
  <1>6. acc \in Verdicts
    BY <1>5 DEF Verdicts
  <1>7. eos \in SUBSET Reqs /\ drafted \in SUBSET Reqs
    BY <1>2 DEF MayEnd, Loose
  <1>q. QED BY <1>3, <1>4, <1>6, <1>7 DEF ReportSome

LEMMA StepIsScheduler ==
  ASSUME Counted, [Next]_vars
  PROVE  [SchedNext]_schedVars
  <1>1. CASE EngineSchedule
    BY <1>1 DEF EngineSchedule, SchedNext
  <1>2. CASE \E eos \in MayEnd : EngineReport(eos)
    BY <1>2, ReportIsVerdict DEF SchedNext
  <1>3. ASSUME NEW q \in Reqs, EngineAdmit(q) \/ EngineAbort(q) PROVE SchedNext
    BY <1>3 DEF EngineAdmit, EngineAbort, SchedNext
  <1>4. ASSUME NEW r \in Ranks, Execute(r) PROVE UNCHANGED schedVars
    BY <1>4, ExecuteIs
  <1>5. ASSUME NEW h, ExecuteLast(h) PROVE UNCHANGED schedVars
    BY <1>5, ExecuteLastIs
  <1>6. CASE Broadcast
    BY <1>6 DEF Broadcast
  <1>7. CASE UNCHANGED vars
    BY <1>7 DEF vars
  <1>q. QED BY <1>1, <1>2, <1>3, <1>4, <1>5, <1>6, <1>7 DEF Next

LEMMA AlwaysCounted == Spec => []Counted
  <1>1. Init => Counted
    BY InitAligned DEF Counted
  <1>2. Counted /\ [Next]_vars => Counted'
    BY StepCounted
  <1>q. QED BY <1>1, <1>2, PTL DEF Spec

\* With whatever scheduler patches: the server with its ranks, its relay and its
\* rejection sampling takes no step the scheduler of PPScheduler would not take.
THEOREM SchedulerRefined == Spec => RefinesScheduler
  <1>1. Init => SchedInit
    BY DEF Init
  <1>2. Counted /\ [Next]_vars => [SchedNext]_schedVars
    BY StepIsScheduler
  <1>q. QED BY <1>1, <1>2, AlwaysCounted, PTL DEF Spec, RefinesScheduler, SchedSpec

----------------------------------------------------------------------------

\* The broadcasts among the batches from a + 1 to b, counted from a.
LEMMA CountShifted ==
  ASSUME NEW H, NEW a \in Nat, NEW b \in Nat, a <= b
  PROVE  /\ IsFiniteSet({i \in 1..(b - a) : NeedSampled(H[a + i], K) # {}})
         /\ Cardinality({i \in 1..(b - a) : NeedSampled(H[a + i], K) # {}}) = Count(H, b) - Count(H, a)
  <1> DEFINE X == {i \in 1..(b - a) : NeedSampled(H[a + i], K) # {}}
             Y == Needed(H, b) \ Needed(H, a)
             f == [i \in X |-> a + i]
  <1>1. f \in [X -> Y]
    <2>1. ASSUME NEW i \in X PROVE a + i \in Y
      <3>1. i \in 1..(b - a) /\ NeedSampled(H[a + i], K) # {}
        OBVIOUS
      <3>2. a + i \in 1..b /\ a + i \notin 1..a
        BY <3>1
      <3>q. QED BY <3>1, <3>2 DEF Needed
    <2>q. QED BY <2>1
  <1>2. \A i, j \in X : f[i] = f[j] => i = j
    OBVIOUS
  <1>3. \A y \in Y : \E i \in X : f[i] = y
    <2>1. ASSUME NEW y \in Y PROVE y - a \in X /\ f[y - a] = y
      <3>1. y \in 1..b /\ NeedSampled(H[y], K) # {} /\ y \notin 1..a
        BY DEF Needed
      <3>2. y - a \in 1..(b - a) /\ a + (y - a) = y
        BY <3>1
      <3>3. y - a \in X
        BY <3>1, <3>2
      <3>q. QED BY <3>2, <3>3
    <2>q. QED BY <2>1
  <1> HIDE DEF X, Y, f
  <1>4. f \in Bijection(X, Y)
    BY <1>1, <1>2, <1>3, Fun_IsBij
  <1>5. ExistsBijection(Y, X)
    <2>1. ExistsBijection(X, Y)
      BY <1>4, Fun_ExistsBij
    <2>q. QED BY <2>1, Fun_ExistsBijSymmetric
  <1>6. IsFiniteSet(Y) /\ Cardinality(Y) = Count(H, b) - Count(H, a)
    BY CountBetween DEF Y
  <1>7. IsFiniteSet(X) /\ Cardinality(X) = Cardinality(Y)
    BY <1>5, <1>6, FS_Bijection
  <1>q. QED BY <1>6, <1>7 DEF X

LEMMA CountedPaired == Counted => RelayPaired
  <1> SUFFICES ASSUME Counted, NEW r \in 0..(Last - 1)
               PROVE  LET posted == {i \in DOMAIN ring[r] : ring[r][i].posted}
                          ahead  == Len(work[Last]) - Len(work[r])
                          owed   == {i \in 1..ahead : NeedSampled(work[Last][i], K) # {}}
                      IN  Cardinality(posted) = Len(relay[r]) + Len(sending) + Cardinality(owed)
    BY DEF RelayPaired
  <1>1. PICK H, S, R, E, N : Aligned(H, S, R, E, N)
    BY DEF Counted
  <1>2. PICK o, e, l : o = Oldest(E, r) /\ e = E[r] /\ l = E[Last]
    OBVIOUS
  <1>3. r \in Ranks /\ Last \in Ranks /\ r <= Last
    BY RankFacts
  <1>4. o \in Nat /\ e \in Nat /\ l \in Nat /\ o <= e /\ l <= e /\ e <= S /\ S \in Nat /\ N \in Nat
    <2>1. /\ E \in [Ranks -> Nat] /\ E[Last] <= E[r] /\ E[r] <= S /\ S \in Nat /\ N \in Nat
      BY <1>1, <1>3 DEF Aligned, Counters
    <2>2. Oldest(E, r) \in Nat /\ Oldest(E, r) <= E[r]
      BY <1>3, <2>1, OldestIs
    <2>q. QED BY <1>2, <1>3, <2>1, <2>2
  <1>5. Cardinality({i \in DOMAIN ring[r] : ring[r][i].posted}) = Count(H, e) - Count(H, o)
    <2>1. /\ IsSeq(ring[r]) /\ Len(ring[r]) = e - o
          /\ \A i \in 1..Len(ring[r]) : /\ ring[r][i].mask = NeedSampled(H[o + i], K)
                                        /\ ring[r][i].posted = (ring[r][i].mask # {})
      BY <1>1, <1>2 DEF Aligned, RingIs
    <2>2. DOMAIN ring[r] = 1..(e - o)
      <3>1. PICK T : ring[r] \in Seq(T)
        BY <2>1 DEF IsSeq
      <3>q. QED BY <2>1, <3>1
    <2>3. {i \in DOMAIN ring[r] : ring[r][i].posted} = {i \in 1..(e - o) : NeedSampled(H[o + i], K) # {}}
      BY <2>1, <2>2
    <2>q. QED BY <1>4, <2>3, CountShifted
  <1>6. /\ Len(work[Last]) - Len(work[r]) = e - l
        /\ \A i \in 1..(e - l) : work[Last][i] = H[l + i]
    <2>1. /\ Len(work[Last]) = S - l /\ Len(work[r]) = S - e
          /\ \A i \in 1..(S - l) : work[Last][i] = H[l + i]
      BY <1>1, <1>2, <1>3 DEF Aligned, WorkIs
    <2>q. QED BY <1>4, <2>1, SMTT(30)
  <1>7. Cardinality({i \in 1..(Len(work[Last]) - Len(work[r])) : NeedSampled(work[Last][i], K) # {}})
          = Count(H, e) - Count(H, l)
    <2>1. {i \in 1..(Len(work[Last]) - Len(work[r])) : NeedSampled(work[Last][i], K) # {}}
            = {i \in 1..(e - l) : NeedSampled(H[l + i], K) # {}}
      BY <1>6
    <2>q. QED BY <1>4, <2>1, CountShifted
  <1>8. Len(relay[r]) = N - Count(H, o) /\ Len(sending) = Count(H, l) - N
    BY <1>1, <1>2 DEF Aligned, RelayIs
  <1>9. Count(H, o) \in Nat /\ Count(H, e) \in Nat /\ Count(H, l) \in Nat
    BY <1>4, NeededFinite
  <1>q. QED BY <1>4, <1>5, <1>7, <1>8, <1>9

\* With whatever scheduler patches, any number of ranks and any load: every
\* receive a rank has posted has exactly one broadcast, arrived, on the side
\* stream or owed, so no rank waits for one that nobody will send.
THEOREM RelayPairedHolds == Spec => []RelayPaired
  BY CountedPaired, AlwaysCounted, PTL

----------------------------------------------------------------------------
(* With the cadence: what the batches plan and what the rows hold.           *)
(* A[k][q] is the last rank's row of q after the k-th batch.                 *)

Has(H, k, q) == H[k][q].n > 0

\* The last of the first k batches that has a step of q; 0 if none has.
IsPrev(H, k, q, j) ==
  j \in 0..k /\ (j > 0 => Has(H, j, q)) /\ \A i \in (j + 1)..k : ~Has(H, i, q)

Prev(H, k, q) == CHOOSE j \in 0..k : IsPrev(H, k, q, j)

Fresh(g) == [gen |-> g, comp |-> 0, last |-> TokenZero, draft |-> NoDrafts]

\* The row the k-th batch has to find for q: the one its step before left.
Base(H, A, k, q) ==
  LET j == Prev(H, k - 1, q)
  IN  IF j > 0 /\ H[j][q].gen = H[k][q].gen THEN A[j][q] ELSE Fresh(H[k][q].gen)

\* Every token of a row is its own request's, unset or a wrong draft.
Owned(q, s) ==
  \A t \in {s.last} \cup {s.draft[j] : j \in 1..K} :
    t \notin {TokenZero, Wrong} => t[1] = q /\ t[2] = s.gen

RowOK(q, s) ==
  /\ s \in RowState
  /\ s.comp >= PromptLen => s.last = Token(q, s.gen, s.comp)
  /\ Owned(q, s)

\* A step is planned at the position its predecessor left, PP batches after it.
PlannedOn(w, s) ==
  /\ w.gen \in 1..MaxGen /\ w.d <= K /\ w.pos + 1 < MaxLen
  /\ \/ w.pos >= PromptLen /\ w.n = w.d + 1
     \/ w.pos < PromptLen /\ w.d = 0 /\ w.pos + w.n <= PromptLen
  /\ w.pos = s.comp

\* What the scheduler planned for q in the k-th batch: with the cadence, on the
\* row the step before it left, at least PP batches earlier.
Planned(H, A, k, q) ==
  /\ H[k][q] \in BatchEntry
  /\ Has(H, k, q) =>
       /\ PlannedOn(H[k][q], Base(H, A, k, q))
       /\ LET j == Prev(H, k - 1, q)
          IN  j > 0 /\ H[j][q].gen = H[k][q].gen => j + PP <= k
       /\ \A i \in 1..(k - 1) : Has(H, i, q) => H[i][q].gen <= H[k][q].gen

AllPlanned(H, A, S) == \A k \in 1..S, q \in Reqs : Planned(H, A, k, q)

\* The last rank's row after a step it has executed: the accepted drafts only.
Ran(H, A, k, q) ==
  LET w == H[k][q]
      s == A[k][q]
  IN  /\ RowOK(q, s)
      /\ s.gen = w.gen
      /\ IF ProducesSample(w) THEN s.comp \in (w.pos + w.n - w.d)..(w.pos + w.n)
                              ELSE s.comp = w.pos + w.n

AllRan(H, A, e) == \A k \in 1..e, q \in Reqs : Has(H, k, q) => Ran(H, A, k, q)

\* The row the last rank holds is the one its latest step of q left.
LastRowAt(H, A, e, s, q) ==
  LET j == Prev(H, e, q) IN s = IF j = 0 THEN FreshState ELSE A[j][q]

LastRows(H, A, E) ==
  /\ DOMAIN state = Ranks
  /\ DOMAIN state[Last] = Reqs
  /\ cached \in [Reqs -> 0..(MaxLen + K)]
  /\ \A q \in Reqs : /\ LastRowAt(H, A, E[Last], state[Last][q], q)
                     /\ cached[q] >= state[Last][q].comp

\* A rank that is not the last books a step when it executes it and corrects the
\* row PP batches later.
RowAt(H, A, e, s, q) ==
  LET j == Prev(H, e, q)
      w == H[j][q]
  IN  IF j = 0 THEN s = FreshState
      ELSE /\ s \in RowState /\ Owned(q, s)
           /\ s.gen = w.gen
           /\ IF j + PP > e THEN s.comp = w.pos + w.n
              ELSE /\ s.comp = A[j][q].comp
                   /\ s.comp >= PromptLen => s.last = A[j][q].last /\ s.draft = A[j][q].draft

LowerRows(H, A, E) ==
  \A r \in 0..(Last - 1) :
    /\ DOMAIN state[r] = Reqs
    /\ \A q \in Reqs : RowAt(H, A, E[r], state[r][q], q)

\* A slot remembers the request its batch was for.
SlotsMatch(H, E) ==
  \A r \in 0..(Last - 1) : \A i \in 1..Len(ring[r]) : \A q \in NeedSampled(H[Oldest(E, r) + i], K) :
    ring[r][i].gen[q] = H[Oldest(E, r) + i][q].gen

\* The broadcast of the k-th batch, and where to find it: on the side stream
\* until it is one of the N that went out, then at every rank whose slot for the
\* batch is still in the ring.
PayloadOf(H, A, k, p) ==
  \A q \in NeedSampled(H[k], K) :
    p.row[q] = [last     |-> A[k][q].last,
                rejected |-> (H[k][q].pos + H[k][q].n) - A[k][q].comp,
                draft    |-> A[k][q].draft]

PayloadsMatch(H, A, E, N) ==
  \A k \in Needed(H, E[Last]) :
    LET c == Count(H, k)
    IN  /\ c > N => PayloadOf(H, A, k, sending[c - N])
        /\ \A r \in 0..(Last - 1) :
             c <= N /\ c > Count(H, Oldest(E, r)) =>
               PayloadOf(H, A, k, relay[r][c - Count(H, Oldest(E, r))])

\* What travels between ranks is the input the last rank's row calls for.
InputAt(H, A, k, m) ==
  \A q \in Reqs : m[q] = IF Has(H, k, q) THEN InputOf(q, H[k][q], Base(H, A, k, q)) ELSE NoInput

InputsMatch(H, A, E) ==
  \A r \in 1..Last : \A i \in 1..Len(hidden[r]) : InputAt(H, A, E[r] + i, hidden[r][i])

\* A result is right tokens, as many as the row moved on.
ResultAt(H, A, k, res) ==
  \A q \in Reqs :
    LET w == H[k][q]
    IN  IF w.n > 0 /\ ProducesSample(w)
        THEN /\ res[q].acc = A[k][q].comp - (w.pos + w.n - w.d)
             /\ res[q].toks = [j \in 1..(res[q].acc + 1) |-> Token(q, w.gen, (w.pos + w.n - w.d) + j - 1)]
        ELSE res[q].acc = 0 /\ res[q].toks = <<>>

ResultsMatch(H, A, R, E) ==
  \A i \in 1..(E[Last] - R) : ResultAt(H, A, R + i, results[i])

\* The scheduler's counts of a request against its latest step.
Booking(H, A, S, R) ==
  \A q \in Reqs :
    /\ \A k \in 1..S : Has(H, k, q) => H[k][q].gen <= gen[q]
    /\ status[q] = "running" =>
         /\ gen[q] > 0
         /\ LET j == Prev(H, S, q)
            IN  IF j > 0 /\ H[j][q].gen = gen[q]
                THEN /\ wait[q] >= PP - (S - j)
                     /\ j <= R => ncomp[q] = A[j][q].comp
                ELSE ncomp[q] = 0

\* The output reported so far is greedy decoding's.
OutputIs ==
  /\ DOMAIN out = Reqs
  /\ \A q \in Reqs :
       IF gen[q] = 0 THEN out[q] = <<>>
       ELSE ntok[q] >= PromptLen /\ out[q] = Greedy!GreedyOutput(q, gen[q], ntok[q] - PromptLen)

\* What no history is needed for.
Edges(E) ==
  /\ ring[Last] = <<>>
  /\ \E n \in 0..Cardinality(Reqs) : DOMAIN buffer = 1..n

Served(H, A, S, R, E, N) ==
  /\ IInv /\ OutputIs /\ Edges(E)
  /\ AllPlanned(H, A, S) /\ AllRan(H, A, E[Last])
  /\ LastRows(H, A, E) /\ LowerRows(H, A, E)
  /\ SlotsMatch(H, E) /\ PayloadsMatch(H, A, E, N) /\ InputsMatch(H, A, E)
  /\ ResultsMatch(H, A, R, E) /\ Booking(H, A, S, R)

----------------------------------------------------------------------------
(* The step before *)

LEMMA PrevIs ==
  ASSUME NEW H, NEW k \in Nat, NEW q
  PROVE  /\ IsPrev(H, k, q, Prev(H, k, q))
         /\ Prev(H, k, q) \in Nat /\ Prev(H, k, q) <= k
         /\ \A j : IsPrev(H, k, q, j) => j = Prev(H, k, q)
  <1> DEFINE B == {i \in 0..k : ~Has(H, k - i, q) /\ i # k}
  <1>1. \E j \in 0..k : IsPrev(H, k, q, j)
    <2> DEFINE T == {n \in Nat : n <= k /\ (k - n > 0 => Has(H, k - n, q))}
    <2>1. k \in T
      OBVIOUS
    <2>2. PICK n \in T : \A m \in T : n <= m
      <3>1. T \in SUBSET Nat /\ T # {}
        BY <2>1
      <3> HIDE DEF T
      <3>q. QED BY <3>1, LeastNatural
    <2>3. k - n \in 0..k
      OBVIOUS
    <2>4. ASSUME NEW i \in ((k - n) + 1)..k, Has(H, i, q) PROVE FALSE
      <3>1. k - i \in Nat /\ k - i <= k /\ k - (k - i) = i /\ k - i < n
        BY <2>3
      <3>2. k - i \in T
        BY <2>4, <3>1
      <3>q. QED BY <2>2, <3>1, <3>2
    <2>q. QED BY <2>3, <2>4 DEF IsPrev
  <1>2. IsPrev(H, k, q, Prev(H, k, q))
    BY <1>1 DEF Prev
  <1>3. ASSUME NEW i, NEW j, IsPrev(H, k, q, i), IsPrev(H, k, q, j) PROVE ~(i < j)
    <2>1. i \in 0..k /\ j \in 0..k /\ (\A x \in (i + 1)..k : ~Has(H, x, q)) /\ (j > 0 => Has(H, j, q))
      BY <1>3 DEF IsPrev
    <2>q. QED BY <2>1
  <1>4. ASSUME NEW j, IsPrev(H, k, q, j) PROVE j = Prev(H, k, q)
    <2>1. PICK p : p = Prev(H, k, q)
      OBVIOUS
    <2>2. ~(p < j) /\ ~(j < p) /\ p \in 0..k /\ j \in 0..k
      BY <1>2, <1>3, <1>4, <2>1 DEF IsPrev
    <2>q. QED BY <2>1, <2>2
  <1>5. Prev(H, k, q) \in 0..k
    BY <1>2 DEF IsPrev
  <1>q. QED BY <1>2, <1>4, <1>5

\* What is used of it.
LEMMA PrevUse ==
  ASSUME NEW H, NEW k \in Nat, NEW q
  PROVE  /\ Prev(H, k, q) \in Nat /\ Prev(H, k, q) <= k
         /\ Prev(H, k, q) > 0 => Has(H, Prev(H, k, q), q)
         /\ \A i \in 1..k : Has(H, i, q) => i <= Prev(H, k, q)
  <1>1. PICK p : p = Prev(H, k, q)
    OBVIOUS
  <1>2. p \in 0..k /\ (p > 0 => Has(H, p, q)) /\ \A i \in (p + 1)..k : ~Has(H, i, q)
    BY <1>1, PrevIs DEF IsPrev
  <1>q. QED BY <1>1, <1>2

LEMMA PrevNext ==
  ASSUME NEW H, NEW k \in Nat, NEW q
  PROVE  /\ Prev(H, k + 1, q) = IF Has(H, k + 1, q) THEN k + 1 ELSE Prev(H, k, q)
         /\ Prev(H, 0, q) = 0
  <1>1. PICK p : p = Prev(H, k, q)
    OBVIOUS
  <1>2. p \in 0..k /\ (p > 0 => Has(H, p, q)) /\ \A i \in (p + 1)..k : ~Has(H, i, q)
    BY <1>1, PrevIs DEF IsPrev
  <1>3. CASE Has(H, k + 1, q)
    <2>1. IsPrev(H, k + 1, q, k + 1)
      BY <1>3 DEF IsPrev
    <2>q. QED BY <1>3, <2>1, PrevIs
  <1>4. CASE ~Has(H, k + 1, q)
    <2>1. p \in 0..(k + 1) /\ \A i \in (p + 1)..(k + 1) : ~Has(H, i, q)
      BY <1>2, <1>4
    <2>2. IsPrev(H, k + 1, q, p)
      BY <1>2, <2>1 DEF IsPrev
    <2>q. QED BY <1>1, <1>4, <2>2, PrevIs
  <1>5. Prev(H, 0, q) = 0
    BY PrevUse
  <1>q. QED BY <1>3, <1>4, <1>5

\* The step before is the same from any batch between.
LEMMA PrevBetween ==
  ASSUME NEW H, NEW a \in Nat, NEW k \in Nat, NEW q, Prev(H, k, q) <= a, a <= k
  PROVE  Prev(H, a, q) = Prev(H, k, q)
  <1>1. PICK p : p = Prev(H, k, q)
    OBVIOUS
  <1>2. p \in 0..k /\ (p > 0 => Has(H, p, q)) /\ \A i \in (p + 1)..k : ~Has(H, i, q)
    BY <1>1, PrevIs DEF IsPrev
  <1>3. p \in 0..a /\ \A i \in (p + 1)..a : ~Has(H, i, q)
    BY <1>1, <1>2
  <1>4. IsPrev(H, a, q, p)
    BY <1>2, <1>3 DEF IsPrev
  <1>q. QED BY <1>1, <1>4, PrevIs

Agree(G, H, n) == \A k \in 1..n : G[k] = H[k]

LEMMA PrevKept ==
  ASSUME NEW G, NEW H, NEW n \in Nat, Agree(G, H, n), NEW k \in 0..n, NEW q
  PROVE  Prev(G, k, q) = Prev(H, k, q)
  <1>1. PICK p : p = Prev(H, k, q)
    OBVIOUS
  <1>2. p \in 0..k /\ (p > 0 => Has(H, p, q)) /\ \A i \in (p + 1)..k : ~Has(H, i, q)
    BY <1>1, PrevIs DEF IsPrev
  <1>3. \A i \in 1..k : Has(G, i, q) <=> Has(H, i, q)
    BY DEF Agree, Has
  <1>4. (p > 0 => Has(G, p, q)) /\ \A i \in (p + 1)..k : ~Has(G, i, q)
    BY <1>2, <1>3
  <1>5. IsPrev(G, k, q, p)
    BY <1>2, <1>4 DEF IsPrev
  <1>q. QED BY <1>1, <1>5, PrevIs

----------------------------------------------------------------------------
(* Only the batches that were scheduled and the rows of those that ran count *)

LEMMA BaseKept ==
  ASSUME NEW H, NEW G, NEW A, NEW B, NEW S \in Nat, NEW e \in Nat, S <= e + PP,
         Agree(G, H, S), Agree(B, A, e), NEW k \in 1..S, NEW q \in Reqs, Planned(H, A, k, q)
  PROVE  /\ G[k] = H[k] /\ (Has(G, k, q) <=> Has(H, k, q))
         /\ Has(H, k, q) => Base(G, B, k, q) = Base(H, A, k, q)
         /\ Planned(G, B, k, q)
  <1>1. PICK j : j = Prev(H, k - 1, q)
    OBVIOUS
  <1>2. k - 1 \in Nat /\ k - 1 \in 0..S /\ PP \in Nat
    BY PPSchedulerAssumption
  <1>3. j \in Nat /\ j <= k - 1 /\ Prev(G, k - 1, q) = j
    BY <1>1, <1>2, PrevUse, PrevKept
  <1>4. G[k] = H[k] /\ (j > 0 => G[j] = H[j]) /\ (\A i \in 1..(k - 1) : G[i] = H[i])
    BY <1>2, <1>3 DEF Agree
  <1>5. ASSUME Has(H, k, q) PROVE Base(G, B, k, q) = Base(H, A, k, q)
    <2>1. CASE j > 0 /\ H[j][q].gen = H[k][q].gen
      <3>1. j + PP <= k
        BY <1>1, <1>5, <2>1 DEF Planned
      <3>2. B[j] = A[j]
        BY <1>2, <1>3, <2>1, <3>1 DEF Agree
      <3>q. QED BY <1>1, <1>3, <1>4, <2>1, <3>2 DEF Base
    <2>2. CASE ~(j > 0 /\ H[j][q].gen = H[k][q].gen)
      BY <1>1, <1>3, <1>4, <2>2 DEF Base
    <2>q. QED BY <2>1, <2>2
  <1>6. Planned(G, B, k, q)
    <2>1. \A i \in 1..(k - 1) : Has(G, i, q) <=> Has(H, i, q)
      BY <1>4 DEF Has
    <2>2. Has(G, k, q) <=> Has(H, k, q)
      BY <1>4 DEF Has
    <2>q. QED BY <1>1, <1>3, <1>4, <1>5, <2>1, <2>2 DEF Planned
  <1>q. QED BY <1>4, <1>5, <1>6 DEF Has

LEMMA AlignedKept ==
  ASSUME NEW H, NEW G, NEW S, NEW R, NEW E, NEW N, Aligned(H, S, R, E, N), Agree(G, H, S)
  PROVE  Aligned(G, S, R, E, N)
  <1>1. /\ Counters(S, R, E, N) /\ Loose /\ QueueIs(H, S, R) /\ WorkIs(H, S, E) /\ HiddenIs(E)
        /\ RingIs(H, E) /\ RelayIs(H, E, N) /\ ResultsIs(H, R, E)
    BY DEF Aligned
  <1>2. /\ S \in Nat /\ R \in Nat /\ E \in [Ranks -> Nat] /\ E[Last] \in Nat /\ R <= E[Last]
        /\ E[Last] <= S /\ \A r \in Ranks : E[r] \in Nat /\ E[r] <= S
    BY <1>1, RankFacts DEF Counters
  <1>3. QueueIs(G, S, R) /\ ResultsIs(G, R, E)
    <2>1. \A i \in 1..(S - R) : G[R + i] = H[R + i]
      BY <1>2 DEF Agree
    <2>2. \A i \in 1..(E[Last] - R) : G[R + i] = H[R + i]
      BY <1>2 DEF Agree
    <2>q. QED BY <1>1, <2>1, <2>2 DEF QueueIs, ResultsIs, Agree
  <1>4. WorkIs(G, S, E)
    <2>1. \A r \in Ranks : \A i \in 1..(S - E[r]) : G[E[r] + i] = H[E[r] + i]
      BY <1>2 DEF Agree
    <2>q. QED BY <1>1, <2>1 DEF WorkIs
  <1>5. ASSUME NEW r \in Ranks
        PROVE  /\ Oldest(E, r) \in Nat /\ Oldest(E, r) <= E[r]
               /\ Count(G, Oldest(E, r)) = Count(H, Oldest(E, r))
               /\ Count(G, E[r]) = Count(H, E[r])
    <2>1. Oldest(E, r) \in Nat /\ Oldest(E, r) <= E[r] /\ E[r] <= S /\ E[r] \in Nat
      BY <1>2, OldestIs
    <2>2. (\A k \in 1..E[r] : G[k] = H[k]) /\ (\A k \in 1..Oldest(E, r) : G[k] = H[k])
      BY <1>2, <2>1 DEF Agree
    <2>q. QED BY <2>1, <2>2, NeededKept
  <1>6. RingIs(G, E) /\ RelayIs(G, E, N)
    <2>1. ASSUME NEW r \in 0..(Last - 1), NEW i \in 1..Len(ring[r])
          PROVE  G[Oldest(E, r) + i] = H[Oldest(E, r) + i]
      <3>1. r \in Ranks
        BY RankFacts
      <3>2. Len(ring[r]) = E[r] - Oldest(E, r)
        BY <1>1 DEF RingIs
      <3>3. Oldest(E, r) + i \in 1..S
        BY <1>2, <1>5, <3>1, <3>2
      <3>q. QED BY <3>3 DEF Agree
    <2>q. QED BY <1>1, <1>5, <2>1, RankFacts, SMTT(30) DEF RingIs, RelayIs
  <1>q. QED BY <1>1, <1>3, <1>4, <1>6 DEF Aligned

LEMMA ServedKept ==
  ASSUME NEW H, NEW G, NEW A, NEW B, NEW S, NEW R, NEW E, NEW N, Aligned(H, S, R, E, N),
         Served(H, A, S, R, E, N), Agree(G, H, S), Agree(B, A, E[Last])
  PROVE  Served(G, B, S, R, E, N)
  <1>1. /\ IInv /\ OutputIs /\ Edges(E)
        /\ AllPlanned(H, A, S) /\ AllRan(H, A, E[Last])
        /\ LastRows(H, A, E) /\ LowerRows(H, A, E)
        /\ SlotsMatch(H, E) /\ PayloadsMatch(H, A, E, N) /\ InputsMatch(H, A, E)
        /\ ResultsMatch(H, A, R, E) /\ Booking(H, A, S, R)
    BY DEF Served
  <1>2. /\ S \in Nat /\ R \in Nat /\ N \in Nat /\ E \in [Ranks -> Nat] /\ E[Last] \in Nat
        /\ R <= E[Last] /\ E[Last] <= S /\ S <= R + PP /\ S <= E[Last] + PP /\ PP \in Nat
        /\ \A r \in Ranks : E[r] \in Nat /\ E[r] <= S
    BY RankFacts, PPSchedulerAssumption DEF Aligned, Counters
  <1>3. ASSUME NEW k \in 1..S, NEW q \in Reqs
        PROVE  /\ G[k] = H[k] /\ (Has(G, k, q) <=> Has(H, k, q))
               /\ Has(H, k, q) => Base(G, B, k, q) = Base(H, A, k, q)
               /\ Planned(G, B, k, q)
    <2>1. Planned(H, A, k, q)
      BY <1>1 DEF AllPlanned
    <2>q. QED BY <1>2, <2>1, BaseKept
  <1>4. \A k \in 1..E[Last] : G[k] = H[k] /\ B[k] = A[k]
    BY <1>2 DEF Agree
  <1>5. \A k \in 0..S, q \in Reqs : Prev(G, k, q) = Prev(H, k, q) /\ Prev(H, k, q) \in 0..k
    <2>1. ASSUME NEW k \in 0..S, NEW q \in Reqs PROVE Prev(G, k, q) = Prev(H, k, q) /\ Prev(H, k, q) \in 0..k
      BY <1>2, PrevKept, PrevUse
    <2>q. QED BY <2>1
  <1>6. AllPlanned(G, B, S)
    BY <1>3 DEF AllPlanned
  <1>7. AllRan(G, B, E[Last])
    BY <1>1, <1>4 DEF AllRan, Ran, Has
  <1>8. LastRows(G, B, E)
    <2>1. ASSUME NEW q \in Reqs PROVE LastRowAt(G, B, E[Last], state[Last][q], q)
      <3>1. PICK j : j = Prev(H, E[Last], q)
        OBVIOUS
      <3>2. j \in 0..E[Last] /\ Prev(G, E[Last], q) = j
        BY <1>2, <1>5, <3>1
      <3>3. LastRowAt(H, A, E[Last], state[Last][q], q)
        BY <1>1 DEF LastRows
      <3>4. j # 0 => B[j] = A[j]
        BY <1>2, <1>4, <3>2
      <3>q. QED BY <3>1, <3>2, <3>3, <3>4 DEF LastRowAt
    <2>q. QED BY <1>1, <2>1 DEF LastRows
  <1>9. LowerRows(G, B, E)
    <2>1. ASSUME NEW r \in 0..(Last - 1), NEW q \in Reqs PROVE RowAt(G, B, E[r], state[r][q], q)
      <3>0. r \in Ranks
        BY RankFacts
      <3>1. PICK j, e : j = Prev(H, E[r], q) /\ e = E[r]
        OBVIOUS
      <3>2. e \in 0..S /\ j \in 0..e /\ Prev(G, e, q) = j
        BY <1>2, <1>5, <3>0, <3>1
      <3>3. RowAt(H, A, e, state[r][q], q)
        BY <1>1, <3>1 DEF LowerRows
      <3>4. (j # 0 => G[j] = H[j]) /\ (j # 0 /\ j + PP <= e => B[j] = A[j])
        BY <1>2, <1>3, <1>4, <3>2
      <3>5. j + PP > e <=> ~(j + PP <= e)
        BY <1>2, <3>2
      <3>q. QED BY <3>1, <3>2, <3>3, <3>4, <3>5 DEF RowAt
    <2>q. QED BY <1>1, <2>1 DEF LowerRows
  <1>10. ASSUME NEW r \in Ranks
         PROVE  Oldest(E, r) \in 0..E[r] /\ Count(G, Oldest(E, r)) = Count(H, Oldest(E, r))
    <2>1. Oldest(E, r) \in Nat /\ Oldest(E, r) <= E[r] /\ E[r] <= S /\ E[r] \in Nat
      BY <1>2, OldestIs
    <2>2. \A k \in 1..Oldest(E, r) : G[k] = H[k]
      BY <1>2, <2>1 DEF Agree
    <2>q. QED BY <2>1, <2>2, NeededKept
  <1>11. SlotsMatch(G, E)
    <2>1. ASSUME NEW r \in 0..(Last - 1), NEW i \in 1..Len(ring[r])
          PROVE  G[Oldest(E, r) + i] = H[Oldest(E, r) + i]
      <3>1. r \in Ranks
        BY RankFacts
      <3>2. Len(ring[r]) = E[r] - Oldest(E, r)
        BY DEF Aligned, RingIs
      <3>3. Oldest(E, r) + i \in 1..S
        BY <1>2, <1>10, <3>1, <3>2
      <3>q. QED BY <3>3 DEF Agree
    <2>q. QED BY <1>1, <2>1 DEF SlotsMatch
  <1>12. PayloadsMatch(G, B, E, N)
    <2>1. \A k \in 1..E[Last] : Count(G, k) = Count(H, k)
      <3>1. ASSUME NEW k \in 1..E[Last] PROVE Count(G, k) = Count(H, k)
        <4>1. k \in Nat /\ \A i \in 1..k : G[i] = H[i]
          BY <1>2, <1>4
        <4>q. QED BY <4>1, NeededKept
      <3>q. QED BY <3>1
    <2>2. Needed(G, E[Last]) = Needed(H, E[Last])
      BY <1>4 DEF Needed
    <2>3. \A k \in 1..E[Last] : \A p : PayloadOf(H, A, k, p) <=> PayloadOf(G, B, k, p)
      BY <1>4 DEF PayloadOf
    <2>4. \A r \in 0..(Last - 1) : Count(G, Oldest(E, r)) = Count(H, Oldest(E, r))
      BY <1>10, RankFacts
    <2>5. Needed(H, E[Last]) \subseteq 1..E[Last]
      BY DEF Needed
    <2>q. QED BY <1>1, <2>1, <2>2, <2>3, <2>4, <2>5 DEF PayloadsMatch
  <1>13. InputsMatch(G, B, E)
    <2>1. ASSUME NEW r \in 1..Last, NEW i \in 1..Len(hidden[r]) PROVE InputAt(G, B, E[r] + i, hidden[r][i])
      <3>1. r \in Ranks /\ r - 1 \in Ranks /\ r # 0
        BY RankFacts DEF Ranks, Last
      <3>2. Len(hidden[r]) = E[r - 1] - E[r]
        BY <3>1 DEF Aligned, HiddenIs
      <3>3. E[r] + i \in 1..S
        BY <1>2, <3>1, <3>2
      <3>4. InputAt(H, A, E[r] + i, hidden[r][i])
        BY <1>1 DEF InputsMatch
      <3>q. QED BY <1>3, <3>3, <3>4 DEF InputAt
    <2>q. QED BY <2>1 DEF InputsMatch
  <1>14. ResultsMatch(G, B, R, E)
    <2>1. ASSUME NEW i \in 1..(E[Last] - R) PROVE ResultAt(G, B, R + i, results[i])
      <3>1. R + i \in 1..E[Last]
        BY <1>2
      <3>2. ResultAt(H, A, R + i, results[i])
        BY <1>1 DEF ResultsMatch
      <3>q. QED BY <1>4, <3>1, <3>2 DEF ResultAt
    <2>q. QED BY <2>1 DEF ResultsMatch
  <1>15. Booking(G, B, S, R)
    <2>1. ASSUME NEW q \in Reqs, status[q] = "running"
          PROVE  /\ gen[q] > 0
                 /\ LET j == Prev(G, S, q)
                    IN  IF j > 0 /\ G[j][q].gen = gen[q]
                        THEN /\ wait[q] >= PP - (S - j)
                             /\ j <= R => ncomp[q] = B[j][q].comp
                        ELSE ncomp[q] = 0
      <3>1. PICK j : j = Prev(H, S, q)
        OBVIOUS
      <3>2. j \in 0..S /\ Prev(G, S, q) = j
        BY <1>2, <1>5, <3>1
      <3>3. (j > 0 => G[j] = H[j]) /\ (j > 0 /\ j <= R => B[j] = A[j])
        BY <1>2, <1>3, <1>4, <3>2
      <3>q. QED BY <1>1, <2>1, <3>1, <3>2, <3>3 DEF Booking
    <2>2. \A q \in Reqs : \A k \in 1..S : Has(G, k, q) => G[k][q].gen <= gen[q]
      BY <1>1, <1>3 DEF Booking
    <2>q. QED BY <2>1, <2>2 DEF Booking
  <1>q. QED BY <1>1, <1>6, <1>7, <1>8, <1>9, <1>11, <1>12, <1>13, <1>14, <1>15 DEF Served

----------------------------------------------------------------------------
(* Rows and tokens *)

LEMMA TokenIs ==
  ASSUME NEW q \in Reqs, NEW g \in 1..MaxGen, NEW p \in 0..(MaxLen + 2 * K)
  PROVE  /\ Token(q, g, p) \in Tokens /\ Token(q, g, p) \notin {TokenZero, Wrong}
         /\ Token(q, g, p)[1] = q /\ Token(q, g, p)[2] = g
  BY PPSchedulerAssumption DEF Tokens, Token, Greedy!Token, TokenZero, Wrong

LEMMA FreshOK ==
  ASSUME NEW q, NEW g \in 0..MaxGen
  PROVE  RowOK(q, Fresh(g)) /\ Fresh(g).gen = g /\ Fresh(g).comp = 0
  <1>1. TokenZero \in Tokens
    BY DEF Tokens
  <1>2. NoDrafts \in [1..K -> Tokens] /\ \A j \in 1..K : NoDrafts[j] = TokenZero
    BY <1>1 DEF NoDrafts
  <1>3. Fresh(g) \in RowState
    BY <1>1, <1>2, PPSchedulerAssumption DEF Fresh, RowState
  <1>q. QED BY <1>2, <1>3, PPSchedulerAssumption DEF RowOK, Owned, Fresh

\* The tokens a planned step is given: the prompt or the last token, which are
\* right, and then the drafts.
LEMMA InputIs ==
  ASSUME NEW q \in Reqs, NEW w \in BatchEntry, w.n > 0, NEW s, PlannedOn(w, s)
  PROVE  /\ w.n - w.d \in Nat /\ w.n - w.d >= 1 /\ s.comp \in Nat
         /\ w.d > 0 => s.comp >= PromptLen
         /\ ProducesSample(w) <=> (s.comp >= PromptLen \/ s.comp + w.n = PromptLen)
         /\ ~ProducesSample(w) => w.d = 0 /\ s.comp + w.n < PromptLen
         /\ (s.comp >= PromptLen => s.last = Token(q, s.gen, s.comp)) =>
              \A j \in 1..(w.n - w.d) : InputToken(q, w, s, j) = Token(q, s.gen, s.comp + j - 1)
         /\ \A j \in 1..w.d : InputToken(q, w, s, (w.n - w.d) + j) = s.draft[j]
  <1>1. /\ w.n \in Nat /\ w.d \in Nat /\ w.pos \in Nat /\ PromptLen \in Nat /\ s.comp = w.pos
        /\ \/ s.comp >= PromptLen /\ w.n = w.d + 1
           \/ s.comp < PromptLen /\ w.d = 0 /\ s.comp + w.n <= PromptLen
    BY PPSchedulerAssumption DEF BatchEntry, PlannedOn
  <1>2. /\ w.n - w.d \in Nat /\ w.n - w.d >= 1 /\ s.comp \in Nat
        /\ w.d > 0 => s.comp >= PromptLen
        /\ ProducesSample(w) <=> (s.comp >= PromptLen \/ s.comp + w.n = PromptLen)
        /\ ~ProducesSample(w) => w.d = 0 /\ s.comp + w.n < PromptLen
    BY <1>1 DEF ProducesSample
  <1>3. ASSUME s.comp >= PromptLen => s.last = Token(q, s.gen, s.comp), NEW j \in 1..(w.n - w.d)
        PROVE  InputToken(q, w, s, j) = Token(q, s.gen, s.comp + j - 1)
    <2>1. CASE s.comp < PromptLen
      <3>1. s.comp + j - 1 < PromptLen /\ ~(s.comp + j - 1 >= PromptLen)
        BY <1>1, <1>3, <2>1
      <3>q. QED BY <3>1 DEF InputToken
    <2>2. CASE s.comp >= PromptLen
      <3>1. j = 1 /\ j = w.n - w.d /\ s.comp + j - 1 = s.comp
        BY <1>1, <1>3, <2>2
      <3>2. InputToken(q, w, s, j) = s.last
        BY <1>1, <2>2, <3>1 DEF InputToken
      <3>q. QED BY <1>3, <2>2, <3>1, <3>2
    <2>q. QED BY <1>1, <2>1, <2>2
  <1>4. ASSUME NEW j \in 1..w.d PROVE InputToken(q, w, s, (w.n - w.d) + j) = s.draft[j]
    <2>1. PICK i : i = (w.n - w.d) + j
      OBVIOUS
    <2>2. /\ i \in Nat /\ i > w.n - w.d /\ i # w.n - w.d /\ i - (w.n - w.d) = j
          /\ ~(s.comp + i - 1 < PromptLen) /\ s.comp + i - 1 >= PromptLen
      BY <1>1, <2>1
    <2>3. InputToken(q, w, s, i) = s.draft[j]
      BY <2>2 DEF InputToken
    <2>q. QED BY <2>1, <2>3
  <1>q. QED BY <1>2, <1>3, <1>4

\* Of a row a step reads only what the relay has brought by then.
LEMMA InputSame ==
  ASSUME NEW q, NEW w \in BatchEntry, w.n > 0, NEW s, PlannedOn(w, s),
         NEW t, t.gen = s.gen, t.comp = s.comp,
         s.comp >= PromptLen => t.last = s.last /\ t.draft = s.draft
  PROVE  InputOf(q, w, t) = InputOf(q, w, s)
  <1>1. /\ w.n \in Nat /\ w.d \in Nat /\ w.pos \in Nat /\ PromptLen \in Nat /\ s.comp = w.pos
        /\ \/ s.comp >= PromptLen /\ w.n = w.d + 1
           \/ s.comp < PromptLen /\ w.d = 0 /\ s.comp + w.n <= PromptLen
    BY PPSchedulerAssumption DEF BatchEntry, PlannedOn
  <1>2. ASSUME NEW j \in 1..w.n PROVE InputToken(q, w, t, j) = InputToken(q, w, s, j)
    <2>1. CASE s.comp < PromptLen
      <3>1. s.comp + j - 1 < PromptLen
        BY <1>1, <2>1
      <3>q. QED BY <3>1 DEF InputToken
    <2>2. CASE s.comp >= PromptLen
      BY <2>2 DEF InputToken
    <2>q. QED BY <1>1, <2>1, <2>2
  <1>q. QED BY <1>2 DEF InputOf

\* m of the n tokens toks are right.
PrefixOf(q, g, p, n, toks, m) == n \in Nat /\ Len(toks) = n /\ m = RightPrefix(q, g, p, toks)

LEMMA RightPrefixIs ==
  ASSUME NEW q, NEW g, NEW p, NEW n, NEW toks, NEW m, PrefixOf(q, g, p, n, toks, m)
  PROVE  /\ m \in 0..n
         /\ \A j \in 1..m : toks[j] = Token(q, g, p + j - 1)
         /\ m < n => toks[m + 1] # Token(q, g, p + m)
  <1>1. n \in Nat /\ Len(toks) = n /\ m = RightPrefix(q, g, p, toks)
    BY DEF PrefixOf
  <1> DEFINE B == {j \in 1..n : toks[j] = Token(q, g, p + j - 1)}
  <1>2. PICK x \in 0..n : (\A j \in 1..x : j \in B) /\ (x < n => x + 1 \notin B)
    <2> HIDE DEF B
    <2>q. QED BY <1>1, LongestPrefix
  <1>3. /\ \A j \in 1..x : toks[j] = Token(q, g, p + j - 1)
        /\ x < n => toks[x + 1] # Token(q, g, p + x)
    <2>1. \A j \in 1..x : j \in 1..n /\ toks[j] = Token(q, g, p + j - 1)
      BY <1>2
    <2>2. x < n => x + 1 \in 1..n /\ toks[x + 1] # Token(q, g, p + (x + 1) - 1)
      BY <1>1, <1>2
    <2>q. QED BY <2>1, <2>2
  <1> HIDE DEF B
  <1>q. QED BY <1>1, <1>3 DEF RightPrefix

\* What the last rank makes of a step it was given the right input for: the
\* tokens it samples are the true ones, however many drafts it accepts.
LEMMA SampledIs ==
  ASSUME NEW q \in Reqs, NEW w \in BatchEntry, w.n > 0, NEW s, PlannedOn(w, s), RowOK(q, s), s.gen = w.gen,
         s.comp <= (IF w.gen = state[Last][q].gen THEN cached[q] ELSE 0), NEW h
  PROVE  LET row == SampleRow(q, w, s, InputOf(q, w, s), h)
         IN  /\ RowOK(q, row.state) /\ row.state.gen = w.gen
             /\ row.right \in 0..(MaxLen + K) /\ row.right >= row.state.comp
             /\ IF ProducesSample(w)
                THEN /\ row.acc \in 0..w.d
                     /\ row.state.comp = (w.pos + w.n - w.d) + row.acc
                     /\ row.toks = [j \in 1..(row.acc + 1) |-> Token(q, w.gen, (w.pos + w.n - w.d) + j - 1)]
                ELSE row.acc = 0 /\ row.toks = <<>> /\ row.state.comp = w.pos + w.n
  <1>1. /\ w.n \in Nat /\ w.d \in Nat /\ w.pos \in Nat /\ PromptLen \in Nat /\ s.comp = w.pos
        /\ MaxLen \in Nat /\ K \in Nat /\ PromptLen < MaxLen /\ w.pos + w.n <= MaxLen + K - 1 /\ K >= 1
        /\ w.gen \in 1..MaxGen /\ MaxGen \in Nat
    BY PPSchedulerAssumption DEF BatchEntry, PlannedOn
  <1>2. /\ w.n - w.d \in Nat /\ w.n - w.d >= 1
        /\ ~ProducesSample(w) => w.d = 0 /\ s.comp + w.n < PromptLen
        /\ \A j \in 1..(w.n - w.d) : InputToken(q, w, s, j) = Token(q, s.gen, s.comp + j - 1)
        /\ \A j \in 1..w.d : InputToken(q, w, s, (w.n - w.d) + j) = s.draft[j]
    <2>1. s.comp >= PromptLen => s.last = Token(q, s.gen, s.comp)
      BY DEF RowOK
    <2>q. QED BY <2>1, InputIs
  <1>3. PICK P : P = RightPrefix(q, s.gen, s.comp, InputOf(q, w, s).toks)
    OBVIOUS
  <1>4. /\ P \in 0..w.n
        /\ P < w.n => InputToken(q, w, s, P + 1) # Token(q, s.gen, s.comp + P)
    <2>1. PICK toks : toks = InputOf(q, w, s).toks
      OBVIOUS
    <2>2. Len(toks) = w.n /\ \A j \in 1..w.n : toks[j] = InputToken(q, w, s, j)
      <3>1. toks = [j \in 1..w.n |-> InputToken(q, w, s, j)]
        BY <2>1 DEF InputOf
      <3>q. QED BY <1>1, <3>1
    <2>3. P \in 0..w.n /\ (P < w.n => toks[P + 1] # Token(q, s.gen, s.comp + P))
      <3>1. PICK n, g, p : n \in Nat /\ n = w.n /\ g = s.gen /\ p = s.comp
        BY <1>1
      <3>2. PrefixOf(q, g, p, n, toks, P)
        BY <1>3, <2>1, <2>2, <3>1 DEF PrefixOf
      <3>3. P \in 0..n /\ (P < n => toks[P + 1] # Token(q, g, p + P))
        BY <3>2, RightPrefixIs
      <3>q. QED BY <3>1, <3>3
    <2>q. QED BY <1>1, <2>2, <2>3
  <1>5. P >= w.n - w.d
    <2>1. ASSUME P < w.n - w.d PROVE FALSE
      <3>1. P + 1 \in 1..(w.n - w.d) /\ s.comp + (P + 1) - 1 = s.comp + P /\ P < w.n
        BY <1>1, <1>2, <1>4, <2>1
      <3>q. QED BY <1>2, <1>4, <3>1
    <2>q. QED BY <1>1, <1>2, <1>4, <2>1
  <1>6. PICK right : right = s.comp + P
    OBVIOUS
  <1>7. Staged(InputOf(q, w, s), w, s) = InputOf(q, w, s) /\ CachedAfter(q, InputOf(q, w, s), w, s) = right
    BY <1>3, <1>6 DEF Staged, CachedAfter, InputOf
  <1>8. \A j \in 1..(w.d + 1) :
          Target(q, w, s, right, j) = IF P >= (w.n - w.d) + (j - 1) THEN Token(q, s.gen, (s.comp + (w.n - w.d)) + (j - 1)) ELSE Wrong
    <2>1. ASSUME NEW j \in 1..(w.d + 1)
          PROVE  Target(q, w, s, right, j) = IF P >= (w.n - w.d) + (j - 1) THEN Token(q, s.gen, (s.comp + (w.n - w.d)) + (j - 1)) ELSE Wrong
      <3>1. right >= s.comp + (w.n - w.d) + (j - 1) <=> P >= (w.n - w.d) + (j - 1)
        BY <1>1, <1>2, <1>4, <1>6
      <3>q. QED BY <3>1 DEF Target
    <2>q. QED BY <2>1
  <1>9. PICK acc : acc = Accepted(q, w, s, right)
    OBVIOUS
  <1>10. acc \in 0..w.d /\ \A j \in 1..acc : s.draft[j] = Target(q, w, s, right, j)
    BY <1>1, <1>9, AcceptedIs
  <1>11. P >= (w.n - w.d) + acc
    <2>1. ASSUME P < (w.n - w.d) + acc PROVE FALSE
      <3>1. PICK j : j = (P - (w.n - w.d)) + 1
        OBVIOUS
      <3>2. /\ j \in 1..acc /\ j \in 1..w.d /\ j \in 1..(w.d + 1) /\ (w.n - w.d) + j = P + 1 /\ P < w.n
            /\ P >= (w.n - w.d) + (j - 1) /\ (s.comp + (w.n - w.d)) + (j - 1) = s.comp + P
        BY <1>1, <1>2, <1>4, <1>5, <1>10, <2>1, <3>1
      <3>3. s.draft[j] = Token(q, s.gen, s.comp + P)
        BY <1>8, <1>10, <3>2
      <3>4. InputToken(q, w, s, P + 1) = s.draft[j]
        BY <1>2, <3>2
      <3>q. QED BY <1>4, <3>2, <3>3, <3>4
    <2>q. QED BY <1>1, <1>2, <1>4, <1>10, <2>1
  <1>12. PICK first : first = w.pos + w.n - w.d
    OBVIOUS
  <1>13. first \in Nat /\ first = s.comp + (w.n - w.d) /\ first + acc <= w.pos + w.n /\ right >= first + acc /\ right <= w.pos + w.n
    BY <1>1, <1>2, <1>4, <1>6, <1>10, <1>11, <1>12
  <1>14. \A j \in 1..(acc + 1) : Target(q, w, s, right, j) = Token(q, w.gen, first + j - 1)
    <2>1. ASSUME NEW j \in 1..(acc + 1) PROVE Target(q, w, s, right, j) = Token(q, w.gen, first + j - 1)
      <3>1. j \in 1..(w.d + 1) /\ P >= (w.n - w.d) + (j - 1) /\ (s.comp + (w.n - w.d)) + (j - 1) = first + j - 1
        BY <1>1, <1>2, <1>4, <1>10, <1>11, <1>13
      <3>q. QED BY <1>8, <3>1
    <2>q. QED BY <2>1
  <1>15. PICK row : row = SampleRow(q, w, s, InputOf(q, w, s), h)
    OBVIOUS
  <1>16. s \in RowState /\ s.draft \in [1..K -> Tokens] /\ s.last \in Tokens
    BY DEF RowOK, RowState
  <1>17. ASSUME ~ProducesSample(w)
         PROVE  /\ RowOK(q, row.state) /\ row.state.gen = w.gen /\ row.right \in 0..(MaxLen + K)
                /\ row.right >= row.state.comp
                /\ row.acc = 0 /\ row.toks = <<>> /\ row.state.comp = w.pos + w.n
    <2>1. row = [acc |-> 0, toks |-> <<>>, right |-> right, state |-> [s EXCEPT !.comp = s.comp + w.n]]
      BY <1>7, <1>15, <1>17 DEF SampleRow
    <2>2. w.d = 0 /\ s.comp + w.n < PromptLen
      BY <1>2, <1>17
    <2>3. right = w.pos + w.n
      BY <1>1, <1>4, <1>5, <1>6, <2>2
    <2>4. PICK t : t = row.state
      OBVIOUS
    <2>5. t = [gen |-> s.gen, comp |-> w.pos + w.n, last |-> s.last, draft |-> s.draft]
      BY <1>1, <1>16, <2>1, <2>4 DEF RowState
    <2>6. t \in RowState /\ t.comp < PromptLen /\ t.gen = w.gen
      BY <1>1, <1>16, <2>2, <2>5 DEF RowState
    <2>7. Owned(q, t)
      BY <2>5 DEF RowOK, Owned
    <2>8. RowOK(q, t)
      BY <1>1, <2>6, <2>7 DEF RowOK, RowState
    <2>9. row.acc = 0 /\ row.toks = <<>> /\ row.right = right /\ row.state = t
      BY <2>1, <2>4
    <2>10. t.comp = w.pos + w.n /\ right \in 0..(MaxLen + K) /\ right >= t.comp
      BY <1>1, <2>3, <2>5
    <2>q. QED BY <2>6, <2>8, <2>9, <2>10
  <1>18. ASSUME ProducesSample(w)
         PROVE  /\ RowOK(q, row.state) /\ row.state.gen = w.gen /\ row.right \in 0..(MaxLen + K)
                /\ row.right >= row.state.comp
                /\ row.acc \in 0..w.d
                /\ row.state.comp = first + row.acc
                /\ row.toks = [j \in 1..(row.acc + 1) |-> Token(q, w.gen, first + j - 1)]
    <2> DEFINE toks == [j \in 1..(acc + 1) |-> Target(q, w, s, right, j)]
    <2>1. row = [acc |-> acc, toks |-> toks, right |-> right,
                 state |-> [s EXCEPT !.comp = s.comp + w.n - (w.d - acc), !.last = toks[acc + 1],
                                     !.draft = Proposal(q, s.gen, s.comp + w.n - (w.d - acc), h)]]
      BY <1>7, <1>9, <1>15, <1>18 DEF SampleRow
    <2>2. toks = [j \in 1..(acc + 1) |-> Token(q, w.gen, first + j - 1)]
      BY <1>14
    <2>3. toks[acc + 1] = Token(q, w.gen, first + acc)
      <3>1. acc + 1 \in 1..(acc + 1) /\ first + (acc + 1) - 1 = first + acc
        BY <1>1, <1>10, <1>13
      <3>q. QED BY <2>2, <3>1
    <2> HIDE DEF toks
    <2>4. s.comp + w.n - (w.d - acc) = first + acc
      BY <1>1, <1>2, <1>10, <1>13
    <2>5. PICK t : t = row.state
      OBVIOUS
    <2>6. t = [gen |-> w.gen, comp |-> first + acc, last |-> Token(q, w.gen, first + acc),
               draft |-> Proposal(q, w.gen, first + acc, h)]
      BY <1>16, <2>1, <2>3, <2>4, <2>5 DEF RowState
    <2>7. \A p \in 0..(MaxLen + 2 * K) :
             /\ Token(q, w.gen, p) \in Tokens
             /\ Token(q, w.gen, p)[1] = q /\ Token(q, w.gen, p)[2] = w.gen
      BY <1>1, TokenIs
    <2>8. first + acc \in 0..(MaxLen + K) /\ first + acc \in 0..(MaxLen + 2 * K)
      BY <1>1, <1>10, <1>13
    <2>9. \A j \in 1..K : Proposal(q, w.gen, first + acc, h)[j] \in {Token(q, w.gen, first + acc + j), Wrong}
      BY DEF Proposal
    <2>10. \A j \in 1..K : first + acc + j \in 0..(MaxLen + 2 * K)
      BY <1>1, <2>8
    <2>11. Proposal(q, w.gen, first + acc, h) \in [1..K -> Tokens]
      <3>1. Wrong \in Tokens
        BY DEF Tokens
      <3>q. QED BY <2>7, <2>9, <2>10, <3>1 DEF Proposal
    <2>12. t \in RowState /\ t.gen = w.gen /\ t.comp = first + acc
      BY <1>1, <2>6, <2>7, <2>8, <2>11 DEF RowState
    <2>13. Owned(q, t)
      BY <2>6, <2>7, <2>8, <2>9, <2>10 DEF Owned
    <2>14. RowOK(q, t)
      BY <2>6, <2>12, <2>13 DEF RowOK
    <2>15. right \in 0..(MaxLen + K)
      BY <1>1, <1>4, <1>6, <1>13
    <2>q. QED BY <1>10, <1>13, <2>1, <2>2, <2>5, <2>12, <2>14, <2>15
  <1>q. QED BY <1>12, <1>15, <1>17, <1>18

----------------------------------------------------------------------------
(* The steps *)

LEMMA BaseIs ==
  ASSUME NEW H, NEW A, NEW S, NEW R, NEW E, NEW N, Aligned(H, S, R, E, N), Served(H, A, S, R, E, N),
         NEW k \in 1..S, NEW q \in Reqs, Has(H, k, q)
  PROVE  /\ H[k][q] \in BatchEntry /\ H[k][q].n > 0
         /\ PlannedOn(H[k][q], Base(H, A, k, q))
         /\ RowOK(q, Base(H, A, k, q)) /\ Base(H, A, k, q).gen = H[k][q].gen
         /\ LET j == Prev(H, k - 1, q)
            IN  /\ j \in 0..(k - 1) /\ (j > 0 => Has(H, j, q))
                /\ j > 0 /\ H[j][q].gen = H[k][q].gen => j \in 1..R /\ j + PP <= k
  <1>1. /\ S \in Nat /\ R \in Nat /\ E[Last] \in Nat /\ R <= E[Last] /\ S <= R + PP /\ PP \in Nat
    BY RankFacts, PPSchedulerAssumption DEF Aligned, Counters
  <1>2. PICK j : j = Prev(H, k - 1, q)
    OBVIOUS
  <1>3. j \in 0..(k - 1) /\ (j > 0 => Has(H, j, q))
    <2>1. k - 1 \in Nat
      BY <1>1
    <2>q. QED BY <1>2, <2>1, PrevUse
  <1>4. /\ H[k][q] \in BatchEntry /\ PlannedOn(H[k][q], Base(H, A, k, q))
        /\ j > 0 /\ H[j][q].gen = H[k][q].gen => j + PP <= k
    BY <1>2 DEF Served, AllPlanned, Planned
  <1>5. H[k][q].gen \in 0..MaxGen
    BY <1>4, PPSchedulerAssumption DEF PlannedOn
  <1>6. ASSUME j > 0, H[j][q].gen = H[k][q].gen
        PROVE  j \in 1..R /\ RowOK(q, Base(H, A, k, q)) /\ Base(H, A, k, q).gen = H[k][q].gen
    <2>1. j \in 1..R /\ j \in 1..E[Last]
      BY <1>1, <1>3, <1>4, <1>6
    <2>2. Ran(H, A, j, q)
      BY <1>3, <1>6, <2>1 DEF Served, AllRan
    <2>q. QED BY <1>2, <1>6, <2>1, <2>2 DEF Base, Ran
  <1>7. ASSUME ~(j > 0 /\ H[j][q].gen = H[k][q].gen)
        PROVE  RowOK(q, Base(H, A, k, q)) /\ Base(H, A, k, q).gen = H[k][q].gen
    <2>1. Base(H, A, k, q) = Fresh(H[k][q].gen)
      BY <1>2, <1>7 DEF Base
    <2>q. QED BY <1>5, <2>1, FreshOK
  <1>q. QED BY <1>2, <1>3, <1>4, <1>6, <1>7 DEF Has

\* The rows another step reads are those that produce a sample.
LEMMA MaskIs ==
  ASSUME NEW H, NEW A, NEW S, AllPlanned(H, A, S), NEW k \in 1..S
  PROVE  NeedSampled(H[k], K) = {q \in Reqs : Has(H, k, q) /\ ProducesSample(H[k][q])}
  <1>1. ASSUME NEW q \in Reqs, Has(H, k, q) PROVE MaxOf(H[k][q].pos, PromptLen) + 1 < MaxLen + K
    <2>1. H[k][q] \in BatchEntry /\ H[k][q].pos + 1 < MaxLen
      BY <1>1 DEF AllPlanned, Planned, PlannedOn
    <2>q. QED BY <2>1, PPSchedulerAssumption DEF MaxOf, BatchEntry
  <1>q. QED BY <1>1 DEF NeedSampled, InBatch, Has

LEMMA ScheduleServed ==
  ASSUME "cadence" \in Patches,
         NEW H, NEW A, NEW S, NEW R, NEW E, NEW N, Aligned(H, S, R, E, N), Served(H, A, S, R, E, N),
         EngineSchedule, H[S + 1] = [q \in Reqs |-> Work(q)]
  PROVE  Served(H, A, S + 1, R, E, N)'
  <1>1. /\ IInv /\ OutputIs /\ Edges(E)
        /\ AllPlanned(H, A, S) /\ AllRan(H, A, E[Last])
        /\ LastRows(H, A, E) /\ LowerRows(H, A, E)
        /\ SlotsMatch(H, E) /\ PayloadsMatch(H, A, E, N) /\ InputsMatch(H, A, E)
        /\ ResultsMatch(H, A, R, E) /\ Booking(H, A, S, R)
    BY DEF Served
  <1>2. /\ S \in Nat /\ R \in Nat /\ PP \in Nat /\ PP > 0 /\ S <= R + PP /\ S >= R
        /\ Len(queue) = S - R /\ Len(queue) < PP /\ S + 1 <= R + PP
    <2>1. /\ S \in Nat /\ R \in Nat /\ E[Last] \in Nat /\ PP \in Nat /\ PP > 0 /\ S <= R + PP /\ R <= E[Last]
          /\ E[Last] <= S /\ Len(queue) = S - R
      BY RankFacts, PPSchedulerAssumption DEF Aligned, Counters, QueueIs
    <2>2. Len(queue) < PP
      BY DEF EngineSchedule, Schedule
    <2>q. QED BY <2>1, <2>2
  <1>3. /\ Schedule
        /\ UNCHANGED <<status, gen, ntok, out, hidden, state, ring, relay, cached, results, drafted, buffer, sending>>
        /\ ncomp' = [q \in Reqs |-> ncomp[q] + Work(q).n]
        /\ wait' = [q \in Reqs |-> WaitAfter(q)]
    BY DEF EngineSchedule, Schedule
  <1>4. IInv'
    BY <1>1, <1>3, StepInv DEF SchedNext
  <1>5. OutputIs' /\ Edges(E)' /\ LastRows(H, A, E)' /\ LowerRows(H, A, E)' /\ SlotsMatch(H, E)'
    BY <1>1, <1>3 DEF OutputIs, Edges, LastRows, LastRowAt, LowerRows, RowAt, SlotsMatch
  <1>6. PayloadsMatch(H, A, E, N)' /\ InputsMatch(H, A, E)' /\ ResultsMatch(H, A, R, E)'
    BY <1>1, <1>3 DEF PayloadsMatch, InputsMatch, ResultsMatch
  <1>7. ASSUME NEW q \in Reqs, Schedulable(q)
        PROVE  /\ H[S + 1][q] \in BatchEntry /\ H[S + 1][q].n > 0
               /\ H[S + 1][q].gen = gen[q] /\ H[S + 1][q].pos = ncomp[q] /\ H[S + 1][q].d <= K
               /\ H[S + 1][q].pos + 1 < MaxLen /\ StepShape(q, H[S + 1][q])
    <2>1. PICK w : w = Work(q)
      OBVIOUS
    <2>2. /\ w \in BatchEntry /\ w.n > 0 /\ w.gen = gen[q] /\ w.pos = ncomp[q] /\ StepShape(q, w)
      BY <1>1, <1>2, <1>7, <2>1, PlannedShape
    <2>3. w.d <= K
      <3>1. w \in LooseEntry
        BY <2>1, WorkLoose DEF Aligned
      <3>q. QED BY <3>1, PPSchedulerAssumption DEF LooseEntry
    <2>4. status[q] = "running" /\ ntok[q] < MaxLen /\ ntok[q] \in Nat
      BY <1>1, <1>7, PPSchedulerAssumption DEF IInv, AtRest, SchedTypeOK, Schedulable
    <2>5. w.pos + 1 < MaxLen
      BY <2>2, <2>4, PPSchedulerAssumption DEF StepShape, BatchEntry
    <2>q. QED BY <2>1, <2>2, <2>3, <2>5
  <1>8. ASSUME NEW q \in Reqs, ~Schedulable(q) PROVE H[S + 1][q] = NoWork /\ ~Has(H, S + 1, q)
    BY <1>8 DEF Work, NoWork, Has
  <1>9. \A q \in Reqs : Has(H, S + 1, q) <=> Schedulable(q)
    BY <1>7, <1>8 DEF Has
  <1>10. \A q \in Reqs : /\ gen[q] \in 0..MaxGen /\ wait[q] \in 0..PP /\ ncomp[q] \in Nat
                         /\ Prev(H, S, q) \in 0..S
                         /\ Prev(H, S + 1, q) = IF Schedulable(q) THEN S + 1 ELSE Prev(H, S, q)
    <2>1. \A q \in Reqs : gen[q] \in 0..MaxGen /\ wait[q] \in 0..PP /\ ncomp[q] \in Nat
      BY <1>1 DEF IInv, SchedTypeOK
    <2>2. \A q \in Reqs : Prev(H, S, q) \in 0..S
      <3>1. \A q \in Reqs : Prev(H, S, q) \in Nat /\ Prev(H, S, q) <= S
        BY <1>2, PrevUse
      <3>2. ASSUME NEW q \in Reqs PROVE Prev(H, S, q) \in 0..S
        <4>1. PICK j : j = Prev(H, S, q)
          OBVIOUS
        <4>q. QED BY <1>2, <3>1, <4>1
      <3>q. QED BY <3>2
    <2>3. \A q \in Reqs : Prev(H, S + 1, q) = IF Has(H, S + 1, q) THEN S + 1 ELSE Prev(H, S, q)
      BY <1>2, PrevNext
    <2>q. QED BY <1>9, <2>1, <2>2, <2>3
  <1>11. ASSUME NEW q \in Reqs, Schedulable(q) PROVE Planned(H, A, S + 1, q)
    <2>1. status[q] = "running" /\ wait[q] <= 1
      BY <1>11 DEF Schedulable, Eligible
    <2>2. PICK j : j = Prev(H, S, q)
      OBVIOUS
    <2>3. /\ gen[q] > 0
          /\ IF j > 0 /\ H[j][q].gen = gen[q]
             THEN /\ wait[q] >= PP - (S - j)
                  /\ j <= R => ncomp[q] = A[j][q].comp
             ELSE ncomp[q] = 0
      BY <1>1, <2>1, <2>2 DEF Booking
    <2>4. (S + 1) - 1 = S /\ j \in 0..S
      BY <1>2, <1>10, <2>2
    <2>5. j > 0 /\ H[j][q].gen = gen[q] => j + PP <= S + 1 /\ j <= R
      BY <1>2, <1>10, <2>1, <2>3, <2>4
    <2>6. ncomp[q] = Base(H, A, S + 1, q).comp
      BY <1>7, <1>11, <2>2, <2>3, <2>4, <2>5 DEF Base, Fresh
    <2>7. PlannedOn(H[S + 1][q], Base(H, A, S + 1, q))
      <3>1. \/ H[S + 1][q].pos >= PromptLen /\ H[S + 1][q].n = H[S + 1][q].d + 1
            \/ H[S + 1][q].pos < PromptLen /\ H[S + 1][q].d = 0 /\ H[S + 1][q].pos + H[S + 1][q].n <= PromptLen
        BY <1>7, <1>11 DEF StepShape
      <3>2. H[S + 1][q].gen \in 1..MaxGen
        BY <1>7, <1>10, <1>11, <2>3
      <3>q. QED BY <1>7, <1>11, <2>6, <3>1, <3>2 DEF PlannedOn
    <2>8. \A i \in 1..S : Has(H, i, q) => H[i][q].gen <= H[S + 1][q].gen
      BY <1>1, <1>7, <1>11 DEF Booking
    <2>q. QED BY <1>7, <1>11, <2>2, <2>4, <2>5, <2>7, <2>8 DEF Planned
  <1>12. ASSUME NEW q \in Reqs, ~Schedulable(q) PROVE Planned(H, A, S + 1, q)
    BY <1>8, <1>12 DEF Planned, NoWork, BatchEntry
  <1>13. AllPlanned(H, A, S + 1)
    <2>1. \A k \in 1..(S + 1) : k \in 1..S \/ k = S + 1
      BY <1>2
    <2>q. QED BY <1>1, <1>11, <1>12, <2>1 DEF AllPlanned
  <1>14. Booking(H, A, S + 1, R)'
    <2> SUFFICES ASSUME NEW q \in Reqs
                 PROVE  /\ \A k \in 1..(S + 1) : Has(H, k, q) => H[k][q].gen <= gen[q]
                        /\ status[q] = "running" =>
                             /\ gen[q] > 0
                             /\ LET j == Prev(H, S + 1, q)
                                IN  IF j > 0 /\ H[j][q].gen = gen[q]
                                    THEN /\ wait'[q] >= PP - ((S + 1) - j)
                                         /\ j <= R => ncomp'[q] = A[j][q].comp
                                    ELSE ncomp'[q] = 0
      BY <1>3 DEF Booking
    <2>1. /\ wait'[q] = WaitAfter(q) /\ ncomp'[q] = ncomp[q] + Work(q).n
      BY <1>3
    <2>2. PICK j : j = Prev(H, S, q)
      OBVIOUS
    <2>3. /\ \A k \in 1..S : Has(H, k, q) => H[k][q].gen <= gen[q]
          /\ status[q] = "running" =>
               /\ gen[q] > 0
               /\ IF j > 0 /\ H[j][q].gen = gen[q]
                  THEN /\ wait[q] >= PP - (S - j)
                       /\ j <= R => ncomp[q] = A[j][q].comp
                  ELSE ncomp[q] = 0
      BY <1>1, <2>2 DEF Booking
    <2>4. \A k \in 1..(S + 1) : Has(H, k, q) => H[k][q].gen <= gen[q]
      <3>1. Has(H, S + 1, q) => H[S + 1][q].gen <= gen[q]
        BY <1>7, <1>9, <1>10
      <3>2. \A k \in 1..(S + 1) : k \in 1..S \/ k = S + 1
        BY <1>2
      <3>q. QED BY <2>3, <3>1, <3>2
    <2>5. CASE Schedulable(q)
      <3>1. Prev(H, S + 1, q) = S + 1 /\ H[S + 1][q].gen = gen[q] /\ S + 1 > 0 /\ ~(S + 1 <= R)
        BY <1>2, <1>7, <1>10, <2>5
      <3>2. wait'[q] = PP
        BY <2>1, <2>5, SpecDecodeAssumption DEF WaitAfter, NextEligible
      <3>3. PP - ((S + 1) - (S + 1)) = PP
        BY <1>2
      <3>q. QED BY <1>2, <2>3, <2>4, <2>5, <3>1, <3>2, <3>3 DEF Schedulable
    <2>6. CASE ~Schedulable(q)
      <3>1. Prev(H, S + 1, q) = j /\ j \in 0..S
        BY <1>10, <2>2, <2>6
      <3>2. ncomp'[q] = ncomp[q]
        BY <1>10, <2>1, <2>6 DEF Work, NoWork
      <3>3. wait'[q] >= wait[q] - 1
        BY <1>10, <2>1, <2>6 DEF WaitAfter, Countdown, MaxOf
      <3>4. wait[q] >= PP - (S - j) => wait'[q] >= PP - ((S + 1) - j)
        <4>1. wait'[q] \in Int
          BY <1>10, <2>1, <2>6 DEF WaitAfter, Countdown, MaxOf
        <4>q. QED BY <1>2, <1>10, <3>1, <3>3, <4>1
      <3>q. QED BY <2>3, <2>4, <3>1, <3>2, <3>4
    <2>q. QED BY <2>5, <2>6
  <1>q. QED
    BY <1>1, <1>4, <1>5, <1>6, <1>13, <1>14 DEF Served

LEMMA GreedyIs ==
  ASSUME NEW q \in Reqs, NEW g, NEW n \in Nat
  PROVE  /\ Greedy!GreedyOutput(q, g, n) \in Seq({Token(q, g, p) : p \in Int})
         /\ Len(Greedy!GreedyOutput(q, g, n)) = n
         /\ \A i \in 1..n : Greedy!GreedyOutput(q, g, n)[i] = Token(q, g, PromptLen + i - 1)
         /\ Greedy!GreedyOutput(q, g, 0) = <<>>
  <1>1. Greedy!GreedyOutput(q, g, n) = [i \in 1..n |-> Token(q, g, PromptLen + i - 1)]
    BY DEF Greedy!GreedyOutput, Token
  <1>2. \A i \in 1..n : Token(q, g, PromptLen + i - 1) \in {Token(q, g, p) : p \in Int}
    BY PPSchedulerAssumption
  <1>3. Greedy!GreedyOutput(q, g, 0) = <<>>
    <2>1. Greedy!GreedyOutput(q, g, 0) = [i \in 1..0 |-> Token(q, g, PromptLen + i - 1)]
      BY DEF Greedy!GreedyOutput, Token
    <2>2. [i \in 1..0 |-> Token(q, g, PromptLen + i - 1)] = <<>>
      OBVIOUS
    <2>q. QED BY <2>1, <2>2
  <1> DEFINE o == [i \in 1..n |-> Token(q, g, PromptLen + i - 1)]
  <1>4. o \in Seq({Token(q, g, p) : p \in Int}) /\ Len(o) = n
    BY <1>2
  <1>q. QED BY <1>1, <1>3, <1>4

\* o is what greedy decoding has after n tokens.
GreedyFor(q, g, n, o) == q \in Reqs /\ n \in Nat /\ o = Greedy!GreedyOutput(q, g, n)

LEMMA GreedyHas ==
  ASSUME NEW q, NEW g, NEW n, NEW o, GreedyFor(q, g, n, o)
  PROVE  /\ o \in Seq({Token(q, g, p) : p \in Int}) /\ Len(o) = n
         /\ \A i \in 1..n : o[i] = Token(q, g, PromptLen + i - 1)
  <1>1. q \in Reqs /\ n \in Nat /\ o = Greedy!GreedyOutput(q, g, n)
    BY DEF GreedyFor
  <1>2. PICK k \in Nat : k = n
    BY <1>1
  <1>3. PICK h : h = g
    OBVIOUS
  <1>4. /\ Greedy!GreedyOutput(q, h, k) \in Seq({Token(q, h, p) : p \in Int})
        /\ Len(Greedy!GreedyOutput(q, h, k)) = k
        /\ \A i \in 1..k : Greedy!GreedyOutput(q, h, k)[i] = Token(q, h, PromptLen + i - 1)
    <2>1. q \in Reqs
      BY <1>1
    <2>q. QED BY <2>1, GreedyIs
  <1>q. QED BY <1>1, <1>2, <1>3, <1>4

\* The tokens of a step continue the output, cut off at max_seq_len or not.
Continues(q, g, a, m, n, o, toks, s) ==
  /\ a \in Nat /\ m \in Nat /\ n \in Nat /\ n <= a + m
  /\ o = Greedy!GreedyOutput(q, g, a)
  /\ IsSeq(toks) /\ Len(toks) = m /\ \A j \in 1..m : toks[j] = Token(q, g, (PromptLen + a) + j - 1)
  /\ s = SubSeq(o \o toks, 1, n)

LEMMA OutputGrows ==
  ASSUME NEW q \in Reqs, NEW g, NEW a, NEW m, NEW n, NEW o, NEW toks, NEW s, Continues(q, g, a, m, n, o, toks, s)
  PROVE  s = Greedy!GreedyOutput(q, g, n)
  <1> DEFINE T == {Token(q, g, p) : p \in Int}
  <1>0. a \in Nat /\ m \in Nat /\ n \in Nat /\ n <= a + m
    BY DEF Continues
  <1>1. o \in Seq(T) /\ Len(o) = a /\ \A i \in 1..a : o[i] = Token(q, g, PromptLen + i - 1)
    <2>1. o = Greedy!GreedyOutput(q, g, a)
      BY DEF Continues
    <2>2. GreedyFor(q, g, a, o)
      BY <1>0, <2>1 DEF GreedyFor
    <2>q. QED BY <2>2, GreedyHas
  <1>2. toks \in Seq(T) /\ Len(toks) = m /\ \A j \in 1..m : toks[j] = Token(q, g, (PromptLen + a) + j - 1)
    <2>1. IsSeq(toks) /\ Len(toks) = m /\ \A j \in 1..m : toks[j] = Token(q, g, (PromptLen + a) + j - 1)
      BY DEF Continues
    <2>2. \A j \in 1..m : toks[j] \in T
      BY <1>0, <2>1, PPSchedulerAssumption
    <2>3. PICK U : toks \in Seq(U)
      BY <2>1 DEF IsSeq
    <2> HIDE DEF T
    <2>q. QED BY <2>1, <2>2, <2>3
  <1>3. PICK g1 : g1 = Greedy!GreedyOutput(q, g, n)
    OBVIOUS
  <1>4. n \in Nat /\ g1 \in Seq(T) /\ Len(g1) = n /\ \A i \in 1..n : g1[i] = Token(q, g, PromptLen + i - 1)
    <2>1. GreedyFor(q, g, n, g1)
      BY <1>0, <1>3 DEF GreedyFor
    <2>q. QED BY <1>0, <2>1, GreedyHas
  <1>5. PICK c : c = o \o toks
    OBVIOUS
  <1>8. s = SubSeq(c, 1, n)
    BY <1>5 DEF Continues
  <1> HIDE DEF T
  <1>6. /\ c \in Seq(T) /\ Len(c) = a + m
        /\ \A i \in 1..(a + m) : c[i] = IF i <= a THEN o[i] ELSE toks[i - a]
    <2>1. o \in Seq(T) /\ toks \in Seq(T)
      BY <1>1, <1>2
    <2>2. /\ o \o toks \in Seq(T) /\ Len(o \o toks) = Len(o) + Len(toks)
          /\ \A i \in 1..(Len(o) + Len(toks)) : (o \o toks)[i] = IF i <= Len(o) THEN o[i] ELSE toks[i - Len(o)]
      BY <2>1, ConcatProperties
    <2>q. QED BY <1>1, <1>2, <1>5, <2>2, Zenon
  <1>7. \A i \in 1..(a + m) : c[i] = Token(q, g, PromptLen + i - 1)
    <2>1. ASSUME NEW i \in 1..(a + m) PROVE c[i] = Token(q, g, PromptLen + i - 1)
      <3>1. CASE i <= a
        BY <1>0, <1>1, <1>6, <3>1
      <3>2. CASE i > a
        <4>1. i - a \in 1..m /\ (PromptLen + a) + (i - a) - 1 = PromptLen + i - 1
          BY <1>0, <3>2, PPSchedulerAssumption
        <4>2. toks[i - a] = Token(q, g, (PromptLen + a) + (i - a) - 1)
          BY <1>0, <1>2, <4>1
        <4>q. QED BY <1>0, <1>6, <3>2, <4>1, <4>2
      <3>q. QED BY <1>0, <3>1, <3>2
    <2>q. QED BY <2>1
  <1>9. s \in Seq(T) /\ Len(s) = n /\ \A i \in 1..n : s[i] = c[i]
    <2>1. \A i \in 1..n : c[i] \in T
      BY <1>0, <1>4, <1>6
    <2>2. /\ s \in Seq(T) /\ Len(s) = IF 1 <= n THEN n - 1 + 1 ELSE 0
          /\ \A i \in 1..(n - 1 + 1) : s[i] = c[1 + i - 1]
      BY <1>8, <2>1, <1>4, SubSeqProperties
    <2>3. n - 1 + 1 = n /\ \A i \in 1..n : 1 + i - 1 = i
      BY <1>4
    <2>q. QED BY <1>4, <2>2, <2>3
  <1>10. s = g1
    <2>1. \A i \in 1..n : s[i] = g1[i]
      <3>1. \A i \in 1..n : i \in 1..(a + m)
        BY <1>0
      <3>q. QED BY <1>4, <1>7, <1>9, <3>1
    <2>q. QED BY <1>4, <1>9, <2>1, SeqEqual
  <1>q. QED BY <1>3, <1>10

\* What a report does to one request.
LEMMA ReportIs ==
  ASSUME NEW H, NEW A, NEW S, NEW R, NEW E, NEW N, Aligned(H, S, R, E, N), Served(H, A, S, R, E, N),
         NEW eos, EngineReport(eos), NEW q \in Reqs
  PROVE  LET w   == H[R + 1][q]
             res == results[1][q]
         IN  /\ IsLive(q, w) => /\ w \in BatchEntry /\ Has(H, R + 1, q)
                                /\ status[q] = "running" /\ w.gen = gen[q] /\ gen[q] > 0
                                /\ ncomp[q] = w.pos + w.n
             /\ ncomp'[q] = IF Sampled(q, w) THEN ncomp[q] - (w.d - res.acc) ELSE ncomp[q]
             /\ status'[q] = IF Sampled(q, w) /\ (ntok'[q] = MaxLen \/ q \in eos) THEN "finished" ELSE status[q]
             /\ Sampled(q, w) => /\ ntok[q] \in PromptLen..(MaxLen - 1) /\ res.acc \in 0..K
                                 /\ ntok'[q] = MinOf(ntok[q] + res.acc + 1, MaxLen)
                                 /\ out'[q] = Greedy!GreedyOutput(q, gen[q], ntok'[q] - PromptLen)
             /\ ~Sampled(q, w) => ntok'[q] = ntok[q] /\ out'[q] = out[q]
  <1>1. /\ IInv /\ OutputIs /\ AllPlanned(H, A, S) /\ AllRan(H, A, E[Last]) /\ ResultsMatch(H, A, R, E)
        /\ Booking(H, A, S, R)
    BY DEF Served
  <1>2. /\ R + 1 <= E[Last] /\ Head(queue) = H[R + 1] /\ Head(results) = results[1] /\ queue # <<>>
    BY ReportAligned
  <1>3. /\ S \in Nat /\ R \in Nat /\ E[Last] \in Nat /\ E[Last] <= S /\ R + 1 \in 1..S /\ 1 \in 1..(E[Last] - R)
    <2>1. S \in Nat /\ R \in Nat /\ E[Last] \in Nat /\ E[Last] <= S
      BY RankFacts DEF Aligned, Counters
    <2>q. QED BY <1>2, <2>1
  <1>4. PICK w, res : w = H[R + 1][q] /\ res = results[1][q]
    OBVIOUS
  <1>5. /\ ntok'[q] = TokensAfter(q, w, res.acc)
        /\ ncomp'[q] = RolledBack(q, w, res.acc)
        /\ status'[q] = IF Sampled(q, w) /\ (ntok'[q] = MaxLen \/ q \in eos) THEN "finished" ELSE status[q]
    BY <1>2, <1>4 DEF EngineReport, Report
  <1>6. out'[q] = IF Sampled(q, w) THEN SubSeq(out[q] \o res.toks, 1, ntok'[q] - PromptLen) ELSE out[q]
    BY <1>2, <1>4 DEF EngineReport
  <1>7. w \in BatchEntry /\ (w.n > 0 <=> Has(H, R + 1, q))
    BY <1>1, <1>3, <1>4 DEF AllPlanned, Planned, Has
  <1>8. queue[1] = H[R + 1] /\ 1 \in 1..Len(queue)
    <2>1. /\ Len(queue) = S - R /\ \A i \in 1..(S - R) : queue[i] = H[R + i]
      BY DEF Aligned, QueueIs
    <2>q. QED BY <1>2, <1>3, <2>1
  <1>9. ASSUME IsLive(q, w)
        PROVE  /\ status[q] = "running" /\ w.gen = gen[q] /\ gen[q] > 0 /\ w.n > 0
               /\ ncomp[q] = w.pos + w.n /\ StepShape(q, w)
               /\ ntok[q] \in PromptLen..(MaxLen - 1)
    <2>1. status[q] = "running" /\ w.gen = gen[q] /\ gen[q] > 0 /\ w.n > 0
      BY <1>1, <1>9 DEF IsLive, Booking
    <2>2. ncomp[q] = w.pos + w.n /\ StepShape(q, w)
      BY <1>1, <1>4, <1>8, <1>9 DEF IInv, Booked
    <2>3. ntok[q] \in Nat /\ ntok[q] >= PromptLen /\ ntok[q] < MaxLen
      BY <1>1, <2>1, PPSchedulerAssumption DEF IInv, AtRest, SchedTypeOK
    <2>q. QED BY <2>1, <2>2, <2>3, PPSchedulerAssumption
  <1>10. ASSUME Sampled(q, w)
         PROVE  /\ res.acc \in 0..K /\ ntok'[q] = MinOf(ntok[q] + res.acc + 1, MaxLen)
                /\ out'[q] = Greedy!GreedyOutput(q, gen[q], ntok'[q] - PromptLen)
    <2>1. IsLive(q, w) /\ ProducesSample(w)
      BY <1>10 DEF Sampled
    <2>2. /\ ntok[q] \in PromptLen..(MaxLen - 1) /\ w.gen = gen[q] /\ gen[q] > 0 /\ w.n > 0 /\ StepShape(q, w)
      BY <1>9, <2>1
    <2>3. w.pos + w.n - w.d = ntok[q]
      BY <1>7, <2>1, <2>2, PPSchedulerAssumption DEF StepShape, ProducesSample, BatchEntry
    <2>4. ResultAt(H, A, R + 1, results[1])
      BY <1>1, <1>3 DEF ResultsMatch
    <2>5. res.toks = [j \in 1..(res.acc + 1) |-> Token(q, gen[q], ntok[q] + j - 1)]
      BY <1>4, <2>1, <2>2, <2>3, <2>4 DEF ResultAt
    <2>6. res.acc \in 0..K
      <3>1. res.acc \in 0..w.d
        BY <1>3, <1>4 DEF Aligned, ResultsIs
      <3>2. w.d \in 0..K
        BY <1>3, <1>4 DEF Aligned, QueueIs, LooseEntry
      <3>q. QED BY <3>1, <3>2, PPSchedulerAssumption
    <2>7. ntok'[q] = MinOf(ntok[q] + res.acc + 1, MaxLen)
      BY <1>5, <1>10 DEF TokensAfter
    <2>8. out[q] = Greedy!GreedyOutput(q, gen[q], ntok[q] - PromptLen)
      BY <1>1, <2>2 DEF OutputIs
    <2>9. PICK a, m, n : a = ntok[q] - PromptLen /\ m = res.acc + 1 /\ n = ntok'[q] - PromptLen
      OBVIOUS
    <2>10. a \in Nat /\ m \in Nat /\ n \in 0..(a + m) /\ PromptLen + a = ntok[q]
      BY <2>2, <2>6, <2>7, <2>9, PPSchedulerAssumption DEF MinOf
    <2>11. SubSeq(out[q] \o res.toks, 1, n) = Greedy!GreedyOutput(q, gen[q], n)
      <3>1. PICK g, o, toks : g = gen[q] /\ o = out[q] /\ toks = res.toks
        OBVIOUS
      <3>2. o = Greedy!GreedyOutput(q, g, a) /\ toks = [j \in 1..m |-> Token(q, g, (PromptLen + a) + j - 1)]
        BY <2>5, <2>8, <2>9, <2>10, <3>1
      <3>3. IsSeq(toks) /\ Len(toks) = m /\ \A j \in 1..m : toks[j] = Token(q, g, (PromptLen + a) + j - 1)
        <4> DEFINE U == {Token(q, g, p) : p \in Int}
        <4>1. \A j \in 1..m : Token(q, g, (PromptLen + a) + j - 1) \in U
          BY <2>10, PPSchedulerAssumption
        <4> HIDE DEF U
        <4>2. toks \in Seq(U) /\ Len(toks) = m
          BY <2>10, <3>2, <4>1
        <4>q. QED BY <3>2, <4>2 DEF IsSeq
      <3>4. PICK s : s = SubSeq(o \o toks, 1, n)
        OBVIOUS
      <3>5. n \in Nat /\ n <= a + m
        BY <2>10
      <3>6. Continues(q, g, a, m, n, o, toks, s)
        BY <2>10, <3>2, <3>3, <3>4, <3>5 DEF Continues
      <3>7. s = Greedy!GreedyOutput(q, g, n)
        BY <3>6, OutputGrows
      <3>q. QED BY <3>1, <3>4, <3>7
    <2>q. QED BY <1>6, <1>10, <2>6, <2>7, <2>9, <2>11
  <1>11. Sampled(q, w) => IsLive(q, w)
    BY DEF Sampled
  <1>q. QED
    BY <1>4, <1>5, <1>6, <1>7, <1>9, <1>10, <1>11 DEF TokensAfter, RolledBack
LEMMA ReportServed ==
  ASSUME "cadence" \in Patches,
         NEW H, NEW A, NEW S, NEW R, NEW E, NEW N, Aligned(H, S, R, E, N), Served(H, A, S, R, E, N),
         NEW eos \in MayEnd, EngineReport(eos)
  PROVE  Served(H, A, S, R + 1, E, N)'
  <1>1. /\ IInv /\ OutputIs /\ Edges(E)
        /\ AllPlanned(H, A, S) /\ AllRan(H, A, E[Last])
        /\ LastRows(H, A, E) /\ LowerRows(H, A, E)
        /\ SlotsMatch(H, E) /\ PayloadsMatch(H, A, E, N) /\ InputsMatch(H, A, E)
        /\ ResultsMatch(H, A, R, E) /\ Booking(H, A, S, R)
    BY DEF Served
  <1>2. R + 1 <= E[Last] /\ Head(queue) = H[R + 1] /\ Head(results) = results[1]
    BY ReportAligned
  <1>3. /\ S \in Nat /\ R \in Nat /\ E[Last] \in Nat /\ E[Last] <= S /\ R + 1 \in 1..S /\ R + 1 \in 1..E[Last]
        /\ 1 \in 1..(E[Last] - R)
    <2>1. S \in Nat /\ R \in Nat /\ E[Last] \in Nat /\ E[Last] <= S
      BY RankFacts DEF Aligned, Counters
    <2>q. QED BY <1>2, <2>1
  <1>4. /\ UNCHANGED <<gen, wait, work, hidden, state, ring, relay, cached, buffer, sending>>
        /\ results # <<>> /\ results' = Tail(results) /\ DOMAIN out' = Reqs
    BY DEF EngineReport, Report
  <1>5. IInv'
    <2>1. SchedNext
      <3>1. Counted
        BY DEF Counted
      <3>q. QED BY <3>1, ReportIsVerdict DEF SchedNext
    <2>q. QED BY <1>1, <2>1, StepInv
  <1>6. Edges(E)' /\ LastRows(H, A, E)' /\ LowerRows(H, A, E)' /\ SlotsMatch(H, E)'
    BY <1>1, <1>4 DEF Edges, LastRows, LastRowAt, LowerRows, RowAt, SlotsMatch
  <1>7. PayloadsMatch(H, A, E, N)' /\ InputsMatch(H, A, E)'
    BY <1>1, <1>4 DEF PayloadsMatch, InputsMatch
  <1>8. ResultsMatch(H, A, R + 1, E)'
    <2>1. Len(results) = E[Last] - R /\ \A i \in 1..((E[Last] - R) - 1) : Tail(results)[i] = results[i + 1]
      <3>1. IsSeq(results) /\ Len(results) = E[Last] - R
        BY DEF Aligned, ResultsIs
      <3>q. QED BY <1>4, <3>1, TailIs
    <2>2. ASSUME NEW i \in 1..(E[Last] - (R + 1)) PROVE ResultAt(H, A, (R + 1) + i, Tail(results)[i])
      <3>1. /\ i \in 1..((E[Last] - R) - 1) /\ i + 1 \in 1..(E[Last] - R)
            /\ R + (i + 1) = (R + 1) + i
        BY <1>3
      <3>2. ResultAt(H, A, R + (i + 1), results[i + 1])
        BY <1>1, <3>1 DEF ResultsMatch
      <3>q. QED BY <2>1, <3>1, <3>2
    <2>q. QED BY <1>4, <2>2 DEF ResultsMatch
  <1>9. OutputIs'
    <2>1. ASSUME NEW q \in Reqs
          PROVE  IF gen[q] = 0 THEN out'[q] = <<>>
                 ELSE ntok'[q] >= PromptLen /\ out'[q] = Greedy!GreedyOutput(q, gen[q], ntok'[q] - PromptLen)
      <3>1. PICK w : w = H[R + 1][q]
        OBVIOUS
      <3>2. IF gen[q] = 0 THEN out[q] = <<>>
            ELSE ntok[q] >= PromptLen /\ out[q] = Greedy!GreedyOutput(q, gen[q], ntok[q] - PromptLen)
        BY <1>1 DEF OutputIs
      <3>3. CASE Sampled(q, w)
        <4>1. IsLive(q, w)
          BY <3>3 DEF Sampled
        <4>2. /\ gen[q] > 0 /\ ntok[q] \in PromptLen..(MaxLen - 1) /\ results[1][q].acc \in 0..K
              /\ ntok'[q] = MinOf(ntok[q] + results[1][q].acc + 1, MaxLen)
              /\ out'[q] = Greedy!GreedyOutput(q, gen[q], ntok'[q] - PromptLen)
          BY <3>1, <3>3, <4>1, ReportIs
        <4>q. QED BY <4>2, PPSchedulerAssumption DEF MinOf
      <3>4. CASE ~Sampled(q, w)
        BY <3>1, <3>2, <3>4, ReportIs
      <3>q. QED BY <3>3, <3>4
    <2>q. QED BY <1>4, <2>1 DEF OutputIs
  <1>10. Booking(H, A, S, R + 1)'
    <2> SUFFICES ASSUME NEW q \in Reqs, status'[q] = "running"
                 PROVE  LET j == Prev(H, S, q)
                        IN  IF j > 0 /\ H[j][q].gen = gen[q]
                            THEN j <= R + 1 => ncomp'[q] = A[j][q].comp
                            ELSE ncomp'[q] = 0
      <3>1. \A q \in Reqs : status'[q] = "running" => status[q] = "running"
        BY <1>2, ReportIs
      <3>q. QED BY <1>1, <1>4, <3>1 DEF Booking
    <2>1. PICK w, res : w = H[R + 1][q] /\ res = results[1][q]
      OBVIOUS
    <2>2. /\ IsLive(q, w) => /\ w \in BatchEntry /\ Has(H, R + 1, q)
                             /\ w.gen = gen[q]
                             /\ ncomp[q] = w.pos + w.n
          /\ ncomp'[q] = IF Sampled(q, w) THEN ncomp[q] - (w.d - res.acc) ELSE ncomp[q]
          /\ status[q] = "running"
      BY <2>1, ReportIs
    <2>3. PICK j : j = Prev(H, S, q)
      OBVIOUS
    <2>4. /\ j \in Nat /\ j <= S /\ (j > 0 => Has(H, j, q))
          /\ Has(H, R + 1, q) => R + 1 <= j
      BY <1>3, <2>3, PrevUse
    <2>5. /\ \A k \in 1..S : Has(H, k, q) => H[k][q].gen <= gen[q]
          /\ IF j > 0 /\ H[j][q].gen = gen[q]
             THEN j <= R => ncomp[q] = A[j][q].comp
             ELSE ncomp[q] = 0
      BY <1>1, <2>2, <2>3 DEF Booking
    <2>6. CASE j > 0 /\ H[j][q].gen = gen[q] /\ j <= R
      <3>1. ~IsLive(q, w)
        BY <1>3, <2>2, <2>4, <2>6
      <3>q. QED BY <2>2, <2>3, <2>5, <2>6, <3>1 DEF Sampled
    <2>7. CASE j = R + 1 /\ H[j][q].gen = gen[q]
      <3>1. IsLive(q, w) /\ w \in BatchEntry
        <4>1. w.n > 0 /\ w.gen = gen[q]
          BY <1>3, <2>1, <2>4, <2>7 DEF Has
        <4>2. IsLive(q, w)
          BY <2>2, <4>1 DEF IsLive
        <4>q. QED BY <2>2, <4>2
      <3>2. Ran(H, A, R + 1, q) /\ ResultAt(H, A, R + 1, results[1])
        BY <1>1, <1>3, <2>2, <3>1 DEF AllRan, ResultsMatch
      <3>3. CASE ProducesSample(w)
        <4>1. res.acc = A[R + 1][q].comp - (w.pos + w.n - w.d) /\ A[R + 1][q].comp \in Int
          <5>1. res.acc = A[R + 1][q].comp - (w.pos + w.n - w.d)
            BY <2>1, <3>1, <3>2, <3>3 DEF ResultAt, IsLive
          <5>2. A[R + 1][q].comp \in 0..(MaxLen + K)
            BY <3>2 DEF Ran, RowOK, RowState
          <5>q. QED BY <5>1, <5>2
        <4>2. ncomp'[q] = A[R + 1][q].comp
          BY <2>2, <3>1, <3>3, <4>1 DEF Sampled, BatchEntry
        <4>q. QED BY <1>3, <2>3, <2>7, <4>2
      <3>4. CASE ~ProducesSample(w)
        <4>1. ncomp'[q] = A[R + 1][q].comp
          BY <2>1, <2>2, <3>1, <3>2, <3>4 DEF Ran, Sampled
        <4>q. QED BY <1>3, <2>3, <2>7, <4>1
      <3>q. QED BY <3>3, <3>4
    <2>8. CASE j > R + 1 /\ H[j][q].gen = gen[q]
      BY <1>3, <2>3, <2>4, <2>8
    <2>9. CASE ~(j > 0 /\ H[j][q].gen = gen[q])
      <3>1. ASSUME IsLive(q, w) PROVE FALSE
        <4>1. Has(H, R + 1, q) /\ w.gen = gen[q] /\ w \in BatchEntry
          BY <2>2, <3>1
        <4>2. j \in 1..S /\ R + 1 <= j /\ Has(H, j, q)
          BY <1>3, <2>4, <4>1
        <4>3. H[j][q].gen <= gen[q] /\ H[j][q] \in BatchEntry /\ (R + 1 < j => H[R + 1][q].gen <= H[j][q].gen)
          <5>1. Planned(H, A, j, q)
            BY <1>1, <4>2 DEF AllPlanned
          <5>2. R + 1 < j => R + 1 \in 1..(j - 1)
            BY <1>3, <4>2
          <5>q. QED BY <2>5, <4>1, <4>2, <5>1, <5>2 DEF Planned
        <4>4. H[j][q].gen = gen[q]
          BY <1>3, <2>1, <4>1, <4>2, <4>3 DEF BatchEntry
        <4>q. QED BY <2>9, <4>2, <4>4
      <3>q. QED BY <2>2, <2>3, <2>5, <2>9, <3>1 DEF Sampled
    <2>q. QED BY <1>3, <2>4, <2>6, <2>7, <2>8, <2>9
  <1>q. QED
    BY <1>1, <1>5, <1>6, <1>7, <1>8, <1>9, <1>10 DEF Served
\* A client that comes or goes touches its own request only.
LEMMA RequestServed ==
  ASSUME "cadence" \in Patches,
         NEW H, NEW A, NEW S, NEW R, NEW E, NEW N, Aligned(H, S, R, E, N), Served(H, A, S, R, E, N),
         NEW p \in Reqs, EngineAdmit(p) \/ EngineAbort(p)
  PROVE  Served(H, A, S, R, E, N)'
  <1>1. /\ IInv /\ OutputIs /\ Edges(E)
        /\ AllPlanned(H, A, S) /\ AllRan(H, A, E[Last])
        /\ LastRows(H, A, E) /\ LowerRows(H, A, E)
        /\ SlotsMatch(H, E) /\ PayloadsMatch(H, A, E, N) /\ InputsMatch(H, A, E)
        /\ ResultsMatch(H, A, R, E) /\ Booking(H, A, S, R)
    BY DEF Served
  <1>2. UNCHANGED <<hidden, state, ring, relay, cached, results, buffer, sending>>
    BY DEF EngineAdmit, EngineAbort, workerVars
  <1>3. IInv'
    <2>1. SchedNext
      BY DEF EngineAdmit, EngineAbort, SchedNext
    <2>q. QED BY <1>1, <2>1, StepInv
  <1>4. Edges(E)' /\ LastRows(H, A, E)' /\ LowerRows(H, A, E)' /\ SlotsMatch(H, E)'
    BY <1>1, <1>2 DEF Edges, LastRows, LastRowAt, LowerRows, RowAt, SlotsMatch
  <1>5. PayloadsMatch(H, A, E, N)' /\ InputsMatch(H, A, E)' /\ ResultsMatch(H, A, R, E)'
    BY <1>1, <1>2 DEF PayloadsMatch, InputsMatch, ResultsMatch
  <1>6. /\ gen \in [Reqs -> Nat] /\ S \in Nat
        /\ ntok \in [Reqs -> Int] /\ ncomp \in [Reqs -> Int] /\ wait \in [Reqs -> 0..PP]
        /\ status \in [Reqs -> {"running", "finished"}]
    BY <1>1 DEF Aligned, Counters, Loose, IInv, SchedTypeOK
  <1>7. CASE EngineAdmit(p)
    <2>1. /\ gen' = [gen EXCEPT ![p] = gen[p] + 1]
          /\ status' = [status EXCEPT ![p] = "running"]
          /\ ntok' = [ntok EXCEPT ![p] = PromptLen]
          /\ ncomp' = [ncomp EXCEPT ![p] = 0]
          /\ wait' = [wait EXCEPT ![p] = 0]
          /\ out' = [out EXCEPT ![p] = <<>>]
      BY <1>7 DEF EngineAdmit, Admit
    <2>2. OutputIs'
      <3>1. PromptLen - PromptLen = 0 /\ PromptLen \in Nat
        BY PPSchedulerAssumption
      <3>2. Greedy!GreedyOutput(p, gen[p] + 1, 0) = <<>>
        BY GreedyIs
      <3>3. ASSUME NEW q \in Reqs
            PROVE  IF gen'[q] = 0 THEN out'[q] = <<>>
                   ELSE ntok'[q] >= PromptLen /\ out'[q] = Greedy!GreedyOutput(q, gen'[q], ntok'[q] - PromptLen)
        <4>1. CASE q = p
          <5>1. gen'[q] = gen[p] + 1 /\ ntok'[q] = PromptLen /\ out'[q] = <<>> /\ gen[p] \in Nat
            BY <1>1, <1>6, <2>1, <4>1 DEF OutputIs
          <5>q. QED BY <3>1, <3>2, <4>1, <5>1
        <4>2. CASE q # p
          <5>1. gen'[q] = gen[q] /\ ntok'[q] = ntok[q] /\ out'[q] = out[q]
            BY <1>1, <1>6, <2>1, <4>2 DEF OutputIs
          <5>q. QED BY <1>1, <5>1 DEF OutputIs
        <4>q. QED BY <4>1, <4>2
      <3>4. DOMAIN out' = Reqs
        BY <1>1, <2>1 DEF OutputIs
      <3>q. QED BY <3>3, <3>4 DEF OutputIs
    <2>3. Booking(H, A, S, R)'
      <3> SUFFICES ASSUME NEW q \in Reqs
                   PROVE  /\ \A k \in 1..S : Has(H, k, q) => H[k][q].gen <= gen'[q]
                          /\ status'[q] = "running" =>
                               /\ gen'[q] > 0
                               /\ LET j == Prev(H, S, q)
                                  IN  IF j > 0 /\ H[j][q].gen = gen'[q]
                                      THEN /\ wait'[q] >= PP - (S - j)
                                           /\ j <= R => ncomp'[q] = A[j][q].comp
                                      ELSE ncomp'[q] = 0
        BY DEF Booking
      <3>1. CASE q = p
        <4>1. gen'[q] = gen[q] + 1 /\ ncomp'[q] = 0 /\ gen[q] \in Nat
          BY <1>6, <2>1, <3>1
        <4>2. \A k \in 1..S : Has(H, k, q) => H[k][q].gen <= gen[q] /\ H[k][q].gen \in Nat
          BY <1>1 DEF Booking, AllPlanned, Planned, BatchEntry
        <4>3. PICK j : j = Prev(H, S, q)
          OBVIOUS
        <4>4. j > 0 => j \in 1..S /\ Has(H, j, q)
          BY <1>6, <4>3, PrevUse
        <4>5. ~(j > 0 /\ H[j][q].gen = gen'[q])
          BY <4>1, <4>2, <4>4
        <4>6. \A k \in 1..S : Has(H, k, q) => H[k][q].gen <= gen'[q]
          BY <4>1, <4>2
        <4>q. QED BY <4>1, <4>3, <4>5, <4>6
      <3>2. CASE q # p
        <4>1. gen'[q] = gen[q] /\ status'[q] = status[q] /\ ncomp'[q] = ncomp[q] /\ wait'[q] = wait[q]
          BY <1>6, <2>1, <3>2
        <4>q. QED BY <1>1, <4>1 DEF Booking
      <3>q. QED BY <3>1, <3>2
    <2>q. QED BY <1>1, <1>3, <1>4, <1>5, <2>2, <2>3 DEF Served
  <1>8. CASE EngineAbort(p)
    <2>1. /\ status' = [status EXCEPT ![p] = "finished"]
          /\ UNCHANGED <<gen, ntok, ncomp, wait, out>>
      BY <1>8 DEF EngineAbort, Abort
    <2>2. \A q \in Reqs : status'[q] = "running" => status[q] = "running"
      BY <1>6, <2>1
    <2>3. OutputIs'
      BY <1>1, <2>1 DEF OutputIs
    <2>4. Booking(H, A, S, R)'
      BY <1>1, <2>1, <2>2 DEF Booking
    <2>q. QED BY <1>1, <1>3, <1>4, <1>5, <2>3, <2>4 DEF Served
  <1>q. QED BY <1>7, <1>8

\* What a broadcast carries is what was queued: the fresh gather of the drafts.
LEMMA MessageIs ==
  ASSUME NEW H, NEW A, NEW k, NEW p, PayloadOf(H, A, k, p),
         NEW msg, msg.row = [q \in Reqs |-> [p.row[q] EXCEPT !.draft = DraftsRead(p, q)]]
  PROVE  PayloadOf(H, A, k, msg)
  <1>1. ASSUME NEW q \in NeedSampled(H[k], K)
        PROVE  msg.row[q] = [last     |-> A[k][q].last,
                             rejected |-> (H[k][q].pos + H[k][q].n) - A[k][q].comp,
                             draft    |-> A[k][q].draft]
    <2>1. q \in Reqs
      BY DEF NeedSampled, InBatch
    <2>2. PICK x, y, z : x = A[k][q].last /\ y = (H[k][q].pos + H[k][q].n) - A[k][q].comp /\ z = A[k][q].draft
      OBVIOUS
    <2>3. p.row[q] = [last |-> x, rejected |-> y, draft |-> z]
      BY <2>2 DEF PayloadOf
    <2>4. msg.row[q] = [p.row[q] EXCEPT !.draft = p.row[q].draft]
      BY <2>1 DEF DraftsRead
    <2>5. [[last |-> x, rejected |-> y, draft |-> z] EXCEPT !.draft = z] = [last |-> x, rejected |-> y, draft |-> z]
      OBVIOUS
    <2>6. p.row[q].draft = z
      BY <2>3
    <2>q. QED BY <2>2, <2>3, <2>4, <2>5, <2>6
  <1>q. QED BY <1>1 DEF PayloadOf

LEMMA BroadcastServed ==
  ASSUME NEW H, NEW A, NEW S, NEW R, NEW E, NEW N, Aligned(H, S, R, E, N), Served(H, A, S, R, E, N),
         Broadcast
  PROVE  Served(H, A, S, R, E, N + 1)'
  <1>1. /\ IInv /\ OutputIs /\ Edges(E)
        /\ AllPlanned(H, A, S) /\ AllRan(H, A, E[Last])
        /\ LastRows(H, A, E) /\ LowerRows(H, A, E)
        /\ SlotsMatch(H, E) /\ PayloadsMatch(H, A, E, N) /\ InputsMatch(H, A, E)
        /\ ResultsMatch(H, A, R, E) /\ Booking(H, A, S, R)
    BY DEF Served
  <1>2. PICK msg : /\ msg.row = [q \in Reqs |-> [Head(sending).row[q] EXCEPT !.draft = DraftsRead(Head(sending), q)]]
                   /\ relay' = [r \in Ranks |-> IF r < Last THEN Append(relay[r], msg) ELSE relay[r]]
    <2> DEFINE m == [width |-> Head(sending).width,
                     row |-> [q \in Reqs |-> [Head(sending).row[q] EXCEPT !.draft = DraftsRead(Head(sending), q)]]]
    <2>1. relay' = [r \in Ranks |-> IF r < Last THEN Append(relay[r], m) ELSE relay[r]]
      BY DEF Broadcast
    <2>2. m.row = [q \in Reqs |-> [Head(sending).row[q] EXCEPT !.draft = DraftsRead(Head(sending), q)]]
      OBVIOUS
    <2> HIDE DEF m
    <2>q. QED BY <2>1, <2>2
  <1>3. /\ sending # <<>> /\ sending' = Tail(sending)
        /\ UNCHANGED <<schedVars, out, work, hidden, state, ring, cached, results, drafted, buffer>>
    BY DEF Broadcast
  <1>4. IInv' /\ OutputIs' /\ Booking(H, A, S, R)'
    BY <1>1, <1>3 DEF schedVars, IInv, SchedTypeOK, EntryInv, Spacing, OneLive, Booked, AtRest,
              NoLiveStep, RestShape, StepShape, IsLive, OutputIs, Booking
  <1>5. Edges(E)' /\ LastRows(H, A, E)' /\ LowerRows(H, A, E)' /\ SlotsMatch(H, E)'
    BY <1>1, <1>3 DEF Edges, LastRows, LastRowAt, LowerRows, RowAt, SlotsMatch
  <1>6. InputsMatch(H, A, E)' /\ ResultsMatch(H, A, R, E)'
    BY <1>1, <1>3 DEF InputsMatch, ResultsMatch
  <1>7. /\ N \in Nat /\ E[Last] \in Nat /\ E \in [Ranks -> Nat] /\ Count(H, E[Last]) \in Nat
        /\ IsSeq(sending) /\ Len(sending) = Count(H, E[Last]) - N
        /\ \A r \in 0..(Last - 1) : IsSeq(relay[r]) /\ Len(relay[r]) = N - Count(H, Oldest(E, r))
    BY RankFacts, NeededFinite DEF Aligned, Counters, RelayIs
  <1>8. /\ Head(sending) = sending[1] /\ Len(sending) > 0
        /\ \A i \in 1..(Len(sending) - 1) : sending'[i] = sending[i + 1]
    BY <1>3, <1>7, TailIs
  <1>9. ASSUME NEW k \in Needed(H, E[Last])
        PROVE  Count(H, k) \in Nat /\ Count(H, k) <= Count(H, E[Last])
    <2>1. k \in Nat /\ k <= E[Last]
      BY <1>7 DEF Needed
    <2>q. QED BY <1>7, <2>1, NeededFinite, CountBetween
  <1>10. PayloadsMatch(H, A, E, N + 1)'
    <2>1. ASSUME NEW k \in Needed(H, E[Last]), Count(H, k) > N + 1
          PROVE  PayloadOf(H, A, k, sending'[Count(H, k) - (N + 1)])
      <3>1. PICK c : c = Count(H, k)
        OBVIOUS
      <3>2. c \in Nat /\ c > N /\ c - (N + 1) \in 1..(Len(sending) - 1) /\ (c - (N + 1)) + 1 = c - N
        BY <1>7, <1>9, <2>1, <3>1
      <3>3. sending'[c - (N + 1)] = sending[c - N]
        BY <1>8, <3>2
      <3>4. PayloadOf(H, A, k, sending[c - N])
        BY <1>1, <3>1, <3>2 DEF PayloadsMatch
      <3>q. QED BY <3>1, <3>3, <3>4
    <2>2. ASSUME NEW k \in Needed(H, E[Last]), NEW r \in 0..(Last - 1),
                 Count(H, k) <= N + 1, Count(H, k) > Count(H, Oldest(E, r))
          PROVE  PayloadOf(H, A, k, relay'[r][Count(H, k) - Count(H, Oldest(E, r))])
      <3>1. PICK c, o : c = Count(H, k) /\ o = Count(H, Oldest(E, r))
        OBVIOUS
      <3>2. r \in Ranks /\ r < Last
        BY RankFacts
      <3>3. o \in Nat /\ c \in Nat
        BY <1>7, <1>9, <3>1, <3>2, OldestIs, NeededFinite
      <3>4. /\ IsSeq(relay[r]) /\ Len(relay[r]) = N - o /\ relay'[r] = Append(relay[r], msg)
        BY <1>2, <1>7, <3>1, <3>2
      <3>5. (\A i \in 1..(N - o) : relay'[r][i] = relay[r][i]) /\ relay'[r][(N - o) + 1] = msg
        BY <3>4, AppendIs
      <3>6. CASE c <= N
        <4>1. c - o \in 1..(N - o) /\ c > o
          BY <1>7, <2>2, <3>1, <3>3, <3>6
        <4>2. PayloadOf(H, A, k, relay[r][c - o])
          BY <1>1, <3>1, <3>6, <4>1 DEF PayloadsMatch
        <4>q. QED BY <3>1, <3>5, <4>1, <4>2
      <3>7. CASE c = N + 1
        <4>1. c - o = (N - o) + 1 /\ c > N /\ c - N = 1
          BY <1>7, <3>3, <3>7
        <4>2. PayloadOf(H, A, k, sending[1])
          BY <1>1, <3>1, <4>1 DEF PayloadsMatch
        <4>3. PayloadOf(H, A, k, msg)
          BY <1>2, <1>8, <4>2, MessageIs
        <4>q. QED BY <3>1, <3>5, <4>1, <4>3
      <3>q. QED BY <1>7, <2>2, <3>1, <3>3, <3>6, <3>7, SMTT(30)
    <2>q. QED BY <2>1, <2>2 DEF PayloadsMatch
  <1>q. QED
    BY <1>1, <1>4, <1>5, <1>6, <1>10 DEF Served

----------------------------------------------------------------------------
(* A rank that is not the last                                               *)

\* A row that a late broadcast reaches.
Settled(s, row) ==
  [s EXCEPT !.last = row.last, !.comp = @ - row.rejected, !.draft = row.draft]

LEMMA SettledIs ==
  ASSUME NEW s \in RowState, NEW row
  PROVE  Settled(s, row) = [gen |-> s.gen, comp |-> s.comp - row.rejected, last |-> row.last, draft |-> row.draft]
  <1>1. s = [gen |-> s.gen, comp |-> s.comp, last |-> s.last, draft |-> s.draft]
    BY DEF RowState
  <1>2. PICK g, c, l, d : g = s.gen /\ c = s.comp /\ l = s.last /\ d = s.draft
    OBVIOUS
  <1>3. PICK l1, c1, d1 : l1 = row.last /\ c1 = c - row.rejected /\ d1 = row.draft
    OBVIOUS
  <1>4. Settled(s, row) = [s EXCEPT !.last = l1, !.comp = c1, !.draft = d1]
    BY <1>2, <1>3 DEF Settled
  <1>5. s = [gen |-> g, comp |-> c, last |-> l, draft |-> d]
    BY <1>1, <1>2
  <1>q. QED BY <1>2, <1>3, <1>4, <1>5

LEMMA AppliedIs ==
  ASSUME NEW st, NEW slot, NEW pay, NEW q \in Reqs
  PROVE  Applied(st, slot, pay)[q] =
           IF q \in slot.mask /\ slot.gen[q] = st[q].gen THEN Settled(st[q], pay.row[q]) ELSE st[q]
  <1> DEFINE from == {p \in slot.mask : q \in RowOf(st, slot, p)}
             fit  == q \in slot.mask /\ slot.gen[q] = st[q].gen
  <1>0. Applied(st, slot, pay)[q] =
          IF from = {} THEN st[q] ELSE Settled(st[q], pay.row[CHOOSE p \in from : TRUE])
    BY DEF Applied, Settled
  <1>1. CASE fit
    <2>1. from = {q}
      BY <1>1 DEF RowOf
    <2>2. (CHOOSE p \in from : TRUE) = q
      BY <2>1
    <2>3. from # {}
      BY <2>1
    <2> HIDE DEF from
    <2>q. QED BY <1>0, <1>1, <2>2, <2>3
  <1>2. CASE ~fit
    <2>1. from = {}
      BY <1>2 DEF RowOf
    <2> HIDE DEF from
    <2>q. QED BY <1>0, <1>2, <2>1
  <1>q. QED BY <1>1, <1>2

\* A step between the slot's batch and now would have been planned too early.
LEMMA SlotHits ==
  ASSUME NEW H, NEW A, NEW S \in Nat, AllPlanned(H, A, S), NEW j \in 1..S, NEW i \in 1..(j - 1),
         NEW q \in Reqs, Has(H, i, q), Has(H, j, q), j < i + PP
  PROVE  H[i][q].gen # H[j][q].gen
  <1>1. PICK p : p = Prev(H, j - 1, q)
    OBVIOUS
  <1>2. j - 1 \in Nat /\ PP \in Nat /\ i \in 1..S
    BY PPSchedulerAssumption
  <1>3. p \in Nat /\ p <= j - 1 /\ (p > 0 => Has(H, p, q)) /\ i <= p
    BY <1>1, <1>2, PrevUse
  <1>4. p \in 1..S /\ p > 0
    BY <1>2, <1>3
  <1>5. /\ H[i][q] \in BatchEntry /\ H[p][q] \in BatchEntry /\ H[j][q] \in BatchEntry
        /\ p > 0 /\ H[p][q].gen = H[j][q].gen => p + PP <= j
        /\ H[p][q].gen <= H[j][q].gen
        /\ i < p => H[i][q].gen <= H[p][q].gen
    <2>1. Planned(H, A, i, q) /\ Planned(H, A, p, q) /\ Planned(H, A, j, q)
      BY <1>2, <1>4 DEF AllPlanned
    <2>2. p \in 1..(j - 1) /\ (i < p => i \in 1..(p - 1))
      BY <1>2, <1>3
    <2>q. QED BY <1>1, <1>3, <2>1, <2>2 DEF Planned
  <1>6. ASSUME H[i][q].gen = H[j][q].gen PROVE FALSE
    <2>1. H[p][q].gen = H[j][q].gen
      <3>1. CASE i = p
        BY <1>6, <3>1
      <3>2. CASE i < p
        BY <1>5, <1>6, <3>2 DEF BatchEntry
      <3>q. QED BY <1>2, <1>3, <3>1, <3>2
    <2>2. p + PP <= j
      BY <1>4, <1>5, <2>1
    <2>q. QED BY <1>2, <1>3, <2>2
  <1>q. QED BY <1>6

\* The broadcast rank r takes now is that of the batch its slot was posted for.
LEMMA PayloadDue ==
  ASSUME NEW H, NEW A, NEW S, NEW R, NEW E, NEW N, Aligned(H, S, R, E, N), PayloadsMatch(H, A, E, N),
         NEW r \in 0..(Last - 1), SlotDue(r), relay[r] # <<>>, E[r] < S
  PROVE  /\ E[r] >= PP /\ (E[r] - PP) + 1 \in 1..E[Last]
         /\ PayloadOf(H, A, (E[r] - PP) + 1, Head(relay[r]))
  <1>1. /\ E[r] \in Nat /\ S \in Nat /\ R \in Nat /\ N \in Nat /\ E[Last] \in Nat /\ PP \in Nat /\ PP > 0
        /\ R <= E[Last] /\ S <= R + PP /\ r \in Ranks /\ E \in [Ranks -> Nat]
    BY RankFacts, PPSchedulerAssumption DEF Aligned, Counters
  <1>2. PICK i : i = (E[r] - PP) + 1
    OBVIOUS
  <1>3. E[r] >= PP /\ NeedSampled(H[i], K) # {}
    BY <1>2, SlotIs
  <1>4. Oldest(E, r) = E[r] - PP /\ E[r] - PP \in Nat
    BY <1>1, <1>3, OldestIs
  <1>5. i \in 1..E[Last]
    BY <1>1, <1>2, <1>3
  <1>6. i \in Needed(H, E[Last])
    BY <1>3, <1>5 DEF Needed
  <1>7. PICK c, o : c = Count(H, i) /\ o = Count(H, Oldest(E, r))
    OBVIOUS
  <1>8. c = o + 1 /\ o \in Nat
    BY <1>2, <1>3, <1>4, <1>7, CountNext, NeededFinite
  <1>9. IsSeq(relay[r]) /\ Len(relay[r]) = N - o
    BY <1>7 DEF Aligned, RelayIs
  <1>10. Len(relay[r]) > 0 /\ Head(relay[r]) = relay[r][1]
    BY <1>9, TailIs
  <1>11. c <= N /\ c > o /\ c - o = 1
    BY <1>1, <1>8, <1>9, <1>10
  <1>12. PayloadOf(H, A, i, relay[r][1])
    BY <1>6, <1>7, <1>11 DEF PayloadsMatch
  <1>q. QED BY <1>2, <1>3, <1>5, <1>10, <1>12

\* Whether a late broadcast reaches a row: it does exactly when the slot is that
\* of the row's own last step, so that a row is as far as RowAt says it is.
LEMMA CorrectedIs ==
  ASSUME NEW H, NEW A, NEW S, NEW R, NEW E, NEW N, Aligned(H, S, R, E, N), Served(H, A, S, R, E, N),
         NEW r \in Ranks, Execute(r), NEW q \in Reqs
  PROVE  LET k == E[r] + 1
             s == Corrected(r)[q]
         IN  /\ s \in RowState /\ Owned(q, s)
             /\ ~Has(H, k, q) => RowAt(H, A, k, s, q)
             /\ Has(H, k, q) => /\ s.gen = H[k][q].gen
                                /\ s.comp = Base(H, A, k, q).comp
                                /\ s.comp >= PromptLen => /\ s.last = Base(H, A, k, q).last
                                                          /\ s.draft = Base(H, A, k, q).draft
  <1>1. /\ AllPlanned(H, A, S) /\ AllRan(H, A, E[Last]) /\ LowerRows(H, A, E)
        /\ SlotsMatch(H, E) /\ PayloadsMatch(H, A, E, N)
    BY DEF Served
  <1>2. r \in 0..(Last - 1) /\ E[r] + 1 <= S /\ Head(work[r]) = H[E[r] + 1]
    <2>1. /\ Aligned(H, S, R, [E EXCEPT ![r] = E[r] + 1], N)'
          /\ r \in 0..(Last - 1) /\ E[r] + 1 <= S /\ Head(work[r]) = H[E[r] + 1]
          /\ r > 0 => E[r] + 1 <= E[r - 1] /\ Head(hidden[r]) = hidden[r][1]
      BY ExecuteAligned
    <2>q. QED BY <2>1
  <1>3. PICK e, k : e = E[r] /\ k = E[r] + 1
    OBVIOUS
  <1>4. /\ e \in Nat /\ k = e + 1 /\ S \in Nat /\ R \in Nat /\ E[Last] \in Nat /\ PP \in Nat /\ PP > 0
        /\ R <= E[Last] /\ S <= R + PP /\ k \in 1..S /\ k - 1 = e
    <2>1. /\ e \in Nat /\ S \in Nat /\ R \in Nat /\ E[Last] \in Nat /\ PP \in Nat /\ PP > 0
          /\ R <= E[Last] /\ S <= R + PP
      BY <1>3, RankFacts, PPSchedulerAssumption DEF Aligned, Counters
    <2>q. QED BY <1>2, <1>3, <2>1
  <1>5. PICK j, w : j = Prev(H, e, q) /\ w = H[j][q]
    OBVIOUS
  <1>6. j \in Nat /\ j <= e /\ (j > 0 => Has(H, j, q)) /\ \A i \in 1..e : Has(H, i, q) => i <= j
    BY <1>4, <1>5, PrevUse
  <1>7. PICK t, t1, s : t = state[r][q] /\ t1 = Added(state[r], H[k])[q] /\ s = Corrected(r)[q]
    OBVIOUS
  <1>8. RowAt(H, A, e, t, q)
    BY <1>1, <1>2, <1>3, <1>7 DEF LowerRows
  <1>9. t1 = IF Has(H, k, q) /\ H[k][q].gen # t.gen THEN Fresh(H[k][q].gen) ELSE t
    BY <1>7 DEF Added, Has, Fresh
  <1>10. PICK i : i = (e - PP) + 1
    OBVIOUS
  <1> DEFINE hit == SlotDue(r) /\ q \in Head(ring[r]).mask /\ Head(ring[r]).gen[q] = t1.gen
  <1>11. s = IF hit THEN Settled(t1, Head(relay[r]).row[q]) ELSE t1
    <2>1. PICK st, slot, pay : st = Added(state[r], H[k]) /\ slot = Head(ring[r]) /\ pay = Head(relay[r])
      OBVIOUS
    <2>2. Applied(st, slot, pay)[q] =
            IF q \in slot.mask /\ slot.gen[q] = st[q].gen THEN Settled(st[q], pay.row[q]) ELSE st[q]
      BY AppliedIs
    <2>3. st[q] = t1 /\ s = IF SlotDue(r) THEN Applied(st, slot, pay)[q] ELSE st[q]
      BY <1>2, <1>3, <1>7, <2>1 DEF Corrected
    <2>4. hit <=> SlotDue(r) /\ q \in slot.mask /\ slot.gen[q] = t1.gen
      BY <2>1
    <2> HIDE DEF hit
    <2>q. QED BY <2>1, <2>2, <2>3, <2>4
  <1>12. ASSUME SlotDue(r)
         PROVE  /\ e >= PP /\ i \in 1..E[Last] /\ i <= e /\ i \in 1..S
                /\ Head(ring[r]).mask = {p \in Reqs : Has(H, i, p) /\ ProducesSample(H[i][p])}
                /\ q \in Head(ring[r]).mask => Head(ring[r]).gen[q] = H[i][q].gen
                /\ PayloadOf(H, A, i, Head(relay[r]))
    <2>1. relay[r] # <<>>
      BY <1>12, ExecuteIs
    <2>2. e >= PP /\ i \in 1..E[Last] /\ PayloadOf(H, A, i, Head(relay[r]))
      BY <1>1, <1>2, <1>3, <1>4, <1>10, <1>12, <2>1, PayloadDue, SMTT(30)
    <2>3. i \in 1..S /\ i <= e
      BY <1>4, <1>10, <2>2
    <2>4. Head(ring[r]).mask = NeedSampled(H[i], K) /\ Head(ring[r]) = ring[r][1]
      BY <1>2, <1>3, <1>10, <2>2, SlotIs
    <2>5. NeedSampled(H[i], K) = {p \in Reqs : Has(H, i, p) /\ ProducesSample(H[i][p])}
      BY <1>1, <2>3, MaskIs
    <2>6. 1 \in 1..Len(ring[r]) /\ Oldest(E, r) + 1 = i
      <3>1. E \in [Ranks -> Nat] /\ Len(ring[r]) = E[r] - Oldest(E, r)
        BY <1>2 DEF Aligned, Counters, RingIs
      <3>2. Oldest(E, r) = E[r] - PP
        BY <1>3, <2>2, <3>1, OldestIs
      <3>q. QED BY <1>3, <1>4, <1>10, <2>2, <3>1, <3>2
    <2>7. \A p \in NeedSampled(H[i], K) : ring[r][1].gen[p] = H[i][p].gen
      BY <1>1, <1>2, <2>6 DEF SlotsMatch
    <2>q. QED BY <2>2, <2>3, <2>4, <2>5, <2>7
  <1> HIDE DEF hit
  <1>13. \A x \in 1..S : Has(H, x, q) => H[x][q] \in BatchEntry /\ H[x][q].gen \in 1..MaxGen
    BY <1>1 DEF AllPlanned, Planned, PlannedOn
  <1>14. Prev(H, k - 1, q) = j
    BY <1>4, <1>5
  <1>15. ASSUME j = 0
         PROVE  /\ ~hit /\ t = FreshState
                /\ Has(H, k, q) => t1 = Fresh(H[k][q].gen) /\ Base(H, A, k, q) = Fresh(H[k][q].gen)
    <2>1. ~hit
      <3>1. SUFFICES ASSUME hit PROVE FALSE
        OBVIOUS
      <3>2. SlotDue(r) /\ q \in Head(ring[r]).mask
        BY <3>1 DEF hit
      <3>3. i \in 1..S /\ i <= e /\ Has(H, i, q)
        BY <1>12, <3>2
      <3>q. QED BY <1>4, <1>6, <1>15, <3>3
    <2>2. t = FreshState
      BY <1>5, <1>8, <1>15 DEF RowAt
    <2>3. Has(H, k, q) => t1 = Fresh(H[k][q].gen)
      BY <1>4, <1>9, <1>13, <2>2, PPSchedulerAssumption DEF FreshState
    <2>4. Base(H, A, k, q) = Fresh(H[k][q].gen)
      BY <1>14, <1>15 DEF Base
    <2>q. QED BY <2>1, <2>2, <2>3, <2>4
  <1>16. ASSUME j > 0
         PROVE  /\ t \in RowState /\ Owned(q, t) /\ t.gen = w.gen /\ w \in BatchEntry /\ Has(H, j, q) /\ j \in 1..S
                /\ IF j + PP > e THEN t.comp = w.pos + w.n
                   ELSE /\ t.comp = A[j][q].comp
                        /\ t.comp >= PromptLen => t.last = A[j][q].last /\ t.draft = A[j][q].draft
    BY <1>4, <1>5, <1>6, <1>8, <1>13, <1>16 DEF RowAt
  <1>17. ASSUME Has(H, k, q), j > 0, H[k][q].gen # w.gen
         PROVE  ~hit /\ t1 = Fresh(H[k][q].gen) /\ Base(H, A, k, q) = Fresh(H[k][q].gen)
    <2>1. t1 = Fresh(H[k][q].gen) /\ t1.gen = H[k][q].gen
      BY <1>9, <1>16, <1>17 DEF Fresh
    <2>2. Base(H, A, k, q) = Fresh(H[k][q].gen)
      BY <1>5, <1>14, <1>17 DEF Base
    <2>3. ASSUME hit PROVE FALSE
      <3>1. SlotDue(r) /\ q \in Head(ring[r]).mask /\ Head(ring[r]).gen[q] = t1.gen
        BY <2>3 DEF hit
      <3>2. i \in 1..S /\ i <= e /\ Has(H, i, q) /\ H[i][q].gen = H[k][q].gen
        BY <1>12, <2>1, <3>1
      <3>3. i <= j /\ i # j
        BY <1>4, <1>5, <1>6, <1>17, <3>2
      <3>4. Planned(H, A, j, q) /\ Planned(H, A, k, q)
        BY <1>1, <1>4, <1>16, <1>17 DEF AllPlanned
      <3>5. i \in 1..(j - 1) /\ j \in 1..(k - 1)
        BY <1>4, <1>6, <1>16, <1>17, <3>2, <3>3
      <3>6. H[i][q].gen <= w.gen /\ w.gen <= H[k][q].gen
        BY <1>5, <1>16, <1>17, <3>2, <3>4, <3>5 DEF Planned
      <3>q. QED BY <1>4, <1>13, <1>16, <1>17, <3>2, <3>6 DEF BatchEntry
    <2>q. QED BY <2>1, <2>2, <2>3
  <1>18. ASSUME j > 0, ~(Has(H, k, q) /\ H[k][q].gen # w.gen)
         PROVE  /\ s \in RowState /\ Owned(q, s) /\ s.gen = w.gen
                /\ IF j + PP > k THEN s.comp = w.pos + w.n
                   ELSE /\ s.comp = A[j][q].comp
                        /\ s.comp >= PromptLen => s.last = A[j][q].last /\ s.draft = A[j][q].draft
    <2>1. t1 = t /\ t1.gen = w.gen
      BY <1>9, <1>16, <1>18
    <2>2. ASSUME hit PROVE i = j
      <3>1. SlotDue(r) /\ q \in Head(ring[r]).mask /\ Head(ring[r]).gen[q] = t1.gen
        BY <2>2 DEF hit
      <3>2. i \in 1..S /\ i <= e /\ Has(H, i, q) /\ H[i][q].gen = w.gen
        BY <1>12, <2>1, <3>1
      <3>3. i <= j
        BY <1>4, <1>6, <3>2
      <3>4. ASSUME i < j PROVE FALSE
        <4>1. i \in 1..(j - 1) /\ j < i + PP
          BY <1>4, <1>6, <1>10, <3>2, <3>4
        <4>2. H[i][q].gen # H[j][q].gen
          BY <1>1, <1>4, <1>16, <1>18, <3>2, <4>1, SlotHits
        <4>q. QED BY <1>5, <3>2, <4>2
      <3>q. QED BY <1>4, <1>6, <1>10, <3>3, <3>4
    <2>3. CASE j # i
      <3>1. s = t
        BY <1>11, <2>1, <2>2, <2>3
      <3>2. j + PP > k <=> j + PP > e
        BY <1>4, <1>6, <1>10, <2>3
      <3>q. QED BY <1>16, <1>18, <3>1, <3>2
    <2>4. CASE j = i
      <3>1. j + PP > e /\ ~(j + PP > k) /\ e >= PP /\ j \in 1..E[Last]
        BY <1>2, <1>3, <1>4, <1>6, <1>10, <1>18, <2>4
      <3>2. Ran(H, A, j, q)
        BY <1>1, <1>16, <1>18, <3>1 DEF AllRan
      <3>3. PICK a : a = A[j][q]
        OBVIOUS
      <3>4. /\ RowOK(q, a) /\ a.gen = w.gen
            /\ ~ProducesSample(w) => a.comp = w.pos + w.n
        BY <1>5, <3>2, <3>3 DEF Ran
      <3>5. t.comp = w.pos + w.n
        BY <1>16, <1>18, <3>1
      <3>6. NeedSampled(H[i], K) = {p \in Reqs : Has(H, i, p) /\ ProducesSample(H[i][p])}
        BY <1>1, <1>16, <1>18, <2>4, MaskIs
      <3>7. CASE ProducesSample(w)
        <4>1. SlotDue(r)
          <5>1. q \in NeedSampled(H[(E[r] - PP) + 1], K)
            BY <1>3, <1>5, <1>10, <1>16, <1>18, <2>4, <3>6, <3>7
          <5>2. E[r] >= PP
            BY <1>3, <3>1
          <5>q. QED BY <1>2, <5>1, <5>2, SlotIs
        <4>2. q \in Head(ring[r]).mask /\ Head(ring[r]).gen[q] = H[i][q].gen /\ PayloadOf(H, A, i, Head(relay[r]))
          BY <1>5, <1>12, <1>16, <1>18, <2>4, <3>7, <4>1
        <4>3. hit
          BY <1>5, <2>1, <2>4, <4>1, <4>2 DEF hit
        <4>4. q \in NeedSampled(H[i], K)
          BY <1>5, <1>16, <1>18, <2>4, <3>6, <3>7
        <4>5. PICK row : row = Head(relay[r]).row[q]
          OBVIOUS
        <4>6. row = [last |-> a.last, rejected |-> (w.pos + w.n) - a.comp, draft |-> a.draft]
          BY <1>5, <2>4, <3>3, <4>2, <4>4, <4>5 DEF PayloadOf
        <4>7. row.last = a.last /\ row.rejected = (w.pos + w.n) - a.comp /\ row.draft = a.draft
          BY <4>6
        <4>8. s = Settled(t, row)
          BY <1>11, <2>1, <4>3, <4>5
        <4>9. a \in RowState /\ t \in RowState /\ Owned(q, a)
          BY <1>16, <1>18, <3>4 DEF RowOK
        <4>10. t.comp - ((w.pos + w.n) - a.comp) = a.comp
          BY <1>16, <1>18, <3>5, <4>9 DEF RowState, BatchEntry
        <4>11. s = [gen |-> t.gen, comp |-> a.comp, last |-> a.last, draft |-> a.draft]
          BY <4>7, <4>8, <4>9, <4>10, SettledIs
        <4>12. s \in RowState /\ s.gen = w.gen /\ s.comp = a.comp /\ s.last = a.last /\ s.draft = a.draft
          BY <2>1, <4>9, <4>11 DEF RowState
        <4>13. Owned(q, s)
          BY <3>4, <4>9, <4>12 DEF Owned
        <4>q. QED BY <3>1, <3>3, <4>12, <4>13
      <3>8. CASE ~ProducesSample(w)
        <4>1. ~hit
          <5>1. SUFFICES ASSUME hit PROVE FALSE
            OBVIOUS
          <5>2. SlotDue(r) /\ q \in Head(ring[r]).mask
            BY <5>1 DEF hit
          <5>3. ProducesSample(H[i][q])
            BY <1>12, <5>2
          <5>q. QED BY <1>5, <2>4, <3>8, <5>3
        <4>2. s = t
          BY <1>11, <2>1, <4>1
        <4>3. ~(s.comp >= PromptLen)
          BY <1>16, <1>18, <3>5, <3>8, <4>2, PPSchedulerAssumption DEF ProducesSample, BatchEntry
        <4>q. QED BY <1>16, <1>18, <3>1, <3>3, <3>4, <3>5, <3>8, <4>2, <4>3
      <3>q. QED BY <3>7, <3>8
    <2>q. QED BY <2>3, <2>4
  <1>19. MaxGen \in Nat /\ 0 \in 0..MaxGen /\ FreshState = Fresh(0)
    BY PPSchedulerAssumption DEF FreshState, Fresh
  <1>20. CASE Has(H, k, q)
    <2>1. H[k][q].gen \in 0..MaxGen
      BY <1>4, <1>13, <1>20, PPSchedulerAssumption
    <2>2. CASE j = 0 \/ H[k][q].gen # w.gen
      <3>1. s = Fresh(H[k][q].gen) /\ Base(H, A, k, q) = Fresh(H[k][q].gen)
        BY <1>6, <1>11, <1>15, <1>17, <1>20, <2>2
      <3>2. RowOK(q, s) /\ s.gen = H[k][q].gen /\ s.comp = Base(H, A, k, q).comp /\ s = Base(H, A, k, q)
        BY <2>1, <3>1, FreshOK
      <3>q. QED BY <1>3, <1>7, <1>20, <3>2 DEF RowOK
    <2>3. CASE j > 0 /\ H[k][q].gen = w.gen
      <3>1. j + PP <= k
        BY <1>1, <1>4, <1>5, <1>14, <1>20, <2>3 DEF AllPlanned, Planned
      <3>2. ~(j + PP > k)
        BY <1>4, <1>6, <3>1
      <3>3. Base(H, A, k, q) = A[j][q]
        BY <1>5, <1>14, <2>3 DEF Base
      <3>4. /\ s \in RowState /\ Owned(q, s) /\ s.gen = w.gen
            /\ s.comp = A[j][q].comp
            /\ s.comp >= PromptLen => s.last = A[j][q].last /\ s.draft = A[j][q].draft
        BY <1>18, <2>3, <3>2
      <3>q. QED BY <1>3, <1>7, <1>20, <2>3, <3>3, <3>4
    <2>q. QED BY <1>6, <2>2, <2>3
  <1>21. CASE ~Has(H, k, q)
    <2>1. Prev(H, k, q) = j
      BY <1>4, <1>5, <1>21, PrevNext
    <2>2. CASE j = 0
      <3>1. s = FreshState
        BY <1>9, <1>11, <1>15, <1>21, <2>2
      <3>2. RowOK(q, s)
        BY <1>19, <3>1, FreshOK
      <3>3. RowAt(H, A, k, s, q)
        BY <2>1, <2>2, <3>1 DEF RowAt
      <3>q. QED BY <1>3, <1>7, <1>21, <3>2, <3>3 DEF RowOK
    <2>3. CASE j > 0
      <3>1. RowAt(H, A, k, s, q)
        BY <1>5, <1>18, <1>21, <2>1, <2>3 DEF RowAt
      <3>q. QED BY <1>3, <1>7, <1>18, <1>21, <2>3, <3>1
    <2>q. QED BY <1>6, <2>2, <2>3
  <1>q. QED BY <1>20, <1>21

\* What rank r hands on is the input of its batch.
LEMMA ComputedIs ==
  ASSUME NEW H, NEW A, NEW S, NEW R, NEW E, NEW N, Aligned(H, S, R, E, N), Served(H, A, S, R, E, N),
         NEW r \in Ranks, Execute(r)
  PROVE  InputAt(H, A, E[r] + 1, Computed(r))
  <1>1. /\ r \in 0..(Last - 1) /\ E[r] + 1 <= S /\ Head(work[r]) = H[E[r] + 1]
        /\ r > 0 => E[r] + 1 <= E[r - 1] /\ Head(hidden[r]) = hidden[r][1]
    <2>1. /\ Aligned(H, S, R, [E EXCEPT ![r] = E[r] + 1], N)'
          /\ r \in 0..(Last - 1) /\ E[r] + 1 <= S /\ Head(work[r]) = H[E[r] + 1]
          /\ r > 0 => E[r] + 1 <= E[r - 1] /\ Head(hidden[r]) = hidden[r][1]
      BY ExecuteAligned
    <2>q. QED BY <2>1
  <1>2. PICK k : k = E[r] + 1
    OBVIOUS
  <1>3. k \in 1..S /\ E[r] \in Nat
    <2>1. E[r] \in Nat /\ S \in Nat
      BY DEF Aligned, Counters
    <2>q. QED BY <1>1, <1>2, <2>1
  <1>4. ASSUME r > 0 PROVE InputAt(H, A, k, Head(hidden[r]))
    <2>1. r \in 1..Last /\ r # 0 /\ r - 1 \in Ranks
      BY <1>1, <1>4, RankFacts DEF Ranks, Last
    <2>2. Len(hidden[r]) = E[r - 1] - E[r] /\ E[r - 1] \in Nat
      BY <2>1 DEF Aligned, HiddenIs, Counters
    <2>3. 1 \in 1..Len(hidden[r])
      BY <1>1, <1>3, <1>4, <2>2
    <2>4. InputAt(H, A, E[r] + 1, hidden[r][1])
      BY <2>1, <2>3 DEF Served, InputsMatch
    <2>q. QED BY <1>1, <1>2, <1>4, <2>4
  <1>5. ASSUME NEW q \in Reqs
        PROVE  Computed(r)[q] = IF Has(H, k, q) THEN InputOf(q, H[k][q], Base(H, A, k, q)) ELSE NoInput
    <2>1. PICK w, s, base : w = H[k][q] /\ s = Corrected(r)[q] /\ base = Base(H, A, k, q)
      OBVIOUS
    <2>2. Computed(r)[q] = IF w.n = 0 THEN NoInput
                           ELSE IF r = 0 THEN InputOf(q, w, s) ELSE Staged(Head(hidden[r])[q], w, s)
      BY <1>1, <1>2, <2>1 DEF Computed
    <2>3. w \in BatchEntry
      BY <1>3, <2>1 DEF Served, AllPlanned, Planned
    <2>4. CASE ~Has(H, k, q)
      BY <2>1, <2>2, <2>3, <2>4 DEF Has, BatchEntry
    <2>5. CASE Has(H, k, q)
      <3>1. w.n > 0 /\ w.n # 0
        BY <2>1, <2>3, <2>5 DEF Has, BatchEntry
      <3>2. PlannedOn(w, base) /\ base.gen = w.gen
        BY <1>3, <2>1, <2>5, BaseIs
      <3>3. /\ s.gen = w.gen /\ s.comp = base.comp
            /\ s.comp >= PromptLen => s.last = base.last /\ s.draft = base.draft
        BY <1>2, <2>1, <2>5, CorrectedIs
      <3>4. InputOf(q, w, s) = InputOf(q, w, base)
        BY <2>3, <3>1, <3>2, <3>3, InputSame
      <3>5. ASSUME r # 0 PROVE Staged(Head(hidden[r])[q], w, s) = InputOf(q, w, base)
        <4>1. r > 0
          BY <1>1, <3>5
        <4>2. Head(hidden[r])[q] = InputOf(q, w, base)
          BY <1>4, <2>1, <2>5, <4>1 DEF InputAt
        <4>3. InputOf(q, w, base).pos = s.comp
          BY <3>3 DEF InputOf
        <4>q. QED BY <4>2, <4>3 DEF Staged
      <3>q. QED BY <2>1, <2>2, <2>5, <3>1, <3>4, <3>5
    <2>q. QED BY <2>4, <2>5
  <1>q. QED BY <1>2, <1>5 DEF InputAt

LEMMA AdvancedServed ==
  ASSUME NEW H, NEW A, NEW S, NEW R, NEW E, NEW N, Aligned(H, S, R, E, N), Served(H, A, S, R, E, N),
         NEW r \in Ranks, Execute(r), NEW q \in Reqs
  PROVE  RowAt(H, A, E[r] + 1, Advanced(Corrected(r), Head(work[r]))[q], q)
  <1>1. E[r] + 1 <= S /\ Head(work[r]) = H[E[r] + 1]
    <2>1. /\ Aligned(H, S, R, [E EXCEPT ![r] = E[r] + 1], N)'
          /\ r \in 0..(Last - 1) /\ E[r] + 1 <= S /\ Head(work[r]) = H[E[r] + 1]
          /\ r > 0 => E[r] + 1 <= E[r - 1] /\ Head(hidden[r]) = hidden[r][1]
      BY ExecuteAligned
    <2>q. QED BY <2>1
  <1>2. PICK k : k = E[r] + 1
    OBVIOUS
  <1>3. k \in 1..S /\ k \in Nat /\ k - 1 \in Nat /\ (k - 1) + 1 = k /\ PP \in Nat /\ PP > 0 /\ k + PP > k
    <2>1. E[r] \in Nat /\ S \in Nat /\ PP \in Nat /\ PP > 0
      BY PPSchedulerAssumption DEF Aligned, Counters
    <2>q. QED BY <1>1, <1>2, <2>1
  <1>4. PICK w, s, t, base : /\ w = H[k][q] /\ s = Corrected(r)[q] /\ base = Base(H, A, k, q)
                             /\ t = Advanced(Corrected(r), Head(work[r]))[q]
    OBVIOUS
  <1>5. /\ s \in RowState /\ Owned(q, s)
        /\ ~Has(H, k, q) => RowAt(H, A, k, s, q)
        /\ Has(H, k, q) => s.gen = w.gen /\ s.comp = base.comp
    BY <1>2, <1>4, CorrectedIs
  <1>6. t = IF w.n > 0 THEN [s EXCEPT !.comp = s.comp + w.n] ELSE s
    BY <1>1, <1>2, <1>4 DEF Advanced
  <1>7. CASE ~Has(H, k, q)
    BY <1>2, <1>4, <1>5, <1>6, <1>7 DEF Has
  <1>8. CASE Has(H, k, q)
    <2>1. w \in BatchEntry /\ w.n > 0 /\ PlannedOn(w, base)
      BY <1>3, <1>4, <1>8, BaseIs
    <2>2. PICK g, c, l, d : g = s.gen /\ c = s.comp /\ l = s.last /\ d = s.draft
      OBVIOUS
    <2>3. s = [gen |-> g, comp |-> c, last |-> l, draft |-> d]
      BY <1>5, <2>2 DEF RowState
    <2>4. t = [s EXCEPT !.comp = c + w.n]
      BY <1>6, <2>1, <2>2
    <2>5. t = [gen |-> g, comp |-> c + w.n, last |-> l, draft |-> d]
      BY <2>3, <2>4
    <2>6. c = w.pos /\ c + w.n \in 0..(MaxLen + K)
      <3>1. /\ w.n \in Nat /\ w.d \in Nat /\ w.pos \in Nat /\ w.d <= K /\ w.pos + 1 < MaxLen
            /\ c = w.pos /\ (w.n = w.d + 1 \/ w.pos + w.n <= PromptLen)
        BY <1>5, <1>8, <2>1, <2>2 DEF PlannedOn, BatchEntry
      <3>q. QED BY <3>1, PPSchedulerAssumption
    <2>7. t \in RowState /\ t.gen = w.gen /\ t.comp = w.pos + w.n
      BY <1>5, <1>8, <2>2, <2>5, <2>6 DEF RowState
    <2>8. Owned(q, t)
      BY <1>5, <2>2, <2>5 DEF Owned
    <2>9. Prev(H, k, q) = k
      BY <1>3, <1>8, PrevNext
    <2>10. k # 0
      BY <1>3
    <2>11. RowAt(H, A, k, t, q)
      BY <1>3, <1>4, <2>7, <2>8, <2>9, <2>10 DEF RowAt
    <2>q. QED BY <1>2, <1>4, <2>11
  <1>q. QED BY <1>7, <1>8

LEMMA ExecuteServed ==
  ASSUME NEW H, NEW A, NEW S, NEW R, NEW E, NEW N, Aligned(H, S, R, E, N), Served(H, A, S, R, E, N),
         NEW r \in Ranks, Execute(r)
  PROVE  Served(H, A, S, R, [E EXCEPT ![r] = E[r] + 1], N)'
  <1> DEFINE E1 == [E EXCEPT ![r] = E[r] + 1]
  <1>1. /\ IInv /\ OutputIs /\ Edges(E)
        /\ AllPlanned(H, A, S) /\ AllRan(H, A, E[Last])
        /\ LastRows(H, A, E) /\ LowerRows(H, A, E)
        /\ SlotsMatch(H, E) /\ PayloadsMatch(H, A, E, N) /\ InputsMatch(H, A, E)
        /\ ResultsMatch(H, A, R, E) /\ Booking(H, A, S, R)
    BY DEF Served
  <1>2. r \in 0..(Last - 1) /\ E[r] + 1 <= S /\ Head(work[r]) = H[E[r] + 1]
    <2>1. /\ Aligned(H, S, R, [E EXCEPT ![r] = E[r] + 1], N)'
          /\ r \in 0..(Last - 1) /\ E[r] + 1 <= S /\ Head(work[r]) = H[E[r] + 1]
          /\ r > 0 => E[r] + 1 <= E[r - 1] /\ Head(hidden[r]) = hidden[r][1]
      BY ExecuteAligned
    <2>q. QED BY <2>1
  <1>3. /\ work[r] # <<>> /\ (r > 0 => hidden[r] # <<>>) /\ (SlotDue(r) => relay[r] # <<>>)
        /\ hidden' = [x \in Ranks |-> IF x = r + 1 THEN Append(hidden[x], Computed(r))
                                       ELSE IF x = r /\ r > 0 THEN Tail(hidden[x]) ELSE hidden[x]]
        /\ state' = [state EXCEPT ![r] = Advanced(Corrected(r), Head(work[r]))]
        /\ ring' = [ring EXCEPT ![r] = Append(IF RingFull(r) THEN Tail(ring[r]) ELSE ring[r],
                                               Receive(Head(work[r]), Corrected(r)))]
        /\ relay' = IF SlotDue(r) THEN [relay EXCEPT ![r] = Tail(relay[r])] ELSE relay
        /\ UNCHANGED <<schedVars, out, cached, results, drafted, buffer, sending>>
    BY ExecuteIs
  <1>4. /\ E \in [Ranks -> Nat] /\ E[r] \in Nat /\ E1 \in [Ranks -> Nat] /\ E1[r] = E[r] + 1
        /\ r # Last /\ Last \in Ranks /\ E1[Last] = E[Last] /\ \A x \in Ranks : x # r => E1[x] = E[x]
        /\ S \in Nat /\ N \in Nat /\ r + 1 \in Ranks /\ r \in Nat
    <2>1. E \in [Ranks -> Nat] /\ S \in Nat /\ N \in Nat
      BY DEF Aligned, Counters
    <2>q. QED BY <1>2, <2>1, RankFacts
  <1>5. E1[Last] = E[Last] /\ state'[Last] = state[Last] /\ ring'[Last] = ring[Last] /\ DOMAIN state' = Ranks
    BY <1>1, <1>3, <1>4 DEF LastRows
  <1> HIDE DEF E1
  <1>6. IInv' /\ OutputIs' /\ Booking(H, A, S, R)'
    <2>1. UNCHANGED <<status, gen, ntok, ncomp, inflight, spec, wait, queue, out>>
      BY <1>3 DEF schedVars
    <2>2. IInv'
      BY <1>1, <2>1 DEF IInv, SchedTypeOK, EntryInv, Spacing, OneLive, Booked, AtRest,
                        NoLiveStep, RestShape, StepShape, IsLive
    <2>3. OutputIs' /\ Booking(H, A, S, R)'
      BY <1>1, <2>1 DEF OutputIs, Booking
    <2>q. QED BY <2>2, <2>3
  <1>7. Edges(E1)'
    BY <1>1, <1>3, <1>5 DEF Edges
  <1>8. AllRan(H, A, E1[Last]) /\ ResultsMatch(H, A, R, E1)'
    BY <1>1, <1>3, <1>5 DEF ResultsMatch
  <1>9. LastRows(H, A, E1)'
    BY <1>1, <1>3, <1>5 DEF LastRows, LastRowAt
  <1>10. LowerRows(H, A, E1)'
    <2>1. ASSUME NEW x \in 0..(Last - 1)
          PROVE  DOMAIN state'[x] = Reqs /\ \A q \in Reqs : RowAt(H, A, E1[x], state'[x][q], q)
      <3>0. x \in Ranks
        BY RankFacts
      <3>1. CASE x = r
        <4>1. state'[x] = Advanced(Corrected(r), Head(work[r])) /\ E1[x] = E[r] + 1
          BY <1>1, <1>3, <1>4, <3>1 DEF LastRows
        <4>2. \A q \in Reqs : RowAt(H, A, E[r] + 1, Advanced(Corrected(r), Head(work[r]))[q], q)
          BY AdvancedServed
        <4>3. DOMAIN Advanced(Corrected(r), Head(work[r])) = Reqs
          BY DEF Advanced
        <4>q. QED BY <4>1, <4>2, <4>3
      <3>2. CASE x # r
        <4>1. state'[x] = state[x] /\ E1[x] = E[x]
          BY <1>1, <1>3, <1>4, <3>0, <3>2 DEF LastRows
        <4>q. QED BY <1>1, <4>1 DEF LowerRows
      <3>q. QED BY <3>1, <3>2
    <2>q. QED BY <2>1 DEF LowerRows
  <1>11. PICK o : o = Oldest(E, r)
    OBVIOUS
  <1>12. /\ o \in Nat /\ o <= E[r]
         /\ Oldest(E1, r) = IF E[r] >= PP THEN o + 1 ELSE o
         /\ E[r] >= PP => o = E[r] - PP
         /\ E[r] < PP => o = 0
         /\ PP \in Nat
    <2>1. r \in Ranks /\ PP \in Nat
      BY PPSchedulerAssumption
    <2>2. /\ Oldest(E1, r) \in Nat
          /\ E1[r] >= PP => Oldest(E1, r) = E1[r] - PP
          /\ E1[r] < PP => Oldest(E1, r) = 0
      BY <1>4, <2>1, OldestIs
    <2>3. /\ o \in Nat /\ o <= E[r] /\ (E[r] >= PP => o = E[r] - PP) /\ (E[r] < PP => o = 0)
      BY <1>4, <1>11, OldestIs
    <2>q. QED BY <1>4, <2>1, <2>2, <2>3
  <1>13. \A x \in Ranks : x # r => Oldest(E1, x) = Oldest(E, x)
    BY <1>4 DEF Oldest
  <1>14. SlotsMatch(H, E1)'
    <2>1. PICK t : t = IF RingFull(r) THEN Tail(ring[r]) ELSE ring[r]
      OBVIOUS
    <2>2. /\ IsSeq(t) /\ Len(t) \in Nat /\ Len(t) = E[r] - Oldest(E1, r)
          /\ \A i \in 1..Len(t) : \A q \in NeedSampled(H[Oldest(E1, r) + i], K) : t[i].gen[q] = H[Oldest(E1, r) + i][q].gen
      <3>1. /\ IsSeq(ring[r]) /\ Len(ring[r]) = E[r] - o
            /\ \A i \in 1..Len(ring[r]) : \A q \in NeedSampled(H[o + i], K) : ring[r][i].gen[q] = H[o + i][q].gen
        BY <1>1, <1>2, <1>11 DEF Aligned, RingIs, SlotsMatch
      <3>2. (RingFull(r) <=> E[r] >= PP) /\ (E[r] >= PP => ring[r] # <<>>)
        BY <1>2, SlotIs
      <3>3. CASE E[r] >= PP
        <4>1. /\ t = Tail(ring[r]) /\ IsSeq(t) /\ Len(t) = (E[r] - o) - 1 /\ E[r] - o \in Nat
              /\ \A i \in 1..((E[r] - o) - 1) : t[i] = ring[r][i + 1]
          BY <2>1, <3>1, <3>2, <3>3, TailIs
        <4>2. ASSUME NEW i \in 1..Len(t)
              PROVE  \A q \in NeedSampled(H[Oldest(E1, r) + i], K) : t[i].gen[q] = H[Oldest(E1, r) + i][q].gen
          <5>1. /\ i + 1 \in 1..Len(ring[r]) /\ o + (i + 1) = Oldest(E1, r) + i
                /\ i \in 1..((E[r] - o) - 1)
            <6>1. Oldest(E1, r) = o + 1 /\ o \in Nat /\ E[r] \in Nat
              BY <1>4, <1>12, <3>3
            <6>2. PICK n : n = E[r] - o
              OBVIOUS
            <6>3. n \in Nat /\ i \in 1..(n - 1) /\ Len(ring[r]) = n
              BY <3>1, <4>1, <6>2
            <6>4. i + 1 \in 1..n /\ o + (i + 1) = Oldest(E1, r) + i
              BY <6>1, <6>3
            <6>q. QED BY <6>2, <6>3, <6>4
          <5>2. t[i] = ring[r][i + 1]
            BY <4>1, <5>1
          <5>q. QED BY <3>1, <5>1, <5>2
        <4>3. (E[r] - o) - 1 = E[r] - Oldest(E1, r)
          BY <1>4, <1>12, <3>3
        <4>q. QED BY <4>1, <4>2, <4>3, LenIs
      <3>4. CASE E[r] < PP
        <4>1. ~(E[r] >= PP)
          BY <1>4, <1>12, <3>4
        <4>q. QED BY <1>12, <2>1, <3>1, <3>2, <4>1, LenIs
      <3>5. E[r] >= PP \/ E[r] < PP
        BY <1>4, PPSchedulerAssumption
      <3>q. QED BY <3>3, <3>4, <3>5
    <2>3. /\ ring'[r] = Append(t, Receive(H[E[r] + 1], Corrected(r)))
          /\ \A x \in Ranks : x # r => ring'[x] = ring[x]
      <3>1. DOMAIN ring = Ranks
        BY DEF Aligned, RingIs
      <3>q. QED BY <1>2, <1>3, <2>1, <3>1
    <2>4. \A q \in NeedSampled(H[E[r] + 1], K) :
            Receive(H[E[r] + 1], Corrected(r)).gen[q] = H[E[r] + 1][q].gen
      <3>1. ASSUME NEW q \in NeedSampled(H[E[r] + 1], K)
            PROVE  Receive(H[E[r] + 1], Corrected(r)).gen[q] = H[E[r] + 1][q].gen
        <4>1. q \in Reqs /\ Has(H, E[r] + 1, q)
          BY DEF NeedSampled, InBatch, Has
        <4>2. Corrected(r)[q].gen = H[E[r] + 1][q].gen
          BY <4>1, CorrectedIs
        <4>3. Receive(H[E[r] + 1], Corrected(r)).gen = [p \in Reqs |-> Corrected(r)[p].gen]
          BY DEF Receive
        <4>q. QED BY <4>1, <4>2, <4>3
      <3>q. QED BY <3>1
    <2>5. ASSUME NEW i \in 1..Len(ring'[r])
          PROVE  \A q \in NeedSampled(H[Oldest(E1, r) + i], K) : ring'[r][i].gen[q] = H[Oldest(E1, r) + i][q].gen
      <3>1. /\ Len(ring'[r]) = Len(t) + 1
            /\ \A x \in 1..Len(t) : ring'[r][x] = t[x]
            /\ ring'[r][Len(t) + 1] = Receive(H[E[r] + 1], Corrected(r))
        BY <2>2, <2>3, AppendIs
      <3>2. Oldest(E1, r) + (Len(t) + 1) = E[r] + 1
        BY <1>4, <1>12, <2>2
      <3>3. CASE i = Len(t) + 1
        BY <2>4, <3>1, <3>2, <3>3
      <3>4. CASE i # Len(t) + 1
        <4>1. i \in 1..Len(t)
          BY <2>2, <3>1, <3>4
        <4>q. QED BY <2>2, <3>1, <4>1
      <3>q. QED BY <3>3, <3>4
    <2>6. ASSUME NEW x \in 0..(Last - 1), x # r
          PROVE  \A i \in 1..Len(ring'[x]) : \A q \in NeedSampled(H[Oldest(E1, x) + i], K) :
                    ring'[x][i].gen[q] = H[Oldest(E1, x) + i][q].gen
      <3>1. ring'[x] = ring[x] /\ Oldest(E1, x) = Oldest(E, x)
        BY <1>13, <2>3, <2>6, RankFacts
      <3>q. QED BY <1>1, <3>1 DEF SlotsMatch
    <2>q. QED BY <2>5, <2>6 DEF SlotsMatch
  <1>15. PayloadsMatch(H, A, E1, N)'
    <2>1. ASSUME NEW k \in Needed(H, E1[Last]), Count(H, k) > N
          PROVE  PayloadOf(H, A, k, sending'[Count(H, k) - N])
      BY <1>1, <1>3, <1>5, <2>1 DEF PayloadsMatch
    <2>2. ASSUME NEW k \in Needed(H, E1[Last]), NEW x \in 0..(Last - 1),
                 Count(H, k) <= N, Count(H, k) > Count(H, Oldest(E1, x))
          PROVE  PayloadOf(H, A, k, relay'[x][Count(H, k) - Count(H, Oldest(E1, x))])
      <3>0. k \in Needed(H, E[Last]) /\ k \in Nat /\ Count(H, k) \in Nat
        <4>1. k \in Needed(H, E[Last])
          BY <1>5
        <4>2. k \in Nat
          BY <4>1 DEF Needed
        <4>q. QED BY <4>1, <4>2, NeededFinite
      <3>1. CASE x # r
        <4>1. relay'[x] = relay[x] /\ Oldest(E1, x) = Oldest(E, x)
          <5>1. DOMAIN relay = Ranks
            BY DEF Aligned, RelayIs
          <5>q. QED BY <1>3, <1>13, <3>1, <5>1, RankFacts
        <4>q. QED BY <1>1, <2>2, <3>0, <4>1 DEF PayloadsMatch
      <3>2. CASE x = r /\ SlotDue(r)
        <4>1. E[r] >= PP /\ NeedSampled(H[o + 1], K) # {}
          BY <1>2, <1>12, <3>2, SlotIs
        <4>2. Count(H, Oldest(E1, r)) = Count(H, o) + 1 /\ Count(H, o) \in Nat
          BY <1>12, <4>1, CountNext, NeededFinite
        <4>3. IsSeq(relay[r]) /\ Len(relay[r]) = N - Count(H, o) /\ relay'[r] = Tail(relay[r])
          BY <1>2, <1>3, <1>11, <3>2 DEF Aligned, RelayIs
        <4>4. \A i \in 1..((N - Count(H, o)) - 1) : relay'[r][i] = relay[r][i + 1]
          BY <1>3, <3>2, <4>3, TailIs
        <4>5. PICK c, co : c = Count(H, k) /\ co = Count(H, o)
          OBVIOUS
        <4>6. /\ c - (co + 1) \in 1..((N - co) - 1) /\ (c - (co + 1)) + 1 = c - co /\ c > co
          BY <1>4, <2>2, <3>0, <3>2, <4>2, <4>5
        <4>7. relay'[r][c - (co + 1)] = relay[r][c - co]
          BY <4>4, <4>5, <4>6
        <4>8. PayloadOf(H, A, k, relay[r][c - co])
          BY <1>1, <1>2, <1>11, <2>2, <3>0, <4>5, <4>6 DEF PayloadsMatch
        <4>q. QED BY <3>2, <4>2, <4>5, <4>7, <4>8
      <3>3. CASE x = r /\ ~SlotDue(r)
        <4>1. Count(H, Oldest(E1, r)) = Count(H, o)
          <5>1. CASE E[r] >= PP
            <6>1. NeedSampled(H[o + 1], K) = {}
              <7>1. SlotDue(r) <=> E[r] >= PP /\ NeedSampled(H[(E[r] - PP) + 1], K) # {}
                BY <1>2, SlotIs
              <7>2. o = E[r] - PP
                BY <1>12, <5>1
              <7>q. QED BY <3>3, <5>1, <7>1, <7>2
            <6>q. QED BY <1>12, <5>1, <6>1, CountNext
          <5>2. CASE ~(E[r] >= PP)
            BY <1>12, <5>2
          <5>q. QED BY <5>1, <5>2
        <4>2. relay' = relay
          BY <1>3, <3>3
        <4>q. QED BY <1>1, <1>2, <1>11, <2>2, <3>0, <3>3, <4>1, <4>2 DEF PayloadsMatch
      <3>q. QED BY <3>1, <3>2, <3>3
    <2>q. QED BY <2>1, <2>2 DEF PayloadsMatch
  <1>16. InputsMatch(H, A, E1)'
    <2>1. ASSUME NEW x \in 1..Last, NEW i \in 1..Len(hidden'[x])
          PROVE  InputAt(H, A, E1[x] + i, hidden'[x][i])
      <3>0. x \in Ranks /\ x # 0 /\ x - 1 \in Ranks /\ E[x] \in Nat /\ E[x - 1] \in Nat
        <4>1. x \in Ranks /\ x # 0 /\ x - 1 \in Ranks
          BY RankFacts DEF Ranks, Last
        <4>q. QED BY <1>4, <4>1
      <3>1. IsSeq(hidden[x]) /\ Len(hidden[x]) = E[x - 1] - E[x]
        BY <3>0 DEF Aligned, HiddenIs
      <3>2. CASE x = r + 1
        <4>1. hidden'[x] = Append(hidden[x], Computed(r)) /\ x # r /\ x - 1 = r /\ E1[x] = E[x]
          BY <1>3, <1>4, <3>0, <3>2
        <4>2. /\ Len(hidden'[x]) = Len(hidden[x]) + 1 /\ Len(hidden[x]) \in Nat
              /\ \A y \in 1..Len(hidden[x]) : hidden'[x][y] = hidden[x][y]
              /\ hidden'[x][Len(hidden[x]) + 1] = Computed(r)
          BY <3>1, <4>1, AppendIs
        <4>3. CASE i = Len(hidden[x]) + 1
          <5>1. E1[x] + i = E[r] + 1
            BY <1>4, <3>0, <3>1, <4>1, <4>2, <4>3, SMTT(30)
          <5>2. InputAt(H, A, E[r] + 1, Computed(r))
            BY ComputedIs
          <5>q. QED BY <4>2, <4>3, <5>1, <5>2
        <4>4. CASE i # Len(hidden[x]) + 1
          <5>1. i \in 1..Len(hidden[x])
            BY <4>2, <4>4
          <5>q. QED BY <1>1, <4>1, <4>2, <5>1 DEF InputsMatch
        <4>q. QED BY <4>3, <4>4
      <3>3. CASE x = r
        <4>1. r > 0 /\ x # r + 1 /\ hidden'[x] = Tail(hidden[x]) /\ hidden[x] # <<>> /\ E1[x] = E[x] + 1
          BY <1>3, <1>4, <3>0, <3>3
        <4>2. /\ Len(hidden'[x]) = Len(hidden[x]) - 1 /\ Len(hidden[x]) \in Nat
              /\ \A y \in 1..(Len(hidden[x]) - 1) : hidden'[x][y] = hidden[x][y + 1]
          BY <3>1, <4>1, TailIs
        <4>3. i \in 1..(Len(hidden[x]) - 1) /\ i + 1 \in 1..Len(hidden[x]) /\ E1[x] + i = E[x] + (i + 1)
          BY <3>0, <4>1, <4>2
        <4>4. InputAt(H, A, E[x] + (i + 1), hidden[x][i + 1])
          BY <1>1, <4>3 DEF InputsMatch
        <4>q. QED BY <4>2, <4>3, <4>4
      <3>4. CASE x # r /\ x # r + 1
        <4>1. hidden'[x] = hidden[x] /\ E1[x] = E[x]
          BY <1>3, <1>4, <3>0, <3>4
        <4>q. QED BY <1>1, <4>1 DEF InputsMatch
      <3>q. QED BY <3>2, <3>3, <3>4
    <2>q. QED BY <2>1 DEF InputsMatch
  <1>q. QED
    BY <1>1, <1>6, <1>7, <1>8, <1>9, <1>10, <1>14, <1>15, <1>16 DEF Served, E1

----------------------------------------------------------------------------
(* The last rank                                                             *)

LEMMA RowInIs ==
  ASSUME NEW b
  PROVE  \E n \in 0..Cardinality(Reqs) : DOMAIN RowIn(b) = 1..n
  <1>1. PICK T : T = InBatch(b)
    OBVIOUS
  <1>2. T \in SUBSET Reqs
    BY <1>1 DEF InBatch
  <1>3. /\ IsFiniteSet(T) /\ Cardinality(T) \in Nat /\ Cardinality(Reqs) \in Nat
        /\ Cardinality(T) <= Cardinality(Reqs)
    BY <1>2, SpecDecodeAssumption, FS_Subset, FS_CardinalityType
  <1>4. PICK n \in Nat : ExistsBijection(1..n, T)
    BY <1>3, FS_NatBijection
  <1>5. Cardinality(T) = n
    BY <1>4, FS_CountingElements
  <1>6. PICK f \in [1..n -> T] : \A i, j \in 1..n : i # j => f[i] # f[j]
    BY <1>4 DEF ExistsBijection, Bijection, Injection, IsInjective
  <1>7. \E g \in [1..Cardinality(T) -> T] : Seqs!IsInjective(g)
    <2>1. Seqs!IsInjective(f)
      BY <1>6 DEF Seqs!IsInjective
    <2>q. QED BY <1>5, <2>1
  <1>8. Seqs!Cardinality(T) = Cardinality(T)
    BY Zenon DEF Seqs!Cardinality, Cardinality
  <1>9. RowIn(b) \in [1..Cardinality(T) -> T]
    BY <1>1, <1>7, <1>8 DEF RowIn, Seqs!SetToSeq
  <1>q. QED BY <1>3, <1>9

\* The row the last rank starts from and the input it is handed.
LEMMA LastBaseIs ==
  ASSUME NEW H, NEW A, NEW S, NEW R, NEW E, NEW N, Aligned(H, S, R, E, N), Served(H, A, S, R, E, N),
         work[Last] # <<>>, hidden[Last] # <<>>
  PROVE  LET k == E[Last] + 1
         IN  /\ k \in 1..S /\ Head(work[Last]) = H[k]
             /\ \A q \in Reqs : Has(H, k, q) =>
                  /\ H[k][q] \in BatchEntry /\ H[k][q].n > 0
                  /\ PlannedOn(H[k][q], Base(H, A, k, q))
                  /\ RowOK(q, Base(H, A, k, q)) /\ Base(H, A, k, q).gen = H[k][q].gen
                  /\ Added(state[Last], H[k])[q] = Base(H, A, k, q)
                  /\ Head(hidden[Last])[q] = InputOf(q, H[k][q], Base(H, A, k, q))
                  /\ Base(H, A, k, q).comp <= (IF H[k][q].gen = state[Last][q].gen THEN cached[q] ELSE 0)
             /\ \A q \in Reqs : ~Has(H, k, q) => Added(state[Last], H[k])[q] = state[Last][q]
  <1>1. PICK k : k = E[Last] + 1
    OBVIOUS
  <1>2. /\ S \in Nat /\ E \in [Ranks -> Nat] /\ E[Last] \in Nat /\ Last \in Ranks
        /\ \A r \in Ranks : E[r] <= S
    BY RankFacts DEF Aligned, Counters
  <1>3. k \in 1..S /\ k - 1 = E[Last] /\ Head(work[Last]) = H[k]
    <2>1. /\ IsSeq(work[Last]) /\ Len(work[Last]) = S - E[Last]
          /\ \A i \in 1..(S - E[Last]) : work[Last][i] = H[E[Last] + i]
      BY <1>2 DEF Aligned, WorkIs
    <2>2. Len(work[Last]) > 0 /\ Head(work[Last]) = work[Last][1]
      BY <2>1, TailIs
    <2>3. 1 \in 1..(S - E[Last]) /\ k \in 1..S /\ k - 1 = E[Last]
      BY <1>1, <1>2, <2>1, <2>2
    <2>q. QED BY <1>1, <2>1, <2>2, <2>3
  <1>4. InputAt(H, A, k, Head(hidden[Last]))
    <2>1. IsSeq(hidden[Last]) /\ Len(hidden[Last]) = IF Last = 0 THEN 0 ELSE E[Last - 1] - E[Last]
      BY <1>2 DEF Aligned, HiddenIs
    <2>2. Len(hidden[Last]) > 0 /\ Len(hidden[Last]) \in Nat /\ Head(hidden[Last]) = hidden[Last][1]
      BY <2>1, TailIs
    <2>3. Last \in 1..Last /\ 1 \in 1..Len(hidden[Last])
      BY <2>1, <2>2, RankFacts
    <2>q. QED BY <1>1, <2>2, <2>3 DEF Served, InputsMatch
  <1>5. ASSUME NEW q \in Reqs
        PROVE  /\ Has(H, k, q) =>
                    /\ H[k][q] \in BatchEntry /\ H[k][q].n > 0
                    /\ PlannedOn(H[k][q], Base(H, A, k, q))
                    /\ RowOK(q, Base(H, A, k, q)) /\ Base(H, A, k, q).gen = H[k][q].gen
                    /\ Added(state[Last], H[k])[q] = Base(H, A, k, q)
                    /\ Head(hidden[Last])[q] = InputOf(q, H[k][q], Base(H, A, k, q))
                    /\ Base(H, A, k, q).comp <= (IF H[k][q].gen = state[Last][q].gen THEN cached[q] ELSE 0)
               /\ ~Has(H, k, q) => Added(state[Last], H[k])[q] = state[Last][q]
    <2>1. PICK w, base, old, st, j : /\ w = H[k][q] /\ base = Base(H, A, k, q) /\ old = state[Last][q]
                                     /\ st = Added(state[Last], H[k])[q] /\ j = Prev(H, E[Last], q)
      OBVIOUS
    <2>2. st = IF Has(H, k, q) /\ w.gen # old.gen THEN Fresh(w.gen) ELSE old
      BY <2>1 DEF Added, Has, Fresh
    <2>3. /\ j \in Nat /\ j <= E[Last] /\ (j > 0 => Has(H, j, q))
          /\ old = IF j = 0 THEN FreshState ELSE A[j][q]
          /\ cached[q] >= old.comp /\ cached \in [Reqs -> 0..(MaxLen + K)]
      <3>1. j \in Nat /\ j <= E[Last] /\ (j > 0 => Has(H, j, q))
        BY <1>2, <2>1, PrevUse
      <3>2. /\ LastRowAt(H, A, E[Last], old, q) /\ cached[q] >= old.comp /\ cached \in [Reqs -> 0..(MaxLen + K)]
        BY <2>1 DEF Served, LastRows
      <3>3. old = IF j = 0 THEN FreshState ELSE A[j][q]
        BY <2>1, <3>2 DEF LastRowAt
      <3>q. QED BY <3>1, <3>2, <3>3
    <2>4. CASE ~Has(H, k, q)
      BY <2>1, <2>2, <2>4
    <2>5. CASE Has(H, k, q)
      <3>1. /\ w \in BatchEntry /\ w.n > 0 /\ PlannedOn(w, base) /\ RowOK(q, base) /\ base.gen = w.gen
        BY <1>3, <2>1, <2>5, BaseIs
      <3>2. base = IF j > 0 /\ H[j][q].gen = w.gen THEN A[j][q] ELSE Fresh(w.gen)
        BY <1>3, <2>1 DEF Base
      <3>3. j > 0 => old.gen = H[j][q].gen
        <4>1. ASSUME j > 0 PROVE old.gen = H[j][q].gen
          <5>1. Ran(H, A, j, q)
            BY <1>2, <2>3, <4>1 DEF Served, AllRan
          <5>q. QED BY <2>3, <4>1, <5>1 DEF Ran
        <4>q. QED BY <4>1
      <3>4. w.gen \in 1..MaxGen
        BY <3>1 DEF PlannedOn
      <3>5. st = base /\ base.comp <= (IF w.gen = old.gen THEN cached[q] ELSE 0)
        <4>1. CASE w.gen = old.gen
          <5>1. j > 0
            BY <2>3, <3>4, <4>1, PPSchedulerAssumption DEF FreshState
          <5>2. base = old /\ st = old
            BY <2>2, <2>3, <3>2, <3>3, <4>1, <5>1
          <5>3. cached[q] \in Nat /\ old.comp \in Nat
            BY <2>3, <3>1, <5>2, PPSchedulerAssumption DEF RowOK, RowState
          <5>q. QED BY <2>3, <4>1, <5>2, <5>3
        <4>2. CASE w.gen # old.gen
          <5>1. st = Fresh(w.gen) /\ base = Fresh(w.gen)
            BY <2>2, <2>3, <2>5, <3>2, <3>3, <4>2
          <5>2. base.comp = 0
            BY <5>1 DEF Fresh
          <5>q. QED BY <4>2, <5>1, <5>2
        <4>q. QED BY <4>1, <4>2
      <3>6. Head(hidden[Last])[q] = InputOf(q, w, base)
        BY <1>4, <2>1, <2>5 DEF InputAt
      <3>q. QED BY <2>1, <2>5, <3>1, <3>5, <3>6
    <2>q. QED BY <2>4, <2>5
  <1>q. QED BY <1>1, <1>3, <1>5

\* What the last rank makes of the row.
LEMMA LastRowIs ==
  ASSUME NEW H, NEW A, NEW S, NEW R, NEW E, NEW N, Aligned(H, S, R, E, N), Served(H, A, S, R, E, N),
         NEW h, ExecuteLast(h), NEW q \in Reqs
  PROVE  LET w   == H[E[Last] + 1][q]
             row == SampledRows(h)[q]
             fst == w.pos + w.n - w.d
         IN  /\ Has(H, E[Last] + 1, q) =>
                  /\ w \in BatchEntry /\ w.d <= w.n
                  /\ RowOK(q, row.state) /\ row.state.gen = w.gen
                  /\ row.right \in 0..(MaxLen + K) /\ row.right >= row.state.comp
                  /\ ProducesSample(w) => /\ row.acc \in 0..w.d
                                          /\ row.state.comp = fst + row.acc
                                          /\ row.toks = [j \in 1..(row.acc + 1) |-> Token(q, w.gen, fst + j - 1)]
                  /\ ~ProducesSample(w) => row.acc = 0 /\ row.toks = <<>> /\ row.state.comp = w.pos + w.n
             /\ ~Has(H, E[Last] + 1, q) =>
                  row = [acc |-> 0, toks |-> <<>>, right |-> cached[q], state |-> state[Last][q]]
  <1>1. PICK k : k = E[Last] + 1
    OBVIOUS
  <1>2. work[Last] # <<>> /\ hidden[Last] # <<>>
    BY ExecuteLastIs
  <1>3. PICK w, base, st, row, m, fst : /\ w = H[k][q] /\ base = Base(H, A, k, q)
                                        /\ st = Added(state[Last], H[k])[q] /\ row = SampledRows(h)[q]
                                        /\ m = Head(hidden[Last])[q] /\ fst = w.pos + w.n - w.d
    OBVIOUS
  <1>4. /\ Head(work[Last]) = H[k]
        /\ Has(H, k, q) => /\ w \in BatchEntry /\ w.n > 0 /\ PlannedOn(w, base) /\ RowOK(q, base) /\ base.gen = w.gen
                           /\ st = base /\ m = InputOf(q, w, base)
                           /\ base.comp <= (IF w.gen = state[Last][q].gen THEN cached[q] ELSE 0)
        /\ ~Has(H, k, q) => st = state[Last][q]
    BY <1>1, <1>2, <1>3, LastBaseIs
  <1>5. row = IF w.n > 0 THEN SampleRow(q, w, st, m, h[q])
              ELSE [acc |-> 0, toks |-> <<>>, right |-> cached[q], state |-> st]
    BY <1>3, <1>4, SMTT(30) DEF SampledRows
  <1>6. CASE ~Has(H, k, q)
    <2>1. ~(w.n > 0)
      BY <1>3, <1>6 DEF Has
    <2>q. QED BY <1>1, <1>3, <1>4, <1>5, <1>6, <2>1
  <1>7. CASE Has(H, k, q)
    <2>1. PICK g : g = h[q]
      OBVIOUS
    <2>2. row = SampleRow(q, w, base, InputOf(q, w, base), g)
      BY <1>4, <1>5, <1>7, <2>1
    <2>3. /\ RowOK(q, row.state) /\ row.state.gen = w.gen
          /\ row.right \in 0..(MaxLen + K) /\ row.right >= row.state.comp
          /\ IF ProducesSample(w)
             THEN /\ row.acc \in 0..w.d
                  /\ row.state.comp = fst + row.acc
                  /\ row.toks = [i \in 1..(row.acc + 1) |-> Token(q, w.gen, fst + i - 1)]
             ELSE row.acc = 0 /\ row.toks = <<>> /\ row.state.comp = w.pos + w.n
      BY <1>3, <1>4, <1>7, <2>2, SampledIs
    <2>4. w.d <= w.n
      <3>1. w.n - w.d \in Nat
        BY <1>4, <1>7, InputIs
      <3>q. QED BY <1>4, <1>7, <3>1 DEF BatchEntry
    <2>q. QED BY <1>1, <1>3, <1>4, <1>7, <2>3, <2>4
  <1>q. QED BY <1>6, <1>7

\* Its row after the step, the broadcast it queues and the sample it reports.
LEMMA LastStepIs ==
  ASSUME NEW H, NEW A, NEW S, NEW R, NEW E, NEW N, Aligned(H, S, R, E, N), Served(H, A, S, R, E, N),
         NEW h, ExecuteLast(h), A[E[Last] + 1] = [q \in Reqs |-> SampledRows(h)[q].state]
  PROVE  LET k == E[Last] + 1
         IN  /\ \A q \in Reqs : Has(H, k, q) => Ran(H, A, k, q)
             /\ PayloadOf(H, A, k, Payload(H[k], SampledRows(h)))
             /\ ResultAt(H, A, k, [q \in Reqs |-> [acc |-> SampledRows(h)[q].acc, toks |-> SampledRows(h)[q].toks]])
  <1>1. E[Last] + 1 <= S
    <2>1. /\ Aligned(H, S, R, [E EXCEPT ![Last] = E[Last] + 1], N)'
          /\ Last > 0 /\ E[Last] + 1 <= S /\ Head(work[Last]) = H[E[Last] + 1]
          /\ E[Last] + 1 <= E[Last - 1] /\ Head(hidden[Last]) = hidden[Last][1]
      BY ExecuteLastAligned
    <2>q. QED BY <2>1
  <1>2. PICK k, rows : k = E[Last] + 1 /\ rows = SampledRows(h)
    OBVIOUS
  <1>3. k \in 1..S
    <2>1. E[Last] \in Nat /\ S \in Nat
      BY RankFacts DEF Aligned, Counters
    <2>q. QED BY <1>1, <1>2, <2>1
  <1>4. \A q \in Reqs : A[k][q] = rows[q].state
    BY <1>2
  <1>5. ASSUME NEW q \in Reqs
        PROVE  /\ Has(H, k, q) =>
                    /\ H[k][q] \in BatchEntry /\ H[k][q].d <= H[k][q].n
                    /\ RowOK(q, A[k][q]) /\ A[k][q].gen = H[k][q].gen
                    /\ ProducesSample(H[k][q]) =>
                         /\ rows[q].acc \in 0..H[k][q].d
                         /\ A[k][q].comp = (H[k][q].pos + H[k][q].n - H[k][q].d) + rows[q].acc
                         /\ rows[q].toks = [j \in 1..(rows[q].acc + 1) |->
                                              Token(q, H[k][q].gen, (H[k][q].pos + H[k][q].n - H[k][q].d) + j - 1)]
                    /\ ~ProducesSample(H[k][q]) =>
                         rows[q].acc = 0 /\ rows[q].toks = <<>> /\ A[k][q].comp = H[k][q].pos + H[k][q].n
               /\ ~Has(H, k, q) => rows[q].acc = 0 /\ rows[q].toks = <<>>
    <2>1. LET w   == H[k][q]
              row == rows[q]
              fst == w.pos + w.n - w.d
          IN  /\ Has(H, k, q) =>
                   /\ w \in BatchEntry /\ w.d <= w.n
                   /\ RowOK(q, row.state) /\ row.state.gen = w.gen
                   /\ ProducesSample(w) => /\ row.acc \in 0..w.d
                                           /\ row.state.comp = fst + row.acc
                                           /\ row.toks = [j \in 1..(row.acc + 1) |-> Token(q, w.gen, fst + j - 1)]
                   /\ ~ProducesSample(w) => row.acc = 0 /\ row.toks = <<>> /\ row.state.comp = w.pos + w.n
              /\ ~Has(H, k, q) => row = [acc |-> 0, toks |-> <<>>, right |-> cached[q], state |-> state[Last][q]]
      BY <1>2, LastRowIs
    <2>2. PICK w, row, s, fst : w = H[k][q] /\ row = rows[q] /\ s = row.state /\ fst = w.pos + w.n - w.d
      OBVIOUS
    <2>3. A[k][q] = s
      BY <1>4, <2>2
    <2>q. QED BY <2>1, <2>2, <2>3
  <1>6. ASSUME NEW q \in Reqs, Has(H, k, q) PROVE Ran(H, A, k, q)
    <2>1. PICK w, s : w = H[k][q] /\ s = A[k][q]
      OBVIOUS
    <2>2. /\ w \in BatchEntry /\ w.d <= w.n /\ RowOK(q, s) /\ s.gen = w.gen
          /\ ProducesSample(w) => rows[q].acc \in 0..w.d /\ s.comp = (w.pos + w.n - w.d) + rows[q].acc
          /\ ~ProducesSample(w) => s.comp = w.pos + w.n
      BY <1>5, <1>6, <2>1
    <2>3. ProducesSample(w) => s.comp \in (w.pos + w.n - w.d)..(w.pos + w.n)
      BY <2>2 DEF BatchEntry
    <2>q. QED BY <2>1, <2>2, <2>3 DEF Ran
  <1>7. PayloadOf(H, A, k, Payload(H[k], rows))
    <2>1. ASSUME NEW q \in NeedSampled(H[k], K)
          PROVE  Payload(H[k], rows).row[q] = [last     |-> A[k][q].last,
                                               rejected |-> (H[k][q].pos + H[k][q].n) - A[k][q].comp,
                                               draft    |-> A[k][q].draft]
      <3>1. q \in Reqs /\ H[k][q].n > 0 /\ ProducesSample(H[k][q]) /\ Has(H, k, q)
        BY DEF NeedSampled, InBatch, Has
      <3>2. PICK w, s, acc : w = H[k][q] /\ s = A[k][q] /\ acc = rows[q].acc
        OBVIOUS
      <3>3. Payload(H[k], rows).row[q] = [last |-> s.last, rejected |-> w.d - acc, draft |-> s.draft]
        BY <1>4, <3>1, <3>2 DEF Payload
      <3>4. w \in BatchEntry /\ acc \in 0..w.d /\ s.comp = (w.pos + w.n - w.d) + acc
        BY <1>5, <3>1, <3>2
      <3>5. w.d - acc = (w.pos + w.n) - s.comp
        BY <3>4 DEF BatchEntry
      <3>q. QED BY <3>2, <3>3, <3>5
    <2>q. QED BY <2>1 DEF PayloadOf
  <1>8. ResultAt(H, A, k, [q \in Reqs |-> [acc |-> rows[q].acc, toks |-> rows[q].toks]])
    <2> DEFINE res == [q \in Reqs |-> [acc |-> rows[q].acc, toks |-> rows[q].toks]]
    <2>1. ASSUME NEW q \in Reqs
          PROVE  IF H[k][q].n > 0 /\ ProducesSample(H[k][q])
                 THEN /\ res[q].acc = A[k][q].comp - (H[k][q].pos + H[k][q].n - H[k][q].d)
                      /\ res[q].toks = [j \in 1..(res[q].acc + 1) |->
                                          Token(q, H[k][q].gen, (H[k][q].pos + H[k][q].n - H[k][q].d) + j - 1)]
                 ELSE res[q].acc = 0 /\ res[q].toks = <<>>
      <3>1. res[q].acc = rows[q].acc /\ res[q].toks = rows[q].toks
        OBVIOUS
      <3>2. CASE ~(H[k][q].n > 0 /\ ProducesSample(H[k][q]))
        BY <1>5, <3>1, <3>2 DEF Has
      <3>3. CASE H[k][q].n > 0 /\ ProducesSample(H[k][q])
        <4>1. PICK w, s, acc, fst : /\ w = H[k][q] /\ s = A[k][q] /\ acc = rows[q].acc
                                    /\ fst = w.pos + w.n - w.d
          OBVIOUS
        <4>2. w \in BatchEntry /\ acc \in 0..w.d /\ s.comp = fst + acc
          BY <1>5, <3>3, <4>1 DEF Has
        <4>3. acc = s.comp - fst
          BY <4>1, <4>2 DEF BatchEntry
        <4>4. rows[q].toks = [j \in 1..(acc + 1) |-> Token(q, w.gen, fst + j - 1)]
          BY <1>5, <3>3, <4>1 DEF Has
        <4>q. QED BY <3>1, <3>3, <4>1, <4>3, <4>4
      <3>q. QED BY <3>2, <3>3
    <2> HIDE DEF res
    <2>2. ResultAt(H, A, k, res)
      BY <2>1 DEF ResultAt
    <2>q. QED BY <2>2 DEF res
  <1>q. QED BY <1>2, <1>6, <1>7, <1>8

LEMMA ExecuteLastServed ==
  ASSUME NEW H, NEW A, NEW S, NEW R, NEW E, NEW N, Aligned(H, S, R, E, N), Served(H, A, S, R, E, N),
         NEW h, ExecuteLast(h), A[E[Last] + 1] = [q \in Reqs |-> SampledRows(h)[q].state]
  PROVE  Served(H, A, S, R, [E EXCEPT ![Last] = E[Last] + 1], N)'
  <1> DEFINE E1 == [E EXCEPT ![Last] = E[Last] + 1]
  <1>1. /\ IInv /\ OutputIs /\ Edges(E)
        /\ AllPlanned(H, A, S) /\ AllRan(H, A, E[Last])
        /\ LastRows(H, A, E) /\ LowerRows(H, A, E)
        /\ SlotsMatch(H, E) /\ PayloadsMatch(H, A, E, N) /\ InputsMatch(H, A, E)
        /\ ResultsMatch(H, A, R, E) /\ Booking(H, A, S, R)
    BY DEF Served
  <1>2. /\ Last > 0 /\ E[Last] + 1 <= S /\ Head(work[Last]) = H[E[Last] + 1]
        /\ E[Last] + 1 <= E[Last - 1] /\ Head(hidden[Last]) = hidden[Last][1]
    <2>1. /\ Aligned(H, S, R, [E EXCEPT ![Last] = E[Last] + 1], N)'
          /\ Last > 0 /\ E[Last] + 1 <= S /\ Head(work[Last]) = H[E[Last] + 1]
          /\ E[Last] + 1 <= E[Last - 1] /\ Head(hidden[Last]) = hidden[Last][1]
      BY ExecuteLastAligned
    <2>q. QED BY <2>1
  <1>3. PICK k, rows : k = E[Last] + 1 /\ rows = SampledRows(h)
    OBVIOUS
  <1>4. /\ hidden[Last] # <<>>
        /\ hidden' = [hidden EXCEPT ![Last] = Tail(hidden[Last])]
        /\ state' = [state EXCEPT ![Last] = [q \in Reqs |-> rows[q].state]]
        /\ cached' = [q \in Reqs |-> rows[q].right]
        /\ sending' = IF NeedSampled(H[k], K) # {} THEN Append(sending, Payload(H[k], rows)) ELSE sending
        /\ results' = Append(results, [q \in Reqs |-> [acc |-> rows[q].acc, toks |-> rows[q].toks]])
        /\ UNCHANGED <<schedVars, out, ring, relay>>
    BY <1>2, <1>3, ExecuteLastIs
  <1>5. /\ E \in [Ranks -> Nat] /\ E1 \in [Ranks -> Nat] /\ E[Last] \in Nat /\ E1[Last] = k
        /\ (\A x \in Ranks : x # Last => E1[x] = E[x])
        /\ S \in Nat /\ R \in Nat /\ N \in Nat /\ k \in Nat /\ k \in 1..S /\ k # 0 /\ k - 1 = E[Last] /\ R <= E[Last]
        /\ Last \in Ranks /\ \A x \in 0..(Last - 1) : x \in Ranks /\ x # Last
    <2>1. E \in [Ranks -> Nat] /\ S \in Nat /\ R \in Nat /\ N \in Nat /\ R <= E[Last]
      BY DEF Aligned, Counters
    <2>q. QED BY <1>2, <1>3, <2>1, RankFacts
  <1> HIDE DEF E1
  <1>6. IInv' /\ OutputIs' /\ Booking(H, A, S, R)'
    <2>1. UNCHANGED <<status, gen, ntok, ncomp, inflight, spec, wait, queue, out>>
      BY <1>4 DEF schedVars
    <2>2. IInv'
      BY <1>1, <2>1 DEF IInv, SchedTypeOK, EntryInv, Spacing, OneLive, Booked, AtRest,
                        NoLiveStep, RestShape, StepShape, IsLive
    <2>3. OutputIs' /\ Booking(H, A, S, R)'
      BY <1>1, <2>1 DEF OutputIs, Booking
    <2>q. QED BY <2>2, <2>3
  <1>7. Edges(E1)'
    <2>1. DOMAIN buffer' = DOMAIN RowIn(Head(work[Last]))
      BY Zenon DEF ExecuteLast
    <2>2. \E n \in 0..Cardinality(Reqs) : DOMAIN buffer' = 1..n
      BY <2>1, RowInIs
    <2>q. QED BY <1>1, <1>4, <2>2, SMTT(30) DEF Edges
  <1>8. /\ \A q \in Reqs : Has(H, k, q) => Ran(H, A, k, q)
        /\ PayloadOf(H, A, k, Payload(H[k], rows))
        /\ ResultAt(H, A, k, [q \in Reqs |-> [acc |-> rows[q].acc, toks |-> rows[q].toks]])
    BY <1>3, LastStepIs, ZenonT(30)
  <1>9. AllRan(H, A, E1[Last])
    <2>1. ASSUME NEW i \in 1..k, NEW q \in Reqs, Has(H, i, q) PROVE Ran(H, A, i, q)
      <3>1. CASE i = k
        BY <1>8, <2>1, <3>1
      <3>2. CASE i # k
        <4>1. i \in 1..E[Last]
          BY <1>5, <3>2
        <4>q. QED BY <1>1, <2>1, <4>1 DEF AllRan
      <3>q. QED BY <3>1, <3>2
    <2>q. QED BY <1>5, <2>1 DEF AllRan
  <1>10. LastRows(H, A, E1)'
    <2>1. /\ DOMAIN state' = Ranks /\ DOMAIN state'[Last] = Reqs /\ DOMAIN cached' = Reqs
          /\ \A q \in Reqs : state'[Last][q] = rows[q].state /\ cached'[q] = rows[q].right
      BY <1>1, <1>4, <1>5 DEF LastRows
    <2>2. ASSUME NEW q \in Reqs
          PROVE  /\ LastRowAt(H, A, k, state'[Last][q], q)
                 /\ cached'[q] >= state'[Last][q].comp /\ cached'[q] \in 0..(MaxLen + K)
      <3>1. PICK j, row : j = Prev(H, k, q) /\ row = rows[q]
        OBVIOUS
      <3>2. j = IF Has(H, k, q) THEN k ELSE Prev(H, E[Last], q)
        BY <1>3, <1>5, <3>1, PrevNext
      <3>3. LET w == H[k][q]
                x == rows[q]
                fst == w.pos + w.n - w.d
            IN  /\ Has(H, k, q) =>
                     /\ RowOK(q, x.state) /\ x.state.gen = w.gen
                     /\ x.right \in 0..(MaxLen + K) /\ x.right >= x.state.comp
                     /\ ProducesSample(w) => /\ x.acc \in 0..w.d
                                             /\ x.state.comp = fst + x.acc
                                             /\ x.toks = [i \in 1..(x.acc + 1) |-> Token(q, w.gen, fst + i - 1)]
                     /\ ~ProducesSample(w) => x.acc = 0 /\ x.toks = <<>> /\ x.state.comp = w.pos + w.n
                /\ ~Has(H, k, q) => x = [acc |-> 0, toks |-> <<>>, right |-> cached[q], state |-> state[Last][q]]
        BY <1>3, LastRowIs
      <3>4. CASE Has(H, k, q)
        <4>1. A[k][q] = rows[q].state
          BY <1>3
        <4>q. QED BY <1>5, <2>1, <3>1, <3>2, <3>3, <3>4, <4>1 DEF LastRowAt
      <3>5. CASE ~Has(H, k, q)
        <4>1. row.right = cached[q] /\ row.state = state[Last][q]
          BY <3>1, <3>3, <3>5
        <4>2. /\ LastRowAt(H, A, E[Last], state[Last][q], q)
              /\ cached[q] >= state[Last][q].comp /\ cached[q] \in 0..(MaxLen + K)
          BY <1>1 DEF LastRows
        <4>3. LastRowAt(H, A, k, state[Last][q], q)
          BY <3>1, <3>2, <3>5, <4>2 DEF LastRowAt
        <4>q. QED BY <2>1, <3>1, <4>1, <4>2, <4>3
      <3>q. QED BY <3>4, <3>5
    <2>3. cached' \in [Reqs -> 0..(MaxLen + K)]
      BY <1>4, <2>1, <2>2
    <2>q. QED BY <1>5, <2>1, <2>2, <2>3 DEF LastRows
  <1>11. \A x \in 0..(Last - 1) : E1[x] = E[x] /\ Oldest(E1, x) = Oldest(E, x) /\ state'[x] = state[x]
    BY <1>1, <1>4, <1>5 DEF Oldest, LastRows
  <1>12. LowerRows(H, A, E1)' /\ SlotsMatch(H, E1)'
    <2>1. LowerRows(H, A, E1)'
      BY <1>1, <1>11 DEF LowerRows
    <2>2. ASSUME NEW x \in 0..(Last - 1)
          PROVE  \A i \in 1..Len(ring'[x]) : \A q \in NeedSampled(H[Oldest(E1, x) + i], K) :
                    ring'[x][i].gen[q] = H[Oldest(E1, x) + i][q].gen
      <3>1. ring' = ring /\ Oldest(E1, x) = Oldest(E, x)
        BY <1>4, <1>11
      <3>q. QED BY <1>1, <3>1 DEF SlotsMatch
    <2>q. QED BY <2>1, <2>2 DEF SlotsMatch
  <1>13. PayloadsMatch(H, A, E1, N)'
    <2>1. PICK ce : ce = Count(H, E[Last])
      OBVIOUS
    <2>2. /\ IsSeq(sending) /\ Len(sending) = ce - N /\ Len(sending) \in Nat /\ ce \in Nat
          /\ Count(H, k) = IF NeedSampled(H[k], K) # {} THEN ce + 1 ELSE ce
      <3>1. IsSeq(sending) /\ Len(sending) = ce - N
        BY <2>1 DEF Aligned, RelayIs
      <3>2. Len(sending) \in Nat /\ ce \in Nat
        BY <1>5, <2>1, <3>1, LenIs, NeededFinite
      <3>3. Count(H, k) = IF NeedSampled(H[k], K) # {} THEN ce + 1 ELSE ce
        BY <1>3, <1>5, <2>1, CountNext
      <3>q. QED BY <3>1, <3>2, <3>3
    <2>3. ASSUME NEW i \in Needed(H, k)
          PROVE  /\ i # k => i \in Needed(H, E[Last]) /\ Count(H, i) \in Nat /\ Count(H, i) <= ce
                 /\ NeedSampled(H[i], K) # {}
      <3>1. i \in 1..k /\ NeedSampled(H[i], K) # {}
        BY DEF Needed
      <3>2. ASSUME i # k PROVE i \in Needed(H, E[Last]) /\ Count(H, i) \in Nat /\ Count(H, i) <= ce
        <4>1. i \in 1..E[Last] /\ i \in Nat /\ i <= E[Last]
          BY <1>5, <3>1, <3>2
        <4>2. i \in Needed(H, E[Last])
          BY <3>1, <4>1 DEF Needed
        <4>q. QED BY <1>5, <2>1, <4>1, <4>2, NeededFinite, CountBetween
      <3>q. QED BY <3>1, <3>2
    <2>4. ASSUME NEW i \in Needed(H, E1[Last]), Count(H, i) > N
          PROVE  PayloadOf(H, A, i, sending'[Count(H, i) - N])
      <3>0. i \in Needed(H, k)
        BY <1>5
      <3>1. CASE i = k
        <4>1. /\ sending' = Append(sending, Payload(H[k], rows)) /\ Count(H, k) = ce + 1
              /\ (ce + 1) - N = (ce - N) + 1
          BY <1>4, <1>5, <2>2, <2>3, <3>0, <3>1
        <4>2. sending'[(ce - N) + 1] = Payload(H[k], rows)
          BY <2>2, <4>1, AppendIs
        <4>q. QED BY <1>8, <3>1, <4>1, <4>2
      <3>2. CASE i # k
        <4>1. PICK c : c = Count(H, i)
          OBVIOUS
        <4>2. i \in Needed(H, E[Last]) /\ c \in Nat /\ c <= ce /\ c > N
          BY <2>3, <2>4, <3>0, <3>2, <4>1
        <4>3. c - N \in 1..(ce - N)
          BY <1>5, <2>2, <4>2
        <4>4. PayloadOf(H, A, i, sending[c - N])
          BY <1>1, <4>1, <4>2 DEF PayloadsMatch
        <4>5. sending'[c - N] = sending[c - N]
          <5>1. CASE sending' = Append(sending, Payload(H[k], rows))
            BY <2>2, <4>3, <5>1, AppendIs
          <5>2. CASE sending' = sending
            BY <5>2
          <5>q. QED BY <1>4, <5>1, <5>2
        <4>q. QED BY <4>1, <4>4, <4>5
      <3>q. QED BY <3>1, <3>2
    <2>5. ASSUME NEW i \in Needed(H, E1[Last]), NEW x \in 0..(Last - 1),
                 Count(H, i) <= N, Count(H, i) > Count(H, Oldest(E1, x))
          PROVE  PayloadOf(H, A, i, relay'[x][Count(H, i) - Count(H, Oldest(E1, x))])
      <3>0. i \in Needed(H, k)
        BY <1>5
      <3>1. i # k
        <4>1. ASSUME i = k PROVE FALSE
          <5>1. Count(H, i) = ce + 1
            BY <2>2, <2>3, <3>0, <4>1
          <5>q. QED BY <1>5, <2>2, <2>5, <5>1
        <4>q. QED BY <4>1
      <3>2. i \in Needed(H, E[Last])
        BY <2>3, <3>0, <3>1
      <3>3. relay' = relay /\ Oldest(E1, x) = Oldest(E, x)
        BY <1>4, <1>11
      <3>q. QED BY <1>1, <2>5, <3>2, <3>3 DEF PayloadsMatch
    <2>q. QED BY <2>4, <2>5 DEF PayloadsMatch
  <1>14. InputsMatch(H, A, E1)'
    <2>1. /\ DOMAIN hidden = Ranks /\ IsSeq(hidden[Last])
      BY <1>5 DEF Aligned, HiddenIs
    <2>2. ASSUME NEW x \in 1..Last, NEW i \in 1..Len(hidden'[x])
          PROVE  InputAt(H, A, E1[x] + i, hidden'[x][i])
      <3>0. x \in Ranks
        BY RankFacts DEF Ranks, Last
      <3>1. CASE x = Last
        <4>1. hidden'[x] = Tail(hidden[Last]) /\ E1[x] = E[Last] + 1
          BY <1>3, <1>4, <1>5, <2>1, <3>1
        <4>2. PICK t, n : t = hidden[Last] /\ n = Len(t)
          OBVIOUS
        <4>3. /\ Len(Tail(t)) = n - 1 /\ n \in Nat
              /\ \A y \in 1..(n - 1) : Tail(t)[y] = t[y + 1]
          BY <1>4, <2>1, <4>2, TailIs
        <4>4. /\ Len(hidden'[x]) = n - 1
              /\ \A y \in 1..(n - 1) : hidden'[x][y] = hidden[Last][y + 1]
          BY <4>1, <4>2, <4>3
        <4>5. i \in 1..(n - 1)
          BY <4>4
        <4>6. i + 1 \in 1..Len(hidden[Last]) /\ E1[x] + i = E[Last] + (i + 1)
          <5>1. PICK e : e = E[Last] /\ e \in Nat /\ E1[x] = e + 1
            BY <1>5, <4>1
          <5>2. i + 1 \in 1..n /\ (e + 1) + i = e + (i + 1)
            BY <4>3, <4>5, <5>1, SMTT(30)
          <5>q. QED BY <4>2, <5>1, <5>2
        <4>7. InputAt(H, A, E[Last] + (i + 1), hidden[Last][i + 1])
          BY <1>1, <3>1, <4>6 DEF InputsMatch
        <4>q. QED BY <4>4, <4>5, <4>6, <4>7
      <3>2. CASE x # Last
        <4>1. hidden'[x] = hidden[x] /\ E1[x] = E[x]
          BY <1>4, <1>5, <2>1, <3>0, <3>2
        <4>q. QED BY <1>1, <4>1 DEF InputsMatch
      <3>q. QED BY <3>1, <3>2
    <2>q. QED BY <2>2 DEF InputsMatch
  <1>15. ResultsMatch(H, A, R, E1)'
    <2>1. PICK res : res = [q \in Reqs |-> [acc |-> rows[q].acc, toks |-> rows[q].toks]]
      OBVIOUS
    <2>2. IsSeq(results) /\ Len(results) = E[Last] - R /\ results' = Append(results, res)
      BY <1>4, <2>1 DEF Aligned, ResultsIs
    <2>3. (\A i \in 1..(E[Last] - R) : results'[i] = results[i]) /\ results'[(E[Last] - R) + 1] = res
      BY <2>2, AppendIs
    <2>4. ResultAt(H, A, k, res)
      BY <1>8, <2>1
    <2>5. ASSUME NEW i \in 1..(E1[Last] - R) PROVE ResultAt(H, A, R + i, results'[i])
      <3>1. CASE i = (E[Last] - R) + 1
        <4>1. R + i = k
          BY <1>3, <1>5, <3>1
        <4>q. QED BY <2>3, <2>4, <3>1, <4>1
      <3>2. CASE i # (E[Last] - R) + 1
        <4>1. i \in 1..(E[Last] - R)
          BY <1>3, <1>5, <3>2
        <4>q. QED BY <1>1, <2>3, <4>1 DEF ResultsMatch
      <3>q. QED BY <3>1, <3>2
    <2>q. QED BY <2>5 DEF ResultsMatch
  <1>q. QED
    BY <1>1, <1>6, <1>7, <1>9, <1>10, <1>12, <1>13, <1>14, <1>15 DEF Served, E1

----------------------------------------------------------------------------
(* Every step                                                                *)

HistoryServed == \E H, A, S, R, E, N : Aligned(H, S, R, E, N) /\ Served(H, A, S, R, E, N)

LEMMA InitServed ==
  ASSUME Init, NEW H, NEW A
  PROVE  Served(H, A, 0, 0, [r \in Ranks |-> 0], 0)
  <1> DEFINE E == [r \in Ranks |-> 0]
  <1>1. /\ \A r \in Ranks : E[r] = 0 /\ Oldest(E, r) = 0
        /\ E[Last] = 0 /\ Last \in Ranks /\ \A r \in 0..(Last - 1) : r \in Ranks
    BY RankFacts, PPSchedulerAssumption DEF Oldest
  <1>2. /\ results = <<>> /\ sending = <<>> /\ buffer = <<>> /\ out = [q \in Reqs |-> <<>>]
        /\ hidden = [r \in Ranks |-> <<>>] /\ ring = [r \in Ranks |-> <<>>] /\ relay = [r \in Ranks |-> <<>>]
        /\ state = [r \in Ranks |-> [q \in Reqs |-> FreshState]] /\ cached = [q \in Reqs |-> 0]
        /\ SchedInit
    BY DEF Init
  <1>3. \A q : Prev(H, 0, q) = 0
    BY PrevNext
  <1> HIDE DEF E
  <1>4. IInv
    BY <1>2, InitInv
  <1>5. OutputIs
    BY <1>2 DEF OutputIs, SchedInit
  <1>6. Edges(E)
    <2>1. DOMAIN buffer = 1..0
      BY <1>2
    <2>2. 0 \in 0..Cardinality(Reqs)
      BY SpecDecodeAssumption, FS_CardinalityType
    <2>q. QED BY <1>1, <1>2, <2>1, <2>2 DEF Edges
  <1>7. AllPlanned(H, A, 0) /\ AllRan(H, A, E[Last])
    BY <1>1 DEF AllPlanned, AllRan
  <1>8. LastRows(H, A, E)
    <2>1. FreshState.comp = 0 /\ 0 \in 0..(MaxLen + K)
      BY PPSchedulerAssumption DEF FreshState
    <2>q. QED BY <1>1, <1>2, <1>3, <2>1 DEF LastRows, LastRowAt
  <1>9. LowerRows(H, A, E)
    BY <1>1, <1>2, <1>3 DEF LowerRows, RowAt
  <1>10. SlotsMatch(H, E) /\ InputsMatch(H, A, E) /\ ResultsMatch(H, A, 0, E)
    <2>1. \A r \in 1..Last : r \in Ranks
      BY RankFacts DEF Ranks, Last
    <2>q. QED BY <1>1, <1>2, <2>1, EmptyIs DEF SlotsMatch, InputsMatch, ResultsMatch
  <1>11. PayloadsMatch(H, A, E, 0)
    BY <1>1 DEF PayloadsMatch, Needed
  <1>12. Booking(H, A, 0, 0)
    <2>1. (\A q \in Reqs : status[q] # "running") /\ 1..0 = {}
      BY <1>2 DEF SchedInit
    <2>q. QED BY <2>1 DEF Booking
  <1>q. QED
    BY <1>4, <1>5, <1>6, <1>7, <1>8, <1>9, <1>10, <1>11, <1>12 DEF Served, E

\* A function that goes on where another one stops.
LEMMA Extended ==
  ASSUME NEW H, NEW n \in Nat, NEW x
  PROVE  \E G : Agree(G, H, n) /\ G[n + 1] = x
  <1> DEFINE F == [k \in 1..(n + 1) |-> IF k = n + 1 THEN x ELSE H[k]]
  <1>1. Agree(F, H, n) /\ F[n + 1] = x
    BY DEF Agree
  <1>q. QED BY <1>1

LEMMA StepServed ==
  ASSUME "cadence" \in Patches, HistoryServed, [Next]_vars
  PROVE  HistoryServed'
  <1>1. PICK H, A, S, R, E, N : Aligned(H, S, R, E, N) /\ Served(H, A, S, R, E, N)
    BY DEF HistoryServed
  <1>2. S \in Nat /\ E[Last] \in Nat /\ Agree(H, H, S) /\ Agree(A, A, E[Last])
    BY <1>1, RankFacts DEF Aligned, Counters, Agree
  <1>3. CASE EngineSchedule
    <2>1. PICK G : Agree(G, H, S) /\ G[S + 1] = [q \in Reqs |-> Work(q)]
      <3>1. PICK x : x = [q \in Reqs |-> Work(q)]
        OBVIOUS
      <3>2. \E G : Agree(G, H, S) /\ G[S + 1] = x
        BY <1>2, Extended, ZenonT(30)
      <3>q. QED BY <3>1, <3>2
    <2>2. Aligned(G, S, R, E, N) /\ Served(G, A, S, R, E, N)
      BY <1>1, <1>2, <2>1, AlignedKept, ServedKept
    <2>3. Aligned(G, S + 1, R, E, N)'
      BY <1>3, <2>1, <2>2, ScheduleAligned
    <2>4. Served(G, A, S + 1, R, E, N)'
      BY <1>3, <2>1, <2>2, ScheduleServed
    <2>q. QED BY <2>3, <2>4 DEF HistoryServed
  <1>4. ASSUME NEW eos \in MayEnd, EngineReport(eos) PROVE HistoryServed'
    <2>1. Aligned(H, S, R + 1, E, N)'
      BY <1>1, <1>4, ReportAligned
    <2>2. Served(H, A, S, R + 1, E, N)'
      BY <1>1, <1>4, ReportServed
    <2>q. QED BY <2>1, <2>2 DEF HistoryServed
  <1>5. ASSUME NEW q \in Reqs, EngineAdmit(q) \/ EngineAbort(q) PROVE HistoryServed'
    <2>1. Loose
      BY <1>1 DEF Aligned
    <2>2. Aligned(H, S, R, E, N)'
      BY <1>1, <1>5, <2>1, RequestLoose, OtherAligned
    <2>3. Served(H, A, S, R, E, N)'
      BY <1>1, <1>5, RequestServed
    <2>q. QED BY <2>2, <2>3 DEF HistoryServed
  <1>6. ASSUME NEW r \in Ranks, Execute(r) PROVE HistoryServed'
    <2>1. Aligned(H, S, R, [E EXCEPT ![r] = E[r] + 1], N)'
      BY <1>1, <1>6, ExecuteAligned
    <2>2. Served(H, A, S, R, [E EXCEPT ![r] = E[r] + 1], N)'
      BY <1>1, <1>6, ExecuteServed
    <2>q. QED BY <2>1, <2>2 DEF HistoryServed
  <1>7. ASSUME NEW h, ExecuteLast(h) PROVE HistoryServed'
    <2>1. PICK B : Agree(B, A, E[Last]) /\ B[E[Last] + 1] = [q \in Reqs |-> SampledRows(h)[q].state]
      <3>1. PICK x, e : x = [q \in Reqs |-> SampledRows(h)[q].state] /\ e = E[Last]
        OBVIOUS
      <3>2. e \in Nat
        BY <1>2, <3>1
      <3>3. \E B : Agree(B, A, e) /\ B[e + 1] = x
        BY <3>2, Extended, ZenonT(30)
      <3>q. QED BY <3>1, <3>3
    <2>2. Served(H, B, S, R, E, N)
      BY <1>1, <1>2, <2>1, ServedKept
    <2>3. Aligned(H, S, R, [E EXCEPT ![Last] = E[Last] + 1], N)'
      BY <1>1, <1>7, ExecuteLastAligned
    <2>4. Served(H, B, S, R, [E EXCEPT ![Last] = E[Last] + 1], N)'
      BY <1>1, <1>7, <2>1, <2>2, ExecuteLastServed
    <2>q. QED BY <2>3, <2>4 DEF HistoryServed
  <1>8. CASE Broadcast
    <2>1. Aligned(H, S, R, E, N + 1)'
      BY <1>1, <1>8, BroadcastAligned
    <2>2. Served(H, A, S, R, E, N + 1)'
      BY <1>1, <1>8, BroadcastServed
    <2>q. QED BY <2>1, <2>2 DEF HistoryServed
  <1>9. CASE UNCHANGED vars
    <2>1. Loose'
      BY <1>1, <1>9 DEF Aligned, Loose, vars, workerVars, schedVars
    <2>2. Aligned(H, S, R, E, N)'
      BY <1>1, <1>9, <2>1, OtherAligned DEF vars, workerVars, schedVars
    <2>3. UNCHANGED <<status, gen, ntok, ncomp, inflight, spec, wait, queue>>
      BY <1>9 DEF vars, schedVars
    <2>4. UNCHANGED <<out, hidden, state, ring, relay, cached, results, buffer, sending>>
      BY <1>9 DEF vars, workerVars
    <2>5. IInv'
      BY <1>1, <2>3 DEF Served, IInv, SchedTypeOK, EntryInv, Spacing, OneLive, Booked, AtRest,
                        NoLiveStep, RestShape, StepShape, IsLive
    <2>6. OutputIs' /\ Booking(H, A, S, R)' /\ Edges(E)'
      BY <1>1, <2>3, <2>4 DEF Served, OutputIs, Booking, Edges
    <2>7. LastRows(H, A, E)' /\ LowerRows(H, A, E)' /\ SlotsMatch(H, E)'
      BY <1>1, <2>4 DEF Served, LastRows, LastRowAt, LowerRows, RowAt, SlotsMatch
    <2>8. PayloadsMatch(H, A, E, N)' /\ InputsMatch(H, A, E)' /\ ResultsMatch(H, A, R, E)'
      BY <1>1, <2>4 DEF Served, PayloadsMatch, InputsMatch, ResultsMatch
    <2>9. Served(H, A, S, R, E, N)'
      BY <1>1, <2>5, <2>6, <2>7, <2>8 DEF Served
    <2>q. QED BY <2>2, <2>9 DEF HistoryServed
  <1>q. QED BY <1>3, <1>4, <1>5, <1>6, <1>7, <1>8, <1>9 DEF Next

LEMMA AlwaysServed == "cadence" \in Patches => (Spec => []HistoryServed)
  <1> SUFFICES ASSUME "cadence" \in Patches
               PROVE  Spec => []HistoryServed
    OBVIOUS
  <1>1. Init => HistoryServed
    <2> SUFFICES ASSUME Init PROVE HistoryServed
      OBVIOUS
    <2>1. Aligned(0, 0, 0, [r \in Ranks |-> 0], 0) /\ Served(0, 0, 0, 0, [r \in Ranks |-> 0], 0)
      BY InitAligned, InitServed
    <2>q. QED BY <2>1 DEF HistoryServed
  <1>2. HistoryServed /\ [Next]_vars => HistoryServed'
    BY StepServed
  <1>q. QED BY <1>1, <1>2, PTL DEF Spec

----------------------------------------------------------------------------
(* What follows                                                              *)

\* What is assigned position by position stays so.
Shaped ==
  /\ out = [q \in Reqs |-> out[q]]
  /\ state = [r \in Ranks |-> [q \in Reqs |-> state[r][q]]]
  /\ buffer = [i \in DOMAIN buffer |-> buffer[i]]

BufferOf(order, rows) == [i \in DOMAIN order |-> rows[order[i]].state.draft]

LEMMA StepShaped ==
  ASSUME Shaped, [Next]_vars
  PROVE  Shaped'
  <1>1. CASE EngineSchedule
    BY <1>1 DEF EngineSchedule, Shaped
  <1>2. ASSUME NEW eos, EngineReport(eos) PROVE Shaped'
    <2>1. out' = [q \in Reqs |-> out'[q]]
      BY <1>2 DEF EngineReport
    <2>q. QED BY <1>2, <2>1 DEF EngineReport, Shaped
  <1>3. ASSUME NEW q \in Reqs, EngineAdmit(q) \/ EngineAbort(q) PROVE Shaped'
    <2>1. UNCHANGED <<state, buffer>> /\ (out' = [out EXCEPT ![q] = <<>>] \/ out' = out)
      BY <1>3 DEF EngineAdmit, EngineAbort, workerVars
    <2>q. QED BY <2>1 DEF Shaped
  <1>4. ASSUME NEW r \in Ranks, Execute(r) PROVE Shaped'
    <2>1. /\ state' = [state EXCEPT ![r] = Advanced(Corrected(r), Head(work[r]))]
          /\ UNCHANGED <<out, buffer>>
      BY <1>4, ExecuteIs
    <2>2. PICK s : s = Advanced(Corrected(r), Head(work[r]))
      OBVIOUS
    <2>3. s = [q \in Reqs |-> s[q]]
      BY <2>2 DEF Advanced
    <2>q. QED BY <2>1, <2>2, <2>3 DEF Shaped
  <1>5. ASSUME NEW h, ExecuteLast(h) PROVE Shaped'
    <2>1. state' = [state EXCEPT ![Last] = [q \in Reqs |-> SampledRows(h)[q].state]] /\ out' = out
      BY <1>5, ExecuteLastIs
    <2>2. buffer' = [i \in DOMAIN buffer' |-> buffer'[i]]
      <3>1. PICK f, rows : buffer' = BufferOf(f, rows)
        <4>1. buffer' = BufferOf(RowIn(Head(work[Last])), SampledRows(h))
          BY <1>5, Zenon DEF ExecuteLast, SampledRows, BufferOf
        <4>q. QED BY <4>1, SMTT(30)
      <3>2. PICK D : D = DOMAIN f
        OBVIOUS
      <3>q. QED BY <3>1, <3>2 DEF BufferOf
    <2>3. PICK s : s = [q \in Reqs |-> SampledRows(h)[q].state]
      OBVIOUS
    <2>4. s = [q \in Reqs |-> s[q]]
      BY <2>3
    <2>q. QED BY <2>1, <2>2, <2>3, <2>4, RankFacts DEF Shaped
  <1>6. CASE Broadcast
    BY <1>6 DEF Broadcast, Shaped
  <1>7. CASE UNCHANGED vars
    BY <1>7 DEF vars, workerVars, Shaped
  <1>q. QED BY <1>1, <1>2, <1>3, <1>4, <1>5, <1>6, <1>7 DEF Next

LEMMA AlwaysShaped == Spec => []Shaped
  <1>1. Init => Shaped
    BY DEF Init, Shaped
  <1>2. Shaped /\ [Next]_vars => Shaped'
    BY StepShaped
  <1>q. QED BY <1>1, <1>2, PTL DEF Spec

\* The same as the report of the abstract server.
LEMMA ReportEmits ==
  ASSUME HistoryServed, NEW eos, EngineReport(eos)
  PROVE  Greedy!Emit
  <1>1. PICK H, A, S, R, E, N : Aligned(H, S, R, E, N) /\ Served(H, A, S, R, E, N)
    BY DEF HistoryServed
  <1> DEFINE grow == [q \in Reqs |-> IF Sampled(q, H[R + 1][q]) THEN ntok'[q] - ntok[q] ELSE 0]
             ends == {q \in Reqs : status[q] = "running" /\ status'[q] = "finished"}
  <1>2. /\ UNCHANGED gen /\ DOMAIN out = Reqs /\ status \in [Reqs -> {"running", "finished"}]
        /\ ntok \in [Reqs -> 0..MaxLen]
        /\ status' = [q \in Reqs |-> status'[q]] /\ out' = [q \in Reqs |-> out'[q]]
    BY <1>1 DEF EngineReport, Report, Served, IInv, SchedTypeOK, OutputIs
  <1>3. ASSUME NEW q \in Reqs
        PROVE  /\ grow[q] \in 0..(K + 1)
               /\ grow[q] > 0 => status[q] = "running"
               /\ grow[q] > 0 /\ Len(out[q]) + grow[q] >= MaxLen - PromptLen => q \in ends
               /\ Len(out[q]) + grow[q] <= MaxLen - PromptLen
               /\ out'[q] = IF grow[q] = 0 THEN out[q] ELSE Greedy!GreedyOutput(q, gen[q], Len(out[q]) + grow[q])
               /\ status'[q] = IF q \in ends THEN "finished" ELSE status[q]
    <2>1. PICK w, n0, n1, acc : w = H[R + 1][q] /\ n0 = ntok[q] /\ n1 = ntok'[q] /\ acc = results[1][q].acc
      OBVIOUS
    <2>2. /\ IsLive(q, w) => status[q] = "running" /\ gen[q] > 0
          /\ status'[q] = IF Sampled(q, w) /\ (n1 = MaxLen \/ q \in eos) THEN "finished" ELSE status[q]
          /\ Sampled(q, w) => /\ n0 \in PromptLen..(MaxLen - 1) /\ acc \in 0..K
                              /\ n1 = MinOf(n0 + acc + 1, MaxLen)
                              /\ out'[q] = Greedy!GreedyOutput(q, gen[q], n1 - PromptLen)
          /\ ~Sampled(q, w) => n1 = n0 /\ out'[q] = out[q]
      BY <1>1, <2>1, ReportIs
    <2>3. n0 \in 0..MaxLen /\ Len(out[q]) <= MaxLen - PromptLen /\ (gen[q] > 0 => Len(out[q]) = n0 - PromptLen)
      <3>1. n0 \in 0..MaxLen
        BY <1>2, <2>1
      <3>2. CASE gen[q] = 0
        BY <1>1, <3>1, <3>2, PPSchedulerAssumption DEF Served, OutputIs
      <3>3. CASE gen[q] # 0
        <4>1. n0 >= PromptLen /\ out[q] = Greedy!GreedyOutput(q, gen[q], n0 - PromptLen)
          BY <1>1, <2>1, <3>3 DEF Served, OutputIs
        <4>2. n0 - PromptLen \in Nat
          BY <3>1, <4>1, PPSchedulerAssumption
        <4>3. Len(out[q]) = n0 - PromptLen
          <5>1. GreedyFor(q, gen[q], n0 - PromptLen, out[q])
            BY <4>1, <4>2 DEF GreedyFor
          <5>q. QED BY <5>1, GreedyHas
        <4>q. QED BY <3>1, <4>1, <4>3, PPSchedulerAssumption
      <3>q. QED BY <3>2, <3>3
    <2>4. status'[q] = IF q \in ends THEN "finished" ELSE status[q]
      BY <1>2, <2>2 DEF ends
    <2>5. CASE ~Sampled(q, w)
      <3>1. grow[q] = 0
        BY <2>1, <2>5
      <3>2. out'[q] = out[q]
        BY <2>2, <2>5
      <3>3. Len(out[q]) + 0 <= MaxLen - PromptLen
        BY <2>3
      <3> HIDE DEF grow
      <3>q. QED BY <2>4, <3>1, <3>2, <3>3, PPSchedulerAssumption
    <2>6. CASE Sampled(q, w)
      <3>1. grow[q] = n1 - n0
        BY <2>1, <2>6
      <3>2. status[q] = "running" /\ gen[q] > 0 /\ Len(out[q]) = n0 - PromptLen
        BY <2>2, <2>3, <2>6 DEF Sampled
      <3>3. /\ n0 \in PromptLen..(MaxLen - 1) /\ acc \in 0..K /\ n1 = MinOf(n0 + acc + 1, MaxLen)
        BY <2>2, <2>6
      <3>4. /\ n1 - n0 \in 1..(K + 1) /\ (n0 - PromptLen) + (n1 - n0) = n1 - PromptLen
            /\ n1 - PromptLen <= MaxLen - PromptLen
            /\ n1 - PromptLen >= MaxLen - PromptLen => n1 = MaxLen
        BY <3>3, PPSchedulerAssumption DEF MinOf
      <3>5. n1 = MaxLen => q \in ends
        BY <2>2, <2>6, <3>2 DEF ends
      <3>6. out'[q] = Greedy!GreedyOutput(q, gen[q], n1 - PromptLen)
        BY <2>2, <2>6
      <3> HIDE DEF grow, ends
      <3>q. QED BY <2>4, <3>1, <3>2, <3>4, <3>5, <3>6, PPSchedulerAssumption
    <2>q. QED BY <2>5, <2>6
  <1>4. grow \in [Reqs -> 0..(K + 1)] /\ ends \in SUBSET Reqs
    <2>1. \A q \in Reqs : grow[q] \in 0..(K + 1)
      BY <1>3
    <2>q. QED BY <2>1
  <1>5. /\ \A q \in Reqs : grow[q] > 0 \/ q \in ends => status[q] = "running"
        /\ \A q \in Reqs : grow[q] > 0 /\ Len(out[q]) + grow[q] >= Greedy!Room => q \in ends
        /\ \A q \in Reqs : Len(out[q]) + grow[q] <= Greedy!Room
    <2>1. \A q \in Reqs : q \in ends => status[q] = "running"
      OBVIOUS
    <2> HIDE DEF grow, ends
    <2>q. QED BY <1>3, <2>1 DEF Greedy!Room
  <1> HIDE DEF grow, ends
  <1>6. out' = [q \in Reqs |-> IF grow[q] = 0 THEN out[q] ELSE Greedy!GreedyOutput(q, gen[q], Len(out[q]) + grow[q])]
    BY <1>2, <1>3
  <1>7. status' = [q \in Reqs |-> IF q \in ends THEN "finished" ELSE status[q]]
    BY <1>2, <1>3
  <1>q. QED BY <1>2, <1>4, <1>5, <1>6, <1>7 DEF Greedy!Emit

LEMMA StepIsGreedy ==
  ASSUME HistoryServed, Shaped, [Next]_vars
  PROVE  [Greedy!Next]_(Greedy!vars)
  <1>1. PICK H, A, S, R, E, N : Aligned(H, S, R, E, N) /\ Served(H, A, S, R, E, N)
    BY DEF HistoryServed
  <1>2. /\ status \in [Reqs -> {"running", "finished"}] /\ out = [q \in Reqs |-> out[q]]
        /\ ntok \in [Reqs -> 0..MaxLen]
    BY <1>1 DEF Served, IInv, SchedTypeOK, Shaped
  <1>3. CASE EngineSchedule
    BY <1>3 DEF EngineSchedule, Schedule, Greedy!vars
  <1>4. ASSUME NEW eos, EngineReport(eos) PROVE Greedy!Next
    BY <1>4, ReportEmits DEF Greedy!Next
  <1>5. ASSUME NEW q \in Reqs, EngineAdmit(q) PROVE Greedy!Next
    BY <1>5 DEF EngineAdmit, Admit, Greedy!Next, Greedy!Start
  <1>6. ASSUME NEW p \in Reqs, EngineAbort(p) PROVE Greedy!Next
    <2>1. /\ status[p] = "running" /\ status' = [status EXCEPT ![p] = "finished"]
          /\ gen' = gen /\ out' = out
      BY <1>6 DEF EngineAbort, Abort
    <2>2. PICK grow, ends : grow = [q \in Reqs |-> 0] /\ ends = {p}
      OBVIOUS
    <2>3. grow \in [Reqs -> 0..(K + 1)] /\ ends \in SUBSET Reqs
      BY <2>2, PPSchedulerAssumption
    <2>4. /\ \A q \in Reqs : grow[q] = 0 /\ ~(grow[q] > 0)
          /\ \A q \in Reqs : q \in ends => status[q] = "running"
      BY <2>1, <2>2
    <2>5. ASSUME NEW q \in Reqs PROVE Len(out[q]) + grow[q] <= Greedy!Room
      <3>1. ntok[q] \in 0..MaxLen
        BY <1>2
      <3>2. CASE gen[q] = 0
        <4>1. out[q] = <<>>
          BY <1>1, <3>2 DEF Served, OutputIs
        <4>q. QED BY <2>4, <4>1, PPSchedulerAssumption DEF Greedy!Room
      <3>3. CASE gen[q] # 0
        <4>1. ntok[q] >= PromptLen /\ out[q] = Greedy!GreedyOutput(q, gen[q], ntok[q] - PromptLen)
          BY <1>1, <3>3 DEF Served, OutputIs
        <4>2. ntok[q] - PromptLen \in Nat
          BY <3>1, <4>1, PPSchedulerAssumption
        <4>3. Len(out[q]) = ntok[q] - PromptLen
          <5>1. PICK m \in Nat : m = ntok[q] - PromptLen
            BY <4>2
          <5>2. GreedyFor(q, gen[q], m, out[q])
            BY <4>1, <4>2, <5>1 DEF GreedyFor
          <5>3. Len(out[q]) = m
            BY <5>2, GreedyHas
          <5>q. QED BY <5>1, <5>3
        <4>q. QED BY <2>4, <3>1, <4>1, <4>3, PPSchedulerAssumption DEF Greedy!Room
      <3>q. QED BY <3>2, <3>3
    <2>6. out' = [q \in Reqs |-> IF grow[q] = 0 THEN out[q] ELSE Greedy!GreedyOutput(q, gen[q], Len(out[q]) + grow[q])]
      BY <1>2, <2>1, <2>4
    <2>7. status' = [q \in Reqs |-> IF q \in ends THEN "finished" ELSE status[q]]
      BY <1>2, <2>1, <2>2
    <2>q. QED BY <2>1, <2>3, <2>4, <2>5, <2>6, <2>7 DEF Greedy!Next, Greedy!Emit
  <1>7. ASSUME NEW r \in Ranks, Execute(r) PROVE UNCHANGED Greedy!vars
    BY <1>7, ExecuteIs DEF schedVars, Greedy!vars
  <1>8. ASSUME NEW h, ExecuteLast(h) PROVE UNCHANGED Greedy!vars
    BY <1>8, ExecuteLastIs DEF schedVars, Greedy!vars
  <1>9. CASE Broadcast
    BY <1>9 DEF Broadcast, schedVars, Greedy!vars
  <1>10. CASE UNCHANGED vars
    BY <1>10 DEF vars, schedVars, Greedy!vars
  <1>q. QED BY <1>3, <1>4, <1>5, <1>6, <1>7, <1>8, <1>9, <1>10 DEF Next

\* With the cadence, any number of ranks, of drafts and of requests, and any
\* verdict and load: what a client is given is what greedy decoding without
\* speculation would have written, token by token.
THEOREM GreedyRefined == "cadence" \in Patches => (Spec => RefinesGreedy)
  <1> SUFFICES ASSUME "cadence" \in Patches
               PROVE  Spec => RefinesGreedy
    OBVIOUS
  <1>1. Init => Greedy!Init
    BY DEF Init, SchedInit, Greedy!Init
  <1>2. HistoryServed /\ Shaped /\ [Next]_vars => [Greedy!Next]_(Greedy!vars)
    BY StepIsGreedy
  <1>3. Spec => []HistoryServed
    BY AlwaysServed
  <1>q. QED BY <1>1, <1>2, <1>3, AlwaysShaped, PTL DEF Spec, RefinesGreedy, Greedy!Spec

\* The input on its way to rank r.
LEMMA InputsAre ==
  ASSUME NEW H, NEW A, NEW S, NEW R, NEW E, NEW N, Aligned(H, S, R, E, N), Served(H, A, S, R, E, N),
         NEW r \in Ranks, NEW i \in DOMAIN hidden[r], NEW q \in Reqs
  PROVE  LET k == E[r] + i
         IN  /\ k \in 1..S
             /\ hidden[r][i][q] = IF Has(H, k, q) THEN InputOf(q, H[k][q], Base(H, A, k, q)) ELSE NoInput
  <1>1. /\ IsSeq(hidden[r]) /\ Len(hidden[r]) = IF r = 0 THEN 0 ELSE E[r - 1] - E[r]
        /\ E \in [Ranks -> Nat] /\ S \in Nat
    BY DEF Aligned, HiddenIs, Counters
  <1>2. i \in 1..Len(hidden[r])
    <2>1. PICK T : hidden[r] \in Seq(T)
      BY <1>1 DEF IsSeq
    <2>q. QED BY <2>1
  <1>3. r # 0 /\ r \in 1..Last /\ r - 1 \in Ranks
    BY <1>1, <1>2, RankFacts DEF Ranks, Last
  <1>4. E[r] \in Nat /\ E[r - 1] \in Nat /\ E[r - 1] <= S
    BY <1>1, <1>3 DEF Aligned, Counters
  <1>5. E[r] + i \in 1..S
    BY <1>1, <1>2, <1>3, <1>4
  <1>6. InputAt(H, A, E[r] + i, hidden[r][i])
    BY <1>2, <1>3 DEF Served, InputsMatch
  <1>q. QED BY <1>5, <1>6 DEF InputAt

LEMMA ServedAnchors == HistoryServed => AnchorReal
  <1> SUFFICES ASSUME HistoryServed, NEW r \in Ranks, NEW q \in Reqs, NEW i \in DOMAIN hidden[r],
                      hidden[r][i][q].toks # <<>>
               PROVE  hidden[r][i][q].toks[1] \notin {TokenZero, Wrong}
    BY DEF AnchorReal
  <1>1. PICK H, A, S, R, E, N : Aligned(H, S, R, E, N) /\ Served(H, A, S, R, E, N)
    BY DEF HistoryServed
  <1>2. PICK k, m, w, base : k = E[r] + i /\ m = hidden[r][i][q] /\ w = H[k][q] /\ base = Base(H, A, k, q)
    OBVIOUS
  <1>3. k \in 1..S /\ m = IF Has(H, k, q) THEN InputOf(q, w, base) ELSE NoInput
    BY <1>1, <1>2, InputsAre
  <1>4. Has(H, k, q)
    BY <1>2, <1>3 DEF NoInput
  <1>5. w \in BatchEntry /\ w.n > 0 /\ PlannedOn(w, base) /\ RowOK(q, base) /\ base.gen = w.gen
    BY <1>1, <1>2, <1>3, <1>4, BaseIs
  <1>6. m.toks[1] = InputToken(q, w, base, 1)
    <2>1. m.toks = [j \in 1..w.n |-> InputToken(q, w, base, j)]
      BY <1>3, <1>4 DEF InputOf
    <2>2. 1 \in 1..w.n
      BY <1>5 DEF BatchEntry
    <2>q. QED BY <2>1, <2>2
  <1>7. InputToken(q, w, base, 1) = Token(q, w.gen, base.comp)
    <2>1. w.n - w.d \in Nat /\ w.n - w.d >= 1 /\ base.comp \in Nat
      BY <1>5, InputIs
    <2>2. InputToken(q, w, base, 1) = Token(q, base.gen, base.comp + 1 - 1)
      <3>1. base.comp >= PromptLen => base.last = Token(q, base.gen, base.comp)
        BY <1>5 DEF RowOK
      <3>2. \A j \in 1..(w.n - w.d) : InputToken(q, w, base, j) = Token(q, base.gen, base.comp + j - 1)
        BY <1>5, <3>1, InputIs
      <3>q. QED BY <2>1, <3>2
    <2>3. base.comp + 1 - 1 = base.comp
      BY <2>1
    <2>q. QED BY <1>5, <2>2, <2>3
  <1>8. w.gen \in 1..MaxGen /\ base.comp \in 0..(MaxLen + 2 * K)
    BY <1>5, PPSchedulerAssumption DEF PlannedOn, BatchEntry
  <1>q. QED BY <1>2, <1>6, <1>7, <1>8, TokenIs

\* With the cadence no stage ever computes on an anchor that has not arrived,
\* however many stages there are between the sampler and the embedding.
THEOREM AnchorRealHolds == "cadence" \in Patches => (Spec => []AnchorReal)
  BY AlwaysServed, ServedAnchors, PTL

LEMMA ServedVerifies == HistoryServed => EmbeddedIsVerified
  <1> SUFFICES ASSUME HistoryServed, work[Last] # <<>>, hidden[Last] # <<>>,
                      NEW q \in InBatch(Head(work[Last]))
               PROVE  LET w == Head(work[Last])[q]
                          s == Added(state[Last], Head(work[Last]))[q]
                          m == Head(hidden[Last])[q]
                      IN  /\ m.pos = s.comp
                          /\ \A j \in 1..w.d : m.toks[w.n - w.d + j] = s.draft[j]
    BY DEF EmbeddedIsVerified
  <1>1. PICK H, A, S, R, E, N : Aligned(H, S, R, E, N) /\ Served(H, A, S, R, E, N)
    BY DEF HistoryServed
  <1>2. PICK b, k : b = Head(work[Last]) /\ k = E[Last] + 1
    OBVIOUS
  <1>3. PICK w, s, m : w = b[q] /\ s = Added(state[Last], b)[q] /\ m = Head(hidden[Last])[q]
    OBVIOUS
  <1>4. b = H[k] /\ q \in Reqs /\ Has(H, k, q)
    <2>1. b = H[k]
      BY <1>1, <1>2, LastBaseIs
    <2>q. QED BY <1>2, <2>1 DEF InBatch, Has
  <1>5. w \in BatchEntry /\ w.n > 0 /\ PlannedOn(w, s) /\ m = InputOf(q, w, s)
    <2>1. PICK base : base = Base(H, A, k, q)
      OBVIOUS
    <2>2. w \in BatchEntry /\ w.n > 0 /\ PlannedOn(w, base) /\ s = base /\ m = InputOf(q, w, base)
      BY <1>1, <1>2, <1>3, <1>4, <2>1, LastBaseIs
    <2>q. QED BY <2>2
  <1>6. m.pos = s.comp
    BY <1>5 DEF InputOf
  <1>7. ASSUME NEW j \in 1..w.d PROVE m.toks[w.n - w.d + j] = s.draft[j]
    <2>1. m.toks = [i \in 1..w.n |-> InputToken(q, w, s, i)]
      BY <1>5 DEF InputOf
    <2>2. w.n - w.d \in Nat /\ InputToken(q, w, s, (w.n - w.d) + j) = s.draft[j]
      BY <1>4, <1>5, InputIs
    <2>3. (w.n - w.d) + j \in 1..w.n
      BY <1>5, <2>2 DEF BatchEntry
    <2>q. QED BY <2>1, <2>2, <2>3
  <1>q. QED BY <1>2, <1>3, <1>6, <1>7

\* With the cadence the last rank verifies exactly the drafts rank 0 embedded,
\* at the position rank 0 embedded them: the two copies of a request's row agree
\* across the relay.
THEOREM EmbeddedIsVerifiedHolds == "cadence" \in Patches => (Spec => []EmbeddedIsVerified)
  BY AlwaysServed, ServedVerifies, PTL

LEMMA ServedRows == HistoryServed => RowsKeepTheirRequest
  <1> SUFFICES ASSUME HistoryServed, NEW r \in Ranks, NEW q \in Reqs
               PROVE  Owned(q, state[r][q])
    BY DEF RowsKeepTheirRequest, Owned
  <1>1. PICK H, A, S, R, E, N : Aligned(H, S, R, E, N) /\ Served(H, A, S, R, E, N)
    BY DEF HistoryServed
  <1>2. PICK s, j, e : s = state[r][q] /\ e = E[r] /\ j = Prev(H, e, q)
    OBVIOUS
  <1>3. Owned(q, FreshState)
    <2>1. FreshState = Fresh(0) /\ 0 \in 0..MaxGen
      BY PPSchedulerAssumption DEF FreshState, Fresh
    <2>q. QED BY <2>1, FreshOK DEF RowOK
  <1>4. e \in Nat /\ j \in Nat /\ j <= e /\ (j > 0 => Has(H, j, q))
    <2>1. e \in Nat
      BY <1>1, <1>2 DEF Aligned, Counters
    <2>q. QED BY <1>2, <2>1, PrevUse
  <1>5. CASE r = Last
    <2>1. s = IF j = 0 THEN FreshState ELSE A[j][q]
      BY <1>1, <1>2, <1>5 DEF Served, LastRows, LastRowAt
    <2>2. j # 0 => Owned(q, A[j][q])
      BY <1>1, <1>2, <1>4, <1>5 DEF Served, AllRan, Ran, RowOK
    <2>q. QED BY <1>2, <1>3, <2>1, <2>2
  <1>6. CASE r # Last
    <2>1. RowAt(H, A, e, s, q)
      BY <1>1, <1>2, <1>6, RankFacts DEF Served, LowerRows
    <2>q. QED BY <1>2, <1>3, <2>1 DEF RowAt
  <1>q. QED BY <1>5, <1>6

\* With the cadence a broadcast that arrives PP batches late never writes into
\* the row of the request that has taken the index since.
THEOREM RowsKeepTheirRequestHolds == "cadence" \in Patches => (Spec => []RowsKeepTheirRequest)
  BY AlwaysServed, ServedRows, PTL

\* No more broadcasts wait on the side stream than the ring has slots.
LEMMA SendingBounded ==
  ASSUME NEW H, NEW A, NEW S, NEW R, NEW E, NEW N, Aligned(H, S, R, E, N), Served(H, A, S, R, E, N)
  PROVE  Len(sending) <= PP
  <1>1. PICK l, e, o : l = E[Last] /\ e = E[0] /\ o = Oldest(E, 0)
    OBVIOUS
  <1>2. /\ E \in [Ranks -> Nat] /\ N \in Nat /\ l \in Nat /\ e \in Nat /\ l <= e /\ PP \in Nat
        /\ o \in Nat /\ o <= e /\ e - o <= PP
    <2>1. E \in [Ranks -> Nat] /\ N \in Nat /\ E[Last] <= E[0]
      BY RankFacts DEF Aligned, Counters
    <2>2. Oldest(E, 0) \in Nat /\ Oldest(E, 0) <= E[0] /\ E[0] - Oldest(E, 0) <= PP
      BY <2>1, RankFacts, OldestIs
    <2>q. QED BY <1>1, <2>1, <2>2, RankFacts, PPSchedulerAssumption
  <1>3. IsSeq(sending) /\ Len(sending) = Count(H, l) - N /\ Len(sending) \in Nat
    <2>1. IsSeq(sending) /\ Len(sending) = Count(H, l) - N
      BY <1>1 DEF Aligned, RelayIs
    <2>q. QED BY <2>1, LenIs
  <1>4. Count(H, l) \in Nat /\ Count(H, o) \in Nat
    BY <1>2, NeededFinite
  <1>5. N >= Count(H, o)
    <2>1. 0 \in 0..(Last - 1)
      BY RankFacts
    <2>2. IsSeq(relay[0]) /\ Len(relay[0]) = N - Count(H, o)
      BY <1>1, <2>1 DEF Aligned, RelayIs
    <2>3. Len(relay[0]) \in Nat
      BY <2>2, LenIs
    <2>q. QED BY <1>2, <1>4, <2>2, <2>3
  <1>6. CASE o <= l
    <2>1. Count(H, l) - Count(H, o) <= l - o
      BY <1>2, <1>6, CountBetween
    <2>q. QED BY <1>2, <1>3, <1>4, <1>5, <2>1
  <1>7. CASE l < o
    <2>1. l \in Nat /\ o \in Nat /\ l <= o
      BY <1>2, <1>7
    <2>2. Count(H, l) <= Count(H, o)
      BY <2>1, CountBetween
    <2>q. QED BY <1>2, <1>3, <1>4, <1>5, <2>2
  <1>q. QED BY <1>2, <1>6, <1>7

LEMMA ServedTypes == HistoryServed /\ Shaped => TypeOK
  <1> SUFFICES ASSUME HistoryServed, Shaped
               PROVE  TypeOK
    OBVIOUS
  <1>1. PICK H, A, S, R, E, N : Aligned(H, S, R, E, N) /\ Served(H, A, S, R, E, N)
    BY DEF HistoryServed
  <1>2. SchedTypeOK
    BY <1>1 DEF Served, IInv
  <1>3. ASSUME NEW q \in Reqs PROVE Len(out[q]) <= MaxLen - PromptLen
    <2>1. ntok[q] \in 0..MaxLen
      BY <1>2 DEF SchedTypeOK
    <2>2. CASE gen[q] = 0
      BY <1>1, <2>2, PPSchedulerAssumption DEF Served, OutputIs
    <2>3. CASE gen[q] # 0
      <3>1. ntok[q] >= PromptLen /\ out[q] = Greedy!GreedyOutput(q, gen[q], ntok[q] - PromptLen)
        BY <1>1, <2>3 DEF Served, OutputIs
      <3>2. ntok[q] - PromptLen \in Nat
        BY <2>1, <3>1, PPSchedulerAssumption
      <3>3. Len(out[q]) = ntok[q] - PromptLen
        <4>1. PICK m \in Nat : m = ntok[q] - PromptLen
          BY <3>2
        <4>2. GreedyFor(q, gen[q], m, out[q])
          BY <3>1, <3>2, <4>1 DEF GreedyFor
        <4>3. Len(out[q]) = m
          BY <4>2, GreedyHas
        <4>q. QED BY <4>1, <4>3
      <3>q. QED BY <2>1, <3>3, PPSchedulerAssumption
    <2>q. QED BY <2>2, <2>3
  <1>4. ASSUME NEW r \in Ranks PROVE Len(work[r]) <= PP /\ Len(ring[r]) <= PP
    <2>1. /\ S \in Nat /\ R \in Nat /\ E \in [Ranks -> Nat] /\ S <= R + PP /\ R <= E[Last] /\ E[Last] <= E[r]
          /\ Len(work[r]) = S - E[r] /\ PP \in Nat
      BY <1>1, RankFacts, PPSchedulerAssumption DEF Aligned, Counters, WorkIs
    <2>2. Len(work[r]) <= PP
      <3>1. E[Last] \in Nat /\ E[r] \in Nat
        BY <2>1, RankFacts
      <3>q. QED BY <2>1, <3>1
    <2>3. CASE r = Last
      <3>1. ring[r] = <<>>
        BY <1>1, <2>3 DEF Served, Edges
      <3>q. QED BY <2>1, <2>2, <3>1
    <2>4. CASE r # Last
      <3>1. Len(ring[r]) = E[r] - Oldest(E, r)
        BY <1>1, <2>4, RankFacts DEF Aligned, RingIs
      <3>q. QED BY <2>1, <2>2, <3>1, OldestIs
    <2>q. QED BY <2>3, <2>4
  <1>5. state \in [Ranks -> [Reqs -> RowState]]
    <2>1. FreshState \in RowState
      <3>1. FreshState = Fresh(0) /\ 0 \in 0..MaxGen
        BY PPSchedulerAssumption DEF FreshState, Fresh
      <3>q. QED BY <3>1, FreshOK DEF RowOK
    <2>2. ASSUME NEW r \in Ranks, NEW q \in Reqs PROVE state[r][q] \in RowState
      <3>1. PICK s, j, e : s = state[r][q] /\ e = E[r] /\ j = Prev(H, e, q)
        OBVIOUS
      <3>2. e \in Nat /\ j \in Nat /\ j <= e /\ (j > 0 => Has(H, j, q))
        <4>1. e \in Nat
          BY <1>1, <3>1 DEF Aligned, Counters
        <4>q. QED BY <3>1, <4>1, PrevUse
      <3>3. CASE r = Last
        <4>1. s = IF j = 0 THEN FreshState ELSE A[j][q]
          BY <1>1, <3>1, <3>3 DEF Served, LastRows, LastRowAt
        <4>2. j # 0 => A[j][q] \in RowState
          BY <1>1, <3>1, <3>2, <3>3 DEF Served, AllRan, Ran, RowOK
        <4>q. QED BY <2>1, <3>1, <4>1, <4>2
      <3>4. CASE r # Last
        <4>1. RowAt(H, A, e, s, q)
          BY <1>1, <3>1, <3>4, RankFacts DEF Served, LowerRows
        <4>q. QED BY <2>1, <3>1, <4>1 DEF RowAt
      <3>q. QED BY <3>3, <3>4
    <2>3. state = [r \in Ranks |-> [q \in Reqs |-> state[r][q]]]
      BY DEF Shaped
    <2>q. QED BY <2>2, <2>3
  <1>6. cached \in [Reqs -> 0..(MaxLen + K)] /\ drafted \subseteq Reqs
    BY <1>1 DEF Served, LastRows, Aligned, Loose
  <1>7. Len(buffer) <= Cardinality(Reqs)
    <2>1. PICK n \in 0..Cardinality(Reqs) : DOMAIN buffer = 1..n
      BY <1>1 DEF Served, Edges
    <2>2. buffer = [i \in 1..n |-> buffer[i]]
      BY <2>1 DEF Shaped
    <2>3. n \in Nat /\ Cardinality(Reqs) \in Nat
      BY SpecDecodeAssumption, FS_CardinalityType
    <2>4. buffer \in Seq({buffer[i] : i \in 1..n})
      BY <2>2, <2>3
    <2>5. Len(buffer) = n
      BY <2>1, <2>3, <2>4
    <2>q. QED BY <2>3, <2>5
  <1>8. Len(sending) <= PP
    BY <1>1, SendingBounded
  <1>q. QED BY <1>2, <1>3, <1>4, <1>5, <1>6, <1>7, <1>8 DEF TypeOK

\* With the cadence the server with its ranks is type correct, and its queues and
\* rings are bounded by the number of stages.
THEOREM TypeHolds == "cadence" \in Patches => (Spec => []TypeOK)
  BY AlwaysServed, AlwaysShaped, ServedTypes, PTL

\* What is proved of the scheduler for arbitrary outcomes is true of the server,
\* whose outcomes its ranks produce: with the cadence every step is planned on a
\* confirmed position, after the step before it was reported.
THEOREM ServerPlansOnConfirmed ==
  "cadence" \in Patches =>
    (Spec => [](AnchorSlot /\ DecodeShape /\ ConfirmedPosition) /\ ReportedBeforeScheduled)
  <1> SUFFICES ASSUME "cadence" \in Patches
               PROVE  Spec => [](AnchorSlot /\ DecodeShape /\ ConfirmedPosition) /\ ReportedBeforeScheduled
    OBVIOUS
  <1>1. Spec => SchedSpec
    BY SchedulerRefined DEF RefinesScheduler
  <1>2. SchedSpec => []AnchorSlot /\ []DecodeShape /\ []ConfirmedPosition /\ ReportedBeforeScheduled
    BY AnchorSlotHolds, DecodeShapeHolds, ConfirmedPositionHolds, ReportedBeforeScheduledHolds
  <1>q. QED BY <1>1, <1>2, PTL
=============================================================================

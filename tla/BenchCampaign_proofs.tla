------------------------ MODULE BenchCampaign_proofs ------------------------
(***************************************************************************)
(* For every number of prompts, threads, texts and every campaign: the     *)
(* client does what a pass owes (RequestPass), also inside a campaign, no  *)
(* record is mistagged, and the parity covers the ratios.                  *)
(***************************************************************************)
EXTENDS BenchCampaign, FiniteSetTheorems, SequenceTheorems, TLAPS

----------------------------------------------------------------------------
(* The client *)

Places == {"off", "loop", "asking", "holding", "dead", "returned"}

ClientTypeOK ==
  /\ client \in {"idle", "pass", "between", "ended", "crashed"}
  /\ conc \in 1..MaxConc
  /\ thread \in [Workers -> Places]
  /\ prompt \in [Workers -> Prompts \cup {NoPrompt}]
  /\ reply \in [Workers -> Row]

\* The queue holds the last prompts, in order.
Left(n) == [i \in 1..n |-> NumPrompts - n + i]

QueueOK == \E n \in 0..NumPrompts : work = Left(n)

\* The states in which a thread has a request's prompt.
Has(w) == thread[w] \in {"asking", "holding", "dead"}

ThreadOK(w) ==
  /\ IF Has(w) THEN prompt[w] \in Prompts \ Queued ELSE prompt[w] = NoPrompt
  /\ thread[w] = "holding" => reply[w].prompt = prompt[w]
  /\ thread[w] = "returned" => work = <<>>
  /\ client = "pass" => (thread[w] = "off" <=> w > conc)
  /\ client # "pass" => thread[w] = "off"

\* Queue, requests and rows share the prompts out between them.
Apart ==
  /\ \A v, w \in Workers : Has(v) /\ Has(w) /\ v # w => prompt[v] # prompt[w]
  /\ \A r \in out : /\ r.prompt \in Prompts \ Queued
                    /\ \A w \in Workers : prompt[w] # r.prompt

AtRest ==
  /\ client # "pass" => work = PromptOrder /\ out = {}
  /\ client # "between" => returned = {}

ClientInv ==
  /\ ClientTypeOK
  /\ QueueOK
  /\ \A w \in Workers : ThreadOK(w)
  /\ Apart
  /\ AtRest

LEMMA QueuedIs ==
  ASSUME NEW n \in 0..NumPrompts, work = Left(n)
  PROVE  /\ Queued = (NumPrompts - n + 1)..NumPrompts
         /\ Queued \subseteq Prompts
         /\ work = <<>> <=> n = 0
  <1> USE BenchClientAssumption
  <1>1. DOMAIN work = 1..n /\ \A i \in 1..n : work[i] = NumPrompts - n + i
    BY DEF Left
  <1>2. Queued = (NumPrompts - n + 1)..NumPrompts
    <2>1. ASSUME NEW p \in (NumPrompts - n + 1)..NumPrompts PROVE p \in Queued
      <3>1. p - (NumPrompts - n) \in 1..n /\ p = work[p - (NumPrompts - n)]
        BY <1>1
      <3>q. QED BY <1>1, <3>1 DEF Queued
    <2>2. ASSUME NEW p \in Queued PROVE p \in (NumPrompts - n + 1)..NumPrompts
      BY <1>1, <2>2 DEF Queued
    <2>q. QED BY <2>1, <2>2
  <1>3. work = <<>> <=> n = 0
    <2>1. DOMAIN <<>> = {}
      OBVIOUS
    <2>2. n = 0 => work = <<>>
      BY DEF Left
    <2>3. n # 0 => 1 \in DOMAIN work
      BY <1>1
    <2>q. QED BY <2>1, <2>2, <2>3
  <1>q. QED BY <1>2, <1>3 DEF Prompts

\* Taking the first prompt leaves the others.
LEMMA TakeLeaves ==
  ASSUME NEW n \in 1..NumPrompts, work = Left(n)
  PROVE  /\ Head(work) = NumPrompts - n + 1
         /\ Head(work) \in Prompts /\ Head(work) \in Queued
         /\ Tail(work) = Left(n - 1)
         /\ work' = Tail(work) => Queued' = Queued \ {Head(work)}
  <1> USE BenchClientAssumption
  <1>1. work \in Seq(Int) /\ Len(work) = n /\ \A i \in 1..n : work[i] = NumPrompts - n + i
    BY DEF Left
  <1>2. Head(work) = NumPrompts - n + 1
    BY <1>1
  <1>3. Tail(work) = Left(n - 1)
    <2>0. work # <<>>
      BY QueuedIs
    <2>1. /\ Tail(work) \in Seq(Int) /\ Len(Tail(work)) = n - 1
          /\ \A i \in 1..(n - 1) : Tail(work)[i] = work[i + 1]
      BY <1>1, <2>0, HeadTailProperties
    <2>2. Tail(work) = [i \in 1..(n - 1) |-> Tail(work)[i]]
      <3>1. Tail(work) \in [1..(n - 1) -> Int]
        BY <2>1, LenProperties
      <3>q. QED BY <3>1
    <2>3. \A i \in 1..(n - 1) : Tail(work)[i] = NumPrompts - (n - 1) + i
      BY <1>1, <2>1
    <2>q. QED BY <2>2, <2>3 DEF Left
  <1>4. Queued = (NumPrompts - n + 1)..NumPrompts
    BY QueuedIs
  <1>5. ASSUME work' = Tail(work) PROVE Queued' = Queued \ {Head(work)}
    <2>1. DOMAIN work' = 1..(n - 1) /\ \A i \in 1..(n - 1) : work'[i] = NumPrompts - n + 1 + i
      BY <1>3, <1>5 DEF Left
    <2>2. ASSUME NEW p \in (NumPrompts - n + 2)..NumPrompts PROVE p \in Queued'
      <3>1. p - (NumPrompts - n + 1) \in 1..(n - 1) /\ p = work'[p - (NumPrompts - n + 1)]
        BY <2>1
      <3>q. QED BY <2>1, <3>1 DEF Queued
    <2>3. ASSUME NEW p \in Queued' PROVE p \in (NumPrompts - n + 2)..NumPrompts
      BY <2>1, <2>3 DEF Queued
    <2>4. Queued' = (NumPrompts - n + 2)..NumPrompts
      BY <2>2, <2>3
    <2>q. QED BY <1>2, <1>4, <2>4
  <1>q. QED BY <1>2, <1>3, <1>4, <1>5 DEF Prompts

\* The queue of a pass that has not begun holds every prompt.
LEMMA OrderIsAll ==
  /\ PromptOrder = Left(NumPrompts)
  /\ work = PromptOrder => Queued = Prompts
  /\ work' = PromptOrder => Queued' = Prompts
  BY BenchClientAssumption DEF PromptOrder, Left, Queued, Prompts

LEMMA ClientInitInv == ClientInit => ClientInv
  <1> SUFFICES ASSUME ClientInit PROVE ClientInv
    OBVIOUS
  <1> USE DEF ClientInit
  <1>1. ClientTypeOK
    BY DEF ClientTypeOK, Places, Row, NoRow, NoPrompt
  <1>2. QueueOK
    BY OrderIsAll, BenchClientAssumption DEF QueueOK
  <1>3. \A w \in Workers : ThreadOK(w)
    BY DEF ThreadOK, Has
  <1>4. Apart /\ AtRest
    BY DEF Apart, AtRest, Has
  <1>q. QED BY <1>1, <1>2, <1>3, <1>4 DEF ClientInv

\* What run_pass begins and ends with.
LEMMA LocalsInv ==
  ASSUME NEW c \in 0..MaxConc, Locals(c),
         client' \in {"idle", "pass", "between", "ended", "crashed"},
         conc' \in 1..MaxConc,
         client' = "pass" => conc' = c,
         client' # "pass" => c = 0,
         client' # "between" => returned' = {}
  PROVE  ClientInv'
  <1> USE DEF Locals
  <1>1. ClientTypeOK'
    BY DEF ClientTypeOK, Places, Row, NoRow, NoPrompt
  <1>2. QueueOK'
    BY OrderIsAll, BenchClientAssumption DEF QueueOK, Left
  <1>3. ASSUME NEW w \in Workers PROVE ThreadOK(w)'
    BY BenchClientAssumption DEF ThreadOK, Has, Workers
  <1>4. (Apart /\ AtRest)'
    BY DEF Apart, AtRest, Has
  <1>q. QED BY <1>1, <1>2, <1>3, <1>4 DEF ClientInv

LEMMA TakeInv == ASSUME ClientInv, NEW w \in Workers, Take(w) PROVE ClientInv'
  <1> USE DEF Take, AfterTake
  <1>1. PICK n \in 0..NumPrompts : work = Left(n)
    BY DEF ClientInv, QueueOK
  <1>2. n \in 1..NumPrompts
    BY <1>1, QueuedIs, BenchClientAssumption
  <1>3. /\ work' = Left(n - 1)
        /\ Head(work) \in Prompts /\ Head(work) \in Queued
        /\ Queued' = Queued \ {Head(work)}
    BY <1>1, <1>2, TakeLeaves
  <1>4. ClientTypeOK'
    BY <1>3 DEF ClientInv, ClientTypeOK, Places
  <1>5. QueueOK'
    BY <1>2, <1>3, BenchClientAssumption DEF QueueOK
  <1>6. ASSUME NEW v \in Workers PROVE ThreadOK(v)'
    BY <1>3 DEF ClientInv, ClientTypeOK, ThreadOK, Has, Places
  <1>7. ASSUME NEW u \in Workers, NEW v \in Workers, Has(u)', Has(v)', u # v
        PROVE  prompt'[u] # prompt'[v]
    <2>1. \A x \in {u, v} : x # w => Has(x) /\ prompt'[x] = prompt[x] /\ prompt[x] # Head(work)
      BY <1>3, <1>7 DEF ClientInv, ClientTypeOK, ThreadOK, Has
    <2>2. prompt'[w] = Head(work)
      BY DEF ClientInv, ClientTypeOK
    <2>q. QED BY <1>7, <2>1, <2>2 DEF ClientInv, Apart
  <1>8. ASSUME NEW r \in out'
        PROVE  r.prompt \in Prompts \ Queued' /\ \A v \in Workers : prompt'[v] # r.prompt
    BY <1>3 DEF ClientInv, ClientTypeOK, Apart
  <1>9. AtRest'
    BY DEF ClientInv, AtRest
  <1>q. QED BY <1>4, <1>5, <1>6, <1>7, <1>8, <1>9 DEF ClientInv, Apart

\* A thread that asks, answers or ends takes no prompt.
LEMMA QueueStays ==
  ASSUME ClientInv, work' = work
  PROVE  QueueOK' /\ Queued' = Queued
  BY DEF ClientInv, QueueOK, Queued

LEMMA ReturnInv == ASSUME ClientInv, NEW w \in Workers, Return(w) PROVE ClientInv'
  <1> USE DEF Return, RaisesEmpty
  <1>1. QueueOK' /\ Queued' = Queued
    BY QueueStays
  <1>2. ClientTypeOK'
    BY DEF ClientInv, ClientTypeOK, Places
  <1>3. \A v \in Workers : Has(v)' <=> Has(v)
    BY DEF ClientInv, ClientTypeOK, Has
  <1>4. ASSUME NEW v \in Workers PROVE ThreadOK(v)'
    BY <1>1, <1>3 DEF ClientInv, ClientTypeOK, ThreadOK, Has
  <1>5. (Apart /\ AtRest)'
    BY <1>1, <1>3 DEF ClientInv, Apart, AtRest
  <1>q. QED BY <1>1, <1>2, <1>4, <1>5 DEF ClientInv

LEMMA AnswerInv ==
  ASSUME ClientInv, NEW w \in Workers, NEW row \in Row, Answer(w, row) PROVE ClientInv'
  <1> USE DEF Answer
  <1>1. QueueOK' /\ Queued' = Queued
    BY QueueStays
  <1>2. ClientTypeOK'
    <2>1. [row EXCEPT !.prompt = prompt[w]] \in Row
      BY DEF ClientInv, ClientTypeOK, Row
    <2>q. QED BY <2>1 DEF ClientInv, ClientTypeOK, Places
  <1>3. \A v \in Workers : Has(v)' <=> Has(v)
    BY DEF ClientInv, ClientTypeOK, Has
  <1>4. reply'[w].prompt = prompt[w]
    BY DEF ClientInv, ClientTypeOK, Row
  <1>5. ASSUME NEW v \in Workers PROVE ThreadOK(v)'
    BY <1>1, <1>3, <1>4 DEF ClientInv, ClientTypeOK, ThreadOK, Has
  <1>6. (Apart /\ AtRest)'
    BY <1>1, <1>3 DEF ClientInv, Apart, AtRest
  <1>q. QED BY <1>1, <1>2, <1>5, <1>6 DEF ClientInv

LEMMA AppendRowInv == ASSUME ClientInv, NEW w \in Workers, AppendRow(w) PROVE ClientInv'
  <1> USE DEF AppendRow
  <1>1. QueueOK' /\ Queued' = Queued
    BY QueueStays
  <1>2. ClientTypeOK'
    BY DEF ClientInv, ClientTypeOK, Places, Row, NoRow, NoPrompt
  <1>3. reply[w].prompt = prompt[w] /\ prompt[w] \in Prompts \ Queued
    BY DEF ClientInv, ThreadOK, Has
  <1>4. \A v \in Workers : IF v = w THEN ~Has(v)' ELSE (Has(v)' <=> Has(v))
    BY DEF ClientInv, ClientTypeOK, Has
  <1>5. ASSUME NEW v \in Workers PROVE ThreadOK(v)'
    BY <1>1, <1>4 DEF ClientInv, ClientTypeOK, ThreadOK, Has
  <1>6. \A v \in Workers : v # w => prompt'[v] = prompt[v] /\ prompt[v] # prompt[w]
    <2>1. Has(w)
      BY DEF Has
    <2>q. QED BY <1>3, <2>1, BenchClientAssumption
             DEF ClientInv, ClientTypeOK, ThreadOK, Apart, Prompts, NoPrompt
  <1>7. ASSUME NEW r \in out'
        PROVE  r.prompt \in Prompts \ Queued' /\ \A v \in Workers : prompt'[v] # r.prompt
    <2>1. prompt'[w] = NoPrompt
      BY DEF ClientInv, ClientTypeOK
    <2>2. NoPrompt \notin Prompts
      BY BenchClientAssumption DEF Prompts, NoPrompt
    <2>q. QED BY <1>1, <1>3, <1>6, <2>1, <2>2 DEF ClientInv, Apart
  <1>8. Apart'
    BY <1>4, <1>6, <1>7 DEF ClientInv, Apart
  <1>9. AtRest'
    BY DEF ClientInv, AtRest
  <1>q. QED BY <1>1, <1>2, <1>5, <1>8, <1>9 DEF ClientInv

LEMMA RaiseInv == ASSUME ClientInv, NEW w \in Workers, Raise(w) PROVE ClientInv'
  <1> USE DEF Raise
  <1>1. CASE conc = 1
    BY <1>1, LocalsInv, BenchClientAssumption DEF ClientInv, ClientTypeOK, AtRest
  <1>2. CASE conc # 1
    <2> USE <1>2
    <2>1. QueueOK' /\ Queued' = Queued
      BY QueueStays
    <2>2. ClientTypeOK'
      BY DEF ClientInv, ClientTypeOK, Places
    <2>3. \A v \in Workers : Has(v)' <=> Has(v)
      BY DEF ClientInv, ClientTypeOK, Has
    <2>4. ASSUME NEW v \in Workers PROVE ThreadOK(v)'
      BY <2>1, <2>3 DEF ClientInv, ClientTypeOK, ThreadOK, Has
    <2>5. (Apart /\ AtRest)'
      BY <2>1, <2>3 DEF ClientInv, Apart, AtRest
    <2>q. QED BY <2>1, <2>2, <2>4, <2>5 DEF ClientInv
  <1>q. QED BY <1>1, <1>2

LEMMA ClientNextInv == ASSUME ClientInv, [ClientNext]_clientVars PROVE ClientInv'
  <1>1. ASSUME NEW c \in 1..MaxConc, Start(c) PROVE ClientInv'
    BY <1>1, LocalsInv, BenchClientAssumption DEF Start, ClientInv, AtRest
  <1>2. ASSUME NEW spec, FinishPass(spec) PROVE ClientInv'
    BY <1>2, LocalsInv, BenchClientAssumption DEF FinishPass, ClientInv, ClientTypeOK
  <1>3. CASE NextPass
    BY <1>3, LocalsInv, BenchClientAssumption DEF NextPass, ClientInv, ClientTypeOK
  <1>4. CASE Exit
    <2> USE <1>4 DEF Exit, passVars
    <2>1. QueueOK' /\ Queued' = Queued
      BY QueueStays
    <2>2. ClientTypeOK'
      BY DEF ClientInv, ClientTypeOK
    <2>3. \A w \in Workers : ThreadOK(w)'
      BY <2>1 DEF ClientInv, ThreadOK, Has
    <2>4. (Apart /\ AtRest)'
      BY <2>1 DEF ClientInv, Apart, AtRest, Has
    <2>q. QED BY <2>1, <2>2, <2>3, <2>4 DEF ClientInv
  <1>5. ASSUME NEW w \in Workers, Take(w) \/ Return(w) \/ AppendRow(w) \/ Raise(w)
        PROVE  ClientInv'
    BY <1>5, TakeInv, ReturnInv, AppendRowInv, RaiseInv
  <1>6. ASSUME NEW w \in Workers, NEW row \in Row, Answer(w, row) PROVE ClientInv'
    BY <1>6, AnswerInv
  <1>7. CASE UNCHANGED clientVars
    BY <1>7 DEF clientVars, passVars, ClientInv, ClientTypeOK, QueueOK, ThreadOK, Has, Queued,
                Apart, AtRest
  <1>q. QED BY <1>1, <1>2, <1>3, <1>4, <1>5, <1>6, <1>7 DEF ClientNext

----------------------------------------------------------------------------
(* What a pass owes *)

Issued(p)   == \E w \in Workers : prompt[w] = p /\ thread[w] \in {"asking", "holding"}
Lost(p)     == \E w \in Workers : prompt[w] = p /\ thread[w] = "dead"
Answered(p) == \E r \in out : r.prompt = p

\* The four classes of prompts exclude each other.
Fates ==
  \A p \in Prompts :
    /\ Fate(p) \in {"todo", "issued", "lost", "answered", "vanished"}
    /\ Fate(p) = "todo" <=> p \in Queued
    /\ Fate(p) = "issued" <=> Issued(p)
    /\ Fate(p) = "lost" <=> Lost(p)
    /\ Fate(p) = "answered" <=> Answered(p)

\* RequestPass counts with the same operator.
LEMMA SameCount == \A S : Pass!Cardinality(S) = Cardinality(S)
  BY DEF Cardinality, Pass!Cardinality

LEMMA FatesHold == ClientInv => Fates
  <1> SUFFICES ASSUME ClientInv, NEW p \in Prompts
               PROVE  /\ Fate(p) \in {"todo", "issued", "lost", "answered", "vanished"}
                      /\ Fate(p) = "todo" <=> p \in Queued
                      /\ Fate(p) = "issued" <=> Issued(p)
                      /\ Fate(p) = "lost" <=> Lost(p)
                      /\ Fate(p) = "answered" <=> Answered(p)
    BY DEF Fates
  <1>1. ASSUME NEW w \in Workers, prompt[w] = p PROVE Has(w) /\ p \notin Queued /\ ~Answered(p)
    BY <1>1, BenchClientAssumption
       DEF ClientInv, ThreadOK, Apart, Answered, Prompts, NoPrompt
  <1>2. ~(Issued(p) /\ Lost(p))
    BY <1>1 DEF ClientInv, Apart, Issued, Lost
  <1>3. Answered(p) => p \notin Queued
    BY DEF ClientInv, Apart, Answered
  <1>4. /\ Issued(p) \/ Lost(p) => p \notin Queued /\ ~Answered(p)
    BY <1>1 DEF Issued, Lost
  <1>q. QED BY <1>2, <1>3, <1>4 DEF Fate, Issued, Lost, Answered

\* A prompt that stays in its class keeps its fate.
LEMMA SameFate ==
  ASSUME Fates, Fates', NEW p \in Prompts,
         (p \in Queued)' <=> p \in Queued,
         Issued(p)' <=> Issued(p), Lost(p)' <=> Lost(p), Answered(p)' <=> Answered(p)
  PROVE  Fate(p)' = Fate(p)
  BY DEF Fates

\* One prompt changes its fate in a pass that goes on.
LEMMA FateChanges ==
  ASSUME NEW p \in Prompts, NEW from, NEW to,
         client = "pass", client' = "pass", conc' = conc, returned' = returned,
         Fate(p) = from, Fate(p)' = to,
         \A q \in Prompts : q # p => Fate(q)' = Fate(q)
  PROVE  Pass!Becomes(p, from, to)
  <1> DEFINE now == [q \in Prompts |-> Fate(q)]
             next == [q \in Prompts |-> Fate(q)']
  <1>1. next = [now EXCEPT ![p] = to]
    OBVIOUS
  <1>2. now[p] = from
    OBVIOUS
  <1>q. QED BY <1>1, <1>2 DEF Pass!Becomes

\* Fewer requests are out than the pass keeps while a thread looks for a prompt.
LEMMA RoomForOne ==
  ASSUME ClientInv, Fates, client = "pass", NEW w \in Workers, thread[w] = "loop"
  PROVE  Cardinality(Pass!With("issued")) < conc
  <1> DEFINE out1 == (1..conc) \ {w}
             asked == {prompt[v] : v \in out1}
  <1>1. conc \in Nat /\ w \in 1..conc
    BY BenchClientAssumption DEF ClientInv, ClientTypeOK, ThreadOK, Workers
  <1>2. IsFiniteSet(1..conc) /\ Cardinality(1..conc) = conc
    BY <1>1, FS_Interval
  <1>3. IsFiniteSet(out1) /\ Cardinality(out1) = conc - 1
    BY <1>1, <1>2, FS_RemoveElement
  <1>4. IsFiniteSet(asked) /\ Cardinality(asked) <= Cardinality(out1)
    <2>1. [v \in out1 |-> prompt[v]] \in Surjection(out1, asked)
      BY DEF Surjection
    <2>q. QED BY <1>3, <2>1, FS_Surjection
  <1>5. Pass!With("issued") \subseteq asked
    <2>1. ASSUME NEW p \in Pass!With("issued") PROVE p \in asked
      <3>1. p \in Prompts /\ Fate(p) = "issued"
        BY <2>1 DEF Pass!With, Pass!Prompts, Prompts
      <3>2. PICK v \in Workers : prompt[v] = p /\ thread[v] \in {"asking", "holding"}
        BY <3>1 DEF Fates, Issued
      <3>3. v \in out1
        BY <1>1, <3>2 DEF ClientInv, ClientTypeOK, ThreadOK, Workers
      <3>q. QED BY <3>2, <3>3
    <2>q. QED BY <2>1
  <1>6. /\ IsFiniteSet(Pass!With("issued"))
        /\ Cardinality(Pass!With("issued")) <= Cardinality(asked)
    BY <1>4, <1>5, FS_Subset
  <1>q. QED BY <1>1, <1>3, <1>4, <1>6, FS_CardinalityType

\* Prompts are left over only if every thread has died.
LEMMA LeftOverMeansLost ==
  ASSUME ClientInv, Fates, client = "pass", Joined, Pass!With("todo") # {}
  PROVE  Cardinality(Pass!With("lost")) >= conc
  <1> DEFINE lost == Pass!With("lost")
             holder == [w \in 1..conc |-> prompt[w]]
  <1>1. conc \in Nat /\ conc <= MaxConc
    BY BenchClientAssumption DEF ClientInv, ClientTypeOK
  <1>2. work # <<>>
    <2>1. PICK p \in Prompts : Fate(p) = "todo"
      BY DEF Pass!With, Pass!Prompts, Prompts
    <2>q. QED BY <2>1 DEF Fates, Queued
  <1>3. \A w \in 1..conc : w \in Workers /\ thread[w] = "dead" /\ prompt[w] \in Prompts
    BY <1>1, <1>2, BenchClientAssumption
       DEF ClientInv, ClientTypeOK, ThreadOK, Has, Joined, Running, Places, Workers
  <1>4. holder \in Injection(1..conc, lost)
    <2>1. \A w \in 1..conc : prompt[w] \in lost
      BY <1>3 DEF Fates, Lost, Pass!With, Pass!Prompts, Prompts
    <2>2. \A v, w \in 1..conc : v # w => prompt[v] # prompt[w]
      BY <1>3 DEF ClientInv, Apart, Has
    <2>q. QED BY <2>1, <2>2 DEF Injection, IsInjective
  <1>5. IsFiniteSet(lost)
    <2>1. lost \subseteq 1..NumPrompts
      BY DEF Pass!With, Pass!Prompts
    <2>2. IsFiniteSet(1..NumPrompts)
      BY BenchClientAssumption, FS_Interval
    <2>q. QED BY <2>1, <2>2, FS_Subset
  <1>6. Cardinality(1..conc) <= Cardinality(lost)
    BY <1>4, <1>5, FS_Injection
  <1>7. Cardinality(1..conc) = conc
    BY <1>1, FS_Interval
  <1>q. QED BY <1>6, <1>7

\* Before and after a pass nothing has been sent.
LEMMA AllToDo ==
  ASSUME Fates, work = PromptOrder PROVE \A p \in Prompts : Fate(p) = "todo"
  BY OrderIsAll DEF Fates

LEMMA AllToDoNext ==
  ASSUME Fates', work' = PromptOrder PROVE \A p \in Prompts : Fate(p)' = "todo"
  BY OrderIsAll DEF Fates

\* A step that changes no fate and none of the rest is no step of the pass.
LEMMA NoPassStep ==
  ASSUME client' = client \/ (client # "pass" /\ client' # "pass"),
         conc' = conc, returned' = returned,
         \A q \in Prompts : Fate(q)' = Fate(q)
  PROVE  UNCHANGED Pass!vars
  <1>1. (client = "pass")' <=> client = "pass"
    OBVIOUS
  <1>2. [q \in Prompts |-> Fate(q)]' = [q \in Prompts |-> Fate(q)]
    OBVIOUS
  <1>q. QED BY <1>1, <1>2 DEF Pass!vars

LEMMA TakeIssues ==
  ASSUME ClientInv, Fates, Fates', NEW w \in Workers, Take(w)
  PROVE  \E p \in Prompts : Pass!Issue(p)
  <1> USE DEF Take, AfterTake
  <1>1. PICK n \in 0..NumPrompts : work = Left(n)
    BY DEF ClientInv, QueueOK
  <1>2. n \in 1..NumPrompts
    BY <1>1, QueuedIs, BenchClientAssumption
  <1>3. PICK p \in Prompts : p = Head(work) /\ p \in Queued /\ Queued' = Queued \ {p}
    BY <1>1, <1>2, TakeLeaves
  <1>4. prompt'[w] = p /\ thread'[w] = "asking" /\ prompt[w] = NoPrompt /\ thread[w] = "loop"
    BY <1>3 DEF ClientInv, ClientTypeOK, ThreadOK, Has
  <1>5. \A v \in Workers : v # w => prompt'[v] = prompt[v] /\ thread'[v] = thread[v]
    BY DEF ClientInv, ClientTypeOK
  <1>6. Fate(p) = "todo" /\ Fate(p)' = "issued"
    BY <1>3, <1>4 DEF Fates, Issued
  <1>7. ASSUME NEW q \in Prompts, q # p PROVE Fate(q)' = Fate(q)
    <2>1. q # NoPrompt
      BY BenchClientAssumption DEF Prompts, NoPrompt
    <2>2. \A v \in Workers : prompt'[v] = q \/ prompt[v] = q => v # w
      BY <1>4, <1>7, <2>1
    <2>3. (q \in Queued)' <=> q \in Queued
      BY <1>3, <1>7
    <2>4. (Issued(q)' <=> Issued(q)) /\ (Lost(q)' <=> Lost(q))
      BY <1>5, <2>2 DEF Issued, Lost
    <2>5. Answered(q)' <=> Answered(q)
      BY DEF Answered
    <2>q. QED BY <2>3, <2>4, <2>5, SameFate
  <1>8. Pass!Becomes(p, "todo", "issued")
    BY <1>3, <1>6, <1>7, FateChanges
  <1>9. Cardinality(Pass!With("issued")) < conc
    BY RoomForOne
  <1>q. QED BY <1>3, <1>8, <1>9, SameCount DEF Pass!Issue

\* The thread that appends, or dies, settles its own prompt.
LEMMA AppendAnswers ==
  ASSUME ClientInv, ClientInv', Fates, Fates', NEW w \in Workers, AppendRow(w)
  PROVE  \E p \in Prompts : Pass!Answer(p)
  <1> USE DEF AppendRow
  <1>1. PICK p \in Prompts : p = prompt[w] /\ reply[w].prompt = p /\ thread[w] = "holding"
    BY DEF ClientInv, ThreadOK, Has
  <1>2. Fate(p) = "issued"
    BY <1>1 DEF Fates, Issued
  <1>3. Fate(p)' = "answered"
    BY <1>1 DEF Fates, Answered
  <1>4. ASSUME NEW q \in Prompts, q # p PROVE Fate(q)' = Fate(q)
    <2>1. q # NoPrompt
      BY BenchClientAssumption DEF Prompts, NoPrompt
    <2>2. \A v \in Workers : prompt'[v] = q \/ prompt[v] = q =>
            v # w /\ prompt'[v] = prompt[v] /\ thread'[v] = thread[v]
      BY <1>1, <1>4, <2>1 DEF ClientInv, ClientTypeOK
    <2>3. (Issued(q)' <=> Issued(q)) /\ (Lost(q)' <=> Lost(q))
      BY <2>2 DEF Issued, Lost
    <2>4. Answered(q)' <=> Answered(q)
      BY <1>1, <1>4 DEF Answered
    <2>5. (q \in Queued)' <=> q \in Queued
      BY QueueStays
    <2>q. QED BY <2>3, <2>4, <2>5, SameFate
  <1>5. Pass!Becomes(p, "issued", "answered")
    BY <1>1, <1>2, <1>3, <1>4, FateChanges
  <1>q. QED BY <1>1, <1>5 DEF Pass!Answer

LEMMA RaiseLoses ==
  ASSUME ClientInv, Fates, Fates', NEW w \in Workers, Raise(w)
  PROVE  \E p \in Prompts : Pass!Lose(p) \/ Pass!Abandon(p)
  <1> USE DEF Raise
  <1>1. PICK p \in Prompts : p = prompt[w] /\ thread[w] = "asking"
    BY DEF ClientInv, ThreadOK, Has
  <1>2. Fate(p) = "issued"
    BY <1>1 DEF Fates, Issued
  <1>3. CASE conc = 1
    <2>1. \A q \in Prompts : Fate(q)' = "todo"
      BY <1>3, AllToDoNext DEF Locals
    <2>2. [q \in Prompts |-> Fate(q)]' = [q \in Prompts |-> "todo"]
      BY <2>1
    <2>3. [q \in Prompts |-> Fate(q)][p] = "issued"
      BY <1>1, <1>2
    <2>4. (client = "pass")' = FALSE
      BY <1>3
    <2>5. Pass!Abandon(p)
      BY <1>3, <2>2, <2>3, <2>4 DEF Pass!Abandon, Pass!Prompts, Prompts
    <2>q. QED BY <1>1, <2>5
  <1>4. CASE conc # 1
    <2> USE <1>4
    <2>1. thread'[w] = "dead" /\ \A v \in Workers : v # w => thread'[v] = thread[v]
      BY DEF ClientInv, ClientTypeOK
    <2>2. Fate(p)' = "lost"
      BY <1>1, <2>1 DEF Fates, Lost
    <2>3. ASSUME NEW q \in Prompts, q # p PROVE Fate(q)' = Fate(q)
      <3>1. (Issued(q)' <=> Issued(q)) /\ (Lost(q)' <=> Lost(q))
        BY <1>1, <2>1, <2>3 DEF Issued, Lost
      <3>2. (q \in Queued)' <=> q \in Queued
        BY QueueStays
      <3>3. Answered(q)' <=> Answered(q)
        BY DEF Answered
      <3>q. QED BY <3>1, <3>2, <3>3, SameFate
    <2>4. Pass!Becomes(p, "issued", "lost")
      BY <1>1, <1>2, <2>2, <2>3, FateChanges
    <2>q. QED BY <1>1, <2>4 DEF Pass!Lose
  <1>q. QED BY <1>3, <1>4

\* The rows run_pass returns are those of the prompts that were answered.
LEMMA FinishCloses ==
  ASSUME ClientInv, Fates, Fates', NEW spec, FinishPass(spec) PROVE Pass!Close
  <1> USE DEF FinishPass
  <1>1. Pass!With("issued") = {}
    BY DEF Fates, Issued, Joined, Running, Pass!With, Pass!Prompts, Prompts
  <1>2. Pass!With("todo") # {} => Cardinality(Pass!With("lost")) >= conc
    BY LeftOverMeansLost
  <1>3. returned' = Pass!With("answered")
    <2>1. \A r \in out : r.prompt \in Prompts
      BY DEF ClientInv, Apart
    <2>2. \A p \in Prompts : Fate(p) = "answered" <=> \E r \in out : r.prompt = p
      BY DEF Fates, Answered
    <2>3. Pass!With("answered") = {p \in Prompts : Fate(p) = "answered"}
      BY DEF Pass!With, Pass!Prompts, Prompts
    <2>q. QED BY <2>1, <2>2, <2>3
  <1>4. [q \in Prompts |-> Fate(q)]' = [q \in Prompts |-> "todo"]
    BY AllToDoNext DEF Locals
  <1>5. (client = "pass")' = FALSE
    OBVIOUS
  <1>q. QED BY <1>1, <1>2, <1>3, <1>4, <1>5, SameCount DEF Pass!Close, Pass!Prompts, Prompts

\* A thread that answers or returns leaves every prompt where it is.
LEMMA ThreadStutters ==
  ASSUME ClientInv, Fates, Fates', NEW w \in Workers,
         Return(w) \/ \E row \in Row : Answer(w, row)
  PROVE  UNCHANGED Pass!vars
  <1>1. /\ client' = client /\ conc' = conc /\ returned' = returned
        /\ work' = work /\ out' = out /\ prompt' = prompt
    BY DEF Return, Answer
  <1>2. \A v \in Workers :
          /\ thread'[v] \in {"asking", "holding"} <=> thread[v] \in {"asking", "holding"}
          /\ thread'[v] = "dead" <=> thread[v] = "dead"
    BY DEF Return, Answer, ClientInv, ClientTypeOK
  <1>3. ASSUME NEW q \in Prompts PROVE Fate(q)' = Fate(q)
    <2>1. (Issued(q)' <=> Issued(q)) /\ (Lost(q)' <=> Lost(q))
      BY <1>1, <1>2 DEF Issued, Lost
    <2>2. (q \in Queued)' <=> q \in Queued
      BY <1>1, QueueStays
    <2>3. Answered(q)' <=> Answered(q)
      BY <1>1 DEF Answered
    <2>q. QED BY <2>1, <2>2, <2>3, SameFate
  <1>q. QED BY <1>1, <1>3, NoPassStep

\* Every step of the client is one of the pass, or leaves it alone.
LEMMA ClientStepPasses ==
  ASSUME ClientInv, ClientInv', Fates, Fates', [ClientNext]_clientVars
  PROVE  [Pass!Next]_(Pass!vars)
  <1> SUFFICES ASSUME ~UNCHANGED Pass!vars PROVE Pass!Next
    OBVIOUS
  <1>1. ASSUME NEW c \in 1..MaxConc, Start(c) PROVE Pass!Next
    <2> USE <1>1 DEF Start
    <2>1. \A q \in Prompts : Fate(q)' = Fate(q)
      BY AllToDo, AllToDoNext DEF ClientInv, AtRest, Locals
    <2>2. [q \in Prompts |-> Fate(q)]' = [q \in Prompts |-> Fate(q)]
      BY <2>1
    <2>3. returned' = {}
      BY DEF ClientInv, AtRest
    <2>4. (client = "pass")' = TRUE /\ (client = "pass") = FALSE
      OBVIOUS
    <2>q. QED BY <2>2, <2>3, <2>4 DEF Pass!Next, Pass!Begin
  <1>2. ASSUME NEW spec, FinishPass(spec) PROVE Pass!Next
    BY <1>2, FinishCloses DEF Pass!Next
  <1>3. CASE NextPass
    <2> USE <1>3 DEF NextPass
    <2>1. \A q \in Prompts : Fate(q)' = Fate(q)
      BY AllToDo, AllToDoNext DEF ClientInv, AtRest, Locals
    <2>2. [q \in Prompts |-> Fate(q)]' = [q \in Prompts |-> Fate(q)]
      BY <2>1
    <2>3. conc' \in 1..MaxConc
      BY DEF ClientInv, ClientTypeOK
    <2>4. (client = "pass")' = TRUE /\ (client = "pass") = FALSE
      OBVIOUS
    <2>q. QED BY <2>2, <2>3, <2>4 DEF Pass!Next, Pass!Begin
  <1>4. CASE Exit
    <2> USE <1>4 DEF Exit, passVars
    <2>1. \A q \in Prompts : Fate(q)' = Fate(q)
      BY AllToDo, AllToDoNext DEF ClientInv, AtRest
    <2>2. [q \in Prompts |-> Fate(q)]' = [q \in Prompts |-> Fate(q)]
      BY <2>1
    <2>3. (client = "pass")' = FALSE /\ (client = "pass") = FALSE
      OBVIOUS
    <2>q. QED BY <2>2, <2>3 DEF Pass!Next, Pass!Use
  <1>5. ASSUME NEW w \in Workers, Take(w) PROVE Pass!Next
    BY <1>5, TakeIssues DEF Pass!Next, Pass!Prompts, Prompts
  <1>6. ASSUME NEW w \in Workers, AppendRow(w) PROVE Pass!Next
    BY <1>6, AppendAnswers DEF Pass!Next, Pass!Prompts, Prompts
  <1>7. ASSUME NEW w \in Workers, Raise(w) PROVE Pass!Next
    BY <1>7, RaiseLoses DEF Pass!Next, Pass!Prompts, Prompts
  <1>8. ASSUME NEW w \in Workers, Return(w) \/ \E row \in Row : Answer(w, row)
        PROVE  Pass!Next
    BY <1>8, ThreadStutters
  <1>9. CASE UNCHANGED clientVars
    <2> USE <1>9 DEF clientVars, passVars
    <2>1. \A q \in Prompts : Fate(q)' = Fate(q)
      BY QueueStays, SameFate DEF Issued, Lost, Answered
    <2>q. QED BY <2>1, NoPassStep
  <1>q. QED
    BY <1>1, <1>2, <1>3, <1>4, <1>5, <1>6, <1>7, <1>8, <1>9 DEF ClientNext

LEMMA ClientInitPasses == ASSUME ClientInit PROVE Pass!Init
  <1>1. \A p \in Prompts : Fate(p) = "todo"
    BY ClientInitInv, FatesHold, AllToDo DEF ClientInit
  <1>2. (client = "pass") = FALSE
    BY DEF ClientInit
  <1>q. QED BY <1>1, <1>2 DEF Pass!Init, Pass!Prompts, Prompts, ClientInit

\* The client of bench_client.py, with as many threads and prompts as one likes and
\* whatever the servers do, sends each prompt at most once, keeps the row of each
\* answer, and leaves a prompt only when every thread has died.
THEOREM ClientRefinesPass == ClientSpec => RefinesPass
  <1>1. ClientInv /\ [ClientNext]_clientVars => ClientInv'
    BY ClientNextInv
  <1>2. ClientInv /\ ClientInv' /\ Fates /\ Fates' /\ [ClientNext]_clientVars
          => [Pass!Next]_(Pass!vars)
    BY ClientStepPasses
  <1>q. QED
    BY <1>1, <1>2, ClientInitInv, ClientInitPasses, FatesHold, PTL
       DEF ClientSpec, RefinesPass, Pass!Spec

----------------------------------------------------------------------------
(* The campaign *)

Kinds == {"no", "yes"}

ScriptOK ==
  /\ knobs \in Knobs
  /\ step \in {"launch", "poll", "bench", "wait", "over"}
  /\ config \in 1..Len(knobs.order)
  /\ sweep \in Nat \ {0}

\* A client runs only while the script waits for it, and what has the port then is
\* the server of the configuration the script is at.
Measured ==
  /\ client \in {"pass", "between"} => step = "wait"
  /\ step \in {"poll", "bench", "wait"} => server.spec = Spec
  /\ server \in [spec : Kinds \cup {"none"}, api : {"dead", "loading", "up", "zombie"}]

\* Rows under way are of that server as well.
RowsTagged ==
  /\ client = "pass" =>
       /\ \A row \in out : row.spec = Spec
       /\ \A w \in Workers : thread[w] = "holding" => reply[w].spec = Spec

\* The verdict was reached on the file as it is.
Judged == verdict = "OK" => step = "over" /\ printed = Ratios /\ Mismatches = {}

CampaignInv == ClientInv /\ ScriptOK /\ Measured /\ RowsTagged /\ TagsTrue /\ Judged

LEMMA SpecIsKind == ASSUME ScriptOK PROVE Spec \in Kinds
  <1>1. knobs.order \in Seq(Kinds)
    BY BenchCampaignAssumption DEF ScriptOK, Kinds
  <1>2. \A i \in 1..Len(knobs.order) : knobs.order[i] \in Kinds
    BY <1>1
  <1>q. QED BY <1>2 DEF ScriptOK, Spec

LEMMA AnswersAreRows ==
  ASSUME Measured, NEW w \in Workers, NEW row \in Answers(w)
  PROVE  row \in Row /\ row.spec = server.spec
  <1>1. server.spec \in {"no", "yes", "none"}
    BY DEF Measured, Kinds
  <1>3. \A tpot \in {"none", "some"}, x \in Texts \cup {"none"} :
          AnswerRow(tpot, x) \in Row /\ AnswerRow(tpot, x).spec = server.spec
    BY <1>1 DEF AnswerRow, Row, NoPrompt
  <1>q. QED BY <1>3 DEF Answers

\* The campaign moves its client as the client moves, or not at all.
LEMMA CampaignStepIsClients ==
  ASSUME ScriptOK, Measured, [Next]_vars PROVE [ClientNext]_clientVars
  <1>1. CASE RunClient
    <2>1. knobs.concs \in Seq(1..MaxConc)
      BY BenchCampaignAssumption DEF ScriptOK
    <2>2. sweep \in 1..Len(knobs.concs)
      BY <1>1, <2>1, LenProperties DEF RunClient, ScriptOK
    <2>3. knobs.concs[sweep] \in 1..MaxConc
      BY <2>1, <2>2, ElementOfSeq
    <2>q. QED BY <1>1, <2>3 DEF RunClient, ClientNext
  <1>2. ASSUME NEW w \in Workers, Worker(w) PROVE ClientNext
    BY <1>2 DEF Worker, Works, ClientOf, ClientNext
  <1>3. ASSUME NEW w \in Workers, Request(w) PROVE ClientNext
    <2>1. CASE ClientOf(Raise(w))
      BY <2>1 DEF ClientOf, ClientNext
    <2>2. CASE ClientOf(Served(w))
      <3>1. PICK row \in Answers(w) : Answer(w, row)
        BY <2>2 DEF ClientOf, Served
      <3>q. QED BY <3>1, AnswersAreRows DEF ClientNext
    <2>q. QED BY <1>3, <2>1, <2>2 DEF Request
  <1>4. CASE Main
    BY <1>4, SpecIsKind DEF Main, Works, ClientOf, ClientNext, Kinds
  <1>5. CASE Launch \/ Poll \/ ClientExits \/ Swept \/ ServerUp \/ ServerDies \/ EngineDies \/ Report
    BY <1>5 DEF Launch, Poll, ClientExits, Swept, ServerUp, ServerDies, EngineDies, Report
  <1>6. CASE UNCHANGED vars
    BY <1>6 DEF vars
  <1>q. QED BY <1>1, <1>2, <1>3, <1>4, <1>5, <1>6 DEF Next

LEMMA CampaignInitInv == Init => CampaignInv
  <1> SUFFICES ASSUME Init PROVE CampaignInv
    OBVIOUS
  <1> USE DEF Init, ClientInit
  <1>1. ClientInv
    BY ClientInitInv
  <1>2. ScriptOK
    <2>1. knobs.order \in Seq({"no", "yes"}) /\ knobs.order # <<>>
      BY BenchCampaignAssumption
    <2>2. Len(knobs.order) \in Nat \ {0}
      BY <2>1, EmptySeq
    <2>q. QED BY <2>2 DEF ScriptOK
  <1>3. Measured /\ RowsTagged /\ TagsTrue /\ Judged
    BY DEF Measured, RowsTagged, TagsTrue, Judged, Kinds
  <1>q. QED BY <1>1, <1>2, <1>3 DEF CampaignInv

LEMMA NextServerOK ==
  ASSUME ScriptOK, NextServer, knobs' = knobs
  PROVE  config' \in 1..Len(knobs'.order) /\ step' \in {"launch", "over"}
  <1>1. Len(knobs.order) \in Nat
    BY BenchCampaignAssumption DEF ScriptOK
  <1>q. QED BY <1>1 DEF NextServer, ScriptOK

\* A step of the script that leaves the client alone.
LEMMA ScriptStepInv ==
  ASSUME CampaignInv, UNCHANGED clientVars,
         \/ Launch \/ Poll \/ ClientExits \/ Swept
         \/ ServerUp \/ ServerDies \/ EngineDies \/ Report
  PROVE  (ScriptOK /\ Measured /\ RowsTagged /\ TagsTrue /\ Judged)'
  <1> USE DEF CampaignInv, clientVars, passVars, scriptVars, serverVars, reportVars
  <1>1. ScriptOK'
    BY NextServerOK DEF ScriptOK, Launch, Poll, ClientExits, Swept, ServerUp, ServerDies,
                        EngineDies, Report
  <1>2. Measured'
    <2>1. CASE Launch
      BY <2>1, SpecIsKind DEF Launch, AfterKill, Measured, Spec
    <2>2. CASE Poll
      BY <2>2, NextServerOK DEF Poll, Measured, Spec
    <2>3. CASE ClientExits
      BY <2>3 DEF ClientExits, Measured, Spec
    <2>4. CASE Swept
      BY <2>4, NextServerOK DEF Swept, Measured, Spec
    <2>5. CASE ServerUp \/ ServerDies \/ EngineDies
      BY <2>5 DEF ServerUp, ServerDies, EngineDies, Measured, Spec
    <2>6. CASE Report
      BY <2>6 DEF Report, Measured, Spec
    <2>q. QED BY <2>1, <2>2, <2>3, <2>4, <2>5, <2>6
  <1>3. RowsTagged'
    <2>1. client = "pass" => step = "wait"
      BY DEF Measured
    <2>2. client = "pass" => Spec' = Spec
      BY <2>1 DEF Launch, Poll, ClientExits, Swept, ServerUp, ServerDies, EngineDies, Report, Spec
    <2>q. QED BY <2>2 DEF RowsTagged
  <1>4. TagsTrue'
    BY DEF TagsTrue
  <1>5. Judged'
    <2>1. CASE Report
      <3>1. Ratios' = Ratios /\ Mismatches' = Mismatches
        BY DEF Ratios, Mismatches, TextsKept, TextsOf, Cell
      <3>q. QED BY <2>1, <3>1 DEF Judged, Report
    <2>2. CASE ~Report
      <3>1. verdict' = verdict /\ printed' = printed /\ (step = "over" => step' = "over")
        BY <2>2 DEF Launch, Poll, ClientExits, Swept, ServerUp, ServerDies, EngineDies
      <3>2. Ratios' = Ratios /\ Mismatches' = Mismatches
        BY DEF Ratios, Mismatches, TextsKept, TextsOf, Cell
      <3>q. QED BY <3>1, <3>2 DEF Judged
    <2>q. QED BY <2>1, <2>2
  <1>q. QED BY <1>1, <1>2, <1>3, <1>4, <1>5

\* A step of the client, which leaves script and server alone.
LEMMA WorkStepInv ==
  ASSUME CampaignInv, UNCHANGED <<scriptVars, server, reportVars>>, NEW w \in Workers,
         \/ Take(w) \/ Return(w) \/ AppendRow(w) \/ Raise(w)
         \/ \E row \in Answers(w) : Answer(w, row)
  PROVE  (ScriptOK /\ Measured /\ RowsTagged /\ TagsTrue /\ Judged)'
  <1> USE DEF CampaignInv, scriptVars, reportVars
  <1>1. client = "pass" /\ step = "wait" /\ Spec' = Spec /\ server.spec = Spec
    BY DEF Take, Return, AppendRow, Raise, Answer, Measured, Spec
  <1>2. file' = file /\ client' \in {"pass", "crashed"}
    BY <1>1 DEF Take, Return, AppendRow, Raise, Answer
  <1>3. ScriptOK' /\ Measured'
    BY <1>1, <1>2 DEF ScriptOK, Measured
  <1>4. RowsTagged'
    <2>1. CASE Take(w) \/ Return(w)
      BY <1>1, <2>1 DEF Take, Return, RowsTagged, ClientInv, ClientTypeOK
    <2>2. CASE AppendRow(w)
      BY <1>1, <2>2 DEF AppendRow, RowsTagged, ClientInv, ClientTypeOK
    <2>3. CASE Raise(w)
      BY <1>1, <2>3 DEF Raise, Locals, RowsTagged, ClientInv, ClientTypeOK
    <2>4. CASE \E row \in Answers(w) : Answer(w, row)
      <3>1. PICK row \in Answers(w) : Answer(w, row)
        BY <2>4
      <3>2. row \in Row /\ row.spec = Spec
        BY <1>1, AnswersAreRows
      <3>3. [row EXCEPT !.prompt = prompt[w]].spec = Spec
        BY <3>2 DEF Row
      <3>q. QED BY <1>1, <3>1, <3>3 DEF Answer, RowsTagged, ClientInv, ClientTypeOK
    <2>q. QED BY <2>1, <2>2, <2>3, <2>4
  <1>5. TagsTrue'
    BY <1>2 DEF TagsTrue
  <1>6. Judged'
    BY <1>1 DEF Judged
  <1>q. QED BY <1>3, <1>4, <1>5, <1>6

LEMMA MainStepInv ==
  ASSUME CampaignInv, Main
  PROVE  (ScriptOK /\ Measured /\ RowsTagged /\ TagsTrue /\ Judged)'
  <1> USE DEF CampaignInv, scriptVars, reportVars
  <1>1. /\ UNCHANGED <<scriptVars, server, reportVars>>
        /\ FinishPass(Spec) \/ NextPass \/ Exit
    BY DEF Main, Works, ClientOf
  <1>2. step = "wait" /\ Spec' = Spec /\ server.spec = Spec
    BY <1>1 DEF FinishPass, NextPass, Exit, Measured, Spec
  <1>3. ScriptOK' /\ Measured'
    BY <1>1, <1>2 DEF ScriptOK, Measured
  <1>4. RowsTagged'
    BY <1>1, <1>2 DEF FinishPass, NextPass, Exit, Locals, RowsTagged
  <1>5. TagsTrue'
    <2>1. CASE FinishPass(Spec)
      <3>1. \A row \in out : row.spec = Spec
        BY <2>1 DEF FinishPass, RowsTagged
      <3>q. QED BY <2>1, <3>1 DEF FinishPass, Recorded, TagsTrue
    <2>2. CASE NextPass \/ Exit
      BY <2>2 DEF NextPass, Exit, TagsTrue
    <2>q. QED BY <1>1, <2>1, <2>2
  <1>6. Judged'
    BY <1>1, <1>2 DEF Judged
  <1>q. QED BY <1>3, <1>4, <1>5, <1>6

LEMMA RunClientInv ==
  ASSUME CampaignInv, RunClient
  PROVE  (ScriptOK /\ Measured /\ RowsTagged /\ TagsTrue /\ Judged)'
  <1> USE DEF CampaignInv, RunClient, Start, serverVars, reportVars
  <1>1. Spec' = Spec
    BY DEF Spec
  <1>2. ScriptOK' /\ Measured'
    BY <1>1 DEF ScriptOK, Measured
  <1>3. RowsTagged'
    BY DEF Locals, RowsTagged, Workers
  <1>4. TagsTrue' /\ Judged'
    BY DEF TagsTrue, Judged
  <1>q. QED BY <1>2, <1>3, <1>4

LEMMA CampaignNextInv == ASSUME CampaignInv, [Next]_vars PROVE CampaignInv'
  <1>1. ClientInv'
    BY CampaignStepIsClients, ClientNextInv DEF CampaignInv
  <1>2. (ScriptOK /\ Measured /\ RowsTagged /\ TagsTrue /\ Judged)'
    <2>1. CASE \/ Launch \/ Poll \/ ClientExits \/ Swept
               \/ ServerUp \/ ServerDies \/ EngineDies \/ Report
      <3>1. UNCHANGED clientVars
        BY <2>1 DEF Launch, Poll, ClientExits, Swept, ServerUp, ServerDies, EngineDies, Report
      <3>q. QED BY <2>1, <3>1, ScriptStepInv
    <2>2. CASE RunClient
      BY <2>2, RunClientInv
    <2>3. ASSUME NEW w \in Workers, Worker(w) \/ Request(w)
          PROVE  (ScriptOK /\ Measured /\ RowsTagged /\ TagsTrue /\ Judged)'
      BY <2>3, WorkStepInv DEF Worker, Request, Works, ClientOf, Served
    <2>4. CASE Main
      BY <2>4, MainStepInv
    <2>5. CASE UNCHANGED vars
      <3> USE <2>5 DEF vars, clientVars, passVars, scriptVars, serverVars, reportVars, CampaignInv
      <3>1. Spec' = Spec /\ Ratios' = Ratios /\ Mismatches' = Mismatches
        BY DEF Spec, Ratios, Mismatches, TextsKept, TextsOf, Cell
      <3>q. QED BY <3>1 DEF ScriptOK, Measured, RowsTagged, TagsTrue, Judged
    <2>q. QED BY <2>1, <2>2, <2>3, <2>4, <2>5 DEF Next
  <1>q. QED BY <1>1, <1>2 DEF CampaignInv

\* The clients of a campaign are clients like any others, so what is proved of them
\* holds whatever dies around them.
THEOREM CampaignRefinesPass == CampaignSpec => RefinesPass
  <1>1. CampaignInv /\ [Next]_vars => CampaignInv'
    BY CampaignNextInv
  <1>2. CampaignInv /\ [Next]_vars => [ClientNext]_clientVars
    BY CampaignStepIsClients DEF CampaignInv
  <1>3. Init => ClientInit
    BY DEF Init
  <1>4. CampaignSpec => ClientSpec
    BY <1>1, <1>2, <1>3, CampaignInitInv, PTL DEF CampaignSpec, ClientSpec
  <1>q. QED BY <1>4, ClientRefinesPass

\* No record of any campaign holds a row of a server of the other kind, and an OK of
\* the parity covers every ratio the report has printed.
THEOREM CampaignSafe == CampaignSpec => [](TagsTrue /\ ParityCoversRatios)
  <1>1. CampaignInv /\ [Next]_vars => CampaignInv'
    BY CampaignNextInv
  <1>2. CampaignInv => TagsTrue /\ ParityCoversRatios
    <2> SUFFICES ASSUME CampaignInv, verdict = "OK", NEW cp \in printed
                 PROVE  TextsOf("no", cp[1], cp[2]) = TextsOf("yes", cp[1], cp[2])
      BY DEF CampaignInv, ParityCoversRatios
    <2>1. cp \in Ratios /\ Mismatches = {}
      BY DEF CampaignInv, Judged
    <2>2. Cell("no", cp[1], cp[2]) # {} /\ Cell("yes", cp[1], cp[2]) # {}
      BY <2>1 DEF Ratios
    <2>3. TextsOf("no", cp[1], cp[2]) # {} /\ TextsOf("yes", cp[1], cp[2]) # {}
      BY <2>2 DEF TextsOf
    <2>q. QED BY <2>1, <2>3 DEF Ratios, Mismatches, TextsKept
  <1>q. QED BY <1>1, <1>2, CampaignInitInv, PTL DEF CampaignSpec

\* An OK of the greedy parity is about the very answers behind each ratio the
\* report prints.
THEOREM ParityCoversRatiosHolds == CampaignSpec => []ParityCoversRatios
  BY CampaignSafe, PTL
=============================================================================

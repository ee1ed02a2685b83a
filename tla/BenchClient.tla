---------------------------- MODULE BenchClient ----------------------------
(***************************************************************************)
(* bench_client.py: passes over the prompts with conc requests in flight.  *)
(* For conc > 1 the threads take prompts from one queue and append rows to *)
(* one list under a lock; an exception in a request ends its thread and    *)
(* nobody is told.  For conc = 1 main sends the prompts itself and the     *)
(* exception ends the process.  Pass 0 warms the server up; each later one *)
(* is appended to the output file as one record.                           *)
(***************************************************************************)
EXTENDS Integers, Sequences, FiniteSets

CONSTANTS
  NumPrompts,  \* len(PROMPTS)
  MaxConc,     \* largest --concurrency
  Reps,        \* --reps
  Texts        \* texts an answer of two tokens or more may have

ASSUME BenchClientAssumption ==
  /\ NumPrompts \in Nat
  /\ MaxConc \in Nat \ {0}
  /\ Reps \in Nat

Prompts == 1..NumPrompts
Workers == 1..MaxConc

VARIABLES
  client,    \* the process: where main is
  conc,      \* --concurrency
  rep,       \* the pass, 0 while warming up
  work,      \* queue.Queue of the prompts nobody has taken
  thread,    \* thread[w]: where thread w is (thread 1 is main when conc = 1)
  prompt,    \* prompt[w]: the prompt of its request
  reply,     \* reply[w]: the row it has built and not appended
  out,       \* rows appended in this pass
  returned,  \* prompts with a row in what the last finished run_pass returned
  file       \* records in the output file

passVars   == <<conc, work, thread, prompt, reply, out>>
clientVars == <<client, rep, returned, file, passVars>>

NoPrompt == 0

\* tpot_ms is None below two tokens; the text is what text_sha tells apart.
\* spec, the kind of server that answered, the client does not see.
Row == [prompt : Prompts \cup {NoPrompt}, tpot : {"none", "some"},
        text : Texts \cup {"none"}, spec : {"no", "yes", "none"}]

NoRow == [prompt |-> NoPrompt, tpot |-> "none", text |-> "none", spec |-> "none"]

PromptOrder == [i \in Prompts |-> i]
Queued == {work[i] : i \in DOMAIN work}

Running == {"loop", "asking", "holding"}

----------------------------------------------------------------------------
(* main *)

\* The locals of run_pass, as it begins with c threads (they go when it ends).
Locals(c) ==
  /\ work' = PromptOrder
  /\ thread' = [w \in Workers |-> IF w <= c THEN "loop" ELSE "off"]
  /\ prompt' = [w \in Workers |-> NoPrompt]
  /\ reply' = [w \in Workers |-> NoRow]
  /\ out' = {}

Start(c) ==
  /\ client \in {"idle", "ended", "crashed"}
  /\ client' = "pass"
  /\ rep' = 0
  /\ conc' = c
  /\ Locals(c)
  /\ UNCHANGED <<returned, file>>

\* t.join() for every thread.
Joined == \A w \in Workers : thread[w] \notin Running

Recorded(spec) ==
  IF rep = 0 THEN file
  ELSE file \cup {[spec |-> spec, conc |-> conc, rep |-> rep, rows |-> out]}

\* run_pass returns; a pass that is not the warm-up is appended to the file.
FinishPass(spec) ==
  /\ client = "pass"
  /\ Joined
  /\ client' = "between"
  /\ returned' = {r.prompt : r \in out}
  /\ file' = Recorded(spec)
  /\ Locals(0)
  /\ UNCHANGED <<rep, conc>>

NextPass ==
  /\ client = "between"
  /\ rep < Reps
  /\ client' = "pass"
  /\ rep' = rep + 1
  /\ returned' = {}
  /\ Locals(conc)
  /\ UNCHANGED <<conc, file>>

Exit ==
  /\ client = "between"
  /\ rep = Reps
  /\ client' = "ended"
  /\ returned' = {}
  /\ UNCHANGED <<rep, file, passVars>>

----------------------------------------------------------------------------
(* worker *)

\* work.get_nowait() takes the prompt out; reading it and taking it out later
\* would not.
LeftInQueue == work

AfterTake == Tail(work)

Take(w) ==
  /\ client = "pass"
  /\ thread[w] = "loop"
  /\ work # <<>>
  /\ thread' = [thread EXCEPT ![w] = "asking"]
  /\ prompt' = [prompt EXCEPT ![w] = Head(work)]
  /\ work' = AfterTake
  /\ UNCHANGED <<client, rep, returned, file, conc, reply, out>>

\* work.get() would wait where get_nowait() raises queue.Empty.
NeverEmpty == FALSE

RaisesEmpty == work = <<>>

Return(w) ==
  /\ client = "pass"
  /\ thread[w] = "loop"
  /\ RaisesEmpty
  /\ thread' = [thread EXCEPT ![w] = "returned"]
  /\ UNCHANGED <<client, rep, returned, file, conc, work, prompt, reply, out>>

\* one() returns a row.
Answer(w, row) ==
  /\ client = "pass"
  /\ thread[w] = "asking"
  /\ thread' = [thread EXCEPT ![w] = "holding"]
  /\ reply' = [reply EXCEPT ![w] = [row EXCEPT !.prompt = prompt[w]]]
  /\ UNCHANGED <<client, rep, returned, file, conc, work, prompt, out>>

\* with lock: out.append(r)
AppendRow(w) ==
  /\ client = "pass"
  /\ thread[w] = "holding"
  /\ out' = out \cup {reply[w]}
  /\ thread' = [thread EXCEPT ![w] = "loop"]
  /\ prompt' = [prompt EXCEPT ![w] = NoPrompt]
  /\ reply' = [reply EXCEPT ![w] = NoRow]
  /\ UNCHANGED <<client, rep, returned, file, conc, work>>

\* one() raises (an HTTP error, a refused or reset connection, 600 s without a
\* byte): the thread is gone, or with conc = 1 the process.
Raise(w) ==
  /\ client = "pass"
  /\ thread[w] = "asking"
  /\ IF conc = 1
     THEN client' = "crashed" /\ Locals(0)
     ELSE /\ thread' = [thread EXCEPT ![w] = "dead"]
          /\ UNCHANGED <<client, work, prompt, reply, out>>
  /\ UNCHANGED <<rep, returned, file, conc>>

----------------------------------------------------------------------------

ClientInit ==
  /\ client = "idle"
  /\ conc \in 1..MaxConc
  /\ rep = 0
  /\ work = PromptOrder
  /\ thread = [w \in Workers |-> "off"]
  /\ prompt = [w \in Workers |-> NoPrompt]
  /\ reply = [w \in Workers |-> NoRow]
  /\ out = {}
  /\ returned = {}
  /\ file = {}

ClientNext ==
  \/ \E c \in 1..MaxConc : Start(c)
  \/ \E spec \in {"no", "yes"} : FinishPass(spec)
  \/ NextPass
  \/ Exit
  \/ \E w \in Workers : Take(w) \/ Return(w) \/ AppendRow(w) \/ Raise(w)
  \/ \E w \in Workers, row \in Row : Answer(w, row)

\* A client among servers that may do anything.
ClientSpec == ClientInit /\ [][ClientNext]_clientVars

----------------------------------------------------------------------------

\* What has become of a prompt, read off the queue, the threads and the list.
Fate(p) ==
  IF p \in Queued THEN "todo"
  ELSE IF \E w \in Workers : prompt[w] = p /\ thread[w] \in {"asking", "holding"} THEN "issued"
  ELSE IF \E w \in Workers : prompt[w] = p /\ thread[w] = "dead" THEN "lost"
  ELSE IF \E r \in out : r.prompt = p THEN "answered"
  ELSE "vanished"

Pass == INSTANCE RequestPass WITH
  open <- client = "pass",
  fate <- [p \in Prompts |-> Fate(p)],
  rows <- returned

\* The threads, their queue and their list do what one pass owes: no prompt is
\* sent twice, no row is lost or doubled, and none is left over while a thread
\* that could send it is alive.
RefinesPass == Pass!Spec
=============================================================================

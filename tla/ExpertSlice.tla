---------------------------- MODULE ExpertSlice ----------------------------
(***************************************************************************)
(* The directory of a text-only K3 slice and the two tools that fill it:   *)
(* k3_expert_slice.py downloads the kept tensors shard by shard with a     *)
(* thread pool, strip_lm_prefix.py then renames the tensors in place.      *)
(* Both may be killed at any step and are simply started again, possibly   *)
(* with other arguments; all they know of the past is what is on disk.     *)
(***************************************************************************)
EXTENDS Integers, FiniteSets

CONSTANTS
  NumShards,  \* shards of the checkpoint, 1..NumShards in file-name order
  Tensors,    \* its tensors: records with a part and, for experts, an id
  Holds,      \* Holds[s]: the tensors of remote shard s
  RunArgs,    \* argument lists k3_expert_slice.py may be started with
  Workers     \* --workers

Shards == 1..NumShards

ASSUME ExpertSliceAssumption ==
  /\ NumShards \in Nat
  /\ \A t \in Tensors : t.part \in {"text", "router", "expert", "vision"} /\ t.id \in Nat
  /\ Holds \in [Shards -> SUBSET Tensors]
  /\ \A a \in RunArgs :
       a.experts \in Nat /\ a.lo \in 1..(NumShards + 1) /\ a.hi \in (a.lo - 1)..NumShards
  /\ Workers \in Nat \ {0}

VARIABLES
  disk,     \* disk[s]: what is under the final name of shard s
  partial,  \* partial[s]: what is under its .partial name
  index,    \* model.safetensors.index.json: the names it lists
  config,   \* num_experts in config.json
  phase,    \* what the running tool is doing, or how the last one ended
  args,     \* arguments of the last slicer
  next,     \* the shard the main thread handles next
  worker,   \* worker[s]: how far do_shard(s) is
  newMap    \* new_map

vars == <<disk, partial, index, config, phase, args, next, worker, newMap>>
onDisk == <<disk, partial, index, config>>

\* A file's content; a write that was cut short leaves one of the other two.
NoFile    == [state |-> "none"]
Truncated == [state |-> "truncated"]  \* first write of a file not finished
Garbled   == [state |-> "garbled"]    \* header half rewritten in place

Name(t, prefixed) == [tensor |-> t, prefixed |-> prefixed]
Names == [tensor : Tensors, prefixed : BOOLEAN]

Experts == {a.experts : a \in RunArgs}

\* names: header keys; cut: number of experts, and router rows, kept.
File(names, cut) == [state |-> "whole", names |-> names, cut |-> cut]
Files == {File(ns, n) : ns \in SUBSET Names, n \in Experts}

\* The two JSON files: weight_map, and num_experts.
Index(names) == [state |-> "whole", names |-> names]
Config(n)    == [state |-> "whole", cut |-> n]

IsWhole(f) == f.state = "whole"

----------------------------------------------------------------------------

\* keep_tensor: text only, and the first n experts.
KeepTensor(t, n) == t.part # "vision" /\ (t.part = "expert" => t.id < n)

Wanted(s, n) == {Name(t, TRUE) : t \in {u \in Holds[s] : KeepTensor(u, n)}}

MineUnlessPresent(s) == IF worker[s] = "listed" THEN {} ELSE Wanted(s, args.experts)

\* mine, the entries do_shard returns, of a shard already present or not.
Mine(s) == Wanted(s, args.experts)

Selected(a) == a.lo..a.hi

InProgress == {"present", "fetch", "write", "saving", "rename"}

\* Shards a thread of the pool is working on.
RunningOrFailed == {s \in Shards : worker[s] \in InProgress \cup {"failed"}}

Running == {s \in Shards : worker[s] \in InProgress}

Stopped == {"idle", "sliced", "stripped"}

----------------------------------------------------------------------------
(* do_shard, run by a thread of the pool. *)

\* A thread takes the oldest submitted shard and looks whether it is there.
Take(s) ==
  /\ phase = "download"
  /\ worker[s] = "todo"
  /\ \A q \in Shards : worker[q] = "todo" => s <= q
  /\ Cardinality(Running) < Workers
  /\ worker' = [worker EXCEPT ![s] = IF disk[s] = NoFile THEN "fetch" ELSE "present"]
  /\ UNCHANGED <<onDisk, phase, args, next, newMap>>

\* The remote header of a shard that is present gives its index entries.
ListPresent(s) ==
  /\ worker[s] = "present"
  /\ worker' = [worker EXCEPT ![s] = "listed"]
  /\ UNCHANGED <<onDisk, phase, args, next, newMap>>

\* Header and spans are fetched; a shard with nothing to keep gets no file.
Fetch(s) ==
  /\ worker[s] = "fetch"
  /\ worker' = [worker EXCEPT ![s] = IF Mine(s) = {} THEN "done" ELSE "write"]
  /\ UNCHANGED <<onDisk, phase, args, next, newMap>>

OpenFinal(s) ==
  /\ worker[s] = "write"
  /\ disk' = [disk EXCEPT ![s] = Truncated]
  /\ worker' = [worker EXCEPT ![s] = "saving"]
  /\ UNCHANGED <<partial, index, config, phase, args, next, newMap>>

\* save_file opens the temp name and writes it ...
OpenPartial(s) ==
  /\ worker[s] = "write"
  /\ partial' = [partial EXCEPT ![s] = Truncated]
  /\ worker' = [worker EXCEPT ![s] = "saving"]
  /\ UNCHANGED <<disk, index, config, phase, args, next, newMap>>

SavePartial(s) ==
  /\ worker[s] = "saving"
  /\ partial' = [partial EXCEPT ![s] = File(Mine(s), args.experts)]
  /\ worker' = [worker EXCEPT ![s] = "rename"]
  /\ UNCHANGED <<disk, index, config, phase, args, next, newMap>>

\* ... and only a finished file gets the final name.
Rename(s) ==
  /\ worker[s] = "rename"
  /\ disk' = [disk EXCEPT ![s] = partial[s]]
  /\ partial' = [partial EXCEPT ![s] = NoFile]
  /\ worker' = [worker EXCEPT ![s] = "done"]
  /\ UNCHANGED <<index, config, phase, args, next, newMap>>

\* get() has used up its five attempts, or the disk is full.
DoShardRaises(s) ==
  /\ worker[s] \in {"present", "fetch", "saving"}
  /\ worker' = [worker EXCEPT ![s] = "failed"]
  /\ UNCHANGED <<onDisk, phase, args, next, newMap>>

----------------------------------------------------------------------------
(* The slicer's main thread. *)

SliceStart(a) ==
  /\ phase \in Stopped
  /\ phase' = "download"
  /\ args' = a
  /\ next' = a.lo
  /\ worker' = [s \in Shards |-> IF s \in Selected(a) THEN "todo" ELSE "none"]
  /\ newMap' = {}
  /\ UNCHANGED onDisk

\* pool.map hands over the results in submission order.
Collect ==
  /\ phase = "download"
  /\ next <= args.hi
  /\ worker[next] \in {"listed", "done"}
  /\ newMap' = newMap \cup Mine(next)
  /\ next' = next + 1
  /\ UNCHANGED <<onDisk, phase, args, worker>>

\* A worker's exception reaches the main thread when its turn comes: futures
\* not yet running are cancelled, the pool is joined, nothing more is written.
Unwind ==
  /\ phase = "download"
  /\ next <= args.hi
  /\ worker[next] = "failed"
  /\ phase' = "unwind"
  /\ worker' = [s \in Shards |-> IF worker[s] = "todo" THEN "none" ELSE worker[s]]
  /\ UNCHANGED <<onDisk, args, next, newMap>>

\* What a process that ends leaves behind in memory.
Ends(how) ==
  /\ phase' = how
  /\ worker' = [s \in Shards |-> "none"]
  /\ newMap' = {}
  /\ next' = 1
  /\ UNCHANGED args

Joined ==
  /\ phase = "unwind"
  /\ Running = {}
  /\ Ends("idle")
  /\ UNCHANGED onDisk

OpenIndex ==
  /\ phase = "download"
  /\ next > args.hi
  /\ index' = Truncated
  /\ phase' = "index"
  /\ UNCHANGED <<disk, partial, config, args, next, worker, newMap>>

WriteIndex ==
  /\ phase = "index"
  /\ index' = Index(newMap)
  /\ phase' = "config"
  /\ UNCHANGED <<disk, partial, config, args, next, worker, newMap>>

OpenConfig ==
  /\ phase = "config"
  /\ config' = Truncated
  /\ phase' = "writeconfig"
  /\ UNCHANGED <<disk, partial, index, args, next, worker, newMap>>

WriteConfig ==
  /\ phase = "writeconfig"
  /\ config' = Config(args.experts)
  /\ Ends("sliced")
  /\ UNCHANGED <<disk, partial, index>>

----------------------------------------------------------------------------
(* strip_lm_prefix.py *)

\* The first 15 characters go, whatever they are.
StrippedBlindly(names) ==
  {Name(IF n.prefixed THEN n.tensor ELSE [part |-> "beheaded", id |-> 0], FALSE) : n \in names}

Stripped(names) == {Name(n.tensor, FALSE) : n \in names}

StripStart ==
  /\ phase \in Stopped
  /\ \E s \in Shards : disk[s] # NoFile
  /\ phase' = "strip"
  /\ next' = 1
  /\ UNCHANGED <<onDisk, args, worker, newMap>>

HasPrefix(f) == IsWhole(f) /\ \E n \in f.names : n.prefixed

\* The rest is taken to be done when one shard is.
FixShardUnlessBegun ==
  /\ phase = "strip"
  /\ next <= NumShards
  /\ disk[next] = NoFile \/ IsWhole(disk[next])
  /\ IF HasPrefix(disk[next])
     THEN disk' = [disk EXCEPT ![next].names = Stripped(@)] /\ next' = next + 1
     ELSE disk' = disk /\ next' = NumShards + 1
  /\ UNCHANGED <<partial, index, config, phase, args, worker, newMap>>

\* fix_shard, one shard after the other; one without the prefix is left alone.
FixShard ==
  /\ phase = "strip"
  /\ next <= NumShards
  /\ disk[next] = NoFile \/ IsWhole(disk[next])
  /\ disk' = IF HasPrefix(disk[next])
             THEN [disk EXCEPT ![next].names = Stripped(@)] ELSE disk
  /\ next' = next + 1
  /\ UNCHANGED <<partial, index, config, phase, args, worker, newMap>>

\* The header is rewritten in place: a kill in the middle leaves neither.
KilledInHeader ==
  /\ phase = "strip"
  /\ next <= NumShards
  /\ HasPrefix(disk[next])
  /\ disk' = [disk EXCEPT ![next] = Garbled]
  /\ Ends("idle")
  /\ UNCHANGED <<partial, index, config>>

\* A shard or index that does not parse ends the tool with an exception.
StripRaises ==
  /\ phase = "strip"
  /\ \/ next <= NumShards /\ disk[next] # NoFile /\ ~IsWhole(disk[next])
     \/ next > NumShards /\ ~IsWhole(index)
  /\ Ends("idle")
  /\ UNCHANGED onDisk

OpenStrippedIndex ==
  /\ phase = "strip"
  /\ next > NumShards
  /\ IsWhole(index)
  /\ newMap' = Stripped(index.names)
  /\ index' = Truncated
  /\ phase' = "stripindex"
  /\ UNCHANGED <<disk, partial, config, args, next, worker>>

WriteStrippedIndex ==
  /\ phase = "stripindex"
  /\ index' = Index(newMap)
  /\ Ends("stripped")
  /\ UNCHANGED <<disk, partial, config>>

----------------------------------------------------------------------------

\* The process is killed, or a call outside the pool raises.
Kill ==
  /\ phase \notin Stopped
  /\ Ends("idle")
  /\ UNCHANGED onDisk

DoShard(s) ==
  ListPresent(s) \/ Fetch(s) \/ OpenPartial(s) \/ SavePartial(s) \/ Rename(s)

Main ==
  \/ Collect \/ Unwind \/ Joined
  \/ OpenIndex \/ WriteIndex \/ OpenConfig \/ WriteConfig
  \/ FixShard \/ StripRaises \/ OpenStrippedIndex \/ WriteStrippedIndex

Init ==
  /\ disk = [s \in Shards |-> NoFile]
  /\ partial = [s \in Shards |-> NoFile]
  /\ index = NoFile
  /\ config = NoFile
  /\ phase = "idle"
  /\ args \in RunArgs
  /\ next = 1
  /\ worker = [s \in Shards |-> "none"]
  /\ newMap = {}

Next ==
  \/ \E a \in RunArgs : SliceStart(a)
  \/ \E s \in Shards : Take(s)
  \/ \E s \in Shards : DoShard(s)
  \/ \E s \in Shards : DoShardRaises(s)
  \/ Main
  \/ StripStart
  \/ KilledInHeader
  \/ Kill

Spec == Init /\ [][Next]_vars

\* Threads and the main thread run on; no tool has to be started, no call has
\* to fail, and nobody has to be killed.
FairSpec ==
  /\ Spec
  /\ \A s \in Shards : WF_vars(Take(s)) /\ WF_vars(DoShard(s))
  /\ WF_vars(Main)

----------------------------------------------------------------------------

NamesOnDisk == UNION {disk[s].names : s \in {q \in Shards : IsWhole(disk[q])}}

TypeOK ==
  /\ disk \in [Shards -> Files \cup {NoFile, Truncated, Garbled}]
  /\ partial \in [Shards -> Files \cup {NoFile, Truncated}]
  /\ index \in {Index(ns) : ns \in SUBSET Names} \cup {NoFile, Truncated}
  /\ config \in {Config(n) : n \in Experts} \cup {NoFile, Truncated}
  /\ phase \in Stopped \cup {"download", "unwind", "index", "config",
                             "writeconfig", "strip", "stripindex"}
  /\ args \in RunArgs
  /\ next \in 1..(NumShards + 1)
  /\ worker \in [Shards -> InProgress \cup {"none", "todo", "listed", "done", "failed"}]
  /\ newMap \in SUBSET Names

\* Whatever is under a final name can be trusted to hold every tensor its run
\* wanted of that shard: kills, full disks and lost connections in any number
\* of runs leave no half-written shard there.
TrustedFiles ==
  \A s \in Shards :
    /\ disk[s] # Truncated
    /\ IsWhole(disk[s]) =>
         Stripped(disk[s].names) = Stripped(Wanted(s, disk[s].cut))

\* Shards of this expert count that nobody has renamed yet.
SameCut == \A s \in Shards : disk[s] # NoFile =>
              disk[s] = File(Wanted(s, args.experts), args.experts)

\* A run over all shards that ends well leaves a complete slice, whatever
\* earlier runs with the same expert count did or left undone: the index lists
\* the tensors of the files, they are all the kept ones, and the configuration
\* has as many experts as the router has rows.
CompleteSlice ==
  phase = "sliced" /\ Selected(args) = Shards /\ SameCut =>
    /\ IsWhole(index) /\ index.names = NamesOnDisk
    /\ NamesOnDisk = UNION {Wanted(s, args.experts) : s \in Shards}
    /\ IsWhole(config) /\ config.cut = args.experts

\* strip_lm_prefix.py may be killed between two shards, or between the shards
\* and the index, and run again: once it ends well no prefix is left anywhere.
NoPrefixLeft ==
  phase = "stripped" =>
    /\ \A s \in Shards : ~HasPrefix(disk[s])
    /\ ~HasPrefix(index)

\* No run hangs: the pool is joined after a failure and the main thread is
\* never left waiting for a future that was cancelled.
RunsEnd == phase \notin Stopped ~> phase \in Stopped

\* --shards is offered "for resuming": a run over some of the shards leaves an
\* index of everything the directory then holds.
ResumedIndexComplete ==
  phase = "sliced" /\ SameCut => IsWhole(index) /\ index.names = NamesOnDisk
=============================================================================

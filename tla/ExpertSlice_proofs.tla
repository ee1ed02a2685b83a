------------------------- MODULE ExpertSlice_proofs -------------------------
(***************************************************************************)
(* What the two tools leave on disk, for every checkpoint, every set of    *)
(* argument lists, any number of threads, kills and failures.              *)
(*                                                                         *)
(* The argument: a thread only ever adds a file under a final name, and    *)
(* only a finished one; when the main thread has collected a shard, its    *)
(* file is there or there is nothing to keep.  The index is the union of   *)
(* what was collected, so it is complete when the files are of one cut.    *)
(***************************************************************************)
EXTENDS ExpertSlice, TLAPS

AllWanted(lo, hi) == UNION {Wanted(s, args.experts) : s \in lo..hi}

\* The shard is on disk, or this run keeps nothing of it.
Provided(s) == disk[s] # NoFile \/ Mine(s) = {}

\* Threads work only while the pool is open, on shards of this run.
PoolInv ==
  \A s \in Shards :
    /\ worker[s] # "none" => s \in Selected(args)
    /\ worker[s] \in InProgress => phase \in {"download", "unwind"}
    /\ phase \in Stopped \cup {"strip", "stripindex"} => worker[s] = "none"

\* What a thread has got done so far.
WorkerInv ==
  \A s \in Shards :
    /\ worker[s] = "rename" => partial[s] = File(Mine(s), args.experts)
    /\ worker[s] = "present" => disk[s] # NoFile
    /\ worker[s] \in {"listed", "done"} => Provided(s)

\* What the main thread has collected, before and after it wrote the index.
CollectInv ==
  /\ phase \in {"download", "index"} =>
       /\ next \in args.lo..(args.hi + 1)
       /\ newMap = AllWanted(args.lo, next - 1)
       /\ \A s \in args.lo..(next - 1) : worker[s] \in {"listed", "done"}
  /\ phase = "index" => next = args.hi + 1
  /\ phase \in {"config", "writeconfig", "sliced"} =>
       /\ index = Index(AllWanted(args.lo, args.hi))
       /\ \A s \in Selected(args) : Provided(s)
  /\ phase = "sliced" => config = Config(args.experts)

\* How far the prefix is gone.
StripInv ==
  /\ phase = "strip" => \A s \in Shards : s < next => ~HasPrefix(disk[s])
  /\ phase = "stripindex" => \A n \in newMap : ~n.prefixed
  /\ phase \in {"stripindex", "stripped"} => \A s \in Shards : ~HasPrefix(disk[s])
  /\ phase = "stripped" => ~HasPrefix(index)

IInv == TypeOK /\ TrustedFiles /\ PoolInv /\ WorkerInv /\ CollectInv /\ StripInv

----------------------------------------------------------------------------

LEMMA Contents ==
  ASSUME NEW ns, NEW n
  PROVE  /\ File(ns, n) \notin {NoFile, Truncated, Garbled}
         /\ Index(ns) \notin {NoFile, Truncated}
         /\ Config(n) \notin {NoFile, Truncated}
         /\ IsWhole(File(ns, n)) /\ File(ns, n).names = ns /\ File(ns, n).cut = n
         /\ IsWhole(Index(ns)) /\ Index(ns).names = ns
         /\ IsWhole(Config(n)) /\ Config(n).cut = n
  BY DEF File, Index, Config, NoFile, Truncated, Garbled, IsWhole

LEMMA Damaged ==
  /\ ~IsWhole(NoFile) /\ ~IsWhole(Truncated) /\ ~IsWhole(Garbled)
  /\ Truncated # NoFile /\ Garbled # NoFile /\ Garbled # Truncated
  BY DEF NoFile, Truncated, Garbled, IsWhole

LEMMA WholeFiles ==
  ASSUME NEW f \in Files \cup {NoFile, Truncated, Garbled}, IsWhole(f)
  PROVE  /\ f \in Files
         /\ f.names \in SUBSET Names /\ f.cut \in Experts
         /\ f = File(f.names, f.cut)
<1>1. f \in Files
  BY Damaged
<1>2. PICK ns \in SUBSET Names, n \in Experts : f = File(ns, n)
  BY <1>1 DEF Files
<1>3. QED
  BY <1>1, <1>2, Contents

LEMMA RemoteNames ==
  ASSUME NEW s \in Shards, NEW n
  PROVE  Wanted(s, n) \in SUBSET Names
<1>1. Holds[s] \subseteq Tensors
  BY ExpertSliceAssumption
<1>2. \A t \in Tensors : Name(t, TRUE) \in Names
  BY DEF Name, Names
<1>3. QED
  BY <1>1, <1>2 DEF Wanted

LEMMA StrippedNames ==
  ASSUME NEW ns \in SUBSET Names
  PROVE  /\ Stripped(ns) \in SUBSET Names
         /\ Stripped(Stripped(ns)) = Stripped(ns)
         /\ \A n \in Stripped(ns) : ~n.prefixed
<1>1. \A n \in Names : n.tensor \in Tensors
  BY DEF Names
<1>2. \A t \in Tensors : /\ Name(t, FALSE) \in Names
                         /\ Name(t, FALSE).tensor = t
                         /\ ~Name(t, FALSE).prefixed
  BY DEF Name, Names
<1>3. Stripped(ns) \in SUBSET Names /\ \A n \in Stripped(ns) : ~n.prefixed
  BY <1>1, <1>2 DEF Stripped
<1>4. Stripped(Stripped(ns)) = Stripped(ns)
  <2>1. \A n \in Stripped(ns) : Name(n.tensor, FALSE) = n
    BY <1>1, <1>2 DEF Stripped
  <2>2. QED
    BY <2>1 DEF Stripped
<1>5. QED
  BY <1>3, <1>4

LEMMA ArgFacts ==
  ASSUME NEW a \in RunArgs
  PROVE  /\ a.experts \in Experts
         /\ a.lo \in 1..(NumShards + 1) /\ a.hi \in (a.lo - 1)..NumShards
         /\ NumShards \in Nat
         /\ Selected(a) \subseteq Shards
  BY ExpertSliceAssumption DEF Experts, Selected, Shards

----------------------------------------------------------------------------

LEMMA InitInv == Init => IInv
<1> SUFFICES ASSUME Init PROVE IInv
  OBVIOUS
<1>1. TypeOK
  BY ExpertSliceAssumption DEF Init, TypeOK, Stopped
<1>2. TrustedFiles
  BY Damaged DEF Init, TrustedFiles
<1>3. QED
  BY <1>1, <1>2 DEF Init, IInv, PoolInv, WorkerInv, CollectInv, StripInv, Stopped, InProgress

\* What all steps of a thread have in common.
LEMMA ThreadStep ==
  ASSUME IInv, TypeOK', NEW s \in Shards, NEW w,
         UNCHANGED <<index, config, phase, args, next, newMap>>,
         worker' = [worker EXCEPT ![s] = w],
         phase \in {"download", "unwind"},
         worker[s] \in {"todo"} \cup InProgress,
         \A q \in Shards : q # s => disk'[q] = disk[q] /\ partial'[q] = partial[q],
         disk'[s] = disk[s] \/ disk'[s] = File(Mine(s), args.experts),
         w = "rename" => partial'[s] = File(Mine(s), args.experts),
         w = "present" => disk'[s] # NoFile,
         w \in {"listed", "done"} => disk'[s] # NoFile \/ Mine(s) = {}
  PROVE  IInv'
<1> USE DEF IInv
<1>1. \A q \in Shards : Mine(q)' = Mine(q)
  BY DEF Mine, Wanted
<1>2. \A q \in Shards : Provided(q) => disk'[q] # NoFile \/ Mine(q) = {}
  BY Contents DEF Provided
<1>3. worker \in [Shards -> InProgress \cup {"none", "todo", "listed", "done", "failed"}]
  BY DEF TypeOK
<1>4. TrustedFiles'
  <2>1. ASSUME NEW q \in Shards
        PROVE  /\ disk'[q] # Truncated
               /\ IsWhole(disk'[q]) =>
                    Stripped(disk'[q].names) = Stripped(Wanted(q, disk'[q].cut))
    BY Contents DEF TrustedFiles, Mine
  <2>2. QED
    BY <2>1 DEF TrustedFiles, Stripped, Wanted, IsWhole
<1>5. PoolInv'
  BY <1>3 DEF PoolInv, Stopped, InProgress, Selected
<1>6. WorkerInv'
  <2>1. ASSUME NEW q \in Shards, q # s
        PROVE  /\ worker'[q] = "rename" => partial'[q] = File(Mine(q), args.experts)
               /\ worker'[q] = "present" => disk'[q] # NoFile
               /\ worker'[q] \in {"listed", "done"} => disk'[q] # NoFile \/ Mine(q) = {}
    BY <1>2, <1>3, <2>1 DEF WorkerInv, Provided
  <2>2. /\ worker'[s] = "rename" => partial'[s] = File(Mine(s), args.experts)
        /\ worker'[s] = "present" => disk'[s] # NoFile
        /\ worker'[s] \in {"listed", "done"} => disk'[s] # NoFile \/ Mine(s) = {}
    BY <1>3
  <2>3. QED
    BY <1>1, <2>1, <2>2 DEF WorkerInv, Provided, File
<1>7. CollectInv'
  <2>1. AllWanted(args.lo, next - 1)' = AllWanted(args.lo, next - 1)
    BY DEF AllWanted, Wanted
  <2>2. \A q \in Shards : worker[q] \in {"listed", "done"} => worker'[q] = worker[q]
    BY <1>3 DEF InProgress
  <2>3. QED
    BY <1>3, <2>1, <2>2, ArgFacts DEF CollectInv, TypeOK, Shards, InProgress
<1>8. StripInv'
  BY DEF StripInv
<1>9. QED
  BY <1>4, <1>5, <1>6, <1>7, <1>8

\* A thread's steps, and a thread that gives up.
LEMMA WorkerStep ==
  ASSUME IInv, NEW s \in Shards,
         Take(s) \/ DoShard(s) \/ DoShardRaises(s)
  PROVE  IInv'
<1> USE DEF IInv
<1>0. worker[s] \in InProgress => phase \in {"download", "unwind"}
  BY DEF PoolInv
<1>1. CASE Take(s)
  <2>1. TypeOK'
    BY <1>1 DEF Take, TypeOK, InProgress, onDisk
  <2>2. QED
    BY <1>1, <2>1, ThreadStep DEF Take, onDisk
<1>2. CASE ListPresent(s)
  <2>1. TypeOK'
    BY <1>2 DEF ListPresent, TypeOK, InProgress, onDisk
  <2>2. disk[s] # NoFile
    BY <1>2 DEF ListPresent, WorkerInv
  <2>3. QED
    BY <1>0, <1>2, <2>1, <2>2, ThreadStep DEF ListPresent, onDisk, InProgress
<1>3. CASE Fetch(s)
  <2>1. TypeOK'
    BY <1>3 DEF Fetch, TypeOK, InProgress, onDisk
  <2>2. QED
    BY <1>0, <1>3, <2>1, ThreadStep DEF Fetch, onDisk, InProgress
<1>4. CASE OpenPartial(s)
  <2>1. TypeOK'
    BY <1>4 DEF OpenPartial, TypeOK, InProgress
  <2>2. QED
    BY <1>0, <1>4, <2>1, ThreadStep DEF OpenPartial, TypeOK, InProgress
<1>5. CASE SavePartial(s)
  <2>1. TypeOK'
    BY <1>5, RemoteNames, ArgFacts DEF SavePartial, TypeOK, InProgress, Mine, Files
  <2>2. QED
    BY <1>0, <1>5, <2>1, ThreadStep DEF SavePartial, TypeOK, InProgress
<1>6. CASE Rename(s)
  <2>1. partial[s] = File(Mine(s), args.experts)
    BY <1>6 DEF Rename, WorkerInv
  <2>2. TypeOK'
    BY <1>6, <2>1, RemoteNames, ArgFacts DEF Rename, TypeOK, InProgress, Mine, Files
  <2>3. disk'[s] = File(Mine(s), args.experts) /\ disk'[s] # NoFile
    BY <1>6, <2>1, Contents DEF Rename, TypeOK
  <2>4. QED
    BY <1>0, <1>6, <2>2, <2>3, ThreadStep DEF Rename, TypeOK, InProgress
<1>7. CASE DoShardRaises(s)
  <2>1. TypeOK'
    BY <1>7 DEF DoShardRaises, TypeOK, InProgress, onDisk
  <2>2. QED
    BY <1>0, <1>7, <2>1, ThreadStep DEF DoShardRaises, onDisk, InProgress
<1>8. QED
  BY <1>1, <1>2, <1>3, <1>4, <1>5, <1>6, <1>7 DEF DoShard

----------------------------------------------------------------------------

\* Either tool comes to an end, well or not, with everything on disk as it was
\* except possibly one of the JSON files or one broken header.
LEMMA EndsType ==
  ASSUME TypeOK, NEW how \in Stopped, Ends(how)
  PROVE  /\ phase' = how /\ phase' \in Stopped /\ args' \in RunArgs
         /\ next' \in 1..(NumShards + 1)
         /\ worker' \in [Shards -> InProgress \cup {"none", "todo", "listed", "done", "failed"}]
         /\ newMap' \in SUBSET Names
         /\ PoolInv' /\ WorkerInv'
         /\ args' = args
<1>1. NumShards \in Nat
  BY ExpertSliceAssumption
<1>2. QED
  BY <1>1 DEF Ends, TypeOK, PoolInv, WorkerInv, Stopped, InProgress

LEMMA EndsIdle ==
  ASSUME IInv, Ends("idle"), UNCHANGED onDisk
  PROVE  IInv'
<1>1. "idle" \in Stopped
  BY DEF Stopped
<1>2. TypeOK'
  BY <1>1, EndsType DEF IInv, TypeOK, onDisk
<1>3. TrustedFiles'
  BY DEF IInv, TrustedFiles, onDisk
<1>4. CollectInv' /\ StripInv'
  BY <1>1, EndsType DEF IInv, CollectInv, StripInv
<1>5. QED
  BY <1>1, <1>2, <1>3, <1>4, EndsType DEF IInv

\* The slicer's main thread.
LEMMA SlicerStep ==
  ASSUME IInv,
         \/ \E a \in RunArgs : SliceStart(a)
         \/ Collect \/ Unwind \/ Joined
         \/ OpenIndex \/ WriteIndex \/ OpenConfig \/ WriteConfig
  PROVE  IInv'
<1> USE DEF IInv
<1>1. ASSUME NEW a \in RunArgs, SliceStart(a) PROVE IInv'
  <2>1. TypeOK'
    BY <1>1, ArgFacts DEF SliceStart, TypeOK, onDisk, Shards, InProgress
  <2>2. TrustedFiles'
    BY <1>1 DEF SliceStart, TrustedFiles, onDisk
  <2>3. PoolInv' /\ WorkerInv' /\ StripInv'
    BY <1>1 DEF SliceStart, PoolInv, WorkerInv, StripInv, Stopped, InProgress
  <2>4. CollectInv'
    <3>1. a.lo \in Int /\ a.hi \in Int /\ a.lo <= a.hi + 1
      BY ArgFacts
    <3>2. a.lo..(a.lo - 1) = {}
      BY <3>1
    <3>3. AllWanted(args.lo, next - 1)' = {}
      BY <1>1, <3>2 DEF SliceStart, AllWanted
    <3>4. QED
      BY <1>1, <3>1, <3>2, <3>3 DEF SliceStart, CollectInv
  <2>5. QED
    BY <2>1, <2>2, <2>3, <2>4
<1>2. CASE Collect
  <2>1. args.lo \in Int /\ args.hi \in Int /\ args.hi <= NumShards /\ NumShards \in Nat
        /\ args.lo >= 1
    BY ArgFacts DEF TypeOK
  <2>2. next \in args.lo..args.hi /\ next \in Shards
    BY <1>2, <2>1 DEF Collect, CollectInv, Shards
  <2>3. TypeOK'
    BY <1>2, <2>1, <2>2, RemoteNames DEF Collect, TypeOK, onDisk, Mine, Shards
  <2>4. TrustedFiles'
    BY <1>2 DEF Collect, TrustedFiles, onDisk
  <2>5. PoolInv' /\ WorkerInv' /\ StripInv'
    BY <1>2 DEF Collect, PoolInv, WorkerInv, StripInv, onDisk, Provided, Mine, Wanted
  <2>6. CollectInv'
    <3>1. args.lo..next = (args.lo..(next - 1)) \cup {next}
      BY <2>1, <2>2
    <3>2. AllWanted(args.lo, next) = AllWanted(args.lo, next - 1) \cup Mine(next)
      BY <3>1 DEF AllWanted, Mine
    <3>3. next' - 1 = next
      BY <1>2, <2>2 DEF Collect
    <3>4. AllWanted(args.lo, next - 1)' = AllWanted(args.lo, next)
      <4>1. args' = args
        BY <1>2 DEF Collect
      <4>2. AllWanted(args.lo, next - 1)' = UNION {Wanted(s, args.experts)' : s \in (args.lo..(next - 1))'}
        BY DEF AllWanted
      <4>3. (args.lo..(next - 1))' = args.lo..next
        BY <3>3, <4>1
      <4>4. \A s \in args.lo..next : Wanted(s, args.experts)' = Wanted(s, args.experts)
        BY <4>1 DEF Wanted
      <4>5. QED
        BY <4>2, <4>3, <4>4 DEF AllWanted
    <3>5. \A s \in args.lo..next : worker[s] \in {"listed", "done"}
      <4>1. \A s \in args.lo..(next - 1) : worker[s] \in {"listed", "done"}
        BY <1>2 DEF Collect, CollectInv
      <4>2. worker[next] \in {"listed", "done"}
        BY <1>2 DEF Collect
      <4>3. QED
        BY <3>1, <4>1, <4>2
    <3>6. next' \in args.lo..(args.hi + 1)
      BY <1>2, <2>1, <2>2 DEF Collect
    <3>7. newMap' = AllWanted(args.lo, next - 1)'
      BY <1>2, <3>2, <3>4 DEF Collect, CollectInv
    <3>8. QED
      BY <1>2, <3>3, <3>5, <3>6, <3>7 DEF Collect, CollectInv
  <2>7. QED
    BY <2>3, <2>4, <2>5, <2>6
<1>3. CASE Unwind
  <2>1. TypeOK'
    BY <1>3 DEF Unwind, TypeOK, onDisk
  <2>2. TrustedFiles'
    BY <1>3 DEF Unwind, TrustedFiles, onDisk
  <2>3. PoolInv' /\ WorkerInv' /\ StripInv'
    BY <1>3 DEF Unwind, PoolInv, WorkerInv, StripInv, onDisk, Provided, Mine, Wanted,
      Stopped, InProgress
  <2>4. QED
    BY <1>3, <2>1, <2>2, <2>3 DEF Unwind, CollectInv
<1>4. CASE Joined
  BY <1>4, EndsIdle DEF Joined
<1>5. CASE OpenIndex
  <2>1. TypeOK'
    BY <1>5 DEF OpenIndex, TypeOK
  <2>2. TrustedFiles'
    BY <1>5 DEF OpenIndex, TrustedFiles
  <2>3. next = args.hi + 1
    BY <1>5, ArgFacts DEF OpenIndex, CollectInv, TypeOK
  <2>4. PoolInv'
    <3>1. \A s \in Shards : worker[s] \in InProgress => s \in Selected(args)
      BY DEF PoolInv, InProgress
    <3>2. \A s \in Selected(args) : worker[s] \in {"listed", "done"}
      BY <1>5, <2>3, ArgFacts DEF OpenIndex, CollectInv, Selected, TypeOK
    <3>3. QED
      BY <1>5, <3>1, <3>2 DEF OpenIndex, PoolInv, Selected, Stopped, InProgress
  <2>5. WorkerInv' /\ StripInv'
    BY <1>5 DEF OpenIndex, WorkerInv, StripInv, Provided, Mine, Wanted
  <2>6. CollectInv'
    <3>1. AllWanted(args.lo, next - 1)' = AllWanted(args.lo, next - 1)
      BY <1>5 DEF OpenIndex, AllWanted, Wanted
    <3>2. QED
      BY <1>5, <2>3, <3>1 DEF OpenIndex, CollectInv
  <2>7. QED
    BY <2>1, <2>2, <2>4, <2>5, <2>6
<1>6. CASE WriteIndex
  <2>1. TypeOK'
    BY <1>6 DEF WriteIndex, TypeOK
  <2>2. TrustedFiles'
    BY <1>6 DEF WriteIndex, TrustedFiles
  <2>3. PoolInv' /\ WorkerInv' /\ StripInv'
    BY <1>6 DEF WriteIndex, PoolInv, WorkerInv, StripInv, Provided, Mine, Wanted, Stopped
  <2>4. next - 1 = args.hi /\ args.lo \in Int /\ args.hi \in Int
    BY <1>6, ArgFacts DEF WriteIndex, CollectInv, TypeOK
  <2>5. newMap = AllWanted(args.lo, args.hi)
    BY <1>6, <2>4 DEF WriteIndex, CollectInv
  <2>6. \A s \in Selected(args) : Provided(s)
    BY <1>6, <2>4, ArgFacts DEF WriteIndex, CollectInv, WorkerInv, Selected, TypeOK
  <2>7. CollectInv'
    <3>1. AllWanted(args.lo, args.hi)' = AllWanted(args.lo, args.hi)
      BY <1>6 DEF WriteIndex, AllWanted, Wanted
    <3>2. \A s \in Selected(args)' : Provided(s)'
      BY <1>6, <2>6 DEF WriteIndex, Provided, Mine, Wanted, Selected
    <3>3. QED
      BY <1>6, <2>5, <3>1, <3>2 DEF WriteIndex, CollectInv
  <2>8. QED
    BY <2>1, <2>2, <2>3, <2>7
<1>7. CASE OpenConfig
  <2>1. TypeOK'
    BY <1>7 DEF OpenConfig, TypeOK
  <2>2. TrustedFiles'
    BY <1>7 DEF OpenConfig, TrustedFiles
  <2>3. PoolInv' /\ WorkerInv' /\ StripInv'
    BY <1>7 DEF OpenConfig, PoolInv, WorkerInv, StripInv, Provided, Mine, Wanted, Stopped
  <2>4. CollectInv'
    <3>1. AllWanted(args.lo, args.hi)' = AllWanted(args.lo, args.hi)
      BY <1>7 DEF OpenConfig, AllWanted, Wanted
    <3>2. \A s \in Selected(args) : Provided(s)
      BY <1>7 DEF OpenConfig, CollectInv
    <3>3. \A s \in Selected(args)' : Provided(s)'
      BY <1>7, <3>2 DEF OpenConfig, Provided, Mine, Wanted, Selected
    <3>4. QED
      BY <1>7, <3>1, <3>3 DEF OpenConfig, CollectInv
  <2>5. QED
    BY <2>1, <2>2, <2>3, <2>4
<1>8. CASE WriteConfig
  <2>0. "sliced" \in Stopped /\ Ends("sliced")
    BY <1>8 DEF Stopped, WriteConfig
  <2>1. TypeOK'
    BY <1>8, <2>0, EndsType, ArgFacts DEF WriteConfig, TypeOK
  <2>2. TrustedFiles'
    BY <1>8 DEF WriteConfig, TrustedFiles
  <2>3. StripInv'
    BY <2>0, EndsType DEF StripInv
  <2>4. CollectInv'
    <3>1. AllWanted(args.lo, args.hi)' = AllWanted(args.lo, args.hi)
      <4>1. args' = args
        BY <2>0, EndsType
      <4>2. QED
        BY <4>1 DEF AllWanted, Wanted
    <3>2. \A s \in Selected(args) : Provided(s)
      BY <1>8 DEF WriteConfig, CollectInv
    <3>3. \A s \in Selected(args)' : Provided(s)'
      BY <1>8, <2>0, <3>2, EndsType DEF WriteConfig, Provided, Mine, Wanted, Selected
    <3>4. QED
      <4>1. /\ index = Index(AllWanted(args.lo, args.hi))
            /\ index' = index /\ config' = Config(args.experts) /\ args' = args
            /\ phase' = "sliced"
        BY <1>8, <2>0, EndsType DEF WriteConfig, CollectInv
      <4>2. QED
        BY <3>1, <3>3, <4>1 DEF CollectInv, Index, Config
  <2>5. QED
    BY <2>0, <2>1, <2>2, <2>3, <2>4, EndsType
<1>9. QED
  BY <1>1, <1>2, <1>3, <1>4, <1>5, <1>6, <1>7, <1>8

\* strip_lm_prefix.py.
LEMMA StripStep ==
  ASSUME IInv,
         \/ StripStart \/ FixShard \/ KilledInHeader \/ StripRaises
         \/ OpenStrippedIndex \/ WriteStrippedIndex
  PROVE  IInv'
<1> USE DEF IInv
<1>0. phase = "strip" => \A s \in Shards : worker[s] = "none"
  BY DEF PoolInv
<1>1. CASE StripStart
  <2>1. TypeOK'
    BY <1>1, ExpertSliceAssumption DEF StripStart, TypeOK, onDisk
  <2>2. TrustedFiles'
    BY <1>1 DEF StripStart, TrustedFiles, onDisk
  <2>3. PoolInv' /\ WorkerInv'
    BY <1>1 DEF StripStart, PoolInv, WorkerInv, Provided, Mine, Wanted, onDisk, Stopped, InProgress
  <2>4. CollectInv' /\ StripInv'
    BY <1>1 DEF StripStart, CollectInv, StripInv, Shards
  <2>5. QED
    BY <2>1, <2>2, <2>3, <2>4
<1>2. CASE FixShard
  <2>1. next \in Shards /\ next' = next + 1 /\ NumShards \in Nat
    BY <1>2, ExpertSliceAssumption DEF FixShard, TypeOK, Shards
  <2>2. CASE HasPrefix(disk[next])
    <3>1. /\ disk[next] \in Files /\ disk[next].names \in SUBSET Names
          /\ disk[next].cut \in Experts
          /\ disk[next] = File(disk[next].names, disk[next].cut)
      BY <2>1, <2>2, WholeFiles DEF HasPrefix, TypeOK
    <3>2. /\ disk' = [disk EXCEPT ![next] = File(Stripped(disk[next].names), disk[next].cut)]
          /\ Stripped(disk[next].names) \in SUBSET Names
      <4>1. [disk[next] EXCEPT !.names = Stripped(@)] =
              File(Stripped(disk[next].names), disk[next].cut)
        BY <3>1 DEF File
      <4>2. QED
        BY <1>2, <2>2, <3>1, <4>1, StrippedNames DEF FixShard
    <3>3. TypeOK'
      BY <1>2, <2>1, <3>1, <3>2 DEF FixShard, TypeOK, Files, Shards
    <3>4. disk'[next].names = Stripped(disk[next].names) /\ disk'[next].cut = disk[next].cut
          /\ disk'[next] # Truncated
      BY <2>1, <3>2, Contents DEF TypeOK
    <3>5. TrustedFiles'
      <4>1. Stripped(disk'[next].names) = Stripped(Wanted(next, disk'[next].cut))
        BY <2>1, <2>2, <3>1, <3>4, StrippedNames DEF TrustedFiles, HasPrefix
      <4>2. \A s \in Shards : s # next => disk'[s] = disk[s]
        BY <3>2 DEF TypeOK
      <4>3. \A s \in Shards :
              /\ disk'[s] # Truncated
              /\ IsWhole(disk'[s]) =>
                   Stripped(disk'[s].names) = Stripped(Wanted(s, disk'[s].cut))
        BY <3>4, <4>1, <4>2 DEF TrustedFiles
      <4>4. QED
        BY <4>3 DEF TrustedFiles, IsWhole, Stripped, Wanted
    <3>6. PoolInv' /\ WorkerInv' /\ CollectInv'
      BY <1>0, <1>2 DEF FixShard, PoolInv, WorkerInv, CollectInv, InProgress
    <3>7. StripInv'
      <4>1. ~HasPrefix(disk'[next])
        BY <3>1, <3>4, StrippedNames DEF HasPrefix
      <4>2. \A s \in Shards : s < next' => ~HasPrefix(disk'[s])
        BY <1>2, <2>1, <3>2, <4>1 DEF FixShard, StripInv, TypeOK, Shards
      <4>3. QED
        BY <1>2, <4>2 DEF FixShard, StripInv, HasPrefix, IsWhole
    <3>8. QED
      BY <3>3, <3>5, <3>6, <3>7
  <2>3. CASE ~HasPrefix(disk[next])
    <3>1. TypeOK'
      BY <1>2, <2>1, <2>3 DEF FixShard, TypeOK, Shards
    <3>2. TrustedFiles'
      BY <1>2, <2>3 DEF FixShard, TrustedFiles
    <3>3. PoolInv' /\ WorkerInv' /\ CollectInv'
      BY <1>0, <1>2 DEF FixShard, PoolInv, WorkerInv, CollectInv, InProgress
    <3>4. \A s \in Shards : s < next' => ~HasPrefix(disk[s])
      BY <1>2, <2>1, <2>3 DEF FixShard, StripInv, TypeOK, Shards
    <3>5. StripInv'
      BY <1>2, <2>3, <3>4 DEF FixShard, StripInv
    <3>6. QED
      BY <3>1, <3>2, <3>3, <3>5
  <2>4. QED
    BY <2>2, <2>3
<1>3. CASE KilledInHeader
  <2>1. "idle" \in Stopped /\ Ends("idle")
    BY <1>3 DEF KilledInHeader, Stopped
  <2>2. TypeOK'
    BY <1>3, <2>1, EndsType DEF KilledInHeader, TypeOK
  <2>3. TrustedFiles'
    BY <1>3, Damaged DEF KilledInHeader, TrustedFiles, TypeOK
  <2>4. CollectInv' /\ StripInv'
    BY <2>1, EndsType DEF CollectInv, StripInv
  <2>5. QED
    BY <2>1, <2>2, <2>3, <2>4, EndsType
<1>4. CASE StripRaises
  BY <1>4, EndsIdle DEF StripRaises
<1>5. CASE OpenStrippedIndex
  <2>1. index.names \in SUBSET Names
    BY <1>5, Damaged, Contents DEF OpenStrippedIndex, TypeOK
  <2>2. newMap' = Stripped(index.names) /\ newMap' \in SUBSET Names
        /\ \A n \in newMap' : ~n.prefixed
    BY <1>5, <2>1, StrippedNames DEF OpenStrippedIndex
  <2>3. TypeOK'
    BY <1>5, <2>2 DEF OpenStrippedIndex, TypeOK
  <2>4. TrustedFiles'
    BY <1>5 DEF OpenStrippedIndex, TrustedFiles
  <2>5. PoolInv' /\ WorkerInv' /\ CollectInv'
    BY <1>0, <1>5 DEF OpenStrippedIndex, PoolInv, WorkerInv, CollectInv, InProgress
  <2>6. \A s \in Shards : s < next
    BY <1>5, ExpertSliceAssumption DEF OpenStrippedIndex, TypeOK, Shards
  <2>7. StripInv'
    BY <1>5, <2>2, <2>6 DEF OpenStrippedIndex, StripInv
  <2>8. QED
    BY <2>3, <2>4, <2>5, <2>7
<1>6. CASE WriteStrippedIndex
  <2>1. "stripped" \in Stopped /\ Ends("stripped")
    BY <1>6 DEF WriteStrippedIndex, Stopped
  <2>2. TypeOK'
    BY <1>6, <2>1, EndsType DEF WriteStrippedIndex, TypeOK
  <2>3. TrustedFiles'
    BY <1>6 DEF WriteStrippedIndex, TrustedFiles
  <2>4. CollectInv'
    BY <2>1, EndsType DEF CollectInv
  <2>5. StripInv'
    <3>1. index' = Index(newMap) /\ disk' = disk /\ phase' = "stripped"
          /\ phase = "stripindex"
      BY <1>6, <2>1, EndsType DEF WriteStrippedIndex
    <3>2. ~HasPrefix(index')
      BY <3>1, Contents DEF StripInv, HasPrefix
    <3>3. QED
      BY <3>1, <3>2 DEF StripInv, HasPrefix, IsWhole
  <2>6. QED
    BY <2>1, <2>2, <2>3, <2>4, <2>5, EndsType
<1>7. QED
  BY <1>1, <1>2, <1>3, <1>4, <1>5, <1>6

LEMMA StepInv == IInv /\ [Next]_vars => IInv'
<1> SUFFICES ASSUME IInv, [Next]_vars PROVE IInv'
  OBVIOUS
<1>1. CASE UNCHANGED vars
  <2>1. TypeOK' /\ TrustedFiles' /\ StripInv'
    BY <1>1 DEF vars, IInv, TypeOK, TrustedFiles, StripInv
  <2>2. PoolInv' /\ WorkerInv'
    BY <1>1 DEF vars, IInv, PoolInv, WorkerInv, Provided, Mine, Wanted, Selected
  <2>3. CollectInv'
    <3>1. /\ AllWanted(args.lo, next - 1)' = AllWanted(args.lo, next - 1)
          /\ AllWanted(args.lo, args.hi)' = AllWanted(args.lo, args.hi)
      BY <1>1 DEF vars, AllWanted, Wanted
    <3>2. (\A s \in Selected(args) : Provided(s)) => \A s \in Selected(args)' : Provided(s)'
      BY <1>1 DEF vars, Provided, Mine, Wanted, Selected
    <3>3. QED
      BY <1>1, <3>1, <3>2 DEF vars, IInv, CollectInv
  <2>4. QED
    BY <2>1, <2>2, <2>3 DEF IInv
<1>2. CASE \E s \in Shards : Take(s) \/ DoShard(s) \/ DoShardRaises(s)
  BY <1>2, WorkerStep
<1>3. CASE Main
  BY <1>3, SlicerStep, StripStep DEF Main
<1>4. CASE \/ \E a \in RunArgs : SliceStart(a)
           \/ StripStart \/ KilledInHeader \/ Kill
  BY <1>4, SlicerStep, StripStep, EndsIdle DEF Kill
<1>5. QED
  BY <1>1, <1>2, <1>3, <1>4 DEF Next

\* The invariant of both tools and everything they share through the disk.
THEOREM Inductive == Spec => []IInv
  BY InitInv, StepInv, PTL DEF Spec

----------------------------------------------------------------------------

THEOREM TypeCorrect == Spec => []TypeOK
  BY Inductive, PTL DEF IInv

\* A final name never stands before a half-written shard, or one that lacks a
\* tensor its run wanted, after any number of kills and failed runs.
THEOREM TrustedFilesHolds == Spec => []TrustedFiles
  BY Inductive, PTL DEF IInv

\* A run over all shards that ends well completes what earlier runs of the same
\* expert count began.
THEOREM CompleteSliceHolds == Spec => []CompleteSlice
<1>1. IInv => CompleteSlice
  <2> SUFFICES ASSUME IInv, phase = "sliced", Selected(args) = Shards, SameCut
               PROVE  /\ IsWhole(index) /\ index.names = NamesOnDisk
                      /\ NamesOnDisk = UNION {Wanted(s, args.experts) : s \in Shards}
                      /\ IsWhole(config) /\ config.cut = args.experts
    BY DEF CompleteSlice
  <2>1. /\ index = Index(UNION {Wanted(s, args.experts) : s \in Shards})
        /\ \A s \in Shards : Provided(s)
        /\ config = Config(args.experts)
    BY DEF IInv, CollectInv, AllWanted, Selected
  <2>2. \A s \in Shards :
          /\ IsWhole(disk[s]) => disk[s].names = Wanted(s, args.experts)
          /\ ~IsWhole(disk[s]) => Wanted(s, args.experts) = {}
    BY <2>1, Contents, Damaged DEF SameCut, Provided, Mine
  <2>3. NamesOnDisk = UNION {Wanted(s, args.experts) : s \in Shards}
    BY <2>2 DEF NamesOnDisk
  <2>4. QED
    BY <2>1, <2>3, Contents
<1>2. QED
  BY <1>1, Inductive, PTL

\* However often strip_lm_prefix.py was killed on the way, once it ends well
\* neither a shard nor the index has a prefixed name.
THEOREM NoPrefixLeftHolds == Spec => []NoPrefixLeft
<1>1. IInv => NoPrefixLeft
  BY DEF IInv, StripInv, NoPrefixLeft
<1>2. QED
  BY <1>1, Inductive, PTL
=============================================================================

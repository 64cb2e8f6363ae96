------------------------- MODULE LogSyncRedoProofs -------------------------
(***************************************************************************)
(* Proofs about LogSync: the saved position never moves back, no entry is  *)
(* worked on twice, and how much a dying process can lose.                 *)
(***************************************************************************)
EXTENDS LogSyncProofs, FiniteSetTheorems

(* The downloader has loaded its position and has not finished with it. *)
Reading == DownloadPcs \cup {"unhook", "final"}

LEMMA OtherLog ==
  ASSUME TypeOK, NEW l \in Logs, NEW k \in Logs, k # l, Downloader(k)
  PROVE  /\ pc'[l] = pc[l] /\ index'[l] = index[l]
         /\ cachePos'[l] = cachePos[l] /\ diskPos'[l] = diskPos[l]
<1> USE DEF TypeOK, durable
<1>1. CASE SaveTick(k) \/ SaveFinal(k)
  <2>1. /\ cachePos' \in {cachePos, [cachePos EXCEPT ![k] = index[k]]}
        /\ diskPos' \in {diskPos, [diskPos EXCEPT ![k] = index[k]],
                         [diskPos EXCEPT ![k] = Absent]}
    BY <1>1 DEF SaveTick, SaveFinal, SaveState, SaveLogState, StoreInRedis, StoreOnDisk,
      SavedIndex
  <2>2. pc'[l] = pc[l] /\ index'[l] = index[l]
    BY <1>1 DEF SaveTick, SaveFinal, download
  <2> QED BY <2>1, <2>2
<1>2. CASE ~(SaveTick(k) \/ SaveFinal(k))
  BY <1>2 DEF Downloader, Sync, NewLogWorker, SyncFails, Fetch, GetEntries, RateLimited,
    BackoffOver, GetEntriesFails, SkipErroneous, Submit, SignalCaught, Unhook, PollSignal,
    PollTimeout, Leave, Notify
<1> QED BY <1>1, <1>2

(* Nothing but a downloader and a restart moves a downloader. *)
LEMMA OthersKeepPos ==
  ASSUME [Next]_vars, ~Restart, \A l \in Logs : ~Downloader(l)
  PROVE  UNCHANGED <<pc, index, endPos, respEnd, cachePos, diskPos>>
  BY DEF Next, GrowTree, Worker, Register, TakeEntry, Drop, StoreOk, StoreFails, WorkerDone,
    Main, MainStop, StopReturns, ThreadsWaited, MainExit, Signal, Crash, Terminated, vars,
    durable, download

(* The steps of a downloader that has its position, apart from the saves: the
   index stays or takes one step. *)
LEMMA ReadingStep ==
  ASSUME TypeOK, NEW l \in Logs, Downloader(l), pc[l] \in Reading
  PROVE  \/ /\ index'[l] = index[l] /\ pc'[l] \in Reading
            /\ cachePos'[l] = cachePos[l] /\ diskPos'[l] = diskPos[l]
         \/ /\ Submit(l) \/ SkipErroneous(l)
            /\ pc[l] = "submit" /\ pc'[l] \in Reading
            /\ index'[l] = index[l] + 1
            /\ cachePos'[l] = cachePos[l] /\ diskPos'[l] = diskPos[l]
         \/ /\ SaveTick(l) /\ pc'[l] = pc[l] /\ index'[l] = index[l]
         \/ /\ SaveFinal(l) /\ pc'[l] \notin Reading /\ index'[l] = index[l]
<1> USE DEF TypeOK, Reading, DownloadPcs, durable
<1>1. CASE Submit(l) \/ SkipErroneous(l)
  BY <1>1 DEF Submit, AtSelect, SkipErroneous, NextPc
<1>2. CASE SaveTick(l)
  BY <1>2 DEF SaveTick, download
<1>3. CASE SaveFinal(l)
  BY <1>3 DEF SaveFinal, AfterSync
<1>4. CASE ~(Submit(l) \/ SkipErroneous(l) \/ SaveTick(l) \/ SaveFinal(l))
  BY <1>4 DEF Downloader, Sync, NewLogWorker, SyncFails, Fetch, GetEntries, RateLimited,
    BackoffOver, GetEntriesFails, SignalCaught, Unhook, PollSignal, PollTimeout, Leave, Notify
<1> QED BY <1>1, <1>2, <1>3, <1>4

(* The steps of a downloader between two syncs while Redis answers: only
   NewLogWorker, which loads the position, brings it back to reading. *)
LEMMA IdleStep ==
  ASSUME ~RedisFails, TypeOK, NEW l \in Logs, Downloader(l), pc[l] \notin Reading
  PROVE  /\ cachePos'[l] = cachePos[l] /\ diskPos'[l] = diskPos[l]
         /\ \/ pc'[l] \notin Reading /\ index'[l] = index[l]
            \/ index'[l] = StartPosOf(l, TRUE)
<1> USE DEF TypeOK, Reading, DownloadPcs, durable
<1>1. CASE Sync(l)
  <2> PICK size \in 0..MaxTree, ok \in BOOLEAN : NewLogWorker(l, size, ok)
    BY <1>1 DEF Sync
  <2>1. ok
    BY DEF NewLogWorker
  <2>2. ok = TRUE
    BY <2>1
  <2> QED BY <2>2 DEF NewLogWorker, FirstIndex
<1>2. CASE ~Sync(l)
  BY <1>2 DEF Downloader, SyncFails, Fetch, GetEntries, RateLimited, BackoffOver,
    GetEntriesFails, SkipErroneous, Submit, AtSelect, SaveTick, SignalCaught, Unhook,
    SaveFinal, PollSignal, PollTimeout, Leave, Notify, AfterSync
<1> QED BY <1>1, <1>2
-----------------------------------------------------------------------------
(* A position in Redis is not beyond the index of the downloader that read it. *)
PosInv == \A l \in Logs : pc[l] \in Reading => cachePos[l] <= index[l]

LEMMA PosStep ==
  ASSUME Offset = 0, ~RedisFails, TypeOK, PosInv, [Next]_vars, NEW l \in Logs
  PROVE  /\ cachePos'[l] >= cachePos[l]
         /\ pc'[l] \in Reading => cachePos'[l] <= index'[l]
<1>1. /\ cachePos[l] \in Int /\ diskPos[l] \in Int /\ index[l] \in Nat
      /\ cachePos[l] >= -1 /\ diskPos[l] >= -1
  BY MaxInt64Nat DEF TypeOK, Absent
<1>2. CASE Downloader(l) /\ pc[l] \in Reading
  <2>1. ASSUME SaveTick(l) \/ SaveFinal(l) PROVE cachePos'[l] \in {cachePos[l], index[l]}
    BY <2>1 DEF SaveTick, SaveFinal, SaveState, SaveLogState, StoreInRedis, SavedIndex,
      TypeOK, durable
  <2> QED BY <1>1, <1>2, <2>1, ReadingStep DEF PosInv
<1>3. CASE Downloader(l) /\ pc[l] \notin Reading
  <2>1. /\ cachePos'[l] = cachePos[l]
        /\ \/ pc'[l] \notin Reading /\ index'[l] = index[l]
           \/ index'[l] = StartPosOf(l, TRUE)
    BY <1>3, IdleStep
  <2> QED BY <1>1, <1>3, <2>1 DEF StartPosOf, LoadPos, LoadFromRedis, LoadFromDisk, Absent
<1>4. CASE \E k \in Logs \ {l} : Downloader(k)
  BY <1>1, <1>4, OtherLog DEF PosInv
<1>5. CASE Restart
  BY <1>1, <1>5 DEF Restart, Started, durable, Reading, DownloadPcs
<1>6. CASE ~Restart /\ \A k \in Logs : ~Downloader(k)
  BY <1>1, <1>6, OthersKeepPos DEF PosInv
<1> QED BY <1>2, <1>3, <1>4, <1>5, <1>6

(* Without an offset and while Redis answers, the position in Redis never moves
   back, through stale tree heads, failed disk writes, signals, kills and
   restarts: a downloader starts from what it read there, only counts up, and
   is the only one to write it. *)
THEOREM PosNeverBackHolds ==
  ASSUME Offset = 0, ~RedisFails
  PROVE  Spec => PosNeverBack
<1>1. Init => PosInv
  BY DEF Init, PosInv, Reading, DownloadPcs
<1>2. TypeOK /\ PosInv /\ [Next]_vars => PosInv'
  BY PosStep DEF PosInv
<1>3. TypeOK /\ PosInv /\ [Next]_vars => [\A l \in Logs : cachePos'[l] >= cachePos[l]]_vars
  BY PosStep
<1> QED BY <1>1, <1>2, <1>3, TypeCorrect, PTL DEF Spec, PosNeverBack
-----------------------------------------------------------------------------
(* Where a sync of log l is, or where the next one would resume. *)
Reached(l) == IF pc[l] \in Reading THEN index[l] ELSE LoadPos(l, TRUE)

(* The inductive invariant behind NoRedo: indexes fit the int64 that saveState
   insists on, a process winds up only when its downloaders have left, and
   what was taken up lies behind the position. *)
RedoInv ==
  /\ \A l \in Logs : index[l] <= MaxInt64
  /\ main # "waiting" => DownloadersDone
  /\ \A e \in Pipeline \cup handled \cup failed : e[2] < Reached(e[1])
  /\ NoRedo

LEMMA TreeFits == MaxTree <= MaxInt64
<1>1. MaxTree \in Nat /\ BatchSpan \in Nat /\ MaxTree + BatchSpan < Word \div 2
  BY ConstantsAssumption
<1>2. Word \div 2 \in Int
  BY ConstantsAssumption
<1> QED BY <1>1, <1>2 DEF MaxInt64

LEMMA ReachedStep ==
  ASSUME Offset = 0, ~RedisFails, TypeOK, InTree, \A l \in Logs : index[l] <= MaxInt64,
         NEW l \in Logs, Downloader(l)
  PROVE  /\ index'[l] <= MaxInt64
         /\ Reached(l)' \in Nat /\ Reached(l)' >= Reached(l)
         /\ Submit(l) => Reached(l) = index[l] /\ Reached(l)' = index[l] + 1
<1>1. /\ cachePos[l] \in Int /\ diskPos[l] \in Int /\ index[l] \in Nat
      /\ cachePos[l] >= -1 /\ diskPos[l] >= -1
      /\ cachePos[l] <= MaxInt64 /\ diskPos[l] <= MaxInt64 /\ MaxInt64 \in Nat
  BY MaxInt64Nat DEF TypeOK, Absent
<1>2. CASE pc[l] \in Reading
  <2>1. CASE SaveTick(l) /\ pc'[l] = pc[l] /\ index'[l] = index[l]
    BY <1>1, <1>2, <2>1 DEF Reached, SaveTick, AtSelect, Submit, TypeOK
  <2>2. CASE SaveFinal(l) /\ pc'[l] \notin Reading /\ index'[l] = index[l]
    <3>1. cachePos'[l] = index[l]
      BY <2>2 DEF SaveFinal, SaveState, FitsInt64, SaveLogState, StoreInRedis, SavedIndex,
        TypeOK
    <3>3. ~Submit(l)
      BY <2>2 DEF SaveFinal, Submit, AtSelect
    <3> QED BY <1>1, <1>2, <2>2, <3>1, <3>3 DEF Reached, LoadPos, LoadFromRedis, Absent
  <2>3. CASE pc[l] = "submit" /\ pc'[l] \in Reading /\ index'[l] = index[l] + 1
    <3>1. index[l] + 1 <= MaxTree
      BY <1>1, <2>3, ConstantsAssumption DEF InTree, TypeOK
    <3> QED BY <1>1, <1>2, <2>3, <3>1, TreeFits, ConstantsAssumption DEF Reached
  <2>4. CASE index'[l] = index[l] /\ pc'[l] \in Reading
    <3>1. ~Submit(l)
      BY <1>1, <2>4 DEF Submit, TypeOK
    <3> QED BY <1>1, <1>2, <2>4, <3>1 DEF Reached
  <2> QED BY <1>2, <2>1, <2>2, <2>3, <2>4, ReadingStep
<1>3. CASE pc[l] \notin Reading
  <2>1. /\ cachePos'[l] = cachePos[l] /\ diskPos'[l] = diskPos[l]
        /\ \/ pc'[l] \notin Reading /\ index'[l] = index[l]
           \/ index'[l] = StartPosOf(l, TRUE)
    BY <1>3, IdleStep
  <2>2. ~Submit(l)
    BY <1>3 DEF Submit, AtSelect, Reading, DownloadPcs
  <2>3. /\ Reached(l)' = Reached(l) /\ Reached(l) \in Nat /\ Reached(l) <= MaxInt64
        /\ index'[l] \in {index[l], Reached(l)}
    BY <1>1, <1>3, <2>1 DEF Reached, StartPosOf, LoadPos, LoadFromRedis, LoadFromDisk, Absent
  <2> QED BY <1>1, <1>3, <2>2, <2>3
<1> QED BY <1>2, <1>3

LEMMA PipelineType == TypeOK => Pipeline \subseteq Entry
  BY DEF Pipeline, TypeOK

LEMMA ReachedInt ==
  ASSUME TypeOK
  PROVE  \A l \in Logs : Reached(l) \in Nat
  BY MaxInt64Nat DEF Reached, LoadPos, LoadFromRedis, LoadFromDisk, Absent, TypeOK

(* A step in which no downloader moves leaves the positions where they are,
   a restart included: the downloaders of the old process had left. *)
LEMMA ReachedKept ==
  ASSUME TypeOK, RedoInv, [Next]_vars, \A l \in Logs : ~Downloader(l)
  PROVE  \A l \in Logs : index'[l] <= MaxInt64 /\ Reached(l)' = Reached(l)
<1>1. CASE Restart
  BY <1>1, MaxInt64Nat DEF Restart, Started, durable, RedoInv, DownloadersDone, Reached,
    LoadPos, LoadFromRedis, LoadFromDisk, Reading, DownloadPcs
<1>2. CASE ~Restart
  BY <1>2, OthersKeepPos DEF RedoInv, Reached, LoadPos, LoadFromRedis, LoadFromDisk
<1> QED BY <1>1, <1>2

(* Submit is the only step that brings an entry into the pipeline, and it
   brings a new one. *)
LEMMA NoRedoStep ==
  ASSUME TypeOK, RedoInv, [Next]_vars,
         \A l \in Logs : Submit(l) => Reached(l) = index[l]
  PROVE  NoRedo'
<1> USE DEF ctlog, durable, download, pool, history, NoRedo, Held
<1>1. ASSUME NEW l \in Logs, Submit(l) PROVE NoRedo'
  <2>1. Current(l) \notin Pipeline \cup handled \cup failed
    <3>1. Current(l)[1] = l /\ Current(l)[2] = index[l] /\ index[l] \in Nat
      BY DEF Current, TypeOK
    <3> QED BY <1>1, <3>1 DEF RedoInv
  <2>2. Pipeline' = Pipeline \cup {Current(l)}
    BY <1>1, SubmitAdds
  <2>3. UNCHANGED <<handled, failed, holding>>
    BY <1>1 DEF Submit
  <2>4. /\ Len(entryChan') = Len(entryChan) + 1
        /\ entryChan'[Len(entryChan) + 1] = Current(l)
        /\ \A k \in 1..Len(entryChan) : entryChan'[k] = entryChan[k]
        /\ Len(entryChan) \in Nat
    <3>1. Current(l) \in Entry
      BY DEF Current, Entry, TypeOK
    <3> QED BY <1>1, <3>1 DEF Submit, TypeOK
  <2>5. \A k \in 1..Len(entryChan) : entryChan[k] # Current(l)
    BY <2>1 DEF Pipeline
  <2>6. \A w \in Workers : Current(l) \notin holding[w]
    BY <2>1 DEF Pipeline
  <2>7. \A k \in 1..Len(entryChan') :
          \/ k = Len(entryChan) + 1 /\ entryChan'[k] = Current(l)
          \/ k \in 1..Len(entryChan) /\ entryChan'[k] = entryChan[k]
    BY <2>4
  <2> QED BY <2>1, <2>2, <2>3, <2>5, <2>6, <2>7 DEF RedoInv
<1>2. ASSUME NEW w \in Workers, TakeEntry(w) PROVE NoRedo'
  <2>1. Pipeline' = Pipeline /\ UNCHANGED <<handled, failed>>
    BY <1>2, TakeKeeps DEF TakeEntry
  <2>2. /\ holding[w] = {} /\ holding'[w] = {entryChan[1]}
        /\ \A v \in Workers \ {w} : holding'[v] = holding[v]
        /\ Len(entryChan) \in Nat /\ Len(entryChan) >= 1
        /\ \A k \in 1..Len(entryChan') : /\ k + 1 \in 1..Len(entryChan)
                                          /\ entryChan'[k] = entryChan[k + 1]
    BY <1>2 DEF TakeEntry, TypeOK
  <2>3. \A v \in Workers : entryChan[1] \notin holding[v]
    BY <2>2 DEF RedoInv
  <2>4. \A k \in 1..Len(entryChan') : entryChan'[k] # entryChan[1]
    <3>1. ASSUME NEW k \in 1..Len(entryChan'), entryChan'[k] = entryChan[1] PROVE FALSE
      <4>1. 1 \in 1..Len(entryChan) /\ k + 1 \in 1..Len(entryChan) /\ k \in Nat \ {0}
        BY <2>2
      <4>2. entryChan[k + 1] = entryChan[1]
        BY <2>2, <3>1
      <4>3. k + 1 = 1
        BY <4>1, <4>2 DEF RedoInv
      <4> QED BY <4>1, <4>3
    <3> QED BY <3>1
  <2>5. \A k \in 1..Len(entryChan') : \A v \in Workers : entryChan'[k] \notin holding'[v]
    BY <2>2, <2>4 DEF RedoInv
  <2>6. \A k, j \in 1..Len(entryChan') : entryChan'[j] = entryChan'[k] => j = k
    <3>1. ASSUME NEW k \in 1..Len(entryChan'), NEW j \in 1..Len(entryChan'),
                 entryChan'[j] = entryChan'[k]
          PROVE  j = k
      <4>1. /\ j + 1 \in 1..Len(entryChan) /\ k + 1 \in 1..Len(entryChan)
            /\ entryChan[j + 1] = entryChan[k + 1]
        BY <2>2, <3>1
      <4>2. j + 1 = k + 1
        BY <4>1 DEF RedoInv
      <4>3. j \in Int /\ k \in Int
        OBVIOUS
      <4> QED BY <4>2, <4>3
    <3> QED BY <3>1
  <2>7. \A u, v \in Workers : u # v => holding'[u] \cap holding'[v] = {}
    BY <2>2, <2>3 DEF RedoInv
  <2> QED BY <2>1, <2>5, <2>6, <2>7 DEF RedoInv
<1>3. ASSUME NEW w \in Workers, Drop(w) \/ StoreOk(w) \/ StoreFails(w) PROVE NoRedo'
  <2>1. /\ holding'[w] = {} /\ \A v \in Workers \ {w} : holding'[v] = holding[v]
        /\ entryChan' = entryChan
        /\ handled' \cup failed' = handled \cup failed \cup holding[w]
    BY <1>3 DEF Drop, StoreOk, StoreFails, TypeOK
  <2>2. Pipeline' \subseteq Pipeline /\ Pipeline' \cap holding[w] = {}
    BY <2>1 DEF RedoInv, Pipeline
  <2>3. Pipeline' \cap (handled' \cup failed') = {}
    BY <2>1, <2>2 DEF RedoInv
  <2> QED BY <2>1, <2>3 DEF RedoInv
<1>4. CASE Crash \/ MainExit \/ Restart
  <2>1. entryChan' = <<>> /\ holding' = [w \in Workers |-> {}]
    BY <1>4 DEF Crash, MainExit, Restart, Started
  <2> QED BY <2>1 DEF Pipeline
<1>5. ASSUME NEW l \in Logs, Downloader(l), ~Submit(l) PROVE NoRedo'
  <2>1. UNCHANGED <<entryChan, holding, handled, failed>>
    BY <1>5 DEF Downloader, Sync, NewLogWorker, SyncFails, Fetch, GetEntries, RateLimited,
      BackoffOver, GetEntriesFails, SkipErroneous, SaveTick, SignalCaught, Unhook, SaveFinal,
      PollSignal, PollTimeout, Leave, Notify
  <2> QED BY <2>1 DEF RedoInv, Pipeline
<1>6. CASE \/ \E l \in Logs : GrowTree(l)
           \/ \E w \in Workers : Register(w) \/ WorkerDone(w)
           \/ MainStop \/ StopReturns \/ ThreadsWaited \/ Signal \/ Terminated
           \/ UNCHANGED vars
  <2>1. UNCHANGED <<entryChan, holding, handled, failed>>
    BY <1>6 DEF GrowTree, Register, WorkerDone, MainStop, StopReturns, ThreadsWaited, Signal,
      Terminated, vars
  <2> QED BY <2>1 DEF RedoInv, Pipeline
<1> QED BY <1>1, <1>2, <1>3, <1>4, <1>5, <1>6 DEF Next, Worker, Main

LEMMA RedoInvStep ==
  ASSUME Offset = 0, ~RedisFails, ~MayCrash
  PROVE  TypeOK /\ InTree /\ RedoInv /\ [Next]_vars => RedoInv'
<1> SUFFICES ASSUME TypeOK, InTree, RedoInv, [Next]_vars PROVE RedoInv'
  OBVIOUS
<1>1. ASSUME NEW l \in Logs, Downloader(l) PROVE RedoInv'
  <2>1. \A k \in Logs : index'[k] <= MaxInt64 /\ Reached(k)' \in Nat /\ Reached(k)' >= Reached(k)
    <3>1. ASSUME NEW k \in Logs \ {l} PROVE index'[k] = index[k] /\ Reached(k)' = Reached(k)
      BY <1>1, OtherLog DEF Reached, LoadPos, LoadFromRedis, LoadFromDisk
    <3>2. index'[l] <= MaxInt64 /\ Reached(l)' \in Nat /\ Reached(l)' >= Reached(l)
      BY <1>1, ReachedStep DEF RedoInv
    <3> QED BY <3>1, <3>2, ReachedInt DEF RedoInv
  <2>2. \A k \in Logs : Submit(k) => Reached(k) = index[k]
    BY DEF Submit, AtSelect, Reached, Reading, DownloadPcs
  <2>3. NoRedo'
    BY <2>2, NoRedoStep
  <2>4. main' = main /\ main = "waiting"
    BY <1>1 DEF RedoInv, DownloadersDone, Downloader, Sync, NewLogWorker, SyncFails, Fetch,
      GetEntries, RateLimited, BackoffOver, GetEntriesFails, SkipErroneous, Submit, AtSelect,
      SaveTick, SignalCaught, Unhook, SaveFinal, PollSignal, PollTimeout, Leave, Notify
  <2>5. (Pipeline \cup handled \cup failed)' \subseteq
           Pipeline \cup handled \cup failed \cup {k \in Logs \X Nat : Submit(l) /\ k = Current(l)}
    <3>1. CASE Submit(l)
      <4>1. Current(l) \in Logs \X Nat
        BY DEF Current, TypeOK
      <4>2. UNCHANGED <<handled, failed>>
        BY <3>1 DEF Submit, history
      <4>3. Pipeline' = Pipeline \cup {Current(l)}
        BY <3>1, SubmitAdds
      <4> QED BY <3>1, <4>1, <4>2, <4>3
    <3>2. CASE ~Submit(l)
      <4>1. UNCHANGED <<Pipeline, handled, failed>>
        BY <1>1, <3>2, DownloaderKeepsPipeline DEF Downloader, Sync, NewLogWorker, SyncFails,
          Fetch, GetEntries, RateLimited, BackoffOver, GetEntriesFails, SkipErroneous,
          SaveTick, SignalCaught, Unhook, SaveFinal, PollSignal, PollTimeout, Leave, Notify, history
      <4> QED BY <4>1
    <3> QED BY <3>1, <3>2
  <2>6. \A e \in Pipeline \cup handled \cup failed :
          e[1] \in Logs /\ e[2] \in Nat /\ e[2] < Reached(e[1])
    BY PipelineType DEF RedoInv, TypeOK, Entry
  <2>7. Submit(l) => Current(l)[1] = l /\ Current(l)[2] = index[l] /\ index[l] \in Nat
                     /\ Reached(l)' = index[l] + 1
    BY <1>1, ReachedStep DEF RedoInv, Current, TypeOK
  <2>8. \A e \in (Pipeline \cup handled \cup failed)' : e[2] < Reached(e[1])'
    BY <2>1, <2>5, <2>6, <2>7, ReachedInt
  <2> QED BY <2>1, <2>3, <2>4, <2>8 DEF RedoInv
<1>2. ASSUME \A l \in Logs : ~Downloader(l) PROVE RedoInv'
  <2>1. \A l \in Logs : index'[l] <= MaxInt64 /\ Reached(l)' = Reached(l)
    BY <1>2, ReachedKept
  <2>2. NoRedo'
    <3>1. \A l \in Logs : Submit(l) => Reached(l) = index[l]
      BY DEF Submit, AtSelect, Reached, Reading, DownloadPcs
    <3> QED BY <3>1, NoRedoStep
  <2>3. (main # "waiting" => DownloadersDone)'
    BY <1>2 DEF RedoInv, DownloadersDone, Next, GrowTree, Worker, Register, TakeEntry, Drop,
      StoreOk, StoreFails, WorkerDone, Main, MainStop, StopReturns, ThreadsWaited, MainExit,
      Signal, Crash, Restart, Started, Terminated, vars, download
  <2>4. (Pipeline \cup handled \cup failed)' \subseteq Pipeline \cup handled \cup failed
    <3>1. ASSUME NEW w \in Workers, Drop(w) \/ StoreOk(w) \/ StoreFails(w)
          PROVE  /\ (handled \cup failed)' = handled \cup failed \cup holding[w]
                 /\ \A v \in Workers : holding'[v] \subseteq holding[v]
                 /\ entryChan' = entryChan
      BY <3>1 DEF Drop, StoreOk, StoreFails, TypeOK
    <3>2. ASSUME NEW w \in Workers, Drop(w) \/ StoreOk(w) \/ StoreFails(w)
          PROVE  (Pipeline \cup handled \cup failed)' \subseteq Pipeline \cup handled \cup failed
      BY <3>1, <3>2 DEF Pipeline
    <3>3. ASSUME NEW w \in Workers, TakeEntry(w) PROVE UNCHANGED <<Pipeline, handled, failed>>
      BY <3>3, TakeKeeps DEF TakeEntry, history
    <3>4. CASE Crash \/ MainExit \/ Restart
      <4>1. entryChan' = <<>> /\ holding' = [w \in Workers |-> {}]
            /\ UNCHANGED <<handled, failed>>
        BY <3>4 DEF Crash, MainExit, Restart, Started
      <4> QED BY <4>1 DEF Pipeline
    <3>5. CASE \/ \E l \in Logs : GrowTree(l)
               \/ \E w \in Workers : Register(w) \/ WorkerDone(w)
               \/ MainStop \/ StopReturns \/ ThreadsWaited \/ Signal \/ Terminated
               \/ UNCHANGED vars
      BY <3>5 DEF GrowTree, Register, WorkerDone, MainStop, StopReturns, ThreadsWaited, Signal,
        Terminated, vars, pool, history, Pipeline
    <3> QED BY <1>2, <3>2, <3>3, <3>4, <3>5 DEF Next, Worker, Main
  <2>5. \A e \in Pipeline \cup handled \cup failed : e[1] \in Logs
    BY PipelineType DEF TypeOK, Entry
  <2> QED BY <2>1, <2>2, <2>3, <2>4, <2>5 DEF RedoInv
<1> QED BY <1>1, <1>2

(* While Redis answers, without an offset and without a kill, no entry is
   worked on twice, over all polls, signals, failed disk writes and restarts:
   what was taken up lies behind the index, the index is saved before the
   downloader leaves, and the next sync starts at what was saved. *)
THEOREM NoRedoHolds ==
  ASSUME Offset = 0, ~RedisFails, ~MayCrash
  PROVE  Spec => []NoRedo
<1>1. Init => RedoInv
  BY MaxInt64Nat DEF Init, RedoInv, NoRedo, Pipeline
<1>2. RedoInv => NoRedo
  BY DEF RedoInv
<1>3. SyncInv => TypeOK /\ InTree
  BY DEF SyncInv
<1> QED BY <1>1, <1>2, <1>3, RedoInvStep, SyncInvHolds, PTL DEF Spec
-----------------------------------------------------------------------------
(* What the pipeline holds: at most Cap entries wait in the channel, and every
   worker has at most one in its hands. *)
LEMMA PipelineBound ==
  ASSUME TypeOK, HoldsOne
  PROVE  /\ IsFiniteSet(Pipeline)
         /\ Cardinality(Pipeline) <= Cap + Cardinality(Workers)
<1> DEFINE chan  == {entryChan[k] : k \in 1..Len(entryChan)}
           hands == UNION {holding[w] : w \in Workers}
<1>1. IsFiniteSet(chan) /\ Cardinality(chan) <= Cap
  <2> DEFINE f == [k \in 1..Len(entryChan) |-> entryChan[k]]
  <2>1. Len(entryChan) \in Nat /\ Len(entryChan) <= Cap
    BY DEF TypeOK
  <2>2. f \in Surjection(1..Len(entryChan), chan)
    <3>1. f \in [1..Len(entryChan) -> chan]
      OBVIOUS
    <3>2. \A e \in chan : \E k \in 1..Len(entryChan) : f[k] = e
      OBVIOUS
    <3> QED BY <3>1, <3>2 DEF Surjection
  <2> HIDE DEF chan, f
  <2>3. /\ IsFiniteSet(1..Len(entryChan))
        /\ Cardinality(1..Len(entryChan)) = Len(entryChan)
    <3> DEFINE n == Len(entryChan)
    <3>1. n \in Nat
      BY <2>1
    <3> HIDE DEF n
    <3>2. IsFiniteSet(1..n) /\ Cardinality(1..n) = IF 1 > n THEN 0 ELSE n - 1 + 1
      BY <3>1, FS_Interval
    <3>3. Cardinality(1..n) = n
      BY <3>1, <3>2
    <3> QED BY <3>2, <3>3 DEF n
  <2>4. IsFiniteSet(chan) /\ Cardinality(chan) <= Len(entryChan)
    BY <2>2, <2>3, FS_Surjection
  <2> QED BY <2>1, <2>4, FS_CardinalityType, ConstantsAssumption
<1>2. IsFiniteSet(hands) /\ Cardinality(hands) <= Cardinality(Workers)
  <2> DEFINE g == [e \in hands |-> CHOOSE w \in Workers : e \in holding[w]]
  <2>1. \A e \in hands : g[e] \in Workers /\ e \in holding[g[e]]
    OBVIOUS
  <2>2. \A e, f \in hands : g[e] = g[f] => e = f
    BY <2>1 DEF HoldsOne
  <2>3. g \in Injection(hands, Workers)
    BY <2>1, <2>2 DEF Injection, IsInjective
  <2> HIDE DEF g
  <2> QED BY <2>3, FS_Injection, WorkersAssumption
<1> HIDE DEF chan, hands
<1>3. /\ IsFiniteSet(chan \cup hands)
      /\ Cardinality(chan \cup hands)
           = Cardinality(chan) + Cardinality(hands) - Cardinality(chan \cap hands)
  BY <1>1, <1>2, FS_Union
<1>4. Cardinality(chan \cap hands) \in Nat
  BY <1>1, FS_Intersection, FS_CardinalityType
<1>5. Cardinality(chan) \in Nat /\ Cardinality(hands) \in Nat /\ Cardinality(Workers) \in Nat
  BY <1>1, <1>2, WorkersAssumption, FS_CardinalityType
<1>6. Pipeline = chan \cup hands
  BY DEF Pipeline, chan, hands
<1> QED BY <1>1, <1>2, <1>3, <1>4, <1>5, <1>6, ConstantsAssumption

LEMMA OneMoreTimes ==
  ASSUME NEW n \in Nat, NEW c \in Nat
  PROVE  n * c \in Nat /\ (n + 1) * c = n * c + c
  OBVIOUS

LEMMA UnionBound ==
  ASSUME NEW S, NEW T, IsFiniteSet(S), IsFiniteSet(T)
  PROVE  /\ IsFiniteSet(S \cup T)
         /\ Cardinality(S \cup T) <= Cardinality(S) + Cardinality(T)
<1>1. Cardinality(S \cap T) \in Nat /\ Cardinality(S) \in Nat /\ Cardinality(T) \in Nat
  <2>1. IsFiniteSet(S \cap T)
    BY FS_Intersection
  <2> QED BY <2>1, FS_CardinalityType
<1>2. /\ IsFiniteSet(S \cup T)
      /\ Cardinality(S \cup T) = Cardinality(S) + Cardinality(T) - Cardinality(S \cap T)
  BY FS_Union
<1> QED BY <1>1, <1>2

(* Every process that ended lost at most what its pipeline held. *)
PipelineSize == Cap + Cardinality(Workers)
LostInv == IsFiniteSet(lost) /\ Cardinality(lost) <= EndedRuns * PipelineSize

LEMMA SizesNat ==
  ASSUME TypeOK
  PROVE  PipelineSize \in Nat /\ runs \in Nat \ {0} /\ EndedRuns \in Nat
<1>1. Cardinality(Workers) \in Nat
  BY WorkersAssumption, FS_CardinalityType
<1>2. runs \in Nat \ {0}
  BY ConstantsAssumption DEF TypeOK
<1> QED BY <1>1, <1>2, ConstantsAssumption DEF PipelineSize, EndedRuns

LEMMA LostInvStep == TypeOK /\ HoldsOne /\ LostInv /\ [Next]_vars => LostInv'
<1> SUFFICES ASSUME TypeOK, HoldsOne, LostInv, [Next]_vars PROVE LostInv'
  OBVIOUS
<1> USE DEF history
<1>1. PipelineSize \in Nat /\ runs \in Nat \ {0} /\ EndedRuns \in Nat
  BY SizesNat
<1>2. CASE Crash \/ MainExit
  <2>1. lost' = lost \cup Pipeline /\ EndedRuns' = EndedRuns + 1
    BY <1>1, <1>2 DEF Crash, MainExit, EndedRuns, Running
  <2>2. /\ IsFiniteSet(lost \cup Pipeline)
        /\ Cardinality(lost \cup Pipeline) <= Cardinality(lost) + Cardinality(Pipeline)
    BY PipelineBound, UnionBound DEF LostInv
  <2>3. /\ Cardinality(lost) <= EndedRuns * PipelineSize
        /\ Cardinality(Pipeline) <= PipelineSize
    BY PipelineBound DEF LostInv, PipelineSize
  <2>4. /\ Cardinality(lost) \in Nat /\ Cardinality(Pipeline) \in Nat
        /\ Cardinality(lost \cup Pipeline) \in Nat
    BY <2>2, PipelineBound, FS_CardinalityType DEF LostInv
  <2>5. /\ (EndedRuns + 1) * PipelineSize = EndedRuns * PipelineSize + PipelineSize
        /\ EndedRuns * PipelineSize \in Nat
    BY <1>1, OneMoreTimes
  <2>6. Cardinality(lost \cup Pipeline) <= (EndedRuns + 1) * PipelineSize
    <3> DEFINE p == EndedRuns * PipelineSize
               q == (EndedRuns + 1) * PipelineSize
    <3>1. p \in Nat /\ q = p + PipelineSize /\ Cardinality(lost) <= p
      BY <2>3, <2>5
    <3> HIDE DEF p, q
    <3>2. Cardinality(lost \cup Pipeline) <= q
      BY <1>1, <2>2, <2>3, <2>4, <3>1
    <3> QED BY <3>2 DEF q
  <2> QED BY <2>1, <2>2, <2>6 DEF LostInv, PipelineSize
<1>3. CASE Restart
  <2>1. lost' = lost /\ EndedRuns' = EndedRuns
    BY <1>1, <1>3 DEF Restart, Started, EndedRuns, Running
  <2> QED BY <2>1 DEF LostInv, PipelineSize
<1>4. CASE ~(Crash \/ MainExit \/ Restart)
  <2>1. /\ UNCHANGED <<lost, runs>>
        /\ (main = "exited") <=> (main' = "exited")
    <3>1. ASSUME NEW l \in Logs, GrowTree(l) \/ Downloader(l)
          PROVE UNCHANGED <<lost, runs, main>>
      BY <3>1 DEF GrowTree, Downloader, Sync, NewLogWorker, SyncFails, Fetch, GetEntries,
        RateLimited, BackoffOver, GetEntriesFails, SkipErroneous, Submit, SaveTick,
        SignalCaught, Unhook, SaveFinal, PollSignal, PollTimeout, Leave, Notify
    <3>2. ASSUME NEW w \in Workers, Worker(w) PROVE UNCHANGED <<lost, runs, main>>
      BY <3>2 DEF Worker, Register, TakeEntry, Drop, StoreOk, StoreFails, WorkerDone
    <3>3. CASE MainStop \/ StopReturns \/ ThreadsWaited \/ Signal \/ Terminated
               \/ UNCHANGED vars
      BY <3>3 DEF MainStop, StopReturns, ThreadsWaited, Signal, Terminated, vars
    <3> QED BY <1>4, <3>1, <3>2, <3>3 DEF Next, Main
  <2> QED BY <2>1 DEF LostInv, PipelineSize, EndedRuns, Running
<1> QED BY <1>2, <1>3, <1>4

LEMMA GapIsLost ==
  ASSUME TypeOK, SavedCovered, NEW pos \in {cachePos, diskPos}
  PROVE  Gap(pos) \subseteq lost
<1> SUFFICES ASSUME NEW e \in Gap(pos) PROVE e \in lost
  OBVIOUS
<1>1. PICK l \in Logs, i \in Offset..MaxTree : e = <<l, i>> /\ i < pos[l]
  BY DEF Gap
<1>2. pos[l] \in Int
  BY MaxInt64Nat DEF TypeOK, Absent
<1>3. i \in Offset..(pos[l] - 1)
  BY <1>1, <1>2, ConstantsAssumption
<1>4. <<l, i>> \in Seen
  BY <1>3 DEF SavedCovered, Accounted
<1> QED BY <1>1, <1>4 DEF Gap, Seen

(* What lies behind a saved position and was neither handled nor refused with
   an error is at most one full channel and one entry per worker for every
   process that ended, however the faults fall. *)
THEOREM GapBoundHolds == Spec => []GapBound
<1>1. Init => LostInv
  <2> SUFFICES ASSUME Init PROVE LostInv
    OBVIOUS
  <2>1. lost = {} /\ EndedRuns = 0
    BY DEF Init, EndedRuns, Running
  <2>2. PipelineSize \in Nat
    BY WorkersAssumption, FS_CardinalityType, ConstantsAssumption DEF PipelineSize
  <2> QED BY <2>1, <2>2, FS_EmptySet DEF LostInv
<1>2. SyncInv => TypeOK /\ HoldsOne /\ SavedCovered
  BY DEF SyncInv, Covered
<1>3. TypeOK /\ SavedCovered /\ LostInv => GapBound
  <2> SUFFICES ASSUME TypeOK, SavedCovered, LostInv, NEW pos \in {cachePos, diskPos}
               PROVE  Cardinality(Gap(pos)) <= EndedRuns * PipelineSize
    BY DEF GapBound, PipelineSize
  <2>1. IsFiniteSet(Gap(pos)) /\ Cardinality(Gap(pos)) <= Cardinality(lost)
    BY GapIsLost, FS_Subset DEF LostInv
  <2>2. Cardinality(Gap(pos)) \in Nat /\ Cardinality(lost) \in Nat
    BY <2>1, FS_CardinalityType DEF LostInv
  <2>3. EndedRuns * PipelineSize \in Nat
    <3>1. PipelineSize \in Nat /\ EndedRuns \in Nat
      BY SizesNat
    <3> QED BY <3>1, OneMoreTimes
  <2> DEFINE p == EndedRuns * PipelineSize
  <2>4. Cardinality(lost) <= p /\ p \in Nat
    BY <2>3 DEF LostInv
  <2> HIDE DEF p
  <2>5. Cardinality(Gap(pos)) <= p
    BY <2>1, <2>2, <2>4
  <2> QED BY <2>5 DEF p
<1> QED BY <1>1, <1>2, <1>3, LostInvStep, SyncInvHolds, PTL DEF Spec
=============================================================================

--------------------------- MODULE LogSyncProofs ---------------------------
(***************************************************************************)
(* Proofs about LogSync, for every set of logs and workers and every value *)
(* of the bounds, faults included.                                         *)
(***************************************************************************)
EXTENDS LogSync, TLAPS

LEMMA ModNat ==
  ASSUME NEW a \in Nat, NEW b \in Nat \ {0}
  PROVE  a % b \in Nat
  OBVIOUS

LEMMA MaxInt64Nat == MaxInt64 \in Nat
  BY ConstantsAssumption DEF MaxInt64

LEMMA LoadPosNat ==
  ASSUME TypeOK, NEW l \in Logs, NEW ok \in BOOLEAN
  PROVE  /\ StartPosOf(l, ok) \in Nat
         /\ \A size \in Nat : EndPosOf(StartPosOf(l, ok), size) \in Nat
<1>1. LoadPos(l, ok) \in Nat
  BY DEF TypeOK, LoadPos, LoadFromRedis, LoadFromDisk, Absent
<1>2. StartPosOf(l, ok) \in Nat
  BY <1>1, ConstantsAssumption DEF StartPosOf
<1>3. ASSUME NEW size \in Nat PROVE EndPosOf(StartPosOf(l, ok), size) \in Nat
  <2>1. (StartPosOf(l, ok) + Limit) % Word \in Nat
    BY <1>2, ModNat, ConstantsAssumption
  <2> QED BY <2>1 DEF EndPosOf
<1> QED BY <1>2, <1>3


(* Every variable keeps its type; a stored position is always an int64. *)
THEOREM TypeCorrect == Spec => []TypeOK
<1>1. Init => TypeOK
  BY ConstantsAssumption DEF Init, TypeOK, Pcs, Absent, MaxInt64, Entry
<1>2. TypeOK /\ [Next]_vars => TypeOK'
  <2> SUFFICES ASSUME TypeOK, [Next]_vars PROVE TypeOK'
    OBVIOUS
  <2> USE DEF ctlog, durable, download, pool, history
  <2>1. ASSUME NEW l \in Logs, GrowTree(l) PROVE TypeOK'
    BY <2>1, ConstantsAssumption, SMTT(20) DEF TypeOK, GrowTree
  <2>2. ASSUME NEW l \in Logs, Sync(l) PROVE TypeOK'
    <3> PICK size \in 0..MaxTree, ok \in BOOLEAN : NewLogWorker(l, size, ok)
      BY <2>2 DEF Sync
    <3>1. StartPosOf(l, ok) \in Nat /\ EndPosOf(StartPosOf(l, ok), size) \in Nat
      BY LoadPosNat, ConstantsAssumption
    <3> QED BY <3>1 DEF NewLogWorker, FirstIndex, TypeOK, Pcs, DownloadPcs, AfterSync
  <2>3. ASSUME NEW l \in Logs, SyncFails(l) PROVE TypeOK'
    BY <2>3 DEF SyncFails, TypeOK, Pcs, AfterSync
  <2>4. ASSUME NEW l \in Logs, Fetch(l) PROVE TypeOK'
    <3> PICK n \in 0..(BatchSpan + 1) : GetEntries(l, n)
      BY <2>4 DEF Fetch
    <3>1. index[l] + n \in Nat
      <4>1. index[l] \in Nat
        BY DEF TypeOK
      <4>2. n \in Nat
        BY ConstantsAssumption
      <4> QED BY <4>1, <4>2
    <3>2. /\ respEnd' \in [Logs -> Nat]
          /\ pc' \in [Logs -> Pcs]
      BY <3>1 DEF GetEntries, TypeOK, Pcs, DownloadPcs
    <3>3. UNCHANGED <<tree, runForever, cachePos, diskPos, index, endPos, sigInner, sigOuter,
                      entryChan, thread, holding, main, handled, failed, lost, runs>>
      BY DEF GetEntries
    <3> QED BY <3>2, <3>3 DEF TypeOK
  <2>5. ASSUME NEW l \in Logs, RateLimited(l) \/ BackoffOver(l) \/ GetEntriesFails(l)
        PROVE TypeOK'
    <3>1. pc' \in [Logs -> Pcs]
      BY <2>5 DEF RateLimited, BackoffOver, GetEntriesFails, TypeOK, Pcs, DownloadPcs
    <3>2. UNCHANGED <<tree, runForever, cachePos, diskPos, index, endPos, respEnd, sigInner,
                      sigOuter, entryChan, thread, holding, main, handled, failed, lost, runs>>
      BY <2>5 DEF RateLimited, BackoffOver, GetEntriesFails
    <3> QED BY <3>1, <3>2 DEF TypeOK
  <2>6. ASSUME NEW l \in Logs, SkipErroneous(l) PROVE TypeOK'
    BY <2>6, SMTT(20) DEF SkipErroneous, NextPc, TypeOK, Pcs, DownloadPcs
  <2>7. ASSUME NEW l \in Logs, Submit(l) PROVE TypeOK'
    <3>1. Current(l) \in Entry
      BY DEF Current, Entry, TypeOK
    <3>2. /\ Append(entryChan, Current(l)) \in Seq(Entry)
          /\ Len(Append(entryChan, Current(l))) <= Cap
      BY <2>7, <3>1, ConstantsAssumption DEF Submit, HasRoom, TypeOK
    <3> QED BY <2>7, <3>2, SMTT(20) DEF Submit, NextPc, TypeOK, Pcs, DownloadPcs
  <2>8. ASSUME NEW l \in Logs, SaveState(l)
        PROVE /\ cachePos' \in [Logs -> Absent..MaxInt64]
              /\ diskPos' \in [Logs -> Absent..MaxInt64]
    <3>1. Absent \in Absent..MaxInt64
      BY MaxInt64Nat DEF Absent
    <3>2. FitsInt64(index[l]) => SavedIndex(l) \in Absent..MaxInt64
      BY MaxInt64Nat DEF FitsInt64, SavedIndex, TypeOK, Absent
    <3> QED BY <2>8, <3>1, <3>2 DEF SaveState, SaveLogState, StoreInRedis, StoreOnDisk, TypeOK
  <2>9. ASSUME NEW l \in Logs, SaveTick(l) PROVE TypeOK'
    BY <2>9, <2>8 DEF SaveTick, TypeOK
  <2>10. ASSUME NEW l \in Logs, SaveFinal(l) PROVE TypeOK'
    BY <2>10, <2>8 DEF SaveFinal, TypeOK, Pcs, AfterSync
  <2>11. ASSUME NEW l \in Logs, SignalCaught(l) \/ Unhook(l) PROVE TypeOK'
    BY <2>11 DEF SignalCaught, Unhook, TypeOK, Pcs
  <2>12. ASSUME NEW l \in Logs, PollSignal(l) \/ PollTimeout(l) \/ Leave(l) \/ Notify(l) PROVE TypeOK'
    BY <2>12 DEF PollSignal, PollTimeout, Leave, Notify, TypeOK, Pcs
  <2>13. CASE Signal
    BY <2>13 DEF Signal, OuterNotified, TypeOK
  <2>14. Pipeline \subseteq Entry
    BY DEF Pipeline, TypeOK
  <2>15. CASE Crash
    BY <2>15, <2>14, ConstantsAssumption DEF Crash, TypeOK
  <2>16. ASSUME NEW w \in Workers, Register(w) \/ WorkerDone(w) PROVE TypeOK'
    BY <2>16 DEF Register, WorkerDone, TypeOK
  <2>17. ASSUME NEW w \in Workers, TakeEntry(w) PROVE TypeOK'
    <3>1. /\ Head(entryChan) \in Entry /\ Tail(entryChan) \in Seq(Entry)
          /\ Len(Tail(entryChan)) <= Cap
      BY <2>17, ConstantsAssumption DEF TakeEntry, TypeOK
    <3> QED BY <2>17, <3>1 DEF TakeEntry, TypeOK
  <2>18. ASSUME NEW w \in Workers, Drop(w) \/ StoreOk(w) \/ StoreFails(w) PROVE TypeOK'
    BY <2>18 DEF Drop, StoreOk, StoreFails, TypeOK
  <2>19. CASE MainStop \/ StopReturns \/ ThreadsWaited
    BY <2>19 DEF MainStop, StopReturns, ThreadsWaited, TypeOK
  <2>20. CASE MainExit
    BY <2>20, <2>14, ConstantsAssumption DEF MainExit, TypeOK
  <2>21. CASE Restart
    BY <2>21, ConstantsAssumption DEF Restart, Started, TypeOK, Pcs
  <2>22. CASE Terminated \/ UNCHANGED vars
    BY <2>22 DEF Terminated, vars, TypeOK
  <2> QED
    BY <2>1, <2>2, <2>3, <2>4, <2>5, <2>6, <2>7, <2>9, <2>10, <2>11, <2>12, <2>13, <2>15,
       <2>16, <2>17, <2>18, <2>19, <2>20, <2>21, <2>22
       DEF Next, Downloader, Worker, Main
<1> QED BY <1>1, <1>2, PTL DEF Spec

(* Steps that leave the pipeline and the histories alone. *)
Untouched == UNCHANGED <<entryChan, holding, handled, failed, lost>>

LEMMA UntouchedSeen == Untouched => Seen' = Seen
  BY DEF Untouched, Seen, Pipeline

(* An entry that was seen stays seen: it moves from the channel to a worker,
   from there to handled or failed, or to lost when the process ends. *)
LEMMA SeenGrows ==
  ASSUME TypeOK, Covered, [Next]_vars
  PROVE  Seen \subseteq Seen'
<1> USE DEF ctlog, durable, download, pool, history
<1>1. CASE \E l \in Logs : Submit(l)
  <2> PICK l \in Logs : Submit(l)
    BY <1>1
  <2>1. Current(l) \in Entry
    BY DEF Current, Entry, TypeOK
  <2>2. \A k \in 1..Len(entryChan) : k \in 1..Len(entryChan') /\ entryChan'[k] = entryChan[k]
    BY <2>1 DEF Submit, TypeOK
  <2> QED BY <2>2 DEF Submit, Seen, Pipeline
<1>2. CASE \E w \in Workers : TakeEntry(w)
  <2> PICK w \in Workers : TakeEntry(w)
    BY <1>2
  <2>1. /\ \A k \in 1..Len(entryChan) :
             \/ entryChan[k] \in holding'[w]
             \/ k - 1 \in 1..Len(entryChan') /\ entryChan'[k - 1] = entryChan[k]
        /\ \A v \in Workers : holding[v] \subseteq holding'[v]
    BY DEF TakeEntry, TypeOK
  <2>2. Pipeline \subseteq Pipeline'
    BY <2>1 DEF Pipeline
  <2> QED BY <2>2 DEF TakeEntry, Seen
<1>3. CASE \E w \in Workers : Drop(w) \/ StoreOk(w) \/ StoreFails(w)
  <2> PICK w \in Workers : Drop(w) \/ StoreOk(w) \/ StoreFails(w)
    BY <1>3
  <2>1. /\ holding[w] \subseteq handled' \cup failed'
        /\ \A v \in Workers \ {w} : holding'[v] = holding[v]
        /\ handled \subseteq handled' /\ failed \subseteq failed'
        /\ UNCHANGED <<entryChan, lost>>
    BY DEF Drop, StoreOk, StoreFails, TypeOK
  <2> QED BY <2>1 DEF Seen, Pipeline
<1>4. CASE Crash \/ MainExit
  BY <1>4 DEF Crash, MainExit, Seen
<1>5. CASE Restart
  <2>1. Pipeline = {}
    BY <1>5 DEF Restart, Covered, Pipeline
  <2> QED BY <1>5, <2>1 DEF Restart, Seen
<1>6. ASSUME NEW l \in Logs, Downloader(l), ~Submit(l) PROVE Untouched
  BY <1>6 DEF Untouched, Downloader, Sync, NewLogWorker, SyncFails, Fetch, GetEntries,
    RateLimited, BackoffOver, GetEntriesFails, SkipErroneous, SaveTick, SignalCaught,
    Unhook, SaveFinal, PollSignal, PollTimeout, Leave, Notify
<1>7. ASSUME NEW l \in Logs, GrowTree(l) PROVE Untouched
  BY <1>7 DEF Untouched, GrowTree
<1>8. ASSUME NEW w \in Workers, Register(w) \/ WorkerDone(w) PROVE Untouched
  BY <1>8 DEF Untouched, Register, WorkerDone
<1>9. CASE MainStop \/ StopReturns \/ ThreadsWaited \/ Signal \/ Terminated \/ UNCHANGED vars
  <2>1. Untouched
    BY <1>9 DEF Untouched, MainStop, StopReturns, ThreadsWaited, Signal, Terminated, vars
  <2> QED BY <2>1, UntouchedSeen
<1> QED
  BY <1>1, <1>2, <1>3, <1>4, <1>5, <1>6, <1>7, <1>8, <1>9, UntouchedSeen
     DEF Next, Worker, Main

(* The inductive step of the argument: what saveState may store is covered. *)
LEMMA CoveredStep == TypeOK /\ Covered /\ [Next]_vars => Covered'
<1> SUFFICES ASSUME TypeOK, Covered, [Next]_vars PROVE Covered'
  OBVIOUS
<1> USE DEF ctlog, durable, download, pool, history
<1>1. Seen \subseteq Seen'
  BY SeenGrows
<1>2. ASSUME NEW l \in Logs PROVE Accounted(l, index[l])'
  <2>1. CASE index'[l] = index[l]
    BY <2>1, <1>1 DEF Covered, Accounted
  <2>2. CASE index'[l] = 0
    BY <2>2, ConstantsAssumption DEF Accounted
  <2>3. CASE \E size \in 0..MaxTree, ok \in BOOLEAN : NewLogWorker(l, size, ok)
    <3> PICK size \in 0..MaxTree, ok \in BOOLEAN : NewLogWorker(l, size, ok)
      BY <2>3
    <3>1. index'[l] = StartPosOf(l, ok)
      BY DEF NewLogWorker, FirstIndex, TypeOK
    <3>2. \/ index'[l] = Offset
          \/ index'[l] = 0
          \/ index'[l] = cachePos[l]
          \/ index'[l] = diskPos[l]
      BY <3>1 DEF StartPosOf, LoadPos, LoadFromRedis, LoadFromDisk
    <3> QED BY <3>2, <1>1, ConstantsAssumption DEF Covered, SavedCovered, Accounted
  <2>4. CASE SkipErroneous(l) \/ Submit(l)
    <3>1. index'[l] = index[l] + 1
      BY <2>4 DEF SkipErroneous, Submit, TypeOK
    <3>2. <<l, index[l]>> \in Seen'
      <4>1. CASE SkipErroneous(l)
        BY <4>1 DEF SkipErroneous, Current, Seen
      <4>2. CASE Submit(l)
        <5>1. Current(l) \in Entry
          BY DEF Current, Entry, TypeOK
        <5>2. Len(entryChan) + 1 \in 1..Len(entryChan')
              /\ entryChan'[Len(entryChan) + 1] = Current(l)
          BY <4>2, <5>1 DEF Submit, TypeOK
        <5>3. Current(l) \in Pipeline'
          BY <5>2 DEF Pipeline
        <5>4. <<l, index[l]>> \in Pipeline'
          BY <5>3 DEF Current
        <5> QED BY <5>4 DEF Seen
      <4> QED BY <2>4, <4>1, <4>2
    <3>3. ASSUME NEW i \in Offset..(index'[l] - 1) PROVE <<l, i>> \in Seen'
      <4>1. i = index[l] \/ i \in Offset..(index[l] - 1)
        BY <3>1, ConstantsAssumption DEF TypeOK
      <4>2. i \in Offset..(index[l] - 1) => <<l, i>> \in Seen
        BY DEF Covered, Accounted
      <4> QED BY <4>1, <4>2, <3>2, <1>1
    <3> QED BY <3>3 DEF Accounted
  <2>5. ASSUME NEW k \in Logs, Downloader(k)
        PROVE \/ index'[l] = index[l]
              \/ \E size \in 0..MaxTree, ok \in BOOLEAN : NewLogWorker(l, size, ok)
              \/ SkipErroneous(l) \/ Submit(l)
    <3>1. CASE k = l
      BY <2>5, <3>1 DEF Downloader, Sync, SyncFails, Fetch, GetEntries, RateLimited,
        BackoffOver, GetEntriesFails, SaveTick, SignalCaught, Unhook, SaveFinal,
        PollSignal, PollTimeout, Leave, Notify
    <3>2. CASE k # l
      BY <2>5, <3>2 DEF Downloader, Sync, NewLogWorker, SyncFails, Fetch, GetEntries,
        RateLimited, BackoffOver, GetEntriesFails, SkipErroneous, Submit, SaveTick,
        SignalCaught, Unhook, SaveFinal, PollSignal, PollTimeout, Leave, Notify, TypeOK
    <3> QED BY <3>1, <3>2
  <2>6. CASE Restart
    BY <2>6, <2>2 DEF Restart, Started
  <2>7. ASSUME ~Restart, ~\E k \in Logs : Downloader(k) PROVE index' = index
    BY <2>7 DEF Next, GrowTree, Worker, Register, TakeEntry, Drop, StoreOk, StoreFails,
      WorkerDone, Main, MainStop, StopReturns, ThreadsWaited, MainExit, Signal, Crash,
      Terminated, vars
  <2> QED BY <2>1, <2>3, <2>4, <2>5, <2>6, <2>7
<1>3. ASSUME NEW l \in Logs
      PROVE  Accounted(l, cachePos[l])' /\ Accounted(l, diskPos[l])'
  <2>1. ASSUME NEW k \in Logs, SaveState(k)
        PROVE /\ cachePos'[l] \in {cachePos[l], index[l]}
              /\ diskPos'[l] \in {diskPos[l], index[l], Absent}
    BY <2>1, SMTT(20) DEF SaveState, SaveLogState, StoreInRedis, StoreOnDisk, SavedIndex, TypeOK
  <2>2. ASSUME NEW k \in Logs, SaveTick(k) \/ SaveFinal(k)
        PROVE /\ cachePos'[l] \in {cachePos[l], index[l]}
              /\ diskPos'[l] \in {diskPos[l], index[l], Absent}
    BY <2>1, <2>2 DEF SaveTick, SaveFinal
  <2>3. ASSUME ~\E k \in Logs : SaveTick(k) \/ SaveFinal(k) PROVE UNCHANGED durable
    <3>1. ASSUME NEW k \in Logs, Downloader(k) PROVE UNCHANGED durable
      BY <2>3, <3>1 DEF Downloader, Sync, NewLogWorker, SyncFails, Fetch, GetEntries,
        RateLimited, BackoffOver, GetEntriesFails, SkipErroneous, Submit, SignalCaught,
        Unhook, PollSignal, PollTimeout, Leave, Notify
    <3> QED
      BY <3>1 DEF Next, GrowTree, Worker, Register, TakeEntry, Drop, StoreOk, StoreFails,
        WorkerDone, Main, MainStop, StopReturns, ThreadsWaited, MainExit, Signal, Crash,
        Restart, Terminated, vars
  <2>4. /\ cachePos'[l] \in {cachePos[l], index[l]}
        /\ diskPos'[l] \in {diskPos[l], index[l], Absent}
    BY <2>2, <2>3
  <2> QED BY <2>4, <1>1, ConstantsAssumption, SMTT(20) DEF Covered, SavedCovered, Accounted, Absent
<1>4. (main = "exited" => entryChan = <<>> /\ \A w \in Workers : holding[w] = {})'
  <2>1. CASE Crash \/ MainExit
    BY <2>1 DEF Crash, MainExit
  <2>2. CASE Restart
    BY <2>2 DEF Restart, Started
  <2>3. CASE Terminated \/ UNCHANGED vars \/ \E l \in Logs : GrowTree(l)
    BY <2>3 DEF Terminated, vars, GrowTree, Covered
  <2>4. CASE Signal \/ MainStop \/ StopReturns \/ ThreadsWaited
    BY <2>4 DEF Signal, MainStop, StopReturns, ThreadsWaited
  <2>5. CASE \E w \in Workers : Worker(w)
    BY <2>5 DEF Worker, Running, Register, TakeEntry, Drop, StoreOk, StoreFails, WorkerDone
  <2>6. CASE \E l \in Logs : Downloader(l)
    BY <2>6 DEF Downloader, Running, Sync, NewLogWorker, SyncFails, Fetch, GetEntries,
      RateLimited, BackoffOver, GetEntriesFails, SkipErroneous, Submit, SaveTick,
      SignalCaught, Unhook, SaveFinal, PollSignal, PollTimeout, Leave, Notify
  <2> QED BY <2>1, <2>2, <2>3, <2>4, <2>5, <2>6 DEF Next, Main
<1> QED BY <1>2, <1>3, <1>4 DEF Covered, SavedCovered

(* Wherever a downloader is, whatever failed and however often the process was
   killed, the index it would save has every entry behind it accounted for. *)
THEOREM CoveredHolds == Spec => []Covered
<1>1. Init => Covered
  BY ConstantsAssumption DEF Init, Covered, SavedCovered, Accounted, Absent
<1> QED BY <1>1, CoveredStep, TypeCorrect, PTL DEF Spec

(* No saved position ever passes an entry that was not handed to the workers,
   found undecodable, or lost with a dying process: saveState stores index,
   and index only moves past an entry once it is in the channel.  Holds under
   every combination of Redis, disk and Store failures, kills, restarts, stale
   tree heads, and for every number of logs and workers. *)
THEOREM SavedCoveredHolds == Spec => []SavedCovered
<1>1. Covered => SavedCovered
  BY DEF Covered
<1> QED BY <1>1, CoveredHolds, PTL

(* A worker works on one entry at a time. *)
HoldsOne == \A w \in Workers : \A e, f \in holding[w] : e = f

LEMMA HoldsOneStep == TypeOK /\ HoldsOne /\ [Next]_vars => HoldsOne'
<1> SUFFICES ASSUME TypeOK, HoldsOne, [Next]_vars PROVE HoldsOne'
  OBVIOUS
<1> USE DEF pool, history, HoldsOne
<1>1. ASSUME NEW w \in Workers, TakeEntry(w) PROVE HoldsOne'
  <2>1. \A v \in Workers : holding'[v] \in {holding[v], {Head(entryChan)}}
    BY <1>1 DEF TakeEntry, TypeOK
  <2> QED BY <2>1
<1>2. ASSUME NEW w \in Workers, Drop(w) \/ StoreOk(w) \/ StoreFails(w) PROVE HoldsOne'
  <2>1. \A v \in Workers : holding'[v] \in {holding[v], {}}
    BY <1>2 DEF Drop, StoreOk, StoreFails, TypeOK
  <2> QED BY <2>1
<1>3. CASE Crash \/ MainExit \/ Restart
  BY <1>3 DEF Crash, MainExit, Restart, Started
<1>4. ASSUME NEW l \in Logs, Downloader(l) PROVE HoldsOne'
  BY <1>4 DEF Downloader, Sync, NewLogWorker, SyncFails, Fetch, GetEntries, RateLimited,
    BackoffOver, GetEntriesFails, SkipErroneous, Submit, SaveTick, SignalCaught, Unhook,
    SaveFinal, PollSignal, PollTimeout, Leave, Notify
<1>5. CASE \/ \E l \in Logs : GrowTree(l)
           \/ \E w \in Workers : Register(w) \/ WorkerDone(w)
           \/ MainStop \/ StopReturns \/ ThreadsWaited \/ Signal \/ Terminated
           \/ UNCHANGED vars
  BY <1>5 DEF GrowTree, Register, WorkerDone, MainStop, StopReturns, ThreadsWaited, Signal,
    Terminated, vars
<1> QED BY <1>1, <1>2, <1>3, <1>4, <1>5 DEF Next, Worker, Main

(* Submit puts the current entry into the pipeline, TakeEntry only moves an
   entry from the channel to a worker. *)
LEMMA SubmitAdds ==
  ASSUME TypeOK, NEW l \in Logs, Submit(l)
  PROVE  Pipeline' = Pipeline \cup {Current(l)}
<1>1. Current(l) \in Entry
  BY DEF Current, Entry, TypeOK
<1>2. /\ Len(entryChan') = Len(entryChan) + 1
      /\ entryChan'[Len(entryChan) + 1] = Current(l)
      /\ \A k \in 1..Len(entryChan) : entryChan'[k] = entryChan[k]
      /\ Len(entryChan) \in Nat
  BY <1>1 DEF Submit, TypeOK
<1>3. {entryChan'[k] : k \in 1..Len(entryChan')}
        = {entryChan[k] : k \in 1..Len(entryChan)} \cup {Current(l)}
  BY <1>2
<1>4. holding' = holding
  BY DEF Submit, pool
<1> QED BY <1>3, <1>4 DEF Pipeline

LEMMA TakeKeeps ==
  ASSUME TypeOK, NEW w \in Workers, TakeEntry(w)
  PROVE  Pipeline' = Pipeline
<1>1. /\ holding[w] = {} /\ holding'[w] = {entryChan[1]}
      /\ \A v \in Workers \ {w} : holding'[v] = holding[v]
      /\ Len(entryChan) \in Nat /\ Len(entryChan) >= 1
      /\ Len(entryChan') = Len(entryChan) - 1
      /\ \A k \in 1..Len(entryChan') : entryChan'[k] = entryChan[k + 1]
  BY DEF TakeEntry, TypeOK
<1>2. {entryChan[k] : k \in 1..Len(entryChan)}
        = {entryChan'[k] : k \in 1..Len(entryChan')} \cup {entryChan[1]}
  <2>1. \A k \in 1..Len(entryChan) :
          k = 1 \/ (k - 1 \in 1..Len(entryChan') /\ entryChan[k] = entryChan'[k - 1])
    BY <1>1
  <2>2. \A k \in 1..Len(entryChan') : k + 1 \in 1..Len(entryChan)
    BY <1>1
  <2>3. 1 \in 1..Len(entryChan)
    BY <1>1
  <2>4. \A k \in 1..Len(entryChan') : entryChan'[k] = entryChan[k + 1]
    BY <1>1
  <2> DEFINE before == {entryChan[k] : k \in 1..Len(entryChan)}
             after  == {entryChan'[k] : k \in 1..Len(entryChan')}
  <2>5. before \subseteq after \cup {entryChan[1]}
    BY <2>1
  <2>6. after \subseteq before
    BY <2>2, <2>4
  <2>7. entryChan[1] \in before
    BY <2>3
  <2> QED BY <2>5, <2>6, <2>7
<1>3. (UNION {holding'[v] : v \in Workers})
        = (UNION {holding[v] : v \in Workers}) \cup {entryChan[1]}
  BY <1>1
<1> QED BY <1>2, <1>3 DEF Pipeline

(* Every step of the program is a step of AtLeastOnce, or changes nothing there. *)
LEMMA PromiseStep ==
  ASSUME TypeOK, Covered, HoldsOne, [Next]_vars
  PROVE  [Promise!Next]_(Promise!vars)
<1> USE DEF ctlog, durable, download, pool, history, Ended
<1> DEFINE resume == [l \in Logs |-> {cachePos[l], diskPos[l]}]
<1>1. ASSUME NEW l \in Logs, Submit(l) PROVE Promise!Take
  <2>1. Current(l) \in Entry
    BY DEF Current, Entry, TypeOK
  <2>2. Pipeline' = Pipeline \cup {Current(l)}
    BY <1>1, SubmitAdds
  <2>3. UNCHANGED <<Ended, resume>>
    BY <1>1 DEF Submit
  <2>4. Promise!TakenUpTo(l, index[l])
    BY DEF Promise!TakenUpTo, Promise!TakenUp, Covered, Accounted, Seen
  <2>5. Current(l)[1] = l /\ Current(l)[2] = index[l] /\ Current(l) \in Pipeline'
    BY <2>2 DEF Current
  <2> QED BY <2>2, <2>3, <2>4, <2>5 DEF Promise!Take
<1>2. ASSUME NEW w \in Workers, TakeEntry(w) PROVE UNCHANGED Promise!vars
  <2>1. Pipeline' = Pipeline
    BY <1>2, TakeKeeps
  <2> QED BY <1>2, <2>1 DEF TakeEntry, Promise!vars
<1>3. ASSUME NEW w \in Workers, Drop(w) \/ StoreOk(w) \/ StoreFails(w) PROVE Promise!End
  <2>1. PICK e \in holding[w] : holding[w] = {e}
    BY <1>3 DEF Drop, StoreOk, StoreFails, HoldsOne
  <2>2. /\ holding'[w] = {} /\ \A v \in Workers \ {w} : holding'[v] = holding[v]
        /\ UNCHANGED <<entryChan, durable>>
        /\ Ended' = Ended \cup {e}
    BY <1>3, <2>1 DEF Drop, StoreOk, StoreFails, TypeOK
  <2>3. e \in Pipeline
    BY <2>1 DEF Pipeline
  <2>4. Pipeline' \in {Pipeline, Pipeline \ {e}}
    BY <2>1, <2>2 DEF Pipeline
  <2> QED BY <2>2, <2>3, <2>4 DEF Promise!End
<1>4. CASE Crash \/ MainExit
  <2>1. Pipeline' = {}
    BY <1>4, ConstantsAssumption DEF Crash, MainExit, Pipeline
  <2> QED BY <1>4, <2>1 DEF Crash, MainExit, Promise!Next, Promise!Die
<1>5. CASE Restart
  <2>1. Pipeline = {}
    BY <1>5, ConstantsAssumption DEF Restart, Covered, Pipeline
  <2>2. Pipeline' = {}
    BY <1>5, ConstantsAssumption DEF Restart, Started, Pipeline
  <2>3. UNCHANGED Ended /\ UNCHANGED resume
    BY <1>5 DEF Restart
  <2> QED BY <2>1, <2>2, <2>3 DEF Promise!vars
<1>6. ASSUME NEW l \in Logs, SaveTick(l) \/ SaveFinal(l) PROVE Promise!Save
  <2>1. /\ cachePos' \in [Logs -> Int] /\ diskPos' \in [Logs -> Int]
        /\ \A k \in Logs : /\ cachePos'[k] \in {cachePos[k], index[k]}
                            /\ diskPos'[k] \in {diskPos[k], index[k], Absent}
    <3>1. SaveState(l)
      BY <1>6 DEF SaveTick, SaveFinal
    <3>2. /\ cachePos \in [Logs -> Int] /\ diskPos \in [Logs -> Int] /\ index[l] \in Int
          /\ Absent \in Int
      BY DEF TypeOK, Absent
    <3>3. cachePos' \in {cachePos, [cachePos EXCEPT ![l] = index[l]]}
      BY <3>1 DEF SaveState, SaveLogState, StoreInRedis, SavedIndex
    <3>4. diskPos' \in {diskPos, [diskPos EXCEPT ![l] = index[l]], [diskPos EXCEPT ![l] = Absent]}
      BY <3>1 DEF SaveState, SaveLogState, StoreOnDisk, SavedIndex
    <3> QED BY <3>2, <3>3, <3>4
  <2>2. UNCHANGED <<Pipeline, Ended>>
    BY <1>6 DEF SaveTick, SaveFinal, Pipeline
  <2>3. \A k \in Logs : Promise!TakenUpTo(k, index[k])
    BY DEF Promise!TakenUpTo, Promise!TakenUp, Covered, Accounted, Seen
  <2>4. resume' \in [Logs -> SUBSET Int]
    BY <2>1
  <2>5. \A k \in Logs : \A p \in resume'[k] \ (resume[k] \cup {Absent}) : p = index[k]
    BY <2>1
  <2> QED BY <2>2, <2>3, <2>4, <2>5 DEF Promise!Save
<1>7. ASSUME NEW l \in Logs, Downloader(l), ~Submit(l), ~SaveTick(l), ~SaveFinal(l)
      PROVE UNCHANGED Promise!vars
  BY <1>7 DEF Downloader, Sync, NewLogWorker, SyncFails, Fetch, GetEntries, RateLimited,
    BackoffOver, GetEntriesFails, SkipErroneous, SignalCaught, Unhook, PollSignal,
    PollTimeout, Leave, Notify, Promise!vars, Pipeline
<1>8. CASE \/ \E l \in Logs : GrowTree(l)
           \/ \E w \in Workers : Register(w) \/ WorkerDone(w)
           \/ MainStop \/ StopReturns \/ ThreadsWaited \/ Signal \/ Terminated
           \/ UNCHANGED vars
  BY <1>8 DEF GrowTree, Register, WorkerDone, MainStop, StopReturns, ThreadsWaited, Signal,
    Terminated, vars, Promise!vars, Pipeline
<1> QED
  BY <1>1, <1>2, <1>3, <1>4, <1>5, <1>6, <1>7, <1>8 DEF Next, Worker, Main, Promise!Next

(* ct-fetch implements AtLeastOnce: for every number of logs and workers and
   under every fault, entries are taken up in order, end once they were, and
   are never left behind by a position a restart may resume from. *)
THEOREM KeepsPromiseHolds == Spec => KeepsPromise
<1>1. Init => Promise!Init
  BY ConstantsAssumption DEF Init, Promise!Init, Pipeline, Ended
<1>2. Init => Covered
  BY ConstantsAssumption DEF Init, Covered, SavedCovered, Accounted, Absent
<1>3. Init => HoldsOne
  BY DEF Init, HoldsOne
<1> QED
  BY <1>1, <1>2, <1>3, CoveredStep, HoldsOneStep, PromiseStep, TypeCorrect, PTL
     DEF Spec, KeepsPromise, Promise!Spec

LEMMA PoolInvStep == TypeOK /\ PoolInv /\ [Next]_vars => PoolInv'
<1> SUFFICES ASSUME TypeOK, PoolInv, [Next]_vars PROVE PoolInv'
  OBVIOUS
<1> USE DEF ctlog, durable, download, pool, history, PoolInv, NoSendAfterClose
<1>1. ASSUME NEW l \in Logs, Downloader(l) PROVE PoolInv'
  <2>1. pc[l] # "done" /\ main \in {"waiting", "stopping", "stopped", "leaving"}
    BY <1>1 DEF Downloader, Running, Sync, NewLogWorker, SyncFails, Fetch, GetEntries,
      RateLimited, BackoffOver, GetEntriesFails, SkipErroneous, Submit, SaveTick, AtSelect,
      SignalCaught, Unhook, SaveFinal, PollSignal, PollTimeout, Leave, Notify, TypeOK
  <2>2. main = "waiting"
    BY <2>1
  <2>3. UNCHANGED <<thread, holding, main>>
    BY <1>1 DEF Downloader, Sync, NewLogWorker, SyncFails, Fetch, GetEntries,
      RateLimited, BackoffOver, GetEntriesFails, SkipErroneous, Submit, SaveTick,
      SignalCaught, Unhook, SaveFinal, PollSignal, PollTimeout, Leave, Notify
  <2> QED BY <2>2, <2>3
<1>2. ASSUME NEW w \in Workers, Worker(w) PROVE PoolInv'
  <2>1. UNCHANGED <<main, pc>>
    BY <1>2 DEF Worker, Register, TakeEntry, Drop, StoreOk, StoreFails, WorkerDone
  <2>2. CASE Register(w)
    BY <2>1, <2>2 DEF Register, TypeOK
  <2>3. CASE TakeEntry(w)
    BY <2>1, <2>3 DEF TakeEntry, TypeOK
  <2>4. CASE Drop(w) \/ StoreOk(w) \/ StoreFails(w)
    BY <2>1, <2>4 DEF Drop, StoreOk, StoreFails, TypeOK
  <2>5. CASE WorkerDone(w)
    BY <2>1, <2>5 DEF WorkerDone, RangeEnds, TypeOK
  <2> QED BY <1>2, <2>2, <2>3, <2>4, <2>5 DEF Worker
<1>3. CASE Main
  BY <1>3 DEF Main, MainStop, DownloadersDone, StopReturns, ThreadsWaited, MainExit
<1>4. CASE Crash
  BY <1>4 DEF Crash
<1>5. CASE Restart
  BY <1>5 DEF Restart, Started
<1>6. CASE Signal \/ Terminated \/ UNCHANGED vars \/ \E l \in Logs : GrowTree(l)
  BY <1>6 DEF Signal, Terminated, vars, GrowTree
<1> QED BY <1>1, <1>2, <1>3, <1>4, <1>5, <1>6 DEF Next

LEMMA PoolInvHolds == Spec => []PoolInv
<1>1. Init => PoolInv
  BY DEF Init, PoolInv, NoSendAfterClose
<1> QED BY <1>1, PoolInvStep, TypeCorrect, PTL DEF Spec

(* entryChan is closed only when every downloader has left, for every number
   of logs and every interleaving with signals and kills. *)
THEOREM NoSendAfterCloseHolds == Spec => []NoSendAfterClose
<1>1. PoolInv => NoSendAfterClose
  BY DEF PoolInv
<1> QED BY <1>1, PoolInvHolds, PTL

(* Stop returns with a drained pipeline as soon as one worker had registered:
   the premise the code does not establish is exactly that. *)
THEOREM DrainedStopHolds == Spec => DrainedStop
<1>1. ASSUME TypeOK, PoolInv, [Next]_vars
      PROVE  [main = "stopping" /\ main' = "stopped" /\ (\E w \in Workers : thread[w] = "done")
                => Pipeline = {}]_vars
  <2> SUFFICES ASSUME main = "stopping", main' = "stopped",
                      NEW w \in Workers, thread[w] = "done"
               PROVE  Pipeline = {}
    OBVIOUS
  <2> USE DEF ctlog, durable, download, pool, history
  <2>1. StopReturns
    <3>1. ASSUME NEW l \in Logs PROVE ~Downloader(l)
      BY DEF Downloader, Sync, NewLogWorker, SyncFails, Fetch, GetEntries,
        RateLimited, BackoffOver, GetEntriesFails, SkipErroneous, Submit, SaveTick,
        SignalCaught, Unhook, SaveFinal, PollSignal, PollTimeout, Leave, Notify
    <3>2. ASSUME NEW v \in Workers PROVE ~Worker(v)
      BY DEF Worker, Register, TakeEntry, Drop, StoreOk, StoreFails, WorkerDone
    <3> QED BY <1>1, <3>1, <3>2 DEF Next, GrowTree, Main, MainStop, ThreadsWaited, MainExit,
              Signal, Crash, Restart, Started, Terminated, vars
  <2>2. entryChan = <<>> /\ \A v \in Workers : holding[v] = {}
    BY <1>1, <2>1 DEF StopReturns, NoThreadCounted, PoolInv
  <2> QED BY <2>2 DEF Pipeline
<1> QED BY <1>1, PoolInvHolds, TypeCorrect, PTL DEF Spec, DrainedStop

(* What is requested lies below the tree head, so every entry in the pipeline
   is one the log holds. *)
InTree ==
  /\ \A l \in Logs :
       /\ endPos[l] <= MaxTree
       /\ pc[l] \in {"fetch", "backoff"} => index[l] < endPos[l]
       /\ pc[l] = "submit" => index[l] < respEnd[l] /\ respEnd[l] <= endPos[l]
  /\ \A e \in Pipeline : e \in Logs \X (0..MaxTree)

LEMMA DownloaderKeepsPipeline ==
  ASSUME NEW l \in Logs, Downloader(l), ~Submit(l)
  PROVE  UNCHANGED Pipeline
  BY DEF Downloader, Sync, NewLogWorker, SyncFails, Fetch, GetEntries, RateLimited,
    BackoffOver, GetEntriesFails, SkipErroneous, SaveTick, SignalCaught, Unhook, SaveFinal,
    PollSignal, PollTimeout, Leave, Notify, pool, Pipeline

LEMMA InTreeStep == TypeOK /\ Covered /\ InTree /\ [Next]_vars => InTree'
<1> SUFFICES ASSUME TypeOK, Covered, InTree, [Next]_vars PROVE InTree'
  OBVIOUS
<1> USE DEF ctlog, durable, download, pool, history
<1> DEFINE Bound(l) ==
      /\ endPos[l] <= MaxTree
      /\ pc[l] \in {"fetch", "backoff"} => index[l] < endPos[l]
      /\ pc[l] = "submit" => index[l] < respEnd[l] /\ respEnd[l] <= endPos[l]
<1>1. ASSUME NEW l \in Logs, Downloader(l) PROVE \A k \in Logs : Bound(k)'
  <2>1. ASSUME NEW k \in Logs, k # l PROVE Bound(k)'
    <3>1. /\ endPos'[k] = endPos[k] /\ pc'[k] = pc[k] /\ index'[k] = index[k]
          /\ respEnd'[k] = respEnd[k]
      BY <1>1, <2>1, SMTT(20) DEF Downloader, Sync, NewLogWorker, SyncFails, Fetch, GetEntries,
        RateLimited, BackoffOver, GetEntriesFails, SkipErroneous, Submit, SaveTick,
        SignalCaught, Unhook, SaveFinal, PollSignal, PollTimeout, Leave, Notify, TypeOK
    <3> QED BY <3>1 DEF InTree
  <2>2. Bound(l)'
    <3>1. CASE Sync(l)
      <4> PICK size \in 0..MaxTree, ok \in BOOLEAN : NewLogWorker(l, size, ok)
        BY <3>1 DEF Sync
      <4>1. EndPosOf(StartPosOf(l, ok), size) <= MaxTree
        <5>1. StartPosOf(l, ok) \in Nat /\ EndPosOf(StartPosOf(l, ok), size) \in Nat
          BY LoadPosNat, ConstantsAssumption
        <5>2. EndPosOf(StartPosOf(l, ok), size) <= size
          <6>1. (StartPosOf(l, ok) + Limit) % Word \in Nat
            BY <5>1, ModNat, ConstantsAssumption
          <6> QED BY <6>1, ConstantsAssumption DEF EndPosOf
        <5> QED BY <5>1, <5>2, ConstantsAssumption
      <4>2. /\ endPos'[l] = EndPosOf(StartPosOf(l, ok), size)
            /\ index'[l] = StartPosOf(l, ok)
            /\ pc'[l] = "fetch" => StartPosOf(l, ok) < EndPosOf(StartPosOf(l, ok), size)
            /\ pc'[l] \notin {"backoff", "submit"}
        BY DEF NewLogWorker, FirstIndex, AfterSync, TypeOK
      <4> QED BY <4>1, <4>2
    <3>2. CASE Fetch(l)
      <4> PICK n \in 0..(BatchSpan + 1) : GetEntries(l, n)
        BY <3>2 DEF Fetch
      <4>1. /\ index[l] < endPos[l] /\ endPos[l] <= MaxTree
            /\ index[l] \in Nat /\ endPos[l] \in Nat /\ n \in Nat
        BY ConstantsAssumption DEF InTree, GetEntries, TypeOK
      <4>2. index[l] + n <= endPos[l]
        BY <4>1, ConstantsAssumption DEF GetEntries
      <4>3. /\ endPos'[l] = endPos[l] /\ index'[l] = index[l]
            /\ respEnd'[l] = index[l] + n
            /\ pc'[l] = IF n > 0 THEN "submit" ELSE "fetch"
        BY DEF GetEntries, TypeOK
      <4> QED BY <4>1, <4>2, <4>3
    <3>3. CASE SkipErroneous(l) \/ Submit(l)
      <4>1. /\ endPos'[l] = endPos[l] /\ index'[l] = index[l] + 1
            /\ respEnd'[l] = respEnd[l]
            /\ pc'[l] = NextPc(l, index[l] + 1)
            /\ pc[l] = "submit"
        BY <3>3 DEF SkipErroneous, Submit, AtSelect, TypeOK
      <4>2. /\ endPos[l] <= MaxTree /\ respEnd[l] <= endPos[l]
            /\ index[l] \in Nat /\ endPos[l] \in Nat /\ respEnd[l] \in Nat
        BY <4>1 DEF InTree, TypeOK
      <4> QED BY <4>1, <4>2 DEF NextPc
    <3>4. CASE RateLimited(l) \/ BackoffOver(l)
      BY <3>4 DEF RateLimited, BackoffOver, InTree, TypeOK
    <3>5. CASE SaveTick(l)
      BY <3>5 DEF SaveTick, InTree
    <3>6. CASE \/ SyncFails(l) \/ GetEntriesFails(l) \/ SignalCaught(l) \/ Unhook(l)
               \/ SaveFinal(l) \/ PollSignal(l) \/ PollTimeout(l) \/ Leave(l) \/ Notify(l)
      <4>1. /\ endPos'[l] = endPos[l]
            /\ pc'[l] \notin {"fetch", "backoff", "submit"}
        BY <3>6 DEF SyncFails, GetEntriesFails, SignalCaught, Unhook, SaveFinal, PollSignal,
          PollTimeout, Leave, Notify, AfterSync, TypeOK
      <4> QED BY <4>1 DEF InTree
    <3> QED BY <1>1, <3>1, <3>2, <3>3, <3>4, <3>5, <3>6 DEF Downloader
  <2> QED BY <2>1, <2>2
<1>2. ASSUME NEW l \in Logs, Submit(l) PROVE Pipeline' = Pipeline \cup {Current(l)}
                                             /\ Current(l) \in Logs \X (0..MaxTree)
  <2>1. index[l] \in 0..MaxTree
    <3>1. index[l] < respEnd[l] /\ respEnd[l] <= endPos[l] /\ endPos[l] <= MaxTree
      BY <1>2 DEF Submit, AtSelect, InTree
    <3> QED BY <3>1, ConstantsAssumption DEF TypeOK
  <2> QED BY <1>2, <2>1, SubmitAdds DEF Current
<1>3. ASSUME NEW l \in Logs, Downloader(l) PROVE InTree'
  <2>1. \A e \in Pipeline' : e \in Logs \X (0..MaxTree)
    BY <1>2, <1>3, DownloaderKeepsPipeline DEF InTree
  <2> QED BY <1>1, <1>3, <2>1 DEF InTree
<1>4. ASSUME ~\E l \in Logs : Downloader(l) PROVE Pipeline' \subseteq Pipeline
  <2>1. ASSUME NEW w \in Workers, TakeEntry(w) PROVE Pipeline' \subseteq Pipeline
    BY <2>1, TakeKeeps
  <2>2. ASSUME NEW w \in Workers, Drop(w) \/ StoreOk(w) \/ StoreFails(w)
        PROVE Pipeline' \subseteq Pipeline
    <3>1. /\ \A v \in Workers : holding'[v] \subseteq holding[v]
          /\ entryChan' = entryChan
      BY <2>2 DEF Drop, StoreOk, StoreFails, TypeOK
    <3> QED BY <3>1 DEF Pipeline
  <2>3. CASE Crash \/ MainExit \/ Restart
    <3>1. entryChan' = <<>> /\ holding' = [w \in Workers |-> {}]
      BY <2>3 DEF Crash, MainExit, Restart, Started
    <3> QED BY <3>1 DEF Pipeline
  <2>4. CASE \/ \E l \in Logs : GrowTree(l)
             \/ \E w \in Workers : Register(w) \/ WorkerDone(w)
             \/ MainStop \/ StopReturns \/ ThreadsWaited \/ Signal \/ Terminated
             \/ UNCHANGED vars
    BY <2>4 DEF GrowTree, Register, WorkerDone, MainStop, StopReturns, ThreadsWaited, Signal,
      Terminated, vars, Pipeline
  <2> QED BY <1>4, <2>1, <2>2, <2>3, <2>4 DEF Next, Worker, Main
<1>5. ASSUME ~\E l \in Logs : Downloader(l) PROVE \A l \in Logs : Bound(l)'
  <2>1. CASE Restart
    BY <2>1, ConstantsAssumption DEF Restart, Started
  <2>2. CASE ~Restart
    <3>1. UNCHANGED <<pc, index, endPos, respEnd>>
      BY <1>5, <2>2 DEF Next, GrowTree, Worker, Register, TakeEntry, Drop, StoreOk,
        StoreFails, WorkerDone, Main, MainStop, StopReturns, ThreadsWaited, MainExit, Signal,
        Crash, Terminated, vars
    <3> QED BY <3>1 DEF InTree
  <2> QED BY <2>1, <2>2
<1>6. ASSUME ~\E l \in Logs : Downloader(l) PROVE InTree'
  BY <1>4, <1>5, <1>6 DEF InTree
<1> QED BY <1>3, <1>6

(* What the proofs about the whole pipeline build on. *)
SyncInv == TypeOK /\ Covered /\ HoldsOne /\ InTree

LEMMA SyncInvHolds == Spec => []SyncInv
<1>1. Init => Covered
  BY ConstantsAssumption DEF Init, Covered, SavedCovered, Accounted, Absent
<1>2. Init => HoldsOne
  BY DEF Init, HoldsOne
<1>3. Init => InTree
  BY ConstantsAssumption DEF Init, InTree, Pipeline
<1> QED
  BY <1>1, <1>2, <1>3, TypeCorrect, CoveredStep, HoldsOneStep, InTreeStep, PTL
     DEF Spec, SyncInv
=============================================================================

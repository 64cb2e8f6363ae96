------------------------------ MODULE LogSync ------------------------------
(***************************************************************************)
(* The ct-fetch process (cmd/ct-fetch/ct-fetch.go): one downloader         *)
(* goroutine per CT log, the bounded channel entryChan, the insertCTWorker *)
(* threads that drain it, main's shutdown sequence, and the log position   *)
(* (CertificateLog.MaxEntry) kept in Redis and in the storage backend,     *)
(* which survives the process.  An entry of a log is <<log, index>>; what  *)
(* a certificate says is abstracted to which entries are Erroneous (the    *)
(* downloader cannot parse them) and Droppable (the worker discards them). *)
(***************************************************************************)
EXTENDS Integers, Sequences, FiniteSets

CONSTANTS
  Logs,        \* logUrls in main: one downloader goroutine each
  Workers,     \* the NumThreads insertCTWorker goroutines
  Cap,         \* capacity of entryChan (1024*16)
  BatchSpan,   \* a request asks for index .. index+BatchSpan (1000)
  Offset,      \* ctconfig.Offset, 0 when unset
  Limit,       \* ctconfig.Limit, 0 when unset
  RunModes,    \* the values ctconfig.RunForever may have
  HasDisk,     \* LocalDiskBackend is configured (otherwise NoopBackend)
  Erroneous,   \* entries ct.LogEntryFromLeaf fails on
  Droppable,   \* entries insertCTWorker discards before Store
  Word,        \* number of values of a uint64 (2^64)
  MaxTree,     \* bound: the largest tree a log grows to
  MaxRuns,     \* bound: how many times the process is started
  MaySignal,   \* SIGINT or SIGTERM may be sent
  MayCrash,    \* the process may be killed
  RedisFails,  \* a Redis request may fail
  DiskFails,   \* a write of the state file may fail, or leave it unreadable
  StaleSTH     \* a log may answer with the tree head of an earlier moment

ASSUME ConstantsAssumption ==
  /\ Cap \in Nat \ {0}
  /\ BatchSpan \in Nat
  /\ Offset \in Nat /\ Limit \in Nat /\ MaxTree \in Nat
  /\ MaxRuns \in Nat \ {0} /\ Word \in Nat \ {0}
  /\ Offset < Word /\ Limit < Word /\ MaxTree + BatchSpan < Word \div 2
  /\ {HasDisk, MaySignal, MayCrash, RedisFails, DiskFails, StaleSTH} \subseteq BOOLEAN
  /\ RunModes \subseteq BOOLEAN
  /\ Erroneous \subseteq Logs \X Nat
  /\ Droppable \subseteq Logs \X Nat

ASSUME WorkersAssumption == IsFiniteSet(Workers)

VARIABLES
  tree,       \* tree[l]: how many entries log l holds (outside the process)
  runForever, \* *ctconfig.RunForever, the same at every start
  cachePos,   \* cachePos[l]: MaxEntry stored in Redis, or Absent
  diskPos,    \* diskPos[l]: MaxEntry readable from the state file, or Absent
  pc,         \* pc[l]: where the downloader goroutine of log l is
  index,      \* index[l]: the variable index of downloadCTRangeToChannel
  endPos,     \* endPos[l]: LogWorker.EndPos
  respEnd,    \* respEnd[l]: index of the entry after the last one in resp.Entries
  sigInner,   \* a signal waits in the sigChan of downloadCTRangeToChannel
  sigOuter,   \* a signal waits in the sigChan of main's goroutine
  entryChan,  \* the channel's contents, oldest first
  thread,     \* thread[w]: "new" before ThreadWaitGroup.Add(1), "ready", "done"
  holding,    \* holding[w]: the entry insertCTWorker w is working on, if any
  main,       \* where main is
  handled,    \* history: entries stored or deliberately dropped
  failed,     \* history: entries whose Store returned an error
  lost,       \* history: entries in the pipeline when a process ended
  runs        \* history: number of process starts

ctlog    == <<tree, runForever>>
durable  == <<cachePos, diskPos>>
download == <<pc, index, endPos, respEnd, sigInner, sigOuter>>
pool     == <<thread, holding>>
history  == <<handled, failed, lost, runs>>
vars == <<ctlog, durable, download, entryChan, pool, main, history>>

Absent   == -1
MaxInt64 == (Word \div 2) - 1
Entry    == Logs \X Nat
Current(l) == <<l, index[l]>>

(* The entries that are in the channel or in the hands of a worker. *)
InChan(e)   == \E k \in 1..Len(entryChan) : entryChan[k] = e
Held(e)     == \E w \in Workers : e \in holding[w]
Pipeline    == {entryChan[k] : k \in 1..Len(entryChan)} \cup UNION {holding[w] : w \in Workers}

DownloadPcs == {"fetch", "backoff", "submit"}
Pcs == DownloadPcs \cup {"new", "sync", "unhook", "final", "poll", "leave", "done"}

(* The values each variable takes.  A stored position is an int64: saveState
   refuses the uint64 indexes that are not.  The channel keeps to its capacity. *)
TypeOK ==
  /\ tree \in [Logs -> 0..MaxTree] /\ runForever \in RunModes
  /\ cachePos \in [Logs -> Absent..MaxInt64]
  /\ diskPos \in [Logs -> Absent..MaxInt64]
  /\ pc \in [Logs -> Pcs]
  /\ index \in [Logs -> Nat]
  /\ endPos \in [Logs -> Nat]
  /\ respEnd \in [Logs -> Nat]
  /\ sigInner \in [Logs -> BOOLEAN]
  /\ sigOuter \in [Logs -> BOOLEAN]
  /\ entryChan \in Seq(Entry) /\ Len(entryChan) <= Cap
  /\ thread \in [Workers -> {"new", "ready", "done"}]
  /\ holding \in [Workers -> SUBSET Entry]
  /\ main \in {"waiting", "stopping", "stopped", "leaving", "exited"}
  /\ handled \in SUBSET Entry
  /\ failed \in SUBSET Entry
  /\ lost \in SUBSET Entry
  /\ runs \in 1..MaxRuns
-----------------------------------------------------------------------------
(* main up to DownloaderWaitGroup.Wait(): an empty channel, NumThreads worker
   goroutines and one downloader goroutine per log, none of which has run yet. *)
Started ==
  /\ pc' = [l \in Logs |-> "new"]
  /\ index' = [l \in Logs |-> 0]
  /\ endPos' = [l \in Logs |-> 0]
  /\ respEnd' = [l \in Logs |-> 0]
  /\ sigInner' = [l \in Logs |-> FALSE]
  /\ sigOuter' = [l \in Logs |-> FALSE]
  /\ entryChan' = <<>>
  /\ thread' = [w \in Workers |-> "new"]
  /\ holding' = [w \in Workers |-> {}]
  /\ main' = "waiting"

Init ==
  /\ tree \in [Logs -> {0, MaxTree}] /\ runForever \in RunModes
  /\ cachePos = [l \in Logs |-> Absent]
  /\ diskPos = [l \in Logs |-> Absent]
  /\ pc = [l \in Logs |-> "new"]
  /\ index = [l \in Logs |-> 0]
  /\ endPos = [l \in Logs |-> 0]
  /\ respEnd = [l \in Logs |-> 0]
  /\ sigInner = [l \in Logs |-> FALSE]
  /\ sigOuter = [l \in Logs |-> FALSE]
  /\ entryChan = <<>>
  /\ thread = [w \in Workers |-> "new"]
  /\ holding = [w \in Workers |-> {}]
  /\ main = "waiting"
  /\ handled = {} /\ failed = {} /\ lost = {}
  /\ runs = 1
-----------------------------------------------------------------------------
(* Plausible slips in single definitions below.  Nothing uses them: each is
   the mutated form of one definition, under which a property must fail. *)
MutSavedNext(l) == index[l] + 1
MutSavedLast(l) == IF index[l] = 0 THEN 0 ELSE index[l] - 1
MutClampToHead(startPos, treeSize) == IF startPos > treeSize THEN treeSize ELSE startPos
MutEndAtLast(startPos, treeSize) == IF treeSize = 0 THEN 0 ELSE treeSize - 1
MutRoomOffByOne == Len(entryChan) <= Cap
MutAnyDownloaderDone == \E l \in Logs : pc[l] = "done"
MutQuitOnClose(w) == holding[w] = {} /\ main # "waiting"
MutInnerOnly(l) == FALSE
-----------------------------------------------------------------------------
(* Outside the process: a log only grows. *)
GrowTree(l) ==
  /\ tree[l] < MaxTree
  /\ tree' = [tree EXCEPT ![l] = @ + 1]
  /\ UNCHANGED <<runForever, durable, download, entryChan, pool, main, history>>
-----------------------------------------------------------------------------
(* The log position.  SaveLogState writes Redis, only warns when that fails,
   and then writes the state file.  GetLogState asks Redis, then the state
   file, and allocates a new log at 0 when neither answers. *)
SavedIndex(l) == index[l]

FitsInt64(i) == i <= MaxInt64

StoreInRedis(l) ==
  \/ cachePos' = [cachePos EXCEPT ![l] = SavedIndex(l)]
  \/ RedisFails /\ UNCHANGED cachePos

(* The state file is opened with O_TRUNC: a failed write leaves it unreadable. *)
StoreOnDisk(l) ==
  \/ diskPos' = [diskPos EXCEPT ![l] = SavedIndex(l)]
  \/ DiskFails /\ diskPos' = [diskPos EXCEPT ![l] = Absent]
  \/ DiskFails /\ UNCHANGED diskPos

SaveLogState(l) ==
  /\ StoreInRedis(l)
  /\ IF HasDisk THEN StoreOnDisk(l) ELSE UNCHANGED diskPos

SaveState(l) == IF FitsInt64(index[l]) THEN SaveLogState(l) ELSE UNCHANGED durable

LoadFromRedis(l, cacheOK) == IF cacheOK THEN cachePos[l] ELSE Absent
LoadFromDisk(l) == IF diskPos[l] # Absent THEN diskPos[l] ELSE 0

LoadPos(l, cacheOK) ==
  IF LoadFromRedis(l, cacheOK) # Absent THEN LoadFromRedis(l, cacheOK) ELSE LoadFromDisk(l)

StartPosOf(l, cacheOK) == IF Offset > 0 THEN Offset ELSE LoadPos(l, cacheOK)

(* A position beyond the tree head is kept, and nothing is downloaded. *)
FirstIndex(startPos, treeSize) == startPos

(* startPos + Limit is uint64 arithmetic. *)
EndPosOf(startPos, treeSize) ==
  IF Limit > 0 /\ (startPos + Limit) % Word < treeSize
  THEN (startPos + Limit) % Word
  ELSE treeSize

(* Main's goroutine: one sync, or polling for ever. *)
AfterSync == IF runForever THEN "poll" ELSE "leave"
-----------------------------------------------------------------------------
(* A downloader goroutine.  It registers its signal channel itself, once it
   runs: a signal that comes earlier does not reach it. *)
Notify(l) ==
  /\ pc[l] = "new"
  /\ pc' = [pc EXCEPT ![l] = "sync"]
  /\ UNCHANGED <<ctlog, durable, index, endPos, respEnd, sigInner, sigOuter,
                 entryChan, pool, main, history>>

(* SyncLog = NewLogWorker followed by Run. *)
NewLogWorker(l, treeSize, cacheOK) ==
  LET startPos == StartPosOf(l, cacheOK)
      end      == EndPosOf(startPos, treeSize)
  IN  /\ pc[l] = "sync"
      /\ treeSize = tree[l] \/ (StaleSTH /\ treeSize < tree[l])
      /\ cacheOK \/ RedisFails
      /\ index' = [index EXCEPT ![l] = FirstIndex(startPos, treeSize)]
      /\ endPos' = [endPos EXCEPT ![l] = end]
      /\ respEnd' = [respEnd EXCEPT ![l] = startPos]
      /\ sigInner' = [sigInner EXCEPT ![l] = FALSE]
      /\ pc' = [pc EXCEPT ![l] = IF startPos = end THEN AfterSync
                                 ELSE IF startPos < end THEN "fetch" ELSE "unhook"]
      /\ UNCHANGED <<ctlog, durable, sigOuter, entryChan, pool, main, history>>

(* NewLogWorker returns an error: no STH, or the client cannot be made. *)
SyncFails(l) ==
  /\ pc[l] = "sync"
  /\ pc' = [pc EXCEPT ![l] = AfterSync]
  /\ UNCHANGED <<ctlog, durable, index, endPos, respEnd, sigInner, sigOuter,
                 entryChan, pool, main, history>>

(* Which statement of downloadCTRangeToChannel runs once index is i. *)
NextPc(l, i) ==
  IF i < respEnd[l] THEN "submit" ELSE IF i < endPos[l] THEN "fetch" ELSE "unhook"

(* GetRawEntries answers with the first n of the entries asked for; a log may
   return fewer than asked. *)
GetEntries(l, n) ==
  LET max == IF index[l] + BatchSpan >= endPos[l] THEN endPos[l] - 1
                                                  ELSE index[l] + BatchSpan
  IN  /\ pc[l] = "fetch"
      /\ n \in 0..(max - index[l] + 1)
      /\ respEnd' = [respEnd EXCEPT ![l] = index[l] + n]
      /\ pc' = [pc EXCEPT ![l] = IF n > 0 THEN "submit" ELSE "fetch"]
      /\ UNCHANGED <<ctlog, durable, index, endPos, sigInner, sigOuter,
                     entryChan, pool, main, history>>

(* Status 429: sleep without looking at the signal channel, then ask again. *)
RateLimited(l) ==
  /\ pc[l] = "fetch"
  /\ pc' = [pc EXCEPT ![l] = "backoff"]
  /\ UNCHANGED <<ctlog, durable, index, endPos, respEnd, sigInner, sigOuter,
                 entryChan, pool, main, history>>

BackoffOver(l) ==
  /\ pc[l] = "backoff"
  /\ pc' = [pc EXCEPT ![l] = "fetch"]
  /\ UNCHANGED <<ctlog, durable, index, endPos, respEnd, sigInner, sigOuter,
                 entryChan, pool, main, history>>

GetEntriesFails(l) ==
  /\ pc[l] = "fetch"
  /\ pc' = [pc EXCEPT ![l] = "unhook"]
  /\ UNCHANGED <<ctlog, durable, index, endPos, respEnd, sigInner, sigOuter,
                 entryChan, pool, main, history>>

(* An entry LogEntryFromLeaf cannot decode is passed over; no select. *)
SkipErroneous(l) ==
  /\ pc[l] = "submit"
  /\ Current(l) \in Erroneous
  /\ index' = [index EXCEPT ![l] = @ + 1]
  /\ pc' = [pc EXCEPT ![l] = NextPc(l, index[l] + 1)]
  /\ UNCHANGED <<ctlog, durable, endPos, respEnd, sigInner, sigOuter,
                 entryChan, pool, main, history>>

(* The three cases of the select around the current entry. *)
AtSelect(l) == pc[l] = "submit" /\ Current(l) \notin Erroneous

HasRoom == Len(entryChan) < Cap

Submit(l) ==
  /\ AtSelect(l)
  /\ HasRoom
  /\ entryChan' = Append(entryChan, Current(l))
  /\ index' = [index EXCEPT ![l] = @ + 1]
  /\ pc' = [pc EXCEPT ![l] = NextPc(l, index[l] + 1)]
  /\ UNCHANGED <<ctlog, durable, endPos, respEnd, sigInner, sigOuter,
                 pool, main, history>>

SaveTick(l) ==
  /\ AtSelect(l)
  /\ SaveState(l)
  /\ UNCHANGED <<ctlog, download, entryChan, pool, main, history>>

SignalCaught(l) ==
  /\ AtSelect(l)
  /\ sigInner[l]
  /\ sigInner' = [sigInner EXCEPT ![l] = FALSE]
  /\ pc' = [pc EXCEPT ![l] = "unhook"]
  /\ UNCHANGED <<ctlog, durable, index, endPos, respEnd, sigOuter,
                 entryChan, pool, main, history>>

(* The deferred close(sigChan) has run, the deferred signal.Stop has not. *)
Unhook(l) ==
  /\ pc[l] = "unhook"
  /\ pc' = [pc EXCEPT ![l] = "final"]
  /\ sigInner' = [sigInner EXCEPT ![l] = FALSE]
  /\ UNCHANGED <<ctlog, durable, index, endPos, respEnd, sigOuter,
                 entryChan, pool, main, history>>

(* Run saves the position it got to, after an error too. *)
SaveFinal(l) ==
  /\ pc[l] = "final"
  /\ SaveState(l)
  /\ pc' = [pc EXCEPT ![l] = AfterSync]
  /\ UNCHANGED <<ctlog, index, endPos, respEnd, sigInner, sigOuter,
                 entryChan, pool, main, history>>

(* The select of main's goroutine between two syncs. *)
PollSignal(l) ==
  /\ pc[l] = "poll"
  /\ sigOuter[l]
  /\ sigOuter' = [sigOuter EXCEPT ![l] = FALSE]
  /\ pc' = [pc EXCEPT ![l] = "leave"]
  /\ UNCHANGED <<ctlog, durable, index, endPos, respEnd, sigInner,
                 entryChan, pool, main, history>>

PollTimeout(l) ==
  /\ pc[l] = "poll"
  /\ pc' = [pc EXCEPT ![l] = "sync"]
  /\ UNCHANGED <<ctlog, durable, index, endPos, respEnd, sigInner, sigOuter,
                 entryChan, pool, main, history>>

(* The deferred signal.Stop and DownloaderWaitGroup.Done. *)
Leave(l) ==
  /\ pc[l] = "leave"
  /\ pc' = [pc EXCEPT ![l] = "done"]
  /\ sigOuter' = [sigOuter EXCEPT ![l] = FALSE]
  /\ UNCHANGED <<ctlog, durable, index, endPos, respEnd, sigInner,
                 entryChan, pool, main, history>>
-----------------------------------------------------------------------------
(* SIGINT or SIGTERM, delivered to every channel that is registered when it
   comes (capacity 1). *)
OuterNotified(l) == pc[l] \notin {"new", "done"}

Signal ==
  /\ MaySignal
  /\ main = "waiting"
  /\ \E l \in Logs : pc[l] \notin {"new", "done"}
  /\ \A l \in Logs : pc[l] \notin {"unhook", "leave"}
  /\ sigOuter' = [l \in Logs |-> sigOuter[l] \/ OuterNotified(l)]
  /\ sigInner' = [l \in Logs |-> sigInner[l] \/ pc[l] \in DownloadPcs]
  /\ UNCHANGED <<ctlog, durable, pc, index, endPos, respEnd, entryChan, pool,
                 main, history>>

(* The process dies: killed, or a signal arrives when none is registered, or
   in the window between close(sigChan) and signal.Stop, where the runtime
   sends on a closed channel.  What the pipeline holds is gone. *)
Crash ==
  /\ MayCrash
  /\ main # "exited"
  /\ main' = "exited"
  /\ lost' = lost \cup Pipeline
  /\ entryChan' = <<>>
  /\ holding' = [w \in Workers |-> {}]
  /\ UNCHANGED <<ctlog, durable, download, thread, handled, failed, runs>>
-----------------------------------------------------------------------------
(* insertCTWorker.  The goroutine itself registers with the wait group. *)
Running == main # "exited"

Register(w) ==
  /\ Running /\ thread[w] = "new"
  /\ thread' = [thread EXCEPT ![w] = "ready"]
  /\ UNCHANGED <<ctlog, durable, download, entryChan, holding, main, history>>

TakeEntry(w) ==
  /\ Running /\ thread[w] = "ready" /\ holding[w] = {}
  /\ entryChan # <<>>
  /\ holding' = [holding EXCEPT ![w] = {Head(entryChan)}]
  /\ entryChan' = Tail(entryChan)
  /\ UNCHANGED <<ctlog, durable, download, thread, main, history>>

(* Undecodable, a CA's, expired, filtered by its issuer's name or without an
   issuer: continue. *)
Discarded(w) == holding[w] \subseteq Droppable

Drop(w) ==
  /\ Running /\ holding[w] # {} /\ Discarded(w)
  /\ handled' = handled \cup holding[w]
  /\ holding' = [holding EXCEPT ![w] = {}]
  /\ UNCHANGED <<ctlog, durable, download, entryChan, thread, main, failed, lost, runs>>

StoreOk(w) ==
  /\ Running /\ holding[w] # {} /\ ~Discarded(w)
  /\ handled' = handled \cup holding[w]
  /\ holding' = [holding EXCEPT ![w] = {}]
  /\ UNCHANGED <<ctlog, durable, download, entryChan, thread, main, failed, lost, runs>>

(* Store's error is logged and the entry is not tried again. *)
StoreFails(w) ==
  /\ Running /\ holding[w] # {} /\ ~Discarded(w)
  /\ RedisFails \/ DiskFails
  /\ failed' = failed \cup holding[w]
  /\ holding' = [holding EXCEPT ![w] = {}]
  /\ UNCHANGED <<ctlog, durable, download, entryChan, thread, main, handled, lost, runs>>

(* range ends once the channel is closed and drained. *)
RangeEnds(w) == holding[w] = {} /\ main # "waiting" /\ entryChan = <<>>

WorkerDone(w) ==
  /\ Running /\ thread[w] = "ready"
  /\ RangeEnds(w)
  /\ thread' = [thread EXCEPT ![w] = "done"]
  /\ UNCHANGED <<ctlog, durable, download, entryChan, holding, main, history>>
-----------------------------------------------------------------------------
(* main: DownloaderWaitGroup.Wait, Stop (close the channel, then the display
   waits on the same ThreadWaitGroup), ThreadWaitGroup.Wait, exit. *)
DownloadersDone == \A l \in Logs : pc[l] = "done"
NoThreadCounted == \A w \in Workers : thread[w] # "ready"

MainStop ==
  /\ main = "waiting" /\ DownloadersDone
  /\ main' = "stopping"
  /\ UNCHANGED <<ctlog, durable, download, entryChan, pool, history>>

StopReturns ==
  /\ main = "stopping" /\ NoThreadCounted
  /\ main' = "stopped"
  /\ UNCHANGED <<ctlog, durable, download, entryChan, pool, history>>

ThreadsWaited ==
  /\ main = "stopped" /\ NoThreadCounted
  /\ main' = "leaving"
  /\ UNCHANGED <<ctlog, durable, download, entryChan, pool, history>>

MainExit ==
  /\ main = "leaving"
  /\ main' = "exited"
  /\ lost' = lost \cup Pipeline
  /\ entryChan' = <<>>
  /\ holding' = [w \in Workers |-> {}]
  /\ UNCHANGED <<ctlog, durable, download, thread, handled, failed, runs>>

(* The operator (or a supervisor) starts ct-fetch again. *)
Restart ==
  /\ main = "exited" /\ runs < MaxRuns
  /\ Started
  /\ runs' = runs + 1
  /\ UNCHANGED <<ctlog, durable, handled, failed, lost>>

Terminated == main = "exited" /\ runs = MaxRuns /\ UNCHANGED vars
-----------------------------------------------------------------------------
Sync(l) == \E treeSize \in 0..MaxTree, cacheOK \in BOOLEAN : NewLogWorker(l, treeSize, cacheOK)
Fetch(l) == \E n \in 0..(BatchSpan + 1) : GetEntries(l, n)

Downloader(l) ==
  /\ Running
  /\ \/ Notify(l) \/ Sync(l) \/ SyncFails(l)
     \/ Fetch(l) \/ RateLimited(l) \/ BackoffOver(l) \/ GetEntriesFails(l)
     \/ SkipErroneous(l) \/ Submit(l) \/ SaveTick(l) \/ SignalCaught(l)
     \/ Unhook(l) \/ SaveFinal(l)
     \/ PollSignal(l) \/ PollTimeout(l) \/ Leave(l)

Worker(w) ==
  Register(w) \/ TakeEntry(w) \/ Drop(w) \/ StoreOk(w) \/ StoreFails(w) \/ WorkerDone(w)

Main == MainStop \/ StopReturns \/ ThreadsWaited \/ MainExit

Next ==
  \/ \E l \in Logs : GrowTree(l) \/ Downloader(l)
  \/ \E w \in Workers : Worker(w)
  \/ Main \/ Signal \/ Crash \/ Restart \/ Terminated

Spec == Init /\ [][Next]_vars

(* What the Go scheduler owes the process: runnable goroutines run and HTTP
   requests end (the client has a timeout); a full channel serves blocked
   senders in turn; and a select does not choose its timer for ever while
   another of its cases is ready.  Of the logs nothing is assumed. *)
Scheduling ==
  /\ \A l \in Logs :
       /\ WF_vars(Running /\ ( \/ Notify(l) \/ Sync(l) \/ SyncFails(l)
                               \/ BackoffOver(l) \/ SkipErroneous(l) \/ Unhook(l)
                               \/ SaveFinal(l) \/ PollTimeout(l) \/ Leave(l) ))
       /\ SF_vars(Running /\ (Submit(l) \/ SignalCaught(l)))
       /\ SF_vars(Running /\ PollSignal(l))
  /\ \A w \in Workers : WF_vars(Worker(w))
  /\ WF_vars(Main)

FairSpec == Spec /\ Scheduling

(* What a log may owe it besides: asked again and again, it sometimes answers
   with its current tree head, and sometimes with entries. *)
Served(l) == \E n \in 1..(BatchSpan + 1) : GetEntries(l, n)

LogAnswers(l) ==
  SF_vars(Running /\ NewLogWorker(l, tree[l], TRUE)) /\ SF_vars(Running /\ Served(l))
-----------------------------------------------------------------------------
(* The entries that have met an end or are still in the pipeline:
   undecodable, handled, refused by Store with an error, or lost when a
   process ended. *)
Seen == Erroneous \cup handled \cup failed \cup lost \cup Pipeline

Accounted(l, p) == \A i \in Offset..(p - 1) : <<l, i>> \in Seen

(* A position that saveState wrote, in Redis or in the state file, never
   passes an entry that was not handed on: whatever fails, no entry is
   skipped without having been in the pipeline. *)
SavedCovered ==
  \A l \in Logs : Accounted(l, cachePos[l]) /\ Accounted(l, diskPos[l])

(* The inductive strengthening of SavedCovered: index, which saveState stores,
   is covered wherever the downloader is, and a process that is gone holds
   nothing a restart could forget. *)
Covered ==
  /\ SavedCovered
  /\ \A l \in Logs : Accounted(l, index[l])
  /\ main = "exited" => entryChan = <<>> /\ \A w \in Workers : holding[w] = {}

(* The detailed specification implements AtLeastOnce: over every step of every
   goroutine and every fault, entries enter in order, leave only by ending, and
   no place that GetLogState reads ever holds a position beyond them. *)
Ended == handled \cup failed \cup lost

Promise == INSTANCE AtLeastOnce WITH
  First <- Offset, Undecodable <- Erroneous, NoPosition <- Absent,
  pending <- Pipeline, ended <- Ended,
  resume <- [l \in Logs |-> {cachePos[l], diskPos[l]}]

KeepsPromise == Promise!Spec

(* What is lost for good (behind a saved position, not handled, not refused
   with an error) is at most one full pipeline for each process that ended. *)
Gap(pos) ==
  {e \in Logs \X (Offset..MaxTree) : e[2] < pos[e[1]]}
    \ (Erroneous \cup handled \cup failed \cup Pipeline)

EndedRuns == IF Running THEN runs - 1 ELSE runs

GapBound ==
  \A pos \in {cachePos, diskPos} :
    Cardinality(Gap(pos)) <= EndedRuns * (Cap + Cardinality(Workers))

(* Stop closes entryChan only when no downloader can still send on it (a send
   on a closed channel panics). *)
NoSendAfterClose ==
  main \in {"stopping", "stopped", "leaving"} => \A l \in Logs : pc[l] = "done"

(* When Stop returns and at least one worker had registered with the wait
   group, the channel is drained and no entry is in a worker's hands. *)
DrainedStop ==
  [][main = "stopping" /\ main' = "stopped" /\ (\E w \in Workers : thread[w] = "done")
     => Pipeline = {}]_vars

(* The inductive invariant behind the last two: a worker outside its range
   loop holds nothing, and one that left the loop found the channel closed and
   empty. *)
PoolInv ==
  /\ NoSendAfterClose
  /\ \A w \in Workers : thread[w] # "ready" => holding[w] = {}
  /\ \A w \in Workers : thread[w] = "done" => main # "waiting" /\ entryChan = <<>>

(* "Wait for workers to stop" (ct-fetch.go, main): nothing is left in the
   pipeline when the process exits by itself. *)
ExitDrained == main = "leaving" => Pipeline = {}

(* Without faults and without an offset, no entry is worked on twice, over all
   polls, signals and restarts: an entry in the pipeline has not been handled,
   and is there once. *)
NoRedo ==
  /\ Pipeline \cap (handled \cup failed) = {}
  /\ \A k \in 1..Len(entryChan) :
       /\ ~Held(entryChan[k])
       /\ \A j \in 1..Len(entryChan) : entryChan[j] = entryChan[k] => j = k
  /\ \A v, w \in Workers : v # w => holding[v] \cap holding[w] = {}

(* Without an offset and without Redis faults, the position in Redis never
   moves back, not even when a log answers with an old tree head. *)
PosNeverBack == [][\A l \in Logs : cachePos'[l] >= cachePos[l]]_vars

(* The downloader of log l has ended or is about to, or a signal waits for it
   in one of its channels. *)
Heeds(l) == pc[l] \in {"leave", "done"} \/ sigOuter[l] \/ sigInner[l]

(* A ct-fetch with worker threads that does not run for ever exits, and so does
   one that a signal has reached in every downloader, however they are
   distributed over sync, download and poll at that moment.  Two things can
   keep it alive: a log that never again ends a request loop (answering 429 or
   nothing, when the signal channel is not looked at), and a downloader that had
   not registered when the signal came. *)
Stops ==
  (\A l \in Logs : []<>(pc[l] \notin {"fetch", "backoff"}))
    => ((~runForever \/ \A l \in Logs : Heeds(l)) ~> (main = "exited"))

(* A ct-fetch that runs for ever catches up with every log that answers, again
   and again, whatever the other logs do: over answers cut short, 429, errors
   and positions resumed in the middle, until every decodable entry the log then
   has is handled, unless a signal ended that log's downloader. *)
CaughtUp(l) == \A i \in Offset..(tree[l] - 1) : <<l, i>> \in Erroneous \cup handled

EventuallyHandled ==
  \A l \in Logs :
    LogAnswers(l) => []<>(runForever => CaughtUp(l) \/ pc[l] = "done")
=============================================================================

---------------------------- MODULE IngestProofs ----------------------------
(***************************************************************************)
(* Proofs about Ingest, for every set of logs, workers and certificates    *)
(* and under every fault.  A step of Ingest is a step of LogSync as far as *)
(* LogSync's variables go, so what LogSyncProofs shows carries over.       *)
(***************************************************************************)
EXTENDS Ingest, LogSyncProofs

LEMMA IngestStepIsStep == [IngestNext]_allVars => [Next]_vars
  BY DEF IngestNext, Elsewhere, StoreStep, WasUnknownTrue, WasUnknownFalse, ReplyLost,
    WritePEM, StoreReturnsNil, StoreReturnsError, HourBegins, ProcessEnds, allVars, Next,
    Worker, Main

LEMMA IngestIsLogSync == IngestSpec => Spec
<1>1. IngestInit => Init
  BY DEF IngestInit
<1> QED BY <1>1, IngestStepIsStep, PTL DEF IngestSpec, Spec

(* A worker in Store has one entry, whose certificate is a real one. *)
LEMMA CertInIs ==
  ASSUME SyncInv, NEW w \in Workers, holding[w] # {}, ~Discarded(w)
  PROVE  /\ CertIn(w) \in Certs
         /\ CertIn(w) # NoCert
         /\ \A e \in holding[w] : CertOf[e] = CertIn(w)
<1>1. PICK e \in holding[w] : holding[w] = {e}
  BY DEF SyncInv, HoldsOne
<1>2. e \in (Logs \X (0..MaxTree)) \ Droppable
  BY <1>1 DEF Discarded, SyncInv, InTree, Pipeline
<1>3. CertIn(w) = CertOf[e]
  BY <1>1 DEF CertIn
<1> QED BY <1>1, <1>2, <1>3, IngestAssumption

(* The inductive invariant: what a worker was told to write is the certificate
   of its entry; one that was answered relies on a certificate that is kept. *)
IngestInv ==
  /\ writing \in [Workers -> Certs \cup {NoCert}]
  /\ answered \subseteq Workers
  /\ KnownKept
  /\ \A e \in (handled \cup failed) \ Droppable : CertOf[e] \in Kept
  /\ \A w \in answered :
       holding[w] # {} /\ ~Discarded(w) /\ CertIn(w) \in Kept
  /\ \A w \in Workers :
       writing[w] # NoCert => w \in answered /\ writing[w] = CertIn(w)

(* What is kept stays kept: a file cut short is excused in the same step. *)
LEMMA KeptGrows ==
  ASSUME SyncInv, IngestInv, [IngestNext]_allVars
  PROVE  Kept \subseteq Kept'
<1> USE DEF Kept, Files!InHand, store, allVars
<1>1. ASSUME NEW w \in Workers, WasUnknownTrue(w) PROVE Kept \subseteq Kept'
  <2>1. PICK c \in Certs : c = CertIn(w)
    BY <1>1, CertInIs DEF WasUnknownTrue, InStore
  <2>2. /\ writing[w] = NoCert /\ pem' = pem /\ excused' = excused
        /\ \A v \in Workers \ {w} : writing'[v] = writing[v]
    BY <1>1, <2>1 DEF WasUnknownTrue, Files!Insert, IngestInv
  <2> QED BY <2>2
<1>2. ASSUME NEW w \in Workers, WritePEM(w) PROVE Kept \subseteq Kept'
  <2>1. /\ pem' = pem \cup {writing[w]} /\ excused' = excused
        /\ \A v \in Workers \ {w} : writing'[v] = writing[v]
    BY <1>2 DEF WritePEM, Files!Finish, IngestInv
  <2> QED BY <2>1
<1>3. ASSUME NEW w \in Workers, ReplyLost(w) PROVE Kept \subseteq Kept'
  BY <1>3 DEF ReplyLost, Files!Refuse
<1>4. ASSUME NEW w \in Workers, StoreReturnsError(w) PROVE Kept \subseteq Kept'
  <2>1. CASE writing[w] = NoCert
    BY <1>4, <2>1 DEF StoreReturnsError, Files!Refuse
  <2>2. CASE writing[w] # NoCert
    <3>1. /\ pem' \in {pem, pem \ {writing[w]}} /\ excused' = excused \cup {writing[w]}
          /\ \A v \in Workers \ {w} : writing'[v] = writing[v]
      BY <1>4, <2>2 DEF StoreReturnsError, Files!Fail, IngestInv
    <3> QED BY <3>1
  <2> QED BY <2>1, <2>2
<1>5. CASE ProcessEnds
  <2>1. /\ pem \subseteq pem' \cup Files!InHand
        /\ excused' = excused \cup
             {CertIn(w) : w \in {v \in Workers : holding[v] # {} /\ ~Discarded(v)}}
    BY <1>5 DEF ProcessEnds
  <2>2. Files!InHand \subseteq excused'
    BY <2>1 DEF IngestInv
  <2> QED BY <2>1, <2>2
<1>6. CASE \/ Elsewhere \/ HourBegins \/ UNCHANGED allVars
           \/ \E w \in Workers : WasUnknownFalse(w) \/ StoreReturnsNil(w)
  BY <1>6 DEF Elsewhere, HourBegins, WasUnknownFalse, StoreReturnsNil
<1> QED BY <1>1, <1>2, <1>3, <1>4, <1>5, <1>6 DEF IngestNext, StoreStep

(* A worker that keeps its entry keeps its certificate. *)
LEMMA CertInKept ==
  ASSUME NEW w \in Workers, holding'[w] = holding[w]
  PROVE  CertIn(w)' = CertIn(w) /\ Discarded(w)' = Discarded(w)
  BY DEF CertIn, Discarded

LEMMA IngestInvStep == SyncInv /\ IngestInv /\ [IngestNext]_allVars => IngestInv'
<1> SUFFICES ASSUME SyncInv, IngestInv, [IngestNext]_allVars PROVE IngestInv'
  OBVIOUS
<1>k. Kept \subseteq Kept'
  BY KeptGrows
<1> USE DEF store, allVars, pool, history, durable, download, ctlog
<1>1. ASSUME NEW w \in Workers, WasUnknownTrue(w) PROVE IngestInv'
  <2>1. PICK c \in Certs : c = CertIn(w) /\ c # NoCert
    BY <1>1, CertInIs DEF WasUnknownTrue, InStore
  <2>2. /\ serials' = serials \cup {c} /\ writing' = [writing EXCEPT ![w] = c]
        /\ answered' = answered \cup {w} /\ pem' = pem /\ excused' = excused
        /\ UNCHANGED vars /\ holding[w] # {} /\ ~Discarded(w)
    BY <1>1, <2>1 DEF WasUnknownTrue, InStore, Files!Insert
  <2>3. c \in Kept' /\ writing' \in [Workers -> Certs \cup {NoCert}] /\ writing'[w] = c
    BY <2>1, <2>2 DEF IngestInv, Kept, Files!InHand
  <2>4. KnownKept'
    BY <1>k, <2>2, <2>3 DEF IngestInv, KnownKept, Files!KnownKept, Kept, Files!InHand
  <2>5. \A v \in Workers : CertIn(v)' = CertIn(v) /\ Discarded(v)' = Discarded(v)
    BY <2>2, CertInKept DEF vars
  <2>6. handled' = handled /\ failed' = failed /\ holding' = holding
    BY <2>2 DEF vars
  <2>7. \A v \in Workers : writing'[v] # NoCert => v \in answered' /\ writing'[v] = CertIn(v)'
    BY <2>1, <2>2, <2>3, <2>5 DEF IngestInv
  <2>8. \A v \in answered' : holding'[v] # {} /\ ~Discarded(v)' /\ CertIn(v)' \in Kept'
    BY <1>k, <2>1, <2>2, <2>3, <2>5, <2>6 DEF IngestInv
  <2> QED BY <1>k, <2>2, <2>3, <2>4, <2>6, <2>7, <2>8 DEF IngestInv
<1>2. ASSUME NEW w \in Workers, WasUnknownFalse(w) \/ ReplyLost(w) PROVE IngestInv'
  <2>1. /\ serials' \in {serials, serials \cup {CertIn(w)}}
        /\ CertIn(w) \in Kept' /\ writing' = writing
        /\ answered' = answered \cup {w}
        /\ UNCHANGED vars /\ holding[w] # {} /\ ~Discarded(w)
    <3>1. CASE WasUnknownFalse(w)
      BY <1>k, <3>1 DEF WasUnknownFalse, InStore, IngestInv, KnownKept, Files!KnownKept, Kept
    <3>2. CASE ReplyLost(w)
      BY <3>2 DEF ReplyLost, InStore, Files!Refuse, Kept
    <3> QED BY <1>2, <3>1, <3>2
  <2>2. KnownKept'
    BY <1>k, <2>1 DEF IngestInv, KnownKept, Files!KnownKept, Kept
  <2>3. \A v \in Workers : CertIn(v)' = CertIn(v) /\ Discarded(v)' = Discarded(v)
    BY <2>1, CertInKept DEF vars
  <2>4. handled' = handled /\ failed' = failed /\ holding' = holding
    BY <2>1 DEF vars
  <2> QED BY <1>k, <2>1, <2>2, <2>3, <2>4 DEF IngestInv
<1>3. ASSUME NEW w \in Workers, WritePEM(w) PROVE IngestInv'
  <2>1. /\ serials' = serials /\ writing' = [writing EXCEPT ![w] = NoCert]
        /\ answered' = answered /\ UNCHANGED vars
    BY <1>3 DEF WritePEM, Files!Finish
  <2>2. KnownKept'
    BY <1>k, <2>1 DEF IngestInv, KnownKept, Files!KnownKept, Kept
  <2>3. \A v \in Workers : CertIn(v)' = CertIn(v) /\ Discarded(v)' = Discarded(v)
    BY <2>1, CertInKept DEF vars
  <2>4. handled' = handled /\ failed' = failed /\ holding' = holding
    BY <2>1 DEF vars
  <2> QED BY <1>k, <2>1, <2>2, <2>3, <2>4 DEF IngestInv
<1>4. ASSUME NEW w \in Workers, StoreReturnsNil(w) \/ StoreReturnsError(w) PROVE IngestInv'
  <2>1. /\ holding[w] # {} /\ ~Discarded(w)
        /\ holding' = [holding EXCEPT ![w] = {}]
        /\ handled' \cup failed' = handled \cup failed \cup holding[w]
        /\ answered' = answered \ {w}
    BY <1>4 DEF StoreReturnsNil, StoreReturnsError, StoreOk, StoreFails
  <2>2. /\ writing' \in [Workers -> Certs \cup {NoCert}] /\ writing'[w] = NoCert
        /\ \A v \in Workers \ {w} : writing'[v] = writing[v]
    <3>1. CASE StoreReturnsNil(w)
      BY <3>1 DEF StoreReturnsNil, MayReturn, IngestInv
    <3>2. CASE StoreReturnsError(w) /\ writing[w] = NoCert
      BY <3>2 DEF StoreReturnsError, Files!Refuse, IngestInv
    <3>3. CASE StoreReturnsError(w) /\ writing[w] # NoCert
      BY <3>3 DEF StoreReturnsError, Files!Fail, IngestInv
    <3> QED BY <1>4, <3>1, <3>2, <3>3
  <2>3. CertIn(w) \in Kept'
    <3>1. CASE StoreReturnsNil(w)
      BY <1>k, <3>1 DEF StoreReturnsNil, MayReturn, IngestInv
    <3>2. CASE StoreReturnsError(w) /\ writing[w] = NoCert
      BY <3>2 DEF StoreReturnsError, Files!Refuse, Kept
    <3>3. CASE StoreReturnsError(w) /\ writing[w] # NoCert
      BY <3>3 DEF StoreReturnsError, Files!Fail, IngestInv, Kept
    <3> QED BY <1>4, <3>1, <3>2, <3>3
  <2>4. serials' \in {serials, serials \cup {CertIn(w)}}
    BY <1>4 DEF StoreReturnsNil, StoreReturnsError, Files!Refuse, Files!Fail
  <2>5. KnownKept'
    BY <1>k, <2>3, <2>4 DEF IngestInv, KnownKept, Files!KnownKept, Kept
  <2>6. \A e \in (handled' \cup failed') \ Droppable : CertOf[e] \in Kept'
    <3>1. \A e \in holding[w] : CertOf[e] = CertIn(w)
      BY <2>1, CertInIs
    <3> QED BY <1>k, <2>1, <2>3, <3>1 DEF IngestInv
  <2>7. \A v \in Workers \ {w} : /\ holding'[v] = holding[v] /\ CertIn(v)' = CertIn(v)
                                 /\ Discarded(v)' = Discarded(v)
    BY <2>1, CertInKept DEF SyncInv, TypeOK
  <2> QED BY <1>k, <2>1, <2>2, <2>5, <2>6, <2>7 DEF IngestInv
<1>5. CASE ProcessEnds
  <2>1. /\ serials' = serials /\ writing' = [w \in Workers |-> NoCert] /\ answered' = {}
        /\ handled' = handled /\ failed' = failed
    BY <1>5 DEF ProcessEnds, MainExit, Crash
  <2>2. KnownKept'
    BY <1>k, <2>1 DEF IngestInv, KnownKept, Files!KnownKept, Kept
  <2> QED BY <1>k, <2>1, <2>2 DEF IngestInv
<1>6. CASE HourBegins
  <2>1. /\ serials' \subseteq serials /\ UNCHANGED <<vars, writing, answered, pem, excused>>
    BY <1>6 DEF HourBegins
  <2>2. KnownKept'
    BY <1>k, <2>1 DEF IngestInv, KnownKept, Files!KnownKept, Kept
  <2>3. \A v \in Workers : CertIn(v)' = CertIn(v) /\ Discarded(v)' = Discarded(v)
    BY <2>1, CertInKept DEF vars
  <2>4. handled' = handled /\ failed' = failed /\ holding' = holding
    BY <2>1 DEF vars
  <2> QED BY <1>k, <2>1, <2>2, <2>3, <2>4 DEF IngestInv
<1>7. CASE Elsewhere \/ UNCHANGED allVars
  <2>1. UNCHANGED <<serials, pem, writing, answered, excused>>
    BY <1>7 DEF Elsewhere
  <2>2. KnownKept'
    BY <1>k, <2>1 DEF IngestInv, KnownKept, Files!KnownKept, Kept
  <2>3. \A v \in answered : holding'[v] = holding[v]
    <3>1. ASSUME NEW l \in Logs, Downloader(l) PROVE UNCHANGED <<holding, handled, failed>>
      BY <3>1 DEF Downloader, Sync, NewLogWorker, SyncFails, Fetch, GetEntries, RateLimited,
        BackoffOver, GetEntriesFails, SkipErroneous, Submit, SaveTick, SignalCaught, Unhook,
        SaveFinal, PollSignal, PollTimeout, Leave, Notify
    <3>2. ASSUME NEW w \in Workers, TakeEntry(w) \/ Drop(w)
          PROVE w \notin answered /\ \A v \in Workers \ {w} : holding'[v] = holding[v]
      BY <3>2 DEF TakeEntry, Drop, IngestInv, SyncInv, TypeOK
    <3>3. CASE Restart
      BY <3>3 DEF Restart, IngestInv, SyncInv, Covered
    <3>4. CASE \/ \E l \in Logs : GrowTree(l)
               \/ \E w \in Workers : Register(w) \/ WorkerDone(w)
               \/ MainStop \/ StopReturns \/ ThreadsWaited \/ Signal \/ Terminated
               \/ UNCHANGED allVars
      BY <3>4 DEF GrowTree, Register, WorkerDone, MainStop, StopReturns, ThreadsWaited,
        Signal, Terminated, vars
    <3> QED BY <1>7, <3>1, <3>2, <3>3, <3>4 DEF Elsewhere, IngestInv
  <2>4. (handled' \cup failed') \ Droppable = (handled \cup failed) \ Droppable
    <3>1. ASSUME NEW l \in Logs, Downloader(l) PROVE UNCHANGED <<handled, failed>>
      BY <3>1 DEF Downloader, Sync, NewLogWorker, SyncFails, Fetch, GetEntries, RateLimited,
        BackoffOver, GetEntriesFails, SkipErroneous, Submit, SaveTick, SignalCaught, Unhook,
        SaveFinal, PollSignal, PollTimeout, Leave, Notify
    <3>2. ASSUME NEW w \in Workers, Drop(w)
          PROVE (handled' \cup failed') \ Droppable = (handled \cup failed) \ Droppable
      BY <3>2 DEF Drop, Discarded
    <3>3. CASE \/ \E l \in Logs : GrowTree(l)
               \/ \E w \in Workers : Register(w) \/ TakeEntry(w) \/ WorkerDone(w)
               \/ MainStop \/ StopReturns \/ ThreadsWaited \/ Signal \/ Restart
               \/ Terminated \/ UNCHANGED allVars
      BY <3>3 DEF GrowTree, Register, TakeEntry, WorkerDone, MainStop, StopReturns,
        ThreadsWaited, Signal, Restart, Terminated, vars
    <3> QED BY <1>7, <3>1, <3>2, <3>3 DEF Elsewhere
  <2>5. \A v \in answered : CertIn(v)' = CertIn(v) /\ Discarded(v)' = Discarded(v)
    BY <2>3, CertInKept DEF IngestInv
  <2> QED BY <1>k, <2>1, <2>2, <2>3, <2>4, <2>5 DEF IngestInv
<1> QED BY <1>1, <1>2, <1>3, <1>4, <1>5, <1>6, <1>7 DEF IngestNext, StoreStep

LEMMA IngestInvHolds == IngestSpec => []IngestInv
<1>1. IngestInit => IngestInv
  BY DEF IngestInit, Init, InitStore, Files!Init, IngestInv, KnownKept, Files!KnownKept
<1> QED BY <1>1, IngestInvStep, IngestIsLogSync, SyncInvHolds, PTL DEF IngestSpec

(* Whatever Redis, the disk, the workers and the end of the process do, a
   certificate Redis calls known is on disk, being written, or excused by a
   fault; for every number of workers and certificates. *)
THEOREM KnownKeptHolds == IngestSpec => []KnownKept
<1>1. IngestInv => KnownKept
  BY DEF IngestInv
<1> QED BY <1>1, IngestInvHolds, PTL

(* insertCTWorker never counts an entry as dealt with whose certificate nobody
   has or is about to write, not even when Store relied on another worker. *)
THEOREM HandledIsKeptHolds == IngestSpec => []HandledIsKept
<1>1. IngestInv => HandledIsKept
  BY DEF IngestInv, HandledIsKept
<1> QED BY <1>1, IngestInvHolds, PTL

(* No position that saveState stored, in Redis or on disk, passes an entry
   whose certificate is neither kept nor still on its way, unless the process
   that had it ended; a Store that failed is the only other excuse. *)
THEOREM SavedIsKeptHolds == IngestSpec => []SavedIsKept
<1>1. ASSUME SyncInv, IngestInv PROVE SavedIsKept
  <2> SUFFICES ASSUME NEW l \in Logs, NEW i \in Offset..(MaxTree - 1),
                      i < cachePos[l] \/ i < diskPos[l],
                      <<l, i>> \notin Erroneous \cup Droppable \cup Pipeline \cup lost
               PROVE  CertOf[<<l, i>>] \in Kept
    BY DEF SavedIsKept
  <2>1. i \in Offset..(cachePos[l] - 1) \/ i \in Offset..(diskPos[l] - 1)
    BY <1>1, ConstantsAssumption DEF SyncInv, TypeOK, Absent
  <2>2. <<l, i>> \in Seen
    BY <1>1, <2>1 DEF SyncInv, Covered, SavedCovered, Accounted
  <2>3. <<l, i>> \in (handled \cup failed) \ Droppable
    BY <2>2 DEF Seen
  <2> QED BY <1>1, <2>3 DEF IngestInv
<1> QED BY <1>1, IngestInvHolds, IngestIsLogSync, SyncInvHolds, PTL
-----------------------------------------------------------------------------
(* The certificates the histories of the store are about are real ones. *)
StoreTyped == excused \subseteq Certs /\ past \subseteq Certs

(* Every step of Ingest is one of the store or leaves it alone: what a worker
   does between two answers of Redis, the end of a process and the clock. *)
LEMMA IngestStepOfStore ==
  ASSUME SyncInv, IngestInv, StoreTyped, [IngestNext]_allVars
  PROVE  [Files!Next]_(Files!vars) /\ StoreTyped'
<1> USE DEF store, allVars, StoreTyped, Files!vars
<1>1. ASSUME NEW w \in Workers, WasUnknownTrue(w)
      PROVE  [Files!Next]_(Files!vars) /\ StoreTyped'
  <2>1. CertIn(w) \in Certs
    BY <1>1, CertInIs DEF WasUnknownTrue, InStore
  <2> QED BY <1>1, <2>1 DEF WasUnknownTrue, Files!Insert, Files!Next
<1>2. ASSUME NEW w \in Workers, ReplyLost(w)
      PROVE  [Files!Next]_(Files!vars) /\ StoreTyped'
  <2>1. CertIn(w) \in Certs
    BY <1>2, CertInIs DEF ReplyLost, InStore
  <2> QED BY <1>2, <2>1 DEF ReplyLost, Files!Refuse, Files!Next
<1>3. ASSUME NEW w \in Workers, WritePEM(w)
      PROVE  [Files!Next]_(Files!vars) /\ StoreTyped'
  BY <1>3 DEF WritePEM, Files!Finish, Files!Next
<1>4. ASSUME NEW w \in Workers, StoreReturnsError(w)
      PROVE  [Files!Next]_(Files!vars) /\ StoreTyped'
  <2>1. CertIn(w) \in Certs
    BY <1>4, CertInIs DEF StoreReturnsError, StoreFails
  <2>2. writing[w] \in Certs \cup {NoCert}
    BY DEF IngestInv
  <2> QED BY <1>4, <2>1, <2>2 DEF StoreReturnsError, Files!Refuse, Files!Fail, Files!Next
<1>5. CASE ProcessEnds
  <2>1. \A w \in Workers : holding[w] # {} /\ ~Discarded(w) => CertIn(w) \in Certs
    BY CertInIs
  <2>2. excused \subseteq excused' /\ excused' \subseteq Certs
    BY <1>5, <2>1 DEF ProcessEnds
  <2>3. Files!InHand \subseteq excused'
    BY <1>5 DEF ProcessEnds, Files!InHand, IngestInv
  <2>4. Files!Crash
    BY <1>5, <2>2, <2>3 DEF ProcessEnds, Files!Crash
  <2> QED BY <1>5, <2>2, <2>4 DEF ProcessEnds, Files!Next
<1>6. CASE HourBegins
  BY <1>6 DEF HourBegins, Files!Forget, Files!Next
<1>7. CASE \/ Elsewhere
           \/ \E w \in Workers : WasUnknownFalse(w) \/ StoreReturnsNil(w)
           \/ UNCHANGED allVars
  BY <1>7 DEF Elsewhere, WasUnknownFalse, StoreReturnsNil
<1> QED BY <1>1, <1>2, <1>3, <1>4, <1>5, <1>6, <1>7 DEF IngestNext, StoreStep

(* The composition adds nothing to its parts: the pipeline with its workers'
   calls opened up still behaves as LogSync, and so as AtLeastOnce, and what
   the workers of all its processes do to Redis and the disk is what
   SerialStore promises. *)
THEOREM ImplementsParts == IngestSpec => Spec /\ KeepsPromise /\ Files!Spec
<1>1. IngestInit => Files!Init /\ StoreTyped
  BY DEF IngestInit, InitStore, Files!Init, StoreTyped
<1>2. IngestSpec => Files!Spec
  BY <1>1, IngestStepOfStore, IngestIsLogSync, SyncInvHolds, IngestInvHolds, PTL
     DEF IngestSpec, Files!Spec
<1> QED BY <1>2, IngestIsLogSync, KeepsPromiseHolds, PTL

(* SerialStore itself: what is in hand is known until it is over, so nobody
   else is told that it is new. *)
InHandInv ==
  /\ writing \in [Workers -> Certs \cup {NoCert}]
  /\ \A w \in Workers : writing[w] # NoCert => writing[w] \in serials \cup past
  /\ Files!OneWriterEach

LEMMA InHandInvStep == InHandInv /\ [Files!Next]_(Files!vars) => InHandInv'
<1> SUFFICES ASSUME InHandInv, [Files!Next]_(Files!vars) PROVE InHandInv'
  OBVIOUS
<1> USE DEF InHandInv, Files!OneWriterEach
<1>1. ASSUME NEW w \in Workers, NEW c \in Certs, Files!Insert(w, c) PROVE InHandInv'
  BY <1>1 DEF Files!Insert
<1>2. ASSUME NEW w \in Workers, Files!Finish(w) \/ Files!Fail(w) PROVE InHandInv'
  BY <1>2 DEF Files!Finish, Files!Fail
<1>3. CASE (\E c \in Certs : Files!Refuse(c)) \/ Files!Crash
  BY <1>3 DEF Files!Refuse, Files!Crash
<1>4. CASE Files!Forget \/ UNCHANGED Files!vars
  BY <1>4 DEF Files!Forget, Files!vars
<1> QED BY <1>1, <1>2, <1>3, <1>4 DEF Files!Next

(* Over all logs, workers, processes and faults, no two workers write the file
   of one certificate before its expiration hour begins, and this follows from
   the promise of SerialStore alone. *)
THEOREM OneWriterEachHolds ==
  /\ Files!Spec => []Files!OneWriterEach
  /\ IngestSpec => []Files!OneWriterEach
<1>1. Files!Init => InHandInv
  BY DEF Files!Init, InHandInv, Files!OneWriterEach
<1>2. InHandInv => Files!OneWriterEach
  BY DEF InHandInv
<1>3. Files!Spec => []Files!OneWriterEach
  BY <1>1, <1>2, InHandInvStep, PTL DEF Files!Spec
<1> QED BY <1>3, ImplementsParts, PTL
=============================================================================

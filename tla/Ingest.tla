------------------------------- MODULE Ingest -------------------------------
(***************************************************************************)
(* ct-fetch from the logs to the disk: the downloaders, channel, workers   *)
(* and log positions of LogSync together with the store of SerialStore,    *)
(* which CertStore implements.  Where LogSync has one step for a call of   *)
(* Store, here the answer of Redis, the writing of the file and the return *)
(* to the worker are steps of their own, and other goroutines, an error or *)
(* the end of the process come between them.  Two entries, of one log or   *)
(* of two, may hold the same certificate.                                  *)
(***************************************************************************)
EXTENDS LogSync

CONSTANTS
  Certs,     \* the certificates of entries that reach Store
  CertOf,    \* CertOf[e]: the certificate of entry e
  NoCert,    \* not a certificate
  HoursPass  \* an expiration hour may begin

ASSUME IngestAssumption ==
  /\ NoCert \notin Certs /\ HoursPass \in BOOLEAN
  /\ CertOf \in [(Logs \X (0..MaxTree)) \ Droppable -> Certs]

VARIABLES
  serials,   \* Redis: certificates that are known
  pem,       \* disk: certificates whose PEM file is complete
  writing,   \* writing[w]: the certificate worker w was told is unknown
  answered,  \* workers whose WasUnknown has returned
  excused,   \* history: certificates a call of Store for which met a fault
  past       \* certificates whose expiration hour has begun

store == <<serials, pem, writing, answered, excused, past>>
allVars == <<vars, store>>

Files == INSTANCE SerialStore WITH
  Writers <- Workers, Items <- Certs, Nothing <- NoCert,
  known <- serials, stored <- pem, inHand <- writing, spoiled <- excused, over <- past

InitStore == Files!Init /\ answered = {}
-----------------------------------------------------------------------------
InStore(w) == Running /\ holding[w] # {} /\ ~Discarded(w)
CertIn(w)  == CertOf[CHOOSE e \in holding[w] : TRUE]

(* Plausible slips in single definitions below, used by nothing else. *)
MutReturnsEarly(w) == w \in answered
MutSwallowsError(w) ==
  /\ InStore(w) /\ w \in answered
  /\ Files!Finish(w) \/ (writing' = [writing EXCEPT ![w] = NoCert] /\ UNCHANGED <<serials, pem, excused, past>>)
  /\ UNCHANGED <<vars, answered>>
-----------------------------------------------------------------------------
(* WasUnknown: the certificate is new to Redis, or it is known, or the reply
   that said it was new is lost and the client's retry is told otherwise. *)
WasUnknownTrue(w) ==
  /\ InStore(w) /\ w \notin answered
  /\ Files!Insert(w, CertIn(w))
  /\ answered' = answered \cup {w}
  /\ UNCHANGED vars

WasUnknownFalse(w) ==
  /\ InStore(w) /\ w \notin answered
  /\ CertIn(w) \in serials
  /\ answered' = answered \cup {w}
  /\ UNCHANGED <<vars, serials, pem, writing, excused, past>>

ReplyLost(w) ==
  /\ InStore(w) /\ w \notin answered /\ RedisFails
  /\ CertIn(w) \notin serials
  /\ Files!Refuse(CertIn(w)) /\ CertIn(w) \in serials'
  /\ answered' = answered \cup {w}
  /\ UNCHANGED vars

WritePEM(w) ==
  /\ InStore(w) /\ w \in answered
  /\ Files!Finish(w)
  /\ UNCHANGED <<vars, answered>>

(* Store returns nil only once there is nothing left to write. *)
MayReturn(w) == w \in answered /\ writing[w] = NoCert

StoreReturnsNil(w) ==
  /\ MayReturn(w)
  /\ StoreOk(w)
  /\ answered' = answered \ {w}
  /\ UNCHANGED <<serials, pem, writing, excused, past>>

(* The certificate may have become known to Redis, or its file cut short. *)
StoreReturnsError(w) ==
  /\ StoreFails(w)
  /\ IF writing[w] = NoCert THEN Files!Refuse(CertIn(w)) ELSE Files!Fail(w)
  /\ w \in answered => serials' = serials
  /\ answered' = answered \ {w}

HourBegins ==
  /\ HoursPass
  /\ \E c \in Certs \ past : past' = past \cup {c} /\ serials' = serials \ {c}
  /\ UNCHANGED <<vars, pem, writing, answered, excused>>

(* The process ends, and with it every call of Store. *)
ProcessEnds ==
  /\ MainExit \/ Crash
  /\ \E torn \in SUBSET Files!InHand : pem' = pem \ torn
  /\ excused' = excused \cup {CertIn(w) : w \in {v \in Workers : holding[v] # {} /\ ~Discarded(v)}}
  /\ writing' = [w \in Workers |-> NoCert]
  /\ answered' = {}
  /\ UNCHANGED <<serials, past>>
-----------------------------------------------------------------------------
StoreStep(w) ==
  \/ WasUnknownTrue(w) \/ WasUnknownFalse(w) \/ ReplyLost(w) \/ WritePEM(w)
  \/ StoreReturnsNil(w) \/ StoreReturnsError(w)

(* The steps of LogSync that do not touch the store. *)
Elsewhere ==
  /\ \/ \E l \in Logs : GrowTree(l) \/ Downloader(l)
     \/ \E w \in Workers : Register(w) \/ TakeEntry(w) \/ Drop(w) \/ WorkerDone(w)
     \/ MainStop \/ StopReturns \/ ThreadsWaited
     \/ Signal \/ Restart \/ Terminated
  /\ UNCHANGED store

IngestInit == Init /\ InitStore

IngestNext == Elsewhere \/ (\E w \in Workers : StoreStep(w)) \/ ProcessEnds \/ HourBegins

IngestSpec == IngestInit /\ [][IngestNext]_allVars
-----------------------------------------------------------------------------
(* A certificate that Redis answers "known" for is on disk, in the hands of a
   running worker, or a call of Store for it met a fault. *)
KnownKept == Files!KnownKept

Kept == pem \cup excused \cup Files!InHand

(* An entry counts as dealt with only when its certificate is on disk, being
   written by some worker, not necessarily this entry's, or excused. *)
HandledIsKept == \A e \in handled \ Droppable : CertOf[e] \in Kept

(* No stored position lies beyond an entry whose certificate is neither kept
   nor still in the pipeline, unless the entry was lost with a process. *)
SavedIsKept ==
  \A l \in Logs : \A i \in Offset..(MaxTree - 1) :
    i < cachePos[l] \/ i < diskPos[l] =>
      LET e == <<l, i>>
      IN  e \in Erroneous \cup Droppable \cup Pipeline \cup lost \/ CertOf[e] \in Kept
=============================================================================

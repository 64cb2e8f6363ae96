----------------------------- MODULE CertStore -----------------------------
(***************************************************************************)
(* FilesystemDatabase.Store, run by the insertCTWorker threads of one      *)
(* process against Redis and the disk: KnownCertificates.WasUnknown        *)
(* (the serials set and its expiry), IssuerMetadata.Accumulate (the CRLs   *)
(* and issuer names), and the backend writes.  Every call to Redis and     *)
(* every critical section is a step of its own, since other threads run    *)
(* between them.  A certificate is a model value with an expiration hour,  *)
(* an issuer and the CRL distribution points it names; Dn stands for its   *)
(* issuer's distinguished name.                                            *)
(***************************************************************************)
EXTENDS ExpDate, Sequences, FiniteSets

CONSTANTS
  Threads,     \* the insertCTWorker goroutines
  Certs,       \* distinct serials
  NotAfter,    \* NotAfter[c]: when the validity of c ends
  IssuerOf,    \* the issuer of a certificate
  CrlsOf,      \* CRLDistributionPoints (http or https), a sequence
  Dn,          \* the issuer's distinguished name, as a metadata item
  NoCert,      \* not a certificate: an idle thread has none
  Zones,       \* how far callers' time zones are ahead of UTC
  MaxCalls,    \* bound: calls of Store
  MayEvict,    \* the 8192-entry known-certificates cache may evict
  HoursPass,   \* an expiration hour may begin
  RedisFails,  \* a Redis request may fail
  ReplyLost,   \* a Redis reply may be lost and the request retried
  DiskFails,   \* a disk write may fail
  MayCrash     \* the process may be killed

(* An expiration hour goes by its name: Redis keys and directories have it. *)
ExpDateOf == [c \in Certs |-> ID(NewExpDateFromTime(NotAfter[c]))]
DayOf     == [c \in Certs |-> Truncate(NotAfter[c], Day)]

ExpDates == {ExpDateOf[c] : c \in Certs}
Days     == {DayOf[c] : c \in Certs}
Issuers  == {IssuerOf[c] : c \in Certs}
Keys     == ExpDates \X Issuers
Key(c)   == <<ExpDateOf[c], IssuerOf[c]>>
Crls     == UNION {{CrlsOf[c][k] : k \in 1..Len(CrlsOf[c])} : c \in Certs}
Items    == Crls \cup {Dn}

ASSUME StoreAssumption ==
  /\ MaxCalls \in Nat /\ Zones \subseteq Int
  /\ {MayEvict, HoursPass, RedisFails, ReplyLost, DiskFails, MayCrash} \subseteq BOOLEAN
  /\ NotAfter \in [Certs -> Nat]
  /\ DOMAIN IssuerOf = Certs /\ DOMAIN CrlsOf = Certs
  /\ \A c \in Certs : CrlsOf[c] \in Seq(Crls)
  /\ Dn \notin Crls /\ NoCert \notin Certs

ASSUME ThreadsAssumption == IsFiniteSet(Threads)

VARIABLES
  serials,   \* Redis: members of the sets serials::<date>::<issuer>
  hasTTL,    \* Redis: those of the keys that have an expiry
  metadata,  \* Redis: <<issuer, item>> in crl::<issuer> and issuer::<issuer>
  past,      \* expiration hours that have begun
  dirs,      \* disk: directories of expiration hours
  pem,       \* disk: certificates whose PEM file is complete
  dirty,     \* disk: days with a dirty marker, outside the root directory
  kcCache,   \* db.knownCertsCache: key -> KnownCertificates object, 0 if none
  expirySet, \* the KnownCertificates objects whose expirySet is true
  meta,      \* db.meta: issuer -> IssuerMetadata object, 0 if none
  seenDates, \* seenDates[o]: knownExpDates of IssuerMetadata object o
  seenItems, \* seenItems[o]: knownCrlDPs and knownIssuerDNs of object o
  objects,   \* how many objects the process has allocated
  pc, cert, kc, im,    \* where thread t is; its aCert, knownCerts, metadata object
  unknown,             \* certWasUnknown
  dateBefore, dnBefore,\* seenExpDateBefore, seenIssuerDn
  todo,                \* distribution points the loop has still to look at
  reported,  \* history: certificates WasUnknown has answered true for
  twice,     \* history: those it has answered true for again
  excused,   \* history: certificates whose Store met a fault
  late,      \* history: certificates inserted after their hour had begun
  calls      \* history: calls of Store so far

redis   == <<serials, hasTTL, metadata, past>>
disk    == <<dirs, pem, dirty>>
memory  == <<kcCache, expirySet, meta, seenDates, seenItems, objects>>
locals  == <<cert, kc, im, unknown, dateBefore, dnBefore, todo>>
history == <<reported, twice, excused, late, calls>>
vars == <<redis, disk, memory, pc, locals, history>>

MaxObjects == 2 * MaxCalls
Object == 1..MaxObjects

Pcs == {"idle", "lookup", "newkc", "insert", "checkttl", "expireat", "meta", "newmeta",
        "seen", "lockdate", "markdate", "rlock", "crls", "lockcrl", "markcrl", "relock", "addcrl",
        "lockdn", "dn", "adddn", "alloc", "pem", "dirty"}

(* The values each variable takes; a process allocates at most two objects for
   each call of Store. *)
TypeOK ==
  /\ serials \subseteq Certs /\ hasTTL \subseteq Keys /\ past \subseteq ExpDates
  /\ metadata \subseteq Issuers \X Items
  /\ dirs \subseteq ExpDates /\ pem \subseteq Certs /\ dirty \subseteq Days
  /\ kcCache \in [Keys -> 0..MaxObjects] /\ expirySet \subseteq Object
  /\ meta \in [Issuers -> 0..MaxObjects] /\ objects \in 0..MaxObjects
  /\ seenDates \in [Object -> SUBSET ExpDates] /\ seenItems \in [Object -> SUBSET Items]
  /\ pc \in [Threads -> Pcs] /\ cert \in [Threads -> Certs \cup {NoCert}]
  /\ kc \in [Threads -> 0..MaxObjects] /\ im \in [Threads -> 0..MaxObjects]
  /\ unknown \in [Threads -> BOOLEAN]
  /\ dateBefore \in [Threads -> BOOLEAN] /\ dnBefore \in [Threads -> BOOLEAN]
  /\ todo \in [Threads -> Seq(Crls)]
  /\ reported \subseteq Certs /\ twice \subseteq Certs /\ excused \subseteq Certs
  /\ late \subseteq Certs /\ calls \in 0..MaxCalls

(* im.mutex, a sync.RWMutex.  The CRL loop holds it for reading, even across the
   Redis call, and gives it up only to mark a distribution point.  Lock first
   announces the writer, one at a time, which keeps new readers out, and then
   waits for the readers that are inside. *)
(* A slip of HoldsRLock: the read lock is kept while the write lock is awaited. *)
MutKeepsRLock(t) == pc[t] \in {"crls", "lockcrl", "markcrl", "addcrl"}

HoldsRLock(t) == pc[t] \in {"crls", "addcrl"}
Announced(t)  == pc[t] \in {"markdate", "markcrl", "dn"}

NoWriter(t) == \A u \in Threads : ~(Announced(u) /\ im[u] = im[t])
CanLock(t)  == \A u \in Threads : ~(HoldsRLock(u) /\ im[u] = im[t])

Init ==
  /\ serials = {} /\ hasTTL = {} /\ metadata = {} /\ past = {}
  /\ dirs = {} /\ pem = {} /\ dirty = {}
  /\ kcCache = [k \in Keys |-> 0] /\ expirySet = {}
  /\ meta = [i \in Issuers |-> 0] /\ objects = 0
  /\ seenDates = [o \in Object |-> {}] /\ seenItems = [o \in Object |-> {}]
  /\ pc = [t \in Threads |-> "idle"]
  /\ cert = [t \in Threads |-> NoCert]
  /\ kc = [t \in Threads |-> 0] /\ im = [t \in Threads |-> 0]
  /\ unknown = [t \in Threads |-> FALSE]
  /\ dateBefore = [t \in Threads |-> FALSE] /\ dnBefore = [t \in Threads |-> FALSE]
  /\ todo = [t \in Threads |-> <<>>]
  /\ reported = {} /\ twice = {} /\ excused = {} /\ late = {} /\ calls = 0
-----------------------------------------------------------------------------
(* Plausible slips in single definitions below, used by nothing else. *)
MutNewOnDisk(c) == c \notin pem
MutFlagFromStart(o) == {o}
MutTwoObjects == objects + 2
MutNeverDn(t) == IF dateBefore[t] THEN "pem" ELSE "alloc"
MutAlwaysDirty(t) == "dirty"
-----------------------------------------------------------------------------
(* NewKnownCertificates and NewIssuerMetadata allocate a fresh object. *)
NextObject == objects + 1

(* Store returns: its locals die. *)
Return(t) ==
  /\ pc' = [pc EXCEPT ![t] = "idle"]
  /\ cert' = [cert EXCEPT ![t] = NoCert]
  /\ kc' = [kc EXCEPT ![t] = 0]
  /\ im' = [im EXCEPT ![t] = 0]
  /\ unknown' = [unknown EXCEPT ![t] = FALSE]
  /\ dateBefore' = [dateBefore EXCEPT ![t] = FALSE]
  /\ dnBefore' = [dnBefore EXCEPT ![t] = FALSE]
  /\ todo' = [todo EXCEPT ![t] = <<>>]

ReturnError(t) ==
  /\ Return(t)
  /\ excused' = excused \cup {cert[t]}
  /\ UNCHANGED <<reported, twice, late, calls>>

Store(t, c) ==
  /\ pc[t] = "idle" /\ calls < MaxCalls
  /\ calls' = calls + 1
  /\ cert' = [cert EXCEPT ![t] = c]
  /\ pc' = [pc EXCEPT ![t] = "lookup"]
  /\ UNCHANGED <<redis, disk, memory, kc, im, unknown, dateBefore, dnBefore, todo,
                 reported, twice, excused, late>>
-----------------------------------------------------------------------------
(* GetKnownCertificates: a miss and the Set that follows are two steps, so two
   threads may each install an object of their own. *)
GetKnownCertificates(t) ==
  LET o == kcCache[Key(cert[t])]
  IN  /\ pc[t] = "lookup"
      /\ kc' = [kc EXCEPT ![t] = o]
      /\ pc' = [pc EXCEPT ![t] = IF o = 0 THEN "newkc" ELSE "insert"]
      /\ UNCHANGED <<redis, disk, memory, cert, im, unknown, dateBefore, dnBefore, todo, history>>

(* expirySet of a new KnownCertificates is false. *)
FlagOfNew(o) == {}

NewKnownCertificates(t) ==
  LET o == NextObject
  IN  /\ pc[t] = "newkc"
      /\ objects' = o
      /\ kcCache' = [kcCache EXCEPT ![Key(cert[t])] = o]
      /\ expirySet' = expirySet \cup FlagOfNew(o)
      /\ kc' = [kc EXCEPT ![t] = o]
      /\ pc' = [pc EXCEPT ![t] = "insert"]
      /\ UNCHANGED <<redis, disk, meta, seenDates, seenItems, cert, im, unknown,
                     dateBefore, dnBefore, todo, history>>

Evict(k) ==
  /\ MayEvict /\ kcCache[k] # 0
  /\ kcCache' = [kcCache EXCEPT ![k] = 0]
  /\ UNCHANGED <<redis, disk, expirySet, meta, seenDates, seenItems, objects, pc, locals, history>>
-----------------------------------------------------------------------------
(* WasUnknown.  SADD answers 1 exactly when the serial was not a member. *)
IsNew(c) == c \notin serials

NowLate(c) == late \cup {d \in {c} : ExpDateOf[d] \in past}

SetInsert(t) ==
  LET c == cert[t]
  IN  /\ pc[t] = "insert"
      /\ serials' = serials \cup {c}
      /\ unknown' = [unknown EXCEPT ![t] = IsNew(c)]
      /\ reported' = IF IsNew(c) THEN reported \cup {c} ELSE reported
      /\ twice' = IF IsNew(c) THEN twice \cup (reported \cap {c}) ELSE twice
      /\ late' = NowLate(c)
      /\ pc' = [pc EXCEPT ![t] = "checkttl"]
      /\ UNCHANGED <<hasTTL, metadata, past, disk, memory, cert, kc, im, dateBefore, dnBefore,
                     todo, excused, calls>>

(* The reply to SADD is lost; the client's retry is answered 0. *)
SetInsertRetried(t) ==
  LET c == cert[t]
  IN  /\ pc[t] = "insert" /\ ReplyLost
      /\ serials' = serials \cup {c}
      /\ excused' = IF IsNew(c) THEN excused \cup {c} ELSE excused
      /\ late' = NowLate(c)
      /\ pc' = [pc EXCEPT ![t] = "checkttl"]
      /\ UNCHANGED <<hasTTL, metadata, past, disk, memory, locals, reported, twice, calls>>

(* Every attempt fails; Redis may have carried one of them out. *)
SetInsertFails(t) ==
  /\ pc[t] = "insert" /\ RedisFails
  /\ serials' \in {serials, serials \cup {cert[t]}}
  /\ ReturnError(t)
  /\ UNCHANGED <<hasTTL, metadata, past, disk, memory>>

AfterWasUnknown(t) == IF unknown[t] THEN "meta" ELSE "dirty"

CheckExpirySet(t) ==
  /\ pc[t] = "checkttl"
  /\ pc' = [pc EXCEPT ![t] = IF kc[t] \in expirySet THEN AfterWasUnknown(t) ELSE "expireat"]
  /\ UNCHANGED <<redis, disk, memory, locals, history>>

Members(k) == {c \in serials : Key(c) = k}

(* EXPIREAT does nothing to a missing key and deletes one whose time has come;
   expirySet becomes true whatever Redis answers. *)
ExpireAt(t) ==
  LET k == Key(cert[t])
  IN  /\ pc[t] = "expireat"
      /\ \/ /\ Members(k) # {} /\ k[1] \notin past
            /\ hasTTL' = hasTTL \cup {k} /\ UNCHANGED serials
         \/ /\ Members(k) # {} /\ k[1] \in past
            /\ serials' = serials \ Members(k) /\ hasTTL' = hasTTL \ {k}
         \/ (Members(k) = {} \/ RedisFails) /\ UNCHANGED <<serials, hasTTL>>
      /\ expirySet' = expirySet \cup {kc[t]}
      /\ pc' = [pc EXCEPT ![t] = AfterWasUnknown(t)]
      /\ UNCHANGED <<metadata, past, disk, kcCache, meta, seenDates, seenItems, objects,
                     locals, history>>

(* The clock reaches hour d: Redis drops the keys that expire then. *)
HourBegins(d) ==
  LET gone == {k \in hasTTL : k[1] = d}
  IN  /\ HoursPass /\ d \notin past
      /\ past' = past \cup {d}
      /\ serials' = {c \in serials : Key(c) \notin gone}
      /\ hasTTL' = hasTTL \ gone
      /\ UNCHANGED <<metadata, disk, memory, pc, locals, history>>
-----------------------------------------------------------------------------
(* GetIssuerMetadata: the read lock is given up before the write lock is
   taken, and the map is not looked at again. *)
GetIssuerMetadata(t) ==
  LET o == meta[IssuerOf[cert[t]]]
  IN  /\ pc[t] = "meta"
      /\ im' = [im EXCEPT ![t] = o]
      /\ pc' = [pc EXCEPT ![t] = IF o = 0 THEN "newmeta" ELSE "seen"]
      /\ UNCHANGED <<redis, disk, memory, cert, kc, unknown, dateBefore, dnBefore, todo, history>>

NewIssuerMetadata(t) ==
  LET o == NextObject
  IN  /\ pc[t] = "newmeta"
      /\ objects' = o
      /\ meta' = [meta EXCEPT ![IssuerOf[cert[t]]] = o]
      /\ im' = [im EXCEPT ![t] = o]
      /\ pc' = [pc EXCEPT ![t] = "seen"]
      /\ UNCHANGED <<redis, disk, kcCache, expirySet, seenDates, seenItems, cert, kc, unknown,
                     dateBefore, dnBefore, todo, history>>
-----------------------------------------------------------------------------
(* The lock calls of Accumulate that may have to wait: Lock announces itself,
   RLock waits for an announced writer to come and go. *)
AfterLock(p) == IF p = "lockdate" THEN "markdate" ELSE IF p = "lockcrl" THEN "markcrl" ELSE "dn"
AfterRLock(p) == IF p = "rlock" THEN "crls" ELSE "addcrl"

Lock(t) ==
  /\ pc[t] \in {"lockdate", "lockcrl", "lockdn"} /\ NoWriter(t)
  /\ pc' = [pc EXCEPT ![t] = AfterLock(pc[t])]
  /\ UNCHANGED <<redis, disk, memory, locals, history>>

RLock(t) ==
  /\ pc[t] \in {"rlock", "relock"} /\ NoWriter(t)
  /\ pc' = [pc EXCEPT ![t] = AfterRLock(pc[t])]
  /\ UNCHANGED <<redis, disk, memory, locals, history>>

(* Accumulate: read what is known, mark the date, then the CRL loop. *)
ReadSeen(t) ==
  LET c == cert[t]
  IN  /\ pc[t] = "seen" /\ NoWriter(t)
      /\ dateBefore' = [dateBefore EXCEPT ![t] = ExpDateOf[c] \in seenDates[im[t]]]
      /\ dnBefore' = [dnBefore EXCEPT ![t] = Dn \in seenItems[im[t]]]
      /\ todo' = [todo EXCEPT ![t] = CrlsOf[c]]
      /\ pc' = [pc EXCEPT ![t] = IF ExpDateOf[c] \in seenDates[im[t]] THEN "rlock" ELSE "lockdate"]
      /\ UNCHANGED <<redis, disk, memory, cert, kc, im, unknown, history>>

MarkDate(t) ==
  /\ pc[t] = "markdate" /\ CanLock(t)
  /\ seenDates' = [seenDates EXCEPT ![im[t]] = @ \cup {ExpDateOf[cert[t]]}]
  /\ pc' = [pc EXCEPT ![t] = "rlock"]
  /\ UNCHANGED <<redis, disk, kcCache, expirySet, meta, seenItems, objects, locals, history>>

RestOfLoop(t) == Tail(todo[t])

KnownCrl(t) ==
  /\ pc[t] = "crls" /\ todo[t] # <<>> /\ Head(todo[t]) \in seenItems[im[t]]
  /\ todo' = [todo EXCEPT ![t] = RestOfLoop(t)]
  /\ UNCHANGED <<redis, disk, memory, pc, cert, kc, im, unknown, dateBefore, dnBefore, history>>

UnknownCrl(t) ==
  /\ pc[t] = "crls" /\ todo[t] # <<>> /\ Head(todo[t]) \notin seenItems[im[t]]
  /\ pc' = [pc EXCEPT ![t] = "lockcrl"]
  /\ UNCHANGED <<redis, disk, memory, locals, history>>

(* A distribution point is marked as known before it is written to Redis. *)
MarkCrl(t) ==
  /\ pc[t] = "markcrl" /\ CanLock(t)
  /\ seenItems' = [seenItems EXCEPT ![im[t]] = @ \cup {Head(todo[t])}]
  /\ pc' = [pc EXCEPT ![t] = "relock"]
  /\ UNCHANGED <<redis, disk, kcCache, expirySet, meta, seenDates, objects, locals, history>>

AddCRL(t) ==
  /\ pc[t] = "addcrl"
  /\ metadata' = metadata \cup {<<IssuerOf[cert[t]], Head(todo[t])>>}
  /\ todo' = [todo EXCEPT ![t] = RestOfLoop(t)]
  /\ pc' = [pc EXCEPT ![t] = "crls"]
  /\ UNCHANGED <<serials, hasTTL, past, disk, memory, cert, kc, im, unknown, dateBefore,
                 dnBefore, history>>

AddCRLFails(t) ==
  /\ pc[t] = "addcrl" /\ RedisFails
  /\ metadata' \in {metadata, metadata \cup {<<IssuerOf[cert[t]], Head(todo[t])>>}}
  /\ ReturnError(t)
  /\ UNCHANGED <<serials, hasTTL, past, disk, memory>>

AfterAccumulate(t) == IF dateBefore[t] THEN "pem" ELSE "alloc"
AfterLoop(t) == IF dnBefore[t] THEN AfterAccumulate(t) ELSE "lockdn"

CrlsDone(t) ==
  /\ pc[t] = "crls" /\ todo[t] = <<>>
  /\ pc' = [pc EXCEPT ![t] = AfterLoop(t)]
  /\ UNCHANGED <<redis, disk, memory, locals, history>>

MarkDn(t) ==
  /\ pc[t] = "dn" /\ CanLock(t)
  /\ seenItems' = [seenItems EXCEPT ![im[t]] = @ \cup {Dn}]
  /\ pc' = [pc EXCEPT ![t] = "adddn"]
  /\ UNCHANGED <<redis, disk, kcCache, expirySet, meta, seenDates, objects, locals, history>>

AddIssuerDN(t) ==
  /\ pc[t] = "adddn"
  /\ metadata' = metadata \cup {<<IssuerOf[cert[t]], Dn>>}
  /\ pc' = [pc EXCEPT ![t] = AfterAccumulate(t)]
  /\ UNCHANGED <<serials, hasTTL, past, disk, memory, locals, history>>

AddIssuerDNFails(t) ==
  /\ pc[t] = "adddn" /\ RedisFails
  /\ metadata' \in {metadata, metadata \cup {<<IssuerOf[cert[t]], Dn>>}}
  /\ ReturnError(t)
  /\ UNCHANGED <<serials, hasTTL, past, disk, memory>>
-----------------------------------------------------------------------------
(* The backend writes. *)
AllocateExpDateAndIssuer(t) ==
  /\ pc[t] = "alloc"
  /\ dirs' = dirs \cup {ExpDateOf[cert[t]]}
  /\ pc' = [pc EXCEPT ![t] = "pem"]
  /\ UNCHANGED <<redis, pem, dirty, memory, locals, history>>

AllocateFails(t) ==
  /\ pc[t] = "alloc" /\ DiskFails
  /\ ReturnError(t)
  /\ UNCHANGED <<redis, disk, memory>>

StoreCertificatePEM(t) ==
  /\ pc[t] = "pem"
  /\ dirs' = dirs \cup {ExpDateOf[cert[t]]}
  /\ pem' = pem \cup {cert[t]}
  /\ pc' = [pc EXCEPT ![t] = "dirty"]
  /\ UNCHANGED <<redis, dirty, memory, locals, history>>

(* The file is opened with O_TRUNC: an earlier copy may be gone. *)
StoreCertificatePEMFails(t) ==
  /\ pc[t] = "pem" /\ DiskFails
  /\ pem' \in {pem, pem \ {cert[t]}}
  /\ dirs' \in {dirs, dirs \cup {ExpDateOf[cert[t]]}}
  /\ ReturnError(t)
  /\ UNCHANGED <<redis, dirty, memory>>

MarkDirty(t) ==
  /\ pc[t] = "dirty"
  /\ dirty' = dirty \cup {DayOf[cert[t]]}
  /\ Return(t)
  /\ UNCHANGED <<redis, dirs, pem, memory, history>>

MarkDirtyFails(t) ==
  /\ pc[t] = "dirty" /\ DiskFails
  /\ dirty' \in {dirty, dirty \cup {DayOf[cert[t]]}}
  /\ ReturnError(t)
  /\ UNCHANGED <<redis, dirs, pem, memory>>

(* The listing of the root directory for the moment aNotBefore: its calendar
   date, in the time zone that comes with it, is taken for a day of UTC. *)
ListExpirationDates(aNotBefore, zone) ==
  {name \in dirs : ~IsExpiredAt(NewExpDate(name), Truncate(aNotBefore + zone, Day))}

(* The process is killed and started again: its memory is gone, the PEM files
   being written may be cut short. *)
Writing == {cert[t] : t \in {u \in Threads : pc[u] = "pem"}}

Crash ==
  /\ MayCrash
  /\ \E t \in Threads : pc[t] # "idle"
  /\ \E torn \in SUBSET Writing : pem' = pem \ torn
  /\ kcCache' = [k \in Keys |-> 0] /\ expirySet' = {}
  /\ meta' = [i \in Issuers |-> 0] /\ objects' = 0
  /\ seenDates' = [o \in Object |-> {}] /\ seenItems' = [o \in Object |-> {}]
  /\ pc' = [t \in Threads |-> "idle"]
  /\ cert' = [t \in Threads |-> NoCert]
  /\ kc' = [t \in Threads |-> 0] /\ im' = [t \in Threads |-> 0]
  /\ unknown' = [t \in Threads |-> FALSE]
  /\ dateBefore' = [t \in Threads |-> FALSE] /\ dnBefore' = [t \in Threads |-> FALSE]
  /\ todo' = [t \in Threads |-> <<>>]
  /\ excused' = excused \cup {cert[t] : t \in {u \in Threads : pc[u] # "idle"}}
  /\ UNCHANGED <<redis, dirs, dirty, reported, twice, late, calls>>

(* No call is left to make: that the calls under way return is StoreReturns. *)
Finished == calls = MaxCalls /\ UNCHANGED vars
-----------------------------------------------------------------------------
Lookup(t)     == GetKnownCertificates(t) \/ NewKnownCertificates(t)
WasUnknown(t) == \/ SetInsert(t) \/ SetInsertRetried(t) \/ SetInsertFails(t)
                 \/ CheckExpirySet(t) \/ ExpireAt(t)
Accumulate(t) == \/ GetIssuerMetadata(t) \/ NewIssuerMetadata(t)
                 \/ Lock(t) \/ RLock(t) \/ ReadSeen(t) \/ MarkDate(t)
                 \/ KnownCrl(t) \/ UnknownCrl(t) \/ MarkCrl(t) \/ AddCRL(t) \/ AddCRLFails(t)
                 \/ CrlsDone(t) \/ MarkDn(t) \/ AddIssuerDN(t) \/ AddIssuerDNFails(t)
Write(t)      == \/ AllocateExpDateAndIssuer(t) \/ AllocateFails(t)
                 \/ StoreCertificatePEM(t) \/ StoreCertificatePEMFails(t)
                 \/ MarkDirty(t) \/ MarkDirtyFails(t)
Step(t) == Lookup(t) \/ WasUnknown(t) \/ Accumulate(t) \/ Write(t)

Next ==
  \/ \E t \in Threads : Step(t) \/ \E c \in Certs : Store(t, c)
  \/ \E k \in Keys : Evict(k)
  \/ \E d \in ExpDates : HourBegins(d)
  \/ Crash \/ Finished

Spec == Init /\ [][Next]_vars

(* A goroutine that can run does run. *)
FairSpec == Spec /\ \A t \in Threads : WF_vars(Step(t))
-----------------------------------------------------------------------------
(* "Subsequent calls with the same serial will return false, as it will be
   known then" (WasUnknown, knowncertificates.go:36). *)
ReportedOnce == twice = {}

(* What the code does keep of it: WasUnknown answers true again, to any thread
   and after any crash, only for a certificate whose expiration hour has begun. *)
ReportedUntilExpiry == \A c \in twice : ExpDateOf[c] \in past

(* No two threads are past WasUnknown with the same certificate to write, until
   its expiration hour begins: one PEM file never has two writers. *)
OneWriter ==
  \A t, u \in Threads :
    t # u /\ unknown[t] /\ unknown[u] /\ cert[t] = cert[u] => ExpDateOf[cert[t]] \in past

(* A serial in Redis, which later calls take as "already stored", has its PEM
   on disk, or a thread on its way to write it, or its Store met a fault. *)
KnownIsStored ==
  \A c \in serials : \/ c \in pem \cup excused
                     \/ \E t \in Threads : cert[t] = c /\ unknown[t]

(* Once a PEM is on disk, its CRLs and its issuer's name are in Redis, or a
   thread that has marked the item as known is about to put it there, or a
   Store for the same issuer and item met a fault. *)
ItemsOf(c) == {CrlsOf[c][k] : k \in 1..Len(CrlsOf[c])} \cup {Dn}

AboutToAdd(i, item) ==
  \E t \in Threads :
    /\ cert[t] \in Certs /\ IssuerOf[cert[t]] = i
    /\ \/ pc[t] \in {"relock", "addcrl"} /\ item = Head(todo[t])
       \/ pc[t] = "adddn" /\ item = Dn

MetaRecorded ==
  \A c \in pem : \A item \in ItemsOf(c) :
    \/ <<IssuerOf[c], item>> \in metadata
    \/ AboutToAdd(IssuerOf[c], item)
    \/ \E d \in excused : IssuerOf[d] = IssuerOf[c] /\ item \in ItemsOf(d)

(* Whatever writes failed, the hour of a certificate on disk is listed for
   every moment at which the certificate is valid, though the name of the hour
   tells its last moment only by parsing, if the caller's time zone is not ahead
   of UTC; to one that is ahead by zone it is listed until zone before the end.
   And no hour is listed that was over a day before the caller's clock. *)
DiskListing ==
  \A zone \in Zones :
    /\ \A c \in pem : \A t \in 0..NotAfter[c] :
         t + zone <= NotAfter[c] => ExpDateOf[c] \in ListExpirationDates(t, zone)
    /\ \A c \in Certs : \A t \in 0..(NotAfter[c] + Day) :
         \A d \in ListExpirationDates(t, zone) : d.at + Hour > t + zone - Day

(* While Redis answers, a serials key has an expiry, or a thread is about to set
   it, unless the thread that was to set it was killed, or a certificate was
   inserted there after its hour had begun: then an object whose expirySet is
   true recreates the key that Redis has dropped, and nothing removes it again.
   No key that is filled before its hour begins stays for ever. *)
KeyExpires ==
  \A c \in serials :
    \/ Key(c) \in hasTTL
    \/ \E t \in Threads : /\ cert[t] \in Certs /\ Key(cert[t]) = Key(c)
                          /\ pc[t] \in {"checkttl", "expireat"} /\ kc[t] \notin expirySet
    \/ \E d \in excused \cup late : Key(d) = Key(c)

(* Locks, caches, expiry and metadata together implement SerialStore: at any
   point a thread that was answered "unknown" and has not reached its last
   write has its certificate in hand. *)
InHandOf(t) == IF unknown[t] /\ pc[t] # "dirty" THEN cert[t] ELSE NoCert

Simple == INSTANCE SerialStore WITH
  Writers <- Threads, Items <- Certs, Nothing <- NoCert,
  known <- serials, stored <- pem, inHand <- [t \in Threads |-> InHandOf(t)],
  spoiled <- excused, over <- {c \in Certs : ExpDateOf[c] \in past}

ImplementsStore == Simple!Spec

(* Every call of Store returns: though a reader of the CRL loop becomes a writer
   and a reader again, and a waiting writer keeps all new readers out, no thread
   of those that share an IssuerMetadata is blocked for ever. *)
StoreReturns == \A t \in Threads : (pc[t] # "idle") ~> (pc[t] = "idle")
=============================================================================

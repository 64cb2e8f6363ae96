-------------------------- MODULE CertStoreProofs --------------------------
(***************************************************************************)
(* Proofs about CertStore, for every set of threads, certificates, issuers *)
(* and hours, and every number of calls.                                   *)
(***************************************************************************)
EXTENDS CertStore, TLAPS

(* The types of the variables the arguments are about. *)
Shape ==
  /\ pc \in [Threads -> Pcs]
  /\ cert \in [Threads -> Certs \cup {NoCert}]
  /\ unknown \in [Threads -> BOOLEAN]

(* certWasUnknown is false until SADD has answered, and a thread that carries
   it comes to the last write with the PEM on disk or a fault on record. *)
Carried ==
  /\ \A t \in Threads : pc[t] \in {"idle", "lookup", "newkc", "insert"} => ~unknown[t]
  /\ \A t \in Threads : pc[t] = "dirty" /\ unknown[t] => cert[t] \in pem \cup excused

StoredInv == Shape /\ Carried /\ KnownIsStored

(* A step inside a call that changes nothing but pc, of what the argument is
   about, and neither enters nor leaves one of the places Carried speaks of. *)
Early == {"idle", "lookup", "newkc", "insert"}
Late  == Pcs \ (Early \cup {"dirty"})
Filing == Late \ {"checkttl", "expireat"}

Quiet(t) ==
  /\ UNCHANGED <<serials, pem, cert, unknown, excused, reported, twice, past>>
  /\ \E p \in Pcs : /\ pc' = [pc EXCEPT ![t] = p]
                    /\ \/ pc[t] \in {"lookup", "newkc"} /\ p \in Early \ {"idle"}
                       \/ pc[t] \in Filing /\ p \in Filing

LEMMA QuietSteps ==
  ASSUME NEW t \in Threads,
         \/ Lookup(t)
         \/ GetIssuerMetadata(t) \/ NewIssuerMetadata(t)
         \/ Lock(t) \/ RLock(t) \/ ReadSeen(t) \/ MarkDate(t)
         \/ UnknownCrl(t) \/ MarkCrl(t) \/ AddCRL(t)
         \/ CrlsDone(t) \/ MarkDn(t) \/ AddIssuerDN(t) \/ AllocateExpDateAndIssuer(t)
  PROVE  Quiet(t)
<1> USE DEF redis, disk, memory, locals, history, Quiet, Pcs, Early, Late, Filing
<1>1. CASE Lookup(t)
  BY <1>1 DEF Lookup, GetKnownCertificates, NewKnownCertificates
<1>2. CASE GetIssuerMetadata(t) \/ NewIssuerMetadata(t) \/ ReadSeen(t) \/ MarkDate(t)
  BY <1>2 DEF GetIssuerMetadata, NewIssuerMetadata, ReadSeen, MarkDate
<1>3. CASE UnknownCrl(t) \/ MarkCrl(t) \/ AddCRL(t) \/ MarkDn(t)
  BY <1>3 DEF UnknownCrl, MarkCrl, AddCRL, MarkDn
<1>4. CASE CrlsDone(t) \/ AddIssuerDN(t) \/ AllocateExpDateAndIssuer(t)
  BY <1>4 DEF CrlsDone, AddIssuerDN, AllocateExpDateAndIssuer, AfterLoop, AfterAccumulate
<1>5. CASE Lock(t) \/ RLock(t)
  BY <1>5 DEF Lock, RLock, AfterLock, AfterRLock
<1> QED BY <1>1, <1>2, <1>3, <1>4, <1>5

LEMMA StoredInvStep == StoredInv /\ [Next]_vars => StoredInv'
<1> SUFFICES ASSUME StoredInv, [Next]_vars PROVE StoredInv'
  OBVIOUS
<1> USE DEF redis, disk, memory, locals, history, StoredInv
<1>1. ASSUME NEW t \in Threads, Quiet(t) PROVE StoredInv'
  BY <1>1 DEF Quiet, Early, Late, Filing, Pcs, Shape, Carried, KnownIsStored
<1>2. ASSUME NEW t \in Threads, KnownCrl(t) PROVE StoredInv'
  BY <1>2 DEF KnownCrl, Shape, Carried, KnownIsStored
<1>3. ASSUME NEW t \in Threads, SetInsert(t) PROVE StoredInv'
  <2>1. Shape' /\ Carried'
    BY <1>3 DEF SetInsert, IsNew, Shape, Carried, Pcs
  <2>2. /\ \A u \in Threads : unknown[u] => unknown'[u]
        /\ cert[t] \notin serials => unknown'[t]
    BY <1>3 DEF SetInsert, IsNew, Shape, Carried
  <2>3. KnownIsStored'
    BY <1>3, <2>2 DEF SetInsert, KnownIsStored
  <2> QED BY <2>1, <2>3
<1>4. ASSUME NEW t \in Threads, SetInsertRetried(t) PROVE StoredInv'
  BY <1>4 DEF SetInsertRetried, IsNew, Shape, Carried, KnownIsStored, Pcs
<1>5. ASSUME NEW t \in Threads, CheckExpirySet(t) PROVE StoredInv'
  BY <1>5 DEF CheckExpirySet, AfterWasUnknown, Shape, Carried, KnownIsStored, Pcs
<1>6. ASSUME NEW t \in Threads, ExpireAt(t) PROVE StoredInv'
  BY <1>6 DEF ExpireAt, AfterWasUnknown, Shape, Carried, KnownIsStored, Pcs
<1>7. ASSUME NEW t \in Threads, ReturnError(t), serials' \subseteq serials \cup {cert[t]},
             pem \subseteq pem' \cup {cert[t]}
      PROVE  StoredInv'
  <2>1. Shape' /\ Carried'
    BY <1>7 DEF ReturnError, Return, Shape, Carried, Pcs
  <2>2. KnownIsStored'
    BY <1>7 DEF ReturnError, Return, Shape, KnownIsStored
  <2> QED BY <2>1, <2>2
<1>8. ASSUME NEW t \in Threads,
             \/ SetInsertFails(t) \/ AddCRLFails(t) \/ AddIssuerDNFails(t) \/ AllocateFails(t)
             \/ StoreCertificatePEMFails(t) \/ MarkDirtyFails(t)
      PROVE  StoredInv'
  BY <1>8, <1>7 DEF SetInsertFails, AddCRLFails, AddIssuerDNFails, AllocateFails,
    StoreCertificatePEMFails, MarkDirtyFails
<1>9. ASSUME NEW t \in Threads, StoreCertificatePEM(t) PROVE StoredInv'
  BY <1>9 DEF StoreCertificatePEM, Shape, Carried, KnownIsStored, Pcs
<1>10. ASSUME NEW t \in Threads, MarkDirty(t) PROVE StoredInv'
  <2>1. Shape' /\ Carried'
    BY <1>10 DEF MarkDirty, Return, Shape, Carried, Pcs
  <2>2. KnownIsStored'
    BY <1>10 DEF MarkDirty, Return, Shape, Carried, KnownIsStored
  <2> QED BY <2>1, <2>2
<1>11. ASSUME NEW t \in Threads, NEW c \in Certs, Store(t, c) PROVE StoredInv'
  BY <1>11 DEF Store, Shape, Carried, KnownIsStored, Pcs
<1>12. CASE Crash
  <2>1. Shape' /\ Carried'
    BY <1>12 DEF Crash, Shape, Carried, Pcs
  <2>2. \A t \in Threads : unknown[t] => cert[t] \in excused'
    BY <1>12 DEF Crash, Shape, Carried
  <2>3. pem \subseteq pem' \cup excused'
    BY <1>12 DEF Crash, Writing
  <2>4. KnownIsStored'
    BY <1>12, <2>2, <2>3 DEF Crash, KnownIsStored
  <2> QED BY <2>1, <2>4
<1>13. CASE \E d \in ExpDates : HourBegins(d)
  BY <1>13 DEF HourBegins, Shape, Carried, KnownIsStored
<1>14. CASE Finished \/ UNCHANGED vars \/ \E k \in Keys : Evict(k)
  BY <1>14 DEF Finished, vars, Evict, Shape, Carried, KnownIsStored
<1> QED
  BY <1>1, <1>2, <1>3, <1>4, <1>5, <1>6, <1>8, <1>9, <1>10, <1>11, <1>12, <1>13, <1>14,
     QuietSteps DEF Next, Step, WasUnknown, Accumulate, Write

(* A serial that Redis reports as known has its PEM on disk, a thread on its
   way to write it, or a fault on record; for every number of threads, and
   under every failure, retry, crash and expiry of the model. *)
THEOREM KnownIsStoredHolds == Spec => []KnownIsStored
<1>1. Init => StoredInv
  BY DEF Init, StoredInv, Shape, Carried, KnownIsStored, Pcs
<1>2. StoredInv => KnownIsStored
  BY DEF StoredInv
<1> QED BY <1>1, <1>2, StoredInvStep, PTL DEF Spec
-----------------------------------------------------------------------------
(* Until its expiration hour begins, a serial that was reported unknown stays in
   its set, so at most one thread was ever told so. *)
Expired(c) == ExpDateOf[c] \in past

DedupInv ==
  /\ Shape
  /\ ReportedUntilExpiry
  /\ \A c \in reported : c \in serials \/ Expired(c)
  /\ \A t \in Threads : pc[t] \in Early => ~unknown[t]
  /\ \A t \in Threads : unknown[t] => cert[t] \in serials \/ Expired(cert[t])
  /\ OneWriter

(* A serial leaves its set only when its expiration hour has begun. *)
LEMMA OnlyExpiredLeave ==
  ASSUME \/ \E t \in Threads : ExpireAt(t)
         \/ \E d \in ExpDates : HourBegins(d)
  PROVE  past \subseteq past' /\ \A c \in serials : c \in serials' \/ ExpDateOf[c] \in past'
<1>1. ASSUME NEW t \in Threads, ExpireAt(t)
      PROVE  past' = past /\ \A c \in serials : c \in serials' \/ ExpDateOf[c] \in past'
  <2>1. \A c \in Members(Key(cert[t])) : ExpDateOf[c] = Key(cert[t])[1]
    BY DEF Members, Key
  <2> QED BY <1>1, <2>1 DEF ExpireAt
<1>2. ASSUME NEW d \in ExpDates, HourBegins(d)
      PROVE  past \subseteq past' /\ \A c \in serials : c \in serials' \/ ExpDateOf[c] \in past'
  BY <1>2 DEF HourBegins, Key
<1> QED BY <1>1, <1>2

LEMMA DedupInvStep == DedupInv /\ [Next]_vars => DedupInv'
<1> SUFFICES ASSUME DedupInv, [Next]_vars PROVE DedupInv'
  OBVIOUS
<1> USE DEF redis, disk, memory, locals, history, DedupInv, ReportedUntilExpiry, Expired
<1>1. ASSUME NEW t \in Threads, Quiet(t) PROVE DedupInv'
  BY <1>1 DEF Quiet, Early, Late, Filing, Pcs, Shape, OneWriter
<1>2. ASSUME NEW t \in Threads, KnownCrl(t) \/ CheckExpirySet(t) \/ StoreCertificatePEM(t)
      PROVE DedupInv'
  BY <1>2 DEF KnownCrl, CheckExpirySet, AfterWasUnknown, StoreCertificatePEM, Early, Pcs,
    Shape, OneWriter
<1>3. ASSUME NEW t \in Threads, SetInsert(t) PROVE DedupInv'
  <2>1. cert[t] \notin serials =>
          \A u \in Threads : unknown[u] /\ cert[u] = cert[t] => ExpDateOf[cert[t]] \in past
    OBVIOUS
  <2>2. Shape' /\ \A u \in Threads : pc'[u] \in Early => ~unknown'[u]
    BY <1>3 DEF SetInsert, IsNew, Early, Pcs, Shape
  <2>3. /\ \A c \in reported' : c \in serials' \/ ExpDateOf[c] \in past'
        /\ \A c \in twice' : ExpDateOf[c] \in past'
    BY <1>3 DEF SetInsert, IsNew
  <2>4. \A u \in Threads : unknown'[u] => cert'[u] \in serials' \/ ExpDateOf[cert'[u]] \in past'
    BY <1>3 DEF SetInsert, Shape
  <2>5. OneWriter'
    BY <1>3, <2>1 DEF SetInsert, IsNew, Shape, OneWriter
  <2> QED BY <2>2, <2>3, <2>4, <2>5
<1>4. ASSUME NEW t \in Threads, SetInsertRetried(t) PROVE DedupInv'
  BY <1>4 DEF SetInsertRetried, Early, Pcs, Shape, OneWriter
<1>5. ASSUME NEW t \in Threads, ExpireAt(t) PROVE DedupInv'
  <2>1. Shape' /\ \A u \in Threads : pc'[u] \in Early => ~unknown'[u]
    BY <1>5 DEF ExpireAt, AfterWasUnknown, Early, Pcs, Shape
  <2>2. UNCHANGED <<past, cert, unknown, reported, twice>>
    BY <1>5 DEF ExpireAt
  <2> QED BY <1>5, <2>1, <2>2, OnlyExpiredLeave DEF OneWriter
<1>6. ASSUME NEW t \in Threads, Return(t), serials \subseteq serials',
             UNCHANGED <<past, reported, twice>>
      PROVE  DedupInv'
  BY <1>6 DEF Return, Early, Pcs, Shape, OneWriter
<1>7. ASSUME NEW t \in Threads,
             \/ SetInsertFails(t) \/ AddCRLFails(t) \/ AddIssuerDNFails(t) \/ AllocateFails(t)
             \/ StoreCertificatePEMFails(t) \/ MarkDirtyFails(t) \/ MarkDirty(t)
      PROVE  DedupInv'
  BY <1>7, <1>6 DEF SetInsertFails, AddCRLFails, AddIssuerDNFails, AllocateFails,
    StoreCertificatePEMFails, MarkDirtyFails, MarkDirty, ReturnError
<1>8. ASSUME NEW t \in Threads, NEW c \in Certs, Store(t, c) PROVE DedupInv'
  BY <1>8 DEF Store, Early, Pcs, Shape, OneWriter
<1>9. CASE Crash
  BY <1>9 DEF Crash, Early, Pcs, Shape, OneWriter
<1>10. CASE \E d \in ExpDates : HourBegins(d)
  <2>1. UNCHANGED <<pc, cert, unknown, reported, twice>>
    BY <1>10 DEF HourBegins
  <2> QED BY <1>10, <2>1, OnlyExpiredLeave DEF Shape, OneWriter
<1>11. CASE Finished \/ UNCHANGED vars \/ \E k \in Keys : Evict(k)
  BY <1>11 DEF Finished, vars, Evict, Shape, OneWriter
<1> QED
  BY <1>1, <1>2, <1>3, <1>4, <1>5, <1>7, <1>8, <1>9, <1>10, <1>11, QuietSteps
     DEF Next, Step, WasUnknown, Accumulate, Write

LEMMA DedupInit == Init => DedupInv
  BY DEF Init, DedupInv, ReportedUntilExpiry, Shape, OneWriter, Pcs

(* Until its expiration hour begins, one certificate is never written by two
   threads at once, whatever fails and however often the process is killed. *)
THEOREM OneWriterHolds == Spec => []OneWriter
<1>1. DedupInv => OneWriter
  BY DEF DedupInv
<1> QED BY <1>1, DedupInit, DedupInvStep, PTL DEF Spec

(* WasUnknown answers true at most once for a serial until the serial's
   expiration hour begins, over all threads, retries and restarts: what holds
   of the promise in its comment. *)
THEOREM ReportedUntilExpiryHolds == Spec => []ReportedUntilExpiry
<1>1. DedupInv => ReportedUntilExpiry
  BY DEF DedupInv
<1> QED BY <1>1, DedupInit, DedupInvStep, PTL DEF Spec
-----------------------------------------------------------------------------
(* What the mapping to SerialStore needs: only a thread that was answered
   "unknown" gets as far as the metadata and the files, and it has a
   certificate all the way. *)
WriterInv ==
  /\ Shape
  /\ serials \subseteq Certs /\ excused \subseteq Certs
  /\ \A t \in Threads : pc[t] # "idle" => cert[t] \in Certs
  /\ \A t \in Threads : pc[t] \in Early => ~unknown[t]
  /\ \A t \in Threads : pc[t] \in Filing => unknown[t]

LEMMA WriterInvStep == WriterInv /\ [Next]_vars => WriterInv'
<1> SUFFICES ASSUME WriterInv, [Next]_vars PROVE WriterInv'
  OBVIOUS
<1> USE DEF redis, disk, memory, locals, history, WriterInv, Early, Late, Filing, Pcs
<1>1. ASSUME NEW t \in Threads, Quiet(t) PROVE WriterInv'
  BY <1>1 DEF Quiet, Shape
<1>2. ASSUME NEW t \in Threads, KnownCrl(t) \/ CheckExpirySet(t) \/ StoreCertificatePEM(t)
      PROVE WriterInv'
  BY <1>2 DEF KnownCrl, CheckExpirySet, AfterWasUnknown, StoreCertificatePEM, Shape
<1>3. ASSUME NEW t \in Threads, SetInsert(t) PROVE WriterInv'
  BY <1>3 DEF SetInsert, IsNew, Shape
<1>4. ASSUME NEW t \in Threads, SetInsertRetried(t) PROVE WriterInv'
  BY <1>4 DEF SetInsertRetried, Shape
<1>5. ASSUME NEW t \in Threads, ExpireAt(t) PROVE WriterInv'
  BY <1>5 DEF ExpireAt, AfterWasUnknown, Shape
<1>6. ASSUME NEW t \in Threads, pc[t] # "idle", Return(t), serials' \subseteq serials \cup {cert[t]},
             excused' \subseteq excused \cup {cert[t]}
      PROVE  WriterInv'
  BY <1>6 DEF Return, Shape
<1>7. ASSUME NEW t \in Threads,
             \/ SetInsertFails(t) \/ AddCRLFails(t) \/ AddIssuerDNFails(t) \/ AllocateFails(t)
             \/ StoreCertificatePEMFails(t) \/ MarkDirtyFails(t) \/ MarkDirty(t)
      PROVE  WriterInv'
  BY <1>7, <1>6 DEF SetInsertFails, AddCRLFails, AddIssuerDNFails, AllocateFails,
    StoreCertificatePEMFails, MarkDirtyFails, MarkDirty, ReturnError
<1>8. ASSUME NEW t \in Threads, NEW c \in Certs, Store(t, c) PROVE WriterInv'
  BY <1>8 DEF Store, Shape
<1>9. CASE Crash
  BY <1>9 DEF Crash, Shape
<1>10. CASE \E d \in ExpDates : HourBegins(d)
  BY <1>10 DEF HourBegins, Shape
<1>11. CASE Finished \/ UNCHANGED vars \/ \E k \in Keys : Evict(k)
  BY <1>11 DEF Finished, vars, Evict, Shape
<1> QED
  BY <1>1, <1>2, <1>3, <1>4, <1>5, <1>7, <1>8, <1>9, <1>10, <1>11, QuietSteps
     DEF Next, Step, WasUnknown, Accumulate, Write

inHandBar == [t \in Threads |-> InHandOf(t)]
overBar   == {c \in Certs : ExpDateOf[c] \in past}

(* Every step of the detailed specification is a step of SerialStore, or
   changes nothing that SerialStore speaks of. *)
LEMMA SimpleStep == WriterInv /\ [Next]_vars => [Simple!Next]_(Simple!vars)
<1> SUFFICES ASSUME WriterInv, [Next]_vars PROVE [Simple!Next]_(Simple!vars)
  OBVIOUS
<1> USE DEF redis, disk, memory, locals, history, WriterInv, InHandOf, Early, Late, Filing, Pcs
<1>a. NoCert \notin Certs
  BY StoreAssumption
<1>b. past' = past => overBar' = overBar
  BY DEF overBar
<1>s. ASSUME UNCHANGED <<serials, pem, excused, past>>, inHandBar' = inHandBar
      PROVE  UNCHANGED Simple!vars
  BY <1>s, <1>b DEF Simple!vars, inHandBar, overBar
<1>1. ASSUME NEW t \in Threads, Quiet(t) PROVE UNCHANGED Simple!vars
  <2>1. \A u \in Threads : InHandOf(u)' = InHandOf(u)
    BY <1>1 DEF Quiet, Shape
  <2> QED BY <1>1, <2>1, <1>s DEF Quiet, inHandBar
<1>2. ASSUME NEW t \in Threads, KnownCrl(t) \/ CheckExpirySet(t) PROVE UNCHANGED Simple!vars
  <2>1. \A u \in Threads : InHandOf(u)' = InHandOf(u)
    BY <1>2 DEF KnownCrl, CheckExpirySet, AfterWasUnknown, Shape
  <2> QED BY <1>2, <2>1, <1>s DEF KnownCrl, CheckExpirySet, inHandBar
<1>3. ASSUME NEW t \in Threads, SetInsert(t) PROVE [Simple!Next]_(Simple!vars)
  <2>1. cert[t] \in Certs /\ InHandOf(t) = NoCert
    BY <1>3 DEF SetInsert
  <2>2. CASE cert[t] \in serials
    <3>1. \A u \in Threads : InHandOf(u)' = InHandOf(u)
      BY <1>3, <2>2 DEF SetInsert, IsNew, Shape
    <3> QED BY <1>3, <2>2, <3>1, <1>s DEF SetInsert, inHandBar
  <2>3. CASE cert[t] \notin serials
    <3>1. inHandBar' = [inHandBar EXCEPT ![t] = cert[t]]
      BY <1>3, <2>3 DEF SetInsert, IsNew, Shape, inHandBar
    <3>2. PICK c \in Certs : c = cert[t]
      BY <2>1
    <3>3. Simple!Insert(t, c)
      BY <1>3, <2>1, <2>3, <3>1, <3>2, <1>b DEF SetInsert, Simple!Insert, inHandBar, overBar
    <3> QED BY <3>2, <3>3 DEF Simple!Next
  <2> QED BY <2>2, <2>3
<1>4. ASSUME NEW t \in Threads, cert[t] \in Certs, inHandBar' = inHandBar,
             serials' \in {serials, serials \cup {cert[t]}},
             excused' = excused \cup {cert[t]}, UNCHANGED <<pem, past>>
      PROVE  Simple!Next
  BY <1>4, <1>b DEF Simple!Next, Simple!Refuse, inHandBar, overBar
<1>5. ASSUME NEW t \in Threads, SetInsertRetried(t) PROVE [Simple!Next]_(Simple!vars)
  <2>1. cert[t] \in Certs /\ \A u \in Threads : InHandOf(u)' = InHandOf(u)
    BY <1>5 DEF SetInsertRetried, Shape
  <2>2. inHandBar' = inHandBar
    BY <2>1 DEF inHandBar
  <2>3. CASE IsNew(cert[t])
    BY <1>5, <2>1, <2>2, <2>3, <1>4 DEF SetInsertRetried
  <2>4. CASE ~IsNew(cert[t])
    BY <1>5, <2>2, <2>4, <1>s DEF SetInsertRetried, IsNew
  <2> QED BY <2>3, <2>4
<1>6. ASSUME NEW t \in Threads, SetInsertFails(t) \/ MarkDirtyFails(t) PROVE Simple!Next
  <2>1. cert[t] \in Certs
    BY <1>6 DEF SetInsertFails, MarkDirtyFails
  <2>2. \A u \in Threads : InHandOf(u)' = InHandOf(u)
    BY <1>6 DEF SetInsertFails, MarkDirtyFails, ReturnError, Return, Shape
  <2> QED BY <1>6, <2>1, <2>2, <1>4 DEF SetInsertFails, MarkDirtyFails, ReturnError, inHandBar
<1>7. ASSUME NEW t \in Threads, pc[t] \in Filing, ReturnError(t),
             pem' \in {pem, pem \ {cert[t]}}, UNCHANGED <<serials, past>>
      PROVE  Simple!Next
  <2>1. InHandOf(t) = cert[t] /\ cert[t] # NoCert
    BY <1>7, <1>a
  <2>2. inHandBar' = [inHandBar EXCEPT ![t] = NoCert]
    BY <1>7 DEF ReturnError, Return, Shape, inHandBar
  <2>3. Simple!Fail(t)
    BY <1>7, <2>1, <2>2, <1>b DEF ReturnError, Simple!Fail, inHandBar, overBar
  <2> QED BY <2>3 DEF Simple!Next
<1>8. ASSUME NEW t \in Threads,
             AddCRLFails(t) \/ AddIssuerDNFails(t) \/ AllocateFails(t) \/ StoreCertificatePEMFails(t)
      PROVE  Simple!Next
  BY <1>8, <1>7 DEF AddCRLFails, AddIssuerDNFails, AllocateFails, StoreCertificatePEMFails
<1>9. ASSUME NEW t \in Threads, StoreCertificatePEM(t) PROVE Simple!Next
  <2>1. InHandOf(t) = cert[t] /\ cert[t] # NoCert
    BY <1>9, <1>a DEF StoreCertificatePEM
  <2>2. inHandBar' = [inHandBar EXCEPT ![t] = NoCert]
    BY <1>9 DEF StoreCertificatePEM, Shape, inHandBar
  <2>3. Simple!Finish(t)
    BY <1>9, <2>1, <2>2, <1>b DEF StoreCertificatePEM, Simple!Finish, inHandBar, overBar
  <2> QED BY <2>3 DEF Simple!Next
<1>10. ASSUME NEW t \in Threads, MarkDirty(t) PROVE UNCHANGED Simple!vars
  <2>1. \A u \in Threads : InHandOf(u)' = InHandOf(u)
    BY <1>10 DEF MarkDirty, Return, Shape
  <2> QED BY <1>10, <2>1, <1>s DEF MarkDirty, inHandBar
<1>11. ASSUME NEW t \in Threads, NEW c \in Certs, Store(t, c) PROVE UNCHANGED Simple!vars
  <2>1. \A u \in Threads : InHandOf(u)' = InHandOf(u)
    BY <1>11 DEF Store, Shape
  <2> QED BY <1>11, <2>1, <1>s DEF Store, inHandBar
<1>12. CASE Crash
  <2>1. inHandBar' = [t \in Threads |-> NoCert]
    BY <1>12 DEF Crash, inHandBar
  <2>2. \A t \in Threads : pc[t] = "pem" => inHandBar[t] = cert[t] /\ cert[t] # NoCert
    BY <1>a DEF inHandBar
  <2>3. pem' \subseteq pem /\ pem \ pem' \subseteq Simple!InHand
    BY <1>12, <2>2 DEF Crash, Writing, Simple!InHand, inHandBar
  <2>4. \A t \in Threads : inHandBar[t] # NoCert => pc[t] # "idle" /\ inHandBar[t] = cert[t]
    BY DEF inHandBar
  <2>5. Simple!InHand \subseteq excused'
    BY <1>12, <2>4 DEF Crash, Simple!InHand, inHandBar
  <2>6. excused' \subseteq Certs /\ excused \subseteq excused'
    BY <1>12 DEF Crash
  <2>7. Simple!Crash
    BY <1>12, <2>1, <2>3, <2>5, <2>6, <1>b DEF Crash, Simple!Crash, inHandBar, overBar
  <2> QED BY <2>7 DEF Simple!Next
<1>13. ASSUME \/ \E t \in Threads : ExpireAt(t)
              \/ \E d \in ExpDates : HourBegins(d)
       PROVE  Simple!Next
  <2>1. /\ past \subseteq past' /\ \A c \in serials : c \in serials' \/ ExpDateOf[c] \in past'
        /\ serials' \subseteq serials /\ UNCHANGED <<pem, excused>>
    BY <1>13, OnlyExpiredLeave DEF ExpireAt, HourBegins
  <2>2. \A u \in Threads : InHandOf(u)' = InHandOf(u)
    <3>1. ASSUME NEW t \in Threads, ExpireAt(t) PROVE \A u \in Threads : InHandOf(u)' = InHandOf(u)
      BY <3>1 DEF ExpireAt, AfterWasUnknown, Shape
    <3>2. ASSUME NEW d \in ExpDates, HourBegins(d)
          PROVE  \A u \in Threads : InHandOf(u)' = InHandOf(u)
      BY <3>2 DEF HourBegins
    <3> QED BY <1>13, <3>1, <3>2
  <2>3. inHandBar' = inHandBar
    BY <2>2 DEF inHandBar
  <2>4. overBar \subseteq overBar' /\ overBar' \subseteq Certs /\ serials \ serials' \subseteq overBar'
    BY <2>1 DEF overBar
  <2>5. Simple!Forget
    BY <2>1, <2>3, <2>4 DEF Simple!Forget, inHandBar, overBar
  <2> QED BY <2>5 DEF Simple!Next
<1>14. CASE Finished \/ UNCHANGED vars \/ \E k \in Keys : Evict(k)
  <2>1. \A u \in Threads : InHandOf(u)' = InHandOf(u)
    BY <1>14 DEF Finished, vars, Evict
  <2> QED BY <1>14, <2>1, <1>s DEF Finished, vars, Evict, inHandBar
<1> QED
  BY <1>1, <1>2, <1>3, <1>5, <1>6, <1>8, <1>9, <1>10, <1>11, <1>12, <1>13, <1>14, QuietSteps
     DEF Next, Step, WasUnknown, Accumulate, Write

(* FilesystemDatabase.Store, with its locks, caches, expirations and faults,
   implements SerialStore, for any number of threads and calls. *)
THEOREM ImplementsStoreHolds == Spec => ImplementsStore
<1>1. Init => WriterInv /\ Simple!Init
  <2> SUFFICES ASSUME Init PROVE WriterInv /\ Simple!Init
    OBVIOUS
  <2>1. inHandBar = [t \in Threads |-> NoCert] /\ overBar = {}
    BY DEF Init, inHandBar, InHandOf, overBar
  <2>2. WriterInv
    BY DEF Init, WriterInv, Shape, Pcs, Early, Late, Filing
  <2> QED BY <2>1, <2>2 DEF Init, Simple!Init, inHandBar, overBar
<1> QED BY <1>1, WriterInvStep, SimpleStep, PTL DEF Spec, ImplementsStore, Simple!Spec
-----------------------------------------------------------------------------
LEMMA TruncateBounds ==
  ASSUME NEW t \in Int, NEW unit \in Nat \ {0}
  PROVE  /\ Truncate(t, unit) \in Int
         /\ Truncate(t, unit) <= t /\ t < Truncate(t, unit) + unit
<1>1. t % unit \in 0..(unit - 1)
  OBVIOUS
<1> QED BY <1>1 DEF Truncate

(* An hour that is truncated again is the same hour. *)
LEMMA TruncateTwice ==
  ASSUME NEW t \in Nat, NEW unit \in Nat \ {0}
  PROVE  Truncate(Truncate(t, unit), unit) = Truncate(t, unit)
<1> DEFINE q == t \div unit
           u == t - (t % unit)
<1>1. /\ t % unit \in 0..(unit - 1) /\ q \in Int
      /\ t = unit * q + (t % unit)
  OBVIOUS
<1>2. u = unit * q /\ u \in Int
  BY <1>1
<1>3. u % unit = 0
  <2> DEFINE k == q - (u \div unit)
  <2>1. /\ u % unit \in 0..(unit - 1) /\ u \div unit \in Int
        /\ u = unit * (u \div unit) + (u % unit)
    BY <1>2
  <2>2. k \in Int /\ u % unit = unit * k
    <3> HIDE DEF q, u
    <3>1. ASSUME NEW a \in Int, NEW b \in Int PROVE unit * (a - b) = unit * a - unit * b
      OBVIOUS
    <3> QED BY <1>1, <1>2, <2>1, <3>1
  <2>3. ASSUME NEW j \in Int, unit * j \in 0..(unit - 1) PROVE unit * j = 0
    <3>1. CASE j >= 1
      <4>1. unit * j >= unit
        BY <3>1
      <4> QED BY <4>1, <2>3
    <3>2. CASE j <= -1
      <4>1. unit * j <= -unit
        BY <3>2
      <4> QED BY <4>1, <2>3
    <3> QED BY <3>1, <3>2, <2>3
  <2> HIDE DEF k, q, u
  <2> QED BY <2>1, <2>2, <2>3
<1> QED BY <1>2, <1>3 DEF Truncate

(* The name of a certificate's hour, as a directory and as a Redis key. *)
LEMMA NameOfHour ==
  ASSUME NEW c \in Certs
  PROVE  /\ ExpDateOf[c] = [at |-> Truncate(NotAfter[c], Hour), withHour |-> TRUE]
         /\ NotAfter[c] \in Nat
<1>1. NotAfter[c] \in Nat
  BY StoreAssumption
<1>2. Truncate(Truncate(NotAfter[c], Hour), Hour) = Truncate(NotAfter[c], Hour)
  BY <1>1, TruncateTwice, ExpDateAssumption
<1> QED BY <1>1, <1>2 DEF ExpDateOf, ID, NewExpDateFromTime

LEMMA BoundsOfHour ==
  ASSUME NEW c \in Certs
  PROVE  /\ Hour \in Int /\ Truncate(NotAfter[c], Hour) \in Int
         /\ NotAfter[c] < Truncate(NotAfter[c], Hour) + Hour
<1>1. NotAfter[c] \in Int /\ Hour \in Nat \ {0}
  BY StoreAssumption, ExpDateAssumption
<1> QED BY <1>1, TruncateBounds

(* A file has its directory. *)
FiledInv == pem \subseteq Certs /\ dirs \subseteq ExpDates /\ \A c \in pem : ExpDateOf[c] \in dirs

LEMMA FiledInvStep == WriterInv /\ FiledInv /\ [Next]_vars => FiledInv'
<1> SUFFICES ASSUME WriterInv, FiledInv, [Next]_vars PROVE FiledInv'
  OBVIOUS
<1> USE DEF redis, disk, memory, locals, history, FiledInv
<1>1. ASSUME NEW t \in Threads, Write(t) PROVE FiledInv'
  <2>1. pc[t] # "idle"
    BY <1>1 DEF Write, AllocateExpDateAndIssuer, AllocateFails, StoreCertificatePEM,
      StoreCertificatePEMFails, MarkDirty, MarkDirtyFails
  <2>2. cert[t] \in Certs
    BY <2>1 DEF WriterInv
  <2>3. ExpDateOf[cert[t]] \in ExpDates
    BY <2>2 DEF ExpDates
  <2> QED BY <1>1, <2>2, <2>3 DEF Write, AllocateExpDateAndIssuer, AllocateFails,
            StoreCertificatePEM, StoreCertificatePEMFails, MarkDirty, MarkDirtyFails
<1>2. ASSUME NEW t \in Threads, Lookup(t) \/ WasUnknown(t) PROVE UNCHANGED <<dirs, pem>>
  BY <1>2 DEF Lookup, GetKnownCertificates, NewKnownCertificates, WasUnknown, SetInsert,
    SetInsertRetried, SetInsertFails, CheckExpirySet, ExpireAt
<1>3. ASSUME NEW t \in Threads, Accumulate(t) PROVE UNCHANGED <<dirs, pem>>
  BY <1>3 DEF Accumulate, GetIssuerMetadata, NewIssuerMetadata, Lock, RLock, ReadSeen, MarkDate,
    KnownCrl, UnknownCrl, MarkCrl, AddCRL, AddCRLFails, CrlsDone, MarkDn, AddIssuerDN, AddIssuerDNFails
<1>4. CASE Crash
  BY <1>4 DEF Crash
<1>5. CASE \/ \E t \in Threads, c \in Certs : Store(t, c)
           \/ \E k \in Keys : Evict(k)
           \/ \E d \in ExpDates : HourBegins(d)
           \/ Finished \/ UNCHANGED vars
  BY <1>5 DEF Store, Evict, HourBegins, Finished, vars
<1> QED BY <1>1, <1>2, <1>3, <1>4, <1>5 DEF Next, Step

(* Under every fault, ListExpirationDates lists the hour of a certificate whose
   file is on disk for every moment of its validity that the caller's own clock
   face puts no later than its end, and no hour that was over a day before that
   clock: rounding down to the hour in NewExpDateFromTime and to the day in the
   listing is made good by the hour NewExpDate adds; taking the caller's date
   for one of UTC is not, and costs the end of the validity what the caller's
   zone is ahead. *)
THEOREM DiskListingHolds == Spec => []DiskListing
<1>1. Init => WriterInv /\ FiledInv
  BY DEF Init, WriterInv, FiledInv, Shape, Pcs, Early, Late, Filing
<1>2. ASSUME FiledInv PROVE DiskListing
  <2>1. ASSUME NEW zone \in Zones, NEW c \in pem, NEW t \in 0..NotAfter[c], t + zone <= NotAfter[c]
        PROVE  ExpDateOf[c] \in ListExpirationDates(t, zone)
    <3> DEFINE h == Truncate(NotAfter[c], Hour)
               d == Truncate(t + zone, Day)
    <3>1. /\ c \in Certs /\ ExpDateOf[c] \in dirs
          /\ ExpDateOf[c] = [at |-> h, withHour |-> TRUE] /\ NotAfter[c] \in Nat
      BY <1>2, NameOfHour DEF FiledInv
    <3>2. h \in Int /\ NotAfter[c] < h + Hour /\ Hour \in Int
      BY <3>1, BoundsOfHour
    <3>3. zone \in Int /\ t \in Int /\ t + zone \in Int
      <4>1. zone \in Int
        BY StoreAssumption
      <4>2. t \in Int
        BY <3>1
      <4> QED BY <4>1, <4>2
    <3>4. d \in Int /\ d <= t + zone
      <4>1. Day \in Nat \ {0}
        BY ExpDateAssumption
      <4> QED BY <3>3, <4>1, TruncateBounds
    <3>5. NewExpDate(ExpDateOf[c]).lastGood = h + Hour - 1
      BY <3>1 DEF NewExpDate
    <3>6. ~(h + Hour - 1 < d)
      <4> HIDE DEF h, d
      <4> QED BY <2>1, <3>1, <3>2, <3>3, <3>4
    <3> QED BY <3>1, <3>5, <3>6 DEF ListExpirationDates, IsExpiredAt
  <2>2. ASSUME NEW zone \in Zones, NEW c \in Certs, NEW t \in 0..(NotAfter[c] + Day),
               NEW d \in ListExpirationDates(t, zone)
        PROVE  d.at + Hour > t + zone - Day
    <3>1. d \in dirs /\ ~(NewExpDate(d).lastGood < Truncate(t + zone, Day))
      BY DEF ListExpirationDates, IsExpiredAt
    <3>2. PICK b \in Certs : d = ExpDateOf[b]
      BY <1>2, <3>1 DEF FiledInv, ExpDates
    <3> DEFINE h == Truncate(NotAfter[b], Hour)
               day == Truncate(t + zone, Day)
    <3>3. d = [at |-> h, withHour |-> TRUE] /\ h \in Int /\ Hour \in Int
      <4>1. d = [at |-> h, withHour |-> TRUE] /\ NotAfter[b] \in Nat
        BY <3>2, NameOfHour
      <4>2. h \in Int
        BY BoundsOfHour
      <4> HIDE DEF h
      <4> QED BY <4>1, <4>2, ExpDateAssumption
    <3>4. zone \in Int /\ t \in Int /\ t + zone \in Int
      <4>1. NotAfter[c] \in Nat
        BY NameOfHour
      <4>2. t \in Nat
        BY <4>1, ExpDateAssumption
      <4>3. zone \in Int
        BY StoreAssumption
      <4> QED BY <4>2, <4>3
    <3>5. day \in Int /\ t + zone < day + Day /\ Day \in Int
      <4>1. Day \in Nat \ {0} /\ Day \in Int
        BY ExpDateAssumption
      <4> QED BY <3>4, <4>1, TruncateBounds
    <3>6. NewExpDate(d).lastGood = h + Hour - 1 /\ d.at = h
      BY <3>3 DEF NewExpDate
    <3> HIDE DEF h, day
    <3>7. ~(h + Hour - 1 < day)
      BY <3>1, <3>6 DEF day
    <3> QED BY <3>3, <3>4, <3>5, <3>6, <3>7
  <2> QED BY <2>1, <2>2 DEF DiskListing
<1> QED BY <1>1, <1>2, WriterInvStep, FiledInvStep, PTL DEF Spec
=============================================================================

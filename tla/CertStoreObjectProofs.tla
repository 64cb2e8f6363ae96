----------------------- MODULE CertStoreObjectProofs -----------------------
(***************************************************************************)
(* Proofs about the objects CertStore keeps in memory: how many a process  *)
(* allocates, and that what KnownCertificates and IssuerMetadata remember  *)
(* to have done in Redis is done there.                                    *)
(***************************************************************************)
EXTENDS CertStoreProofs, FiniteSetTheorems

(* The places from which a call may still allocate a KnownCertificates, and
   an IssuerMetadata. *)
BeforeKc == {"lookup", "newkc"}
BeforeIm == BeforeKc \cup {"insert", "checkttl", "expireat", "meta", "newmeta"}
KcDue == {t \in Threads : pc[t] \in BeforeKc}
ImDue == {t \in Threads : pc[t] \in BeforeIm}

AllocInv == objects + Cardinality(KcDue) + Cardinality(ImDue) <= 2 * calls

LEMMA DueFinite ==
  /\ IsFiniteSet(KcDue) /\ Cardinality(KcDue) \in Nat
  /\ IsFiniteSet(ImDue) /\ Cardinality(ImDue) \in Nat
<1>1. IsFiniteSet(KcDue) /\ IsFiniteSet(ImDue)
  BY ThreadsAssumption, FS_Subset DEF KcDue, ImDue
<1> QED BY <1>1, FS_CardinalityType

(* What one thread moving from one place to another does to the two counts. *)
LEMMA DueMoves ==
  ASSUME Shape, NEW t \in Threads, NEW p, pc' = [pc EXCEPT ![t] = p]
  PROVE  /\ Cardinality(KcDue') \in Nat /\ Cardinality(ImDue') \in Nat
         /\ p \in BeforeKc /\ pc[t] \notin BeforeKc
              => Cardinality(KcDue') = Cardinality(KcDue) + 1
         /\ p \notin BeforeKc /\ pc[t] \in BeforeKc
              => Cardinality(KcDue') = Cardinality(KcDue) - 1
         /\ (p \in BeforeKc <=> pc[t] \in BeforeKc) => Cardinality(KcDue') = Cardinality(KcDue)
         /\ p \in BeforeIm /\ pc[t] \notin BeforeIm
              => Cardinality(ImDue') = Cardinality(ImDue) + 1
         /\ p \notin BeforeIm /\ pc[t] \in BeforeIm
              => Cardinality(ImDue') = Cardinality(ImDue) - 1
         /\ (p \in BeforeIm <=> pc[t] \in BeforeIm) => Cardinality(ImDue') = Cardinality(ImDue)
<1>1. /\ p \in BeforeKc /\ pc[t] \notin BeforeKc => KcDue' = KcDue \cup {t} /\ t \notin KcDue
      /\ p \notin BeforeKc /\ pc[t] \in BeforeKc => KcDue' = KcDue \ {t} /\ t \in KcDue
      /\ (p \in BeforeKc <=> pc[t] \in BeforeKc) => KcDue' = KcDue
  BY DEF KcDue, Shape
<1>2. /\ p \in BeforeIm /\ pc[t] \notin BeforeIm => ImDue' = ImDue \cup {t} /\ t \notin ImDue
      /\ p \notin BeforeIm /\ pc[t] \in BeforeIm => ImDue' = ImDue \ {t} /\ t \in ImDue
      /\ (p \in BeforeIm <=> pc[t] \in BeforeIm) => ImDue' = ImDue
  BY DEF ImDue, Shape
<1>3. ASSUME NEW S \in {KcDue, ImDue}
      PROVE  /\ t \notin S => Cardinality(S \cup {t}) = Cardinality(S) + 1
             /\ t \in S => Cardinality(S \ {t}) = Cardinality(S) - 1
             /\ Cardinality(S \cup {t}) \in Nat /\ Cardinality(S \ {t}) \in Nat
  <2>1. IsFiniteSet(S)
    BY DueFinite
  <2>2. /\ IsFiniteSet(S \cup {t})
        /\ t \notin S => Cardinality(S \cup {t}) = Cardinality(S) + 1
    BY <2>1, FS_AddElement
  <2>3. /\ IsFiniteSet(S \ {t})
        /\ t \in S => Cardinality(S \ {t}) = Cardinality(S) - 1
    BY <2>1, FS_RemoveElement
  <2>4. Cardinality(S \cup {t}) \in Nat
    BY <2>2, FS_CardinalityType
  <2>5. Cardinality(S \ {t}) \in Nat
    BY <2>3, FS_CardinalityType
  <2> QED BY <2>2, <2>3, <2>4, <2>5
<1>4. Cardinality(KcDue) \in Nat /\ Cardinality(ImDue) \in Nat
  BY DueFinite
<1> QED BY <1>1, <1>2, <1>3, <1>4

(* A step that allocates nothing and begins no call. *)
Allocless(t) ==
  /\ UNCHANGED <<objects, calls>>
  /\ \/ UNCHANGED pc
     \/ \E p \in Pcs : /\ pc' = [pc EXCEPT ![t] = p]
                       /\ p \in BeforeKc => pc[t] \in BeforeKc
                       /\ p \in BeforeIm => pc[t] \in BeforeIm

LEMMA AlloclessSteps ==
  ASSUME WriterInv, NEW t \in Threads, Step(t),
         ~NewKnownCertificates(t), ~NewIssuerMetadata(t)
  PROVE  Allocless(t)
<1> USE DEF redis, disk, memory, locals, history, Allocless, Pcs, BeforeKc, BeforeIm
<1>1. CASE Lookup(t)
  BY <1>1 DEF Lookup, GetKnownCertificates
<1>2. CASE WasUnknown(t)
  BY <1>2 DEF WasUnknown, SetInsert, SetInsertRetried, SetInsertFails, ReturnError, Return,
    CheckExpirySet, ExpireAt, AfterWasUnknown
<1>3. CASE Accumulate(t)
  <2>1. CASE GetIssuerMetadata(t) \/ ReadSeen(t) \/ MarkDate(t) \/ KnownCrl(t) \/ UnknownCrl(t)
    BY <2>1 DEF GetIssuerMetadata, ReadSeen, MarkDate, KnownCrl, UnknownCrl
  <2>2. CASE MarkCrl(t) \/ AddCRL(t) \/ AddCRLFails(t)
    BY <2>2 DEF MarkCrl, AddCRL, AddCRLFails, ReturnError, Return
  <2>3. CASE CrlsDone(t) \/ MarkDn(t) \/ AddIssuerDN(t) \/ AddIssuerDNFails(t)
    BY <2>3 DEF CrlsDone, AfterLoop, AfterAccumulate, MarkDn, AddIssuerDN, AddIssuerDNFails,
      ReturnError, Return
  <2>4. CASE Lock(t) \/ RLock(t)
    BY <2>4 DEF Lock, RLock, AfterLock, AfterRLock
  <2> QED BY <1>3, <2>1, <2>2, <2>3, <2>4 DEF Accumulate
<1>4. CASE Write(t)
  BY <1>4 DEF Write, AllocateExpDateAndIssuer, AllocateFails, StoreCertificatePEM,
    StoreCertificatePEMFails, MarkDirty, MarkDirtyFails, ReturnError, Return
<1> QED BY <1>1, <1>2, <1>3, <1>4 DEF Step

(* A call of Store allocates at most one object of each kind, and a crash
   forgets them all. *)
LEMMA AllocInvStep ==
  ASSUME WriterInv, objects \in Nat, calls \in Nat, AllocInv, [Next]_vars
  PROVE  objects' \in Nat /\ calls' \in Nat /\ AllocInv'
<1> USE DEF redis, disk, memory, locals, history, AllocInv
<1> USE DueFinite
<1>1. ASSUME NEW t \in Threads, Allocless(t) PROVE objects' \in Nat /\ calls' \in Nat /\ AllocInv'
  <2>1. CASE UNCHANGED pc
    BY <1>1, <2>1 DEF Allocless, KcDue, ImDue
  <2>2. CASE \E p \in Pcs : /\ pc' = [pc EXCEPT ![t] = p]
                            /\ p \in BeforeKc => pc[t] \in BeforeKc
                            /\ p \in BeforeIm => pc[t] \in BeforeIm
    <3> PICK p \in Pcs : /\ pc' = [pc EXCEPT ![t] = p]
                         /\ p \in BeforeKc => pc[t] \in BeforeKc
                         /\ p \in BeforeIm => pc[t] \in BeforeIm
      BY <2>2
    <3>1. /\ Cardinality(KcDue') \in {Cardinality(KcDue), Cardinality(KcDue) - 1}
          /\ Cardinality(ImDue') \in {Cardinality(ImDue), Cardinality(ImDue) - 1}
      BY DueMoves DEF WriterInv
    <3> QED BY <1>1, <3>1 DEF Allocless
  <2> QED BY <1>1, <2>1, <2>2 DEF Allocless
<1>2. ASSUME NEW t \in Threads, NewKnownCertificates(t)
      PROVE objects' \in Nat /\ calls' \in Nat /\ AllocInv'
  <2>1. /\ pc' = [pc EXCEPT ![t] = "insert"] /\ pc[t] \in BeforeKc /\ "insert" \notin BeforeKc
        /\ pc[t] \in BeforeIm /\ "insert" \in BeforeIm
        /\ objects' = objects + 1 /\ calls' = calls
    BY <1>2 DEF NewKnownCertificates, NextObject, BeforeKc, BeforeIm
  <2>2. /\ Cardinality(KcDue') = Cardinality(KcDue) - 1
        /\ Cardinality(ImDue') = Cardinality(ImDue)
    BY <2>1, DueMoves DEF WriterInv
  <2> QED BY <2>1, <2>2
<1>3. ASSUME NEW t \in Threads, NewIssuerMetadata(t)
      PROVE objects' \in Nat /\ calls' \in Nat /\ AllocInv'
  <2>1. /\ pc' = [pc EXCEPT ![t] = "seen"] /\ pc[t] \notin BeforeKc /\ "seen" \notin BeforeKc
        /\ pc[t] \in BeforeIm /\ "seen" \notin BeforeIm
        /\ objects' = objects + 1 /\ calls' = calls
    BY <1>3 DEF NewIssuerMetadata, NextObject, BeforeKc, BeforeIm
  <2>2. /\ Cardinality(KcDue') = Cardinality(KcDue)
        /\ Cardinality(ImDue') = Cardinality(ImDue) - 1
    BY <2>1, DueMoves DEF WriterInv
  <2> QED BY <2>1, <2>2
<1>4. ASSUME NEW t \in Threads, NEW c \in Certs, Store(t, c)
      PROVE objects' \in Nat /\ calls' \in Nat /\ AllocInv'
  <2>1. /\ pc' = [pc EXCEPT ![t] = "lookup"] /\ pc[t] \notin BeforeKc /\ "lookup" \in BeforeKc
        /\ pc[t] \notin BeforeIm /\ "lookup" \in BeforeIm
        /\ objects' = objects /\ calls' = calls + 1
    BY <1>4 DEF Store, BeforeKc, BeforeIm
  <2>2. /\ Cardinality(KcDue') = Cardinality(KcDue) + 1
        /\ Cardinality(ImDue') = Cardinality(ImDue) + 1
    BY <2>1, DueMoves DEF WriterInv
  <2> QED BY <2>1, <2>2
<1>5. CASE Crash
  <2>1. KcDue' = {} /\ ImDue' = {} /\ objects' = 0 /\ calls' = calls
    BY <1>5 DEF Crash, KcDue, ImDue, BeforeKc, BeforeIm
  <2> QED BY <2>1, FS_EmptySet
<1>6. CASE \/ \E d \in ExpDates : HourBegins(d)
           \/ \E k \in Keys : Evict(k)
           \/ Finished \/ UNCHANGED vars
  <2>1. UNCHANGED <<pc, objects, calls>>
    BY <1>6 DEF HourBegins, Evict, Finished, vars
  <2> QED BY <2>1 DEF KcDue, ImDue
<1> QED BY <1>1, <1>2, <1>3, <1>4, <1>5, <1>6, AlloclessSteps DEF Next
-----------------------------------------------------------------------------
(* A thread in the middle of a call has what the next steps read. *)
UsesKc == {"insert", "checkttl", "expireat"}
UsesIm == {"seen", "lockdate", "markdate", "rlock", "crls", "lockcrl", "markcrl", "relock",
           "addcrl", "lockdn", "dn", "adddn"}

PlaceInv ==
  /\ \A t \in Threads : pc[t] \in UsesKc => kc[t] # 0
  /\ \A t \in Threads : pc[t] \in UsesIm => im[t] # 0
  /\ \A t \in Threads : pc[t] \in {"lockcrl", "markcrl", "relock", "addcrl"} => todo[t] # <<>>

TypeInv == TypeOK /\ PlaceInv

LEMMA NamesTyped ==
  ASSUME NEW c \in Certs
  PROVE  /\ Key(c) \in Keys /\ ExpDateOf[c] \in ExpDates /\ IssuerOf[c] \in Issuers
         /\ DayOf[c] \in Days /\ CrlsOf[c] \in Seq(Crls)
  BY StoreAssumption DEF Key, Keys, ExpDates, Issuers, Days

LEMMA RestTyped ==
  ASSUME NEW q \in Seq(Crls), q # <<>>
  PROVE  Head(q) \in Items /\ Tail(q) \in Seq(Crls)
  BY DEF Items

(* The bound on what a process allocates, at a step that allocates. *)
LEMMA RoomForObject ==
  ASSUME TypeOK, AllocInv, NEW t \in Threads, pc[t] \in {"newkc", "newmeta"}
  PROVE  NextObject \in Object /\ NextObject \in 0..MaxObjects
<1>1. t \in KcDue \/ t \in ImDue
  BY DEF KcDue, ImDue, BeforeKc, BeforeIm
<1>2. Cardinality(KcDue) + Cardinality(ImDue) >= 1
  BY <1>1, DueFinite, FS_EmptySet
<1>3. objects \in Nat /\ calls \in Nat /\ calls <= MaxCalls /\ MaxCalls \in Nat
      /\ MaxObjects = 2 * MaxCalls
  BY StoreAssumption DEF TypeOK, MaxObjects
<1> QED BY <1>2, <1>3, DueFinite DEF AllocInv, NextObject, Object

LEMMA TypeInvStep ==
  ASSUME WriterInv, AllocInv, TypeInv, [Next]_vars
  PROVE  TypeInv'
<1> USE DEF redis, disk, memory, locals, history, TypeInv, PlaceInv, UsesKc, UsesIm
<1>0. /\ \A t \in Threads : pc[t] # "idle" => cert[t] \in Certs
      /\ MaxObjects \in Nat /\ 0 \in 0..MaxObjects
  BY StoreAssumption DEF WriterInv, MaxObjects
<1>1. ASSUME NEW t \in Threads, Lookup(t) PROVE TypeInv'
  <2>1. Key(cert[t]) \in Keys
    BY <1>0, <1>1, NamesTyped DEF Lookup, GetKnownCertificates, NewKnownCertificates
  <2>2. CASE GetKnownCertificates(t)
    BY <2>1, <2>2 DEF GetKnownCertificates, TypeOK, Pcs
  <2>3. CASE NewKnownCertificates(t)
    <3>1. NextObject \in Object /\ NextObject \in 0..MaxObjects /\ NextObject # 0
      BY <2>3, RoomForObject DEF NewKnownCertificates, Object
    <3> QED BY <2>1, <2>3, <3>1 DEF NewKnownCertificates, FlagOfNew, TypeOK, Pcs
  <2> QED BY <1>1, <2>2, <2>3 DEF Lookup
<1>2. ASSUME NEW t \in Threads, SetInsert(t) \/ SetInsertRetried(t) \/ CheckExpirySet(t)
      PROVE TypeInv'
  <2>1. CASE SetInsert(t)
    BY <1>0, <2>1 DEF SetInsert, IsNew, NowLate, TypeOK, Pcs
  <2>2. CASE SetInsertRetried(t)
    BY <1>0, <2>2 DEF SetInsertRetried, NowLate, TypeOK, Pcs
  <2>3. CASE CheckExpirySet(t)
    BY <2>3 DEF CheckExpirySet, AfterWasUnknown, TypeOK, Pcs
  <2> QED BY <1>2, <2>1, <2>2, <2>3
<1>3. ASSUME NEW t \in Threads, ExpireAt(t) PROVE TypeInv'
  <2>1. Key(cert[t]) \in Keys
    BY <1>0, <1>3, NamesTyped DEF ExpireAt
  <2>2. kc[t] \in Object
    BY <1>3 DEF ExpireAt, TypeOK, Object
  <2> QED BY <1>3, <2>1, <2>2 DEF ExpireAt, AfterWasUnknown, TypeOK, Pcs
<1>4. ASSUME NEW t \in Threads, Return(t), calls' = calls,
             UNCHANGED <<memory, hasTTL, past, reported, twice, late>>,
             serials' \subseteq Certs, metadata' \subseteq Issuers \X Items,
             dirs' \subseteq ExpDates, pem' \subseteq Certs, dirty' \subseteq Days,
             excused' \subseteq Certs
      PROVE  TypeInv'
  BY <1>0, <1>4 DEF Return, TypeOK, Pcs
<1>5. ASSUME NEW t \in Threads,
             \/ SetInsertFails(t) \/ AddCRLFails(t) \/ AddIssuerDNFails(t) \/ AllocateFails(t)
             \/ StoreCertificatePEMFails(t) \/ MarkDirtyFails(t) \/ MarkDirty(t)
      PROVE  TypeInv'
  <2>1. cert[t] \in Certs
    BY <1>0, <1>5 DEF SetInsertFails, AddCRLFails, AddIssuerDNFails, AllocateFails,
      StoreCertificatePEMFails, MarkDirtyFails, MarkDirty
  <2>2. /\ ExpDateOf[cert[t]] \in ExpDates /\ DayOf[cert[t]] \in Days
        /\ IssuerOf[cert[t]] \in Issuers /\ Dn \in Items
    BY <2>1, NamesTyped DEF Items
  <2>3. pc[t] = "addcrl" => Head(todo[t]) \in Items
    BY RestTyped DEF TypeOK
  <2>4. CASE SetInsertFails(t)
    BY <1>4, <2>1, <2>4 DEF SetInsertFails, ReturnError, TypeOK
  <2>5. CASE AddCRLFails(t) \/ AddIssuerDNFails(t)
    <3>1. metadata' \subseteq Issuers \X Items
      BY <2>2, <2>3, <2>5 DEF AddCRLFails, AddIssuerDNFails, TypeOK
    <3> QED BY <1>4, <2>1, <2>5, <3>1 DEF AddCRLFails, AddIssuerDNFails, ReturnError, TypeOK
  <2>6. CASE AllocateFails(t)
    BY <1>4, <2>1, <2>6 DEF AllocateFails, ReturnError, TypeOK
  <2>7. CASE StoreCertificatePEMFails(t)
    BY <1>4, <2>1, <2>2, <2>7 DEF StoreCertificatePEMFails, ReturnError, TypeOK
  <2>8. CASE MarkDirtyFails(t) \/ MarkDirty(t)
    BY <1>4, <2>1, <2>2, <2>8 DEF MarkDirtyFails, MarkDirty, ReturnError, TypeOK
  <2> QED BY <1>5, <2>4, <2>5, <2>6, <2>7, <2>8
<1>6. ASSUME NEW t \in Threads, GetIssuerMetadata(t) \/ NewIssuerMetadata(t) PROVE TypeInv'
  <2>1. IssuerOf[cert[t]] \in Issuers
    BY <1>0, <1>6, NamesTyped DEF GetIssuerMetadata, NewIssuerMetadata
  <2>2. CASE GetIssuerMetadata(t)
    BY <2>1, <2>2 DEF GetIssuerMetadata, TypeOK, Pcs
  <2>3. CASE NewIssuerMetadata(t)
    <3>1. NextObject \in 0..MaxObjects /\ NextObject # 0
      BY <2>3, RoomForObject DEF NewIssuerMetadata, Object
    <3> QED BY <2>1, <2>3, <3>1 DEF NewIssuerMetadata, TypeOK, Pcs
  <2> QED BY <1>6, <2>2, <2>3
<1>7. ASSUME NEW t \in Threads, ReadSeen(t) \/ MarkDate(t) PROVE TypeInv'
  <2>1. ExpDateOf[cert[t]] \in ExpDates /\ CrlsOf[cert[t]] \in Seq(Crls)
    BY <1>0, <1>7, NamesTyped DEF ReadSeen, MarkDate
  <2>2. CASE ReadSeen(t)
    BY <2>1, <2>2 DEF ReadSeen, TypeOK, Pcs
  <2>3. CASE MarkDate(t)
    BY <2>1, <2>3 DEF MarkDate, TypeOK, Pcs
  <2> QED BY <1>7, <2>2, <2>3
<1>8. ASSUME NEW t \in Threads, KnownCrl(t) \/ UnknownCrl(t) \/ MarkCrl(t) \/ AddCRL(t)
      PROVE TypeInv'
  <2>1. Head(todo[t]) \in Items /\ Tail(todo[t]) \in Seq(Crls)
    BY <1>8, RestTyped DEF KnownCrl, UnknownCrl, MarkCrl, AddCRL, TypeOK
  <2>2. CASE KnownCrl(t)
    BY <2>1, <2>2 DEF KnownCrl, RestOfLoop, TypeOK
  <2>3. CASE UnknownCrl(t)
    BY <2>3 DEF UnknownCrl, TypeOK, Pcs
  <2>4. CASE MarkCrl(t)
    BY <2>1, <2>4 DEF MarkCrl, TypeOK, Pcs
  <2>5. CASE AddCRL(t)
    <3>1. IssuerOf[cert[t]] \in Issuers
      BY <1>0, <2>5, NamesTyped DEF AddCRL
    <3> QED BY <2>1, <2>5, <3>1 DEF AddCRL, RestOfLoop, TypeOK, Pcs
  <2> QED BY <1>8, <2>2, <2>3, <2>4, <2>5
<1>9. ASSUME NEW t \in Threads, CrlsDone(t) \/ MarkDn(t) \/ AddIssuerDN(t) PROVE TypeInv'
  <2>1. Dn \in Items
    BY DEF Items
  <2>2. CASE CrlsDone(t)
    BY <2>2 DEF CrlsDone, AfterLoop, AfterAccumulate, TypeOK, Pcs
  <2>3. CASE MarkDn(t)
    BY <2>1, <2>3 DEF MarkDn, TypeOK, Pcs
  <2>4. CASE AddIssuerDN(t)
    <3>1. IssuerOf[cert[t]] \in Issuers
      BY <1>0, <2>4, NamesTyped DEF AddIssuerDN
    <3> QED BY <2>1, <2>4, <3>1 DEF AddIssuerDN, AfterAccumulate, TypeOK, Pcs
  <2> QED BY <1>9, <2>2, <2>3, <2>4
<1>10. ASSUME NEW t \in Threads, AllocateExpDateAndIssuer(t) \/ StoreCertificatePEM(t)
       PROVE TypeInv'
  <2>1. cert[t] \in Certs /\ ExpDateOf[cert[t]] \in ExpDates
    BY <1>0, <1>10, NamesTyped DEF AllocateExpDateAndIssuer, StoreCertificatePEM
  <2>2. CASE AllocateExpDateAndIssuer(t)
    BY <2>1, <2>2 DEF AllocateExpDateAndIssuer, TypeOK, Pcs
  <2>3. CASE StoreCertificatePEM(t)
    BY <2>1, <2>3 DEF StoreCertificatePEM, TypeOK, Pcs
  <2> QED BY <1>10, <2>2, <2>3
<1>11. ASSUME NEW t \in Threads, NEW c \in Certs, Store(t, c) PROVE TypeInv'
  BY <1>11, StoreAssumption DEF Store, TypeOK, Pcs
<1>12. ASSUME NEW k \in Keys, Evict(k) PROVE TypeInv'
  BY <1>0, <1>12 DEF Evict, TypeOK
<1>13. ASSUME NEW d \in ExpDates, HourBegins(d) PROVE TypeInv'
  BY <1>13 DEF HourBegins, TypeOK
<1>14. CASE Crash
  <2>1. pem' \subseteq Certs
    BY <1>14 DEF Crash, TypeOK
  <2>2. excused' \subseteq Certs
    BY <1>0, <1>14 DEF Crash, TypeOK
  <2>3. <<>> \in Seq(Crls)
    OBVIOUS
  <2> QED BY <1>0, <1>14, <2>1, <2>2, <2>3 DEF Crash, TypeOK, Pcs
<1>15. CASE Finished \/ UNCHANGED vars
  BY <1>15 DEF Finished, vars, TypeOK
<1>16. ASSUME NEW t \in Threads, Lock(t) \/ RLock(t) PROVE TypeInv'
  <2>1. CASE Lock(t)
    BY <2>1 DEF Lock, AfterLock, TypeOK, Pcs
  <2>2. CASE RLock(t)
    BY <2>2 DEF RLock, AfterRLock, TypeOK, Pcs
  <2> QED BY <1>16, <2>1, <2>2
<1> QED
  BY <1>1, <1>2, <1>3, <1>5, <1>6, <1>7, <1>8, <1>9, <1>10, <1>11, <1>12, <1>13, <1>14, <1>15,
     <1>16
     DEF Next, Step, WasUnknown, Accumulate, Write

(* What the proofs below build on. *)
StateInv == WriterInv /\ TypeInv /\ AllocInv

LEMMA StateInvHolds == Spec => []StateInv
<1>1. Init => StateInv
  <2> SUFFICES ASSUME Init PROVE StateInv
    OBVIOUS
  <2>1. KcDue = {} /\ ImDue = {} /\ objects = 0 /\ calls = 0
    BY DEF Init, KcDue, ImDue, BeforeKc, BeforeIm
  <2>2. AllocInv
    BY <2>1, FS_EmptySet DEF AllocInv
  <2>3. MaxObjects \in Nat /\ MaxCalls \in Nat /\ <<>> \in Seq(Crls)
    BY StoreAssumption DEF MaxObjects
  <2>4. TypeInv
    BY <2>3 DEF Init, TypeInv, PlaceInv, UsesKc, UsesIm, TypeOK, Pcs
  <2>5. WriterInv
    BY DEF Init, WriterInv, Shape, Pcs, Early, Late, Filing
  <2> QED BY <2>2, <2>4, <2>5 DEF StateInv
<1>2. StateInv /\ [Next]_vars => StateInv'
  <2> SUFFICES ASSUME StateInv, [Next]_vars PROVE StateInv'
    OBVIOUS
  <2>1. objects \in Nat /\ calls \in Nat
    BY StoreAssumption DEF StateInv, TypeInv, TypeOK, MaxObjects
  <2> QED BY <2>1, WriterInvStep, AllocInvStep, TypeInvStep DEF StateInv
<1> QED BY <1>1, <1>2, PTL DEF Spec

(* Every variable keeps its type; above all, a process that runs the calls of
   Store it is given never allocates more than a KnownCertificates and an
   IssuerMetadata object for each of them, whatever is evicted and however the
   lookups and insertions of the threads interleave. *)
THEOREM TypeCorrect == Spec => []TypeOK
<1>1. StateInv => TypeOK
  BY DEF StateInv, TypeInv
<1> QED BY <1>1, StateInvHolds, PTL
-----------------------------------------------------------------------------
(* A KnownCertificates object belongs to one key: whoever got it from the cache
   or put it there works for that key. *)
OneKey ==
  /\ \A t, u \in Threads : kc[t] # 0 /\ kc[t] = kc[u] => Key(cert[t]) = Key(cert[u])
  /\ \A t \in Threads : \A k \in Keys :
       kcCache[k] # 0 /\ kcCache[k] = kc[t] => k = Key(cert[t])
  /\ \A j, k \in Keys : kcCache[j] # 0 /\ kcCache[j] = kcCache[k] => j = k
  /\ \A t \in Threads : kc[t] <= objects
  /\ \A k \in Keys : kcCache[k] <= objects
  /\ \A o \in expirySet : o <= objects

(* The key has its expiry, or Redis has dropped it, or may drop it, for good. *)
Settled(k) == k \in hasTTL \/ k[1] \in past

Idling == {"idle", "lookup", "newkc"}
Expiring == {"checkttl", "expireat"}

KeyInv ==
  /\ OneKey
  /\ \A t \in Threads : pc[t] \in Idling => kc[t] = 0
  /\ \A k \in Keys : kcCache[k] # 0 /\ kcCache[k] \in expirySet => Settled(k)
  /\ \A t \in Threads : kc[t] # 0 /\ kc[t] \in expirySet => Settled(Key(cert[t]))
  /\ \A t \in Threads : pc[t] \in Expiring => cert[t] \in serials \/ ExpDateOf[cert[t]] \in past
  /\ KeyExpires

(* What the steps after WasUnknown, and every return, have in common. *)
KeyQuiet(t) ==
  /\ UNCHANGED <<serials, hasTTL, past, kcCache, expirySet, late>>
  /\ excused \subseteq excused' /\ objects' \in Nat /\ objects <= objects'
  /\ pc[t] \notin Expiring
  /\ \A u \in Threads \ {t} : pc'[u] = pc[u] /\ cert'[u] = cert[u] /\ kc'[u] = kc[u]
  /\ \/ kc'[t] = 0 /\ pc'[t] = "idle"
     \/ kc'[t] = kc[t] /\ cert'[t] = cert[t] /\ pc'[t] \notin Expiring \cup Idling

LEMMA KeyQuietSteps ==
  ASSUME ~RedisFails, StateInv, NEW t \in Threads, Accumulate(t) \/ Write(t)
  PROVE  KeyQuiet(t)
<1> USE DEF redis, disk, memory, locals, history, KeyQuiet, Expiring, Idling
<1>1. /\ objects \in Nat /\ pc \in [Threads -> Pcs] /\ cert \in [Threads -> Certs \cup {NoCert}]
      /\ kc \in [Threads -> 0..MaxObjects]
  BY StoreAssumption DEF StateInv, TypeInv, TypeOK, MaxObjects
<1>2. CASE GetIssuerMetadata(t) \/ ReadSeen(t) \/ MarkDate(t) \/ KnownCrl(t) \/ UnknownCrl(t)
  BY <1>1, <1>2 DEF GetIssuerMetadata, ReadSeen, MarkDate, KnownCrl, UnknownCrl
<1>3. CASE NewIssuerMetadata(t)
  BY <1>1, <1>3 DEF NewIssuerMetadata, NextObject
<1>4. CASE MarkCrl(t) \/ AddCRL(t) \/ CrlsDone(t) \/ MarkDn(t) \/ AddIssuerDN(t)
  BY <1>1, <1>4 DEF MarkCrl, AddCRL, CrlsDone, AfterLoop, AfterAccumulate, MarkDn, AddIssuerDN
<1>5. CASE AddCRLFails(t) \/ AddIssuerDNFails(t)
  BY <1>5 DEF AddCRLFails, AddIssuerDNFails
<1>6. CASE AllocateExpDateAndIssuer(t) \/ StoreCertificatePEM(t)
  BY <1>1, <1>6 DEF AllocateExpDateAndIssuer, StoreCertificatePEM
<1>7. CASE AllocateFails(t) \/ StoreCertificatePEMFails(t) \/ MarkDirty(t) \/ MarkDirtyFails(t)
  BY <1>1, <1>7 DEF AllocateFails, StoreCertificatePEMFails, MarkDirty, MarkDirtyFails,
    ReturnError, Return
<1>8. CASE Lock(t) \/ RLock(t)
  BY <1>1, <1>8 DEF Lock, RLock, AfterLock, AfterRLock
<1> QED BY <1>2, <1>3, <1>4, <1>5, <1>6, <1>7, <1>8 DEF Accumulate, Write

LEMMA KeyInvStep == ~RedisFails /\ StateInv /\ KeyInv /\ [Next]_vars => KeyInv'
<1> SUFFICES ASSUME ~RedisFails, StateInv, KeyInv, [Next]_vars PROVE KeyInv'
  OBVIOUS
<1> USE DEF redis, disk, memory, locals, history, KeyInv, OneKey, Settled, Idling, Expiring
<1>1. /\ objects \in Nat /\ pc \in [Threads -> Pcs] /\ cert \in [Threads -> Certs \cup {NoCert}]
      /\ kc \in [Threads -> 0..MaxObjects] /\ kcCache \in [Keys -> 0..MaxObjects]
      /\ MaxObjects \in Nat
  BY StoreAssumption DEF StateInv, TypeInv, TypeOK, MaxObjects
<1>2. /\ serials \subseteq Certs /\ excused \subseteq Certs
      /\ \A t \in Threads : pc[t] # "idle" => cert[t] \in Certs
  BY DEF StateInv, WriterInv
<1>3. \A c \in Certs : Key(c) \in Keys /\ Key(c)[1] = ExpDateOf[c]
  BY NamesTyped DEF Key
<1>4. ASSUME NEW t \in Threads, KeyQuiet(t) PROVE KeyInv'
  <2>1. OneKey'
    <3>1. \A u \in Threads : kc'[u] = 0 \/ (kc'[u] = kc[u] /\ cert'[u] = cert[u])
      BY <1>4 DEF KeyQuiet
    <3>2. UNCHANGED <<kcCache, expirySet>> /\ objects' \in Nat /\ objects <= objects'
      BY <1>4 DEF KeyQuiet
    <3>3. /\ \A u, v \in Threads : kc'[u] # 0 /\ kc'[u] = kc'[v] => Key(cert'[u]) = Key(cert'[v])
          /\ \A u \in Threads : \A k \in Keys :
               kcCache'[k] # 0 /\ kcCache'[k] = kc'[u] => k = Key(cert'[u])
      BY <3>1, <3>2
    <3>4. \A u \in Threads : kc'[u] <= objects'
      BY <1>1, <3>1, <3>2
    <3>5. \A k \in Keys : kcCache'[k] <= objects'
      BY <1>1, <3>2
    <3>6. \A o \in expirySet' : o <= objects'
      <4>1. expirySet \subseteq Nat
        BY <1>1 DEF StateInv, TypeInv, TypeOK, Object
      <4> QED BY <1>1, <3>2, <4>1
    <3> QED BY <3>2, <3>3, <3>4, <3>5, <3>6
  <2>2. KeyExpires'
    BY <1>4 DEF KeyQuiet, KeyExpires
  <2> QED BY <1>4, <2>1, <2>2 DEF KeyQuiet
<1>5. ASSUME NEW t \in Threads, GetKnownCertificates(t) PROVE KeyInv'
  <2>1. cert[t] \in Certs /\ Key(cert[t]) \in Keys
    BY <1>2, <1>3, <1>5 DEF GetKnownCertificates
  <2>2. OneKey'
    BY <1>1, <1>5, <2>1 DEF GetKnownCertificates
  <2>3. KeyExpires'
    BY <1>1, <1>5 DEF GetKnownCertificates, KeyExpires
  <2> QED BY <1>1, <1>5, <2>1, <2>2, <2>3 DEF GetKnownCertificates
<1>6. ASSUME NEW t \in Threads, NewKnownCertificates(t) PROVE KeyInv'
  <2>1. cert[t] \in Certs /\ Key(cert[t]) \in Keys
    BY <1>2, <1>3, <1>6 DEF NewKnownCertificates
  <2>2. /\ \A u \in Threads : kc[u] # objects + 1
        /\ \A k \in Keys : kcCache[k] # objects + 1
        /\ objects + 1 \notin expirySet
    BY <1>1
  <2>3. /\ \A u \in Threads : kc'[u] = IF u = t THEN objects + 1 ELSE kc[u]
        /\ \A k \in Keys : kcCache'[k] = IF k = Key(cert[t]) THEN objects + 1 ELSE kcCache[k]
        /\ objects' = objects + 1 /\ expirySet' = expirySet /\ cert' = cert
        /\ UNCHANGED <<serials, hasTTL, past, excused, late>>
        /\ pc' = [pc EXCEPT ![t] = "insert"] /\ pc[t] = "newkc"
    BY <1>1, <1>6 DEF NewKnownCertificates, NextObject, FlagOfNew
  <2>4. OneKey'
    <3>1. \A u, v \in Threads : kc'[u] # 0 /\ kc'[u] = kc'[v] => Key(cert'[u]) = Key(cert'[v])
      BY <2>2, <2>3
    <3>2. \A u \in Threads : \A k \in Keys :
            kcCache'[k] # 0 /\ kcCache'[k] = kc'[u] => k = Key(cert'[u])
      BY <2>1, <2>2, <2>3
    <3>3. \A j, k \in Keys : kcCache'[j] # 0 /\ kcCache'[j] = kcCache'[k] => j = k
      BY <2>1, <2>2, <2>3
    <3>4. \A u \in Threads : kc'[u] <= objects'
      BY <1>1, <2>3
    <3>5. \A k \in Keys : kcCache'[k] <= objects'
      BY <1>1, <2>3
    <3>6. \A o \in expirySet' : o <= objects'
      <4>1. expirySet \subseteq Nat
        BY <1>1 DEF StateInv, TypeInv, TypeOK, Object
      <4> QED BY <1>1, <2>3, <4>1
    <3> QED BY <3>1, <3>2, <3>3, <3>4, <3>5, <3>6
  <2>5. KeyExpires'
    BY <1>1, <2>2, <2>3 DEF KeyExpires
  <2> QED BY <1>1, <2>1, <2>2, <2>3, <2>4, <2>5
<1>7. ASSUME NEW t \in Threads, SetInsert(t) \/ SetInsertRetried(t) PROVE KeyInv'
  <2>1. /\ cert[t] \in Certs /\ serials' = serials \cup {cert[t]}
        /\ pc[t] = "insert" /\ pc' = [pc EXCEPT ![t] = "checkttl"]
        /\ UNCHANGED <<hasTTL, past, kcCache, expirySet, cert, kc, objects>>
        /\ excused \subseteq excused' /\ late \subseteq late'
        /\ ExpDateOf[cert[t]] \in past => cert[t] \in late'
    BY <1>2, <1>7 DEF SetInsert, SetInsertRetried, NowLate
  <2>2. KeyExpires'
    <3>1. /\ kc[t] # 0 /\ pc'[t] = "checkttl"
          /\ \A u \in Threads \ {t} : pc'[u] = pc[u]
      BY <1>1, <2>1 DEF StateInv, TypeInv, PlaceInv, UsesKc
    <3>2. \/ Key(cert[t]) \in hasTTL' \/ cert[t] \in late' \/ kc'[t] \notin expirySet'
      BY <1>3, <2>1, <3>1
    <3>3. ASSUME NEW c \in serials', Key(c) # Key(cert[t])
          PROVE  \/ Key(c) \in hasTTL'
                 \/ \E u \in Threads : /\ cert'[u] \in Certs /\ Key(cert'[u]) = Key(c)
                                        /\ pc'[u] \in Expiring /\ kc'[u] \notin expirySet'
                 \/ \E d \in excused' \cup late' : Key(d) = Key(c)
      BY <2>1, <3>1, <3>3 DEF KeyExpires
    <3> QED BY <2>1, <3>1, <3>2, <3>3 DEF KeyExpires
  <2>3. OneKey'
    BY <2>1
  <2> QED BY <1>1, <2>1, <2>2, <2>3
<1>8. CASE \E t \in Threads : SetInsertFails(t)
  BY <1>8 DEF SetInsertFails
<1>9. ASSUME NEW t \in Threads, CheckExpirySet(t) PROVE KeyInv'
  <2>1. /\ pc[t] = "checkttl"
        /\ pc'[t] \notin Idling \cup {"checkttl"}
        /\ kc[t] \notin expirySet => pc'[t] = "expireat"
        /\ \A u \in Threads \ {t} : pc'[u] = pc[u]
        /\ UNCHANGED <<redis, disk, memory, locals, history>>
    BY <1>1, <1>9 DEF CheckExpirySet, AfterWasUnknown
  <2>2. KeyExpires'
    BY <2>1 DEF KeyExpires
  <2> QED BY <2>1, <2>2
<1>10. ASSUME NEW t \in Threads, ExpireAt(t) PROVE KeyInv'
  <2> DEFINE k == Key(cert[t])
  <2>1. /\ cert[t] \in Certs /\ k \in Keys /\ k[1] = ExpDateOf[cert[t]]
        /\ kc[t] # 0 /\ pc[t] = "expireat"
    BY <1>2, <1>3, <1>10 DEF ExpireAt, StateInv, TypeInv, PlaceInv, UsesKc
  <2>2. /\ expirySet' = expirySet \cup {kc[t]}
        /\ pc'[t] \notin Idling \cup Expiring
        /\ \A u \in Threads \ {t} : pc'[u] = pc[u]
        /\ UNCHANGED <<past, kcCache, cert, kc, objects, excused, late>>
    BY <1>1, <1>10 DEF ExpireAt, AfterWasUnknown
  <2>3. /\ serials' \subseteq serials
        /\ \A c \in serials : c \in serials' \/ ExpDateOf[c] \in past
        /\ \A j \in Keys : Settled(j) => Settled(j)'
        /\ Settled(k)'
        /\ hasTTL \ {k} \subseteq hasTTL'
        /\ \A c \in serials' : Key(c) = k => k \in hasTTL'
    <3>1. Members(k) = {} => k[1] \in past
      BY <2>1 DEF Members
    <3>2. \A c \in Members(k) : ExpDateOf[c] = k[1]
      BY <1>2, <1>3 DEF Members
    <3>3. \A c \in serials : Key(c) = k => c \in Members(k)
      BY DEF Members
    <3> QED BY <1>10, <3>1, <3>2, <3>3 DEF ExpireAt
  <2>4. KeyExpires'
    <3>1. ASSUME NEW c \in serials', NEW u \in Threads,
                 cert[u] \in Certs, Key(cert[u]) = Key(c), pc[u] \in Expiring, kc[u] \notin expirySet
          PROVE  Key(c) = k \/ (u # t /\ kc[u] \notin expirySet')
      BY <2>1, <2>2, <3>1
    <3>2. \A c \in serials' : c \in serials /\ (Key(c) \in hasTTL => Key(c) \in hasTTL')
      BY <2>3
    <3> QED BY <2>2, <2>3, <3>1, <3>2 DEF KeyExpires
  <2>5. OneKey'
    BY <1>1, <2>2
  <2>6. \A j \in Keys : kcCache'[j] # 0 /\ kcCache'[j] \in expirySet' => Settled(j)'
    BY <2>1, <2>2, <2>3
  <2>7. ASSUME NEW u \in Threads, kc'[u] # 0, kc'[u] \in expirySet' PROVE Settled(Key(cert[u]))'
    <3>1. cert[u] \in Certs /\ Key(cert[u]) \in Keys
      BY <1>1, <1>2, <1>3, <2>2, <2>7
    <3> QED BY <2>1, <2>2, <2>3, <2>7, <3>1
  <2> QED BY <2>2, <2>3, <2>4, <2>5, <2>6, <2>7
<1>11. ASSUME NEW t \in Threads, NEW c \in Certs, Store(t, c) PROVE KeyInv'
  <2>1. /\ pc[t] = "idle" /\ kc[t] = 0 /\ pc'[t] = "lookup" /\ cert'[t] = c
        /\ \A u \in Threads \ {t} : pc'[u] = pc[u] /\ cert'[u] = cert[u]
        /\ UNCHANGED <<redis, disk, memory, kc, excused, late>>
    BY <1>1, <1>11 DEF Store
  <2>2. KeyExpires'
    BY <2>1 DEF KeyExpires
  <2> QED BY <2>1, <2>2
<1>12. ASSUME NEW k \in Keys, Evict(k) PROVE KeyInv'
  <2>1. /\ \A j \in Keys : kcCache'[j] \in {kcCache[j], 0}
        /\ UNCHANGED <<redis, disk, expirySet, objects, pc, locals, history>>
    BY <1>1, <1>12 DEF Evict
  <2>2. KeyExpires'
    BY <2>1 DEF KeyExpires
  <2> QED BY <1>1, <2>1, <2>2
<1>13. ASSUME NEW d \in ExpDates, HourBegins(d) PROVE KeyInv'
  <2>1. /\ past' = past \cup {d} /\ serials' \subseteq serials
        /\ \A c \in serials : c \in serials' \/ ExpDateOf[c] \in past'
        /\ \A k \in Keys : k \in hasTTL => k \in hasTTL' \/ k[1] \in past'
        /\ \A c \in serials' : Key(c) \in hasTTL => Key(c) \in hasTTL'
        /\ UNCHANGED <<disk, memory, pc, locals, history>>
    BY <1>2, <1>3, <1>13 DEF HourBegins
  <2>2. KeyExpires'
    BY <2>1 DEF KeyExpires
  <2>3. \A t \in Threads : kc[t] # 0 => Key(cert[t]) \in Keys
    BY <1>1, <1>2, <1>3
  <2> QED BY <2>1, <2>2, <2>3
<1>14. CASE Crash
  <2>1. /\ kcCache' = [k \in Keys |-> 0] /\ expirySet' = {} /\ objects' = 0
        /\ pc' = [t \in Threads |-> "idle"] /\ kc' = [t \in Threads |-> 0]
        /\ UNCHANGED <<serials, hasTTL, past, late>> /\ excused \subseteq excused'
        /\ \A t \in Threads : pc[t] # "idle" => cert[t] \in excused'
    BY <1>14 DEF Crash
  <2>2. KeyExpires'
    BY <2>1 DEF KeyExpires
  <2> QED BY <2>1, <2>2
<1>15. CASE Finished \/ UNCHANGED vars
  BY <1>15 DEF Finished, vars, KeyExpires
<1> QED
  BY <1>4, <1>5, <1>6, <1>7, <1>8, <1>9, <1>10, <1>11, <1>12, <1>13, <1>14, <1>15, KeyQuietSteps
     DEF Next, Step, Lookup, WasUnknown

(* While Redis answers, every serials key has its expiry, or a thread on its way
   to set it, before its hour begins and after: evictions, objects made twice,
   lost replies and disk faults included.  The keys that may stay for ever are
   those of a certificate that was being stored when the process was killed, and
   those of one that was inserted after its hour had begun. *)
THEOREM KeyExpiresHolds ==
  ASSUME ~RedisFails
  PROVE  Spec => []KeyExpires
<1>1. Init => KeyInv
  BY DEF Init, KeyInv, OneKey, Settled, Idling, Expiring, KeyExpires
<1>2. KeyInv => KeyExpires
  BY DEF KeyInv
<1> QED BY <1>1, <1>2, KeyInvStep, StateInvHolds, PTL DEF Spec
-----------------------------------------------------------------------------
(* An item of an issuer needs no more work: it is in Redis, or the thread that
   marked it as known is about to put it there, or a call that met a fault has
   it to account for. *)
Accounted ==
  {p \in Issuers \X Items :
     \/ p \in metadata
     \/ AboutToAdd(p[1], p[2])
     \/ \E d \in excused : IssuerOf[d] = p[1] /\ p[2] \in ItemsOf(d)}

(* An IssuerMetadata object belongs to one issuer: whoever got it from db.meta
   or put it there works for that issuer, and an object not allocated yet is
   empty. *)
OneIssuer ==
  /\ \A t, u \in Threads : im[t] # 0 /\ im[t] = im[u] => IssuerOf[cert[t]] = IssuerOf[cert[u]]
  /\ \A t \in Threads : \A i \in Issuers :
       meta[i] # 0 /\ meta[i] = im[t] => i = IssuerOf[cert[t]]
  /\ \A i, j \in Issuers : meta[i] # 0 /\ meta[i] = meta[j] => i = j
  /\ \A t \in Threads : im[t] <= objects
  /\ \A i \in Issuers : meta[i] <= objects
  /\ \A o \in Object : o > objects => seenItems[o] = {}
  /\ \A t \in Threads : pc[t] \in BeforeIm \cup {"idle"} => im[t] = 0

(* What an object remembers as known is accounted for. *)
Remembered ==
  /\ \A t \in Threads : im[t] # 0 =>
       \A item \in seenItems[im[t]] : <<IssuerOf[cert[t]], item>> \in Accounted
  /\ \A i \in Issuers : meta[i] # 0 => \A item \in seenItems[meta[i]] : <<i, item>> \in Accounted

(* The items thread t has still to look at, from ReadSeen to the PEM. *)
ItemsIn(q) == {q[k] : k \in 1..Len(q)}
InLoop == {"lockdate", "markdate", "rlock", "crls", "lockcrl", "markcrl", "relock", "addcrl"}
Pending(t) ==
  IF pc[t] \in InLoop THEN ItemsIn(todo[t]) \cup (IF dnBefore[t] THEN {} ELSE {Dn})
  ELSE IF pc[t] \in {"lockdn", "dn", "adddn"} THEN {Dn} ELSE {}

WorkedBy(t) ==
  /\ pc[t] \in InLoop => ItemsIn(todo[t]) \subseteq ItemsIn(CrlsOf[cert[t]])
  /\ pc[t] \in InLoop \cup {"lockdn", "dn", "adddn", "alloc", "pem"} =>
       \A item \in ItemsOf(cert[t]) \ Pending(t) : <<IssuerOf[cert[t]], item>> \in Accounted

MetaInv ==
  /\ OneIssuer /\ Remembered /\ MetaRecorded
  /\ \A t \in Threads : WorkedBy(t)

LEMMA ItemsOfLoop ==
  ASSUME NEW q \in Seq(Crls), q # <<>>
  PROVE  ItemsIn(q) = {Head(q)} \cup ItemsIn(Tail(q))
<1>1. Len(q) \in Nat /\ Len(q) >= 1 /\ Head(q) = q[1] /\ Len(Tail(q)) = Len(q) - 1
  OBVIOUS
<1>2. \A k \in 1..Len(Tail(q)) : k + 1 \in 1..Len(q) /\ Tail(q)[k] = q[k + 1]
  BY <1>1
<1>3. \A k \in 1..Len(q) : k = 1 \/ (k - 1 \in 1..Len(Tail(q)) /\ Tail(q)[k - 1] = q[k])
  <2> SUFFICES ASSUME NEW k \in 1..Len(q), k # 1
               PROVE  k - 1 \in 1..Len(Tail(q)) /\ Tail(q)[k - 1] = q[k]
    OBVIOUS
  <2>1. k - 1 \in 1..Len(Tail(q)) /\ (k - 1) + 1 = k
    BY <1>1
  <2>2. Tail(q)[k - 1] = q[(k - 1) + 1]
    BY <1>2, <2>1
  <2> QED BY <2>1, <2>2
<1>4. ItemsIn(q) \subseteq {Head(q)} \cup ItemsIn(Tail(q))
  BY <1>1, <1>3 DEF ItemsIn
<1>5. {Head(q)} \cup ItemsIn(Tail(q)) \subseteq ItemsIn(q)
  BY <1>1, <1>2 DEF ItemsIn
<1> QED BY <1>4, <1>5

(* A step of one thread leaves the others where they are, and takes nothing
   back from Redis or from the record of faults. *)
OnlyMoves(t) ==
  /\ metadata \subseteq metadata' /\ excused \subseteq excused'
  /\ \A u \in Threads \ {t} : /\ pc'[u] = pc[u] /\ cert'[u] = cert[u] /\ im'[u] = im[u]
                              /\ todo'[u] = todo[u] /\ dnBefore'[u] = dnBefore[u]

LEMMA StepsOfOne ==
  ASSUME TypeOK, NEW t \in Threads, Step(t) \/ \E c \in Certs : Store(t, c)
  PROVE  OnlyMoves(t)
<1> USE DEF redis, disk, memory, locals, history, OnlyMoves
<1>1. /\ pc \in [Threads -> Pcs] /\ cert \in [Threads -> Certs \cup {NoCert}]
      /\ im \in [Threads -> 0..MaxObjects] /\ todo \in [Threads -> Seq(Crls)]
      /\ dnBefore \in [Threads -> BOOLEAN]
  BY DEF TypeOK
<1>2. ASSUME Return(t)
      PROVE  \A u \in Threads \ {t} : /\ pc'[u] = pc[u] /\ cert'[u] = cert[u] /\ im'[u] = im[u]
                                      /\ todo'[u] = todo[u] /\ dnBefore'[u] = dnBefore[u]
  BY <1>1, <1>2 DEF Return
<1>3. CASE Lookup(t)
  BY <1>1, <1>3 DEF Lookup, GetKnownCertificates, NewKnownCertificates
<1>4. CASE WasUnknown(t)
  BY <1>1, <1>2, <1>4 DEF WasUnknown, SetInsert, SetInsertRetried, SetInsertFails, ReturnError,
    CheckExpirySet, ExpireAt
<1>5. CASE Accumulate(t)
  <2>1. CASE GetIssuerMetadata(t) \/ NewIssuerMetadata(t) \/ ReadSeen(t) \/ MarkDate(t)
    BY <1>1, <2>1 DEF GetIssuerMetadata, NewIssuerMetadata, ReadSeen, MarkDate
  <2>2. CASE KnownCrl(t) \/ UnknownCrl(t) \/ MarkCrl(t) \/ AddCRL(t) \/ CrlsDone(t)
    BY <1>1, <2>2 DEF KnownCrl, UnknownCrl, MarkCrl, AddCRL, CrlsDone
  <2>3. CASE MarkDn(t) \/ AddIssuerDN(t) \/ AddIssuerDNFails(t) \/ AddCRLFails(t)
    BY <1>1, <1>2, <2>3 DEF MarkDn, AddIssuerDN, AddIssuerDNFails, AddCRLFails, ReturnError
  <2>4. CASE Lock(t) \/ RLock(t)
    BY <1>1, <2>4 DEF Lock, RLock
  <2> QED BY <1>5, <2>1, <2>2, <2>3, <2>4 DEF Accumulate
<1>6. CASE Write(t)
  BY <1>1, <1>2, <1>6 DEF Write, AllocateExpDateAndIssuer, AllocateFails, StoreCertificatePEM,
    StoreCertificatePEMFails, MarkDirty, MarkDirtyFails, ReturnError
<1>7. CASE \E c \in Certs : Store(t, c)
  BY <1>1, <1>7 DEF Store
<1> QED BY <1>3, <1>4, <1>5, <1>6, <1>7 DEF Step

LEMMA StepsThatAdd ==
  ASSUME NEW t \in Threads, Step(t), pc[t] \in {"relock", "addcrl", "adddn"}
  PROVE  RLock(t) \/ AddCRL(t) \/ AddCRLFails(t) \/ AddIssuerDN(t) \/ AddIssuerDNFails(t)
<1>1. ~Lookup(t)
  BY DEF Lookup, GetKnownCertificates, NewKnownCertificates
<1>2. ~WasUnknown(t)
  BY DEF WasUnknown, SetInsert, SetInsertRetried, SetInsertFails, CheckExpirySet, ExpireAt
<1>3. ~Write(t)
  BY DEF Write, AllocateExpDateAndIssuer, AllocateFails, StoreCertificatePEM,
    StoreCertificatePEMFails, MarkDirty, MarkDirtyFails
<1>4. ~GetIssuerMetadata(t) /\ ~NewIssuerMetadata(t) /\ ~ReadSeen(t) /\ ~MarkDate(t) /\ ~Lock(t)
  BY DEF GetIssuerMetadata, NewIssuerMetadata, ReadSeen, MarkDate, Lock
<1>5. ~KnownCrl(t) /\ ~UnknownCrl(t) /\ ~MarkCrl(t) /\ ~CrlsDone(t) /\ ~MarkDn(t)
  BY DEF KnownCrl, UnknownCrl, MarkCrl, CrlsDone, MarkDn
<1> QED BY <1>1, <1>2, <1>3, <1>4, <1>5 DEF Step, Accumulate

(* What is accounted for stays so: a thread about to add an item adds it or
   leaves its call on record. *)
LEMMA AccountsKept ==
  ASSUME StateInv, \A t \in Threads : WorkedBy(t), [Next]_vars
  PROVE  Accounted \subseteq Accounted'
<1> USE DEF redis, disk, memory, locals, history
<1>1. TypeOK /\ PlaceInv /\ \A t \in Threads : pc[t] # "idle" => cert[t] \in Certs
  BY DEF StateInv, TypeInv, WriterInv
<1>2. metadata \subseteq metadata' /\ excused \subseteq excused'
  <2>1. CASE \E t \in Threads : Step(t) \/ \E c \in Certs : Store(t, c)
    BY <1>1, <2>1, StepsOfOne DEF OnlyMoves
  <2>2. CASE \/ \E k \in Keys : Evict(k)
             \/ \E d \in ExpDates : HourBegins(d)
             \/ Crash \/ Finished \/ UNCHANGED vars
    BY <2>2 DEF Evict, HourBegins, Crash, Finished, vars
  <2> QED BY <2>1, <2>2 DEF Next
<1>3. ASSUME NEW t \in Threads, cert[t] \in Certs, NEW item,
             \/ pc[t] \in {"relock", "addcrl"} /\ item = Head(todo[t])
             \/ pc[t] = "adddn" /\ item = Dn
      PROVE  \/ /\ pc'[t] = pc[t] \/ (pc[t] = "relock" /\ pc'[t] = "addcrl")
                /\ cert'[t] = cert[t] /\ todo'[t] = todo[t]
             \/ <<IssuerOf[cert[t]], item>> \in metadata'
             \/ cert[t] \in excused'
  <2>1. CASE Step(t)
    <3>1. RLock(t) \/ AddCRL(t) \/ AddCRLFails(t) \/ AddIssuerDN(t) \/ AddIssuerDNFails(t)
      BY <1>3, <2>1, StepsThatAdd
    <3>2. CASE RLock(t)
      BY <1>1, <1>3, <3>2 DEF RLock, AfterRLock, TypeOK
    <3>3. CASE ~RLock(t)
      BY <1>3, <3>1, <3>3 DEF AddCRL, AddCRLFails, AddIssuerDN, AddIssuerDNFails, ReturnError
    <3> QED BY <3>2, <3>3
  <2>2. CASE \E u \in Threads \ {t} : Step(u) \/ \E c \in Certs : Store(u, c)
    BY <1>1, <2>2, StepsOfOne DEF OnlyMoves
  <2>3. ~ \E c \in Certs : Store(t, c)
    BY <1>3 DEF Store
  <2>4. CASE \/ \E k \in Keys : Evict(k)
             \/ \E d \in ExpDates : HourBegins(d)
             \/ Finished \/ UNCHANGED vars
    BY <2>4 DEF Evict, HourBegins, Finished, vars
  <2>5. CASE Crash
    BY <1>3, <2>5 DEF Crash
  <2> QED BY <2>1, <2>2, <2>3, <2>4, <2>5 DEF Next
<1>4. ASSUME NEW t \in Threads, cert[t] \in Certs, NEW item,
             \/ pc[t] \in {"relock", "addcrl"} /\ item = Head(todo[t])
             \/ pc[t] = "adddn" /\ item = Dn
      PROVE  item \in ItemsOf(cert[t])
  <2>1. pc[t] \in {"relock", "addcrl"} => Head(todo[t]) \in ItemsIn(todo[t])
    BY <1>1, ItemsOfLoop DEF TypeOK, PlaceInv
  <2> QED BY <1>4, <2>1 DEF WorkedBy, InLoop, ItemsOf, ItemsIn
<1>5. ASSUME NEW p \in Accounted PROVE p \in Accounted'
  <2>1. p \in Issuers \X Items /\ p = <<p[1], p[2]>>
    BY DEF Accounted
  <2>2. CASE p \in metadata \/ \E d \in excused : IssuerOf[d] = p[1] /\ p[2] \in ItemsOf(d)
    BY <1>2, <2>1, <2>2 DEF Accounted
  <2>3. CASE AboutToAdd(p[1], p[2])
    <3> PICK t \in Threads : /\ cert[t] \in Certs /\ IssuerOf[cert[t]] = p[1]
                             /\ \/ pc[t] \in {"relock", "addcrl"} /\ p[2] = Head(todo[t])
                                \/ pc[t] = "adddn" /\ p[2] = Dn
      BY <2>3 DEF AboutToAdd
    <3>1. p[2] \in ItemsOf(cert[t])
      BY <1>4
    <3>2. \/ /\ pc'[t] = pc[t] \/ (pc[t] = "relock" /\ pc'[t] = "addcrl")
             /\ cert'[t] = cert[t] /\ todo'[t] = todo[t]
          \/ p \in metadata'
          \/ cert[t] \in excused'
      BY <1>3, <2>1
    <3>3. CASE /\ pc'[t] = pc[t] \/ (pc[t] = "relock" /\ pc'[t] = "addcrl")
               /\ cert'[t] = cert[t] /\ todo'[t] = todo[t]
      BY <2>1, <3>3 DEF Accounted, AboutToAdd
    <3> QED BY <2>1, <3>1, <3>2, <3>3 DEF Accounted
  <2> QED BY <2>2, <2>3 DEF Accounted
<1> QED BY <1>5

(* Most steps change no IssuerMetadata object and hand none out; a call that
   returns lets go of its own. *)
ImKept ==
  /\ UNCHANGED <<meta, seenItems>> /\ objects' \in Nat /\ objects <= objects'
  /\ \A u \in Threads :
       im'[u] = 0 \/ (im'[u] = im[u] /\ cert'[u] = cert[u] /\ pc'[u] \notin BeforeIm \cup {"idle"})

LEMMA ImKeptSteps ==
  ASSUME TypeOK, OneIssuer, NEW t \in Threads, Step(t) \/ \E c \in Certs : Store(t, c),
         ~GetIssuerMetadata(t), ~NewIssuerMetadata(t), ~MarkCrl(t), ~MarkDn(t)
  PROVE  ImKept
<1> USE DEF redis, disk, memory, locals, history, BeforeIm, BeforeKc
<1>1. /\ pc \in [Threads -> Pcs] /\ im \in [Threads -> 0..MaxObjects] /\ objects \in Nat
      /\ \A u \in Threads : pc[u] \in BeforeIm \cup {"idle"} => im[u] = 0
  BY StoreAssumption DEF TypeOK, OneIssuer, MaxObjects
<1>2. \A u \in Threads \ {t} : pc'[u] = pc[u] /\ cert'[u] = cert[u] /\ im'[u] = im[u]
  BY StepsOfOne DEF OnlyMoves
<1>3. ASSUME UNCHANGED <<meta, seenItems>>, objects' \in {objects, objects + 1},
             im'[t] = 0 \/ (im'[t] = im[t] /\ cert'[t] = cert[t]
                             /\ (pc[t] \in BeforeIm \/ pc'[t] \notin BeforeIm \cup {"idle"}))
      PROVE  ImKept
  BY <1>1, <1>2, <1>3 DEF ImKept
<1>4. CASE Return(t) /\ UNCHANGED memory
  BY <1>1, <1>3, <1>4 DEF Return
<1>5. CASE Lookup(t)
  BY <1>1, <1>3, <1>5 DEF Lookup, GetKnownCertificates, NewKnownCertificates, NextObject
<1>6. CASE WasUnknown(t)
  BY <1>1, <1>3, <1>4, <1>6 DEF WasUnknown, SetInsert, SetInsertRetried, SetInsertFails,
    ReturnError, CheckExpirySet, ExpireAt
<1>7. CASE Accumulate(t)
  <2>1. CASE ReadSeen(t) \/ MarkDate(t) \/ KnownCrl(t) \/ UnknownCrl(t) \/ AddCRL(t)
    BY <1>1, <1>3, <2>1 DEF ReadSeen, MarkDate, KnownCrl, UnknownCrl, AddCRL
  <2>2. CASE CrlsDone(t) \/ AddIssuerDN(t)
    BY <1>1, <1>3, <2>2 DEF CrlsDone, AfterLoop, AfterAccumulate, AddIssuerDN
  <2>3. CASE AddIssuerDNFails(t) \/ AddCRLFails(t)
    BY <1>4, <2>3 DEF AddIssuerDNFails, AddCRLFails, ReturnError
  <2>4. CASE Lock(t) \/ RLock(t)
    BY <1>1, <1>3, <2>4 DEF Lock, RLock, AfterLock, AfterRLock
  <2> QED BY <1>7, <2>1, <2>2, <2>3, <2>4 DEF Accumulate
<1>8. CASE Write(t)
  BY <1>1, <1>3, <1>4, <1>8 DEF Write, AllocateExpDateAndIssuer, AllocateFails,
    StoreCertificatePEM, StoreCertificatePEMFails, MarkDirty, MarkDirtyFails, ReturnError
<1>9. CASE \E c \in Certs : Store(t, c)
  BY <1>1, <1>3, <1>9 DEF Store
<1> QED BY <1>5, <1>6, <1>7, <1>8, <1>9 DEF Step

(* Objects change hands only by GetIssuerMetadata and NewIssuerMetadata, and
   what they remember only by the two marks. *)
LEMMA RememberedStep ==
  ASSUME StateInv, MetaInv, [Next]_vars
  PROVE  OneIssuer' /\ Remembered'
<1> USE DEF redis, disk, memory, locals, history, MetaInv
<1>1. /\ TypeOK /\ PlaceInv /\ objects \in Nat /\ pc \in [Threads -> Pcs]
      /\ im \in [Threads -> 0..MaxObjects] /\ meta \in [Issuers -> 0..MaxObjects]
      /\ seenItems \in [Object -> SUBSET Items] /\ MaxObjects \in Nat
      /\ Object = 1..MaxObjects /\ Object \subseteq Nat
  BY StoreAssumption DEF StateInv, TypeInv, TypeOK, MaxObjects, Object
<1>2. \A t \in Threads : pc[t] # "idle" => cert[t] \in Certs /\ IssuerOf[cert[t]] \in Issuers
  BY NamesTyped DEF StateInv, WriterInv
<1>3. Accounted \subseteq Accounted'
  BY AccountsKept
<1>0. /\ \A t \in Threads : im[t] \in Nat /\ im[t] <= objects
      /\ \A i \in Issuers : meta[i] \in Nat /\ meta[i] <= objects
      /\ \A o \in Object : o \in Nat /\ (o > objects => seenItems[o] = {})
  BY <1>1 DEF OneIssuer
<1>4. ASSUME ImKept PROVE OneIssuer' /\ Remembered'
  <2>1. Remembered'
    BY <1>3, <1>4 DEF ImKept, Remembered
  <2>2. /\ \A u, v \in Threads : im'[u] # 0 /\ im'[u] = im'[v] => IssuerOf[cert'[u]] = IssuerOf[cert'[v]]
        /\ \A u \in Threads : \A i \in Issuers :
             meta'[i] # 0 /\ meta'[i] = im'[u] => i = IssuerOf[cert'[u]]
        /\ \A i, j \in Issuers : meta'[i] # 0 /\ meta'[i] = meta'[j] => i = j
    BY <1>4 DEF ImKept, OneIssuer
  <2>3. ASSUME NEW t \in Threads PROVE im'[t] <= objects'
    BY <1>0, <1>1, <1>4 DEF ImKept
  <2>4. ASSUME NEW i \in Issuers PROVE meta'[i] <= objects'
    BY <1>0, <1>1, <1>4 DEF ImKept
  <2>5. ASSUME NEW o \in Object, o > objects' PROVE seenItems'[o] = {}
    BY <1>0, <1>1, <1>4, <2>5 DEF ImKept
  <2>6. \A t \in Threads : pc'[t] \in BeforeIm \cup {"idle"} => im'[t] = 0
    BY <1>4 DEF ImKept
  <2> QED BY <2>1, <2>2, <2>3, <2>4, <2>5, <2>6 DEF OneIssuer
<1>5. ASSUME NEW t \in Threads, GetIssuerMetadata(t) PROVE OneIssuer' /\ Remembered'
  <2> DEFINE i == IssuerOf[cert[t]]
  <2>1. /\ i \in Issuers /\ im'[t] = meta[i]
        /\ \A u \in Threads \ {t} : im'[u] = im[u] /\ pc'[u] = pc[u]
        /\ pc'[t] = IF meta[i] = 0 THEN "newmeta" ELSE "seen"
        /\ UNCHANGED <<meta, seenItems, objects, cert>>
    BY <1>1, <1>2, <1>5 DEF GetIssuerMetadata
  <2>2. Remembered'
    BY <1>3, <2>1 DEF Remembered
  <2> QED BY <2>1, <2>2 DEF OneIssuer, BeforeIm, BeforeKc
<1>6. ASSUME NEW t \in Threads, NewIssuerMetadata(t) PROVE OneIssuer' /\ Remembered'
  <2> DEFINE i == IssuerOf[cert[t]]
  <2>1. /\ i \in Issuers /\ objects' = objects + 1 /\ objects + 1 \in Object
        /\ \A u \in Threads : im'[u] = IF u = t THEN objects + 1 ELSE im[u]
        /\ \A j \in Issuers : meta'[j] = IF j = i THEN objects + 1 ELSE meta[j]
        /\ \A u \in Threads \ {t} : pc'[u] = pc[u]
        /\ pc'[t] = "seen" /\ UNCHANGED <<seenItems, cert>>
    BY <1>1, <1>2, <1>6, RoomForObject DEF NewIssuerMetadata, NextObject, StateInv
  <2>2. /\ \A u \in Threads : im[u] # objects + 1 /\ im[u] <= objects + 1
        /\ \A j \in Issuers : meta[j] # objects + 1 /\ meta[j] <= objects + 1
        /\ seenItems[objects + 1] = {}
    BY <1>1, <2>1 DEF OneIssuer
  <2>3. Remembered'
    BY <1>3, <2>1, <2>2 DEF Remembered
  <2>4. /\ \A u, v \in Threads : im'[u] # 0 /\ im'[u] = im'[v] => IssuerOf[cert[u]] = IssuerOf[cert[v]]
        /\ \A u \in Threads : \A j \in Issuers :
             meta'[j] # 0 /\ meta'[j] = im'[u] => j = IssuerOf[cert[u]]
        /\ \A j, k \in Issuers : meta'[j] # 0 /\ meta'[j] = meta'[k] => j = k
    BY <2>1, <2>2 DEF OneIssuer
  <2>5. /\ \A u \in Threads : im'[u] <= objects'
        /\ \A j \in Issuers : meta'[j] <= objects'
    BY <1>1, <2>1, <2>2, SMTT(20)
  <2>6. ASSUME NEW o \in Object, o > objects' PROVE seenItems'[o] = {}
    BY <1>0, <1>1, <2>1, <2>6
  <2>7. \A u \in Threads : pc'[u] \in BeforeIm \cup {"idle"} => im'[u] = 0
    BY <2>1 DEF OneIssuer, BeforeIm, BeforeKc
  <2> QED BY <2>1, <2>3, <2>4, <2>5, <2>6, <2>7 DEF OneIssuer
<1>7. ASSUME NEW t \in Threads, MarkCrl(t) \/ MarkDn(t) PROVE OneIssuer' /\ Remembered'
  <2>1. PICK item \in Items : /\ seenItems' = [seenItems EXCEPT ![im[t]] = @ \cup {item}]
                              /\ \/ pc'[t] = "relock" /\ item = Head(todo[t])
                                 \/ pc'[t] = "adddn" /\ item = Dn
    <3>1. CASE MarkCrl(t)
      BY <1>1, <3>1, RestTyped DEF MarkCrl, PlaceInv, TypeOK
    <3>2. CASE MarkDn(t)
      BY <1>1, <3>2 DEF MarkDn, Items
    <3> QED BY <1>7, <3>1, <3>2
  <2>2. /\ UNCHANGED <<meta, im, objects, cert, todo>> /\ im[t] \in Object /\ cert[t] \in Certs
        /\ IssuerOf[cert[t]] \in Issuers
        /\ \A u \in Threads : pc'[u] = pc[u] \/ pc'[u] \in {"relock", "adddn"}
    BY <1>1, <1>2, <1>7 DEF MarkCrl, MarkDn, PlaceInv, UsesIm
  <2>3. <<IssuerOf[cert[t]], item>> \in Accounted'
    BY <2>1, <2>2 DEF Accounted, AboutToAdd
  <2>4. \A o \in Object : seenItems'[o] = IF o = im[t] THEN seenItems[o] \cup {item} ELSE seenItems[o]
    BY <1>1, <2>1, <2>2
  <2>5. Remembered'
    <3>1. ASSUME NEW u \in Threads, im[u] # 0, NEW x \in seenItems'[im[u]]
          PROVE  <<IssuerOf[cert[u]], x>> \in Accounted'
      <4>1. im[u] \in Object
        BY <1>1, <3>1
      <4>2. im[u] = im[t] => IssuerOf[cert[u]] = IssuerOf[cert[t]]
        BY <3>1 DEF OneIssuer
      <4> QED BY <1>3, <2>3, <2>4, <3>1, <4>1, <4>2 DEF Remembered
    <3>2. ASSUME NEW i \in Issuers, meta[i] # 0, NEW x \in seenItems'[meta[i]]
          PROVE  <<i, x>> \in Accounted'
      <4>1. meta[i] \in Object
        BY <1>1, <3>2
      <4>2. meta[i] = im[t] => i = IssuerOf[cert[t]]
        BY <3>2 DEF OneIssuer
      <4> QED BY <1>3, <2>3, <2>4, <3>2, <4>1, <4>2 DEF Remembered
    <3> QED BY <2>2, <3>1, <3>2 DEF Remembered
  <2>6. ASSUME NEW o \in Object, o > objects PROVE seenItems'[o] = {}
    <3>1. o # im[t]
      BY <1>0, <1>1, <2>6
    <3> QED BY <1>0, <2>4, <2>6, <3>1
  <2>7. \A u \in Threads : pc'[u] \in BeforeIm \cup {"idle"} => im'[u] = 0
    BY <2>2 DEF OneIssuer, BeforeIm, BeforeKc
  <2> QED BY <2>2, <2>5, <2>6, <2>7 DEF OneIssuer
<1>8. CASE Crash
  <2>1. /\ \A i \in Issuers : meta'[i] = 0
        /\ \A t \in Threads : im'[t] = 0
        /\ \A o \in Object : seenItems'[o] = {}
        /\ objects' = 0
    BY <1>8 DEF Crash
  <2> QED BY <2>1 DEF OneIssuer, Remembered
<1>9. CASE \/ \E k \in Keys : Evict(k)
           \/ \E d \in ExpDates : HourBegins(d)
           \/ Finished \/ UNCHANGED vars
  <2>1. UNCHANGED <<meta, seenItems, objects, pc, cert, im>>
    BY <1>9 DEF Evict, HourBegins, Finished, vars
  <2>2. \A u \in Threads : pc[u] \in BeforeIm \cup {"idle"} => im[u] = 0
    BY DEF OneIssuer
  <2>3. ImKept
    BY <1>1, <2>1, <2>2 DEF ImKept
  <2> QED BY <1>4, <2>3
<1>10. ASSUME NEW t \in Threads, Step(t) \/ \E c \in Certs : Store(t, c)
       PROVE  OneIssuer' /\ Remembered'
  BY <1>1, <1>4, <1>5, <1>6, <1>7, <1>10, ImKeptSteps
<1> QED BY <1>8, <1>9, <1>10 DEF Next

(* The loop strikes an item off its list only when it is accounted for. *)
LEMMA WorkedStep ==
  ASSUME StateInv, MetaInv, [Next]_vars
  PROVE  \A t \in Threads : WorkedBy(t)'
<1> USE DEF redis, disk, memory, locals, history
<1>1. /\ TypeOK /\ PlaceInv /\ pc \in [Threads -> Pcs] /\ todo \in [Threads -> Seq(Crls)]
      /\ dnBefore \in [Threads -> BOOLEAN] /\ cert \in [Threads -> Certs \cup {NoCert}]
      /\ \A t \in Threads : WorkedBy(t)
  BY DEF StateInv, TypeInv, TypeOK, MetaInv
<1>2. \A t \in Threads : pc[t] # "idle" => /\ cert[t] \in Certs /\ IssuerOf[cert[t]] \in Issuers
                                           /\ CrlsOf[cert[t]] \in Seq(Crls)
  BY NamesTyped DEF StateInv, WriterInv
<1>3. Accounted \subseteq Accounted'
  BY <1>1, AccountsKept
<1>4. ASSUME NEW t \in Threads,
             pc'[t] = pc[t], cert'[t] = cert[t], todo'[t] = todo[t], dnBefore'[t] = dnBefore[t]
      PROVE  WorkedBy(t)'
  BY <1>1, <1>3, <1>4 DEF WorkedBy, Pending
<1>5. ASSUME NEW t \in Threads,
             pc'[t] \notin InLoop \cup {"lockdn", "dn", "adddn", "alloc", "pem"}
      PROVE  WorkedBy(t)'
  BY <1>5 DEF WorkedBy, InLoop
<1>6. ASSUME NEW t \in Threads, UNCHANGED <<cert, todo, dnBefore>>,
             \/ pc[t] \in InLoop /\ pc'[t] \in InLoop
             \/ pc[t] = "lockdn" /\ pc'[t] = "dn"
             \/ pc[t] = "dn" /\ pc'[t] = "adddn"
             \/ pc[t] = "alloc" /\ pc'[t] = "pem"
      PROVE  WorkedBy(t)'
  BY <1>1, <1>3, <1>6 DEF WorkedBy, Pending, InLoop
<1>7. ASSUME NEW t \in Threads, Return(t) PROVE WorkedBy(t)'
  BY <1>1, <1>5, <1>7 DEF Return, InLoop
<1>8. ASSUME NEW t \in Threads, Step(t) \/ \E c \in Certs : Store(t, c) PROVE WorkedBy(t)'
  <2>1. CASE Lookup(t)
    BY <1>1, <1>5, <2>1 DEF Lookup, GetKnownCertificates, NewKnownCertificates, InLoop
  <2>2. CASE WasUnknown(t)
    BY <1>1, <1>5, <1>7, <2>2 DEF WasUnknown, SetInsert, SetInsertRetried, SetInsertFails,
      ReturnError, CheckExpirySet, ExpireAt, AfterWasUnknown, InLoop
  <2>3. CASE GetIssuerMetadata(t) \/ NewIssuerMetadata(t)
    BY <1>1, <1>5, <2>3 DEF GetIssuerMetadata, NewIssuerMetadata, InLoop
  <2>4. CASE ReadSeen(t)
    <3>1. /\ pc'[t] \in {"rlock", "lockdate"} /\ todo'[t] = CrlsOf[cert[t]] /\ cert' = cert
          /\ dnBefore'[t] = (Dn \in seenItems[im[t]]) /\ im[t] # 0
      BY <1>1, <2>4 DEF ReadSeen, PlaceInv, UsesIm
    <3>2. dnBefore'[t] => <<IssuerOf[cert[t]], Dn>> \in Accounted
      BY <3>1 DEF MetaInv, Remembered
    <3>3. ItemsOf(cert[t]) = ItemsIn(CrlsOf[cert[t]]) \cup {Dn}
      BY DEF ItemsOf, ItemsIn
    <3> QED BY <1>3, <3>1, <3>2, <3>3 DEF WorkedBy, Pending, InLoop
  <2>5. CASE MarkDate(t) \/ UnknownCrl(t) \/ MarkCrl(t) \/ MarkDn(t) \/ AllocateExpDateAndIssuer(t)
    BY <1>1, <1>6, <2>5 DEF MarkDate, UnknownCrl, MarkCrl, MarkDn, AllocateExpDateAndIssuer, InLoop
  <2>6. CASE KnownCrl(t) \/ AddCRL(t)
    <3>1. /\ pc[t] \in InLoop /\ pc'[t] \in InLoop /\ pc[t] # "idle" /\ todo[t] # <<>>
          /\ todo'[t] = Tail(todo[t]) /\ UNCHANGED <<cert, dnBefore>>
      BY <1>1, <2>6 DEF KnownCrl, AddCRL, RestOfLoop, InLoop, PlaceInv
    <3>2. ItemsIn(todo[t]) = {Head(todo[t])} \cup ItemsIn(todo'[t])
      BY <1>1, <3>1, ItemsOfLoop
    <3>3. <<IssuerOf[cert[t]], Head(todo[t])>> \in Accounted'
      <4>1. CASE KnownCrl(t)
        BY <1>1, <1>3, <4>1 DEF KnownCrl, MetaInv, Remembered, PlaceInv, UsesIm
      <4>2. CASE AddCRL(t)
        BY <1>1, <1>2, <3>1, <4>2, RestTyped DEF AddCRL, Accounted
      <4> QED BY <2>6, <4>1, <4>2
    <3>4. ItemsIn(todo'[t]) \subseteq ItemsIn(CrlsOf[cert'[t]])
      BY <1>1, <3>1, <3>2 DEF WorkedBy
    <3>5. ASSUME NEW item \in ItemsOf(cert[t]), item \notin ItemsIn(todo'[t]), item = Dn => dnBefore[t]
          PROVE  <<IssuerOf[cert[t]], item>> \in Accounted'
      BY <1>1, <1>3, <3>1, <3>2, <3>3, <3>5 DEF WorkedBy, Pending
    <3> QED BY <3>1, <3>4, <3>5 DEF WorkedBy, Pending
  <2>7. CASE CrlsDone(t)
    <3>1. /\ pc[t] = "crls" /\ ItemsIn(todo[t]) = {} /\ UNCHANGED <<cert, todo, dnBefore>>
          /\ pc'[t] \in {"lockdn", "alloc", "pem"} /\ (pc'[t] = "lockdn" \/ dnBefore[t])
      BY <1>1, <2>7 DEF CrlsDone, AfterLoop, AfterAccumulate, ItemsIn
    <3> QED BY <1>1, <1>3, <3>1 DEF WorkedBy, Pending, InLoop
  <2>8. CASE AddIssuerDN(t)
    <3>1. /\ pc[t] = "adddn" /\ pc'[t] \in {"alloc", "pem"} /\ UNCHANGED <<cert, todo, dnBefore>>
          /\ <<IssuerOf[cert[t]], Dn>> \in Accounted'
      BY <1>1, <1>2, <2>8 DEF AddIssuerDN, AfterAccumulate, Accounted, Items
    <3> QED BY <1>1, <1>3, <3>1 DEF WorkedBy, Pending, InLoop
  <2>9. CASE AddCRLFails(t) \/ AddIssuerDNFails(t)
    BY <1>7, <2>9 DEF AddCRLFails, AddIssuerDNFails, ReturnError
  <2>10. CASE Write(t) /\ ~AllocateExpDateAndIssuer(t)
    BY <1>1, <1>5, <1>7, <2>10 DEF Write, AllocateFails, StoreCertificatePEM,
      StoreCertificatePEMFails, MarkDirty, MarkDirtyFails, ReturnError, InLoop
  <2>11. CASE \E c \in Certs : Store(t, c)
    BY <1>1, <1>5, <2>11 DEF Store, InLoop
  <2>12. CASE Lock(t) \/ RLock(t)
    BY <1>1, <1>6, <2>12 DEF Lock, RLock, AfterLock, AfterRLock, InLoop
  <2> QED BY <1>8, <2>1, <2>2, <2>3, <2>4, <2>5, <2>6, <2>7, <2>8, <2>9, <2>10, <2>11, <2>12
          DEF Step, Accumulate
<1>9. ASSUME NEW t \in Threads, NEW u \in Threads \ {t}, Step(t) \/ \E c \in Certs : Store(t, c)
      PROVE  WorkedBy(u)'
  BY <1>1, <1>4, <1>9, StepsOfOne DEF OnlyMoves
<1>10. CASE Crash
  BY <1>5, <1>10 DEF Crash, InLoop
<1>11. CASE \/ \E k \in Keys : Evict(k)
            \/ \E d \in ExpDates : HourBegins(d)
            \/ Finished \/ UNCHANGED vars
  BY <1>4, <1>11 DEF Evict, HourBegins, Finished, vars
<1> QED BY <1>8, <1>9, <1>10, <1>11 DEF Next

LEMMA MetaInvHolds == Spec => []MetaInv
<1>1. Init => MetaInv
  BY DEF Init, MetaInv, OneIssuer, Remembered, MetaRecorded, WorkedBy, InLoop
<1>2. StateInv /\ MetaInv /\ [Next]_vars => MetaInv'
  <2> SUFFICES ASSUME StateInv, MetaInv, [Next]_vars PROVE MetaInv'
    OBVIOUS
  <2> USE DEF redis, disk, memory, locals, history
  <2>1. Accounted \subseteq Accounted'
    BY AccountsKept DEF MetaInv
  <2>2. \A c \in pem' : c \in pem \/ \E t \in Threads : StoreCertificatePEM(t) /\ c = cert[t]
    <3>1. ASSUME NEW t \in Threads, Step(t), ~StoreCertificatePEM(t) PROVE pem' \subseteq pem
      <4>1. CASE Lookup(t) \/ WasUnknown(t)
        BY <4>1 DEF Lookup, GetKnownCertificates, NewKnownCertificates, WasUnknown, SetInsert,
          SetInsertRetried, SetInsertFails, CheckExpirySet, ExpireAt
      <4>2. CASE Accumulate(t)
        BY <4>2 DEF Accumulate, GetIssuerMetadata, NewIssuerMetadata, Lock, RLock, ReadSeen, MarkDate,
          KnownCrl, UnknownCrl, MarkCrl, AddCRL, AddCRLFails, CrlsDone, MarkDn, AddIssuerDN, AddIssuerDNFails
      <4>3. CASE Write(t)
        BY <3>1, <4>3 DEF Write, AllocateExpDateAndIssuer, AllocateFails,
          StoreCertificatePEMFails, MarkDirty, MarkDirtyFails
      <4> QED BY <3>1, <4>1, <4>2, <4>3 DEF Step
    <3>2. CASE \/ \E t \in Threads : \E c \in Certs : Store(t, c)
               \/ \E k \in Keys : Evict(k)
               \/ \E d \in ExpDates : HourBegins(d)
               \/ Crash \/ Finished \/ UNCHANGED vars
      BY <3>2 DEF Store, Evict, HourBegins, Crash, Finished, vars
    <3>3. ASSUME NEW t \in Threads, StoreCertificatePEM(t) PROVE pem' = pem \cup {cert[t]}
      BY <3>3 DEF StoreCertificatePEM
    <3> QED BY <3>1, <3>2, <3>3 DEF Next
  <2>3. ASSUME NEW t \in Threads, StoreCertificatePEM(t), NEW item \in ItemsOf(cert[t])
        PROVE  <<IssuerOf[cert[t]], item>> \in Accounted
    BY <2>3 DEF StoreCertificatePEM, MetaInv, WorkedBy, Pending, InLoop
  <2>4. ASSUME NEW c \in pem, NEW item \in ItemsOf(c)
        PROVE  <<IssuerOf[c], item>> \in Accounted
    <3>1. c \in Certs
      BY DEF StateInv, TypeInv, TypeOK
    <3>2. IssuerOf[c] \in Issuers /\ CrlsOf[c] \in Seq(Crls)
      BY <3>1, NamesTyped
    <3>3. item \in Items
      BY <3>2 DEF ItemsOf, Items
    <3> QED BY <3>2, <3>3 DEF MetaInv, MetaRecorded, Accounted
  <2>5. MetaRecorded'
    <3>1. \A p \in Accounted' : \/ <<p[1], p[2]>> \in metadata'
                                \/ AboutToAdd(p[1], p[2])'
                                \/ \E d \in excused' : IssuerOf[d] = p[1] /\ p[2] \in ItemsOf(d)
      BY DEF Accounted
    <3> QED BY <2>1, <2>2, <2>3, <2>4, <3>1 DEF MetaRecorded
  <2> QED BY <2>5, RememberedStep, WorkedStep DEF MetaInv
<1> QED BY <1>1, <1>2, StateInvHolds, PTL DEF Spec

(* Once a PEM is on disk, each of its CRL distribution points and its issuer's
   name is in Redis, or in the hands of the thread that marked it as known, or
   owed by a call that met a fault: marking before writing, one metadata object
   replacing another, Redis failures and kills included. *)
THEOREM MetaRecordedHolds == Spec => []MetaRecorded
<1>1. MetaInv => MetaRecorded
  BY DEF MetaInv
<1> QED BY <1>1, MetaInvHolds, PTL
=============================================================================

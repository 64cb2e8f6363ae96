-------------------------- MODULE StatisticsProofs --------------------------
(***************************************************************************)
(* Proofs about Statistics, for every finite set of certificates, however  *)
(* often the scan of the keys repeats one: what the walk over issuers and  *)
(* hours has still to count, against what it has counted and printed.      *)
(***************************************************************************)
EXTENDS Statistics, TLAPS, FiniteSetTheorems

DatesIn(q) == {q[n] : n \in 1..Len(q)}
NoDup(q) == \A m, n \in 1..Len(q) : q[m] = q[n] => m = n

LEMMA DatesEmpty == DatesIn(<<>>) = {} /\ NoDup(<<>>)
  BY DEF DatesIn, NoDup

LEMMA DatesTail ==
  ASSUME NEW q \in Seq(ExpDates), q # <<>>
  PROVE  /\ Head(q) \in ExpDates /\ Tail(q) \in Seq(ExpDates)
         /\ DatesIn(q) = {Head(q)} \cup DatesIn(Tail(q))
         /\ NoDup(q) => NoDup(Tail(q)) /\ Head(q) \notin DatesIn(Tail(q))
<1>1. /\ Len(q) \in Nat /\ Len(q) >= 1 /\ Head(q) = q[1] /\ Len(Tail(q)) = Len(q) - 1
      /\ Head(q) \in ExpDates /\ Tail(q) \in Seq(ExpDates)
  OBVIOUS
<1>2. \A n \in 1..Len(Tail(q)) : n + 1 \in 1..Len(q) /\ Tail(q)[n] = q[n + 1]
  BY <1>1
<1>3. \A n \in 1..Len(q) : n = 1 \/ (n - 1 \in 1..Len(Tail(q)) /\ Tail(q)[n - 1] = q[n])
  <2> SUFFICES ASSUME NEW n \in 1..Len(q), n # 1
               PROVE  n - 1 \in 1..Len(Tail(q)) /\ Tail(q)[n - 1] = q[n]
    OBVIOUS
  <2>1. n - 1 \in 1..Len(Tail(q)) /\ (n - 1) + 1 = n
    BY <1>1
  <2>2. Tail(q)[n - 1] = q[(n - 1) + 1]
    BY <1>2, <2>1
  <2> QED BY <2>1, <2>2
<1>4. DatesIn(q) \subseteq {Head(q)} \cup DatesIn(Tail(q))
  BY <1>1, <1>3 DEF DatesIn
<1>5. {Head(q)} \cup DatesIn(Tail(q)) \subseteq DatesIn(q)
  BY <1>1, <1>2 DEF DatesIn
<1>6. NoDup(q) => NoDup(Tail(q)) /\ Head(q) \notin DatesIn(Tail(q))
  <2> SUFFICES ASSUME NoDup(q) PROVE NoDup(Tail(q)) /\ Head(q) \notin DatesIn(Tail(q))
    OBVIOUS
  <2>1. ASSUME NEW m \in 1..Len(Tail(q)), NEW n \in 1..Len(Tail(q)), Tail(q)[m] = Tail(q)[n]
        PROVE  m = n
    <3>1. m + 1 = n + 1
      BY <1>2, <2>1 DEF NoDup
    <3> QED BY <1>1, <3>1
  <2>2. ASSUME NEW n \in 1..Len(Tail(q)), Tail(q)[n] = Head(q) PROVE FALSE
    <3>1. n + 1 = 1
      BY <1>1, <1>2, <2>2 DEF NoDup
    <3> QED BY <1>1, <3>1
  <2> QED BY <2>1, <2>2 DEF NoDup, DatesIn
<1> QED BY <1>1, <1>4, <1>5, <1>6

LEMMA DatesAppend ==
  ASSUME NEW q \in Seq(ExpDates), NEW d \in ExpDates
  PROVE  /\ Append(q, d) \in Seq(ExpDates) /\ Len(Append(q, d)) = Len(q) + 1
         /\ DatesIn(Append(q, d)) = DatesIn(q) \cup {d}
         /\ NoDup(q) /\ d \notin DatesIn(q) => NoDup(Append(q, d))
<1> DEFINE r == Append(q, d)
<1>1. /\ r \in Seq(ExpDates) /\ Len(r) = Len(q) + 1 /\ Len(q) \in Nat
      /\ \A n \in 1..Len(q) : r[n] = q[n]
      /\ r[Len(q) + 1] = d
  OBVIOUS
<1> HIDE DEF r
<1>2. \A n \in 1..Len(r) : n \in 1..Len(q) \/ n = Len(q) + 1
  BY <1>1
<1>3. \A n \in 1..Len(q) : n \in 1..Len(r)
  BY <1>1
<1>4. Len(q) + 1 \in 1..Len(r)
  BY <1>1
<1>5. DatesIn(r) = DatesIn(q) \cup {d}
  BY <1>1, <1>2, <1>3, <1>4 DEF DatesIn
<1>6. NoDup(q) /\ d \notin DatesIn(q) => NoDup(r)
  BY <1>1, <1>2 DEF NoDup, DatesIn
<1> QED BY <1>1, <1>5, <1>6 DEF r
-----------------------------------------------------------------------------
(* The part of the current list that is to be counted, which in a running Known
   is all but its head. *)
ToGo == IF pc = "known" THEN Tail(dates) ELSE dates

(* The keys that are still to be counted, and still to be printed. *)
LeftOf(q) == {k \in Keys : \/ k[2] \in todo /\ k[1] \in DatesIn(issuerMap[k[2]])
                           \/ k[2] = issuer /\ k[1] \in DatesIn(q)}
ToCount == LeftOf(ToGo)
ToPrint == LeftOf(dates)
CountedStayed == {c \in stayed : Key(c) \notin ToCount}
CountedEver == {c \in ever : Key(c) \notin ToCount}

(* The hours scanned for an issuer bound its list, but for repeats. *)
HoursOf(i) == {d \in ExpDates : <<d, i>> \in scanned}

TypeInv ==
  /\ TypeOK
  /\ \A i \in Issuers : Len(issuerMap[i]) <= Cardinality(HoursOf(i)) + repeats
  /\ pc = "known" => dates # <<>>

LEMMA Finite ==
  /\ IsFiniteSet(ExpDates)
  /\ \A S \in SUBSET Certs : IsFiniteSet(S) /\ Cardinality(S) \in Nat
<1>1. IsFiniteSet(ExpDates)
  <2> DEFINE f == [c \in Certs |-> ExpDateOf[c]]
  <2>1. f \in Surjection(Certs, ExpDates)
    BY DEF Surjection, ExpDates
  <2> QED BY <2>1, FS_Surjection, StatisticsAssumption
<1>2. \A S \in SUBSET Certs : IsFiniteSet(S)
  BY FS_Subset, StatisticsAssumption
<1> QED BY <1>1, <1>2, FS_CardinalityType

LEMMA HoursFinite ==
  ASSUME NEW i
  PROVE  /\ IsFiniteSet(HoursOf(i)) /\ Cardinality(HoursOf(i)) \in Nat
         /\ Cardinality(ExpDates) \in Nat /\ Cardinality(HoursOf(i)) <= Cardinality(ExpDates)
<1>1. HoursOf(i) \in SUBSET ExpDates
  BY DEF HoursOf
<1>2. IsFiniteSet(HoursOf(i)) /\ Cardinality(HoursOf(i)) <= Cardinality(ExpDates)
  BY <1>1, Finite, FS_Subset
<1> QED BY <1>2, Finite, FS_CardinalityType

LEMMA KeyTyped == ASSUME NEW c \in Certs PROVE Key(c) \in Keys
  BY DEF Key, Keys, ExpDates, Issuers

LEMMA TypeInvStep == TypeInv /\ [Next]_vars => TypeInv'
<1> SUFFICES ASSUME TypeInv, [Next]_vars PROVE TypeInv'
  OBVIOUS
<1> USE DEF redis, walk, listing, scan, TypeInv
<1>1. ASSUME NEW k \in Keys, KeyScanned(k) PROVE TypeInv'
  <2> DEFINE i == k[2]
             d == k[1]
  <2>1. i \in Issuers /\ d \in ExpDates /\ k = <<d, i>> /\ issuerMap[i] \in Seq(ExpDates)
    BY DEF Keys, TypeOK
  <2>2. /\ issuerMap' = [issuerMap EXCEPT ![i] = Append(issuerMap[i], d)]
        /\ scanned' = scanned \cup {k}
        /\ repeats' = IF k \in scanned THEN repeats + 1 ELSE repeats
        /\ repeats \in Nat /\ MaxRepeats \in Nat /\ repeats' \in 0..MaxRepeats
        /\ UNCHANGED <<serials, stayed, ever, got, stay, printed, pc, dying, failed, todo, issuer,
                       dates, total>>
    BY <1>1, StatisticsAssumption DEF KeyScanned, DatesWith, TypeOK
  <2>3. ASSUME NEW j \in Issuers PROVE Len(issuerMap'[j]) <= Cardinality(HoursOf(j)') + repeats'
    <3>1. /\ Len(issuerMap[j]) \in Nat /\ Cardinality(HoursOf(j)) \in Nat
          /\ Len(issuerMap[j]) <= Cardinality(HoursOf(j)) + repeats
      BY HoursFinite DEF TypeOK
    <3>2. CASE j # i
      <4>1. HoursOf(j)' = HoursOf(j) /\ issuerMap'[j] = issuerMap[j]
        BY <2>1, <2>2, <3>2 DEF HoursOf, TypeOK
      <4>2. repeats <= repeats' /\ repeats \in Nat /\ repeats' \in Nat
        BY <2>2
      <4>3. Len(issuerMap'[j]) <= Cardinality(HoursOf(j)) + repeats'
        BY <3>1, <4>1, <4>2
      <4> QED BY <4>1, <4>3
    <3>3. CASE j = i /\ k \in scanned
      <4>1. HoursOf(j)' = HoursOf(j)
        BY <2>2, <3>3 DEF HoursOf
      <4>2. Len(issuerMap'[j]) = Len(issuerMap[j]) + 1
        BY <2>1, <2>2, <3>3, DatesAppend DEF TypeOK
      <4> QED BY <2>2, <3>1, <3>3, <4>1, <4>2
    <3>4. CASE j = i /\ k \notin scanned
      <4>1. HoursOf(j)' = HoursOf(j) \cup {d} /\ d \notin HoursOf(j)
        BY <2>1, <2>2, <3>4 DEF HoursOf
      <4>2. Cardinality(HoursOf(j)') = Cardinality(HoursOf(j)) + 1
        BY <4>1, HoursFinite, FS_AddElement
      <4>3. Len(issuerMap'[j]) = Len(issuerMap[j]) + 1
        BY <2>1, <2>2, <3>4, DatesAppend DEF TypeOK
      <4> QED BY <2>2, <3>1, <3>4, <4>2, <4>3
    <3> QED BY <3>2, <3>3, <3>4
  <2>4. issuerMap' \in [Issuers -> Seq(ExpDates)]
    BY <2>1, <2>2, DatesAppend DEF TypeOK
  <2>5. ASSUME NEW j \in Issuers
        PROVE  Len(issuerMap'[j]) <= Cardinality(ExpDates) + MaxRepeats
    <3>1. /\ Cardinality(HoursOf(j)') <= Cardinality(ExpDates) /\ Cardinality(ExpDates) \in Nat
          /\ Cardinality(HoursOf(j)') \in Nat
      <4>1. HoursOf(j)' \in SUBSET ExpDates
        BY DEF HoursOf
      <4>2. IsFiniteSet(HoursOf(j)') /\ Cardinality(HoursOf(j)') <= Cardinality(ExpDates)
        BY <4>1, Finite, FS_Subset
      <4> QED BY <4>2, Finite, FS_CardinalityType
    <3>2. Len(issuerMap'[j]) \in Nat /\ Len(issuerMap'[j]) <= Cardinality(HoursOf(j)') + repeats'
      BY <2>3, <2>4
    <3> QED BY <2>2, <3>1, <3>2, SMTT(20)
  <2>6. scanned' \subseteq Keys
    BY <2>2 DEF TypeOK
  <2> QED BY <2>2, <2>3, <2>4, <2>5, <2>6 DEF TypeOK
<1>2. ASSUME UNCHANGED <<issuerMap, scan>>,
             {serials', stayed', ever', got', stay', printed'} \subseteq SUBSET Certs,
             pc' \in {"list", "issuers", "dates", "known", "done", "dead"},
             dying' \in BOOLEAN, failed' \in BOOLEAN, todo' \subseteq Issuers, issuer' \in Issuers,
             dates' \in Seq(ExpDates), total' \in Nat, pc' = "known" => dates' # <<>>
      PROVE  TypeInv'
  BY <1>2 DEF TypeOK, HoursOf
<1>3. CASE Count \/ CountFails
  <2>1. {Head(dates)} \subseteq ExpDates /\ Tail(dates) \in Seq(ExpDates) /\ dates # <<>>
    BY <1>3, DatesTail DEF Count, CountFails, TypeOK
  <2>2. Members(<<Head(dates), issuer>>) \in SUBSET Certs
    BY DEF Members, TypeOK
  <2>3. total' \in Nat
    <3>1. total \in Nat /\ Cardinality(Members(<<Head(dates), issuer>>)) \in Nat
      BY <2>2, Finite DEF TypeOK
    <3> QED BY <1>3, <3>1 DEF Count, CountFails, NewTotal
  <2>4. /\ UNCHANGED <<issuerMap, scan, serials, stayed, ever, printed, todo, issuer, dying>>
        /\ got' \subseteq Certs /\ stay' \subseteq Certs /\ failed' \in BOOLEAN
        /\ \/ pc' = "known" /\ dates' = dates
           \/ pc' = pc /\ pc = "dates" /\ dates' = Tail(dates)
    BY <1>3, <2>2 DEF Count, CountFails, AfterCount, RestOfDates, TypeOK
  <2> QED BY <1>2, <2>1, <2>3, <2>4 DEF TypeOK
<1>4. CASE KeysScanned \/ KeyScanFails \/ SetListFails \/ IssuerDone \/ Report \/ Fatal
  BY <1>2, <1>4 DEF KeysScanned, KeyScanFails, SetListFails, IssuerDone, Report, Fatal, TypeOK,
    IssuerList
<1>5. ASSUME NEW i \in Issuers, VisitIssuer(i) PROVE TypeInv'
  BY <1>2, <1>5 DEF VisitIssuer, Visited, TypeOK
<1>6. ASSUME NEW c \in Certs, SerialScanned(c) \/ Insert(c) PROVE TypeInv'
  BY <1>2, <1>6 DEF SerialScanned, Insert, TypeOK
<1>7. CASE SerialsScanned \/ SerialScanFails
  <2>1. Tail(dates) \in Seq(ExpDates)
    BY <1>7, DatesTail DEF SerialsScanned, SerialScanFails, TypeOK
  <2> QED BY <1>2, <1>7, <2>1 DEF SerialsScanned, SerialScanFails, KnownReturns, RestOfDates, TypeOK
<1>8. ASSUME NEW k \in Keys, Expire(k) PROVE TypeInv'
  BY <1>2, <1>8 DEF Expire, TypeOK
<1>9. CASE Ended \/ UNCHANGED vars
  BY <1>2, <1>9 DEF Ended, vars, TypeOK
<1> QED BY <1>1, <1>3, <1>4, <1>5, <1>6, <1>7, <1>8, <1>9 DEF Next, Main

LEMMA TypeInvHolds == Spec => []TypeInv
<1>1. Init => TypeInv
  <2> SUFFICES ASSUME Init PROVE TypeInv
    OBVIOUS
  <2>1. /\ Cardinality(ExpDates) \in Nat /\ MaxRepeats \in Nat
        /\ \A i : Cardinality(HoursOf(i)) \in Nat
    BY HoursFinite, StatisticsAssumption
  <2>2. <<>> \in Seq(ExpDates) /\ Len(<<>>) = 0
    OBVIOUS
  <2>3. \A i \in Issuers : issuerMap[i] = <<>>
    BY DEF Init
  <2>4. TypeOK
    <3>1. issuerMap \in [Issuers -> Seq(ExpDates)]
      BY <2>2 DEF Init
    <3>2. \A i \in Issuers : Len(issuerMap[i]) <= Cardinality(ExpDates) + MaxRepeats
      BY <2>1, <2>2, <2>3
    <3>3. {serials, stayed, ever, got, stay, printed} \subseteq SUBSET Certs
      BY DEF Init
    <3>4. dates \in Seq(ExpDates) /\ repeats \in 0..MaxRepeats
      BY <2>1, <2>2 DEF Init
    <3> QED BY <3>1, <3>2, <3>3, <3>4 DEF Init, TypeOK
  <2>5. repeats = 0 /\ pc # "known"
    BY DEF Init
  <2>6. ASSUME NEW i \in Issuers PROVE Len(issuerMap[i]) <= Cardinality(HoursOf(i)) + repeats
    <3>1. Len(issuerMap[i]) = 0 /\ Cardinality(HoursOf(i)) \in Nat
      BY <2>1, <2>2, <2>3
    <3> QED BY <2>5, <3>1
  <2> QED BY <2>4, <2>5, <2>6 DEF TypeInv
<1> QED BY <1>1, TypeInvStep, PTL DEF Spec

(* Every variable keeps its type; above all, the list of hours of an issuer is
   no longer than the hours there are and the repeats of the scan, though
   GetIssuerAndDatesFromCache appends without looking. *)
THEOREM TypeCorrect == Spec => []TypeOK
<1>1. TypeInv => TypeOK
  BY DEF TypeInv
<1> QED BY <1>1, TypeInvHolds, PTL
-----------------------------------------------------------------------------
(* Whatever stays in Redis has its key in the lists, and is counted, and
   printed, unless its key is still to come. *)
StayInv ==
  /\ stayed \subseteq serials /\ serials \subseteq ever
  /\ pc \in {"list", "issuers", "done"} => dates = <<>>
  /\ pc \in {"list", "done"} => todo = {}
  /\ pc = "list" => total = 0
  /\ dying \/ pc = "dead" => failed
  /\ \A k \in scanned : k[1] \in DatesIn(issuerMap[k[2]])
  /\ pc # "list" /\ ~failed =>
       /\ total >= Cardinality(CountedStayed)
       /\ Verbose => {c \in stayed : Key(c) \notin ToPrint} \subseteq printed
  /\ pc = "known" => {c \in stayed : Key(c) = <<Head(dates), issuer>>} \subseteq stay

(* Without repeats no list has a key twice, and no key is counted twice. *)
OnceInv ==
  /\ \A i \in Issuers : \A d \in DatesIn(issuerMap[i]) : <<d, i>> \in scanned
  /\ pc \in {"dates", "known"} => issuer \notin todo
  /\ repeats = 0 =>
       /\ \A i \in Issuers : NoDup(issuerMap[i])
       /\ NoDup(dates)
       /\ pc # "dead" => total <= Cardinality(CountedEver)
       /\ total <= Cardinality(ever)

(* What counting one key does to what is left, whether Known follows or not. *)
Counts(k) ==
  /\ k = <<Head(dates), issuer>> /\ pc = "dates" /\ dates # <<>>
  /\ UNCHANGED <<redis, issuerMap, todo, issuer, scan, printed, dying>>
  /\ \/ Verbose /\ pc' = "known" /\ dates' = dates /\ stay' = Members(k)
     \/ ~Verbose /\ pc' = "dates" /\ dates' = Tail(dates)

LEMMA CountsSteps ==
  ASSUME Count \/ CountFails
  PROVE  Counts(<<Head(dates), issuer>>)
  BY DEF Count, CountFails, AfterCount, RestOfDates, Counts, redis, scan, listing

(* Counting a key strikes it off what is to be counted; it comes again only if
   the list has it twice. *)
LEMMA CountsOne ==
  ASSUME TypeInv, NEW k, Counts(k)
  PROVE  /\ k \in Keys /\ ToCount = ToCount' \cup {k}
         /\ NoDup(dates) /\ issuer \notin todo => k \notin ToCount'
<1>1. /\ dates \in Seq(ExpDates) /\ dates # <<>> /\ issuer \in Issuers
  BY DEF TypeInv, TypeOK, Counts
<1>2. /\ Head(dates) \in ExpDates /\ DatesIn(dates) = {Head(dates)} \cup DatesIn(Tail(dates))
      /\ NoDup(dates) => Head(dates) \notin DatesIn(Tail(dates))
  BY <1>1, DatesTail
<1>3. ToCount = LeftOf(dates)
  BY DEF ToCount, ToGo, Counts
<1>4. ToCount' = LeftOf(Tail(dates))
  BY DEF ToCount, ToGo, Counts, LeftOf
<1>5. /\ k = <<Head(dates), issuer>> /\ k[1] = Head(dates) /\ k[2] = issuer /\ k \in Keys
      /\ \A j \in Keys : j = <<j[1], j[2]>>
  BY <1>1, <1>2 DEF Counts, Keys
<1>6. LeftOf(dates) = LeftOf(Tail(dates)) \cup {k}
  BY <1>2, <1>5 DEF LeftOf
<1>7. NoDup(dates) /\ issuer \notin todo => k \notin LeftOf(Tail(dates))
  BY <1>2, <1>5 DEF LeftOf
<1> QED BY <1>3, <1>4, <1>5, <1>6, <1>7

(* The steps that count nothing leave what is to be counted as it is. *)
LEMMA SameToCount ==
  ASSUME StayInv,
         \/ \E i \in Issuers : VisitIssuer(i)
         \/ IssuerDone \/ Report \/ SerialsScanned \/ SerialScanFails
         \/ \E c \in Certs : SerialScanned(c) \/ Insert(c)
         \/ \E k \in Keys : Expire(k)
         \/ UNCHANGED vars
  PROVE  ToCount' = ToCount
<1> USE DEF redis, walk, listing, scan
<1>1. ASSUME NEW i \in Issuers, VisitIssuer(i) PROVE ToCount' = ToCount
  <2>1. /\ dates = <<>> /\ dates' = issuerMap[i] /\ issuer' = i /\ todo' = todo \ {i} /\ i \in todo
        /\ issuerMap' = issuerMap /\ pc = "issuers" /\ pc' = "dates"
    BY <1>1 DEF VisitIssuer, Visited, StayInv
  <2> QED BY <2>1, DatesEmpty DEF ToCount, ToGo, LeftOf
<1>2. CASE IssuerDone \/ Report \/ SerialsScanned \/ SerialScanFails
  BY <1>2 DEF IssuerDone, Report, SerialsScanned, SerialScanFails, KnownReturns, RestOfDates,
    ToCount, ToGo, LeftOf
<1>3. CASE \/ \E c \in Certs : SerialScanned(c) \/ Insert(c)
           \/ \E k \in Keys : Expire(k)
           \/ UNCHANGED vars
  BY <1>3 DEF SerialScanned, Insert, Expire, vars, ToCount, ToGo, LeftOf
<1> QED BY <1>1, <1>2, <1>3

LEMMA StayInvStep == TypeInv /\ StayInv /\ [Next]_vars => StayInv'
<1> SUFFICES ASSUME TypeInv, StayInv, [Next]_vars PROVE StayInv'
  OBVIOUS
<1> USE DEF redis, walk, listing, scan
<1>1. /\ {serials, stayed, ever} \subseteq SUBSET Certs /\ total \in Nat /\ issuer \in Issuers
      /\ issuerMap \in [Issuers -> Seq(ExpDates)] /\ dates \in Seq(ExpDates) /\ scanned \subseteq Keys
  BY DEF TypeInv, TypeOK
<1>2. CountedStayed \in SUBSET Certs /\ Cardinality(CountedStayed) \in Nat /\ IsFiniteSet(CountedStayed)
  BY <1>1, Finite DEF CountedStayed
<1>3. ASSUME NEW k \in Keys, KeyScanned(k) PROVE StayInv'
  <2>1. /\ issuerMap' = [issuerMap EXCEPT ![k[2]] = Append(issuerMap[k[2]], k[1])]
        /\ scanned' = scanned \cup {k} /\ k[1] \in ExpDates /\ k[2] \in Issuers /\ pc = "list"
        /\ UNCHANGED <<serials, stayed, ever, pc, dying, todo, dates, total, failed>>
    BY <1>3 DEF KeyScanned, DatesWith, Keys
  <2>2. DatesIn(Append(issuerMap[k[2]], k[1])) = DatesIn(issuerMap[k[2]]) \cup {k[1]}
    BY <1>1, <2>1, DatesAppend
  <2>3. \A j \in scanned' : j[2] \in Issuers
    BY <1>1, <2>1 DEF Keys
  <2>4. \A j \in scanned' : j[1] \in DatesIn(issuerMap'[j[2]])
    BY <1>1, <2>1, <2>2, <2>3 DEF StayInv
  <2> QED BY <2>1, <2>4 DEF StayInv
<1>4. CASE KeysScanned
  <2>1. /\ pc = "list" /\ pc' = "issuers" /\ todo' = IssuerList /\ KeysOf(stayed) \subseteq scanned
        /\ UNCHANGED <<serials, stayed, ever, dying, failed, issuerMap, dates, issuer, total, scanned>>
    BY <1>4 DEF KeysScanned
  <2>2. ASSUME NEW c \in stayed PROVE Key(c) \in LeftOf(dates)' /\ Key(c) \in ToCount'
    <3>1. Key(c) \in Keys /\ Key(c) \in scanned /\ Key(c)[2] \in Issuers
      BY <1>1, <2>1, KeyTyped DEF KeysOf, Keys
    <3>2. Key(c)[1] \in DatesIn(issuerMap[Key(c)[2]])
      BY <3>1 DEF StayInv
    <3>3. Key(c)[2] \in todo'
      BY <2>1, <3>1, <3>2, DatesEmpty DEF IssuerList
    <3> QED BY <2>1, <3>1, <3>2, <3>3 DEF LeftOf, ToCount, ToGo
  <2>3. CountedStayed' = {} /\ {c \in stayed' : Key(c) \notin ToPrint'} = {}
    BY <2>1, <2>2 DEF CountedStayed, ToPrint
  <2>4. total' >= Cardinality(CountedStayed')
    BY <1>1, <2>1, <2>3, FS_EmptySet
  <2> QED BY <2>1, <2>3, <2>4 DEF StayInv
<1>5. CASE KeyScanFails \/ SetListFails \/ Fatal
  BY <1>5 DEF KeyScanFails, SetListFails, Fatal, StayInv
<1>6. ASSUME ToCount' = ToCount, total' = total, failed' = failed,
             stayed' \subseteq stayed, pc # "list", ~failed
      PROVE  total' >= Cardinality(CountedStayed')
  <2>1. CountedStayed' \subseteq CountedStayed
    BY <1>6 DEF CountedStayed
  <2>2. Cardinality(CountedStayed') <= Cardinality(CountedStayed) /\ Cardinality(CountedStayed') \in Nat
    BY <1>2, <2>1, FS_Subset, FS_CardinalityType
  <2>3. total >= Cardinality(CountedStayed)
    BY <1>6 DEF StayInv
  <2> QED BY <1>1, <1>2, <1>6, <2>2, <2>3
<1>7. ASSUME NEW i \in Issuers, VisitIssuer(i) PROVE StayInv'
  <2>1. ToCount' = ToCount
    BY <1>7, SameToCount
  <2>2. ToPrint' = ToCount' /\ ToPrint = ToCount
    BY <1>7 DEF VisitIssuer, ToPrint, ToCount, ToGo, LeftOf
  <2> QED BY <1>6, <1>7, <2>1, <2>2 DEF VisitIssuer, StayInv
<1>8. CASE IssuerDone \/ Report
  <2>1. ToCount' = ToCount
    BY <1>8, SameToCount
  <2>2. ToPrint' = ToPrint
    BY <1>8 DEF IssuerDone, Report, ToPrint, LeftOf
  <2> QED BY <1>6, <1>8, <2>1, <2>2 DEF IssuerDone, Report, StayInv
<1>9. CASE Count \/ CountFails
  <2> DEFINE k == <<Head(dates), issuer>>
             M == Members(k)
  <2>1. Counts(k)
    BY <1>9, CountsSteps
  <2>2. k \in Keys /\ ToCount = ToCount' \cup {k}
    BY <2>1, CountsOne
  <2>3. M \in SUBSET Certs /\ IsFiniteSet(M) /\ Cardinality(M) \in Nat
    BY <1>1, Finite DEF Members
  <2>4. {c \in stayed : Key(c) = k} \subseteq M
    BY DEF Members, StayInv
  <2> HIDE DEF M, k
  <2>5. ASSUME pc' # "list", ~failed' PROVE total' >= Cardinality(CountedStayed')
    <3>1. ~failed /\ total' = total + Cardinality(M)
      BY <1>9, <2>5 DEF Count, CountFails, NewTotal, M, k
    <3>2. CountedStayed' \subseteq CountedStayed \cup M
      BY <2>1, <2>2, <2>4 DEF Counts, CountedStayed
    <3>3. /\ IsFiniteSet(CountedStayed \cup M)
          /\ Cardinality(CountedStayed \cup M)
               = Cardinality(CountedStayed) + Cardinality(M) - Cardinality(CountedStayed \cap M)
      BY <1>2, <2>3, FS_Union
    <3>4. Cardinality(CountedStayed \cap M) \in Nat
      BY <1>2, FS_Subset, FS_CardinalityType
    <3>5. /\ Cardinality(CountedStayed') <= Cardinality(CountedStayed \cup M)
          /\ Cardinality(CountedStayed') \in Nat
      BY <3>2, <3>3, FS_Subset, FS_CardinalityType
    <3>6. total >= Cardinality(CountedStayed)
      BY <2>1, <3>1 DEF StayInv, Counts
    <3> QED BY <1>1, <1>2, <2>3, <3>1, <3>3, <3>4, <3>5, <3>6
  <2>6. Verbose => ToPrint' = ToPrint
    BY <2>1 DEF Counts, ToPrint, LeftOf
  <2>7. pc' = "known" => {c \in stayed' : Key(c) = <<Head(dates'), issuer'>>} \subseteq stay'
    BY <2>1, <2>4 DEF Counts, M, k
  <2>8. failed => failed'
    BY <1>9 DEF Count, CountFails
  <2> QED BY <2>1, <2>5, <2>6, <2>7, <2>8 DEF Counts, StayInv
<1>10. ASSUME NEW c \in Certs, SerialScanned(c) \/ Insert(c) PROVE StayInv'
  <2>1. ToCount' = ToCount
    BY <1>10, SameToCount
  <2>2. ToPrint' = ToPrint
    BY <1>10 DEF SerialScanned, Insert, ToPrint, LeftOf
  <2> QED BY <1>6, <1>10, <2>1, <2>2 DEF SerialScanned, Insert, StayInv
<1>11. CASE SerialsScanned
  <2>1. ToCount' = ToCount
    BY <1>11, SameToCount
  <2>2. /\ pc = "known" /\ pc' = "dates" /\ dates' = Tail(dates) /\ dates # <<>> /\ stay \subseteq got
        /\ printed' = printed \cup got
        /\ UNCHANGED <<serials, stayed, ever, dying, failed, issuerMap, todo, issuer, total, scanned>>
    BY <1>11 DEF SerialsScanned, KnownReturns, RestOfDates, TypeInv
  <2>3. DatesIn(dates) = {Head(dates)} \cup DatesIn(dates')
    BY <1>1, <2>2, DatesTail
  <2>4. ToPrint \subseteq ToPrint' \cup {<<Head(dates), issuer>>}
    BY <2>2, <2>3 DEF ToPrint, LeftOf, Keys
  <2>5. Verbose /\ ~failed => {c \in stayed : Key(c) \notin ToPrint'} \subseteq printed'
    BY <2>2, <2>4 DEF StayInv
  <2> QED BY <1>6, <2>1, <2>2, <2>5 DEF StayInv
<1>12. CASE SerialScanFails
  BY <1>12 DEF SerialScanFails, KnownReturns, StayInv
<1>13. ASSUME NEW k \in Keys, Expire(k) PROVE StayInv'
  <2>1. ToCount' = ToCount
    BY <1>13, SameToCount
  <2>2. ToPrint' = ToPrint
    BY <1>13 DEF Expire, ToPrint, LeftOf
  <2> QED BY <1>6, <1>13, <2>1, <2>2 DEF Expire, StayInv
<1>14. CASE Ended \/ UNCHANGED vars
  <2>1. ToCount' = ToCount
    BY <1>14, SameToCount DEF Ended
  <2>2. ToPrint' = ToPrint
    BY <1>14 DEF Ended, vars, ToPrint, LeftOf
  <2> QED BY <1>6, <1>14, <2>1, <2>2 DEF Ended, vars, StayInv
<1> QED BY <1>3, <1>4, <1>5, <1>7, <1>8, <1>9, <1>10, <1>11, <1>12, <1>13, <1>14 DEF Next, Main

(* A serial that stays in Redis during the whole run is counted, and printed if
   serials are printed, unless a request failed: however keys are repeated and
   whatever comes and goes meanwhile. *)
THEOREM StayedReportedHolds == Spec => []StayedReported
<1>1. Init => StayInv
  BY DEF Init, StayInv
<1>2. StayInv => StayedReported
  <2> SUFFICES ASSUME StayInv, pc = "done", ~failed
               PROVE  total >= Cardinality(stayed) /\ (Verbose => stayed \subseteq printed)
    BY DEF StayedReported
  <2>1. ToCount = {} /\ ToPrint = {}
    BY DatesEmpty DEF StayInv, ToCount, ToPrint, ToGo, LeftOf
  <2>2. CountedStayed = stayed
    BY <2>1 DEF CountedStayed
  <2> QED BY <2>1, <2>2 DEF StayInv
<1> QED BY <1>1, <1>2, StayInvStep, TypeInvHolds, PTL DEF Spec

(* The three ways a step leaves the total within what has been in Redis: it
   counts nothing, it adds to what has been, or it counts a key that is left. *)
LEMMA OnceInvStep == TypeInv /\ StayInv /\ OnceInv /\ [Next]_vars => OnceInv'
<1> SUFFICES ASSUME TypeInv, StayInv, OnceInv, [Next]_vars PROVE OnceInv'
  OBVIOUS
<1> USE DEF redis, walk, listing, scan
<1>1. /\ {serials, stayed, ever} \subseteq SUBSET Certs /\ total \in Nat /\ issuer \in Issuers
      /\ issuerMap \in [Issuers -> Seq(ExpDates)] /\ dates \in Seq(ExpDates) /\ scanned \subseteq Keys
      /\ repeats \in Nat
  BY StatisticsAssumption DEF TypeInv, TypeOK
<1>2. /\ CountedEver \in SUBSET ever /\ IsFiniteSet(CountedEver) /\ Cardinality(CountedEver) \in Nat
      /\ IsFiniteSet(ever) /\ Cardinality(ever) \in Nat
  BY <1>1, Finite DEF CountedEver
<1>3. ever' \subseteq Certs /\ ever \subseteq ever'
  <2>1. ASSUME NEW c \in Certs, Insert(c) PROVE ever' \subseteq Certs /\ ever \subseteq ever'
    BY <1>1, <2>1 DEF Insert
  <2>2. CASE Main \/ (\E k \in Keys : Expire(k)) \/ Ended \/ UNCHANGED vars
    <3>1. CASE Count \/ CountFails \/ SerialsScanned \/ SerialScanFails
      BY <1>1, <3>1 DEF Count, CountFails, SerialsScanned, SerialScanFails, KnownReturns
    <3>2. CASE \/ (\E k \in Keys : KeyScanned(k)) \/ KeysScanned \/ KeyScanFails
               \/ (\E i \in Issuers : VisitIssuer(i)) \/ (\E c \in Certs : SerialScanned(c))
      BY <1>1, <3>2 DEF KeyScanned, KeysScanned, KeyScanFails, VisitIssuer, SerialScanned
    <3>3. CASE \/ SetListFails \/ IssuerDone \/ Report \/ Fatal
               \/ (\E k \in Keys : Expire(k)) \/ Ended \/ UNCHANGED vars
      BY <1>1, <3>3 DEF SetListFails, IssuerDone, Report, Fatal, Expire, Ended, vars
    <3> QED BY <2>2, <3>1, <3>2, <3>3 DEF Main
  <2> QED BY <2>1, <2>2 DEF Next
<1>4. Cardinality(ever) <= Cardinality(ever') /\ Cardinality(ever') \in Nat
  BY <1>1, <1>2, <1>3, Finite, FS_Subset
<1>5. ASSUME total' = total, ToCount' \subseteq ToCount, total <= Cardinality(CountedEver)
      PROVE  total' <= Cardinality(CountedEver') /\ total' <= Cardinality(ever')
  <2>1. CountedEver \subseteq CountedEver' /\ CountedEver' \in SUBSET ever'
    BY <1>3, <1>5 DEF CountedEver
  <2>2. IsFiniteSet(CountedEver') /\ Cardinality(CountedEver') \in Nat /\ IsFiniteSet(ever')
    BY <1>3, <2>1, Finite
  <2>3. /\ Cardinality(CountedEver) <= Cardinality(CountedEver')
        /\ Cardinality(CountedEver') <= Cardinality(ever')
    BY <2>1, <2>2, FS_Subset
  <2> QED BY <1>1, <1>2, <1>4, <1>5, <2>2, <2>3
<1>6. ASSUME total' = 0
      PROVE  total' <= Cardinality(CountedEver') /\ total' <= Cardinality(ever')
  <2>1. CountedEver' \in SUBSET Certs
    BY <1>3 DEF CountedEver
  <2>2. Cardinality(CountedEver') \in Nat
    BY <2>1, Finite
  <2> QED BY <1>4, <1>6, <2>2
<1>7. ASSUME NEW k \in Keys, KeyScanned(k) PROVE OnceInv'
  <2> DEFINE i == k[2]
             d == k[1]
  <2>1. /\ issuerMap' = [issuerMap EXCEPT ![i] = Append(issuerMap[i], d)]
        /\ scanned' = scanned \cup {k} /\ d \in ExpDates /\ i \in Issuers /\ k = <<d, i>>
        /\ repeats' = (IF k \in scanned THEN repeats + 1 ELSE repeats)
        /\ pc = "list" /\ dates = <<>> /\ total' = 0
        /\ UNCHANGED <<pc, dates>>
    BY <1>7 DEF KeyScanned, DatesWith, Keys, StayInv
  <2> HIDE DEF i, d
  <2>2. DatesIn(Append(issuerMap[i], d)) = DatesIn(issuerMap[i]) \cup {d}
    BY <1>1, <2>1, DatesAppend
  <2>3. \A j \in Issuers : \A e \in DatesIn(issuerMap'[j]) : <<e, j>> \in scanned'
    BY <1>1, <2>1, <2>2 DEF OnceInv
  <2>4. ASSUME repeats' = 0 PROVE \A j \in Issuers : NoDup(issuerMap'[j])
    <3>1. repeats = 0 /\ k \notin scanned
      BY <1>1, <2>1, <2>4
    <3>2. NoDup(issuerMap[i]) /\ d \notin DatesIn(issuerMap[i])
      BY <2>1, <3>1 DEF OnceInv
    <3>3. NoDup(Append(issuerMap[i], d))
      BY <1>1, <2>1, <3>2, DatesAppend
    <3> QED BY <1>1, <2>1, <3>1, <3>3 DEF OnceInv
  <2> QED BY <1>6, <2>1, <2>3, <2>4, DatesEmpty DEF OnceInv
<1>8. CASE KeysScanned \/ KeyScanFails
  <2>1. /\ dates' = <<>> /\ pc' = "issuers" /\ total' = 0
        /\ UNCHANGED <<issuerMap, scanned, repeats>>
    BY <1>8 DEF KeysScanned, KeyScanFails, StayInv
  <2> QED BY <1>6, <2>1, DatesEmpty DEF OnceInv
<1>9. CASE SetListFails \/ Fatal
  <2>1. pc' = "dead" /\ UNCHANGED <<issuerMap, scanned, repeats, dates, total, ever>>
    BY <1>9 DEF SetListFails, Fatal
  <2> QED BY <2>1 DEF OnceInv
<1>10. ASSUME NEW i \in Issuers, VisitIssuer(i) PROVE OnceInv'
  <2>1. ToCount' = ToCount
    BY <1>10, SameToCount
  <2>2. /\ dates' = issuerMap[i] /\ issuer' = i /\ i \notin todo' /\ pc' = "dates" /\ pc = "issuers"
        /\ UNCHANGED <<issuerMap, scanned, repeats, total>>
    BY <1>10 DEF VisitIssuer, Visited
  <2> QED BY <1>5, <2>1, <2>2 DEF OnceInv
<1>11. CASE Count \/ CountFails
  <2> DEFINE k == <<Head(dates), issuer>>
             M == Members(k)
  <2>1. Counts(k)
    BY <1>11, CountsSteps
  <2>2. /\ k \in Keys /\ ToCount = ToCount' \cup {k}
        /\ NoDup(dates) /\ issuer \notin todo => k \notin ToCount'
    BY <2>1, CountsOne
  <2>3. M \in SUBSET Certs /\ IsFiniteSet(M) /\ Cardinality(M) \in Nat
    BY <1>1, Finite DEF Members
  <2>4. M \subseteq ever /\ \A c \in M : Key(c) = k
    BY DEF Members, StayInv
  <2>5. total' = total \/ total' = total + Cardinality(M)
    BY <1>11 DEF Count, CountFails, NewTotal
  <2> HIDE DEF M, k
  <2>6. NoDup(dates) => NoDup(dates')
    <3>1. dates # <<>> /\ (dates' = dates \/ dates' = Tail(dates))
      BY <2>1 DEF Counts
    <3>2. NoDup(dates) => NoDup(Tail(dates))
      BY <1>1, <3>1, DatesTail
    <3> QED BY <3>1, <3>2
  <2>7. issuer' \notin todo' /\ pc' # "dead" /\ UNCHANGED <<issuerMap, scanned, repeats, ever>>
    BY <2>1 DEF Counts, OnceInv
  <2>8. ASSUME repeats = 0
        PROVE  total' <= Cardinality(CountedEver') /\ total' <= Cardinality(ever')
    <3>1. k \notin ToCount' /\ total <= Cardinality(CountedEver)
      BY <2>1, <2>2, <2>8 DEF OnceInv, Counts
    <3>2. CountedEver \cup M \subseteq CountedEver' /\ CountedEver' \subseteq ever'
      BY <2>2, <2>4, <2>7, <3>1 DEF CountedEver
    <3>3. CountedEver \cap M = {}
      BY <2>2, <2>4 DEF CountedEver
    <3>4. /\ Cardinality(CountedEver \cup M) = Cardinality(CountedEver) + Cardinality(M)
          /\ IsFiniteSet(CountedEver \cup M)
      BY <1>2, <2>3, <3>3, FS_Union, FS_EmptySet
    <3>5. IsFiniteSet(ever') /\ IsFiniteSet(CountedEver') /\ Cardinality(CountedEver') \in Nat
      BY <1>3, <3>2, Finite
    <3>6. /\ Cardinality(CountedEver \cup M) <= Cardinality(CountedEver')
          /\ Cardinality(CountedEver') <= Cardinality(ever')
      BY <3>2, <3>5, FS_Subset
    <3> QED BY <1>1, <1>2, <1>4, <2>3, <2>5, <3>1, <3>4, <3>5, <3>6
  <2> QED BY <2>6, <2>7, <2>8 DEF OnceInv
<1>12. CASE IssuerDone \/ Report
  <2>1. ToCount' = ToCount
    BY <1>12, SameToCount
  <2>2. /\ pc # "dead" /\ pc' \notin {"dates", "known"}
        /\ UNCHANGED <<issuerMap, scanned, repeats, total, dates>>
    BY <1>12 DEF IssuerDone, Report
  <2> QED BY <1>5, <2>1, <2>2 DEF OnceInv
<1>13. CASE SerialsScanned \/ SerialScanFails
  <2>1. ToCount' = ToCount
    BY <1>13, SameToCount
  <2>2. /\ pc = "known" /\ pc' = "dates" /\ dates' = Tail(dates) /\ dates # <<>>
        /\ UNCHANGED <<issuerMap, scanned, repeats, total, issuer, todo>>
    BY <1>13 DEF SerialsScanned, SerialScanFails, KnownReturns, RestOfDates, TypeInv
  <2>3. NoDup(dates) => NoDup(dates')
    BY <1>1, <2>2, DatesTail
  <2> QED BY <1>5, <2>1, <2>2, <2>3 DEF OnceInv
<1>14. CASE \/ \E c \in Certs : SerialScanned(c) \/ Insert(c)
            \/ \E k \in Keys : Expire(k)
            \/ UNCHANGED vars
  <2>1. ToCount' = ToCount
    BY <1>14, SameToCount
  <2>2. UNCHANGED <<pc, issuerMap, scanned, repeats, total, dates, issuer, todo>>
    BY <1>14 DEF SerialScanned, Insert, Expire, vars
  <2>3. total <= Cardinality(ever) => total' <= Cardinality(ever')
    BY <1>1, <1>2, <1>4, <2>2
  <2> QED BY <1>5, <2>1, <2>2, <2>3 DEF OnceInv
<1> QED BY <1>7, <1>8, <1>9, <1>10, <1>11, <1>12, <1>13, <1>14 DEF Next, Main, Ended

(* The total counts no serial twice unless the scan of the keys repeated one:
   each key is listed once, and its set counted once, serials that come and go
   during the run included. *)
THEOREM OvercountByRepeatsHolds == Spec => []OvercountByRepeats
<1>1. Init => OnceInv
  <2> SUFFICES ASSUME Init PROVE OnceInv
    OBVIOUS
  <2>1. total = 0 /\ ever \subseteq Certs /\ CountedEver \subseteq Certs
    BY DEF Init, CountedEver
  <2>2. Cardinality(ever) \in Nat /\ Cardinality(CountedEver) \in Nat
    BY <2>1, Finite
  <2>3. 0 <= Cardinality(ever) /\ 0 <= Cardinality(CountedEver)
    BY <2>2
  <2>4. /\ DatesIn(dates) = {} /\ NoDup(dates) /\ pc = "list"
        /\ \A i \in Issuers : DatesIn(issuerMap[i]) = {} /\ NoDup(issuerMap[i])
    BY DatesEmpty DEF Init
  <2> QED BY <2>1, <2>3, <2>4 DEF OnceInv
<1>2. OnceInv => OvercountByRepeats
  BY DEF OnceInv, OvercountByRepeats
<1>3. Init => StayInv
  BY DEF Init, StayInv
<1> QED BY <1>1, <1>2, <1>3, OnceInvStep, StayInvStep, TypeInvHolds, PTL DEF Spec
=============================================================================

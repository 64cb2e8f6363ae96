---------------------------- MODULE Statistics ----------------------------
(***************************************************************************)
(* storage-statistics: lists the serials keys with SCAN, groups them by    *)
(* issuer (GetIssuerAndDatesFromCache), and walks over issuers and hours   *)
(* counting (Count) and printing (Known) the serials, while a ct-fetch     *)
(* goes on inserting and Redis goes on expiring keys.  Redis' scans give   *)
(* every element that stays during the whole scan at least once, any       *)
(* element as often as they like, and others or not.                       *)
(***************************************************************************)
EXTENDS Integers, Sequences, FiniteSets

CONSTANTS
  Certs,       \* distinct serials
  ExpDateOf,   \* the expiration hour of a certificate
  IssuerOf,    \* the issuer of a certificate
  Verbose,     \* glog.V(2): the serials are printed too
  MayExpire,   \* keys may expire while the program runs
  RedisFails,  \* a Redis request may fail
  MaxRepeats   \* bound: how often the scan of the keys repeats a key

ExpDates == {ExpDateOf[c] : c \in Certs}
Issuers  == {IssuerOf[c] : c \in Certs}
Keys     == ExpDates \X Issuers
Key(c)   == <<ExpDateOf[c], IssuerOf[c]>>
KeysOf(S) == {Key(c) : c \in S}

ASSUME StatisticsAssumption ==
  /\ MaxRepeats \in Nat
  /\ {Verbose, MayExpire, RedisFails} \subseteq BOOLEAN
  /\ IsFiniteSet(Certs) /\ DOMAIN ExpDateOf = Certs /\ DOMAIN IssuerOf = Certs

VARIABLES
  serials,    \* Redis: the members of all serials sets
  pc,         \* where main is
  dying,      \* a goroutine is about to call glog.Fatalf
  issuerMap,  \* issuerMap[i]: the ExpDates appended for issuer i, <<>> if none
  todo,       \* issuers the loop of main has still to visit
  issuer,     \* the issuer being visited (one of todo before)
  dates,      \* the ExpDates of that issuer still to be counted
  got,        \* the hash-set of the running Known
  stay,       \* members that have been in the set since that Known began
  total,      \* totalSerials
  printed,    \* serials in a list that Known has returned
  stayed,     \* history: serials that have been in Redis since the start
  ever,       \* history: serials that have been in Redis at some time
  scanned,    \* history: keys that the scan has returned
  repeats,    \* history: how often the scan of the keys repeated a key
  failed      \* history: a request failed

redis   == <<serials, stayed, ever>>
walk    == <<issuerMap, todo, issuer, dates>>
listing == <<got, stay, printed>>
scan    == <<scanned, repeats>>
vars == <<redis, pc, dying, walk, listing, total, scan, failed>>

Members(k) == {c \in serials : Key(c) = k}

(* The values each variable takes; no ExpDate list is longer than the keys and
   their repeats. *)
TypeOK ==
  /\ {serials, stayed, ever, got, stay, printed} \subseteq SUBSET Certs
  /\ pc \in {"list", "issuers", "dates", "known", "done", "dead"}
  /\ dying \in BOOLEAN /\ failed \in BOOLEAN
  /\ issuerMap \in [Issuers -> Seq(ExpDates)]
  /\ \A i \in Issuers : Len(issuerMap[i]) <= Cardinality(ExpDates) + MaxRepeats
  /\ todo \subseteq Issuers /\ issuer \in Issuers /\ dates \in Seq(ExpDates)
  /\ total \in Nat /\ scanned \subseteq Keys /\ repeats \in 0..MaxRepeats

Init ==
  /\ serials \in SUBSET Certs
  /\ stayed = serials /\ ever = serials
  /\ pc = "list" /\ dying = FALSE
  /\ issuerMap = [i \in Issuers |-> <<>>]
  /\ todo = {} /\ issuer \in Issuers /\ dates = <<>>
  /\ got = {} /\ stay = {} /\ printed = {}
  /\ total = 0 /\ scanned = {} /\ repeats = 0 /\ failed = FALSE
-----------------------------------------------------------------------------
(* Plausible slips in single definitions below, used by nothing else. *)
MutFirstOnly(i, d) == IF issuerMap[i] = <<>> THEN <<d>> ELSE issuerMap[i]
MutCountAgain(i) == todo
MutInitWithDate(i, d) == IF issuerMap[i] = <<>> THEN <<d, d>> ELSE Append(issuerMap[i], d)
-----------------------------------------------------------------------------
(* Other processes: ct-fetch inserts a serial (each one at most once: a bound),
   Redis drops a key. *)
Insert(c) ==
  /\ c \notin ever
  /\ serials' = serials \cup {c} /\ ever' = ever \cup {c}
  /\ UNCHANGED <<stayed, pc, dying, walk, listing, total, scan, failed>>

Expire(k) ==
  /\ MayExpire /\ Members(k) # {}
  /\ serials' = serials \ Members(k)
  /\ stayed' = stayed \ Members(k)
  /\ stay' = stay \ Members(k)
  /\ UNCHANGED <<ever, pc, dying, walk, got, printed, total, scan, failed>>
-----------------------------------------------------------------------------
(* GetIssuerAndDatesFromCache.  A key is split into its hour and its issuer,
   and the hour is appended to the issuer's list, known already or not. *)
DatesWith(i, d) == Append(issuerMap[i], d)

KeyScanned(k) ==
  /\ pc = "list" /\ k \in KeysOf(ever)
  /\ k \in scanned => repeats < MaxRepeats
  /\ repeats' = IF k \in scanned THEN repeats + 1 ELSE repeats
  /\ scanned' = scanned \cup {k}
  /\ issuerMap' = [issuerMap EXCEPT ![k[2]] = DatesWith(k[2], k[1])]
  /\ UNCHANGED <<redis, pc, dying, todo, issuer, dates, listing, total, failed>>

IssuerList == {i \in Issuers : issuerMap[i] # <<>>}

KeysScanned ==
  /\ pc = "list" /\ KeysOf(stayed) \subseteq scanned
  /\ pc' = "issuers" /\ todo' = IssuerList
  /\ UNCHANGED <<redis, dying, issuerMap, issuer, dates, listing, total, scan, failed>>

(* KeysToChan fails: its deferred close lets the reader go on with what it has,
   and the goroutine calls Fatalf a moment later. *)
KeyScanFails ==
  /\ pc = "list" /\ RedisFails
  /\ pc' = "issuers" /\ todo' = IssuerList
  /\ dying' = TRUE /\ failed' = TRUE
  /\ UNCHANGED <<redis, issuerMap, issuer, dates, listing, total, scan>>
-----------------------------------------------------------------------------
(* main's loop over the issuers, in the order of a map. *)
Visited(i) == todo \ {i}

VisitIssuer(i) ==
  /\ pc = "issuers" /\ i \in todo
  /\ issuer' = i /\ dates' = issuerMap[i] /\ todo' = Visited(i)
  /\ pc' = "dates"
  /\ UNCHANGED <<redis, dying, issuerMap, listing, total, scan, failed>>

(* CRLs and Issuers call Fatalf themselves when SMEMBERS fails. *)
SetListFails ==
  /\ pc = "issuers" /\ todo # {} /\ RedisFails
  /\ pc' = "dead" /\ failed' = TRUE
  /\ UNCHANGED <<redis, dying, walk, listing, total, scan>>

RestOfDates == Tail(dates)
NewTotal(count) == total + count

(* Known starts its scan when the serials are to be printed. *)
AfterCount ==
  LET k == <<Head(dates), issuer>>
  IN  IF Verbose
      THEN pc' = "known" /\ got' = {} /\ stay' = Members(k) /\ UNCHANGED <<dates, printed>>
      ELSE dates' = RestOfDates /\ UNCHANGED <<pc, listing>>

Count ==
  /\ pc = "dates" /\ dates # <<>>
  /\ total' = NewTotal(Cardinality(Members(<<Head(dates), issuer>>)))
  /\ AfterCount
  /\ UNCHANGED <<redis, dying, issuerMap, todo, issuer, scan, failed>>

(* Count logs the error and answers 0. *)
CountFails ==
  /\ pc = "dates" /\ dates # <<>> /\ RedisFails
  /\ failed' = TRUE
  /\ AfterCount
  /\ UNCHANGED <<redis, dying, issuerMap, todo, issuer, total, scan>>

IssuerDone ==
  /\ pc = "dates" /\ dates = <<>>
  /\ pc' = "issuers"
  /\ UNCHANGED <<redis, dying, walk, listing, total, scan, failed>>
-----------------------------------------------------------------------------
(* Known: SSCAN into a hash-set, so that repeats do no harm. *)
SerialScanned(c) ==
  /\ pc = "known" /\ c \in ever \ got /\ Key(c) = <<Head(dates), issuer>>
  /\ got' = got \cup {c}
  /\ UNCHANGED <<redis, pc, dying, walk, stay, printed, total, scan, failed>>

KnownReturns ==
  /\ printed' = printed \cup got
  /\ dates' = RestOfDates
  /\ pc' = "dates"
  /\ UNCHANGED <<redis, issuerMap, todo, issuer, got, stay, total, scan>>

SerialsScanned ==
  /\ pc = "known" /\ stay \subseteq got
  /\ KnownReturns
  /\ UNCHANGED <<dying, failed>>

SerialScanFails ==
  /\ pc = "known" /\ RedisFails
  /\ KnownReturns
  /\ dying' = TRUE /\ failed' = TRUE
-----------------------------------------------------------------------------
(* The overall totals and the log status are printed. *)
Report ==
  /\ pc = "issuers" /\ todo = {}
  /\ pc' = "done"
  /\ UNCHANGED <<redis, dying, walk, listing, total, scan, failed>>

(* Fatalf of a goroutine ends the process, if main has not returned. *)
Fatal ==
  /\ dying /\ pc \notin {"done", "dead"}
  /\ pc' = "dead"
  /\ UNCHANGED <<redis, dying, walk, listing, total, scan, failed>>

Ended == pc \in {"done", "dead"} /\ UNCHANGED vars

Main ==
  \/ \E k \in Keys : KeyScanned(k)
  \/ KeysScanned \/ KeyScanFails
  \/ \E i \in Issuers : VisitIssuer(i)
  \/ SetListFails \/ Count \/ CountFails \/ IssuerDone
  \/ \E c \in Certs : SerialScanned(c)
  \/ SerialsScanned \/ SerialScanFails \/ Report \/ Fatal

Next ==
  \/ Main
  \/ \E c \in Certs : Insert(c)
  \/ \E k \in Keys : Expire(k)
  \/ Ended

Spec == Init /\ [][Next]_vars
-----------------------------------------------------------------------------
(* A serial that is in Redis during the whole run is counted, and printed if
   serials are printed, unless a request failed: neither the grouping by issuer
   nor inserts and expiries during the run make the report miss it. *)
StayedReported ==
  pc = "done" /\ ~failed =>
    /\ total >= Cardinality(stayed)
    /\ Verbose => stayed \subseteq printed

(* The total counts no serial twice unless the scan repeated a key. *)
OvercountByRepeats == repeats = 0 => total <= Cardinality(ever)
=============================================================================

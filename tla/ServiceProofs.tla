--------------------------- MODULE ServiceProofs ---------------------------
(***************************************************************************)
(* Proofs about Service, for every setting, every number of threads, every *)
(* choice of ticker periods and every evaluation time.                     *)
(***************************************************************************)
EXTENDS Service, TLAPS

(* Threads exist only once they are started, as many as the setting says. *)
ThreadsAsSet == Threads # {} => Threads = Started

(* main gets past the parsing of pollingDelayMean only with a duration. *)
DelayParsed == phase \in {"logs", "running", "exited"} => pollingDelayMean \in Int

ServiceInv == TypeOK /\ HealthInv /\ ThreadsAsSet /\ DelayParsed

LEMMA ThreadTypes ==
  TypeOK => \A w \in Threads :
              /\ period[w] \in Nat /\ untilTick[w] \in Nat
              /\ 1 <= untilTick[w] /\ untilTick[w] <= period[w] /\ storeAge[w] \in 0..MaxAge
<1> SUFFICES ASSUME TypeOK, NEW w \in Threads
             PROVE  /\ period[w] \in Nat /\ untilTick[w] \in Nat
                    /\ 1 <= untilTick[w] /\ untilTick[w] <= period[w] /\ storeAge[w] \in 0..MaxAge
  OBVIOUS
<1>1. period[w] \in Periods /\ untilTick[w] \in 1..period[w] /\ storeAge[w] \in 0..MaxAge
  BY DEF TypeOK
<1>2. period[w] \in Nat
  BY <1>1, ServiceAssumption
<1> QED BY <1>1, <1>2

(* The steps of main before any thread runs. *)
Preparing ==
  \/ Prepare("storage", "telemetry") \/ Prepare("telemetry", "polling")
  \/ ParsePollingDelayMean \/ NoLogs

LEMMA InitServiceInv == Init => ServiceInv
<1> SUFFICES ASSUME Init PROVE ServiceInv
  OBVIOUS
<1>1. Threads = {}
  BY DEF Init, NoWorkers, Threads
<1>2. TypeOK
  BY <1>1, ServiceAssumption DEF Init, NoWorkers, TypeOK, Phases, Never, Threads
<1>3. HealthInv
  BY <1>1 DEF Init, HealthInv, FreshEnough
<1> QED BY <1>1, <1>2, <1>3 DEF ServiceInv, ThreadsAsSet, DelayParsed, Init

LEMMA ConfigureStep == ServiceInv /\ Configure => ServiceInv'
<1> SUFFICES ASSUME ServiceInv, Configure PROVE ServiceInv'
  OBVIOUS
<1>1. Threads = {} /\ Threads' = {}
  BY DEF ServiceInv, TypeOK, Configure, workers, Threads
<1>2. numThreads' \in Int
  BY ServiceAssumption DEF Configure, ConfInt
<1>3. pollingDelayMean' \in Int \cup {Malformed, Empty}
  BY ServiceAssumption DEF Configure, ConfString
<1>4. TypeOK'
  BY <1>1, <1>2, <1>3 DEF ServiceInv, TypeOK, Configure, workers, Phases, Threads
<1>5. HealthInv'
  BY <1>1 DEF ServiceInv, Configure, workers, HealthInv, FreshEnough, Threads
<1> QED BY <1>1, <1>4, <1>5 DEF ServiceInv, ThreadsAsSet, DelayParsed, Configure

LEMMA StartStep == ServiceInv /\ StartDatabaseThreads => ServiceInv'
<1> SUFFICES ASSUME ServiceInv, StartDatabaseThreads PROVE ServiceInv'
  OBVIOUS
<1>1. Threads = {} /\ reported = {} /\ updateAge = Never
  BY DEF ServiceInv, TypeOK, HealthInv, StartDatabaseThreads
<1>2. Threads' = Started /\ Started' = Started
  BY DEF StartDatabaseThreads, settings, Threads, Started
<1>3. PICK p \in [Started -> Periods] : period' = p /\ untilTick' = p
  BY DEF StartDatabaseThreads
<1>4. \A w \in Started : p[w] \in 1..p[w]
  <2> SUFFICES ASSUME NEW w \in Started PROVE p[w] \in 1..p[w]
    OBVIOUS
  <2>1. p[w] \in Periods
    OBVIOUS
  <2>2. p[w] \in Nat /\ p[w] # 0
    BY <2>1, ServiceAssumption
  <2> QED BY <2>2
<1>5. TypeOK'
  BY <1>1, <1>2, <1>3, <1>4, ServiceAssumption
     DEF ServiceInv, TypeOK, StartDatabaseThreads, settings, Phases, Never
<1>6. HealthInv'
  BY <1>1 DEF StartDatabaseThreads, HealthInv, FreshEnough
<1> QED BY <1>2, <1>5, <1>6 DEF ServiceInv, ThreadsAsSet, DelayParsed, StartDatabaseThreads, settings

LEMMA StoreReturnsStep ==
  ASSUME ServiceInv, NEW w \in Threads, StoreReturns(w)
  PROVE  ServiceInv'
<1>1. Threads' = Threads /\ Started' = Started
  BY DEF StoreReturns, settings, Threads, Started
<1>2. TypeOK /\ \A v \in Threads : storeAge'[v] = IF v = w THEN 0 ELSE storeAge[v]
  BY DEF ServiceInv, TypeOK, StoreReturns
<1>3. /\ period[w] \in Nat /\ untilTick[w] \in Nat /\ untilTick[w] <= period[w]
      /\ updateAge \in Int /\ MaxAge \in Nat /\ storeAge'[w] = 0
  BY <1>2, ThreadTypes, ServiceAssumption DEF TypeOK, Never
<1>a. storeAge' \in [Threads -> 0..MaxAge] /\ busy' \in [Threads -> BOOLEAN]
  BY <1>2, <1>3 DEF TypeOK, StoreReturns
<1>b. /\ updateAge' \in Never..MaxAge /\ tick' \in [Threads -> BOOLEAN]
      /\ reported' \subseteq Threads
  <2>1. updateAge' \in {0, updateAge}
    BY DEF StoreReturns
  <2>2. updateAge' \in Never..MaxAge
    BY <1>2, <1>3, <2>1 DEF TypeOK, Never
  <2>3. tick' \in [Threads -> BOOLEAN] /\ reported' \subseteq Threads
    BY <1>2 DEF TypeOK, StoreReturns
  <2> QED BY <2>2, <2>3
<1>c. TypeOK' /\ ThreadsAsSet' /\ DelayParsed'
  BY <1>1, <1>a, <1>b DEF ServiceInv, TypeOK, ThreadsAsSet, DelayParsed, StoreReturns, settings
<1>4. CASE Reports(w)
  <2>1. updateAge' = 0 /\ ~tick'[w] /\ UNCHANGED <<period, untilTick>>
    BY <1>2, <1>4 DEF StoreReturns, TypeOK
  <2>2. \A v \in Threads : /\ period[v] \in Nat /\ untilTick[v] \in Nat
                           /\ untilTick[v] <= period[v] /\ storeAge'[v] \in Nat
    BY <1>2, <1>a, ThreadTypes
  <2>3. FreshEnough' /\ \A v \in reported' : ~tick'[v] => updateAge' <= period'[v] - untilTick'[v]
    BY <1>b, <2>1, <2>2 DEF FreshEnough
  <2>4. HealthInv'
    BY <1>1, <1>3, <2>1, <2>3 DEF HealthInv, Never
  <2> QED BY <1>c, <2>4 DEF ServiceInv
<1>5. CASE ~Reports(w)
  <2>1. UNCHANGED <<updateAge, tick, reported, period, untilTick>> /\ ~tick[w]
    BY <1>5 DEF StoreReturns, Reports
  <2>3. FreshEnough'
    <3> SUFFICES ASSUME NEW v \in reported PROVE updateAge <= period[v] + storeAge'[v]
      BY <2>1 DEF FreshEnough
    <3>1. v \in Threads
      BY DEF ServiceInv, TypeOK
    <3>2. CASE v = w
      <4>1. updateAge <= period[w] - untilTick[w]
        BY <2>1, <3>2 DEF ServiceInv, HealthInv
      <4> QED BY <3>2, <4>1, <1>3
    <3>3. CASE v # w
      BY <3>1, <3>3, <1>2 DEF ServiceInv, HealthInv, FreshEnough
    <3> QED BY <3>2, <3>3
  <2>4. updateAge # Never => \E v \in Threads : storeAge'[v] <= updateAge
    <3>1. updateAge # Never => 0 <= updateAge
      BY DEF ServiceInv, TypeOK, Never
    <3> QED BY <3>1, <1>3
  <2>5. HealthInv'
    BY <1>1, <2>1, <2>3, <2>4 DEF ServiceInv, HealthInv
  <2> QED BY <1>c, <2>5 DEF ServiceInv
<1> QED BY <1>4, <1>5

LEMMA OlderBounds ==
  ASSUME NEW a \in 0..MaxAge
  PROVE  /\ Older(a) \in 0..MaxAge /\ a <= Older(a) /\ Older(a) <= a + 1
         /\ \A b \in 0..MaxAge : a <= b => Older(a) <= Older(b)
         /\ \A b \in 0..MaxAge, n \in Nat : a <= n + b => Older(a) <= n + Older(b)
  BY ServiceAssumption DEF Older

LEMMA TimePassesStep == ServiceInv /\ TimePasses => ServiceInv'
<1> SUFFICES ASSUME ServiceInv, TimePasses PROVE ServiceInv'
  OBVIOUS
<1>1. Threads' = Threads /\ Started' = Started /\ reported' = reported /\ period' = period
  BY DEF TimePasses, settings, Threads, Started
<1>2. \A w \in Threads : /\ period[w] \in Nat /\ untilTick[w] \in 1..period[w]
                         /\ storeAge[w] \in 0..MaxAge /\ storeAge'[w] = Older(storeAge[w])
                         /\ untilTick'[w] = NextTick(w) /\ tick'[w] = (tick[w] \/ Ticks(w))
  BY ServiceAssumption DEF TimePasses, ServiceInv, TypeOK
<1>3. \A w \in Threads : /\ untilTick[w] = 1 => untilTick'[w] = period[w] /\ tick'[w]
                         /\ untilTick[w] # 1 => untilTick'[w] = untilTick[w] - 1
                                                /\ (tick'[w] <=> tick[w])
  BY <1>2 DEF NextTick, Ticks, TimePasses, ServiceInv, TypeOK
<1>4. updateAge = Never \/ updateAge \in 0..MaxAge
  BY ServiceAssumption DEF ServiceInv, TypeOK, Never
<1>5. /\ updateAge = Never => updateAge' = Never
      /\ updateAge # Never => updateAge' = Older(updateAge) /\ updateAge' \in 0..MaxAge
  BY <1>4, OlderBounds DEF TimePasses
<1>6. TypeOK'
  <2>1. updateAge' \in Never..MaxAge
    BY <1>4, <1>5, ServiceAssumption DEF Never
  <2>2. storeAge' \in [Threads -> 0..MaxAge]
    BY <1>2, OlderBounds DEF TimePasses
  <2>3. \A w \in Threads : untilTick'[w] \in 1..period[w]
    BY <1>2, <1>3
  <2>4. tick' \in [Threads -> BOOLEAN] /\ DOMAIN untilTick' = Threads
    BY DEF TimePasses, ServiceInv, TypeOK, Ticks
  <2> QED BY <1>1, <2>1, <2>2, <2>3, <2>4 DEF ServiceInv, TypeOK, TimePasses, settings
<1>7. reported \subseteq Threads /\ (reported # {} => updateAge # Never)
  BY DEF ServiceInv, TypeOK, HealthInv
<1>8. FreshEnough'
  <2> SUFFICES ASSUME NEW w \in reported PROVE updateAge' <= period[w] + storeAge'[w]
    BY <1>1 DEF FreshEnough
  <2>1. updateAge \in 0..MaxAge /\ updateAge' = Older(updateAge)
    BY <1>4, <1>5, <1>7
  <2>2. updateAge <= period[w] + storeAge[w]
    BY DEF ServiceInv, HealthInv, FreshEnough
  <2> QED BY <2>1, <2>2, <1>2, <1>7, OlderBounds
<1>9. \A w \in reported : ~tick'[w] => updateAge' <= period[w] - untilTick'[w]
  <2> SUFFICES ASSUME NEW w \in reported, ~tick'[w]
               PROVE  updateAge' <= period[w] - untilTick'[w]
    OBVIOUS
  <2>1. untilTick'[w] = untilTick[w] - 1 /\ ~tick[w]
    BY <1>3, <1>7
  <2>2. updateAge <= period[w] - untilTick[w]
    BY <2>1 DEF ServiceInv, HealthInv
  <2>3. updateAge \in 0..MaxAge /\ updateAge' <= updateAge + 1 /\ updateAge' \in Int
    BY <1>4, <1>5, <1>7, OlderBounds
  <2> QED BY <2>1, <2>2, <2>3, <1>2, <1>7
<1>10. updateAge' # Never => \E w \in Threads : storeAge'[w] <= updateAge'
  <2> SUFFICES ASSUME updateAge' # Never PROVE \E w \in Threads : storeAge'[w] <= updateAge'
    OBVIOUS
  <2>1. updateAge \in 0..MaxAge /\ updateAge' = Older(updateAge)
    BY <1>4, <1>5
  <2>2. PICK w \in Threads : storeAge[w] <= updateAge
    BY <2>1 DEF ServiceInv, HealthInv, Never
  <2> QED BY <2>1, <2>2, <1>2, OlderBounds
<1>11. reported # {} => updateAge' # Never
  BY <1>5, <1>7 DEF Never
<1>12. HealthInv'
  BY <1>1, <1>8, <1>9, <1>10, <1>11 DEF HealthInv, Never
<1> QED BY <1>1, <1>6, <1>12 DEF ServiceInv, ThreadsAsSet, DelayParsed, TimePasses, settings

LEMMA ServiceInvStep == ServiceInv /\ [Next]_vars => ServiceInv'
<1> SUFFICES ASSUME ServiceInv, [Next]_vars PROVE ServiceInv'
  OBVIOUS
<1>1. CASE Preparing
  <2>1. /\ UNCHANGED <<settings, updateAge, workers>> /\ phase' \in Phases /\ DelayParsed'
        /\ phase \notin {"running", "exited"} /\ phase' \notin {"running", "exited"}
    BY <1>1 DEF Preparing, Prepare, ParsePollingDelayMean, NoLogs, Phases, DelayParsed, settings
  <2> QED BY <2>1 DEF ServiceInv, TypeOK, HealthInv, FreshEnough, ThreadsAsSet, DelayParsed, Threads, Started,
                      settings, workers
<1>2. ASSUME NEW w \in Threads, TakeEntry(w) \/ Discard(w) PROVE ServiceInv'
  BY <1>2 DEF TakeEntry, Discard, settings, ServiceInv, TypeOK, HealthInv, FreshEnough,
              ThreadsAsSet, DelayParsed, Threads, Started
<1>3. CASE Exit \/ Ended \/ UNCHANGED vars
  <2>1. UNCHANGED <<settings, updateAge, workers>> /\ (phase' = phase \/ (phase = "running" /\ phase' = "exited"))
    BY <1>3 DEF Exit, Ended, vars
  <2> QED BY <2>1 DEF ServiceInv, TypeOK, HealthInv, FreshEnough, ThreadsAsSet, DelayParsed, Threads, Started,
                      settings, workers, Phases
<1> QED
  BY <1>1, <1>2, <1>3, ConfigureStep, StartStep, StoreReturnsStep, TimePassesStep
     DEF Next, Preparing

LEMMA ServiceInvHolds == Spec => []ServiceInv
  BY InitServiceInv, ServiceInvStep, PTL DEF Spec

(* lastUpdateTime is at most one ticker period older than the last Store of any
   thread that has reported, and never newer than the last Store of them all,
   for every number of threads and all periods of their tickers. *)
THEOREM HealthInvHolds == Spec => []HealthInv
<1>1. ServiceInv => HealthInv
  BY DEF ServiceInv
<1> QED BY <1>1, ServiceInvHolds, PTL

(* The variables keep their types: as many tickers, flags and ages as there
   are threads, for every value of numThreads. *)
THEOREM TypeCorrect == Spec => []TypeOK
<1>1. ServiceInv => TypeOK
  BY DEF ServiceInv
<1> QED BY <1>1, ServiceInvHolds, PTL

(* /health answers 200 only if a Store returned within the evaluation time. *)
THEOREM HealthyMeansStoringHolds == Spec => []HealthyMeansStoring
<1>1. ServiceInv => HealthyMeansStoring
  <2> SUFFICES ASSUME ServiceInv, Serving, Health = 200
               PROVE  \E w \in Threads : storeAge[w] <= EvaluationTime
    BY DEF HealthyMeansStoring
  <2>1. updateAge # Never /\ ~(updateAge > EvaluationTime)
    BY DEF Health
  <2>2. PICK w \in Threads : storeAge[w] <= updateAge
    BY <2>1 DEF ServiceInv, HealthInv
  <2>3. EvaluationTime \in Int /\ updateAge \in Int /\ storeAge[w] \in Int
    BY ThreadTypes, ServiceAssumption
       DEF ServiceInv, TypeOK, Never, DelayParsed, Serving, EvaluationTime
  <2> QED BY <2>1, <2>2, <2>3
<1> QED BY <1>1, ServiceInvHolds, PTL

(* /health answers 500 only if every thread that ever reported has stored
   nothing for the evaluation time less one period of its ticker. *)
THEOREM UnhealthyMeansSilentHolds == Spec => []UnhealthyMeansSilent
<1>1. ServiceInv => UnhealthyMeansSilent
  <2> SUFFICES ASSUME ServiceInv, Serving, Health = 500, NEW w \in reported
               PROVE  storeAge[w] > EvaluationTime - period[w]
    BY DEF UnhealthyMeansSilent
  <2>1. updateAge > EvaluationTime
    BY DEF Health
  <2>2. updateAge <= period[w] + storeAge[w]
    BY DEF ServiceInv, HealthInv, FreshEnough
  <2>3. w \in Threads
    BY DEF ServiceInv, TypeOK
  <2>4. /\ EvaluationTime \in Int /\ updateAge \in Int
        /\ storeAge[w] \in Int /\ period[w] \in Int
    BY <2>3, ThreadTypes, ServiceAssumption
       DEF ServiceInv, TypeOK, Never, DelayParsed, Serving, EvaluationTime
  <2> QED BY <2>1, <2>2, <2>4
<1> QED BY <1>1, ServiceInvHolds, PTL
=============================================================================

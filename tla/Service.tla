------------------------------ MODULE Service ------------------------------
(***************************************************************************)
(* ct-fetch as its operator sees it: main's start (configuration, storage, *)
(* telemetry, log list), and the /health endpoint over what the            *)
(* insertCTWorker threads report to it.  Time passes in ticks; every age   *)
(* and countdown is kept relative to now, and an age stops counting at     *)
(* MaxAge.  The log positions and the channel are LogSync's; here a worker *)
(* just gets entries, some of which it discards.                           *)
(***************************************************************************)
EXTENDS Integers

CONSTANTS
  IntSettings,  \* what numThreads may be set to: integers and Malformed
  DurSettings,  \* what pollingDelayMean may be set to: integers, Malformed, Empty
  Unset,        \* no such environment variable, no such key in the file
  Malformed,    \* a setting that its parser rejects
  Empty,        \* a setting with an empty value
  DefaultMean,  \* 10m
  Periods,      \* healthStatusDuration: 15s plus a jitter below 15s
  MaxAge        \* bound: ages stop here

ASSUME ServiceAssumption ==
  /\ IntSettings \subseteq Int \cup {Malformed}
  /\ DurSettings \subseteq Int \cup {Malformed, Empty}
  /\ {Unset, Malformed, Empty} \cap Int = {}
  /\ DefaultMean \in Nat
  /\ Periods \subseteq Nat \ {0} /\ Periods # {}
  /\ MaxAge \in Nat

VARIABLES
  phase,       \* where main is
  numThreads, pollingDelayMean,  \* the settings in force
  updateAge,   \* age of lastUpdateTime, Never while it is zero
  period,      \* period[w]: healthStatusDuration of worker w
  untilTick,   \* untilTick[w]: time to its ticker's next tick
  tick,        \* tick[w]: a tick waits in healthStatusTicker.C (capacity 1)
  busy,        \* busy[w]: w has an entry in hand
  storeAge,    \* history: time since Store last returned to w, or w began
  reported     \* history: workers that have set lastUpdateTime

settings == <<numThreads, pollingDelayMean>>
workers  == <<period, untilTick, tick, busy, storeAge, reported>>
vars == <<phase, settings, updateAge, workers>>

Never   == -1
Threads == DOMAIN period
Older(age) == IF age < MaxAge THEN age + 1 ELSE age

Phases == {"config", "storage", "telemetry", "polling", "logs", "running",
           "fatal", "usage", "exited"}

TypeOK ==
  /\ phase \in Phases
  /\ numThreads \in Int /\ pollingDelayMean \in Int \cup {Malformed, Empty}
  /\ updateAge \in Never..MaxAge
  /\ period \in [Threads -> Periods]
  /\ DOMAIN untilTick = Threads /\ \A w \in Threads : untilTick[w] \in 1..period[w]
  /\ tick \in [Threads -> BOOLEAN] /\ busy \in [Threads -> BOOLEAN]
  /\ storeAge \in [Threads -> 0..MaxAge] /\ reported \subseteq Threads
  /\ phase \notin {"running", "exited"} => Threads = {}

NoWorkers == [w \in {} |-> 0]

Init ==
  /\ phase = "config" /\ numThreads = 0 /\ pollingDelayMean = 0
  /\ updateAge = Never
  /\ period = NoWorkers /\ untilTick = NoWorkers /\ tick = NoWorkers
  /\ busy = NoWorkers /\ storeAge = NoWorkers /\ reported = {}
-----------------------------------------------------------------------------
(* Plausible slips in single definitions below, used by nothing else. *)
MutUnbufferedTick(w) == untilTick[w] = 1 /\ ~busy[w]
MutTickerOff(w) == FALSE
MutOneShot(w) == untilTick[w] - 1
MutDiscardReports(w) ==
  /\ phase = "running" /\ busy[w]
  /\ busy' = [busy EXCEPT ![w] = FALSE]
  /\ updateAge' = IF tick[w] THEN 0 ELSE updateAge
  /\ tick' = [tick EXCEPT ![w] = FALSE]
  /\ UNCHANGED <<phase, settings, period, untilTick, storeAge, reported>>
-----------------------------------------------------------------------------
(* confInt: an environment variable that parses, else the file's value if it
   parses, else the default. *)
ConfInt(env, ini, def) ==
  IF env \in Int THEN env ELSE IF ini \in Int THEN ini ELSE def

(* confString: an environment variable, even an empty one, else the file's
   value unless it is empty, else the default. *)
ConfString(env, ini, def) ==
  IF env # Unset THEN env ELSE IF ini \notin {Unset, Empty} THEN ini ELSE def

(* CTConfig.Init; a file that cannot be loaded leaves every key unset. *)
Configure ==
  /\ phase = "config"
  /\ \E env, ini \in IntSettings \cup {Unset} : numThreads' = ConfInt(env, ini, 1)
  /\ \E env, ini \in DurSettings \cup {Unset} : pollingDelayMean' = ConfString(env, ini, DefaultMean)
  /\ phase' = "storage"
  /\ UNCHANGED <<updateAge, workers>>

(* GetConfiguredStorage, PrepareTelemetry: each goes on or ends the process. *)
Prepare(p, q) ==
  /\ phase = p
  /\ phase' \in {q, "fatal"}
  /\ UNCHANGED <<settings, updateAge, workers>>

ParsePollingDelayMean ==
  /\ phase = "polling"
  /\ phase' = IF pollingDelayMean \in Int THEN "logs" ELSE "fatal"
  /\ UNCHANGED <<settings, updateAge, workers>>

(* No logList, or one of five characters or fewer: usage and exit status 2.  A
   URL or an outputRefreshPeriod that does not parse: Fatal. *)
NoLogs ==
  /\ phase = "logs"
  /\ phase' \in {"usage", "fatal"}
  /\ UNCHANGED <<settings, updateAge, workers>>

(* No thread at all if numThreads is zero or negative. *)
Started == 0..(numThreads - 1)

StartDatabaseThreads ==
  /\ phase = "logs"
  /\ phase' = "running"
  /\ \E p \in [Started -> Periods] : period' = p /\ untilTick' = p
  /\ tick' = [w \in Started |-> FALSE] /\ busy' = [w \in Started |-> FALSE]
  /\ storeAge' = [w \in Started |-> 0]
  /\ UNCHANGED <<settings, updateAge, reported>>
-----------------------------------------------------------------------------
TakeEntry(w) ==
  /\ phase = "running" /\ ~busy[w]
  /\ busy' = [busy EXCEPT ![w] = TRUE]
  /\ UNCHANGED <<phase, settings, updateAge, period, untilTick, tick, storeAge, reported>>

(* continue: a discarded entry does not get as far as the health ticker. *)
Discard(w) ==
  /\ phase = "running" /\ busy[w]
  /\ busy' = [busy EXCEPT ![w] = FALSE]
  /\ UNCHANGED <<phase, settings, updateAge, period, untilTick, tick, storeAge, reported>>

(* The select with a default: lastUpdateTime is set only when a tick waits. *)
Reports(w) == tick[w]

(* Store returns, with or without an error. *)
StoreReturns(w) ==
  /\ phase = "running" /\ busy[w]
  /\ busy' = [busy EXCEPT ![w] = FALSE]
  /\ storeAge' = [storeAge EXCEPT ![w] = 0]
  /\ \/ /\ Reports(w)
        /\ updateAge' = 0
        /\ tick' = [tick EXCEPT ![w] = FALSE]
        /\ reported' = reported \cup {w}
     \/ /\ ~Reports(w)
        /\ UNCHANGED <<updateAge, tick, reported>>
  /\ UNCHANGED <<phase, settings, period, untilTick>>

Ticks(w) == untilTick[w] = 1
NextTick(w) == IF untilTick[w] = 1 THEN period[w] ELSE untilTick[w] - 1

(* A tick that finds the channel full is dropped. *)
TimePasses ==
  /\ phase = "running"
  /\ updateAge' = IF updateAge = Never THEN Never ELSE Older(updateAge)
  /\ untilTick' = [w \in Threads |-> NextTick(w)]
  /\ tick' = [w \in Threads |-> tick[w] \/ Ticks(w)]
  /\ storeAge' = [w \in Threads |-> Older(storeAge[w])]
  /\ UNCHANGED <<phase, settings, period, busy, reported>>

(* The downloaders are done and main stops, or the process is killed. *)
Exit ==
  /\ phase = "running"
  /\ phase' = "exited"
  /\ UNCHANGED <<settings, updateAge, workers>>

Ended == phase \in {"fatal", "usage", "exited"} /\ UNCHANGED vars
-----------------------------------------------------------------------------
Next ==
  \/ Configure \/ Prepare("storage", "telemetry") \/ Prepare("telemetry", "polling")
  \/ ParsePollingDelayMean \/ NoLogs \/ StartDatabaseThreads
  \/ \E w \in Threads : TakeEntry(w) \/ Discard(w) \/ StoreReturns(w)
  \/ TimePasses \/ Exit \/ Ended

Spec == Init /\ [][Next]_vars

Pool == UNION {0..(n - 1) : n \in (IntSettings \ {Malformed}) \cup {1}}

(* Time goes on, and a worker is given entries of which it stores some. *)
FairSpec ==
  /\ Spec /\ WF_vars(TimePasses)
  /\ \A w \in Pool : /\ WF_vars(w \in Threads /\ TakeEntry(w))
                      /\ SF_vars(w \in Threads /\ StoreReturns(w))
-----------------------------------------------------------------------------
(* The answer of the /health handler. *)
EvaluationTime == 2 * pollingDelayMean

Health ==
  IF updateAge = Never THEN 503 ELSE IF updateAge > EvaluationTime THEN 500 ELSE 200

Serving == phase = "running"

(* 200 is never the answer when every Store has been stuck, or no thread has
   been fed, for longer than the evaluation time. *)
HealthyMeansStoring ==
  Serving /\ Health = 200 => \E w \in Threads : storeAge[w] <= EvaluationTime

(* A thread that has reported once is never behind by more than one period of
   its ticker and the time since its last Store: 500 is the answer only when
   all those threads have stored nothing for nearly the evaluation time. *)
FreshEnough == \A w \in reported : updateAge <= period[w] + storeAge[w]

UnhealthyMeansSilent ==
  Serving /\ Health = 500 => \A w \in reported : storeAge[w] > EvaluationTime - period[w]

(* The inductive invariant behind them: a thread whose ticker channel is empty
   took its last tick when it last reported, or has not been sent one. *)
HealthInv ==
  /\ FreshEnough
  /\ \A w \in reported : ~tick[w] => updateAge <= period[w] - untilTick[w]
  /\ updateAge # Never => \E w \in Threads : storeAge[w] <= updateAge
  /\ reported # {} => updateAge # Never

(* With at least one thread and entries to store, the answer is 200 sooner or
   later, after the start and after every 500. *)
BecomesHealthy ==
  (Serving /\ numThreads > 0 /\ pollingDelayMean >= 0) ~> (Health = 200 \/ ~Serving)
=============================================================================

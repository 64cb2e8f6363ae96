---------------------------- MODULE Coordinator ----------------------------
(***************************************************************************)
(* coordinator/coordinator.go: processes elect a leader through one Redis  *)
(* key with a limited life, the leader keeps it alive from a goroutine,    *)
(* and tells the followers to start through a second key.  Time passes in  *)
(* units (Tick); a step of a running call, and a renewal that is due, is   *)
(* taken at most MaxDelay units late.  An identifier is the process that   *)
(* made it up: hostname and random number are taken as unique.             *)
(***************************************************************************)
EXTENDS Integers, FiniteSets

CONSTANTS
  Nodes,           \* the processes that call AwaitLeader for one name
  None,            \* no identifier
  KeyLifeInitial,  \* life of a key set by TrySet (5 min)
  KeyLifeRenewal,  \* life after a renewal (2 min)
  RenewalPeriod,   \* sleep between two renewals (1 min)
  MaxDelay,        \* bound: how late a step of a running process may come
  MaxFailures,     \* bound: how many Redis requests fail
  MayDie           \* a process may be killed

ASSUME CoordinatorAssumption ==
  /\ KeyLifeInitial \in Nat \ {0} /\ KeyLifeRenewal \in Nat \ {0}
  /\ RenewalPeriod \in Nat /\ MaxDelay \in Nat
  /\ MaxFailures \in Nat /\ MayDie \in BOOLEAN
  /\ None \notin Nodes

(* Every call and every renewal comes in time: three steps of AwaitLeader fit
   into the first life of the key, one period into a renewed one. *)
Punctual ==
  /\ 3 * MaxDelay < KeyLifeInitial
  /\ RenewalPeriod + MaxDelay < KeyLifeRenewal

VARIABLES
  leaderKey,   \* Redis: value of leader-<name>, None if absent
  leaderLife,  \* Redis: units until leader-<name> expires
  startLife,   \* startLife[n]: units until started-<n> expires, 0 if absent
  pc,          \* pc[n]: where process n is
  identifier,  \* identifier[n]: c.identifier
  wait,        \* wait[n]: units the running call of n has been at its step
  leadAge,     \* leadAge[n]: units since the leader-key goroutine of n last woke
  startAge,    \* startAge[n]: the same for the started-key goroutine
  sent,        \* history: processes whose SendStart has set the key
  missed,      \* history: which keys a renewal or SendStart failed on
  failures     \* history: failed requests

redis   == <<leaderKey, leaderLife, startLife>>
timers  == <<wait, leadAge, startAge>>
history == <<sent, missed, failures>>
vars == <<redis, pc, identifier, timers, history>>

InCall  == {"get", "exists", "startget"}
Leading == {"leading", "startget", "startsent"}   \* AwaitLeader has returned true
Pcs == InCall \cup Leading \cup {"new", "await", "started", "failed", "dead"}

IsLeader(n) == identifier[n] = n

(* A slip of the next definition but one, used by nothing else. *)
MutOneRenewal(n) == FALSE

(* The goroutine of AwaitLeader, and the one of SendStart, is running. *)
Renewing(n) == pc[n] \in Leading
Announcing(n) == pc[n] = "startsent"
MaxAge == RenewalPeriod + MaxDelay

(* The values each variable takes; a leader key has a limited life as long as it
   is there, and no renewal is ever later than MaxDelay. *)
TypeOK ==
  /\ leaderKey \in Nodes \cup {None} /\ leaderLife \in Nat
  /\ leaderKey = None <=> leaderLife = 0
  /\ startLife \in [Nodes -> Nat]
  /\ pc \in [Nodes -> Pcs] /\ identifier \in [Nodes -> Nodes \cup {None}]
  /\ wait \in [Nodes -> 0..MaxDelay]
  /\ leadAge \in [Nodes -> 0..MaxAge] /\ startAge \in [Nodes -> 0..MaxAge]
  /\ sent \subseteq Nodes /\ missed \subseteq {"leader", "started"}
  /\ failures \in 0..MaxFailures

Init ==
  /\ leaderKey = None /\ leaderLife = 0
  /\ startLife = [n \in Nodes |-> 0]
  /\ pc = [n \in Nodes |-> "new"]
  /\ identifier = [n \in Nodes |-> None]
  /\ wait = [n \in Nodes |-> 0]
  /\ leadAge = [n \in Nodes |-> 0] /\ startAge = [n \in Nodes |-> 0]
  /\ sent = {} /\ missed = {} /\ failures = 0
-----------------------------------------------------------------------------
(* Plausible slips in single definitions below, used by nothing else. *)
MutSetAlways(n) == TRUE
MutAnyStart(n) == \E m \in Nodes : startLife[m] > 0
MutSetPeriod == RenewalPeriod
MutNoExpiration == 0
-----------------------------------------------------------------------------
(* A request to Redis fails. *)
RequestFails == failures < MaxFailures /\ failures' = failures + 1
Answered == UNCHANGED failures

(* AwaitLeader.  TrySet is SETNX with a life, followed by GET. *)
InitialLife == KeyLifeInitial

KeyFree(n) == leaderKey = None

TrySetNX(n) ==
  /\ pc[n] = "new"
  /\ IF KeyFree(n)
     THEN leaderKey' = n /\ leaderLife' = InitialLife
     ELSE UNCHANGED <<leaderKey, leaderLife>>
  /\ pc' = [pc EXCEPT ![n] = "get"]
  /\ wait' = [wait EXCEPT ![n] = 0]
  /\ UNCHANGED <<startLife, identifier, leadAge, startAge, history>>

(* SETNX fails, though Redis may have carried it out; or GET fails, or finds
   the key gone.  An error is returned, and a key that was set stays. *)
TrySetFails(n) ==
  /\ \/ /\ pc[n] = "new" /\ RequestFails
        /\ \/ KeyFree(n) /\ leaderKey' = n /\ leaderLife' = InitialLife
           \/ UNCHANGED <<leaderKey, leaderLife>>
     \/ /\ pc[n] = "get" /\ (RequestFails \/ (leaderKey = None /\ Answered))
        /\ UNCHANGED <<leaderKey, leaderLife>>
  /\ pc' = [pc EXCEPT ![n] = "failed"]
  /\ wait' = [wait EXCEPT ![n] = 0]
  /\ UNCHANGED <<startLife, identifier, leadAge, startAge, sent, missed>>

TryGet(n) ==
  /\ pc[n] = "get" /\ leaderKey # None
  /\ identifier' = [identifier EXCEPT ![n] = leaderKey]
  /\ pc' = [pc EXCEPT ![n] = IF leaderKey = n THEN "exists" ELSE "await"]
  /\ wait' = [wait EXCEPT ![n] = 0]
  /\ UNCHANGED <<redis, leadAge, startAge, history>>

(* The check of started-<identifier>: it aborts only on "err != nil && started",
   and Exists never answers true together with an error. *)
CheckStarted(n) ==
  /\ pc[n] = "exists"
  /\ pc' = [pc EXCEPT ![n] = "leading"]
  /\ leadAge' = [leadAge EXCEPT ![n] = RenewalPeriod]
  /\ wait' = [wait EXCEPT ![n] = 0]
  /\ UNCHANGED <<redis, identifier, startAge, history>>

(* The renewal goroutine: EXPIRE on the leader key, whoever's name is in it;
   an error is logged; then it sleeps. *)
RenewedLife == KeyLifeRenewal

Renew(n) ==
  /\ Renewing(n) /\ leadAge[n] >= RenewalPeriod
  /\ \/ leaderKey # None /\ leaderLife' = RenewedLife /\ Answered /\ UNCHANGED missed
     \/ leaderKey = None /\ Answered /\ UNCHANGED <<leaderLife, missed>>
     \/ RequestFails /\ UNCHANGED leaderLife /\ missed' = missed \cup {"leader"}
  /\ leadAge' = [leadAge EXCEPT ![n] = 0]
  /\ UNCHANGED <<leaderKey, startLife, pc, identifier, wait, startAge, sent>>
-----------------------------------------------------------------------------
(* SendStart: TrySet on started-<identifier>, then a goroutine of its own. *)
SetStartKey(n) ==
  /\ startLife' = [startLife EXCEPT ![n] = IF @ = 0 THEN InitialLife ELSE @]
  /\ sent' = sent \cup {n}

SendStartNX(n) ==
  /\ pc[n] = "leading"
  /\ SetStartKey(n)
  /\ pc' = [pc EXCEPT ![n] = "startget"]
  /\ UNCHANGED <<leaderKey, leaderLife, identifier, timers, missed, failures>>

SendStartGet(n) ==
  /\ pc[n] = "startget" /\ startLife[n] > 0
  /\ pc' = [pc EXCEPT ![n] = "startsent"]
  /\ startAge' = [startAge EXCEPT ![n] = RenewalPeriod]
  /\ wait' = [wait EXCEPT ![n] = 0]
  /\ UNCHANGED <<redis, identifier, leadAge, history>>

(* SendStart returns an error; the process is still the leader, and the key
   may have been set. *)
SendStartFails(n) ==
  /\ \/ pc[n] = "leading" /\ RequestFails /\ (SetStartKey(n) \/ UNCHANGED <<startLife, sent>>)
     \/ pc[n] = "startget" /\ (RequestFails \/ (startLife[n] = 0 /\ Answered)) /\ UNCHANGED <<startLife, sent>>
  /\ missed' = missed \cup {"started"}
  /\ pc' = [pc EXCEPT ![n] = "leading"]
  /\ wait' = [wait EXCEPT ![n] = 0]
  /\ UNCHANGED <<leaderKey, leaderLife, identifier, leadAge, startAge>>

RenewStart(n) ==
  /\ Announcing(n) /\ startAge[n] >= RenewalPeriod
  /\ \/ /\ startLife[n] > 0
        /\ startLife' = [startLife EXCEPT ![n] = RenewedLife]
        /\ Answered /\ UNCHANGED missed
     \/ startLife[n] = 0 /\ Answered /\ UNCHANGED <<startLife, missed>>
     \/ RequestFails /\ UNCHANGED startLife /\ missed' = missed \cup {"started"}
  /\ startAge' = [startAge EXCEPT ![n] = 0]
  /\ UNCHANGED <<leaderKey, leaderLife, pc, identifier, wait, leadAge, sent>>
-----------------------------------------------------------------------------
(* AwaitStart: look, sleep AwaitSleepPeriod, look again, without end. *)
StartVisible(n) == startLife[identifier[n]] > 0

AwaitStart(n) ==
  /\ pc[n] = "await" /\ StartVisible(n)
  /\ pc' = [pc EXCEPT ![n] = "started"]
  /\ UNCHANGED <<redis, identifier, timers, history>>

AwaitStartFails(n) ==
  /\ pc[n] = "await" /\ RequestFails
  /\ pc' = [pc EXCEPT ![n] = "failed"]
  /\ UNCHANGED <<redis, identifier, timers, sent, missed>>
-----------------------------------------------------------------------------
Die(n) ==
  /\ MayDie /\ pc[n] # "dead"
  /\ pc' = [pc EXCEPT ![n] = "dead"]
  /\ wait' = [wait EXCEPT ![n] = 0]
  /\ leadAge' = [leadAge EXCEPT ![n] = 0]
  /\ startAge' = [startAge EXCEPT ![n] = 0]
  /\ UNCHANGED <<redis, identifier, history>>

(* One unit passes, unless a process would come later than MaxDelay. *)
Elapse(life) == IF life = 0 THEN 0 ELSE life - 1

InTime ==
  \A n \in Nodes : /\ pc[n] \in InCall => wait[n] < MaxDelay
                   /\ Renewing(n) => leadAge[n] < MaxAge
                   /\ Announcing(n) => startAge[n] < MaxAge

Tick ==
  /\ InTime
  /\ leaderLife' = Elapse(leaderLife)
  /\ leaderKey' = IF leaderLife <= 1 THEN None ELSE leaderKey
  /\ startLife' = [n \in Nodes |-> Elapse(startLife[n])]
  /\ wait' = [n \in Nodes |-> IF pc[n] \in InCall THEN wait[n] + 1 ELSE wait[n]]
  /\ leadAge' = [n \in Nodes |-> IF Renewing(n) THEN leadAge[n] + 1 ELSE leadAge[n]]
  /\ startAge' = [n \in Nodes |-> IF Announcing(n) THEN startAge[n] + 1 ELSE startAge[n]]
  /\ UNCHANGED <<pc, identifier, history>>

Process(n) ==
  \/ TrySetNX(n) \/ TrySetFails(n) \/ TryGet(n) \/ CheckStarted(n) \/ Renew(n)
  \/ SendStartNX(n) \/ SendStartGet(n) \/ SendStartFails(n) \/ RenewStart(n)
  \/ AwaitStart(n) \/ AwaitStartFails(n)

Next == Tick \/ \E n \in Nodes : Process(n) \/ Die(n)

Spec == Init /\ [][Next]_vars

(* A follower that sleeps wakes up and looks again; renewals are taken because
   time passes. *)
FairSpec ==
  /\ Spec
  /\ \A n \in Nodes : WF_vars(AwaitStart(n))
-----------------------------------------------------------------------------
(* Live processes whose AwaitLeader answered true. *)
Leaders == {n \in Nodes : IsLeader(n) /\ pc[n] # "dead"}

(* "Expected exactly one leader" (coordinator_test.go): no two live processes
   believe they lead. *)
AtMostOneLeader == \A n, m \in Leaders : n = m

(* What the code does keep of it: no failure of any other request, and no
   death, ever makes two live processes lead; only a failed renewal can. *)
OneLeaderUnlessMissed == "leader" \notin missed => AtMostOneLeader

(* The inductive invariant behind it: the key of a leader outlives the latest
   moment of the step that extends it. *)
LeaderKeysLive ==
  \A n \in Nodes :
    /\ pc[n] = "new" => leaderKey # n
    /\ leaderKey = n /\ pc[n] = "get" => leaderLife > 3 * MaxDelay - wait[n]
    /\ pc[n] = "exists" => leaderKey = n /\ leaderLife > 2 * MaxDelay - wait[n]
    /\ Renewing(n) => leaderKey = n /\ leaderLife > MaxAge - leadAge[n]
    /\ pc[n] \in {"new", "get"} => identifier[n] = None
    /\ pc[n] \in {"await", "started", "failed"} => identifier[n] # n

KeyOutlives == "leader" \notin missed => LeaderKeysLive

(* A follower starts only after the leader it follows has sent the start, also
   when earlier leaders with a start of their own have come and gone. *)
NoFalseStart == \A n \in Nodes : pc[n] = "started" => identifier[n] \in sent

(* Once the leader has sent the start, every follower of it is released, unless
   the leader dies or a request for the started key fails. *)
StartReaches ==
  \A n, m \in Nodes :
    (pc[n] = "await" /\ identifier[n] = m /\ pc[m] = "startsent")
      ~> (pc[n] # "await" \/ pc[m] = "dead" \/ "started" \in missed)
=============================================================================

------------------------- MODULE CoordinatorProofs -------------------------
(***************************************************************************)
(* Proofs about Coordinator, for every number of processes and all lives,  *)
(* periods and delays.                                                     *)
(***************************************************************************)
EXTENDS Coordinator, TLAPS

(* Every variable keeps its type, and no step comes later than MaxDelay. *)
THEOREM TypeCorrect == Spec => []TypeOK
<1>1. Init => TypeOK
  BY CoordinatorAssumption DEF Init, TypeOK, Pcs, MaxAge
<1>2. TypeOK /\ [Next]_vars => TypeOK'
  <2> SUFFICES ASSUME TypeOK, [Next]_vars PROVE TypeOK'
    OBVIOUS
  <2> USE CoordinatorAssumption DEF redis, timers, history, Pcs, InCall, Leading, MaxAge
  <2>0. ASSUME RequestFails \/ Answered PROVE failures' \in 0..MaxFailures
    BY <2>0 DEF RequestFails, Answered, TypeOK
  <2>1. ASSUME NEW n \in Nodes, TrySetNX(n) \/ TrySetFails(n) \/ TryGet(n) \/ CheckStarted(n)
        PROVE TypeOK'
    <3>1. CASE TrySetNX(n)
      BY <3>1 DEF TypeOK, TrySetNX, InitialLife, KeyFree
    <3>2. CASE TrySetFails(n)
      <4>1. failures' \in 0..MaxFailures
        BY <3>2, <2>0 DEF TrySetFails
      <4> QED BY <3>2, <4>1 DEF TypeOK, TrySetFails, InitialLife, KeyFree
    <3>3. CASE TryGet(n)
      BY <3>3 DEF TypeOK, TryGet
    <3>4. CASE CheckStarted(n)
      BY <3>4 DEF TypeOK, CheckStarted
    <3> QED BY <2>1, <3>1, <3>2, <3>3, <3>4
  <2>2. ASSUME NEW n \in Nodes, Renew(n) \/ RenewStart(n) PROVE TypeOK'
    <3>1. failures' \in 0..MaxFailures
      BY <2>2, <2>0 DEF Renew, RenewStart
    <3>2. missed' \subseteq {"leader", "started"}
      BY <2>2 DEF Renew, RenewStart, TypeOK
    <3> QED BY <2>2, <3>1, <3>2 DEF TypeOK, Renew, RenewStart, RenewedLife
  <2>3. ASSUME NEW n \in Nodes, SendStartNX(n) \/ SendStartGet(n) \/ SendStartFails(n)
        PROVE TypeOK'
    <3>1. CASE SendStartNX(n)
      BY <3>1 DEF TypeOK, SendStartNX, SetStartKey, InitialLife
    <3>3. CASE SendStartGet(n)
      BY <3>3 DEF TypeOK, SendStartGet
    <3>2. CASE SendStartFails(n)
      <4>1. failures' \in 0..MaxFailures
        BY <3>2, <2>0 DEF SendStartFails
      <4>2. missed' \subseteq {"leader", "started"}
        BY <3>2 DEF SendStartFails, TypeOK
      <4> QED BY <3>2, <4>1, <4>2 DEF TypeOK, SendStartFails, SetStartKey, InitialLife
    <3> QED BY <2>3, <3>1, <3>2, <3>3
  <2>4. ASSUME NEW n \in Nodes, AwaitStart(n) \/ AwaitStartFails(n) \/ Die(n) PROVE TypeOK'
    <3>1. failures' \in 0..MaxFailures
      BY <2>4, <2>0 DEF AwaitStart, AwaitStartFails, Die, TypeOK
    <3>2. CASE AwaitStart(n) \/ AwaitStartFails(n)
      BY <3>1, <3>2 DEF TypeOK, AwaitStart, AwaitStartFails
    <3>3. CASE Die(n)
      BY <3>1, <3>3 DEF TypeOK, Die
    <3> QED BY <2>4, <3>2, <3>3
  <2>5. CASE Tick
    <3>1. /\ leaderLife' \in Nat /\ leaderKey' \in Nodes \cup {None}
          /\ leaderKey' = None <=> leaderLife' = 0
      BY <2>5 DEF TypeOK, Tick, Elapse
    <3>2. startLife' \in [Nodes -> Nat]
      <4>1. \A n \in Nodes : startLife[n] \in Nat
        BY DEF TypeOK
      <4>2. \A n \in Nodes : Elapse(startLife[n]) \in Nat
        BY <4>1 DEF Elapse
      <4> QED BY <2>5, <4>2 DEF Tick
    <3>3. wait' \in [Nodes -> 0..MaxDelay]
      <4>1. ASSUME NEW n \in Nodes
            PROVE  (IF pc[n] \in InCall THEN wait[n] + 1 ELSE wait[n]) \in 0..MaxDelay
        <5>1. wait[n] \in 0..MaxDelay /\ (pc[n] \in InCall => wait[n] < MaxDelay)
          BY <2>5 DEF TypeOK, Tick, InTime
        <5> QED BY <5>1, CoordinatorAssumption
      <4> QED BY <2>5, <4>1 DEF Tick
    <3>4. leadAge' \in [Nodes -> 0..MaxAge]
      BY <2>5 DEF TypeOK, Tick, InTime
    <3>5. startAge' \in [Nodes -> 0..MaxAge]
      BY <2>5 DEF TypeOK, Tick, InTime
    <3> QED BY <2>5, <3>1, <3>2, <3>3, <3>4, <3>5 DEF TypeOK, Tick
  <2>6. CASE UNCHANGED vars
    BY <2>6 DEF TypeOK, vars
  <2> QED BY <2>1, <2>2, <2>3, <2>4, <2>5, <2>6 DEF Next, Process
<1> QED BY <1>1, <1>2, PTL DEF Spec

LEMMA LeaderKeysLiveStep ==
  ASSUME Punctual, TypeOK, LeaderKeysLive, [Next]_vars, "leader" \notin missed'
  PROVE  LeaderKeysLive'
<1> USE CoordinatorAssumption DEF redis, timers, history, Pcs, InCall, Leading, MaxAge, Renewing
<1>1. ASSUME NEW n \in Nodes, TrySetNX(n) PROVE LeaderKeysLive'
  <2>1. CASE leaderKey = None
    <3>1. \A m \in Nodes : pc[m] # "exists" /\ ~Renewing(m)
      BY <2>1 DEF LeaderKeysLive
    <3>2. /\ leaderKey' = n /\ leaderLife' = KeyLifeInitial
          /\ wait'[n] = 0 /\ pc'[n] = "get" /\ pc[n] = "new"
          /\ \A m \in Nodes \ {n} : pc'[m] = pc[m]
          /\ identifier' = identifier
      BY <1>1, <2>1 DEF TrySetNX, KeyFree, InitialLife, TypeOK
    <3>3. KeyLifeInitial > 3 * MaxDelay - 0
      BY DEF Punctual
    <3> QED BY <3>1, <3>2, <3>3 DEF LeaderKeysLive
  <2>2. CASE leaderKey # None
    BY <1>1, <2>2 DEF TrySetNX, KeyFree, Punctual, TypeOK, LeaderKeysLive
  <2> QED BY <2>1, <2>2
<1>2. ASSUME NEW n \in Nodes, TrySetFails(n) PROVE LeaderKeysLive'
  <2>1. /\ pc' = [pc EXCEPT ![n] = "failed"] /\ wait' = [wait EXCEPT ![n] = 0]
        /\ UNCHANGED <<identifier, leadAge>>
        /\ pc[n] \in {"new", "get"}
    BY <1>2 DEF TrySetFails
  <2>2. CASE UNCHANGED <<leaderKey, leaderLife>>
    BY <2>1, <2>2 DEF TypeOK, LeaderKeysLive
  <2>3. CASE KeyFree(n) /\ leaderKey' = n /\ leaderLife' = InitialLife
    <3>1. \A m \in Nodes : pc[m] # "exists" /\ ~Renewing(m)
      BY <2>3 DEF LeaderKeysLive, KeyFree
    <3> QED BY <2>1, <2>3, <3>1 DEF TypeOK, LeaderKeysLive
  <2> QED BY <1>2, <2>2, <2>3 DEF TrySetFails
<1>3. ASSUME NEW n \in Nodes, TryGet(n) PROVE LeaderKeysLive'
  BY <1>3 DEF TryGet, TypeOK, LeaderKeysLive
<1>4. ASSUME NEW n \in Nodes, CheckStarted(n) PROVE LeaderKeysLive'
  BY <1>4 DEF CheckStarted, TypeOK, LeaderKeysLive
<1>5. ASSUME NEW n \in Nodes, Renew(n) PROVE LeaderKeysLive'
  BY <1>5 DEF Renew, RenewedLife, Punctual, TypeOK, LeaderKeysLive
<1>6. ASSUME NEW n \in Nodes, SendStartNX(n) \/ SendStartGet(n) \/ SendStartFails(n)
      PROVE LeaderKeysLive'
  BY <1>6 DEF SendStartNX, SendStartGet, SendStartFails, TypeOK, LeaderKeysLive
<1>7. ASSUME NEW n \in Nodes, RenewStart(n) \/ AwaitStart(n) \/ AwaitStartFails(n) \/ Die(n)
      PROVE LeaderKeysLive'
  BY <1>7 DEF RenewStart, AwaitStart, AwaitStartFails, Die, TypeOK, LeaderKeysLive
<1>8. CASE Tick
  BY <1>8 DEF Tick, InTime, Elapse, TypeOK, LeaderKeysLive
<1>9. CASE UNCHANGED vars
  BY <1>9 DEF vars, LeaderKeysLive
<1> QED BY <1>1, <1>2, <1>3, <1>4, <1>5, <1>6, <1>7, <1>8, <1>9 DEF Next, Process

(* Under Punctual a leader's key outlives the latest moment of its next
   renewal, as long as no renewal has failed. *)
THEOREM KeyOutlivesHolds == ASSUME Punctual PROVE Spec => []KeyOutlives
<1>1. Init => KeyOutlives
  BY CoordinatorAssumption DEF Init, KeyOutlives, LeaderKeysLive, Renewing, Leading
<1>2. [Next]_vars => missed \subseteq missed'
  BY DEF Next, Process, TrySetNX, TrySetFails, TryGet, CheckStarted, Renew, SendStartNX,
    SendStartGet, SendStartFails, RenewStart, AwaitStart, AwaitStartFails, Die, Tick, vars, history
<1>3. TypeOK /\ KeyOutlives /\ [Next]_vars => KeyOutlives'
  BY <1>2, LeaderKeysLiveStep DEF KeyOutlives
<1> QED BY <1>1, <1>3, TypeCorrect, PTL DEF Spec

(* Under Punctual no two live processes ever lead at once unless a renewal of
   the leader key failed: the key of the first makes SETNX of any other process
   fail.  No other failing request, and no death, matters. *)
THEOREM OneLeaderHolds == ASSUME Punctual PROVE Spec => []OneLeaderUnlessMissed
<1>1. TypeOK /\ KeyOutlives => OneLeaderUnlessMissed
  <2> SUFFICES ASSUME TypeOK, KeyOutlives, "leader" \notin missed, NEW n \in Leaders
               PROVE  leaderKey = n
    BY DEF OneLeaderUnlessMissed, AtMostOneLeader
  <2> QED BY CoordinatorAssumption
          DEF Leaders, IsLeader, TypeOK, KeyOutlives, LeaderKeysLive, Renewing, Pcs, InCall, Leading
<1> QED BY <1>1, KeyOutlivesHolds, TypeCorrect, PTL

(* An identifier that a follower trusts, and a started key, belong to a process
   that has called SendStart, or the follower has not started. *)
StartKeysSent ==
  \A n \in Nodes : /\ startLife[n] > 0 => n \in sent
                   /\ pc[n] = "await" => identifier[n] \in Nodes
                   /\ pc[n] = "started" => identifier[n] \in sent

(* A follower starts only once the leader it follows has sent the start, for
   every number of processes, deaths, failing requests and lives of the keys. *)
THEOREM NoFalseStartHolds == Spec => []NoFalseStart
<1>1. Init => StartKeysSent
  BY CoordinatorAssumption DEF Init, StartKeysSent
<1>2. TypeOK /\ StartKeysSent /\ [Next]_vars => StartKeysSent'
  <2> SUFFICES ASSUME TypeOK, StartKeysSent, [Next]_vars PROVE StartKeysSent'
    OBVIOUS
  <2> USE CoordinatorAssumption DEF redis, timers, history, Pcs, InCall, Leading, RequestFails,
    Answered, StartKeysSent, TypeOK
  <2>1. ASSUME NEW n \in Nodes, TrySetNX(n) \/ TrySetFails(n) \/ CheckStarted(n)
        PROVE  StartKeysSent'
    BY <2>1 DEF TrySetNX, TrySetFails, CheckStarted
  <2>2. ASSUME NEW n \in Nodes, TryGet(n) PROVE StartKeysSent'
    BY <2>2 DEF TryGet
  <2>3. ASSUME NEW n \in Nodes, Renew(n) \/ RenewStart(n) PROVE StartKeysSent'
    BY <2>3 DEF Renew, RenewStart
  <2>4. ASSUME NEW n \in Nodes, SendStartNX(n) \/ SendStartGet(n) \/ SendStartFails(n)
        PROVE  StartKeysSent'
    BY <2>4 DEF SendStartNX, SendStartGet, SendStartFails, SetStartKey
  <2>5. ASSUME NEW n \in Nodes, AwaitStart(n) \/ AwaitStartFails(n) \/ Die(n)
        PROVE  StartKeysSent'
    BY <2>5 DEF AwaitStart, StartVisible, AwaitStartFails, Die
  <2>6. CASE Tick
    BY <2>6 DEF Tick, Elapse
  <2>7. CASE UNCHANGED vars
    BY <2>7 DEF vars
  <2> QED BY <2>1, <2>2, <2>3, <2>4, <2>5, <2>6, <2>7 DEF Next, Process
<1>3. StartKeysSent => NoFalseStart
  BY DEF StartKeysSent, NoFalseStart
<1> QED BY <1>1, <1>2, <1>3, TypeCorrect, PTL DEF Spec
=============================================================================

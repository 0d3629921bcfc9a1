----------------------- MODULE NotificationHubProofs -----------------------
(* What the lock that the cleanup task keeps means, whoever subscribes and *)
(* however the users are spread over the shards.                           *)
EXTENDS NotificationHub, TLAPS

LEMMA HubStep ==
  ASSUME HoldsVictim, [Next]_vars, NoUser \notin Users, \A sh \in Shards : sh \subseteq Users
  PROVE  HoldsVictim'
<1> USE DEF HoldsVictim
<1>0. /\ sweep = [state |-> sweep.state, left |-> sweep.left, shard |-> sweep.shard,
                  todo |-> sweep.todo, victim |-> sweep.victim]
      /\ sweep.state \in {"asleep", "iterating"} /\ sweep.left \subseteq Shards
      /\ sweep.shard \subseteq Users /\ sweep.todo \subseteq Users
      /\ sweep.victim \in Users \union {NoUser}
      /\ \A u \in Users : channels[u] # NoChannel => channels[u] \in Channel
  BY DEF HubTypeOK
<1>1. ASSUME NEW s \in Sockets, NEW u \in Users, Subscribe(s, u)
      PROVE  HoldsVictim'
  <2>1. channels[u].count + 1 \in Nat
    BY <1>0 DEF Channel, NoChannel
  <2>2. [count |-> channels[u].count + 1, empty |-> "no"] \in Channel
    BY <2>1 DEF Channel
  <2> QED
    BY <1>1, <2>2 DEF Subscribe, HubTypeOK
<1>2. ASSUME NEW s \in Sockets, Unsubscribe(s)
      PROVE  HoldsVictim'
  <2> DEFINE u == watching[s]
             e == [count |-> IF channels[u].count = 0 THEN 0 ELSE channels[u].count - 1,
                   empty |-> IF channels[u].count <= 1 THEN "fresh" ELSE channels[u].empty]
  <2>1. u \in Users
    BY <1>2 DEF Unsubscribe, HubTypeOK
  <2>2. channels[u] # NoChannel => e \in Channel
    BY <1>0, <2>1 DEF Channel
  <2> QED
    BY <1>2, <2>1, <2>2 DEF Unsubscribe, HubTypeOK
<1>3. ASSUME NEW u \in Users, Age(u)
      PROVE  HoldsVictim'
  <2>1. channels[u] \in Channel
    BY <1>0, <1>3 DEF Age, NoChannel
  <2>2. [channels[u] EXCEPT !.empty = "aged"] \in Channel
    BY <2>1 DEF Channel
  <2> QED
    BY <1>3, <2>2 DEF Age, HubTypeOK
<1>4. CASE WakeUp \/ FallAsleep
  <2>1. \E st \in {"asleep", "iterating"}, lf \in SUBSET Shards :
          sweep' = [state |-> st, left |-> lf, shard |-> {}, todo |-> {}, victim |-> NoUser]
    BY <1>4, Zenon DEF WakeUp, FallAsleep, Asleep
  <2> QED
    BY <1>4, <2>1 DEF WakeUp, FallAsleep, HubTypeOK
<1>5. ASSUME NEW sh \in Shards, NextShard(sh)
      PROVE  HoldsVictim'
  <2>1. sweep' = [state |-> sweep.state, left |-> sweep.left \ {sh}, shard |-> sh,
                  todo |-> {u \in sh : channels[u] # NoChannel}, victim |-> NoUser]
    BY <1>0, <1>5 DEF NextShard, Iterating
  <2>2. /\ sh \subseteq Users /\ sweep.state = "iterating"
        /\ {u \in sh : channels[u] # NoChannel} \subseteq sh
    BY <1>5 DEF NextShard, Iterating
  <2>3. UNCHANGED <<channels, watching>>
    BY <1>5 DEF NextShard
  <2> QED
    BY <1>0, <2>1, <2>2, <2>3 DEF HubTypeOK
<1>6. ASSUME NEW u \in Users, Visit(u)
      PROVE  HoldsVictim'
  <2>1. /\ u \in sweep.shard
        /\ sweep' = [state |-> sweep.state, left |-> sweep.left, shard |-> sweep.shard,
                     todo |-> sweep.todo \ {u}, victim |-> sweep'.victim]
        /\ sweep'.victim \in {u, NoUser}
    BY <1>0, <1>6 DEF Visit
  <2> QED
    BY <1>0, <1>6, <2>1 DEF Visit, HubTypeOK
<1>7. ASSUME NEW u \in Users, Remove(u)
      PROVE  FALSE
  BY <1>7 DEF Remove, Unlocked
<1>8. CASE UNCHANGED vars
  BY <1>8 DEF vars, HubTypeOK
<1> QED
  BY <1>1, <1>2, <1>3, <1>4, <1>5, <1>6, <1>7, <1>8 DEF Next, Clean

(* The victim always lies in the shard the iterator holds.                 *)
THEOREM VictimHeld ==
  ASSUME NoUser \notin Users, \A sh \in Shards : sh \subseteq Users
  PROVE  Spec => []HoldsVictim
<1>1. Init => HoldsVictim
  BY DEF Init, HoldsVictim, HubTypeOK, Asleep
<1>2. HoldsVictim /\ [Next]_vars => HoldsVictim'
  BY HubStep
<1> QED
  BY <1>1, <1>2, PTL DEF Spec

(* The cleanup never removes a channel: whatever it wants to remove is     *)
(* behind the lock it holds itself.                                        *)
THEOREM NothingRemoved ==
  ASSUME NoUser \notin Users, \A sh \in Shards : sh \subseteq Users
  PROVE  Spec => [][NoneRemoved]_vars
<1>1. HoldsVictim /\ [Next]_vars => [NoneRemoved]_vars
  <2> SUFFICES ASSUME HoldsVictim, Next, NEW u \in Users, channels[u] # NoChannel
               PROVE  channels'[u] # NoChannel
    BY DEF NoneRemoved
  <2>1. channels \in [Users -> Channel \union {NoChannel}]
    BY DEF HoldsVictim, HubTypeOK
  <2>2. ASSUME NEW s \in Sockets, NEW v \in Users, Subscribe(s, v)
        PROVE  channels'[u] # NoChannel
    BY <2>1, <2>2 DEF Subscribe, NoChannel
  <2>3. ASSUME NEW s \in Sockets, Unsubscribe(s)
        PROVE  channels'[u] # NoChannel
    BY <2>1, <2>3 DEF Unsubscribe, NoChannel, Channel
  <2>4. ASSUME NEW v \in Users, Age(v)
        PROVE  channels'[u] # NoChannel
    BY <2>1, <2>4 DEF Age, NoChannel, Channel
  <2>5. ASSUME NEW v \in Users, Remove(v)
        PROVE  FALSE
    BY <2>5 DEF Remove, Unlocked, HoldsVictim
  <2>6. CASE Clean
    BY <2>5, <2>6 DEF Clean, WakeUp, FallAsleep, NextShard, Visit
  <2> QED
    BY <2>2, <2>3, <2>4, <2>6 DEF Next
<1> QED
  BY <1>1, VictimHeld, PTL DEF Spec

(* From its first victim on the task is stuck, and so is everyone who      *)
(* comes to or leaves a user of that shard.                                *)
THEOREM SweepStuck ==
  ASSUME NoUser \notin Users, \A sh \in Shards : sh \subseteq Users
  PROVE  Spec => [][StuckForGood]_vars
<1>1. HoldsVictim /\ [Next]_vars => [StuckForGood]_vars
  <2> SUFFICES ASSUME HoldsVictim, Next, sweep.victim # NoUser
                 PROVE  /\ sweep' = sweep
                      /\ \A s \in Sockets :
                           watching'[s] # watching[s] =>
                             watching[s] \notin sweep.shard /\ watching'[s] \notin sweep.shard
    BY DEF StuckForGood
  <2>1. /\ watching \in [Sockets -> Users \union {NoUser}] /\ NoUser \notin sweep.shard
        /\ sweep.victim \in sweep.shard /\ sweep.shard \subseteq Users
    BY DEF HoldsVictim, HubTypeOK
  <2>2. ASSUME NEW s \in Sockets, NEW u \in Users, Subscribe(s, u)
        PROVE  /\ sweep' = sweep
               /\ watching[s] \notin sweep.shard /\ watching'[s] \notin sweep.shard
               /\ \A t \in Sockets \ {s} : watching'[t] = watching[t]
    BY <2>1, <2>2 DEF Subscribe, Unlocked
  <2>3. ASSUME NEW s \in Sockets, Unsubscribe(s)
        PROVE  /\ sweep' = sweep
               /\ watching[s] \notin sweep.shard /\ watching'[s] \notin sweep.shard
               /\ \A t \in Sockets \ {s} : watching'[t] = watching[t]
    BY <2>1, <2>3 DEF Unsubscribe, Unlocked
  <2>4. ASSUME NEW u \in Users, Age(u)
        PROVE  sweep' = sweep /\ watching' = watching
    BY <2>4 DEF Age
  <2>5. ~Clean
    <3>1. ~Iterating /\ sweep.state # "asleep"
      BY <2>1 DEF Iterating, HoldsVictim
    <3>2. \A u \in Users : ~Remove(u)
      BY <2>1 DEF Remove, Unlocked
    <3> QED
      BY <3>1, <3>2, Zenon DEF Clean, WakeUp, FallAsleep, NextShard, Visit
  <2> QED
    BY <2>2, <2>3, <2>4, <2>5 DEF Next
<1> QED
  BY <1>1, VictimHeld, PTL DEF Spec
=============================================================================

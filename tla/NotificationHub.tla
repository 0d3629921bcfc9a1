-------------------------- MODULE NotificationHub --------------------------
(***************************************************************************)
(* The hub that pushes notifications to websockets                         *)
(* (core_server/src/infra/notification.rs): a DashMap from user to channel *)
(* with a subscriber count, subscribed to and left by the sockets, and a   *)
(* task that removes the channels nobody has used for an hour.             *)
(*                                                                         *)
(* A DashMap is split into shards, each behind a reader-writer lock.       *)
(* subscribe, unsubscribe and remove_if hold the lock of a shard for       *)
(* writing within one step.  Only the cleanup task holds one across steps: *)
(* iter() is lazy, so filter_map and the for loop that consumes it keep    *)
(* the shard they are in locked for reading while the loop body runs.      *)
(*                                                                         *)
(* publish is left out: it reads an entry and sends, which changes no      *)
(* state of the hub.                                                       *)
(***************************************************************************)
EXTENDS Naturals

CONSTANTS
  Users, NoUser,
  Sockets,       \* websocket connections
  Shards         \* the shards of the map, as sets of users

VARIABLES
  channels,      \* per user the ChannelEntry, NoChannel if there is none
  watching,      \* per socket the user it is subscribed for, NoUser if none
  sweep          \* the cleanup task

vars == <<channels, watching, sweep>>

NoChannel == [count |-> 0, empty |-> "none"]

(* last_empty_at is None, less than CHANNEL_TTL ago, or longer ago.        *)
Channel == [count: Nat, empty: {"no", "fresh", "aged"}]

Asleep == [state |-> "asleep", left |-> {}, shard |-> {}, todo |-> {}, victim |-> NoUser]

HubTypeOK ==
  /\ channels \in [Users -> Channel \union {NoChannel}]
  /\ watching \in [Sockets -> Users \union {NoUser}]
  /\ sweep \in [state: {"asleep", "iterating"}, left: SUBSET Shards, shard: SUBSET Users,
                todo: SUBSET Users, victim: Users \union {NoUser}]

Init ==
  /\ channels = [u \in Users |-> NoChannel]
  /\ watching = [s \in Sockets |-> NoUser]
  /\ sweep = Asleep

(* Is the shard of u free for a writer?                                    *)
Unlocked(u) == u \notin sweep.shard

-----------------------------------------------------------------------------
Subscribe(s, u) ==
  /\ watching[s] = NoUser
  /\ Unlocked(u)
  /\ channels' = [channels EXCEPT ![u] = [count |-> @.count + 1, empty |-> "no"]]
  /\ watching' = [watching EXCEPT ![s] = u]
  /\ UNCHANGED sweep

(* The guard is dropped when the socket closes.                            *)
Unsubscribe(s) ==
  LET u == watching[s]
  IN /\ u # NoUser
     /\ Unlocked(u)
     /\ watching' = [watching EXCEPT ![s] = NoUser]
     /\ IF channels[u] = NoChannel THEN UNCHANGED channels
        ELSE channels' = [channels EXCEPT
               ![u] = [count |-> IF @.count = 0 THEN 0 ELSE @.count - 1,
                       empty |-> IF @.count <= 1 THEN "fresh" ELSE @.empty]]
     /\ UNCHANGED sweep

(* CHANNEL_TTL passes.  A sweep compares with the time it began, so what   *)
(* grows old during a sweep does so for the next one.                      *)
Age(u) ==
  /\ sweep.state = "asleep" /\ channels[u].empty = "fresh"
  /\ channels' = [channels EXCEPT ![u].empty = "aged"]
  /\ UNCHANGED <<watching, sweep>>

-----------------------------------------------------------------------------
(* The cleanup task: the sleep is over; the iterator takes the next shard, *)
(* which is then locked for reading; it looks at an entry; the loop body   *)
(* removes it; the iterator is exhausted.                                  *)

WakeUp ==
  /\ sweep.state = "asleep"
  /\ sweep' = [Asleep EXCEPT !.state = "iterating", !.left = Shards]
  /\ UNCHANGED <<channels, watching>>

Iterating == sweep.state = "iterating" /\ sweep.victim = NoUser

NextShard(sh) ==
  /\ Iterating /\ sweep.todo = {} /\ sh \in sweep.left
  /\ sweep' = [sweep EXCEPT !.left = @ \ {sh}, !.shard = sh,
                            !.todo = {u \in sh : channels[u] # NoChannel}]
  /\ UNCHANGED <<channels, watching>>

Visit(u) ==
  /\ Iterating /\ u \in sweep.todo
  /\ sweep' = [sweep EXCEPT !.todo = @ \ {u},
                            !.victim = IF channels[u].count = 0 /\ channels[u].empty = "aged"
                                       THEN u ELSE NoUser]
  /\ UNCHANGED <<channels, watching>>

Remove(u) ==
  /\ u # NoUser /\ sweep.victim = u
  /\ Unlocked(u)
  /\ channels' = IF channels[u].count = 0 /\ channels[u].empty = "aged"
                 THEN [channels EXCEPT ![u] = NoChannel] ELSE channels
  /\ sweep' = [sweep EXCEPT !.victim = NoUser]
  /\ UNCHANGED watching

FallAsleep ==
  /\ Iterating /\ sweep.todo = {} /\ sweep.left = {}
  /\ sweep' = Asleep
  /\ UNCHANGED <<channels, watching>>

Clean ==
  \/ WakeUp \/ FallAsleep
  \/ \E sh \in Shards : NextShard(sh)
  \/ \E u \in Users : Visit(u) \/ Remove(u)

Next ==
  \/ \E s \in Sockets : (\E u \in Users : Subscribe(s, u)) \/ Unsubscribe(s)
  \/ \E u \in Users : Age(u)
  \/ Clean

Spec == Init /\ [][Next]_vars

(* The runtime runs the task, and hours pass while it sleeps.              *)
FairSpec == Spec /\ WF_vars(Clean) /\ \A u \in Users : SF_vars(Age(u))

-----------------------------------------------------------------------------
(* Properties.                                                             *)

(* A channel without subscribers does not stay: it is removed, unless      *)
(* somebody subscribes again.  (publish relies on it: "No active           *)
(* subscribers; don't keep channels around just for offline push".)        *)
EmptyChannelsRemoved ==
  \A u \in Users : channels[u] # NoChannel /\ channels[u].count = 0
                     ~> channels[u] = NoChannel \/ channels[u].count > 0

(* No channel is ever removed.                                             *)
NoneRemoved == \A u \in Users : channels[u] # NoChannel => channels'[u] # NoChannel

(* Once the task has found a channel to remove it stays where it is, and   *)
(* no user of that shard can be subscribed to or left any more.            *)
StuckForGood ==
  sweep.victim # NoUser =>
    /\ sweep' = sweep
    /\ \A s \in Sockets :
         watching'[s] # watching[s] =>
           watching[s] \notin sweep.shard /\ watching'[s] \notin sweep.shard

(* The victim is in the shard the iterator holds, and a sleeping task      *)
(* holds none.                                                             *)
HoldsVictim ==
  /\ HubTypeOK
  /\ sweep.state = "asleep" => sweep.shard = {}
  /\ sweep.todo \subseteq sweep.shard
  /\ sweep.victim # NoUser => sweep.victim \in sweep.shard
=============================================================================

----------------------------- MODULE ResetSlot -----------------------------
(***************************************************************************)
(* What password reset promises, with no requests, no clock, no snapshots  *)
(* and no index: every user has one slot, and every code and key lies in   *)
(* at most one place -- a slot, the shelf of the code that superseded it,  *)
(* the hand of whoever is redeeming it -- before it is gone or spent.      *)
(***************************************************************************)
EXTENDS Naturals

CONSTANTS Users, Codes, Keys, Nobody, MAX_FAILED_ATTEMPTS

VARIABLES
  slot,      \* what each user's slot holds
  shelf,     \* for each code, what it superseded and may still yield to
  inHand,    \* keys taken out of a slot, not spent yet
  spent,     \* keys that set a password, and said so
  usedCodes,
  madeFor    \* for each key, the user it was made for

Empty    == [holds |-> "nothing"]
Code(c, n) == [holds |-> "code", code |-> c, misses |-> n]
Key(k)   == [holds |-> "key", key |-> k]

NotShelved == [holds |-> "no shelf"]

slotVars == <<slot, shelf, inHand, spent, usedCodes, madeFor>>

Init ==
  /\ slot = [u \in Users |-> Empty]
  /\ shelf = [c \in Codes |-> NotShelved]
  /\ inHand = {} /\ spent = {} /\ usedCodes = {}
  /\ madeFor = [k \in Keys |-> Nobody]

(* A new code supersedes what the slot held, kept aside or thrown away.    *)
Issue(u, c) ==
  /\ c \notin usedCodes
  /\ usedCodes' = usedCodes \union {c}
  /\ shelf' \in {shelf, [shelf EXCEPT ![c] = slot[u]]}
  /\ slot' = [slot EXCEPT ![u] = Code(c, 0)]
  /\ UNCHANGED <<inHand, spent, madeFor>>

(* It yields again, untried, to what it superseded.                        *)
Undo(u, c) ==
  /\ slot[u] = Code(c, 0)
  /\ shelf[c] # NotShelved
  /\ slot' = [slot EXCEPT ![u] = shelf[c]]
  /\ shelf' = [shelf EXCEPT ![c] = NotShelved]
  /\ UNCHANGED <<inHand, spent, usedCodes, madeFor>>

Settle(c) ==
  /\ shelf' = [shelf EXCEPT ![c] = NotShelved]
  /\ UNCHANGED <<slot, inHand, spent, usedCodes, madeFor>>

Miss(u, c, n) ==
  /\ slot[u] = Code(c, n) /\ n < MAX_FAILED_ATTEMPTS
  /\ slot' = [slot EXCEPT ![u] = Code(c, n + 1)]
  /\ UNCHANGED <<shelf, inHand, spent, usedCodes, madeFor>>

Exchange(u, c, n, k) ==
  /\ slot[u] = Code(c, n) /\ n < MAX_FAILED_ATTEMPTS
  /\ madeFor[k] = Nobody
  /\ madeFor' = [madeFor EXCEPT ![k] = u]
  /\ slot' = [slot EXCEPT ![u] = Key(k)]
  /\ UNCHANGED <<shelf, inHand, spent, usedCodes>>

Take(u, k) ==
  /\ slot[u] = Key(k)
  /\ slot' = [slot EXCEPT ![u] = Empty]
  /\ inHand' = inHand \union {k}
  /\ UNCHANGED <<shelf, spent, usedCodes, madeFor>>

PutBack(u, k) ==
  /\ k \in inHand /\ madeFor[k] = u /\ slot[u] = Empty
  /\ slot' = [slot EXCEPT ![u] = Key(k)]
  /\ inHand' = inHand \ {k}
  /\ UNCHANGED <<shelf, spent, usedCodes, madeFor>>

Drop(k) ==
  /\ inHand' = inHand \ {k}
  /\ UNCHANGED <<slot, shelf, spent, usedCodes, madeFor>>

Spend(k) ==
  /\ k \in inHand
  /\ inHand' = inHand \ {k}
  /\ spent' = spent \union {k}
  /\ UNCHANGED <<slot, shelf, usedCodes, madeFor>>

Lapse(users) ==
  /\ slot' = [u \in Users |-> IF u \in users THEN Empty ELSE slot[u]]
  /\ UNCHANGED <<shelf, inHand, spent, usedCodes, madeFor>>

Next ==
  \/ \E u \in Users, c \in Codes :
       \/ Issue(u, c) \/ Undo(u, c)
       \/ \E n \in 0 .. MAX_FAILED_ATTEMPTS - 1 :
            Miss(u, c, n) \/ \E k \in Keys : Exchange(u, c, n, k)
  \/ \E u \in Users, k \in Keys : Take(u, k) \/ PutBack(u, k)
  \/ \E c \in Codes : Settle(c)
  \/ \E k \in Keys : Drop(k) \/ Spend(k)
  \/ \E users \in SUBSET Users : Lapse(users)

Spec == Init /\ [][Next]_slotVars

-----------------------------------------------------------------------------
(* What follows.                                                           *)

Same(s, t) ==
  \/ s.holds = "code" /\ t.holds = "code" /\ s.code = t.code
  \/ s.holds = "key"  /\ t.holds = "key"  /\ s.key = t.key

Nowhere(s) == /\ \A u \in Users : ~Same(slot[u], s)
              /\ \A c \in Codes : ~Same(shelf[c], s)

(* A code or a key lies in one place at most; a key in hand in no other,   *)
(* and one that is spent in none.                                          *)
OnePlace ==
  /\ \A u, v \in Users : Same(slot[u], slot[v]) => u = v
  /\ \A b, c \in Codes : Same(shelf[b], shelf[c]) => b = c
  /\ \A u \in Users, c \in Codes : ~Same(slot[u], shelf[c])
  /\ \A k \in inHand \union spent : Nowhere(Key(k))
  /\ inHand \intersect spent = {}

(* A code or key that is nowhere any more, exchanged, superseded for good, *)
(* spent, lapsed or lost, never comes back.                                *)
GoneForGood ==
  [][/\ \A c \in usedCodes : Nowhere(Code(c, 0)) => Nowhere(Code(c, 0))'
     /\ \A k \in Keys : madeFor[k] # Nobody /\ k \notin inHand /\ Nowhere(Key(k))
                          => k \notin inHand' /\ Nowhere(Key(k))']_slotVars
=============================================================================

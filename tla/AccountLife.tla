---------------------------- MODULE AccountLife ----------------------------
(***************************************************************************)
(* What sign-up promises, with no requests, no clock and no tables that    *)
(* two statements find different: an account is pending, then verified or  *)
(* deleted, and never comes back; emails and names are unique; a code is   *)
(* stored for one account, and only that account can be verified with it;  *)
(* a code whose mail went out is withdrawn from nobody.                    *)
(***************************************************************************)

CONSTANTS Ids, Emails, Names, Codes, NoEmail, NoName, NoCode, Nobody

VARIABLES
  account,   \* per id, its stage of life, email and name
  live,      \* per id, the code it is asked for
  aged,      \* accounts whose time to be verified is over
  marked,    \* accounts the cleanup will delete, whatever they have become
  codeOf,    \* per code, the account it was stored for
  mailed     \* codes that were mailed

lifeVars == <<account, live, aged, marked, codeOf, mailed>>

Unused  == [stage |-> "unused", email |-> NoEmail, name |-> NoName]
Deleted == [stage |-> "deleted", email |-> NoEmail, name |-> NoName]

Alive(i) == account[i].stage \in {"pending", "verified"}

Init ==
  /\ account = [i \in Ids |-> Unused]
  /\ live = [i \in Ids |-> NoCode]
  /\ aged = {} /\ marked = {} /\ mailed = {}
  /\ codeOf = [c \in Codes |-> Nobody]

-----------------------------------------------------------------------------
Register(i, e, n) ==
  /\ account[i] = Unused
  /\ \A j \in Ids : Alive(j) => account[j].email # e /\ account[j].name # n
  /\ account' = [account EXCEPT ![i] = [stage |-> "pending", email |-> e, name |-> n]]
  /\ UNCHANGED <<live, aged, marked, codeOf, mailed>>

Rename(i, n) ==
  /\ Alive(i)
  /\ \A j \in Ids : Alive(j) /\ account[j].name = n => j = i
  /\ account' = [account EXCEPT ![i].name = n]
  /\ UNCHANGED <<live, aged, marked, codeOf, mailed>>

(* A new code supersedes the one before, mailed or not.                    *)
StoreCode(i, c) ==
  /\ Alive(i) /\ codeOf[c] = Nobody
  /\ codeOf' = [codeOf EXCEPT ![c] = i]
  /\ live' = [live EXCEPT ![i] = c]
  /\ UNCHANGED <<account, aged, marked, mailed>>

MailCode(c) ==
  /\ codeOf[c] # Nobody
  /\ mailed' = mailed \union {c}
  /\ UNCHANGED <<account, live, aged, marked, codeOf>>

Withdraw(i) ==
  /\ live[i] \notin mailed
  /\ live' = [live EXCEPT ![i] = NoCode]
  /\ UNCHANGED <<account, aged, marked, codeOf, mailed>>

(* With any code that was ever stored for the account.                     *)
Verify(i, c) ==
  /\ Alive(i) /\ codeOf[c] = i
  /\ account' = [account EXCEPT ![i].stage = "verified"]
  /\ live' = [live EXCEPT ![i] = NoCode]
  /\ UNCHANGED <<aged, marked, codeOf, mailed>>

-----------------------------------------------------------------------------
GrowOld(ids) ==
  /\ \A i \in ids : Alive(i)
  /\ aged' = aged \union ids
  /\ UNCHANGED <<account, live, marked, codeOf, mailed>>

Delete(ids) ==
  /\ account' = [i \in Ids |-> IF i \in ids THEN Deleted ELSE account[i]]
  /\ live' = [i \in Ids |-> IF i \in ids THEN NoCode ELSE live[i]]
  /\ aged' = aged \ ids
  /\ UNCHANGED <<codeOf, mailed>>

(* A request deletes who is pending, the cleanup who was when it looked.   *)
DeleteExpired(i) ==
  /\ i \in aged /\ account[i].stage = "pending"
  /\ Delete({i})
  /\ UNCHANGED marked

Mark(ids) ==
  /\ marked = {}
  /\ ids \subseteq aged /\ \A i \in ids : account[i].stage = "pending"
  /\ marked' = ids
  /\ UNCHANGED <<account, live, aged, codeOf, mailed>>

Sweep ==
  /\ Delete(marked) \/ UNCHANGED <<account, live, aged, codeOf, mailed>>
  /\ marked' = {}

Next ==
  \/ \E i \in Ids :
       \/ \E n \in Names : Rename(i, n) \/ \E e \in Emails : Register(i, e, n)
       \/ \E c \in Codes : StoreCode(i, c) \/ Verify(i, c)
       \/ Withdraw(i) \/ DeleteExpired(i)
  \/ \E c \in Codes : MailCode(c)
  \/ \E ids \in SUBSET Ids : GrowOld(ids) \/ Mark(ids)
  \/ Sweep

Spec == Init /\ [][Next]_lifeVars

-----------------------------------------------------------------------------
(* What follows.                                                           *)

(* A verified account had a code stored for it, and the code an account is *)
(* asked for is its own.                                                   *)
VerifiedByCode ==
  \A i \in Ids :
    /\ account[i].stage = "verified" => \E c \in Codes : codeOf[c] = i
    /\ live[i] # NoCode => Alive(i) /\ codeOf[live[i]] = i

(* Nobody comes back. Only an account out of time is deleted, and one that *)
(* is verified only if the cleanup had already looked. An email stays.     *)
OnlyForward ==
  [][\A i \in Ids :
       /\ account[i].stage = "deleted" => account'[i] = account[i]
       /\ Alive(i) => \/ /\ account'[i].email = account[i].email
                         /\ account'[i].stage \in {account[i].stage, "verified"}
                      \/ account'[i] = Deleted /\ i \in aged
       /\ account[i].stage = "verified" /\ account'[i] = Deleted => i \in marked]_lifeVars
=============================================================================

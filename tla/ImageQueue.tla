----------------------------- MODULE ImageQueue -----------------------------
(***************************************************************************)
(* The queue of uploaded images (core_server/src/features/image_queue,     *)
(* artist_image, release_image).  An upload puts an image for an artist or *)
(* a release in the queue; moderators approve, reject and revert it.       *)
(* Approving publishes a row of artist_image or release_image, which       *)
(* reverting deletes again.                                                *)
(*                                                                         *)
(* Each operation is one READ COMMITTED transaction: it reads the entry    *)
(* without a lock, changes the published row, updates the entry and        *)
(* commits.  From the first change on others wait: PostgreSQL makes an     *)
(* insert or delete of the same row wait for the transaction that holds    *)
(* it, and an UPDATE sees what was committed meanwhile.  UPDATE and COMMIT *)
(* follow each other and are one step.                                     *)
(*                                                                         *)
(* Two uploads of one image for one artist are the same pair, since images *)
(* are found by their hash.  Permissions, notices, who handled an entry    *)
(* and when are left out.                                                  *)
(***************************************************************************)
EXTENDS FiniteSets

CONSTANTS
  Entries,       \* rows of image_queue
  Pairs, NoPair, \* an artist or release together with an image
  Moderators     \* requests to handle an entry, one at a time each

ASSUME QueueAssumption == NoPair \notin Pairs

VARIABLES
  entries,       \* image_queue with its target row
  published,     \* artist_image and release_image, as committed
  txs,           \* per moderator the transaction under way
  upheld         \* history: the entries approved, and not reverted since

vars == <<entries, published, txs, upheld>>

Statuses == {"none", "Pending", "Approved", "Rejected", "Reverted"}
Ops      == {"approve", "reject", "revert"}

NoEntry == [status |-> "none", pair |-> NoPair, image |-> FALSE]
Entry   == [status: Statuses, pair: Pairs \union {NoPair}, image: BOOLEAN]

(* row: what the transaction did to the published row of its entry.  done: *)
(* is only the UPDATE left to do.                                          *)
NoTx == [op |-> "none", entry |-> "none", row |-> "same", done |-> FALSE]
Tx   == [op: Ops, entry: Entries, row: {"same", "inserted", "deleted"}, done: BOOLEAN]

Active(m) == txs[m] # NoTx
Target(m) == entries[txs[m].entry].pair

QueueTypeOK ==
  /\ entries \in [Entries -> Entry]
  /\ published \subseteq Pairs
  /\ txs \in [Moderators -> Tx \union {NoTx}]
  /\ upheld \subseteq Entries
  /\ \A m \in Moderators : Active(m) => Target(m) \in Pairs

Init ==
  /\ entries = [e \in Entries |-> NoEntry]
  /\ published = {}
  /\ txs = [m \in Moderators |-> NoTx]
  /\ upheld = {}

-----------------------------------------------------------------------------
(* upload_profile_image, upload_cover_art: nobody sees the rows of the     *)
(* transaction before it commits.                                          *)
Upload(e, p) ==
  /\ entries[e] = NoEntry
  /\ entries' = [entries EXCEPT ![e] = [status |-> "Pending", pair |-> p, image |-> TRUE]]
  /\ UNCHANGED <<published, txs, upheld>>

Allowed(op) == IF op = "revert" THEN "Approved" ELSE "Pending"

(* find_queue and the check of the status.                                 *)
FaultyBegin(m, op, e) ==
  /\ ~Active(m)
  /\ entries[e] # NoEntry
  /\ op = "revert" \/ entries[e].status = Allowed(op)
  /\ txs' = [txs EXCEPT ![m] = [op |-> op, entry |-> e, row |-> "same", done |-> op = "reject"]]
  /\ UNCHANGED <<entries, published, upheld>>

Begin(m, op, e) ==
  /\ ~Active(m)
  /\ entries[e].status = Allowed(op)
  /\ txs' = [txs EXCEPT ![m] = [op |-> op, entry |-> e, row |-> "same", done |-> op = "reject"]]
  /\ UNCHANGED <<entries, published, upheld>>

(* Does another transaction hold the published row p?                      *)
Locked(p) == \E n \in Moderators : txs[n].row # "same" /\ Active(n) /\ Target(n) = p

(* approve inserts the row, if nobody has.                                 *)
FaultyInsert(m) ==
  /\ txs[m].op = "approve" /\ ~txs[m].done
  /\ ~Locked(Target(m))
  /\ txs' = [txs EXCEPT ![m].row = IF Target(m) \in published THEN "same" ELSE "inserted",
                        ![m].done = TRUE]
  /\ UNCHANGED <<entries, published, upheld>>

CanInsert(m) ==
  /\ txs[m].op = "approve" /\ ~txs[m].done
  /\ ~Locked(Target(m)) /\ Target(m) \notin published

Insert(m) ==
  /\ CanInsert(m)
  /\ txs' = [txs EXCEPT ![m].row = "inserted", ![m].done = TRUE]
  /\ UNCHANGED <<entries, published, upheld>>

(* revert deletes it, if it is there.                                      *)
FaultyDelete(m) ==
  /\ txs[m].op = "revert" /\ ~txs[m].done
  /\ Target(m) \in published => ~Locked(Target(m))
  /\ txs' = [txs EXCEPT ![m].row = IF Target(m) \in published THEN "deleted" ELSE "same",
                        ![m].done = TRUE]
  /\ UNCHANGED <<entries, published, upheld>>

CanDelete(m) ==
  /\ txs[m].op = "revert" /\ ~txs[m].done
  /\ ~Locked(Target(m)) /\ Target(m) \in published

Delete(m) ==
  /\ CanDelete(m)
  /\ txs' = [txs EXCEPT ![m].row = "deleted", ![m].done = TRUE]
  /\ UNCHANGED <<entries, published, upheld>>

(* The CHECK image_queue_image_id_null_check.                              *)
FaultyFits(en) == TRUE

Fits(en) == en.image <=> en.status # "Rejected"

Result(op) == CASE op = "approve" -> "Approved"
                [] op = "reject"  -> "Rejected"
                [] op = "revert"  -> "Reverted"
                [] OTHER          -> "none"

(* The entry as the UPDATE leaves it: only what the operation sets is new. *)
Updated(m) == [entries[txs[m].entry] EXCEPT !.status = Result(txs[m].op),
                                            !.image = @ /\ txs[m].op # "reject"]

CanCommit(m) == txs[m].done /\ Fits(Updated(m))

Commit(m) ==
  /\ CanCommit(m)
  /\ entries' = [entries EXCEPT ![txs[m].entry] = Updated(m)]
  /\ published' = CASE txs[m].row = "inserted" -> published \union {Target(m)}
                    [] txs[m].row = "deleted"  -> published \ {Target(m)}
                    [] txs[m].row = "same"     -> published
  /\ upheld' = CASE txs[m].op = "approve" -> upheld \union {txs[m].entry}
                 [] txs[m].op = "revert"  -> upheld \ {txs[m].entry}
                 [] txs[m].op = "reject"  -> upheld
  /\ txs' = [txs EXCEPT ![m] = NoTx]

(* An error of a statement: the key of the row is taken, no row was        *)
(* deleted, or the CHECK fails.  Dropping the transaction rolls it back.   *)
Refused(m) ==
  \/ /\ txs[m].op = "approve" /\ ~txs[m].done
     /\ ~Locked(Target(m)) /\ Target(m) \in published
  \/ /\ txs[m].op = "revert" /\ ~txs[m].done
     /\ Target(m) \notin published
  \/ txs[m].done /\ ~Fits(Updated(m))

FaultyRefuse(m) ==
  /\ Refused(m) /\ txs[m].row = "same"
  /\ txs' = [txs EXCEPT ![m] = NoTx]
  /\ UNCHANGED <<entries, published, upheld>>

Refuse(m) ==
  /\ Refused(m)
  /\ txs' = [txs EXCEPT ![m] = NoTx]
  /\ UNCHANGED <<entries, published, upheld>>

(* The request or the connection is lost.                                  *)
Abort(m) ==
  /\ Active(m)
  /\ txs' = [txs EXCEPT ![m] = NoTx]
  /\ UNCHANGED <<entries, published, upheld>>

Step(m) == Insert(m) \/ Delete(m) \/ Commit(m) \/ Refuse(m)

Next ==
  \/ \E e \in Entries : \/ \E p \in Pairs : Upload(e, p)
                        \/ \E m \in Moderators, op \in Ops : Begin(m, op, e)
  \/ \E m \in Moderators : Step(m) \/ Abort(m)

Spec == Init /\ [][Next]_vars

(* The server carries on with a request, and PostgreSQL wakes up whoever   *)
(* waits for a row, although others may lock it again and again.           *)
FairSpec == Spec /\ \A m \in Moderators : SF_vars(Step(m))

-----------------------------------------------------------------------------
(* Properties.                                                             *)

(* What is published a transaction approved, and none has reverted since,  *)
(* however approvals, rejections and reverts of its entries overlap.       *)
PublishedHandled == \A p \in published : \E e \in upheld : entries[e].pair = p

(* As domain/image_queue/model.rs:100 says, only a pending entry is        *)
(* approved or rejected.  (A rejection that found it so may come after its *)
(* approval: the entry is then rejected, and its image stays published.)   *)
HandledPending ==
  [][\A e \in Entries :
       entries'[e].status # entries[e].status /\ entries'[e].status \in {"Approved", "Rejected"}
         => entries[e].status = "Pending"]_vars

(* An Approved entry is published, if no other was uploaded for the pair,  *)
(* however approvals and reverts that began before the last change end.    *)
ApprovedPublished ==
  \A e \in Entries :
    /\ entries[e].status = "Approved"
    /\ \A d \in Entries : entries[d].pair = entries[e].pair => d = e
    => entries[e].pair \in published

(* A rejected image stays rejected: an approval or a revert that read the  *)
(* entry before fails, and takes back what it did to the published rows.   *)
RejectedStays ==
  \A e \in Entries : entries[e].status = "Rejected" => entries'[e] = entries[e]
RejectedFinal == [][RejectedStays]_vars

(* Whoever handles an entry can go on, or waits for a row whose holder     *)
(* can: holding a row, nobody waits for another.                           *)
CanGoOn(m) == CanInsert(m) \/ CanDelete(m) \/ CanCommit(m) \/ Refused(m)

WaitsFor(m, n) ==
  ~txs[m].done /\ Active(n) /\ txs[n].row # "same" /\ Target(n) = Target(m)

NobodyStuck ==
  \A m \in Moderators :
    Active(m) => CanGoOn(m) \/ \E n \in Moderators : WaitsFor(m, n) /\ CanGoOn(n)

(* Every request to handle an entry ends: transactions that wait for each  *)
(* other's rows do not wait in a circle, and a failed one frees its row.   *)
RequestsEnd == \A m \in Moderators : Active(m) ~> ~Active(m)

-----------------------------------------------------------------------------
(* The inductive invariant.                                                *)

(* A published row is in at most one transaction, which found it there if  *)
(* it deletes it, and not if it inserts it.                                *)
RowsHeld ==
  /\ \A m, n \in Moderators :
       /\ Active(m) /\ Active(n) /\ Target(m) = Target(n)
       /\ txs[m].row # "same" /\ txs[n].row # "same"
       => m = n
  /\ \A m \in Moderators : Active(m) =>
       /\ txs[m].row = "inserted" => txs[m].op = "approve" /\ Target(m) \notin published
       /\ txs[m].row = "deleted"  => txs[m].op = "revert"  /\ Target(m) \in published
       /\ txs[m].done <=> txs[m].op = "reject" \/ txs[m].row # "same"

EntriesFit ==
  /\ \A e \in Entries : \/ entries[e] = NoEntry
                        \/ entries[e].pair \in Pairs /\ Fits(entries[e])
  /\ \A m \in Moderators :
       Active(m) => entries[txs[m].entry].status # "none"
                      /\ (txs[m].op = "revert" => entries[txs[m].entry].status # "Pending")

QueueInv == QueueTypeOK /\ RowsHeld /\ EntriesFit /\ PublishedHandled /\ ApprovedPublished
=============================================================================

-------------------------- MODULE ImageQueueProofs --------------------------
(* Proofs about ImageQueue, for any number of entries and moderators.      *)
EXTENDS ImageQueue, TLAPS

LEMMA TxTyped ==
  ASSUME QueueTypeOK, NEW m \in Moderators
  PROVE  /\ Active(m) <=> txs[m].op # "none"
         /\ Active(m) => txs[m] \in Tx /\ Target(m) \in Pairs
         /\ txs[m].done => Active(m)
         /\ NoTx.op = "none" /\ NoTx.row = "same" /\ NoTx.done = FALSE
<1>1. NoTx.op = "none" /\ NoTx.row = "same" /\ NoTx.done = FALSE
  BY DEF NoTx
<1>2. CASE Active(m)
  <2>1. txs[m] \in Tx /\ Target(m) \in Pairs
    BY <1>2 DEF Active, QueueTypeOK
  <2>2. txs[m].op # "none"
    BY <2>1 DEF Tx, Ops
  <2> QED
    BY <1>1, <1>2, <2>1, <2>2
<1>3. CASE ~Active(m)
  BY <1>1, <1>3 DEF Active
<1> QED
  BY <1>2, <1>3

(* When the entries and the published rows stay, so does what depends on   *)
(* them alone.                                                             *)
LEMMA TxStep ==
  ASSUME QueueInv, UNCHANGED <<entries, published, upheld>>,
         QueueTypeOK', RowsHeld',
         \A m \in Moderators :
           Active(m)' => entries[txs'[m].entry].status # "none"
                           /\ (txs'[m].op = "revert" => entries[txs'[m].entry].status # "Pending")
  PROVE  QueueInv'
BY DEF QueueInv, EntriesFit, PublishedHandled, ApprovedPublished, Fits

LEMMA UploadKeeps ==
  ASSUME QueueInv, NEW e \in Entries, NEW p \in Pairs, Upload(e, p)
  PROVE  QueueInv'
<1> DEFINE new == [status |-> "Pending", pair |-> p, image |-> TRUE]
<1>1. /\ entries[e] = NoEntry /\ UNCHANGED <<published, txs, upheld>>
      /\ entries' \in [Entries -> Entry] /\ entries'[e] = new
      /\ \A d \in Entries \ {e} : entries'[d] = entries[d]
  BY DEF Upload, QueueInv, QueueTypeOK, Entry, Statuses
<1>2. /\ NoEntry.status = "none" /\ NoEntry.pair = NoPair
      /\ new.status = "Pending" /\ new.pair = p /\ new.image = TRUE
  BY DEF NoEntry
<1> HIDE DEF new
<1>3. \A m \in Moderators : /\ Active(m)' <=> Active(m)
                            /\ Active(m) => txs[m].entry \in Entries \ {e}
  <2> TAKE m \in Moderators
  <2>1. Active(m) => txs[m].entry \in Entries
    BY TxTyped DEF Tx, QueueInv
  <2> QED
    BY <1>1, <1>2, <2>1 DEF QueueInv, EntriesFit, Active
<1>4. \A m \in Moderators : Active(m) => Target(m)' = Target(m)
  BY <1>1, <1>3 DEF Target
<1>5. QueueTypeOK'
  BY <1>1, <1>3, <1>4 DEF QueueInv, QueueTypeOK
<1>6. RowsHeld'
  BY <1>1, <1>3, <1>4 DEF QueueInv, RowsHeld
<1>7. EntriesFit'
  BY <1>1, <1>2, <1>3 DEF QueueInv, EntriesFit, Fits
<1>8. PublishedHandled'
  <2> SUFFICES ASSUME NEW q \in published
               PROVE  \E d \in upheld : entries'[d].pair = q
    BY <1>1 DEF PublishedHandled
  <2>1. PICK d \in upheld : entries[d].pair = q
    BY DEF QueueInv, PublishedHandled
  <2>2. d \in Entries /\ d # e
    BY <1>1, <1>2, <2>1, QueueAssumption DEF QueueInv, QueueTypeOK
  <2> QED
    BY <1>1, <2>1, <2>2
<1>9. ApprovedPublished'
  <2> SUFFICES ASSUME NEW d \in Entries, entries'[d].status = "Approved",
                      \A f \in Entries : entries'[f].pair = entries'[d].pair => f = d
               PROVE  entries'[d].pair \in published
    BY <1>1 DEF ApprovedPublished
  <2>1. d # e /\ entries'[d] = entries[d]
    BY <1>1, <1>2
  <2>2. entries[d].pair \in Pairs
    BY <1>2, <2>1 DEF QueueInv, EntriesFit
  <2>3. \A f \in Entries : entries[f].pair = entries[d].pair => f = d
    BY <1>1, <1>2, <2>1, <2>2, QueueAssumption
  <2> QED
    BY <2>1, <2>3 DEF QueueInv, ApprovedPublished
<1> QED
  BY <1>5, <1>6, <1>7, <1>8, <1>9 DEF QueueInv

LEMMA BeginKeeps ==
  ASSUME QueueInv, NEW m \in Moderators, NEW op \in Ops, NEW e \in Entries, Begin(m, op, e)
  PROVE  QueueInv'
<1> DEFINE tx == [op |-> op, entry |-> e, row |-> "same", done |-> op = "reject"]
<1>1. /\ ~Active(m) /\ entries[e].status = Allowed(op) /\ UNCHANGED <<entries, published, upheld>>
      /\ tx \in Tx /\ tx.op = op /\ tx.entry = e /\ tx.row = "same" /\ tx.done = (op = "reject")
      /\ txs' = [txs EXCEPT ![m] = tx]
  BY DEF Begin, Tx
<1> HIDE DEF tx
<1>2. entries[e].status # "none" /\ (op = "revert" => entries[e].status # "Pending")
  BY <1>1 DEF Allowed
<1>3. entries[e].pair \in Pairs
  BY <1>2 DEF QueueInv, EntriesFit, NoEntry
<1>4. /\ txs'[m] = tx /\ \A n \in Moderators \ {m} : txs'[n] = txs[n]
      /\ txs' \in [Moderators -> Tx \union {NoTx}]
  BY <1>1 DEF QueueInv, QueueTypeOK
<1>5. \A n \in Moderators \ {m} : (Active(n)' <=> Active(n)) /\ Target(n)' = Target(n)
  BY <1>1, <1>4 DEF Active, Target
<1>6. Target(m)' = entries[e].pair
  BY <1>1, <1>4 DEF Target
<1>7. QueueTypeOK'
  BY <1>1, <1>3, <1>4, <1>5, <1>6 DEF QueueInv, QueueTypeOK
<1>8. RowsHeld'
  <2>1. \A n, k \in Moderators :
          /\ Active(n)' /\ Active(k)' /\ Target(n)' = Target(k)'
          /\ txs'[n].row # "same" /\ txs'[k].row # "same"
          => n = k
    BY <1>1, <1>4, <1>5 DEF QueueInv, RowsHeld
  <2>2. ASSUME NEW n \in Moderators, Active(n)'
        PROVE  /\ txs'[n].row = "inserted" => txs'[n].op = "approve" /\ Target(n)' \notin published'
               /\ txs'[n].row = "deleted" => txs'[n].op = "revert" /\ Target(n)' \in published'
               /\ txs'[n].done <=> txs'[n].op = "reject" \/ txs'[n].row # "same"
    <3>1. CASE n = m
      BY <1>1, <1>4, <3>1
    <3>2. CASE n # m
      BY <1>1, <1>4, <1>5, <2>2, <3>2 DEF QueueInv, RowsHeld
    <3> QED
      BY <3>1, <3>2
  <2> QED
    BY <2>1, <2>2 DEF RowsHeld
<1> QED
  BY <1>1, <1>2, <1>4, <1>5, <1>7, <1>8, TxStep DEF QueueInv, EntriesFit

(* Insert and Delete take the row.                                         *)
LEMMA HoldKeeps ==
  ASSUME QueueInv, NEW m \in Moderators, Insert(m) \/ Delete(m)
  PROVE  QueueInv'
<1>0. QueueTypeOK /\ RowsHeld
  BY DEF QueueInv
<1>1. /\ ~Locked(Target(m)) /\ UNCHANGED <<entries, published, upheld>> /\ ~txs[m].done
      /\ txs[m].op = "approve" \/ txs[m].op = "revert"
  BY DEF Insert, Delete, CanInsert, CanDelete
<1>2. Active(m) /\ txs[m] \in Tx
  BY <1>0, <1>1, TxTyped
<1>3. PICK r \in {"inserted", "deleted"} :
        /\ txs' = [txs EXCEPT ![m].row = r, ![m].done = TRUE]
        /\ r = "inserted" => txs[m].op = "approve" /\ Target(m) \notin published
        /\ r = "deleted" => txs[m].op = "revert" /\ Target(m) \in published
  BY DEF Insert, Delete, CanInsert, CanDelete
<1>4. /\ txs' \in [Moderators -> Tx \union {NoTx}]
      /\ txs'[m] \in Tx /\ txs'[m].op = txs[m].op /\ txs'[m].entry = txs[m].entry
      /\ txs'[m].row = r /\ txs'[m].done
      /\ \A n \in Moderators \ {m} : txs'[n] = txs[n]
  BY <1>0, <1>2, <1>3 DEF QueueTypeOK, Tx
<1>5. txs'[m].op # "none" /\ txs'[m] # NoTx
  BY <1>4 DEF Tx, Ops, NoTx
<1>6. \A n \in Moderators : (Active(n)' <=> Active(n)) /\ Target(n)' = Target(n)
  BY <1>1, <1>2, <1>4, <1>5 DEF Active, Target
<1>7. QueueTypeOK'
  BY <1>0, <1>1, <1>4, <1>6 DEF QueueTypeOK
<1>8. \A n \in Moderators : Active(n) /\ txs[n].row # "same" => Target(n) # Target(m)
  BY <1>1 DEF Locked
<1>9. RowsHeld'
  <2>1. \A n, k \in Moderators :
          /\ Active(n)' /\ Active(k)' /\ Target(n)' = Target(k)'
          /\ txs'[n].row # "same" /\ txs'[k].row # "same"
          => n = k
    BY <1>0, <1>4, <1>6, <1>8 DEF RowsHeld
  <2>2. ASSUME NEW n \in Moderators, Active(n)'
        PROVE  /\ txs'[n].row = "inserted" => txs'[n].op = "approve" /\ Target(n)' \notin published'
               /\ txs'[n].row = "deleted" => txs'[n].op = "revert" /\ Target(n)' \in published'
               /\ txs'[n].done <=> txs'[n].op = "reject" \/ txs'[n].row # "same"
    <3>1. CASE n = m
      BY <1>1, <1>3, <1>4, <1>6, <3>1
    <3>2. CASE n # m
      BY <1>0, <1>1, <1>4, <1>6, <2>2, <3>2 DEF RowsHeld
    <3> QED
      BY <3>1, <3>2
  <2> QED
    BY <2>1, <2>2 DEF RowsHeld
<1> QED
  BY <1>1, <1>4, <1>6, <1>7, <1>9, TxStep DEF QueueInv, EntriesFit

(* Refuse and Abort free it.                                               *)
LEMMA RollbackKeeps ==
  ASSUME QueueInv, NEW m \in Moderators, Refuse(m) \/ Abort(m)
  PROVE  QueueInv'
<1>1. txs' = [txs EXCEPT ![m] = NoTx] /\ UNCHANGED <<entries, published, upheld>>
  BY DEF Refuse, Abort
<1>2. /\ txs' \in [Moderators -> Tx \union {NoTx}]
      /\ txs'[m] = NoTx /\ \A n \in Moderators \ {m} : txs'[n] = txs[n]
  BY <1>1 DEF QueueInv, QueueTypeOK
<1>3. ~Active(m)' /\ \A n \in Moderators \ {m} : (Active(n)' <=> Active(n)) /\ Target(n)' = Target(n)
  BY <1>1, <1>2 DEF Active, Target
<1>4. QueueTypeOK' /\ RowsHeld'
  BY <1>1, <1>2, <1>3 DEF QueueInv, QueueTypeOK, RowsHeld
<1> QED
  BY <1>1, <1>2, <1>3, <1>4, TxStep DEF QueueInv, EntriesFit

(* The entry keeps its pair, and the published rows change by the own one, *)
(* which no other transaction holds.                                       *)
LEMMA CommitEffect ==
  ASSUME QueueInv, NEW m \in Moderators, Commit(m)
  PROVE  /\ Active(m) /\ txs[m] \in Tx /\ txs[m].done /\ txs[m].entry \in Entries
         /\ entries' \in [Entries -> Entry]
         /\ entries'[txs[m].entry].status = Result(txs[m].op)
         /\ entries'[txs[m].entry].image <=>
              entries[txs[m].entry].image /\ txs[m].op # "reject"
         /\ Fits(entries'[txs[m].entry])
         /\ \A d \in Entries : entries'[d].pair = entries[d].pair
         /\ \A d \in Entries : d # txs[m].entry => entries'[d] = entries[d]
         /\ txs' \in [Moderators -> Tx \union {NoTx}]
         /\ txs'[m] = NoTx /\ \A n \in Moderators \ {m} : txs'[n] = txs[n]
<1>1. QueueTypeOK
  BY DEF QueueInv
<1>2. Active(m) /\ txs[m] \in Tx /\ txs[m].done
  BY <1>1, TxTyped DEF Commit, CanCommit
<1>3. txs[m].entry \in Entries /\ txs[m].op \in Ops
  BY <1>2 DEF Tx
<1>4. entries[txs[m].entry] \in Entry
  BY <1>1, <1>3 DEF QueueTypeOK
<1>5. Result(txs[m].op) \in Statuses
  BY <1>3 DEF Result, Ops, Statuses
<1>6. /\ Updated(m) \in Entry /\ Updated(m).status = Result(txs[m].op)
      /\ Updated(m).pair = entries[txs[m].entry].pair
      /\ Updated(m).image <=> entries[txs[m].entry].image /\ txs[m].op # "reject"
  BY <1>4, <1>5 DEF Updated, Entry
<1>7. /\ entries' = [entries EXCEPT ![txs[m].entry] = Updated(m)]
      /\ Fits(Updated(m)) /\ txs' = [txs EXCEPT ![m] = NoTx]
  BY DEF Commit, CanCommit
<1>8. /\ entries' \in [Entries -> Entry] /\ entries'[txs[m].entry] = Updated(m)
      /\ \A d \in Entries : d # txs[m].entry => entries'[d] = entries[d]
  BY <1>1, <1>3, <1>6, <1>7 DEF QueueTypeOK
<1>9. /\ txs' \in [Moderators -> Tx \union {NoTx}]
      /\ txs'[m] = NoTx /\ \A n \in Moderators \ {m} : txs'[n] = txs[n]
  BY <1>1, <1>7 DEF QueueTypeOK
<1> QED
  BY <1>2, <1>3, <1>6, <1>7, <1>8, <1>9

LEMMA CommitKeeps ==
  ASSUME QueueInv, NEW m \in Moderators, Commit(m)
  PROVE  QueueInv'
<1> DEFINE e == txs[m].entry
           p == Target(m)
<1>0. QueueTypeOK /\ RowsHeld /\ EntriesFit
  BY DEF QueueInv
<1>1. /\ Active(m) /\ txs[m] \in Tx /\ txs[m].done /\ e \in Entries /\ p = entries[e].pair
      /\ entries' \in [Entries -> Entry] /\ entries'[e].status = Result(txs[m].op)
      /\ Fits(entries'[e])
      /\ \A d \in Entries : entries'[d].pair = entries[d].pair
      /\ \A d \in Entries : d # e => entries'[d] = entries[d]
      /\ txs' \in [Moderators -> Tx \union {NoTx}]
      /\ txs'[m] = NoTx /\ \A n \in Moderators \ {m} : txs'[n] = txs[n]
  BY CommitEffect DEF Target
<1>2. p \in Pairs /\ txs[m].op \in Ops
  BY <1>0, <1>1 DEF QueueTypeOK, Tx
<1>3. /\ txs[m].row = "inserted" => txs[m].op = "approve"
      /\ txs[m].row = "deleted"  => txs[m].op = "revert"
      /\ txs[m].row = "same"     => txs[m].op = "reject"
      /\ txs[m].row \in {"same", "inserted", "deleted"}
  BY <1>0, <1>1 DEF RowsHeld, Tx
<1>4. /\ txs[m].op = "approve" => txs[m].row = "inserted"
      /\ txs[m].op = "revert"  => txs[m].row = "deleted"
      /\ txs[m].op = "reject"  => txs[m].row = "same"
  BY <1>2, <1>3 DEF Ops
<1>5. /\ txs[m].row = "inserted" => published' = published \union {p}
      /\ txs[m].row = "deleted"  => published' = published \ {p}
      /\ txs[m].row = "same"     => published' = published
  BY DEF Commit, CanCommit
<1>6. /\ txs[m].op = "approve" => entries'[e].status = "Approved"
      /\ txs[m].op = "revert"  => entries'[e].status = "Reverted"
      /\ txs[m].op = "reject"  => entries'[e].status = "Rejected"
  BY <1>1 DEF Result
<1>7. \A q \in Pairs : q # p => (q \in published' <=> q \in published)
  BY <1>3, <1>5
<1>up. /\ txs[m].op = "approve" => upheld' = upheld \union {e}
       /\ txs[m].op = "revert"  => upheld' = upheld \ {e}
       /\ txs[m].op = "reject"  => upheld' = upheld
  BY DEF Commit, CanCommit
<1> HIDE DEF e, p
<1>8. ~Active(m)' /\ \A n \in Moderators \ {m} : Active(n)' <=> Active(n)
  BY <1>1 DEF Active
<1>9. \A n \in Moderators \ {m} : Active(n) => Target(n)' = Target(n)
  <2> TAKE n \in Moderators \ {m}
  <2>1. Active(n) => txs[n].entry \in Entries
    BY <1>0, TxTyped DEF Tx
  <2> QED
    BY <1>1, <2>1 DEF Target
<1>10. QueueTypeOK'
  <2>1. published' \subseteq Pairs /\ upheld' \subseteq Entries
    BY <1>0, <1>1, <1>2, <1>3, <1>5, <1>up DEF QueueTypeOK, Ops
  <2>2. \A n \in Moderators : Active(n)' => Target(n)' \in Pairs
    BY <1>0, <1>8, <1>9 DEF QueueTypeOK
  <2> QED
    BY <1>1, <2>1, <2>2 DEF QueueTypeOK
<1>11. RowsHeld'
  <2>1. \A n, k \in Moderators :
          /\ Active(n)' /\ Active(k)' /\ Target(n)' = Target(k)'
          /\ txs'[n].row # "same" /\ txs'[k].row # "same"
          => n = k
    BY <1>0, <1>1, <1>8, <1>9 DEF RowsHeld
  <2>2. ASSUME NEW n \in Moderators, Active(n)'
        PROVE  /\ txs'[n].row = "inserted" => txs'[n].op = "approve" /\ Target(n)' \notin published'
               /\ txs'[n].row = "deleted" => txs'[n].op = "revert" /\ Target(n)' \in published'
               /\ txs'[n].done <=> txs'[n].op = "reject" \/ txs'[n].row # "same"
    <3>1. n # m /\ Active(n) /\ txs'[n] = txs[n] /\ Target(n)' = Target(n) /\ Target(n) \in Pairs
      BY <1>0, <1>1, <1>8, <1>9, <2>2 DEF QueueTypeOK
    <3>2. /\ txs[n].row = "inserted" => txs[n].op = "approve" /\ Target(n) \notin published
          /\ txs[n].row = "deleted" => txs[n].op = "revert" /\ Target(n) \in published
          /\ txs[n].done <=> txs[n].op = "reject" \/ txs[n].row # "same"
      BY <1>0, <3>1 DEF RowsHeld
    <3>3. txs[n].row # "same" /\ txs[m].row # "same" => Target(n) # p
      BY <1>0, <1>1, <3>1 DEF RowsHeld, p
    <3>4. txs[n].row # "same" => (Target(n) \in published' <=> Target(n) \in published)
      BY <1>3, <1>5, <1>7, <3>1, <3>3
    <3> QED
      BY <3>1, <3>2, <3>4
  <2> QED
    BY <2>1, <2>2 DEF RowsHeld
<1>12. EntriesFit'
  <2>1. entries[e].pair \in Pairs
    BY <1>1, <1>2
  <2>2. \A d \in Entries : \/ entries'[d] = NoEntry
                           \/ entries'[d].pair \in Pairs /\ Fits(entries'[d])
    BY <1>0, <1>1, <2>1 DEF EntriesFit
  <2>3. ASSUME NEW n \in Moderators, Active(n)'
        PROVE  entries'[txs'[n].entry].status # "none"
                 /\ (txs'[n].op = "revert" => entries'[txs'[n].entry].status # "Pending")
    <3>1. n # m /\ Active(n) /\ txs'[n] = txs[n]
      BY <1>1, <1>8, <2>3
    <3>2. txs[n].entry \in Entries
      BY <1>0, <3>1, TxTyped DEF Tx
    <3>3. CASE txs[n].entry = e
      BY <1>2, <1>6, <3>1, <3>3 DEF Ops
    <3>4. CASE txs[n].entry # e
      BY <1>0, <1>1, <3>1, <3>2, <3>4 DEF EntriesFit
    <3> QED
      BY <3>3, <3>4
  <2> QED
    BY <2>2, <2>3 DEF EntriesFit, Fits
<1>13. PublishedHandled'
  <2> SUFFICES ASSUME NEW q \in published'
               PROVE  \E d \in upheld' : entries'[d].pair = q
    BY DEF PublishedHandled
  <2>1. CASE q = p
    <3>1. txs[m].op # "revert"
      BY <1>4, <1>5, <2>1
    <3>2. CASE txs[m].op = "approve"
      BY <1>1, <1>up, <2>1, <3>2
    <3>3. CASE txs[m].op = "reject"
      <4>1. q \in published
        BY <1>4, <1>5, <3>3
      <4>2. PICK d \in upheld : entries[d].pair = q
        BY <4>1 DEF QueueInv, PublishedHandled
      <4> QED
        BY <1>0, <1>1, <1>up, <3>3, <4>2 DEF QueueTypeOK
    <3> QED
      BY <1>2, <3>1, <3>2, <3>3 DEF Ops
  <2>2. CASE q # p
    <3>1. q \in published
      BY <1>3, <1>5, <2>2
    <3>2. PICK d \in upheld : entries[d].pair = q
      BY <3>1 DEF QueueInv, PublishedHandled
    <3>3. d \in Entries /\ d # e
      BY <1>0, <1>1, <2>2, <3>2 DEF QueueTypeOK
    <3> QED
      BY <1>1, <1>2, <1>up, <3>2, <3>3 DEF Ops
  <2> QED
    BY <2>1, <2>2
<1>14. ApprovedPublished'
  <2> SUFFICES ASSUME NEW d \in Entries, entries'[d].status = "Approved",
                      \A f \in Entries : entries'[f].pair = entries'[d].pair => f = d
               PROVE  entries'[d].pair \in published'
    BY DEF ApprovedPublished
  <2>1. CASE d = e
    BY <1>1, <1>2, <1>4, <1>5, <1>6, <2>1 DEF Ops
  <2>2. CASE d # e
    <3>1. entries'[d] = entries[d] /\ entries[d].pair # p
      BY <1>1, <2>2
    <3>2. entries[d].pair \in published
      BY <1>1, <3>1 DEF QueueInv, ApprovedPublished
    <3> QED
      BY <1>0, <1>7, <3>1, <3>2 DEF QueueTypeOK
  <2> QED
    BY <2>1, <2>2
<1> QED
  BY <1>10, <1>11, <1>12, <1>13, <1>14 DEF QueueInv

LEMMA QueueInitial == Init => QueueInv
<1> SUFFICES ASSUME Init PROVE QueueInv
  OBVIOUS
<1>1. /\ \A e \in Entries : entries[e] = NoEntry
      /\ \A m \in Moderators : txs[m] = NoTx /\ ~Active(m)
      /\ NoEntry.status = "none" /\ upheld = {}
  BY DEF Init, NoEntry, Active
<1>2. QueueTypeOK
  BY <1>1 DEF Init, QueueTypeOK, Entry, NoEntry, Statuses
<1> QED
  BY <1>1, <1>2 DEF Init, QueueInv, RowsHeld, EntriesFit, PublishedHandled, ApprovedPublished

LEMMA QueueStep == QueueInv /\ [Next]_vars => QueueInv'
<1> SUFFICES ASSUME QueueInv, [Next]_vars PROVE QueueInv'
  OBVIOUS
<1>1. ASSUME NEW e \in Entries, NEW p \in Pairs, Upload(e, p) PROVE QueueInv'
  BY <1>1, UploadKeeps
<1>2. ASSUME NEW e \in Entries, NEW m \in Moderators, NEW op \in Ops, Begin(m, op, e)
      PROVE  QueueInv'
  BY <1>2, BeginKeeps
<1>3. ASSUME NEW m \in Moderators, Insert(m) \/ Delete(m) PROVE QueueInv'
  BY <1>3, HoldKeeps
<1>4. ASSUME NEW m \in Moderators, Commit(m) PROVE QueueInv'
  BY <1>4, CommitKeeps
<1>5. ASSUME NEW m \in Moderators, Refuse(m) \/ Abort(m) PROVE QueueInv'
  BY <1>5, RollbackKeeps
<1>6. CASE UNCHANGED vars
  BY <1>6 DEF vars, QueueInv, QueueTypeOK, RowsHeld, EntriesFit, PublishedHandled,
              ApprovedPublished, Active, Target, Fits
<1> QED
  BY <1>1, <1>2, <1>3, <1>4, <1>5, <1>6 DEF Next, Step

(* The inductive invariant of the queue: a published row is in one         *)
(* transaction at most, and every entry satisfies the CHECK.               *)
THEOREM QueueInvariance == Spec => []QueueInv
<1> QED
  BY QueueInitial, QueueStep, PTL DEF Spec

(* However approve, reject and revert race, whatever is published has an   *)
(* entry that a transaction approved and none has reverted since.          *)
THEOREM Handled == Spec => []PublishedHandled
<1>1. QueueInv => PublishedHandled
  BY DEF QueueInv
<1> QED
  BY <1>1, QueueInvariance, PTL

(* An Approved entry with a pair of its own is published.                  *)
THEOREM Published == Spec => []ApprovedPublished
<1>1. QueueInv => ApprovedPublished
  BY DEF QueueInv
<1> QED
  BY <1>1, QueueInvariance, PTL

(* A stale approval or revert of a rejected image fails at the CHECK.      *)
LEMMA RejectedStep == QueueInv /\ [Next]_vars => RejectedStays
<1> SUFFICES ASSUME QueueInv, [Next]_vars,
                    NEW e \in Entries, entries[e].status = "Rejected"
             PROVE  entries'[e] = entries[e]
  BY DEF RejectedStays
<1>1. entries[e] \in Entry /\ Fits(entries[e])
  BY DEF QueueInv, QueueTypeOK, EntriesFit, NoEntry
<1>2. entries[e].image = FALSE
  BY <1>1 DEF Fits, Entry
<1>3. ASSUME NEW d \in Entries, NEW p \in Pairs, Upload(d, p) PROVE entries'[e] = entries[e]
  <2>1. d # e
    BY <1>3 DEF Upload, NoEntry
  <2> QED
    BY <1>3, <2>1 DEF Upload, QueueInv, QueueTypeOK
<1>4. ASSUME NEW m \in Moderators, Commit(m) PROVE entries'[e] = entries[e]
  <2>1. CASE txs[m].entry # e
    BY <1>4, <2>1, CommitEffect
  <2>2. CASE txs[m].entry = e
    <3>1. entries'[e].image = FALSE
      BY <1>2, <1>4, <2>2, CommitEffect DEF Entry
    <3>2. entries'[e].status = "Rejected"
      BY <1>4, <2>2, <3>1, CommitEffect DEF Fits
    <3>3. entries'[e] \in Entry /\ entries'[e].pair = entries[e].pair
      BY <1>4, CommitEffect
    <3> QED
      BY <1>1, <1>2, <3>1, <3>2, <3>3 DEF Entry
  <2> QED
    BY <2>1, <2>2
<1>5. CASE UNCHANGED entries
  BY <1>5
<1> QED
  BY <1>3, <1>4, <1>5 DEF Next, Step, Begin, Insert, Delete, Refuse, Abort, vars

(* What is rejected stays rejected.                                        *)
THEOREM RejectionFinal == Spec => RejectedFinal
<1>1. QueueInv /\ [Next]_vars => [RejectedStays]_vars
  BY RejectedStep
<1> QED
  BY <1>1, QueueInvariance, PTL DEF Spec, RejectedFinal

(* No deadlock between any number of transactions: while a request is      *)
(* handled it can go on, or the transaction whose row it waits for can.    *)
THEOREM SomebodyGoesOn == Spec => []NobodyStuck
<1>1. ASSUME QueueInv, NEW m \in Moderators, Active(m)
      PROVE  CanGoOn(m) \/ \E n \in Moderators : WaitsFor(m, n) /\ CanGoOn(n)
  <2>1. \A n \in Moderators : Active(n) /\ txs[n].done => CanGoOn(n)
    BY DEF CanGoOn, CanCommit, Refused
  <2>2. CASE txs[m].done
    BY <1>1, <2>1, <2>2
  <2>3. CASE ~txs[m].done /\ ~Locked(Target(m))
    <3>1. txs[m].op \in {"approve", "revert"}
      BY <1>1, <2>3 DEF QueueInv, QueueTypeOK, RowsHeld, Active, Tx, Ops
    <3>2. QED
      BY <2>3, <3>1 DEF CanGoOn, CanInsert, CanDelete, Refused
  <2>4. CASE ~txs[m].done /\ Locked(Target(m))
    <3>1. PICK n \in Moderators : Active(n) /\ txs[n].row # "same" /\ Target(n) = Target(m)
      BY <2>4 DEF Locked
    <3>2. txs[n].done
      BY <1>1, <3>1 DEF QueueInv, RowsHeld
    <3>3. QED
      BY <2>1, <2>4, <3>1, <3>2 DEF WaitsFor
  <2>5. QED
    BY <2>2, <2>3, <2>4
<1>2. QueueInv => NobodyStuck
  BY <1>1 DEF NobodyStuck
<1>3. QED
  BY <1>2, QueueInvariance, PTL
=============================================================================

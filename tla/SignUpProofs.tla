---------------------------- MODULE SignUpProofs ----------------------------
(* Proofs about SignUp, for every value of its constants: its types and    *)
(* the locals of its requests; the parts of the inductive invariant, with  *)
(* the theorems that rest on each; and the mailing of codes.               *)
EXTENDS SignUp, FiniteSetTheorems, TLAPS

-----------------------------------------------------------------------------
(* What a request can become.                                              *)

LEMMA GoodIdle == Idle \in SignUpRequest /\ GoodRequest(Idle) /\ Idle.pc = "idle"
BY DEF Idle, SignUpRequest, GoodRequest, PC, Writing, Judging

LEMMA Looked ==
  ASSUME NEW e \in Emails, NEW n \in Names,
         NEW q, q = [Idle EXCEPT !.pc = "find_name", !.email = e, !.name = n]
  PROVE  /\ q \in SignUpRequest /\ GoodRequest(q)
         /\ \A i \in Ids :
              /\ [q EXCEPT !.pc = "delete_email", !.old = i] \in SignUpRequest
              /\ GoodRequest([q EXCEPT !.pc = "delete_email", !.old = i])
              /\ [q EXCEPT !.id = i] \in SignUpRequest
              /\ GoodRequest([q EXCEPT !.id = i])
BY DEF Idle, SignUpRequest, GoodRequest, PC, Writing, Judging

LEMMA Removal ==
  ASSUME NEW i \in Ids
  PROVE  /\ [Idle EXCEPT !.pc = "delete_only", !.old = i] \in SignUpRequest
         /\ GoodRequest([Idle EXCEPT !.pc = "delete_only", !.old = i])
BY DEF Idle, SignUpRequest, GoodRequest, PC, Writing, Judging

LEMMA Resending ==
  ASSUME NEW i \in Ids, NEW t \in Nat,
         NEW q, q = [Idle EXCEPT !.pc = "resend_load", !.id = i, !.at = t]
  PROVE  q \in SignUpRequest /\ GoodRequest(q)
BY DEF Idle, SignUpRequest, GoodRequest, PC, Writing, Judging

LEMMA Verifying ==
  ASSUME NEW i \in Ids, NEW c \in Codes \union {NoCode}, NEW t \in Nat,
         NEW q, q = [Idle EXCEPT !.pc = "verify_load", !.id = i, !.code = c, !.at = t]
  PROVE  q \in SignUpRequest /\ GoodRequest(q)
BY DEF Idle, SignUpRequest, GoodRequest, PC, Writing, Judging

LEMMA Coded ==
  ASSUME NEW i \in Ids, NEW c \in Codes, NEW t \in Nat,
         NEW pc \in {"store", "increment", "set_verified"}
  PROVE  /\ [Idle EXCEPT !.pc = pc, !.id = i, !.code = c, !.at = t] \in SignUpRequest
         /\ GoodRequest([Idle EXCEPT !.pc = pc, !.id = i, !.code = c, !.at = t])
         /\ [Idle EXCEPT !.pc = pc, !.id = i, !.code = c] \in SignUpRequest
         /\ GoodRequest([Idle EXCEPT !.pc = pc, !.id = i, !.code = c])
BY DEF Idle, SignUpRequest, GoodRequest, PC, Writing, Judging

(* A request that goes on keeps what it holds.                             *)
LEMMA Moving ==
  ASSUME NEW q \in SignUpRequest, NEW pc \in PC, NEW i \in Ids \union {NoId}
  PROVE  /\ [q EXCEPT !.pc = pc] \in SignUpRequest
         /\ [q EXCEPT !.pc = pc, !.old = i] \in SignUpRequest
         /\ \A f \in {"email", "name", "id", "code", "at"} :
              /\ [q EXCEPT !.pc = pc][f] = q[f]
              /\ [q EXCEPT !.pc = pc, !.old = i][f] = q[f]
         /\ [q EXCEPT !.pc = pc].pc = pc
         /\ [q EXCEPT !.pc = pc, !.old = i].pc = pc
         /\ [q EXCEPT !.pc = pc, !.old = i].old = i
BY DEF SignUpRequest

LEMMA BecomeAt ==
  ASSUME SignUpTypeOK, NEW r \in Requests, NEW q, Become(r, q)
  PROVE  /\ req'[r] = q
         /\ \A x \in Requests : x # r => req'[x] = req[x]
BY DEF SignUpTypeOK, Become

LEMMA Lands ==
  ASSUME SignUpTypeOK, RequestInv, NEW r \in Requests, NEW q \in SignUpRequest,
         GoodRequest(q), Become(r, q)
  PROVE  req' \in [Requests -> SignUpRequest] /\ RequestInv'
<1>1. req' \in [Requests -> SignUpRequest]
  BY DEF SignUpTypeOK, Become
<1>2. ASSUME NEW x \in Requests PROVE GoodRequest(req'[x])
  BY BecomeAt DEF RequestInv
<1>3. QED
  BY <1>1, <1>2 DEF RequestInv

LEMMA Stays ==
  ASSUME SignUpTypeOK, RequestInv, UNCHANGED req
  PROVE  req' \in [Requests -> SignUpRequest] /\ RequestInv'
BY DEF SignUpTypeOK, RequestInv

LEMMA Prepares ==
  ASSUME SignUpTypeOK, RequestInv, NEW r \in Requests, NEW i \in Ids, Prepare(r, i)
  PROVE  req' \in [Requests -> SignUpRequest] /\ RequestInv'
<1>1. PICK c \in Codes :
        Become(r, [Idle EXCEPT !.pc = "store", !.id = i, !.code = c, !.at = now])
  BY DEF Prepare, FreshCodes
<1>2. QED
  BY <1>1, Coded, Lands DEF SignUpTypeOK

LEMMA Responds ==
  ASSUME SignUpTypeOK, RequestInv, NEW r \in Requests, Respond(r)
  PROVE  req' \in [Requests -> SignUpRequest] /\ RequestInv'
BY GoodIdle, Lands DEF Respond

(* The moves between two points of the same handler.                       *)
LEMMA Moves ==
  ASSUME SignUpTypeOK, RequestInv, NEW r \in Requests, NEW pc \in PC,
         \/ req[r].pc = "delete_email" /\ pc = "find_name"
         \/ req[r].pc = "delete_name" /\ pc = WriteUser(req[r])
         \/ req[r].pc = "find_name" /\ pc \in {WriteUser(req[r]), "delete_name"}
         \/ req[r].pc = "update" /\ pc = "reload"
         \/ req[r].pc = "store" /\ pc = "mail"
         \/ req[r].pc = "mail" /\ pc = "clear",
         \/ pc # "delete_name" /\ Become(r, [req[r] EXCEPT !.pc = pc])
         \/ pc # "delete_name" /\ Become(r, [req[r] EXCEPT !.pc = pc, !.old = NoId])
         \/ \E i \in Ids : Become(r, [req[r] EXCEPT !.pc = pc, !.old = i])
  PROVE  req' \in [Requests -> SignUpRequest] /\ RequestInv'
<1>1. req[r] \in SignUpRequest /\ GoodRequest(req[r])
  BY DEF SignUpTypeOK, RequestInv
<1>2. pc \in {"find_name", "create", "update", "delete_name", "reload", "mail", "clear"}
  BY DEF WriteUser
<1>3. pc \in {"find_name", "create", "update", "delete_name"} =>
        req[r].email \in Emails /\ req[r].name \in Names
  BY <1>1 DEF GoodRequest, Judging
<1>4. pc \in {"update", "reload", "mail", "clear"} => req[r].id \in Ids
  BY <1>1 DEF GoodRequest, Writing, Judging, WriteUser, SignUpRequest
<1>5. pc \in {"mail", "clear"} => req[r].code \in Codes
  BY <1>1 DEF GoodRequest, Writing, Judging, WriteUser
<1>6. ASSUME NEW q \in SignUpRequest, q.pc = pc, q.email = req[r].email,
             q.name = req[r].name, q.id = req[r].id, q.code = req[r].code,
             pc = "delete_name" => q.old \in Ids, Become(r, q)
      PROVE  req' \in [Requests -> SignUpRequest] /\ RequestInv'
  <2>1. GoodRequest(q)
    BY <1>2, <1>3, <1>4, <1>5, <1>6 DEF GoodRequest, Writing, Judging
  <2>2. QED
    BY <1>6, <2>1, Lands
<1>7. QED
  BY <1>1, <1>6 DEF SignUpRequest, NoId

LEMMA RequestStep ==
  SignUpTypeOK /\ RequestInv /\ [Next]_vars
    => req' \in [Requests -> SignUpRequest] /\ RequestInv'
<1> SUFFICES ASSUME SignUpTypeOK, RequestInv, [Next]_vars
             PROVE  req' \in [Requests -> SignUpRequest] /\ RequestInv'
  OBVIOUS
<1> DEFINE Goal == req' \in [Requests -> SignUpRequest] /\ RequestInv'
<1>1. ASSUME NEW r \in Requests, Respond(r) PROVE Goal
  BY <1>1, Responds
<1>2. ASSUME NEW r \in Requests, NEW e \in Emails, NEW n \in Names, SignUp(r, e, n)
      PROVE  Goal
  <2> DEFINE q == [Idle EXCEPT !.pc = "find_name", !.email = e, !.name = n]
  <2>1. CASE Become(r, q)
    BY <2>1, Looked, Lands
  <2>2. ASSUME NEW i \in Ids,
               \/ Become(r, [q EXCEPT !.pc = "delete_email", !.old = i])
               \/ Become(r, [q EXCEPT !.id = i])
        PROVE  Goal
    BY <2>2, Looked, Lands
  <2>3. CASE ~Become(r, q)
    <3>1. PICK i \in Ids :
            Become(r, IF SignupExpired(i) THEN [q EXCEPT !.pc = "delete_email", !.old = i]
                                          ELSE [q EXCEPT !.id = i])
      BY <1>2, <2>3 DEF SignUp, FindByEmail
    <3>2. CASE SignupExpired(i)
      BY <2>2, <3>1, <3>2
    <3>3. CASE ~SignupExpired(i)
      BY <2>2, <3>1, <3>3
    <3>4. QED
      BY <3>2, <3>3
  <2>4. QED
    BY <2>1, <2>3
<1>3. ASSUME NEW r \in Requests, FindName(r) PROVE Goal
  <2>1. CASE Become(r, [req[r] EXCEPT !.pc = WriteUser(req[r])])
    BY <1>3, <2>1, Moves DEF FindName, WriteUser, PC
  <2>2. ASSUME NEW i \in Ids, Become(r, [req[r] EXCEPT !.pc = "delete_name", !.old = i])
        PROVE  Goal
    BY <1>3, <2>2, Moves DEF FindName, PC
  <2>3. CASE ~Become(r, [req[r] EXCEPT !.pc = WriteUser(req[r])])
    <3>1. PICK i \in Ids :
            IF SignupExpired(i)
            THEN Become(r, [req[r] EXCEPT !.pc = "delete_name", !.old = i])
            ELSE Respond(r)
      BY <1>3, <2>3 DEF FindName, FindByName
    <3>2. QED
      BY <1>1, <2>2, <3>1
  <2>4. QED
    BY <2>1, <2>3
<1>4. ASSUME NEW r \in Requests, NEW o \in Outcomes, DeleteExpired(r, o) PROVE Goal
  BY <1>1, <1>4, Moves DEF DeleteExpired, WriteUser, PC, GoodRequest, RequestInv, Judging
<1>5. ASSUME NEW r \in Requests, NEW o \in Outcomes, CreateUser(r, o) PROVE Goal
  BY <1>1, <1>5, Prepares DEF CreateUser
<1>6. ASSUME NEW r \in Requests, NEW o \in Outcomes, UpdateUser(r, o) PROVE Goal
  BY <1>1, <1>6, Moves DEF UpdateUser, PC, GoodRequest, RequestInv
<1>7. ASSUME NEW r \in Requests, Reload(r) PROVE Goal
  BY <1>1, <1>7, Prepares DEF Reload, GoodRequest, RequestInv
<1>8. ASSUME NEW r \in Requests, NEW e \in Emails, ResendFind(r, e) PROVE Goal
  <2>1. PICK i \in Ids : /\ Exists(i)
                         /\ Become(r, [Idle EXCEPT !.pc = "resend_load", !.id = i,
                                                   !.at = users[i].createdAt])
    BY <1>8 DEF ResendFind, FindByEmail
  <2>2. users[i].createdAt \in Nat
    BY <2>1 DEF Exists, SignUpTypeOK, Row
  <2>3. QED
    BY <2>1, <2>2, Resending, Lands
<1>9. ASSUME NEW r \in Requests, ResendLoad(r) PROVE Goal
  <2>1. req[r].id \in Ids
    BY <1>9 DEF ResendLoad, GoodRequest, RequestInv
  <2>2. QED
    BY <1>1, <1>9, <2>1, Prepares, Removal, Lands DEF ResendLoad
<1>10. ASSUME NEW r \in Requests, NEW o \in Outcomes, Store(r, o) PROVE Goal
  BY <1>1, <1>10, Moves DEF Store, PC, GoodRequest, RequestInv, Writing
<1>11. ASSUME NEW r \in Requests, NEW accepted \in BOOLEAN, Mail(r, accepted) PROVE Goal
  BY <1>1, <1>11, Moves DEF Mail, PC, GoodRequest, RequestInv, Writing
<1>12. ASSUME NEW r \in Requests, NEW o \in Outcomes,
              \/ ClearVerification(r, o) \/ Increment(r, o) \/ SetVerified(r, o)
              \/ Abandon(r)
       PROVE  Goal
  BY <1>1, <1>12 DEF ClearVerification, Increment, SetVerified, Abandon
<1>13. ASSUME NEW r \in Requests, NEW e \in Emails, NEW guess \in Codes \union {NoCode},
              VerifyEmail(r, e, guess)
       PROVE  Goal
  <2>1. PICK i \in Ids : /\ Exists(i)
                         /\ Become(r, [Idle EXCEPT !.pc = "verify_load", !.id = i,
                                      !.code = guess, !.at = users[i].createdAt])
    BY <1>13 DEF VerifyEmail, FindByEmail
  <2>2. users[i].createdAt \in Nat
    BY <2>1 DEF Exists, SignUpTypeOK, Row
  <2>3. QED
    BY <2>1, <2>2, Verifying, Lands
<1>14. ASSUME NEW r \in Requests, VerifyLoad(r) PROVE Goal
  <2>0. req[r].id \in Ids
    BY <1>14 DEF VerifyLoad, GoodRequest, RequestInv
  <2>1. ASSUME NEW i \in Ids, Become(r, [Idle EXCEPT !.pc = "delete_only", !.old = i])
        PROVE  Goal
    BY <2>1, Removal, Lands
  <2>2. ASSUME NEW i \in Ids, NEW pc \in {"increment", "set_verified"},
               verification[i] # NoVerification,
               Become(r, [Idle EXCEPT !.pc = pc, !.id = i, !.code = verification[i].code])
        PROVE  Goal
    <3>1. verification[i].code \in Codes
      BY <2>2 DEF SignUpTypeOK, Verification
    <3>2. QED
      BY <2>2, <3>1, Coded, Lands DEF SignUpTypeOK
  <2>3. QED
    BY <1>1, <1>14, <2>0, <2>1, <2>2 DEF VerifyLoad, Triable
<1>15. CASE Cleanup \/ Tick \/ UNCHANGED vars
  BY <1>15, Stays DEF Cleanup, CleanupSelect, CleanupDelete, Tick, vars
<1>16. QED
  BY <1>2, <1>3, <1>4, <1>5, <1>6, <1>7, <1>8, <1>9, <1>10, <1>11, <1>12, <1>13, <1>14,
     <1>15, SignUpAssumption
  DEF Next, Submit, Step

-----------------------------------------------------------------------------
(* Type correctness.                                                       *)

LEMMA RemoveType ==
  ASSUME SignUpTypeOK, NEW gone, Remove(gone)
  PROVE  /\ users' \in [Ids -> Row \union {NoRow}]
         /\ verification' \in [Ids -> Verification \union {NoVerification}]
         /\ lastId' = lastId
BY DEF Remove, SignUpTypeOK

LEMMA TypeInit == Init => SignUpTypeOK /\ RequestInv
BY SignUpAssumption, GoodIdle DEF Init, SignUpTypeOK, RequestInv

LEMMA TypeStep == SignUpTypeOK /\ RequestInv /\ [Next]_vars => SignUpTypeOK' /\ RequestInv'
<1> SUFFICES ASSUME SignUpTypeOK, RequestInv, [Next]_vars PROVE SignUpTypeOK'
  BY RequestStep
<1> USE SignUpAssumption
<1>0. req' \in [Requests -> SignUpRequest]
  BY RequestStep
<1>1. ASSUME NEW r \in Requests,
             \/ \E e \in Emails, n \in Names : SignUp(r, e, n)
             \/ FindName(r) \/ Reload(r) \/ ResendLoad(r) \/ VerifyLoad(r) \/ Abandon(r)
             \/ \E e \in Emails : ResendFind(r, e)
             \/ \E e \in Emails, guess \in Codes \union {NoCode} : VerifyEmail(r, e, guess)
      PROVE  SignUpTypeOK'
  BY <1>0, <1>1 DEF SignUpTypeOK, SignUp, FindName, Reload, ResendLoad, Abandon, ResendFind,
     VerifyEmail, VerifyLoad, tables, history
<1>2. ASSUME NEW r \in Requests, NEW o \in Outcomes, DeleteExpired(r, o) PROVE SignUpTypeOK'
  <2>1. /\ users' \in [Ids -> Row \union {NoRow}]
        /\ verification' \in [Ids -> Verification \union {NoVerification}]
        /\ lastId' = lastId
    BY <1>2, RemoveType DEF DeleteExpired, DeleteUser, tables, SignUpTypeOK
  <2>2. QED
    BY <1>0, <1>2, <2>1 DEF DeleteExpired, SignUpTypeOK, history
<1>3. ASSUME NEW r \in Requests, NEW o \in Outcomes, CreateUser(r, o) PROVE SignUpTypeOK'
  <2>1. req[r].email \in Emails /\ req[r].name \in Names
    BY <1>3 DEF CreateUser, RequestInv, GoodRequest
  <2>2. [name |-> req[r].name, email |-> req[r].email, verified |-> FALSE, createdAt |-> now]
          \in Row
    BY <2>1 DEF Row, SignUpTypeOK
  <2>3. users' \in [Ids -> Row \union {NoRow}] /\ lastId' \in Ids \union {NoId}
    BY <1>3, <2>2 DEF CreateUser, SignUpTypeOK
  <2>4. QED
    BY <1>0, <1>3, <2>3 DEF CreateUser, SignUpTypeOK, history
<1>4. ASSUME NEW r \in Requests, NEW o \in Outcomes, UpdateUser(r, o) PROVE SignUpTypeOK'
  <2>1. req[r].id \in Ids /\ req[r].name \in Names
    BY <1>4 DEF UpdateUser, RequestInv, GoodRequest
  <2>2. users' \in [Ids -> Row \union {NoRow}]
    BY <1>4, <2>1 DEF UpdateUser, SignUpTypeOK, Exists, Row
  <2>3. QED
    BY <1>0, <1>4, <2>2 DEF UpdateUser, SignUpTypeOK, history
<1>5. ASSUME NEW r \in Requests, NEW o \in Outcomes, Store(r, o) PROVE SignUpTypeOK'
  <2>1. /\ req[r].id \in Ids /\ req[r].code \in Codes
        /\ [code |-> req[r].code, sentAt |-> req[r].at, failedAttempts |-> 0] \in Verification
    BY <1>5 DEF Store, RequestInv, GoodRequest, Writing, Judging, SignUpTypeOK, SignUpRequest,
       Verification
  <2>2. /\ verification' \in [Ids -> Verification \union {NoVerification}]
        /\ owner' \in [Codes -> Ids \union {NoId}]
    BY <1>5, <2>1 DEF Store, SignUpTypeOK
  <2>3. QED
    BY <1>0, <1>5, <2>2 DEF Store, SignUpTypeOK
<1>6. ASSUME NEW r \in Requests, NEW accepted \in BOOLEAN, Mail(r, accepted)
      PROVE  SignUpTypeOK'
  <2>1. req[r].code \in Codes
    BY <1>6 DEF Mail, RequestInv, GoodRequest, Writing, Judging
  <2>2. QED
    BY <1>0, <1>6, <2>1 DEF Mail, SignUpTypeOK, tables
<1>7. ASSUME NEW r \in Requests, NEW o \in Outcomes, ClearVerification(r, o)
      PROVE  SignUpTypeOK'
  <2>1. verification' \in [Ids -> Verification \union {NoVerification}]
    BY <1>7 DEF ClearVerification, SignUpTypeOK
  <2>2. QED
    BY <1>0, <1>7, <2>1 DEF ClearVerification, SignUpTypeOK, history
<1>8. ASSUME NEW r \in Requests, NEW o \in Outcomes, Increment(r, o) PROVE SignUpTypeOK'
  <2>1. req[r].id \in Ids /\ req[r].code \in Codes
    BY <1>8 DEF Increment, RequestInv, GoodRequest
  <2>2. verification' \in [Ids -> Verification \union {NoVerification}]
    BY <1>8, <2>1 DEF Increment, SignUpTypeOK, Verification
  <2>3. wrong' \in [Codes -> Nat]
    BY <1>8, <2>1 DEF Increment, SignUpTypeOK
  <2>4. QED
    BY <1>0, <1>8, <2>2, <2>3 DEF Increment, SignUpTypeOK
<1>9. ASSUME NEW r \in Requests, NEW o \in Outcomes, SetVerified(r, o) PROVE SignUpTypeOK'
  <2>1. req[r].id \in Ids
    BY <1>9 DEF SetVerified, RequestInv, GoodRequest
  <2>2. users' \in [Ids -> Row \union {NoRow}]
    BY <1>9, <2>1 DEF SetVerified, SignUpTypeOK, Exists, Row
  <2>3. verification' \in [Ids -> Verification \union {NoVerification}]
    BY <1>9, <2>1 DEF SetVerified, SignUpTypeOK
  <2>4. QED
    BY <1>0, <1>9, <2>2, <2>3 DEF SetVerified, SignUpTypeOK, history
<1>10. CASE CleanupSelect
  BY <1>0, <1>10 DEF CleanupSelect, SignUpTypeOK, tables, history
<1>11. ASSUME NEW o \in Outcomes, CleanupDelete(o) PROVE SignUpTypeOK'
  <2>1. /\ users' \in [Ids -> Row \union {NoRow}]
        /\ verification' \in [Ids -> Verification \union {NoVerification}]
        /\ lastId' = lastId
    BY <1>11, RemoveType DEF CleanupDelete, tables, SignUpTypeOK
  <2>2. QED
    BY <1>0, <1>11, <2>1 DEF CleanupDelete, SignUpTypeOK, history
<1>12. CASE Tick
  BY <1>0, <1>12 DEF Tick, SignUpTypeOK, tables, history
<1>13. CASE UNCHANGED vars
  BY <1>0, <1>13 DEF vars, SignUpTypeOK
<1>14. QED
  BY <1>1, <1>2, <1>3, <1>4, <1>5, <1>6, <1>7, <1>8, <1>9, <1>10, <1>11, <1>12, <1>13
  DEF Next, Submit, Step, Cleanup

(* Every step of every request and of the cleanup keeps the two tables,    *)
(* the requests' locals and the history variables well-formed.             *)
THEOREM SignUpTypeCorrect == Spec => []SignUpTypeOK
<1>1. Init => SignUpTypeOK /\ RequestInv
  BY TypeInit
<1>2. SignUpTypeOK /\ RequestInv /\ [Next]_vars => (SignUpTypeOK /\ RequestInv)'
  BY TypeStep
<1>3. QED
  BY <1>1, <1>2, PTL DEF Spec

-----------------------------------------------------------------------------
(* The parts of the inductive invariant, and what follows from them.       *)

Known == SignUpTypeOK /\ RequestInv

-----------------------------------------------------------------------------
(* Rows and their ages.                                                    *)

(* No step brings back a row that is gone or changes the age of one that   *)
(* is there; a new row has a new id.                                       *)
RowsKept ==
  /\ lastId \in Nat /\ lastId' \in Nat /\ lastId <= lastId'
  /\ now \in Nat /\ now' \in Nat /\ now <= now'
  /\ \A i \in Ids : users'[i] # NoRow =>
       /\ i <= lastId'
       /\ i <= lastId => /\ users[i] # NoRow
                         /\ users[i].createdAt \in Nat
                         /\ users'[i].createdAt = users[i].createdAt

LEMMA RowsStill ==
  ASSUME Known, AgeInv, UNCHANGED tables, now' = now \/ now' = now + 1
  PROVE  RowsKept
BY DEF Known, SignUpTypeOK, AgeInv, tables, RowsKept, Exists, Row, Ids, NoId

LEMMA RowsRemoved ==
  ASSUME Known, AgeInv, NEW gone, Remove(gone), now' = now
  PROVE  RowsKept
BY DEF Known, SignUpTypeOK, AgeInv, Remove, RowsKept, Exists, Row, Ids, NoId

LEMMA RowsStep ==
  ASSUME Known, AgeInv, [Next]_vars
  PROVE  RowsKept
<1> USE DEF Known
<1>1. ASSUME UNCHANGED tables, now' = now \/ now' = now + 1 PROVE RowsKept
  BY <1>1, RowsStill
<1>2. ASSUME lastId' = lastId, now' = now,
             \A i \in Ids : users'[i] # NoRow => /\ users[i] # NoRow
                                                 /\ users'[i].createdAt = users[i].createdAt
      PROVE  RowsKept
  BY <1>2 DEF SignUpTypeOK, AgeInv, RowsKept, Exists, Row, Ids, NoId
<1>3. ASSUME NEW r \in Requests, NEW o \in Outcomes, DeleteExpired(r, o) PROVE RowsKept
  BY <1>1, <1>3, RowsRemoved DEF DeleteExpired, DeleteUser
<1>4. ASSUME NEW r \in Requests, NEW o \in Outcomes, CreateUser(r, o) PROVE RowsKept
  <2>1. CASE UNCHANGED <<lastId, users>>
    BY <1>4, <2>1, <1>1 DEF CreateUser, tables
  <2>2. CASE ~UNCHANGED <<lastId, users>>
    <3>1. /\ lastId + 1 \in Ids /\ lastId' = lastId + 1 /\ now' = now
          /\ \A i \in Ids : i # lastId' => users'[i] = users[i]
      BY <1>4, <2>2 DEF CreateUser, SignUpTypeOK
    <3>2. QED
      BY <3>1 DEF SignUpTypeOK, AgeInv, RowsKept, Exists, Row, Ids, NoId
  <2>3. QED
    BY <2>1, <2>2
<1>5. ASSUME NEW r \in Requests, NEW o \in Outcomes,
             UpdateUser(r, o) \/ SetVerified(r, o)
      PROVE  RowsKept
  <2>1. lastId' = lastId /\ now' = now
    BY <1>5 DEF UpdateUser, SetVerified
  <2>2. ASSUME NEW k \in Ids, Exists(k), NEW i \in Ids, users'[i] # NoRow,
               \/ \E n : users' = [users EXCEPT ![k].name = n]
               \/ users' = [users EXCEPT ![k].verified = TRUE]
        PROVE  users[i] # NoRow /\ users'[i].createdAt = users[i].createdAt
    <3>1. users \in [Ids -> Row \union {NoRow}] /\ users[k] \in Row
      BY <2>2 DEF SignUpTypeOK, Exists
    <3>2. CASE i = k
      BY <2>2, <3>1, <3>2 DEF Exists, Row
    <3>3. CASE i # k
      BY <2>2, <3>1, <3>3
    <3>4. QED
      BY <3>2, <3>3
  <2>3. CASE users' = users
    BY <1>2, <2>1, <2>3
  <2>4. CASE users' # users
    <3>1. /\ req[r].id \in Ids /\ Exists(req[r].id)
          /\ \/ \E n : users' = [users EXCEPT ![req[r].id].name = n]
             \/ users' = [users EXCEPT ![req[r].id].verified = TRUE]
      BY <1>5, <2>4 DEF UpdateUser, SetVerified, RequestInv, GoodRequest
    <3>2. QED
      BY <1>2, <2>1, <2>2, <3>1
  <2>5. QED
    BY <2>3, <2>4
<1>6. ASSUME NEW o \in Outcomes, CleanupDelete(o) PROVE RowsKept
  BY <1>1, <1>6, RowsRemoved DEF CleanupDelete
<1>7. ASSUME NEW r \in Requests, NEW o \in Outcomes,
             Store(r, o) \/ ClearVerification(r, o) \/ Increment(r, o)
      PROVE  RowsKept
  BY <1>2, <1>7 DEF Store, ClearVerification, Increment
<1>8. ASSUME NEW r \in Requests,
             \/ \E e \in Emails, n \in Names : SignUp(r, e, n)
             \/ FindName(r) \/ Reload(r) \/ ResendLoad(r) \/ VerifyLoad(r) \/ Abandon(r)
             \/ \E e \in Emails : ResendFind(r, e)
             \/ \E e \in Emails, guess \in Codes \union {NoCode} : VerifyEmail(r, e, guess)
             \/ \E accepted \in BOOLEAN : Mail(r, accepted)
      PROVE  RowsKept
  BY <1>1, <1>8 DEF SignUp, FindName, Reload, ResendLoad, Abandon, ResendFind,
     VerifyEmail, VerifyLoad, Mail
<1>9. CASE CleanupSelect \/ Tick \/ UNCHANGED vars
  BY <1>1, <1>9 DEF CleanupSelect, Tick, vars, tables
<1>10. QED
  BY <1>3, <1>4, <1>5, <1>6, <1>7, <1>8, <1>9 DEF Next, Submit, Step, Cleanup

(* What was judged right stays right.                                      *)
LEMMA StillRight ==
  ASSUME Known, RowsKept, NEW q \in SignUpRequest, GoodRequest(q), JudgesRight(q)
  PROVE  JudgesRight(q)'
<1>1. /\ q.at \in Nat
      /\ q.pc \in Judging => q.old \in Ids
      /\ q.pc \in {"resend_load", "verify_load"} => q.id \in Ids
  BY DEF GoodRequest, Judging, SignUpRequest
<1>2. ASSUME NEW i \in Ids, i <= lastId
      PROVE  /\ i <= lastId'
             /\ users'[i] # NoRow => /\ users[i] # NoRow /\ users[i].createdAt \in Nat
                                     /\ users'[i].createdAt = users[i].createdAt
  BY <1>2 DEF RowsKept, Ids
<1>3. CASE q.pc \in Judging
  <2>1. q.old \in Ids /\ q.old <= lastId /\ q.pc \notin {"resend_load", "verify_load"}
    BY <1>1, <1>3 DEF JudgesRight, Judging
  <2>2. QED
    BY <1>2, <1>3, <2>1, SignUpAssumption DEF JudgesRight, Exists, RowsKept
<1>4. CASE q.pc \in {"resend_load", "verify_load"}
  BY <1>1, <1>2, <1>4 DEF JudgesRight, Exists, Judging
<1>5. QED
  BY <1>3, <1>4 DEF JudgesRight

LEMMA RightLands ==
  ASSUME Known, AgeInv, [Next]_vars, NEW r \in Requests, NEW q,
         JudgesRight(q), Become(r, q)
  PROVE  (\A x \in Requests : JudgesRight(req[x]))'
<1>1. ASSUME NEW x \in Requests, NEW y, y = req'[x] PROVE JudgesRight(y)'
  <2>1. y \in SignUpRequest /\ GoodRequest(y)
    BY <1>1, TypeStep DEF Known, SignUpTypeOK, RequestInv, GoodRequest, Judging, Writing
  <2>2. JudgesRight(y)
    BY <1>1, BecomeAt DEF Known, AgeInv
  <2>3. QED
    BY <2>1, <2>2, RowsStep, StillRight
<1>2. QED
  BY <1>1 DEF JudgesRight, Exists

LEMMA RightStays ==
  ASSUME Known, AgeInv, [Next]_vars, UNCHANGED req
  PROVE  (\A x \in Requests : JudgesRight(req[x]))'
<1>1. ASSUME NEW x \in Requests, NEW y, y = req'[x] PROVE JudgesRight(y)'
  <2>1. y \in SignUpRequest /\ GoodRequest(y) /\ JudgesRight(y)
    BY <1>1 DEF Known, AgeInv, SignUpTypeOK, RequestInv
  <2>2. QED
    BY <2>1, RowsStep, StillRight
<1>2. QED
  BY <1>1 DEF JudgesRight, Exists

(* Only a request that has read an account judges it.                      *)
LEMMA Unconcerned ==
  ASSUME NEW q, q.pc \notin Judging \union {"resend_load", "verify_load"}
  PROVE  JudgesRight(q)
BY DEF JudgesRight

LEMMA IdleLands ==
  ASSUME Known, AgeInv, [Next]_vars, NEW r \in Requests, Respond(r)
  PROVE  (\A x \in Requests : JudgesRight(req[x]))'
BY GoodIdle, Unconcerned, RightLands DEF Respond, Judging

LEMMA PrepareLands ==
  ASSUME Known, AgeInv, [Next]_vars, NEW r \in Requests, NEW i, Prepare(r, i)
  PROVE  (\A x \in Requests : JudgesRight(req[x]))'
<1>1. PICK c : Become(r, [Idle EXCEPT !.pc = "store", !.id = i, !.code = c, !.at = now])
  BY DEF Prepare
<1>2. [Idle EXCEPT !.pc = "store", !.id = i, !.code = c, !.at = now].pc = "store"
  BY DEF Idle
<1>3. QED
  BY <1>1, <1>2, Unconcerned, RightLands DEF Judging

LEMMA MoveLands ==
  ASSUME Known, AgeInv, [Next]_vars, NEW r \in Requests,
         NEW pc \in PC \ (Judging \union {"resend_load", "verify_load"}),
         \/ Become(r, [req[r] EXCEPT !.pc = pc])
         \/ Become(r, [req[r] EXCEPT !.pc = pc, !.old = NoId])
  PROVE  (\A x \in Requests : JudgesRight(req[x]))'
<1>1. /\ [req[r] EXCEPT !.pc = pc].pc = pc
      /\ [req[r] EXCEPT !.pc = pc, !.old = NoId].pc = pc
  BY DEF Known, SignUpTypeOK, SignUpRequest
<1>2. QED
  BY <1>1, Unconcerned, RightLands

LEMMA RightStep ==
  ASSUME Known, AgeInv, [Next]_vars
  PROVE  (\A x \in Requests : JudgesRight(req[x]))'
<1> DEFINE Goal == (\A x \in Requests : JudgesRight(req[x]))'
<1> USE DEF Known
<1>1. ASSUME NEW r \in Requests, NEW e \in Emails, NEW n \in Names, SignUp(r, e, n)
      PROVE  Goal
  <2> DEFINE q == [Idle EXCEPT !.pc = "find_name", !.email = e, !.name = n]
  <2>1. CASE Become(r, q)
    BY <2>1, Unconcerned, RightLands DEF Idle, Judging
  <2>2. ASSUME NEW i \in Ids, Become(r, [q EXCEPT !.id = i]) PROVE Goal
    <3>1. [q EXCEPT !.id = i].pc = "find_name"
      BY DEF Idle
    <3>2. QED
      BY <2>2, <3>1, Unconcerned, RightLands DEF Judging
  <2>3. ASSUME NEW i \in Ids, Exists(i), SignupExpired(i),
               NEW x, x = [q EXCEPT !.pc = "delete_email", !.old = i], Become(r, x)
        PROVE  Goal
    <3>1. x.pc = "delete_email" /\ x.old = i
      BY <2>3 DEF Idle
    <3>2. JudgesRight(x)
      BY <2>3, <3>1, SignUpAssumption
      DEF AgeInv, SignupExpired, JudgesRight, Judging
    <3>3. QED
      BY <2>3, <3>2, RightLands
  <2>4. CASE ~Become(r, q)
    <3>1. PICK i \in Ids :
            /\ Exists(i)
            /\ Become(r, IF SignupExpired(i)
                         THEN [q EXCEPT !.pc = "delete_email", !.old = i]
                         ELSE [q EXCEPT !.id = i])
      BY <1>1, <2>4 DEF SignUp, FindByEmail
    <3>2. CASE SignupExpired(i)
      BY <2>3, <3>1, <3>2
    <3>3. CASE ~SignupExpired(i)
      BY <2>2, <3>1, <3>3
    <3>4. QED
      BY <3>2, <3>3
  <2>5. QED
    BY <2>1, <2>4
<1>2. ASSUME NEW r \in Requests, FindName(r) PROVE Goal
  <2>1. CASE Become(r, [req[r] EXCEPT !.pc = WriteUser(req[r])])
    BY <2>1, MoveLands DEF WriteUser, PC, Judging
  <2>2. ASSUME NEW i \in Ids, Exists(i), SignupExpired(i),
               NEW x, x = [req[r] EXCEPT !.pc = "delete_name", !.old = i], Become(r, x)
        PROVE  Goal
    <3>1. x.pc = "delete_name" /\ x.old = i
      BY <2>2 DEF SignUpTypeOK, SignUpRequest
    <3>2. JudgesRight(x)
      BY <2>2, <3>1, SignUpAssumption
      DEF AgeInv, SignupExpired, JudgesRight, Judging
    <3>3. QED
      BY <2>2, <3>2, RightLands
  <2>3. CASE ~Become(r, [req[r] EXCEPT !.pc = WriteUser(req[r])])
    <3>1. PICK i \in Ids :
            /\ Exists(i)
            /\ IF SignupExpired(i)
               THEN Become(r, [req[r] EXCEPT !.pc = "delete_name", !.old = i])
               ELSE Respond(r)
      BY <1>2, <2>3 DEF FindName, FindByName
    <3>2. QED
      BY <2>2, <3>1, IdleLands
  <2>4. QED
    BY <2>1, <2>3
<1>3. ASSUME NEW r \in Requests, NEW o \in Outcomes, DeleteExpired(r, o) PROVE Goal
  BY <1>3, IdleLands, MoveLands DEF DeleteExpired, WriteUser, PC, Judging
<1>4. ASSUME NEW r \in Requests, NEW o \in Outcomes,
             CreateUser(r, o) \/ UpdateUser(r, o) \/ Reload(r) \/ Store(r, o)
      PROVE  Goal
  BY <1>4, IdleLands, PrepareLands, MoveLands
  DEF CreateUser, UpdateUser, Reload, Store, PC, Judging
<1>5. ASSUME NEW r \in Requests, NEW e \in Emails, ResendFind(r, e) PROVE Goal
  <2>1. PICK i \in Ids : /\ Exists(i)
                         /\ Become(r, [Idle EXCEPT !.pc = "resend_load", !.id = i,
                                                   !.at = users[i].createdAt])
    BY <1>5 DEF ResendFind, FindByEmail
  <2> DEFINE q == [Idle EXCEPT !.pc = "resend_load", !.id = i, !.at = users[i].createdAt]
  <2>2. q.pc = "resend_load" /\ q.id = i /\ q.at = users[i].createdAt
    BY DEF Idle
  <2>3. JudgesRight(q)
    BY <2>1, <2>2 DEF JudgesRight, Judging, AgeInv
  <2>4. QED
    BY <2>1, <2>3, RightLands
<1>6. ASSUME NEW r \in Requests, ResendLoad(r) PROVE Goal
  <2>1. /\ req[r].id \in Ids /\ req[r].id <= lastId /\ req[r].pc = "resend_load"
        /\ Exists(req[r].id) => users[req[r].id].createdAt = req[r].at
    BY <1>6 DEF ResendLoad, GoodRequest, RequestInv, AgeInv, JudgesRight
  <2> DEFINE q == [Idle EXCEPT !.pc = "delete_only", !.old = req[r].id]
  <2>2. q.pc = "delete_only" /\ q.old = req[r].id
    BY DEF Idle
  <2>3. CASE req[r].at + SIGNUP_EXPIRES < now
    <3>1. JudgesRight(q)
      BY <2>1, <2>2, <2>3 DEF JudgesRight, Judging
    <3>2. QED
      BY <1>6, <2>3, <3>1, RightLands DEF ResendLoad
  <2>4. CASE ~(req[r].at + SIGNUP_EXPIRES < now)
    BY <1>6, <2>4, IdleLands, PrepareLands DEF ResendLoad
  <2>5. QED
    BY <2>3, <2>4
<1>7. ASSUME NEW r \in Requests, NEW e \in Emails, NEW guess \in Codes \union {NoCode},
             VerifyEmail(r, e, guess)
      PROVE  Goal
  <2>1. PICK i \in Ids : /\ Exists(i)
                         /\ Become(r, [Idle EXCEPT !.pc = "verify_load", !.id = i,
                                      !.code = guess, !.at = users[i].createdAt])
    BY <1>7 DEF VerifyEmail, FindByEmail
  <2> DEFINE q == [Idle EXCEPT !.pc = "verify_load", !.id = i, !.code = guess,
                               !.at = users[i].createdAt]
  <2>2. q.pc = "verify_load" /\ q.id = i /\ q.at = users[i].createdAt
    BY DEF Idle
  <2>3. JudgesRight(q)
    BY <2>1, <2>2 DEF JudgesRight, Judging, AgeInv
  <2>4. QED
    BY <2>1, <2>3, RightLands
<1>8. ASSUME NEW r \in Requests, VerifyLoad(r) PROVE Goal
  <2>1. /\ req[r].id \in Ids /\ req[r].id <= lastId /\ req[r].pc = "verify_load"
        /\ Exists(req[r].id) => users[req[r].id].createdAt = req[r].at
    BY <1>8 DEF VerifyLoad, GoodRequest, RequestInv, AgeInv, JudgesRight
  <2> DEFINE q == [Idle EXCEPT !.pc = "delete_only", !.old = req[r].id]
  <2>2. q.pc = "delete_only" /\ q.old = req[r].id
    BY DEF Idle
  <2>3. CASE req[r].at + SIGNUP_EXPIRES < now
    <3>1. JudgesRight(q)
      BY <2>1, <2>2, <2>3 DEF JudgesRight, Judging
    <3>2. QED
      BY <1>8, <2>3, <3>1, RightLands DEF VerifyLoad
  <2>4. ASSUME NEW i, NEW c, NEW pc \in {"set_verified", "increment"},
               Become(r, [Idle EXCEPT !.pc = pc, !.id = i, !.code = c])
        PROVE  Goal
    <3>1. [Idle EXCEPT !.pc = pc, !.id = i, !.code = c].pc = pc
      BY DEF Idle
    <3>2. QED
      BY <2>4, <3>1, Unconcerned, RightLands DEF Judging
  <2>5. CASE ~(req[r].at + SIGNUP_EXPIRES < now)
    BY <1>8, <2>4, <2>5, IdleLands DEF VerifyLoad
  <2>6. QED
    BY <2>3, <2>5
<1>9. ASSUME NEW r \in Requests, NEW accepted \in BOOLEAN, Mail(r, accepted) PROVE Goal
  BY <1>9, IdleLands, MoveLands DEF Mail, PC, Judging
<1>10. ASSUME NEW r \in Requests, NEW o \in Outcomes,
             \/ ClearVerification(r, o) \/ Increment(r, o) \/ SetVerified(r, o)
             \/ Abandon(r)
      PROVE  Goal
  BY <1>10, IdleLands DEF ClearVerification, Increment, SetVerified, Abandon
<1>11. CASE Cleanup \/ Tick \/ UNCHANGED vars
  BY <1>11, RightStays DEF Cleanup, CleanupSelect, CleanupDelete, Tick, vars
<1>12. QED
  BY <1>1, <1>2, <1>3, <1>4, <1>5, <1>6, <1>7, <1>8, <1>9, <1>10, <1>11,
     SignUpAssumption
  DEF Next, Submit, Step

LEMMA AgeStep ==
  ASSUME Known, AgeInv, [Next]_vars
  PROVE  AgeInv'
<1> USE DEF Known
<1>1. (\A i \in Ids : Exists(i) => i <= lastId)'
  BY RowsStep DEF RowsKept, Exists
<1>2. (\A i \in victims :
         i <= lastId /\ (Exists(i) => users[i].createdAt + SIGNUP_EXPIRES < now))'
  <2>1. CASE victims' \subseteq victims
    <3>1. ASSUME NEW i \in victims
          PROVE  /\ i <= lastId'
                 /\ users'[i] # NoRow => users'[i].createdAt + SIGNUP_EXPIRES < now'
      <4>1. /\ i \in Ids /\ i \in Nat /\ i <= lastId
            /\ users[i] # NoRow => users[i].createdAt + SIGNUP_EXPIRES < now
        BY <3>1 DEF SignUpTypeOK, AgeInv, Exists, Ids
      <4>2. QED
        BY <4>1, RowsStep, SignUpAssumption DEF RowsKept
    <3>2. QED
      BY <2>1, <3>1 DEF Exists
  <2>2. CASE CleanupSelect
    BY <2>2 DEF CleanupSelect, AgeInv, SignUpTypeOK, SignupExpired, Exists, tables
  <2>3. ASSUME NEW r \in Requests, NEW o \in Outcomes,
               \/ DeleteExpired(r, o) \/ CreateUser(r, o) \/ UpdateUser(r, o)
               \/ Store(r, o) \/ ClearVerification(r, o)
               \/ Increment(r, o) \/ SetVerified(r, o) \/ CleanupDelete(o)
        PROVE  victims' \subseteq victims
    BY <2>3 DEF DeleteExpired, CreateUser, UpdateUser, Store, ClearVerification, Increment,
       SetVerified, CleanupDelete
  <2>4. ASSUME NEW r \in Requests,
               \/ \E e \in Emails, n \in Names : SignUp(r, e, n)
               \/ FindName(r) \/ Reload(r) \/ ResendLoad(r) \/ VerifyLoad(r) \/ Abandon(r)
               \/ \E e \in Emails : ResendFind(r, e)
               \/ \E e \in Emails, guess \in Codes \union {NoCode} : VerifyEmail(r, e, guess)
               \/ \E accepted \in BOOLEAN : Mail(r, accepted)
        PROVE  victims' \subseteq victims
    BY <2>4 DEF SignUp, FindName, Reload, ResendLoad, Abandon, ResendFind,
     VerifyEmail, VerifyLoad, Mail
  <2>5. victims' \subseteq victims \/ CleanupSelect
    BY <2>3, <2>4 DEF Next, Submit, Step, Cleanup, vars, CleanupDelete, Tick
  <2>6. QED
    BY <2>1, <2>2, <2>5
<1>3. QED
  BY <1>1, <1>2, RightStep DEF AgeInv

-----------------------------------------------------------------------------
(* Which account a step may delete.                                        *)

LEMMA DeleteStep ==
  ASSUME Known, AgeInv, [Next]_vars, NEW i \in Ids, Exists(i), users'[i] = NoRow
  PROVE  /\ users[i].createdAt + SIGNUP_EXPIRES < now
         /\ users[i].verified => i \in victims
         /\ verification'[i] = NoVerification
<1> USE DEF Known
<1>1. ASSUME NEW r \in Requests, NEW o \in Outcomes, DeleteExpired(r, o)
      PROVE  /\ users[i].createdAt + SIGNUP_EXPIRES < now /\ ~users[i].verified
             /\ verification'[i] = NoVerification
  <2>1. DeleteUser(req[r].old)
    BY <1>1 DEF DeleteExpired, tables, Exists
  <2>2. i = req[r].old /\ ~users[i].verified /\ verification'[i] = NoVerification
    BY <2>1 DEF DeleteUser, Remove, Exists
  <2>3. req[r].pc \in Judging
    BY <1>1 DEF DeleteExpired, Judging
  <2>4. QED
    BY <2>2, <2>3 DEF AgeInv, JudgesRight
<1>2. ASSUME NEW o \in Outcomes, CleanupDelete(o)
      PROVE  /\ users[i].createdAt + SIGNUP_EXPIRES < now /\ i \in victims
             /\ verification'[i] = NoVerification
  <2>1. Remove(victims)
    BY <1>2 DEF CleanupDelete, tables, Exists
  <2>2. i \in victims /\ verification'[i] = NoVerification
    BY <2>1 DEF Remove, Exists
  <2>3. QED
    BY <2>2 DEF AgeInv
<1>3. ASSUME NEW r \in Requests, NEW o \in Outcomes, CreateUser(r, o) PROVE FALSE
  <2>1. PICK k, q : users' = [users EXCEPT ![k] = [name |-> req[r].name,
                                                   email |-> req[r].email,
                                                   verified |-> FALSE, createdAt |-> q]]
                    \/ users' = users
    BY <1>3 DEF CreateUser
  <2>2. req[r].name # NoName
    BY <1>3, SignUpAssumption DEF CreateUser, RequestInv, GoodRequest
  <2>3. QED
    BY <2>1, <2>2 DEF SignUpTypeOK, Exists, NoRow
<1>4. ASSUME NEW r \in Requests, NEW o \in Outcomes, UpdateUser(r, o) \/ SetVerified(r, o)
      PROVE  FALSE
  <2>1. users' # users
    BY DEF Exists
  <2>2. ASSUME NEW k \in Ids, users[k] \in Row,
               \/ users' = [users EXCEPT ![k].verified = TRUE]
               \/ \E n \in Names : users' = [users EXCEPT ![k].name = n]
        PROVE  FALSE
    <3>1. users[i] \in Row /\ users \in [Ids -> Row \union {NoRow}]
      BY DEF SignUpTypeOK, Exists
    <3>2. i # k => users'[i] = users[i]
      BY <2>2, <3>1
    <3>3. i = k => users'[i] \in Row
      BY <2>2, <3>1 DEF Row
    <3>4. NoRow \notin Row
      BY SignUpAssumption DEF Row, NoRow
    <3>5. QED
      BY <3>1, <3>2, <3>3, <3>4
  <2>3. req[r].id \in Ids /\ Exists(req[r].id) => users[req[r].id] \in Row
    BY DEF SignUpTypeOK, Exists
  <2>4. CASE UpdateUser(r, o)
    <3>1. /\ req[r].id \in Ids /\ req[r].name \in Names /\ Exists(req[r].id)
          /\ users' = [users EXCEPT ![req[r].id].name = req[r].name]
      BY <2>1, <2>4 DEF UpdateUser, RequestInv, GoodRequest
    <3>2. QED
      BY <2>2, <2>3, <3>1
  <2>5. CASE SetVerified(r, o)
    <3>1. /\ req[r].id \in Ids /\ Exists(req[r].id)
          /\ users' = [users EXCEPT ![req[r].id].verified = TRUE]
      BY <2>1, <2>5 DEF SetVerified, RequestInv, GoodRequest
    <3>2. QED
      BY <2>2, <2>3, <3>1
  <2>6. QED
    BY <1>4, <2>4, <2>5
<1>5. ASSUME UNCHANGED users PROVE FALSE
  BY <1>5 DEF Exists
<1>6. ASSUME NEW r \in Requests, NEW o \in Outcomes,
             Store(r, o) \/ ClearVerification(r, o) \/ Increment(r, o)
      PROVE  FALSE
  BY <1>5, <1>6 DEF Store, ClearVerification, Increment
<1>7. ASSUME NEW r \in Requests,
             \/ \E e \in Emails, n \in Names : SignUp(r, e, n)
             \/ FindName(r) \/ Reload(r) \/ ResendLoad(r) \/ VerifyLoad(r) \/ Abandon(r)
             \/ \E e \in Emails : ResendFind(r, e)
             \/ \E e \in Emails, guess \in Codes \union {NoCode} : VerifyEmail(r, e, guess)
             \/ \E accepted \in BOOLEAN : Mail(r, accepted)
      PROVE  FALSE
  BY <1>5, <1>7 DEF SignUp, FindName, Reload, ResendLoad, Abandon, ResendFind,
     VerifyEmail, VerifyLoad, Mail, tables
<1>8. CASE CleanupSelect \/ Tick \/ UNCHANGED vars
  BY <1>5, <1>8 DEF CleanupSelect, Tick, vars, tables
<1>9. QED
  BY <1>1, <1>2, <1>3, <1>4, <1>6, <1>7, <1>8 DEF Next, Submit, Step, Cleanup

(* No request and no cleanup deletes an account before its sign-up period  *)
(* is over, whatever happened since it was read, and a verified one is     *)
(* deleted by the cleanup alone, which had selected it.                    *)
THEOREM DeletedRight == Spec => DeletedOnlyExpired
<1>1. Init => Known /\ AgeInv
  <2>1. ASSUME Init PROVE AgeInv
    BY <2>1, GoodIdle DEF Init, AgeInv, Exists, JudgesRight, Idle, Judging
  <2>2. QED
    BY <2>1, TypeInit DEF Known
<1>2. Known /\ AgeInv /\ [Next]_vars => (Known /\ AgeInv)'
  BY TypeStep, AgeStep DEF Known
<1>3. Known /\ AgeInv /\ [Next]_vars
        => [\A i \in Ids :
              Exists(i) /\ users'[i] = NoRow
                => /\ users[i].createdAt + SIGNUP_EXPIRES < now
                   /\ users[i].verified => i \in victims]_vars
  BY DeleteStep
<1>4. QED
  BY <1>1, <1>2, <1>3, PTL DEF Spec, DeletedOnlyExpired

-----------------------------------------------------------------------------
(* Who holds which code.                                                   *)

CodesHeld ==
  /\ \A r \in Requests : HoldsCode(req[r])
  /\ \A r, x \in Requests :
       req[r].pc \in Writing /\ req[x].pc \in Writing /\ req[r].code = req[x].code
         => r = x

CodesStored ==
  \A i \in Ids : verification[i] # NoVerification =>
    Exists(i) /\ owner[verification[i].code] = i

LEMMA CodesLand ==
  ASSUME Known, CodeInv, UNCHANGED <<owner, mailed>>, NEW r \in Requests, NEW q,
         Become(r, q), HoldsCode(q),
         q.pc \in Writing => \A x \in Requests :
                               x # r /\ req[x].pc \in Writing => req[x].code # q.code
  PROVE  CodesHeld'
<1>1. req'[r] = q /\ \A x \in Requests : x # r => req'[x] = req[x]
  BY BecomeAt DEF Known
<1>2. ASSUME NEW x \in Requests PROVE HoldsCode(req[x])'
  BY <1>1, <1>2 DEF HoldsCode, CodeInv
<1>3. ASSUME NEW x \in Requests, NEW y \in Requests, req'[x].pc \in Writing,
             req'[y].pc \in Writing, req'[x].code = req'[y].code
      PROVE  x = y
  BY <1>1, <1>3 DEF CodeInv
<1>4. QED
  BY <1>2, <1>3 DEF CodesHeld

(* Only a request that holds a code is concerned.                          *)
LEMMA CodesQuiet ==
  ASSUME Known, CodeInv, UNCHANGED <<owner, mailed>>, NEW r \in Requests, NEW q,
         Become(r, q), q.pc \notin Writing \union {"increment", "set_verified"}
  PROVE  CodesHeld'
BY CodesLand DEF HoldsCode, Writing

LEMMA CodesIdle ==
  ASSUME Known, CodeInv, UNCHANGED <<owner, mailed>>, NEW r \in Requests, Respond(r)
  PROVE  CodesHeld'
BY GoodIdle, CodesQuiet DEF Respond, Writing

LEMMA CodesStay ==
  ASSUME CodeInv, UNCHANGED <<req, owner, mailed>>
  PROVE  CodesHeld'
BY DEF CodeInv, CodesHeld, HoldsCode

(* A fresh code is nobody else's.                                          *)
LEMMA CodesPrepared ==
  ASSUME Known, CodeInv, UNCHANGED <<owner, mailed>>, NEW r \in Requests, NEW i,
         Prepare(r, i)
  PROVE  CodesHeld'
<1>1. PICK c \in Codes :
        /\ owner[c] = NoId
        /\ \A x \in Requests : req[x].code # c
        /\ Become(r, [Idle EXCEPT !.pc = "store", !.id = i, !.code = c, !.at = now])
  BY DEF Prepare, FreshCodes
<1> DEFINE q == [Idle EXCEPT !.pc = "store", !.id = i, !.code = c, !.at = now]
<1>2. q.pc = "store" /\ q.code = c
  BY DEF Idle
<1>3. HoldsCode(q)
  <2>1. ASSUME c \in mailed PROVE FALSE
    BY <1>1, <2>1 DEF CodeInv
  <2>2. QED
    BY <1>1, <1>2, <2>1 DEF HoldsCode
<1>4. QED
  BY <1>1, <1>2, <1>3, CodesLand

LEMMA CodesMove ==
  ASSUME Known, CodeInv, UNCHANGED <<owner, mailed>>, NEW r \in Requests,
         NEW pc \in PC \ (Writing \union {"increment", "set_verified"}),
         \/ Become(r, [req[r] EXCEPT !.pc = pc])
         \/ \E i : Become(r, [req[r] EXCEPT !.pc = pc, !.old = i])
  PROVE  CodesHeld'
<1>1. /\ [req[r] EXCEPT !.pc = pc].pc = pc
      /\ \A i : [req[r] EXCEPT !.pc = pc, !.old = i].pc = pc
  BY DEF Known, SignUpTypeOK, SignUpRequest
<1>2. CASE Become(r, [req[r] EXCEPT !.pc = pc])
  BY <1>1, <1>2, CodesQuiet
<1>3. CASE \E i : Become(r, [req[r] EXCEPT !.pc = pc, !.old = i])
  BY <1>1, <1>3, CodesQuiet
<1>4. QED
  BY <1>2, <1>3

LEMMA CodesMailed ==
  ASSUME Known, CodeInv, NEW r \in Requests, NEW accepted \in BOOLEAN, Mail(r, accepted)
  PROVE  CodesHeld' /\ (\A c \in mailed : owner[c] # NoId)'
<1>1. /\ req[r] \in SignUpRequest /\ req[r].pc = "mail" /\ req[r].id \in Ids
      /\ HoldsCode(req[r]) /\ owner' = owner
  BY DEF Known, SignUpTypeOK, RequestInv, GoodRequest, Writing, CodeInv, Mail, history
<1>2. owner[req[r].code] # NoId
  BY <1>1 DEF HoldsCode, Ids, NoId
<1>3. CASE accepted
  <2>1. /\ mailed' = mailed \union {req[r].code}
        /\ req'[r] = Idle /\ \A x \in Requests : x # r => req'[x] = req[x]
    BY <1>3, BecomeAt DEF Mail, Respond, Known
  <2>2. ASSUME NEW x \in Requests PROVE HoldsCode(req[x])'
    <3>1. CASE x = r
      BY <2>1, <3>1, GoodIdle DEF HoldsCode, Writing
    <3>2. CASE x # r
      <4>1. req[x].pc \in Writing => req[x].code # req[r].code
        BY <1>1, <3>2 DEF CodeInv, Writing
      <4>2. QED
        BY <1>1, <2>1, <3>2, <4>1 DEF CodeInv, HoldsCode
    <3>3. QED
      BY <3>1, <3>2
  <2>3. ASSUME NEW x \in Requests, NEW y \in Requests, req'[x].pc \in Writing,
               req'[y].pc \in Writing, req'[x].code = req'[y].code
        PROVE  x = y
    BY <2>1, <2>3, GoodIdle DEF CodeInv, Writing
  <2>4. QED
    BY <1>1, <1>2, <2>1, <2>2, <2>3 DEF CodesHeld, CodeInv
<1>4. CASE ~accepted
  <2> DEFINE q == [req[r] EXCEPT !.pc = "clear"]
  <2>1. Become(r, q) /\ mailed' = mailed
    BY <1>4 DEF Mail
  <2>2. q.pc = "clear" /\ q.code = req[r].code /\ q.id = req[r].id
    BY <1>1 DEF SignUpRequest
  <2>3. HoldsCode(q)
    BY <1>1, <2>2 DEF HoldsCode, Writing
  <2>4. ASSUME NEW x \in Requests, x # r, req[x].pc \in Writing
        PROVE  req[x].code # q.code
    BY <1>1, <2>2, <2>4 DEF CodeInv, Writing
  <2>5. QED
    BY <1>1, <2>1, <2>3, <2>4, CodesLand DEF CodeInv
<1>5. QED
  BY <1>3, <1>4

LEMMA CodesStoring ==
  ASSUME Known, CodeInv, NEW r \in Requests, NEW o \in Outcomes, Store(r, o)
  PROVE  CodesHeld' /\ (\A c \in mailed : owner[c] # NoId)'
<1>1. /\ req[r] \in SignUpRequest /\ req[r].pc = "store" /\ req[r].id \in Ids
      /\ req[r].code \in Codes /\ HoldsCode(req[r]) /\ mailed' = mailed
      /\ owner \in [Codes -> Ids \union {NoId}]
  BY DEF Known, SignUpTypeOK, RequestInv, GoodRequest, Writing, CodeInv, Store
<1>2. CASE UNCHANGED owner /\ Respond(r)
  BY <1>1, <1>2, CodesIdle DEF CodeInv
<1>3. CASE ~(UNCHANGED owner /\ Respond(r))
  <2> DEFINE q == [req[r] EXCEPT !.pc = "mail"]
  <2>1. owner' = [owner EXCEPT ![req[r].code] = req[r].id]
    BY <1>3 DEF Store
  <2>2. q.pc = "mail" /\ q.code = req[r].code /\ q.id = req[r].id
    BY <1>1 DEF SignUpRequest
  <2>3. Become(r, q) \/ Become(r, Idle)
    BY DEF Store, Respond
  <2>4. /\ req'[r] = q \/ req'[r] = Idle
        /\ \A x \in Requests : x # r => req'[x] = req[x]
    BY <2>3, BecomeAt DEF Known
  <2>5. /\ owner'[req[r].code] = req[r].id /\ req[r].id # NoId
        /\ \A c \in Codes : c # req[r].code => owner'[c] = owner[c]
        /\ owner[req[r].code] = NoId
    BY <1>1, <2>1 DEF HoldsCode, Ids, NoId
  <2>6. ASSUME NEW x \in Requests PROVE HoldsCode(req[x])'
    <3>1. CASE x = r
      BY <1>1, <2>2, <2>4, <2>5, <3>1, GoodIdle DEF HoldsCode, Writing
    <3>2. CASE x # r
      <4>1. /\ req'[x] = req[x] /\ HoldsCode(req[x]) /\ req[x] \in SignUpRequest
            /\ req[x].pc \in Writing \union {"increment", "set_verified"} =>
                 req[x].code \in Codes /\ req[x].id \in Ids
        BY <2>4, <3>2 DEF CodeInv, Known, SignUpTypeOK, RequestInv, GoodRequest
      <4>2. req[x].pc \in Writing => req[x].code # req[r].code
        BY <1>1, <3>2 DEF CodeInv, Writing
      <4>3. req[x].pc \in {"mail", "clear", "increment", "set_verified"} =>
              req[x].code # req[r].code
        BY <2>5, <4>1 DEF HoldsCode, Ids, NoId, Writing
      <4>4. QED
        BY <1>1, <2>5, <4>1, <4>2, <4>3 DEF HoldsCode, Writing
    <3>3. QED
      BY <3>1, <3>2
  <2>7. ASSUME NEW x \in Requests, NEW y \in Requests, req'[x].pc \in Writing,
               req'[y].pc \in Writing, req'[x].code = req'[y].code
        PROVE  x = y
    <3>1. ASSUME NEW z \in Requests, req'[z].pc \in Writing
          PROVE  req[z].pc \in Writing /\ req[z].code = req'[z].code
      BY <1>1, <2>2, <2>4, <3>1, GoodIdle DEF Writing
    <3>2. QED
      BY <2>7, <3>1 DEF CodeInv
  <2>8. (\A c \in mailed : owner[c] # NoId)'
    <3>1. ASSUME NEW c \in mailed PROVE owner'[c] # NoId
      <4>1. c \in Codes /\ owner[c] # NoId
        BY <3>1 DEF CodeInv, Known, SignUpTypeOK
      <4>2. QED
        BY <2>5, <4>1
    <3>2. QED
      BY <1>1, <3>1
  <2>9. QED
    BY <2>6, <2>7, <2>8 DEF CodesHeld
<1>4. QED
  BY <1>2, <1>3

LEMMA CodesHeldStep ==
  ASSUME Known, CodeInv, [Next]_vars
  PROVE  CodesHeld' /\ (\A c \in mailed : owner[c] # NoId)'
<1> DEFINE Goal == CodesHeld' /\ (\A c \in mailed : owner[c] # NoId)'
<1>0. ASSUME UNCHANGED <<owner, mailed>> PROVE (\A c \in mailed : owner[c] # NoId)'
  BY <1>0 DEF CodeInv
<1>1. ASSUME NEW r \in Requests, NEW e \in Emails, NEW n \in Names, SignUp(r, e, n)
      PROVE  Goal
  <2> DEFINE q == [Idle EXCEPT !.pc = "find_name", !.email = e, !.name = n]
  <2>1. UNCHANGED <<owner, mailed>>
    BY <1>1 DEF SignUp, history
  <2>2. CASE Become(r, q)
    BY <1>0, <2>1, <2>2, CodesQuiet DEF Idle, Writing
  <2>3. ASSUME NEW i \in Ids, NEW x,
               x \in {[q EXCEPT !.pc = "delete_email", !.old = i], [q EXCEPT !.id = i]},
               Become(r, x)
        PROVE  Goal
    <3>1. x.pc \notin Writing \union {"increment", "set_verified"}
      BY <2>3 DEF Idle, Writing
    <3>2. QED
      BY <1>0, <2>1, <2>3, <3>1, CodesQuiet
  <2>4. CASE ~Become(r, q)
    <3>1. PICK i \in Ids :
            Become(r, IF SignupExpired(i) THEN [q EXCEPT !.pc = "delete_email", !.old = i]
                                          ELSE [q EXCEPT !.id = i])
      BY <1>1, <2>4 DEF SignUp, FindByEmail
    <3>2. CASE SignupExpired(i)
      BY <2>3, <3>1, <3>2
    <3>3. CASE ~SignupExpired(i)
      BY <2>3, <3>1, <3>3
    <3>4. QED
      BY <3>2, <3>3
  <2>5. QED
    BY <2>2, <2>4
<1>2. ASSUME NEW r \in Requests, FindName(r) PROVE Goal
  <2>1. UNCHANGED <<owner, mailed>>
    BY <1>2 DEF FindName, history
  <2>2. CASE Become(r, [req[r] EXCEPT !.pc = WriteUser(req[r])])
    BY <1>0, <2>1, <2>2, CodesMove DEF WriteUser, PC, Writing
  <2>3. CASE \E i : Become(r, [req[r] EXCEPT !.pc = "delete_name", !.old = i])
    BY <1>0, <2>1, <2>3, CodesMove DEF PC, Writing
  <2>4. CASE Respond(r)
    BY <1>0, <2>1, <2>4, CodesIdle
  <2>5. QED
    BY <1>2, <2>2, <2>3, <2>4 DEF FindName
<1>3. ASSUME NEW r \in Requests, NEW o \in Outcomes, DeleteExpired(r, o) PROVE Goal
  BY <1>0, <1>3, CodesIdle, CodesMove DEF DeleteExpired, WriteUser, PC, Writing, history
<1>4. ASSUME NEW r \in Requests, NEW o \in Outcomes,
             CreateUser(r, o) \/ UpdateUser(r, o) \/ Reload(r)
      PROVE  Goal
  BY <1>0, <1>4, CodesIdle, CodesMove, CodesPrepared
  DEF CreateUser, UpdateUser, Reload, PC, Writing, history
<1>5. ASSUME NEW r \in Requests, NEW e \in Emails, ResendFind(r, e) PROVE Goal
  <2>1. PICK q : q.pc = "resend_load" /\ Become(r, q)
    BY <1>5 DEF ResendFind, Idle
  <2>2. QED
    BY <1>0, <1>5, <2>1, CodesQuiet DEF ResendFind, history, Writing
<1>6. ASSUME NEW r \in Requests, ResendLoad(r) PROVE Goal
  <2>1. UNCHANGED <<owner, mailed>>
    BY <1>6 DEF ResendLoad, history
  <2>2. CASE \E i : Become(r, [Idle EXCEPT !.pc = "delete_only", !.old = i])
    <3>1. PICK q : q.pc = "delete_only" /\ Become(r, q)
      BY <2>2 DEF Idle
    <3>2. QED
      BY <1>0, <2>1, <3>1, CodesQuiet DEF Writing
  <2>3. QED
    BY <1>0, <1>6, <2>1, <2>2, CodesIdle, CodesPrepared DEF ResendLoad
<1>7. ASSUME NEW r \in Requests, NEW e \in Emails, NEW guess \in Codes \union {NoCode},
             VerifyEmail(r, e, guess)
      PROVE  Goal
  <2>1. PICK q : q.pc = "verify_load" /\ Become(r, q)
    BY <1>7 DEF VerifyEmail, Idle
  <2>2. QED
    BY <1>0, <1>7, <2>1, CodesQuiet DEF VerifyEmail, history, Writing
<1>8. ASSUME NEW r \in Requests, VerifyLoad(r) PROVE Goal
  <2>0. req[r].id \in Ids
    BY <1>8 DEF VerifyLoad, Known, RequestInv, GoodRequest
  <2>1. UNCHANGED <<owner, mailed>>
    BY <1>8 DEF VerifyLoad, history
  <2>2. CASE \E i : Become(r, [Idle EXCEPT !.pc = "delete_only", !.old = i])
    <3>1. PICK q : q.pc = "delete_only" /\ Become(r, q)
      BY <2>2 DEF Idle
    <3>2. QED
      BY <1>0, <2>1, <3>1, CodesQuiet DEF Writing
  <2>3. ASSUME NEW i \in Ids, NEW pc \in {"increment", "set_verified"},
               verification[i] # NoVerification,
               Become(r, [Idle EXCEPT !.pc = pc, !.id = i, !.code = verification[i].code])
        PROVE  Goal
    <3> DEFINE q == [Idle EXCEPT !.pc = pc, !.id = i, !.code = verification[i].code]
    <3>1. q.pc = pc /\ q.id = i /\ q.code = verification[i].code
      BY DEF Idle
    <3>2. HoldsCode(q)
      BY <2>3, <3>1 DEF HoldsCode, Writing, CodeInv
    <3>3. QED
      BY <1>0, <2>1, <2>3, <3>1, <3>2, CodesLand DEF Writing
  <2>4. QED
    BY <1>0, <1>8, <2>0, <2>1, <2>2, <2>3, CodesIdle DEF VerifyLoad, Triable
<1>9. ASSUME NEW r \in Requests, NEW o \in Outcomes,
             \/ ClearVerification(r, o) \/ Increment(r, o) \/ SetVerified(r, o)
             \/ Abandon(r)
      PROVE  Goal
  BY <1>0, <1>9, CodesIdle DEF ClearVerification, Increment, SetVerified, Abandon, history
<1>10. CASE Cleanup \/ Tick \/ UNCHANGED vars
  BY <1>0, <1>10, CodesStay DEF Cleanup, CleanupSelect, CleanupDelete, Tick, vars, history
<1>11. QED
  BY <1>1, <1>2, <1>3, <1>4, <1>5, <1>6, <1>7, <1>8, <1>9, <1>10,
     CodesMailed, CodesStoring, SignUpAssumption
  DEF Next, Submit, Step

(* The user a code was stored for is the same ever after.                  *)
LEMMA OwnerKept ==
  ASSUME Known, CodeInv, [Next]_vars, NEW c \in Codes, owner[c] # NoId
  PROVE  owner'[c] = owner[c]
<1>1. ASSUME NEW r \in Requests, NEW o \in Outcomes, Store(r, o) PROVE owner'[c] = owner[c]
  <2>1. req[r].code # c
    BY <1>1 DEF Store, CodeInv, HoldsCode
  <2>2. QED
    BY <1>1, <2>1 DEF Store, Known, SignUpTypeOK
<1>2. ASSUME NEW r \in Requests, NEW o \in Outcomes,
             \/ DeleteExpired(r, o) \/ CreateUser(r, o) \/ UpdateUser(r, o)
             \/ ClearVerification(r, o) \/ Increment(r, o) \/ SetVerified(r, o)
      PROVE  owner' = owner
  BY <1>2 DEF DeleteExpired, CreateUser, UpdateUser, ClearVerification, Increment,
     SetVerified, history
<1>3. ASSUME NEW r \in Requests,
             \/ \E e \in Emails, n \in Names : SignUp(r, e, n)
             \/ FindName(r) \/ Reload(r) \/ ResendLoad(r) \/ VerifyLoad(r) \/ Abandon(r)
             \/ \E e \in Emails : ResendFind(r, e)
             \/ \E e \in Emails, guess \in Codes \union {NoCode} : VerifyEmail(r, e, guess)
             \/ \E accepted \in BOOLEAN : Mail(r, accepted)
      PROVE  owner' = owner
  BY <1>3 DEF SignUp, FindName, Reload, ResendLoad, Abandon, ResendFind,
     VerifyEmail, VerifyLoad, Mail, history
<1>4. CASE Cleanup \/ Tick \/ UNCHANGED vars
  BY <1>4 DEF Cleanup, CleanupSelect, CleanupDelete, Tick, vars, history
<1>5. QED
  BY <1>1, <1>2, <1>3, <1>4 DEF Next, Submit, Step

(* What a step can do to a verification row that is there after it.        *)
SameCode(i) ==
  /\ verification[i] # NoVerification
  /\ verification'[i].code = verification[i].code
  /\ verification'[i].failedAttempts >= verification[i].failedAttempts

NewCode(i) ==
  \E r \in Requests, o \in Outcomes :
    /\ Store(r, o) /\ req[r].id = i
    /\ verification'[i].code = req[r].code /\ verification'[i].failedAttempts = 0

LEMMA VerificationStep ==
  ASSUME Known, [Next]_vars, NEW i \in Ids, verification'[i] # NoVerification
  PROVE  SameCode(i) \/ NewCode(i)
<1>0. /\ verification \in [Ids -> Verification \union {NoVerification}]
      /\ verification[i] # NoVerification => verification[i].failedAttempts \in Nat
  BY DEF Known, SignUpTypeOK, Verification
<1>1. ASSUME verification'[i] = verification[i] PROVE SameCode(i)
  BY <1>0, <1>1 DEF SameCode
<1>2. ASSUME NEW gone, Remove(gone) PROVE SameCode(i)
  BY <1>1, <1>2 DEF Remove
<1>3. ASSUME NEW r \in Requests, NEW o \in Outcomes, Store(r, o)
      PROVE  SameCode(i) \/ NewCode(i)
  <2>1. CASE verification'[i] = verification[i]
    BY <1>1, <2>1
  <2>2. CASE verification'[i] # verification[i]
    <3>1. /\ req[r].id = i
          /\ verification'[i] = [code |-> req[r].code, sentAt |-> req[r].at,
                                 failedAttempts |-> 0]
      BY <1>0, <1>3, <2>2 DEF Store
    <3>2. QED
      BY <1>3, <3>1 DEF NewCode
  <2>3. QED
    BY <2>1, <2>2
<1>4. ASSUME NEW r \in Requests, NEW o \in Outcomes, Increment(r, o) PROVE SameCode(i)
  <2>1. CASE verification'[i] = verification[i]
    BY <1>1, <2>1
  <2>2. CASE verification'[i] # verification[i]
    <3>1. /\ req[r].id = i /\ verification[i] # NoVerification
          /\ verification' = [verification EXCEPT ![i].failedAttempts = @ + 1]
      BY <1>0, <1>4, <2>2 DEF Increment
    <3>2. verification[i] \in Verification
      BY <1>0, <3>1
    <3>3. QED
      BY <1>0, <3>1, <3>2 DEF SameCode, Verification
  <2>3. QED
    BY <2>1, <2>2
<1>5. ASSUME NEW r \in Requests, NEW o \in Outcomes,
             ClearVerification(r, o) \/ SetVerified(r, o)
      PROVE  SameCode(i)
  BY <1>0, <1>1, <1>5 DEF ClearVerification, SetVerified
<1>6. ASSUME NEW o \in Outcomes,
             CleanupDelete(o) \/ \E r \in Requests : DeleteExpired(r, o)
      PROVE  SameCode(i)
  BY <1>1, <1>2, <1>6 DEF DeleteExpired, DeleteUser, CleanupDelete, tables
<1>7. ASSUME NEW r \in Requests, NEW o \in Outcomes, CreateUser(r, o) \/ UpdateUser(r, o)
      PROVE  SameCode(i)
  BY <1>1, <1>7 DEF CreateUser, UpdateUser
<1>8. ASSUME NEW r \in Requests,
             \/ \E e \in Emails, n \in Names : SignUp(r, e, n)
             \/ FindName(r) \/ Reload(r) \/ ResendLoad(r) \/ VerifyLoad(r) \/ Abandon(r)
             \/ \E e \in Emails : ResendFind(r, e)
             \/ \E e \in Emails, guess \in Codes \union {NoCode} : VerifyEmail(r, e, guess)
             \/ \E accepted \in BOOLEAN : Mail(r, accepted)
      PROVE  SameCode(i)
  BY <1>1, <1>8 DEF SignUp, FindName, Reload, ResendLoad, Abandon, ResendFind,
     VerifyEmail, VerifyLoad, Mail, tables
<1>9. CASE CleanupSelect \/ Tick \/ UNCHANGED vars
  BY <1>1, <1>9 DEF CleanupSelect, Tick, vars, tables
<1>10. QED
  BY <1>3, <1>4, <1>5, <1>6, <1>7, <1>8, <1>9 DEF Next, Submit, Step, Cleanup

LEMMA CodeStep ==
  ASSUME Known, AgeInv, CodeInv, [Next]_vars
  PROVE  CodeInv'
<1>0. ASSUME NEW i \in Ids, verification'[i] # NoVerification PROVE users'[i] # NoRow
  <2>1. CASE SameCode(i)
    BY <1>0, <2>1, DeleteStep DEF SameCode, CodeInv
  <2>2. CASE NewCode(i)
    <3>1. PICK r \in Requests, o \in Outcomes : Store(r, o) /\ req[r].id = i
      BY <2>2 DEF NewCode
    <3>2. Exists(i)
      BY <1>0, <3>1 DEF Store, CodeInv
    <3>3. QED
      BY <1>0, <3>2, DeleteStep
  <2>3. QED
    BY <1>0, <2>1, <2>2, VerificationStep
<1>1. ASSUME NEW i \in Ids, verification'[i] # NoVerification
      PROVE  owner'[verification'[i].code] = i
  <2>1. CASE SameCode(i)
    <3>1. /\ verification[i].code \in Codes /\ owner[verification[i].code] = i /\ i # NoId
          /\ verification'[i].code = verification[i].code
      BY <2>1 DEF SameCode, CodeInv, Known, SignUpTypeOK, Verification, Ids, NoId
    <3>2. QED
      BY <3>1, OwnerKept
  <2>2. CASE NewCode(i)
    <3>1. PICK r \in Requests, o \in Outcomes :
            Store(r, o) /\ req[r].id = i /\ verification'[i].code = req[r].code
      BY <2>2 DEF NewCode
    <3>2. req[r].code \in Codes
      BY <3>1 DEF Store, Known, RequestInv, GoodRequest, Writing
    <3>3. CASE owner' = [owner EXCEPT ![req[r].code] = i]
      BY <3>1, <3>2, <3>3 DEF Known, SignUpTypeOK
    <3>4. CASE UNCHANGED <<owner, verification>>
      BY <1>1, <3>1, <3>4 DEF CodeInv
    <3>5. QED
      BY <3>1, <3>3, <3>4 DEF Store
  <2>3. QED
    BY <1>1, <2>1, <2>2, VerificationStep
<1>2. CodesStored'
  BY <1>0, <1>1 DEF CodesStored, Exists
<1>3. QED
  BY <1>2, CodesHeldStep DEF CodeInv, CodesHeld, CodesStored

-----------------------------------------------------------------------------
(* How many guesses are answered.                                          *)

Answered(c) ==
  wrong[c] + Cardinality(Comparing(c)) <= MAX_FAILED_ATTEMPTS - 1 + Cardinality(Requests)

Counted(c) ==
  /\ owner[c] = NoId => wrong[c] = 0
  /\ \A i \in Ids : verification[i].code = c => wrong[c] <= verification[i].failedAttempts

LEMMA ComparingSize ==
  ASSUME NEW c
  PROVE  /\ IsFiniteSet(Comparing(c)) /\ Cardinality(Comparing(c)) \in Nat
         /\ Cardinality(Requests) \in Nat
         /\ Cardinality(Comparing(c)) <= Cardinality(Requests)
<1>1. Comparing(c) \subseteq Requests
  BY DEF Comparing
<1>2. QED
  BY <1>1, SignUpAssumption, FS_Subset, FS_CardinalityType

(* The wrong answers are those of Increment alone.                         *)
LEMMA WrongKept ==
  ASSUME [Next]_vars
  PROVE  wrong' = wrong \/ \E r \in Requests, o \in Outcomes : Increment(r, o)
<1>1. ASSUME NEW r \in Requests, NEW o \in Outcomes,
             \/ DeleteExpired(r, o) \/ CreateUser(r, o) \/ UpdateUser(r, o)
             \/ Store(r, o) \/ ClearVerification(r, o) \/ SetVerified(r, o)
      PROVE  wrong' = wrong
  BY <1>1 DEF DeleteExpired, CreateUser, UpdateUser, Store, ClearVerification,
     SetVerified, history
<1>2. ASSUME NEW r \in Requests,
             \/ \E e \in Emails, n \in Names : SignUp(r, e, n)
             \/ FindName(r) \/ Reload(r) \/ ResendLoad(r) \/ VerifyLoad(r) \/ Abandon(r)
             \/ \E e \in Emails : ResendFind(r, e)
             \/ \E e \in Emails, guess \in Codes \union {NoCode} : VerifyEmail(r, e, guess)
             \/ \E accepted \in BOOLEAN : Mail(r, accepted)
      PROVE  wrong' = wrong
  BY <1>2 DEF SignUp, FindName, Reload, ResendLoad, Abandon, ResendFind,
     VerifyEmail, VerifyLoad, Mail, history
<1>3. CASE Cleanup \/ Tick \/ UNCHANGED vars
  BY <1>3 DEF Cleanup, CleanupSelect, CleanupDelete, Tick, vars, history
<1>4. QED
  BY <1>1, <1>2, <1>3 DEF Next, Submit, Step

LEMMA CountedStep ==
  ASSUME Known, CodeInv, [Next]_vars, NEW c \in Codes, Counted(c), wrong'[c] = wrong[c]
  PROVE  Counted(c)'
<1>1. owner'[c] = NoId => owner[c] = NoId
  BY OwnerKept
<1>2. ASSUME NEW i \in Ids, verification'[i].code = c
      PROVE  wrong'[c] <= verification'[i].failedAttempts
  <2>1. verification'[i] # NoVerification
    BY <1>2, SignUpAssumption DEF NoVerification
  <2>2. CASE SameCode(i)
    <3>1. /\ verification[i].code = c
          /\ verification[i].failedAttempts \in Nat /\ verification'[i].failedAttempts \in Nat
          /\ wrong[c] \in Nat
      BY <1>2, <2>1, <2>2, TypeStep DEF SameCode, Known, SignUpTypeOK, Verification
    <3>2. QED
      BY <2>2, <3>1 DEF SameCode, Counted
  <2>3. CASE NewCode(i)
    <3>1. PICK r \in Requests, o \in Outcomes :
            /\ Store(r, o) /\ verification'[i].code = req[r].code
            /\ verification'[i].failedAttempts = 0
      BY <2>3 DEF NewCode
    <3>2. owner[c] = NoId
      BY <1>2, <3>1 DEF Store, CodeInv, HoldsCode
    <3>3. QED
      BY <3>1, <3>2 DEF Counted
  <2>4. QED
    BY <2>1, <2>2, <2>3, VerificationStep
<1>3. QED
  BY <1>1, <1>2 DEF Counted

(* A request starts to compare with a code that has attempts left.         *)
MayCompare(q) ==
  \E i \in Ids : /\ verification[i] # NoVerification
                 /\ verification[i].failedAttempts < MAX_FAILED_ATTEMPTS
                 /\ q.code = verification[i].code

LEMMA Compares ==
  ASSUME Known, NEW r \in Requests, NEW q, Become(r, q), q.pc = "increment" => MayCompare(q),
         NEW x \in Requests, req'[x].pc = "increment"
  PROVE  req'[x] = req[x] \/ MayCompare(req'[x])
BY BecomeAt DEF Known, MayCompare

LEMMA NewComparing ==
  ASSUME Known, [Next]_vars, NEW x \in Requests, req'[x].pc = "increment"
  PROVE  req'[x] = req[x] \/ MayCompare(req'[x])
<1> DEFINE Goal == req'[x] = req[x] \/ MayCompare(req'[x])
<1>1. ASSUME NEW r \in Requests, Respond(r) PROVE Goal
  BY <1>1, GoodIdle, Compares DEF Respond
<1>2. ASSUME NEW r \in Requests, NEW e \in Emails, NEW n \in Names, SignUp(r, e, n)
      PROVE  Goal
  <2> DEFINE q == [Idle EXCEPT !.pc = "find_name", !.email = e, !.name = n]
  <2>1. CASE Become(r, q)
    BY <2>1, Compares DEF Idle
  <2>2. ASSUME NEW i \in Ids, NEW y,
               y \in {[q EXCEPT !.pc = "delete_email", !.old = i], [q EXCEPT !.id = i]},
               Become(r, y)
        PROVE  Goal
    <3>1. y.pc # "increment"
      BY <2>2 DEF Idle
    <3>2. QED
      BY <2>2, <3>1, Compares
  <2>3. CASE ~Become(r, q)
    <3>1. PICK i \in Ids :
            Become(r, IF SignupExpired(i) THEN [q EXCEPT !.pc = "delete_email", !.old = i]
                                          ELSE [q EXCEPT !.id = i])
      BY <1>2, <2>3 DEF SignUp, FindByEmail
    <3>2. CASE SignupExpired(i)
      BY <2>2, <3>1, <3>2
    <3>3. CASE ~SignupExpired(i)
      BY <2>2, <3>1, <3>3
    <3>4. QED
      BY <3>2, <3>3
  <2>4. QED
    BY <2>1, <2>3
<1>3. ASSUME NEW r \in Requests, NEW pc \in PC, pc # "increment",
             \/ Become(r, [req[r] EXCEPT !.pc = pc])
             \/ \E i : Become(r, [req[r] EXCEPT !.pc = pc, !.old = i])
      PROVE  Goal
  <2>1. /\ [req[r] EXCEPT !.pc = pc].pc = pc
        /\ \A i : [req[r] EXCEPT !.pc = pc, !.old = i].pc = pc
    BY DEF Known, SignUpTypeOK, SignUpRequest
  <2>2. CASE Become(r, [req[r] EXCEPT !.pc = pc])
    BY <1>3, <2>1, <2>2, Compares
  <2>3. CASE \E i : Become(r, [req[r] EXCEPT !.pc = pc, !.old = i])
    BY <1>3, <2>1, <2>3, Compares
  <2>4. QED
    BY <1>3, <2>2, <2>3
<1>4. ASSUME NEW r \in Requests, NEW i, Prepare(r, i) PROVE Goal
  <2>1. PICK c : Become(r, [Idle EXCEPT !.pc = "store", !.id = i, !.code = c, !.at = now])
    BY <1>4 DEF Prepare
  <2>2. [Idle EXCEPT !.pc = "store", !.id = i, !.code = c, !.at = now].pc = "store"
    BY DEF Idle
  <2>3. QED
    BY <2>1, <2>2, Compares
<1>5. ASSUME NEW r \in Requests, NEW i, Become(r, [Idle EXCEPT !.pc = "delete_only", !.old = i])
      PROVE  Goal
  <2>1. [Idle EXCEPT !.pc = "delete_only", !.old = i].pc = "delete_only"
    BY DEF Idle
  <2>2. QED
    BY <1>5, <2>1, Compares
<1>6. ASSUME NEW r \in Requests, FindName(r) PROVE Goal
  BY <1>1, <1>3, <1>6 DEF FindName, WriteUser, PC
<1>7. ASSUME NEW r \in Requests, NEW o \in Outcomes,
             DeleteExpired(r, o) \/ UpdateUser(r, o) \/ Store(r, o)
      PROVE  Goal
  BY <1>1, <1>3, <1>7 DEF DeleteExpired, UpdateUser, Store, WriteUser, PC
<1>8. ASSUME NEW r \in Requests, NEW o \in Outcomes,
             \/ CreateUser(r, o) \/ Reload(r) \/ ResendLoad(r) \/ ClearVerification(r, o)
             \/ Increment(r, o) \/ SetVerified(r, o) \/ Abandon(r)
      PROVE  Goal
  BY <1>1, <1>4, <1>5, <1>8
  DEF CreateUser, Reload, ResendLoad, ClearVerification, Increment, SetVerified, Abandon
<1>9. ASSUME NEW r \in Requests, NEW e \in Emails, ResendFind(r, e) PROVE Goal
  <2>1. PICK i \in Ids : Become(r, [Idle EXCEPT !.pc = "resend_load", !.id = i,
                                                !.at = users[i].createdAt])
    BY <1>9 DEF ResendFind, FindByEmail
  <2>2. [Idle EXCEPT !.pc = "resend_load", !.id = i, !.at = users[i].createdAt].pc
          = "resend_load"
    BY DEF Idle
  <2>3. QED
    BY <2>1, <2>2, Compares
<1>10. ASSUME NEW r \in Requests, NEW e \in Emails, NEW guess \in Codes \union {NoCode},
              VerifyEmail(r, e, guess)
       PROVE  Goal
  <2>1. PICK q : q.pc = "verify_load" /\ Become(r, q)
    BY <1>10 DEF VerifyEmail, Idle
  <2>2. QED
    BY <2>1, Compares
<1>11. ASSUME NEW r \in Requests, VerifyLoad(r) PROVE Goal
  <2>0. req[r].id \in Ids
    BY <1>11 DEF VerifyLoad, Known, RequestInv, GoodRequest
  <2>1. ASSUME NEW i \in Ids, NEW pc \in {"increment", "set_verified"},
               verification[i] # NoVerification,
               verification[i].failedAttempts < MAX_FAILED_ATTEMPTS,
               Become(r, [Idle EXCEPT !.pc = pc, !.id = i, !.code = verification[i].code])
        PROVE  Goal
    <3> DEFINE q == [Idle EXCEPT !.pc = pc, !.id = i, !.code = verification[i].code]
    <3>1. q.code = verification[i].code
      BY DEF Idle
    <3>2. MayCompare(q)
      BY <2>1, <3>1 DEF MayCompare
    <3>3. QED
      BY <2>1, <3>2, Compares
  <2>2. QED
    BY <1>1, <1>5, <1>11, <2>0, <2>1 DEF VerifyLoad, Triable
<1>12. ASSUME NEW r \in Requests, NEW accepted \in BOOLEAN, Mail(r, accepted) PROVE Goal
  BY <1>1, <1>3, <1>12 DEF Mail, PC
<1>13. CASE Cleanup \/ Tick \/ UNCHANGED vars
  BY <1>13 DEF Cleanup, CleanupSelect, CleanupDelete, Tick, vars
<1>14. QED
  BY <1>2, <1>6, <1>7, <1>8, <1>9, <1>10, <1>11, <1>12, <1>13, SignUpAssumption
  DEF Next, Submit, Step

LEMMA AnsweredStep ==
  ASSUME Known, [Next]_vars, NEW c \in Codes, Answered(c), Counted(c), wrong'[c] = wrong[c]
  PROVE  Answered(c)'
<1> USE SignUpAssumption
<1>0. wrong[c] \in Nat
  BY DEF Known, SignUpTypeOK
<1>1. /\ Comparing(c)' \subseteq Requests /\ IsFiniteSet(Comparing(c)')
      /\ Cardinality(Comparing(c)') \in Nat /\ Cardinality(Requests) \in Nat
      /\ Cardinality(Comparing(c)') <= Cardinality(Requests)
  <2>1. Comparing(c)' \subseteq Requests
    BY DEF Comparing
  <2>2. QED
    BY <2>1, FS_Subset, FS_CardinalityType
<1>2. CASE Comparing(c)' \subseteq Comparing(c)
  <2>1. Cardinality(Comparing(c)') <= Cardinality(Comparing(c))
    BY <1>2, ComparingSize, FS_Subset
  <2>2. QED
    BY <1>0, <1>1, <2>1, ComparingSize DEF Answered
<1>3. CASE ~(Comparing(c)' \subseteq Comparing(c))
  <2>1. PICK x \in Requests : /\ req'[x].pc = "increment" /\ req'[x].code = c
                              /\ req'[x] # req[x]
    BY <1>3 DEF Comparing
  <2>2. PICK i \in Ids : /\ verification[i] # NoVerification
                         /\ verification[i].failedAttempts < MAX_FAILED_ATTEMPTS
                         /\ verification[i].code = c
    BY <2>1, NewComparing DEF MayCompare
  <2>3. verification[i].failedAttempts \in Nat /\ wrong[c] <= verification[i].failedAttempts
    BY <2>2 DEF Counted, Known, SignUpTypeOK, Verification
  <2>4. wrong[c] <= MAX_FAILED_ATTEMPTS - 1
    BY <1>0, <2>2, <2>3
  <2>5. QED
    BY <1>0, <1>1, <2>4 DEF Answered
<1>4. QED
  BY <1>2, <1>3

(* An answer moves its request from those comparing to those counted.      *)
LEMMA IncrementGuesses ==
  ASSUME Known, CodeInv, GuessInv, NEW r \in Requests, NEW o \in Outcomes, Increment(r, o),
         NEW c \in Codes, wrong'[c] # wrong[c]
  PROVE  Answered(c)' /\ Counted(c)'
<1> USE SignUpAssumption
<1>1. /\ req[r].pc = "increment" /\ req[r].code = c /\ req[r].id \in Ids
      /\ verification[req[r].id] # NoVerification
      /\ verification' = [verification EXCEPT ![req[r].id].failedAttempts = @ + 1]
      /\ wrong' = [wrong EXCEPT ![c] = @ + 1] /\ wrong[c] \in Nat
      /\ owner' = owner /\ owner[c] = req[r].id /\ Respond(r)
  BY DEF Increment, Known, SignUpTypeOK, RequestInv, GoodRequest, CodeInv, HoldsCode, Runs
<1>2. wrong'[c] = wrong[c] + 1
  BY <1>1 DEF Known, SignUpTypeOK
<1>3. Answered(c)'
  <2>1. /\ req'[r].pc = "idle" /\ \A x \in Requests : x # r => req'[x] = req[x]
    BY <1>1, GoodIdle, BecomeAt DEF Respond, Known
  <2>2. r \in Comparing(c) /\ Comparing(c)' = Comparing(c) \ {r}
    BY <1>1, <2>1 DEF Comparing
  <2>3. Cardinality(Comparing(c)') = Cardinality(Comparing(c)) - 1
    BY <2>2, ComparingSize, FS_RemoveElement
  <2>4. QED
    BY <1>1, <1>2, <2>3, ComparingSize DEF Answered, GuessInv
<1>4. Counted(c)'
  <2>1. owner'[c] # NoId
    BY <1>1 DEF Ids, NoId
  <2>2. ASSUME NEW i \in Ids, verification'[i].code = c
        PROVE  wrong'[c] <= verification'[i].failedAttempts
    <3>1. CASE i # req[r].id
      <4>1. verification'[i] = verification[i]
        BY <1>1, <3>1 DEF Known, SignUpTypeOK
      <4>2. verification[i] # NoVerification
        BY <2>2, <4>1 DEF NoVerification
      <4>3. QED
        BY <1>1, <2>2, <3>1, <4>1, <4>2 DEF CodeInv
    <3>2. CASE i = req[r].id
      <4>1. verification[i] \in Verification
        BY <1>1, <3>2 DEF Known, SignUpTypeOK
      <4>2. /\ verification'[i].code = verification[i].code
            /\ verification'[i].failedAttempts = verification[i].failedAttempts + 1
        BY <1>1, <3>2, <4>1 DEF Known, SignUpTypeOK, Verification
      <4>3. verification[i].failedAttempts \in Nat /\ wrong[c] <= verification[i].failedAttempts
        BY <2>2, <4>1, <4>2 DEF GuessInv, Verification
      <4>4. QED
        BY <1>1, <1>2, <4>2, <4>3
    <3>3. QED
      BY <3>1, <3>2
  <2>3. QED
    BY <2>1, <2>2 DEF Counted
<1>5. QED
  BY <1>3, <1>4

LEMMA GuessStep ==
  ASSUME Known, CodeInv, GuessInv, [Next]_vars
  PROVE  GuessInv'
<1>1. ASSUME NEW c \in Codes PROVE Answered(c)' /\ Counted(c)'
  <2>1. Answered(c) /\ Counted(c)
    BY DEF GuessInv, Answered, Counted
  <2>2. CASE wrong'[c] = wrong[c]
    BY <2>1, <2>2, AnsweredStep, CountedStep
  <2>3. CASE wrong'[c] # wrong[c]
    BY <2>3, WrongKept, IncrementGuesses
  <2>4. QED
    BY <2>2, <2>3
<1>2. QED
  BY <1>1 DEF GuessInv, Answered, Counted

-----------------------------------------------------------------------------
(* The invariant and the theorems.                                         *)

LEMMA InvInit == Init => SignUpInv
<1> SUFFICES ASSUME Init PROVE SignUpInv
  OBVIOUS
<1> USE SignUpAssumption, GoodIdle
<1>1. SignUpTypeOK /\ RequestInv
  BY TypeInit
<1>2. AgeInv
  BY DEF Init, AgeInv, Exists, JudgesRight, Idle, Judging
<1>3. CodeInv
  BY DEF Init, CodeInv, HoldsCode, Idle, Writing
<1>4. GuessInv
  <2>1. ASSUME NEW c \in Codes PROVE Comparing(c) = {}
    BY DEF Init, Comparing
  <2>2. ASSUME NEW c \in Codes PROVE Answered(c)
    BY <2>1, ComparingSize, FS_EmptySet DEF Init, Answered
  <2>3. QED
    BY <2>2 DEF Init, GuessInv, Answered, NoVerification
<1>5. QED
  BY <1>1, <1>2, <1>3, <1>4 DEF SignUpInv

LEMMA InvStep == SignUpInv /\ [Next]_vars => SignUpInv'
BY TypeStep, AgeStep, CodeStep, GuessStep DEF SignUpInv, Known

(* The invariant everything below follows from: well-typed locals, accounts *)
(* judged by their real age, codes in one hand until mailed, attempts       *)
(* counted while a code can be tried.                                       *)
THEOREM SignUpInvariance == Spec => []SignUpInv
BY InvInit, InvStep, PTL DEF Spec

(* However requests overlap between reading the attempt count and           *)
(* incrementing it, no code gets more wrong answers than the limit and the  *)
(* requests that can be comparing at once allow.                            *)
THEOREM GuessesBoundedByRace == Spec => []GuessesWithinRace
<1>1. SignUpInv => GuessesWithinRace
  <2>1. ASSUME SignUpInv, NEW c \in Codes
        PROVE  wrong[c] <= MAX_FAILED_ATTEMPTS - 1 + Cardinality(Requests)
    <3>1. wrong[c] \in Nat
      BY <2>1 DEF SignUpInv, SignUpTypeOK
    <3>2. wrong[c] + Cardinality(Comparing(c))
            <= MAX_FAILED_ATTEMPTS - 1 + Cardinality(Requests)
      BY <2>1 DEF SignUpInv, GuessInv
    <3>3. QED
      BY <3>1, <3>2, ComparingSize, SignUpAssumption
  <2>2. QED
    BY <2>1 DEF GuessesWithinRace
<1>2. QED
  BY <1>1, SignUpInvariance, PTL

LEMMA KeptStep ==
  ASSUME SignUpInv, [Next]_vars, NEW i \in Ids, verification[i].code \in mailed,
         verification'[i] = NoVerification
  PROVE  users'[i] = NoRow \/ users'[i].verified
<1> DEFINE Goal == users'[i] = NoRow \/ users'[i].verified
<1> USE SignUpAssumption
<1>0. /\ verification \in [Ids -> Verification \union {NoVerification}]
      /\ verification[i] \in Verification
      /\ verification'[i] # verification[i] /\ verification'[i].code \notin Codes
  BY DEF SignUpInv, SignUpTypeOK, NoVerification
<1>1. ASSUME NEW gone, Remove(gone) PROVE Goal
  BY <1>0, <1>1 DEF Remove
<1>2. ASSUME NEW r \in Requests, NEW o \in Outcomes, ClearVerification(r, o) PROVE FALSE
  <2>1. req[r].pc = "clear" /\ verification[i].code = req[r].code
    BY <1>0, <1>2 DEF ClearVerification
  <2>2. QED
    BY <2>1 DEF SignUpInv, CodeInv, HoldsCode, Writing
<1>3. ASSUME NEW r \in Requests, NEW o \in Outcomes, SetVerified(r, o) PROVE Goal
  <2>1. req[r].id = i /\ Exists(i) /\ users' = [users EXCEPT ![i].verified = TRUE]
    BY <1>0, <1>3 DEF SetVerified
  <2>2. users \in [Ids -> Row \union {NoRow}] /\ users[i] \in Row
    BY <2>1 DEF SignUpInv, SignUpTypeOK, Exists
  <2>3. QED
    BY <2>1, <2>2 DEF Row
<1>4. ASSUME NEW r \in Requests, NEW o \in Outcomes, Store(r, o) PROVE FALSE
  <2>1. req[r].code \in Codes
    BY <1>4 DEF Store, SignUpInv, RequestInv, GoodRequest, Writing
  <2>2. QED
    BY <1>0, <1>4, <2>1 DEF Store
<1>5. ASSUME NEW r \in Requests, NEW o \in Outcomes, Increment(r, o) PROVE FALSE
  BY <1>0, <1>5 DEF Increment, Verification
<1>6. ASSUME NEW o \in Outcomes,
             CleanupDelete(o) \/ \E r \in Requests : DeleteExpired(r, o)
      PROVE  Goal
  BY <1>0, <1>1, <1>6 DEF DeleteExpired, DeleteUser, CleanupDelete, tables
<1>7. ASSUME NEW r \in Requests, NEW o \in Outcomes, CreateUser(r, o) \/ UpdateUser(r, o)
      PROVE  FALSE
  BY <1>0, <1>7 DEF CreateUser, UpdateUser
<1>8. ASSUME NEW r \in Requests,
             \/ \E e \in Emails, n \in Names : SignUp(r, e, n)
             \/ FindName(r) \/ Reload(r) \/ ResendLoad(r) \/ VerifyLoad(r) \/ Abandon(r)
             \/ \E e \in Emails : ResendFind(r, e)
             \/ \E e \in Emails, guess \in Codes \union {NoCode} : VerifyEmail(r, e, guess)
             \/ \E accepted \in BOOLEAN : Mail(r, accepted)
      PROVE  FALSE
  BY <1>0, <1>8 DEF SignUp, FindName, Reload, ResendLoad, Abandon, ResendFind,
     VerifyEmail, VerifyLoad, Mail, tables
<1>9. CASE CleanupSelect \/ Tick \/ UNCHANGED vars
  BY <1>0, <1>9 DEF CleanupSelect, Tick, vars, tables
<1>10. QED
  BY <1>2, <1>3, <1>4, <1>5, <1>6, <1>7, <1>8, <1>9 DEF Next, Submit, Step, Cleanup

(* A request that withdraws its code because the mail failed never takes    *)
(* away a newer code that was mailed: only deletion or verification does.   *)
THEOREM MailedKept == Spec => MailedCodeKept
<1>1. SignUpInv /\ [Next]_vars
        => [\A i \in Ids :
              verification[i].code \in mailed /\ verification'[i] = NoVerification
                => users'[i] = NoRow \/ users'[i].verified]_vars
  BY KeptStep
<1>2. QED
  BY <1>1, SignUpInvariance, PTL DEF Spec, MailedCodeKept

-----------------------------------------------------------------------------
(* No code without its mail.                                               *)

LEMMA MailedStep ==
  ASSUME Outcomes = {"ok"}, Abandons = {}, SignUpInv, StoredCodeMailed, [Next]_vars
  PROVE  StoredCodeMailed'
<1> SignUpTypeOK /\ RequestInv /\ CodeInv
  BY DEF SignUpInv
<1> USE SignUpAssumption
<1>1. ASSUME NEW r \in Requests, req[r].pc \notin {"mail", "clear"},
             \A x \in Requests : x # r => req'[x] = req[x], mailed' = mailed,
             \A i \in Ids : \/ verification'[i] = NoVerification
                            \/ /\ verification[i] # NoVerification
                               /\ verification'[i].code = verification[i].code
      PROVE  StoredCodeMailed'
  BY <1>1 DEF StoredCodeMailed
<1>2. ASSUME UNCHANGED <<req, mailed>>,
             \A i \in Ids : \/ verification'[i] = NoVerification
                            \/ verification'[i] = verification[i]
      PROVE  StoredCodeMailed'
  BY <1>2 DEF StoredCodeMailed
<1>3. ASSUME NEW r \in Requests, NEW q, Become(r, q)
      PROVE  \A x \in Requests : x # r => req'[x] = req[x]
  BY <1>3, BecomeAt
<1>4. ASSUME NEW gone, Remove(gone)
      PROVE  \A i \in Ids : \/ verification'[i] = NoVerification
                            \/ verification'[i] = verification[i]
  BY <1>4 DEF Remove
<1>5. ASSUME NEW r \in Requests, NEW o \in Outcomes, Store(r, o) PROVE StoredCodeMailed'
  <2>1. req[r] \in SignUpRequest /\ req[r].id \in Ids /\ o = "ok"
    BY <1>5 DEF Store, RequestInv, GoodRequest, Writing, SignUpTypeOK
  <2>2. CASE Exists(req[r].id)
    <3>1. /\ req'[r].pc = "mail" /\ req'[r].code = req[r].code
          /\ \A x \in Requests : x # r => req'[x] = req[x]
      BY <1>5, <2>1, <2>2, BecomeAt DEF Store, Runs, SignUpRequest
    <3>2. /\ verification'[req[r].id].code = req[r].code
          /\ \A i \in Ids : i # req[r].id => verification'[i] = verification[i]
          /\ mailed' = mailed
      BY <1>5, <2>1, <2>2 DEF Store, Runs, SignUpTypeOK
    <3>3. QED
      BY <1>5, <3>1, <3>2 DEF StoredCodeMailed, Store
  <2>3. CASE ~Exists(req[r].id)
    BY <1>1, <1>3, <1>5, <2>3 DEF Store, Respond
  <2>4. QED
    BY <2>2, <2>3
<1>6. ASSUME NEW r \in Requests, NEW accepted \in BOOLEAN, Mail(r, accepted)
      PROVE  StoredCodeMailed'
  <2>1. req[r] \in SignUpRequest /\ verification' = verification
    BY <1>6 DEF Mail, SignUpTypeOK, tables
  <2>2. CASE accepted
    <3>1. /\ mailed' = mailed \union {req[r].code}
          /\ \A x \in Requests : x # r => req'[x] = req[x]
      BY <1>3, <1>6, <2>2 DEF Mail, Respond
    <3>2. QED
      BY <2>1, <3>1 DEF StoredCodeMailed
  <2>3. CASE ~accepted
    <3>1. /\ mailed' = mailed /\ req'[r].pc = "clear" /\ req'[r].code = req[r].code
          /\ \A x \in Requests : x # r => req'[x] = req[x]
      BY <1>6, <2>1, <2>3, BecomeAt DEF Mail, SignUpRequest
    <3>2. QED
      BY <2>1, <3>1 DEF StoredCodeMailed
  <2>4. QED
    BY <2>2, <2>3
<1>7. ASSUME NEW r \in Requests, NEW o \in Outcomes, ClearVerification(r, o)
      PROVE  StoredCodeMailed'
  <2>1. /\ req[r].id \in Ids /\ req[r].code \in Codes /\ Runs(o) /\ mailed' = mailed
        /\ owner[req[r].code] = req[r].id
        /\ \A x \in Requests : x # r => req'[x] = req[x]
    BY <1>3, <1>7 DEF ClearVerification, RequestInv, GoodRequest, Writing, CodeInv, HoldsCode,
                      Respond, Runs, history
  <2>2. \A i \in Ids : \/ verification'[i] = NoVerification
                       \/ verification'[i] = verification[i]
    BY <1>7 DEF ClearVerification, SignUpTypeOK
  <2>3. \A i \in Ids : verification[i] # NoVerification /\ verification[i].code = req[r].code
                         => verification'[i] = NoVerification
    <3>1. ASSUME NEW i \in Ids, verification[i] # NoVerification,
                 verification[i].code = req[r].code
          PROVE  verification'[i] = NoVerification
      <4>1. i = req[r].id
        BY <2>1, <3>1 DEF CodeInv
      <4>2. QED
        BY <1>7, <2>1, <3>1, <4>1 DEF ClearVerification, SignUpTypeOK
    <3>2. QED
      BY <3>1
  <2>4. QED
    BY <2>1, <2>2, <2>3 DEF StoredCodeMailed
<1>8. ASSUME NEW r \in Requests, NEW o \in Outcomes, Increment(r, o) PROVE StoredCodeMailed'
  <2>1. \A i \in Ids : \/ verification'[i] = NoVerification
                       \/ /\ verification[i] # NoVerification
                          /\ verification'[i].code = verification[i].code
    BY <1>8 DEF Increment, SignUpTypeOK, Verification
  <2>2. QED
    BY <1>1, <1>3, <1>8, <2>1 DEF Increment, Respond
<1>9. ASSUME NEW r \in Requests, NEW o \in Outcomes, SetVerified(r, o)
      PROVE  StoredCodeMailed'
  <2>1. \A i \in Ids : \/ verification'[i] = NoVerification
                       \/ verification'[i] = verification[i]
    BY <1>9 DEF SetVerified, SignUpTypeOK
  <2>2. QED
    BY <1>1, <1>3, <1>9, <2>1 DEF SetVerified, Respond, history
<1>10. ASSUME NEW r \in Requests, NEW o \in Outcomes, DeleteExpired(r, o)
       PROVE  StoredCodeMailed'
  <2>1. \A i \in Ids : \/ verification'[i] = NoVerification
                       \/ verification'[i] = verification[i]
    BY <1>4, <1>10 DEF DeleteExpired, DeleteUser, tables
  <2>2. \A x \in Requests : x # r => req'[x] = req[x]
    BY <1>3, <1>10 DEF DeleteExpired, Respond
  <2>3. QED
    BY <1>1, <1>10, <2>1, <2>2 DEF DeleteExpired, history
<1>11. ASSUME NEW o \in Outcomes, CleanupDelete(o) PROVE StoredCodeMailed'
  BY <1>2, <1>4, <1>11 DEF CleanupDelete, tables, history
<1>12. ASSUME NEW r \in Requests, req[r].pc \notin {"mail", "clear"},
              UNCHANGED <<verification, mailed>>,
              \/ \E q : Become(r, q)
              \/ \E i \in Ids : Prepare(r, i)
       PROVE  StoredCodeMailed'
  <2>1. \A x \in Requests : x # r => req'[x] = req[x]
    BY <1>3, <1>12 DEF Prepare
  <2>2. QED
    BY <1>1, <1>12, <2>1
<1>13. ASSUME NEW r \in Requests, NEW o \in Outcomes, CreateUser(r, o) \/ UpdateUser(r, o)
       PROVE  StoredCodeMailed'
  BY <1>12, <1>13 DEF CreateUser, UpdateUser, Respond, history
<1>14. ASSUME NEW r \in Requests,
              \/ \E e \in Emails, n \in Names : SignUp(r, e, n)
              \/ \E e \in Emails : ResendFind(r, e)
              \/ \E e \in Emails, guess \in Codes \union {NoCode} : VerifyEmail(r, e, guess)
       PROVE  StoredCodeMailed'
  BY <1>12, <1>14 DEF SignUp, ResendFind, VerifyEmail, tables, history
<1>15. ASSUME NEW r \in Requests, FindName(r) \/ Reload(r) \/ ResendLoad(r) \/ VerifyLoad(r)
       PROVE  StoredCodeMailed'
  <2>1. req[r].pc \in {"reload", "resend_load"} => req[r].id \in Ids
    BY DEF RequestInv, GoodRequest
  <2>2. QED
    BY <1>12, <1>15, <2>1 DEF FindName, Reload, ResendLoad, VerifyLoad, Respond, tables, history
<1>16. CASE CleanupSelect \/ Tick \/ UNCHANGED vars
  BY <1>2, <1>16 DEF CleanupSelect, Tick, vars, tables, history
<1>17. QED
  BY <1>5, <1>6, <1>7, <1>8, <1>9, <1>10, <1>11, <1>13, <1>14, <1>15, <1>16
     DEF Next, Submit, Step, Cleanup, Abandon

(* While the database answers and no handler is dropped, no code is left   *)
(* whose mail was neither sent nor is about to be sent or withdrawn.       *)
THEOREM CodesMailedOrWithdrawn ==
  ASSUME Outcomes = {"ok"}, Abandons = {}
  PROVE  Spec => []StoredCodeMailed
<1>1. Init => StoredCodeMailed
  BY DEF Init, StoredCodeMailed
<1>2. SignUpInv /\ StoredCodeMailed /\ [Next]_vars => StoredCodeMailed'
  BY MailedStep
<1>3. QED
  BY <1>1, <1>2, SignUpInvariance, PTL DEF Spec

-----------------------------------------------------------------------------
(* The refinement of AccountLife.                                          *)

LEMMA LifeAt ==
  ASSUME NEW i \in Ids
  PROVE  /\ Accounts[i] = Account(i) /\ LiveCodes[i] = verification[i].code
         /\ Accounts'[i] = Account(i)' /\ LiveCodes'[i] = verification'[i].code
BY DEF Accounts, LiveCodes

(* The stages of an account, and what its row says.                        *)
LEMMA AccountIs ==
  ASSUME SignUpTypeOK, NEW i \in Ids
  PROVE  /\ Life!Alive(i) <=> Exists(i)
         /\ Exists(i) => /\ users[i] \in Row
                         /\ Accounts[i].email = users[i].email
                         /\ Accounts[i].name = users[i].name
                         /\ Accounts[i].stage = "verified" <=> users[i].verified
                         /\ Accounts[i].stage = "pending" <=> ~users[i].verified
         /\ ~Exists(i) /\ i > lastId => Accounts[i] = Life!Unused
         /\ ~Exists(i) /\ i <= lastId => Accounts[i] = Life!Deleted
<1>1. Exists(i) => users[i] \in Row /\ users[i].verified \in BOOLEAN
  BY DEF SignUpTypeOK, Exists, Row
<1>2. i \in Int /\ lastId \in Int
  BY DEF SignUpTypeOK, Ids, NoId
<1>3. Accounts[i] = Account(i)
  BY LifeAt
<1>4. CASE Exists(i)
  <2>1. Accounts[i] = [stage |-> IF users[i].verified THEN "verified" ELSE "pending",
                       email |-> users[i].email, name |-> users[i].name]
    BY <1>3, <1>4 DEF Account
  <2>2. QED
    BY <1>1, <1>4, <2>1 DEF Life!Alive
<1>5. CASE ~Exists(i)
  BY <1>2, <1>3, <1>5 DEF Account, Life!Alive, Life!Unused, Life!Deleted
<1>6. QED
  BY <1>4, <1>5

LEMMA RowsSame ==
  ASSUME UNCHANGED <<now, lastId, users>>
  PROVE  UNCHANGED <<Accounts, Aged>>
BY DEF Accounts, Account, Aged, Exists

LEMMA LiveSame == ASSUME UNCHANGED verification PROVE UNCHANGED LiveCodes
BY DEF LiveCodes

(* Rows that are there stay so, and keep their age.                        *)
LEMMA AgedSame ==
  ASSUME UNCHANGED now,
         \A i \in Ids : /\ users'[i] # NoRow <=> users[i] # NoRow
                        /\ users'[i].createdAt = users[i].createdAt
  PROVE  UNCHANGED Aged
BY DEF Aged, Exists

(* A change of one row is a change of one account.                         *)
LEMMA OneAccount ==
  ASSUME UNCHANGED lastId, NEW i \in Ids,
         \A j \in Ids : j # i => users'[j] = users[j]
  PROVE  Accounts' = [Accounts EXCEPT ![i] = Account(i)']
<1>1. ASSUME NEW j \in Ids, j # i PROVE Account(j)' = Account(j)
  BY <1>1 DEF Account, Exists
<1>2. Accounts' = [j \in Ids |-> IF j = i THEN Account(i)' ELSE Account(j)]
  BY <1>1 DEF Accounts
<1>3. QED
  BY <1>2 DEF Accounts

LEMMA OneLiveCode ==
  ASSUME NEW i \in Ids, NEW v, verification \in [Ids -> Verification \union {NoVerification}],
         verification' = [verification EXCEPT ![i] = v]
  PROVE  LiveCodes' = [LiveCodes EXCEPT ![i] = v.code]
BY DEF LiveCodes

LEMMA RemoveLife ==
  ASSUME SignUpTypeOK, NEW gone \in SUBSET Ids, \A i \in gone : i <= lastId,
         Remove(gone), UNCHANGED <<now, owner, mailed>>
  PROVE  Life!Delete(gone)
<1>1. ASSUME NEW i \in Ids
      PROVE  Account(i)' = IF i \in gone THEN Life!Deleted ELSE Account(i)
  BY DEF Remove, Account, Exists, Life!Deleted
<1>2. Accounts' = [i \in Ids |-> IF i \in gone THEN Life!Deleted ELSE Accounts[i]]
  BY <1>1 DEF Accounts
<1>3. LiveCodes' = [i \in Ids |-> IF i \in gone THEN NoCode ELSE LiveCodes[i]]
  BY DEF Remove, LiveCodes, NoVerification
<1>4. Aged' = Aged \ gone
  BY DEF Remove, Aged, Exists
<1>5. QED
  BY <1>2, <1>3, <1>4 DEF Life!Delete

LEMMA CreateLife ==
  ASSUME SignUpInv, NEW r \in Requests, NEW o \in Outcomes, CreateUser(r, o)
  PROVE  [Life!Next]_(Life!lifeVars)
<1> SignUpTypeOK /\ RequestInv /\ AgeInv
  BY DEF SignUpInv
<1> DEFINE e == req[r].email  n == req[r].name
<1>0. PICK i \in Ids : i = lastId + 1
  BY DEF CreateUser
<1>1. i \in Ids /\ e \in Emails /\ n \in Names /\ i > lastId /\ ~Exists(i)
  BY <1>0 DEF CreateUser, RequestInv, GoodRequest, SignUpTypeOK, AgeInv, Ids, NoId
<1>2. UNCHANGED LiveCodes
  BY LiveSame DEF CreateUser
<1>3. CASE UNCHANGED <<lastId, users>>
  BY <1>2, <1>3, RowsSame DEF CreateUser, history, Life!lifeVars
<1>4. CASE ~UNCHANGED <<lastId, users>>
  <2>1. /\ FindByEmail(e) \union FindByName(n) = {}
        /\ lastId' = i
        /\ users' = [users EXCEPT ![i] = [name |-> n, email |-> e,
                                          verified |-> FALSE, createdAt |-> now]]
    BY <1>0, <1>4 DEF CreateUser
  <2>2. /\ users'[i] = [name |-> n, email |-> e, verified |-> FALSE, createdAt |-> now]
        /\ \A j \in Ids : j # i => users'[j] = users[j]
    BY <1>1, <2>1 DEF SignUpTypeOK
  <2>3. users'[i] # NoRow
    BY <1>1, <2>2, SignUpAssumption DEF NoRow
  <2>4. Account(i)' = [stage |-> "pending", email |-> e, name |-> n]
    BY <2>2, <2>3 DEF Account, Exists
  <2>5. ASSUME NEW j \in Ids, j # i PROVE Account(j)' = Account(j)
    <3>1. j <= lastId' <=> j <= lastId
      BY <1>0, <2>1, <2>5 DEF Ids, SignUpTypeOK, NoId
    <3>2. QED
      BY <2>2, <2>5, <3>1 DEF Account, Exists
  <2>6. Accounts' = [Accounts EXCEPT ![i] = [stage |-> "pending", email |-> e, name |-> n]]
    <3>1. Accounts' = [j \in Ids |-> IF j = i THEN [stage |-> "pending", email |-> e, name |-> n]
                                              ELSE Account(j)]
      BY <2>4, <2>5 DEF Accounts
    <3>2. QED
      BY <3>1 DEF Accounts
  <2>7. UNCHANGED Aged
    <3>1. users'[i].createdAt + SIGNUP_EXPIRES >= now
      BY <2>2, SignUpAssumption DEF SignUpTypeOK
    <3>2. ASSUME NEW j \in Ids
          PROVE  (users'[j] # NoRow /\ users'[j].createdAt + SIGNUP_EXPIRES < now)
                   <=> (Exists(j) /\ users[j].createdAt + SIGNUP_EXPIRES < now)
      <4>1. CASE j = i
        <5>1. ~(now + SIGNUP_EXPIRES < now)
          BY SignUpAssumption DEF SignUpTypeOK
        <5>2. QED
          BY <1>1, <2>2, <4>1, <5>1
      <4>2. CASE j # i
        BY <2>2, <4>2 DEF Exists
      <4>3. QED
        BY <4>1, <4>2
    <3>3. UNCHANGED now
      BY DEF CreateUser
    <3>4. QED
      BY <3>2, <3>3 DEF Aged, Exists
  <2>8. ASSUME NEW j \in Ids, Life!Alive(j)
        PROVE  Accounts[j].email # e /\ Accounts[j].name # n
    BY <2>1, <2>8, AccountIs DEF FindByEmail, FindByName
  <2>9. Life!Register(i, e, n)
    BY <1>1, <1>2, <2>6, <2>7, <2>8, AccountIs DEF Life!Register, CreateUser, history
  <2>10. QED
    BY <1>1, <2>9 DEF Life!Next
<1>5. QED
  BY <1>3, <1>4

LEMMA UpdateLife ==
  ASSUME SignUpInv, NEW r \in Requests, NEW o \in Outcomes, UpdateUser(r, o)
  PROVE  [Life!Next]_(Life!lifeVars)
<1> SignUpTypeOK /\ RequestInv
  BY DEF SignUpInv
<1>1. PICK i \in Ids, n \in Names : i = req[r].id /\ n = req[r].name
  BY DEF UpdateUser, RequestInv, GoodRequest
<1>2. UNCHANGED LiveCodes
  BY LiveSame DEF UpdateUser
<1>3. CASE UNCHANGED users
  BY <1>2, <1>3, RowsSame DEF UpdateUser, history, Life!lifeVars
<1>4. CASE ~UNCHANGED users
  <2>1. Exists(i) /\ FindByName(n) \subseteq {i} /\ users' = [users EXCEPT ![i].name = n]
    BY <1>1, <1>4 DEF UpdateUser
  <2>2. /\ users[i] \in Row /\ users'[i] = [users[i] EXCEPT !.name = n]
        /\ \A j \in Ids : j # i => users'[j] = users[j]
    BY <1>1, <2>1 DEF SignUpTypeOK, Exists
  <2>3. users'[i] \in Row /\ users'[i] # NoRow /\ users'[i].createdAt = users[i].createdAt
        /\ users'[i].email = users[i].email /\ users'[i].name = n
        /\ users'[i].verified = users[i].verified
    BY <1>1, <2>2, SignUpAssumption DEF Row, NoRow
  <2>4. Account(i)' = [Account(i) EXCEPT !.name = n]
    BY <2>1, <2>3 DEF Account, Exists
  <2>5. Accounts' = [Accounts EXCEPT ![i].name = n]
    BY <1>1, <2>2, <2>4, OneAccount, LifeAt DEF Accounts, UpdateUser
  <2>6. UNCHANGED Aged
    BY <2>1, <2>2, <2>3, AgedSame DEF UpdateUser, Exists
  <2>7. ASSUME NEW j \in Ids, Life!Alive(j), Accounts[j].name = n PROVE j = i
    BY <2>1, <2>7, AccountIs DEF FindByName
  <2>8. Life!Rename(i, n)
    BY <1>1, <1>2, <2>1, <2>5, <2>6, <2>7, AccountIs DEF Life!Rename, UpdateUser, history
  <2>9. QED
    BY <1>1, <2>8 DEF Life!Next
<1>5. QED
  BY <1>3, <1>4

LEMMA VerifyLife ==
  ASSUME SignUpInv, NEW r \in Requests, NEW o \in Outcomes, SetVerified(r, o)
  PROVE  [Life!Next]_(Life!lifeVars)
<1> SignUpTypeOK /\ RequestInv /\ CodeInv
  BY DEF SignUpInv
<1>1. PICK i \in Ids, c \in Codes : i = req[r].id /\ c = req[r].code /\ owner[c] = i
  BY DEF SetVerified, RequestInv, GoodRequest, CodeInv, HoldsCode
<1>2. CASE ~(Exists(i) /\ Runs(o))
  BY <1>1, <1>2, RowsSame, LiveSame DEF SetVerified, history, Life!lifeVars
<1>3. CASE Exists(i) /\ Runs(o)
  <2>1. /\ users' = [users EXCEPT ![i].verified = TRUE]
        /\ verification' = [verification EXCEPT ![i] = NoVerification]
    BY <1>1, <1>3 DEF SetVerified
  <2>2. /\ users[i] \in Row /\ users'[i] = [users[i] EXCEPT !.verified = TRUE]
        /\ \A j \in Ids : j # i => users'[j] = users[j]
    BY <1>1, <1>3, <2>1 DEF SignUpTypeOK, Exists
  <2>3. /\ users'[i] # NoRow /\ users'[i].createdAt = users[i].createdAt
        /\ users'[i].email = users[i].email /\ users'[i].name = users[i].name
        /\ users'[i].verified
    BY <1>1, <2>2, SignUpAssumption DEF Row, NoRow
  <2>4. Account(i)' = [Account(i) EXCEPT !.stage = "verified"]
    BY <1>3, <2>3 DEF Account, Exists
  <2>5. Accounts' = [Accounts EXCEPT ![i].stage = "verified"]
    BY <1>1, <2>2, <2>4, OneAccount, LifeAt DEF Accounts, SetVerified
  <2>6. UNCHANGED Aged
    BY <1>3, <2>2, <2>3, AgedSame DEF SetVerified, Exists
  <2>7. LiveCodes' = [LiveCodes EXCEPT ![i] = NoCode]
    <3>1. NoVerification.code = NoCode
      BY DEF NoVerification
    <3>2. QED
      BY <1>1, <2>1, <3>1, OneLiveCode DEF SignUpTypeOK
  <2>8. Life!Verify(i, c)
    BY <1>1, <1>3, <2>5, <2>6, <2>7, AccountIs DEF Life!Verify, SetVerified, history
  <2>9. QED
    BY <1>1, <2>8 DEF Life!Next
<1>4. QED
  BY <1>2, <1>3

LEMMA StoreLife ==
  ASSUME SignUpInv, NEW r \in Requests, NEW o \in Outcomes, Store(r, o)
  PROVE  [Life!Next]_(Life!lifeVars)
<1> SignUpTypeOK /\ RequestInv /\ CodeInv
  BY DEF SignUpInv
<1>1. PICK i \in Ids, c \in Codes : i = req[r].id /\ c = req[r].code /\ owner[c] = NoId
  BY DEF Store, RequestInv, GoodRequest, Writing, CodeInv, HoldsCode
<1>2. UNCHANGED <<Accounts, Aged>>
  BY RowsSame DEF Store
<1>3. CASE ~(Exists(i) /\ Runs(o))
  BY <1>1, <1>2, <1>3, LiveSame DEF Store, Life!lifeVars
<1>4. CASE Exists(i) /\ Runs(o)
  <2> DEFINE v == [code |-> c, sentAt |-> req[r].at, failedAttempts |-> 0]
  <2>1. verification' = [verification EXCEPT ![i] = v] /\ owner' = [owner EXCEPT ![c] = i]
    BY <1>1, <1>4 DEF Store
  <2>2. LiveCodes' = [LiveCodes EXCEPT ![i] = c]
    <3>1. v.code = c
      OBVIOUS
    <3> HIDE DEF v
    <3>2. QED
      BY <1>1, <2>1, <3>1, OneLiveCode DEF SignUpTypeOK
  <2>3. Life!StoreCode(i, c)
    BY <1>1, <1>2, <1>4, <2>1, <2>2, AccountIs DEF Life!StoreCode, Store
  <2>4. QED
    BY <2>3 DEF Life!Next
<1>5. QED
  BY <1>3, <1>4

LEMMA MailLife ==
  ASSUME SignUpInv, NEW r \in Requests, NEW accepted \in BOOLEAN, Mail(r, accepted)
  PROVE  [Life!Next]_(Life!lifeVars)
<1> SignUpTypeOK /\ RequestInv /\ CodeInv
  BY DEF SignUpInv
<1>1. req[r].code \in Codes /\ owner[req[r].code] # NoId
  BY DEF Mail, RequestInv, GoodRequest, Writing, CodeInv, HoldsCode, Ids, NoId
<1>2. UNCHANGED <<Accounts, Aged, LiveCodes, victims, owner>>
  BY RowsSame, LiveSame DEF Mail, tables
<1>3. CASE UNCHANGED mailed
  BY <1>2, <1>3 DEF Life!lifeVars
<1>4. CASE mailed' = mailed \union {req[r].code}
  BY <1>1, <1>2, <1>4 DEF Life!MailCode, Life!Next
<1>5. QED
  BY <1>3, <1>4 DEF Mail

LEMMA ClearLife ==
  ASSUME SignUpInv, NEW r \in Requests, NEW o \in Outcomes, ClearVerification(r, o)
  PROVE  [Life!Next]_(Life!lifeVars)
<1> SignUpTypeOK /\ RequestInv /\ CodeInv
  BY DEF SignUpInv
<1>1. PICK i \in Ids : i = req[r].id
  BY DEF ClearVerification, RequestInv, GoodRequest, Writing
<1>2. UNCHANGED <<Accounts, Aged>>
  BY RowsSame DEF ClearVerification
<1>3. CASE UNCHANGED verification
  BY <1>2, <1>3, LiveSame DEF ClearVerification, history, Life!lifeVars
<1>4. CASE ~UNCHANGED verification
  <2>1. /\ verification[i].code = req[r].code
        /\ verification' = [verification EXCEPT ![i] = NoVerification]
    BY <1>1, <1>4 DEF ClearVerification
  <2>2. LiveCodes[i] \notin mailed
    BY <2>1, LifeAt DEF ClearVerification, CodeInv, HoldsCode, Writing
  <2>3. LiveCodes' = [LiveCodes EXCEPT ![i] = NoCode]
    <3>1. NoVerification.code = NoCode
      BY DEF NoVerification
    <3>2. QED
      BY <2>1, <3>1, OneLiveCode DEF SignUpTypeOK
  <2>4. Life!Withdraw(i)
    BY <1>2, <2>2, <2>3 DEF Life!Withdraw, ClearVerification, history
  <2>5. QED
    BY <2>4 DEF Life!Next
<1>5. QED
  BY <1>3, <1>4

(* An attempt that is counted leaves the code.                             *)
LEMMA IncrementLife ==
  ASSUME SignUpInv, NEW r \in Requests, NEW o \in Outcomes, Increment(r, o)
  PROVE  [Life!Next]_(Life!lifeVars)
<1> SignUpTypeOK /\ RequestInv
  BY DEF SignUpInv
<1>1. PICK i \in Ids : i = req[r].id
  BY DEF Increment, RequestInv, GoodRequest
<1>2. ASSUME NEW j \in Ids PROVE verification'[j].code = verification[j].code
  <2>1. CASE UNCHANGED verification
    BY <2>1
  <2>2. CASE ~UNCHANGED verification
    <3>1. /\ verification[i] \in Verification
          /\ verification' = [verification EXCEPT ![i].failedAttempts = @ + 1]
      BY <1>1, <2>2 DEF Increment, SignUpTypeOK
    <3>2. QED
      BY <3>1 DEF SignUpTypeOK, Verification
  <2>3. QED
    BY <2>1, <2>2
<1>3. UNCHANGED LiveCodes
  BY <1>2 DEF LiveCodes
<1>4. QED
  BY <1>3, RowsSame DEF Increment, Life!lifeVars

LEMMA DeleteExpiredLife ==
  ASSUME SignUpInv, NEW r \in Requests, NEW o \in Outcomes, DeleteExpired(r, o)
  PROVE  [Life!Next]_(Life!lifeVars)
<1> SignUpTypeOK /\ RequestInv /\ AgeInv /\ CodeInv
  BY DEF SignUpInv
<1>1. PICK i \in Ids : i = req[r].old
  BY DEF DeleteExpired, RequestInv, GoodRequest, Judging
<1>2. UNCHANGED <<now, victims, owner, mailed>>
  BY DEF DeleteExpired, history
<1>3. CASE UNCHANGED <<lastId, users, verification>>
  BY <1>2, <1>3, RowsSame, LiveSame DEF Life!lifeVars
<1>4. CASE DeleteUser(i) /\ ~UNCHANGED <<lastId, users, verification>>
  <2>1. ~users[i].verified /\ Remove({i})
    <3>1. CASE users[i].verified
      <4>1. Remove({})
        BY <1>4, <3>1 DEF DeleteUser, Remove
      <4>2. UNCHANGED <<lastId, users, verification>>
        BY <4>1 DEF Remove, SignUpTypeOK
      <4>3. QED
        BY <1>4, <4>2
    <3>2. CASE ~users[i].verified
      <4>1. {i} \intersect {j \in Ids : ~users[j].verified} = {i}
        BY <3>2
      <4>2. QED
        BY <1>4, <3>2, <4>1 DEF DeleteUser
    <3>3. QED
      BY <3>1, <3>2
  <2>2. i <= lastId /\ (Exists(i) => users[i].createdAt + SIGNUP_EXPIRES < now)
    BY <1>1 DEF AgeInv, JudgesRight, DeleteExpired, Judging
  <2>3. Life!Delete({i})
    BY <1>2, <2>1, <2>2, RemoveLife
  <2>4. CASE Exists(i)
    <3>1. i \in Aged /\ Accounts[i].stage = "pending"
      BY <2>1, <2>2, <2>4, AccountIs DEF Aged
    <3>2. QED
      BY <1>2, <2>3, <3>1 DEF Life!DeleteExpired, Life!Next
  <2>5. Exists(i)
    <3>1. ~Exists(i) => verification[i] = NoVerification
      BY DEF CodeInv
    <3>2. ~Exists(i) => UNCHANGED <<lastId, users, verification>>
      BY <2>1, <3>1 DEF Remove, Exists, SignUpTypeOK
    <3>3. QED
      BY <1>4, <3>2
  <2>6. QED
    BY <2>4, <2>5
<1>5. QED
  BY <1>1, <1>3, <1>4 DEF DeleteExpired, tables

LEMMA SelectLife ==
  ASSUME SignUpInv, CleanupSelect
  PROVE  [Life!Next]_(Life!lifeVars)
<1> SignUpTypeOK
  BY DEF SignUpInv
<1>1. UNCHANGED <<Accounts, Aged, LiveCodes, owner, mailed>>
  BY RowsSame, LiveSame DEF CleanupSelect, tables, history
<1>2. victims' \subseteq Ids /\ victims' \subseteq Aged
  BY DEF CleanupSelect, SignupExpired, Aged
<1>3. ASSUME NEW i \in victims' PROVE Accounts[i].stage = "pending"
  BY <1>2, <1>3, AccountIs DEF CleanupSelect, SignupExpired
<1>4. Life!Mark(victims')
  BY <1>1, <1>2, <1>3 DEF Life!Mark, CleanupSelect
<1>5. QED
  BY <1>2, <1>4 DEF Life!Next

LEMMA SweepLife ==
  ASSUME SignUpInv, NEW o \in Outcomes, CleanupDelete(o)
  PROVE  [Life!Next]_(Life!lifeVars)
<1> SignUpTypeOK /\ AgeInv
  BY DEF SignUpInv
<1>1. UNCHANGED <<now, owner, mailed>> /\ victims' = {}
  BY DEF CleanupDelete, history
<1>2. CASE Remove(victims)
  <2>1. Life!Delete(victims)
    BY <1>1, <1>2, RemoveLife DEF AgeInv, SignUpTypeOK
  <2>2. QED
    BY <1>1, <2>1 DEF Life!Sweep, Life!Next
<1>3. CASE UNCHANGED tables
  BY <1>1, <1>3, RowsSame, LiveSame DEF tables, Life!Sweep, Life!Next
<1>4. QED
  BY <1>2, <1>3 DEF CleanupDelete

(* Time only adds accounts to those whose sign-up period is over.          *)
LEMMA TickLife ==
  ASSUME SignUpInv, Tick
  PROVE  [Life!Next]_(Life!lifeVars)
<1> SignUpTypeOK
  BY DEF SignUpInv
<1>1. UNCHANGED <<lastId, users, verification, victims, owner, mailed>> /\ now' = now + 1
  BY DEF Tick, tables, history
<1>2. UNCHANGED <<Accounts, LiveCodes>>
  BY <1>1 DEF Accounts, Account, LiveCodes, Exists
<1>3. PICK ids \in SUBSET Ids : ids = Aged'
  BY <1>1 DEF Aged
<1>4. ASSUME NEW i \in Ids, Exists(i), users[i].createdAt + SIGNUP_EXPIRES < now
      PROVE  users'[i].createdAt + SIGNUP_EXPIRES < now'
  BY <1>1, <1>4, SignUpAssumption DEF SignUpTypeOK, Exists, Row
<1>5. Aged \subseteq ids
  BY <1>1, <1>3, <1>4 DEF Aged, Exists
<1>6. ASSUME NEW i \in ids PROVE Life!Alive(i)
  BY <1>1, <1>3, <1>6, AccountIs DEF Aged, Exists
<1>7. Life!GrowOld(ids)
  BY <1>1, <1>2, <1>3, <1>5, <1>6 DEF Life!GrowOld
<1>8. QED
  BY <1>7 DEF Life!Next

(* Every step of sign-up is a step of the accounts' lives or no step at    *)
(* all: reading, and what a request makes of it, changes no life.          *)
LEMMA LifeStep ==
  ASSUME SignUpInv, [Next]_vars
  PROVE  [Life!Next]_(Life!lifeVars)
<1>1. ASSUME UNCHANGED <<now, lastId, users, verification, victims, owner, mailed>>
      PROVE  [Life!Next]_(Life!lifeVars)
  BY <1>1, RowsSame, LiveSame DEF Life!lifeVars
<1>2. CASE UNCHANGED vars
  BY <1>1, <1>2 DEF vars
<1>3. ASSUME NEW r \in Requests,
             \/ \E e \in Emails, n \in Names : SignUp(r, e, n)
             \/ FindName(r) \/ Reload(r) \/ ResendLoad(r) \/ VerifyLoad(r) \/ Abandon(r)
             \/ \E e \in Emails : ResendFind(r, e)
             \/ \E e \in Emails, guess \in Codes \union {NoCode} : VerifyEmail(r, e, guess)
      PROVE  [Life!Next]_(Life!lifeVars)
  BY <1>1, <1>3 DEF SignUp, FindName, Reload, ResendLoad, VerifyLoad, Abandon, ResendFind,
     VerifyEmail, tables, history
<1>4. ASSUME NEW r \in Requests, Step(r) PROVE [Life!Next]_(Life!lifeVars)
  BY <1>3, <1>4, DeleteExpiredLife, CreateLife, UpdateLife, StoreLife, ClearLife,
     IncrementLife, VerifyLife, MailLife DEF Step
<1>5. CASE Cleanup
  BY <1>5, SelectLife, SweepLife DEF Cleanup
<1>6. QED
  BY <1>2, <1>3, <1>4, <1>5, TickLife DEF Next, Submit

LEMMA LifeInit == Init => Life!Init
<1> SUFFICES ASSUME Init PROVE Life!Init
  OBVIOUS
<1>1. ASSUME NEW i \in Ids
      PROVE  ~Exists(i) /\ Account(i) = Life!Unused /\ verification[i].code = NoCode
  <2>1. ~Exists(i) /\ ~(i <= lastId)
    BY DEF Init, Exists, Ids, NoId
  <2>2. QED
    BY <2>1 DEF Init, Account, Life!Unused, NoVerification
<1>2. Accounts = [i \in Ids |-> Life!Unused] /\ LiveCodes = [i \in Ids |-> NoCode]
  BY <1>1 DEF Accounts, LiveCodes
<1>3. Aged = {}
  BY <1>1 DEF Aged
<1>4. QED
  BY <1>2, <1>3 DEF Init, Life!Init

(* However sign-ups, verifications, resends and the cleanup mix, with      *)
(* failed or lost answers of the database and handlers dropped halfway,    *)
(* the accounts live as AccountLife says.                                  *)
THEOREM AccountsRefined == Spec => ImplementsLife
BY LifeInit, LifeStep, SignUpInvariance, PTL DEF Spec, ImplementsLife, Life!Spec

(* What AccountLife promises, and so sign-up.                              *)
LEMMA StagesAre ==
  ASSUME SignUpInv, NEW i \in Ids
  PROVE  /\ Accounts[i].stage \in {"unused", "pending", "verified", "deleted"}
         /\ Accounts[i] = [stage |-> Accounts[i].stage, email |-> Accounts[i].email,
                           name |-> Accounts[i].name]
         /\ Accounts[i].stage = "deleted" => Accounts[i] = Life!Deleted
         /\ i \in Aged => Life!Alive(i)
         /\ i \in victims => i \in Aged \/ Accounts[i].stage = "deleted"
         /\ LiveCodes[i] # NoCode =>
              Life!Alive(i) /\ LiveCodes[i] \in Codes /\ owner[LiveCodes[i]] = i
<1> SignUpTypeOK /\ AgeInv /\ CodeInv
  BY DEF SignUpInv
<1>1. Accounts[i] = Account(i) /\ LiveCodes[i] = verification[i].code
  BY LifeAt
<1>2. /\ Accounts[i].stage \in {"unused", "pending", "verified", "deleted"}
      /\ Accounts[i] = [stage |-> Accounts[i].stage, email |-> Accounts[i].email,
                        name |-> Accounts[i].name]
      /\ Accounts[i].stage = "deleted" => Accounts[i] = Life!Deleted
  BY <1>1 DEF Account, Life!Deleted
<1>3. Life!Alive(i) <=> Exists(i)
  BY AccountIs
<1>4. i \in Aged => Life!Alive(i)
  BY <1>3 DEF Aged
<1>5. i \in victims => i \in Aged \/ Accounts[i].stage = "deleted"
  BY <1>1 DEF AgeInv, Aged, Account
<1>6. ASSUME LiveCodes[i] # NoCode
      PROVE  Life!Alive(i) /\ LiveCodes[i] \in Codes /\ owner[LiveCodes[i]] = i
  <2>1. verification[i] # NoVerification
    BY <1>1, <1>6 DEF NoVerification
  <2>2. verification[i].code \in Codes
    BY <2>1 DEF SignUpTypeOK, Verification
  <2>3. QED
    BY <1>1, <1>3, <2>1, <2>2 DEF CodeInv
<1>7. QED
  BY <1>2, <1>4, <1>5, <1>6

GoesForward(i) ==
  /\ Accounts[i].stage = "deleted" => Accounts'[i] = Accounts[i]
  /\ Life!Alive(i) => \/ /\ Accounts'[i].email = Accounts[i].email
                         /\ Accounts'[i].stage \in {Accounts[i].stage, "verified"}
                      \/ Accounts'[i] = Life!Deleted /\ i \in Aged
  /\ Accounts[i].stage = "verified" /\ Accounts'[i] = Life!Deleted => i \in victims

LEMMA ForwardStep ==
  ASSUME SignUpInv, [Life!Next]_(Life!lifeVars), NEW i \in Ids
  PROVE  GoesForward(i)
<1>a. /\ Accounts = [j \in Ids |-> Accounts[j]]
      /\ Life!Alive(i) <=> Accounts[i].stage \in {"pending", "verified"}
      /\ Life!Deleted.stage = "deleted" /\ Life!Unused.stage = "unused"
  BY DEF Accounts, Life!Alive, Life!Deleted, Life!Unused
<1>b. /\ Accounts[i] = [stage |-> Accounts[i].stage, email |-> Accounts[i].email,
                        name |-> Accounts[i].name]
      /\ Accounts[i].stage = "deleted" => Accounts[i] = Life!Deleted
      /\ i \in Aged => Life!Alive(i)
      /\ i \in victims => i \in Aged \/ Accounts[i].stage = "deleted"
  BY StagesAre
<1>c. ASSUME Accounts'[i] = Accounts[i] PROVE GoesForward(i)
  BY <1>c, <1>a DEF GoesForward
<1>1. ASSUME NEW j \in Ids, NEW e \in Emails, NEW n \in Names, Life!Register(j, e, n)
      PROVE  GoesForward(i)
  <2>1. Accounts'[i] = Accounts[i] \/ Accounts[i] = Life!Unused
    BY <1>a, <1>1 DEF Life!Register
  <2>2. QED
    BY <1>a, <1>c, <2>1 DEF GoesForward
<1>2. ASSUME NEW j \in Ids, NEW n \in Names, Life!Rename(j, n) PROVE GoesForward(i)
  <2>1. CASE j # i
    BY <1>a, <1>c, <1>2, <2>1 DEF Life!Rename
  <2>2. CASE j = i
    <3>1. Accounts'[i] = [Accounts[i] EXCEPT !.name = n] /\ Life!Alive(i)
      BY <1>a, <1>2, <2>2 DEF Life!Rename
    <3>2. Accounts'[i].stage = Accounts[i].stage /\ Accounts'[i].email = Accounts[i].email
      BY <1>b, <3>1
    <3>3. QED
      BY <1>a, <3>1, <3>2 DEF GoesForward
  <2>3. QED
    BY <2>1, <2>2
<1>3. ASSUME NEW j \in Ids, NEW c \in Codes, Life!Verify(j, c) PROVE GoesForward(i)
  <2>1. CASE j # i
    BY <1>a, <1>c, <1>3, <2>1 DEF Life!Verify
  <2>2. CASE j = i
    <3>1. Accounts'[i] = [Accounts[i] EXCEPT !.stage = "verified"] /\ Life!Alive(i)
      BY <1>a, <1>3, <2>2 DEF Life!Verify
    <3>2. Accounts'[i].stage = "verified" /\ Accounts'[i].email = Accounts[i].email
      BY <1>b, <3>1
    <3>3. QED
      BY <1>a, <3>1, <3>2 DEF GoesForward
  <2>3. QED
    BY <2>1, <2>2
<1>4. ASSUME NEW ids, Life!Delete(ids), i \in ids => i \in Aged \/ Accounts[i].stage = "deleted",
             i \in ids /\ Accounts[i].stage = "verified" => i \in victims
      PROVE  GoesForward(i)
  <2>1. Accounts'[i] = IF i \in ids THEN Life!Deleted ELSE Accounts[i]
    BY <1>4 DEF Life!Delete
  <2>2. QED
    BY <1>4, <1>a, <1>b, <1>c, <2>1 DEF GoesForward
<1>5. ASSUME NEW j \in Ids, Life!DeleteExpired(j) PROVE GoesForward(i)
  BY <1>4, <1>5 DEF Life!DeleteExpired
<1>6. ASSUME Life!Sweep PROVE GoesForward(i)
  BY <1>4, <1>6, <1>b, <1>c DEF Life!Sweep
<1>7. ASSUME UNCHANGED Accounts PROVE GoesForward(i)
  BY <1>c, <1>7
<1>8. QED
  BY <1>1, <1>2, <1>3, <1>5, <1>6, <1>7 DEF Life!Next, Life!StoreCode, Life!MailCode,
     Life!Withdraw, Life!GrowOld, Life!Mark, Life!lifeVars

(* However requests, retries and the cleanup mix: a deleted account never  *)
(* comes back under its id; only one out of time is deleted, and one that  *)
(* is verified only if the cleanup had picked it before; nobody's email    *)
(* changes, and no account loses its verification.                         *)
THEOREM AccountsGoForward == Spec => Life!OnlyForward
<1> DEFINE Forward ==
      \A i \in Ids :
       /\ Accounts[i].stage = "deleted" => Accounts'[i] = Accounts[i]
       /\ Life!Alive(i) => \/ /\ Accounts'[i].email = Accounts[i].email
                              /\ Accounts'[i].stage \in {Accounts[i].stage, "verified"}
                           \/ Accounts'[i] = Life!Deleted /\ i \in Aged
       /\ Accounts[i].stage = "verified" /\ Accounts'[i] = Life!Deleted => i \in victims
<1>1. SignUpInv /\ [Life!Next]_(Life!lifeVars) => [Forward]_(Life!lifeVars)
  BY ForwardStep DEF GoesForward
<1>2. QED
  BY <1>1, AccountsRefined, SignUpInvariance, PTL DEF ImplementsLife, Life!Spec,
     Life!OnlyForward

LiveOwn == \A i \in Ids : LiveCodes[i] # NoCode => Life!Alive(i) /\ owner[LiveCodes[i]] = i

LEMMA LiveOwned == SignUpInv => LiveOwn
BY StagesAre DEF LiveOwn

LEMMA CodedStep ==
  SignUpInv /\ SignUpInv' /\ Life!VerifiedByCode /\ [Life!Next]_(Life!lifeVars)
    => Life!VerifiedByCode'
<1>1. (SignUpInv => LiveOwn)'
  BY LiveOwned, PTL
<1> SUFFICES ASSUME SignUpInv, SignUpInv', Life!VerifiedByCode, [Life!Next]_(Life!lifeVars)
             PROVE  Life!VerifiedByCode'
  OBVIOUS
<1>2. owner \in [Codes -> Ids \union {NoId}] /\ \A j \in Ids : j # NoId
  BY DEF SignUpInv, SignUpTypeOK, Ids, NoId
<1>3. \A c \in Codes : owner[c] # NoId => owner'[c] = owner[c]
  BY <1>2 DEF Life!Next, Life!StoreCode, Life!MailCode, Life!Withdraw, Life!GrowOld, Life!Mark,
     Life!Register, Life!Rename, Life!Verify, Life!DeleteExpired, Life!Sweep, Life!Delete,
     Life!lifeVars
<1>4. /\ Accounts = [j \in Ids |-> Accounts[j]]
      /\ Life!Deleted.stage = "deleted"
      /\ \A e, n : [stage |-> "pending", email |-> e, name |-> n].stage = "pending"
  BY DEF Accounts, Life!Deleted
<1>5. ASSUME NEW i \in Ids, Accounts'[i].stage = "verified"
      PROVE  Accounts[i].stage = "verified" \/ \E c \in Codes : owner[c] = i
  <2>1. CASE UNCHANGED Accounts
    BY <1>5, <2>1
  <2>2. ASSUME NEW j \in Ids, NEW e, NEW n, Life!Register(j, e, n)
        PROVE  Accounts[i].stage = "verified"
    BY <1>4, <1>5, <2>2 DEF Life!Register
  <2>3. ASSUME NEW j \in Ids, NEW n, Life!Rename(j, n)
        PROVE  Accounts[i].stage = "verified"
    <3>1. /\ Accounts[i] = [stage |-> Accounts[i].stage, email |-> Accounts[i].email,
                           name |-> Accounts[i].name]
          /\ Accounts'[i] = Accounts[i] \/ Accounts'[i] = [Accounts[i] EXCEPT !.name = n]
      BY <1>4, <2>3, StagesAre DEF Life!Rename
    <3>2. QED
      BY <1>5, <3>1
  <2>4. ASSUME NEW j \in Ids, NEW c \in Codes, Life!Verify(j, c)
        PROVE  Accounts[i].stage = "verified" \/ owner[c] = i
    BY <1>4, <1>5, <2>4 DEF Life!Verify
  <2>5. ASSUME NEW ids, Life!Delete(ids) PROVE Accounts[i].stage = "verified"
    BY <1>4, <1>5, <2>5 DEF Life!Delete
  <2>6. QED
    BY <2>1, <2>2, <2>3, <2>4, <2>5 DEF Life!Next, Life!StoreCode, Life!MailCode, Life!Withdraw,
       Life!GrowOld, Life!Mark, Life!DeleteExpired, Life!Sweep, Life!lifeVars
<1>6. ASSUME NEW i \in Ids, NEW c \in Codes, owner[c] = i PROVE owner'[c] = i
  BY <1>2, <1>3, <1>6
<1>7. ASSUME NEW i \in Ids, Accounts'[i].stage = "verified"
      PROVE  \E c \in Codes : owner'[c] = i
  BY <1>5, <1>6, <1>7 DEF Life!VerifiedByCode
<1>8. QED
  BY <1>1, <1>7 DEF Life!VerifiedByCode, LiveOwn

(* Nobody is verified for whom no code was stored, whoever typed in which  *)
(* code when; and the code a verification row asks for was stored for the  *)
(* account it goes with, and for no other.                                 *)
THEOREM VerifiedWithCode == Spec => []Life!VerifiedByCode
<1>1. SignUpInv /\ Life!Init => Life!VerifiedByCode
  <2> SUFFICES ASSUME SignUpInv, Life!Init PROVE Life!VerifiedByCode
    OBVIOUS
  <2>1. LiveOwn
    BY LiveOwned
  <2>2. ASSUME NEW i \in Ids PROVE Accounts[i].stage # "verified"
    BY DEF Life!Init, Life!Unused
  <2>3. QED
    BY <2>1, <2>2 DEF LiveOwn, Life!VerifiedByCode
<1>2. QED
  BY <1>1, CodedStep, AccountsRefined, SignUpInvariance, PTL DEF ImplementsLife, Life!Spec
=============================================================================

------------------------ MODULE PasswordResetProofs ------------------------
(* Proofs about PasswordReset, for every value of its constants: its types *)
(* and the locals of its requests; one section per part of the inductive   *)
(* invariant; the theorems that follow from it; the exact count of guesses *)
(* when no reply is lost; and the refinement of ResetSlot.                 *)
EXTENDS PasswordReset, TLAPS

-----------------------------------------------------------------------------
(* What the values and the Redis scripts are made of.                      *)

LEMMA StoredType ==
  /\ Absent \in Stored
  /\ \A c \in Codes, t \in Nat, n \in Nat : AwaitingCode(c, t, n) \in Stored
  /\ \A k \in Keys, e \in Nat : AwaitingPassword(k, e) \in Stored
BY DEF Stored, PasswordResetState, Absent, AwaitingCode, AwaitingPassword

LEMMA StoredFields ==
  ASSUME NEW s \in Stored
  PROVE  /\ s.kind \in {"Absent", "AwaitingCode", "AwaitingPassword"}
         /\ s.kind = "Absent" => s = Absent
         /\ s.kind = "AwaitingCode" =>
              /\ s.code \in Codes /\ s.sentAt \in Nat /\ s.failedAttempts \in Nat
              /\ s = AwaitingCode(s.code, s.sentAt, s.failedAttempts)
         /\ s.kind = "AwaitingPassword" =>
              /\ s.key \in Keys /\ s.expiresAt \in Nat
              /\ s = AwaitingPassword(s.key, s.expiresAt)
BY DEF Stored, PasswordResetState, Absent, AwaitingCode, AwaitingPassword

LEMMA RequestType ==
  /\ \A pc \in {"idle"} \union ForgotPC \union VerifyPC \union ResetPC,
        u \in Users \union {NoUser}, s \in Stored, c \in Codes \union {NoCode},
        k \in Keys \union {NoKey}, t \in Nat : Req(pc, u, s, c, k, t) \in Request
  /\ Idle \in Request
BY StoredType DEF Req, Request, Idle

LEMMA BecomeType ==
  ASSUME TypeOK, NEW r \in Requests, NEW q \in Request, Become(r, q)
  PROVE  req' \in [Requests -> Request]
BY DEF TypeOK, Become

LEMMA MoveType ==
  ASSUME NEW q \in Request, NEW pc \in {"idle"} \union ForgotPC \union VerifyPC \union ResetPC,
         NEW s \in Stored
  PROVE  /\ [q EXCEPT !.pc = pc] \in Request
         /\ [q EXCEPT !.pc = pc, !.prev = s] \in Request
BY DEF Request

LEMMA RequestsType ==
  ASSUME TypeOK, NEW r \in Requests,
         \/ Respond(r)
         \/ \E pc \in ForgotPC \union VerifyPC \union ResetPC :
              Become(r, [req[r] EXCEPT !.pc = pc])
  PROVE  req' \in [Requests -> Request]
<1>1. req[r] \in Request
  BY DEF TypeOK
<1>2. CASE Respond(r)
  BY <1>2, BecomeType, RequestType DEF Respond
<1>3. ASSUME NEW pc \in ForgotPC \union VerifyPC \union ResetPC,
             Become(r, [req[r] EXCEPT !.pc = pc])
      PROVE  req' \in [Requests -> Request]
  <2>1. [req[r] EXCEPT !.pc = pc] \in Request
    BY <1>1, MoveType, StoredType
  <2>2. QED
    BY <1>3, <2>1, BecomeType
<1>4. QED
  BY <1>2, <1>3

LEMMA SaveType ==
  ASSUME TypeOK, NEW u \in Users, NEW s \in Stored, NEW t \in Stored, Save(u, s, t)
  PROVE  /\ state' \in [Users -> Stored]
         /\ index' \in [Keys -> Entry \union {NoEntry}]
<1>1. state' \in [Users -> Stored]
  BY DEF TypeOK, Save
<1>2. \A k \in Keys : HasKey(t, k) => [user |-> u, expiresAt |-> t.expiresAt] \in Entry
  BY StoredFields DEF HasKey, Entry
<1>3. QED
  BY <1>1, <1>2 DEF TypeOK, Save

LEMMA TypeInit == Init => TypeOK
BY ResetAssumption, RequestType, StoredType
   DEF Init, TypeOK, Mint, NoMint

LEMMA TypeStep == TypeOK /\ RequestInv /\ IndexConsistent /\ [Next]_vars => TypeOK'
<1> SUFFICES ASSUME TypeOK, RequestInv, IndexConsistent, [Next]_vars PROVE TypeOK'
  OBVIOUS
<1> USE ResetAssumption
<1>1. ASSUME NEW r \in Requests, NEW u \in Users, ForgotPassword(r, u) PROVE TypeOK'
  <2>1. PICK c \in Codes : Become(r, Req("forgot_save", u, state[u], c, NoKey, now))
    BY <1>1 DEF ForgotPassword, FreshCodes
  <2>2. Req("forgot_save", u, state[u], c, NoKey, now) \in Request
    BY RequestType DEF TypeOK, ForgotPC
  <2>3. req' \in [Requests -> Request]
    BY <2>1, <2>2, BecomeType
  <2>4. QED
    BY <1>1, <2>3 DEF TypeOK, ForgotPassword
<1>2. ASSUME NEW r \in Requests, NEW o \in Outcomes, ForgotSave(r, o) PROVE TypeOK'
  <2>1. /\ req[r] \in Request /\ req[r].user \in Users /\ req[r].code \in Codes
        /\ req[r].prev \in Stored
        /\ NextState(r) \in Stored
    BY <1>2, StoredType DEF TypeOK, RequestInv, GoodRequest, ForgotSave, ForgotPC, Request, NextState
  <2>2. req' \in [Requests -> Request]
    BY <1>2, <2>1, BecomeType, MoveType, RequestType DEF ForgotSave, Respond, ForgotPC
  <2>3. state' \in [Users -> Stored] /\ index' \in [Keys -> Entry \union {NoEntry}]
    BY <1>2, <2>1, SaveType DEF ForgotSave, RedisUnchanged, TypeOK
  <2>4. QED
    BY <1>2, <2>1, <2>2, <2>3 DEF TypeOK, ForgotSave
<1>3. ASSUME NEW r \in Requests, NEW o \in Outcomes, ForgotPush(r, o) PROVE TypeOK'
  <2>1. req' \in [Requests -> Request]
    BY <1>3, RequestsType DEF ForgotPush, ForgotPC
  <2>2. QED
    BY <1>3, <2>1 DEF TypeOK, ForgotPush
<1>4. ASSUME NEW r \in Requests, NEW o \in Outcomes, ForgotRollback(r, o) PROVE TypeOK'
  <2>1. /\ req[r].user \in Users /\ req[r].code \in Codes
        /\ req[r].prev \in Stored
        /\ NextState(r) \in Stored
    BY <1>4, StoredType DEF TypeOK, RequestInv, GoodRequest, ForgotRollback, ForgotPC, Request, NextState
  <2>2. req' \in [Requests -> Request]
    BY <1>4, BecomeType, RequestType DEF ForgotRollback, Respond
  <2>3. state' \in [Users -> Stored] /\ index' \in [Keys -> Entry \union {NoEntry}]
    BY <1>4, <2>1, SaveType, StoredType DEF ForgotRollback, RedisUnchanged, Clear, TypeOK
  <2>4. QED
    BY <1>4, <2>2, <2>3 DEF TypeOK, ForgotRollback
<1>5. ASSUME NEW r \in Requests, NEW u \in Users, NEW c \in issued \union {NoCode},
             VerifyResetCode(r, u, c)
      PROVE  TypeOK'
  <2>1. Req("verify_load", u, Absent, c, NoKey, 0) \in Request
    BY RequestType, StoredType DEF TypeOK, VerifyPC
  <2>2. req' \in [Requests -> Request]
    BY <1>5, <2>1, BecomeType DEF VerifyResetCode
  <2>3. QED
    BY <1>5, <2>2 DEF TypeOK, VerifyResetCode
<1>6. ASSUME NEW r \in Requests, NEW o \in Outcomes, VerifyLoad(r, o) PROVE TypeOK'
  <2>1. req[r] \in Request /\ state[req[r].user] \in Stored
    BY <1>6 DEF TypeOK, RequestInv, GoodRequest, VerifyLoad
  <2>2. req' \in [Requests -> Request]
    BY <1>6, <2>1, BecomeType, MoveType, RequestType DEF VerifyLoad, Respond, VerifyPC
  <2>3. QED
    BY <1>6, <2>2 DEF TypeOK, VerifyLoad
<1>7. ASSUME NEW r \in Requests, Reload(r) \/ Respond(r) PROVE req' \in [Requests -> Request]
  BY <1>7, BecomeType, MoveType, RequestType, StoredType DEF Reload, Respond, VerifyPC, TypeOK
<1>8. ASSUME NEW r \in Requests, NEW o \in Outcomes, VerifyWrong(r, o) PROVE TypeOK'
  <2>1. req' \in [Requests -> Request]
    BY <1>7, <1>8 DEF VerifyWrong
  <2>2. /\ req[r].user \in Users /\ req[r].prev \in Stored
        /\ req[r].prev.code \in Codes /\ req[r].prev.kind = "AwaitingCode"
    BY <1>8, StoredFields DEF TypeOK, RequestInv, GoodRequest, VerifyWrong, Request
  <2>3. wrong' \in [Codes -> Nat]
    BY <1>8, <2>2 DEF VerifyWrong, TypeOK
  <2>4. CASE state[req[r].user] = req[r].prev /\ Increment(req[r].user)
    <3>1. AwaitingCode(req[r].prev.code, req[r].prev.sentAt, req[r].prev.failedAttempts + 1)
            \in Stored
      BY <2>2, StoredType, StoredFields
    <3>2. state' \in [Users -> Stored] /\ index' \in [Keys -> Entry \union {NoEntry}]
      BY <2>2, <2>4, <3>1 DEF Increment, TypeOK
    <3>3. QED
      BY <1>8, <2>1, <2>3, <3>2 DEF TypeOK, VerifyWrong
  <2>5. CASE RedisUnchanged
    BY <1>8, <2>1, <2>3, <2>5 DEF TypeOK, VerifyWrong, RedisUnchanged
  <2>6. QED
    BY <1>8, <2>4, <2>5 DEF VerifyWrong
<1>9. ASSUME NEW r \in Requests, VerifyWrongLapsed(r) PROVE TypeOK'
  BY <1>7, <1>9, StoredType DEF TypeOK, VerifyWrongLapsed
<1>10. ASSUME NEW r \in Requests, NEW o \in Outcomes, VerifyRight(r, o) PROVE TypeOK'
  <2>1. req' \in [Requests -> Request]
    BY <1>7, <1>10 DEF VerifyRight
  <2>2. req[r].user \in Users /\ req[r].prev \in Stored
    BY <1>10 DEF TypeOK, RequestInv, GoodRequest, VerifyRight, Request
  <2>3. CASE RedisUnchanged /\ UNCHANGED minted
    BY <1>10, <2>1, <2>3 DEF TypeOK, VerifyRight, RedisUnchanged
  <2>4. ASSUME NEW k \in Keys,
               Save(req[r].user, req[r].prev, AwaitingPassword(k, now + KEY_EXPIRES)),
               minted' = [minted EXCEPT ![k] = [user |-> req[r].user, at |-> now]]
        PROVE  TypeOK'
    <3>1. AwaitingPassword(k, now + KEY_EXPIRES) \in Stored
      BY StoredType DEF TypeOK
    <3>2. state' \in [Users -> Stored] /\ index' \in [Keys -> Entry \union {NoEntry}]
      BY <2>2, <2>4, <3>1, SaveType
    <3>3. minted' \in [Keys -> Mint]
      BY <2>2, <2>4 DEF TypeOK, Mint
    <3>4. QED
      BY <1>10, <2>1, <3>2, <3>3 DEF TypeOK, VerifyRight
  <2>5. QED
    BY <1>10, <2>3, <2>4 DEF VerifyRight
<1>11. ASSUME NEW r \in Requests, NEW k \in Keys, NEW o \in Outcomes, ResetPassword(r, k, o)
       PROVE  TypeOK'
  <2>1. ASSUME Consumable(k)
        PROVE  /\ index[k].user \in Users
               /\ state[index[k].user] \in Stored
               /\ state[index[k].user].expiresAt \in Nat
    BY <2>1, StoredFields DEF Consumable, IndexConsistent, TypeOK, HasKey
  <2>2. state' \in [Users -> Stored] /\ index' \in [Keys -> Entry \union {NoEntry}]
    BY <1>11, StoredType DEF ResetPassword, Consume, RedisUnchanged, TypeOK
  <2>3. ASSUME Consumable(k)
        PROVE  Req("reset_find", index[k].user, Absent, NoCode, k,
                   state[index[k].user].expiresAt) \in Request
    BY <2>1, <2>3, RequestType, StoredType DEF ResetPC
  <2>4. req' \in [Requests -> Request]
    BY <1>11, <2>3, BecomeType DEF ResetPassword, TypeOK
  <2>5. QED
    BY <1>11, <2>2, <2>4 DEF TypeOK, ResetPassword
<1>12. ASSUME NEW r \in Requests, NEW o \in Outcomes, ResetFind(r, o) PROVE TypeOK'
  <2>1. req' \in [Requests -> Request]
    BY <1>12, RequestsType DEF ResetFind, ResetPC
  <2>2. QED
    BY <1>12, <2>1 DEF TypeOK, ResetFind
<1>13. ASSUME NEW r \in Requests, NEW o \in Outcomes, ResetSet(r, o) PROVE TypeOK'
  <2>1. req' \in [Requests -> Request]
    BY <1>13, RequestsType DEF ResetSet, ResetPC
  <2>2. req[r].key \in Keys
    BY <1>13 DEF ResetSet, RequestInv, GoodRequest, ResetPC
  <2>3. password' \in [Users -> Keys \union {NoKey}] /\ granted' \in [Keys -> Nat]
    BY <1>13, <2>2 DEF ResetSet, TypeOK
  <2>4. QED
    BY <1>13, <2>1, <2>3 DEF TypeOK, ResetSet
<1>14. ASSUME NEW r \in Requests, NEW o \in Outcomes, ResetRestore(r, o) PROVE TypeOK'
  <2>1. req[r].user \in Users /\ req[r].key \in Keys /\ req[r].at \in Nat
    BY <1>14 DEF ResetRestore, RequestInv, GoodRequest, ResetPC, TypeOK, Request
  <2>2. AwaitingPassword(req[r].key, req[r].at) \in Stored
    BY <2>1, StoredType
  <2>3. state' \in [Users -> Stored] /\ index' \in [Keys -> Entry \union {NoEntry}]
    BY <1>14, <2>1, <2>2, SaveType, StoredType DEF ResetRestore, RedisUnchanged, TypeOK
  <2>4. QED
    BY <1>7, <1>14, <2>3 DEF TypeOK, ResetRestore
<1>15. ASSUME NEW r \in Requests, Abandon(r) PROVE TypeOK'
  BY <1>7, <1>15 DEF TypeOK, Abandon
<1>16. ASSUME NEW u \in Users, DeleteAccount(u) PROVE TypeOK'
  BY <1>16 DEF TypeOK, DeleteAccount
<1>17. CASE Tick
  BY <1>17, StoredType DEF TypeOK, Tick
<1>18. CASE UNCHANGED vars
  BY <1>18 DEF TypeOK, vars
<1>19. QED
  BY <1>1, <1>2, <1>3, <1>4, <1>5, <1>6, <1>8, <1>9, <1>10, <1>11, <1>12, <1>13, <1>14,
     <1>15, <1>16, <1>17, <1>18 DEF Next, Submit, Step, Proceed

-----------------------------------------------------------------------------
(* RequestInv                                                              *)

LEMMA BecomeGood ==
  ASSUME TypeOK, RequestInv, NEW r \in Requests, NEW q, Become(r, q), GoodRequest(q),
         now' = now
  PROVE  RequestInv'
BY DEF TypeOK, RequestInv, GoodRequest, Become

LEMMA IdleGood == GoodRequest(Idle)
BY DEF GoodRequest, Idle, Req, ForgotPC, ResetPC

LEMMA GoodStep == TypeOK /\ RequestInv /\ IndexConsistent /\ [Next]_vars => RequestInv'
<1> SUFFICES ASSUME TypeOK, RequestInv, IndexConsistent, [Next]_vars PROVE RequestInv'
  OBVIOUS
<1> USE ResetAssumption
<1>1. ASSUME NEW r \in Requests, Respond(r), now' = now PROVE RequestInv'
  BY <1>1, BecomeGood, IdleGood DEF Respond
<1>2. ASSUME NEW r \in Requests, NEW u \in Users, ForgotPassword(r, u) PROVE RequestInv'
  <2>1. PICK c \in Codes : Become(r, Req("forgot_save", u, state[u], c, NoKey, now))
    BY <1>2 DEF ForgotPassword, FreshCodes
  <2>2. state[u].kind = "AwaitingCode" => now - state[u].sentAt >= RESEND_COOLDOWN
    BY <1>2, StoredFields DEF ForgotPassword, IsInCodeResendCooldown, TypeOK
  <2>3. GoodRequest(Req("forgot_save", u, state[u], c, NoKey, now))
    BY <2>2 DEF GoodRequest, Req, ForgotPC, ResetPC, TypeOK
  <2>4. QED
    BY <1>2, <2>1, <2>3, BecomeGood DEF ForgotPassword
<1>3. ASSUME NEW r \in Requests, req[r].pc \in ForgotPC, NEW pc \in ForgotPC,
             Become(r, [req[r] EXCEPT !.pc = pc]), now' = now
      PROVE  RequestInv'
  <2>1. GoodRequest([req[r] EXCEPT !.pc = pc])
    BY <1>3 DEF RequestInv, GoodRequest, ForgotPC, ResetPC, TypeOK, Request
  <2>2. QED
    BY <1>3, <2>1, BecomeGood
<1>4. ASSUME NEW r \in Requests, req[r].pc \in ResetPC, NEW pc \in ResetPC,
             Become(r, [req[r] EXCEPT !.pc = pc]), now' = now
      PROVE  RequestInv'
  <2>1. GoodRequest([req[r] EXCEPT !.pc = pc])
    BY <1>4 DEF RequestInv, GoodRequest, ForgotPC, ResetPC, TypeOK, Request
  <2>2. QED
    BY <1>4, <2>1, BecomeGood
<1>5. ASSUME NEW r \in Requests, req[r].pc = "verify_check", Reload(r), now' = now
      PROVE  RequestInv'
  <2>1. GoodRequest([req[r] EXCEPT !.pc = "verify_load", !.prev = Absent])
    BY <1>5 DEF RequestInv, GoodRequest, ForgotPC, ResetPC, TypeOK, Request
  <2>2. QED
    BY <1>5, <2>1, BecomeGood DEF Reload
<1>6. ASSUME NEW r \in Requests, NEW u \in Users, NEW c \in issued \union {NoCode},
             VerifyResetCode(r, u, c)
      PROVE  RequestInv'
  <2>1. GoodRequest(Req("verify_load", u, Absent, c, NoKey, 0))
    BY DEF GoodRequest, Req, ForgotPC, ResetPC
  <2>2. QED
    BY <1>6, <2>1, BecomeGood DEF VerifyResetCode
<1>7. ASSUME NEW r \in Requests, NEW o \in Outcomes, VerifyLoad(r, o) PROVE RequestInv'
  <2>1. CASE Respond(r)
    BY <1>1, <1>7, <2>1 DEF VerifyLoad
  <2>2. CASE /\ IsVerifiable(state[req[r].user])
             /\ Become(r, [req[r] EXCEPT !.pc = "verify_check", !.prev = state[req[r].user]])
    <3>1. GoodRequest([req[r] EXCEPT !.pc = "verify_check", !.prev = state[req[r].user]])
      BY <1>7, <2>2 DEF VerifyLoad, IsVerifiable, RequestInv, GoodRequest, ForgotPC, ResetPC,
                        TypeOK, Request
    <3>2. QED
      BY <1>7, <2>2, <3>1, BecomeGood DEF VerifyLoad
  <2>3. QED
    BY <1>7, <2>1, <2>2 DEF VerifyLoad
<1>8. ASSUME NEW r \in Requests, NEW k \in Keys, NEW o \in Outcomes, ResetPassword(r, k, o)
      PROVE  RequestInv'
  <2>1. CASE UNCHANGED req
    BY <1>8, <2>1 DEF ResetPassword, RequestInv, GoodRequest
  <2>2. CASE /\ Consumable(k)
             /\ Become(r, Req("reset_find", index[k].user, Absent, NoCode, k,
                              state[index[k].user].expiresAt))
    <3>1. index[k].user \in Users
      BY <2>2 DEF Consumable, IndexConsistent
    <3>2. GoodRequest(Req("reset_find", index[k].user, Absent, NoCode, k,
                          state[index[k].user].expiresAt))
      BY <3>1 DEF GoodRequest, Req, ForgotPC, ResetPC
    <3>3. QED
      BY <1>8, <2>2, <3>2, BecomeGood DEF ResetPassword
  <2>3. QED
    BY <1>8, <2>1, <2>2 DEF ResetPassword
<1>9. ASSUME NEW r \in Requests, NEW o \in Outcomes,
             ForgotSave(r, o) \/ ForgotPush(r, o) \/ ForgotRollback(r, o)
      PROVE  RequestInv'
  BY <1>1, <1>3, <1>9 DEF ForgotSave, ForgotPush, ForgotRollback, ForgotPC
<1>10. ASSUME NEW r \in Requests, NEW o \in Outcomes,
              VerifyWrong(r, o) \/ VerifyRight(r, o) \/ VerifyWrongLapsed(r)
       PROVE  RequestInv'
  BY <1>1, <1>5, <1>10 DEF VerifyWrong, VerifyRight, VerifyWrongLapsed
<1>11. ASSUME NEW r \in Requests, NEW o \in Outcomes,
              ResetFind(r, o) \/ ResetSet(r, o) \/ ResetRestore(r, o)
       PROVE  RequestInv'
  BY <1>1, <1>4, <1>11 DEF ResetFind, ResetSet, ResetRestore, ResetPC
<1>12. ASSUME NEW r \in Requests, Abandon(r) PROVE RequestInv'
  BY <1>1, <1>12 DEF Abandon
<1>13. ASSUME NEW u \in Users, DeleteAccount(u) PROVE RequestInv'
  BY <1>13 DEF DeleteAccount, RequestInv, GoodRequest
<1>14. CASE Tick
  BY <1>14 DEF Tick, RequestInv, GoodRequest, TypeOK, Request
<1>15. CASE UNCHANGED vars
  BY <1>15 DEF vars, RequestInv, GoodRequest
<1>16. QED
  BY <1>2, <1>6, <1>7, <1>8, <1>9, <1>10, <1>11, <1>12, <1>13, <1>14, <1>15
     DEF Next, Submit, Step, Proceed

-----------------------------------------------------------------------------
(* What is in a value, and what an operation leaves where.                 *)

LEMMA Holding ==
  /\ \A k : ~HasKey(Absent, k)
  /\ \A c : ~HasCode(Absent, c)
  /\ \A c, t, n, k : ~HasKey(AwaitingCode(c, t, n), k)
  /\ \A c, t, n, d : HasCode(AwaitingCode(c, t, n), d) <=> d = c
  /\ \A k, e, c : ~HasCode(AwaitingPassword(k, e), c)
  /\ \A k, e, j : HasKey(AwaitingPassword(k, e), j) <=> j = k
  /\ \A k, e : AwaitingPassword(k, e).expiresAt = e
  /\ \A c, t, n : /\ AwaitingCode(c, t, n).sentAt = t
                  /\ AwaitingCode(c, t, n).failedAttempts = n
BY DEF HasKey, HasCode, Absent, AwaitingCode, AwaitingPassword

LEMMA ReqFields ==
  /\ \A pc, u, s, c, k, t :
       /\ Req(pc, u, s, c, k, t).pc = pc /\ Req(pc, u, s, c, k, t).user = u
       /\ Req(pc, u, s, c, k, t).prev = s /\ Req(pc, u, s, c, k, t).code = c
       /\ Req(pc, u, s, c, k, t).key = k /\ Req(pc, u, s, c, k, t).at = t
  /\ Idle.pc = "idle" /\ Idle.prev = Absent
BY DEF Req, Idle

LEMMA BecomeAt ==
  ASSUME TypeOK, NEW r \in Requests, NEW q, Become(r, q)
  PROVE  /\ req'[r] = q
         /\ \A x \in Requests : x # r => req'[x] = req[x]
BY DEF TypeOK, Become

LEMMA MoveAt ==
  ASSUME TypeOK, NEW r \in Requests, NEW pc, Become(r, [req[r] EXCEPT !.pc = pc])
  PROVE  /\ req'[r].pc = pc /\ req'[r].user = req[r].user /\ req'[r].prev = req[r].prev
         /\ req'[r].code = req[r].code /\ req'[r].key = req[r].key
         /\ req'[r].at = req[r].at
         /\ \A x \in Requests : x # r => req'[x] = req[x]
BY DEF TypeOK, Become, Request

LEMMA LeaveAt ==
  ASSUME TypeOK, NEW r \in Requests, Reload(r) \/ Respond(r)
  PROVE  /\ req'[r].pc \in {"idle", "verify_load"} /\ req'[r].prev = Absent
         /\ \A x \in Requests : x # r => req'[x] = req[x]
<1>1. CASE Reload(r)
  BY <1>1 DEF Reload, Become, TypeOK, Request
<1>2. CASE Respond(r)
  BY <1>2, BecomeAt, ReqFields DEF Respond
<1>3. QED
  BY <1>1, <1>2

LEMMA SaveAt ==
  ASSUME TypeOK, NEW u \in Users, NEW s, NEW t, Save(u, s, t)
  PROVE  /\ state'[u] = t
         /\ \A v \in Users : v # u => state'[v] = state[v]
BY DEF TypeOK, Save

LEMMA ClearAt ==
  ASSUME TypeOK, NEW u \in Users, NEW s, Clear(u, s)
  PROVE  /\ state'[u] = Absent
         /\ \A v \in Users : v # u => state'[v] = state[v]
BY DEF TypeOK, Clear

LEMMA IncrementAt ==
  ASSUME TypeOK, NEW u \in Users, Increment(u)
  PROVE  /\ state'[u] = AwaitingCode(state[u].code, state[u].sentAt,
                                     state[u].failedAttempts + 1)
         /\ \A v \in Users : v # u => state'[v] = state[v]
BY DEF TypeOK, Increment

-----------------------------------------------------------------------------
(* MintInv                                                                 *)

LEMMA MintStep == IInv /\ [Next]_vars => MintInv'
<1> SUFFICES ASSUME IInv, [Next]_vars PROVE MintInv'
  OBVIOUS
<1> USE ResetAssumption
<1> TypeOK /\ RequestInv /\ MintInv /\ IndexConsistent
  BY DEF IInv
<1>1. ASSUME NEW r \in Requests, Respond(r), UNCHANGED <<state, password, minted, granted>>
      PROVE  MintInv'
  BY <1>1, BecomeAt, ReqFields, Holding DEF MintInv, Respond, ResetPC
<1>2. ASSUME NEW r \in Requests, NEW u \in Users, ForgotPassword(r, u) PROVE MintInv'
  <2>1. PICK c \in Codes : Become(r, Req("forgot_save", u, state[u], c, NoKey, now))
    BY <1>2 DEF ForgotPassword, FreshCodes
  <2>2. QED
    BY <1>2, <2>1, BecomeAt, ReqFields DEF MintInv, ForgotPassword, ResetPC
<1>3. ASSUME NEW r \in Requests, NEW o \in Outcomes, ForgotSave(r, o) PROVE MintInv'
  <2>1. req[r] \in Request /\ req[r].user \in Users
    BY <1>3 DEF ForgotSave, TypeOK, RequestInv, GoodRequest
  <2>2. \A k \in Keys, u \in Users :
          HasKey(state'[u], k) => HasKey(state[u], k) /\ state'[u] = state[u]
    BY <1>3, <2>1, SaveAt, Holding DEF ForgotSave, NextState, RedisUnchanged
  <2>3. \A k \in Keys, x \in Requests :
          /\ HasKey(req'[x].prev, k) => req'[x].prev = req[x].prev /\ req'[x].user = req[x].user
          /\ req'[x].pc \in ResetPC => req'[x] = req[x]
    <3>1. CASE Respond(r)
      BY <3>1, BecomeAt, ReqFields, Holding DEF Respond, ResetPC
    <3>2. CASE Become(r, [req[r] EXCEPT !.pc = "forgot_push"])
      BY <3>2, MoveAt DEF ResetPC
    <3>3. QED
      BY <1>3, <3>1, <3>2 DEF ForgotSave
  <2>4. QED
    BY <1>3, <2>2, <2>3 DEF MintInv, ForgotSave
<1>4. ASSUME NEW r \in Requests, NEW o \in Outcomes, ForgotPush(r, o) PROVE MintInv'
  <2>1. CASE Become(r, [req[r] EXCEPT !.pc = "forgot_rollback"])
    BY <1>4, <2>1, MoveAt DEF ForgotPush, MintInv, ResetPC
  <2>2. QED
    BY <1>1, <1>4, <2>1 DEF ForgotPush
<1>5. ASSUME NEW r \in Requests, NEW o \in Outcomes, ForgotRollback(r, o) PROVE MintInv'
  <2>1. req[r] \in Request /\ req[r].user \in Users
    BY <1>5 DEF ForgotRollback, ForgotPC, TypeOK, RequestInv, GoodRequest
  <2>2. \A u \in Users : \/ state'[u] = state[u]
                         \/ state'[u] = Absent
                         \/ u = req[r].user /\ state'[u] = req[r].prev
    BY <1>5, <2>1, SaveAt, ClearAt DEF ForgotRollback, RedisUnchanged
  <2>3. \A x \in Requests : req'[x] = req[x] \/ req'[x] = Idle
    BY <1>5, BecomeAt DEF ForgotRollback, Respond
  <2>4. QED
    BY <1>5, <2>2, <2>3, ReqFields, Holding DEF MintInv, ForgotRollback, ResetPC
<1>6. ASSUME NEW r \in Requests, NEW u \in Users, NEW c \in issued \union {NoCode},
             VerifyResetCode(r, u, c)
      PROVE  MintInv'
  BY <1>6, BecomeAt, ReqFields, Holding DEF VerifyResetCode, MintInv, ResetPC
<1>7. ASSUME NEW r \in Requests, NEW o \in Outcomes, VerifyLoad(r, o) PROVE MintInv'
  <2>1. req[r] \in Request /\ req[r].user \in Users
    BY <1>7 DEF VerifyLoad, TypeOK, RequestInv, GoodRequest
  <2>2. CASE Become(r, [req[r] EXCEPT !.pc = "verify_check", !.prev = state[req[r].user]])
    <3>1. /\ req'[r].pc = "verify_check" /\ req'[r].user = req[r].user
          /\ req'[r].prev = state[req[r].user]
          /\ \A x \in Requests : x # r => req'[x] = req[x]
      BY <2>2 DEF Become, TypeOK, Request
    <3>2. QED
      BY <1>7, <2>1, <3>1 DEF VerifyLoad, MintInv, ResetPC
  <2>3. QED
    BY <1>1, <1>7, <2>2 DEF VerifyLoad
<1>8. ASSUME NEW r \in Requests, Reload(r) \/ Respond(r)
      PROVE  \A x \in Requests : \/ req'[x] = req[x]
                                 \/ req'[x].prev = Absent /\ req'[x].pc \notin ResetPC
  BY <1>8, LeaveAt DEF ResetPC
<1>9. ASSUME NEW r \in Requests, NEW o \in Outcomes, VerifyWrong(r, o) PROVE MintInv'
  <2>1. req[r] \in Request /\ req[r].user \in Users
    BY <1>9 DEF VerifyWrong, TypeOK, RequestInv, GoodRequest
  <2>2. \A u \in Users, k \in Keys : HasKey(state'[u], k) => state'[u] = state[u]
    BY <1>9, <2>1, IncrementAt, Holding DEF VerifyWrong, RedisUnchanged
  <2>3. QED
    BY <1>8, <1>9, <2>2, Holding DEF VerifyWrong, MintInv
<1>10. ASSUME NEW r \in Requests, VerifyWrongLapsed(r) PROVE MintInv'
  <2>1. \A u \in Users : state'[u] = state[u] \/ state'[u] = Absent
    BY <1>10 DEF VerifyWrongLapsed, TypeOK
  <2>2. QED
    BY <1>8, <1>10, <2>1, Holding DEF VerifyWrongLapsed, MintInv
<1>11. ASSUME NEW r \in Requests, NEW o \in Outcomes, VerifyRight(r, o) PROVE MintInv'
  <2>1. /\ req[r] \in Request /\ req[r].user \in Users
        /\ req[r].prev.kind = "AwaitingCode"
    BY <1>11 DEF VerifyRight, TypeOK, RequestInv, GoodRequest
  <2>2. CASE RedisUnchanged /\ UNCHANGED minted
    BY <1>8, <1>11, <2>2, Holding DEF VerifyRight, RedisUnchanged, MintInv
  <2>3. ASSUME NEW k \in Keys, minted[k] = NoMint,
               Save(req[r].user, req[r].prev, AwaitingPassword(k, now + KEY_EXPIRES)),
               minted' = [minted EXCEPT ![k] = [user |-> req[r].user, at |-> now]]
        PROVE  MintInv'
    <3>1. minted[k].user \notin Users
      BY <2>3 DEF NoMint
    <3>2. \A x \in Requests : ~HasKey(req[x].prev, k)
      BY <3>1, Holding DEF MintInv, RequestInv, GoodRequest, ForgotPC
    <3>3. \A x \in Requests : req[x].pc \in ResetPC => req[x].key # k
      BY <3>1 DEF MintInv, RequestInv, GoodRequest, ResetPC
    <3>4. /\ \A u \in Users : ~HasKey(state[u], k) /\ password[u] # k
          /\ ~(granted[k] > 0)
      BY <3>1 DEF MintInv
    <3>5. /\ minted'[k] = [user |-> req[r].user, at |-> now]
          /\ \A j \in Keys : j # k => minted'[j] = minted[j]
      BY <2>3 DEF TypeOK
    <3>6. /\ state'[req[r].user] = AwaitingPassword(k, now + KEY_EXPIRES)
          /\ \A v \in Users : v # req[r].user => state'[v] = state[v]
      BY <2>1, <2>3, SaveAt
    <3>7. \A x \in Requests : \/ req'[x] = req[x]
                              \/ req'[x].prev = Absent /\ req'[x].pc \notin ResetPC
      BY <1>8, <1>11 DEF VerifyRight
    <3>8. UNCHANGED <<password, granted>>
      BY <1>11 DEF VerifyRight
    <3>9. QED
      BY <2>1, <3>2, <3>3, <3>4, <3>5, <3>6, <3>7, <3>8, Holding DEF MintInv
  <2>4. QED
    BY <1>11, <2>2, <2>3 DEF VerifyRight
<1>12. ASSUME NEW r \in Requests, NEW k \in Keys, NEW o \in Outcomes, ResetPassword(r, k, o)
       PROVE  MintInv'
  <2>1. \A u \in Users : state'[u] = state[u] \/ state'[u] = Absent
    BY <1>12 DEF ResetPassword, Consume, RedisUnchanged, TypeOK
  <2>2. CASE UNCHANGED req
    BY <1>12, <2>1, <2>2, Holding DEF ResetPassword, MintInv
  <2>3. CASE /\ Consumable(k)
             /\ Become(r, Req("reset_find", index[k].user, Absent, NoCode, k,
                              state[index[k].user].expiresAt))
    <3>1. index[k].user \in Users /\ HasKey(state[index[k].user], k)
      BY <2>3 DEF Consumable, IndexConsistent
    <3>2. QED
      BY <1>12, <2>1, <2>3, <3>1, BecomeAt, ReqFields, Holding DEF ResetPassword, MintInv
  <2>4. QED
    BY <1>12, <2>2, <2>3 DEF ResetPassword
<1>13. ASSUME NEW r \in Requests, NEW o \in Outcomes, ResetFind(r, o) PROVE MintInv'
  <2>1. ASSUME NEW pc \in ResetPC, Become(r, [req[r] EXCEPT !.pc = pc]) PROVE MintInv'
    BY <1>13, <2>1, MoveAt DEF ResetFind, MintInv, ResetPC
  <2>2. QED
    BY <1>1, <1>13, <2>1 DEF ResetFind, ResetPC
<1>14. ASSUME NEW r \in Requests, NEW o \in Outcomes, ResetSet(r, o) PROVE MintInv'
  <2>1. /\ req[r] \in Request /\ req[r].user \in Users /\ req[r].key \in Keys
        /\ minted[req[r].key].user = req[r].user
    BY <1>14 DEF ResetSet, TypeOK, RequestInv, GoodRequest, ResetPC, MintInv
  <2>2. \A x \in Requests :
          \/ req'[x] = Idle
          \/ /\ req'[x].prev = req[x].prev /\ req'[x].user = req[x].user
             /\ req'[x].pc \in ResetPC => req[x].pc \in ResetPC
             /\ req'[x].key = req[x].key /\ req'[x].at = req[x].at
    BY <1>14, <2>1, BecomeAt, MoveAt DEF ResetSet, ResetPC, Respond
  <2>3. \A u \in Users : 
          \/ password'[u] = password[u]
          \/ u = req[r].user /\ password'[u] = req[r].key
    BY <1>14, <2>1 DEF ResetSet, TypeOK
  <2>4. \A k \in Keys : granted'[k] > 0 => granted[k] > 0 \/ k = req[r].key
    BY <1>14, <2>1 DEF ResetSet, TypeOK
  <2>5. QED
    BY <1>14, <2>1, <2>2, <2>3, <2>4, ReqFields, Holding DEF ResetSet, MintInv, ResetPC
<1>15. ASSUME NEW r \in Requests, NEW o \in Outcomes, ResetRestore(r, o) PROVE MintInv'
  <2>1. /\ req[r] \in Request /\ req[r].user \in Users /\ req[r].key \in Keys
        /\ minted[req[r].key].user = req[r].user
        /\ req[r].at = minted[req[r].key].at + KEY_EXPIRES
    BY <1>15 DEF ResetRestore, TypeOK, RequestInv, GoodRequest, ResetPC, MintInv
  <2>2. \A u \in Users :
          \/ state'[u] = state[u]
          \/ u = req[r].user /\ state'[u] = AwaitingPassword(req[r].key, req[r].at)
    BY <1>15, <2>1, SaveAt DEF ResetRestore, RedisUnchanged
  <2>3. QED
    BY <1>15, <2>1, <2>2, <1>8, Holding DEF ResetRestore, MintInv
<1>16. ASSUME NEW r \in Requests, Abandon(r) PROVE MintInv'
  BY <1>1, <1>16 DEF Abandon
<1>17. ASSUME NEW u \in Users, DeleteAccount(u) PROVE MintInv'
  BY <1>17 DEF DeleteAccount, MintInv
<1>18. CASE Tick
  <2>1. \A u \in Users : state'[u] = state[u] \/ state'[u] = Absent
    BY <1>18 DEF Tick
  <2>2. QED
    BY <1>18, <2>1, Holding DEF Tick, MintInv
<1>19. CASE UNCHANGED vars
  BY <1>19 DEF vars, MintInv
<1>20. QED
  BY <1>2, <1>3, <1>4, <1>5, <1>6, <1>7, <1>9, <1>10, <1>11, <1>12, <1>13, <1>14,
     <1>15, <1>16, <1>17, <1>18, <1>19 DEF Next, Submit, Step, Proceed

-----------------------------------------------------------------------------
(* KeyInv                                                                  *)

(* A key that is not minted is nowhere.                                    *)
LEMMA UnmintedKey ==
  ASSUME RequestInv, MintInv, NEW k \in Keys, minted[k] = NoMint
  PROVE  /\ \A u \in Users : ~HasKey(state[u], k) /\ password[u] # k
         /\ \A r \in Requests : ~HasKey(req[r].prev, k) /\ ~HoldsKey(r, k)
         /\ ~(granted[k] > 0)
<1> USE ResetAssumption
<1>1. minted[k].user \notin Users
  BY DEF NoMint
<1>2. \A r \in Requests : ~HasKey(req[r].prev, k)
  BY <1>1, Holding DEF MintInv, RequestInv, GoodRequest, ForgotPC
<1>3. \A r \in Requests : req[r].pc \in ResetPC => req[r].key # k
  BY <1>1 DEF MintInv, RequestInv, GoodRequest, ResetPC
<1>4. QED
  BY <1>1, <1>2, <1>3 DEF MintInv, HoldsKey

LEMMA KeyKept ==
  ASSUME KeyInv, granted' = granted,
         \A k \in Keys, u \in Users : HasKey(state'[u], k) => HasKey(state[u], k),
         \A k \in Keys, r \in Requests : HoldsKey(r, k)' => HoldsKey(r, k)
  PROVE  KeyInv'
BY DEF KeyInv

(* A key comes back from a request to Redis, or goes the other way.        *)
LEMMA KeyBack ==
  ASSUME KeyInv, granted' = granted, NEW r \in Requests, NEW u \in Users,
         \A k \in Keys : ~HoldsKey(r, k)',
         \A k \in Keys, v \in Users :
           HasKey(state'[v], k) => HasKey(state[v], k) \/ (v = u /\ HoldsKey(r, k)),
         \A k \in Keys, q \in Requests : q # r /\ HoldsKey(q, k)' => HoldsKey(q, k)
  PROVE  KeyInv'
BY DEF KeyInv

LEMMA KeyTaken ==
  ASSUME KeyInv, MintInv, granted' = granted, NEW r \in Requests, NEW u \in Users,
         \A k \in Keys : ~HasKey(state'[u], k),
         \A k \in Keys, v \in Users : v # u /\ HasKey(state'[v], k) => HasKey(state[v], k),
         \A k \in Keys : HoldsKey(r, k)' => HasKey(state[u], k) \/ HoldsKey(r, k),
         \A k \in Keys, q \in Requests : q # r /\ HoldsKey(q, k)' => HoldsKey(q, k)
  PROVE  KeyInv'
BY DEF KeyInv, MintInv

LEMMA KeyStep == IInv /\ [Next]_vars => KeyInv'
<1> SUFFICES ASSUME IInv, [Next]_vars PROVE KeyInv'
  OBVIOUS
<1> TypeOK /\ RequestInv /\ MintInv /\ KeyInv /\ IndexConsistent
  BY DEF IInv
<1>1. ASSUME NEW r \in Requests, Reload(r) \/ Respond(r)
      PROVE  /\ \A k \in Keys : ~HoldsKey(r, k)'
             /\ \A x \in Requests : x # r => req'[x] = req[x]
             /\ \A k \in Keys, x \in Requests : HoldsKey(x, k)' => HoldsKey(x, k)
  BY <1>1, LeaveAt DEF HoldsKey, Shelving, ResetPC
<1>2. ASSUME NEW r \in Requests, NEW u \in Users, ForgotPassword(r, u) PROVE KeyInv'
  <2>1. PICK c \in Codes : Become(r, Req("forgot_save", u, state[u], c, NoKey, now))
    BY <1>2 DEF ForgotPassword, FreshCodes
  <2>2. \A k \in Keys, x \in Requests : HoldsKey(x, k)' => HoldsKey(x, k)
    BY <2>1, BecomeAt, ReqFields DEF HoldsKey, Shelving, ResetPC
  <2>3. QED
    BY <1>2, <2>2, KeyKept DEF ForgotPassword
<1>3. ASSUME NEW r \in Requests, NEW o \in Outcomes, ForgotSave(r, o) PROVE KeyInv'
  <2>1. req[r].user \in Users
    BY <1>3 DEF ForgotSave, RequestInv, GoodRequest
  <2>2. CASE RedisUnchanged /\ Respond(r)
    BY <1>1, <1>3, <2>2, KeyKept DEF ForgotSave, RedisUnchanged
  <2>3. CASE /\ state[req[r].user] = req[r].prev
             /\ Save(req[r].user, req[r].prev, NextState(r))
    <3>1. /\ \A k \in Keys : ~HasKey(state'[req[r].user], k)
          /\ \A v \in Users : v # req[r].user => state'[v] = state[v]
      BY <2>1, <2>3, SaveAt, Holding DEF NextState
    <3>2. /\ req'[r].prev = req[r].prev /\ req'[r].pc = "forgot_push"
          \/ req'[r].pc = "idle"
      BY <1>3, BecomeAt, MoveAt, ReqFields DEF ForgotSave, Respond
    <3>3. \A x \in Requests : x # r => req'[x] = req[x]
      BY <1>3, BecomeAt, MoveAt DEF ForgotSave, Respond
    <3>4. \A k \in Keys : HoldsKey(r, k)' => HasKey(state[req[r].user], k)
      BY <2>3, <3>2 DEF HoldsKey, Shelving, ResetPC
    <3>5. \A k \in Keys, x \in Requests : x # r /\ HoldsKey(x, k)' => HoldsKey(x, k)
      BY <3>3 DEF HoldsKey, Shelving
    <3>6. granted' = granted
      BY <1>3 DEF ForgotSave
    <3>7. QED
      BY <2>1, <3>1, <3>4, <3>5, <3>6, KeyTaken
  <2>4. QED
    BY <1>3, <2>2, <2>3 DEF ForgotSave, CanSave, Runs
<1>4. ASSUME NEW r \in Requests, NEW o \in Outcomes, ForgotPush(r, o) PROVE KeyInv'
  <2>1. CASE Become(r, [req[r] EXCEPT !.pc = "forgot_rollback"])
    <3>1. \A k \in Keys, x \in Requests : HoldsKey(x, k)' => HoldsKey(x, k)
      BY <1>4, <2>1, MoveAt DEF ForgotPush, HoldsKey, Shelving, ResetPC
    <3>2. QED
      BY <1>4, <3>1, KeyKept DEF ForgotPush
  <2>2. QED
    BY <1>1, <1>4, <2>1, KeyKept DEF ForgotPush
<1>5. ASSUME NEW r \in Requests, NEW o \in Outcomes, ForgotRollback(r, o) PROVE KeyInv'
  <2>1. req[r].user \in Users
    BY <1>5 DEF ForgotRollback, ForgotPC, RequestInv, GoodRequest
  <2>2. \A u \in Users : \/ state'[u] = state[u]
                         \/ state'[u] = Absent
                         \/ u = req[r].user /\ state'[u] = req[r].prev
    BY <1>5, <2>1, SaveAt, ClearAt DEF ForgotRollback, RedisUnchanged
  <2>3. \A u \in Users, k \in Keys :
          HasKey(state'[u], k) =>
            HasKey(state[u], k) \/ (u = req[r].user /\ HoldsKey(r, k))
    BY <1>5, <2>2, Holding DEF ForgotRollback, HoldsKey, Shelving
  <2>4. QED
    BY <1>1, <1>5, <2>1, <2>3, KeyBack DEF ForgotRollback
<1>6. ASSUME NEW r \in Requests, NEW u \in Users, NEW c \in issued \union {NoCode},
             VerifyResetCode(r, u, c)
      PROVE  KeyInv'
  <2>1. \A k \in Keys, x \in Requests : HoldsKey(x, k)' => HoldsKey(x, k)
    BY <1>6, BecomeAt, ReqFields DEF VerifyResetCode, HoldsKey, Shelving, ResetPC
  <2>2. QED
    BY <1>6, <2>1, KeyKept DEF VerifyResetCode
<1>7. ASSUME NEW r \in Requests, NEW o \in Outcomes, VerifyLoad(r, o) PROVE KeyInv'
  <2>1. CASE Become(r, [req[r] EXCEPT !.pc = "verify_check", !.prev = state[req[r].user]])
    <3>1. /\ req'[r].pc = "verify_check"
          /\ \A x \in Requests : x # r => req'[x] = req[x]
      BY <2>1 DEF Become, TypeOK, Request
    <3>2. \A k \in Keys, x \in Requests : HoldsKey(x, k)' => HoldsKey(x, k)
      BY <3>1 DEF HoldsKey, Shelving, ResetPC
    <3>3. QED
      BY <1>7, <3>2, KeyKept DEF VerifyLoad
  <2>2. QED
    BY <1>1, <1>7, <2>1, KeyKept DEF VerifyLoad
<1>8. ASSUME NEW r \in Requests, NEW o \in Outcomes, VerifyWrong(r, o) PROVE KeyInv'
  <2>1. req[r].user \in Users
    BY <1>8 DEF VerifyWrong, RequestInv, GoodRequest
  <2>2. \A k \in Keys, u \in Users : HasKey(state'[u], k) => state'[u] = state[u]
    BY <1>8, <2>1, IncrementAt, Holding DEF VerifyWrong, RedisUnchanged
  <2>3. QED
    BY <1>1, <1>8, <2>2, KeyKept DEF VerifyWrong
<1>9. ASSUME NEW r \in Requests, VerifyWrongLapsed(r) PROVE KeyInv'
  <2>1. \A k \in Keys, u \in Users : HasKey(state'[u], k) => HasKey(state[u], k)
    BY <1>9, Holding DEF VerifyWrongLapsed, TypeOK
  <2>2. QED
    BY <1>1, <1>9, <2>1, KeyKept DEF VerifyWrongLapsed
<1>10. ASSUME NEW r \in Requests, NEW o \in Outcomes, VerifyRight(r, o) PROVE KeyInv'
  <2>1. req[r].user \in Users
    BY <1>10 DEF VerifyRight, RequestInv, GoodRequest
  <2>2. CASE RedisUnchanged
    BY <1>1, <1>10, <2>2, KeyKept DEF VerifyRight, RedisUnchanged
  <2>3. ASSUME NEW k \in Keys, minted[k] = NoMint,
               Save(req[r].user, req[r].prev, AwaitingPassword(k, now + KEY_EXPIRES))
        PROVE  KeyInv'
    <3>1. \A j \in Keys : HasKey(state'[req[r].user], j) <=> j = k
      BY <2>1, <2>3, SaveAt, Holding
    <3>2. \A v \in Users : v # req[r].user => state'[v] = state[v]
      BY <2>1, <2>3, SaveAt
    <3>3. /\ \A u \in Users : ~HasKey(state[u], k)
          /\ \A x \in Requests : ~HoldsKey(x, k)
          /\ ~(granted[k] > 0)
      BY <2>3, UnmintedKey
    <3>4. /\ \A x \in Requests, j \in Keys : HoldsKey(x, j)' => HoldsKey(x, j)
          /\ granted' = granted
      BY <1>1, <1>10 DEF VerifyRight
    <3>5. QED
      BY <2>1, <3>1, <3>2, <3>3, <3>4 DEF KeyInv
  <2>4. QED
    BY <1>10, <2>2, <2>3 DEF VerifyRight
<1>11. ASSUME NEW r \in Requests, NEW k \in Keys, NEW o \in Outcomes, ResetPassword(r, k, o)
       PROVE  KeyInv'
  <2>1. CASE UNCHANGED req
    <3>1. \A u \in Users : state'[u] = state[u] \/ state'[u] = Absent
      BY <1>11 DEF ResetPassword, Consume, RedisUnchanged, TypeOK
    <3>2. \A j \in Keys, x \in Requests : HoldsKey(x, j)' => HoldsKey(x, j)
      BY <2>1 DEF HoldsKey, Shelving
    <3>3. QED
      BY <1>11, <3>1, <3>2, KeyKept, Holding DEF ResetPassword
  <2>2. CASE /\ Consumable(k) /\ Consume(k)
             /\ Become(r, Req("reset_find", index[k].user, Absent, NoCode, k,
                              state[index[k].user].expiresAt))
    <3>1. index[k].user \in Users /\ HasKey(state[index[k].user], k)
      BY <2>2 DEF Consumable, IndexConsistent
    <3>2. /\ state'[index[k].user] = Absent
          /\ \A v \in Users : v # index[k].user => state'[v] = state[v]
      BY <2>2, <3>1 DEF Consume, TypeOK
    <3>3. /\ \A j \in Keys : HoldsKey(r, j)' => j = k
          /\ \A x \in Requests, j \in Keys : x # r /\ HoldsKey(x, j)' => HoldsKey(x, j)
      BY <2>2, BecomeAt, ReqFields DEF HoldsKey, Shelving, ResetPC
    <3>4. QED
      BY <1>11, <3>1, <3>2, <3>3, KeyTaken, Holding DEF ResetPassword
  <2>3. QED
    BY <1>11, <2>1, <2>2 DEF ResetPassword, Runs
<1>12. ASSUME NEW r \in Requests, NEW o \in Outcomes, ResetFind(r, o) PROVE KeyInv'
  <2>1. ASSUME NEW pc \in ResetPC, Become(r, [req[r] EXCEPT !.pc = pc]) PROVE KeyInv'
    <3>1. \A k \in Keys, x \in Requests : HoldsKey(x, k)' => HoldsKey(x, k)
      BY <1>12, <2>1, MoveAt DEF ResetFind, HoldsKey, Shelving, ResetPC
    <3>2. QED
      BY <1>12, <3>1, KeyKept DEF ResetFind
  <2>2. QED
    BY <1>1, <1>12, <2>1, KeyKept DEF ResetFind, ResetPC
<1>13. ASSUME NEW r \in Requests, NEW o \in Outcomes, ResetSet(r, o) PROVE KeyInv'
  <2>1. CASE Become(r, [req[r] EXCEPT !.pc = "reset_restore"]) /\ UNCHANGED granted
    <3>1. \A k \in Keys, x \in Requests : HoldsKey(x, k)' => HoldsKey(x, k)
      BY <1>13, <2>1, MoveAt DEF ResetSet, HoldsKey, Shelving, ResetPC
    <3>2. QED
      BY <1>13, <2>1, <3>1, KeyKept DEF ResetSet
  <2>2. CASE Respond(r) /\ granted' = [granted EXCEPT ![req[r].key] = @ + 1]
    <3>1. req[r].key \in Keys /\ HoldsKey(r, req[r].key)
      BY <1>13 DEF ResetSet, RequestInv, GoodRequest, ResetPC, HoldsKey
    <3>2. /\ ~(granted[req[r].key] > 0)
          /\ \A u \in Users : ~HasKey(state[u], req[r].key)
          /\ \A x \in Requests : x # r => ~HoldsKey(x, req[r].key)
      BY <3>1 DEF KeyInv
    <3>3. /\ \A k \in Keys : k # req[r].key => granted'[k] = granted[k]
          /\ granted'[req[r].key] = 1
      BY <2>2, <3>1, <3>2 DEF TypeOK
    <3>4. state' = state
      BY <1>13 DEF ResetSet
    <3>5. QED
      BY <1>1, <2>2, <3>1, <3>2, <3>3, <3>4 DEF KeyInv
  <2>3. QED
    BY <1>13, <2>1, <2>2 DEF ResetSet
<1>14. ASSUME NEW r \in Requests, NEW o \in Outcomes, ResetRestore(r, o) PROVE KeyInv'
  <2>1. req[r].user \in Users /\ HoldsKey(r, req[r].key)
    BY <1>14 DEF ResetRestore, RequestInv, GoodRequest, ResetPC, HoldsKey
  <2>2. \A u \in Users :
          \/ state'[u] = state[u]
          \/ u = req[r].user /\ state'[u] = AwaitingPassword(req[r].key, req[r].at)
    BY <1>14, <2>1, SaveAt DEF ResetRestore, RedisUnchanged
  <2>3. \A u \in Users, k \in Keys :
          HasKey(state'[u], k) =>
            HasKey(state[u], k) \/ (u = req[r].user /\ HoldsKey(r, k))
    BY <2>1, <2>2, Holding
  <2>4. QED
    BY <1>1, <1>14, <2>1, <2>3, KeyBack DEF ResetRestore
<1>15. ASSUME NEW r \in Requests, Abandon(r) PROVE KeyInv'
  BY <1>1, <1>15, KeyKept DEF Abandon
<1>16. ASSUME NEW u \in Users, DeleteAccount(u) PROVE KeyInv'
  BY <1>16 DEF DeleteAccount, KeyInv, HoldsKey, Shelving
<1>17. CASE Tick
  <2>1. \A u \in Users : state'[u] = state[u] \/ state'[u] = Absent
    BY <1>17 DEF Tick
  <2>2. QED
    BY <1>17, <2>1, Holding, KeyKept DEF Tick, HoldsKey, Shelving
<1>18. CASE UNCHANGED vars
  BY <1>18 DEF vars, KeyInv, HoldsKey, Shelving
<1>19. QED
  BY <1>2, <1>3, <1>4, <1>5, <1>6, <1>7, <1>8, <1>9, <1>10, <1>11, <1>12, <1>13, <1>14,
     <1>15, <1>16, <1>17, <1>18 DEF Next, Submit, Step, Proceed

-----------------------------------------------------------------------------
(* ExpiryInv                                                               *)

LEMMA SaveLive ==
  ASSUME TypeOK, ExpiryInv, now' = now, NEW u \in Users, NEW s, NEW t, Save(u, s, t),
         t.kind = "AwaitingPassword" => now < t.expiresAt
  PROVE  ExpiryInv'
BY DEF TypeOK, ExpiryInv, Save, HasKey

LEMMA LessLive ==
  ASSUME ExpiryInv, now' = now,
         \A u \in Users : state'[u] = state[u] \/ state'[u].kind # "AwaitingPassword",
         \A k \in Keys : index'[k] = index[k] \/ index'[k] = NoEntry
  PROVE  ExpiryInv'
BY DEF ExpiryInv

LEMMA ExpiryStep == IInv /\ [Next]_vars => ExpiryInv'
<1> SUFFICES ASSUME IInv, [Next]_vars PROVE ExpiryInv'
  OBVIOUS
<1> USE ResetAssumption
<1> TypeOK /\ RequestInv /\ ExpiryInv /\ IndexConsistent
  BY DEF IInv
<1>1. CASE UNCHANGED <<now, state, index>>
  BY <1>1 DEF ExpiryInv
<1>2. ASSUME NEW r \in Requests, NEW o \in Outcomes, ForgotSave(r, o) PROVE ExpiryInv'
  <2>1. req[r].user \in Users
    BY <1>2 DEF ForgotSave, RequestInv, GoodRequest
  <2>2. CASE Save(req[r].user, req[r].prev, NextState(r))
    BY <1>2, <2>1, <2>2, SaveLive DEF ForgotSave, NextState, AwaitingCode
  <2>3. QED
    BY <1>1, <1>2, <2>2 DEF ForgotSave, RedisUnchanged
<1>3. ASSUME NEW r \in Requests, NEW o \in Outcomes, ForgotRollback(r, o) PROVE ExpiryInv'
  <2>1. req[r].user \in Users
    BY <1>3 DEF ForgotRollback, ForgotPC, RequestInv, GoodRequest
  <2>2. CASE Clear(req[r].user, NextState(r))
    BY <1>3, <2>1, <2>2, LessLive DEF ForgotRollback, Clear, TypeOK, Absent
  <2>3. CASE HasTtl(req[r].prev) /\ Save(req[r].user, NextState(r), req[r].prev)
    BY <1>3, <2>1, <2>3, SaveLive DEF ForgotRollback, HasTtl, ExpiresAt, TypeOK
  <2>4. QED
    BY <1>1, <1>3, <2>2, <2>3 DEF ForgotRollback, RedisUnchanged
<1>4. ASSUME NEW r \in Requests, NEW o \in Outcomes, VerifyWrong(r, o) PROVE ExpiryInv'
  <2>1. req[r].user \in Users
    BY <1>4 DEF VerifyWrong, RequestInv, GoodRequest
  <2>2. CASE Increment(req[r].user)
    BY <1>4, <2>1, <2>2, LessLive DEF VerifyWrong, Increment, TypeOK, AwaitingCode
  <2>3. QED
    BY <1>1, <1>4, <2>2 DEF VerifyWrong, RedisUnchanged
<1>5. ASSUME NEW r \in Requests, VerifyWrongLapsed(r) PROVE ExpiryInv'
  BY <1>5, LessLive DEF VerifyWrongLapsed, TypeOK, Absent
<1>6. ASSUME NEW r \in Requests, NEW o \in Outcomes, VerifyRight(r, o) PROVE ExpiryInv'
  <2>1. req[r].user \in Users
    BY <1>6 DEF VerifyRight, RequestInv, GoodRequest
  <2>2. ASSUME NEW k \in Keys,
               Save(req[r].user, req[r].prev, AwaitingPassword(k, now + KEY_EXPIRES))
        PROVE  ExpiryInv'
    BY <1>6, <2>1, <2>2, SaveLive, Holding DEF VerifyRight, TypeOK
  <2>3. QED
    BY <1>1, <1>6, <2>2 DEF VerifyRight, RedisUnchanged
<1>7. ASSUME NEW r \in Requests, NEW k \in Keys, NEW o \in Outcomes, ResetPassword(r, k, o)
      PROVE  ExpiryInv'
  <2>1. CASE Consume(k)
    BY <1>7, <2>1, LessLive DEF ResetPassword, Consume, TypeOK, Absent
  <2>2. QED
    BY <1>1, <1>7, <2>1 DEF ResetPassword, RedisUnchanged
<1>8. ASSUME NEW r \in Requests, NEW o \in Outcomes, ResetRestore(r, o) PROVE ExpiryInv'
  <2>1. req[r].user \in Users
    BY <1>8 DEF ResetRestore, ResetPC, RequestInv, GoodRequest
  <2>2. CASE LET next == AwaitingPassword(req[r].key, req[r].at)
             IN HasTtl(next) /\ Save(req[r].user, Absent, next)
    <3>1. now < AwaitingPassword(req[r].key, req[r].at).expiresAt
      BY <1>8, <2>2 DEF HasTtl, ExpiresAt, AwaitingPassword, ResetRestore, ResetPC,
                        TypeOK, Request
    <3>2. QED
      BY <1>8, <2>1, <2>2, <3>1, SaveLive DEF ResetRestore
  <2>3. QED
    BY <1>1, <1>8, <2>2 DEF ResetRestore, RedisUnchanged, CanSave
<1>9. CASE Tick
  <2>1. ASSUME NEW u \in Users, state'[u].kind = "AwaitingPassword"
        PROVE  now' < state'[u].expiresAt
    <3>1. state'[u] = state[u] /\ state[u].kind = "AwaitingPassword" /\ state[u] # Absent
      BY <1>9, <2>1 DEF Tick, TypeOK, Absent
    <3>2. ~(ExpiresAt(state[u]) <= now + 1)
      BY <1>9, <2>1, <3>1 DEF Tick, TypeOK, MayLinger, Absent
    <3>3. state[u].expiresAt \in Nat
      BY <3>1, StoredFields DEF TypeOK
    <3>4. QED
      BY <1>9, <3>1, <3>2, <3>3 DEF Tick, TypeOK, ExpiresAt
  <2>2. \A k \in Keys : index'[k] # NoEntry => now' < index'[k].expiresAt
    BY <1>9 DEF Tick, TypeOK, Entry, NoEntry
  <2>3. QED
    BY <2>1, <2>2 DEF ExpiryInv
<1>10. QED
  BY <1>1, <1>2, <1>3, <1>4, <1>5, <1>6, <1>7, <1>8, <1>9
     DEF Next, Submit, Step, Proceed, ForgotPassword, ForgotPush, VerifyResetCode, VerifyLoad,
         ResetFind, ResetSet, Abandon, DeleteAccount, vars

-----------------------------------------------------------------------------
(* FreshInv                                                                *)

LEMMA FreshKept ==
  ASSUME FreshInv, issued' = issued,
         \A r \in Requests :
           \/ req'[r].pc \notin ForgotPC
           \/ /\ req[r].pc \in ForgotPC /\ req'[r].code = req[r].code
              /\ req'[r].pc = "forgot_save" => req[r].pc = "forgot_save"
  PROVE  FreshInv'
BY DEF FreshInv, ForgotPC

LEMMA FreshStep == IInv /\ [Next]_vars => FreshInv'
<1> SUFFICES ASSUME IInv, [Next]_vars PROVE FreshInv'
  OBVIOUS
<1> TypeOK /\ RequestInv /\ FreshInv
  BY DEF IInv
<1>1. CASE UNCHANGED <<issued, req>>
  BY <1>1 DEF FreshInv
<1>2. ASSUME NEW r \in Requests, Reload(r) \/ Respond(r), issued' = issued PROVE FreshInv'
  <2>1. req'[r].pc \notin ForgotPC /\ \A x \in Requests : x # r => req'[x] = req[x]
    BY <1>2, LeaveAt DEF ForgotPC
  <2>2. \A x \in Requests :
          req'[x].pc \notin ForgotPC \/ (req[x].pc \in ForgotPC /\ req'[x] = req[x])
    BY <2>1
  <2>3. QED
    BY <1>2, <2>2, FreshKept
<1>3. ASSUME NEW r \in Requests, NEW u \in Users, ForgotPassword(r, u) PROVE FreshInv'
  <2>1. PICK c \in FreshCodes : Become(r, Req("forgot_save", u, state[u], c, NoKey, now))
    BY <1>3 DEF ForgotPassword
  <2>2. c \notin issued /\ \A x \in Requests : req[x].pc \in ForgotPC => req[x].code # c
    BY DEF FreshCodes
  <2>3. /\ req'[r].pc = "forgot_save" /\ req'[r].code = c
        /\ \A x \in Requests : x # r => req'[x] = req[x]
    BY <2>1, BecomeAt, ReqFields
  <2>4. QED
    BY <1>3, <2>2, <2>3 DEF FreshInv, ForgotPassword
<1>4. ASSUME NEW r \in Requests, NEW o \in Outcomes, ForgotSave(r, o) PROVE FreshInv'
  <2>1. /\ req'[r].pc # "forgot_save"
        /\ req'[r].pc \in ForgotPC => req'[r].code = req[r].code
        /\ \A x \in Requests : x # r => req'[x] = req[x]
    <3>1. CASE Respond(r)
      BY <3>1, LeaveAt DEF ForgotPC
    <3>2. CASE Become(r, [req[r] EXCEPT !.pc = "forgot_push"])
      BY <3>2, MoveAt
    <3>3. QED
      BY <1>4, <3>1, <3>2 DEF ForgotSave
  <2>2. \/ issued' = issued
        \/ issued' = issued \union {req[r].code}
    BY <1>4 DEF ForgotSave
  <2>3. QED
    BY <1>4, <2>1, <2>2 DEF FreshInv, ForgotPC, ForgotSave
<1>5. ASSUME NEW r \in Requests, NEW o \in Outcomes, ForgotPush(r, o) PROVE FreshInv'
  <2>1. CASE Become(r, [req[r] EXCEPT !.pc = "forgot_rollback"])
    BY <1>5, <2>1, MoveAt, FreshKept DEF ForgotPush, ForgotPC
  <2>2. QED
    BY <1>2, <1>5, <2>1 DEF ForgotPush
<1>6. ASSUME NEW r \in Requests, NEW u \in Users, NEW c \in issued \union {NoCode},
             VerifyResetCode(r, u, c)
      PROVE  FreshInv'
  <2>1. req'[r].pc \notin ForgotPC /\ \A x \in Requests : x # r => req'[x] = req[x]
    BY <1>6, BecomeAt, ReqFields DEF VerifyResetCode, ForgotPC
  <2>2. QED
    BY <1>6, <2>1, FreshKept DEF VerifyResetCode
<1>7. ASSUME NEW r \in Requests, NEW o \in Outcomes, VerifyLoad(r, o) PROVE FreshInv'
  <2>1. CASE Become(r, [req[r] EXCEPT !.pc = "verify_check", !.prev = state[req[r].user]])
    <3>1. req'[r].pc \notin ForgotPC /\ \A x \in Requests : x # r => req'[x] = req[x]
      BY <2>1 DEF Become, TypeOK, Request, ForgotPC
    <3>2. QED
      BY <1>7, <3>1, FreshKept DEF VerifyLoad
  <2>2. QED
    BY <1>2, <1>7, <2>1 DEF VerifyLoad
<1>8. ASSUME NEW r \in Requests, NEW k \in Keys, NEW o \in Outcomes, ResetPassword(r, k, o)
      PROVE  FreshInv'
  <2>1. CASE ~(UNCHANGED req)
    <3>1. req'[r].pc \notin ForgotPC /\ \A x \in Requests : x # r => req'[x] = req[x]
      BY <1>8, <2>1, BecomeAt, ReqFields DEF ResetPassword, ForgotPC
    <3>2. QED
      BY <1>8, <3>1, FreshKept DEF ResetPassword
  <2>2. QED
    BY <1>1, <1>8, <2>1 DEF ResetPassword
<1>9. ASSUME NEW r \in Requests, NEW pc \in ResetPC, Become(r, [req[r] EXCEPT !.pc = pc]),
             issued' = issued
      PROVE  FreshInv'
  <2>1. req'[r].pc \notin ForgotPC /\ \A x \in Requests : x # r => req'[x] = req[x]
    BY <1>9, MoveAt DEF ForgotPC, ResetPC
  <2>2. QED
    BY <1>9, <2>1, FreshKept
<1>10. ASSUME NEW r \in Requests, NEW o \in Outcomes, ResetFind(r, o) \/ ResetSet(r, o)
       PROVE  FreshInv'
  BY <1>2, <1>9, <1>10 DEF ResetFind, ResetSet, ResetPC
<1>11. QED
  BY <1>1, <1>2, <1>3, <1>4, <1>5, <1>6, <1>7, <1>8, <1>10
     DEF Next, Submit, Step, Proceed, ForgotRollback, VerifyWrong, VerifyWrongLapsed,
         VerifyRight, ResetRestore, Abandon, DeleteAccount, Tick, vars

-----------------------------------------------------------------------------
(* CodeInv                                                                 *)

LEMMA CodeKept ==
  ASSUME CodeInv, wrong' = wrong, issued' = issued,
         \A u \in Users, c \in Codes : HasCode(state'[u], c) => state'[u] = state[u],
         \A r \in Requests :
           \/ req'[r].prev = req[r].prev /\ (Shelving(r)' => Shelving(r))
           \/ /\ ~Shelving(r)'
              /\ req'[r].prev = Absent \/ \E u \in Users : req'[r].prev = state[u]
  PROVE  CodeInv'
BY Holding DEF CodeInv, ShelvesCode

LEMMA CodeStep == IInv /\ [Next]_vars => CodeInv'
<1> SUFFICES ASSUME IInv, [Next]_vars PROVE CodeInv'
  OBVIOUS
<1> USE ResetAssumption
<1> TypeOK /\ RequestInv /\ CodeInv /\ FreshInv /\ IndexConsistent
  BY DEF IInv
<1>1. ASSUME UNCHANGED <<issued, wrong>>,
             \A u \in Users : state'[u] = state[u] \/ \A c \in Codes : ~HasCode(state'[u], c),
             UNCHANGED req \/ \E r \in Requests : Reload(r) \/ Respond(r)
      PROVE  CodeInv'
  <2>1. \A x \in Requests : req'[x] = req[x] \/ (req'[x].prev = Absent /\ ~Shelving(x)')
    BY <1>1, LeaveAt DEF Shelving
  <2>2. QED
    BY <1>1, <2>1, CodeKept DEF Shelving
<1>2. ASSUME NEW r \in Requests, NEW u \in Users, ForgotPassword(r, u) PROVE CodeInv'
  <2>1. PICK c \in Codes : Become(r, Req("forgot_save", u, state[u], c, NoKey, now))
    BY <1>2 DEF ForgotPassword, FreshCodes
  <2>2. /\ req'[r].prev = state[u] /\ ~Shelving(r)'
        /\ \A x \in Requests : x # r => req'[x] = req[x]
    BY <2>1, BecomeAt, ReqFields DEF Shelving
  <2>3. QED
    BY <1>2, <2>2, CodeKept DEF ForgotPassword, Shelving
<1>3. ASSUME NEW r \in Requests, NEW o \in Outcomes, ForgotSave(r, o) PROVE CodeInv'
  <2>1. /\ req[r].user \in Users /\ req[r].code \in Codes
        /\ req[r].code \notin issued
    BY <1>3 DEF ForgotSave, ForgotPC, RequestInv, GoodRequest, FreshInv
  <2>2. CASE RedisUnchanged /\ UNCHANGED issued /\ Respond(r)
    BY <1>1, <1>3, <2>2 DEF ForgotSave, RedisUnchanged
  <2>3. CASE /\ state[req[r].user] = req[r].prev
             /\ Save(req[r].user, req[r].prev, NextState(r))
             /\ issued' = issued \union {req[r].code}
    <3>1. /\ \A c \in Codes : HasCode(state'[req[r].user], c) <=> c = req[r].code
          /\ state'[req[r].user].failedAttempts = 0
          /\ \A v \in Users : v # req[r].user => state'[v] = state[v]
      BY <2>1, <2>3, SaveAt, Holding DEF NextState
    <3>2. \/ req'[r].prev = state[req[r].user]
          \/ req'[r].prev = Absent /\ ~Shelving(r)'
      BY <1>3, <2>3, LeaveAt, MoveAt DEF ForgotSave, Shelving
    <3>3. \A x \in Requests : x # r => req'[x] = req[x]
      BY <1>3, LeaveAt, MoveAt DEF ForgotSave
    <3>4. wrong' = wrong /\ wrong[req[r].code] = 0
      BY <1>3, <2>1 DEF ForgotSave, CodeInv
    <3>5. QED
      BY <2>1, <2>3, <3>1, <3>2, <3>3, <3>4, Holding DEF CodeInv, ShelvesCode, Shelving
  <2>4. QED
    BY <1>3, <2>2, <2>3 DEF ForgotSave, CanSave, Runs
<1>4. ASSUME NEW r \in Requests, NEW o \in Outcomes, ForgotPush(r, o) PROVE CodeInv'
  <2>1. CASE Become(r, [req[r] EXCEPT !.pc = "forgot_rollback"])
    <3>1. \A x \in Requests : req'[x].prev = req[x].prev /\ (Shelving(x)' => Shelving(x))
      BY <1>4, <2>1, MoveAt DEF ForgotPush, Shelving
    <3>2. QED
      BY <1>4, <3>1, CodeKept DEF ForgotPush
  <2>2. QED
    BY <1>1, <1>4, <2>1 DEF ForgotPush
<1>5. ASSUME NEW r \in Requests, NEW o \in Outcomes, ForgotRollback(r, o) PROVE CodeInv'
  <2>1. req[r].user \in Users /\ Shelving(r)
    BY <1>5 DEF ForgotRollback, ForgotPC, RequestInv, GoodRequest, Shelving
  <2>2. \/ \A u \in Users : state'[u] = state[u] \/ state'[u] = Absent
        \/ /\ state'[req[r].user] = req[r].prev
           /\ \A u \in Users : u # req[r].user => state'[u] = state[u]
    BY <1>5, <2>1, SaveAt, ClearAt DEF ForgotRollback, RedisUnchanged
  <2>3. /\ req'[r].prev = Absent /\ ~Shelving(r)'
        /\ \A x \in Requests : x # r => req'[x] = req[x]
    BY <1>5, LeaveAt DEF ForgotRollback, Shelving
  <2>4. UNCHANGED <<issued, wrong>>
    BY <1>5 DEF ForgotRollback
  <2>5. QED
    BY <2>1, <2>2, <2>3, <2>4, Holding DEF CodeInv, ShelvesCode, Shelving
<1>6. ASSUME NEW r \in Requests, NEW u \in Users, NEW c \in issued \union {NoCode},
             VerifyResetCode(r, u, c)
      PROVE  CodeInv'
  <2>1. /\ req'[r].prev = Absent /\ ~Shelving(r)'
        /\ \A x \in Requests : x # r => req'[x] = req[x]
    BY <1>6, BecomeAt, ReqFields DEF VerifyResetCode, Shelving
  <2>2. QED
    BY <1>6, <2>1, CodeKept DEF VerifyResetCode, Shelving
<1>7. ASSUME NEW r \in Requests, NEW o \in Outcomes, VerifyLoad(r, o) PROVE CodeInv'
  <2>1. CASE Become(r, [req[r] EXCEPT !.pc = "verify_check", !.prev = state[req[r].user]])
    <3>1. req[r].user \in Users
      BY <1>7 DEF VerifyLoad, RequestInv, GoodRequest
    <3>2. /\ req'[r].pc = "verify_check" /\ req'[r].prev = state[req[r].user]
          /\ \A x \in Requests : x # r => req'[x] = req[x]
      BY <2>1 DEF Become, TypeOK, Request
    <3>3. QED
      BY <1>7, <3>1, <3>2, CodeKept DEF VerifyLoad, Shelving
  <2>2. QED
    BY <1>1, <1>7, <2>1 DEF VerifyLoad
<1>8. ASSUME NEW r \in Requests, NEW o \in Outcomes, VerifyWrong(r, o) PROVE CodeInv'
  <2>1. /\ req[r].user \in Users /\ req[r].prev \in Stored
        /\ req[r].prev.kind = "AwaitingCode"
        /\ req[r].prev.failedAttempts < MAX_FAILED_ATTEMPTS
    BY <1>8 DEF VerifyWrong, RequestInv, GoodRequest, TypeOK, Request
  <2>2. CASE RedisUnchanged /\ UNCHANGED wrong
    BY <1>1, <1>8, <2>2 DEF VerifyWrong, RedisUnchanged
  <2>3. CASE state[req[r].user] = req[r].prev /\ Increment(req[r].user)
    <3> DEFINE c0 == req[r].prev.code
    <3>1. /\ c0 \in Codes /\ req[r].prev.failedAttempts \in Nat
          /\ HasCode(state[req[r].user], c0)
          /\ \A c \in Codes : HasCode(state[req[r].user], c) => c = c0
      BY <2>1, <2>3, StoredFields DEF HasCode
    <3>2. /\ \A c \in Codes : HasCode(state'[req[r].user], c) <=> c = c0
          /\ state'[req[r].user].failedAttempts = req[r].prev.failedAttempts + 1
          /\ \A v \in Users : v # req[r].user => state'[v] = state[v]
      BY <2>1, <2>3, IncrementAt, Holding
    <3>3. \A x \in Requests : req'[x] = req[x] \/ (req'[x].prev = Absent /\ ~Shelving(x)')
      BY <1>8, LeaveAt DEF VerifyWrong, Shelving
    <3>4. /\ wrong'[c0] \in {wrong[c0], wrong[c0] + 1}
          /\ \A c \in Codes : c # c0 => wrong'[c] = wrong[c]
      BY <1>8, <3>1 DEF VerifyWrong, TypeOK
    <3>5. /\ c0 \in issued /\ wrong[c0] <= req[r].prev.failedAttempts /\ wrong[c0] \in Nat
          /\ \A x \in Requests : ~ShelvesCode(x, c0)
          /\ \A v \in Users : v # req[r].user => ~HasCode(state[v], c0)
      BY <2>1, <2>3, <3>1 DEF CodeInv, TypeOK
    <3>6. /\ wrong'[c0] <= req[r].prev.failedAttempts + 1
          /\ req[r].prev.failedAttempts + 1 <= MAX_FAILED_ATTEMPTS
          /\ wrong'[c0] <= MAX_FAILED_ATTEMPTS
      BY <2>1, <3>1, <3>4, <3>5
    <3>7. issued' = issued
      BY <1>8 DEF VerifyWrong
    <3> HIDE DEF c0
    <3>8. ASSUME NEW c \in Codes, c # c0
          PROVE  /\ wrong'[c] = wrong[c]
                 /\ \A u \in Users : HasCode(state'[u], c) => HasCode(state[u], c) /\ state'[u] = state[u]
      BY <3>2, <3>4, <3>8
    <3>9. \A c \in Codes, x \in Requests : ShelvesCode(x, c)' => ShelvesCode(x, c) /\ req'[x] = req[x]
      BY <3>3 DEF ShelvesCode, Shelving
    <3>10. \A c \in Codes, x \in Requests : HasCode(req'[x].prev, c) => req'[x] = req[x]
      BY <3>3, Holding
    <3>11. QED
      BY <2>1, <3>1, <3>2, <3>5, <3>6, <3>7, <3>8, <3>9, <3>10 DEF CodeInv, Shelving, ShelvesCode
  <2>4. QED
    BY <1>8, <2>2, <2>3 DEF VerifyWrong, Runs
<1>9. ASSUME NEW r \in Requests, VerifyWrongLapsed(r) PROVE CodeInv'
  <2>1. \A u \in Users : state'[u] = state[u] \/ state'[u] = Absent
    BY <1>9 DEF VerifyWrongLapsed, TypeOK
  <2>2. QED
    BY <1>1, <1>9, <2>1, Holding DEF VerifyWrongLapsed
<1>10. ASSUME NEW r \in Requests, NEW o \in Outcomes, VerifyRight(r, o) PROVE CodeInv'
  <2>1. req[r].user \in Users
    BY <1>10 DEF VerifyRight, RequestInv, GoodRequest
  <2>2. \A u \in Users : state'[u] = state[u] \/ \A c \in Codes : ~HasCode(state'[u], c)
    BY <1>10, <2>1, SaveAt, Holding DEF VerifyRight, RedisUnchanged
  <2>3. QED
    BY <1>1, <1>10, <2>2 DEF VerifyRight
<1>11. ASSUME NEW r \in Requests, NEW k \in Keys, NEW o \in Outcomes, ResetPassword(r, k, o)
       PROVE  CodeInv'
  <2>1. \A u \in Users : state'[u] = state[u] \/ state'[u] = Absent
    BY <1>11 DEF ResetPassword, Consume, RedisUnchanged, TypeOK
  <2>2. CASE UNCHANGED req
    BY <1>1, <1>11, <2>1, <2>2, Holding DEF ResetPassword
  <2>3. CASE Become(r, Req("reset_find", index[k].user, Absent, NoCode, k,
                           state[index[k].user].expiresAt))
    <3>1. /\ req'[r].prev = Absent /\ ~Shelving(r)'
          /\ \A x \in Requests : x # r => req'[x] = req[x]
      BY <2>3, BecomeAt, ReqFields DEF Shelving
    <3>2. QED
      BY <1>11, <2>1, <3>1, CodeKept, Holding DEF ResetPassword, Shelving
  <2>4. QED
    BY <1>11, <2>2, <2>3 DEF ResetPassword
<1>12. ASSUME NEW r \in Requests, NEW pc \in ResetPC, Become(r, [req[r] EXCEPT !.pc = pc]),
              UNCHANGED <<state, issued, wrong>>
       PROVE  CodeInv'
  <2>1. \A x \in Requests : req'[x].prev = req[x].prev /\ (Shelving(x)' => Shelving(x))
    BY <1>12, MoveAt DEF Shelving, ResetPC
  <2>2. QED
    BY <1>12, <2>1, CodeKept
<1>13. ASSUME NEW r \in Requests, NEW o \in Outcomes, ResetFind(r, o) \/ ResetSet(r, o)
       PROVE  CodeInv'
  BY <1>1, <1>12, <1>13 DEF ResetFind, ResetSet, ResetPC
<1>14. ASSUME NEW r \in Requests, NEW o \in Outcomes, ResetRestore(r, o) PROVE CodeInv'
  <2>1. req[r].user \in Users
    BY <1>14 DEF ResetRestore, RequestInv, GoodRequest
  <2>2. \A u \in Users : state'[u] = state[u] \/ \A c \in Codes : ~HasCode(state'[u], c)
    BY <1>14, <2>1, SaveAt, Holding DEF ResetRestore, RedisUnchanged
  <2>3. QED
    BY <1>1, <1>14, <2>2 DEF ResetRestore
<1>15. ASSUME NEW r \in Requests, Abandon(r) PROVE CodeInv'
  BY <1>1, <1>15 DEF Abandon
<1>16. CASE Tick
  <2>1. \A u \in Users : state'[u] = state[u] \/ state'[u] = Absent
    BY <1>16 DEF Tick
  <2>2. QED
    BY <1>1, <1>16, <2>1, Holding DEF Tick
<1>17. CASE UNCHANGED <<state, req, issued, wrong>>
  BY <1>1, <1>17
<1>18. QED
  BY <1>2, <1>3, <1>4, <1>5, <1>6, <1>7, <1>8, <1>9, <1>10, <1>11, <1>13, <1>14,
     <1>15, <1>16, <1>17 DEF Next, Submit, Step, Proceed, DeleteAccount, vars

-----------------------------------------------------------------------------
(* IndexConsistent                                                         *)

LEMMA SaveIndex ==
  ASSUME TypeOK, IndexConsistent, NEW u \in Users, NEW s, NEW t, state[u] = s, Save(u, s, t),
         \A k \in Keys, v \in Users : HasKey(t, k) => ~HasKey(state[v], k)
  PROVE  IndexConsistent'
<1>1. /\ state'[u] = t
      /\ \A v \in Users : v # u => state'[v] = state[v]
  BY SaveAt
<1>2. ASSUME NEW k \in Keys, HasKey(t, k)
      PROVE  /\ index'[k].user = u /\ index'[k].expiresAt = t.expiresAt
             /\ \A v \in Users : HasKey(state'[v], k) => v = u
  BY <1>1, <1>2 DEF Save
<1>3. ASSUME NEW k \in Keys, ~HasKey(t, k), HasKey(s, k)
      PROVE  /\ index'[k] = NoEntry
             /\ \A v \in Users : ~HasKey(state'[v], k)
  BY <1>1, <1>3 DEF Save, IndexConsistent
<1>4. ASSUME NEW k \in Keys, ~HasKey(t, k), ~HasKey(s, k)
      PROVE  /\ index'[k] = index[k]
             /\ \A v \in Users : HasKey(state'[v], k) => HasKey(state[v], k)
             /\ \A v \in Users : HasKey(state[v], k) => state'[v] = state[v]
  BY <1>1, <1>4 DEF Save
<1>5. QED
  BY <1>1, <1>2, <1>3, <1>4 DEF IndexConsistent

(* The slots that change give up a code, if anything, and get no key.      *)
LEMMA CodesChange ==
  ASSUME IndexConsistent, index' = index,
         \A u \in Users : \/ state'[u] = state[u]
                          \/ \A k \in Keys : ~HasKey(state[u], k) /\ ~HasKey(state'[u], k)
  PROVE  IndexConsistent'
BY DEF IndexConsistent

LEMMA IndexStep == IInv /\ [Next]_vars => IndexConsistent'
<1> SUFFICES ASSUME IInv, [Next]_vars PROVE IndexConsistent'
  OBVIOUS
<1> USE ResetAssumption
<1> TypeOK /\ RequestInv /\ MintInv /\ KeyInv /\ ExpiryInv /\ IndexConsistent
  BY DEF IInv
<1>1. CASE UNCHANGED <<state, index>>
  BY <1>1 DEF IndexConsistent
<1>2. ASSUME NEW r \in Requests, NEW o \in Outcomes, ForgotSave(r, o) PROVE IndexConsistent'
  <2>1. req[r].user \in Users
    BY <1>2 DEF ForgotSave, RequestInv, GoodRequest
  <2>2. CASE /\ state[req[r].user] = req[r].prev
             /\ Save(req[r].user, req[r].prev, NextState(r))
    BY <2>1, <2>2, SaveIndex, Holding DEF NextState
  <2>3. QED
    BY <1>1, <1>2, <2>2 DEF ForgotSave, RedisUnchanged, CanSave
<1>3. ASSUME NEW r \in Requests, NEW o \in Outcomes, ForgotRollback(r, o) PROVE IndexConsistent'
  <2>1. req[r].user \in Users
    BY <1>3 DEF ForgotRollback, ForgotPC, RequestInv, GoodRequest
  <2>2. CASE state[req[r].user] = NextState(r) /\ Clear(req[r].user, NextState(r))
    <3>1. \A k \in Keys : ~HasKey(NextState(r), k)
      BY Holding DEF NextState
    <3>2. index' = index
      BY <2>2, <3>1 DEF Clear, TypeOK
    <3>3. QED
      BY <2>1, <2>2, <3>1, <3>2, ClearAt, CodesChange, Holding
  <2>3. CASE /\ state[req[r].user] = NextState(r)
             /\ Save(req[r].user, NextState(r), req[r].prev)
    <3>1. \A k \in Keys, v \in Users : HasKey(req[r].prev, k) => ~HasKey(state[v], k)
      BY <1>3 DEF ForgotRollback, KeyInv, HoldsKey, Shelving
    <3>2. QED
      BY <2>1, <2>3, <3>1, SaveIndex
  <2>4. QED
    BY <1>1, <1>3, <2>2, <2>3 DEF ForgotRollback, RedisUnchanged
<1>4. ASSUME NEW r \in Requests, NEW o \in Outcomes, VerifyWrong(r, o) PROVE IndexConsistent'
  <2>1. req[r].user \in Users /\ req[r].prev.kind = "AwaitingCode"
    BY <1>4 DEF VerifyWrong, RequestInv, GoodRequest
  <2>2. CASE state[req[r].user] = req[r].prev /\ Increment(req[r].user)
    <3>1. \A k \in Keys : /\ ~HasKey(state[req[r].user], k)
                          /\ ~HasKey(state'[req[r].user], k)
      BY <2>1, <2>2, IncrementAt, Holding DEF HasKey
    <3>2. index' = index
      BY <2>2 DEF Increment
    <3>3. QED
      BY <2>1, <2>2, <3>1, <3>2, IncrementAt, CodesChange
  <2>3. QED
    BY <1>1, <1>4, <2>2 DEF VerifyWrong, RedisUnchanged
<1>5. ASSUME NEW r \in Requests, VerifyWrongLapsed(r) PROVE IndexConsistent'
  <2>1. req[r].user \in Users /\ req[r].prev.kind = "AwaitingCode"
    BY <1>5 DEF VerifyWrongLapsed, RequestInv, GoodRequest
  <2>2. \A k \in Keys : ~HasKey(state[req[r].user], k)
    BY <1>5, <2>1 DEF VerifyWrongLapsed, HasKey
  <2>3. \A u \in Users : \/ state'[u] = state[u]
                         \/ u = req[r].user /\ state'[u] = Absent
    BY <1>5 DEF VerifyWrongLapsed, TypeOK
  <2>4. index' = index
    BY <1>5 DEF VerifyWrongLapsed
  <2>5. QED
    BY <2>2, <2>3, <2>4, CodesChange, Holding
<1>6. ASSUME NEW r \in Requests, NEW o \in Outcomes, VerifyRight(r, o) PROVE IndexConsistent'
  <2>1. req[r].user \in Users
    BY <1>6 DEF VerifyRight, RequestInv, GoodRequest
  <2>2. ASSUME NEW k \in Keys, minted[k] = NoMint, state[req[r].user] = req[r].prev,
               Save(req[r].user, req[r].prev, AwaitingPassword(k, now + KEY_EXPIRES))
        PROVE  IndexConsistent'
    <3>1. \A v \in Users : ~HasKey(state[v], k)
      BY <2>2, UnmintedKey
    <3>2. QED
      BY <2>1, <2>2, <3>1, SaveIndex, Holding
  <2>3. QED
    BY <1>1, <1>6, <2>2 DEF VerifyRight, RedisUnchanged
<1>7. ASSUME NEW r \in Requests, NEW k \in Keys, NEW o \in Outcomes, ResetPassword(r, k, o)
      PROVE  IndexConsistent'
  <2>1. CASE Consume(k) /\ Consumable(k)
    <3>1. /\ state'[index[k].user] = Absent /\ index[k].user \in Users
          /\ \A v \in Users : v # index[k].user => state'[v] = state[v]
          /\ HasKey(state[index[k].user], k)
      BY <2>1 DEF Consume, Consumable, IndexConsistent, TypeOK
    <3>2. /\ index'[k] = NoEntry
          /\ \A j \in Keys : j # k => index'[j] = index[j]
      BY <2>1 DEF Consume, TypeOK
    <3>3. \A j \in Keys : HasKey(state[index[k].user], j) => j = k
      BY <3>1 DEF HasKey
    <3>4. \A v \in Users : HasKey(state[v], k) => v = index[k].user
      BY DEF IndexConsistent
    <3>5. QED
      BY <3>1, <3>2, <3>3, <3>4, Holding DEF IndexConsistent
  <2>2. CASE Consume(k) /\ ~Consumable(k)
    <3>1. \A v \in Users : ~HasKey(state[v], k)
      BY <2>2 DEF Consumable, IndexConsistent, NoEntry
    <3>2. state' = state /\ index'[k] = NoEntry /\ \A j \in Keys : j # k => index'[j] = index[j]
      BY <2>2 DEF Consume, TypeOK
    <3>3. QED
      BY <3>1, <3>2 DEF IndexConsistent
  <2>3. QED
    BY <1>1, <1>7, <2>1, <2>2 DEF ResetPassword, RedisUnchanged
<1>8. ASSUME NEW r \in Requests, NEW o \in Outcomes, ResetRestore(r, o) PROVE IndexConsistent'
  <2>1. req[r].user \in Users /\ HoldsKey(r, req[r].key) /\ req[r].key \in Keys
    BY <1>8 DEF ResetRestore, RequestInv, GoodRequest, ResetPC, HoldsKey
  <2>2. CASE /\ state[req[r].user] = Absent
             /\ Save(req[r].user, Absent, AwaitingPassword(req[r].key, req[r].at))
    <3>1. \A v \in Users : ~HasKey(state[v], req[r].key)
      BY <2>1 DEF KeyInv
    <3>2. QED
      BY <2>1, <2>2, <3>1, SaveIndex, Holding
  <2>3. QED
    BY <1>1, <1>8, <2>2 DEF ResetRestore, RedisUnchanged, CanSave
<1>9. CASE Tick
  <2>1. ASSUME NEW k \in Keys, NEW u \in Users, HasKey(state[u], k)
        PROVE  /\ index[k].user = u /\ index[k] # NoEntry
               /\ index[k].expiresAt = state[u].expiresAt
               /\ state[u] # Absent /\ ~MayLinger(u, now + 1)
               /\ ExpiresAt(state[u]) = state[u].expiresAt
    BY <2>1, Holding DEF IndexConsistent, NoEntry, HasKey, MayLinger, ExpiresAt
  <2>2. \A u \in Users : state'[u] = state[u] \/ state'[u] = Absent
    BY <1>9 DEF Tick
  <2>3. ASSUME NEW k \in Keys, NEW u \in Users, HasKey(state[u], k)
        PROVE  state'[u] = IF state[u].expiresAt <= now + 1 THEN Absent ELSE state[u]
    BY <1>9, <2>1, <2>3 DEF Tick
  <2>4. \A k \in Keys : index'[k] = IF index[k].expiresAt <= now + 1 THEN NoEntry ELSE index[k]
    BY <1>9 DEF Tick
  <2>5. ASSUME NEW k \in Keys, index'[k] # NoEntry
        PROVE  /\ index[k] # NoEntry /\ index'[k] = index[k]
               /\ state'[index[k].user] = state[index[k].user]
    BY <2>3, <2>4, <2>5 DEF IndexConsistent
  <2>6. ASSUME NEW k \in Keys, NEW u \in Users, HasKey(state'[u], k)
        PROVE  index'[k] = index[k] /\ state'[u] = state[u]
    BY <2>1, <2>2, <2>3, <2>4, <2>6, Holding
  <2>7. QED
    BY <2>5, <2>6 DEF IndexConsistent
<1>10. QED
  BY <1>1, <1>2, <1>3, <1>4, <1>5, <1>6, <1>7, <1>8, <1>9
     DEF Next, Submit, Step, Proceed, ForgotPassword, ForgotPush, VerifyResetCode, VerifyLoad,
         ResetFind, ResetSet, Abandon, DeleteAccount, vars

-----------------------------------------------------------------------------
(* The theorems.                                                           *)

LEMMA InvInit == Init => IInv
<1> SUFFICES ASSUME Init PROVE IInv
  OBVIOUS
<1> USE ResetAssumption
<1>1. TypeOK
  BY TypeInit
<1>2. RequestInv
  BY IdleGood DEF Init, RequestInv
<1>3. /\ \A u \in Users : state[u] = Absent /\ password[u] = NoKey
      /\ \A k \in Keys : index[k] = NoEntry /\ granted[k] = 0 /\ k # NoKey
      /\ \A c \in Codes : wrong[c] = 0
      /\ \A r \in Requests : req[r].prev = Absent /\ req[r].pc = "idle"
      /\ issued = {}
  BY ReqFields DEF Init
<1>4. MintInv /\ KeyInv /\ IndexConsistent
  BY <1>3, Holding DEF MintInv, KeyInv, IndexConsistent, HoldsKey, Shelving, ResetPC
<1>5. ExpiryInv /\ FreshInv
  BY <1>3 DEF ExpiryInv, FreshInv, ForgotPC, Absent
<1>6. CodeInv
  BY <1>3, Holding DEF CodeInv, ShelvesCode, Shelving
<1>7. QED
  BY <1>1, <1>2, <1>4, <1>5, <1>6 DEF IInv

LEMMA InvStep == IInv /\ [Next]_vars => IInv'
BY TypeStep, GoodStep, MintStep, KeyStep, ExpiryStep, CodeStep, FreshStep, IndexStep DEF IInv

(* The inductive invariant holds throughout: with every interleaving,      *)
(* failed call, lost reply and dropped handler, codes and keys are never   *)
(* in two places.                                                          *)
THEOREM Invariance == Spec => []IInv
BY InvInit, InvStep, PTL DEF Spec

(* Every variable keeps its type.                                          *)
THEOREM TypeCorrect == Spec => []TypeOK
<1>1. IInv => TypeOK
  BY DEF IInv
<1>2. QED
  BY <1>1, Invariance, PTL

(* The two Redis keys of a reset key never disagree.                       *)
THEOREM IndexCorrect == Spec => []IndexConsistent
<1>1. IInv => IndexConsistent
  BY DEF IInv
<1>2. QED
  BY <1>1, Invariance, PTL

(* For any number of requests, no more than MAX_FAILED_ATTEMPTS guesses    *)
(* are ever answered for one code.                                         *)
THEOREM GuessLimit == Spec => []GuessesBounded
<1>1. IInv => GuessesBounded
  BY DEF IInv, CodeInv, GuessesBounded
<1>2. QED
  BY <1>1, Invariance, PTL

(* No reset key is redeemed twice.                                         *)
THEOREM KeyOnce == Spec => []KeyRedeemedOnce
<1>1. IInv => KeyRedeemedOnce
  BY DEF IInv, KeyInv, KeyRedeemedOnce
<1>2. QED
  BY <1>1, Invariance, PTL

(* No reset key sets the password of another user than it was made for.    *)
THEOREM OwnKey == Spec => []PasswordFromOwnKey
<1>1. IInv => PasswordFromOwnKey
  BY DEF IInv, TypeOK, MintInv, PasswordFromOwnKey
<1>2. QED
  BY <1>1, Invariance, PTL

-----------------------------------------------------------------------------
(* The action properties.                                                  *)

LEMMA KeyTimeStep ==
  ASSUME IInv, [Next]_vars, NEW r \in Requests,
         req[r].pc = "idle", req'[r].pc = "reset_find"
  PROVE  now < minted[req'[r].key].at + KEY_EXPIRES
<1> TypeOK /\ MintInv /\ ExpiryInv /\ IndexConsistent
  BY DEF IInv
<1>1. ASSUME NEW q \in Requests, Reload(q) \/ Respond(q) PROVE FALSE
  BY <1>1, LeaveAt
<1>2. ASSUME NEW q \in Requests, req[q].pc # "idle",
             NEW pc \in {"forgot_push", "forgot_rollback", "reset_set", "reset_restore"},
             Become(q, [req[q] EXCEPT !.pc = pc])
      PROVE  FALSE
  BY <1>2, MoveAt
<1>3. ASSUME NEW q \in Requests, NEW u \in Users, ForgotPassword(q, u) PROVE FALSE
  BY <1>3, BecomeAt, ReqFields DEF ForgotPassword
<1>4. ASSUME NEW q \in Requests, NEW u \in Users, NEW c \in issued \union {NoCode},
             VerifyResetCode(q, u, c)
      PROVE  FALSE
  BY <1>4, BecomeAt, ReqFields DEF VerifyResetCode
<1>5. ASSUME NEW q \in Requests, NEW o \in Outcomes, VerifyLoad(q, o) PROVE FALSE
  <2>1. CASE Become(q, [req[q] EXCEPT !.pc = "verify_check", !.prev = state[req[q].user]])
    <3>1. /\ req'[q].pc = "verify_check"
          /\ \A x \in Requests : x # q => req'[x] = req[x]
      BY <2>1 DEF Become, TypeOK, Request
    <3>2. QED
      BY <3>1
  <2>2. QED
    BY <1>1, <1>5, <2>1 DEF VerifyLoad
<1>6. ASSUME NEW q \in Requests, NEW k \in Keys, NEW o \in Outcomes, ResetPassword(q, k, o)
      PROVE  now < minted[req'[r].key].at + KEY_EXPIRES
  <2>1. /\ Consumable(k)
        /\ Become(q, Req("reset_find", index[k].user, Absent, NoCode, k,
                         state[index[k].user].expiresAt))
    BY <1>6 DEF ResetPassword
  <2>2. q = r /\ req'[r].key = k
    BY <2>1, BecomeAt, ReqFields
  <2>3. /\ index[k].user \in Users /\ HasKey(state[index[k].user], k)
        /\ state[index[k].user].expiresAt = minted[k].at + KEY_EXPIRES
    BY <2>1 DEF Consumable, IndexConsistent, MintInv
  <2>4. QED
    BY <1>6, <2>2, <2>3 DEF ExpiryInv, HasKey, ResetPassword
<1>7. ASSUME UNCHANGED req PROVE FALSE
  BY <1>7
<1>8. ASSUME NEW q \in Requests, NEW o \in Outcomes,
             ForgotSave(q, o) \/ ForgotPush(q, o) \/ ResetFind(q, o) \/ ResetSet(q, o)
      PROVE  FALSE
  BY <1>1, <1>2, <1>8 DEF ForgotSave, ForgotPush, ResetFind, ResetSet
<1>9. QED
  BY <1>1, <1>3, <1>4, <1>5, <1>6, <1>7, <1>8
     DEF Next, Submit, Step, Proceed, ForgotRollback, VerifyWrong, VerifyWrongLapsed,
         VerifyRight, ResetRestore, Abandon, DeleteAccount, Tick, vars

(* No reset key is consumed KEY_EXPIRES or more after it was made.         *)
THEOREM KeyInTime == Spec => KeyConsumedInTime
<1>1. IInv /\ [Next]_vars =>
        [\A r \in Requests :
           req[r].pc = "idle" /\ req'[r].pc = "reset_find"
             => now < minted[req'[r].key].at + KEY_EXPIRES]_vars
  BY KeyTimeStep
<1>2. QED
  BY <1>1, Invariance, PTL DEF Spec, KeyConsumedInTime

LEMMA CooldownStep ==
  ASSUME IInv, [Next]_vars, NEW u \in Users, NEW c \in Codes, NEW d \in Codes,
         HasCode(state[u], c), HasCode(state'[u], d), c # d
  PROVE  \/ state'[u].sentAt - state[u].sentAt >= RESEND_COOLDOWN
         \/ state[u].sentAt - state'[u].sentAt >= RESEND_COOLDOWN
<1> TypeOK /\ RequestInv
  BY DEF IInv
<1>1. state'[u] # state[u] /\ state'[u] # Absent
  BY Holding DEF HasCode
<1>2. ASSUME NEW r \in Requests, NEW o \in Outcomes, ForgotSave(r, o)
      PROVE  state'[u].sentAt - state[u].sentAt >= RESEND_COOLDOWN
  <2>1. /\ req[r].user \in Users
        /\ req[r].prev.kind = "AwaitingCode" =>
             req[r].at - req[r].prev.sentAt >= RESEND_COOLDOWN
    BY <1>2 DEF ForgotSave, ForgotPC, RequestInv, GoodRequest
  <2>2. /\ state[req[r].user] = req[r].prev
        /\ Save(req[r].user, req[r].prev, NextState(r))
    BY <1>1, <1>2 DEF ForgotSave, RedisUnchanged, CanSave
  <2>3. u = req[r].user /\ state'[u] = NextState(r)
    BY <1>1, <2>1, <2>2, SaveAt
  <2>4. QED
    BY <2>1, <2>2, <2>3, Holding DEF NextState, HasCode
<1>3. ASSUME NEW r \in Requests, NEW o \in Outcomes, ForgotRollback(r, o)
      PROVE  state[u].sentAt - state'[u].sentAt >= RESEND_COOLDOWN
  <2>1. /\ req[r].user \in Users
        /\ req[r].prev.kind = "AwaitingCode" =>
             req[r].at - req[r].prev.sentAt >= RESEND_COOLDOWN
    BY <1>3 DEF ForgotRollback, ForgotPC, RequestInv, GoodRequest
  <2>2. /\ state[req[r].user] = NextState(r)
        /\ u = req[r].user /\ state'[u] = req[r].prev
    BY <1>1, <1>3, <2>1, SaveAt, ClearAt DEF ForgotRollback, RedisUnchanged
  <2>3. QED
    BY <2>1, <2>2, Holding DEF NextState, HasCode
<1>4. ASSUME NEW r \in Requests, NEW o \in Outcomes, VerifyWrong(r, o) PROVE FALSE
  <2>1. req[r].user \in Users
    BY <1>4 DEF VerifyWrong, RequestInv, GoodRequest
  <2>2. Increment(req[r].user)
    BY <1>1, <1>4 DEF VerifyWrong, RedisUnchanged
  <2>3. QED
    BY <1>1, <2>1, <2>2, IncrementAt, Holding DEF HasCode
<1>5. ASSUME NEW r \in Requests, VerifyWrongLapsed(r) PROVE FALSE
  BY <1>1, <1>5 DEF VerifyWrongLapsed, TypeOK
<1>6. ASSUME NEW r \in Requests, NEW o \in Outcomes, VerifyRight(r, o) PROVE FALSE
  <2>1. req[r].user \in Users
    BY <1>6 DEF VerifyRight, RequestInv, GoodRequest
  <2>2. \E k \in Keys : state'[u] = AwaitingPassword(k, now + KEY_EXPIRES)
    BY <1>1, <1>6, <2>1, SaveAt DEF VerifyRight, RedisUnchanged
  <2>3. QED
    BY <2>2, Holding
<1>7. ASSUME NEW r \in Requests, NEW k \in Keys, NEW o \in Outcomes, ResetPassword(r, k, o)
      PROVE  FALSE
  BY <1>1, <1>7 DEF ResetPassword, Consume, RedisUnchanged, TypeOK
<1>8. ASSUME NEW r \in Requests, NEW o \in Outcomes, ResetRestore(r, o) PROVE FALSE
  <2>1. req[r].user \in Users
    BY <1>8 DEF ResetRestore, RequestInv, GoodRequest
  <2>2. state'[u] = AwaitingPassword(req[r].key, req[r].at)
    BY <1>1, <1>8, <2>1, SaveAt DEF ResetRestore, RedisUnchanged
  <2>3. QED
    BY <2>2, Holding
<1>9. ASSUME Tick PROVE FALSE
  BY <1>1, <1>9 DEF Tick
<1>10. ASSUME UNCHANGED state PROVE FALSE
  BY <1>1, <1>10
<1>11. QED
  BY <1>2, <1>3, <1>4, <1>5, <1>6, <1>7, <1>8, <1>9, <1>10
     DEF Next, Submit, Step, Proceed, ForgotPassword, ForgotPush, VerifyResetCode, VerifyLoad,
         ResetFind, ResetSet, Abandon, DeleteAccount, vars

(* No interleaving of requests and rollbacks swaps codes within the resend *)
(* cooldown.                                                               *)
THEOREM Cooldown == Spec => CooldownRespected
<1>1. IInv /\ [Next]_vars =>
        [\A u \in Users : \A c, d \in Codes :
           (HasCode(state[u], c) /\ HasCode(state'[u], d) /\ c # d)
             => \/ state'[u].sentAt - state[u].sentAt >= RESEND_COOLDOWN
                \/ state[u].sentAt - state'[u].sentAt >= RESEND_COOLDOWN]_vars
  BY CooldownStep
<1>2. QED
  BY <1>1, Invariance, PTL DEF Spec, CooldownRespected

-----------------------------------------------------------------------------
(* The count of guesses, when no reply is lost.                            *)

LEMMA CountKept ==
  ASSUME CountInv, wrong' = wrong,
         \A u \in Users, c \in Codes : HasCode(state'[u], c) => state'[u] = state[u],
         \A r \in Requests : Shelving(r)' => Shelving(r) /\ req'[r].prev = req[r].prev
  PROVE  CountInv'
BY DEF CountInv, ShelvesCode

LEMMA CountStep ==
  ASSUME "lost" \notin Outcomes, IInv, CountInv, [Next]_vars
  PROVE  CountInv'
<1> TypeOK /\ RequestInv /\ CodeInv /\ FreshInv /\ IndexConsistent
  BY DEF IInv
<1>1. ASSUME NEW r \in Requests, ~Shelving(r)',
             \A x \in Requests : x # r => req'[x] = req[x],
             UNCHANGED wrong, UNCHANGED state
      PROVE  CountInv'
  BY <1>1, CountKept DEF Shelving
<1>2. ASSUME UNCHANGED wrong,
             \A u \in Users : state'[u] = state[u] \/ \A c \in Codes : ~HasCode(state'[u], c),
             UNCHANGED req \/ \E r \in Requests : Reload(r) \/ Respond(r)
      PROVE  CountInv'
  <2>1. \A x \in Requests : req'[x] = req[x] \/ ~Shelving(x)'
    BY <1>2, LeaveAt DEF Shelving
  <2>2. QED
    BY <1>2, <2>1, CountKept DEF Shelving
<1>3. ASSUME NEW r \in Requests, NEW u \in Users, ForgotPassword(r, u) PROVE CountInv'
  BY <1>1, <1>3, BecomeAt, ReqFields DEF ForgotPassword, Shelving
<1>4. ASSUME NEW r \in Requests, NEW o \in Outcomes, ForgotSave(r, o) PROVE CountInv'
  <2>1. /\ req[r].user \in Users /\ req[r].code \in Codes
        /\ req[r].code \notin issued
    BY <1>4 DEF ForgotSave, ForgotPC, RequestInv, GoodRequest, FreshInv
  <2>2. CASE RedisUnchanged /\ Respond(r)
    BY <1>2, <1>4, <2>2 DEF ForgotSave, RedisUnchanged
  <2>3. CASE /\ state[req[r].user] = req[r].prev
             /\ Save(req[r].user, req[r].prev, NextState(r))
    <3>1. /\ \A c \in Codes : HasCode(state'[req[r].user], c) <=> c = req[r].code
          /\ state'[req[r].user].failedAttempts = 0
          /\ \A v \in Users : v # req[r].user => state'[v] = state[v]
      BY <2>1, <2>3, SaveAt, Holding DEF NextState
    <3>2. Shelving(r)' => req'[r].prev = state[req[r].user]
      BY <1>4, <2>3, LeaveAt, MoveAt DEF ForgotSave, Shelving
    <3>3. \A x \in Requests : x # r => req'[x] = req[x]
      BY <1>4, LeaveAt, MoveAt DEF ForgotSave
    <3>4. wrong' = wrong /\ wrong[req[r].code] = 0
      BY <1>4, <2>1 DEF ForgotSave, CodeInv
    <3>5. QED
      BY <2>1, <3>1, <3>2, <3>3, <3>4 DEF CountInv, ShelvesCode, Shelving
  <2>4. QED
    BY <1>4, <2>2, <2>3 DEF ForgotSave, CanSave, Runs
<1>5. ASSUME NEW r \in Requests, NEW o \in Outcomes, ForgotPush(r, o) PROVE CountInv'
  <2>1. CASE Become(r, [req[r] EXCEPT !.pc = "forgot_rollback"])
    BY <1>5, <2>1, MoveAt, CountKept DEF ForgotPush, Shelving
  <2>2. QED
    BY <1>2, <1>5, <2>1 DEF ForgotPush
<1>6. ASSUME NEW r \in Requests, NEW o \in Outcomes, ForgotRollback(r, o) PROVE CountInv'
  <2>1. req[r].user \in Users /\ Shelving(r)
    BY <1>6 DEF ForgotRollback, ForgotPC, RequestInv, GoodRequest, Shelving
  <2>2. \A u \in Users : \/ state'[u] = state[u]
                         \/ state'[u] = Absent
                         \/ state'[u] = req[r].prev
    BY <1>6, <2>1, SaveAt, ClearAt DEF ForgotRollback, RedisUnchanged
  <2>3. ~Shelving(r)' /\ \A x \in Requests : x # r => req'[x] = req[x]
    BY <1>6, LeaveAt DEF ForgotRollback, Shelving
  <2>4. wrong' = wrong
    BY <1>6 DEF ForgotRollback
  <2>5. QED
    BY <2>1, <2>2, <2>3, <2>4, Holding DEF CountInv, ShelvesCode, Shelving
<1>7. ASSUME NEW r \in Requests, NEW u \in Users, NEW c \in issued \union {NoCode},
             VerifyResetCode(r, u, c)
      PROVE  CountInv'
  BY <1>1, <1>7, BecomeAt, ReqFields DEF VerifyResetCode, Shelving
<1>8. ASSUME NEW r \in Requests, NEW o \in Outcomes, VerifyLoad(r, o) PROVE CountInv'
  <2>1. CASE Become(r, [req[r] EXCEPT !.pc = "verify_check", !.prev = state[req[r].user]])
    <3>1. ~Shelving(r)' /\ \A x \in Requests : x # r => req'[x] = req[x]
      BY <2>1 DEF Become, TypeOK, Request, Shelving
    <3>2. QED
      BY <1>1, <1>8, <3>1 DEF VerifyLoad
  <2>2. QED
    BY <1>2, <1>8, <2>1 DEF VerifyLoad
<1>9. ASSUME NEW r \in Requests, NEW o \in Outcomes, VerifyWrong(r, o) PROVE CountInv'
  <2>1. /\ req[r].user \in Users /\ req[r].prev \in Stored
        /\ req[r].prev.kind = "AwaitingCode"
    BY <1>9 DEF VerifyWrong, RequestInv, GoodRequest, TypeOK, Request
  <2>2. CASE RedisUnchanged /\ UNCHANGED wrong
    BY <1>2, <1>9, <2>2 DEF VerifyWrong, RedisUnchanged
  <2>3. CASE /\ state[req[r].user] = req[r].prev /\ Increment(req[r].user)
             /\ wrong' = [wrong EXCEPT ![req[r].prev.code] = @ + 1]
    <3> DEFINE c0 == req[r].prev.code
    <3>1. /\ c0 \in Codes /\ req[r].prev.failedAttempts \in Nat
          /\ HasCode(state[req[r].user], c0)
      BY <2>1, <2>3, StoredFields DEF HasCode
    <3>2. /\ \A c \in Codes : HasCode(state'[req[r].user], c) <=> c = c0
          /\ state'[req[r].user].failedAttempts = req[r].prev.failedAttempts + 1
          /\ \A v \in Users : v # req[r].user => state'[v] = state[v]
      BY <2>1, <2>3, IncrementAt, Holding
    <3>3. \A x \in Requests : req'[x] = req[x] \/ ~Shelving(x)'
      BY <1>9, LeaveAt DEF VerifyWrong, Shelving
    <3>4. /\ wrong'[c0] = req[r].prev.failedAttempts + 1
          /\ \A c \in Codes : c # c0 => wrong'[c] = wrong[c]
      BY <2>1, <2>3, <3>1 DEF CountInv, TypeOK
    <3>5. /\ \A x \in Requests : ~ShelvesCode(x, c0)
          /\ \A v \in Users : v # req[r].user => ~HasCode(state[v], c0)
      BY <2>1, <3>1 DEF CodeInv
    <3> HIDE DEF c0
    <3>6. \A c \in Codes, x \in Requests : ShelvesCode(x, c)' => ShelvesCode(x, c) /\ req'[x] = req[x]
      BY <3>3 DEF ShelvesCode, Shelving
    <3>7. QED
      BY <2>1, <3>1, <3>2, <3>4, <3>5, <3>6 DEF CountInv
  <2>4. QED
    BY <1>9, <2>2, <2>3, ResetAssumption DEF VerifyWrong, Runs
<1>10. ASSUME NEW r \in Requests, VerifyWrongLapsed(r) PROVE CountInv'
  <2>1. \A u \in Users : state'[u] = state[u] \/ state'[u] = Absent
    BY <1>10 DEF VerifyWrongLapsed, TypeOK
  <2>2. QED
    BY <1>2, <1>10, <2>1, Holding DEF VerifyWrongLapsed
<1>11. ASSUME NEW r \in Requests, NEW o \in Outcomes, VerifyRight(r, o) PROVE CountInv'
  <2>1. req[r].user \in Users
    BY <1>11 DEF VerifyRight, RequestInv, GoodRequest
  <2>2. \A u \in Users : state'[u] = state[u] \/ \A c \in Codes : ~HasCode(state'[u], c)
    BY <1>11, <2>1, SaveAt, Holding DEF VerifyRight, RedisUnchanged
  <2>3. QED
    BY <1>2, <1>11, <2>2 DEF VerifyRight
<1>12. ASSUME NEW r \in Requests, NEW k \in Keys, NEW o \in Outcomes, ResetPassword(r, k, o)
       PROVE  CountInv'
  <2>1. \A u \in Users : state'[u] = state[u] \/ state'[u] = Absent
    BY <1>12 DEF ResetPassword, Consume, RedisUnchanged, TypeOK
  <2>2. UNCHANGED req \/ (~Shelving(r)' /\ \A x \in Requests : x # r => req'[x] = req[x])
    BY <1>12, BecomeAt, ReqFields DEF ResetPassword, Shelving
  <2>3. QED
    BY <1>12, <2>1, <2>2, Holding, CountKept DEF ResetPassword, Shelving
<1>13. ASSUME NEW r \in Requests, NEW o \in Outcomes, ResetFind(r, o) \/ ResetSet(r, o)
       PROVE  CountInv'
  <2>1. ~Shelving(r)' /\ \A x \in Requests : x # r => req'[x] = req[x]
    BY <1>13, LeaveAt, MoveAt DEF ResetFind, ResetSet, Shelving
  <2>2. QED
    BY <1>1, <1>13, <2>1 DEF ResetFind, ResetSet
<1>14. ASSUME NEW r \in Requests, NEW o \in Outcomes, ResetRestore(r, o) PROVE CountInv'
  <2>1. req[r].user \in Users
    BY <1>14 DEF ResetRestore, RequestInv, GoodRequest, ResetPC
  <2>2. \A u \in Users : state'[u] = state[u] \/ \A c \in Codes : ~HasCode(state'[u], c)
    BY <1>14, <2>1, SaveAt, Holding DEF ResetRestore, RedisUnchanged
  <2>3. QED
    BY <1>2, <1>14, <2>2 DEF ResetRestore
<1>15. ASSUME NEW r \in Requests, Abandon(r) PROVE CountInv'
  BY <1>2, <1>15 DEF Abandon
<1>16. CASE Tick
  <2>1. \A u \in Users : state'[u] = state[u] \/ state'[u] = Absent
    BY <1>16 DEF Tick
  <2>2. QED
    BY <1>2, <1>16, <2>1, Holding DEF Tick
<1>17. ASSUME UNCHANGED <<state, req, wrong>> PROVE CountInv'
  BY <1>2, <1>17
<1>18. QED
  BY <1>3, <1>4, <1>5, <1>6, <1>7, <1>8, <1>9, <1>10, <1>11, <1>12, <1>13, <1>14,
     <1>15, <1>16, <1>17 DEF Next, Submit, Step, Proceed, DeleteAccount, vars

(* With no reply lost, every answered guess is counted, and once: however  *)
(* many verifications race, and through every rollback.                    *)
THEOREM GuessesCounted ==
  ASSUME "lost" \notin Outcomes
  PROVE  Spec => []EachGuessCounted
<1>1. Init => CountInv
  BY ReqFields, Holding DEF Init, CountInv, ShelvesCode, Shelving
<1>2. IInv /\ CountInv /\ [Next]_vars => CountInv'
  BY CountStep
<1>3. CountInv => EachGuessCounted
  BY DEF CountInv, EachGuessCounted
<1>4. QED
  BY <1>1, <1>2, <1>3, Invariance, PTL DEF Spec

-----------------------------------------------------------------------------
(* The refinement of ResetSlot: where an operation leaves the parts of the *)
(* slot specification.                                                     *)

LEMMA ContentsIs ==
  /\ Contents(Absent) = Slot!Empty
  /\ \A c, t, n : Contents(AwaitingCode(c, t, n)) = Slot!Code(c, n)
  /\ \A k, e : Contents(AwaitingPassword(k, e)) = Slot!Key(k)
BY DEF Contents, Absent, AwaitingCode, AwaitingPassword, Slot!Empty, Slot!Code, Slot!Key

LEMMA ContentsShelved == \A s \in Stored : Contents(s) # Slot!NotShelved
<1> SUFFICES ASSUME NEW s \in Stored PROVE Contents(s) # Slot!NotShelved
  OBVIOUS
<1>1. s.kind \in {"Absent", "AwaitingCode", "AwaitingPassword"}
  BY StoredFields
<1>2. QED
  BY <1>1 DEF Contents, Slot!NotShelved

LEMMA SlotsSame == ASSUME UNCHANGED state PROVE UNCHANGED Slots
BY DEF Slots

LEMMA SlotsAt ==
  ASSUME NEW u \in Users, \A v \in Users : v # u => state'[v] = state[v]
  PROVE  Slots' = [Slots EXCEPT ![u] = Contents(state'[u])]
BY DEF Slots

(* A code on the shelf is superseded by one request only.                  *)
LEMMA OneSuperseding ==
  ASSUME FreshInv, NEW r \in Requests, Shelving(r)
  PROVE  Superseding(req[r].code) = {r}
BY DEF FreshInv, Superseding, Shelving, ForgotPC

LEMMA ShelfIs ==
  ASSUME FreshInv, NEW c \in Codes
  PROVE  /\ \A r \in Requests :
              Shelving(r) /\ req[r].code = c => Shelves[c] = Contents(req[r].prev)
         /\ (\A r \in Requests : ~(Shelving(r) /\ req[r].code = c))
              => Shelves[c] = Slot!NotShelved
<1>1. ASSUME NEW r \in Requests, Shelving(r), req[r].code = c
      PROVE  Shelves[c] = Contents(req[r].prev)
  <2>1. Superseding(c) = {r}
    BY <1>1, OneSuperseding
  <2>2. (CHOOSE q \in Superseding(c) : TRUE) = r
    BY <2>1
  <2>3. QED
    BY <2>1, <2>2 DEF Shelves
<1>2. ASSUME \A r \in Requests : ~(Shelving(r) /\ req[r].code = c)
      PROVE  Shelves[c] = Slot!NotShelved
  BY <1>2 DEF Shelves, Superseding, Slot!NotShelved
<1>3. QED
  BY <1>1, <1>2

LEMMA NextOneSuperseding ==
  ASSUME FreshInv', NEW r \in Requests, NEW c, Shelving(r)', req'[r].code = c
  PROVE  Superseding(c)' = {r}
BY DEF FreshInv, Superseding, Shelving, ForgotPC

LEMMA NextShelfIs ==
  ASSUME FreshInv', NEW c \in Codes
  PROVE  /\ \A r \in Requests :
              Shelving(r)' /\ req'[r].code = c => Shelves'[c] = Contents(req'[r].prev)
         /\ (\A r \in Requests : ~(Shelving(r)' /\ req'[r].code = c))
              => Shelves'[c] = Slot!NotShelved
<1>1. ASSUME NEW r \in Requests, Shelving(r)', req'[r].code = c
      PROVE  Shelves'[c] = Contents(req'[r].prev)
  <2>1. Superseding(c)' = {r}
    BY <1>1, NextOneSuperseding
  <2>2. (CHOOSE q \in Superseding(c)' : TRUE) = r
    BY <2>1
  <2>3. QED
    BY <2>1, <2>2 DEF Shelves
<1>2. ASSUME \A r \in Requests : ~(Shelving(r)' /\ req'[r].code = c)
      PROVE  Shelves'[c] = Slot!NotShelved
  BY <1>2 DEF Shelves, Superseding, Slot!NotShelved
<1>3. QED
  BY <1>1, <1>2

LEMMA ShelvesAreFunctions ==
  Shelves = [c \in Codes |-> Shelves[c]] /\ Shelves' = [c \in Codes |-> Shelves'[c]]
BY DEF Shelves

(* A request comes to supersede a code, goes on with it, or gives it up.   *)
LEMMA ShelvesKept ==
  ASSUME FreshInv, FreshInv',
         \A r \in Requests : /\ Shelving(r)' <=> Shelving(r)
                             /\ Shelving(r) => /\ req'[r].code = req[r].code
                                               /\ req'[r].prev = req[r].prev
  PROVE  UNCHANGED Shelves
<1>1. \A c \in Codes : Shelves'[c] = Shelves[c]
  BY ShelfIs, NextShelfIs
<1>2. QED
  BY <1>1, ShelvesAreFunctions

LEMMA ShelvesMore ==
  ASSUME FreshInv, FreshInv', NEW r \in Requests,
         ~Shelving(r), Shelving(r)',
         \A x \in Requests : x # r => req'[x] = req[x]
  PROVE  Shelves' = [Shelves EXCEPT ![req'[r].code] = Contents(req'[r].prev)]
<1>1. \A x \in Requests : x # r => (Shelving(x)' <=> Shelving(x))
  BY DEF Shelving
<1>2. \A c \in Codes : Shelves'[c] = IF c = req'[r].code THEN Contents(req'[r].prev)
                                                         ELSE Shelves[c]
  BY <1>1, ShelfIs, NextShelfIs
<1>3. QED
  BY <1>2, ShelvesAreFunctions

LEMMA ShelvesLess ==
  ASSUME FreshInv, FreshInv', NEW r \in Requests,
         Shelving(r), ~Shelving(r)',
         \A x \in Requests : x # r => req'[x] = req[x]
  PROVE  Shelves' = [Shelves EXCEPT ![req[r].code] = Slot!NotShelved]
<1>1. \A x \in Requests : x # r => (Shelving(x)' <=> Shelving(x))
  BY DEF Shelving
<1>2. \A x \in Requests : x # r /\ Shelving(x) => req[x].code # req[r].code
  BY DEF FreshInv, Shelving, ForgotPC
<1>3. \A c \in Codes : Shelves'[c] = IF c = req[r].code THEN Slot!NotShelved ELSE Shelves[c]
  BY <1>1, <1>2, ShelfIs, NextShelfIs
<1>4. QED
  BY <1>3, ShelvesAreFunctions

(* A request takes a key, goes on with it, or lets it go.                  *)
LEMMA InHandKept ==
  ASSUME \A r \in Requests : /\ req'[r].pc \in ResetPC <=> req[r].pc \in ResetPC
                             /\ req[r].pc \in ResetPC => req'[r].key = req[r].key
  PROVE  UNCHANGED InHand
BY DEF InHand

LEMMA InHandMore ==
  ASSUME NEW r \in Requests, NEW k \in Keys,
         req[r].pc \notin ResetPC, req'[r].pc \in ResetPC, req'[r].key = k,
         \A x \in Requests : x # r => req'[x] = req[x]
  PROVE  InHand' = InHand \union {k}
BY DEF InHand

LEMMA InHandLess ==
  ASSUME KeyInv, NEW r \in Requests,
         req[r].pc \in ResetPC, req'[r].pc \notin ResetPC, req[r].key \in Keys,
         \A x \in Requests : x # r => req'[x] = req[x]
  PROVE  InHand' = InHand \ {req[r].key}
<1>1. \A x \in Requests : x # r /\ req[x].pc \in ResetPC => req[x].key # req[r].key
  BY DEF KeyInv, HoldsKey
<1>2. QED
  BY <1>1 DEF InHand

(* A request that holds neither a code nor a key before or after leaves    *)
(* shelves and hands alone.                                                *)
Busy(r) == Shelving(r) \/ req[r].pc \in ResetPC

LEMMA BystandersKept ==
  ASSUME FreshInv, FreshInv', NEW r \in Requests, ~Busy(r), ~Busy(r)',
         \A x \in Requests : x # r => req'[x] = req[x]
  PROVE  UNCHANGED <<Shelves, InHand>>
<1>1. UNCHANGED Shelves
  BY ShelvesKept DEF Busy, Shelving
<1>2. UNCHANGED InHand
  BY InHandKept DEF Busy
<1>3. QED
  BY <1>1, <1>2

LEMMA HistoriesKept ==
  /\ UNCHANGED granted => UNCHANGED Spent
  /\ UNCHANGED minted  => UNCHANGED MadeFor
BY DEF Spent, MadeFor

LEMMA Stutters ==
  ASSUME UNCHANGED <<Slots, Shelves, InHand, granted, issued, minted>>
  PROVE  [Slot!Next]_(Slot!slotVars)
BY HistoriesKept DEF Slot!slotVars

(* forgot_password: a code is issued, and settled or undone.               *)
LEMMA ForgotSaveSlot ==
  ASSUME IInv, FreshInv', NEW r \in Requests, NEW o \in Outcomes, ForgotSave(r, o)
  PROVE  [Slot!Next]_(Slot!slotVars)
<1> TypeOK /\ RequestInv /\ FreshInv
  BY DEF IInv
<1> DEFINE u == req[r].user  c == req[r].code
<1>1. /\ u \in Users /\ c \in Codes /\ c \notin issued
      /\ ~Busy(r) /\ NextState(r) = AwaitingCode(c, req[r].at, 0)
  BY DEF ForgotSave, ForgotPC, ResetPC, RequestInv, GoodRequest, FreshInv, Busy, Shelving,
         NextState
<1>2. /\ UNCHANGED InHand /\ UNCHANGED Spent /\ UNCHANGED MadeFor
      /\ \A x \in Requests : x # r => req'[x] = req[x]
  <2>1. req'[r].pc \notin ResetPC /\ \A x \in Requests : x # r => req'[x] = req[x]
    BY LeaveAt, MoveAt DEF ForgotSave, ResetPC
  <2>2. QED
    BY <1>1, <2>1, InHandKept, HistoriesKept DEF ForgotSave, Busy
<1>3. CASE ~(CanSave(u, req[r].prev, NextState(r)) /\ Runs(o))
  <2>1. Respond(r) /\ RedisUnchanged /\ UNCHANGED issued
    BY <1>3 DEF ForgotSave, Runs
  <2>2. ~Busy(r)'
    BY <2>1, LeaveAt DEF Busy, Shelving, ResetPC
  <2>3. QED
    BY <1>1, <1>2, <2>1, <2>2, BystandersKept, SlotsSame, Stutters DEF RedisUnchanged, ForgotSave
<1>4. CASE CanSave(u, req[r].prev, NextState(r)) /\ Runs(o)
  <2>1. Save(u, req[r].prev, NextState(r)) /\ issued' = issued \union {c}
    BY <1>4 DEF ForgotSave
  <2>2. /\ state[u] = req[r].prev /\ state'[u] = NextState(r)
        /\ \A v \in Users : v # u => state'[v] = state[v]
    BY <1>1, <1>4, <2>1, SaveAt DEF CanSave
  <2>3. Slots' = [Slots EXCEPT ![u] = Slot!Code(c, 0)] /\ Slots[u] = Contents(req[r].prev)
    BY <1>1, <2>2, SlotsAt, ContentsIs DEF Slots
  <2>4. Shelves' \in {Shelves, [Shelves EXCEPT ![c] = Slots[u]]}
    <3>1. CASE Respond(r)
      BY <1>1, <1>2, <3>1, LeaveAt, BystandersKept DEF Busy, Shelving, ResetPC
    <3>2. CASE Become(r, [req[r] EXCEPT !.pc = "forgot_push"])
      <4>1. Shelving(r)' /\ req'[r].code = c /\ req'[r].prev = req[r].prev
        BY <3>2, MoveAt DEF Shelving
      <4>2. QED
        BY <1>1, <1>2, <2>3, <4>1, ShelvesMore DEF Busy
    <3>3. QED
      BY <3>1, <3>2 DEF ForgotSave
  <2>5. Slot!Issue(u, c)
    BY <1>1, <1>2, <2>1, <2>3, <2>4 DEF Slot!Issue
  <2>6. QED
    BY <1>1, <2>5 DEF Slot!Next
<1>5. QED
  BY <1>3, <1>4

LEMMA SettleSlot ==
  ASSUME IInv, FreshInv', NEW r \in Requests, Shelving(r), Respond(r),
         UNCHANGED <<state, granted, issued, minted>>
  PROVE  [Slot!Next]_(Slot!slotVars)
<1> TypeOK /\ RequestInv /\ FreshInv
  BY DEF IInv
<1>1. req[r].code \in Codes /\ req[r].pc \notin ResetPC
  BY DEF RequestInv, GoodRequest, Shelving, ForgotPC, ResetPC
<1>2. /\ ~Shelving(r)' /\ req'[r].pc \notin ResetPC
      /\ \A x \in Requests : x # r => req'[x] = req[x]
  BY LeaveAt DEF Shelving, ResetPC
<1>3. Slot!Settle(req[r].code)
  BY <1>1, <1>2, ShelvesLess, InHandKept, SlotsSame, HistoriesKept DEF Slot!Settle
<1>4. QED
  BY <1>1, <1>3 DEF Slot!Next

LEMMA ForgotPushSlot ==
  ASSUME IInv, FreshInv', NEW r \in Requests, NEW o \in Outcomes, ForgotPush(r, o)
  PROVE  [Slot!Next]_(Slot!slotVars)
<1> TypeOK /\ FreshInv
  BY DEF IInv
<1>1. CASE Respond(r)
  BY <1>1, SettleSlot DEF ForgotPush, Shelving
<1>2. CASE Become(r, [req[r] EXCEPT !.pc = "forgot_rollback"])
  <2>1. /\ Shelving(r) /\ Shelving(r)' /\ req[r].pc \notin ResetPC /\ req'[r].pc \notin ResetPC
        /\ req'[r].code = req[r].code /\ req'[r].prev = req[r].prev
        /\ \A x \in Requests : x # r => req'[x] = req[x]
    BY <1>2, MoveAt DEF ForgotPush, Shelving, ResetPC
  <2>2. UNCHANGED Shelves
    BY <2>1, ShelvesKept DEF Shelving
  <2>3. UNCHANGED InHand
    BY <2>1, InHandKept
  <2>4. QED
    BY <2>2, <2>3, SlotsSame, Stutters DEF ForgotPush
<1>3. QED
  BY <1>1, <1>2 DEF ForgotPush

LEMMA ForgotRollbackSlot ==
  ASSUME IInv, FreshInv', NEW r \in Requests, NEW o \in Outcomes, ForgotRollback(r, o)
  PROVE  [Slot!Next]_(Slot!slotVars)
<1> TypeOK /\ RequestInv /\ FreshInv
  BY DEF IInv
<1> DEFINE u == req[r].user  c == req[r].code  prev == req[r].prev
<1>1. CASE RedisUnchanged
  BY <1>1, SettleSlot DEF ForgotRollback, RedisUnchanged, Shelving
<1>2. CASE /\ state[u] = NextState(r)
           /\ \/ prev = Absent /\ Clear(u, NextState(r))
              \/ Save(u, NextState(r), prev)
  <2>1. /\ u \in Users /\ c \in Codes /\ prev \in Stored /\ Shelving(r)
        /\ req[r].pc \notin ResetPC /\ NextState(r) = AwaitingCode(c, req[r].at, 0)
    BY DEF ForgotRollback, ForgotPC, ResetPC, RequestInv, GoodRequest, Shelving, NextState,
           TypeOK, Request
  <2>2. /\ ~Shelving(r)' /\ req'[r].pc \notin ResetPC
        /\ \A x \in Requests : x # r => req'[x] = req[x]
    BY LeaveAt DEF ForgotRollback, Shelving, ResetPC
  <2>3. state'[u] = prev /\ \A v \in Users : v # u => state'[v] = state[v]
    BY <1>2, <2>1, SaveAt, ClearAt
  <2>4. Shelves[c] = Contents(prev) /\ Shelves[c] # Slot!NotShelved
    BY <2>1, ShelfIs, ContentsShelved
  <2>5. Slots[u] = Slot!Code(c, 0) /\ Slots' = [Slots EXCEPT ![u] = Shelves[c]]
    BY <1>2, <2>1, <2>3, <2>4, SlotsAt, ContentsIs DEF Slots
  <2>6. Slot!Undo(u, c)
    BY <2>1, <2>2, <2>4, <2>5, ShelvesLess, InHandKept, HistoriesKept
       DEF Slot!Undo, ForgotRollback
  <2>7. QED
    BY <2>1, <2>6 DEF Slot!Next
<1>3. QED
  BY <1>1, <1>2 DEF ForgotRollback

(* verify_reset_code: a guess misses, finds the code lapsed, or exchanges  *)
(* it for a key.                                                           *)
LEMMA BystanderStep ==
  ASSUME IInv, FreshInv', NEW r \in Requests, ~Busy(r), ~Busy(r)',
         \A x \in Requests : x # r => req'[x] = req[x],
         UNCHANGED <<state, granted, issued, minted>>
  PROVE  [Slot!Next]_(Slot!slotVars)
<1>1. FreshInv
  BY DEF IInv
<1>2. QED
  BY <1>1, BystandersKept, SlotsSame, Stutters

LEMMA VerifyWrongSlot ==
  ASSUME IInv, FreshInv', NEW r \in Requests, NEW o \in Outcomes, VerifyWrong(r, o)
  PROVE  [Slot!Next]_(Slot!slotVars)
<1> USE ResetAssumption
<1> TypeOK /\ RequestInv /\ FreshInv
  BY DEF IInv
<1> DEFINE u == req[r].user  c == req[r].prev.code  n == req[r].prev.failedAttempts
<1>1. /\ u \in Users /\ req[r].prev \in Stored /\ req[r].prev.kind = "AwaitingCode"
      /\ n < MAX_FAILED_ATTEMPTS /\ ~Busy(r)
  BY DEF VerifyWrong, RequestInv, GoodRequest, TypeOK, Request, Busy, Shelving, ResetPC
<1>2. c \in Codes /\ n \in 0 .. MAX_FAILED_ATTEMPTS - 1
      /\ req[r].prev = AwaitingCode(c, req[r].prev.sentAt, n)
  BY <1>1, StoredFields
<1>3. ~Busy(r)' /\ \A x \in Requests : x # r => req'[x] = req[x]
  BY LeaveAt DEF VerifyWrong, Busy, Shelving, ResetPC
<1>4. CASE RedisUnchanged
  BY <1>1, <1>3, <1>4, BystanderStep DEF VerifyWrong, RedisUnchanged
<1>5. CASE state[u] = req[r].prev /\ Increment(u)
  <2>1. /\ state'[u] = AwaitingCode(c, req[r].prev.sentAt, n + 1)
        /\ \A v \in Users : v # u => state'[v] = state[v]
    BY <1>1, <1>5, IncrementAt
  <2>2. Slots[u] = Slot!Code(c, n) /\ Slots' = [Slots EXCEPT ![u] = Slot!Code(c, n + 1)]
    BY <1>1, <1>2, <1>5, <2>1, SlotsAt, ContentsIs DEF Slots
  <2>3. Slot!Miss(u, c, n)
    BY <1>1, <1>3, <2>2, BystandersKept, HistoriesKept DEF Slot!Miss, VerifyWrong
  <2>4. QED
    BY <1>1, <1>2, <2>3 DEF Slot!Next
<1>6. QED
  BY <1>4, <1>5 DEF VerifyWrong

LEMMA VerifyWrongLapsedSlot ==
  ASSUME IInv, FreshInv', NEW r \in Requests, VerifyWrongLapsed(r)
  PROVE  [Slot!Next]_(Slot!slotVars)
<1> TypeOK /\ RequestInv /\ FreshInv
  BY DEF IInv
<1> DEFINE u == req[r].user
<1>1. u \in Users /\ ~Busy(r)
  BY DEF VerifyWrongLapsed, RequestInv, GoodRequest, Busy, Shelving, ResetPC
<1>2. ~Busy(r)' /\ \A x \in Requests : x # r => req'[x] = req[x]
  BY LeaveAt DEF VerifyWrongLapsed, Busy, Shelving, ResetPC
<1>3. state'[u] = Absent /\ \A v \in Users : v # u => state'[v] = state[v]
  BY <1>1 DEF VerifyWrongLapsed, TypeOK
<1>4. Slots' = [v \in Users |-> IF v \in {u} THEN Slot!Empty ELSE Slots[v]]
  BY <1>3, ContentsIs DEF Slots
<1>5. Slot!Lapse({u})
  BY <1>1, <1>2, <1>4, BystandersKept, HistoriesKept DEF Slot!Lapse, VerifyWrongLapsed
<1>6. {u} \in SUBSET Users
  BY <1>1
<1>7. QED
  BY <1>5, <1>6 DEF Slot!Next

LEMMA VerifyRightSlot ==
  ASSUME IInv, FreshInv', NEW r \in Requests, NEW o \in Outcomes, VerifyRight(r, o)
  PROVE  [Slot!Next]_(Slot!slotVars)
<1> USE ResetAssumption
<1> TypeOK /\ RequestInv /\ FreshInv
  BY DEF IInv
<1> DEFINE u == req[r].user  c == req[r].prev.code  n == req[r].prev.failedAttempts
<1>1. /\ u \in Users /\ req[r].prev \in Stored /\ req[r].prev.kind = "AwaitingCode"
      /\ n < MAX_FAILED_ATTEMPTS /\ ~Busy(r)
  BY DEF VerifyRight, RequestInv, GoodRequest, TypeOK, Request, Busy, Shelving, ResetPC
<1>2. c \in Codes /\ n \in 0 .. MAX_FAILED_ATTEMPTS - 1
      /\ req[r].prev = AwaitingCode(c, req[r].prev.sentAt, n)
  BY <1>1, StoredFields
<1>3. ~Busy(r)' /\ \A x \in Requests : x # r => req'[x] = req[x]
  BY LeaveAt DEF VerifyRight, Busy, Shelving, ResetPC
<1>4. CASE RedisUnchanged /\ UNCHANGED minted
  BY <1>1, <1>3, <1>4, BystanderStep DEF VerifyRight, RedisUnchanged
<1>5. ASSUME state[u] = req[r].prev,
             NEW k \in Keys, minted[k] = NoMint,
             Save(u, req[r].prev, AwaitingPassword(k, now + KEY_EXPIRES)),
             minted' = [minted EXCEPT ![k] = [user |-> u, at |-> now]]
      PROVE  [Slot!Next]_(Slot!slotVars)
  <2>1. /\ state'[u] = AwaitingPassword(k, now + KEY_EXPIRES)
        /\ \A v \in Users : v # u => state'[v] = state[v]
    BY <1>1, <1>5, SaveAt
  <2>2. Slots[u] = Slot!Code(c, n) /\ Slots' = [Slots EXCEPT ![u] = Slot!Key(k)]
    BY <1>1, <1>2, <1>5, <2>1, SlotsAt, ContentsIs DEF Slots
  <2>3. MadeFor[k] = NoUser /\ MadeFor' = [MadeFor EXCEPT ![k] = u]
    <3>1. MadeFor[k] = NoUser
      BY <1>5 DEF MadeFor, NoMint
    <3>2. \A j \in Keys : minted'[j].user = IF j = k THEN u ELSE minted[j].user
      BY <1>5 DEF TypeOK
    <3>3. QED
      BY <3>1, <3>2 DEF MadeFor
  <2>4. Slot!Exchange(u, c, n, k)
    BY <1>1, <1>3, <2>2, <2>3, BystandersKept, HistoriesKept DEF Slot!Exchange, VerifyRight
  <2>5. QED
    BY <1>1, <1>2, <2>4 DEF Slot!Next
<1>6. QED
  BY <1>4, <1>5 DEF VerifyRight

LEMMA VerifyLoadSlot ==
  ASSUME IInv, FreshInv', NEW r \in Requests, NEW o \in Outcomes, VerifyLoad(r, o)
  PROVE  [Slot!Next]_(Slot!slotVars)
<1> TypeOK
  BY DEF IInv
<1>1. ~Busy(r)
  BY DEF VerifyLoad, Busy, Shelving, ResetPC
<1>2. ~Busy(r)' /\ \A x \in Requests : x # r => req'[x] = req[x]
  <2>1. CASE Become(r, [req[r] EXCEPT !.pc = "verify_check", !.prev = state[req[r].user]])
    BY <2>1 DEF Become, TypeOK, Request, Busy, Shelving, ResetPC
  <2>2. QED
    BY <2>1, LeaveAt DEF VerifyLoad, Busy, Shelving, ResetPC
<1>3. QED
  BY <1>1, <1>2, BystanderStep DEF VerifyLoad

(* reset_password: a key is taken, and spent, put back or dropped.         *)
LEMMA ResetPasswordSlot ==
  ASSUME IInv, FreshInv', NEW r \in Requests, NEW k \in Keys, NEW o \in Outcomes,
         ResetPassword(r, k, o)
  PROVE  [Slot!Next]_(Slot!slotVars)
<1> TypeOK /\ FreshInv /\ IndexConsistent
  BY DEF IInv
<1> DEFINE u == index[k].user
<1>1. CASE Consume(k) /\ Consumable(k)
  <2>1. /\ u \in Users /\ HasKey(state[u], k)
        /\ state'[u] = Absent /\ \A v \in Users : v # u => state'[v] = state[v]
    BY <1>1 DEF Consumable, Consume, IndexConsistent, TypeOK
  <2>2. state[u].kind = "AwaitingPassword" /\ state[u].key = k
    BY <2>1 DEF HasKey
  <2>3. Slots[u] = Slot!Key(k)
    BY <2>1, <2>2 DEF Slots, Contents, Slot!Key
  <2>4. CASE UNCHANGED req
    <3>1. Slots' = [v \in Users |-> IF v \in {u} THEN Slot!Empty ELSE Slots[v]]
      BY <2>1, ContentsIs DEF Slots
    <3>2. UNCHANGED <<Shelves, InHand>>
      BY <2>4, ShelvesKept, InHandKept DEF Shelving
    <3>3. Slot!Lapse({u})
      BY <3>1, <3>2, HistoriesKept DEF Slot!Lapse, ResetPassword
    <3>4. {u} \in SUBSET Users
      BY <2>1
    <3>5. QED
      BY <3>3, <3>4 DEF Slot!Next
  <2>5. CASE Become(r, Req("reset_find", u, Absent, NoCode, k, state[u].expiresAt))
    <3>1. /\ req[r].pc = "idle" /\ req'[r].pc = "reset_find" /\ req'[r].key = k
          /\ \A x \in Requests : x # r => req'[x] = req[x]
      BY <2>5, BecomeAt, ReqFields DEF ResetPassword
    <3>2. Slots' = [Slots EXCEPT ![u] = Slot!Empty]
      BY <2>1, SlotsAt, ContentsIs
    <3>3. UNCHANGED Shelves
      BY <3>1, ShelvesKept DEF Shelving
    <3>4. InHand' = InHand \union {k}
      BY <3>1, InHandMore DEF ResetPC
    <3>5. Slot!Take(u, k)
      BY <2>3, <3>2, <3>3, <3>4, HistoriesKept DEF Slot!Take, ResetPassword
    <3>6. QED
      BY <2>1, <3>5 DEF Slot!Next
  <2>6. QED
    BY <2>4, <2>5 DEF ResetPassword
<1>2. CASE ~(Consume(k) /\ Consumable(k))
  <2>1. UNCHANGED state /\ UNCHANGED req
    BY <1>2 DEF ResetPassword, Consume, RedisUnchanged, Runs
  <2>2. UNCHANGED <<Shelves, InHand>>
    BY <2>1, ShelvesKept, InHandKept DEF Shelving
  <2>3. QED
    BY <2>1, <2>2, SlotsSame, Stutters DEF ResetPassword
<1>3. QED
  BY <1>1, <1>2

LEMMA DropSlot ==
  ASSUME IInv, FreshInv', NEW r \in Requests, req[r].pc \in ResetPC, Respond(r),
         UNCHANGED <<state, granted, issued, minted>>
  PROVE  [Slot!Next]_(Slot!slotVars)
<1> TypeOK /\ RequestInv /\ KeyInv /\ FreshInv
  BY DEF IInv
<1>1. /\ req[r].key \in Keys /\ ~Shelving(r) /\ ~Shelving(r)' /\ req'[r].pc \notin ResetPC
      /\ \A x \in Requests : x # r => req'[x] = req[x]
  BY LeaveAt DEF RequestInv, GoodRequest, Shelving, ResetPC
<1>2. UNCHANGED Shelves
  BY <1>1, ShelvesKept DEF Shelving
<1>3. Slot!Drop(req[r].key)
  BY <1>1, <1>2, InHandLess, SlotsSame, HistoriesKept DEF Slot!Drop
<1>4. QED
  BY <1>1, <1>3 DEF Slot!Next

LEMMA HoldOn ==
  ASSUME IInv, FreshInv', NEW r \in Requests, NEW pc \in ResetPC, req[r].pc \in ResetPC,
         Become(r, [req[r] EXCEPT !.pc = pc]),
         UNCHANGED <<state, granted, issued, minted>>
  PROVE  [Slot!Next]_(Slot!slotVars)
<1> TypeOK /\ FreshInv
  BY DEF IInv
<1>1. /\ ~Shelving(r) /\ ~Shelving(r)' /\ req'[r].pc \in ResetPC /\ req'[r].key = req[r].key
      /\ \A x \in Requests : x # r => req'[x] = req[x]
  BY MoveAt DEF Shelving, ResetPC
<1>2. UNCHANGED Shelves
  BY <1>1, ShelvesKept DEF Shelving
<1>3. QED
  BY <1>1, <1>2, InHandKept, SlotsSame, Stutters

LEMMA ResetFindSlot ==
  ASSUME IInv, FreshInv', NEW r \in Requests, NEW o \in Outcomes, ResetFind(r, o)
  PROVE  [Slot!Next]_(Slot!slotVars)
BY DropSlot, HoldOn DEF ResetFind, ResetPC

LEMMA ResetSetSlot ==
  ASSUME IInv, FreshInv', NEW r \in Requests, NEW o \in Outcomes, ResetSet(r, o)
  PROVE  [Slot!Next]_(Slot!slotVars)
<1> TypeOK /\ RequestInv /\ KeyInv /\ FreshInv
  BY DEF IInv
<1> DEFINE k == req[r].key
<1>1. CASE Become(r, [req[r] EXCEPT !.pc = "reset_restore"]) /\ UNCHANGED granted
  BY <1>1, HoldOn DEF ResetSet, ResetPC
<1>2. CASE Respond(r) /\ granted' = [granted EXCEPT ![k] = @ + 1]
  <2>1. /\ k \in Keys /\ req[r].pc \in ResetPC
        /\ ~Shelving(r) /\ ~Shelving(r)' /\ req'[r].pc \notin ResetPC
        /\ \A x \in Requests : x # r => req'[x] = req[x]
    BY <1>2, LeaveAt DEF ResetSet, RequestInv, GoodRequest, Shelving, ResetPC
  <2>2. UNCHANGED Shelves
    BY <2>1, ShelvesKept DEF Shelving
  <2>3. Spent' = Spent \union {k}
    BY <1>2, <2>1 DEF Spent, TypeOK
  <2>4. k \in InHand
    BY <2>1 DEF InHand
  <2>5. Slot!Spend(k)
    BY <2>1, <2>2, <2>3, <2>4, InHandLess, SlotsSame, HistoriesKept DEF Slot!Spend, ResetSet
  <2>6. QED
    BY <2>1, <2>5 DEF Slot!Next
<1>3. QED
  BY <1>1, <1>2 DEF ResetSet

LEMMA ResetRestoreSlot ==
  ASSUME IInv, FreshInv', NEW r \in Requests, NEW o \in Outcomes, ResetRestore(r, o)
  PROVE  [Slot!Next]_(Slot!slotVars)
<1> TypeOK /\ RequestInv /\ KeyInv /\ FreshInv
  BY DEF IInv
<1> DEFINE u == req[r].user  k == req[r].key
<1>1. CASE RedisUnchanged
  BY <1>1, DropSlot DEF ResetRestore, RedisUnchanged, ResetPC
<1>2. CASE state[u] = Absent /\ Save(u, Absent, AwaitingPassword(k, req[r].at))
  <2>1. /\ u \in Users /\ k \in Keys /\ req[r].pc \in ResetPC
        /\ ~Shelving(r) /\ ~Shelving(r)' /\ req'[r].pc \notin ResetPC
        /\ \A x \in Requests : x # r => req'[x] = req[x]
    BY LeaveAt DEF ResetRestore, RequestInv, GoodRequest, Shelving, ResetPC
  <2>2. Slots[u] = Slot!Empty /\ Slots' = [Slots EXCEPT ![u] = Slot!Key(k)]
    BY <1>2, <2>1, SaveAt, SlotsAt, ContentsIs DEF Slots
  <2>3. UNCHANGED Shelves
    BY <2>1, ShelvesKept DEF Shelving
  <2>4. k \in InHand
    BY <2>1 DEF InHand
  <2>5. MadeFor[k] = u
    BY <2>1 DEF IInv, MintInv, MadeFor
  <2>6. Slot!PutBack(u, k)
    BY <2>1, <2>2, <2>3, <2>4, <2>5, InHandLess, HistoriesKept DEF Slot!PutBack, ResetRestore
  <2>7. QED
    BY <2>1, <2>6 DEF Slot!Next
<1>3. QED
  BY <1>1, <1>2 DEF ResetRestore, CanSave

LEMMA TickSlot ==
  ASSUME IInv, FreshInv', Tick
  PROVE  [Slot!Next]_(Slot!slotVars)
<1> TypeOK /\ FreshInv
  BY DEF IInv
<1>1. PICK gone \in SUBSET Users :
        state' = [u \in Users |-> IF u \in gone THEN Absent ELSE state[u]]
  BY DEF Tick
<1>2. Slots' = [u \in Users |-> IF u \in gone THEN Slot!Empty ELSE Slots[u]]
  BY <1>1, ContentsIs DEF Slots
<1>3. UNCHANGED <<Shelves, InHand>>
  BY ShelvesKept, InHandKept DEF Tick, Shelving
<1>4. Slot!Lapse(gone)
  BY <1>2, <1>3, HistoriesKept DEF Slot!Lapse, Tick
<1>5. QED
  BY <1>4 DEF Slot!Next

LEMMA SlotInit == Init => Slot!Init
<1> SUFFICES ASSUME Init PROVE Slot!Init
  OBVIOUS
<1>1. \A r \in Requests : ~Shelving(r) /\ req[r].pc \notin ResetPC
  BY ReqFields DEF Init, Shelving, ResetPC
<1>2. Slots = [u \in Users |-> Slot!Empty]
  BY ContentsIs DEF Init, Slots
<1>3. Shelves = [c \in Codes |-> Slot!NotShelved]
  BY <1>1 DEF Shelves, Superseding, Slot!NotShelved
<1>4. InHand = {} /\ Spent = {} /\ issued = {}
      /\ MadeFor = [k \in Keys |-> NoUser]
  BY <1>1 DEF Init, InHand, Spent, MadeFor, NoMint
<1>5. QED
  BY <1>2, <1>3, <1>4 DEF Slot!Init

LEMMA SlotStep == IInv /\ IInv' /\ [Next]_vars => [Slot!Next]_(Slot!slotVars)
<1> SUFFICES ASSUME IInv, IInv', [Next]_vars PROVE [Slot!Next]_(Slot!slotVars)
  OBVIOUS
<1> FreshInv /\ FreshInv' /\ TypeOK
  BY DEF IInv
<1>1. ASSUME NEW r \in Requests, NEW u \in Users, ForgotPassword(r, u)
      PROVE  [Slot!Next]_(Slot!slotVars)
  BY <1>1, BecomeAt, ReqFields, BystanderStep DEF ForgotPassword, Busy, Shelving, ResetPC
<1>2. ASSUME NEW r \in Requests, NEW u \in Users, NEW c \in issued \union {NoCode},
             VerifyResetCode(r, u, c)
      PROVE  [Slot!Next]_(Slot!slotVars)
  BY <1>2, BecomeAt, ReqFields, BystanderStep DEF VerifyResetCode, Busy, Shelving, ResetPC
<1>3. ASSUME NEW r \in Requests, NEW k \in Keys, NEW o \in Outcomes, ResetPassword(r, k, o)
      PROVE  [Slot!Next]_(Slot!slotVars)
  BY <1>3, ResetPasswordSlot
<1>4. ASSUME NEW r \in Requests, NEW o \in Outcomes, Proceed(r, o) \/ ForgotPush(r, o)
      PROVE  [Slot!Next]_(Slot!slotVars)
  BY <1>4, ForgotSaveSlot, ForgotPushSlot, ForgotRollbackSlot, VerifyLoadSlot, VerifyWrongSlot,
     VerifyRightSlot, ResetFindSlot, ResetSetSlot, ResetRestoreSlot DEF Proceed
<1>5. ASSUME NEW r \in Requests, VerifyWrongLapsed(r) PROVE [Slot!Next]_(Slot!slotVars)
  BY <1>5, VerifyWrongLapsedSlot
<1>6. ASSUME NEW r \in Requests, Abandon(r) PROVE [Slot!Next]_(Slot!slotVars)
  <2>1. CASE Shelving(r)
    BY <1>6, <2>1, SettleSlot DEF Abandon
  <2>2. CASE req[r].pc \in ResetPC
    BY <1>6, <2>2, DropSlot DEF Abandon
  <2>3. CASE ~Busy(r)
    BY <1>6, <2>3, LeaveAt, BystanderStep DEF Abandon, Busy, Shelving, ResetPC
  <2>4. QED
    BY <2>1, <2>2, <2>3 DEF Busy
<1>7. ASSUME UNCHANGED <<state, req, granted, issued, minted>>
      PROVE  [Slot!Next]_(Slot!slotVars)
  BY <1>7, ShelvesKept, InHandKept, SlotsSame, Stutters DEF Shelving
<1>8. CASE Tick
  BY <1>8, TickSlot
<1>9. QED
  BY <1>1, <1>2, <1>3, <1>4, <1>5, <1>6, <1>7, <1>8
     DEF Next, Submit, Step, DeleteAccount, vars

(* Every behaviour of the requests, the scripts, the index and the         *)
(* recovery paths is one of the atomic slot: for any number of users and   *)
(* requests, a code or a key is superseded, restored, consumed, put back   *)
(* or lost only as ResetSlot allows.                                       *)
THEOREM Refinement == Spec => ImplementsSlot
<1>1. Init => Slot!Init
  BY SlotInit
<1>2. IInv /\ IInv' /\ [Next]_vars => [Slot!Next]_(Slot!slotVars)
  BY SlotStep
<1>3. QED
  BY <1>1, <1>2, Invariance, PTL DEF Spec, ImplementsSlot, Slot!Spec

-----------------------------------------------------------------------------
(* What ResetSlot promises, on its own, and so for password reset.         *)

LEMMA SlotFields ==
  /\ Slot!Empty.holds = "nothing" /\ Slot!NotShelved.holds = "no shelf"
  /\ \A c, n : Slot!Code(c, n).holds = "code" /\ Slot!Code(c, n).code = c
  /\ \A k : Slot!Key(k).holds = "key" /\ Slot!Key(k).key = k
BY DEF Slot!Empty, Slot!NotShelved, Slot!Code, Slot!Key

(* Codes in a slot or on a shelf were used, keys made for somebody.        *)
KnownThing(s) ==
  /\ s.holds = "code" => s.code \in issued
  /\ s.holds = "key" => s.key \in Keys /\ MadeFor[s.key] # NoUser

SlotInv ==
  /\ Slots = [u \in Users |-> Slots[u]] /\ Shelves = [c \in Codes |-> Shelves[c]]
  /\ MadeFor = [k \in Keys |-> MadeFor[k]]
  /\ \A u \in Users : KnownThing(Slots[u])
  /\ \A c \in Codes : KnownThing(Shelves[c])
  /\ \A k \in InHand \union Spent : k \in Keys /\ MadeFor[k] # NoUser
  /\ Slot!OnePlace

(* What was known stays known.                                             *)
StillKnown ==
  /\ issued \subseteq issued'
  /\ MadeFor' = [k \in Keys |-> MadeFor'[k]]
  /\ \A k \in Keys : MadeFor[k] # NoUser => MadeFor'[k] # NoUser

LEMMA KnownKept == ASSUME StillKnown, NEW s, KnownThing(s) PROVE KnownThing(s)'
BY DEF StillKnown, KnownThing

(* One slot gets something that is nowhere else.                           *)
LEMMA SlotFilled ==
  ASSUME SlotInv, StillKnown, NEW u \in Users, NEW s, KnownThing(s)',
         Slots' = [Slots EXCEPT ![u] = s],
         Shelves' = [c \in Codes |-> Shelves'[c]],
         \A c \in Codes : Shelves'[c] = Shelves[c] \/ Shelves'[c] = Slot!NotShelved,
         \A v \in Users : v # u => ~Slot!Same(Slots[v], s),
         \A c \in Codes : ~Slot!Same(s, Shelves'[c]),
         InHand' \union Spent' \subseteq InHand \union Spent, InHand' \intersect Spent' = {},
         \A k \in InHand' \union Spent' : ~Slot!Same(s, Slot!Key(k))
  PROVE  SlotInv'
<1>1. \A v \in Users : Slots'[v] = IF v = u THEN s ELSE Slots[v]
  BY DEF SlotInv
<1>2. \A a, b : Slot!Same(a, b) => Slot!Same(b, a) /\ a.holds \in {"code", "key"}
  BY DEF Slot!Same
<1>3. Slots' = [v \in Users |-> Slots'[v]]
  BY DEF SlotInv
<1>4. KnownThing(Slot!NotShelved)'
  BY SlotFields DEF KnownThing
<1>5. ASSUME NEW v \in Users PROVE KnownThing(Slots[v])'
  BY <1>1, KnownKept DEF SlotInv
<1>6. ASSUME NEW c \in Codes PROVE KnownThing(Shelves[c])'
  BY <1>4, KnownKept DEF SlotInv
<1>7. \A k \in InHand' \union Spent' : k \in Keys /\ MadeFor'[k] # NoUser
  BY DEF SlotInv, StillKnown
<1>8. Slot!OnePlace'
  BY <1>1, <1>2, SlotFields DEF SlotInv, Slot!OnePlace, Slot!Nowhere
<1>9. QED
  BY <1>3, <1>5, <1>6, <1>7, <1>8 DEF SlotInv, StillKnown
(* Slots and shelves are emptied.                                          *)
LEMMA SlotsEmptied ==
  ASSUME SlotInv, StillKnown,
         Slots' = [u \in Users |-> Slots'[u]], Shelves' = [c \in Codes |-> Shelves'[c]],
         \A u \in Users : Slots'[u] = Slots[u] \/ Slots'[u] = Slot!Empty,
         \A c \in Codes : Shelves'[c] = Shelves[c] \/ Shelves'[c] = Slot!NotShelved,
         InHand' \intersect Spent' = {},
         \A k \in InHand' \union Spent' :
           k \in InHand \union Spent
             \/ (k \in Keys /\ MadeFor[k] # NoUser /\ Slot!Nowhere(Slot!Key(k))')
  PROVE  SlotInv'
<1>1. \A a : ~Slot!Same(Slot!Empty, a) /\ ~Slot!Same(a, Slot!Empty)
             /\ ~Slot!Same(Slot!NotShelved, a) /\ ~Slot!Same(a, Slot!NotShelved)
  BY SlotFields DEF Slot!Same
<1>2. KnownThing(Slot!NotShelved)' /\ KnownThing(Slot!Empty)'
  BY SlotFields DEF KnownThing
<1>3. ASSUME NEW u \in Users PROVE KnownThing(Slots[u])'
  BY <1>2, KnownKept DEF SlotInv
<1>4. ASSUME NEW c \in Codes PROVE KnownThing(Shelves[c])'
  BY <1>2, KnownKept DEF SlotInv
<1>5. \A k \in InHand' \union Spent' : k \in Keys /\ MadeFor'[k] # NoUser
  BY DEF SlotInv, StillKnown
<1>6. \A k \in InHand' \union Spent' : Slot!Nowhere(Slot!Key(k))'
  BY <1>1 DEF SlotInv, Slot!OnePlace, Slot!Nowhere
<1>7. Slot!OnePlace'
  BY <1>1, <1>6 DEF SlotInv, Slot!OnePlace
<1>8. QED
  BY <1>3, <1>4, <1>5, <1>7 DEF SlotInv, StillKnown

LEMMA SlotInvInit == Slot!Init => SlotInv
<1> SUFFICES ASSUME Slot!Init PROVE SlotInv
  OBVIOUS
<1>1. /\ \A u \in Users : Slots[u] = Slot!Empty
      /\ \A c \in Codes : Shelves[c] = Slot!NotShelved
  BY DEF Slot!Init
<1>2. QED
  BY <1>1, SlotFields DEF Slot!Init, SlotInv, KnownThing, Slot!OnePlace, Slot!Same

LEMMA IssueKeeps ==
  ASSUME SlotInv, NEW u \in Users, NEW c \in Codes, Slot!Issue(u, c)
  PROVE  SlotInv'
<1>1. StillKnown
  BY DEF Slot!Issue, StillKnown, SlotInv
<1>2. /\ Slots' = [v \in Users |-> Slots'[v]]
      /\ \A v \in Users : Slots'[v] = IF v = u THEN Slot!Code(c, 0) ELSE Slots[v]
  BY DEF Slot!Issue, SlotInv
<1>3. /\ Shelves' = [d \in Codes |-> Shelves'[d]]
      /\ \A d \in Codes : d # c => Shelves'[d] = Shelves[d]
      /\ Shelves'[c] = Shelves[c] \/ Shelves'[c] = Slots[u]
  BY DEF Slot!Issue, SlotInv
<1>4. UNCHANGED <<InHand, Spent>> /\ c \in issued'
  BY DEF Slot!Issue
<1>5. \A s : KnownThing(s) => /\ ~Slot!Same(s, Slot!Code(c, 0))
                              /\ ~Slot!Same(Slot!Code(c, 0), s)
  <2>1. /\ Slot!Code(c, 0).holds = "code" /\ Slot!Code(c, 0).code = c
        /\ c \notin issued
    BY SlotFields DEF Slot!Issue
  <2>2. QED
    BY <2>1 DEF KnownThing, Slot!Same
<1>6. \A s, t : Slot!Same(s, t) => Slot!Same(t, s)
  BY DEF Slot!Same
<1>7. \A k : ~Slot!Same(Slot!Code(c, 0), Slot!Key(k))
  BY SlotFields DEF Slot!Same
<1>8. KnownThing(Slot!Code(c, 0))'
  BY <1>4, SlotFields DEF KnownThing
<1>9. ASSUME NEW v \in Users PROVE KnownThing(Slots[v])'
  BY <1>1, <1>2, <1>8, KnownKept DEF SlotInv
<1>10. ASSUME NEW d \in Codes PROVE KnownThing(Shelves[d])'
  <2>1. KnownThing(Shelves'[d])
    BY <1>3 DEF SlotInv
  <2>2. QED
    BY <1>1, <2>1, KnownKept
<1>11. Slot!OnePlace'
  <2>1. \A v, w \in Users : Slot!Same(Slots'[v], Slots'[w]) => v = w
    BY <1>2, <1>5 DEF SlotInv, Slot!OnePlace
  <2>2. \A b, d \in Codes : Slot!Same(Shelves'[b], Shelves'[d]) => b = d
    BY <1>3, <1>6 DEF SlotInv, Slot!OnePlace
  <2>3. \A v \in Users, d \in Codes : ~Slot!Same(Slots'[v], Shelves'[d])
    BY <1>2, <1>3, <1>5 DEF SlotInv, Slot!OnePlace
  <2>4. \A k \in InHand' \union Spent' : Slot!Nowhere(Slot!Key(k))'
    BY <1>2, <1>3, <1>4, <1>7 DEF SlotInv, Slot!OnePlace, Slot!Nowhere
  <2>5. QED
    BY <1>4, <2>1, <2>2, <2>3, <2>4 DEF SlotInv, Slot!OnePlace
<1>12. QED
  BY <1>1, <1>2, <1>3, <1>4, <1>9, <1>10, <1>11 DEF SlotInv, StillKnown

LEMMA SlotInvStep == SlotInv /\ [Slot!Next]_(Slot!slotVars) => SlotInv'
<1> SUFFICES ASSUME SlotInv, [Slot!Next]_(Slot!slotVars) PROVE SlotInv'
  OBVIOUS
<1>1. ASSUME UNCHANGED <<issued, MadeFor>> PROVE StillKnown
  BY <1>1 DEF StillKnown, SlotInv
<1>a. \A a, b : Slot!Same(a, b) => Slot!Same(b, a)
  BY DEF Slot!Same
<1>b. InHand \intersect Spent = {}
  BY DEF SlotInv, Slot!OnePlace
<1>c. \A a : ~Slot!Same(Slot!NotShelved, a) /\ ~Slot!Same(a, Slot!NotShelved)
  BY SlotFields DEF Slot!Same
<1>2. ASSUME NEW u \in Users, NEW c \in Codes, Slot!Undo(u, c) PROVE SlotInv'
  <2>1. PICK s : s = Shelves[c]
    OBVIOUS
  <2>2. /\ Slots' = [Slots EXCEPT ![u] = s] /\ KnownThing(s)
        /\ Shelves' = [Shelves EXCEPT ![c] = Slot!NotShelved]
        /\ UNCHANGED <<InHand, Spent, issued, MadeFor>> /\ StillKnown
    BY <1>1, <1>2, <2>1 DEF Slot!Undo, SlotInv
  <2>3. \A d \in Codes : Shelves'[d] = IF d = c THEN Slot!NotShelved ELSE Shelves[d]
    BY <2>2 DEF SlotInv
  <2>4. Shelves' = [d \in Codes |-> Shelves'[d]]
    BY <2>2 DEF SlotInv
  <2>5. \A v \in Users : ~Slot!Same(Slots[v], s)
    BY <2>1 DEF SlotInv, Slot!OnePlace
  <2>6. \A d \in Codes : ~Slot!Same(s, Shelves'[d])
    BY <1>c, <2>1, <2>3 DEF SlotInv, Slot!OnePlace
  <2>7. \A k \in InHand \union Spent : ~Slot!Same(s, Slot!Key(k))
    BY <2>1 DEF SlotInv, Slot!OnePlace, Slot!Nowhere
  <2>8. KnownThing(s)'
    BY <2>2, KnownKept
  <2>9. \A d \in Codes : Shelves'[d] = Shelves[d] \/ Shelves'[d] = Slot!NotShelved
    BY <2>3
  <2>10. /\ InHand' \union Spent' \subseteq InHand \union Spent /\ InHand' \intersect Spent' = {}
         /\ \A k \in InHand' \union Spent' : ~Slot!Same(s, Slot!Key(k))
    BY <1>b, <2>2, <2>7
  <2>11. QED
    BY <2>2, <2>4, <2>5, <2>6, <2>8, <2>9, <2>10, SlotFilled
<1>3. ASSUME NEW u \in Users, NEW c \in Codes, NEW n \in Nat, Slot!Miss(u, c, n)
      PROVE  SlotInv'
  <2>1. PICK s : s = Slot!Code(c, n + 1)
    OBVIOUS
  <2>2. /\ Slots[u] = Slot!Code(c, n) /\ Slots' = [Slots EXCEPT ![u] = s]
        /\ UNCHANGED <<Shelves, InHand, Spent, issued, MadeFor>> /\ StillKnown
    BY <1>1, <1>3, <2>1 DEF Slot!Miss
  <2>3. s.holds = "code" /\ s.code = c /\ Slots[u].holds = "code" /\ Slots[u].code = c
    <3>1. /\ Slot!Code(c, n).holds = "code" /\ Slot!Code(c, n).code = c
          /\ Slot!Code(c, n + 1).holds = "code" /\ Slot!Code(c, n + 1).code = c
      BY SlotFields
    <3>2. QED
      BY <2>1, <2>2, <3>1
  <2>4. \A t : /\ Slot!Same(s, t) <=> Slot!Same(Slots[u], t)
               /\ Slot!Same(t, s) <=> Slot!Same(t, Slots[u])
    BY <2>3 DEF Slot!Same
  <2>5. KnownThing(s)'
    BY <2>2, <2>3 DEF KnownThing, SlotInv
  <2>6. /\ \A v \in Users : v # u => ~Slot!Same(Slots[v], s)
        /\ \A d \in Codes : ~Slot!Same(s, Shelves[d])
        /\ \A k \in InHand \union Spent : ~Slot!Same(s, Slot!Key(k))
    BY <2>4 DEF SlotInv, Slot!OnePlace, Slot!Nowhere
  <2>7. /\ InHand' = InHand /\ Spent' = Spent /\ Shelves' = Shelves
        /\ Shelves = [d \in Codes |-> Shelves[d]]
    BY <2>2 DEF SlotInv
  <2>8. QED
    BY <1>b, <2>2, <2>5, <2>6, <2>7, SlotFilled
<1>4. ASSUME NEW u \in Users, NEW c \in Codes, NEW n \in Nat, NEW k \in Keys,
             Slot!Exchange(u, c, n, k)
      PROVE  SlotInv'
  <2>1. PICK s : s = Slot!Key(k)
    OBVIOUS
  <2>2. /\ Slots' = [Slots EXCEPT ![u] = s] /\ MadeFor[k] = NoUser
        /\ MadeFor' = [MadeFor EXCEPT ![k] = u]
        /\ UNCHANGED <<Shelves, InHand, Spent, issued>>
    BY <1>4, <2>1 DEF Slot!Exchange
  <2>3. \A j \in Keys : MadeFor'[j] = IF j = k THEN u ELSE MadeFor[j]
    BY <2>2 DEF SlotInv
  <2>4. MadeFor' = [j \in Keys |-> MadeFor'[j]]
    BY <2>2 DEF SlotInv
  <2>5. StillKnown /\ MadeFor'[k] # NoUser
    BY <2>2, <2>3, <2>4, ResetAssumption DEF StillKnown
  <2>6. s.holds = "key" /\ s.key = k
    BY <2>1, SlotFields
  <2>7. KnownThing(s)'
    BY <2>5, <2>6 DEF KnownThing
  <2>8. \A t : KnownThing(t) => ~Slot!Same(s, t) /\ ~Slot!Same(t, s)
    BY <2>2, <2>6 DEF KnownThing, Slot!Same
  <2>9. \A j : Slot!Key(j).holds = "key" /\ Slot!Key(j).key = j
    BY SlotFields
  <2>10. \A j \in InHand \union Spent : j # k
    BY <2>2 DEF SlotInv
  <2>11. \A j \in InHand \union Spent : ~Slot!Same(s, Slot!Key(j))
    BY <2>6, <2>9, <2>10 DEF Slot!Same
  <2>12. /\ \A v \in Users : ~Slot!Same(Slots[v], s)
         /\ \A d \in Codes : ~Slot!Same(s, Shelves[d])
    BY <2>8 DEF SlotInv
  <2>13. /\ InHand' = InHand /\ Spent' = Spent /\ Shelves' = Shelves
         /\ Shelves = [d \in Codes |-> Shelves[d]]
    BY <2>2 DEF SlotInv
  <2>14. QED
    BY <1>b, <2>2, <2>5, <2>7, <2>11, <2>12, <2>13, SlotFilled
<1>5. ASSUME NEW u \in Users, NEW k \in Keys, Slot!Take(u, k) PROVE SlotInv'
  <2>1. /\ Slots[u] = Slot!Key(k) /\ Slots' = [v \in Users |-> Slots'[v]]
        /\ \A v \in Users : Slots'[v] = IF v = u THEN Slot!Empty ELSE Slots[v]
        /\ InHand' = InHand \union {k}
        /\ UNCHANGED <<Shelves, Spent, issued, MadeFor>> /\ StillKnown
    BY <1>1, <1>5 DEF Slot!Take, SlotInv
  <2>2. Slots[u].holds = "key" /\ Slots[u].key = k
    BY <2>1, SlotFields
  <2>3. \A j : Slot!Key(j).holds = "key" /\ Slot!Key(j).key = j
    BY SlotFields
  <2>4. Slot!Same(Slots[u], Slot!Key(k))
    BY <2>2, <2>3 DEF Slot!Same
  <2>5. MadeFor[k] # NoUser /\ k \notin Spent
    BY <2>2, <2>4 DEF SlotInv, KnownThing, Slot!OnePlace, Slot!Nowhere
  <2>6. Slot!Empty.holds = "nothing"
    BY SlotFields
  <2>7. \A v \in Users : ~Slot!Same(Slots'[v], Slot!Key(k))
    <3>1. ~Slot!Same(Slot!Empty, Slot!Key(k))
      BY <2>6 DEF Slot!Same
    <3>2. \A v \in Users : v # u => ~Slot!Same(Slots[v], Slots[u])
      BY DEF SlotInv, Slot!OnePlace
    <3>3. QED
      BY <2>1, <3>1, <3>2
  <2>8. \A c \in Codes : ~Slot!Same(Shelves[c], Slot!Key(k))
    BY <1>a, <2>1 DEF SlotInv, Slot!OnePlace
  <2>9. Slot!Nowhere(Slot!Key(k))'
    BY <2>1, <2>7, <2>8 DEF Slot!Nowhere
  <2>10. InHand' \intersect Spent' = {}
    BY <1>b, <2>1, <2>5
  <2>11. \A j \in InHand' \union Spent' :
           j \in InHand \union Spent
             \/ (j \in Keys /\ MadeFor[j] # NoUser /\ Slot!Nowhere(Slot!Key(j))')
    BY <2>1, <2>5, <2>9
  <2>12. /\ Shelves' = Shelves /\ Shelves' = [c \in Codes |-> Shelves'[c]]
    BY <2>1 DEF SlotInv
  <2>13. QED
    BY <2>1, <2>10, <2>11, <2>12, SlotsEmptied
<1>6. ASSUME NEW u \in Users, NEW k \in Keys, Slot!PutBack(u, k) PROVE SlotInv'
  <2>1. PICK s : s = Slot!Key(k)
    OBVIOUS
  <2>2. /\ k \in InHand /\ Slots' = [Slots EXCEPT ![u] = s] /\ InHand' = InHand \ {k}
        /\ UNCHANGED <<Shelves, Spent, issued, MadeFor>> /\ StillKnown
    BY <1>1, <1>6, <2>1 DEF Slot!PutBack
  <2>3. s.holds = "key" /\ s.key = k
    BY <2>1, SlotFields
  <2>4. KnownThing(s)'
    BY <2>2, <2>3 DEF KnownThing, SlotInv
  <2>5. Slot!Nowhere(s)
    BY <2>1, <2>2 DEF SlotInv, Slot!OnePlace
  <2>6. /\ \A v \in Users : ~Slot!Same(Slots[v], s)
        /\ \A c \in Codes : ~Slot!Same(s, Shelves[c])
    BY <1>a, <2>5 DEF Slot!Nowhere
  <2>7. \A j : Slot!Key(j).holds = "key" /\ Slot!Key(j).key = j
    BY SlotFields
  <2>8. k \notin InHand' \union Spent'
    BY <1>b, <2>2
  <2>9. \A j \in InHand' \union Spent' : ~Slot!Same(s, Slot!Key(j))
    BY <2>3, <2>7, <2>8 DEF Slot!Same
  <2>10. /\ Shelves' = Shelves /\ Shelves = [c \in Codes |-> Shelves[c]]
         /\ InHand' \union Spent' \subseteq InHand \union Spent /\ InHand' \intersect Spent' = {}
    BY <1>b, <2>2 DEF SlotInv
  <2>11. QED
    BY <2>2, <2>4, <2>6, <2>9, <2>10, SlotFilled
<1>7. ASSUME NEW c \in Codes, Slot!Settle(c) PROVE SlotInv'
  <2>1. /\ Shelves' = [Shelves EXCEPT ![c] = Slot!NotShelved]
        /\ UNCHANGED <<Slots, InHand, Spent, issued, MadeFor>> /\ StillKnown
    BY <1>1, <1>7 DEF Slot!Settle
  <2>2. /\ Shelves' = [d \in Codes |-> Shelves'[d]]
        /\ Slots' = [u \in Users |-> Slots'[u]] /\ Slots' = Slots
    BY <2>1 DEF SlotInv
  <2>3. \A d \in Codes : Shelves'[d] = Shelves[d] \/ Shelves'[d] = Slot!NotShelved
    BY <2>1 DEF SlotInv
  <2>4. QED
    BY <1>b, <2>1, <2>2, <2>3, SlotsEmptied
<1>8. ASSUME NEW k \in Keys, Slot!Drop(k) \/ Slot!Spend(k) PROVE SlotInv'
  <2>1. UNCHANGED <<Slots, Shelves, issued, MadeFor>> /\ StillKnown
    BY <1>1, <1>8 DEF Slot!Drop, Slot!Spend
  <2>2. /\ InHand' \intersect Spent' = {}
        /\ \A j \in InHand' \union Spent' : j \in InHand \union Spent
    BY <1>8, <1>b DEF Slot!Drop, Slot!Spend
  <2>3. /\ Slots' = Slots /\ Shelves' = Shelves
        /\ Shelves' = [d \in Codes |-> Shelves'[d]] /\ Slots' = [u \in Users |-> Slots'[u]]
    BY <2>1 DEF SlotInv
  <2>4. QED
    BY <2>1, <2>2, <2>3, SlotsEmptied
<1>9. ASSUME NEW users \in SUBSET Users, Slot!Lapse(users) PROVE SlotInv'
  <2>1. /\ Slots' = [u \in Users |-> IF u \in users THEN Slot!Empty ELSE Slots[u]]
        /\ UNCHANGED <<Shelves, InHand, Spent, issued, MadeFor>> /\ StillKnown
    BY <1>1, <1>9 DEF Slot!Lapse
  <2>2. /\ Slots' = [u \in Users |-> Slots'[u]]
        /\ \A u \in Users : Slots'[u] = Slots[u] \/ Slots'[u] = Slot!Empty
    BY <2>1
  <2>3. /\ Shelves' = Shelves /\ Shelves' = [d \in Codes |-> Shelves'[d]]
        /\ InHand' = InHand /\ Spent' = Spent
    BY <2>1 DEF SlotInv
  <2>4. QED
    BY <1>b, <2>1, <2>2, <2>3, SlotsEmptied
<1>10. ASSUME UNCHANGED Slot!slotVars PROVE SlotInv'
  <2>1. UNCHANGED <<Slots, Shelves, InHand, Spent, issued, MadeFor>> /\ StillKnown
    BY <1>1, <1>10 DEF Slot!slotVars
  <2>2. /\ Slots' = Slots /\ Shelves' = Shelves /\ InHand' = InHand /\ Spent' = Spent
        /\ Shelves' = [d \in Codes |-> Shelves'[d]] /\ Slots' = [u \in Users |-> Slots'[u]]
    BY <2>1 DEF SlotInv
  <2>3. QED
    BY <1>b, <2>1, <2>2, SlotsEmptied
<1>11. 0 .. MAX_FAILED_ATTEMPTS - 1 \subseteq Nat
  BY ResetAssumption
<1>12. QED
  BY <1>2, <1>3, <1>4, <1>5, <1>6, <1>7, <1>8, <1>9, <1>10, <1>11, IssueKeeps DEF Slot!Next

(* What is nowhere, neither in hand nor still to be made, stays away.      *)
AwayFor(t) == Slot!Nowhere(t) /\ (t.holds = "key" => t.key \notin InHand)

LEMMA AwayStep ==
  ASSUME SlotInv, [Slot!Next]_(Slot!slotVars), NEW t, KnownThing(t), AwayFor(t)
  PROVE  AwayFor(t)'
<1>a. \A v \in Users : ~Slot!Same(Slots[v], t)
  BY DEF AwayFor, Slot!Nowhere
<1>b. \A d \in Codes : ~Slot!Same(Shelves[d], t)
  BY DEF AwayFor, Slot!Nowhere
<1>c. ~Slot!Same(Slot!Empty, t) /\ ~Slot!Same(Slot!NotShelved, t)
  BY SlotFields DEF Slot!Same
<1>d. \A c, n : Slot!Code(c, n).holds = "code" /\ Slot!Code(c, n).code = c
  BY SlotFields
<1>e. \A k : Slot!Key(k).holds = "key" /\ Slot!Key(k).key = k
  BY SlotFields
<1>f. t.holds = "key" => t.key \notin InHand /\ t.key \in Keys /\ MadeFor[t.key] # NoUser
  BY DEF AwayFor, KnownThing
<1>g. t.holds = "code" => t.code \in issued
  BY DEF KnownThing
<1>h. ASSUME \A v \in Users : ~Slot!Same(Slots'[v], t),
             \A d \in Codes : ~Slot!Same(Shelves'[d], t),
             t.holds = "key" => t.key \notin InHand'
      PROVE  AwayFor(t)'
  BY <1>h DEF AwayFor, Slot!Nowhere
<1>1. ASSUME NEW u \in Users, NEW c \in Codes, Slot!Issue(u, c) PROVE AwayFor(t)'
  <2>1. /\ \A v \in Users : Slots'[v] = IF v = u THEN Slot!Code(c, 0) ELSE Slots[v]
        /\ \A d \in Codes : Shelves'[d] \in {Shelves[d], Slots[u]}
        /\ InHand' = InHand /\ c \notin issued
    BY <1>1 DEF Slot!Issue, SlotInv
  <2>2. ~Slot!Same(Slot!Code(c, 0), t)
    BY <1>d, <1>g, <2>1 DEF Slot!Same
  <2>3. QED
    BY <1>a, <1>b, <1>f, <1>h, <2>1, <2>2
<1>2. ASSUME NEW u \in Users, NEW c \in Codes, Slot!Undo(u, c) PROVE AwayFor(t)'
  <2>1. /\ \A v \in Users : Slots'[v] = IF v = u THEN Shelves[c] ELSE Slots[v]
        /\ \A d \in Codes : Shelves'[d] \in {Shelves[d], Slot!NotShelved}
        /\ InHand' = InHand
    BY <1>2 DEF Slot!Undo, SlotInv
  <2>2. QED
    BY <1>a, <1>b, <1>c, <1>f, <1>h, <2>1
<1>3. ASSUME NEW u \in Users, NEW c \in Codes, NEW n \in Nat, Slot!Miss(u, c, n)
      PROVE  AwayFor(t)'
  <2>1. /\ \A v \in Users : Slots'[v] = IF v = u THEN Slot!Code(c, n + 1) ELSE Slots[v]
        /\ Slots[u] = Slot!Code(c, n) /\ Shelves' = Shelves /\ InHand' = InHand
    BY <1>3 DEF Slot!Miss, SlotInv
  <2>2. Slots[u].holds = "code" /\ Slots[u].code = c
    BY <1>d, <2>1
  <2>3. ~Slot!Same(Slot!Code(c, n + 1), t)
    BY <1>a, <1>d, <2>2 DEF Slot!Same
  <2>4. QED
    BY <1>a, <1>b, <1>f, <1>h, <2>1, <2>3
<1>4. ASSUME NEW u \in Users, NEW c \in Codes, NEW n \in Nat, NEW k \in Keys,
             Slot!Exchange(u, c, n, k)
      PROVE  AwayFor(t)'
  <2>1. /\ \A v \in Users : Slots'[v] = IF v = u THEN Slot!Key(k) ELSE Slots[v]
        /\ MadeFor[k] = NoUser /\ Shelves' = Shelves /\ InHand' = InHand
    BY <1>4 DEF Slot!Exchange, SlotInv
  <2>2. ~Slot!Same(Slot!Key(k), t)
    BY <1>e, <1>f, <2>1 DEF Slot!Same
  <2>3. QED
    BY <1>a, <1>b, <1>f, <1>h, <2>1, <2>2
<1>5. ASSUME NEW u \in Users, NEW k \in Keys, Slot!Take(u, k) PROVE AwayFor(t)'
  <2>1. /\ \A v \in Users : Slots'[v] = IF v = u THEN Slot!Empty ELSE Slots[v]
        /\ Slots[u] = Slot!Key(k) /\ Shelves' = Shelves /\ InHand' = InHand \union {k}
    BY <1>5 DEF Slot!Take, SlotInv
  <2>2. Slots[u].holds = "key" /\ Slots[u].key = k
    BY <1>e, <2>1
  <2>3. t.holds = "key" => t.key # k
    BY <1>a, <2>2 DEF Slot!Same
  <2>4. QED
    BY <1>a, <1>b, <1>c, <1>f, <1>h, <2>1, <2>3
<1>6. ASSUME NEW u \in Users, NEW k \in Keys, Slot!PutBack(u, k) PROVE AwayFor(t)'
  <2>1. /\ \A v \in Users : Slots'[v] = IF v = u THEN Slot!Key(k) ELSE Slots[v]
        /\ k \in InHand /\ Shelves' = Shelves /\ InHand' = InHand \ {k}
    BY <1>6 DEF Slot!PutBack, SlotInv
  <2>2. ~Slot!Same(Slot!Key(k), t)
    BY <1>e, <1>f, <2>1 DEF Slot!Same
  <2>3. QED
    BY <1>a, <1>b, <1>f, <1>h, <2>1, <2>2
<1>7. ASSUME NEW c \in Codes, Slot!Settle(c) PROVE AwayFor(t)'
  <2>1. /\ \A d \in Codes : Shelves'[d] \in {Shelves[d], Slot!NotShelved}
        /\ Slots' = Slots /\ InHand' = InHand
    BY <1>7 DEF Slot!Settle, SlotInv
  <2>2. QED
    BY <1>a, <1>b, <1>c, <1>f, <1>h, <2>1
<1>8. ASSUME NEW k \in Keys, Slot!Drop(k) \/ Slot!Spend(k) PROVE AwayFor(t)'
  <2>1. Slots' = Slots /\ Shelves' = Shelves /\ InHand' = InHand \ {k}
    BY <1>8 DEF Slot!Drop, Slot!Spend
  <2>2. QED
    BY <1>a, <1>b, <1>f, <1>h, <2>1
<1>9. ASSUME NEW users \in SUBSET Users, Slot!Lapse(users) PROVE AwayFor(t)'
  <2>1. /\ \A v \in Users : Slots'[v] = IF v \in users THEN Slot!Empty ELSE Slots[v]
        /\ Shelves' = Shelves /\ InHand' = InHand
    BY <1>9 DEF Slot!Lapse
  <2>2. QED
    BY <1>a, <1>b, <1>c, <1>f, <1>h, <2>1
<1>10. ASSUME UNCHANGED Slot!slotVars PROVE AwayFor(t)'
  <2>1. Slots' = Slots /\ Shelves' = Shelves /\ InHand' = InHand
    BY <1>10 DEF Slot!slotVars
  <2>2. QED
    BY <1>a, <1>b, <1>f, <1>h, <2>1
<1>11. 0 .. MAX_FAILED_ATTEMPTS - 1 \subseteq Nat
  BY ResetAssumption
<1>12. QED
  BY <1>1, <1>2, <1>3, <1>4, <1>5, <1>6, <1>7, <1>8, <1>9, <1>10, <1>11 DEF Slot!Next

LEMMA SlotAlways == Slot!Spec => []SlotInv
<1>1. Slot!Init => SlotInv
  BY SlotInvInit
<1>2. SlotInv /\ [Slot!Next]_(Slot!slotVars) => SlotInv'
  BY SlotInvStep
<1>3. QED
  BY <1>1, <1>2, PTL DEF Slot!Spec

(* Whatever the requests, restarts, lapses and races do with the entries   *)
(* of the memory store and of Redis, no code and no key is ever in two     *)
(* places at once: not in two users' slots, not in a slot and in the       *)
(* snapshot a request may roll back to, not in hand of a reset_password    *)
(* and still there to be taken, and not spent and there or in hand again.  *)
THEOREM NeverInTwoPlaces == Spec => []Slot!OnePlace
<1>1. SlotInv => Slot!OnePlace
  BY DEF SlotInv
<1>2. QED
  BY <1>1, Refinement, SlotAlways, PTL DEF ImplementsSlot

(* A code or a reset key that has left for good -- exchanged, superseded   *)
(* without a way back, lapsed, lost with a crash, or spent -- is accepted  *)
(* by nobody again: it never turns up in a slot, in a snapshot to roll     *)
(* back to, or in the hand of a reset_password that may put it back.       *)
THEOREM NothingComesBack == Spec => Slot!GoneForGood
<1> DEFINE Away == /\ \A c \in issued : Slot!Nowhere(Slot!Code(c, 0))
                                          => Slot!Nowhere(Slot!Code(c, 0))'
                   /\ \A k \in Keys : MadeFor[k] # NoUser /\ k \notin InHand
                                        /\ Slot!Nowhere(Slot!Key(k))
                                      => k \notin InHand' /\ Slot!Nowhere(Slot!Key(k))'
<1>1. SlotInv /\ [Slot!Next]_(Slot!slotVars) => Away
  <2> SUFFICES ASSUME SlotInv, [Slot!Next]_(Slot!slotVars) PROVE Away
    OBVIOUS
  <2>1. ASSUME NEW c \in issued, Slot!Nowhere(Slot!Code(c, 0))
        PROVE  Slot!Nowhere(Slot!Code(c, 0))'
    <3>1. PICK t : t = Slot!Code(c, 0)
      OBVIOUS
    <3>2. t.holds = "code" /\ t.code = c
      BY <3>1, SlotFields
    <3>3. KnownThing(t) /\ AwayFor(t)
      BY <2>1, <3>1, <3>2 DEF KnownThing, AwayFor
    <3>4. Slot!Nowhere(t)'
      BY <3>3, AwayStep DEF AwayFor
    <3>5. QED
      BY <3>1, <3>4
  <2>2. ASSUME NEW k \in Keys, MadeFor[k] # NoUser, k \notin InHand, Slot!Nowhere(Slot!Key(k))
        PROVE  k \notin InHand' /\ Slot!Nowhere(Slot!Key(k))'
    <3>1. PICK t : t = Slot!Key(k)
      OBVIOUS
    <3>2. t.holds = "key" /\ t.key = k
      BY <3>1, SlotFields
    <3>3. KnownThing(t) /\ AwayFor(t)
      BY <2>2, <3>1, <3>2 DEF KnownThing, AwayFor
    <3>4. k \notin InHand' /\ Slot!Nowhere(t)'
      BY <3>2, <3>3, AwayStep DEF AwayFor
    <3>5. QED
      BY <3>1, <3>4
  <2>3. QED
    BY <2>1, <2>2
<1>2. SlotInv /\ [Slot!Next]_(Slot!slotVars) => [Away]_(Slot!slotVars)
  BY <1>1
<1>3. QED
  BY <1>2, Refinement, SlotAlways, PTL DEF ImplementsSlot, Slot!Spec, Slot!GoneForGood
=============================================================================

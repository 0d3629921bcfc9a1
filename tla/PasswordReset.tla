--------------------------- MODULE PasswordReset ---------------------------
(***************************************************************************)
(* Password reset of the core server                                       *)
(* (core_server/src/features/auth/password_reset).                         *)
(*                                                                         *)
(* Every HTTP request is a process.  Between two awaits it holds a local   *)
(* snapshot; what it shares with the others lives in Redis: one state key  *)
(* per user, changed only by four Lua scripts that Redis runs atomically,  *)
(* and one index key per live reset key, pointing back at the user.  The   *)
(* email queue only shows in the outcome of pushing to it; PasswordReset-  *)
(* Mail adds the queue and its worker.                                     *)
(*                                                                         *)
(* Argon2 and BLAKE3 hashes are abstracted to the secret they hash, JSON   *)
(* payloads to the value they encode.  One tick of the clock stands for a  *)
(* minute.  `wrong', `granted' and `minted' are history variables.         *)
(*                                                                         *)
(* Operators named Faulty... are not part of the model: each is the        *)
(* operator after it with a mistake, which some property must notice.      *)
(***************************************************************************)
EXTENDS Integers, FiniteSets

CONSTANTS
  Users, Requests, Codes, Keys,
  NoUser, NoCode, NoKey,
  Outcomes,              \* how a call to Redis, Postgres or the queue may end
  Abandons,              \* requests whose client may hang up, or whose server may die
  MAX_FAILED_ATTEMPTS, CODE_EXPIRES, RESEND_COOLDOWN, KEY_EXPIRES,
  MaxTime                \* bound: no tick beyond it

ASSUME ResetAssumption ==
  /\ NoUser \notin Users /\ NoCode \notin Codes /\ NoKey \notin Keys
  /\ "ok" \in Outcomes /\ Outcomes \subseteq {"ok", "error", "lost"}
  /\ Abandons \subseteq Requests
  /\ MAX_FAILED_ATTEMPTS \in Nat \ {0}
  /\ CODE_EXPIRES \in Nat \ {0} /\ KEY_EXPIRES \in Nat \ {0}
  /\ RESEND_COOLDOWN \in 0 .. CODE_EXPIRES - 1
  /\ MaxTime \in Nat

VARIABLES
  now,
  accounts,  \* users with a row in Postgres and a verified email
  password,  \* the reset key the user's password was last set with
  state,     \* Redis: auth:password-reset:user:<id>
  index,     \* Redis: auth:password-reset:key:<hash>
  req,       \* what each request holds between two awaits
  issued,    \* codes ever stored
  minted,    \* for each reset key, whom it was stored for and when
  wrong,     \* for each code, how many guesses were answered with "invalid"
  granted    \* for each key, how many requests it was redeemed by

vars == <<now, accounts, password, state, index, req, issued, minted, wrong,
          granted>>

-----------------------------------------------------------------------------
(* What a state key holds.                                                 *)

Absent == [kind |-> "Absent"]
AwaitingCode(c, t, n) ==
  [kind |-> "AwaitingCode", code |-> c, sentAt |-> t, failedAttempts |-> n]
AwaitingPassword(k, e) ==
  [kind |-> "AwaitingPassword", key |-> k, expiresAt |-> e]

PasswordResetState ==
  [kind: {"AwaitingCode"}, code: Codes, sentAt: Nat, failedAttempts: Nat]
    \union [kind: {"AwaitingPassword"}, key: Keys, expiresAt: Nat]

HasCode(s, c) == s.kind = "AwaitingCode" /\ s.code = c
HasKey(s, k)  == s.kind = "AwaitingPassword" /\ s.key = k

ExpiresAt(s) == IF s.kind = "AwaitingCode" THEN s.sentAt + CODE_EXPIRES
                                           ELSE s.expiresAt

IsInCodeResendCooldown(s) ==
  s.kind = "AwaitingCode" /\ now - s.sentAt < RESEND_COOLDOWN

FaultyIsVerifiable(s) == s.kind = "AwaitingCode" /\ now <= ExpiresAt(s)

IsVerifiable(s) ==
  /\ s.kind = "AwaitingCode"
  /\ s.failedAttempts < MAX_FAILED_ATTEMPTS
  /\ now <= ExpiresAt(s)

(* ttl_seconds: what would expire at once is not written at all.           *)
HasTtl(s) == ExpiresAt(s) > now

-----------------------------------------------------------------------------
(* Redis.  A script that ends "lost" did run, only its reply never came.   *)

NoEntry == [user |-> NoUser, expiresAt |-> 0]
Entry   == [user: Users, expiresAt: Nat]

Runs(o) == o # "error"

(* save_password_reset_state_if_matches.lua, with the check of the TTL its *)
(* only caller makes; `expected' is Absent when no state was loaded.       *)
FaultyCanSave(u, expected, next) == HasTtl(next)

CanSave(u, expected, next) == HasTtl(next) /\ state[u] = expected

FaultySave(u, expected, next) ==
  /\ state' = [state EXCEPT ![u] = next]
  /\ index' = [k \in Keys |->
                 IF HasKey(next, k) THEN [user |-> u, expiresAt |-> next.expiresAt]
                                    ELSE index[k]]

Save(u, expected, next) ==
  /\ state' = [state EXCEPT ![u] = next]
  /\ index' = [k \in Keys |->
                 IF HasKey(next, k)
                 THEN [user |-> u, expiresAt |-> next.expiresAt]
                 ELSE IF HasKey(expected, k) THEN NoEntry ELSE index[k]]

(* clear_password_reset_state_if_matches.lua, when the payload matches.    *)
Clear(u, expected) ==
  /\ state' = [state EXCEPT ![u] = Absent]
  /\ index' = [k \in Keys |-> IF HasKey(expected, k) THEN NoEntry ELSE index[k]]

(* increment_failed_attempts_if_matches.lua, when the payload matches.     *)
Increment(u) ==
  /\ state' = [state EXCEPT ![u] =
                 AwaitingCode(@.code, @.sentAt, @.failedAttempts + 1)]
  /\ UNCHANGED index

(* consume_password_reset_key.lua: the user it finds, and what it deletes. *)
Consumable(k) ==
  /\ index[k] # NoEntry
  /\ HasKey(state[index[k].user], k)

FaultyConsume(k) == UNCHANGED <<state, index>>

Consume(k) ==
  /\ state' = IF Consumable(k)
              THEN [state EXCEPT ![index[k].user] = Absent] ELSE state
  /\ index' = [index EXCEPT ![k] = NoEntry]

RedisUnchanged == UNCHANGED <<state, index>>

-----------------------------------------------------------------------------
(* Requests.                                                               *)

Req(pc, u, prev, c, k, t) ==
  [pc |-> pc, user |-> u, prev |-> prev, code |-> c, key |-> k, at |-> t]

Idle == Req("idle", NoUser, Absent, NoCode, NoKey, 0)

ForgotPC == {"forgot_save", "forgot_push", "forgot_rollback"}
VerifyPC == {"verify_load", "verify_check"}
ResetPC  == {"reset_find", "reset_set", "reset_restore"}

Stored == PasswordResetState \union {Absent}

Request ==
  [pc: {"idle"} \union ForgotPC \union VerifyPC \union ResetPC,
   user: Users \union {NoUser}, prev: Stored,
   code: Codes \union {NoCode}, key: Keys \union {NoKey}, at: Nat]

Become(r, q) == req' = [req EXCEPT ![r] = q]
Respond(r)   == Become(r, Idle)

NoMint == [user |-> NoUser, at |-> 0]
Mint   == [user: Users \union {NoUser}, at: Nat]

TypeOK ==
  /\ now \in Nat
  /\ accounts \subseteq Users
  /\ password \in [Users -> Keys \union {NoKey}]
  /\ state \in [Users -> Stored]
  /\ index \in [Keys -> Entry \union {NoEntry}]
  /\ req \in [Requests -> Request]
  /\ issued \subseteq Codes
  /\ minted \in [Keys -> Mint]
  /\ wrong \in [Codes -> Nat]
  /\ granted \in [Keys -> Nat]

Init ==
  /\ now = 0
  /\ accounts = Users
  /\ password = [u \in Users |-> NoKey]
  /\ state = [u \in Users |-> Absent]
  /\ index = [k \in Keys |-> NoEntry]
  /\ req = [r \in Requests |-> Idle]
  /\ issued = {}
  /\ minted = [k \in Keys |-> NoMint]
  /\ wrong = [c \in Codes |-> 0]
  /\ granted = [k \in Keys |-> 0]

-----------------------------------------------------------------------------
(* forgot_password                                                         *)

(* A generated code repeats no code stored before or about to be stored.   *)
FreshCodes ==
  Codes \ (issued \union {req[r].code : r \in {q \in Requests : req[q].pc \in ForgotPC}})

(* A code is generated and hashed, and only then the state loaded and the  *)
(* cooldown checked.  The early returns (unknown or unverified email,      *)
(* cooldown, failed read) change nothing and are left out.  Bound: the     *)
(* clock must be able to outlast the code.                                 *)
ForgotPassword(r, u) ==
  /\ req[r].pc = "idle"
  /\ u \in accounts
  /\ ~IsInCodeResendCooldown(state[u])
  /\ now + CODE_EXPIRES <= MaxTime
  /\ \E c \in FreshCodes : Become(r, Req("forgot_save", u, state[u], c, NoKey, now))
  /\ UNCHANGED <<now, accounts, password, state, index, issued, minted, wrong,
                 granted>>

NextState(r) == AwaitingCode(req[r].code, req[r].at, 0)

(* save_password_reset_state_if_unmodified; anything but a confirmed save  *)
(* ends the request before the email is queued.                            *)
ForgotSave(r, o) ==
  LET u == req[r].user  saved == CanSave(u, req[r].prev, NextState(r))
  IN /\ req[r].pc = "forgot_save"
     /\ IF saved /\ Runs(o)
        THEN Save(u, req[r].prev, NextState(r)) /\ issued' = issued \union {req[r].code}
        ELSE RedisUnchanged /\ UNCHANGED issued
     /\ IF saved /\ o = "ok"
        THEN Become(r, [req[r] EXCEPT !.pc = "forgot_push"])
        ELSE Respond(r)
     /\ UNCHANGED <<now, accounts, password, minted, wrong, granted>>

ForgotPush(r, o) ==
  /\ req[r].pc = "forgot_push"
  /\ IF o = "ok" THEN Respond(r)
                 ELSE Become(r, [req[r] EXCEPT !.pc = "forgot_rollback"])
  /\ UNCHANGED <<now, accounts, password, state, index, issued, minted, wrong, granted>>

(* rollback_password_reset_state: back to what was loaded, or to nothing.  *)
FaultyForgotRollback(r, o) ==
  LET u == req[r].user  prev == req[r].prev
  IN /\ req[r].pc = "forgot_rollback"
     /\ IF ~Runs(o) THEN RedisUnchanged
        ELSE IF prev = Absent THEN Clear(u, state[u])
        ELSE IF HasTtl(prev)  THEN Save(u, state[u], prev)
        ELSE RedisUnchanged
     /\ Respond(r)
     /\ UNCHANGED <<now, accounts, password, issued, minted, wrong, granted>>

ForgotRollback(r, o) ==
  LET u == req[r].user  prev == req[r].prev
  IN /\ req[r].pc = "forgot_rollback"
     /\ IF ~Runs(o) \/ state[u] # NextState(r)
        THEN RedisUnchanged
        ELSE IF prev = Absent THEN Clear(u, NextState(r))
        ELSE IF HasTtl(prev)  THEN Save(u, NextState(r), prev)
        ELSE RedisUnchanged
     /\ Respond(r)
     /\ UNCHANGED <<now, accounts, password, issued, minted, wrong, granted>>

-----------------------------------------------------------------------------
(* verify_reset_code                                                       *)

(* The submitted code is any code ever stored, or NoCode: a wrong guess.   *)
VerifyResetCode(r, u, c) ==
  /\ req[r].pc = "idle"
  /\ u \in accounts
  /\ Become(r, Req("verify_load", u, Absent, c, NoKey, 0))
  /\ UNCHANGED <<now, accounts, password, state, index, issued, minted, wrong,
                 granted>>

(* Head of the loop: nothing verifiable, or a failed read, ends it.        *)
VerifyLoad(r, o) ==
  LET s == state[req[r].user]
  IN /\ req[r].pc = "verify_load"
     /\ IF o = "ok" /\ IsVerifiable(s)
        THEN Become(r, [req[r] EXCEPT !.pc = "verify_check", !.prev = s])
        ELSE Respond(r)
     /\ UNCHANGED <<now, accounts, password, state, index, issued, minted,
                    wrong, granted>>

Reload(r) == Become(r, [req[r] EXCEPT !.pc = "verify_load", !.prev = Absent])

(* A wrong code, found by the slow hash comparison, is counted by the      *)
(* script against the very state it was compared with, or looked up again. *)
FaultyVerifyWrong(r, o) ==
  LET u == req[r].user  prev == req[r].prev
  IN /\ req[r].pc = "verify_check"
     /\ prev.code # req[r].code
     /\ IF Runs(o)
        THEN state' = [state EXCEPT ![u] =
                         [prev EXCEPT !.failedAttempts = @ + 1]]
        ELSE UNCHANGED state
     /\ wrong' = IF o = "ok" THEN [wrong EXCEPT ![prev.code] = @ + 1] ELSE wrong
     /\ Respond(r)
     /\ UNCHANGED <<now, accounts, password, index, issued, minted, granted>>

FaultyCompareVerifyWrong(r, o) ==
  LET u == req[r].user  prev == req[r].prev
      matches == state[u] = [prev EXCEPT !.failedAttempts = @ + 1]
  IN /\ req[r].pc = "verify_check"
     /\ prev.code # req[r].code
     /\ IF matches /\ Runs(o) THEN Increment(u) ELSE RedisUnchanged
     /\ IF matches /\ o = "ok"
        THEN wrong' = [wrong EXCEPT ![prev.code] = @ + 1]
        ELSE UNCHANGED wrong
     /\ IF o = "ok" /\ ~matches THEN Reload(r) ELSE Respond(r)
     /\ UNCHANGED <<now, accounts, password, issued, minted, granted>>

VerifyWrong(r, o) ==
  LET u == req[r].user  prev == req[r].prev  matches == state[u] = prev
  IN /\ req[r].pc = "verify_check"
     /\ prev.code # req[r].code
     /\ IF matches /\ Runs(o) THEN Increment(u) ELSE RedisUnchanged
     /\ IF matches /\ o = "ok"
        THEN wrong' = [wrong EXCEPT ![prev.code] = @ + 1]
        ELSE UNCHANGED wrong
     /\ IF o = "ok" /\ ~matches THEN Reload(r) ELSE Respond(r)
     /\ UNCHANGED <<now, accounts, password, issued, minted, granted>>

(* The script's `TTL <= 0' branch: TTL is rounded to the nearest second,   *)
(* so in the last instants of the code it reads 0 and the state goes.  The *)
(* handler looks again, unless the reply is lost.                          *)
VerifyWrongLapsed(r) ==
  LET u == req[r].user  prev == req[r].prev
  IN /\ req[r].pc = "verify_check"
     /\ prev.code # req[r].code
     /\ state[u] = prev
     /\ ExpiresAt(prev) <= now + 1
     /\ state' = [state EXCEPT ![u] = Absent]
     /\ Reload(r) \/ ("lost" \in Outcomes /\ Respond(r))
     /\ UNCHANGED <<now, accounts, password, index, issued, minted,
                    wrong, granted>>

(* The right code is exchanged for a new reset key, or looked up again.    *)
VerifyRight(r, o) ==
  LET u == req[r].user  prev == req[r].prev  matches == state[u] = prev
  IN /\ req[r].pc = "verify_check"
     /\ prev.code = req[r].code
     /\ IF matches /\ Runs(o)
        THEN \E k \in {x \in Keys : minted[x] = NoMint} :
               /\ Save(u, prev, AwaitingPassword(k, now + KEY_EXPIRES))
               /\ minted' = [minted EXCEPT ![k] = [user |-> u, at |-> now]]
        ELSE RedisUnchanged /\ UNCHANGED minted
     /\ IF o = "ok" /\ ~matches THEN Reload(r) ELSE Respond(r)
     /\ UNCHANGED <<now, accounts, password, issued, wrong, granted>>

-----------------------------------------------------------------------------
(* reset_password                                                          *)

(* The key is consumed before the account is looked at.  Any key ever      *)
(* stored may be presented, by any number of requests.                     *)
ResetPassword(r, k, o) ==
  /\ req[r].pc = "idle"
  /\ minted[k] # NoMint
  /\ IF Runs(o) THEN Consume(k) ELSE RedisUnchanged
  /\ IF o = "ok" /\ Consumable(k)
     THEN LET u == index[k].user
          IN Become(r, Req("reset_find", u, Absent, NoCode, k, state[u].expiresAt))
     ELSE UNCHANGED req
  /\ UNCHANGED <<now, accounts, password, issued, minted, wrong, granted>>

ResetFind(r, o) ==
  /\ req[r].pc = "reset_find"
  /\ IF o # "ok" THEN Become(r, [req[r] EXCEPT !.pc = "reset_restore"])
     ELSE IF req[r].user \in accounts
          THEN Become(r, [req[r] EXCEPT !.pc = "reset_set"])
          ELSE Respond(r)
  /\ UNCHANGED <<now, accounts, password, state, index, issued, minted, wrong,
                 granted>>

(* set_password updates the row by its id; no row is an error.             *)
ResetSet(r, o) ==
  LET u == req[r].user  found == u \in accounts
  IN /\ req[r].pc = "reset_set"
     /\ password' = IF found /\ Runs(o) THEN [password EXCEPT ![u] = req[r].key]
                                        ELSE password
     /\ IF found /\ o = "ok"
        THEN Respond(r) /\ granted' = [granted EXCEPT ![req[r].key] = @ + 1]
        ELSE Become(r, [req[r] EXCEPT !.pc = "reset_restore"]) /\ UNCHANGED granted
     /\ UNCHANGED <<now, accounts, state, index, issued, minted, wrong>>

(* restore_consumed_password_reset_key: only over an empty slot, and with  *)
(* the expiry the key had.                                                 *)
FaultyResetRestore(r, o) ==
  LET u == req[r].user  next == AwaitingPassword(req[r].key, now + KEY_EXPIRES)
  IN /\ req[r].pc = "reset_restore"
     /\ IF Runs(o) /\ CanSave(u, Absent, next) THEN Save(u, Absent, next)
                                               ELSE RedisUnchanged
     /\ Respond(r)
     /\ UNCHANGED <<now, accounts, password, issued, minted, wrong, granted>>

ResetRestore(r, o) ==
  LET u == req[r].user  next == AwaitingPassword(req[r].key, req[r].at)
  IN /\ req[r].pc = "reset_restore"
     /\ IF Runs(o) /\ CanSave(u, Absent, next) THEN Save(u, Absent, next)
                                               ELSE RedisUnchanged
     /\ Respond(r)
     /\ UNCHANGED <<now, accounts, password, issued, minted, wrong, granted>>

(* The future of a handler is dropped between two awaits: the client hung  *)
(* up or the server died.  Nothing is undone.                              *)
Abandon(r) ==
  /\ r \in Abandons
  /\ req[r].pc # "idle"
  /\ Respond(r)
  /\ UNCHANGED <<now, accounts, password, state, index, issued, minted, wrong,
                 granted>>

-----------------------------------------------------------------------------
(* The environment.                                                        *)

(* unverified_user_cleanup deletes by id what it selected before: a row    *)
(* verified in between goes with the others.                               *)
DeleteAccount(u) ==
  /\ u \in accounts
  /\ accounts' = accounts \ {u}
  /\ UNCHANGED <<now, password, state, index, req, issued, minted,
                 wrong, granted>>

(* Redis drops what has expired.  Each counted attempt writes the state    *)
(* back with its TTL rounded, so a state with n attempts may outlive its   *)
(* code, by n ticks at most.                                               *)
MayLinger(u, t) ==
  /\ state[u].kind = "AwaitingCode"
  /\ ExpiresAt(state[u]) + state[u].failedAttempts > t

Tick ==
  LET expired == {u \in Users : state[u] # Absent /\ ExpiresAt(state[u]) <= now + 1}
  IN /\ now < MaxTime
     /\ now' = now + 1
     /\ \E lingering \in SUBSET {u \in expired : MayLinger(u, now + 1)} :
          state' = [u \in Users |-> IF u \in expired \ lingering THEN Absent ELSE state[u]]
     /\ index' = [k \in Keys |-> IF index[k].expiresAt <= now + 1 THEN NoEntry ELSE index[k]]
     /\ UNCHANGED <<accounts, password, req, issued, minted, wrong, granted>>

-----------------------------------------------------------------------------
(* What a request does on its own, once submitted, without the email queue.*)
Proceed(r, o) ==
  \/ ForgotSave(r, o) \/ ForgotRollback(r, o)
  \/ VerifyLoad(r, o) \/ VerifyWrong(r, o) \/ VerifyRight(r, o)
  \/ ResetFind(r, o) \/ ResetSet(r, o) \/ ResetRestore(r, o)

Submit(r) ==
  \/ \E u \in Users : ForgotPassword(r, u)
  \/ \E u \in Users, c \in issued \union {NoCode} : VerifyResetCode(r, u, c)
  \/ \E k \in Keys, o \in Outcomes : ResetPassword(r, k, o)

Step(r) ==
  \/ \E o \in Outcomes : Proceed(r, o) \/ ForgotPush(r, o)
  \/ VerifyWrongLapsed(r)

Next ==
  \/ \E r \in Requests : Submit(r) \/ Step(r) \/ Abandon(r)
  \/ \E u \in Users : DeleteAccount(u)
  \/ Tick

Spec == Init /\ [][Next]_vars

(* The runtime keeps polling a handler whose await has come back.  Users   *)
(* promise nothing, and no time need pass.                                 *)
FairSpec == Spec /\ \A r \in Requests : WF_vars(Step(r))

-----------------------------------------------------------------------------
(* Properties.                                                             *)

(* The scripts keep the two Redis keys of a reset key together through     *)
(* saves, rollbacks, restores and expiry: a key is indexed exactly when    *)
(* the state of the user it is indexed for awaits that key.                *)
IndexConsistent ==
  \A k \in Keys :
    /\ index[k] # NoEntry =>
         /\ index[k].user \in Users
         /\ HasKey(state[index[k].user], k)
         /\ state[index[k].user].expiresAt = index[k].expiresAt
    /\ \A u \in Users : HasKey(state[u], k) => index[k].user = u

(* However verifications race with each other, with new codes and with     *)
(* rollbacks that bring an old code back, no more than                     *)
(* MAX_FAILED_ATTEMPTS guesses are ever answered for one code.             *)
GuessesBounded == \A c \in Codes : wrong[c] <= MAX_FAILED_ATTEMPTS

(* However resets, restores after a failed update and rollbacks of a       *)
(* forgot_password race, a reset key is redeemed by one request at most.   *)
KeyRedeemedOnce == \A k \in Keys : granted[k] <= 1

(* A reset key only ever sets the password of the user it was made for.    *)
PasswordFromOwnKey ==
  \A u \in Users : password[u] # NoKey => minted[password[u]].user = u

(* Consuming, restoring, superseding and rolling back never prolong a key: *)
(* no request gets hold of one KEY_EXPIRES or more after it was made.      *)
KeyConsumedInTime ==
  [][\A r \in Requests :
       req[r].pc = "idle" /\ req'[r].pc = "reset_find"
         => now < minted[req'[r].key].at + KEY_EXPIRES]_vars

(* No interleaving of forgot_password requests and rollbacks swaps one     *)
(* code of a user directly for another issued within the resend cooldown.  *)
CooldownRespected ==
  [][\A u \in Users : \A c, d \in Codes :
       (HasCode(state[u], c) /\ HasCode(state'[u], d) /\ c # d)
         => \/ state'[u].sentAt - state[u].sentAt >= RESEND_COOLDOWN
            \/ state[u].sentAt - state'[u].sentAt >= RESEND_COOLDOWN]_vars

(* With no reply lost, each guess answered "invalid" is counted, and none  *)
(* twice (test verify_reset_code_counts_each_invalid_attempt_when_racing). *)
EachGuessCounted ==
  \A u \in Users, c \in Codes :
    HasCode(state[u], c) => wrong[c] = state[u].failedAttempts

(* The compare-and-swap loop of verify_reset_code ends, and not only when  *)
(* the code expires: each turn it takes again is one in which another      *)
(* request got ahead, on a finite supply of codes and attempts.            *)
VerifyReturns == \A r \in Requests : req[r].pc = "verify_load" ~> req[r].pc = "idle"

-----------------------------------------------------------------------------
(* The inductive invariant.  Codes and keys are resources: each lies in at *)
(* most one place, the Redis state of a user, the shelf of the one request *)
(* that superseded it and may still roll back, or the hand of the request  *)
(* that consumed it; snapshots held before a compare-and-swap are copies.  *)

Shelving(r) == req[r].pc \in {"forgot_push", "forgot_rollback"}

HoldsKey(r, k) ==
  \/ Shelving(r) /\ HasKey(req[r].prev, k)
  \/ req[r].pc \in ResetPC /\ req[r].key = k

ShelvesCode(r, c) == Shelving(r) /\ HasCode(req[r].prev, c)

(* What a request's locals are good for at each point of its handler.      *)
GoodRequest(q) ==
  /\ q.pc # "idle" => q.user \in Users
  /\ q.pc \in ForgotPC =>
       /\ q.code \in Codes
       /\ q.at <= now
       /\ q.prev.kind = "AwaitingCode" => q.at - q.prev.sentAt >= RESEND_COOLDOWN
  /\ q.pc \in ResetPC => q.key \in Keys
  /\ q.pc \notin ForgotPC \union {"verify_check"} => q.prev = Absent
  /\ q.pc = "verify_check" =>
       /\ q.prev.kind = "AwaitingCode"
       /\ q.prev.failedAttempts < MAX_FAILED_ATTEMPTS

RequestInv == \A r \in Requests : GoodRequest(req[r])

(* A key, wherever it is or was copied to, keeps the user and expiry it    *)
(* was made with.                                                          *)
MintInv ==
  \A k \in Keys :
    /\ \A u \in Users :
         /\ HasKey(state[u], k) =>
              minted[k].user = u /\ state[u].expiresAt = minted[k].at + KEY_EXPIRES
         /\ password[u] = k => minted[k].user = u
    /\ \A r \in Requests :
         /\ HasKey(req[r].prev, k) =>
              /\ minted[k].user = req[r].user
              /\ req[r].prev.expiresAt = minted[k].at + KEY_EXPIRES
         /\ req[r].pc \in ResetPC /\ req[r].key = k =>
              /\ minted[k].user = req[r].user
              /\ req[r].at = minted[k].at + KEY_EXPIRES
    /\ granted[k] > 0 => minted[k].user \in Users

(* A key has one holder, and none once it is redeemed.                     *)
KeyInv ==
  \A k \in Keys :
    /\ \A r, q \in Requests : HoldsKey(r, k) /\ HoldsKey(q, k) => r = q
    /\ \A u \in Users, r \in Requests : ~(HasKey(state[u], k) /\ HoldsKey(r, k))
    /\ granted[k] > 0 =>
         /\ \A u \in Users : ~HasKey(state[u], k)
         /\ \A r \in Requests : ~HoldsKey(r, k)
    /\ granted[k] <= 1

(* Nothing outlives its expiry but a code whose attempts were counted.     *)
ExpiryInv ==
  /\ \A u \in Users : state[u].kind = "AwaitingPassword" => now < state[u].expiresAt
  /\ \A k \in Keys : index[k] # NoEntry => now < index[k].expiresAt

(* A code is stored before it is anywhere, has one holder, and carries its *)
(* count of failed attempts with it.                                       *)
CodeInv ==
  \A c \in Codes :
    /\ \A u \in Users : HasCode(state[u], c) =>
         /\ c \in issued
         /\ wrong[c] <= state[u].failedAttempts
         /\ state[u].failedAttempts <= MAX_FAILED_ATTEMPTS
    /\ \A r \in Requests : HasCode(req[r].prev, c) =>
         /\ c \in issued
         /\ Shelving(r) => wrong[c] <= req[r].prev.failedAttempts
         /\ req[r].prev.failedAttempts <= MAX_FAILED_ATTEMPTS
    /\ c \notin issued => wrong[c] = 0
    /\ wrong[c] <= MAX_FAILED_ATTEMPTS
    /\ \A u, v \in Users : HasCode(state[u], c) /\ HasCode(state[v], c) => u = v
    /\ \A r, q \in Requests : ShelvesCode(r, c) /\ ShelvesCode(q, c) => r = q
    /\ \A u \in Users, r \in Requests : ~(HasCode(state[u], c) /\ ShelvesCode(r, c))

(* The code a forgot_password request generated is its own, and new until  *)
(* it is saved.                                                            *)
FreshInv ==
  \A r \in Requests :
    /\ req[r].pc = "forgot_save" => req[r].code \notin issued
    /\ \A q \in Requests :
         (req[r].pc \in ForgotPC /\ req[q].pc \in ForgotPC /\ req[r].code = req[q].code)
           => r = q

(* Type correctness, index consistency and all of the above, preserved by  *)
(* every step: each of them leans on the others.                           *)
IInv == /\ TypeOK /\ RequestInv /\ MintInv /\ KeyInv /\ ExpiryInv /\ CodeInv
        /\ FreshInv /\ IndexConsistent

(* With no reply lost, a code's count is exact wherever the code is.       *)
CountInv ==
  \A c \in Codes :
    /\ \A u \in Users : HasCode(state[u], c) => wrong[c] = state[u].failedAttempts
    /\ \A r \in Requests : ShelvesCode(r, c) => wrong[c] = req[r].prev.failedAttempts

-----------------------------------------------------------------------------
(* The refinement of ResetSlot: requests over snapshots, the compare-and-  *)
(* swap scripts, the index and the recovery paths as one slot per user.    *)

Contents(s) ==
  CASE s.kind = "Absent"           -> [holds |-> "nothing"]
    [] s.kind = "AwaitingCode"     -> [holds |-> "code", code |-> s.code,
                                       misses |-> s.failedAttempts]
    [] s.kind = "AwaitingPassword" -> [holds |-> "key", key |-> s.key]

(* The forgot_password requests that may still roll back the code c.       *)
Superseding(c) == {r \in Requests : Shelving(r) /\ req[r].code = c}

Slots   == [u \in Users |-> Contents(state[u])]
Shelves == [c \in Codes |->
              IF Superseding(c) = {} THEN [holds |-> "no shelf"]
              ELSE Contents(req[CHOOSE r \in Superseding(c) : TRUE].prev)]
InHand  == {k \in Keys : \E r \in Requests : req[r].pc \in ResetPC /\ req[r].key = k}
Spent   == {k \in Keys : granted[k] > 0}
MadeFor == [k \in Keys |-> minted[k].user]

Slot == INSTANCE ResetSlot WITH
  slot <- Slots, shelf <- Shelves, inHand <- InHand,
  spent <- Spent, usedCodes <- issued,
  madeFor <- MadeFor, Nobody <- NoUser

(* forgot_password, verify_reset_code and reset_password, with everything  *)
(* that can interrupt them, implement the atomic slot of ResetSlot.        *)
ImplementsSlot == Slot!Spec
=============================================================================

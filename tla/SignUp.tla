------------------------------- MODULE SignUp -------------------------------
(***************************************************************************)
(* Sign-up and email verification of the core server                       *)
(* (core_server/src/features/auth/sign_up and features/auth/repo.rs) with  *)
(* the worker that deletes sign-ups nobody verified                        *)
(* (core_server/src/infra/worker/unverified_user_cleanup.rs).              *)
(*                                                                         *)
(* What the requests share lies in Postgres: one row per user, and at most *)
(* one verification row per user that goes with it.  Every statement or    *)
(* short transaction is one step; between two of them a request holds what *)
(* it read.  Nothing is compared again on writing, except where an action  *)
(* says so.  Passwords and roles are left out; hashes are the code they    *)
(* hash.  `owner', `mailed' and `wrong' are history variables.             *)
(*                                                                         *)
(* Operators named Faulty... are not part of the model: each is the        *)
(* operator after it with a mistake, which some property must notice.      *)
(***************************************************************************)
EXTENDS Integers, FiniteSets

CONSTANTS
  Emails, Names, Requests, Codes,
  NoEmail, NoName, NoCode,
  MaxUsers,              \* bound: rows ever created
  Outcomes,              \* how a call to Postgres may end
  Abandons,              \* requests whose client may hang up
  MAX_FAILED_ATTEMPTS, CODE_EXPIRES, RESEND_COOLDOWN, SIGNUP_EXPIRES,
  MaxTime                \* bound: no tick beyond it

ASSUME SignUpAssumption ==
  /\ NoEmail \notin Emails /\ NoName \notin Names /\ NoCode \notin Codes
  /\ MaxUsers \in Nat
  /\ "ok" \in Outcomes /\ Outcomes \subseteq {"ok", "error", "lost"}
  /\ Abandons \subseteq Requests /\ IsFiniteSet(Requests)
  /\ MAX_FAILED_ATTEMPTS \in Nat \ {0}
  /\ CODE_EXPIRES \in Nat /\ RESEND_COOLDOWN \in Nat /\ SIGNUP_EXPIRES \in Nat
  /\ MaxTime \in Nat

VARIABLES
  now,
  lastId,        \* the sequence user ids come from
  users,         \* table user
  verification,  \* table user_email_verification
  req,           \* what each request holds between two awaits
  victims,       \* what the cleanup worker selected and will delete
  owner,         \* for each code, the user it was stored for
  mailed,        \* codes the SMTP server accepted a mail for
  wrong          \* for each code, how many guesses were answered "invalid"

vars == <<now, lastId, users, verification, req, victims, owner, mailed, wrong>>

tables  == <<lastId, users, verification>>
history == <<owner, mailed, wrong>>

Ids  == 1 .. MaxUsers
NoId == 0

NoRow == [name |-> NoName, email |-> NoEmail, verified |-> FALSE, createdAt |-> 0]
Row   == [name: Names, email: Emails, verified: BOOLEAN, createdAt: Nat]

NoVerification == [code |-> NoCode, sentAt |-> 0, failedAttempts |-> 0]
Verification   == [code: Codes, sentAt: Nat, failedAttempts: Nat]

Idle == [pc |-> "idle", email |-> NoEmail, name |-> NoName, id |-> NoId,
         old |-> NoId, code |-> NoCode, at |-> 0]

PC == {"idle", "find_name", "create", "update", "reload", "delete_email",
       "delete_name", "delete_only", "resend_load", "verify_load", "store", "mail",
       "clear", "increment", "set_verified"}

SignUpRequest ==
  [pc: PC, email: Emails \union {NoEmail}, name: Names \union {NoName},
   id: Ids \union {NoId}, old: Ids \union {NoId},
   code: Codes \union {NoCode}, at: Nat]

SignUpTypeOK ==
  /\ now \in Nat
  /\ lastId \in Ids \union {NoId}
  /\ users \in [Ids -> Row \union {NoRow}]
  /\ verification \in [Ids -> Verification \union {NoVerification}]
  /\ req \in [Requests -> SignUpRequest]
  /\ victims \subseteq Ids
  /\ owner \in [Codes -> Ids \union {NoId}]
  /\ mailed \subseteq Codes
  /\ wrong \in [Codes -> Nat]

Init ==
  /\ now = 0
  /\ lastId = NoId
  /\ users = [i \in Ids |-> NoRow]
  /\ verification = [i \in Ids |-> NoVerification]
  /\ req = [r \in Requests |-> Idle]
  /\ victims = {}
  /\ owner = [c \in Codes |-> NoId]
  /\ mailed = {}
  /\ wrong = [c \in Codes |-> 0]

-----------------------------------------------------------------------------
(* Reading and writing the two tables (features/auth/repo.rs).             *)

Runs(o) == o # "error"

Exists(i) == users[i] # NoRow

FindByEmail(e) == {i \in Ids : Exists(i) /\ users[i].email = e}
FindByName(n)  == {i \in Ids : Exists(i) /\ users[i].name = n}

(* is_unverified_signup_expired *)
SignupExpired(i) == ~users[i].verified /\ users[i].createdAt + SIGNUP_EXPIRES < now

InResendCooldown(v) == v # NoVerification /\ now - v.sentAt < RESEND_COOLDOWN

Remove(gone) ==
  /\ users' = [i \in Ids |-> IF i \in gone THEN NoRow ELSE users[i]]
  /\ verification' = [i \in Ids |-> IF i \in gone THEN NoVerification
                                                  ELSE verification[i]]
  /\ UNCHANGED lastId

(* delete_user deletes nothing but an unverified row, whatever was read.   *)
FaultyDeleteUser(i) == Remove({i})

DeleteUser(i) == Remove({i} \cap {j \in Ids : ~users[j].verified})

Become(r, q) == req' = [req EXCEPT ![r] = q]
Respond(r)   == Become(r, Idle)

-----------------------------------------------------------------------------
(* create_and_send_email_verification                                      *)

(* A generated code repeats none stored before or about to be stored.      *)
FreshCodes == {c \in Codes : owner[c] = NoId /\ \A r \in Requests : req[r].code # c}

(* Past the cooldown check, for the user as it was read: a code is made    *)
(* up and dated, to be stored once it is hashed.                           *)
Prepare(r, i) ==
  \E c \in FreshCodes :
    Become(r, [Idle EXCEPT !.pc = "store", !.id = i, !.code = c, !.at = now])

(* set_email_verification: an upsert that starts the count anew.  Without  *)
(* the user's row it fails on the foreign key.                             *)
Store(r, o) ==
  LET i == req[r].id  stored == Exists(i) /\ Runs(o)
  IN /\ req[r].pc = "store"
     /\ verification' =
          IF stored THEN [verification EXCEPT ![i] =
                            [code |-> req[r].code, sentAt |-> req[r].at,
                             failedAttempts |-> 0]]
          ELSE verification
     /\ owner' = IF stored THEN [owner EXCEPT ![req[r].code] = i] ELSE owner
     /\ IF stored /\ o = "ok" THEN Become(r, [req[r] EXCEPT !.pc = "mail"])
                              ELSE Respond(r)
     /\ UNCHANGED <<now, lastId, users, victims, mailed, wrong>>

(* The mail is sent within the request; a failure withdraws the code.      *)
FaultyMail(r, accepted) ==
  /\ req[r].pc = "mail"
  /\ IF accepted THEN mailed' = mailed \union {req[r].code} ELSE UNCHANGED mailed
  /\ Respond(r)
  /\ UNCHANGED <<now, tables, victims, owner, wrong>>

Mail(r, accepted) ==
  /\ req[r].pc = "mail"
  /\ IF accepted THEN Respond(r) /\ mailed' = mailed \union {req[r].code}
     ELSE Become(r, [req[r] EXCEPT !.pc = "clear"]) /\ UNCHANGED mailed
  /\ UNCHANGED <<now, tables, victims, owner, wrong>>

(* clear_email_verification_if_hash_matches: unless it is superseded.      *)
FaultyClearVerification(r, o) ==
  LET i == req[r].id
  IN /\ req[r].pc = "clear"
     /\ verification' = IF Runs(o) THEN [verification EXCEPT ![i] = NoVerification]
                                   ELSE verification
     /\ Respond(r)
     /\ UNCHANGED <<now, lastId, users, victims, history>>

ClearVerification(r, o) ==
  LET i == req[r].id
  IN /\ req[r].pc = "clear"
     /\ verification' = IF Runs(o) /\ verification[i].code = req[r].code
                        THEN [verification EXCEPT ![i] = NoVerification]
                        ELSE verification
     /\ Respond(r)
     /\ UNCHANGED <<now, lastId, users, victims, history>>

-----------------------------------------------------------------------------
(* sign_up                                                                 *)

(* resolve_signup_with_existing_email, up to its first write; a verified   *)
(* user with the email ends the request with nothing changed.              *)
SignUp(r, e, n) ==
  LET q == [Idle EXCEPT !.pc = "find_name", !.email = e, !.name = n]
  IN /\ req[r].pc = "idle"
     /\ \/ FindByEmail(e) = {} /\ Become(r, q)
        \/ \E i \in FindByEmail(e) :
             /\ ~users[i].verified
             /\ Become(r, IF SignupExpired(i)
                          THEN [q EXCEPT !.pc = "delete_email", !.old = i]
                          ELSE [q EXCEPT !.id = i])
     /\ UNCHANGED <<now, tables, victims, history>>

WriteUser(q) == IF q.id = NoId THEN "create" ELSE "update"

(* ensure_signup_username_available: free, the sign-up's own, or expired.  *)
FindName(r) ==
  LET others == FindByName(req[r].name) \ {req[r].id}
  IN /\ req[r].pc = "find_name"
     /\ \/ others = {} /\ Become(r, [req[r] EXCEPT !.pc = WriteUser(req[r])])
        \/ \E i \in others :
             IF SignupExpired(i)
             THEN Become(r, [req[r] EXCEPT !.pc = "delete_name", !.old = i])
             ELSE Respond(r)
     /\ UNCHANGED <<now, tables, victims, history>>

(* An expired sign-up, found by email or name, makes room for a new one; a *)
(* verification or a resend that finds one deletes it and ends.            *)
DeleteExpired(r, o) ==
  /\ req[r].pc \in {"delete_email", "delete_name", "delete_only"}
  /\ IF Runs(o) THEN DeleteUser(req[r].old) ELSE UNCHANGED tables
  /\ CASE o # "ok" \/ req[r].pc = "delete_only" -> Respond(r)
       [] o = "ok" /\ req[r].pc = "delete_email" ->
            Become(r, [req[r] EXCEPT !.pc = "find_name", !.old = NoId])
       [] o = "ok" /\ req[r].pc = "delete_name" ->
            Become(r, [req[r] EXCEPT !.pc = WriteUser(req[r]), !.old = NoId])
  /\ UNCHANGED <<now, victims, history>>

(* create_user, under the unique constraints on email and name.            *)
FaultyCreateUser(r, o) ==
  LET i == lastId + 1
      created == FindByName(req[r].name) = {} /\ Runs(o)
  IN /\ req[r].pc = "create"
     /\ i \in Ids
     /\ IF created
        THEN /\ lastId' = i
             /\ users' = [users EXCEPT ![i] = [name |-> req[r].name,
                                               email |-> req[r].email,
                                               verified |-> FALSE, createdAt |-> now]]
        ELSE UNCHANGED <<lastId, users>>
     /\ IF created /\ o = "ok" THEN Prepare(r, i) ELSE Respond(r)
     /\ UNCHANGED <<now, verification, victims, history>>

CreateUser(r, o) ==
  LET i == lastId + 1
      created == FindByEmail(req[r].email) \union FindByName(req[r].name) = {} /\ Runs(o)
  IN /\ req[r].pc = "create"
     /\ i \in Ids
     /\ IF created
        THEN /\ lastId' = i
             /\ users' = [users EXCEPT ![i] = [name |-> req[r].name,
                                               email |-> req[r].email,
                                               verified |-> FALSE, createdAt |-> now]]
        ELSE UNCHANGED <<lastId, users>>
     /\ IF created /\ o = "ok" THEN Prepare(r, i) ELSE Respond(r)
     /\ UNCHANGED <<now, verification, victims, history>>

(* A pending sign-up with the same email is taken over, by its id alone.   *)
FaultyUpdateUser(r, o) ==
  LET i == req[r].id
      updated == Exists(i) /\ FindByName(req[r].name) \subseteq {i} /\ Runs(o)
  IN /\ req[r].pc = "update"
     /\ users' = IF updated THEN [users EXCEPT ![i].name = req[r].name,
                                              ![i].createdAt = now]
                 ELSE users
     /\ IF updated /\ o = "ok" THEN Become(r, [req[r] EXCEPT !.pc = "reload"])
                               ELSE Respond(r)
     /\ UNCHANGED <<now, lastId, verification, victims, history>>

UpdateUser(r, o) ==
  LET i == req[r].id
      updated == Exists(i) /\ FindByName(req[r].name) \subseteq {i} /\ Runs(o)
  IN /\ req[r].pc = "update"
     /\ users' = IF updated THEN [users EXCEPT ![i].name = req[r].name] ELSE users
     /\ IF updated /\ o = "ok" THEN Become(r, [req[r] EXCEPT !.pc = "reload"])
                               ELSE Respond(r)
     /\ UNCHANGED <<now, lastId, verification, victims, history>>

Reload(r) ==
  LET i == req[r].id
  IN /\ req[r].pc = "reload"
     /\ IF ~Exists(i) \/ InResendCooldown(verification[i]) THEN Respond(r)
                                                           ELSE Prepare(r, i)
     /\ UNCHANGED <<now, tables, victims, history>>

-----------------------------------------------------------------------------
(* resend_verification_email: find_by_email reads the user and then, in a  *)
(* query of its own, the verification.                                     *)

ResendFind(r, e) ==
  /\ req[r].pc = "idle"
  /\ \E i \in FindByEmail(e) :
       /\ ~users[i].verified
       /\ Become(r, [Idle EXCEPT !.pc = "resend_load", !.id = i,
                                 !.at = users[i].createdAt])
  /\ UNCHANGED <<now, tables, victims, history>>

ResendLoad(r) ==
  LET i == req[r].id
  IN /\ req[r].pc = "resend_load"
     /\ IF req[r].at + SIGNUP_EXPIRES < now
        THEN Become(r, [Idle EXCEPT !.pc = "delete_only", !.old = i])
        ELSE IF InResendCooldown(verification[i]) THEN Respond(r)
        ELSE Prepare(r, i)
     /\ UNCHANGED <<now, tables, victims, history>>

-----------------------------------------------------------------------------
(* verify_email                                                            *)

(* The user, then the verification, as for a resend.  The submitted code   *)
(* is any code ever stored, or NoCode: a wrong guess.                      *)
VerifyEmail(r, e, guess) ==
  /\ req[r].pc = "idle"
  /\ \E i \in FindByEmail(e) :
       /\ ~users[i].verified
       /\ Become(r, [Idle EXCEPT !.pc = "verify_load", !.id = i, !.code = guess,
                                 !.at = users[i].createdAt])
  /\ UNCHANGED <<now, tables, victims, history>>

(* The limit, the expiry and the hash are those of the row as it was read. *)
Triable(v) ==
  /\ v # NoVerification
  /\ v.failedAttempts < MAX_FAILED_ATTEMPTS
  /\ now <= v.sentAt + CODE_EXPIRES

FaultyVerifyLoad(r) ==
  LET i == req[r].id  v == verification[i]
  IN /\ req[r].pc = "verify_load"
     /\ IF req[r].at + SIGNUP_EXPIRES < now
        THEN Become(r, [Idle EXCEPT !.pc = "delete_only", !.old = i])
        ELSE IF v # NoVerification /\ now <= v.sentAt + CODE_EXPIRES
        THEN Become(r, [Idle EXCEPT
               !.pc = IF req[r].code = v.code THEN "set_verified" ELSE "increment",
               !.id = i, !.code = v.code])
        ELSE Respond(r)
     /\ UNCHANGED <<now, tables, victims, history>>

VerifyLoad(r) ==
  LET i == req[r].id  v == verification[i]
  IN /\ req[r].pc = "verify_load"
     /\ IF req[r].at + SIGNUP_EXPIRES < now
        THEN Become(r, [Idle EXCEPT !.pc = "delete_only", !.old = i])
        ELSE IF Triable(v)
        THEN Become(r, [Idle EXCEPT
               !.pc = IF req[r].code = v.code THEN "set_verified" ELSE "increment",
               !.id = i, !.code = v.code])
        ELSE Respond(r)
     /\ UNCHANGED <<now, tables, victims, history>>

(* increment_email_verification_failed_attempts: whichever code is there.  *)
Increment(r, o) ==
  LET i == req[r].id  found == verification[i] # NoVerification
  IN /\ req[r].pc = "increment"
     /\ verification' = IF found /\ Runs(o)
                        THEN [verification EXCEPT ![i].failedAttempts = @ + 1]
                        ELSE verification
     /\ wrong' = IF found /\ o = "ok" THEN [wrong EXCEPT ![req[r].code] = @ + 1]
                                      ELSE wrong
     /\ Respond(r)
     /\ UNCHANGED <<now, lastId, users, victims, owner, mailed>>

(* set_email_verified: by id, and the verification row goes.               *)
SetVerified(r, o) ==
  LET i == req[r].id  verified == Exists(i) /\ Runs(o)
  IN /\ req[r].pc = "set_verified"
     /\ users' = IF verified THEN [users EXCEPT ![i].verified = TRUE] ELSE users
     /\ verification' = IF verified THEN [verification EXCEPT ![i] = NoVerification]
                                    ELSE verification
     /\ Respond(r)
     /\ UNCHANGED <<now, lastId, victims, history>>

(* The future of a handler is dropped between two awaits.                  *)
Abandon(r) ==
  /\ r \in Abandons
  /\ req[r].pc # "idle"
  /\ Respond(r)
  /\ UNCHANGED <<now, tables, victims, history>>

-----------------------------------------------------------------------------
(* unverified_user_cleanup: at the start of the server, then every hour.   *)

FaultyCleanupSelect ==
  /\ victims = {}
  /\ victims' = {i \in Ids : Exists(i) /\ SignupExpired(i) /\ verification[i] # NoVerification}
  /\ victims' # {}
  /\ UNCHANGED <<now, tables, req, history>>

CleanupSelect ==
  /\ victims = {}
  /\ victims' = {i \in Ids : Exists(i) /\ SignupExpired(i)}
  /\ victims' # {}
  /\ UNCHANGED <<now, tables, req, history>>

CleanupDelete(o) ==
  /\ victims # {}
  /\ IF Runs(o) THEN Remove(victims) ELSE UNCHANGED tables
  /\ victims' = {}
  /\ UNCHANGED <<now, req, history>>

Tick ==
  /\ now < MaxTime
  /\ now' = now + 1
  /\ UNCHANGED <<tables, req, victims, history>>

-----------------------------------------------------------------------------
Submit(r) ==
  \/ \E e \in Emails :
       \/ \E n \in Names : SignUp(r, e, n)
       \/ ResendFind(r, e)
       \/ \E guess \in {c \in Codes : owner[c] # NoId} \union {NoCode} :
            VerifyEmail(r, e, guess)

Step(r) ==
  \/ FindName(r) \/ Reload(r) \/ ResendLoad(r) \/ VerifyLoad(r)
  \/ \E o \in Outcomes :
       \/ DeleteExpired(r, o) \/ CreateUser(r, o) \/ UpdateUser(r, o)
       \/ Store(r, o) \/ ClearVerification(r, o)
       \/ Increment(r, o) \/ SetVerified(r, o)
  \/ \E accepted \in BOOLEAN : Mail(r, accepted)

Cleanup == CleanupSelect \/ \E o \in Outcomes : CleanupDelete(o)

Next == (\E r \in Requests : Submit(r) \/ Step(r) \/ Abandon(r)) \/ Cleanup \/ Tick

Spec == Init /\ [][Next]_vars

(* The worker runs again and again; nobody else promises anything.         *)
FairSpec == Spec /\ WF_vars(Cleanup)

-----------------------------------------------------------------------------
(* Properties.                                                             *)

(* The attempt limit is read before the slow hash comparison and counted   *)
(* after it, by user and not by code.  Still no more guesses are ever      *)
(* answered for one code than the limit allows, and one more for each      *)
(* further request that was comparing when the limit was reached.          *)
GuessesWithinRace ==
  \A c \in Codes : wrong[c] <= MAX_FAILED_ATTEMPTS - 1 + Cardinality(Requests)

(* A request that acts on an account it read as expired, or a cleanup that *)
(* does, deletes an expired sign-up; one verified in the meantime survives *)
(* every request, and is lost to the cleanup only once it was selected.    *)
DeletedOnlyExpired ==
  [][\A i \in Ids :
       Exists(i) /\ users'[i] = NoRow
         => /\ users[i].createdAt + SIGNUP_EXPIRES < now
            /\ users[i].verified => i \in victims]_vars

(* A request that withdraws its code because the mail failed, late as it   *)
(* may be, never takes away a newer code whose mail went out: such a code  *)
(* goes when the account does or is verified, or when it is superseded.    *)
MailedCodeKept ==
  [][\A i \in Ids :
       verification[i].code \in mailed /\ verification'[i] = NoVerification
         => users'[i] = NoRow \/ users'[i].verified]_vars

(* While the database answers and no handler is dropped, nobody is held    *)
(* off by the cooldown of a code that was never mailed: it was, or the     *)
(* request that stored it still has to mail or to withdraw it.             *)
StoredCodeMailed ==
  \A i \in Ids :
    verification[i] # NoVerification =>
      \/ verification[i].code \in mailed
      \/ \E r \in Requests : /\ req[r].pc \in {"mail", "clear"}
                             /\ req[r].code = verification[i].code

(* Every sign-up nobody verifies in time is gone in the end, and its email *)
(* and name are free again.                                                *)
ExpiredRemoved ==
  \A i \in Ids : Exists(i) /\ SignupExpired(i) ~> ~Exists(i) \/ users[i].verified

(* What the worker reports to delete, expired unverified users, is all it  *)
(* deletes: a user who has verified the email is never deleted.            *)
VerifiedKept ==
  [][\A i \in Ids : Exists(i) /\ users[i].verified => users'[i] # NoRow]_vars

-----------------------------------------------------------------------------
(* The inductive invariant.                                                *)

Writing == {"store", "mail", "clear"}
Judging == {"delete_email", "delete_name", "delete_only"}

(* What a request's locals are good for at each point of its handler.      *)
GoodRequest(q) ==
  /\ q.pc \in {"find_name", "create", "update", "delete_email", "delete_name"} =>
       q.email \in Emails /\ q.name \in Names
  /\ q.pc \in Writing \union {"update", "reload", "resend_load", "verify_load",
                              "increment", "set_verified"} => q.id \in Ids
  /\ q.pc \in Writing \union {"increment", "set_verified"} => q.code \in Codes
  /\ q.pc \in Judging => q.old \in Ids

RequestInv == \A r \in Requests : GoodRequest(req[r])

(* Whoever is about to delete an account, or to judge it by the age that   *)
(* was read, judges it right: ids are never used again.                    *)
JudgesRight(q) ==
  /\ q.pc \in Judging =>
       /\ q.old <= lastId
       /\ Exists(q.old) => users[q.old].createdAt + SIGNUP_EXPIRES < now
  /\ q.pc \in {"resend_load", "verify_load"} =>
       /\ q.id <= lastId
       /\ Exists(q.id) => users[q.id].createdAt = q.at

AgeInv ==
  /\ \A i \in Ids : Exists(i) => i <= lastId
  /\ \A i \in victims :
       i <= lastId /\ (Exists(i) => users[i].createdAt + SIGNUP_EXPIRES < now)
  /\ \A r \in Requests : JudgesRight(req[r])

(* A code is in the hands of one request until its mail is out, and in no  *)
(* table before that request stores it.  A stored one goes with its user.  *)
HoldsCode(q) ==
  /\ q.pc \in Writing => q.code \notin mailed
  /\ q.pc = "store" => owner[q.code] = NoId
  /\ q.pc \in {"mail", "clear", "increment", "set_verified"} => owner[q.code] = q.id

CodeInv ==
  /\ \A r \in Requests : HoldsCode(req[r])
  /\ \A r, x \in Requests :
       req[r].pc \in Writing /\ req[x].pc \in Writing /\ req[r].code = req[x].code
         => r = x
  /\ \A i \in Ids : verification[i] # NoVerification =>
       Exists(i) /\ owner[verification[i].code] = i
  /\ \A c \in mailed : owner[c] # NoId

Comparing(c) == {r \in Requests : req[r].pc = "increment" /\ req[r].code = c}

(* While a code can be tried, every answer was counted; once it cannot,    *)
(* the answers still to come are those of the requests already comparing.  *)
GuessInv ==
  \A c \in Codes :
    /\ wrong[c] + Cardinality(Comparing(c))
         <= MAX_FAILED_ATTEMPTS - 1 + Cardinality(Requests)
    /\ owner[c] = NoId => wrong[c] = 0
    /\ \A i \in Ids : verification[i].code = c => wrong[c] <= verification[i].failedAttempts

SignUpInv == SignUpTypeOK /\ RequestInv /\ AgeInv /\ CodeInv /\ GuessInv

-----------------------------------------------------------------------------
(* The refinement of AccountLife: two tables, requests that act on what    *)
(* they read, and the worker as one life per account.                      *)

Account(i) ==
  IF Exists(i)
  THEN [stage |-> IF users[i].verified THEN "verified" ELSE "pending",
        email |-> users[i].email, name |-> users[i].name]
  ELSE [stage |-> IF i <= lastId THEN "deleted" ELSE "unused",
        email |-> NoEmail, name |-> NoName]

Accounts  == [i \in Ids |-> Account(i)]
LiveCodes == [i \in Ids |-> verification[i].code]
Aged      == {i \in Ids : Exists(i) /\ users[i].createdAt + SIGNUP_EXPIRES < now}

Life == INSTANCE AccountLife WITH
  account <- Accounts, live <- LiveCodes, aged <- Aged, marked <- victims,
  codeOf <- owner, Nobody <- NoId

(* sign_up, verify_email, resend_verification_email and the worker,        *)
(* however their statements mix, implement the life of AccountLife.        *)
ImplementsLife == Life!Spec
=============================================================================

# Formal specification of THCDB

TLA+ modules for the parts of the repository that carry its own logic across
several steps and several actors, TLC configurations that check them on small
instances, and TLAPS proofs of their safety for every value of the constants.
The repository is a collaborative database of Touhou music: a Rust server
(`src/core_server`: axum, SeaORM over Postgres, Redis, apalis workers), a web
frontend (`src/web/frontend`) and import tools (`src/tools`). Paths below are
relative to `src/core_server/src`, those that begin with `web/` to `src`, unless they start
with `src/`.

Run a configuration with `tlc -config <run>.cfg <MC module>.tla`, a proof
module with `tlapm <module>.tla`. `PROJECT.json` lists the runs, for each
property a mutation of the model that breaks it, the source lines behind each
definition, the hazards and the theorems.

## 1. Inventory

| Component | State | Operations | Talks to | Hard behaviour | What makes it correct |
|---|---|---|---|---|---|
| **Password reset** `features/auth/password_reset` | Redis: one state per user (`AwaitingCode` or `AwaitingPassword`), one index entry per reset key | `forgot_password`, `verify_reset_code`, `reset_password`; four Lua scripts | Redis, user table, mail queue | snapshots held across slow hashing, compare-and-swap, rollback and restore after failures, lost replies, expiry | limits and cooldown hold in every race; one redemption per key; state and index together |
| **Reset mail queue, worker** `infra/worker/password_reset_email.rs` | Redis queue of jobs | push, check, send, reschedule | Redis state, SMTP | late, repeated and void mails; endless retry | whoever is held off by a code gets it, mails keep the cooldown, every job ends |
| **Sign-up** `features/auth/sign_up`, `features/auth/repo.rs` | tables `user`, `user_email_verification` | `sign_up`, `verify_email`, `resend_verification_email` | Postgres, SMTP within the request | check-then-act over several statements, no compare-and-swap, withdrawal after a failed mail | bounded guesses, only expired sign-ups deleted, mailed codes stay valid |
| **Unverified-user cleanup** `infra/worker/unverified_user_cleanup.rs` | none of its own | select expired ids, delete them | user table | two statements without a transaction | every expired sign-up goes, nobody else |
| **Sign-in and sessions** `features/auth/session`, `features/auth/service.rs` | session store | sign in, sign out, session check | user table | a session outliving a password change | a session is valid while the password hash is unchanged |
| **Image queue** `features/{image_queue,artist_image,release_image}` | `image_queue` with its target rows, `artist_image`, `release_image` | upload, approve, reject, revert | Postgres, image store | two moderators reading Pending at once; row locks; rollback | what is published was approved and not reverted; only what is pending is handled; a rejected entry stays so |
| **Image store, file removal** `domain/image/service.rs`, `infra/storage/file.rs`, `infra/worker/remove_file.rs` | image rows by hash, files, removal queue | create, delete, remove later | Postgres, disk, queue | rows and files change in separate steps; removal retried later | no row without its file |
| **Corrections** `features/correction`, `infra/database/sea_orm/correction.rs` | corrections, revisions, history rows | create, update, approve | all entity features, notifications | update decided on a stale read | at most one pending correction, history and entity agree |
| **Notification hub** `infra/notification.rs` | channels in a sharded map, subscriber counts | subscribe, publish, unsubscribe, clean up | web sockets | lock order, removal against a new subscriber | nobody blocks for ever, a live subscriber is reachable |
| **Notifications** `features/notification`, `infra/worker/notification_cleanup.rs` | notification rows | create for reviewers, mark read, delete old | hub, corrections | one failing insert among several | every reviewer is told |
| **Admin roles, authorization** `features/admin.rs`, `infra/authz.rs` | user roles | replace roles, check permission | all handlers | permission read outside the transaction | replaced role sets are not mixed |
| **Tag votes** `features/tag_vote` | one row per user, tag and entity | vote, withdraw | Postgres | concurrent votes of one user | one vote each |
| **Entity features** `features/{artist,release,song,label,event,tag,song_lyrics,credit_role}` | entity and history tables | create, upsert correction, apply update | corrections | multi-table writes, one transaction each | history mirrors the entity |
| **Search, home, enum tables, profiles** | none between steps | queries, one-row updates | Postgres | - | - |
| **LRC parser** `src/core_server/crates/fast_lrc` | none | parse | song lyrics | malformed tags | time stamps decoded as written |
| **Entities, migrations** `src/core_server/crates` | schema | - | Postgres | - | unique keys and foreign keys, used by the modules |
| **Session store** `web/frontend/src/state/user` | signals for user, loading, unread count; a WebSocket and its timer; a hint in localStorage | sign in, sign out, load, flush, check, reconnect | auth forms, route loaders, REST API, WebSocket | replies and close events that come late, after somebody else signed in | page and server agree; one socket, and never none |
| **Forgot-password page** `web/frontend/src/view/auth/reset_password` | step in the URL, stored session, success flag, a store of flags, two timers | send, resend, verify, change address, set password | REST API | replies after their view has gone; timers left over; flags that outlive a view | the view fits the session, no dead end, no double request |
| **Auth forms** `web/frontend/src/view/auth` | mode, verification form, address to verify | sign in, sign up, verify, resend | REST API, session store | late replies over a changed mode or address | one address shown and used; the cooldown is kept |
| **Rest of the web frontend** `src/web/frontend` | inputs of single forms | views, queries, a generated client | REST API | - | - |
| **Import tools** `src/tools` | none | one-off imports | - | - | - |

Modelled are the first four, the image queue, the notification hub, the server's
part of sessions as the frontend sees it, and the three parts of the frontend
that keep state across requests. Sign-up, the cleanup worker and password reset
share the user table: the worker deletes rows that password reset may be working
on, and sign-up produces the verified accounts that password reset needs.
Password reset pushes to the mail queue, whose worker reads the Redis state back.
The auth forms and the forgot-password page call these operations and meet their
answers, in any order; the session store is told by the forms who has signed in,
and opens the WebSocket that subscribes to the hub.

## 2. Plan

1. `PasswordReset`, its abstract specification `ResetSlot`, `PasswordResetMail`
   (composed with it), proofs of its safety and of the refinement. **Done.**
2. `SignUp` with the cleanup worker, its abstract specification `AccountLife`,
   proofs of its safety and of the refinement. **Done.**
3. `UserSession`, `ResetPasswordPage`, `AuthForm`: the frontend's side of the
   same operations, proofs of their invariants. **Done.**
4. `NotificationHub` with the shard locks; the cleanup that blocks itself, as a
   run and as theorems. **Done.**
5. `ImageQueue` as transactions with row locks, proofs of its safety. **Done.**

What is left, and would come next: the components of section 7.

## 3. What the modules model

### PasswordReset

One process per HTTP request. An action is what a handler does between two
awaits; the shared state is changed only by the Lua scripts, which Redis runs
atomically.

| Model | Code (`features/auth/password_reset`) |
|---|---|
| `state[u]`, `index[k]` | the keys `auth:password-reset:user:<id>` and `auth:password-reset:key:<hash>` |
| `req[r]` | the locals of a handler: point reached, user, loaded state, code, key |
| `accounts`, `password` | user rows with a verified email, the key the password was last set with |
| `Save`, `Clear`, `Increment`, `Consume` | the four scripts |
| `ForgotPassword`, `ForgotSave`, `ForgotPush`, `ForgotRollback` | `forgot_password`: hash, load and check the cooldown, save, queue the mail, undo |
| `VerifyResetCode`, `VerifyLoad`, `VerifyWrong`, `VerifyWrongLapsed`, `VerifyRight` | `verify_reset_code` with its loop |
| `ResetPassword`, `ResetFind`, `ResetSet`, `ResetRestore` | `reset_password`: consume, look up, update the row, put the key back |
| `Abandon` | a dropped handler future: client gone or server stopped |
| `DeleteAccount`, `Tick` | the cleanup worker's effect; time and Redis expiry |

A call may end `"ok"`, `"error"` (it did nothing) or `"lost"` (it ran, the reply
did not arrive). `issued`, `minted`, `wrong`, `granted` are history variables.

Abstractions. A hash is the secret it hashes, and a JSON payload is the value it
encodes; where a script compares re-encoded text, a mismatch of equal values
would take the branch of a lost race, which is in the model. Verifying against a
hash and the equality of codes coincide. A tick is a minute. `TTL` in the
increment script is rounded to seconds and written back, so a counted attempt
can lengthen the Redis life of a state (`MayLinger`) or find it at zero early
(`VerifyWrongLapsed`, whose reply may be lost like that of every other call). Early returns that change nothing and start nothing are
left out.

### ResetSlot

What password reset promises without requests, clock, snapshots or index: one
slot per user that is empty or holds a code with its misses or a key; a code may
yield to what it superseded only while untried; a key is taken out once, put
back at most into the empty slot of the user it was made for, or spent. The
refinement mapping stands at the end of `PasswordReset`: the slot is `state`, the
shelf is what a `forgot_password` in flight can still restore, the hand is what
`reset_password` has consumed. `OnePlace` and `GoneForGood` say what follows from
`ResetSlot` alone: a code or key is in one place at most, and once it is in none it
stays so.

### PasswordResetMail

Extends `PasswordReset` by the queue: `Enqueue` is `ForgotPush` with its job,
`JobCheck` the worker's expiry test and `password_reset_email_job_is_current`
(a failed read counts as not current), `JobSent` and `JobFailed` the SMTP call
and the rescheduling. A job goes back to the queue after a failure, or is lost
with it. Between the check and the mail the state may change. The history
variables tell why a code may be left without its mail: `stuck`, its rollback after
a failed push changed nothing; `dropped`, the worker gave up the job because it
could not read Redis or reschedule what it could not send. A job that ends because
its code has gone or expired is in neither.

### SignUp

One process per request, one action per SQL statement or short transaction,
because the tables are shared and nothing is compared again on writing except
where the code does so. `users` and `verification` are the two tables, with the
unique keys on name and email and the cascade from user to verification.
`SignUp`, `FindName`, `DeleteExpired`, `CreateUser`, `UpdateUser`, `Reload` are
`sign_up`; `Prepare`, `Store`, `Mail`, `ClearVerification` are
`create_and_send_email_verification`; `ResendFind` and `ResendLoad`, and
`VerifyEmail` and `VerifyLoad`, read user and verification in two queries, as
`find_by_email` does; `Increment` and `SetVerified` end `verify_email`. `CleanupSelect` and
`CleanupDelete` are the worker, which runs at the start of the server and then
hourly; one instance of it is modelled. Passwords and roles are left out.

### AccountLife

What sign-up and the worker promise without requests, clock and tables that two
statements find different: an account is unused, pending, verified or deleted; a
code is stored for one account, mailed, superseded, or withdrawn unmailed; the
cleanup marks pending accounts out of time and later deletes them, whatever they
have become. The mapping stands at the end of `SignUp`: the stage is read off the
row, or off the id sequence where there is none, `live` is the code of the
verification row, `marked` the ids the worker selected. Two things it allows look
odd and are the code's: `Rename` of a verified account (`UpdateUser` on a stale
snapshot) and `Verify` with any code ever stored for the account
(`set_email_verified` does not look at it again). `OnlyForward` and
`VerifiedByCode` say what follows.

### UserSession

The page's belief about who is signed in, against the server's session. A
request is three steps, sending it, the server working on it, and the handler of
its reply, with anything in between.

| Model | Code (`web/frontend/src/state/user/index.tsx` unless named) |
|---|---|
| `user`, `loading`, `unread`, `socket`, `timer` | the fields of `UserStore` |
| `hint` | the flag in localStorage, `SignedInHint_*` |
| `conn[s]` | `readyState` of every WebSocket made and not yet closed, whether the store still holds it or not |
| `Connect`, `Disconnect`, `CloseEvent`, `TimerFires`, `Message` | `connectNotificationSocket` with its listeners, `disconnectNotificationSocket` |
| `SignIn`, `ClearSession`, `SignOutReply` | `sign_in`, `clearSession`, `sign_out` |
| `Load`, `Flush`, `ProfileReply` | constructor and `trySignIn`, `flush`, `loadCurrentUser` |
| `CheckUser`, `CheckReply`, `UnreadReply` | `ensureCurrentUser`, `refreshNotifications` |
| `SubmitSignIn`, `SignInReply`, `SubmitSignOut` | the handlers of the forms (`view/auth/store/index.ts`) behind `NotSignedIn`, the sidebar |
| `Serve` | `features/auth/session/http.rs`: `sign_in` refuses whoever has a session, `sign_out` ends it |

`Fail`, `Drop`, `Open` and `Expire` are the network and the session store. The
history variable `upset` marks the mishaps that part page and server through no
step of the page; what then happens is modelled too, and the properties of the
socket hold all the same. A form submits once at a time, but leaving `/auth` and
coming back makes a new one, so two sign-ins may be under way. Delays, `updateUser`
and other tabs are left out.

### ResetPasswordPage

The page at `/auth/forgot-password`. Solid's signals are followed at once, so a
step that sets the session or the success flag ends with `Show`, which picks the
view as the `Switch` does and runs what views do on mount and cleanup. The step
comes from the URL through the router, and that takes time: `going` is the
navigation under way, `Arrive` its end, which changes `step`, the one in the props.
The handlers `await navigate(...)`, so between a reply (`VerifyReply`, `ResetReply`)
and `Arrive` the new session or success meets the old step. Views mount in passing
there: a reply to a verification that comes when the success view is shown clears
the success, which mounts the verify view, which clears the session on mount, so
that the navigation arrives at a page without one; a completed reset clears the
session, which mounts the verify view under the step `reset` until the success view
takes its place. A navigation that is overtaken by another ends with it. `byUser`
is a history variable: was the last navigation the user's.
`ui` is the uiStore, which belongs to the page and outlives the views; a
request's `page` and `view` tell whether what sent it is still there, because
its handler runs anyway. `interval` and `strays` are the cooldown intervals, the
one the view can clear and those of views that are gone; `deadline` is the expiry
timer, armed once when the reset view mounts. Typed addresses, codes and
passwords are taken as valid, which leaves out one thing: after a completed reset
on the same page the address is empty while `hasSentCode` is still set.

### AuthForm

The page at `/auth`: `form` is `verifyEmailState` and `Sync`, `Cooling`, `Ready`,
`Tick` the branches of `updateVerifyEmailState`; `saved` is the module-wide
`verificationEmail`, which survives the page but not a reload. `Show` stands for
the effect on mode and address and for the redirect when there is no address.
`told` counts down what the server asked this page to wait, per address.

### NotificationHub

`channels[u]` is the entry of the DashMap, with its age in three classes;
`sweep` the cleanup task with the shards still to visit, the one its iterator
has locked, and the entry the loop body wants to remove. `Subscribe`,
`Unsubscribe` and `Remove` need the shard free, `NextShard` holds it until the
iterator moves on. That `Iter` of dashmap 6.1 keeps the guard of the current
shard between two calls of `next` is taken from the library, which is not under
`src/`.

### ImageQueue

One process per moderator's request, and each request one transaction: `Begin`
reads and checks the status, `Insert` or `Delete` changes the published row,
`Commit` updates the entry and commits, `Refuse` is a statement that fails and
`Abort` a lost request. The history variable `upheld` holds the entries that a
transaction approved and none has reverted since, which the status alone does not
tell: a stale rejection overwrites it. Row locks are external: an insert or delete of a row
waits for the transaction that holds it (`CanInsert`, `CanDelete` and `CanCommit`
are the guards, which `NobodyStuck` uses too). `Fits` is the CHECK of the table, which
is all that keeps a stale approval from changing a rejected entry.

Operators named `Faulty...` in the modules (in `AuthForm` also `ForgetfulSync`)
are not part of a specification: each is a deliberate mistake in the definition
that follows it, and there to show that a property notices it.

## 4. Runs

The clock, the codes, the keys and the user ids are bounded, so behaviours can
end with nothing left to do; the runs do not check deadlock for that reason. The
hub's run does not because the deadlock of one task is not one of the system:
its property is what shows it.

| Run | Instance | Shows |
|---|---|---|
| `reset_race` | 1 user, 2 requests, 2 codes, 2 keys, calls fail or lose replies, both requests may be dropped, limit 2, clock to 3 | the inductive invariant `IInv`; `IndexConsistent`, `GuessesBounded`, `KeyRedeemedOnce`, `KeyConsumedInTime`, `CooldownRespected`; the refinement `ImplementsSlot` |
| `reset_live` | 1 user, 2 requests, 1 code, limit 2, calls may fail, `FairMailSpec` | `EachGuessCounted`: every answered guess counts once; `VerifyReturns`: the compare-and-swap loop ends, without the help of time; `JobsSettle`: if time passes, rescheduling ends |
| `reset_mail` | 1 user, 2 requests, 2 codes, calls may fail, limit 1, clock to 2 | `CodeHasMail`: whoever a code holds off was mailed it or will be, unless a second call failed; `MailSpacing`: mails keep the cooldown; `MailInv`, the invariant behind both |
| `signup_race` | 2 emails, 2 names, 2 requests, 2 codes, 2 ids, limit 2, calls succeed | `SignUpInv`, `GuessesWithinRace`, `DeletedOnlyExpired`, `MailedCodeKept`, `StoredCodeMailed`; the refinement `ImplementsLife` |
| `signup_cleanup` | 1 email, 1 name, 2 requests, 2 ids, both requests may be dropped, `FairSpec` | `ExpiredRemoved` |
| `signup_deleted` | 1 email, 1 request | violation of `VerifiedKept`, see below |
| `session` | 2 users, 2 requests, 2 sockets | `SocketOwned`, `NeverStranded`, `Agreement`, `BadgeOwn`, the inductive `SessionInv` |
| `reset_page` | 2 requests, cooldown 2, keys good for 2, clock to 4, 1 stray interval, `FairSpec` | `ViewHonest`, `NoOverlap`, `NotTrapped`, the inductive `PageInv`; `ResetViewEnds` |
| `auth_form` | 2 addresses, 3 requests, cooldown 2 | `EmailAgrees`, `ResendSettles`, `CooldownKept`, the inductive `AuthInv` |
| `image_queue` | 2 entries, 2 pairs, 3 moderators, `FairSpec` | `PublishedHandled`, `ApprovedPublished`, `RejectedFinal`, the inductive `QueueInv`; `RequestsEnd` |
| `image_handled` | 1 entry, 2 moderators | violation of `HandledPending`, see below |
| `hub_cleanup` | 2 users in 2 shards, 2 sockets, `FairSpec` | violation of `EmptyChannelsRemoved`, see below |

Why the bounds are enough. Every conflict in password reset is between two
requests over one user: a holder of a snapshot and whoever changes the state
under it, so two requests and two codes (the superseded one and its successor)
give each pair of steps in each order; other users have states of their own, and
keys of their own by `MintInv` in `IInv`, which is proved for any number of them. Limit 2 distinguishes a
first from a last attempt. The clock bound lets a code, a key and a cooldown
each pass while a request is in flight;
that of `reset_mail` lets the first code pass its cooldown, be followed by the
second, and expire with its mail still queued. In sign-up, two emails and two names
are needed for a sign-up to collide with one account by email and another by
name, two ids for a row that replaces a deleted one. In
`signup_cleanup` a dropped handler covers a failed or lost statement: after
either the handler ends with no further write, and a lost reply is a statement
that ran before the drop. `reset_live` has
a single code, which two requests guess at, store, take back and let lapse; each
of these is a way to get ahead of a comparison, and a second code would add no
other. In `session` two users are needed for one to follow another, two sockets
for one that is replaced while it closes, two requests for a reply that another
overtakes. `auth_form` needs a third request: one of a page that is gone, one of a
view that is gone, one of the view that is there. `reset_page` has two, because
the navigations of their handlers and of the user multiply its states: what a
late reply disturbs is one request of the view that is there, and the theorems
hold for any number. `image_handled` needs no more than the two who overtake each
other. In
`image_queue` three moderators give a transaction that holds a row, one that
waits for it and one that undoes it, two entries the same pair twice. In the
runs where clock, codes or attempts are kept small, the theorems below carry the
safety properties to every size.

Fairness. `FairSpec` of `PasswordReset` asks weak fairness of each handler's own
steps: the async runtime polls a future whose await has returned. Nothing is
asked of clients and time need not pass. `FairMailSpec` adds the workers, which
apalis keeps running; `JobsSettle` has it that time passes as a premise of its
own, so that `VerifyReturns` does not rest on it. `SignUp`'s `FairSpec` asks weak
fairness of the cleanup alone, which the cron schedule gives as long as the
database answers it; requests may stop anywhere. `ResetPasswordPage` asks that
time passes and that the browser fires a timer that is due, and nothing of users
or replies. `ImageQueue` asks strong fairness of each request: the server carries
on with it, and PostgreSQL queues those who wait for a row, so others cannot take
it for ever; an `Abort` is never required. `NotificationHub` asks weak fairness
of the task, which the runtime polls, and strong fairness of growing old: an
entry ages only while the task sleeps, which it does a minute at a time.

### Three disagreements with the code

`infra/worker/unverified_user_cleanup.rs` selects the ids of expired users with
an unverified email and then deletes by id alone (lines 49-52), logging "expired
unverified users deleted" (line 59). A user whose verification was under way
when the deadline passed, and is written between the two statements, is deleted
although verified. Requests delete through `delete_user`, which repeats the
filter in its `DELETE` (`features/auth/repo.rs:103-107`) and is safe.
`signup_deleted` shows the sequence, and `DeletedOnlyExpired` that this is the
only way a verified account goes.

`infra/notification.rs` does not keep "channels around just for offline push"
(line 67), and has a task to remove those without subscribers for an hour. But
`channels.iter()` is lazy, and the loop over it calls `remove_if` (line 105)
while the iterator still holds the read lock of the entry's shard. `remove_if`
waits for the write lock: the task blocks itself at the first channel it should
remove, and `subscribe` and `unsubscribe` of every user in that shard wait with
it. `hub_cleanup` shows the sequence; the theorems of section 5 say that no
channel is ever removed. Collecting the ids first would mend it; `Remove`
already looks at the entry again, as `remove_if` does, so that a subscriber
who came in between would be safe.

`domain/image_queue/model.rs:100` says "Approve, cancel and reject are allowed only
when status is pending". `approve` and `reject` (`features/image_queue/manage/repo.rs`)
check the status they read at the start of their transaction, lock nothing, and
update the entry by its id. A rejection that read Pending and commits after an
approval makes the approved entry Rejected: its `image_id` is cleared, its image
stays published, and `revert`, which asks for Approved, refuses it.
`image_handled` shows the sequence. `PublishedHandled`, `ApprovedPublished` and
`RejectedFinal` say what holds nevertheless.

## 5. Proofs

All proofs assume only the `ASSUME` of their module, if it has one: the
distinguished values are outside their sets, durations and limits are naturals in
the order the source's constants have, and `Requests` is finite in `SignUp`. Any
number of users, requests, codes, keys, sockets, moderators and entries, any mix
of failing and lost calls, except where a theorem below says otherwise.

**Password reset** (`PasswordResetProofs`). The inductive invariant is `IInv`.
Theorems: `Invariance`, `TypeCorrect`, `IndexCorrect`, `GuessLimit`, `KeyOnce`,
`OwnKey`, `KeyInTime`, `Cooldown`, `GuessesCounted`, `Refinement`,
`NeverInTwoPlaces`, `NothingComesBack`. None of the properties is inductive alone.
That a key is redeemed once needs that it has a single *holder*: the slot in
Redis, the shelf of the request that superseded it, or the hand of the request
that consumed it; a snapshot taken before a compare-and-swap is a copy that
gives no right (`KeyInv`). That guesses are bounded needs the same of codes, and
that a code on a shelf still carries the count it had (`CodeInv`). Both need
that a code or key in flight is new (`FreshInv`), that its user and expiry never
change (`MintInv`), and what the locals are at each point (`RequestInv`). The
index theorem needs `ExpiryInv`, because state and index entry of a key must
expire in the same instant. `GuessesCounted` supposes that no reply is lost, and
adds to `IInv` that the count is right wherever a code may come from, the slot or
a shelf (`CountInv`).

`Refinement` says that `PasswordReset` implements `ResetSlot` under the mapping of
section 3. A step on the state of one user is a step on that slot, and what other
requests have on their shelves or in hand stays (`BystandersKept`). The two steps that are not
plain are a save, after which the shelf holds what it superseded because each
code has a single holder (`MintInv`, `KeyInv`), and a rollback, which restores
only what is on the shelf of the very code it takes away.

The last two theorems are about `ResetSlot` and hold of `PasswordReset` through
`Refinement`. `SlotInv` is inductive for the steps of the abstract
specification: what lies in a slot or on a shelf was issued or made before, and
nothing lies in two places (`OnePlace`). A step either empties places
(`SlotsEmptied`), or puts into one slot what is nowhere else (`SlotFilled`): a code
never issued, a key never made, what the shelf gives up, or what the hand gives
back. `NothingComesBack` looks at the same steps once more: none of them finds its
code or key elsewhere than where it was, or new.

**Reset mail queue** (`PasswordResetMailProofs`). `QueueAround`: every behaviour of
the composition is one of `PasswordReset`, so all of the above holds with the
queue and its worker at work. `MailTypeCorrect`. `CodesQueuedOnce`: a code is queued
at most once, for its user, and a job done never returns, whatever fails, is lost or
dropped; it rests on `PushInv`: a request about to queue a code, which it alone
holds (`IInv`), finds no job for it. `MailComes`: with no reply lost
and no handler dropped, `CodeHasMail`. Two invariants carry it. `QueueInv` ties the job of a
code to the code's user and time of issue, in the slot and on the shelves, and
says that a request yet to queue a code finds no job for it. `HandledInv` is about
the jobs that are done: their code was mailed, or dropped for a failed call, or
holds nobody off. For the last case it needs to be known that a code the worker
found gone does not come back within its cooldown, although a rollback may restore
it; that is `MailingFits` of the next invariant. `MailsSpaced`: with no
reply lost, `MailSpacing`. Its invariant `SpacingInv` is about `Mailings`, the codes
queued or about to be: one that is no longer in Redis is past, by a cooldown or by
a key made since (`Past`), because it was saved over by a request that had looked
at it, expired, or was exchanged; what a rollback takes away was never queued, and
what it brings back is past already. So the next code stored keeps its distance
from all of them. `MailInvariant` puts the three together into the invariant
`MailInv` that `reset_mail` checks, for the setting of both.

**Sign-up** (`SignUpProofs`). The inductive invariant is
`SignUpInv`. Theorems: `SignUpTypeCorrect`, `SignUpInvariance`,
`GuessesBoundedByRace`, `DeletedRight`, `MailedKept`,
`CodesMailedOrWithdrawn`, `AccountsRefined`, `AccountsGoForward`,
`VerifiedWithCode`. The bound on guesses is not
the limit: attempts are read before the slow comparison and counted after it. The
invariant adds, per code, the answers given and the requests still comparing;
that sum grows only when `VerifyLoad` admits a request, and then the answers are
below the limit and the others comparing are fewer than `Requests`. It holds for
one code, although the count is kept per user, since a new code starts the count
anew and a late increment only makes it larger (`GuessInv`). Deletion is right
because ids are never used again and creation dates do not change, so an account
judged expired stays so (`AgeInv`); a withdrawal is right because a code is in
one hand until its mail is out (`CodeInv`). `CodesMailedOrWithdrawn` supposes that
calls succeed and no handler is dropped, as the run does.

`AccountsRefined` says that `SignUp` implements `AccountLife`, with any failed or
lost statement and any dropped handler. Reads and answers change no life (`LifeStep`
and the lemmas `...Life`, one per statement). The statements that act on what was
read before are the work: a row replaced under a request has another id, so an
update or verification by id finds the account it was meant for or none; a code is nobody's until the request holding it stores it, and a
withdrawal finds its own code unmailed (`CodeInv`); what the worker selected was out
of time, and ids gone since are not used again (`AgeInv`). From it,
`AccountsGoForward` and `VerifiedWithCode` transfer `OnlyForward` and
`VerifiedByCode`: the first is a property of every step of `AccountLife`, the
second is inductive once a verification row is known to hold a code of its own
account (`LiveOwn`).

**Session store** (`UserSessionProofs`). The inductive invariant is `SessionInv`.
Theorems: `SessionInvariance`, `SocketsOwned`, `NobodyStranded`, `PageAgrees`,
`BadgeIsOwn`. The socket and the timer carry each other: the close event drops
itself if nobody is signed in or a timer is armed, so a signed-in user without
timer must hold a socket that is not closed yet, and only the one the store holds
can be live. Agreement needs that a reply to a sign-in or sign-out is the only
thing by which page and server may differ (`CallsFit`), and that there is one
load at a time (`OneLoad`).

**Forgot-password page** (`ResetPasswordPageProofs`). `PageInv`, with the theorems
`PageInvariance`, `ViewsHonest`, `RequestsApart`, `NobodyTrapped`. The core is
`FlagsFit`: what each request under way means for the view and its flags, and
they for the requests; a handler that waits for its navigation counts as a request
still (`Awaiting`), because its form stays busy. `ViewHonest` speaks of every state, also
between a reply and `Arrive`, with `going` to tell where the page is about to be:
a verify view with a session or a success in store is one that is being left,
unless the user has navigated meanwhile. "Change" clears `isVerifyingCode` early, so the flag alone
does not tell whether a verification is under way; `isSubmitting` of the form does.

**Auth forms** (`AuthFormProofs`). `AuthInv`, with the theorems `AuthInvariance`,
`EmailsAgree`, `ResendsSettle`, `CooldownIsKept`. A form in use is for the address
to verify, in whatever mode the page is (`FormInv`), and while no reply has
crossed with a change of page, a cooldown the page was told of for that address
is no longer than what the form counts (`ToldInv`). That the form also survives a
visit to another tab is what makes this inductive.

**Notification hub** (`NotificationHubProofs`). `VictimHeld`: the channel the task
wants to remove is in the shard its iterator holds. From it follow `NothingRemoved`
(no step removes a channel) and `SweepStuck` (once there is such a channel the
task takes no further step, and nobody of the shard subscribes or leaves).

**Image queue** (`ImageQueueProofs`). `QueueInv`, with the theorems
`QueueInvariance`, `Handled`, `Published`, `RejectionFinal`, `SomebodyGoesOn`. The properties of
published rows need `RowsHeld`: a row is in at most one transaction, which found
it as it needs it, so what was read before the lock is still true at the commit.
That a rejected entry stays needs that every entry satisfies the CHECK and that a
transaction which passed its status check is never one of a Pending entry to
revert (`EntriesFit`). `Handled` needs no status at all: the transaction that inserted a
row puts its entry into `upheld`, and one that takes it out has deleted the row.
`SomebodyGoesOn` is the safety half of `RequestsEnd`, for any number of moderators:
whoever is in a transaction can take a step, or waits for a row whose holder can. A
transaction waits for at most one row and before it holds any, so waiting cannot go
round.

**Only model-checked.** Liveness and what rests on fairness, out of the prover's
reach: `VerifyReturns`, `JobsSettle`, `ExpiredRemoved`, `ResetViewEnds`,
`RequestsEnd`. Every other property of a passing run is also proved; the three
violations are shown by TLC, the hub's with the theorems above. Proved and not in a
run: that a key only sets the password of the user it was made for (`OwnKey`); of
`IInv`, which the runs check, it needs `MintInv` alone.

## 6. Seen while modelling, and not properties

The code allows these; unless a line says otherwise no text of the repository
rules them out.

- Password reset: a lost reply of `set_password` puts the key back although the
  password is set. A handler dropped between consuming the key and setting the
  password loses the key. A consumed key can be put back after a newer key was
  redeemed, if the slot is empty. A lost reply of the save leaves a code, and
  its cooldown, that no mail follows; a failed Redis read in the worker drops the
  mail of a valid code, and so does a mail that can neither be sent nor rescheduled
  (`dropped`). A rollback that finds a guess counted since, or fails, changes
  nothing and leaves a code without its mail (`stuck`). A code superseded between
  the worker's check and the SMTP call is still mailed.
- Sign-up: signing up again with a pending email overwrites the row by id, even
  if it was verified in the meantime (`sign_up/service.rs:213`). Two resends that
  both read the old row both pass the cooldown. A resend that read the user
  before its verification stores a code for a verified user, where it does no
  harm. `set_email_verified` does not look at the code again.
- Session store: a profile answer that left the server before a sign-out signs
  the user in again on the page. A late unread count is shown to the next user.
  When the reply to a sign-in or sign-out is lost or an error, the page shows
  nobody while the session is valid, and signing in is refused as
  `AlreadySignedIn`; a network failure makes `sign_out` throw before it clears
  anything. Whoever verifies an address over another account keeps that
  account's socket.
- Forgot-password page: the cooldown stands still when its view is replaced
  (verify, then an invalid key, then verify again): Resend stays disabled until
  "Change". A late reply to a verification takes the user to the reset view from the
  verify view and from other pages, and leaves one who has reached the reset view by
  another code there; from the success view it takes them to the verify view, where
  they are told that the session is no longer valid, because that view mounts, and
  clears the new session, before the navigation arrives. A late reply about an
  invalid key clears a newer session.
- Auth forms: a resend whose fetch throws leaves the form resending for good. A
  resend's late reply counts its cooldown for the address that is shown by then,
  or is dropped. A page left and entered again forgets the cooldown. A late reply
  to a sign-up takes the user to the verification of that address; one to a
  verification clears another address.
- Image queue, besides the disagreement of section 4: of two rejections that read
  Pending the later one rewrites who handled the entry and when, which the model
  leaves out. An approval that read Pending publishes again what was approved and
  reverted meanwhile, which is against the same line of `model.rs`. Of two entries
  with the same pair, a stale second revert takes the row the other had published.
- Corrections (read, not modelled): the correction an entity is created with is
  Approved, and `upsert` answers `AlreadyApproved` when the latest one is
  (`features/correction/service.rs:78-79`), so through these operations no
  Pending correction comes about. But `approve` and `reject` do not look at the
  status (`features/correction/repo.rs`): the correction an entity came with can be
  rejected, then edited (`upsert` adds a revision to a Rejected one, which keeps its
  status), then approved, and such an edit and an approval may overlap.

## 7. Not modelled

- **Image store and file removal.** Rows are found by the hash of the picture and
  written in a transaction, files outside of it, and a worker removes them later.
  The hazards are listed; a module needs the removal queue, the file system and
  every caller of the store.
- **Corrections** and the **entity features** behind them: as the code is, no
  correction of an entity is ever Pending, and edits and decisions meet only on one
  that was rejected (see above). A module needs the revisions and the history rows
  of one entity type at least; the hazard is listed.
- **Notifications**: rows inserted in a loop and read by their owner; what pushes
  them is `NotificationHub`. **Admin roles**: one transaction replaces the roles
  of a user; two of them, or one and a permission check made before it, interleave
  as the hazard says, and no text of the source forbids what comes out.
  **Tag votes**: one statement each, decided by a unique key.
- **Search, home, enum tables, profiles**: queries and single-statement updates.
  **LRC parser**: text in, time stamps out. **Entities and migrations**,
  **import tools**, the generated client and the rest of the frontend: no state
  between two steps but the input of one form. These files, generated for the
  most part, are most of the lines of the repository.
- Within the modelled components: request validation and rate limiting before
  the handlers, formatting of mails, hashing, logging, session creation after
  `verify_email`, sending through the hub (`publish` reads an entry), permissions
  of moderators, texts and layout of the views.

------------------------- MODULE PasswordResetMail -------------------------
(***************************************************************************)
(* Password reset with its email queue: forgot_password pushes a job, and  *)
(* a worker (core_server/src/infra/worker/password_reset_email.rs) mails   *)
(* the code if Redis still holds it for the user.  The requests are those  *)
(* of PasswordReset.                                                       *)
(***************************************************************************)
EXTENDS PasswordReset

VARIABLES
  job,      \* Redis: auth:password-reset:email, one job per code
  mailed,   \* codes some mail was delivered for
  storedAt, \* history: when each code was stored
  stuck,    \* history: codes whose rollback changed nothing
  dropped   \* history: codes whose job the worker dropped for a failed call

mailVars == <<job, mailed, storedAt, stuck, dropped>>
allVars  == <<vars, mailVars>>

NoJob == [stage |-> "none", user |-> NoUser, sentAt |-> 0]
Job   == [stage: {"none", "queued", "sending", "done"},
          user: Users \union {NoUser}, sentAt: Nat]

MailTypeOK ==
  /\ TypeOK
  /\ job \in [Codes -> Job]
  /\ mailed \subseteq Codes
  /\ storedAt \in [Codes -> Nat]
  /\ stuck \subseteq Codes
  /\ dropped \subseteq Codes

MailInit ==
  /\ Init
  /\ job = [c \in Codes |-> NoJob]
  /\ mailed = {}
  /\ storedAt = [c \in Codes |-> 0]
  /\ stuck = {}
  /\ dropped = {}

(* enqueue_password_reset_email.                                           *)
FaultyEnqueue(r, o) ==
  /\ ForgotPush(r, o)
  /\ job' = IF Runs(o)
            THEN [job EXCEPT ![req[r].code] = [stage |-> "queued", user |-> req[r].user,
                                               sentAt |-> now]]
            ELSE job
  /\ UNCHANGED <<mailed, storedAt, stuck, dropped>>

Enqueue(r, o) ==
  /\ ForgotPush(r, o)
  /\ job' = IF Runs(o)
            THEN [job EXCEPT ![req[r].code] = [stage |-> "queued", user |-> req[r].user,
                                               sentAt |-> req[r].at]]
            ELSE job
  /\ UNCHANGED <<mailed, storedAt, stuck, dropped>>

(* password_reset_email_job_is_current: guesses counted since do not       *)
(* matter.  A failed read counts as "no".                                  *)
FaultyJobIsCurrent(c, o) ==
  LET s == state[job[c].user]
  IN o = "ok" /\ s = AwaitingCode(c, job[c].sentAt, 0) /\ now <= ExpiresAt(s)

JobIsCurrent(c, o) ==
  LET s == state[job[c].user]
  IN /\ o = "ok"
     /\ HasCode(s, c)
     /\ s.sentAt = job[c].sentAt
     /\ now <= ExpiresAt(s)

JobExpired(c) == job[c].sentAt + CODE_EXPIRES <= now

(* The worker takes a job: whatever it then drops counts as handled.       *)
FaultyJobCheck(c, o) ==
  /\ job[c].stage = "queued"
  /\ ~JobExpired(c) /\ JobIsCurrent(c, o)
  /\ job' = [job EXCEPT ![c].stage = "sending"]
  /\ UNCHANGED <<vars, mailed, storedAt, stuck, dropped>>

JobCheck(c, o) ==
  /\ job[c].stage = "queued"
  /\ job' = [job EXCEPT ![c].stage =
               IF ~JobExpired(c) /\ JobIsCurrent(c, o) THEN "sending" ELSE "done"]
  /\ dropped' = IF JobExpired(c) \/ o = "ok" THEN dropped ELSE dropped \union {c}
  /\ UNCHANGED <<vars, mailed, storedAt, stuck>>

JobSent(c) ==
  /\ job[c].stage = "sending"
  /\ job' = [job EXCEPT ![c].stage = "done"]
  /\ mailed' = mailed \union {c}
  /\ UNCHANGED <<vars, storedAt, stuck, dropped>>

(* The SMTP call fails, before or after the mail went out, or the worker   *)
(* dies: the job comes back, or is lost if rescheduling it fails as well.  *)
JobFailed(c) ==
  /\ job[c].stage = "sending"
  /\ \/ job' = [job EXCEPT ![c].stage = "queued"] /\ UNCHANGED dropped
     \/ job' = [job EXCEPT ![c].stage = "done"] /\ dropped' = dropped \union {c}
  /\ mailed' \in {mailed, mailed \union {c}}
  /\ UNCHANGED <<vars, storedAt, stuck>>

WorkerStep(c) == (\E o \in Outcomes : JobCheck(c, o)) \/ JobSent(c) \/ JobFailed(c)

(* Everything else goes on around the queue.                               *)
RequestStep(r) ==
  \/ \E o \in Outcomes : Enqueue(r, o)
  \/ /\ VerifyWrongLapsed(r) \/ \E o \in Outcomes : Proceed(r, o)
     /\ storedAt' = [c \in Codes |-> IF c \in issued' \ issued THEN now ELSE storedAt[c]]
     /\ stuck' = stuck \union {c \in Codes : /\ req[r].pc = "forgot_rollback"
                                            /\ req[r].code = c
                                            /\ state' = state}
     /\ UNCHANGED <<job, mailed, dropped>>

Around ==
  /\ \/ \E r \in Requests : Submit(r) \/ Abandon(r)
     \/ \E u \in Users : DeleteAccount(u)
     \/ Tick
  /\ UNCHANGED mailVars

MailNext ==
  \/ \E r \in Requests : RequestStep(r)
  \/ \E c \in Codes : WorkerStep(c)
  \/ Around

MailSpec == MailInit /\ [][MailNext]_allVars

(* As FairSpec; besides, apalis keeps its workers running.                 *)
FairMailSpec ==
  /\ MailSpec
  /\ \A r \in Requests : WF_allVars(RequestStep(r))
  /\ \A c \in Codes : WF_allVars(WorkerStep(c))

TimePasses == WF_allVars(Tick /\ UNCHANGED mailVars)

-----------------------------------------------------------------------------
(* Properties.                                                             *)

(* With no reply lost and no handler dropped: whoever is held off by the   *)
(* cooldown of a code was mailed that code, or will be: the request that   *)
(* stored it still has to queue it or will take it back, or a job is under *)
(* way.  Only a call that fails a second time leaves such a code without   *)
(* mail: the rollback after a failed push changed nothing, having failed   *)
(* or found that a guess was counted since; or the worker dropped the job, *)
(* because it could not read Redis or reschedule what it could not send.   *)
CodeHasMail ==
  \A u \in Users, c \in Codes :
    HasCode(state[u], c) /\ IsInCodeResendCooldown(state[u]) =>
      \/ /\ job[c].user = u /\ job[c].sentAt = state[u].sentAt
         /\ job[c].stage \in {"queued", "sending"} \/ c \in mailed
      \/ \E r \in Requests : req[r].pc \in {"forgot_push", "forgot_rollback"} /\ req[r].code = c
      \/ c \in stuck \union dropped

(* With no reply lost, the mails of a user keep the resend cooldown: of    *)
(* two codes mailed, one was stored a full cooldown after the other was    *)
(* issued, or a reset key was made in the time the two of them span.       *)
MailSpacing ==
  \A c, d \in mailed :
    LET spans(t) == /\ t >= job[c].sentAt \/ t >= job[d].sentAt
                    /\ t <= storedAt[c] \/ t <= storedAt[d]
    IN c # d /\ job[c].user = job[d].user
       => \/ storedAt[d] - job[c].sentAt >= RESEND_COOLDOWN
          \/ storedAt[c] - job[d].sentAt >= RESEND_COOLDOWN
          \/ \E k \in Keys : /\ minted[k].user = job[c].user
                             /\ spans(minted[k].at)

(* A code is queued at most once, for the user and with the time it was    *)
(* stored with, and a job the worker is done with never comes back: not    *)
(* with lost replies, dropped handlers or mails that fail.                 *)
QueuedOnce ==
  [][\A c \in Codes : job[c].stage # "none" =>
       /\ job'[c].stage # "none"
       /\ job'[c].user = job[c].user /\ job'[c].sentAt = job[c].sentAt
       /\ job[c].stage = "done" => job'[c].stage = "done"]_allVars

(* The worker is rid of every queued mail in the end, even when the SMTP   *)
(* server is down for good: rescheduling stops when the code has expired.  *)
JobsSettle ==
  TimePasses =>
    \A c \in Codes : job[c].stage \in {"queued", "sending"} ~> job[c].stage = "done"

-----------------------------------------------------------------------------
(* Why CodeHasMail holds.                                                  *)

(* A mail with the code c, stored for u at t, is queued or was once, or    *)
(* the request that stored it still has to see to that, or it is stuck.    *)
MailComing(u, c, t) ==
  \/ job[c].stage # "none" /\ job[c].user = u /\ job[c].sentAt = t
  \/ \E r \in Requests : Shelving(r) /\ req[r].code = c
  \/ c \in stuck

(* A code keeps the user and the time it was stored with, in the state, on *)
(* the shelf of the request that superseded it, and in its job, and is     *)
(* queued once.                                                            *)
QueueOf(c) ==
  /\ job[c].stage # "none" => c \in issued
  /\ \A u \in Users : HasCode(state[u], c) => MailComing(u, c, state[u].sentAt)
  /\ \A q \in Requests : ShelvesCode(q, c) => MailComing(req[q].user, c, req[q].prev.sentAt)
  /\ \A r \in Requests : Shelving(r) /\ req[r].code = c =>
       /\ c \in issued
       /\ req[r].pc = "forgot_push" => job[c].stage = "none"
       /\ \A u \in Users : HasCode(state[u], c) =>
            u = req[r].user /\ state[u].sentAt = req[r].at
       /\ \A q \in Requests : ShelvesCode(q, c) =>
            req[q].user = req[r].user /\ req[q].prev.sentAt = req[r].at

QueueInv == \A c \in Codes : QueueOf(c)

(* A job the worker is rid of was mailed, or dropped for a failed call, or *)
(* its code holds nobody off: it was gone, and if a rollback brings it     *)
(* back, its cooldown is over.                                             *)
HandledOf(c) ==
  job[c].stage = "done" =>
    \/ c \in mailed \union dropped
    \/ \A u \in Users : HasCode(state[u], c) => ~IsInCodeResendCooldown(state[u])

HandledInv == \A c \in Codes : HandledOf(c)

-----------------------------------------------------------------------------
(* Why MailSpacing holds.                                                  *)

Mailing(c, u, t) == [code |-> c, user |-> u, at |-> t]

(* The codes that were queued, or are about to be.                         *)
Mailings ==
  {Mailing(c, job[c].user, job[c].sentAt) : c \in {d \in Codes : job[d].stage # "none"}}
  \union {Mailing(req[r].code, req[r].user, req[r].at) :
            r \in {q \in Requests : req[q].pc = "forgot_push"}}

(* Whatever its user is sent from now on keeps its distance.               *)
Past(m) ==
  \/ now - m.at >= RESEND_COOLDOWN
  \/ \E k \in Keys : minted[k].user = m.user /\ m.at <= minted[k].at /\ minted[k].at <= now

Apart(m, n) ==
  \/ storedAt[n.code] - m.at >= RESEND_COOLDOWN
  \/ storedAt[m.code] - n.at >= RESEND_COOLDOWN
  \/ \E k \in Keys : /\ minted[k].user = m.user
                     /\ minted[k].at >= m.at \/ minted[k].at >= n.at
                     /\ minted[k].at <= storedAt[m.code] \/ minted[k].at <= storedAt[n.code]

(* A code still in Redis holds the next one off; once it is gone, it is    *)
(* past, even if a rollback brings it back.                                *)
MailingFits(m) ==
  /\ m.code \in issued /\ m.user \in Users /\ m.at <= now
  /\ \A u \in Users : HasCode(state[u], m.code) => u = m.user /\ state[u].sentAt = m.at
  /\ \A q \in Requests : ShelvesCode(q, m.code) =>
       req[q].user = m.user /\ req[q].prev.sentAt = m.at
  /\ HasCode(state[m.user], m.code) \/ Past(m)

SpacingInv ==
  /\ \A m \in Mailings : MailingFits(m)
  /\ \A m, n \in Mailings : m.code # n.code /\ m.user = n.user => Apart(m, n)
  /\ \A r \in Requests : Shelving(r) => job[req[r].code].stage = "none"
  /\ \A c \in mailed : job[c].stage # "none"

(* While no reply is lost and no handler is dropped: what the queue holds  *)
(* agrees with what Redis and the requests hold.                           *)
MailInv == MailTypeOK /\ QueueInv /\ HandledInv /\ SpacingInv
=============================================================================

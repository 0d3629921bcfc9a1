---------------------- MODULE PasswordResetMailProofs ----------------------
(* Proofs about PasswordResetMail, for every value of its constants: that  *)
(* the queue takes nothing from what is proved of PasswordReset, and that  *)
(* no code is left without its mail.                                       *)
EXTENDS PasswordResetMail, PasswordResetProofs

-----------------------------------------------------------------------------
(* The requests do with the queue what they do without.                    *)

LEMMA MailStep == [MailNext]_allVars => [Next]_vars
<1> SUFFICES ASSUME [MailNext]_allVars PROVE [Next]_vars
  OBVIOUS
<1>1. ASSUME NEW r \in Requests, RequestStep(r) PROVE Next
  BY <1>1 DEF RequestStep, Enqueue, Next, Step
<1>2. ASSUME NEW c \in Codes, WorkerStep(c) PROVE UNCHANGED vars
  BY <1>2 DEF WorkerStep, JobCheck, JobSent, JobFailed
<1>3. CASE Around
  BY <1>3 DEF Around, Next
<1>4. CASE UNCHANGED allVars
  BY <1>4 DEF allVars
<1>5. QED
  BY <1>1, <1>2, <1>3, <1>4 DEF MailNext

(* The queue and its worker only add to what the requests do: whatever     *)
(* holds of them alone, every theorem of PasswordResetProofs, holds with   *)
(* the queue, its failures and its delays.                                 *)
THEOREM QueueAround == MailSpec => Spec
<1>1. MailInit => Init
  BY DEF MailInit
<1>2. [MailNext]_allVars => [Next]_vars
  BY MailStep
<1>3. QED
  BY <1>1, <1>2, PTL DEF MailSpec, Spec

LEMMA MailInvariance == MailSpec => []IInv
BY QueueAround, Invariance

-----------------------------------------------------------------------------
(* Types.                                                                  *)

LEMMA MailTypeStep ==
  ASSUME IInv, IInv', MailTypeOK, [MailNext]_allVars
  PROVE  MailTypeOK'
<1> TypeOK /\ TypeOK' /\ RequestInv
  BY DEF IInv
<1> USE DEF MailTypeOK
<1>1. ASSUME NEW r \in Requests, NEW o \in Outcomes, Enqueue(r, o) PROVE MailTypeOK'
  <2>1. req[r] \in Request /\ req[r].user \in Users /\ req[r].at \in Nat
    BY <1>1 DEF Enqueue, ForgotPush, RequestInv, GoodRequest, TypeOK, Request
  <2>2. job' \in [Codes -> Job]
    BY <1>1, <2>1 DEF Enqueue, Job
  <2>3. QED
    BY <1>1, <2>2 DEF Enqueue
<1>2. ASSUME NEW r \in Requests, RequestStep(r), ~ \E o \in Outcomes : Enqueue(r, o)
      PROVE  MailTypeOK'
  BY <1>2 DEF RequestStep, TypeOK
<1>3. ASSUME NEW c \in Codes, WorkerStep(c) PROVE MailTypeOK'
  <2>1. ASSUME NEW stage \in {"queued", "sending", "done"},
               job' = [job EXCEPT ![c].stage = stage]
        PROVE  job' \in [Codes -> Job]
    BY <2>1 DEF Job
  <2>2. job' \in [Codes -> Job]
    BY <1>3, <2>1 DEF WorkerStep, JobCheck, JobSent, JobFailed
  <2>3. QED
    BY <1>3, <2>2 DEF WorkerStep, JobCheck, JobSent, JobFailed
<1>4. CASE Around \/ UNCHANGED allVars
  BY <1>4 DEF Around, allVars, mailVars
<1>5. QED
  BY <1>1, <1>2, <1>3, <1>4 DEF MailNext

(* The variables of the queue and its histories keep their types.          *)
THEOREM MailTypeCorrect == MailSpec => []MailTypeOK
<1>1. MailInit /\ IInv => MailTypeOK
  BY DEF MailInit, MailTypeOK, NoJob, Job, IInv
<1>2. IInv /\ IInv' /\ MailTypeOK /\ [MailNext]_allVars => MailTypeOK'
  BY MailTypeStep
<1>3. QED
  BY <1>1, <1>2, MailInvariance, PTL DEF MailSpec

-----------------------------------------------------------------------------
(* One job per code.                                                       *)

(* How a job can change: the worker moves it on, or it is queued.          *)
JobMoves(c) ==
  /\ job[c].stage \in {"queued", "sending"} /\ job'[c].stage \in {"queued", "sending", "done"}
  /\ job'[c].user = job[c].user /\ job'[c].sentAt = job[c].sentAt

JobQueued(c) ==
  \E r \in Requests : /\ req[r].pc = "forgot_push" /\ req'[r].pc # "forgot_push"
                      /\ req[r].code = c

LEMMA JobStep ==
  ASSUME TypeOK, MailTypeOK, [MailNext]_allVars, NEW c \in Codes
  PROVE  job'[c] = job[c] \/ JobMoves(c) \/ JobQueued(c)
<1>1. ASSUME NEW r \in Requests, NEW o \in Outcomes, Enqueue(r, o), job'[c] # job[c]
      PROVE  JobQueued(c)
  <2>1. req[r].pc = "forgot_push" /\ req[r].code = c
    BY <1>1 DEF Enqueue, ForgotPush, MailTypeOK
  <2>2. req'[r].pc # "forgot_push"
    BY <1>1, LeaveAt, MoveAt DEF Enqueue, ForgotPush
  <2>3. QED
    BY <2>1, <2>2 DEF JobQueued
<1>2. ASSUME NEW d \in Codes, WorkerStep(d), job'[c] # job[c] PROVE JobMoves(c)
  <2>1. PICK stage \in {"queued", "sending", "done"} :
          job' = [job EXCEPT ![d].stage = stage] /\ job[d].stage \in {"queued", "sending"}
    BY <1>2 DEF WorkerStep, JobCheck, JobSent, JobFailed
  <2>2. QED
    BY <1>2, <2>1 DEF JobMoves, MailTypeOK, Job
<1>3. ASSUME NEW r \in Requests, RequestStep(r), ~ \E o \in Outcomes : Enqueue(r, o)
      PROVE  job' = job
  BY <1>3 DEF RequestStep
<1>4. CASE Around \/ UNCHANGED allVars
  BY <1>4 DEF Around, allVars, mailVars
<1>5. QED
  BY <1>1, <1>2, <1>3, <1>4 DEF MailNext

(* Who comes to queue a code has just stored it.                           *)
LEMMA PushStep ==
  ASSUME IInv, [Next]_vars, NEW x \in Requests, req'[x].pc = "forgot_push"
  PROVE  /\ req'[x].code = req[x].code /\ req[x].code \in Codes
         /\ \/ req[x].pc = "forgot_push"
            \/ req[x].code \notin issued /\ req[x].code \in issued'
<1> TypeOK /\ RequestInv /\ FreshInv
  BY DEF IInv
<1>1. ASSUME req'[x] = req[x] PROVE req[x].pc = "forgot_push" /\ req[x].code \in Codes
  BY <1>1 DEF RequestInv, GoodRequest, ForgotPC
<1>2. ASSUME NEW r \in Requests, NEW o \in Outcomes, ForgotSave(r, o), req'[x] # req[x]
      PROVE  /\ req'[x].code = req[x].code /\ req[x].code \in Codes
             /\ req[x].code \notin issued /\ req[x].code \in issued'
  <2>1. CASE Respond(r)
    BY <1>2, <2>1, LeaveAt
  <2>2. CASE ~Respond(r)
    <3>1. /\ req[r].pc = "forgot_save" /\ req[r].code \in issued'
          /\ Become(r, [req[r] EXCEPT !.pc = "forgot_push"])
      BY <1>2, <2>2, ResetAssumption DEF ForgotSave, Runs
    <3>2. x = r /\ req'[r].code = req[r].code
      BY <1>2, <3>1, MoveAt
    <3>3. QED
      BY <3>1, <3>2 DEF FreshInv, RequestInv, GoodRequest, ForgotPC
  <2>3. QED
    BY <2>1, <2>2
<1>3. ASSUME NEW r \in Requests, req'[r].pc # "forgot_push",
             \A y \in Requests : y # r => req'[y] = req[y]
      PROVE  req'[x] = req[x]
  BY <1>3
<1>4. ASSUME NEW r \in Requests, Respond(r) \/ Reload(r) PROVE req'[x] = req[x]
  BY <1>3, <1>4, LeaveAt
<1>5. ASSUME NEW r \in Requests, NEW q, Become(r, q), q.pc # "forgot_push"
      PROVE  req'[x] = req[x]
  BY <1>3, <1>5, BecomeAt
<1>6. ASSUME NEW r \in Requests, NEW pc, pc # "forgot_push",
             Become(r, [req[r] EXCEPT !.pc = pc])
      PROVE  req'[x] = req[x]
  BY <1>3, <1>6, MoveAt
<1>7. ASSUME NEW r \in Requests, Submit(r) PROVE req'[x] = req[x]
  <2>1. ASSUME NEW u \in Users, ForgotPassword(r, u) PROVE req'[x] = req[x]
    BY <2>1, <1>5, ReqFields DEF ForgotPassword
  <2>2. ASSUME NEW u \in Users, NEW c \in issued \union {NoCode}, VerifyResetCode(r, u, c)
        PROVE  req'[x] = req[x]
    BY <2>2, <1>5, ReqFields DEF VerifyResetCode
  <2>3. ASSUME NEW k \in Keys, NEW o \in Outcomes, ResetPassword(r, k, o)
        PROVE  req'[x] = req[x]
    BY <2>3, <1>5, ReqFields DEF ResetPassword
  <2>4. QED
    BY <1>7, <2>1, <2>2, <2>3 DEF Submit
<1>8. ASSUME NEW r \in Requests, NEW o \in Outcomes,
             Proceed(r, o) \/ ForgotPush(r, o), ~ForgotSave(r, o)
      PROVE  req'[x] = req[x]
  <2>1. CASE VerifyLoad(r, o)
    <3>1. CASE Become(r, [req[r] EXCEPT !.pc = "verify_check", !.prev = state[req[r].user]])
      <4>1. [req[r] EXCEPT !.pc = "verify_check", !.prev = state[req[r].user]].pc = "verify_check"
        BY DEF TypeOK, Request
      <4>2. QED
        BY <3>1, <4>1, <1>5
    <3>2. QED
      BY <2>1, <3>1, <1>4 DEF VerifyLoad
  <2>2. CASE ForgotPush(r, o)
    BY <2>2, <1>4, <1>6 DEF ForgotPush
  <2>3. CASE ResetFind(r, o)
    BY <2>3, <1>4, <1>6 DEF ResetFind
  <2>4. CASE ResetSet(r, o)
    BY <2>4, <1>4, <1>6 DEF ResetSet
  <2>5. CASE \/ ForgotRollback(r, o) \/ VerifyWrong(r, o) \/ VerifyRight(r, o)
             \/ ResetRestore(r, o)
    BY <2>5, <1>4 DEF ForgotRollback, VerifyWrong, VerifyRight, ResetRestore
  <2>6. QED
    BY <1>8, <2>1, <2>2, <2>3, <2>4, <2>5 DEF Proceed
<1>9. ASSUME NEW r \in Requests, VerifyWrongLapsed(r) \/ Abandon(r) PROVE req'[x] = req[x]
  BY <1>9, <1>4 DEF VerifyWrongLapsed, Abandon
<1>10. CASE Tick \/ (\E u \in Users : DeleteAccount(u)) \/ UNCHANGED vars
  BY <1>1, <1>10 DEF Tick, DeleteAccount, vars
<1>11. QED
  BY <1>1, <1>2, <1>7, <1>8, <1>9, <1>10 DEF Next, Step

(* A code has a job only once it is stored, and none while the request     *)
(* that stored it has not queued it.                                       *)
PushInv ==
  /\ \A c \in Codes : job[c].stage # "none" => c \in issued
  /\ \A r \in Requests : req[r].pc = "forgot_push" =>
       req[r].code \in issued /\ job[req[r].code].stage = "none"

LEMMA IssuedGrow ==
  ASSUME [Next]_vars
  PROVE  issued \subseteq issued'
<1>1. ASSUME NEW r \in Requests, Submit(r) PROVE UNCHANGED issued
  BY <1>1 DEF Submit, ForgotPassword, VerifyResetCode, ResetPassword
<1>2. ASSUME NEW r \in Requests, NEW o \in Outcomes, ForgotSave(r, o)
      PROVE  issued \subseteq issued'
  BY <1>2 DEF ForgotSave
<1>3. ASSUME NEW r \in Requests, NEW o \in Outcomes,
             Proceed(r, o) \/ ForgotPush(r, o), ~ForgotSave(r, o)
      PROVE  UNCHANGED issued
  BY <1>3 DEF Proceed, ForgotRollback, ForgotPush, VerifyLoad, VerifyWrong, VerifyRight,
     ResetFind, ResetSet, ResetRestore
<1>4. ASSUME NEW r \in Requests, VerifyWrongLapsed(r) \/ Abandon(r) PROVE UNCHANGED issued
  BY <1>4 DEF VerifyWrongLapsed, Abandon
<1>5. CASE Tick \/ (\E u \in Users : DeleteAccount(u)) \/ UNCHANGED vars
  BY <1>5 DEF Tick, DeleteAccount, vars
<1>6. QED
  BY <1>1, <1>2, <1>3, <1>4, <1>5 DEF Next, Step

LEMMA PushInvStep ==
  ASSUME IInv, MailTypeOK, PushInv, [MailNext]_allVars
  PROVE  PushInv'
<1> TypeOK /\ RequestInv /\ FreshInv /\ [Next]_vars /\ issued \subseteq issued'
  BY MailStep, IssuedGrow DEF IInv
<1>1. ASSUME NEW c \in Codes, job'[c].stage # "none" PROVE c \in issued'
  BY <1>1, JobStep DEF PushInv, JobMoves, JobQueued
<1>2. ASSUME NEW x \in Requests, req'[x].pc = "forgot_push"
      PROVE  req'[x].code \in issued' /\ job'[req'[x].code].stage = "none"
  <2>1. PICK c \in Codes : c = req[x].code /\ c = req'[x].code
    BY <1>2, PushStep
  <2>2. ~JobQueued(c)
    BY <1>2, <2>1, PushStep DEF JobQueued, FreshInv, ForgotPC, PushInv
  <2>3. c \in issued' /\ job[c].stage = "none"
    BY <1>2, <2>1, PushStep DEF PushInv
  <2>4. QED
    BY <2>1, <2>2, <2>3, JobStep DEF JobMoves
<1>3. QED
  BY <1>1, <1>2 DEF PushInv

(* No code is mailed twice for being queued twice, and no mail goes to     *)
(* another than its code was stored for, whatever fails.                   *)
THEOREM CodesQueuedOnce == MailSpec => QueuedOnce
<1>1. MailInit => PushInv
  BY ReqFields DEF MailInit, Init, NoJob, PushInv
<1>2. IInv /\ MailTypeOK /\ PushInv /\ [MailNext]_allVars => PushInv'
  BY PushInvStep
<1>3. ASSUME IInv, MailTypeOK, PushInv, [MailNext]_allVars, NEW c \in Codes,
             job[c].stage # "none"
      PROVE  /\ job'[c].stage # "none"
             /\ job'[c].user = job[c].user /\ job'[c].sentAt = job[c].sentAt
             /\ job[c].stage = "done" => job'[c].stage = "done"
  <2>1. TypeOK /\ ~JobQueued(c)
    BY <1>3 DEF JobQueued, PushInv, IInv
  <2>2. QED
    BY <1>3, <2>1, JobStep DEF JobMoves
<1>4. IInv /\ MailTypeOK /\ PushInv /\ [MailNext]_allVars
        => [\A c \in Codes : job[c].stage # "none" =>
              /\ job'[c].stage # "none"
              /\ job'[c].user = job[c].user /\ job'[c].sentAt = job[c].sentAt
              /\ job[c].stage = "done" => job'[c].stage = "done"]_allVars
  BY <1>3
<1>5. QED
  BY <1>1, <1>2, <1>4, MailInvariance, MailTypeCorrect, PTL DEF MailSpec, QueuedOnce

-----------------------------------------------------------------------------
(* Codes and their mails.                                                  *)

(* Jobs may move on, states lapse or be replaced by keys, but no request   *)
(* starts or stops superseding a code.                                     *)
LEMMA QueueKept ==
  ASSUME QueueInv, issued \subseteq issued', stuck \subseteq stuck',
         \A c \in Codes : /\ job'[c].stage = "none" <=> job[c].stage = "none"
                          /\ job'[c].user = job[c].user /\ job'[c].sentAt = job[c].sentAt,
         \A u \in Users, c \in Codes : HasCode(state'[u], c) =>
           HasCode(state[u], c) /\ state'[u].sentAt = state[u].sentAt,
         \A r \in Requests :
           /\ Shelving(r)' <=> Shelving(r)
           /\ Shelving(r) => /\ req'[r].prev = req[r].prev /\ req'[r].code = req[r].code
                             /\ req'[r].user = req[r].user /\ req'[r].at = req[r].at
                             /\ req'[r].pc = "forgot_push" => req[r].pc = "forgot_push"
  PROVE  QueueInv'
<1>1. \A c \in Codes, q \in Requests : ShelvesCode(q, c)' =>
        /\ ShelvesCode(q, c)
        /\ req'[q].user = req[q].user /\ req'[q].prev.sentAt = req[q].prev.sentAt
  BY DEF ShelvesCode
<1> SUFFICES ASSUME NEW c \in Codes PROVE QueueOf(c)'
  BY DEF QueueInv
<1> QueueOf(c)
  BY DEF QueueInv
<1>2. (job[c].stage # "none" => c \in issued)'
  BY DEF QueueOf
<1>3. (\A u \in Users : HasCode(state[u], c) => MailComing(u, c, state[u].sentAt))'
  BY DEF QueueOf, MailComing
<1>4. (\A q \in Requests :
         ShelvesCode(q, c) => MailComing(req[q].user, c, req[q].prev.sentAt))'
  BY <1>1 DEF QueueOf, MailComing
<1>5. QED
  BY <1>1, <1>2, <1>3, <1>4 DEF QueueOf

LEMMA EnqueueStep ==
  ASSUME "lost" \notin Outcomes, IInv, MailTypeOK, QueueInv,
         NEW r \in Requests, NEW o \in Outcomes, Enqueue(r, o)
  PROVE  QueueInv'
<1> TypeOK /\ RequestInv /\ FreshInv
  BY DEF IInv
<1> DEFINE d == req[r].code
<1>1. /\ d \in Codes /\ Shelving(r) /\ req[r].pc = "forgot_push"
      /\ UNCHANGED <<state, issued, stuck>>
  BY DEF Enqueue, ForgotPush, Shelving, ForgotPC, RequestInv, GoodRequest
<1>2. CASE o # "ok"
  <2>1. Become(r, [req[r] EXCEPT !.pc = "forgot_rollback"]) /\ job' = job
    BY <1>2, ResetAssumption DEF Enqueue, ForgotPush, Runs
  <2>2. \A x \in Requests :
          /\ Shelving(x)' <=> Shelving(x)
          /\ req'[x].prev = req[x].prev /\ req'[x].code = req[x].code
          /\ req'[x].user = req[x].user /\ req'[x].at = req[x].at
          /\ req'[x].pc = "forgot_push" => req[x].pc = "forgot_push"
    BY <1>1, <2>1, MoveAt DEF Shelving
  <2>3. QED
    BY <1>1, <2>1, <2>2, QueueKept
<1>3. CASE o = "ok"
  <2>1. /\ job' = [job EXCEPT ![d] = [stage |-> "queued", user |-> req[r].user,
                                      sentAt |-> req[r].at]]
        /\ Respond(r)
    BY <1>3 DEF Enqueue, ForgotPush, Runs
  <2>2. ~Shelving(r)' /\ \A x \in Requests : x # r => req'[x] = req[x]
    BY <2>1, LeaveAt DEF Shelving
  <2>3. /\ job'[d].stage = "queued" /\ job'[d].user = req[r].user
        /\ job'[d].sentAt = req[r].at
        /\ \A c \in Codes : c # d => job'[c] = job[c]
    BY <1>1, <2>1 DEF MailTypeOK
  <2>4. \A x \in Requests : Shelving(x)' => Shelving(x) /\ req'[x] = req[x] /\ req[x].code # d
    BY <1>1, <2>2 DEF FreshInv, Shelving, ForgotPC
  <2> SUFFICES ASSUME NEW c \in Codes PROVE QueueOf(c)'
    BY DEF QueueInv
  <2> QueueOf(c)
    BY DEF QueueInv
  <2>5. CASE c = d
    <3>1. (\A u \in Users : HasCode(state[u], c) => MailComing(u, c, state[u].sentAt))'
      BY <1>1, <2>3, <2>5 DEF QueueOf, MailComing
    <3>2. (\A q \in Requests :
             ShelvesCode(q, c) => MailComing(req[q].user, c, req[q].prev.sentAt))'
      BY <1>1, <2>3, <2>4, <2>5 DEF QueueOf, MailComing, ShelvesCode
    <3>3. QED
      BY <1>1, <2>4, <2>5, <3>1, <3>2 DEF QueueOf
  <2>6. CASE c # d
    <3>1. \A x \in Requests : Shelving(x) /\ req[x].code = c => Shelving(x)' /\ req'[x] = req[x]
      BY <2>2, <2>6 DEF Shelving
    <3>2. (\A u \in Users : HasCode(state[u], c) => MailComing(u, c, state[u].sentAt))'
      BY <1>1, <2>3, <2>6, <3>1 DEF QueueOf, MailComing
    <3>3. (\A q \in Requests :
             ShelvesCode(q, c) => MailComing(req[q].user, c, req[q].prev.sentAt))'
      BY <1>1, <2>3, <2>4, <2>6, <3>1 DEF QueueOf, MailComing, ShelvesCode
    <3>4. QED
      BY <1>1, <2>3, <2>4, <2>6, <3>2, <3>3 DEF QueueOf, ShelvesCode
  <2>7. QED
    BY <2>5, <2>6
<1>4. QED
  BY <1>2, <1>3

LEMMA SaveStep ==
  ASSUME "lost" \notin Outcomes, IInv, MailTypeOK, QueueInv,
         NEW r \in Requests, NEW o \in Outcomes, ForgotSave(r, o),
         UNCHANGED job, stuck \subseteq stuck'
  PROVE  QueueInv'
<1> TypeOK /\ RequestInv /\ FreshInv /\ CodeInv
  BY DEF IInv
<1> DEFINE d == req[r].code  v == req[r].user
<1>1. /\ d \in Codes /\ d \notin issued /\ v \in Users /\ ~Shelving(r)
      /\ req[r].pc = "forgot_save" /\ NextState(r) = AwaitingCode(d, req[r].at, 0)
  BY DEF ForgotSave, ForgotPC, RequestInv, GoodRequest, FreshInv, Shelving, NextState
<1>2. CASE RedisUnchanged /\ UNCHANGED issued /\ Respond(r)
  <2>1. ~Shelving(r)' /\ \A x \in Requests : x # r => req'[x] = req[x]
    BY <1>2, LeaveAt DEF Shelving
  <2>2. \A x \in Requests : Shelving(x)' <=> Shelving(x)
    BY <1>1, <2>1 DEF Shelving
  <2>3. \A x \in Requests : Shelving(x) => req'[x] = req[x]
    BY <1>1, <2>1
  <2>4. QED
    BY <1>2, <2>2, <2>3, QueueKept DEF RedisUnchanged
<1>3. CASE /\ state[v] = req[r].prev /\ Save(v, req[r].prev, NextState(r))
           /\ issued' = issued \union {d}
           /\ Become(r, [req[r] EXCEPT !.pc = "forgot_push"])
  <2>1. /\ state'[v] = AwaitingCode(d, req[r].at, 0)
        /\ \A u \in Users : u # v => state'[u] = state[u]
    BY <1>1, <1>3, SaveAt
  <2>2. /\ req'[r].pc = "forgot_push" /\ Shelving(r)' /\ req'[r].code = d
        /\ req'[r].user = v /\ req'[r].at = req[r].at /\ req'[r].prev = state[v]
        /\ \A x \in Requests : x # r => req'[x] = req[x]
    BY <1>1, <1>3, MoveAt DEF Shelving
  <2>3. /\ job[d].stage = "none"
        /\ \A u \in Users : ~HasCode(state[u], d)
        /\ \A x \in Requests : ~ShelvesCode(x, d) /\ ~(Shelving(x) /\ req[x].code = d)
    BY <1>1 DEF QueueInv, QueueOf, CodeInv, ShelvesCode
  <2>4. \A x \in Requests : x # r => (Shelving(x)' <=> Shelving(x))
    BY <2>2 DEF Shelving
  <2> SUFFICES ASSUME NEW c \in Codes PROVE QueueOf(c)'
    BY DEF QueueInv
  <2> QueueOf(c)
    BY DEF QueueInv
  <2>5. CASE c = d
    <3>1. (\A u \in Users : HasCode(state[u], c) => MailComing(u, c, state[u].sentAt))'
      BY <2>2, <2>5 DEF MailComing
    <3>2. (\A q \in Requests :
             ShelvesCode(q, c) => MailComing(req[q].user, c, req[q].prev.sentAt))'
      BY <2>2, <2>5 DEF MailComing
    <3>3. \A u \in Users : HasCode(state'[u], c) => u = v /\ state'[u].sentAt = req[r].at
      BY <1>1, <2>1, <2>3, <2>5, Holding
    <3>4. \A q \in Requests : ~ShelvesCode(q, c)'
      BY <1>1, <2>2, <2>3, <2>4, <2>5 DEF ShelvesCode
    <3>5. \A x \in Requests : Shelving(x)' /\ req'[x].code = c => x = r
      BY <2>2, <2>3, <2>4, <2>5
    <3>6. QED
      BY <1>3, <2>2, <2>3, <2>5, <3>1, <3>2, <3>3, <3>4, <3>5 DEF QueueOf
  <2>6. CASE c # d
    <3>1. \A x \in Requests : Shelving(x)' /\ req'[x].code = c
                                <=> x # r /\ Shelving(x) /\ req[x].code = c
      BY <2>2, <2>4, <2>6
    <3>2. \A x \in Requests : Shelving(x) => x # r
      BY <1>1
    <3>3. \A u \in Users : HasCode(state'[u], c) => u # v /\ HasCode(state[u], c)
      BY <2>1, <2>6, Holding
    <3>4. \A q \in Requests : ShelvesCode(q, c)' =>
            \/ q # r /\ ShelvesCode(q, c)
            \/ q = r /\ HasCode(state[v], c)
      BY <2>2, <2>4 DEF ShelvesCode
    <3>5. (\A u \in Users : HasCode(state[u], c) => MailComing(u, c, state[u].sentAt))'
      BY <2>1, <2>2, <3>1, <3>2, <3>3 DEF QueueOf, MailComing
    <3>6. (\A q \in Requests :
             ShelvesCode(q, c) => MailComing(req[q].user, c, req[q].prev.sentAt))'
      BY <1>1, <2>2, <3>1, <3>2, <3>4 DEF QueueOf, MailComing
    <3>7. (\A x \in Requests : Shelving(x) /\ req[x].code = c =>
             /\ c \in issued
             /\ req[x].pc = "forgot_push" => job[c].stage = "none"
             /\ \A u \in Users : HasCode(state[u], c) =>
                  u = req[x].user /\ state[u].sentAt = req[x].at
             /\ \A q \in Requests : ShelvesCode(q, c) =>
                  req[q].user = req[x].user /\ req[q].prev.sentAt = req[x].at)'
      BY <1>1, <1>3, <2>1, <2>2, <3>1, <3>3, <3>4 DEF QueueOf
    <3>8. QED
      BY <1>3, <3>5, <3>6, <3>7 DEF QueueOf
  <2>7. QED
    BY <2>5, <2>6
<1>4. QED
  BY <1>2, <1>3, ResetAssumption DEF ForgotSave, CanSave, Runs

LEMMA RollbackStep ==
  ASSUME IInv, MailTypeOK, QueueInv,
         NEW r \in Requests, NEW o \in Outcomes, ForgotRollback(r, o),
         UNCHANGED job, stuck \subseteq stuck',
         state' = state => req[r].code \in stuck'
  PROVE  QueueInv'
<1> TypeOK /\ RequestInv /\ FreshInv /\ CodeInv
  BY DEF IInv
<1> DEFINE d == req[r].code  v == req[r].user
<1>1. /\ d \in Codes /\ v \in Users /\ Shelving(r)
      /\ NextState(r) = AwaitingCode(d, req[r].at, 0) /\ issued' = issued
  BY DEF ForgotRollback, ForgotPC, RequestInv, GoodRequest, Shelving, NextState
<1>2. ~Shelving(r)' /\ \A x \in Requests : x # r => req'[x] = req[x]
  BY LeaveAt DEF ForgotRollback, Shelving
<1>3. \A x \in Requests : Shelving(x)' => x # r /\ Shelving(x) /\ req'[x] = req[x]
  BY <1>2 DEF Shelving
<1>4. \A x \in Requests, c \in Codes :
        x # r /\ Shelving(x) /\ req[x].code = c => Shelving(x)' /\ req'[x].code = c
  BY <1>2 DEF Shelving
<1> SUFFICES ASSUME NEW c \in Codes PROVE QueueOf(c)'
  BY DEF QueueInv
<1> QueueOf(c)
  BY DEF QueueInv
<1>5. \A q \in Requests : ShelvesCode(q, c)' => q # r /\ ShelvesCode(q, c) /\ req'[q] = req[q]
  BY <1>3 DEF ShelvesCode
<1>6. CASE RedisUnchanged
  <2>1. state' = state /\ d \in stuck'
    BY <1>6 DEF RedisUnchanged
  <2>2. (\A u \in Users : HasCode(state[u], c) => MailComing(u, c, state[u].sentAt))'
    BY <1>4, <2>1 DEF QueueOf, MailComing
  <2>3. (\A q \in Requests :
           ShelvesCode(q, c) => MailComing(req[q].user, c, req[q].prev.sentAt))'
    BY <1>4, <1>5, <2>1 DEF QueueOf, MailComing
  <2>4. QED
    BY <1>1, <1>3, <1>5, <2>1, <2>2, <2>3 DEF QueueOf
<1>7. CASE /\ state[v] = NextState(r)
           /\ \/ req[r].prev = Absent /\ Clear(v, NextState(r))
              \/ Save(v, NextState(r), req[r].prev)
  <2>1. state'[v] = req[r].prev /\ \A u \in Users : u # v => state'[u] = state[u]
    BY <1>1, <1>7, SaveAt, ClearAt
  <2>2. /\ HasCode(state[v], d)
        /\ \A u \in Users : u # v => ~HasCode(state[u], d)
        /\ \A x \in Requests : ~ShelvesCode(x, d)
    BY <1>1, <1>7, Holding DEF CodeInv
  <2>3. \A u \in Users : HasCode(state'[u], c) =>
          \/ u # v /\ HasCode(state[u], c) /\ state'[u] = state[u]
          \/ u = v /\ ShelvesCode(r, c) /\ state'[u] = req[r].prev
    BY <1>1, <2>1 DEF ShelvesCode
  <2>4. CASE c = d
    <3>1. \A u \in Users : ~HasCode(state'[u], c)
      BY <2>2, <2>3, <2>4
    <3>2. \A q \in Requests : ~ShelvesCode(q, c)'
      BY <1>5, <2>2, <2>4
    <3>3. QED
      BY <1>1, <1>3, <3>1, <3>2 DEF QueueOf
  <2>5. CASE c # d
    <3>1. (\A u \in Users : HasCode(state[u], c) => MailComing(u, c, state[u].sentAt))'
      BY <1>1, <1>4, <2>3, <2>5 DEF QueueOf, MailComing
    <3>2. (\A q \in Requests :
             ShelvesCode(q, c) => MailComing(req[q].user, c, req[q].prev.sentAt))'
      BY <1>4, <1>5, <2>5 DEF QueueOf, MailComing
    <3>3. QED
      BY <1>1, <1>3, <1>5, <2>3, <3>1, <3>2 DEF QueueOf
  <2>6. QED
    BY <2>4, <2>5
<1>8. QED
  BY <1>6, <1>7 DEF ForgotRollback

LEMMA QueueStep ==
  ASSUME "lost" \notin Outcomes, Abandons = {}, IInv, MailTypeOK, QueueInv,
         [MailNext]_allVars
  PROVE  QueueInv'
<1> TypeOK /\ RequestInv /\ IndexConsistent
  BY DEF IInv
<1>1. ASSUME NEW r \in Requests, ~Shelving(r), ~Shelving(r)',
             \A x \in Requests : x # r => req'[x] = req[x],
             \A u \in Users, c \in Codes : HasCode(state'[u], c) =>
               HasCode(state[u], c) /\ state'[u].sentAt = state[u].sentAt,
             UNCHANGED <<job, issued>>, stuck \subseteq stuck'
      PROVE  QueueInv'
  BY <1>1, QueueKept DEF Shelving
<1>2. ASSUME UNCHANGED <<req, job, issued, stuck>>,
             \A u \in Users : state'[u] = state[u] \/ state'[u] = Absent
      PROVE  QueueInv'
  BY <1>2, QueueKept, Holding DEF Shelving
<1>3. ASSUME NEW r \in Requests, NEW u \in Users, ForgotPassword(r, u), UNCHANGED mailVars
      PROVE  QueueInv'
  BY <1>1, <1>3, BecomeAt, ReqFields DEF ForgotPassword, Shelving, mailVars
<1>4. ASSUME NEW r \in Requests, NEW u \in Users, NEW c \in issued \union {NoCode},
             VerifyResetCode(r, u, c), UNCHANGED mailVars
      PROVE  QueueInv'
  BY <1>1, <1>4, BecomeAt, ReqFields DEF VerifyResetCode, Shelving, mailVars
<1>5. ASSUME NEW r \in Requests, NEW k \in Keys, NEW o \in Outcomes, ResetPassword(r, k, o),
             UNCHANGED mailVars
      PROVE  QueueInv'
  <2>1. \A u \in Users : state'[u] = state[u] \/ state'[u] = Absent
    BY <1>5 DEF ResetPassword, Consume, RedisUnchanged, TypeOK
  <2>2. CASE UNCHANGED req
    BY <1>2, <1>5, <2>1, <2>2 DEF ResetPassword, mailVars
  <2>3. CASE ~UNCHANGED req
    <3>1. ~Shelving(r) /\ ~Shelving(r)' /\ \A x \in Requests : x # r => req'[x] = req[x]
      BY <1>5, <2>3, BecomeAt, ReqFields DEF ResetPassword, Shelving
    <3>2. QED
      BY <1>1, <1>5, <2>1, <3>1, Holding DEF ResetPassword, mailVars
  <2>4. QED
    BY <2>2, <2>3
<1>6. ASSUME NEW r \in Requests, NEW o \in Outcomes, Proceed(r, o), UNCHANGED job,
             stuck \subseteq stuck',
             req[r].pc = "forgot_rollback" /\ state' = state => req[r].code \in stuck'
      PROVE  QueueInv'
  <2>1. CASE ForgotSave(r, o)
    BY <1>6, <2>1, SaveStep
  <2>2. CASE ForgotRollback(r, o)
    BY <1>6, <2>2, RollbackStep DEF ForgotRollback
  <2>3. CASE VerifyLoad(r, o)
    <3>1. CASE Become(r, [req[r] EXCEPT !.pc = "verify_check", !.prev = state[req[r].user]])
      <4>1. ~Shelving(r)' /\ \A x \in Requests : x # r => req'[x] = req[x]
        BY <3>1 DEF Become, TypeOK, Request, Shelving
      <4>2. QED
        BY <1>1, <1>6, <2>3, <4>1 DEF VerifyLoad, Shelving
    <3>2. QED
      BY <1>1, <1>6, <2>3, <3>1, LeaveAt DEF VerifyLoad, Shelving
  <2>4. CASE VerifyWrong(r, o)
    <3>1. req[r].user \in Users /\ req[r].prev.kind = "AwaitingCode"
      BY <2>4 DEF VerifyWrong, RequestInv, GoodRequest
    <3>2. \A u \in Users, c \in Codes : HasCode(state'[u], c) =>
            HasCode(state[u], c) /\ state'[u].sentAt = state[u].sentAt
      <4>1. CASE RedisUnchanged
        BY <4>1 DEF RedisUnchanged
      <4>2. CASE state[req[r].user] = req[r].prev /\ Increment(req[r].user)
        BY <3>1, <4>2, IncrementAt, Holding DEF HasCode
      <4>3. QED
        BY <2>4, <4>1, <4>2 DEF VerifyWrong
    <3>3. QED
      BY <1>1, <1>6, <2>4, <3>2, LeaveAt DEF VerifyWrong, Shelving
  <2>5. CASE VerifyRight(r, o)
    <3>1. req[r].user \in Users
      BY <2>5 DEF VerifyRight, RequestInv, GoodRequest
    <3>2. \A u \in Users : state'[u] = state[u] \/ \A c \in Codes : ~HasCode(state'[u], c)
      BY <2>5, <3>1, SaveAt, Holding DEF VerifyRight, RedisUnchanged
    <3>3. QED
      BY <1>1, <1>6, <2>5, <3>2, LeaveAt DEF VerifyRight, Shelving
  <2>6. CASE ResetFind(r, o) \/ ResetSet(r, o)
    <3>1. /\ ~Shelving(r) /\ ~Shelving(r)'
          /\ \A x \in Requests : x # r => req'[x] = req[x]
      BY <2>6, LeaveAt, MoveAt DEF ResetFind, ResetSet, Shelving
    <3>2. QED
      BY <1>1, <1>6, <2>6, <3>1 DEF ResetFind, ResetSet
  <2>7. CASE ResetRestore(r, o)
    <3>1. req[r].user \in Users
      BY <2>7 DEF ResetRestore, RequestInv, GoodRequest, ResetPC
    <3>2. \A u \in Users : state'[u] = state[u] \/ \A c \in Codes : ~HasCode(state'[u], c)
      BY <2>7, <3>1, SaveAt, Holding DEF ResetRestore, RedisUnchanged
    <3>3. QED
      BY <1>1, <1>6, <2>7, <3>2, LeaveAt DEF ResetRestore, Shelving
  <2>8. QED
    BY <1>6, <2>1, <2>2, <2>3, <2>4, <2>5, <2>6, <2>7 DEF Proceed
<1>7. ASSUME NEW r \in Requests, VerifyWrongLapsed(r), UNCHANGED job, stuck \subseteq stuck'
      PROVE  QueueInv'
  <2>1. \A u \in Users : state'[u] = state[u] \/ state'[u] = Absent
    BY <1>7 DEF VerifyWrongLapsed, TypeOK
  <2>2. QED
    BY <1>1, <1>7, <2>1, LeaveAt, Holding DEF VerifyWrongLapsed, Shelving
<1>8. ASSUME NEW r \in Requests, RequestStep(r) PROVE QueueInv'
  <2>1. ASSUME NEW o \in Outcomes, Proceed(r, o),
               stuck' = stuck \union {c \in Codes : /\ req[r].pc = "forgot_rollback"
                                                    /\ req[r].code = c
                                                    /\ state' = state},
               UNCHANGED job
        PROVE  QueueInv'
    <3>1. req[r].pc = "forgot_rollback" => req[r].code \in Codes
      BY DEF RequestInv, GoodRequest, ForgotPC
    <3>2. QED
      BY <1>6, <2>1, <3>1
  <2>2. QED
    BY <1>7, <1>8, <2>1, EnqueueStep DEF RequestStep
<1>9. ASSUME NEW c \in Codes, WorkerStep(c) PROVE QueueInv'
  <2>1. UNCHANGED <<state, issued, req, stuck>>
    BY <1>9 DEF WorkerStep, JobCheck, JobSent, JobFailed, vars
  <2>2. job[c].stage # "none" /\ \E stage \in {"queued", "sending", "done"} :
                                   job' = [job EXCEPT ![c].stage = stage]
    BY <1>9 DEF WorkerStep, JobCheck, JobSent, JobFailed
  <2>3. \A d \in Codes : /\ job'[d].stage = "none" <=> job[d].stage = "none"
                         /\ job'[d].user = job[d].user /\ job'[d].sentAt = job[d].sentAt
    BY <2>2 DEF MailTypeOK, Job
  <2>4. QED
    BY <2>1, <2>3, QueueKept DEF Shelving
<1>10. CASE Around
  <2>1. CASE Tick
    <3>1. \A u \in Users : state'[u] = state[u] \/ state'[u] = Absent
      BY <2>1 DEF Tick
    <3>2. QED
      BY <1>2, <1>10, <2>1, <3>1 DEF Tick, Around, mailVars
  <2>2. CASE \E u \in Users : DeleteAccount(u)
    BY <1>2, <1>10, <2>2 DEF DeleteAccount, Around, mailVars
  <2>3. QED
    BY <1>3, <1>4, <1>5, <1>10, <2>1, <2>2 DEF Around, Submit, Abandon
<1>11. CASE UNCHANGED allVars
  BY <1>2, <1>11 DEF allVars, vars, mailVars
<1>12. QED
  BY <1>8, <1>9, <1>10, <1>11 DEF MailNext

LEMMA QueueAlways ==
  ASSUME "lost" \notin Outcomes, Abandons = {}
  PROVE  MailSpec => []QueueInv
<1>1. MailInit => QueueInv
  <2>1. MailInit => /\ \A u \in Users, c \in Codes : ~HasCode(state[u], c)
                    /\ \A r \in Requests : ~Shelving(r)
                    /\ \A c \in Codes : job[c].stage = "none"
    BY Holding, ReqFields DEF MailInit, Init, NoJob, Shelving
  <2>2. QED
    BY <2>1 DEF QueueInv, QueueOf, ShelvesCode
<1>2. IInv /\ MailTypeOK /\ QueueInv /\ [MailNext]_allVars => QueueInv'
  BY QueueStep
<1>3. QED
  BY <1>1, <1>2, MailInvariance, MailTypeCorrect, PTL DEF MailSpec

-----------------------------------------------------------------------------
(* The time between mails.                                                 *)

LEMMA MailingIs ==
  /\ \A c, u, t : /\ Mailing(c, u, t).code = c /\ Mailing(c, u, t).user = u
                  /\ Mailing(c, u, t).at = t
  /\ \A c \in Codes : job[c].stage # "none" => Mailing(c, job[c].user, job[c].sentAt) \in Mailings
  /\ \A r \in Requests : req[r].pc = "forgot_push" =>
       Mailing(req[r].code, req[r].user, req[r].at) \in Mailings
  /\ \A m \in Mailings :
       \/ \E c \in Codes : job[c].stage # "none" /\ m = Mailing(c, job[c].user, job[c].sentAt)
       \/ \E r \in Requests : /\ req[r].pc = "forgot_push"
                              /\ m = Mailing(req[r].code, req[r].user, req[r].at)
BY DEF Mailing, Mailings

LEMMA MailingType ==
  ASSUME MailTypeOK, NEW m \in Mailings
  PROVE  m.at \in Nat
BY MailingIs DEF MailTypeOK, TypeOK, Job, Request

(* No new mailing where jobs keep what they are and requests only leave    *)
(* the push.                                                               *)
LEMMA MailingsKept ==
  ASSUME \A c \in Codes : /\ job'[c].stage # "none" => job[c].stage # "none"
                          /\ job'[c].user = job[c].user /\ job'[c].sentAt = job[c].sentAt,
         \A r \in Requests : req'[r].pc = "forgot_push" => req'[r] = req[r]
  PROVE  Mailings' \subseteq Mailings
<1> SUFFICES ASSUME NEW m \in Mailings' PROVE m \in Mailings
  OBVIOUS
<1>1. CASE \E c \in Codes : job'[c].stage # "none" /\ m = Mailing(c, job'[c].user, job'[c].sentAt)
  BY <1>1, MailingIs
<1>2. CASE \E r \in Requests : /\ req'[r].pc = "forgot_push"
                               /\ m = Mailing(req'[r].code, req'[r].user, req'[r].at)
  BY <1>2, MailingIs
<1>3. QED
  BY <1>1, <1>2 DEF Mailings, Mailing

(* The clock and the keys made so far.                                     *)
Onward ==
  /\ now \in Nat /\ now' \in Nat /\ now <= now'
  /\ \A k \in Keys : minted[k].user \in Users => minted'[k] = minted[k]
  /\ \A k \in Keys : minted[k].at \in Nat

LEMMA PastStays ==
  ASSUME Onward, NEW m \in Mailings, m.at \in Nat, m.user \in Users, Past(m)
  PROVE  Past(m)'
<1>1. CASE now - m.at >= RESEND_COOLDOWN
  BY <1>1, ResetAssumption DEF Past, Onward
<1>2. CASE \E k \in Keys : minted[k].user = m.user /\ m.at <= minted[k].at /\ minted[k].at <= now
  BY <1>2 DEF Past, Onward
<1>3. QED
  BY <1>1, <1>2 DEF Past

(* What is mailed keeps its code until it is past, wherever the code goes. *)
LEMMA SpacingKept ==
  ASSUME MailTypeOK, SpacingInv, Onward, Mailings' \subseteq Mailings,
         issued \subseteq issued', \A c \in issued : storedAt'[c] = storedAt[c],
         \A u \in Users, c \in Codes : HasCode(state'[u], c) =>
           \/ HasCode(state[u], c) /\ state'[u].sentAt = state[u].sentAt
           \/ \E q \in Requests : /\ ShelvesCode(q, c) /\ req[q].user = u
                                  /\ req[q].prev.sentAt = state'[u].sentAt,
         \A q \in Requests, c \in Codes : ShelvesCode(q, c)' =>
           \/ /\ ShelvesCode(q, c) /\ req'[q].user = req[q].user
              /\ req'[q].prev.sentAt = req[q].prev.sentAt
           \/ \E u \in Users : /\ HasCode(state[u], c) /\ req'[q].user = u
                               /\ req'[q].prev.sentAt = state[u].sentAt,
         \A m \in Mailings : MailingFits(m) /\ HasCode(state[m.user], m.code) =>
           HasCode(state'[m.user], m.code) \/ Past(m)'
  PROVE  /\ \A m \in Mailings' : MailingFits(m)'
         /\ \A m, n \in Mailings' : m.code # n.code /\ m.user = n.user => Apart(m, n)'
<1>1. ASSUME NEW m \in Mailings' PROVE MailingFits(m)'
  <2>1. m \in Mailings /\ MailingFits(m) /\ m.at \in Nat
    BY <1>1, MailingType DEF SpacingInv
  <2>2. /\ m.code \in issued' /\ m.user \in Users /\ m.code \in Codes
        /\ m.at <= now'
    BY <2>1 DEF MailingFits, MailTypeOK, TypeOK, Onward
  <2>3. \A u \in Users : HasCode(state'[u], m.code) => u = m.user /\ state'[u].sentAt = m.at
    BY <2>1, <2>2 DEF MailingFits
  <2>4. \A q \in Requests : ShelvesCode(q, m.code)' =>
          req'[q].user = m.user /\ req'[q].prev.sentAt = m.at
    BY <2>1, <2>2 DEF MailingFits
  <2>5. HasCode(state'[m.user], m.code) \/ Past(m)'
    BY <2>1, <2>2, PastStays DEF MailingFits
  <2>6. QED
    BY <2>2, <2>3, <2>4, <2>5 DEF MailingFits
<1>2. ASSUME NEW m \in Mailings', NEW n \in Mailings', m.code # n.code, m.user = n.user
      PROVE  Apart(m, n)'
  <2>1. /\ m \in Mailings /\ MailingFits(m) /\ Apart(m, n)
        /\ n \in Mailings /\ MailingFits(n)
    BY <1>2 DEF SpacingInv
  <2>2. storedAt'[m.code] = storedAt[m.code] /\ storedAt'[n.code] = storedAt[n.code]
    BY <2>1 DEF MailingFits
  <2>3. \A k \in Keys : minted[k].user = m.user => minted'[k] = minted[k]
    BY <2>1 DEF MailingFits, Onward
  <2>4. QED
    BY <2>1, <2>2, <2>3 DEF Apart
<1>3. QED
  BY <1>1, <1>2

(* A step of one request that has no part in the supersession of codes.    *)
LEMMA SpacingQuiet ==
  ASSUME MailTypeOK, SpacingInv, Onward, UNCHANGED <<job, mailed, issued>>,
         \A c \in issued : storedAt'[c] = storedAt[c],
         \A x \in Requests : Shelving(x)' => Shelving(x) /\ req'[x] = req[x],
         \A u \in Users, c \in Codes : HasCode(state'[u], c) =>
           HasCode(state[u], c) /\ state'[u].sentAt = state[u].sentAt,
         \A m \in Mailings : MailingFits(m) /\ HasCode(state[m.user], m.code) =>
           HasCode(state'[m.user], m.code) \/ Past(m)'
  PROVE  SpacingInv'
<1>1. Mailings' \subseteq Mailings
  BY MailingsKept DEF Shelving
<1>2. \A q \in Requests, c \in Codes : ShelvesCode(q, c)' =>
        ShelvesCode(q, c) /\ req'[q] = req[q]
  BY DEF ShelvesCode
<1>3. /\ \A m \in Mailings' : MailingFits(m)'
      /\ \A m, n \in Mailings' : m.code # n.code /\ m.user = n.user => Apart(m, n)'
  BY <1>1, <1>2, SpacingKept
<1>4. \A r \in Requests : Shelving(r)' => job'[req'[r].code].stage = "none"
  BY DEF SpacingInv
<1>5. \A c \in mailed' : job'[c].stage # "none"
  BY DEF SpacingInv
<1>6. QED
  BY <1>3, <1>4, <1>5 DEF SpacingInv

LEMMA SpacingEnqueue ==
  ASSUME "lost" \notin Outcomes, IInv, MailTypeOK, SpacingInv, Onward,
         NEW r \in Requests, NEW o \in Outcomes, Enqueue(r, o)
  PROVE  SpacingInv'
<1> TypeOK /\ RequestInv /\ FreshInv
  BY DEF IInv
<1> DEFINE d == req[r].code
<1>1. /\ d \in Codes /\ Shelving(r) /\ req[r].pc = "forgot_push"
      /\ UNCHANGED <<state, issued, mailed, storedAt, minted, now>>
  BY DEF Enqueue, ForgotPush, Shelving, ForgotPC, RequestInv, GoodRequest
<1>2. CASE o # "ok"
  <2>1. Become(r, [req[r] EXCEPT !.pc = "forgot_rollback"]) /\ job' = job
    BY <1>2, ResetAssumption DEF Enqueue, ForgotPush, Runs
  <2>2. /\ req'[r].pc = "forgot_rollback" /\ req'[r].code = req[r].code
        /\ req'[r].user = req[r].user /\ req'[r].prev = req[r].prev
        /\ \A x \in Requests : x # r => req'[x] = req[x]
    BY <2>1, MoveAt
  <2>3. Mailings' \subseteq Mailings
    BY <2>1, <2>2, MailingsKept
  <2>4. \A x \in Requests : /\ Shelving(x)' <=> Shelving(x)
                            /\ req'[x].code = req[x].code /\ req'[x].user = req[x].user
                            /\ req'[x].prev = req[x].prev
    BY <1>1, <2>2 DEF Shelving
  <2>5. \A q \in Requests, c \in Codes : ShelvesCode(q, c)' =>
          ShelvesCode(q, c) /\ req'[q].user = req[q].user /\ req'[q].prev = req[q].prev
    BY <2>4 DEF ShelvesCode
  <2>6. /\ \A m \in Mailings' : MailingFits(m)'
        /\ \A m, n \in Mailings' : m.code # n.code /\ m.user = n.user => Apart(m, n)'
    BY <1>1, <2>3, <2>5, SpacingKept
  <2>7. QED
    BY <1>1, <2>1, <2>4, <2>6 DEF SpacingInv
<1>3. CASE o = "ok"
  <2>1. /\ job' = [job EXCEPT ![d] = [stage |-> "queued", user |-> req[r].user,
                                      sentAt |-> req[r].at]]
        /\ Respond(r)
    BY <1>3 DEF Enqueue, ForgotPush, Runs
  <2>2. req'[r].pc # "forgot_push" /\ ~Shelving(r)' /\ \A x \in Requests : x # r => req'[x] = req[x]
    BY <2>1, LeaveAt DEF Shelving
  <2>3. /\ job'[d].stage = "queued" /\ job'[d].user = req[r].user
        /\ job'[d].sentAt = req[r].at
        /\ \A c \in Codes : c # d => job'[c] = job[c]
    BY <1>1, <2>1 DEF MailTypeOK
  <2>4. \A x \in Requests : Shelving(x)' => Shelving(x) /\ req'[x] = req[x] /\ req[x].code # d
    BY <1>1, <2>2 DEF FreshInv, Shelving, ForgotPC
  <2>5. Mailings' \subseteq Mailings
    <3> SUFFICES ASSUME NEW m \in Mailings' PROVE m \in Mailings
      OBVIOUS
    <3>1. ASSUME NEW c \in Codes, job'[c].stage # "none", m = Mailing(c, job'[c].user, job'[c].sentAt)
          PROVE  m \in Mailings
      <4>1. CASE c = d
        BY <1>1, <2>3, <3>1, <4>1, MailingIs
      <4>2. CASE c # d
        BY <2>3, <3>1, <4>2, MailingIs
      <4>3. QED
        BY <4>1, <4>2
    <3>2. ASSUME NEW x \in Requests, req'[x].pc = "forgot_push",
                 m = Mailing(req'[x].code, req'[x].user, req'[x].at)
          PROVE  m \in Mailings
      BY <2>2, <3>2, MailingIs
    <3>3. QED
      BY <3>1, <3>2 DEF Mailings, Mailing
  <2>6. \A q \in Requests, c \in Codes : ShelvesCode(q, c)' =>
          ShelvesCode(q, c) /\ req'[q] = req[q]
    BY <2>4 DEF ShelvesCode
  <2>7. /\ \A m \in Mailings' : MailingFits(m)'
        /\ \A m, n \in Mailings' : m.code # n.code /\ m.user = n.user => Apart(m, n)'
    BY <1>1, <2>5, <2>6, SpacingKept
  <2>8. \A x \in Requests : Shelving(x)' => job'[req'[x].code].stage = "none"
    BY <2>3, <2>4 DEF SpacingInv, RequestInv, GoodRequest, Shelving, ForgotPC
  <2>9. \A c \in mailed' : job'[c].stage # "none"
    BY <1>1, <2>3 DEF SpacingInv, MailTypeOK
  <2>10. QED
    BY <2>7, <2>8, <2>9 DEF SpacingInv
<1>4. QED
  BY <1>2, <1>3

(* A code is saved over another a cooldown after it, or over what came     *)
(* when the other was past.                                                *)
LEMMA SpacingSave ==
  ASSUME "lost" \notin Outcomes, IInv, MailTypeOK, SpacingInv, Onward,
         NEW r \in Requests, NEW o \in Outcomes, ForgotSave(r, o), UNCHANGED <<job, mailed>>,
         storedAt' = [c \in Codes |-> IF c \in issued' \ issued THEN now ELSE storedAt[c]]
  PROVE  SpacingInv'
<1> TypeOK /\ RequestInv /\ FreshInv /\ CodeInv
  BY DEF IInv
<1> DEFINE d == req[r].code  v == req[r].user
<1>1. /\ d \in Codes /\ d \notin issued /\ v \in Users /\ ~Shelving(r)
      /\ req[r].pc = "forgot_save" /\ NextState(r) = AwaitingCode(d, req[r].at, 0)
      /\ req[r].at \in Nat /\ req[r].at <= now
  BY DEF ForgotSave, ForgotPC, RequestInv, GoodRequest, FreshInv, Shelving, NextState,
         TypeOK, Request
<1> PICK w : /\ w = Mailing(d, v, req[r].at)
             /\ w.code = d /\ w.user = v /\ w.at = req[r].at
  BY MailingIs
<1>2. /\ now' = now /\ minted' = minted
      /\ \A c \in issued : storedAt'[c] = storedAt[c]
  BY DEF ForgotSave, TypeOK
<1>3. CASE RedisUnchanged /\ UNCHANGED issued /\ Respond(r)
  <2>1. \A x \in Requests : Shelving(x)' => Shelving(x) /\ req'[x] = req[x]
    BY <1>1, <1>3, LeaveAt DEF Shelving
  <2>2. QED
    BY <1>2, <1>3, <2>1, SpacingQuiet DEF RedisUnchanged
<1>4. CASE /\ state[v] = req[r].prev /\ Save(v, req[r].prev, NextState(r))
           /\ issued' = issued \union {d}
           /\ Become(r, [req[r] EXCEPT !.pc = "forgot_push"])
  <2>1. /\ state'[v] = AwaitingCode(d, req[r].at, 0)
        /\ \A u \in Users : u # v => state'[u] = state[u]
    BY <1>1, <1>4, SaveAt
  <2>2. /\ req'[r].pc = "forgot_push" /\ Shelving(r)' /\ req'[r].code = d
        /\ req'[r].user = v /\ req'[r].at = req[r].at /\ req'[r].prev = state[v]
        /\ \A x \in Requests : x # r => req'[x] = req[x]
    BY <1>1, <1>4, MoveAt DEF Shelving
  <2>3. \A x \in Requests : x # r => (Shelving(x)' <=> Shelving(x))
    BY <2>2 DEF Shelving
  <2>4. storedAt'[d] = now
    BY <1>1, <1>4
  <2>5. Mailings' \subseteq Mailings \union {w}
    <3>1. ASSUME NEW c \in Codes, job'[c].stage # "none"
          PROVE  Mailing(c, job'[c].user, job'[c].sentAt) \in Mailings
      BY <3>1, MailingIs
    <3>2. ASSUME NEW x \in Requests, req'[x].pc = "forgot_push"
          PROVE  Mailing(req'[x].code, req'[x].user, req'[x].at) \in Mailings \union {w}
      BY <2>2, <3>2, MailingIs
    <3>3. QED
      BY <3>1, <3>2 DEF Mailings
  <2>6. ASSUME NEW m \in Mailings
        PROVE  /\ MailingFits(m) /\ m.code # d /\ m.at \in Nat /\ m.code \in Codes
               /\ m.user = v => now - m.at >= RESEND_COOLDOWN \/ Past(m)
    <3>1. MailingFits(m) /\ m.code # d /\ m.at \in Nat /\ m.code \in Codes
      BY <1>1, MailingType DEF SpacingInv, MailingFits, TypeOK
    <3>2. ASSUME m.user = v, HasCode(state[v], m.code) PROVE now - m.at >= RESEND_COOLDOWN
      <4>1. req[r].prev.kind = "AwaitingCode" /\ req[r].prev.sentAt = m.at
        BY <1>1, <1>4, <3>1, <3>2 DEF MailingFits, HasCode
      <4>2. req[r].at - m.at >= RESEND_COOLDOWN
        BY <1>1, <4>1 DEF RequestInv, GoodRequest, ForgotPC
      <4>3. QED
        BY <1>1, <3>1, <4>2, ResetAssumption DEF TypeOK
    <3>3. QED
      BY <3>1, <3>2 DEF MailingFits
  <2>7. ASSUME NEW m \in Mailings PROVE MailingFits(m)'
    <3>1. MailingFits(m) /\ m.code # d /\ m.code \in Codes /\ m.user \in Users /\ m.at \in Nat
      BY <2>6 DEF MailingFits
    <3>2. m.code \in issued' /\ m.at <= now'
      BY <1>2, <1>4, <3>1 DEF MailingFits
    <3>3. \A u \in Users : HasCode(state'[u], m.code) => u = m.user /\ state'[u].sentAt = m.at
      BY <2>1, <3>1, Holding DEF MailingFits
    <3>4. \A q \in Requests : ShelvesCode(q, m.code)' =>
            req'[q].user = m.user /\ req'[q].prev.sentAt = m.at
      BY <1>1, <2>2, <2>3, <3>1 DEF MailingFits, ShelvesCode
    <3>5. HasCode(state'[m.user], m.code) \/ Past(m)'
      BY <1>2, <2>1, <2>6, <3>1, PastStays DEF MailingFits, Past
    <3>6. QED
      BY <3>1, <3>2, <3>3, <3>4, <3>5 DEF MailingFits
  <2>8. MailingFits(w)'
    <3>1. \A u \in Users : HasCode(state'[u], d) => u = v /\ state'[u].sentAt = req[r].at
      BY <1>1, <2>1, Holding DEF CodeInv
    <3>2. \A q \in Requests : ~ShelvesCode(q, w.code)'
      BY <1>1, <2>2, <2>3 DEF ShelvesCode, CodeInv
    <3>3. HasCode(state'[v], d)
      BY <2>1, Holding
    <3>4. QED
      BY <1>1, <1>2, <1>4, <3>1, <3>2, <3>3 DEF MailingFits
  <2>9. ASSUME NEW m \in Mailings, NEW n \in Mailings, m.code # n.code, m.user = n.user
        PROVE  Apart(m, n)'
    BY <1>2, <2>9 DEF SpacingInv, MailingFits, Apart
  <2>10. ASSUME NEW m \in Mailings, m.user = v PROVE Apart(m, w)' /\ Apart(w, m)'
    <3>1. CASE now - m.at >= RESEND_COOLDOWN
      BY <2>4, <3>1 DEF Apart
    <3>2. CASE \E k \in Keys : minted[k].user = v /\ m.at <= minted[k].at /\ minted[k].at <= now
      <4>1. PICK k \in Keys : minted[k].user = v /\ m.at <= minted[k].at /\ minted[k].at <= now
        BY <3>2
      <4>2. minted'[k].user = v /\ minted'[k].at >= m.at /\ minted'[k].at <= storedAt'[d]
        BY <1>2, <2>4, <2>6, <4>1 DEF Onward
      <4>3. QED
        BY <2>10, <4>2 DEF Apart
    <3>3. QED
      BY <2>6, <2>10, <3>1, <3>2 DEF Past
  <2>11. \A x \in Requests : Shelving(x)' => job'[req'[x].code].stage = "none"
    <3>1. job[d].stage = "none"
      BY <1>1, MailingIs DEF SpacingInv, MailingFits
    <3>2. QED
      BY <2>2, <2>3, <3>1 DEF SpacingInv
  <2>12. \A m, n \in Mailings' : m.code # n.code /\ m.user = n.user => Apart(m, n)'
    BY <2>5, <2>9, <2>10
  <2>13. \A m \in Mailings' : MailingFits(m)'
    BY <2>5, <2>7, <2>8
  <2>14. QED
    BY <2>11, <2>12, <2>13 DEF SpacingInv
<1>5. QED
  BY <1>3, <1>4, ResetAssumption DEF ForgotSave, CanSave, Runs

(* A rollback takes away a code that was not queued, and brings one back   *)
(* that is past.                                                           *)
LEMMA SpacingRollback ==
  ASSUME IInv, MailTypeOK, SpacingInv, Onward,
         NEW r \in Requests, NEW o \in Outcomes, ForgotRollback(r, o),
         UNCHANGED <<job, mailed>>, \A c \in issued : storedAt'[c] = storedAt[c]
  PROVE  SpacingInv'
<1> TypeOK /\ RequestInv /\ FreshInv
  BY DEF IInv
<1> DEFINE d == req[r].code  v == req[r].user
<1>1. /\ d \in Codes /\ v \in Users /\ Shelving(r) /\ req[r].pc = "forgot_rollback"
      /\ NextState(r) = AwaitingCode(d, req[r].at, 0) /\ issued' = issued
  BY DEF ForgotRollback, ForgotPC, RequestInv, GoodRequest, Shelving, NextState
<1>2. \A x \in Requests : Shelving(x)' => x # r /\ Shelving(x) /\ req'[x] = req[x]
  BY LeaveAt DEF ForgotRollback, Shelving
<1>3. CASE RedisUnchanged
  BY <1>1, <1>2, <1>3, SpacingQuiet DEF RedisUnchanged
<1>4. CASE /\ state[v] = NextState(r)
           /\ \/ req[r].prev = Absent /\ Clear(v, NextState(r))
              \/ Save(v, NextState(r), req[r].prev)
  <2>1. state'[v] = req[r].prev /\ \A u \in Users : u # v => state'[u] = state[u]
    BY <1>1, <1>4, SaveAt, ClearAt
  <2>2. \A c \in Codes : HasCode(state[v], c) => c = d
    BY <1>1, <1>4, Holding
  <2>3. ASSUME NEW m \in Mailings PROVE m.code # d
    <3>1. job[d].stage = "none"
      BY <1>1 DEF SpacingInv
    <3>2. \A x \in Requests : req[x].pc = "forgot_push" => req[x].code # d
      BY <1>1 DEF FreshInv, ForgotPC
    <3>3. QED
      BY <3>1, <3>2, MailingIs
  <2>4. \A u \in Users, c \in Codes : HasCode(state'[u], c) =>
          \/ HasCode(state[u], c) /\ state'[u].sentAt = state[u].sentAt
          \/ ShelvesCode(r, c) /\ req[r].user = u /\ req[r].prev.sentAt = state'[u].sentAt
    BY <1>1, <2>1 DEF ShelvesCode
  <2>5. \A m \in Mailings : MailingFits(m) /\ HasCode(state[m.user], m.code) =>
          HasCode(state'[m.user], m.code)
    BY <2>1, <2>2, <2>3 DEF MailingFits, TypeOK
  <2>6. Mailings' \subseteq Mailings
    BY <1>2, MailingsKept DEF Shelving
  <2>7. \A q \in Requests, c \in Codes : ShelvesCode(q, c)' =>
          ShelvesCode(q, c) /\ req'[q] = req[q]
    BY <1>2 DEF ShelvesCode
  <2>8. /\ \A m \in Mailings' : MailingFits(m)'
        /\ \A m, n \in Mailings' : m.code # n.code /\ m.user = n.user => Apart(m, n)'
    BY <1>1, <2>4, <2>5, <2>6, <2>7, SpacingKept
  <2>9. QED
    BY <1>2, <2>8 DEF SpacingInv
<1>5. QED
  BY <1>3, <1>4 DEF ForgotRollback

LEMMA StepsOnward == TypeOK /\ [Next]_vars => Onward
<1> SUFFICES ASSUME TypeOK, [Next]_vars PROVE Onward
  OBVIOUS
<1>1. now \in Nat /\ \A k \in Keys : minted[k].at \in Nat
  BY DEF TypeOK, Mint
<1>2. ASSUME NEW r \in Requests, Submit(r) \/ Abandon(r) PROVE UNCHANGED <<now, minted>>
  BY <1>2 DEF Submit, ForgotPassword, VerifyResetCode, ResetPassword, Abandon
<1>3. ASSUME NEW r \in Requests, Step(r)
      PROVE  /\ now' = now
             /\ minted' = minted \/ \E o \in Outcomes : VerifyRight(r, o)
  <2>1. CASE VerifyWrongLapsed(r)
    BY <2>1 DEF VerifyWrongLapsed
  <2>2. ASSUME NEW o \in Outcomes, ForgotPush(r, o) PROVE UNCHANGED <<now, minted>>
    BY <2>2 DEF ForgotPush
  <2>3. ASSUME NEW o \in Outcomes, Proceed(r, o), ~VerifyRight(r, o)
        PROVE  UNCHANGED <<now, minted>>
    BY <2>3 DEF Proceed, ForgotSave, ForgotRollback, VerifyLoad, VerifyWrong,
                ResetFind, ResetSet, ResetRestore
  <2>4. ASSUME NEW o \in Outcomes, VerifyRight(r, o) PROVE now' = now
    BY <2>4 DEF VerifyRight
  <2>5. QED
    BY <1>3, <2>1, <2>2, <2>3, <2>4 DEF Step
<1>4. ASSUME NEW r \in Requests, NEW o \in Outcomes, VerifyRight(r, o)
      PROVE  \A k \in Keys : minted[k].user \in Users => minted'[k] = minted[k]
  BY <1>4, ResetAssumption DEF VerifyRight, TypeOK, NoMint
<1>5. CASE (\E u \in Users : DeleteAccount(u)) \/ Tick \/ UNCHANGED vars
  <2>1. minted' = minted /\ (now' = now \/ now' = now + 1)
    BY <1>5 DEF DeleteAccount, Tick, vars
  <2>2. QED
    BY <1>1, <2>1 DEF Onward
<1>6. ASSUME NEW r \in Requests, Submit(r) \/ Step(r) \/ Abandon(r) PROVE Onward
  BY <1>1, <1>2, <1>3, <1>4, <1>6 DEF Onward
<1>7. QED
  BY <1>5, <1>6 DEF Next

LEMMA SpacingStep ==
  ASSUME "lost" \notin Outcomes, IInv, MailTypeOK, SpacingInv, Onward, [MailNext]_allVars
  PROVE  SpacingInv'
<1> TypeOK /\ RequestInv /\ IndexConsistent
  BY DEF IInv
(* A request that holds no superseded code, and leaves codes where they    *)
(* are or past.                                                            *)
<1>1. ASSUME NEW r \in Requests, ~Shelving(r)',
             \A x \in Requests : x # r => req'[x] = req[x],
             \A u \in Users, c \in Codes : HasCode(state'[u], c) =>
               HasCode(state[u], c) /\ state'[u].sentAt = state[u].sentAt,
             \A m \in Mailings : MailingFits(m) /\ HasCode(state[m.user], m.code) =>
               HasCode(state'[m.user], m.code) \/ Past(m)',
             UNCHANGED <<job, mailed, issued>>, \A c \in issued : storedAt'[c] = storedAt[c]
      PROVE  SpacingInv'
  BY <1>1, SpacingQuiet DEF Shelving
(* A request that changes no user's code.                                  *)
<1>2. ASSUME NEW r \in Requests, ~Shelving(r)',
             \A x \in Requests : x # r => req'[x] = req[x],
             \A u \in Users : \/ state'[u] = state[u]
                              \/ \A c \in Codes : ~HasCode(state[u], c) /\ ~HasCode(state'[u], c),
             UNCHANGED <<job, mailed, issued>>, \A c \in issued : storedAt'[c] = storedAt[c]
      PROVE  SpacingInv'
  <2>1. \A m \in Mailings : MailingFits(m) /\ HasCode(state[m.user], m.code) =>
          HasCode(state'[m.user], m.code)
    BY <1>2 DEF MailingFits, TypeOK
  <2>2. QED
    BY <1>1, <1>2, <2>1
<1>3. ASSUME NEW r \in Requests, NEW u \in Users, ForgotPassword(r, u), UNCHANGED mailVars
      PROVE  SpacingInv'
  BY <1>2, <1>3, BecomeAt, ReqFields DEF ForgotPassword, Shelving, mailVars
<1>4. ASSUME NEW r \in Requests, NEW u \in Users, NEW c \in issued \union {NoCode},
             VerifyResetCode(r, u, c), UNCHANGED mailVars
      PROVE  SpacingInv'
  BY <1>2, <1>4, BecomeAt, ReqFields DEF VerifyResetCode, Shelving, mailVars
<1>5. ASSUME NEW r \in Requests, NEW k \in Keys, NEW o \in Outcomes, ResetPassword(r, k, o),
             UNCHANGED mailVars
      PROVE  SpacingInv'
  <2>1. \A u \in Users : state'[u] = state[u] \/ (state'[u] = Absent /\ HasKey(state[u], k))
    <3>1. CASE state' = state
      BY <3>1
    <3>2. CASE Consumable(k) /\ state' = [state EXCEPT ![index[k].user] = Absent]
      BY <3>2 DEF Consumable, TypeOK
    <3>3. QED
      BY <1>5, <3>1, <3>2 DEF ResetPassword, Consume, RedisUnchanged
  <2>2. \A u \in Users : \/ state'[u] = state[u]
                         \/ \A c \in Codes : ~HasCode(state[u], c) /\ ~HasCode(state'[u], c)
    BY <2>1, Holding DEF HasKey, HasCode
  <2>3. CASE UNCHANGED req
    <3>1. \A m \in Mailings : MailingFits(m) /\ HasCode(state[m.user], m.code) =>
            HasCode(state'[m.user], m.code)
      BY <2>2 DEF MailingFits, TypeOK
    <3>2. \A u \in Users, c \in Codes : HasCode(state'[u], c) =>
            HasCode(state[u], c) /\ state'[u].sentAt = state[u].sentAt
      BY <2>2
    <3>3. QED
      BY <1>5, <2>3, <3>1, <3>2, SpacingQuiet DEF ResetPassword, mailVars, Shelving
  <2>4. CASE ~UNCHANGED req
    <3>1. ~Shelving(r)' /\ \A x \in Requests : x # r => req'[x] = req[x]
      BY <1>5, <2>4, BecomeAt, ReqFields DEF ResetPassword, Shelving
    <3>2. QED
      BY <1>2, <1>5, <2>2, <3>1 DEF ResetPassword, mailVars
  <2>5. QED
    BY <2>3, <2>4
<1>6. ASSUME NEW r \in Requests, NEW o \in Outcomes, Proceed(r, o), UNCHANGED <<job, mailed>>,
             storedAt' = [c \in Codes |-> IF c \in issued' \ issued THEN now ELSE storedAt[c]]
      PROVE  SpacingInv'
  <2>0. \A c \in issued : storedAt'[c] = storedAt[c]
    BY <1>6 DEF TypeOK
  <2>1. CASE ForgotSave(r, o)
    BY <1>6, <2>1, SpacingSave
  <2>2. CASE ForgotRollback(r, o)
    BY <1>6, <2>0, <2>2, SpacingRollback
  <2>3. CASE VerifyLoad(r, o)
    <3>1. CASE Become(r, [req[r] EXCEPT !.pc = "verify_check", !.prev = state[req[r].user]])
      <4>1. ~Shelving(r)' /\ \A x \in Requests : x # r => req'[x] = req[x]
        BY <3>1 DEF Become, TypeOK, Request, Shelving
      <4>2. QED
        BY <1>2, <1>6, <2>0, <2>3, <4>1 DEF VerifyLoad
    <3>2. QED
      BY <1>2, <1>6, <2>0, <2>3, <3>1, LeaveAt DEF VerifyLoad, Shelving
  <2>4. CASE VerifyWrong(r, o)
    <3>1. req[r].user \in Users /\ req[r].prev.kind = "AwaitingCode"
      BY <2>4 DEF VerifyWrong, RequestInv, GoodRequest
    <3>2. \A u \in Users, c \in Codes :
            /\ HasCode(state'[u], c) <=> HasCode(state[u], c)
            /\ HasCode(state[u], c) => state'[u].sentAt = state[u].sentAt
      <4>1. CASE RedisUnchanged
        BY <4>1 DEF RedisUnchanged
      <4>2. CASE state[req[r].user] = req[r].prev /\ Increment(req[r].user)
        BY <3>1, <4>2, IncrementAt, Holding DEF HasCode
      <4>3. QED
        BY <2>4, <4>1, <4>2 DEF VerifyWrong
    <3>3. \A m \in Mailings : MailingFits(m) /\ HasCode(state[m.user], m.code) =>
            HasCode(state'[m.user], m.code)
      BY <3>2 DEF MailingFits, TypeOK
    <3>4. QED
      BY <1>1, <1>6, <2>0, <2>4, <3>2, <3>3, LeaveAt DEF VerifyWrong, Shelving
  <2>5. CASE VerifyRight(r, o)
    <3>1. req[r].user \in Users
      BY <2>5 DEF VerifyRight, RequestInv, GoodRequest
    <3>2. \A u \in Users : state'[u] = state[u] \/ \A c \in Codes : ~HasCode(state'[u], c)
      BY <2>5, <3>1, SaveAt, Holding DEF VerifyRight, RedisUnchanged
    <3>3. ASSUME NEW m \in Mailings, MailingFits(m), HasCode(state[m.user], m.code),
                 ~HasCode(state'[m.user], m.code)
          PROVE  Past(m)'
      <4>1. PICK k \in Keys : /\ Save(req[r].user, req[r].prev, AwaitingPassword(k, now + KEY_EXPIRES))
                              /\ minted' = [minted EXCEPT ![k] = [user |-> req[r].user, at |-> now]]
        BY <2>5, <3>3 DEF VerifyRight, RedisUnchanged
      <4>2. m.user = req[r].user
        BY <3>1, <3>3, <4>1, SaveAt DEF MailingFits
      <4>3. minted'[k].user = m.user /\ minted'[k].at = now /\ now' = now
        BY <2>5, <4>1, <4>2 DEF VerifyRight, TypeOK
      <4>4. m.at <= now
        BY <3>3 DEF MailingFits
      <4>5. QED
        BY <4>3, <4>4 DEF Past, Onward
    <3>4. QED
      BY <1>1, <1>6, <2>0, <2>5, <3>2, <3>3, LeaveAt DEF VerifyRight, Shelving
  <2>6. CASE ResetFind(r, o) \/ ResetSet(r, o)
    <3>1. ~Shelving(r)' /\ \A x \in Requests : x # r => req'[x] = req[x]
      BY <2>6, LeaveAt, MoveAt DEF ResetFind, ResetSet, Shelving
    <3>2. QED
      BY <1>2, <1>6, <2>0, <2>6, <3>1 DEF ResetFind, ResetSet
  <2>7. CASE ResetRestore(r, o)
    <3>1. req[r].user \in Users
      BY <2>7 DEF ResetRestore, RequestInv, GoodRequest, ResetPC
    <3>2. \A u \in Users : \/ state'[u] = state[u]
                           \/ \A c \in Codes : ~HasCode(state[u], c) /\ ~HasCode(state'[u], c)
      BY <2>7, <3>1, SaveAt, Holding DEF ResetRestore, CanSave, RedisUnchanged
    <3>3. QED
      BY <1>2, <1>6, <2>0, <2>7, <3>2, LeaveAt DEF ResetRestore, Shelving
  <2>8. QED
    BY <1>6, <2>1, <2>2, <2>3, <2>4, <2>5, <2>6, <2>7 DEF Proceed
(* A code that expires is past: it is kept longer than the cooldown.       *)
<1>7. ASSUME \A u \in Users : \/ state'[u] = state[u]
                              \/ state'[u] = Absent /\ ExpiresAt(state[u]) <= now + 1,
             Onward, now' = now \/ now' = now + 1
      PROVE  /\ \A u \in Users, c \in Codes : HasCode(state'[u], c) =>
                  HasCode(state[u], c) /\ state'[u].sentAt = state[u].sentAt
             /\ \A m \in Mailings : MailingFits(m) /\ HasCode(state[m.user], m.code) =>
                  HasCode(state'[m.user], m.code) \/ Past(m)'
  <2>1. ASSUME NEW m \in Mailings, MailingFits(m), HasCode(state[m.user], m.code),
               ~HasCode(state'[m.user], m.code)
        PROVE  Past(m)'
    <3>1. m.user \in Users /\ ExpiresAt(state[m.user]) <= now + 1 /\ state[m.user].sentAt = m.at
      BY <1>7, <2>1 DEF MailingFits
    <3>2. m.at + CODE_EXPIRES <= now + 1
      BY <2>1, <3>1 DEF ExpiresAt, HasCode
    <3>3. now' - m.at >= RESEND_COOLDOWN
      BY <1>7, <3>2, MailingType, ResetAssumption DEF Onward
    <3>4. QED
      BY <3>3 DEF Past
  <2>2. QED
    BY <1>7, <2>1, Holding
<1>8. ASSUME NEW r \in Requests, VerifyWrongLapsed(r), UNCHANGED <<job, mailed>>,
             storedAt' = [c \in Codes |-> IF c \in issued' \ issued THEN now ELSE storedAt[c]]
      PROVE  SpacingInv'
  <2>1. \A c \in issued : storedAt'[c] = storedAt[c]
    BY <1>8 DEF TypeOK
  <2>2. /\ \A u \in Users : \/ state'[u] = state[u]
                            \/ state'[u] = Absent /\ ExpiresAt(state[u]) <= now + 1
        /\ now' = now
    BY <1>8 DEF VerifyWrongLapsed, TypeOK
  <2>3. QED
    BY <1>1, <1>7, <1>8, <2>1, <2>2, LeaveAt DEF VerifyWrongLapsed, Shelving
<1>9. ASSUME NEW r \in Requests, RequestStep(r) PROVE SpacingInv'
  BY <1>6, <1>8, <1>9, SpacingEnqueue DEF RequestStep
<1>10. ASSUME NEW c \in Codes, WorkerStep(c) PROVE SpacingInv'
  <2>1. UNCHANGED <<now, state, issued, req, minted, storedAt>>
    BY <1>10 DEF WorkerStep, JobCheck, JobSent, JobFailed, vars
  <2>2. job[c].stage # "none" /\ \E stage \in {"queued", "sending", "done"} :
                                   job' = [job EXCEPT ![c].stage = stage]
    BY <1>10 DEF WorkerStep, JobCheck, JobSent, JobFailed
  <2>3. \A d \in Codes : /\ job'[d].stage = "none" <=> job[d].stage = "none"
                         /\ job'[d].user = job[d].user /\ job'[d].sentAt = job[d].sentAt
    BY <2>2 DEF MailTypeOK, Job
  <2>4. mailed' \subseteq mailed \union {c}
    BY <1>10 DEF WorkerStep, JobCheck, JobSent, JobFailed
  <2>5. Mailings' \subseteq Mailings
    BY <2>1, <2>3, MailingsKept
  <2>6. /\ \A m \in Mailings' : MailingFits(m)'
        /\ \A m, n \in Mailings' : m.code # n.code /\ m.user = n.user => Apart(m, n)'
    BY <2>1, <2>5, SpacingKept DEF ShelvesCode, Shelving
  <2>7. \A r \in Requests : Shelving(r)' => job'[req'[r].code].stage = "none"
    BY <2>1, <2>3 DEF SpacingInv, RequestInv, GoodRequest, Shelving, ForgotPC
  <2>8. \A d \in mailed' : job'[d].stage # "none"
    BY <2>2, <2>3, <2>4 DEF SpacingInv, MailTypeOK
  <2>9. QED
    BY <2>6, <2>7, <2>8 DEF SpacingInv
<1>11. CASE Around
  <2>1. CASE Tick
    <3>1. /\ \A u \in Users : \/ state'[u] = state[u]
                              \/ state'[u] = Absent /\ ExpiresAt(state[u]) <= now + 1
          /\ now' = now + 1
      BY <2>1 DEF Tick
    <3>2. QED
      BY <1>7, <1>11, <2>1, <3>1, SpacingQuiet DEF Tick, Around, mailVars, Shelving
  <2>2. CASE \E u \in Users : DeleteAccount(u)
    <3>1. UNCHANGED <<state, req, issued, job, mailed, storedAt>>
      BY <1>11, <2>2 DEF DeleteAccount, Around, mailVars
    <3>2. QED
      BY <3>1, SpacingQuiet DEF Shelving
  <2>3. ASSUME NEW r \in Requests, Abandon(r) PROVE SpacingInv'
    BY <1>2, <1>11, <2>3, LeaveAt DEF Abandon, Shelving, Around, mailVars
  <2>4. QED
    BY <1>3, <1>4, <1>5, <1>11, <2>1, <2>2, <2>3 DEF Around, Submit
<1>12. CASE UNCHANGED allVars
  BY <1>12, SpacingQuiet DEF allVars, vars, mailVars, Shelving
<1>13. QED
  BY <1>9, <1>10, <1>11, <1>12 DEF MailNext

LEMMA SpacingAlways ==
  ASSUME "lost" \notin Outcomes
  PROVE  MailSpec => []SpacingInv
<1>1. MailInit => SpacingInv
  <2>1. MailInit => Mailings = {} /\ \A r \in Requests : ~Shelving(r)
    BY ReqFields, MailingIs DEF MailInit, Init, NoJob, Shelving
  <2>2. QED
    BY <2>1 DEF MailInit, SpacingInv
<1>2. IInv /\ MailTypeOK /\ SpacingInv /\ [MailNext]_allVars => SpacingInv'
  BY MailStep, StepsOnward, SpacingStep DEF IInv
<1>3. QED
  BY <1>1, <1>2, MailInvariance, MailTypeCorrect, PTL DEF MailSpec

(* While no reply is lost, mails to one user keep the cooldown, however    *)
(* late they are sent and whatever is rolled back in between.              *)
THEOREM MailsSpaced ==
  ASSUME "lost" \notin Outcomes
  PROVE  MailSpec => []MailSpacing
<1>1. MailTypeOK /\ SpacingInv => MailSpacing
  <2> SUFFICES ASSUME MailTypeOK, SpacingInv, NEW c \in mailed, NEW d \in mailed, c # d,
                      job[c].user = job[d].user
               PROVE  \/ storedAt[d] - job[c].sentAt >= RESEND_COOLDOWN
                      \/ storedAt[c] - job[d].sentAt >= RESEND_COOLDOWN
                      \/ \E k \in Keys :
                           /\ minted[k].user = job[c].user
                           /\ minted[k].at >= job[c].sentAt \/ minted[k].at >= job[d].sentAt
                           /\ minted[k].at <= storedAt[c] \/ minted[k].at <= storedAt[d]
    BY DEF MailSpacing
  <2> DEFINE m == Mailing(c, job[c].user, job[c].sentAt)
             n == Mailing(d, job[d].user, job[d].sentAt)
  <2>1. m \in Mailings /\ n \in Mailings
    BY MailingIs DEF SpacingInv, MailTypeOK
  <2>2. /\ m.code = c /\ m.user = job[c].user /\ m.at = job[c].sentAt
        /\ n.code = d /\ n.user = job[d].user /\ n.at = job[d].sentAt
    BY MailingIs
  <2> HIDE DEF m, n
  <2>3. Apart(m, n)
    BY <2>1, <2>2 DEF SpacingInv
  <2>4. QED
    BY <2>2, <2>3 DEF Apart
<1>2. QED
  BY <1>1, SpacingAlways, MailTypeCorrect, PTL

-----------------------------------------------------------------------------
(* The jobs the worker is rid of.                                          *)

(* No step puts a code back into its cooldown.                             *)
LEMMA CodeComes ==
  ASSUME IInv, [Next]_vars, NEW u \in Users, NEW c \in issued, HasCode(state'[u], c)
  PROVE  \/ HasCode(state[u], c) /\ state'[u].sentAt = state[u].sentAt
         \/ now - state'[u].sentAt >= RESEND_COOLDOWN
<1> TypeOK /\ RequestInv /\ FreshInv
  BY DEF IInv
<1> SUFFICES ASSUME state'[u] # state[u]
             PROVE  \/ HasCode(state[u], c) /\ state'[u].sentAt = state[u].sentAt
                    \/ now - state'[u].sentAt >= RESEND_COOLDOWN
  OBVIOUS
<1>1. state'[u] # Absent
  BY Holding
<1>2. ASSUME NEW r \in Requests, NEW o \in Outcomes, ForgotSave(r, o) PROVE FALSE
  <2>1. req[r].user \in Users /\ req[r].code \notin issued
    BY <1>2 DEF ForgotSave, ForgotPC, RequestInv, GoodRequest, FreshInv
  <2>2. Save(req[r].user, req[r].prev, NextState(r))
    BY <1>2 DEF ForgotSave, RedisUnchanged
  <2>3. state'[u] = NextState(r)
    BY <2>1, <2>2, SaveAt
  <2>4. QED
    BY <2>1, <2>3, Holding DEF NextState
<1>3. ASSUME NEW r \in Requests, NEW o \in Outcomes, ForgotRollback(r, o)
      PROVE  now - state'[u].sentAt >= RESEND_COOLDOWN
  <2>1. /\ req[r].user \in Users /\ req[r].at <= now
        /\ req[r].prev.kind = "AwaitingCode" =>
             req[r].at - req[r].prev.sentAt >= RESEND_COOLDOWN
    BY <1>3 DEF ForgotRollback, ForgotPC, RequestInv, GoodRequest
  <2>2. state'[u] = req[r].prev
    BY <1>1, <1>3, <2>1, SaveAt, ClearAt DEF ForgotRollback, RedisUnchanged
  <2>3. req[r].prev.sentAt \in Nat /\ req[r].at \in Nat /\ now \in Nat
    BY <2>2, StoredFields DEF TypeOK, Request, HasCode
  <2>4. QED
    BY <2>1, <2>2, <2>3, ResetAssumption DEF HasCode
<1>4. ASSUME NEW r \in Requests, NEW o \in Outcomes, VerifyWrong(r, o)
      PROVE  HasCode(state[u], c) /\ state'[u].sentAt = state[u].sentAt
  <2>1. req[r].user \in Users /\ req[r].prev.kind = "AwaitingCode"
    BY <1>4 DEF VerifyWrong, RequestInv, GoodRequest
  <2>2. state[req[r].user] = req[r].prev /\ Increment(req[r].user)
    BY <1>4 DEF VerifyWrong, RedisUnchanged
  <2>3. QED
    BY <2>1, <2>2, IncrementAt, Holding DEF HasCode
<1>5. ASSUME NEW r \in Requests, VerifyWrongLapsed(r) PROVE FALSE
  BY <1>1, <1>5 DEF VerifyWrongLapsed, TypeOK
<1>6. ASSUME NEW r \in Requests, NEW o \in Outcomes, VerifyRight(r, o) PROVE FALSE
  <2>1. req[r].user \in Users
    BY <1>6 DEF VerifyRight, RequestInv, GoodRequest
  <2>2. \E k \in Keys : state'[u] = AwaitingPassword(k, now + KEY_EXPIRES)
    BY <1>6, <2>1, SaveAt DEF VerifyRight, RedisUnchanged
  <2>3. QED
    BY <2>2, Holding
<1>7. ASSUME NEW r \in Requests, NEW k \in Keys, NEW o \in Outcomes, ResetPassword(r, k, o)
      PROVE  FALSE
  BY <1>1, <1>7 DEF ResetPassword, Consume, RedisUnchanged, TypeOK
<1>8. ASSUME NEW r \in Requests, NEW o \in Outcomes, ResetRestore(r, o) PROVE FALSE
  <2>1. req[r].user \in Users
    BY <1>8 DEF ResetRestore, RequestInv, GoodRequest
  <2>2. state'[u] = AwaitingPassword(req[r].key, req[r].at)
    BY <1>8, <2>1, SaveAt DEF ResetRestore, RedisUnchanged
  <2>3. QED
    BY <2>2, Holding
<1>9. ASSUME Tick PROVE FALSE
  BY <1>1, <1>9 DEF Tick
<1>10. ASSUME UNCHANGED state PROVE FALSE
  BY <1>10
<1>11. QED
  BY <1>2, <1>3, <1>4, <1>5, <1>6, <1>7, <1>8, <1>9, <1>10
     DEF Next, Submit, Step, Proceed, ForgotPassword, ForgotPush, VerifyResetCode, VerifyLoad,
         ResetFind, ResetSet, Abandon, DeleteAccount, vars

(* Only the worker is rid of a job, and remembers why.                     *)
LEMMA DoneStep ==
  ASSUME MailTypeOK, [MailNext]_allVars, NEW c \in Codes,
         job'[c].stage = "done", job[c].stage # "done"
  PROVE  /\ job[c].stage # "none" /\ UNCHANGED <<now, state>>
         /\ \/ c \in mailed' \union dropped'
            \/ JobExpired(c) \/ ~JobIsCurrent(c, "ok")
<1>1. ASSUME NEW r \in Requests, NEW o \in Outcomes, Enqueue(r, o) PROVE FALSE
  BY <1>1 DEF Enqueue, MailTypeOK
<1>2. ASSUME NEW d \in Codes, NEW o \in Outcomes, JobCheck(d, o)
      PROVE  /\ job[c].stage # "none" /\ UNCHANGED <<now, state>>
             /\ \/ c \in mailed' \union dropped'
                \/ JobExpired(c) \/ ~JobIsCurrent(c, "ok")
  <2>1. c = d /\ (JobExpired(c) \/ ~JobIsCurrent(c, o))
    BY <1>2 DEF JobCheck, MailTypeOK, Job
  <2>2. QED
    BY <1>2, <2>1 DEF JobCheck, vars
<1>3. ASSUME NEW d \in Codes, JobSent(d) \/ JobFailed(d)
      PROVE  /\ job[c].stage # "none" /\ UNCHANGED <<now, state>>
             /\ c \in mailed' \union dropped'
  BY <1>3 DEF JobSent, JobFailed, MailTypeOK, Job, vars
<1>4. ASSUME UNCHANGED job PROVE FALSE
  BY <1>4
<1>5. QED
  BY <1>1, <1>2, <1>3, <1>4
     DEF MailNext, RequestStep, WorkerStep, Around, allVars, mailVars

LEMMA HistoriesGrow ==
  ASSUME [MailNext]_allVars
  PROVE  mailed \subseteq mailed' /\ dropped \subseteq dropped'
BY DEF MailNext, RequestStep, Enqueue, WorkerStep, JobCheck, JobSent, JobFailed, Around,
       allVars, mailVars

LEMMA HandledStep ==
  ASSUME IInv, MailTypeOK, SpacingInv, HandledInv, Onward, [MailNext]_allVars
  PROVE  HandledInv'
<1> TypeOK /\ [Next]_vars
  BY MailStep DEF IInv
<1> SUFFICES ASSUME NEW c \in Codes, job'[c].stage = "done", c \notin mailed' \union dropped',
                    NEW u \in Users, HasCode(state'[u], c)
             PROVE  ~IsInCodeResendCooldown(state[u])'
  BY DEF HandledInv, HandledOf
<1> DEFINE m == Mailing(c, job[c].user, job[c].sentAt)
<1>1. c \notin mailed \union dropped
  BY HistoriesGrow
<1>2. /\ now \in Nat /\ now' \in Nat /\ now <= now' /\ job[c].sentAt \in Nat
      /\ state'[u].sentAt \in Nat
  BY TypeStep, StoredFields DEF Onward, MailTypeOK, Job, IInv, TypeOK, HasCode
<1>3. ASSUME job[c].stage # "none"
      PROVE  /\ c \in issued
             /\ \A v \in Users : HasCode(state[v], c) =>
                  v = job[c].user /\ state[v].sentAt = job[c].sentAt
  <2>1. /\ m \in Mailings /\ m.code = c /\ m.user = job[c].user /\ m.at = job[c].sentAt
    BY <1>3, MailingIs
  <2>2. MailingFits(m)
    BY <2>1 DEF SpacingInv
  <2>3. QED
    BY <2>1, <2>2 DEF MailingFits
<1>4. CASE job[c].stage = "done"
  <2>1. HasCode(state[u], c) => ~IsInCodeResendCooldown(state[u])
    BY <1>1, <1>4 DEF HandledInv, HandledOf
  <2>2. \/ HasCode(state[u], c) /\ state'[u].sentAt = state[u].sentAt
        \/ now - state'[u].sentAt >= RESEND_COOLDOWN
    BY <1>3, <1>4, CodeComes
  <2>3. QED
    BY <1>2, <2>1, <2>2, ResetAssumption DEF IsInCodeResendCooldown, HasCode
<1>5. CASE job[c].stage # "done"
  <2>1. /\ job[c].stage # "none" /\ UNCHANGED <<now, state>>
        /\ JobExpired(c) \/ ~JobIsCurrent(c, "ok")
    BY <1>5, DoneStep
  <2>2. HasCode(state[u], c) /\ u = job[c].user /\ state[u].sentAt = job[c].sentAt
    BY <1>3, <2>1
  <2>3. now >= job[c].sentAt + CODE_EXPIRES
    BY <1>2, <2>1, <2>2, ResetAssumption DEF JobExpired, JobIsCurrent, ExpiresAt, HasCode
  <2>4. QED
    BY <1>2, <2>1, <2>2, <2>3, ResetAssumption DEF IsInCodeResendCooldown
<1>6. QED
  BY <1>4, <1>5

LEMMA HandledAlways ==
  ASSUME "lost" \notin Outcomes
  PROVE  MailSpec => []HandledInv
<1>1. MailInit => HandledInv
  BY DEF MailInit, NoJob, HandledInv, HandledOf
<1>2. IInv /\ MailTypeOK /\ SpacingInv /\ HandledInv /\ [MailNext]_allVars => HandledInv'
  BY MailStep, StepsOnward, HandledStep DEF IInv
<1>3. QED
  BY <1>1, <1>2, SpacingAlways, MailInvariance, MailTypeCorrect, PTL DEF MailSpec

(* While no reply is lost and no handler dropped, the code that holds a    *)
(* user off was mailed, or is on its way: it still has to be queued, or    *)
(* taken back, or its job is under way.  The exceptions are a rollback     *)
(* that changed nothing, and a job dropped for a call that failed.         *)
THEOREM MailComes ==
  ASSUME "lost" \notin Outcomes, Abandons = {}
  PROVE  MailSpec => []CodeHasMail
<1>1. MailTypeOK /\ QueueInv /\ HandledInv => CodeHasMail
  <2> SUFFICES ASSUME MailTypeOK, QueueInv, HandledInv, NEW u \in Users, NEW c \in Codes,
                      HasCode(state[u], c), IsInCodeResendCooldown(state[u]),
                      c \notin stuck, c \notin dropped,
                      ~ \E r \in Requests : Shelving(r) /\ req[r].code = c
               PROVE  /\ job[c].user = u /\ job[c].sentAt = state[u].sentAt
                      /\ job[c].stage \in {"queued", "sending"} \/ c \in mailed
    BY DEF CodeHasMail, Shelving
  <2>1. /\ job[c].stage \in {"queued", "sending", "done"}
        /\ job[c].user = u /\ job[c].sentAt = state[u].sentAt
    BY DEF QueueInv, QueueOf, MailComing, MailTypeOK, Job
  <2>2. job[c].stage = "done" => c \in mailed
    BY DEF HandledInv, HandledOf
  <2>3. QED
    BY <2>1, <2>2
<1>2. QED
  BY <1>1, QueueAlways, HandledAlways, MailTypeCorrect, PTL

-----------------------------------------------------------------------------
(* The whole invariant of the queue: while no reply is lost and no handler *)
(* dropped, what it holds agrees with Redis and with the requests.         *)
THEOREM MailInvariant ==
  ASSUME "lost" \notin Outcomes, Abandons = {}
  PROVE  MailSpec => []MailInv
BY QueueAlways, HandledAlways, SpacingAlways, MailTypeCorrect, PTL DEF MailInv
=============================================================================

------------------------------ MODULE AuthForm ------------------------------
(***************************************************************************)
(* The sign-in, sign-up and verification forms of the web frontend         *)
(* (web/frontend/src/view/auth): one page whose mode follows the URL and   *)
(* the tabs, the state of the verification form, and a module-wide signal  *)
(* with the address to verify, which outlives the page.  A reply runs the  *)
(* handler that waits for it even if the page has gone.                    *)
(*                                                                         *)
(* An effect follows mode and address at once, so a step that changes one  *)
(* ends with Show; navigating is part of the step that asks for it.  Only  *)
(* the tabs make mode and URL differ, and only between sign_in and         *)
(* sign_up, so there is one variable for both.  What is typed is valid.    *)
(* The server is external: any reply may come.  Whoever is signed in       *)
(* leaves the page, and may come back later, signed out.                   *)
(*                                                                         *)
(* Operators named Faulty... are not part of the model: each is the        *)
(* operator after it with a mistake, which some property must notice.      *)
(***************************************************************************)
EXTENDS Naturals

CONSTANTS
  Emails, NoEmail,
  Calls,           \* bound: requests under way at a time
  RESEND_COOLDOWN  \* seconds the server asks for

ASSUME AuthFormAssumption == NoEmail \notin Emails /\ RESEND_COOLDOWN \in Nat \ {0}

VARIABLES
  mode,        \* the mode of the page, "away" on any other page
  form,        \* verifyEmailState
  saved,       \* verificationEmail
  calls,       \* requests under way
  told,        \* history: seconds the server asked this page to wait, per address
  crossed,     \* history: a reply came to a page that had moved on, see below
  lost         \* history: a resend of this page came to nothing

vars == <<mode, form, saved, calls, told, crossed, lost>>

(* verifyEmailState.  "missing_session" never stays: it redirects.         *)
Form      == [type: {"inactive", "ready", "resending", "cooldown"},
              email: Emails \union {NoEmail}, seconds: 0 .. RESEND_COOLDOWN]
Inactive  == [type |-> "inactive", email |-> NoEmail, seconds |-> 0]
Ready(e)  == [type |-> "ready", email |-> e, seconds |-> 0]
Cooling(e) == [type |-> "cooldown", email |-> e, seconds |-> RESEND_COOLDOWN]

(* A request, the address in it, and whether its page is still there.      *)
NoCall == [kind |-> "none", email |-> NoEmail, page |-> FALSE]
Call   == [kind: {"none", "sign_in", "sign_up", "verify", "resend"},
           email: Emails \union {NoEmail}, page: BOOLEAN]

NotTold == [e \in Emails |-> 0]

AuthTypeOK ==
  /\ mode \in {"sign_in", "sign_up", "verify_email", "away"}
  /\ form \in Form
  /\ saved \in Emails \union {NoEmail}
  /\ calls \in [Calls -> Call]
  /\ told \in [Emails -> 0 .. RESEND_COOLDOWN]
  /\ crossed \in BOOLEAN /\ lost \in BOOLEAN

Init ==
  /\ mode = "away" /\ form = Inactive /\ saved = NoEmail
  /\ calls = [c \in Calls |-> NoCall]
  /\ told = NotTold /\ crossed = FALSE /\ lost = FALSE

-----------------------------------------------------------------------------
(* The event "sync".  A form that is not in use is forgotten, one that is  *)
(* goes on, its cooldown too, while another mode is shown.                 *)
FaultySync(f, m, s) ==
  IF m # "verify_email" \/ f.type # "inactive" THEN f ELSE Ready(s)

ForgetfulSync(f, m, s) ==
  IF m # "verify_email" THEN Inactive
  ELSE IF f.type # "inactive" /\ f.email = s THEN f
  ELSE Ready(s)

Sync(f, m, s) ==
  IF m # "verify_email" \/ (f.type # "inactive" /\ f.email = s) THEN f ELSE Ready(s)

(* Mode, form and address become m, f and s; t is what the page was told.  *)
(* A page is new if there was none, and has nothing to verify without an   *)
(* address; a page that goes takes its form with it, but not its requests. *)
Show(m, f, s, cs, t) ==
  LET gone == mode = "away" \/ m = "away"
      old  == IF mode = "away" THEN Inactive ELSE f
  IN /\ saved' = s
     /\ mode' = IF m = "verify_email" /\ s = NoEmail THEN "sign_up" ELSE m
     /\ form' = IF m = "away" THEN Inactive ELSE Sync(old, mode', s)
     /\ calls' = [c \in Calls |-> [cs[c] EXCEPT !.page = @ /\ m # "away"]]
     /\ told' = IF gone THEN NotTold ELSE t
     /\ lost' = (lost /\ ~gone)

Settled(c)   == [calls EXCEPT ![c] = NoCall]
Pending(k)   == \E c \in Calls : calls[c].kind = k /\ calls[c].page
Send(c, k, e) ==
  /\ calls[c] = NoCall
  /\ calls' = [calls EXCEPT ![c] = [kind |-> k, email |-> e, page |-> TRUE]]

-----------------------------------------------------------------------------
(* A link, a tab, back and forward, another page; and a reload, which      *)
(* forgets the address.                                                    *)
Goto(m) ==
  /\ m # mode
  /\ Show(m, form, saved, calls, told)
  /\ crossed' = (crossed /\ mode # "away" /\ m # "away")

Reload ==
  /\ mode # "away"
  /\ mode' \in {"sign_in", "sign_up"} /\ (mode = "verify_email" => mode' = "sign_up")
  /\ form' = Inactive /\ saved' = NoEmail
  /\ calls' = [c \in Calls |-> NoCall]
  /\ told' = NotTold /\ crossed' = FALSE /\ lost' = FALSE

-----------------------------------------------------------------------------
(* A form does not submit again while it is submitting.                    *)

SubmitSignIn(c) ==
  /\ mode = "sign_in" /\ ~Pending("sign_in")
  /\ Send(c, "sign_in", NoEmail)
  /\ UNCHANGED <<mode, form, saved, told, crossed, lost>>

SubmitSignUp(c, e) ==
  /\ mode = "sign_up" /\ ~Pending("sign_up")
  /\ Send(c, "sign_up", e)
  /\ UNCHANGED <<mode, form, saved, told, crossed, lost>>

SubmitCode(c) ==
  /\ mode = "verify_email" /\ ~Pending("verify")
  /\ Send(c, "verify", form.email)
  /\ UNCHANGED <<mode, form, saved, told, crossed, lost>>

(* handleResendVerificationEmail, behind the button.                       *)
CanResend == mode = "verify_email" /\ ~Pending("verify") /\ form.type = "ready"

Resend(c) ==
  /\ CanResend
  /\ Send(c, "resend", form.email)
  /\ form' = [form EXCEPT !.type = "resending"]
  /\ UNCHANGED <<mode, saved, told, crossed, lost>>

(* The event "tick", in whatever mode.                                     *)
FaultyTick ==
  /\ form' = IF form.type # "cooldown" THEN form ELSE [form EXCEPT !.seconds = @ - 1]
  /\ told' = [e \in Emails |-> IF told[e] = 0 THEN 0 ELSE told[e] - 1]
  /\ UNCHANGED <<mode, saved, calls, crossed, lost>>

Tick ==
  /\ form' = IF form.type # "cooldown" THEN form
             ELSE IF form.seconds <= 1 THEN Ready(form.email)
             ELSE [form EXCEPT !.seconds = @ - 1]
  /\ told' = [e \in Emails |-> IF told[e] = 0 THEN 0 ELSE told[e] - 1]
  /\ UNCHANGED <<mode, saved, calls, crossed, lost>>

-----------------------------------------------------------------------------
(* Replies.  An error is shown and changes nothing else, except for the    *)
(* resend; no reply at all ends the request without its handler.           *)

Ignored(c) ==
  /\ calls[c].kind \in {"sign_in", "sign_up", "verify"}
  /\ calls' = Settled(c)
  /\ UNCHANGED <<mode, form, saved, told, crossed, lost>>

(* Signed in, by password or by code: the page is left.                    *)
SignedIn(c) ==
  /\ calls[c].kind \in {"sign_in", "verify"}
  /\ Show("away", form, NoEmail, Settled(c), told)
  /\ crossed' = FALSE

(* "seed_after_signup", if the form is still there.  The other form that   *)
(* may be there has been told nothing.                                     *)
SignedUp(c) ==
  LET e == calls[c].email
  IN /\ calls[c].kind = "sign_up"
     /\ IF calls[c].page
        THEN /\ Show("verify_email", Cooling(e), e, Settled(c),
                     [told EXCEPT ![e] = RESEND_COOLDOWN])
             /\ UNCHANGED crossed
        ELSE /\ Show("verify_email", form, e, Settled(c), told)
             /\ crossed' = (mode # "away")

(* "resend_success", "resend_failed", or no reply.                         *)
FaultyResendReply(c) ==
  LET e == calls[c].email
      mine == calls[c].page /\ form.type = "resending"
  IN /\ calls[c].kind = "resend"
     /\ calls' = Settled(c)
     /\ \/ /\ form' = IF mine THEN Cooling(form.email) ELSE form
           /\ told' = IF calls[c].page THEN [told EXCEPT ![e] = RESEND_COOLDOWN] ELSE told
           /\ crossed' = (crossed \/ (calls[c].page /\ ~(mine /\ form.email = e)))
           /\ UNCHANGED lost
        \/ UNCHANGED <<form, told, crossed, lost>>
        \/ lost' = (lost \/ calls[c].page) /\ UNCHANGED <<form, told, crossed>>
     /\ UNCHANGED <<mode, saved>>

ResendReply(c) ==
  LET e == calls[c].email
      mine == calls[c].page /\ form.type = "resending"
  IN /\ calls[c].kind = "resend"
     /\ calls' = Settled(c)
     /\ \/ /\ form' = IF mine THEN Cooling(form.email) ELSE form
           /\ told' = IF calls[c].page THEN [told EXCEPT ![e] = RESEND_COOLDOWN] ELSE told
           /\ crossed' = (crossed \/ (calls[c].page /\ ~(mine /\ form.email = e)))
           /\ UNCHANGED lost
        \/ form' = (IF mine THEN Ready(form.email) ELSE form) /\ UNCHANGED <<told, crossed, lost>>
        \/ lost' = (lost \/ calls[c].page) /\ UNCHANGED <<form, told, crossed>>
     /\ UNCHANGED <<mode, saved>>

-----------------------------------------------------------------------------
Next ==
  \/ \E m \in {"sign_in", "sign_up", "verify_email", "away"} : Goto(m)
  \/ Reload \/ Tick
  \/ \E c \in Calls :
       \/ SubmitSignIn(c) \/ SubmitCode(c) \/ Resend(c)
       \/ \E e \in Emails : SubmitSignUp(c, e)
       \/ Ignored(c) \/ SignedIn(c) \/ SignedUp(c) \/ ResendReply(c)

Spec == Init /\ [][Next]_vars

-----------------------------------------------------------------------------
(* Properties.                                                             *)

(* The address the verification form shows, verificationEmail, is the one  *)
(* it verifies and asks a code for, that of verifyEmailState: whatever     *)
(* reply, of this page or of one that is gone, changed one of them.        *)
EmailAgrees ==
  mode = "verify_email" => saved # NoEmail /\ form.type # "inactive" /\ form.email = saved

(* The form does not wait for a resend that has ended, unless one ended    *)
(* without a reply, which its handler does not catch.                      *)
ResendSettles == form.type = "resending" => Pending("resend") \/ lost

(* The page asks for no code within the cooldown it was told for that      *)
(* address, through any change of mode.  Not so once a reply found it at   *)
(* something else: a resend's whose cooldown was dropped or counted for    *)
(* another address, or a sign-up's of a page that is gone.                 *)
CooldownKept == crossed \/ (CanResend => told[form.email] = 0)

-----------------------------------------------------------------------------
(* The inductive invariant.                                                *)

(* A form in use is on the page, for the address to verify.                *)
FormInv ==
  /\ form.type # "inactive" => mode # "away" /\ form.email = saved /\ saved # NoEmail
  /\ mode = "verify_email" => form.type # "inactive"

(* A cooldown the page was told of, for the address of its form, is the    *)
(* one the form counts.                                                    *)
ToldInv ==
  crossed \/ \A e \in Emails : told[e] > 0 =>
    /\ form.type # "inactive"
    /\ form.email = e => form.type = "cooldown" /\ told[e] <= form.seconds

(* A sign-up under way has an address.                                     *)
CallInv == \A c \in Calls : calls[c].kind = "sign_up" => calls[c].email # NoEmail

AuthInv == AuthTypeOK /\ FormInv /\ CallInv /\ ResendSettles /\ ToldInv
=============================================================================

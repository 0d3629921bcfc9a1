------------------------- MODULE ResetPasswordPage -------------------------
(***************************************************************************)
(* The forgot-password page of the web frontend                            *)
(* (web/frontend/src/view/auth/reset_password): three views that a Switch  *)
(* chooses by the step in the URL and two module-wide signals, and the     *)
(* requests they send.  A reply runs the handler that waits for it even if *)
(* the view or the whole page it belongs to has gone.                      *)
(*                                                                         *)
(* A Switch follows its signals at once, so a step that sets one ends with *)
(* Show, which unmounts and mounts views and runs what they do on mount.   *)
(* A navigation is asked for in one step and arrives in another: until     *)
(* then the old step in the props meets the new signals, and the handler   *)
(* that asked for it is still at work.  The router is external.            *)
(*                                                                         *)
(* Addresses, codes and passwords typed are left out, and so are messages: *)
(* an address that is kept only fills in a field.  The server is external: *)
(* a reply may be anything.  Everybody here is signed out.                 *)
(*                                                                         *)
(* Operators named Faulty... are not part of the model: each is the        *)
(* operator after it with a mistake, which some property must notice.      *)
(***************************************************************************)
EXTENDS Naturals

CONSTANTS
  Calls,           \* bound: requests under way at a time
  RESEND_COOLDOWN, \* seconds the server asks for
  KEY_EXPIRES,     \* how long a reset key is good for
  MaxTime,         \* bound: no tick beyond it
  MaxStrays        \* bound: intervals that outlive their view

ASSUME PageAssumption ==
  RESEND_COOLDOWN \in Nat \ {0} /\ KEY_EXPIRES \in Nat \ {0} /\ MaxTime \in Nat
    /\ MaxStrays \in Nat

VARIABLES
  now,
  step,        \* the step in the props of the page, "away" on any other page
  going,       \* the step of a navigation under way, or Arrived
  byUser,      \* was the last navigation the user's and not a handler's
  view,        \* the view that is mounted
  session,     \* resetPasswordSession: its expiry, NoSession if there is none
  success,     \* resetPasswordSuccess
  ui,          \* the uiStore of the page
  submitting,  \* isSubmitting of the form in the view
  interval,    \* is the cooldownTimer of the view ticking
  strays,      \* how many cooldown intervals of views that are gone still tick
  deadline,    \* when the expiryTimer of the view fires, NoSession if not armed
  calls        \* requests under way

vars == <<now, step, going, byUser, view, session, success, ui, submitting, interval,
          strays, deadline, calls>>
router  == <<going, byUser>>
signals == <<step, view, session, success, deadline>>

NoSession == 0

Arrived == "arrived"

Places == {"none", "reset", "success", "away"}
Views == {"verify", "reset", "success", "away"}

Ui      == [cooldown: 0 .. RESEND_COOLDOWN, sending: BOOLEAN, verifying: BOOLEAN,
            sent: BOOLEAN]
FreshUi == [cooldown |-> 0, sending |-> FALSE, verifying |-> FALSE, sent |-> FALSE]

(* A request, or a handler that waits for its navigation after the reply;  *)
(* are the page and the view it was sent from still there?                 *)
Awaiting == {"verified", "changed"}

NoCall == [kind |-> "none", page |-> FALSE, view |-> FALSE]
Call   == [kind: {"none", "send", "verify", "reset"} \union Awaiting,
           page: BOOLEAN, view: BOOLEAN]

PageTypeOK ==
  /\ now \in Nat /\ session \in Nat /\ deadline \in Nat /\ strays \in Nat
  /\ step \in Places /\ going \in Places \union {Arrived} /\ byUser \in BOOLEAN
  /\ view \in Views
  /\ success \in BOOLEAN /\ submitting \in BOOLEAN /\ interval \in BOOLEAN
  /\ ui \in Ui
  /\ calls \in [Calls -> Call]

Init ==
  /\ now = 1 /\ session = NoSession /\ deadline = NoSession /\ strays = 0
  /\ step = "away" /\ view = "away" /\ going = Arrived /\ byUser = TRUE
  /\ success = FALSE /\ submitting = FALSE /\ interval = FALSE
  /\ ui = FreshUi
  /\ calls = [c \in Calls |-> NoCall]

-----------------------------------------------------------------------------
(* The Switch of ResetPasswordPage.  The session is looked at only in step *)
(* "reset"; one that has lapsed counts for none.                           *)
ViewOf(st, s, ok) ==
  IF st = "away" THEN "away"
  ELSE IF st = "success" /\ ok THEN "success"
  ELSE IF st = "reset" /\ s > now THEN "reset"
  ELSE "verify"

(* Is the session cleared by a view that mounts, or by the look at it.     *)
Forgets(old, v, st, s) ==
  \/ v # old /\ v \in {"verify", "success"}
  \/ st = "reset" /\ s <= now

(* The signals become st, s and ok: what is mounted now, and what the view *)
(* does on mount.  The verify and the success view clear the session when  *)
(* they appear, the verify view the success too (Greeted); the reset view  *)
(* arms its timer when it appears, and keeps it when only the session      *)
(* changes.  A view that goes takes its form and its interval with it, the *)
(* page its uiStore; requests go on.                                       *)
FaultyShow(old, st, s, ok) ==
  LET v == ViewOf(st, s, ok)
  IN /\ step' = st /\ view' = v
     /\ session' = IF Forgets(old, v, st, s) THEN NoSession ELSE s
     /\ deadline' = IF v = "reset" /\ old # "reset" THEN s ELSE NoSession

Show(old, st, s, ok) ==
  LET v == ViewOf(st, s, ok)
  IN /\ step' = st /\ view' = v
     /\ session' = IF Forgets(old, v, st, s) THEN NoSession ELSE s
     /\ deadline' = IF v # "reset" THEN NoSession
                    ELSE IF old = "reset" THEN deadline ELSE s

Greeted(old, ok) == success' = (ok /\ (view' = "verify" => old = "verify"))

FaultyMounted(old, u, busy, cs) ==
  /\ submitting' = busy
  /\ interval' = (interval /\ view' = old)
  /\ ui' = IF view' = "away" \/ old = "away" THEN FreshUi ELSE u
  /\ strays' = IF view' = "away" \/ old = "away" THEN 0 ELSE strays
  /\ calls' = [c \in Calls |-> [cs[c] EXCEPT !.page = @ /\ view' # "away",
                                             !.view = @ /\ view' = old]]

Mounted(old, u, busy, cs) ==
  /\ submitting' = (busy /\ view' = old)
  /\ interval' = (interval /\ view' = old)
  /\ ui' = IF view' = "away" \/ old = "away" THEN FreshUi ELSE u
  /\ strays' = IF view' = "away" \/ old = "away" THEN 0 ELSE strays
  /\ calls' = [c \in Calls |-> [cs[c] EXCEPT !.page = @ /\ view' # "away",
                                             !.view = @ /\ view' = old]]

Settled(c) == [calls EXCEPT ![c] = NoCall]
Sent(c, kind) ==
  /\ calls[c] = NoCall
  /\ calls' = [calls EXCEPT ![c] = [kind |-> kind, page |-> TRUE, view |-> TRUE]]

-----------------------------------------------------------------------------
(* Moving around: a link, back and forward, another page, a reload.  The   *)
(* URL changes at once, the page when the router has loaded what it needs. *)
Url == IF going = Arrived THEN step ELSE going

Navigate(st) ==
  /\ st # Url
  /\ going' = st /\ byUser' = TRUE
  /\ UNCHANGED <<now, signals, ui, submitting, interval, strays, calls>>

(* The last navigation ends, and with it the handlers that wait for one: a *)
(* navigation that another has overtaken ends with it.  To the same step,  *)
(* no signal changes.                                                      *)
Arrive ==
  LET ended == {c \in Calls : calls[c].kind \in Awaiting}
      u     == IF \E c \in ended : calls[c].kind = "verified" /\ calls[c].page
               THEN [ui EXCEPT !.verifying = FALSE] ELSE ui
      busy  == submitting /\ \A c \in ended : ~calls[c].view
      cs    == [c \in Calls |-> IF c \in ended THEN NoCall ELSE calls[c]]
  IN /\ going # Arrived /\ going' = Arrived
     /\ \/ /\ going # step
           /\ Show(view, going, session, success) /\ Greeted(view, success)
           /\ Mounted(view, u, busy, cs)
        \/ /\ going = step
           /\ ui' = u /\ submitting' = busy /\ calls' = cs
           /\ UNCHANGED <<signals, interval, strays>>
     /\ UNCHANGED <<now, byUser>>

(* The session survives a reload, in sessionStorage; nothing else does.    *)
Reload ==
  /\ Show("away", Url, IF session > now THEN session ELSE NoSession, FALSE)
  /\ Greeted("away", FALSE)
  /\ Mounted("away", FreshUi, FALSE, [c \in Calls |-> NoCall])
  /\ going' = Arrived /\ byUser' = TRUE
  /\ UNCHANGED now

-----------------------------------------------------------------------------
(* ForgotPasswordVerifyView.                                               *)

IsVerifyStep  == ui.sending \/ ui.sent
IsCoolingDown == ui.cooldown > 0

(* Continue or Enter before a code was sent, Resend afterwards.            *)
FaultyCanSend ==
  /\ view = "verify"
  /\ ~ui.sending /\ ~IsCoolingDown
  /\ ~IsVerifyStep => ~ui.verifying

CanSend ==
  /\ view = "verify"
  /\ ~submitting /\ ~ui.sending /\ ~IsCoolingDown
  /\ ~IsVerifyStep => ~ui.verifying

SendCode(c) ==
  /\ CanSend
  /\ Sent(c, "send")
  /\ ui' = [ui EXCEPT !.sending = TRUE]
  /\ UNCHANGED <<now, signals, router, submitting, interval, strays>>

(* The reply starts the cooldown.  If the view has gone but not the page,  *)
(* the interval is one that nobody clears: it ticks until nothing is left. *)
FaultySendReply(c) ==
  /\ calls[c].kind = "send"
  /\ calls' = Settled(c)
  /\ \/ /\ calls[c].page
        /\ ui' = [ui EXCEPT !.cooldown = RESEND_COOLDOWN, !.sent = TRUE]
        /\ interval' = (interval \/ calls[c].view)
        /\ strays' = IF calls[c].view THEN strays ELSE strays + 1
        /\ strays' <= MaxStrays
     \/ UNCHANGED <<ui, interval, strays>>
  /\ UNCHANGED <<now, signals, router, submitting>>

SendReply(c) ==
  /\ calls[c].kind = "send"
  /\ calls' = Settled(c)
  /\ \/ /\ calls[c].page
        /\ ui' = [ui EXCEPT !.cooldown = RESEND_COOLDOWN, !.sending = FALSE, !.sent = TRUE]
        /\ interval' = (interval \/ calls[c].view)
        /\ strays' = IF calls[c].view THEN strays ELSE strays + 1
        /\ strays' <= MaxStrays
     \/ /\ ui' = IF calls[c].page THEN [ui EXCEPT !.sending = FALSE] ELSE ui
        /\ UNCHANGED <<interval, strays>>
  /\ UNCHANGED <<now, signals, router, submitting>>

Cooler == [ui EXCEPT !.cooldown = IF @ <= 1 THEN 0 ELSE @ - 1]

CooldownTick ==
  /\ ui' = Cooler
  /\ \/ interval /\ interval' = (ui'.cooldown > 0) /\ UNCHANGED strays
     \/ /\ strays > 0 /\ UNCHANGED interval
        /\ strays' = IF ui'.cooldown > 0 THEN strays ELSE strays - 1
  /\ UNCHANGED <<now, signals, router, submitting, calls>>

(* resetSendCodeFlow, the button "Change".                                 *)
CanChange == view = "verify" /\ IsVerifyStep /\ ~ui.sending

ChangeEmail ==
  /\ CanChange
  /\ ui' = FreshUi /\ interval' = FALSE
  /\ UNCHANGED <<now, signals, router, submitting, strays, calls>>

SubmitCode(c) ==
  /\ view = "verify" /\ IsVerifyStep
  /\ ~submitting /\ ~ui.sending /\ ~ui.verifying
  /\ Sent(c, "verify")
  /\ submitting' = TRUE /\ ui' = [ui EXCEPT !.verifying = TRUE]
  /\ UNCHANGED <<now, signals, router, interval, strays>>

(* The session is saved, the success cleared, and the page asked for the   *)
(* reset step: in that step already the view changes at once, from the     *)
(* success view to the verify view, which clears the session on mount.     *)
(* The key's expiry is the server's, and may have passed by now.           *)
FaultyVerifyReply(c) ==
  LET done == IF calls[c].page THEN [ui EXCEPT !.verifying = FALSE] ELSE ui
  IN /\ calls[c].kind = "verify"
     /\ \/ \E at \in now .. now + KEY_EXPIRES :
             /\ at <= MaxTime             \* bound
             /\ Show(view, step, IF at > now THEN at ELSE NoSession, success)
             /\ Greeted(view, success)
             /\ Mounted(view, ui, submitting, [calls EXCEPT ![c].kind = "verified"])
             /\ going' = "reset" /\ byUser' = FALSE
        \/ /\ calls' = Settled(c) /\ ui' = done
           /\ submitting' = (submitting /\ ~calls[c].view)
           /\ UNCHANGED <<signals, router, interval, strays>>
     /\ UNCHANGED now

VerifyReply(c) ==
  LET done == IF calls[c].page THEN [ui EXCEPT !.verifying = FALSE] ELSE ui
  IN /\ calls[c].kind = "verify"
     /\ \/ \E at \in now .. now + KEY_EXPIRES :
             /\ at <= MaxTime             \* bound
             /\ Show(view, step, IF at > now THEN at ELSE NoSession, FALSE)
             /\ Greeted(view, FALSE)
             /\ Mounted(view, ui, submitting, [calls EXCEPT ![c].kind = "verified"])
             /\ going' = "reset" /\ byUser' = FALSE
        \/ /\ calls' = Settled(c) /\ ui' = done
           /\ submitting' = (submitting /\ ~calls[c].view)
           /\ UNCHANGED <<signals, router, interval, strays>>
     /\ UNCHANGED now

-----------------------------------------------------------------------------
(* ResetPasswordWithKeyView.                                               *)

SubmitPassword(c) ==
  /\ view = "reset" /\ ~submitting
  /\ Sent(c, "reset")
  /\ submitting' = TRUE
  /\ UNCHANGED <<now, signals, router, ui, interval, strays>>

(* Done: the session is cleared, which brings the verify view if this was  *)
(* the reset view, then the success is set, and only then does the page go *)
(* to it.  Or the key is no longer valid; or another error, to try again.  *)
ResetReply(c) ==
  LET busy == submitting /\ ~calls[c].view
  IN /\ calls[c].kind = "reset"
     /\ \/ /\ Show(view, step, NoSession, TRUE)
           /\ success' = TRUE
           /\ Mounted(view, ui, submitting, [calls EXCEPT ![c].kind = "changed"])
           /\ going' = "success" /\ byUser' = FALSE
        \/ /\ Show(view, step, NoSession, FALSE) /\ Greeted(view, FALSE)
           /\ Mounted(view, ui, busy, Settled(c))
           /\ UNCHANGED router
        \/ /\ calls' = Settled(c) /\ submitting' = busy
           /\ UNCHANGED <<signals, router, ui, interval, strays>>
     /\ UNCHANGED now

(* redirectToSignIn, when the expiry timer fires.                          *)
Expire ==
  /\ view = "reset" /\ deadline # NoSession /\ deadline <= now
  /\ Show(view, step, NoSession, FALSE) /\ Greeted(view, FALSE)
  /\ Mounted(view, ui, submitting, calls)
  /\ going' = "away" /\ byUser' = FALSE
  /\ UNCHANGED now

Tick ==
  /\ now < MaxTime
  /\ now' = now + 1
  /\ UNCHANGED <<signals, router, ui, submitting, interval, strays, calls>>

-----------------------------------------------------------------------------
Next ==
  \/ \E st \in Places : Navigate(st)
  \/ Arrive \/ Reload \/ CooldownTick \/ ChangeEmail \/ Expire \/ Tick
  \/ \E c \in Calls : \/ SendCode(c) \/ SendReply(c) \/ SubmitCode(c) \/ VerifyReply(c)
                      \/ SubmitPassword(c) \/ ResetReply(c)

Spec == Init /\ [][Next]_vars

(* Time passes and the browser fires timers; users and server may stop.    *)
FairSpec == Spec /\ WF_vars(Tick) /\ WF_vars(Expire)

-----------------------------------------------------------------------------
(* Properties.                                                             *)

(* The view fits the signals, whatever reply of whichever view or page set *)
(* them, while the navigation it asked for is under way and afterwards: a  *)
(* success is never remembered next to a session to reset with; whoever    *)
(* may set a password has a session and a timer that ends it; nobody is    *)
(* told that the session is over, or that there is no success, when there  *)
(* is; and a verify view with either is about to be left, unless the user  *)
(* has gone elsewhere meanwhile.                                           *)
ViewHonest ==
  /\ success => session = NoSession
  /\ view = "success" => success
  /\ view = "reset" => session # NoSession /\ deadline # NoSession
  /\ view = "verify" /\ session # NoSession =>
       step # "reset" /\ (going = "reset" \/ byUser)
  /\ view = "verify" /\ success =>
       step # "success" /\ (going = "success" \/ byUser)

(* A mounted view never has two requests under way.  "Change" takes back   *)
(* isVerifyingCode while the verification goes on, so the buttons have to  *)
(* look at more than the uiStore.                                          *)
NoOverlap == \A c, d \in Calls : calls[c].view /\ calls[d].view => c = d

(* Once the replies are in, whoever is asked for a code can ask for a new  *)
(* one or change the address, however the flags of the uiStore, which      *)
(* outlives the views, were left.                                          *)
NotTrapped ==
  view = "verify" /\ (\A c \in Calls : ~calls[c].page) => CanSend \/ CanChange

(* The view to set a password does not stay: the timer ends it, although   *)
(* the session may be replaced under it.                                   *)
ResetViewEnds == view = "reset" ~> view # "reset"

-----------------------------------------------------------------------------
(* The inductive invariant.                                                *)

(* What a request under way means for the view v and the flags u and busy, *)
(* and they for the requests cs.                                           *)
FlagsFit(v, u, busy, cs) ==
  LET Sending(c) == cs[c].page /\ cs[c].kind = "send"
  IN /\ \A c \in Calls :
          /\ cs[c].kind = "none" => ~cs[c].page
          /\ cs[c].page => v # "away"
          /\ cs[c].view => cs[c].page
          /\ Sending(c) => u.sending
          /\ cs[c].view /\ cs[c].kind \in {"send", "verify", "verified"} => v = "verify"
          /\ cs[c].view /\ cs[c].kind = "reset" => v = "reset"
          /\ cs[c].view /\ cs[c].kind # "send" => busy
     /\ \A c, d \in Calls : Sending(c) /\ Sending(d) => c = d
     /\ \A c, d \in Calls : cs[c].view /\ cs[d].view => c = d
     /\ busy => \E c \in Calls : cs[c].view /\ cs[c].kind # "send"
     /\ u.sending => \E c \in Calls : Sending(c)
     /\ u.verifying => \E c \in Calls : cs[c].page /\ cs[c].kind \in {"verify", "verified"}
     /\ u.cooldown > 0 => u.sent

PageInv == PageTypeOK /\ ViewHonest /\ FlagsFit(view, ui, submitting, calls)
=============================================================================

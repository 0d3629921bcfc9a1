---------------------- MODULE ResetPasswordPageProofs ----------------------
(* Proofs about ResetPasswordPage, for every value of its constants.       *)
EXTENDS ResetPasswordPage, TLAPS

(* The Switch leaves an honest view, if it never gets a success together   *)
(* with a session, and if what a verify view that stays is to keep belongs *)
(* to a navigation.                                                        *)
LEMMA Showing ==
  ASSUME PageTypeOK, ViewHonest,
         NEW old \in {view, "away"}, NEW st \in Places,
         NEW s \in Nat, NEW ok \in BOOLEAN, ok => s = NoSession,
         Show(old, st, s, ok), now' = now,
         old = "verify" /\ s # NoSession => st = "reset" \/ going' = "reset" \/ byUser',
         \/ /\ Greeted(old, ok)
            /\ old = "verify" /\ ok => st = "success" \/ going' = "success" \/ byUser'
         \/ success' = TRUE /\ ok /\ going' = "success"
  PROVE  /\ step' \in Places /\ view' \in Views
         /\ session' \in Nat /\ success' \in BOOLEAN /\ deadline' \in Nat
         /\ ViewHonest'
<1> DEFINE v == ViewOf(st, s, ok)
<1>1. v \in Views
  BY DEF ViewOf, Views
<1>2. /\ v = "reset" => st = "reset" /\ s > now
      /\ v = "success" => st = "success" /\ ok
      /\ v = "verify" => (st = "reset" => s <= now) /\ (st = "success" => ~ok)
  BY DEF ViewOf, PageTypeOK
<1>3. old = "reset" => deadline # NoSession
  BY DEF ViewHonest
<1>4. NoSession \in Nat /\ (s > now => s # NoSession)
  BY DEF NoSession, PageTypeOK
<1>5. /\ step' = st /\ view' = v
      /\ session' = (IF Forgets(old, v, st, s) THEN NoSession ELSE s)
      /\ deadline' = (IF v # "reset" THEN NoSession
                      ELSE IF old = "reset" THEN deadline ELSE s)
  BY DEF Show
<1> HIDE DEF v
<1>6. /\ success' \in BOOLEAN /\ (success' => ok)
      /\ view' = "verify" /\ success' =>
           st # "success" /\ (going' = "success" \/ byUser')
      /\ view' = "success" => success'
  BY <1>2, <1>5 DEF Greeted
<1>7. /\ step' \in Places /\ view' \in Views /\ session' \in Nat /\ deadline' \in Nat
      /\ session' \in {s, NoSession}
  BY <1>1, <1>4, <1>5 DEF PageTypeOK
<1>8. view' = "reset" => session' # NoSession /\ deadline' # NoSession
  <2> SUFFICES ASSUME v = "reset" PROVE session' # NoSession /\ deadline' # NoSession
    BY <1>5
  <2>1. s > now /\ ~(s <= now)
    BY <1>2 DEF PageTypeOK
  <2> QED
    BY <1>3, <1>4, <1>5, <2>1 DEF Forgets
<1>9. view' = "verify" /\ session' # NoSession =>
        st # "reset" /\ (going' = "reset" \/ byUser')
  BY <1>2, <1>5 DEF Forgets
<1>10. success' => session' = NoSession
  BY <1>6, <1>7
<1>11. step' = st
  BY <1>5
<1>12. ViewHonest'
  BY <1>6, <1>8, <1>9, <1>10, <1>11, Zenon DEF ViewHonest
<1> QED
  BY <1>6, <1>7, <1>12

(* What goes with the view or the page leaves flags that fit.              *)
LEMMA Mounting ==
  ASSUME NEW old \in Views, NEW u \in Ui, NEW busy \in BOOLEAN, NEW cs \in [Calls -> Call],
         FlagsFit(old, u, busy, cs), view' \in Views,
         interval \in BOOLEAN, strays \in Nat,
         Mounted(old, u, busy, cs)
  PROVE  /\ submitting' \in BOOLEAN /\ interval' \in BOOLEAN /\ strays' \in Nat
         /\ ui' \in Ui /\ calls' \in [Calls -> Call]
         /\ FlagsFit(view, ui, submitting, calls)'
<1>1. FreshUi \in Ui
  BY PageAssumption DEF FreshUi, Ui
<1>2. \A c \in Calls : /\ calls'[c] \in Call /\ calls'[c].kind = cs[c].kind
                       /\ calls'[c].page = (cs[c].page /\ view' # "away")
                       /\ calls'[c].view = (cs[c].view /\ view' = old)
  BY DEF Mounted, Call
<1>3. calls' \in [Calls -> Call]
  BY <1>2 DEF Mounted
<1>4. /\ submitting' \in BOOLEAN /\ interval' \in BOOLEAN /\ strays' \in Nat /\ ui' \in Ui
  BY <1>1 DEF Mounted
<1>5. CASE view' = "away" \/ old = "away"
  <2>1. ui' = FreshUi /\ \A c \in Calls : ~calls'[c].page /\ ~calls'[c].view
    BY <1>2, <1>5 DEF Mounted, FlagsFit
  <2>2. ~submitting'
    BY <1>5 DEF Mounted, FlagsFit
  <2> QED
    BY <1>3, <1>4, <2>1, <2>2 DEF FlagsFit, FreshUi
<1>6. CASE view' # "away" /\ old # "away"
  <2>1. ui' = u /\ \A c \in Calls : calls'[c].page = cs[c].page
    BY <1>2, <1>6 DEF Mounted, Call
  <2>2. submitting' = (busy /\ view' = old)
    BY DEF Mounted
  <2>3. CASE view' = old
    <3>1. /\ submitting' = busy
          /\ \A c \in Calls : calls'[c].view = cs[c].view
      BY <1>2, <2>2, <2>3 DEF Call
    <3> QED
      BY <1>2, <1>3, <1>4, <2>1, <2>3, <3>1 DEF FlagsFit
  <2>4. CASE view' # old
    <3>1. ~submitting' /\ \A c \in Calls : ~calls'[c].view
      BY <1>2, <2>2, <2>4
    <3> QED
      BY <1>2, <1>3, <1>4, <1>6, <2>1, <3>1 DEF FlagsFit
  <2> QED
    BY <2>3, <2>4
<1> QED
  BY <1>3, <1>4, <1>5, <1>6

-----------------------------------------------------------------------------
LEMMA CallTyped ==
  ASSUME PageTypeOK, NEW c \in Calls
  PROVE  /\ calls[c] \in Call /\ NoCall \in Call
         /\ NoCall.kind = "none" /\ ~NoCall.page /\ ~NoCall.view
         /\ Settled(c) \in [Calls -> Call]
         /\ Settled(c)[c] = NoCall /\ \A d \in Calls \ {c} : Settled(c)[d] = calls[d]
BY DEF PageTypeOK, Call, NoCall, Settled

(* The form of a view hears of the end of its request, and nobody else.    *)
LEMMA Settling ==
  ASSUME PageInv, NEW c \in Calls, calls[c].kind \in {"verify", "reset"}, NEW u \in Ui,
         \/ u = ui /\ (calls[c].kind = "reset" \/ ~calls[c].page)
         \/ u = [ui EXCEPT !.verifying = FALSE]
  PROVE  FlagsFit(view, u, submitting /\ ~calls[c].view, Settled(c))
<1> DEFINE busy == submitting /\ ~calls[c].view
           cs   == Settled(c)
<1>1. /\ cs[c].kind = "none" /\ ~cs[c].page /\ ~cs[c].view
      /\ \A d \in Calls \ {c} : cs[d] = calls[d]
  BY CallTyped DEF PageInv
<1>2. /\ u.sending = ui.sending /\ u.cooldown = ui.cooldown /\ u.sent = ui.sent
      /\ u.verifying => ui.verifying /\ (calls[c].kind = "reset" \/ ~calls[c].page)
  BY DEF Ui, PageInv, PageTypeOK
<1>3. FlagsFit(view, ui, submitting, calls)
  BY DEF PageInv
<1>4. busy => \E d \in Calls : cs[d].view /\ cs[d].kind # "send"
  BY <1>1, <1>3 DEF FlagsFit
<1>5. \A d \in Calls : cs[d].view /\ cs[d].kind # "send" => busy
  BY <1>1, <1>3 DEF FlagsFit
<1>6. /\ u.sending => \E d \in Calls : cs[d].page /\ cs[d].kind = "send"
      /\ u.verifying => \E d \in Calls : cs[d].page /\ cs[d].kind \in {"verify", "verified"}
  BY <1>1, <1>2, <1>3 DEF FlagsFit
<1> HIDE DEF busy, cs
<1>7. FlagsFit(view, u, busy, cs)
  BY <1>1, <1>2, <1>3, <1>4, <1>5, <1>6 DEF FlagsFit
<1> QED
  BY <1>7 DEF busy, cs

(* A handler that goes on to wait for its navigation is still the one      *)
(* request of its view.                                                    *)
LEMMA Waiting ==
  ASSUME PageInv, NEW c \in Calls, NEW kind \in Awaiting,
         calls[c].kind = (IF kind = "verified" THEN "verify" ELSE "reset")
  PROVE  /\ [calls EXCEPT ![c].kind = kind] \in [Calls -> Call]
         /\ FlagsFit(view, ui, submitting, [calls EXCEPT ![c].kind = kind])
<1> DEFINE cs == [calls EXCEPT ![c].kind = kind]
<1>1. FlagsFit(view, ui, submitting, calls) /\ calls \in [Calls -> Call]
  BY DEF PageInv, PageTypeOK
<1>2. /\ cs \in [Calls -> Call]
      /\ cs[c].kind = kind /\ cs[c].page = calls[c].page /\ cs[c].view = calls[c].view
      /\ \A d \in Calls \ {c} : cs[d] = calls[d]
  BY <1>1 DEF Call
<1>3. \A d \in Calls : cs[d].page = calls[d].page /\ cs[d].view = calls[d].view
  BY <1>2
<1>4. \A d \in Calls : cs[d].kind = "send" <=> calls[d].kind = "send"
  BY <1>2 DEF Awaiting
<1>5. ui.verifying => \E d \in Calls : cs[d].page /\ cs[d].kind \in {"verify", "verified"}
  <2> SUFFICES ASSUME ui.verifying
               PROVE  \E d \in Calls : cs[d].page /\ cs[d].kind \in {"verify", "verified"}
    OBVIOUS
  <2>1. PICK d \in Calls : calls[d].page /\ calls[d].kind \in {"verify", "verified"}
    BY <1>1 DEF FlagsFit
  <2>2. cs[d].page /\ cs[d].kind \in {"verify", "verified"}
    BY <1>2, <2>1 DEF Awaiting
  <2> QED
    BY <2>2
<1>6. \A d \in Calls :
        /\ cs[d].kind = "none" => ~cs[d].page
        /\ cs[d].view /\ cs[d].kind \in {"send", "verify", "verified"} => view = "verify"
        /\ cs[d].view /\ cs[d].kind = "reset" => view = "reset"
  BY <1>1, <1>2 DEF FlagsFit, Awaiting
<1> HIDE DEF cs
<1>7. FlagsFit(view, ui, submitting, cs)
  BY <1>1, <1>3, <1>4, <1>5, <1>6 DEF FlagsFit
<1> QED
  BY <1>2, <1>7 DEF cs

(* A request joins no other of the same view.                              *)
LEMMA Sending ==
  ASSUME PageInv, NEW c \in Calls, NEW kind \in {"send", "verify", "reset"}, NEW u \in Ui,
         NEW busy \in BOOLEAN, Sent(c, kind),
         ~submitting, view \in {"verify", "reset"}, kind = "reset" <=> view = "reset",
         kind # "reset" => ~ui.sending,
         u = CASE kind = "send"   -> [ui EXCEPT !.sending = TRUE]
               [] kind = "verify" -> [ui EXCEPT !.verifying = TRUE]
               [] kind = "reset"  -> ui,
         busy = (kind # "send")
  PROVE  calls' \in [Calls -> Call] /\ FlagsFit(view, u, busy, calls')
<1>1. FlagsFit(view, ui, submitting, calls) /\ PageTypeOK
  BY DEF PageInv
<1>2. /\ calls' \in [Calls -> Call] /\ calls[c] = NoCall
      /\ calls'[c].kind = kind /\ calls'[c].page /\ calls'[c].view
      /\ \A d \in Calls \ {c} : calls'[d] = calls[d]
  BY <1>1 DEF Sent, PageTypeOK, Call
<1>3. /\ u.cooldown = ui.cooldown /\ u.sent = ui.sent
      /\ u.sending <=> ui.sending \/ kind = "send"
      /\ u.verifying <=> ui.verifying \/ kind = "verify"
  BY <1>1 DEF PageTypeOK, Ui
<1>4. calls[c].kind = "none" /\ ~calls[c].page /\ ~calls[c].view
  BY <1>2 DEF NoCall
<1>5. \A d \in Calls : ~calls[d].view
  BY <1>1, CallTyped DEF FlagsFit, Call
<1>6. \A d, e \in Calls : calls'[d].view /\ calls'[e].view => d = e
  BY <1>2, <1>5
<1>7. \A d, e \in Calls : /\ calls'[d].page /\ calls'[d].kind = "send"
                          /\ calls'[e].page /\ calls'[e].kind = "send"
                          => d = e
  BY <1>1, <1>2 DEF FlagsFit
<1>8. /\ u.sending => \E d \in Calls : calls'[d].page /\ calls'[d].kind = "send"
      /\ u.verifying => \E d \in Calls : calls'[d].page /\ calls'[d].kind \in {"verify", "verified"}
  BY <1>1, <1>2, <1>3, <1>4 DEF FlagsFit
<1>9. \A d \in Calls :
        /\ calls'[d].kind = "none" => ~calls'[d].page
        /\ calls'[d].page => view # "away"
        /\ calls'[d].view => calls'[d].page
        /\ calls'[d].page /\ calls'[d].kind = "send" => u.sending
  BY <1>1, <1>2, <1>3 DEF FlagsFit
<1> QED
  BY <1>1, <1>2, <1>3, <1>5, <1>6, <1>7, <1>8, <1>9 DEF FlagsFit

-----------------------------------------------------------------------------
LEMMA PageInitial == Init => PageInv
<1> SUFFICES ASSUME Init PROVE PageInv
  OBVIOUS
<1>1. FreshUi \in Ui /\ NoCall \in Call
  BY PageAssumption DEF FreshUi, Ui, NoCall, Call
<1>2. PageTypeOK /\ ViewHonest
  BY <1>1 DEF Init, PageTypeOK, ViewHonest, Places, Views, NoSession
<1>3. FlagsFit(view, ui, submitting, calls)
  BY DEF Init, FlagsFit, FreshUi, NoCall
<1> QED
  BY <1>2, <1>3 DEF PageInv

(* A step that ends with Show and Mounted for the view that was there.     *)
LEMMA Switching ==
  ASSUME PageInv, NEW st \in Places, NEW s \in Nat, NEW ok \in BOOLEAN,
         ok => s = NoSession, Show(view, st, s, ok), now' = now,
         going' \in Places \union {Arrived}, byUser' \in BOOLEAN,
         view = "verify" /\ s # NoSession => st = "reset" \/ going' = "reset" \/ byUser',
         \/ /\ Greeted(view, ok)
            /\ view = "verify" /\ ok => st = "success" \/ going' = "success" \/ byUser'
         \/ success' = TRUE /\ ok /\ going' = "success",
         NEW u \in Ui, NEW busy \in BOOLEAN, NEW cs \in [Calls -> Call],
         FlagsFit(view, u, busy, cs), Mounted(view, u, busy, cs)
  PROVE  PageInv'
<1>1. PageTypeOK /\ ViewHonest
  BY DEF PageInv
<1>2. /\ step' \in Places /\ view' \in Views
      /\ session' \in Nat /\ success' \in BOOLEAN /\ deadline' \in Nat
      /\ ViewHonest'
  BY <1>1, Showing
<1>3. /\ submitting' \in BOOLEAN /\ interval' \in BOOLEAN /\ strays' \in Nat
      /\ ui' \in Ui /\ calls' \in [Calls -> Call]
      /\ FlagsFit(view, ui, submitting, calls)'
  BY <1>1, <1>2, Mounting DEF PageTypeOK
<1> QED
  BY <1>1, <1>2, <1>3 DEF PageInv, PageTypeOK

(* A step that leaves the signals and the router alone.                    *)
LEMMA Staying ==
  ASSUME PageInv, UNCHANGED <<signals, router>>, now' \in Nat,
         ui' \in Ui, submitting' \in BOOLEAN, interval' \in BOOLEAN, strays' \in Nat,
         calls' \in [Calls -> Call], FlagsFit(view, ui', submitting', calls')
  PROVE  PageInv'
BY DEF PageInv, PageTypeOK, ViewHonest, FlagsFit, signals, router

LEMMA NavigateKeeps ==
  ASSUME PageInv, NEW st \in Places, Navigate(st)
  PROVE  PageInv'
BY DEF Navigate, PageInv, PageTypeOK, ViewHonest, FlagsFit, signals

LEMMA ArriveKeeps ==
  ASSUME PageInv, Arrive
  PROVE  PageInv'
<1> DEFINE ended == {c \in Calls : calls[c].kind \in Awaiting}
           u     == IF \E c \in ended : calls[c].kind = "verified" /\ calls[c].page
                    THEN [ui EXCEPT !.verifying = FALSE] ELSE ui
           busy  == submitting /\ \A c \in ended : ~calls[c].view
           cs    == [c \in Calls |-> IF c \in ended THEN NoCall ELSE calls[c]]
<1>1. PageTypeOK /\ ViewHonest /\ FlagsFit(view, ui, submitting, calls)
  BY DEF PageInv
<1>2. \A c \in ended : cs[c].kind = "none" /\ ~cs[c].page /\ ~cs[c].view
  BY DEF NoCall
<1>3. \A c \in Calls \ ended : cs[c] = calls[c] /\ calls[c].kind \notin Awaiting
  OBVIOUS
<1>4. u \in Ui /\ busy \in BOOLEAN /\ cs \in [Calls -> Call]
  BY <1>1, CallTyped DEF PageTypeOK, Ui
<1>5. /\ u.sending = ui.sending /\ u.cooldown = ui.cooldown /\ u.sent = ui.sent
      /\ u.verifying => /\ ui.verifying
                        /\ \A c \in ended : calls[c].kind = "verified" => ~calls[c].page
  BY <1>1 DEF PageTypeOK, Ui
<1>6. busy => \E c \in Calls : cs[c].view /\ cs[c].kind # "send"
  <2> SUFFICES ASSUME busy PROVE \E c \in Calls : cs[c].view /\ cs[c].kind # "send"
    OBVIOUS
  <2>1. PICK c \in Calls : calls[c].view /\ calls[c].kind # "send"
    BY <1>1 DEF FlagsFit
  <2> QED
    BY <1>3, <2>1
<1>7. \A c \in Calls : cs[c].view /\ cs[c].kind # "send" => busy
  <2> SUFFICES ASSUME NEW c \in Calls, cs[c].view, cs[c].kind # "send" PROVE busy
    OBVIOUS
  <2>1. c \notin ended /\ calls[c].view /\ submitting
    BY <1>1, <1>2, <1>3 DEF FlagsFit
  <2> QED
    BY <1>1, <2>1 DEF FlagsFit
<1>8. u.sending => \E c \in Calls : cs[c].page /\ cs[c].kind = "send"
  <2> SUFFICES ASSUME u.sending PROVE \E c \in Calls : cs[c].page /\ cs[c].kind = "send"
    OBVIOUS
  <2>1. PICK c \in Calls : calls[c].page /\ calls[c].kind = "send"
    BY <1>1, <1>5 DEF FlagsFit
  <2>2. c \notin ended
    BY <2>1 DEF Awaiting
  <2> QED
    BY <1>3, <2>1, <2>2
<1>9. u.verifying => \E c \in Calls : cs[c].page /\ cs[c].kind \in {"verify", "verified"}
  <2> SUFFICES ASSUME u.verifying
               PROVE  \E c \in Calls : cs[c].page /\ cs[c].kind \in {"verify", "verified"}
    OBVIOUS
  <2>1. PICK c \in Calls : calls[c].page /\ calls[c].kind \in {"verify", "verified"}
    BY <1>1, <1>5 DEF FlagsFit
  <2>2. c \notin ended
    BY <1>5, <2>1 DEF Awaiting
  <2> QED
    BY <1>3, <2>1, <2>2
<1>10. \A c \in Calls :
         /\ cs[c].kind = "none" => ~cs[c].page
         /\ cs[c].page => view # "away"
         /\ cs[c].view => cs[c].page
         /\ cs[c].page /\ cs[c].kind = "send" => u.sending
         /\ cs[c].view /\ cs[c].kind \in {"send", "verify", "verified"} => view = "verify"
         /\ cs[c].view /\ cs[c].kind = "reset" => view = "reset"
  BY <1>1, <1>2, <1>3, <1>5 DEF FlagsFit
<1>11. /\ \A c, d \in Calls : /\ cs[c].page /\ cs[c].kind = "send"
                              /\ cs[d].page /\ cs[d].kind = "send"
                              => c = d
       /\ \A c, d \in Calls : cs[c].view /\ cs[d].view => c = d
  <2>1. \A c \in Calls :
          /\ cs[c].page => calls[c].page /\ cs[c].kind = calls[c].kind
          /\ cs[c].view => calls[c].view
    BY <1>2, <1>3
  <2> HIDE DEF cs
  <2> QED
    BY <1>1, <2>1 DEF FlagsFit
<1>12. /\ going \in Places /\ going' = Arrived /\ now' = now /\ byUser' = byUser
       /\ \/ /\ Show(view, going, session, success) /\ Greeted(view, success)
             /\ Mounted(view, u, busy, cs)
          \/ /\ ui' = u /\ submitting' = busy /\ calls' = cs /\ going = step
             /\ UNCHANGED <<signals, interval, strays>>
  BY <1>1 DEF Arrive, PageTypeOK
<1> HIDE DEF ended, u, busy, cs
<1>13. FlagsFit(view, u, busy, cs)
  BY <1>1, <1>5, <1>6, <1>7, <1>8, <1>9, <1>10, <1>11 DEF FlagsFit
<1>14. CASE Show(view, going, session, success) /\ Greeted(view, success)
            /\ Mounted(view, u, busy, cs)
  BY <1>1, <1>4, <1>12, <1>13, <1>14, Switching DEF PageTypeOK, ViewHonest
<1>15. CASE /\ ui' = u /\ submitting' = busy /\ calls' = cs /\ going = step
            /\ UNCHANGED <<signals, interval, strays>>
  <2>1. ViewHonest'
    BY <1>1, <1>12, <1>15 DEF ViewHonest, signals, NoSession
  <2>2. FlagsFit(view, ui, submitting, calls)'
    BY <1>13, <1>15 DEF FlagsFit, signals
  <2> QED
    BY <1>1, <1>4, <1>12, <1>15, <2>1, <2>2 DEF PageInv, PageTypeOK, signals
<1> QED
  BY <1>12, <1>14, <1>15

LEMMA ReloadKeeps ==
  ASSUME PageInv, Reload
  PROVE  PageInv'
<1> DEFINE s  == IF session > now THEN session ELSE NoSession
           cs == [c \in Calls |-> NoCall]
<1>1. PageTypeOK /\ ViewHonest
  BY DEF PageInv
<1>2. s \in Nat /\ cs \in [Calls -> Call] /\ FreshUi \in Ui
  BY <1>1, CallTyped, PageAssumption DEF PageTypeOK, NoSession, Call, NoCall, FreshUi, Ui
<1>3. FlagsFit("away", FreshUi, FALSE, cs)
  BY DEF FlagsFit, FreshUi, NoCall
<1>4. /\ Show("away", Url, s, FALSE) /\ Greeted("away", FALSE)
      /\ Mounted("away", FreshUi, FALSE, cs) /\ now' = now
      /\ going' = Arrived /\ byUser' = TRUE
  BY DEF Reload
<1>5. Url \in Places
  BY <1>1 DEF Url, PageTypeOK
<1> HIDE DEF s, cs
<1>6. /\ step' \in Places /\ view' \in Views
      /\ session' \in Nat /\ success' \in BOOLEAN /\ deadline' \in Nat
      /\ ViewHonest'
  BY <1>1, <1>2, <1>4, <1>5, Showing
<1>7. /\ submitting' \in BOOLEAN /\ interval' \in BOOLEAN /\ strays' \in Nat
      /\ ui' \in Ui /\ calls' \in [Calls -> Call]
      /\ FlagsFit(view, ui, submitting, calls)'
  BY <1>1, <1>2, <1>3, <1>4, <1>6, Mounting DEF PageTypeOK, Views
<1> QED
  BY <1>1, <1>4, <1>6, <1>7 DEF PageInv, PageTypeOK

LEMMA SendCodeKeeps ==
  ASSUME PageInv, NEW c \in Calls, SendCode(c)
  PROVE  PageInv'
<1>1. PageTypeOK
  BY DEF PageInv
<1>2. /\ view = "verify" /\ ~submitting /\ ~ui.sending /\ Sent(c, "send")
      /\ ui' = [ui EXCEPT !.sending = TRUE] /\ UNCHANGED <<now, signals, router, submitting, interval, strays>>
  BY DEF SendCode, CanSend
<1>3. ui' \in Ui
  BY <1>1, <1>2 DEF PageTypeOK, Ui
<1>4. submitting' = FALSE
  BY <1>1, <1>2 DEF PageTypeOK
<1>5. calls' \in [Calls -> Call] /\ FlagsFit(view, ui', FALSE, calls')
  BY <1>2, <1>3, Sending
<1> QED
  BY <1>1, <1>2, <1>3, <1>4, <1>5, Staying DEF PageTypeOK

LEMMA SendReplyKeeps ==
  ASSUME PageInv, NEW c \in Calls, SendReply(c)
  PROVE  PageInv'
<1>1. PageTypeOK /\ FlagsFit(view, ui, submitting, calls)
  BY DEF PageInv
<1>2. /\ calls[c].kind = "send" /\ calls' = Settled(c)
      /\ UNCHANGED <<now, signals, router, submitting>>
  BY DEF SendReply
<1>3. /\ calls' \in [Calls -> Call] /\ calls'[c].kind = "none"
      /\ ~calls'[c].page /\ ~calls'[c].view
      /\ \A d \in Calls \ {c} : calls'[d] = calls[d]
  BY <1>1, <1>2, CallTyped
<1>4. \/ /\ calls[c].page
         /\ ui' = [ui EXCEPT !.cooldown = RESEND_COOLDOWN, !.sending = FALSE, !.sent = TRUE]
         /\ interval' = (interval \/ calls[c].view)
         /\ strays' \in {strays, strays + 1}
      \/ /\ ui' = IF calls[c].page THEN [ui EXCEPT !.sending = FALSE] ELSE ui
         /\ UNCHANGED <<interval, strays>>
  BY DEF SendReply
<1>9. interval' \in BOOLEAN /\ strays' \in Nat
  <2>1. interval' \in BOOLEAN
    BY <1>1, <1>4, Zenon DEF PageTypeOK
  <2>2. strays' \in Nat
    BY <1>1, <1>4 DEF PageTypeOK
  <2> QED
    BY <2>1, <2>2
<1>5. /\ ui' \in Ui /\ ui'.verifying = ui.verifying
      /\ ui'.cooldown > 0 => ui'.sent
      /\ calls[c].page => ~ui'.sending
      /\ ~calls[c].page => ui'.sending = ui.sending
  <2>1. ui \in Ui /\ (ui.cooldown > 0 => ui.sent)
    BY <1>1 DEF PageTypeOK, FlagsFit
  <2>2. CASE /\ calls[c].page
             /\ ui' = [ui EXCEPT !.cooldown = RESEND_COOLDOWN, !.sending = FALSE, !.sent = TRUE]
    <3>1. RESEND_COOLDOWN \in 0 .. RESEND_COOLDOWN
      BY PageAssumption
    <3>2. /\ ui' \in Ui /\ ui'.verifying = ui.verifying
          /\ ui'.sent = TRUE /\ ui'.sending = FALSE
      BY <2>1, <2>2, <3>1 DEF Ui
    <3> QED
      BY <2>2, <3>2
  <2>3. CASE ui' = IF calls[c].page THEN [ui EXCEPT !.sending = FALSE] ELSE ui
    BY <2>1, <2>3 DEF Ui
  <2> QED
    BY <1>4, <2>2, <2>3
<1>6. /\ ui'.sending => \E d \in Calls : calls'[d].page /\ calls'[d].kind = "send"
      /\ ui'.verifying => \E d \in Calls : calls'[d].page /\ calls'[d].kind \in {"verify", "verified"}
      /\ submitting => \E d \in Calls : calls'[d].view /\ calls'[d].kind # "send"
  BY <1>1, <1>2, <1>3, <1>5 DEF FlagsFit
<1>7. \A d \in Calls : calls'[d].page /\ calls'[d].kind = "send" => ui'.sending
  BY <1>1, <1>2, <1>3, <1>5 DEF FlagsFit
<1>8. FlagsFit(view, ui', submitting, calls')
  BY <1>1, <1>3, <1>5, <1>6, <1>7 DEF FlagsFit
<1> QED
  BY <1>1, <1>2, <1>3, <1>5, <1>8, <1>9, Staying DEF PageTypeOK

LEMMA CooldownTickKeeps ==
  ASSUME PageInv, CooldownTick
  PROVE  PageInv'
<1>1. PageTypeOK /\ FlagsFit(view, ui, submitting, calls)
  BY DEF PageInv
<1>2. /\ ui' = Cooler /\ UNCHANGED <<now, signals, router, submitting, calls>>
      /\ interval' \in BOOLEAN /\ strays' \in Nat
  <2>1. /\ ui' = Cooler /\ UNCHANGED <<now, signals, router, submitting, calls>>
        /\ \/ interval' = (ui'.cooldown > 0) /\ strays' = strays
           \/ interval' = interval /\ strays > 0 /\ strays' \in {strays, strays - 1}
    BY DEF CooldownTick
  <2>2. interval' \in BOOLEAN
    <3>1. CASE interval' = (ui'.cooldown > 0)
      BY <3>1
    <3>2. CASE interval' = interval
      BY <1>1, <3>2 DEF PageTypeOK
    <3> QED
      BY <2>1, <3>1, <3>2
  <2>3. strays' \in Nat
    BY <1>1, <2>1 DEF PageTypeOK
  <2> QED
    BY <2>1, <2>2, <2>3
<1>3. /\ ui' \in Ui /\ ui'.sending = ui.sending /\ ui'.verifying = ui.verifying
      /\ ui'.sent = ui.sent /\ (ui'.cooldown > 0 => ui.cooldown > 0)
  BY <1>1, <1>2, PageAssumption DEF Cooler, PageTypeOK, Ui
<1>4. FlagsFit(view, ui', submitting, calls)
  BY <1>1, <1>3 DEF FlagsFit
<1> QED
  BY <1>1, <1>2, <1>3, <1>4, Staying DEF PageTypeOK

LEMMA ChangeEmailKeeps ==
  ASSUME PageInv, ChangeEmail
  PROVE  PageInv'
<1>1. PageTypeOK /\ FlagsFit(view, ui, submitting, calls)
  BY DEF PageInv
<1>2. /\ ~ui.sending /\ ui' = FreshUi /\ interval' = FALSE
      /\ UNCHANGED <<now, signals, router, submitting, strays, calls>>
  BY DEF ChangeEmail, CanChange
<1>3. ui' \in Ui
  BY <1>2, PageAssumption DEF FreshUi, Ui
<1>4. FlagsFit(view, FreshUi, submitting, calls)
  BY <1>1, <1>2 DEF FlagsFit, FreshUi
<1>5. FlagsFit(view, ui', submitting', calls')
  BY <1>2, <1>4, Zenon
<1> QED
  BY <1>1, <1>2, <1>3, <1>5, Staying DEF PageTypeOK

LEMMA SubmitCodeKeeps ==
  ASSUME PageInv, NEW c \in Calls, SubmitCode(c)
  PROVE  PageInv'
<1>1. PageTypeOK
  BY DEF PageInv
<1>2. /\ view = "verify" /\ ~submitting /\ ~ui.sending /\ Sent(c, "verify")
      /\ submitting' = TRUE /\ ui' = [ui EXCEPT !.verifying = TRUE]
      /\ UNCHANGED <<now, signals, router, interval, strays>>
  BY DEF SubmitCode
<1>3. ui' \in Ui
  BY <1>1, <1>2 DEF PageTypeOK, Ui
<1>4. calls' \in [Calls -> Call] /\ FlagsFit(view, ui', TRUE, calls')
  BY <1>2, <1>3, Sending
<1> QED
  BY <1>1, <1>2, <1>3, <1>4, Staying DEF PageTypeOK

LEMMA SubmitPasswordKeeps ==
  ASSUME PageInv, NEW c \in Calls, SubmitPassword(c)
  PROVE  PageInv'
<1>1. PageTypeOK
  BY DEF PageInv
<1>2. /\ view = "reset" /\ ~submitting /\ Sent(c, "reset")
      /\ submitting' = TRUE /\ UNCHANGED <<now, signals, router, ui, interval, strays>>
  BY DEF SubmitPassword
<1>3. calls' \in [Calls -> Call] /\ FlagsFit(view, ui, TRUE, calls')
  BY <1>1, <1>2, Sending DEF PageTypeOK
<1> QED
  BY <1>1, <1>2, <1>3, Staying DEF PageTypeOK

LEMMA VerifyReplyKeeps ==
  ASSUME PageInv, NEW c \in Calls, VerifyReply(c)
  PROVE  PageInv'
<1> DEFINE done == IF calls[c].page THEN [ui EXCEPT !.verifying = FALSE] ELSE ui
           busy == submitting /\ ~calls[c].view
           cs   == [calls EXCEPT ![c].kind = "verified"]
<1>1. PageTypeOK
  BY DEF PageInv
<1>2. done \in Ui /\ busy \in BOOLEAN /\ Settled(c) \in [Calls -> Call]
  BY <1>1, CallTyped DEF PageTypeOK, Ui
<1>3. calls[c].kind = "verify" /\ now' = now
  BY DEF VerifyReply
<1>4. FlagsFit(view, done, busy, Settled(c))
  BY <1>2, <1>3, Settling
<1>5. cs \in [Calls -> Call] /\ FlagsFit(view, ui, submitting, cs)
  BY <1>3, Waiting DEF Awaiting
<1>6. \/ \E at \in now .. now + KEY_EXPIRES :
           /\ Show(view, step, IF at > now THEN at ELSE NoSession, FALSE)
           /\ Greeted(view, FALSE)
           /\ Mounted(view, ui, submitting, cs)
           /\ going' = "reset" /\ byUser' = FALSE
      \/ /\ calls' = Settled(c) /\ ui' = done /\ submitting' = busy
         /\ UNCHANGED <<signals, router, interval, strays>>
  BY DEF VerifyReply
<1> HIDE DEF done, busy, cs
<1>7. ASSUME NEW at \in now .. now + KEY_EXPIRES,
             Show(view, step, IF at > now THEN at ELSE NoSession, FALSE),
             Greeted(view, FALSE), Mounted(view, ui, submitting, cs),
             going' = "reset", byUser' = FALSE
      PROVE  PageInv'
  <2>1. /\ (IF at > now THEN at ELSE NoSession) \in Nat
        /\ step \in Places /\ "reset" \in Places /\ ui \in Ui /\ submitting \in BOOLEAN
    BY <1>1, PageAssumption DEF PageTypeOK, NoSession, Places
  <2> QED
    BY <1>3, <1>5, <1>7, <2>1, Switching
<1>8. ASSUME calls' = Settled(c), ui' = done, submitting' = busy,
             UNCHANGED <<signals, router, interval, strays>>
      PROVE  PageInv'
  BY <1>1, <1>2, <1>3, <1>4, <1>8, Staying DEF PageTypeOK
<1> QED
  BY <1>6, <1>7, <1>8

LEMMA ResetReplyKeeps ==
  ASSUME PageInv, NEW c \in Calls, ResetReply(c)
  PROVE  PageInv'
<1> DEFINE busy == submitting /\ ~calls[c].view
           cs   == [calls EXCEPT ![c].kind = "changed"]
<1>1. PageTypeOK
  BY DEF PageInv
<1>2. /\ ui \in Ui /\ busy \in BOOLEAN /\ submitting \in BOOLEAN
      /\ Settled(c) \in [Calls -> Call]
  BY <1>1, CallTyped DEF PageTypeOK
<1>3. calls[c].kind = "reset" /\ now' = now
  BY DEF ResetReply
<1>4. FlagsFit(view, ui, busy, Settled(c))
  BY <1>2, <1>3, Settling
<1>5. cs \in [Calls -> Call] /\ FlagsFit(view, ui, submitting, cs)
  BY <1>3, Waiting DEF Awaiting
<1>6. \/ /\ Show(view, step, NoSession, TRUE) /\ success' = TRUE
         /\ Mounted(view, ui, submitting, cs)
         /\ going' = "success" /\ byUser' = FALSE
      \/ /\ Show(view, step, NoSession, FALSE) /\ Greeted(view, FALSE)
         /\ Mounted(view, ui, busy, Settled(c)) /\ UNCHANGED router
      \/ /\ calls' = Settled(c) /\ submitting' = busy
         /\ UNCHANGED <<signals, router, ui, interval, strays>>
  BY DEF ResetReply
<1>7. NoSession \in Nat /\ "success" \in Places /\ step \in Places
  BY <1>1 DEF NoSession, Places, PageTypeOK
<1> HIDE DEF busy, cs
<1>8. CASE /\ Show(view, step, NoSession, TRUE) /\ success' = TRUE
           /\ Mounted(view, ui, submitting, cs)
           /\ going' = "success" /\ byUser' = FALSE
  BY <1>2, <1>3, <1>5, <1>7, <1>8, Switching
<1>9. CASE /\ Show(view, step, NoSession, FALSE) /\ Greeted(view, FALSE)
           /\ Mounted(view, ui, busy, Settled(c)) /\ UNCHANGED router
  <2>1. going' \in Places \union {Arrived} /\ byUser' \in BOOLEAN
    BY <1>1, <1>9 DEF PageTypeOK, router
  <2> QED
    BY <1>2, <1>3, <1>4, <1>7, <1>9, <2>1, Switching
<1>10. CASE /\ calls' = Settled(c) /\ submitting' = busy
            /\ UNCHANGED <<signals, router, ui, interval, strays>>
  BY <1>1, <1>2, <1>3, <1>4, <1>10, Staying DEF PageTypeOK
<1> QED
  BY <1>6, <1>8, <1>9, <1>10

LEMMA ExpireKeeps ==
  ASSUME PageInv, Expire
  PROVE  PageInv'
<1>1. /\ PageTypeOK /\ FlagsFit(view, ui, submitting, calls) /\ NoSession \in Nat
      /\ "away" \in Places
  BY DEF PageInv, NoSession, Places
<1> QED
  BY <1>1, Switching DEF Expire, PageTypeOK

-----------------------------------------------------------------------------
LEMMA PageStep ==
  ASSUME PageInv, [Next]_vars
  PROVE  PageInv'
<1>1. CASE Tick
  BY <1>1, Staying DEF Tick, PageInv, PageTypeOK
<1>2. CASE UNCHANGED vars
  BY <1>2 DEF vars, PageInv, PageTypeOK, ViewHonest, FlagsFit, NoSession
<1> QED
  BY <1>1, <1>2, NavigateKeeps, ArriveKeeps, ReloadKeeps, CooldownTickKeeps, ChangeEmailKeeps, ExpireKeeps,
     SendCodeKeeps, SendReplyKeeps, SubmitCodeKeeps, VerifyReplyKeeps, SubmitPasswordKeeps,
     ResetReplyKeeps DEF Next

(* The flags of the uiStore tell what is under way, and the view fits the  *)
(* signals, in every reachable state.                                      *)
THEOREM PageInvariance == Spec => []PageInv
<1>1. Init => PageInv
  BY PageInitial
<1>2. PageInv /\ [Next]_vars => PageInv'
  BY PageStep
<1> QED
  BY <1>1, <1>2, PTL DEF Spec

(* No success is remembered next to a session, whoever may set a password  *)
(* has a session and a timer, and a verify view that still knows a session *)
(* or a success is on its way to the view for it, unless the user went     *)
(* elsewhere: also while the navigation a reply asked for is under way.    *)
THEOREM ViewsHonest == Spec => []ViewHonest
BY PageInvariance, PTL DEF PageInv

(* The form of a view never has two requests under way, nor one beside a   *)
(* handler that waits for its navigation.                                  *)
THEOREM RequestsApart == Spec => []NoOverlap
<1>1. PageInv => NoOverlap
  BY DEF PageInv, FlagsFit, NoOverlap
<1> QED
  BY <1>1, PageInvariance, PTL

(* Once the replies are in, a new code can be asked for or the address     *)
(* changed.                                                                *)
THEOREM NobodyTrapped == Spec => []NotTrapped
<1>1. PageInv => NotTrapped
  <2> SUFFICES ASSUME PageInv, view = "verify", \A c \in Calls : ~calls[c].page
               PROVE  CanSend \/ CanChange
    BY DEF NotTrapped
  <2>1. ~ui.sending /\ ~ui.verifying /\ ~submitting /\ (ui.cooldown > 0 => ui.sent)
    BY DEF PageInv, FlagsFit
  <2> QED
    BY <2>1 DEF CanSend, CanChange, IsVerifyStep, IsCoolingDown
<1> QED
  BY <1>1, PageInvariance, PTL
=============================================================================

--------------------------- MODULE AuthFormProofs ---------------------------
(* Proofs about AuthForm, for every value of its constants: the address,   *)
(* the pending resend and the cooldown of the form, whatever reply comes   *)
(* to whatever page.                                                       *)
EXTENDS AuthForm, TLAPS

Modes == {"sign_in", "sign_up", "verify_email", "away"}

-----------------------------------------------------------------------------
(* The parts of the state.                                                 *)

LEMMA Forms ==
  /\ Inactive \in Form /\ Inactive.type = "inactive"
  /\ \A e \in Emails : /\ Ready(e) \in Form /\ Ready(e).type = "ready" /\ Ready(e).email = e
                       /\ Cooling(e) \in Form /\ Cooling(e).type = "cooldown"
                       /\ Cooling(e).email = e /\ Cooling(e).seconds = RESEND_COOLDOWN
BY AuthFormAssumption DEF Form, Inactive, Ready, Cooling

LEMMA Nothing ==
  /\ NotTold \in [Emails -> 0 .. RESEND_COOLDOWN] /\ \A e \in Emails : NotTold[e] = 0
  /\ NoCall \in Call /\ NoCall.kind = "none" /\ ~NoCall.page
<1>1. 0 \in 0 .. RESEND_COOLDOWN
  BY AuthFormAssumption
<1>2. QED
  BY <1>1 DEF NotTold, NoCall, Call

LEMMA TellAlso ==
  ASSUME NEW t \in [Emails -> 0 .. RESEND_COOLDOWN], NEW e
  PROVE  [t EXCEPT ![e] = RESEND_COOLDOWN] \in [Emails -> 0 .. RESEND_COOLDOWN]
<1>1. RESEND_COOLDOWN \in 0 .. RESEND_COOLDOWN
  BY AuthFormAssumption
<1>2. QED
  BY <1>1

LEMMA SettledAt ==
  ASSUME AuthTypeOK, NEW c \in Calls
  PROVE  /\ Settled(c) \in [Calls -> Call]
         /\ \A x \in Calls : Settled(c)[x] = IF x = c THEN NoCall ELSE calls[x]
         /\ NoCall.kind = "none" /\ ~NoCall.page
BY DEF AuthTypeOK, Settled, NoCall, Call

LEMMA Sent ==
  ASSUME AuthTypeOK, NEW c \in Calls, NEW k \in {"sign_in", "sign_up", "verify", "resend"},
         NEW e \in Emails \union {NoEmail}, Send(c, k, e)
  PROVE  /\ calls' \in [Calls -> Call]
         /\ calls'[c].kind = k /\ calls'[c].page /\ calls'[c].email = e
         /\ \A x \in Calls : x # c => calls'[x] = calls[x]
         /\ \A j : Pending(j) => Pending(j)'
BY DEF AuthTypeOK, Send, NoCall, Call, Pending

(* What a page shows after a step that changes mode, form and address.     *)
LEMMA Shown ==
  ASSUME AuthTypeOK, NEW m \in Modes, NEW f \in Form, NEW s \in Emails \union {NoEmail},
         NEW cs \in [Calls -> Call], NEW t \in [Emails -> 0 .. RESEND_COOLDOWN],
         f.type # "inactive" /\ mode # "away" /\ m # "away" =>
           s # NoEmail /\ (f.email = s \/ m = "verify_email"),
         Show(m, f, s, cs, t)
  PROVE  /\ mode' \in Modes /\ form' \in Form /\ saved' \in Emails \union {NoEmail}
         /\ calls' \in [Calls -> Call] /\ told' \in [Emails -> 0 .. RESEND_COOLDOWN]
         /\ lost' \in BOOLEAN
         /\ FormInv'
<1> USE AuthFormAssumption DEF Modes
<1>1. calls' \in [Calls -> Call]
  BY DEF Show, Call
<1>2. told' \in [Emails -> 0 .. RESEND_COOLDOWN] /\ lost' \in BOOLEAN
  BY DEF Show, NotTold, AuthTypeOK
<1>3. mode' \in Modes /\ saved' = s /\ (mode' = "verify_email" => s \in Emails)
  BY DEF Show
<1>4. form' \in Form
  BY <1>3, Forms DEF Show, Sync
<1>5. FormInv'
  BY <1>3, Forms DEF Show, Sync, FormInv
<1>6. QED
  BY <1>1, <1>2, <1>3, <1>4, <1>5

-----------------------------------------------------------------------------
(* Types, the form and its address.                                        *)

Known == AuthTypeOK /\ FormInv /\ CallInv

LEMMA KnownInit == Init => Known
<1> SUFFICES ASSUME Init PROVE Known
  OBVIOUS
<1>1. AuthTypeOK
  BY Forms, Nothing DEF Init, AuthTypeOK
<1>2. FormInv
  BY Forms DEF Init, FormInv
<1>3. CallInv
  BY Nothing DEF Init, CallInv
<1>4. QED
  BY <1>1, <1>2, <1>3 DEF Known

(* The form that Show is given, from what the page had.                    *)
LEMMA KnownShow ==
  ASSUME Known, NEW m \in Modes, NEW f \in Form, NEW s \in Emails \union {NoEmail},
         NEW cs \in [Calls -> Call], NEW t \in [Emails -> 0 .. RESEND_COOLDOWN],
         \A c \in Calls : cs[c] = NoCall \/ cs[c] = calls[c],
         f.type # "inactive" /\ mode # "away" /\ m # "away" =>
           s # NoEmail /\ (f.email = s \/ m = "verify_email"),
         Show(m, f, s, cs, t), crossed' \in BOOLEAN
  PROVE  Known'
<1>1. AuthTypeOK' /\ FormInv'
  BY Shown DEF Known, AuthTypeOK, Modes
<1>2. CallInv'
  BY DEF Show, Known, CallInv, AuthTypeOK, Call, NoCall
<1>3. QED
  BY <1>1, <1>2 DEF Known

LEMMA KnownStep == Known /\ [Next]_vars => Known'
<1> SUFFICES ASSUME Known, [Next]_vars PROVE Known'
  OBVIOUS
<1> USE AuthFormAssumption
<1>0. CASE UNCHANGED vars
  BY <1>0 DEF vars, Known, AuthTypeOK, FormInv, CallInv
<1>1. ASSUME NEW m \in Modes, Goto(m) PROVE Known'
  <2>1. Show(m, form, saved, calls, told) /\ crossed' \in BOOLEAN
    BY <1>1 DEF Goto, Known, AuthTypeOK
  <2>2. /\ form \in Form /\ saved \in Emails \union {NoEmail} /\ calls \in [Calls -> Call]
        /\ told \in [Emails -> 0 .. RESEND_COOLDOWN]
        /\ form.type # "inactive" => form.email = saved /\ saved # NoEmail
    BY DEF Known, AuthTypeOK, FormInv
  <2>3. QED
    BY <1>1, <2>1, <2>2, KnownShow
<1>2. CASE Reload
  BY <1>2, Forms, Nothing DEF Reload, Known, AuthTypeOK, FormInv, CallInv
<1>3. CASE Tick
  <2>1. form' \in Form /\ form'.email = form.email /\ (form'.type = "inactive" <=> form.type = "inactive")
    <3>1. form.type = "cooldown" => form.email \in Emails
      BY DEF Known, AuthTypeOK, FormInv
    <3>2. QED
      BY <1>3, <3>1, Forms DEF Tick, Known, AuthTypeOK, Form
  <2>2. told' \in [Emails -> 0 .. RESEND_COOLDOWN]
    BY <1>3 DEF Tick, Known, AuthTypeOK
  <2>3. QED
    BY <1>3, <2>1, <2>2 DEF Tick, Known, AuthTypeOK, FormInv, CallInv
<1>4. ASSUME NEW c \in Calls, SubmitSignIn(c) PROVE Known'
  <2>1. calls' \in [Calls -> Call] /\ CallInv'
    BY <1>4, Sent DEF SubmitSignIn, Known, CallInv
  <2>2. QED
    BY <1>4, <2>1 DEF SubmitSignIn, Known, AuthTypeOK, FormInv
<1>5. ASSUME NEW c \in Calls, NEW e \in Emails, SubmitSignUp(c, e) PROVE Known'
  <2>1. calls' \in [Calls -> Call] /\ CallInv'
    BY <1>5, Sent DEF SubmitSignUp, Known, CallInv
  <2>2. QED
    BY <1>5, <2>1 DEF SubmitSignUp, Known, AuthTypeOK, FormInv
<1>6. ASSUME NEW c \in Calls, SubmitCode(c) PROVE Known'
  <2>1. form.email \in Emails \union {NoEmail}
    BY DEF Known, AuthTypeOK, Form
  <2>2. calls' \in [Calls -> Call] /\ CallInv'
    BY <1>6, <2>1, Sent DEF SubmitCode, Known, CallInv
  <2>3. QED
    BY <1>6, <2>2 DEF SubmitCode, Known, AuthTypeOK, FormInv
<1>7. ASSUME NEW c \in Calls, Resend(c) PROVE Known'
  <2>1. form.email \in Emails \union {NoEmail}
    BY DEF Known, AuthTypeOK, Form
  <2>2. calls' \in [Calls -> Call] /\ CallInv'
    BY <1>7, <2>1, Sent DEF Resend, Known, CallInv
  <2>3. form' \in Form /\ form'.email = form.email /\ form.type # "inactive" /\ form'.type # "inactive"
    BY <1>7 DEF Resend, CanResend, Known, AuthTypeOK, Form
  <2>4. QED
    BY <1>7, <2>2, <2>3 DEF Resend, Known, AuthTypeOK, FormInv
<1>8. ASSUME NEW c \in Calls, Ignored(c) PROVE Known'
  <2>1. calls' \in [Calls -> Call] /\ CallInv'
    BY <1>8, SettledAt DEF Ignored, Known, CallInv
  <2>2. QED
    BY <1>8, <2>1 DEF Ignored, Known, AuthTypeOK, FormInv
<1>9. ASSUME NEW c \in Calls, SignedIn(c) PROVE Known'
  <2>1. /\ Settled(c) \in [Calls -> Call]
        /\ \A x \in Calls : Settled(c)[x] = NoCall \/ Settled(c)[x] = calls[x]
    BY SettledAt DEF Known
  <2>2. form \in Form /\ told \in [Emails -> 0 .. RESEND_COOLDOWN]
    BY DEF Known, AuthTypeOK
  <2>3. "away" \in Modes /\ Show("away", form, NoEmail, Settled(c), told) /\ crossed' \in BOOLEAN
    BY <1>9 DEF SignedIn, Modes
  <2>4. QED
    BY <2>1, <2>2, <2>3, KnownShow
<1>10. ASSUME NEW c \in Calls, SignedUp(c) PROVE Known'
  <2> DEFINE e == calls[c].email
  <2>1. /\ Settled(c) \in [Calls -> Call]
        /\ \A x \in Calls : Settled(c)[x] = NoCall \/ Settled(c)[x] = calls[x]
    BY SettledAt DEF Known
  <2>2. e \in Emails /\ e # NoEmail
    BY <1>10 DEF SignedUp, Known, CallInv, AuthTypeOK, Call
  <2>3. form \in Form /\ told \in [Emails -> 0 .. RESEND_COOLDOWN] /\ "verify_email" \in Modes
    BY DEF Known, AuthTypeOK, Modes
  <2>4. CASE calls[c].page
    <3>1. Show("verify_email", Cooling(e), e, Settled(c), [told EXCEPT ![e] = RESEND_COOLDOWN])
      BY <1>10, <2>4 DEF SignedUp
    <3>2. crossed' \in BOOLEAN
      BY <1>10, <2>4 DEF SignedUp, Known, AuthTypeOK
    <3>3. [told EXCEPT ![e] = RESEND_COOLDOWN] \in [Emails -> 0 .. RESEND_COOLDOWN]
      BY <2>3, TellAlso
    <3>4. QED
      BY <2>1, <2>2, <2>3, <3>1, <3>2, <3>3, Forms, KnownShow
  <2>5. CASE ~calls[c].page
    <3>1. Show("verify_email", form, e, Settled(c), told) /\ crossed' \in BOOLEAN
      BY <1>10, <2>5 DEF SignedUp
    <3>2. QED
      BY <2>1, <2>2, <2>3, <3>1, KnownShow
  <2>6. QED
    BY <2>4, <2>5
<1>11. ASSUME NEW c \in Calls, ResendReply(c) PROVE Known'
  <2>1. calls' \in [Calls -> Call] /\ CallInv'
    BY <1>11, SettledAt DEF ResendReply, Known, CallInv
  <2>2. form.type # "inactive" => form.email \in Emails
    BY DEF Known, AuthTypeOK, FormInv
  <2>3. /\ form' \in Form /\ form'.email = form.email
        /\ form'.type = "inactive" <=> form.type = "inactive"
    BY <1>11, <2>2, Forms DEF ResendReply, Known, AuthTypeOK
  <2>4. told' \in [Emails -> 0 .. RESEND_COOLDOWN] /\ crossed' \in BOOLEAN /\ lost' \in BOOLEAN
    BY <1>11 DEF ResendReply, Known, AuthTypeOK, Call
  <2>5. QED
    BY <1>11, <2>1, <2>3, <2>4 DEF ResendReply, Known, AuthTypeOK, FormInv
<1>12. QED
  BY <1>0, <1>1, <1>2, <1>3, <1>4, <1>5, <1>6, <1>7, <1>8, <1>9, <1>10, <1>11 DEF Next, Modes

-----------------------------------------------------------------------------
(* A pending resend.                                                       *)

LEMMA SettlesStep == Known /\ ResendSettles /\ [Next]_vars => ResendSettles'
<1> SUFFICES ASSUME Known, ResendSettles, [Next]_vars, form'.type = "resending"
             PROVE  Pending("resend")' \/ lost'
  BY DEF ResendSettles
<1> USE Forms, Nothing DEF Known, ResendSettles
<1>0. CASE UNCHANGED vars
  BY <1>0 DEF vars, Pending
<1>1. ASSUME NEW m \in Modes, Goto(m) PROVE Pending("resend")' \/ lost'
  <2>1. mode # "away" /\ m # "away" /\ form.type = "resending"
    BY <1>1 DEF Goto, Show, Sync, Ready, Inactive
  <2>2. QED
    BY <1>1, <2>1 DEF Goto, Show, Pending, AuthTypeOK, Call
<1>2. CASE Reload
  BY <1>2 DEF Reload
<1>3. CASE Tick
  BY <1>3 DEF Tick, Ready, Pending, AuthTypeOK, Form
<1>4. ASSUME NEW c \in Calls, SubmitSignIn(c) PROVE Pending("resend")' \/ lost'
  BY <1>4, Sent DEF SubmitSignIn
<1>5. ASSUME NEW c \in Calls, NEW e \in Emails, SubmitSignUp(c, e) PROVE Pending("resend")' \/ lost'
  BY <1>5, Sent DEF SubmitSignUp
<1>6. ASSUME NEW c \in Calls, SubmitCode(c) PROVE Pending("resend")' \/ lost'
  BY <1>6, Sent DEF SubmitCode, AuthTypeOK, Form
<1>7. ASSUME NEW c \in Calls, Resend(c) PROVE Pending("resend")' \/ lost'
  <2>1. form.email \in Emails \union {NoEmail}
    BY DEF AuthTypeOK, Form
  <2>2. calls'[c].kind = "resend" /\ calls'[c].page
    BY <1>7, <2>1, Sent DEF Resend
  <2>3. QED
    BY <2>2 DEF Pending
<1>8. ASSUME NEW c \in Calls, Ignored(c) PROVE Pending("resend")' \/ lost'
  BY <1>8, SettledAt DEF Ignored, Pending
<1>9. ASSUME NEW c \in Calls, SignedIn(c) PROVE Pending("resend")' \/ lost'
  BY <1>9 DEF SignedIn, Show
<1>10. ASSUME NEW c \in Calls, SignedUp(c) PROVE Pending("resend")' \/ lost'
  <2>1. mode # "away" /\ form.type = "resending"
    BY <1>10 DEF SignedUp, Show, Sync, Ready, Inactive, Cooling
  <2>2. /\ calls' = [x \in Calls |-> [Settled(c)[x] EXCEPT !.page = @ /\ TRUE]]
        /\ lost' = lost /\ calls[c].kind = "sign_up"
    BY <1>10, <2>1 DEF SignedUp, Show, AuthTypeOK
  <2>3. CASE lost
    BY <2>2, <2>3
  <2>4. CASE Pending("resend")
    <3>1. PICK x \in Calls : calls[x].kind = "resend" /\ calls[x].page
      BY <2>4 DEF Pending
    <3>2. Settled(c)[x] = calls[x] /\ calls[x] \in Call
      BY <2>2, <3>1, SettledAt DEF AuthTypeOK
    <3>3. calls'[x].kind = "resend" /\ calls'[x].page
      BY <2>2, <3>1, <3>2 DEF Call
    <3>4. QED
      BY <3>3 DEF Pending
  <2>5. QED
    BY <2>1, <2>3, <2>4
<1>11. ASSUME NEW c \in Calls, ResendReply(c) PROVE Pending("resend")' \/ lost'
  <2>1. form.type = "resending" /\ (calls[c].page => lost')
    BY <1>11 DEF ResendReply, Ready, Cooling, AuthTypeOK, Call
  <2>2. lost => lost'
    BY <1>11 DEF ResendReply, AuthTypeOK
  <2>3. QED
    BY <1>11, <2>1, <2>2, SettledAt DEF ResendReply, Pending
<1>12. QED
  BY <1>0, <1>1, <1>2, <1>3, <1>4, <1>5, <1>6, <1>7, <1>8, <1>9, <1>10, <1>11 DEF Next, Modes

-----------------------------------------------------------------------------
(* What the page was told.                                                 *)

LEMMA ToldStep == Known /\ ToldInv /\ [Next]_vars => ToldInv'
<1> SUFFICES ASSUME Known, ToldInv, [Next]_vars, ~crossed', NEW e \in Emails, told'[e] > 0
             PROVE  /\ form'.type # "inactive"
                    /\ form'.email = e => form'.type = "cooldown" /\ told'[e] <= form'.seconds
  BY DEF ToldInv
<1> DEFINE Kept == /\ form'.type # "inactive"
                   /\ form'.email = e => form'.type = "cooldown" /\ told'[e] <= form'.seconds
<1> SUFFICES Kept
  OBVIOUS
<1> HIDE DEF Kept
<1>same. ASSUME crossed => crossed', told'[e] = told[e], form' = form PROVE Kept
  BY <1>same DEF Kept, ToldInv
<1> USE Forms, Nothing, AuthFormAssumption DEF Known
<1>0. CASE UNCHANGED vars
  <2>1. crossed' = crossed /\ told' = told /\ form' = form
    BY <1>0 DEF vars
  <2>2. QED
    BY <2>1, <1>same
<1>1. ASSUME NEW m \in Modes, Goto(m) PROVE Kept
  <2>1. mode # "away" /\ m # "away"
    BY <1>1 DEF Goto, Show
  <2>2. told' = told /\ crossed' = crossed
    BY <1>1, <2>1 DEF Goto, Show, AuthTypeOK
  <2>3. form.type # "inactive" /\ form.email = saved
    BY <2>2 DEF ToldInv, FormInv
  <2>4. form' = form
    BY <1>1, <2>1, <2>3 DEF Goto, Show, Sync
  <2>5. QED
    BY <2>2, <2>4, <1>same
<1>2. CASE Reload
  BY <1>2 DEF Reload
<1>3. CASE Tick
  <2>1. told[e] \in Nat /\ told[e] > 1 /\ told'[e] = told[e] - 1 /\ ~crossed
    BY <1>3 DEF Tick, AuthTypeOK
  <2>2. form.type # "inactive" /\ (form.email = e => form.type = "cooldown" /\ told[e] <= form.seconds)
    BY <2>1 DEF ToldInv
  <2>3. form.type = "cooldown" => form.email \in Emails /\ form.seconds \in Nat
    BY DEF FormInv, AuthTypeOK, Form
  <2>4. CASE form.type # "cooldown"
    BY <1>3, <2>2, <2>4 DEF Tick, Kept
  <2>5. CASE form.type = "cooldown" /\ form.seconds <= 1
    BY <1>3, <2>1, <2>2, <2>3, <2>5 DEF Tick, Kept
  <2>6. CASE form.type = "cooldown" /\ ~(form.seconds <= 1)
    <3>1. form'.type = "cooldown" /\ form'.email = form.email /\ form'.seconds = form.seconds - 1
      BY <1>3, <2>6 DEF Tick, AuthTypeOK, Form
    <3>2. QED
      BY <3>1, <2>1, <2>2, <2>3 DEF Kept
  <2>7. QED
    BY <2>4, <2>5, <2>6
<1>4. ASSUME NEW c \in Calls, SubmitSignIn(c) PROVE Kept
  BY <1>4, <1>same DEF SubmitSignIn
<1>5. ASSUME NEW c \in Calls, NEW a \in Emails, SubmitSignUp(c, a) PROVE Kept
  BY <1>5, <1>same DEF SubmitSignUp
<1>6. ASSUME NEW c \in Calls, SubmitCode(c) PROVE Kept
  BY <1>6, <1>same DEF SubmitCode
<1>7. ASSUME NEW c \in Calls, Resend(c) PROVE Kept
  <2>1. form'.email = form.email /\ form'.type = "resending" /\ form.type = "ready"
    BY <1>7 DEF Resend, CanResend, AuthTypeOK, Form
  <2>2. told' = told /\ crossed' = crossed
    BY <1>7 DEF Resend
  <2>3. QED
    BY <2>1, <2>2 DEF ToldInv, Kept
<1>8. ASSUME NEW c \in Calls, Ignored(c) PROVE Kept
  BY <1>8, <1>same DEF Ignored
<1>9. ASSUME NEW c \in Calls, SignedIn(c) PROVE Kept
  BY <1>9 DEF SignedIn, Show
<1>10. ASSUME NEW c \in Calls, SignedUp(c) PROVE Kept
  <2> DEFINE a == calls[c].email
  <2>1. a \in Emails /\ a # NoEmail
    BY <1>10 DEF SignedUp, CallInv, AuthTypeOK, Call
  <2>2. calls[c].page /\ mode # "away"
    <3>1. mode # "away"
      <4>1. mode = "away" => told' = NotTold
        BY <1>10 DEF SignedUp, Show
      <4>2. QED
        BY <4>1
    <3>2. calls[c].page
      BY <1>10, <3>1 DEF SignedUp
    <3>3. QED
      BY <3>1, <3>2
  <2>3. told' = [told EXCEPT ![a] = RESEND_COOLDOWN] /\ form' = Cooling(a)
    BY <1>10, <2>1, <2>2 DEF SignedUp, Show, Sync
  <2>4. told'[e] <= RESEND_COOLDOWN
    BY <2>3, <2>1 DEF AuthTypeOK
  <2>5. QED
    BY <2>1, <2>3, <2>4 DEF Kept
<1>11. ASSUME NEW c \in Calls, ResendReply(c) PROVE Kept
  <2> DEFINE a == calls[c].email
             mine == calls[c].page /\ form.type = "resending"
  <2>1. form.type # "inactive" => form.email \in Emails
    BY DEF FormInv, AuthTypeOK
  <2>2. CASE /\ form' = IF mine THEN Cooling(form.email) ELSE form
             /\ told' = IF calls[c].page THEN [told EXCEPT ![a] = RESEND_COOLDOWN] ELSE told
             /\ crossed' = (crossed \/ (calls[c].page /\ ~(mine /\ form.email = a)))
    <3>1. CASE calls[c].page
      <4>1. mine /\ form.email = a /\ a \in Emails
        BY <2>1, <2>2, <3>1
      <4>2. form' = Cooling(a) /\ told' = [told EXCEPT ![a] = RESEND_COOLDOWN]
        BY <2>2, <4>1
      <4>3. told'[e] <= RESEND_COOLDOWN
        BY <4>2 DEF AuthTypeOK
      <4>4. QED
        BY <4>1, <4>2, <4>3 DEF Kept
    <3>2. CASE ~calls[c].page
      <4>1. form' = form /\ told' = told /\ (crossed => crossed')
        BY <2>2, <3>2
      <4>2. QED
        BY <4>1, <1>same
    <3>3. QED
      BY <3>1, <3>2
  <2>3. CASE form' = (IF mine THEN Ready(form.email) ELSE form) /\ UNCHANGED <<told, crossed>>
    BY <2>1, <2>3 DEF ToldInv, Kept
  <2>4. CASE UNCHANGED <<form, told, crossed>>
    BY <2>4, <1>same
  <2>5. QED
    BY <1>11, <2>2, <2>3, <2>4 DEF ResendReply
<1>12. QED
  BY <1>0, <1>1, <1>2, <1>3, <1>4, <1>5, <1>6, <1>7, <1>8, <1>9, <1>10, <1>11 DEF Next, Modes

-----------------------------------------------------------------------------
(* The theorems.                                                           *)

(* Whatever reply comes to whatever page, in any order with ticks, tabs    *)
(* and navigation, the form in use is for the address to verify, waits     *)
(* only for a resend under way, and counts the cooldown it was told.       *)
THEOREM AuthInvariance == Spec => []AuthInv
<1>1. Init => AuthInv
  <2>1. Init => ResendSettles
    BY Forms DEF Init, ResendSettles
  <2>2. Init => ToldInv
    BY Nothing DEF Init, ToldInv
  <2>3. QED
    BY <2>1, <2>2, KnownInit DEF AuthInv, Known
<1>2. AuthInv /\ [Next]_vars => AuthInv'
  BY KnownStep, SettlesStep, ToldStep DEF AuthInv, Known
<1>3. QED
  BY <1>1, <1>2, PTL DEF Spec

(* The address the verification page shows is the one its form verifies    *)
(* and resends for.                                                        *)
THEOREM EmailsAgree == Spec => []EmailAgrees
<1>1. AuthInv => EmailAgrees
  BY DEF AuthInv, FormInv, EmailAgrees
<1>2. QED
  BY <1>1, AuthInvariance, PTL

(* The form never waits for a resend that is over, except one that got no  *)
(* reply.                                                                  *)
THEOREM ResendsSettle == Spec => []ResendSettles
<1>1. AuthInv => ResendSettles
  BY DEF AuthInv
<1>2. QED
  BY <1>1, AuthInvariance, PTL

(* The resend button stays disabled for the cooldown the page was told for *)
(* the address of its form, unless a reply crossed with a change of page.  *)
THEOREM CooldownIsKept == Spec => []CooldownKept
<1>1. AuthInv => CooldownKept
  <2> SUFFICES ASSUME AuthInv, ~crossed, CanResend PROVE told[form.email] = 0
    BY DEF CooldownKept
  <2>1. form.email \in Emails /\ form.type = "ready"
    BY DEF AuthInv, AuthTypeOK, FormInv, CanResend
  <2>2. told[form.email] \in Nat /\ ~(told[form.email] > 0)
    BY <2>1 DEF AuthInv, AuthTypeOK, ToldInv
  <2>3. QED
    BY <2>2
<1>2. QED
  BY <1>1, AuthInvariance, PTL
=============================================================================

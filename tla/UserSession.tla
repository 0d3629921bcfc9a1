----------------------------- MODULE UserSession -----------------------------
(***************************************************************************)
(* Who the page believes is signed in: UserStore of the web frontend       *)
(* (web/frontend/src/state/user/index.tsx), its notification socket, and   *)
(* its callers (the auth forms, the sidebar, the route loaders).           *)
(*                                                                         *)
(* A request is three steps: the page sends it, the server works on it,    *)
(* the page handles the reply; anything may happen in between.  The server *)
(* and the network are external: they are what their replies show.         *)
(*   Delays are left out: a timer fires some time after it was armed.  The *)
(* unread count is reduced to whose notifications it counts (NoUser for    *)
(* zero), and a profile to the user it belongs to.                         *)
(*   `upset' is a history variable.  It becomes true where page and server *)
(* part ways through no step of the page: a reply that is lost, late or an *)
(* error, a session that expires, a verified address that signs in over    *)
(* another account, a page reloaded while a sign-in or sign-out is under   *)
(* way.                                                                    *)
(*                                                                         *)
(* Operators named Faulty... are not part of the model: each is the        *)
(* operator after it with a mistake, which some property must notice.      *)
(***************************************************************************)
EXTENDS Naturals

CONSTANTS
  Users, NoUser,
  Calls,                 \* bound: requests under way at a time
  Sockets, NoSocket      \* bound: WebSockets of one page not yet closed

ASSUME SessionAssumption == NoUser \notin Users /\ NoSocket \notin Sockets

VARIABLES
  user,       \* userState: who is shown as signed in
  loading,    \* isLoadingState
  hint,       \* the flag in localStorage that survives a reload
  unread,     \* whose notifications notificationUnreadCount counts
  socket,     \* notificationSocket
  timer,      \* is notificationReconnectTimer armed
  conn,       \* the browser's side of every WebSocket, forgotten ones too
  calls,      \* requests under way
  session,    \* external: the user of the session cookie
  upset       \* history, see above

vars == <<user, loading, hint, unread, socket, timer, conn, calls, session, upset>>
page == <<user, loading, hint, unread, socket, timer>>

MaybeUser == Users \union {NoUser}

(* A WebSocket, and once it is open the user the server opened it for.     *)
Closed == [state |-> "closed", for |-> NoUser]
Conn   == [state: {"closed", "connecting", "open", "closing"}, for: MaybeUser]

(* A request: the account it signs in, and once it was worked on the user  *)
(* its reply is about.                                                     *)
NoCall == [kind |-> "none", state |-> "sent", for |-> NoUser]
Kinds  == {"profile", "guard", "unread", "sign_in", "verify", "sign_out"}
Call   == [kind: Kinds, state: {"sent", "ok", "error"}, for: MaybeUser]

SessionTypeOK ==
  /\ user \in MaybeUser /\ unread \in MaybeUser /\ session \in MaybeUser
  /\ loading \in BOOLEAN /\ hint \in BOOLEAN
  /\ timer \in BOOLEAN /\ upset \in BOOLEAN
  /\ socket \in Sockets \union {NoSocket}
  /\ conn \in [Sockets -> Conn]
  /\ calls \in [Calls -> Call \union {NoCall}]

Init ==
  /\ user = NoUser /\ unread = NoUser /\ session = NoUser
  /\ loading = FALSE /\ hint = FALSE /\ timer = FALSE /\ upset = FALSE
  /\ socket = NoSocket
  /\ conn = [s \in Sockets |-> Closed]
  /\ calls = [c \in Calls |-> NoCall]

-----------------------------------------------------------------------------
(* Requests.                                                               *)

Sent(kind, u) == [kind |-> kind, state |-> "sent", for |-> u]

Send(c, kind, u) ==
  /\ calls[c] = NoCall
  /\ calls' = [calls EXCEPT ![c] = Sent(kind, u)]

Replied(c) == calls[c].kind # "none" /\ calls[c].state # "sent"
Settle(c)  == calls' = [calls EXCEPT ![c] = NoCall]

(* A reply about another user than the one now signed in at the server.    *)
Late(c)    == calls[c].state = "ok" /\ calls[c].for # session
Witness(c) == upset' = (upset \/ Late(c))

UnderWay(kinds) == \E c \in Calls : calls[c].kind \in kinds
Moves == {"sign_in", "verify", "sign_out"}   \* what changes the session

-----------------------------------------------------------------------------
(* The notification socket.                                                *)

Live(s) == s # NoSocket /\ conn[s].state \in {"connecting", "open"}

(* notificationSocket = new WebSocket(...), for u, unless it is live.       *)
FaultyConnect(u) ==
  IF u = NoUser \/ socket # NoSocket
  THEN UNCHANGED <<socket, conn>>
  ELSE \E s \in Sockets :
         /\ conn[s].state = "closed"
         /\ socket' = s
         /\ conn' = [conn EXCEPT ![s] = [state |-> "connecting", for |-> NoUser]]

Connect(u) ==
  IF u = NoUser \/ Live(socket)
  THEN UNCHANGED <<socket, conn>>
  ELSE \E s \in Sockets :
         /\ conn[s].state = "closed"
         /\ socket' = s
         /\ conn' = [conn EXCEPT ![s] = [state |-> "connecting", for |-> NoUser]]

(* close() starts the closing handshake; the close event comes later.      *)
FaultyDisconnect ==
  /\ timer' = FALSE /\ socket' = NoSocket
  /\ UNCHANGED conn

Disconnect ==
  /\ timer' = FALSE /\ socket' = NoSocket
  /\ conn' = [s \in Sockets |-> IF s = socket /\ Live(s)
                                THEN [conn[s] EXCEPT !.state = "closing"]
                                ELSE conn[s]]

(* The close event, with its handler: arm the timer if signed in.          *)
CloseEvent(s) ==
  /\ conn[s].state = "closing"
  /\ conn' = [conn EXCEPT ![s] = Closed]
  /\ timer' = (timer \/ user # NoUser)
  /\ UNCHANGED <<user, loading, hint, unread, socket, calls, session, upset>>

TimerFires ==
  /\ timer
  /\ timer' = FALSE
  /\ Connect(user)
  /\ UNCHANGED <<user, loading, hint, unread, calls, session, upset>>

(* A notification arrives: the count now counts one of its receiver's.     *)
Message(s) ==
  /\ conn[s].state = "open"
  /\ unread' = conn[s].for
  /\ UNCHANGED <<user, loading, hint, socket, timer, conn, calls, session, upset>>

(* External: the handshake succeeds, for the user of the cookie.           *)
Open(s) ==
  /\ conn[s].state = "connecting" /\ session # NoUser
  /\ conn' = [conn EXCEPT ![s] = [state |-> "open", for |-> session]]
  /\ UNCHANGED <<page, calls, session, upset>>

(* External: the server or the network ends a connection, or refuses it.   *)
Drop(s) ==
  /\ conn[s].state \in {"connecting", "open"}
  /\ conn' = [conn EXCEPT ![s].state = "closing"]
  /\ UNCHANGED <<page, calls, session, upset>>

-----------------------------------------------------------------------------
(* What a reply does to the session of the page.                           *)

(* sign_in: show u, remember it, ask for the unread count, connect.        *)
SignIn(c, u) ==
  /\ user' = u /\ hint' = TRUE
  /\ calls' = [calls EXCEPT ![c] = Sent("unread", NoUser)]
  /\ Connect(u)
  /\ UNCHANGED <<unread, timer>>

FaultyClearSession(c) ==
  /\ user' = NoUser /\ hint' = FALSE
  /\ Disconnect
  /\ Settle(c)
  /\ UNCHANGED unread

ClearSession(c) ==
  /\ user' = NoUser /\ hint' = FALSE /\ unread' = NoUser
  /\ Disconnect
  /\ Settle(c)

-----------------------------------------------------------------------------
(* loadCurrentUser, for trySignIn and flush.                               *)

(* The page is (re)loaded.  Nothing of the old one is left but hint; if it *)
(* is set, trySignIn asks who is signed in.  A request of the old page     *)
(* that the server has not worked on never reaches it.                     *)
Load ==
  /\ user' = NoUser /\ unread' = NoUser /\ socket' = NoSocket /\ timer' = FALSE
  /\ conn' = [s \in Sockets |-> Closed]
  /\ loading' = hint
  /\ IF hint
     THEN \E c \in Calls :
            calls' = [d \in Calls |-> IF d = c THEN Sent("profile", NoUser) ELSE NoCall]
     ELSE calls' = [c \in Calls |-> NoCall]
  /\ upset' = (upset \/ UnderWay(Moves))
  /\ UNCHANGED <<hint, session>>

(* After a picture was uploaded or a role changed.                         *)
FaultyFlush(c) ==
  /\ hint
  /\ Send(c, "profile", NoUser)
  /\ loading' = TRUE
  /\ UNCHANGED <<user, hint, unread, socket, timer, conn, session, upset>>

Flush(c) ==
  /\ ~loading /\ hint
  /\ Send(c, "profile", NoUser)
  /\ loading' = TRUE
  /\ UNCHANGED <<user, hint, unread, socket, timer, conn, session, upset>>

ProfileReply(c) ==
  /\ Replied(c) /\ calls[c].kind = "profile"
  /\ loading' = FALSE
  /\ IF calls[c].state = "error"
     THEN Settle(c) /\ UNCHANGED <<user, hint, unread, socket, timer, conn>>
     ELSE IF calls[c].for = NoUser          \* 401, or nobody
     THEN ClearSession(c)
     ELSE SignIn(c, calls[c].for)
  /\ Witness(c)
  /\ UNCHANGED session

-----------------------------------------------------------------------------
(* ensureCurrentUser of a route loader: it knows the hint, not the store.  *)

CheckUser(c) ==
  /\ hint
  /\ Send(c, "guard", NoUser)
  /\ UNCHANGED <<page, conn, session, upset>>

FaultyCheckReply(c) ==
  /\ Replied(c) /\ calls[c].kind = "guard"
  /\ hint' = (hint /\ calls[c].state = "ok" /\ calls[c].for # NoUser)
  /\ Settle(c)
  /\ Witness(c)
  /\ UNCHANGED <<user, loading, unread, socket, timer, conn, session>>

CheckReply(c) ==
  /\ Replied(c) /\ calls[c].kind = "guard"
  /\ hint' = (hint /\ (calls[c].state = "error" \/ calls[c].for # NoUser))
  /\ Settle(c)
  /\ Witness(c)
  /\ UNCHANGED <<user, loading, unread, socket, timer, conn, session>>

(* refreshNotifications, which sign_in starts.                             *)
UnreadReply(c) ==
  /\ Replied(c) /\ calls[c].kind = "unread"
  /\ unread' = IF calls[c].state = "error" \/ calls[c].for = NoUser
               THEN unread ELSE calls[c].for
  /\ Settle(c)
  /\ upset' = (upset \/ (calls[c].state = "ok" /\ calls[c].for # user))
  /\ UNCHANGED <<user, loading, hint, socket, timer, conn, session>>

-----------------------------------------------------------------------------
(* Signing in and out.  NotSignedIn shows the forms to nobody who is       *)
(* signed in, the header shows the sidebar to nobody else.  A form submits *)
(* once at a time, but the form of a page left and entered again is new.   *)

SubmitSignIn(c, kind, u) ==
  /\ user = NoUser
  /\ kind \in {"sign_in", "verify"}
  /\ Send(c, kind, u)
  /\ UNCHANGED <<page, conn, session, upset>>

SignInReply(c) ==
  /\ Replied(c) /\ calls[c].kind \in {"sign_in", "verify"}
  /\ IF calls[c].state = "error"
     THEN Settle(c) /\ UNCHANGED <<user, hint, unread, socket, timer, conn>>
     ELSE SignIn(c, calls[c].for)
  /\ Witness(c)
  /\ UNCHANGED <<loading, session>>

SubmitSignOut(c) ==
  /\ user # NoUser
  /\ Send(c, "sign_out", NoUser)
  /\ UNCHANGED <<page, conn, session, upset>>

(* An error reply clears the session of the page as well; only when there  *)
(* is no reply at all, everything stays.                                   *)
SignOutReply(c) ==
  /\ Replied(c) /\ calls[c].kind = "sign_out"
  /\ \/ /\ ClearSession(c)
        /\ upset' = (upset \/ Late(c) \/ calls[c].state = "error")
     \/ /\ calls[c].state = "error"
        /\ Settle(c)
        /\ UNCHANGED <<user, hint, unread, socket, timer, conn, upset>>
  /\ UNCHANGED <<loading, session>>

-----------------------------------------------------------------------------
(* External: the server and the network.                                   *)

(* sign_in refuses whoever has a session; verify_email does not look.      *)
Serve(c) ==
  /\ calls[c].kind # "none" /\ calls[c].state = "sent"
  /\ LET call == calls[c]
         Reply(u) == calls' = [calls EXCEPT ![c].state = "ok", ![c].for = u]
     IN \/ /\ call.kind \in {"profile", "guard", "unread"}
           /\ Reply(session)
           /\ UNCHANGED <<session, upset>>
        \/ /\ call.kind = "verify" \/ (call.kind = "sign_in" /\ session = NoUser)
           /\ Reply(call.for)
           /\ session' = call.for
           /\ upset' = (upset \/ {session, user} \ {NoUser, call.for} # {})
        \/ /\ call.kind = "sign_out"
           /\ Reply(NoUser)
           /\ session' = NoUser
           /\ UNCHANGED upset
  /\ UNCHANGED <<page, conn>>

(* An error instead: a refusal, a failure, or the reply that is lost after *)
(* the work was done.                                                      *)
Fail(c) ==
  /\ calls[c].kind # "none" /\ calls[c].state # "error"
  /\ calls' = [calls EXCEPT ![c].state = "error"]
  /\ upset' = (upset \/ (calls[c].kind \in Moves /\ calls[c].state = "ok"))
  /\ UNCHANGED <<page, conn, session>>

Expire ==
  /\ session # NoUser
  /\ session' = NoUser
  /\ upset' = TRUE
  /\ UNCHANGED <<page, conn, calls>>

-----------------------------------------------------------------------------
Next ==
  \/ Load \/ TimerFires \/ Expire
  \/ \E s \in Sockets : CloseEvent(s) \/ Message(s) \/ Open(s) \/ Drop(s)
  \/ \E c \in Calls :
       \/ Flush(c) \/ ProfileReply(c) \/ CheckUser(c) \/ CheckReply(c)
       \/ UnreadReply(c) \/ SignInReply(c) \/ SubmitSignOut(c) \/ SignOutReply(c)
       \/ \E kind \in {"sign_in", "verify"}, u \in Users : SubmitSignIn(c, kind, u)
       \/ Serve(c) \/ Fail(c)

Spec == Init /\ [][Next]_vars

-----------------------------------------------------------------------------
(* Properties.                                                             *)

(* Reconnecting, signing in and signing out in any order, no WebSocket is  *)
(* live behind the back of the store: it holds the one there is, and none  *)
(* outlives the sign-out.  A timer left over would bring it back.          *)
SocketOwned ==
  /\ \A s \in Sockets : Live(s) => s = socket
  /\ user = NoUser => ~timer /\ socket = NoSocket

(* Whoever is shown as signed in gets notifications or will reconnect: the *)
(* socket is live, or its close event is due, or the timer is armed.  The  *)
(* handlers drop events they take for superfluous; none may be the last.   *)
NeverStranded ==
  user # NoUser => timer \/ (socket # NoSocket /\ conn[socket].state # "closed")

(* trySignIn and flush keep to one profile request at a time, and loading  *)
(* (which hides guarded pages) ends with it.                               *)
OneLoad ==
  /\ loading <=> UnderWay({"profile"})
  /\ \A c, d \in Calls : calls[c].kind = "profile" /\ calls[d].kind = "profile" => c = d

(* Unless a mishap parted them, page and server agree: nobody is shown but *)
(* the user of the session, and once the reply to a sign-in or sign-out is *)
(* in, the hint that decides about loading tells if there is a session.    *)
Agreement ==
  ~upset =>
    /\ user = NoUser \/ session \in {NoUser, user}
    /\ (\A c \in Calls : calls[c].kind \in Moves => calls[c].state # "ok") =>
         /\ hint <=> session # NoUser
         /\ user \in {NoUser, session}

(* Unless a mishap parted them, the unread count is that of the user who   *)
(* is shown: nothing of it stays for the next one to sign in.              *)
BadgeOwn ==
  ~upset =>
    /\ unread \in {NoUser, user}
    /\ \A s \in Sockets : conn[s].state = "open" => conn[s].for = user

(* A sign-in is for somebody, a sign-out for nobody.                       *)
CallsFit ==
  \A c \in Calls : /\ calls[c].kind \in {"sign_in", "verify"} => calls[c].for \in Users
                   /\ calls[c].kind = "sign_out" => calls[c].for = NoUser

(* The inductive invariant.                                                *)
SessionInv ==
  /\ SessionTypeOK /\ CallsFit
  /\ SocketOwned /\ NeverStranded /\ OneLoad /\ Agreement /\ BadgeOwn
=============================================================================

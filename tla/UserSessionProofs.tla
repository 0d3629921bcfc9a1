-------------------------- MODULE UserSessionProofs --------------------------
(* Proofs about UserSession, for every value of its constants.             *)
EXTENDS UserSession, TLAPS

-----------------------------------------------------------------------------
(* The socket.                                                             *)

(* After Connect the store holds the one live socket; no socket has opened *)
(* or changed hands.                                                       *)
LEMMA Connecting ==
  ASSUME SessionTypeOK, SocketOwned, NEW u \in Users, Connect(u)
  PROVE  /\ socket' \in Sockets /\ conn' \in [Sockets -> Conn]
         /\ conn'[socket'].state # "closed"
         /\ \A s \in Sockets : conn'[s].state \in {"connecting", "open"} => s = socket'
         /\ \A s \in Sockets : conn'[s].state = "open" => conn'[s] = conn[s]
<1>1. CASE Live(socket)
  BY <1>1, SessionAssumption DEF SessionTypeOK, SocketOwned, Connect, Live, Conn
<1>2. CASE ~Live(socket)
  <2>1. PICK s \in Sockets :
          /\ conn[s].state = "closed" /\ socket' = s
          /\ conn' = [conn EXCEPT ![s] = [state |-> "connecting", for |-> NoUser]]
    BY <1>2, SessionAssumption DEF Connect
  <2>2. \A t \in Sockets : ~Live(t)
    BY <1>2 DEF SocketOwned
  <2>3. [state |-> "connecting", for |-> NoUser] \in Conn
    BY DEF Conn, MaybeUser
  <2> QED
    BY <2>1, <2>2, <2>3, SessionAssumption DEF SessionTypeOK, Live
<1> QED
  BY <1>1, <1>2

(* After Disconnect none is live.                                          *)
LEMMA Disconnecting ==
  ASSUME SessionTypeOK, SocketOwned, Disconnect
  PROVE  /\ ~timer' /\ timer' \in BOOLEAN
         /\ socket' = NoSocket /\ conn' \in [Sockets -> Conn]
         /\ \A s \in Sockets : conn'[s].state \notin {"connecting", "open"}
<1>1. \A s \in Sockets : conn[s] \in Conn
  BY DEF SessionTypeOK
<1>2. \A s \in Sockets : /\ [conn[s] EXCEPT !.state = "closing"] \in Conn
                           /\ [conn[s] EXCEPT !.state = "closing"].state = "closing"
  BY <1>1 DEF Conn
<1>3. \A s \in Sockets : ~Live(s) => conn[s].state \notin {"connecting", "open"}
  BY SessionAssumption DEF Live
<1>4. \A s \in Sockets : conn'[s] = IF s = socket /\ Live(s)
                                    THEN [conn[s] EXCEPT !.state = "closing"] ELSE conn[s]
  BY DEF Disconnect
<1>5. \A s \in Sockets : Live(s) => s = socket
  BY DEF SocketOwned
<1>6. conn' \in [Sockets -> Conn]
  BY <1>1, <1>2 DEF Disconnect
<1>7. \A s \in Sockets : conn'[s].state \notin {"connecting", "open"}
  BY <1>2, <1>3, <1>4, <1>5
<1> QED
  BY <1>6, <1>7 DEF Disconnect

-----------------------------------------------------------------------------
(* Requests.                                                               *)

LEMMA CallTyped ==
  ASSUME SessionTypeOK, NEW c \in Calls
  PROVE  /\ calls[c] \in Call \union {NoCall}
         /\ calls[c].state \in {"sent", "ok", "error"} /\ calls[c].for \in MaybeUser
         /\ calls[c].kind = "none" <=> calls[c] = NoCall
         /\ NoCall.kind = "none" /\ NoCall.state = "sent"
<1>1. calls[c] \in Call \union {NoCall}
  BY DEF SessionTypeOK
<1>2. NoCall.kind = "none" /\ NoCall.state = "sent" /\ NoCall.for = NoUser
  BY DEF NoCall
<1>3. CASE calls[c] = NoCall
  BY <1>2, <1>3 DEF MaybeUser
<1>4. CASE calls[c] \in Call
  <2>1. calls[c].kind # "none"
    BY <1>4 DEF Call, Kinds
  <2> QED
    BY <1>2, <1>4, <2>1 DEF Call
<1> QED
  BY <1>1, <1>3, <1>4

LEMMA SentTyped ==
  ASSUME NEW kind \in Kinds, NEW u \in MaybeUser
  PROVE  /\ Sent(kind, u) \in Call
         /\ Sent(kind, u).kind = kind /\ Sent(kind, u).state = "sent"
         /\ Sent(kind, u).for = u
BY DEF Sent, Call

(* Every handler of a reply leaves its slot empty, or asks for the count.  *)
LEMMA Handled ==
  ASSUME SessionTypeOK, OneLoad, NEW c \in Calls,
         Settle(c) \/ calls' = [calls EXCEPT ![c] = Sent("unread", NoUser)]
  PROVE  /\ calls' \in [Calls -> Call \union {NoCall}]
         /\ calls'[c].kind \in {"none", "unread"}
         /\ \A d \in Calls \ {c} : calls'[d] = calls[d]
         /\ \A d \in Calls : calls'[d].kind \in Moves => calls'[d] = calls[d]
         /\ UnderWay({"profile"})' <=> UnderWay({"profile"}) /\ calls[c].kind # "profile"
         /\ \A d, e \in Calls :
              calls'[d].kind = "profile" /\ calls'[e].kind = "profile" => d = e
<1>1. Sent("unread", NoUser) \in Call /\ Sent("unread", NoUser).kind = "unread"
  BY SentTyped DEF Kinds, MaybeUser
<1>2. /\ calls' \in [Calls -> Call \union {NoCall}]
      /\ calls'[c].kind \in {"none", "unread"}
      /\ \A d \in Calls \ {c} : calls'[d] = calls[d]
  BY <1>1, CallTyped DEF Settle, SessionTypeOK
<1> QED
  BY <1>2 DEF OneLoad, UnderWay, Moves

LEMMA SendingAny ==
  ASSUME SessionTypeOK, NEW c \in Calls, NEW kind \in Kinds, NEW u \in MaybeUser,
         Send(c, kind, u)
  PROVE  /\ calls' \in [Calls -> Call \union {NoCall}]
         /\ calls[c].kind = "none"
         /\ calls'[c].kind = kind /\ calls'[c].state = "sent" /\ calls'[c].for = u
         /\ \A d \in Calls \ {c} : calls'[d] = calls[d]
BY SentTyped, CallTyped DEF Send, SessionTypeOK

-----------------------------------------------------------------------------
LEMMA SessionInitial == Init => SessionInv
<1> SUFFICES ASSUME Init PROVE SessionInv
  OBVIOUS
<1>1. SessionTypeOK
  BY DEF Init, SessionTypeOK, MaybeUser, Conn, Closed
<1>2. \A c \in Calls : calls[c].kind = "none"
  BY DEF Init, NoCall
<1>3. OneLoad /\ CallsFit
  BY <1>2 DEF Init, OneLoad, CallsFit, UnderWay
<1>4. SocketOwned /\ NeverStranded /\ Agreement /\ BadgeOwn
  BY DEF Init, SocketOwned, NeverStranded, Agreement, BadgeOwn, Live, Closed
<1> QED
  BY <1>1, <1>3, <1>4 DEF SessionInv

(* sign_in with the user of the session.                                   *)
LEMMA SigningIn ==
  ASSUME SessionInv, NEW c \in Calls, NEW u \in Users, SignIn(c, u),
         calls[c].state = "ok", calls[c].for = u,
         upset' = (upset \/ Late(c)), session' = session,
         loading' = (loading /\ calls[c].kind # "profile")
  PROVE  SessionInv'
<1> USE SessionAssumption DEF SessionInv
<1>1. calls' = [calls EXCEPT ![c] = Sent("unread", NoUser)]
  BY DEF SignIn
<1>2. user' = u /\ hint' = TRUE /\ unread' = unread /\ timer' = timer /\ Connect(u)
  BY DEF SignIn
<1>3. SessionTypeOK'
  BY <1>1, <1>2, Connecting, Handled DEF SessionTypeOK, MaybeUser
<1>4. SocketOwned' /\ NeverStranded'
  BY <1>2, Connecting DEF SocketOwned, NeverStranded, Live
<1>5. OneLoad' /\ CallsFit'
  BY <1>1, Handled DEF OneLoad, CallsFit, UnderWay
<1>6. ~upset' => ~upset /\ u = session
  BY DEF Late
<1>7. Agreement'
  BY <1>2, <1>6 DEF Agreement
<1>8. BadgeOwn'
  <2>1. SUFFICES ASSUME ~upset' PROVE BadgeOwn'
    BY DEF BadgeOwn
  <2>2. user \in {NoUser, u}
    BY <1>6, <2>1 DEF Agreement
  <2>3. \A s \in Sockets : conn[s].state = "open" => user # NoUser
    BY DEF SocketOwned, Live
  <2> QED
    BY <1>2, <1>6, <2>1, <2>2, <2>3, Connecting DEF BadgeOwn
<1> QED
  BY <1>3, <1>4, <1>5, <1>7, <1>8

(* clearSession, on a reply or an error.                                   *)
LEMMA Clearing ==
  ASSUME SessionInv, NEW c \in Calls, ClearSession(c),
         upset' = (upset \/ Late(c) \/ calls[c].state = "error"), session' = session,
         Replied(c), calls[c].state = "ok" => calls[c].for = NoUser,
         loading' = (loading /\ calls[c].kind # "profile")
  PROVE  SessionInv'
<1> USE SessionAssumption DEF SessionInv
<1>1. user' = NoUser /\ hint' = FALSE /\ unread' = NoUser /\ Disconnect /\ Settle(c)
  BY DEF ClearSession
<1>2. SessionTypeOK'
  BY <1>1, Disconnecting, Handled DEF SessionTypeOK, MaybeUser
<1>3. SocketOwned' /\ NeverStranded' 
  BY <1>1, Disconnecting DEF SocketOwned, NeverStranded, Live
<1>4. OneLoad' /\ CallsFit'
  BY <1>1, Handled DEF OneLoad, CallsFit, UnderWay
<1>5. ~upset' => session = NoUser
  BY CallTyped DEF Late, Replied
<1>6. Agreement' /\ BadgeOwn'
  BY <1>1, <1>5, Disconnecting DEF Agreement, BadgeOwn
<1> QED
  BY <1>2, <1>3, <1>4, <1>6

(* A reply that only settles: nothing about the session of the page.       *)
LEMMA Settling ==
  ASSUME SessionInv, NEW c \in Calls, Settle(c), Replied(c),
         upset => upset', upset' \in BOOLEAN,
         UNCHANGED <<user, hint, unread, socket, timer, conn, session>>,
         loading' = (loading /\ calls[c].kind # "profile"),
         calls[c].kind \in Moves => calls[c].state = "error" \/ upset'
  PROVE  SessionInv'
<1> USE DEF SessionInv
<1>1. SessionTypeOK'
  BY Handled DEF SessionTypeOK
<1>2. SocketOwned' /\ NeverStranded'
  BY DEF SocketOwned, NeverStranded, Live
<1>3. OneLoad' /\ CallsFit'
  BY Handled DEF OneLoad, CallsFit, UnderWay
<1>4. calls'[c].kind \in {"none", "unread"} /\ \A d \in Calls \ {c} : calls'[d] = calls[d]
  BY Handled
<1>5. Agreement'
  BY <1>4 DEF Agreement, Moves
<1>6. BadgeOwn'
  BY DEF BadgeOwn
<1> QED
  BY <1>1, <1>2, <1>3, <1>5, <1>6

(* Sending anything but a profile request.                                 *)
LEMMA Sending ==
  ASSUME SessionInv, NEW c \in Calls, NEW kind \in Kinds \ {"profile"},
         NEW u \in MaybeUser, Send(c, kind, u),
         kind \in {"sign_in", "verify"} => u \in Users, kind = "sign_out" => u = NoUser,
         UNCHANGED <<page, conn, session, upset>>
  PROVE  SessionInv'
<1> USE DEF SessionInv, page
<1>1. /\ calls' \in [Calls -> Call \union {NoCall}]
      /\ calls[c].kind = "none" /\ calls'[c].kind = kind /\ calls'[c].state = "sent"
      /\ calls'[c].for = u
      /\ \A d \in Calls \ {c} : calls'[d] = calls[d]
  BY SendingAny
<1>2. SessionTypeOK' /\ SocketOwned' /\ NeverStranded' /\ BadgeOwn'
  BY <1>1 DEF SessionTypeOK, SocketOwned, NeverStranded, BadgeOwn, Live
<1>3. OneLoad' /\ CallsFit'
  BY <1>1 DEF OneLoad, CallsFit, UnderWay
<1>4. Agreement'
  BY <1>1 DEF Agreement, Moves
<1> QED
  BY <1>2, <1>3, <1>4

LEMMA Flushing ==
  ASSUME SessionInv, NEW c \in Calls, Flush(c)
  PROVE  SessionInv'
<1> USE DEF SessionInv, Flush
<1>1. /\ calls' \in [Calls -> Call \union {NoCall}]
      /\ calls[c].kind = "none" /\ calls'[c].kind = "profile" /\ calls'[c].state = "sent"
      /\ \A d \in Calls \ {c} : calls'[d] = calls[d]
  BY SendingAny DEF Kinds, MaybeUser
<1>2. SessionTypeOK' /\ SocketOwned' /\ NeverStranded' /\ BadgeOwn'
  BY <1>1 DEF SessionTypeOK, SocketOwned, NeverStranded, BadgeOwn, Live
<1>3. OneLoad' /\ CallsFit'
  BY <1>1 DEF OneLoad, CallsFit, UnderWay
<1>4. Agreement'
  BY <1>1 DEF Agreement, Moves
<1> QED
  BY <1>2, <1>3, <1>4

(* A new page starts with no socket and no timer.                          *)
LEMMA Loading ==
  ASSUME SessionInv, Load
  PROVE  SessionInv'
<1> USE SessionAssumption DEF SessionInv, Load
<1>1. \A s \in Sockets : conn'[s] = Closed /\ conn'[s].state = "closed"
  BY DEF Closed
<1>2. Closed \in Conn /\ Sent("profile", NoUser) \in Call
  BY SentTyped DEF Closed, Conn, MaybeUser, Kinds
<1>3. \/ /\ hint
         /\ \E c \in Calls :
              calls' = [d \in Calls |-> IF d = c THEN Sent("profile", NoUser) ELSE NoCall]
      \/ /\ ~hint
         /\ calls' = [c \in Calls |-> NoCall]
  OBVIOUS
<1>4. SessionTypeOK'
  <2>1. calls' \in [Calls -> Call \union {NoCall}]
    BY <1>2, <1>3
  <2>2. conn' \in [Sockets -> Conn]
    BY <1>2
  <2> QED
    BY <2>1, <2>2 DEF SessionTypeOK, MaybeUser
<1>5. SocketOwned' /\ NeverStranded' /\ BadgeOwn'
  BY <1>1 DEF SocketOwned, NeverStranded, BadgeOwn, Live
<1>6. \A c \in Calls : calls'[c].kind \in {"none", "profile"}
  BY <1>3 DEF Sent, NoCall
<1>7. OneLoad'
  <2>1. CASE hint
    BY <1>3, <2>1 DEF OneLoad, UnderWay, Sent, NoCall
  <2>2. CASE ~hint
    BY <1>3, <2>2 DEF OneLoad, UnderWay, NoCall
  <2> QED
    BY <2>1, <2>2
<1>8. Agreement'
  BY <1>6 DEF Agreement, Moves, UnderWay
<1>9. CallsFit'
  BY <1>6 DEF CallsFit
<1> QED
  BY <1>4, <1>5, <1>7, <1>8, <1>9

-----------------------------------------------------------------------------
(* Events of a socket.                                                     *)

LEMMA ConnTyped ==
  ASSUME SessionTypeOK, NEW s \in Sockets
  PROVE  /\ conn[s] \in Conn
         /\ \A st \in {"closing", "open"}, u \in MaybeUser :
              [state |-> st, for |-> u] \in Conn
         /\ [conn[s] EXCEPT !.state = "closing"] \in Conn
         /\ [conn[s] EXCEPT !.state = "closing"].state = "closing"
         /\ Closed \in Conn /\ Closed.state = "closed"
<1>1. conn[s] \in Conn
  BY DEF SessionTypeOK
<1> QED
  BY <1>1 DEF Conn, Closed, MaybeUser

LEMMA Closes ==
  ASSUME SessionInv, NEW s \in Sockets, CloseEvent(s)
  PROVE  SessionInv'
<1> USE SessionAssumption DEF SessionInv, CloseEvent
<1>1. /\ conn' \in [Sockets -> Conn] /\ conn'[s].state = "closed"
      /\ \A t \in Sockets \ {s} : conn'[t] = conn[t]
  BY ConnTyped DEF SessionTypeOK
<1>2. SessionTypeOK'
  BY <1>1 DEF SessionTypeOK
<1>3. SocketOwned'
  BY <1>1 DEF SocketOwned, Live
<1>4. NeverStranded' /\ BadgeOwn'
  BY <1>1 DEF NeverStranded, BadgeOwn
<1>5. OneLoad' /\ Agreement' /\ CallsFit'
  BY DEF OneLoad, CallsFit, Agreement, UnderWay
<1> QED
  BY <1>2, <1>3, <1>4, <1>5

LEMMA Fires ==
  ASSUME SessionInv, TimerFires
  PROVE  SessionInv'
<1> USE SessionAssumption DEF SessionInv, TimerFires
<1>1. user \in Users
  BY DEF SocketOwned, SessionTypeOK, MaybeUser
<1>2. Connect(user)
  OBVIOUS
<1>3. SessionTypeOK'
  BY <1>1, <1>2, Connecting DEF SessionTypeOK
<1>4. SocketOwned' /\ NeverStranded' /\ BadgeOwn'
  BY <1>1, <1>2, Connecting DEF SocketOwned, NeverStranded, BadgeOwn, Live
<1>5. OneLoad' /\ Agreement' /\ CallsFit'
  BY DEF OneLoad, CallsFit, Agreement, UnderWay
<1> QED
  BY <1>3, <1>4, <1>5

LEMMA Receives ==
  ASSUME SessionInv, NEW s \in Sockets, Message(s)
  PROVE  SessionInv'
<1> USE DEF SessionInv, Message
<1>1. conn[s].for \in MaybeUser
  BY ConnTyped DEF Conn
<1>2. SessionTypeOK' /\ SocketOwned' /\ NeverStranded' /\ BadgeOwn'
  BY <1>1 DEF SessionTypeOK, SocketOwned, NeverStranded, BadgeOwn, Live
<1>3. OneLoad' /\ Agreement' /\ CallsFit'
  BY DEF OneLoad, CallsFit, Agreement, UnderWay
<1> QED
  BY <1>2, <1>3

(* The handshake is made for the user of the session; whoever is shown is  *)
(* the same, or there was a mishap.                                        *)
LEMMA Opens ==
  ASSUME SessionInv, NEW s \in Sockets, Open(s)
  PROVE  SessionInv'
<1> USE SessionAssumption DEF SessionInv, Open, page
<1>1. session \in MaybeUser
  BY DEF SessionTypeOK
<1>2. /\ conn' \in [Sockets -> Conn]
      /\ conn'[s].state = "open" /\ conn'[s].for = session
      /\ \A t \in Sockets \ {s} : conn'[t] = conn[t]
  BY <1>1, ConnTyped DEF SessionTypeOK
<1>3. SessionTypeOK'
  BY <1>2 DEF SessionTypeOK
<1>4. SocketOwned' /\ NeverStranded'
  BY <1>2 DEF SocketOwned, NeverStranded, Live
<1>5. user # NoUser
  BY DEF SocketOwned, Live
<1>6. BadgeOwn'
  BY <1>2, <1>5 DEF BadgeOwn, Agreement
<1>7. OneLoad' /\ Agreement' /\ CallsFit'
  BY DEF OneLoad, CallsFit, Agreement, UnderWay
<1> QED
  BY <1>3, <1>4, <1>6, <1>7

LEMMA Drops ==
  ASSUME SessionInv, NEW s \in Sockets, Drop(s)
  PROVE  SessionInv'
<1> USE DEF SessionInv, Drop, page
<1>1. /\ conn' \in [Sockets -> Conn] /\ conn'[s].state = "closing"
      /\ \A t \in Sockets \ {s} : conn'[t] = conn[t]
  BY ConnTyped DEF SessionTypeOK
<1>2. SessionTypeOK' /\ SocketOwned' /\ NeverStranded' /\ BadgeOwn'
  BY <1>1 DEF SessionTypeOK, SocketOwned, NeverStranded, BadgeOwn, Live
<1>3. OneLoad' /\ Agreement' /\ CallsFit'
  BY DEF OneLoad, CallsFit, Agreement, UnderWay
<1> QED
  BY <1>2, <1>3

-----------------------------------------------------------------------------
(* The server.                                                             *)

LEMMA Served ==
  ASSUME SessionInv, NEW c \in Calls, Serve(c)
  PROVE  SessionInv'
<1> USE SessionAssumption DEF SessionInv, page
<1>1. calls[c] \in Call /\ calls[c].kind \in Kinds /\ calls[c].for \in MaybeUser
  BY CallTyped DEF Serve, Call
<1>2. PICK u \in MaybeUser :
        /\ calls' = [calls EXCEPT ![c].state = "ok", ![c].for = u]
        /\ \/ /\ calls[c].kind \in {"profile", "guard", "unread"}
              /\ UNCHANGED <<session, upset>>
           \/ /\ calls[c].kind \in {"sign_in", "verify"} /\ session' = u /\ u \in Users
              /\ upset' = (upset \/ {session, user} \ {NoUser, u} # {})
           \/ /\ calls[c].kind = "sign_out" /\ session' = NoUser
              /\ u = NoUser /\ UNCHANGED upset
  BY <1>1 DEF Serve, CallsFit, SessionTypeOK, MaybeUser
<1>3. UNCHANGED <<page, conn>>
  BY DEF Serve
<1>4. /\ calls'[c] \in Call /\ calls'[c].kind = calls[c].kind
      /\ calls'[c].state = "ok" /\ calls'[c].for = u
      /\ \A d \in Calls \ {c} : calls'[d] = calls[d]
      /\ calls' \in [Calls -> Call \union {NoCall}]
  <2> DEFINE q == [calls[c] EXCEPT !.state = "ok", !.for = u]
  <2>1. q \in Call /\ q.kind = calls[c].kind /\ q.state = "ok" /\ q.for = u
    BY <1>1 DEF Call
  <2>2. calls' = [calls EXCEPT ![c] = q]
    BY <1>2
  <2> QED
    BY <2>1, <2>2 DEF SessionTypeOK
<1>5. SessionTypeOK'
  BY <1>2, <1>3, <1>4 DEF SessionTypeOK, MaybeUser
<1>6. SocketOwned' /\ NeverStranded'
  BY <1>3 DEF SocketOwned, NeverStranded, Live
<1>7. OneLoad'
  BY <1>3, <1>4 DEF OneLoad, UnderWay
<1>8. CallsFit'
  BY <1>2, <1>4 DEF CallsFit
<1>9. BadgeOwn'
  BY <1>2, <1>3 DEF BadgeOwn
<1>10. Agreement'
  <2>1. CASE calls[c].kind \in {"profile", "guard", "unread"}
    BY <1>2, <1>3, <1>4, <2>1 DEF Agreement, Moves
  <2>2. CASE calls[c].kind \in {"sign_in", "verify"}
    <3>1. ~upset' => user \in {NoUser, u}
      BY <1>2, <2>2
    <3> QED
      BY <1>2, <1>3, <1>4, <2>2, <3>1 DEF Agreement, Moves
  <2>3. CASE calls[c].kind = "sign_out"
    BY <1>2, <1>3, <1>4, <2>3 DEF Agreement, Moves
  <2> QED
    BY <1>2, <2>1, <2>2, <2>3
<1> QED
  BY <1>5, <1>6, <1>7, <1>8, <1>9, <1>10

LEMMA Fails ==
  ASSUME SessionInv, NEW c \in Calls, Fail(c)
  PROVE  SessionInv'
<1> USE DEF SessionInv, Fail, page
<1>1. calls[c] \in Call
  BY CallTyped
<1>2. /\ calls'[c].kind = calls[c].kind /\ calls'[c].state = "error"
      /\ \A d \in Calls \ {c} : calls'[d] = calls[d]
      /\ calls' \in [Calls -> Call \union {NoCall}]
  BY <1>1 DEF SessionTypeOK, Call
<1>3. SessionTypeOK' /\ SocketOwned' /\ NeverStranded' /\ BadgeOwn'
  BY <1>2 DEF SessionTypeOK, SocketOwned, NeverStranded, BadgeOwn, Live
<1>4. OneLoad' /\ CallsFit'
  BY <1>2 DEF OneLoad, CallsFit, UnderWay
<1>5. Agreement'
  BY <1>2 DEF Agreement
<1> QED
  BY <1>3, <1>4, <1>5

-----------------------------------------------------------------------------
(* The replies.                                                            *)

LEMMA ProfileReplied ==
  ASSUME SessionInv, NEW c \in Calls, ProfileReply(c)
  PROVE  SessionInv'
<1> USE DEF ProfileReply, Witness
<1>1. calls[c].state \in {"ok", "error"} /\ calls[c].for \in MaybeUser
  BY CallTyped DEF SessionInv, Replied
<1>2. CASE calls[c].state = "error"
  BY <1>2, Settling DEF Moves, Late, SessionInv, SessionTypeOK
<1>3. CASE calls[c].state = "ok" /\ calls[c].for = NoUser
  BY <1>3, Clearing
<1>4. CASE calls[c].state = "ok" /\ calls[c].for # NoUser
  BY <1>1, <1>4, SigningIn DEF MaybeUser
<1> QED
  BY <1>1, <1>2, <1>3, <1>4

LEMMA SignInReplied ==
  ASSUME SessionInv, NEW c \in Calls, SignInReply(c)
  PROVE  SessionInv'
<1> USE DEF SignInReply, Witness
<1>1. calls[c].state \in {"ok", "error"} /\ calls[c].for \in MaybeUser
  BY CallTyped DEF SessionInv, Replied
<1>2. loading' = (loading /\ calls[c].kind # "profile")
  BY DEF SessionInv, SessionTypeOK
<1>3. CASE calls[c].state = "error"
  BY <1>2, <1>3, Settling DEF Moves, Late, SessionInv, SessionTypeOK
<1>4. CASE calls[c].state = "ok"
  <2>1. calls[c].for \in Users
    BY DEF SessionInv, CallsFit
  <2> QED
    BY <1>2, <1>4, <2>1, SigningIn
<1> QED
  BY <1>1, <1>3, <1>4

LEMMA SignOutReplied ==
  ASSUME SessionInv, NEW c \in Calls, SignOutReply(c)
  PROVE  SessionInv'
<1> USE DEF SignOutReply
<1>1. calls[c].state \in {"ok", "error"}
  BY CallTyped DEF SessionInv, Replied
<1>2. loading' = (loading /\ calls[c].kind # "profile")
  BY DEF SessionInv, SessionTypeOK
<1>3. CASE /\ ClearSession(c)
           /\ upset' = (upset \/ Late(c) \/ calls[c].state = "error")
  <2>1. calls[c].for = NoUser
    BY DEF SessionInv, CallsFit
  <2> QED
    BY <1>2, <1>3, <2>1, Clearing
<1>4. CASE /\ calls[c].state = "error" /\ Settle(c)
           /\ UNCHANGED <<user, hint, unread, socket, timer, conn, upset>>
  BY <1>2, <1>4, Settling DEF SessionInv, SessionTypeOK
<1> QED
  BY <1>3, <1>4, Zenon

LEMMA CheckReplied ==
  ASSUME SessionInv, NEW c \in Calls, CheckReply(c)
  PROVE  SessionInv'
<1> USE DEF SessionInv, CheckReply, Witness
<1>1. Settle(c) /\ calls[c].kind = "guard" /\ calls[c].state \in {"ok", "error"}
  BY CallTyped DEF Replied
<1>2. SessionTypeOK'
  BY <1>1, Handled DEF SessionTypeOK
<1>3. SocketOwned' /\ NeverStranded' /\ BadgeOwn'
  BY DEF SocketOwned, NeverStranded, BadgeOwn, Live
<1>4. OneLoad' /\ CallsFit'
  BY <1>1, Handled DEF OneLoad, CallsFit, UnderWay
<1>5. \A d \in Calls : calls[d].kind \in Moves => calls'[d] = calls[d]
  BY <1>1 DEF Settle, Moves, SessionTypeOK
<1>6. ~upset' => ~upset /\ (hint' # hint => session = NoUser)
  BY <1>1 DEF Late, SessionTypeOK
<1>7. Agreement'
  <2>1. CASE hint' = hint
    BY <1>5, <1>6, <2>1 DEF Agreement
  <2>2. CASE hint' # hint
    BY <1>5, <1>6, <2>2 DEF Agreement, SessionTypeOK
  <2> QED
    BY <2>1, <2>2
<1> QED
  BY <1>2, <1>3, <1>4, <1>7

LEMMA UnreadReplied ==
  ASSUME SessionInv, NEW c \in Calls, UnreadReply(c)
  PROVE  SessionInv'
<1> USE DEF SessionInv, UnreadReply
<1>1. Settle(c) /\ calls[c].kind = "unread" /\ calls[c].for \in MaybeUser
  BY CallTyped
<1>2. SessionTypeOK'
  BY <1>1, Handled DEF SessionTypeOK
<1>3. SocketOwned' /\ NeverStranded'
  BY DEF SocketOwned, NeverStranded, Live
<1>4. OneLoad' /\ CallsFit'
  BY <1>1, Handled DEF OneLoad, CallsFit, UnderWay
<1>5. \A d \in Calls : calls[d].kind \in Moves => calls'[d] = calls[d]
  BY <1>1 DEF Settle, Moves, SessionTypeOK
<1>6. Agreement'
  BY <1>5 DEF Agreement
<1>7. BadgeOwn'
  BY CallTyped DEF BadgeOwn, Replied
<1> QED
  BY <1>2, <1>3, <1>4, <1>6, <1>7

-----------------------------------------------------------------------------
(* Every step keeps the invariant.                                         *)
LEMMA SessionStep ==
  ASSUME SessionInv, [Next]_vars
  PROVE  SessionInv'
<1>1. CASE Load
  BY <1>1, Loading
<1>2. CASE TimerFires
  BY <1>2, Fires
<1>3. CASE Expire
  BY <1>3 DEF Expire, page, SessionInv, SessionTypeOK, CallsFit, SocketOwned, NeverStranded,
              OneLoad, Agreement, BadgeOwn, MaybeUser, UnderWay, Live
<1>4. ASSUME NEW s \in Sockets, CloseEvent(s) \/ Message(s) \/ Open(s) \/ Drop(s)
      PROVE  SessionInv'
  BY <1>4, Closes, Receives, Opens, Drops
<1>5. ASSUME NEW c \in Calls, Flush(c) \/ CheckUser(c) \/ SubmitSignOut(c)
      PROVE  SessionInv'
  BY <1>5, Flushing, Sending DEF CheckUser, SubmitSignOut, Kinds, MaybeUser
<1>6. ASSUME NEW c \in Calls, NEW kind \in {"sign_in", "verify"}, NEW u \in Users,
             SubmitSignIn(c, kind, u)
      PROVE  SessionInv'
  BY <1>6, Sending DEF SubmitSignIn, Kinds, MaybeUser
<1>7. ASSUME NEW c \in Calls,
             ProfileReply(c) \/ CheckReply(c) \/ UnreadReply(c) \/ SignInReply(c)
               \/ SignOutReply(c)
      PROVE  SessionInv'
  BY <1>7, ProfileReplied, CheckReplied, UnreadReplied, SignInReplied, SignOutReplied
<1>8. ASSUME NEW c \in Calls, Serve(c) \/ Fail(c)
      PROVE  SessionInv'
  BY <1>8, Served, Fails
<1>9. CASE UNCHANGED vars
  BY <1>9 DEF vars, SessionInv, SessionTypeOK, CallsFit, SocketOwned, NeverStranded,
              OneLoad, Agreement, BadgeOwn, UnderWay, Live
<1> QED
  BY <1>1, <1>2, <1>3, <1>4, <1>5, <1>6, <1>7, <1>8, <1>9 DEF Next

(* The session of the page is always well-formed: UserStore's fields, its  *)
(* socket and its requests fit together, whatever the server answers.      *)
THEOREM SessionInvariance == Spec => []SessionInv
<1>1. SessionInv /\ [Next]_vars => SessionInv'
  BY SessionStep
<1> QED
  BY <1>1, SessionInitial, PTL DEF Spec

(* No WebSocket is live that the store does not hold (SocketOwned).        *)
THEOREM SocketsOwned == Spec => []SocketOwned
BY SessionInvariance, PTL DEF SessionInv

(* Whoever is shown as signed in is or will be connected (NeverStranded).  *)
THEOREM NobodyStranded == Spec => []NeverStranded
BY SessionInvariance, PTL DEF SessionInv

(* Page and server agree about who is signed in, but for the mishaps the   *)
(* history variable records (Agreement).                                   *)
THEOREM PageAgrees == Spec => []Agreement
BY SessionInvariance, PTL DEF SessionInv

(* The unread count is that of the user shown (BadgeOwn).                  *)
THEOREM BadgeIsOwn == Spec => []BadgeOwn
BY SessionInvariance, PTL DEF SessionInv
=============================================================================

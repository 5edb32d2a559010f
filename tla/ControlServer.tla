--------------------------- MODULE ControlServer ---------------------------
(***************************************************************************)
(* The connections of the control server: the uplink of the desktop in the *)
(* one slot there is for it, the browsers on it, and what the server keeps *)
(* of the wall for them.  Auth has the credentials they come in with.      *)
(*                                                                         *)
(* A handshake that needs a derivation waits for it; with a remembered     *)
(* credential it is over in one step.  A socket the server closes goes on  *)
(* delivering the peer's messages until the peer answers, or is cut off.   *)
(* The identity of a socket is used again once nothing refers to it.       *)
(***************************************************************************)
EXTENDS Auth

CONSTANTS
  Uplink, Client,   \* sockets of the desktop and of browsers
  NoUplink,
  Version,          \* what the desktop reports, apart from the tokens
  NoVersion,
  Edit              \* updates of the collaborative document

ASSUME NoUplinkAssumption == NoUplink \notin Uplink
ASSUME NoVersionAssumption == NoVersion \notin Version
ASSUME SocketAssumption == Uplink \cap Client = {}
ASSUME RoleAssumption == "admin" \in Role

VARIABLES
  sock,             \* none, open; closing: being closed, still heard; limited: no longer heard
  waiting,          \* the sockets whose handshake waits for a derivation
  cred,             \* the credential each presented
  slot,             \* currentStreamwallWs
  conn,             \* currentStreamwallConn, set by the first state of the uplink
  state, doc,       \* clientState and stateDoc of each uplink
  bound,            \* the streamwallConn each client's handlers have captured
  seen,             \* lastStateSent
  docSeen           \* the edits each client was sent or made itself

connVars == <<sock, waiting, cred, slot, conn, state, doc, bound, seen, docSeen>>
serverVars == <<authVars, connVars>>

Socket == Uplink \union Client
Editor == Role \intersect {"admin", "operator"}
NoState == [desktop |-> NoVersion, auth |-> {}]

\* auth.getState, for the tokens of S.
Listed(S) == {t \in S : info[t].kind # "streamwall"}

\* StateWrapper.view: only an admin is told of the tokens.
View(role, s) == [s EXCEPT !.auth = IF role = "admin" THEN @ ELSE {}]

RoleOf(c) == info[cred[c]].role
KeyOf(s) == <<IF s \in Client THEN "session" ELSE "streamwall", cred[s]>>
Registered == {c \in Client : sock[c] # "none"}
Heard == {c \in Client : sock[c] \in {"open", "closing"}}

ServerInit ==
  /\ AuthInit
  /\ sock = [s \in Socket |-> "none"]
  /\ waiting = {}
  /\ cred = [s \in Socket |-> NoToken]
  /\ slot = NoUplink /\ conn = NoUplink
  /\ state = [u \in Uplink |-> NoState] /\ doc = [u \in Uplink |-> {}]
  /\ bound = [c \in Client |-> NoUplink]
  /\ seen = [c \in Client |-> NoState] /\ docSeen = [c \in Client |-> {}]

-----------------------------------------------------------------------------
(* What the server does to its clients.                                    *)

\* Close the sockets of C; one that is not open stays as it is.
Closed(C) == [s \in Socket |-> IF s \in C /\ sock[s] = "open" THEN "closing" ELSE sock[s]]

\* broadcastStateDeltas of state s to the clients open in sk.
Broadcast(s, sk) ==
  seen' = [c \in Client |-> IF sk[c] = "open" THEN View(RoleOf(c), s) ELSE seen[c]]

\* The update event of a document: all clients but the one it came from, who has it.
FanOut(e, origin) ==
  docSeen' = [c \in Client |->
    IF sock[c] = "open" \/ c = origin THEN docSeen[c] \union {e} ELSE docSeen[c]]

-----------------------------------------------------------------------------
(* Handshakes.                                                             *)

\* Which of the sockets of W keep their credential cr: those let in.
Keep(in, W, cr) == [s \in Socket |-> IF s \in W \ in THEN NoToken ELSE cr[s]]

\* The handler of /client/ws for the clients of W, authenticated or not.
AdmitClients(W, sk, cr, authentic) ==
  LET admitted == IF authentic /\ conn # NoUplink THEN W ELSE {}
      role(c) == info[cr[c]].role
  IN  /\ sock' = [s \in Socket |-> IF s \in admitted THEN "open" ELSE sk[s]]
      /\ cred' = Keep(admitted, W, cr)
      /\ bound' = [c \in Client |-> IF c \in admitted THEN conn ELSE bound[c]]
      /\ seen' = [c \in Client |-> IF c \in admitted THEN View(role(c), state[conn]) ELSE seen[c]]
      /\ docSeen' = [c \in Client |-> IF c \in admitted THEN doc[conn] ELSE docSeen[c]]
      /\ UNCHANGED <<slot, conn, state, doc>>

\* An uplink takes the slot, with no state and an empty document.
Claim(u) ==
  /\ slot = NoUplink
  /\ slot' = u
  /\ doc' = [doc EXCEPT ![u] = {}]
  /\ state' = [state EXCEPT ![u] = NoState]
  /\ UNCHANGED conn

\* The rest of the handler of /streamwall/:id/ws for the uplinks of W, of whom
\* one may take the slot and the others are turned away.
AdmitUplinks(W, sk, cr, authentic) ==
  /\ \/ \E u \in W :
          /\ authentic
          /\ Claim(u)
          /\ sock' = [s \in Socket |-> IF s \in W \ {u} THEN "none" ELSE sk[s]]
          /\ cred' = Keep({u}, W, cr)
     \/ /\ ~authentic \/ slot # NoUplink \/ W = {}
        /\ sock' = [s \in Socket |-> IF s \in W THEN "none" ELSE sk[s]]
        /\ cred' = Keep({}, W, cr)
        /\ UNCHANGED <<slot, conn, state, doc>>
  /\ UNCHANGED <<bound, seen, docSeen>>

\* The sockets as they are are sk, and the credentials they presented cr.
Admit(W, k, sk, cr, authentic) ==
  IF k[1] = "session" THEN AdmitClients(W, sk, cr, authentic)
  ELSE AdmitUplinks(W, sk, cr, authentic)

Idle(s) == sock[s] = "none" /\ s \notin waiting /\ \A c \in Registered : bound[c] # s

\* The socket of an uplink is there while it waits; a browser waits for its upgrade.
Upgraded(s) == [sock EXCEPT ![s] = IF s \in Uplink THEN "open" ELSE "none"]

\* A credential the cache knows: the handshake is over at once.
ConnectVerified(s, t) ==
  /\ Idle(s)
  /\ LET k == <<IF s \in Client THEN "session" ELSE "streamwall", t>>
     IN  k \in verified /\ Admit({s}, k, Upgraded(s), [cred EXCEPT ![s] = t], TRUE)
  /\ UNCHANGED <<authVars, waiting>>

ConnectUnverified(s, t) ==
  /\ Idle(s)
  /\ cred' = [cred EXCEPT ![s] = t]
  /\ BeginVerify(<<IF s \in Client THEN "session" ELSE "streamwall", t>>)
  /\ waiting' = waiting \union {s}
  /\ sock' = Upgraded(s)
  /\ UNCHANGED <<slot, conn, state, doc, bound, seen, docSeen>>

\* A derivation is over, and with it the wait of all who joined it.
Verified(k) ==
  /\ Settle(k)
  /\ LET W == {s \in waiting : KeyOf(s) = k}
     IN  waiting' = waiting \ W /\ Admit(W, k, sock, cred, Authenticates(k))

-----------------------------------------------------------------------------
(* Tokens change.                                                          *)

\* Mutant: nobody's socket is closed.
BugRevoked(S) == {}

\* The clients whose session is not among the tokens of S.
Revoked(S) == {c \in Registered : cred[c] \notin S \/ info[cred[c]].kind # "session"}

\* Mutant: the clients hear of it with the next state of the desktop.
BugTokensChanged ==
  /\ sock' = Closed(Revoked(live'))
  /\ state' = IF conn = NoUplink THEN state ELSE [state EXCEPT ![conn].auth = Listed(live')]
  /\ UNCHANGED <<waiting, cred, slot, conn, doc, bound, seen, docSeen>>

\* The listener of auth's state event.
TokensChanged ==
  /\ sock' = Closed(Revoked(live'))
  /\ IF conn = NoUplink THEN UNCHANGED <<state, seen>>
     ELSE LET s == [state[conn] EXCEPT !.auth = Listed(live')]
          IN  state' = [state EXCEPT ![conn] = s] /\ Broadcast(s, sock')
  /\ UNCHANGED <<waiting, cred, slot, conn, doc, bound, docSeen>>

\* Commands are taken from anyone still heard while there is an uplink.
MayCommand(c, role) == c \in Heard /\ conn # NoUplink /\ RoleOf(c) = role

CreateInvite(c, t, role) ==
  MayCommand(c, "admin") /\ BeginInvite(t, role) /\ UNCHANGED connVars

RevokeToken(c, t) == MayCommand(c, "admin") /\ DeleteToken(t) /\ TokensChanged

InviteCreated(t) == FinishInvite(t) /\ TokensChanged

InviteRedeemed(r) == FinishRedeem(r) /\ TokensChanged

-----------------------------------------------------------------------------
(* State and document.                                                     *)

\* The uplink reports a state, with the first one becoming the connection.
StateMessage(u, v) ==
  /\ slot = u /\ sock[u] = "open"
  /\ conn' = u
  /\ LET s == [desktop |-> v, auth |-> IF conn = u THEN state[u].auth ELSE Listed(live)]
     IN  state' = [state EXCEPT ![u] = s] /\ Broadcast(s, sock)
  /\ UNCHANGED <<authVars, sock, waiting, cred, slot, doc, bound, docSeen>>

UplinkEdit(u, e) ==
  /\ slot = u /\ sock[u] = "open"
  /\ e \notin doc[u]
  /\ doc' = [doc EXCEPT ![u] = @ \union {e}]
  /\ FanOut(e, u)
  /\ UNCHANGED <<authVars, sock, waiting, cred, slot, conn, state, bound, seen>>

\* A client edits the document its handlers have captured.
ClientEdit(c, e) ==
  /\ c \in Heard /\ conn # NoUplink /\ RoleOf(c) \in Editor
  /\ e \notin doc[bound[c]]
  /\ doc' = [doc EXCEPT ![bound[c]] = @ \union {e}]
  /\ FanOut(e, c)
  /\ UNCHANGED <<authVars, sock, waiting, cred, slot, conn, state, bound, seen>>

\* An edit the guard refuses costs the client its socket.
InvalidEdit(c) ==
  /\ sock[c] = "open" /\ conn # NoUplink /\ RoleOf(c) \in Editor
  /\ sock' = Closed({c})
  /\ UNCHANGED <<authVars, waiting, cred, slot, conn, state, doc, bound, seen, docSeen>>

-----------------------------------------------------------------------------
(* Sockets go.                                                             *)

\* Over its message budget, or its queue before the handshake is over.
Limit(s) ==
  /\ sock[s] \in {"open", "closing"}
  /\ sock' = [sock EXCEPT ![s] = "limited"]
  /\ UNCHANGED <<authVars, waiting, cred, slot, conn, state, doc, bound, seen, docSeen>>

\* The request of a browser ends before its upgrade.
Abort(c) ==
  /\ c \in waiting
  /\ waiting' = waiting \ {c}
  /\ cred' = [cred EXCEPT ![c] = NoToken]
  /\ UNCHANGED <<authVars, sock, slot, conn, state, doc, bound, seen, docSeen>>

\* The client is forgotten.
ClientClosed(c) ==
  /\ c \in Registered
  /\ sock' = [sock EXCEPT ![c] = "none"]
  /\ cred' = [cred EXCEPT ![c] = NoToken]
  /\ bound' = [bound EXCEPT ![c] = NoUplink]
  /\ seen' = [seen EXCEPT ![c] = NoState]
  /\ docSeen' = [docSeen EXCEPT ![c] = {}]
  /\ UNCHANGED <<authVars, waiting, slot, conn, state, doc>>

\* releaseSlot.
ReleaseSlot(u) ==
  /\ slot' = NoUplink /\ conn' = NoUplink
  /\ sock' = [Closed(Client) EXCEPT ![u] = "none"]

\* Mutant: the release is armed too late for a close during the derivation (#743).
BugUplinkClosed(u) ==
  /\ sock[u] # "none"
  /\ IF slot = u THEN ReleaseSlot(u)
     ELSE sock' = [sock EXCEPT ![u] = "none"] /\ UNCHANGED <<slot, conn>>
  /\ UNCHANGED <<authVars, waiting, cred, state, doc, bound, seen, docSeen>>

\* The close event of an uplink; one that was waiting is remembered as closed.
UplinkClosed(u) ==
  /\ sock[u] # "none"
  /\ IF slot = u THEN ReleaseSlot(u)
     ELSE sock' = [sock EXCEPT ![u] = "none"] /\ UNCHANGED <<slot, conn>>
  /\ waiting' = waiting \ {u}
  /\ cred' = [cred EXCEPT ![u] = NoToken]
  /\ UNCHANGED <<authVars, state, doc, bound, seen, docSeen>>

-----------------------------------------------------------------------------
Handshake ==
  \/ \E s \in Socket, t \in Issued : ConnectVerified(s, t) \/ ConnectUnverified(s, t)
  \/ \E k \in Key : Verified(k)

Tokens ==
  \/ \E c \in Client, t \in Token :
       RevokeToken(c, t) \/ \E role \in Role : CreateInvite(c, t, role)
  \/ \E t \in Token : InviteCreated(t)
  \/ \E r \in Redeemer : InviteRedeemed(r)

Messages ==
  \/ \E u \in Uplink : \/ \E v \in Version : StateMessage(u, v)
                       \/ \E e \in Edit : UplinkEdit(u, e)
  \/ \E c \in Client : InvalidEdit(c) \/ \E e \in Edit : ClientEdit(c, e)
  \/ \E s \in Socket : Limit(s)

Closes ==
  \/ \E c \in Client : Abort(c) \/ ClientClosed(c)
  \/ \E u \in Uplink : UplinkClosed(u)

ServerNext ==
  \/ Handshake \/ Tokens \/ Messages \/ Closes
  \/ (AuthQuiet /\ UNCHANGED connVars)

ServerSpec == ServerInit /\ [][ServerNext]_serverVars

-----------------------------------------------------------------------------
(* Properties.                                                             *)

StateView == [desktop : Version \union {NoVersion}, auth : SUBSET Token]

ServerTypeOK ==
  /\ AuthTypeOK
  /\ sock \in [Socket -> {"none", "open", "closing", "limited"}]
  /\ waiting \subseteq Socket
  /\ cred \in [Socket -> Token \union {NoToken}]
  /\ slot \in Uplink \union {NoUplink} /\ conn \in Uplink \union {NoUplink}
  /\ state \in [Uplink -> StateView] /\ doc \in [Uplink -> SUBSET Edit]
  /\ bound \in [Client -> Uplink \union {NoUplink}]
  /\ seen \in [Client -> StateView] /\ docSeen \in [Client -> SUBSET Edit]

\* The slot is never held by a socket that is gone, whenever that went, and no
\* second uplink is let in beside the one that holds it (#743, uplink.ts:26).
OneLiveUplink ==
  /\ slot # NoUplink => sock[slot] # "none" /\ slot \notin waiting
  /\ conn # NoUplink => conn = slot
  /\ \A u \in Uplink : sock[u] # "none" => u = slot \/ u \in waiting

\* A client that has not been told to go holds a session that is still there,
\* also if it was revoked while the client came in.
RevokedAreDropped == \A c \in Client : sock[c] = "open" => cred[c] \in Sessions

\* A client that has not been told to go is on the uplink of the moment.
ClientsFollowUplink ==
  \A c \in Client : sock[c] = "open" => bound[c] = conn /\ conn # NoUplink

\* One uplink at a time, and the clients are on it.
UplinkHeld == OneLiveUplink /\ ClientsFollowUplink

\* The server's idea of the tokens is never behind, and each client has been
\* sent all its role may see of the present state, and every edit.
ClientsUpToDate ==
  /\ conn # NoUplink => state[conn].auth = Listed(live)
  /\ \A c \in Client :
       sock[c] = "open" => seen[c] = View(RoleOf(c), state[bound[c]]) /\ doc[bound[c]] \subseteq docSeen[c]

\* Whoever may be in is told everything, and nobody else is in.
ClientsServed == RevokedAreDropped /\ ClientsUpToDate

-----------------------------------------------------------------------------
(* The abstract promise.                                                   *)

R == INSTANCE Room WITH
       Wall <- Uplink, NoWall <- NoUplink,
       sessions <- Sessions,
       wall <- conn,
       inside <- [c \in Client |-> IF sock[c] = "open" THEN cred[c] ELSE NoToken]

\* Revocation and the loss of the uplink empty the room in one step each, and a
\* check that was under way lets nobody in after them.
KeepsRoom == R!RoomSpec
=============================================================================

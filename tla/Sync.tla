-------------------------------- MODULE Sync --------------------------------
(***************************************************************************)
(* What is on the desktop, by way of the control server, on the page of an *)
(* operator: the state, which only the desktop changes, and the document   *)
(* of cell assignments, which both ends edit and all three hold a copy of. *)
(*                                                                         *)
(* Messages of one socket keep their order.  A socket may break at any     *)
(* moment; the desktop and the page connect again by themselves.  The      *)
(* server may notice a broken uplink late, by its heartbeat.  Effects of   *)
(* the page's components run before a new socket brings anything, because  *)
(* connecting takes longer than a frame.  ControlServer has several        *)
(* browsers, roles and credentials, which are left out here.               *)
(***************************************************************************)
EXTENDS Integers, Sequences

CONSTANTS
  Command,      \* commands the operator sends, each once
  Answered,     \* those of them that the server itself answers, after a derivation
  Base,         \* what seeds the cells of the document
  Wipe,         \* the deletion of all cells
  DeskEdit,     \* edits on the desktop
  PageEdit,     \* edits on the page
  Oversized,    \* those of them that the server's guard refuses
  Refused,      \* versions that the schema of the page does not accept
  MaxVersion,   \* bound on the versions of the state
  MaxCuts       \* bound on the times that a socket breaks

ASSUME AnsweredAssumption == Answered \subseteq Command
ASSUME OversizedAssumption == Oversized \subseteq PageEdit \ ({Base, Wipe} \union DeskEdit)
ASSUME SyncBoundsAssumption == MaxVersion \in Nat /\ MaxCuts \in Nat

VARIABLES
  deskState, deskDoc, uplink,       \* desktop: clientState, stateDoc, its socket
  slot, conn, state, doc,           \* server: the uplink slot and what StreamwallConnection has
  served, seen, working,            \* server: its end of the page's socket, lastStateSent, derivations
  up, down, toPage, toServer,       \* messages under way
  old,                              \* messages of sockets that the page has left
  link, last, desynced,             \* page: its socket, lastStateData, desynced
  isConnected, stateDoc, lastKnown, \* page: useCollabConnection
  responseMap, calls, told,         \* page: callbacks waiting, how often each was called, with what
  sent, made, done, cuts            \* commands sent, edits made, commands carried out, cuts so far

deskVars == <<deskState, deskDoc, uplink>>
connVars == <<slot, conn, state, doc>>
servedVars == <<served, seen, working>>
linkVars == <<link, toPage, toServer, old>>
docVars == <<isConnected, stateDoc, lastKnown>>
callVars == <<responseMap, calls, told>>
pageVars == <<last, desynced, docVars, callVars>>
madeVars == <<sent, made, done, cuts>>
vars == <<deskVars, connVars, servedVars, up, down, linkVars, pageVars, madeVars>>

Version == 0 .. MaxVersion
NoVersion == -1             \* no state yet
Garbage == -2               \* a delta patched onto a base it does not start from
Item == {Base, Wipe} \union DeskEdit \union PageEdit

State(v) == [type |-> "state", state |-> v]
Delta(from, to) == [type |-> "state-delta", from |-> from, to |-> to]
Update(items) == [type |-> "doc", items |-> items]
Cmd(c) == [type |-> "command", id |-> c]
Response(c) == [type |-> "response", id |-> c]
Error == [type |-> "error"]
Close == [type |-> "close"]

\* A cell can be edited where its map is: seeded and not deleted.
HasCells(d) == Base \in d /\ Wipe \notin d

Init ==
  /\ deskState = 0 /\ deskDoc = {Base} /\ uplink = "down"
  /\ slot = "free" /\ conn = FALSE /\ state = NoVersion /\ doc = {}
  /\ served = "none" /\ seen = NoVersion /\ working = {}
  /\ up = <<>> /\ down = <<>> /\ toPage = <<>> /\ toServer = <<>> /\ old = {}
  /\ link = "down" /\ last = NoVersion /\ desynced = FALSE
  /\ isConnected = FALSE /\ stateDoc = {} /\ lastKnown = {}
  /\ responseMap = {} /\ calls = [c \in Command |-> 0] /\ told = [c \in Command |-> "nothing"]
  /\ sent = {} /\ made = {} /\ done = {} /\ cuts = 0

-----------------------------------------------------------------------------
(* The desktop and its uplink.                                             *)

\* A mutant: what is sent now goes ahead of what waits.
BugSendUp(m) == up' = IF uplink = "open" THEN <<m>> \o up ELSE up

\* What an open uplink is sent; a closed one drops it.
SendUp(m) == up' = IF uplink = "open" THEN Append(up, m) ELSE up

\* The desktop's own state changes: stateEmitter sends all of it.
DeskChanges ==
  /\ deskState < MaxVersion
  /\ deskState' = deskState + 1
  /\ SendUp(State(deskState + 1))
  /\ UNCHANGED <<deskDoc, uplink, connVars, servedVars, down, linkVars, pageVars, madeVars>>

\* An edit on the desktop, whose origin is not the uplink.
DeskEdits(e) ==
  /\ e \notin deskDoc
  /\ deskDoc' = deskDoc \union {e}
  /\ SendUp(Update({e}))
  /\ UNCHANGED <<deskState, uplink, connVars, servedVars, down, linkVars, pageVars, madeVars>>

\* The socket opens into a free slot.  While the slot is taken by a socket that the
\* server has not yet found to be dead, the desktop is turned away and tries again.
UplinkOpens ==
  /\ uplink = "down" /\ slot = "free"
  /\ uplink' = "open" /\ slot' = "live"
  /\ up' = <<State(deskState), Update(deskDoc)>> /\ down' = <<>>
  /\ state' = NoVersion /\ doc' = {}
  /\ UNCHANGED <<deskState, deskDoc, conn, servedVars, linkVars, pageVars, madeVars>>

UplinkBreaks ==
  /\ uplink = "open" /\ cuts < MaxCuts
  /\ uplink' = "down" /\ slot' = "dead"
  /\ up' = <<>> /\ down' = <<>>
  /\ cuts' = cuts + 1
  /\ UNCHANGED <<deskState, deskDoc, conn, state, doc, servedVars, linkVars, pageVars, sent, made, done>>

\* routeUplinkWsMessage: an update is merged without being sent back, a command carried out.
DeskReceives ==
  /\ down # <<>>
  /\ down' = Tail(down)
  /\ \/ /\ Head(down).type = "doc"
        /\ deskDoc' = deskDoc \union Head(down).items
        /\ UNCHANGED <<deskState, up, done>>
     \/ /\ Head(down).type = "command"
        /\ done' = done \union {Head(down).id}
        /\ IF deskState < MaxVersion
           THEN deskState' = deskState + 1 /\ SendUp(State(deskState + 1))
           ELSE UNCHANGED <<deskState, up>>
        /\ UNCHANGED deskDoc
  /\ UNCHANGED <<uplink, connVars, servedVars, linkVars, pageVars, sent, made, cuts>>

-----------------------------------------------------------------------------
(* The server.                                                             *)

\* What the server sends the page, if its end of the socket is open.
Sending(m) == IF served = "open" THEN Append(toPage, m) ELSE toPage
SendDown(m) == down' = IF slot = "live" THEN Append(down, m) ELSE down

\* broadcastStateDeltas of version v.
Broadcast(v) ==
  IF served = "open" /\ seen # v
  THEN seen' = v /\ toPage' = Append(toPage, Delta(seen, v))
  ELSE UNCHANGED <<seen, toPage>>

\* The update event of the document, for what of it is new: everybody gets it but the
\* socket it came from, the uplink too.
Merge(items, toThePage) ==
  /\ doc' = doc \union items
  /\ IF items \subseteq doc
     THEN UNCHANGED <<down, toPage>>
     ELSE /\ SendDown(Update(items))
          /\ toPage' = IF toThePage THEN Sending(Update(items)) ELSE toPage

\* A message of the uplink: the first state makes the connection.
ServerReceivesUplink ==
  /\ up # <<>>
  /\ up' = Tail(up)
  /\ \/ /\ Head(up).type = "state"
        /\ conn' = TRUE /\ state' = Head(up).state
        /\ Broadcast(Head(up).state)
        /\ UNCHANGED <<doc, down>>
     \/ /\ Head(up).type = "doc"
        /\ Merge(Head(up).items, TRUE)
        /\ UNCHANGED <<conn, state, seen>>
  /\ UNCHANGED <<deskVars, slot, served, working, link, toServer, old, pageVars, madeVars>>

\* The close event of the uplink or its heartbeat: the slot is free, and the clients
\* are closed.  What they sent goes to a connection that is no more.
ReleaseSlot ==
  /\ slot = "dead"
  /\ slot' = "free" /\ conn' = FALSE /\ state' = NoVersion /\ doc' = {}
  /\ toPage' = Sending(Close)
  /\ served' = IF served = "none" THEN "none" ELSE "lost"
  /\ working' = {} /\ old' = {}
  /\ UNCHANGED <<deskVars, seen, up, down, link, toServer, pageVars, madeVars>>

\* The handshake of the page: state and document, or the reason why not.
Connect ==
  /\ link = "down"
  /\ link' = "open" /\ toServer' = <<>> /\ working' = {}
  /\ IF conn
     THEN served' = "open" /\ seen' = state /\ toPage' = <<State(state), Update(doc)>>
     ELSE served' = "lost" /\ seen' = NoVersion /\ toPage' = <<Error, Close>>
  /\ UNCHANGED <<deskVars, connVars, up, down, old, pageVars, madeVars>>

\* applyValidatedDocUpdate.  A refused edit closes the socket it came over.
ReceiveUpdate(items, current) ==
  IF items \intersect Oversized # {}
  THEN /\ IF current
          THEN toPage' = Sending(Close) /\ served' = "closing"
          ELSE UNCHANGED <<toPage, served>>
       /\ UNCHANGED <<doc, down>>
  ELSE Merge(items, ~current) /\ UNCHANGED served

\* A command: answered after a derivation, or forwarded.
ReceiveCommand(c, current) ==
  /\ IF c \in Answered
     THEN /\ working' = IF current THEN working \union {c} ELSE working
          /\ UNCHANGED down
     ELSE SendDown(Cmd(c)) /\ UNCHANGED working
  /\ UNCHANGED <<doc, served, toPage>>

Handle(m, current) ==
  \/ m.type = "doc" /\ ReceiveUpdate(m.items, current) /\ UNCHANGED working
  \/ m.type = "command" /\ ReceiveCommand(m.id, current)

ServerReceives ==
  /\ toServer # <<>>
  /\ toServer' = Tail(toServer)
  /\ IF served = "lost"
     THEN UNCHANGED <<doc, down, served, working, toPage>>
     ELSE Handle(Head(toServer), TRUE)
  /\ UNCHANGED <<deskVars, slot, conn, state, seen, up, link, old, pageVars, madeVars>>

\* The same for what a socket still held when the page left it.
ServerReceivesOld(m) ==
  /\ m \in old
  /\ old' = old \ {m}
  /\ Handle(m, FALSE)
  /\ UNCHANGED <<deskVars, slot, conn, state, seen, up, link, toServer, pageVars, madeVars>>

OldIsLost(m) ==
  /\ m \in old
  /\ old' = old \ {m}
  /\ UNCHANGED <<deskVars, connVars, servedVars, up, down, link, toPage, toServer, pageVars, madeVars>>

\* A derivation ends; respond does nothing once the socket is closing.
Answer(c) ==
  /\ c \in working
  /\ working' = working \ {c}
  /\ toPage' = Sending(Response(c))
  /\ UNCHANGED <<deskVars, connVars, served, seen, up, down, link, toServer, old, pageVars, madeVars>>

-----------------------------------------------------------------------------
(* The page.                                                               *)

\* Callbacks of the commands of C are called with what w says.
Call(C, w) ==
  /\ calls' = [c \in Command |-> IF c \in C THEN calls[c] + 1 ELSE calls[c]]
  /\ told' = [c \in Command |-> IF c \in C THEN w ELSE told[c]]

\* handleClose: keep what is shown, start an empty document, and tell all who wait.
HandleClose ==
  /\ lastKnown' = stateDoc /\ stateDoc' = {}
  /\ isConnected' = FALSE
  /\ Call(responseMap, "Connection closed")
  /\ responseMap' = {}

\* The page leaves its socket; the server may still hear what it had sent.
LeaveSocket ==
  /\ link' = "down" /\ served' = "none" /\ working' = {}
  /\ toPage' = <<>> /\ toServer' = <<>>
  /\ old' = IF served = "lost" THEN old
            ELSE old \union {toServer[i] : i \in 1 .. Len(toServer)}
  /\ HandleClose
  /\ UNCHANGED seen

LinkBreaks ==
  /\ link = "open" /\ cuts < MaxCuts
  /\ LeaveSocket
  /\ cuts' = cuts + 1
  /\ UNCHANGED <<deskVars, connVars, up, down, last, desynced, sent, made, done>>

\* An attempt to connect fails: the reconnecting socket fires its close event again.
AttemptFails ==
  /\ link = "down"
  /\ HandleClose
  /\ UNCHANGED <<deskVars, connVars, servedVars, up, down, linkVars, last, desynced, madeVars>>

\* patchState, which is given the base as it is.
Patched(m) == IF m.from = last THEN m.to ELSE Garbage

\* A mutant: what follows a delta that was refused is waited out.
BugStayDesynced(m) ==
  /\ IF desynced \/ Patched(m) \in Refused
     THEN desynced' = TRUE /\ UNCHANGED last
     ELSE last' = Patched(m) /\ UNCHANGED desynced
  /\ toPage' = Tail(toPage)
  /\ UNCHANGED <<docVars, callVars, link, servedVars, toServer, old>>

\* A delta that cannot be trusted makes the page ask for all of the state anew.
ReceiveDelta(m) ==
  IF desynced
  THEN /\ UNCHANGED <<last, desynced, docVars, callVars, link, servedVars, toServer, old>>
       /\ toPage' = Tail(toPage)
  ELSE IF Patched(m) \in Refused
  THEN /\ desynced' = TRUE
       /\ LeaveSocket
       /\ UNCHANGED last
  ELSE /\ last' = Patched(m)
       /\ toPage' = Tail(toPage)
       /\ UNCHANGED <<desynced, docVars, callVars, link, servedVars, toServer, old>>

\* A full state is taken as it is.
ReceiveState(m) ==
  /\ desynced' = FALSE /\ last' = m.state /\ isConnected' = TRUE
  /\ toPage' = Tail(toPage)
  /\ UNCHANGED <<stateDoc, lastKnown, callVars, link, servedVars, toServer, old>>

\* A response is for the callback that still waits for it, if any.
ReceiveResponse(m) ==
  /\ Call({m.id} \intersect responseMap, "answer")
  /\ responseMap' = responseMap \ {m.id}
  /\ toPage' = Tail(toPage)
  /\ UNCHANGED <<last, desynced, docVars, link, servedVars, toServer, old>>

PageReceives ==
  /\ toPage # <<>>
  /\ LET m == Head(toPage) IN
       \/ m.type = "state" /\ ReceiveState(m)
       \/ m.type = "state-delta" /\ ReceiveDelta(m)
       \/ m.type = "response" /\ ReceiveResponse(m)
       \/ /\ m.type = "doc"
          /\ stateDoc' = stateDoc \union m.items
          /\ toPage' = Tail(toPage)
          /\ UNCHANGED <<last, desynced, isConnected, lastKnown, callVars,
                         link, servedVars, toServer, old>>
       \/ /\ m.type = "error"
          /\ toPage' = Tail(toPage)
          /\ UNCHANGED <<pageVars, link, servedVars, toServer, old>>
       \/ m.type = "close" /\ LeaveSocket /\ UNCHANGED <<last, desynced>>
  /\ UNCHANGED <<deskVars, connVars, up, down, madeVars>>

\* The operator changes a cell; the update is sent if the socket is open.
Change(e) ==
  /\ e \notin made /\ HasCells(stateDoc)
  /\ made' = made \union {e}
  /\ stateDoc' = stateDoc \union {e}
  /\ toServer' = IF link = "open" THEN Append(toServer, Update({e})) ELSE toServer
  /\ UNCHANGED <<deskVars, connVars, servedVars, up, down, link, toPage, old, last, desynced,
                 isConnected, lastKnown, callVars, sent, done, cuts>>

\* Ctrl+Z until nothing is left: the undo manager tracks what came from the server as
\* well, so that the last it takes back is the arrival of the document itself.
UndoAll == Change(Wipe)

\* A command goes out with a callback, which is told at once if there is no connection.
Send(c) ==
  /\ c \notin sent
  /\ sent' = sent \union {c}
  /\ IF link = "open"
     THEN /\ toServer' = Append(toServer, Cmd(c))
          /\ responseMap' = responseMap \union {c}
          /\ UNCHANGED <<calls, told>>
     ELSE Call({c}, "Not connected") /\ UNCHANGED <<toServer, responseMap>>
  /\ UNCHANGED <<deskVars, connVars, servedVars, up, down, link, toPage, old, last, desynced,
                 docVars, made, done, cuts>>

\* A mutant, the code before #819: the callback is dropped.
BugEvict(c) ==
  /\ c \in responseMap
  /\ responseMap' = responseMap \ {c}
  /\ UNCHANGED <<deskVars, connVars, servedVars, up, down, linkVars, last, desynced, docVars,
                 calls, told, madeVars>>

\* The eviction timer of a callback.
Evict(c) ==
  /\ c \in responseMap
  /\ Call({c}, "No response from the server")
  /\ responseMap' = responseMap \ {c}
  /\ UNCHANGED <<deskVars, connVars, servedVars, up, down, linkVars, last, desynced, docVars, madeVars>>

-----------------------------------------------------------------------------
Operator == (\E e \in PageEdit : Change(e)) \/ UndoAll \/ \E c \in Command : Send(c)

Deliver ==
  \/ DeskReceives \/ ServerReceivesUplink \/ ServerReceives \/ PageReceives
  \/ \E m \in old : ServerReceivesOld(m) \/ OldIsLost(m)
  \/ \E c \in Command : Answer(c)

Next ==
  \/ DeskChanges \/ (\E e \in DeskEdit : DeskEdits(e))
  \/ UplinkOpens \/ UplinkBreaks \/ ReleaseSlot
  \/ Connect \/ LinkBreaks \/ AttemptFails
  \/ Operator \/ Deliver
  \/ \E c \in Command : Evict(c)

Spec == Init /\ [][Next]_vars

\* Networks deliver what they do not lose, both reconnecting sockets keep trying, the
\* heartbeat finds a dead uplink, and timers fire.
Fairness ==
  /\ WF_vars(DeskReceives) /\ WF_vars(ServerReceivesUplink)
  /\ WF_vars(ServerReceives) /\ WF_vars(PageReceives)
  /\ WF_vars(\E m \in old : ServerReceivesOld(m) \/ OldIsLost(m))
  /\ WF_vars(UplinkOpens) /\ WF_vars(ReleaseSlot) /\ WF_vars(Connect)
  /\ \A c \in Command : WF_vars(Evict(c)) /\ WF_vars(Answer(c))

LiveSpec == Spec /\ Fairness
-----------------------------------------------------------------------------
(* Properties.                                                             *)

Message ==
  {State(v) : v \in Version} \union {Delta(v, w) : v, w \in Version}
    \union {Update(d) : d \in SUBSET Item} \union {Cmd(c) : c \in Command}
    \union {Response(c) : c \in Command} \union {Error, Close}

\* Type invariant.  A refused edit or a state that was never sent do not get this far,
\* and a callback is called once, if at all.
SyncTypeOK ==
  /\ deskState \in Version /\ deskDoc \subseteq Item \ Oversized /\ uplink \in {"down", "open"}
  /\ slot \in {"free", "live", "dead"} /\ conn \in BOOLEAN
  /\ state \in Version \union {NoVersion} /\ doc \subseteq Item \ Oversized
  /\ served \in {"none", "open", "closing", "lost"} /\ seen \in Version \union {NoVersion}
  /\ working \subseteq Answered
  /\ up \in Seq(Message) /\ down \in Seq(Message)
  /\ toPage \in Seq(Message) /\ toServer \in Seq(Message) /\ old \subseteq Message
  /\ link \in {"down", "open"} /\ last \in Version \union {NoVersion} /\ desynced \in BOOLEAN
  /\ isConnected \in BOOLEAN /\ stateDoc \subseteq Item /\ lastKnown \subseteq Item
  /\ responseMap \subseteq Command /\ calls \in [Command -> {0, 1}]
  /\ told \in [Command -> {"nothing", "answer", "Connection closed", "Not connected",
                           "No response from the server"}]
  /\ sent \subseteq Command /\ made \subseteq Item /\ done \subseteq sent /\ cuts \in 0 .. MaxCuts

\* What the page shows of the grid.
Grid == IF isConnected THEN stateDoc ELSE lastKnown

Quiet ==
  /\ link = "open" /\ uplink = "open" /\ slot = "live"
  /\ up = <<>> /\ down = <<>> /\ toPage = <<>> /\ toServer = <<>> /\ old = {}

InStep ==
  /\ isConnected /\ last = deskState /\ state = deskState
  /\ stateDoc = deskDoc /\ doc = deskDoc

\* When nothing is under way, page, server and desktop agree, whatever was lost, refused
\* or edited on the way there.
QuietInStep == Quiet => InStep

\* The page holds no edit of its own that the server neither has nor is about to hear,
\* unless the socket is being closed on it, which discards it (useCollabConnection, #37).
NoLocalOnlyEdits ==
  isConnected /\ served = "open" =>
    stateDoc \subseteq doc \union UNION {m.items : m \in {toServer[i] : i \in
                         {j \in 1 .. Len(toServer) : toServer[j].type = "doc"}}}

\* What the page shows of the state never goes back to an older one, across deltas,
\* resynchronisations and reconnects (patchState's base is what the delta starts from, #488).
NeverGoesBack == [][last' # last => last' > last]_vars

\* Whoever waits for an answer is told something, once (#745, #819).
CallbackCalled == \A c \in Command : c \in sent ~> calls[c] = 1

\* The page comes to agree with the desktop and stays so, once edits and cuts are over.
ComesInStep == <>[]InStep

\* While there is no connection, the grid stays what it was when it was lost
\* (useCollabConnection.ts:104, #283).
OfflineGridKept == [][~isConnected' => Grid' = Grid]_vars

\* Page, server and desktop in the states they can be in together.
PageAgrees == SyncTypeOK /\ QuietInStep /\ NoLocalOnlyEdits

\* What the page waits for comes: the state, the document and an answer to each command.
PageCatchesUp == ComesInStep /\ CallbackCalled
=============================================================================

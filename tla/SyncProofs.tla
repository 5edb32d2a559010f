----------------------------- MODULE SyncProofs -----------------------------
(***************************************************************************)
(* What Sync keeps true of the sockets, the messages under way and the     *)
(* three copies of state and document, for any number of edits, commands,  *)
(* versions and broken sockets.  What the page shows agrees with the       *)
(* desktop whenever nothing is under way because, before that, whatever    *)
(* the one has and the other lacks is in a queue between them.             *)
(***************************************************************************)
EXTENDS Sync, TLAPS

Known == -1 .. MaxVersion

\* Message m takes one who knows version a of the state to version b: a delta starts
\* from what is known, and nothing brings an older version.
Brings(m, a, b) ==
  /\ m.type = "state" => b = m.state
  /\ m.type = "state-delta" => a = m.from /\ b = m.to /\ a < b
  /\ m.type \notin {"state", "state-delta"} => b = a

\* f says which version is known after each message of s.
Trace(f, s) ==
  /\ f \in [0 .. Len(s) -> Known]
  /\ \A i \in 1 .. Len(s) : Brings(s[i], f[i - 1], f[i])
  /\ \A i, j \in 0 .. Len(s) : i <= j => f[i] <= f[j]

\* The messages of s take one who knows version a to version b.
Leads(s, a, b) == \E f \in [0 .. Len(s) -> Known] : Trace(f, s) /\ f[0] = a /\ f[Len(s)] = b

\* What the updates of s carry.
Items(s) == UNION {m.items : m \in {s[i] : i \in {j \in 1 .. Len(s) : s[j].type = "doc"}}}

\* The kinds of messages in each direction.
Kinds(s, kinds) == \A i \in 1 .. Len(s) : s[i].type \in kinds

Queues ==
  /\ Kinds(up, {"state", "doc"}) /\ Kinds(down, {"doc", "command"})
  /\ Kinds(toServer, {"doc", "command"}) /\ \A m \in old : m.type \in {"doc", "command"}

\* Which ends of the sockets are open together, and what a closed one has left to say.
Sockets ==
  /\ uplink = "open" <=> slot = "live"
  /\ uplink = "down" => up = <<>> /\ down = <<>>
  /\ slot = "free" => ~conn
  /\ conn => state # NoVersion
  /\ served = "none" <=> link = "down"
  /\ served \in {"open", "closing"} => conn
  /\ served = "open" => seen = state
  /\ link = "down" => toPage = <<>> /\ toServer = <<>> /\ ~isConnected
  /\ link = "open" /\ served # "open" => toPage # <<>> /\ toPage[Len(toPage)] = Close

\* A page without a connection has an empty document and hears first of all the state.
Arrivals ==
  /\ desynced => ~isConnected
  /\ ~isConnected => stateDoc = {}
  /\ link = "open" /\ ~isConnected =>
       toPage # <<>> /\ toPage[1].type \in {"state", "error", "close"}
  /\ \A i \in 1 .. Len(toPage) :
       toPage[i].type = "error" => toPage = <<Error, Close>> /\ served = "lost"

\* Version b is none that the server, or what is on its way to it, is behind.
Behind(b) ==
  /\ b <= deskState /\ (conn => b <= state)
  /\ \A i \in 1 .. Len(up) : up[i].type = "state" => b <= up[i].state

\* What is under way takes the server to the desktop's state, and the page to the server's.
Versions ==
  /\ state <= deskState
  /\ uplink = "open" => Leads(up, state, deskState)
  /\ \E b \in Known : Leads(toPage, last, b) /\ Behind(b) /\ (served = "open" => b = state)

\* Of two copies of the document, what one lacks is on its way to it.
Documents ==
  /\ Items(up) \subseteq deskDoc
  /\ uplink = "open" => deskDoc \subseteq doc \union Items(up)
  /\ slot = "live" => Items(down) \subseteq doc /\ doc \subseteq deskDoc \union Items(down)
  /\ Items(toServer) \subseteq stateDoc
  /\ served = "open" =>
       /\ Items(toPage) \subseteq doc /\ doc \subseteq stateDoc \union Items(toPage)
       /\ stateDoc \subseteq doc \union Items(toServer)

\* The commands in s are of C.
Commands(s, C) == \A i \in 1 .. Len(s) : s[i].type = "command" => s[i].id \in C

\* A command that was sent waits for its answer or was told of it, once; commands are
\* only forwarded, never made up.
Callbacks ==
  /\ responseMap \subseteq sent
  /\ calls = [c \in Command |-> IF c \in sent \ responseMap THEN 1 ELSE 0]
  /\ Commands(toServer, sent) /\ Commands(down, sent)
  /\ \A m \in old : m.type = "command" => m.id \in sent

\* The inductive invariant.
SyncInv ==
  SyncTypeOK /\ Queues /\ Sockets /\ Arrivals /\ Versions /\ Documents /\ Callbacks

-----------------------------------------------------------------------------
(* Sequences of messages.                                                  *)

\* A message that is sent comes last.
LEMMA AppendFacts ==
  ASSUME NEW S, NEW s \in Seq(S), NEW m \in S
  PROVE  /\ Append(s, m) \in Seq(S) /\ Len(Append(s, m)) = Len(s) + 1
         /\ Append(s, m) # <<>>
         /\ \A i \in 1 .. Len(s) : Append(s, m)[i] = s[i]
         /\ Append(s, m)[Len(s) + 1] = m
  OBVIOUS

\* A message that is received was first.
LEMMA TailFacts ==
  ASSUME NEW S, NEW s \in Seq(S), s # <<>>
  PROVE  /\ Tail(s) \in Seq(S) /\ Len(Tail(s)) = Len(s) - 1 /\ Len(s) \in Nat \ {0}
         /\ \A i \in 1 .. Len(Tail(s)) : Tail(s)[i] = s[i + 1]
         /\ Head(s) = s[1] /\ Head(s) \in S
  OBVIOUS

\* The queues have only the kinds of messages that are sent over them.
LEMMA KindsAppend ==
  ASSUME NEW s \in Seq(Message), NEW m \in Message, NEW kinds, Kinds(s, kinds), m.type \in kinds
  PROVE  Kinds(Append(s, m), kinds)
  BY AppendFacts DEF Kinds

\* What is left of a queue has no kinds of message that it did not have.
LEMMA KindsTail ==
  ASSUME NEW s \in Seq(Message), s # <<>>, NEW kinds, Kinds(s, kinds)
  PROVE  Kinds(Tail(s), kinds) /\ Head(s).type \in kinds
  BY TailFacts DEF Kinds

\* The updates that a queue carries, when one is sent or received.
LEMMA ItemsAppend ==
  ASSUME NEW s \in Seq(Message), NEW m \in Message
  PROVE  Items(Append(s, m)) = Items(s) \union (IF m.type = "doc" THEN m.items ELSE {})
<1> DEFINE t == Append(s, m)
<1>1. Len(t) = Len(s) + 1 /\ (\A i \in 1 .. Len(s) : t[i] = s[i]) /\ t[Len(s) + 1] = m
  BY AppendFacts
<1>2. Len(s) \in Nat
  OBVIOUS
<1> HIDE DEF t
<1>3. {t[i] : i \in {j \in 1 .. Len(t) : t[j].type = "doc"}}
        = {s[i] : i \in {j \in 1 .. Len(s) : s[j].type = "doc"}}
            \union (IF m.type = "doc" THEN {m} ELSE {})
  <2>1. 1 .. Len(t) = (1 .. Len(s)) \union {Len(s) + 1}
    BY <1>1, <1>2
  <2>2. QED
    BY <1>1, <2>1
<1>4. Items(t) = Items(s) \union (IF m.type = "doc" THEN m.items ELSE {})
  BY <1>3, Zenon DEF Items
<1>5. QED
  BY <1>4 DEF t

\* What a queue carries is what its first message does and what the others do.
LEMMA ItemsTail ==
  ASSUME NEW s \in Seq(Message), s # <<>>
  PROVE  Items(s) = (IF Head(s).type = "doc" THEN Head(s).items ELSE {}) \union Items(Tail(s))
<1> DEFINE t == Tail(s)
           m == Head(s)
<1>1. /\ Len(t) = Len(s) - 1 /\ (\A i \in 1 .. Len(t) : t[i] = s[i + 1]) /\ s[1] = m
      /\ Len(s) \in Nat \ {0}
  BY TailFacts
<1> HIDE DEF t, m
<1>2. \A i \in 2 .. Len(s) : s[i] = t[i - 1] /\ i - 1 \in 1 .. Len(t)
  BY <1>1
<1>3. {s[i] : i \in {j \in 1 .. Len(s) : s[j].type = "doc"}}
        = {t[i] : i \in {j \in 1 .. Len(t) : t[j].type = "doc"}}
            \union (IF m.type = "doc" THEN {m} ELSE {})
  <2>1. 1 .. Len(s) = {1} \union (2 .. Len(s))
    BY <1>1
  <2>2. \A i \in 1 .. Len(t) : i + 1 \in 2 .. Len(s) /\ t[i] = s[i + 1]
    BY <1>1
  <2>3. QED
    BY <1>1, <1>2, <2>1, <2>2
<1>4. Items(s) = (IF m.type = "doc" THEN m.items ELSE {}) \union Items(t)
  BY <1>3, Zenon DEF Items
<1>5. QED
  BY <1>4 DEF t, m

\* Of the two messages that a socket opens with, the second is the document.
LEMMA ItemsTwo ==
  ASSUME NEW m, NEW n, m.type # "doc", n.type = "doc"
  PROVE  Items(<<m, n>>) = n.items
<1> DEFINE s == <<m, n>>
<1>1. Len(s) = 2 /\ s[1] = m /\ s[2] = n
  OBVIOUS
<1> HIDE DEF s
<1>2. \A i \in 1 .. 2 : i = 1 \/ i = 2
  OBVIOUS
<1>3. {i \in 1 .. Len(s) : s[i].type = "doc"} = {2}
  BY <1>1, <1>2
<1>4. Items(s) = n.items
  BY <1>1, <1>3 DEF Items
<1>5. QED
  BY <1>4 DEF s

\* Nothing under way carries nothing, and what is carried are items.
LEMMA ItemsEmpty == Items(<<>>) = {}
  BY DEF Items

\* A queue carries updates of the document.
LEMMA ItemsTyped ==
  ASSUME NEW s \in Seq(Message)
  PROVE  Items(s) \subseteq Item
  BY DEF Items, Message, State, Delta, Update, Cmd, Response, Error, Close

-----------------------------------------------------------------------------
(* What the messages of a queue lead to.                                   *)

\* With nothing under way nobody learns anything.
LEMMA LeadsNowhere == \A a \in Known : \A b : Leads(<<>>, a, b) <=> b = a
<1> TAKE a \in Known
<1> TAKE b
<1>1. ASSUME Leads(<<>>, a, b) PROVE b = a
  BY <1>1 DEF Leads, Trace
<1>2. Leads(<<>>, a, a)
  <2> DEFINE f == [i \in 0 .. 0 |-> a]
  <2>1. f \in [0 .. Len(<<>>) -> Known] /\ Trace(f, <<>>) /\ f[0] = a /\ f[Len(<<>>)] = a
    BY SyncBoundsAssumption DEF Trace, Known
  <2>2. QED
    BY <2>1 DEF Leads
<1>3. QED
  BY <1>1, <1>2

\* A message that starts from what the last one brought goes on from there.
LEMMA LeadsAppend ==
  ASSUME NEW s \in Seq(Message), NEW m \in Message, NEW a, NEW b, NEW c \in Known,
         Leads(s, a, b), Brings(m, b, c), b <= c
  PROVE  Leads(Append(s, m), a, c)
<1> DEFINE t == Append(s, m)
           n == Len(s)
<1>1. n \in Nat /\ Len(t) = n + 1 /\ (\A i \in 1 .. n : t[i] = s[i]) /\ t[n + 1] = m
  BY AppendFacts
<1>2. PICK f \in [0 .. n -> Known] : Trace(f, s) /\ f[0] = a /\ f[n] = b
  BY DEF Leads
<1>3. Known \subseteq Int
  BY SyncBoundsAssumption DEF Known
<1> DEFINE g == [i \in 0 .. n + 1 |-> IF i <= n THEN f[i] ELSE c]
<1> HIDE DEF t, n
<1>4. /\ g \in [0 .. n + 1 -> Known] /\ g[0] = a /\ g[n + 1] = c
      /\ \A i \in 0 .. n : g[i] = f[i]
  BY <1>1, <1>2
<1>5. f[n] = b /\ (\A i \in 0 .. n : f[i] <= f[n])
  BY <1>1, <1>2 DEF Trace, n
<1>6. Trace(g, t)
  <2>1. ASSUME NEW i \in 1 .. n + 1 PROVE Brings(t[i], g[i - 1], g[i])
    <3>1. CASE i <= n
      BY <1>1, <1>2, <1>4, <3>1 DEF Trace, n
    <3>2. CASE i = n + 1
      BY <1>1, <1>2, <1>4, <3>2
    <3>3. QED
      BY <1>1, <3>1, <3>2
  <2>2. ASSUME NEW i \in 0 .. n + 1, NEW j \in 0 .. n + 1, i <= j PROVE g[i] <= g[j]
    <3>1. CASE j <= n
      BY <1>1, <1>2, <1>4, <2>2, <3>1 DEF Trace, n
    <3>2. CASE j = n + 1 /\ i <= n
      <4>1. f[i] \in Int /\ b \in Int /\ c \in Int
        BY <1>1, <1>2, <1>3, <3>2
      <4>2. QED
        BY <1>1, <1>4, <1>5, <3>2, <4>1
    <3>3. CASE i = n + 1
      BY <1>1, <1>3, <1>4, <2>2, <3>3
    <3>4. QED
      BY <1>1, <2>2, <3>1, <3>2, <3>3
  <2>3. QED
    BY <1>1, <1>4, <2>1, <2>2 DEF Trace
<1>7. Leads(t, a, c)
  BY <1>1, <1>4, <1>6 DEF Leads
<1>8. QED
  BY <1>7 DEF t

\* Receiving a message is learning what it brings, and no later message brings less.
LEMMA LeadsTail ==
  ASSUME NEW s \in Seq(Message), s # <<>>, NEW a, NEW b, Leads(s, a, b)
  PROVE  \E c \in Known : Brings(Head(s), a, c) /\ a <= c /\ Leads(Tail(s), c, b)
<1> DEFINE t == Tail(s)
           n == Len(s)
<1>1. /\ n \in Nat \ {0} /\ Len(t) = n - 1 /\ (\A i \in 1 .. n - 1 : t[i] = s[i + 1])
      /\ Head(s) = s[1]
  BY TailFacts
<1>2. PICK f \in [0 .. n -> Known] : Trace(f, s) /\ f[0] = a /\ f[n] = b
  BY DEF Leads
<1> DEFINE g == [i \in 0 .. n - 1 |-> f[i + 1]]
<1> HIDE DEF t, n
<1>3. /\ g \in [0 .. n - 1 -> Known] /\ g[0] = f[1] /\ g[n - 1] = b
      /\ \A i \in 0 .. n - 1 : g[i] = f[i + 1]
  BY <1>1, <1>2
<1>4. Trace(g, t)
  <2>1. ASSUME NEW i \in 1 .. n - 1 PROVE Brings(t[i], g[i - 1], g[i])
    <3>1. \A j \in 1 .. n : Brings(s[j], f[j - 1], f[j])
      BY <1>2 DEF Trace, n
    <3>2. i + 1 \in 1 .. n /\ (i + 1) - 1 = i /\ i - 1 \in 0 .. n - 1 /\ (i - 1) + 1 = i
      BY <1>1
    <3>3. g[i - 1] = f[i] /\ g[i] = f[i + 1]
      BY <1>3, <3>2
    <3>4. QED
      BY <1>1, <3>1, <3>2, <3>3
  <2>2. ASSUME NEW i \in 0 .. n - 1, NEW j \in 0 .. n - 1, i <= j PROVE g[i] <= g[j]
    BY <1>1, <1>2, <1>3, <2>2 DEF Trace, n
  <2>3. QED
    BY <1>1, <1>3, <2>1, <2>2 DEF Trace
<1>5. Leads(t, f[1], b)
  BY <1>1, <1>3, <1>4 DEF Leads
<1>6. f[1] \in Known /\ Brings(s[1], a, f[1]) /\ a <= f[1]
  BY <1>1, <1>2 DEF Trace, n
<1>7. QED
  BY <1>1, <1>5, <1>6 DEF t

\* Whatever is under way lies between where it starts and what it leads to.
LEMMA LeadsBetween ==
  ASSUME NEW s \in Seq(Message), NEW a, NEW b, Leads(s, a, b)
  PROVE  /\ a \in Known /\ b \in Known /\ a <= b
         /\ \A i \in 1 .. Len(s) : s[i].type = "state" => a <= s[i].state /\ s[i].state <= b
<1>1. PICK f \in [0 .. Len(s) -> Known] : Trace(f, s) /\ f[0] = a /\ f[Len(s)] = b
  BY DEF Leads
<1>2. Len(s) \in Nat
  OBVIOUS
<1>3. \A i \in 1 .. Len(s) : s[i].type = "state" => s[i].state = f[i]
  BY <1>1 DEF Trace, Brings
<1>4. a \in Known /\ b \in Known /\ \A i \in 0 .. Len(s) : a <= f[i] /\ f[i] <= b
  BY <1>1, <1>2 DEF Trace
<1>5. QED
  BY <1>2, <1>3, <1>4

-----------------------------------------------------------------------------
(* Types.                                                                  *)

\* What is sent is a message.
LEMMA Messages ==
  /\ \A v \in Version : State(v) \in Message /\ State(v).type = "state" /\ State(v).state = v
  /\ \A v, w \in Version : /\ Delta(v, w) \in Message /\ Delta(v, w).type = "state-delta"
                           /\ Delta(v, w).from = v /\ Delta(v, w).to = w
  /\ \A d \in SUBSET Item : Update(d) \in Message /\ Update(d).type = "doc" /\ Update(d).items = d
  /\ \A c \in Command : /\ Cmd(c) \in Message /\ Cmd(c).type = "command" /\ Cmd(c).id = c
                        /\ Response(c) \in Message /\ Response(c).type = "response"
                        /\ Response(c).id = c
  /\ Error \in Message /\ Error.type = "error" /\ Close \in Message /\ Close.type = "close"
<1>1. \A v \in Version : State(v) \in Message /\ State(v).type = "state" /\ State(v).state = v
  BY DEF Message, State
<1>2. \A v, w \in Version : /\ Delta(v, w) \in Message /\ Delta(v, w).type = "state-delta"
                             /\ Delta(v, w).from = v /\ Delta(v, w).to = w
  BY DEF Message, Delta
<1>3. \A d \in SUBSET Item : /\ Update(d) \in Message /\ Update(d).type = "doc"
                             /\ Update(d).items = d
  BY DEF Message, Update
<1>4. \A c \in Command : Cmd(c) \in Message /\ Cmd(c).type = "command" /\ Cmd(c).id = c
  BY DEF Message, Cmd
<1>5. \A c \in Command : /\ Response(c) \in Message /\ Response(c).type = "response"
                         /\ Response(c).id = c
  BY DEF Message, Response
<1>6. Error \in Message /\ Error.type = "error" /\ Close \in Message /\ Close.type = "close"
  BY DEF Message, Error, Close
<1>7. QED
  BY <1>1, <1>2, <1>3, <1>4, <1>5, <1>6

\* What is received has what its kind of message has.
LEMMA MessageParts ==
  ASSUME NEW m \in Message
  PROVE  /\ m.type \in {"state", "state-delta", "doc", "command", "response", "error", "close"}
         /\ m.type = "state" => m.state \in Version
         /\ m.type = "state-delta" => m.from \in Version /\ m.to \in Version
         /\ m.type = "doc" => m.items \subseteq Item
         /\ m.type \in {"command", "response"} => m.id \in Command
         /\ m.type = "close" => m = Close
  BY DEF Message, State, Delta, Update, Cmd, Response, Error, Close

\* The types that do not depend on what was sent before.
PlainTypes ==
  /\ deskState \in Version /\ uplink \in {"down", "open"}
  /\ slot \in {"free", "live", "dead"} /\ conn \in BOOLEAN
  /\ state \in Version \union {NoVersion}
  /\ served \in {"none", "open", "closing", "lost"} /\ seen \in Version \union {NoVersion}
  /\ working \subseteq Answered /\ old \subseteq Message
  /\ link \in {"down", "open"} /\ desynced \in BOOLEAN
  /\ isConnected \in BOOLEAN /\ stateDoc \subseteq Item /\ lastKnown \subseteq Item
  /\ responseMap \subseteq Command /\ sent \subseteq Command /\ made \subseteq Item
  /\ cuts \in 0 .. MaxCuts

QueueTypes ==
  /\ up \in Seq(Message) /\ down \in Seq(Message)
  /\ toPage \in Seq(Message) /\ toServer \in Seq(Message)

Told == {"nothing", "answer", "Connection closed", "Not connected", "No response from the server"}

RestTypes ==
  /\ deskDoc \subseteq Item \ Oversized /\ doc \subseteq Item \ Oversized
  /\ last \in Version \union {NoVersion} /\ calls \in [Command -> {0, 1}]
  /\ told \in [Command -> Told] /\ done \subseteq sent

\* The type invariant, in parts.
LEMMA TypeParts == SyncTypeOK <=> PlainTypes /\ QueueTypes /\ RestTypes
  BY DEF SyncTypeOK, PlainTypes, QueueTypes, RestTypes, Told

\* The plain types are kept.
LEMMA PlainTypesStep ==
  ASSUME SyncInv, [Next]_vars
  PROVE  PlainTypes'
<1>1. PlainTypes /\ QueueTypes /\ RestTypes
  BY TypeParts DEF SyncInv
<1>2. /\ NoVersion \notin Version /\ NoVersion \in Known
      /\ Version \subseteq Known /\ Known \subseteq Int
  BY SyncBoundsAssumption DEF NoVersion, Version, Known
<1> USE DEF PlainTypes, linkVars, madeVars, connVars, servedVars, pageVars, docVars, callVars,
            deskVars
<1>3. CASE DeskChanges
  BY <1>1, <1>3, SyncBoundsAssumption DEF DeskChanges, Version
<1>4. ASSUME NEW e \in DeskEdit, DeskEdits(e) PROVE PlainTypes'
  BY <1>1, <1>4 DEF DeskEdits
<1>5. CASE UplinkOpens
  BY <1>1, <1>5 DEF UplinkOpens
<1>6. CASE UplinkBreaks
  BY <1>1, <1>6, SyncBoundsAssumption DEF UplinkBreaks
<1>7. CASE DeskReceives
  BY <1>1, <1>7, SyncBoundsAssumption DEF DeskReceives, Version
<1>8. CASE ServerReceivesUplink
  <2>1. Head(up) \in Message
    BY <1>1, <1>8, TailFacts DEF QueueTypes, ServerReceivesUplink
  <2>2. QED
    BY <1>1, <1>8, <2>1, MessageParts DEF ServerReceivesUplink, Broadcast
<1>9. CASE ReleaseSlot
  BY <1>1, <1>9 DEF ReleaseSlot
<1>10. CASE Connect
  BY <1>1, <1>10 DEF Connect
<1>11. ASSUME NEW m \in Message, NEW current \in BOOLEAN, Handle(m, current)
       PROVE  served' \in {served, "closing"} /\ working' \subseteq Answered
  BY <1>1, <1>11 DEF Handle, ReceiveUpdate, ReceiveCommand
<1>12. CASE ServerReceives
  <2>1. Head(toServer) \in Message
    BY <1>1, <1>12, TailFacts DEF QueueTypes, ServerReceives
  <2>2. QED
    BY <1>1, <1>11, <1>12, <2>1 DEF ServerReceives
<1>13. ASSUME NEW m \in old, ServerReceivesOld(m) PROVE PlainTypes'
  BY <1>1, <1>11, <1>13 DEF ServerReceivesOld
<1>14. ASSUME NEW m \in old, OldIsLost(m) PROVE PlainTypes'
  BY <1>1, <1>14 DEF OldIsLost
<1>15. ASSUME NEW c \in Command, Answer(c) PROVE PlainTypes'
  BY <1>1, <1>15 DEF Answer
<1>16. ASSUME LeaveSocket, UNCHANGED <<deskState, uplink, slot, conn, state, sent, made>>,
              desynced' \in BOOLEAN, cuts' \in 0 .. MaxCuts
       PROVE  PlainTypes'
  <2>1. {toServer[i] : i \in 1 .. Len(toServer)} \subseteq Message
    BY <1>1 DEF QueueTypes
  <2>2. QED
    BY <1>1, <1>16, <2>1 DEF LeaveSocket, HandleClose
<1>17. CASE LinkBreaks
  BY <1>1, <1>16, <1>17, SyncBoundsAssumption DEF LinkBreaks
<1>18. CASE AttemptFails
  BY <1>1, <1>18 DEF AttemptFails, HandleClose
<1>19. CASE PageReceives
  <2>1. Head(toPage) \in Message
    BY <1>1, <1>19, TailFacts DEF QueueTypes, PageReceives
  <2>2. CASE ReceiveState(Head(toPage))
    BY <1>1, <1>19, <2>2 DEF ReceiveState, PageReceives
  <2>3. CASE ReceiveDelta(Head(toPage))
    BY <1>1, <1>16, <1>19, <2>3 DEF ReceiveDelta, PageReceives
  <2>4. CASE ReceiveResponse(Head(toPage))
    BY <1>1, <1>19, <2>4 DEF ReceiveResponse, PageReceives
  <2>5. CASE LeaveSocket /\ UNCHANGED <<last, desynced>>
    BY <1>1, <1>16, <1>19, <2>5 DEF PageReceives
  <2>6. CASE Head(toPage).type = "doc" /\ stateDoc' = stateDoc \union Head(toPage).items
             /\ UNCHANGED <<last, desynced, isConnected, lastKnown, callVars,
                            link, servedVars, toServer, old>>
    BY <1>1, <1>19, <2>1, <2>6, MessageParts DEF PageReceives
  <2>7. CASE UNCHANGED <<pageVars, link, servedVars, toServer, old>>
    BY <1>1, <1>19, <2>7 DEF PageReceives
  <2>8. QED
    BY <1>19, <2>2, <2>3, <2>4, <2>5, <2>6, <2>7 DEF PageReceives
<1>20. ASSUME NEW e \in Item, Change(e) PROVE PlainTypes'
  BY <1>1, <1>20 DEF Change
<1>21. ASSUME NEW c \in Command, Send(c) PROVE PlainTypes'
  BY <1>1, <1>21 DEF Send
<1>22. ASSUME NEW c \in Command, Evict(c) PROVE PlainTypes'
  BY <1>1, <1>22 DEF Evict
<1>23. CASE UNCHANGED vars
  BY <1>1, <1>23 DEF vars
<1>24. QED
  BY <1>3, <1>4, <1>5, <1>6, <1>7, <1>8, <1>9, <1>10, <1>12, <1>13, <1>14, <1>15, <1>17,
     <1>18, <1>19, <1>20, <1>21, <1>22, <1>23
     DEF Next, Operator, Deliver, UndoAll, Item

\* A queue with its kinds of messages.
Fits(s, kinds) == s \in Seq(Message) /\ Kinds(s, kinds)

\* What fits goes on fitting when a message is sent or received.
LEMMA FitsKept ==
  ASSUME NEW kinds, NEW s, Fits(s, kinds)
  PROVE  /\ Fits(<<>>, kinds)
         /\ \A m \in Message : m.type \in kinds => Fits(Append(s, m), kinds)
         /\ s # <<>> => /\ Fits(Tail(s), kinds)
                        /\ Head(s) \in Message /\ Head(s).type \in kinds
                        /\ \A i \in 1 .. Len(s) : s[i] \in Message /\ s[i].type \in kinds
<1>1. Fits(<<>>, kinds)
  BY DEF Fits, Kinds
<1>2. ASSUME NEW m \in Message, m.type \in kinds PROVE Fits(Append(s, m), kinds)
  BY <1>2, KindsAppend, AppendFacts DEF Fits
<1>3. ASSUME s # <<>>
      PROVE  /\ Fits(Tail(s), kinds) /\ Head(s) \in Message /\ Head(s).type \in kinds
             /\ \A i \in 1 .. Len(s) : s[i] \in Message /\ s[i].type \in kinds
  BY <1>3, KindsTail, TailFacts DEF Fits, Kinds
<1>4. QED
  BY <1>1, <1>2, <1>3

UpKinds == {"state", "doc"}
DownKinds == {"doc", "command"}
PageKinds == {"state", "state-delta", "doc", "command", "response", "error", "close"}

\* All queues with their kinds, the messages of sockets left behind too.
QueuesFit ==
  /\ Fits(up, UpKinds) /\ Fits(down, DownKinds) /\ Fits(toPage, PageKinds)
  /\ Fits(toServer, DownKinds) /\ \A m \in old : m \in Message /\ m.type \in DownKinds

\* Every message of a queue is one, and of a kind that goes there.
LEMMA QueuesFitting == SyncTypeOK /\ Queues => QueuesFit
<1> SUFFICES ASSUME SyncTypeOK, Queues PROVE QueuesFit
  OBVIOUS
<1>1. PlainTypes /\ QueueTypes
  BY TypeParts
<1>2. Fits(toPage, PageKinds)
  <2>1. \A i \in 1 .. Len(toPage) : toPage[i] \in Message
    BY <1>1 DEF QueueTypes
  <2>2. QED
    BY <1>1, <2>1, MessageParts DEF QueueTypes, Fits, Kinds, PageKinds
<1>3. QED
  BY <1>1, <1>2 DEF PlainTypes, QueueTypes, Queues, QueuesFit, Fits, UpKinds, DownKinds

\* The queues keep their kinds of messages.
LEMMA QueuesFitStep ==
  ASSUME SyncInv, [Next]_vars
  PROVE  QueuesFit'
<1>1. PlainTypes /\ RestTypes /\ QueuesFit
  BY TypeParts, QueuesFitting DEF SyncInv
<1>2. /\ \A m \in Message : m.type \in UpKinds => Fits(Append(up, m), UpKinds)
      /\ up # <<>> => Fits(Tail(up), UpKinds) /\ Head(up) \in Message /\ Head(up).type \in UpKinds
  BY <1>1, FitsKept DEF QueuesFit
<1>3. /\ \A m \in Message : m.type \in DownKinds => Fits(Append(down, m), DownKinds)
      /\ down # <<>> => Fits(Tail(down), DownKinds) /\ Head(down) \in Message
  BY <1>1, FitsKept DEF QueuesFit
<1>4. /\ \A m \in Message : Fits(Append(toPage, m), PageKinds)
      /\ toPage # <<>> => Fits(Tail(toPage), PageKinds) /\ Head(toPage) \in Message
  BY <1>1, FitsKept, MessageParts DEF QueuesFit, PageKinds
<1>5. /\ \A m \in Message : m.type \in DownKinds => Fits(Append(toServer, m), DownKinds)
      /\ toServer # <<>> => /\ Fits(Tail(toServer), DownKinds) /\ Head(toServer) \in Message
                            /\ Head(toServer).type \in DownKinds
                            /\ \A i \in 1 .. Len(toServer) :
                                 toServer[i] \in Message /\ toServer[i].type \in DownKinds
  BY <1>1, FitsKept DEF QueuesFit
<1>6. \A kinds : Fits(<<>>, kinds)
  BY DEF Fits, Kinds
<1>7. \A m \in Message :
        m.type = "doc" => Update(m.items) \in Message /\ Update(m.items).type = "doc"
  BY MessageParts, Messages
<1>8. /\ "state" \in UpKinds /\ "doc" \in UpKinds /\ "doc" \in DownKinds /\ "command" \in DownKinds
      /\ \A k \in UpKinds : k = "state" \/ k = "doc"
      /\ \A k \in DownKinds : k = "doc" \/ k = "command"
  BY DEF UpKinds, DownKinds
<1>9. \A m \in Message, n \in Message :
        /\ m.type \in UpKinds /\ n.type \in UpKinds => Fits(<<m, n>>, UpKinds)
        /\ Fits(<<m, n>>, PageKinds)
  BY MessageParts DEF Fits, Kinds, PageKinds
<1> USE DEF QueuesFit, linkVars, madeVars, connVars, servedVars, pageVars, docVars, callVars,
            deskVars
<1>10. CASE DeskChanges
  <2>1. State(deskState + 1) \in Message /\ State(deskState + 1).type = "state"
    BY <1>1, <1>10, Messages, SyncBoundsAssumption DEF DeskChanges, PlainTypes, Version
  <2>2. QED
    BY <1>1, <1>2, <1>8, <1>10, <2>1 DEF DeskChanges, SendUp
<1>11. ASSUME NEW e \in DeskEdit, DeskEdits(e) PROVE QueuesFit'
  <2>1. Update({e}) \in Message /\ Update({e}).type = "doc"
    BY Messages DEF Item
  <2>2. QED
    BY <1>1, <1>2, <1>8, <1>11, <2>1 DEF DeskEdits, SendUp
<1>12. CASE UplinkOpens
  <2>1. /\ State(deskState) \in Message /\ State(deskState).type = "state"
        /\ Update(deskDoc) \in Message /\ Update(deskDoc).type = "doc"
    BY <1>1, Messages DEF PlainTypes, RestTypes
  <2>2. QED
    BY <1>1, <1>6, <1>8, <1>9, <1>12, <2>1 DEF UplinkOpens
<1>13. CASE UplinkBreaks
  BY <1>1, <1>6, <1>13 DEF UplinkBreaks
<1>14. CASE DeskReceives
  <2>1. deskState < MaxVersion =>
          State(deskState + 1) \in Message /\ State(deskState + 1).type = "state"
    BY <1>1, Messages, SyncBoundsAssumption DEF PlainTypes, Version
  <2>2. QED
    BY <1>1, <1>2, <1>3, <1>8, <1>14, <2>1 DEF DeskReceives, SendUp
<1>15. ASSUME NEW items \in SUBSET Item, NEW b \in BOOLEAN, Merge(items, b)
       PROVE  Fits(down', DownKinds) /\ Fits(toPage', PageKinds)
  <2>1. Update(items) \in Message /\ Update(items).type = "doc"
    BY Messages
  <2>2. QED
    BY <1>1, <1>3, <1>4, <1>8, <1>15, <2>1 DEF Merge, SendDown, Sending
<1>16. CASE ServerReceivesUplink
  <2>1. up # <<>> /\ Fits(up', UpKinds) /\ Head(up) \in Message
    BY <1>2, <1>16 DEF ServerReceivesUplink
  <2>2. CASE Head(up).type = "state" /\ state' = Head(up).state /\ Broadcast(Head(up).state)
             /\ UNCHANGED <<doc, down>>
    <3>1. state' \in Version
      BY <2>1, <2>2, MessageParts
    <3>2. toPage' = toPage \/ (conn /\ toPage' = Append(toPage, Delta(seen, state')))
      BY <2>2 DEF Broadcast, SyncInv, Sockets
    <3>3. conn => \A v \in Version : served = "open" => Delta(seen, v) \in Message
      BY <1>1, Messages DEF SyncInv, Sockets, PlainTypes
    <3>4. Fits(toPage', PageKinds)
      BY <1>1, <1>4, <2>2, <3>1, <3>2, <3>3 DEF Broadcast
    <3>5. QED
      BY <1>1, <1>16, <2>1, <2>2, <3>4 DEF ServerReceivesUplink
  <2>3. CASE Head(up).type = "doc" /\ Merge(Head(up).items, TRUE)
    BY <1>1, <1>15, <1>16, <2>1, <2>3, MessageParts DEF ServerReceivesUplink
  <2>4. QED
    BY <1>16, <2>2, <2>3 DEF ServerReceivesUplink
<1>17. CASE ReleaseSlot
  BY <1>1, <1>4, <1>17, Messages DEF ReleaseSlot, Sending
<1>18. CASE Connect
  <2>1. conn => state \in Version
    BY <1>1 DEF SyncInv, Sockets, PlainTypes
  <2>2. conn => State(state) \in Message /\ Update(doc) \in Message
    BY <1>1, <2>1, Messages DEF RestTypes
  <2>3. QED
    BY <1>1, <1>6, <1>9, <1>18, <2>2, Messages DEF Connect
<1>19. ASSUME NEW m \in Message, m.type \in DownKinds, NEW b \in BOOLEAN, Handle(m, b)
       PROVE  Fits(down', DownKinds) /\ Fits(toPage', PageKinds)
  <2>1. CASE m.type = "doc" /\ ReceiveUpdate(m.items, b)
    <3>1. m.items \in SUBSET Item
      BY <2>1, MessageParts
    <3>2. CASE Merge(m.items, ~b)
      BY <1>15, <3>1, <3>2
    <3>3. CASE UNCHANGED <<doc, down>> /\ toPage' \in {toPage, Sending(Close)}
      <4>1. Fits(Sending(Close), PageKinds)
        BY <1>1, <1>4, Messages DEF Sending
      <4>2. QED
        BY <1>1, <3>3, <4>1
    <3>4. QED
      BY <2>1, <3>2, <3>3 DEF ReceiveUpdate
  <2>2. CASE m.type = "command" /\ ReceiveCommand(m.id, b)
    <3>1. Cmd(m.id) \in Message /\ Cmd(m.id).type \in DownKinds
      BY <1>8, <2>2, MessageParts, Messages
    <3>2. QED
      BY <1>1, <1>3, <2>2, <3>1 DEF ReceiveCommand, SendDown
  <2>3. QED
    BY <1>19, <2>1, <2>2 DEF Handle
<1>20. CASE ServerReceives
  BY <1>1, <1>5, <1>19, <1>20 DEF ServerReceives
<1>21. ASSUME NEW m \in old, ServerReceivesOld(m) PROVE QueuesFit'
  BY <1>1, <1>19, <1>21 DEF ServerReceivesOld
<1>22. ASSUME NEW m \in old, OldIsLost(m) PROVE QueuesFit'
  BY <1>1, <1>22 DEF OldIsLost
<1>23. ASSUME NEW c \in Command, Answer(c) PROVE QueuesFit'
  BY <1>1, <1>4, <1>23, Messages DEF Answer, Sending
<1>24. ASSUME LeaveSocket, UNCHANGED <<up, down>> PROVE QueuesFit'
  <2>1. \A m \in {toServer[i] : i \in 1 .. Len(toServer)} : m \in Message /\ m.type \in DownKinds
    BY <1>1, <1>5
  <2>2. QED
    BY <1>1, <1>6, <1>24, <2>1 DEF LeaveSocket
<1>25. CASE LinkBreaks
  BY <1>24, <1>25 DEF LinkBreaks
<1>26. CASE AttemptFails
  BY <1>1, <1>26 DEF AttemptFails
<1>27. CASE PageReceives
  <2>1. UNCHANGED <<up, down>> /\ Fits(Tail(toPage), PageKinds)
    BY <1>4, <1>27 DEF PageReceives
  <2>2. LeaveSocket \/ (toPage' = Tail(toPage) /\ UNCHANGED <<toServer, old>>)
    BY <1>27 DEF PageReceives, ReceiveState, ReceiveDelta, ReceiveResponse
  <2>3. QED
    BY <1>1, <1>24, <2>1, <2>2
<1>28. ASSUME NEW e \in Item, Change(e) PROVE QueuesFit'
  <2>1. Update({e}) \in Message /\ Update({e}).type = "doc"
    BY Messages
  <2>2. QED
    BY <1>1, <1>5, <1>8, <1>28, <2>1 DEF Change
<1>29. ASSUME NEW c \in Command, Send(c) PROVE QueuesFit'
  <2>1. Cmd(c) \in Message /\ Cmd(c).type \in DownKinds
    BY <1>8, Messages
  <2>2. QED
    BY <1>1, <1>5, <1>29, <2>1 DEF Send
<1>30. ASSUME NEW c \in Command, Evict(c) PROVE QueuesFit'
  BY <1>1, <1>30 DEF Evict
<1>31. CASE UNCHANGED vars
  BY <1>1, <1>31 DEF vars
<1>32. QED
  BY <1>10, <1>11, <1>12, <1>13, <1>14, <1>16, <1>17, <1>18, <1>20, <1>21, <1>22, <1>23, <1>25,
     <1>26, <1>27, <1>28, <1>29, <1>30, <1>31
     DEF Next, Operator, Deliver, UndoAll, Item

-----------------------------------------------------------------------------
(* Sockets, and what a page hears first.                                   *)

\* A message that comes last changes neither what is first nor, but for an error, whether
\* an error is under way.
LEMMA Sent ==
  ASSUME NEW s \in Seq(Message), NEW m \in Message
  PROVE  /\ Append(s, m) # <<>> /\ Append(s, m)[Len(Append(s, m))] = m
         /\ s # <<>> => Append(s, m)[1] = s[1]
         /\ m.type # "error" =>
              \A i \in 1 .. Len(Append(s, m)) : Append(s, m)[i].type = "error" =>
                 i \in 1 .. Len(s) /\ s[i].type = "error"
<1>1. /\ Append(s, m) \in Seq(Message) /\ Len(Append(s, m)) = Len(s) + 1
      /\ Append(s, m) # <<>> /\ Append(s, m)[Len(s) + 1] = m
      /\ \A i \in 1 .. Len(s) : Append(s, m)[i] = s[i]
  BY AppendFacts
<1>2. Len(s) \in Nat /\ (s # <<>> => Len(s) >= 1)
  OBVIOUS
<1>3. QED
  BY <1>1, <1>2

\* What the server sends the page never makes a socket look closed.
LEMMA SendingFacts ==
  ASSUME SyncInv, NEW m \in Message, m.type # "error"
  PROVE  /\ served = "open" => Sending(m) # <<>> /\ Sending(m)[Len(Sending(m))] = m
         /\ served # "open" => Sending(m) = toPage
         /\ link = "open" /\ ~isConnected =>
              Sending(m) # <<>> /\ Sending(m)[1].type \in {"state", "error", "close"}
         /\ \A i \in 1 .. Len(Sending(m)) :
              Sending(m)[i].type = "error" =>
                toPage = <<Error, Close>> /\ served = "lost" /\ Sending(m) = toPage
<1>1. toPage \in Seq(Message)
  BY TypeParts DEF SyncInv, QueueTypes
<1>2. Arrivals
  BY DEF SyncInv
<1>3. CASE served = "open"
  <2>1. Sending(m) = Append(toPage, m)
    BY <1>3 DEF Sending
  <2>2. /\ Sending(m) # <<>> /\ Sending(m)[Len(Sending(m))] = m
        /\ toPage # <<>> => Sending(m)[1] = toPage[1]
        /\ \A i \in 1 .. Len(Sending(m)) : Sending(m)[i].type = "error" =>
             i \in 1 .. Len(toPage) /\ toPage[i].type = "error"
    BY <1>1, <2>1, Sent
  <2>3. QED
    BY <1>2, <1>3, <2>2 DEF Arrivals
<1>4. CASE served # "open"
  BY <1>2, <1>4 DEF Sending, Arrivals
<1>5. QED
  BY <1>3, <1>4

\* What the sockets' ends have to do with each other, without the page's queue.
Ends ==
  /\ uplink = "open" <=> slot = "live"
  /\ uplink = "down" => up = <<>> /\ down = <<>>
  /\ slot = "free" => ~conn
  /\ conn => state # NoVersion
  /\ served = "none" <=> link = "down"
  /\ served \in {"open", "closing"} => conn
  /\ served = "open" => seen = state
  /\ link = "down" => toPage = <<>> /\ toServer = <<>> /\ ~isConnected

\* A socket that the server has given up has its end under way.
Closing == link = "open" /\ served # "open" => toPage # <<>> /\ toPage[Len(toPage)] = Close

\* The two parts that the steps are about.
LEMMA SocketParts == Sockets <=> Ends /\ Closing
  BY DEF Sockets, Ends, Closing

\* The ends go on belonging together.
LEMMA EndsStep ==
  ASSUME SyncInv, [Next]_vars
  PROVE  Ends'
<1>1. PlainTypes /\ QueuesFit /\ Ends
  BY TypeParts, QueuesFitting, SocketParts DEF SyncInv
<1>2. NoVersion \notin Version
  BY SyncBoundsAssumption DEF NoVersion, Version
<1> USE DEF Ends, PlainTypes, linkVars, madeVars, connVars, servedVars, pageVars, docVars, callVars,
            deskVars
<1>3. CASE DeskChanges
  BY <1>1, <1>3 DEF DeskChanges, SendUp
<1>4. ASSUME NEW e \in DeskEdit, DeskEdits(e) PROVE Ends'
  BY <1>1, <1>4 DEF DeskEdits, SendUp
<1>5. CASE UplinkOpens
  BY <1>1, <1>5 DEF UplinkOpens
<1>6. CASE UplinkBreaks
  BY <1>1, <1>6 DEF UplinkBreaks
<1>7. CASE DeskReceives
  BY <1>1, <1>7 DEF DeskReceives, SendUp
<1>8. CASE ServerReceivesUplink
  <2>1. Head(up) \in Message /\ up # <<>> /\ uplink = "open" /\ slot = "live"
    BY <1>1, <1>8, FitsKept DEF ServerReceivesUplink, QueuesFit
  <2>2. CASE Head(up).type = "state" /\ conn' = TRUE /\ state' = Head(up).state
             /\ Broadcast(Head(up).state) /\ UNCHANGED <<doc, down>>
    BY <1>1, <1>2, <1>8, <2>1, <2>2, MessageParts DEF ServerReceivesUplink, Broadcast
  <2>3. CASE Merge(Head(up).items, TRUE) /\ UNCHANGED <<conn, state, seen>>
    BY <1>1, <1>8, <2>1, <2>3 DEF ServerReceivesUplink, Merge, SendDown, Sending
  <2>4. QED
    BY <1>8, <2>2, <2>3 DEF ServerReceivesUplink
<1>9. CASE ReleaseSlot
  BY <1>1, <1>9 DEF ReleaseSlot, Sending
<1>10. CASE Connect
  BY <1>1, <1>10 DEF Connect
<1>11. ASSUME NEW m, NEW b \in BOOLEAN, Handle(m, b), b => served # "lost",
              UNCHANGED <<uplink, slot, conn, state, seen, up, link, isConnected>>,
              link = "down" => toServer' = <<>> /\ ~b
       PROVE  Ends'
  BY <1>1, <1>11 DEF Handle, ReceiveUpdate, ReceiveCommand, Merge, SendDown, Sending
<1>12. CASE ServerReceives
  <2>1. link = "open"
    BY <1>1, <1>12 DEF ServerReceives
  <2>2. CASE served = "lost"
    BY <1>1, <1>12, <2>1, <2>2 DEF ServerReceives
  <2>3. CASE served # "lost"
    BY <1>1, <1>11, <1>12, <2>1, <2>3 DEF ServerReceives
  <2>4. QED
    BY <2>2, <2>3
<1>13. ASSUME NEW m \in old, ServerReceivesOld(m) PROVE Ends'
  BY <1>1, <1>11, <1>13 DEF ServerReceivesOld
<1>14. ASSUME NEW m \in old, OldIsLost(m) PROVE Ends'
  BY <1>1, <1>14 DEF OldIsLost
<1>15. ASSUME NEW c \in Command, Answer(c) PROVE Ends'
  BY <1>1, <1>15 DEF Answer, Sending
<1>16. ASSUME LeaveSocket, UNCHANGED <<connVars, uplink, up, down>> PROVE Ends'
  BY <1>1, <1>16 DEF LeaveSocket, HandleClose
<1>17. CASE LinkBreaks
  BY <1>16, <1>17 DEF LinkBreaks
<1>18. CASE AttemptFails
  BY <1>1, <1>18 DEF AttemptFails, HandleClose
<1>19. CASE PageReceives
  <2>1. UNCHANGED <<connVars, uplink, up, down>> /\ link = "open"
    BY <1>1, <1>19 DEF PageReceives
  <2>2. LeaveSocket \/ UNCHANGED <<link, servedVars>>
    BY <1>19 DEF PageReceives, ReceiveState, ReceiveDelta, ReceiveResponse
  <2>3. QED
    BY <1>1, <1>16, <2>1, <2>2
<1>20. ASSUME NEW e \in Item, Change(e) PROVE Ends'
  BY <1>1, <1>20 DEF Change
<1>21. ASSUME NEW c \in Command, Send(c) PROVE Ends'
  BY <1>1, <1>21 DEF Send
<1>22. ASSUME NEW c \in Command, Evict(c) PROVE Ends'
  BY <1>1, <1>22 DEF Evict
<1>23. CASE UNCHANGED vars
  BY <1>1, <1>23 DEF vars
<1>24. QED
  BY <1>3, <1>4, <1>5, <1>6, <1>7, <1>8, <1>9, <1>10, <1>12, <1>13, <1>14, <1>15, <1>17,
     <1>18, <1>19, <1>20, <1>21, <1>22, <1>23
     DEF Next, Operator, Deliver, UndoAll, Item

\* The server says m to the page, if anything: a delta only when the uplink has news, and
\* it gives the socket up only with a close.
Says(m) ==
  /\ m \in Message /\ m.type \in {"state-delta", "doc", "response", "close"}
  /\ m.type = "state-delta" => ServerReceivesUplink
  /\ toPage' \in {toPage, Sending(m)}
  /\ served' # served =>
       m = Close /\ toPage' = Sending(Close) /\ served' \in {"closing", "lost"} /\ served # "lost"
  /\ UNCHANGED <<link, isConnected, desynced, stateDoc>>

\* All that the server does to a page that has connected.
ServerStep ==
  \/ ServerReceivesUplink \/ ReleaseSlot \/ ServerReceives
  \/ (\E m \in old : ServerReceivesOld(m)) \/ \E c \in Command : Answer(c)

\* Every step of the server says at most one message to the page.
LEMMA ServerSays ==
  ASSUME SyncInv, ServerStep
  PROVE  \E m : Says(m)
<1>1. PlainTypes /\ QueuesFit /\ Ends
  BY TypeParts, QueuesFitting, SocketParts DEF SyncInv
<1>2. Close \in Message /\ Close.type = "close"
  BY Messages
<1>3. ASSUME UNCHANGED <<toPage, served, link, isConnected, desynced, stateDoc>>
      PROVE  Says(Close)
  BY <1>2, <1>3 DEF Says
<1>4. ASSUME NEW items \in SUBSET Item, NEW b \in BOOLEAN, Merge(items, b),
             UNCHANGED <<served, link, isConnected, desynced, stateDoc>>
      PROVE  Says(Update(items))
  BY <1>4, Messages DEF Merge, Says
<1> USE DEF pageVars, docVars, linkVars
<1>5. CASE ServerReceivesUplink
  <2>1. /\ up # <<>> /\ Head(up) \in Message
        /\ UNCHANGED <<served, link, isConnected, desynced, stateDoc>>
    BY <1>1, <1>5, FitsKept DEF QueuesFit, ServerReceivesUplink
  <2>2. CASE Head(up).type = "state" /\ Broadcast(Head(up).state)
    <3>1. CASE UNCHANGED toPage
      BY <1>3, <2>1, <3>1
    <3>2. CASE served = "open" /\ toPage' = Append(toPage, Delta(seen, Head(up).state))
      <4>1. seen \in Version /\ Head(up).state \in Version
        BY <1>1, <2>1, <2>2, <3>2, MessageParts DEF Ends, PlainTypes
      <4>2. Says(Delta(seen, Head(up).state))
        BY <1>5, <2>1, <3>2, <4>1, Messages DEF Says, Sending
      <4>3. QED
        BY <4>2
    <3>3. QED
      BY <2>2, <3>1, <3>2 DEF Broadcast
  <2>3. CASE Head(up).type = "doc" /\ Merge(Head(up).items, TRUE)
    <3>1. Head(up).items \in SUBSET Item
      BY <2>1, <2>3, MessageParts
    <3>2. QED
      BY <1>4, <2>1, <2>3, <3>1
  <2>4. QED
    BY <1>5, <2>2, <2>3 DEF ServerReceivesUplink
<1>6. CASE ReleaseSlot
  <2>1. Says(Close)
    BY <1>1, <1>2, <1>6 DEF ReleaseSlot, Says, PlainTypes
  <2>2. QED
    BY <2>1
<1>7. ASSUME NEW m \in Message, NEW b \in BOOLEAN, Handle(m, b), served # "lost" \/ ~b,
             UNCHANGED <<link, isConnected, desynced, stateDoc>>, ~b => UNCHANGED served
      PROVE  \E n : Says(n)
  <2>1. CASE m.type = "doc" /\ ReceiveUpdate(m.items, b)
    <3>1. m.items \in SUBSET Item /\ (~b) \in BOOLEAN
      BY <2>1, MessageParts
    <3>2. CASE Merge(m.items, ~b) /\ UNCHANGED served
      BY <1>4, <1>7, <3>1, <3>2
    <3>3. CASE UNCHANGED <<toPage, served>>
      BY <1>3, <1>7, <3>3
    <3>4. CASE b /\ toPage' = Sending(Close) /\ served' = "closing"
      <4>1. Says(Close)
        BY <1>2, <1>7, <3>4 DEF Says
      <4>2. QED
        BY <4>1
    <3>5. QED
      BY <2>1, <3>2, <3>3, <3>4 DEF ReceiveUpdate
  <2>2. CASE m.type = "command" /\ ReceiveCommand(m.id, b)
    BY <1>3, <1>7, <2>2 DEF ReceiveCommand
  <2>3. QED
    BY <1>7, <2>1, <2>2 DEF Handle
<1>8. CASE ServerReceives
  <2>1. Head(toServer) \in Message
    BY <1>1, <1>8, FitsKept DEF QueuesFit, ServerReceives
  <2>2. CASE served = "lost"
    BY <1>3, <1>8, <2>2 DEF ServerReceives
  <2>3. CASE served # "lost"
    BY <1>7, <1>8, <2>1, <2>3 DEF ServerReceives
  <2>4. QED
    BY <2>2, <2>3
<1>9. ASSUME NEW m \in old, ServerReceivesOld(m) PROVE \E n : Says(n)
  <2>1. UNCHANGED served
    BY <1>9 DEF ServerReceivesOld, Handle, ReceiveUpdate, ReceiveCommand
  <2>2. QED
    BY <1>1, <1>7, <1>9, <2>1 DEF ServerReceivesOld, QueuesFit
<1>10. ASSUME NEW c \in Command, Answer(c) PROVE \E n : Says(n)
  <2>1. Says(Response(c))
    BY <1>10, Messages DEF Answer, Says
  <2>2. QED
    BY <2>1
<1>11. QED
  BY <1>5, <1>6, <1>8, <1>9, <1>10 DEF ServerStep

\* The socket of the page, and what the page makes of its being open or not.
Ear == <<toPage, served, link, isConnected, desynced, stateDoc, last>>

\* Besides the server and the page nobody touches the socket of the page.
LEMMA OthersKeep ==
  ASSUME [Next]_vars
  PROVE  \/ ServerStep \/ Connect \/ LinkBreaks \/ AttemptFails
         \/ PageReceives \/ (\E e \in Item : Change(e)) \/ UNCHANGED Ear
<1> USE DEF Ear, linkVars, servedVars, pageVars, docVars
<1>1. DeskChanges => UNCHANGED Ear
  BY DEF DeskChanges
<1>2. \A e : DeskEdits(e) => UNCHANGED Ear
  BY DEF DeskEdits
<1>3. UplinkOpens \/ UplinkBreaks => UNCHANGED Ear
  BY DEF UplinkOpens, UplinkBreaks
<1>4. DeskReceives => UNCHANGED Ear
  BY DEF DeskReceives
<1>5. \A m : OldIsLost(m) => UNCHANGED Ear
  BY DEF OldIsLost
<1>6. \A c : Send(c) => UNCHANGED Ear
  BY DEF Send
<1>7. \A c : Evict(c) => UNCHANGED Ear
  BY DEF Evict
<1>8. UNCHANGED vars => UNCHANGED Ear
  BY DEF vars
<1>9. QED
  BY <1>1, <1>2, <1>3, <1>4, <1>5, <1>6, <1>7, <1>8
     DEF Next, Operator, Deliver, UndoAll, Item, ServerStep

\* What the server has closed goes on ending with a close.
LEMMA ClosingStep ==
  ASSUME SyncInv, [Next]_vars
  PROVE  Closing'
<1>1. PlainTypes /\ QueuesFit /\ Ends /\ Closing
  BY TypeParts, QueuesFitting, SocketParts DEF SyncInv
<1>2. CASE ServerStep
  <2>1. PICK m : Says(m)
    BY <1>2, ServerSays
  <2>2. /\ served = "open" => Sending(m) # <<>> /\ Sending(m)[Len(Sending(m))] = m
        /\ served # "open" => Sending(m) = toPage
    BY <2>1, SendingFacts DEF Says
  <2>3. CASE served' = served
    BY <1>1, <2>1, <2>2, <2>3 DEF Says, Closing
  <2>4. CASE served' # served
    BY <1>1, <2>1, <2>2, <2>4 DEF Says, Closing
  <2>5. QED
    BY <2>3, <2>4
<1>3. CASE Connect
  BY <1>3 DEF Connect, Closing
<1>4. CASE LinkBreaks
  BY <1>4 DEF LinkBreaks, LeaveSocket, Closing
<1>5. CASE AttemptFails
  BY <1>1, <1>5 DEF AttemptFails, linkVars, servedVars, Closing
<1>6. CASE PageReceives
  <2>1. \/ LeaveSocket
        \/ /\ toPage' = Tail(toPage) /\ UNCHANGED <<link, servedVars>>
           /\ Head(toPage).type # "close"
    BY <1>6, MessageParts DEF PageReceives, ReceiveState, ReceiveDelta, ReceiveResponse
  <2>2. CASE LeaveSocket
    BY <2>2 DEF LeaveSocket, Closing
  <2>3. CASE toPage' = Tail(toPage) /\ UNCHANGED <<link, servedVars>> /\ Head(toPage).type # "close"
    <3>1. /\ toPage \in Seq(Message) /\ toPage # <<>> /\ Close.type = "close"
      BY <1>1, <1>6, Messages DEF PageReceives, QueuesFit, Fits
    <3>2. CASE link = "open" /\ served # "open"
      <4>1. toPage[Len(toPage)] = Close /\ Head(toPage) = toPage[1]
        BY <1>1, <3>1, <3>2, TailFacts DEF Closing
      <4>2. Len(toPage) # 1
        BY <2>3, <3>1, <4>1
      <4>3. Tail(toPage) # <<>> /\ Tail(toPage)[Len(Tail(toPage))] = toPage[Len(toPage)]
        <5>1. /\ Len(Tail(toPage)) = Len(toPage) - 1 /\ Len(toPage) \in Nat \ {0}
              /\ \A i \in 1 .. Len(Tail(toPage)) : Tail(toPage)[i] = toPage[i + 1]
              /\ Tail(toPage) \in Seq(Message)
          BY <3>1, TailFacts
        <5>2. Len(Tail(toPage)) \in 1 .. Len(Tail(toPage))
          BY <4>2, <5>1
        <5>3. Len(Tail(toPage)) + 1 = Len(toPage) /\ Len(<<>>) = 0
          BY <5>1
        <5>4. Tail(toPage)[Len(Tail(toPage))] = toPage[Len(toPage)]
          BY <5>1, <5>2, <5>3
        <5>5. Tail(toPage) # <<>>
          <6>1. Len(Tail(toPage)) # 0
            BY <4>2, <5>1
          <6>2. QED
            BY <5>3, <6>1, Zenon
        <5>6. QED
          BY <5>4, <5>5
      <4>4. QED
        BY <2>3, <4>1, <4>3 DEF Closing
    <3>3. QED
      BY <2>3, <3>2 DEF servedVars, Closing
  <2>4. QED
    BY <2>1, <2>2, <2>3
<1>7. ASSUME NEW e \in Item, Change(e) PROVE Closing'
  BY <1>1, <1>7 DEF Change, servedVars, Closing
<1>8. CASE UNCHANGED Ear
  BY <1>1, <1>8 DEF Ear, Closing
<1>9. QED
  BY <1>2, <1>3, <1>4, <1>5, <1>6, <1>7, <1>8, OthersKeep

\* A page without a connection goes on hearing first of all the state.
LEMMA ArrivalsStep ==
  ASSUME SyncInv, [Next]_vars
  PROVE  Arrivals'
<1>1. PlainTypes /\ QueuesFit /\ Ends /\ Arrivals
  BY TypeParts, QueuesFitting, SocketParts DEF SyncInv
<1>2. CASE ServerStep
  <2>1. PICK m : Says(m)
    BY <1>2, ServerSays
  <2>2. /\ link = "open" /\ ~isConnected =>
             Sending(m) # <<>> /\ Sending(m)[1].type \in {"state", "error", "close"}
        /\ \A i \in 1 .. Len(Sending(m)) :
             Sending(m)[i].type = "error" =>
               toPage = <<Error, Close>> /\ served = "lost" /\ Sending(m) = toPage
    BY <2>1, SendingFacts DEF Says
  <2>3. CASE toPage' = toPage
    BY <1>1, <2>1, <2>3 DEF Says, Arrivals
  <2>4. CASE toPage' = Sending(m)
    BY <1>1, <2>1, <2>2, <2>4 DEF Says, Arrivals
  <2>5. QED
    BY <2>1, <2>3, <2>4 DEF Says
<1>3. CASE Connect
  <2>1. ~isConnected /\ stateDoc = {} /\ UNCHANGED <<isConnected, stateDoc, desynced>>
    BY <1>1, <1>3 DEF Connect, pageVars, docVars, Ends, Arrivals
  <2>2. CASE conn
    <3>1. state \in Version /\ doc \subseteq Item
      BY <1>1, <2>2, TypeParts DEF SyncInv, Ends, PlainTypes, RestTypes
    <3>2. toPage' = <<State(state), Update(doc)>>
      BY <1>3, <2>2 DEF Connect
    <3>3. State(state).type = "state" /\ Update(doc).type = "doc"
      BY <3>1, Messages
    <3>4. QED
      BY <1>1, <2>1, <3>2, <3>3 DEF Arrivals
  <2>3. CASE ~conn
    <3>1. toPage' = <<Error, Close>> /\ served' = "lost"
      BY <1>3, <2>3 DEF Connect
    <3>2. QED
      BY <1>1, <2>1, <3>1, Messages DEF Arrivals
  <2>4. QED
    BY <2>2, <2>3
<1>4. ASSUME LeaveSocket PROVE Arrivals'
  <2>1. link' = "down" /\ toPage' = <<>> /\ stateDoc' = {} /\ isConnected' = FALSE
    BY <1>4 DEF LeaveSocket, HandleClose
  <2>2. 1 .. Len(<<>>) = {}
    OBVIOUS
  <2>3. QED
    BY <2>1, <2>2 DEF Arrivals
<1>5. CASE AttemptFails
  BY <1>1, <1>5 DEF AttemptFails, HandleClose, linkVars, servedVars, Ends, Arrivals
<1>6. CASE PageReceives
  <2>1. toPage # <<>> /\ toPage \in Seq(Message) /\ link = "open" /\ Head(toPage) = toPage[1]
    BY <1>1, <1>6, TailFacts DEF PageReceives, QueuesFit, Fits, Ends, PlainTypes
  <2>2. ASSUME toPage' = Tail(toPage), UNCHANGED served, Head(toPage).type # "error"
        PROVE  \A i \in 1 .. Len(toPage') : toPage'[i].type # "error"
    <3>1. SUFFICES ASSUME NEW i \in 1 .. Len(toPage'), toPage'[i].type = "error" PROVE FALSE
      OBVIOUS
    <3>2. i + 1 \in 1 .. Len(toPage) /\ toPage[i + 1].type = "error"
      BY <2>1, <2>2, <3>1, TailFacts
    <3>3. toPage = <<Error, Close>>
      BY <1>1, <3>2 DEF Arrivals
    <3>4. QED
      BY <2>1, <2>2, <3>3, Messages
  <2>3. CASE ReceiveState(Head(toPage)) /\ Head(toPage).type = "state"
    BY <2>2, <2>3 DEF ReceiveState, servedVars, Arrivals
  <2>4. ASSUME isConnected, UNCHANGED <<isConnected, desynced>>, toPage' = Tail(toPage),
               UNCHANGED served, Head(toPage).type # "error"
        PROVE  Arrivals'
    BY <1>1, <2>2, <2>4 DEF Arrivals
  <2>5. Head(toPage).type \notin {"state", "error", "close"} => isConnected
    BY <1>1, <2>1 DEF Arrivals
  <2>6. CASE ReceiveDelta(Head(toPage)) /\ Head(toPage).type = "state-delta"
    BY <1>4, <2>4, <2>5, <2>6 DEF ReceiveDelta, docVars, servedVars
  <2>7. CASE ReceiveResponse(Head(toPage)) /\ Head(toPage).type = "response"
    BY <2>4, <2>5, <2>7 DEF ReceiveResponse, docVars, servedVars
  <2>8. CASE Head(toPage).type = "doc" /\ toPage' = Tail(toPage)
             /\ UNCHANGED <<desynced, isConnected, servedVars>>
    BY <2>4, <2>5, <2>8 DEF servedVars
  <2>9. CASE Head(toPage).type = "error" /\ toPage' = Tail(toPage)
             /\ UNCHANGED <<pageVars, link, servedVars>>
    <3>1. 1 \in 1 .. Len(toPage)
      BY <2>1
    <3>2. toPage = <<Error, Close>>
      BY <1>1, <2>1, <2>9, <3>1 DEF Arrivals
    <3>3. toPage' = <<Close>>
      BY <2>9, <3>2
    <3>4. QED
      BY <1>1, <2>9, <3>3, Messages DEF Arrivals, pageVars, docVars
  <2>10. CASE LeaveSocket
    BY <1>4, <2>10
  <2>11. QED
    BY <1>6, <2>3, <2>6, <2>7, <2>8, <2>9, <2>10 DEF PageReceives
<1>7. ASSUME NEW e \in Item, Change(e) PROVE Arrivals'
  <2>1. isConnected
    BY <1>1, <1>7 DEF Change, HasCells, Arrivals
  <2>2. QED
    BY <1>1, <1>7, <2>1 DEF Change, servedVars, Arrivals
<1>8. CASE UNCHANGED Ear
  BY <1>1, <1>8 DEF Ear, Arrivals
<1>9. QED
  BY <1>2, <1>3, <1>4, <1>5, <1>6, <1>7, <1>8, OthersKeep DEF LinkBreaks

-----------------------------------------------------------------------------
(* Versions.                                                               *)

\* Two messages are sent at once when a socket opens.
LEMMA LeadsTwo ==
  ASSUME NEW m \in Message, NEW n \in Message, NEW a \in Known, NEW b \in Known,
         Brings(m, a, b), a <= b, Brings(n, b, b)
  PROVE  Leads(<<m, n>>, a, b)
<1> DEFINE f == [i \in 0 .. 2 |-> IF i = 0 THEN a ELSE b]
<1>1. Len(<<m, n>>) = 2 /\ <<m, n>>[1] = m /\ <<m, n>>[2] = n
  OBVIOUS
<1>2. f \in [0 .. 2 -> Known] /\ f[0] = a /\ f[1] = b /\ f[2] = b
  OBVIOUS
<1>3. a \in Int /\ b \in Int
  BY SyncBoundsAssumption DEF Known
<1> HIDE DEF f
<1>4. \A i \in 1 .. 2 : Brings(<<m, n>>[i], f[i - 1], f[i])
  <2>1. \A i \in 1 .. 2 : i = 1 \/ i = 2
    OBVIOUS
  <2>2. 1 - 1 = 0 /\ 2 - 1 = 1
    OBVIOUS
  <2>3. QED
    BY <1>1, <1>2, <2>1, <2>2
<1>5. \A i, j \in 0 .. 2 : i <= j => f[i] <= f[j]
  <2>1. \A i \in 0 .. 2 : i = 0 \/ i = 1 \/ i = 2
    OBVIOUS
  <2>2. QED
    BY <1>2, <1>3, <2>1
<1>6. QED
  BY <1>1, <1>2, <1>4, <1>5 DEF Leads, Trace

\* What is under way on the uplink takes the server to the desktop's state.
UpLeads == state <= deskState /\ (uplink = "open" => Leads(up, state, deskState))

PageLeads == \E b \in Known : Leads(toPage, last, b) /\ Behind(b) /\ (served = "open" => b = state)

\* The two directions that the steps are about.
LEMMA VersionParts == Versions <=> UpLeads /\ PageLeads
  BY DEF Versions, UpLeads, PageLeads

\* What the versions' proofs need of the types.
LEMMA KnownVersions ==
  ASSUME SyncInv
  PROVE  /\ deskState \in Version /\ state \in Known /\ last \in Known /\ deskState \in Known
         /\ NoVersion \in Known /\ NoVersion = -1 /\ Known \subseteq Int /\ Version \subseteq Nat
         /\ up \in Seq(Message) /\ toPage \in Seq(Message)
  BY TypeParts, SyncBoundsAssumption
  DEF SyncInv, PlainTypes, QueueTypes, RestTypes, NoVersion, Version, Known

\* The desktop's state moves on, and says so over an open uplink.
DeskMoves ==
  /\ deskState < MaxVersion /\ deskState' = deskState + 1
  /\ SendUp(State(deskState + 1)) /\ UNCHANGED <<uplink, conn, state>>

\* What can happen to the uplink and its versions.
LEMMA UplinkCases ==
  ASSUME [Next]_vars
  PROVE  \/ DeskMoves \/ (\E e \in DeskEdit : DeskEdits(e)) \/ UplinkOpens \/ UplinkBreaks
         \/ ServerReceivesUplink \/ ReleaseSlot \/ UNCHANGED <<deskState, uplink, up, conn, state>>
<1> USE DEF deskVars, connVars
<1>1. DeskChanges => DeskMoves
  BY DEF DeskChanges, DeskMoves
<1>2. DeskReceives => DeskMoves \/ UNCHANGED <<deskState, uplink, up, conn, state>>
  BY DEF DeskReceives, DeskMoves
<1>3. Connect \/ LinkBreaks \/ AttemptFails \/ PageReceives \/ ServerReceives \/ UNCHANGED vars
        => UNCHANGED <<deskState, uplink, up, conn, state>>
  BY DEF Connect, LinkBreaks, AttemptFails, PageReceives, ServerReceives, vars
<1>4. \A x : ServerReceivesOld(x) \/ OldIsLost(x) \/ Answer(x) \/ Send(x) \/ Evict(x) \/ Change(x)
               => UNCHANGED <<deskState, uplink, up, conn, state>>
  BY DEF ServerReceivesOld, OldIsLost, Answer, Send, Evict, Change
<1>5. QED
  BY <1>1, <1>2, <1>3, <1>4 DEF Next, Operator, Deliver, UndoAll

\* What is on its way up still leads to the state of the desktop.
LEMMA UpLeadsStep ==
  ASSUME SyncInv, [Next]_vars
  PROVE  UpLeads'
<1>1. UpLeads /\ PlainTypes /\ RestTypes /\ QueuesFit /\ Ends
  BY VersionParts, TypeParts, QueuesFitting, SocketParts DEF SyncInv
<1>2. /\ deskState \in Version /\ state \in Known /\ deskState \in Known
      /\ NoVersion \in Known /\ NoVersion = -1 /\ Known \subseteq Int /\ Version \subseteq Nat
      /\ up \in Seq(Message)
  BY KnownVersions
<1>3. CASE DeskMoves
  <2>1. /\ deskState + 1 \in Version /\ deskState + 1 \in Known /\ deskState <= deskState + 1
        /\ state <= deskState + 1
    BY <1>1, <1>2, <1>3, SyncBoundsAssumption DEF DeskMoves, Version, Known, UpLeads
  <2>2. /\ State(deskState + 1) \in Message
        /\ Brings(State(deskState + 1), deskState, deskState + 1)
    BY <2>1, Messages DEF Brings
  <2>3. CASE uplink = "open"
    <3>1. Leads(Append(up, State(deskState + 1)), state, deskState + 1)
      BY <1>1, <1>2, <2>1, <2>2, <2>3, LeadsAppend DEF UpLeads
    <3>2. QED
      BY <1>3, <2>1, <2>3, <3>1 DEF DeskMoves, SendUp, UpLeads
  <2>4. CASE uplink # "open"
    BY <1>3, <2>1, <2>4 DEF DeskMoves, UpLeads
  <2>5. QED
    BY <2>3, <2>4
<1>4. ASSUME NEW e \in DeskEdit, DeskEdits(e) PROVE UpLeads'
  <2>1. /\ Update({e}) \in Message /\ Brings(Update({e}), deskState, deskState)
        /\ deskState <= deskState
    BY <1>2, Messages DEF Brings, Item
  <2>2. uplink = "open" => Leads(Append(up, Update({e})), state, deskState)
    BY <1>1, <1>2, <2>1, LeadsAppend DEF UpLeads
  <2>3. QED
    BY <1>1, <1>4, <2>2 DEF DeskEdits, SendUp, connVars, UpLeads
<1>5. CASE UplinkOpens
  <2>1. /\ State(deskState) \in Message /\ Brings(State(deskState), NoVersion, deskState)
        /\ Update(deskDoc) \in Message /\ Brings(Update(deskDoc), deskState, deskState)
    BY <1>1, <1>2, Messages DEF Brings, RestTypes
  <2>2. NoVersion <= deskState
    BY <1>2
  <2>3. Leads(<<State(deskState), Update(deskDoc)>>, NoVersion, deskState)
    BY <1>2, <2>1, <2>2, LeadsTwo
  <2>4. QED
    BY <1>5, <2>2, <2>3 DEF UplinkOpens, UpLeads
<1>6. CASE UplinkBreaks
  BY <1>1, <1>6 DEF UplinkBreaks, UpLeads
<1>7. CASE ServerReceivesUplink
  <2>1. up # <<>> /\ up' = Tail(up) /\ uplink = "open" /\ UNCHANGED deskVars
    BY <1>1, <1>7 DEF ServerReceivesUplink, Ends, PlainTypes
  <2>2. PICK c \in Known : Brings(Head(up), state, c) /\ Leads(Tail(up), c, deskState)
    BY <1>1, <1>2, <2>1, LeadsTail DEF UpLeads
  <2>3. state' = c
    BY <1>7, <2>2 DEF ServerReceivesUplink, Brings
  <2>4. c <= deskState
    <3>1. Tail(up) \in Seq(Message)
      BY <1>2, <2>1
    <3>2. QED
      BY <2>2, <3>1, LeadsBetween
  <2>5. QED
    BY <2>1, <2>2, <2>3, <2>4 DEF deskVars, UpLeads
<1>8. CASE ReleaseSlot
  BY <1>1, <1>2, <1>8 DEF ReleaseSlot, deskVars, Ends, UpLeads
<1>9. CASE UNCHANGED <<deskState, uplink, up, conn, state>>
  BY <1>1, <1>9 DEF UpLeads
<1>10. QED
  BY <1>3, <1>4, <1>5, <1>6, <1>7, <1>8, <1>9, UplinkCases

\* No step leaves the server behind a version that it was not behind before.
LEMMA BehindStep ==
  ASSUME SyncInv, [Next]_vars, NEW b \in Known, Behind(b)
  PROVE  Behind(b)'
<1>1. UpLeads /\ PlainTypes /\ RestTypes /\ QueuesFit /\ Ends
  BY VersionParts, TypeParts, QueuesFitting, SocketParts DEF SyncInv
<1>2. deskState \in Nat /\ state \in Int /\ b \in Int /\ up \in Seq(Message)
  BY KnownVersions
<1>3. ASSUME NEW m \in Message, up' = Append(up, m), m.type = "state" => b <= m.state,
             b <= deskState', UNCHANGED <<conn, state>>
      PROVE  Behind(b)'
  <2>1. /\ Len(Append(up, m)) = Len(up) + 1 /\ Append(up, m)[Len(up) + 1] = m
        /\ \A i \in 1 .. Len(up) : Append(up, m)[i] = up[i]
    BY <1>2, AppendFacts
  <2>2. \A i \in 1 .. Len(Append(up, m)) : i \in 1 .. Len(up) \/ i = Len(up) + 1
    BY <1>2, <2>1
  <2>3. QED
    BY <1>3, <2>1, <2>2 DEF Behind
<1>4. CASE DeskMoves
  <2>1. b <= deskState + 1 /\ deskState + 1 \in Version
    BY <1>1, <1>2, <1>4, SyncBoundsAssumption DEF DeskMoves, Behind, PlainTypes, Version
  <2>2. State(deskState + 1) \in Message /\ State(deskState + 1).state = deskState + 1
    BY <2>1, Messages
  <2>3. QED
    BY <1>3, <1>4, <2>1, <2>2 DEF DeskMoves, SendUp, Behind
<1>5. ASSUME NEW e \in DeskEdit, DeskEdits(e) PROVE Behind(b)'
  <2>1. Update({e}) \in Message /\ Update({e}).type = "doc"
    BY Messages DEF Item
  <2>2. QED
    BY <1>3, <1>5, <2>1 DEF DeskEdits, SendUp, Behind, connVars
<1>6. CASE UplinkOpens
  <2>1. /\ State(deskState).state = deskState /\ Update(deskDoc).type = "doc"
    BY <1>1, Messages DEF PlainTypes, RestTypes
  <2>2. up' = <<State(deskState), Update(deskDoc)>> /\ conn' = FALSE /\ deskState' = deskState
    BY <1>1, <1>6 DEF UplinkOpens, Ends, PlainTypes
  <2>3. \A i \in 1 .. 2 : i = 1 \/ i = 2
    OBVIOUS
  <2>4. QED
    BY <2>1, <2>2, <2>3 DEF Behind
<1>7. CASE UplinkBreaks
  BY <1>7 DEF UplinkBreaks, Behind
<1>8. CASE ServerReceivesUplink
  <2>1. up # <<>> /\ up' = Tail(up) /\ UNCHANGED deskState
    BY <1>8 DEF ServerReceivesUplink, deskVars
  <2>2. /\ Len(Tail(up)) = Len(up) - 1 /\ Len(up) \in Nat \ {0} /\ Head(up) = up[1]
        /\ \A i \in 1 .. Len(Tail(up)) : Tail(up)[i] = up[i + 1]
    BY <1>2, <2>1, TailFacts
  <2>3. 1 \in 1 .. Len(up) /\ \A i \in 1 .. Len(Tail(up)) : i + 1 \in 1 .. Len(up)
    BY <2>2
  <2>4. \A i \in 1 .. Len(Tail(up)) : Tail(up)[i].type = "state" => b <= Tail(up)[i].state
    BY <2>2, <2>3 DEF Behind
  <2>5. conn' => b <= state'
    BY <1>8, <2>2, <2>3 DEF ServerReceivesUplink, Behind
  <2>6. QED
    BY <2>1, <2>4, <2>5 DEF Behind
<1>9. CASE ReleaseSlot
  BY <1>9 DEF ReleaseSlot, deskVars, Behind
<1>10. CASE UNCHANGED <<deskState, uplink, up, conn, state>>
  BY <1>10 DEF Behind
<1>11. QED
  BY <1>4, <1>5, <1>6, <1>7, <1>8, <1>9, <1>10, UplinkCases

\* What is under way to the page goes on leading to the version that the server has.
LEMMA PageLeadsStep ==
  ASSUME SyncInv, [Next]_vars
  PROVE  PageLeads'
<1>1. UpLeads /\ PlainTypes /\ RestTypes /\ QueuesFit /\ Ends
  BY VersionParts, TypeParts, QueuesFitting, SocketParts DEF SyncInv
<1>2. /\ state \in Known /\ last \in Known /\ Known \subseteq Int
      /\ up \in Seq(Message) /\ toPage \in Seq(Message)
  BY KnownVersions
<1>3. PICK b \in Known : Leads(toPage, last, b) /\ Behind(b) /\ (served = "open" => b = state)
  BY VersionParts DEF SyncInv, PageLeads
<1>4. last <= b
  BY <1>2, <1>3, LeadsBetween
<1>5. Behind(b)'
  BY <1>3, BehindStep
<1>0. PICK a \in Known : a = last
  BY <1>2
<1>6. Behind(a)'
  <2>1. Behind(a)
    <3>1. deskState \in Int /\ b \in Int /\ last \in Int /\ state \in Int
      BY <1>2, <1>3, KnownVersions
    <3>2. \A i \in 1 .. Len(up) : up[i].type = "state" => up[i].state \in Int
      BY <1>1, <1>2, MessageParts, KnownVersions
    <3>3. QED
      BY <1>0, <1>3, <1>4, <3>1, <3>2 DEF Behind
  <2>2. QED
    BY <2>1, BehindStep
<1>7. ASSUME NEW m \in Message, m.type \notin {"state", "state-delta"}
      PROVE  Leads(Append(toPage, m), last, b)
  <2>1. Brings(m, b, b) /\ b <= b
    BY <1>2, <1>3, <1>7 DEF Brings
  <2>2. QED
    BY <1>2, <1>3, <2>1, LeadsAppend
<1>8. CASE ServerReceivesUplink
  <2>1. up # <<>> /\ Head(up) \in Message /\ UNCHANGED <<last, served>>
    BY <1>1, <1>8, FitsKept DEF ServerReceivesUplink, QueuesFit, pageVars
  <2>2. CASE Head(up).type = "doc" /\ Merge(Head(up).items, TRUE) /\ UNCHANGED <<conn, state, seen>>
    <3>1. Update(Head(up).items) \in Message /\ Update(Head(up).items).type = "doc"
      BY <2>1, <2>2, MessageParts, Messages
    <3>2. Leads(toPage', last, b)
      BY <1>3, <1>7, <2>2, <3>1 DEF Merge, Sending
    <3>3. QED
      BY <1>3, <1>5, <2>1, <2>2, <3>2 DEF PageLeads
  <2>3. CASE Head(up).type = "state" /\ state' = Head(up).state /\ conn' = TRUE
             /\ Broadcast(Head(up).state)
    <3>1. state' \in Version /\ state' \in Known
      BY <2>1, <2>3, MessageParts, SyncBoundsAssumption DEF Version, Known
    <3> PICK v \in Known : v = state'
      BY <3>1
    <3>2. CASE served = "open" /\ seen # state'
      <4>1. seen = state /\ b = state /\ state \in Version
        BY <1>1, <1>3, <3>2 DEF Ends, PlainTypes
      <4>2. b <= state'
        BY <1>5, <2>3 DEF Behind
      <4>3. /\ Delta(seen, state') \in Message /\ Brings(Delta(seen, state'), b, state')
        <5>1. b < state'
          BY <1>2, <1>3, <3>1, <3>2, <4>1, <4>2
        <5>2. QED
          BY <3>1, <4>1, <5>1, Messages DEF Brings
      <4>4. Leads(Append(toPage, Delta(seen, state')), last, state')
        BY <1>2, <1>3, <3>1, <4>2, <4>3, LeadsAppend
      <4>5. toPage' = Append(toPage, Delta(seen, state'))
        BY <2>3, <3>2 DEF Broadcast
      <4>6. Behind(v)'
        <5>1. UpLeads' /\ up \in Seq(Message) /\ up' = Tail(up) /\ uplink' = "open"
          BY <1>1, <1>2, <1>8, UpLeadsStep DEF ServerReceivesUplink, deskVars, Ends, PlainTypes
        <5>2. Leads(up', state', deskState') /\ state' <= deskState' /\ up' \in Seq(Message)
          BY <2>1, <5>1 DEF UpLeads
        <5>3. \A i \in 1 .. Len(up') : up'[i].type = "state" => state' <= up'[i].state
          BY <5>2, LeadsBetween
        <5>4. state' <= state'
          BY <1>2, <3>1
        <5>5. QED
          BY <5>2, <5>3, <5>4 DEF Behind
      <4>7. QED
        BY <2>1, <4>4, <4>5, <4>6 DEF PageLeads
    <3>3. CASE ~(served = "open" /\ seen # state')
      <4>1. toPage' = toPage /\ (served = "open" => state' = state)
        BY <1>1, <2>3, <3>3 DEF Broadcast, Ends
      <4>2. QED
        BY <1>3, <1>5, <2>1, <4>1 DEF PageLeads
    <3>4. QED
      BY <3>2, <3>3
  <2>4. QED
    BY <1>8, <2>2, <2>3 DEF ServerReceivesUplink
<1>9. CASE ServerStep /\ ~ServerReceivesUplink
  <2>1. PICK m : Says(m)
    BY <1>9, ServerSays
  <2>2. m \in Message /\ m.type \notin {"state", "state-delta"} /\ toPage' \in {toPage, Sending(m)}
    BY <1>9, <2>1 DEF Says
  <2>3. Leads(toPage', last, b)
    BY <1>3, <1>7, <2>2 DEF Sending
  <2>4. UNCHANGED last
    BY <1>9 DEF ServerStep, ReleaseSlot, ServerReceives, ServerReceivesOld, Answer, pageVars
  <2>5. served' = "open" => served = "open" /\ state' = state
    <3>1. ReleaseSlot => served' # "open"
      BY DEF ReleaseSlot
    <3>2. ~ReleaseSlot => state' = state
      BY <1>9 DEF ServerStep, ServerReceives, ServerReceivesOld, Answer, connVars
    <3>3. served' # served => served' # "open"
      BY <2>1 DEF Says
    <3>4. QED
      BY <3>1, <3>2, <3>3
  <2>6. QED
    BY <1>3, <1>5, <2>3, <2>4, <2>5 DEF PageLeads
<1>10. CASE Connect
  <2>1. toPage = <<>> /\ UNCHANGED <<last, state, conn, deskState, up>>
    BY <1>1, <1>10 DEF Connect, Ends, pageVars, connVars, deskVars
  <2>2. b = last
    BY <1>2, <1>3, <2>1, LeadsNowhere
  <2>3. CASE conn
    <3>1. state \in Version /\ doc \subseteq Item
      BY <1>1, <2>3 DEF Ends, PlainTypes, RestTypes
    <3>2. last <= state
      BY <1>3, <2>2, <2>3 DEF Behind
    <3>3. /\ State(state) \in Message /\ Brings(State(state), last, state)
          /\ Update(doc) \in Message /\ Brings(Update(doc), state, state)
      BY <3>1, Messages DEF Brings
    <3>4. Leads(<<State(state), Update(doc)>>, last, state)
      BY <1>2, <3>2, <3>3, LeadsTwo
    <3>5. toPage' = <<State(state), Update(doc)>>
      BY <1>10, <2>3 DEF Connect
    <3>6. Behind(state)
      <4>1. \A i \in 1 .. Len(up) : up[i].type = "state" => uplink = "open"
        <5>1. up = <<>> => 1 .. Len(up) = {}
          OBVIOUS
        <5>2. QED
          BY <1>1, <5>1 DEF Ends, PlainTypes
      <4>2. \A i \in 1 .. Len(up) : up[i].type = "state" => state <= up[i].state
        BY <1>1, <1>2, <4>1, LeadsBetween DEF UpLeads
      <4>3. state <= state
        BY <1>2
      <4>4. QED
        BY <1>1, <4>2, <4>3 DEF Behind, UpLeads
    <3>7. QED
      BY <1>2, <2>1, <3>4, <3>5, <3>6 DEF PageLeads, Behind
  <2>4. CASE ~conn
    <3>1. Brings(Error, last, last) /\ Brings(Close, last, last) /\ last <= last
      BY <1>2, Messages DEF Brings
    <3>2. Leads(<<Error, Close>>, last, last)
      BY <1>2, <3>1, LeadsTwo, Messages
    <3>3. toPage' = <<Error, Close>> /\ served' = "lost"
      BY <1>10, <2>4 DEF Connect
    <3>4. QED
      BY <1>0, <1>6, <2>1, <3>2, <3>3 DEF PageLeads
  <2>5. QED
    BY <2>3, <2>4
<1>11. ASSUME LeaveSocket, UNCHANGED last PROVE PageLeads'
  <2>1. Leads(<<>>, last, last)
    BY <1>2, LeadsNowhere
  <2>2. QED
    BY <1>0, <1>6, <1>11, <2>1 DEF LeaveSocket, PageLeads
<1>12. CASE PageReceives
  <2>1. (toPage # <<>> /\ UNCHANGED <<state, link>>) \/ LeaveSocket
    BY <1>12 DEF PageReceives, connVars, ReceiveState, ReceiveDelta, ReceiveResponse
  <2>2. toPage # <<>> /\ UNCHANGED state /\ Head(toPage) \in Message /\ Head(toPage) = toPage[1]
    BY <1>1, <1>2, <1>12, FitsKept, TailFacts DEF PageReceives, connVars, QueuesFit
  <2>3. PICK c \in Known : Brings(Head(toPage), last, c) /\ Leads(Tail(toPage), c, b)
    BY <1>2, <1>3, <2>2, LeadsTail
  <2>4. ASSUME last' = c, toPage' = Tail(toPage), UNCHANGED servedVars PROVE PageLeads'
    BY <1>3, <1>5, <2>2, <2>3, <2>4 DEF PageLeads, servedVars
  <2>5. CASE Head(toPage).type = "state" /\ ReceiveState(Head(toPage))
    BY <2>3, <2>4, <2>5 DEF ReceiveState, Brings
  <2>6. CASE Head(toPage).type = "state-delta" /\ ReceiveDelta(Head(toPage))
    <3>1. ~desynced
      BY <1>1, <1>12, <2>2, <2>6 DEF SyncInv, Arrivals, Ends, PlainTypes
    <3>2. Patched(Head(toPage)) = c
      BY <2>3, <2>6 DEF Brings, Patched
    <3>3. QED
      BY <1>11, <2>4, <2>6, <3>1, <3>2 DEF ReceiveDelta
  <2>7. CASE Head(toPage).type = "response" /\ ReceiveResponse(Head(toPage))
    BY <2>3, <2>4, <2>7 DEF ReceiveResponse, Brings
  <2>8. CASE Head(toPage).type \in {"doc", "error"} /\ toPage' = Tail(toPage)
             /\ UNCHANGED <<last, servedVars>>
    BY <2>3, <2>4, <2>8 DEF Brings
  <2>9. CASE LeaveSocket /\ UNCHANGED last
    BY <1>11, <2>9
  <2>10. QED
    BY <1>12, <2>5, <2>6, <2>7, <2>8, <2>9 DEF PageReceives, pageVars
<1>13. ASSUME UNCHANGED <<toPage, last, served>>, served = "open" => UNCHANGED state
       PROVE  PageLeads'
  BY <1>3, <1>5, <1>13 DEF PageLeads
<1>14. CASE AttemptFails
  BY <1>13, <1>14 DEF AttemptFails, linkVars, servedVars, connVars
<1>15. ASSUME NEW e \in Item, Change(e) PROVE PageLeads'
  BY <1>13, <1>15 DEF Change, servedVars, connVars
<1>16. CASE UNCHANGED Ear /\ ~ServerStep
  <2>1. served = "open" => ~UplinkOpens
    BY <1>1 DEF Ends, UplinkOpens
  <2>2. ServerReceivesUplink \/ ReleaseSlot => ServerStep
    BY DEF ServerStep
  <2>3. DeskMoves \/ (\E e \in DeskEdit : DeskEdits(e)) \/ UplinkBreaks => UNCHANGED state
    BY DEF DeskMoves, DeskEdits, UplinkBreaks, connVars
  <2>4. QED
    BY <1>13, <1>16, <2>1, <2>2, <2>3, UplinkCases DEF Ear
<1>17. QED
  BY <1>8, <1>9, <1>10, <1>11, <1>12, <1>14, <1>15, <1>16, OthersKeep DEF LinkBreaks

-----------------------------------------------------------------------------
(* Documents.                                                              *)

\* Of the desktop's copy and the server's, what one lacks is on its way to it.
UpDocs ==
  /\ Items(up) \subseteq deskDoc
  /\ uplink = "open" => deskDoc \subseteq doc \union Items(up)
  /\ slot = "live" => Items(down) \subseteq doc /\ doc \subseteq deskDoc \union Items(down)

\* The same of the server's copy and the page's.
PageDocs ==
  /\ Items(toServer) \subseteq stateDoc
  /\ served = "open" =>
       /\ Items(toPage) \subseteq doc /\ doc \subseteq stateDoc \union Items(toPage)
       /\ stateDoc \subseteq doc \union Items(toServer)

\* The two hops of the document that the steps are about.
LEMMA DocumentParts == Documents <=> UpDocs /\ PageDocs
  BY DEF Documents, UpDocs, PageDocs

\* A message that is no update carries nothing, and what is merged goes to whom it is news.
LEMMA Carried ==
  ASSUME SyncInv
  PROVE  /\ \A m \in Message : m.type # "doc" =>
              /\ SendUp(m) => Items(up') = Items(up)
              /\ SendDown(m) => Items(down') = Items(down)
              /\ Items(Sending(m)) = Items(toPage)
              /\ Items(Append(toServer, m)) = Items(toServer)
         /\ \A items \in SUBSET Item :
              /\ uplink = "open" /\ SendUp(Update(items)) => Items(up') = Items(up) \union items
              /\ slot = "live" /\ SendDown(Update(items)) => Items(down') = Items(down) \union items
              /\ served = "open" => Items(Sending(Update(items))) = Items(toPage) \union items
              /\ Items(Append(toServer, Update(items))) = Items(toServer) \union items
<1>1. /\ up \in Seq(Message) /\ down \in Seq(Message)
      /\ toPage \in Seq(Message) /\ toServer \in Seq(Message)
  BY TypeParts DEF SyncInv, QueueTypes
<1>2. ASSUME NEW s \in Seq(Message)
      PROVE  /\ \A m \in Message : m.type # "doc" => Items(Append(s, m)) = Items(s)
             /\ \A items \in SUBSET Item : Items(Append(s, Update(items))) = Items(s) \union items
  <2>1. ASSUME NEW m \in Message, m.type # "doc" PROVE Items(Append(s, m)) = Items(s)
    BY <2>1, ItemsAppend
  <2>2. ASSUME NEW items \in SUBSET Item
        PROVE  Items(Append(s, Update(items))) = Items(s) \union items
    <3>1. Update(items) \in Message /\ Update(items).type = "doc" /\ Update(items).items = items
      BY Messages
    <3>2. QED
      BY <3>1, ItemsAppend
  <2>3. QED
    BY <2>1, <2>2
<1>3. \A m \in Message : m.type # "doc" =>
        /\ SendUp(m) => Items(up') = Items(up)
        /\ SendDown(m) => Items(down') = Items(down)
        /\ Items(Sending(m)) = Items(toPage)
        /\ Items(Append(toServer, m)) = Items(toServer)
  BY <1>1, <1>2 DEF SendUp, SendDown, Sending
<1>4. \A items \in SUBSET Item :
        /\ uplink = "open" /\ SendUp(Update(items)) => Items(up') = Items(up) \union items
        /\ slot = "live" /\ SendDown(Update(items)) => Items(down') = Items(down) \union items
        /\ served = "open" => Items(Sending(Update(items))) = Items(toPage) \union items
        /\ Items(Append(toServer, Update(items))) = Items(toServer) \union items
  BY <1>1, <1>2 DEF SendUp, SendDown, Sending
<1>5. QED
  BY <1>3, <1>4

\* What is left when a message is received.
LEMMA Received ==
  ASSUME NEW s, NEW kinds, Fits(s, kinds), s # <<>>
  PROVE  /\ Head(s).type = "doc" => Items(s) = Head(s).items \union Items(Tail(s))
         /\ Head(s).type # "doc" => Items(s) = Items(Tail(s))
  BY ItemsTail DEF Fits

\* A merge, as the desktop and the page see it.
LEMMA Merged ==
  ASSUME SyncInv, NEW items \in SUBSET Item, NEW b \in BOOLEAN, Merge(items, b)
  PROVE  /\ doc' = doc \union items
         /\ slot = "live" =>
              \/ doc' = doc /\ down' = down
              \/ Items(down') = Items(down) \union items
         /\ \/ doc' = doc /\ toPage' = toPage
            \/ ~b /\ toPage' = toPage
            \/ b /\ (served = "open" => Items(toPage') = Items(toPage) \union items)
<1>1. CASE items \subseteq doc
  <2>1. doc' = doc \union items /\ down' = down /\ toPage' = toPage
    BY <1>1 DEF Merge
  <2>2. doc' = doc
    BY <1>1, <2>1
  <2>3. QED
    BY <2>1, <2>2
<1>2. CASE ~(items \subseteq doc)
  <2>1. /\ doc' = doc \union items /\ SendDown(Update(items))
        /\ toPage' = IF b THEN Sending(Update(items)) ELSE toPage
    BY <1>2 DEF Merge
  <2>2. slot = "live" => Items(down') = Items(down) \union items
    BY <2>1, Carried
  <2>3. served = "open" => Items(Sending(Update(items))) = Items(toPage) \union items
    BY Carried
  <2>4. QED
    BY <2>1, <2>2, <2>3
<1>3. QED
  BY <1>1, <1>2

\* Where a message of the page takes the document.
LEMMA Handled ==
  ASSUME NEW m \in Message, NEW b \in BOOLEAN, Handle(m, b)
  PROVE  \/ /\ m.type = "doc" /\ m.items \in SUBSET (Item \ Oversized)
            /\ Merge(m.items, ~b) /\ UNCHANGED served
         \/ /\ m.type = "doc" /\ UNCHANGED <<doc, down>>
            /\ \/ b /\ served' = "closing"
               \/ UNCHANGED <<served, toPage>> /\ ~b
         \/ /\ m.type = "command" /\ UNCHANGED <<doc, served, toPage>>
            /\ m.id \in Command /\ (SendDown(Cmd(m.id)) \/ UNCHANGED down)
<1>1. m.type = "doc" => m.items \subseteq Item
  BY MessageParts
<1>2. m.type = "command" => m.id \in Command
  BY MessageParts
<1>3. CASE m.type = "doc" /\ ReceiveUpdate(m.items, b)
  BY <1>1, <1>3 DEF ReceiveUpdate
<1>4. CASE m.type = "command" /\ ReceiveCommand(m.id, b)
  BY <1>2, <1>4 DEF ReceiveCommand
<1>5. QED
  BY <1>3, <1>4 DEF Handle

\* What desktop and server lack of each other's document goes on being on its way.
LEMMA UpDocsStep ==
  ASSUME SyncInv, [Next]_vars
  PROVE  UpDocs'
<1>1. UpDocs /\ PlainTypes /\ RestTypes /\ QueuesFit /\ Ends
  BY DocumentParts, TypeParts, QueuesFitting, SocketParts DEF SyncInv
<1>2. \A items \in SUBSET Item, b \in BOOLEAN : Merge(items, b) =>
        /\ doc' = doc \union items
        /\ slot = "live" =>
             \/ doc' = doc /\ down' = down
             \/ Items(down') = Items(down) \union items
  BY Merged
<1>3. ASSUME NEW items \in SUBSET Item, NEW b \in BOOLEAN, Merge(items, b),
             UNCHANGED <<deskDoc, uplink, slot, up>>
      PROVE  UpDocs'
  BY <1>1, <1>2, <1>3 DEF UpDocs
<1>4. \A m \in Message : m.type # "doc" =>
        (SendUp(m) => Items(up') = Items(up)) /\ (SendDown(m) => Items(down') = Items(down))
  BY Carried
<1>5. ASSUME UNCHANGED <<deskDoc, uplink, slot, doc>>, Items(up') = Items(up),
             Items(down') = Items(down)
      PROVE  UpDocs'
  BY <1>1, <1>5 DEF UpDocs
<1> USE DEF deskVars, connVars
<1>6. CASE DeskChanges
  <2>1. State(deskState + 1) \in Message /\ State(deskState + 1).type # "doc"
    BY <1>1, <1>6, SyncBoundsAssumption, Messages DEF DeskChanges, PlainTypes, Version
  <2>2. QED
    BY <1>4, <1>5, <1>6, <2>1 DEF DeskChanges
<1>7. ASSUME NEW e \in DeskEdit, DeskEdits(e) PROVE UpDocs'
  <2>1. {e} \in SUBSET Item /\ SendUp(Update({e}))
    BY <1>7 DEF DeskEdits, Item
  <2>2. uplink = "open" => Items(up') = Items(up) \union {e}
    BY <2>1, Carried
  <2>3. uplink # "open" => up' = up
    BY <2>1 DEF SendUp
  <2>4. QED
    BY <1>1, <1>7, <2>2, <2>3 DEF DeskEdits, UpDocs
<1>8. CASE UplinkOpens
  <2>1. /\ State(deskState) \in Message /\ State(deskState).type # "doc"
        /\ Update(deskDoc) \in Message /\ Update(deskDoc).type = "doc"
        /\ Update(deskDoc).items = deskDoc
    BY <1>1, Messages DEF PlainTypes, RestTypes
  <2>2. Items(<<State(deskState), Update(deskDoc)>>) = deskDoc
    BY <2>1, ItemsTwo
  <2>3. QED
    BY <1>8, <2>2, ItemsEmpty DEF UplinkOpens, UpDocs
<1>9. CASE UplinkBreaks
  BY <1>9, ItemsEmpty DEF UplinkBreaks, UpDocs
<1>10. CASE DeskReceives
  <2>1. down # <<>> /\ down' = Tail(down) /\ uplink = "open" /\ slot = "live"
    BY <1>1, <1>10 DEF DeskReceives, Ends, PlainTypes
  <2>2. CASE Head(down).type = "doc" /\ deskDoc' = deskDoc \union Head(down).items /\ UNCHANGED up
    <3>1. Items(down) = Head(down).items \union Items(down')
      BY <1>1, <2>1, <2>2, Received DEF QueuesFit
    <3>2. QED
      BY <1>1, <1>10, <2>1, <2>2, <3>1 DEF DeskReceives, UpDocs
  <2>3. CASE Head(down).type = "command" /\ UNCHANGED deskDoc
    <3>1. Items(down') = Items(down)
      BY <1>1, <2>1, <2>3, Received DEF QueuesFit
    <3>2. Items(up') = Items(up)
      <4>1. CASE deskState < MaxVersion /\ SendUp(State(deskState + 1))
        <5>1. State(deskState + 1) \in Message /\ State(deskState + 1).type # "doc"
          BY <1>1, <4>1, SyncBoundsAssumption, Messages DEF PlainTypes, Version
        <5>2. QED
          BY <1>4, <4>1, <5>1
      <4>2. QED
        BY <1>10, <2>3, <4>1 DEF DeskReceives
    <3>3. QED
      BY <1>5, <1>10, <2>3, <3>1, <3>2 DEF DeskReceives
  <2>4. QED
    BY <1>10, <2>2, <2>3 DEF DeskReceives
<1>11. CASE ServerReceivesUplink
  <2>1. up # <<>> /\ up' = Tail(up) /\ Head(up) \in Message /\ UNCHANGED <<deskDoc, uplink, slot>>
    BY <1>1, <1>11, FitsKept DEF ServerReceivesUplink, QueuesFit
  <2>2. CASE Head(up).type = "state" /\ UNCHANGED <<doc, down>>
    <3>1. Items(up') = Items(up)
      BY <1>1, <2>1, <2>2, Received DEF QueuesFit
    <3>2. QED
      BY <1>5, <2>1, <2>2, <3>1
  <2>3. CASE Head(up).type = "doc" /\ Merge(Head(up).items, TRUE)
    <3>1. Items(up) = Head(up).items \union Items(up') /\ Head(up).items \in SUBSET Item
      BY <1>1, <2>1, <2>3, Received, MessageParts DEF QueuesFit
    <3>2. /\ doc' = doc \union Head(up).items
          /\ slot = "live" =>
               \/ doc' = doc /\ down' = down
               \/ Items(down') = Items(down) \union Head(up).items
      BY <1>2, <2>3, <3>1
    <3>3. QED
      BY <1>1, <2>1, <3>1, <3>2 DEF UpDocs
  <2>4. QED
    BY <1>11, <2>2, <2>3 DEF ServerReceivesUplink
<1>12. CASE ReleaseSlot
  BY <1>1, <1>12 DEF ReleaseSlot, Ends, UpDocs
<1>13. ASSUME NEW m \in Message, NEW b \in BOOLEAN, Handle(m, b),
              UNCHANGED <<deskDoc, uplink, slot, up>>
       PROVE  UpDocs'
  <2>1. CASE m.items \in SUBSET Item /\ Merge(m.items, ~b)
    <3>1. (~b) \in BOOLEAN
      OBVIOUS
    <3>2. QED
      BY <1>3, <1>13, <2>1, <3>1
  <2>2. CASE UNCHANGED <<doc, down>>
    BY <1>5, <1>13, <2>2
  <2>3. CASE m.id \in Command /\ SendDown(Cmd(m.id)) /\ UNCHANGED doc
    <3>1. Cmd(m.id) \in Message /\ Cmd(m.id).type # "doc"
      BY <2>3, Messages
    <3>2. QED
      BY <1>4, <1>5, <1>13, <2>3, <3>1
  <2>4. QED
    BY <1>13, <2>1, <2>2, <2>3, Handled
<1>14. CASE ServerReceives
  <2>1. Head(toServer) \in Message
    BY <1>1, <1>14, FitsKept DEF QueuesFit, ServerReceives
  <2>2. QED
    BY <1>5, <1>13, <1>14, <2>1 DEF ServerReceives
<1>15. ASSUME NEW m \in old, ServerReceivesOld(m) PROVE UpDocs'
  BY <1>1, <1>13, <1>15 DEF ServerReceivesOld, QueuesFit
<1>16. CASE Connect \/ LinkBreaks \/ AttemptFails \/ PageReceives \/ UNCHANGED vars
  BY <1>5, <1>16 DEF Connect, LinkBreaks, AttemptFails, PageReceives, vars
<1>17. \A x : OldIsLost(x) \/ Answer(x) \/ Send(x) \/ Evict(x) \/ Change(x)
                => UNCHANGED <<deskVars, slot, doc, up, down>>
  BY DEF OldIsLost, Answer, Send, Evict, Change
<1>18. QED
  BY <1>5, <1>6, <1>7, <1>8, <1>9, <1>10, <1>11, <1>12, <1>14, <1>15, <1>16, <1>17
     DEF Next, Operator, Deliver, UndoAll

\* What server and page lack of each other's document goes on being on its way.
LEMMA PageDocsStep ==
  ASSUME SyncInv, [Next]_vars
  PROVE  PageDocs'
<1>1. PageDocs /\ PlainTypes /\ RestTypes /\ QueuesFit /\ Ends /\ Arrivals
  BY DocumentParts, TypeParts, QueuesFitting, SocketParts DEF SyncInv
<1>2. \A items \in SUBSET Item, b \in BOOLEAN : Merge(items, b) =>
        /\ doc' = doc \union items
        /\ \/ doc' = doc /\ toPage' = toPage
           \/ ~b /\ toPage' = toPage
           \/ b /\ (served = "open" => Items(toPage') = Items(toPage) \union items)
  BY Merged
<1>3. \A m \in Message : m.type # "doc" =>
        Items(Sending(m)) = Items(toPage) /\ Items(Append(toServer, m)) = Items(toServer)
  BY Carried
<1>4. ASSUME UNCHANGED <<served, doc, stateDoc>>, Items(toPage') = Items(toPage),
             Items(toServer') = Items(toServer)
      PROVE  PageDocs'
  BY <1>1, <1>4 DEF PageDocs
<1>5. ASSUME NEW items \in SUBSET Item, Merge(items, TRUE), UNCHANGED <<served, stateDoc, toServer>>
      PROVE  PageDocs'
  BY <1>1, <1>2, <1>5 DEF PageDocs
<1> USE DEF connVars, servedVars, linkVars, pageVars, docVars
<1>6. CASE UplinkOpens
  BY <1>1, <1>6 DEF UplinkOpens, PageDocs, Ends
<1>7. CASE ServerReceivesUplink
  <2>1. up # <<>> /\ Head(up) \in Message /\ UNCHANGED <<served, stateDoc, toServer>>
    BY <1>1, <1>7, FitsKept DEF ServerReceivesUplink, QueuesFit
  <2>2. CASE Head(up).type = "state" /\ Broadcast(Head(up).state) /\ UNCHANGED doc
    <3>1. CASE served = "open" /\ seen # Head(up).state
      <4>1. seen \in Version /\ Head(up).state \in Version
        BY <1>1, <2>1, <2>2, <3>1, MessageParts DEF Ends, PlainTypes
      <4>2. Delta(seen, Head(up).state) \in Message /\ Delta(seen, Head(up).state).type # "doc"
        BY <4>1, Messages
      <4>3. toPage' = Sending(Delta(seen, Head(up).state))
        BY <2>2, <3>1 DEF Broadcast, Sending
      <4>4. QED
        BY <1>3, <1>4, <2>1, <2>2, <4>2, <4>3
    <3>2. CASE ~(served = "open" /\ seen # Head(up).state)
      BY <1>4, <2>1, <2>2, <3>2 DEF Broadcast
    <3>3. QED
      BY <3>1, <3>2
  <2>3. CASE Head(up).type = "doc" /\ Merge(Head(up).items, TRUE)
    BY <1>5, <2>1, <2>3, MessageParts
  <2>4. QED
    BY <1>7, <2>2, <2>3 DEF ServerReceivesUplink
<1>8. CASE ReleaseSlot
  BY <1>1, <1>8 DEF ReleaseSlot, PageDocs
<1>9. CASE Connect
  <2>1. stateDoc' = stateDoc /\ stateDoc = {} /\ toServer' = <<>> /\ doc' = doc
    BY <1>1, <1>9 DEF Connect, Ends, Arrivals
  <2>2. CASE conn
    <3>1. state \in Version /\ doc \subseteq Item
      BY <1>1, <2>2 DEF Ends, PlainTypes, RestTypes
    <3>2. /\ State(state) \in Message /\ State(state).type # "doc"
          /\ Update(doc) \in Message /\ Update(doc).type = "doc" /\ Update(doc).items = doc
      BY <3>1, Messages
    <3>3. Items(<<State(state), Update(doc)>>) = doc
      BY <3>2, ItemsTwo
    <3>4. toPage' = <<State(state), Update(doc)>>
      BY <1>9, <2>2 DEF Connect
    <3>5. QED
      BY <2>1, <3>3, <3>4, ItemsEmpty DEF PageDocs
  <2>3. CASE ~conn
    BY <1>9, <2>1, <2>3, ItemsEmpty DEF Connect, PageDocs
  <2>4. QED
    BY <2>2, <2>3
<1>10. CASE ServerReceives
  <2>1. /\ toServer # <<>> /\ toServer' = Tail(toServer) /\ Head(toServer) \in Message
        /\ UNCHANGED stateDoc
    BY <1>1, <1>10, FitsKept DEF QueuesFit, ServerReceives
  <2>2. /\ Head(toServer).type = "doc" =>
             Items(toServer) = Head(toServer).items \union Items(toServer')
        /\ Head(toServer).type # "doc" => Items(toServer) = Items(toServer')
    BY <1>1, <2>1, Received DEF QueuesFit
  <2>3. CASE served' # "open"
    BY <1>1, <2>1, <2>2, <2>3, MessageParts DEF PageDocs
  <2>4. CASE served' = "open"
    <3>1. Handle(Head(toServer), TRUE)
      BY <1>10, <2>4 DEF ServerReceives
    <3>2. CASE /\ Head(toServer).type = "doc" /\ Head(toServer).items \in SUBSET (Item \ Oversized)
               /\ Merge(Head(toServer).items, ~TRUE) /\ UNCHANGED served
      <4>1. doc' = doc \union Head(toServer).items /\ toPage' = toPage
        BY <1>2, <3>2
      <4>2. QED
        BY <1>1, <2>1, <2>2, <3>2, <4>1 DEF PageDocs
    <3>3. CASE Head(toServer).type = "command" /\ UNCHANGED <<doc, served, toPage>>
      BY <1>4, <2>1, <2>2, <3>3
    <3>4. QED
      BY <2>1, <2>4, <3>1, <3>2, <3>3, Handled
  <2>5. QED
    BY <2>3, <2>4
<1>11. ASSUME NEW m \in old, ServerReceivesOld(m) PROVE PageDocs'
  <2>1. m \in Message /\ Handle(m, FALSE) /\ UNCHANGED <<stateDoc, toServer>>
    BY <1>1, <1>11 DEF ServerReceivesOld, QueuesFit
  <2>2. CASE m.items \in SUBSET Item /\ Merge(m.items, ~FALSE) /\ UNCHANGED served
    BY <1>5, <2>1, <2>2
  <2>3. CASE UNCHANGED <<doc, served, toPage>>
    BY <1>4, <2>1, <2>3
  <2>4. UNCHANGED served
    BY <2>1 DEF Handle, ReceiveUpdate, ReceiveCommand
  <2>5. QED
    BY <2>1, <2>2, <2>3, <2>4, Handled
<1>12. ASSUME NEW c \in Command, Answer(c) PROVE PageDocs'
  BY <1>3, <1>4, <1>12, Messages DEF Answer
<1>13. ASSUME LeaveSocket, UNCHANGED doc PROVE PageDocs'
  BY <1>13, ItemsEmpty DEF LeaveSocket, HandleClose, PageDocs
<1>14. CASE LinkBreaks
  BY <1>13, <1>14 DEF LinkBreaks
<1>15. CASE AttemptFails
  BY <1>1, <1>15, ItemsEmpty DEF AttemptFails, HandleClose, Ends, PageDocs
<1>16. CASE PageReceives
  <2>1. /\ toPage # <<>> /\ Head(toPage) \in Message /\ UNCHANGED doc
        /\ Head(toPage).type = "doc" =>
             Items(toPage) = Head(toPage).items \union Items(Tail(toPage))
        /\ Head(toPage).type # "doc" => Items(toPage) = Items(Tail(toPage))
    BY <1>1, <1>16, FitsKept, Received DEF QueuesFit, PageReceives
  <2>2. CASE /\ Head(toPage).type # "doc" /\ toPage' = Tail(toPage)
             /\ UNCHANGED <<served, stateDoc, toServer>>
    BY <1>4, <2>1, <2>2
  <2>3. CASE /\ Head(toPage).type = "doc" /\ toPage' = Tail(toPage)
             /\ stateDoc' = stateDoc \union Head(toPage).items /\ UNCHANGED <<served, toServer>>
    BY <1>1, <2>1, <2>3 DEF PageDocs
  <2>4. CASE LeaveSocket
    BY <1>13, <2>1, <2>4
  <2>5. QED
    BY <1>16, <2>2, <2>3, <2>4 DEF PageReceives, ReceiveState, ReceiveDelta, ReceiveResponse
<1>17. ASSUME NEW e \in Item, Change(e) PROVE PageDocs'
  <2>1. Items(Append(toServer, Update({e}))) = Items(toServer) \union {e}
    BY Carried
  <2>2. served = "open" => link = "open"
    BY <1>1 DEF Ends, PlainTypes
  <2>3. QED
    BY <1>1, <1>17, <2>1, <2>2 DEF Change, PageDocs
<1>18. ASSUME NEW c \in Command, Send(c) PROVE PageDocs'
  <2>1. Cmd(c) \in Message /\ Cmd(c).type # "doc"
    BY Messages
  <2>2. Items(Append(toServer, Cmd(c))) = Items(toServer)
    BY <1>3, <2>1
  <2>3. /\ UNCHANGED <<served, doc, stateDoc, toPage>>
        /\ toServer' \in {toServer, Append(toServer, Cmd(c))}
    BY <1>18 DEF Send
  <2>4. QED
    BY <1>4, <2>2, <2>3
<1>19. CASE DeskChanges \/ UplinkBreaks \/ DeskReceives \/ UNCHANGED vars
  BY <1>4, <1>19 DEF DeskChanges, UplinkBreaks, DeskReceives, vars
<1>20. \A x : DeskEdits(x) \/ OldIsLost(x) \/ Evict(x)
                => UNCHANGED <<served, doc, stateDoc, toPage, toServer>>
  BY DEF DeskEdits, OldIsLost, Evict
<1>21. QED
  BY <1>4, <1>6, <1>7, <1>8, <1>9, <1>10, <1>11, <1>12, <1>14, <1>15, <1>16, <1>17, <1>18,
     <1>19, <1>20 DEF Next, Operator, Deliver, UndoAll, Item

-----------------------------------------------------------------------------
(* Callbacks.                                                              *)

\* Commands stay of those that were sent.
LEMMA CommandsKept ==
  ASSUME NEW s \in Seq(Message), NEW C, Commands(s, C), NEW D, C \subseteq D
  PROVE  /\ Commands(s, D) /\ Commands(<<>>, D)
         /\ \A m \in Message : (m.type = "command" => m.id \in D) => Commands(Append(s, m), D)
         /\ s # <<>> => Commands(Tail(s), D) /\ (Head(s).type = "command" => Head(s).id \in D)
<1>1. ASSUME NEW m \in Message, m.type = "command" => m.id \in D PROVE Commands(Append(s, m), D)
  <2>1. \A i \in 1 .. Len(s) + 1 : i \in 1 .. Len(s) \/ i = Len(s) + 1
    OBVIOUS
  <2>2. QED
    BY <1>1, <2>1, AppendFacts DEF Commands
<1>2. ASSUME s # <<>>
      PROVE  Commands(Tail(s), D) /\ (Head(s).type = "command" => Head(s).id \in D)
  BY <1>2, TailFacts DEF Commands
<1>3. Commands(s, D) /\ Commands(<<>>, D)
  BY DEF Commands
<1>4. QED
  BY <1>1, <1>2, <1>3

\* Who waits was not told yet, and who does not was told once.
AnsweredOnce ==
  /\ responseMap \subseteq sent
  /\ calls = [c \in Command |-> IF c \in sent \ responseMap THEN 1 ELSE 0]

Forwarded ==
  /\ Commands(toServer, sent) /\ Commands(down, sent)
  /\ \A m \in old : m.type = "command" => m.id \in sent

\* The two parts that the steps are about.
LEMMA CallbackParts == Callbacks <=> AnsweredOnce /\ Forwarded
  BY DEF Callbacks, AnsweredOnce, Forwarded

\* A callback that waits is called once, and no other is.
LEMMA AnsweredOnceStep ==
  ASSUME SyncInv, [Next]_vars
  PROVE  AnsweredOnce'
<1>1. AnsweredOnce /\ PlainTypes /\ QueuesFit
  BY CallbackParts, TypeParts, QueuesFitting DEF SyncInv
<1>2. ASSUME NEW C, C \subseteq responseMap, NEW w, Call(C, w), responseMap' = responseMap \ C,
             UNCHANGED sent
      PROVE  AnsweredOnce'
  <2>1. calls' = [c \in Command |-> IF c \in C THEN calls[c] + 1 ELSE calls[c]]
    BY <1>2 DEF Call
  <2>2. \A c \in Command : calls'[c] = IF c \in sent' \ responseMap' THEN 1 ELSE 0
    BY <1>1, <1>2, <2>1 DEF AnsweredOnce
  <2>3. calls' = [c \in Command |-> IF c \in sent' \ responseMap' THEN 1 ELSE 0]
    BY <2>1, <2>2
  <2>4. QED
    BY <1>1, <1>2, <2>3 DEF AnsweredOnce
<1>3. ASSUME HandleClose, UNCHANGED sent PROVE AnsweredOnce'
  <2>1. responseMap' = responseMap \ responseMap /\ Call(responseMap, "Connection closed")
    BY <1>3 DEF HandleClose
  <2>2. QED
    BY <1>2, <1>3, <2>1
<1>4. CASE LinkBreaks \/ AttemptFails
  BY <1>3, <1>4 DEF LinkBreaks, AttemptFails, LeaveSocket, madeVars
<1>5. CASE PageReceives
  <2>1. UNCHANGED sent /\ Head(toPage) \in Message
    BY <1>1, <1>5, FitsKept DEF PageReceives, madeVars, QueuesFit
  <2>2. CASE ReceiveResponse(Head(toPage))
    <3>1. /\ Call({Head(toPage).id} \intersect responseMap, "answer")
          /\ responseMap' = responseMap \ ({Head(toPage).id} \intersect responseMap)
      BY <2>2 DEF ReceiveResponse
    <3>2. QED
      BY <1>2, <2>1, <3>1
  <2>3. CASE LeaveSocket
    BY <1>3, <2>1, <2>3 DEF LeaveSocket
  <2>4. CASE UNCHANGED callVars
    BY <1>1, <2>1, <2>4 DEF callVars, AnsweredOnce
  <2>5. QED
    BY <1>5, <2>2, <2>3, <2>4 DEF PageReceives, ReceiveState, ReceiveDelta, pageVars
<1>6. ASSUME NEW c \in Command, Evict(c) PROVE AnsweredOnce'
  BY <1>2, <1>6 DEF Evict, madeVars
<1>7. ASSUME NEW c \in Command, Send(c) PROVE AnsweredOnce'
  <2>1. c \notin sent /\ sent' = sent \union {c}
    BY <1>7 DEF Send
  <2>2. CASE responseMap' = responseMap \union {c} /\ UNCHANGED calls
    <3>1. [d \in Command |-> IF d \in sent' \ responseMap' THEN 1 ELSE 0]
            = [d \in Command |-> IF d \in sent \ responseMap THEN 1 ELSE 0]
      BY <2>1, <2>2
    <3>2. QED
      BY <1>1, <2>1, <2>2, <3>1 DEF AnsweredOnce
  <2>3. CASE responseMap' = responseMap /\ Call({c}, "Not connected")
    <3>1. calls' = [d \in Command |-> IF d \in {c} THEN calls[d] + 1 ELSE calls[d]]
      BY <2>3 DEF Call
    <3>2. \A d \in Command : calls'[d] = IF d \in sent' \ responseMap' THEN 1 ELSE 0
      <4>1. /\ \A d \in Command : calls[d] = IF d \in sent \ responseMap THEN 1 ELSE 0
            /\ responseMap \subseteq sent
        BY <1>1 DEF AnsweredOnce
      <4>2. c \notin responseMap
        BY <2>1, <4>1
      <4>3. calls[c] = 0 /\ calls'[c] = 1
        BY <2>1, <3>1, <4>1, <4>2
      <4>4. \A d \in Command \ {c} : calls'[d] = calls[d]
        BY <3>1
      <4>5. QED
        BY <2>1, <2>3, <4>1, <4>2, <4>3, <4>4
    <3>3. calls' = [d \in Command |-> IF d \in sent' \ responseMap' THEN 1 ELSE 0]
      BY <3>1, <3>2
    <3>4. QED
      BY <1>1, <2>1, <2>3, <3>3 DEF AnsweredOnce
  <2>4. QED
    BY <1>7, <2>2, <2>3 DEF Send
<1>8. ASSUME UNCHANGED <<sent, responseMap, calls>> PROVE AnsweredOnce'
  BY <1>1, <1>8 DEF AnsweredOnce
<1>9. (\/ DeskChanges \/ UplinkOpens \/ UplinkBreaks \/ DeskReceives \/ ServerReceivesUplink
       \/ ReleaseSlot \/ Connect \/ ServerReceives \/ UNCHANGED vars)
        => UNCHANGED <<sent, responseMap, calls>>
  BY DEF DeskChanges, UplinkOpens, UplinkBreaks, DeskReceives, ServerReceivesUplink, ReleaseSlot,
         Connect, ServerReceives, vars, pageVars, callVars, madeVars
<1>10. \A x : DeskEdits(x) \/ ServerReceivesOld(x) \/ OldIsLost(x) \/ Answer(x) \/ Change(x)
                => UNCHANGED <<sent, responseMap, calls>>
  BY DEF DeskEdits, ServerReceivesOld, OldIsLost, Answer, Change, pageVars, callVars, madeVars
<1>11. \/ LinkBreaks \/ AttemptFails \/ PageReceives \/ (\E c \in Command : Evict(c) \/ Send(c))
       \/ UNCHANGED <<sent, responseMap, calls>>
  BY <1>9, <1>10 DEF Next, Operator, Deliver, UndoAll
<1>12. QED
  BY <1>4, <1>5, <1>6, <1>7, <1>8, <1>11

\* Only what the operator has sent is on its way to the desktop.
LEMMA ForwardedStep ==
  ASSUME SyncInv, [Next]_vars
  PROVE  Forwarded'
<1>1. Forwarded /\ PlainTypes /\ QueuesFit
  BY CallbackParts, TypeParts, QueuesFitting DEF SyncInv
<1>2. down \in Seq(Message) /\ toServer \in Seq(Message)
  BY <1>1 DEF QueuesFit, Fits
<1>3. sent \subseteq sent'
  <2>1. (\/ DeskChanges \/ UplinkOpens \/ UplinkBreaks \/ DeskReceives \/ ServerReceivesUplink
         \/ ReleaseSlot \/ Connect \/ LinkBreaks \/ AttemptFails \/ ServerReceives \/ PageReceives
         \/ UNCHANGED vars) => sent \subseteq sent'
    BY DEF DeskChanges, UplinkOpens, UplinkBreaks, DeskReceives, ServerReceivesUplink, ReleaseSlot,
           Connect, LinkBreaks, AttemptFails, ServerReceives, PageReceives, vars, madeVars
  <2>2. \A x : DeskEdits(x) \/ ServerReceivesOld(x) \/ OldIsLost(x) \/ Answer(x) \/ Change(x)
               \/ Evict(x) => sent \subseteq sent'
    BY DEF DeskEdits, ServerReceivesOld, OldIsLost, Answer, Change, Evict, madeVars
  <2>3. \A x : Send(x) => sent \subseteq sent'
    BY DEF Send
  <2>4. QED
    BY <2>1, <2>2, <2>3 DEF Next, Operator, Deliver, UndoAll
<1>4. /\ Commands(down, sent') /\ Commands(toServer, sent') /\ \A C : Commands(<<>>, C)
      /\ down # <<>> => Commands(Tail(down), sent')
      /\ toServer # <<>> => /\ Commands(Tail(toServer), sent')
                            /\ Head(toServer).type = "command" => Head(toServer).id \in sent
  <2>1. Commands(down, sent) /\ Commands(toServer, sent)
    BY <1>1 DEF Forwarded
  <2>2. /\ Commands(down, sent') /\ Commands(toServer, sent')
        /\ down # <<>> => Commands(Tail(down), sent')
        /\ toServer # <<>> => Commands(Tail(toServer), sent')
    BY <1>2, <1>3, <2>1, CommandsKept
  <2>3. toServer # <<>> => (Head(toServer).type = "command" => Head(toServer).id \in sent)
    BY <1>2, <2>1, CommandsKept
  <2>4. QED
    BY <2>2, <2>3 DEF Commands
<1>5. ASSUME NEW m \in Message, m.type = "command" => m.id \in sent'
      PROVE  Commands(Append(down, m), sent') /\ Commands(Append(toServer, m), sent')
  BY <1>1, <1>2, <1>3, <1>5, CommandsKept DEF Forwarded
<1>6. \A m \in old : m.type = "command" => m.id \in sent'
  BY <1>1, <1>3 DEF Forwarded
<1>7. ASSUME NEW items \in SUBSET Item, NEW b \in BOOLEAN, Merge(items, b)
      PROVE  Commands(down', sent')
  <2>1. Update(items) \in Message /\ Update(items).type # "command"
    BY Messages
  <2>2. QED
    BY <1>4, <1>5, <1>7, <2>1 DEF Merge, SendDown
<1>8. ASSUME NEW m \in Message, NEW b \in BOOLEAN, Handle(m, b), m.type = "command" => m.id \in sent
      PROVE  Commands(down', sent')
  <2>1. CASE m.items \in SUBSET Item /\ Merge(m.items, ~b)
    <3>1. (~b) \in BOOLEAN
      OBVIOUS
    <3>2. QED
      BY <1>7, <2>1, <3>1
  <2>2. CASE UNCHANGED down
    BY <1>4, <2>2
  <2>3. CASE m.type = "command" /\ m.id \in Command /\ SendDown(Cmd(m.id))
    <3>1. Cmd(m.id) \in Message /\ Cmd(m.id).id \in sent'
      BY <1>3, <1>8, <2>3, Messages
    <3>2. QED
      BY <1>4, <1>5, <2>3, <3>1 DEF SendDown
  <2>4. QED
    BY <1>8, <2>1, <2>2, <2>3, Handled
<1> USE DEF linkVars, Forwarded
<1>9. CASE UplinkOpens \/ UplinkBreaks
  BY <1>4, <1>6, <1>9 DEF UplinkOpens, UplinkBreaks
<1>10. CASE DeskReceives
  BY <1>4, <1>6, <1>10 DEF DeskReceives
<1>11. CASE ServerReceivesUplink
  <2>1. up # <<>> /\ Head(up) \in Message /\ UNCHANGED <<toServer, old>>
    BY <1>1, <1>11, FitsKept DEF ServerReceivesUplink, QueuesFit
  <2>2. CASE UNCHANGED down
    BY <1>4, <1>6, <2>1, <2>2
  <2>3. CASE Head(up).type = "doc" /\ Merge(Head(up).items, TRUE)
    BY <1>4, <1>6, <1>7, <2>1, <2>3, MessageParts
  <2>4. QED
    BY <1>11, <2>2, <2>3 DEF ServerReceivesUplink
<1>12. CASE ReleaseSlot
  BY <1>4, <1>12 DEF ReleaseSlot
<1>13. CASE Connect
  BY <1>4, <1>6, <1>13 DEF Connect
<1>14. CASE ServerReceives
  <2>1. Head(toServer) \in Message
    BY <1>1, <1>14, FitsKept DEF QueuesFit, ServerReceives
  <2>2. QED
    BY <1>4, <1>6, <1>8, <1>14, <2>1 DEF ServerReceives
<1>15. ASSUME NEW m \in old, ServerReceivesOld(m) PROVE Forwarded'
  BY <1>1, <1>4, <1>6, <1>8, <1>15 DEF ServerReceivesOld, QueuesFit
<1>16. ASSUME NEW m \in old, OldIsLost(m) PROVE Forwarded'
  BY <1>4, <1>6, <1>16 DEF OldIsLost
<1>17. ASSUME LeaveSocket, UNCHANGED down PROVE Forwarded'
  <2>1. \A m \in {toServer[i] : i \in 1 .. Len(toServer)} : m.type = "command" => m.id \in sent'
    BY <1>4 DEF Commands
  <2>2. QED
    BY <1>4, <1>6, <1>17, <2>1 DEF LeaveSocket
<1>18. CASE LinkBreaks
  BY <1>17, <1>18 DEF LinkBreaks
<1>19. CASE PageReceives
  <2>1. UNCHANGED down /\ (LeaveSocket \/ UNCHANGED <<toServer, old>>)
    BY <1>19 DEF PageReceives, ReceiveState, ReceiveDelta, ReceiveResponse
  <2>2. QED
    BY <1>4, <1>6, <1>17, <2>1
<1>20. ASSUME NEW e \in Item, Change(e) PROVE Forwarded'
  <2>1. Update({e}) \in Message /\ Update({e}).type # "command"
    BY Messages
  <2>2. QED
    BY <1>4, <1>5, <1>6, <1>20, <2>1 DEF Change
<1>21. ASSUME NEW c \in Command, Send(c) PROVE Forwarded'
  <2>1. Cmd(c) \in Message /\ Cmd(c).id = c /\ c \in sent'
    BY <1>21, Messages DEF Send
  <2>2. Commands(Append(toServer, Cmd(c)), sent')
    BY <1>5, <2>1
  <2>3. QED
    BY <1>4, <1>6, <1>21, <2>2 DEF Send
<1>22. CASE DeskChanges \/ AttemptFails \/ UNCHANGED vars
  BY <1>4, <1>6, <1>22 DEF DeskChanges, AttemptFails, vars
<1>23. \A x : DeskEdits(x) \/ Answer(x) \/ Evict(x) => UNCHANGED <<down, toServer, old>>
  BY DEF DeskEdits, Answer, Evict
<1>24. QED
  BY <1>4, <1>6, <1>9, <1>10, <1>11, <1>12, <1>13, <1>14, <1>15, <1>16, <1>18, <1>19, <1>20, <1>21,
     <1>22, <1>23 DEF Next, Operator, Deliver, UndoAll, Item

-----------------------------------------------------------------------------
(* The invariant.                                                          *)

\* A document only takes in what the guard of the server lets through.
LEMMA DocTypesStep ==
  ASSUME SyncInv, [Next]_vars
  PROVE  deskDoc' \subseteq Item \ Oversized /\ doc' \subseteq Item \ Oversized
<1>1. PlainTypes /\ RestTypes /\ QueuesFit /\ Ends /\ UpDocs
  BY TypeParts, QueuesFitting, SocketParts, DocumentParts DEF SyncInv
<1> DEFINE Fit == Item \ Oversized
           Goal == deskDoc' \subseteq Fit /\ doc' \subseteq Fit
<1>2. deskDoc \subseteq Fit /\ doc \subseteq Fit
  BY <1>1 DEF RestTypes
<1>3. ASSUME UNCHANGED deskDoc, NEW items \in SUBSET Fit, doc' = doc \union items PROVE Goal
  BY <1>2, <1>3
<1>4. ASSUME NEW e \in DeskEdit, DeskEdits(e) PROVE Goal
  BY <1>2, <1>4, OversizedAssumption DEF DeskEdits, connVars, Item
<1>5. CASE UplinkOpens \/ ReleaseSlot
  BY <1>2, <1>5 DEF UplinkOpens, ReleaseSlot, deskVars
<1>6. CASE DeskReceives
  <2>1. down # <<>> /\ slot = "live" /\ doc' = doc
    BY <1>1, <1>6 DEF DeskReceives, Ends, PlainTypes, connVars
  <2>2. Head(down).type = "doc" => Head(down).items \subseteq doc
    BY <1>1, <2>1, Received DEF QueuesFit, UpDocs
  <2>3. QED
    BY <1>2, <1>6, <2>1, <2>2 DEF DeskReceives
<1>7. CASE ServerReceivesUplink
  <2>1. up # <<>> /\ UNCHANGED deskDoc
    BY <1>7 DEF ServerReceivesUplink, deskVars
  <2>2. Head(up).type = "doc" => Head(up).items \subseteq deskDoc
    BY <1>1, <2>1, Received DEF QueuesFit, UpDocs
  <2>3. doc' = doc \/ (Head(up).type = "doc" /\ doc' = doc \union Head(up).items)
    BY <1>7 DEF ServerReceivesUplink, Merge
  <2>4. QED
    BY <1>2, <2>1, <2>2, <2>3
<1>8. ASSUME NEW m \in Message, NEW b \in BOOLEAN, Handle(m, b), UNCHANGED deskDoc PROVE Goal
  <2>1. doc' = doc \/ (m.items \in SUBSET Fit /\ doc' = doc \union m.items)
    BY <1>8, Handled DEF Merge
  <2>2. QED
    BY <1>2, <1>8, <2>1
<1>9. CASE ServerReceives
  <2>1. Head(toServer) \in Message /\ UNCHANGED deskDoc
    BY <1>1, <1>9, FitsKept DEF QueuesFit, ServerReceives, deskVars
  <2>2. CASE UNCHANGED doc
    BY <1>2, <2>1, <2>2
  <2>3. CASE Handle(Head(toServer), TRUE)
    BY <1>8, <2>1, <2>3
  <2>4. QED
    BY <1>9, <2>2, <2>3 DEF ServerReceives
<1>10. ASSUME NEW m \in old, ServerReceivesOld(m) PROVE Goal
  BY <1>1, <1>8, <1>10 DEF ServerReceivesOld, QueuesFit, deskVars
<1>11. (\/ DeskChanges \/ UplinkBreaks \/ Connect \/ LinkBreaks \/ AttemptFails \/ PageReceives
        \/ UNCHANGED vars) => UNCHANGED <<deskDoc, doc>>
  BY DEF DeskChanges, UplinkBreaks, Connect, LinkBreaks, AttemptFails, PageReceives, vars,
         deskVars, connVars
<1>12. \A x : (OldIsLost(x) \/ Answer(x) \/ Send(x) \/ Evict(x) \/ Change(x))
                => UNCHANGED <<deskDoc, doc>>
  BY DEF OldIsLost, Answer, Send, Evict, Change, deskVars, connVars
<1>13. QED
  BY <1>2, <1>4, <1>5, <1>6, <1>7, <1>9, <1>10, <1>11, <1>12 DEF Next, Operator, Deliver, UndoAll

\* Whoever is told anything is told one of these, and the desktop carries out what was sent.
LEMMA ToldStep ==
  ASSUME SyncInv, [Next]_vars
  PROVE  told' \in [Command -> Told] /\ done' \subseteq sent'
<1>1. PlainTypes /\ RestTypes /\ QueuesFit /\ Forwarded
  BY TypeParts, QueuesFitting, CallbackParts DEF SyncInv
<1>2. ASSUME NEW C, NEW w \in Told, Call(C, w) PROVE told' \in [Command -> Told]
  BY <1>1, <1>2 DEF Call, RestTypes
<1>3. HandleClose => told' \in [Command -> Told]
  BY <1>2 DEF HandleClose, Told
<1>4. UNCHANGED told => told' \in [Command -> Told]
  BY <1>1 DEF RestTypes
<1>5. UNCHANGED <<done, sent>> => done' \subseteq sent'
  BY <1>1 DEF RestTypes
<1> USE DEF pageVars, callVars, madeVars
<1>6. CASE LinkBreaks \/ AttemptFails
  BY <1>3, <1>5, <1>6 DEF LinkBreaks, AttemptFails, LeaveSocket
<1>7. CASE PageReceives
  <2>1. UNCHANGED <<done, sent>>
    BY <1>7 DEF PageReceives
  <2>2. UNCHANGED told \/ HandleClose \/ ReceiveResponse(Head(toPage))
    BY <1>7 DEF PageReceives, ReceiveState, ReceiveDelta, LeaveSocket
  <2>3. ReceiveResponse(Head(toPage)) => told' \in [Command -> Told]
    BY <1>2 DEF ReceiveResponse, Told
  <2>4. QED
    BY <1>3, <1>4, <1>5, <2>1, <2>2, <2>3
<1>8. ASSUME NEW c \in Command, Evict(c) PROVE told' \in [Command -> Told] /\ done' \subseteq sent'
  BY <1>2, <1>5, <1>8 DEF Evict, Told
<1>9. ASSUME NEW c \in Command, Send(c) PROVE told' \in [Command -> Told] /\ done' \subseteq sent'
  <2>1. done' \subseteq sent'
    BY <1>1, <1>9 DEF Send, RestTypes
  <2>2. UNCHANGED told \/ Call({c}, "Not connected")
    BY <1>9 DEF Send
  <2>3. QED
    BY <1>2, <1>4, <2>1, <2>2 DEF Told
<1>10. CASE DeskReceives
  <2>1. down # <<>> /\ UNCHANGED <<told, sent>>
    BY <1>10 DEF DeskReceives
  <2>2. Head(down).type = "command" => Head(down).id \in sent
    <3>1. down \in Seq(Message)
      BY <1>1 DEF QueuesFit, Fits
    <3>2. QED
      BY <1>1, <2>1, <3>1, CommandsKept DEF Forwarded
  <2>3. done' \subseteq sent'
    BY <1>1, <1>10, <2>1, <2>2 DEF DeskReceives, RestTypes
  <2>4. QED
    BY <1>4, <2>1, <2>3
<1>11. (\/ DeskChanges \/ UplinkOpens \/ UplinkBreaks \/ ServerReceivesUplink \/ ReleaseSlot
        \/ Connect \/ ServerReceives \/ UNCHANGED vars) => UNCHANGED <<told, done, sent>>
  BY DEF DeskChanges, UplinkOpens, UplinkBreaks, ServerReceivesUplink, ReleaseSlot, Connect,
         ServerReceives, vars
<1>12. \A x : (DeskEdits(x) \/ ServerReceivesOld(x) \/ OldIsLost(x) \/ Answer(x) \/ Change(x))
                => UNCHANGED <<told, done, sent>>
  BY DEF DeskEdits, ServerReceivesOld, OldIsLost, Answer, Change
<1>13. QED
  BY <1>4, <1>5, <1>6, <1>7, <1>8, <1>9, <1>10, <1>11, <1>12 DEF Next, Operator, Deliver, UndoAll

\* The invariant holds at first.
LEMMA InitSyncInv == Init => SyncInv
<1> SUFFICES ASSUME Init PROVE SyncInv
  OBVIOUS
<1>1. NoVersion = -1 /\ 0 \in Version /\ NoVersion \in Known /\ 0 \in 0 .. MaxCuts
  BY SyncBoundsAssumption DEF NoVersion, Version, Known
<1>2. Len(<<>>) = 0 /\ 1 .. 0 = {} /\ <<>> \in Seq(Message)
  OBVIOUS
<1>3. PlainTypes
  BY <1>1 DEF Init, PlainTypes
<1>4. QueueTypes /\ Queues
  BY <1>2 DEF Init, QueueTypes, Queues, Kinds
<1>5. RestTypes
  BY OversizedAssumption DEF Init, RestTypes, Told, Item
<1>6. Sockets /\ Arrivals
  BY <1>2 DEF Init, Sockets, Arrivals
<1>7. Versions
  <2>1. Leads(<<>>, NoVersion, NoVersion)
    BY <1>1, LeadsNowhere
  <2>2. Behind(NoVersion)
    BY <1>1, <1>2 DEF Init, Behind
  <2>3. QED
    BY <1>1, <2>1, <2>2 DEF Init, Versions
<1>8. Documents
  BY ItemsEmpty DEF Init, Documents
<1>9. Callbacks
  BY <1>2 DEF Init, Callbacks, Commands
<1>10. QED
  BY <1>3, <1>4, <1>5, <1>6, <1>7, <1>8, <1>9, TypeParts DEF SyncInv

\* Every step keeps it.
LEMMA SyncInvStep == SyncInv /\ [Next]_vars => SyncInv'
<1> SUFFICES ASSUME SyncInv, [Next]_vars PROVE SyncInv'
  OBVIOUS
<1>1. PlainTypes'
  BY PlainTypesStep
<1>2. QueueTypes' /\ Queues'
  BY QueuesFitStep DEF QueueTypes, Queues, QueuesFit, Fits, UpKinds, DownKinds
<1>3. Sockets'
  BY EndsStep, ClosingStep DEF Sockets, Ends, Closing
<1>4. Arrivals'
  BY ArrivalsStep
<1>5. Versions'
  BY UpLeadsStep, PageLeadsStep DEF Versions, UpLeads, PageLeads
<1>6. Documents'
  BY UpDocsStep, PageDocsStep DEF Documents, UpDocs, PageDocs
<1>7. Callbacks'
  BY AnsweredOnceStep, ForwardedStep DEF Callbacks, AnsweredOnce, Forwarded
<1>8. RestTypes'
  <2>1. last' \in Version \union {NoVersion}
    <3>1. toPage' \in Seq(Message)
      BY <1>2 DEF QueueTypes
    <3>2. last' \in Known
      BY <1>5, <3>1, LeadsBetween DEF Versions
    <3>3. QED
      BY <3>2, SyncBoundsAssumption DEF Known, Version, NoVersion
  <2>2. calls' \in [Command -> {0, 1}]
    BY <1>7 DEF Callbacks
  <2>3. QED
    BY <2>1, <2>2, DocTypesStep, ToldStep DEF RestTypes
<1>9. SyncTypeOK'
  BY <1>1, <1>2, <1>8 DEF SyncTypeOK, PlainTypes, QueueTypes, RestTypes, Told
<1>10. QED
  BY <1>2, <1>3, <1>4, <1>5, <1>6, <1>7, <1>9 DEF SyncInv

\* Sockets, versions, documents and callbacks fit together in every state.
THEOREM SyncInvariant == Spec => []SyncInv
<1>1. QED
  BY InitSyncInv, SyncInvStep, PTL DEF Spec

\* When nothing is under way, all that could differ does not.
LEMMA QuietAgrees == SyncInv => QuietInStep
<1> SUFFICES ASSUME SyncInv, Quiet PROVE InStep
  BY DEF QuietInStep
<1>1. PlainTypes /\ Ends /\ Closing /\ Arrivals /\ UpLeads /\ PageLeads /\ UpDocs /\ PageDocs
  BY TypeParts, SocketParts, VersionParts, DocumentParts DEF SyncInv
<1>2. /\ link = "open" /\ uplink = "open" /\ slot = "live"
      /\ up = <<>> /\ down = <<>> /\ toPage = <<>> /\ toServer = <<>>
  BY DEF Quiet
<1>3. served = "open" /\ isConnected
  BY <1>1, <1>2 DEF Closing, Arrivals
<1>4. state = deskState
  <2>1. Leads(<<>>, state, deskState) /\ state \in Known
    BY <1>1, <1>2, KnownVersions DEF UpLeads
  <2>2. QED
    BY <2>1, LeadsNowhere
<1>5. last = state
  <2>1. Leads(<<>>, last, state) /\ last \in Known
    BY <1>1, <1>2, <1>3, KnownVersions DEF PageLeads
  <2>2. QED
    BY <2>1, LeadsNowhere
<1>6. doc = deskDoc
  BY <1>1, <1>2, ItemsEmpty DEF UpDocs
<1>7. stateDoc = doc
  BY <1>1, <1>2, <1>3, ItemsEmpty DEF PageDocs
<1>8. QED
  BY <1>3, <1>4, <1>5, <1>6, <1>7 DEF InStep

\* Types; a callback is called at most once.
THEOREM SyncTypeCorrect == Spec => []SyncTypeOK
<1>1. SyncInv => SyncTypeOK
  BY DEF SyncInv
<1>2. QED
  BY <1>1, SyncInvariant, PTL

\* Page, server and desktop agree whenever nothing is under way, whatever was lost, refused
\* or edited before, and the page holds no edit of its own that the server does not hear of
\* (useCollabConnection, createStreamwallConnection).
THEOREM PageStaysInAgreement == Spec => []PageAgrees
<1>1. SyncInv => NoLocalOnlyEdits
  BY DEF SyncInv, Documents, NoLocalOnlyEdits, Items
<1>2. SyncInv => PageAgrees
  BY <1>1, QuietAgrees DEF PageAgrees, SyncInv
<1>3. QED
  BY <1>2, SyncInvariant, PTL

\* No step takes the page back to an older version.
LEMMA ForwardStep == SyncInv /\ [Next]_vars => (last' # last => last' > last)
<1> SUFFICES ASSUME SyncInv, [Next]_vars, last' # last PROVE last' > last
  OBVIOUS
<1>1. PlainTypes /\ QueuesFit /\ Ends /\ Arrivals /\ PageLeads
  BY TypeParts, QueuesFitting, SocketParts, VersionParts DEF SyncInv
<1>2. last \in Known /\ Known \subseteq Int /\ toPage \in Seq(Message)
  BY KnownVersions
<1> USE DEF pageVars
<1>3. PageReceives
  <2>1. (\/ DeskChanges \/ UplinkOpens \/ UplinkBreaks \/ DeskReceives \/ ServerReceivesUplink
         \/ ReleaseSlot \/ Connect \/ LinkBreaks \/ AttemptFails \/ ServerReceives
         \/ UNCHANGED vars) => UNCHANGED last
    BY DEF DeskChanges, UplinkOpens, UplinkBreaks, DeskReceives, ServerReceivesUplink, ReleaseSlot,
           Connect, LinkBreaks, AttemptFails, ServerReceives, vars
  <2>2. \A x : (\/ DeskEdits(x) \/ ServerReceivesOld(x) \/ OldIsLost(x) \/ Answer(x) \/ Change(x)
                \/ Send(x) \/ Evict(x)) => UNCHANGED last
    BY DEF DeskEdits, ServerReceivesOld, OldIsLost, Answer, Change, Send, Evict
  <2>3. QED
    BY <2>1, <2>2 DEF Next, Operator, Deliver, UndoAll
<1>4. toPage # <<>> /\ Head(toPage) = toPage[1] /\ link = "open"
  BY <1>1, <1>2, <1>3, TailFacts DEF PageReceives, Ends, PlainTypes
<1>5. PICK c \in Known : Brings(Head(toPage), last, c) /\ last <= c
  BY <1>1, <1>2, <1>4, LeadsTail DEF PageLeads
<1>6. last' = c
  <2>1. CASE Head(toPage).type = "state" /\ ReceiveState(Head(toPage))
    BY <1>5, <2>1 DEF ReceiveState, Brings
  <2>2. CASE Head(toPage).type = "state-delta" /\ ReceiveDelta(Head(toPage))
    BY <1>5, <2>2 DEF ReceiveDelta, Patched, Brings
  <2>3. (\/ ReceiveResponse(Head(toPage)) \/ (Head(toPage).type = "close" /\ UNCHANGED last)
         \/ (Head(toPage).type \in {"doc", "error"} /\ UNCHANGED last)) => UNCHANGED last
    BY DEF ReceiveResponse
  <2>4. QED
    BY <1>3, <2>1, <2>2, <2>3 DEF PageReceives
<1>7. QED
  BY <1>2, <1>5, <1>6

\* What the page shows of the state never goes back, whatever delta a broken socket lost and
\* whichever the page refused: each delta starts from what the page has by then (patchState).
THEOREM NeverBack == Spec => NeverGoesBack
<1>1. SyncInv /\ [Next]_vars => [last' # last => last' > last]_vars
  BY ForwardStep
<1>2. QED
  BY <1>1, SyncInvariant, PTL DEF Spec, NeverGoesBack
=============================================================================

-------------------------------- MODULE Room --------------------------------
(***************************************************************************)
(* What the control server promises its operators, apart from how: whoever *)
(* is in the room came in with a session that was good at that moment, on  *)
(* the wall that was up, and is out in the very step in which the session  *)
(* is revoked or the wall goes.                                            *)
(***************************************************************************)
CONSTANTS Client, Token, Wall, NoToken, NoWall

VARIABLES
  sessions,         \* the good sessions
  wall,             \* the wall that is up
  inside            \* the session each client is in with

roomVars == <<sessions, wall, inside>>

RoomInit ==
  /\ sessions \subseteq Token
  /\ wall = NoWall
  /\ inside = [c \in Client |-> NoToken]

Out(C) == [c \in Client |-> IF c \in C THEN NoToken ELSE inside[c]]

\* One check may let in several clients that wait for it.
Enter ==
  \E C \in SUBSET Client, t \in sessions :
    /\ wall # NoWall
    /\ \A c \in C : inside[c] = NoToken
    /\ inside' = [c \in Client |-> IF c \in C THEN t ELSE inside[c]]
    /\ UNCHANGED <<sessions, wall>>

Leave == \E c \in Client : inside' = Out({c}) /\ UNCHANGED <<sessions, wall>>

\* Sessions come and go, and with them those who are in with them.
Change ==
  \E S \in SUBSET Token :
    /\ sessions' = S
    /\ inside' = Out({c \in Client : inside[c] \notin S})
    /\ UNCHANGED wall

\* The wall goes, and with it everybody.
Lost == wall' = NoWall /\ inside' = Out(Client) /\ UNCHANGED sessions

Found == wall = NoWall /\ wall' \in Wall /\ UNCHANGED <<sessions, inside>>

RoomNext == Enter \/ Leave \/ Change \/ Lost \/ Found

RoomSpec == RoomInit /\ [][RoomNext]_roomVars
=============================================================================

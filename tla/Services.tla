----------------------------- MODULE Services -----------------------------
(***************************************************************************)
(* The desktop's clients of two services: streamdelay, which censors the   *)
(* broadcast (StreamdelayClient.ts, over a socket that reconnects and      *)
(* holds one message meanwhile), and the Twitch chat, to which the bot     *)
(* announces the stream that is heard and in which it counts votes         *)
(* (TwitchBot.ts).  The services themselves are external.  The chat may    *)
(* take as long as it likes to take or refuse an announcement; the result  *)
(* of a tally it takes, or refuses, before vote.interval is over.          *)
(***************************************************************************)
EXTENDS Naturals, Sequences, FiniteSets

CONSTANTS
  MaxEnqueued,            \* maxEnqueuedMessages
  Link, NoLink,           \* streams that can be heard
  Idx,                    \* what viewers can vote for, natural numbers
  None,                   \* no status
  MaxCommands, MaxCloses, MaxTurns, MaxVotes    \* bounds of the model

ASSUME EnqueuedAssumption == MaxEnqueued \in Nat
ASSUME LinkAssumption == NoLink \notin Link
ASSUME StatusAssumption == None \notin Nat
ASSUME IdxAssumption == Idx \subseteq Nat

VARIABLES
  \* Streamdelay.  A command is its number; odd ones censor, even ones do not.
  open,             \* the socket
  enqueued,         \* messages held until it opens
  toService, toClient,
  served,           \* the last command the service has carried out
  status,           \* of the client: the last status it got, or None
  shown,            \* clientState.streamdelay, or None
  issued, closes,   \* of the model: commands so far, connections lost
  \* Twitch.
  heard,            \* the stream that views show as listening, or NoLink
  listeningURL,     \* of the bot
  dwell,            \* the stream whose dwellTimeout runs, or NoLink
  entries,          \* keys of announceTimeouts
  timers,           \* interval timers running, by stream
  saying,           \* announcements the chat has not confirmed, by stream
  votes, tally,     \* votes by view; what a tally under way has found, or None
  cast, counted,    \* of the model: votes so far, and those of tallies that ended
  late, missed,     \* of the model: votes since a tally began, and those that came too late
  turns,            \* of the model: changes of what is heard
  overtaken         \* of the model: dwells that ended under an announcement of the same stream

delayVars == <<open, enqueued, toService, toClient, served, status, shown, issued, closes>>
announceVars == <<heard, listeningURL, dwell, entries, timers, saying, turns, overtaken>>
voteVars == <<votes, tally, cast, counted, late, missed>>
serviceVars == <<delayVars, announceVars, voteVars>>

-----------------------------------------------------------------------------
(* Streamdelay.                                                            *)

\* emitState: a connection counts only when the service has said how it is.
EmitState(connected, last) ==
  shown' = IF connected /\ last = None THEN shown ELSE [status |-> last, isConnected |-> connected]

\* Mutant: the messages held are kept when they are sent.
BugHeldAfterOpen == enqueued

\* What reconnecting-websocket holds after it has sent what it held.
HeldAfterOpen == <<>>

Open ==
  /\ ~open /\ open' = TRUE
  /\ toService' = enqueued /\ enqueued' = HeldAfterOpen
  /\ toClient' = <<served>>      \* the service begins with its status
  /\ EmitState(TRUE, status)
  /\ UNCHANGED <<served, status, issued, closes, announceVars, voteVars>>

\* What was on its way is lost.
SocketCloses ==
  /\ open /\ closes < MaxCloses /\ closes' = closes + 1
  /\ open' = FALSE /\ toService' = <<>> /\ toClient' = <<>>
  /\ EmitState(FALSE, status)
  /\ UNCHANGED <<enqueued, served, status, issued, announceVars, voteVars>>

\* set-stream-censored, set-stream-running.  What finds the queue full is dropped.
Command ==
  /\ issued < MaxCommands /\ issued' = issued + 1
  /\ IF open THEN toService' = Append(toService, issued') /\ UNCHANGED enqueued
     ELSE /\ enqueued' = IF Len(enqueued) < MaxEnqueued THEN Append(enqueued, issued') ELSE enqueued
          /\ UNCHANGED toService
  /\ UNCHANGED <<open, toClient, served, status, shown, closes, announceVars, voteVars>>

Serve ==
  /\ toService # <<>>
  /\ served' = Head(toService) /\ toService' = Tail(toService)
  /\ toClient' = Append(toClient, served')
  /\ UNCHANGED <<open, enqueued, status, shown, issued, closes, announceVars, voteVars>>

StatusArrives ==
  /\ toClient # <<>>
  /\ status' = Head(toClient) /\ toClient' = Tail(toClient)
  /\ EmitState(open, status')
  /\ UNCHANGED <<open, enqueued, toService, served, issued, closes, announceVars, voteVars>>

-----------------------------------------------------------------------------
(* Announcements.                                                          *)

\* onState: nothing heard leaves the bot as it was; another stream starts the dwell anew.
Hear(link) ==
  /\ link # heard /\ turns < MaxTurns /\ turns' = turns + 1
  /\ heard' = link
  /\ IF link \in {NoLink, listeningURL} THEN UNCHANGED <<listeningURL, dwell>>
     ELSE listeningURL' = link /\ dwell' = link
  /\ UNCHANGED <<entries, timers, saying, overtaken, delayVars, voteVars>>

\* announce, up to the await: of the stream that is heard by then; or not at all, when
\* the chat is away or the stream is not in the list.
Announce == saying' = [saying EXCEPT ![listeningURL] = @ + 1] \/ UNCHANGED saying

\* The dwell that ends now finds an announcement of its stream with the chat, and no interval.
Overtakes ==
  overtaken' = IF dwell \notin entries /\ saying[dwell] > 0
               THEN [overtaken EXCEPT ![dwell] = @ + 1] ELSE overtaken

\* Mutant: whether the stream was announced before is not looked up.
BugDwellEnds ==
  /\ dwell # NoLink /\ dwell' = NoLink
  /\ Announce
  /\ Overtakes
  /\ UNCHANGED <<heard, listeningURL, entries, timers, turns, delayVars, voteVars>>

\* The dwell is over; the stream is announced unless its interval runs already.  An
\* announcement that is still with the chat is not looked for.
DwellEnds ==
  /\ dwell # NoLink /\ dwell' = NoLink
  /\ IF dwell \in entries THEN UNCHANGED saying ELSE Announce
  /\ Overtakes
  /\ UNCHANGED <<heard, listeningURL, entries, timers, turns, delayVars, voteVars>>

\* client.say settles: the interval begins, or the announcement has failed.
SaySettles(link, ok) ==
  /\ saying[link] > 0
  /\ saying' = [saying EXCEPT ![link] = @ - 1]
  /\ entries' = IF ok THEN entries \union {link} ELSE entries
  /\ timers' = IF ok THEN [timers EXCEPT ![link] = @ + 1] ELSE timers
  /\ UNCHANGED <<heard, listeningURL, dwell, turns, overtaken, delayVars, voteVars>>

IntervalEnds(link) ==
  /\ timers[link] > 0
  /\ timers' = [timers EXCEPT ![link] = @ - 1]
  /\ entries' = entries \ {link}
  /\ IF listeningURL = link THEN Announce ELSE UNCHANGED saying
  /\ UNCHANGED <<heard, listeningURL, dwell, turns, overtaken, delayVars, voteVars>>

-----------------------------------------------------------------------------
(* Votes.                                                                  *)

\* How many votes there are: the n-th for i is <<i, n>>.
Ballots == UNION {{i} \X (1 .. votes[i]) : i \in Idx}
Sum == Cardinality(Ballots)
NoVotes == [i \in Idx |-> 0]

Leaders == {i \in Idx : votes[i] > 0 /\ \A j \in Idx : votes[j] <= votes[i]}

\* onMsg.
Vote(idx) ==
  /\ cast < MaxVotes
  /\ votes' = [votes EXCEPT ![idx] = @ + 1] /\ cast' = cast + 1
  /\ late' = IF tally = None THEN 0 ELSE late + 1
  /\ UNCHANGED <<tally, counted, missed, delayVars, announceVars>>

\* tallyVotes, up to the await: one of those with the most votes.
TallyVotes ==
  /\ tally = None /\ Sum > 0
  /\ tally' \in {[idx |-> i, of |-> Sum] : i \in Leaders}
  /\ UNCHANGED <<votes, cast, counted, late, missed, delayVars, announceVars>>

\* The chat has been told: the view is switched to, and the votes begin anew; or not,
\* and the next interval tries again.
TallySettles(ok) ==
  /\ tally # None /\ tally' = None
  /\ counted' = IF ok THEN counted + tally.of ELSE counted
  /\ votes' = IF ok THEN NoVotes ELSE votes
  /\ missed' = IF ok THEN missed + late ELSE missed
  /\ late' = 0
  /\ UNCHANGED <<cast, delayVars, announceVars>>

-----------------------------------------------------------------------------
ServicesInit ==
  /\ open = FALSE /\ enqueued = <<>> /\ toService = <<>> /\ toClient = <<>>
  /\ served = 0 /\ status = None /\ shown = None /\ issued = 0 /\ closes = 0
  /\ heard = NoLink /\ listeningURL = NoLink /\ dwell = NoLink /\ entries = {} /\ turns = 0
  /\ timers = [l \in Link |-> 0] /\ saying = [l \in Link |-> 0] /\ overtaken = [l \in Link |-> 0]
  /\ votes = NoVotes /\ tally = None /\ counted = 0 /\ cast = 0 /\ late = 0 /\ missed = 0

DelayNext == Open \/ SocketCloses \/ Command \/ Serve \/ StatusArrives
ChatNext ==
  \/ \E link \in Link \union {NoLink} : Hear(link)
  \/ DwellEnds
  \/ \E link \in Link : IntervalEnds(link) \/ \E ok \in BOOLEAN : SaySettles(link, ok)
VoteNext == (\E idx \in Idx : Vote(idx)) \/ TallyVotes \/ \E ok \in BOOLEAN : TallySettles(ok)

ServicesNext == DelayNext \/ ChatNext \/ VoteNext
ServicesSpec == ServicesInit /\ [][ServicesNext]_serviceVars

-----------------------------------------------------------------------------
(* Types of the state.                                                     *)
ServicesTypeOK ==
  /\ Len(enqueued) <= MaxEnqueued /\ (enqueued # <<>> => ~open)
  /\ toService # <<>> \/ toClient # <<>> => open
  /\ served \in 0 .. issued
  /\ heard \in Link \union {NoLink} /\ listeningURL \in Link \union {NoLink}
  /\ dwell \in {NoLink, listeningURL} /\ entries \subseteq Link
  /\ \A l \in Link : timers[l] \in Nat /\ saying[l] \in Nat /\ overtaken[l] \in Nat
  /\ \A i \in Idx : votes[i] \in Nat

\* The service carries out commands in the order they were given, over all connections:
\* what was held back is never sent after something newer, or again.
ServedInOrder == [][served' >= served]_serviceVars

\* The chains of announcements of a stream: those with the chat, and the intervals that run.
Chains(link) == saying[link] + timers[link]

\* TwitchBot.ts:149-180: however often a stream is turned away from and back to, it is
\* announced by one chain, and by one more for each dwell that ended while an announcement
\* of it was with the chat: the intervals that end and begin make no others.
ChainsAreFew == \A l \in Link : Chains(l) <= 1 + overtaken[l]

\* A vote counts once, in one tally or another, also when the chat could not be told of
\* an earlier one; only what is cast while the chat is being told is lost.
VotesCountOnce == cast = counted + Sum + missed

\* When nothing is on its way, a state that is shown as connected is the service's own:
\* the operator who reads that the stream is censored can rely on it.
ShownIsServed ==
  open /\ toService = <<>> /\ toClient = <<>> => shown = [status |-> served, isConnected |-> TRUE]

\* The promises of the two clients together.
ServicesKeepOrder == ServedInOrder /\ [](ShownIsServed /\ ChainsAreFew /\ VotesCountOnce)
=============================================================================

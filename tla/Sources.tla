------------------------------ MODULE Sources ------------------------------
(***************************************************************************)
(* The streams of the wall: the data sources that deliver them, their      *)
(* combination, the ids the cells refer to, and the playlist of a cell     *)
(* (streamwall/src/main/data/, playlist.ts, and the loop at the end of     *)
(* main in index.ts).  What follows a delivery without waiting for the     *)
(* world outside is one step with it: the combined list, the state, and    *)
(* the playlist's retry.                                                   *)
(***************************************************************************)
EXTENDS Naturals, Sequences, SequencesExt, FiniteSets, TLC

CONSTANTS
  Poll,             \* URLs polled for JSON
  File,             \* TOML files watched
  Link,             \* links of streams, numbered in the order of a list
  Kind, NoKind,     \* kinds of content; NoKind where a batch has no such stream
  DefaultKind,      \* 'video'
  Rotation, NoRotation,
  Prefix,           \* what an id of a link begins with
  Bad,              \* a file that cannot be read or parsed
  Playlist          \* the URLs of the playlist, a sequence of links

ASSUME LinkAssumption == IsFiniteSet(Link) /\ Link = 1 .. Cardinality(Link)
ASSUME BadAssumption == Bad \notin [Link -> Kind \union {NoKind}]
ASSUME KindAssumption == DefaultKind \in Kind /\ NoKind \notin Kind /\ NoRotation \notin Rotation
ASSUME SourceAssumption == IsFiniteSet(Poll) /\ IsFiniteSet(File) /\ Poll \intersect File = {} /\ "custom" \notin Poll \union File
ASSUME PlaylistAssumption == Playlist \in Seq(Link) /\ Playlist # <<>>

VARIABLES
  contents,         \* what each file holds, or Bad
  changed,          \* an event of a file is on its way to its watcher
  text,             \* what a readFile under way has found in the file
  pc,               \* where the loop of each source is
  health,           \* DataSourceHealthTracker.byId
  latest,           \* lastData of each source, and its place in latestPerSource
  overlay,          \* overlayStreamData.dataByURL: rotations
  ids,              \* StreamIDGenerator.idMap
  streams,          \* clientState.streams, by link
  cursor, pending,  \* of the playlist
  cell              \* the stream the playlist has assigned to its cell

loops == <<changed, text, pc, health>>
list == <<latest, overlay, ids, streams>>
playlist == <<cursor, pending, cell>>
sourceVars == <<contents, loops, list, playlist>>

Batch == [Link -> Kind \union {NoKind}]
Empty == [l \in Link |-> NoKind]
Source == Poll \union File \union {"custom"}
NoId == "none"
NoStream == [kind |-> NoKind, from |-> "", rotation |-> NoRotation, id |-> NoId]

-----------------------------------------------------------------------------
(* StreamIDGenerator.process.                                              *)

\* The text of the k-th candidate for an id.
Candidate(prefix, k) == IF k = 0 /\ prefix # "" THEN prefix ELSE prefix \o ToString(k)

NewId(prefix, taken) ==
  LET free == {k \in 0 .. Cardinality(taken) : Candidate(prefix, k) \notin taken}
  IN  Candidate(prefix, CHOOSE k \in free : \A j \in free : k <= j)

\* A text followed by one number is not the same text followed by another.
ASSUME CandidateAssumption ==
  \A l \in Link, j, k \in 0 .. Cardinality(Link) :
    Candidate(Prefix[l], j) # NoId /\ (j # k => Candidate(Prefix[l], j) # Candidate(Prefix[l], k))

\* A link without an id gets one, and keeps it for as long as the app runs.
Name(map, l) ==
  IF map[l] # NoId THEN map ELSE [map EXCEPT ![l] = NewId(Prefix[l], {map[k] : k \in Link} \ {NoId})]

\* The links of a batch in turn.
NameBatch(map, batch) ==
  LET named[n \in 0 .. Cardinality(Link)] ==
        IF n = 0 THEN map ELSE IF batch[n] = NoKind THEN named[n - 1] ELSE Name(named[n - 1], n)
  IN  named[Cardinality(Link)]

-----------------------------------------------------------------------------
(* combineDataSources.                                                     *)

\* buildDataSources: polled URLs, then files, then custom streams.
Order == SetToSeq(Poll) \o SetToSeq(File) \o <<"custom">>

\* The merged map has the links in the order of the sources, and that of their lists.
Named(map, batches) ==
  LET named[i \in 0 .. Len(Order)] ==
        IF i = 0 THEN map ELSE NameBatch(named[i - 1], batches[Order[i]])
  IN  named[Len(Order)]

\* The position of the last source that has link l.
LastWith(batches, l) ==
  LET having == {i \in DOMAIN Order : batches[Order[i]][l] # NoKind}
  IN  IF having = {} THEN 0 ELSE CHOOSE i \in having : \A j \in having : j <= i

\* Later sources have precedence; the overlay only patches what another source has,
\* and neither the kind nor the source of that.
Merged(batches, rotations, map) ==
  [l \in Link |->
     LET i == LastWith(batches, l)
     IN  IF i = 0 THEN NoStream
         ELSE [kind |-> batches[Order[i]][l], from |-> Order[i],
               rotation |-> rotations[l], id |-> map[l]]]

-----------------------------------------------------------------------------
(* PlaylistScheduler.                                                      *)

Url(c) == Playlist[c + 1]

\* resolve: the cell takes the stream of the current URL, or waits for it.
Resolve(c) ==
  LET id == streams'[Url(c)].id
  IN  /\ pending' = (id = NoId)
      /\ cell' = IF id = NoId THEN cell ELSE id

RetryPending ==
  /\ UNCHANGED cursor
  /\ IF pending THEN Resolve(cursor) ELSE UNCHANGED <<pending, cell>>

Advance ==
  /\ cursor' = (cursor + 1) % Len(Playlist)
  /\ UNCHANGED <<contents, loops, list>>
  /\ Resolve(cursor')

-----------------------------------------------------------------------------
(* The loop of main: for await (const streams of combineDataSources(...)). *)

\* Mutant: nothing is combined before every source has spoken (#596).
BugCombine(batches, rotations) ==
  /\ latest' = batches /\ overlay' = rotations
  /\ IF \E s \in Poll \union File : health[s] = "none" THEN UNCHANGED <<ids, streams>>
     ELSE /\ ids' = Named(ids, batches)
          /\ streams' = Merged(batches, rotations, ids')
  /\ RetryPending

Combine(batches, rotations) ==
  /\ latest' = batches /\ overlay' = rotations
  /\ ids' = Named(ids, batches)
  /\ streams' = Merged(batches, rotations, ids')
  /\ RetryPending

\* Mutant: a failed or empty read takes the streams of the last one away.
BugDeliver(s, b) == Combine([latest EXCEPT ![s] = b], overlay)

\* A source keeps what it has when it read nothing.
Deliver(s, b) ==
  IF b = Empty /\ latest[s] # Empty THEN UNCHANGED <<list, playlist>>
  ELSE Combine([latest EXCEPT ![s] = b], overlay)

Report(s, ok) == health' = [health EXCEPT ![s] = IF ok THEN "ok" ELSE "error"]

-----------------------------------------------------------------------------
(* pollDataURL.                                                            *)

\* The headers have come, in time; only until then there is a timeout.
Headers(s) ==
  /\ pc[s] = "fetching"
  /\ pc' = [pc EXCEPT ![s] = "body"]
  /\ UNCHANGED <<contents, changed, text, health, list, playlist>>

Fails(s) ==
  /\ pc' = [pc EXCEPT ![s] = "sleeping"]
  /\ Report(s, FALSE)
  /\ Deliver(s, Empty)
  /\ UNCHANGED <<contents, changed, text>>

\* An HTTP error, a network error.
Refused(s) == pc[s] = "fetching" /\ Fails(s)

\* Mutant: there is no timeout (#603).
BugTimeout(s) == FALSE /\ Fails(s)

\* fetchWithTimeout aborts.
Timeout(s) == pc[s] = "fetching" /\ Fails(s)

\* The body is not JSON, or breaks off.
Broken(s) == pc[s] = "body" /\ Fails(s)

Body(s, b) ==
  /\ pc[s] = "body"
  /\ pc' = [pc EXCEPT ![s] = "sleeping"]
  /\ Report(s, TRUE)
  /\ Deliver(s, b)
  /\ UNCHANGED <<contents, changed, text>>

Wakes(s) ==
  /\ pc[s] = "sleeping"
  /\ pc' = [pc EXCEPT ![s] = "fetching"]
  /\ UNCHANGED <<contents, changed, text, health, list, playlist>>

-----------------------------------------------------------------------------
(* watchDataFile.                                                          *)

\* readFile has the text, but the loop does not go on yet.
Reads(f) ==
  /\ pc[f] = "reading"
  /\ pc' = [pc EXCEPT ![f] = "read"]
  /\ text' = [text EXCEPT ![f] = contents[f]]
  /\ UNCHANGED <<contents, changed, health, list, playlist>>

\* The text is parsed and pushed, and then the loop waits for an event.
Serves(f) ==
  /\ pc[f] = "read"
  /\ pc' = [pc EXCEPT ![f] = "watching"]
  /\ text' = [text EXCEPT ![f] = Bad]
  /\ Report(f, text[f] # Bad)
  /\ Deliver(f, IF text[f] = Bad THEN Empty ELSE text[f])
  /\ UNCHANGED <<contents, changed>>

\* Someone edits, breaks or replaces the file.
FileChanges(f, b) ==
  /\ b # contents[f]
  /\ contents' = [contents EXCEPT ![f] = b]
  /\ changed' = [changed EXCEPT ![f] = TRUE]
  /\ UNCHANGED <<text, pc, health, list, playlist>>

\* The event comes; once() hears it only if the loop waits for one.
FileEvent(f) ==
  /\ changed[f]
  /\ changed' = [changed EXCEPT ![f] = FALSE]
  /\ pc' = [pc EXCEPT ![f] = IF @ = "watching" THEN "reading" ELSE @]
  /\ UNCHANGED <<contents, text, health, list, playlist>>

\* An 'error' of the watcher ends the wait too.
WatcherError(f) ==
  /\ pc[f] = "watching"
  /\ pc' = [pc EXCEPT ![f] = "reading"]
  /\ UNCHANGED <<contents, changed, text, health, list, playlist>>

-----------------------------------------------------------------------------
(* Commands of the operator.                                               *)

\* LocalStreamData.update: under another link, the entry moves there; a kind that
\* is not given is that of the entry, if there is one.
UpdateCustomStream(url, link, kind) ==
  LET old   == latest["custom"]
      given == CHOOSE k \in Kind : k = IF kind # NoKind THEN kind
                                      ELSE IF old[url] # NoKind THEN old[url] ELSE DefaultKind
  IN  /\ Combine([latest EXCEPT !["custom"] =
                    [l \in Link |-> IF l = link THEN given ELSE IF l = url THEN NoKind ELSE old[l]]],
                  overlay)
      /\ UNCHANGED <<contents, loops>>

DeleteCustomStream(url) ==
  /\ Combine([latest EXCEPT !["custom"][url] = NoKind], overlay)
  /\ UNCHANGED <<contents, loops>>

RotateStream(url, rotation) ==
  /\ Combine(latest, [overlay EXCEPT ![url] = rotation])
  /\ UNCHANGED <<contents, loops>>

-----------------------------------------------------------------------------
\* The app after its first snapshot, which has the custom streams of the storage.
SourceInit ==
  /\ contents \in [File -> {Empty, Bad}]
  /\ changed = [f \in File |-> TRUE]        \* chokidar's 'add'
  /\ text = [f \in File |-> Bad]
  /\ pc = [s \in Poll \union File |-> IF s \in Poll THEN "fetching" ELSE "reading"]
  /\ health = [s \in Poll \union File |-> "none"]
  /\ overlay = [l \in Link |-> NoRotation]
  /\ \E stored \in Batch : latest = [s \in Source |-> IF s = "custom" THEN stored ELSE Empty]
  /\ ids = Named([l \in Link |-> NoId], latest)
  /\ streams = Merged(latest, overlay, ids)
  /\ cursor = 0
  /\ pending = (streams[Url(0)].id = NoId)
  /\ cell = streams[Url(0)].id

Polling ==
  \E s \in Poll :
    \/ Headers(s) \/ Refused(s) \/ Timeout(s) \/ Broken(s) \/ Wakes(s)
    \/ \E b \in Batch : Body(s, b)

Watching ==
  \E f \in File :
    \/ Reads(f) \/ Serves(f) \/ FileEvent(f) \/ WatcherError(f)
    \/ \E b \in Batch \union {Bad} : FileChanges(f, b)

Operating ==
  \/ \E l, m \in Link, k \in Kind \union {NoKind} : UpdateCustomStream(l, m, k)
  \/ \E l \in Link : DeleteCustomStream(l)
  \/ \E l \in Link, r \in Rotation : RotateStream(l, r)

SourceNext == Polling \/ Watching \/ Operating \/ Advance

\* Timers fire and files are read; no host need answer, and nobody need do anything.
SourceFairness ==
  /\ \A s \in Poll : WF_sourceVars(Timeout(s) \/ Wakes(s))
  /\ \A f \in File : WF_sourceVars(Reads(f) \/ Serves(f)) /\ WF_sourceVars(FileEvent(f))

SourceSpec == SourceInit /\ [][SourceNext]_sourceVars /\ SourceFairness

-----------------------------------------------------------------------------
(* Safety.                                                                 *)

\* Types; a stream of the list has an id, and the files and URLs have theirs.
SourceTypeOK ==
  /\ contents \in [File -> Batch \union {Bad}] /\ changed \in [File -> BOOLEAN]
  /\ text \in [File -> Batch \union {Bad}]
  /\ \A s \in Poll : pc[s] \in {"fetching", "body", "sleeping"}
  /\ \A f \in File : pc[f] \in {"reading", "read", "watching"}
  /\ health \in [Poll \union File -> {"none", "ok", "error"}]
  /\ latest \in [Source -> Batch] /\ overlay \in [Link -> Rotation \union {NoRotation}]
  /\ cursor \in 0 .. (Len(Playlist) - 1) /\ pending \in BOOLEAN
  /\ \A l \in Link : streams[l] # NoStream => streams[l].id = ids[l] /\ ids[l] # NoId

\* No two links ever share an id, whatever order sources deliver them in and
\* however short their texts are: an id is all that a cell knows of its stream.
IdsDistinct ==
  \A l, m \in Link : l # m /\ ids[l] # NoId => ids[l] # ids[m]

\* What one source has delivered is in the list, also while another one hangs (#596).
DeliveredAreListed ==
  \A s \in Source, l \in Link : latest[s][l] # NoKind => streams[l] # NoStream

\* The list has a stream, with the kind and the source it says, because that source
\* delivered it: rotating a link makes up no stream and changes none but in that.
OverlayOnlyPatches ==
  \A l \in Link : streams[l] # NoStream =>
    /\ \E s \in Source : streams[l].from = s /\ latest[s][l] = streams[l].kind
    /\ streams[l].rotation = overlay[l]

\* The cell has the stream of the playlist's current URL, or that is not known
\* at present: the playlist neither misses its arrival nor shows, however late it
\* comes, one that it has moved on from.
PlaylistAgrees ==
  IF pending THEN streams[Url(cursor)] = NoStream ELSE cell = ids[Url(cursor)]

-----------------------------------------------------------------------------
(* What a step does not do.                                                *)

\* A source that fails, or is empty for once, does not empty the wall, and a link
\* keeps its id even while no source has it, so that its cells find it again.
KeepsStreams ==
  [][ /\ \A s \in Poll \union File : latest[s] # Empty => latest'[s] # Empty
      /\ \A l \in Link : ids[l] # NoId => ids'[l] = ids[l] ]_sourceVars

-----------------------------------------------------------------------------
(* Liveness.                                                               *)

\* A URL is polled again and again, whatever its host does, unless it stops in
\* the middle of a body, which the timeout does not cover (poll.ts:46).
PollGoesOn ==
  \A s \in Poll : []<>(pc[s] = "sleeping") \/ <>[](pc[s] = "body")

\* A file that goes on changing goes on being read, though events are missed.
WatchGoesOn ==
  \A f \in File : []<>changed[f] => []<>(pc[f] = "reading")

\* The list of streams, and what goes by it.
ListAgrees == SourceTypeOK /\ IdsDistinct /\ DeliveredAreListed /\ OverlayOnlyPatches /\ PlaylistAgrees

\* No source comes to a halt.
LoopsGoOn == PollGoesOn /\ WatchGoesOn
=============================================================================

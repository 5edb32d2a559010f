------------------------------- MODULE Layers -------------------------------
(***************************************************************************)
(* The two layers of the wall frame URLs the operator typed, in sessions   *)
(* that refuse addresses which are not public.  What was refused is named  *)
(* in two places: on the wall (useBlockedLayerURLs.ts), and in the control *)
(* UI (BlockedLayerURLTracker, BlockedLayerURLNotice), where it can be     *)
(* dismissed.  A frame is requested once, so an edit of the links clears   *)
(* both lists and mounts every frame again.                                *)
(*                                                                         *)
(* Messages of the main process to a page arrive in order; a message that  *)
(* tells a page the links it has already is not modelled, for it changes   *)
(* nothing there.  A control client takes the state as it is at some       *)
(* moment: it may be away in between, and renders what is newest.          *)
(***************************************************************************)
EXTENDS Naturals, Sequences, FiniteSets

CONSTANTS
  Background, Overlay,    \* links of either layer
  Private,                \* those that the sessions refuse
  Probe,                  \* what a page inside a frame asks for again and again
  MaxUrls, MaxPending,    \* MAX_BLOCKED_LAYER_URLS, MAX_PENDING_BLOCKED_URLS
  MaxEdits, MaxRestarts   \* bounds of the model

ASSUME LayerAssumption == Background \intersect Overlay = {} /\ Probe \notin Background \union Overlay
ASSUME BoundAssumption == MaxUrls \in Nat \ {0} /\ MaxPending \in Nat \ {0}

VARIABLES
  streams,                \* clientState.streams: the links of both layers
  linksKey,               \* of the tracker: the links it knows, or Unknown
  urls, clearCount,       \* of the tracker, and of the state it broadcasts
  pendingBlockedURLs,     \* held until the overlay is listening
  page,                   \* for each layer: is it listening, its links, how often it mounted them
  toPage,                 \* messages on their way to each layer
  requested,              \* requests whose verdict is due, with the mount they are of
  seen,                   \* the list of the wall
  client,                 \* a control page: the state it has, and what it dismissed
  edits, restarts, lists, \* of the model: lists counts the lists that have stood
  told,                   \* of the model: which URL of which list was dismissed
  dropped                 \* of the model: a report found the queue of the wall full

layerVars == <<streams, linksKey, urls, clearCount, pendingBlockedURLs, page, toPage, requested, seen, client,
               edits, restarts, lists, told, dropped>>

Layer == {"background", "overlay"}
Url == Background \union Overlay
Named == Url \union {Probe}
Of(l) == IF l = "overlay" THEN Overlay ELSE Background
Unknown == {Probe}     \* not a set of links
StateMsg(links) == [type |-> "state", links |-> links]
BlockedMsg(url) == [type |-> "layer:blocked-url", url |-> url]

-----------------------------------------------------------------------------
(* The main process.                                                       *)

\* updateState: a state with these links and this list passes through the
\* reporter, which clears the list when the links are not those it knows.
UpdateState(links, list) ==
  LET cleared == linksKey \notin {Unknown, links} /\ list # {}
  IN  /\ streams' = links
      /\ linksKey' = links
      /\ urls' = IF cleared THEN {} ELSE list
      /\ clearCount' = IF cleared THEN clearCount + 1 ELSE clearCount
      /\ lists' = IF cleared THEN lists + 1 ELSE lists

\* A layer that has not loaded yet is told nothing.
Send(queues, l, msg) == IF page[l].loaded THEN [queues EXCEPT ![l] = Append(@, msg)] ELSE queues

\* The operator edits the links, or another source delivers.
EditLinks(links) ==
  /\ edits < MaxEdits /\ edits' = edits + 1
  /\ links # streams
  /\ UpdateState(links, urls)
  /\ toPage' = Send(Send(toPage, "background", StateMsg(links)), "overlay", StateMsg(links))
  /\ UNCHANGED <<pendingBlockedURLs, page, requested, seen, client, restarts, told, dropped>>

\* Any other change of the state, before the tracker knows any links.
OtherUpdate ==
  /\ linksKey = Unknown
  /\ UpdateState(streams, urls)
  /\ UNCHANGED <<pendingBlockedURLs, page, toPage, requested, seen, client, edits, restarts, told, dropped>>

\* reportBlockedURL: to the wall, or to its queue; and to the tracker.
Report(url) ==
  LET waits == ~page["overlay"].loaded /\ Len(pendingBlockedURLs) < MaxPending
  IN  /\ toPage' = Send(toPage, "overlay", BlockedMsg(url))
      /\ pendingBlockedURLs' = IF waits THEN Append(pendingBlockedURLs, url) ELSE pendingBlockedURLs
      /\ dropped' = (dropped \/ (~page["overlay"].loaded /\ ~waits))
      /\ IF Cardinality(urls) < MaxUrls /\ url \notin urls
         THEN UpdateState(streams, urls \union {url})
         ELSE UNCHANGED <<streams, linksKey, urls, clearCount, lists>>

\* layer:load: the overlay gets what was held for it, and both get the state.
Load(l) ==
  /\ ~page[l].loaded
  /\ page' = [page EXCEPT ![l].loaded = TRUE]
  /\ LET held == IF l = "overlay" THEN [i \in DOMAIN pendingBlockedURLs |-> BlockedMsg(pendingBlockedURLs[i])]
                 ELSE <<>>
     IN  toPage' = [toPage EXCEPT ![l] = @ \o held \o <<StateMsg(streams)>>]
  /\ pendingBlockedURLs' = IF l = "overlay" THEN <<>> ELSE pendingBlockedURLs
  /\ UNCHANGED <<streams, linksKey, urls, clearCount, requested, seen, client, edits, restarts, lists, told, dropped>>

-----------------------------------------------------------------------------
(* The pages of the layers, and their sessions.                            *)

\* What the frames of a mount ask for, of what will be refused.
Requests(l, links, mount) ==
  {[layer |-> l, url |-> u, mount |-> mount] : u \in links \intersect Of(l) \intersect Private}

\* A page learns the links: when they are others, every frame is mounted again, and
\* the wall's list is cleared unless these are the first.
TakeState(l) ==
  LET links == Head(toPage[l]).links
  IN  /\ toPage[l] # <<>> /\ Head(toPage[l]).type = "state"
      /\ toPage' = [toPage EXCEPT ![l] = Tail(@)]
      /\ IF page[l].known /\ page[l].links = links
         THEN UNCHANGED <<page, requested, seen>>
         ELSE /\ page' = [page EXCEPT ![l].links = links, ![l].known = TRUE, ![l].mounts = @ + 1]
              /\ requested' = requested \union Requests(l, links, page[l].mounts + 1)
              /\ seen' = IF l = "overlay" /\ page[l].known THEN {} ELSE seen
      /\ UNCHANGED <<streams, linksKey, urls, clearCount, pendingBlockedURLs, client,
                     edits, restarts, lists, told, dropped>>

TakeBlocked ==
  LET queue == toPage["overlay"]
  IN  /\ queue # <<>> /\ Head(queue).type = "layer:blocked-url"
      /\ toPage' = [toPage EXCEPT !["overlay"] = Tail(@)]
      /\ seen' = IF Cardinality(seen) < MaxUrls THEN seen \union {Head(queue).url} ELSE seen
      /\ UNCHANGED <<streams, linksKey, urls, clearCount, pendingBlockedURLs, page, requested, client,
                     edits, restarts, lists, told, dropped>>

\* The guard of a session has looked up the host; the frame may be gone by then.
Verdict(r) ==
  /\ r \in requested /\ requested' = requested \ {r}
  /\ Report(r.url)
  /\ UNCHANGED <<page, seen, client, edits, restarts, told>>

\* A page in a frame that is public asks for an address that is not.
ProbeRefused(l) ==
  /\ (page[l].links \intersect Of(l)) \ Private # {}
  /\ Len(toPage["overlay"]) < 2     \* bound of the model: no flood
  /\ Report(Probe)
  /\ UNCHANGED <<page, requested, seen, client, edits, restarts, told>>

-----------------------------------------------------------------------------
(* The notice in a control page.                                           *)

\* Mutant: whether the list was cleared in between is not asked.
BugStillDismissed(dismissed, list, count) == [generation |-> count, urls |-> dismissed.urls \intersect list]

\* Dismissals are of a generation of the list, and only for what it still names.
StillDismissed(dismissed, list, count) ==
  [generation |-> count, urls |-> IF dismissed.generation = count THEN dismissed.urls \intersect list ELSE {}]

Visible == client.urls \ client.dismissed.urls

\* The page has the state of this moment.
Receive ==
  /\ <<client.urls, client.list>> # <<urls, lists>>
  /\ client' = [urls |-> urls, generation |-> clearCount, list |-> lists,
                dismissed |-> StillDismissed(client.dismissed, urls, clearCount)]
  /\ UNCHANGED <<streams, linksKey, urls, clearCount, pendingBlockedURLs, page, toPage, requested, seen,
                 edits, restarts, lists, told, dropped>>

Dismiss ==
  /\ Visible # {}
  /\ client' = [client EXCEPT !.dismissed = [generation |-> client.generation, urls |-> client.urls]]
  /\ told' = told \union {<<client.list, u>> : u \in client.urls}
  /\ UNCHANGED <<streams, linksKey, urls, clearCount, pendingBlockedURLs, page, toPage, requested, seen,
                 edits, restarts, lists, dropped>>

-----------------------------------------------------------------------------
NoPage == [loaded |-> FALSE, known |-> FALSE, links |-> {}, mounts |-> 0]

NoPages == [l \in Layer |-> NoPage]
NoMessages == [l \in Layer |-> <<>>]

LayersInit ==
  /\ streams = {} /\ linksKey = Unknown /\ urls = {} /\ clearCount = 0 /\ pendingBlockedURLs = <<>>
  /\ page = NoPages /\ toPage = NoMessages /\ requested = {} /\ seen = {} /\ dropped = FALSE
  /\ client = [urls |-> {}, generation |-> 0, list |-> 0, dismissed |-> [generation |-> 0, urls |-> {}]]
  /\ edits = 0 /\ restarts = 0 /\ lists = 0 /\ told = {}

\* The desktop is started again, while the control page stays open.
Restart ==
  /\ restarts < MaxRestarts /\ restarts' = restarts + 1
  /\ streams' = {} /\ linksKey' = Unknown /\ urls' = {} /\ clearCount' = 0 /\ pendingBlockedURLs' = <<>>
  /\ page' = NoPages /\ toPage' = NoMessages /\ requested' = {} /\ seen' = {} /\ lists' = lists + 1
  /\ UNCHANGED <<client, edits, told, dropped>>

LayersNext ==
  \/ \E links \in SUBSET Url : EditLinks(links)
  \/ OtherUpdate
  \/ \E l \in Layer : Load(l) \/ TakeState(l) \/ ProbeRefused(l)
  \/ TakeBlocked
  \/ \E r \in requested : Verdict(r)
  \/ Receive \/ Dismiss \/ Restart

LayersSpec == LayersInit /\ [][LayersNext]_layerVars

-----------------------------------------------------------------------------
(* Types of the state.                                                     *)
LayersTypeOK ==
  /\ streams \subseteq Url /\ linksKey \in (SUBSET Url) \union {Unknown}
  /\ urls \subseteq Named /\ Cardinality(urls) <= MaxUrls /\ clearCount \in Nat
  /\ Len(pendingBlockedURLs) <= MaxPending
  /\ \A l \in Layer : page[l].links \subseteq Url /\ (~page[l].loaded => toPage[l] = <<>>)
  /\ seen \subseteq Named /\ Cardinality(seen) <= MaxUrls
  /\ client.urls \subseteq Named /\ client.dismissed.urls \subseteq client.urls

\* As long as the desktop is not started again, a control page hides a URL only if its
\* operator dismissed that URL in the very list that stands there: a list that was
\* cleared while the page was away is another one, even if it names the same URL (#810).
HiddenWasDismissed == restarts = 0 => \A u \in client.urls \ Visible : <<client.list, u>> \in told

Quiet ==
  /\ \A l \in Layer : page[l].loaded /\ toPage[l] = <<>>
  /\ requested = {}

\* Once nothing is on its way, every link that is refused is named in both places,
\* whatever was edited, loaded and cleared in whatever order: a clear that came after
\* the report of a frame is followed by another mount of it (layerLinks.ts).  What
\* finds a list or the queue full is lost.
StillRefusedIsNamed ==
  Quiet => \A u \in streams \intersect Private :
             /\ u \in urls \/ Cardinality(urls) = MaxUrls
             /\ u \in seen \/ Cardinality(seen) = MaxUrls \/ dropped

\* Every URL that is refused is in sight, until its operator says otherwise.
RefusedAreNamed == HiddenWasDismissed /\ StillRefusedIsNamed
=============================================================================

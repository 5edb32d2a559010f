# Streamwall in TLA+

Streamwall puts live streams on a wall: an Electron desktop application shows a grid of
tiles, each a `WebContentsView` of its own, and operators drive it from a control panel,
on the same machine or through a control server. This directory holds TLA+ modules for its
core logic, the TLC configurations that check them and TLAPS proofs of their most
important invariants. Paths are relative to `packages/` of the repository unless they
start with another directory.

## 1. Inventory

| Part | State it keeps | Operations | What is hard |
|---|---|---|---|
| Cell state machine, `streamwall/src/main/viewStateMachine.ts` | XState value and context of one tile: position, content, volume, requested audio / blur / pause, retry count, parked flag, current and preloaded raw view | DISPLAY, PARK, UNPARK, RELOAD, audio, blur, pause and volume events; renderer events; timers | a second view preloads while every other event goes on arriving; requests made in one state are applied in another; retries, watchdogs |
| Stream window, `streamwall/src/main/StreamWindow.ts`, `viewLayoutPlan.ts` | actors by id, parked actors and the audio to give back to each, raw views by webContents id | `setViews` (plan, display, retire or park), `setListeningView`, per-view commands, IPC from renderers | reuse of actors across layouts, parking around a fullscreen expansion, repeated calls |
| Page script, `streamwall/src/preload/mediaPreload.ts` | what the operator wants; the search, the acquired media | view-init round trip, search, acquisition, re-acquisition, IPC handlers | messages racing the reply to view-init; frames that come and go |
| HLS player page, `streamwall/src/renderer/playHLS.ts` | the player, its retries | load, fatal errors, parking, teardown | errors that go on, a parked view |
| Sessions and navigation, `navigationSecurity.ts`, `util.ts`, `ensureValidURL` and its callers | what is committed, the request under way | loads, redirects, frames, windows | checks at one hop and not at the next; a name that resolves otherwise the second time |
| Layout, `wallViews.ts`, `gridResize.ts`, `streamwall-shared/src/geometry.ts`, `layoutPresets.ts` | none of their own: the collaborative state document | derive contents from assignments, remap on resize, save and apply presets | remap order, playlists and overrides pointing at cells that moved |
| Desktop main, `index.ts`, `bootstrap.ts`, `commandHandlers.ts`, `storage.ts` | `clientState`, state document, fullscreen cell; the file, writes in flight | command handlers, state updates, windows, throttled saves, flush and quit | an `await` between reading and writing state, quit while a save is pending |
| Stream data, `data/*.ts`, `dataSources.ts`, `playlist.ts` | latest list of each source, overrides, ids, cursor of the playlist | polling, file watching, combining, playlist rotation | hung source, source removed while answering, stale override |
| Control server authentication, `streamwall-control-server/src/auth.ts`, `verifiedTokenCache.ts`, `scryptRateLimit.ts` | tokens by id, cache of verified secrets; budgets by address | validate, create, delete; invite redemption | revocation while a secret is being derived; a cache that outlives the token; a budget spent by somebody else |
| Control server connections, `ws/*.ts`, `context.ts`, `rateLimiter.ts` | the one uplink slot, clients, last state sent to each, state document of the uplink, buckets | handshake, authorized messages, fan-out of state and document, revocation, heartbeat | two handshakes at once, closing during authorization, messages queued before it ends, slow or silent peers |
| Control server process, `index.ts`, `bootstrap.ts`, `storage.ts` | file on disk, chain of writes, credentials of the first boot, deadline of the shutdown | boot, save, shutdown | crash between a revoke and its write; failing writes; signals in the boot |
| Uplink and client connections, `uplinkConnection.ts`, `useStreamwallWebsocketConnection.ts`, `useCollabConnection.ts` | socket, document, state, pending commands | reconnect, state and delta, responses, timeouts | delta without its base, response after reconnect, messages lost with a socket |
| Collaborative document (Yjs), `stateDoc.ts`, `useYDoc.ts`, `stateDocGuard.ts` | the CRDT of cell assignments | update, shape guard, size limit, undo | concurrent edits, updates lost at reconnect |
| Layers, `blockedLayerURLs.ts`, `useBlockedLayerURLs.ts`, `BlockedLayerURLNotice.tsx` | refused URLs by layer and load generation, dismissals | report, clear, dismiss | a report of an earlier load arriving late |
| Broadcast delay, `StreamdelayClient.ts`; Twitch bot, `TwitchBot.ts` | connection, last status; votes and timers | reconnect, commands; announcements and votes | a command on a closed socket; overlapping announcements |
| Updates, `appUpdater.ts`, `updaterSetup.ts`, `linuxUpdateChecker.ts`, `updateCheck.ts`, `useServerStatus.ts` | update status, versions known and dismissed | periodic checks, download, banners | a late answer that takes an offer back |
| Releases, `scripts/publish-release.mjs`, `check-release-tag.mjs`, `check-release-assets.mjs` | tags, drafts, artifacts, the report | publish, daily check | failed or repeated legs, reads that fail |
| Control UI, `streamwall-control-ui/src` | selection, drag and resize gestures | turn gestures into commands and document edits | gestures over a grid that changes under them |
| Configuration, logging, schemas, packaging | little | | sequential, or input and output only |

How they interact: data sources and the state document feed `updateViewsFromStateDoc`,
which derives the content of every cell and calls `StreamWindow.setViews`; that sends
DISPLAY, PARK and their like to the cell actors, synchronously. Renderers answer over IPC,
one message a macrotask. The actors' snapshots go into the client state, which the desktop
sends to the control panel window and, over the uplink, to the control server; the server
fans deltas out to its clients and passes their commands back. Authentication events close
sockets. Everything runs in single-threaded event loops (Electron main, each renderer, the
server, each browser), so a step of a model is what runs between two yields of one loop.

The properties that make each part correct:

- **Cell**: no view or window outlives its use; what is on the wall is the newest content
  that has loaded; hidden views are off the wall; every request is in force once the view
  runs, whichever state it was made in; every wait ends.
- **Stream window**: an actor shows at most one box, parked or displayed but not both, and
  is given back the audio it had; its bookkeeping and the actors' agree.
- **Control server**: a revoked token admits nobody and drops whom it admitted; there is
  one uplink; no client gets state before it is authorized, beyond its role, or a delta
  that does not start from what it has.
- **Connections**: the callback of a command is called once, whatever becomes of the
  socket; once everything has arrived desktop, server and page agree, and they come to.
- **Panel**: a gesture writes to cells of the grid only, and takes no stream the operator
  was not asked about, whatever became of the grid since it began.
- **Document**: all copies agree once messages are delivered; a resize moves assignments,
  overrides and fullscreen together.
- **Stream data**: no source keeps the list of another off the wall; an id belongs to one
  link, for good; loops go on whatever a host or a file does.
- **Server process**: the file is whole at any crash; a token whose end has reached it
  does not return; the token of the uplink stays usable; one deadline bounds a shutdown
  however the signals fall.
- **Desktop process**: a change that settled is saved, or its loss is known; the app quits
  when asked.
- **Layers, services, updates, releases**: what is refused is named where it can be read;
  a service is told things once and in order; an offer stands until its user has decided;
  a release is published complete, and a broken one is reported.
- **Pages**: media that is there is found and played as wanted; a stream that goes on
  failing is given up; no page goes where it may not.

## 2. Plan

Modules in the order of how much depends on them. Groups 1 to 6 are here.

1. **The cell.** `View` (state machine, raw views, renderers), `Cell` (how `StreamWindow`
   drives it).
2. **The control server.** `Auth` (tokens, cache, redemption), `ControlServer` (both
   endpoints, fan-out, revocation) on top of it, `Room` as the abstract specification it
   implements; `Limits` in front of both.
3. **The wall.** `Grid` (geometry), `Wall` (document to actors, operator commands,
   gestures), `Panel` (the same gestures on a panel that learns late).
4. **The connections.** `Sync`: desktop, server and page, with both sockets.
5. **What lasts.** `Storage` and `ServerLife` with the abstract file `AtomicFile`;
   `Desktop`; `Sources`, which feeds the streams of `Wall`.
6. **Around the wall.** `Layers`, `Services`, `Page`, `Player`, `Navigation`, `Updates`,
   `Releases`.
7. **Theorems** about groups 1 to 6: `CellProofs`, `ServerProofs`, `ServerLifeProofs`,
   `WallProofs`, `SyncProofs`, `SourcesProofs` and `DesktopProofs`, with `Induction` for
   what they have in common. Every invariant, action property and refinement that a
   passing run checks is proved (section 5); what is left to TLC alone is liveness.

The checked instances stay few: one safety run for each composition, one for liveness
where it needs a system of its own, and one for each real disagreement between the code
and what it says of itself. Parts that share no state are explored side by side in one run
(`MCDesktop`, `MCServerLife`, `MCLive`), each behaviour being one of a single part.

## 3. The modules

### `View`: one tile

One actor of `viewStateMachine.ts`. `mode` is its state value (`empty`, the phases of
`displaying.loading`, `running`, `error`; `gone` before `createView` and after `stop`),
`swap`, `playback`, `audio`, `video` the parallel regions of `running`, and `pos` …
`parked`, `cur` (`context.view`), `next` (`context.next`) its context. `raw` is what
Electron keeps of each `WebContentsView`: which window it is attached to, bounds,
`audioMuted`, the navigation under way, and the document in it with what that has been
told over IPC.

Each event of the machine is one action and runs to completion, entry and exit actions
included: `LeaveRunning` is the exit of `running`, `EnterRunning` its entry, `PromoteNext`
is `performSwap` with `resyncSwappedView`. `Command` collects what `StreamWindow` sends,
`Timer` the delayed transitions (`LoadingTimeout`, `PreloadTimeout`, `HealthyTimer`,
`StalledTimeout`, `RetryBackoff`), `Renderer` what comes back: the URL check of
`loadPage`, the commit of a navigation, `did-fail-load`, and the IPC of `mediaPreload.ts`.
The reply to `view-init` is computed with the event, and whatever is told to a document
before its `view-init` is lost to it.

Abstractions: timers may expire at any moment at which they run. OPTIONS is handled like
SET_VOLUME and left out; so are VIEW_INFO, DEVTOOLS and error texts. URL checks of one
host that overlap settle together. A page that reloads itself, and a renderer that dies
(`render-process-gone` has no handler), are not modelled. A DISPLAY that brings other
content to a view that loads or failed does not happen, since `viewLayoutPlan.ts:72-75`
gives other content only to running views; `Wall` has that rule.

### `Cell`: the tile as the layout drives it

`Cell` extends `View` by `StreamWindow`'s bookkeeping: `parkedAudio` is the entry of the
map of that name, `restoring` that of the `setViews` under way, `turn` what of the batch
is still to be sent, `chosen` a history variable: the audio mode that the operator's
commands add up to. Batches are DISPLAY, UNPARK, audio, RESUME (`displayPlannedViews`) and
PARK, mute, PAUSE (`hideView`). No other event comes between the sends of one batch,
because `setViews` does not yield.

### `Auth`: credentials of the server

`live` is `tokensById`, `verified` and `deriving` the entries and the pending
verifications of `verifiedTokenCache.ts`, `redeem` the POST requests of
`inviteExchange/invite.ts`, `info` what each token was issued as. A scrypt derivation is
two actions, what was read before it (`Lookup`) kept until it ends (`Settle`); issuing
(`BeginCreate`, `FinishInvite`) and redeeming (`BeginRedeem`, `AcceptRedeem`,
`FinishRedeem`) are split at every `await`. `Expire` stands for the TTL and the eviction
of the cache, at any time. A `Token` stands for an id and its secret; wrong secrets never
verify and are left out, like a collision of random ids; the rate limit of these routes is
`Limits`. Any set of tokens may be on disk at the start.

### `ControlServer`, `Room`: connections

`slot` and `conn` are `currentStreamwallWs` and `currentStreamwallConn`; `state` and `doc`
belong to an uplink, `bound` to the handlers of a client, which captured the connection
they were registered for; `seen` is `lastStateSent`. A handshake with a remembered
credential is one step (`ConnectVerified`), any other waits for its derivation
(`ConnectUnverified`, `Verified`), and all who wait for the same one are let in or turned
away in its step, in any order. The socket of an uplink exists while it waits, a browser's
only from its upgrade on. `TokensChanged` is the listener of `auth`'s state event and part
of every action that changes the tokens. A socket the server closes is `closing`, and
still heard, until the peer answers (`ClientClosed`, `UplinkClosed`); one over a limit is
`limited` and heard no more.

The heartbeat is the close it leads to and the budgets are the socket they cost. Commands
forwarded to the desktop change nothing in the server. What roles other than admin are not
told of the blocked layer URLs, and mismatched origins, are left out. `Version` and `Edit`
are opaque: the merge of edits is Yjs.

`Room` is the promise to operators apart from how it is kept: somebody is in the room with
a session that is good, on a wall that is up, and out in the very step in which either
ends. `KeepsRoom` maps `inside` to the credentials of the open sockets, `wall` to `conn`,
and says that `ControlServer` implements it.

### `Grid`, `Wall`: the layout

`Grid` has the pure functions: `Boxes` is `boxesFromViewContentMap`, `BoxRect`
`computeBoxRect`, `Remap` and `RemapCell` the resize, `Swapped` and `Stretched` the drag
and resize gestures of the control panel, with `Translated` for `translateFootprint`.

`Wall` has the state of the desktop that the layout depends on: grid, assignments,
streams, `fullscreenViewIdx`, presets, and the actors on the wall (`live`) and parked, in
insertion order. Every action ends in `UpdateViewsFromStateDoc`, which is
`deriveWallViews` and `setViews` with `planViewLayout`: `Plan` runs the four matchers over
the boxes round by round as the code does. It is one step because the observer of the
document runs in the transaction that changes it. Actions: `StreamsUpdate` (the data
sources deliver), `Place`, `Drag`, `Stretch` (edits from a panel), `SetGridSize`,
`SetViewFullscreen`, the three preset commands, the audio commands, `Runs` (an actor
reaches `running` or leaves it) and `Restart`.

Of an actor the layout sees its content, its cells, whether it runs, and its audio with
what is saved of it while parked: the rest is `View`. Stream ids and links are one to one
(`StreamIDGenerator`), the content of a cell is a pair of stream and kind. All boxes can
be displayed, so the branch of `displayPlannedViews` for one that cannot is not reached.
The panel whose gestures `Wall` has sees the wall of the moment. Confirmations are
answered either way. A document is saved entirely at a restart.

### `Panel`: gestures over a grid that changes

`main` is the grid and the document of the desktop; `seen` the state the panel has, with
`stateIdxMap` as `tile`, and `copy` its own document, which arrive apart (`SeeState`,
`SeeDocument`) and which every handler reads as they are when it runs. `swapStart`,
`moveStart` and `resize` are what a gesture keeps from its beginning to its end; `Abort`
is Escape or a pointer that is cancelled or off the grid. A pointer that does not move
keeps its cell (`hoveringIdx`) when the grid shrinks under it, so `Pointing` is over the
cells of any grid. `Write` is `viewsMap.get(idx)?.set(…)`: it skips cells the panel's
document has no map for; on the desktop it is lost where a resize has replaced the maps
(`current`), and may lose to a write of the same cell that the panel has not seen
(`unseen`), as Yjs decides. `Others` are all other operators and commands, as far as they
change the document. An input commits each value as it is typed (`isEager`), so that what
it holds meanwhile is not state. The operator may edit, knows every stream, and does not
undo; while a tile is expanded the gestures are those of `Wall`.

### `Sync`: desktop, server and page

One desktop, the server and one page, with the messages under way on both sockets: `up`,
`down` those of the uplink, `toPage`, `toServer` those of the page, `old` those a page had
sent over a socket it has left. `last` and `desynced` are `lastStateData` and `desynced`
of `useStreamwallWebsocketConnection.ts`, `responseMap` its callbacks; `stateDoc`,
`lastKnown` and `isConnected` those of `useCollabConnection.ts`; `seen` is
`lastStateSent`. A document is the set of edits in it, which is what the merge of Yjs
keeps; a delta is the pair of versions it leads from and to. Actions: `UplinkOpens`,
`UplinkBreaks` and `ReleaseSlot` (the close of a socket or the heartbeat that finds it
dead), `Connect`, `LinkBreaks`, `AttemptFails`, one receiver for each queue, and the
operator (`Change`, `UndoAll`, `Send`). `Refused` are versions the page's schema does not
accept, `Oversized` edits the server's guard refuses.

The page's effects run before a new socket brings anything, since connecting takes longer
than a frame. A page has no heartbeat of its own; a break is one it notices. What a socket
held when its uplink was given up (`old` at `ReleaseSlot`) goes to a connection that is no
more, and is dropped.

### `Sources`: the streams

`pc` is where the loop of each polled URL and each watched file is, `latest` the last list
of each source in `combineDataSources`, `overlay` that of rotations, `ids` the map of
`StreamIDGenerator`, `streams` what the wall gets, `cursor` and `pending` the playlist. A
delivery, the combination and the retry of the playlist are one step (`Combine`), for
nothing between them waits for the world. A poll is `Headers`, then `Body`; `Timeout`
fires only before the headers are there (`poll.ts:46`). A file is read (`Reads`) and
served (`Serves`) apart, so that it can change in between. An entry is its kind; ids are
strings, since whether two of them run into each other is the question, and are given out
source by source and link by link (`Named`).

### `Storage`, `AtomicFile`, `ServerLife`: the server's file and its process

`Storage` is `storage.ts`: `chain` is `#writeChain` with the data each write took when it
was asked for, `stage` how far the first has come (unlink, create, fill, rename), `file`
and `temp` the two files with their modes. `AtomicFile` says what that is for: requests
land or fail one by one in their order, and a crash loses some tail of them.
`FileIsAtomic` maps `chain` and `file` to it.

`ServerLife` adds the process: `boot` from one `await` of `initialInviteCodes` to the
next, `shut` the stages of the shutdown, `signalled` and `left` the signal during
`initApp` and the deadline, `checker` and `stopped` the update checker, and operators'
commands as what they do to the tokens. `Invite` are the invites that boots make, which
the next boot supersedes; those that operators make stay, and are to the file what
sessions are. `Crash` may happen anywhere; `Start` goes on from the file. History
variables (`used`, `since`, `flushed`, `owed`, `gone`) serve the properties.

### `Limits`: budgets of an address and of a socket

`counted` is the count of the window of each key of the limiter, `remembered` and
`pending` what it asks the cache; a request is classified when it arrives (`Arrive`) and
verified later (`Verify`), so that the cache may have changed meanwhile. The bucket of a
socket refills by the clock, which may be set back.

### `Layers`: refused URLs of the layers

`page` is a layer with the links it knows and how often it mounted its frames, `requested`
the requests whose verdict is due, `toPage` the messages to it, `seen` the list on the
wall, `urls` and `clearCount` those of the tracker, `client` what a control page has and
has dismissed. `Verdict` reports a refusal to both; an edit of the links clears both
lists; `Restart` is the desktop's, with control pages that stay.

### `Desktop`: storage, windows and the quit

`mem`, `timer`, `due`, `writing` and `queued` are lowdb's data, the throttle and the
writer, a document the number of its last change. `Close` runs the handlers of `window`
and `before-quit` in their order, `FlushStorage` what the quit waits for, `Hides` the
macOS exception. A start reads the file or begins without (`backed`).

### `Services`: stream delay and Twitch chat

`StreamdelayClient` with its socket, the one message held while it is down and the status
last told; `TwitchBot` with `dwell`, `entries` (`announceTimeouts`) and `timers`, the
messages the chat has not yet confirmed (`saying`), and the votes with a tally under way.
The dwell looks into `announceTimeouts` only, so that it may end while an announcement of
its stream is with the chat; the history variable `overtaken` counts how often it does.
Three parts of a behaviour each: `DelayNext`, `ChatNext`, `VoteNext`. `MCChat` is
`ChatNext` with a chat that is done before the operators turn to another stream.

### `Updates`, `Releases`: versions

`Updates` has the self-updater (`app`, `checking`, `dismissed`), the notice on Linux, the
check of the server, and the page that polls its status with a controller to abort older
requests. An answer is fixed when GitHub gives it and arrives later. `Releases` has a
version from the bump on `main` to the release GitHub calls the latest: tag, draft, the
legs of the build, the job that reads the artifacts and takes the release out of draft
(`JobReads`, `JobEdits`), a maintainer who publishes by hand, and the daily run with its
attempts and its report.

### `Page`, `Player`, `Navigation`: inside a web contents

`Page` is `mediaPreload.ts`: elements and frames with what the script can reach of them,
the search with its two observers and its timeout, the candidate and `currentMedia`, and
`desired` with the reply to `view-init` and the messages that race it. `View` says when
the main process sends what; here any message may be on its way. `Player` is `playHLS.ts`:
the player it picks, fatal errors and tries left, and whether segments are fetched.
`Navigation` has one `webContents` (of a view, a layer, the control window or the browse
window): a check of the URL that is awaited, then hops, each decided by the session,
connected by Chromium and perhaps prevented by the guard of `navigationSecurity.ts`. A
name resolves to public and private addresses, and may resolve otherwise the next time.

## 4. What is checked

| Run | Instance | States | What it shows |
|---|---|---|---|
| `timers` | the views of a cell: 1 rectangle, 1 volume, at most 4 commands; the sources: 1 URL, 1 file, 2 links whose ids run into each other, a playlist of both | 106,320 | loads, preloads and stalls end (`NothingHangs`); only a stream that is healthy again and again is reloaded for ever; ids are distinct and stay; every list delivered is listed; the overlay only patches; the playlist's cell agrees; loops go on |
| `cell` | 2 raw views, 2 contents, 2 rectangles, 2 volumes, 1 retry | 177,912 | no view leaks; hidden views are off the wall and shown ones on it; what was requested is in force, and nothing but a swap freezes a view; swaps only to loaded newest content, no blank tile; `StreamWindow` and actor agree about parking, and no audio choice is lost to it |
| `cell_resumed` | the same, 1 volume | violated | the tile that stays paused after a park during a preload (section 6) |
| `wall` | four sessions: rows of 3 cells and 2 streams; up to 3 by 2 cells in a window of 5 by 7 pixels; up to 2 by 2 cells, 1 stream, 1 preset; a late panel on a row of up to 3 cells, 2 streams, 2 writes | 124,189 | the wall shows the document, without ghosts; one tile is heard; running streams survive and stay put, drags lose none, resizes keep places; rectangles tile the window; gestures over a grid that changed leave no stray keys and take nothing unasked |
| `wall_swap` | 2 by 1 cells | violated | the drag within an expanded tile (section 6) |
| `auth_single_use` | 3 tokens, 2 redemptions | violated | overlapping redemptions (section 6) |
| `server` | two sessions: 2 uplinks, 1 browser, 2 tokens, 1 redemption; 1 uplink, 2 browsers, 3 tokens | 502,557 | the slot is never wedged, clients follow it; the cache vouches only for what is there; a redeemed invite stays gone; revocation, freshness, and the refinement of `Room` |
| `sync` | 1 edit on the desktop, 2 on the page of which 1 is refused, 3 versions of which 1 is refused, a command of either kind, 2 cuts; at most 3 of all these | 106,141 | whenever nothing is under way desktop, server and page agree, and in the end that is so for good; a page never goes back; every callback is called once |
| `sync_offline` | the same | violated | the last known grid of a page that stays offline (section 6) |
| `server_life` | 2 starts, 2 uplink tokens, 2 invites, 1 session, 2 writes in the queue, a deadline of 2 ticks; beside it 2 requests with budgets of 2, and a bucket of 3 | 1,753,736 | `AtomicFile` is implemented; no token whose end reached the file returns, and only a failed write or the end of the process keeps one from it; nothing becomes readable; the uplink's token stays good; one deadline, clean exits, no poll behind a close, the end of every shutdown; no budget is spent by another |
| `desktop` | eleven parts, each on its own (`MCDesktop`) | 761,365 | refused URLs are named; changes are saved and the app quits when asked; services are told things once and in order; offers of updates stand; releases are complete, broken ones reported; media is found and played as wanted; pages go nowhere else |
| `chat_prompt` | 2 streams, 4 turns | violated | a stream announced by two chains (section 6) |

**Bounds, and why they are enough.** An actor owns at most two raw views; a second content
and rectangle tell "the newest" from "an older one"; one retry is the difference between
budget left and spent. Volumes 1 and 2 tell the default from another. Three cells in a row
are the least with a box that can overlap its own new place; 3 by 2 has L shapes, which
fall into several boxes; 5 by 7 pixels are divided evenly by none of the grids. Two
streams tell the stream that stays from the one that comes, `MaxActors`, a guard of every
layout, is more than are alive at any time plus those created in one step, so that it
keeps nothing from happening. The cell count bounds the sessions of the wall; each leaves
out the commands that another is about (`MCWall`), so that an expansion meets edits,
resizes and loads in one, and presets, audio and restarts in another, without the product
of all. `MaxChanges` allows two writes, by the panel or by others: one during a gesture
and the one that ends it. The panel has one gesture at a time, since a drag that is under
way does not read what a swap keeps, nor a swap what the drag does. `MaxPending` of the
server bounds derivations under way, so that a second starts only when the first is over;
several sockets or requests waiting for one derivation are in. Two uplinks suffice for a
slot to be contended, three tokens for an uplink, a client and one to revoke or create
between them. One session is about the slot and the invite, the other about who is told
what (`MCServer`), which keeps the product of both out.

Three versions of the state are a base, a delta and one after it; two cuts are one of each
link, or one in the recovery from another; `MaxEvents` bounds what happens in all, so that
two events meet in the recovery from a third. Of the sources there is one of each kind, so
that every two of them can have the same link; the operator, the file and the host each
have some of the links only (`MCLive`). Two starts of a process are one that leaves the
file and one that finds it, and two writes in the queue one behind another. Two changes of
a document or of the lists, as many closes, lists, commands and votes as are in
`MCDesktop.cfg`, are enough for the first to be under way, or to be taken back, while the
second happens; two elements and one frame for media to be lost and found elsewhere; three
sites for a chain of two redirects, one of them to a name that changes its mind.

**Symmetry and views.** Identities are permuted in `cell`, `wall`, `server` and
`auth_single_use`, which have no liveness property. `ByPlace` lets TLC take wall states for one that differ
only in which identities the actors have; every action and property treats identities
alike. The other runs finish without.

**Deadlock** is checked for the cell and the wall. The other runs say
`CHECK_DEADLOCK FALSE`: tokens are issued once, all can be spent or revoked, and then
nothing more happens; processes end; bounded changes and commands are used up. That the
loops of the sources do not stop is `SourcesGoOn`.

**Fairness.** Only what the environment or the runtime is sure to do is fair:

- `timers`, of a cell: Node fires a timer that is not cancelled, and leaving the state is
  what cancels it. The page, the network and the operator are not assumed to do anything.
  Commands are finite, because each RELOAD or change of content restarts a timer.
  `HealthyTimer` has no fairness, since a page may stall before it.
- `sync`: networks deliver what they do not lose, the reconnecting sockets of both ends
  try again, the heartbeat finds a dead uplink, timers fire and derivations end. Cuts are
  bounded: a link that breaks again and again never settles.
- `timers`, of the sources: they fire and a file can be read; no host has to answer.
  `PollGoesOn` therefore excepts a body that stays away for ever, which no timeout covers
  (section 6). Each part is fair where it is explored.
- `server_life`: the clock alone (`Tick`, `Expire`). A shutdown ends even if no write,
  close or derivation ever does.
- `desktop`: a write ends, well or not; a quit that nothing prevents goes on; a throttle's
  timer fires; a scan of the page happens once due, and a frame loads; the daily run is
  scheduled, and GitHub, asked again and again, answers at some time (the one strong
  fairness, without which no report could be filed).

**Mutants.** Each property is checked against a change to the model of the kind that its
comment names (the definitions called `Bug…`), often the code before a fix named by its
issue number; TLC finds the property violated in the same instance.

## 5. What is proved

TLAPS proves what follows for any number of views, contents, positions, volumes, retries,
tokens, processes, writes, sockets, requests, budgets, credentials, versions, edits,
commands, cuts, streams, presets, platforms, roles, sources, links, votes, releases, sites
and media, any size of the grid and of the window, any clock and any length of a deadline.
The assumptions on constants are those the modules name. A `No…` value, like the other
values that stand for "nothing there" (`Idle`, `None`, `Unset`, `Bad`), is outside the set
it extends. Names that the code keeps apart are apart: no socket is of an uplink and of a
browser, no link of both layers, no source polled and a file. Defaults are among what they
are defaults of; there is an admin; what the server's guard refuses for its size is an
edit of a page. Budgets and bounds are natural numbers, and those of a queue, a list or a
grid are positive; the links of the sources are finite in number and numbered in their
order, and two numbers appended to one text make two ids; a window has a pixel for each
column and row. Each is about the encoding of the code's values, or a limit the code
itself has (`GRID_MAX` is 8).

*The cell* (`CellProofs`, about `View` and then about `Cell`).

- `TypeCorrect`: `TypeOK` is inductive by itself. One step per action; the retry budget is
  within bounds because `RetryLoading` spends only what is left. Lemmas (`RawClosed` and
  its like) say that operations on raw views stay in `RawState`.
- `NoLeaks`, `StaysPlaced`: from the inductive invariant `Placement`. Neither is
  inductive: that a swap keeps a parked cell off the wall needs that the preloaded view is
  off it, and that needs that only `cur` and `next` are alive and differ. `Placement` is
  their conjunction with `TypeOK` and the fact that a swap is active only while running.
  `QuietStep` disposes of the actions that move no view, `PlaceStep`, `LeaveStep` and
  `PromoteStep` of the three ways to move one.
- `DoesAsRequested`: `AsRequested` from `Requested`, which adds `NewDocuments`: a pause
  reaches only a view with a document, and the reply to view-init fills in only what the
  new document has not been told by then. That a RESUME reaches the view on show
  (`ResumeInForce`) needs besides that a view without a document has not been told to
  pause (`BlankPlays`). The two halves are not symmetric: a pause is in force after a swap
  as well, a RESUME is not, and `cell_resumed` shows it.
- `PictureKept`: `KeepsPicture`, an invariant and two action properties, from `Picture`:
  what the second view has loaded or is loading, phase by phase, is the newest content,
  since DISPLAY with other content starts the preload again.
- `CellTypeCorrect`, `ParkingIsUndone`: from `CellInv`. Between two batches actor and
  `parkedAudio` agree; that this survives a batch takes an invariant for each of its steps
  (`Showing`, `Hiding`): what DISPLAY has done to the parked flag by the time UNPARK is
  sent, that the audio to restore is still the operator's choice, and that the pause that
  the park imposed is still there to be lifted. The pause it speaks of is the one asked of
  the actor; what the document makes of it is `AsRequested`.
- `CellImplementsView`: each send of a batch is an event of the actor, so that
  `CellKeepsPromises` inherits the four results above for the cell as the layout drives
  it.

*The server* (`ServerProofs`, `ServerLifeProofs`).

- `AuthTypeCorrect`, `RedeemedStaysSpent`: from `AuthInv`, types together with
  `RedeemInv`. The types alone are not inductive: `FinishRedeem` adds a session to `live`
  that is known to have been issued only from what `AcceptRedeem` established.
- `VerifiedStayLive`: `VerifiedAreLive` is inductive relative to `AuthInv`. The two steps
  that matter are `Settle`, which looks at the tokens again after the derivation, and
  `TokensBecome`, which empties the cache.
- `ServerUsesAuth`: every step of `ControlServer` is one of `Auth` or leaves the
  credentials alone; `ServerKeepsCredentials` is what follows.
- `ServerTypeCorrect`, `UplinkStaysHeld`, `ClientsStayServed`: from `ServerInv`, and none
  of them without the others. That a handshake whose derivation ends lets in good sessions
  only rests on `VerifiedAreLive`; that the uplink which is let in finds the slot free of
  clients rests on every open client being on the connection (`Served`); and that a socket
  which waits is not taken for one that is let in, on `Handshaking`.
- `ServerKeepsRoom`: `ControlServer` implements `Room`. An admission is an `Enter`, and
  the invariant gives its guard; a close, a revocation or the end of the uplink is a
  `Leave` or a `Lost` of exactly those concerned, in the same step.
- `FileStaysAtomic`: the chain of writes implements `AtomicFile`. Every step of the
  process maps to asking for some writes, to the landing or failure of the first, to a
  crash, to the operator's edit or to a stutter; `Writing`, which moves only the temporary
  file, is the stutter, and that the rename brings exactly the data of the first write
  needs `StorageInv`.
- `UplinkStaysGood`: the token that is recorded is in the file with it, and after the boot
  it is the one uplink token that is good. The file alone does not carry this over a step:
  `DiskInv` says of everything that may become the file (what is in memory, the temporary
  file, every write in the queue) that a record has its token and no other, which is why
  `FinishMint` must ask for the token's write before the record's.
- `RevokedStayGone`: `SecretsStay`, that a token which has left the file is not good
  again, that while nothing is left to be written the file lacks a revocation only if a
  write has failed (`DivergesByFailure`), and that the file never becomes readable to
  others. A revocation whose write failed, or died with the process, is undone by the next
  start (section 6). `GoodAgain = {}` says nothing of the
  writes under way, and a write of an older content behind one of a newer would bring a
  token back. `Tidy` reads the file, the queue and the memory as one trace: a token in two
  of them is in all between, and none of them has a token that is gone. New tokens are
  drawn, so that asking for writes prolongs the trace (`QueuedTidy`), and a write that
  lands or fails cuts it at its beginning (`EndedTidy`). `NewestInv` says that the last
  write that waits has the tokens of memory, so that a queue which runs empty leaves them
  in the file unless that write has failed. `ModeInv` says that the temporary
  file is the owner's from its creation to the rename.
- `DeadlineHolds`: from the first signal on, at most `Budget + Floor` ticks pass, whatever
  the signals of the two stages; the invariant relates `since` and `left` by stage.
- `ShutdownsTell`: `ShutdownTells`, with `DeadlineHolds`. `CleanExit` looks at the file
  when the process is gone; the invariant `OwedInv` follows what it owes through the queue
  (`Waits`): there is one flush at most, whatever is behind it has nothing of what was
  revoked before it, and there is one write of the boot at most, which only the boot that
  waits for it has asked for. `ShutInv` relates the stages of shutdown, boot and flush;
  that no poll goes on behind the close hooks is one of its conjuncts, because a checker
  which is started late finds the flag that the hook has set.
- `LifeTypeCorrect`, from the same invariants.
- `LimitsKept`, `LimitsTypeCorrect`: `LimitsHold` of the two limiters side by side, from
  `ScryptInv` and `BucketInv`. What the window admitted is at most what it counted,
  because each request is counted under the key of the classification it was admitted
  with; and it is not what the bucket gave in excess that is bounded inductively, but that
  together with what the next refill may add. `LifeTypesCorrect`: the types of both, as
  the run explores them side by side.

*The connections* (`SyncProofs`).

- `SyncTypeCorrect`, `PageStaysInAgreement`: from `SyncInv`. `PageAgrees` speaks of the
  moments at which nothing is under way; what holds at all others is where every copy will
  be once the messages under way have arrived. `Versions` says it of the state: there is a
  trace of versions from what the receiver has, through each queue, to what the sender has
  (`Leads`), and a delta starts from the version before it, or is preceded by a state that
  takes its place. `Documents` says it of the edits: what one copy lacks is in the queue
  to it. `Sockets` and `Arrivals` say what a socket that closes has left to deliver, in
  which order; `Callbacks` that a command waits or was answered.
- `NeverBack`: from the same trace, which never descends; the reconnected page gets a
  state that is not `Behind` what it had.

*The wall and the panel* (`WallProofs`, with `Induction`).

- `WallTypeCorrect`, `ListensToOne`: from `WallInv`, the types (`Configured`, `Saved`,
  `Actors`), a document without cells off its grid (`Clean`, `NoGhosts`), `OneHeard` and
  `ShowsDocument`. That no actor is on the wall twice is inductive only with what a layout
  does to it: `PlanAllots` shows that the plan is an allotment (each actor to one box at
  most, each box one actor at most, with the rest unused) after every turn, `SetViewsStep`
  that the actors then show the boxes, since an actor takes a box only with its own
  content or when it runs (`Suits`). `OneHeard` counts what a parked actor will come back
  with.
- `OnlyDocumentShown`: the same invariant, with `PanelInv` for the documents a late panel
  and its gestures leave: keys are written only where there is a map, and the hands hold
  cells. `PanelSpec` is wall and panel side by side, each leaving the other's variables
  alone. That the boxes show exactly the wanted contents rests on `BoxesTile`: the boxes
  of `boxesFromViewContentMap` lie on the grid, are apart, each of one content, and leave
  out empty cells only.
- `TilesKept`: `TilesKeepStreams`, five action properties, from the same invariant. A
  resize keeps the places of what fits and the expansion with them; a drag keeps the size
  of the tile it moves, and of two tiles it trades loses neither; an unconfirmed resize of
  a tile takes no cell from another stream, whenever that came; a panel in step loses no
  stream it drags, and no stream to a smaller grid, without being asked. The hardest is
  the move to a place that overlaps the old one, where the translated cells are shown to
  be as many as the tile has (`Cardinality` of a bijection's image).
- `StreamsKept`: `StreamsSurvive`, that a new layout lets run what can go on running. It
  needs of the plan not only that it is an allotment but that no better one was left:
  `PlanSettles` shows of every turn that afterwards each box either has an actor that
  matches it by this turn's matcher, or no actor to spare matches it (`Settled`). From the
  first turn follows that a running tile keeps its own box (`SteadyLayout`), from the
  later ones that a content keeps as many actors as it has boxes and that none that runs
  is passed over (`KeptOfContent`). `StepKinds` leaves the other commands out of it: they
  make no layout.

- `TilesCoverWindow`: `WallOK`, in the sessions that are explored, which are behaviours of
  wall and panel. `Slices` says of one direction that a pixel is in a run of slices just
  when its slice is one of them, though the last slice has what the division leaves over;
  with the rectangles that the boxes are made as (`Rectangle`), each pixel is in the boxes
  that have its cell, and by `BoxesTile` in one or none.

`Boxes`, `Plan` and `Given` fold over sequences, and what a fold computes is proved by
induction on how far it has come. The induction theorems of the library cannot be used
(they take an operator as their parameter), but well-founded relations are sets: in
`Induction`, `Least` gives every set of naturals a least element, `Induct` and `Stays`
make induction of it, and `Recursion` a function with the values of the fold.

*The sources* (`SourcesProofs`, with `Induction`).

- `ListGoesBySources`: `ListAgrees`, from `SourceInv`. That the streams are what the last
  lists make of them (`ListInv`) is an equation that each delivery renews; what needs an
  argument is the ids. `NewIdIsFree` finds a candidate that nobody has among one more than
  there are links, by comparing cardinalities; naming link by link and source by source
  (`NameNames`, `BatchNamed`, `AllNamed`, by induction) then keeps every id there was, and
  keeps them apart, though the id of one link may be a candidate of another.
  `PlaylistInv` says that the playlist waits for a stream that is not there, or its cell
  has the id of one that has been.
- `StreamsAreKept`: `KeepsStreams`, from the same invariant: no step gives a link another
  id, and none takes the last list of a source away for an empty one.

*The parts around the wall* (`DesktopProofs`, about `MCDesktop`). Each part has an
inductive invariant of its own, and `PartSteps` shows that a step of the whole is one of a
single part, which leaves the variables of the others alone.

- `PartsTypeCorrect`: `PartsTypeOK`, the types of all parts, from all their invariants.
- `LinksAreNamed`: `RefusedAreNamed`, from `LayersInv`. The property speaks of pages which
  know the links there are; to get there takes what is on the way to each page. The links
  a page knows and those in its queue are a chain in which no two neighbours are the same
  (`Chain`), so that a page which mounts anew asks anew; a report is `Coming` when a clear
  before it makes room for it, and `Listed` when none comes behind it. `NamedInv` says of
  each refused link that it is listed, or its verdict is due, or it was dropped at a limit.
  `ClientInv` relates dismissals to the list they were made in, as long as the desktop is
  not restarted (section 6).
- `ChangesSaved`: `ChangesAreSaved`, from `WriterInv` (what was saved last is in memory,
  in the queue or in the file, and versions only grow on that way), `ThrottleInv` (memory
  lacks only a document whose save is due), `QuitInv` (a flush waits for a write that has
  what the document was when the quit began) and `WindowInv`.
- `ServicesInOrder`: `ServicesKeepOrder`. Of the delay, commands rise in number through
  both queues and the newest status on its way is the service's; of the chat, a stream has
  one chain, of announcements with the chat and intervals that run, and at most one more
  for each dwell that ended while an announcement of it was with the chat; of the votes, a
  tally under way has found all ballots but those that came after it began.
- `OffersStand`: `OffersHold`, from `AppInv`, `CheckerInv` and `StatusInv`; `OfferStep`
  says which steps end an offer.
- `ReleasesAreComplete`: `PublishedIsComplete`. It is not inductive, since `JobEdits` does
  not look again at what `JobReads` saw: the invariant adds `EditedIsComplete`, that a job
  about to edit has a complete draft, kept because uploads are never taken back.
- `PagesPlayOn`: `PagesPlay`, of the page script and the player. `WishInv` says that the
  last message about a wish, or the reply to view-init, or else the page itself, has what
  the operator wants; `MediaInv` that the acquired element is as the page was told, and
  that handlers are on no other; `SearchInv` that nothing is left of a search that ended.
  Of the player, `GoneIsQuiet`, and each fatal error takes a try or the player.
- `PagesStayPut`: `NavigationHolds`. `Placed` says where what is under way goes: windows
  of the app to its page only, a view that shows something to where it is, or where a load
  of the app takes it; `Screened`, that a hop the session has let pass goes to nothing it
  could tell to be private. Names that change their mind are not among what is told so.

**Only model-checked** is liveness, under the fairness of section 4: the provers do not
reach it (`NothingHangs`, `PageCatchesUp`, `SourcesGoOn`, `SignalEnds`, and `PartsProgress`,
which are the media that is found, the report of a broken release and the quit that ends).

## 6. Where the code and what it says of itself differ

With a run that shows it (PROJECT.json, `findings`):

- `SameBoxIsNoop`: a swap within one box should do nothing, but `computeSwap` compares
  cells. While a tile is expanded its box is the whole wall, so a drag across it writes
  one stream over all cells (`gridInteractions.ts:77`).
- `SingleUse`: two redemptions of one invite that overlap both get a session
  (`inviteExchange/invite.ts:92`).
- `OfflineGridKept`: a page that stays offline keeps the grid only until the next attempt
  to connect fails, whose close event replaces the last known document by the empty one
  (`useCollabConnection.ts:125`).
- `ResumedPlays`: `viewStateMachine.ts:415` sends a promoted view PAUSE again but never
  RESUME. A cell that is un-parked during a swap whose second view was told to pause comes
  up paused, and stays so until it is reloaded or parked again.
- `AnnouncedByInterval`: `TwitchBot.ts:152` asks whether an interval runs, not whether an
  announcement is with the chat. A stream is turned away from and back to; its interval
  ends, takes its entry out (`:175`) and announces, and while the chat has that message
  (`:172`) the dwell ends, finds no entry and announces too. Each of the two goes on to an
  interval of its own, so that the stream is announced twice as often from then on. The
  chat need not be slow for it: any time between message and answer will do.

Met while modelling, and visible in the modules, without a run of their own.

*Cell and wall.*

- `viewStateMachine.ts:653`: MUTE while loading or failed is only recorded, so a parked
  view that reloads stays audible until its next document commits; and it ends background
  listening, which MUTE should not.
- `viewStateMachine.ts:1094`: a promotion does not leave the region `playback`. A stall of
  the retired view stays in force, and its watchdog reloads the healthy one.
- `viewStateMachine.ts:490`: `loadPage` awaits `ensureValidURL` and goes on to the load
  after the machine has left `navigate`. A late check mutes and reloads a running view, or
  loads the old content after a preload that failed. `View` gives such a check up;
  `Navigation` follows it (`stale`), but no property says what is then shown.
- `StreamWindow.ts:520`: nothing listens to `render-process-gone`. A running cell whose
  renderer dies stays black.
- `commandHandlers.ts:155`: the second of two requests to expand the same tile expands the
  stream of cell 0, because the first cell of an expanded view is that.
- `commandHandlers.ts:173`: a browse command awaits the validation and then uses the
  shared `browseWindow`, so an earlier one may load into the window of a later, or one
  opened for DevTools.
- `viewLayoutPlan.ts:79`: while the view of an expansion is loading, other content for the
  expanded cell takes a running parked view, though parked ones are to be kept.
- `navigationSecurity.ts:44-61`: a reload of a link that redirects twice or more is
  prevented, since a hop on the way is not where the view is.
- `playHLS.ts`: a fatal network error of a parked view calls `startLoad`, and it fetches
  again.
- `mediaPreload.ts`: a pause while the same element is being re-acquired stops it from
  starting until it is resumed, or reloaded as stalled.

*Server and connections.*

- `ws/client.ts:265`, `context.ts:34`: a client of a lost uplink that has not closed yet
  edits the document of that uplink, and the edit is sent to the clients of the next.
- `verifiedTokenCache.ts:30`: a request that is to join a verification under way is
  classed as not deriving. When that verification fails before the request gets there, it
  derives after all, outside the strict budget.
- `bootstrap.ts:131` of the server: a crash between the write of the record and
  `logBootstrap` leaves an uplink token that was never shown, and the next boot keeps it.
- `index.ts:283` of the server: a revocation is in force at once, and written later. A
  write that fails is logged and made good only by the next one, and one that is pending
  is lost with the process: in both cases the token is good again after the next start.
  The comment there (`:279-282`) says so; `SecretsStay` says that there is no third way.
- `bootstrap.ts:361` of the server: commands carried out after the flush are queued behind
  it, and the process exits with 0 without having written them.
- `useStreamwallWebsocketConnection.ts:150`: a command may be told "No response from the
  server" after 5 s and be carried out.
- `yUndo.ts:16`: the undo manager tracks what came from the server too: undoing on a fresh
  page takes back the arrival of the document, for everybody; and
  `useControlHotkeys.ts:148` does not ask whether the role may edit.
- `useTileDrag.ts:88`: a drag that begins on a cell which a shrink then removes, and ends
  on a tile, empties that tile: there is no box to take from and no key to give to. A drag
  that ends before the state has caught up with the panel's own edit takes both ends for
  empty, and removes the stream just placed. `DraggedStay` is about the other cases. The
  comment at `useTileDrag.ts:54` knows of a third, two operators who swap at once.
- `useTileResize.ts:185`: a tile made smaller vacates the cells it had when the gesture
  began, also one that has another stream by then; the question is asked only about the
  cells it takes, and `AsksFirst` is about those.
- `yUndo.ts:16`: undoing a smaller grid brings back the document of the larger one, not
  its size: cells off the grid have keys, and the next resize drops them. That the wall
  shows no cells but its own is shown without undo.
- `useGridCommands.ts:99`, `268`: the confirmation of a resize or of a preset is computed
  from what the page shows, which may be late.

*Sources and storage.*

- `poll.ts:46`: the timeout covers the headers only; a body that never ends stops its
  source.
- `watchFile.ts:63`: an event between a read and the wait for the next is missed, though
  `example.config.toml:51` promises that changes are picked up; the file is right again
  with its next change.
- Ids are given in the order of arrival and kept in memory: after a restart cells may name
  other streams. `README.md:262` describes the playlist otherwise than `playlist.ts` acts.
- A data source that throws ends `main` and the process.
- `bootstrap.ts:395` of the desktop: a change of the document during the flush of the quit
  is lost.
- `blockedLayerURLs.ts:38`: after a restart of the desktop the generation counts from 0
  again, and a dismissal of before may hide a later refusal
  (`BlockedLayerURLNotice.tsx:28`).
- `useBlockedLayerURLs.ts`: the verdict on a frame that was unmounted is listed after the
  clear; the queue of the wall keeps duplicates.

*Services and releases.*

- `TwitchBot.ts:60-64`: votes that come while the chat still has the result of the tally
  before are lost if that takes longer than `vote.interval`. The model assumes it does not.
- `StreamdelayClient.ts`: the one message kept while the socket is down is the oldest,
  later commands are dropped; and the status of before counts as that of the new
  connection until the first message.
- Running the pipeline of an older tag again moves what is called the latest release back;
  a daily run in the grace of a new version closes the report of a previous release that
  is still broken.

## 7. What is not modelled

The components of PROJECT.json with status `not_modelled` or `partly`, with the reason
there. In short:

- **Control UI**: rendering, the pixels of the pointer, and undo, which `Sync` has only as
  the end of all edits. What its gestures write is in `Wall` and `Panel`, what its hooks
  keep of the connection in `Sync`, of updates in `Updates`, of refusals in `Layers`.
- **Schemas and types**, **tests, scripts and packaging**: declarations, or no behaviour
  of the running system. Configuration, logging, menus and the set-up of Electron are
  sequential.
- **Services outside the repository** (Yjs, hls.js, lowdb, electron-updater, Twitch,
  streamdelay, GitHub): only how the code uses them. Of lowdb the atomic writer, not the
  adapter it has for Windows.
- **Within the modelled parts**: fields of entries, presets as a source, validation and
  merging of labels in `Sources`; the lockdown of other elements, snapshots and the
  Instagram button in `Page`, and the order of elements in a document (the code takes the
  first; the model any, but not the one it had while a newer one is beside it);
  permissions, the origins of the development server and the HLS page in `Navigation`; the
  notice's 500 ms flush in `Layers`; the global limiter in `Limits`; browsing and
  favourites in `Wall` (`Desktop` saves them).

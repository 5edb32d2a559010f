----------------------------- MODULE Navigation -----------------------------
(***************************************************************************)
(* Where the pages of the desktop may go: one webContents of a view, of a  *)
(* layer of the wall, of the control window or of the browse window.       *)
(*                                                                         *)
(* A load of the main process awaits ensureValidURL first, and a check the *)
(* program has turned away from goes on to its load all the same.  Then a  *)
(* navigation, and what a frame of the page asks for, take one hop after   *)
(* the other: the session decides on each (onBeforeRequest), Chromium      *)
(* connects, the server answers with a page or the next hop, and the guard *)
(* of will-navigate and will-redirect may prevent it (navigationSecurity). *)
(*                                                                         *)
(* Each URL has a host of its own.  A name resolves to addresses that are  *)
(* public, private or both, or to none, and may resolve otherwise when it  *)
(* is asked for again; allowedOrigins is that of a packaged build, empty.  *)
(***************************************************************************)
CONSTANTS
  Site, NoSite,
  AppPage,          \* the page of the bundle the window or layer renders
  Loopback,         \* localhost and what is below it
  Steady            \* names that resolve to the same, and literal addresses

ASSUME UrlAssumption == /\ AppPage \in Steady
                        /\ NoSite \notin Site /\ Steady \subseteq Site
                        /\ Loopback \subseteq Site \ Steady

VARIABLES
  surface,          \* whose webContents it is
  dns,              \* the addresses a name resolves to
  awaited,          \* the URL ensureValidURL is awaited for, or NoSite
  stale,            \* one it is still under way for, whose caller has turned away
  nav,              \* the navigation of the main frame
  embed,            \* a request of a frame of the page
  committed,        \* getURL(): what is committed, NoSite before
  reached,          \* URLs whose private address was connected to
  opened            \* what the OS browser was last given

navVars == <<surface, dns, awaited, stale, nav, embed, committed, reached, opened>>

Surface == {"view", "layer", "control", "browse"}
AppWindow == surface \in {"layer", "control"}
Hardened == surface # "control"
Addresses == SUBSET {"public", "private"}

\* A request: the URL of the hop it is at, the one it began with and who began it.
At(step, u, first, by) == [step |-> step, to |-> u, first |-> first, by |-> by]
NoHop == At("idle", NoSite, NoSite, "app")
Prevented == At("prevented", NoSite, NoSite, "app")

\* file:, data: and blob: are the app's own machinery; here its page stands for them.
Web == Site \ {AppPage}

-----------------------------------------------------------------------------
(* util.ts.                                                                *)

\* ensureValidURL refuses what it cannot tell to be public.
ValidURL(u) ==
  /\ u \in Web \ Loopback
  /\ dns[u] # {} /\ "private" \notin dns[u]

\* findRequestBlockReason refuses what it can tell not to be, and nothing else.
Blocked(u) == u \in Web /\ (u \in Loopback \/ "private" \in dns[u])

-----------------------------------------------------------------------------
(* navigationSecurity.ts.                                                  *)

\* Mutant: a redirect in a frame is compared with the page of the view (#794).
BugPrevents(frame, u) ==
  \/ surface = "view" /\ committed \notin {NoSite, u}
  \/ AppWindow /\ ~(surface = "layer" /\ frame = "embed") /\ u \notin {AppPage, committed}

\* preventNavigationAway, and the guard of secureAppWindow; the browse window has none.
Prevents(frame, u) ==
  \/ surface = "view" /\ frame = "main" /\ committed \notin {NoSite, u}
  \/ AppWindow /\ ~(surface = "layer" /\ frame = "embed") /\ u \notin {AppPage, committed}

\* setWindowOpenHandler: no window ever opens; the control window hands a link on.
OpenWindow(u) ==
  /\ committed # NoSite
  /\ surface = "control" /\ u \in Web
  /\ opened' = u
  /\ UNCHANGED <<surface, dns, awaited, stale, nav, embed, committed, reached>>

-----------------------------------------------------------------------------
(* Loads of the main process.                                              *)

\* The machine of a view enters navigate; a browse command destroys the window there
\* is and creates another.  Either may do so while a check is under way.
LoadPage(u) ==
  /\ surface \in {"view", "browse"} /\ u \in Web
  /\ awaited' = u
  /\ stale' = IF awaited = NoSite THEN stale ELSE awaited
  /\ IF surface = "browse"
     THEN committed' = NoSite /\ nav' = NoHop /\ embed' = NoHop
     ELSE UNCHANGED <<committed, nav, embed>>
  /\ UNCHANGED <<surface, dns, reached, opened>>

LoadURL(u) == nav' = IF ValidURL(u) THEN At("asked", u, u, "app") ELSE nav

CheckEnds ==
  /\ awaited # NoSite /\ awaited' = NoSite
  /\ LoadURL(awaited)
  /\ UNCHANGED <<surface, dns, stale, embed, committed, reached, opened>>

\* loadURL of what is no longer wanted; the window it is called on is the present one.
StaleCheckEnds ==
  /\ stale # NoSite /\ stale' = NoSite
  /\ LoadURL(stale)
  /\ UNCHANGED <<surface, dns, awaited, embed, committed, reached, opened>>

-----------------------------------------------------------------------------
(* The page, the session and the network.                                  *)

\* will-navigate: a link, a script or a reload of the page.
PageNavigates(u) ==
  /\ committed # NoSite /\ u \in Web \union {committed}
  /\ nav' = IF Prevents("main", u) THEN Prevented ELSE At("asked", u, u, "page")
  /\ UNCHANGED <<surface, dns, awaited, stale, embed, committed, reached, opened>>

\* A frame, an image, a segment, a socket; the control window has no frames.
EmbedAsks(u) ==
  /\ committed # NoSite /\ surface # "control" /\ u \in Web
  /\ embed' = At("asked", u, u, "page")
  /\ UNCHANGED <<surface, dns, awaited, stale, nav, committed, reached, opened>>

\* Mutant: only the first hop is looked at.
BugCancels(r) == Hardened /\ r.to = r.first /\ Blocked(r.to)

\* onBeforeRequest, which a redirect enters again.
Cancels(r) == Hardened /\ Blocked(r.to)

Decided(r) == IF Cancels(r) THEN NoHop ELSE [r EXCEPT !.step = "sent"]

\* The app's page is on the disk, and a loopback name needs no resolver; a request to a
\* name that does not resolve fails.
Reaches(u) == IF u = AppPage THEN {"public"} ELSE IF u \in Loopback THEN {"private"} ELSE dns[u]

Connect(r) ==
  \E address \in Reaches(r.to) :
    reached' = IF address = "private" THEN reached \union {r.to} ELSE reached

NavDecided ==
  /\ nav.step = "asked" /\ nav' = Decided(nav)
  /\ UNCHANGED <<surface, dns, awaited, stale, embed, committed, reached, opened>>

NavCommits ==
  /\ nav.step = "sent"
  /\ Connect(nav)
  /\ committed' = nav.to /\ nav' = NoHop /\ embed' = NoHop
  /\ UNCHANGED <<surface, dns, awaited, stale, opened>>

NavFails ==
  /\ nav.step = "sent" /\ nav' = NoHop
  /\ UNCHANGED <<surface, dns, awaited, stale, embed, committed, reached, opened>>

\* will-redirect.
NavRedirected(u) ==
  /\ nav.step = "sent" /\ {u, nav.to} \subseteq Web /\ u # nav.to
  /\ Connect(nav)
  /\ nav' = IF Prevents("main", u) THEN Prevented ELSE [nav EXCEPT !.step = "asked", !.to = u]
  /\ UNCHANGED <<surface, dns, awaited, stale, embed, committed, opened>>

EmbedDecided ==
  /\ embed.step = "asked" /\ embed' = Decided(embed)
  /\ UNCHANGED <<surface, dns, awaited, stale, nav, committed, reached, opened>>

EmbedLoads ==
  /\ embed.step = "sent"
  /\ Connect(embed)
  /\ embed' = NoHop
  /\ UNCHANGED <<surface, dns, awaited, stale, nav, committed, opened>>

EmbedRedirected(u) ==
  /\ embed.step = "sent" /\ u \in Web \ {embed.to}
  /\ Connect(embed)
  /\ embed' = IF Prevents("embed", u) THEN Prevented ELSE [embed EXCEPT !.step = "asked", !.to = u]
  /\ UNCHANGED <<surface, dns, awaited, stale, nav, committed, opened>>

Resolves(u, addresses) ==
  /\ u \in Web \ (Steady \union Loopback)
  /\ dns' = [dns EXCEPT ![u] = addresses]
  /\ UNCHANGED <<surface, awaited, stale, nav, embed, committed, reached, opened>>

-----------------------------------------------------------------------------
NavigationInit ==
  /\ surface \in Surface
  /\ dns \in [Site -> Addresses] /\ \A u \in Steady : dns[u] # {}
  /\ dns[AppPage] = {"public"} /\ \A u \in Loopback : dns[u] = {}
  /\ awaited = NoSite /\ stale = NoSite
  /\ nav = IF AppWindow THEN At("asked", AppPage, AppPage, "app") ELSE NoHop
  /\ embed = NoHop /\ committed = NoSite /\ reached = {} /\ opened = NoSite

NavigationNext ==
  \/ CheckEnds \/ StaleCheckEnds
  \/ NavDecided \/ NavCommits \/ NavFails \/ EmbedDecided \/ EmbedLoads
  \/ \E u \in Site :
       \/ LoadPage(u) \/ PageNavigates(u) \/ EmbedAsks(u) \/ OpenWindow(u)
       \/ NavRedirected(u) \/ EmbedRedirected(u)
       \/ \E addresses \in Addresses : Resolves(u, addresses)

-----------------------------------------------------------------------------
Hop == [step : {"idle", "asked", "sent", "prevented"}, to : Site \union {NoSite},
            first : Site \union {NoSite}, by : {"app", "page"}]

\* Types of the state.
NavigationTypeOK ==
  /\ surface \in Surface /\ dns \in [Site -> Addresses]
  /\ {awaited, stale, committed, opened} \subseteq Site \union {NoSite}
  /\ nav \in Hop /\ embed \in Hop /\ reached \subseteq Site
  /\ opened # NoSite => surface = "control"

\* A view leaves the page it has only for the very URL that a load of the main process
\* asked for, and the control window and the layers have no page but their own: neither a
\* link nor a script nor a redirect, of a reload for one, takes them elsewhere (#732).
StaysPut ==
  /\ surface = "view" /\ committed # NoSite /\ committed' # committed => nav.by = "app" /\ committed' = nav.first
  /\ AppWindow => committed' \in {NoSite, AppPage}

\* The guard stands in nobody's way who is not leaving: frames of views and layers follow
\* their own redirects (#794), and a first load arrives through any number of them.
LetsResolve ==
  /\ embed.step # "prevented"
  /\ committed = NoSite => nav.step # "prevented"

\* Whatever hop or frame a request is of, no private address is reached that its name
\* always resolves to; only one whose answer changes between the check and the connection
\* is, as util.ts says it may (#169).
KnownUnreached == Hardened => reached \intersect (Steady \union Loopback) = {}

\* Pages go where they may, and reach what they may.
NavigationHolds == [](LetsResolve /\ KnownUnreached) /\ [][StaysPut]_navVars
=============================================================================

------------------------------ MODULE MCDesktop ------------------------------
(***************************************************************************)
(* The parts around the wall that share no state with one another, each    *)
(* explored on its own: a behaviour is one of the part it begins with.     *)
(***************************************************************************)
EXTENDS Layers, Desktop, Services, Releases, Updates, Page, Player, Navigation

VARIABLE part

\* Where names do not matter, none resolves.
Unresolved == [u \in Site |-> IF u \in Steady THEN {"public"} ELSE {}]

partVars == <<layerVars, desktopVars, serviceVars, releaseVars, updateVars, pageVars,
              playerVars, navVars, part>>

PartInit ==
  /\ LayersInit /\ DesktopInit /\ ServicesInit /\ ReleasesInit /\ UpdatesInit /\ PageInit
  /\ PlayerInit /\ NavigationInit
  /\ part \in {"layers", "storage", "delay", "chat", "votes", "releases", "updater", "status", "page",
               "player", "navigation"}
  /\ darwin => part = "storage"
  /\ hasVideo => part = "page"
  /\ srcAllowed \/ support # "none" => part = "player"
  /\ surface # "view" \/ dns # Unresolved => part = "navigation"

\* The parts before the pages, and the pages with the rest.
OthersStay == UNCHANGED <<pageVars, playerVars, navVars>>
PartsStay == UNCHANGED <<layerVars, desktopVars, serviceVars, releaseVars, updateVars>>

PartNext ==
  /\ part' = part
  /\ \/ /\ part = "layers" /\ LayersNext
        /\ OthersStay /\ UNCHANGED <<desktopVars, serviceVars, releaseVars, updateVars>>
     \/ /\ part = "storage" /\ DesktopNext
        /\ OthersStay /\ UNCHANGED <<layerVars, serviceVars, releaseVars, updateVars>>
     \/ /\ \/ part = "delay" /\ DelayNext
           \/ part = "chat" /\ ChatNext
           \/ part = "votes" /\ VoteNext
        /\ OthersStay /\ UNCHANGED <<layerVars, desktopVars, releaseVars, updateVars>>
     \/ /\ part = "releases" /\ ReleasesNext
        /\ OthersStay /\ UNCHANGED <<layerVars, desktopVars, serviceVars, updateVars>>
     \/ /\ \/ part = "updater" /\ AppNext
           \/ part = "status" /\ StatusNext
        /\ OthersStay /\ UNCHANGED <<layerVars, desktopVars, serviceVars, releaseVars>>
     \/ /\ part = "page" /\ PageNext
        /\ PartsStay /\ UNCHANGED <<playerVars, navVars>>
     \/ /\ part = "player" /\ PlayerNext
        /\ PartsStay /\ UNCHANGED <<pageVars, navVars>>
     \/ /\ part = "navigation" /\ NavigationNext
        /\ PartsStay /\ UNCHANGED <<pageVars, playerVars>>

\* The daily run is scheduled where it is explored; nothing else that is fair can happen elsewhere.
PartFairness ==
  /\ DesktopFairness /\ PageFairness
  /\ WF_releaseVars(part = "releases" /\ DailyRun)
  /\ SF_releaseVars(Answers)

PartSpec == PartInit /\ [][PartNext]_partVars /\ PartFairness

\* The types of the parts.
PartsTypeOK ==
  /\ LayersTypeOK /\ DesktopTypeOK /\ ServicesTypeOK /\ ReleasesTypeOK /\ UpdatesTypeOK
  /\ PageTypeOK /\ PlayerTypeOK /\ NavigationTypeOK

\* What a page has to play is played as the operator wants it, fetched while the view is on
\* the wall, and given up when it goes on failing; a search that is over leaves nothing.
PagesPlay == GivesUp /\ [](NoStrayObservers /\ AsWanted /\ UnparkedFetches)

\* What must happen in the end: media that can be reached are found, a release that is
\* broken for good is reported, and an app that is quitting is gone.
PartsProgress == FindsMedia /\ BrokenIsReported /\ QuitEnds
=============================================================================

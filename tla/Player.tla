------------------------------- MODULE Player -------------------------------
(***************************************************************************)
(* The page that plays an HLS playlist (renderer/playHLS.ts): the player   *)
(* it picks, the fatal errors hls.js reports and how often it tries again, *)
(* and the segments it fetches or, for a parked view, does not.            *)
(*                                                                         *)
(* hls.js is external.  It reports a fatal error of any kind at any time   *)
(* until it is destroyed, and stops fetching at one of the network.        *)
(***************************************************************************)
EXTENDS Naturals

CONSTANT MaxFatalErrorRetries

ASSUME RetriesAssumption == MaxFatalErrorRetries \in Nat

VARIABLES
  srcAllowed,       \* ALLOWED_SRC_PATTERN takes the src of the query
  support,          \* what plays the list: "hls.js", "native" or "none"
  player,           \* "none", "hls.js", "native" or "destroyed"
  fetching,         \* hls.js loads segments
  fatalErrorRetries,
  video,            \* the element: "none", "made", "shown" in the body, or "emptied"
  parkedPage,       \* the last of MEDIA_PAUSE_EVENT and MEDIA_RESUME_EVENT
  hiding,           \* pagehide
  reported          \* the reason given to reportError

playerVars == <<srcAllowed, support, player, fetching, fatalErrorRetries, video, parkedPage, hiding, reported>>

\* loadHLS: a src that no player takes, and a browser that has none, are reported at once.
LoadHLS ==
  /\ player = "none" /\ reported = "none" /\ ~hiding
  /\ IF srcAllowed /\ support # "none"
     THEN player' = support /\ video' = "made" /\ fetching' = (support = "hls.js") /\ UNCHANGED reported
     ELSE reported' = (IF srcAllowed THEN "hls-unsupported" ELSE "src-rejected")
          /\ UNCHANGED <<player, video, fetching>>
  /\ UNCHANGED <<srcAllowed, support, fatalErrorRetries, parkedPage, hiding>>

\* MANIFEST_PARSED, or loadedmetadata of the native player.
Parsed ==
  /\ player \in {"hls.js", "native"} /\ video = "made" /\ video' = "shown"
  /\ UNCHANGED <<srcAllowed, support, player, fetching, fatalErrorRetries, parkedPage, hiding, reported>>

\* Mutant: the events of the preload find a player that is gone, or none.
BugTeardown == player' = "none" /\ fetching' = FALSE /\ video' = "emptied"

\* Detaching the media empties the element, which the preload hears of if it is shown.
Teardown == player' = "destroyed" /\ fetching' = FALSE /\ video' = "emptied"

\* Mutant: a restart that works gives the tries back.
BugSpend == UNCHANGED fatalErrorRetries

Spend == fatalErrorRetries' = fatalErrorRetries + 1

\* startLoad or recoverMediaError while there are tries, whether the view is parked or not.
FatalError(type) ==
  /\ player = "hls.js"
  /\ IF fatalErrorRetries < MaxFatalErrorRetries THEN Spend ELSE UNCHANGED fatalErrorRetries
  /\ IF fatalErrorRetries < MaxFatalErrorRetries /\ type # "other"
     THEN fetching' = (fetching \/ type = "network") /\ UNCHANGED <<player, video>>
     ELSE Teardown
  /\ UNCHANGED <<srcAllowed, support, parkedPage, hiding, reported>>

\* onPark and onUnpark, which go with the listeners at the teardown.
Park(paused) ==
  /\ ~hiding
  /\ parkedPage' = paused
  /\ fetching' = IF player = "hls.js" THEN ~paused ELSE fetching
  /\ UNCHANGED <<srcAllowed, support, player, fatalErrorRetries, video, hiding, reported>>

PageHide ==
  /\ ~hiding /\ hiding' = TRUE
  /\ IF player = "hls.js" THEN Teardown ELSE UNCHANGED <<player, fetching, video>>
  /\ UNCHANGED <<srcAllowed, support, fatalErrorRetries, parkedPage, reported>>

AnyFatalError == \E type \in {"network", "media", "other"} : FatalError(type)

PlayerInit ==
  /\ srcAllowed \in BOOLEAN /\ support \in {"hls.js", "native", "none"}
  /\ player = "none" /\ fetching = FALSE /\ fatalErrorRetries = 0 /\ video = "none"
  /\ parkedPage = FALSE /\ hiding = FALSE /\ reported = "none"

PlayerNext ==
  \/ LoadHLS \/ Parsed \/ AnyFatalError \/ PageHide
  \/ \E paused \in BOOLEAN : Park(paused)

-----------------------------------------------------------------------------
\* Types of the state.
PlayerTypeOK ==
  /\ {srcAllowed, fetching, parkedPage, hiding} \subseteq BOOLEAN /\ support \in {"hls.js", "native", "none"}
  /\ player \in {"none", "hls.js", "native", "destroyed"} /\ fatalErrorRetries \in 0 .. MaxFatalErrorRetries
  /\ video \in {"none", "made", "shown", "emptied"}
  /\ reported \in {"none", "src-rejected", "hls-unsupported"}

\* No stream fails for ever: a fatal error takes a try or the player, nothing gives a try
\* back, and no event of the page revives a player that is gone.
GivesUp ==
  /\ [][/\ fatalErrorRetries' >= fatalErrorRetries
        /\ AnyFatalError => fatalErrorRetries' > fatalErrorRetries \/ player' = "destroyed"]_playerVars
  /\ [](player = "destroyed" => ~fetching /\ video = "emptied")

\* Whatever errors came between, a player that lives and whose view is not parked fetches.
UnparkedFetches == player = "hls.js" /\ ~parkedPage => fetching
=============================================================================

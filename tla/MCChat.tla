------------------------------- MODULE MCChat -------------------------------
(***************************************************************************)
(* The announcements of the Twitch bot where the chat is prompt: it has    *)
(* taken or refused every message before the operators turn to another     *)
(* stream.                                                                 *)
(***************************************************************************)
EXTENDS Services

Confirmed == \A l \in Link : saying[l] = 0

PromptNext ==
  /\ ChatNext
  /\ heard' # heard => Confirmed
  /\ UNCHANGED <<delayVars, voteVars>>

PromptSpec == ServicesInit /\ [][PromptNext]_serviceVars

\* cliArgs.ts:334-336: there is a minimum time between two announcements of the same
\* stream; while one is with the chat, or its interval runs, no other is made.
AnnouncedByInterval == \A l \in Link : Chains(l) <= 1
=============================================================================

----------------------------- MODULE AtomicFile -----------------------------
(***************************************************************************)
(* What a file that is saved whole promises, apart from how: it holds one  *)
(* of the values it was asked to hold, requests land or fail one by one in *)
(* the order in which they were made, and a crash loses some tail of them. *)
(***************************************************************************)
EXTENDS Naturals, Sequences

CONSTANTS
  Content,
  Requester

VARIABLES
  stored,           \* what a reader of the file finds
  pending           \* the requests that have neither landed nor failed

fileVars == <<stored, pending>>

Request == [data : Content, for : Requester]

FileInit == pending = <<>>

\* What is left of the requests, and behind it those that come in with this step.
Remains(rest) ==
  /\ pending' \in Seq(Request)
  /\ Len(rest) <= Len(pending')
  /\ SubSeq(pending', 1, Len(rest)) = rest

Ask == Remains(pending) /\ UNCHANGED stored

Land ==
  /\ pending # <<>>
  /\ stored' = Head(pending).data
  /\ Remains(Tail(pending))

Refuse ==
  /\ pending # <<>>
  /\ Remains(Tail(pending))
  /\ UNCHANGED stored

Crash == pending' = <<>> /\ UNCHANGED stored

\* Somebody edits the file while no process has it.
Edit == pending = <<>> /\ pending' = <<>>

FileNext == Ask \/ Land \/ Refuse \/ Crash \/ Edit

FileSpec == FileInit /\ [][FileNext]_fileVars
=============================================================================

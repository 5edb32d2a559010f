------------------------------ MODULE Storage ------------------------------
(***************************************************************************)
(* The file of the control server (storage.ts): OwnerOnlyJSONFile, behind  *)
(* lowdb's update and write.                                               *)
(*                                                                         *)
(* A write takes what is in memory when it is asked for and queues behind  *)
(* the earlier ones.  Each is a temporary file that is removed, created,   *)
(* filled and renamed, with a crash or a failure possible between any two. *)
(* A token stands for its id and its secret.                               *)
(***************************************************************************)
EXTENDS Naturals, Sequences

CONSTANTS
  Uplink, Invite, Session,      \* the ids that may be drawn, of each kind
  NoToken,
  NoFile,
  Torn              \* what was created and not filled

Token == Uplink \union Invite \union Session

\* StoredData: plain is whether the secret of the uplink is there too, as a
\* server of an older version left it.
Content == [record : Uplink \union {NoToken}, plain : BOOLEAN, tokens : SUBSET Token]

\* Who waits for a write.
Requester == {"nobody", "boot", "flush"}

ASSUME ContentAssumption == NoFile \notin Content /\ Torn \notin Content

\* The ids of different kinds are different.
ASSUME KindsAssumption ==
  /\ Uplink \intersect (Invite \union Session) = {}
  /\ NoToken \notin Token

VARIABLES
  chain,            \* #writeChain: the first is being written
  stage,            \* how far the first has come
  temp,
  tempMode,
  file,
  fileMode

diskVars == <<temp, tempMode, file, fileMode>>
storageVars == <<chain, stage, diskVars>>

Mode == {"owner", "loose"}

Job(d, who) == [data |-> d, for |-> who]

\* #writeNow begins with the first, and with the next when it has ended.
StageOf(c) == IF c = <<>> THEN "idle" ELSE "unlink"

\* Mutant: a write goes ahead of those that wait.
BugQueue(jobs) ==
  /\ chain' = jobs \o chain
  /\ stage' = IF chain = <<>> THEN StageOf(jobs) ELSE stage
  /\ UNCHANGED diskVars

\* db.write: the jobs of one step, in order.
Queue(jobs) ==
  /\ chain' = chain \o jobs
  /\ stage' = IF chain = <<>> THEN StageOf(jobs) ELSE stage
  /\ UNCHANGED diskVars

Unlink ==
  /\ stage = "unlink"
  /\ stage' = "create"
  /\ temp' = NoFile
  /\ UNCHANGED <<chain, tempMode, file, fileMode>>

\* The mode is that of a file which is created now.
Create ==
  /\ stage = "create"
  /\ stage' = "fill"
  /\ temp' = Torn
  /\ tempMode' = IF temp = NoFile THEN "owner" ELSE tempMode
  /\ UNCHANGED <<chain, file, fileMode>>

Fill ==
  /\ stage = "fill"
  /\ stage' = "rename"
  /\ temp' = Head(chain).data
  /\ UNCHANGED <<chain, tempMode, file, fileMode>>

\* Mutant: the newest of the writes in the queue is taken for all of them.
BugRenamed ==
  /\ stage = "rename"
  /\ file' = chain[Len(chain)].data
  /\ fileMode' = tempMode
  /\ temp' = NoFile
  /\ UNCHANGED tempMode

Renamed ==
  /\ stage = "rename"
  /\ file' = temp
  /\ fileMode' = tempMode
  /\ temp' = NoFile
  /\ UNCHANGED tempMode

\* The first job has ended, and whoever waited for it asks for the jobs more.
Ended(more) ==
  /\ chain' = Tail(chain) \o more
  /\ stage' = StageOf(Tail(chain) \o more)

Lands(more) == Renamed /\ Ended(more)

\* Mutant: a write that failed is tried once more behind the others.
BugFails(more) ==
  /\ stage # "idle"
  /\ Ended(<<Job(Head(chain).data, "nobody")>> \o more)
  /\ UNCHANGED diskVars

\* The unlink, the write or the rename fails.
Fails(more) ==
  /\ stage # "idle"
  /\ Ended(more)
  /\ UNCHANGED diskVars

\* The process is gone, and with it the queue.
Lost ==
  /\ chain' = <<>>
  /\ stage' = "idle"
  /\ UNCHANGED diskVars

\* loadStorage tightens what it finds, where the file system lets it.
Tightened ==
  /\ file # NoFile
  /\ fileMode' \in {fileMode, "owner"}
  /\ UNCHANGED <<temp, tempMode, file>>

Quiet == UNCHANGED storageVars

-----------------------------------------------------------------------------
StorageTypeOK ==
  /\ chain \in Seq([data : Content, for : Requester])
  /\ stage \in {"idle", "unlink", "create", "fill", "rename"}
  /\ temp \in Content \union {NoFile, Torn}
  /\ file \in Content \union {NoFile}
  /\ tempMode \in Mode
  /\ fileMode \in Mode

\* What is about to replace the file is the whole of the first write.
StorageInv ==
  /\ StorageTypeOK
  /\ stage = "idle" <=> chain = <<>>
  /\ stage = "rename" => temp = Head(chain).data

\* storage.ts:169-171: whatever the writes, the failures and the crashes, no
\* file that only its owner may read gives way to one that others may.
StaysOwnerOnly == [][fileMode = "owner" => fileMode' = "owner"]_fileMode
=============================================================================

-------------------------- MODULE ServerLifeProofs --------------------------
(***************************************************************************)
(* The file of the server is atomic, a record in it always has its token,  *)
(* what was revoked stays revoked, and a shutdown has one deadline and     *)
(* tells the truth, for any number of tokens, processes and writes, and    *)
(* any length of the deadline.  The limits of the routes hold for any      *)
(* budgets, credentials and clocks.                                        *)
(***************************************************************************)
EXTENDS MCServerLife, SequenceTheorems, TLAPS

-----------------------------------------------------------------------------
(* Contents.                                                               *)

\* The contents that are ever saved: a record has its token, and no other uplink
\* token goes with it.
GoodContent == {d \in Content : d.record # NoToken => d.tokens \intersect Uplink = {d.record}}

NoUplink(d) == d.record = NoToken /\ d.tokens \intersect Uplink = {}

Request == [data : GoodContent, for : Requester]

\* What the boot and the commands make of a good content is one.
LEMMA Contents ==
  /\ Default \in GoodContent
  /\ \A d \in GoodContent, S \in SUBSET (Invite \union Session) :
       Without(d, S) \in GoodContent /\ Without(d, S).record = d.record
  /\ \A d \in GoodContent, t \in Invite \union Session :
       With(d, t) \in GoodContent /\ With(d, t).record = d.record
  /\ \A d \in GoodContent, u \in Uplink :
       NoUplink(d) => /\ With(d, u) \in GoodContent
                      /\ Recorded(With(d, u), u) \in GoodContent
                      /\ Recorded(With(d, u), u).record # NoToken
  /\ \A d \in GoodContent : Scrubbed(d) \in GoodContent /\ Scrubbed(d).record = d.record
  /\ \A d \in GoodContent : ~Valid(d) => Superseded(d) \in GoodContent /\ NoUplink(Superseded(d))
<1> USE KindsAssumption DEF GoodContent, Content, Token, NoUplink
<1>1. Default \in GoodContent
  BY DEF Default
<1>2. ASSUME NEW d \in GoodContent, NEW S \in SUBSET (Invite \union Session)
      PROVE  Without(d, S) \in GoodContent /\ Without(d, S).record = d.record
  BY DEF Without
<1>3. ASSUME NEW d \in GoodContent, NEW t \in Invite \union Session
      PROVE  With(d, t) \in GoodContent /\ With(d, t).record = d.record
  BY DEF With
<1>4. ASSUME NEW d \in GoodContent, NEW u \in Uplink, NoUplink(d)
      PROVE  /\ With(d, u) \in GoodContent
             /\ Recorded(With(d, u), u) \in GoodContent
             /\ Recorded(With(d, u), u).record # NoToken
  BY <1>4 DEF With, Recorded
<1>5. ASSUME NEW d \in GoodContent
      PROVE  Scrubbed(d) \in GoodContent /\ Scrubbed(d).record = d.record
  BY DEF Scrubbed
<1>6. ASSUME NEW d \in GoodContent, ~Valid(d)
      PROVE  Superseded(d) \in GoodContent /\ NoUplink(Superseded(d))
  BY <1>6 DEF Superseded, Without, Valid
<1> QED BY <1>1, <1>2, <1>3, <1>4, <1>5, <1>6

\* A save of a good content is a request of one.
LEMMA Jobs ==
  ASSUME NEW d \in GoodContent, NEW who \in Requester
  PROVE  Job(d, who) \in Request
BY DEF Job, Request

-----------------------------------------------------------------------------
(* What a step does to the file: one of these, whatever else it does.      *)

\* The steps of ServerLife as steps of Storage, and the content in memory.
FileStep ==
  \/ \E jobs \in Seq(Request) : Queue(jobs) /\ Running
  \/ \E more \in Seq(Request) : Lands(more) \/ Fails(more)
  \/ Unlink \/ Create \/ Fill
  \/ Lost
  \/ Tightened /\ UNCHANGED <<chain, stage>>
  \/ OperatorClears
  \/ UNCHANGED storageVars

\* Whether there is a record tells how far the boot is.
BootInv ==
  /\ boot = "mint" => NoUplink(mem)
  /\ boot \notin {"none", "mint"} => mem.record # NoToken

\* StorageInv of good contents only.
DiskCore ==
  /\ chain \in Seq(Request)
  /\ stage \in {"idle", "unlink", "create", "fill", "rename"}
  /\ temp \in GoodContent \union {NoFile, Torn}
  /\ file \in GoodContent \union {NoFile}
  /\ tempMode \in Mode /\ fileMode \in Mode
  /\ stage = "idle" <=> chain = <<>>
  /\ stage = "rename" => temp = Head(chain).data

\* The queue lives in a process.
DiskInv ==
  /\ DiskCore
  /\ mem \in GoodContent /\ BootInv
  /\ ~Running => chain = <<>>

\* Requests of good contents are requests of contents.
LEMMA GoodRequests ==
  ASSUME NEW s \in Seq(Request)
  PROVE  s \in Seq([data : Content, for : Requester])
<1>1. \A r \in Request : r \in [data : Content, for : Requester]
  BY DEF Request, GoodContent
<1> QED BY <1>1, SeqMonotonic

\* What is known of the disk here is more than Storage needs to know.
LEMMA CoreIsStorageInv == DiskCore => StorageInv
BY GoodRequests DEF DiskCore, StorageInv, StorageTypeOK, GoodContent

\* The disk may begin with any good content, or none.
LEMMA InitDisk == Init => DiskInv
<1> SUFFICES ASSUME Init PROVE DiskInv
  OBVIOUS
<1>1. file \in GoodContent \union {NoFile}
  <2>1. \A u \in Uplink : [record |-> u, plain |-> TRUE, tokens |-> {u}] \in GoodContent
    BY DEF GoodContent, Content, Token
  <2> QED BY <2>1 DEF Init
<1>2. mem \in GoodContent
  BY Contents DEF Init
<1>3. chain \in Seq(Request)
  BY DEF Init
<1> QED BY <1>1, <1>2, <1>3 DEF Init, DiskInv, DiskCore, BootInv, Mode

\* initialInviteCodes up to its first await.
LEMMA BootSteps ==
  ASSUME NEW d \in GoodContent, BeginBoot(d)
  PROVE  mem' \in GoodContent /\ BootInv' /\ \E jobs \in Seq(Request) : Queue(jobs)
<1>1. CASE ~Valid(d)
  <2>1. mem' \in GoodContent /\ NoUplink(mem') /\ boot' = "mint"
    BY <1>1, Contents DEF BeginBoot
  <2>2. Saved(d, mem') \in Seq(Request)
    BY <2>1, Jobs DEF Saved, Requester
  <2> QED BY <1>1, <2>1, <2>2 DEF BeginBoot, BootInv, NoUplink
<1>2. CASE Valid(d) /\ d.plain
  <2>1. mem' \in GoodContent /\ mem'.record # NoToken /\ boot' = "scrub"
    BY <1>2, Contents DEF BeginBoot, Valid
  <2>2. <<Job(mem', "boot")>> \in Seq(Request)
    BY <2>1, Jobs DEF Requester
  <2> QED BY <1>2, <2>1, <2>2 DEF BeginBoot, BootInv
<1>3. CASE Valid(d) /\ ~d.plain
  <2>1. mem' \in GoodContent /\ mem'.record # NoToken /\ boot' = "invite"
    BY <1>3, Contents DEF BeginBoot, ToInvite, Valid
  <2>2. Saved(d, mem') \in Seq(Request)
    BY <2>1, Jobs DEF Saved, Requester
  <2> QED BY <1>3, <2>1, <2>2 DEF BeginBoot, BootInv
<1> QED BY <1>1, <1>2, <1>3

\* Every step of the server is one of FileStep.
LEMMA StepOfFile ==
  ASSUME DiskInv, [Next]_vars
  PROVE  /\ FileStep
         /\ mem' \in GoodContent /\ BootInv'
         /\ Running' \/ Lost \/ UNCHANGED <<proc, chain>>
<1> USE DEF DiskInv
<1> DEFINE Goal == /\ FileStep
                   /\ mem' \in GoodContent /\ BootInv'
                   /\ Running' \/ Lost \/ UNCHANGED <<proc, chain>>
<1>0. \A d \in GoodContent, who \in Requester : <<Job(d, who)>> \in Seq(Request)
  BY Jobs
<1>e. <<>> \in Seq(Request)
  OBVIOUS
<1>p. \A d, e \in GoodContent, a, b \in Requester : <<Job(d, a), Job(e, b)>> \in Seq(Request)
  BY Jobs
<1>w. "nobody" \in Requester /\ "boot" \in Requester /\ "flush" \in Requester
  BY DEF Requester
<1>s. UNCHANGED <<mem, boot>> => mem' \in GoodContent /\ BootInv'
  BY DEF BootInv, NoUplink
<1>n. ASSUME mem' \in GoodContent, mem'.record = mem.record, mem.record # NoToken, boot' \notin {"none", "mint"}
      PROVE  mem' \in GoodContent /\ BootInv'
  BY <1>n DEF BootInv
<1>a. ASSUME AskFlush PROVE \E jobs \in Seq(Request) : Queue(jobs)
  BY <1>0, <1>a, <1>w DEF AskFlush
<1>t. ASSUME NEW d \in GoodContent, TokensBecome(d), d.record = mem.record PROVE Goal
  <2>1. <<Job(d, "nobody")>> \in Seq(Request)
    BY <1>0, <1>w
  <2> QED BY <1>t, <2>1 DEF TokensBecome, Serving, FileStep, Running, BootInv
<1>x. \A how, c : Ends(how, c) => Lost /\ mem' \in GoodContent /\ BootInv'
  BY <1>s DEF Ends
<1>1. ASSUME Start PROVE Goal
  BY <1>1, Contents DEF Start, FileStep, Running, BootInv
<1>2. ASSUME Crash \/ InitFails \/ SecondSignalInInit \/ CloseFails \/ Exit \/ Expire PROVE Goal
  BY <1>2, <1>x DEF Crash, InitFails, SecondSignalInInit, CloseFails, Exit, Expire, FileStep
<1>3. ASSUME OperatorClears PROVE Goal
  BY <1>3, <1>s DEF OperatorClears, FileStep, processVars
<1>4. ASSUME InitDone PROVE Goal
  <2>1. (IF file = NoFile THEN Default ELSE file) \in GoodContent
    BY Contents DEF DiskCore
  <2>2. mem' \in GoodContent /\ BootInv' /\ \E jobs \in Seq(Request) : Queue(jobs)
    BY <1>4, <2>1, BootSteps DEF InitDone
  <2> QED BY <1>4, <2>2 DEF InitDone, FileStep, Running
<1>5. ASSUME Tighten PROVE Goal
  BY <1>5, <1>s DEF Tighten, FileStep, Running, processVars
<1>6. ASSUME SignalInInit \/ Tick \/ FirstCheck \/ CloseHook PROVE Goal
  BY <1>6, <1>s DEF SignalInInit, Tick, FirstCheck, CloseHook, FileStep, Running
<1>7. ASSUME NEW u \in Uplink, FinishMint(u) PROVE Goal
  <2>1. /\ With(mem, u) \in GoodContent /\ Recorded(With(mem, u), u) \in GoodContent
        /\ Recorded(With(mem, u), u).record # NoToken
    BY <1>7, Contents DEF FinishMint, BootInv
  <2>2. MintJobs(mem, u) \in Seq(Request)
    BY <1>p, <1>w, <2>1 DEF MintJobs
  <2> QED BY <1>7, <2>1, <2>2 DEF FinishMint, FileStep, Running, BootInv
<1>8. ASSUME NEW i \in Invite, FinishInvite(i) PROVE Goal
  <2>1. With(mem, i) \in GoodContent /\ With(mem, i).record = mem.record
    BY Contents
  <2>2. <<Job(With(mem, i), "nobody")>> \in Seq(Request)
    BY <1>0, <1>w, <2>1
  <2> QED BY <1>8, <2>1, <2>2 DEF FinishInvite, FileStep, Running, BootInv
<1>9. ASSUME ListenDone PROVE Goal
  <2>1. (\E jobs \in Seq(Request) : Queue(jobs)) \/ Quiet
    BY <1>9, <1>a DEF ListenDone
  <2> QED BY <1>9, <2>1 DEF ListenDone, FileStep, Running, Quiet, BootInv
<1>10. ASSUME ListenFails PROVE Goal
  BY <1>10, <1>a, <1>x DEF ListenFails, FileStep, Running, BootInv
<1>11. ASSUME NEW t \in Token, Revoke(t) PROVE Goal
  <2>1. Without(mem, {t}) \in GoodContent /\ Without(mem, {t}).record = mem.record
    BY <1>11, Contents DEF Revoke, GoodContent, Content, Token
  <2> QED BY <1>11, <1>t, <2>1 DEF Revoke
<1>12. ASSUME NEW i \in Invite, NEW s \in Session, Redeem(i, s) PROVE Goal
  <2>1. /\ With(mem, s) \in GoodContent /\ Without(With(mem, s), {i}) \in GoodContent
        /\ Without(With(mem, s), {i}).record = mem.record
    BY Contents
  <2>2. <<Job(With(mem, s), "nobody"), Job(Without(With(mem, s), {i}), "nobody")>> \in Seq(Request)
    BY <1>p, <1>w, <2>1
  <2> QED BY <1>12, <2>1, <2>2 DEF Redeem, Serving, FileStep, Running, BootInv
<1>13. ASSUME Signal PROVE Goal
  <2>1. (\E jobs \in Seq(Request) : Queue(jobs)) \/ Quiet
    BY <1>13, <1>a DEF Signal
  <2> QED BY <1>13, <1>s, <2>1 DEF Signal, FileStep, Running, Quiet
<1>r. chain # <<>> => Running
  OBVIOUS
<1>14. ASSUME Writing PROVE Goal
  <2>1. Running
    BY <1>14, <1>r DEF Writing, Unlink, Create, Fill, DiskCore
  <2> QED BY <1>14, <1>s, <2>1 DEF Writing, FileStep, Running, processVars
<1>15. ASSUME NobodyWaited \/ FlushWritten PROVE Goal
  <2>1. Running
    BY <1>15, <1>r DEF NobodyWaited, FlushWritten, WaitedForBy
  <2> QED BY <1>15, <1>e, <1>s, <2>1 DEF NobodyWaited, FlushWritten, FileStep, Running, processVars
<1>16. ASSUME BootWritten PROVE Goal
  <2>1. Running
    BY <1>16, <1>r DEF BootWritten, WaitedForBy
  <2>2. mem' \in GoodContent /\ mem'.record = mem.record
    BY <1>16, Contents DEF BootWritten, ToInvite
  <2>3. Saved(mem, mem') \in Seq(Request)
    BY <1>0, <1>e, <1>w, <2>2 DEF Saved
  <2>4. mem.record # NoToken
    BY <1>16 DEF BootWritten, BootInv
  <2> QED BY <1>16, <2>1, <2>2, <2>3, <2>4 DEF BootWritten, ToInvite, FileStep, Running, BootInv
<1>17. ASSUME BootNotWritten PROVE Goal
  <2>1. Running
    BY <1>17, <1>r DEF BootNotWritten, WaitedForBy
  <2>2. <<Job(mem, "flush")>> \in Seq(Request)
    BY <1>0, <1>w
  <2>3. mem.record # NoToken
    BY <1>17 DEF BootNotWritten, BootInv
  <2> QED BY <1>17, <1>x, <2>1, <2>2, <2>3 DEF BootNotWritten, FileStep, Running, BootInv
<1>18. ASSUME UNCHANGED vars PROVE Goal
  BY <1>18, <1>s DEF vars, FileStep, processVars, storageVars
<1> HIDE DEF Goal
<1>19. Goal
  BY <1>1, <1>2, <1>3, <1>4, <1>5, <1>6, <1>7, <1>8, <1>9, <1>10, <1>11, <1>12, <1>13, <1>14,
     <1>15, <1>16, <1>17, <1>18 DEF Next, Begins, Goes, Stops, WriteEnds
<1> QED BY <1>19 DEF Goal

-----------------------------------------------------------------------------
(* DiskInv is inductive: what replaces the file is always a whole content. *)

LEMMA QueueDisk ==
  ASSUME DiskCore, NEW jobs \in Seq(Request), Queue(jobs)
  PROVE  DiskCore'
<1> USE DEF DiskCore, Queue, diskVars
<1>1. chain' \in Seq(Request)
  OBVIOUS
<1>2. chain = <<>> => chain' = jobs
  OBVIOUS
<1>3. chain # <<>> => chain' # <<>> /\ Head(chain') = Head(chain)
  OBVIOUS
<1>4. stage' \in {"idle", "unlink", "create", "fill", "rename"} /\ (stage' = "idle" <=> chain' = <<>>)
  BY <1>2, <1>3 DEF StageOf
<1>5. stage' = "rename" => temp' = Head(chain').data
  BY <1>3 DEF StageOf
<1> QED BY <1>1, <1>4, <1>5

\* A write that has ended leaves the writes behind it.
LEMMA EndedDisk ==
  ASSUME DiskCore, NEW more \in Seq(Request), stage # "idle", Ended(more)
  PROVE  /\ chain' \in Seq(Request)
         /\ stage' \in {"idle", "unlink"}
         /\ stage' = "idle" <=> chain' = <<>>
<1>1. chain # <<>> /\ chain \in Seq(Request)
  BY DEF DiskCore
<1>2. Tail(chain) \in Seq(Request)
  BY <1>1
<1>3. chain' \in Seq(Request)
  BY <1>2 DEF Ended
<1> QED BY <1>3 DEF Ended, StageOf

\* What is being written is good.
LEMMA FirstOfChain ==
  ASSUME DiskCore, chain # <<>>
  PROVE  Head(chain).data \in GoodContent
<1>1. Head(chain) \in Request
  BY DEF DiskCore
<1> QED BY <1>1 DEF Request

\* Every step keeps the disk good.
LEMMA DiskStep == DiskInv /\ [Next]_vars => DiskInv'
<1> SUFFICES ASSUME DiskInv, [Next]_vars PROVE DiskInv'
  OBVIOUS
<1>1. /\ FileStep
      /\ mem' \in GoodContent /\ BootInv'
      /\ Running' \/ Lost \/ UNCHANGED <<proc, chain>>
  BY StepOfFile
<1>2. SUFFICES DiskCore'
  BY <1>1 DEF DiskInv, Lost, Running
<1>0. DiskCore
  BY DEF DiskInv
<1>3. ASSUME NEW jobs \in Seq(Request), Queue(jobs) PROVE DiskCore'
  BY <1>0, <1>3, QueueDisk
<1>4. ASSUME NEW more \in Seq(Request), Lands(more) PROVE DiskCore'
  <2>1. stage = "rename" /\ chain # <<>> /\ file' = Head(chain).data
    BY <1>0, <1>4 DEF Lands, Renamed, DiskCore
  <2>2. file' \in GoodContent
    BY <1>0, <2>1, FirstOfChain
  <2>3. chain' \in Seq(Request) /\ stage' \in {"idle", "unlink"} /\ (stage' = "idle" <=> chain' = <<>>)
    BY <1>0, <1>4, <2>1, EndedDisk DEF Lands
  <2> QED BY <1>0, <1>4, <2>2, <2>3 DEF Lands, Renamed, DiskCore
<1>5. ASSUME NEW more \in Seq(Request), Fails(more) PROVE DiskCore'
  <2>1. chain' \in Seq(Request) /\ stage' \in {"idle", "unlink"} /\ (stage' = "idle" <=> chain' = <<>>)
    BY <1>0, <1>5, EndedDisk DEF Fails
  <2> QED BY <1>0, <1>5, <2>1 DEF Fails, diskVars, DiskCore
<1>6. ASSUME Unlink \/ Create PROVE DiskCore'
  BY <1>0, <1>6 DEF Unlink, Create, diskVars, DiskCore, Mode
<1>7. ASSUME Fill PROVE DiskCore'
  <2>1. Head(chain).data \in GoodContent
    BY <1>0, <1>7, FirstOfChain DEF Fill, DiskCore
  <2> QED BY <1>0, <1>7, <2>1 DEF Fill, DiskCore
<1>8. ASSUME Lost PROVE DiskCore'
  BY <1>0, <1>8 DEF Lost, diskVars, DiskCore
<1>9. ASSUME Tightened, UNCHANGED <<chain, stage>> PROVE DiskCore'
  BY <1>0, <1>9 DEF Tightened, DiskCore, Mode
<1>10. ASSUME OperatorClears PROVE DiskCore'
  <2>1. \A d \in GoodContent : [d EXCEPT !.record = NoToken, !.plain = FALSE] \in GoodContent
    BY DEF GoodContent, Content
  <2>2. file' \in GoodContent
    BY <1>0, <1>10, <2>1 DEF OperatorClears, DiskCore
  <2> QED BY <1>0, <1>10, <2>2 DEF OperatorClears, DiskCore
<1>11. ASSUME UNCHANGED storageVars PROVE DiskCore'
  BY <1>0, <1>11 DEF storageVars, diskVars, DiskCore
<1> QED BY <1>1, <1>3, <1>4, <1>5, <1>6, <1>7, <1>8, <1>9, <1>10, <1>11 DEF FileStep

\* The invariant behind the theorems about the file.
LEMMA DiskInvariant == Spec => []DiskInv
BY InitDisk, DiskStep, PTL DEF Spec

\* A record that is saved has its token with it, through every rotation, failed
\* write and crash (bootstrap.ts:40-74).
THEOREM RecordStaysGood == Spec => []RecordIsGood
<1>1. DiskInv => RecordIsGood
  BY DEF DiskInv, DiskCore, GoodContent, RecordIsGood
<1> QED BY <1>1, DiskInvariant, PTL

\* Once there is a record, the desktop comes in with its token and with no other
\* (bootstrap.ts:56-62).
THEOREM UplinkStaysUsable == Spec => []UplinkUsable
<1>1. DiskInv => UplinkUsable
  BY DEF DiskInv, BootInv, GoodContent, UplinkUsable
<1> QED BY <1>1, DiskInvariant, PTL

\* Both: whenever a process dies, the desktop's token is the one that was recorded.
THEOREM UplinkStaysGood == Spec => []UplinkHolds
BY RecordStaysGood, UplinkStaysUsable, PTL DEF UplinkHolds

-----------------------------------------------------------------------------
(* Every step of the server is one of the abstract file, or none.          *)

\* What is behind a queue stays behind it.
LEMMA Behind ==
  ASSUME NEW s \in Seq(Request), NEW t \in Seq(Request)
  PROVE  /\ s \o t \in Seq(Request)
         /\ Len(s) <= Len(s \o t)
         /\ SubSeq(s \o t, 1, Len(s)) = s
<1>1. CASE s = <<>>
  BY <1>1, SubSeqEmpty
<1>2. CASE s # <<>>
  <2>1. SubSeq(s \o t, 1, Len(s)) = SubSeq(s, 1, Len(s))
    BY <1>2, SubSeqOfConcat1
  <2>2. SubSeq(s, 1, Len(s)) = s
    BY SubSeqFull
  <2> QED BY <2>1, <2>2
<1> QED BY <1>1, <1>2

\* Every step is one of the atomic file, or none of its business.
LEMMA FileRefines == DiskInv /\ [Next]_vars => [File!FileNext]_<<file, chain>>
<1> SUFFICES ASSUME DiskInv, [Next]_vars PROVE [File!FileNext]_<<file, chain>>
  OBVIOUS
<1>1. FileStep
  BY StepOfFile
<1>0. DiskCore /\ chain \in Seq(Request)
  BY DEF DiskInv, DiskCore
<1>2. \A s \in Seq(Request) : s \in Seq(File!Request)
  BY GoodRequests DEF File!Request
<1>t. chain # <<>> => Tail(chain) \in Seq(Request)
  BY <1>0
<1>3. ASSUME NEW jobs \in Seq(Request), Queue(jobs) PROVE File!Ask
  BY <1>0, <1>2, <1>3, Behind DEF Queue, diskVars, File!Ask, File!Remains
<1>4. ASSUME NEW more \in Seq(Request), Lands(more) PROVE File!Land
  <2>1. chain # <<>> /\ file' = Head(chain).data
    BY <1>0, <1>4 DEF Lands, Renamed, DiskCore
  <2> QED BY <1>2, <1>4, <1>t, <2>1, Behind DEF Lands, Ended, File!Land, File!Remains
<1>5. ASSUME NEW more \in Seq(Request), Fails(more) PROVE File!Refuse
  <2>1. chain # <<>>
    BY <1>0, <1>5 DEF Fails, DiskCore
  <2> QED BY <1>2, <1>5, <1>t, <2>1, Behind DEF Fails, Ended, diskVars, File!Refuse, File!Remains
<1>6. ASSUME Lost PROVE File!Crash
  BY <1>6 DEF Lost, diskVars, File!Crash
<1>7. ASSUME OperatorClears PROVE File!Edit
  BY <1>7 DEF OperatorClears, DiskInv, File!Edit
<1>8. ASSUME Unlink \/ Create \/ Fill \/ (Tightened /\ UNCHANGED <<chain, stage>>) \/ UNCHANGED storageVars
      PROVE  UNCHANGED <<file, chain>>
  BY <1>8 DEF Unlink, Create, Fill, Tightened, storageVars, diskVars
<1> QED BY <1>1, <1>3, <1>4, <1>5, <1>6, <1>7, <1>8 DEF FileStep, File!FileNext

\* The file of the server is the atomic file, whatever the processes do and
\* wherever they end (storage.ts:118-176).
THEOREM FileStaysAtomic == Spec => FileIsAtomic
<1>1. Init => File!FileInit
  BY DEF Init, File!FileInit
<1>2. DiskInv /\ [Next]_vars => [File!FileNext]_File!fileVars
  BY FileRefines DEF File!fileVars
<1> QED BY <1>1, <1>2, DiskInvariant, PTL DEF Spec, FileIsAtomic, File!FileSpec

-----------------------------------------------------------------------------
(* What was revoked stays revoked.                                         *)

\* The file, the writes that wait for it and the memory follow each other: the tokens of
\* the k-th of them.
Had(f, c, m, k) == IF k = 0 THEN f ELSE IF k \in DOMAIN c THEN c[k].data.tokens ELSE m

\* A token in two of them is in those between, none is gone, and all have been drawn.
Tidy(f, c, m, drawn, lost) ==
  /\ \A k \in 0 .. (Len(c) + 1) : Had(f, c, m, k) \subseteq drawn /\ Had(f, c, m, k) \intersect lost = {}
  /\ \A i, j, k \in 0 .. (Len(c) + 1) :
       i <= k /\ k <= j => Had(f, c, m, i) \intersect Had(f, c, m, j) \subseteq Had(f, c, m, k)

\* Writes asked for after m and the memory n after them: tokens go one by one, and those
\* that come are new.
Later(m, jobs, n, new) ==
  /\ n \subseteq m \union new
  /\ \A p \in DOMAIN jobs :
       /\ jobs[p].data.tokens \subseteq m \union new /\ n \subseteq jobs[p].data.tokens
       /\ \A q \in DOMAIN jobs : p <= q => jobs[q].data.tokens \subseteq jobs[p].data.tokens

\* It stays tidy when writes are asked for.
LEMMA QueuedTidy ==
  ASSUME NEW f, NEW c \in Seq(Request), NEW m, NEW drawn, NEW lost, Tidy(f, c, m, drawn, lost),
         NEW jobs \in Seq(Request), NEW n, NEW new, new \intersect drawn = {},
         Later(m, jobs, n, new), lost \subseteq drawn
  PROVE  Tidy(f, c \o jobs, n, drawn \union new, lost)
<1> DEFINE d == c \o jobs
           now(k) == Had(f, d, n, k)
           was(k) == Had(f, c, m, k)
<1>1. /\ Len(c) \in Nat /\ Len(jobs) \in Nat /\ Len(d) = Len(c) + Len(jobs)
      /\ DOMAIN c = 1 .. Len(c) /\ DOMAIN jobs = 1 .. Len(jobs) /\ DOMAIN d = 1 .. Len(d)
      /\ \A k \in 1 .. Len(c) : d[k] = c[k]
      /\ \A p \in 1 .. Len(jobs) : d[Len(c) + p] = jobs[p]
  OBVIOUS
<1> HIDE DEF d
<1>2. \A k \in 0 .. Len(c) : now(k) = was(k) /\ k \in 0 .. (Len(c) + 1)
  BY <1>1 DEF Had
<1>3. was(Len(c) + 1) = m /\ Len(c) + 1 \in 0 .. (Len(c) + 1)
  BY <1>1 DEF Had
<1>4. \A k \in 0 .. (Len(d) + 1) :
        ~ (k <= Len(c)) => \/ \E p \in DOMAIN jobs : k = Len(c) + p /\ now(k) = jobs[p].data.tokens
                           \/ k = Len(d) + 1 /\ now(k) = n
  <2>0. now(Len(d) + 1) = n
    BY <1>1 DEF Had
  <2> SUFFICES ASSUME NEW k \in 0 .. (Len(d) + 1), ~ (k <= Len(c)), k # Len(d) + 1
               PROVE  \E p \in DOMAIN jobs : k = Len(c) + p /\ now(k) = jobs[p].data.tokens
    BY <2>0
  <2>1. k - Len(c) \in DOMAIN jobs /\ k = Len(c) + (k - Len(c)) /\ k \in DOMAIN d /\ k # 0
    BY <1>1
  <2>2. now(k) = d[k].data.tokens
    BY <2>1 DEF Had
  <2>3. d[k] = jobs[k - Len(c)]
    BY <1>1, <2>1
  <2> QED BY <2>1, <2>2, <2>3
<1> HIDE DEF now, was
<1>5. \A k \in 0 .. (Len(d) + 1) : ~ (k <= Len(c)) => now(k) \subseteq m \union new
  BY <1>4 DEF Later
<1>6. \A k, j \in 0 .. (Len(d) + 1) : ~ (k <= Len(c)) /\ k <= j => now(j) \subseteq now(k)
  <2> SUFFICES ASSUME NEW k \in 0 .. (Len(d) + 1), NEW j \in 0 .. (Len(d) + 1),
                      ~ (k <= Len(c)), k <= j
               PROVE  now(j) \subseteq now(k)
    OBVIOUS
  <2>1. ~ (j <= Len(c))
    BY <1>1
  <2>2. CASE k = Len(d) + 1
    <3>1. j = k
      BY <1>1, <2>2
    <3> QED BY <3>1
  <2>3. CASE k # Len(d) + 1
    <3>1. PICK p \in DOMAIN jobs : k = Len(c) + p /\ now(k) = jobs[p].data.tokens
      BY <1>4, <2>3
    <3>2. CASE j = Len(d) + 1 /\ now(j) = n
      BY <3>1, <3>2 DEF Later
    <3>3. CASE \E q \in DOMAIN jobs : j = Len(c) + q /\ now(j) = jobs[q].data.tokens
      <4>1. PICK q \in DOMAIN jobs : j = Len(c) + q /\ now(j) = jobs[q].data.tokens
        BY <3>3
      <4>2. p <= q
        BY <1>1, <3>1, <4>1
      <4> QED BY <3>1, <4>1, <4>2 DEF Later
    <3> QED BY <1>4, <2>1, <3>2, <3>3
  <2> QED BY <2>2, <2>3
<1>7. /\ \A k \in 0 .. (Len(c) + 1) : was(k) \subseteq drawn /\ was(k) \intersect lost = {}
      /\ \A i, j, k \in 0 .. (Len(c) + 1) :
           i <= k /\ k <= j => was(i) \intersect was(j) \subseteq was(k)
  BY DEF Tidy, was
<1>8. \A k \in 0 .. (Len(d) + 1) : now(k) \subseteq drawn \union new /\ now(k) \intersect lost = {}
  <2> SUFFICES ASSUME NEW k \in 0 .. (Len(d) + 1)
               PROVE  now(k) \subseteq drawn \union new /\ now(k) \intersect lost = {}
    OBVIOUS
  <2>1. CASE k <= Len(c)
    <3>1. k \in 0 .. Len(c)
      BY <1>1, <2>1
    <3> QED BY <1>2, <1>7, <3>1
  <2>2. CASE ~ (k <= Len(c))
    BY <1>3, <1>5, <1>7, <2>2
  <2> QED BY <2>1, <2>2
<1>9. ASSUME NEW i \in 0 .. (Len(d) + 1), NEW j \in 0 .. (Len(d) + 1), NEW k \in 0 .. (Len(d) + 1),
             i <= k, k <= j
      PROVE  now(i) \intersect now(j) \subseteq now(k)
  <2>1. CASE ~ (k <= Len(c))
    BY <1>6, <1>9, <2>1
  <2>2. CASE k <= Len(c)
    <3>1. /\ k \in 0 .. Len(c) /\ i \in 0 .. Len(c)
          /\ now(k) = was(k) /\ now(i) = was(i)
          /\ k \in 0 .. (Len(c) + 1) /\ i \in 0 .. (Len(c) + 1) /\ k <= Len(c) + 1
      BY <1>1, <1>2, <1>9, <2>2
    <3>2. CASE j <= Len(c)
      <4>1. j \in 0 .. Len(c) /\ now(j) = was(j) /\ j \in 0 .. (Len(c) + 1)
        BY <1>1, <1>2, <3>2
      <4> QED BY <1>7, <1>9, <3>1, <4>1
    <3>3. CASE ~ (j <= Len(c))
      <4>1. now(j) \subseteq m \union new /\ now(i) \subseteq drawn
        BY <1>5, <1>7, <3>1, <3>3
      <4>2. now(i) \intersect now(j) \subseteq was(i) \intersect was(Len(c) + 1)
        BY <1>3, <3>1, <4>1
      <4>3. was(i) \intersect was(Len(c) + 1) \subseteq was(k)
        BY <1>3, <1>7, <1>9, <3>1
      <4> QED BY <3>1, <4>2, <4>3
    <3> QED BY <3>2, <3>3
  <2> QED BY <2>1, <2>2
<1> QED BY <1>8, <1>9 DEF Tidy, now, d

\* It stays tidy when the first write ends, whether it landed or failed.
LEMMA EndedTidy ==
  ASSUME NEW f, NEW c \in Seq(Request), c # <<>>, NEW m, NEW drawn, NEW lost, lost \subseteq drawn,
         Tidy(f, c, m, drawn, lost)
  PROVE  /\ Tidy(f, Tail(c), m, drawn, lost)
         /\ LET head == Head(c).data.tokens
            IN  Tidy(head, Tail(c), m, drawn, lost \union (f \ head)) /\ f \ head \subseteq drawn
<1> DEFINE d == Tail(c)
           head == Head(c).data.tokens
           was(k) == Had(f, c, m, k)
           failed(k) == Had(f, d, m, k)
           landed(k) == Had(head, d, m, k)
<1>1. /\ Len(c) \in Nat \ {0} /\ Len(d) = Len(c) - 1 /\ Head(c) = c[1]
      /\ DOMAIN c = 1 .. Len(c) /\ DOMAIN d = 1 .. (Len(c) - 1)
      /\ \A k \in 1 .. (Len(c) - 1) : d[k] = c[k + 1]
  OBVIOUS
<1> HIDE DEF d
<1>2. was(0) = f /\ was(1) = head /\ failed(0) = f /\ landed(0) = head
  BY <1>1 DEF Had
<1>3. \A k \in 1 .. Len(c) : failed(k) = was(k + 1) /\ landed(k) = was(k + 1)
  <2> SUFFICES ASSUME NEW k \in 1 .. Len(c) PROVE failed(k) = was(k + 1) /\ landed(k) = was(k + 1)
    OBVIOUS
  <2>1. CASE k = Len(c)
    BY <1>1, <2>1 DEF Had
  <2>2. CASE k # Len(c)
    <3>1. k \in DOMAIN d /\ k + 1 \in DOMAIN c /\ d[k] = c[k + 1] /\ k # 0 /\ k + 1 # 0
      BY <1>1, <2>2
    <3> QED BY <3>1 DEF Had
  <2> QED BY <2>1, <2>2
<1> HIDE DEF was, failed, landed, head
<1>4. \A k \in 0 .. Len(c) : k = 0 \/ k \in 1 .. Len(c)
  BY <1>1
<1>5. \A k \in 1 .. Len(c) : k + 1 \in 0 .. (Len(c) + 1) /\ 1 <= k + 1
  BY <1>1
<1>6. 0 \in 0 .. (Len(c) + 1) /\ 1 \in 0 .. (Len(c) + 1)
  BY <1>1
<1>7. \A k \in 0 .. (Len(c) + 1) : was(k) \subseteq drawn /\ was(k) \intersect lost = {}
  BY DEF Tidy, was
<1>8. \A i, j, k \in 0 .. (Len(c) + 1) :
        i <= k /\ k <= j => was(i) \intersect was(j) \subseteq was(k)
  BY DEF Tidy, was
<1>9. \A k \in 0 .. Len(c) : failed(k) \subseteq drawn /\ failed(k) \intersect lost = {}
  BY <1>2, <1>3, <1>4, <1>5, <1>6, <1>7
<1>10. \A k \in 1 .. Len(c) : landed(k) \intersect (f \ head) = {}
  <2> SUFFICES ASSUME NEW k \in 1 .. Len(c) PROVE landed(k) \intersect (f \ head) = {}
    OBVIOUS
  <2>1. was(0) \intersect was(k + 1) \subseteq was(1)
    BY <1>5, <1>6, <1>8
  <2> QED BY <1>2, <1>3, <2>1
<1>11. \A k \in 0 .. Len(c) : landed(k) \subseteq drawn /\ landed(k) \intersect (lost \union (f \ head)) = {}
  <2> SUFFICES ASSUME NEW k \in 0 .. Len(c)
               PROVE  landed(k) \subseteq drawn /\ landed(k) \intersect (lost \union (f \ head)) = {}
    OBVIOUS
  <2>1. CASE k = 0
    BY <1>2, <1>6, <1>7, <2>1
  <2>2. CASE k \in 1 .. Len(c)
    BY <1>3, <1>5, <1>7, <1>10, <2>2
  <2> QED BY <1>4, <2>1, <2>2
<1>12. ASSUME NEW i \in 0 .. Len(c), NEW j \in 0 .. Len(c), NEW k \in 0 .. Len(c), i <= k, k <= j
       PROVE  /\ failed(i) \intersect failed(j) \subseteq failed(k)
              /\ landed(i) \intersect landed(j) \subseteq landed(k)
  <2>1. CASE k = 0
    <3>1. i = 0
      BY <1>12, <2>1
    <3> QED BY <2>1, <3>1
  <2>2. CASE k \in 1 .. Len(c)
    <3>1. j \in 1 .. Len(c)
      BY <1>12, <2>2
    <3>2. CASE i = 0
      <4>1. was(0) \intersect was(j + 1) \subseteq was(k + 1) /\ was(1) \intersect was(j + 1) \subseteq was(k + 1)
        <5>1. k + 1 <= j + 1 /\ 0 <= k + 1
          BY <1>12, <2>2, <3>1
        <5> QED BY <1>5, <1>6, <1>8, <2>2, <3>1, <5>1
      <4> QED BY <1>2, <1>3, <2>2, <3>1, <3>2, <4>1
    <3>3. CASE i \in 1 .. Len(c)
      <4>1. was(i + 1) \intersect was(j + 1) \subseteq was(k + 1)
        <5>1. i + 1 <= k + 1 /\ k + 1 <= j + 1
          BY <1>12, <2>2, <3>1
        <5> QED BY <1>5, <1>8, <2>2, <3>1, <3>3, <5>1
      <4> QED BY <1>3, <2>2, <3>1, <3>3, <4>1
    <3> QED BY <1>4, <3>2, <3>3
  <2> QED BY <1>4, <2>1, <2>2
<1>13. 0 .. (Len(d) + 1) = 0 .. Len(c)
  BY <1>1
<1>14. Tidy(f, d, m, drawn, lost)
  BY <1>9, <1>12, <1>13 DEF Tidy, failed
<1>15. Tidy(head, d, m, drawn, lost \union (f \ head))
  BY <1>11, <1>12, <1>13 DEF Tidy, landed
<1>16. f \ head \subseteq drawn
  BY <1>2, <1>6, <1>7
<1> QED BY <1>14, <1>15, <1>16 DEF d, head

\* What follows each other at this moment, of which there is nothing but the file when
\* no process serves.
TokenInv ==
  /\ gone \subseteq used
  /\ Tidy(TokensOf(file), chain, mem.tokens, used, gone)
  /\ proc # "up" => chain = <<>>

\* A few writes after m.
LEMMA FewJobs ==
  ASSUME NEW m, NEW new, NEW n, n \subseteq m \union new
  PROVE  /\ Later(m, <<>>, n, new)
         /\ \A d, who : d.tokens = n => Later(m, <<Job(d, who)>>, n, new)
         /\ \A d, e, a, b : d.tokens \subseteq m \union new /\ n \subseteq d.tokens /\ e.tokens = n =>
              Later(m, <<Job(d, a), Job(e, b)>>, n, new)
BY DEF Later, Job

\* Writes asked for while it serves, or when it begins to with what is in the file.
LEMMA QueueTokens ==
  ASSUME DiskInv, TokenInv, NEW m, m = mem.tokens \/ (chain = <<>> /\ m = TokensOf(file)),
         NEW jobs \in Seq(Request), Queue(jobs), NEW new, new \intersect used = {},
         used' = used \union new, Later(m, jobs, mem'.tokens, new), gone' = gone, proc' = "up"
  PROVE  TokenInv'
<1>1. chain \in Seq(Request) /\ gone \subseteq used
  BY DEF DiskInv, DiskCore, TokenInv
<1>2. Tidy(TokensOf(file), chain, m, used, gone)
  <2>1. CASE m = mem.tokens
    BY <2>1 DEF TokenInv
  <2>2. CASE chain = <<>> /\ m = TokensOf(file)
    <3>1. Had(m, chain, mem.tokens, 0) = m /\ \A k : Had(m, chain, m, k) = m
      BY <2>2 DEF Had
    <3>2. 0 \in 0 .. (Len(chain) + 1)
      BY <2>2
    <3> QED BY <2>2, <3>1, <3>2 DEF TokenInv, Tidy
  <2> QED BY <2>1, <2>2
<1>3. Tidy(TokensOf(file), chain \o jobs, mem'.tokens, used \union new, gone)
  BY <1>1, <1>2, QueuedTidy
<1>4. chain' = chain \o jobs /\ file' = file
  BY DEF Queue, diskVars
<1> QED BY <1>1, <1>3, <1>4 DEF TokenInv, TokensOf

\* A write that lands leaves its tokens in the file.
LEMMA LandedTokens ==
  ASSUME DiskInv, NEW more, Lands(more)
  PROVE  chain # <<>> /\ TokensOf(file)' = Head(chain).data.tokens
<1>1. chain # <<>> /\ file' = Head(chain).data
  BY DEF DiskInv, DiskCore, Lands, Renamed
<1>2. Head(chain).data \in GoodContent
  BY <1>1, FirstOfChain DEF DiskInv
<1> QED BY <1>1, <1>2, ContentAssumption DEF TokensOf, GoodContent

\* The first write ends, and others are asked for.
LEMMA EndTokens ==
  ASSUME DiskInv, TokenInv, NEW more \in Seq(Request), Lands(more) \/ Fails(more), NowGone,
         Later(mem.tokens, more, mem'.tokens, {}), used' = used, proc' = "up"
  PROVE  TokenInv'
<1>1. /\ chain \in Seq(Request) /\ chain # <<>> /\ Tail(chain) \in Seq(Request)
      /\ gone \subseteq used
      /\ Tidy(TokensOf(file), chain, mem.tokens, used, gone)
  <2>1. chain \in Seq(Request) /\ chain # <<>>
    BY DEF DiskInv, DiskCore, Lands, Renamed, Fails
  <2> QED BY <2>1 DEF TokenInv
<1>2. chain' = Tail(chain) \o more
  BY DEF Lands, Fails, Ended
<1>3. CASE Lands(more)
  <2> DEFINE head == Head(chain).data.tokens
             lost == gone \union (TokensOf(file) \ head)
  <2>2. TokensOf(file)' = head
    BY <1>3, LandedTokens
  <2>3. gone' = lost
    BY <2>2 DEF NowGone, TokensOf
  <2>4. Tidy(head, Tail(chain), mem.tokens, used, lost) /\ lost \subseteq used
    BY <1>1, EndedTidy
  <2>5. Tidy(head, Tail(chain) \o more, mem'.tokens, used \union {}, lost)
    <3> HIDE DEF lost, head
    <3> QED BY <1>1, <2>4, QueuedTidy
  <2> HIDE DEF lost, head
  <2>6. used \union {} = used
    OBVIOUS
  <2> QED BY <1>2, <2>2, <2>3, <2>4, <2>5, <2>6 DEF TokenInv
<1>4. CASE Fails(more)
  <2>1. file' = file
    BY <1>4 DEF Fails, diskVars
  <2>2. gone' = gone
    BY <2>1 DEF NowGone
  <2>3. Tidy(TokensOf(file), Tail(chain), mem.tokens, used, gone)
    BY <1>1, EndedTidy
  <2>4. Tidy(TokensOf(file), Tail(chain) \o more, mem'.tokens, used \union {}, gone)
    BY <1>1, <2>3, QueuedTidy
  <2>5. used \union {} = used
    OBVIOUS
  <2> QED BY <1>1, <1>2, <2>1, <2>2, <2>4, <2>5 DEF TokenInv, TokensOf
<1> QED BY <1>3, <1>4

\* Nothing waits.
LEMMA IdleTokens ==
  ASSUME DiskInv, TokenInv, chain' = <<>>, UNCHANGED <<gone, used>>,
         TokensOf(file)' = TokensOf(file), mem'.tokens \subseteq mem.tokens
  PROVE  TokenInv'
<1> DEFINE f == TokensOf(file)
           m == mem.tokens
           n == mem'.tokens
<1>1. Len(chain) \in Nat /\ DOMAIN chain = 1 .. Len(chain)
  BY DEF DiskInv, DiskCore
<1>2. /\ 0 \in 0 .. (Len(chain) + 1) /\ Len(chain) + 1 \in 0 .. (Len(chain) + 1)
      /\ Had(f, chain, m, 0) = f /\ Had(f, chain, m, Len(chain) + 1) = m
  BY <1>1 DEF Had
<1>3. f \subseteq used /\ f \intersect gone = {} /\ m \subseteq used /\ m \intersect gone = {}
  BY <1>2 DEF TokenInv, Tidy
<1>4. \A k \in 0 .. 1 : Had(f, <<>>, n, k) = IF k = 0 THEN f ELSE n
  BY DEF Had
<1>5. n \subseteq m
  OBVIOUS
<1> HIDE DEF f, m, n
<1>6. Tidy(f, <<>>, n, used, gone)
  <2>1. 0 .. (Len(<<>>) + 1) = 0 .. 1
    OBVIOUS
  <2>2. \A i, j, k \in 0 .. 1 : i <= k /\ k <= j => k = i \/ k = j
    OBVIOUS
  <2> QED BY <1>3, <1>4, <1>5, <2>1, <2>2 DEF Tidy
<1> QED BY <1>6 DEF TokenInv, f, n

\* At the start there is only what the file has.
LEMMA InitTokens == Init => TokenInv
<1> SUFFICES ASSUME Init PROVE TokenInv
  OBVIOUS
<1>1. \A k : Had(TokensOf(file), <<>>, {}, k) \in {TokensOf(file), {}}
  BY DEF Had
<1>2. mem.tokens = {} /\ chain = <<>> /\ used = TokensOf(file) /\ gone = {} /\ proc = "down"
  BY DEF Init, Default
<1>3. 0 .. (Len(<<>>) + 1) = 0 .. 1
  OBVIOUS
<1>4. \A i, j, k \in 0 .. 1 : i <= k /\ k <= j => k = i \/ k = j
  OBVIOUS
<1>5. Tidy(TokensOf(file), <<>>, {}, used, {})
  BY <1>1, <1>2, <1>3, <1>4 DEF Tidy
<1> QED BY <1>2, <1>5 DEF TokenInv

\* Clearing the record takes no token from the file.
LEMMA ClearsTokens ==
  ASSUME DiskInv, OperatorClears
  PROVE  TokensOf(file)' = TokensOf(file)
<1>1. file \in GoodContent /\ file' = [file EXCEPT !.record = NoToken, !.plain = FALSE]
  BY DEF OperatorClears, DiskInv, DiskCore
<1>2. file' \in GoodContent /\ file'.tokens = file.tokens
  BY <1>1 DEF GoodContent, Content
<1> QED BY <1>1, <1>2, ContentAssumption DEF TokensOf, GoodContent

\* The steps before it serves, and those that end it.
LEMMA BootTokens ==
  ASSUME DiskInv, TokenInv, Begins
  PROVE  TokenInv'
<1>1. ASSUME NEW how \in {"exited", "crashed"}, NEW c, Ends(how, c) PROVE TokenInv'
  BY <1>1, IdleTokens DEF Ends, Lost, diskVars, historyVars, TokensOf
<1>2. CASE Start
  <2>1. chain' = <<>> /\ UNCHANGED <<gone, used, file>> /\ mem'.tokens = {}
    BY <1>2 DEF Start, storageVars, diskVars, DiskInv, Default
  <2> QED BY <2>1, IdleTokens DEF TokensOf
<1>3. CASE Crash \/ InitFails \/ SecondSignalInInit
  BY <1>1, <1>3 DEF Crash, InitFails, SecondSignalInInit
<1>4. CASE OperatorClears
  <2>1. chain' = <<>> /\ UNCHANGED <<gone, used, mem>>
    BY <1>4 DEF OperatorClears, processVars, historyVars, DiskInv
  <2>2. TokensOf(file)' = TokensOf(file)
    BY <1>4, ClearsTokens
  <2> QED BY <2>1, <2>2, IdleTokens
<1>5. CASE InitDone
  <2> DEFINE d == IF file = NoFile THEN Default ELSE file
  <2>1. /\ BeginBoot(d) /\ d \in GoodContent /\ d.tokens = TokensOf(file)
        /\ chain = <<>> /\ proc' = "up" /\ UNCHANGED <<used, gone>>
    <3>1. proc = "init" /\ BeginBoot(d) /\ proc' = "up" /\ UNCHANGED <<used, gone>>
      BY <1>5 DEF InitDone, historyVars
    <3>2. d \in GoodContent
      BY Contents DEF DiskInv, DiskCore
    <3>3. d.tokens = TokensOf(file)
      BY DEF Default, TokensOf
    <3> QED BY <3>1, <3>2, <3>3 DEF TokenInv
  <2> HIDE DEF d
  <2>2. mem' \in GoodContent /\ mem'.tokens \subseteq d.tokens
    <3>1. \A S : Without(d, S).tokens \subseteq d.tokens
      BY <2>1 DEF Without, GoodContent, Content
    <3>2. Scrubbed(d).tokens = d.tokens
      BY <2>1 DEF Scrubbed, GoodContent, Content
    <3>3. mem' \in GoodContent
      BY <2>1, BootSteps
    <3>4. mem'.tokens \subseteq d.tokens
      BY <2>1, <3>1, <3>2 DEF BeginBoot, Superseded, ToInvite
    <3> QED BY <3>3, <3>4
  <2>3. PICK jobs \in Seq(Request) : Queue(jobs) /\ Later(d.tokens, jobs, mem'.tokens, {})
    <3>1. /\ Later(d.tokens, <<>>, mem'.tokens, {})
          /\ \A who : Later(d.tokens, <<Job(mem', who)>>, mem'.tokens, {})
      BY <2>2, FewJobs
    <3>2. /\ <<>> \in Seq(Request) /\ <<Job(mem', "nobody")>> \in Seq(Request)
          /\ <<Job(mem', "boot")>> \in Seq(Request)
      BY <2>2, Jobs DEF Requester
    <3>3. \/ Queue(<<>>) \/ Queue(<<Job(mem', "nobody")>>) \/ Queue(<<Job(mem', "boot")>>)
      BY <2>1 DEF BeginBoot, Saved
    <3> QED BY <3>1, <3>2, <3>3
  <2> QED BY <2>1, <2>3, QueueTokens
<1>6. CASE Tighten \/ SignalInInit
  <2>1. chain' = <<>> /\ UNCHANGED <<gone, used, file, mem>>
    BY <1>6 DEF Tighten, Tightened, SignalInInit, processVars, historyVars, storageVars, diskVars,
                TokenInv
  <2> QED BY <2>1, IdleTokens DEF TokensOf
<1> QED BY <1>2, <1>3, <1>4, <1>5, <1>6 DEF Begins

\* The steps in which it serves.
LEMMA ServeTokens ==
  ASSUME DiskInv, TokenInv, Goes \/ Signal
  PROVE  TokenInv'
<1>1. /\ mem \in GoodContent
      /\ \A d \in GoodContent, who \in Requester : <<Job(d, who)>> \in Seq(Request)
      /\ \A d, e \in GoodContent, a, b \in Requester : <<Job(d, a), Job(e, b)>> \in Seq(Request)
      /\ "nobody" \in Requester /\ "boot" \in Requester /\ "flush" \in Requester
  BY Jobs DEF DiskInv, Requester
<1>2. ASSUME NEW jobs \in Seq(Request), Queue(jobs), NEW new, new \intersect used = {},
             used' = used \union new, Later(mem.tokens, jobs, mem'.tokens, new),
             gone' = gone, proc' = "up"
      PROVE  TokenInv'
  BY <1>2, QueueTokens
<1>3. ASSUME Queue(<<Job(mem, "flush")>>) \/ Quiet, UNCHANGED <<mem, used, gone>>, proc' = "up"
      PROVE  TokenInv'
  <2>1. Quiet => Queue(<<>>)
    BY DEF Quiet, Queue, storageVars, diskVars, StageOf, DiskInv, DiskCore
  <2>2. /\ Later(mem.tokens, <<>>, mem'.tokens, {})
        /\ Later(mem.tokens, <<Job(mem, "flush")>>, mem'.tokens, {})
    BY <1>3, FewJobs
  <2>3. <<>> \in Seq(Request) /\ <<Job(mem, "flush")>> \in Seq(Request)
    BY <1>1
  <2>4. {} \intersect used = {} /\ used' = used \union {} /\ gone' = gone /\ proc' = "up"
    BY <1>3
  <2>5. ASSUME NEW jobs \in Seq(Request), Queue(jobs), Later(mem.tokens, jobs, mem'.tokens, {})
        PROVE  TokenInv'
    BY <1>2, <2>4, <2>5
  <2> QED BY <1>3, <2>1, <2>2, <2>3, <2>5
<1>4. ASSUME NEW u \in Uplink, FinishMint(u) PROVE TokenInv'
  <2>1. /\ u \notin used /\ used' = used \union {u} /\ gone' = gone /\ proc' = "up"
        /\ mem' = Recorded(With(mem, u), u) /\ Queue(MintJobs(mem, u))
    BY <1>4 DEF FinishMint
  <2>2. /\ With(mem, u) \in GoodContent /\ mem' \in GoodContent
        /\ MintJobs(mem, u) = <<Job(With(mem, u), "nobody"), Job(mem', "boot")>>
    <3>1. NoUplink(mem)
      BY <1>4 DEF FinishMint, DiskInv, BootInv
    <3> QED BY <1>1, <2>1, <3>1, Contents DEF MintJobs
  <2>3. With(mem, u).tokens = mem.tokens \union {u} /\ mem'.tokens = mem.tokens \union {u}
    BY <1>1, <2>1 DEF With, Recorded, GoodContent, Content
  <2>4. Later(mem.tokens, MintJobs(mem, u), mem'.tokens, {u})
    <3>1. mem'.tokens \subseteq mem.tokens \union {u}
      BY <2>3
    <3>2. \A d, e, a, b :
            d.tokens \subseteq mem.tokens \union {u} /\ mem'.tokens \subseteq d.tokens
            /\ e.tokens = mem'.tokens =>
              Later(mem.tokens, <<Job(d, a), Job(e, b)>>, mem'.tokens, {u})
      BY <3>1, FewJobs
    <3> QED BY <2>2, <2>3, <3>2
  <2>5. MintJobs(mem, u) \in Seq(Request)
    BY <1>1, <2>2
  <2> QED BY <1>2, <2>1, <2>4, <2>5
<1>5. ASSUME NEW i \in Invite, FinishInvite(i) PROVE TokenInv'
  <2>1. /\ i \notin used /\ used' = used \union {i} /\ gone' = gone /\ proc' = "up"
        /\ mem' = With(mem, i) /\ Queue(<<Job(mem', "nobody")>>)
    BY <1>5 DEF FinishInvite
  <2>2. mem' \in GoodContent /\ mem'.tokens = mem.tokens \union {i}
    <3>1. mem' \in GoodContent
      BY <1>1, <2>1, Contents
    <3> QED BY <1>1, <2>1, <3>1 DEF With, GoodContent, Content
  <2>3. Later(mem.tokens, <<Job(mem', "nobody")>>, mem'.tokens, {i})
    BY <2>2, FewJobs
  <2>4. <<Job(mem', "nobody")>> \in Seq(Request)
    BY <1>1, <2>2
  <2> QED BY <1>2, <2>1, <2>3, <2>4
<1>6. ASSUME ListenDone PROVE TokenInv'
  BY <1>3, <1>6 DEF ListenDone, AskFlush
<1>7. ASSUME ListenFails PROVE TokenInv'
  <2>1. ASSUME Ends("exited", 1) PROVE TokenInv'
    BY <2>1, IdleTokens DEF Ends, Lost, diskVars, historyVars, TokensOf
  <2> QED BY <1>3, <1>7, <2>1 DEF ListenFails, AskFlush
<1>8. ASSUME FirstCheck PROVE TokenInv'
  BY <1>3, <1>8 DEF FirstCheck, historyVars, Quiet
<1>9. ASSUME NEW t \in Token, Revoke(t) PROVE TokenInv'
  <2>1. /\ mem' = Without(mem, {t}) /\ Queue(<<Job(mem', "nobody")>>)
        /\ UNCHANGED <<used, gone>> /\ proc' = "up"
    BY <1>9 DEF Revoke, TokensBecome, Serving
  <2>2. mem' \in GoodContent /\ mem'.tokens \subseteq mem.tokens
    <3>1. t \in Invite \union Session
      BY <1>9 DEF Revoke, Token
    <3>2. mem' \in GoodContent
      BY <1>1, <2>1, <3>1, Contents
    <3> QED BY <1>1, <2>1, <3>2 DEF Without, GoodContent, Content
  <2>3. Later(mem.tokens, <<Job(mem', "nobody")>>, mem'.tokens, {})
    BY <2>2, FewJobs
  <2>4. <<Job(mem', "nobody")>> \in Seq(Request)
    BY <1>1, <2>2
  <2>5. {} \intersect used = {} /\ used' = used \union {}
    BY <2>1
  <2> QED BY <1>2, <2>1, <2>3, <2>4, <2>5
<1>10. ASSUME NEW i \in Invite, NEW t \in Session, Redeem(i, t) PROVE TokenInv'
  <2>1. /\ t \notin used /\ used' = used \union {t} /\ gone' = gone /\ proc' = "up"
        /\ mem' = Without(With(mem, t), {i})
        /\ Queue(<<Job(With(mem, t), "nobody"), Job(mem', "nobody")>>)
    BY <1>10 DEF Redeem, Serving
  <2>2. /\ With(mem, t) \in GoodContent /\ mem' \in GoodContent
        /\ With(mem, t).tokens = mem.tokens \union {t} /\ mem'.tokens \subseteq With(mem, t).tokens
    <3>1. With(mem, t) \in GoodContent
      BY <1>1, Contents
    <3>2. mem' \in GoodContent
      BY <2>1, <3>1, Contents
    <3>3. With(mem, t).tokens = mem.tokens \union {t}
      BY <1>1 DEF With, GoodContent, Content
    <3>4. mem'.tokens \subseteq With(mem, t).tokens
      BY <2>1, <3>1 DEF Without, GoodContent, Content
    <3> QED BY <3>1, <3>2, <3>3, <3>4
  <2>3. Later(mem.tokens, <<Job(With(mem, t), "nobody"), Job(mem', "nobody")>>, mem'.tokens, {t})
    BY <2>2, FewJobs
  <2>4. <<Job(With(mem, t), "nobody"), Job(mem', "nobody")>> \in Seq(Request)
    BY <1>1, <2>2
  <2> QED BY <1>2, <2>1, <2>3, <2>4
<1>11. ASSUME Signal PROVE TokenInv'
  BY <1>3, <1>11 DEF Signal, AskFlush
<1> QED BY <1>4, <1>5, <1>6, <1>7, <1>8, <1>9, <1>10, <1>11 DEF Goes

\* The steps of the writes.
LEMMA WriteTokens ==
  ASSUME DiskInv, TokenInv, WriteEnds
  PROVE  TokenInv'
<1>1. chain # <<>> => proc = "up"
  BY DEF TokenInv
<1>2. mem \in GoodContent /\ \A who \in Requester : <<Job(mem, who)>> \in Seq(Request)
  BY Jobs DEF DiskInv
<1>3. ASSUME NEW more \in Seq(Request), Lands(more) \/ Fails(more),
             Later(mem.tokens, more, mem'.tokens, {}), used' = used, proc' = "up"
      PROVE  TokenInv'
  BY <1>3, EndTokens DEF WriteEnds
<1>4. ASSUME UNCHANGED mem
      PROVE  /\ Later(mem.tokens, <<>>, mem'.tokens, {}) /\ <<>> \in Seq(Request)
             /\ Later(mem.tokens, <<Job(mem, "flush")>>, mem'.tokens, {})
             /\ <<Job(mem, "flush")>> \in Seq(Request)
  <2>1. Later(mem.tokens, <<>>, mem'.tokens, {}) /\ Later(mem.tokens, <<Job(mem, "flush")>>, mem'.tokens, {})
    BY <1>4, FewJobs
  <2>2. <<>> \in Seq(Request) /\ <<Job(mem, "flush")>> \in Seq(Request)
    BY <1>2 DEF Requester
  <2> QED BY <2>1, <2>2
<1>5. ASSUME NobodyWaited \/ FlushWritten PROVE TokenInv'
  <2>1. /\ Lands(<<>>) \/ Fails(<<>>)
        /\ UNCHANGED <<mem, used, proc>> /\ chain # <<>>
    BY <1>5 DEF NobodyWaited, FlushWritten, WaitedForBy, processVars
  <2> QED BY <1>1, <1>3, <1>4, <2>1
<1>6. ASSUME BootWritten PROVE TokenInv'
  <2>1. /\ Lands(Saved(mem, mem')) /\ mem' = Without(mem, Invite)
        /\ UNCHANGED <<used, proc>> /\ chain # <<>>
    BY <1>6 DEF BootWritten, WaitedForBy, ToInvite
  <2>2. mem' \in GoodContent /\ mem'.tokens \subseteq mem.tokens
    <3>1. mem' \in GoodContent
      BY <1>2, <2>1, Contents
    <3> QED BY <1>2, <2>1, <3>1 DEF Without, GoodContent, Content
  <2>3. /\ Later(mem.tokens, <<>>, mem'.tokens, {})
        /\ Later(mem.tokens, <<Job(mem', "nobody")>>, mem'.tokens, {})
    BY <2>2, FewJobs
  <2>4. <<>> \in Seq(Request) /\ <<Job(mem', "nobody")>> \in Seq(Request)
    BY <2>2, Jobs DEF Requester
  <2> QED BY <1>1, <1>3, <2>1, <2>3, <2>4 DEF Saved
<1>7. ASSUME BootNotWritten PROVE TokenInv'
  <2>1. CASE shut = "boot"
    <3>1. /\ Fails(<<Job(mem, "flush")>>) /\ UNCHANGED <<mem, used, proc>> /\ chain # <<>>
      BY <1>7, <2>1 DEF BootNotWritten, WaitedForBy
    <3> QED BY <1>1, <1>3, <1>4, <3>1
  <2>2. CASE shut # "boot"
    <3>1. Ends("exited", 1)
      BY <1>7, <2>2 DEF BootNotWritten
    <3> QED BY <3>1, IdleTokens DEF Ends, Lost, diskVars, historyVars, TokensOf
  <2> QED BY <2>1, <2>2
<1> QED BY <1>5, <1>6, <1>7 DEF WriteEnds

\* Every step.
LEMMA TokenStep == DiskInv /\ TokenInv /\ [Next]_vars => TokenInv'
<1> SUFFICES ASSUME DiskInv, TokenInv, [Next]_vars PROVE TokenInv'
  OBVIOUS
<1>1. ASSUME UNCHANGED <<proc, chain, file, mem, used, gone>> PROVE TokenInv'
  BY <1>1 DEF TokenInv, TokensOf
<1>2. ASSUME NEW c, Ends("exited", c) PROVE TokenInv'
  BY <1>2, IdleTokens DEF Ends, Lost, diskVars, historyVars, TokensOf
<1>3. CASE Stops \/ Expire
  BY <1>1, <1>2, <1>3, ServeTokens
  DEF Stops, CloseHook, CloseFails, Exit, Expire, storageVars, diskVars, historyVars
<1>4. CASE Tick \/ UNCHANGED vars
  BY <1>1, <1>4 DEF Tick, vars, storageVars, diskVars, processVars, historyVars
<1>5. CASE Writing /\ UNCHANGED gone
  BY <1>1, <1>5 DEF Writing, Unlink, Create, Fill, processVars
<1> QED BY <1>3, <1>4, <1>5, BootTokens, ServeTokens, WriteTokens DEF Next

\* The last write that is asked for has the tokens of memory.
NewestInv == proc = "up" /\ chain # <<>> => chain[Len(chain)].data.tokens = mem.tokens

\* What DivergesByFailure says of a step.
SavedOrFailed == Diverged' => Diverged \/ (chain # <<>> /\ file' = file)

\* Writes are asked for, the last of them of what is in memory now.
LEMMA QueueNewest ==
  ASSUME DiskInv, NEW jobs \in Seq(Request), Queue(jobs), jobs # <<>>,
         jobs[Len(jobs)].data.tokens = mem'.tokens
  PROVE  NewestInv' /\ SavedOrFailed
<1>1. /\ chain \in Seq(Request) /\ chain' = chain \o jobs
      /\ Len(jobs) \in Nat \ {0} /\ Len(chain) \in Nat
  BY DEF DiskInv, DiskCore, Queue
<1>2. chain' # <<>> /\ chain'[Len(chain')] = jobs[Len(jobs)]
  BY <1>1
<1> QED BY <1>2 DEF NewestInv, SavedOrFailed, Diverged

\* The first write ends, and others are asked for if memory has changed.
LEMMA EndNewest ==
  ASSUME DiskInv, NewestInv, proc = "up", NEW more \in Seq(Request), Lands(more) \/ Fails(more),
         more = <<>> => mem'.tokens = mem.tokens,
         more # <<>> => more[Len(more)].data.tokens = mem'.tokens
  PROVE  NewestInv' /\ SavedOrFailed
<1>1. /\ chain \in Seq(Request) /\ chain # <<>> /\ Tail(chain) \in Seq(Request)
      /\ chain' = Tail(chain) \o more
  <2>1. chain \in Seq(Request) /\ chain # <<>>
    BY DEF DiskInv, DiskCore, Lands, Renamed, Fails
  <2> QED BY <2>1 DEF Lands, Fails, Ended
<1>2. CASE more # <<>>
  <2>1. Len(more) \in Nat \ {0} /\ Len(Tail(chain)) \in Nat
    BY <1>1, <1>2
  <2>2. chain' # <<>> /\ chain'[Len(chain')] = more[Len(more)]
    BY <1>1, <2>1
  <2> QED BY <1>2, <2>2 DEF NewestInv, SavedOrFailed, Diverged
<1>3. CASE more = <<>> /\ Tail(chain) # <<>>
  <2>1. chain' = Tail(chain) /\ Len(chain) \in Nat \ {0}
    BY <1>1, <1>3
  <2>2. chain' # <<>> /\ chain'[Len(chain')] = chain[Len(chain)]
    BY <1>1, <1>3, <2>1
  <2> QED BY <1>1, <1>3, <2>2 DEF NewestInv, SavedOrFailed, Diverged
<1>4. CASE more = <<>> /\ Tail(chain) = <<>>
  <2>1. chain' = <<>> /\ Head(chain) = chain[Len(chain)]
    BY <1>1, <1>4
  <2>2. CASE Lands(more)
    <3>1. TokensOf(file)' = mem.tokens
      BY <1>1, <2>1, <2>2, LandedTokens DEF NewestInv
    <3>2. TokensOf(file)' = mem'.tokens
      BY <1>4, <3>1
    <3> QED BY <2>1, <3>2 DEF NewestInv, SavedOrFailed, Diverged
  <2>3. CASE Fails(more)
    BY <1>1, <2>1, <2>3 DEF NewestInv, SavedOrFailed, Diverged, Fails, diskVars
  <2> QED BY <2>2, <2>3
<1> QED BY <1>2, <1>3, <1>4

\* Neither memory nor the file changes, and nothing is asked for.
LEMMA SameNewest ==
  ASSUME NewestInv, proc' = "up" => proc = "up",
         UNCHANGED <<chain, file>>, mem'.tokens = mem.tokens
  PROVE  NewestInv' /\ SavedOrFailed
BY DEF NewestInv, SavedOrFailed, Diverged, TokensOf

\* Without a process that serves there is nothing to compare.
LEMMA DownNewest ==
  ASSUME proc' # "up"
  PROVE  NewestInv' /\ SavedOrFailed
BY DEF NewestInv, SavedOrFailed, Diverged

\* A write of d is one that the queue takes.
LEMMA OneJob ==
  ASSUME NEW d \in GoodContent, NEW who \in Requester
  PROVE  /\ <<Job(d, who)>> \in Seq(Request) /\ <<Job(d, who)>> # <<>>
         /\ <<Job(d, who)>>[Len(<<Job(d, who)>>)].data.tokens = d.tokens
BY Jobs DEF Job

\* So are two, one behind the other.
LEMMA TwoJobs ==
  ASSUME NEW d \in GoodContent, NEW e \in GoodContent, NEW who \in Requester, NEW why \in Requester
  PROVE  /\ <<Job(d, who), Job(e, why)>> \in Seq(Request) /\ <<Job(d, who), Job(e, why)>> # <<>>
         /\ <<Job(d, who), Job(e, why)>>[Len(<<Job(d, who), Job(e, why)>>)].data.tokens = e.tokens
BY Jobs DEF Job

\* The start: what it takes from the file and changes is asked for at once.
LEMMA InitDoneNewest ==
  ASSUME DiskInv, TokenInv, InitDone
  PROVE  NewestInv' /\ SavedOrFailed
<1> DEFINE d == IF file = NoFile THEN Default ELSE file
<1>1. /\ BeginBoot(d) /\ d \in GoodContent /\ d.tokens = TokensOf(file) /\ chain = <<>>
  <2>1. proc = "init" /\ BeginBoot(d)
    BY DEF InitDone
  <2>2. d \in GoodContent
    BY Contents DEF DiskInv, DiskCore
  <2>3. d.tokens = TokensOf(file)
    BY DEF Default, TokensOf
  <2> QED BY <2>1, <2>2, <2>3 DEF TokenInv
<1> HIDE DEF d
<1>2. mem' \in GoodContent
  BY <1>1, BootSteps
<1>3. CASE \E who \in Requester : Queue(<<Job(mem', who)>>)
  BY <1>2, <1>3, OneJob, QueueNewest
<1>4. CASE Queue(<<>>) /\ mem' = d
  <2>1. chain' = <<>> /\ file' = file
    BY <1>1, <1>4 DEF Queue, diskVars
  <2>2. TokensOf(file)' = mem'.tokens
    BY <1>1, <1>4, <2>1 DEF TokensOf
  <2> QED BY <2>1, <2>2 DEF NewestInv, SavedOrFailed, Diverged
<1> QED BY <1>1, <1>3, <1>4 DEF BeginBoot, Saved, Requester, ToInvite

\* The steps in which it serves.
LEMMA ServeNewest ==
  ASSUME DiskInv, NewestInv, Goes \/ Signal
  PROVE  NewestInv' /\ SavedOrFailed
<1>1. mem \in GoodContent /\ {"nobody", "boot", "flush"} = Requester
  BY DEF DiskInv, Requester
<1>2. ASSUME proc = "up", UNCHANGED mem, Queue(<<Job(mem, "flush")>>) \/ Quiet
      PROVE  NewestInv' /\ SavedOrFailed
  <2>1. CASE Queue(<<Job(mem, "flush")>>)
    BY <1>1, <1>2, <2>1, OneJob, QueueNewest
  <2>2. CASE Quiet
    BY <1>2, <2>2, SameNewest DEF Quiet, storageVars, diskVars
  <2> QED BY <1>2, <2>1, <2>2
<1>3. ASSUME NEW u \in Uplink, FinishMint(u) PROVE NewestInv' /\ SavedOrFailed
  <2>1. mem' = Recorded(With(mem, u), u) /\ Queue(MintJobs(mem, u)) /\ NoUplink(mem)
    BY <1>3 DEF FinishMint, DiskInv, BootInv
  <2>2. With(mem, u) \in GoodContent /\ mem' \in GoodContent
    BY <1>1, <2>1, Contents
  <2>3. MintJobs(mem, u) = <<Job(With(mem, u), "nobody"), Job(mem', "boot")>>
    BY <2>1 DEF MintJobs
  <2> QED BY <1>1, <2>1, <2>2, <2>3, TwoJobs, QueueNewest
<1>4. ASSUME NEW i \in Invite, FinishInvite(i) PROVE NewestInv' /\ SavedOrFailed
  <2>1. mem' = With(mem, i) /\ Queue(<<Job(mem', "nobody")>>)
    BY <1>4 DEF FinishInvite
  <2>2. mem' \in GoodContent
    BY <1>1, <2>1, Contents
  <2> QED BY <1>1, <2>1, <2>2, OneJob, QueueNewest
<1>5. CASE ListenDone
  BY <1>2, <1>5 DEF ListenDone, AskFlush
<1>6. CASE ListenFails
  BY <1>2, <1>6, DownNewest DEF ListenFails, AskFlush, Ends
<1>7. CASE FirstCheck
  BY <1>2, <1>7 DEF FirstCheck, Quiet
<1>8. ASSUME NEW t \in Token, Revoke(t) PROVE NewestInv' /\ SavedOrFailed
  <2>1. mem' = Without(mem, {t}) /\ Queue(<<Job(mem', "nobody")>>) /\ t \in Invite \union Session
    BY <1>8 DEF Revoke, TokensBecome, Token
  <2>2. mem' \in GoodContent
    BY <1>1, <2>1, Contents
  <2> QED BY <1>1, <2>1, <2>2, OneJob, QueueNewest
<1>9. ASSUME NEW i \in Invite, NEW t \in Session, Redeem(i, t) PROVE NewestInv' /\ SavedOrFailed
  <2>1. /\ mem' = Without(With(mem, t), {i})
        /\ Queue(<<Job(With(mem, t), "nobody"), Job(mem', "nobody")>>)
    BY <1>9 DEF Redeem
  <2>2. With(mem, t) \in GoodContent
    BY <1>1, Contents
  <2>3. mem' \in GoodContent
    BY <2>1, <2>2, Contents
  <2> QED BY <1>1, <2>1, <2>2, <2>3, TwoJobs, QueueNewest
<1>10. CASE Signal
  BY <1>2, <1>10 DEF Signal, AskFlush
<1> QED BY <1>3, <1>4, <1>5, <1>6, <1>7, <1>8, <1>9, <1>10 DEF Goes

\* The steps of the writes.
LEMMA WriteNewest ==
  ASSUME DiskInv, TokenInv, NewestInv, WriteEnds
  PROVE  NewestInv' /\ SavedOrFailed
<1>1. chain # <<>> => proc = "up"
  BY DEF TokenInv
<1>2. mem \in GoodContent /\ {"nobody", "boot", "flush"} = Requester /\ <<>> \in Seq(Request)
  BY DEF DiskInv, Requester
<1>3. ASSUME NobodyWaited \/ FlushWritten PROVE NewestInv' /\ SavedOrFailed
  <2>1. (Lands(<<>>) \/ Fails(<<>>)) /\ UNCHANGED mem /\ chain # <<>>
    BY <1>3 DEF NobodyWaited, FlushWritten, WaitedForBy, processVars
  <2> QED BY <1>1, <1>2, <2>1, EndNewest
<1>4. ASSUME BootWritten PROVE NewestInv' /\ SavedOrFailed
  <2>1. Lands(Saved(mem, mem')) /\ mem' = Without(mem, Invite) /\ chain # <<>>
    BY <1>4 DEF BootWritten, WaitedForBy, ToInvite
  <2>2. mem' \in GoodContent
    BY <1>2, <2>1, Contents
  <2>3. CASE mem' = mem
    BY <1>1, <1>2, <2>1, <2>3, EndNewest DEF Saved
  <2>4. CASE mem' # mem
    BY <1>1, <1>2, <2>1, <2>2, <2>4, OneJob, EndNewest DEF Saved
  <2> QED BY <2>3, <2>4
<1>5. ASSUME BootNotWritten PROVE NewestInv' /\ SavedOrFailed
  <2>1. CASE shut = "boot"
    <3>1. Fails(<<Job(mem, "flush")>>) /\ UNCHANGED mem /\ chain # <<>>
      BY <1>5, <2>1 DEF BootNotWritten, WaitedForBy
    <3> QED BY <1>1, <1>2, <3>1, OneJob, EndNewest
  <2>2. CASE shut # "boot"
    BY <1>5, <2>2, DownNewest DEF BootNotWritten, Ends
  <2> QED BY <2>1, <2>2
<1> QED BY <1>3, <1>4, <1>5 DEF WriteEnds

\* Every step.
LEMMA NewestStep == DiskInv /\ TokenInv /\ NewestInv /\ [Next]_vars => NewestInv' /\ SavedOrFailed
<1> SUFFICES ASSUME DiskInv, TokenInv, NewestInv, [Next]_vars PROVE NewestInv' /\ SavedOrFailed
  OBVIOUS
<1>1. ASSUME NEW how \in {"exited", "crashed"}, NEW c, Ends(how, c)
      PROVE  NewestInv' /\ SavedOrFailed
  BY <1>1, DownNewest DEF Ends
<1>2. CASE Start \/ Crash \/ InitFails \/ SecondSignalInInit
  BY <1>1, <1>2, DownNewest DEF Start, Crash, InitFails, SecondSignalInInit
<1>3. CASE OperatorClears \/ Tighten \/ SignalInInit
  BY <1>3, DownNewest DEF OperatorClears, Tighten, SignalInInit, processVars, Running
<1>4. CASE CloseFails \/ Exit \/ Expire
  BY <1>1, <1>4 DEF CloseFails, Exit, Expire
<1>5. CASE CloseHook \/ Tick \/ UNCHANGED vars
  BY <1>5, SameNewest DEF CloseHook, Tick, vars, processVars, storageVars, diskVars
<1>6. CASE Writing
  BY <1>6, SameNewest DEF Writing, Unlink, Create, Fill, processVars
<1> QED BY <1>2, <1>3, <1>4, <1>5, <1>6, InitDoneNewest, ServeNewest, WriteNewest
        DEF Next, Begins, Stops

\* Whatever wrote the file last, and however far the writing came, what only its owner may
\* read is not given away.
ModeInv ==
  /\ stage = "create" => temp = NoFile
  /\ stage \in {"fill", "rename"} => tempMode = "owner"

\* No step of a write or of the load makes the file readable to others again.
LEMMA ModeStep == ModeInv /\ FileStep => ModeInv' /\ (fileMode = "owner" => fileMode' = "owner")
<1> SUFFICES ASSUME ModeInv, FileStep
             PROVE  ModeInv' /\ (fileMode = "owner" => fileMode' = "owner")
  OBVIOUS
<1> USE DEF ModeInv, diskVars
<1>1. ASSUME NEW jobs \in Seq(Request), Queue(jobs)
      PROVE  ModeInv' /\ (fileMode = "owner" => fileMode' = "owner")
  BY <1>1 DEF Queue, StageOf
<1>2. ASSUME NEW more \in Seq(Request), Lands(more) \/ Fails(more)
      PROVE  ModeInv' /\ (fileMode = "owner" => fileMode' = "owner")
  BY <1>2 DEF Lands, Fails, Renamed, Ended, StageOf
<1>3. ASSUME Unlink \/ Create \/ Fill
      PROVE  ModeInv' /\ (fileMode = "owner" => fileMode' = "owner")
  BY <1>3 DEF Unlink, Create, Fill
<1>4. ASSUME Lost \/ (Tightened /\ UNCHANGED <<chain, stage>>) \/ OperatorClears \/ UNCHANGED storageVars
      PROVE  ModeInv' /\ (fileMode = "owner" => fileMode' = "owner")
  BY <1>4 DEF Lost, Tightened, OperatorClears, storageVars
<1> QED BY <1>1, <1>2, <1>3, <1>4 DEF FileStep

\* A secret whose end has reached the file does not come back, whatever writes fail and
\* wherever a process ends; its end is only missing there when a write failed or while one
\* is still to be done (index.ts:279-282); nor can others read what only the owner could.
THEOREM RevokedStayGone == Spec => SecretsStay
<1>1. Init => ModeInv
  BY DEF Init, ModeInv
<1>2. DiskInv /\ TokenInv => GoodAgain = {}
  <2> SUFFICES ASSUME DiskInv, TokenInv PROVE GoodAgain = {}
    OBVIOUS
  <2>1. Len(chain) \in Nat /\ DOMAIN chain = 1 .. Len(chain)
    BY DEF DiskInv, DiskCore
  <2>2. /\ 0 \in 0 .. (Len(chain) + 1) /\ Len(chain) + 1 \in 0 .. (Len(chain) + 1)
        /\ Had(TokensOf(file), chain, mem.tokens, 0) = TokensOf(file)
        /\ Had(TokensOf(file), chain, mem.tokens, Len(chain) + 1) = mem.tokens
    BY <2>1 DEF Had
  <2>3. TokensOf(file) \intersect gone = {} /\ mem.tokens \intersect gone = {}
    BY <2>2 DEF TokenInv, Tidy
  <2> QED BY <2>3 DEF GoodAgain
<1>3. DiskInv /\ ModeInv /\ [Next]_vars =>
        ModeInv' /\ [fileMode = "owner" => fileMode' = "owner"]_fileMode
  BY StepOfFile, ModeStep
<1>4. Init => NewestInv
  BY DEF Init, NewestInv
<1>5. DiskInv /\ TokenInv /\ NewestInv /\ [Next]_vars => NewestInv' /\ [SavedOrFailed]_vars
  BY NewestStep
<1> QED BY <1>1, <1>2, <1>3, <1>4, <1>5, InitTokens, TokenStep, DiskInvariant, PTL
        DEF Spec, SecretsStay, StaysOwnerOnly, DivergesByFailure, SavedOrFailed

-----------------------------------------------------------------------------
(* One deadline.                                                           *)

\* The clock has run since the first signal only, and what is left of it fits
\* into the budget, or into the floor that InitDone grants.
ClockInv ==
  /\ since \in Nat /\ left \in 0..Unarmed
  /\ since <= Budget + Floor
  /\ Running /\ left = Unarmed => since = 0
  /\ left # Unarmed => since + left <= Budget + Floor
  /\ proc = "init" /\ left # Unarmed => since <= Budget /\ since + left <= Budget
  /\ proc = "init" /\ ~signalled => left = Unarmed
  /\ proc = "up" /\ shut = "no" => left = Unarmed
  /\ ~Running => left = Unarmed

\* No deadline runs at the start.
LEMMA InitClock == Init => ClockInv
BY BudgetAssumption DEF Init, ClockInv, Unarmed, Running

\* Every step leaves at most one deadline, which only runs down.
LEMMA ClockStep == ClockInv /\ [Next]_vars => ClockInv'
<1> SUFFICES ASSUME ClockInv, [Next]_vars PROVE ClockInv'
  OBVIOUS
<1> USE BudgetAssumption DEF ClockInv, Unarmed, Running
<1>e. \A how, c : how \in {"exited", "crashed"} /\ Ends(how, c) => ClockInv'
  BY DEF Ends, historyVars
<1>1. ASSUME Start PROVE ClockInv'
  BY <1>1 DEF Start
<1>2. ASSUME Crash \/ InitFails \/ SecondSignalInInit \/ CloseFails \/ Exit PROVE ClockInv'
  BY <1>2, <1>e DEF Crash, InitFails, SecondSignalInInit, CloseFails, Exit
<1>3. ASSUME Expire PROVE ClockInv'
  BY <1>3, <1>e DEF Expire
<1>4. ASSUME InitDone PROVE ClockInv'
  <2>1. proc = "init" /\ proc' = "up" /\ since' = since /\ left' = Remaining
        /\ shut' = IF signalled THEN "boot" ELSE "no"
    BY <1>4 DEF InitDone, historyVars
  <2> QED BY <2>1 DEF Remaining
<1>5. ASSUME SignalInInit PROVE ClockInv'
  BY <1>5 DEF SignalInInit, historyVars
<1>6. ASSUME Signal PROVE ClockInv'
  <2>1. shut' \in {"flush", "boot"}
    BY <1>6 DEF Signal, AskFlush, FlushAsked
  <2> QED BY <1>6, <2>1 DEF Signal
<1>7. ASSUME Tick PROVE ClockInv'
  BY <1>7 DEF Tick
<1>8. ASSUME UNCHANGED <<proc, signalled, left, since>>, shut' = shut \/ shut' # "no"
      PROVE  ClockInv'
  BY <1>8
<1>9. ASSUME OperatorClears \/ Tighten \/ CloseHook \/ FirstCheck PROVE ClockInv'
  BY <1>8, <1>9 DEF OperatorClears, Tighten, CloseHook, FirstCheck, processVars, historyVars
<1>10. ASSUME (\E u \in Uplink : FinishMint(u)) \/ (\E i \in Invite : FinishInvite(i)) PROVE ClockInv'
  BY <1>8, <1>10 DEF FinishMint, FinishInvite
<1>11. ASSUME (\E t \in Token : Revoke(t)) \/ (\E i \in Invite, s \in Session : Redeem(i, s)) PROVE ClockInv'
  BY <1>8, <1>11 DEF Revoke, TokensBecome, Redeem
<1>12. ASSUME ListenDone PROVE ClockInv'
  BY <1>8, <1>12 DEF ListenDone, AskFlush, FlushAsked
<1>13. ASSUME ListenFails PROVE ClockInv'
  BY <1>8, <1>13, <1>e DEF ListenFails, AskFlush, FlushAsked
<1>14. ASSUME Writing \/ NobodyWaited \/ BootWritten \/ FlushWritten PROVE ClockInv'
  BY <1>8, <1>14 DEF Writing, NobodyWaited, BootWritten, FlushWritten, processVars
<1>15. ASSUME BootNotWritten PROVE ClockInv'
  BY <1>8, <1>15, <1>e DEF BootNotWritten, FlushAsked
<1>16. ASSUME UNCHANGED vars PROVE ClockInv'
  BY <1>8, <1>16 DEF vars, processVars, historyVars
<1> HIDE DEF ClockInv
<1> QED
  BY <1>1, <1>2, <1>3, <1>4, <1>5, <1>6, <1>7, <1>9, <1>10, <1>11, <1>12, <1>13, <1>14, <1>15, <1>16
  DEF Next, Begins, Goes, Stops, WriteEnds

\* However long the start takes and wherever the signals fall, the process has
\* one deadline, which the floor may put off once (bootstrap.ts:391-416).
THEOREM DeadlineHolds == Spec => []OneBudget
<1>1. ClockInv => OneBudget
  BY DEF ClockInv, OneBudget
<1> QED BY InitClock, ClockStep, <1>1, PTL DEF Spec

-----------------------------------------------------------------------------
(* What an exit tells.                                                     *)

\* Who waits in a queue, when the shutdown is at s and the boot at b: one flush at most,
\* from which on nothing is owed, and one write of the boot.
Waits(c, o, s, b) ==
  \A k \in DOMAIN c :
    /\ c[k].for = "flush" => s = "flush" /\ \A j \in DOMAIN c : k <= j => o \intersect c[j].data.tokens = {}
    /\ c[k].for = "boot" => b \in {"scrub", "record"}
    /\ c[k].for # "nobody" => \A j \in DOMAIN c : c[j].for = c[k].for => j = k

\* Nothing that is owed is in the queue.
Clear(c, o) == \A k \in DOMAIN c : o \intersect c[k].data.tokens = {}

\* One more write in the queue.
LEMMA OneMore ==
  ASSUME NEW c \in Seq(Request), NEW o, NEW s, NEW b, Waits(c, o, s, b), NEW d \in GoodContent
  PROVE  /\ s # "flush" \/ o \intersect d.tokens = {} => Waits(Append(c, Job(d, "nobody")), o, s, b)
         /\ \A p : s # "flush" /\ p \intersect d.tokens = {} =>
              Waits(Append(c, Job(d, "flush")), p, "flush", b)
         /\ \A e \in {"scrub", "record"} : s # "flush" /\ b \notin {"scrub", "record"} =>
              Waits(Append(c, Job(d, "boot")), o, s, e)
         /\ \A w \in Requester : /\ Append(c, Job(d, w)) \in Seq(Request)
                                 /\ Append(c, Job(d, w)) = c \o <<Job(d, w)>>
                                 /\ \A p : Clear(c, p) /\ p \intersect d.tokens = {} =>
                                      Clear(Append(c, Job(d, w)), p)
<1>1. ASSUME NEW w \in Requester
      PROVE  /\ Append(c, Job(d, w)) \in Seq(Request)
             /\ Append(c, Job(d, w)) = c \o <<Job(d, w)>>
             /\ DOMAIN Append(c, Job(d, w)) = 1 .. (Len(c) + 1)
             /\ DOMAIN c = 1 .. Len(c) /\ Len(c) \in Nat
             /\ \A k \in 1 .. Len(c) : Append(c, Job(d, w))[k] = c[k]
             /\ Append(c, Job(d, w))[Len(c) + 1] = Job(d, w)
  <2>1. Job(d, w) \in Request
    BY Jobs
  <2> DEFINE e == Job(d, w)
  <2> HIDE DEF e
  <2>2. /\ Append(c, e) \in Seq(Request)
        /\ DOMAIN Append(c, e) = 1 .. (Len(c) + 1)
        /\ DOMAIN c = 1 .. Len(c) /\ Len(c) \in Nat
        /\ \A k \in 1 .. Len(c) : Append(c, e)[k] = c[k]
        /\ Append(c, e)[Len(c) + 1] = e
    BY <2>1 DEF e
  <2>3. Append(c, e) = c \o <<e>>
    BY <2>1 DEF e
  <2> QED BY <2>2, <2>3 DEF e
<1>2. \A w : Job(d, w).for = w /\ Job(d, w).data = d
  BY DEF Job
<1>3. "nobody" \in Requester /\ "flush" \in Requester /\ "boot" \in Requester
  BY DEF Requester
<1>4. ASSUME s # "flush" \/ o \intersect d.tokens = {}
      PROVE  Waits(Append(c, Job(d, "nobody")), o, s, b)
  <2> DEFINE n == Append(c, Job(d, "nobody"))
  <2>1. \A k \in DOMAIN n : \/ k \in DOMAIN c /\ n[k] = c[k]
                            \/ k = Len(c) + 1 /\ n[k].for = "nobody" /\ n[k].data = d
    BY <1>1, <1>2, <1>3
  <2> HIDE DEF n
  <2>2. Waits(n, o, s, b)
    BY <1>4, <2>1 DEF Waits
  <2> QED BY <2>2 DEF n
<1>5. ASSUME NEW p, s # "flush", p \intersect d.tokens = {}
      PROVE  Waits(Append(c, Job(d, "flush")), p, "flush", b)
  <2> DEFINE n == Append(c, Job(d, "flush"))
  <2>1. \A k \in DOMAIN n : \/ k \in DOMAIN c /\ n[k] = c[k] /\ k < Len(c) + 1
                            \/ k = Len(c) + 1 /\ n[k].for = "flush" /\ n[k].data = d
    BY <1>1, <1>2, <1>3
  <2> HIDE DEF n
  <2>2. \A k \in DOMAIN c : c[k].for # "flush"
    BY <1>5 DEF Waits
  <2>3. \A k \in DOMAIN n : n[k].for = "flush" => k = Len(c) + 1 /\ n[k].data = d
    BY <2>1, <2>2
  <2>4. Len(c) \in Nat /\ \A j \in DOMAIN n : Len(c) + 1 <= j => j = Len(c) + 1
    BY <1>1, <2>1
  <2>5. \A k, j \in DOMAIN n : n[k].for = "flush" /\ k <= j => p \intersect n[j].data.tokens = {}
    BY <1>5, <2>3, <2>4
  <2>6. Waits(n, p, "flush", b)
    BY <2>1, <2>2, <2>3, <2>5 DEF Waits
  <2> QED BY <2>6 DEF n
<1>6. ASSUME NEW e \in {"scrub", "record"}, s # "flush", b \notin {"scrub", "record"}
      PROVE  Waits(Append(c, Job(d, "boot")), o, s, e)
  <2> DEFINE n == Append(c, Job(d, "boot"))
  <2>1. \A k \in DOMAIN n : \/ k \in DOMAIN c /\ n[k] = c[k]
                            \/ k = Len(c) + 1 /\ n[k].for = "boot" /\ n[k].data = d
    BY <1>1, <1>2, <1>3
  <2> HIDE DEF n
  <2>2. \A k \in DOMAIN c : c[k].for # "boot" /\ c[k].for # "flush"
    BY <1>6 DEF Waits
  <2>3. Waits(n, o, s, e)
    BY <2>1, <2>2 DEF Waits
  <2> QED BY <2>3 DEF n
<1>7. ASSUME NEW w \in Requester, NEW p, Clear(c, p), p \intersect d.tokens = {}
      PROVE  Clear(Append(c, Job(d, w)), p)
  <2> DEFINE n == Append(c, Job(d, w))
  <2>1. \A k \in DOMAIN n : \/ k \in DOMAIN c /\ n[k] = c[k]
                            \/ k = Len(c) + 1 /\ n[k].data = d
    BY <1>1, <1>2
  <2> HIDE DEF n
  <2>2. Clear(n, p)
    BY <1>7, <2>1 DEF Clear
  <2> QED BY <2>2 DEF n
<1> QED BY <1>1, <1>4, <1>5, <1>6, <1>7

\* One less, and whoever waited for it goes on.
LEMMA OneLess ==
  ASSUME NEW c \in Seq(Request), c # <<>>, NEW o, NEW s, NEW b, Waits(c, o, s, b)
  PROVE  /\ Tail(c) \in Seq(Request) /\ Waits(Tail(c), o, s, b)
         /\ \A p : Clear(c, p) => Clear(Tail(c), p) /\ p \intersect Head(c).data.tokens = {}
         /\ Head(c).for = "flush" => /\ Clear(Tail(c), o) /\ o \intersect Head(c).data.tokens = {}
                                     /\ \A t : Waits(Tail(c), o, t, b)
         /\ Head(c).for = "boot" => \A e : Waits(Tail(c), o, s, e)
<1> DEFINE t == Tail(c)
<1>1. /\ t \in Seq(Request) /\ 1 \in DOMAIN c /\ Head(c) = c[1]
      /\ \A k \in DOMAIN t : k \in Nat \ {0} /\ k + 1 \in DOMAIN c /\ t[k] = c[k + 1]
  OBVIOUS
<1> HIDE DEF t
<1>2. \A k, j \in DOMAIN t : /\ k <= j <=> k + 1 <= j + 1
                             /\ k = j <=> k + 1 = j + 1
                             /\ 1 <= k + 1 /\ k + 1 # 1
  BY <1>1
<1>3. Waits(t, o, s, b)
  BY <1>1, <1>2 DEF Waits
<1>4. \A p : Clear(c, p) => Clear(t, p) /\ p \intersect Head(c).data.tokens = {}
  BY <1>1 DEF Clear
<1>5. ASSUME Head(c).for = "flush"
      PROVE  /\ Clear(t, o) /\ o \intersect Head(c).data.tokens = {}
             /\ \A q : Waits(t, o, q, b)
  <2>1. /\ \A j \in DOMAIN c : 1 <= j => o \intersect c[j].data.tokens = {}
        /\ \A j \in DOMAIN c : c[j].for = "flush" => j = 1
    BY <1>1, <1>5 DEF Waits
  <2>2. Clear(t, o) /\ o \intersect Head(c).data.tokens = {}
    BY <1>1, <1>2, <2>1 DEF Clear
  <2>3. \A k \in DOMAIN t : t[k].for # "flush"
    BY <1>1, <1>2, <2>1
  <2>4. \A q : Waits(t, o, q, b)
    BY <1>3, <2>3 DEF Waits
  <2> QED BY <2>2, <2>4
<1>6. ASSUME Head(c).for = "boot" PROVE \A e : Waits(t, o, s, e)
  <2>1. \A j \in DOMAIN c : c[j].for = "boot" => j = 1
    BY <1>1, <1>6 DEF Waits
  <2>2. \A k \in DOMAIN t : t[k].for # "boot"
    BY <1>1, <1>2, <2>1
  <2> QED BY <1>3, <2>2 DEF Waits
<1> QED BY <1>1, <1>3, <1>4, <1>5, <1>6 DEF t

\* If nobody waits for a flush, or none of the boot, where these are does not matter.
LEMMA Elsewhere ==
  ASSUME NEW c, NEW o, NEW s, NEW b, Waits(c, o, s, b)
  PROVE  /\ s # "flush" => \A p, t : Waits(c, p, t, b)
         /\ b \notin {"scrub", "record"} => \A e : Waits(c, o, s, e)
BY DEF Waits

\* How far the shutdown, the boot and the flush have come goes together.
ShutInv ==
  /\ proc \in {"down", "init", "up", "exited", "crashed"} /\ code \in {0, 1}
  /\ boot \in {"none", "scrub", "mint", "record", "invite", "listen", "done", "failed"}
  /\ shut \in {"no", "boot", "flush", "close", "closed"} /\ signalled \in BOOLEAN
  /\ checker \in {"off", "first", "armed"} /\ stopped \in BOOLEAN
  /\ flushed \in {"no", "asked", "ok", "failed"} /\ used \subseteq Token
  /\ proc = "init" => shut = "no"
  /\ shut \in {"no", "boot"} <=> flushed = "no"
  /\ shut = "flush" <=> flushed = "asked"
  /\ shut \notin {"no", "boot"} => BootSettled
  /\ shut = "closed" => stopped = TRUE /\ checker # "armed"
  /\ proc = "exited" /\ code = 0 => shut = "closed" /\ boot # "failed"

\* Nothing has happened at the start.
LEMMA InitShut == Init => ShutInv
<1>1. Init => TokensOf(file) \subseteq Token
  BY DEF Init, TokensOf, Token
<1> QED BY <1>1 DEF Init, ShutInv

\* Every step moves them together.
LEMMA ShutStep == ShutInv /\ [Next]_vars => ShutInv'
<1> SUFFICES ASSUME ShutInv, [Next]_vars PROVE ShutInv'
  OBVIOUS
<1> USE DEF ShutInv, BootSettled
<1>t. \A t \in Uplink \union Invite \union Session : used \union {t} \subseteq Token
  BY DEF Token
<1>e. ASSUME NEW how \in {"exited", "crashed"}, Ends(how, 1) PROVE ShutInv'
  BY <1>e DEF Ends, historyVars
<1>1. ASSUME Start PROVE ShutInv'
  BY <1>1 DEF Start
<1>2. ASSUME Crash \/ InitFails \/ SecondSignalInInit \/ CloseFails \/ Expire PROVE ShutInv'
  BY <1>2, <1>e DEF Crash, InitFails, SecondSignalInInit, CloseFails, Expire
<1>3. ASSUME Exit PROVE ShutInv'
  BY <1>3 DEF Exit, Ends, ExitCode, historyVars
<1>4. ASSUME InitDone PROVE ShutInv'
  <2>1. boot' \in {"mint", "scrub", "invite"}
    BY <1>4 DEF InitDone, BeginBoot, ToInvite
  <2> QED BY <1>4, <2>1 DEF InitDone, historyVars
<1>5. ASSUME SignalInInit PROVE ShutInv'
  BY <1>5 DEF SignalInInit, historyVars
<1>6. ASSUME Signal PROVE ShutInv'
  BY <1>6 DEF Signal, AskFlush, FlushAsked
<1>7. ASSUME CloseHook PROVE ShutInv'
  BY <1>7 DEF CloseHook, historyVars
<1>8. ASSUME FirstCheck PROVE ShutInv'
  BY <1>8 DEF FirstCheck, Armed, historyVars
<1>9. ASSUME OperatorClears \/ Tighten \/ Tick \/ Writing \/ NobodyWaited \/ UNCHANGED vars PROVE ShutInv'
  BY <1>9 DEF OperatorClears, Tighten, Tick, Writing, NobodyWaited, vars, processVars, historyVars
<1>10. ASSUME (\E u \in Uplink : FinishMint(u)) \/ (\E i \in Invite : FinishInvite(i)) PROVE ShutInv'
  <2>1. ASSUME NEW u \in Uplink, FinishMint(u) PROVE ShutInv'
    BY <2>1, <1>t DEF FinishMint
  <2>2. ASSUME NEW i \in Invite, FinishInvite(i) PROVE ShutInv'
    BY <2>2, <1>t DEF FinishInvite
  <2> HIDE DEF ShutInv
  <2> QED BY <1>10, <2>1, <2>2
<1>11. ASSUME (\E t \in Token : Revoke(t)) \/ (\E i \in Invite, s \in Session : Redeem(i, s)) PROVE ShutInv'
  <2>1. ASSUME NEW t \in Token, Revoke(t) PROVE ShutInv'
    BY <2>1 DEF Revoke, TokensBecome
  <2>2. ASSUME NEW i \in Invite, NEW t \in Session, Redeem(i, t) PROVE ShutInv'
    BY <2>2, <1>t DEF Redeem
  <2> HIDE DEF ShutInv
  <2> QED BY <1>11, <2>1, <2>2
<1>12. ASSUME ListenDone PROVE ShutInv'
  BY <1>12 DEF ListenDone, AskFlush, FlushAsked
<1>13. ASSUME ListenFails PROVE ShutInv'
  BY <1>13, <1>e DEF ListenFails, AskFlush, FlushAsked
<1>14. ASSUME BootWritten PROVE ShutInv'
  BY <1>14 DEF BootWritten, ToInvite
<1>15. ASSUME BootNotWritten PROVE ShutInv'
  BY <1>15, <1>e DEF BootNotWritten, FlushAsked
<1>16. ASSUME FlushWritten PROVE ShutInv'
  BY <1>16 DEF FlushWritten
<1> HIDE DEF ShutInv
<1> QED
  BY <1>1, <1>2, <1>3, <1>4, <1>5, <1>6, <1>7, <1>8, <1>9, <1>10, <1>11, <1>12, <1>13, <1>14, <1>15, <1>16
  DEF Next, Begins, Goes, Stops, WriteEnds

\* What is owed is neither in memory from the flush on, nor behind it in the queue, nor in
\* the file once the flush was written.
OwedInv ==
  /\ owed \subseteq used
  /\ flushed # "no" => owed \intersect mem.tokens = {}
  /\ flushed = "ok" => owed \intersect TokensOf(file) = {} /\ Clear(chain, owed)
  /\ Waits(chain, owed, shut, boot)

\* Writes that nobody waits for, of what owes nothing if a flush was asked for.
LEMMA OfNobody ==
  ASSUME NEW c \in Seq(Request), NEW o, NEW s, NEW b, Waits(c, o, s, b),
         NEW f, s = "flush" => f # "no",
         NEW d \in GoodContent, f # "no" => o \intersect d.tokens = {},
         NEW e \in GoodContent, f # "no" => o \intersect e.tokens = {}
  PROVE  /\ Waits(c \o <<Job(d, "nobody")>>, o, s, b)
         /\ Waits(c \o <<Job(d, "nobody"), Job(e, "nobody")>>, o, s, b)
         /\ f # "no" /\ Clear(c, o) =>
              /\ Clear(c \o <<Job(d, "nobody")>>, o)
              /\ Clear(c \o <<Job(d, "nobody"), Job(e, "nobody")>>, o)
<1> DEFINE one == Append(c, Job(d, "nobody"))
           two == Append(one, Job(e, "nobody"))
<1>1. "nobody" \in Requester
  BY DEF Requester
<1>2. one \in Seq(Request) /\ one = c \o <<Job(d, "nobody")>> /\ Waits(one, o, s, b)
  BY <1>1, OneMore
<1>3. Clear(c, o) /\ f # "no" => Clear(one, o)
  BY <1>1, OneMore
<1> HIDE DEF one
<1>4. Waits(two, o, s, b)
  BY <1>1, <1>2, OneMore
<1>5. Clear(one, o) /\ f # "no" => Clear(two, o)
  BY <1>1, <1>2, OneMore
<1>6. two = c \o <<Job(d, "nobody"), Job(e, "nobody")>>
  <2>1. Job(d, "nobody") \in Request /\ Job(e, "nobody") \in Request
    BY <1>1, Jobs
  <2> QED BY <1>2, <2>1
<1> QED BY <1>2, <1>3, <1>4, <1>5, <1>6

\* The steps that ask for no write of anybody, or of nobody.
LEMMA AskedOwed ==
  ASSUME DiskInv, ShutInv, OwedInv, UNCHANGED <<owed, flushed>>, used \subseteq used',
         TokensOf(file)' = TokensOf(file),
         shut' = shut \/ {shut, shut'} \intersect {"flush"} = {},
         boot' = boot \/ {boot, boot'} \intersect {"scrub", "record"} = {},
         flushed # "no" => owed \intersect mem'.tokens = {},
         NEW d \in GoodContent, flushed # "no" => owed \intersect d.tokens = {},
         NEW e \in GoodContent, flushed # "no" => owed \intersect e.tokens = {},
         \/ chain' = chain \/ chain' = <<>>
         \/ Queue(<<Job(d, "nobody")>>)
         \/ Queue(<<Job(d, "nobody"), Job(e, "nobody")>>)
  PROVE  OwedInv'
<1>1. chain \in Seq(Request) /\ Waits(chain, owed, shut, boot) /\ (shut = "flush" => flushed # "no")
  BY DEF DiskInv, DiskCore, ShutInv, OwedInv
<1>2. Waits(<<>>, owed, shut, boot) /\ Clear(<<>>, owed)
  BY DEF Waits, Clear
<1> DEFINE one == chain \o <<Job(d, "nobody")>>
           two == chain \o <<Job(d, "nobody"), Job(e, "nobody")>>
<1>3. /\ Waits(one, owed, shut, boot) /\ Waits(two, owed, shut, boot)
      /\ flushed # "no" /\ Clear(chain, owed) => Clear(one, owed) /\ Clear(two, owed)
  BY <1>1, OfNobody
<1>4. chain' = chain \/ chain' = <<>> \/ chain' = one \/ chain' = two
  BY DEF Queue
<1> HIDE DEF one, two
<1>5. Waits(chain', owed, shut, boot)
  BY <1>1, <1>2, <1>3, <1>4
<1>6. flushed # "no" /\ Clear(chain, owed) => Clear(chain', owed)
  BY <1>2, <1>3, <1>4
<1>7. Waits(chain', owed, shut', boot)
  BY <1>5, Elsewhere
<1>8. Waits(chain', owed, shut', boot')
  BY <1>7, Elsewhere
<1>9. flushed = "ok" => Clear(chain', owed)
  BY <1>6 DEF OwedInv
<1> QED BY <1>8, <1>9 DEF OwedInv

\* The flush is asked for, by a signal or by the end of the boot that it waited for.
LEMMA FlushOwed ==
  ASSUME DiskInv, OwedInv, FlushAsked, shut # "flush", UNCHANGED <<mem, used>>,
         TokensOf(file)' = TokensOf(file),
         \/ Queue(<<Job(mem, "flush")>>) /\ (boot' = boot \/ {boot, boot'} \intersect {"scrub", "record"} = {})
         \/ Fails(<<Job(mem, "flush")>>) /\ Head(chain).for = "boot"
  PROVE  OwedInv'
<1>1. chain \in Seq(Request) /\ mem \in GoodContent /\ Waits(chain, owed, shut, boot) /\ "flush" \in Requester
  BY DEF DiskInv, DiskCore, OwedInv, Requester
<1>2. owed' \subseteq used' /\ flushed' = "asked" /\ shut' = "flush" /\ owed' \intersect mem.tokens = {}
  BY DEF FlushAsked
<1>3. ASSUME NEW c \in Seq(Request), Waits(c, owed, shut, boot')
      PROVE  Waits(c \o <<Job(mem, "flush")>>, owed', "flush", boot')
  <2>1. Append(c, Job(mem, "flush")) = c \o <<Job(mem, "flush")>>
    BY <1>1, <1>3, OneMore
  <2>2. \A p : p \intersect mem.tokens = {} => Waits(Append(c, Job(mem, "flush")), p, "flush", boot')
    BY <1>1, <1>3, OneMore
  <2> QED BY <1>2, <2>1, <2>2
<1>4. CASE /\ Queue(<<Job(mem, "flush")>>)
           /\ boot' = boot \/ {boot, boot'} \intersect {"scrub", "record"} = {}
  <2>1. Waits(chain, owed, shut, boot')
    BY <1>1, <1>4, Elsewhere
  <2>2. Waits(chain', owed', "flush", boot')
    BY <1>1, <1>3, <1>4, <2>1 DEF Queue
  <2> QED BY <1>2, <2>2 DEF OwedInv
<1>5. CASE Fails(<<Job(mem, "flush")>>) /\ Head(chain).for = "boot"
  <2>1. chain # <<>> /\ chain' = Tail(chain) \o <<Job(mem, "flush")>>
    BY <1>5 DEF Fails, Ended, DiskInv, DiskCore
  <2>2. Tail(chain) \in Seq(Request) /\ Waits(Tail(chain), owed, shut, boot')
    BY <1>1, <1>5, <2>1, OneLess
  <2>3. Waits(chain', owed', "flush", boot')
    BY <1>3, <2>1, <2>2
  <2> QED BY <1>2, <2>3 DEF OwedInv
<1> QED BY <1>4, <1>5

\* A write ends that nobody waited for, or the flush.
LEMMA EndedOwed ==
  ASSUME DiskInv, ShutInv, OwedInv, NobodyWaited \/ FlushWritten
  PROVE  OwedInv'
<1>1. /\ chain \in Seq(Request) /\ chain # <<>> /\ Waits(chain, owed, shut, boot)
      /\ Lands(<<>>) \/ Fails(<<>>)
      /\ UNCHANGED <<mem, boot, used, owed>>
  BY DEF DiskInv, DiskCore, OwedInv, NobodyWaited, FlushWritten, WaitedForBy, processVars
<1>2. /\ Tail(chain) \in Seq(Request) /\ Waits(Tail(chain), owed, shut, boot)
      /\ Clear(chain, owed) => Clear(Tail(chain), owed) /\ owed \intersect Head(chain).data.tokens = {}
  BY <1>1, OneLess
<1>3. chain' = Tail(chain)
  <2>1. chain' = Tail(chain) \o <<>>
    BY <1>1 DEF Lands, Fails, Ended
  <2> QED BY <1>2, <2>1
<1>4. /\ Lands(<<>>) => TokensOf(file)' = Head(chain).data.tokens
      /\ Fails(<<>>) => TokensOf(file)' = TokensOf(file)
  BY LandedTokens DEF Fails, diskVars, TokensOf
<1>5. CASE NobodyWaited
  <2>1. UNCHANGED <<shut, flushed>>
    BY <1>5 DEF NobodyWaited, processVars
  <2> QED BY <1>1, <1>2, <1>3, <1>4, <2>1 DEF OwedInv
<1>6. CASE FlushWritten
  <2>1. Head(chain).for = "flush" /\ flushed = "asked"
    BY <1>6 DEF FlushWritten, WaitedForBy, ShutInv
  <2>2. /\ Clear(Tail(chain), owed) /\ owed \intersect Head(chain).data.tokens = {}
        /\ Waits(Tail(chain), owed, shut', boot)
    BY <1>1, <2>1, OneLess
  <2>3. flushed' = "ok" => TokensOf(file)' = Head(chain).data.tokens
    BY <1>4, <1>6 DEF FlushWritten
  <2> QED BY <1>1, <1>2, <1>3, <2>1, <2>2, <2>3 DEF OwedInv
<1> QED BY <1>5, <1>6

\* The boot goes on until its next write, and no flush has been asked for.
LEMMA BootOwed ==
  ASSUME DiskInv, ShutInv, TokenInv, OwedInv,
         InitDone \/ BootWritten \/ \E u \in Uplink : FinishMint(u)
  PROVE  OwedInv'
<1>1. /\ chain \in Seq(Request) /\ Waits(chain, owed, shut, boot) /\ mem \in GoodContent
      /\ owed \subseteq used
  BY DEF DiskInv, DiskCore, OwedInv
<1>2. flushed = "no" /\ shut \in {"no", "boot"} /\ shut' \in {"no", "boot"} /\ UNCHANGED <<owed, flushed>>
  BY DEF InitDone, BootWritten, FinishMint, ShutInv, BootSettled, historyVars
<1>3. SUFFICES owed \subseteq used' /\ Waits(chain', owed, shut, boot')
  <2>1. Waits(chain', owed, shut, boot') => Waits(chain', owed, shut', boot')
    BY <1>2, Elsewhere
  <2> QED BY <1>2, <2>1 DEF OwedInv
<1>4. ASSUME NEW c \in Seq(Request), NEW b, Waits(c, owed, shut, b), NEW d \in GoodContent
      PROVE  /\ Waits(c \o <<Job(d, "nobody")>>, owed, shut, b)
             /\ c \o <<Job(d, "nobody")>> \in Seq(Request)
             /\ b \in {"none", "mint"} => /\ Waits(c \o <<Job(d, "boot")>>, owed, shut, "scrub")
                                          /\ Waits(c \o <<Job(d, "boot")>>, owed, shut, "record")
  <2>1. \A w \in Requester : /\ Append(c, Job(d, w)) \in Seq(Request)
                             /\ Append(c, Job(d, w)) = c \o <<Job(d, w)>>
    BY <1>4, OneMore
  <2>2. Waits(Append(c, Job(d, "nobody")), owed, shut, b)
    BY <1>2, <1>4, OneMore
  <2>3. b \notin {"scrub", "record"} =>
          \A e \in {"scrub", "record"} : Waits(Append(c, Job(d, "boot")), owed, shut, e)
    BY <1>2, <1>4, OneMore
  <2>4. "nobody" \in Requester /\ "boot" \in Requester
    BY DEF Requester
  <2>5. b \in {"none", "mint"} => b \notin {"scrub", "record"}
    OBVIOUS
  <2> QED BY <2>1, <2>2, <2>3, <2>4, <2>5
<1>5. ASSUME InitDone PROVE owed \subseteq used' /\ Waits(chain', owed, shut, boot')
  <2>1. /\ chain = <<>> /\ used' = used
        /\ BeginBoot(IF file = NoFile THEN Default ELSE file)
        /\ (IF file = NoFile THEN Default ELSE file) \in GoodContent
    BY <1>5, Contents DEF InitDone, TokenInv, historyVars, DiskInv, DiskCore
  <2>2. mem' \in GoodContent
    BY <2>1, BootSteps
  <2>3. \A b : Waits(<<>>, owed, shut, b)
    BY DEF Waits
  <2>4. \/ Queue(<<>>) \/ Queue(<<Job(mem', "nobody")>>)
        \/ Queue(<<Job(mem', "boot")>>) /\ boot' = "scrub"
    BY <2>1 DEF BeginBoot, Saved
  <2>5. ASSUME Queue(<<>>) PROVE Waits(chain', owed, shut, boot')
    BY <2>1, <2>3, <2>5 DEF Queue
  <2>6. ASSUME Queue(<<Job(mem', "nobody")>>) PROVE Waits(chain', owed, shut, boot')
    BY <1>1, <1>4, <2>1, <2>2, <2>3, <2>6 DEF Queue
  <2>7. ASSUME Queue(<<Job(mem', "boot")>>), boot' = "scrub" PROVE Waits(chain', owed, shut, boot')
    <3>1. Waits(chain, owed, shut, "none")
      BY <2>1, <2>3
    <3>2. Waits(chain \o <<Job(mem', "boot")>>, owed, shut, "scrub")
      BY <1>1, <1>4, <2>2, <3>1
    <3> QED BY <2>7, <3>2 DEF Queue
  <2> QED BY <1>1, <2>1, <2>4, <2>5, <2>6, <2>7
<1>6. ASSUME BootWritten PROVE owed \subseteq used' /\ Waits(chain', owed, shut, boot')
  <2>1. /\ chain # <<>> /\ Head(chain).for = "boot" /\ boot' = "invite" /\ used' = used
        /\ chain' = Tail(chain) \o Saved(mem, mem')
    BY <1>6 DEF BootWritten, WaitedForBy, ToInvite, Lands, Ended
  <2>2. Tail(chain) \in Seq(Request) /\ Waits(Tail(chain), owed, shut, boot')
    BY <1>1, <2>1, OneLess
  <2>3. mem' \in GoodContent
    BY <1>6, <1>1, Contents DEF BootWritten, ToInvite
  <2>4. Waits(Tail(chain) \o <<>>, owed, shut, boot')
    BY <2>2
  <2>5. Waits(Tail(chain) \o <<Job(mem', "nobody")>>, owed, shut, boot')
    BY <1>4, <2>2, <2>3
  <2> QED BY <1>1, <2>1, <2>4, <2>5 DEF Saved
<1>7. ASSUME NEW u \in Uplink, FinishMint(u) PROVE owed \subseteq used' /\ Waits(chain', owed, shut, boot')
  <2> DEFINE d == With(mem, u)
             c == chain \o <<Job(d, "nobody")>>
  <2>1. /\ boot = "mint" /\ boot' = "record" /\ used' = used \union {u}
        /\ mem' = Recorded(d, u) /\ chain' = chain \o <<Job(d, "nobody"), Job(mem', "boot")>>
    BY <1>7 DEF FinishMint, MintJobs, Queue
  <2>2. d \in GoodContent /\ mem' \in GoodContent
    BY <1>1, <2>1, Contents DEF DiskInv, BootInv
  <2>3. chain' = c \o <<Job(mem', "boot")>>
    <3>1. Job(d, "nobody") \in Request /\ Job(mem', "boot") \in Request
      BY <2>2, Jobs DEF Requester
    <3>2. ASSUME NEW a \in Request, NEW b \in Request
          PROVE  chain \o <<a, b>> = (chain \o <<a>>) \o <<b>>
      <4>1. chain \o <<a>> = Append(chain, a) /\ Append(chain, a) \in Seq(Request)
        BY <1>1
      <4>2. Append(chain, a) \o <<b>> = Append(Append(chain, a), b)
        BY <4>1
      <4>3. chain \o <<a, b>> = Append(Append(chain, a), b)
        BY <1>1
      <4> QED BY <4>1, <4>2, <4>3
    <3> QED BY <2>1, <3>1, <3>2
  <2> HIDE DEF d
  <2>4. c \in Seq(Request) /\ Waits(c, owed, shut, boot)
    BY <1>1, <1>4, <2>2
  <2> HIDE DEF c
  <2>5. Waits(c \o <<Job(mem', "boot")>>, owed, shut, "record")
    BY <1>4, <2>1, <2>2, <2>4
  <2> QED BY <1>1, <2>1, <2>3, <2>5
<1> QED BY <1>5, <1>6, <1>7

\* Every step of a process, and what happens between two of them.
LEMMA OwedStep == DiskInv /\ ShutInv /\ TokenInv /\ OwedInv /\ [Next]_vars => OwedInv'
<1> SUFFICES ASSUME DiskInv, ShutInv, TokenInv, OwedInv, [Next]_vars PROVE OwedInv'
  OBVIOUS
<1>1. mem \in GoodContent /\ (flushed # "no" => owed \intersect mem.tokens = {})
  BY DEF DiskInv, OwedInv
<1>2. ASSUME UNCHANGED <<owed, flushed, used, mem>>, TokensOf(file)' = TokensOf(file),
             chain' = chain \/ chain' = <<>>,
             shut' = shut \/ {shut, shut'} \intersect {"flush"} = {},
             boot' = boot \/ {boot, boot'} \intersect {"scrub", "record"} = {}
      PROVE  OwedInv'
  BY <1>1, <1>2, AskedOwed
<1>3. ASSUME UNCHANGED <<mem, used>>, TokensOf(file)' = TokensOf(file), FlushAsked, shut # "flush",
             Queue(<<Job(mem, "flush")>>),
             boot' = boot \/ {boot, boot'} \intersect {"scrub", "record"} = {}
      PROVE  OwedInv'
  BY <1>3, FlushOwed
<1>4. ASSUME NEW how, NEW c, Ends(how, c) PROVE OwedInv'
  BY <1>2, <1>4 DEF Ends, Lost, diskVars, historyVars, TokensOf
<1>5. ASSUME Start PROVE OwedInv'
  <2>1. chain' = <<>> /\ owed' = {} /\ flushed' = "no"
    BY <1>5 DEF Start, storageVars, DiskInv
  <2> QED BY <2>1 DEF OwedInv, Waits
<1>6. ASSUME Crash \/ InitFails \/ SecondSignalInInit \/ CloseFails \/ Exit \/ Expire PROVE OwedInv'
  BY <1>4, <1>6 DEF Crash, InitFails, SecondSignalInInit, CloseFails, Exit, Expire
<1>7. ASSUME OperatorClears PROVE OwedInv'
  BY <1>2, <1>7, ClearsTokens DEF OperatorClears, processVars, historyVars
<1>8. ASSUME Tighten \/ SignalInInit \/ CloseHook \/ FirstCheck \/ Tick \/ Writing \/ UNCHANGED vars
      PROVE  OwedInv'
  <2>1. /\ UNCHANGED <<owed, flushed, used, mem, file, chain, boot>>
        /\ shut' = shut \/ {shut, shut'} \intersect {"flush"} = {}
    BY <1>8 DEF Tighten, Tightened, SignalInInit, CloseHook, FirstCheck, Tick, Writing, Unlink, Create, Fill,
                vars, processVars, historyVars, storageVars, diskVars
  <2> QED BY <1>2, <2>1 DEF TokensOf
<1>9. ASSUME Signal PROVE OwedInv'
  <2>1. /\ UNCHANGED <<mem, used, boot>> /\ shut = "no"
        /\ \/ FlushAsked /\ Queue(<<Job(mem, "flush")>>)
           \/ shut' = "boot" /\ Quiet /\ UNCHANGED <<flushed, owed>>
    BY <1>9 DEF Signal, AskFlush
  <2>2. TokensOf(file)' = TokensOf(file) /\ (Quiet => chain' = chain)
    BY <2>1 DEF Queue, Quiet, storageVars, diskVars, TokensOf
  <2> QED BY <1>2, <1>3, <2>1, <2>2
<1>10. ASSUME ListenDone PROVE OwedInv'
  <2>1. /\ UNCHANGED <<mem, used>> /\ boot = "listen" /\ boot' = "done"
        /\ \/ FlushAsked /\ Queue(<<Job(mem, "flush")>>) /\ shut = "boot"
           \/ Quiet /\ UNCHANGED <<shut, flushed, owed>>
    BY <1>10 DEF ListenDone, AskFlush
  <2>2. TokensOf(file)' = TokensOf(file) /\ (Quiet => chain' = chain)
    BY <2>1 DEF Queue, Quiet, storageVars, diskVars, TokensOf
  <2>3. {boot, boot'} \intersect {"scrub", "record"} = {}
    BY <2>1
  <2> QED BY <1>2, <1>3, <2>1, <2>2, <2>3
<1>11. ASSUME ListenFails PROVE OwedInv'
  <2>1. CASE shut = "boot"
    <3>1. /\ UNCHANGED <<mem, used>> /\ boot = "listen" /\ boot' = "failed"
          /\ FlushAsked /\ Queue(<<Job(mem, "flush")>>)
      BY <1>11, <2>1 DEF ListenFails, AskFlush
    <3>2. TokensOf(file)' = TokensOf(file) /\ {boot, boot'} \intersect {"scrub", "record"} = {}
      BY <3>1 DEF Queue, diskVars, TokensOf
    <3> QED BY <1>3, <2>1, <3>1, <3>2
  <2>2. CASE shut # "boot"
    BY <1>4, <1>11, <2>2 DEF ListenFails
  <2> QED BY <2>1, <2>2
<1>12. ASSUME NEW i \in Invite, FinishInvite(i) PROVE OwedInv'
  <2>1. /\ boot = "invite" /\ boot' = "listen" /\ used' = used \union {i} /\ mem' = With(mem, i)
        /\ UNCHANGED <<shut, owed, flushed>> /\ Queue(<<Job(mem', "nobody")>>)
    BY <1>12 DEF FinishInvite
  <2>2. flushed = "no"
    BY <2>1 DEF ShutInv, BootSettled
  <2>3. mem' \in GoodContent
    BY <1>1, <2>1, Contents
  <2>4. TokensOf(file)' = TokensOf(file) /\ {boot, boot'} \intersect {"scrub", "record"} = {}
    BY <2>1 DEF Queue, diskVars, TokensOf
  <2> QED BY <2>1, <2>2, <2>3, <2>4, AskedOwed
<1>13. ASSUME NEW t \in Token, Revoke(t) PROVE OwedInv'
  <2>1. /\ t \in Invite \union Session /\ mem' = Without(mem, {t})
        /\ UNCHANGED <<shut, boot, used, owed, flushed>> /\ Queue(<<Job(mem', "nobody")>>)
    BY <1>13 DEF Revoke, TokensBecome, Token
  <2>2. mem' \in GoodContent
    BY <1>1, <2>1, Contents
  <2>3. mem'.tokens \subseteq mem.tokens
    BY <1>1, <2>1, <2>2 DEF Without, GoodContent, Content
  <2>4. flushed # "no" => owed \intersect mem'.tokens = {}
    BY <1>1, <2>3
  <2>5. TokensOf(file)' = TokensOf(file)
    BY <2>1 DEF Queue, diskVars, TokensOf
  <2> QED BY <2>1, <2>2, <2>4, <2>5, AskedOwed
<1>14. ASSUME NEW i \in Invite, NEW t \in Session, Redeem(i, t) PROVE OwedInv'
  <2> DEFINE d == With(mem, t)
  <2>1. /\ t \notin used /\ used' = used \union {t} /\ mem' = Without(d, {i})
        /\ UNCHANGED <<shut, boot, owed, flushed>>
        /\ Queue(<<Job(d, "nobody"), Job(mem', "nobody")>>)
    BY <1>14 DEF Redeem
  <2>2. d \in GoodContent /\ mem' \in GoodContent
    BY <1>1, <2>1, Contents
  <2>3. d.tokens = mem.tokens \union {t}
    BY <1>1 DEF With, GoodContent, Content
  <2> HIDE DEF d
  <2>4. mem'.tokens \subseteq d.tokens
    BY <2>1, <2>2 DEF Without, GoodContent, Content
  <2>5. t \notin owed
    BY <2>1 DEF OwedInv
  <2>6. flushed # "no" => owed \intersect d.tokens = {} /\ owed \intersect mem'.tokens = {}
    BY <1>1, <2>3, <2>4, <2>5
  <2>7. TokensOf(file)' = TokensOf(file)
    BY <2>1 DEF Queue, diskVars, TokensOf
  <2> QED BY <2>1, <2>2, <2>6, <2>7, AskedOwed
<1>15. ASSUME BootNotWritten PROVE OwedInv'
  <2>1. CASE shut = "boot"
    <3>1. /\ FlushAsked /\ Fails(<<Job(mem, "flush")>>) /\ Head(chain).for = "boot"
          /\ UNCHANGED <<mem, used>>
      BY <1>15, <2>1 DEF BootNotWritten, WaitedForBy
    <3>2. TokensOf(file)' = TokensOf(file)
      BY <3>1 DEF Fails, diskVars, TokensOf
    <3> QED BY <2>1, <3>1, <3>2, FlushOwed
  <2>2. CASE shut # "boot"
    BY <1>4, <1>15, <2>2 DEF BootNotWritten
  <2> QED BY <2>1, <2>2
<1> QED
  BY <1>5, <1>6, <1>7, <1>8, <1>9, <1>10, <1>11, <1>12, <1>13, <1>14, <1>15, BootOwed, EndedOwed
  DEF Next, Begins, Goes, Stops, WriteEnds

\* Nobody owes at the start.
LEMMA InitOwed == Init => OwedInv
BY DEF Init, OwedInv, Waits

\* All of it together.
LEMMA ProcessInvariant == Spec => [](DiskInv /\ TokenInv /\ ClockInv /\ ShutInv /\ OwedInv)
BY InitDisk, InitTokens, InitClock, InitShut, InitOwed, DiskStep, TokenStep, ClockStep, ShutStep, OwedStep, PTL
DEF Spec

\* A shutdown comes to its end within its deadline, an exit that tells of no failure left
\* nothing in the file that was revoked before the flush, and no poll goes on behind it
\* (bootstrap.ts:372-402, 434-437).
THEOREM ShutdownsTell == Spec => []ShutdownTells
<1>1. ShutInv /\ OwedInv => CleanExit
  BY DEF ShutInv, OwedInv, BootSettled, CleanExit
<1>2. ShutInv => NoPollBehindClose
  BY DEF ShutInv, NoPollBehindClose
<1> QED BY <1>1, <1>2, DeadlineHolds, ProcessInvariant, PTL DEF ShutdownTells

\* Every variable of a process keeps to its type, and who waits for a write is there.
THEOREM LifeTypeCorrect == Spec => []LifeTypeOK
<1>1. DiskInv => StorageInv /\ mem \in Content /\ chain \in Seq(Request)
  BY CoreIsStorageInv DEF DiskInv, DiskCore, GoodContent
<1>2. OwedInv /\ DiskInv => \A i \in 1 .. Len(chain) :
                              /\ chain[i].for = "boot" => boot \in {"scrub", "record"}
                              /\ chain[i].for = "flush" => shut = "flush"
  BY <1>1 DEF OwedInv, Waits
<1>3. DiskInv /\ ClockInv /\ ShutInv /\ OwedInv /\ TokenInv => LifeTypeOK
  BY <1>1, <1>2 DEF ClockInv, ShutInv, OwedInv, TokenInv, LifeTypeOK
<1> QED BY <1>3, ProcessInvariant, PTL

-----------------------------------------------------------------------------
(* The limits of the routes.                                               *)

\* What counts against the strict budget is what it has let through, and only what
\* verifies is remembered.
ScryptInv ==
  /\ counted \in [Key -> Nat] /\ remembered \subseteq Good /\ pending \subseteq Credential
  /\ request \in [Call -> [phase : {"none", "admitted", "verifying"}, route : Route,
                           credential : Credential \union {NoCredential}, derives : BOOLEAN]]
  /\ windowAdmitted \in Nat /\ windowAdmitted <= counted["derive"]
  /\ counted["derive"] <= AuthMax
  /\ refused = FALSE

\* What the bucket still gives, and what it gave beyond what has been refilled since, fit
\* into it.
BucketInv ==
  /\ {clock, lastRefill, tokens, excess, back} \subseteq Nat
  /\ tokens <= Capacity /\ excess + Refilled <= Capacity

\* The limiter: one step for each action.
LEMMA ScryptStep == ScryptInv /\ [ScryptNext]_limitVars => ScryptInv'
<1> SUFFICES ASSUME ScryptInv, [ScryptNext]_limitVars PROVE ScryptInv'
  OBVIOUS
<1> USE LimitAssumption DEF ScryptInv
<1>1. ASSUME NEW r \in Call, NEW route \in Route, NEW c \in Credential \union {NoCredential},
             Arrive(r, route, c)
      PROVE  ScryptInv'
  <2> DEFINE derives == Derives(route, c)
             key == KeyOf(derives)
             fits == counted[key] < MaxOf(derives)
  <2>1. /\ counted' = IF fits THEN [counted EXCEPT ![key] = @ + 1] ELSE counted
        /\ request' = IF fits
                      THEN [request EXCEPT ![r] = [phase |-> "admitted", route |-> route,
                                                   credential |-> c, derives |-> derives]]
                      ELSE request
        /\ windowAdmitted' = IF fits /\ derives THEN windowAdmitted + 1 ELSE windowAdmitted
        /\ refused' = (~ fits /\ route # "invite" /\ c \in remembered
                       /\ counted["verified"] < GlobalMax)
        /\ UNCHANGED <<remembered, pending>>
    BY <1>1 DEF Arrive
  <2>2. derives \in BOOLEAN
    BY DEF Derives
  <2>3. key \in Key /\ (derives => key = "derive" /\ MaxOf(derives) = AuthMax)
        /\ (~ derives => key = "verified" /\ MaxOf(derives) = GlobalMax)
    BY DEF KeyOf, MaxOf, Key
  <2>4. route # "invite" /\ c \in remembered => ~ derives
    BY DEF Derives
  <2> HIDE DEF derives, key
  <2>5. refused' = FALSE
    BY <2>1, <2>3, <2>4
  <2>6. request' \in [Call -> [phase : {"none", "admitted", "verifying"}, route : Route,
                               credential : Credential \union {NoCredential}, derives : BOOLEAN]]
    BY <2>1, <2>2
  <2>7. /\ counted' \in [Key -> Nat]
        /\ windowAdmitted' \in Nat /\ windowAdmitted' <= counted'["derive"]
        /\ counted'["derive"] <= AuthMax
    BY <2>1, <2>2, <2>3 DEF Key
  <2> QED BY <2>1, <2>5, <2>6, <2>7
<1>2. ASSUME NEW r \in Call, Verify(r) PROVE ScryptInv'
  BY <1>2 DEF Verify, Absent, Route
<1>3. ASSUME NEW c \in Credential, Settle(c) PROVE ScryptInv'
  <2>1. Absent \in [phase : {"none", "admitted", "verifying"}, route : Route,
                    credential : Credential \union {NoCredential}, derives : BOOLEAN]
    BY DEF Absent, Route
  <2> QED BY <1>3, <2>1 DEF Settle
<1>4. ASSUME NEW forgotten \in SUBSET remembered, Forget(forgotten) PROVE ScryptInv'
  BY <1>4 DEF Forget
<1>5. ASSUME WindowEnds PROVE ScryptInv'
  BY <1>5 DEF WindowEnds, Key
<1>6. ASSUME UNCHANGED limitVars PROVE ScryptInv'
  BY <1>6 DEF limitVars
<1> QED BY <1>1, <1>2, <1>3, <1>4, <1>5, <1>6 DEF ScryptNext

\* The bucket: when the clock goes on, what is owed goes down by what comes in.
LEMMA BucketStep == BucketInv /\ [BucketNext]_bucketVars => BucketInv'
<1> SUFFICES ASSUME BucketInv, [BucketNext]_bucketVars PROVE BucketInv'
  OBVIOUS
<1> USE BucketAssumption DEF BucketInv, Refilled, Least
<1>1. ASSUME InboundMessage PROVE BucketInv'
  BY <1>1 DEF InboundMessage
<1>2. ASSUME ClockTicks PROVE BucketInv'
  BY <1>2 DEF ClockTicks
<1>3. ASSUME SetBack PROVE BucketInv'
  BY <1>3 DEF SetBack
<1>4. ASSUME UNCHANGED bucketVars PROVE BucketInv'
  BY <1>4 DEF bucketVars
<1> QED BY <1>1, <1>2, <1>3, <1>4 DEF BucketNext

\* Both, side by side.
LEMMA LimitsInvariant == LimitsSpec => [](ScryptInv /\ BucketInv)
<1>1. LimitsInit => ScryptInv /\ BucketInv
  BY LimitAssumption, BucketAssumption
  DEF LimitsInit, ScryptInv, BucketInv, Refilled, Absent, Route, Key
<1>2. /\ ScryptInv /\ BucketInv
      /\ [(ScryptNext /\ UNCHANGED bucketVars) \/ (BucketNext /\ UNCHANGED limitVars)]_<<limitVars, bucketVars>>
      => [ScryptNext]_limitVars /\ [BucketNext]_bucketVars
  OBVIOUS
<1> QED BY <1>1, <1>2, ScryptStep, BucketStep, PTL DEF LimitsSpec

\* The state of the limits has its types.
THEOREM LimitsTypeCorrect == LimitsSpec => []LimitsTypeOK
<1>1. ScryptInv /\ BucketInv => LimitsTypeOK
  BY DEF ScryptInv, BucketInv, LimitsTypeOK
<1> QED BY <1>1, LimitsInvariant, PTL

\* No address derives more than its budget, nobody whose credential is remembered is turned
\* away for it (#735, #821), and no sender gets through more than a burst and what the time
\* refills, whatever the budgets and however the clock is set back.
THEOREM LimitsKept == LimitsSpec => []LimitsHold
<1>1. ScryptInv /\ BucketInv => LimitsHold
  <2> SUFFICES ASSUME ScryptInv, BucketInv PROVE LimitsHold
    OBVIOUS
  <2>1. BudgetsApart
    BY LimitAssumption DEF ScryptInv, BudgetsApart, Key
  <2>2. BurstsBounded
    <3>1. Refilled \in Nat
      BY BucketAssumption DEF BucketInv, Refilled, Least
    <3>2. excess \in Nat /\ excess + Refilled <= Capacity
      BY DEF BucketInv
    <3> QED BY <3>1, <3>2, BucketAssumption DEF BurstsBounded
  <2> QED BY <2>1, <2>2 DEF LimitsHold
<1> QED BY <1>1, LimitsInvariant, PTL

-----------------------------------------------------------------------------
(* The two as they are explored.                                           *)

\* A behaviour of the instance is one of the process and one of the limits.
LEMMA BothParts == MCSpec => Spec /\ LimitsSpec
<1>1. MCInit => Init /\ LimitsInit
  BY DEF MCInit
<1>2. [MCNext]_<<vars, starts, limitVars, bucketVars, part>> => [Next]_vars
  BY DEF MCNext, LifeNext
<1>3. [MCNext]_<<vars, starts, limitVars, bucketVars, part>>
        => [(ScryptNext /\ UNCHANGED bucketVars) \/ (BucketNext /\ UNCHANGED limitVars)]_<<limitVars, bucketVars>>
  BY DEF MCNext
<1> QED BY <1>1, <1>2, <1>3, PTL DEF MCSpec, Spec, LimitsSpec

\* The types of the process and of the limits, in whatever the instance explores.
THEOREM LifeTypesCorrect == MCSpec => []LifeTypesOK
BY BothParts, LifeTypeCorrect, LimitsTypeCorrect, PTL DEF LifeTypesOK
=============================================================================

----------------------------- MODULE ServerLife -----------------------------
(***************************************************************************)
(* The control server from its start to its end: initApp, the boot that    *)
(* makes the first credentials (initialInviteCodes), what is written of    *)
(* them while it serves, the shutdown and its deadline, and the next start *)
(* on the file that the last one left.                                     *)
(*                                                                         *)
(* Operators' commands appear as what they do to the tokens; Auth and      *)
(* ControlServer have the rest.                                            *)
(***************************************************************************)
EXTENDS Storage

CONSTANTS
  Budget,           \* DEFAULT_FORCE_EXIT_MS, in ticks
  Floor             \* the 500 ms of Math.max, in ticks

ASSUME BudgetAssumption == Budget \in Nat /\ Floor \in Nat

VARIABLES
  \* of the process
  proc,             \* down, init, up, exited, crashed
  code,             \* the exit code
  boot,             \* how far the awaited unit of the boot has come
  mem,              \* db.data
  shut,             \* how far the shutdown has come
  signalled,        \* signalDuringInit
  left,             \* ticks to the deadline that is armed, or Unarmed
  checker,          \* the update checker: off, first, armed
  stopped,          \* its flag
  \* what has happened, for the properties
  used,             \* ids drawn so far
  since,            \* ticks since the first signal
  flushed,          \* the last write of the shutdown: no, asked, ok, failed
  owed,             \* tokens gone by then
  gone              \* tokens that have been in the file and then not

processVars == <<proc, code, boot, mem, shut, signalled, left, checker, stopped>>
historyVars == <<used, since, flushed, owed, gone>>

\* The file as whoever reads it sees it.
File == INSTANCE AtomicFile WITH stored <- file, pending <- chain

vars == <<processVars, storageVars, historyVars>>

Unarmed == Budget + Floor + 1

\* defaultData.
Default == [record |-> NoToken, plain |-> FALSE, tokens |-> {}]

TokensOf(f) == IF f = NoFile THEN {} ELSE f.tokens

\* An earlier version may have left its secret, its mode and a half-written file.
Init ==
  /\ proc = "down" /\ code = 0 /\ boot = "none" /\ mem = Default
  /\ shut = "no" /\ signalled = FALSE /\ left = Unarmed /\ checker = "off" /\ stopped = FALSE
  /\ chain = <<>> /\ stage = "idle" /\ temp \in {NoFile, Torn}
  /\ \/ file = NoFile
     \/ \E u \in Uplink : file = [record |-> u, plain |-> TRUE, tokens |-> {u}]
  /\ tempMode = "loose" /\ fileMode = "loose"
  /\ used = TokensOf(file)
  /\ since = 0 /\ flushed = "no" /\ owed = {} /\ gone = {}

-----------------------------------------------------------------------------
Running == proc \in {"init", "up"}

\* What has left the file by this step.
NowGone == gone' = gone \union (TokensOf(file) \ TokensOf(file'))

\* The steps that leave the file alone.
SameFile == UNCHANGED <<diskVars, gone>>

Start ==
  /\ ~Running
  /\ proc' = "init" /\ code' = 0 /\ boot' = "none" /\ mem' = Default
  /\ shut' = "no" /\ signalled' = FALSE /\ left' = Unarmed
  /\ checker' = "off" /\ stopped' = FALSE
  /\ since' = 0 /\ flushed' = "no" /\ owed' = {}
  /\ UNCHANGED <<storageVars, used, gone>>

\* The end of the process takes the queue and every timer with it.
Ends(how, c) ==
  /\ proc' = how
  /\ code' = c
  /\ left' = Unarmed
  /\ Lost
  /\ UNCHANGED <<boot, mem, shut, signalled, checker, stopped, historyVars>>

Crash == Running /\ Ends("crashed", 1)

\* The rotation that logBootstrap describes: the record cleared between two runs.
OperatorClears ==
  /\ ~Running
  /\ file # NoFile /\ file.record # NoToken
  /\ file' = [file EXCEPT !.record = NoToken, !.plain = FALSE]
  /\ UNCHANGED <<processVars, historyVars, chain, stage, temp, tempMode, fileMode>>

-----------------------------------------------------------------------------
(* initialInviteCodes, from one await to the next.                         *)

Without(d, S) == [d EXCEPT !.tokens = @ \ S]
With(d, t) == [d EXCEPT !.tokens = @ \union {t}]

\* The write of every auth state.  One stands for those of a loop of deletions.
Saved(before, after) == IF before = after THEN <<>> ELSE <<Job(after, "nobody")>>

\* Mutant: what an earlier boot made stays good.
BugSuperseded(d) == d

\* Without the uplink tokens that the record does not name.
Superseded(d) == Without(d, Uplink)

\* The invites of earlier boots go, and the derivation of the new one begins.  Those
\* that operators make stay, and are to the file what sessions are: Invite is only
\* what the boots make.
ToInvite(d) == boot' = "invite" /\ mem' = Without(d, Invite)

Valid(d) == d.record # NoToken /\ d.record \in d.tokens

Scrubbed(d) == [d EXCEPT !.plain = FALSE]

BeginBoot(d) ==
  \/ /\ ~Valid(d)
     /\ boot' = "mint"
     /\ mem' = Superseded(d)
     /\ Queue(Saved(d, mem'))
  \/ /\ Valid(d) /\ d.plain
     /\ boot' = "scrub"
     /\ mem' = Scrubbed(d)
     /\ Queue(<<Job(mem', "boot")>>)
  \/ /\ Valid(d) /\ ~d.plain
     /\ ToInvite(d)
     /\ Queue(Saved(d, mem'))

Recorded(d, u) == [d EXCEPT !.record = u, !.plain = FALSE]

\* The token is saved by the listener of the auth state, and then the record,
\* which the boot waits for.
MintJobs(d, u) == <<Job(With(d, u), "nobody"), Job(Recorded(With(d, u), u), "boot")>>

\* createToken has the hash.
FinishMint(u) ==
  /\ proc = "up" /\ boot = "mint"
  /\ u \notin used
  /\ boot' = "record"
  /\ mem' = Recorded(With(mem, u), u)
  /\ Queue(MintJobs(mem, u))
  /\ used' = used \union {u}
  /\ UNCHANGED <<proc, code, shut, signalled, left, checker, stopped>>
  /\ UNCHANGED <<since, flushed, owed, gone>>

\* The last token is made: logBootstrap, and on to listen.
FinishInvite(i) ==
  /\ proc = "up" /\ boot = "invite"
  /\ i \notin used
  /\ boot' = "listen"
  /\ mem' = With(mem, i)
  /\ Queue(<<Job(mem', "nobody")>>)
  /\ used' = used \union {i}
  /\ UNCHANGED <<proc, code, shut, signalled, left, checker, stopped>>
  /\ UNCHANGED <<since, flushed, owed, gone>>

-----------------------------------------------------------------------------
(* initApp and the signals that arrive in it.                              *)

\* Mutant: the deadline of initApp goes with its listeners, and no other is armed.
BugForgotten == Unarmed

Remaining ==
  IF signalled THEN (IF left > Floor THEN left ELSE Floor) ELSE Unarmed

\* initApp is through: the boot runs up to its first await, the handlers are
\* registered and a signal that came before them is replayed.
InitDone ==
  /\ proc = "init"
  /\ proc' = "up"
  /\ BeginBoot(IF file = NoFile THEN Default ELSE file)
  /\ left' = Remaining
  /\ shut' = IF signalled THEN "boot" ELSE "no"
  /\ UNCHANGED <<code, signalled, checker, stopped, historyVars>>

\* loadStorage tightens the modes; the rest of initApp is set-up.
Tighten ==
  /\ proc = "init"
  /\ Tightened
  /\ UNCHANGED <<processVars, historyVars, chain, stage>>

InitFails == proc = "init" /\ Ends("exited", 1)

SignalInInit ==
  /\ proc = "init"
  /\ ~signalled
  /\ signalled' = TRUE
  /\ left' = Budget
  /\ UNCHANGED <<proc, code, boot, mem, shut, checker, stopped, storageVars, historyVars>>

SecondSignalInInit == proc = "init" /\ signalled /\ Ends("exited", 1)

-----------------------------------------------------------------------------
(* The shutdown.                                                           *)

\* Mutant: the shutdown does not wait for the boot.
BugSettled == TRUE

BootSettled == boot \in {"done", "failed"}

FlushAsked == shut' = "flush" /\ flushed' = "asked" /\ owed' = used \ mem.tokens

\* beforeClose has been waited for: the flush is asked for.
AskFlush == FlushAsked /\ Queue(<<Job(mem, "flush")>>)

Signal ==
  /\ proc = "up"
  /\ shut = "no"
  /\ left' = Budget
  /\ IF BootSettled
     THEN AskFlush
     ELSE shut' = "boot" /\ Quiet /\ UNCHANGED <<flushed, owed>>
  /\ UNCHANGED <<proc, code, boot, mem, signalled, checker, stopped>>
  /\ UNCHANGED <<used, since, gone>>

\* app.close: the connections have drained and the onClose hooks run.
CloseHook ==
  /\ proc = "up"
  /\ shut = "close"
  /\ shut' = "closed"
  /\ stopped' = TRUE
  /\ checker' = IF checker = "armed" THEN "off" ELSE checker
  /\ UNCHANGED <<proc, code, boot, mem, signalled, left, storageVars, historyVars>>

CloseFails == proc = "up" /\ shut \in {"close", "closed"} /\ Ends("exited", 1)

ExitCode == IF boot = "failed" THEN 1 ELSE 0

Exit == proc = "up" /\ shut = "closed" /\ Ends("exited", ExitCode)

Expire == left = 0 /\ Ends("exited", 1)

\* A due timer fires before the clock goes on.
Tick ==
  /\ Running
  /\ left \in 1..(Unarmed - 1)
  /\ left' = left - 1
  /\ since' = since + 1
  /\ UNCHANGED <<proc, code, boot, mem, shut, signalled, checker, stopped>>
  /\ UNCHANGED <<storageVars, used, flushed, owed, gone>>

-----------------------------------------------------------------------------
(* The end of the boot, and serving.                                       *)

\* Nobody is shutting down: the checker is started, or the failure ends the process.
ListenDone ==
  /\ proc = "up" /\ boot = "listen"
  /\ boot' = "done"
  /\ IF shut = "boot"
     THEN AskFlush /\ UNCHANGED <<checker, stopped>>
     ELSE /\ checker' \in {"off", "first"}      \* off where it is not enabled
          /\ stopped' = FALSE
          /\ Quiet /\ UNCHANGED <<shut, flushed, owed>>
  /\ UNCHANGED <<proc, code, mem, signalled, left, used, since, gone>>

ListenFails ==
  /\ proc = "up" /\ boot = "listen"
  /\ IF shut = "boot"
     THEN /\ boot' = "failed"
          /\ AskFlush
          /\ UNCHANGED <<proc, code, mem, signalled, left, checker, stopped>>
          /\ UNCHANGED <<used, since, gone>>
     ELSE Ends("exited", 1)

\* What start does once its first check is through.
Armed == IF stopped THEN "off" ELSE "armed"

FirstCheck ==
  /\ proc = "up"
  /\ checker = "first"
  /\ checker' = Armed
  /\ UNCHANGED <<proc, code, boot, mem, shut, signalled, left, stopped>>
  /\ UNCHANGED <<storageVars, historyVars>>

\* Commands are heard until the connections have drained, in a shutdown too.
Serving == proc = "up" /\ boot = "done" /\ shut # "closed"

TokensBecome(d) ==
  /\ Serving
  /\ mem' = d
  /\ Queue(<<Job(d, "nobody")>>)
  /\ UNCHANGED <<proc, code, boot, shut, signalled, left, checker, stopped>>
  /\ UNCHANGED <<since, flushed, owed, gone>>

\* delete-token of an id that the operators are shown.
Revoke(t) ==
  /\ t \in mem.tokens \ Uplink
  /\ TokensBecome(Without(mem, {t}))
  /\ UNCHANGED used

\* A redeemed invite: its session is there before it goes.
Redeem(i, s) ==
  /\ Serving
  /\ i \in mem.tokens \intersect Invite
  /\ s \notin used
  /\ mem' = Without(With(mem, s), {i})
  /\ Queue(<<Job(With(mem, s), "nobody"), Job(mem', "nobody")>>)
  /\ used' = used \union {s}
  /\ UNCHANGED <<proc, code, boot, shut, signalled, left, checker, stopped>>
  /\ UNCHANGED <<since, flushed, owed, gone>>

-----------------------------------------------------------------------------
(* A write ends, and whoever waited for it goes on.                        *)

WaitedForBy(who) == chain # <<>> /\ Head(chain).for = who

NobodyWaited ==
  /\ WaitedForBy("nobody")
  /\ Lands(<<>>) \/ Fails(<<>>)
  /\ UNCHANGED <<processVars, used, since, flushed, owed>>

BootWritten ==
  /\ WaitedForBy("boot") /\ boot \in {"scrub", "record"}
  /\ ToInvite(mem)
  /\ Lands(Saved(mem, mem'))
  /\ UNCHANGED <<proc, code, shut, signalled, left, checker, stopped>>
  /\ UNCHANGED <<used, since, flushed, owed>>

\* The boot fails: the shutdown that waits for it goes on, or the process ends.
BootNotWritten ==
  /\ WaitedForBy("boot") /\ boot \in {"scrub", "record"}
  /\ IF shut = "boot"
     THEN /\ boot' = "failed"
          /\ FlushAsked
          /\ Fails(<<Job(mem, "flush")>>)
          /\ UNCHANGED <<proc, code, mem, signalled, left, checker, stopped>>
          /\ UNCHANGED <<used, since>>
     ELSE Ends("exited", 1)

\* flushStorage catches its failure.
FlushWritten ==
  /\ WaitedForBy("flush") /\ shut = "flush"
  /\ shut' = "close"
  /\ \/ Lands(<<>>) /\ flushed' = "ok"
     \/ Fails(<<>>) /\ flushed' = "failed"
  /\ UNCHANGED <<proc, code, boot, mem, signalled, left, checker, stopped>>
  /\ UNCHANGED <<used, since, owed>>

\* The steps of a write before its last.
Writing ==
  /\ Unlink \/ Create \/ Fill
  /\ UNCHANGED <<processVars, used, since, flushed, owed>>

-----------------------------------------------------------------------------
WriteEnds ==
  /\ NobodyWaited \/ BootWritten \/ BootNotWritten \/ FlushWritten
  /\ NowGone

Begins ==
  \/ Start \/ Crash \/ OperatorClears
  \/ InitDone \/ Tighten \/ InitFails \/ SignalInInit \/ SecondSignalInInit

Goes ==
  \/ \E u \in Uplink : FinishMint(u)
  \/ \E i \in Invite : FinishInvite(i)
  \/ ListenDone \/ ListenFails \/ FirstCheck
  \/ \E t \in Token : Revoke(t)
  \/ \E i \in Invite, s \in Session : Redeem(i, s)

Stops == Signal \/ CloseHook \/ CloseFails \/ Exit

Next == Begins \/ Goes \/ Stops \/ Tick \/ Expire \/ (Writing /\ UNCHANGED gone) \/ WriteEnds

\* Only the clock is sure to go on.
Fairness == WF_vars(Tick) /\ WF_vars(Expire)

Spec == Init /\ [][Next]_vars /\ Fairness

-----------------------------------------------------------------------------
(* Properties.                                                             *)

LifeTypeOK ==
  /\ StorageInv
  /\ proc \in {"down", "init", "up", "exited", "crashed"} /\ code \in {0, 1}
  /\ boot \in {"none", "scrub", "mint", "record", "invite", "listen", "done", "failed"}
  /\ mem \in Content
  /\ shut \in {"no", "boot", "flush", "close", "closed"} /\ signalled \in BOOLEAN
  /\ left \in 0..Unarmed /\ since \in Nat
  /\ checker \in {"off", "first", "armed"} /\ stopped \in BOOLEAN
  /\ used \subseteq Token /\ owed \subseteq Token /\ gone \subseteq Token
  /\ flushed \in {"no", "asked", "ok", "failed"}
  /\ \A i \in 1..Len(chain) :
       /\ chain[i].for = "boot" => boot \in {"scrub", "record"}
       /\ chain[i].for = "flush" => shut = "flush"

\* storage.ts:148-157: whatever fails and wherever the process dies, the file
\* is the whole of something that was to be saved, and what is saved later
\* never gives way to what was asked for earlier.
FileIsAtomic == File!FileSpec

\* Tokens whose end has reached the file, and which are good all the same, now or
\* after the next start.
GoodAgain == gone \intersect (mem.tokens \union TokensOf(file))

\* index.ts:279-282: nothing is to be written any more, and the file has not the tokens
\* that memory has.  A revocation that it misses is undone by the next start.
Diverged == proc = "up" /\ chain = <<>> /\ TokensOf(file) # mem.tokens

\* The two come to differ in no other way than by a write that failed.
DivergesByFailure == [][Diverged' => Diverged \/ (chain # <<>> /\ file' = file)]_vars

\* bootstrap.ts:396-402: however the signals fall on the two stages of the start,
\* they make for one deadline, measured from the first.
OneBudget == since <= Budget + Floor

\* A signal ends the process, even if no other step of the server is ever taken.
SignalEnds == (left # Unarmed) ~> ~Running

\* An exit with code 0 tells of a start that succeeded and of a file without
\* anything that was revoked before the flush, unless the flush itself failed
\* (bootstrap.ts:372-379).
CleanExit ==
  proc = "exited" /\ code = 0 =>
    /\ boot = "done"
    /\ flushed \in {"ok", "failed"}
    /\ flushed = "ok" => owed \intersect TokensOf(file) = {}

\* bootstrap.ts:56-62: the desktop can come in with the token that is recorded
\* and with no other, whatever the last process left.
UplinkUsable ==
  proc = "up" /\ boot \in {"invite", "listen", "done"} => mem.tokens \intersect Uplink = {mem.record}

\* And the file would let it in again: a record never comes without its token,
\* so that no start makes another one unless the record was cleared.
RecordIsGood == file # NoFile /\ file.record # NoToken => file.record \in file.tokens

\* bootstrap.ts:434-437: no poll goes on behind the onClose hooks.
NoPollBehindClose == shut = "closed" => checker # "armed"

\* The uplink token of the desktop outlives whatever happens to a process.
UplinkHolds == RecordIsGood /\ UplinkUsable

\* Once its end has reached the file no secret returns, after a failed write, a crash
\* or a restart; its end does reach the file unless that write fails or the process
\* ends before it, when the next start makes it good again (index.ts:279-282); and no
\* secret becomes readable to others.
SecretsStay == [](GoodAgain = {}) /\ DivergesByFailure /\ StaysOwnerOnly

\* A shutdown says what it came to, within its deadline, and leaves nothing running.
ShutdownTells == OneBudget /\ CleanExit /\ NoPollBehindClose
=============================================================================

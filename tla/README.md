# A TLA+ verification of ytsejam

ytsejam is a personal agent server: one Node process (`server/`) that runs chat
sessions on pi-agent-core's `AgentHarness`, delegates background tasks to
subagents, fires schedules, asks the user before it runs dangerous tools, keeps a
markdown memory mirrored into a long-term memory package (`packages/ltm/`), and
talks to a web client (`web/`) over REST and one WebSocket per tab.  The truth is
in append-only JSONL files; SQLite is a cache rebuilt from them at boot.

This directory models what is hard to test in it: what can happen at an `await`,
what a crash leaves behind, what a dropped socket loses, who wins a race.
Paths in this text are relative to the repository; `manager.ts` without a path is
`server/src/manager.ts`, and so on.

## How the code maps to the models

The server is single-threaded.  One action of a model is the code between two
awaits; wherever the code awaits, every other action may happen.  A coroutine that
is suspended is a value of a program counter (`pc`, `main`, `fate`, `loop`).
Listeners that pi-agent-core awaits (`agent_end`, the `context` hook) are separate
actions, because the harness cannot go on before they are done.  `setTimeout(0)` is
an action that may happen any time later, but before a model call can come back.

The harness itself is external.  Of it the models use only what the code relies
on: `prompt()` and `compact()` throw "busy" unless the harness is idle, it is idle
again before `agent_end` is heard, `abort()` reaches only a prompt that is in its
loop, queued messages are taken when the loop goes on.

## Inventory

| Component | State | Operations | Interacts with | Hard behaviour |
| --- | --- | --- | --- | --- |
| Task manager (`task-manager.ts`, `tasks.ts`) | task logs on disk; queue, `runningCount`, active harnesses | delegate, cancel, cancelAll, run, recoverInterrupted | sessions (`notifyParent`), event bus, drain | cancel at any await, crash at any step, slots |
| Subagent run (`task-manager.ts` run) | harness, pending compaction, retry promise, timer | prompt, compaction, reactive retry, nudge, timeout, abort | harness, compaction | four actors on one harness |
| Scheduler (`scheduler.ts`, `schedules.ts`) | schedules.jsonl; timer, `ticking` | create, cancel, tick, catchUp, start, stop | sessions (`inject`), drain | stale snapshot across awaits, crash between record and fire |
| Sessions (`manager.ts`) | open harnesses, `running`, `turnStartTail`, effective mode, pending title; transcript, sidecars, row | send, inject, abort, compaction, approval mode, create, open, rename, title, archive, working directory | everything | check-then-act across awaits, appends that land late, rebuild after a crash |
| Compaction (`compaction.ts`) | the context and its estimate; backups | decide, back up, compact, verify, restore, prune, retry, surrender | sessions, subagents | stale estimates, partial failure, loops |
| Approvals (`approval/*.ts`) | map of pending approvals with timers | gate, request, resolve, timeout, cancelSession | tools, WebSocket | many deciders |
| Web client (`web/src/lib/ws.ts`, `web/src/useApp.ts`, `web/src/components/*`) | subscription; cards, watchdogs, transcript, list of chats, drafts, working directory | connect, subscribe, snapshot, click, select, send, create, archive | server, bus | no replay: loss, reconnect, answers that come late and apply to what is no longer open |
| Offline shell (`web/public/sw.js`) | caches per policy | install, activate, fetch | static files, deploys | what is kept outlives what it was kept for |
| Boot and drain (`index.ts`) | -- | recover, catch up, stop in seven steps | all services | order, work started during the drain |
| Plan store (`plans.ts`) | one log, one lock file and one marker per session | set, update, compact the log | other processes | stale-lock reclamation, torn lines |
| Memory store (`memory/store/*`) | markdown files, promise chain per path, commit counter | write, append, patch, move, template, auto-commit | tools, LTM bridge | lost updates |
| LTM bridge (`memory/bridge/*`, `memory/index.ts`) | mtime cache, passes in flight, retry timer, lock of the store | record, reconcile, attach, retry, shutdown | memory store, LTM, commands | live write against tick, partial failure, drain |
| LTM backfill (`backfill-job.ts`, `server.ts`, `ltm-commands.ts`) | one slot for a job | start, poll, cancel, run | LTM, drain | lost calls, restarts, reused slot |
| LTM package (`packages/ltm`) | episodic and semantic logs and their indexes | read a session, ingest, supersede, consolidate, redact, purge, canonicalize, retrieve | bridge, prompts | awaits for embeddings, replay, order of statements |
| Tools (`tools/*.ts`) | files; child processes | apply_patch, edit, write; bash, grep, git, run_checks | turns | parallel calls, pipes that outlive a kill |
| Skills (`skills.ts`) | playbooks on disk | seed, list, load; edits | boot, prompts | death in the middle of a seeding |
| Models (`models.ts`, `copilot-live-catalog.ts`, `pi-auth.ts`) | catalog of the boot, credentials file | resolve, pick, open, refresh | sessions, the pi CLI | what is pinned vanishes, two writers |
| Phase shepherd (`contrib/skills/bottega`) | a state file per phase | tick: reconcile, gate, merge, launch | Bottega, cron | overlapping ticks, lost calls |
| Session index (`indexer.ts`) | SQLite cache | upserts, rebuild | all | staleness |
| Everything else (prompts, persona, terminal, CLI, rendering) | -- | single-shot I/O and text | -- | -- |

What makes the modelled components correct:

- *Task manager*: each task is settled once, its parent is told at most once and never of
  a cancellation, slots balance, no task is lost in the queue or over a crash, and every
  task ends.
- *Subagent run*: a report is a genuine answer, overflow recovery does not loop, no
  request for compaction leaks into a later prompt, the run ends.
- *Scheduler*: a one-shot fires at most once and eventually, missed crons do not pile up,
  a cancelled schedule fires at most the once that a tick had already decided.
- *Sessions*: starts do not race each other, `running` never sticks, the mode of a turn
  stays what it was when it started, the chain never wedges; the row can be made again
  from the files, one harness has a session open, a spoilt transcript is put back.
- *Compaction*: a refused prompt gets one recovery and ends in a retry or a note.
- *Approvals*: one decision, and no tool without a click; cards agree with the server once
  nothing is under way, and none stays for good.
- *Web client*: with nothing under way it shows the chat and the list that the server has;
  a message goes where it was typed; an online page is the deployed build.
- *Plan store*: one process at a time changes the plan, each change starts from the last
  one, and nobody waits for the dead.
- *Memory*: no line is lost to a parallel call, what is in the files gets into the LTM, and
  whatever writes there holds its lock; a turn is learned once, the newest statement shows,
  the forgotten stays forgotten.
- *Tools, skills, models, phases, backfill*: a call is answered once nothing holds its
  pipes, a patch does all it says or nothing, edits survive a boot, a session can be opened
  whatever became of its model, a phase goes in order and ends, a command returns.

## Modules

| Module | Models | State and actions |
| --- | --- | --- |
| `TaskContract` | what delegation promises, with no queue, process or log | `outcome`, `told`; Open, Decide, Tell |
| `TaskManager` | `task-manager.ts` and `tasks.ts` | `log` is tasks/&lt;id&gt;.jsonl and survives `Crash`; `queue`, `running` and `pc` do not. Delegate, Cancel, CancelAll; SetupDone, SetupFail, Settle, Notify, Exit are the stretches of `run()`; Crash, Recover, Notice are boot |
| `TaskManagerProofs`, `SubagentRunProofs`, `SchedulerProofs`, `SessionProofs`, `ApprovalProofs` | -- | the theorems about the module of that name |
| `ServicesProofs` | -- | the theorems about `PlanStore`, `ToolProcess`, `Backfill`, `PhaseShepherd`, `LtmBridge` and all of `MCServices` |
| `RecordsProofs` | -- | the theorems about `SessionFile`, `SessionReader`, `LtmStore`, `Recall`, `PatchTool`, `ClientTranscript` and `SessionList` |
| `StoresProofs` | -- | the theorems about `MemoryFiles`, `Composer`, `OfflineShell`, `Skills`, `ModelCatalog`, `Compaction` and, with `RecordsProofs`, all of `MCStores` |
| `SubagentRun` | `run()` in detail, with the listener, the retry timer and whoever aborts | `main`, `stored`, `held` (the run and its promises), `prompt`, `phase` (the harness), `pending`, `attempted`, `surrendered` (compaction). Its end is `Settle` of `TaskManager` |
| `Scheduler` | `scheduler.ts` and `schedules.ts` | `rows` is the fold of schedules.jsonl; `loop` is the tick or catchUp in flight with its snapshot. Create, Cancel, Tick, Resume, Boot, Stop, Exit, Pass |
| `Session` | the turn starts of `manager.ts` | `fate` of each message, `chain` (turnStartTail), `running`, `harness`, `recovery` and `retry` (agent_end), `pending`, `mode`. Arrive, Start, Snapshot, Compacted, Recorded; SetApprovalMode; the turn; the overflow recovery |
| `SessionFile` | a session on disk and its row | `file` (the latest entry of each kind), the sidecars, `row`, the open object, `titler`, `comp` with its `backup`. The routes (Ask, Act, Landed), titles, turns, Backup to Restore, ServerDies and RebuildIndex |
| `Compaction` | the size of a context | `context`, `pendingComp`, `retried`, `event`. Send, the answers of the model, Hook, AgentEnds, SetModel, and the three ends of a compaction |
| `Approval` | the gate, the coordinator, the WebSocket and the cards of the client | `call`, the two directions of each socket (`down`, `up`), `subscribed` at the server, `viewing`, `cards`, `armed`, `clicked` at the client. Execute, Timeout, CancelSession, Receive; Deliver, Watchdog, Click, View; Drop, Restart, Connect |
| `ClientTranscript` | the transcript of the open chat | `shown`, `loadingChat`, `loadBuffer`, the `loads` under way, the frames of the socket; Write and Emit at the server |
| `SessionList` | the list of chats | `listed` against `chatRow`; fetches, clicks with their rollback, creation, archiving, frames |
| `Composer` | typed messages and the picked directory | `looks` and `makes` are the selectSession() and newSession() calls under way, `text` the messages, `save` the dialog |
| `OfflineShell` | `sw.js`, the static files and deploys | `caches` per policy, `worker`, `installing`, `page`; Navigate, LoadBundle, Precache, Activate, DeployBuild (also back to an earlier build) |
| `PlanStore` | `plans.ts` | `lockFile`, `marker` and `lines` on disk, `at` of each process; the steps of withLock() and of the reclamation, Die, AgeLock, AgeMarker |
| `MemoryFiles` | `memory/store/*` and init_canonical_file | `content`, `chain` per path, `op` per call; the git commit with its counter, Restart |
| `LtmBridge` | `memory/index.ts`, `memory/bridge/*`, the bridge in `index.ts` | `inFile` and `mtime` against `stored`; `pass` (tick and reconcile_now), `call`, `link`, `retry`, `locked`; ShutdownLtm, Crash, Maintain |
| `Backfill` | job, routes and command | `cmd`, `job`, `slot`, `process`, `storeOpen` |
| `LtmStore` | ingest, facts, episodes, summaries | `spoken` against `entries`, `episode`, `summaries`, `fact`; `job` is an ingest at its awaits, `folds` are consolidations; Stop (crash), Redact, Purge, Canonicalize |
| `SessionReader` | `session/reader.ts` | `tree` is the file; TurnsOf, ActiveBranch, Anchor are the reader, as operators |
| `Recall` | retrieval and rehearsal | `mem` with counts in memory and in the log, `retriever` (the index and its dimension), `call` of each asker |
| `PatchTool` | apply_patch, edit, write | `disk`, and `tool` per call with its plan |
| `ToolProcess` | bash, grep, find, git, run_checks | `child`, `descendants`, `timer`, `stage` |
| `Skills` | `skills.ts` | `skillFile`, `skillDir`, `skillDirs` (the directories, empty ones too), `seeding`; history: what was `edited` and `deleted` |
| `ModelCatalog` | models and credentials | `offered` against `catalog`, `pinned`, `runsOn`, `auth` |
| `PhaseShepherd` | `phase-lib.sh` | `phaseFile`, `bottega`, and `tick` per cron job |

Each `MC...` module only instantiates these for TLC.  `MCServices` and `MCStores` put
several components that share no state side by side: a variable `part` says which of them a
behaviour is about, and the others stay in an initial state, so that their states add up and
do not multiply.  Where components do meet, the meeting is inside one module: the bridge has
the files and the store, the backfill the command, server, drain and store, the client
modules have both ends of the socket.

An operator whose comment begins "A slip of" or that stands right before the operator whose
name it extends (`PumpedOffByOne`, `ExitNoPump`, ...) is a plausible bug; no
specification uses it.  It is there to show that a property would notice.

`TaskManager` and `SubagentRun` are two views of one program: the first has many
tasks, and a prompt settles in one step; the second has one task and the inside of
the prompt.  What `SubagentRun` shows of a run (it ends, and when it does not) is
what the fairness of `Settle` rests on.  In the same way `Session`, `SessionFile` and
`Compaction` are three views of `manager.ts`: how turns start, what they leave on disk, and
how large they make the context.

## What the runs check

All runs finish in less than five minutes on two workers; the proofs take about forty.

| Run | Instance | Shows |
| --- | --- | --- |
| `task_manager` | 3 tasks, 2 slots, 1 crash | TypeOK; PoolExact (slots, queue and log account for each other); CancelOfStartedIsFinal, RecoverySparesTheLiving, ToldAtMostOnce; that TaskManager implements TaskContract; EveryTaskEnds |
| `subagent_run` | 3 turns over all prompts | RunConsistent (with no overflow loop and no stale request), CompletedIsGenuine, RunEnds (the model answers) |
| `scheduler` | 2 schedules, period 2, time to 5, 2 exits | ScheduleConsistent (a one-shot at most once, one posthumous firing at most), CronsCatchUp, OnceFires |
| `session` | 1 user message, 2 injected, 2 modes, 1 continued turn, 1 toggle | SessionConsistent (never wedged, busy only after an overflow), ModeOfATurn, StartsSettle |
| `approval` | 1 call, 2 tabs, 2 sessions, 1 frame under way per tab to the server, 1 switch on an open socket, 1 drop or restart | ApprovalConsistent (one decision, every card watched), CaughtUp, CardsGoAway |
| `services` | one instance of each of five parts, below | ServicesConsistent, BridgeSound, PlanLockFreed, LinesGetMirrored, ToolCallsEnd, PhaseSound, BackfillSettles |
| `stores` | one instance of each of thirteen parts, below | StoresTypeOK and one property for each part |
| `cancel_wins` | 2 tasks, 1 slot | violated: see below |
| `subagent_timeout`, `subagent_retry` | 1 turn | violated: see below |
| `scheduler_stop` | 2 schedules, 1 exit | violated: see below |
| `session_inject` | 2 messages | violated: see below |

The parts of `services` (245 thousand states):

| Part | Instance | Shows |
| --- | --- | --- |
| plan (`PlanStore`) | 2 processes, 1 item, compaction of every log longer than 1 line, 2 deaths | ServicesConsistent: exclusion, and each change made from the last; PlanLockFreed |
| bridge (`LtmBridge`) | 2 lines of one file, 2 changes, 1 failing call, 2 boots | BridgeSound: what is skipped is in the store, what writes holds the lock; LinesGetMirrored |
| process (`ToolProcess`) | 2 descendants, output cap 1 | ToolCallsEnd |
| phase (`PhaseShepherd`) | 2 tasks, the second after the first, 2 ticks, 1 trouble | PhaseSound: launched in order, and in the end all settled |
| backfill (`Backfill`) | 2 commands, 2 files of which 1 is broken, 2 servers | BackfillSettles: one job at a time, and the command returns |

The parts of `stores` (1.26 million states):

| Part | Instance | Shows |
| --- | --- | --- |
| files (`MemoryFiles`) | 2 calls, 2 paths, 4 lines, a commit for 2 writes, 3 operations, 1 mishap | FilesSound |
| ltm (`LtmStore`) | 3 turns in 2 sessions, 3 facts of which 1 is legacy and 2 exclude each other, 2 workers, 3 ingests, 1 fold, 1 cut, 2 commands | LtmSound |
| reader (`SessionReader`) | 5 lines, 2 jumps, 1 torn line | ReaderSound |
| recall (`Recall`) | 2 notes of which 1 is of the old dimension, 1 fact, 2 recalls, 1 change | RecallSound |
| session (`SessionFile`) | 2 titles, 2 modes, 2 directories, 2 requests at once, 1 backup kept, 1 message, 3 events | SessionFileSound |
| size (`Compaction`) | windows 16 and 32, reserve cushion 4 and floor 8, 5 kept, sizes 1 and 9, 2 messages, 1 tool loop, 1 change of model | OverflowIsSettled |
| tab (`ClientTranscript`) | 2 chats, 2 messages, 2 selects, 1 drop | SettledShowsTheChat |
| list (`SessionList`) | 2 fetches, 1 click, 2 happenings, 1 failure | SettledListIsRight |
| composer (`Composer`) | 3 chats, 2 messages, 2 selects at a time, 3 deeds, 1 failure | ComposerSound |
| shell (`OfflineShell`) | 2 builds, 2 policies, 3 visits, 2 changes of the network, deploys and rollbacks without a bound | FreshPageWorks |
| patch (`PatchTool`) | 2 files, 3 lines of which two are held by each other's text, 2 calls, 6 patches, 4 edits | PatchAppliesAsItReads |
| skills (`Skills`) | 2 names, a file and a bundle of 2 parts, 3 edits, 2 deaths | EditsSurvive |
| models (`ModelCatalog`) | 2 providers, 3 models, 1 session, 2 boots, 1 change of the offer, 1 login | SessionsStayUsable |

Why the bounds are enough.  Three tasks on two slots have a full pool and a queue,
and a slot freed while another task waits; one crash meets every state a task can be
in, and a second would find the same logs (the proofs cover any number).  Three turns
allow overflow, good turn, overflow again, and two overflows in a row.  Two schedules
make one wait behind the other in a snapshot; time 5 with period 2 lets a cron miss
occurrences while the server is down; two exits give a drain followed by a crash.
Three messages are a running start, one waiting behind it and one that arrives during
the recovery.  One approval in two tabs has two clicks racing each other, the timeout
and an abort; approvals are independent of each other but for the snapshots, which
carry sets.

Two processes at the plan's lock are a holder and one that suspects it; the second death
lets the one that reclaims die too.  Two lines of one file are one that is mirrored while the
other is appended, or fails.  Two calls, ingests, requests or ticks are a race; a third would
meet either of them as the second does.  Two ingests of one session need a second turn to
differ, and three turns let two statements in one slot arrive in either order with a third
that repeats one.  Two builds are one that a page or the worker has kept and one that is
deployed; each replaces the other any number of times.  The sizes of the context are those of the code divided so that the
order of reserve, budget and kept messages is that of a small and of a large window.  The
composer was also run with five deeds and three selects at a time (5.7 million states), the
size of a context with three messages (132,000 states).

`CHECK_DEADLOCK FALSE` is in every configuration: a server at rest has nothing to do, and
users need not do anything.  In `MCStores` a session starts in one of the two directories:
nothing tells them apart, so the other start shows nothing new.

### Fairness

- *Coroutines* (`Run(t)`, `Resume`, `Snapshot`/`Compacted`/`Recorded`, `ContextHook`, ...):
  Node resumes a coroutine when its await settles.  That the await settles is assumed of
  files, of a compaction's model call, and of an injection (it returns or throws).
- `Settle`: a prompt comes to an end because the timer aborts it.  `SubagentRun` shows
  the case in which that fails (`subagent_timeout`); `EveryTaskEnds` holds under the
  assumption that it does not.
- *Timers* (`TimerFires`, `RetryTimer`, `Tick`, `Timeout`, `Watchdog`): they fire.
- `LastTurn`: nothing is assumed in `Spec` -- a model call or a tool may hang until it is
  aborted, and only then it returns.  `AnsweringSpec` adds that turns end, and only
  `RunEnds` uses it.
- `Boot`, and `Exit` while draining: systemd restarts the server, and a drain ends.
- `Deliver`, `Receive`: an open socket delivers.
- `PlanStep`, `AgeLock`, `AgeMarker`: a process that lives goes on (its waiting is a bounded
  sleep in a loop), and a lock grows older than a second.  Nobody has to want the lock.
- `BridgeSteps`, and `Tick` apart from them: the steps of a pass, of a call and of an attach
  return, and the interval comes round.  Boots, edits and commands are not assumed.
- `TimerFires`, `Close`, and the exit of `git rev-parse`: Node reports what the operating
  system tells it.  Neither the command's exit nor that of its descendants is assumed;
  `ToolCallsEnd` has the latter as its condition.
- `PhaseRuns`: cron starts a tick when none runs, and a tick goes on; `BottegaRuns`: an agent
  that was kicked and the checks of a pull request end.  A tick that overlaps is possible and
  not assumed.
- `Answered`, `JobRuns`: a request gets an answer or an error (also that of a server which is
  gone), and an ingest and a pause end.  A restart of the server is not assumed.
- Nothing is assumed of users: nobody has to delegate, cancel, click or reconnect.

### Where code and documentation disagree

Five are runs whose property TLC violates; PROJECT.json quotes the line.

- `cancel_wins`: a cancel that lands while `run()` creates the subagent's session is
  overwritten by the `started` event (`task-manager.ts:454-465`); the task runs and its
  parent is told.  `docs/agents/delegation.md:43, 87` promise otherwise.
- `subagent_timeout`: a timeout that expires between two prompts aborts nothing
  (`task-manager.ts:587-590`), and a retry that hangs is never stopped
  (`docs/agents/delegation.md:74-75`).
- `subagent_retry`: a retry scheduled while the previous retry was being awaited is not
  awaited itself (`task-manager.ts:592-600`, against the comment at 293-295); its promise
  rejects unhandled.
- `scheduler_stop`: a tick in flight goes on firing after `scheduler.stop()`
  (`scheduler.ts:83-96`, against the comment at `index.ts:396-399`).
- `session_inject`: an injected message is refused during an overflow recovery or dropped
  by a surrender (`manager.ts:594-645, 964`, against the comment at `manager.ts:947-949`).

The modules of `MCServices` and `MCStores` end with definitions that a comment introduces
with "Not so" (or "Nor", where it follows such a one).  Each says what the code or a doc
claims and what the model, which does what the code does, refutes.  To see a
counterexample, put the name in place of the properties in `MCServices.cfg` or `MCStores.cfg`:
under PROPERTY for those marked *, under INVARIANT for the others.  PROJECT.json quotes the
claim of each under "findings".

| Definition | Module | What happens |
| --- | --- | --- |
| MaxRuntime* | ToolProcess | the kill leaves descendants that hold the pipes, and the call is not answered |
| NotReopened | LtmBridge | an attach under way opens the store after the drain |
| FedUnderLock* | Backfill | the job goes on writing after the drain has released the lock |
| OutcomeIsTold | Backfill | another command's job takes the slot before the outcome is read |
| NeverStranded* | PhaseShepherd | a kickoff that was lost is never repeated |
| ExistingIsSkipped | MemoryFiles | a template replaces what a parallel call has just written |
| IngestIsIncremental | LtmStore | two overlapping ingests learn the same turns twice |
| NewestWins | LtmStore | an older statement that is learned late makes a value old |
| OneBadWriteIsOneTurn | SessionReader | a torn line takes all turns before it along |
| NeverAcrossDimensions | Recall | the majority dimension flips under a running server |
| ModeSurvivesRestart | SessionFile | a crash between file and mode entry leaves yolo |
| CompactsWhenFull*, SuccessFits | Compaction | a small context is compacted again; a summary that is not counted makes a failure a success |
| ArrivedIsKept | ClientTranscript | a second load empties the buffer of the first |
| ShownModeIsTheServers, ArchivedIsHidden | SessionList | a late rollback and a late row |
| ShownDirIsTheChats | Composer | the directory of another chat |
| HitIsCorrect, ShellStays* | OfflineShell | index.html is kept as a bundle; a new policy drops the only shell |
| EditIsExact | PatchTool | `$&` in a new text |
| BundlesAreWhole, ListedIsLoadable | Skills | half a bundle passes for one; listed by one name, loaded by another |
| PickerIsUsable, LoginsStay* | ModelCatalog | the picker ignores the live catalog; a refresh undoes a login |

Weaker ones are left in the properties as conditions, each a history variable that says
what has happened: the override of a message is lost when the mode is toggled while its start
awaits a compaction (`ModeOfATurn` admits the stored mode, where `manager.ts:921` says that
the override wins); after an overflow the retry may be refused by a busy harness and clear
`running` under another turn (`~overflowed`); a death with the marker in hand lets two
processes into the plan (`orphaned`), and a snapshot appended to a torn line cannot be read
(`swallowed`); a file moved during a change to it comes back (`raced`); an ingest writes a
fact as it was before it awaited an embedding, and the mention and the source that another
ingest added meanwhile are lost (`overwritten`, `semantic/store.ts:149-193`; `overlapped` when
both are of one session); an ingest that is cut short counts its turns again (`cut`); an older
statement that is learned after a newer one puts the fact's `lastSeenAt` back
(`unsure`, `semantic/store.ts:163`), and beside a rival's newer one it stays shown
(`bypassed`, also when canonicalisation moves a fact into a slot, where a hidden canonical
fact is replaced, evidence and all); a build that is rolled back to may find index.html under
the name of its bundle (`past`, `sw.js:137-163`); a prompt that is rejected before
`agent_start` leaves the list with a turn that runs (`silent`); a message that was emitted
while the socket was tuned elsewhere is missing until the next load (`unheard`); a rename that lands
during the append of a generated title is overtaken by it (`overtaken`, against
`manager.ts:1284-1285`); a restore drops what was appended since the backup (`rolledBack`).
A property that has such a condition still says that nothing else breaks it.

## What is proved

TLAPS checks the proofs below, for every value of the constants: any tasks, messages,
clients, calls, lines, processes, commands, keys, files, chats, builds and models, and any
bound on what is counted.

| Module | Theorem | Statement |
| --- | --- | --- |
| `TaskManagerProofs` | TypeCorrect, PoolIsExact, CancelIsFinal, RecoveryIsSafe, NeverToldTwice | `Spec => []TypeOK`, `[]PoolExact`, `[]CancelOfStartedIsFinal`, `[]RecoverySparesTheLiving`, `[]ToldAtMostOnce` |
| | Implementation | `Spec => ImplementsContract`, the delegation contract of `TaskContract` |
| `SubagentRunProofs` | RunIsConsistent | `Spec => []RunConsistent` |
| | CompletedMeansGenuine | `Spec => CompletedIsGenuine`, an action property |
| `SchedulerProofs` | ScheduleIsConsistent | `Spec => []ScheduleConsistent` |
| | CronsKeepTheirPeriods | `Spec => CronsCatchUp`, an action property |
| `SessionProofs` | SessionIsConsistent | `Spec => []SessionConsistent` |
| | TurnKeepsItsMode | `Spec => ModeOfATurn`, an action property |
| `ApprovalProofs` | ApprovalIsConsistent | `Spec => []ApprovalConsistent` |
| | ClientsCatchUp | `Spec => []CaughtUp` |
| `ServicesProofs` | BridgeTypeCorrect, BridgeIsSound | `BridgeSpec => []BridgeTypeOK`, `[]BridgeSound` |
| | PlanIsKept | `PlanSpec => [](PlanTypeOK /\ PlanExclusion /\ PlanKept)` |
| | BackfillIsSound | `BackfillSpec => []BackfillSound` |
| | PhaseGoesInOrder | `PhaseSpec => []LaunchedInOrder`, the safety part of `PhaseSound` |
| | ServicesAreConsistent | `MCSpec => []ServicesConsistent`: all of them side by side |
| `StoresProofs` | FilesAreSound | `FilesSpec => [](FilesTypeOK /\ FilesSound)` |
| | ComposerIsSound | `ComposerSpec => [](ComposerTypeOK /\ ComposerSound)` |
| | FreshPages | `ShellSpec => [](ShellTypeOK /\ FreshPageWorks)` |
| | EditsStay | `SkillsSpec => [](SkillsTypeOK /\ EditsSurvive)` |
| | SessionsStay | `CatalogSpec => [](CatalogTypeOK /\ SessionsStayUsable)` |
| | OverflowsSettle | `CompactionSpec => [](CompactionTypeOK /\ OverflowIsSettled)` |
| | StoresAreConsistent | `MCSpec => []StoresTypeOK`: all thirteen of them side by side |
| `RecordsProofs` | SessionsOutlive | `SessionFileSpec => [](SessionFileTypeOK /\ SessionFileSound)` |
| | ReaderIsSound | `ReaderSpec => ReaderSound`, an invariant and an action property |
| | KnowledgeIsSound | `LtmSpec => [](LtmTypeOK /\ LtmSound)` |
| | RecallIsSound | `RecallSpec => [](RecallTypeOK /\ RecallSound)` |
| | PatchesApply | `PatchSpec => [](PatchTypeOK /\ PatchAppliesAsItReads)` |
| | TranscriptSettles | `ClientSpec => [](ClientTypeOK /\ SettledShowsTheChat)` |
| | ListSettles | `ListSpec => [](ListTypeOK /\ SettledListIsRight)` |

Each module also has `Invariance`, or a step lemma where several components share a module:
the inductive invariant holds in every reachable state.  The invariants were first checked
by TLC on instances as large as those of the runs, or larger (the plan store with three
processes), and only then proved.

The assumptions are those that the modules state by name, and no others:
counts and bounds are naturals; `Concurrency`, `Period`, `CompactAfter`, `InFlight`,
`CommitEvery`, `MaxChats` and `MaxFetches` are positive (`config.ts:54` clamps the first; the
user starts in a chat, and a tab fetches its list); `Tasks` and `Calls` are finite, because a list or a snapshot of them is sent or
they are counted; and the values that stand for nothing are not members of the
sets that they extend (`NoMode`, `NoSession`, "nobody" among the owners of a lock, "none"
among the commands and the models).  The functions that say what belongs to what (`FileOf`, `Home`,
`After`) have their types.  Slots share no fact, since a fact has one predicate, and at most one
fact of a slot was learned before predicates were canonical and is shown; a patch is what
`parsePatch()` can make of a text, and a file that is not there is not an empty one.  Nothing
is assumed of fairness: what is proved is safety.

None of the invariants that the runs check is inductive.  What each needs beyond itself:

- *Task manager.* `PoolExact` has three parts (SlotsAccounted, WorkConserving, QueueExact)
  that need each other: that slots balance needs to know that what `pump()` takes from the
  queue has no coroutine yet, which needs that the queue has no duplicates and that a pending
  task is accounted for, which after a crash depends on `recovering`.  `IInv` adds
  `LogShape` (created comes first and only there, nothing is started while it is in setup)
  and `Stages`, which ties the log of a task to its coroutine, to the recovery and to what
  its parent was told -- in particular that who may still report has not reported yet.
  `Pump`, which Delegate and Exit share, is dealt with once.  The refinement maps a log to
  its outcome, except that a cancellation during setup is still open; the steps of `pump()`
  are stutters, a crash too.
- *Subagent run.* That an overflow is answered once needs that an overflow on record was
  attempted or given up (`OverflowOnRecord`), and that whoever takes a request for
  compaction clears it (`RequestTaken`), also where a due retry overtakes the listener.
- *Scheduler.* That a one-shot fires once needs where its firing is: in the row, in the
  snapshot of the loop or in the injection under way (`OnceSound`); that a cron keeps its
  periods needs that what a loop still holds fell due in this process (`CronSound`).
  `CronFrom` is shown to give a time in the next period, which is the arithmetic under it.
  One lemma (`Walked`) describes what a stretch of a loop does, for tick and catch-up alike.
- *Session.* The chain has no duplicates, one start at a time is suspended in its
  compaction, whoever compacts has the harness alone (`HarnessHeld`), and until an overflow
  recovery runs beside the chain the `running` flag tells the truth about the harness
  (`TrueBeforeOverflow`).  After one it does not, and `BusyOnlyAfterOverflow` says no more.
- *Approval.* `CaughtUp` speaks only of sockets with nothing under way.  Its strengthening
  says of every moment what will be: a subscribed client will show, once the frames
  towards it have come, what waits in the session (`CardsToCome`, where the last frame about
  a call decides), and a socket will be subscribed to what its client views
  (`SubscriptionToCome`).  Append and Tail are dealt with in lemmas about sequences of
  frames.  That a tool runs only where a user approved needs that an approval on its way is
  one that was clicked (`ApprovesClicked`).
- *LTM bridge.* `SkippedIsMirrored` speaks of files at rest; in between, a pass over a file
  that has not changed since its mtime was taken has dealt with every line that is not
  ahead of it (`PassSound`), which needs that no mtime is noted before the file has it
  (`NoForesight`).  `WrittenUnderLock` needs that what has the store in hand belongs to
  the attachment of now, or to one that the drain closed for good (`OneAttachment`,
  `LateKnown`).
- *Plan store.* As long as nobody died with the marker: a lock file is that of the process
  that works under it (`LockHeld`), a marker likewise, only a lock that looks stale is
  renamed away (`MarkerHeld`), a draft starts from what was acknowledged last
  (`DraftsCurrent`), and a torn line is the last one (`LogSound`).  That `Current`, the last
  line that can be read, is what a write leaves takes `MaxProperties`: a non-empty set of
  positions has a largest one, by the well-founded order of finite sets.
- *Tools.* There is no verdict before the answer, and its code is one that a process ends with.
- *Backfill.* The slot tells which job runs, and every file of a job is ahead of it, in
  hand, or dealt with (`JobSound`).
- *Phase shepherd.* A tick works on the file as it saw it and on the one that it will save.
  Whatever overlaps or is cut short, both name tasks by their own key and call merged what
  is (`FilesAreSound`): enough for the order of a phase.  That only what is green is merged
  is kept where ticks do not overlap (`InTurn`), and that no key gets two tasks where in
  addition none is cut short (`Uncut`): what a tick saw of the keys ahead of it still holds.
- *Memory files.* The calls that wait for a path are those of its chain, and the one that
  has read is its first (`ChainsHold`); what it has read is then what the file still has,
  but for a template (`BasesHold`), and the line that it adds is in no file and in no other
  call (`LinesAreNew`).  That a commit follows is counting: what is in no commit has been
  counted, or is what a commit under way will leave, with room for the calls that have yet
  to write (`CommitsCounted`, which takes the cardinality of those).
- *Composer.* A call of `selectSession()` or `newSession()` outlives the click after it, so
  what each still holds is followed: the look that a new chat waits for is of the chat that
  it made (`LooksHold`), a message that waits for a chat goes to the one made for it
  (`MakesHold`, `TextsHold`), and a directory in an answer is one that the chat has had
  (`ShownHolds`).  That a chat number is fresh needs that there are no more chats than calls
  that are past (`ChatsHold`), again a count.
- *Offline shell.* Once a worker is in charge, it and the one being installed are all that has
  a cache (`OneCache`); nothing is kept or shown of a build that was never deployed, and what
  is kept under the name of the build of now is its bundle, if that build had not been
  replaced before (`NothingAhead`).
- *Skills.* A part of a bundle that is still to be copied is not one that was edited or
  deleted: a copy starts only where the directory is missing, and of a directory that is
  missing no part is there and nothing is on record (`SkillsInv`).
- *Models and credentials.* The catalog is empty or what the account had at boot, and what a
  session runs on resolves in it.
- *Compaction.* The text of an entry is no larger than the entry (`TextFits`), a recovery that
  is asked for is the first since a turn went well (`RecoveryOnce`), and where a prompt that was refused is
  the last entry, its recovery is still to come (`RefusedWaits`).  The sums over a context are shown
  to be naturals by the least position at which one would not be (`MinProperties`).

- *Session file.* That a row can be made from its files needs what life is like around it:
  nothing goes on before the row is there, nothing is open after a crash, one request at a
  time builds the harness (`Lives`); the number of the last message is bounded by what has
  happened, so that a restore can be told from nothing (`AnswersAreBounded`); and that a
  spoilt transcript is put back needs that the copy of the compaction under way is the newest
  and as good as the file was (`RestoreIsReady`).
- *Session reader.* The invariant is that a file is a tree: an entry comes after an earlier
  one, and without a torn line everything that it comes after can be read (`IsTree`, `IsWhole`).
  What the reader makes of such a tree is then a matter of its recursive functions: the branch
  of an entry rises, is closed under parents and is the least such set (`BranchesRise`,
  `BranchesAreClosed`, `BranchesAreLeast`), the turns along it are the entries with a text
  (`TurnsAreTheTexts`), and both stay when the file grows (`BranchesStay`, `TurnsStay`).
- *LTM store.* What is written of a fact is also what an ingest that awaits an embedding has
  read of it and will write back, so the invariant speaks of both (`Drafts`).  That a turn
  counts once needs that its mentions are as many as its sources, that each is of one fact,
  and was noted or is in the hands of an ingest (`CountedOnce`), and that of a chat there is
  one ingest, about turns that are not noted yet (`JobsApart`).  That the sources are all the
  turns a fact was learned from (`told`, a history variable that each assertion adds to) needs
  that an ingest which awaits an embedding writes back what the fact still has, or the fact is
  marked as `overwritten`, and a fact was last seen no earlier than any turn it was learned
  from, or it is `unsure` (both `ToldHolds`).  Then a fact gives way only to a rival that was
  stated as late, so each that is hidden has one in its slot, and the newest is not hidden
  (`NewestHolds`).  What was forgotten is in no draft (`DraftsForget`), and a slot that has a
  value shows one (`SlotsHold`).
- *Recall.* A call that was under way when a note was redacted may still have it in hand, one
  that began later has not (`Clean`).  That less than half of a count is lost needs that the
  greatest power of two up to a count has been logged (`CountHeld`): from a count to the next
  there is at most one, which is shown for every natural number.
- *Tools that change files.* The plan of a patch never sees its own writes; that it comes to
  the same as the sections one after another needs that the files overlaid with the first n
  planned writes are the files after the first n sections, for the n that are planned, and
  that the disk is the overlay with the writes that are done (`PlanIsRight`, `Overlay`).
  A call that works alone stays alone (`AloneIsAlone`).
- *Transcript.* As with the approvals, what is shown at rest is said of every moment as what
  will be: each message of the open chat is on the socket, or in the snapshot or the buffer of
  the load that is under way, or shown (`NothingMissed`); whatever comes is of the chat that
  it is said to be of (`NothingForeign`); and the guard against late loads is armed while the
  only load of the open chat is under way (`GuardHolds`).
- *List of chats.* Each field of the row is right in the list, or a frame on its way says it
  (`ListWillBeRight`); the last frame that says a field says what the server has
  (`LastWord`); the same of the list that a failed click would go back to
  (`RollbackWillBeRight`) and of the answers to fetches that no frame has overtaken
  (`AnswersWillBeRight`).

The proofs have one lemma per action, or per group of conjuncts that an action can disturb,
and the step of a product (`MCServices`, `MCStores`) is one step of each of its parts.

Recursive functions.  What a function that is defined by recursion over positions computes is
proved without the library's induction theorems: `ValuesFromEarlier` and `StepByStep` show
from the well-founded order of finite sets that the function exists and satisfies its
equations, and a statement about all its values then follows because there is no least
position at which it fails (`MinProperties`, `NoEndlessDescent`).  For this
`Branches` and `TurnsAlong` of `SessionReader`, `Applied` and `Disks` of `PatchTool` are
functions over positions and not folds.

Only model-checked:

- all liveness, which is out of the prover's reach: EveryTaskEnds, RunEnds, OnceFires,
  StartsSettle, CardsGoAway, PlanLockFreed, LinesGetMirrored, ToolCallsEnd, BackfillSettles
  and that a phase ends (the other part of `PhaseSound`).

Every invariant that the runs check, and each of their action properties, is stated by a theorem.

## Abstractions worth knowing

- Log lines of tasks and schedules are written whole, and disk writes do not fail.  The code
  reads such a log with a torn line as empty (`tasks.ts:97-107`, `schedules.ts:100-110`).
  Torn lines are modelled in `PlanStore` and `SessionReader`.
- `Delegate` may happen while recovery is still going.  It can in the code: the first
  parent that is told may delegate again before the loop is done.
- In `Scheduler`, a cron is the multiples of `Period`; an injection is one await.
- In `Session`, the bookkeeping after an overflow compaction is one step with the
  compaction; an abort is one of the ways a last turn ends.
- In `Approval`, a call that the mode decides at once (yolo, read_only) never leaves
  "new"; the clocks of server and browser agree within the 30 s of grace; lost notices only
  display and are left out; `onReconnect` reselects the open session, which is a `View`.
- In the client modules React has rendered before the next event is handled, and messages are
  numbers: that a text is shown twice is seen in sets only as far as ids tell it.
- In `SessionFile` a file is the record of the latest entry of each kind; that the library
  appends in order is external.
- In `LtmBridge` each change gives a file an mtime of its own, and the lock file is taken in
  one step (the code reads, judges and writes it, `memory-system.ts:145-164`).
- In `LtmStore` and `Recall` scores, extraction and embeddings are any choice among what the
  code could pick; two observations with one text and timestamp are one record.
- In `PatchTool` which line holds which other as a substring is given by `Holding`, and what
  `String.replace()` makes of a text by `Replacement`.
- In `Compaction` sizes are in thousands of tokens, and a message is its role and two sizes:
  the one that the provider counts and the one that the estimate sees.
- In `PhaseShepherd` Bottega answers or fails; what its agents do is any progress.

## Not modelled, and the plan

1. `Drain`: the seven steps of `drainAndExit` against all components at once -- the scheduler's
   tick, the tasks' pump, the bridge and the backfill are each modelled against their own part
   of it.
2. The rest of the LTM package: promotion of facts, re-embedding, `rederive`; the rows of
   tasks in the index.
3. Notes that other services post into a session (`postAssistantNote`), and notices of lost
   approvals.

Left out for good: tools that hand over or do one request (web, delegation, scheduling),
text composition (prompts, persona, formatting), sequential readers of markdown
(housekeeping, audits, briefs), scoring, decay and embedding arithmetic of the LTM package
and its evaluation harness, configuration, the terminal and the command line's parsing,
rendering.

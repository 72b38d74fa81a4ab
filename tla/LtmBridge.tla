----------------------------- MODULE LtmBridge -----------------------------
(***************************************************************************)
(* How observations get from the memory files into the LTM store           *)
(* (server/src/memory/index.ts, memory/bridge, and the attaching, retrying *)
(* and draining in server/src/index.ts): at once when the agent records    *)
(* one, and by a reconciler that reads the files whose mtime has changed.  *)
(* The store has one writer, who holds its lock file.                      *)
(*                                                                         *)
(* Every change to a file gives it an mtime of its own.                    *)
(***************************************************************************)
EXTENDS Naturals, FiniteSets

CONSTANTS
    Obs,        \* observation lines
    ObsFiles,
    FileOf,     \* the observations.md each line belongs to
    MaxEdits, MaxFaults, MaxBoots  \* bounds: changes to files and commands, failing
                                   \* calls, boots

ASSUME BridgeAssumption ==
    /\ FileOf \in [Obs -> ObsFiles]
    /\ {MaxEdits, MaxFaults, MaxBoots} \subseteq Nat

VARIABLES
    inFile,    \* the lines that are in the files
    mtime,     \* of each file
    stored,    \* the observations that the store has under their origin
    server,    \* the server process
    link,      \* attachLtmBridge()
    retry,     \* ltmReconnectTimer
    locked,    \* lock.pid is there and names the server
    cached,    \* mtimeCache
    pass,      \* reconcile(), once by the timer and once by reconcileNow()
    call,      \* recordObservation()
    missed,    \* history: lines whose mirroring failed in this process
    late,      \* history: what was in flight when the store was closed
    unlocked,  \* history: who wrote to the store without its lock
    edits, faults, boots

fileState == <<inFile, mtime, edits>>
bridgeHistory == <<missed, late, unlocked>>
bridgeVars == <<fileState, locked, bridgeHistory, stored, server, link, retry,
                cached, pass, call, faults, boots>>

Passes == {"tick", "now"}
Idle == [at |-> "idle"]
LinesOf(f) == {o \in inFile : FileOf[o] = f}

BridgeInit ==
    /\ inFile = {} /\ mtime = [f \in ObsFiles |-> 1] /\ stored = {}
    /\ server = "down" /\ link = "none" /\ retry = FALSE
    /\ locked = FALSE
    /\ cached = [f \in ObsFiles |-> 0]
    /\ pass = [r \in Passes |-> Idle] /\ call = [o \in Obs |-> "none"]
    /\ missed = {} /\ late = {} /\ unlocked = {}
    /\ edits = 0 /\ faults = 0 /\ boots = 0

Fault == faults < MaxFaults /\ faults' = faults + 1

-----------------------------------------------------------------------------
(* The files.                                                              *)

Change(f, lines) ==
    /\ edits < MaxEdits
    /\ edits' = edits + 1
    /\ inFile' = (inFile \ LinesOf(f)) \cup lines
    /\ mtime' = [mtime EXCEPT ![f] = @ + 1]

\* A line is added or taken out with an editor or by cog_patch.
Edit ==
    \E f \in ObsFiles, o \in Obs :
        /\ FileOf[o] = f
        /\ Change(f, IF o \in inFile THEN LinesOf(f) \ {o} ELSE LinesOf(f) \cup {o})
        /\ UNCHANGED <<locked, bridgeHistory, stored, server, link, retry, cached,
                       pass, call, faults, boots>>

\* recordObservation() appends the line, and then waits for the git commit.
Record(o) ==
    /\ server # "down" /\ call[o] = "none" /\ o \notin inFile
    /\ Change(FileOf[o], LinesOf(FileOf[o]) \cup {o})
    /\ call' = [call EXCEPT ![o] = "appended"]
    /\ UNCHANGED <<locked, bridgeHistory, stored, server, link, retry, cached,
                   pass, faults, boots>>

\* Only now does it look whether a store is attached.
Appended(o) ==
    /\ call[o] = "appended"
    /\ call' = [call EXCEPT ![o] = IF link = "attached" THEN "mirroring" ELSE "none"]
    /\ UNCHANGED <<fileState, locked, bridgeHistory, stored, server, link, retry,
                   cached, pass, faults, boots>>

\* MemorySystem.recordObservation(): the embedding is awaited, then the record
\* is written.  One id per text: twice is once.
Store(o, writer) ==
    /\ stored' = stored \cup {o}
    /\ unlocked' = IF locked THEN unlocked ELSE unlocked \cup {writer}

Mirrored(o) ==
    /\ call[o] = "mirroring"
    /\ call' = [call EXCEPT ![o] = "none"]
    /\ \/ Store(o, o) /\ UNCHANGED <<missed, faults>>
       \/ Fault /\ missed' = missed \cup {o} /\ UNCHANGED <<stored, unlocked>>
    /\ UNCHANGED <<fileState, locked, late, server, link, retry, cached, pass, boots>>

-----------------------------------------------------------------------------
(* reconcile().                                                            *)

Begin(r, force) ==
    pass' = [pass EXCEPT ![r] = [at |-> "walk", todo |-> ObsFiles, force |-> force]]

\* The timer, unless the last tick is still running.  (Nothing comes of a tick
\* when no file has changed.)
Tick ==
    /\ link = "attached" /\ server = "up" /\ pass["tick"] = Idle
    /\ \E f \in ObsFiles : cached[f] < mtime[f]
    /\ Begin("tick", FALSE)
    /\ UNCHANGED <<fileState, locked, bridgeHistory, stored, server, link, retry,
                   cached, call, faults, boots>>

\* cog_rpc reconcile_now, whatever else is running.
ReconcileNow ==
    /\ link = "attached" /\ server = "up" /\ pass["now"] = Idle
    /\ edits < MaxEdits
    /\ edits' = edits + 1
    /\ \E force \in BOOLEAN : Begin("now", force)
    /\ UNCHANGED <<inFile, mtime, locked, bridgeHistory, stored, server, link, retry,
                   cached, call, faults, boots>>

Step(r, f, place, line, left, seen) ==
    pass' = [pass EXCEPT ![r] = [at |-> place, todo |-> pass[r].todo \ {f},
                                 force |-> pass[r].force, file |-> f, line |-> line,
                                 left |-> left, seen |-> seen]]

\* The next file: one whose mtime is known is passed over, one that cannot be
\* read too.
Stat(r) ==
    /\ pass[r].at = "walk"
    /\ \E f \in pass[r].todo :
          \/ /\ pass[r].force \/ cached[f] < mtime[f]
             /\ Step(r, f, "statted", "none", {}, mtime[f])
             /\ UNCHANGED faults
          \/ /\ ~pass[r].force /\ cached[f] >= mtime[f]
             /\ pass' = [pass EXCEPT ![r].todo = @ \ {f}]
             /\ UNCHANGED faults
          \/ /\ Fault
             /\ pass' = [pass EXCEPT ![r].todo = @ \ {f}]
    /\ UNCHANGED <<fileState, locked, bridgeHistory, stored, server, link, retry,
                   cached, call, boots>>

Read(r) ==
    /\ pass[r].at = "statted"
    /\ Step(r, pass[r].file, "lines", "none", LinesOf(pass[r].file), pass[r].seen)
    /\ UNCHANGED <<fileState, locked, bridgeHistory, stored, server, link, retry,
                   cached, call, faults, boots>>

\* processLine(): a line that the store has is skipped, another is mirrored.
Line(r) ==
    /\ pass[r].at = "lines"
    /\ \E o \in pass[r].left :
          IF o \in stored
          THEN Step(r, pass[r].file, "lines", "none", pass[r].left \ {o}, pass[r].seen)
          ELSE Step(r, pass[r].file, "embedding", o, pass[r].left \ {o}, pass[r].seen)
    /\ UNCHANGED <<fileState, locked, bridgeHistory, stored, server, link, retry,
                   cached, call, faults, boots>>

LineDone(r) ==
    /\ pass[r].at = "embedding"
    /\ pass' = [pass EXCEPT ![r].at = "lines", ![r].line = "none"]
    /\ \/ Store(pass[r].line, r) /\ UNCHANGED <<missed, faults>>
       \/ Fault /\ missed' = missed \cup {pass[r].line} /\ UNCHANGED <<stored, unlocked>>
    /\ UNCHANGED <<fileState, locked, late, server, link, retry, cached, call, boots>>

\* All lines are done, well or badly: the mtime from before the read is noted.
FileDone(r) ==
    /\ pass[r].at = "lines" /\ pass[r].left = {}
    /\ cached' = [cached EXCEPT ![pass[r].file] = pass[r].seen]
    /\ pass' = [pass EXCEPT ![r] = [at |-> "walk", todo |-> pass[r].todo,
                                    force |-> pass[r].force]]
    /\ UNCHANGED <<fileState, locked, bridgeHistory, stored, server, link, retry,
                   call, faults, boots>>

PassDone(r) ==
    /\ pass[r].at = "walk" /\ pass[r].todo = {}
    /\ pass' = [pass EXCEPT ![r] = Idle]
    /\ UNCHANGED <<fileState, locked, bridgeHistory, stored, server, link, retry,
                   cached, call, faults, boots>>

-----------------------------------------------------------------------------
(* attachLtmBridge(), its supervisor, and the drain.                       *)

\* The first attempt is awaited before there is a handler for SIGTERM.
Boot ==
    /\ server = "down" /\ boots < MaxBoots
    /\ boots' = boots + 1
    /\ server' = "booting" /\ link' = "attaching"
    /\ missed' = {} /\ late' = {} /\ unlocked' = {}
    /\ UNCHANGED <<fileState, locked, stored, retry, cached, pass, call, faults>>

Booted == server' = IF server = "booting" THEN "up" ELSE server

\* The embedder could be made, the lock is free or left by a dead process, the
\* dimension fits: a new reconciler is started.
Attach ==
    /\ link = "attaching"
    /\ link' = "attached" /\ locked' = TRUE
    /\ cached' = [f \in ObsFiles |-> 0]
    /\ Booted
    /\ UNCHANGED <<fileState, bridgeHistory, stored, retry, pass, call, faults, boots>>

\* A slip of AttachFails: no other attempt is scheduled.
AttachFailsForGood ==
    /\ link = "attaching"
    /\ Fault
    /\ link' = "none"
    /\ Booted
    /\ UNCHANGED <<fileState, locked, bridgeHistory, stored, retry, cached, pass, call, boots>>

\* No embedder, a maintenance command's lock, or a dimension that does not fit:
\* what was opened is closed, and the supervisor will try again.
AttachFails ==
    /\ link = "attaching"
    /\ Fault
    /\ link' = "none" /\ retry' = TRUE
    /\ Booted
    /\ UNCHANGED <<fileState, locked, bridgeHistory, stored, cached, pass, call, boots>>

Reconnect ==
    /\ retry /\ server # "down"
    /\ retry' = FALSE /\ link' = "attaching"
    /\ UNCHANGED <<fileState, locked, bridgeHistory, stored, server, cached, pass,
                   call, faults, boots>>

\* SIGTERM: once steps 1 to 5 of drainAndExit() are through, which do not touch
\* the bridge, shutdownLtm() calls off the retry and stops the ticks.
ShutdownLtm ==
    /\ server = "up"
    /\ retry' = FALSE
    /\ server' = IF link = "attached" THEN "stopping" ELSE "drained"
    /\ UNCHANGED <<fileState, locked, bridgeHistory, stored, link, cached, pass,
                   call, faults, boots>>

\* A slip of CloseLtm: the tick in flight is not awaited.
CloseLtmAtOnce ==
    /\ server = "stopping"
    /\ server' = "drained" /\ link' = "none"
    /\ locked' = FALSE
    /\ late' = {o \in Obs : call[o] = "mirroring"}
                  \cup {r \in {"now"} : pass[r] # Idle}
    /\ UNCHANGED <<fileState, missed, unlocked, stored, retry, cached, pass, call,
                   faults, boots>>

\* The tick in flight is awaited, and the store is detached and closed; calls
\* and a reconcileNow() that have it in hand go on.
CloseLtm ==
    /\ server = "stopping" /\ pass["tick"] = Idle
    /\ server' = "drained" /\ link' = "none"
    /\ locked' = FALSE
    /\ late' = {o \in Obs : call[o] = "mirroring"}
                  \cup {r \in {"now"} : pass[r] # Idle}
    /\ UNCHANGED <<fileState, missed, unlocked, stored, retry, cached, pass, call,
                   faults, boots>>

Gone ==
    /\ server' = "down" /\ link' = "none" /\ retry' = FALSE
    /\ pass' = [r \in Passes |-> Idle] /\ call' = [o \in Obs |-> "none"]
    /\ cached' = [f \in ObsFiles |-> 0]
    /\ UNCHANGED <<fileState, locked, bridgeHistory, stored, boots>>

\* Nothing is left to wait for.
Exit ==
    /\ server = "drained" /\ link # "attaching"
    /\ \A o \in Obs : call[o] = "none"
    /\ \A r \in Passes : pass[r] = Idle
    /\ Gone
    /\ UNCHANGED faults

Crash == server # "down" /\ Fault /\ Gone

-----------------------------------------------------------------------------
\* ltm replay, ltm maintain or ltm redact, which take the lock when the server does
\* not live: everything is mirrored again and the orphans are pruned, or one
\* record is redacted; the line it came from stays, its origin is forgotten.
Maintain ==
    /\ ~locked \/ server = "down"
    /\ edits < MaxEdits
    /\ edits' = edits + 1
    /\ locked' = FALSE
    /\ stored' \in {inFile} \cup {stored \ {o} : o \in stored}
    /\ UNCHANGED <<inFile, mtime, bridgeHistory, server, link, retry, cached, pass, call,
                   faults, boots>>

-----------------------------------------------------------------------------
BridgeSteps ==
    \/ \E o \in Obs : Appended(o) \/ Mirrored(o)
    \/ \E r \in Passes : Stat(r) \/ Read(r) \/ Line(r) \/ LineDone(r) \/ FileDone(r)
                         \/ PassDone(r)
    \/ Attach \/ Reconnect
    \/ CloseLtm \/ Exit

BridgeNext ==
    \/ Edit \/ \E o \in Obs : Record(o)
    \/ Tick \/ ReconcileNow
    \/ BridgeSteps
    \/ Boot \/ AttachFails \/ ShutdownLtm \/ Crash \/ Maintain

\* Calls return, the timers fire, commands end.
BridgeFairness == WF_bridgeVars(BridgeSteps) /\ WF_bridgeVars(Tick)

BridgeSpec == BridgeInit /\ [][BridgeNext]_bridgeVars /\ BridgeFairness

-----------------------------------------------------------------------------
(* Properties.                                                             *)

BridgeTypeOK ==
    /\ inFile \subseteq Obs /\ stored \subseteq Obs /\ missed \subseteq Obs
    /\ mtime \in [ObsFiles -> 1..(MaxEdits + 1)] /\ cached \in [ObsFiles -> 0..(MaxEdits + 1)]
    /\ server \in {"down", "booting", "up", "stopping", "drained"}
    /\ link \in {"none", "attaching", "attached"} /\ retry \in BOOLEAN
    /\ locked \in BOOLEAN
    /\ call \in [Obs -> {"none", "appended", "mirroring"}]
    /\ \A r \in Passes : pass[r] # Idle => pass[r].todo \subseteq ObsFiles

\* What the reconciler passes over is in the store: every line of a file whose
\* mtime is noted as read has been mirrored, however edits, appends, ticks and
\* reconcile_now overlap (ltm-reconciler.ts:63-78, 205-244).  The exception is a
\* line whose mirroring failed: it is not tried again before the file changes.
SkippedIsMirrored ==
    \A f \in ObsFiles :
        link = "attached" /\ cached[f] >= mtime[f] => LinesOf(f) \subseteq stored \cup missed

\* The store has one writer: what writes to it after the drain has closed it
\* was in flight then, and is a live call or a reconcile_now, never a tick; and
\* the store is locked while it is attached (index.ts:338-368).
WrittenUnderLock ==
    /\ unlocked \subseteq late
    /\ link = "attached" => locked

\* Mirroring is complete and has one writer: what the reconciler takes as read is
\* in the store, and whatever writes there holds the lock or began before it went.
BridgeSound == SkippedIsMirrored /\ WrittenUnderLock

\* Not so: the timer is cleared "so a retry can't re-open the store mid-drain"
\* (index.ts:342-347); an attempt that is under way opens it after the drain.
NotReopened == server = "drained" => ~locked

\* Self-healing: a line gets into the store while the server runs, over failed
\* attachments, lost calls and maintenance commands (docs/agents/
\* memory-bridge.md:46-51), unless its own mirroring failed.
LinesGetMirrored ==
    \A o \in Obs :
        o \in inFile /\ server = "up"
            ~> o \in stored \cup missed \/ o \notin inFile \/ server # "up"
=============================================================================

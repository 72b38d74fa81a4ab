------------------------------- MODULE Session -------------------------------
(***************************************************************************)
(* How turns start in one open chat session: sendMessage, injectMessage,   *)
(* the turn-start chain, compaction at idle, the recovery from a context   *)
(* overflow at agent_end and the approval mode of a turn                   *)
(* (server/src/manager.ts with server/src/compaction.ts).                  *)
(*                                                                         *)
(* Messages come from the user, from finished tasks and from schedules.    *)
(* They, the recovery and its retry all want the one harness, which is     *)
(* pi-agent-core's and external: prompt() and compact() throw "busy"       *)
(* unless it is idle, and it is idle again before agent_end is heard.      *)
(***************************************************************************)
EXTENDS Naturals, Sequences

CONSTANTS
    Messages,   \* the messages that may arrive
    Injected,   \* those from tasks and schedules, the others are the user's
    Modes,      \* the approval modes
    NoMode,     \* the override of a message without /yolo or /careful
    MaxTurns,   \* bound: turns that go on to another model call
    MaxToggles  \* bound: changes of the session's approval mode

ASSUME ConstantsAssumption ==
    /\ Injected \subseteq Messages
    /\ NoMode \notin Modes
    /\ MaxTurns \in Nat /\ MaxToggles \in Nat

VARIABLES
    fate,        \* what became of each message
    override,    \* the mode each message asks for its own turn
    chain,       \* turnStartTail: the starts that wait for their turn
    running,     \* opened.running
    harness,     \* what the harness does
    recovery,    \* the overflow recovery in the agent_end listener
    retry,       \* the setTimeout(0) of the retry is due
    pending,     \* opened.compaction.pendingCompaction
    attempted,   \* opened.compaction.reactiveRetryAttempted
    mode,        \* opened.currentEffectiveMode
    stored,      \* the approval mode in the index
    turns, toggles,
    overflowed   \* history: there has been an overflow recovery

starts == <<fate, override, chain>>
loop == <<harness, recovery, retry, turns, overflowed>>
compaction == <<pending, attempted>>
modes == <<mode, stored, toggles>>
vars == <<starts, running, loop, compaction, modes>>

\* A start suspended in runPendingCompactionAtIdle: at the backup, in
\* harness.compact(), or at the bookkeeping after it.
InStart == {"snapshot", "compacting", "recording", "unloadable"}

\* "queued" on the running turn, "prompted" and not yet "taken" by the model;
\* or lost: "dropped" by a surrender, refused by a "busy" harness, "failed"
\* before the run, or "refused" with an error to the caller.
Fates == InStart \cup {"new", "waiting", "queued", "prompted", "taken",
                       "dropped", "busy", "failed", "refused"}

Init ==
    /\ fate = [m \in Messages |-> "new"]
    /\ override = [m \in Messages |-> NoMode]
    /\ chain = <<>>
    /\ running = FALSE /\ harness = "idle" /\ recovery = "none" /\ retry = FALSE
    /\ pending = "none" /\ attempted = FALSE
    /\ stored \in Modes /\ mode = stored
    /\ turns = 0 /\ toggles = 0 /\ overflowed = FALSE

Becomes(m, f) == fate' = [fate EXCEPT ![m] = f]

-----------------------------------------------------------------------------
(* sendMessage and injectMessage.                                          *)

\* The call is made: its body is chained behind the starts before it.
Arrive(m) ==
    /\ fate[m] = "new"
    /\ Becomes(m, "waiting")
    /\ override' \in {[override EXCEPT ![m] = o] : o \in Modes \cup {NoMode}}
    /\ chain' = Append(chain, m)
    /\ UNCHANGED <<running, loop, compaction, modes>>

\* running = true; harness.prompt(), whose rejection sets running = false.
Prompt(m) ==
    /\ IF harness = "idle"
       THEN running' = TRUE /\ harness' = "opening" /\ Becomes(m, "prompted")
       ELSE running' = FALSE /\ UNCHANGED harness /\ Becomes(m, "busy")
    /\ UNCHANGED <<recovery, retry, turns, overflowed>>

TurnToStartUnserialized == chain # <<>>

TurnToStartStranded ==
    /\ chain # <<>>
    /\ \A m \in Messages : fate[m] \notin InStart \cup {"refused"}

\* Whether the start at the head of the chain may run its body.
TurnToStart ==
    /\ chain # <<>>
    /\ \A m \in Messages : fate[m] \notin InStart

\* The body of a start: steer or follow up on a running turn; otherwise fix
\* the mode of the new turn, run a pending compaction, and prompt.
Start ==
    /\ TurnToStart
    /\ chain' = Tail(chain)
    /\ LET m == Head(chain)
       IN  \/ /\ running
              /\ Becomes(m, "queued")
              /\ UNCHANGED <<running, loop, compaction, mode>>
           \/ /\ ~running
              /\ mode' = IF override[m] = NoMode THEN stored ELSE override[m]
              /\ IF pending = "none"
                 THEN Prompt(m) /\ UNCHANGED pending
                 ELSE /\ Becomes(m, "snapshot")
                      /\ pending' = "none"
                      /\ UNCHANGED <<running, loop>>
              /\ UNCHANGED attempted
    /\ UNCHANGED <<override, stored, toggles>>

\* The backup is written, and the harness compacts if it is idle; a failed
\* backup or a "busy" harness is a failed compaction.
Snapshot(m) ==
    /\ fate[m] = "snapshot"
    /\ \/ /\ Becomes(m, "recording")
          /\ UNCHANGED harness
       \/ /\ harness = "idle"
          /\ Becomes(m, "compacting")
          /\ harness' = "compacting"
    /\ UNCHANGED <<override, chain, running, recovery, retry, turns, overflowed,
                   compaction, modes>>

\* harness.compact() is over, well or not; the session may no longer load.
Compacted(m) ==
    /\ fate[m] = "compacting"
    /\ fate' \in {[fate EXCEPT ![m] = f] : f \in {"recording", "unloadable"}}
    /\ harness' = "idle"
    /\ UNCHANGED <<override, chain, running, recovery, retry, turns, overflowed,
                   compaction, modes>>

\* The event is recorded: prompt, even after a failed compaction, or give up
\* with a surrender when the session does not load; recording may throw.
Recorded(m) ==
    /\ \/ fate[m] = "recording" /\ Prompt(m)
       \/ /\ fate[m] = "unloadable"
          /\ Becomes(m, "dropped")
          /\ UNCHANGED <<running, loop>>
       \/ /\ fate[m] \in {"recording", "unloadable"}
          /\ Becomes(m, "refused")
          /\ UNCHANGED <<running, loop>>
    /\ UNCHANGED <<override, chain, compaction, modes>>

SetApprovalModeStored(md) ==
    /\ toggles < MaxToggles /\ md # stored
    /\ toggles' = toggles + 1
    /\ stored' = md
    /\ UNCHANGED <<starts, running, loop, compaction, mode>>

\* setApprovalMode(), from the user's toggle.
SetApprovalMode(md) ==
    /\ toggles < MaxToggles /\ md # stored
    /\ toggles' = toggles + 1
    /\ stored' = md
    /\ mode' = IF running THEN mode ELSE md
    /\ UNCHANGED <<starts, running, loop, compaction>>

-----------------------------------------------------------------------------
(* The turn.  Its model calls outlast a file copy and a setTimeout(0).     *)

InTurn == harness = "turn" /\ ~retry /\ recovery # "snapshot"

Delivered(f) == [m \in Messages |-> IF fate[m] = f THEN "taken" ELSE fate[m]]

\* The harness has read the session and built the system prompt, and agent_start
\* is heard; or it fails to, and prompt() rejects before there is a run.
Opened ==
    /\ harness = "opening"
    /\ \/ harness' = "turn" /\ fate' = Delivered("prompted") /\ running' = TRUE
       \/ /\ harness' = "idle" /\ running' = FALSE
          /\ fate' = [m \in Messages |->
                         IF fate[m] = "prompted" THEN "failed" ELSE fate[m]]
    /\ UNCHANGED <<override, chain, recovery, retry, turns, overflowed, compaction,
                   modes>>

\* A turn ends well and the loop goes on with what was queued meanwhile.
TurnContinues ==
    /\ InTurn
    /\ turns < MaxTurns
    /\ turns' = turns + 1
    /\ fate' = Delivered("queued")
    /\ attempted' = FALSE
    /\ pending' \in {pending, "proactive"}
    /\ UNCHANGED <<override, chain, running, harness, recovery, retry, overflowed,
                   modes>>

\* The context hook takes a pending compaction before a model call.
ContextHook ==
    /\ harness = "turn" /\ pending # "none"
    /\ pending' = "none"
    /\ UNCHANGED <<starts, running, loop, attempted, modes>>

\* turn_end of the last turn: it ended well or was aborted, in an error, or in
\* a context overflow, which asks for a recovery once until a turn ends well.
LastTurn ==
    /\ InTurn
    /\ harness' = "ended"
    /\ \/ /\ attempted' = FALSE
          /\ pending' \in {pending, "proactive"}
          /\ UNCHANGED overflowed
       \/ UNCHANGED <<compaction, overflowed>>
       \/ /\ attempted' = ~attempted
          /\ pending' = IF attempted THEN "none" ELSE "reactive"
          /\ overflowed' = TRUE
    /\ UNCHANGED <<starts, running, recovery, retry, turns, modes>>

\* agent_end: a reactive compaction starts with its backup.
AgentEnd ==
    /\ harness = "ended"
    /\ harness' = "idle"
    /\ running' = FALSE
    /\ IF pending = "reactive"
       THEN pending' = "none" /\ recovery' = "snapshot"
       ELSE UNCHANGED <<pending, recovery>>
    /\ UNCHANGED <<starts, retry, turns, overflowed, attempted, modes>>

-----------------------------------------------------------------------------
(* The overflow recovery.                                                  *)

\* As in Snapshot; a failed compaction surrenders and there is no retry.
RecoverySnapshot ==
    /\ recovery = "snapshot"
    /\ \/ recovery' = "none" /\ UNCHANGED harness
       \/ harness = "idle" /\ harness' = "compacting" /\ recovery' = "compacting"
    /\ UNCHANGED <<starts, running, retry, turns, overflowed, compaction, modes>>

\* Only a success schedules the retry.
RecoveryDone ==
    /\ recovery = "compacting"
    /\ recovery' = "none"
    /\ harness' = "idle"
    /\ retry' \in BOOLEAN
    /\ UNCHANGED <<starts, running, turns, overflowed, compaction, modes>>

\* running = true; harness.prompt(), whose rejection sets running = false --
\* even when the harness is busy with somebody else's turn.
RetryFires ==
    /\ retry
    /\ retry' = FALSE
    /\ IF harness = "idle"
       THEN running' = TRUE /\ harness' = "opening"
       ELSE running' = FALSE /\ UNCHANGED harness
    /\ UNCHANGED <<starts, recovery, turns, overflowed, compaction, modes>>

-----------------------------------------------------------------------------
Next ==
    \/ \E m \in Messages : Arrive(m) \/ Snapshot(m) \/ Compacted(m) \/ Recorded(m)
    \/ Start
    \/ \E md \in Modes : SetApprovalMode(md)
    \/ Opened \/ TurnContinues \/ ContextHook \/ LastTurn \/ AgentEnd
    \/ RecoverySnapshot \/ RecoveryDone \/ RetryFires

\* Node runs what is due, and backups and compactions come to an end (the
\* compaction's model call answers or throws).  Nothing is assumed of turns.
Fairness ==
    /\ WF_vars(Start)
    /\ \A m \in Messages : WF_vars(Snapshot(m) \/ Compacted(m) \/ Recorded(m))

Spec == Init /\ [][Next]_vars /\ Fairness

-----------------------------------------------------------------------------
(* Properties.                                                             *)

TypeOK ==
    /\ fate \in [Messages -> Fates]
    /\ override \in [Messages -> Modes \cup {NoMode}]
    /\ chain \in Seq(Messages)
    /\ \A m \in Messages : fate[m] = "waiting" <=> \E i \in 1..Len(chain) : chain[i] = m
    /\ running \in BOOLEAN
    /\ harness \in {"idle", "opening", "turn", "ended", "compacting"}
    /\ recovery \in {"none", "snapshot", "compacting"}
    /\ retry \in BOOLEAN /\ attempted \in BOOLEAN /\ overflowed \in BOOLEAN
    /\ pending \in {"none", "proactive", "reactive"}
    /\ stored \in Modes /\ mode \in Modes
    /\ turns \in 0..MaxTurns /\ toggles \in 0..MaxToggles

\* The running flag never sticks: while it is set, the harness is in a prompt
\* whose end or rejection clears it.  A flag left set would queue every later
\* message on a turn that does not exist (manager.ts:935-943, 529-530).
NotWedged == running => harness \in {"opening", "turn", "ended"}

\* Serialized starts do not race each other: a message is refused by a busy
\* harness only in a session that has had an overflow recovery, which does
\* not take part in the chain (manager.ts:910-917, 594-645).
BusyOnlyAfterOverflow ==
    (\E m \in Messages : fate[m] = "busy") => overflowed

\* The running flag, the harness and the chain of starts agree, whichever of
\* them an answer, a rejection or a compaction moves first.
SessionConsistent == TypeOK /\ NotWedged /\ BusyOnlyAfterOverflow

\* The mode of a turn is the override of the message that starts it or the
\* mode stored at that moment, toggled during an awaited compaction or not
\* (manager.ts:931-934, 1122-1129), and nothing changes it under the turn --
\* in a session that has had no overflow recovery.
ModeOfATurn ==
    [][~overflowed =>
          /\ \A m \in Messages :
                fate[m] # "prompted" /\ fate'[m] = "prompted" =>
                    mode' \in {override[m], stored'}
          /\ harness \in {"opening", "turn"} => mode' = mode]_vars

\* The chain never wedges: every message that arrives is queued, prompted or
\* given up, also behind starts that threw (manager.ts:910-917).
StartsSettle ==
    \A m \in Messages :
        fate[m] = "waiting" ~> fate[m] \notin InStart \cup {"new", "waiting"}

\* "The assistant always takes a turn on it: queued as a follow-up when a run
\* is active, or started as a fresh turn when idle" (manager.ts:947-949): no
\* injected message is refused by a busy harness or dropped.
InjectedTakesATurn ==
    \A m \in Injected : fate[m] \notin {"busy", "dropped"}
=============================================================================

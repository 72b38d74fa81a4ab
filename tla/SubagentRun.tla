----------------------------- MODULE SubagentRun -----------------------------
(***************************************************************************)
(* One task's run() in server/src/task-manager.ts, from the moment its     *)
(* harness exists: the prompt, the timer, cancellation, compaction (the    *)
(* in-loop hook and the orchestration at agent_end), the reactive retry    *)
(* after a context overflow and the one nudge after an interrupted answer. *)
(*                                                                         *)
(* Four actors share the harness: run() itself (main), the event listener, *)
(* the setTimeout(0) of a reactive retry, and whoever aborts (the timer or *)
(* cancel()).  The harness is pi-agent-core's and external: it takes one   *)
(* prompt at a time, a second one throws "busy", and abort() stops only a  *)
(* prompt that is in its agent loop.                                       *)
(***************************************************************************)
EXTENDS Naturals

CONSTANT MaxTurns   \* bound: turns of the agent loop, over all prompts

ASSUME TurnsAssumption == MaxTurns \in Nat

VARIABLES
    main,         \* where run() is; "died": it took the process with it
    prompt,       \* the prompt the harness is working on, or "none"
    phase,        \* where in that prompt the harness is
    stop,         \* how the last turn of the last prompt ended
    aborting,     \* that prompt has been told to abort
    pending,      \* active.compaction.pendingCompaction
    attempted,    \* active.compaction.reactiveRetryAttempted
    surrendered,  \* active.surrenderMessage is set
    stored,       \* active.reactiveRetryPromise
    held,         \* the retry promise run() has taken and awaits
    timer,        \* the task's timeout
    cancelled,    \* the log says the task is cancelled
    outcome,      \* what run() ends with
    turns,        \* turns taken
    streak        \* history: context overflows since the last good turn

runVars == <<main, stored, held, outcome>>
loopVars == <<prompt, phase, stop, aborting>>
compactionVars == <<pending, attempted, surrendered>>
vars == <<runVars, loopVars, compactionVars, timer, cancelled, turns, streak>>

Stops == {"none", "stop", "error", "aborted"}
\* A retry promise: its setTimeout is due, its prompt runs, or it is settled
\* with a message that ended in one of the stops.
Promises == {"none", "timer", "prompting"} \cup Stops

Init ==
    /\ main = "first" /\ prompt = "first" /\ phase = "context"
    /\ stop = "none" /\ aborting = FALSE
    /\ pending = "none" /\ attempted = FALSE /\ surrendered = FALSE
    /\ stored = "none" /\ held = "none"
    /\ timer = "armed" /\ cancelled = FALSE /\ outcome = "none"
    /\ turns = 0 /\ streak = 0

-----------------------------------------------------------------------------
(* run(): what it does when an await returns.                              *)

OutcomeIgnoringTimeout(surr, s) ==
    CASE cancelled -> "silent"
      [] ~cancelled /\ (surr \/ s # "stop") -> "failed"
      [] OTHER -> "completed"

\* The outcome of a run whose last result ended with s.
OutcomeOf(surr, s) ==
    CASE cancelled -> "silent"
      [] ~cancelled /\ (timer = "fired" \/ surr \/ s # "stop") -> "failed"
      [] OTHER -> "completed"

Begin(p) ==
    /\ prompt' = p
    /\ phase' = "context"
    /\ stop' = "none"
    /\ aborting' = FALSE

AtRest ==
    /\ prompt' = "none"
    /\ phase' = "idle"
    /\ aborting' = FALSE
    /\ UNCHANGED stop

\* The finally and all that follows it up to the outcome: the timer is
\* cleared and the task leaves the map of active tasks.
Done(surr, s) ==
    /\ main' = "done"
    /\ outcome' = OutcomeOf(surr, s)
    /\ timer' = IF timer = "armed" THEN "cleared" ELSE timer

\* A first result is in: nudge once when the provider cut it off, at once or
\* after answering the tool calls it left dangling.
Judge(surr) ==
    IF ~surr /\ timer # "fired" /\ stop = "error" /\ ~cancelled
    THEN /\ \/ main' = "nudge" /\ Begin("nudge")
            \/ main' = "dangling" /\ AtRest
         /\ UNCHANGED <<outcome, timer>>
    ELSE Done(surr, stop) /\ AtRest

\* The harness's prompt resolves, leaving a stored retry promise r and the
\* surrender flag surr.
Resolve(r, surr) ==
    \/ /\ prompt \in {"first", "nudge"} /\ r = "timer"
       /\ main' = IF prompt = "first" THEN "await1" ELSE "await2"
       /\ held' = r /\ stored' = "none"
       /\ AtRest
       /\ UNCHANGED <<outcome, timer>>
    \/ /\ prompt = "first" /\ r = "none"
       /\ Judge(surr)
       /\ UNCHANGED <<stored, held>>
    \/ /\ prompt = "nudge" /\ r # "timer"  \* a settled retry has the last word
       /\ Done(surr, IF r = "none" THEN stop ELSE r)
       /\ stored' = "none"
       /\ AtRest
       /\ UNCHANGED held
    \/ /\ prompt = "retry" /\ held = "prompting"
       /\ IF main = "await1" THEN Judge(surr) ELSE Done(surr, stop) /\ AtRest
       /\ held' = "none" /\ stored' = r
    \/ /\ prompt = "retry" /\ held # "prompting"  \* nobody waits for it
       /\ stored' = IF r = "prompting" THEN stop ELSE r
       /\ AtRest
       /\ UNCHANGED <<main, held, outcome, timer>>

\* The dangling tool calls are answered: the nudge finds the harness idle, or
\* throws "busy" and fails the run.
StartNudge ==
    /\ main = "dangling"
    /\ IF prompt = "none"
       THEN main' = "nudge" /\ Begin("nudge") /\ UNCHANGED <<outcome, timer>>
       ELSE Done(surrendered, "error") /\ UNCHANGED loopVars
    /\ UNCHANGED <<stored, held, compactionVars, cancelled, turns, streak>>

-----------------------------------------------------------------------------
(* The agent loop and the listeners called from it.                        *)

\* The context hook before each model call: a pending compaction is taken and
\* tried; when it does not work out the run surrenders, though the loop goes
\* on (unless logging the event throws, which the hook swallows).
ContextHook ==
    /\ phase = "context"
    /\ phase' = "turn"
    /\ pending' = "none"
    /\ surrendered' \in {surrendered, surrendered \/ pending # "none"}
    /\ UNCHANGED <<runVars, prompt, stop, aborting, attempted, timer, cancelled,
                   turns, streak>>

\* A retry's setTimeout(0) fires before a model call can come back.
RetryDue == "timer" \in {stored, held}

\* A turn ends well and the loop goes on: turn_end may ask for compaction.
TurnContinues ==
    /\ phase = "turn" /\ ~aborting /\ ~RetryDue
    /\ turns < MaxTurns
    /\ turns' = turns + 1
    /\ phase' = "context"
    /\ attempted' = FALSE
    /\ pending' \in {pending, "proactive"}
    /\ streak' = 0
    /\ UNCHANGED <<runVars, prompt, stop, aborting, surrendered, timer,
                   cancelled>>

OverflowForgetsAttempt ==
    /\ attempted' = attempted
    /\ pending' = "reactive"
    /\ UNCHANGED surrendered

\* turn_end on a context overflow: ask for compaction and a retry, but only
\* once until a turn ends well.
Overflow ==
    IF attempted
    THEN /\ pending' = "none"
         /\ attempted' = FALSE
         /\ surrendered' = TRUE
    ELSE /\ attempted' = TRUE
         /\ pending' = "reactive"
         /\ UNCHANGED surrendered

\* The last turn of a prompt ends: well, aborted, in an overflow, or in some
\* other error.  An aborted loop can end in no other way.
LastTurn ==
    /\ phase = "turn" /\ ~RetryDue
    /\ phase' = "ended"
    /\ \/ /\ stop' = IF aborting THEN "aborted" ELSE "stop"
          /\ attempted' = FALSE
          /\ pending' \in {pending, "proactive"}
          /\ streak' = 0
          /\ UNCHANGED surrendered
       \/ /\ ~aborting
          /\ stop' = "error"
          /\ Overflow
          /\ streak' = streak + 1
       \/ /\ ~aborting
          /\ stop' = "error"
          /\ UNCHANGED <<compactionVars, streak>>
    /\ UNCHANGED <<runVars, prompt, aborting, timer, cancelled, turns>>

\* agent_end: the listener compacts when asked to, and the prompt resolves
\* only when the listener is done; the phase remembers the trigger.
AgentEnd ==
    /\ phase = "ended"
    /\ IF pending # "none"
       THEN /\ phase' = pending
            /\ pending' = "none"
            /\ UNCHANGED <<runVars, prompt, stop, aborting, timer>>
       ELSE /\ Resolve(stored, surrendered)
            /\ UNCHANGED pending
    /\ UNCHANGED <<attempted, surrendered, cancelled, turns, streak>>

\* The compaction at agent_end succeeds, fails, leaves a session that does
\* not load, or is cut short by an error the listener swallows.
Compacted ==
    /\ phase \in {"reactive", "proactive"}
    /\ \E result \in {"succeeded", "failed", "unloadable", "threw"} :
          LET surr == \/ surrendered
                      \/ result = "unloadable"
                      \/ result = "failed" /\ phase = "reactive"
              retry == IF phase = "reactive" /\ result = "succeeded"
                       THEN "timer" ELSE stored
          IN  /\ surrendered' = surr
              /\ Resolve(retry, surr)
    /\ UNCHANGED <<pending, attempted, cancelled, turns, streak>>

\* Nobody handles the rejection: Node ends the process.
Dies ==
    /\ main' = "died" /\ stored' = "none" /\ held' = "none"
    /\ timer' = "cleared"
    /\ AtRest
    /\ UNCHANGED outcome

RetryTimerSkipsCancelled ==
    /\ RetryDue
    /\ IF main # "done" /\ prompt = "none" /\ ~cancelled
       THEN Begin("retry") /\ held' = "prompting"
       ELSE held' = "none" /\ UNCHANGED loopVars
    /\ stored' = "none"
    /\ UNCHANGED <<main, outcome, timer, compactionVars, cancelled, turns, streak>>

\* The setTimeout(0) of a reactive retry: prompt again.  For a task that is
\* no longer active, or a harness that is busy, the promise rejects, and a
\* rejection nobody awaits ends the process.
RetryTimer ==
    /\ RetryDue
    /\ IF main # "done" /\ prompt = "none"
       THEN /\ Begin("retry")
            /\ IF held = "timer"
               THEN held' = "prompting" /\ UNCHANGED stored
               ELSE stored' = "prompting" /\ UNCHANGED held
            /\ UNCHANGED <<main, outcome, timer>>
       ELSE Dies
    /\ UNCHANGED <<compactionVars, cancelled, turns, streak>>

-----------------------------------------------------------------------------
(* Those who abort.  abort() reaches only a prompt in its loop.            *)

Abort == aborting' = (aborting \/ phase \in {"context", "turn"})

TimerFires ==
    /\ timer = "armed"
    /\ timer' = "fired"
    /\ Abort
    /\ UNCHANGED <<runVars, prompt, phase, stop, compactionVars, cancelled, turns,
                   streak>>

Cancel ==
    /\ main # "died" /\ outcome = "none" /\ ~cancelled
    /\ cancelled' = TRUE
    /\ Abort
    /\ UNCHANGED <<runVars, prompt, phase, stop, compactionVars, timer, turns,
                   streak>>

Next ==
    \/ StartNudge
    \/ ContextHook \/ TurnContinues \/ LastTurn \/ AgentEnd \/ Compacted
    \/ RetryTimer \/ TimerFires \/ Cancel

\* Node keeps calling what is due.  A prompt need not come back by itself: a
\* model call or a tool may hang until it is aborted.
Fairness ==
    /\ WF_vars(StartNudge)
    /\ WF_vars(ContextHook \/ AgentEnd \/ Compacted)
    /\ WF_vars(aborting /\ LastTurn)
    /\ WF_vars(RetryTimer)
    /\ WF_vars(TimerFires)

\* The world may hang.
Spec == Init /\ [][Next]_vars /\ Fairness

\* The world answers: every turn ends.
AnsweringSpec == Spec /\ WF_vars(LastTurn)

-----------------------------------------------------------------------------
(* Properties.                                                             *)

TypeOK ==
    /\ main \in {"first", "await1", "dangling", "nudge", "await2", "done",
                "died"}
    /\ prompt \in {"none", "first", "nudge", "retry"}
    /\ phase \in {"idle", "context", "turn", "ended", "reactive", "proactive"}
    /\ (prompt = "none") = (phase = "idle")
    /\ stop \in Stops
    /\ aborting \in BOOLEAN /\ attempted \in BOOLEAN /\ surrendered \in BOOLEAN
    /\ pending \in {"none", "proactive", "reactive"}
    /\ stored \in Promises /\ held \in Promises
    /\ timer \in {"armed", "fired", "cleared"}
    /\ cancelled \in BOOLEAN
    /\ outcome \in {"none", "completed", "failed", "silent"}
    /\ turns \in 0..MaxTurns
    /\ streak \in Nat

\* Overflow, compact, retry, overflow does not go round in circles: a second
\* overflow with no good turn in between surrenders (task-manager.ts:349-356).
OverflowLoopBroken == streak >= 2 => surrendered

\* A report is completed only when the answer it carries ended well -- the
\* nudge's, or that of a retry that had settled -- and no timeout, surrender
\* or cancel had happened, in any order of the four actors
\* (task-manager.ts:646-668).
CompletedIsGenuine ==
    [][outcome' = "completed" =>
          /\ "stop" \in {stop, stored}
          /\ timer # "fired" /\ ~surrendered' /\ ~cancelled]_outcome

\* A request for compaction does not outlive the prompt that made it: between
\* prompts none is pending, so a retry never starts with a stale trigger.
NoStaleRequest == phase = "idle" => pending = "none"

\* The two ends of a run and the two of a prompt stay together, in any order
\* of the model's answers, the retry timer, the timeout and a cancel: nothing
\* of one prompt is left to the next, and no overflow is answered twice.
RunConsistent == TypeOK /\ OverflowLoopBroken /\ NoStaleRequest

\* When the world answers, the run comes to an end, or takes the process
\* with it: no actor waits for another forever.
RunEnds == <>(main \in {"done", "died"})

\* "On expiry the harness is aborted and the task is recorded failed"
\* (docs/agents/delegation.md:74-75): after the timeout the run ends, hang or no.
TimeoutEndsRun == timer = "fired" ~> (main \in {"done", "died"})

\* "subagents store that retry promise because the retry's assistant message
\* becomes the task's final outcome" (task-manager.ts:293-294): no run ends
\* with a retry it has not awaited.
RetryBecomesOutcome == main = "done" => stored = "none"
=============================================================================

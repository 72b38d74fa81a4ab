----------------------------- MODULE ToolProcess -----------------------------
(***************************************************************************)
(* The tools that run a program: bash, grep and find                       *)
(* (server/src/tools/shell.ts, search.ts) one, git and run_checks          *)
(* (git.ts, run-checks.ts) `git rev-parse' and then the command.  A child  *)
(* process, whatever it starts itself and leaves its pipes to, the timer   *)
(* and the answer of the tool call.  Nothing listens to an abort.          *)
(***************************************************************************)
EXTENDS Naturals

CONSTANTS
    MaxChildren,    \* bound: processes that the children start
    OutputCap       \* chunks of output that are kept (50,000 characters)

ASSUME ProcessAssumption == {MaxChildren, OutputCap} \subseteq Nat

VARIABLES
    kind,       \* of the tool: "bash", "git", "run_checks"
    stage,      \* "new", "root" (rev-parse), "command", "answered", "threw"
    child,      \* "none", "running", "gone": the process of the stage
    code,       \* its exit code: "0", "1" or "null" (killed)
    descendants, forks, \* those that hold its pipes; how many there were
    timer, timedOut,
    output,     \* chunks read
    verdict     \* the details of the answer

procVars == <<kind, stage, child, code, descendants, forks, timer, timedOut, output, verdict>>

NoVerdict == [code |-> "null", timedOut |-> FALSE, truncated |-> FALSE]
Alive == child = "running" \/ descendants > 0

ProcessInit ==
    /\ kind \in {"bash", "git", "run_checks"} /\ stage = "new"
    /\ child = "none" /\ code = "null" /\ descendants = 0 /\ forks = 0
    /\ timer = "off" /\ timedOut = FALSE /\ output = 0 /\ verdict = NoVerdict

\* spawn() and setTimeout(): run_checks looks for its root without a timer.
Run(next) ==
    /\ stage' = next /\ child' = "running" /\ code' = "null" /\ output' = 0
    /\ timer' = IF kind = "run_checks" /\ next = "root" THEN "off" ELSE "armed"
    /\ timedOut' = FALSE
    /\ UNCHANGED <<kind, descendants, forks, verdict>>

Ends(how, v) ==
    /\ stage' = how /\ verdict' = v /\ timer' = "off"
    /\ UNCHANGED <<kind, child, code, descendants, forks, timedOut, output>>

StartProcess ==
    /\ stage = "new"
    /\ Run(IF kind = "bash" THEN "command" ELSE "root")

\* The event "error": a program that cannot be started.
SpawnError ==
    /\ child = "running" /\ forks = 0 /\ output = 0 /\ timer = "armed"
    /\ Ends(IF stage = "root" THEN "threw" ELSE "answered", NoVerdict)

\* npm starts a shell that starts the tests; bash starts what ends in &.
Forks ==
    /\ stage = "command" /\ Alive /\ forks < MaxChildren
    /\ forks' = forks + 1 /\ descendants' = descendants + 1
    /\ UNCHANGED <<kind, stage, child, code, timer, timedOut, output, verdict>>

\* append(): what comes after the cap is dropped.
Prints ==
    /\ stage = "command" /\ Alive /\ output =< OutputCap
    /\ output' = output + 1
    /\ UNCHANGED <<kind, stage, child, code, descendants, forks, timer, timedOut, verdict>>

DescendantExits ==
    /\ descendants > 0
    /\ descendants' = descendants - 1
    /\ UNCHANGED <<kind, stage, child, code, forks, timer, timedOut, output, verdict>>

ChildExits ==
    /\ child = "running" /\ stage \in {"root", "command"}
    /\ child' = "gone" /\ code' \in {"0", "1"}
    /\ UNCHANGED <<kind, stage, descendants, forks, timer, timedOut, output, verdict>>

\* SIGKILL for the child, and for nobody else.
TimerFires ==
    /\ timer = "armed"
    /\ timer' = "off" /\ timedOut' = TRUE /\ child' = "gone"
    /\ UNCHANGED <<kind, stage, code, descendants, forks, output, verdict>>

\* "close" comes when the child is gone and nobody holds its pipes.  The
\* command follows the root; its package.json may name no such script.
AtClose ==
    /\ stage \in {"root", "command"} /\ child = "gone" /\ descendants = 0
    /\ IF stage = "command"
       THEN Ends("answered", [code |-> code, timedOut |-> timedOut,
                              truncated |-> output > OutputCap])
       ELSE \/ code = "0" /\ Run("command")
            \/ code = "0" /\ kind = "run_checks" /\ Ends("answered", NoVerdict)
            \/ Ends("threw", NoVerdict)

\* A slip of Close: it waits for the exit of a child that was killed.
CloseUnlessKilled == AtClose /\ ~timedOut

Close == AtClose

ProcessNext ==
    \/ StartProcess \/ SpawnError \/ Forks \/ Prints \/ DescendantExits \/ ChildExits
    \/ TimerFires \/ Close

\* Timers fire, node reports the close, and `git rev-parse' ends.
ProcessFairness ==
    /\ WF_procVars(TimerFires) /\ WF_procVars(Close)
    /\ WF_procVars(stage = "root" /\ ChildExits)

ProcessSpec == ProcessInit /\ [][ProcessNext]_procVars /\ ProcessFairness

-----------------------------------------------------------------------------

\* The type invariant; a timer outlives neither its child's pipes nor the
\* answer (clearTimeout), and a verdict that a command passed is about a
\* command that ended by itself, whatever the timer did meanwhile.
ProcessTypeOK ==
    /\ kind \in {"bash", "git", "run_checks"}
    /\ stage \in {"new", "root", "command", "answered", "threw"}
    /\ child \in {"none", "running", "gone"} /\ code \in {"0", "1", "null"}
    /\ descendants \in 0 .. forks /\ forks \in 0 .. MaxChildren
    /\ timer \in {"off", "armed"} /\ timedOut \in BOOLEAN /\ output \in 0 .. OutputCap + 1
    /\ stage \in {"new", "answered", "threw"} => timer = "off"
    /\ verdict.code = "0" => code = "0" /\ stage = "answered"

\* Once the processes that a tool's child left behind are gone for good, the
\* tool call is answered, however long the child itself would have run: the
\* turn that waits for it, and the cancellation that waits for the turn, go on.
ToolCallsEnd ==
    <>[](stage # "new" /\ descendants = 0) => <>(stage \in {"answered", "threw"})

\* Not so: "Max runtime in seconds (default 120)" (tools/shell.ts:59): once its timer
\* has fired the call is answered.  The kill reaches the shell and not what the
\* shell waits for, which keeps the pipes open and the call unanswered.
MaxRuntime == timedOut ~> stage \in {"answered", "threw"}
=============================================================================

----------------------------- MODULE TaskManager -----------------------------
(***************************************************************************)
(* Delegated background tasks: server/src/task-manager.ts on top of the    *)
(* append-only task log of server/src/tasks.ts.                            *)
(*                                                                         *)
(* delegate() records a task and queues it; pump() starts queued tasks     *)
(* while a slot is free; run() is one coroutine per started task.  The     *)
(* server is one Node process, so a step of this module is the code        *)
(* between two awaits, and anything may happen at an await.  The log       *)
(* survives a crash; the queue, the slots and the coroutines do not.       *)
(*                                                                         *)
(* What one prompt of a subagent does (retries, compaction, the timer) is  *)
(* the business of module SubagentRun; here it settles with some outcome.  *)
(***************************************************************************)
EXTENDS Integers, Sequences, FiniteSets

CONSTANTS
    Tasks,        \* the ids delegate() can hand out
    Concurrency,  \* opts.concurrency, clamped to at least 1 (config.ts:54)
    MaxCrashes    \* bound: how often the process dies

ASSUME ConstantsAssumption ==
    /\ IsFiniteSet(Tasks)
    /\ Concurrency \in Nat \ {0}
    /\ MaxCrashes \in Nat

VARIABLES
    log,         \* tasks/<id>.jsonl: the events of each task, on disk
    queue,       \* TaskManager.queue
    running,     \* TaskManager.runningCount
    pc,          \* where the run() coroutine of each task is
    recovering,  \* ids recoverInterrupted() has still to visit
    noticing,    \* ids whose interruption note is being awaited (at most one)
    told,        \* how many messages about each task its parent received
    crashes      \* how often the process died

vars == <<log, queue, running, pc, recovering, noticing, told, crashes>>

\* Events after "created"; the names are also the statuses they lead to,
\* except "started", which leads to "running".
Final == {"completed", "failed", "cancelled", "interrupted"}
Events == {"created", "started"} \cup Final

\* run(): "setup" awaits the subagent's session files, "active" awaits the
\* harness, "notify" awaits notifyParent, "exit" is the pending finally.
Points == {"idle", "setup", "active", "notify", "exit"}

-----------------------------------------------------------------------------
(* Reading and writing the log.                                            *)

\* foldTaskEvents: "created" comes first and every later event sets the
\* status, so the last event decides.
Fold(events) ==
    IF events = <<>> THEN "absent"
    ELSE LET e == events[Len(events)]
         IN  CASE e = "created" -> "pending"
               [] e = "started" -> "running"
               [] OTHER -> e

Unsettled(t) == Fold(log[t]) \in {"pending", "running"}

Record(t, e) == log' = [log EXCEPT ![t] = Append(@, e)]

Live == {t \in Tasks : pc[t] # "idle"}

Elements(q) == {q[i] : i \in 1..Len(q)}

\* The queue filtered of t, which is in it at most once (QueueExact).
Without(q, t) ==
    IF t \notin Elements(q) THEN q
    ELSE LET k == CHOOSE i \in 1..Len(q) : q[i] = t
         IN  [i \in 1..(Len(q) - 1) |-> IF i < k THEN q[i] ELSE q[i + 1]]

-----------------------------------------------------------------------------
(* pump(): start queued tasks, oldest first, while a slot is free.  The    *)
(* part of run() before its first await is the status check.               *)

PumpedOffByOne(q, r) ==
    IF Len(q) =< Concurrency - r + 1 THEN Len(q) ELSE Concurrency - r + 1

Pumped(q, r) == IF Len(q) =< Concurrency - r THEN Len(q) ELSE Concurrency - r

\* The effect of pump() when it finds queue q, runningCount r and points p.
Pump(q, r, p) ==
    LET n == Pumped(q, r)
        started == {q[i] : i \in 1..n}
    IN  /\ queue' = SubSeq(q, n + 1, Len(q))
        /\ running' = r + n
        /\ pc' = [t \in Tasks |->
                     IF t \notin started THEN p[t]
                     ELSE IF Fold(log'[t]) = "pending" THEN "setup" ELSE "exit"]

-----------------------------------------------------------------------------
Init ==
    /\ log = [t \in Tasks |-> <<>>]
    /\ queue = <<>>
    /\ running = 0
    /\ pc = [t \in Tasks |-> "idle"]
    /\ recovering = {}
    /\ noticing = {}
    /\ told = [t \in Tasks |-> 0]
    /\ crashes = 0

\* delegate().  Once recovery has told a first parent, that parent's session
\* may delegate before the rest is recovered, so recovering is no guard.
Delegate(t) ==
    /\ log[t] = <<>>
    /\ Record(t, "created")
    /\ Pump(Append(queue, t), running, pc)
    /\ UNCHANGED <<recovering, noticing, told, crashes>>

\* cancel(): unknown and settled tasks are refused before anything changes.
\* The abort of the harness is fire-and-forget: an active run settles later.
Cancel(t) ==
    /\ Unsettled(t)
    /\ queue' = Without(queue, t)
    /\ Record(t, "cancelled")
    /\ UNCHANGED <<running, pc, recovering, noticing, told, crashes>>

\* cancelAll(), at SIGTERM: cancel() of the tasks that have a harness.  None
\* of them is queued.
CancelAll ==
    LET hit == {t \in Tasks : pc[t] = "active" /\ Unsettled(t)}
    IN  /\ hit # {}
        /\ log' = [t \in Tasks |->
                      IF t \in hit THEN Append(log[t], "cancelled") ELSE log[t]]
        /\ UNCHANGED <<queue, running, pc, recovering, noticing, told, crashes>>

-----------------------------------------------------------------------------
(* run(), one action per stretch between awaits.                           *)

\* The session files exist: record the start and prompt the harness.
SetupDone(t) ==
    /\ pc[t] = "setup"
    /\ Record(t, "started")
    /\ pc' = [pc EXCEPT ![t] = "active"]
    /\ UNCHANGED <<queue, running, recovering, noticing, told, crashes>>

OutcomeNoCancelCheck(t, o) ==
    /\ Record(t, o)
    /\ pc' = [pc EXCEPT ![t] = "notify"]

\* The tail of run(): a cancelled task ends silently, any other has its
\* outcome recorded and its parent notified.
Outcome(t, o) ==
    IF Fold(log[t]) = "cancelled"
    THEN /\ pc' = [pc EXCEPT ![t] = "exit"]
         /\ UNCHANGED log
    ELSE /\ Record(t, o)
         /\ pc' = [pc EXCEPT ![t] = "notify"]

\* Creating the session throws.
SetupFail(t) ==
    /\ pc[t] = "setup"
    /\ Outcome(t, "failed")
    /\ UNCHANGED <<queue, running, recovering, noticing, told, crashes>>

\* The harness is done with the task, in whatever way.
Settle(t) ==
    /\ pc[t] = "active"
    /\ \E o \in {"completed", "failed"} : Outcome(t, o)
    /\ UNCHANGED <<queue, running, recovering, noticing, told, crashes>>

\* notifyParent delivers the message or throws, and the error is swallowed.
Notify(t) ==
    /\ pc[t] = "notify"
    /\ told' \in {told, [told EXCEPT ![t] = @ + 1]}
    /\ pc' = [pc EXCEPT ![t] = "exit"]
    /\ UNCHANGED <<log, queue, running, recovering, noticing, crashes>>

ExitNoPump(t) ==
    /\ pc[t] = "exit"
    /\ running' = running - 1
    /\ pc' = [pc EXCEPT ![t] = "idle"]
    /\ UNCHANGED <<log, queue, recovering, noticing, told, crashes>>

\* The finally of pump(): give the slot back and pump again.
Exit(t) ==
    /\ pc[t] = "exit"
    /\ UNCHANGED <<log, recovering, noticing, told, crashes>>
    /\ Pump(queue, running - 1, [pc EXCEPT ![t] = "idle"])

-----------------------------------------------------------------------------
(* Crash and boot.                                                         *)

CrashNoRecovery ==
    /\ crashes < MaxCrashes
    /\ crashes' = crashes + 1
    /\ queue' = <<>>
    /\ running' = 0
    /\ pc' = [t \in Tasks |-> "idle"]
    /\ recovering' = {}
    /\ noticing' = {}
    /\ UNCHANGED <<log, told>>

\* The process dies, at any step, and boots again: recoverInterrupted() lists
\* the ids on disk once, before anything can delegate.
Crash ==
    /\ crashes < MaxCrashes
    /\ crashes' = crashes + 1
    /\ queue' = <<>>
    /\ running' = 0
    /\ pc' = [t \in Tasks |-> "idle"]
    /\ recovering' = {t \in Tasks : log[t] # <<>>}
    /\ noticing' = {}
    /\ UNCHANGED <<log, told>>

RecoverAnyState(t) ==
    /\ t \in recovering
    /\ noticing = {}
    /\ recovering' = recovering \ {t}
    /\ Record(t, "interrupted")
    /\ noticing' = {t}
    /\ UNCHANGED <<queue, running, pc, told, crashes>>

RecoverRelisting(t) ==
    /\ recovering # {}
    /\ noticing = {}
    /\ recovering' = recovering \ {t}
    /\ Unsettled(t)
    /\ Record(t, "interrupted")
    /\ noticing' = {t}
    /\ UNCHANGED <<queue, running, pc, told, crashes>>

\* One turn of the loop in recoverInterrupted(): a task the dead process left
\* unsettled becomes interrupted and the loop awaits notifyParent.
Recover(t) ==
    /\ t \in recovering
    /\ noticing = {}
    /\ recovering' = recovering \ {t}
    /\ IF Unsettled(t)
       THEN Record(t, "interrupted") /\ noticing' = {t}
       ELSE UNCHANGED <<log, noticing>>
    /\ UNCHANGED <<queue, running, pc, told, crashes>>

\* The awaited note is delivered, or its error swallowed.
Notice(t) ==
    /\ t \in noticing
    /\ noticing' = {}
    /\ told' \in {told, [told EXCEPT ![t] = @ + 1]}
    /\ UNCHANGED <<log, queue, running, pc, recovering, crashes>>

-----------------------------------------------------------------------------
\* The coroutine of t goes on.
Run(t) == SetupDone(t) \/ SetupFail(t) \/ Settle(t) \/ Notify(t) \/ Exit(t)

Next ==
    \/ \E t \in Tasks : Delegate(t)
    \/ \E t \in Tasks : Cancel(t)
    \/ CancelAll
    \/ \E t \in Tasks : Run(t)
    \/ Crash
    \/ \E t \in Tasks : Recover(t) \/ Notice(t)

\* Node resumes every coroutine whose await settles.  A prompt settles: the
\* timer aborts the harness (SubagentRun says when that is enough).  Boot
\* runs recoverInterrupted() to its end.  Nobody has to delegate or cancel.
Fairness ==
    /\ \A t \in Tasks : WF_vars(Run(t))
    /\ \A t \in Tasks : WF_vars(Recover(t) \/ Notice(t))

Spec == Init /\ [][Next]_vars /\ Fairness

-----------------------------------------------------------------------------
(* Properties.                                                             *)

TypeOK ==
    /\ log \in [Tasks -> Seq(Events)]
    /\ queue \in Seq(Tasks)
    /\ running \in 0..Concurrency
    /\ pc \in [Tasks -> Points]
    /\ recovering \subseteq Tasks
    /\ noticing \subseteq Tasks
    /\ told \in [Tasks -> Nat]
    /\ crashes \in 0..MaxCrashes

\* No slot leaks and none is handed out twice: runningCount is the number of
\* run() coroutines, however they ended (task-manager.ts:258-267).
SlotsAccounted == running = Cardinality(Live)

\* pump() loses no wakeup: a task waits only while every slot is taken.
WorkConserving == queue # <<>> => running = Concurrency

\* The queue holds, once each, exactly the tasks that are still to start: a
\* queued task is pending, and a pending task is queued, being set up, or
\* left by a dead process for recoverInterrupted() to settle.
QueueExact ==
    /\ \A i, j \in 1..Len(queue) : queue[i] = queue[j] => i = j
    /\ \A t \in Elements(queue) : Fold(log[t]) = "pending" /\ pc[t] = "idle"
    /\ \A t \in Tasks : Fold(log[t]) = "pending" =>
          t \in Elements(queue) \/ pc[t] = "setup" \/ t \in recovering

\* The pool and its queue stay in step with the log: every slot, every waiting
\* task and every pending one is accounted for, once, after each interleaving
\* of pump(), cancels, ends and crashes.
PoolExact == SlotsAccounted /\ WorkConserving /\ QueueExact

\* A cancel of a task that has started is the last thing ever recorded of it,
\* whatever its subagent was about to report (task-manager.ts:179, 667).
CancelOfStartedIsFinal ==
    \A t \in Tasks : \A i, j \in 1..Len(log[t]) :
        i < j /\ log[t][i] = "started" /\ log[t][j] = "cancelled"
            => j = Len(log[t])

\* Recovery settles what the dead process left and nothing else: a task with
\* a coroutine or a place in the queue is never called interrupted, although
\* the parents that recovery wakes delegate while it is still going.
RecoverySparesTheLiving ==
    \A t \in Tasks : Fold(log[t]) = "interrupted" =>
        pc[t] = "idle" /\ t \notin Elements(queue)

\* No parent is told twice, not even by a recovery after the outcome was
\* recorded and the process died before or after the message.
ToldAtMostOnce == \A t \in Tasks : told[t] =< 1

\* What makes the invariants above inductive (module TaskManagerProofs).  The
\* log of a task: created comes first and only there, and no start is
\* recorded before its setup is over.
LogShape ==
    \A t \in Tasks :
        /\ \A i \in 1..Len(log[t]) : log[t][i] = "created" => i = 1
        /\ pc[t] = "setup" => \A i \in 1..Len(log[t]) : log[t][i] # "started"

\* Where a task is, across log, coroutine, recovery and messages: what is to
\* be recovered is in no one else's hands, a coroutine that reports or leaves
\* has a settled task, and whoever may still report has not done so.
Stage(t) ==
    /\ log[t] = <<>> => pc[t] = "idle"
    /\ t \in recovering =>
          log[t] # <<>> /\ pc[t] = "idle" /\ t \notin Elements(queue)
    /\ pc[t] \in {"setup", "active"} =>
          Fold(log[t]) \in {"pending", "running", "cancelled"}
    /\ pc[t] = "notify" => Fold(log[t]) \in {"completed", "failed"}
    /\ pc[t] = "exit" => Fold(log[t]) \in Final
    /\ t \in noticing => Fold(log[t]) = "interrupted"
    /\ told[t] # 0 =>
          /\ log[t] # <<>> /\ ~Unsettled(t) /\ t \notin noticing
          /\ pc[t] \notin {"setup", "active", "notify"}

Stages == \A t \in Tasks : Stage(t)

\* The inductive invariant: all of the above, which hold only together.
IInv ==
    /\ TypeOK /\ SlotsAccounted /\ WorkConserving /\ QueueExact
    /\ CancelOfStartedIsFinal /\ RecoverySparesTheLiving /\ ToldAtMostOnce
    /\ LogShape /\ Stages

\* Every delegated task comes to rest: it is settled and its slot is free.
EveryTaskEnds ==
    \A t \in Tasks : log[t] # <<>> ~> Fold(log[t]) \in Final /\ pc[t] = "idle"

\* "Unless the task was cancelled, the outcome text is injected into the
\* parent session" and "a cancel always wins" (docs/agents/delegation.md:43
\* and 87): no parent hears of a task that was cancelled.
CancelWins ==
    \A t \in Tasks : "cancelled" \in Elements(log[t]) => told[t] = 0

-----------------------------------------------------------------------------
(* The contract of module TaskContract.  A cancellation that lands while   *)
(* run() is in setup settles nothing yet: the start is still to be         *)
(* recorded on top of it.                                                  *)

OutcomeOf(t) ==
    LET s == Fold(log[t])
    IN  IF s \in {"pending", "running"} \/ (s = "cancelled" /\ pc[t] = "setup")
        THEN "open" ELSE s

Contract == INSTANCE TaskContract WITH
    outcome <- [t \in Tasks |-> OutcomeOf(t)],
    told <- [t \in Tasks |-> told[t] > 0]

\* Each task is settled once and its parent told at most once, of a recorded
\* outcome that is not a cancellation, across crashes and recoveries.
ImplementsContract == Contract!ContractSpec
=============================================================================

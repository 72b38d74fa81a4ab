------------------------------ MODULE Scheduler ------------------------------
(***************************************************************************)
(* One-shot and cron reminders: server/src/scheduler.ts on top of the      *)
(* append-only schedules.jsonl of server/src/schedules.ts.                 *)
(*                                                                         *)
(* tick() and catchUp() walk a snapshot of the schedules that are due and  *)
(* await the injection of each one's prompt; between two awaits a session  *)
(* can create or cancel schedules, the server can be told to stop, and the *)
(* process can die.  The stored events are modelled by their fold, which   *)
(* every step extends by the events it appends.                            *)
(***************************************************************************)
EXTENDS Integers, Sequences, FiniteSetsExt

CONSTANTS
    Period,        \* the crons fire at the multiples of it
    MaxTime,       \* bound: the clock stops here
    MaxSchedules,  \* bound: schedules created
    MaxExits       \* bound: times the process ends, by crash or by drain

ASSUME ConstantsAssumption ==
    /\ Period \in Nat \ {0}
    /\ MaxTime \in Nat /\ MaxSchedules \in Nat /\ MaxExits \in Nat

VARIABLES
    clock,      \* Date.now()
    rows,       \* foldAll(): the schedules in creation order, on disk
    proc,       \* "down", "booting" (in catchUp), "up", "draining" (stopped)
    loop,       \* the tick or catchUp in flight
    bootedAt,   \* when this process started
    delivered,  \* history: how many prompts of each schedule were injected
    posthumous, \* history: firings recorded after a cancel
    exits       \* how often the process ended

vars == <<clock, rows, proc, loop, bootedAt, delivered, posthumous, exits>>

Ids == 1..MaxSchedules
NoTime == 0  \* nextFireAt = null, lastFiredAt = null

Row == [kind : {"once", "cron"}, enabled : BOOLEAN, cancelled : BOOLEAN,
        next : Nat, last : Nat, fired : Nat]

\* loop.mode: which loop; todo: the snapshot still to visit; at: its `now`;
\* firing: the schedule whose injection is awaited, 0 for none.
Idle == [mode |-> "none", todo |-> {}, at |-> 0, firing |-> 0]

-----------------------------------------------------------------------------
CronFrom(t) == (t \div Period + 1) * Period

CronFromMissed(r, t) == r.next + Period

\* computeNextFire of a cron: the first occurrence after t.  The schedule's
\* own idea of what is next plays no part.
ComputeNextFire(r, t) == CronFrom(t)

\* The rows tick() and catchUp() do not skip.
Due(r, t) == r.enabled /\ r.next # NoTime /\ r.next =< t

DueIds == {s \in 1..Len(rows) : Due(rows[s], clock)}

FiredStaysArmed(r) ==
    [r EXCEPT !.fired = @ + 1,
              !.last = clock,
              !.next = IF r.kind = "cron" THEN ComputeNextFire(r, clock) ELSE @]

\* The fold of a "fired" event.
Fired(r) ==
    [r EXCEPT !.fired = @ + 1,
              !.last = clock,
              !.next = IF r.kind = "cron" THEN ComputeNextFire(r, clock)
                       ELSE NoTime,
              !.enabled = @ /\ r.kind = "cron"]

\* The fold of a "rescheduled" event.
Rescheduled(r, t) == [r EXCEPT !.next = ComputeNextFire(r, t)]

\* What a loop fires: tick() everything, catchUp() only one-shots.
Fires(m, todo) == {s \in todo : m = "tick" \/ rows[s].kind = "once"}

\* A loop m, whose snapshot was taken at time t, goes on from the rows todo to
\* its next await: it reschedules the crons it skips, then records the next
\* firing, before the prompt is injected.
Walk(m, todo, t) ==
    LET toFire == Fires(m, todo)
        f == IF toFire = {} THEN 0 ELSE Min(toFire)
        skipped == {s \in todo \ toFire : f = 0 \/ s < f}
    IN  /\ rows' = [s \in 1..Len(rows) |->
                       IF s = f THEN Fired(rows[s])
                       ELSE IF s \in skipped THEN Rescheduled(rows[s], t)
                       ELSE rows[s]]
        /\ posthumous' = IF f # 0 /\ rows[f].cancelled
                         THEN [posthumous EXCEPT ![f] = @ + 1]
                         ELSE posthumous
        /\ loop' = IF f = 0 THEN Idle
                   ELSE [mode |-> m, todo |-> todo \ (skipped \cup {f}),
                         at |-> t, firing |-> f]

-----------------------------------------------------------------------------
Init ==
    /\ clock = 0
    /\ rows = <<>>
    /\ proc = "down"
    /\ loop = Idle
    /\ bootedAt = 0
    /\ delivered = [s \in Ids |-> 0]
    /\ posthumous = [s \in Ids |-> 0]
    /\ exits = 0

Pass ==
    /\ clock < MaxTime
    /\ clock' = clock + 1
    /\ UNCHANGED <<rows, proc, loop, bootedAt, delivered, posthumous, exits>>

\* A session creates a one-shot for a future time, or a cron.  Sessions run
\* whenever the process does.
Create ==
    /\ proc # "down" /\ Len(rows) < MaxSchedules
    /\ \E k \in {"once", "cron"}, n \in (clock + 1)..MaxTime :
          /\ k = "cron" => n = CronFrom(clock)
          /\ rows' = Append(rows, [kind |-> k, enabled |-> TRUE,
                                   cancelled |-> FALSE, next |-> n,
                                   last |-> NoTime, fired |-> 0])
    /\ UNCHANGED <<clock, proc, loop, bootedAt, delivered, posthumous, exits>>

Cancel(s) ==
    /\ proc # "down" /\ s =< Len(rows) /\ rows[s].enabled
    /\ rows' = [rows EXCEPT ![s].cancelled = TRUE, ![s].enabled = FALSE]
    /\ UNCHANGED <<clock, proc, loop, bootedAt, delivered, posthumous, exits>>

\* The interval timer calls tick(), which skips when one is in flight.
Tick ==
    /\ proc = "up" /\ loop = Idle /\ DueIds # {}
    /\ Walk("tick", DueIds, clock)
    /\ UNCHANGED <<clock, proc, bootedAt, delivered, exits>>

ResumeLatched ==
    /\ loop.firing # 0
    /\ \/ /\ delivered' = [delivered EXCEPT ![loop.firing] = @ + 1]
          /\ Walk(loop.mode, loop.todo, loop.at)
       \/ /\ loop' = [loop EXCEPT !.firing = 0]
          /\ UNCHANGED <<rows, delivered, posthumous>>
    /\ proc' = IF loop.mode = "catchUp" /\ loop'.firing = 0 /\ proc = "booting"
               THEN "up" ELSE proc
    /\ UNCHANGED <<clock, bootedAt, exits>>

\* The awaited injection is over -- the prompt is in the session, or creating
\* or opening the session failed and the error is swallowed -- and the loop
\* goes on with its snapshot.  After catchUp() the timer is started.
Resume ==
    /\ loop.firing # 0
    /\ delivered' \in {delivered, [delivered EXCEPT ![loop.firing] = @ + 1]}
    /\ Walk(loop.mode, loop.todo, loop.at)
    /\ proc' = IF loop.mode = "catchUp" /\ loop' = Idle /\ proc = "booting"
               THEN "up" ELSE proc
    /\ UNCHANGED <<clock, bootedAt, exits>>

\* Boot: catchUp() runs before the timer is started.
Boot ==
    /\ proc = "down"
    /\ bootedAt' = clock
    /\ Walk("catchUp", DueIds, clock)
    /\ proc' = IF loop' = Idle THEN "up" ELSE "booting"
    /\ UNCHANGED <<clock, delivered, exits>>

\* The drain clears the interval timer; a tick in flight goes on.
Stop ==
    /\ proc = "up" /\ exits < MaxExits
    /\ proc' = "draining"
    /\ UNCHANGED <<clock, rows, loop, bootedAt, delivered, posthumous, exits>>

\* The process ends: the drain is over, or it dies at any step.
Exit ==
    /\ proc # "down" /\ exits < MaxExits
    /\ exits' = exits + 1
    /\ proc' = "down"
    /\ loop' = Idle
    /\ UNCHANGED <<clock, rows, bootedAt, delivered, posthumous>>

Next ==
    \/ Pass \/ Create \/ Tick \/ Resume \/ Boot \/ Stop \/ Exit
    \/ \E s \in Ids : Cancel(s)

\* Time passes, the interval fires, an awaited injection returns or throws,
\* systemd restarts the server, and a drain comes to its end.
Fairness ==
    /\ WF_vars(Pass) /\ WF_vars(Tick) /\ WF_vars(Resume) /\ WF_vars(Boot)
    /\ WF_vars(proc = "draining" /\ Exit)

Spec == Init /\ [][Next]_vars /\ Fairness

-----------------------------------------------------------------------------
(* Properties.                                                             *)

TypeOK ==
    /\ clock \in 0..MaxTime
    /\ rows \in Seq(Row) /\ Len(rows) =< MaxSchedules
    /\ \A s \in 1..Len(rows) :  \* an enabled schedule has a time to come
          rows[s].enabled => rows[s].next # NoTime /\ ~rows[s].cancelled
    /\ proc \in {"down", "booting", "up", "draining"}
    /\ loop \in [mode : {"none", "tick", "catchUp"}, todo : SUBSET Ids,
                 at : 0..MaxTime, firing : 0..MaxSchedules]
    /\ loop.firing =< Len(rows)
    /\ \A s \in loop.todo : s =< Len(rows)
    /\ bootedAt \in 0..MaxTime
    /\ delivered \in [Ids -> Nat]
    /\ posthumous \in [Ids -> Nat]
    /\ exits \in 0..MaxExits

\* "record the firing FIRST so a crash mid-inject can't double-fire"
\* (scheduler.ts:151): a one-shot's prompt reaches a session at most once,
\* over all ticks, crashes and catch-ups.
OnceAtMostOnce ==
    \A s \in 1..Len(rows) : rows[s].kind = "once" =>
        delivered[s] =< 1 /\ rows[s].fired =< 1

\* A loop works on a snapshot, so a cancel can come too late for the firing
\* of that loop, but never for more than one (scheduler.ts:88-91).
OnePosthumousFiring == \A s \in Ids : posthumous[s] =< 1

\* What a firing leaves in the row agrees with what reached the sessions: no
\* one-shot reaches one twice, and a cancelled schedule at most once more.
ScheduleConsistent == TypeOK /\ OnceAtMostOnce /\ OnePosthumousFiring

\* However late the ticks run, a cron fires at most once in each period: the
\* next time is computed from now (scheduler.ts:156), so nothing piles up.
CronsDoNotPileUp ==
    [][\A s \in 1..Len(rows) :
          rows[s].kind = "cron" /\ rows'[s].fired > rows[s].fired
              => clock \div Period > rows[s].last \div Period]_rows

\* Occurrences of a cron that passed while the server was down are skipped
\* (scheduler.ts:100): what fires fell due in the life of this process.
MissedCronsAreSkipped ==
    [][\A s \in 1..Len(rows) :
          rows[s].kind = "cron" /\ rows'[s].fired > rows[s].fired
              => rows[s].next > bootedAt]_rows

\* Cron firings keep to the periods of this process's life: one to a period,
\* and none for the time that the server was down.
CronsCatchUp == CronsDoNotPileUp /\ MissedCronsAreSkipped

\* A reminder is not forgotten: when its time comes (or is long past after a
\* restart) a one-shot fires, or it was cancelled before.
OnceFires ==
    \A s \in Ids :
        LET Created == s =< Len(rows)
        IN  (Created /\ rows[s].kind = "once") ~> (Created /\ ~rows[s].enabled)

\* "Done FIRST so a scheduler tick can't launch a new session AFTER the
\* manager.abortAll sweep" (index.ts:396-399): stopped, the scheduler fires
\* nothing more.
StopStopsFiring ==
    [][proc = "draining" =>
          \A s \in 1..Len(rows) : rows'[s].fired = rows[s].fired]_rows
=============================================================================

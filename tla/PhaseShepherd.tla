---------------------------- MODULE PhaseShepherd ----------------------------
(***************************************************************************)
(* The shepherd of a phase (contrib/skills/bottega/scripts/phase-lib.sh):  *)
(* a file with the tasks of a phase and what they come after, and the tick *)
(* that cron starts every five minutes.  A tick reconciles the file with   *)
(* Bottega, gates and merges pull requests, and launches what is ready.    *)
(* Every change of the file reads it, changes one task and renames a new   *)
(* file over it.                                                           *)
(***************************************************************************)
EXTENDS Naturals, Sequences, FiniteSetsExt

CONSTANTS
    Keys,           \* of the tasks, which are handled in their order
    After,          \* After[k]: the keys that k waits for
    MaxNoPr,        \* PHASE_MAX_NOPR_ATTEMPTS
    MaxUpdates,     \* PHASE_MAX_UPDATE_ATTEMPTS
    Ticks,          \* cron jobs that may run at a time
    MaxTrouble      \* bound: deaths, overlaps, failed calls

ASSUME PhaseAssumption ==
    /\ Keys \subseteq Nat /\ After \in [Keys -> SUBSET Keys]
    /\ {MaxNoPr, MaxUpdates, MaxTrouble} \subseteq Nat

VARIABLES
    advance,    \* "park", "auto" or "yolo"
    phaseFile,  \* the tasks of ~/.bottega/phases/<slug>.json
    bottega,    \* the tasks that Bottega has, by number
    tick,       \* what each tick is doing
    overlapped, \* history: ticks ran at the same time
    interrupted,\* history: a tick died with a change not yet saved
    untested,   \* history: a pull request was merged whose checks were not green
    trouble

phaseVars == <<advance, phaseFile, bottega, tick, overlapped, interrupted, untested,
               trouble>>

NoTick == [at |-> "idle"]
NoSave == <<>>
NewTask == [state |-> "pending", task |-> 0, kicked |-> FALSE, pr |-> FALSE,
            nopr |-> 0, updates |-> 0]

\* phase_state_init().
PhaseInit ==
    /\ advance \in {"park", "auto", "yolo"}
    /\ phaseFile = [k \in Keys |-> NewTask]
    /\ bottega = <<>> /\ tick = [t \in Ticks |-> NoTick]
    /\ overlapped = FALSE /\ interrupted = FALSE /\ untested = FALSE /\ trouble = 0

Trouble == trouble < MaxTrouble /\ trouble' = trouble + 1

\* The key at hand; the tick has nothing to save.
AtHand(t, k) == tick[t].save = NoSave /\ tick[t].todo # {} /\ k = Min(tick[t].todo)
Skip(t, k) == tick' = [tick EXCEPT ![t].todo = @ \ {k}]

\* phase_task_set(): the file as it is now, with the task changed, is yet to be
\* written; then comes the next key, or more about this one.
Note(t, k, task) ==
    tick' = [tick EXCEPT ![t].todo = @ \ {k}, ![t].at = IF @ \in {"push", "merge"} THEN "advance" ELSE @,
                         ![t].save = [phaseFile EXCEPT ![k] = task]]

NoteThen(t, k, task, what) ==
    tick' = [tick EXCEPT ![t].at = what, ![t].save = [phaseFile EXCEPT ![k] = task]]

Park(t, k) == Note(t, k, [phaseFile[k] EXCEPT !.state = "parked"])

-----------------------------------------------------------------------------
(* A tick's course.                                                        *)

StartTick(t) ==
    /\ tick[t] = NoTick
    /\ tick' = [tick EXCEPT ![t] = [at |-> "reconcile", seen |-> phaseFile, todo |-> Keys,
                                    save |-> NoSave]]
    /\ IF \E u \in Ticks : tick[u] # NoTick
       THEN Trouble /\ overlapped' = TRUE
       ELSE UNCHANGED <<trouble, overlapped>>
    /\ UNCHANGED <<advance, phaseFile, bottega, interrupted, untested>>

\* phase_state_write(): mktemp and mv.
Save(t) ==
    /\ tick[t] # NoTick /\ tick[t].save # NoSave
    /\ phaseFile' = tick[t].save
    /\ tick' = [tick EXCEPT ![t].save = NoSave]
    /\ UNCHANGED <<advance, bottega, overlapped, interrupted, untested, trouble>>

\* Every part of a tick looks at the file as it is when the part begins.
NextPart(t) ==
    /\ tick[t] # NoTick /\ tick[t].save = NoSave /\ tick[t].todo = {}
    /\ tick' = [tick EXCEPT ![t] =
          CASE tick[t].at = "reconcile" ->
                  [at |-> "advance", seen |-> phaseFile, save |-> NoSave,
                   todo |-> {k \in Keys : phaseFile[k].state = "pr_open"}]
            [] tick[t].at = "advance" ->
                  [at |-> "launch", seen |-> phaseFile, save |-> NoSave, todo |-> Keys]
            [] OTHER -> NoTick]
    /\ UNCHANGED <<advance, phaseFile, bottega, overlapped, interrupted, untested, trouble>>

\* phase_reconcile(): a status that cannot be had ends the tick.
Reconcile(t, k) ==
    /\ tick[t].at = "reconcile" /\ AtHand(t, k)
    /\ LET mine == tick[t].seen[k]
           run == IF mine.task = 0 THEN "none" ELSE bottega[mine.task].run
       IN IF mine.state # "running"
          THEN Skip(t, k) /\ UNCHANGED <<bottega, trouble>>
          ELSE \/ /\ Trouble
                  /\ tick' = [tick EXCEPT ![t] = NoTick]
                  /\ UNCHANGED bottega
               \/ /\ run = "blocked"
                  /\ Park(t, k)
                  /\ UNCHANGED <<bottega, trouble>>
               \/ /\ run = "pr"     \* its number may be unknown
                  /\ \E known \in BOOLEAN :
                        /\ Note(t, k, [phaseFile[k] EXCEPT !.state = "pr_open", !.pr = known])
                        /\ IF known THEN UNCHANGED trouble ELSE Trouble
                  /\ UNCHANGED bottega
               \/ /\ run \in {"planned", "implementing"}
                  /\ advance = "auto" /\ ~phaseFile[k].kicked
                  /\ bottega' = [bottega EXCEPT ![mine.task].run = "implementing",
                                                ![mine.task].runs = @ + 1]
                  /\ Note(t, k, [phaseFile[k] EXCEPT !.kicked = TRUE])
                  /\ UNCHANGED trouble
               \/ /\ \/ run \in {"none", "idle", "planning", "yolo"}
                     \/ /\ run \in {"planned", "implementing"}
                        /\ advance # "auto" \/ phaseFile[k].kicked
                  /\ Skip(t, k)
                  /\ UNCHANGED <<bottega, trouble>>
    /\ UNCHANGED <<advance, phaseFile, overlapped, interrupted, untested>>

\* phase_gate() where no number of a pull request is known, and a slip of it.
RetryForever(mine) == [mine EXCEPT !.state = "pr_open"]
RetryNoPr(mine) ==
    IF mine.nopr >= MaxNoPr THEN [mine EXCEPT !.state = "parked"]
    ELSE [mine EXCEPT !.nopr = @ + 1]

\* What is known of a task whose number an overlapping tick has wiped out.
Lost == [merged |-> FALSE, ci |-> "none", behind |-> FALSE]

\* phase_gate(): whatever is not green parks the task, and so does a check that
\* cannot run; a branch that is behind is updated a few times.
Gate(t, k) ==
    /\ tick[t].at = "advance" /\ AtHand(t, k)
    /\ LET mine == phaseFile[k]
           its == IF mine.task = 0 THEN Lost ELSE bottega[mine.task]
       IN \/ /\ ~mine.pr
             /\ Note(t, k, RetryNoPr(mine))
             /\ UNCHANGED <<bottega, trouble>>
          \/ /\ mine.pr
             /\ \/ Trouble
                \/ (its.merged \/ its.ci # "pass") /\ UNCHANGED trouble
                \/ its.behind /\ mine.updates >= MaxUpdates /\ UNCHANGED trouble
             /\ Park(t, k)
             /\ UNCHANGED bottega
          \/ /\ mine.pr /\ ~its.merged /\ its.ci = "pass"
             /\ its.behind /\ mine.updates < MaxUpdates
             /\ NoteThen(t, k, [mine EXCEPT !.updates = @ + 1], "push")
             /\ UNCHANGED <<bottega, trouble>>
          \/ /\ mine.pr /\ ~its.merged /\ its.ci = "pass" /\ ~its.behind
             /\ LET fresh == [mine EXCEPT !.updates = 0, !.nopr = 0]
                IN IF advance = "park" THEN Note(t, k, fresh)
                   ELSE NoteThen(t, k, fresh, "merge")
             /\ UNCHANGED <<bottega, trouble>>
    /\ UNCHANGED <<advance, phaseFile, overlapped, interrupted, untested>>

\* A branch that was behind is synced and pushed, and its checks start anew.
Push(t, k) ==
    /\ tick[t].at = "push" /\ AtHand(t, k)
    /\ LET id == phaseFile[k].task
       IN \/ /\ id # 0
             /\ tick' = [tick EXCEPT ![t].at = "advance", ![t].todo = @ \ {k}]
             /\ bottega' = [bottega EXCEPT ![id].behind = FALSE, ![id].ci = "pending"]
             /\ UNCHANGED trouble
          \/ Park(t, k) /\ (IF id = 0 THEN UNCHANGED trouble ELSE Trouble) /\ UNCHANGED bottega
    /\ UNCHANGED <<advance, phaseFile, overlapped, interrupted, untested>>

\* Another merge leaves the open pull requests behind.
MergedAt(id) ==
    [i \in DOMAIN bottega |-> IF i = id THEN [bottega[i] EXCEPT !.merged = TRUE]
                              ELSE [bottega[i] EXCEPT !.behind = @ \/ bottega[i].run = "pr"]]

\* merge-cleanup merges and then clears up; either may fail.
Merge(t, k) ==
    /\ tick[t].at = "merge" /\ AtHand(t, k)
    /\ LET id == phaseFile[k].task
           can == id # 0 /\ ~bottega[id].merged /\ ~bottega[id].behind
       IN \/ /\ can
             /\ bottega' = MergedAt(id)
             /\ untested' = (untested \/ bottega[id].ci # "pass")
             /\ \/ /\ Note(t, k, [phaseFile[k] EXCEPT !.state = "merged"])
                   /\ UNCHANGED trouble
                \/ Park(t, k) /\ Trouble
          \/ /\ IF can THEN Trouble ELSE UNCHANGED trouble
             /\ Park(t, k)
             /\ UNCHANGED <<bottega, untested>>
    /\ UNCHANGED <<advance, phaseFile, overlapped, interrupted>>

Unmet(seen, k) == \E d \in After[k] : seen[d].state # "merged"

\* phase_launch_ready(): the task is created and kicked, and then noted; that
\* the kick fails is not noticed.
Launch(t, k) ==
    /\ tick[t].at = "launch" /\ AtHand(t, k)
    /\ IF tick[t].seen[k].state # "pending" \/ Unmet(tick[t].seen, k)
       THEN Skip(t, k) /\ UNCHANGED <<bottega, trouble>>
       ELSE \/ /\ Trouble
               /\ Note(t, k, [phaseFile[k] EXCEPT !.state = "failed"])
               /\ UNCHANGED bottega
            \/ \E kick \in BOOLEAN :
               /\ IF kick THEN UNCHANGED trouble ELSE Trouble
               /\ bottega' = Append(bottega,
                     [key |-> k, runs |-> 0, ci |-> "none", behind |-> FALSE,
                      merged |-> FALSE,
                      run |-> IF ~kick THEN "idle"
                              ELSE IF advance = "yolo" THEN "yolo" ELSE "planning"])
               /\ Note(t, k, [phaseFile[k] EXCEPT !.state = "running",
                                                  !.task = Len(bottega) + 1])
    /\ UNCHANGED <<advance, phaseFile, overlapped, interrupted, untested>>

\* The session's command is killed, or the machine goes down.
TickDies(t) ==
    /\ tick[t] # NoTick /\ Trouble
    /\ tick' = [tick EXCEPT ![t] = NoTick]
    /\ interrupted' = (interrupted \/ tick[t].save # NoSave)
    /\ UNCHANGED <<advance, phaseFile, bottega, overlapped, untested>>

-----------------------------------------------------------------------------
(* Bottega, the checks of the pull requests, and the user.                 *)

Works(id) ==
    /\ \/ /\ bottega[id].run = "planning"
          /\ bottega' = [bottega EXCEPT ![id].run = "planned"]
       \/ /\ bottega[id].run \in {"implementing", "yolo"}
          /\ \/ bottega' = [bottega EXCEPT ![id].run = "blocked"]
             \/ bottega' = [bottega EXCEPT ![id].run = "pr", ![id].ci = "pending"]
    /\ UNCHANGED <<advance, phaseFile, tick, overlapped, interrupted, untested, trouble>>

ChecksEnd(id) ==
    /\ bottega[id].ci = "pending"
    /\ \E result \in {"pass", "fail"} : bottega' = [bottega EXCEPT ![id].ci = result]
    /\ UNCHANGED <<advance, phaseFile, tick, overlapped, interrupted, untested, trouble>>

\* What advance: park leaves to the user.
UserSteps(id) ==
    /\ advance = "park"
    /\ \/ /\ bottega[id].run = "planned"
          /\ bottega' = [bottega EXCEPT ![id].run = "implementing", ![id].runs = @ + 1]
       \/ /\ bottega[id].run = "pr" /\ bottega[id].ci = "pass"
          /\ ~bottega[id].merged /\ ~bottega[id].behind
          /\ bottega' = MergedAt(id)
    /\ UNCHANGED <<advance, phaseFile, tick, overlapped, interrupted, untested, trouble>>

-----------------------------------------------------------------------------
TickStep(t) ==
    \/ Save(t) \/ NextPart(t)
    \/ \E k \in Keys : tick[t] # NoTick
          /\ (Reconcile(t, k) \/ Gate(t, k) \/ Push(t, k) \/ Merge(t, k) \/ Launch(t, k))

PhaseNext ==
    \/ \E t \in Ticks : StartTick(t) \/ TickStep(t) \/ TickDies(t)
    \/ \E id \in DOMAIN bottega : Works(id) \/ ChecksEnd(id) \/ UserSteps(id)

\* Cron starts ticks and they go on; agents and checks end.
PhaseRuns ==
    \E t \in Ticks : \/ StartTick(t) /\ \A u \in Ticks : tick[u] = NoTick
                     \/ TickStep(t)
BottegaRuns == \E id \in DOMAIN bottega : Works(id) \/ ChecksEnd(id)
PhaseFairness == WF_phaseVars(PhaseRuns) /\ WF_phaseVars(BottegaRuns)

PhaseSpec == PhaseInit /\ [][PhaseNext]_phaseVars /\ PhaseFairness

-----------------------------------------------------------------------------

PhaseTypeOK ==
    /\ advance \in {"park", "auto", "yolo"}
    /\ phaseFile \in [Keys -> [state : {"pending", "running", "pr_open", "merged", "parked",
                                        "failed"},
                               task : Nat, kicked : BOOLEAN, pr : BOOLEAN,
                               nopr : 0..MaxNoPr, updates : 0..MaxUpdates]]
    /\ \A k \in Keys : phaseFile[k].task \in 0..Len(bottega)
    /\ {overlapped, interrupted, untested} \subseteq BOOLEAN /\ trouble \in 0..MaxTrouble

\* A task is created when everything it comes after is on the main branch, even
\* when ticks overlap, die, or lose each other's changes; what the file calls
\* merged is merged.  As long as ticks come one after the other, only what is
\* green is merged, and if none dies with a change unsaved, a key has one task
\* and that task one implementation.
LaunchedInOrder ==
    /\ \A i \in DOMAIN bottega : \A d \in After[bottega[i].key] :
          \E j \in DOMAIN bottega : bottega[j].key = d /\ bottega[j].merged
    /\ \A k \in Keys : phaseFile[k].state = "merged" =>
          \E j \in DOMAIN bottega : bottega[j].key = k /\ bottega[j].merged
    /\ overlapped \/ ~untested
    /\ overlapped \/ interrupted
          \/ /\ \A i, j \in DOMAIN bottega : bottega[i].key = bottega[j].key => i = j
             /\ advance = "auto" => \A i \in DOMAIN bottega : bottega[i].runs =< 1

\* Where nobody is asked (auto, yolo) and ticks come one after the other the phase
\* settles, whatever dies or fails: in the end every task is merged, parked or
\* failed, waits for one that is not merged, or is stranded: created, and its kick
\* was lost.
Stranded(k) == phaseFile[k].state = "running" /\ phaseFile[k].task # 0
               /\ bottega[phaseFile[k].task].run = "idle"
PhaseSettles ==
    <>[](advance # "park" /\ ~overlapped => \A k \in Keys :
            \/ phaseFile[k].state \in {"merged", "parked", "failed"}
            \/ phaseFile[k].state = "pending" /\ Unmet(phaseFile, k)
            \/ Stranded(k))

\* A phase goes in order, and ends.
PhaseSound == []LaunchedInOrder /\ PhaseSettles

\* Not so: "a created task is marked running even if kickoff fails (recovered by
\* reconcile), never stranded" (phase-lib.sh:275).  Nothing kicks it again.
NeverStranded == \A k \in Keys : []<>~Stranded(k)
=============================================================================

------------------------------ MODULE MCServices ------------------------------
(***************************************************************************)
(* Small instances of the components that something must come of: the plan *)
(* lock that processes share, the bridge to the long-term memory and the   *)
(* backfill of old sessions, the tools that run a program, and the         *)
(* shepherd of a phase.  They share no state: `part' says which one a      *)
(* behaviour is about.                                                     *)
(***************************************************************************)
EXTENDS PlanStore, LtmBridge, ToolProcess, PhaseShepherd, Backfill

CONSTANTS o1, o2, f1

VARIABLE part

MCAfter == [k \in Keys |-> IF k = 2 THEN {1} ELSE {}]

MCFileOf == [o \in Obs |-> f1]

MCInit ==
    /\ part \in {"plan", "bridge", "process", "phase", "backfill"}
    /\ part = "process" \/ kind = "bash"
    /\ part = "phase" \/ advance = "park"
    /\ PlanInit /\ BridgeInit /\ ProcessInit /\ PhaseInit /\ BackfillInit

MCNext ==
    \/ part = "plan" /\ UNCHANGED <<part, bridgeVars, procVars, phaseVars, feedVars>> /\ PlanNext
    \/ part = "bridge" /\ UNCHANGED <<part, planVars, procVars, phaseVars, feedVars>> /\ BridgeNext
    \/ part = "process" /\ UNCHANGED <<part, planVars, bridgeVars, phaseVars, feedVars>> /\ ProcessNext
    \/ part = "phase" /\ UNCHANGED <<part, planVars, bridgeVars, procVars, feedVars>> /\ PhaseNext
    \/ part = "backfill" /\ UNCHANGED <<part, planVars, bridgeVars, procVars, phaseVars>> /\ BackfillNext

allVars == <<part, planVars, bridgeVars, procVars, phaseVars, feedVars>>

\* The fairness that each component states, for its own part.
MCFairness ==
    /\ \A p \in Procs : WF_planVars(part = "plan" /\ PlanStep(p))
    /\ WF_planVars(part = "plan" /\ (AgeLock \/ AgeMarker))
    /\ WF_bridgeVars(part = "bridge" /\ BridgeSteps)
    /\ WF_bridgeVars(part = "bridge" /\ Tick)
    /\ WF_procVars(part = "process" /\ (TimerFires \/ Close))
    /\ WF_procVars(part = "process" /\ stage = "root" /\ ChildExits)
    /\ WF_phaseVars(part = "phase" /\ PhaseRuns) /\ WF_phaseVars(part = "phase" /\ BottegaRuns)
    /\ \A c \in Commands : WF_feedVars(part = "backfill" /\ Answered(c))
    /\ \A c \in Commands : WF_feedVars(part = "backfill" /\ JobRuns(c))

MCSpec == MCInit /\ [][MCNext]_allVars /\ MCFairness

\* The state of each component is of its type, and what belongs together agrees;
\* the plan survives its processes: one of them changes it at a time, whoever
\* dies with the lock, and each change starts from what the last one returned
\* (plans.ts:20-22, 115-118).
ServicesConsistent ==
    /\ part = "plan" => PlanTypeOK /\ PlanExclusion /\ PlanKept
    /\ part = "bridge" => BridgeTypeOK
    /\ part = "process" => ProcessTypeOK
    /\ part = "phase" => PhaseTypeOK
    /\ part = "backfill" => BackfillTypeOK
===============================================================================

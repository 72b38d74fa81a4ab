--------------------------- MODULE SubagentRunProofs ---------------------------
(***************************************************************************)
(* The safety of SubagentRun, proved for any number of turns.              *)
(***************************************************************************)
EXTENDS SubagentRun, TLAPS

-----------------------------------------------------------------------------
(* The inductive invariant.                                                *)

\* The first overflow since a good turn is on record, or has been given up on.
OverflowOnRecord == streak >= 1 => attempted \/ surrendered

\* Whoever takes a request for compaction clears it: the listener that acts on
\* it, and the hook of a prompt that a due retry overtakes.
RequestTaken ==
    /\ phase \in {"idle", "reactive", "proactive"} => pending = "none"
    /\ RetryDue => phase \in {"idle", "context", "turn"} /\ pending = "none"

Inv == TypeOK /\ OverflowLoopBroken /\ OverflowOnRecord /\ RequestTaken

-----------------------------------------------------------------------------
(* The parts that an await of run() comes back to.                         *)

\* A prompt resolves at the end of its last turn or of its compaction: run()
\* moves on, and the harness is at rest or works on the nudge.
LEMMA ResolveTypes ==
    ASSUME TypeOK, NEW r \in Promises, NEW surr \in BOOLEAN, Resolve(r, surr)
    PROVE  /\ main' \in {"first", "await1", "dangling", "nudge", "await2", "done",
                         "died"}
           /\ \/ prompt' = "none" /\ phase' = "idle"
              \/ prompt' = "nudge" /\ phase' = "context"
           /\ stop' \in Stops /\ aborting' = FALSE
           /\ stored' \in Promises /\ held' \in Promises
           /\ timer' \in {"armed", "fired", "cleared"}
           /\ outcome' \in {"none", "completed", "failed", "silent"}
<1>1. ASSUME NEW s \in Stops, Done(surr, s)
      PROVE  /\ main' = "done" /\ timer' \in {"armed", "fired", "cleared"}
             /\ outcome' \in {"none", "completed", "failed", "silent"}
  BY <1>1 DEF Done, OutcomeOf, TypeOK
<1>2. ASSUME Judge(surr)
      PROVE  /\ main' \in {"nudge", "dangling", "done"}
             /\ \/ prompt' = "none" /\ phase' = "idle"
                \/ prompt' = "nudge" /\ phase' = "context"
             /\ stop' \in Stops /\ aborting' = FALSE
             /\ timer' \in {"armed", "fired", "cleared"}
             /\ outcome' \in {"none", "completed", "failed", "silent"}
  <2>1. stop \in Stops
    BY DEF TypeOK
  <2>2. QED
    BY <1>1, <1>2, <2>1 DEF Judge, Begin, AtRest, TypeOK, Stops
<1>3. stop \in Stops /\ stored \in Promises /\ held \in Promises
      /\ "none" \in Promises /\ Stops \subseteq Promises
  BY DEF TypeOK, Promises, Stops
<1>4. CASE /\ prompt \in {"first", "nudge"} /\ r = "timer"
           /\ main' = IF prompt = "first" THEN "await1" ELSE "await2"
           /\ held' = r /\ stored' = "none"
           /\ AtRest /\ UNCHANGED <<outcome, timer>>
  BY <1>3, <1>4 DEF AtRest, TypeOK
<1>5. CASE prompt = "first" /\ r = "none" /\ Judge(surr) /\ UNCHANGED <<stored, held>>
  BY <1>2, <1>3, <1>5
<1>6. CASE /\ prompt = "nudge" /\ r # "timer"
           /\ Done(surr, IF r = "none" THEN stop ELSE r)
           /\ stored' = "none" /\ AtRest /\ UNCHANGED held
  BY <1>3, <1>6 DEF AtRest, Done, OutcomeOf, TypeOK
<1>7. CASE /\ prompt = "retry" /\ held = "prompting"
           /\ IF main = "await1" THEN Judge(surr) ELSE Done(surr, stop) /\ AtRest
           /\ held' = "none" /\ stored' = r
  <2>1. CASE main = "await1"
    BY <1>2, <1>3, <1>7, <2>1
  <2>2. CASE main # "await1"
    BY <1>1, <1>3, <1>7, <2>2 DEF AtRest
  <2>3. QED
    BY <2>1, <2>2
<1>8. CASE /\ prompt = "retry" /\ held # "prompting"
           /\ stored' = IF r = "prompting" THEN stop ELSE r
           /\ AtRest /\ UNCHANGED <<main, held, outcome, timer>>
  BY <1>3, <1>8 DEF AtRest, TypeOK
<1>9. QED
  BY <1>4, <1>5, <1>6, <1>7, <1>8 DEF Resolve

\* A run is completed only by an answer that ended well, with nothing against it.
LEMMA ResolveCompletes ==
    ASSUME TypeOK, NEW r \in Promises, NEW surr \in BOOLEAN, Resolve(r, surr),
           outcome' # outcome, outcome' = "completed"
    PROVE  "stop" \in {stop, r} /\ timer # "fired" /\ ~surr /\ ~cancelled
<1>1. \/ Judge(surr)
      \/ Done(surr, stop)
      \/ Done(surr, IF r = "none" THEN stop ELSE r)
  BY DEF Resolve
<1>2. ASSUME NEW s \in {stop, r}, Done(surr, s)
      PROVE  s = "stop" /\ timer # "fired" /\ ~surr /\ ~cancelled
  BY <1>2 DEF Done, OutcomeOf, TypeOK
<1>3. Judge(surr) => Done(surr, stop)
  BY DEF Judge
<1>4. QED
  BY <1>1, <1>2, <1>3

-----------------------------------------------------------------------------
(* The steps.                                                              *)

\* The run begins with its first prompt, and nothing is owed.
LEMMA InitInvariant == Init => Inv
<1> SUFFICES ASSUME Init PROVE Inv
  OBVIOUS
<1>1. TypeOK
  <2>1. turns \in 0..MaxTurns /\ streak \in Nat
    BY TurnsAssumption DEF Init
  <2>2. (prompt = "none") = (phase = "idle")
    BY DEF Init
  <2>3. stop \in Stops /\ stored \in Promises /\ held \in Promises
    BY DEF Init, Stops, Promises
  <2>4. QED
    BY <2>1, <2>2, <2>3 DEF Init, TypeOK
<1>2. OverflowLoopBroken /\ OverflowOnRecord /\ RequestTaken
  BY DEF Init, OverflowLoopBroken, OverflowOnRecord, RequestTaken, RetryDue
<1>3. QED
  BY <1>1, <1>2 DEF Inv

\* The nudge finds the harness idle, or fails the run.
LEMMA StepNudge ==
    ASSUME Inv, StartNudge
    PROVE  Inv'
<1>1. TypeOK'
  BY DEF StartNudge, Begin, Done, OutcomeOf, Inv, TypeOK, Stops, loopVars,
         compactionVars
<1>2. OverflowLoopBroken' /\ OverflowOnRecord'
  BY DEF StartNudge, Inv, OverflowLoopBroken, OverflowOnRecord, compactionVars
<1>3. RequestTaken'
  BY DEF StartNudge, Begin, Inv, TypeOK, RequestTaken, RetryDue, loopVars,
         compactionVars
<1>4. QED
  BY <1>1, <1>2, <1>3 DEF Inv

\* The agent loop: the streak grows only by an overflow, which is answered once
\* and then given up on; a good turn forgives it.
LEMMA StepLoop ==
    ASSUME Inv, ContextHook \/ TurnContinues \/ LastTurn
    PROVE  Inv'
<1>1. CASE ContextHook
  <2>1. surrendered' \in BOOLEAN /\ (surrendered => surrendered')
    BY <1>1 DEF ContextHook, Inv, TypeOK
  <2>2. TypeOK'
    BY <1>1, <2>1 DEF ContextHook, Inv, TypeOK, runVars
  <2>3. OverflowLoopBroken' /\ OverflowOnRecord'
    BY <1>1, <2>1 DEF ContextHook, Inv, OverflowLoopBroken, OverflowOnRecord
  <2>4. RequestTaken'
    BY <1>1 DEF ContextHook, RequestTaken, runVars
  <2>5. QED
    BY <2>2, <2>3, <2>4 DEF Inv
<1>2. CASE TurnContinues
  <2>1. TypeOK'
    <3>1. turns' \in 0..MaxTurns /\ streak' \in Nat
      BY <1>2, TurnsAssumption DEF TurnContinues, Inv, TypeOK
    <3>2. (prompt' = "none") = (phase' = "idle")
      BY <1>2 DEF TurnContinues, Inv, TypeOK
    <3>3. pending' \in {"none", "proactive", "reactive"} /\ attempted' \in BOOLEAN
      BY <1>2 DEF TurnContinues, Inv, TypeOK
    <3>4. QED
      BY <1>2, <3>1, <3>2, <3>3 DEF TurnContinues, Inv, TypeOK, runVars
  <2>2. OverflowLoopBroken' /\ OverflowOnRecord'
    BY <1>2 DEF TurnContinues, OverflowLoopBroken, OverflowOnRecord
  <2>3. RequestTaken'
    BY <1>2 DEF TurnContinues, RequestTaken, RetryDue, runVars
  <2>4. QED
    BY <2>1, <2>2, <2>3 DEF Inv
<1>3. CASE LastTurn
  <2>1. TypeOK'
    <3>1. stop' \in Stops /\ streak' \in Nat
      BY <1>3 DEF LastTurn, Inv, TypeOK, Stops
    <3>2. (prompt' = "none") = (phase' = "idle")
      BY <1>3 DEF LastTurn, Inv, TypeOK
    <3>3. /\ pending' \in {"none", "proactive", "reactive"}
          /\ attempted' \in BOOLEAN /\ surrendered' \in BOOLEAN
      BY <1>3 DEF LastTurn, Overflow, Inv, TypeOK, compactionVars
    <3>4. QED
      BY <1>3, <3>1, <3>2, <3>3 DEF LastTurn, Inv, TypeOK, runVars
  <2>2. OverflowLoopBroken' /\ OverflowOnRecord'
    BY <1>3 DEF LastTurn, Overflow, Inv, TypeOK, OverflowLoopBroken,
         OverflowOnRecord, compactionVars
  <2>3. RequestTaken'
    BY <1>3 DEF LastTurn, Inv, RequestTaken, RetryDue, runVars
  <2>4. QED
    BY <2>1, <2>2, <2>3 DEF Inv
<1>4. QED
  BY <1>1, <1>2, <1>3

\* agent_end takes the request with it, or the prompt resolves without one.
LEMMA StepAgentEnd ==
    ASSUME Inv, AgentEnd
    PROVE  Inv'
<1>1. OverflowLoopBroken' /\ OverflowOnRecord'
  BY DEF AgentEnd, Inv, OverflowLoopBroken, OverflowOnRecord
<1>2. CASE pending # "none"
  BY <1>1, <1>2 DEF AgentEnd, Inv, TypeOK, RequestTaken, RetryDue, runVars
<1>3. CASE pending = "none"
  <2>1. Resolve(stored, surrendered) /\ UNCHANGED <<pending, attempted, surrendered,
                                                    cancelled, turns, streak>>
    BY <1>3 DEF AgentEnd
  <2>2. stored \in Promises /\ surrendered \in BOOLEAN
    BY DEF Inv, TypeOK
  <2>3. TypeOK'
    BY <2>1, <2>2, ResolveTypes DEF Inv, TypeOK
  <2>4. RequestTaken'
    BY <1>3, <2>1, <2>2, ResolveTypes DEF Inv, RequestTaken, RetryDue
  <2>5. QED
    BY <1>1, <2>3, <2>4 DEF Inv
<1>4. QED
  BY <1>2, <1>3

\* The compaction is over, well or not.
LEMMA StepCompacted ==
    ASSUME Inv, Compacted
    PROVE  Inv'
<1>1. PICK r \in Promises, surr \in BOOLEAN :
          /\ surrendered' = surr /\ (surrendered => surr)
          /\ Resolve(r, surr)
  <2>1. PICK result \in {"succeeded", "failed", "unloadable", "threw"} :
            LET surr == \/ surrendered
                        \/ result = "unloadable"
                        \/ result = "failed" /\ phase = "reactive"
                retry == IF phase = "reactive" /\ result = "succeeded"
                         THEN "timer" ELSE stored
            IN  surrendered' = surr /\ Resolve(retry, surr)
    BY DEF Compacted
  <2>2. (IF phase = "reactive" /\ result = "succeeded" THEN "timer" ELSE stored) \in Promises
    BY DEF Inv, TypeOK, Promises
  <2>3. QED
    BY <2>1, <2>2
<1>2. phase \in {"reactive", "proactive"} /\ pending = "none"
      /\ UNCHANGED <<pending, attempted, cancelled, turns, streak>>
  BY DEF Compacted, Inv, RequestTaken
<1>3. TypeOK'
  BY <1>1, <1>2, ResolveTypes DEF Inv, TypeOK
<1>4. OverflowLoopBroken' /\ OverflowOnRecord'
  BY <1>1, <1>2 DEF Inv, OverflowLoopBroken, OverflowOnRecord
<1>5. RequestTaken'
  BY <1>1, <1>2, ResolveTypes DEF Inv, RequestTaken, RetryDue
<1>6. QED
  BY <1>3, <1>4, <1>5 DEF Inv

\* The retry prompts, or the process dies of its rejection.
LEMMA StepRetryTimer ==
    ASSUME Inv, RetryTimer
    PROVE  Inv'
<1>1. TypeOK'
  BY DEF RetryTimer, Dies, Begin, AtRest, Inv, TypeOK, Stops, Promises,
         compactionVars
<1>2. OverflowLoopBroken' /\ OverflowOnRecord'
  BY DEF RetryTimer, Inv, OverflowLoopBroken, OverflowOnRecord, compactionVars
<1>3. RequestTaken'
  BY DEF RetryTimer, Dies, Begin, AtRest, Inv, RequestTaken, RetryDue, compactionVars
<1>4. QED
  BY <1>1, <1>2, <1>3 DEF Inv

\* Whoever aborts touches neither the request nor the streak.
LEMMA StepAbort ==
    ASSUME Inv, TimerFires \/ Cancel \/ UNCHANGED vars
    PROVE  Inv'
<1>1. /\ UNCHANGED <<runVars, prompt, phase, stop, compactionVars, turns, streak>>
      /\ aborting' \in BOOLEAN /\ cancelled' \in BOOLEAN
      /\ timer' \in {timer, "fired"}
  BY DEF TimerFires, Cancel, Abort, Inv, TypeOK, vars, runVars, loopVars,
         compactionVars
<1>2. TypeOK'
  BY <1>1 DEF Inv, TypeOK, runVars, compactionVars
<1>3. OverflowLoopBroken' /\ OverflowOnRecord' /\ RequestTaken'
  BY <1>1 DEF Inv, OverflowLoopBroken, OverflowOnRecord, RequestTaken, RetryDue,
       runVars, compactionVars
<1>4. QED
  BY <1>2, <1>3 DEF Inv

\* Every step keeps the invariant.
LEMMA StepInvariant == Inv /\ [Next]_vars => Inv'
  BY StepNudge, StepLoop, StepAgentEnd, StepCompacted, StepRetryTimer, StepAbort
     DEF Next

\* A step that completes the run does so with an answer that ended well.
LEMMA StepCompletes ==
    ASSUME Inv, [Next]_vars
    PROVE  [outcome' = "completed" =>
              /\ "stop" \in {stop, stored}
              /\ timer # "fired" /\ ~surrendered' /\ ~cancelled]_outcome
<1> SUFFICES ASSUME outcome' # outcome, outcome' = "completed"
             PROVE  /\ "stop" \in {stop, stored}
                    /\ timer # "fired" /\ ~surrendered' /\ ~cancelled
  OBVIOUS
<1>1. TypeOK /\ stored \in Promises /\ surrendered \in BOOLEAN
  BY DEF Inv, TypeOK
<1>2. CASE AgentEnd
  <2>1. Resolve(stored, surrendered) /\ surrendered' = surrendered
    BY <1>2 DEF AgentEnd, runVars
  <2>2. QED
    BY <1>1, <2>1, ResolveCompletes
<1>3. CASE Compacted
  <2>1. PICK r \in {"timer", stored}, surr \in BOOLEAN :
            surrendered' = surr /\ Resolve(r, surr)
    BY <1>3 DEF Compacted
  <2>2. r \in Promises
    BY <1>1 DEF Promises
  <2>3. QED
    BY <1>1, <2>1, <2>2, ResolveCompletes
<1>4. CASE StartNudge
  BY <1>4 DEF StartNudge, Done, OutcomeOf
<1>5. CASE \/ ContextHook \/ TurnContinues \/ LastTurn
           \/ RetryTimer \/ TimerFires \/ Cancel \/ UNCHANGED vars
  BY <1>5 DEF ContextHook, TurnContinues, LastTurn, RetryTimer, Dies, TimerFires,
       Cancel, vars, runVars
<1>6. QED
  BY <1>2, <1>3, <1>4, <1>5 DEF Next

-----------------------------------------------------------------------------
(* Theorems.                                                               *)

\* The inductive invariant holds of every behaviour.
THEOREM Invariance == Spec => []Inv
  BY InitInvariant, StepInvariant, PTL DEF Spec

\* In any order of answers, retries, timeouts and cancels, a request for
\* compaction does not outlive its prompt, and a second overflow with no good
\* turn in between surrenders (task-manager.ts:349-356).
THEOREM RunIsConsistent == Spec => []RunConsistent
<1>1. Inv => RunConsistent
  BY DEF Inv, RunConsistent, RequestTaken, NoStaleRequest
<1>2. QED
  BY <1>1, Invariance, PTL

\* No timeout, surrender or cancel is ever overtaken by a "completed", and what
\* is reported completed ended well (task-manager.ts:646-668).
THEOREM CompletedMeansGenuine == Spec => CompletedIsGenuine
<1>1. Inv /\ [Next]_vars =>
          [outcome' = "completed" =>
              /\ "stop" \in {stop, stored}
              /\ timer # "fired" /\ ~surrendered' /\ ~cancelled]_outcome
  BY StepCompletes
<1>2. QED
  BY <1>1, Invariance, PTL DEF Spec, CompletedIsGenuine
=============================================================================

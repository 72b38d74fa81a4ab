----------------------------- MODULE SessionProofs -----------------------------
(***************************************************************************)
(* The safety of Session, proved for every set of messages and modes and   *)
(* any number of turns and toggles.                                        *)
(***************************************************************************)
EXTENDS Session, SequenceTheorems, TLAPS

-----------------------------------------------------------------------------
(* The inductive invariant.                                                *)

\* No message waits twice in the chain of starts.
ChainDistinct == \A i, j \in 1..Len(chain) : chain[i] = chain[j] => i = j

\* One start at a time is suspended in its compaction.
OneInStart ==
    \A m, n \in Messages : fate[m] \in InStart /\ fate[n] \in InStart => m = n

\* Whoever compacts has the harness, and has it alone.
HarnessHeld ==
    /\ \A m \in Messages : fate[m] = "compacting" => harness = "compacting"
    /\ recovery = "compacting" =>
           /\ harness = "compacting"
           /\ \A m \in Messages : fate[m] # "compacting"

\* Until an overflow recovery runs beside the chain, the running flag tells
\* the truth about the harness, and a suspended start has it for itself.
TrueBeforeOverflow ==
    ~overflowed =>
        /\ recovery = "none" /\ ~retry /\ pending # "reactive"
        /\ harness \in {"opening", "turn", "ended"} => running
        /\ harness = "compacting" => \E m \in Messages : fate[m] = "compacting"
        /\ \A m \in Messages : fate[m] \in InStart => ~running

\* A suspended start has fixed the mode of its turn, and a toggle meanwhile
\* changes it to the mode that is stored.
ModeFixed ==
    ~overflowed =>
        \A m \in Messages : fate[m] \in InStart => mode \in {override[m], stored}

Inv ==
    /\ TypeOK /\ ChainDistinct /\ OneInStart
    /\ NotWedged /\ HarnessHeld
    /\ BusyOnlyAfterOverflow /\ TrueBeforeOverflow /\ ModeFixed

-----------------------------------------------------------------------------
(* The chain of starts.                                                    *)

\* The messages that are on the chain.
OnChain(c) == {c[i] : i \in 1..Len(c)}

\* A call chains its body behind the starts before it.
LEMMA ChainAppend ==
    ASSUME NEW c \in Seq(Messages), NEW m \in Messages, m \notin OnChain(c),
           \A i, j \in 1..Len(c) : c[i] = c[j] => i = j
    PROVE  /\ Append(c, m) \in Seq(Messages)
           /\ \A i, j \in 1..Len(Append(c, m)) :
                  Append(c, m)[i] = Append(c, m)[j] => i = j
           /\ OnChain(Append(c, m)) = OnChain(c) \cup {m}
<1>1. /\ Append(c, m) \in Seq(Messages)
      /\ Len(Append(c, m)) = Len(c) + 1 /\ Len(c) \in Nat
      /\ \A i \in 1..Len(c) : Append(c, m)[i] = c[i]
      /\ Append(c, m)[Len(c) + 1] = m
  BY AppendProperties, LenProperties
<1>2. QED
  BY <1>1 DEF OnChain

\* The first of a chain without duplicates leaves it for good.
LEMMA ChainTail ==
    ASSUME NEW c \in Seq(Messages), c # <<>>,
           \A i, j \in 1..Len(c) : c[i] = c[j] => i = j
    PROVE  /\ Tail(c) \in Seq(Messages)
           /\ \A i, j \in 1..Len(Tail(c)) : Tail(c)[i] = Tail(c)[j] => i = j
           /\ OnChain(Tail(c)) = OnChain(c) \ {Head(c)}
           /\ Head(c) \in OnChain(c) /\ Head(c) \in Messages
<1>1. /\ Tail(c) \in Seq(Messages) /\ Len(Tail(c)) = Len(c) - 1
      /\ \A i \in 1..Len(Tail(c)) : Tail(c)[i] = c[i + 1]
      /\ Len(c) \in Nat \ {0} /\ Head(c) = c[1] /\ Head(c) \in Messages
  BY HeadTailProperties, EmptySeq, LenProperties
<1>2. \A i \in 1..Len(c) : i # 1 => i - 1 \in 1..Len(Tail(c)) /\ (i - 1) + 1 = i
  BY <1>1
<1>3. OnChain(Tail(c)) = OnChain(c) \ {c[1]}
  BY <1>1, <1>2 DEF OnChain
<1>4. QED
  BY <1>1, <1>3 DEF OnChain

-----------------------------------------------------------------------------
(* The steps.                                                              *)

\* Nothing has arrived, and the harness idles.
LEMMA InitInvariant == Init => Inv
<1> SUFFICES ASSUME Init PROVE Inv
  OBVIOUS
<1>1. chain \in Seq(Messages) /\ Len(chain) = 0 /\ 1..Len(chain) = {}
  BY EmptySeq DEF Init
<1>2. /\ fate \in [Messages -> Fates] /\ \A m \in Messages : fate[m] = "new"
      /\ override \in [Messages -> Modes \cup {NoMode}]
      /\ 0 \in 0..MaxTurns /\ 0 \in 0..MaxToggles
  BY ConstantsAssumption DEF Init, Fates
<1>3. TypeOK
  BY <1>1, <1>2 DEF Init, TypeOK
<1>4. QED
  BY <1>1, <1>2, <1>3 DEF Init, Inv, ChainDistinct, OneInStart, NotWedged, HarnessHeld,
        BusyOnlyAfterOverflow, TrueBeforeOverflow, ModeFixed, InStart

\* What the flags, the harness and the starts owe each other.
Agreement ==
    /\ OneInStart
    /\ NotWedged /\ HarnessHeld
    /\ BusyOnlyAfterOverflow /\ TrueBeforeOverflow /\ ModeFixed

\* prompt() on an idle harness, or its refusal, for a message that has started
\* with no other start suspended.
LEMMA PromptStep ==
    ASSUME TypeOK, Agreement, NEW m \in Messages, fate[m] # "compacting",
           Prompt(m), pending' = pending,
           \A n \in Messages : fate[n] \in InStart => n = m,
           ~overflowed => harness \notin {"opening", "turn", "ended"}
    PROVE  /\ Agreement'
           /\ fate' \in [Messages -> Fates] /\ fate'[m] \in {"prompted", "busy"}
           /\ \A n \in Messages : n # m => fate'[n] = fate[n]
           /\ running' \in BOOLEAN /\ harness' \in {harness, "opening"}
<1>1. /\ fate' \in [Messages -> Fates] /\ fate'[m] \in {"prompted", "busy"}
      /\ \A n \in Messages : n # m => fate'[n] = fate[n]
      /\ running' \in BOOLEAN /\ harness' \in {harness, "opening"}
  BY DEF Prompt, Becomes, TypeOK, Fates
<1>2. \A n \in Messages : fate'[n] \notin InStart
  BY <1>1 DEF InStart
<1>3. /\ harness = "idle" => running' /\ harness' = "opening" /\ fate'[m] = "prompted"
      /\ harness # "idle" => ~running' /\ harness' = harness /\ fate'[m] = "busy"
      /\ recovery' = recovery /\ retry' = retry /\ overflowed' = overflowed
  BY DEF Prompt, Becomes, TypeOK
<1>4. ~overflowed => harness = "idle"
  BY DEF Agreement, TrueBeforeOverflow, TypeOK, InStart
<1>5. NotWedged' /\ OneInStart' /\ ModeFixed'
  BY <1>2, <1>3 DEF NotWedged, OneInStart, ModeFixed, TypeOK
<1>6. HarnessHeld'
  BY <1>1, <1>2, <1>3 DEF Agreement, HarnessHeld, InStart
<1>7. BusyOnlyAfterOverflow'
  BY <1>1, <1>3, <1>4 DEF Agreement, BusyOnlyAfterOverflow
<1>8. TrueBeforeOverflow'
  BY <1>2, <1>3, <1>4 DEF Agreement, TrueBeforeOverflow
<1>9. QED
  BY <1>1, <1>5, <1>6, <1>7, <1>8 DEF Agreement

\* A call only lengthens the chain, with a message that is new.
LEMMA StepArrive ==
    ASSUME Inv, NEW m \in Messages, Arrive(m)
    PROVE  Inv'
<1>1. /\ chain \in Seq(Messages) /\ m \notin OnChain(chain)
      /\ \A n \in Messages : fate[n] = "waiting" <=> n \in OnChain(chain)
      /\ \A i, j \in 1..Len(chain) : chain[i] = chain[j] => i = j
  BY DEF Inv, TypeOK, Arrive, OnChain, ChainDistinct
<1>2. /\ chain' = Append(chain, m) /\ chain' \in Seq(Messages)
      /\ \A i, j \in 1..Len(chain') : chain'[i] = chain'[j] => i = j
      /\ OnChain(chain') = OnChain(chain) \cup {m}
  BY <1>1, ChainAppend DEF Arrive
<1>3. /\ fate' \in [Messages -> Fates] /\ fate'[m] = "waiting" /\ fate[m] = "new"
      /\ \A n \in Messages : n # m => fate'[n] = fate[n] /\ override'[n] = override[n]
      /\ override' \in [Messages -> Modes \cup {NoMode}]
      /\ UNCHANGED <<running, harness, recovery, retry, turns, overflowed, pending,
                     attempted, mode, stored, toggles>>
  BY DEF Inv, TypeOK, Arrive, Becomes, Fates, loop, compaction, modes
<1>4. TypeOK'
  <2>1. \A n \in Messages : fate'[n] = "waiting" <=> n \in OnChain(chain')
    BY <1>1, <1>2, <1>3
  <2>2. QED
    BY <1>2, <1>3, <2>1 DEF Inv, TypeOK, OnChain
<1>5. \A n \in Messages : fate'[n] \in InStart \cup {"busy"} => n # m
  BY <1>3 DEF InStart
<1>6. QED
  BY <1>2, <1>3, <1>4, <1>5
     DEF Inv, ChainDistinct, OneInStart, NotWedged, HarnessHeld,
         BusyOnlyAfterOverflow, TrueBeforeOverflow, ModeFixed, InStart

\* The start at the head of the chain finds no other suspended, so it is queued on
\* the running turn, prompts, or becomes the one that compacts.
LEMMA StepStart ==
    ASSUME Inv, Start
    PROVE  Inv'
<1> DEFINE m == Head(chain)
<1>1. /\ chain \in Seq(Messages) /\ chain # <<>>
      /\ \A n \in Messages : fate[n] = "waiting" <=> n \in OnChain(chain)
      /\ \A i, j \in 1..Len(chain) : chain[i] = chain[j] => i = j
      /\ \A n \in Messages : fate[n] \notin InStart
  BY DEF Inv, TypeOK, Start, TurnToStart, OnChain, ChainDistinct
<1>2. /\ chain' = Tail(chain) /\ chain' \in Seq(Messages)
      /\ \A i, j \in 1..Len(chain') : chain'[i] = chain'[j] => i = j
      /\ OnChain(chain') = OnChain(chain) \ {m}
      /\ m \in Messages /\ m \in OnChain(chain)
  BY <1>1, ChainTail DEF Start
<1> HIDE DEF m
<1>3. /\ UNCHANGED <<override, stored, toggles, attempted>>
      /\ \/ running /\ Becomes(m, "queued")
            /\ UNCHANGED <<running, loop, compaction, mode>>
         \/ /\ ~running
            /\ mode' = IF override[m] = NoMode THEN stored ELSE override[m]
            /\ \/ pending = "none" /\ Prompt(m) /\ UNCHANGED pending
               \/ /\ pending # "none" /\ Becomes(m, "snapshot")
                  /\ pending' = "none"
                  /\ UNCHANGED <<running, loop>>
  BY DEF Start, m, compaction
<1>4. ASSUME /\ Agreement' /\ fate' \in [Messages -> Fates]
             /\ fate'[m] # "waiting"
             /\ \A n \in Messages : n # m => fate'[n] = fate[n]
             /\ running' \in BOOLEAN /\ harness' \in {harness, "opening"}
             /\ UNCHANGED <<recovery, retry, turns, overflowed>>
             /\ pending' \in {"none", pending} /\ mode' \in Modes
      PROVE  Inv'
  <2>1. \A n \in Messages : fate'[n] = "waiting" <=> n \in OnChain(chain')
    BY <1>1, <1>2, <1>4
  <2>2. TypeOK'
    BY <1>2, <1>3, <1>4, <2>1 DEF Inv, TypeOK, OnChain
  <2>3. QED
    BY <1>2, <1>4, <2>2 DEF Inv, Agreement, ChainDistinct
<1>5. CASE running
  <2>1. /\ Becomes(m, "queued") /\ UNCHANGED <<running, loop, compaction, mode>>
    BY <1>3, <1>5
  <2>2. /\ fate' \in [Messages -> Fates] /\ fate'[m] = "queued"
        /\ \A n \in Messages : n # m => fate'[n] = fate[n]
    BY <1>2, <2>1 DEF Inv, TypeOK, Becomes, Fates
  <2>3. \A n \in Messages : fate'[n] \notin InStart /\ (fate'[n] = "busy" => fate[n] = "busy")
    BY <1>1, <2>2 DEF InStart
  <2>4. Agreement'
    BY <1>1, <1>5, <2>1, <2>3
       DEF Agreement, Inv, OneInStart, NotWedged, HarnessHeld, BusyOnlyAfterOverflow,
           TrueBeforeOverflow, ModeFixed, InStart, loop, compaction
  <2>5. QED
    BY <1>4, <1>5, <2>1, <2>2, <2>4 DEF Inv, TypeOK, loop, compaction
<1>6. CASE ~running /\ pending = "none"
  <2>1. Prompt(m) /\ pending' = pending
    BY <1>3, <1>6
  <2>2. ~overflowed => harness \notin {"opening", "turn", "ended"}
    BY <1>6 DEF Inv, TrueBeforeOverflow
  <2>3. /\ Agreement'
        /\ fate' \in [Messages -> Fates] /\ fate'[m] \in {"prompted", "busy"}
        /\ \A n \in Messages : n # m => fate'[n] = fate[n]
        /\ running' \in BOOLEAN /\ harness' \in {harness, "opening"}
    <3>1. fate[m] = "waiting"
      BY <1>1, <1>2
    <3>2. QED
      BY <1>1, <1>2, <2>1, <2>2, <3>1, PromptStep DEF Inv, Agreement
  <2>4. mode' \in Modes
    BY <1>2, <1>3, <1>6 DEF Inv, TypeOK
  <2>5. QED
    BY <1>4, <2>1, <2>3, <2>4 DEF Prompt
<1>7. CASE ~running /\ pending # "none"
  <2>1. /\ Becomes(m, "snapshot") /\ pending' = "none" /\ UNCHANGED <<running, loop>>
        /\ mode' = IF override[m] = NoMode THEN stored ELSE override[m]
    BY <1>3, <1>7
  <2>2. /\ fate' \in [Messages -> Fates] /\ fate'[m] = "snapshot"
        /\ \A n \in Messages : n # m => fate'[n] = fate[n]
    BY <1>2, <2>1 DEF Inv, TypeOK, Becomes, Fates, InStart
  <2>3. \A n \in Messages : fate'[n] \in InStart <=> n = m
    BY <1>1, <2>2 DEF InStart
  <2>4. mode' \in Modes /\ mode' \in {override'[m], stored'}
    BY <1>2, <1>3, <2>1 DEF Inv, TypeOK
  <2>5. OneInStart' /\ ModeFixed' /\ NotWedged'
    BY <1>2, <2>1, <2>3, <2>4 DEF Inv, OneInStart, ModeFixed, NotWedged, loop
  <2>6. HarnessHeld' /\ BusyOnlyAfterOverflow'
    BY <2>1, <2>2 DEF Inv, HarnessHeld, BusyOnlyAfterOverflow, loop
  <2>7. TrueBeforeOverflow'
    <3>1. ~overflowed => harness # "compacting"
      BY <1>1 DEF Inv, TrueBeforeOverflow, InStart
    <3>2. QED
      BY <1>7, <2>1, <3>1 DEF Inv, TrueBeforeOverflow, loop
  <2>8. QED
    BY <1>4, <2>1, <2>2, <2>4, <2>5, <2>6, <2>7 DEF Inv, TypeOK, Agreement, loop
<1>8. QED
  BY <1>5, <1>6, <1>7

\* The backup is written: the suspended start goes on to compact an idle harness.
LEMMA StepSnapshot ==
    ASSUME Inv, NEW m \in Messages, Snapshot(m)
    PROVE  Inv'
<1>1. TypeOK'
  BY DEF Inv, TypeOK, Fates, InStart, Snapshot, Becomes, compaction, modes
<1>2. ChainDistinct'
  BY DEF Inv, ChainDistinct, Snapshot, Becomes, compaction, modes
<1>3. OneInStart' /\ NotWedged' /\ HarnessHeld'
  BY DEF Inv, TypeOK, OneInStart, NotWedged, HarnessHeld, TrueBeforeOverflow,
         InStart, Snapshot, Becomes, compaction, modes
<1>4. BusyOnlyAfterOverflow' /\ TrueBeforeOverflow' /\ ModeFixed'
  BY DEF Inv, TypeOK, BusyOnlyAfterOverflow, TrueBeforeOverflow, ModeFixed,
         OneInStart, HarnessHeld, InStart, Snapshot, Becomes, compaction, modes
<1>5. QED
  BY <1>1, <1>2, <1>3, <1>4 DEF Inv

\* Only the start that compacts hands the harness back.
LEMMA StepCompacted ==
    ASSUME Inv, NEW m \in Messages, Compacted(m)
    PROVE  Inv'
<1>1. TypeOK'
  BY DEF Inv, TypeOK, Fates, InStart, Compacted, compaction, modes
<1>2. ChainDistinct'
  BY DEF Inv, ChainDistinct, Compacted, compaction, modes
<1>3. OneInStart' /\ NotWedged' /\ HarnessHeld'
  BY DEF Inv, TypeOK, OneInStart, NotWedged, HarnessHeld, TrueBeforeOverflow,
         InStart, Compacted, compaction, modes
<1>4. BusyOnlyAfterOverflow' /\ TrueBeforeOverflow' /\ ModeFixed'
  BY DEF Inv, TypeOK, BusyOnlyAfterOverflow, TrueBeforeOverflow, ModeFixed,
         OneInStart, HarnessHeld, InStart, Compacted, compaction, modes
<1>5. QED
  BY <1>1, <1>2, <1>3, <1>4 DEF Inv

\* A toggle under a suspended start stores the mode the turn will have.
LEMMA StepSetApprovalMode ==
    ASSUME Inv, NEW md \in Modes, SetApprovalMode(md)
    PROVE  Inv'
<1>1. TypeOK'
  <2>1. toggles' \in 0..MaxToggles
    BY ConstantsAssumption DEF Inv, TypeOK, SetApprovalMode
  <2>2. QED
    BY <2>1 DEF Inv, TypeOK, SetApprovalMode, starts, loop, compaction
<1>2. ChainDistinct'
  BY DEF Inv, ChainDistinct, SetApprovalMode, starts, loop, compaction
<1>3. OneInStart' /\ NotWedged' /\ HarnessHeld'
  BY DEF Inv, TypeOK, OneInStart, NotWedged, HarnessHeld, TrueBeforeOverflow,
         InStart, SetApprovalMode, starts, loop, compaction
<1>4. BusyOnlyAfterOverflow' /\ TrueBeforeOverflow' /\ ModeFixed'
  BY DEF Inv, TypeOK, BusyOnlyAfterOverflow, TrueBeforeOverflow, ModeFixed,
         OneInStart, HarnessHeld, InStart, SetApprovalMode, starts, loop, compaction
<1>5. QED
  BY <1>1, <1>2, <1>3, <1>4 DEF Inv

\* agent_start, or a prompt that is rejected before there is a run.
LEMMA StepOpened ==
    ASSUME Inv, Opened
    PROVE  Inv'
<1>1. TypeOK'
  <2> DEFINE Settled(f) == [m \in Messages |-> IF fate[m] = "prompted" THEN f ELSE fate[m]]
  <2>1. /\ fate' = Settled("taken") \/ fate' = Settled("failed")
        /\ UNCHANGED chain
    BY DEF Opened, Delivered
  <2>2. \A f \in {"taken", "failed"} :
           /\ Settled(f) \in [Messages -> Fates]
           /\ \A m \in Messages : Settled(f)[m] = "waiting" <=> fate[m] = "waiting"
    BY DEF Inv, TypeOK, Fates
  <2> HIDE DEF Settled
  <2>3. /\ fate' \in [Messages -> Fates]
        /\ \A m \in Messages : fate'[m] = "waiting" <=> fate[m] = "waiting"
    BY <2>1, <2>2
  <2>4. /\ harness' \in {"turn", "idle"} /\ running' \in BOOLEAN
        /\ UNCHANGED <<override, recovery, retry, turns, overflowed, pending,
                       attempted, mode, stored, toggles>>
    BY DEF Opened, compaction, modes
  <2>5. QED
    BY <2>1, <2>3, <2>4 DEF Inv, TypeOK
<1>2. ChainDistinct'
  BY DEF Inv, ChainDistinct, Opened, Delivered, compaction, modes
<1>3. OneInStart' /\ NotWedged' /\ HarnessHeld'
  BY DEF Inv, TypeOK, OneInStart, NotWedged, HarnessHeld, TrueBeforeOverflow,
         InStart, Opened, Delivered, compaction, modes
<1>4. BusyOnlyAfterOverflow' /\ TrueBeforeOverflow' /\ ModeFixed'
  BY DEF Inv, TypeOK, BusyOnlyAfterOverflow, TrueBeforeOverflow, ModeFixed,
         OneInStart, HarnessHeld, InStart, Opened, Delivered, compaction, modes
<1>5. QED
  BY <1>1, <1>2, <1>3, <1>4 DEF Inv

\* The loop goes on with what was queued on it.
LEMMA StepTurnContinues ==
    ASSUME Inv, TurnContinues
    PROVE  Inv'
<1>1. TypeOK'
  <2>1. /\ fate' \in [Messages -> Fates] /\ UNCHANGED chain
        /\ \A m \in Messages : fate'[m] = "waiting" <=> fate[m] = "waiting"
    BY DEF Inv, TypeOK, TurnContinues, Delivered, Fates, InStart
  <2>2. turns' \in 0..MaxTurns
    BY ConstantsAssumption DEF Inv, TypeOK, TurnContinues
  <2>3. QED
    BY <2>1, <2>2 DEF Inv, TypeOK, TurnContinues, modes
<1>2. ChainDistinct'
  BY DEF Inv, ChainDistinct, TurnContinues, InTurn, Delivered, modes
<1>3. OneInStart' /\ NotWedged' /\ HarnessHeld'
  BY DEF Inv, TypeOK, OneInStart, NotWedged, HarnessHeld, TrueBeforeOverflow,
         InStart, TurnContinues, InTurn, Delivered, modes
<1>4. BusyOnlyAfterOverflow' /\ TrueBeforeOverflow' /\ ModeFixed'
  BY DEF Inv, TypeOK, BusyOnlyAfterOverflow, TrueBeforeOverflow, ModeFixed,
         OneInStart, HarnessHeld, InStart, TurnContinues, InTurn, Delivered, modes
<1>5. QED
  BY <1>1, <1>2, <1>3, <1>4 DEF Inv

\* The hook takes a pending compaction.
LEMMA StepContextHook ==
    ASSUME Inv, ContextHook
    PROVE  Inv'
<1>1. TypeOK'
  BY DEF Inv, TypeOK, Fates, InStart, ContextHook, starts, loop, modes
<1>2. ChainDistinct'
  BY DEF Inv, ChainDistinct, ContextHook, starts, loop, modes
<1>3. OneInStart' /\ NotWedged' /\ HarnessHeld'
  BY DEF Inv, TypeOK, OneInStart, NotWedged, HarnessHeld, TrueBeforeOverflow,
         InStart, ContextHook, starts, loop, modes
<1>4. BusyOnlyAfterOverflow' /\ TrueBeforeOverflow' /\ ModeFixed'
  BY DEF Inv, TypeOK, BusyOnlyAfterOverflow, TrueBeforeOverflow, ModeFixed,
         OneInStart, HarnessHeld, InStart, ContextHook, starts, loop, modes
<1>5. QED
  BY <1>1, <1>2, <1>3, <1>4 DEF Inv

\* Only an overflow asks for a reactive compaction, and it is on record from then on.
LEMMA StepLastTurn ==
    ASSUME Inv, LastTurn
    PROVE  Inv'
<1>1. TypeOK'
  BY DEF Inv, TypeOK, Fates, InStart, LastTurn, InTurn, starts, compaction, modes
<1>2. ChainDistinct'
  BY DEF Inv, ChainDistinct, LastTurn, InTurn, starts, compaction, modes
<1>3. OneInStart' /\ NotWedged' /\ HarnessHeld'
  BY DEF Inv, TypeOK, OneInStart, NotWedged, HarnessHeld, TrueBeforeOverflow,
         InStart, LastTurn, InTurn, starts, compaction, modes
<1>4. BusyOnlyAfterOverflow' /\ TrueBeforeOverflow' /\ ModeFixed'
  BY DEF Inv, TypeOK, BusyOnlyAfterOverflow, TrueBeforeOverflow, ModeFixed,
         OneInStart, HarnessHeld, InStart, LastTurn, InTurn, starts, compaction, modes
<1>5. QED
  BY <1>1, <1>2, <1>3, <1>4 DEF Inv

\* The turn ends: the flag is cleared together with the harness.
LEMMA StepAgentEnd ==
    ASSUME Inv, AgentEnd
    PROVE  Inv'
<1>1. TypeOK'
  BY DEF Inv, TypeOK, Fates, InStart, AgentEnd, starts, modes
<1>2. ChainDistinct'
  BY DEF Inv, ChainDistinct, AgentEnd, starts, modes
<1>3. OneInStart' /\ NotWedged' /\ HarnessHeld'
  BY DEF Inv, TypeOK, OneInStart, NotWedged, HarnessHeld, TrueBeforeOverflow,
         InStart, AgentEnd, starts, modes
<1>4. BusyOnlyAfterOverflow' /\ TrueBeforeOverflow' /\ ModeFixed'
  BY DEF Inv, TypeOK, BusyOnlyAfterOverflow, TrueBeforeOverflow, ModeFixed,
         OneInStart, HarnessHeld, InStart, AgentEnd, starts, modes
<1>5. QED
  BY <1>1, <1>2, <1>3, <1>4 DEF Inv

\* The recovery takes the harness only when nobody has it.
LEMMA StepRecoverySnapshot ==
    ASSUME Inv, RecoverySnapshot
    PROVE  Inv'
<1>1. TypeOK'
  BY DEF Inv, TypeOK, Fates, InStart, RecoverySnapshot, starts, compaction, modes
<1>2. ChainDistinct'
  BY DEF Inv, ChainDistinct, RecoverySnapshot, starts, compaction, modes
<1>3. OneInStart' /\ NotWedged' /\ HarnessHeld'
  BY DEF Inv, TypeOK, OneInStart, NotWedged, HarnessHeld, TrueBeforeOverflow,
         InStart, RecoverySnapshot, starts, compaction, modes
<1>4. BusyOnlyAfterOverflow' /\ TrueBeforeOverflow' /\ ModeFixed'
  BY DEF Inv, TypeOK, BusyOnlyAfterOverflow, TrueBeforeOverflow, ModeFixed,
         OneInStart, HarnessHeld, InStart, RecoverySnapshot, starts, compaction, modes
<1>5. QED
  BY <1>1, <1>2, <1>3, <1>4 DEF Inv

\* The recovery gives the harness back.
LEMMA StepRecoveryDone ==
    ASSUME Inv, RecoveryDone
    PROVE  Inv'
<1>1. TypeOK'
  BY DEF Inv, TypeOK, Fates, InStart, RecoveryDone, starts, compaction, modes
<1>2. ChainDistinct'
  BY DEF Inv, ChainDistinct, RecoveryDone, starts, compaction, modes
<1>3. OneInStart' /\ NotWedged' /\ HarnessHeld'
  BY DEF Inv, TypeOK, OneInStart, NotWedged, HarnessHeld, TrueBeforeOverflow,
         InStart, RecoveryDone, starts, compaction, modes
<1>4. BusyOnlyAfterOverflow' /\ TrueBeforeOverflow' /\ ModeFixed'
  BY DEF Inv, TypeOK, BusyOnlyAfterOverflow, TrueBeforeOverflow, ModeFixed,
         OneInStart, HarnessHeld, InStart, RecoveryDone, starts, compaction, modes
<1>5. QED
  BY <1>1, <1>2, <1>3, <1>4 DEF Inv

\* The retry prompts an idle harness, or clears the flag of somebody else's turn.
LEMMA StepRetryFires ==
    ASSUME Inv, RetryFires
    PROVE  Inv'
<1>1. TypeOK'
  BY DEF Inv, TypeOK, Fates, InStart, RetryFires, starts, compaction, modes
<1>2. ChainDistinct'
  BY DEF Inv, ChainDistinct, RetryFires, starts, compaction, modes
<1>3. OneInStart' /\ NotWedged' /\ HarnessHeld'
  BY DEF Inv, TypeOK, OneInStart, NotWedged, HarnessHeld, TrueBeforeOverflow,
         InStart, RetryFires, starts, compaction, modes
<1>4. BusyOnlyAfterOverflow' /\ TrueBeforeOverflow' /\ ModeFixed'
  BY DEF Inv, TypeOK, BusyOnlyAfterOverflow, TrueBeforeOverflow, ModeFixed,
         OneInStart, HarnessHeld, InStart, RetryFires, starts, compaction, modes
<1>5. QED
  BY <1>1, <1>2, <1>3, <1>4 DEF Inv

\* The suspended start prompts, or gives its message up.
LEMMA StepRecorded ==
    ASSUME Inv, NEW m \in Messages, Recorded(m)
    PROVE  Inv'
<1>1. /\ fate[m] \in {"recording", "unloadable"}
      /\ UNCHANGED <<override, chain, compaction, modes>>
      /\ \A n \in Messages : fate[n] \in InStart => n = m
  BY DEF Recorded, Inv, OneInStart, InStart
<1>2. ~overflowed => harness \notin {"opening", "turn", "ended"}
  BY <1>1 DEF Inv, TrueBeforeOverflow, InStart
<1>3. CASE Prompt(m)
  <2>1. /\ Agreement'
        /\ fate' \in [Messages -> Fates] /\ fate'[m] \in {"prompted", "busy"}
        /\ \A n \in Messages : n # m => fate'[n] = fate[n]
        /\ running' \in BOOLEAN /\ harness' \in {harness, "opening"}
    BY <1>1, <1>2, <1>3, PromptStep DEF Inv, Agreement, compaction
  <2>2. UNCHANGED <<recovery, retry, turns, overflowed>>
    BY <1>3 DEF Prompt
  <2>3. TypeOK' /\ ChainDistinct'
    BY <1>1, <2>1, <2>2 DEF Inv, TypeOK, ChainDistinct, compaction, modes
  <2>4. QED
    BY <2>1, <2>3 DEF Inv, Agreement
<1>4. CASE fate' \in {[fate EXCEPT ![m] = f] : f \in {"dropped", "refused"}}
           /\ UNCHANGED <<running, loop>>
  <2>1. /\ fate' \in [Messages -> Fates] /\ fate'[m] \in {"dropped", "refused"}
        /\ \A n \in Messages : n # m => fate'[n] = fate[n]
    BY <1>4 DEF Inv, TypeOK, Fates
  <2>2. TypeOK' /\ ChainDistinct'
    BY <1>1, <1>4, <2>1 DEF Inv, TypeOK, ChainDistinct, loop, compaction, modes
  <2>3. OneInStart' /\ NotWedged' /\ HarnessHeld' /\ BusyOnlyAfterOverflow'
    BY <1>4, <2>1
       DEF Inv, OneInStart, NotWedged, HarnessHeld, BusyOnlyAfterOverflow, InStart, loop
  <2>4. TrueBeforeOverflow' /\ ModeFixed'
    BY <1>1, <1>4, <2>1
       DEF Inv, TrueBeforeOverflow, ModeFixed, InStart, loop, compaction, modes
  <2>5. QED
    BY <2>2, <2>3, <2>4 DEF Inv
<1>5. QED
  BY <1>3, <1>4 DEF Recorded, Becomes

\* Every step keeps the invariant.
LEMMA StepInvariant == Inv /\ [Next]_vars => Inv'
<1> SUFFICES ASSUME Inv, [Next]_vars PROVE Inv'
  OBVIOUS
<1>1. CASE UNCHANGED vars
  BY <1>1 DEF Inv, TypeOK, ChainDistinct, OneInStart, NotWedged, HarnessHeld,
       BusyOnlyAfterOverflow, TrueBeforeOverflow, ModeFixed, vars, starts, loop,
       compaction, modes
<1>2. CASE Next
  BY <1>2, StepArrive, StepSnapshot, StepCompacted, StepRecorded, StepStart,
     StepSetApprovalMode, StepOpened, StepTurnContinues, StepContextHook,
     StepLastTurn, StepAgentEnd, StepRecoverySnapshot, StepRecoveryDone,
     StepRetryFires DEF Next
<1>3. QED
  BY <1>1, <1>2

-----------------------------------------------------------------------------
(* Theorems.                                                               *)

\* The inductive invariant holds of every behaviour.
THEOREM Invariance == Spec => []Inv
<1>1. QED
  BY InitInvariant, StepInvariant, PTL DEF Spec

\* The running flag never sticks, and until there is an overflow recovery no
\* message is refused by a busy harness: however many messages arrive, toggle
\* the mode or are given up (manager.ts:910-945).
THEOREM SessionIsConsistent == Spec => []SessionConsistent
<1>1. Inv => SessionConsistent
  BY DEF Inv, SessionConsistent
<1>2. QED
  BY <1>1, Invariance, PTL

\* A prompt takes the mode its message asked for or the one stored then, and
\* a toggle never reaches under a turn that runs.
LEMMA StepMode ==
    ASSUME Inv, [Next]_vars, ~overflowed
    PROVE  /\ \A m \in Messages :
                 fate[m] # "prompted" /\ fate'[m] = "prompted" =>
                     mode' \in {override[m], stored'}
           /\ harness \in {"opening", "turn"} => mode' = mode
<1>1. harness \in {"opening", "turn"} => running
  BY DEF Inv, TrueBeforeOverflow
<1>2. CASE Start
  <2>1. PICK m \in Messages :
            /\ \A n \in Messages : n # m => fate'[n] = fate[n]
            /\ mode' # mode => ~running
            /\ fate'[m] # "queued" =>
                   mode' \in {override[m], stored} /\ stored' = stored
    <3>1. Head(chain) \in Messages
      BY <1>2, ChainTail DEF Start, TurnToStart, Inv, TypeOK, ChainDistinct
    <3>2. QED
      BY <1>2, <3>1 DEF Start, Becomes, Prompt, Inv, TypeOK
  <2>2. fate'[m] = "queued" => fate'[m] # "prompted"
    OBVIOUS
  <2>3. QED
    BY <1>1, <2>1, <2>2
<1>3. ASSUME NEW m \in Messages, Recorded(m)
      PROVE  /\ mode' = mode /\ stored' = stored
             /\ mode \in {override[m], stored}
             /\ \A n \in Messages : n # m => fate'[n] = fate[n]
  BY <1>3 DEF Recorded, Prompt, Becomes, Inv, TypeOK, ModeFixed, InStart, modes
<1>4. ASSUME NEW m \in Messages, Arrive(m) \/ Snapshot(m) \/ Compacted(m)
      PROVE  /\ mode' = mode
             /\ \A n \in Messages : fate'[n] = "prompted" => fate[n] = "prompted"
  BY <1>4 DEF Arrive, Snapshot, Compacted, Becomes, Inv, TypeOK, modes
<1>5. ASSUME NEW md \in Modes, SetApprovalMode(md)
      PROVE  fate' = fate /\ (running => mode' = mode)
  BY <1>5 DEF SetApprovalMode, starts
<1>6. CASE Opened \/ TurnContinues
  BY <1>6 DEF Opened, TurnContinues, Delivered, modes
<1>7. CASE ContextHook \/ LastTurn \/ AgentEnd \/ RecoverySnapshot \/ RecoveryDone
           \/ RetryFires \/ UNCHANGED vars
  BY <1>7 DEF ContextHook, LastTurn, AgentEnd, RecoverySnapshot, RecoveryDone,
       RetryFires, vars, starts, modes
<1>8. QED
  BY <1>1, <1>2, <1>3, <1>4, <1>5, <1>6, <1>7 DEF Next

\* In a session that has had no overflow recovery, a turn runs in the mode of
\* the message that starts it and keeps it to its end (manager.ts:931-934).
THEOREM TurnKeepsItsMode == Spec => ModeOfATurn
<1> DEFINE Kept ==
        ~overflowed =>
          /\ \A m \in Messages :
                fate[m] # "prompted" /\ fate'[m] = "prompted" =>
                    mode' \in {override[m], stored'}
          /\ harness \in {"opening", "turn"} => mode' = mode
<1>1. Inv /\ [Next]_vars => [Kept]_vars
  BY StepMode
<1>2. QED
  BY <1>1, Invariance, PTL DEF Spec, ModeOfATurn
=============================================================================

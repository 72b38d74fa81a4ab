---------------------------- MODULE SchedulerProofs ----------------------------
(***************************************************************************)
(* The safety of Scheduler, proved for every period of the crons and any   *)
(* number of schedules, exits and ticks of the clock.                      *)
(***************************************************************************)
EXTENDS Scheduler, SequenceTheorems, FiniteSetTheorems, TLAPS

-----------------------------------------------------------------------------
(* The inductive invariant.                                                *)

\* A one-shot that has fired, in whichever loop, can fire no more: it is not
\* armed, no loop is on its way to it, and its prompt is delivered at most once.
OnceSound(s) ==
    rows[s].kind = "once" =>
        /\ rows[s].fired =< 1
        /\ rows[s].enabled \/ s \in loop.todo => rows[s].fired = 0
        /\ delivered[s] =< rows[s].fired
        /\ loop.firing = s => delivered[s] < rows[s].fired

\* A cron has fired in an earlier period than the one it is due in, and what a
\* loop will fire of it fell due in the life of this process.
CronSound(s) ==
    rows[s].kind = "cron" =>
        /\ rows[s].last \div Period < rows[s].next \div Period
        /\ s \in loop.todo => rows[s].next =< loop.at
        /\ loop.mode = "tick" /\ s \in loop.todo => rows[s].next > bootedAt
        /\ proc # "down" /\ rows[s].enabled
              /\ ~(loop.mode = "catchUp" /\ s \in loop.todo)
                  => rows[s].next > bootedAt

\* The one firing that a cancel can come too late for takes the schedule out of
\* its loop, and no later snapshot has it.
PosthumousSound(s) ==
    posthumous[s] > 0 => posthumous[s] = 1 /\ rows[s].cancelled /\ s \notin loop.todo

\* The loop in flight is this process's, and works with a time that has been.
LoopSound ==
    /\ loop.at =< clock /\ bootedAt =< clock
    /\ loop.mode = "catchUp" => loop.at = bootedAt
    /\ loop.firing \notin loop.todo
    /\ loop.mode = "none" => loop.firing = 0 /\ loop.todo = {}
    /\ loop.mode # "none" => proc # "down"

\* Nothing has happened to schedules that do not exist.
NotYet == \A s \in Ids : s > Len(rows) => delivered[s] = 0 /\ posthumous[s] = 0

Inv ==
    /\ TypeOK /\ LoopSound /\ NotYet
    /\ \A s \in 1..Len(rows) : OnceSound(s) /\ CronSound(s) /\ PosthumousSound(s)

-----------------------------------------------------------------------------
(* Arithmetic.                                                             *)

\* computeNextFire of a cron: a later time, in the next period.
LEMMA CronFromProperties ==
    ASSUME NEW t \in Nat
    PROVE  /\ CronFrom(t) \in Nat /\ CronFrom(t) > t
           /\ CronFrom(t) \div Period = t \div Period + 1
           /\ t \div Period \in Nat
<1>1. (t \div Period + 1) * Period \in Nat /\ (t \div Period + 1) * Period > t
  BY ConstantsAssumption
<1>2. ((t \div Period + 1) * Period) \div Period = t \div Period + 1
  BY ConstantsAssumption
<1>3. t \div Period \in Nat
  BY ConstantsAssumption
<1>4. QED
  BY <1>1, <1>2, <1>3 DEF CronFrom

\* A later time is in no earlier period.
LEMMA PeriodsGrow ==
    ASSUME NEW t \in Nat, NEW u \in Nat, t =< u
    PROVE  t \div Period =< u \div Period
  BY ConstantsAssumption

\* A set of numbers that is not empty has a least one: its initial segments are
\* finite sets, of which there is a smallest.
LEMMA MinProperties ==
    ASSUME NEW S \in SUBSET Nat, S # {}
    PROVE  Min(S) \in S /\ \A y \in S : Min(S) <= y
<1> DEFINE Below(x) == 0..(x - 1)
           T == {Below(x) : x \in S}
<1>1. T \subseteq FiniteSubsetsOf(Nat) /\ T # {}
  <2>1. ASSUME NEW x \in S PROVE Below(x) \in FiniteSubsetsOf(Nat)
    <3>1. 0 \in Int /\ x - 1 \in Int /\ Below(x) \in SUBSET Nat
      OBVIOUS
    <3>2. QED
      BY <3>1, FS_Interval DEF FiniteSubsetsOf
  <2>2. QED
    BY <2>1
<1>2. PICK X \in T : \A Y \in T : <<Y, X>> \notin StrictSubsetOrdering(Nat)
  BY <1>1, FS_StrictSubsetOrderingWellFounded, WFMin, Zenon
<1>3. PICK x \in S : X = Below(x)
  OBVIOUS
<1>4. ASSUME NEW y \in S PROVE x <= y
  <2>1. SUFFICES ASSUME y < x PROVE FALSE
    OBVIOUS
  <2>2. Below(y) \subseteq Below(x) /\ y \in Below(x) /\ y \notin Below(y)
    BY <2>1
  <2>3. Below(y) \in SUBSET Nat /\ Below(x) \in SUBSET Nat
    OBVIOUS
  <2>4. <<Below(y), Below(x)>> \in StrictSubsetOrdering(Nat)
    BY <2>2, <2>3 DEF StrictSubsetOrdering
  <2>5. QED
    BY <1>2, <1>3, <2>4
<1>5. QED
  BY <1>4 DEF Min

-----------------------------------------------------------------------------
(* A loop on its way to its next await.                                    *)

\* The loop m has fired row f of its snapshot, or none, and rescheduled the
\* crons it skipped on the way.
Walked(m, todo, t, f, skipped) ==
    /\ f # 0 => f \in todo /\ (m = "tick" \/ rows[f].kind = "once")
    /\ f = 0 => skipped = todo
    /\ f \notin skipped
    /\ \A s \in skipped : m # "tick" /\ rows[s].kind # "once"
    /\ rows' = [s \in 1..Len(rows) |->
                    IF s = f THEN Fired(rows[s])
                    ELSE IF s \in skipped THEN Rescheduled(rows[s], t)
                    ELSE rows[s]]
    /\ posthumous' = IF f # 0 /\ rows[f].cancelled
                     THEN [posthumous EXCEPT ![f] = @ + 1]
                     ELSE posthumous
    /\ loop' = IF f = 0 THEN Idle
               ELSE [mode |-> m, todo |-> todo \ (skipped \cup {f}),
                     at |-> t, firing |-> f]

\* That is what Walk does: the first row that it fires is one of the snapshot's.
LEMMA WalkCases ==
    ASSUME NEW m, NEW todo \in SUBSET (1..Len(rows)), NEW t, Len(rows) \in Nat,
           Walk(m, todo, t)
    PROVE  \E f \in 0..Len(rows), skipped \in SUBSET todo :
              Walked(m, todo, t, f, skipped)
<1> DEFINE toFire == Fires(m, todo)
           f == IF toFire = {} THEN 0 ELSE Min(toFire)
           skipped == {s \in todo \ toFire : f = 0 \/ s < f}
<1>1. toFire \subseteq todo /\ toFire \in SUBSET Nat
  <2>1. todo \subseteq Nat
    OBVIOUS
  <2>2. QED
    BY <2>1 DEF Fires
<1>2. f # 0 => f \in toFire
  BY <1>1, MinProperties
<1>3. f = 0 => toFire = {}
  <2>1. toFire # {} => Min(toFire) \in 1..Len(rows)
    BY <1>1, MinProperties
  <2>2. QED
    BY <2>1
<1>4. /\ f \in 0..Len(rows) /\ skipped \in SUBSET todo
      /\ f # 0 => f \in todo /\ (m = "tick" \/ rows[f].kind = "once")
      /\ f = 0 => skipped = todo
      /\ f \notin skipped
      /\ \A s \in skipped : m # "tick" /\ rows[s].kind # "once"
  BY <1>1, <1>2, <1>3 DEF Fires
<1>5. QED
  BY <1>4 DEF Walk, Walked

\* What a row owes a loop that is about to walk on, with the deliveries so far.
Ready(s, m, todo, t) ==
    /\ rows[s].kind = "once" =>
          /\ rows[s].fired =< 1
          /\ rows[s].enabled \/ s \in todo => rows[s].fired = 0
          /\ delivered'[s] =< rows[s].fired
    /\ rows[s].kind = "cron" =>
          /\ rows[s].last \div Period < rows[s].next \div Period
          /\ s \in todo => rows[s].next =< t
          /\ m = "tick" /\ s \in todo => rows[s].next > bootedAt'
          /\ rows[s].enabled /\ ~(m = "catchUp" /\ s \in todo)
                => rows[s].next > bootedAt'
    /\ posthumous[s] > 0 => posthumous[s] = 1 /\ rows[s].cancelled /\ s \notin todo

\* A row that fires is no longer armed, or is armed for a later period.
LEMMA FiredRow ==
    ASSUME NEW r \in Row, clock \in Nat, r.enabled => ~r.cancelled
    PROVE  /\ Fired(r) \in Row /\ Fired(r).kind = r.kind
           /\ Fired(r).cancelled = r.cancelled
           /\ Fired(r).fired = r.fired + 1
           /\ Fired(r).last = clock
           /\ r.kind = "once" => ~Fired(r).enabled
           /\ r.kind = "cron" => Fired(r).next = CronFrom(clock)
           /\ Fired(r).enabled => r.enabled /\ Fired(r).next # NoTime
<1> DEFINE next == IF r.kind = "cron" THEN CronFrom(clock) ELSE NoTime
           enabled == r.enabled /\ r.kind = "cron"
<1>1. CronFrom(clock) \in Nat /\ CronFrom(clock) > clock /\ next \in Nat
  BY CronFromProperties DEF NoTime
<1>2. Fired(r) = [r EXCEPT !.fired = r.fired + 1, !.last = clock, !.next = next,
                           !.enabled = enabled]
  BY DEF Fired, ComputeNextFire, Row
<1>3. enabled \in BOOLEAN /\ r.fired + 1 \in Nat
  BY DEF Row
<1> HIDE DEF next, enabled
<1>4. /\ Fired(r) \in Row /\ Fired(r).kind = r.kind
      /\ Fired(r).cancelled = r.cancelled
      /\ Fired(r).fired = r.fired + 1 /\ Fired(r).last = clock
      /\ Fired(r).next = next /\ Fired(r).enabled = enabled
  BY <1>1, <1>2, <1>3 DEF Row
<1>5. QED
  BY <1>1, <1>4 DEF next, enabled, Row, NoTime

\* A row that is skipped is armed as before, for a time after the snapshot.
LEMMA RescheduledRow ==
    ASSUME NEW r \in Row, NEW t \in Nat
    PROVE  /\ Rescheduled(r, t) \in Row
           /\ Rescheduled(r, t).next = CronFrom(t) /\ CronFrom(t) # NoTime
           /\ Rescheduled(r, t) = [r EXCEPT !.next = CronFrom(t)]
<1>1. CronFrom(t) \in Nat /\ CronFrom(t) > t
  BY CronFromProperties
<1>2. QED
  BY <1>1 DEF Rescheduled, Row, ComputeNextFire, NoTime

\* A loop that walks on keeps the invariant, whether it is the tick's, the
\* boot's, or one that an injection has come back to.
LEMMA WalkStep ==
    ASSUME TypeOK,
           NEW m \in {"tick", "catchUp"}, NEW todo \in SUBSET (1..Len(rows)),
           NEW t \in 0..MaxTime, Walk(m, todo, t),
           clock' = clock, exits' = exits, bootedAt' \in 0..MaxTime,
           proc' \in {"booting", "up", "draining"},
           delivered' \in [Ids -> Nat],
           t =< clock, bootedAt' =< clock, m = "catchUp" => t = bootedAt',
           \A s \in Ids : s > Len(rows) => delivered'[s] = 0 /\ posthumous[s] = 0,
           \A s \in 1..Len(rows) : Ready(s, m, todo, t)
    PROVE  Inv'
<1>1. /\ Len(rows) \in Nat /\ Len(rows) =< MaxSchedules /\ clock \in Nat /\ t \in Nat
      /\ \A s \in 1..Len(rows) :
            rows[s] \in Row /\ (rows[s].enabled => ~rows[s].cancelled)
      /\ 1..Len(rows) \subseteq Ids /\ MaxSchedules \in Nat
  BY ConstantsAssumption, LenProperties, ElementOfSeq DEF TypeOK, Ids
<1>2. PICK f \in 0..Len(rows), skipped \in SUBSET todo :
          Walked(m, todo, t, f, skipped)
  BY <1>1, WalkCases
<1>3. /\ rows' \in Seq(Row) /\ Len(rows') = Len(rows)
      /\ \A s \in 1..Len(rows) :
            /\ s = f => rows'[s] = Fired(rows[s])
            /\ s \in skipped => rows'[s] = Rescheduled(rows[s], t)
            /\ s # f /\ s \notin skipped => rows'[s] = rows[s]
  <2> DEFINE e(s) == IF s = f THEN Fired(rows[s])
                     ELSE IF s \in skipped THEN Rescheduled(rows[s], t)
                     ELSE rows[s]
  <2>1. \A s \in 1..Len(rows) : e(s) \in Row
    BY <1>1, FiredRow, RescheduledRow
  <2>2. rows' = [s \in 1..Len(rows) |-> e(s)]
    BY <1>2 DEF Walked
  <2> HIDE DEF e
  <2>3. rows' \in Seq(Row)
    BY <1>1, <2>1, <2>2, IsASeq
  <2>4. Len(rows') = Len(rows)
    BY <1>1, <2>2, <2>3, LenProperties
  <2>5. \A s \in 1..Len(rows) : rows'[s] = e(s)
    BY <2>2
  <2>6. QED
    BY <1>2, <2>3, <2>4, <2>5 DEF e, Walked
<1>4. /\ loop'.todo \subseteq todo /\ f \notin loop'.todo /\ loop'.firing = f
      /\ loop' \in [mode : {"none", "tick", "catchUp"}, todo : SUBSET Ids,
                    at : 0..MaxTime, firing : 0..MaxSchedules]
      /\ f = 0 => loop' = Idle /\ loop'.todo = {} /\ loop'.mode = "none" /\ loop'.at = 0
      /\ f # 0 => loop'.mode = m /\ loop'.at = t
                  /\ loop'.todo = todo \ (skipped \cup {f})
  <2>1. f \in 0..MaxSchedules /\ 0 \in 0..MaxSchedules /\ 0 \in 0..MaxTime
        /\ todo \ (skipped \cup {f}) \in SUBSET Ids
    BY <1>1, ConstantsAssumption
  <2>2. QED
    BY <1>2, <2>1 DEF Idle, Walked
<1>5. /\ posthumous' \in [Ids -> Nat]
      /\ \A s \in Ids : s # f => posthumous'[s] = posthumous[s]
      /\ f # 0 => posthumous'[f] = posthumous[f] + (IF rows[f].cancelled THEN 1 ELSE 0)
  <2>1. f # 0 => f \in Ids
    BY <1>1
  <2>2. CASE f # 0 /\ rows[f].cancelled
    BY <1>2, <2>1, <2>2 DEF TypeOK, Walked
  <2>3. CASE ~(f # 0 /\ rows[f].cancelled)
    BY <1>2, <2>1, <2>3 DEF TypeOK, Walked
  <2>4. QED
    BY <2>2, <2>3
<1>6. TypeOK'
  <2>1. ASSUME NEW s \in 1..Len(rows), rows'[s].enabled
        PROVE  rows'[s].next # NoTime /\ ~rows'[s].cancelled
    <3>1. CASE s = f
      <4>1. rows[s] \in Row /\ (rows[s].enabled => ~rows[s].cancelled)
        BY <1>1
      <4>2. /\ Fired(rows[s]).cancelled = rows[s].cancelled
            /\ Fired(rows[s]).enabled =>
                  rows[s].enabled /\ Fired(rows[s]).next # NoTime
        BY <1>1, <4>1, FiredRow
      <4>3. rows'[s] = Fired(rows[s])
        BY <1>3, <3>1
      <4>4. QED
        BY <2>1, <4>1, <4>2, <4>3
    <3>2. CASE s \in skipped
      <4>1. rows[s] \in Row /\ (rows[s].enabled => ~rows[s].cancelled)
        BY <1>1
      <4>2. /\ rows'[s] = [rows[s] EXCEPT !.next = CronFrom(t)]
            /\ CronFrom(t) # NoTime
        BY <1>1, <1>3, <3>2, <4>1, RescheduledRow
      <4>3. /\ rows'[s].next = CronFrom(t)
            /\ rows'[s].enabled = rows[s].enabled
            /\ rows'[s].cancelled = rows[s].cancelled
        BY <4>1, <4>2 DEF Row
      <4>4. QED
        BY <2>1, <4>1, <4>2, <4>3
    <3>3. CASE s # f /\ s \notin skipped
      BY <1>3, <2>1, <3>3 DEF TypeOK
    <3>4. QED
      BY <3>1, <3>2, <3>3
  <2>2. /\ loop'.firing =< Len(rows')
        /\ \A s \in loop'.todo : s =< Len(rows')
    <3>1. \A s \in todo : s =< Len(rows)
      BY <1>1
    <3>2. loop'.firing =< Len(rows)
      BY <1>1, <1>2, <1>4
    <3>3. \A s \in loop'.todo : s =< Len(rows)
      BY <1>4, <3>1
    <3>4. QED
      BY <1>3, <3>2, <3>3
  <2>3. QED
    BY <1>3, <1>4, <1>5, <2>1, <2>2 DEF TypeOK
<1>7. LoopSound'
  BY <1>1, <1>2, <1>4 DEF LoopSound, Walked
<1>8. NotYet'
  BY <1>1, <1>3, <1>5 DEF NotYet
<1>9. ASSUME NEW s \in 1..Len(rows)
      PROVE  OnceSound(s)' /\ CronSound(s)' /\ PosthumousSound(s)'
  <2>1. Ready(s, m, todo, t) /\ rows[s] \in Row /\ s # 0 /\ s \in Ids
        /\ clock \div Period \in Nat /\ CronFrom(clock) > clock
        /\ CronFrom(clock) \div Period = clock \div Period + 1
    <3>1. s \in Ids /\ s # 0 /\ rows[s] \in Row
      BY <1>1
    <3>2. QED
      BY <1>1, <3>1, CronFromProperties
  <2>2. CASE s = f
    <3>1. /\ rows'[s] = Fired(rows[s]) /\ s \in todo /\ s \notin loop'.todo
          /\ m = "tick" \/ rows[s].kind = "once"
      BY <1>2, <1>3, <1>4, <2>1, <2>2 DEF Walked
    <3>2. /\ Fired(rows[s]).kind = rows[s].kind
          /\ Fired(rows[s]).cancelled = rows[s].cancelled
          /\ Fired(rows[s]).fired = rows[s].fired + 1
          /\ Fired(rows[s]).last = clock
          /\ rows[s].kind = "once" => ~Fired(rows[s]).enabled
          /\ rows[s].kind = "cron" => Fired(rows[s]).next = CronFrom(clock)
      BY <1>1, FiredRow
    <3>3. OnceSound(s)'
      <4>1. rows[s].fired \in Nat /\ delivered'[s] \in Nat
        BY <2>1 DEF Row
      <4>2. rows[s].kind = "once" => rows[s].fired = 0 /\ delivered'[s] =< 0
        BY <2>1, <3>1, <4>1 DEF Ready
      <4>3. QED
        BY <3>1, <3>2, <4>1, <4>2 DEF OnceSound
    <3>4. CronSound(s)'
      <4>1. clock \div Period < CronFrom(clock) \div Period
        BY <2>1
      <4>2. CronFrom(clock) > bootedAt'
        <5>1. bootedAt' \in Int /\ bootedAt' =< clock
          OBVIOUS
        <5>2. CronFrom(clock) \in Nat
          BY <1>1, CronFromProperties
        <5>3. QED
          BY <1>1, <2>1, <5>1, <5>2
      <4>3. QED
        BY <3>1, <3>2, <4>1, <4>2 DEF CronSound
    <3>5. PosthumousSound(s)'
      BY <1>5, <2>1, <2>2, <3>1, <3>2 DEF PosthumousSound, Ready, TypeOK
    <3>6. QED
      BY <3>3, <3>4, <3>5
  <2>3. CASE s \in skipped
    <3>1. /\ rows'[s] = [rows[s] EXCEPT !.next = CronFrom(t)]
          /\ s \notin loop'.todo /\ s \in todo /\ s # f
          /\ m = "catchUp" /\ rows[s].kind # "once"
      <4>1. rows'[s] = Rescheduled(rows[s], t) /\ s \in todo /\ s # f
        BY <1>2, <1>3, <2>3 DEF Walked
      <4>2. Rescheduled(rows[s], t) = [rows[s] EXCEPT !.next = CronFrom(t)]
        BY <1>1, <2>1, RescheduledRow
      <4>3. m = "catchUp" /\ rows[s].kind # "once" /\ s \notin loop'.todo
        BY <1>2, <1>4, <2>3 DEF Walked
      <4>4. QED
        BY <4>1, <4>2, <4>3
    <3>2. /\ rows'[s].kind = rows[s].kind /\ rows'[s].last = rows[s].last
          /\ rows'[s].next = CronFrom(t) /\ rows'[s].cancelled = rows[s].cancelled
      BY <2>1, <3>1 DEF Row
    <3>3. CronSound(s)'
      <4>1. CronFrom(t) > bootedAt'
        BY <1>1, <3>1, CronFromProperties
      <4>2. ASSUME rows[s].kind = "cron"
            PROVE  rows[s].last \div Period < CronFrom(t) \div Period
        <5>1. /\ rows[s].last \div Period < rows[s].next \div Period
              /\ rows[s].next =< t /\ rows[s].next \in Nat /\ rows[s].last \in Nat
          BY <2>1, <3>1, <4>2 DEF Ready, Row
        <5>2. rows[s].next \div Period =< t \div Period
          BY <1>1, <5>1, PeriodsGrow
        <5>3. /\ CronFrom(t) \div Period = t \div Period + 1
              /\ t \div Period \in Nat /\ rows[s].last \div Period \in Nat
              /\ rows[s].next \div Period \in Nat
          BY <1>1, <5>1, CronFromProperties
        <5>4. QED
          BY <5>1, <5>2, <5>3
      <4>3. QED
        BY <3>1, <3>2, <4>1, <4>2 DEF CronSound
    <3>4. OnceSound(s)' /\ PosthumousSound(s)'
      BY <1>5, <2>1, <3>1, <3>2 DEF OnceSound, PosthumousSound, Ready
    <3>5. QED
      BY <3>3, <3>4
  <2>4. CASE s # f /\ s \notin skipped
    <3>1. rows'[s] = rows[s] /\ loop'.firing # s /\ posthumous'[s] = posthumous[s]
      BY <1>3, <1>4, <1>5, <2>1, <2>4
    <3>2. /\ s \in loop'.todo => s \in todo /\ loop'.at = t /\ loop'.mode = m
          /\ s \in todo => s \in loop'.todo /\ loop'.mode = m
      BY <1>2, <1>4, <2>4 DEF Walked
    <3>3. OnceSound(s)' /\ PosthumousSound(s)'
      BY <2>1, <3>1, <3>2 DEF OnceSound, PosthumousSound, Ready
    <3>4. CronSound(s)'
      BY <2>1, <3>1, <3>2 DEF CronSound, Ready
    <3>5. QED
      BY <3>3, <3>4
  <2>5. QED
    BY <2>2, <2>3, <2>4
<1>10. QED
  BY <1>3, <1>6, <1>7, <1>8, <1>9 DEF Inv

-----------------------------------------------------------------------------
(* The steps.                                                              *)

\* There is no schedule yet, and no process.
LEMMA InitInvariant == Init => Inv
<1> SUFFICES ASSUME Init PROVE Inv
  OBVIOUS
<1>1. rows \in Seq(Row) /\ Len(rows) = 0 /\ 1..Len(rows) = {}
  BY EmptySeq DEF Init
<1>2. loop \in [mode : {"none", "tick", "catchUp"}, todo : SUBSET Ids,
                at : 0..MaxTime, firing : 0..MaxSchedules]
      /\ loop.at = 0 /\ loop.todo = {} /\ loop.firing = 0 /\ loop.mode = "none"
  BY ConstantsAssumption DEF Init, Idle
<1>3. TypeOK
  BY <1>1, <1>2, ConstantsAssumption DEF Init, TypeOK
<1>4. QED
  BY <1>1, <1>2, <1>3 DEF Init, Inv, LoopSound, NotYet, Ids

\* What the loops and the rows are made of.
LEMMA Shape ==
    ASSUME TypeOK
    PROVE  /\ Len(rows) \in 0..MaxSchedules /\ Len(rows) \in Nat
           /\ \A s \in 1..Len(rows) : rows[s] \in Row /\ s \in Ids
           /\ clock \in Nat /\ bootedAt \in Nat /\ loop.at \in Nat
           /\ MaxTime \in Nat /\ MaxSchedules \in Nat
           /\ DueIds \in SUBSET (1..Len(rows))
<1>1. Len(rows) \in Nat /\ MaxSchedules \in Nat /\ MaxTime \in Nat
  BY ConstantsAssumption, LenProperties DEF TypeOK
<1>2. \A s \in 1..Len(rows) : rows[s] \in Row /\ s \in Ids
  BY <1>1, ElementOfSeq DEF TypeOK, Ids
<1>3. QED
  BY <1>1, <1>2 DEF TypeOK, DueIds

\* The clock moves on: a loop in flight falls further behind it.
LEMMA StepPass ==
    ASSUME Inv, Pass
    PROVE  Inv'
<1>1. clock' \in 0..MaxTime /\ clock' >= clock
  BY ConstantsAssumption DEF Inv, TypeOK, Pass
<1>2. TypeOK'
  BY <1>1 DEF Inv, TypeOK, Pass
<1>3. LoopSound'
  BY <1>1, Shape DEF Inv, LoopSound, Pass, TypeOK
<1>4. NotYet' /\ \A s \in 1..Len(rows) :
                    OnceSound(s)' /\ CronSound(s)' /\ PosthumousSound(s)'
  BY DEF Inv, NotYet, OnceSound, CronSound, PosthumousSound, Pass
<1>5. QED
  BY <1>2, <1>3, <1>4 DEF Inv, Pass

\* A new schedule is armed for the future, and nothing has happened to it.
LEMMA StepCreate ==
    ASSUME Inv, Create
    PROVE  Inv'
<1> PICK k : k = Len(rows) + 1
  OBVIOUS
<1>1. /\ k \in 1..MaxSchedules /\ Len(rows) \in Nat /\ k \in Ids
      /\ clock \in Nat /\ bootedAt \in Nat /\ bootedAt =< clock
      /\ \A s \in 1..Len(rows) : s \in Ids
  BY Shape DEF Inv, LoopSound, Create, Ids
<1>2. PICK kind \in {"once", "cron"}, n \in (clock + 1)..MaxTime :
          /\ kind = "cron" => n = CronFrom(clock)
          /\ rows' = Append(rows, [kind |-> kind, enabled |-> TRUE,
                                   cancelled |-> FALSE, next |-> n,
                                   last |-> NoTime, fired |-> 0])
  BY DEF Create
<1> DEFINE r == [kind |-> kind, enabled |-> TRUE, cancelled |-> FALSE, next |-> n,
                 last |-> NoTime, fired |-> 0]
<1>3. r \in Row /\ n \in Nat /\ n > clock
  BY <1>1 DEF Row, NoTime
<1>4. /\ r.kind = kind /\ r.enabled /\ ~r.cancelled /\ r.next = n /\ r.last = 0
      /\ r.fired = 0 /\ rows' = Append(rows, r)
  BY <1>2 DEF NoTime
<1>5. \A s \in 1..k : s \in 1..Len(rows) \/ s = k
  BY <1>1
<1> HIDE DEF r
<1>6. /\ rows' \in Seq(Row) /\ Len(rows') = k /\ rows'[k] = r
      /\ \A s \in 1..Len(rows) : rows'[s] = rows[s]
  BY <1>3, <1>4, AppendProperties DEF Inv, TypeOK
<1>7. k > Len(rows)
  BY <1>1
<1>8. UNCHANGED <<clock, proc, loop, bootedAt, delivered, posthumous, exits>>
  BY DEF Create
<1>9. /\ delivered[k] = 0 /\ posthumous[k] = 0
      /\ k \notin loop.todo /\ loop.firing # k
  BY <1>1, <1>7 DEF Inv, NotYet, TypeOK
<1>10. TypeOK'
  <2>1. ASSUME NEW s \in 1..k, rows'[s].enabled
        PROVE  rows'[s].next # NoTime /\ ~rows'[s].cancelled
    <3>1. CASE s = k
      BY <1>1, <1>3, <1>4, <1>6, <3>1 DEF NoTime
    <3>2. CASE s \in 1..Len(rows)
      BY <1>6, <2>1, <3>2 DEF Inv, TypeOK
    <3>3. QED
      BY <1>5, <3>1, <3>2
  <2>2. loop.firing =< k /\ (\A s \in loop.todo : s =< k) /\ k =< MaxSchedules
    BY <1>1, <1>7 DEF Inv, TypeOK, Ids
  <2>3. QED
    BY <1>6, <1>8, <2>1, <2>2 DEF Inv, TypeOK
<1>11. LoopSound'
  BY <1>8 DEF Inv, LoopSound
<1>12. NotYet'
  BY <1>1, <1>6, <1>7, <1>8 DEF Inv, NotYet, Ids
<1>13. OnceSound(k)' /\ CronSound(k)' /\ PosthumousSound(k)'
  <2>1. kind = "cron" => 0 \div Period < n \div Period /\ n > bootedAt
    <3>1. clock \div Period \in Nat
          /\ CronFrom(clock) \div Period = clock \div Period + 1
      BY <1>1, CronFromProperties
    <3>2. 0 \div Period = 0
      BY ConstantsAssumption
    <3>3. QED
      BY <1>1, <1>2, <1>3, <3>1, <3>2
  <2>2. OnceSound(k)'
    BY <1>4, <1>6, <1>8, <1>9 DEF OnceSound
  <2>3. CronSound(k)'
    BY <1>4, <1>6, <1>8, <1>9, <2>1 DEF CronSound
  <2>4. PosthumousSound(k)'
    BY <1>8, <1>9 DEF PosthumousSound
  <2>5. QED
    BY <2>2, <2>3, <2>4
<1>14. ASSUME NEW s \in 1..Len(rows)
       PROVE  OnceSound(s)' /\ CronSound(s)' /\ PosthumousSound(s)'
  <2>1. rows'[s] = rows[s] /\ OnceSound(s) /\ CronSound(s) /\ PosthumousSound(s)
    BY <1>6 DEF Inv
  <2>2. QED
    BY <1>8, <2>1 DEF OnceSound, CronSound, PosthumousSound
<1>15. \A s \in 1..Len(rows') : OnceSound(s)' /\ CronSound(s)' /\ PosthumousSound(s)'
  BY <1>5, <1>6, <1>13, <1>14
<1>16. QED
  BY <1>10, <1>11, <1>12, <1>15 DEF Inv

\* A cancelled row is not armed; whoever is on its way to it stays so.
LEMMA StepCancel ==
    ASSUME Inv, NEW c \in Ids, Cancel(c)
    PROVE  Inv'
<1>1. /\ c \in 1..Len(rows) /\ rows[c] \in Row /\ rows[c].enabled /\ rows \in Seq(Row)
      /\ UNCHANGED <<clock, proc, loop, bootedAt, delivered, posthumous, exits>>
  BY Shape DEF Inv, Cancel, Ids, TypeOK
<1> DEFINE r == [rows[c] EXCEPT !.cancelled = TRUE, !.enabled = FALSE]
<1>2. r \in Row /\ ~r.enabled /\ r.cancelled /\ r.kind = rows[c].kind
      /\ r.next = rows[c].next /\ r.last = rows[c].last /\ r.fired = rows[c].fired
  BY <1>1 DEF Row
<1>3. rows' = [rows EXCEPT ![c] = r]
  BY <1>1 DEF Cancel
<1> HIDE DEF r
<1>4. /\ rows' \in Seq(Row) /\ Len(rows') = Len(rows) /\ rows'[c] = r
      /\ \A s \in 1..Len(rows) : s # c => rows'[s] = rows[s]
  BY <1>1, <1>2, <1>3, ExceptSeq
<1>5. TypeOK'
  BY <1>1, <1>2, <1>4 DEF Inv, TypeOK
<1>6. LoopSound' /\ NotYet'
  BY <1>1, <1>4 DEF Inv, LoopSound, NotYet
<1>7. ASSUME NEW s \in 1..Len(rows)
      PROVE  OnceSound(s)' /\ CronSound(s)' /\ PosthumousSound(s)'
  <2>1. /\ rows'[s].kind = rows[s].kind /\ rows'[s].next = rows[s].next
        /\ rows'[s].last = rows[s].last /\ rows'[s].fired = rows[s].fired
        /\ rows[s].cancelled => rows'[s].cancelled
        /\ rows'[s].enabled => rows[s].enabled
    BY <1>2, <1>4
  <2>2. OnceSound(s) /\ CronSound(s) /\ PosthumousSound(s)
    BY DEF Inv
  <2>3. QED
    BY <1>1, <2>1, <2>2 DEF OnceSound, CronSound, PosthumousSound
<1>8. QED
  BY <1>4, <1>5, <1>6, <1>7 DEF Inv

\* What is due at a time is armed for that time or an earlier one.
LEMMA DueRow ==
    ASSUME NEW s \in DueIds
    PROVE  s \in 1..Len(rows) /\ rows[s].enabled /\ rows[s].next =< clock
  BY DEF DueIds, Due

\* The timer starts a tick on the schedules that are due.
LEMMA StepTick ==
    ASSUME Inv, Tick
    PROVE  Inv'
<1>1. /\ Walk("tick", DueIds, clock) /\ proc = "up" /\ loop = Idle
      /\ UNCHANGED <<clock, proc, bootedAt, delivered, exits>>
  BY DEF Tick
<1>2. ASSUME NEW s \in 1..Len(rows)
      PROVE  Ready(s, "tick", DueIds, clock)
  <2>1. OnceSound(s) /\ CronSound(s) /\ PosthumousSound(s) /\ loop.mode = "none"
    BY <1>1 DEF Inv, Idle
  <2>2. s \in DueIds => rows[s].enabled /\ rows[s].next =< clock /\ ~rows[s].cancelled
    BY DueRow DEF Inv, TypeOK
  <2>3. QED
    BY <1>1, <2>1, <2>2 DEF Ready, OnceSound, CronSound, PosthumousSound
<1>3. /\ TypeOK /\ DueIds \in SUBSET (1..Len(rows)) /\ clock \in 0..MaxTime
      /\ bootedAt' \in 0..MaxTime /\ bootedAt' =< clock /\ clock =< clock
      /\ delivered' \in [Ids -> Nat]
      /\ \A s \in Ids : s > Len(rows) => delivered'[s] = 0 /\ posthumous[s] = 0
  BY <1>1, Shape DEF Inv, TypeOK, LoopSound, NotYet
<1>4. QED
  BY <1>1, <1>2, <1>3, WalkStep

\* catchUp() walks the schedules that fell due while the server was down.
LEMMA StepBoot ==
    ASSUME Inv, Boot
    PROVE  Inv'
<1>1. /\ Walk("catchUp", DueIds, clock) /\ bootedAt' = clock
      /\ proc' \in {"up", "booting"}
      /\ UNCHANGED <<clock, delivered, exits>>
  BY DEF Boot
<1>2. ASSUME NEW s \in 1..Len(rows)
      PROVE  Ready(s, "catchUp", DueIds, clock)
  <2>1. OnceSound(s) /\ CronSound(s) /\ PosthumousSound(s)
    BY DEF Inv
  <2>2. s \in DueIds => rows[s].enabled /\ rows[s].next =< clock /\ ~rows[s].cancelled
    BY DueRow DEF Inv, TypeOK
  <2>3. rows[s].enabled /\ s \notin DueIds => rows[s].next > clock
    <3>1. rows[s].next \in Nat /\ clock \in Nat
      BY Shape DEF Inv, Row
    <3>2. QED
      BY <3>1 DEF Inv, TypeOK, DueIds, Due
  <2>4. QED
    BY <1>1, <2>1, <2>2, <2>3 DEF Ready, OnceSound, CronSound, PosthumousSound
<1>3. /\ TypeOK /\ DueIds \in SUBSET (1..Len(rows)) /\ clock \in 0..MaxTime
      /\ bootedAt' \in 0..MaxTime /\ bootedAt' =< clock /\ clock =< clock
      /\ delivered' \in [Ids -> Nat]
      /\ \A s \in Ids : s > Len(rows) => delivered'[s] = 0 /\ posthumous[s] = 0
  BY <1>1, Shape DEF Inv, TypeOK, LoopSound, NotYet
<1>4. QED
  BY <1>1, <1>2, <1>3, WalkStep

\* An injection comes back, and the loop walks on with its snapshot.
LEMMA StepResume ==
    ASSUME Inv, Resume
    PROVE  Inv'
<1> DEFINE f == loop.firing
<1>1. /\ Walk(loop.mode, loop.todo, loop.at) /\ f # 0
      /\ delivered' \in {delivered, [delivered EXCEPT ![f] = @ + 1]}
      /\ proc' \in {"up", proc}
      /\ UNCHANGED <<clock, bootedAt, exits>>
  BY DEF Resume
<1>2. /\ TypeOK /\ loop.mode \in {"tick", "catchUp"} /\ loop.todo \in SUBSET (1..Len(rows))
      /\ loop.at \in 0..MaxTime /\ loop.at =< clock /\ bootedAt =< clock
      /\ loop.mode = "catchUp" => loop.at = bootedAt
      /\ f \in 1..Len(rows) /\ f \in Ids /\ f \notin loop.todo
  <2>1. TypeOK /\ LoopSound /\ Len(rows) \in Nat /\ Len(rows) =< MaxSchedules
        /\ MaxSchedules \in Nat
    BY Shape DEF Inv, TypeOK
  <2>2. /\ loop.mode \in {"none", "tick", "catchUp"} /\ loop.todo \in SUBSET (1..MaxSchedules)
        /\ loop.at \in 0..MaxTime /\ f \in 0..MaxSchedules /\ f =< Len(rows)
        /\ \A s \in loop.todo : s =< Len(rows)
    BY <2>1 DEF TypeOK, Ids
  <2>3. f \in 1..Len(rows) /\ f \in Ids /\ loop.todo \in SUBSET (1..Len(rows))
    BY <1>1, <2>1, <2>2 DEF Ids
  <2>4. QED
    BY <1>1, <2>1, <2>2, <2>3 DEF LoopSound
<1>3. /\ delivered' \in [Ids -> Nat]
      /\ \A s \in Ids : s # f => delivered'[s] = delivered[s]
      /\ delivered[f] \in Nat /\ delivered'[f] =< delivered[f] + 1
  <2>1. delivered \in [Ids -> Nat] /\ delivered[f] \in Nat
    BY <1>2 DEF TypeOK
  <2>2. CASE delivered' = delivered
    BY <2>1, <2>2
  <2>3. CASE delivered' = [delivered EXCEPT ![f] = @ + 1]
    BY <1>2, <2>1, <2>3
  <2>4. QED
    BY <1>1, <2>2, <2>3
<1>4. ASSUME NEW s \in 1..Len(rows)
      PROVE  Ready(s, loop.mode, loop.todo, loop.at)
  <2>1. /\ OnceSound(s) /\ CronSound(s) /\ PosthumousSound(s)
        /\ s \in Ids /\ rows[s] \in Row /\ rows[s].fired \in Nat
    BY Shape DEF Inv, Row
  <2>2. rows[s].kind = "once" => delivered'[s] =< rows[s].fired
    <3>1. CASE s = f
      BY <1>3, <2>1, <3>1 DEF OnceSound
    <3>2. CASE s # f
      BY <1>3, <2>1, <3>2 DEF OnceSound
    <3>3. QED
      BY <3>1, <3>2
  <2>3. bootedAt' = bootedAt /\ proc # "down"
    BY <1>1, <1>2 DEF Inv, LoopSound
  <2>4. QED
    BY <1>1, <2>1, <2>2, <2>3 DEF Ready, OnceSound, CronSound, PosthumousSound
<1>5. \A s \in Ids : s > Len(rows) => delivered'[s] = 0 /\ posthumous[s] = 0
  BY <1>2, <1>3, Shape DEF Inv, NotYet
<1>6. QED
  <2>1. proc' \in {"booting", "up", "draining"}
    BY <1>1, <1>2 DEF Inv, LoopSound, TypeOK
  <2>2. QED
    BY <1>1, <1>2, <1>3, <1>4, <1>5, <2>1, WalkStep DEF TypeOK

\* The drain leaves the loop alone; the end of the process ends the loop, and a
\* prompt whose firing was recorded is then never delivered.
LEMMA StepEnd ==
    ASSUME Inv, Stop \/ Exit \/ UNCHANGED vars
    PROVE  Inv'
<1>1. CASE Stop \/ UNCHANGED vars
  <2>1. /\ UNCHANGED <<clock, rows, loop, bootedAt, delivered, posthumous, exits>>
        /\ proc' \in {proc, "draining"} /\ (proc = "down" => proc' = "down")
    BY <1>1 DEF Stop, vars
  <2>2. TypeOK' /\ LoopSound' /\ NotYet'
    BY <2>1 DEF Inv, TypeOK, LoopSound, NotYet
  <2>3. ASSUME NEW s \in 1..Len(rows)
        PROVE  OnceSound(s)' /\ CronSound(s)' /\ PosthumousSound(s)'
    <3>1. OnceSound(s) /\ CronSound(s) /\ PosthumousSound(s)
      BY DEF Inv
    <3>2. QED
      BY <2>1, <3>1 DEF OnceSound, CronSound, PosthumousSound
  <2>4. QED
    BY <2>1, <2>2, <2>3 DEF Inv
<1>2. CASE Exit
  <2>1. /\ UNCHANGED <<clock, rows, bootedAt, delivered, posthumous>>
        /\ proc' = "down" /\ loop' = Idle /\ exits' \in 0..MaxExits
        /\ loop'.todo = {} /\ loop'.firing = 0 /\ loop'.mode = "none" /\ loop'.at = 0
    BY <1>2, ConstantsAssumption DEF Exit, Idle, Inv, TypeOK
  <2>2. loop' \in [mode : {"none", "tick", "catchUp"}, todo : SUBSET Ids,
                   at : 0..MaxTime, firing : 0..MaxSchedules]
    BY <2>1, ConstantsAssumption DEF Idle
  <2>3. TypeOK'
    BY <2>1, <2>2, Shape DEF Inv, TypeOK
  <2>4. LoopSound' /\ NotYet'
    BY <2>1, Shape DEF Inv, LoopSound, NotYet
  <2>5. ASSUME NEW s \in 1..Len(rows)
        PROVE  OnceSound(s)' /\ CronSound(s)' /\ PosthumousSound(s)'
    <3>1. OnceSound(s) /\ CronSound(s) /\ PosthumousSound(s) /\ s # 0
      BY DEF Inv
    <3>2. QED
      BY <2>1, <3>1 DEF OnceSound, CronSound, PosthumousSound
  <2>6. QED
    BY <2>1, <2>3, <2>4, <2>5 DEF Inv
<1>3. QED
  BY <1>1, <1>2

\* Every step keeps the invariant.
LEMMA StepInvariant == Inv /\ [Next]_vars => Inv'
  BY StepPass, StepCreate, StepCancel, StepTick, StepBoot, StepResume, StepEnd
     DEF Next

\* A walk fires a cron only in the timer's loop and only as it was due.
LEMMA WalkFires ==
    ASSUME TypeOK, NEW m, NEW todo \in SUBSET (1..Len(rows)), NEW t, Walk(m, todo, t),
           NEW s \in 1..Len(rows), rows[s].kind = "cron",
           rows'[s].fired > rows[s].fired
    PROVE  m = "tick" /\ s \in todo
<1>1. PICK f \in 0..Len(rows), skipped \in SUBSET todo : Walked(m, todo, t, f, skipped)
  BY Shape, WalkCases
<1>2. rows[s] \in Row /\ rows[s].fired \in Nat
  BY Shape DEF Row
<1>3. s # f => rows'[s].fired = rows[s].fired
  BY <1>1, <1>2 DEF Walked, Rescheduled, Row
<1>4. s = f
  BY <1>2, <1>3
<1>5. QED
  BY <1>1, <1>4 DEF Walked

\* A cron that fires was due, in a later period than its last firing and after
\* this process had started.
LEMMA CronFires ==
    ASSUME Inv, [Next]_vars,
           NEW s \in 1..Len(rows), rows[s].kind = "cron",
           rows'[s].fired > rows[s].fired
    PROVE  clock \div Period > rows[s].last \div Period /\ rows[s].next > bootedAt
<1>1. /\ TypeOK /\ OnceSound(s) /\ CronSound(s) /\ LoopSound
      /\ rows[s] \in Row /\ rows[s].fired \in Nat /\ rows[s].next \in Nat
      /\ rows[s].last \in Nat /\ clock \in Nat /\ loop.at \in Nat
      /\ Len(rows) \in Nat
  BY Shape DEF Inv, Row
<1>2. rows[s].next =< clock /\ rows[s].next > bootedAt
  <2>1. CASE Tick
    <3>1. Walk("tick", DueIds, clock) /\ proc = "up" /\ loop.mode = "none"
      BY <2>1 DEF Tick, Idle
    <3>2. s \in DueIds
      BY <1>1, <3>1, Shape, WalkFires
    <3>3. QED
      BY <1>1, <3>1, <3>2, DueRow DEF CronSound
  <2>2. CASE Resume
    <3>1. loop.mode = "tick" /\ s \in loop.todo
      BY <1>1, <2>2, WalkFires DEF Resume, TypeOK, Ids
    <3>2. QED
      BY <1>1, <3>1, Shape DEF CronSound, LoopSound
  <2>3. CASE Boot
    <3>1. Walk("catchUp", DueIds, clock)
      BY <2>3 DEF Boot
    <3>2. DueIds \in SUBSET (1..Len(rows))
      BY <1>1, Shape
    <3>3. "catchUp" = "tick"
      BY <1>1, <3>1, <3>2, WalkFires
    <3>4. QED
      BY <3>3
  <2>4. CASE Create
    <3>1. rows'[s] = rows[s]
      BY <1>1, <2>4, AppendProperties DEF Create, TypeOK
    <3>2. QED
      BY <1>1, <3>1
  <2>5. ASSUME NEW c \in Ids, Cancel(c) PROVE FALSE
    <3>1. rows'[s].fired = rows[s].fired
      BY <1>1, <2>5 DEF Cancel, Row
    <3>2. QED
      BY <1>1, <3>1
  <2>6. CASE Pass \/ Stop \/ Exit \/ UNCHANGED vars
    <3>1. rows' = rows
      BY <2>6 DEF Pass, Stop, Exit, vars
    <3>2. QED
      BY <1>1, <3>1
  <2>7. QED
    BY <2>1, <2>2, <2>3, <2>4, <2>5, <2>6 DEF Next
<1>3. rows[s].next \div Period =< clock \div Period
  BY <1>1, <1>2, PeriodsGrow
<1>4. /\ clock \div Period \in Nat /\ rows[s].next \div Period \in Nat
      /\ rows[s].last \div Period \in Nat
  BY <1>1, CronFromProperties
<1>5. QED
  BY <1>1, <1>2, <1>3, <1>4 DEF CronSound

-----------------------------------------------------------------------------
(* Theorems.                                                               *)

\* The inductive invariant holds of every behaviour.
THEOREM Invariance == Spec => []Inv
  BY InitInvariant, StepInvariant, PTL DEF Spec

\* Over all ticks, crashes and catch-ups a one-shot's prompt reaches a session at
\* most once, and a cancel comes too late for one firing at most
\* (scheduler.ts:88-91, 151).
THEOREM ScheduleIsConsistent == Spec => []ScheduleConsistent
<1>1. Inv => ScheduleConsistent
  <2> SUFFICES ASSUME Inv PROVE ScheduleConsistent
    OBVIOUS
  <2>1. OnceAtMostOnce
    <3> SUFFICES ASSUME NEW s \in 1..Len(rows), rows[s].kind = "once"
                 PROVE  delivered[s] =< 1 /\ rows[s].fired =< 1
      BY DEF OnceAtMostOnce
    <3>1. OnceSound(s) /\ rows[s].fired \in Nat /\ delivered[s] \in Nat
      BY Shape DEF Inv, TypeOK, Row
    <3>2. QED
      BY <3>1 DEF OnceSound
  <2>2. OnePosthumousFiring
    <3> SUFFICES ASSUME NEW s \in Ids PROVE posthumous[s] =< 1
      BY DEF OnePosthumousFiring
    <3>1. posthumous[s] \in Nat /\ Len(rows) \in Nat
      BY Shape DEF Inv, TypeOK
    <3>2. CASE s > Len(rows)
      BY <3>1, <3>2 DEF Inv, NotYet
    <3>3. CASE s \in 1..Len(rows)
      BY <3>1, <3>3 DEF Inv, PosthumousSound
    <3>4. QED
      BY <3>1, <3>2, <3>3 DEF Ids
  <2>3. QED
    BY <2>1, <2>2 DEF ScheduleConsistent, Inv
<1>2. QED
  BY <1>1, Invariance, PTL

\* However late the ticks run and whenever the process restarts, a cron fires at
\* most once in a period and never for the time that the server was down
\* (scheduler.ts:100, 156).
THEOREM CronsKeepTheirPeriods == Spec => CronsCatchUp
<1> DEFINE OnceAPeriod ==
              \A s \in 1..Len(rows) :
                 rows[s].kind = "cron" /\ rows'[s].fired > rows[s].fired
                     => clock \div Period > rows[s].last \div Period
           OfThisLife ==
              \A s \in 1..Len(rows) :
                 rows[s].kind = "cron" /\ rows'[s].fired > rows[s].fired
                     => rows[s].next > bootedAt
<1>1. Inv /\ [Next]_vars => [OnceAPeriod]_rows /\ [OfThisLife]_rows
  BY CronFires
<1>2. QED
  BY <1>1, Invariance, PTL
     DEF Spec, CronsCatchUp, CronsDoNotPileUp, MissedCronsAreSkipped
=============================================================================

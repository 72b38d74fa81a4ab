-------------------------- MODULE TaskManagerProofs --------------------------
(***************************************************************************)
(* The safety of TaskManager, proved for every set of tasks, every         *)
(* concurrency and every number of crashes.                                *)
(***************************************************************************)
EXTENDS TaskManager, FiniteSetTheorems, SequenceTheorems, TLAPS

-----------------------------------------------------------------------------
(* The log.                                                                *)

\* What foldTaskEvents makes of a log: the last event decides
\* (tasks.ts:39-82).
LEMMA FoldCases ==
    ASSUME NEW l \in Seq(Events)
    PROVE  /\ l = <<>> <=> Fold(l) = "absent"
           /\ l = <<>> <=> Len(l) = 0
           /\ l # <<>> =>
                /\ Fold(l) = "pending" <=> l[Len(l)] = "created"
                /\ Fold(l) = "running" <=> l[Len(l)] = "started"
                /\ \A e \in Final : Fold(l) = e <=> l[Len(l)] = e
           /\ Fold(l) \in {"absent", "pending", "running"} \cup Final
<1>1. l = <<>> <=> Len(l) = 0
  BY EmptySeq
<1>2. ASSUME l # <<>> PROVE l[Len(l)] \in Events
  BY <1>1, <1>2, ElementOfSeq, LenProperties
<1>3. QED
  BY <1>1, <1>2 DEF Fold, Events, Final

\* The status after one more event.
LEMMA FoldAppend ==
    ASSUME NEW l \in Seq(Events), NEW e \in Events
    PROVE  /\ Append(l, e) \in Seq(Events)
           /\ Append(l, e) # <<>>
           /\ Len(Append(l, e)) = Len(l) + 1
           /\ Len(l) \in Nat
           /\ \A i \in 1..Len(l) : Append(l, e)[i] = l[i]
           /\ Append(l, e)[Len(l) + 1] = e
           /\ e = "created" => Fold(Append(l, e)) = "pending"
           /\ e = "started" => Fold(Append(l, e)) = "running"
           /\ e \in Final => Fold(Append(l, e)) = e
<1>1. /\ Append(l, e) \in Seq(Events)
      /\ Append(l, e) # <<>>
      /\ Len(Append(l, e)) = Len(l) + 1
      /\ Len(l) \in Nat
      /\ \A i \in 1..Len(l) : Append(l, e)[i] = l[i]
      /\ Append(l, e)[Len(l) + 1] = e
  BY AppendProperties, LenProperties
<1>2. QED
  BY <1>1 DEF Fold, Final

-----------------------------------------------------------------------------
(* The queue.                                                              *)

\* A queue as the code keeps it: no task is in it twice.
Distinct(q) == \A i, j \in 1..Len(q) : q[i] = q[j] => i = j

\* The queue holds ids of tasks only.
LEMMA ElementsTyped ==
    ASSUME NEW q \in Seq(Tasks)
    PROVE  Elements(q) \subseteq Tasks
  BY ElementOfSeq DEF Elements

\* delegate() appends a task that is not queued yet.
LEMMA AppendDistinct ==
    ASSUME NEW q \in Seq(Tasks), Distinct(q),
           NEW t \in Tasks, t \notin Elements(q)
    PROVE  /\ Append(q, t) \in Seq(Tasks)
           /\ Distinct(Append(q, t))
           /\ Elements(Append(q, t)) = Elements(q) \cup {t}
<1>1. /\ Len(Append(q, t)) = Len(q) + 1 /\ Append(q, t)[Len(q) + 1] = t
      /\ \A i \in 1..Len(q) : Append(q, t)[i] = q[i]
      /\ Append(q, t) \in Seq(Tasks) /\ Len(q) \in Nat
  BY AppendProperties, LenProperties
<1>2. Distinct(Append(q, t))
  BY <1>1 DEF Distinct, Elements
<1>3. Elements(Append(q, t)) = Elements(q) \cup {t}
  BY <1>1 DEF Elements
<1>4. QED
  BY <1>1, <1>2, <1>3

\* The filter in cancel() takes the task out and leaves the others.
LEMMA WithoutProperties ==
    ASSUME NEW q \in Seq(Tasks), Distinct(q), NEW t \in Tasks
    PROVE  /\ Without(q, t) \in Seq(Tasks)
           /\ Distinct(Without(q, t))
           /\ Elements(Without(q, t)) = Elements(q) \ {t}
           /\ q = <<>> => Without(q, t) = <<>>
<1>1. CASE t \notin Elements(q)
  BY <1>1 DEF Without
<1>2. CASE t \in Elements(q)
  <2> DEFINE k == CHOOSE i \in 1..Len(q) : q[i] = t
             n == Len(q) - 1
             e(i) == IF i < k THEN q[i] ELSE q[i + 1]
             w == [i \in 1..n |-> e(i)]
  <2>1. k \in 1..Len(q) /\ q[k] = t
    BY <1>2 DEF Elements
  <2>2. Len(q) \in Nat /\ n \in Nat /\ \A i \in 1..Len(q) : q[i] \in Tasks
    BY <2>1, LenProperties, ElementOfSeq
  <2>3. \A i \in 1..n : e(i) \in Tasks
    BY <2>1, <2>2
  <2>4. w \in Seq(Tasks)
    BY <2>2, <2>3, IsASeq
  <2>5. Len(w) = n
    BY <2>2, <2>4, LenProperties
  <2>6. Without(q, t) = w
    BY <1>2 DEF Without
  <2> HIDE DEF k
  <2>7. Distinct(w)
    BY <2>1, <2>2, <2>5 DEF Distinct
  <2>8. \A i \in 1..n : w[i] \in Elements(q) \ {t}
    <3>1. TAKE i \in 1..n
    <3>2. /\ i < k => w[i] = q[i] /\ i \in 1..Len(q) /\ i # k
          /\ ~(i < k) => w[i] = q[i + 1] /\ i + 1 \in 1..Len(q) /\ i + 1 # k
      BY <2>1, <2>2
    <3>3. QED
      BY <2>1, <3>2 DEF Distinct, Elements
  <2>9. ASSUME NEW i \in 1..Len(q), i # k
        PROVE  \E j \in 1..n : w[j] = q[i]
    <3>1. CASE i < k
      BY <2>1, <2>2, <3>1, i \in 1..n
    <3>2. CASE i > k
      <4>1. i - 1 \in 1..n /\ ~(i - 1 < k) /\ (i - 1) + 1 = i
        BY <2>1, <2>2, <3>2
      <4>2. QED
        BY <4>1
    <3>3. QED
      BY <2>1, <2>9, <3>1, <3>2
  <2> HIDE DEF w
  <2>10. Elements(w) = Elements(q) \ {t}
    <3>1. Elements(w) \subseteq Elements(q) \ {t}
      BY <2>5, <2>8 DEF Elements
    <3>2. ASSUME NEW u \in Elements(q) \ {t} PROVE u \in Elements(w)
      <4>1. PICK i \in 1..Len(q) : q[i] = u
        BY <3>2 DEF Elements
      <4>2. i # k
        BY <2>1, <3>2, <4>1
      <4>3. QED
        BY <2>5, <2>9, <4>1, <4>2 DEF Elements
    <3>3. QED
      BY <3>1, <3>2
  <2>11. q # <<>>
    BY <2>1, EmptySeq
  <2>12. QED
    BY <2>4, <2>6, <2>7, <2>10, <2>11
<1>3. QED
  BY <1>1, <1>2

-----------------------------------------------------------------------------
(* pump().                                                                 *)

\* The coroutines at points p that hold a slot.
Busy(p) == {t \in Tasks : p[t] # "idle"}

\* What pump() leaves of a queue q and points p.
Pumping(q, p) ==
    /\ queue' \in Seq(Tasks) /\ Distinct(queue')
    /\ running' \in 0..Concurrency
    /\ pc' \in [Tasks -> Points]
    /\ queue' # <<>> => running' = Concurrency
    /\ running' = Cardinality(Busy(pc'))
    /\ Elements(queue') \subseteq Elements(q)
    /\ \A t \in Elements(q) :
          \/ t \in Elements(queue') /\ pc'[t] = "idle"
          \/ t \notin Elements(queue') /\ pc'[t] = "setup"
    /\ \A t \in Tasks \ Elements(q) : pc'[t] = p[t]

\* pump() takes the oldest tasks off the queue, as many as there are free
\* slots; the slots it hands out are as many as the coroutines it starts, and
\* it leaves a queue behind only when no slot is free (task-manager.ts:258-267).
LEMMA PumpEffect ==
    ASSUME NEW q \in Seq(Tasks), NEW r \in 0..Concurrency,
           NEW p \in [Tasks -> Points], Distinct(q),
           \A t \in Elements(q) : p[t] = "idle" /\ Fold(log'[t]) = "pending",
           r = Cardinality(Busy(p)),
           Pump(q, r, p)
    PROVE  Pumping(q, p)
<1> DEFINE n == Pumped(q, r)
           started == {q[i] : i \in 1..n}
<1>1. Len(q) \in Nat /\ \A i \in 1..Len(q) : q[i] \in Tasks
  BY LenProperties, ElementOfSeq
<1>2. Concurrency \in Nat
  BY ConstantsAssumption
<1>3. /\ n \in 0..Len(q) /\ r + n \in 0..Concurrency
      /\ n # Len(q) => r + n = Concurrency
  BY <1>1, <1>2 DEF Pumped
<1>4. /\ queue' = SubSeq(q, n + 1, Len(q))
      /\ running' = r + n
      /\ pc' = [t \in Tasks |->
                  IF t \notin started THEN p[t]
                  ELSE IF Fold(log'[t]) = "pending" THEN "setup" ELSE "exit"]
  BY DEF Pump
<1> HIDE DEF n
<1>5. started \subseteq Elements(q) /\ Elements(q) \subseteq Tasks
  BY <1>1, <1>3 DEF Elements
<1>6. /\ queue' \in Seq(Tasks) /\ Len(queue') = Len(q) - n
      /\ \A i \in 1..Len(queue') : queue'[i] = q[n + i] /\ n + i \in 1..Len(q)
  <2>1. \A i \in (n + 1)..Len(q) : q[i] \in Tasks
    BY <1>1, <1>3
  <2>2. n + 1 \in Int /\ Len(q) \in Int
    BY <1>1, <1>3
  <2>3. /\ SubSeq(q, n + 1, Len(q)) \in Seq(Tasks)
        /\ Len(SubSeq(q, n + 1, Len(q))) =
              IF n + 1 <= Len(q) THEN Len(q) - (n + 1) + 1 ELSE 0
        /\ \A i \in 1..(Len(q) - (n + 1) + 1) :
              SubSeq(q, n + 1, Len(q))[i] = q[(n + 1) + i - 1]
    BY <2>1, <2>2, SubSeqProperties
  <2>4. QED
    BY <1>1, <1>3, <1>4, <2>3
<1>7. Distinct(queue')
  BY <1>1, <1>3, <1>6 DEF Distinct
<1>8. queue' # <<>> => running' = Concurrency
  BY <1>1, <1>3, <1>4, <1>6, EmptySeq
<1>9. /\ Elements(queue') \subseteq Elements(q)
      /\ Elements(queue') \cap started = {}
  BY <1>1, <1>3, <1>6 DEF Elements, Distinct
<1>10. ASSUME NEW t \in Elements(q)
       PROVE  t \in Elements(queue') \/ t \in started
  <2>1. PICK i \in 1..Len(q) : q[i] = t
    BY DEF Elements
  <2>2. CASE i \in 1..n
    BY <2>1, <2>2
  <2>3. CASE i \notin 1..n
    <3>1. i - n \in 1..Len(queue') /\ n + (i - n) = i
      BY <1>1, <1>3, <1>6, <2>3
    <3>2. queue'[i - n] = t
      BY <1>6, <2>1, <3>1
    <3>3. QED
      BY <3>1, <3>2 DEF Elements
  <2>4. QED
    BY <2>2, <2>3
<1>11. \A t \in Elements(q) :
          \/ t \in Elements(queue') /\ pc'[t] = "idle"
          \/ t \notin Elements(queue') /\ pc'[t] = "setup"
  BY <1>4, <1>5, <1>9, <1>10
<1>12. \A t \in Tasks \ Elements(q) : pc'[t] = p[t]
  BY <1>4, <1>5
<1>13. pc' \in [Tasks -> Points]
  BY <1>4 DEF Points
<1>14. running' = Cardinality(Busy(pc'))
  <2> DEFINE before == Busy(p)
             after == Busy(pc')
             f == [i \in 1..n |-> q[i]]
  <2>1. IsFiniteSet(before)
    BY ConstantsAssumption, FS_Subset DEF Busy
  <2>2. IsFiniteSet(1..n) /\ Cardinality(1..n) = n
    BY <1>1, <1>3, FS_Interval
  <2>3. f \in Bijection(1..n, started)
    BY <1>1, <1>3 DEF Bijection, Injection, IsInjective, Surjection, Distinct
  <2>4. IsFiniteSet(started) /\ Cardinality(started) = n
    BY <2>2, <2>3, FS_Bijection DEF ExistsBijection
  <2>5. before \cap started = {}
    BY <1>5 DEF Busy
  <2>6. after = before \cup started
    BY <1>4, <1>5 DEF Busy
  <2>7. Cardinality(after) = Cardinality(before) + Cardinality(started)
                               - Cardinality({})
    BY <2>1, <2>4, <2>5, <2>6, FS_Union
  <2>8. QED
    BY <1>3, <1>4, <2>4, <2>7, FS_EmptySet
<1>15. QED
  BY <1>3, <1>4, <1>6, <1>7, <1>8, <1>9, <1>11, <1>12, <1>13, <1>14 DEF Pumping

-----------------------------------------------------------------------------
(* What the steps have in common.                                          *)

\* One event more in the log of one task (task-manager.ts:250-256).
LEMMA RecordEffect ==
    ASSUME log \in [Tasks -> Seq(Events)],
           NEW t \in Tasks, NEW e \in Events, Record(t, e)
    PROVE  /\ log' \in [Tasks -> Seq(Events)]
           /\ \A u \in Tasks \ {t} : log'[u] = log[u]
           /\ log'[t] # <<>>
           /\ Len(log[t]) \in Nat /\ Len(log'[t]) = Len(log[t]) + 1
           /\ \A i \in 1..Len(log[t]) : log'[t][i] = log[t][i]
           /\ log'[t][Len(log[t]) + 1] = e
           /\ e = "created" => Fold(log'[t]) = "pending"
           /\ e = "started" => Fold(log'[t]) = "running"
           /\ e \in Final => Fold(log'[t]) = e
<1>1. log'[t] = Append(log[t], e) /\ \A u \in Tasks \ {t} : log'[u] = log[u]
  BY DEF Record
<1>2. log[t] \in Seq(Events)
  OBVIOUS
<1>3. log'[t] \in Seq(Events)
  BY <1>1, <1>2, FoldAppend
<1>4. log' \in [Tasks -> Seq(Events)]
  BY <1>1, <1>3 DEF Record
<1>5. QED
  BY <1>1, <1>2, <1>4, FoldAppend

\* A pending task has been created and nothing else.
LEMMA PendingLog ==
    ASSUME log \in [Tasks -> Seq(Events)], LogShape,
           NEW t \in Tasks, Fold(log[t]) = "pending"
    PROVE  \A i \in 1..Len(log[t]) : log[t][i] # "started"
<1>1. /\ log[t] \in Seq(Events) /\ log[t] # <<>> /\ Len(log[t]) \in Nat
      /\ log[t][Len(log[t])] = "created" /\ Len(log[t]) # 0
  <2>1. log[t] \in Seq(Events)
    OBVIOUS
  <2>2. log[t] # <<>> /\ Len(log[t]) # 0
    BY <2>1, FoldCases
  <2>3. QED
    BY <2>1, <2>2, FoldCases, LenProperties
<1>2. Len(log[t]) = 1
  <2> DEFINE n == Len(log[t])
  <2>1. n \in 1..n
    BY <1>1
  <2>2. log[t][n] = "created" => n = 1
    BY <2>1 DEF LogShape
  <2>3. QED
    BY <1>1, <2>2
<1>3. QED
  BY <1>1, <1>2

\* A record on top of a cancel that came after a start is the only thing that
\* could break CancelOfStartedIsFinal.
LEMMA CancelStaysFinal ==
    ASSUME log \in [Tasks -> Seq(Events)], CancelOfStartedIsFinal,
           NEW t \in Tasks, NEW e \in Events, Record(t, e),
           \/ Fold(log[t]) # "cancelled"
           \/ \A i \in 1..Len(log[t]) : log[t][i] # "started"
    PROVE  CancelOfStartedIsFinal'
<1> SUFFICES ASSUME NEW u \in Tasks,
                    NEW i \in 1..Len(log'[u]), NEW j \in 1..Len(log'[u]),
                    i < j, log'[u][i] = "started", log'[u][j] = "cancelled"
             PROVE  j = Len(log'[u])
  BY DEF CancelOfStartedIsFinal
<1>1. CASE u # t
  BY <1>1, RecordEffect DEF CancelOfStartedIsFinal
<1>2. CASE u = t
  <2>1. SUFFICES ASSUME j # Len(log'[t]) PROVE FALSE
    BY <1>2
  <2>2. /\ i \in 1..Len(log[t]) /\ j \in 1..Len(log[t])
        /\ log[t][i] = "started" /\ log[t][j] = "cancelled"
    BY <1>2, <2>1, RecordEffect
  <2>3. j = Len(log[t]) /\ log[t] \in Seq(Events) /\ log[t] # <<>>
    BY <2>2, FoldCases DEF CancelOfStartedIsFinal
  <2>4. Fold(log[t]) = "cancelled"
    BY <2>2, <2>3, FoldCases DEF Final
  <2>5. QED
    BY <2>2, <2>4
<1>3. QED
  BY <1>1, <1>2

-----------------------------------------------------------------------------
(* The invariant holds at the start and across every step.                 *)

\* A server that has never run: nothing is logged, queued or running.
LEMMA InitInvariant == Init => IInv
<1> SUFFICES ASSUME Init PROVE IInv
  OBVIOUS
<1>1. TypeOK
  BY ConstantsAssumption, EmptySeq DEF Init, TypeOK, Points
<1>2. SlotsAccounted
  <2>1. Live = {}
    BY DEF Init, Live
  <2>2. QED
    BY <2>1, FS_EmptySet DEF Init, SlotsAccounted
<1>3. WorkConserving /\ QueueExact
  BY EmptySeq DEF Init, WorkConserving, QueueExact, Elements, Fold
<1>4. CancelOfStartedIsFinal /\ RecoverySparesTheLiving /\ ToldAtMostOnce
  BY EmptySeq DEF Init, CancelOfStartedIsFinal, RecoverySparesTheLiving,
                  ToldAtMostOnce, Elements, Fold
<1>5. LogShape /\ Stages
  BY EmptySeq DEF Init, LogShape, Stages, Stage, Fold
<1>6. QED
  BY <1>1, <1>2, <1>3, <1>4, <1>5 DEF IInv

\* delegate() records, appends and pumps (task-manager.ts:150-167).
LEMMA DelegateInvariant ==
    ASSUME IInv, NEW t \in Tasks, Delegate(t)
    PROVE  IInv'
<1> USE DEF IInv
<1>1. log[t] = <<>> /\ Record(t, "created")
      /\ Pump(Append(queue, t), running, pc)
      /\ UNCHANGED <<recovering, noticing, told, crashes>>
  BY DEF Delegate
<1>2. log \in [Tasks -> Seq(Events)] /\ queue \in Seq(Tasks)
      /\ pc \in [Tasks -> Points] /\ running \in 0..Concurrency
  BY DEF TypeOK
<1>3. /\ log' \in [Tasks -> Seq(Events)] /\ Fold(log'[t]) = "pending"
      /\ log'[t] # <<>> /\ Len(log'[t]) = 1 /\ log'[t][1] = "created"
      /\ \A u \in Tasks \ {t} : log'[u] = log[u]
  <2>1. "created" \in Events /\ Len(log[t]) = 0
    BY <1>1, EmptySeq DEF Events
  <2>2. /\ log' \in [Tasks -> Seq(Events)] /\ log'[t] # <<>>
        /\ Len(log'[t]) = Len(log[t]) + 1
        /\ log'[t][Len(log[t]) + 1] = "created"
        /\ Fold(log'[t]) = "pending"
        /\ \A u \in Tasks \ {t} : log'[u] = log[u]
    BY <1>1, <1>2, <2>1, RecordEffect
  <2>3. Len(log[t]) + 1 = 1
    BY <2>1
  <2>4. QED
    BY <2>2, <2>3
<1>4. Fold(log[t]) = "absent" /\ pc[t] = "idle" /\ told[t] = 0
      /\ t \notin recovering /\ t \notin noticing /\ t \notin Elements(queue)
  <2>1. Fold(log[t]) = "absent"
    BY <1>1 DEF Fold
  <2>2. QED
    BY <1>1, <2>1 DEF Stages, Stage, QueueExact
<1>5. Distinct(queue)
  BY DEF Distinct, QueueExact
<1> DEFINE q == Append(queue, t)
<1>6. q \in Seq(Tasks) /\ Distinct(q) /\ Elements(q) = Elements(queue) \cup {t}
  BY <1>2, <1>4, <1>5, AppendDistinct
<1>7. \A u \in Elements(q) : pc[u] = "idle" /\ Fold(log'[u]) = "pending"
                             /\ u \in Tasks
  <2>1. Elements(queue) \subseteq Tasks
    BY <1>2, ElementsTyped
  <2>2. \A u \in Elements(queue) : pc[u] = "idle" /\ Fold(log[u]) = "pending"
    BY DEF QueueExact
  <2>3. QED
    BY <1>3, <1>4, <1>6, <2>1, <2>2
<1>8. running = Cardinality(Busy(pc)) /\ Pump(q, running, pc)
  BY <1>1 DEF SlotsAccounted, Live, Busy
<1> HIDE DEF q
<1>pumped. Pumping(q, pc)
  BY <1>2, <1>6, <1>7, <1>8, PumpEffect
<1>9. /\ queue' \in Seq(Tasks) /\ Distinct(queue')
      /\ running' \in 0..Concurrency
      /\ pc' \in [Tasks -> Points]
      /\ queue' # <<>> => running' = Concurrency
      /\ running' = Cardinality(Busy(pc'))
      /\ Elements(queue') \subseteq Elements(q)
      /\ \A u \in Elements(q) :
            \/ u \in Elements(queue') /\ pc'[u] = "idle"
            \/ u \notin Elements(queue') /\ pc'[u] = "setup"
      /\ \A u \in Tasks \ Elements(q) : pc'[u] = pc[u]
  BY <1>pumped DEF Pumping
<1>10. TypeOK'
  BY <1>1, <1>3, <1>9 DEF TypeOK
<1>11. SlotsAccounted' /\ WorkConserving'
  BY <1>9 DEF SlotsAccounted, WorkConserving, Live, Busy
<1>12. QueueExact'
  <2>1. \A u \in Elements(queue') : Fold(log'[u]) = "pending" /\ pc'[u] = "idle"
    BY <1>7, <1>9
  <2>2. \A u \in Tasks : Fold(log'[u]) = "pending" =>
           u \in Elements(queue') \/ pc'[u] = "setup" \/ u \in recovering'
    BY <1>1, <1>3, <1>6, <1>9 DEF QueueExact
  <2>3. QED
    BY <1>9, <2>1, <2>2 DEF QueueExact, Distinct
<1>13. CancelOfStartedIsFinal'
  BY <1>1, <1>2, <1>4, CancelStaysFinal DEF Events
<1>14. RecoverySparesTheLiving'
  BY <1>3, <1>6, <1>9 DEF RecoverySparesTheLiving
<1>15. ToldAtMostOnce'
  BY <1>1 DEF ToldAtMostOnce
<1>16. LogShape'
  <2>1. ASSUME NEW u \in Tasks, pc'[u] = "setup"
        PROVE  \A i \in 1..Len(log'[u]) : log'[u][i] # "started"
    <3>1. CASE u = t
      <4>1. \A i \in 1..Len(log'[t]) : i = 1
        BY <1>3
      <4>2. QED
        BY <1>3, <3>1, <4>1
    <3>2. CASE u # t /\ u \in Elements(q)
      <4>1. Fold(log[u]) = "pending"
        BY <1>6, <3>2 DEF QueueExact
      <4>2. QED
        BY <1>2, <1>3, <3>2, <4>1, PendingLog
    <3>3. CASE u # t /\ u \notin Elements(q)
      BY <1>3, <1>9, <2>1, <3>3 DEF LogShape
    <3>4. QED
      BY <3>1, <3>2, <3>3
  <2>2. \A u \in Tasks : \A i \in 1..Len(log'[u]) : log'[u][i] = "created" => i = 1
    BY <1>3 DEF LogShape
  <2>3. QED
    BY <2>1, <2>2 DEF LogShape
<1>17. Stages'
  <2> SUFFICES ASSUME NEW u \in Tasks PROVE Stage(u)'
    BY DEF Stages
  <2>1. CASE u \in Elements(q)
    BY <1>1, <1>2, <1>3, <1>4, <1>6, <1>7, <1>9, <2>1, FoldCases
       DEF Stages, Stage, QueueExact, Unsettled
  <2>2. CASE u \notin Elements(q)
    <3>1. log'[u] = log[u] /\ pc'[u] = pc[u] /\ u \notin Elements(queue')
      BY <1>3, <1>6, <1>9, <2>2
    <3>2. Stage(u)
      BY DEF Stages
    <3>3. QED
      BY <1>1, <3>1, <3>2 DEF Stage, Unsettled
  <2>3. QED
    BY <2>1, <2>2
<1>18. QED
  BY <1>10, <1>11, <1>12, <1>13, <1>14, <1>15, <1>16, <1>17

\* cancel() takes a queued task out and records it (task-manager.ts:174-189).
LEMMA CancelInvariant ==
    ASSUME IInv, NEW t \in Tasks, Cancel(t)
    PROVE  IInv'
<1> USE DEF IInv
<1>1. Unsettled(t) /\ queue' = Without(queue, t) /\ Record(t, "cancelled")
      /\ UNCHANGED <<running, pc, recovering, noticing, told, crashes>>
  BY DEF Cancel
<1>2. log \in [Tasks -> Seq(Events)] /\ queue \in Seq(Tasks)
  BY DEF TypeOK
<1>3. "cancelled" \in Events /\ "cancelled" \in Final
  BY DEF Events, Final
<1>4. /\ log' \in [Tasks -> Seq(Events)] /\ Fold(log'[t]) = "cancelled"
      /\ log'[t] # <<>> /\ Len(log[t]) \in Nat
      /\ Len(log'[t]) = Len(log[t]) + 1
      /\ \A i \in 1..Len(log[t]) : log'[t][i] = log[t][i]
      /\ log'[t][Len(log[t]) + 1] = "cancelled"
      /\ \A u \in Tasks \ {t} : log'[u] = log[u]
  BY <1>1, <1>2, <1>3, RecordEffect
<1>5. /\ queue' \in Seq(Tasks) /\ Distinct(queue')
      /\ Elements(queue') = Elements(queue) \ {t}
      /\ queue = <<>> => queue' = <<>>
  BY <1>1, <1>2, WithoutProperties DEF Distinct, QueueExact
<1>6. Elements(queue) \subseteq Tasks
  BY <1>2, ElementsTyped
<1>7. TypeOK'
  BY <1>1, <1>4, <1>5 DEF TypeOK
<1>8. SlotsAccounted' /\ WorkConserving'
  BY <1>1, <1>5 DEF SlotsAccounted, WorkConserving, Live
<1>9. QueueExact'
  <2>1. \A u \in Elements(queue') : Fold(log'[u]) = "pending" /\ pc'[u] = "idle"
    BY <1>1, <1>4, <1>5, <1>6 DEF QueueExact
  <2>2. \A u \in Tasks : Fold(log'[u]) = "pending" =>
           u \in Elements(queue') \/ pc'[u] = "setup" \/ u \in recovering'
    BY <1>1, <1>4, <1>5 DEF QueueExact
  <2>3. QED
    BY <1>5, <2>1, <2>2 DEF QueueExact, Distinct
<1>10. CancelOfStartedIsFinal'
  BY <1>1, <1>2, <1>3, CancelStaysFinal DEF Unsettled
<1>11. RecoverySparesTheLiving' /\ ToldAtMostOnce'
  BY <1>1, <1>4, <1>5 DEF RecoverySparesTheLiving, ToldAtMostOnce
<1>12. LogShape'
  BY <1>1, <1>4 DEF LogShape
<1>13. Stages'
  <2> SUFFICES ASSUME NEW u \in Tasks PROVE Stage(u)'
    BY DEF Stages
  <2>1. CASE u = t
    BY <1>1, <1>3, <1>4, <1>5, <2>1 DEF Stages, Stage, Unsettled, Final
  <2>2. CASE u # t
    BY <1>1, <1>4, <1>5, <2>2 DEF Stages, Stage, Unsettled
  <2>3. QED
    BY <2>1, <2>2
<1>14. QED
  BY <1>7, <1>8, <1>9, <1>10, <1>11, <1>12, <1>13

\* The start is recorded while the slot stays taken (task-manager.ts:450-520).
LEMMA SetupDoneInvariant ==
    ASSUME IInv, NEW t \in Tasks, SetupDone(t)
    PROVE  IInv'
<1> USE DEF IInv
<1>1. pc[t] = "setup" /\ Record(t, "started")
      /\ pc' = [pc EXCEPT ![t] = "active"]
      /\ UNCHANGED <<queue, running, recovering, noticing, told, crashes>>
  BY DEF SetupDone
<1>2. log \in [Tasks -> Seq(Events)] /\ pc \in [Tasks -> Points]
      /\ queue \in Seq(Tasks)
  BY DEF TypeOK
<1>3. "started" \in Events
  BY DEF Events
<1>4. /\ log' \in [Tasks -> Seq(Events)] /\ Fold(log'[t]) = "running"
      /\ log'[t] # <<>> /\ Len(log[t]) \in Nat
      /\ Len(log'[t]) = Len(log[t]) + 1
      /\ \A i \in 1..Len(log[t]) : log'[t][i] = log[t][i]
      /\ log'[t][Len(log[t]) + 1] = "started"
      /\ \A u \in Tasks \ {t} : log'[u] = log[u]
  BY <1>1, <1>2, <1>3, RecordEffect
<1>5. pc'[t] = "active" /\ \A u \in Tasks \ {t} : pc'[u] = pc[u]
  BY <1>1, <1>2
<1>6. t \notin Elements(queue) /\ Elements(queue) \subseteq Tasks
  BY <1>1, <1>2, ElementsTyped DEF QueueExact
<1>7. TypeOK'
  BY <1>1, <1>4 DEF TypeOK, Points
<1>8. SlotsAccounted' /\ WorkConserving'
  <2>1. Live' = Live
    BY <1>1, <1>2, <1>5 DEF Live
  <2>2. QED
    BY <1>1, <2>1 DEF SlotsAccounted, WorkConserving
<1>9. QueueExact'
  BY <1>1, <1>4, <1>5, <1>6 DEF QueueExact
<1>10. CancelOfStartedIsFinal'
  BY <1>1, <1>2, <1>3, CancelStaysFinal DEF LogShape
<1>11. RecoverySparesTheLiving' /\ ToldAtMostOnce'
  BY <1>1, <1>4, <1>5 DEF RecoverySparesTheLiving, ToldAtMostOnce
<1>12. LogShape'
  BY <1>1, <1>4, <1>5 DEF LogShape
<1>13. Stages'
  <2> SUFFICES ASSUME NEW u \in Tasks PROVE Stage(u)'
    BY DEF Stages
  <2>1. CASE u = t
    BY <1>1, <1>4, <1>5, <2>1
       DEF Stages, Stage, Unsettled, RecoverySparesTheLiving
  <2>2. CASE u # t
    BY <1>1, <1>4, <1>5, <2>2 DEF Stages, Stage, Unsettled
  <2>3. QED
    BY <2>1, <2>2
<1>14. QED
  BY <1>7, <1>8, <1>9, <1>10, <1>11, <1>12, <1>13

\* The tail of run(), which SetupFail and Settle share.
LEMMA OutcomeInvariant ==
    ASSUME IInv, NEW t \in Tasks, NEW o \in {"completed", "failed"},
           pc[t] \in {"setup", "active"}, Outcome(t, o),
           UNCHANGED <<queue, running, recovering, noticing, told, crashes>>
    PROVE  IInv'
<1> USE DEF IInv
<1>1. log \in [Tasks -> Seq(Events)] /\ pc \in [Tasks -> Points]
      /\ queue \in Seq(Tasks)
  BY DEF TypeOK
<1>2. o \in Events /\ o \in Final
  BY DEF Events, Final
<1>3. \/ /\ Fold(log[t]) = "cancelled" /\ log' = log
         /\ pc' = [pc EXCEPT ![t] = "exit"]
      \/ /\ Fold(log[t]) # "cancelled" /\ Record(t, o)
         /\ pc' = [pc EXCEPT ![t] = "notify"]
  BY DEF Outcome
<1>4. /\ log' \in [Tasks -> Seq(Events)] /\ log'[t] # <<>>
      /\ Fold(log'[t]) \in {"cancelled", "completed", "failed"}
      /\ Fold(log'[t]) = "cancelled" => pc' = [pc EXCEPT ![t] = "exit"]
      /\ Len(log[t]) \in Nat
      /\ \A i \in 1..Len(log'[t]) :
            \/ i \in 1..Len(log[t]) /\ log'[t][i] = log[t][i]
            \/ log'[t][i] = o
      /\ \A u \in Tasks \ {t} : log'[u] = log[u]
  <2>1. CASE /\ log' = log /\ Fold(log[t]) = "cancelled"
             /\ pc' = [pc EXCEPT ![t] = "exit"]
    BY <1>1, <2>1, FoldCases, LenProperties DEF Fold
  <2>2. CASE Record(t, o)
    <3>1. /\ log' \in [Tasks -> Seq(Events)] /\ log'[t] # <<>>
          /\ Fold(log'[t]) = o
          /\ Len(log[t]) \in Nat /\ Len(log'[t]) = Len(log[t]) + 1
          /\ \A i \in 1..Len(log[t]) : log'[t][i] = log[t][i]
          /\ log'[t][Len(log[t]) + 1] = o
          /\ \A u \in Tasks \ {t} : log'[u] = log[u]
      BY <1>1, <1>2, <2>2, RecordEffect
    <3>2. QED
      BY <3>1
  <2>3. QED
    BY <1>3, <2>1, <2>2
<1>5. /\ pc' \in [Tasks -> Points] /\ pc'[t] \in {"notify", "exit"}
      /\ \A u \in Tasks \ {t} : pc'[u] = pc[u]
  BY <1>1, <1>3 DEF Points
<1>6. t \notin Elements(queue) /\ Elements(queue) \subseteq Tasks
  BY <1>1, ElementsTyped DEF QueueExact
<1>7. TypeOK'
  BY <1>4, <1>5 DEF TypeOK
<1>8. SlotsAccounted' /\ WorkConserving'
  <2>1. Live' = Live
    BY <1>5 DEF Live
  <2>2. QED
    BY <2>1 DEF SlotsAccounted, WorkConserving
<1>9. QueueExact'
  BY <1>4, <1>5, <1>6 DEF QueueExact
<1>10. CancelOfStartedIsFinal'
  <2>1. CASE log' = log
    BY <2>1 DEF CancelOfStartedIsFinal
  <2>2. CASE Record(t, o) /\ Fold(log[t]) # "cancelled"
    BY <1>1, <1>2, <2>2, CancelStaysFinal
  <2>3. QED
    BY <1>3, <2>1, <2>2
<1>11. RecoverySparesTheLiving' /\ ToldAtMostOnce'
  BY <1>4, <1>5 DEF RecoverySparesTheLiving, ToldAtMostOnce
<1>12. LogShape'
  BY <1>4, <1>5 DEF LogShape
<1>13. Stages'
  <2> SUFFICES ASSUME NEW u \in Tasks PROVE Stage(u)'
    BY DEF Stages
  <2>1. CASE u = t
    <3>1. /\ t \notin recovering /\ t \notin noticing /\ told[t] = 0
      BY DEF Stages, Stage, RecoverySparesTheLiving
    <3>2. pc'[t] = "notify" => Fold(log'[t]) \in {"completed", "failed"}
      BY <1>1, <1>4
    <3>3. QED
      BY <1>4, <1>5, <2>1, <3>1, <3>2 DEF Stage, Final
  <2>2. CASE u # t
    BY <1>4, <1>5, <2>2 DEF Stages, Stage, Unsettled
  <2>3. QED
    BY <2>1, <2>2
<1>14. QED
  BY <1>7, <1>8, <1>9, <1>10, <1>11, <1>12, <1>13

\* A message about t was delivered or lost: told is the only history changed,
\* once more for t at most.
LEMMA NotifyInvariant ==
    ASSUME IInv, NEW t \in Tasks, Notify(t)
    PROVE  IInv'
<1> USE DEF IInv
<1>1. /\ pc[t] = "notify" /\ pc' = [pc EXCEPT ![t] = "exit"]
      /\ told' \in {told, [told EXCEPT ![t] = @ + 1]}
      /\ UNCHANGED <<log, queue, running, recovering, noticing, crashes>>
  BY DEF Notify
<1>2. pc \in [Tasks -> Points] /\ told \in [Tasks -> Nat] /\ queue \in Seq(Tasks)
  BY DEF TypeOK
<1>3. /\ pc' \in [Tasks -> Points] /\ pc'[t] = "exit"
      /\ \A u \in Tasks \ {t} : pc'[u] = pc[u]
  BY <1>1, <1>2 DEF Points
<1>4. Fold(log[t]) \in Final /\ told[t] = 0 /\ log[t] # <<>>
  BY <1>1 DEF Stages, Stage, Final
<1>5. /\ told' \in [Tasks -> Nat] /\ told'[t] \in {0, 1}
      /\ \A u \in Tasks \ {t} : told'[u] = told[u]
  BY <1>1, <1>2, <1>4
<1>6. TypeOK'
  BY <1>1, <1>3, <1>5 DEF TypeOK
<1>7. SlotsAccounted' /\ WorkConserving'
  <2>1. Live' = Live
    BY <1>1, <1>3 DEF Live
  <2>2. QED
    BY <1>1, <2>1 DEF SlotsAccounted, WorkConserving
<1>8. QueueExact'
  <2>1. t \notin Elements(queue) /\ Elements(queue) \subseteq Tasks
    BY <1>1, <1>2, ElementsTyped DEF QueueExact
  <2>2. QED
    BY <1>1, <1>3, <2>1 DEF QueueExact
<1>9. CancelOfStartedIsFinal' /\ LogShape'
  BY <1>1, <1>3 DEF CancelOfStartedIsFinal, LogShape
<1>10. RecoverySparesTheLiving' /\ ToldAtMostOnce'
  BY <1>1, <1>3, <1>5 DEF RecoverySparesTheLiving, ToldAtMostOnce
<1>11. Stages'
  <2> SUFFICES ASSUME NEW u \in Tasks PROVE Stage(u)'
    BY DEF Stages
  <2>1. CASE u = t
    <3>1. t \notin recovering /\ t \notin noticing /\ ~Unsettled(t)
      BY <1>1, <1>4
         DEF Stages, Stage, RecoverySparesTheLiving, Unsettled, Final
    <3>2. QED
      BY <1>1, <1>3, <1>4, <2>1, <3>1 DEF Stage, Unsettled
  <2>2. CASE u # t
    BY <1>1, <1>3, <1>5, <2>2 DEF Stages, Stage, Unsettled
  <2>3. QED
    BY <2>1, <2>2
<1>12. QED
  BY <1>6, <1>7, <1>8, <1>9, <1>10, <1>11

\* The finally gives the slot back and hands it on (task-manager.ts:262-265).
LEMMA ExitInvariant ==
    ASSUME IInv, NEW t \in Tasks, Exit(t)
    PROVE  IInv'
<1> USE DEF IInv
<1> DEFINE p == [pc EXCEPT ![t] = "idle"]
<1>1. /\ pc[t] = "exit" /\ Pump(queue, running - 1, p)
      /\ UNCHANGED <<log, recovering, noticing, told, crashes>>
  BY DEF Exit
<1>2. log \in [Tasks -> Seq(Events)] /\ pc \in [Tasks -> Points]
      /\ queue \in Seq(Tasks) /\ running \in 0..Concurrency
  BY DEF TypeOK
<1>3. /\ p \in [Tasks -> Points] /\ p[t] = "idle"
      /\ \A u \in Tasks \ {t} : p[u] = pc[u]
  BY <1>2 DEF Points
<1>4. running - 1 = Cardinality(Busy(p)) /\ running - 1 \in 0..Concurrency
  <2>1. Busy(p) = Live \ {t} /\ t \in Live
    BY <1>1, <1>3 DEF Busy, Live
  <2>2. IsFiniteSet(Live)
    BY ConstantsAssumption, FS_Subset DEF Live
  <2>3. IsFiniteSet(Busy(p)) /\ Cardinality(Busy(p)) = Cardinality(Live) - 1
    BY <2>1, <2>2, FS_RemoveElement
  <2>4. Cardinality(Busy(p)) \in Nat
    BY <2>3, FS_CardinalityType
  <2>5. QED
    BY <1>2, <2>3, <2>4, ConstantsAssumption DEF SlotsAccounted
<1>5. /\ Distinct(queue) /\ t \notin Elements(queue)
      /\ Elements(queue) \subseteq Tasks
  BY <1>1, <1>2, ElementsTyped DEF Distinct, QueueExact
<1>6. \A u \in Elements(queue) : p[u] = "idle" /\ Fold(log'[u]) = "pending"
  BY <1>1, <1>3, <1>5 DEF QueueExact
<1> HIDE DEF p
<1>7. Pumping(queue, p)
  BY <1>1, <1>2, <1>3, <1>4, <1>5, <1>6, PumpEffect
<1>8. /\ queue' \in Seq(Tasks) /\ Distinct(queue')
      /\ running' \in 0..Concurrency
      /\ pc' \in [Tasks -> Points]
      /\ queue' # <<>> => running' = Concurrency
      /\ running' = Cardinality(Busy(pc'))
      /\ Elements(queue') \subseteq Elements(queue)
      /\ \A u \in Elements(queue) :
            \/ u \in Elements(queue') /\ pc'[u] = "idle"
            \/ u \notin Elements(queue') /\ pc'[u] = "setup"
      /\ \A u \in Tasks \ Elements(queue) : pc'[u] = p[u]
  BY <1>7 DEF Pumping
<1>9. TypeOK'
  BY <1>1, <1>8 DEF TypeOK
<1>10. SlotsAccounted' /\ WorkConserving'
  BY <1>8 DEF SlotsAccounted, WorkConserving, Live, Busy
<1>11. QueueExact'
  <2>1. \A u \in Elements(queue') : Fold(log'[u]) = "pending" /\ pc'[u] = "idle"
    BY <1>6, <1>8
  <2>2. ASSUME NEW u \in Tasks, Fold(log[u]) = "pending"
        PROVE  u \in Elements(queue') \/ pc'[u] = "setup" \/ u \in recovering
    <3>1. u # t
      BY <1>1, <2>2 DEF Stages, Stage, Final
    <3>2. QED
      BY <1>3, <1>8, <2>2, <3>1 DEF QueueExact
  <2>3. QED
    BY <1>1, <1>8, <2>1, <2>2 DEF QueueExact, Distinct
<1>12. CancelOfStartedIsFinal' /\ ToldAtMostOnce'
  BY <1>1 DEF CancelOfStartedIsFinal, ToldAtMostOnce
<1>13. RecoverySparesTheLiving'
  BY <1>1, <1>3, <1>6, <1>8 DEF RecoverySparesTheLiving
<1>14. LogShape'
  <2>1. ASSUME NEW u \in Tasks, pc'[u] = "setup"
        PROVE  \A i \in 1..Len(log[u]) : log[u][i] # "started"
    <3>1. CASE u \in Elements(queue)
      BY <1>1, <1>2, <1>6, <3>1, PendingLog
    <3>2. CASE u \notin Elements(queue)
      BY <1>3, <1>8, <2>1, <3>2 DEF LogShape
    <3>3. QED
      BY <3>1, <3>2
  <2>2. QED
    BY <1>1, <2>1 DEF LogShape
<1>15. Stages'
  <2> SUFFICES ASSUME NEW u \in Tasks PROVE Stage(u)'
    BY DEF Stages
  <2>1. Stage(u)
    BY DEF Stages
  <2>2. CASE u \in Elements(queue)
    <3>1. Fold(log[u]) = "pending" /\ pc'[u] \in {"idle", "setup"}
          /\ log[u] # <<>> /\ u \notin recovering
      BY <1>1, <1>6, <1>8, <2>1, <2>2 DEF Stage, Fold
    <3>2. QED
      BY <1>1, <2>1, <3>1 DEF Stage, Unsettled
  <2>3. CASE u \notin Elements(queue)
    <3>1. pc'[u] = p[u] /\ u \notin Elements(queue')
      BY <1>8, <2>3
    <3>2. CASE u = t
      BY <1>1, <1>3, <2>1, <3>1, <3>2 DEF Stage, Unsettled, RecoverySparesTheLiving
    <3>3. CASE u # t
      BY <1>1, <1>3, <2>1, <3>1, <3>3 DEF Stage, Unsettled
    <3>4. QED
      BY <3>2, <3>3
  <2>4. QED
    BY <2>2, <2>3
<1>16. QED
  BY <1>9, <1>10, <1>11, <1>12, <1>13, <1>14, <1>15

\* The shutdown cancels running tasks, none of them queued
\* (task-manager.ts:197-209).
LEMMA CancelAllInvariant ==
    ASSUME IInv, CancelAll
    PROVE  IInv'
<1> USE DEF IInv
<1> DEFINE hit == {t \in Tasks : pc[t] = "active" /\ Unsettled(t)}
<1>1. /\ log' = [t \in Tasks |->
                    IF t \in hit THEN Append(log[t], "cancelled") ELSE log[t]]
      /\ UNCHANGED <<queue, running, pc, recovering, noticing, told, crashes>>
  BY DEF CancelAll
<1>2. log \in [Tasks -> Seq(Events)] /\ queue \in Seq(Tasks)
  BY DEF TypeOK
<1>3. "cancelled" \in Events /\ "cancelled" \in Final
  BY DEF Events, Final
<1> HIDE DEF hit
<1>4. ASSUME NEW t \in hit
      PROVE  /\ log'[t] \in Seq(Events) /\ log'[t] # <<>>
             /\ Fold(log'[t]) = "cancelled"
             /\ Len(log[t]) \in Nat /\ Len(log'[t]) = Len(log[t]) + 1
             /\ \A i \in 1..Len(log[t]) : log'[t][i] = log[t][i]
             /\ log'[t][Len(log[t]) + 1] = "cancelled"
  <2>1. t \in Tasks /\ log'[t] = Append(log[t], "cancelled")
        /\ log[t] \in Seq(Events)
    BY <1>1, <1>2 DEF hit
  <2>2. QED
    BY <1>3, <2>1, FoldAppend
<1>5. \A t \in Tasks \ hit : log'[t] = log[t]
  BY <1>1
<1>6. \A t \in hit : /\ t \in Tasks /\ pc[t] = "active"
                     /\ Fold(log[t]) \in {"pending", "running"}
  BY DEF hit, Unsettled
<1>7. hit \cap Elements(queue) = {} /\ hit \cap recovering = {}
  BY <1>6 DEF QueueExact, Stages, Stage
<1>8. TypeOK'
  <2>1. log' \in [Tasks -> Seq(Events)]
    BY <1>1, <1>2, <1>4, <1>5
  <2>2. QED
    BY <1>1, <2>1 DEF TypeOK
<1>9. SlotsAccounted' /\ WorkConserving'
  BY <1>1 DEF SlotsAccounted, WorkConserving, Live
<1>10. QueueExact'
  <2>1. Elements(queue) \subseteq Tasks
    BY <1>2, ElementsTyped
  <2>2. \A u \in Elements(queue) : Fold(log'[u]) = "pending" /\ pc[u] = "idle"
    BY <1>5, <1>7, <2>1 DEF QueueExact
  <2>3. \A u \in Tasks : Fold(log'[u]) = "pending" =>
           u \in Elements(queue) \/ pc[u] = "setup" \/ u \in recovering
    BY <1>4, <1>5 DEF QueueExact
  <2>4. QED
    BY <1>1, <2>2, <2>3 DEF QueueExact
<1>11. CancelOfStartedIsFinal'
  <2> SUFFICES ASSUME NEW u \in Tasks,
                      NEW i \in 1..Len(log'[u]), NEW j \in 1..Len(log'[u]),
                      i < j, log'[u][i] = "started", log'[u][j] = "cancelled"
               PROVE  j = Len(log'[u])
    BY DEF CancelOfStartedIsFinal
  <2>1. CASE u \notin hit
    BY <1>5, <2>1 DEF CancelOfStartedIsFinal
  <2>2. CASE u \in hit
    <3>1. SUFFICES ASSUME j # Len(log'[u]) PROVE FALSE
      OBVIOUS
    <3>2. /\ i \in 1..Len(log[u]) /\ j \in 1..Len(log[u])
          /\ log[u][i] = "started" /\ log[u][j] = "cancelled"
      BY <1>4, <2>2, <3>1
    <3>3. j = Len(log[u]) /\ log[u] \in Seq(Events)
      BY <1>2, <3>2 DEF CancelOfStartedIsFinal
    <3>4. log[u] # <<>>
      BY <3>2, <3>3, FoldCases
    <3>5. Fold(log[u]) = "cancelled"
      BY <1>3, <3>2, <3>3, <3>4, FoldCases
    <3>6. QED
      BY <1>6, <2>2, <3>5
  <2>3. QED
    BY <2>1, <2>2
<1>12. RecoverySparesTheLiving' /\ ToldAtMostOnce'
  BY <1>1, <1>4, <1>5 DEF RecoverySparesTheLiving, ToldAtMostOnce
<1>13. LogShape'
  <2> SUFFICES ASSUME NEW u \in Tasks
               PROVE  /\ \A i \in 1..Len(log'[u]) : log'[u][i] = "created" => i = 1
                      /\ pc[u] = "setup" =>
                            \A i \in 1..Len(log'[u]) : log'[u][i] # "started"
    BY <1>1 DEF LogShape
  <2>1. CASE u \in hit
    BY <1>4, <1>6, <2>1 DEF LogShape
  <2>2. CASE u \notin hit
    BY <1>5, <2>2 DEF LogShape
  <2>3. QED
    BY <2>1, <2>2
<1>14. Stages'
  <2> SUFFICES ASSUME NEW u \in Tasks PROVE Stage(u)'
    BY DEF Stages
  <2>1. Stage(u)
    BY DEF Stages
  <2>2. CASE u \in hit
    <3>1. u \notin noticing /\ told[u] = 0
      BY <1>6, <2>1, <2>2 DEF Stage
    <3>2. QED
      BY <1>1, <1>3, <1>4, <1>6, <1>7, <2>2, <3>1 DEF Stage
  <2>3. CASE u \notin hit
    BY <1>1, <1>5, <2>1, <2>3 DEF Stage, Unsettled
  <2>4. QED
    BY <2>2, <2>3
<1>15. QED
  BY <1>8, <1>9, <1>10, <1>11, <1>12, <1>13, <1>14

\* A crash empties the memory, and recovery is due for all that is on disk.
LEMMA CrashInvariant ==
    ASSUME IInv, Crash
    PROVE  IInv'
<1> USE DEF IInv
<1>1. /\ crashes < MaxCrashes /\ crashes' = crashes + 1
      /\ queue' = <<>> /\ running' = 0
      /\ pc' = [t \in Tasks |-> "idle"]
      /\ recovering' = {t \in Tasks : log[t] # <<>>}
      /\ noticing' = {} /\ UNCHANGED <<log, told>>
  BY DEF Crash
<1>2. Len(queue') = 0 /\ queue' \in Seq(Tasks) /\ Elements(queue') = {}
  BY <1>1, EmptySeq DEF Elements
<1>3. TypeOK'
  BY <1>1, <1>2, ConstantsAssumption DEF TypeOK, Points
<1>4. SlotsAccounted' /\ WorkConserving'
  <2>1. Live' = {}
    BY <1>1 DEF Live
  <2>2. QED
    BY <1>1, <2>1, FS_EmptySet DEF SlotsAccounted, WorkConserving
<1>5. QueueExact'
  BY <1>1, <1>2 DEF QueueExact, Fold
<1>6. CancelOfStartedIsFinal' /\ LogShape' /\ ToldAtMostOnce'
  BY <1>1 DEF CancelOfStartedIsFinal, LogShape, ToldAtMostOnce
<1>7. RecoverySparesTheLiving'
  BY <1>1, <1>2 DEF RecoverySparesTheLiving
<1>8. Stages'
  BY <1>1, <1>2 DEF Stages, Stage, Unsettled
<1>9. QED
  BY <1>3, <1>4, <1>5, <1>6, <1>7, <1>8

\* One turn of the recovery loop (task-manager.ts:222-237).
LEMMA RecoverInvariant ==
    ASSUME IInv, NEW t \in Tasks, Recover(t)
    PROVE  IInv'
<1> USE DEF IInv
<1>1. /\ t \in recovering /\ recovering' = recovering \ {t} /\ noticing = {}
      /\ UNCHANGED <<queue, running, pc, told, crashes>>
      /\ \/ Unsettled(t) /\ Record(t, "interrupted") /\ noticing' = {t}
         \/ ~Unsettled(t) /\ UNCHANGED <<log, noticing>>
  BY DEF Recover
<1>2. log \in [Tasks -> Seq(Events)] /\ queue \in Seq(Tasks)
  BY DEF TypeOK
<1>3. "interrupted" \in Events /\ "interrupted" \in Final
  BY DEF Events, Final
<1>4. /\ pc[t] = "idle" /\ t \notin Elements(queue) /\ log[t] # <<>>
      /\ Elements(queue) \subseteq Tasks
  BY <1>1, <1>2, ElementsTyped DEF Stages, Stage
<1>5. CASE ~Unsettled(t) /\ UNCHANGED <<log, noticing>>
  <2>1. TypeOK' /\ SlotsAccounted' /\ WorkConserving'
    BY <1>1, <1>5 DEF TypeOK, SlotsAccounted, WorkConserving, Live
  <2>2. QueueExact'
    BY <1>1, <1>5 DEF QueueExact, Unsettled
  <2>3. CancelOfStartedIsFinal' /\ LogShape' /\ ToldAtMostOnce'
    BY <1>1, <1>5 DEF CancelOfStartedIsFinal, LogShape, ToldAtMostOnce
  <2>4. RecoverySparesTheLiving' /\ Stages'
    BY <1>1, <1>5 DEF RecoverySparesTheLiving, Stages, Stage, Unsettled
  <2>5. QED
    BY <2>1, <2>2, <2>3, <2>4
<1>6. CASE Unsettled(t) /\ Record(t, "interrupted") /\ noticing' = {t}
  <2>1. /\ log' \in [Tasks -> Seq(Events)] /\ Fold(log'[t]) = "interrupted"
        /\ log'[t] # <<>> /\ Len(log[t]) \in Nat
        /\ Len(log'[t]) = Len(log[t]) + 1
        /\ \A i \in 1..Len(log[t]) : log'[t][i] = log[t][i]
        /\ log'[t][Len(log[t]) + 1] = "interrupted"
        /\ \A u \in Tasks \ {t} : log'[u] = log[u]
    BY <1>2, <1>3, <1>6, RecordEffect
  <2>2. TypeOK'
    BY <1>1, <1>6, <2>1 DEF TypeOK
  <2>3. SlotsAccounted' /\ WorkConserving'
    BY <1>1 DEF SlotsAccounted, WorkConserving, Live
  <2>4. QueueExact'
    BY <1>1, <1>4, <2>1 DEF QueueExact
  <2>5. CancelOfStartedIsFinal'
    BY <1>2, <1>3, <1>6, CancelStaysFinal DEF Unsettled
  <2>6. RecoverySparesTheLiving' /\ ToldAtMostOnce'
    BY <1>1, <1>4, <2>1 DEF RecoverySparesTheLiving, ToldAtMostOnce
  <2>7. LogShape'
    BY <1>1, <1>4, <2>1 DEF LogShape
  <2>8. Stages'
    <3> SUFFICES ASSUME NEW u \in Tasks PROVE Stage(u)'
      BY DEF Stages
    <3>1. CASE u = t
      <4>1. told[t] = 0
        BY <1>6 DEF Stages, Stage
      <4>2. QED
        BY <1>1, <1>4, <2>1, <3>1, <4>1 DEF Stage
    <3>2. CASE u # t
      BY <1>1, <1>6, <2>1, <3>2 DEF Stages, Stage, Unsettled
    <3>3. QED
      BY <3>1, <3>2
  <2>9. QED
    BY <2>2, <2>3, <2>4, <2>5, <2>6, <2>7, <2>8
<1>7. QED
  BY <1>1, <1>5, <1>6

\* The note of an interruption is the first message about its task.
LEMMA NoticeInvariant ==
    ASSUME IInv, NEW t \in Tasks, Notice(t)
    PROVE  IInv'
<1> USE DEF IInv
<1>1. /\ t \in noticing /\ noticing' = {}
      /\ told' \in {told, [told EXCEPT ![t] = @ + 1]}
      /\ UNCHANGED <<log, queue, running, pc, recovering, crashes>>
  BY DEF Notice
<1>2. told \in [Tasks -> Nat]
  BY DEF TypeOK
<1>3. Fold(log[t]) = "interrupted" /\ told[t] = 0 /\ pc[t] = "idle"
      /\ log[t] # <<>>
  BY <1>1 DEF Stages, Stage, RecoverySparesTheLiving, Fold
<1>4. /\ told' \in [Tasks -> Nat] /\ told'[t] \in {0, 1}
      /\ \A u \in Tasks \ {t} : told'[u] = told[u]
  BY <1>1, <1>2, <1>3
<1>5. TypeOK'
  BY <1>1, <1>4 DEF TypeOK
<1>6. SlotsAccounted' /\ WorkConserving' /\ QueueExact'
  BY <1>1 DEF SlotsAccounted, WorkConserving, Live, QueueExact
<1>7. CancelOfStartedIsFinal' /\ LogShape' /\ RecoverySparesTheLiving'
  BY <1>1 DEF CancelOfStartedIsFinal, LogShape, RecoverySparesTheLiving
<1>8. ToldAtMostOnce'
  BY <1>4 DEF ToldAtMostOnce
<1>9. Stages'
  BY <1>1, <1>3, <1>4 DEF Stages, Stage, Unsettled
<1>10. QED
  BY <1>5, <1>6, <1>7, <1>8, <1>9

\* Nothing changes.
LEMMA StutterInvariant ==
    ASSUME IInv, UNCHANGED vars
    PROVE  IInv'
<1>1. TypeOK' /\ SlotsAccounted' /\ WorkConserving' /\ QueueExact'
  BY DEF IInv, vars, TypeOK, SlotsAccounted, WorkConserving, QueueExact, Live
<1>2. CancelOfStartedIsFinal' /\ RecoverySparesTheLiving' /\ ToldAtMostOnce'
  BY DEF IInv, vars, CancelOfStartedIsFinal, RecoverySparesTheLiving,
         ToldAtMostOnce
<1>3. LogShape' /\ Stages'
  BY DEF IInv, vars, LogShape, Stages, Stage, Unsettled
<1>4. QED
  BY <1>1, <1>2, <1>3 DEF IInv

\* IInv is inductive.
LEMMA StepInvariant == IInv /\ [Next]_vars => IInv'
<1> SUFFICES ASSUME IInv, [Next]_vars PROVE IInv'
  OBVIOUS
<1>1. ASSUME NEW t \in Tasks, Delegate(t) PROVE IInv'
  BY <1>1, DelegateInvariant
<1>2. ASSUME NEW t \in Tasks, Cancel(t) PROVE IInv'
  BY <1>2, CancelInvariant
<1>3. ASSUME CancelAll PROVE IInv'
  BY <1>3, CancelAllInvariant
<1>4. ASSUME NEW t \in Tasks, Run(t) PROVE IInv'
  <2>1. CASE SetupDone(t)
    BY <2>1, SetupDoneInvariant
  <2>2. CASE SetupFail(t)
    BY <2>2, OutcomeInvariant DEF SetupFail
  <2>3. CASE Settle(t)
    BY <2>3, OutcomeInvariant DEF Settle
  <2>4. CASE Notify(t)
    BY <2>4, NotifyInvariant
  <2>5. CASE Exit(t)
    BY <2>5, ExitInvariant
  <2>6. QED
    BY <1>4, <2>1, <2>2, <2>3, <2>4, <2>5 DEF Run
<1>5. ASSUME Crash PROVE IInv'
  BY <1>5, CrashInvariant
<1>6. ASSUME NEW t \in Tasks, Recover(t) \/ Notice(t) PROVE IInv'
  BY <1>6, RecoverInvariant, NoticeInvariant
<1>7. CASE UNCHANGED vars
  BY <1>7, StutterInvariant
<1>8. QED
  BY <1>1, <1>2, <1>3, <1>4, <1>5, <1>6, <1>7 DEF Next

\* All the invariants of a task's life hold together in every state, however
\* delegations, cancels, crashes and recoveries interleave.
THEOREM Invariance == Spec => []IInv
<1>1. Init => IInv
  BY InitInvariant
<1>2. IInv /\ [Next]_vars => IInv'
  BY StepInvariant
<1>3. QED
  BY <1>1, <1>2, PTL DEF Spec

\* Every variable keeps its type, runningCount between 0 and the concurrency
\* included: it never goes negative (task-manager.ts:258-267).
THEOREM TypeCorrect == Spec => []TypeOK
<1>1. IInv => TypeOK
  BY DEF IInv
<1>2. QED
  BY <1>1, Invariance, PTL

\* The pool stays exact: the slots in use are the coroutines alive, none is
\* free while a task waits, and no pending task is lost or queued twice.
THEOREM PoolIsExact == Spec => []PoolExact
<1>1. IInv => PoolExact
  BY DEF IInv, PoolExact
<1>2. QED
  BY <1>1, Invariance, PTL

\* Nothing is ever recorded after the cancel of a started task.
THEOREM CancelIsFinal == Spec => []CancelOfStartedIsFinal
<1>1. IInv => CancelOfStartedIsFinal
  BY DEF IInv
<1>2. QED
  BY <1>1, Invariance, PTL

\* Recovery never interrupts a task of the living process.
THEOREM RecoveryIsSafe == Spec => []RecoverySparesTheLiving
<1>1. IInv => RecoverySparesTheLiving
  BY DEF IInv
<1>2. QED
  BY <1>1, Invariance, PTL

\* A parent hears of a task at most once, over any number of crashes.
THEOREM NeverToldTwice == Spec => []ToldAtMostOnce
<1>1. IInv => ToldAtMostOnce
  BY DEF IInv
<1>2. QED
  BY <1>1, Invariance, PTL

-----------------------------------------------------------------------------
(* TaskManager implements TaskContract.  Every step opens one task, settles *)
(* a set of open ones, tells one parent, or changes nothing the contract    *)
(* sees.                                                                    *)

\* Nothing has been delegated: the contract starts where the code does.
LEMMA InitContract == Init => Contract!ContractInit
<1> SUFFICES ASSUME Init PROVE Contract!ContractInit
  OBVIOUS
<1>1. \A t \in Tasks : OutcomeOf(t) = "absent"
  BY DEF Init, OutcomeOf, Fold
<1>2. \A t \in Tasks : (told[t] > 0) = FALSE
  BY DEF Init
<1>3. [t \in Tasks |-> OutcomeOf(t)] = [t \in Tasks |-> "absent"]
  BY <1>1
<1>4. [t \in Tasks |-> told[t] > 0] = [t \in Tasks |-> FALSE]
  BY <1>2, Zenon
<1>5. QED
  BY <1>3, <1>4 DEF Contract!ContractInit

\* What the contract calls a decision about the tasks of S.
LEMMA DecideStep ==
    ASSUME NEW S \in SUBSET Tasks,
           \A t \in S : /\ OutcomeOf(t) = "open"
                        /\ OutcomeOf(t)' \in Final,
           \A t \in Tasks \ S : OutcomeOf(t)' = OutcomeOf(t),
           UNCHANGED told
    PROVE  Contract!ContractNext
<1> DEFINE o == [t \in S |-> OutcomeOf(t)']
<1>1. o \in [S -> Contract!Reported \cup {"cancelled"}]
  BY DEF Final, Contract!Reported
<1>2. [t \in Tasks |-> OutcomeOf(t)]' =
         [t \in Tasks |-> IF t \in S THEN o[t] ELSE [u \in Tasks |-> OutcomeOf(u)][t]]
  OBVIOUS
<1>3. Contract!Decide(S)
  BY <1>1, <1>2 DEF Contract!Decide
<1>4. QED
  BY <1>3 DEF Contract!ContractNext

\* A step the contract does not see.
LEMMA SilentStep ==
    ASSUME \A t \in Tasks : OutcomeOf(t)' = OutcomeOf(t),
           UNCHANGED told
    PROVE  UNCHANGED Contract!contractVars
<1>1. [t \in Tasks |-> OutcomeOf(t)]' = [t \in Tasks |-> OutcomeOf(t)]
  OBVIOUS
<1>2. [t \in Tasks |-> told[t] > 0]' = [t \in Tasks |-> told[t] > 0]
  OBVIOUS
<1>3. QED
  BY <1>1, <1>2 DEF Contract!contractVars

\* A parent that had not been told is told of a reported outcome.
LEMMA TellStep ==
    ASSUME told \in [Tasks -> Nat], NEW t \in Tasks, told[t] = 0,
           OutcomeOf(t) \in Contract!Reported,
           told' = [told EXCEPT ![t] = @ + 1],
           \A u \in Tasks : OutcomeOf(u)' = OutcomeOf(u)
    PROVE  Contract!ContractNext
<1>1. [u \in Tasks |-> OutcomeOf(u)]' = [u \in Tasks |-> OutcomeOf(u)]
  OBVIOUS
<1>2. \A u \in Tasks : (told'[u] > 0) = (u = t \/ told[u] > 0)
  OBVIOUS
<1>3. [u \in Tasks |-> told[u] > 0]' =
         [[u \in Tasks |-> told[u] > 0] EXCEPT ![t] = TRUE]
  BY <1>2, Zenon
<1>4. ~[u \in Tasks |-> told[u] > 0][t]
  <2>1. ~(told[t] > 0)
    OBVIOUS
  <2>2. QED
    BY <2>1, Zenon
<1>5. Contract!Tell(t)
  BY <1>1, <1>3, <1>4 DEF Contract!Tell
<1>6. QED
  BY <1>5 DEF Contract!ContractNext

\* pump() touches the coroutines of queued tasks only.
LEMMA PumpSpares ==
    ASSUME NEW q \in Seq(Tasks), NEW r \in 0..Concurrency, NEW p, Pump(q, r, p),
           NEW u \in Tasks, u \notin Elements(q)
    PROVE  pc'[u] = p[u]
<1>1. Pumped(q, r) \in Int /\ Pumped(q, r) =< Len(q) /\ Len(q) \in Nat
  BY ConstantsAssumption, LenProperties DEF Pumped
<1>2. u \notin {q[i] : i \in 1..Pumped(q, r)}
  BY <1>1 DEF Elements
<1>3. QED
  BY <1>2 DEF Pump

\* delegate() opens the task; what pump() starts is open either way.
LEMMA DelegateContract ==
    ASSUME IInv, NEW t \in Tasks, Delegate(t)
    PROVE  Contract!ContractNext
<1>1. log[t] = <<>> /\ Record(t, "created") /\ UNCHANGED told
      /\ log \in [Tasks -> Seq(Events)] /\ "created" \in Events
  BY DEF Delegate, IInv, TypeOK, Events
<1>2. Fold(log'[t]) = "pending" /\ \A u \in Tasks \ {t} : log'[u] = log[u]
  BY <1>1, RecordEffect
<1>3. OutcomeOf(t) = "absent" /\ OutcomeOf(t)' = "open"
  BY <1>1, <1>2 DEF OutcomeOf, Fold
<1>4. ASSUME NEW u \in Tasks \ {t} PROVE OutcomeOf(u)' = OutcomeOf(u)
  <2>1. CASE Fold(log[u]) # "cancelled"
    BY <1>2, <2>1 DEF OutcomeOf
  <2>2. CASE Fold(log[u]) = "cancelled"
    <3>1. u \notin Elements(queue) /\ queue \in Seq(Tasks) /\ IInv'
      BY <2>2, DelegateInvariant DEF IInv, QueueExact, TypeOK
    <3>2. u \notin Elements(Append(queue, t))
      BY <3>1, AppendProperties, LenProperties DEF Elements
    <3>3. /\ Append(queue, t) \in Seq(Tasks) /\ running \in 0..Concurrency
          /\ Pump(Append(queue, t), running, pc)
      BY <3>1, AppendProperties DEF Delegate, IInv, TypeOK
    <3>4. pc'[u] = pc[u]
      BY <3>2, <3>3, PumpSpares
    <3>5. QED
      BY <1>2, <3>4 DEF OutcomeOf
  <2>3. QED
    BY <2>1, <2>2
<1>5. [u \in Tasks |-> OutcomeOf(u)]' =
         [[u \in Tasks |-> OutcomeOf(u)] EXCEPT ![t] = "open"]
  BY <1>3, <1>4
<1>6. [u \in Tasks |-> told[u] > 0]' = [u \in Tasks |-> told[u] > 0]
  BY <1>1
<1>7. Contract!Open(t)
  BY <1>3, <1>5, <1>6 DEF Contract!Open
<1>8. QED
  BY <1>7 DEF Contract!ContractNext

\* A cancel decides -- unless it lands in setup, where it decides nothing yet.
LEMMA CancelContract ==
    ASSUME IInv, NEW t \in Tasks, Cancel(t)
    PROVE  Contract!ContractNext \/ UNCHANGED Contract!contractVars
<1>1. /\ Unsettled(t) /\ Record(t, "cancelled") /\ UNCHANGED <<pc, told>>
      /\ log \in [Tasks -> Seq(Events)] /\ "cancelled" \in Events \cap Final
  BY DEF Cancel, IInv, TypeOK, Events, Final
<1>2. Fold(log'[t]) = "cancelled" /\ \A u \in Tasks \ {t} : log'[u] = log[u]
  BY <1>1, RecordEffect
<1>3. \A u \in Tasks \ {t} : OutcomeOf(u)' = OutcomeOf(u)
  BY <1>1, <1>2 DEF OutcomeOf
<1>4. OutcomeOf(t) = "open"
  BY <1>1 DEF OutcomeOf, Unsettled
<1>5. CASE pc[t] = "setup"
  BY <1>1, <1>2, <1>3, <1>4, <1>5, SilentStep DEF OutcomeOf
<1>6. CASE pc[t] # "setup"
  <2>1. OutcomeOf(t)' = "cancelled"
    BY <1>1, <1>2, <1>6 DEF OutcomeOf
  <2>2. Contract!ContractNext
    <3> DEFINE S == {t}
    <3>1. \A u \in S : OutcomeOf(u) = "open" /\ OutcomeOf(u)' \in Final
      BY <1>1, <1>4, <2>1
    <3>2. S \in SUBSET Tasks /\ \A u \in Tasks \ S : OutcomeOf(u)' = OutcomeOf(u)
      BY <1>3
    <3> HIDE DEF S
    <3>3. QED
      BY <1>1, <3>1, <3>2, DecideStep
  <2>3. QED
    BY <2>2
<1>7. QED
  BY <1>5, <1>6

\* The shutdown's cancels decide all the running tasks at once.
LEMMA CancelAllContract ==
    ASSUME IInv, CancelAll
    PROVE  Contract!ContractNext
<1> DEFINE S == {t \in Tasks : pc[t] = "active" /\ Unsettled(t)}
<1>1. /\ log' = [t \in Tasks |->
                    IF t \in S THEN Append(log[t], "cancelled") ELSE log[t]]
      /\ UNCHANGED <<pc, told>>
      /\ log \in [Tasks -> Seq(Events)] /\ "cancelled" \in Events \cap Final
  BY DEF CancelAll, IInv, TypeOK, Events, Final
<1>2. S \in SUBSET Tasks
  OBVIOUS
<1>3. \A t \in S : pc[t] = "active" /\ Unsettled(t)
  OBVIOUS
<1> HIDE DEF S
<1>4. \A t \in Tasks \ S : OutcomeOf(t)' = OutcomeOf(t)
  BY <1>1 DEF OutcomeOf
<1>5. ASSUME NEW t \in S PROVE OutcomeOf(t) = "open" /\ OutcomeOf(t)' \in Final
  <2>1. Fold(log'[t]) = "cancelled"
    BY <1>1, <1>2, FoldAppend
  <2>2. QED
    BY <1>1, <1>3, <2>1 DEF OutcomeOf, Unsettled
<1>6. QED
  BY <1>1, <1>2, <1>4, <1>5, DecideStep

\* The start overrules a cancel that came during setup: still open.
LEMMA SetupDoneContract ==
    ASSUME IInv, NEW t \in Tasks, SetupDone(t)
    PROVE  UNCHANGED Contract!contractVars
<1>1. /\ pc[t] = "setup" /\ Record(t, "started") /\ UNCHANGED told
      /\ pc' = [pc EXCEPT ![t] = "active"]
      /\ pc \in [Tasks -> Points]
      /\ log \in [Tasks -> Seq(Events)] /\ "started" \in Events
  BY DEF SetupDone, IInv, TypeOK, Events
<1>2. Fold(log'[t]) = "running" /\ \A u \in Tasks \ {t} : log'[u] = log[u]
  BY <1>1, RecordEffect
<1>3. Fold(log[t]) \in {"pending", "running", "cancelled"}
  BY <1>1 DEF IInv, Stages, Stage
<1>4. OutcomeOf(t) = "open" /\ OutcomeOf(t)' = "open"
  BY <1>1, <1>2, <1>3 DEF OutcomeOf
<1>5. \A u \in Tasks : OutcomeOf(u)' = OutcomeOf(u)
  BY <1>1, <1>2, <1>4 DEF OutcomeOf
<1>6. QED
  BY <1>1, <1>5, SilentStep

\* One task is decided.
LEMMA DecideOne ==
    ASSUME NEW t \in Tasks, OutcomeOf(t) = "open", OutcomeOf(t)' \in Final,
           \A u \in Tasks \ {t} : OutcomeOf(u)' = OutcomeOf(u),
           UNCHANGED told
    PROVE  Contract!ContractNext
<1> DEFINE S == {t}
<1>1. /\ \A u \in S : OutcomeOf(u) = "open" /\ OutcomeOf(u)' \in Final
      /\ S \in SUBSET Tasks /\ \A u \in Tasks \ S : OutcomeOf(u)' = OutcomeOf(u)
  OBVIOUS
<1> HIDE DEF S
<1>2. QED
  BY <1>1, DecideStep

\* The tail of run() decides; for a task cancelled before it ends, that was
\* decided by the cancel, or is now if it came in setup.
LEMMA OutcomeContract ==
    ASSUME IInv, NEW t \in Tasks, NEW o \in {"completed", "failed"},
           pc[t] \in {"setup", "active"}, Outcome(t, o), UNCHANGED told
    PROVE  Contract!ContractNext \/ UNCHANGED Contract!contractVars
<1>1. /\ log \in [Tasks -> Seq(Events)] /\ pc \in [Tasks -> Points]
      /\ o \in Events /\ o \in Final
      /\ Fold(log[t]) \in {"pending", "running", "cancelled"}
  BY DEF IInv, TypeOK, Events, Final, Stages, Stage
<1>2. CASE Fold(log[t]) = "cancelled"
  <2>1. log' = log /\ pc' = [pc EXCEPT ![t] = "exit"]
    BY <1>2 DEF Outcome
  <2>2. \A u \in Tasks \ {t} : OutcomeOf(u)' = OutcomeOf(u)
    BY <1>1, <2>1 DEF OutcomeOf
  <2>3. OutcomeOf(t)' = "cancelled"
    BY <1>1, <1>2, <2>1 DEF OutcomeOf
  <2>4. CASE pc[t] = "setup"
    <3>1. OutcomeOf(t) = "open" /\ OutcomeOf(t)' \in Final
      BY <1>2, <2>3, <2>4 DEF OutcomeOf, Final
    <3>2. QED
      BY <2>2, <3>1, DecideOne
  <2>5. CASE pc[t] # "setup"
    <3>1. OutcomeOf(t) = "cancelled"
      BY <1>2, <2>5 DEF OutcomeOf
    <3>2. \A u \in Tasks : OutcomeOf(u)' = OutcomeOf(u)
      BY <2>2, <2>3, <3>1
    <3>3. QED
      BY <3>2, SilentStep
  <2>6. QED
    BY <2>4, <2>5
<1>3. CASE Fold(log[t]) # "cancelled"
  <2>1. Record(t, o) /\ pc' = [pc EXCEPT ![t] = "notify"]
    BY <1>3 DEF Outcome
  <2>2. Fold(log'[t]) = o /\ \A u \in Tasks \ {t} : log'[u] = log[u]
    BY <1>1, <2>1, RecordEffect
  <2>3. \A u \in Tasks \ {t} : OutcomeOf(u)' = OutcomeOf(u)
    BY <1>1, <2>1, <2>2 DEF OutcomeOf
  <2>4. OutcomeOf(t) = "open" /\ OutcomeOf(t)' \in Final
    BY <1>1, <1>3, <2>2 DEF OutcomeOf, Final
  <2>5. QED
    BY <2>3, <2>4, DecideOne
<1>4. QED
  BY <1>2, <1>3

\* notifyParent tells of a recorded outcome, for the first time.
LEMMA NotifyContract ==
    ASSUME IInv, NEW t \in Tasks, Notify(t)
    PROVE  Contract!ContractNext \/ UNCHANGED Contract!contractVars
<1>1. /\ pc[t] = "notify" /\ pc' = [pc EXCEPT ![t] = "exit"]
      /\ told' \in {told, [told EXCEPT ![t] = @ + 1]} /\ UNCHANGED log
      /\ pc \in [Tasks -> Points] /\ told \in [Tasks -> Nat]
  BY DEF Notify, IInv, TypeOK
<1>2. \A u \in Tasks : OutcomeOf(u)' = OutcomeOf(u)
  BY <1>1 DEF OutcomeOf
<1>3. told[t] = 0 /\ Fold(log[t]) \in {"completed", "failed"}
  BY <1>1 DEF IInv, Stages, Stage
<1>4. CASE told' = told
  BY <1>2, <1>4, SilentStep
<1>5. CASE told' = [told EXCEPT ![t] = @ + 1]
  <2>1. OutcomeOf(t) \in Contract!Reported
    BY <1>3 DEF OutcomeOf, Contract!Reported
  <2>2. QED
    BY <1>1, <1>2, <1>3, <1>5, <2>1, TellStep
<1>6. QED
  BY <1>1, <1>4, <1>5

\* Giving the slot back decides nothing: what is pumped stays open.
LEMMA ExitContract ==
    ASSUME IInv, NEW t \in Tasks, Exit(t)
    PROVE  UNCHANGED Contract!contractVars
<1> DEFINE p == [pc EXCEPT ![t] = "idle"]
<1>1. /\ pc[t] = "exit" /\ Pump(queue, running - 1, p) /\ UNCHANGED <<log, told>>
      /\ pc \in [Tasks -> Points] /\ queue \in Seq(Tasks)
      /\ running \in 0..Concurrency
  BY DEF Exit, IInv, TypeOK
<1>2. running - 1 \in 0..Concurrency
  <2>1. IsFiniteSet(Live) /\ t \in Live
    BY <1>1, ConstantsAssumption, FS_Subset DEF Live
  <2>2. Cardinality(Live) \in Nat /\ Cardinality(Live) # 0
    BY <2>1, FS_CardinalityType, FS_EmptySet
  <2>3. QED
    BY <1>1, <2>2, ConstantsAssumption DEF IInv, SlotsAccounted
<1>3. p[t] = "idle" /\ \A u \in Tasks \ {t} : p[u] = pc[u]
  BY <1>1
<1> HIDE DEF p
<1>4. ASSUME NEW u \in Tasks PROVE OutcomeOf(u)' = OutcomeOf(u)
  <2>1. CASE Fold(log[u]) # "cancelled"
    BY <1>1, <2>1 DEF OutcomeOf
  <2>2. CASE Fold(log[u]) = "cancelled"
    <3>1. u \notin Elements(queue)
      BY <2>2 DEF IInv, QueueExact
    <3>2. pc'[u] = p[u]
      BY <1>1, <1>2, <3>1, PumpSpares
    <3>3. pc'[u] = "setup" <=> pc[u] = "setup"
      BY <1>1, <1>3, <3>2
    <3>4. QED
      BY <1>1, <3>3 DEF OutcomeOf
  <2>3. QED
    BY <2>1, <2>2
<1>5. QED
  BY <1>1, <1>4, SilentStep

\* A crash makes the cancels that came in setup final, and no other decision.
LEMMA CrashContract ==
    ASSUME IInv, Crash
    PROVE  Contract!ContractNext
<1> DEFINE S == {t \in Tasks : Fold(log[t]) = "cancelled" /\ pc[t] = "setup"}
<1>1. pc' = [t \in Tasks |-> "idle"] /\ UNCHANGED <<log, told>>
  BY DEF Crash
<1>2. \A t \in S : OutcomeOf(t) = "open" /\ OutcomeOf(t)' \in Final
  BY <1>1 DEF OutcomeOf, Final
<1>3. S \in SUBSET Tasks /\ \A t \in Tasks \ S : OutcomeOf(t)' = OutcomeOf(t)
  BY <1>1 DEF OutcomeOf
<1> HIDE DEF S
<1>4. QED
  BY <1>1, <1>2, <1>3, DecideStep

\* Recovery decides what the dead process left open.
LEMMA RecoverContract ==
    ASSUME IInv, NEW t \in Tasks, Recover(t)
    PROVE  Contract!ContractNext \/ UNCHANGED Contract!contractVars
<1>1. /\ t \in recovering /\ UNCHANGED <<pc, told>>
      /\ \/ Unsettled(t) /\ Record(t, "interrupted")
         \/ UNCHANGED log
      /\ log \in [Tasks -> Seq(Events)] /\ "interrupted" \in Events \cap Final
  BY DEF Recover, IInv, TypeOK, Events, Final
<1>2. CASE UNCHANGED log
  BY <1>1, <1>2, SilentStep DEF OutcomeOf
<1>3. CASE Unsettled(t) /\ Record(t, "interrupted")
  <2>1. /\ Fold(log'[t]) = "interrupted"
        /\ \A u \in Tasks \ {t} : log'[u] = log[u]
    BY <1>1, <1>3, RecordEffect
  <2>2. \A u \in Tasks \ {t} : OutcomeOf(u)' = OutcomeOf(u)
    BY <1>1, <2>1 DEF OutcomeOf
  <2>3. OutcomeOf(t) = "open" /\ OutcomeOf(t)' \in Final
    BY <1>1, <1>3, <2>1 DEF OutcomeOf, Unsettled
  <2>4. QED
    BY <1>1, <2>2, <2>3, DecideOne
<1>4. QED
  BY <1>1, <1>2, <1>3

\* The note after a recovery tells of an interruption, for the first time.
LEMMA NoticeContract ==
    ASSUME IInv, NEW t \in Tasks, Notice(t)
    PROVE  Contract!ContractNext \/ UNCHANGED Contract!contractVars
<1>1. /\ t \in noticing /\ told' \in {told, [told EXCEPT ![t] = @ + 1]}
      /\ UNCHANGED <<log, pc>> /\ told \in [Tasks -> Nat]
  BY DEF Notice, IInv, TypeOK
<1>2. \A u \in Tasks : OutcomeOf(u)' = OutcomeOf(u)
  BY <1>1 DEF OutcomeOf
<1>3. told[t] = 0 /\ Fold(log[t]) = "interrupted"
  BY <1>1 DEF IInv, Stages, Stage
<1>4. CASE told' = told
  BY <1>2, <1>4, SilentStep
<1>5. CASE told' = [told EXCEPT ![t] = @ + 1]
  <2>1. OutcomeOf(t) \in Contract!Reported
    BY <1>3 DEF OutcomeOf, Contract!Reported
  <2>2. QED
    BY <1>1, <1>2, <1>3, <1>5, <2>1, TellStep
<1>6. QED
  BY <1>1, <1>4, <1>5

\* Every step of the code is a step of the contract, or one it does not see.
LEMMA StepContract ==
    IInv /\ [Next]_vars => [Contract!ContractNext]_(Contract!contractVars)
<1> SUFFICES ASSUME IInv, [Next]_vars
             PROVE  Contract!ContractNext \/ UNCHANGED Contract!contractVars
  OBVIOUS
<1>1. ASSUME NEW t \in Tasks, Delegate(t) \/ Cancel(t)
      PROVE  Contract!ContractNext \/ UNCHANGED Contract!contractVars
  BY <1>1, DelegateContract, CancelContract
<1>2. ASSUME CancelAll \/ Crash PROVE Contract!ContractNext
  BY <1>2, CancelAllContract, CrashContract
<1>3. ASSUME NEW t \in Tasks, Run(t)
      PROVE  Contract!ContractNext \/ UNCHANGED Contract!contractVars
  <2>1. CASE SetupDone(t)
    BY <2>1, SetupDoneContract
  <2>2. CASE SetupFail(t)
    BY <2>2, OutcomeContract DEF SetupFail
  <2>3. CASE Settle(t)
    BY <2>3, OutcomeContract DEF Settle
  <2>4. CASE Notify(t)
    BY <2>4, NotifyContract
  <2>5. CASE Exit(t)
    BY <2>5, ExitContract
  <2>6. QED
    BY <1>3, <2>1, <2>2, <2>3, <2>4, <2>5 DEF Run
<1>4. ASSUME NEW t \in Tasks, Recover(t) \/ Notice(t)
      PROVE  Contract!ContractNext \/ UNCHANGED Contract!contractVars
  BY <1>4, RecoverContract, NoticeContract
<1>5. CASE UNCHANGED vars
  BY <1>5, SilentStep DEF vars, OutcomeOf
<1>6. QED
  BY <1>1, <1>2, <1>3, <1>4, <1>5 DEF Next

\* Delegation keeps its contract: each task settled once, its parent told at
\* most once, of an outcome that is recorded and is not a cancellation.
THEOREM Implementation == Spec => ImplementsContract
<1>1. Init => Contract!ContractInit
  BY InitContract
<1>2. IInv /\ [Next]_vars => [Contract!ContractNext]_(Contract!contractVars)
  BY StepContract
<1>3. QED
  BY <1>1, <1>2, Invariance, PTL
     DEF Spec, ImplementsContract, Contract!ContractSpec
=============================================================================

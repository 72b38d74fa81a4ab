--------------------------- MODULE ServicesProofs ---------------------------
(***************************************************************************)
(* Proofs about the services, for every value of the constants: the plan   *)
(* store, the tools that run a program, the backfill of old sessions, the  *)
(* shepherd of a phase and the bridge to the long-term memory (what the    *)
(* reconciler takes as read is in the store, and whatever writes to the    *)
(* store holds its lock or began before the lock was given up), and then   *)
(* all of them together.                                                   *)
(***************************************************************************)
EXTENDS MCServices, SequenceTheorems, FiniteSetTheorems, TLAPS

-----------------------------------------------------------------------------
(* The ends of sets of numbers.                                            *)

\* A set of positions of a log has a largest one.
LEMMA MaxProperties ==
    ASSUME NEW n \in Nat, NEW S \in SUBSET (1..n), S # {}
    PROVE  Max(S) \in S /\ \A y \in S : Max(S) >= y
<1> DEFINE Above(x) == x..n
           T == {Above(x) : x \in S}
<1>1. T \subseteq FiniteSubsetsOf(Nat) /\ T # {}
  <2>1. ASSUME NEW x \in S PROVE Above(x) \in FiniteSubsetsOf(Nat)
    <3>1. x \in Int /\ n \in Int /\ Above(x) \in SUBSET Nat
      OBVIOUS
    <3>2. QED
      BY <3>1, FS_Interval DEF FiniteSubsetsOf
  <2>2. QED
    BY <2>1
<1>2. PICK X \in T : \A Y \in T : <<Y, X>> \notin StrictSubsetOrdering(Nat)
  BY <1>1, FS_StrictSubsetOrderingWellFounded, WFMin, Zenon
<1>3. PICK x \in S : X = Above(x)
  OBVIOUS
<1>4. ASSUME NEW y \in S PROVE x >= y
  <2>1. SUFFICES ASSUME y > x PROVE FALSE
    OBVIOUS
  <2>2. Above(y) \subseteq Above(x) /\ x \in Above(x) /\ x \notin Above(y)
    BY <2>1
  <2>3. Above(y) \in SUBSET Nat /\ Above(x) \in SUBSET Nat
    OBVIOUS
  <2>4. <<Above(y), Above(x)>> \in StrictSubsetOrdering(Nat)
    BY <2>2, <2>3 DEF StrictSubsetOrdering
  <2>5. QED
    BY <1>2, <1>3, <2>4
<1>5. QED
  BY <1>4 DEF Max

\* A set of natural numbers has a smallest one.
LEMMA MinProperties ==
    ASSUME NEW S \in SUBSET Nat, S # {}
    PROVE  Min(S) \in S /\ \A y \in S : Min(S) <= y
<1> DEFINE Below(x) == 0..(x - 1)
           T == {Below(x) : x \in S}
<1>1. T \subseteq FiniteSubsetsOf(Nat) /\ T # {}
  <2>1. ASSUME NEW x \in S PROVE Below(x) \in FiniteSubsetsOf(Nat)
    <3>1. 0 \in Int /\ x - 1 \in Int /\ Below(x) \in SUBSET Nat
      OBVIOUS
    <3>2. QED
      BY <3>1, FS_Interval DEF FiniteSubsetsOf
  <2>2. QED
    BY <2>1
<1>2. PICK X \in T : \A Y \in T : <<Y, X>> \notin StrictSubsetOrdering(Nat)
  BY <1>1, FS_StrictSubsetOrderingWellFounded, WFMin, Zenon
<1>3. PICK x \in S : X = Below(x)
  OBVIOUS
<1>4. ASSUME NEW y \in S PROVE x <= y
  <2>1. SUFFICES ASSUME y < x PROVE FALSE
    OBVIOUS
  <2>2. Below(y) \subseteq Below(x) /\ y \in Below(x) /\ y \notin Below(y)
    BY <2>1
  <2>3. Below(y) \in SUBSET Nat /\ Below(x) \in SUBSET Nat
    OBVIOUS
  <2>4. <<Below(y), Below(x)>> \in StrictSubsetOrdering(Nat)
    BY <2>2, <2>3 DEF StrictSubsetOrdering
  <2>5. QED
    BY <1>2, <1>3, <2>4
<1>5. QED
  BY <1>4 DEF Min

-----------------------------------------------------------------------------
(* The plan store: the inductive invariant.                                *)

\* As long as nobody died with the marker in its hands: the lock file and the
\* marker are those of the processes that act on them, only a lock that looks
\* stale is renamed away, and no marker is ever cleared.
LockHeld == \A p \in Procs : at[p] \in Holding => lockFile = LockOf(p)

MarkerHeld ==
    /\ \A p \in Procs : at[p] \in Reclaiming => marker = LockOf(p)
    /\ marker # NoFile =>
          marker.owner \in Procs /\ at[marker.owner] \in Reclaiming /\ ~marker.old
    /\ \A p \in Procs : at[p] # "clearing"
    /\ \A p \in Procs : at[p] = "renaming" => lockFile.old

\* The snapshot under way is made from the one before, and is the one to keep.
DraftsCurrent ==
    /\ \A p \in Procs : at[p] = "drafted" /\ ~swallowed => base[p] = acked
    /\ \A p \in Procs : at[p] = "appended" => draft[p] = acked /\ ~unended

\* What a death cut short is the last line, and cannot be read.
LogSound ==
    /\ ~swallowed => Current = acked
    /\ unended => Len(lines) > 0 /\ lines[Len(lines)] = Garbage
    /\ Len(lines) =< CompactAfter + deaths
                     + (IF \E p \in Procs : at[p] = "appended" THEN 1 ELSE 0)

PlanTypes ==
    /\ at \in [Procs -> Holding \cup Reclaiming \cup
                        {"idle", "waiting", "suspecting", "clearing"}]
    /\ lockFile \in LockFiles /\ marker \in LockFiles
    /\ lines \in Seq(Plans \cup {Garbage})
    /\ unended \in BOOLEAN
    /\ draft \in [Procs -> Plans] /\ base \in [Procs -> Plans]
    /\ acked \in Plans
    /\ orphaned \in BOOLEAN /\ swallowed \in BOOLEAN
    /\ deaths \in 0..MaxDeaths

PlanInv ==
    /\ PlanTypes
    /\ orphaned \/ (LockHeld /\ MarkerHeld /\ DraftsCurrent /\ LogSound)

-----------------------------------------------------------------------------
(* The log.                                                                *)

\* What a death leaves of a snapshot is no plan.
LEMMA GarbageIsNoPlan == Garbage \notin Plans
<1>1. DOMAIN Garbage = {0}
  BY DEF Garbage
<1>2. \A plan \in Plans : 0 \notin DOMAIN plan
  BY DEF Plans
<1>3. QED
  BY <1>1, <1>2

\* No plan at all is the projection of an empty log.
LEMMA NoPlanIsAPlan == NoPlan \in Plans
<1>1. NoPlan = [i \in {} |-> "done"]
  BY DEF NoPlan
<1>2. [i \in {} |-> "done"] \in [{} -> Statuses]
  BY DEF Statuses
<1>3. QED
  BY <1>1, <1>2 DEF Plans

\* The plan that is read is a plan.
LEMMA CurrentIsAPlan ==
    ASSUME PlanTypes
    PROVE  Current \in Plans
<1> DEFINE good == {i \in DOMAIN lines : lines[i] # Garbage}
<1>1. CASE good = {}
  BY <1>1, NoPlanIsAPlan DEF Current
<1>2. CASE good # {}
  <2>1. Len(lines) \in Nat /\ good \in SUBSET (1..Len(lines))
    BY DEF PlanTypes
  <2>2. Max(good) \in good
    BY <1>2, <2>1, MaxProperties
  <2>3. QED
    BY <1>2, <2>1, <2>2 DEF Current, PlanTypes
<1>3. QED
  BY <1>1, <1>2

\* A snapshot that is appended is the plan.
LEMMA AppendedIsCurrent ==
    ASSUME PlanTypes, NEW plan \in Plans, lines' = Append(lines, plan)
    PROVE  Current' = plan
<1> DEFINE n == Len(lines)
           good == {i \in DOMAIN lines' : lines'[i] # Garbage}
<1>1. /\ n \in Nat /\ DOMAIN lines' = 1..(n + 1) /\ lines'[n + 1] = plan
  BY DEF PlanTypes
<1>2. n + 1 \in good /\ good \in SUBSET (1..(n + 1))
  BY <1>1, GarbageIsNoPlan
<1>3. Max(good) \in good /\ Max(good) >= n + 1
  BY <1>1, <1>2, MaxProperties, n + 1 \in Nat
<1>4. Max(good) = n + 1
  <2> HIDE DEF good, n
  <2>1. Max(good) \in 1..(n + 1)
    BY <1>2, <1>3
  <2>2. QED
    BY <1>1, <1>3, <2>1
<1>5. QED
  BY <1>1, <1>2, <1>4 DEF Current

\* A line that cannot be read does not change the plan.
LEMMA TornIsNotCurrent ==
    ASSUME PlanTypes, lines' = Append(lines, Garbage)
    PROVE  Current' = Current
<1> DEFINE n == Len(lines)
           good == {i \in DOMAIN lines : lines[i] # Garbage}
<1>1. /\ n \in Nat /\ DOMAIN lines = 1..n /\ DOMAIN lines' = 1..(n + 1)
      /\ lines'[n + 1] = Garbage /\ \A i \in 1..n : lines'[i] = lines[i]
  BY DEF PlanTypes, Garbage
<1>2. {i \in DOMAIN lines' : lines'[i] # Garbage} = good
  BY <1>1
<1>3. CASE good = {}
  BY <1>2, <1>3 DEF Current
<1>4. CASE good # {}
  <2>1. good \in SUBSET (1..n)
    BY <1>1
  <2>2. Max(good) \in good
    BY <1>1, <1>4, <2>1, MaxProperties
  <2>3. QED
    BY <1>1, <1>2, <1>4, <2>1, <2>2 DEF Current
<1>5. QED
  BY <1>3, <1>4

\* A snapshot alone is the plan.
LEMMA AloneIsCurrent ==
    ASSUME NEW plan \in Plans, lines' = <<plan>>
    PROVE  Current' = plan
<1> DEFINE good == {i \in DOMAIN lines' : lines'[i] # Garbage}
<1>1. DOMAIN lines' = {1} /\ lines'[1] = plan
  OBVIOUS
<1>2. good = {1}
  BY <1>1, GarbageIsNoPlan
<1>3. Max(good) \in good
  BY <1>2, MaxProperties, 1 \in Nat, good \in SUBSET (1..1)
<1>4. QED
  BY <1>1, <1>2, <1>3 DEF Current

\* The log stays a log, whichever line a snapshot ends up in.
LEMMA WithLineType ==
    ASSUME PlanTypes, NEW snapshot \in Plans \cup {Garbage}
    PROVE  /\ WithLine(snapshot) \in Seq(Plans \cup {Garbage})
           /\ Len(WithLine(snapshot)) =< Len(lines) + 1
           /\ unended => Len(WithLine(snapshot)) = Len(lines)
<1>1. CASE ~unended
  BY <1>1 DEF PlanTypes, WithLine
<1>2. CASE unended
  <2>1. CASE Len(lines) \in 1..Len(lines)
    BY <1>2, <2>1, ExceptSeq DEF PlanTypes, WithLine
  <2>2. CASE Len(lines) \notin 1..Len(lines)
    <3>1. [lines EXCEPT ![Len(lines)] = Garbage] = lines
      BY <2>2 DEF PlanTypes
    <3>2. WithLine(snapshot) = lines
      BY <1>2, <3>1 DEF WithLine
    <3>3. QED
      BY <3>2 DEF PlanTypes
  <2>3. QED
    BY <2>1, <2>2
<1>3. QED
  BY <1>1, <1>2 DEF PlanTypes

-----------------------------------------------------------------------------
(* Every step of the plan store keeps the invariant.                       *)

\* A process asks for the lock.
LEMMA WantKeeps ==
    ASSUME PlanInv, NEW p \in Procs, Want(p)
    PROVE  PlanInv'
<1> USE DEF Want, Go, planFiles, planHistory
<1>1. PlanTypes'
  BY DEF PlanInv, PlanTypes
<1>2. ASSUME ~orphaned PROVE LockHeld' /\ MarkerHeld' /\ DraftsCurrent' /\ LogSound'
  BY <1>2 DEF PlanInv, PlanTypes, LockHeld, MarkerHeld, DraftsCurrent, LogSound,
     Current, Holding, Reclaiming
<1>3. QED
  BY <1>1, <1>2 DEF PlanInv

\* A process takes a lock that is free, or looks at its age.
LEMMA TryKeeps ==
    ASSUME PlanInv, NEW p \in Procs, Try(p)
    PROVE  PlanInv'
<1> USE DEF Try, Go, planFiles, planHistory
<1>1. PlanTypes'
  <2>1. LockOf(p) \in LockFiles
    BY DEF LockFiles, LockOf
  <2>2. at' \in [Procs -> Holding \cup Reclaiming \cup
                         {"idle", "waiting", "suspecting", "clearing"}]
    BY DEF PlanInv, PlanTypes, Holding
  <2>3. QED
    BY <2>1, <2>2 DEF PlanInv, PlanTypes
<1>2. ASSUME ~orphaned PROVE LockHeld' /\ MarkerHeld' /\ DraftsCurrent' /\ LogSound'
  <2>1. LockHeld'
    BY <1>2, PlanAssumption DEF PlanInv, PlanTypes, LockHeld, Holding, LockOf, NoFile
  <2>2. MarkerHeld'
    BY <1>2, PlanAssumption
       DEF PlanInv, PlanTypes, MarkerHeld, Holding, Reclaiming, LockOf, NoFile
  <2>3. DraftsCurrent' /\ LogSound'
    BY <1>2 DEF PlanInv, PlanTypes, DraftsCurrent, LogSound, Current
  <2>4. QED
    BY <2>1, <2>2, <2>3
<1>3. QED
  BY <1>1, <1>2 DEF PlanInv

\* To recover a stale lock, a process puts its marker down first.
LEMMA MarkKeeps ==
    ASSUME PlanInv, NEW p \in Procs, Mark(p)
    PROVE  PlanInv'
<1> USE DEF Mark, Go, planFiles, planHistory
<1>1. PlanTypes'
  <2>1. LockOf(p) \in LockFiles
    BY DEF LockFiles, LockOf
  <2>2. at' \in [Procs -> Holding \cup Reclaiming \cup
                         {"idle", "waiting", "suspecting", "clearing"}]
    BY DEF PlanInv, PlanTypes, Reclaiming
  <2>3. QED
    BY <2>1, <2>2 DEF PlanInv, PlanTypes
<1>2. ASSUME ~orphaned PROVE LockHeld' /\ MarkerHeld' /\ DraftsCurrent' /\ LogSound'
  <2>1. LockHeld'
    BY <1>2 DEF PlanInv, PlanTypes, LockHeld, Holding
  <2>2. MarkerHeld'
    BY <1>2, PlanAssumption
       DEF PlanInv, PlanTypes, MarkerHeld, Reclaiming, LockOf, NoFile
  <2>3. DraftsCurrent' /\ LogSound'
    BY <1>2 DEF PlanInv, PlanTypes, DraftsCurrent, LogSound, Current
  <2>4. QED
    BY <2>1, <2>2, <2>3
<1>3. QED
  BY <1>1, <1>2 DEF PlanInv

\* A marker that is stale itself is removed, whoever has put it there.
LEMMA ClearMarkerKeeps ==
    ASSUME PlanInv, NEW p \in Procs, ClearMarker(p)
    PROVE  PlanInv'
<1>1. PlanTypes'
  BY DEF PlanInv, PlanTypes, LockFiles, NoFile, ClearMarker, Go, planHistory
<1>2. orphaned
  BY DEF PlanInv, MarkerHeld, ClearMarker
<1>3. QED
  BY <1>1, <1>2 DEF PlanInv, ClearMarker, planHistory

\* Under the marker the age of the lock is read again.
LEMMA RecheckKeeps ==
    ASSUME PlanInv, NEW p \in Procs, Recheck(p)
    PROVE  PlanInv'
<1> USE DEF Recheck, Go, planFiles, planHistory
<1>1. PlanTypes'
  BY DEF PlanInv, PlanTypes, Reclaiming
<1>2. ASSUME ~orphaned PROVE LockHeld' /\ MarkerHeld' /\ DraftsCurrent' /\ LogSound'
  BY <1>2 DEF PlanInv, PlanTypes, LockHeld, MarkerHeld, DraftsCurrent, LogSound,
     Current, Holding, Reclaiming
<1>3. QED
  BY <1>1, <1>2 DEF PlanInv

\* A lock that is still stale is renamed away.
LEMMA RenameKeeps ==
    ASSUME PlanInv, NEW p \in Procs, Rename(p)
    PROVE  PlanInv'
<1> USE DEF Rename, Go, planFiles, planHistory
<1>1. PlanTypes'
  BY DEF PlanInv, PlanTypes, LockFiles, NoFile, Reclaiming
<1>2. ASSUME ~orphaned PROVE LockHeld' /\ MarkerHeld' /\ DraftsCurrent' /\ LogSound'
  <2>1. LockHeld'
    BY <1>2 DEF PlanInv, PlanTypes, LockHeld, MarkerHeld, Holding, LockOf
  <2>2. MarkerHeld'
    BY <1>2 DEF PlanInv, PlanTypes, MarkerHeld, Reclaiming, LockOf
  <2>3. DraftsCurrent' /\ LogSound'
    BY <1>2 DEF PlanInv, PlanTypes, DraftsCurrent, LogSound, Current
  <2>4. QED
    BY <2>1, <2>2, <2>3
<1>3. QED
  BY <1>1, <1>2 DEF PlanInv

\* The marker goes when the recovery is over.
LEMMA UnmarkKeeps ==
    ASSUME PlanInv, NEW p \in Procs, Unmark(p)
    PROVE  PlanInv'
<1> USE DEF Unmark, Go, planFiles, planHistory
<1>1. PlanTypes'
  BY DEF PlanInv, PlanTypes, LockFiles, NoFile
<1>2. ASSUME ~orphaned PROVE LockHeld' /\ MarkerHeld' /\ DraftsCurrent' /\ LogSound'
  <2>1. LockHeld'
    BY <1>2 DEF PlanInv, PlanTypes, LockHeld, Holding
  <2>2. MarkerHeld'
    BY <1>2 DEF PlanInv, PlanTypes, MarkerHeld, Reclaiming, LockOf, NoFile
  <2>3. DraftsCurrent' /\ LogSound'
    BY <1>2 DEF PlanInv, PlanTypes, DraftsCurrent, LogSound, Current
  <2>4. QED
    BY <2>1, <2>2, <2>3
<1>3. QED
  BY <1>1, <1>2 DEF PlanInv

\* The change is drafted from the plan that is read under the lock.
LEMMA DraftKeeps ==
    ASSUME PlanInv, NEW p \in Procs, Draft(p)
    PROVE  PlanInv'
<1>1. /\ at[p] = "held" /\ UNCHANGED <<planFiles, planHistory>>
      /\ \/ /\ draft' \in [Procs -> Plans] /\ base' \in [Procs -> Plans]
            /\ base'[p] = acked \/ base'[p] = Current
            /\ \A q \in Procs : q # p => base'[q] = base[q] /\ draft'[q] = draft[q]
            /\ Go(p, "drafted")
         \/ Go(p, "releasing") /\ UNCHANGED <<draft, base>>
  <2>1. ASSUME NEW n \in 0..MaxItems PROVE [i \in 1..n |-> "pending"] \in Plans
    <3>1. 1..n \in SUBSET (1..MaxItems)
      BY PlanAssumption
    <3>2. [i \in 1..n |-> "pending"] \in [1..n -> Statuses]
      BY DEF Statuses
    <3>3. QED
      BY <3>1, <3>2 DEF Plans
  <2>2. QED
    BY <2>1, CurrentIsAPlan DEF PlanInv, PlanTypes, Draft
<1> USE DEF Go, planFiles, planHistory
<1>2. PlanTypes'
  BY <1>1 DEF PlanInv, PlanTypes, Holding
<1>3. ASSUME ~orphaned PROVE LockHeld' /\ MarkerHeld' /\ DraftsCurrent' /\ LogSound'
  <2>1. LockHeld' /\ MarkerHeld'
    BY <1>1, <1>3 DEF PlanInv, PlanTypes, LockHeld, MarkerHeld, Holding, Reclaiming
  <2>2. DraftsCurrent' /\ LogSound'
    BY <1>1, <1>3 DEF PlanInv, PlanTypes, DraftsCurrent, LogSound, Current
  <2>3. QED
    BY <2>1, <2>2
<1>4. QED
  BY <1>1, <1>2, <1>3 DEF PlanInv

\* The draft is appended to the log.
LEMMA PersistKeeps ==
    ASSUME PlanInv, NEW p \in Procs, Persist(p)
    PROVE  PlanInv'
<1> USE DEF Persist, Go
<1>1. draft[p] \in Plans
  BY DEF PlanInv, PlanTypes
<1>2. PlanTypes'
  BY <1>1, NoPlanIsAPlan, WithLineType DEF PlanInv, PlanTypes, Holding
<1>3. ASSUME ~orphaned PROVE LockHeld' /\ MarkerHeld' /\ DraftsCurrent' /\ LogSound'
  <2>1. LockHeld' /\ MarkerHeld'
    BY <1>3 DEF PlanInv, PlanTypes, LockHeld, MarkerHeld, Holding, Reclaiming
  <2>2. \A q \in Procs : at[q] \in Holding => q = p
    BY <1>3 DEF PlanInv, PlanTypes, LockHeld, Holding, LockOf
  <2>3. DraftsCurrent'
    BY <1>3, <2>2 DEF PlanInv, PlanTypes, DraftsCurrent, Holding
  <2>4. ~swallowed' => Current' = acked'
    BY <1>1, AppendedIsCurrent DEF PlanInv, PlanTypes, WithLine
  <2>5. Len(lines') =< Len(lines) + 1
    BY <1>1, WithLineType DEF PlanInv
  <2>6. Len(lines) =< CompactAfter + deaths
    <3>1. ~\E q \in Procs : at[q] = "appended"
      BY <2>2 DEF Holding
    <3>2. QED
      BY <1>3, <3>1, PlanAssumption DEF PlanInv, PlanTypes, LogSound
  <2>7. at'[p] = "appended"
    BY DEF PlanInv, PlanTypes
  <2>8. LogSound'
    BY <1>2, <2>4, <2>5, <2>6, <2>7, PlanAssumption DEF PlanInv, PlanTypes, LogSound
  <2>9. QED
    BY <2>1, <2>3, <2>8
<1>4. QED
  BY <1>2, <1>3 DEF PlanInv

\* A log that has grown too long is replaced by a snapshot.
LEMMA CompactIfNeededKeeps ==
    ASSUME PlanInv, NEW p \in Procs, CompactIfNeeded(p)
    PROVE  PlanInv'
<1> USE DEF CompactIfNeeded, Go
<1>1. draft[p] \in Plans
  BY DEF PlanInv, PlanTypes
<1>2. PlanTypes'
  <2>1. <<draft[p]>> \in Seq(Plans \cup {Garbage})
    BY <1>1
  <2>2. at' \in [Procs -> Holding \cup Reclaiming \cup
                         {"idle", "waiting", "suspecting", "clearing"}]
    BY DEF PlanInv, PlanTypes, Holding
  <2>3. QED
    BY <2>1, <2>2, NoPlanIsAPlan DEF PlanInv, PlanTypes
<1>3. ASSUME ~orphaned PROVE LockHeld' /\ MarkerHeld' /\ DraftsCurrent' /\ LogSound'
  <2>1. LockHeld' /\ MarkerHeld'
    BY <1>3 DEF PlanInv, PlanTypes, LockHeld, MarkerHeld, Holding, Reclaiming
  <2>2. \A q \in Procs : at[q] \in Holding => q = p
    BY <1>3 DEF PlanInv, PlanTypes, LockHeld, Holding, LockOf
  <2>3. DraftsCurrent'
    BY <1>3, <2>2 DEF PlanInv, PlanTypes, DraftsCurrent, Holding
  <2>4. draft[p] = acked /\ ~unended
    BY <1>3 DEF PlanInv, DraftsCurrent
  <2>5. ~swallowed' => Current' = acked'
    BY <1>1, <1>3, <2>4, AloneIsCurrent DEF PlanInv, LogSound, Current
  <2>6. Len(lines') =< CompactAfter
    <3>1. Len(<<draft[p]>>) = 1
      OBVIOUS
    <3>2. lines' = <<draft[p]>> \/ (Len(lines) =< CompactAfter /\ lines' = lines)
      OBVIOUS
    <3>3. CASE lines' = <<draft[p]>>
      <4>1. Len(lines') = 1
        BY <3>1, <3>3, Zenon
      <4>2. QED
        BY <4>1, PlanAssumption
    <3>4. QED
      BY <3>2, <3>3
  <2>7. LogSound'
    BY <1>2, <2>4, <2>5, <2>6, PlanAssumption DEF PlanTypes, LogSound
  <2>8. QED
    BY <2>1, <2>3, <2>7
<1>4. QED
  BY <1>2, <1>3 DEF PlanInv

\* The lock is released only by the process whose token it holds.
LEMMA CheckTokenKeeps ==
    ASSUME PlanInv, NEW p \in Procs, CheckToken(p)
    PROVE  PlanInv'
<1> USE DEF CheckToken, Go, planFiles, planHistory
<1>1. PlanTypes'
  BY DEF PlanInv, PlanTypes, Holding
<1>2. ASSUME ~orphaned PROVE LockHeld' /\ MarkerHeld' /\ DraftsCurrent' /\ LogSound'
  BY <1>2 DEF PlanInv, PlanTypes, LockHeld, MarkerHeld, DraftsCurrent, LogSound,
     Current, Holding, Reclaiming
<1>3. QED
  BY <1>1, <1>2 DEF PlanInv

\* The release removes the directory of the lock.
LEMMA UnlinkKeeps ==
    ASSUME PlanInv, NEW p \in Procs, Unlink(p)
    PROVE  PlanInv'
<1> USE DEF Unlink, Go, planHistory
<1>1. PlanTypes'
  BY DEF PlanInv, PlanTypes, LockFiles, NoFile
<1>2. ASSUME ~orphaned PROVE LockHeld' /\ MarkerHeld' /\ DraftsCurrent' /\ LogSound'
  <2>1. lockFile = LockOf(p) /\ \A q \in Procs : at[q] \in Holding => q = p
    BY <1>2 DEF PlanInv, PlanTypes, LockHeld, Holding, LockOf
  <2>2. LockHeld'
    BY <2>1 DEF PlanInv, PlanTypes, LockHeld, Holding
  <2>3. MarkerHeld'
    BY <1>2, <2>1 DEF PlanInv, PlanTypes, MarkerHeld, Reclaiming, LockOf
  <2>4. DraftsCurrent' /\ LogSound'
    BY <1>2 DEF PlanInv, PlanTypes, DraftsCurrent, LogSound, Current
  <2>5. QED
    BY <2>2, <2>3, <2>4
<1>3. QED
  BY <1>1, <1>2 DEF PlanInv

\* A process may die at any step, and leave a torn line, its lock or its marker.
LEMMA DieKeeps ==
    ASSUME PlanInv, NEW p \in Procs, Die(p)
    PROVE  PlanInv'
<1> USE DEF Die, Go
<1>1. PlanTypes'
  <2>1. lines' \in Seq(Plans \cup {Garbage})
    BY WithLineType DEF PlanInv, PlanTypes
  <2>2. deaths' \in 0..MaxDeaths
    BY PlanAssumption DEF PlanInv, PlanTypes
  <2>3. QED
    BY <2>1, <2>2, NoPlanIsAPlan DEF PlanInv, PlanTypes
<1>2. ASSUME ~orphaned' PROVE LockHeld' /\ MarkerHeld' /\ DraftsCurrent' /\ LogSound'
  <2>1. ~orphaned /\ at[p] \notin Reclaiming
    BY <1>2 DEF PlanInv, PlanTypes
  <2>2. LockHeld' /\ MarkerHeld'
    BY <2>1 DEF PlanInv, PlanTypes, LockHeld, MarkerHeld, Holding, Reclaiming
  <2>3. at[p] \in Holding => \A q \in Procs : at[q] \in Holding => q = p
    BY <2>1 DEF PlanInv, PlanTypes, LockHeld, LockOf
  <2>4. DraftsCurrent'
    BY <2>1, <2>3 DEF PlanInv, PlanTypes, DraftsCurrent, Holding
  <2>5. ~swallowed' => Current' = acked'
    <3>1. CASE UNCHANGED lines
      BY <2>1, <3>1 DEF PlanInv, LogSound, Current
    <3>2. CASE lines' = WithLine(Garbage) /\ ~unended
      BY <2>1, <3>2, TornIsNotCurrent DEF PlanInv, LogSound, WithLine
    <3>3. CASE lines' = WithLine(Garbage) /\ unended
      <4>1. lines' = lines
        BY <2>1, <3>3 DEF PlanInv, PlanTypes, LogSound, WithLine
      <4>2. QED
        BY <2>1, <4>1 DEF PlanInv, LogSound, Current
    <3>4. QED
      BY <3>1, <3>2, <3>3
  <2>6. unended' => Len(lines') > 0 /\ lines'[Len(lines')] = Garbage
    <3>1. CASE UNCHANGED <<lines, unended>>
      BY <2>1, <3>1 DEF PlanInv, LogSound
    <3>2. CASE lines' = WithLine(Garbage)
      BY <2>1, <3>2 DEF PlanInv, PlanTypes, LogSound, WithLine, Garbage
    <3>3. QED
      BY <3>1, <3>2
  <2>7. Len(lines') =< CompactAfter + deaths'
            + (IF \E q \in Procs : at'[q] = "appended" THEN 1 ELSE 0)
    <3>1. CASE UNCHANGED lines
      <4>1. CASE at[p] = "appended"
        BY <2>1, <3>1, <4>1, PlanAssumption DEF PlanInv, PlanTypes, LogSound
      <4>2. CASE at[p] # "appended"
        <5>1. (\E q \in Procs : at[q] = "appended")
                 => \E q \in Procs : at'[q] = "appended"
          BY <4>2 DEF PlanInv, PlanTypes
        <5>2. QED
          BY <2>1, <3>1, <5>1, PlanAssumption DEF PlanInv, PlanTypes, LogSound
      <4>3. QED
        BY <4>1, <4>2
    <3>2. CASE at[p] = "drafted" /\ lines' = WithLine(Garbage)
      <4>1. Len(lines) =< CompactAfter + deaths
        <5>1. ~\E q \in Procs : at[q] = "appended"
          BY <2>3, <3>2 DEF Holding
        <5>2. QED
          BY <2>1, <5>1, PlanAssumption DEF PlanInv, PlanTypes, LogSound
      <4>2. Len(lines') =< Len(lines) + 1
        BY <3>2, WithLineType DEF PlanInv
      <4>3. QED
        BY <1>1, <4>1, <4>2, PlanAssumption DEF PlanInv, PlanTypes
    <3>3. QED
      BY <3>1, <3>2
  <2>8. QED
    BY <2>2, <2>4, <2>5, <2>6, <2>7 DEF LogSound
<1>3. QED
  BY <1>1, <1>2 DEF PlanInv, PlanTypes

\* A lock grows old once the process that took it is not at work under it.
LEMMA AgeLockKeeps ==
    ASSUME PlanInv, AgeLock
    PROVE  PlanInv'
<1> USE DEF AgeLock, planHistory
<1>1. PlanTypes'
  BY DEF PlanInv, PlanTypes, LockFiles
<1>2. ASSUME ~orphaned PROVE LockHeld' /\ MarkerHeld' /\ DraftsCurrent' /\ LogSound'
  <2>1. LockHeld'
    BY <1>2 DEF PlanInv, PlanTypes, LockHeld, Holders, LockOf
  <2>2. MarkerHeld'
    BY <1>2 DEF PlanInv, PlanTypes, MarkerHeld, LockFiles
  <2>3. DraftsCurrent' /\ LogSound'
    BY <1>2 DEF PlanInv, PlanTypes, DraftsCurrent, LogSound, Current
  <2>4. QED
    BY <2>1, <2>2, <2>3
<1>3. QED
  BY <1>1, <1>2 DEF PlanInv

\* So does a marker.
LEMMA AgeMarkerKeeps ==
    ASSUME PlanInv, AgeMarker
    PROVE  PlanInv'
<1>1. orphaned
  BY DEF PlanInv, MarkerHeld, AgeMarker
<1>2. PlanTypes'
  BY DEF PlanInv, PlanTypes, LockFiles, AgeMarker, planHistory
<1>3. QED
  BY <1>1, <1>2 DEF PlanInv, AgeMarker, planHistory

\* Nobody has the lock, and the log is empty.
LEMMA PlanInitInvariant == PlanInit => PlanInv
<1> SUFFICES ASSUME PlanInit PROVE PlanInv
  OBVIOUS
<1> USE DEF PlanInit
<1>1. PlanTypes
  <2>1. NoFile \in LockFiles /\ lines \in Seq(Plans \cup {Garbage})
    BY DEF LockFiles, NoFile
  <2>2. draft \in [Procs -> Plans] /\ base \in [Procs -> Plans] /\ acked \in Plans
    BY NoPlanIsAPlan
  <2>3. deaths \in 0..MaxDeaths
    BY PlanAssumption
  <2>4. QED
    BY <2>1, <2>2, <2>3, Zenon DEF PlanTypes
<1>2. Current = NoPlan
  <2>1. DOMAIN lines = {}
    OBVIOUS
  <2>2. QED
    BY <2>1 DEF Current
<1>3. LockHeld /\ MarkerHeld /\ DraftsCurrent
  BY DEF LockHeld, MarkerHeld, DraftsCurrent, Holding, Reclaiming
<1>4. LogSound
  BY <1>2, PlanAssumption DEF LogSound
<1>5. QED
  BY <1>1, <1>3, <1>4 DEF PlanInv

\* A step of another service keeps it.
LEMMA PlanStutterKeeps ==
    ASSUME PlanInv, UNCHANGED planVars
    PROVE  PlanInv'
  BY DEF planVars, planFiles, planHistory, PlanInv, PlanTypes, LockHeld, MarkerHeld,
     DraftsCurrent, LogSound, Current

\* Each step of the processes that share the plan keeps it.
LEMMA PlanStepInvariant == PlanInv /\ [PlanNext]_planVars => PlanInv'
  BY WantKeeps, TryKeeps, MarkKeeps, ClearMarkerKeeps, RecheckKeeps, RenameKeeps,
     UnmarkKeeps, DraftKeeps, PersistKeeps, CompactIfNeededKeeps, CheckTokenKeeps,
     UnlinkKeeps, DieKeeps, AgeLockKeeps, AgeMarkerKeeps, PlanStutterKeeps
     DEF PlanNext, PlanStep

\* What the invariant is for.
LEMMA PlanInvariantSuffices == PlanInv => PlanTypeOK /\ PlanExclusion /\ PlanKept
<1> SUFFICES ASSUME PlanInv PROVE PlanTypeOK /\ PlanExclusion /\ PlanKept
  OBVIOUS
<1>1. PlanTypeOK
  <2>1. orphaned \/ Len(lines) =< CompactAfter + 1 + MaxDeaths
    BY PlanAssumption DEF PlanInv, PlanTypes, LogSound
  <2>2. QED
    BY <2>1 DEF PlanInv, PlanTypes, PlanTypeOK
<1>2. PlanExclusion
  <2>1. ASSUME ~orphaned PROVE Cardinality(Holders) =< 1
    <3>1. \A p, q \in Holders : p = q
      BY <2>1 DEF PlanInv, LockHeld, Holders, LockOf
    <3>2. CASE Holders = {}
      BY <3>2, FS_EmptySet
    <3>3. CASE Holders # {}
      <4>1. PICK p : Holders = {p}
        BY <3>1, <3>3
      <4>2. QED
        BY <4>1, FS_Singleton
    <3>4. QED
      BY <3>2, <3>3
  <2>2. QED
    BY <2>1 DEF PlanExclusion
<1>3. PlanKept
  BY DEF PlanInv, DraftsCurrent, LogSound, PlanKept
<1>4. QED
  BY <1>1, <1>2, <1>3

-----------------------------------------------------------------------------
(* The tools that run a program.                                           *)

\* What a type says, and what it rests on: there is no verdict before the answer.
ProcessInv ==
    /\ ProcessTypeOK
    /\ verdict.code \in {"0", "1", "null"}
    /\ stage # "answered" => verdict = NoVerdict

\* The invariant of the tools is inductive.
LEMMA ProcessInitInvariant == ProcessInit => ProcessInv
<1> SUFFICES ASSUME ProcessInit PROVE ProcessInv
  OBVIOUS
<1>1. MaxChildren \in Nat /\ OutputCap \in Nat
  BY ProcessAssumption
<1>2. verdict = NoVerdict /\ verdict.code = "null"
  BY DEF ProcessInit, NoVerdict
<1>3. /\ descendants \in 0 .. forks /\ forks \in 0 .. MaxChildren
      /\ output \in 0 .. OutputCap + 1
  BY <1>1 DEF ProcessInit
<1>4. QED
  BY <1>2, <1>3, Zenon DEF ProcessInit, ProcessInv, ProcessTypeOK

\* Each step of the tool, its program and its timers keeps it.
LEMMA ProcessStepInvariant == ProcessInv /\ [ProcessNext]_procVars => ProcessInv'
<1> SUFFICES ASSUME ProcessInv, [ProcessNext]_procVars PROVE ProcessInv'
  OBVIOUS
<1>0. MaxChildren \in Nat /\ OutputCap \in Nat
  BY ProcessAssumption
<1> USE <1>0 DEF ProcessInv, ProcessTypeOK, NoVerdict
<1>1. CASE StartProcess
  <2>1. stage' \in {"root", "command"} /\ timer' \in {"off", "armed"}
    BY <1>1 DEF StartProcess, Run
  <2>2. UNCHANGED <<kind, descendants, forks, verdict>> /\ output' = 0 /\ timedOut' = FALSE
    BY <1>1 DEF StartProcess, Run
  <2>3. child' = "running" /\ code' = "null" /\ verdict = NoVerdict
    BY <1>1 DEF StartProcess, Run
  <2>4. output' \in 0 .. OutputCap + 1 /\ verdict'.code = "null"
    BY <2>2, <2>3
  <2>5. QED
    BY <2>1, <2>2, <2>3, <2>4
<1>2. CASE SpawnError
  BY <1>2 DEF SpawnError, Ends
<1>3. CASE Forks
  BY <1>3 DEF Forks
<1>4. CASE Prints
  BY <1>4 DEF Prints
<1>5. CASE DescendantExits
  BY <1>5 DEF DescendantExits
<1>6. CASE ChildExits
  BY <1>6 DEF ChildExits
<1>7. CASE TimerFires
  BY <1>7 DEF TimerFires
<1>8. CASE Close
  <2>1. CASE \E v \in {NoVerdict} : Ends("threw", v) \/ Ends("answered", v)
    BY <1>8, <2>1 DEF Close, AtClose, Ends
  <2>2. CASE stage = "command" /\ Ends("answered", [code |-> code, timedOut |-> timedOut,
                                                   truncated |-> output > OutputCap])
    BY <1>8, <2>2 DEF Close, AtClose, Ends
  <2>3. CASE stage = "root" /\ Run("command")
    <3>1. stage' = "command" /\ timer' \in {"off", "armed"}
      BY <2>3 DEF Run
    <3>2. UNCHANGED <<kind, descendants, forks, verdict>> /\ output' = 0 /\ timedOut' = FALSE
      BY <2>3 DEF Run
    <3>3. child' = "running" /\ code' = "null" /\ verdict = NoVerdict
      BY <2>3 DEF Run
    <3>4. output' \in 0 .. OutputCap + 1 /\ verdict'.code = "null"
      BY <3>2, <3>3
    <3>5. QED
      BY <3>1, <3>2, <3>3, <3>4
  <2>4. QED
    BY <1>8, <2>1, <2>2, <2>3 DEF Close, AtClose
<1>9. CASE UNCHANGED procVars
  BY <1>9 DEF procVars
<1>10. QED
  BY <1>1, <1>2, <1>3, <1>4, <1>5, <1>6, <1>7, <1>8, <1>9 DEF ProcessNext

-----------------------------------------------------------------------------
(* The backfill of old sessions.                                           *)

Jobs == [status : {"running", "done", "cancelled", "failed"}, at : OldFiles \cup {0},
         todo : SUBSET OldFiles, done : SUBSET (OldFiles \ Broken),
         warned : SUBSET OldFiles, cancelRequested : BOOLEAN]

FeedTypes ==
    /\ cmd \in [Commands -> {"new", "posted", "polling"} \cup Ended]
    /\ signalled \subseteq Commands /\ deletes \subseteq signalled
    /\ slot \in Commands \cup {NoCommand}
    /\ job \in [Commands -> Jobs \cup {NoJob}]
    /\ process \in {"up", "draining", "down"} /\ (storeOpen => process # "down")

\* The slot tells which job runs, a job that is cancelled was asked to be, and
\* every file of a job that did not fail to start is ahead of it, in hand, or
\* dealt with.
JobSound(c) ==
    /\ job[c].status = "running" => slot = c
    /\ job[c] # NoJob =>
          /\ job[c].cancelRequested => c \in signalled
          /\ job[c].status = "cancelled" => job[c].cancelRequested
          /\ OldFiles \subseteq job[c].todo \cup {job[c].at} \cup job[c].done \cup job[c].warned
          /\ job[c].status = "done" => job[c].at = 0 /\ job[c].todo = {}

FeedInv ==
    /\ FeedTypes
    /\ slot # NoCommand => job[slot] # NoJob
    /\ \A c \in Commands : JobSound(c)

\* What a job is made of, unless there is none.
LEMMA JobShape ==
    ASSUME FeedTypes, NEW c \in Commands
    PROVE  /\ job[c] = NoJob \/ job[c] \in Jobs
           /\ job[c] = NoJob <=> job[c].status = "none"
<1>1. job[c] = NoJob \/ job[c] \in Jobs
  BY DEF FeedTypes
<1>2. NoJob.status = "none"
  BY DEF NoJob
<1>3. \A j \in Jobs : j.status # "none"
  BY DEF Jobs
<1>4. QED
  BY <1>1, <1>2, <1>3

\* A step of one job, which replaces it by a sound one, keeps the invariant.
LEMMA JobStep ==
    ASSUME FeedInv, NEW c \in Commands, NEW new \in Jobs,
           job' = [job EXCEPT ![c] = new],
           UNCHANGED <<cmd, signalled, slot, hostState>>, deletes' \subseteq deletes,
           new.status = "running" => slot = c,
           new.cancelRequested => c \in signalled,
           new.status = "cancelled" => new.cancelRequested,
           OldFiles \subseteq new.todo \cup {new.at} \cup new.done \cup new.warned,
           new.status = "done" => new.at = 0 /\ new.todo = {}
    PROVE  FeedInv'
<1>1. job' \in [Commands -> Jobs \cup {NoJob}]
  BY DEF FeedInv, FeedTypes
<1>2. FeedTypes'
  BY <1>1 DEF FeedInv, FeedTypes, hostState
<1>3. job'[c] = new /\ \A d \in Commands : d # c => job'[d] = job[d]
  BY DEF FeedInv, FeedTypes
<1>4. new # NoJob
  BY DEF Jobs, NoJob
<1>5. \A d \in Commands : JobSound(d)'
  BY <1>3 DEF FeedInv, JobSound
<1>6. (slot # NoCommand => job[slot] # NoJob)'
  BY <1>3, <1>4 DEF FeedInv, FeedTypes
<1>7. QED
  BY <1>2, <1>5, <1>6 DEF FeedInv

\* Where no job changes, nothing is asked of them that was not.
LEMMA NoJobStep ==
    ASSUME FeedInv, UNCHANGED <<job, slot>>, signalled \subseteq signalled', FeedTypes'
    PROVE  FeedInv'
  BY DEF FeedInv, JobSound

\* Nothing has been asked for.
LEMMA FeedInitInvariant == BackfillInit => FeedInv
  BY BackfillAssumption
     DEF BackfillInit, FeedInv, FeedTypes, JobSound, NoJob, NoCommand, Ended

\* Each step of the commands, their jobs and the server keeps it.
LEMMA FeedStepInvariant == FeedInv /\ [BackfillNext]_feedVars => FeedInv'
<1> SUFFICES ASSUME FeedInv, [BackfillNext]_feedVars PROVE FeedInv'
  OBVIOUS
<1>1. ASSUME NEW c \in Commands, Post(c) \/ PostLost(c) \/ Interrupt(c) \/ Poll(c)
      PROVE  FeedInv'
  <2>1. FeedTypes'
    BY <1>1 DEF FeedInv, FeedTypes, Post, PostLost, Interrupt, Poll, Ended, hostState
  <2>2. QED
    BY <1>1, <2>1, NoJobStep DEF Post, PostLost, Interrupt, Poll
<1>2. ASSUME NEW c \in Commands, StartJob(c) PROVE FeedInv'
  <2>1. CASE Taken
    <3>1. FeedTypes'
      BY <1>2, <2>1 DEF FeedInv, FeedTypes, StartJob, Ended, hostState
    <3>2. QED
      BY <1>2, <2>1, <3>1, NoJobStep DEF StartJob
  <2>2. CASE ~Taken
    <3>1. PICK new \in Jobs : /\ job' = [job EXCEPT ![c] = new]
                              /\ new.status \in {"running", "failed"}
                              /\ ~new.cancelRequested /\ new.todo = OldFiles
      <4>1. PICK listing \in {"running", "failed"} :
                job' = [job EXCEPT ![c] = [NewJob EXCEPT !.status = listing]]
        BY <1>2, <2>2 DEF StartJob
      <4> DEFINE new == [NewJob EXCEPT !.status = listing]
      <4>2. NewJob \in Jobs /\ ~NewJob.cancelRequested /\ NewJob.todo = OldFiles
        BY DEF NewJob, Jobs
      <4>3. new \in Jobs
        BY <4>2 DEF Jobs
      <4>4. new.status = listing /\ ~new.cancelRequested /\ new.todo = OldFiles
        BY <4>2 DEF Jobs
      <4> HIDE DEF new
      <4>5. QED
        BY <4>1, <4>3, <4>4 DEF new
    <3>2. slot' = c /\ UNCHANGED <<signalled, deletes, hostState>>
      BY <1>2, <2>2 DEF StartJob
    <3>3. job'[c] = new /\ \A d \in Commands : d # c => job'[d] = job[d]
      BY <3>1 DEF FeedInv, FeedTypes
    <3>4. FeedTypes'
      <4>1. cmd' \in [Commands -> {"new", "posted", "polling"} \cup Ended]
        BY <1>2, <2>2 DEF FeedInv, FeedTypes, StartJob
      <4>2. job' \in [Commands -> Jobs \cup {NoJob}]
        BY <3>1 DEF FeedInv, FeedTypes
      <4>3. QED
        BY <3>2, <4>1, <4>2 DEF FeedInv, FeedTypes, hostState
    <3>5. \A d \in Commands : job[d].status # "running"
      BY <2>2, BackfillAssumption DEF FeedInv, JobSound, Taken, Terminal, NoCommand
    <3>6. new # NoJob
      BY DEF Jobs, NoJob
    <3>7. \A d \in Commands : JobSound(d)'
      BY <3>1, <3>2, <3>3, <3>5 DEF FeedInv, JobSound
    <3>8. QED
      BY <3>2, <3>3, <3>4, <3>6, <3>7 DEF FeedInv
  <2>3. QED
    BY <2>1, <2>2
<1>3. ASSUME NEW c \in Commands, DeleteArrives(c) PROVE FeedInv'
  <2>1. CASE process = "up" /\ slot = c
    <3>1. job[c] \in Jobs /\ job[c] # NoJob /\ c \in signalled
      BY <1>3, <2>1, BackfillAssumption
         DEF FeedInv, FeedTypes, DeleteArrives, NoCommand
    <3>2. [job[c] EXCEPT !.cancelRequested = TRUE] \in Jobs
      BY <3>1 DEF Jobs
    <3>3. job' = [job EXCEPT ![c] = [job[c] EXCEPT !.cancelRequested = TRUE]]
      BY <1>3, <2>1 DEF DeleteArrives
    <3>4. QED
      BY <1>3, <2>1, <3>1, <3>2, <3>3, JobStep
         DEF FeedInv, JobSound, DeleteArrives, Jobs
  <2>2. CASE ~(process = "up" /\ slot = c)
    <3>1. FeedTypes'
      BY <1>3, <2>2 DEF FeedInv, FeedTypes, DeleteArrives, hostState
    <3>2. QED
      BY <1>3, <2>2, <3>1, NoJobStep DEF DeleteArrives
  <2>3. QED
    BY <2>1, <2>2
<1>4. ASSUME NEW c \in Commands, NextFile(c) \/ FileFed(c) \/ FileFailed(c)
      PROVE  FeedInv'
  <2>1. job[c] \in Jobs /\ job[c] # NoJob /\ slot = c /\ job[c].status = "running"
    BY <1>4, JobShape
       DEF FeedInv, JobSound, NextFile, FileFed, FileFailed, Busy, NoJob
  <2>2. JobSound(c)
    BY DEF FeedInv
  <2>3. CASE NextFile(c)
    <3>1. \/ /\ job[c].cancelRequested
             /\ job' = [job EXCEPT ![c] = [job[c] EXCEPT !.status = "cancelled"]]
          \/ /\ job[c].todo = {}
             /\ job' = [job EXCEPT ![c] = [job[c] EXCEPT !.status = "done"]]
          \/ \E f \in job[c].todo :
                job' = [job EXCEPT ![c] = [job[c] EXCEPT !.at = f, !.todo = @ \ {f}]]
      BY <2>3 DEF NextFile
    <3>2. job[c].at = 0 /\ UNCHANGED <<cmd, signalled, deletes, slot, hostState>>
      BY <2>3 DEF NextFile
    <3>3. CASE /\ job[c].cancelRequested
               /\ job' = [job EXCEPT ![c] = [job[c] EXCEPT !.status = "cancelled"]]
      <4> DEFINE new == [job[c] EXCEPT !.status = "cancelled"]
      <4>1. new \in Jobs
        BY <2>1 DEF Jobs
      <4>2. QED
        BY <2>1, <2>2, <3>2, <3>3, <4>1, JobStep DEF JobSound, Jobs
    <3>4. CASE /\ job[c].todo = {}
               /\ job' = [job EXCEPT ![c] = [job[c] EXCEPT !.status = "done"]]
      <4> DEFINE new == [job[c] EXCEPT !.status = "done"]
      <4>1. new \in Jobs
        BY <2>1 DEF Jobs
      <4>2. QED
        BY <2>1, <2>2, <3>2, <3>4, <4>1, JobStep DEF JobSound, Jobs
    <3>5. ASSUME NEW f \in job[c].todo,
                 job' = [job EXCEPT ![c] = [job[c] EXCEPT !.at = f, !.todo = @ \ {f}]]
          PROVE  FeedInv'
      <4> DEFINE new == [job[c] EXCEPT !.at = f, !.todo = @ \ {f}]
      <4>1. new \in Jobs
        BY <2>1 DEF Jobs
      <4>2. OldFiles \subseteq new.todo \cup {new.at} \cup new.done \cup new.warned
        BY <2>1, <2>2, <3>2, BackfillAssumption DEF JobSound, Jobs
      <4>3. QED
        BY <2>1, <2>2, <3>2, <3>5, <4>1, <4>2, JobStep DEF JobSound, Jobs
    <3>6. QED
      BY <3>1, <3>3, <3>4, <3>5
  <2>4. CASE FileFed(c)
    <3> DEFINE new == [job[c] EXCEPT !.at = 0, !.done = @ \cup {job[c].at}]
    <3>1. new \in Jobs /\ job' = [job EXCEPT ![c] = new]
      BY <2>1, <2>4 DEF FileFed, Jobs
    <3>2. QED
      BY <2>1, <2>2, <2>4, <3>1, JobStep DEF JobSound, Jobs, FileFed
  <2>5. CASE FileFailed(c)
    <3> DEFINE new == [job[c] EXCEPT !.at = 0, !.warned = @ \cup {job[c].at}]
    <3>1. new \in Jobs /\ job' = [job EXCEPT ![c] = new]
      BY <2>1, <2>5 DEF FileFailed, Jobs
    <3>2. QED
      BY <2>1, <2>2, <2>5, <3>1, JobStep DEF JobSound, Jobs, FileFailed
  <2>6. QED
    BY <1>4, <2>3, <2>4, <2>5
<1>5. ASSUME StartDrain \/ CloseStore \/ ProcessEnds PROVE FeedInv'
  BY <1>5 DEF FeedInv, FeedTypes, JobSound, StartDrain, CloseStore, ProcessEnds
<1>6. ASSUME StartServer PROVE FeedInv'
  BY <1>6, BackfillAssumption
     DEF FeedInv, FeedTypes, JobSound, StartServer, NoJob, NoCommand
<1>7. ASSUME UNCHANGED feedVars PROVE FeedInv'
  BY <1>7 DEF FeedInv, FeedTypes, JobSound, feedVars, hostState
<1>8. QED
  BY <1>1, <1>2, <1>3, <1>4, <1>5, <1>6, <1>7 DEF BackfillNext, Answered, JobRuns

\* What the invariant is for.
LEMMA FeedInvariantSuffices == FeedInv => BackfillTypeOK /\ BackfillSound
<1> SUFFICES ASSUME FeedInv PROVE BackfillTypeOK /\ BackfillSound
  OBVIOUS
<1>1. BackfillTypeOK
  BY DEF FeedInv, FeedTypes, BackfillTypeOK, Jobs
<1>2. ASSUME NEW c \in Commands, job[c].status = "done"
      PROVE  job[c].done \cup job[c].warned = OldFiles
  <2>1. job[c] \in Jobs /\ job[c] # NoJob
    BY <1>2, JobShape DEF FeedInv, NoJob
  <2>2. QED
    BY <1>2, <2>1, BackfillAssumption DEF FeedInv, JobSound, Jobs
<1>3. ASSUME NEW c \in Commands, job[c].status = "cancelled"
      PROVE  c \in signalled
  BY <1>3, JobShape DEF FeedInv, JobSound, NoJob
<1>4. QED
  BY <1>1, <1>2, <1>3 DEF FeedInv, JobSound, BackfillSound

-----------------------------------------------------------------------------
(* The shepherd of a phase: the inductive invariant.                       *)

PhaseTasks == [state : {"pending", "running", "pr_open", "merged", "parked", "failed"},
               task : Nat, kicked : BOOLEAN, pr : BOOLEAN,
               nopr : 0..MaxNoPr, updates : 0..MaxUpdates]
PhaseFiles == [Keys -> PhaseTasks]
BottegaTasks == [key : Keys, runs : Nat, ci : {"none", "pending", "pass", "fail"},
                 behind : BOOLEAN, merged : BOOLEAN,
                 run : {"idle", "planning", "planned", "implementing", "yolo", "blocked",
                        "pr"}]
TickStates == [at : {"reconcile", "advance", "push", "merge", "launch"}, seen : PhaseFiles,
               todo : SUBSET Keys, save : PhaseFiles \cup {NoSave}]

PhaseTypes ==
    /\ advance \in {"park", "auto", "yolo"}
    /\ phaseFile \in PhaseFiles
    /\ bottega \in Seq(BottegaTasks)
    /\ tick \in [Ticks -> TickStates \cup {NoTick}]
    /\ overlapped \in BOOLEAN /\ interrupted \in BOOLEAN /\ untested \in BOOLEAN
    /\ trouble \in 0..MaxTrouble

OnMain(b, k) == \E j \in DOMAIN b : b[j].key = k /\ b[j].merged

\* A file names tasks of Bottega by their own key, and calls merged what is.
TaskSound(b, k, task) ==
    /\ task.task \in 0..Len(b)
    /\ task.task # 0 => b[task.task].key = k
    /\ task.state = "merged" => OnMain(b, k)

FileSound(b, file) == \A k \in Keys : TaskSound(b, k, file[k])

Unsaved(s) == s # NoTick /\ s.save # NoSave

\* So does the file that a tick has seen, and the one that it will save.
TickSound(b, s) ==
    /\ s # NoTick => FileSound(b, s.seen)
    /\ Unsaved(s) => FileSound(b, s.save)

FilesAreSound ==
    /\ FileSound(bottega, phaseFile)
    /\ \A t \in Ticks : TickSound(bottega, tick[t])

Ordered(b) == \A i \in DOMAIN b : \A d \in After[b[i].key] : OnMain(b, d)

\* What a tick has, saved or not.
View(s, file) == IF Unsaved(s) THEN s.save ELSE file

Passed(b, id) == id # 0 /\ b[id].ci = "pass"

\* The pull request that a tick is about to push or to merge passed its checks.
TickInTurn(b, s, file) ==
    s # NoTick /\ s.at \in {"push", "merge"} =>
        Min(s.todo) \in Keys /\ Passed(b, View(s, file)[Min(s.todo)].task)

\* Checks run for pull requests.
Checked(b) == \A i \in DOMAIN b : b[i].ci # "none" => b[i].run = "pr"

\* One tick comes after the other.
InTurn ==
    /\ \A t, u \in Ticks : tick[t] # NoTick /\ tick[u] # NoTick => t = u
    /\ \A t \in Ticks : TickInTurn(bottega, tick[t], phaseFile)
    /\ Checked(bottega)
    /\ ~untested

\* What is pending in a file has no task, and what was not kicked was not run.
TaskCurrent(b, k, task) ==
    /\ task.state = "pending" => \A i \in DOMAIN b : b[i].key # k
    /\ advance = "auto" /\ task.task # 0 /\ ~task.kicked => b[task.task].runs = 0

FileCurrent(b, file) == \A k \in Keys : TaskCurrent(b, k, file[k])

\* What a tick saw of the keys ahead of it still holds.
TickCurrent(s, file) ==
    s # NoTick /\ s.at \in {"reconcile", "launch"} =>
        \A k \in s.todo : file[k] = s.seen[k] /\ View(s, file)[k] = s.seen[k]

OneEach(b) ==
    /\ \A i, j \in DOMAIN b : b[i].key = b[j].key => i = j
    /\ advance = "auto" => \A i \in DOMAIN b : b[i].runs =< 1

\* And none was cut short.
Uncut ==
    /\ (\A t \in Ticks : ~Unsaved(tick[t])) => FileCurrent(bottega, phaseFile)
    /\ \A t \in Ticks : Unsaved(tick[t]) => FileCurrent(bottega, tick[t].save)
    /\ \A t \in Ticks : TickCurrent(tick[t], phaseFile)
    /\ OneEach(bottega)

PhaseInv ==
    /\ PhaseTypes /\ FilesAreSound /\ Ordered(bottega)
    /\ overlapped \/ InTurn
    /\ overlapped \/ interrupted \/ Uncut

-----------------------------------------------------------------------------
(* Steps of a tick.                                                        *)

\* Tasks of Bottega stay, with their keys, and what is merged stays merged.
Kept(b, c) ==
    \A i \in DOMAIN b :
        i \in DOMAIN c /\ c[i].key = b[i].key /\ (b[i].merged => c[i].merged)

\* What the file says of the tasks stays right when tasks are added or merged.
LEMMA FileStaysSound ==
    ASSUME NEW b \in Seq(BottegaTasks), NEW c \in Seq(BottegaTasks), Kept(b, c),
           NEW file, FileSound(b, file)
    PROVE  FileSound(c, file)
<1>1. DOMAIN b = 1..Len(b) /\ DOMAIN c = 1..Len(c) /\ Len(b) \in Nat /\ Len(c) \in Nat
  OBVIOUS
<1>2. Len(b) =< Len(c)
  <2>1. CASE Len(b) = 0
    BY <1>1, <2>1
  <2>2. CASE Len(b) # 0
    <3>1. Len(b) \in DOMAIN b
      BY <1>1, <2>2
    <3>2. Len(b) \in DOMAIN c
      BY <3>1 DEF Kept
    <3>3. QED
      BY <1>1, <3>2
  <2>3. QED
    BY <2>1, <2>2
<1>3. ASSUME NEW k, OnMain(b, k) PROVE OnMain(c, k)
  BY <1>3 DEF OnMain, Kept
<1>4. QED
  BY <1>1, <1>2, <1>3 DEF FileSound, TaskSound, Kept

\* What is in order stays so while no task is added.
LEMMA StaysOrdered ==
    ASSUME NEW b \in Seq(BottegaTasks), NEW c \in Seq(BottegaTasks), Kept(b, c),
           DOMAIN c = DOMAIN b, Ordered(b)
    PROVE  Ordered(c)
<1>1. \A k : OnMain(b, k) => OnMain(c, k)
  BY DEF OnMain, Kept
<1>2. QED
  BY <1>1 DEF Ordered, Kept

\* The step of a tick that has nothing to save: it goes on as `new'.
LEMMA TickStepKeeps ==
    ASSUME PhaseInv, NEW t \in Ticks, tick[t] # NoTick, tick[t].save = NoSave,
           NEW new \in TickStates \cup {NoTick}, tick' = [tick EXCEPT ![t] = new],
           UNCHANGED <<advance, phaseFile, overlapped, interrupted>>,
           untested' \in BOOLEAN, trouble' \in 0..MaxTrouble,
           bottega' \in Seq(BottegaTasks), Kept(bottega, bottega'),
           TickSound(bottega', new), Ordered(bottega'),
           ~overlapped =>
              TickInTurn(bottega', new, phaseFile) /\ Checked(bottega') /\ ~untested',
           ~overlapped /\ ~interrupted =>
              /\ FileCurrent(bottega', View(new, phaseFile))
              /\ TickCurrent(new, phaseFile) /\ OneEach(bottega')
    PROVE  PhaseInv'
<1>1. tick'[t] = new /\ \A u \in Ticks : u # t => tick'[u] = tick[u]
  BY DEF PhaseInv, PhaseTypes
<1>2. PhaseTypes'
  BY DEF PhaseInv, PhaseTypes
<1>3. FilesAreSound'
  <2>1. FileSound(bottega', phaseFile')
    BY FileStaysSound DEF PhaseInv, PhaseTypes, FilesAreSound
  <2>2. \A u \in Ticks : TickSound(bottega', tick'[u])
    BY <1>1, FileStaysSound DEF PhaseInv, PhaseTypes, FilesAreSound, TickSound
  <2>3. QED
    BY <2>1, <2>2 DEF FilesAreSound
<1>4. ASSUME ~overlapped PROVE InTurn' /\ \A u \in Ticks : u # t => tick'[u] = NoTick
  <2>1. \A u \in Ticks : u # t => tick'[u] = NoTick
    BY <1>1, <1>4 DEF PhaseInv, InTurn
  <2>2. \A u \in Ticks : TickInTurn(bottega', tick'[u], phaseFile')
    BY <1>1, <1>4, <2>1 DEF TickInTurn
  <2>3. QED
    BY <1>1, <1>4, <2>1, <2>2 DEF InTurn
<1>5. ASSUME ~overlapped, ~interrupted PROVE Uncut'
  <2>1. \A u \in Ticks : TickCurrent(tick'[u], phaseFile')
    BY <1>1, <1>4, <1>5 DEF TickCurrent
  <2>2. \A u \in Ticks : Unsaved(tick'[u]) <=> u = t /\ Unsaved(new)
    BY <1>1, <1>4, <1>5 DEF Unsaved
  <2>3. QED
    BY <1>1, <1>5, <2>1, <2>2 DEF Uncut, View, FileCurrent, TaskCurrent, OneEach
<1>6. QED
  BY <1>2, <1>3, <1>4, <1>5 DEF PhaseInv, Ordered, OnMain

\* The key at hand is one that is ahead of the tick.
LEMMA AtHandIsAhead ==
    ASSUME PhaseTypes, NEW t \in Ticks, tick[t] # NoTick, NEW k \in Keys, AtHand(t, k)
    PROVE  /\ tick[t] \in TickStates /\ tick[t].save = NoSave
           /\ k \in tick[t].todo /\ Min(tick[t].todo) = k
<1>1. tick[t] \in TickStates
  BY DEF PhaseTypes
<1>2. tick[t].todo \in SUBSET Nat /\ tick[t].todo # {}
  BY <1>1, PhaseAssumption DEF TickStates, AtHand
<1>3. QED
  BY <1>1, <1>2, MinProperties DEF AtHand

\* Nothing but a file can be saved.
LEMMA FileIsToSave == ASSUME NEW k \in Keys PROVE NoSave \notin PhaseFiles
<1>1. DOMAIN NoSave = {}
  BY DEF NoSave
<1>2. \A file \in PhaseFiles : DOMAIN file = Keys
  BY DEF PhaseFiles
<1>3. QED
  BY <1>1, <1>2

\* What Skip, Note and NoteThen make of a tick.
LEMMA SkipForm ==
    ASSUME PhaseTypes, NEW t \in Ticks, tick[t] # NoTick, NEW k \in Keys, Skip(t, k)
    PROVE  \E new \in TickStates :
              /\ tick' = [tick EXCEPT ![t] = new]
              /\ new.at = tick[t].at /\ new.seen = tick[t].seen
              /\ new.todo = tick[t].todo \ {k} /\ new.save = tick[t].save
<1> DEFINE new == [tick[t] EXCEPT !.todo = @ \ {k}]
<1>1. tick[t] \in TickStates
  BY DEF PhaseTypes
<1>2. new \in TickStates
  BY <1>1 DEF TickStates
<1>3. tick' = [tick EXCEPT ![t] = new]
  BY DEF Skip
<1>4. QED
  BY <1>1, <1>2, <1>3 DEF TickStates

\* A note saves its task in the file, and takes the key off what is to be done.
LEMMA NoteForm ==
    ASSUME PhaseTypes, NEW t \in Ticks, tick[t] # NoTick, NEW k \in Keys,
           NEW task \in PhaseTasks, Note(t, k, task)
    PROVE  \E new \in TickStates :
              /\ tick' = [tick EXCEPT ![t] = new]
              /\ new.at = IF tick[t].at \in {"push", "merge"} THEN "advance" ELSE tick[t].at
              /\ new.seen = tick[t].seen /\ new.todo = tick[t].todo \ {k}
              /\ new.save = [phaseFile EXCEPT ![k] = task]
<1> DEFINE place == IF tick[t].at \in {"push", "merge"} THEN "advance" ELSE tick[t].at
           file == [phaseFile EXCEPT ![k] = task]
           new == [tick[t] EXCEPT !.todo = @ \ {k}, !.at = place, !.save = file]
<1>1. tick[t] \in TickStates
  BY DEF PhaseTypes
<1>2. file \in PhaseFiles
  BY DEF PhaseTypes, PhaseFiles
<1>3. place \in {"reconcile", "advance", "push", "merge", "launch"}
  BY <1>1 DEF TickStates
<1>4. tick' = [tick EXCEPT ![t] = new]
  BY <1>1 DEF Note, PhaseTypes, TickStates
<1> HIDE DEF place, file
<1>5. new \in TickStates
  BY <1>1, <1>2, <1>3 DEF TickStates
<1>6. new.at = place /\ new.seen = tick[t].seen /\ new.todo = tick[t].todo \ {k}
      /\ new.save = file
  BY <1>1 DEF TickStates
<1>7. QED
  BY <1>4, <1>5, <1>6 DEF place, file

\* A note that goes on with its key saves the task and turns to the next place.
LEMMA NoteThenForm ==
    ASSUME PhaseTypes, NEW t \in Ticks, tick[t] # NoTick, NEW k \in Keys,
           NEW task \in PhaseTasks, NEW what \in {"push", "merge"}, NoteThen(t, k, task, what)
    PROVE  \E new \in TickStates :
              /\ tick' = [tick EXCEPT ![t] = new]
              /\ new.at = what /\ new.seen = tick[t].seen /\ new.todo = tick[t].todo
              /\ new.save = [phaseFile EXCEPT ![k] = task]
<1> DEFINE file == [phaseFile EXCEPT ![k] = task]
           new == [tick[t] EXCEPT !.at = what, !.save = file]
<1>1. tick[t] \in TickStates
  BY DEF PhaseTypes
<1>2. file \in PhaseFiles
  BY DEF PhaseTypes, PhaseFiles
<1>3. tick' = [tick EXCEPT ![t] = new]
  BY <1>1 DEF NoteThen, PhaseTypes, TickStates
<1> HIDE DEF file
<1>4. new \in TickStates
  BY <1>1, <1>2 DEF TickStates
<1>5. new.at = what /\ new.seen = tick[t].seen /\ new.todo = tick[t].todo /\ new.save = file
  BY <1>1 DEF TickStates
<1>6. QED
  BY <1>3, <1>4, <1>5 DEF file

\* A tick with nothing to save, alone and not cut short, has the file as it is.
LEMMA FileInHand ==
    ASSUME PhaseInv, ~overlapped, ~interrupted,
           NEW t \in Ticks, tick[t] # NoTick, tick[t].save = NoSave
    PROVE  FileCurrent(bottega, phaseFile) /\ TickCurrent(tick[t], phaseFile)
  BY DEF PhaseInv, InTurn, Uncut, Unsaved

\* A change of the task at hand keeps the invariant.
LEMMA NoteKeeps ==
    ASSUME PhaseInv, NEW t \in Ticks, tick[t] # NoTick, NEW k \in Keys, AtHand(t, k),
           NEW task \in PhaseTasks, Note(t, k, task),
           UNCHANGED <<advance, phaseFile, overlapped, interrupted>>,
           untested' \in BOOLEAN, trouble' \in 0..MaxTrouble,
           bottega' \in Seq(BottegaTasks), Kept(bottega, bottega'), Ordered(bottega'),
           TaskSound(bottega', k, task),
           ~overlapped => Checked(bottega') /\ ~untested',
           ~overlapped /\ ~interrupted =>
              /\ OneEach(bottega') /\ TaskCurrent(bottega', k, task)
              /\ \A j \in Keys : j # k => TaskCurrent(bottega', j, phaseFile[j])
    PROVE  PhaseInv'
<1>1. PhaseTypes
  BY DEF PhaseInv
<1>2. PICK new \in TickStates :
         /\ tick' = [tick EXCEPT ![t] = new]
         /\ new.at = IF tick[t].at \in {"push", "merge"} THEN "advance" ELSE tick[t].at
         /\ new.seen = tick[t].seen /\ new.todo = tick[t].todo \ {k}
         /\ new.save = [phaseFile EXCEPT ![k] = task]
  BY <1>1, NoteForm
<1>3. tick[t] \in TickStates /\ tick[t].save = NoSave
  BY <1>1, AtHandIsAhead
<1>4. /\ new # NoTick /\ new.save # NoSave /\ new.save \in PhaseFiles
      /\ new.save[k] = task /\ \A j \in Keys : j # k => new.save[j] = phaseFile[j]
  BY <1>1, <1>2, FileIsToSave DEF PhaseTypes, PhaseFiles, TickStates, NoTick
<1>5. FileSound(bottega', phaseFile) /\ FileSound(bottega', tick[t].seen)
  BY FileStaysSound DEF PhaseInv, PhaseTypes, FilesAreSound, TickSound
<1>6. TickSound(bottega', new)
  BY <1>2, <1>4, <1>5 DEF TickSound, FileSound
<1>7. TickInTurn(bottega', new, phaseFile)
  BY <1>2, <1>4 DEF TickInTurn
<1>8. ASSUME ~overlapped, ~interrupted
      PROVE  FileCurrent(bottega', View(new, phaseFile)) /\ TickCurrent(new, phaseFile)
  <2>1. FileCurrent(bottega', View(new, phaseFile))
    BY <1>4, <1>8 DEF FileCurrent, View, Unsaved
  <2>2. TickCurrent(tick[t], phaseFile)
    BY <1>3, <1>8, FileInHand
  <2>3. \A j \in new.todo : j \in Keys /\ j # k /\ j \in tick[t].todo
    BY <1>2, <1>3 DEF TickStates
  <2>4. TickCurrent(new, phaseFile)
    BY <1>2, <1>4, <2>2, <2>3 DEF TickCurrent, View, Unsaved
  <2>5. QED
    BY <2>1, <2>4
<1>9. QED
  BY <1>2, <1>3, <1>6, <1>7, <1>8, TickStepKeeps

\* So does one that changes nothing that the others go by.
LEMMA NoteAloneKeeps ==
    ASSUME PhaseInv, NEW t \in Ticks, tick[t] # NoTick, NEW k \in Keys, AtHand(t, k),
           NEW task \in PhaseTasks, Note(t, k, task),
           task.task = phaseFile[k].task, task.kicked = phaseFile[k].kicked,
           task.state \in {phaseFile[k].state, "parked", "pr_open", "failed"},
           UNCHANGED <<advance, phaseFile, bottega, overlapped, interrupted, untested>>,
           trouble' \in 0..MaxTrouble
    PROVE  PhaseInv'
<1>1. PhaseTypes /\ tick[t].save = NoSave
  BY AtHandIsAhead DEF PhaseInv
<1>2. Kept(bottega, bottega')
  BY DEF Kept
<1>3. TaskSound(bottega', k, task)
  BY DEF PhaseInv, FilesAreSound, FileSound, TaskSound
<1>4. ASSUME ~overlapped PROVE Checked(bottega') /\ ~untested'
  BY <1>4 DEF PhaseInv, InTurn
<1>5. ASSUME ~overlapped, ~interrupted
      PROVE  /\ OneEach(bottega') /\ TaskCurrent(bottega', k, task)
             /\ \A j \in Keys : j # k => TaskCurrent(bottega', j, phaseFile[j])
  <2>1. FileCurrent(bottega, phaseFile)
    BY <1>1, <1>5, FileInHand
  <2>2. TaskCurrent(bottega', k, task)
    BY <2>1 DEF FileCurrent, TaskCurrent
  <2>3. QED
    BY <1>5, <2>1, <2>2 DEF PhaseInv, Uncut, FileCurrent
<1>6. bottega' \in Seq(BottegaTasks) /\ Ordered(bottega') /\ untested' \in BOOLEAN
  BY DEF PhaseInv, PhaseTypes
<1>7. QED
  BY <1>2, <1>3, <1>4, <1>5, <1>6, NoteKeeps

\* What parks a task.
LEMMA ParkKeeps ==
    ASSUME PhaseInv, NEW t \in Ticks, tick[t] # NoTick, NEW k \in Keys, AtHand(t, k),
           Park(t, k),
           UNCHANGED <<advance, phaseFile, bottega, overlapped, interrupted, untested>>,
           trouble' \in 0..MaxTrouble
    PROVE  PhaseInv'
<1> DEFINE task == [phaseFile[k] EXCEPT !.state = "parked"]
<1>1. phaseFile[k] \in PhaseTasks
  BY DEF PhaseInv, PhaseTypes, PhaseFiles
<1>2. /\ task \in PhaseTasks /\ task.task = phaseFile[k].task
      /\ task.kicked = phaseFile[k].kicked /\ task.state = "parked"
  BY <1>1 DEF PhaseTasks
<1>3. Note(t, k, task)
  BY DEF Park
<1> HIDE DEF task
<1>4. QED
  BY <1>2, <1>3, NoteAloneKeeps

\* A key that is passed over.
LEMMA SkipKeeps ==
    ASSUME PhaseInv, NEW t \in Ticks, tick[t] # NoTick, NEW k \in Keys, AtHand(t, k),
           Skip(t, k), tick[t].at \in {"reconcile", "launch"},
           UNCHANGED <<advance, phaseFile, bottega, overlapped, interrupted, untested,
                       trouble>>
    PROVE  PhaseInv'
<1>1. PhaseTypes
  BY DEF PhaseInv
<1>2. PICK new \in TickStates :
         /\ tick' = [tick EXCEPT ![t] = new]
         /\ new.at = tick[t].at /\ new.seen = tick[t].seen
         /\ new.todo = tick[t].todo \ {k} /\ new.save = tick[t].save
  BY <1>1, SkipForm
<1>3. tick[t].save = NoSave /\ tick[t] \in TickStates
  BY <1>1, AtHandIsAhead
<1>4. new # NoTick /\ ~Unsaved(new)
  BY <1>2, <1>3 DEF Unsaved, TickStates, NoTick
<1>5. TickSound(bottega', new)
  BY <1>2, <1>4 DEF PhaseInv, FilesAreSound, TickSound
<1>6. TickInTurn(bottega', new, phaseFile)
  BY <1>2, <1>4 DEF TickInTurn
<1>7. ASSUME ~overlapped, ~interrupted
      PROVE  FileCurrent(bottega', View(new, phaseFile)) /\ TickCurrent(new, phaseFile)
  BY <1>2, <1>3, <1>4, <1>7, FileInHand
     DEF TickCurrent, View, Unsaved, FileCurrent, TaskCurrent
<1>8. /\ bottega' \in Seq(BottegaTasks) /\ Ordered(bottega') /\ untested' \in BOOLEAN
      /\ trouble' \in 0..MaxTrouble /\ Kept(bottega, bottega')
  BY DEF PhaseInv, PhaseTypes, Kept
<1>9. ~overlapped => Checked(bottega') /\ ~untested'
  BY DEF PhaseInv, InTurn
<1>10. ~overlapped /\ ~interrupted => OneEach(bottega')
  BY DEF PhaseInv, Uncut
<1>11. QED
  BY <1>2, <1>3, <1>5, <1>6, <1>7, <1>8, <1>9, <1>10, TickStepKeeps

\* A tick that ends with nothing to save.
LEMMA TickEndKeeps ==
    ASSUME PhaseInv, NEW t \in Ticks, tick[t] # NoTick, tick[t].save = NoSave,
           tick' = [tick EXCEPT ![t] = NoTick],
           UNCHANGED <<advance, phaseFile, bottega, overlapped, interrupted, untested>>,
           trouble' \in 0..MaxTrouble
    PROVE  PhaseInv'
<1>1. /\ TickSound(bottega', NoTick) /\ TickInTurn(bottega', NoTick, phaseFile)
      /\ TickCurrent(NoTick, phaseFile) /\ View(NoTick, phaseFile) = phaseFile
  BY DEF TickSound, Unsaved, TickInTurn, TickCurrent, View
<1>2. /\ bottega' \in Seq(BottegaTasks) /\ Ordered(bottega') /\ untested' \in BOOLEAN
      /\ Kept(bottega, bottega')
  BY DEF PhaseInv, PhaseTypes, Kept
<1>3. ~overlapped => Checked(bottega') /\ ~untested'
  BY DEF PhaseInv, InTurn
<1>4. ~overlapped /\ ~interrupted => OneEach(bottega') /\ FileCurrent(bottega', phaseFile)
  BY FileInHand DEF PhaseInv, Uncut
<1>5. QED
  BY <1>1, <1>2, <1>3, <1>4, TickStepKeeps

-----------------------------------------------------------------------------
(* What changes in Bottega.                                                *)

\* A change of tasks that adds none, renames none and unmerges none.
Same(b, c) == DOMAIN c = DOMAIN b /\ Kept(b, c)

\* The record of a task is current as long as the task is what it was.
LEMMA FileStaysCurrent ==
    ASSUME NEW b \in Seq(BottegaTasks), NEW c \in Seq(BottegaTasks), Same(b, c),
           NEW k \in Keys, NEW task \in PhaseTasks,
           TaskSound(b, k, task), TaskCurrent(b, k, task),
           advance = "auto" /\ task.task # 0 /\ ~task.kicked =>
              c[task.task].runs = b[task.task].runs
    PROVE  TaskCurrent(c, k, task)
  BY DEF Same, Kept, TaskSound, TaskCurrent

\* A change of one task leaves the others as they were.
LEMMA OneTask ==
    ASSUME NEW id \in DOMAIN bottega, NEW new \in BottegaTasks, bottega \in Seq(BottegaTasks),
           new.key = bottega[id].key, bottega[id].merged => new.merged,
           bottega' = [bottega EXCEPT ![id] = new]
    PROVE  /\ bottega' \in Seq(BottegaTasks) /\ Same(bottega, bottega')
           /\ bottega'[id] = new /\ \A i \in DOMAIN bottega : i # id => bottega'[i] = bottega[i]
<1>1. id \in 1..Len(bottega) /\ DOMAIN bottega = 1..Len(bottega)
  OBVIOUS
<1>2. /\ bottega' \in Seq(BottegaTasks) /\ Len(bottega') = Len(bottega)
      /\ \A i \in 1..Len(bottega) : bottega'[i] = IF i = id THEN new ELSE bottega[i]
  BY <1>1, ExceptSeq
<1>3. DOMAIN bottega' = 1..Len(bottega)
  BY <1>2
<1>4. QED
  BY <1>1, <1>2, <1>3 DEF Same, Kept

\* What agents, checks and the user do keeps the invariant: what has passed its
\* checks has passed them for good, and where nobody is asked nobody else runs
\* an implementation.
LEMMA OutsideKeeps ==
    ASSUME PhaseInv,
           UNCHANGED <<advance, phaseFile, tick, overlapped, interrupted, untested, trouble>>,
           bottega' \in Seq(BottegaTasks), Same(bottega, bottega'),
           Checked(bottega) =>
              /\ Checked(bottega')
              /\ \A i \in DOMAIN bottega : bottega[i].ci = "pass" => bottega'[i].ci = "pass",
           advance = "auto" => \A i \in DOMAIN bottega : bottega'[i].runs = bottega[i].runs
    PROVE  PhaseInv'
<1>1. PhaseTypes'
  BY DEF PhaseInv, PhaseTypes
<1>2. FilesAreSound' /\ Ordered(bottega')
  BY FileStaysSound, StaysOrdered
     DEF PhaseInv, PhaseTypes, FilesAreSound, TickSound, Same
<1>3. ASSUME ~overlapped PROVE InTurn'
  <2>1. ASSUME NEW t \in Ticks PROVE TickInTurn(bottega', tick[t], phaseFile)
    <3>1. ASSUME tick[t] # NoTick, tick[t].at \in {"push", "merge"}
          PROVE  /\ Min(tick[t].todo) \in Keys
                 /\ Passed(bottega', View(tick[t], phaseFile)[Min(tick[t].todo)].task)
      <4> DEFINE k == Min(tick[t].todo)
                 file == View(tick[t], phaseFile)
      <4>1. k \in Keys /\ Passed(bottega, file[k].task)
        BY <1>3, <3>1 DEF PhaseInv, InTurn, TickInTurn
      <4>2. FileSound(bottega, file)
        BY DEF PhaseInv, FilesAreSound, TickSound, View, Unsaved
      <4>3. file[k].task \in DOMAIN bottega
        BY <4>1, <4>2 DEF PhaseInv, PhaseTypes, FileSound, TaskSound, Passed
      <4>4. QED
        BY <1>3, <4>1, <4>3 DEF PhaseInv, InTurn, Passed
    <3>2. QED
      BY <3>1 DEF TickInTurn
  <2>2. QED
    BY <1>3, <2>1 DEF PhaseInv, InTurn
<1>4. ASSUME ~overlapped, ~interrupted PROVE Uncut'
  <2>1. ASSUME NEW file \in PhaseFiles, FileSound(bottega, file), FileCurrent(bottega, file)
        PROVE  FileCurrent(bottega', file)
    BY <2>1, FileStaysCurrent
       DEF PhaseInv, PhaseTypes, PhaseFiles, FileSound, TaskSound, FileCurrent
  <2>2. OneEach(bottega')
    BY <1>4 DEF PhaseInv, Uncut, OneEach, Same, Kept
  <2>3. \A t \in Ticks : Unsaved(tick[t]) => tick[t].save \in PhaseFiles
    BY DEF PhaseInv, PhaseTypes, TickStates, Unsaved
  <2>4. (\A t \in Ticks : ~Unsaved(tick[t])) => FileCurrent(bottega', phaseFile)
    BY <1>4, <2>1 DEF PhaseInv, PhaseTypes, FilesAreSound, Uncut
  <2>5. \A t \in Ticks : Unsaved(tick[t]) => FileCurrent(bottega', tick[t].save)
    BY <1>4, <2>1, <2>3 DEF PhaseInv, FilesAreSound, TickSound, Uncut
  <2>6. \A t \in Ticks : TickCurrent(tick[t], phaseFile)
    BY <1>4 DEF PhaseInv, Uncut
  <2>7. QED
    BY <2>2, <2>4, <2>5, <2>6
       DEF Uncut, OneEach, FileCurrent, TaskCurrent
<1>5. QED
  BY <1>1, <1>2, <1>3, <1>4 DEF PhaseInv, Ordered, OnMain

\* Agents go on, checks end.
LEMMA WorksKeeps ==
    ASSUME PhaseInv, NEW id \in DOMAIN bottega, Works(id) \/ ChecksEnd(id)
    PROVE  PhaseInv'
<1>1. bottega \in Seq(BottegaTasks) /\ bottega[id] \in BottegaTasks
  BY DEF PhaseInv, PhaseTypes
<1>2. PICK new \in BottegaTasks :
         /\ bottega' = [bottega EXCEPT ![id] = new]
         /\ new.key = bottega[id].key /\ new.merged = bottega[id].merged
         /\ new.runs = bottega[id].runs
         /\ (bottega[id].ci # "none" => bottega[id].run = "pr") =>
               /\ new.ci # "none" => new.run = "pr"
               /\ bottega[id].ci = "pass" => new.ci = "pass"
  <2>1. CASE Works(id) /\ bottega[id].run = "planning"
    <3> DEFINE new == [bottega[id] EXCEPT !.run = "planned"]
    <3>1. new \in BottegaTasks /\ bottega' = [bottega EXCEPT ![id] = new]
      BY <1>1, <2>1 DEF Works, BottegaTasks
    <3>2. QED
      BY <1>1, <2>1, <3>1 DEF BottegaTasks
  <2>2. CASE bottega[id].run \in {"implementing", "yolo"}
             /\ bottega' = [bottega EXCEPT ![id].run = "blocked"]
    <3> DEFINE new == [bottega[id] EXCEPT !.run = "blocked"]
    <3>1. new \in BottegaTasks /\ bottega' = [bottega EXCEPT ![id] = new]
      BY <1>1, <2>2 DEF BottegaTasks
    <3>2. QED
      BY <1>1, <2>2, <3>1 DEF BottegaTasks
  <2>3. CASE bottega[id].run \in {"implementing", "yolo"}
             /\ bottega' = [bottega EXCEPT ![id].run = "pr", ![id].ci = "pending"]
    <3> DEFINE new == [bottega[id] EXCEPT !.run = "pr", !.ci = "pending"]
    <3>1. new \in BottegaTasks /\ bottega' = [bottega EXCEPT ![id] = new]
      BY <1>1, <2>3 DEF BottegaTasks
    <3>2. QED
      BY <1>1, <2>3, <3>1 DEF BottegaTasks
  <2>4. CASE ChecksEnd(id)
    <3>1. PICK result \in {"pass", "fail"} :
             bottega[id].ci = "pending" /\ bottega' = [bottega EXCEPT ![id].ci = result]
      BY <2>4 DEF ChecksEnd
    <3> DEFINE new == [bottega[id] EXCEPT !.ci = result]
    <3>2. new \in BottegaTasks /\ bottega' = [bottega EXCEPT ![id] = new]
      BY <1>1, <3>1 DEF BottegaTasks
    <3>3. QED
      BY <1>1, <3>1, <3>2 DEF BottegaTasks
  <2>5. QED
    BY <2>1, <2>2, <2>3, <2>4 DEF Works
<1>3. /\ bottega' \in Seq(BottegaTasks) /\ Same(bottega, bottega')
      /\ bottega'[id] = new /\ \A i \in DOMAIN bottega : i # id => bottega'[i] = bottega[i]
  BY <1>1, <1>2, OneTask
<1>4. Checked(bottega) =>
         /\ Checked(bottega')
         /\ \A i \in DOMAIN bottega : bottega[i].ci = "pass" => bottega'[i].ci = "pass"
  BY <1>2, <1>3 DEF Checked, Same
<1>5. \A i \in DOMAIN bottega : bottega'[i].runs = bottega[i].runs
  BY <1>2, <1>3
<1>6. UNCHANGED <<advance, phaseFile, tick, overlapped, interrupted, untested, trouble>>
  BY DEF Works, ChecksEnd
<1>7. QED
  BY <1>3, <1>4, <1>5, <1>6, OutsideKeeps

\* A merge: one task is merged, and the others may be left behind.
LEMMA MergedAtForm ==
    ASSUME PhaseInv, NEW id \in DOMAIN bottega, bottega' = MergedAt(id)
    PROVE  /\ bottega' \in Seq(BottegaTasks) /\ Same(bottega, bottega')
           /\ bottega'[id].merged
           /\ \A i \in DOMAIN bottega :
                 /\ bottega'[i].ci = bottega[i].ci /\ bottega'[i].run = bottega[i].run
                 /\ bottega'[i].runs = bottega[i].runs
<1>1. /\ bottega \in Seq(BottegaTasks) /\ DOMAIN bottega = 1..Len(bottega)
      /\ Len(bottega) \in Nat
      /\ \A i \in DOMAIN bottega : bottega[i] \in BottegaTasks
  BY DEF PhaseInv, PhaseTypes
<1> DEFINE new(i) == IF i = id THEN [bottega[i] EXCEPT !.merged = TRUE]
                     ELSE [bottega[i] EXCEPT !.behind = @ \/ bottega[i].run = "pr"]
<1>2. ASSUME NEW i \in DOMAIN bottega
      PROVE  /\ new(i) \in BottegaTasks /\ new(i).key = bottega[i].key
             /\ new(i).ci = bottega[i].ci /\ new(i).run = bottega[i].run
             /\ new(i).runs = bottega[i].runs /\ (bottega[i].merged => new(i).merged)
             /\ i = id => new(i).merged
  <2>1. bottega[i] \in BottegaTasks
    BY <1>1
  <2>2. CASE i = id
    BY <2>1, <2>2 DEF BottegaTasks
  <2>3. CASE i # id
    <3>1. (bottega[i].behind \/ bottega[i].run = "pr") \in BOOLEAN
      OBVIOUS
    <3>2. QED
      BY <2>1, <2>3, <3>1 DEF BottegaTasks
  <2>4. QED
    BY <2>2, <2>3
<1>3. bottega' = [i \in 1..Len(bottega) |-> new(i)]
  BY <1>1 DEF MergedAt
<1> HIDE DEF new
<1>4. bottega' \in Seq(BottegaTasks) /\ DOMAIN bottega' = DOMAIN bottega
  BY <1>1, <1>2, <1>3
<1>5. \A i \in DOMAIN bottega : bottega'[i] = new(i)
  BY <1>1, <1>3
<1>6. QED
  BY <1>2, <1>4, <1>5 DEF Same, Kept

\* What is left to the user.
LEMMA UserStepsKeeps ==
    ASSUME PhaseInv, NEW id \in DOMAIN bottega, UserSteps(id)
    PROVE  PhaseInv'
<1>1. bottega \in Seq(BottegaTasks) /\ bottega[id] \in BottegaTasks
  BY DEF PhaseInv, PhaseTypes
<1>2. UNCHANGED <<advance, phaseFile, tick, overlapped, interrupted, untested, trouble>>
      /\ advance # "auto"
  BY DEF UserSteps
<1>3. CASE bottega[id].run = "planned"
           /\ bottega' = [bottega EXCEPT ![id].run = "implementing", ![id].runs = @ + 1]
  <2> DEFINE new == [bottega[id] EXCEPT !.run = "implementing", !.runs = @ + 1]
  <2>1. new \in BottegaTasks /\ bottega' = [bottega EXCEPT ![id] = new]
    <3>1. bottega[id].runs + 1 \in Nat
      BY <1>1 DEF BottegaTasks
    <3>2. QED
      BY <1>1, <1>3, <3>1 DEF BottegaTasks
  <2>2. new.key = bottega[id].key /\ new.merged = bottega[id].merged /\ new.ci = bottega[id].ci
    BY <1>1 DEF BottegaTasks
  <2> HIDE DEF new
  <2>3. /\ bottega' \in Seq(BottegaTasks) /\ Same(bottega, bottega')
        /\ bottega'[id] = new /\ \A i \in DOMAIN bottega : i # id => bottega'[i] = bottega[i]
    BY <1>1, <2>1, <2>2, OneTask
  <2>4. Checked(bottega) =>
           /\ Checked(bottega')
           /\ \A i \in DOMAIN bottega : bottega[i].ci = "pass" => bottega'[i].ci = "pass"
    BY <1>3, <2>2, <2>3 DEF Checked, Same
  <2>5. QED
    BY <1>2, <2>3, <2>4, OutsideKeeps
<1>4. CASE bottega' = MergedAt(id)
  <2>1. Checked(bottega) =>
           /\ Checked(bottega')
           /\ \A i \in DOMAIN bottega : bottega[i].ci = "pass" => bottega'[i].ci = "pass"
    BY <1>4, MergedAtForm DEF Checked, Same
  <2>2. QED
    BY <1>2, <1>4, <2>1, MergedAtForm, OutsideKeeps
<1>5. QED
  BY <1>3, <1>4 DEF UserSteps

-----------------------------------------------------------------------------
(* The course of a tick.                                                   *)

\* A tick that starts sees the file as it is; if another is at work, they overlap.
LEMMA StartTickKeeps ==
    ASSUME PhaseInv, NEW t \in Ticks, StartTick(t)
    PROVE  PhaseInv'
<1> DEFINE new == [at |-> "reconcile", seen |-> phaseFile, todo |-> Keys, save |-> NoSave]
<1>1. new \in TickStates /\ new # NoTick /\ ~Unsaved(new)
  BY DEF PhaseInv, PhaseTypes, TickStates, Unsaved, NoTick
<1>2. tick'[t] = new /\ \A u \in Ticks : u # t => tick'[u] = tick[u]
  BY DEF PhaseInv, PhaseTypes, StartTick
<1>3. new.at = "reconcile" /\ new.seen = phaseFile /\ new.save = NoSave
  OBVIOUS
<1>4. UNCHANGED <<advance, phaseFile, bottega, interrupted, untested>>
  BY DEF StartTick
<1>5. PhaseTypes'
  <2>1. tick' \in [Ticks -> TickStates \cup {NoTick}]
    BY <1>1 DEF PhaseInv, PhaseTypes, StartTick
  <2>2. trouble' \in 0..MaxTrouble
    BY PhaseAssumption DEF PhaseInv, PhaseTypes, StartTick, Trouble
  <2>3. overlapped' \in BOOLEAN
    BY DEF PhaseInv, PhaseTypes, StartTick
  <2>4. QED
    BY <1>4, <2>1, <2>2, <2>3 DEF PhaseInv, PhaseTypes
<1> HIDE DEF new
<1>6. FilesAreSound' /\ Ordered(bottega)'
  <2>1. TickSound(bottega, new)
    BY <1>1, <1>3 DEF PhaseInv, FilesAreSound, TickSound
  <2>2. \A u \in Ticks : TickSound(bottega, tick'[u])
    BY <1>2, <2>1 DEF PhaseInv, FilesAreSound
  <2>3. QED
    BY <1>4, <2>2 DEF PhaseInv, FilesAreSound, TickSound, FileSound, TaskSound, Ordered,
                      OnMain
<1>7. ASSUME ~overlapped' PROVE ~overlapped /\ \A u \in Ticks : tick[u] = NoTick
  BY <1>7 DEF StartTick, PhaseInv, PhaseTypes
<1>8. ASSUME ~overlapped' PROVE InTurn'
  <2>1. \A u \in Ticks : u # t => tick'[u] = NoTick
    BY <1>2, <1>7, <1>8
  <2>2. \A u \in Ticks : TickInTurn(bottega, tick'[u], phaseFile)
    BY <1>2, <1>3, <2>1 DEF TickInTurn
  <2>3. QED
    BY <1>4, <1>7, <1>8, <2>1, <2>2
       DEF PhaseInv, InTurn, TickInTurn, Checked, View, Passed, Unsaved
<1>9. ASSUME ~overlapped', ~interrupted' PROVE Uncut'
  <2>1. /\ \A u \in Ticks : ~Unsaved(tick[u]) /\ ~Unsaved(tick'[u])
        /\ \A u \in Ticks : u # t => tick'[u] = NoTick
    BY <1>1, <1>2, <1>7, <1>9 DEF Unsaved
  <2>2. Uncut
    BY <1>4, <1>7, <1>9 DEF PhaseInv
  <2>3. TickCurrent(new, phaseFile)
    BY <1>1, <1>3 DEF TickCurrent, View
  <2>4. \A u \in Ticks : TickCurrent(tick'[u], phaseFile)
    BY <1>2, <2>1, <2>3 DEF TickCurrent
  <2>5. FileCurrent(bottega, phaseFile) /\ OneEach(bottega)
    BY <2>1, <2>2 DEF Uncut
  <2>6. QED
    BY <1>4, <2>1, <2>4, <2>5
       DEF Uncut, FileCurrent, TaskCurrent, TickCurrent, View, OneEach
<1>10. QED
  BY <1>5, <1>6, <1>8, <1>9 DEF PhaseInv, PhaseTypes

\* What is saved is what the tick had all along.
LEMMA SaveKeeps ==
    ASSUME PhaseInv, NEW t \in Ticks, Save(t)
    PROVE  PhaseInv'
<1> DEFINE new == [tick[t] EXCEPT !.save = NoSave]
<1>1. tick[t] \in TickStates /\ tick[t] # NoTick /\ Unsaved(tick[t])
  BY DEF PhaseInv, PhaseTypes, Save, Unsaved
<1>2. /\ new \in TickStates /\ new.at = tick[t].at /\ new.seen = tick[t].seen
      /\ new.todo = tick[t].todo /\ new.save = NoSave
  BY <1>1 DEF TickStates
<1>3. tick' = [tick EXCEPT ![t] = new]
  BY DEF Save
<1> HIDE DEF new
<1>4. /\ new # NoTick /\ ~Unsaved(new)
      /\ phaseFile' = tick[t].save /\ tick[t].save \in PhaseFiles
      /\ UNCHANGED <<advance, bottega, overlapped, interrupted, untested, trouble>>
  BY <1>1, <1>2 DEF Save, TickStates, NoTick, Unsaved
<1>5. tick'[t] = new /\ \A u \in Ticks : u # t => tick'[u] = tick[u]
  BY <1>3 DEF PhaseInv, PhaseTypes
<1>6. PhaseTypes'
  BY <1>2, <1>3, <1>4 DEF PhaseInv, PhaseTypes
<1>7. FilesAreSound' /\ Ordered(bottega)'
  <2>1. TickSound(bottega, new) /\ FileSound(bottega, phaseFile')
    BY <1>1, <1>2, <1>4 DEF PhaseInv, FilesAreSound, TickSound
  <2>2. \A u \in Ticks : TickSound(bottega, tick'[u])
    BY <1>5, <2>1 DEF PhaseInv, FilesAreSound
  <2>3. QED
    BY <1>4, <2>1, <2>2 DEF PhaseInv, FilesAreSound, TickSound, FileSound, TaskSound,
                            Ordered, OnMain
<1>8. View(new, phaseFile') = View(tick[t], phaseFile)
  BY <1>1, <1>4 DEF View
<1>9. ASSUME ~overlapped PROVE InTurn' /\ \A u \in Ticks : u # t => tick'[u] = NoTick
  <2>1. \A u \in Ticks : u # t => tick'[u] = NoTick
    BY <1>1, <1>5, <1>9 DEF PhaseInv, InTurn
  <2>2. TickInTurn(bottega, new, phaseFile')
    BY <1>1, <1>2, <1>8, <1>9 DEF PhaseInv, InTurn, TickInTurn
  <2>3. \A u \in Ticks : TickInTurn(bottega, tick'[u], phaseFile')
    BY <1>5, <2>1, <2>2 DEF TickInTurn
  <2>4. QED
    BY <1>4, <1>9, <2>1, <2>3
       DEF PhaseInv, InTurn, TickInTurn, Checked, View, Passed, Unsaved
<1>10. ASSUME ~overlapped, ~interrupted PROVE Uncut'
  <2>1. \A u \in Ticks : ~Unsaved(tick'[u])
    BY <1>4, <1>5, <1>9, <1>10 DEF Unsaved
  <2>2. FileCurrent(bottega, phaseFile') /\ OneEach(bottega)
    BY <1>1, <1>4, <1>10 DEF PhaseInv, Uncut
  <2>3. TickCurrent(tick[t], phaseFile)
    BY <1>10 DEF PhaseInv, Uncut
  <2>4. TickCurrent(new, phaseFile')
    BY <1>1, <1>2, <1>4, <2>3 DEF TickCurrent, View
  <2>5. \A u \in Ticks : TickCurrent(tick'[u], phaseFile')
    BY <1>5, <1>9, <1>10, <2>4 DEF TickCurrent
  <2>6. QED
    BY <1>4, <2>1, <2>2, <2>5
       DEF Uncut, FileCurrent, TaskCurrent, TickCurrent, View, OneEach
<1>11. QED
  BY <1>4, <1>6, <1>7, <1>9, <1>10 DEF PhaseInv

\* Every part of a tick begins with the file as it is.
LEMMA NextPartKeeps ==
    ASSUME PhaseInv, NEW t \in Ticks, NextPart(t)
    PROVE  PhaseInv'
<1>1. /\ tick[t] # NoTick /\ tick[t].save = NoSave
      /\ UNCHANGED <<advance, phaseFile, bottega, overlapped, interrupted, untested, trouble>>
      /\ trouble' \in 0..MaxTrouble
  BY DEF NextPart, PhaseInv, PhaseTypes
<1>2. PICK new \in TickStates \cup {NoTick} :
         /\ tick' = [tick EXCEPT ![t] = new]
         /\ new # NoTick => /\ new.at \in {"advance", "launch"}
                            /\ new.seen = phaseFile /\ new.save = NoSave
  <2>1. CASE tick[t].at = "reconcile"
    <3> DEFINE new == [at |-> "advance", seen |-> phaseFile, save |-> NoSave,
                       todo |-> {k \in Keys : phaseFile[k].state = "pr_open"}]
    <3>1. new \in TickStates
      BY DEF PhaseInv, PhaseTypes, TickStates
    <3>2. tick' = [tick EXCEPT ![t] = new]
      BY <2>1 DEF NextPart
    <3>3. new.at = "advance" /\ new.seen = phaseFile /\ new.save = NoSave
      OBVIOUS
    <3> HIDE DEF new
    <3>4. QED
      BY <3>1, <3>2, <3>3
  <2>2. CASE tick[t].at = "advance"
    <3> DEFINE new == [at |-> "launch", seen |-> phaseFile, save |-> NoSave, todo |-> Keys]
    <3>1. new \in TickStates
      BY DEF PhaseInv, PhaseTypes, TickStates
    <3>2. tick' = [tick EXCEPT ![t] = new]
      BY <2>2 DEF NextPart
    <3>3. new.at = "launch" /\ new.seen = phaseFile /\ new.save = NoSave
      OBVIOUS
    <3> HIDE DEF new
    <3>4. QED
      BY <3>1, <3>2, <3>3
  <2>3. CASE tick[t].at \notin {"reconcile", "advance"}
    BY <2>3 DEF NextPart
  <2>4. QED
    BY <2>1, <2>2, <2>3
<1>3. TickSound(bottega', new)
  BY <1>1, <1>2 DEF PhaseInv, FilesAreSound, TickSound, Unsaved
<1>4. TickInTurn(bottega', new, phaseFile)
  BY <1>2 DEF TickInTurn
<1>5. View(new, phaseFile) = phaseFile
  BY <1>2 DEF View, Unsaved
<1>6. TickCurrent(new, phaseFile)
  BY <1>2, <1>5 DEF TickCurrent
<1>7. /\ bottega' \in Seq(BottegaTasks) /\ Ordered(bottega') /\ untested' \in BOOLEAN
      /\ Kept(bottega, bottega')
  BY <1>1 DEF PhaseInv, PhaseTypes, Kept
<1>8. ~overlapped => Checked(bottega') /\ ~untested'
  BY <1>1 DEF PhaseInv, InTurn
<1>9. ~overlapped /\ ~interrupted => OneEach(bottega') /\ FileCurrent(bottega', phaseFile)
  BY <1>1, FileInHand DEF PhaseInv, Uncut
<1>10. QED
  BY <1>1, <1>2, <1>3, <1>4, <1>5, <1>6, <1>7, <1>8, <1>9, TickStepKeeps

\* A tick may die at any time.
LEMMA TickDiesKeeps ==
    ASSUME PhaseInv, NEW t \in Ticks, TickDies(t)
    PROVE  PhaseInv'
<1>1. trouble' \in 0..MaxTrouble
  BY PhaseAssumption DEF TickDies, Trouble, PhaseInv, PhaseTypes
<1>2. CASE tick[t].save = NoSave
  <2>1. interrupted' = interrupted
    BY <1>2 DEF TickDies, PhaseInv, PhaseTypes
  <2>2. QED
    BY <1>1, <1>2, <2>1, TickEndKeeps DEF TickDies
<1>3. CASE tick[t].save # NoSave
  <2>1. /\ interrupted' /\ tick' = [tick EXCEPT ![t] = NoTick]
        /\ UNCHANGED <<advance, phaseFile, bottega, overlapped, untested>>
    BY <1>3 DEF TickDies
  <2>2. tick'[t] = NoTick /\ \A u \in Ticks : u # t => tick'[u] = tick[u]
    BY <2>1 DEF PhaseInv, PhaseTypes
  <2>3. interrupted' = TRUE
    BY <1>3 DEF TickDies
  <2>4. PhaseTypes'
    BY <1>1, <2>1, <2>3 DEF PhaseInv, PhaseTypes
  <2>5. FilesAreSound' /\ Ordered(bottega)'
    <3>1. \A u \in Ticks : TickSound(bottega, tick'[u])
      BY <2>2 DEF PhaseInv, FilesAreSound, TickSound, Unsaved
    <3>2. QED
      BY <2>1, <3>1
         DEF PhaseInv, FilesAreSound, TickSound, FileSound, TaskSound, Ordered,
                        OnMain
  <2>6. ASSUME ~overlapped PROVE InTurn'
    <3>1. \A u \in Ticks : TickInTurn(bottega, tick'[u], phaseFile)
      BY <2>2, <2>6 DEF PhaseInv, InTurn, TickInTurn
    <3>2. \A u, v \in Ticks : tick'[u] # NoTick /\ tick'[v] # NoTick => u = v
      BY <2>2, <2>6 DEF PhaseInv, InTurn
    <3>3. QED
      BY <2>1, <2>6, <3>1, <3>2
         DEF PhaseInv, InTurn, TickInTurn, Checked, View, Passed, Unsaved
  <2>7. QED
    BY <2>1, <2>4, <2>5, <2>6 DEF PhaseInv
<1>4. QED
  BY <1>2, <1>3

\* A task that Bottega is done with is parked or has its pull request; one that
\* waits for its implementation is kicked, once.
LEMMA ReconcileKeeps ==
    ASSUME PhaseInv, NEW t \in Ticks, tick[t] # NoTick, NEW k \in Keys, Reconcile(t, k)
    PROVE  PhaseInv'
<1> DEFINE mine == tick[t].seen[k]
           run == IF mine.task = 0 THEN "none" ELSE bottega[mine.task].run
<1>1. /\ AtHand(t, k) /\ tick[t].at = "reconcile"
      /\ UNCHANGED <<advance, phaseFile, overlapped, interrupted, untested>>
      /\ tick[t] \in TickStates /\ tick[t].save = NoSave /\ k \in tick[t].todo
      /\ phaseFile[k] \in PhaseTasks /\ mine \in PhaseTasks
  BY AtHandIsAhead DEF Reconcile, PhaseInv, PhaseTypes, PhaseFiles, TickStates
<1>2. CASE Skip(t, k) /\ UNCHANGED <<bottega, trouble>>
  BY <1>1, <1>2, SkipKeeps
<1>3. CASE Trouble /\ tick' = [tick EXCEPT ![t] = NoTick] /\ UNCHANGED bottega
  <2>1. trouble' \in 0..MaxTrouble
    BY <1>3, PhaseAssumption DEF Trouble, PhaseInv, PhaseTypes
  <2>2. QED
    BY <1>1, <1>3, <2>1, TickEndKeeps
<1>4. CASE Park(t, k) /\ UNCHANGED <<bottega, trouble>>
  BY <1>1, <1>4, ParkKeeps DEF PhaseInv, PhaseTypes
<1>5. ASSUME NEW known \in BOOLEAN,
             Note(t, k, [phaseFile[k] EXCEPT !.state = "pr_open", !.pr = known]),
             UNCHANGED trouble \/ Trouble, UNCHANGED bottega
      PROVE  PhaseInv'
  <2> DEFINE task == [phaseFile[k] EXCEPT !.state = "pr_open", !.pr = known]
  <2>1. /\ task \in PhaseTasks /\ task.task = phaseFile[k].task
        /\ task.kicked = phaseFile[k].kicked /\ task.state = "pr_open"
    BY <1>1 DEF PhaseTasks
  <2>2. Note(t, k, task)
    BY <1>5
  <2>3. trouble' \in 0..MaxTrouble
    BY <1>5, PhaseAssumption DEF Trouble, PhaseInv, PhaseTypes
  <2> HIDE DEF task
  <2>4. QED
    BY <1>1, <1>5, <2>1, <2>2, <2>3, NoteAloneKeeps
<1>6. CASE /\ mine.state = "running" /\ run \in {"planned", "implementing"}
           /\ advance = "auto" /\ ~phaseFile[k].kicked
           /\ bottega' = [bottega EXCEPT ![mine.task].run = "implementing",
                                         ![mine.task].runs = @ + 1]
           /\ Note(t, k, [phaseFile[k] EXCEPT !.kicked = TRUE])
           /\ UNCHANGED trouble
  <2> DEFINE id == mine.task
             new == [bottega[id] EXCEPT !.run = "implementing", !.runs = @ + 1]
             task == [phaseFile[k] EXCEPT !.kicked = TRUE]
  <2>1. /\ bottega \in Seq(BottegaTasks) /\ id \in DOMAIN bottega
        /\ bottega[id] \in BottegaTasks /\ bottega[id].key = k
    <3>1. FileSound(bottega, tick[t].seen) /\ id # 0
      BY <1>6 DEF PhaseInv, FilesAreSound, TickSound
    <3>2. QED
      BY <3>1 DEF PhaseInv, PhaseTypes, FileSound, TaskSound
  <2>2. /\ new \in BottegaTasks /\ new.key = bottega[id].key
        /\ new.merged = bottega[id].merged /\ new.ci = bottega[id].ci
        /\ new.runs = bottega[id].runs + 1
    <3>1. bottega[id].runs + 1 \in Nat
      BY <2>1 DEF BottegaTasks
    <3>2. QED
      BY <2>1, <3>1 DEF BottegaTasks
  <2>3. bottega' = [bottega EXCEPT ![id] = new]
    BY <1>6, <2>1 DEF PhaseInv, PhaseTypes, BottegaTasks
  <2>4. /\ task \in PhaseTasks /\ task.task = phaseFile[k].task /\ task.kicked
        /\ task.state = phaseFile[k].state
    BY <1>1 DEF PhaseTasks
  <2>5. Note(t, k, task)
    BY <1>6
  <2>6. bottega[id].run # "pr"
    BY <1>6, <2>1
  <2>7. advance = "auto" /\ ~phaseFile[k].kicked
    BY <1>6
  <2> HIDE DEF new, task, id
  <2>8. /\ bottega' \in Seq(BottegaTasks) /\ Same(bottega, bottega')
        /\ bottega'[id] = new /\ \A i \in DOMAIN bottega : i # id => bottega'[i] = bottega[i]
    BY <2>1, <2>2, <2>3, OneTask
  <2>9. Kept(bottega, bottega') /\ Ordered(bottega')
    BY <2>1, <2>8, StaysOrdered DEF PhaseInv, Same
  <2>10. TaskSound(bottega', k, task)
    <3>1. FileSound(bottega', phaseFile)
      BY <2>1, <2>8, <2>9, FileStaysSound DEF PhaseInv, FilesAreSound
    <3>2. QED
      BY <2>4, <3>1 DEF FileSound, TaskSound
  <2>11. ASSUME ~overlapped PROVE Checked(bottega') /\ ~untested'
    BY <1>1, <2>2, <2>6, <2>8, <2>11 DEF PhaseInv, InTurn, Checked, Same
  <2>12. ASSUME ~overlapped, ~interrupted
         PROVE  /\ OneEach(bottega') /\ TaskCurrent(bottega', k, task)
                /\ \A j \in Keys : j # k => TaskCurrent(bottega', j, phaseFile[j])
    <3>1. FileCurrent(bottega, phaseFile) /\ TickCurrent(tick[t], phaseFile)
      BY <1>1, <2>12, FileInHand
    <3>2. phaseFile[k].task = id
      BY <1>1, <3>1 DEF TickCurrent, id
    <3>3. bottega[id].runs = 0
      BY <2>1, <2>7, <3>1, <3>2 DEF FileCurrent, TaskCurrent, PhaseInv, PhaseTypes
    <3>4. OneEach(bottega')
      BY <2>2, <2>8, <2>12, <3>3 DEF PhaseInv, Uncut, OneEach, Same, Kept
    <3>5. TaskCurrent(bottega', k, task)
      BY <2>4, <2>8, <3>1 DEF FileCurrent, TaskCurrent, Same, Kept
    <3>6. ASSUME NEW j \in Keys, j # k PROVE TaskCurrent(bottega', j, phaseFile[j])
      <4>1. TaskSound(bottega, j, phaseFile[j]) /\ TaskCurrent(bottega, j, phaseFile[j])
        BY <3>1 DEF PhaseInv, FilesAreSound, FileSound, FileCurrent
      <4>2. phaseFile[j] \in PhaseTasks
        BY DEF PhaseInv, PhaseTypes, PhaseFiles
      <4>3. phaseFile[j].task # 0 => phaseFile[j].task \in DOMAIN bottega /\ phaseFile[j].task # id
        BY <2>1, <3>6, <4>1 DEF TaskSound
      <4>4. QED
        BY <2>1, <2>8, <4>1, <4>2, <4>3, FileStaysCurrent
    <3>7. QED
      BY <3>4, <3>5, <3>6
  <2>13. untested' \in BOOLEAN /\ trouble' \in 0..MaxTrouble
    BY <1>1, <1>6 DEF PhaseInv, PhaseTypes
  <2>14. QED
    BY <1>1, <2>4, <2>5, <2>8, <2>9, <2>10, <2>11, <2>12, <2>13, NoteKeeps
<1>7. QED
  BY <1>2, <1>3, <1>4, <1>5, <1>6 DEF Reconcile

\* What the gate says of a task is kept until it is saved: a branch that it finds
\* behind, or green, is the one that is pushed, or merged.
LEMMA GateThenKeeps ==
    ASSUME PhaseInv, NEW t \in Ticks, tick[t] # NoTick, NEW k \in Keys, AtHand(t, k),
           tick[t].at = "advance", NEW task \in PhaseTasks, NEW what \in {"push", "merge"},
           NoteThen(t, k, task, what),
           task.task = phaseFile[k].task, task.kicked = phaseFile[k].kicked,
           task.state = phaseFile[k].state, Passed(bottega, task.task),
           UNCHANGED <<advance, phaseFile, bottega, overlapped, interrupted, untested,
                       trouble>>
    PROVE  PhaseInv'
<1>1. PhaseTypes
  BY DEF PhaseInv
<1>2. PICK new \in TickStates :
         /\ tick' = [tick EXCEPT ![t] = new]
         /\ new.at = what /\ new.seen = tick[t].seen /\ new.todo = tick[t].todo
         /\ new.save = [phaseFile EXCEPT ![k] = task]
  BY <1>1, NoteThenForm
<1>3. tick[t].save = NoSave /\ Min(new.todo) = k
  BY <1>1, <1>2, AtHandIsAhead
<1>4. /\ new # NoTick /\ new.save # NoSave /\ new.save \in PhaseFiles
      /\ new.save[k] = task /\ \A j \in Keys : j # k => new.save[j] = phaseFile[j]
  BY <1>1, <1>2, FileIsToSave DEF PhaseTypes, PhaseFiles, TickStates, NoTick
<1>5. View(new, phaseFile) = new.save
  BY <1>4 DEF View, Unsaved
<1>6. TickSound(bottega', new)
  <2>1. TaskSound(bottega, k, task)
    BY DEF PhaseInv, FilesAreSound, FileSound, TaskSound
  <2>2. FileSound(bottega, new.save) /\ FileSound(bottega, new.seen)
    BY <1>2, <1>4, <2>1 DEF PhaseInv, FilesAreSound, TickSound, FileSound
  <2>3. QED
    BY <2>2 DEF TickSound
<1>7. TickInTurn(bottega', new, phaseFile)
  BY <1>3, <1>4, <1>5 DEF TickInTurn
<1>8. ASSUME ~overlapped, ~interrupted
      PROVE  FileCurrent(bottega', View(new, phaseFile)) /\ TickCurrent(new, phaseFile)
  <2>1. FileCurrent(bottega, phaseFile)
    BY <1>3, <1>8, FileInHand
  <2>2. TaskCurrent(bottega, k, task)
    BY <2>1 DEF FileCurrent, TaskCurrent
  <2>3. FileCurrent(bottega', new.save)
    BY <1>4, <2>1, <2>2 DEF FileCurrent
  <2>4. TickCurrent(new, phaseFile)
    BY <1>2 DEF TickCurrent
  <2>5. QED
    BY <1>5, <2>3, <2>4
<1>9. /\ bottega' \in Seq(BottegaTasks) /\ Ordered(bottega') /\ untested' \in BOOLEAN
      /\ trouble' \in 0..MaxTrouble /\ Kept(bottega, bottega')
  BY DEF PhaseInv, PhaseTypes, Kept
<1>10. ~overlapped => Checked(bottega') /\ ~untested'
  BY DEF PhaseInv, InTurn
<1>11. ~overlapped /\ ~interrupted => OneEach(bottega')
  BY DEF PhaseInv, Uncut
<1>12. QED
  BY <1>2, <1>3, <1>6, <1>7, <1>8, <1>9, <1>10, <1>11, TickStepKeeps

\* The gate of one task: it waits, is parked, or goes on to be pushed or merged.
LEMMA GateKeeps ==
    ASSUME PhaseInv, NEW t \in Ticks, tick[t] # NoTick, NEW k \in Keys, Gate(t, k)
    PROVE  PhaseInv'
<1> DEFINE mine == phaseFile[k]
           its == IF mine.task = 0 THEN Lost ELSE bottega[mine.task]
<1>1. /\ AtHand(t, k) /\ tick[t].at = "advance" /\ mine \in PhaseTasks
      /\ UNCHANGED <<advance, phaseFile, overlapped, interrupted, untested>>
  BY DEF Gate, PhaseInv, PhaseTypes, PhaseFiles
<1>2. UNCHANGED trouble \/ Trouble => trouble' \in 0..MaxTrouble
  BY PhaseAssumption DEF Trouble, PhaseInv, PhaseTypes
<1>3. CASE Note(t, k, RetryNoPr(mine)) /\ UNCHANGED <<bottega, trouble>>
  <2>1. /\ RetryNoPr(mine) \in PhaseTasks
        /\ RetryNoPr(mine).task = mine.task /\ RetryNoPr(mine).kicked = mine.kicked
        /\ RetryNoPr(mine).state \in {mine.state, "parked"}
    <3>1. CASE mine.nopr >= MaxNoPr
      BY <1>1, <3>1 DEF RetryNoPr, PhaseTasks
    <3>2. CASE ~(mine.nopr >= MaxNoPr)
      <4>1. mine.nopr + 1 \in 0..MaxNoPr
        BY <1>1, <3>2, PhaseAssumption DEF PhaseTasks
      <4>2. QED
        BY <1>1, <3>2, <4>1 DEF RetryNoPr, PhaseTasks
    <3>3. QED
      BY <3>1, <3>2
  <2>2. QED
    BY <1>1, <1>2, <1>3, <2>1, NoteAloneKeeps
<1>4. CASE Park(t, k) /\ (UNCHANGED trouble \/ Trouble) /\ UNCHANGED bottega
  BY <1>1, <1>2, <1>4, ParkKeeps
<1>5. ASSUME its.ci = "pass" PROVE Passed(bottega, mine.task)
  BY <1>5 DEF Lost, Passed
<1>6. CASE /\ its.ci = "pass" /\ mine.updates < MaxUpdates
           /\ NoteThen(t, k, [mine EXCEPT !.updates = @ + 1], "push")
           /\ UNCHANGED <<bottega, trouble>>
  <2> DEFINE task == [mine EXCEPT !.updates = @ + 1]
  <2>1. mine.updates + 1 \in 0..MaxUpdates
    BY <1>1, <1>6, PhaseAssumption DEF PhaseTasks
  <2>2. /\ task \in PhaseTasks /\ task.task = mine.task /\ task.kicked = mine.kicked
        /\ task.state = mine.state
    BY <1>1, <2>1 DEF PhaseTasks
  <2>3. NoteThen(t, k, task, "push")
    BY <1>6
  <2> HIDE DEF task
  <2>4. QED
    BY <1>1, <1>5, <1>6, <2>2, <2>3, GateThenKeeps
<1>7. ASSUME its.ci = "pass", UNCHANGED <<bottega, trouble>>,
             \/ Note(t, k, [mine EXCEPT !.updates = 0, !.nopr = 0])
             \/ NoteThen(t, k, [mine EXCEPT !.updates = 0, !.nopr = 0], "merge")
      PROVE  PhaseInv'
  <2> DEFINE task == [mine EXCEPT !.updates = 0, !.nopr = 0]
  <2>1. 0 \in 0..MaxUpdates /\ 0 \in 0..MaxNoPr
    BY PhaseAssumption
  <2>2. /\ task \in PhaseTasks /\ task.task = mine.task /\ task.kicked = mine.kicked
        /\ task.state = mine.state
    BY <1>1, <2>1 DEF PhaseTasks
  <2>3. Note(t, k, task) \/ NoteThen(t, k, task, "merge")
    BY <1>7
  <2> HIDE DEF task
  <2>4. CASE Note(t, k, task)
    BY <1>1, <1>2, <1>7, <2>2, <2>4, NoteAloneKeeps
  <2>5. CASE NoteThen(t, k, task, "merge")
    BY <1>1, <1>5, <1>7, <2>2, <2>5, GateThenKeeps
  <2>6. QED
    BY <2>3, <2>4, <2>5
<1>8. QED
  BY <1>3, <1>4, <1>6, <1>7 DEF Gate

\* A push has the checks of its pull request run anew.
LEMMA PushKeeps ==
    ASSUME PhaseInv, NEW t \in Ticks, tick[t] # NoTick, NEW k \in Keys, Push(t, k)
    PROVE  PhaseInv'
<1> DEFINE id == phaseFile[k].task
<1>1. /\ AtHand(t, k) /\ tick[t].at = "push"
      /\ UNCHANGED <<advance, phaseFile, overlapped, interrupted, untested>>
      /\ tick[t] \in TickStates /\ tick[t].save = NoSave /\ Min(tick[t].todo) = k
  BY AtHandIsAhead DEF Push, PhaseInv
<1>2. UNCHANGED trouble \/ Trouble => trouble' \in 0..MaxTrouble
  BY PhaseAssumption DEF Trouble, PhaseInv, PhaseTypes
<1>3. CASE Park(t, k) /\ (UNCHANGED trouble \/ Trouble) /\ UNCHANGED bottega
  BY <1>1, <1>2, <1>3, ParkKeeps
<1>4. CASE /\ id # 0
           /\ tick' = [tick EXCEPT ![t].at = "advance", ![t].todo = @ \ {k}]
           /\ bottega' = [bottega EXCEPT ![id].behind = FALSE, ![id].ci = "pending"]
           /\ UNCHANGED trouble
  <2> DEFINE new == [tick[t] EXCEPT !.at = "advance", !.todo = @ \ {k}]
             item == [bottega[id] EXCEPT !.behind = FALSE, !.ci = "pending"]
  <2>1. /\ new \in TickStates /\ new.at = "advance" /\ new.seen = tick[t].seen
        /\ new.save = NoSave
    BY <1>1 DEF TickStates
  <2>2. tick' = [tick EXCEPT ![t] = new]
    BY <1>1, <1>4 DEF PhaseInv, PhaseTypes, TickStates
  <2>3. /\ bottega \in Seq(BottegaTasks) /\ id \in DOMAIN bottega
        /\ bottega[id] \in BottegaTasks
    BY <1>4 DEF PhaseInv, PhaseTypes, FilesAreSound, FileSound, TaskSound
  <2>4. /\ item \in BottegaTasks /\ item.key = bottega[id].key /\ item.run = bottega[id].run
        /\ item.merged = bottega[id].merged /\ item.runs = bottega[id].runs
    BY <2>3 DEF BottegaTasks
  <2>5. bottega' = [bottega EXCEPT ![id] = item]
    BY <1>4, <2>3 DEF BottegaTasks
  <2> HIDE DEF new, item, id
  <2>6. /\ bottega' \in Seq(BottegaTasks) /\ Same(bottega, bottega')
        /\ bottega'[id] = item /\ \A i \in DOMAIN bottega : i # id => bottega'[i] = bottega[i]
    BY <2>3, <2>4, <2>5, OneTask
  <2>7. Kept(bottega, bottega') /\ Ordered(bottega')
    BY <2>3, <2>6, StaysOrdered DEF PhaseInv, Same
  <2>8. new # NoTick /\ ~Unsaved(new) /\ View(new, phaseFile) = phaseFile
    BY <2>1 DEF Unsaved, View, NoTick
  <2>9. TickSound(bottega', new)
    BY <2>1, <2>3, <2>6, <2>7, <2>8, FileStaysSound
       DEF PhaseInv, FilesAreSound, TickSound, TickStates
  <2>10. TickInTurn(bottega', new, phaseFile) /\ TickCurrent(new, phaseFile)
    BY <2>1 DEF TickInTurn, TickCurrent
  <2>11. ASSUME ~overlapped PROVE Checked(bottega') /\ ~untested'
    <3>1. TickInTurn(bottega, tick[t], phaseFile) /\ Checked(bottega) /\ ~untested
      BY <2>11 DEF PhaseInv, InTurn
    <3>2. View(tick[t], phaseFile) = phaseFile
      BY <1>1 DEF View, Unsaved
    <3>3. bottega[id].ci = "pass"
      BY <1>1, <3>1, <3>2 DEF TickInTurn, Passed, id
    <3>4. bottega[id].run = "pr"
      BY <2>3, <3>1, <3>3 DEF Checked
    <3>5. QED
      BY <1>1, <2>4, <2>6, <3>1, <3>4 DEF Checked, Same
  <2>12. ASSUME ~overlapped, ~interrupted
         PROVE  OneEach(bottega') /\ FileCurrent(bottega', phaseFile)
    <3>1. FileCurrent(bottega, phaseFile)
      BY <1>1, <2>12, FileInHand
    <3>2. \A i \in DOMAIN bottega : bottega'[i].runs = bottega[i].runs
      BY <2>4, <2>6
    <3>3. OneEach(bottega')
      BY <2>6, <2>12, <3>2 DEF PhaseInv, Uncut, OneEach, Same, Kept
    <3>4. ASSUME NEW j \in Keys PROVE TaskCurrent(bottega', j, phaseFile[j])
      <4>1. TaskSound(bottega, j, phaseFile[j]) /\ TaskCurrent(bottega, j, phaseFile[j])
        BY <3>1 DEF PhaseInv, FilesAreSound, FileSound, FileCurrent
      <4>2. phaseFile[j] \in PhaseTasks
        BY DEF PhaseInv, PhaseTypes, PhaseFiles
      <4>3. phaseFile[j].task # 0 => phaseFile[j].task \in DOMAIN bottega
        BY <2>3, <4>1 DEF TaskSound
      <4>4. QED
        BY <2>3, <2>6, <3>2, <4>1, <4>2, <4>3, FileStaysCurrent
    <3>5. QED
      BY <3>3, <3>4 DEF FileCurrent
  <2>13. untested' \in BOOLEAN /\ trouble' \in 0..MaxTrouble
    BY <1>1, <1>2, <1>4 DEF PhaseInv, PhaseTypes
  <2>14. QED
    BY <1>1, <2>1, <2>2, <2>6, <2>7, <2>8, <2>9, <2>10, <2>11, <2>12, <2>13, TickStepKeeps
<1>5. QED
  BY <1>3, <1>4 DEF Push

\* A merge: what the file calls merged is, and had passed its checks.
LEMMA MergeKeeps ==
    ASSUME PhaseInv, NEW t \in Ticks, tick[t] # NoTick, NEW k \in Keys, Merge(t, k)
    PROVE  PhaseInv'
<1> DEFINE id == phaseFile[k].task
<1>1. /\ AtHand(t, k) /\ tick[t].at = "merge" /\ phaseFile[k] \in PhaseTasks
      /\ UNCHANGED <<advance, phaseFile, overlapped, interrupted>>
      /\ tick[t].save = NoSave /\ Min(tick[t].todo) = k
  BY AtHandIsAhead DEF Merge, PhaseInv, PhaseTypes, PhaseFiles
<1>2. UNCHANGED trouble \/ Trouble => trouble' \in 0..MaxTrouble
  BY PhaseAssumption DEF Trouble, PhaseInv, PhaseTypes
<1>3. CASE Park(t, k) /\ (UNCHANGED trouble \/ Trouble) /\ UNCHANGED <<bottega, untested>>
  BY <1>1, <1>2, <1>3, ParkKeeps
<1>4. ASSUME id # 0, bottega' = MergedAt(id), UNCHANGED trouble \/ Trouble,
             untested' = (untested \/ bottega[id].ci # "pass"),
             NEW place \in {"merged", "parked"},
             Note(t, k, [phaseFile[k] EXCEPT !.state = place])
      PROVE  PhaseInv'
  <2> DEFINE task == [phaseFile[k] EXCEPT !.state = place]
  <2>1. /\ task \in PhaseTasks /\ task.task = id /\ task.kicked = phaseFile[k].kicked
        /\ task.state = place
    BY <1>1 DEF PhaseTasks
  <2>2. Note(t, k, task)
    BY <1>4
  <2>3. /\ bottega \in Seq(BottegaTasks) /\ id \in DOMAIN bottega /\ bottega[id].key = k
    BY <1>4 DEF PhaseInv, PhaseTypes, FilesAreSound, FileSound, TaskSound
  <2> HIDE DEF task
  <2>4. /\ bottega' \in Seq(BottegaTasks) /\ Same(bottega, bottega')
        /\ bottega'[id].merged
        /\ \A i \in DOMAIN bottega :
              /\ bottega'[i].ci = bottega[i].ci /\ bottega'[i].run = bottega[i].run
              /\ bottega'[i].runs = bottega[i].runs
    BY <1>4, <2>3, MergedAtForm
  <2>5. Kept(bottega, bottega') /\ Ordered(bottega')
    BY <2>3, <2>4, StaysOrdered DEF PhaseInv, Same
  <2>6. TaskSound(bottega', k, task)
    <3>1. TaskSound(bottega', k, phaseFile[k])
      BY <2>3, <2>4, <2>5, FileStaysSound DEF PhaseInv, FilesAreSound, FileSound
    <3>2. OnMain(bottega', k)
      BY <2>3, <2>4 DEF OnMain, Same, Kept
    <3>3. QED
      BY <2>1, <3>1, <3>2 DEF TaskSound
  <2>7. ASSUME ~overlapped PROVE Checked(bottega') /\ ~untested'
    <3>1. TickInTurn(bottega, tick[t], phaseFile) /\ Checked(bottega) /\ ~untested
      BY <2>7 DEF PhaseInv, InTurn
    <3>2. View(tick[t], phaseFile) = phaseFile
      BY <1>1 DEF View, Unsaved
    <3>3. bottega[id].ci = "pass"
      BY <1>1, <3>1, <3>2 DEF TickInTurn, Passed
    <3>4. QED
      BY <1>4, <2>4, <3>1, <3>3 DEF Checked, Same
  <2>8. ASSUME ~overlapped, ~interrupted
        PROVE  /\ OneEach(bottega') /\ TaskCurrent(bottega', k, task)
               /\ \A j \in Keys : j # k => TaskCurrent(bottega', j, phaseFile[j])
    <3>1. FileCurrent(bottega, phaseFile)
      BY <1>1, <2>8, FileInHand
    <3>2. OneEach(bottega')
      BY <2>4, <2>8 DEF PhaseInv, Uncut, OneEach, Same, Kept
    <3>3. ASSUME NEW j \in Keys PROVE TaskCurrent(bottega', j, phaseFile[j])
      <4>1. TaskSound(bottega, j, phaseFile[j]) /\ TaskCurrent(bottega, j, phaseFile[j])
        BY <3>1 DEF PhaseInv, FilesAreSound, FileSound, FileCurrent
      <4>2. phaseFile[j] \in PhaseTasks
        BY DEF PhaseInv, PhaseTypes, PhaseFiles
      <4>3. phaseFile[j].task # 0 => phaseFile[j].task \in DOMAIN bottega
        BY <2>3, <4>1 DEF TaskSound
      <4>4. QED
        BY <2>3, <2>4, <4>1, <4>2, <4>3, FileStaysCurrent
    <3>4. TaskCurrent(bottega', k, task)
      BY <2>1, <3>3 DEF TaskCurrent
    <3>5. QED
      BY <3>2, <3>3, <3>4
  <2>9. untested' \in BOOLEAN
    BY <1>4
  <2>10. trouble' \in 0..MaxTrouble
    BY <1>2, <1>4
  <2>11. QED
    BY <1>1, <2>1, <2>2, <2>4, <2>5, <2>6, <2>7, <2>8, <2>9, <2>10, NoteKeeps
<1>5. QED
  BY <1>3, <1>4 DEF Merge, Park

\* A task is created when what it comes after is on the main branch, for a key
\* that has none.
LEMMA LaunchKeeps ==
    ASSUME PhaseInv, NEW t \in Ticks, tick[t] # NoTick, NEW k \in Keys, Launch(t, k)
    PROVE  PhaseInv'
<1>1. /\ AtHand(t, k) /\ tick[t].at = "launch"
      /\ UNCHANGED <<advance, phaseFile, overlapped, interrupted, untested>>
      /\ tick[t] \in TickStates /\ tick[t].save = NoSave /\ k \in tick[t].todo
      /\ phaseFile[k] \in PhaseTasks
  BY AtHandIsAhead DEF Launch, PhaseInv, PhaseTypes, PhaseFiles
<1>2. UNCHANGED trouble \/ Trouble => trouble' \in 0..MaxTrouble
  BY PhaseAssumption DEF Trouble, PhaseInv, PhaseTypes
<1>3. CASE Skip(t, k) /\ UNCHANGED <<bottega, trouble>>
  BY <1>1, <1>3, SkipKeeps
<1>4. CASE Trouble /\ Note(t, k, [phaseFile[k] EXCEPT !.state = "failed"]) /\ UNCHANGED bottega
  <2> DEFINE task == [phaseFile[k] EXCEPT !.state = "failed"]
  <2>1. /\ task \in PhaseTasks /\ task.task = phaseFile[k].task
        /\ task.kicked = phaseFile[k].kicked /\ task.state = "failed"
    BY <1>1 DEF PhaseTasks
  <2>2. Note(t, k, task)
    BY <1>4
  <2> HIDE DEF task
  <2>3. QED
    BY <1>1, <1>2, <1>4, <2>1, <2>2, NoteAloneKeeps
<1>5. ASSUME tick[t].seen[k].state = "pending", ~Unmet(tick[t].seen, k),
             UNCHANGED trouble \/ Trouble, NEW run \in {"idle", "yolo", "planning"},
             bottega' = Append(bottega, [key |-> k, runs |-> 0, ci |-> "none",
                                         behind |-> FALSE, merged |-> FALSE, run |-> run]),
             Note(t, k, [phaseFile[k] EXCEPT !.state = "running", !.task = Len(bottega) + 1])
      PROVE  PhaseInv'
  <2> DEFINE n == Len(bottega)
             item == [key |-> k, runs |-> 0, ci |-> "none", behind |-> FALSE,
                      merged |-> FALSE, run |-> run]
             task == [phaseFile[k] EXCEPT !.state = "running", !.task = n + 1]
  <2>1. /\ bottega \in Seq(BottegaTasks) /\ n \in Nat /\ DOMAIN bottega = 1..n
    BY DEF PhaseInv, PhaseTypes
  <2>2. /\ item \in BottegaTasks /\ item.key = k /\ item.runs = 0 /\ item.ci = "none"
        /\ ~item.merged
    BY DEF BottegaTasks
  <2>3. /\ task \in PhaseTasks /\ task.task = n + 1 /\ task.state = "running"
    <3>1. n + 1 \in Nat
      BY <2>1
    <3> HIDE DEF n
    <3>2. QED
      BY <1>1, <3>1 DEF PhaseTasks
  <2>4. Note(t, k, task) /\ bottega' = Append(bottega, item)
    BY <1>5
  <2> HIDE DEF item, task
  <2>5. /\ bottega' \in Seq(BottegaTasks) /\ Len(bottega') = n + 1
        /\ DOMAIN bottega' = 1..(n + 1) /\ bottega'[n + 1] = item
        /\ \A i \in 1..n : bottega'[i] = bottega[i]
    BY <2>1, <2>2, <2>4
  <2> HIDE DEF n
  <2>6. Kept(bottega, bottega')
    BY <2>1, <2>5 DEF Kept
  <2>7. Ordered(bottega')
    <3>1. \A j : OnMain(bottega, j) => OnMain(bottega', j)
      BY <2>6 DEF OnMain, Kept
    <3>2. ASSUME NEW d \in After[k] PROVE OnMain(bottega', d)
      <4>1. d \in Keys /\ tick[t].seen[d].state = "merged"
        BY <1>5, <3>2, PhaseAssumption DEF Unmet
      <4>2. OnMain(bottega, d)
        BY <4>1 DEF PhaseInv, FilesAreSound, TickSound, FileSound, TaskSound
      <4>3. QED
        BY <3>1, <4>2
    <3>3. ASSUME NEW i \in 1..n, NEW d \in After[bottega'[i].key] PROVE OnMain(bottega', d)
      BY <2>1, <2>5, <3>1, <3>3 DEF PhaseInv, Ordered
    <3>4. QED
      BY <2>1, <2>2, <2>5, <3>2, <3>3 DEF Ordered
  <2>8. TaskSound(bottega', k, task)
    BY <2>1, <2>2, <2>3, <2>5 DEF TaskSound
  <2>9. ASSUME ~overlapped PROVE Checked(bottega') /\ ~untested'
    BY <1>1, <2>1, <2>2, <2>5, <2>9 DEF PhaseInv, InTurn, Checked
  <2>10. ASSUME ~overlapped, ~interrupted
         PROVE  /\ OneEach(bottega') /\ TaskCurrent(bottega', k, task)
                /\ \A j \in Keys : j # k => TaskCurrent(bottega', j, phaseFile[j])
    <3>1. FileCurrent(bottega, phaseFile) /\ TickCurrent(tick[t], phaseFile)
      BY <1>1, <2>10, FileInHand
    <3>2. phaseFile[k].state = "pending"
      BY <1>1, <1>5, <3>1 DEF TickCurrent
    <3>3. \A i \in 1..n : bottega[i].key # k
      BY <2>1, <3>1, <3>2 DEF FileCurrent, TaskCurrent
    <3>4. OneEach(bottega')
      <4>1. OneEach(bottega)
        BY <2>10 DEF PhaseInv, Uncut
      <4>2. QED
        BY <1>1, <2>1, <2>2, <2>5, <3>3, <4>1 DEF OneEach
    <3>5. TaskCurrent(bottega', k, task)
      BY <2>2, <2>3, <2>5 DEF TaskCurrent
    <3>6. ASSUME NEW j \in Keys, j # k PROVE TaskCurrent(bottega', j, phaseFile[j])
      <4>1. TaskSound(bottega, j, phaseFile[j]) /\ TaskCurrent(bottega, j, phaseFile[j])
        BY <3>1 DEF PhaseInv, FilesAreSound, FileSound, FileCurrent
      <4>2. phaseFile[j].task # 0 => phaseFile[j].task \in 1..n
        BY <2>1, <4>1 DEF TaskSound, n
      <4>3. QED
        BY <2>1, <2>2, <2>5, <3>6, <4>1, <4>2 DEF TaskCurrent
    <3>7. QED
      BY <3>4, <3>5, <3>6
  <2>11. untested' \in BOOLEAN
    BY <1>1 DEF PhaseInv, PhaseTypes
  <2>12. trouble' \in 0..MaxTrouble
    BY <1>2, <1>5
  <2>13. QED
    BY <1>1, <2>3, <2>4, <2>5, <2>6, <2>7, <2>8, <2>9, <2>10, <2>11, <2>12, NoteKeeps
<1>6. QED
  BY <1>3, <1>4, <1>5 DEF Launch

-----------------------------------------------------------------------------
(* The phase as a whole.                                                   *)

\* Before the first tick.
LEMMA PhaseInitInvariant == PhaseInit => PhaseInv
<1> SUFFICES ASSUME PhaseInit PROVE PhaseInv
  OBVIOUS
<1>1. NewTask \in PhaseTasks
  BY PhaseAssumption DEF NewTask, PhaseTasks
<1>2. /\ phaseFile \in PhaseFiles /\ bottega \in Seq(BottegaTasks) /\ Len(bottega) = 0
      /\ DOMAIN bottega = {} /\ tick \in [Ticks -> TickStates \cup {NoTick}]
      /\ \A t \in Ticks : tick[t] = NoTick
      /\ \A k \in Keys : phaseFile[k] = NewTask
  BY <1>1 DEF PhaseInit, PhaseFiles
<1>3. trouble \in 0..MaxTrouble
  BY PhaseAssumption DEF PhaseInit
<1>4. PhaseTypes
  BY <1>2, <1>3 DEF PhaseInit, PhaseTypes
<1>5. FilesAreSound /\ Ordered(bottega)
  BY <1>2 DEF FilesAreSound, TickSound, FileSound, TaskSound, NewTask, Unsaved, Ordered
<1>6. InTurn
  BY <1>2 DEF PhaseInit, InTurn, TickInTurn, Checked
<1>7. Uncut
  BY <1>2 DEF Uncut, FileCurrent, TaskCurrent, NewTask, Unsaved, TickCurrent, OneEach
<1>8. QED
  BY <1>4, <1>5, <1>6, <1>7 DEF PhaseInv

\* A step of another service keeps it.
LEMMA PhaseStutterKeeps ==
    ASSUME PhaseInv, UNCHANGED phaseVars
    PROVE  PhaseInv'
<1>1. PhaseTypes' /\ (FilesAreSound /\ Ordered(bottega))'
  BY DEF phaseVars, PhaseInv, PhaseTypes, FilesAreSound, TickSound, FileSound,
     TaskSound,
     Ordered, OnMain
<1>2. InTurn => InTurn'
  BY DEF phaseVars, InTurn, TickInTurn, Checked, Passed, View, Unsaved
<1>3. Uncut => Uncut'
  BY DEF phaseVars, Uncut, FileCurrent, TaskCurrent, TickCurrent, View, Unsaved, OneEach
<1>4. QED
  BY <1>1, <1>2, <1>3 DEF phaseVars, PhaseInv

\* Each step of a tick and of the tasks it waits for keeps it.
LEMMA PhaseStepInvariant == PhaseInv /\ [PhaseNext]_phaseVars => PhaseInv'
<1>1. ASSUME PhaseInv, NEW t \in Ticks, TickStep(t) PROVE PhaseInv'
  BY <1>1, SaveKeeps, NextPartKeeps, ReconcileKeeps, GateKeeps, PushKeeps, MergeKeeps,
     LaunchKeeps DEF TickStep
<1>2. QED
  BY <1>1, StartTickKeeps, TickDiesKeeps, WorksKeeps, UserStepsKeeps, PhaseStutterKeeps
     DEF PhaseNext

\* What the invariant is for.
LEMMA PhaseInvariantSuffices == PhaseInv => PhaseTypeOK /\ LaunchedInOrder
<1> SUFFICES ASSUME PhaseInv PROVE PhaseTypeOK /\ LaunchedInOrder
  OBVIOUS
<1>1. PhaseTypeOK
  BY DEF PhaseInv, PhaseTypes, PhaseFiles, PhaseTasks, FilesAreSound, FileSound,
     TaskSound,
     PhaseTypeOK
<1>2. LaunchedInOrder
  BY DEF PhaseInv, FilesAreSound, FileSound, TaskSound, Ordered, OnMain, InTurn, Uncut,
     OneEach, LaunchedInOrder
<1>3. QED
  BY <1>1, <1>2

-----------------------------------------------------------------------------
(* The bridge to the long-term memory: the inductive invariant.            *)

PassStates ==
    {Idle}
    \cup [at : {"walk"}, todo : SUBSET ObsFiles, force : BOOLEAN]
    \cup [at : {"statted", "lines"}, todo : SUBSET ObsFiles, force : BOOLEAN,
          file : ObsFiles, line : {"none"}, left : SUBSET Obs, seen : Nat]
    \cup [at : {"embedding"}, todo : SUBSET ObsFiles, force : BOOLEAN,
          file : ObsFiles, line : Obs, left : SUBSET Obs, seen : Nat]

BridgeTypes ==
    /\ BridgeTypeOK
    /\ pass \in [Passes -> PassStates]
    /\ edits \in 0..MaxEdits
    /\ \A f \in ObsFiles : mtime[f] =< edits + 1

\* What was read of a file is not newer than the file.
NoForesight ==
    /\ \A f \in ObsFiles : cached[f] =< mtime[f]
    /\ \A r \in Passes :
          pass[r].at \in {"statted", "lines", "embedding"} =>
              pass[r].seen =< mtime[pass[r].file]

\* The lines of the file at hand that a pass has yet to mirror.
Ahead(r) ==
    IF pass[r].at = "embedding" THEN pass[r].left \cup {pass[r].line} ELSE pass[r].left

\* A pass over a file that has not changed since its mtime was taken has dealt
\* with every line that is not ahead of it.
PassSound(r) ==
    pass[r].at \in {"lines", "embedding"} /\ pass[r].seen = mtime[pass[r].file] =>
        LinesOf(pass[r].file) \subseteq stored \cup missed \cup Ahead(r)

Mirroring(o) == call[o] = "mirroring"
Running(r) == pass[r] # Idle

\* One attachment at a time: what a reconciler or a call has in hand belongs to
\* the store that is attached, or to the one that the drain closed for good.
OneAttachment ==
    /\ retry => link = "none"
    /\ server = "stopping" => link = "attached"
    /\ server = "down" => link = "none" /\ ~retry
    /\ (\E r \in Passes : Running(r)) \/ (\E o \in Obs : Mirroring(o)) =>
          \/ link = "attached" /\ server # "down"
          \/ link = "none" /\ ~retry /\ server = "drained"

\* Once the store is closed, all that still has it in hand is known to be late.
LateKnown ==
    /\ link # "attached" =>
          /\ \A r \in Passes : Running(r) => r \in late
          /\ \A o \in Obs : Mirroring(o) => o \in late
    /\ late # {} => server \in {"drained", "down"}

PassesSound == link = "attached" => \A r \in Passes : PassSound(r)

BridgeInv ==
    /\ BridgeTypes /\ NoForesight
    /\ OneAttachment /\ LateKnown
    /\ PassesSound /\ SkippedIsMirrored /\ WrittenUnderLock

-----------------------------------------------------------------------------
(* What the parts of a pass are.                                           *)

\* A pass is idle, between two files, or at a file with its lines.
LEMMA PassShape ==
    ASSUME BridgeTypes, NEW r \in Passes
    PROVE  /\ pass[r] \in PassStates
           /\ Running(r) <=> pass[r].at # "idle"
           /\ pass[r].at \in {"idle", "walk", "statted", "lines", "embedding"}
           /\ Running(r) => pass[r].todo \subseteq ObsFiles /\ pass[r].force \in BOOLEAN
           /\ pass[r].at \in {"statted", "lines", "embedding"} =>
                 /\ pass[r].file \in ObsFiles /\ pass[r].seen \in Nat
                 /\ pass[r].left \subseteq Obs
           /\ pass[r].at = "embedding" => pass[r].line \in Obs
<1>1. pass[r] \in PassStates
  BY DEF BridgeTypes
<1>2. QED
  BY <1>1 DEF PassStates, Idle, Running

\* A tick begins with everything ahead of it, while the store is attached.
LEMMA TickKeeps ==
    ASSUME BridgeInv, Tick
    PROVE  BridgeInv'
<1>1. BridgeTypes'
  BY DEF BridgeInv, BridgeTypes, BridgeTypeOK, PassStates, Tick, fileState, bridgeHistory,
     Begin
<1>2. NoForesight'
  BY DEF BridgeInv, NoForesight, BridgeTypes, Tick, fileState, Begin
<1>3. OneAttachment' /\ LateKnown'
  BY DEF BridgeInv, OneAttachment, LateKnown, BridgeTypes, Tick, bridgeHistory
<1>4. PassesSound'
  BY DEF BridgeInv, PassesSound, PassSound, Ahead, LinesOf, BridgeTypes, Tick, fileState,
     bridgeHistory, Begin
<1>5. SkippedIsMirrored' /\ WrittenUnderLock'
  BY DEF BridgeInv, SkippedIsMirrored, WrittenUnderLock, LinesOf, BridgeTypes, Tick,
     fileState, bridgeHistory
<1>6. QED
  BY <1>1, <1>2, <1>3, <1>4, <1>5 DEF BridgeInv

\* So does a reconcile_now, whatever else is running.
LEMMA ReconcileNowKeeps ==
    ASSUME BridgeInv, ReconcileNow
    PROVE  BridgeInv'
<1>1. BridgeTypes'
  <2>1. PICK force \in BOOLEAN : Begin("now", force)
    BY DEF ReconcileNow
  <2>2. /\ pass' \in [Passes -> PassStates]
        /\ \A q \in Passes : pass'[q] # Idle => pass'[q].todo \subseteq ObsFiles
    BY <2>1 DEF BridgeInv, BridgeTypes, PassStates, Begin
  <2>3. edits' \in 0..MaxEdits /\ edits' >= edits
    BY BridgeAssumption DEF BridgeInv, BridgeTypes, ReconcileNow
  <2>4. UNCHANGED <<inFile, mtime, stored, missed, cached, server, link, retry, locked,
                    call>>
    BY DEF ReconcileNow, bridgeHistory
  <2>5. QED
    BY <2>2, <2>3, <2>4 DEF BridgeInv, BridgeTypes, BridgeTypeOK
<1>2. NoForesight'
  BY DEF BridgeInv, NoForesight, BridgeTypes, ReconcileNow, Begin
<1>3. OneAttachment' /\ LateKnown'
  BY DEF BridgeInv, OneAttachment, LateKnown, BridgeTypes, ReconcileNow, bridgeHistory
<1>4. PassesSound'
  BY DEF BridgeInv, PassesSound, PassSound, Ahead, LinesOf, BridgeTypes, ReconcileNow,
     bridgeHistory, Begin
<1>5. SkippedIsMirrored' /\ WrittenUnderLock'
  BY DEF BridgeInv, SkippedIsMirrored, WrittenUnderLock, LinesOf, BridgeTypes, ReconcileNow,
     bridgeHistory
<1>6. QED
  BY <1>1, <1>2, <1>3, <1>4, <1>5 DEF BridgeInv

\* An edit makes the mtime newer than what any pass has seen or noted.
LEMMA EditKeeps ==
    ASSUME BridgeInv, Edit
    PROVE  BridgeInv'
<1>1. BridgeTypes'
  BY BridgeAssumption DEF BridgeInv, BridgeTypes, BridgeTypeOK, Edit, bridgeHistory, Change,
     LinesOf
<1>2. NoForesight'
  BY PassShape DEF BridgeInv, NoForesight, BridgeTypes, BridgeTypeOK, Edit, Change
<1>3. OneAttachment' /\ LateKnown'
  BY DEF BridgeInv, OneAttachment, LateKnown, Running, Mirroring, BridgeTypes, Edit,
     bridgeHistory
<1>4. PassesSound'
  BY DEF BridgeInv, PassesSound, PassSound, Ahead, NoForesight, LinesOf, BridgeTypes,
     BridgeTypeOK, Edit, bridgeHistory, Change
<1>5. SkippedIsMirrored' /\ WrittenUnderLock'
  BY DEF BridgeInv, SkippedIsMirrored, WrittenUnderLock, NoForesight, LinesOf, BridgeTypes,
     BridgeTypeOK, Edit, bridgeHistory, Change
<1>6. QED
  BY <1>1, <1>2, <1>3, <1>4, <1>5 DEF BridgeInv

\* A call appends its line first: the mtime is newer than what was noted.
LEMMA RecordKeeps ==
    ASSUME BridgeInv, NEW o \in Obs, Record(o)
    PROVE  BridgeInv'
<1>1. BridgeTypes'
  <2>1. /\ BridgeTypes /\ FileOf[o] \in ObsFiles
        /\ Change(FileOf[o], LinesOf(FileOf[o]) \cup {o})
    BY BridgeAssumption DEF BridgeInv, Record
  <2>2. /\ mtime' \in [ObsFiles -> 1..(MaxEdits + 1)]
        /\ \A f \in ObsFiles : mtime'[f] =< edits' + 1
        /\ edits' \in 0..MaxEdits
    BY <2>1, BridgeAssumption DEF BridgeTypes, BridgeTypeOK, Change
  <2>3. inFile' \subseteq Obs
    BY <2>1 DEF BridgeTypes, BridgeTypeOK, Change, LinesOf
  <2>4. call' \in [Obs -> {"none", "appended", "mirroring"}]
    BY <2>1 DEF Record, BridgeTypes, BridgeTypeOK
  <2>5. UNCHANGED <<stored, missed, cached, server, link, retry, locked, pass>>
    BY DEF Record, bridgeHistory
  <2>6. QED
    BY <2>1, <2>2, <2>3, <2>4, <2>5 DEF BridgeTypes, BridgeTypeOK
<1>2. NoForesight'
  BY PassShape DEF BridgeInv, NoForesight, BridgeTypes, BridgeTypeOK, Record, Change
<1>3. OneAttachment' /\ LateKnown'
  BY DEF BridgeInv, OneAttachment, LateKnown, Running, Mirroring, BridgeTypes, Record,
     bridgeHistory
<1>4. PassesSound'
  BY PassShape DEF BridgeInv, PassesSound, PassSound, Ahead, NoForesight, LinesOf,
     BridgeTypes, BridgeTypeOK, Record, bridgeHistory, Change
<1>5. SkippedIsMirrored' /\ WrittenUnderLock'
  BY DEF BridgeInv, SkippedIsMirrored, WrittenUnderLock, NoForesight, LinesOf, BridgeTypes,
     BridgeTypeOK, Record, bridgeHistory, Change
<1>6. QED
  BY <1>1, <1>2, <1>3, <1>4, <1>5 DEF BridgeInv

\* A call takes the store in hand only while one is attached.
LEMMA AppendedKeeps ==
    ASSUME BridgeInv, NEW o \in Obs, Appended(o)
    PROVE  BridgeInv'
<1>1. BridgeTypes'
  BY DEF BridgeInv, BridgeTypes, BridgeTypeOK, Appended, fileState, bridgeHistory
<1>2. NoForesight'
  BY DEF BridgeInv, NoForesight, BridgeTypes, Appended, fileState
<1>3. OneAttachment' /\ LateKnown'
  BY DEF BridgeInv, OneAttachment, LateKnown, Running, Mirroring, BridgeTypes, Appended,
     bridgeHistory
<1>4. PassesSound'
  BY DEF BridgeInv, PassesSound, PassSound, Ahead, LinesOf, BridgeTypes, Appended,
     fileState, bridgeHistory
<1>5. SkippedIsMirrored' /\ WrittenUnderLock'
  BY DEF BridgeInv, SkippedIsMirrored, WrittenUnderLock, LinesOf, BridgeTypes, Appended,
     fileState, bridgeHistory
<1>6. QED
  BY <1>1, <1>2, <1>3, <1>4, <1>5 DEF BridgeInv

\* What a call writes after the store was closed is known to be late.
LEMMA MirroredKeeps ==
    ASSUME BridgeInv, NEW o \in Obs, Mirrored(o)
    PROVE  BridgeInv'
<1>1. BridgeTypes'
  BY DEF BridgeInv, BridgeTypes, BridgeTypeOK, Mirrored, fileState, Store
<1>2. NoForesight'
  BY DEF BridgeInv, NoForesight, BridgeTypes, Mirrored, fileState
<1>3. OneAttachment' /\ LateKnown'
  BY DEF BridgeInv, OneAttachment, LateKnown, Running, Mirroring, BridgeTypes, Mirrored
<1>4. PassesSound'
  BY DEF BridgeInv, PassesSound, PassSound, Ahead, LinesOf, BridgeTypes, Mirrored,
     fileState, Store
<1>5. SkippedIsMirrored' /\ WrittenUnderLock'
  BY DEF BridgeInv, SkippedIsMirrored, WrittenUnderLock, LateKnown, Mirroring, LinesOf,
     BridgeTypes, Mirrored, fileState, Store
<1>6. QED
  BY <1>1, <1>2, <1>3, <1>4, <1>5 DEF BridgeInv

\* A file whose mtime is known is passed over, another is yet to be read.
LEMMA StatKeeps ==
    ASSUME BridgeInv, NEW r \in Passes, Stat(r)
    PROVE  BridgeInv'
<1>1. BridgeTypes'
  BY DEF BridgeInv, BridgeTypes, BridgeTypeOK, PassStates, Idle, Stat, fileState,
     bridgeHistory, Step
<1>2. BridgeTypes /\ pass[r].todo \subseteq ObsFiles /\ pass[r].at = "walk"
  BY PassShape DEF BridgeInv, Stat
<1>3. PICK f \in pass[r].todo :
         \/ Step(r, f, "statted", "none", {}, mtime[f])
         \/ pass' = [pass EXCEPT ![r].todo = @ \ {f}]
  BY DEF Stat
<1>4. /\ \A q \in Passes \ {r} : pass'[q] = pass[q]
      /\ \/ pass'[r].at = "statted" /\ pass'[r].file = f /\ pass'[r].seen = mtime[f]
         \/ pass'[r].at = "walk"
  <2>1. pass[r] \in [at : {"walk"}, todo : SUBSET ObsFiles, force : BOOLEAN]
    BY <1>2 DEF BridgeTypes, PassStates, Idle
  <2>2. CASE pass' = [pass EXCEPT ![r].todo = @ \ {f}]
    BY <1>2, <2>1, <2>2 DEF BridgeTypes
  <2>3. CASE Step(r, f, "statted", "none", {}, mtime[f])
    BY <1>2, <2>3 DEF BridgeTypes, Step
  <2>4. QED
    BY <1>3, <2>2, <2>3
<1>5. UNCHANGED <<cached, mtime, inFile, stored, missed, link>>
  BY DEF Stat, fileState, bridgeHistory
<1>6. NoForesight'
  BY <1>2, <1>4, <1>5 DEF BridgeInv, NoForesight, BridgeTypes, BridgeTypeOK
<1>7. OneAttachment' /\ LateKnown'
  BY PassShape DEF BridgeInv, OneAttachment, LateKnown, Running, Mirroring, BridgeTypes,
     Stat, bridgeHistory, Step
<1>8. PassesSound'
  BY <1>4, <1>5 DEF BridgeInv, PassesSound, PassSound, Ahead, LinesOf
<1>9. SkippedIsMirrored' /\ WrittenUnderLock'
  BY DEF BridgeInv, SkippedIsMirrored, WrittenUnderLock, LinesOf, BridgeTypes, Stat,
     fileState, bridgeHistory
<1>10. QED
  BY <1>1, <1>6, <1>7, <1>8, <1>9 DEF BridgeInv

\* All the lines of a file that was read are ahead of the pass.
LEMMA ReadKeeps ==
    ASSUME BridgeInv, NEW r \in Passes, Read(r)
    PROVE  BridgeInv'
<1>1. BridgeTypes'
  BY PassShape DEF BridgeInv, BridgeTypes, BridgeTypeOK, PassStates, Read, fileState,
     bridgeHistory, Step, LinesOf
<1>2. NoForesight'
  BY DEF BridgeInv, NoForesight, BridgeTypes, Read, fileState, Step
<1>3. OneAttachment' /\ LateKnown'
  BY PassShape DEF BridgeInv, OneAttachment, LateKnown, Running, Mirroring, BridgeTypes,
     Read, bridgeHistory, Step
<1>4. PassesSound'
  BY DEF BridgeInv, PassesSound, PassSound, Ahead, LinesOf, BridgeTypes, Read, fileState,
     bridgeHistory, Step
<1>5. SkippedIsMirrored' /\ WrittenUnderLock'
  BY DEF BridgeInv, SkippedIsMirrored, WrittenUnderLock, LinesOf, BridgeTypes, Read,
     fileState, bridgeHistory
<1>6. QED
  BY <1>1, <1>2, <1>3, <1>4, <1>5 DEF BridgeInv

\* A line that is not ahead any more is in the store, or in hand.
LEMMA LineKeeps ==
    ASSUME BridgeInv, NEW r \in Passes, Line(r)
    PROVE  BridgeInv'
<1>1. BridgeTypes'
  BY PassShape DEF BridgeInv, BridgeTypes, BridgeTypeOK, PassStates, Line, fileState,
     bridgeHistory, Step
<1>2. NoForesight'
  BY DEF BridgeInv, NoForesight, BridgeTypes, Line, fileState, Step
<1>3. OneAttachment' /\ LateKnown'
  BY PassShape DEF BridgeInv, OneAttachment, LateKnown, Running, Mirroring, BridgeTypes,
     Line, bridgeHistory, Step
<1>4. PassesSound'
  BY DEF BridgeInv, PassesSound, PassSound, Ahead, LinesOf, BridgeTypes, Line, fileState,
     bridgeHistory, Step
<1>5. SkippedIsMirrored' /\ WrittenUnderLock'
  BY DEF BridgeInv, SkippedIsMirrored, WrittenUnderLock, LinesOf, BridgeTypes, Line,
     fileState, bridgeHistory
<1>6. QED
  BY <1>1, <1>2, <1>3, <1>4, <1>5 DEF BridgeInv

\* The line in hand is stored or missed.
LEMMA LineDoneKeeps ==
    ASSUME BridgeInv, NEW r \in Passes, LineDone(r)
    PROVE  BridgeInv'
<1>1. BridgeTypes'
  <2>1. /\ BridgeTypes /\ pass[r].at = "embedding" /\ pass[r].line \in Obs
        /\ pass[r] \in PassStates
    BY PassShape DEF BridgeInv, LineDone
  <2>2. pass'[r] = [pass[r] EXCEPT !.at = "lines", !.line = "none"]
    BY <2>1 DEF LineDone, BridgeTypes
  <2>3. pass'[r] \in PassStates
    <3>1. pass[r] \in [at : {"embedding"}, todo : SUBSET ObsFiles, force : BOOLEAN,
                       file : ObsFiles, line : Obs, left : SUBSET Obs, seen : Nat]
      BY <2>1 DEF PassStates, Idle
    <3>2. pass'[r] \in [at : {"statted", "lines"}, todo : SUBSET ObsFiles,
                        force : BOOLEAN, file : ObsFiles, line : {"none"},
                        left : SUBSET Obs, seen : Nat]
      BY <2>2, <3>1
    <3>3. QED
      BY <3>2 DEF PassStates
  <2>4. pass' \in [Passes -> PassStates] /\ \A q \in Passes \ {r} : pass'[q] = pass[q]
    BY <2>1, <2>3 DEF LineDone, BridgeTypes
  <2>5. pass'[r].todo \subseteq ObsFiles
    BY <2>1, <2>2 DEF PassStates, Idle
  <2>6. stored' \subseteq Obs /\ missed' \subseteq Obs
    BY <2>1 DEF LineDone, Store, BridgeTypes, BridgeTypeOK
  <2>7. UNCHANGED <<inFile, mtime, edits, cached, server, link, retry, locked, call>>
    BY DEF LineDone, fileState
  <2>8. QED
    BY <2>1, <2>4, <2>5, <2>6, <2>7 DEF BridgeTypes, BridgeTypeOK
<1>2. NoForesight'
  BY DEF BridgeInv, NoForesight, BridgeTypes, LineDone, fileState
<1>3. OneAttachment' /\ LateKnown'
  BY PassShape DEF BridgeInv, OneAttachment, LateKnown, Running, Mirroring, BridgeTypes,
     LineDone
<1>4. PassesSound'
  BY DEF BridgeInv, PassesSound, PassSound, Ahead, LinesOf, BridgeTypes, LineDone,
     fileState, Store
<1>5. SkippedIsMirrored' /\ WrittenUnderLock'
  BY PassShape DEF BridgeInv, SkippedIsMirrored, WrittenUnderLock, LateKnown, LinesOf,
     BridgeTypes, LineDone, fileState, Store
<1>6. QED
  BY <1>1, <1>2, <1>3, <1>4, <1>5 DEF BridgeInv

\* The mtime that is noted is the one from before the read: if it is still that
\* of the file, no line is ahead and every line was dealt with.
LEMMA FileDoneKeeps ==
    ASSUME BridgeInv, NEW r \in Passes, FileDone(r)
    PROVE  BridgeInv'
<1>1. BridgeTypes'
  <2>1. /\ BridgeTypes /\ pass[r].file \in ObsFiles /\ pass[r].seen \in 0..(MaxEdits + 1)
        /\ pass[r].todo \subseteq ObsFiles /\ pass[r].force \in BOOLEAN
    BY PassShape, BridgeAssumption DEF BridgeInv, FileDone, BridgeTypes, BridgeTypeOK,
       NoForesight
  <2>2. /\ pass' \in [Passes -> PassStates]
        /\ \A q \in Passes : pass'[q] # Idle => pass'[q].todo \subseteq ObsFiles
    BY <2>1 DEF BridgeTypes, BridgeTypeOK, PassStates, FileDone
  <2>3. cached' \in [ObsFiles -> 0..(MaxEdits + 1)]
    BY <2>1 DEF BridgeTypes, BridgeTypeOK, FileDone
  <2>4. UNCHANGED <<fileState, stored, missed, server, link, retry, locked, call>>
    BY DEF FileDone, bridgeHistory
  <2>5. QED
    BY <2>1, <2>2, <2>3, <2>4 DEF BridgeTypes, BridgeTypeOK, fileState
<1>2. NoForesight'
  BY DEF BridgeInv, NoForesight, BridgeTypes, FileDone, fileState
<1>3. OneAttachment' /\ LateKnown'
  BY PassShape DEF BridgeInv, OneAttachment, LateKnown, Running, Mirroring, BridgeTypes,
     FileDone, bridgeHistory
<1>4. PassesSound'
  BY DEF BridgeInv, PassesSound, PassSound, Ahead, LinesOf, BridgeTypes, FileDone,
     fileState, bridgeHistory
<1>5. SkippedIsMirrored' /\ WrittenUnderLock'
  BY PassShape DEF BridgeInv, SkippedIsMirrored, WrittenUnderLock, PassesSound,
     PassSound, Ahead, NoForesight, LinesOf, BridgeTypes, BridgeTypeOK, FileDone,
     fileState, bridgeHistory
<1>6. QED
  BY <1>1, <1>2, <1>3, <1>4, <1>5 DEF BridgeInv

\* A pass that ends lets go of the store.
LEMMA PassDoneKeeps ==
    ASSUME BridgeInv, NEW r \in Passes, PassDone(r)
    PROVE  BridgeInv'
<1>1. BridgeTypes'
  BY DEF BridgeInv, BridgeTypes, BridgeTypeOK, PassStates, PassDone, fileState,
     bridgeHistory
<1>2. NoForesight'
  BY DEF BridgeInv, NoForesight, BridgeTypes, PassDone, fileState, Idle
<1>3. OneAttachment' /\ LateKnown'
  BY DEF BridgeInv, OneAttachment, LateKnown, Running, Mirroring, BridgeTypes, PassDone,
     bridgeHistory
<1>4. PassesSound'
  BY DEF BridgeInv, PassesSound, PassSound, Ahead, LinesOf, BridgeTypes, PassDone,
     fileState, bridgeHistory, Idle
<1>5. SkippedIsMirrored' /\ WrittenUnderLock'
  BY DEF BridgeInv, SkippedIsMirrored, WrittenUnderLock, LinesOf, BridgeTypes, PassDone,
     fileState, bridgeHistory
<1>6. QED
  BY <1>1, <1>2, <1>3, <1>4, <1>5 DEF BridgeInv

\* A store is attached with no mtime known and the lock taken.
LEMMA AttachKeeps ==
    ASSUME BridgeInv, Attach
    PROVE  BridgeInv'
<1>1. BridgeTypes'
  BY BridgeAssumption DEF BridgeInv, BridgeTypes, BridgeTypeOK, Attach, fileState,
     bridgeHistory, Booted
<1>2. NoForesight'
  BY DEF BridgeInv, NoForesight, BridgeTypes, BridgeTypeOK, Attach, fileState
<1>3. OneAttachment' /\ LateKnown'
  BY DEF BridgeInv, OneAttachment, LateKnown, BridgeTypes, Attach, bridgeHistory, Booted
<1>4. PassesSound'
  BY PassShape DEF BridgeInv, PassesSound, PassSound, OneAttachment, BridgeTypes, Attach
<1>5. SkippedIsMirrored' /\ WrittenUnderLock'
  BY DEF BridgeInv, SkippedIsMirrored, WrittenUnderLock, BridgeTypes, BridgeTypeOK, Attach,
     fileState, bridgeHistory
<1>6. QED
  BY <1>1, <1>2, <1>3, <1>4, <1>5 DEF BridgeInv

\* A retry comes only when no store is attached.
LEMMA ReconnectKeeps ==
    ASSUME BridgeInv, Reconnect
    PROVE  BridgeInv'
<1>1. BridgeTypes'
  BY DEF BridgeInv, BridgeTypes, BridgeTypeOK, Reconnect, fileState, bridgeHistory
<1>2. NoForesight'
  BY DEF BridgeInv, NoForesight, BridgeTypes, Reconnect, fileState
<1>3. OneAttachment' /\ LateKnown'
  BY DEF BridgeInv, OneAttachment, LateKnown, Running, Mirroring, BridgeTypes, Reconnect,
     bridgeHistory
<1>4. PassesSound'
  BY DEF BridgeInv, PassesSound, BridgeTypes, Reconnect
<1>5. SkippedIsMirrored' /\ WrittenUnderLock'
  BY DEF BridgeInv, SkippedIsMirrored, WrittenUnderLock, BridgeTypes, Reconnect,
     bridgeHistory
<1>6. QED
  BY <1>1, <1>2, <1>3, <1>4, <1>5 DEF BridgeInv

\* Whoever has the store in hand when the drain closes it is late from then on.
LEMMA CloseLtmKeeps ==
    ASSUME BridgeInv, CloseLtm
    PROVE  BridgeInv'
<1>1. BridgeTypes'
  BY DEF BridgeInv, BridgeTypes, BridgeTypeOK, CloseLtm, fileState
<1>2. NoForesight'
  BY DEF BridgeInv, NoForesight, BridgeTypes, CloseLtm, fileState
<1>3. OneAttachment' /\ LateKnown'
  BY DEF BridgeInv, OneAttachment, LateKnown, Running, Mirroring, BridgeTypes, CloseLtm,
     Passes
<1>4. PassesSound'
  BY DEF BridgeInv, PassesSound, BridgeTypes, CloseLtm
<1>5. SkippedIsMirrored' /\ WrittenUnderLock'
  BY DEF BridgeInv, SkippedIsMirrored, WrittenUnderLock, LateKnown, BridgeTypes, CloseLtm
<1>6. QED
  BY <1>1, <1>2, <1>3, <1>4, <1>5 DEF BridgeInv

\* A process that exits leaves nothing in hand.
LEMMA ExitKeeps ==
    ASSUME BridgeInv, Exit
    PROVE  BridgeInv'
<1>1. BridgeTypes'
  <2>1. BridgeTypes /\ Gone /\ faults' \in {faults, faults + 1}
    BY DEF BridgeInv, Exit, Fault
  <2>2. pass' \in [Passes -> PassStates] /\ \A r \in Passes : ~(pass'[r] # Idle)
    BY <2>1 DEF Gone, PassStates
  <2>3. /\ cached' \in [ObsFiles -> 0..(MaxEdits + 1)]
        /\ call' \in [Obs -> {"none", "appended", "mirroring"}]
    BY <2>1, BridgeAssumption DEF Gone
  <2>4. QED
    BY <2>1, <2>2, <2>3 DEF Gone, BridgeTypes, BridgeTypeOK, fileState, bridgeHistory
<1>2. NoForesight'
  BY DEF BridgeInv, NoForesight, BridgeTypes, BridgeTypeOK, Exit, fileState, Gone
<1>3. OneAttachment' /\ LateKnown'
  BY DEF BridgeInv, OneAttachment, LateKnown, Running, Mirroring, BridgeTypes, Exit, Gone
<1>4. PassesSound'
  BY DEF BridgeInv, PassesSound, BridgeTypes, Exit, Gone
<1>5. SkippedIsMirrored' /\ WrittenUnderLock'
  BY DEF BridgeInv, SkippedIsMirrored, WrittenUnderLock, BridgeTypes, Exit, bridgeHistory,
     Gone
<1>6. QED
  BY <1>1, <1>2, <1>3, <1>4, <1>5 DEF BridgeInv

\* A boot starts with nothing in hand.
LEMMA BootKeeps ==
    ASSUME BridgeInv, Boot
    PROVE  BridgeInv'
<1>1. BridgeTypes'
  BY DEF BridgeInv, BridgeTypes, BridgeTypeOK, Boot, fileState
<1>2. NoForesight'
  BY DEF BridgeInv, NoForesight, BridgeTypes, Boot, fileState
<1>3. OneAttachment' /\ LateKnown'
  BY DEF BridgeInv, OneAttachment, LateKnown, Running, Mirroring, BridgeTypes, Boot
<1>4. PassesSound'
  BY DEF BridgeInv, PassesSound, BridgeTypes, Boot
<1>5. SkippedIsMirrored' /\ WrittenUnderLock'
  BY DEF BridgeInv, SkippedIsMirrored, WrittenUnderLock, BridgeTypes, Boot
<1>6. QED
  BY <1>1, <1>2, <1>3, <1>4, <1>5 DEF BridgeInv

\* An attempt that fails leaves no store and a retry.
LEMMA AttachFailsKeeps ==
    ASSUME BridgeInv, AttachFails
    PROVE  BridgeInv'
<1>1. BridgeTypes'
  BY DEF BridgeInv, BridgeTypes, BridgeTypeOK, AttachFails, fileState, bridgeHistory, Booted
<1>2. NoForesight'
  BY DEF BridgeInv, NoForesight, BridgeTypes, AttachFails, fileState
<1>3. OneAttachment' /\ LateKnown'
  BY DEF BridgeInv, OneAttachment, LateKnown, Running, Mirroring, BridgeTypes, AttachFails,
     bridgeHistory, Booted
<1>4. PassesSound'
  BY DEF BridgeInv, PassesSound, BridgeTypes, AttachFails
<1>5. SkippedIsMirrored' /\ WrittenUnderLock'
  BY DEF BridgeInv, SkippedIsMirrored, WrittenUnderLock, BridgeTypes, AttachFails,
     bridgeHistory
<1>6. QED
  BY <1>1, <1>2, <1>3, <1>4, <1>5 DEF BridgeInv

\* A drain calls the retry off: no store comes after the one it closes.
LEMMA ShutdownLtmKeeps ==
    ASSUME BridgeInv, ShutdownLtm
    PROVE  BridgeInv'
<1>1. BridgeTypes'
  BY DEF BridgeInv, BridgeTypes, BridgeTypeOK, ShutdownLtm, fileState, bridgeHistory
<1>2. NoForesight'
  BY DEF BridgeInv, NoForesight, BridgeTypes, ShutdownLtm, fileState
<1>3. OneAttachment' /\ LateKnown'
  BY DEF BridgeInv, OneAttachment, LateKnown, Running, Mirroring, BridgeTypes, ShutdownLtm,
     bridgeHistory
<1>4. PassesSound'
  BY DEF BridgeInv, PassesSound, PassSound, Ahead, LinesOf, BridgeTypes, ShutdownLtm,
     fileState, bridgeHistory
<1>5. SkippedIsMirrored' /\ WrittenUnderLock'
  BY DEF BridgeInv, SkippedIsMirrored, WrittenUnderLock, LinesOf, BridgeTypes, ShutdownLtm,
     fileState, bridgeHistory
<1>6. QED
  BY <1>1, <1>2, <1>3, <1>4, <1>5 DEF BridgeInv

\* A crash leaves nothing in hand either.
LEMMA CrashKeeps ==
    ASSUME BridgeInv, Crash
    PROVE  BridgeInv'
<1>1. BridgeTypes'
  <2>1. BridgeTypes /\ Gone /\ faults' \in {faults, faults + 1}
    BY DEF BridgeInv, Crash, Fault
  <2>2. pass' \in [Passes -> PassStates] /\ \A r \in Passes : ~(pass'[r] # Idle)
    BY <2>1 DEF Gone, PassStates
  <2>3. /\ cached' \in [ObsFiles -> 0..(MaxEdits + 1)]
        /\ call' \in [Obs -> {"none", "appended", "mirroring"}]
    BY <2>1, BridgeAssumption DEF Gone
  <2>4. QED
    BY <2>1, <2>2, <2>3 DEF Gone, BridgeTypes, BridgeTypeOK, fileState, bridgeHistory
<1>2. NoForesight'
  BY DEF BridgeInv, NoForesight, BridgeTypes, BridgeTypeOK, Crash, fileState, Gone, Idle
<1>3. OneAttachment' /\ LateKnown'
  BY DEF BridgeInv, OneAttachment, LateKnown, Running, Mirroring, BridgeTypes, Crash, Gone
<1>4. PassesSound'
  BY DEF BridgeInv, PassesSound, BridgeTypes, Crash, Gone
<1>5. SkippedIsMirrored' /\ WrittenUnderLock'
  BY DEF BridgeInv, SkippedIsMirrored, WrittenUnderLock, BridgeTypes, Crash, bridgeHistory,
     Gone
<1>6. QED
  BY <1>1, <1>2, <1>3, <1>4, <1>5 DEF BridgeInv

\* A maintenance command takes the store while no server has it attached.
LEMMA MaintainKeeps ==
    ASSUME BridgeInv, Maintain
    PROVE  BridgeInv'
<1>1. BridgeTypes'
  <2>1. BridgeTypes /\ stored' \subseteq Obs /\ edits' \in 0..MaxEdits /\ edits' = edits + 1
    BY BridgeAssumption DEF BridgeInv, Maintain, BridgeTypes, BridgeTypeOK
  <2>2. UNCHANGED <<inFile, mtime, missed, cached, server, link, retry, call, pass>>
    BY DEF Maintain, bridgeHistory
  <2>3. \A f \in ObsFiles : mtime[f] =< edits' + 1
    BY <2>1, BridgeAssumption DEF BridgeTypes, BridgeTypeOK
  <2>4. locked' = FALSE
    BY DEF Maintain
  <2>5. QED
    BY <2>1, <2>2, <2>3, <2>4 DEF BridgeTypes, BridgeTypeOK
<1>2. NoForesight'
  BY DEF BridgeInv, NoForesight, BridgeTypes, Maintain
<1>3. OneAttachment' /\ LateKnown'
  BY DEF BridgeInv, OneAttachment, LateKnown, Running, Mirroring, BridgeTypes, Maintain,
     bridgeHistory
<1>4. PassesSound'
  BY DEF BridgeInv, PassesSound, WrittenUnderLock, OneAttachment, BridgeTypes, Maintain
<1>5. SkippedIsMirrored' /\ WrittenUnderLock'
  BY DEF BridgeInv, SkippedIsMirrored, WrittenUnderLock, OneAttachment, BridgeTypes,
     Maintain, bridgeHistory
<1>6. QED
  BY <1>1, <1>2, <1>3, <1>4, <1>5 DEF BridgeInv

\* The invariant holds of the initial states.
LEMMA BridgeInitInvariant == BridgeInit => BridgeInv
<1>1. ASSUME BridgeInit PROVE BridgeTypes
  <2>1. /\ mtime \in [ObsFiles -> 1..(MaxEdits + 1)]
        /\ cached \in [ObsFiles -> 0..(MaxEdits + 1)]
        /\ edits \in 0..MaxEdits /\ \A f \in ObsFiles : mtime[f] =< edits + 1
    BY <1>1, BridgeAssumption DEF BridgeInit
  <2>2. pass \in [Passes -> PassStates] /\ \A r \in Passes : pass[r] = Idle
    BY <1>1 DEF BridgeInit, PassStates
  <2>3. QED
    BY <1>1, <2>1, <2>2 DEF BridgeInit, BridgeTypes, BridgeTypeOK
<1>2. ASSUME BridgeInit, BridgeTypes PROVE BridgeInv
  BY <1>2 DEF BridgeInit, BridgeInv, NoForesight, OneAttachment, LateKnown,
     PassesSound, SkippedIsMirrored, WrittenUnderLock, Running, Mirroring, Idle
<1>3. QED
  BY <1>1, <1>2

\* A step that changes nothing keeps the invariant.
LEMMA BridgeStutterKeeps ==
    ASSUME BridgeInv, UNCHANGED bridgeVars
    PROVE  BridgeInv'
  BY DEF bridgeVars, fileState, bridgeHistory, BridgeInv, BridgeTypes, BridgeTypeOK,
     NoForesight, OneAttachment, LateKnown, PassesSound, PassSound, Ahead,
     SkippedIsMirrored, WrittenUnderLock, Running, Mirroring, LinesOf

\* Every step keeps the invariant.
LEMMA BridgeStepInvariant == BridgeInv /\ [BridgeNext]_bridgeVars => BridgeInv'
  BY EditKeeps, RecordKeeps, TickKeeps, ReconcileNowKeeps, AppendedKeeps,
     MirroredKeeps, StatKeeps, ReadKeeps, LineKeeps, LineDoneKeeps,
     FileDoneKeeps, PassDoneKeeps, AttachKeeps, ReconnectKeeps, CloseLtmKeeps,
     ExitKeeps, BootKeeps, AttachFailsKeeps, ShutdownLtmKeeps, CrashKeeps,
     MaintainKeeps, BridgeStutterKeeps DEF BridgeNext, BridgeSteps

\* It implies what the runs check.
LEMMA BridgeInvariantSuffices == BridgeInv => BridgeTypeOK /\ BridgeSound
  BY DEF BridgeInv, BridgeTypes, BridgeSound

-----------------------------------------------------------------------------
(* All of them.                                                            *)

ServicesInv == PlanInv /\ BridgeInv /\ ProcessInv /\ PhaseInv /\ FeedInv

\* A component keeps its invariant in the steps of the others.
LEMMA ServicesStepInvariant == ServicesInv /\ [MCNext]_allVars => ServicesInv'
<1> SUFFICES ASSUME ServicesInv, [MCNext]_allVars PROVE ServicesInv'
  OBVIOUS
<1>1. /\ [PlanNext]_planVars /\ [BridgeNext]_bridgeVars /\ [ProcessNext]_procVars
      /\ [PhaseNext]_phaseVars /\ [BackfillNext]_feedVars
  BY DEF MCNext, allVars
<1>2. QED
  BY <1>1, PlanStepInvariant, BridgeStepInvariant, ProcessStepInvariant,
     PhaseStepInvariant, FeedStepInvariant DEF ServicesInv

-----------------------------------------------------------------------------
(* Theorems.                                                               *)

\* One process at a time is between the lock and its release, whoever died with
\* the lock in its hands, and each change of the plan starts from what the last
\* one returned -- as long as nobody died with the marker, and no snapshot was
\* appended to a torn line (plans.ts:20-22, 115-118).
THEOREM PlanIsKept == PlanSpec => [](PlanTypeOK /\ PlanExclusion /\ PlanKept)
  BY PlanInitInvariant, PlanStepInvariant, PlanInvariantSuffices, PTL DEF PlanSpec

\* Every variable of the bridge keeps its type, and no mtime that is noted is one
\* that no file has had.
THEOREM BridgeTypeCorrect == BridgeSpec => []BridgeTypeOK
  BY BridgeInitInvariant, BridgeStepInvariant, BridgeInvariantSuffices, PTL DEF BridgeSpec

\* However edits, appends, ticks, forced passes, failures, drains and maintenance
\* commands overlap: a file that the reconciler passes over has all its lines in
\* the store or known as missed, and what writes there holds the lock or had the
\* store in hand when the drain closed it (ltm-reconciler.ts:63-78, 205-244;
\* index.ts:338-368).
THEOREM BridgeIsSound == BridgeSpec => []BridgeSound
  BY BridgeInitInvariant, BridgeStepInvariant, BridgeInvariantSuffices, PTL DEF BridgeSpec

\* One backfill runs at a time, only its own command cancels it, and one that is
\* done has taken every file or warned of it (server.ts:276-281,
\* backfill-job.ts:31-36).
THEOREM BackfillIsSound == BackfillSpec => []BackfillSound
  BY FeedInitInvariant, FeedStepInvariant, FeedInvariantSuffices, PTL DEF BackfillSpec

\* Whatever the ticks of cron overlap, lose or leave half done, a task is created
\* after what it waits for is on the main branch, and what the file calls merged
\* is; one tick after the other, only what is green is merged, and if none is cut
\* short no key gets two tasks, nor a task two implementations (phase-lib.sh).
THEOREM PhaseGoesInOrder == PhaseSpec => []LaunchedInOrder
  BY PhaseInitInvariant, PhaseStepInvariant, PhaseInvariantSuffices, PTL DEF PhaseSpec

\* Each service is consistent, whatever the sets of processes, commands, lines,
\* keys and files, and whatever the bounds.
THEOREM ServicesAreConsistent == MCSpec => []ServicesConsistent
<1>1. MCInit => ServicesInv
  BY PlanInitInvariant, BridgeInitInvariant, ProcessInitInvariant,
     PhaseInitInvariant, FeedInitInvariant DEF MCInit, ServicesInv
<1>2. ServicesInv => ServicesConsistent
  BY PlanInvariantSuffices, PhaseInvariantSuffices, FeedInvariantSuffices
     DEF ServicesInv, ServicesConsistent, BridgeInv, BridgeTypes, ProcessInv
<1>3. QED
  BY <1>1, <1>2, ServicesStepInvariant, PTL DEF MCSpec
=============================================================================

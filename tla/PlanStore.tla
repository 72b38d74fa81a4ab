------------------------------ MODULE PlanStore ------------------------------
(***************************************************************************)
(* The plan of one session (server/src/plans.ts): a log of snapshots of    *)
(* which the last readable one counts, written under a lock file that      *)
(* processes sharing a data directory respect.  A lock older than a second *)
(* is taken for dead; a second file, the marker, decides who removes it.   *)
(*                                                                         *)
(* A plan maps the number of an item (p1, p2, ...) to its status.          *)
(***************************************************************************)
EXTENDS Integers, FiniteSetsExt, SequencesExt

CONSTANTS
    Procs,            \* processes or worker threads on one data directory
    MaxItems,         \* bound: items of a plan
    CompactAfter,     \* COMPACT_AFTER_LINES
    MaxDeaths         \* bound: processes that die in the middle of something

ASSUME PlanAssumption ==
    /\ "nobody" \notin Procs
    /\ MaxItems \in Nat /\ CompactAfter \in Nat \ {0} /\ MaxDeaths \in Nat

VARIABLES
    at,        \* where each process stands in set() or update()
    lockFile,  \* .<session>.jsonl.lock: whose it is, and whether it looks stale
    marker,    \* the .reclaim file beside it, likewise
    lines,     \* <session>.jsonl
    unended,   \* whether its last line lacks the newline
    draft,     \* the snapshot each process is about to append
    base,      \* what it was made from: the plan read by update()
    acked,     \* history: the snapshot appended last
    orphaned,  \* history: somebody died while it held the marker
    swallowed, \* history: a snapshot was appended to a torn line
    deaths

planFiles == <<lockFile, marker, lines, unended>>
planHistory == <<acked, orphaned, swallowed, deaths>>
planVars == <<at, planFiles, draft, base, planHistory>>

Statuses == {"pending", "done"}
Plans == UNION {[S -> Statuses] : S \in SUBSET (1..MaxItems)}
NoPlan == <<>>
Garbage == [i \in {0} |-> "torn"]
NoFile == [owner |-> "nobody", old |-> FALSE]
LockOf(p) == [owner |-> p, old |-> FALSE]

Holding == {"held", "drafted", "appended", "releasing", "unlinking"}
Reclaiming == {"marked", "renaming", "unmarking"}
Holders == {p \in Procs : at[p] \in Holding}

PlanInit ==
    /\ at = [p \in Procs |-> "idle"]
    /\ lockFile = NoFile /\ marker = NoFile
    /\ lines = <<>> /\ unended = FALSE
    /\ draft = [p \in Procs |-> NoPlan] /\ base = [p \in Procs |-> NoPlan]
    /\ acked = NoPlan /\ orphaned = FALSE /\ swallowed = FALSE /\ deaths = 0

Go(p, place) == at' = [at EXCEPT ![p] = place]

\* current(): the last line that can be read; no plan reads as an empty one.
Current ==
    LET good == {i \in DOMAIN lines : lines[i] # Garbage}
    IN  IF good = {} THEN NoPlan ELSE lines[Max(good)]

\* update(): edits of status, removals, then additions numbered from above the
\* largest number that is left.
Edited(plan, edits, removed, added) ==
    LET kept == DOMAIN plan \ removed
        top == Max(kept \cup {0})
    IN  [i \in kept \cup (top + 1)..(top + added) |->
            IF i \notin kept THEN "pending"
            ELSE IF i \in DOMAIN edits THEN edits[i] ELSE plan[i]]

-----------------------------------------------------------------------------
(* acquireSessionLock().                                                   *)

\* A tool, plan_set or plan_update, wants the lock.
Want(p) ==
    /\ at[p] = "idle"
    /\ Go(p, "waiting")
    /\ UNCHANGED <<planFiles, draft, base, planHistory>>

\* One turn of the loop: the lock file is created, or is there and looks stale,
\* or is there and fresh; then the caller sleeps, or after two seconds throws.
Try(p) ==
    /\ at[p] = "waiting"
    /\ \/ /\ lockFile = NoFile
          /\ lockFile' = LockOf(p)
          /\ Go(p, "held")
       \/ /\ lockFile # NoFile
          /\ Go(p, IF lockFile.old THEN "suspecting" ELSE "idle")
          /\ UNCHANGED lockFile
    /\ UNCHANGED <<marker, lines, unended, draft, base, planHistory>>

\* A slip of Mark: a marker is respected, however old it is.
MarkRespected(p) ==
    /\ at[p] = "suspecting"
    /\ \/ /\ marker = NoFile
          /\ marker' = LockOf(p)
          /\ Go(p, "marked")
       \/ marker # NoFile /\ Go(p, "waiting") /\ UNCHANGED marker
    /\ UNCHANGED <<lockFile, lines, unended, draft, base, planHistory>>

\* acquireReclaimMarker(): one reclaims; the others go round again, and one that
\* finds the marker itself abandoned removes it.
Mark(p) ==
    /\ at[p] = "suspecting"
    /\ \/ /\ marker = NoFile
          /\ marker' = LockOf(p)
          /\ Go(p, "marked")
       \/ /\ marker # NoFile
          /\ Go(p, IF marker.old THEN "clearing" ELSE "waiting")
          /\ UNCHANGED marker
    /\ UNCHANGED <<lockFile, lines, unended, draft, base, planHistory>>

ClearMarker(p) ==
    /\ at[p] = "clearing"
    /\ marker' = NoFile
    /\ Go(p, "waiting")
    /\ UNCHANGED <<lockFile, lines, unended, draft, base, planHistory>>

\* A slip of Recheck: the lock is renamed on the word of the first look.
RecheckSkipped(p) ==
    /\ at[p] = "marked"
    /\ Go(p, "renaming")
    /\ UNCHANGED <<planFiles, draft, base, planHistory>>

\* reclaimStaleLock(): it is looked at again under the marker ...
Recheck(p) ==
    /\ at[p] = "marked"
    /\ Go(p, IF lockFile.old THEN "renaming" ELSE "unmarking")
    /\ UNCHANGED <<planFiles, draft, base, planHistory>>

\* ... and renamed away, whatever it is by now.
Rename(p) ==
    /\ at[p] = "renaming"
    /\ lockFile' = NoFile
    /\ Go(p, "unmarking")
    /\ UNCHANGED <<marker, lines, unended, draft, base, planHistory>>

Unmark(p) ==
    /\ at[p] = "unmarking"
    /\ marker' = NoFile
    /\ Go(p, "waiting")
    /\ UNCHANGED <<lockFile, lines, unended, draft, base, planHistory>>

-----------------------------------------------------------------------------
(* Under the lock.                                                         *)

\* set() replaces the plan; update() reads it, and throws on an unknown item.
Draft(p) ==
    /\ at[p] = "held"
    /\ \/ \E n \in 0..MaxItems :
             /\ draft' = [draft EXCEPT ![p] = [i \in 1..n |-> "pending"]]
             /\ base' = [base EXCEPT ![p] = acked]
             /\ Go(p, "drafted")
       \/ \E removed \in SUBSET DOMAIN Current, added \in 0..1,
             edits \in UNION {[S -> Statuses] : S \in SUBSET DOMAIN Current} :
             /\ draft' = [draft EXCEPT ![p] =
                             Edited(Current, edits, removed, added)]
             /\ draft'[p] \in Plans
             /\ base' = [base EXCEPT ![p] = Current]
             /\ Go(p, "drafted")
       \/ Go(p, "releasing") /\ UNCHANGED <<draft, base>>
    /\ UNCHANGED <<planFiles, planHistory>>

\* The line that a snapshot ends up in: one begun by a write that was cut
\* short is spoilt, and the snapshot with it.
WithLine(snapshot) ==
    IF unended THEN [lines EXCEPT ![Len(lines)] = Garbage]
    ELSE Append(lines, snapshot)

\* persist().
Persist(p) ==
    /\ at[p] = "drafted"
    /\ lines' = WithLine(draft[p])
    /\ unended' = FALSE
    /\ acked' = draft[p]
    /\ swallowed' = unended
    /\ base' = [base EXCEPT ![p] = NoPlan]
    /\ Go(p, "appended")
    /\ UNCHANGED <<lockFile, marker, draft, orphaned, deaths>>

\* compactIfNeeded() and atomicRewrite(): the snapshot just written is all that
\* a long log keeps -- the one in hand, not the one a reader would find.
CompactIfNeeded(p) ==
    /\ at[p] = "appended"
    /\ \/ /\ Len(lines) > CompactAfter
          /\ lines' = <<draft[p]>>
          /\ swallowed' = FALSE
       \/ Len(lines) =< CompactAfter /\ UNCHANGED <<lines, swallowed>>
    /\ draft' = [draft EXCEPT ![p] = NoPlan]
    /\ Go(p, "releasing")
    /\ UNCHANGED <<lockFile, marker, unended, base, acked, orphaned, deaths>>

\* The release reads the token, then unlinks the file by name.
CheckToken(p) ==
    /\ at[p] = "releasing"
    /\ Go(p, IF lockFile.owner = p THEN "unlinking" ELSE "idle")
    /\ UNCHANGED <<planFiles, draft, base, planHistory>>

Unlink(p) ==
    /\ at[p] = "unlinking"
    /\ lockFile' = NoFile
    /\ Go(p, "idle")
    /\ UNCHANGED <<marker, lines, unended, draft, base, planHistory>>

-----------------------------------------------------------------------------
(* Time and death.                                                         *)

\* A process dies, its files stay.  An append may be cut short.
Die(p) ==
    /\ deaths < MaxDeaths /\ at[p] # "idle"
    /\ deaths' = deaths + 1
    /\ \/ UNCHANGED <<lines, unended>>
       \/ /\ at[p] = "drafted"
          /\ lines' = WithLine(Garbage)
          /\ unended' = TRUE
    /\ orphaned' = (orphaned \/ at[p] \in Reclaiming)
    /\ draft' = [draft EXCEPT ![p] = NoPlan] /\ base' = [base EXCEPT ![p] = NoPlan]
    /\ Go(p, "idle")
    /\ UNCHANGED <<lockFile, marker, acked, swallowed>>

\* A second goes by.  Whoever is alive works in milliseconds: only what the dead
\* left behind gets old.
AgeLock ==
    /\ lockFile # NoFile /\ ~lockFile.old
    /\ lockFile.owner \notin Holders
    /\ lockFile' = [lockFile EXCEPT !.old = TRUE]
    /\ UNCHANGED <<at, marker, lines, unended, draft, base, planHistory>>

AgeMarker ==
    /\ marker # NoFile /\ ~marker.old
    /\ at[marker.owner] \notin Reclaiming
    /\ marker' = [marker EXCEPT !.old = TRUE]
    /\ UNCHANGED <<at, lockFile, lines, unended, draft, base, planHistory>>

-----------------------------------------------------------------------------
PlanStep(p) ==
    \/ Try(p) \/ Mark(p) \/ ClearMarker(p) \/ Recheck(p) \/ Rename(p) \/ Unmark(p)
    \/ Draft(p) \/ Persist(p) \/ CompactIfNeeded(p) \/ CheckToken(p) \/ Unlink(p)

PlanNext ==
    \/ \E p \in Procs : Want(p) \/ PlanStep(p) \/ Die(p)
    \/ AgeLock \/ AgeMarker

\* Processes go on, and a second passes.
PlanFairness ==
    /\ \A p \in Procs : WF_planVars(PlanStep(p))
    /\ WF_planVars(AgeLock) /\ WF_planVars(AgeMarker)

PlanSpec == PlanInit /\ [][PlanNext]_planVars /\ PlanFairness

-----------------------------------------------------------------------------
(* Properties.                                                             *)

LockFiles == [owner : Procs \cup {"nobody"}, old : BOOLEAN]

PlanTypeOK ==
    /\ at \in [Procs -> Holding \cup Reclaiming \cup
                        {"idle", "waiting", "suspecting", "clearing"}]
    /\ lockFile \in LockFiles /\ marker \in LockFiles
    /\ lines \in Seq(Plans \cup {Garbage})
    /\ orphaned \/ Len(lines) =< CompactAfter + 1 + MaxDeaths
    /\ unended \in BOOLEAN
    /\ draft \in [Procs -> Plans] /\ base \in [Procs -> Plans]
    /\ acked \in Plans
    /\ orphaned \in BOOLEAN /\ swallowed \in BOOLEAN
    /\ deaths \in 0..MaxDeaths

\* One process at a time is between the lock and its release, whoever died with
\* the lock in its hands (plans.ts:115-118) -- as long as nobody died with the
\* marker: then two processes can each find it abandoned, one of them removes
\* the other's fresh marker, and a fresh lock is renamed away.
PlanExclusion == orphaned \/ Cardinality(Holders) =< 1

\* What set() and update() returned is what current() reads next, across
\* processes, compactions and deaths, and no update is made from anything
\* older (plans.ts:20-22).  The exception is a snapshot appended to a line that
\* a death cut short: it is acknowledged and cannot be read.
PlanKept ==
    orphaned \/
    /\ ~swallowed => Current = acked
    /\ ~swallowed => \A p \in Procs : at[p] = "drafted" => base[p] = acked

\* Nobody waits for good behind a dead process (plans.ts:51-55).
PlanLockFreed ==
    \A p \in Procs : at[p] = "waiting" ~> at[p] \in {"held", "idle"}
=============================================================================

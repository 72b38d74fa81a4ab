----------------------------- MODULE SessionReader -----------------------------
(***************************************************************************)
(* How the long-term memory reads a chat session's file                    *)
(* (packages/ltm/src/session/reader.ts): the file as the agent library     *)
(* appends to it -- a tree of entries, one to a line, with jumps to an     *)
(* earlier entry and lines that were only partly written -- and the turns  *)
(* that the reader takes from it.                                          *)
(***************************************************************************)
EXTENDS Naturals, Sequences, SequencesExt

CONSTANTS
    MaxEntries,   \* bound: lines of the file
    MaxJumps, MaxTorn  \* bounds: jumps; torn lines

ASSUME ReaderAssumption == {MaxEntries, MaxJumps, MaxTorn} \subseteq Nat

VARIABLES
    tree,  \* the lines after the header; the line of an entry is its id
    tip,      \* the entry that the next one comes after, 0 at the root
    jumps, torn

readerVars == <<tree, tip, jumps, torn>>

\* What an entry is to the reader: a text of the user, of the agent, a message
\* without text (a tool's result, thinking), a summary of a compaction, another.
Kinds == {"user", "assistant", "silent", "summary", "other"}
WithText == {"user", "assistant", "summary"}
Torn == [kind |-> "torn", parent |-> 0]

ReaderInit == tree = <<>> /\ tip = 0 /\ jumps = 0 /\ torn = 0

-----------------------------------------------------------------------------
(* The file.                                                               *)

AppendEntry(kind) ==
    /\ Len(tree) < MaxEntries
    /\ tree' = Append(tree, [kind |-> kind, parent |-> tip])
    /\ tip' = Len(tree) + 1
    /\ UNCHANGED <<jumps, torn>>

\* A leaf entry: the session goes on from an earlier entry, or from the root.
\* It moves no further with what is appended later, so that is not read, until
\* there is another leaf entry.
JumpTo(target) ==
    /\ Len(tree) < MaxEntries /\ jumps < MaxJumps
    /\ jumps' = jumps + 1
    /\ tree' = Append(tree, [kind |-> "leaf", parent |-> tip, target |-> target])
    /\ tip' = target
    /\ UNCHANGED torn

\* The disk is full: the line is not whole, though the process has the entry.
TearEntry ==
    /\ Len(tree) < MaxEntries /\ torn < MaxTorn
    /\ torn' = torn + 1
    /\ tree' = Append(tree, Torn)
    /\ tip' = Len(tree) + 1
    /\ UNCHANGED jumps

ReaderNext ==
    \/ \E kind \in Kinds : AppendEntry(kind)
    \/ \E target \in {0} \cup {i \in 1..Len(tree) : tree[i].kind \in Kinds} :
          JumpTo(target)
    \/ TearEntry

ReaderSpec == ReaderInit /\ [][ReaderNext]_readerVars

-----------------------------------------------------------------------------
(* readSessionFile().                                                      *)

LinesOf(f) == 1..Len(f)
LastOf(S) == CHOOSE i \in S \cup {0} : \A j \in S : j <= i

\* parseEntry(): a line that is not an entry is skipped.
Readable(f) == {i \in LinesOf(f) : f[i].kind \notin {"torn", "leaf"}}

\* The latest leaf entry, or else the last entry, says where the branch ends.
Anchor(f) ==
    LET leaves == {i \in LinesOf(f) : f[i].kind = "leaf"}
    IN IF leaves # {} THEN f[LastOf(leaves)].target ELSE LastOf(Readable(f))

\* A slip of ActiveBranch: those that the model still sees after a compaction.
ActiveBranchInContext(f) ==
    LET from[i \in 0..Len(f)] ==
            IF i \notin Readable(f) THEN <<>>
            ELSE IF f[i].kind = "summary" THEN <<i>> ELSE Append(from[f[i].parent], i)
    IN from[Anchor(f)]

\* From an entry the parents are followed to the root, or to one that is not there.
Branches(f) ==
    LET upTo[i \in 0..Len(f)] ==
            IF i \in Readable(f) THEN Append(upTo[f[i].parent], i) ELSE <<>>
    IN upTo

ActiveBranch(f) == Branches(f)[Anchor(f)]

\* The loop over the entries of a branch: those with a text are turns.
TurnsAlong(f, branch) ==
    LET upTo[n \in 0..Len(branch)] ==
            IF n = 0 THEN <<>>
            ELSE IF f[branch[n]].kind \in WithText THEN Append(upTo[n - 1], branch[n])
            ELSE upTo[n - 1]
    IN upTo

TurnsOf(f) == TurnsAlong(f, ActiveBranch(f))[Len(ActiveBranch(f))]

-----------------------------------------------------------------------------
(* Properties.                                                             *)

ReaderTypeOK ==
    /\ \A i \in LinesOf(tree) : tree[i].kind \in Kinds \cup {"leaf", "torn"}
    /\ tip \in 0..Len(tree)

\* The branch that ends at a: an entry is off it if a set without it has a and,
\* with an entry, its parent.  The root is before all.
Branch(f, a) ==
    {i \in LinesOf(f) : ~\E S \in SUBSET (LinesOf(f) \ {i}) :
        a \in S \cup {0} /\ \A j \in S : f[j].parent \in S \cup {0}}

\* The turns of a file that is not torn are those of its active branch, "the path
\* from the latest leaf entry's target to the root (or from the last entry when
\* no leaf entry exists)" (session/format.ts:8-10), each once and in order:
\* whatever was abandoned by a jump is not learned, and what a compaction took
\* from the context still is.
TurnsOfTheBranch ==
    LET turns == TurnsOf(tree)
        asked == {i \in Branch(tree, Anchor(tree)) : tree[i].kind \in WithText}
    IN /\ \A k \in 2..Len(turns) : turns[k - 1] < turns[k]
       /\ IF torn = 0 THEN ToSet(turns) = asked ELSE ToSet(turns) \subseteq asked

\* What a pipeline reads of a session is its active branch, and it stays in its
\* place when the file grows, unless the session jumps, or has a torn line: by
\* that a later reading learns only what is new.
ReaderSound ==
    [][tree' # tree =>
        /\ TurnsOfTheBranch'
        /\ jumps' = jumps /\ torn' = 0 => IsPrefix(TurnsOf(tree), TurnsOf(tree)')]_readerVars

\* Not so, though "a memory pipeline must keep working over a store with one bad
\* write in it" (reader.ts:4-6): the entry after a torn line has a parent that is
\* not there, and all turns before it are gone with the warning.
OneBadWriteIsOneTurn ==
    torn = 1 /\ jumps = 0 =>
        \A i \in Readable(tree) : tree[i].kind \in WithText => i \in ToSet(TurnsOf(tree))
===============================================================================

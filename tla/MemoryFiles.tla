---------------------------- MODULE MemoryFiles ----------------------------
(***************************************************************************)
(* The markdown store of the agent's memory (server/src/memory/store): the *)
(* four operations that change a file, each a read, a change and an atomic *)
(* rename under a lock per path, the template that is written without the  *)
(* lock (memory/consolidated/init-canonical-file.ts), and the git commit   *)
(* made after every so many of them.  Tool calls of one turn run in        *)
(* parallel.                                                               *)
(*                                                                         *)
(* A file is the set of its lines; a file without lines is not there.      *)
(***************************************************************************)
EXTENDS Naturals, Sequences, FiniteSetsExt

CONSTANTS
    Calls,        \* tool calls in progress at once
    Paths,
    WriteListed,  \* where a whole file may land (isAllowedWholeFileWrite)
    Lines,        \* the lines written, taken in order
    CommitEvery,  \* AUTO_COMMIT_EVERY
    MaxFileOps, MaxMishaps  \* bounds; a mishap is a failed commit, a restart
                            \* or a template

ASSUME FilesAssumption ==
    /\ IsFiniteSet(Calls) /\ WriteListed \subseteq Paths /\ Lines \subseteq Nat
    /\ CommitEvery \in Nat \ {0} /\ {MaxFileOps, MaxMishaps} \subseteq Nat

VARIABLES
    content,    \* the lines of each path
    op,         \* the operation of each call
    chain,      \* file-lock.ts: the calls waiting for each path, the first holds it
    pendingWrites,
    commit,     \* auto-commit.ts: where the commit in flight stands
    missing,    \* initCanonicalFile(): the paths it found no file at
    flushed,    \* startupFlushDone
    taken,      \* how many unsaved operations the commit in flight has staged
    unsaved,    \* operations that are in no commit
    landed,     \* history: lines that an operation put in a file
    dropped,    \* history: lines that an operation was asked to replace
    raced,      \* history: a file was moved during a change to it
    clobbered,  \* history: lines lost to a template, or with one
    behind,     \* history: a commit failed or was skipped, and none followed
    fileOps, mishaps

gitVars == <<pendingWrites, commit, flushed, taken, unsaved, behind>>
fileHistory == <<landed, dropped, raced, clobbered>>
fileVars == <<content, op, chain, missing, gitVars, fileHistory, fileOps, mishaps>>

NoOp == [kind |-> "none"]
Busy(c) == op[c] # NoOp
Unused == Lines \ (landed \cup {op[c].line : c \in {d \in Calls : Busy(d)}})
NewLine == Min(Unused)

FilesInit ==
    /\ content = [p \in Paths |-> {}]
    /\ op = [c \in Calls |-> NoOp] /\ chain = [p \in Paths |-> <<>>]
    /\ missing = {} /\ clobbered = {}
    /\ pendingWrites = 0 /\ commit = "none" /\ flushed = FALSE /\ taken = 0
    /\ unsaved = 0 /\ landed = {} /\ dropped = {} /\ raced = FALSE
    /\ behind = FALSE /\ fileOps = 0 /\ mishaps = 0

-----------------------------------------------------------------------------
(* append(), patch(), write(), move().                                     *)

Queue(c, p, request) ==
    /\ ~Busy(c) /\ fileOps < MaxFileOps
    /\ fileOps' = fileOps + 1
    /\ op' = [op EXCEPT ![c] = request]
    /\ chain' = [chain EXCEPT ![p] = Append(@, c)]
    /\ UNCHANGED <<content, missing, gitVars, fileHistory, mishaps>>

Request(kind, p, line, old, from) ==
    [kind |-> kind, path |-> p, line |-> line, old |-> old, from |-> from,
     base |-> {}, stage |-> "queued"]

StartAppend(c) ==
    \E p \in Paths :
        Unused # {} /\ Queue(c, p, Request("append", p, NewLine, NewLine, p))

\* patch() replaces text that the file has exactly once.
StartPatch(c) ==
    \E p \in Paths, old \in landed :
        Unused # {} /\ Queue(c, p, Request("patch", p, NewLine, old, p))

StartWrite(c) ==
    \E p \in WriteListed :
        Unused # {} /\ Queue(c, p, Request("write", p, NewLine, NewLine, p))

\* move() takes the lock of its destination only.
StartMove(c) ==
    \E p \in WriteListed, from \in Paths :
        /\ p # from /\ content[from] # {}
        /\ LET l == Min(content[from]) IN Queue(c, p, Request("move", p, l, l, from))

Holds(c) == Busy(c) /\ op[c].stage # "committing" /\ Head(chain[op[c].path]) = c

\* A slip of Reads: no lock.
ReadsUnlocked(c) ==
    /\ Busy(c) /\ op[c].stage = "queued"
    /\ op' = [op EXCEPT ![c].stage = "read", ![c].base = content[op[c].path]]
    /\ UNCHANGED <<content, chain, missing, gitVars, fileHistory, fileOps, mishaps>>

\* With the lock, the file is read (write() does not need to, move() looks
\* whether it is there).
Reads(c) ==
    /\ Holds(c) /\ op[c].stage = "queued"
    /\ op' = [op EXCEPT ![c].stage = "read", ![c].base = content[op[c].path]]
    /\ UNCHANGED <<content, chain, missing, gitVars, fileHistory, fileOps, mishaps>>

Refused(c) ==
    LET o == op[c]
    IN  \/ o.kind = "patch" /\ o.old \notin o.base
        \/ o.kind = "move" /\ (o.base # {} \/ content[o.from] = {})

Released(c) == [chain EXCEPT ![op[c].path] = Tail(@)]

\* The operation throws, and the next one of the path runs all the same.
Throws(c) ==
    /\ Busy(c) /\ op[c].stage = "read" /\ Refused(c)
    /\ op' = [op EXCEPT ![c] = NoOp]
    /\ chain' = Released(c)
    /\ UNCHANGED <<content, missing, gitVars, fileHistory, fileOps, mishaps>>

After(c) ==
    LET o == op[c]
    IN  CASE o.kind = "append" -> [content EXCEPT ![o.path] = o.base \cup {o.line}]
          [] o.kind = "patch"  -> [content EXCEPT ![o.path] = (o.base \ {o.old}) \cup {o.line}]
          [] o.kind = "write"  -> [content EXCEPT ![o.path] = {o.line}]
          [] o.kind = "move"   -> [content EXCEPT ![o.path] = content[o.from], ![o.from] = {}]

Replaced(c) ==
    CASE op[c].kind = "patch" -> {op[c].old}
      [] op[c].kind = "write" -> content[op[c].path]
      [] OTHER -> {}

\* maybeAutoCommit(): the first caller stays for the commits that are due, the
\* others return and leave theirs to it.
Counted(c) ==
    /\ pendingWrites' = pendingWrites + 1
    /\ unsaved' = unsaved + 1
    /\ IF commit = "none"
       THEN /\ commit' = IF flushed THEN "due" ELSE "flush"
            /\ op' = [op EXCEPT ![c].stage = "committing"]
       ELSE /\ op' = [op EXCEPT ![c] = NoOp]
            /\ UNCHANGED commit

MovedAway(c) ==
    /\ op[c].kind = "move"
    /\ \E d \in Calls : Busy(d) /\ op[d].stage = "read" /\ op[d].path = op[c].from

\* The file is replaced, or renamed, and the lock passes on.
Writes(c) ==
    /\ Busy(c) /\ op[c].stage = "read" /\ ~Refused(c)
    /\ content' = After(c)
    /\ chain' = Released(c)
    /\ landed' = landed \cup {op[c].line}
    /\ dropped' = dropped \cup Replaced(c)
    /\ raced' = (raced \/ MovedAway(c))
    /\ Counted(c)
    /\ UNCHANGED <<missing, clobbered, flushed, taken, behind, fileOps, mishaps>>

-----------------------------------------------------------------------------
(* initCanonicalFile(): a domain's file is made from a template, if there is *)
(* none; no lock is taken, and no write counted.                             *)

FindsNone(p) ==
    /\ missing = {} /\ content[p] = {} /\ mishaps < MaxMishaps
    /\ mishaps' = mishaps + 1
    /\ missing' = {p}
    /\ UNCHANGED <<content, op, chain, gitVars, fileHistory, fileOps>>

\* The directory is made meanwhile; what landed in the file since is lost, and
\* a change that has read it does not know of the template.
WritesTemplate(p) ==
    /\ p \in missing /\ Unused # {}
    /\ missing' = {}
    /\ content' = [content EXCEPT ![p] = {NewLine}]
    /\ landed' = landed \cup {NewLine}
    /\ clobbered' = clobbered \cup content[p] \cup
                     (IF \E c \in Calls : Busy(c) /\ op[c].stage = "read" /\ op[c].path = p
                      THEN {NewLine} ELSE {})
    /\ UNCHANGED <<op, chain, gitVars, dropped, raced, fileOps, mishaps>>

-----------------------------------------------------------------------------
(* The commit in flight.                                                   *)

\* Whoever started it returns when it is over.
Over ==
    /\ commit' = "none"
    /\ op' = [c \in Calls |-> IF Busy(c) /\ op[c].stage = "committing" THEN NoOp
                              ELSE op[c]]

\* maybeStartupFlush(): what an earlier process left is committed -- if git sees a
\* change to a tracked file and is not in the middle of a merge or a rebase.
Flush ==
    /\ commit = "flush"
    /\ \/ /\ commit' = "due" /\ flushed' = TRUE
          /\ behind' = (behind \/ unsaved > pendingWrites)
          /\ UNCHANGED taken
       \/ /\ commit' = "flushing" /\ taken' = unsaved
          /\ UNCHANGED <<flushed, behind>>
    /\ UNCHANGED <<content, op, chain, missing, pendingWrites, unsaved,
                   fileHistory, fileOps, mishaps>>

Due ==
    /\ commit = "due"
    /\ \/ /\ pendingWrites >= CommitEvery
          /\ commit' = "committing" /\ taken' = unsaved
          /\ UNCHANGED op
       \/ /\ pendingWrites < CommitEvery
          /\ Over
          /\ UNCHANGED taken
    /\ UNCHANGED <<content, chain, missing, pendingWrites, flushed, unsaved, behind,
                   fileHistory, fileOps, mishaps>>

\* git commit: of what was staged, while more may be written.
Committed ==
    /\ commit \in {"flushing", "committing"}
    /\ commit' = "due" /\ flushed' = TRUE
    /\ unsaved' = unsaved - taken /\ behind' = FALSE
    /\ pendingWrites' = IF commit = "committing" THEN pendingWrites - CommitEvery
                        ELSE pendingWrites
    /\ UNCHANGED <<content, op, chain, missing, taken, fileHistory, fileOps, mishaps>>

\* It fails: the counter stays, the next write tries again.
CommitFails ==
    /\ commit \in {"flushing", "committing"} /\ mishaps < MaxMishaps
    /\ mishaps' = mishaps + 1
    /\ behind' = TRUE
    /\ Over
    /\ UNCHANGED <<content, chain, missing, pendingWrites, flushed, taken, unsaved,
                   fileHistory, fileOps>>

\* The process is killed and started again; the counter is in memory.
Restart ==
    /\ mishaps < MaxMishaps
    /\ mishaps' = mishaps + 1
    /\ op' = [c \in Calls |-> NoOp] /\ chain' = [p \in Paths |-> <<>>]
    /\ missing' = {}
    /\ pendingWrites' = 0 /\ commit' = "none" /\ flushed' = FALSE
    /\ UNCHANGED <<content, taken, unsaved, behind, fileHistory, fileOps>>

-----------------------------------------------------------------------------
FilesNext ==
    \/ \E c \in Calls :
          \/ StartAppend(c) \/ StartPatch(c) \/ StartWrite(c) \/ StartMove(c)
          \/ Reads(c) \/ Throws(c) \/ Writes(c)
    \/ \E p \in Paths : FindsNone(p) \/ WritesTemplate(p)
    \/ Flush \/ Due \/ Committed \/ CommitFails
    \/ Restart

FilesSpec == FilesInit /\ [][FilesNext]_fileVars

-----------------------------------------------------------------------------
(* Properties.                                                             *)

FilesTypeOK ==
    /\ content \in [Paths -> SUBSET Lines]
    /\ \A c \in Calls : Busy(c) =>
          /\ op[c].stage \in {"queued", "read", "committing"}
          /\ op[c].stage # "committing" =>
                \E i \in DOMAIN chain[op[c].path] : chain[op[c].path][i] = c
    /\ commit \in {"none", "flush", "flushing", "due", "committing"}
    /\ pendingWrites \in 0..MaxFileOps /\ unsaved \in 0..MaxFileOps
    /\ missing \subseteq Paths /\ taken \in Nat /\ flushed \in BOOLEAN

\* No update is lost to a parallel one: a line that an operation put in a file
\* is in some file until an operation is asked to replace it, and it is in one
\* file only (file-lock.ts:4-13).  The exception is a file that is moved away
\* while a change to it is between its read and its rename: move() locks only
\* its destination, and the change recreates the file that was moved.  The other
\* exception is a template written over a file that came into being after
\* initCanonicalFile() had looked for it (init-canonical-file.ts:101-107).
NoLostUpdate ==
    /\ landed \ (dropped \cup clobbered) \subseteq UNION {content[p] : p \in Paths}
    /\ raced \/ \A p, q \in Paths : p # q => content[p] \cap content[q] = {}

\* Not so: "`init_canonical_file` skips existing files" (server/skills/cog.md:202).
ExistingIsSkipped == clobbered = {}

\* When no commit is under way, fewer writes than AUTO_COMMIT_EVERY are in no
\* commit, over parallel writers and restarts -- unless git failed or the flush
\* at startup was skipped, and until a commit works (auto-commit.ts:28-39).
CommitsKeepUp ==
    commit = "none" /\ flushed /\ ~behind => unsaved < CommitEvery

\* What is written is kept: no line of a parallel writer is lost from the files,
\* and what has piled up in them is committed.
FilesSound == NoLostUpdate /\ CommitsKeepUp
=============================================================================

----------------------------- MODULE SessionFile -----------------------------
(***************************************************************************)
(* One chat session on disk and what is derived from it: its transcript    *)
(* (the append-only JSONL file of pi-agent-core's repository, external),   *)
(* the sidecars for archiving and the working directory, its row in the    *)
(* sqlite index, and the session object that a process has open            *)
(* (server/src/manager.ts, compaction.ts, indexer.ts, archive-store.ts,    *)
(* workdirs.ts and the session routes of server.ts).                       *)
(*                                                                         *)
(* The latest entry of a kind counts, so a file is the record of those.    *)
(* An append under way lands at some time; other calls go on meanwhile.    *)
(* How turns start is module Session's.                                    *)
(***************************************************************************)
EXTENDS Naturals, FiniteSetsExt

CONSTANTS
    UserTitles, Generated, NoTitle,  \* titles: the user's, the model's, none
    FileModes, Yolo, InitialMode,    \* approval modes, the one a file without an
                                     \* entry has, the configured one
    Dirs,
    Requests,       \* requests under way at once
    KeepBackups,    \* backups that pruning leaves (3)
    MaxAnswers, MaxEvents  \* bounds: messages; requests, compactions and crashes

ASSUME SessionFileAssumption ==
    /\ NoTitle \notin UserTitles \cup {Generated} /\ Generated \notin UserTitles
    /\ {Yolo, InitialMode} \subseteq FileModes
    /\ KeepBackups \in Nat \ {0}
    /\ {MaxAnswers, MaxEvents} \subseteq Nat

VARIABLES
    file,         \* the transcript
    archived,     \* archived/<id>.jsonl
    workdir,      \* workdirs/<id>.jsonl
    row,          \* the session's row of the index, or NoRow
    serverUp,
    creating,     \* createSession() waits for the entry of its mode
    opened,       \* the process has the session open
    opening,      \* openSession() calls under way
    built,        \* session objects, each with a harness, of this process
    toolsIn,      \* the directory that the tools of the harness work in
    inTurn,       \* opened.running
    pendingTitle, \* opened.pendingTitle
    flush,        \* the title that agent_end is about to append
    titler,       \* maybeGenerateTitle() calls, by how far they are
    request,
    comp,         \* the compaction under way
    backup,       \* what its backup holds
    backups,      \* the backups there are, numbered by age
    pruning,      \* pruneOldBackups() calls under way
    overtaken,    \* history: a title was appended after a later one
    rolledBack,   \* history: a restore undid an entry
    spoilt,       \* history: a compaction spoilt the file and could not put it back
    events

sidecars == <<archived, workdir>>
object == <<opened, opening, built, toolsIn>>
titles == <<pendingTitle, flush, titler>>
compState == <<comp, backup, backups, pruning>>
pastOfFile == <<overtaken, rolledBack, spoilt>>
sfVars == <<file, sidecars, row, serverUp, creating, object, inTurn, titles, request,
            compState, pastOfFile, events>>

NoRow == [title |-> NoTitle, mode |-> Yolo, archived |-> FALSE, last |-> 0, there |-> FALSE]
NoSession == [title |-> NoTitle, mode |-> Yolo, last |-> 0, there |-> FALSE, sound |-> TRUE]
NoComp == [at |-> "none", inline |-> FALSE, copy |-> 0]
Unasked == [at |-> "none", kind |-> "none", value |-> NoTitle]
NoTitlers == [s \in {"due", "asking", "writing"} |-> 0]

Closed ==
    /\ creating = FALSE /\ opened = FALSE /\ opening = 0 /\ built = 0
    /\ inTurn = FALSE /\ pendingTitle = NoTitle /\ flush = NoTitle /\ titler = NoTitlers
    /\ request = [r \in Requests |-> Unasked]
    /\ comp = NoComp /\ pruning = 0

SessionFileInit ==
    /\ file = NoSession /\ archived = FALSE /\ workdir \in Dirs /\ row = NoRow
    /\ serverUp = TRUE /\ Closed /\ toolsIn = workdir
    /\ backup = NoSession /\ backups = {}
    /\ overtaken = FALSE /\ rolledBack = FALSE /\ spoilt = FALSE
    /\ events = 0

-----------------------------------------------------------------------------
(* Creating, opening.                                                      *)

\* createSession(): the file is there before the entry that says its mode ...
CreateFile ==
    /\ serverUp /\ ~file.there /\ ~creating
    /\ file' = [file EXCEPT !.there = TRUE]
    /\ creating' = TRUE
    /\ UNCHANGED <<sidecars, row, serverUp, object, inTurn, titles, request, compState,
                   pastOfFile, events>>

\* ... and the row comes last.
CreateRow ==
    /\ creating
    /\ creating' = FALSE
    /\ file' = [file EXCEPT !.mode = InitialMode]
    /\ row' = [NoRow EXCEPT !.there = TRUE, !.mode = InitialMode, !.archived = archived]
    /\ opened' = TRUE /\ built' = built + 1 /\ toolsIn' = workdir
    /\ UNCHANGED <<sidecars, serverUp, opening, inTurn, titles, request, compState,
                   pastOfFile, events>>

Payload ==
    [at : {"asked"}, kind : {"rename"}, value : UserTitles]
    \cup [at : {"asked"}, kind : {"mode"}, value : FileModes]
    \cup [at : {"asked"}, kind : {"title"}, value : {NoTitle}]

\* PATCH, POST approval-mode or regenerate-title: getOrOpen() joins an opening
\* under way or begins one.
Ask(r) ==
    /\ serverUp /\ row.there /\ request[r] = Unasked /\ events < MaxEvents
    /\ events' = events + 1
    /\ \E p \in Payload : request' = [request EXCEPT ![r] = p]
    /\ opening' = IF opened THEN opening ELSE 1
    /\ UNCHANGED <<file, sidecars, row, serverUp, creating, opened, built, toolsIn, inTurn,
                   titles, compState, pastOfFile>>

\* openSession(): the file is read and the harness wired to the directory of
\* that moment; a spoilt file throws, and so do the calls that wait.
OpenSession ==
    /\ opening > 0
    /\ opening' = opening - 1
    /\ IF file.sound
       THEN /\ opened' = TRUE /\ built' = built + 1 /\ toolsIn' = workdir
            /\ UNCHANGED request
       ELSE /\ request' = [r \in Requests |->
                              IF request[r].at = "asked" THEN Unasked ELSE request[r]]
            /\ UNCHANGED <<opened, built, toolsIn>>
    /\ UNCHANGED <<file, sidecars, row, serverUp, creating, inTurn, titles, compState,
                   pastOfFile, events>>

-----------------------------------------------------------------------------
(* Titles and modes.                                                       *)

\* rename() during a turn leaves the append to agent_end; it, setApprovalMode()
\* and rename() between turns append first and change the row after.
Act(r) ==
    /\ request[r].at = "asked" /\ opened
    /\ IF request[r].kind = "title"
       THEN /\ request' = [request EXCEPT ![r] = Unasked]
            /\ titler' = [titler EXCEPT !["due"] = @ + 1]
            /\ UNCHANGED <<row, pendingTitle>>
       ELSE IF request[r].kind = "rename" /\ inTurn
       THEN /\ request' = [request EXCEPT ![r] = Unasked]
            /\ pendingTitle' = request[r].value
            /\ row' = [row EXCEPT !.title = request[r].value]
            /\ UNCHANGED titler
       ELSE /\ request' = [request EXCEPT ![r].at = "writing"]
            /\ UNCHANGED <<row, pendingTitle, titler>>
    /\ UNCHANGED <<file, sidecars, serverUp, creating, object, inTurn, flush, compState,
                   pastOfFile, events>>

Landed(r) ==
    /\ request[r].at = "writing"
    /\ request' = [request EXCEPT ![r] = Unasked]
    /\ IF request[r].kind = "rename"
       THEN /\ file' = [file EXCEPT !.title = request[r].value]
            /\ row' = [row EXCEPT !.title = request[r].value]
            /\ overtaken' = FALSE
       ELSE /\ file' = [file EXCEPT !.mode = request[r].value]
            /\ row' = [row EXCEPT !.mode = request[r].value]
            /\ UNCHANGED overtaken
    /\ UNCHANGED <<sidecars, serverUp, creating, object, inTurn, titles, compState,
                   rolledBack, spoilt, events>>

Untitled == row.title = NoTitle /\ pendingTitle = NoTitle

\* maybeGenerateTitle() asks the model for a session with no title ...
TitleAsked ==
    /\ titler["due"] > 0
    /\ titler' = [titler EXCEPT !["due"] = @ - 1,
                     !["asking"] = IF Untitled /\ file.last > 0 THEN @ + 1 ELSE @]
    /\ UNCHANGED <<file, sidecars, row, serverUp, creating, object, inTurn, pendingTitle,
                   flush, request, compState, pastOfFile, events>>

\* ... whose answer, if it is one, counts when there is still none.
TitleAnswered ==
    /\ titler["asking"] > 0
    /\ \/ /\ titler' = [titler EXCEPT !["asking"] = @ - 1]
          /\ UNCHANGED <<row, pendingTitle>>
       \/ /\ Untitled /\ inTurn
          /\ titler' = [titler EXCEPT !["asking"] = @ - 1]
          /\ pendingTitle' = Generated
          /\ row' = [row EXCEPT !.title = Generated]
       \/ /\ Untitled /\ ~inTurn
          /\ titler' = [titler EXCEPT !["asking"] = @ - 1, !["writing"] = @ + 1]
          /\ UNCHANGED <<row, pendingTitle>>
    /\ UNCHANGED <<file, sidecars, serverUp, creating, object, inTurn, flush, request,
                   compState, pastOfFile, events>>

TitleLanded ==
    /\ titler["writing"] > 0
    /\ titler' = [titler EXCEPT !["writing"] = @ - 1]
    /\ file' = [file EXCEPT !.title = Generated]
    /\ row' = [row EXCEPT !.title = Generated]
    /\ overtaken' = FALSE
    /\ UNCHANGED <<sidecars, serverUp, creating, object, inTurn, pendingTitle, flush,
                   request, compState, rolledBack, spoilt, events>>

-----------------------------------------------------------------------------
(* Turns, as far as the file sees them, and the sidecars.                  *)

\* A turn begins with the user's message.
TurnStarts ==
    /\ opened /\ ~inTurn /\ row.last < MaxAnswers /\ comp = NoComp
    /\ inTurn' = TRUE
    /\ file' = [file EXCEPT !.last = row.last + 1]
    /\ row' = [row EXCEPT !.last = @ + 1]
    /\ UNCHANGED <<sidecars, serverUp, creating, object, titles, request, compState,
                   pastOfFile, events>>

\* message_end: the message is in the file, and recordMessageEnd() notes it.
MessageEnd ==
    /\ inTurn /\ comp = NoComp /\ row.last < MaxAnswers
    /\ file' = [file EXCEPT !.last = row.last + 1]
    /\ row' = [row EXCEPT !.last = @ + 1]
    /\ UNCHANGED <<sidecars, serverUp, creating, object, inTurn, titles, request, compState,
                   pastOfFile, events>>

\* A slip of TurnEnds: the title waits for the end of a turn in vain.
TurnEndsUnflushed ==
    /\ inTurn /\ comp = NoComp /\ flush = NoTitle
    /\ inTurn' = FALSE
    /\ pendingTitle' = NoTitle
    /\ titler' = [titler EXCEPT !["due"] = @ + 1]
    /\ UNCHANGED <<file, sidecars, row, serverUp, creating, object, flush, request,
                   compState, pastOfFile, events>>

\* agent_end: the pending title is to be appended, from a setTimeout, and a
\* title to be generated.  (A turn takes longer than an append.)
TurnEnds ==
    /\ inTurn /\ comp = NoComp /\ flush = NoTitle
    /\ inTurn' = FALSE
    /\ flush' = pendingTitle /\ pendingTitle' = NoTitle
    /\ titler' = [titler EXCEPT !["due"] = @ + 1]
    /\ UNCHANGED <<file, sidecars, row, serverUp, creating, object, request, compState,
                   pastOfFile, events>>

FlushTitle ==
    /\ flush # NoTitle
    /\ flush' = NoTitle
    /\ file' = [file EXCEPT !.title = flush]
    /\ overtaken' = (row.title # flush)
    /\ UNCHANGED <<sidecars, row, serverUp, creating, object, inTurn, pendingTitle, titler,
                   request, compState, rolledBack, spoilt, events>>

\* archiveSession(), unarchiveSession().
Archive ==
    /\ serverUp /\ row.there /\ events < MaxEvents
    /\ events' = events + 1
    /\ archived' = ~archived
    /\ row' = [row EXCEPT !.archived = ~archived]
    /\ UNCHANGED <<file, workdir, serverUp, creating, object, inTurn, titles, request,
                   compState, pastOfFile>>

\* POST cwd: applyWorkdirChange() gives an open session new tools.
SetWorkdir(d) ==
    /\ serverUp /\ row.there /\ events < MaxEvents
    /\ events' = events + 1
    /\ workdir' = d
    /\ toolsIn' = IF opened THEN d ELSE toolsIn
    /\ UNCHANGED <<file, archived, row, serverUp, creating, opened, opening, built, inTurn,
                   titles, request, compState, pastOfFile>>

-----------------------------------------------------------------------------
(* Compaction, within a turn (inline) or between turns.                    *)

\* The backup is copied and old ones are pruned on the side.
Backup ==
    /\ opened /\ comp = NoComp /\ events < MaxEvents
    /\ events' = events + 1
    /\ comp' = [at |-> "summarizing", inline |-> inTurn, copy |-> events + 1]
    /\ backup' = file
    /\ backups' = backups \cup {events + 1}
    /\ pruning' = pruning + 1
    /\ UNCHANGED <<file, sidecars, row, serverUp, creating, object, inTurn, titles, request,
                   pastOfFile>>

\* pruneOldBackups().
Prune ==
    /\ pruning > 0
    /\ pruning' = pruning - 1
    /\ backups' = {b \in backups : Cardinality({a \in backups : a > b}) < KeepBackups}
    /\ UNCHANGED <<file, sidecars, row, serverUp, creating, object, inTurn, titles, request,
                   comp, backup, pastOfFile, events>>

\* The model's summary takes its time; there may be none.
Summarized ==
    /\ comp.at = "summarizing"
    /\ comp' \in {NoComp, [comp EXCEPT !.at = "appending"]}
    /\ UNCHANGED <<file, sidecars, row, serverUp, creating, object, inTurn, titles, request,
                   backup, backups, pruning, pastOfFile, events>>

\* The compaction entry is appended, well, badly, or with an exception: then the
\* inline path restores; between turns it is a failed compaction, no more.
CompactionAppended ==
    /\ comp.at = "appending"
    /\ \E sound \in {file.sound, FALSE}, throws \in BOOLEAN :
          /\ file' = [file EXCEPT !.sound = sound]
          /\ comp' = IF ~throws THEN [comp EXCEPT !.at = "verifying"]
                     ELSE IF comp.inline THEN [comp EXCEPT !.at = "restoring"]
                     ELSE NoComp
          /\ spoilt' = (spoilt \/ (throws /\ ~comp.inline /\ ~sound))
    /\ UNCHANGED <<sidecars, row, serverUp, creating, object, inTurn, titles, request,
                   backup, backups, pruning, overtaken, rolledBack, events>>

\* verifySessionLoadable(): a file that does not load is restored inline, and
\* surrendered between turns.
Verify ==
    /\ comp.at = "verifying"
    /\ comp' = IF ~file.sound /\ comp.inline THEN [comp EXCEPT !.at = "restoring"]
               ELSE NoComp
    /\ spoilt' = (spoilt \/ (~file.sound /\ ~comp.inline))
    /\ UNCHANGED <<file, sidecars, row, serverUp, creating, object, inTurn, titles, request,
                   backup, backups, pruning, overtaken, rolledBack, events>>

\* restoreSessionFromBackup(): whatever was appended since the backup is gone.
\* Then, or if the copy fails, the surrender is told in a message.
Restore ==
    /\ comp.at = "restoring"
    /\ comp' = NoComp
    /\ row' = [row EXCEPT !.last = @ + 1]
    /\ \/ /\ comp.copy \in backups
          /\ file' = [backup EXCEPT !.last = row.last + 1]
          /\ rolledBack' = (rolledBack \/ backup.title # file.title
                                       \/ backup.mode # file.mode)
          /\ spoilt' = (spoilt /\ ~backup.sound)
       \/ /\ file' = [file EXCEPT !.last = row.last + 1]
          /\ spoilt' = (spoilt \/ ~file.sound)
          /\ UNCHANGED rolledBack
    /\ UNCHANGED <<sidecars, serverUp, creating, object, inTurn, titles, request, backup,
                   backups, pruning, overtaken, events>>

-----------------------------------------------------------------------------
(* The process.                                                            *)

\* The process dies, or drains; an append under way has landed or not.
ServerDies ==
    /\ serverUp /\ events < MaxEvents
    /\ events' = events + 1
    /\ serverUp' = FALSE
    /\ creating' = FALSE /\ opened' = FALSE /\ opening' = 0 /\ built' = 0
    /\ inTurn' = FALSE /\ pendingTitle' = NoTitle /\ flush' = NoTitle /\ titler' = NoTitlers
    /\ request' = [r \in Requests |-> Unasked]
    /\ comp' = NoComp /\ pruning' = 0
    /\ file' \in {file} \cup {[file EXCEPT !.title = request[r].value] :
                                r \in {q \in Requests : request[q].at = "writing"
                                                     /\ request[q].kind = "rename"}}
                        \cup {[file EXCEPT !.mode = request[r].value] :
                                r \in {q \in Requests : request[q].at = "writing"
                                                     /\ request[q].kind = "mode"}}
    /\ spoilt' = (spoilt \/ ~file.sound)
    /\ UNCHANGED <<sidecars, row, toolsIn, backup, backups, overtaken, rolledBack>>

\* What the file and the sidecars say.
Derived == [title |-> file.title, mode |-> file.mode, archived |-> archived,
            last |-> file.last, there |-> TRUE]

\* rebuildIndex(), at boot: a file that does not load has no row.
RebuildIndex ==
    /\ ~serverUp
    /\ serverUp' = TRUE
    /\ row' = IF file.there /\ file.sound THEN Derived ELSE NoRow
    /\ overtaken' = FALSE /\ rolledBack' = FALSE
    /\ UNCHANGED <<file, sidecars, creating, object, inTurn, titles, request, compState,
                   spoilt, events>>

-----------------------------------------------------------------------------
SessionFileNext ==
    \/ CreateFile \/ CreateRow \/ OpenSession
    \/ \E r \in Requests : Ask(r) \/ Act(r) \/ Landed(r)
    \/ TitleAsked \/ TitleAnswered \/ TitleLanded
    \/ TurnStarts \/ MessageEnd \/ TurnEnds \/ FlushTitle
    \/ Archive \/ \E d \in Dirs : SetWorkdir(d)
    \/ Backup \/ Prune \/ Summarized \/ CompactionAppended \/ Verify \/ Restore
    \/ ServerDies \/ RebuildIndex

SessionFileSpec == SessionFileInit /\ [][SessionFileNext]_sfVars

-----------------------------------------------------------------------------
(* Properties.                                                             *)

Titles == UserTitles \cup {Generated, NoTitle}
Answers == 0..(MaxAnswers + MaxEvents)

SessionFileTypeOK ==
    /\ file \in [title : Titles, mode : FileModes, last : Answers,
                 there : BOOLEAN, sound : BOOLEAN]
    /\ row \in [title : Titles, mode : FileModes, archived : BOOLEAN, last : Answers,
                there : BOOLEAN]
    /\ workdir \in Dirs /\ archived \in BOOLEAN
    /\ pendingTitle \in Titles /\ flush \in Titles
    /\ comp.at \in {"none", "summarizing", "appending", "verifying", "restoring"}
    /\ \A r \in Requests : request[r].at \in {"none", "asked", "writing"}
    /\ backups \subseteq 1..MaxEvents /\ pruning \in 0..MaxEvents
    /\ opening \in 0..1

\* Deleting the index loses nothing (docs/agents/OVERVIEW.md:265-266): what the
\* row says of title, mode, archiving and last message is what the next boot
\* makes of the files, over renames in a turn and between turns, generated
\* titles, toggles and crashes -- but for a title still to be appended, one that
\* an older title was appended after, and entries that a restore undid.
RowIsRebuilt ==
    serverUp /\ row.there =>
        /\ row.archived = archived /\ row.last = file.last
        /\ ~rolledBack => row.mode = file.mode
        /\ ~rolledBack /\ ~overtaken /\ pendingTitle = NoTitle /\ flush = NoTitle
              => row.title = file.title

\* A process builds one harness for a session however many requests open it at
\* once (manager.ts:315), and its tools work in the directory that was set last,
\* before, while or after it was opened.
OpenedOnce ==
    /\ built =< 1
    /\ opened => toolsIn = workdir

\* A transcript that an inline compaction spoilt is put back from its backup,
\* which pruning has spared; what stays spoilt is what was compacted between
\* turns, or could not be copied, or met a crash.
SpoiltIsRestored ==
    /\ ~file.sound => spoilt \/ comp.at \in {"verifying", "restoring"}
    /\ comp # NoComp => comp.copy \in backups

\* A session outlives what happens to it: its row can be made from its files, one
\* harness has it open, and its transcript comes through a compaction.
SessionFileSound == RowIsRebuilt /\ OpenedOnce /\ SpoiltIsRestored

\* Not so: "this also ensures read_only/ask can never silently downgrade to yolo on
\* restart" (manager.ts:289-290): where the user is shown another mode than yolo,
\* the next boot does not find yolo.
ModeSurvivesRestart == serverUp /\ row.there /\ row.mode # Yolo => file.mode # Yolo
=============================================================================

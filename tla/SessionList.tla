------------------------------ MODULE SessionList ------------------------------
(***************************************************************************)
(* The list of chats that a browser tab shows (web/src/useApp.ts and its   *)
(* Sidebar and ApprovalToggle) against the rows that the server has        *)
(* (manager.ts, indexer.ts and the session routes of server.ts).  The list *)
(* is fetched whole by HTTP and changed by the frames of the WebSocket and *)
(* by the tab's own clicks, which show before the server has agreed.       *)
(*                                                                         *)
(* There is one chat; any other changes nothing of its row.  What a row    *)
(* says of title and preview changes as its mode does and is left out.     *)
(***************************************************************************)
EXTENDS Naturals, Sequences, FiniteSetsExt

CONSTANTS MaxFetches, MaxClicks,      \* bounds: listSessions() and setApprovalMode()
                                      \* calls under way at once
          MaxHappenings, MaxFailures \* bounds: what users and agents start; what fails

ASSUME ListAssumption ==
    {MaxFetches, MaxClicks, MaxHappenings, MaxFailures} \subseteq Nat /\ MaxFetches # 0

VARIABLES
    chatRow,     \* the row of the index, with running and compacting
    turnDue,     \* running is set, and the agent has not started
    sideLinked, sideConnected,
    frames,      \* on the socket, to the tab
    listed,      \* sessions
    isCurrent,   \* the chat is the one open
    loadingRow,  \* getSession() of the chat is under way
    fetches,
    clicks,
    creation,    \* createSession()
    archiving,   \* archive or unarchive, of the Sidebar
    reading,     \* patchSession(unread: false) calls under way
    misled,      \* history: the tab was told something late, wrong or not at all,
                 \* and nothing since told it the whole row
    silent,      \* history: a turn that was due did not start, and no frame says so
    happened, failures

sideSocket == <<sideLinked, sideConnected, frames>>
sideCalls == <<fetches, clicks, creation, archiving, reading, loadingRow>>
listVars == <<chatRow, turnDue, sideSocket, listed, isCurrent, sideCalls, misled, silent,
              happened, failures>>

Modes3 == {"read_only", "ask", "yolo"}
NextMode == [read_only |-> "ask", ask |-> "yolo", yolo |-> "read_only"]
FreshRow == [mode |-> "ask", archived |-> FALSE, unread |-> FALSE, running |-> FALSE,
             compacting |-> FALSE]
NoChatRow == [FreshRow EXCEPT !.mode = "none"]

NoFetch == [at |-> "none", has |-> <<>>, overtaken |-> FALSE]
Asked == [NoFetch EXCEPT !.at = "asked"]
NoClick == [at |-> "none", mode |-> "ask", previous |-> "ask", overtaken |-> FALSE]

\* The mount effect connects, and fetches the list.
ListInit ==
    /\ chatRow \in {FreshRow, NoChatRow} /\ turnDue = FALSE
    /\ sideLinked = FALSE /\ sideConnected = FALSE /\ frames = <<>>
    /\ listed = <<>> /\ isCurrent = FALSE /\ loadingRow = FALSE
    /\ fetches = [l \in 1..MaxFetches |-> IF l = 1 THEN Asked ELSE NoFetch]
    /\ clicks = [k \in 1..MaxClicks |-> NoClick] /\ creation = NoFetch /\ archiving = "none"
    /\ reading = 0
    /\ misled = FALSE /\ silent = FALSE
    /\ happened = 0 /\ failures = 0

GoesWrong == failures < MaxFailures /\ failures' = failures + 1

Happens == happened < MaxHappenings /\ happened' = happened + 1

-----------------------------------------------------------------------------
(* The server.                                                             *)

There == chatRow # NoChatRow
Listing == IF There /\ ~chatRow.archived THEN <<chatRow>> ELSE <<>>

Meta(row) == [kind |-> "meta", row |-> row]
Frame(kind) == [kind |-> kind, row |-> chatRow']

Overtaken(call) == IF call.at = "answered" THEN [call EXCEPT !.overtaken = TRUE] ELSE call
Late(calls) == [l \in DOMAIN calls |-> Overtaken(calls[l])]

\* bus.emit(): a tab without a socket is not told; one that never had a socket
\* does not fetch the list again when it gets one.
EmitToTab(fs) ==
    /\ frames' = IF sideLinked THEN frames \o fs ELSE frames
    /\ fetches' = IF sideLinked THEN fetches ELSE Late(fetches)
    /\ misled' = (misled \/ ~sideConnected)

EmitFrames(fs) ==
    EmitToTab(fs) /\ creation' = IF sideLinked THEN creation ELSE Overtaken(creation)

Unsaid == UNCHANGED <<frames, fetches, creation, misled>>
Elsewhere == UNCHANGED <<sideLinked, sideConnected, listed, isCurrent, loadingRow>>
Aside == Elsewhere /\ UNCHANGED failures

\* sendMessage() sets running, and only the agent's start says so.
TurnIsDue ==
    /\ There /\ ~chatRow.running /\ Happens
    /\ chatRow' = [chatRow EXCEPT !.running = TRUE] /\ turnDue' = TRUE
    /\ Unsaid /\ Aside /\ UNCHANGED <<clicks, archiving, reading, silent>>

\* agent_start, or a prompt that is rejected before it.
AgentStarts ==
    /\ turnDue /\ turnDue' = FALSE
    /\ UNCHANGED chatRow /\ EmitFrames(<<Frame("start")>>)
    /\ Aside /\ UNCHANGED <<clicks, archiving, reading, silent, happened>>

PromptFails ==
    /\ turnDue /\ turnDue' = FALSE /\ GoesWrong
    /\ chatRow' = [chatRow EXCEPT !.running = FALSE]
    /\ silent' = TRUE
    /\ Unsaid /\ Elsewhere /\ UNCHANGED <<clicks, archiving, reading, happened>>

\* recordMessageEnd() of an assistant's message.
MessageIsWritten ==
    /\ chatRow.running /\ ~turnDue /\ ~chatRow.unread
    /\ chatRow' = [chatRow EXCEPT !.unread = TRUE]
    /\ EmitFrames(<<Meta(chatRow')>>)
    /\ Aside /\ UNCHANGED <<turnDue, clicks, archiving, reading, silent, happened>>

AgentHasEnded ==
    /\ chatRow.running /\ ~turnDue
    /\ chatRow' = [chatRow EXCEPT !.running = FALSE]
    /\ EmitFrames(<<Frame("end"), Meta(chatRow')>>)
    /\ Aside /\ UNCHANGED <<turnDue, clicks, archiving, reading, silent, happened>>

\* markCompactionStart(), markCompactionEnd().
MarkCompaction ==
    /\ There
    /\ IF chatRow.compacting THEN UNCHANGED happened ELSE Happens
    /\ chatRow' = [chatRow EXCEPT !.compacting = ~@]
    /\ EmitFrames(<<Frame("compacting"), Meta(chatRow')>>)
    /\ Aside /\ UNCHANGED <<turnDue, clicks, archiving, reading, silent>>

\* POST approval-mode: setApprovalMode() of the manager.
ModeArrives(k) ==
    /\ clicks[k].at = "asked"
    /\ clicks' = [clicks EXCEPT ![k].at = "answered"]
    /\ chatRow' = [chatRow EXCEPT !.mode = clicks[k].mode]
    /\ EmitFrames(<<Meta(chatRow'), Frame("mode")>>)
    /\ Aside /\ UNCHANGED <<turnDue, archiving, reading, silent, happened>>

\* PATCH unread: markRead().
ReadArrives ==
    /\ reading > 0 /\ reading' = reading - 1
    /\ chatRow' = [chatRow EXCEPT !.unread = FALSE]
    /\ EmitFrames(<<Meta(chatRow')>>)
    /\ Aside /\ UNCHANGED <<turnDue, clicks, archiving, silent, happened>>

\* archiveSession(), unarchiveSession().
ArchiveArrives ==
    /\ archiving = "asked" /\ archiving' = "answered"
    /\ chatRow' = [chatRow EXCEPT !.archived = ~@]
    /\ EmitFrames(<<Frame(IF chatRow.archived THEN "unarchived" ELSE "archived")>>)
    /\ Aside /\ UNCHANGED <<turnDue, clicks, reading, silent, happened>>

\* createSession() of the manager; its meta frame and its answer race.
CreateArrives ==
    /\ creation.at = "asked"
    /\ chatRow' = FreshRow
    /\ creation' = [at |-> "answered", has |-> <<FreshRow>>, overtaken |-> FALSE]
    /\ EmitToTab(<<Meta(FreshRow)>>)
    /\ Aside /\ UNCHANGED <<turnDue, clicks, archiving, reading, silent, happened>>

\* GET /api/sessions: archived rows are left out.
ListArrives(l) ==
    /\ fetches[l].at = "asked"
    /\ fetches' = [fetches EXCEPT ![l] = [at |-> "answered", has |-> Listing,
                                          overtaken |-> FALSE]]
    /\ UNCHANGED <<chatRow, turnDue, sideSocket, listed, isCurrent, clicks, creation,
                   archiving, reading, loadingRow, misled, silent, happened, failures>>

-----------------------------------------------------------------------------
(* The tab.                                                                *)

server == <<chatRow, turnDue, silent>>

FreeFetches == {l \in DOMAIN fetches : fetches[l].at = "none"}
RefreshSessions == FreeFetches # {} /\ fetches' = [fetches EXCEPT ![Min(FreeFetches)] = Asked]

\* A change of the mode shown makes an earlier click's idea of it old.
Muddled == [k \in 1..MaxClicks |-> IF clicks[k].at = "none" THEN clicks[k]
                             ELSE [clicks[k] EXCEPT !.overtaken = TRUE]]

\* The list lands, however old it is, or the call fails and nobody tries again.
ListLands(l) ==
    /\ fetches[l].at = "answered"
    /\ fetches' = [fetches EXCEPT ![l] = NoFetch]
    /\ listed' = fetches[l].has
    /\ misled' = fetches[l].overtaken
    /\ clicks' = Muddled /\ creation' = Overtaken(creation)
    /\ UNCHANGED <<server, sideSocket, isCurrent, archiving, reading, loadingRow, happened,
                   failures>>

ListFails(l) ==
    /\ fetches[l].at # "none" /\ GoesWrong
    /\ fetches' = [fetches EXCEPT ![l] = NoFetch]
    /\ misled' = TRUE
    /\ UNCHANGED <<server, sideSocket, listed, isCurrent, clicks, creation, archiving,
                   reading, loadingRow, happened>>

\* onEvent(): what a frame changes of the list.
OnMeta(row) ==
    /\ listed' = <<[row EXCEPT !.unread = @ /\ ~isCurrent]>>
    /\ reading' = IF isCurrent /\ row.unread THEN reading + 1 ELSE reading
    /\ misled' = row.archived
    /\ fetches' = Late(fetches) /\ UNCHANGED isCurrent

OnArchived ==
    /\ listed' = <<>> /\ isCurrent' = FALSE
    /\ fetches' = Late(fetches) /\ UNCHANGED <<reading, misled>>

OnUnarchived ==
    /\ FreeFetches # {}
    /\ fetches' = [Late(fetches) EXCEPT ![Min(FreeFetches)] = Asked]
    /\ UNCHANGED <<listed, isCurrent, reading, misled>>

OnFlag(f) ==
    /\ listed' = [i \in DOMAIN listed |->
                     CASE f.kind \in {"start", "end"} ->
                              [listed[i] EXCEPT !.running = (f.kind = "start")]
                       [] f.kind = "compacting" ->
                              [listed[i] EXCEPT !.compacting = f.row.compacting]
                       [] f.kind = "mode" -> [listed[i] EXCEPT !.mode = f.row.mode]]
    /\ fetches' = Late(fetches) /\ UNCHANGED <<isCurrent, reading, misled>>

OnFrame ==
    /\ frames # <<>> /\ frames' = Tail(frames)
    /\ LET f == Head(frames)
       IN  CASE f.kind = "meta" -> OnMeta(f.row)
             [] f.kind = "archived" -> OnArchived
             [] f.kind = "unarchived" -> OnUnarchived
             [] OTHER -> OnFlag(f)
    /\ clicks' = Muddled /\ creation' = Overtaken(creation)
    /\ UNCHANGED <<server, sideLinked, sideConnected, archiving, loadingRow, happened, failures>>

\* The ApprovalToggle: the next mode shows at once.
ClickMode(k) ==
    /\ clicks[k].at = "none" /\ isCurrent /\ listed # <<>> /\ Happens
    /\ LET next == NextMode[listed[1].mode]
       IN  /\ clicks' = [Muddled EXCEPT ![k] = [at |-> "asked", mode |-> next,
                             previous |-> listed[1].mode, overtaken |-> FALSE]]
           /\ listed' = [i \in DOMAIN listed |-> [listed[i] EXCEPT !.mode = next]]
    /\ UNCHANGED <<server, sideSocket, isCurrent, fetches, creation, archiving, reading,
                   loadingRow, misled, failures>>

ModeSet(k) ==
    /\ clicks[k].at = "answered"
    /\ clicks' = [clicks EXCEPT ![k] = NoClick]
    /\ UNCHANGED <<server, sideSocket, listed, isCurrent, fetches, creation, archiving,
                   reading, loadingRow, misled, happened, failures>>

\* The call fails, before the server acted or after: back to the mode before.
ModeFails(k) ==
    /\ clicks[k].at # "none" /\ GoesWrong
    /\ clicks' = [Muddled EXCEPT ![k] = NoClick]
    /\ listed' = [i \in DOMAIN listed |-> [listed[i] EXCEPT !.mode = clicks[k].previous]]
    /\ misled' = (misled \/ clicks[k].overtaken \/ clicks[k].at = "answered")
    /\ UNCHANGED <<server, sideSocket, isCurrent, fetches, creation, archiving, reading,
                   loadingRow, happened>>

ReadFails ==
    /\ reading > 0 /\ reading' = reading - 1 /\ GoesWrong
    /\ misled' = TRUE
    /\ UNCHANGED <<server, sideSocket, listed, isCurrent, fetches, clicks, creation,
                   archiving, loadingRow, happened>>

\* The Sidebar's archive() and unarchive(): the list is fetched after the answer.
ClickArchive ==
    /\ There /\ archiving = "none" /\ Happens
    /\ archiving' = "asked"
    /\ UNCHANGED <<server, sideSocket, listed, isCurrent, fetches, clicks, creation, reading,
                   loadingRow, misled, failures>>

ArchiveAnswered ==
    /\ archiving = "answered" /\ archiving' = "none"
    /\ RefreshSessions
    /\ UNCHANGED <<server, sideSocket, listed, isCurrent, clicks, creation, reading,
                   loadingRow, misled, happened, failures>>

\* An archive, a new chat or a transcript fails: the list is not touched.
OtherCallFails ==
    /\ GoesWrong
    /\ \/ archiving # "none" /\ archiving' = "none" /\ UNCHANGED <<creation, loadingRow>>
       \/ creation.at # "none" /\ creation' = NoFetch /\ UNCHANGED <<archiving, loadingRow>>
       \/ loadingRow /\ loadingRow' = FALSE /\ UNCHANGED <<archiving, creation>>
    /\ UNCHANGED <<server, sideSocket, listed, isCurrent, fetches, clicks, reading, misled,
                   happened>>

\* newSession(): the row goes to the front, whether the list has it or not.
ClickNew ==
    /\ ~There /\ creation.at = "none" /\ Happens
    /\ creation' = Asked
    /\ UNCHANGED <<server, sideSocket, listed, isCurrent, fetches, clicks, archiving,
                   reading, loadingRow, misled, failures>>

NewAnswered ==
    /\ creation.at = "answered" /\ creation' = NoFetch
    /\ listed' = creation.has \o listed
    /\ misled' = (misled \/ creation.overtaken)
    /\ isCurrent' = TRUE /\ loadingRow' = TRUE
    /\ clicks' = Muddled
    /\ UNCHANGED <<server, sideSocket, fetches, archiving, reading, happened, failures>>

\* selectSession(), of this chat or of another; a click on its row.
ClickChat ==
    /\ isCurrent \/ (listed # <<>> /\ ~loadingRow)
    /\ Happens
    /\ isCurrent' = ~isCurrent /\ loadingRow' = (loadingRow \/ ~isCurrent)
    /\ UNCHANGED <<server, sideSocket, listed, fetches, clicks, creation, archiving, reading,
                   misled, failures>>

\* The transcript came: the chat is read, if it is still the one open.
ChatLoaded ==
    /\ loadingRow /\ loadingRow' = FALSE
    /\ IF isCurrent
       THEN /\ reading' = reading + 1
            /\ listed' = [i \in DOMAIN listed |-> [listed[i] EXCEPT !.unread = FALSE]]
       ELSE UNCHANGED <<reading, listed>>
    /\ UNCHANGED <<server, sideSocket, isCurrent, fetches, clicks, creation, archiving,
                   misled, happened, failures>>

-----------------------------------------------------------------------------
(* The socket.                                                             *)

\* It drops, with the server or without it: a new server runs no turn.
SideDrops ==
    /\ sideLinked /\ GoesWrong
    /\ sideLinked' = FALSE /\ frames' = <<>>
    /\ fetches' = Late(fetches) /\ creation' = Overtaken(creation)
    /\ \/ UNCHANGED <<chatRow, turnDue>>
       \/ /\ There
          /\ chatRow' = [chatRow EXCEPT !.running = FALSE, !.compacting = FALSE]
          /\ turnDue' = FALSE
    /\ UNCHANGED <<silent, sideConnected, listed, isCurrent, clicks, archiving, reading,
                   loadingRow, misled, happened>>

\* A slip of SideOpens: the list is what the mount effect fetched.
SideOpensOnly ==
    /\ ~sideLinked
    /\ sideLinked' = TRUE /\ sideConnected' = TRUE
    /\ UNCHANGED <<server, frames, listed, isCurrent, sideCalls, misled, happened, failures>>

\* onopen; from the second time on, onReconnect() fetches the list, and loads
\* the chat that is open.
SideOpens ==
    /\ ~sideLinked
    /\ sideLinked' = TRUE /\ sideConnected' = TRUE
    /\ IF sideConnected
       THEN RefreshSessions /\ loadingRow' = (loadingRow \/ isCurrent)
       ELSE UNCHANGED <<fetches, loadingRow>>
    /\ UNCHANGED <<server, frames, listed, isCurrent, clicks, creation, archiving, reading,
                   misled, happened, failures>>

-----------------------------------------------------------------------------
ListNext ==
    \/ TurnIsDue \/ AgentStarts \/ PromptFails \/ MessageIsWritten \/ AgentHasEnded
    \/ MarkCompaction \/ ReadArrives \/ ArchiveArrives \/ CreateArrives
    \/ \E k \in DOMAIN clicks : ModeArrives(k) \/ ClickMode(k) \/ ModeSet(k) \/ ModeFails(k)
    \/ \E l \in DOMAIN fetches : ListArrives(l) \/ ListLands(l) \/ ListFails(l)
    \/ OnFrame \/ ReadFails \/ ClickArchive \/ ArchiveAnswered \/ ClickNew \/ NewAnswered
    \/ ClickChat \/ ChatLoaded \/ OtherCallFails \/ SideDrops \/ SideOpens

ListSpec == ListInit /\ [][ListNext]_listVars

-----------------------------------------------------------------------------
(* Properties.                                                             *)

ListTypeOK ==
    /\ chatRow \in [mode : Modes3 \cup {"none"}, archived : BOOLEAN, unread : BOOLEAN,
                    running : BOOLEAN, compacting : BOOLEAN]
    /\ Len(listed) \in 0..2
    /\ frames # <<>> => sideLinked
    /\ turnDue => chatRow.running
    /\ happened \in 0..MaxHappenings /\ failures \in 0..MaxFailures

ListSettled ==
    /\ sideLinked /\ frames = <<>> /\ ~turnDue
    /\ \A l \in DOMAIN fetches : fetches[l].at = "none"
    /\ \A k \in DOMAIN clicks : clicks[k].at = "none"
    /\ creation.at = "none" /\ archiving = "none" /\ reading = 0 /\ ~loadingRow

\* A tab with nothing under way lists the chat once, as the server has it, or
\* not at all when it is archived -- whatever raced with what, and whatever a
\* socket or a server took with it -- unless its last word on the chat was late
\* or missing: a fetched list or the answer to newSession() that frames
\* overtook, a failed fetch or mark as read, a rollback of the mode that raced,
\* the row of an archived chat, or frames before the socket first opened -- and
\* unless a prompt was rejected before its agent_start: no frame takes back the
\* running that a list or a row had shown, nor does the model look whether a later
\* one did (useApp.ts:56-60, 121-158, 185-225, 258-268, 344-347, 404-427).
SettledListIsRight == ListSettled /\ ~misled /\ ~silent => listed = Listing

\* Not so: "without a revert the UI would silently show a mode the server isn't
\* actually in" (useApp.ts:405-409); with it, too.
ShownModeIsTheServers == ListSettled /\ listed # <<>> => listed[1].mode = chatRow.mode

\* Not so: "Remove from the active list" (useApp.ts:138) until it is unarchived.
ArchivedIsHidden == ListSettled /\ chatRow.archived => listed = <<>>
=============================================================================

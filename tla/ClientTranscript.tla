--------------------------- MODULE ClientTranscript ---------------------------
(***************************************************************************)
(* The transcript that a browser tab shows of the chat it has open         *)
(* (web/src/useApp.ts, web/src/lib/ws.ts) against the one the server has   *)
(* (server.ts, manager.getMessages).  Snapshots come by HTTP, messages by  *)
(* the WebSocket, each in its own time, and the event bus replays nothing. *)
(*                                                                         *)
(* Messages are numbered as they are written; what the tab shows is the    *)
(* set of them.  React has rendered before the tab handles the next event. *)
(***************************************************************************)
EXTENDS Naturals, Sequences, FiniteSetsExt, Functions

CONSTANTS Chats, NoChat,
    MaxMessages, MaxSelects, MaxDrops  \* bounds

ASSUME ClientAssumption ==
    NoChat \notin Chats /\ {MaxMessages, MaxSelects, MaxDrops} \subseteq Nat

VARIABLES
    written,    \* the transcripts at the server
    emitting,   \* a message of the chat that is written, and not yet emitted
    tabLinked, hasConnected,
    tuned,      \* server.ts, subscribed: the chat whose messages are sent
    toServer, toTab,    \* the frames on the socket
    openChat,   \* currentIdRef
    shown,      \* messages
    loadingChat, loadBuffer,  \* loadingSessionRef, loadBufferRef
    loads,      \* getSession() calls, by the selectSession() that made them
    unheard,    \* history: emitted while the tab was not tuned to the chat, and
                \* since then in no transcript that was read for it
    arrived,    \* history: delivered since the chat was selected
    doubled,    \* history: the chat was selected while it was loading
    failed,     \* history: the chat's load failed
    selects, drops

socket == <<tabLinked, hasConnected, tuned>>
shownState == <<openChat, shown, loadingChat, loadBuffer>>
pastOfTab == <<arrived, doubled, failed>>
tabVars == <<written, emitting, socket, toServer, toTab, shownState, loads, unheard,
             pastOfTab, selects, drops>>

NoLoad == [of |-> NoChat, at |-> "none", has |-> {}]

ClientInit ==
    /\ written = [c \in Chats |-> {}] /\ emitting = [c \in Chats |-> 0]
    /\ tabLinked = FALSE /\ hasConnected = FALSE /\ tuned = NoChat
    /\ toServer = <<>> /\ toTab = <<>>
    /\ openChat = NoChat /\ shown = {} /\ loadingChat = NoChat /\ loadBuffer = {}
    /\ loads = [l \in 1..MaxSelects |-> NoLoad]
    /\ unheard = {} /\ arrived = {} /\ doubled = FALSE /\ failed = FALSE
    /\ selects = 0 /\ drops = 0

-----------------------------------------------------------------------------
(* The server.                                                             *)

AllWritten == UNION Range(written)

\* The harness (external) writes a message and then emits message_end.
Write(c) ==
    /\ emitting[c] = 0 /\ Cardinality(AllWritten) < MaxMessages
    /\ LET m == Cardinality(AllWritten) + 1
       IN  /\ written' = [written EXCEPT ![c] = @ \cup {m}]
           /\ emitting' = [emitting EXCEPT ![c] = m]
    /\ UNCHANGED <<socket, toServer, toTab, shownState, loads, unheard, pastOfTab,
                   selects, drops>>

\* shouldSendWsEvent(): a socket gets the messages of the chat it subscribed to.
Emit(c) ==
    /\ emitting[c] # 0
    /\ emitting' = [emitting EXCEPT ![c] = 0]
    /\ toTab' = IF tabLinked /\ tuned = c
                THEN Append(toTab, [of |-> c, message |-> emitting[c]])
                ELSE toTab
    /\ unheard' = IF hasConnected /\ (tabLinked => tuned = c) THEN unheard
                  ELSE unheard \cup {emitting[c]}
    /\ UNCHANGED <<written, socket, toServer, shownState, loads, pastOfTab, selects, drops>>

\* onMessage of a subscribe or unsubscribe frame.
Tune ==
    /\ toServer # <<>>
    /\ toServer' = Tail(toServer)
    /\ tuned' = Head(toServer)
    /\ UNCHANGED <<written, emitting, tabLinked, hasConnected, toTab, shownState, loads,
                   unheard, pastOfTab, selects, drops>>

\* GET /api/sessions/:id.
GetSession(l) ==
    /\ loads[l].at = "asked"
    /\ loads' = [loads EXCEPT ![l].at = "answered", ![l].has = written[loads[l].of]]
    /\ unheard' = IF loads[l].of = openChat THEN unheard \ written[openChat] ELSE unheard
    /\ UNCHANGED <<written, emitting, socket, toServer, toTab, shownState, pastOfTab,
                   selects, drops>>

-----------------------------------------------------------------------------
(* The tab.                                                                *)

Loading(c) == \E l \in 1..MaxSelects : loads[l].of = c /\ loads[l].at # "none"

\* selectSession(): the list is emptied and the guard armed, then the socket
\* subscribes, if it is open, and the transcript is asked for.
SelectSession(c, frames) ==
    /\ selects < MaxSelects
    /\ selects' = selects + 1
    /\ openChat' = c /\ shown' = {}
    /\ loadingChat' = c /\ loadBuffer' = {}
    /\ toServer' = frames
    /\ loads' = IF c = NoChat THEN loads
                ELSE [loads EXCEPT ![selects + 1] = [of |-> c, at |-> "asked", has |-> {}]]
    /\ arrived' = {} /\ failed' = FALSE
    /\ doubled' = (c # NoChat /\ Loading(c))

Select(c) ==
    /\ SelectSession(c, IF tabLinked THEN Append(toServer, c) ELSE toServer)
    /\ UNCHANGED <<written, emitting, socket, toTab, unheard, drops>>

\* A slip of OnEvent: a message is not kept for the snapshot under way.
OnEventUnbuffered ==
    /\ toTab # <<>>
    /\ toTab' = Tail(toTab)
    /\ IF Head(toTab).of = openChat
       THEN /\ shown' = shown \cup {Head(toTab).message}
            /\ arrived' = arrived \cup {Head(toTab).message}
       ELSE UNCHANGED <<shown, arrived>>
    /\ UNCHANGED <<written, emitting, socket, toServer, openChat, loadingChat, loadBuffer,
                   loads, unheard, doubled, failed, selects, drops>>

\* onEvent() of a message_end: shown, and kept for a snapshot under way.
OnEvent ==
    /\ toTab # <<>>
    /\ toTab' = Tail(toTab)
    /\ IF Head(toTab).of = openChat
       THEN /\ shown' = shown \cup {Head(toTab).message}
            /\ arrived' = arrived \cup {Head(toTab).message}
            /\ loadBuffer' = IF loadingChat = openChat
                             THEN loadBuffer \cup {Head(toTab).message} ELSE loadBuffer
       ELSE UNCHANGED <<shown, arrived, loadBuffer>>
    /\ UNCHANGED <<written, emitting, socket, toServer, openChat, loadingChat, loads,
                   unheard, doubled, failed, selects, drops>>

\* The finally of selectSession(): the newest load of the chat, or an older one
\* of the same chat, disarms the guard.
Disarm(c) ==
    IF loadingChat = c
    THEN loadingChat' = NoChat /\ loadBuffer' = {}
    ELSE UNCHANGED <<loadingChat, loadBuffer>>

\* The snapshot comes; it is of no use if the user has switched meanwhile.
Loaded(l) ==
    /\ loads[l].at = "answered"
    /\ loads' = [loads EXCEPT ![l] = NoLoad]
    /\ shown' = IF openChat # loads[l].of THEN shown
                ELSE loads[l].has \cup (IF loadingChat = openChat THEN loadBuffer ELSE {})
    /\ Disarm(loads[l].of)
    /\ UNCHANGED <<written, emitting, socket, toServer, toTab, openChat, unheard, pastOfTab,
                   selects, drops>>

LoadFails(l) ==
    /\ loads[l].at # "none"
    /\ loads' = [loads EXCEPT ![l] = NoLoad]
    /\ failed' = (failed \/ openChat = loads[l].of)
    /\ Disarm(loads[l].of)
    /\ UNCHANGED <<written, emitting, socket, toServer, toTab, openChat, shown, unheard,
                   arrived, doubled, selects, drops>>

-----------------------------------------------------------------------------
(* The socket.                                                             *)

\* Frames under way are lost, and nothing tells the tab which.
SocketDrops ==
    /\ tabLinked /\ drops < MaxDrops
    /\ drops' = drops + 1
    /\ tabLinked' = FALSE /\ tuned' = NoChat
    /\ toServer' = <<>> /\ toTab' = <<>>
    /\ UNCHANGED <<written, emitting, hasConnected, shownState, loads, unheard, pastOfTab,
                   selects>>

Subscription == IF openChat = NoChat THEN <<>> ELSE <<openChat>>

\* onopen: the tab subscribes again; from the second time on, onReconnect()
\* selects the open chat anew.
SocketOpens ==
    /\ ~tabLinked
    /\ tabLinked' = TRUE /\ hasConnected' = TRUE
    /\ IF hasConnected /\ openChat # NoChat
       THEN SelectSession(openChat, Subscription \o Subscription)
       ELSE /\ toServer' = Subscription
            /\ UNCHANGED <<shownState, loads, pastOfTab, selects>>
    /\ UNCHANGED <<written, emitting, tuned, toTab, unheard, drops>>

-----------------------------------------------------------------------------
ClientNext ==
    \/ \E c \in Chats : Write(c) \/ Emit(c)
    \/ \E c \in Chats \cup {NoChat} : Select(c)
    \/ Tune \/ OnEvent \/ SocketDrops \/ SocketOpens
    \/ \E l \in 1..MaxSelects : GetSession(l) \/ Loaded(l) \/ LoadFails(l)

ClientSpec == ClientInit /\ [][ClientNext]_tabVars

-----------------------------------------------------------------------------
(* Properties.                                                             *)

ClientTypeOK ==
    /\ written \in [Chats -> SUBSET (1..MaxMessages)]
    /\ emitting \in [Chats -> 0..MaxMessages]
    /\ {tuned, openChat, loadingChat} \subseteq Chats \cup {NoChat}
    /\ \A l \in 1..MaxSelects : loads[l].has \subseteq AllWritten
    /\ shown \cup loadBuffer \cup arrived \cup unheard \subseteq AllWritten
    /\ tuned # NoChat => tabLinked
    /\ selects \in 0..MaxSelects /\ drops \in 0..MaxDrops

Settled ==
    /\ tabLinked /\ toTab = <<>> /\ toServer = <<>>
    /\ \A c \in Chats : emitting[c] = 0
    /\ loads = [l \in 1..MaxSelects |-> NoLoad]

\* A tab with nothing under way shows the chat it has open, all of it and
\* nothing else, whatever was streamed while a snapshot was on its way, lost
\* with a socket, or answered after the user went elsewhere.  Not so a message that
\* was emitted before the socket first opened, or while it was not tuned to the
\* chat, if the transcript has not been read since: nothing brings it before the
\* next load.  Nor when the load failed or overlapped another load of the same chat
\* (useApp.ts:199-216, 263-271, 301-341).
SettledShowsTheChat ==
    Settled /\ openChat # NoChat =>
        /\ shown \subseteq written[openChat]
        /\ ~doubled /\ ~failed => written[openChat] \subseteq shown \cup unheard

\* Not so: "a message that arrives mid-fetch is no longer overwritten by the snapshot"
\* (useApp.ts:43-44).
ArrivedIsKept == arrived \subseteq shown
=============================================================================

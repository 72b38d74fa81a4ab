------------------------------ MODULE Approval ------------------------------
(***************************************************************************)
(* Tool approvals, from the gated tool to the browser and back: the gate   *)
(* (server/src/approval/wrap-tool.ts), the ApprovalCoordinator, the        *)
(* WebSocket of server/src/server.ts and the client in web/src/useApp.ts   *)
(* and web/src/lib/ws.ts.                                                  *)
(*                                                                         *)
(* A socket delivers in order, but what is in flight is lost when it       *)
(* drops, and the event bus replays nothing.  Several clients may show the *)
(* same card; the server restarts and forgets what is pending.             *)
(***************************************************************************)
EXTENDS Naturals, SequencesExt

CONSTANTS
    Calls,      \* tool calls, which are also the ids of their approvals
    Sessions,
    NoSession,
    Home,       \* the session each call belongs to
    Clients,    \* open browser tabs
    InFlight,   \* bound: frames a client has under way to the server
    MaxViews,   \* bound: changes of the session shown while a socket is open
    MaxBreaks   \* bound: dropped sockets and server restarts

ASSUME ConstantsAssumption ==
    /\ NoSession \notin Sessions
    /\ IsFiniteSet(Calls)
    /\ Home \in [Calls -> Sessions]
    /\ InFlight \in Nat \ {0}
    /\ MaxViews \in Nat /\ MaxBreaks \in Nat

VARIABLES
    call,        \* what became of each call of a gated tool
    linked,      \* the clients whose socket is open
    subscribed,  \* at the server: the session each socket is subscribed to
    down, up,    \* the frames under way to and from each client
    viewing,     \* at the client: the session it asks to be subscribed to
    cards,       \* pendingApprovals: the approvals it shows as cards
    armed,       \* approvalTimers: the cards with a watchdog
    clicked,     \* cards whose buttons were used
    views, breaks,
    approved,    \* history: the calls whose Approve was clicked
    announced    \* history: how many decisions were broadcast for each call

server == <<call, approved, announced>>
wires == <<linked, subscribed, down, up, breaks>>
client == <<viewing, cards, armed, clicked, views>>
vars == <<server, wires, client>>

Answers == {"approve", "deny"}
Frame(type, x) == [type |-> type, of |-> x]

Init ==
    /\ call = [c \in Calls |-> "new"]
    /\ linked = {}
    /\ subscribed = [k \in Clients |-> NoSession]
    /\ down = [k \in Clients |-> <<>>] /\ up = [k \in Clients |-> <<>>]
    /\ viewing = [k \in Clients |-> NoSession]
    /\ cards = [k \in Clients |-> {}] /\ armed = [k \in Clients |-> {}]
    /\ clicked = [k \in Clients |-> {}]
    /\ views = 0 /\ breaks = 0
    /\ approved = {}
    /\ announced = [c \in Calls |-> 0]

-----------------------------------------------------------------------------
(* The server.                                                             *)

Pending == {c \in Calls : call[c] = "asking"}

\* shouldSendWsEvent: requests go to those who look at the session, decisions
\* to everyone.
Recipients(frame) ==
    IF frame.type = "request"
    THEN {k \in linked : subscribed[k] = Home[frame.of]}
    ELSE linked

\* The event bus, for the frames in turn, which are all of one kind.
Broadcast(sent, frames) ==
    down' = [k \in Clients |->
                IF k \in Recipients(Head(frames)) THEN sent[k] \o frames ELSE sent[k]]

\* execute() of a gated tool asks, in mode ask.  A call stays new when it is
\* never made, or the mode decides it at once.
Execute(c) ==
    /\ call[c] = "new"
    /\ call' = [call EXCEPT ![c] = "asking"]
    /\ Broadcast(down, <<Frame("request", c)>>)
    /\ UNCHANGED <<linked, subscribed, up, breaks, approved, announced, client>>

\* The calls of S are decided: taken from the map, announced, and their tools
\* run or are denied.
Decide(S, decision, sent) ==
    /\ call' = [c \in Calls |->
                   IF c \notin S THEN call[c]
                   ELSE IF decision = "approve" THEN "ran" ELSE "denied"]
    /\ announced' = [c \in Calls |->
                        IF c \in S THEN announced[c] + 1 ELSE announced[c]]
    /\ Broadcast(sent, [i \in 1..Len(SetToSeq(S)) |->
                           Frame("resolved", SetToSeq(S)[i])])

\* A slip of Timeout: resolve() leaves the timer running.
TimeoutNotCleared(c) ==
    /\ call[c] \in {"asking", "ran", "denied"} /\ announced[c] < 2
    /\ Decide({c}, "timeout", down)
    /\ UNCHANGED <<linked, subscribed, up, breaks, approved, client>>

\* Nobody answers for five minutes.
Timeout(c) ==
    /\ c \in Pending
    /\ Decide({c}, "timeout", down)
    /\ UNCHANGED <<linked, subscribed, up, breaks, approved, client>>

\* cancelSession(), from manager.abort() and abortAll().
CancelSession(s) ==
    LET S == {c \in Pending : Home[c] = s}
    IN  /\ S # {}
        /\ Decide(S, "deny", down)
        /\ UNCHANGED <<linked, subscribed, up, breaks, approved, client>>

SnapshotOf(s) == {c \in Pending : Home[c] = s}

\* onMessage: a subscription is answered by a snapshot of what is pending in
\* the session; an answer to an approval that is not pending is ignored.
Receive(k) ==
    /\ up[k] # <<>>
    /\ up' = [up EXCEPT ![k] = Tail(@)]
    /\ LET f == Head(up[k])
       IN  \/ /\ f.type = "subscribe"
              /\ subscribed' = [subscribed EXCEPT ![k] = f.of]
              /\ down' = [down EXCEPT ![k] =
                             Append(@, Frame("snapshot", SnapshotOf(f.of)))]
              /\ UNCHANGED server
           \/ /\ f.type = "unsubscribe"
              /\ subscribed' = [subscribed EXCEPT ![k] = NoSession]
              /\ UNCHANGED <<down, server>>
           \/ /\ f.type \in Answers
              /\ IF f.of \in Pending
                 THEN Decide({f.of}, f.type, down)
                 ELSE UNCHANGED <<call, announced, down>>
              /\ UNCHANGED <<subscribed, approved>>
    /\ UNCHANGED <<linked, breaks, client>>

-----------------------------------------------------------------------------
(* The client.                                                             *)

\* The cards shown are those of C; a card's buttons go with it.
Show(k, C) ==
    /\ cards' = [cards EXCEPT ![k] = C]
    /\ clicked' = [clicked EXCEPT ![k] = @ \cap C]

\* A snapshot replaces the cards: all of them are watched afresh.
OnPendingApprovals(k, S) ==
    /\ Show(k, S)
    /\ armed' = [armed EXCEPT ![k] = S]

\* onmessage.
Deliver(k) ==
    /\ down[k] # <<>>
    /\ down' = [down EXCEPT ![k] = Tail(@)]
    /\ LET f == Head(down[k])
       IN  \/ /\ f.type = "request"
              /\ Show(k, cards[k] \cup {f.of})
              /\ armed' = [armed EXCEPT ![k] = @ \cup {f.of}]
           \/ /\ f.type = "resolved"
              /\ Show(k, cards[k] \ {f.of})
              /\ armed' = [armed EXCEPT ![k] = @ \ {f.of}]
           \/ f.type = "snapshot" /\ OnPendingApprovals(k, f.of)
    /\ UNCHANGED <<linked, subscribed, up, breaks, server, viewing, views>>

\* ws.send, which the client does only while the socket is open.
Send(k, frames) ==
    /\ k \in linked => Len(up[k]) + Len(frames) =< InFlight
    /\ up' = [up EXCEPT ![k] = IF k \in linked THEN @ \o frames ELSE @]

\* A slip of Watchdog: the card is left to the snapshot.
WatchdogOnlyReconciles(k, c) ==
    /\ c \in armed[k] /\ c \notin Pending
    /\ armed' = [armed EXCEPT ![k] = @ \ {c}]
    /\ Send(k, IF viewing[k] = NoSession THEN <<>>
               ELSE <<Frame("subscribe", viewing[k])>>)
    /\ UNCHANGED <<linked, subscribed, down, breaks, server, viewing, views,
                   cards, clicked>>

\* The watchdog gives a card up and asks for a snapshot: 30 s after the server's
\* timeout, by clocks that agree within these 30 s.
Watchdog(k, c) ==
    /\ c \in armed[k] /\ c \notin Pending
    /\ armed' = [armed EXCEPT ![k] = @ \ {c}]
    /\ Show(k, cards[k] \ {c})
    /\ Send(k, IF viewing[k] = NoSession THEN <<>>
               ELSE <<Frame("subscribe", viewing[k])>>)
    /\ UNCHANGED <<linked, subscribed, down, breaks, server, viewing, views>>

\* The user answers a card, once; the buttons are disabled without a socket.
Click(k, c) ==
    /\ c \in cards[k] \ clicked[k] /\ k \in linked
    /\ clicked' = [clicked EXCEPT ![k] = @ \cup {c}]
    /\ \E a \in Answers :
          /\ approved' = IF a = "approve" THEN approved \cup {c} ELSE approved
          /\ Send(k, <<Frame(a, c)>>)
    /\ UNCHANGED <<linked, subscribed, down, breaks, call, announced,
                   viewing, cards, armed, views>>

\* selectSession(): the cards stay until the snapshot comes.
View(k, s) ==
    /\ k \in linked => views < MaxViews
    /\ views' = IF k \in linked THEN views + 1 ELSE views
    /\ viewing' = [viewing EXCEPT ![k] = s]
    /\ Send(k, <<Frame(IF s = NoSession THEN "unsubscribe" ELSE "subscribe", s)>>)
    /\ UNCHANGED <<linked, subscribed, down, breaks, server, cards, armed,
                   clicked>>

-----------------------------------------------------------------------------
(* Sockets and the process.                                                *)

Cut(K) ==
    /\ breaks < MaxBreaks
    /\ breaks' = breaks + 1
    /\ linked' = linked \ K
    /\ subscribed' = [k \in Clients |-> IF k \in K THEN NoSession ELSE subscribed[k]]
    /\ down' = [k \in Clients |-> IF k \in K THEN <<>> ELSE down[k]]
    /\ up' = [k \in Clients |-> IF k \in K THEN <<>> ELSE up[k]]

Drop(k) ==
    /\ k \in linked
    /\ Cut({k})
    /\ UNCHANGED <<server, client>>

\* The server dies with the turns and the approvals they wait for.
Restart ==
    /\ Cut(Clients)
    /\ call' = [c \in Calls |-> IF c \in Pending THEN "dead" ELSE call[c]]
    /\ UNCHANGED <<approved, announced, client>>

\* A slip of Connect: the client trusts its old subscription.
ConnectKeepsSubscription(k) ==
    /\ k \notin linked
    /\ linked' = linked \cup {k}
    /\ down' = [down EXCEPT ![k] = <<Frame("snapshot", {})>>]
    /\ UNCHANGED <<subscribed, up, breaks, server, client>>

\* onOpen and onopen: the server seeds an empty map; the client subscribes
\* again.  (onReconnect() also selects the open session anew: that is a View.)
Connect(k) ==
    /\ k \notin linked
    /\ linked' = linked \cup {k}
    /\ down' = [down EXCEPT ![k] = <<Frame("snapshot", {})>>]
    /\ up' = [up EXCEPT ![k] =
                 IF viewing[k] = NoSession THEN <<>>
                 ELSE <<Frame("subscribe", viewing[k])>>]
    /\ UNCHANGED <<subscribed, breaks, server, client>>

-----------------------------------------------------------------------------
Next ==
    \/ \E c \in Calls : Execute(c) \/ Timeout(c)
    \/ \E s \in Sessions : CancelSession(s)
    \/ \E k \in Clients : Receive(k) \/ Deliver(k) \/ Drop(k) \/ Connect(k)
    \/ \E k \in Clients, c \in Calls :
          Watchdog(k, c) \/ Click(k, c)
    \/ \E k \in Clients, s \in Sessions \cup {NoSession} : View(k, s)
    \/ Restart

\* Timers fire, open sockets deliver.  Nobody needs to answer or reconnect.
Fairness ==
    /\ \A c \in Calls : WF_vars(Timeout(c))
    /\ \A k \in Clients : WF_vars(Deliver(k)) /\ WF_vars(Receive(k))
    /\ \A k \in Clients, c \in Calls : WF_vars(Watchdog(k, c))

Spec == Init /\ [][Next]_vars /\ Fairness

-----------------------------------------------------------------------------
(* Properties.                                                             *)

Frames ==
    {Frame(t, c) : t \in {"request", "resolved"} \cup Answers, c \in Calls}
    \cup {Frame("snapshot", S) : S \in SUBSET Calls}
    \cup {Frame("subscribe", s) : s \in Sessions}
    \cup {Frame("unsubscribe", NoSession)}

TypeOK ==
    /\ call \in [Calls -> {"new", "asking", "ran", "denied", "dead"}]
    /\ linked \subseteq Clients
    /\ subscribed \in [Clients -> Sessions \cup {NoSession}]
    /\ down \in [Clients -> Seq(Frames)] /\ up \in [Clients -> Seq(Frames)]
    /\ viewing \in [Clients -> Sessions \cup {NoSession}]
    /\ cards \in [Clients -> SUBSET Calls] /\ armed \in [Clients -> SUBSET Calls]
    /\ clicked \in [Clients -> SUBSET Calls]
    /\ \A k \in Clients : clicked[k] \subseteq cards[k]
    /\ views \in 0..MaxViews /\ breaks \in 0..MaxBreaks
    /\ approved \subseteq Calls
    /\ announced \in [Calls -> Nat]

\* One decision per approval, whoever comes first -- a click in one of the
\* tabs, the timeout, an abort: it is announced once, it is what the tool
\* does, and no tool runs on it without a user who approved
\* (coordinator.ts:52-98, wrap-tool.ts:74-86).
OneDecision ==
    \A c \in Calls :
        /\ announced[c] = IF call[c] \in {"ran", "denied"} THEN 1 ELSE 0
        /\ call[c] = "ran" => c \in approved

\* Whatever was lost, reordered by switching sessions or forgotten in a
\* restart: a client with nothing under way shows exactly the approvals that
\* wait in the session it views (server.ts:121-147, useApp.ts:236-258).
CaughtUp ==
    \A k \in linked :
        down[k] = <<>> /\ up[k] = <<>> /\ viewing[k] # NoSession =>
            cards[k] = SnapshotOf(viewing[k])

\* No card without a watchdog, and no notice of loss beside its card
\* (useApp.ts:94-115, 160-185, 236-258).
CardsWatched ==
    \A k \in Clients : cards[k] = armed[k]

\* Server and tabs agree on what is still to be decided and on what decided
\* it, and each card that a tab shows is still watched.
ApprovalConsistent == TypeOK /\ OneDecision /\ CardsWatched

\* No card stays for good, not in a tab that never reconnects either.
CardsGoAway ==
    \A k \in Clients, c \in Calls : c \in cards[k] ~> c \notin cards[k]
=============================================================================

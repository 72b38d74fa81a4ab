------------------------------- MODULE Composer -------------------------------
(***************************************************************************)
(* What a browser tab does with a message that is typed and with a working *)
(* directory that is picked, while its user goes from chat to chat         *)
(* (web/src/components/Chat.tsx, web/src/useApp.ts), and the routes of     *)
(* server.ts that it calls.  Every call takes its time and may fail, and   *)
(* what comes after it is done whatever chat is open by then.              *)
(*                                                                         *)
(* Chats are numbered as they are made; the directories exist throughout.  *)
(***************************************************************************)
EXTENDS Naturals, FiniteSetsExt, Functions

CONSTANTS OldChat, HomeDir, PickedDirs, NoDir,
          MaxChats, MaxTexts, MaxLooks, MaxDeeds, MaxFlops
          \* bounds: chats, messages, selectSession() calls at a time, things the user
          \* does, calls that fail

ASSUME ComposerAssumption ==
    /\ OldChat = 1 /\ MaxChats \in Nat \ {0}
    /\ {MaxTexts, MaxLooks, MaxDeeds, MaxFlops} \subseteq Nat
    /\ {HomeDir, NoDir} \cap PickedDirs = {} /\ HomeDir # NoDir

VARIABLES
    dirOf,      \* workdirs/<id>.jsonl, of the chats there are
    inbox,      \* the messages each chat has been sent
    openNow,    \* currentIdRef, 0 for none
    shownDir,   \* currentCwd
    looks,      \* selectSession() calls under way
    makes,      \* newSession() calls under way, of a message or of the WorkdirPicker
    text,       \* the messages
    save,       \* CwdEditorDialog.save()
    hadDirs,    \* history: the directories each chat has had
    madeFor,    \* history: the message that each chat was made for, or 0
    strayed,    \* history: setCurrentCwd() was called for a chat that was not open
    deeds, flops

atServer == <<dirOf, inbox, hadDirs, madeFor>>
inView == <<openNow, shownDir, strayed>>
composerVars == <<atServer, inView, looks, makes, text, save, deeds, flops>>

Composed == DOMAIN dirOf
NoLook == [of |-> 0, at |-> "none", dir |-> NoDir, for |-> 0]
NoMake == [at |-> "none", text |-> 0, dir |-> NoDir, chat |-> 0]
Untyped == [at |-> "draft", typedIn |-> 0, to |-> 0]
NoSave == [at |-> "none", of |-> 0, dir |-> NoDir]

ComposerInit ==
    /\ dirOf = [c \in {OldChat} |-> HomeDir] /\ hadDirs = [c \in {OldChat} |-> {HomeDir}]
    /\ inbox = [c \in {OldChat} |-> {}] /\ madeFor = [c \in {OldChat} |-> 0]
    /\ openNow = 0 /\ shownDir = NoDir /\ strayed = FALSE
    /\ looks = [l \in 1..MaxLooks |-> NoLook]
    /\ makes = [n \in 2..MaxChats |-> NoMake]
    /\ text = [t \in 1..MaxTexts |-> Untyped]
    /\ save = NoSave /\ deeds = 0 /\ flops = 0

Deed == deeds < MaxDeeds /\ deeds' = deeds + 1 /\ UNCHANGED flops
Flop == flops < MaxFlops /\ flops' = flops + 1 /\ UNCHANGED deeds
Fine == UNCHANGED <<deeds, flops>>

-----------------------------------------------------------------------------
(* Going to a chat.                                                        *)

FreeLooks == {l \in DOMAIN looks : looks[l].of = 0}

\* selectSession(): the directory is unknown until the chat has been read; n is
\* the newSession() that waits for it, or 0.
GoTo(c, n, others) ==
    /\ FreeLooks # {}
    /\ openNow' = c /\ shownDir' = NoDir /\ strayed' = FALSE
    /\ looks' = [others EXCEPT ![Min(FreeLooks)] =
                    [NoLook EXCEPT !.of = c, !.at = "asked", !.for = n]]

Look(c) ==
    /\ c # openNow /\ GoTo(c, 0, looks) /\ Deed
    /\ UNCHANGED <<atServer, makes, text, save>>

\* GET /api/sessions/:id
LookArrives(l) ==
    /\ looks[l].at = "asked"
    /\ looks' = [looks EXCEPT ![l].at = "answered", ![l].dir = dirOf[looks[l].of]]
    /\ Fine /\ UNCHANGED <<atServer, inView, makes, text, save>>

\* newSession() goes on after its selectSession(): the message is sent to the
\* chat that was made for it.
GoesOn(n) ==
    IF n = 0 THEN UNCHANGED <<makes, text>>
    ELSE LET k == makes[n]
         IN  /\ makes' = [makes EXCEPT ![n] = [NoMake EXCEPT !.at = "done"]]
             /\ text' = IF k.text = 0 THEN text
                        ELSE [text EXCEPT ![k.text].at = "sending", ![k.text].to = k.chat]

PickedDir(n) == IF n = 0 THEN NoDir ELSE makes[n].dir

\* A slip of Seen: the user may have switched again while the chat loaded.
SeenUnchecked(l) ==
    /\ looks[l].at = "answered"
    /\ looks' = [looks EXCEPT ![l] = NoLook]
    /\ GoesOn(looks[l].for)
    /\ shownDir' = looks[l].dir
    /\ Fine /\ UNCHANGED <<atServer, openNow, strayed, save>>

\* The chat has been read, of no use if another is open; but a directory that was
\* picked is shown whatever chat is open.
Seen(l) ==
    /\ looks[l].at = "answered"
    /\ looks' = [looks EXCEPT ![l] = NoLook]
    /\ GoesOn(looks[l].for)
    /\ LET here == openNow = looks[l].of   picked == PickedDir(looks[l].for)
       IN  /\ shownDir' = CASE picked # NoDir -> picked
                            [] picked = NoDir /\ here -> looks[l].dir
                            [] OTHER -> shownDir
           /\ strayed' = (~here /\ (picked # NoDir \/ strayed))
    /\ Fine /\ UNCHANGED <<atServer, openNow, save>>

\* It cannot be read.  The catch of newSession(), meant for the directory, tries
\* once more; a message goes nowhere, and its draft was cleared when it was sent.
LookFails(l) ==
    LET n == looks[l].for   rest == [looks EXCEPT ![l] = NoLook]
    IN  /\ looks[l].of # 0 /\ Flop
        /\ \/ /\ PickedDir(n) # NoDir /\ GoTo(makes[n].chat, n, rest)
              /\ makes' = [makes EXCEPT ![n].dir = NoDir]
              /\ UNCHANGED text
           \/ /\ PickedDir(n) = NoDir /\ looks' = rest
              /\ makes' = IF n = 0 THEN makes
                          ELSE [makes EXCEPT ![n] = [NoMake EXCEPT !.at = "done"]]
              /\ text' = IF n = 0 \/ makes[n].text = 0 THEN text
                         ELSE [text EXCEPT ![makes[n].text].at = "lost"]
              /\ UNCHANGED inView
        /\ UNCHANGED <<atServer, save>>

-----------------------------------------------------------------------------
(* A new chat, from a message or from the WorkdirPicker.                   *)

FreeMakes == {n \in DOMAIN makes : makes[n].at = "none"}
NewMake(t, d) ==
    /\ FreeMakes # {}
    /\ makes' = [makes EXCEPT ![Min(FreeMakes)] =
                    [at |-> "creating", text |-> t, dir |-> d, chat |-> 0]]

\* confirmNewSession()
Confirm(d) ==
    /\ NewMake(0, d) /\ Deed
    /\ UNCHANGED <<atServer, inView, looks, text, save>>

\* submit() clears the draft; send() takes the chat that is open, or makes one.
Submit(t) ==
    /\ text[t].at = "draft" /\ \A s \in 1..(t - 1) : text[s].at # "draft"
    /\ IF openNow # 0
       THEN /\ text' = [text EXCEPT ![t] = [at |-> "sending", typedIn |-> openNow,
                                            to |-> openNow]]
            /\ UNCHANGED makes
       ELSE /\ text' = [text EXCEPT ![t].at = "waiting"]
            /\ NewMake(t, NoDir)
    /\ Deed /\ UNCHANGED <<atServer, inView, looks, save>>

\* POST /api/sessions, and its answer.
MakeArrives(n) ==
    /\ makes[n].at = "creating"
    /\ LET c == Cardinality(Composed) + 1
           Add(f, v) == [x \in Composed \cup {c} |-> IF x = c THEN v ELSE f[x]]
       IN  /\ dirOf' = Add(dirOf, HomeDir) /\ hadDirs' = Add(hadDirs, {HomeDir})
           /\ inbox' = Add(inbox, {}) /\ madeFor' = Add(madeFor, makes[n].text)
           /\ makes' = [makes EXCEPT ![n].at = "created", ![n].chat = c]
    /\ Fine /\ UNCHANGED <<inView, looks, text, save>>

Made(n) ==
    /\ makes[n].at = "created"
    /\ IF makes[n].dir # NoDir
       THEN makes' = [makes EXCEPT ![n].at = "placing"] /\ UNCHANGED <<inView, looks>>
       ELSE makes' = [makes EXCEPT ![n].at = "going"] /\ GoTo(makes[n].chat, n, looks)
    /\ Fine /\ UNCHANGED <<atServer, text, save>>

MakeFails(n) ==
    /\ makes[n].at \in {"creating", "created"} /\ Flop
    /\ makes' = [makes EXCEPT ![n] = [NoMake EXCEPT !.at = "done"]]
    /\ text' = IF makes[n].text = 0 THEN text ELSE [text EXCEPT ![makes[n].text].at = "lost"]
    /\ UNCHANGED <<atServer, inView, looks, save>>

SetDir(c, d) ==
    /\ dirOf' = [dirOf EXCEPT ![c] = d]
    /\ hadDirs' = [hadDirs EXCEPT ![c] = @ \cup {d}]
    /\ UNCHANGED <<inbox, madeFor>>

\* POST /api/sessions/:id/cwd of newSession(), and its answer.
PlaceArrives(n) ==
    /\ makes[n].at = "placing"
    /\ makes' = [makes EXCEPT ![n].at = "placed"]
    /\ SetDir(makes[n].chat, makes[n].dir)
    /\ Fine /\ UNCHANGED <<inView, looks, text, save>>

Placed(n) ==
    /\ \/ /\ makes[n].at = "placed" /\ Fine
          /\ makes' = [makes EXCEPT ![n].at = "going"]
       \/ /\ makes[n].at \in {"placing", "placed"} /\ Flop
          /\ makes' = [makes EXCEPT ![n].at = "going", ![n].dir = NoDir]
    /\ GoTo(makes[n].chat, n, looks)
    /\ UNCHANGED <<atServer, text, save>>

\* POST /api/sessions/:id/messages
TextArrives(t) ==
    /\ text[t].at = "sending"
    /\ \/ /\ Fine /\ text' = [text EXCEPT ![t].at = "sent"]
          /\ inbox' = [inbox EXCEPT ![text[t].to] = @ \cup {t}]
       \/ Flop /\ text' = [text EXCEPT ![t].at = "lost"] /\ UNCHANGED inbox
    /\ UNCHANGED <<dirOf, hadDirs, madeFor, inView, looks, makes, save>>

-----------------------------------------------------------------------------
(* CwdEditorDialog.                                                        *)

\* save(), one at a time here.
StartSave(d) ==
    /\ save = NoSave /\ openNow # 0 /\ Deed
    /\ save' = [at |-> "asked", of |-> openNow, dir |-> d]
    /\ UNCHANGED <<atServer, inView, looks, makes, text>>

SaveArrives ==
    /\ save.at = "asked"
    /\ save' = [save EXCEPT !.at = "answered"]
    /\ SetDir(save.of, save.dir)
    /\ Fine /\ UNCHANGED <<inView, looks, makes, text>>

\* onSaved(): setCurrentCwd() of the chat that is open now.
Saved ==
    /\ save.at = "answered" /\ save' = NoSave
    /\ shownDir' = save.dir /\ strayed' = (openNow # save.of)
    /\ Fine /\ UNCHANGED <<atServer, openNow, looks, makes, text>>

SaveFails ==
    /\ save # NoSave /\ save' = NoSave /\ Flop
    /\ UNCHANGED <<atServer, inView, looks, makes, text>>

-----------------------------------------------------------------------------
ComposerNext ==
    \/ \E c \in Composed : Look(c)
    \/ \E l \in DOMAIN looks : LookArrives(l) \/ Seen(l) \/ LookFails(l)
    \/ \E d \in PickedDirs : Confirm(d) \/ StartSave(d)
    \/ \E t \in DOMAIN text : Submit(t) \/ TextArrives(t)
    \/ \E n \in DOMAIN makes : \/ MakeArrives(n) \/ Made(n) \/ MakeFails(n)
                               \/ PlaceArrives(n) \/ Placed(n)
    \/ SaveArrives \/ Saved \/ SaveFails

ComposerSpec == ComposerInit /\ [][ComposerNext]_composerVars

-----------------------------------------------------------------------------
(* Properties.                                                             *)

ComposerTypeOK ==
    /\ Composed \subseteq 1..MaxChats /\ Range(dirOf) \subseteq PickedDirs \cup {HomeDir}
    /\ DOMAIN inbox = Composed /\ DOMAIN madeFor = Composed /\ DOMAIN hadDirs = Composed
    /\ openNow \in Composed \cup {0} /\ shownDir \in PickedDirs \cup {HomeDir, NoDir}
    /\ \A l \in DOMAIN looks : looks[l].at # "none" <=> looks[l].of \in Composed
    /\ \A n \in DOMAIN makes :
          makes[n].at = "going" <=> \E l \in DOMAIN looks : looks[l].for = n
    /\ deeds \in 0..MaxDeeds /\ flops \in 0..MaxFlops

\* However the user goes from chat to chat while calls are under way or fail, a
\* message reaches the chat it was typed in or one that was made for it, and no
\* other; and the directory that is shown is one the open chat has had, unless
\* setCurrentCwd() was called, after an await, for a chat that had been left
\* (useApp.ts:318-342, 345-363, 388-393; Chat.tsx:106-111, 293-296).
ComposerSound ==
    /\ \A c \in Composed : \A t \in inbox[c] : text[t].typedIn = c \/ madeFor[c] = t
    /\ openNow # 0 /\ shownDir # NoDir /\ ~strayed => shownDir \in hadDirs[openNow]

\* Not so: the directory is the one "the assistant's shell tools will run in for
\* this session" (Chat.tsx:382).
ShownDirIsTheChats == openNow # 0 /\ shownDir # NoDir => shownDir \in hadDirs[openNow]
=============================================================================

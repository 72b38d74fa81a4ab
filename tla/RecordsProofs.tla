--------------------------- MODULE RecordsProofs -----------------------------
(***************************************************************************)
(* Proofs about the records of a chat and what is made of them, for every  *)
(* value of the constants: the file of a session and its row, what the     *)
(* session reader takes from it, the store of the LTM package and what it  *)
(* recalls, the files that the tools of a chat change, and the transcript  *)
(* and the list of chats that a browser tab shows, one section each.       *)
(***************************************************************************)
EXTENDS SessionFile, ClientTranscript, SessionList, SessionReader, LtmStore, Recall,
        PatchTool, SequenceTheorems, FiniteSetTheorems, WellFoundedInduction, TLAPS

-----------------------------------------------------------------------------
(* The ends of sets of numbers.                                            *)

\* A set of positions has a largest one.
LEMMA MaxProperties ==
    ASSUME NEW n \in Nat, NEW S \in SUBSET (1..n), S # {}
    PROVE  Max(S) \in S /\ \A y \in S : Max(S) >= y
<1> DEFINE Above(x) == x..n
           T == {Above(x) : x \in S}
<1>1. T \subseteq FiniteSubsetsOf(Nat) /\ T # {}
  <2>1. ASSUME NEW x \in S PROVE Above(x) \in FiniteSubsetsOf(Nat)
    <3>1. x \in Int /\ n \in Int /\ Above(x) \in SUBSET Nat
      OBVIOUS
    <3>2. QED
      BY <3>1, FS_Interval DEF FiniteSubsetsOf
  <2>2. QED
    BY <2>1
<1>2. PICK X \in T : \A Y \in T : <<Y, X>> \notin StrictSubsetOrdering(Nat)
  BY <1>1, FS_StrictSubsetOrderingWellFounded, WFMin, Zenon
<1>3. PICK x \in S : X = Above(x)
  OBVIOUS
<1>4. ASSUME NEW y \in S PROVE x >= y
  <2>1. SUFFICES ASSUME y > x PROVE FALSE
    OBVIOUS
  <2>2. Above(y) \subseteq Above(x) /\ x \in Above(x) /\ x \notin Above(y)
    BY <2>1
  <2>3. Above(y) \in SUBSET Nat /\ Above(x) \in SUBSET Nat
    OBVIOUS
  <2>4. <<Above(y), Above(x)>> \in StrictSubsetOrdering(Nat)
    BY <2>2, <2>3 DEF StrictSubsetOrdering
  <2>5. QED
    BY <1>2, <1>3, <2>4
<1>5. QED
  BY <1>4 DEF Max

\* A set of natural numbers has a smallest one.
LEMMA MinProperties ==
    ASSUME NEW S \in SUBSET Nat, S # {}
    PROVE  Min(S) \in S /\ \A y \in S : Min(S) <= y
<1> DEFINE Below(x) == 0..(x - 1)
           T == {Below(x) : x \in S}
<1>1. T \subseteq FiniteSubsetsOf(Nat) /\ T # {}
  <2>1. ASSUME NEW x \in S PROVE Below(x) \in FiniteSubsetsOf(Nat)
    <3>1. 0 \in Int /\ x - 1 \in Int /\ Below(x) \in SUBSET Nat
      OBVIOUS
    <3>2. QED
      BY <3>1, FS_Interval DEF FiniteSubsetsOf
  <2>2. QED
    BY <2>1
<1>2. PICK X \in T : \A Y \in T : <<Y, X>> \notin StrictSubsetOrdering(Nat)
  BY <1>1, FS_StrictSubsetOrderingWellFounded, WFMin, Zenon
<1>3. PICK x \in S : X = Below(x)
  OBVIOUS
<1>4. ASSUME NEW y \in S PROVE x <= y
  <2>1. SUFFICES ASSUME y < x PROVE FALSE
    OBVIOUS
  <2>2. Below(y) \subseteq Below(x) /\ y \in Below(x) /\ y \notin Below(y)
    BY <2>1
  <2>3. Below(y) \in SUBSET Nat /\ Below(x) \in SUBSET Nat
    OBVIOUS
  <2>4. <<Below(y), Below(x)>> \in StrictSubsetOrdering(Nat)
    BY <2>2, <2>3 DEF StrictSubsetOrdering
  <2>5. QED
    BY <1>2, <1>3, <2>4
<1>5. QED
  BY <1>4 DEF Min

-----------------------------------------------------------------------------
(* Recursive functions over positions.                                     *)

\* The values of f in S are made one from an earlier one, and the first is base.
MadeFromEarlier(f, S, base, n, from, g) ==
    /\ f \in [0..n -> S] /\ f[0] = base
    /\ \A i \in 1..n : f[i] = g[i][f[from[i]]]

MadeOneByOne(f, S, base, n, g) == MadeFromEarlier(f, S, base, n, [i \in 1..n |-> i - 1], g)

\* There is such a function: what the recursive definitions of the model rest on.
LEMMA ValuesFromEarlier ==
    ASSUME NEW S, NEW base \in S, NEW n \in Nat, NEW from \in [1..n -> Nat],
           \A i \in 1..n : from[i] < i, NEW g \in [1..n -> [S -> S]]
    PROVE  \E f : MadeFromEarlier(f, S, base, n, from, g)
<1> DEFINE Made(f, m) == f[0] = base /\ \A i \in 1..m : f[i] = g[i][f[from[i]]]
           Missing == {m \in 0..n : ~\E f \in [0..m -> S] : Made(f, m)}
<1>1. SUFFICES ASSUME Missing # {} PROVE FALSE
  <2>1. n \in 0..n /\ (n \notin Missing => \E f \in [0..n -> S] : Made(f, n))
    OBVIOUS
  <2>2. QED
    BY <2>1 DEF MadeFromEarlier
<1>2. Missing \in SUBSET Nat
  OBVIOUS
<1>3. PICK m \in Missing : \A y \in Missing : m <= y
  <2> HIDE DEF Missing
  <2>1. QED
    BY <1>1, <1>2, MinProperties
<1>4. m \in 0..n /\ ~\E f \in [0..m -> S] : Made(f, m)
  <2> HIDE DEF Made
  <2>1. QED
    BY <1>3
<1>5. m # 0
  <2>1. [i \in 0..0 |-> base] \in [0..0 -> S] /\ Made([i \in 0..0 |-> base], 0)
    OBVIOUS
  <2> HIDE DEF Made
  <2>2. QED
    BY <1>4, <2>1
<1>6. PICK f \in [0..(m - 1) -> S] : Made(f, m - 1)
  <2>1. m - 1 \in 0..n /\ m - 1 < m
    BY <1>5, <1>4
  <2>2. m - 1 \notin Missing
    <3> HIDE DEF Missing
    <3>1. QED
      BY <1>3, <1>4, <2>1
  <2> HIDE DEF Made
  <2>3. QED
    BY <2>1, <2>2
<1> DEFINE h == [i \in 0..m |-> IF i = m THEN g[m][f[from[m]]] ELSE f[i]]
<1>7. m \in 1..n /\ from[m] \in 0..(m - 1) /\ f[from[m]] \in S /\ g[m] \in [S -> S]
  <2>1. m \in 1..n
    BY <1>5, <1>4
  <2>2. from[m] \in 0..(m - 1)
    BY <2>1
  <2>3. QED
    BY <1>6, <2>1, <2>2
<1>8. h \in [0..m -> S]
  <2>1. \A i \in 0..m : i # m => i \in 0..(m - 1)
    BY <1>7
  <2>2. QED
    BY <1>6, <1>7, <2>1
<1>9. Made(h, m)
  <2>1. h[0] = base
    BY <1>6, <1>7
  <2>2. ASSUME NEW i \in 1..m PROVE h[i] = g[i][h[from[i]]]
    <3>1. from[i] \in 0..m /\ from[i] # m /\ h[from[i]] = f[from[i]]
      BY <1>7
    <3>2. CASE i = m
      BY <3>1, <3>2
    <3>3. CASE i # m
      <4>1. i \in 1..(m - 1) /\ i \in 0..m /\ h[i] = f[i]
        BY <3>3, <1>7
      <4>2. QED
        BY <4>1, <3>1, <1>6
    <3>4. QED
      BY <3>2, <3>3
  <2>3. QED
    BY <2>1, <2>2
<1>10. QED
  BY <1>4, <1>8, <1>9

\* Each value is made from the one before.
LEMMA StepByStep ==
    ASSUME NEW S, NEW base \in S, NEW n \in Nat, NEW g \in [1..n -> [S -> S]]
    PROVE  \E f : MadeOneByOne(f, S, base, n, g)
<1> DEFINE from == [i \in 1..n |-> i - 1]
<1>1. from \in [1..n -> Nat] /\ \A i \in 1..n : from[i] < i
  OBVIOUS
<1>2. \E f : MadeFromEarlier(f, S, base, n, from, g)
  <2> HIDE DEF from
  <2>1. QED
    BY <1>1, ValuesFromEarlier
<1>3. QED
  BY <1>2 DEF MadeOneByOne

-----------------------------------------------------------------------------
(* The file of a session and its row.                                      *)

FileStates == [title : Titles, mode : FileModes, last : Nat, there : BOOLEAN, sound : BOOLEAN]
RowStates == [title : Titles, mode : FileModes, archived : BOOLEAN, last : Nat,
              there : BOOLEAN]
CompStates == [at : {"summarizing", "appending", "verifying", "restoring"},
               inline : BOOLEAN, copy : 1..MaxEvents]
RequestStates == {Unasked} \cup Payload
                 \cup [at : {"writing"}, kind : {"rename"}, value : UserTitles]
                 \cup [at : {"writing"}, kind : {"mode"}, value : FileModes]

SessionTyped ==
    /\ file \in FileStates /\ backup \in FileStates /\ row \in RowStates
    /\ workdir \in Dirs /\ archived \in BOOLEAN /\ inTurn \in BOOLEAN
    /\ pendingTitle \in Titles /\ flush \in Titles
    /\ comp \in CompStates \cup {NoComp}
    /\ request \in [Requests -> RequestStates]
    /\ events \in 0..MaxEvents /\ pruning \in 0..events /\ backups \subseteq 1..events

\* Each answer is a message or the end of a compaction that was begun.
AnswersAreBounded ==
    /\ file.last =< MaxAnswers + events /\ row.last =< MaxAnswers + events
    /\ comp # NoComp => row.last < MaxAnswers + events

\* What has a session open has it with its row, and its row with its file; before
\* that nothing goes on but its creation.
Lives ==
    /\ ~serverUp => Closed
    /\ row.there => file.there
    /\ ~file.there => file = NoSession
    /\ creating => serverUp /\ ~row.there /\ file = [NoSession EXCEPT !.there = TRUE]
    /\ ~row.there => /\ ~opened /\ opening = 0 /\ flush = NoTitle /\ titler = NoTitlers
                     /\ \A r \in Requests : request[r] = Unasked
    /\ opened => serverUp
    /\ opening \in {0, 1} /\ (opening = 1 => serverUp /\ ~opened)
    /\ built = IF opened THEN 1 ELSE 0
    /\ opened => toolsIn = workdir
    /\ inTurn \/ comp # NoComp => opened

\* What a restore needs: the newest backup, of a file that was as good as it was.
RestoreIsReady ==
    comp # NoComp =>
        /\ comp.copy \in backups /\ \A b \in backups : b =< comp.copy
        /\ backup.there /\ (~backup.sound => spoilt)

SpoiltIsKnown == ~file.sound => spoilt \/ comp.at \in {"verifying", "restoring"}

SessionFileInv ==
    SessionTyped /\ AnswersAreBounded /\ Lives /\ RestoreIsReady /\ SpoiltIsKnown /\ RowIsRebuilt
\* A new session: its file, and then its mode and its row.
LEMMA CreateFileKeeps ==
    ASSUME SessionFileInv, CreateFile
    PROVE  SessionFileInv'
<1> USE DEF CreateFile, sidecars, object, titles, compState, pastOfFile
<1> USE DEF SessionFileInv
<1>1. SessionTyped'
  BY DEF SessionTyped, FileStates, RowStates
<1>2. AnswersAreBounded'
  BY DEF AnswersAreBounded
<1>3. Lives'
  BY DEF Lives, SessionTyped, FileStates, RowStates
<1>4. RestoreIsReady'
  BY DEF RestoreIsReady
<1>5. SpoiltIsKnown'
  BY DEF SpoiltIsKnown
<1>6. RowIsRebuilt'
  BY DEF RowIsRebuilt
<1>7. QED
  BY <1>1, <1>2, <1>3, <1>4, <1>5, <1>6

\* The row of a new session is written after its file.
LEMMA CreateRowKeeps ==
    ASSUME SessionFileInv, CreateRow
    PROVE  SessionFileInv'
<1> USE DEF CreateRow, sidecars, object, titles, compState, pastOfFile
<1> USE DEF SessionFileInv
<1>1. SessionTyped'
   BY SessionFileAssumption DEF SessionTyped, AnswersAreBounded, Lives, RestoreIsReady,
       SpoiltIsKnown, RowIsRebuilt, Closed, FileStates, RowStates, CompStates, RequestStates,
       Payload, Titles, NoRow, NoSession, NoComp, Unasked, NoTitlers, Derived
<1>2. AnswersAreBounded'
   BY SessionFileAssumption DEF AnswersAreBounded, Lives, Closed, SessionTyped, FileStates,
       RowStates, NoComp, NoRow, Derived, NoSession
<1>3. Lives'
  BY DEF Lives, SessionTyped, FileStates, RowStates
<1>4. RestoreIsReady'
  BY DEF RestoreIsReady
<1>5. SpoiltIsKnown'
  BY DEF SpoiltIsKnown
<1>6. RowIsRebuilt'
  BY DEF RowIsRebuilt, Lives, SessionTyped, FileStates, RowStates, NoRow, NoSession, Derived
<1>7. QED
  BY <1>1, <1>2, <1>3, <1>4, <1>5, <1>6

\* A request to rename a session, or to give it another mode.
LEMMA AskKeeps ==
    ASSUME SessionFileInv, NEW r \in Requests, Ask(r)
    PROVE  SessionFileInv'
<1> USE DEF Ask, sidecars, object, titles, compState, pastOfFile
<1> USE DEF SessionFileInv
<1>1. SessionTyped'
   BY SessionFileAssumption DEF SessionTyped, FileStates, RowStates, RequestStates, Payload,
       Titles, Unasked, NoComp, NoRow, Derived
<1>2. AnswersAreBounded'
  BY SessionFileAssumption DEF AnswersAreBounded, Lives, SessionTyped, FileStates, RowStates
<1>3. Lives'
  BY DEF Lives
<1>4. RestoreIsReady'
  BY DEF RestoreIsReady
<1>5. SpoiltIsKnown'
  BY DEF SpoiltIsKnown
<1>6. RowIsRebuilt'
  BY DEF RowIsRebuilt
<1>7. QED
  BY <1>1, <1>2, <1>3, <1>4, <1>5, <1>6

\* A session is opened, for which it is built once.
LEMMA OpenSessionKeeps ==
    ASSUME SessionFileInv, OpenSession
    PROVE  SessionFileInv'
<1> USE DEF OpenSession, sidecars, object, titles, compState, pastOfFile
<1> USE DEF SessionFileInv
<1>1. SessionTyped'
  BY DEF SessionTyped, RequestStates, Payload, Unasked
<1>2. AnswersAreBounded'
  BY DEF AnswersAreBounded
<1>3. Lives'
  BY DEF Lives
<1>4. RestoreIsReady'
  BY DEF RestoreIsReady
<1>5. SpoiltIsKnown'
  BY DEF SpoiltIsKnown
<1>6. RowIsRebuilt'
  BY DEF RowIsRebuilt
<1>7. QED
  BY <1>1, <1>2, <1>3, <1>4, <1>5, <1>6

\* A request is acted on: put off in a turn, or about to be written.
LEMMA ActKeeps ==
    ASSUME SessionFileInv, NEW r \in Requests, Act(r)
    PROVE  SessionFileInv'
<1> USE DEF Act, sidecars, object, titles, compState, pastOfFile
<1> USE DEF SessionFileInv
<1>1. SessionTyped'
   BY SessionFileAssumption DEF SessionTyped, FileStates, RowStates, RequestStates, Payload,
       Titles, Unasked, NoComp, NoRow, Derived
<1>2. AnswersAreBounded'
  BY DEF AnswersAreBounded, SessionTyped, FileStates, RowStates
<1>3. Lives'
  BY DEF Lives, SessionTyped, FileStates, RowStates
<1>4. RestoreIsReady'
  BY DEF RestoreIsReady
<1>5. SpoiltIsKnown'
  BY DEF SpoiltIsKnown
<1>6. RowIsRebuilt'
   BY SessionFileAssumption DEF SessionTyped, AnswersAreBounded, Lives, RestoreIsReady,
       SpoiltIsKnown, RowIsRebuilt, Closed, FileStates, RowStates, CompStates, RequestStates,
       Payload, Titles, NoRow, NoSession, NoComp, Unasked, NoTitlers, Derived
<1>7. QED
  BY <1>1, <1>2, <1>3, <1>4, <1>5, <1>6

\* A request that waited for the file has written, and writes the row.
LEMMA LandedKeeps ==
    ASSUME SessionFileInv, NEW r \in Requests, Landed(r)
    PROVE  SessionFileInv'
<1> USE DEF Landed, sidecars, object, titles, compState, pastOfFile
<1> USE DEF SessionFileInv
<1>1. SessionTyped'
   BY SessionFileAssumption DEF SessionTyped, FileStates, RowStates, RequestStates, Payload,
       Titles, Unasked, NoComp, NoRow, Derived
<1>2. AnswersAreBounded'
  BY DEF AnswersAreBounded, SessionTyped, FileStates, RowStates
<1>3. Lives'
   BY DEF Lives, Closed, SessionTyped, FileStates, RowStates, NoRow, Derived, NoSession,
       Unasked, NoComp
<1>4. RestoreIsReady'
  BY DEF RestoreIsReady
<1>5. SpoiltIsKnown'
  BY DEF SpoiltIsKnown, SessionTyped, FileStates, CompStates, NoComp
<1>6. RowIsRebuilt'
  BY DEF RowIsRebuilt, SessionTyped, FileStates, RowStates
<1>7. QED
  BY <1>1, <1>2, <1>3, <1>4, <1>5, <1>6

\* A title is due, and a model is asked for it if there is none yet.
LEMMA TitleAskedKeeps ==
    ASSUME SessionFileInv, TitleAsked
    PROVE  SessionFileInv'
<1> USE DEF TitleAsked, sidecars, object, titles, compState, pastOfFile
<1> USE DEF SessionFileInv
<1>1. SessionTyped'
  BY DEF SessionTyped
<1>2. AnswersAreBounded'
  BY DEF AnswersAreBounded
<1>3. Lives'
  BY DEF Lives, Closed, Unasked, NoTitlers
<1>4. RestoreIsReady'
  BY DEF RestoreIsReady
<1>5. SpoiltIsKnown'
  BY DEF SpoiltIsKnown
<1>6. RowIsRebuilt'
  BY DEF RowIsRebuilt
<1>7. QED
  BY <1>1, <1>2, <1>3, <1>4, <1>5, <1>6

\* The title that it gives is put off in a turn, or about to be written.
LEMMA TitleAnsweredKeeps ==
    ASSUME SessionFileInv, TitleAnswered
    PROVE  SessionFileInv'
<1> USE DEF TitleAnswered, sidecars, object, titles, compState, pastOfFile
<1> USE DEF SessionFileInv
<1>1. SessionTyped'
  BY DEF SessionTyped, FileStates, RowStates, RequestStates, Payload, Titles
<1>2. AnswersAreBounded'
  BY DEF AnswersAreBounded, SessionTyped, FileStates, RowStates
<1>3. Lives'
   BY DEF Lives, Closed, SessionTyped, FileStates, RowStates, NoRow, Derived, NoSession,
       Unasked, NoComp, NoTitlers, RequestStates, Payload
<1>4. RestoreIsReady'
  BY DEF RestoreIsReady
<1>5. SpoiltIsKnown'
  BY DEF SpoiltIsKnown
<1>6. RowIsRebuilt'
   BY SessionFileAssumption DEF SessionTyped, AnswersAreBounded, Lives, RestoreIsReady,
       SpoiltIsKnown, RowIsRebuilt, Closed, FileStates, RowStates, CompStates, RequestStates,
       Payload, Titles, NoRow, NoSession, NoComp, Unasked, NoTitlers, Derived
<1>7. QED
  BY <1>1, <1>2, <1>3, <1>4, <1>5, <1>6

\* The title is in the file, and is written to the row.
LEMMA TitleLandedKeeps ==
    ASSUME SessionFileInv, TitleLanded
    PROVE  SessionFileInv'
<1> USE DEF TitleLanded, sidecars, object, titles, compState, pastOfFile
<1> USE DEF SessionFileInv
<1>1. SessionTyped'
  BY DEF SessionTyped, FileStates, RowStates, RequestStates, Payload, Titles
<1>2. AnswersAreBounded'
  BY DEF AnswersAreBounded
<1>3. Lives'
  BY DEF Lives, Closed, Unasked, NoTitlers
<1>4. RestoreIsReady'
  BY DEF RestoreIsReady
<1>5. SpoiltIsKnown'
  BY DEF SpoiltIsKnown
<1>6. RowIsRebuilt'
  BY DEF RowIsRebuilt
<1>7. QED
  BY <1>1, <1>2, <1>3, <1>4, <1>5, <1>6

\* A turn starts in a session that is open.
LEMMA TurnStartsKeeps ==
    ASSUME SessionFileInv, TurnStarts
    PROVE  SessionFileInv'
<1> USE DEF TurnStarts, sidecars, object, titles, compState, pastOfFile
<1> USE DEF SessionFileInv
<1>1. SessionTyped'
  BY DEF SessionTyped, FileStates, RowStates
<1>2. AnswersAreBounded'
  BY SessionFileAssumption DEF AnswersAreBounded, Lives, SessionTyped, FileStates, RowStates
<1>3. Lives'
  BY DEF Lives
<1>4. RestoreIsReady'
  BY DEF RestoreIsReady
<1>5. SpoiltIsKnown'
  BY DEF SpoiltIsKnown
<1>6. RowIsRebuilt'
  BY DEF RowIsRebuilt
<1>7. QED
  BY <1>1, <1>2, <1>3, <1>4, <1>5, <1>6

\* The end of a message is a line of the file, and then of the row.
LEMMA MessageEndKeeps ==
    ASSUME SessionFileInv, MessageEnd
    PROVE  SessionFileInv'
<1> USE DEF MessageEnd, sidecars, object, titles, compState, pastOfFile
<1> USE DEF SessionFileInv
<1>1. SessionTyped'
  BY DEF SessionTyped, FileStates, RowStates
<1>2. AnswersAreBounded'
  BY SessionFileAssumption DEF AnswersAreBounded, Lives, SessionTyped, FileStates, RowStates
<1>3. Lives'
  BY DEF Lives
<1>4. RestoreIsReady'
  BY DEF RestoreIsReady
<1>5. SpoiltIsKnown'
  BY DEF SpoiltIsKnown
<1>6. RowIsRebuilt'
  BY DEF RowIsRebuilt
<1>7. QED
  BY <1>1, <1>2, <1>3, <1>4, <1>5, <1>6

\* At the end of a turn the title that was put off is to be written.
LEMMA TurnEndsKeeps ==
    ASSUME SessionFileInv, TurnEnds
    PROVE  SessionFileInv'
<1> USE DEF TurnEnds, sidecars, object, titles, compState, pastOfFile
<1> USE DEF SessionFileInv
<1>1. SessionTyped'
  <2>1. inTurn' \in BOOLEAN
    BY SessionFileAssumption
  <2>2. QED
    BY SessionFileAssumption, <2>1 DEF SessionTyped
<1>2. AnswersAreBounded'
  BY DEF AnswersAreBounded
<1>3. Lives'
  BY DEF Lives
<1>4. RestoreIsReady'
  BY DEF RestoreIsReady
<1>5. SpoiltIsKnown'
  BY DEF SpoiltIsKnown
<1>6. RowIsRebuilt'
  BY DEF RowIsRebuilt
<1>7. QED
  BY <1>1, <1>2, <1>3, <1>4, <1>5, <1>6

\* A title that was put off is written.
LEMMA FlushTitleKeeps ==
    ASSUME SessionFileInv, FlushTitle
    PROVE  SessionFileInv'
<1> USE DEF FlushTitle, sidecars, object, titles, compState, pastOfFile
<1> USE DEF SessionFileInv
<1>1. SessionTyped'
  BY DEF SessionTyped, FileStates, RowStates, RequestStates, Payload, Titles
<1>2. AnswersAreBounded'
  BY DEF AnswersAreBounded
<1>3. Lives'
  BY DEF Lives, Closed
<1>4. RestoreIsReady'
  BY DEF RestoreIsReady
<1>5. SpoiltIsKnown'
  BY DEF SpoiltIsKnown
<1>6. RowIsRebuilt'
  BY DEF RowIsRebuilt, SessionTyped, FileStates, RowStates
<1>7. QED
  BY <1>1, <1>2, <1>3, <1>4, <1>5, <1>6

\* A session is archived, or taken back.
LEMMA ArchiveKeeps ==
    ASSUME SessionFileInv, Archive
    PROVE  SessionFileInv'
<1> USE DEF Archive, sidecars, object, titles, compState, pastOfFile
<1> USE DEF SessionFileInv
<1>1. SessionTyped'
  <2>1. archived' \in BOOLEAN
    BY Zenon
  <2>2. row' \in RowStates
    BY SessionFileAssumption, <2>1 DEF SessionTyped, RowStates
  <2>3. QED
    BY SessionFileAssumption, <2>1, <2>2 DEF SessionTyped
<1>2. AnswersAreBounded'
  BY SessionFileAssumption DEF AnswersAreBounded, Lives, SessionTyped, FileStates, RowStates
<1>3. Lives'
  BY DEF Lives
<1>4. RestoreIsReady'
  BY DEF RestoreIsReady
<1>5. SpoiltIsKnown'
  BY DEF SpoiltIsKnown
<1>6. RowIsRebuilt'
  BY DEF RowIsRebuilt
<1>7. QED
  BY <1>1, <1>2, <1>3, <1>4, <1>5, <1>6

\* A session gets another directory, and new tools if it is open.
LEMMA SetWorkdirKeeps ==
    ASSUME SessionFileInv, NEW d \in Dirs, SetWorkdir(d)
    PROVE  SessionFileInv'
<1> USE DEF SetWorkdir, sidecars, object, titles, compState, pastOfFile
<1> USE DEF SessionFileInv
<1>1. SessionTyped'
   BY SessionFileAssumption DEF SessionTyped, FileStates, RowStates, RequestStates, Payload,
       Titles, Unasked, NoComp, NoRow, Derived
<1>2. AnswersAreBounded'
  BY SessionFileAssumption DEF AnswersAreBounded, Lives, SessionTyped, FileStates, RowStates
<1>3. Lives'
  BY DEF Lives
<1>4. RestoreIsReady'
  BY DEF RestoreIsReady
<1>5. SpoiltIsKnown'
  BY DEF SpoiltIsKnown
<1>6. RowIsRebuilt'
  BY DEF RowIsRebuilt
<1>7. QED
  BY <1>1, <1>2, <1>3, <1>4, <1>5, <1>6

\* A compaction begins with a copy of the file.
LEMMA BackupKeeps ==
    ASSUME SessionFileInv, Backup
    PROVE  SessionFileInv'
<1> USE DEF Backup, sidecars, object, titles, compState, pastOfFile
<1> USE DEF SessionFileInv
<1>1. SessionTyped'
  <2>1. events' \in 0..MaxEvents /\ events + 1 \in 1..MaxEvents /\ events' = events + 1
    BY SessionFileAssumption DEF SessionTyped
  <2>2. comp' \in CompStates
    BY SessionFileAssumption, <2>1 DEF SessionTyped, CompStates
  <2>3. backups' \subseteq 1..events' /\ pruning' \in 0..events'
    BY SessionFileAssumption, <2>1 DEF SessionTyped
  <2>4. QED
    BY SessionFileAssumption, <2>1, <2>2, <2>3 DEF SessionTyped
<1>2. AnswersAreBounded'
  BY SessionFileAssumption DEF AnswersAreBounded, Lives, SessionTyped, FileStates, RowStates
<1>3. Lives'
  BY DEF Lives
<1>4. RestoreIsReady'
  BY DEF RestoreIsReady, Lives, Closed, NoComp, SessionTyped, FileStates, SpoiltIsKnown, CompStates
<1>5. SpoiltIsKnown'
  BY DEF SpoiltIsKnown, NoComp
<1>6. RowIsRebuilt'
  BY DEF RowIsRebuilt
<1>7. QED
  BY <1>1, <1>2, <1>3, <1>4, <1>5, <1>6

\* Of the copies the oldest go.
LEMMA PruneKeeps ==
    ASSUME SessionFileInv, Prune
    PROVE  SessionFileInv'
<1> USE DEF Prune, sidecars, object, titles, compState, pastOfFile
<1> USE DEF SessionFileInv
<1>1. SessionTyped'
   BY SessionFileAssumption DEF SessionTyped, AnswersAreBounded, Lives, RestoreIsReady,
       SpoiltIsKnown, RowIsRebuilt, Closed, FileStates, RowStates, CompStates, RequestStates,
       Payload, Titles, NoRow, NoSession, NoComp, Unasked, NoTitlers, Derived
<1>2. AnswersAreBounded'
  BY DEF AnswersAreBounded
<1>3. Lives'
  <2>1. UNCHANGED <<file, archived, workdir, row, serverUp, creating, opened, opening, built,
                    toolsIn, inTurn, pendingTitle, flush, titler, request, comp>>
    BY SessionFileAssumption
  <2>2. pruning > 0
    BY SessionFileAssumption
  <2> HIDE DEF Prune
  <2>3. QED
    BY SessionFileAssumption, <2>1, <2>2 DEF Lives, Closed
<1>4. RestoreIsReady'
  <2>1. SUFFICES ASSUME comp # NoComp PROVE RestoreIsReady'
    BY SessionFileAssumption DEF RestoreIsReady
  <2>2. {a \in backups : a > comp.copy} = {}
    <3>1. comp.copy \in Nat /\ backups \subseteq Nat
      BY SessionFileAssumption, <2>1 DEF SessionTyped, CompStates
    <3>2. \A a \in backups : a =< comp.copy
      BY SessionFileAssumption, <2>1 DEF RestoreIsReady
    <3>3. \A a \in backups : ~(a > comp.copy)
      BY SessionFileAssumption, <3>1, <3>2
    <3>4. QED
      BY SessionFileAssumption, <3>3, Zenon
  <2>3. comp.copy \in backups'
    <3>1. Cardinality({a \in backups : a > comp.copy}) = 0
      BY SessionFileAssumption, <2>2, FS_EmptySet
    <3>2. QED
      BY SessionFileAssumption, <2>1, <3>1 DEF RestoreIsReady
  <2>4. backups' \subseteq backups
    BY SessionFileAssumption
  <2>5. QED
    BY SessionFileAssumption, <2>1, <2>3, <2>4 DEF RestoreIsReady
<1>5. SpoiltIsKnown'
  BY DEF SpoiltIsKnown
<1>6. RowIsRebuilt'
  BY DEF RowIsRebuilt
<1>7. QED
  BY <1>1, <1>2, <1>3, <1>4, <1>5, <1>6

\* The summary is there, or there is none.
LEMMA SummarizedKeeps ==
    ASSUME SessionFileInv, Summarized
    PROVE  SessionFileInv'
<1> USE DEF Summarized, sidecars, object, titles, compState, pastOfFile
<1> USE DEF SessionFileInv
<1>1. SessionTyped'
  BY DEF SessionTyped, CompStates, NoComp
<1>2. AnswersAreBounded'
   BY SessionFileAssumption DEF AnswersAreBounded, Lives, Closed, SessionTyped, FileStates,
       RowStates, NoComp
<1>3. Lives'
   BY DEF Lives, Closed, SessionTyped, FileStates, RowStates, NoRow, Derived, NoSession,
       Unasked, NoComp
<1>4. RestoreIsReady'
  BY DEF RestoreIsReady, Lives, Closed, NoComp, SessionTyped, FileStates, SpoiltIsKnown, CompStates
<1>5. SpoiltIsKnown'
  BY DEF SpoiltIsKnown
<1>6. RowIsRebuilt'
  BY DEF RowIsRebuilt
<1>7. QED
  BY <1>1, <1>2, <1>3, <1>4, <1>5, <1>6

\* The summary is appended to the file, well or badly.
LEMMA CompactionAppendedKeeps ==
    ASSUME SessionFileInv, CompactionAppended
    PROVE  SessionFileInv'
<1> USE DEF CompactionAppended, sidecars, object, titles, compState, pastOfFile
<1> USE DEF SessionFileInv
<1>1. SessionTyped'
  <2>1. file' \in FileStates
    BY SessionFileAssumption DEF SessionTyped, FileStates
  <2>2. comp' \in CompStates \cup {NoComp}
    BY SessionFileAssumption DEF SessionTyped, CompStates, NoComp
  <2>3. QED
    BY SessionFileAssumption, <2>1, <2>2 DEF SessionTyped
<1>2. AnswersAreBounded'
   BY SessionFileAssumption DEF AnswersAreBounded, Lives, Closed, SessionTyped, FileStates,
       RowStates, NoComp
<1>3. Lives'
   BY DEF Lives, Closed, SessionTyped, FileStates, RowStates, NoRow, Derived, NoSession,
       Unasked, NoComp
<1>4. RestoreIsReady'
  BY DEF RestoreIsReady, Lives, NoComp, SessionTyped, FileStates
<1>5. SpoiltIsKnown'
  BY DEF SpoiltIsKnown
<1>6. RowIsRebuilt'
  BY DEF RowIsRebuilt
<1>7. QED
  BY <1>1, <1>2, <1>3, <1>4, <1>5, <1>6

\* The file is read again, and judged.
LEMMA VerifyKeeps ==
    ASSUME SessionFileInv, Verify
    PROVE  SessionFileInv'
<1> USE DEF Verify, sidecars, object, titles, compState, pastOfFile
<1> USE DEF SessionFileInv
<1>1. SessionTyped'
  BY DEF SessionTyped, CompStates, NoComp
<1>2. AnswersAreBounded'
   BY SessionFileAssumption DEF AnswersAreBounded, Lives, Closed, SessionTyped, FileStates,
       RowStates, NoComp
<1>3. Lives'
   BY DEF Lives, Closed, SessionTyped, FileStates, RowStates, NoRow, Derived, NoSession,
       Unasked, NoComp
<1>4. RestoreIsReady'
  BY DEF RestoreIsReady, Lives, NoComp, SessionTyped, FileStates
<1>5. SpoiltIsKnown'
  BY DEF SpoiltIsKnown, SessionTyped, FileStates, CompStates, NoComp
<1>6. RowIsRebuilt'
  BY DEF RowIsRebuilt
<1>7. QED
  BY <1>1, <1>2, <1>3, <1>4, <1>5, <1>6

\* The copy that the compaction began with becomes the file.
LEMMA RestoreKeeps ==
    ASSUME SessionFileInv, Restore
    PROVE  SessionFileInv'
<1> USE DEF Restore, sidecars, object, titles, compState, pastOfFile
<1> USE DEF SessionFileInv
<1>1. SessionTyped'
  BY DEF SessionTyped, FileStates, RowStates
<1>2. AnswersAreBounded'
   BY SessionFileAssumption DEF AnswersAreBounded, Lives, Closed, SessionTyped, FileStates,
       RowStates, NoComp
<1>3. Lives'
   BY SessionFileAssumption DEF SessionTyped, AnswersAreBounded, Lives, RestoreIsReady,
       SpoiltIsKnown, RowIsRebuilt, Closed, FileStates, RowStates, CompStates, RequestStates,
       Payload, Titles, NoRow, NoSession, NoComp, Unasked, NoTitlers, Derived
<1>4. RestoreIsReady'
  BY DEF RestoreIsReady
<1>5. SpoiltIsKnown'
  BY DEF SpoiltIsKnown, RestoreIsReady, SessionTyped, FileStates, CompStates, NoComp
<1>6. RowIsRebuilt'
  BY DEF RowIsRebuilt, SessionTyped, FileStates, RowStates
<1>7. QED
  BY <1>1, <1>2, <1>3, <1>4, <1>5, <1>6

\* Whatever goes on ends with the server.
LEMMA ServerDiesKeeps ==
    ASSUME SessionFileInv, ServerDies
    PROVE  SessionFileInv'
<1> USE DEF ServerDies, sidecars, object, titles, compState, pastOfFile
<1> USE DEF SessionFileInv
<1>1. SessionTyped'
  <2>1. inTurn' \in BOOLEAN
    BY SessionFileAssumption
  <2>2. file' \in FileStates
    BY SessionFileAssumption DEF SessionTyped, FileStates, RequestStates, Payload, Titles, Unasked
  <2>3. /\ request' \in [Requests -> RequestStates] /\ comp' = NoComp
        /\ events' \in 0..MaxEvents /\ pruning' = 0 /\ events' = events + 1
        /\ backups' \subseteq 1..events'
    BY SessionFileAssumption DEF SessionTyped, RequestStates
  <2>4. QED
    BY SessionFileAssumption, <2>1, <2>2, <2>3 DEF SessionTyped, Titles
<1>2. AnswersAreBounded'
  BY SessionFileAssumption DEF AnswersAreBounded, Lives, SessionTyped, FileStates, RowStates
<1>3. Lives'
   BY DEF Lives, Closed, SessionTyped, FileStates, RowStates, NoRow, Derived, NoSession,
       Unasked, NoComp
<1>4. RestoreIsReady'
  BY DEF RestoreIsReady
<1>5. SpoiltIsKnown'
  BY DEF SpoiltIsKnown, SessionTyped, FileStates, CompStates, NoComp
<1>6. RowIsRebuilt'
  BY DEF RowIsRebuilt
<1>7. QED
  BY <1>1, <1>2, <1>3, <1>4, <1>5, <1>6

\* The rows are made from the files.
LEMMA RebuildIndexKeeps ==
    ASSUME SessionFileInv, RebuildIndex
    PROVE  SessionFileInv'
<1> USE DEF RebuildIndex, sidecars, object, titles, compState, pastOfFile
<1> USE DEF SessionFileInv
<1>1. SessionTyped'
   BY SessionFileAssumption DEF SessionTyped, FileStates, RowStates, RequestStates, Payload,
       Titles, Unasked, NoComp, NoRow, Derived
<1>2. AnswersAreBounded'
   BY SessionFileAssumption DEF AnswersAreBounded, Lives, Closed, SessionTyped, FileStates,
       RowStates, NoComp, NoRow, Derived, NoSession
<1>3. Lives'
   BY DEF Lives, Closed, SessionTyped, FileStates, RowStates, NoRow, Derived, NoSession,
       Unasked, NoComp
<1>4. RestoreIsReady'
  BY DEF RestoreIsReady
<1>5. SpoiltIsKnown'
  BY DEF SpoiltIsKnown
<1>6. RowIsRebuilt'
  BY DEF RowIsRebuilt, Lives, SessionTyped, FileStates, RowStates, NoRow, NoSession, Derived
<1>7. QED
  BY <1>1, <1>2, <1>3, <1>4, <1>5, <1>6

\* A process that has started and no session yet.
LEMMA FileInitInvariant == SessionFileInit => SessionFileInv
<1> SUFFICES ASSUME SessionFileInit PROVE SessionFileInv
  OBVIOUS
<1> USE SessionFileAssumption DEF SessionFileInit, Closed
<1>1. SessionTyped
  <2>1. NoSession \in FileStates /\ NoRow \in RowStates
    BY DEF NoSession, NoRow, FileStates, RowStates, Titles
  <2>2. Unasked \in RequestStates /\ NoTitle \in Titles /\ comp \in CompStates \cup {NoComp}
    BY DEF RequestStates, Titles
  <2>3. request \in [Requests -> RequestStates]
    BY <2>2
  <2>4. archived \in BOOLEAN /\ inTurn \in BOOLEAN
    OBVIOUS
  <2>5. events \in 0..MaxEvents /\ pruning \in 0..events /\ backups \subseteq 1..events
    OBVIOUS
  <2>6. QED
    BY <2>1, <2>2, <2>3, <2>4, <2>5 DEF SessionTyped
<1>2. AnswersAreBounded /\ Lives /\ RestoreIsReady /\ SpoiltIsKnown /\ RowIsRebuilt
  BY DEF AnswersAreBounded, Lives, RestoreIsReady, SpoiltIsKnown, RowIsRebuilt, Closed,
     NoSession, NoRow
<1>3. QED
  BY <1>1, <1>2 DEF SessionFileInv

\* Each step of the session, of its requests and of its compactions keeps it.
LEMMA FileStepInvariant == SessionFileInv /\ [SessionFileNext]_sfVars => SessionFileInv'
<1> SUFFICES ASSUME SessionFileInv, [SessionFileNext]_sfVars PROVE SessionFileInv'
  OBVIOUS
<1>1. CASE UNCHANGED sfVars
  BY <1>1 DEF sfVars, sidecars, object, titles, compState, pastOfFile, SessionFileInv,
     SessionTyped, AnswersAreBounded, Lives, Closed, RestoreIsReady, SpoiltIsKnown, RowIsRebuilt
<1>2. ASSUME NEW r \in Requests, Ask(r) \/ Act(r) \/ Landed(r) PROVE SessionFileInv'
  BY <1>2, AskKeeps, ActKeeps, LandedKeeps
<1>3. ASSUME NEW d \in Dirs, SetWorkdir(d) PROVE SessionFileInv'
  BY <1>3, SetWorkdirKeeps
<1>4. CASE CreateFile \/ CreateRow \/ OpenSession \/ ServerDies \/ RebuildIndex
  BY <1>4, CreateFileKeeps, CreateRowKeeps, OpenSessionKeeps, ServerDiesKeeps,
     RebuildIndexKeeps
<1>5. CASE TitleAsked \/ TitleAnswered \/ TitleLanded \/ FlushTitle
  BY <1>5, TitleAskedKeeps, TitleAnsweredKeeps, TitleLandedKeeps, FlushTitleKeeps
<1>6. CASE TurnStarts \/ MessageEnd \/ TurnEnds \/ Archive
  BY <1>6, TurnStartsKeeps, MessageEndKeeps, TurnEndsKeeps, ArchiveKeeps
<1>7. CASE Backup \/ Prune \/ Summarized \/ CompactionAppended \/ Verify \/ Restore
  BY <1>7, BackupKeeps, PruneKeeps, SummarizedKeeps, CompactionAppendedKeeps, VerifyKeeps,
     RestoreKeeps
<1>8. QED
  BY <1>1, <1>2, <1>3, <1>4, <1>5, <1>6, <1>7 DEF SessionFileNext

\* It implies what the runs check.
LEMMA FileInvariantSuffices == SessionFileInv => SessionFileTypeOK /\ SessionFileSound
<1> SUFFICES ASSUME SessionFileInv PROVE SessionFileTypeOK /\ SessionFileSound
  OBVIOUS
<1> USE DEF SessionFileInv
<1>1. OpenedOnce /\ SpoiltIsRestored
  BY DEF OpenedOnce, SpoiltIsRestored, Lives, SpoiltIsKnown, RestoreIsReady
<1>2. file.last \in Answers /\ row.last \in Answers
  BY SessionFileAssumption
     DEF SessionTyped, AnswersAreBounded, FileStates, RowStates, Answers
<1>3. /\ file \in [title : Titles, mode : FileModes, last : Answers,
                   there : BOOLEAN, sound : BOOLEAN]
      /\ row \in [title : Titles, mode : FileModes, archived : BOOLEAN, last : Answers,
                  there : BOOLEAN]
  BY <1>2 DEF SessionTyped, FileStates, RowStates
<1>4. /\ comp.at \in {"none", "summarizing", "appending", "verifying", "restoring"}
      /\ \A r \in Requests : request[r].at \in {"none", "asked", "writing"}
  BY DEF SessionTyped, CompStates, NoComp, RequestStates, Payload, Unasked
<1>5. backups \subseteq 1..MaxEvents /\ pruning \in 0..MaxEvents /\ opening \in 0..1
  BY SessionFileAssumption DEF SessionTyped, Lives
<1>6. SessionFileTypeOK
  BY <1>3, <1>4, <1>5 DEF SessionTyped, SessionFileTypeOK
<1>7. QED
  BY <1>1, <1>6 DEF SessionFileSound

-----------------------------------------------------------------------------
(* The session reader.                                                     *)

TreeLines == [kind : Kinds \cup {"torn"}, parent : Nat]
             \cup [kind : {"leaf"}, parent : Nat, target : Nat]

\* An entry comes after an earlier one, and a jump is to an earlier one.
IsTree(f) ==
    /\ f \in Seq(TreeLines)
    /\ \A i \in 1..Len(f) :
          /\ f[i].parent < i
          /\ f[i].kind = "leaf" => f[i].target < i

\* A file without a torn line: what an entry comes after, and what a jump is to,
\* can be read.
IsWhole(f) ==
    \A i \in 1..Len(f) :
        /\ f[i].kind # "torn"
        /\ f[i].parent \in Readable(f) \cup {0}
        /\ f[i].kind = "leaf" => f[i].target \in Readable(f) \cup {0}

ReaderInv ==
    /\ IsTree(tree) /\ tip \in 0..Len(tree) /\ torn \in Nat /\ jumps \in Nat
    /\ torn = 0 => IsWhole(tree) /\ tip \in Readable(tree) \cup {0}
    /\ (\A i \in 1..Len(tree) : tree[i].kind # "leaf") => tip = Len(tree)

\* Of each there is one before: then there is none.
LEMMA NoEndlessDescent ==
    ASSUME NEW S \in SUBSET Nat, \A i \in S : \E j \in S : j < i
    PROVE  S = {}
<1>1. SUFFICES ASSUME S # {} PROVE FALSE
  OBVIOUS
<1>2. Min(S) \in S /\ \A y \in S : Min(S) <= y
  BY <1>1, MinProperties
<1>3. PICK m \in S : \A y \in S : m <= y
  BY <1>2
<1>4. PICK j \in S : j < m
  OBVIOUS
<1>5. m \in Nat /\ j \in Nat /\ m <= j
  BY <1>3
<1>6. QED
  BY <1>4, <1>5

Rising(s) == \A k \in 2..Len(s) : s[k - 1] < s[k]

\* A sequence with one more at its end.
LEMMA OneMore ==
    ASSUME NEW s \in Seq(Nat), NEW x \in Nat
    PROVE  /\ Append(s, x) \in Seq(Nat) /\ ToSet(Append(s, x)) = ToSet(s) \cup {x}
           /\ Rising(s) /\ (\A y \in ToSet(s) : y < x) => Rising(Append(s, x))
<1> DEFINE t == Append(s, x)
           n == Len(s)
<1>1. /\ t \in Seq(Nat) /\ Len(t) = n + 1 /\ n \in Nat
      /\ t[n + 1] = x /\ \A i \in 1..n : t[i] = s[i]
  BY AppendProperties, LenProperties
<1>2. DOMAIN s = 1..n /\ DOMAIN t = 1..(n + 1) /\ \A i \in 1..n : s[i] \in Nat
  BY <1>1, LenProperties, ElementOfSeq
<1> HIDE DEF t, n
<1>3. ToSet(t) = ToSet(s) \cup {x}
  <2>1. \A i \in 1..(n + 1) : i = n + 1 \/ i \in 1..n
    BY <1>1
  <2>2. \A i \in 1..n : i \in 1..(n + 1)
    BY <1>1
  <2>3. n + 1 \in 1..(n + 1)
    BY <1>1
  <2>4. QED
    BY <1>1, <1>2, <2>1, <2>2, <2>3 DEF ToSet
<1>4. ASSUME Rising(s), \A y \in ToSet(s) : y < x PROVE Rising(t)
  <2>1. SUFFICES ASSUME NEW k \in 2..(n + 1) PROVE t[k - 1] < t[k]
    BY <1>1 DEF Rising
  <2>2. k - 1 \in 1..n /\ t[k - 1] = s[k - 1]
    BY <1>1
  <2>3. CASE k = n + 1
    <3>1. s[k - 1] \in ToSet(s)
      BY <1>2, <2>2 DEF ToSet
    <3>2. QED
      BY <1>1, <1>4, <2>2, <2>3, <3>1
  <2>4. CASE k # n + 1
    <3>1. k \in 2..Len(s) /\ k \in 1..n
      BY <1>1, <2>4 DEF n
    <3>2. QED
      BY <1>1, <1>4, <2>2, <3>1 DEF Rising
  <2>5. QED
    BY <2>3, <2>4
<1>5. QED
  BY <1>1, <1>3, <1>4 DEF t

\* The last of lines.
LEMMA LastOfIsLast ==
    ASSUME NEW n \in Nat, NEW S \in SUBSET (1..n)
    PROVE  LastOf(S) \in S \cup {0} /\ \A j \in S : j <= LastOf(S)
<1>1. \E i \in S \cup {0} : \A j \in S : j <= i
  <2>1. CASE S = {}
    BY <2>1
  <2>2. CASE S # {}
    <3>1. Max(S) \in S /\ \A y \in S : Max(S) >= y
      BY <2>2, MaxProperties
    <3>2. \A y \in S : y <= Max(S)
      BY <3>1
    <3>3. QED
      BY <3>1, <3>2
  <2>3. QED
    BY <2>1, <2>2
<1>2. QED
  BY <1>1 DEF LastOf

\* The lines of a tree.
LEMMA TreeFacts ==
    ASSUME NEW f, IsTree(f)
    PROVE  /\ Len(f) \in Nat /\ LinesOf(f) = 1..Len(f)
           /\ \A i \in 1..Len(f) :
                 /\ f[i].kind \in Kinds \cup {"leaf", "torn"}
                 /\ f[i].parent \in Nat /\ f[i].parent < i
                 /\ f[i].kind = "leaf" => f[i].target \in Nat /\ f[i].target < i
           /\ Readable(f) \subseteq 1..Len(f)
           /\ \A i \in 1..Len(f) : i \in Readable(f) <=> f[i].kind \notin {"torn", "leaf"}
<1>1. f \in Seq(TreeLines) /\ Len(f) \in Nat
  BY LenProperties DEF IsTree
<1>2. ASSUME NEW i \in 1..Len(f)
      PROVE  /\ f[i].kind \in Kinds \cup {"leaf", "torn"}
             /\ f[i].parent \in Nat /\ f[i].parent < i
             /\ f[i].kind = "leaf" => f[i].target \in Nat /\ f[i].target < i
  <2>1. f[i] \in TreeLines
    BY <1>1, ElementOfSeq
  <2>2. QED
    BY <2>1 DEF TreeLines, IsTree, Kinds
<1>3. QED
  BY <1>1, <1>2 DEF LinesOf, Readable

\* The branches of a tree are those that the parents make.
LEMMA BranchesFollowTheParents ==
    ASSUME NEW f, IsTree(f)
    PROVE  \A i \in 0..Len(f) :
              /\ Branches(f)[i] \in Seq(Nat)
              /\ Branches(f)[i] = IF i \in Readable(f)
                                  THEN Append(Branches(f)[f[i].parent], i) ELSE <<>>
<1> DEFINE S == Seq(Nat)
           n == Len(f)
           R == Readable(f)
           from == [i \in 1..n |-> IF i \in R THEN f[i].parent ELSE 0]
           g == [i \in 1..n |-> [s \in S |-> IF i \in R THEN Append(s, i) ELSE <<>>]]
           Made(h) == h = [i \in 0..n |-> IF i \in R THEN Append(h[f[i].parent], i) ELSE <<>>]
<1>1. /\ n \in Nat /\ <<>> \in S /\ R \subseteq 1..n
      /\ \A i \in 1..n : f[i].parent \in Nat /\ f[i].parent < i
  BY TreeFacts, EmptySeq
<1>2. from \in [1..n -> Nat] /\ \A i \in 1..n : from[i] < i
  <2> HIDE DEF R, n
  <2>1. QED
    BY <1>1
<1>3. g \in [1..n -> [S -> S]]
  <2>1. ASSUME NEW i \in 1..n
        PROVE  [s \in S |-> IF i \in R THEN Append(s, i) ELSE <<>>] \in [S -> S]
    <3>1. \A s \in S : Append(s, i) \in S
      BY <1>1, AppendProperties
    <3> HIDE DEF S, R
    <3>2. QED
      BY <1>1, <3>1
  <2> HIDE DEF S, R, n
  <2>2. QED
    BY <2>1
<1>4. PICK h : MadeFromEarlier(h, S, <<>>, n, from, g)
  <2> HIDE DEF S, R, n, from, g
  <2>1. QED
    BY <1>1, <1>2, <1>3, ValuesFromEarlier
<1>5. Made(h)
  <2>1. h \in [0..n -> S] /\ h[0] = <<>> /\ \A i \in 1..n : h[i] = g[i][h[from[i]]]
    BY <1>4 DEF MadeFromEarlier
  <2> HIDE DEF S, R, n
  <2>2. ASSUME NEW i \in 0..n
        PROVE  h[i] = IF i \in R THEN Append(h[f[i].parent], i) ELSE <<>>
    <3>1. CASE i = 0
      BY <3>1, <2>1, <1>1
    <3>2. CASE i # 0
      <4>1. i \in 1..n /\ from[i] \in 0..n
        BY <3>2, <1>1
      <4>2. h[from[i]] \in S /\ h[i] = g[i][h[from[i]]]
        BY <4>1, <2>1
      <4>3. QED
        BY <4>1, <4>2
    <3>3. QED
      BY <3>1, <3>2
  <2>3. QED
    BY <2>1, <2>2
<1>6. Branches(f) = CHOOSE x : Made(x)
  BY DEF Branches
<1> DEFINE r == Branches(f)
<1>7. Made(r)
  BY <1>5, <1>6
<1>8. \A i \in 0..n : r[i] = IF i \in R THEN Append(r[f[i].parent], i) ELSE <<>>
  <2> HIDE DEF r, R, n
  <2>1. QED
    BY <1>7
<1>9. \A i \in 0..n : r[i] \in S
  <2> DEFINE Bad == {i \in 0..n : r[i] \notin S}
  <2> HIDE DEF r, R, n
  <2>1. ASSUME NEW i \in Bad PROVE \E j \in Bad : j < i
    <3>1. i \in 0..n /\ r[i] \notin S
      OBVIOUS
    <3>2. i \in R /\ r[i] = Append(r[f[i].parent], i)
      BY <1>1, <1>8, <3>1
    <3>3. i \in 1..n /\ i \in Nat /\ f[i].parent \in 0..n /\ f[i].parent < i
      BY <1>1, <3>2
    <3>4. r[f[i].parent] \notin S
      BY <3>1, <3>2, <3>3, AppendProperties
    <3>5. QED
      BY <3>3, <3>4
  <2>2. Bad \in SUBSET Nat
    BY <1>1
  <2>3. Bad = {}
    <3> HIDE DEF Bad
    <3>1. QED
      BY <2>1, <2>2, NoEndlessDescent
  <2>4. QED
    BY <2>3
<1>10. QED
  BY <1>8, <1>9

\* A branch rises from the root, over lines that can be read.
LEMMA BranchesRise ==
    ASSUME NEW f, IsTree(f), NEW a \in 0..Len(f)
    PROVE  Rising(Branches(f)[a]) /\ ToSet(Branches(f)[a]) \subseteq Readable(f) \cap (1..a)
<1> DEFINE r == Branches(f)
           n == Len(f)
           R == Readable(f)
           P(i) == Rising(r[i]) /\ ToSet(r[i]) \subseteq R \cap (1..i)
           Bad == {i \in 0..n : ~P(i)}
<1>1. /\ n \in Nat /\ R \subseteq 1..n
      /\ \A i \in 1..n : f[i].parent \in Nat /\ f[i].parent < i
  BY TreeFacts
<1>2. \A i \in 0..n : /\ r[i] \in Seq(Nat)
                      /\ r[i] = IF i \in R THEN Append(r[f[i].parent], i) ELSE <<>>
  BY BranchesFollowTheParents
<1> HIDE DEF r, n, R
<1>3. ASSUME NEW i \in Bad PROVE \E j \in Bad : j < i
  <2>1. i \in 0..n /\ ~P(i)
    OBVIOUS
  <2>2. i \in R
    <3>1. SUFFICES ASSUME i \notin R PROVE FALSE
      OBVIOUS
    <3>2. r[i] = <<>>
      BY <1>2, <2>1, <3>1
    <3>3. P(i)
      BY <3>2 DEF Rising, ToSet
    <3>4. QED
      BY <2>1, <3>3
  <2>3. /\ i \in 1..n /\ i \in Nat /\ f[i].parent \in 0..n /\ f[i].parent \in Nat
        /\ f[i].parent < i
    BY <1>1, <2>2
  <2> DEFINE p == f[i].parent
  <2>4. r[i] = Append(r[p], i) /\ r[p] \in Seq(Nat)
    BY <1>2, <2>1, <2>2, <2>3
  <2> HIDE DEF p
  <2>5. ~P(p)
    <3>1. SUFFICES ASSUME P(p) PROVE FALSE
      OBVIOUS
    <3>2. /\ ToSet(r[i]) = ToSet(r[p]) \cup {i}
          /\ Rising(r[p]) /\ (\A y \in ToSet(r[p]) : y < i) => Rising(r[i])
      BY <2>3, <2>4, OneMore
    <3>3. 1..p \subseteq 1..(i - 1)
      BY <2>3 DEF p
    <3>4. \A y \in ToSet(r[p]) : y < i
      BY <2>3, <3>1, <3>3
    <3>5. ToSet(r[i]) \subseteq R \cap (1..i)
      BY <2>2, <2>3, <3>1, <3>2, <3>3
    <3>6. QED
      BY <2>1, <3>1, <3>2, <3>4, <3>5
  <2>6. QED
    BY <2>3, <2>5 DEF p
<1>4. Bad \in SUBSET Nat
  BY <1>1
<1>5. Bad = {}
  <2> HIDE DEF Bad
  <2>1. QED
    BY <1>3, <1>4, NoEndlessDescent
<1>6. P(a)
  <2>1. a \in 0..n /\ a \notin Bad
    BY <1>5 DEF n
  <2> HIDE DEF P
  <2>2. QED
    BY <2>1
<1>7. QED
  BY <1>6 DEF r, R

\* With an entry a branch has its parent, if the file is whole.
LEMMA BranchesAreClosed ==
    ASSUME NEW f, IsTree(f), IsWhole(f), NEW a \in 0..Len(f)
    PROVE  \A j \in ToSet(Branches(f)[a]) :
              f[j].parent \in ToSet(Branches(f)[a]) \cup {0}
<1> DEFINE r == Branches(f)
           n == Len(f)
           R == Readable(f)
           P(i) == \A j \in ToSet(r[i]) : f[j].parent \in ToSet(r[i]) \cup {0}
           Bad == {i \in 0..n : ~P(i)}
<1>1. /\ n \in Nat /\ R \subseteq 1..n
      /\ \A i \in 1..n : f[i].parent \in Nat /\ f[i].parent < i /\ f[i].parent \in R \cup {0}
  BY TreeFacts DEF IsWhole
<1>2. \A i \in 0..n : /\ r[i] \in Seq(Nat)
                      /\ r[i] = IF i \in R THEN Append(r[f[i].parent], i) ELSE <<>>
  BY BranchesFollowTheParents
<1> HIDE DEF r, n, R
<1>3. ASSUME NEW i \in Bad PROVE \E j \in Bad : j < i
  <2>1. i \in 0..n /\ ~P(i)
    OBVIOUS
  <2>2. i \in R
    <3>1. SUFFICES ASSUME i \notin R PROVE FALSE
      OBVIOUS
    <3>2. r[i] = <<>>
      BY <1>2, <2>1, <3>1
    <3>3. P(i)
      BY <3>2 DEF ToSet
    <3>4. QED
      BY <2>1, <3>3
  <2> DEFINE p == f[i].parent
  <2>3. /\ i \in 1..n /\ i \in Nat /\ p \in 0..n /\ p \in Nat /\ p < i /\ p \in R \cup {0}
    BY <1>1, <2>2
  <2>4. r[i] = Append(r[p], i) /\ r[p] \in Seq(Nat)
    BY <1>2, <2>1, <2>2, <2>3
  <2>5. p \in R => p \in ToSet(r[p])
    <3>1. ASSUME p \in R PROVE p \in ToSet(r[p])
      <4> HIDE DEF p
      <4>1. p \in 1..n /\ f[p].parent \in Nat /\ f[p].parent < p
        BY <1>1, <3>1
      <4>2. r[p] = Append(r[f[p].parent], p) /\ r[f[p].parent] \in Seq(Nat)
        <5>1. f[p].parent \in 0..n
          BY <1>1, <4>1
        <5>2. QED
          BY <1>2, <2>3, <3>1, <5>1
      <4>3. ToSet(r[p]) = ToSet(r[f[p].parent]) \cup {p}
        BY <2>3, <4>2, OneMore
      <4>4. QED
        BY <4>3
    <3>2. QED
      BY <3>1
  <2>6. ToSet(r[i]) = ToSet(r[p]) \cup {i}
    <3> HIDE DEF p
    <3>1. QED
      BY <2>3, <2>4, OneMore
  <2>7. ~P(p)
    <3>1. SUFFICES ASSUME P(p) PROVE FALSE
      OBVIOUS
    <3>2. P(i)
      BY <2>3, <2>5, <2>6, <3>1
    <3>3. QED
      BY <2>1, <3>2
  <2>8. p \in Bad
    <3> HIDE DEF P, p
    <3>1. QED
      BY <2>3, <2>7
  <2>9. QED
    BY <2>3, <2>8
<1>4. Bad \in SUBSET Nat
  BY <1>1
<1>5. Bad = {}
  <2> HIDE DEF Bad
  <2>1. QED
    BY <1>3, <1>4, NoEndlessDescent
<1>6. P(a)
  <2>1. a \in 0..n /\ a \notin Bad
    BY <1>5 DEF n
  <2> HIDE DEF P
  <2>2. QED
    BY <2>1
<1>7. QED
  BY <1>6 DEF r

\* A set of entries that has an entry and with each its parent has the branch.
LEMMA BranchesAreLeast ==
    ASSUME NEW f, IsTree(f), NEW S, NEW a \in 0..Len(f), a \in S \cup {0},
           \A j \in S : f[j].parent \in S \cup {0}
    PROVE  ToSet(Branches(f)[a]) \subseteq S
<1> DEFINE r == Branches(f)
           n == Len(f)
           R == Readable(f)
           P(i) == i \in S \cup {0} => ToSet(r[i]) \subseteq S
           Bad == {i \in 0..n : ~P(i)}
<1>1. /\ n \in Nat /\ R \subseteq 1..n
      /\ \A i \in 1..n : f[i].parent \in Nat /\ f[i].parent < i
  BY TreeFacts
<1>2. \A i \in 0..n : /\ r[i] \in Seq(Nat)
                      /\ r[i] = IF i \in R THEN Append(r[f[i].parent], i) ELSE <<>>
  BY BranchesFollowTheParents
<1> HIDE DEF r, n, R
<1>3. ASSUME NEW i \in Bad PROVE \E j \in Bad : j < i
  <2>1. i \in 0..n /\ ~P(i)
    OBVIOUS
  <2>2. i \in R
    <3>1. SUFFICES ASSUME i \notin R PROVE FALSE
      OBVIOUS
    <3>2. r[i] = <<>>
      BY <1>2, <2>1, <3>1
    <3>3. P(i)
      BY <3>2 DEF ToSet
    <3>4. QED
      BY <2>1, <3>3
  <2> DEFINE p == f[i].parent
  <2>3. /\ i \in 1..n /\ i \in Nat /\ p \in 0..n /\ p \in Nat /\ p < i /\ i # 0
    BY <1>1, <2>2
  <2>4. r[i] = Append(r[p], i) /\ r[p] \in Seq(Nat)
    BY <1>2, <2>1, <2>2, <2>3
  <2>5. i \in S /\ p \in S \cup {0}
    BY <2>1, <2>3
  <2>6. ToSet(r[i]) = ToSet(r[p]) \cup {i}
    <3> HIDE DEF p
    <3>1. QED
      BY <2>3, <2>4, OneMore
  <2>7. ~P(p)
    BY <2>1, <2>5, <2>6
  <2>8. p \in Bad
    <3> HIDE DEF P, p
    <3>1. QED
      BY <2>3, <2>7
  <2>9. QED
    BY <2>3, <2>8
<1>4. Bad \in SUBSET Nat
  BY <1>1
<1>5. Bad = {}
  <2> HIDE DEF Bad
  <2>1. QED
    BY <1>3, <1>4, NoEndlessDescent
<1>6. P(a)
  <2>1. a \in 0..n /\ a \notin Bad
    BY <1>5 DEF n
  <2> HIDE DEF P
  <2>2. QED
    BY <2>1
<1>7. QED
  BY <1>6 DEF r

\* What the reader follows is the branch.
LEMMA BranchesAreBranches ==
    ASSUME NEW f, IsTree(f), NEW a \in 0..Len(f)
    PROVE  /\ ToSet(Branches(f)[a]) \subseteq Branch(f, a)
           /\ IsWhole(f) /\ a \in Readable(f) \cup {0} =>
                 ToSet(Branches(f)[a]) = Branch(f, a)
<1> DEFINE C == ToSet(Branches(f)[a])
<1>1. LinesOf(f) = 1..Len(f) /\ Len(f) \in Nat /\ Readable(f) \subseteq 1..Len(f)
  BY TreeFacts
<1>2. C \subseteq Readable(f)
  BY BranchesRise
<1>3. ASSUME NEW i \in C PROVE i \in Branch(f, a)
  <2>1. i \in LinesOf(f)
    BY <1>1, <1>2, <1>3
  <2>2. ASSUME NEW S \in SUBSET (LinesOf(f) \ {i}),
               a \in S \cup {0} /\ \A j \in S : f[j].parent \in S \cup {0}
        PROVE  FALSE
    <3>1. C \subseteq S
      BY <2>2, BranchesAreLeast
    <3>2. QED
      BY <1>3, <3>1
  <2> HIDE DEF C
  <2>3. QED
    BY <2>1, <2>2 DEF Branch
<1>4. ASSUME IsWhole(f), a \in Readable(f) \cup {0}, NEW i \in Branch(f, a)
      PROVE  i \in C
  <2>1. SUFFICES ASSUME i \notin C PROVE FALSE
    OBVIOUS
  <2>2. C \in SUBSET (LinesOf(f) \ {i})
    BY <1>1, <1>2, <2>1
  <2>3. a \in C \cup {0}
    <3>1. SUFFICES ASSUME a \in Readable(f) PROVE a \in C
      BY <1>4
    <3>2. f[a].parent \in 0..Len(f) /\ a \in Nat
      BY <3>1, TreeFacts
    <3>3. /\ Branches(f)[a] = Append(Branches(f)[f[a].parent], a)
          /\ Branches(f)[f[a].parent] \in Seq(Nat)
      BY <3>1, <3>2, BranchesFollowTheParents
    <3>4. QED
      BY <3>2, <3>3, OneMore
  <2>4. \A j \in C : f[j].parent \in C \cup {0}
    BY <1>4, BranchesAreClosed
  <2> HIDE DEF C
  <2>5. QED
    BY <1>4, <2>2, <2>3, <2>4 DEF Branch
<1>5. QED
  BY <1>3, <1>4

\* The turns are those that the loop makes, an entry of the branch after another.
LEMMA TurnsFollowTheBranch ==
    ASSUME NEW f, NEW b \in Seq(Nat)
    PROVE  /\ Len(b) \in Nat /\ TurnsAlong(f, b)[0] = <<>>
           /\ \A n \in 0..Len(b) : TurnsAlong(f, b)[n] \in Seq(Nat)
           /\ \A n \in 1..Len(b) :
                 TurnsAlong(f, b)[n] = IF f[b[n]].kind \in WithText
                                       THEN Append(TurnsAlong(f, b)[n - 1], b[n])
                                       ELSE TurnsAlong(f, b)[n - 1]
<1> DEFINE S == Seq(Nat)
           m == Len(b)
           text(n) == f[b[n]].kind \in WithText
           g == [n \in 1..m |-> [s \in S |-> IF text(n) THEN Append(s, b[n]) ELSE s]]
           Made(h) == h = [n \in 0..m |-> IF n = 0 THEN <<>>
                                          ELSE IF text(n) THEN Append(h[n - 1], b[n])
                                          ELSE h[n - 1]]
<1>1. m \in Nat /\ <<>> \in S /\ \A n \in 1..m : b[n] \in Nat
  BY LenProperties, EmptySeq, ElementOfSeq
<1>2. g \in [1..m -> [S -> S]]
  <2>1. ASSUME NEW n \in 1..m
        PROVE  [s \in S |-> IF text(n) THEN Append(s, b[n]) ELSE s] \in [S -> S]
    <3>1. \A s \in S : Append(s, b[n]) \in S
      BY <1>1, AppendProperties
    <3> HIDE DEF S, text
    <3>2. QED
      BY <3>1
  <2> HIDE DEF S, m, text
  <2>2. QED
    BY <2>1
<1>3. PICK h : MadeOneByOne(h, S, <<>>, m, g)
  <2> HIDE DEF S, m, g
  <2>1. QED
    BY <1>1, <1>2, StepByStep
<1>4. /\ h \in [0..m -> S] /\ h[0] = <<>>
      /\ \A n \in 1..m : h[n] = g[n][h[n - 1]]
  <2> USE DEF MadeOneByOne, MadeFromEarlier
  <2> HIDE DEF S, m, g
  <2>1. QED
    BY <1>1, <1>3
<1>5. \A n \in 1..m : h[n] = IF text(n) THEN Append(h[n - 1], b[n]) ELSE h[n - 1]
  <2>1. \A n \in 1..m : n - 1 \in 0..m
    BY <1>1
  <2> HIDE DEF S, m, text
  <2>2. \A n \in 1..m : h[n - 1] \in S
    BY <1>4, <2>1
  <2>3. QED
    BY <1>4, <2>2
<1>6. Made(h)
  <2> HIDE DEF S, m, text
  <2>1. ASSUME NEW n \in 0..m
        PROVE  h[n] = IF n = 0 THEN <<>>
                      ELSE IF text(n) THEN Append(h[n - 1], b[n]) ELSE h[n - 1]
    <3>1. n = 0 \/ n \in 1..m
      BY <1>1
    <3>2. QED
      BY <1>4, <1>5, <3>1
  <2>2. QED
    BY <2>1, <1>4
<1>7. TurnsAlong(f, b) = CHOOSE x : Made(x)
  BY DEF TurnsAlong
<1> DEFINE t == TurnsAlong(f, b)
<1>8. Made(t)
  BY <1>6, <1>7
<1>9. /\ t[0] = <<>>
      /\ \A n \in 1..m : t[n] = IF text(n) THEN Append(t[n - 1], b[n]) ELSE t[n - 1]
  <2> HIDE DEF t, text, m
  <2>1. 0 \in 0..m /\ \A n \in 1..m : n \in 0..m /\ n # 0
    BY <1>1
  <2>2. QED
    BY <1>8, <2>1
<1>10. \A n \in 0..m : t[n] \in S
  <2> DEFINE Bad == {n \in 0..m : t[n] \notin S}
  <2> HIDE DEF t, text, m
  <2>1. ASSUME NEW n \in Bad PROVE \E j \in Bad : j < n
    <3>1. n \in 0..m /\ t[n] \notin S
      OBVIOUS
    <3>2. n # 0
      BY <1>1, <1>9, <3>1
    <3>3. n \in 1..m /\ n - 1 \in 0..m /\ n - 1 < n
      BY <1>1, <3>1, <3>2
    <3>4. t[n - 1] \in S => t[n] \in S
      <4>1. ASSUME t[n - 1] \in S PROVE t[n] \in S
        <5>1. b[n] \in Nat
          BY <1>1, <3>3
        <5>2. Append(t[n - 1], b[n]) \in S
          BY <4>1, <5>1, AppendProperties
        <5>3. QED
          BY <1>9, <3>3, <4>1, <5>2
      <4>2. QED
        BY <4>1
    <3>5. QED
      BY <3>1, <3>3, <3>4
  <2>2. Bad \in SUBSET Nat
    BY <1>1
  <2>3. Bad = {}
    <3> HIDE DEF Bad
    <3>1. QED
      BY <2>1, <2>2, NoEndlessDescent
  <2>4. QED
    BY <2>3
<1>11. QED
  BY <1>1, <1>9, <1>10

\* The turns along a branch that rises: its entries with a text, in order.
LEMMA TurnsAreTheTexts ==
    ASSUME NEW f, NEW b \in Seq(Nat), Rising(b)
    PROVE  /\ Rising(TurnsAlong(f, b)[Len(b)])
           /\ ToSet(TurnsAlong(f, b)[Len(b)]) = {i \in ToSet(b) : f[i].kind \in WithText}
<1> DEFINE t == TurnsAlong(f, b)
           m == Len(b)
           text(i) == f[i].kind \in WithText
           P(n) == /\ Rising(t[n])
                   /\ ToSet(t[n]) = {i \in {b[k] : k \in 1..n} : text(i)}
           Bad == {n \in 0..m : ~P(n)}
<1>1. /\ m \in Nat /\ DOMAIN b = 1..m /\ \A n \in 1..m : b[n] \in Nat
  BY LenProperties, ElementOfSeq
<1>2. /\ t[0] = <<>> /\ \A n \in 0..m : t[n] \in Seq(Nat)
      /\ \A n \in 1..m : t[n] = IF text(b[n]) THEN Append(t[n - 1], b[n]) ELSE t[n - 1]
  BY TurnsFollowTheBranch
<1>3. \A n \in 1..m : \A k \in 1..(n - 1) : b[k] < b[n]
  <2> DEFINE OutOfOrder == {n \in 1..m : ~\A k \in 1..(n - 1) : b[k] < b[n]}
  <2>1. ASSUME NEW n \in OutOfOrder PROVE \E j \in OutOfOrder : j < n
    <3>1. PICK k \in 1..(n - 1) : ~(b[k] < b[n])
      OBVIOUS
    <3>2. n \in 2..m /\ n - 1 \in 1..m /\ k \in 1..m /\ n - 1 < n
      BY <1>1, <3>1
    <3>3. b[n - 1] < b[n] /\ b[n - 1] \in Nat /\ b[n] \in Nat /\ b[k] \in Nat
      BY <1>1, <3>2 DEF Rising
    <3>4. k \in 1..((n - 1) - 1)
      BY <3>1, <3>2, <3>3
    <3>5. ~(b[k] < b[n - 1])
      BY <3>1, <3>3
    <3>6. QED
      BY <3>2, <3>4, <3>5
  <2>2. OutOfOrder \in SUBSET Nat
    BY <1>1
  <2>3. OutOfOrder = {}
    <3> HIDE DEF OutOfOrder
    <3>1. QED
      BY <2>1, <2>2, NoEndlessDescent
  <2>4. QED
    BY <2>3
<1> HIDE DEF t, m, text
<1>4. ASSUME NEW n \in Bad PROVE \E j \in Bad : j < n
  <2>1. n \in 0..m /\ ~P(n)
    OBVIOUS
  <2>2. n # 0
    <3>1. SUFFICES ASSUME n = 0 PROVE P(0)
      BY <2>1
    <3>2. t[0] = <<>> /\ 1..0 = {}
      BY <1>2
    <3>3. QED
      BY <3>2 DEF Rising, ToSet
  <2>3. n \in 1..m /\ n - 1 \in 0..m /\ n - 1 < n /\ b[n] \in Nat /\ t[n - 1] \in Seq(Nat)
    BY <1>1, <1>2, <2>1, <2>2
  <2>4. {b[k] : k \in 1..n} = {b[k] : k \in 1..(n - 1)} \cup {b[n]}
    <3>1. 1..n = 1..(n - 1) \cup {n}
      BY <2>3
    <3>2. QED
      BY <3>1
  <2>5. P(n - 1) => P(n)
    <3>1. SUFFICES ASSUME P(n - 1) PROVE P(n)
      OBVIOUS
    <3> DEFINE s == t[n - 1]
               before == {b[k] : k \in 1..(n - 1)}
               upTo == {b[k] : k \in 1..n}
    <3>2. Rising(s) /\ ToSet(s) = {i \in before : text(i)}
      BY <3>1
    <3>3. \A y \in ToSet(s) : y < b[n]
      BY <3>2, <1>3, <2>3
    <3>4. upTo = before \cup {b[n]}
      BY <2>4
    <3>5. SUFFICES Rising(t[n]) /\ ToSet(t[n]) = {i \in upTo : text(i)}
      OBVIOUS
    <3> HIDE DEF s, before, upTo
    <3>6. CASE text(b[n])
      <4>1. t[n] = Append(s, b[n]) /\ s \in Seq(Nat)
        BY <1>2, <2>3, <3>6 DEF s
      <4>2. Rising(t[n]) /\ ToSet(t[n]) = ToSet(s) \cup {b[n]}
        BY <2>3, <3>2, <3>3, <4>1, OneMore
      <4>3. QED
        BY <3>2, <3>4, <3>6, <4>2
    <3>7. CASE ~text(b[n])
      <4>1. t[n] = s
        BY <1>2, <2>3, <3>7 DEF s
      <4>2. QED
        BY <3>2, <3>4, <3>7, <4>1
    <3>8. QED
      BY <3>6, <3>7
  <2>6. n - 1 \in Bad
    <3> HIDE DEF P
    <3>1. QED
      BY <2>1, <2>3, <2>5
  <2>7. QED
    BY <2>3, <2>6
<1>5. Bad \in SUBSET Nat
  BY <1>1
<1>6. Bad = {}
  <2> HIDE DEF Bad
  <2>1. QED
    BY <1>4, <1>5, NoEndlessDescent
<1>7. P(m)
  <2>1. m \in 0..m
    BY <1>1
  <2> HIDE DEF P
  <2>2. QED
    BY <1>6, <2>1
<1>8. {b[k] : k \in 1..m} = ToSet(b)
  BY <1>1 DEF ToSet
<1>9. QED
  BY <1>7, <1>8 DEF t, m, text

\* Branches that begin alike have the same turns at first.
LEMMA TurnsAgree ==
    ASSUME NEW f, NEW h, NEW b \in Seq(Nat), NEW c \in Seq(Nat),
           Len(b) <= Len(c),
           \A k \in 1..Len(b) : b[k] = c[k] /\ f[b[k]].kind = h[b[k]].kind
    PROVE  TurnsAlong(f, b)[Len(b)] = TurnsAlong(h, c)[Len(b)]
<1> DEFINE t == TurnsAlong(f, b)
           u == TurnsAlong(h, c)
           m == Len(b)
           P(n) == t[n] = u[n]
           Bad == {n \in 0..m : ~P(n)}
<1>1. m \in Nat /\ Len(c) \in Nat
  BY LenProperties
<1>2. /\ t[0] = <<>>
      /\ \A n \in 1..m : t[n] = IF f[b[n]].kind \in WithText
                                THEN Append(t[n - 1], b[n]) ELSE t[n - 1]
  BY TurnsFollowTheBranch
<1>3. /\ u[0] = <<>>
      /\ \A n \in 1..Len(c) : u[n] = IF h[c[n]].kind \in WithText
                                     THEN Append(u[n - 1], c[n]) ELSE u[n - 1]
  BY TurnsFollowTheBranch
<1> HIDE DEF t, u
<1>4. ASSUME NEW n \in Bad PROVE \E j \in Bad : j < n
  <2>1. n \in 0..m /\ t[n] # u[n]
    OBVIOUS
  <2>2. n # 0
    BY <1>2, <1>3, <2>1
  <2>3. n \in 1..m /\ n \in 1..Len(c) /\ n - 1 \in 0..m /\ n - 1 < n
    BY <1>1, <2>1, <2>2
  <2>4. b[n] = c[n] /\ f[b[n]].kind = h[b[n]].kind
    BY <2>3
  <2>5. t[n - 1] # u[n - 1]
    BY <1>2, <1>3, <2>1, <2>3, <2>4
  <2>6. QED
    BY <2>3, <2>5
<1>5. Bad \in SUBSET Nat
  BY <1>1
<1>6. Bad = {}
  <2> HIDE DEF Bad
  <2>1. QED
    BY <1>4, <1>5, NoEndlessDescent
<1>7. m \in 0..m
  BY <1>1
<1>8. QED
  BY <1>6, <1>7 DEF t, u

Leaves(f) == {i \in 1..Len(f) : f[i].kind = "leaf"}

\* Where the branch ends is a line of the file, or the root.
LEMMA AnchorIsThere ==
    ASSUME NEW f, IsTree(f)
    PROVE  /\ Anchor(f) \in 0..Len(f)
           /\ IsWhole(f) => Anchor(f) \in Readable(f) \cup {0}
           /\ Anchor(f) = IF Leaves(f) # {} THEN f[LastOf(Leaves(f))].target
                          ELSE LastOf(Readable(f))
           /\ LastOf(Leaves(f)) \in Leaves(f) \cup {0}
           /\ \A j \in Leaves(f) : j <= LastOf(Leaves(f))
<1> DEFINE L == Leaves(f)
           R == Readable(f)
           n == Len(f)
<1>1. /\ n \in Nat /\ R \in SUBSET (1..n) /\ L \in SUBSET (1..n)
      /\ \A i \in L : f[i].target \in Nat /\ f[i].target < i
  BY TreeFacts DEF Leaves
<1>2. Anchor(f) = IF L # {} THEN f[LastOf(L)].target ELSE LastOf(R)
  BY DEF Anchor, Leaves, LinesOf
<1>3. IsWhole(f) => \A i \in L : f[i].target \in R \cup {0}
  BY DEF IsWhole, Leaves
<1> HIDE DEF L, R, n
<1>4. /\ LastOf(L) \in L \cup {0} /\ LastOf(R) \in R \cup {0}
      /\ \A j \in L : j <= LastOf(L)
  BY <1>1, LastOfIsLast
<1>5. ASSUME L # {} PROVE LastOf(L) \in L
  <2>1. PICK j \in L : TRUE
    BY <1>5
  <2>2. j \in 1..n /\ j <= LastOf(L)
    BY <1>1, <1>4
  <2>3. LastOf(L) # 0
    BY <2>2, <1>1
  <2>4. QED
    BY <1>4, <2>3
<1>6. QED
  BY <1>1, <1>2, <1>3, <1>4, <1>5 DEF L, R, n

\* The turns of a file are those of its branch.
LEMMA TurnsAreOfTheBranch ==
    ASSUME IsTree(tree), torn = 0 => IsWhole(tree)
    PROVE  TurnsOfTheBranch
<1> DEFINE a == Anchor(tree)
           b == ActiveBranch(tree)
           t == TurnsOf(tree)
<1>1. /\ a \in 0..Len(tree)
      /\ IsWhole(tree) => a \in Readable(tree) \cup {0}
  BY AnchorIsThere
<1>2. b = Branches(tree)[a]
  BY DEF ActiveBranch
<1>3. t = TurnsAlong(tree, b)[Len(b)]
  BY DEF TurnsOf
<1> HIDE DEF a, b, t
<1>4. b \in Seq(Nat) /\ Rising(b)
  BY <1>1, <1>2, BranchesFollowTheParents, BranchesRise
<1>5. Rising(t) /\ ToSet(t) = {i \in ToSet(b) : tree[i].kind \in WithText}
  BY <1>3, <1>4, TurnsAreTheTexts
<1>6. /\ ToSet(b) \subseteq Branch(tree, a)
      /\ IsWhole(tree) => ToSet(b) = Branch(tree, a)
  BY <1>1, <1>2, BranchesAreBranches
<1>7. /\ ToSet(t) \subseteq {i \in Branch(tree, a) : tree[i].kind \in WithText}
      /\ IsWhole(tree) => ToSet(t) = {i \in Branch(tree, a) : tree[i].kind \in WithText}
  BY <1>5, <1>6
<1>8. QED
  BY <1>5, <1>7 DEF TurnsOfTheBranch, Rising, t, a

\* A tree with a line more.
LEMMA TreeGrows ==
    ASSUME NEW f, IsTree(f), NEW e \in TreeLines, e.parent <= Len(f),
           e.kind = "leaf" => e.target <= Len(f)
    PROVE  /\ IsTree(Append(f, e)) /\ Len(Append(f, e)) = Len(f) + 1 /\ Len(f) \in Nat
           /\ Append(f, e)[Len(f) + 1] = e
           /\ \A i \in 1..Len(f) : Append(f, e)[i] = f[i]
           /\ Readable(Append(f, e)) =
                 Readable(f) \cup {i \in {Len(f) + 1} : e.kind \notin {"torn", "leaf"}}
           /\ Leaves(Append(f, e)) = Leaves(f) \cup {i \in {Len(f) + 1} : e.kind = "leaf"}
<1> DEFINE h == Append(f, e)
           n == Len(f)
<1>1. f \in Seq(TreeLines)
  BY DEF IsTree
<1>2. /\ h \in Seq(TreeLines) /\ Len(h) = n + 1 /\ n \in Nat
      /\ h[n + 1] = e /\ \A i \in 1..n : h[i] = f[i]
  BY <1>1, AppendProperties, LenProperties
<1>3. e.parent \in Nat /\ (e.kind = "leaf" => e.target \in Nat)
  BY DEF TreeLines, Kinds
<1>4. \A i \in 1..n : f[i].parent < i /\ (f[i].kind = "leaf" => f[i].target < i)
  BY DEF IsTree
<1> HIDE DEF h
<1>5. \A i \in 1..(n + 1) : i = n + 1 \/ i \in 1..n
  BY <1>2
<1>6. e.parent < n + 1 /\ (e.kind = "leaf" => e.target < n + 1)
  BY <1>2, <1>3
<1>7. n + 1 \in 1..(n + 1) /\ \A i \in 1..n : i \in 1..(n + 1) /\ i # n + 1
  BY <1>2
<1> HIDE DEF n
<1>8. IsTree(h)
  BY <1>2, <1>4, <1>5, <1>6 DEF IsTree
<1>9. Readable(h) = Readable(f) \cup {i \in {n + 1} : e.kind \notin {"torn", "leaf"}}
  BY <1>2, <1>5, <1>7 DEF Readable, LinesOf, n
<1>10. Leaves(h) = Leaves(f) \cup {i \in {n + 1} : e.kind = "leaf"}
  BY <1>2, <1>5, <1>7 DEF Leaves, n
<1>11. QED
  BY <1>2, <1>8, <1>9, <1>10 DEF h, n

\* The branches that a tree had it still has.
LEMMA BranchesStay ==
    ASSUME NEW f, IsTree(f), NEW e \in TreeLines, e.parent <= Len(f),
           e.kind = "leaf" => e.target <= Len(f)
    PROVE  \A i \in 0..Len(f) : Branches(Append(f, e))[i] = Branches(f)[i]
<1> DEFINE h == Append(f, e)
           n == Len(f)
           r == Branches(f)
           q == Branches(h)
           Bad == {i \in 0..n : q[i] # r[i]}
<1>1. /\ IsTree(h) /\ Len(h) = n + 1 /\ n \in Nat /\ \A i \in 1..n : h[i] = f[i]
      /\ Readable(h) = Readable(f) \cup {i \in {n + 1} : e.kind \notin {"torn", "leaf"}}
  BY TreeGrows
<1>2. \A i \in 0..n : r[i] = IF i \in Readable(f) THEN Append(r[f[i].parent], i) ELSE <<>>
  BY BranchesFollowTheParents
<1>3. \A i \in 0..(n + 1) :
          q[i] = IF i \in Readable(h) THEN Append(q[h[i].parent], i) ELSE <<>>
  BY <1>1, BranchesFollowTheParents
<1>4. /\ Readable(f) \subseteq 1..n
      /\ \A i \in 1..n : f[i].parent \in Nat /\ f[i].parent < i
  BY TreeFacts
<1> HIDE DEF r, q, n, h
<1>5. \A i \in 0..n : i \in 0..(n + 1) /\ (i \in Readable(h) <=> i \in Readable(f))
  BY <1>1
<1>6. ASSUME NEW i \in Bad PROVE \E j \in Bad : j < i
  <2>1. i \in 0..n /\ q[i] # r[i]
    OBVIOUS
  <2>2. i \in Readable(f)
    BY <1>2, <1>3, <1>5, <2>1
  <2>3. /\ i \in 1..n /\ f[i].parent \in 0..n /\ f[i].parent < i /\ h[i] = f[i]
    BY <1>1, <1>4, <2>2
  <2>4. q[f[i].parent] # r[f[i].parent]
    BY <1>2, <1>3, <1>5, <2>1, <2>2, <2>3
  <2>5. QED
    BY <2>3, <2>4
<1>7. Bad \in SUBSET Nat
  BY <1>1
<1>8. Bad = {}
  <2> HIDE DEF Bad
  <2>1. QED
    BY <1>6, <1>7, NoEndlessDescent
<1>9. QED
  BY <1>8 DEF r, q, n, h

\* An empty file is a tree.
LEMMA ReaderInitInvariant == ReaderInit => ReaderInv
<1> SUFFICES ASSUME ReaderInit PROVE ReaderInv
  OBVIOUS
<1>1. tree = <<>> /\ tip = 0 /\ torn = 0 /\ jumps = 0
  BY DEF ReaderInit
<1>2. <<>> \in Seq(TreeLines) /\ Len(<<>>) = 0 /\ 1..0 = {}
  BY EmptySeq
<1>3. QED
  BY <1>1, <1>2 DEF ReaderInv, IsTree, IsWhole

\* A line more is of the tree, whole or torn.
LEMMA LineKeeps ==
    ASSUME ReaderInv, NEW e \in TreeLines, tree' = Append(tree, e), e.parent = tip,
           e.kind = "leaf" => e.target \in {0} \cup {i \in 1..Len(tree) : tree[i].kind \in Kinds},
           e.kind # "torn", torn' = torn, jumps' \in Nat,
           tip' = IF e.kind = "leaf" THEN e.target ELSE Len(tree) + 1
    PROVE  ReaderInv'
<1>1. IsTree(tree) /\ tip \in 0..Len(tree) /\ Len(tree) \in Nat
  <2>1. IsTree(tree) /\ tip \in 0..Len(tree)
    BY DEF ReaderInv
  <2>2. QED
    BY <2>1, TreeFacts
<1>2. e.kind = "leaf" => e.target \in Readable(tree) \cup {0} /\ e.target \in 0..Len(tree)
  BY <1>1, TreeFacts DEF Kinds
<1>3. e.parent <= Len(tree) /\ (e.kind = "leaf" => e.target <= Len(tree))
  BY <1>1, <1>2
<1>4. /\ IsTree(tree') /\ Len(tree') = Len(tree) + 1 /\ tree'[Len(tree) + 1] = e
      /\ \A i \in 1..Len(tree) : tree'[i] = tree[i]
      /\ Readable(tree')
            = Readable(tree) \cup {i \in {Len(tree) + 1} : e.kind \notin {"torn", "leaf"}}
  BY <1>1, <1>3, TreeGrows
<1>5. \A i \in 1..(Len(tree) + 1) : i = Len(tree) + 1 \/ i \in 1..Len(tree)
  BY <1>1
<1>6. ASSUME torn = 0 PROVE IsWhole(tree') /\ tip' \in Readable(tree') \cup {0}
  <2>1. IsWhole(tree) /\ tip \in Readable(tree) \cup {0}
    BY <1>6 DEF ReaderInv
  <2>2. ASSUME NEW i \in 1..Len(tree')
        PROVE  /\ tree'[i].kind # "torn"
               /\ tree'[i].parent \in Readable(tree') \cup {0}
               /\ tree'[i].kind = "leaf" => tree'[i].target \in Readable(tree') \cup {0}
    <3>1. CASE i = Len(tree) + 1
      BY <3>1, <1>2, <1>4, <2>1
    <3>2. CASE i \in 1..Len(tree)
      BY <3>2, <1>4, <2>1 DEF IsWhole
    <3>3. QED
      BY <1>4, <1>5, <3>1, <3>2
  <2>3. tip' \in Readable(tree') \cup {0}
    BY <1>2, <1>4
  <2>4. QED
    BY <2>2, <2>3 DEF IsWhole
<1>7. tip' \in 0..Len(tree')
  <2>1. CASE e.kind = "leaf"
    BY <2>1, <1>1, <1>2, <1>4
  <2>2. CASE e.kind # "leaf"
    BY <2>2, <1>1, <1>4
  <2>3. QED
    BY <2>1, <2>2
<1>8. (\A i \in 1..Len(tree') : tree'[i].kind # "leaf") => tip' = Len(tree')
  <2>1. Len(tree) + 1 \in 1..Len(tree')
    BY <1>1, <1>4
  <2>2. QED
    BY <1>4, <2>1
<1>9. torn' \in Nat
  BY DEF ReaderInv
<1>10. QED
  BY <1>4, <1>6, <1>7, <1>8, <1>9 DEF ReaderInv

\* An entry is appended after the tip.
LEMMA AppendEntryKeeps ==
    ASSUME ReaderInv, NEW kind \in Kinds, AppendEntry(kind)
    PROVE  ReaderInv'
<1> DEFINE e == [kind |-> kind, parent |-> tip]
<1>1. tip \in Nat /\ Len(tree) \in Nat
  <2>1. IsTree(tree) /\ tip \in 0..Len(tree)
    BY DEF ReaderInv
  <2>2. QED
    BY <2>1, TreeFacts
<1>2. e \in TreeLines /\ e.kind \notin {"leaf", "torn"} /\ e.parent = tip
  BY <1>1 DEF TreeLines, Kinds
<1>3. tree' = Append(tree, e) /\ tip' = Len(tree) + 1 /\ torn' = torn /\ jumps' = jumps
  BY DEF AppendEntry
<1> HIDE DEF e
<1>4. jumps' \in Nat
  BY <1>3 DEF ReaderInv
<1>5. QED
  BY <1>2, <1>3, <1>4, LineKeeps

\* A leaf line makes an earlier entry the tip.
LEMMA JumpToKeeps ==
    ASSUME ReaderInv,
           NEW target \in {0} \cup {i \in 1..Len(tree) : tree[i].kind \in Kinds},
           JumpTo(target)
    PROVE  ReaderInv'
<1> DEFINE e == [kind |-> "leaf", parent |-> tip, target |-> target]
<1>1. tip \in Nat /\ Len(tree) \in Nat
  <2>1. IsTree(tree) /\ tip \in 0..Len(tree)
    BY DEF ReaderInv
  <2>2. QED
    BY <2>1, TreeFacts
<1>2. e \in TreeLines /\ e.kind = "leaf" /\ e.parent = tip /\ e.target = target
  BY <1>1 DEF TreeLines
<1>3. tree' = Append(tree, e) /\ tip' = target /\ torn' = torn /\ jumps' = jumps + 1
  BY DEF JumpTo
<1> HIDE DEF e
<1>4. jumps' \in Nat
  BY <1>3 DEF ReaderInv
<1>5. QED
  BY <1>2, <1>3, <1>4, LineKeeps

\* A line is torn, and what comes after it is cut off from what came before.
LEMMA TearEntryKeeps ==
    ASSUME ReaderInv, TearEntry
    PROVE  ReaderInv'
<1>1. /\ tree' = Append(tree, Torn) /\ tip' = Len(tree) + 1 /\ torn' = torn + 1
      /\ torn \in Nat /\ jumps' \in Nat
  BY DEF TearEntry, ReaderInv
<1>2. IsTree(tree)
  BY DEF ReaderInv
<1>3. Torn \in TreeLines /\ Torn.parent = 0 /\ Torn.kind = "torn"
  BY DEF Torn, TreeLines
<1>4. Len(tree) \in Nat /\ 0 <= Len(tree)
  BY <1>2, TreeFacts
<1>5. IsTree(tree') /\ Len(tree') = Len(tree) + 1
  BY <1>1, <1>2, <1>3, <1>4, TreeGrows
<1>6. torn' # 0 /\ torn' \in Nat /\ tip' = Len(tree') /\ tip' \in 0..Len(tree')
  BY <1>1, <1>4, <1>5
<1>7. QED
  BY <1>1, <1>5, <1>6 DEF ReaderInv

\* Every line that is appended keeps the invariant.
LEMMA ReaderStepInvariant == ReaderInv /\ [ReaderNext]_readerVars => ReaderInv'
<1> SUFFICES ASSUME ReaderInv, [ReaderNext]_readerVars PROVE ReaderInv'
  OBVIOUS
<1>1. CASE UNCHANGED readerVars
  BY <1>1 DEF readerVars, ReaderInv
<1>2. ASSUME NEW kind \in Kinds, AppendEntry(kind) PROVE ReaderInv'
  BY <1>2, AppendEntryKeeps
<1>3. ASSUME NEW target \in {0} \cup {i \in 1..Len(tree) : tree[i].kind \in Kinds},
             JumpTo(target)
      PROVE  ReaderInv'
  BY <1>3, JumpToKeeps
<1>4. ASSUME TearEntry PROVE ReaderInv'
  BY <1>4, TearEntryKeeps
<1>5. \/ UNCHANGED readerVars
      \/ \E kind \in Kinds : AppendEntry(kind)
      \/ \E target \in {0} \cup {i \in 1..Len(tree) : tree[i].kind \in Kinds} : JumpTo(target)
      \/ TearEntry
  BY DEF ReaderNext, LinesOf
<1>6. QED
  BY <1>1, <1>2, <1>3, <1>4, <1>5

\* It implies what the runs check.
LEMMA ReaderInvariantSuffices == ReaderInv => ReaderTypeOK /\ TurnsOfTheBranch
<1> SUFFICES ASSUME ReaderInv PROVE ReaderTypeOK /\ TurnsOfTheBranch
  OBVIOUS
<1>1. IsTree(tree) /\ tip \in 0..Len(tree) /\ (torn = 0 => IsWhole(tree))
  BY DEF ReaderInv
<1>2. ReaderTypeOK
  BY <1>1, TreeFacts DEF ReaderTypeOK
<1>3. TurnsOfTheBranch
  BY <1>1, TurnsAreOfTheBranch
<1>4. QED
  BY <1>2, <1>3

\* A sequence is a prefix of itself, with or without one more.
LEMMA PrefixOfOneMore ==
    ASSUME NEW s \in Seq(Nat), NEW x \in Nat
    PROVE  IsPrefix(s, s) /\ IsPrefix(s, Append(s, x))
<1> DEFINE t == Append(s, x)
           n == Len(s)
<1>1. /\ t \in Seq(Nat) /\ Len(t) = n + 1 /\ n \in Nat
      /\ \A i \in 1..n : t[i] = s[i]
  BY AppendProperties, LenProperties
<1>2. SubSeq(s, 1, n) = s
  BY SubSeqFull
<1> HIDE DEF t
<1>3. SubSeq(t, 1, n) = s
  <2>1. \A i \in 1..n : t[i] \in Nat
    BY <1>1, ElementOfSeq
  <2>2. /\ SubSeq(t, 1, n) \in Seq(Nat)
        /\ Len(SubSeq(t, 1, n)) = IF 1 <= n THEN n - 1 + 1 ELSE 0
        /\ \A i \in 1..(n - 1 + 1) : SubSeq(t, 1, n)[i] = t[1 + i - 1]
    BY <1>1, <2>1, SubSeqProperties
  <2>3. Len(SubSeq(t, 1, n)) = n
    BY <1>1, <2>2
  <2>4. \A i \in 1..n : SubSeq(t, 1, n)[i] = t[i]
    BY <1>1, <2>2
  <2> DEFINE u == SubSeq(t, 1, n)
  <2>5. u \in Seq(Nat) /\ Len(u) = Len(s) /\ \A i \in 1..Len(u) : u[i] = s[i]
    BY <1>1, <2>2, <2>3, <2>4
  <2> HIDE DEF u
  <2>6. u = s
    BY <2>5, SeqEqual
  <2>7. QED
    BY <2>6 DEF u
<1>4. IsPrefix(s, t)
  BY <1>1, <1>2, <1>3 DEF IsPrefix
<1>5. IsPrefix(s, s)
  BY <1>1 DEF IsPrefix
<1>6. QED
  BY <1>4, <1>5 DEF t

\* A file that is not torn, with an entry more.
LEMMA TurnsStay ==
    ASSUME ReaderInv, NEW kind \in Kinds, AppendEntry(kind), torn = 0
    PROVE  IsPrefix(TurnsOf(tree), TurnsOf(tree'))
<1> DEFINE e == [kind |-> kind, parent |-> tip]
           h == tree'
           n == Len(tree)
           a == Anchor(tree)
           b == Branches(tree)[a]
           s == TurnsAlong(tree, b)[Len(b)]
           c == Branches(h)[Anchor(h)]
           t == TurnsAlong(h, c)[Len(c)]
<1>1. /\ IsTree(tree) /\ IsWhole(tree) /\ tip \in 0..n
      /\ (\A i \in 1..n : tree[i].kind # "leaf") => tip = n
  BY DEF ReaderInv
<1>2. n \in Nat /\ Readable(tree) \subseteq 1..n
  BY <1>1, TreeFacts
<1>3. /\ e \in TreeLines /\ e.kind = kind /\ e.parent = tip
      /\ e.kind \notin {"leaf", "torn"} /\ h = Append(tree, e)
  BY <1>1, <1>2 DEF TreeLines, Kinds, AppendEntry
<1>4. e.parent <= n /\ (e.kind = "leaf" => e.target <= n)
  BY <1>1, <1>2, <1>3
<1> HIDE DEF e
<1>5. /\ IsTree(h) /\ Len(h) = n + 1 /\ h[n + 1] = e /\ \A i \in 1..n : h[i] = tree[i]
      /\ Readable(h) = Readable(tree) \cup {n + 1} /\ Leaves(h) = Leaves(tree)
  <2>1. /\ IsTree(h) /\ Len(h) = n + 1 /\ h[n + 1] = e /\ \A i \in 1..n : h[i] = tree[i]
        /\ Readable(h) = Readable(tree) \cup {i \in {n + 1} : e.kind \notin {"torn", "leaf"}}
        /\ Leaves(h) = Leaves(tree) \cup {i \in {n + 1} : e.kind = "leaf"}
    BY <1>1, <1>3, <1>4, TreeGrows
  <2> HIDE DEF n
  <2>2. QED
    BY <1>3, <2>1
<1>6. \A i \in 0..n : Branches(h)[i] = Branches(tree)[i]
  BY <1>1, <1>3, <1>4, BranchesStay
<1>7. a \in 0..n
  BY <1>1, AnchorIsThere
<1>8. b \in Seq(Nat) /\ Len(b) \in Nat /\ ToSet(b) \subseteq 1..n
  <2>1. b \in Seq(Nat) /\ ToSet(b) \subseteq Readable(tree)
    BY <1>1, <1>7, BranchesFollowTheParents, BranchesRise
  <2>2. QED
    BY <1>2, <2>1, LenProperties
<1>9. TurnsOf(tree) = s /\ TurnsOf(h) = t
  BY DEF TurnsOf, ActiveBranch
<1>10. s \in Seq(Nat)
  <2> HIDE DEF b
  <2>1. Len(b) \in 0..Len(b)
    BY <1>8
  <2>2. QED
    BY <1>8, <2>1, TurnsFollowTheBranch
<1>11. \A k \in 1..Len(b) : tree[b[k]].kind = h[b[k]].kind
  <2>1. ASSUME NEW k \in 1..Len(b) PROVE b[k] \in 1..n
    <3>1. DOMAIN b = 1..Len(b)
      BY <1>8, LenProperties
    <3>2. QED
      BY <1>8, <3>1 DEF ToSet
  <2>2. QED
    BY <1>5, <2>1
<1>12. CASE Leaves(tree) # {}
  <2>1. LastOf(Leaves(tree)) \in Leaves(tree)
    <3>1. /\ LastOf(Leaves(tree)) \in Leaves(tree) \cup {0}
          /\ \A j \in Leaves(tree) : j <= LastOf(Leaves(tree))
      BY <1>1, AnchorIsThere
    <3>2. PICK j \in Leaves(tree) : TRUE
      BY <1>12
    <3>3. j \in 1..n
      BY DEF Leaves
    <3>4. LastOf(Leaves(tree)) # 0
      BY <3>1, <3>2, <3>3
    <3>5. QED
      BY <3>1, <3>4
  <2>2. LastOf(Leaves(tree)) \in 1..n
    BY <2>1 DEF Leaves
  <2>3. /\ a = tree[LastOf(Leaves(tree))].target
        /\ Anchor(h) = h[LastOf(Leaves(h))].target
    BY <1>1, <1>5, <1>12, AnchorIsThere
  <2>4. Anchor(h) = a
    BY <1>5, <2>2, <2>3
  <2>5. c = b
    BY <1>6, <1>7, <2>4
  <2> HIDE DEF b, c
  <2>6. TurnsAlong(tree, b)[Len(b)] = TurnsAlong(h, b)[Len(b)]
    BY <1>8, <1>11, TurnsAgree
  <2>7. t = s
    BY <2>5, <2>6
  <2> HIDE DEF s, t
  <2>8. QED
    BY <1>9, <1>10, <2>7, PrefixOfOneMore
<1>13. CASE Leaves(tree) = {}
  <2>1. \A i \in 1..n : tree[i].kind # "leaf"
    BY <1>13 DEF Leaves
  <2>2. tip = n /\ Readable(tree) = 1..n
    <3>1. \A i \in 1..n : tree[i].kind \notin {"torn", "leaf"}
      BY <1>1, <2>1 DEF IsWhole
    <3>2. QED
      BY <1>1, <2>1, <3>1, TreeFacts
  <2>3. a = n
    <3>1. a = LastOf(1..n)
      BY <1>1, <1>13, <2>2, AnchorIsThere
    <3>2. LastOf(1..n) \in (1..n) \cup {0} /\ \A j \in 1..n : j <= LastOf(1..n)
      BY <1>2, LastOfIsLast
    <3>3. CASE n = 0
      BY <1>7, <3>3
    <3>4. CASE n # 0
      <4>1. n \in 1..n
        BY <1>2, <3>4
      <4>2. QED
        BY <1>2, <3>1, <3>2, <4>1
    <3>5. QED
      BY <3>3, <3>4
  <2>4. Anchor(h) = n + 1
    <3>1. Readable(h) = 1..(n + 1)
      BY <1>2, <1>5, <2>2
    <3>2. Anchor(h) = LastOf(1..(n + 1))
      BY <1>5, <1>13, <3>1, AnchorIsThere
    <3>3. /\ LastOf(1..(n + 1)) \in (1..(n + 1)) \cup {0}
          /\ \A j \in 1..(n + 1) : j <= LastOf(1..(n + 1))
      <4>1. n + 1 \in Nat /\ 1..(n + 1) \in SUBSET (1..(n + 1))
        BY <1>2
      <4>2. QED
        BY <4>1, LastOfIsLast
    <3>4. n + 1 \in 1..(n + 1)
      BY <1>2
    <3>5. QED
      BY <1>2, <3>2, <3>3, <3>4
  <2>5. c = Append(b, n + 1)
    <3>1. n + 1 \in 0..Len(h) /\ n + 1 \in Readable(h) /\ h[n + 1].parent = n
      BY <1>2, <1>3, <1>5, <2>2
    <3>2. Branches(h)[n + 1] = Append(Branches(h)[h[n + 1].parent], n + 1)
      BY <1>5, <3>1, BranchesFollowTheParents
    <3>3. Branches(h)[n] = b
      BY <1>2, <1>6, <2>3
    <3>4. QED
      BY <2>4, <3>1, <3>2, <3>3
  <2>6. /\ c \in Seq(Nat) /\ Len(c) = Len(b) + 1
        /\ \A k \in 1..Len(b) : c[k] = b[k]
        /\ c[Len(b) + 1] = n + 1
    <3>1. n + 1 \in Nat
      BY <1>2
    <3> HIDE DEF b, c
    <3>2. QED
      BY <1>8, <2>5, <3>1, AppendProperties
  <2> HIDE DEF b, c
  <2>7. Len(b) <= Len(c) /\ Len(c) \in 1..Len(c) /\ Len(c) - 1 = Len(b)
    BY <1>8, <2>6
  <2>8. TurnsAlong(h, c)[Len(b)] = s
    <3>1. \A k \in 1..Len(b) : b[k] = c[k] /\ tree[b[k]].kind = h[b[k]].kind
      BY <1>11, <2>6
    <3>2. b \in Seq(Nat) /\ c \in Seq(Nat) /\ Len(b) <= Len(c)
      BY <1>8, <2>6, <2>7
    <3> HIDE DEF h, t, s
    <3>3. TurnsAlong(tree, b)[Len(b)] = TurnsAlong(h, c)[Len(b)]
      BY <3>1, <3>2, TurnsAgree
    <3>4. QED
      BY <3>3 DEF s
  <2>9. t = IF h[c[Len(c)]].kind \in WithText THEN Append(s, c[Len(c)]) ELSE s
    BY <2>6, <2>7, <2>8, TurnsFollowTheBranch
  <2>10. c[Len(c)] \in Nat
    BY <1>2, <2>6
  <2> HIDE DEF s, t
  <2>11. QED
    BY <1>9, <1>10, <2>9, <2>10, PrefixOfOneMore
<1>14. QED
  BY <1>12, <1>13

\* A step of the reader's file, for the action property.
LEMMA ReaderStepIsSound ==
    ASSUME ReaderInv, [ReaderNext]_readerVars, jumps' = jumps, torn' = 0
    PROVE  IsPrefix(TurnsOf(tree), TurnsOf(tree'))
<1>1. torn \in Nat /\ jumps \in Nat /\ IsTree(tree)
  BY DEF ReaderInv
<1>2. CASE UNCHANGED readerVars
  <2>1. tree' = tree
    BY <1>2 DEF readerVars
  <2>2. TurnsOf(tree) \in Seq(Nat)
    <3> DEFINE b == Branches(tree)[Anchor(tree)]
    <3>1. b \in Seq(Nat)
      BY <1>1, AnchorIsThere, BranchesFollowTheParents
    <3>2. TurnsOf(tree) = TurnsAlong(tree, b)[Len(b)]
      BY DEF TurnsOf, ActiveBranch
    <3> HIDE DEF b
    <3>3. Len(b) \in 0..Len(b)
      <4>1. Len(b) \in Nat
        BY <3>1, LenProperties
      <4>2. QED
        BY <4>1
    <3>4. QED
      BY <3>1, <3>2, <3>3, TurnsFollowTheBranch
  <2>3. IsPrefix(TurnsOf(tree), TurnsOf(tree))
    BY <2>2, PrefixOfOneMore, 0 \in Nat
  <2>4. QED
    BY <2>1, <2>3
<1>3. ASSUME NEW kind \in Kinds, AppendEntry(kind)
      PROVE  IsPrefix(TurnsOf(tree), TurnsOf(tree'))
  <2>1. torn = 0
    BY <1>3 DEF AppendEntry
  <2>2. QED
    BY <1>3, <2>1, TurnsStay
<1>4. ASSUME NEW target \in {0} \cup {i \in 1..Len(tree) : tree[i].kind \in Kinds},
             JumpTo(target)
      PROVE  FALSE
  <2>1. jumps' = jumps + 1
    BY <1>4 DEF JumpTo
  <2>2. QED
    BY <1>1, <2>1
<1>5. ASSUME TearEntry PROVE FALSE
  <2>1. torn' = torn + 1
    BY <1>5 DEF TearEntry
  <2>2. QED
    BY <1>1, <2>1
<1>6. \/ UNCHANGED readerVars
      \/ \E kind \in Kinds : AppendEntry(kind)
      \/ \E target \in {0} \cup {i \in 1..Len(tree) : tree[i].kind \in Kinds} : JumpTo(target)
      \/ TearEntry
  BY DEF ReaderNext, LinesOf
<1>7. QED
  BY <1>2, <1>3, <1>4, <1>5, <1>6

-----------------------------------------------------------------------------
(* The store of the LTM package.                                           *)

FactStates ==
    [state : {"none", "active", "redacted"}, hidden : BOOLEAN, mentions : Nat,
     seen : Turns \cup {0}, sources : SUBSET Turns]
JobStates ==
    [stage : {"extract", "phrase", "embed"}, chat : Talkers, known : FactStates,
     seen : SUBSET Turns, left : SUBSET Turns, done : SUBSET Turns]

LtmTyped ==
    /\ spoken \in SUBSET Turns /\ entries \in SUBSET spoken
    /\ episode \in [Turns -> {"none", "active", "consolidated", "redacted"}]
    /\ summaries \in SUBSET (SUBSET Turns) /\ folds \in SUBSET (SUBSET Turns)
    /\ fact \in [Facts -> FactStates] /\ job \in [Workers -> JobStates \cup {NoJob}]
    /\ forgotten \in SUBSET Turns

\* Each ingest is about turns of its chat that were spoken.
JobsHold ==
    \A w \in Workers : job[w] # NoJob =>
        /\ job[w].left # {} /\ job[w].left \cap job[w].done = {}
        /\ job[w].seen \cup job[w].left \cup job[w].done \subseteq Of(job[w].chat, spoken)
        /\ job[w].stage = "phrase" => Says[Min(job[w].left)] \in Facts

\* What is, or is about to be, written of a fact: the record, and what ingests
\* that await an embedding have read of it.
Drafts(facts, jobs, f) ==
    {facts[f]} \cup {jobs[w].known : w \in {v \in Workers :
                        jobs[v].stage = "phrase" /\ Says[Min(jobs[v].left)] = f}}

\* A fact that is gone, or never was, has no evidence.
DraftsHold ==
    \A f \in Facts : \A x \in Drafts(fact, job, f) :
        x.state # "active" => x.sources = {} /\ x.mentions = 0

\* The turns whose fact an ingest has written.
Learned(one) == {t \in Turns : one # NoJob /\ \/ t \in one.done
                                              \/ one.stage = "embed" /\ t = Min(one.left)}
Taken(noted, jobs) == noted \cup UNION {Learned(jobs[w]) : w \in Workers}

\* One ingest at a time has a chat, and is about turns that are not noted.
JobsApart ==
    \A w \in Workers : job[w] # NoJob =>
        /\ job[w].seen = Of(job[w].chat, entries)
        /\ (job[w].left \cup job[w].done) \cap entries = {}
        /\ \A v \in Workers \ {w} : job[v] # NoJob => job[v].chat # job[w].chat

\* An episode is of a turn that is noted, and what was forgotten is in none.
EpisodesHold ==
    /\ \A t \in Turns : episode[t] # "none" => t \in entries
    /\ \A t \in forgotten : episode[t] = "redacted"
    /\ \A g \in folds : g \subseteq entries \ forgotten
    /\ \A s \in summaries : s \cap forgotten = {}

\* No fact rests on what was forgotten, or will.
DraftsForget ==
    \A f \in Facts : \A x \in Drafts(fact, job, f) : x.sources \cap forgotten = {}

\* Each turn that was taken in is evidence of one fact, and counts once.
CountedOnce ==
    \A f \in Facts : \A x \in Drafts(fact, job, f) :
        /\ x.mentions = Cardinality(x.sources)
        /\ x.sources \subseteq Taken(entries, job)
        /\ \A g \in Facts \ {f} : \A y \in Drafts(fact, job, g) : x.sources \cap y.sources = {}

\* A slot shows one value, and one that has a value shows it.
SlotsHold ==
    \A slot \in Slots :
        /\ bypassed \/ \A f, g \in slot \cap Shown(fact) : f = g
        /\ (\E f \in slot : fact[f].state = "active")
              /\ (\A f \in slot : fact[f].state # "redacted")
              => slot \cap Shown(fact) # {}

LtmInv ==
    /\ LtmTyped /\ JobsHold /\ DraftsHold
    /\ ~overlapped => JobsApart /\ EpisodesHold /\ DraftsForget
    /\ ~overlapped /\ ~cut => CountedOnce
    /\ SlotsHold /\ NothingLost

\* The later of two times is one of them.
LEMMA MaxOfTwo ==
    ASSUME NEW a \in Nat, NEW b \in Nat
    PROVE  Max({a, b}) \in {a, b} /\ a =< Max({a, b}) /\ b =< Max({a, b})
<1>1. \E x \in {a, b} : \A y \in {a, b} : x >= y
  <2>1. CASE a >= b
    BY <2>1
  <2>2. CASE ~(a >= b)
    BY <2>2
  <2>3. QED
    BY <2>1, <2>2
<1>2. QED
  BY <1>1 DEF Max

\* Turns are finitely many.
LEMMA TurnsAreFinite ==
    ASSUME NEW S \in SUBSET Turns
    PROVE  IsFiniteSet(S) /\ Cardinality(S) \in Nat
<1>1. IsFiniteSet(Turns)
  BY LtmAssumption, FS_Interval DEF Turns
<1>2. QED
  BY <1>1, FS_Subset, FS_CardinalityType

\* The turn that an ingest is about.
LEMMA TurnIs ==
    ASSUME LtmTyped, JobsHold, NEW w \in Workers, job[w] # NoJob
    PROVE  /\ job[w] \in JobStates
           /\ Turn(w) \in job[w].left /\ Turn(w) \in Turns /\ Turn(w) = Min(job[w].left)
           /\ ChatOf[Turn(w)] = job[w].chat /\ Turn(w) \notin job[w].done
<1> DEFINE left == job[w].left
<1>1. /\ job[w] \in JobStates /\ left # {} /\ left \in SUBSET Turns
      /\ left \subseteq Of(job[w].chat, spoken) /\ left \cap job[w].done = {}
  BY DEF LtmTyped, JobsHold, JobStates
<1>2. left \in SUBSET Nat
  BY <1>1, LtmAssumption DEF Turns
<1>3. Turn(w) = Min(left)
  BY DEF Turn
<1> HIDE DEF left
<1>4. Turn(w) \in left
  BY <1>1, <1>2, <1>3, MinProperties
<1>5. QED
  BY <1>1, <1>3, <1>4 DEF left, Of

\* Who is at work is no idle worker.
LEMMA AtWork ==
    ASSUME NEW w \in Workers, job[w].stage # "idle"
    PROVE  job[w] # NoJob
  BY DEF NoJob

\* A fact is written, and what it contradicts gives way.
LEMMA AssertedIs ==
    ASSUME fact \in [Facts -> FactStates], NEW f \in Facts, NEW known \in FactStates,
           NEW t \in Turns, known.state # "active" => known.sources = {} /\ known.mentions = 0,
           fact' = Asserted(fact, f, known, t)
    PROVE  /\ fact' \in [Facts -> FactStates]
           /\ fact'[f].state = "active" /\ ~fact'[f].hidden /\ fact'[f].seen = t
           /\ fact'[f].mentions = known.mentions + 1
           /\ fact'[f].sources = known.sources \cup {t}
           /\ \A g \in Facts \ {f} :
                 /\ fact'[g].state = fact[g].state /\ fact'[g].seen = fact[g].seen
                 /\ fact'[g].mentions = fact[g].mentions /\ fact'[g].sources = fact[g].sources
                 /\ fact[g].hidden => fact'[g].hidden
                 /\ IF g \in Rivals(f) /\ fact[g].seen =< t THEN g \notin Shown(fact')
                                                            ELSE fact'[g] = fact[g]
<1> DEFINE stated == IF known.state = "active"
                     THEN Fact("active", FALSE, known.mentions + 1, t, known.sources \cup {t})
                     ELSE Fact("active", FALSE, 1, t, {t})
           facts == [fact EXCEPT ![f] = stated]
<1>1. fact' = Superseded(facts, f, t)
  BY DEF Asserted
<1>2. /\ stated \in FactStates /\ stated.state = "active" /\ ~stated.hidden
      /\ stated.seen = t
      /\ stated.mentions = known.mentions + 1 /\ stated.sources = known.sources \cup {t}
  <2>1. known.mentions \in Nat /\ known.sources \in SUBSET Turns
    BY DEF FactStates
  <2>2. CASE known.state = "active"
    <3>1. stated = Fact("active", FALSE, known.mentions + 1, t, known.sources \cup {t})
      BY <2>2
    <3>2. known.mentions + 1 \in Nat /\ known.sources \cup {t} \in SUBSET Turns
      BY <2>1
    <3>3. QED
      BY <3>1, <3>2 DEF Fact, FactStates
  <2>3. CASE known.state # "active"
    <3>1. stated = Fact("active", FALSE, 1, t, {t})
      BY <2>3
    <3>2. {t} \in SUBSET Turns /\ known.sources \cup {t} = {t} /\ known.mentions + 1 = 1
      BY <2>3
    <3>3. QED
      BY <3>1, <3>2 DEF Fact, FactStates
  <2>4. QED
    BY <2>2, <2>3
<1>3. /\ facts \in [Facts -> FactStates] /\ facts[f] = stated
      /\ \A g \in Facts \ {f} : facts[g] = fact[g]
  BY <1>2
<1> HIDE DEF stated, facts
<1>4. fact' = [g \in Facts |-> IF g \in Rivals(f) \cap Shown(facts) /\ facts[g].seen =< t
                              THEN [facts[g] EXCEPT !.hidden = TRUE] ELSE facts[g]]
  BY <1>1 DEF Superseded
<1>5. f \notin Rivals(f)
  BY DEF Rivals
<1>6. fact'[f] = stated
  BY <1>3, <1>4, <1>5
<1>7. ASSUME NEW g \in Facts \ {f}
      PROVE  /\ fact'[g] \in FactStates
             /\ fact'[g].state = fact[g].state /\ fact'[g].seen = fact[g].seen
             /\ fact'[g].mentions = fact[g].mentions /\ fact'[g].sources = fact[g].sources
             /\ fact[g].hidden => fact'[g].hidden
             /\ IF g \in Rivals(f) /\ fact[g].seen =< t
                THEN fact'[g].state = "active" => fact'[g].hidden
                ELSE fact'[g] = fact[g]
  <2>1. facts[g] = fact[g] /\ fact[g] \in FactStates
    BY <1>3
  <2>2. CASE g \in Rivals(f) \cap Shown(facts) /\ facts[g].seen =< t
    <3>1. fact'[g] = [fact[g] EXCEPT !.hidden = TRUE]
      BY <1>4, <2>1, <2>2
    <3>2. QED
      BY <2>1, <2>2, <3>1 DEF FactStates
  <2>3. CASE ~(g \in Rivals(f) \cap Shown(facts) /\ facts[g].seen =< t)
    <3>1. fact'[g] = fact[g]
      BY <1>4, <2>1, <2>3
    <3>2. QED
      BY <2>1, <2>3, <3>1 DEF Shown
  <2>4. QED
    BY <2>2, <2>3
<1>8. fact' \in [Facts -> FactStates]
  <2>1. \A g \in Facts : fact'[g] \in FactStates
    BY <1>2, <1>6, <1>7
  <2>2. QED
    BY <1>4, <2>1
<1>9. QED
  BY <1>2, <1>6, <1>7, <1>8 DEF Shown

\* The slots after a statement.
LEMMA SlotsAfterAssertion ==
    ASSUME SlotsHold, fact \in [Facts -> FactStates], NEW f \in Facts, NEW known \in FactStates,
           NEW t \in Turns, known.state # "active" => known.sources = {} /\ known.mentions = 0,
           AssertFact(f, known, t)
    PROVE  SlotsHold'
<1>1. /\ fact' = Asserted(fact, f, known, t)
      /\ bypassed' = (bypassed \/ \E r \in Rivals(f) : r \in Shown(fact') /\ fact'[r].seen > t)
  BY DEF AssertFact
<1>2. /\ fact' \in [Facts -> FactStates]
      /\ fact'[f].state = "active" /\ ~fact'[f].hidden
      /\ \A g \in Facts \ {f} :
            /\ fact'[g].state = fact[g].state /\ fact'[g].seen = fact[g].seen
            /\ fact[g].hidden => fact'[g].hidden
            /\ IF g \in Rivals(f) /\ fact[g].seen =< t THEN g \notin Shown(fact')
                                                       ELSE fact'[g] = fact[g]
  BY <1>1, AssertedIs
<1>3. f \in Shown(fact') /\ \A g \in Facts \ {f} : g \in Shown(fact') => g \in Shown(fact)
  BY <1>2 DEF Shown
<1>4. SUFFICES ASSUME NEW slot \in Slots
               PROVE  /\ bypassed' \/ \A g, h \in slot \cap Shown(fact') : g = h
                      /\ (\E g \in slot : fact'[g].state = "active")
                            /\ (\A g \in slot : fact'[g].state # "redacted")
                            => slot \cap Shown(fact') # {}
  BY DEF SlotsHold
<1>5. slot \subseteq Facts
  BY LtmAssumption
<1>6. CASE f \in slot
  <2>1. \A g \in slot \ {f} : g \in Rivals(f)
    BY <1>6 DEF Rivals
  <2>2. ASSUME ~bypassed', NEW g \in (slot \ {f}) \cap Shown(fact')
        PROVE  FALSE
    <3>1. g \in Rivals(f) /\ g \in Facts \ {f} /\ ~(fact'[g].seen > t)
      BY <1>1, <1>5, <2>1, <2>2
    <3>2. fact[g].seen \in Nat /\ t \in Nat /\ fact'[g].seen = fact[g].seen
      BY <1>2, <3>1, LtmAssumption DEF FactStates, Turns
    <3>3. fact[g].seen =< t
      BY <3>1, <3>2
    <3>4. QED
      BY <1>2, <2>2, <3>1, <3>3
  <2>3. QED
    BY <1>3, <1>6, <2>2
<1>7. CASE f \notin slot
  <2>1. slot \cap Rivals(f) = {}
    <3>1. SUFFICES ASSUME NEW g \in slot \cap Rivals(f) PROVE FALSE
      OBVIOUS
    <3>2. PICK s \in Slots : f \in s /\ g \in s
      BY DEF Rivals
    <3>3. QED
      BY <1>7, <3>2, LtmAssumption
  <2>2. \A g \in slot : fact'[g] = fact[g]
    BY <1>2, <1>5, <1>7, <2>1
  <2>3. slot \cap Shown(fact') = slot \cap Shown(fact)
    BY <1>5, <2>2 DEF Shown
  <2>4. bypassed => bypassed'
    BY <1>1
  <2>5. QED
    BY <2>2, <2>3, <2>4 DEF SlotsHold
<1>8. QED
  BY <1>6, <1>7

\* A step that writes no fact.
LEMMA StepOfOtherThanFacts ==
    ASSUME LtmInv, fact' = fact, bypassed' = bypassed, forgotten' = forgotten,
           LtmTyped', JobsHold', NothingLost',
           \A f \in Facts : Drafts(fact, job', f) \subseteq Drafts(fact, job, f),
           ~overlapped' => ~overlapped /\ JobsApart' /\ EpisodesHold',
           ~overlapped' /\ ~cut' => ~cut /\ Taken(entries, job) \subseteq Taken(entries', job')
    PROVE  LtmInv'
<1> USE DEF LtmInv
<1>1. DraftsHold'
  BY DEF DraftsHold
<1>2. SlotsHold'
  BY DEF SlotsHold, Shown
<1>3. ~overlapped' => DraftsForget'
  BY DEF DraftsForget
<1>4. ~overlapped' /\ ~cut' => CountedOnce'
  BY DEF CountedOnce
<1>5. QED
  BY <1>1, <1>2, <1>3, <1>4

\* What ingests have read, when none has read more.
LEMMA DraftsFrom ==
    ASSUME NEW facts, NEW old, NEW new, NEW w \in Workers, new[w].stage # "phrase",
           \A v \in Workers \ {w} : new[v] = old[v]
    PROVE  \A f \in Facts : Drafts(facts, new, f) \subseteq Drafts(facts, old, f)
  BY DEF Drafts

\* What ingests have learned, when one has learned more.
LEMMA TakenFrom ==
    ASSUME NEW noted, NEW more, NEW old, NEW new, NEW w \in Workers,
           noted \subseteq more, Learned(old[w]) \subseteq more \cup Learned(new[w]),
           \A v \in Workers \ {w} : new[v] = old[v]
    PROVE  Taken(noted, old) \subseteq Taken(more, new)
<1>1. SUFFICES ASSUME NEW t \in Taken(noted, old) PROVE t \in Taken(more, new)
  OBVIOUS
<1>2. CASE t \in noted
  BY <1>2 DEF Taken
<1>3. ASSUME NEW v \in Workers, t \in Learned(old[v])
      PROVE  t \in Taken(more, new)
  BY <1>3 DEF Taken
<1>4. QED
  BY <1>1, <1>2, <1>3 DEF Taken

\* A turn is spoken.
LEMMA SpeakKeeps ==
    ASSUME LtmInv, Speak
    PROVE  LtmInv'
<1> USE DEF LtmInv
<1>1. /\ spoken \subseteq spoken' /\ spoken' \in SUBSET Turns
      /\ UNCHANGED <<entries, episode, summaries, fact, job, folds, forgotten, overlapped, cut,
                     bypassed, stranded>>
  BY DEF Speak, ltmHistory, learning, LtmTyped
<1>2. LtmTyped'
  BY <1>1 DEF LtmTyped
<1>3. JobsHold'
  BY <1>1 DEF JobsHold, Of
<1>4. JobsApart' = JobsApart /\ EpisodesHold' = EpisodesHold /\ NothingLost' = NothingLost
  BY <1>1 DEF JobsApart, EpisodesHold, NothingLost
<1>5. QED
  BY <1>1, <1>2, <1>3, <1>4, StepOfOtherThanFacts

\* An ingest starts.
LEMMA StartIngestKeeps ==
    ASSUME LtmInv, NEW w \in Workers, NEW chat \in Talkers, StartIngest(w, chat)
    PROVE  LtmInv'
<1> USE DEF LtmInv
<1> DEFINE one == [stage |-> "extract", chat |-> chat, known |-> Unknown,
                   seen |-> Of(chat, entries), left |-> Of(chat, spoken \ entries), done |-> {}]
<1>1. /\ job[w] = NoJob /\ Of(chat, spoken \ entries) # {}
      /\ job' = [job EXCEPT ![w] = one]
      /\ overlapped' = (overlapped \/ \E v \in Workers \ {w} : job[v] # NoJob /\ job[v].chat = chat)
      /\ UNCHANGED <<spoken, entries, episode, summaries, fact, folds, forgotten, cut, bypassed,
                     stranded>>
  BY DEF StartIngest, learning
<1>2. /\ one \in JobStates /\ one.stage = "extract" /\ one.chat = chat /\ one.done = {}
      /\ one.seen = Of(chat, entries) /\ one.left = Of(chat, spoken \ entries)
  <2>1. Unknown \in FactStates
    BY DEF Unknown, Fact, FactStates
  <2>2. Of(chat, entries) \in SUBSET Turns /\ Of(chat, spoken \ entries) \in SUBSET Turns
    BY DEF Of, LtmTyped
  <2>3. QED
    BY <2>1, <2>2 DEF JobStates
<1>3. one # NoJob
  BY <1>2 DEF NoJob
<1> HIDE DEF one
<1>4. job \in [Workers -> JobStates \cup {NoJob}]
  BY DEF LtmTyped
<1>5. job'[w] = one /\ \A v \in Workers \ {w} : job'[v] = job[v]
  BY <1>1, <1>4
<1>6. LtmTyped'
  BY <1>1, <1>2, <1>4 DEF LtmTyped
<1>7. JobsHold'
  <2>1. ASSUME NEW v \in Workers, job'[v] # NoJob
        PROVE  /\ job'[v].left # {} /\ job'[v].left \cap job'[v].done = {}
               /\ job'[v].seen \cup job'[v].left \cup job'[v].done
                      \subseteq Of(job'[v].chat, spoken)
               /\ job'[v].stage = "phrase" => Says[Min(job'[v].left)] \in Facts
    <3>1. CASE v = w
      BY <1>1, <1>2, <1>5, <3>1 DEF Of, LtmTyped
    <3>2. CASE v # w
      BY <1>5, <2>1, <3>2 DEF JobsHold
    <3>3. QED
      BY <3>1, <3>2
  <2>2. QED
    BY <1>1, <2>1 DEF JobsHold
<1>8. ASSUME ~overlapped'
      PROVE  ~overlapped /\ JobsApart' /\ EpisodesHold'
  <2>1. ~overlapped /\ \A v \in Workers \ {w} : job[v] # NoJob => job[v].chat # chat
    BY <1>1, <1>8
  <2>2. JobsApart'
    BY <1>1, <1>2, <1>5, <2>1 DEF JobsApart, Of
  <2>3. EpisodesHold'
    BY <1>1, <2>1 DEF EpisodesHold
  <2>4. QED
    BY <2>1, <2>2, <2>3
<1>9. Taken(entries, job) \subseteq Taken(entries', job')
  BY <1>1, <1>5, TakenFrom DEF Learned
<1>10. \A f \in Facts : Drafts(fact, job', f) \subseteq Drafts(fact, job, f)
  BY <1>2, <1>5, DraftsFrom
<1>11. NothingLost'
  BY <1>1 DEF NothingLost
<1>12. QED
  BY <1>1, <1>6, <1>7, <1>8, <1>9, <1>10, <1>11, StepOfOtherThanFacts

\* An ingest goes on with its turns, as they were.
LEMMA JobGoesOn ==
    ASSUME LtmInv, NEW w \in Workers, NEW one \in JobStates,
           job[w] # NoJob, job' = [job EXCEPT ![w] = one],
           one.chat = job[w].chat, one.seen = job[w].seen, one.left # {},
           one.left \cap one.done = {}, one.left \cup one.done = job[w].left \cup job[w].done,
           one.stage = "phrase" => Says[Min(one.left)] \in Facts,
           UNCHANGED <<spoken, entries, episode, summaries, folds, forgotten, overlapped, cut,
                       stranded>>, fact' \in [Facts -> FactStates]
    PROVE  /\ LtmTyped' /\ JobsHold' /\ NothingLost'
           /\ job'[w] = one /\ \A v \in Workers \ {w} : job'[v] = job[v]
           /\ ~overlapped' => ~overlapped /\ JobsApart' /\ EpisodesHold'
<1> USE DEF LtmInv
<1>1. job \in [Workers -> JobStates \cup {NoJob}]
  BY DEF LtmTyped
<1>2. job'[w] = one /\ \A v \in Workers \ {w} : job'[v] = job[v]
  BY <1>1
<1>3. LtmTyped'
  BY <1>1 DEF LtmTyped
<1>4. JobsHold'
  <2>1. ASSUME NEW v \in Workers, job'[v] # NoJob
        PROVE  /\ job'[v].left # {} /\ job'[v].left \cap job'[v].done = {}
               /\ job'[v].seen \cup job'[v].left \cup job'[v].done
                      \subseteq Of(job'[v].chat, spoken)
               /\ job'[v].stage = "phrase" => Says[Min(job'[v].left)] \in Facts
    <3>1. CASE v = w
      <4>1. job[w].seen \cup job[w].left \cup job[w].done \subseteq Of(job[w].chat, spoken)
        BY DEF JobsHold
      <4>2. QED
        BY <1>2, <3>1, <4>1
    <3>2. CASE v # w
      BY <1>2, <2>1, <3>2 DEF JobsHold
    <3>3. QED
      BY <3>1, <3>2
  <2>2. QED
    BY <2>1 DEF JobsHold
<1>5. ASSUME ~overlapped'
      PROVE  ~overlapped /\ JobsApart' /\ EpisodesHold'
  <2>1. JobsApart'
    BY <1>2, <1>5 DEF JobsApart
  <2>2. EpisodesHold'
    BY <1>5 DEF EpisodesHold
  <2>3. QED
    BY <1>5, <2>1, <2>2
<1>6. NothingLost'
  BY DEF NothingLost
<1>7. QED
  BY <1>2, <1>3, <1>4, <1>5, <1>6

\* The extractor has answered, and nothing is written yet.
LEMMA JobAdvances ==
    ASSUME LtmInv, NEW w \in Workers, NEW one \in JobStates,
           job[w] # NoJob, job' = [job EXCEPT ![w] = one],
           one.chat = job[w].chat, one.seen = job[w].seen, one.left # {},
           one.left \cap one.done = {}, one.left \cup one.done = job[w].left \cup job[w].done,
           one.stage = "phrase" => /\ Says[Min(one.left)] \in Facts
                                   /\ one.known = fact[Says[Min(one.left)]],
           Learned(job[w]) \subseteq Learned(one),
           UNCHANGED <<spoken, entries, episode, summaries, folds, forgotten, overlapped, cut,
                       stranded, fact, bypassed>>
    PROVE  LtmInv'
<1> USE DEF LtmInv
<1>1. fact \in [Facts -> FactStates]
  BY DEF LtmTyped
<1>2. /\ LtmTyped' /\ JobsHold' /\ NothingLost'
      /\ job'[w] = one /\ \A v \in Workers \ {w} : job'[v] = job[v]
      /\ ~overlapped' => ~overlapped /\ JobsApart' /\ EpisodesHold'
  <2> HIDE DEF LtmInv
  <2>1. QED
    BY <1>1, JobGoesOn
<1>3. \A f \in Facts : Drafts(fact, job', f) \subseteq Drafts(fact, job, f)
  BY <1>2 DEF Drafts
<1>4. Taken(entries, job) \subseteq Taken(entries', job')
  <2>1. entries \subseteq entries' /\ Learned(job[w]) \subseteq entries' \cup Learned(job'[w])
    BY <1>2
  <2>2. \A v \in Workers \ {w} : job'[v] = job[v]
    BY <1>2
  <2> HIDE DEF LtmInv
  <2>3. QED
    BY <2>1, <2>2, TakenFrom DEF Taken
<1>5. QED
  BY <1>2, <1>3, <1>4, StepOfOtherThanFacts

\* A fact is written.
LEMMA AssertionKeeps ==
    ASSUME LtmInv, NEW w \in Workers, NEW one \in JobStates, NEW known \in FactStates,
           job[w] # NoJob, job[w].stage # "embed", Says[Turn(w)] \in Facts,
           known \in Drafts(fact, job, Says[Turn(w)]),
           AssertFact(Says[Turn(w)], known, Turn(w)),
           job' = [job EXCEPT ![w] = one],
           one.stage = "embed", one.chat = job[w].chat, one.seen = job[w].seen,
           one.left = job[w].left, one.done = job[w].done,
           UNCHANGED <<spoken, entries, episode, summaries, folds, forgotten, overlapped, cut,
                       stranded>>
    PROVE  LtmInv'
<1> USE DEF LtmInv
<1> DEFINE t == Turn(w)
           f == Says[t]
<1>1. /\ job[w] \in JobStates /\ t \in job[w].left /\ t \in Turns /\ t = Min(job[w].left)
      /\ ChatOf[t] = job[w].chat /\ t \notin job[w].done
  BY TurnIs
<1>2. known.state # "active" => known.sources = {} /\ known.mentions = 0
  BY DEF DraftsHold
<1>3. fact \in [Facts -> FactStates]
  BY DEF LtmTyped
<1>4. fact' = Asserted(fact, f, known, t)
  BY DEF AssertFact
<1> HIDE DEF f, t
<1>5. /\ f \in Facts /\ known \in Drafts(fact, job, f) /\ AssertFact(f, known, t)
  BY DEF f, t
<1>6. /\ fact' \in [Facts -> FactStates]
      /\ fact'[f].state = "active"
      /\ fact'[f].mentions = known.mentions + 1
      /\ fact'[f].sources = known.sources \cup {t}
      /\ \A g \in Facts \ {f} :
            /\ fact'[g].state = fact[g].state
            /\ fact'[g].mentions = fact[g].mentions /\ fact'[g].sources = fact[g].sources
  BY <1>1, <1>2, <1>3, <1>4, <1>5, AssertedIs
<1>7. SlotsHold'
  BY <1>1, <1>2, <1>3, <1>5, SlotsAfterAssertion
<1>8. /\ job[w].left # {} /\ job[w].left \cap job[w].done = {}
      /\ job[w].seen \cup job[w].left \cup job[w].done \subseteq Of(job[w].chat, spoken)
  BY DEF JobsHold
<1>9. /\ LtmTyped' /\ JobsHold' /\ NothingLost'
      /\ job'[w] = one /\ \A v \in Workers \ {w} : job'[v] = job[v]
      /\ ~overlapped' => ~overlapped /\ JobsApart' /\ EpisodesHold'
  <2> HIDE DEF LtmInv
  <2>1. QED
    BY <1>6, <1>8, JobGoesOn
\* What is written of a fact was so before, or is what was known and this turn.
<1>10. ASSUME NEW g \in Facts, NEW y \in Drafts(fact', job', g)
       PROVE  \/ \E x \in Drafts(fact, job, g) :
                    x.state = y.state /\ x.sources = y.sources /\ x.mentions = y.mentions
              \/ g = f /\ y = fact'[f]
  <2>1. CASE y = fact'[g]
    BY <1>6, <2>1 DEF Drafts
  <2>2. CASE y # fact'[g]
    <3>1. PICK v \in Workers : /\ job'[v].stage = "phrase" /\ Says[Min(job'[v].left)] = g
                               /\ y = job'[v].known
      BY <2>2 DEF Drafts
    <3>2. v # w /\ job'[v] = job[v]
      BY <1>9, <3>1
    <3>3. y \in Drafts(fact, job, g)
      BY <3>1, <3>2 DEF Drafts
    <3>4. QED
      BY <3>3
  <2>3. QED
    BY <2>1, <2>2
<1>11. DraftsHold'
  <2>1. ASSUME NEW g \in Facts, NEW y \in Drafts(fact', job', g), y.state # "active"
        PROVE  y.sources = {} /\ y.mentions = 0
    <3>1. PICK x \in Drafts(fact, job, g) :
             x.state = y.state /\ x.sources = y.sources /\ x.mentions = y.mentions
      BY <1>6, <1>10, <2>1
    <3>2. QED
      BY <2>1, <3>1 DEF DraftsHold
  <2>2. QED
    BY <2>1 DEF DraftsHold
<1>12. ASSUME ~overlapped'
       PROVE  DraftsForget'
  <2>1. t \notin forgotten
    <3>1. t \notin entries
      BY <1>1, <1>9, <1>12 DEF JobsApart
    <3>2. forgotten \subseteq entries
      BY <1>12, <1>9 DEF EpisodesHold, LtmTyped
    <3>3. QED
      BY <3>1, <3>2
  <2>2. ASSUME NEW g \in Facts, NEW y \in Drafts(fact', job', g)
        PROVE  y.sources \cap forgotten = {}
    <3>1. known.sources \cap forgotten = {}
      BY <1>5, <1>12 DEF DraftsForget
    <3>2. CASE g = f /\ y = fact'[f]
      BY <1>6, <2>1, <3>1, <3>2
    <3>3. CASE \E x \in Drafts(fact, job, g) : x.sources = y.sources
      BY <1>12, <3>3 DEF DraftsForget
    <3>4. QED
      BY <1>10, <2>2, <3>2, <3>3
  <2>3. QED
    BY <2>2 DEF DraftsForget
<1>13. ASSUME ~overlapped', ~cut'
       PROVE  CountedOnce'
  <2>1. ~overlapped /\ CountedOnce /\ JobsApart
    BY <1>13
  <2>2. t \notin Taken(entries, job)
    <3>1. t \notin entries
      BY <1>1, <2>1 DEF JobsApart
    <3>2. ASSUME NEW v \in Workers, t \in Learned(job[v]) PROVE FALSE
      <4>1. /\ job[v] # NoJob
            /\ t \in job[v].done \/ (job[v].stage = "embed" /\ t = Min(job[v].left))
        BY <3>2 DEF Learned
      <4>2. v # w
        BY <1>1, <4>1
      <4>3. job[v].chat # job[w].chat
        BY <2>1, <4>1, <4>2 DEF JobsApart
      <4>4. Turn(v) \in job[v].left /\ Turn(v) = Min(job[v].left)
        BY <4>1, TurnIs
      <4>5. t \in Of(job[v].chat, spoken)
        BY <4>1, <4>4 DEF JobsHold
      <4>6. QED
        BY <1>1, <4>3, <4>5 DEF Of
    <3>3. QED
      BY <3>1, <3>2 DEF Taken
  <2>3. Taken(entries, job) \subseteq Taken(entries', job') /\ t \in Taken(entries', job')
    <3>1. Learned(job[w]) \subseteq Learned(one) /\ t \in Learned(one)
      BY <1>1 DEF Learned, NoJob
    <3>2. QED
      BY <1>9, <3>1, TakenFrom DEF Taken
  <2>4. known.mentions = Cardinality(known.sources) /\ known.sources \subseteq Taken(entries, job)
    BY <1>5, <2>1 DEF CountedOnce
  <2>5. /\ fact'[f].mentions = Cardinality(fact'[f].sources)
        /\ fact'[f].sources \subseteq Taken(entries', job')
    <3>1. t \notin known.sources
      BY <2>2, <2>4
    <3>2. IsFiniteSet(known.sources)
      BY TurnsAreFinite DEF FactStates
    <3>3. Cardinality(known.sources \cup {t}) = Cardinality(known.sources) + 1
      BY <3>1, <3>2, FS_AddElement
    <3>4. QED
      BY <1>6, <2>3, <2>4, <3>3
  <2>6. ASSUME NEW g \in Facts \ {f}, NEW y \in Drafts(fact', job', g)
        PROVE  fact'[f].sources \cap y.sources = {}
    <3>1. PICK x \in Drafts(fact, job, g) : x.sources = y.sources
      BY <1>10, <2>6
    <3>2. known.sources \cap x.sources = {} /\ x.sources \subseteq Taken(entries, job)
      BY <1>5, <2>1 DEF CountedOnce
    <3>3. QED
      BY <1>6, <2>2, <3>1, <3>2
  <2>7. ASSUME NEW g \in Facts, NEW y \in Drafts(fact', job', g)
        PROVE  /\ y.mentions = Cardinality(y.sources)
               /\ y.sources \subseteq Taken(entries', job')
               /\ \A h \in Facts \ {g} : \A z \in Drafts(fact', job', h) :
                     y.sources \cap z.sources = {}
    <3>1. CASE g = f /\ y = fact'[f]
      BY <2>5, <2>6, <3>1
    <3>2. ASSUME NEW x \in Drafts(fact, job, g), x.sources = y.sources, x.mentions = y.mentions
          PROVE  /\ y.mentions = Cardinality(y.sources)
                 /\ y.sources \subseteq Taken(entries', job')
                 /\ \A h \in Facts \ {g} : \A z \in Drafts(fact', job', h) :
                       y.sources \cap z.sources = {}
      <4>1. y.mentions = Cardinality(y.sources) /\ y.sources \subseteq Taken(entries', job')
        BY <2>1, <2>3, <3>2 DEF CountedOnce
      <4>2. ASSUME NEW h \in Facts \ {g}, NEW z \in Drafts(fact', job', h)
            PROVE  y.sources \cap z.sources = {}
        <5>1. CASE h = f /\ z = fact'[f]
          BY <2>6, <5>1
        <5>2. CASE \E u \in Drafts(fact, job, h) : u.sources = z.sources
          BY <2>1, <3>2, <5>2 DEF CountedOnce
        <5>3. QED
          BY <1>10, <4>2, <5>1, <5>2
      <4>3. QED
        BY <4>1, <4>2
    <3>3. QED
      BY <1>10, <2>7, <3>1, <3>2
  <2>8. QED
    BY <2>7 DEF CountedOnce
<1>14. QED
  BY <1>7, <1>9, <1>11, <1>12, <1>13

\* The extractor answers.
LEMMA ExtractedKeeps ==
    ASSUME LtmInv, NEW w \in Workers, Extracted(w)
    PROVE  LtmInv'
<1>1. LtmTyped /\ JobsHold
  BY DEF LtmInv
<1>2. job[w].stage = "extract" /\ job[w] # NoJob
  BY AtWork DEF Extracted
<1> DEFINE t == Turn(w)
           f == Says[t]
<1>3. /\ job[w] \in JobStates /\ t \in Turns /\ t = Min(job[w].left) /\ t \in job[w].left
  BY <1>1, <1>2, TurnIs
<1>4. /\ job[w].left # {} /\ job[w].left \cap job[w].done = {}
      /\ UNCHANGED <<spoken, entries, episode, summaries, folds, forgotten, overlapped, cut,
                     stranded>>
  BY <1>1, <1>2 DEF JobsHold, Extracted
<1>5. f \in Facts \cup {Nothing} /\ fact \in [Facts -> FactStates]
  BY <1>1, <1>3, LtmAssumption DEF LtmTyped
<1>6. ASSUME job' = [job EXCEPT ![w].stage = "embed"]
      PROVE  \E one \in JobStates :
                /\ job' = [job EXCEPT ![w] = one]
                /\ one.stage = "embed" /\ one.chat = job[w].chat /\ one.seen = job[w].seen
                /\ one.left = job[w].left /\ one.done = job[w].done
  <2> DEFINE one == [job[w] EXCEPT !.stage = "embed"]
  <2>1. /\ one \in JobStates /\ one.stage = "embed" /\ one.chat = job[w].chat
        /\ one.seen = job[w].seen /\ one.left = job[w].left /\ one.done = job[w].done
    BY <1>3 DEF JobStates
  <2>2. job' = [job EXCEPT ![w] = one]
    BY <1>6
  <2>3. QED
    BY <2>1, <2>2
<1>7. CASE job' = [job EXCEPT ![w].stage = "embed"] /\ UNCHANGED <<fact, learning>>
  <2>1. PICK one \in JobStates :
           /\ job' = [job EXCEPT ![w] = one]
           /\ one.stage = "embed" /\ one.chat = job[w].chat /\ one.seen = job[w].seen
           /\ one.left = job[w].left /\ one.done = job[w].done
    BY <1>6, <1>7
  <2>2. Learned(job[w]) \subseteq Learned(one)
    BY <1>2, <2>1 DEF Learned, NoJob
  <2>3. QED
    BY <1>2, <1>4, <1>7, <2>1, <2>2, JobAdvances DEF learning
<1>8. CASE /\ f # Nothing /\ fact[f].state = "active" /\ AssertFact(f, fact[f], t)
           /\ job' = [job EXCEPT ![w].stage = "embed"]
  <2>1. PICK one \in JobStates :
           /\ job' = [job EXCEPT ![w] = one]
           /\ one.stage = "embed" /\ one.chat = job[w].chat /\ one.seen = job[w].seen
           /\ one.left = job[w].left /\ one.done = job[w].done
    BY <1>6, <1>8
  <2>2. f \in Facts /\ fact[f] \in FactStates /\ fact[f] \in Drafts(fact, job, f)
    BY <1>5, <1>8 DEF Drafts
  <2>3. QED
    BY <1>2, <1>4, <1>8, <2>1, <2>2, AssertionKeeps
<1>9. CASE /\ f # Nothing
           /\ job' = [job EXCEPT ![w].stage = "phrase", ![w].known = fact[f]]
           /\ UNCHANGED <<fact, learning>>
  <2> DEFINE one == [job[w] EXCEPT !.stage = "phrase", !.known = fact[f]]
  <2>1. f \in Facts /\ fact[f] \in FactStates
    BY <1>5, <1>9
  <2>2. /\ one \in JobStates /\ one.stage = "phrase" /\ one.chat = job[w].chat
        /\ one.seen = job[w].seen /\ one.left = job[w].left /\ one.done = job[w].done
        /\ one.known = fact[f]
    BY <1>3, <2>1 DEF JobStates
  <2>3. job' = [job EXCEPT ![w] = one]
    BY <1>9
  <2>4. Says[Min(job[w].left)] = f
    BY <1>3
  <2> HIDE DEF one, f
  <2>5. Learned(job[w]) \subseteq Learned(one)
    BY <1>2, <2>2 DEF Learned, NoJob
  <2>6. one.stage = "phrase" =>
            Says[Min(one.left)] \in Facts /\ one.known = fact[Says[Min(one.left)]]
    BY <2>1, <2>2, <2>4
  <2>7. QED
    BY <1>2, <1>4, <1>9, <2>2, <2>3, <2>5, <2>6, JobAdvances DEF learning
<1>10. QED
  BY <1>7, <1>8, <1>9 DEF Extracted

\* The phrase is embedded, and the fact is written.
LEMMA PhrasedKeeps ==
    ASSUME LtmInv, NEW w \in Workers, Phrased(w)
    PROVE  LtmInv'
<1>1. LtmTyped /\ JobsHold
  BY DEF LtmInv
<1>2. /\ job[w].stage = "phrase" /\ job[w] # NoJob
      /\ AssertFact(Says[Turn(w)], job[w].known, Turn(w))
      /\ job' = [job EXCEPT ![w].stage = "embed", ![w].known = Unknown]
      /\ UNCHANGED <<spoken, entries, episode, summaries, folds, forgotten, overlapped, cut,
                     stranded>>
  BY AtWork DEF Phrased
<1>3. job[w] \in JobStates /\ Turn(w) = Min(job[w].left)
  BY <1>1, <1>2, TurnIs
<1>4. Says[Turn(w)] \in Facts /\ job[w].known \in FactStates
      /\ job[w].known \in Drafts(fact, job, Says[Turn(w)])
  BY <1>1, <1>2, <1>3 DEF JobsHold, JobStates, Drafts
<1> DEFINE one == [job[w] EXCEPT !.stage = "embed", !.known = Unknown]
<1>5. Unknown \in FactStates
  BY DEF Unknown, Fact, FactStates
<1>6. /\ one \in JobStates /\ one.stage = "embed" /\ one.chat = job[w].chat
      /\ one.seen = job[w].seen /\ one.left = job[w].left /\ one.done = job[w].done
  BY <1>3, <1>5 DEF JobStates
<1>7. job' = [job EXCEPT ![w] = one]
  BY <1>2
<1> HIDE DEF one
<1>8. QED
  BY <1>2, <1>4, <1>6, <1>7, AssertionKeeps

\* A turn is embedded, and others are left.
LEMMA EmbeddedGoesOn ==
    ASSUME LtmInv, NEW w \in Workers, Embedded(w), job[w].left \ {Turn(w)} # {}
    PROVE  LtmInv'
<1>1. LtmTyped /\ JobsHold
  BY DEF LtmInv
<1>2. job[w].stage = "embed" /\ job[w] # NoJob
  BY AtWork DEF Embedded
<1> DEFINE t == Turn(w)
           one == [job[w] EXCEPT !.stage = "extract", !.left = job[w].left \ {t},
                                 !.done = job[w].done \cup {t}]
<1>3. /\ job[w] \in JobStates /\ t \in Turns /\ t = Min(job[w].left) /\ t \in job[w].left
      /\ job[w].left \cap job[w].done = {} /\ t \notin job[w].done
  BY <1>1, <1>2, TurnIs DEF JobsHold
<1>4. /\ job' = [job EXCEPT ![w].stage = "extract", ![w].left = job[w].left \ {t},
                            ![w].done = job[w].done \cup {t}]
      /\ UNCHANGED <<spoken, entries, episode, summaries, folds, forgotten, overlapped, cut,
                     stranded, fact, bypassed>>
  BY DEF Embedded, ltmHistory, learning
<1> HIDE DEF t
<1>5. job[w].left \ {t} \in SUBSET Turns /\ job[w].done \cup {t} \in SUBSET Turns
  BY <1>3 DEF JobStates
<1>6. /\ one \in JobStates /\ one.stage = "extract" /\ one.chat = job[w].chat
      /\ one.seen = job[w].seen /\ one.left = job[w].left \ {t}
      /\ one.done = job[w].done \cup {t}
  BY <1>3, <1>5 DEF JobStates
<1>7. job' = [job EXCEPT ![w] = one]
  BY <1>4
<1> HIDE DEF one
<1>8. Learned(job[w]) \subseteq Learned(one)
  BY <1>3, <1>6 DEF Learned, NoJob
<1>9. /\ one.left # {} /\ one.left \cap one.done = {}
      /\ one.left \cup one.done = job[w].left \cup job[w].done
  BY <1>3, <1>6 DEF t
<1>10. QED
  BY <1>2, <1>4, <1>6, <1>7, <1>8, <1>9, JobAdvances

\* The last turn is embedded: the records are stored, and the turns are noted.
LEMMA EmbeddedEnds ==
    ASSUME LtmInv, NEW w \in Workers, Embedded(w), job[w].left \ {Turn(w)} = {}
    PROVE  LtmInv'
<1> USE DEF LtmInv
<1>1. job[w].stage = "embed" /\ job[w] # NoJob
  BY AtWork DEF Embedded
<1> DEFINE t == Turn(w)
           done == job[w].done \cup {t}
           chat == job[w].chat
<1>2. /\ job[w] \in JobStates /\ t \in Turns /\ t = Min(job[w].left) /\ t \in job[w].left
      /\ job[w].left = {t}
      /\ job[w].seen \cup job[w].left \cup job[w].done \subseteq Of(chat, spoken)
  BY <1>1, TurnIs DEF JobsHold
<1>3. /\ episode' = [u \in Turns |-> IF u \in done THEN "active" ELSE episode[u]]
      /\ entries' = (entries \ Of(chat, Turns)) \cup job[w].seen \cup done
      /\ job' = [job EXCEPT ![w] = NoJob]
      /\ UNCHANGED <<spoken, summaries, folds, forgotten, overlapped, cut, stranded, fact,
                     bypassed>>
  BY DEF Embedded, ltmHistory, learning
<1> HIDE DEF t
<1>4. done \subseteq Of(chat, spoken)
  BY <1>2
<1>5. job \in [Workers -> JobStates \cup {NoJob}]
  BY DEF LtmTyped
<1>6. job'[w] = NoJob /\ \A v \in Workers \ {w} : job'[v] = job[v]
  BY <1>3, <1>5
<1>7. done = job[w].left \cup job[w].done
  BY <1>2
<1>8. Learned(job[w]) \subseteq done
  BY <1>2 DEF Learned
<1> DEFINE seen == job[w].seen
<1> HIDE DEF done, chat, seen
<1>9. LtmTyped'
  <2>1. entries' \in SUBSET spoken
    BY <1>2, <1>3, <1>4 DEF LtmTyped, Of, chat
  <2>2. episode' \in [Turns -> {"none", "active", "consolidated", "redacted"}]
    BY <1>3 DEF LtmTyped
  <2>3. job' \in [Workers -> JobStates \cup {NoJob}]
    BY <1>3, <1>5
  <2>4. QED
    BY <1>3, <2>1, <2>2, <2>3 DEF LtmTyped
<1>10. JobsHold'
  BY <1>3, <1>6 DEF JobsHold
<1>11. ASSUME ~overlapped'
       PROVE  /\ ~overlapped /\ JobsApart' /\ EpisodesHold' /\ entries' = entries \cup done
  <2>1. ~overlapped /\ JobsApart /\ EpisodesHold
    BY <1>3, <1>11
  <2>2. seen = Of(chat, entries) /\ done \cap entries = {}
    BY <1>1, <1>7, <2>1 DEF JobsApart, chat, seen
  <2>3. entries' = entries \cup done
    BY <1>3, <2>2 DEF Of, seen, LtmTyped
  <2>4. JobsApart'
    <3>1. SUFFICES ASSUME NEW v \in Workers, job'[v] # NoJob
                   PROVE  /\ job'[v].seen = Of(job'[v].chat, entries')
                          /\ (job'[v].left \cup job'[v].done) \cap entries' = {}
                          /\ \A u \in Workers \ {v} :
                                job'[u] # NoJob => job'[u].chat # job'[v].chat
      BY DEF JobsApart
    <3>2. v # w /\ job'[v] = job[v] /\ job[v] # NoJob
      BY <1>6, <3>1
    <3>3. job[v].chat # chat
      BY <1>1, <2>1, <3>2 DEF JobsApart, chat
    <3>4. Of(job[v].chat, entries') = Of(job[v].chat, entries)
      BY <1>4, <2>3, <3>3 DEF Of
    <3>5. (job[v].left \cup job[v].done) \cap done = {}
      BY <1>4, <3>2, <3>3 DEF JobsHold, Of
    <3>6. QED
      BY <1>6, <2>1, <2>3, <3>2, <3>4, <3>5 DEF JobsApart
  <2>5. EpisodesHold'
    <3>1. forgotten \cap done = {}
      BY <2>1, <2>2 DEF EpisodesHold, LtmTyped
    <3>2. QED
      BY <1>3, <2>1, <2>3, <3>1 DEF EpisodesHold, LtmTyped
  <2>6. QED
    BY <2>1, <2>3, <2>4, <2>5
<1>12. ASSUME ~overlapped'
       PROVE  Taken(entries, job) \subseteq Taken(entries', job')
  <2>1. entries \subseteq entries' /\ Learned(job[w]) \subseteq entries' \cup Learned(job'[w])
    BY <1>8, <1>11, <1>12
  <2>2. QED
    BY <1>6, <2>1, TakenFrom DEF Taken
<1>13. \A f \in Facts : Drafts(fact, job', f) \subseteq Drafts(fact, job, f)
  BY <1>6, DraftsFrom DEF NoJob
<1>14. NothingLost'
  BY <1>3 DEF NothingLost
<1>15. QED
  BY <1>3, <1>9, <1>10, <1>11, <1>12, <1>13, <1>14, StepOfOtherThanFacts

\* An ingest fails, or the process stops.
LEMMA CutsKeep ==
    ASSUME LtmInv, Stop \/ \E w \in Workers : Fails(w)
    PROVE  LtmInv'
<1> USE DEF LtmInv
<1>1. /\ UNCHANGED <<spoken, entries, episode, summaries, fact, forgotten, overlapped, bypassed,
                     stranded>>
      /\ \A v \in Workers : job'[v] = job[v] \/ job'[v] = NoJob
      /\ job' \in [Workers -> JobStates \cup {NoJob}]
      /\ folds' \subseteq folds
      /\ cut' \/ (job' = job /\ ~cut)
  <2>1. job \in [Workers -> JobStates \cup {NoJob}]
    BY DEF LtmTyped
  <2>2. CASE Stop
    <3>1. ASSUME ~cut' PROVE job' = job /\ ~cut
      <4>1. ~cut /\ \A w \in Workers : job[w] = NoJob
        BY <2>2, <3>1 DEF Stop, learning
      <4>2. job' = job
        BY <2>1, <2>2, <4>1 DEF Stop, learning
      <4>3. QED
        BY <4>1, <4>2
    <3>2. QED
      BY <2>1, <2>2, <3>1 DEF Stop, learning
  <2>3. ASSUME NEW w \in Workers, Fails(w)
        PROVE  /\ UNCHANGED <<spoken, entries, episode, summaries, fact, forgotten, overlapped,
                              bypassed, stranded>>
               /\ \A v \in Workers : job'[v] = job[v] \/ job'[v] = NoJob
               /\ job' \in [Workers -> JobStates \cup {NoJob}]
               /\ folds' = folds /\ cut'
    BY <2>1, <2>3 DEF Fails, learning
  <2>4. QED
    BY <2>2, <2>3
<1>2. LtmTyped'
  BY <1>1 DEF LtmTyped
<1>3. JobsHold'
  BY <1>1 DEF JobsHold
<1>4. NothingLost'
  BY <1>1 DEF NothingLost
<1>5. \A f \in Facts : Drafts(fact, job', f) \subseteq Drafts(fact, job, f)
  BY <1>1 DEF Drafts, NoJob
<1>6. ASSUME ~overlapped'
      PROVE  ~overlapped /\ JobsApart' /\ EpisodesHold'
  BY <1>1, <1>6 DEF JobsApart, EpisodesHold
<1>7. ASSUME ~cut'
      PROVE  ~cut /\ Taken(entries, job) \subseteq Taken(entries', job')
  BY <1>1, <1>7
<1>8. QED
  BY <1>1, <1>2, <1>3, <1>4, <1>5, <1>6, <1>7, StepOfOtherThanFacts

\* A group is summarized.
LEMMA FoldsKeep ==
    ASSUME LtmInv, (\E c \in Talkers : FoldStart(c)) \/ (\E g \in folds : FoldEnd(g))
    PROVE  LtmInv'
<1> USE DEF LtmInv
<1>1. UNCHANGED <<spoken, entries, fact, job, forgotten, overlapped, cut, bypassed, stranded>>
  BY DEF FoldStart, FoldEnd, ltmHistory, learning
<1>2. JobsHold' /\ (JobsApart => JobsApart')
  BY <1>1 DEF JobsHold, JobsApart
<1>3. ASSUME NEW c \in Talkers, FoldStart(c)
      PROVE  LtmInv'
  <2>1. PICK g \in SUBSET Of(c, {t \in Turns : episode[t] = "active"}) : folds' = folds \cup {g}
    BY <1>3 DEF FoldStart
  <2>2. UNCHANGED <<episode, summaries>>
    BY <1>3 DEF FoldStart
  <2>3. g \in SUBSET Turns /\ \A t \in g : episode[t] = "active"
    BY <2>1 DEF Of
  <2>4. LtmTyped'
    BY <1>1, <2>1, <2>2, <2>3 DEF LtmTyped
  <2>5. EpisodesHold => EpisodesHold'
    BY <1>1, <2>1, <2>2, <2>3 DEF EpisodesHold
  <2>6. NothingLost'
    BY <1>1, <2>2 DEF NothingLost
  <2>7. QED
    BY <1>1, <1>2, <2>4, <2>5, <2>6, StepOfOtherThanFacts
<1>4. ASSUME NEW g \in folds, FoldEnd(g)
      PROVE  LtmInv'
  <2>1. /\ folds' = folds \ {g} /\ g \in SUBSET Turns
        /\ \/ /\ episode' = [t \in Turns |-> IF t \in g THEN "consolidated" ELSE episode[t]]
              /\ summaries' = summaries \cup {g}
           \/ UNCHANGED <<episode, summaries>>
    BY <1>4 DEF FoldEnd, LtmTyped
  <2>2. LtmTyped'
    BY <1>1, <2>1 DEF LtmTyped
  <2>3. EpisodesHold => EpisodesHold'
    BY <1>1, <2>1 DEF EpisodesHold, LtmTyped
  <2>4. NothingLost'
    BY <1>1, <2>1 DEF NothingLost
  <2>5. QED
    BY <1>1, <1>2, <2>2, <2>3, <2>4, StepOfOtherThanFacts
<1>5. QED
  BY <1>3, <1>4

\* While the server is stopped, no ingest has read anything.
LEMMA StoppedDrafts ==
    ASSUME Stopped, NEW facts
    PROVE  /\ \A f \in Facts : Drafts(facts, job, f) = {facts[f]}
           /\ Taken(entries, job) = entries
  BY DEF Stopped, Drafts, Taken, Learned, NoJob

\* A command that changes facts, while the server is stopped.
LEMMA StepOfFacts ==
    ASSUME LtmInv, Stopped, UNCHANGED <<spoken, entries, job, folds, overlapped, cut>>,
           fact' \in [Facts -> FactStates],
           \A f \in Facts : fact'[f].state # "active" =>
                               fact'[f].sources = {} /\ fact'[f].mentions = 0,
           LtmTyped', SlotsHold', NothingLost', ~overlapped => EpisodesHold',
           ~overlapped => \A f \in Facts : fact'[f].sources \cap forgotten' = {},
           ~overlapped /\ ~cut =>
               \A f \in Facts :
                   /\ fact'[f].mentions = Cardinality(fact'[f].sources)
                   /\ fact'[f].sources \subseteq entries
                   /\ \A g \in Facts \ {f} : fact'[f].sources \cap fact'[g].sources = {}
    PROVE  LtmInv'
<1>1. /\ \A f \in Facts : Drafts(fact', job', f) = {fact'[f]}
      /\ Taken(entries', job') = entries
  BY StoppedDrafts
<1>2. JobsHold' /\ (~overlapped => JobsApart')
  BY DEF LtmInv, JobsHold, JobsApart
<1>3. DraftsHold'
  BY <1>1 DEF DraftsHold
<1>4. ~overlapped => DraftsForget'
  BY <1>1 DEF DraftsForget
<1>5. ~overlapped /\ ~cut => CountedOnce'
  BY <1>1 DEF CountedOnce
<1>6. QED
  BY <1>2, <1>3, <1>4, <1>5 DEF LtmInv

\* What is known of each fact, while the server is stopped.
LEMMA FactsAre ==
    ASSUME LtmInv, Stopped
    PROVE  /\ fact \in [Facts -> FactStates]
           /\ \A f \in Facts :
                 fact[f].state # "active" => fact[f].sources = {} /\ fact[f].mentions = 0
           /\ ~overlapped => \A f \in Facts : fact[f].sources \cap forgotten = {}
           /\ ~overlapped /\ ~cut =>
                 \A f \in Facts :
                     /\ fact[f].mentions = Cardinality(fact[f].sources)
                     /\ fact[f].sources \subseteq entries
                     /\ \A g \in Facts \ {f} : fact[f].sources \cap fact[g].sources = {}
<1>1. /\ \A f \in Facts : Drafts(fact, job, f) = {fact[f]}
      /\ Taken(entries, job) = entries
  BY StoppedDrafts
<1>2. QED
  BY <1>1 DEF LtmInv, LtmTyped, DraftsHold, DraftsForget, CountedOnce

\* A fact that is gone.
LEMMA TombstoneIs ==
    ASSUME NEW x \in FactStates
    PROVE  /\ Tombstone(x) \in FactStates /\ Tombstone(x).state = "redacted"
           /\ Tombstone(x).mentions = 0 /\ Tombstone(x).sources = {}
  BY DEF Tombstone, FactStates

\* Turns are redacted.
LEMMA RedactKeeps ==
    ASSUME LtmInv, Redact
    PROVE  LtmInv'
<1> USE DEF LtmInv
<1>1. /\ Stopped
      /\ UNCHANGED <<spoken, entries, job, folds, overlapped, cut, bypassed>>
  BY DEF Redact, Order
<1>2. PICK gone \in {{t} : t \in Turns} \cup {Of(c, Turns) : c \in Talkers},
           whole \in SUBSET summaries :
         LET turns == {t \in gone : episode[t] \in {"active", "consolidated"}}
             hit == {s \in summaries \ whole : s \cap turns # {}}
             again == {s \in {h \ turns : h \in hit} : Cardinality(s) >= 2}
         IN  /\ episode' = [t \in Turns |-> IF t \in turns THEN "redacted" ELSE episode[t]]
             /\ fact' = WithoutSources(fact, turns)
             /\ summaries' = (summaries \ (whole \cup hit)) \cup again
             /\ forgotten' = forgotten \cup turns
             /\ stranded' = stranded \cup ((UNION (whole \cup hit)) \ (UNION again))
  BY DEF Redact
<1> DEFINE turns == {t \in gone : episode[t] \in {"active", "consolidated"}}
           hit == {s \in summaries \ whole : s \cap turns # {}}
           again == {s \in {h \ turns : h \in hit} : Cardinality(s) >= 2}
<1>3. /\ episode' = [t \in Turns |-> IF t \in turns THEN "redacted" ELSE episode[t]]
      /\ fact' = WithoutSources(fact, turns)
      /\ summaries' = (summaries \ (whole \cup hit)) \cup again
      /\ forgotten' = forgotten \cup turns
      /\ stranded' = stranded \cup ((UNION (whole \cup hit)) \ (UNION again))
  BY <1>2
<1>4. gone \in SUBSET Turns
  BY DEF Of
<1>5. /\ turns \in SUBSET Turns
      /\ \A t \in turns : episode[t] \in {"active", "consolidated"}
  BY <1>4
<1>6. /\ \A s \in summaries \ (whole \cup hit) : s \cap turns = {}
      /\ \A s \in again : \E h \in summaries : s = h \ turns
  OBVIOUS
<1> HIDE DEF turns, hit, again
<1>7. \A s \in summaries' : s \cap turns = {} /\ \E h \in summaries : s \subseteq h
  BY <1>3, <1>6
<1>8. ASSUME NEW f \in Facts
      PROVE  /\ fact'[f] \in FactStates
             /\ fact'[f].state = "active" \/ (fact'[f].sources = {} /\ fact'[f].mentions = 0)
             /\ fact'[f].sources \subseteq fact[f].sources
             /\ fact'[f].sources \cap turns = {}
             /\ fact'[f] = fact[f] \/ fact'[f].mentions = Cardinality(fact'[f].sources)
             /\ fact'[f].hidden = fact[f].hidden
             /\ \/ fact'[f].state = fact[f].state
                \/ fact[f].state = "active" /\ fact'[f].state = "redacted"
  <2>1. /\ fact[f] \in FactStates
        /\ fact[f].state # "active" => fact[f].sources = {} /\ fact[f].mentions = 0
        /\ fact[f].sources \in SUBSET Turns
    BY <1>1, FactsAre DEF FactStates
  <2>2. CASE fact[f].state # "active" \/ fact[f].sources \cap turns = {}
    <3>1. fact'[f] = fact[f]
      BY <1>3, <2>2 DEF WithoutSources
    <3>2. QED
      BY <2>1, <2>2, <3>1
  <2>3. CASE /\ ~(fact[f].state # "active" \/ fact[f].sources \cap turns = {})
             /\ fact[f].sources \subseteq turns
    <3>1. fact'[f] = Tombstone(fact[f])
      BY <1>3, <2>3 DEF WithoutSources
    <3>2. Cardinality({}) = 0
      BY FS_EmptySet
    <3>3. fact'[f].hidden = fact[f].hidden
      BY <2>1, <3>1 DEF Tombstone, FactStates
    <3>4. QED
      BY <2>1, <2>3, <3>1, <3>2, <3>3, TombstoneIs
  <2>4. CASE /\ ~(fact[f].state # "active" \/ fact[f].sources \cap turns = {})
             /\ ~(fact[f].sources \subseteq turns)
    <3> DEFINE rest == fact[f].sources \ turns
    <3>1. fact'[f] = [fact[f] EXCEPT !.sources = rest, !.mentions = Cardinality(rest)]
      BY <1>3, <2>4 DEF WithoutSources
    <3>2. rest \in SUBSET Turns /\ rest \cap turns = {} /\ rest \subseteq fact[f].sources
      BY <2>1
    <3> HIDE DEF rest
    <3>3. Cardinality(rest) \in Nat
      BY <3>2, TurnsAreFinite
    <3>4. /\ fact'[f] \in FactStates /\ fact'[f].sources = rest
          /\ fact'[f].mentions = Cardinality(rest) /\ fact'[f].state = fact[f].state
          /\ fact'[f].hidden = fact[f].hidden
      BY <2>1, <3>1, <3>2, <3>3 DEF FactStates
    <3>5. QED
      BY <2>4, <3>2, <3>4
  <2>5. QED
    BY <2>2, <2>3, <2>4
<1>9. fact' \in [Facts -> FactStates]
  <2>1. fact' = [f \in Facts |-> fact'[f]]
    BY <1>3 DEF WithoutSources
  <2>2. QED
    BY <1>8, <2>1
<1>10. LtmTyped'
  <2>1. episode' \in [Turns -> {"none", "active", "consolidated", "redacted"}]
    BY <1>3 DEF LtmTyped
  <2>2. summaries' \in SUBSET (SUBSET Turns)
    BY <1>7 DEF LtmTyped
  <2>3. QED
    BY <1>1, <1>3, <1>5, <1>9, <2>1, <2>2 DEF LtmTyped
<1>11. SlotsHold'
  <2>1. Shown(fact') \subseteq Shown(fact)
    BY <1>8 DEF Shown
  <2>2. SUFFICES ASSUME NEW slot \in Slots, ~(\E f \in slot : fact'[f].state = "redacted")
                 PROVE  (\E f \in slot : fact'[f].state = "active") =>
                            slot \cap Shown(fact') # {}
    BY <1>1, <2>1 DEF SlotsHold
  <2>3. \A f \in slot : /\ f \in Facts /\ fact'[f].state = fact[f].state
                        /\ fact'[f].hidden = fact[f].hidden
    BY <1>8, <2>2, LtmAssumption
  <2>4. slot \cap Shown(fact') = slot \cap Shown(fact)
    BY <2>3 DEF Shown
  <2>5. QED
    BY <2>2, <2>3, <2>4 DEF SlotsHold
<1>12. NothingLost'
  <2>1. SUFFICES ASSUME NEW t \in Turns, t \notin stranded', episode'[t] = "consolidated"
                 PROVE  \E s \in summaries' : t \in s
    BY DEF NothingLost
  <2>2. t \notin turns /\ episode[t] = "consolidated" /\ t \notin stranded
    BY <1>3, <2>1
  <2>3. PICK s \in summaries : t \in s
    BY <2>2 DEF NothingLost
  <2>4. CASE s \in whole \cup hit
    BY <1>3, <2>1, <2>3, <2>4
  <2>5. CASE s \notin whole \cup hit
    BY <1>3, <2>3, <2>5
  <2>6. QED
    BY <2>4, <2>5
<1>13. ASSUME ~overlapped
       PROVE  EpisodesHold' /\ \A f \in Facts : fact'[f].sources \cap forgotten' = {}
  <2>1. EpisodesHold
    BY <1>13
  <2>2. folds' = {}
    BY <1>1 DEF Stopped
  <2>3. EpisodesHold'
    <3>1. \A t \in Turns : episode'[t] # "none" => t \in entries'
      BY <1>1, <1>3, <1>5, <2>1 DEF EpisodesHold
    <3>2. \A t \in forgotten' : episode'[t] = "redacted"
      BY <1>3, <1>5, <2>1 DEF EpisodesHold, LtmTyped
    <3>3. \A s \in summaries' : s \cap forgotten' = {}
      BY <1>3, <1>7, <2>1 DEF EpisodesHold
    <3>4. QED
      BY <2>2, <3>1, <3>2, <3>3 DEF EpisodesHold
  <2>4. \A f \in Facts : fact[f].sources \cap forgotten = {}
    BY <1>1, <1>13, FactsAre
  <2>5. QED
    BY <1>3, <1>8, <2>3, <2>4
<1>14. ASSUME ~overlapped, ~cut
       PROVE  \A f \in Facts :
                   /\ fact'[f].mentions = Cardinality(fact'[f].sources)
                   /\ fact'[f].sources \subseteq entries
                   /\ \A g \in Facts \ {f} : fact'[f].sources \cap fact'[g].sources = {}
  <2>1. \A f \in Facts :
            /\ fact[f].mentions = Cardinality(fact[f].sources)
            /\ fact[f].sources \subseteq entries
            /\ \A g \in Facts \ {f} : fact[f].sources \cap fact[g].sources = {}
    BY <1>1, <1>14, FactsAre
  <2>2. \A f \in Facts : fact'[f].mentions = Cardinality(fact'[f].sources)
    BY <1>8, <2>1
  <2>3. QED
    BY <1>8, <2>1, <2>2
<1> HIDE DEF LtmInv
<1>15. QED
  BY <1>1, <1>8, <1>9, <1>10, <1>11, <1>12, <1>13, <1>14, StepOfFacts

\* Facts that no source states any more go.
LEMMA PurgeKeeps ==
    ASSUME LtmInv, Purge
    PROVE  LtmInv'
<1> USE DEF LtmInv
<1>1. /\ Stopped
      /\ UNCHANGED <<spoken, entries, episode, summaries, job, folds, forgotten, overlapped, cut,
                     bypassed, stranded>>
  BY DEF Purge, Order, ltmHistory, learning
<1>2. PICK stale \in SUBSET Shown(fact) :
         fact' = [f \in Facts |-> IF f \in stale THEN Tombstone(fact[f]) ELSE fact[f]]
  BY DEF Purge
<1>3. fact \in [Facts -> FactStates]
  BY DEF LtmTyped
<1>4. \A f \in Facts : \/ fact'[f] = fact[f]
                       \/ /\ fact'[f] \in FactStates /\ fact'[f].state = "redacted"
                          /\ fact'[f].mentions = 0 /\ fact'[f].sources = {}
  BY <1>2, <1>3, TombstoneIs
<1>5. fact' \in [Facts -> FactStates]
  BY <1>2, <1>3, <1>4
<1>6. LtmTyped'
  BY <1>1, <1>5 DEF LtmTyped
<1>7. SlotsHold'
  <2>1. Shown(fact') \subseteq Shown(fact)
    BY <1>4 DEF Shown
  <2>2. SUFFICES ASSUME NEW slot \in Slots, ~(\E f \in slot : fact'[f].state = "redacted")
                 PROVE  (\E f \in slot : fact'[f].state = "active") =>
                            slot \cap Shown(fact') # {}
    BY <1>1, <2>1 DEF SlotsHold
  <2>3. \A f \in slot : f \in Facts /\ fact'[f] = fact[f]
    BY <1>4, <2>2, LtmAssumption
  <2>4. slot \cap Shown(fact') = slot \cap Shown(fact)
    BY <2>3 DEF Shown
  <2>5. QED
    BY <2>2, <2>3, <2>4 DEF SlotsHold
<1>8. NothingLost' /\ (~overlapped => EpisodesHold')
  BY <1>1 DEF NothingLost, EpisodesHold
<1>9. Cardinality({}) = 0
  BY FS_EmptySet
<1>10. /\ \A f \in Facts :
             fact[f].state # "active" => fact[f].sources = {} /\ fact[f].mentions = 0
       /\ ~overlapped => \A f \in Facts : fact[f].sources \cap forgotten = {}
       /\ ~overlapped /\ ~cut =>
             \A f \in Facts :
                 /\ fact[f].mentions = Cardinality(fact[f].sources)
                 /\ fact[f].sources \subseteq entries
                 /\ \A g \in Facts \ {f} : fact[f].sources \cap fact[g].sources = {}
  BY <1>1, FactsAre
<1> HIDE DEF LtmInv
<1>11. QED
  BY <1>1, <1>4, <1>5, <1>6, <1>7, <1>8, <1>9, <1>10, StepOfFacts

\* A fact is merged into its canonical form.
LEMMA CanonicalizeKeeps ==
    ASSUME LtmInv, Canonicalize
    PROVE  LtmInv'
<1> USE DEF LtmInv
<1>1. /\ Stopped
      /\ UNCHANGED <<spoken, entries, episode, summaries, job, folds, forgotten, overlapped, cut,
                     stranded>>
  BY DEF Canonicalize, Order
<1>2. PICK f \in Shown(fact) :
         LET c == Canonical[f]
             merged == IF c \in Shown(fact)
                       THEN Fact("active", FALSE, fact[c].mentions + fact[f].mentions,
                                 Max({fact[c].seen, fact[f].seen}),
                                 fact[c].sources \cup fact[f].sources)
                       ELSE fact[f]
         IN  /\ c # f
             /\ fact' = [fact EXCEPT ![c] = merged, ![f] = Tombstone(@)]
             /\ bypassed' = (bypassed \/ c \notin Shown(fact))
  BY DEF Canonicalize
<1> DEFINE c == Canonical[f]
           both == Fact("active", FALSE, fact[c].mentions + fact[f].mentions,
                        Max({fact[c].seen, fact[f].seen}), fact[c].sources \cup fact[f].sources)
           merged == IF c \in Shown(fact) THEN both ELSE fact[f]
<1>3. /\ c # f /\ fact' = [fact EXCEPT ![c] = merged, ![f] = Tombstone(fact[f])]
      /\ bypassed' = (bypassed \/ c \notin Shown(fact))
  BY <1>2
<1>4. /\ f \in Facts /\ c \in Facts /\ fact \in [Facts -> FactStates]
      /\ fact[f].state = "active" /\ ~fact[f].hidden
      /\ fact[f] \in FactStates /\ fact[c] \in FactStates
  BY LtmAssumption DEF LtmTyped, Shown
<1> HIDE DEF c
<1>5. /\ both \in FactStates /\ both.state = "active" /\ ~both.hidden
      /\ both.mentions = fact[c].mentions + fact[f].mentions
      /\ both.sources = fact[c].sources \cup fact[f].sources
  <2>1. /\ fact[c].mentions \in Nat /\ fact[f].mentions \in Nat
        /\ fact[c].seen \in Turns \cup {0} /\ fact[f].seen \in Turns \cup {0}
        /\ fact[c].sources \in SUBSET Turns /\ fact[f].sources \in SUBSET Turns
    BY <1>4 DEF FactStates
  <2>2. fact[c].seen \in Nat /\ fact[f].seen \in Nat
    BY <2>1, LtmAssumption DEF Turns
  <2>3. Max({fact[c].seen, fact[f].seen}) \in Turns \cup {0}
    BY <2>1, <2>2, MaxOfTwo
  <2>4. fact[c].mentions + fact[f].mentions \in Nat
    BY <2>1
  <2>5. fact[c].sources \cup fact[f].sources \in SUBSET Turns
    BY <2>1
  <2> DEFINE n == fact[c].mentions + fact[f].mentions
             m == Max({fact[c].seen, fact[f].seen})
             s == fact[c].sources \cup fact[f].sources
  <2>6. /\ both = Fact("active", FALSE, n, m, s)
          /\ n \in Nat /\ m \in Turns \cup {0} /\ s \in SUBSET Turns
    BY <2>3, <2>4, <2>5
  <2> HIDE DEF n, m, s, both
  <2>7. /\ both \in FactStates /\ both.state = "active" /\ ~both.hidden
        /\ both.mentions = n /\ both.sources = s
    BY <2>6 DEF Fact, FactStates
  <2>8. QED
    BY <2>7 DEF n, s
<1> HIDE DEF both
<1>6. merged \in FactStates /\ merged.state = "active" /\ ~merged.hidden
  BY <1>4, <1>5
<1>7. merged.sources \subseteq fact[c].sources \cup fact[f].sources
  BY <1>5
<1>8. ASSUME ~overlapped, ~cut
      PROVE  merged.mentions = Cardinality(merged.sources)
  <2>1. /\ fact[f].mentions = Cardinality(fact[f].sources)
        /\ fact[c].mentions = Cardinality(fact[c].sources)
        /\ fact[c].sources \cap fact[f].sources = {}
    BY <1>1, <1>3, <1>4, <1>8, FactsAre
  <2>2. fact[c].sources \in SUBSET Turns /\ fact[f].sources \in SUBSET Turns
    BY <1>4 DEF FactStates
  <2>3. Cardinality(fact[c].sources \cup fact[f].sources)
            = Cardinality(fact[c].sources) + Cardinality(fact[f].sources)
    <3> DEFINE A == fact[c].sources
               B == fact[f].sources
    <3>1. A \in SUBSET Turns /\ B \in SUBSET Turns /\ A \cap B = {}
      BY <2>1, <2>2
    <3> HIDE DEF A, B
    <3>2. /\ IsFiniteSet(A) /\ IsFiniteSet(B)
          /\ Cardinality(A) \in Nat /\ Cardinality(B) \in Nat
      BY <3>1, TurnsAreFinite
    <3>3. Cardinality(A \cup B) = Cardinality(A) + Cardinality(B) - Cardinality(A \cap B)
      BY <3>2, FS_Union
    <3>4. Cardinality(A \cap B) = 0
      BY <3>1, FS_EmptySet
    <3>5. Cardinality(A \cup B) = Cardinality(A) + Cardinality(B)
      BY <3>2, <3>3, <3>4
    <3>6. QED
      BY <3>5 DEF A, B
  <2>4. QED
    BY <1>5, <2>1, <2>3
<1> HIDE DEF merged
<1>9. /\ fact' \in [Facts -> FactStates] /\ fact'[c] = merged
      /\ fact'[f].state = "redacted" /\ fact'[f].mentions = 0 /\ fact'[f].sources = {}
      /\ \A g \in Facts \ {c, f} : fact'[g] = fact[g]
  <2>1. /\ Tombstone(fact[f]) \in FactStates /\ Tombstone(fact[f]).state = "redacted"
        /\ Tombstone(fact[f]).mentions = 0 /\ Tombstone(fact[f]).sources = {}
    BY <1>4, TombstoneIs
  <2>2. QED
    BY <1>3, <1>4, <1>6, <2>1
<1>10. LtmTyped'
  BY <1>1, <1>9 DEF LtmTyped
<1>11. SlotsHold'
  <2>1. c \in Shown(fact')
    BY <1>4, <1>6, <1>9 DEF Shown
  <2>2. Shown(fact') \subseteq Shown(fact) \cup {c}
    BY <1>4, <1>9 DEF Shown
  <2>3. ASSUME ~bypassed'
        PROVE  ~bypassed /\ Shown(fact') \subseteq Shown(fact)
    BY <1>3, <2>2, <2>3
  <2>4. ASSUME NEW slot \in Slots, ~(\E g \in slot : fact'[g].state = "redacted"),
               \E g \in slot : fact'[g].state = "active"
        PROVE  slot \cap Shown(fact') # {}
    <3>1. f \notin slot /\ slot \subseteq Facts
      BY <1>9, <2>4, LtmAssumption
    <3>2. CASE c \in slot
      BY <2>1, <3>2
    <3>3. CASE c \notin slot
      <4>1. \A g \in slot : fact'[g] = fact[g]
        BY <1>9, <3>1, <3>3
      <4>2. slot \cap Shown(fact) # {}
        BY <2>4, <4>1 DEF SlotsHold
      <4>3. QED
        BY <3>1, <4>1, <4>2 DEF Shown
    <3>4. QED
      BY <3>2, <3>3
  <2>5. QED
    BY <2>3, <2>4 DEF SlotsHold
<1>12. NothingLost' /\ (~overlapped => EpisodesHold')
  BY <1>1 DEF NothingLost, EpisodesHold
<1>13. /\ \A g \in Facts :
              fact[g].state # "active" => fact[g].sources = {} /\ fact[g].mentions = 0
       /\ ~overlapped => \A g \in Facts : fact[g].sources \cap forgotten = {}
       /\ ~overlapped /\ ~cut =>
             \A g \in Facts :
                 /\ fact[g].mentions = Cardinality(fact[g].sources)
                 /\ fact[g].sources \subseteq entries
                 /\ \A h \in Facts \ {g} : fact[g].sources \cap fact[h].sources = {}
  BY <1>1, FactsAre
<1>14. \A g \in Facts : fact'[g].state # "active" =>
                           fact'[g].sources = {} /\ fact'[g].mentions = 0
  BY <1>6, <1>9, <1>13
<1>15. ~overlapped => \A g \in Facts : fact'[g].sources \cap forgotten' = {}
  BY <1>1, <1>4, <1>7, <1>9, <1>13
<1>16. ASSUME ~overlapped, ~cut
       PROVE  \A g \in Facts :
                  /\ fact'[g].mentions = Cardinality(fact'[g].sources)
                  /\ fact'[g].sources \subseteq entries
                  /\ \A h \in Facts \ {g} : fact'[g].sources \cap fact'[h].sources = {}
  <2>1. Cardinality({}) = 0
    BY FS_EmptySet
  <2>2. \A g \in Facts : fact'[g].mentions = Cardinality(fact'[g].sources)
    BY <1>8, <1>9, <1>13, <1>16, <2>1
  <2>3. \A g \in Facts : fact'[g].sources \subseteq entries
    BY <1>4, <1>7, <1>9, <1>13, <1>16
  <2>4. ASSUME NEW g \in Facts, NEW h \in Facts \ {g}
        PROVE  fact'[g].sources \cap fact'[h].sources = {}
    BY <1>4, <1>7, <1>9, <1>13, <1>16
  <2>5. QED
    BY <2>2, <2>3, <2>4
<1> HIDE DEF LtmInv
<1>17. QED
  BY <1>1, <1>9, <1>10, <1>11, <1>12, <1>14, <1>15, <1>16, StepOfFacts

\* What each fact was learned from is what it rests on, and not later than it was
\* last stated.
ToldHolds ==
    /\ told \in [Facts -> SUBSET Turns] /\ overwritten \in SUBSET Facts /\ unsure \in SUBSET Facts
    /\ \A f \in Facts :
          /\ fact[f].state # "active" => told[f] = {}
          /\ f \in unsure \/ \A u \in told[f] : u =< fact[f].seen
          /\ overlapped \/ f \in overwritten \/ fact[f].sources = told[f] \ forgotten

\* A value that is hidden was stated before another of its slot, or with it.
NewestHolds ==
    \A slot \in Slots : slot \cap unsure = {} =>
        \A f \in slot \ Shown(fact) : \A t \in told[f] :
            \E g \in slot \ {f} : \E u \in told[g] : t =< u

\* A step that learns nothing.
LEMMA NothingLearned ==
    ASSUME ToldHolds, NewestHolds, UNCHANGED <<fact, learning, forgotten>>,
           overlapped => overlapped'
    PROVE  ToldHolds' /\ NewestHolds'
<1>1. UNCHANGED <<fact, told, overwritten, unsure, forgotten>>
  BY DEF learning
<1>2. ToldHolds'
  BY <1>1 DEF ToldHolds
<1>3. NewestHolds'
  BY <1>1 DEF NewestHolds
<1>4. QED
  BY <1>2, <1>3

\* A fact is learned from a turn.
LEMMA FactLearned ==
    ASSUME ToldHolds, NewestHolds, fact \in [Facts -> FactStates], NEW f \in Facts,
           NEW known \in FactStates, NEW t \in Turns,
           known.state # "active" => known.sources = {} /\ known.mentions = 0,
           AssertFact(f, known, t), UNCHANGED <<forgotten, overlapped>>,
           overlapped \/ t \notin forgotten
    PROVE  ToldHolds' /\ NewestHolds'
<1>1. /\ fact' = Asserted(fact, f, known, t)
      /\ told' = [told EXCEPT ![f] = @ \cup {t}]
      /\ overwritten' =
            IF known.sources = fact[f].sources THEN overwritten ELSE overwritten \cup {f}
      /\ unsure' = IF \E u \in told[f] : u > t THEN unsure \cup {f} ELSE unsure
  BY DEF AssertFact
<1>2. /\ fact' \in [Facts -> FactStates]
      /\ fact'[f].state = "active" /\ ~fact'[f].hidden /\ fact'[f].seen = t
      /\ fact'[f].sources = known.sources \cup {t}
      /\ \A g \in Facts \ {f} :
            /\ fact'[g].state = fact[g].state /\ fact'[g].seen = fact[g].seen
            /\ fact'[g].sources = fact[g].sources
            /\ IF g \in Rivals(f) /\ fact[g].seen =< t THEN g \notin Shown(fact')
                                                       ELSE fact'[g] = fact[g]
  BY <1>1, AssertedIs
<1>3. /\ told' \in [Facts -> SUBSET Turns] /\ told'[f] = told[f] \cup {t}
      /\ \A g \in Facts \ {f} : told'[g] = told[g]
  BY <1>1 DEF ToldHolds
<1>4. /\ overwritten \subseteq overwritten' /\ overwritten' \in SUBSET Facts
      /\ unsure \subseteq unsure' /\ unsure' \in SUBSET Facts
  BY <1>1 DEF ToldHolds
<1>5. f \in unsure' \/ \A u \in told'[f] : u =< fact'[f].seen
  <2>1. told[f] \in SUBSET Nat /\ t \in Nat
    BY LtmAssumption DEF ToldHolds, Turns
  <2>2. QED
    BY <1>1, <1>2, <1>3, <2>1
<1>6. overlapped' \/ f \in overwritten' \/ fact'[f].sources = told'[f] \ forgotten'
  <2>1. SUFFICES ASSUME ~overlapped, f \notin overwritten'
                 PROVE  fact'[f].sources = told'[f] \ forgotten
    OBVIOUS
  <2>2. f \notin overwritten /\ known.sources = fact[f].sources
    BY <1>1, <2>1
  <2>3. fact[f].sources = told[f] \ forgotten /\ t \notin forgotten
    BY <2>1, <2>2 DEF ToldHolds
  <2>4. QED
    BY <1>2, <1>3, <2>2, <2>3
<1>7. ASSUME NEW g \in Facts \ {f}
      PROVE  /\ fact'[g].state # "active" => told'[g] = {}
             /\ g \in unsure' \/ \A u \in told'[g] : u =< fact'[g].seen
             /\ overlapped' \/ g \in overwritten' \/ fact'[g].sources = told'[g] \ forgotten'
  <2>1. /\ fact[g].state # "active" => told[g] = {}
        /\ g \in unsure \/ \A u \in told[g] : u =< fact[g].seen
        /\ overlapped \/ g \in overwritten \/ fact[g].sources = told[g] \ forgotten
    BY DEF ToldHolds
  <2>2. QED
    BY <1>2, <1>3, <1>4, <2>1
<1>8. ToldHolds'
  BY <1>2, <1>3, <1>4, <1>5, <1>6, <1>7 DEF ToldHolds
<1>9. NewestHolds'
  <2>1. SUFFICES ASSUME NEW slot \in Slots, slot \cap unsure' = {},
                        NEW r \in slot \ Shown(fact'), NEW v \in told'[r]
                 PROVE  \E g \in slot \ {r} : \E u \in told'[g] : v =< u
    BY DEF NewestHolds
  <2>2. slot \subseteq Facts /\ slot \cap unsure = {}
    BY <1>4, <2>1, LtmAssumption
  <2>3. r \in Facts \ {f} /\ v \in told[r]
    <3>1. f \in Shown(fact')
      BY <1>2 DEF Shown
    <3>2. QED
      BY <1>3, <2>1, <2>2, <3>1
  <2>4. \A g \in Facts : told[g] \subseteq told'[g]
    BY <1>3
  <2>5. CASE r \in Rivals(f) /\ fact[r].seen =< t
    <3>1. \A s \in Slots : f \in s /\ r \in s => s = slot
      BY <2>1, LtmAssumption
    <3>2. f \in slot
      BY <2>5, <3>1 DEF Rivals
    <3>3. v =< fact[r].seen
      BY <2>1, <2>2, <2>3 DEF ToldHolds
    <3>4. v \in Nat /\ t \in Nat /\ fact[r].seen \in Nat
      BY <2>3, LtmAssumption DEF ToldHolds, FactStates, Turns
    <3>5. v =< t
      BY <2>5, <3>3, <3>4
    <3>6. QED
      BY <1>3, <2>3, <3>2, <3>5
  <2>6. CASE ~(r \in Rivals(f) /\ fact[r].seen =< t)
    <3>1. r \in slot \ Shown(fact)
      BY <1>2, <2>1, <2>3, <2>6 DEF Shown
    <3>2. PICK g \in slot \ {r} : \E u \in told[g] : v =< u
      BY <2>2, <2>3, <3>1 DEF NewestHolds
    <3>3. QED
      BY <2>2, <2>4, <3>2
  <2>7. QED
    BY <2>5, <2>6
<1>10. QED
  BY <1>8, <1>9

\* The extractor answers, or the phrase is embedded.
LEMMA IngestLearns ==
    ASSUME LtmInv, ToldHolds, NewestHolds, NEW w \in Workers, Extracted(w) \/ Phrased(w)
    PROVE  ToldHolds' /\ NewestHolds'
<1>1. LtmTyped /\ JobsHold /\ DraftsHold
  BY DEF LtmInv
<1>2. job[w] # NoJob
  BY AtWork DEF Extracted, Phrased
<1> DEFINE t == Turn(w)
           f == Says[t]
<1>3. job[w] \in JobStates /\ t \in Turns /\ t = Min(job[w].left) /\ t \in job[w].left
  BY <1>1, <1>2, TurnIs
<1>4. UNCHANGED <<forgotten, overlapped>>
  BY DEF Extracted, Phrased
<1>5. overlapped \/ t \notin forgotten
  <2>1. SUFFICES ASSUME ~overlapped PROVE t \notin forgotten
    OBVIOUS
  <2>2. t \notin entries
    BY <1>2, <1>3, <2>1 DEF LtmInv, JobsApart
  <2>3. forgotten \subseteq entries
    BY <2>1 DEF LtmInv, EpisodesHold, LtmTyped
  <2>4. QED
    BY <2>2, <2>3
<1>6. fact \in [Facts -> FactStates] /\ f \in Facts \cup {Nothing}
  BY <1>1, <1>3, LtmAssumption DEF LtmTyped
<1>7. ASSUME NEW known \in FactStates, f \in Facts, known \in Drafts(fact, job, f),
             AssertFact(f, known, t)
      PROVE  ToldHolds' /\ NewestHolds'
  <2>1. known.state # "active" => known.sources = {} /\ known.mentions = 0
    BY <1>1, <1>7 DEF DraftsHold
  <2> HIDE DEF t, f
  <2>2. QED
    BY <1>3, <1>4, <1>5, <1>6, <1>7, <2>1, FactLearned
<1>8. CASE Extracted(w) /\ UNCHANGED <<fact, learning>>
  BY <1>4, <1>8, NothingLearned
<1>9. CASE /\ Extracted(w) /\ f # Nothing /\ AssertFact(f, fact[f], t)
  <2>1. f \in Facts /\ fact[f] \in FactStates /\ fact[f] \in Drafts(fact, job, f)
    BY <1>6, <1>9 DEF Drafts
  <2>2. QED
    BY <1>7, <1>9, <2>1
<1>10. CASE Phrased(w)
  <2>1. job[w].stage = "phrase" /\ AssertFact(f, job[w].known, t)
    BY <1>10 DEF Phrased
  <2>2. f \in Facts /\ job[w].known \in FactStates /\ job[w].known \in Drafts(fact, job, f)
    BY <1>1, <1>2, <1>3, <2>1 DEF JobsHold, JobStates, Drafts
  <2>3. QED
    BY <1>7, <2>1, <2>2
<1>11. QED
  BY <1>8, <1>9, <1>10 DEF Extracted

\* Commands that make facts go, and leave the others what they were learned from.
LEMMA FactsGo ==
    ASSUME ToldHolds, NewestHolds,
           \A f \in Facts : fact'[f].seen = fact[f].seen /\ fact'[f].hidden = fact[f].hidden,
           told' = ToldOf(fact'), overwritten' = overwritten, unsure' \in SUBSET Facts,
           unsure \subseteq unsure', overlapped' = overlapped,
           \A f \in Facts \ unsure' : fact'[f].state = fact[f].state,
           forgotten \subseteq forgotten',
           \A f \in Facts : IF fact'[f].state = "active"
                            THEN overlapped \/ fact'[f].sources = fact[f].sources \ forgotten'
                            ELSE fact'[f].sources = {}
    PROVE  ToldHolds' /\ NewestHolds'
<1>1. /\ told' \in [Facts -> SUBSET Turns]
      /\ \A f \in Facts : told'[f] = IF fact'[f].state = "active" THEN told[f] ELSE {}
  BY DEF ToldOf, ToldHolds
<1>2. ASSUME NEW f \in Facts
      PROVE  /\ fact'[f].state # "active" => told'[f] = {}
             /\ f \in unsure' \/ \A u \in told'[f] : u =< fact'[f].seen
             /\ overlapped' \/ f \in overwritten' \/ fact'[f].sources = told'[f] \ forgotten'
  <2>1. /\ fact[f].state # "active" => told[f] = {}
        /\ f \in unsure \/ \A u \in told[f] : u =< fact[f].seen
        /\ overlapped \/ f \in overwritten \/ fact[f].sources = told[f] \ forgotten
    BY DEF ToldHolds
  <2>2. CASE fact'[f].state = "active"
    <3>1. told'[f] = told[f]
      BY <1>1, <2>2
    <3>2. overlapped \/ fact'[f].sources = fact[f].sources \ forgotten'
      BY <2>2
    <3>3. QED
      BY <2>1, <2>2, <3>1, <3>2
  <2>3. CASE fact'[f].state # "active"
    <3>1. told'[f] = {} /\ fact'[f].sources = {}
      BY <1>1, <2>3
    <3>2. QED
      BY <2>3, <3>1
  <2>4. QED
    BY <2>2, <2>3
<1>3. ToldHolds'
  BY <1>1, <1>2 DEF ToldHolds
<1>4. NewestHolds'
  <2>1. SUFFICES ASSUME NEW slot \in Slots, slot \cap unsure' = {},
                        NEW f \in slot \ Shown(fact'), NEW t \in told'[f]
                 PROVE  \E g \in slot \ {f} : \E u \in told'[g] : t =< u
    BY DEF NewestHolds
  <2>2. slot \subseteq Facts /\ slot \cap unsure = {}
    BY <2>1, LtmAssumption
  <2>3. \A g \in slot : /\ fact'[g].state = fact[g].state
                         /\ fact'[g].hidden = fact[g].hidden /\ told'[g] = told[g]
    BY <1>1, <2>1, <2>2 DEF ToldHolds
  <2>4. f \notin Shown(fact) /\ t \in told[f]
    BY <2>1, <2>2, <2>3 DEF Shown
  <2>5. PICK g \in slot \ {f} : \E u \in told[g] : t =< u
    BY <2>1, <2>2, <2>4 DEF NewestHolds
  <2>6. QED
    BY <2>3, <2>5
<1>5. QED
  BY <1>3, <1>4

\* Turns are redacted.
LEMMA RedactLearns ==
    ASSUME LtmInv, ToldHolds, NewestHolds, Redact
    PROVE  ToldHolds' /\ NewestHolds'
<1>1. Stopped /\ UNCHANGED <<overlapped, overwritten>>
  BY DEF Redact, Order
<1>2. PICK turns \in SUBSET Turns :
         /\ fact' = WithoutSources(fact, turns) /\ forgotten' = forgotten \cup turns
         /\ told' = ToldOf(fact') /\ unsure' = unsure \cup Gone(fact')
  <2>1. PICK gone \in {{t} : t \in Turns} \cup {Of(c, Turns) : c \in Talkers} :
           LET turns == {t \in gone : episode[t] \in {"active", "consolidated"}}
           IN  /\ fact' = WithoutSources(fact, turns) /\ forgotten' = forgotten \cup turns
               /\ told' = ToldOf(fact') /\ unsure' = unsure \cup Gone(fact')
    BY DEF Redact
  <2>2. gone \in SUBSET Turns
    BY DEF Of
  <2>3. QED
    BY <2>1, <2>2
<1>3. ASSUME NEW f \in Facts
      PROVE  /\ fact'[f].seen = fact[f].seen /\ fact'[f].hidden = fact[f].hidden
             /\ f \in unsure' \/ fact'[f].state = fact[f].state
             /\ IF fact'[f].state = "active"
                THEN overlapped \/ fact'[f].sources = fact[f].sources \ forgotten'
                ELSE fact'[f].sources = {}
  <2>1. /\ fact[f] \in FactStates
        /\ fact[f].state # "active" => fact[f].sources = {}
        /\ overlapped \/ fact[f].sources \cap forgotten = {}
    BY <1>1, FactsAre
  <2>2. CASE fact[f].state # "active" \/ fact[f].sources \cap turns = {}
    <3>1. fact'[f] = fact[f]
      BY <1>2, <2>2 DEF WithoutSources
    <3>2. QED
      BY <1>2, <2>1, <2>2, <3>1
  <2>3. CASE /\ ~(fact[f].state # "active" \/ fact[f].sources \cap turns = {})
             /\ fact[f].sources \subseteq turns
    <3>1. fact'[f] = Tombstone(fact[f])
      BY <1>2, <2>3 DEF WithoutSources
    <3>2. /\ fact'[f].state = "redacted" /\ fact'[f].sources = {}
          /\ fact'[f].seen = fact[f].seen /\ fact'[f].hidden = fact[f].hidden
      BY <2>1, <3>1 DEF Tombstone, FactStates
    <3>3. f \in unsure'
      BY <1>2, <2>3, <3>2 DEF Gone
    <3>4. QED
      BY <3>2, <3>3
  <2>4. CASE /\ ~(fact[f].state # "active" \/ fact[f].sources \cap turns = {})
             /\ ~(fact[f].sources \subseteq turns)
    <3>1. fact'[f] = [fact[f] EXCEPT !.sources = @ \ turns,
                                     !.mentions = Cardinality(fact[f].sources \ turns)]
      BY <1>2, <2>4 DEF WithoutSources
    <3>2. /\ fact'[f].state = fact[f].state /\ fact'[f].sources = fact[f].sources \ turns
          /\ fact'[f].seen = fact[f].seen /\ fact'[f].hidden = fact[f].hidden
      BY <2>1, <3>1 DEF FactStates
    <3>3. QED
      BY <1>2, <2>1, <2>4, <3>2
  <2>5. QED
    BY <2>2, <2>3, <2>4
<1>4. unsure' \in SUBSET Facts
  BY <1>2 DEF Gone, ToldHolds
<1>5. QED
  BY <1>1, <1>2, <1>3, <1>4, FactsGo

\* Facts that no source states any more go.
LEMMA PurgeLearns ==
    ASSUME LtmInv, ToldHolds, NewestHolds, Purge
    PROVE  ToldHolds' /\ NewestHolds'
<1>1. Stopped /\ UNCHANGED <<overlapped, overwritten, forgotten>>
  BY DEF Purge, Order
<1>2. PICK stale \in SUBSET Shown(fact) :
         /\ fact' = [f \in Facts |-> IF f \in stale THEN Tombstone(fact[f]) ELSE fact[f]]
         /\ told' = ToldOf(fact') /\ unsure' = unsure \cup stale
  BY DEF Purge
<1>3. ASSUME NEW f \in Facts
      PROVE  /\ fact'[f].seen = fact[f].seen /\ fact'[f].hidden = fact[f].hidden
             /\ f \in unsure' \/ fact'[f].state = fact[f].state
             /\ IF fact'[f].state = "active"
                THEN overlapped \/ fact'[f].sources = fact[f].sources \ forgotten'
                ELSE fact'[f].sources = {}
  <2>1. /\ fact[f] \in FactStates
        /\ fact[f].state # "active" => fact[f].sources = {}
        /\ overlapped \/ fact[f].sources \cap forgotten = {}
    BY <1>1, FactsAre
  <2>2. CASE f \in stale
    <3>1. fact'[f] = Tombstone(fact[f])
      BY <1>2, <2>2
    <3>2. QED
      BY <1>2, <2>1, <2>2, <3>1 DEF Tombstone, FactStates
  <2>3. CASE f \notin stale
    <3>1. fact'[f] = fact[f]
      BY <1>2, <2>3
    <3>2. QED
      BY <1>1, <2>1, <3>1
  <2>4. QED
    BY <2>2, <2>3
<1>4. unsure' \in SUBSET Facts
  BY <1>2 DEF Shown, ToldHolds
<1>5. QED
  BY <1>1, <1>2, <1>3, <1>4, FactsGo

\* A fact is merged into its canonical form, with what it was learned from.
LEMMA CanonicalizeLearns ==
    ASSUME LtmInv, ToldHolds, NewestHolds, Canonicalize
    PROVE  ToldHolds' /\ NewestHolds'
<1>1. UNCHANGED <<overlapped, forgotten>>
  BY DEF Canonicalize, Order
<1>2. PICK f \in Shown(fact) :
         LET c == Canonical[f]
             merged == IF c \in Shown(fact)
                       THEN Fact("active", FALSE, fact[c].mentions + fact[f].mentions,
                                 Max({fact[c].seen, fact[f].seen}),
                                 fact[c].sources \cup fact[f].sources)
                       ELSE fact[f]
         IN  /\ c # f
             /\ fact' = [fact EXCEPT ![c] = merged, ![f] = Tombstone(@)]
             /\ told' = [told EXCEPT ![c] = IF c \in Shown(fact) THEN @ \cup told[f]
                                           ELSE told[f],
                                     ![f] = {}]
             /\ overwritten' = IF f \in overwritten THEN overwritten \cup {c} ELSE overwritten
             /\ unsure' = unsure \cup {f} \cup
                             IF c \in Shown(fact) /\ f \notin unsure THEN {} ELSE {c}
  BY DEF Canonicalize
<1> DEFINE c == Canonical[f]
           both == Fact("active", FALSE, fact[c].mentions + fact[f].mentions,
                        Max({fact[c].seen, fact[f].seen}), fact[c].sources \cup fact[f].sources)
           merged == IF c \in Shown(fact) THEN both ELSE fact[f]
           from == IF c \in Shown(fact) THEN told[c] \cup told[f] ELSE told[f]
<1>3. /\ f \in Facts /\ c \in Facts /\ fact \in [Facts -> FactStates]
      /\ fact[f].state = "active" /\ ~fact[f].hidden
      /\ fact[f] \in FactStates /\ fact[c] \in FactStates
  BY LtmAssumption DEF LtmInv, LtmTyped, Shown
<1>4. /\ c # f /\ fact' = [fact EXCEPT ![c] = merged, ![f] = Tombstone(fact[f])]
      /\ told' = [told EXCEPT ![c] = from, ![f] = {}]
      /\ overwritten' = IF f \in overwritten THEN overwritten \cup {c} ELSE overwritten
      /\ unsure' = unsure \cup {f} \cup
                      IF c \in Shown(fact) /\ f \notin unsure THEN {} ELSE {c}
  BY <1>2, <1>3 DEF ToldHolds
<1> HIDE DEF c
<1>5. /\ overwritten \subseteq overwritten' /\ (f \in overwritten => c \in overwritten')
      /\ overwritten' \in SUBSET Facts
      /\ unsure \subseteq unsure' /\ f \in unsure' /\ unsure' \in SUBSET Facts
      /\ c \notin unsure' => c \in Shown(fact) /\ c \notin unsure /\ f \notin unsure
  BY <1>3, <1>4 DEF ToldHolds
<1>6. /\ both.state = "active" /\ ~both.hidden /\ both.seen = Max({fact[c].seen, fact[f].seen})
      /\ both.sources = fact[c].sources \cup fact[f].sources
  BY DEF Fact
<1>7. fact[c].seen =< both.seen /\ fact[f].seen =< both.seen /\ both.seen \in Nat
  <2>1. fact[c].seen \in Nat /\ fact[f].seen \in Nat
    BY <1>3, LtmAssumption DEF FactStates, Turns
  <2>2. QED
    BY <1>6, <2>1, MaxOfTwo
<1> HIDE DEF both
<1>8. merged.state = "active" /\ ~merged.hidden
  BY <1>3, <1>6
<1> DEFINE kept == merged
<1>9. /\ fact'[c] = kept /\ fact'[f] = Tombstone(fact[f])
      /\ \A g \in Facts \ {c, f} : fact'[g] = fact[g]
  <2> HIDE DEF merged
  <2>1. QED
    BY <1>3, <1>4
<1> HIDE DEF kept
<1>10. /\ told'[c] = from /\ told'[f] = {} /\ told' \in [Facts -> SUBSET Turns]
       /\ \A g \in Facts \ {c, f} : told'[g] = told[g]
  <2>1. told \in [Facts -> SUBSET Turns] /\ from \in SUBSET Turns
    BY <1>3 DEF ToldHolds
  <2> HIDE DEF from
  <2>2. QED
    BY <1>3, <1>4, <2>1
<1>11. /\ fact'[f].state = "redacted" /\ fact'[f].sources = {}
  BY <1>3, <1>9, TombstoneIs
<1>12. /\ c \in unsure' \/ \A u \in told'[c] : u =< fact'[c].seen
       /\ overlapped' \/ c \in overwritten' \/ fact'[c].sources = told'[c] \ forgotten'
  <2>1. /\ c \in unsure \/ \A u \in told[c] : u =< fact[c].seen
        /\ f \in unsure \/ \A u \in told[f] : u =< fact[f].seen
        /\ overlapped \/ c \in overwritten \/ fact[c].sources = told[c] \ forgotten
        /\ overlapped \/ f \in overwritten \/ fact[f].sources = told[f] \ forgotten
    BY <1>3 DEF ToldHolds
  <2>2. CASE c \in Shown(fact)
    <3>1. fact'[c] = both /\ told'[c] = told[c] \cup told[f]
      BY <1>9, <1>10, <2>2 DEF kept
    <3>2. c \in unsure' \/ \A u \in told'[c] : u =< fact'[c].seen
      <4>1. SUFFICES ASSUME c \notin unsure', NEW u \in told'[c]
                     PROVE  u =< fact'[c].seen
        OBVIOUS
      <4>2. u =< fact[c].seen \/ u =< fact[f].seen
        BY <1>5, <2>1, <3>1, <4>1
      <4>3. u \in Nat /\ fact[c].seen \in Nat /\ fact[f].seen \in Nat
        BY <1>3, <1>10, <4>1, LtmAssumption DEF FactStates, Turns
      <4>4. QED
        BY <1>7, <3>1, <4>2, <4>3
    <3>3. overlapped' \/ c \in overwritten' \/ fact'[c].sources = told'[c] \ forgotten'
      BY <1>1, <1>5, <1>6, <2>1, <3>1
    <3>4. QED
      BY <3>2, <3>3
  <2>3. CASE c \notin Shown(fact)
    <3>1. fact'[c] = fact[f] /\ told'[c] = told[f] /\ c \in unsure'
      BY <1>5, <1>9, <1>10, <2>3 DEF kept
    <3>2. QED
      BY <1>1, <1>5, <2>1, <3>1
  <2>4. QED
    BY <2>2, <2>3
<1>13. ToldHolds'
  <2>1. \A g \in Facts \ {c, f} :
           /\ fact'[g].state # "active" => told'[g] = {}
           /\ g \in unsure' \/ \A u \in told'[g] : u =< fact'[g].seen
           /\ overlapped' \/ g \in overwritten' \/ fact'[g].sources = told'[g] \ forgotten'
    BY <1>1, <1>5, <1>9, <1>10 DEF ToldHolds
  <2>2. fact'[c].state = "active"
    BY <1>8, <1>9 DEF kept
  <2>3. QED
    BY <1>5, <1>10, <1>11, <1>12, <2>1, <2>2 DEF ToldHolds
<1>14. NewestHolds'
  <2>1. SUFFICES ASSUME NEW slot \in Slots, slot \cap unsure' = {},
                        NEW r \in slot \ Shown(fact'), NEW t \in told'[r]
                 PROVE  \E g \in slot \ {r} : \E u \in told'[g] : t =< u
    BY DEF NewestHolds
  <2>2. slot \subseteq Facts /\ slot \cap unsure = {} /\ f \notin slot
    BY <1>5, <2>1, LtmAssumption
  <2>3. c \in Shown(fact')
    BY <1>3, <1>8, <1>9 DEF kept, Shown
  <2>4. r \in slot \ {c, f} /\ r \notin Shown(fact) /\ t \in told[r]
    BY <1>9, <1>10, <2>1, <2>2, <2>3 DEF Shown
  <2>5. PICK g \in slot \ {r} : \E u \in told[g] : t =< u
    BY <2>2, <2>4 DEF NewestHolds
  <2>6. told[g] \subseteq told'[g]
    <3>1. CASE g = c
      <4>1. c \in Shown(fact)
        BY <1>5, <2>1, <2>5, <3>1
      <4>2. QED
        BY <1>10, <3>1, <4>1
    <3>2. CASE g # c
      BY <1>10, <2>2, <2>5, <3>2
    <3>3. QED
      BY <3>1, <3>2
  <2>7. QED
    BY <2>5, <2>6
<1>15. QED
  BY <1>13, <1>14

\* Nothing was said yet; what older programs learned is shown.
LEMMA LtmInitInvariant == LtmInit => LtmInv /\ ToldHolds /\ NewestHolds
<1> SUFFICES ASSUME LtmInit PROVE LtmInv /\ ToldHolds /\ NewestHolds
  OBVIOUS
<1>1. /\ spoken = {} /\ entries = {} /\ summaries = {} /\ folds = {} /\ forgotten = {}
      /\ episode = [t \in Turns |-> "none"] /\ job = [w \in Workers |-> NoJob]
      /\ fact = [f \in Facts |-> IF f \in Legacy THEN Fact("active", FALSE, 0, 0, {})
                                 ELSE Unknown]
  BY DEF LtmInit
<1>2. /\ Fact("active", FALSE, 0, 0, {}) \in FactStates /\ Unknown \in FactStates
      /\ Unknown.state = "none" /\ Fact("active", FALSE, 0, 0, {}).state = "active"
      /\ ~Fact("active", FALSE, 0, 0, {}).hidden
      /\ Unknown.mentions = 0 /\ Fact("active", FALSE, 0, 0, {}).mentions = 0
      /\ Unknown.sources = {} /\ Fact("active", FALSE, 0, 0, {}).sources = {}
  BY DEF Unknown, Fact, FactStates
<1>3. Stopped
  BY <1>1 DEF Stopped
<1>4. /\ \A f \in Facts : Drafts(fact, job, f) = {fact[f]}
      /\ \A f \in Facts : fact[f].mentions = 0 /\ fact[f].sources = {}
  BY <1>1, <1>2, <1>3, StoppedDrafts
<1>5. LtmTyped
  BY <1>1, <1>2 DEF LtmTyped
<1>6. JobsHold /\ JobsApart /\ EpisodesHold /\ NothingLost
  BY <1>1 DEF JobsHold, JobsApart, EpisodesHold, NothingLost
<1>7. DraftsHold /\ DraftsForget
  BY <1>4 DEF DraftsHold, DraftsForget
<1>8. CountedOnce
  <2>1. Cardinality({}) = 0
    BY FS_EmptySet
  <2>2. QED
    BY <1>4, <2>1 DEF CountedOnce
<1>9. SlotsHold
  <2>1. Shown(fact) = Legacy /\ \A f \in Facts : fact[f].state = "active" => f \in Legacy
    BY <1>1, <1>2, LtmAssumption DEF Shown
  <2>2. QED
    BY <2>1, LtmAssumption DEF SlotsHold
<1>10. LtmInv
  BY <1>5, <1>6, <1>7, <1>8, <1>9 DEF LtmInv
<1>11. /\ told = [f \in Facts |-> {}] /\ overwritten = {} /\ unsure = {}
  BY DEF LtmInit
<1>12. ToldHolds
  BY <1>1, <1>4, <1>11 DEF ToldHolds
<1>13. NewestHolds
  BY <1>11, LtmAssumption DEF NewestHolds
<1>14. QED
  BY <1>10, <1>12, <1>13

\* Each step of ingests, of the consolidation and of the commands.
LEMMA LtmStepInvariant ==
    LtmInv /\ ToldHolds /\ NewestHolds /\ [LtmNext]_ltmVars
        => LtmInv' /\ ToldHolds' /\ NewestHolds'
<1> SUFFICES ASSUME LtmInv, ToldHolds, NewestHolds, [LtmNext]_ltmVars
             PROVE  LtmInv' /\ ToldHolds' /\ NewestHolds'
  OBVIOUS
<1>1. CASE UNCHANGED ltmVars
  <2>1. LtmInv'
    BY <1>1 DEF ltmVars, ltmHistory, learning, LtmInv, LtmTyped, JobsHold, DraftsHold,
       JobsApart, EpisodesHold, DraftsForget, CountedOnce, SlotsHold, NothingLost
  <2>2. UNCHANGED <<fact, learning, forgotten, overlapped>>
    BY <1>1 DEF ltmVars, ltmHistory
  <2>3. QED
    BY <2>1, <2>2, NothingLearned
<1>2. CASE Speak
  <2>1. UNCHANGED <<fact, learning, forgotten, overlapped>>
    BY <1>2 DEF Speak, ltmHistory
  <2>2. QED
    BY <1>2, <2>1, SpeakKeeps, NothingLearned
<1>3. ASSUME NEW w \in Workers, NEW c \in Talkers, StartIngest(w, c)
      PROVE  LtmInv' /\ ToldHolds' /\ NewestHolds'
  <2>1. UNCHANGED <<fact, learning, forgotten>> /\ (overlapped => overlapped')
    BY <1>3 DEF StartIngest
  <2>2. QED
    BY <1>3, <2>1, StartIngestKeeps, NothingLearned
<1>4. ASSUME NEW w \in Workers, Extracted(w) \/ Phrased(w)
      PROVE  LtmInv' /\ ToldHolds' /\ NewestHolds'
  BY <1>4, ExtractedKeeps, PhrasedKeeps, IngestLearns
<1>5. ASSUME NEW w \in Workers, Embedded(w)
      PROVE  LtmInv' /\ ToldHolds' /\ NewestHolds'
  <2>1. UNCHANGED <<fact, learning, forgotten, overlapped>>
    BY <1>5 DEF Embedded, ltmHistory
  <2>2. QED
    BY <1>5, <2>1, EmbeddedGoesOn, EmbeddedEnds, NothingLearned
<1>6. CASE Stop \/ \E w \in Workers : Fails(w)
  <2>1. UNCHANGED <<fact, learning, forgotten, overlapped>>
    BY <1>6 DEF Stop, Fails
  <2>2. QED
    BY <1>6, <2>1, CutsKeep, NothingLearned
<1>7. CASE (\E c \in Talkers : FoldStart(c)) \/ (\E g \in folds : FoldEnd(g))
  <2>1. UNCHANGED <<fact, learning, forgotten, overlapped>>
    BY <1>7 DEF FoldStart, FoldEnd, ltmHistory
  <2>2. QED
    BY <1>7, <2>1, FoldsKeep, NothingLearned
<1>8. CASE Redact \/ Purge \/ Canonicalize
  BY <1>8, RedactKeeps, PurgeKeeps, CanonicalizeKeeps, RedactLearns, PurgeLearns,
     CanonicalizeLearns
<1>9. QED
  BY <1>1, <1>2, <1>3, <1>4, <1>5, <1>6, <1>7, <1>8 DEF LtmNext

\* What the store knows is what was said to it.
LEMMA LtmInvariantSuffices == LtmInv /\ ToldHolds /\ NewestHolds => LtmTypeOK /\ LtmSound
<1> SUFFICES ASSUME LtmInv, ToldHolds, NewestHolds PROVE LtmTypeOK /\ LtmSound
  OBVIOUS
<1> USE DEF LtmInv
<1>1. LtmTypeOK
  <2>1. \A x \in FactStates : FactOK(x)
    BY DEF FactStates, FactOK
  <2>2. DOMAIN fact = Facts /\ \A f \in Facts : FactOK(fact[f])
    BY <2>1 DEF LtmTyped
  <2>3. ASSUME NEW w \in Workers, job[w] # NoJob
        PROVE  /\ job[w].stage \in {"extract", "phrase", "embed"}
               /\ job[w].left # {} /\ FactOK(job[w].known)
               /\ job[w].seen \cup job[w].left \cup job[w].done \subseteq Of(job[w].chat, spoken)
    <3>1. job[w] \in JobStates
      BY <2>3 DEF LtmTyped
    <3>2. QED
      BY <2>1, <2>3, <3>1 DEF JobStates, JobsHold
  <2>4. QED
    BY <2>2, <2>3 DEF LtmTypeOK, LtmTyped, ToldHolds
<1>2. \A f \in Facts : fact[f] \in Drafts(fact, job, f)
  BY DEF Drafts
<1>3. LearnedOnce
  <2>1. SUFFICES ASSUME ~overlapped, NEW f \in Facts \ overwritten
                 PROVE  /\ fact[f].sources = told[f] \ forgotten
                        /\ cut \/ fact[f].mentions = Cardinality(told[f] \ forgotten)
    BY DEF LearnedOnce
  <2>2. fact[f].sources = told[f] \ forgotten
    BY <2>1 DEF ToldHolds
  <2>3. cut \/ fact[f].mentions = Cardinality(fact[f].sources)
    BY <1>2, <2>1 DEF CountedOnce
  <2>4. QED
    BY <2>2, <2>3
<1>4. OneValuePerSlot
  <2>1. ASSUME NEW S, \A f, g \in S : f = g
        PROVE  Cardinality(S) =< 1
    <3>1. CASE S = {}
      BY <3>1, FS_EmptySet
    <3>2. CASE S # {}
      <4>1. PICK f \in S : S = {f}
        BY <2>1, <3>2
      <4>2. QED
        BY <4>1, FS_Singleton
    <3>3. QED
      BY <3>1, <3>2
  <2>2. ASSUME NEW slot \in Slots
        PROVE  bypassed \/ Cardinality(slot \cap Shown(fact)) =< 1
    BY <2>1 DEF SlotsHold
  <2>3. QED
    BY <2>2 DEF OneValuePerSlot, SlotsHold
<1>5. StaysForgotten
  BY <1>2 DEF StaysForgotten, EpisodesHold, DraftsForget, Shown
<1>6. NewestShows
  <2>1. SUFFICES ASSUME NEW slot \in Slots, slot \cap unsure = {},
                        NEW f \in Newest(slot), f \notin Shown(fact)
                 PROVE  FALSE
    BY DEF NewestShows
  <2>2. PICK t \in told[f] : \A g \in slot \ {f} : \A u \in told[g] : u < t
    BY <2>1 DEF Newest
  <2>3. f \in slot /\ slot \subseteq Facts
    BY <2>1, LtmAssumption DEF Newest
  <2>4. PICK g \in slot \ {f} : \E u \in told[g] : t =< u
    BY <2>1, <2>2, <2>3 DEF NewestHolds
  <2>5. PICK u \in told[g] : t =< u
    BY <2>4
  <2>6. u < t /\ u \in Nat /\ t \in Nat
    BY <2>2, <2>3, <2>4, <2>5, LtmAssumption DEF ToldHolds, Turns
  <2>7. QED
    BY <2>5, <2>6
<1>7. QED
  BY <1>1, <1>3, <1>4, <1>5, <1>6 DEF LtmSound

-----------------------------------------------------------------------------
(* What a prompt remembers.                                                *)

Dims == {"live", "old"}
NoteStates == [state : {"active", "redacted"}, dim : Dims, count : Nat, logged : Nat]
KnownStates == [state : {"active", "dormant", "hidden"}, dim : Dims, count : Nat, logged : Nat]
IndexStates == [notes : SUBSET Notes, dim : Dims]
Covering == SUBSET {NoteFile[n] : n \in Notes}
CallStates ==
    {NoCall}
    \cup [stage : {"search"}, passes : 1..2, covered : Covering, hits : SUBSET Memories,
          dead : SUBSET Notes]
    \cup [stage : {"rank"}, passes : 0..2, covered : Covering, hits : SUBSET Memories,
          dead : SUBSET Notes, index : IndexStates, profile : SUBSET Known]
    \cup [stage : {"promote"}, passes : 0..2, covered : Covering, hits : SUBSET Memories,
          dead : SUBSET Notes, ranked : SUBSET Notes, facts : SUBSET Known,
          stale : SUBSET Known]
    \cup [stage : {"answered"}, covered : Covering, hits : SUBSET Memories,
          dead : SUBSET Notes]

RecallTyped ==
    /\ DOMAIN mem = Memories
    /\ \A n \in Notes : mem[n] \in NoteStates
    /\ \A f \in Known : mem[f] \in KnownStates
    /\ retriever \in IndexStates /\ attached \in BOOLEAN
    /\ recording \subseteq Notes /\ pruned \subseteq Notes
    /\ call \in [Askers -> CallStates]

\* No call has in hand, or has found, what was redacted before it began.
Clean(one) ==
    one # NoCall =>
        /\ one.dead \subseteq pruned /\ one.hits \cap one.dead = {}
        /\ one.stage = "promote" => one.ranked \cap one.dead = {}

DeadStayDead ==
    /\ \A n \in pruned : mem[n].state = "redacted"
    /\ \A c \in Askers : Clean(call[c])

\* The greatest power of two up to a count has been logged, or a later count.
LoggedAt(rec, p) ==
    PowerOfTwo(p) /\ p =< rec.logged /\ rec.logged =< rec.count /\ rec.count < 2 * p

CountHeld(rec) ==
    (rec.count = 0 /\ rec.logged = 0) \/ \E p \in Nat : LoggedAt(rec, p)

RecallInv == RecallTyped /\ DeadStayDead /\ \A m \in Memories : CountHeld(mem[m])

\* Twice a power of two is one.
LEMMA PowerDoubles ==
    ASSUME NEW p \in Nat, PowerOfTwo(p)
    PROVE  PowerOfTwo(2 * p)
<1>1. SUFFICES ASSUME NEW d \in 1..(2 * p), (2 * p) % d = 0, d % 2 # 0 PROVE d = 1
  BY DEF PowerOfTwo
<1> DEFINE q == (2 * p) \div d
           e == d \div 2
           r == p - e * q
<1>2. d \in Nat \ {0} /\ q \in Nat /\ 2 * p = d * q
  BY <1>1
<1>3. e \in Nat /\ d = 2 * e + 1
  BY <1>1
<1> HIDE DEF q, e
<1>4. 2 * p = 2 * (e * q) + q /\ e * q \in Nat
  BY <1>2, <1>3
<1>5. r \in Nat /\ q = 2 * r
  BY <1>2, <1>4
<1> HIDE DEF r
<1>6. p = d * r
  <2>1. 2 * p = d * (2 * r)
    BY <1>2, <1>5
  <2>2. d * (2 * r) = 2 * (d * r) /\ d * r \in Nat
    BY <1>2, <1>5
  <2>3. QED
    BY <2>1, <2>2
<1>7. p % d = 0
  BY <1>2, <1>5, <1>6
<1>8. d =< p
  <2>1. r # 0
    BY <1>1, <1>2, <1>5, <1>6
  <2>2. QED
    BY <1>2, <1>5, <1>6, <2>1
<1>9. QED
  BY <1>1, <1>2, <1>7, <1>8 DEF PowerOfTwo

Records == [state : {"active", "redacted", "dormant", "hidden"}, dim : Dims, count : Nat,
            logged : Nat]

\* One more rehearsal changes the count, and the log at a power of two.
LEMMA BumpKeeps ==
    ASSUME NEW rec \in Records, CountHeld(rec)
    PROVE  /\ Bumped(rec) \in Records /\ CountHeld(Bumped(rec))
           /\ Bumped(rec).state = rec.state
<1> DEFINE n == rec.count + 1
           grown == [rec EXCEPT !.count = @ + 1]
<1>1. /\ n \in Nat /\ n > 0 /\ grown \in Records /\ grown.count = n
      /\ grown.logged = rec.logged /\ grown.state = rec.state
      /\ rec.count \in Nat /\ rec.logged \in Nat
  BY DEF Records
<1>2. Bumped(rec) = IF PowerOfTwo(n) THEN [grown EXCEPT !.logged = n] ELSE grown
  BY <1>1 DEF Bumped, Logged
<1>3. Bumped(rec) \in Records /\ Bumped(rec).state = rec.state /\ Bumped(rec).count = n
      /\ Bumped(rec).logged = IF PowerOfTwo(n) THEN n ELSE rec.logged
  BY <1>1, <1>2 DEF Records
<1> HIDE DEF grown
<1>4. CASE PowerOfTwo(n)
  <2>1. LoggedAt(Bumped(rec), n)
    BY <1>1, <1>3, <1>4 DEF LoggedAt
  <2>2. QED
    BY <1>1, <1>3, <2>1 DEF CountHeld
<1>5. CASE ~PowerOfTwo(n)
  <2>1. PowerOfTwo(1)
    BY DEF PowerOfTwo
  <2>2. rec.count # 0
    BY <1>1, <1>5, <2>1
  <2>3. PICK p \in Nat : LoggedAt(rec, p)
    BY <2>2 DEF CountHeld
  <2>4. n # 2 * p
    BY <1>5, <2>3, PowerDoubles DEF LoggedAt
  <2>5. LoggedAt(Bumped(rec), p)
    BY <1>1, <1>3, <1>5, <2>3, <2>4 DEF LoggedAt
  <2>6. QED
    BY <1>3, <2>5 DEF CountHeld
<1>6. QED
  BY <1>3, <1>4, <1>5

\* An index that is made anew.
LEMMA IndexesTyped ==
    ASSUME NEW m, NEW i \in Indexes(m)
    PROVE  i \in IndexStates
  BY DEF Indexes, Majority, IndexStates, Dims

\* After a retrieval comes another one, or the answer, which is clean if it was.
LEMMA AfterRetrievalKeeps ==
    ASSUME RecallTyped, NEW one, one.passes \in 0..2, one.covered \in Covering,
           one.hits \subseteq Memories, one.dead \subseteq pruned,
           one.hits \cap one.dead = {}
    PROVE  /\ AfterRetrieval(one) \in CallStates /\ Clean(AfterRetrieval(one))
           /\ one.passes > 0 => Retrieving(one) \in CallStates /\ Clean(Retrieving(one))
           /\ Answered(one) \in CallStates /\ Clean(Answered(one))
<1>1. pruned \subseteq Notes /\ retriever \in IndexStates
  BY DEF RecallTyped
<1>2. ASSUME one.passes > 0 PROVE Retrieving(one) \in CallStates /\ Clean(Retrieving(one))
  <2>1. one.passes - 1 \in 0..2
    BY <1>2
  <2>2. {f \in Known : mem[f].state # "hidden"} \in SUBSET Known
    OBVIOUS
  <2>3. QED
    BY <1>1, <2>1, <2>2 DEF Retrieving, CallStates, Clean
<1>3. Answered(one) \in CallStates /\ Clean(Answered(one))
  BY <1>1 DEF Answered, CallStates, Clean
<1>4. QED
  BY <1>2, <1>3 DEF AfterRetrieval

\* A step that changes one call, and nothing in memory.
LEMMA CallKeeps ==
    ASSUME RecallInv, NEW c \in Askers, NEW one \in CallStates, Clean(one),
           call' = [call EXCEPT ![c] = one],
           UNCHANGED <<mem, retriever, attached, recording, pruned>>
    PROVE  RecallInv'
<1>1. /\ call' \in [Askers -> CallStates] /\ call'[c] = one
      /\ \A d \in Askers \ {c} : call'[d] = call[d]
  BY DEF RecallInv, RecallTyped
<1>2. RecallTyped'
  BY <1>1 DEF RecallInv, RecallTyped
<1>3. \A d \in Askers : Clean(call[d])'
  <2>1. SUFFICES ASSUME NEW d \in Askers PROVE Clean(call[d])'
    OBVIOUS
  <2>2. Clean(call[d])
    BY DEF RecallInv, DeadStayDead
  <2>3. QED
    BY <1>1, <2>2 DEF Clean
<1>4. DeadStayDead'
  BY <1>3 DEF RecallInv, DeadStayDead
<1>5. \A m \in Memories : CountHeld(mem[m])'
  BY DEF RecallInv, CountHeld, LoggedAt
<1>6. QED
  BY <1>2, <1>4, <1>5 DEF RecallInv

\* A prompt asks.
LEMMA AskMemoryKeeps ==
    ASSUME RecallInv, NEW c \in Askers, AskMemory(c)
    PROVE  RecallInv'
<1>1. PICK passes \in 1..2 :
          call' = [call EXCEPT ![c] = [stage |-> "search", passes |-> passes,
                                       covered |-> {}, hits |-> {}, dead |-> pruned]]
  BY DEF AskMemory
<1> DEFINE one == [stage |-> "search", passes |-> passes, covered |-> {}, hits |-> {},
                   dead |-> pruned]
<1>2. one \in CallStates
  BY DEF CallStates, Covering, RecallInv, RecallTyped
<1>3. Clean(one)
  BY DEF Clean
<1> HIDE DEF one
<1>4. QED
  BY <1>1, <1>2, <1>3, CallKeeps DEF AskMemory, one

\* What each stage of a call has.
LEMMA Stages ==
    ASSUME RecallInv, NEW c \in Askers, call[c] # NoCall
    PROVE  /\ call[c] \in CallStates /\ Clean(call[c])
           /\ call[c].hits \subseteq Memories /\ call[c].dead \subseteq pruned
           /\ call[c].hits \cap call[c].dead = {} /\ call[c].covered \in Covering
           /\ call[c].stage # "answered" => call[c].passes \in 0..2
<1>1. call[c] \in CallStates /\ Clean(call[c])
  BY DEF RecallInv, RecallTyped, DeadStayDead
<1>2. QED
  BY <1>1 DEF CallStates, Clean

\* The memory files have been searched.
LEMMA FilesSearchedKeeps ==
    ASSUME RecallInv, NEW c \in Askers, FilesSearched(c)
    PROVE  RecallInv'
<1>1. PICK covered \in Covering :
          LET one == [call[c] EXCEPT !.covered = covered]
          IN  call' = [call EXCEPT ![c] = IF attached THEN Retrieving(one) ELSE Answered(one)]
  BY DEF FilesSearched, Covering
<1> DEFINE one == [call[c] EXCEPT !.covered = covered]
<1>2. call[c].stage = "search" /\ call[c] # NoCall
  BY DEF FilesSearched, NoCall
<1>3. call[c] \in CallStates /\ call[c].passes \in 1..2
  BY <1>2, Stages DEF CallStates, NoCall
<1>4. /\ one.passes \in 1..2 /\ one.covered = covered /\ one.hits = call[c].hits
      /\ one.dead = call[c].dead
  BY <1>2, <1>3 DEF CallStates, NoCall
<1> HIDE DEF one
<1>5. RecallTyped /\ one.passes \in 0..2 /\ one.passes > 0
  BY <1>4 DEF RecallInv
<1>6. /\ one.hits \subseteq Memories /\ one.dead \subseteq pruned
      /\ one.hits \cap one.dead = {} /\ one.covered \in Covering
  BY <1>2, <1>4, Stages
<1>7. /\ Retrieving(one) \in CallStates /\ Clean(Retrieving(one))
      /\ Answered(one) \in CallStates /\ Clean(Answered(one))
  BY <1>5, <1>6, AfterRetrievalKeeps
<1>8. call' = [call EXCEPT ![c] = IF attached THEN Retrieving(one) ELSE Answered(one)]
  BY <1>1 DEF one
<1>9. UNCHANGED <<mem, retriever, attached, recording, pruned>>
  BY DEF FilesSearched
<1>10. QED
  BY <1>7, <1>8, <1>9, CallKeeps

\* The candidates have been ranked, from what is not redacted by now.
LEMMA RankNotesKeeps ==
    ASSUME RecallInv, NEW c \in Askers, RankNotes(c)
    PROVE  RecallInv'
<1>1. call[c].stage = "rank" /\ call[c] # NoCall
      /\ UNCHANGED <<mem, retriever, attached, recording, pruned>>
  BY DEF RankNotes, NoCall
<1>2. /\ call[c] \in CallStates /\ call[c].passes \in 0..2 /\ call[c].covered \in Covering
      /\ call[c].hits \subseteq Memories /\ call[c].dead \subseteq pruned
      /\ call[c].hits \cap call[c].dead = {} /\ RecallTyped
  BY <1>1, Stages DEF RecallInv
<1>3. CASE call' = [call EXCEPT ![c] = AfterRetrieval(@)]
  BY <1>1, <1>2, <1>3, AfterRetrievalKeeps, CallKeeps
<1>4. ASSUME NEW ranked \in SUBSET Rankable(call[c].index), NEW slot \in SUBSET call[c].profile,
             NEW alike \in SUBSET {f \in Known : mem[f].state # "hidden"},
             call' = [call EXCEPT ![c] =
                  [stage |-> "promote", passes |-> @.passes, covered |-> @.covered,
                   hits |-> @.hits, dead |-> @.dead, ranked |-> ranked,
                   facts |-> slot \cup alike,
                   stale |-> {f \in slot : mem[f].state = "dormant"}]]
      PROVE  RecallInv'
  <2> DEFINE one == [stage |-> "promote", passes |-> call[c].passes,
                     covered |-> call[c].covered, hits |-> call[c].hits,
                     dead |-> call[c].dead, ranked |-> ranked, facts |-> slot \cup alike,
                     stale |-> {f \in slot : mem[f].state = "dormant"}]
  <2>1. /\ call[c].index \in IndexStates /\ call[c].profile \subseteq Known
        /\ call[c].dead \subseteq Notes
    BY <1>1, <1>2 DEF CallStates, NoCall
  <2>2. ranked \subseteq Notes /\ \A n \in ranked : mem[n].state = "active"
    BY <2>1 DEF Rankable, IndexStates
  <2>3. slot \cup alike \subseteq Known /\ {f \in slot : mem[f].state = "dormant"} \subseteq Known
    BY <2>1
  <2>4. one \in CallStates
    BY <1>2, <2>1, <2>2, <2>3 DEF CallStates
  <2>5. Clean(one)
    <3>1. \A n \in pruned : mem[n].state = "redacted"
      BY DEF RecallInv, DeadStayDead
    <3>2. ranked \cap call[c].dead = {}
      BY <1>2, <2>2, <3>1
    <3>3. QED
      BY <1>2, <3>2 DEF Clean
  <2>6. call' = [call EXCEPT ![c] = one]
    BY <1>4
  <2> HIDE DEF one
  <2>7. QED
    BY <1>1, <2>4, <2>5, <2>6, CallKeeps
<1>5. QED
  BY <1>3, <1>4 DEF RankNotes

\* A retrieval that fails, and an answer that is given.
LEMMA EmbedFailsKeeps ==
    ASSUME RecallInv, NEW c \in Askers, EmbedFails(c)
    PROVE  RecallInv'
<1>1. call[c].stage # "answered" /\ call[c] # NoCall
      /\ call' = [call EXCEPT ![c] = AfterRetrieval(call[c])]
      /\ UNCHANGED <<mem, retriever, attached, recording, pruned>>
  BY DEF EmbedFails, NoCall
<1>2. AfterRetrieval(call[c]) \in CallStates /\ Clean(AfterRetrieval(call[c]))
  BY <1>1, Stages, AfterRetrievalKeeps DEF RecallInv
<1>3. QED
  BY <1>1, <1>2, CallKeeps

\* An answer that is given.
LEMMA AnswerGivenKeeps ==
    ASSUME RecallInv, NEW c \in Askers, AnswerGiven(c)
    PROVE  RecallInv'
<1>1. NoCall \in CallStates /\ Clean(NoCall)
  BY DEF CallStates, Clean
<1>2. QED
  BY <1>1, CallKeeps DEF AnswerGiven

\* The records of mem, whatever they are of.
LEMMA MemTyped ==
    ASSUME RecallTyped, NEW m \in Memories
    PROVE  mem[m] \in Records
  BY DEF RecallTyped, Memories, NoteStates, KnownStates, Records

\* What is returned is rehearsed; the hits leave out what is dead.
LEMMA RetrievedKeeps ==
    ASSUME RecallInv, NEW c \in Askers, Retrieved(c)
    PROVE  RecallInv'
<1> DEFINE one == call[c]
           rehearsed == one.ranked \cup {f \in one.stale : mem[f].state # "hidden"}
           new == {n \in one.ranked : NoteFile[n] \notin one.covered}
           next == [one EXCEPT !.hits = @ \cup new \cup one.facts]
<1>1. /\ one.stage = "promote" /\ one # NoCall
      /\ mem' = [m \in Memories |-> IF m \in rehearsed THEN Bumped(mem[m]) ELSE mem[m]]
      /\ call' = [call EXCEPT ![c] = AfterRetrieval(next)]
      /\ UNCHANGED <<retriever, attached, recording, pruned>>
  BY DEF Retrieved, NoCall
<1>2. RecallTyped /\ one \in CallStates /\ Clean(one) /\ one.dead \subseteq pruned
  BY <1>1, Stages DEF RecallInv
<1>3. /\ one.passes \in 0..2 /\ one.covered \in Covering /\ one.hits \subseteq Memories
      /\ one.dead \subseteq Notes /\ one.ranked \subseteq Notes /\ one.facts \subseteq Known
      /\ one.stale \subseteq Known
      /\ next.passes = one.passes /\ next.covered = one.covered /\ next.dead = one.dead
      /\ next.hits = one.hits \cup new \cup one.facts
  BY <1>1, <1>2 DEF CallStates, NoCall
<1>4. next.hits \subseteq Memories /\ next.hits \cap next.dead = {}
  BY <1>1, <1>2, <1>3, RecallAssumption DEF Clean, Memories
<1> HIDE DEF next, one, rehearsed, new
<1>5. \A m \in Memories :
          /\ mem'[m] \in Records /\ mem'[m].state = mem[m].state /\ CountHeld(mem'[m])
  <2>1. SUFFICES ASSUME NEW m \in Memories
                 PROVE  /\ mem'[m] \in Records /\ mem'[m].state = mem[m].state
                        /\ CountHeld(mem'[m])
    OBVIOUS
  <2>2. mem[m] \in Records /\ CountHeld(mem[m])
    BY <1>2, MemTyped DEF RecallInv
  <2>3. mem'[m] = Bumped(mem[m]) \/ mem'[m] = mem[m]
    BY <1>1
  <2>4. QED
    BY <2>2, <2>3, BumpKeeps
<1>6. RecallTyped'
  <2>1. \A n \in Notes : mem'[n] \in NoteStates
    BY <1>2, <1>5 DEF RecallTyped, Records, NoteStates, Memories
  <2>2. \A f \in Known : mem'[f] \in KnownStates
    BY <1>2, <1>5 DEF RecallTyped, Records, KnownStates, Memories
  <2>3. AfterRetrieval(next) \in CallStates
    BY <1>2, <1>3, <1>4, AfterRetrievalKeeps
  <2>4. QED
    BY <1>1, <1>2, <2>1, <2>2, <2>3 DEF RecallTyped
<1>7. DeadStayDead'
  <2>1. Clean(AfterRetrieval(next))
    BY <1>2, <1>3, <1>4, AfterRetrievalKeeps
  <2>2. \A d \in Askers : call'[d] = AfterRetrieval(next) \/ call'[d] = call[d]
    BY <1>1, <1>2 DEF RecallTyped
  <2>3. \A d \in Askers : Clean(call[d])'
    BY <1>1, <2>1, <2>2 DEF RecallInv, DeadStayDead, Clean
  <2>4. \A n \in pruned : mem'[n].state = "redacted"
    BY <1>2, <1>5 DEF RecallInv, DeadStayDead, RecallTyped, Memories
  <2>5. QED
    BY <1>1, <2>3, <2>4 DEF DeadStayDead
<1>8. QED
  BY <1>5, <1>6, <1>7 DEF RecallInv, CountHeld, LoggedAt

\* Whether an observation is recorded, and when.
LEMMA RecordKeeps ==
    ASSUME RecallInv, NEW n \in Notes, RecordStart(n) \/ RecordEnd(n)
    PROVE  RecallInv'
<1> USE DEF RecallInv
<1>1. CASE UNCHANGED <<mem, retriever, attached, pruned, call>> /\ recording' \subseteq Notes
  BY <1>1 DEF RecallTyped, DeadStayDead, Clean, CountHeld, LoggedAt
<1>2. CASE /\ recording' = recording \ {n} /\ attached' = attached
           /\ mem' = [mem EXCEPT ![n] = Memory("active", "live")]
           /\ retriever' \in Indexes(mem')
           /\ pruned' = pruned \ {n}
           /\ call' = [c \in Askers |-> IF call[c] = NoCall THEN NoCall
                                        ELSE [call[c] EXCEPT !.dead = @ \ {n}]]
  <2> DEFINE new == Memory("active", "live")
  <2>1. new \in NoteStates /\ new.count = 0 /\ new.logged = 0
    BY DEF Memory, NoteStates, Dims
  <2> HIDE DEF new
  <2>2. /\ DOMAIN mem' = Memories /\ mem'[n] = new
        /\ \A m \in Memories \ {n} : mem'[m] = mem[m]
    BY <1>2 DEF RecallTyped, Memories, new
  <2>3. \A c \in Askers : call'[c] \in CallStates /\ Clean(call[c])'
    <3>1. SUFFICES ASSUME NEW c \in Askers, call[c] # NoCall
                   PROVE  call'[c] \in CallStates /\ Clean(call[c])'
      BY <1>2 DEF CallStates, Clean
    <3>2. call[c] \in CallStates /\ Clean(call[c])
      BY <3>1 DEF RecallTyped, DeadStayDead
    <3>3. call'[c] = [call[c] EXCEPT !.dead = @ \ {n}]
      BY <1>2, <3>1
    <3>4. call'[c] \in CallStates
      BY <3>1, <3>2, <3>3 DEF CallStates
    <3>5. /\ call'[c].dead = call[c].dead \ {n} /\ call'[c].hits = call[c].hits
          /\ call'[c].stage = call[c].stage
          /\ call[c].stage = "promote" => call'[c].ranked = call[c].ranked
      BY <3>1, <3>2, <3>3 DEF CallStates
    <3>6. QED
      BY <1>2, <3>1, <3>2, <3>4, <3>5 DEF Clean
  <2>4. RecallTyped'
    <3>1. retriever' \in IndexStates
      BY <1>2, IndexesTyped
    <3>2. call' \in [Askers -> CallStates]
      BY <1>2, <2>3
    <3>3. QED
      BY <1>2, <2>1, <2>2, <3>1, <3>2, RecallAssumption DEF RecallTyped, Memories
  <2>5. DeadStayDead'
    BY <1>2, <2>2, <2>3 DEF DeadStayDead, RecallTyped, Memories
  <2>6. \A m \in Memories : CountHeld(mem[m])'
    BY <2>1, <2>2 DEF CountHeld, LoggedAt
  <2>7. QED
    BY <2>4, <2>5, <2>6
<1>3. CASE RecordStart(n)
  BY <1>1, <1>3 DEF RecordStart, RecallTyped
<1>4. CASE RecordEnd(n)
  BY <1>1, <1>2, <1>4 DEF RecordEnd, RecallTyped
<1>5. QED
  BY <1>3, <1>4

\* Notes are redacted, and the log is written anew.
LEMMA PruneNotesKeeps ==
    ASSUME RecallInv, PruneNotes
    PROVE  RecallInv'
<1> USE DEF RecallInv
<1>1. PICK gone \in SUBSET {n \in Notes : mem[n].state = "active"} :
          /\ mem' = [m \in Memories |->
                [mem[m] EXCEPT !.state = IF m \in gone THEN "redacted" ELSE @,
                               !.logged = IF m \in Notes THEN mem[m].count ELSE @]]
          /\ pruned' = pruned \cup gone
  BY DEF PruneNotes
<1>2. /\ retriever' \in IndexStates
      /\ UNCHANGED <<attached, recording, call>>
  BY IndexesTyped DEF PruneNotes
<1>3. \A n \in Notes :
          /\ mem'[n] \in NoteStates
          /\ mem'[n].state = IF n \in gone THEN "redacted" ELSE mem[n].state
          /\ mem'[n].count = mem[n].count /\ mem'[n].logged = mem[n].count
  BY <1>1 DEF RecallTyped, Memories, NoteStates
<1>4. \A f \in Known :
          /\ mem'[f] \in KnownStates
          /\ mem'[f].count = mem[f].count /\ mem'[f].logged = mem[f].logged
  BY <1>1, RecallAssumption DEF RecallTyped, Memories, KnownStates
<1>5. RecallTyped'
  BY <1>1, <1>2, <1>3, <1>4 DEF RecallTyped
<1>6. DeadStayDead'
  <2>1. \A n \in pruned' : mem'[n].state = "redacted"
    BY <1>1, <1>3 DEF DeadStayDead, RecallTyped
  <2>2. \A c \in Askers : Clean(call[c])'
    BY <1>1, <1>2 DEF DeadStayDead, Clean
  <2>3. QED
    BY <2>1, <2>2 DEF DeadStayDead
<1>7. ASSUME NEW m \in Memories PROVE CountHeld(mem[m])'
  <2>1. CountHeld(mem[m]) /\ mem[m].count \in Nat
    BY MemTyped DEF Records
  <2>2. CASE m \in Notes
    <3>1. mem[m].count = 0 => CountHeld(mem'[m])
      BY <1>3, <2>2 DEF CountHeld
    <3>2. ASSUME NEW p \in Nat, LoggedAt(mem[m], p) PROVE LoggedAt(mem'[m], p)
      BY <1>3, <2>1, <2>2, <3>2, MemTyped DEF LoggedAt, Records
    <3>3. CountHeld(mem'[m])
      BY <2>1, <3>1, <3>2 DEF CountHeld
    <3>4. QED
      BY <3>3 DEF CountHeld, LoggedAt
  <2>3. CASE m \in Known
    BY <1>4, <2>1, <2>3 DEF CountHeld, LoggedAt
  <2>4. QED
    BY <2>2, <2>3 DEF Memories
<1>8. QED
  BY <1>5, <1>6, <1>7

\* A fact changes its state, and nothing else.
LEMMA FactChangesKeeps ==
    ASSUME RecallInv, NEW f \in Known, FactChanges(f)
    PROVE  RecallInv'
<1> USE DEF RecallInv
<1>1. PICK s \in {"active", "dormant", "hidden"} : mem' = [mem EXCEPT ![f].state = s]
  BY DEF FactChanges
<1>2. UNCHANGED <<retriever, attached, recording, call, pruned>>
  BY DEF FactChanges
<1>3. /\ DOMAIN mem' = Memories /\ \A m \in Memories \ {f} : mem'[m] = mem[m]
      /\ mem'[f] \in KnownStates /\ mem'[f].count = mem[f].count
      /\ mem'[f].logged = mem[f].logged
  BY <1>1 DEF RecallTyped, Memories, KnownStates
<1>4. \A n \in Notes : mem'[n] = mem[n]
  BY <1>3, RecallAssumption DEF Memories
<1>5. RecallTyped'
  BY <1>2, <1>3, <1>4 DEF RecallTyped, Memories
<1>6. DeadStayDead'
  BY <1>2, <1>4 DEF DeadStayDead, RecallTyped, Clean
<1>7. \A m \in Memories : CountHeld(mem[m])'
  BY <1>3 DEF CountHeld, LoggedAt
<1>8. QED
  BY <1>5, <1>6, <1>7

\* After a crash the counts are those that were logged.
LEMMA RecallRestartKeeps ==
    ASSUME RecallInv, RecallRestart
    PROVE  RecallInv'
<1> USE DEF RecallInv
<1>1. /\ mem' = [m \in Memories |-> [mem[m] EXCEPT !.count = mem[m].logged]]
      /\ retriever' \in IndexStates /\ recording' = {} /\ pruned' = pruned
      /\ call' = [c \in Askers |-> NoCall]
  BY IndexesTyped DEF RecallRestart
<1>2. attached' \in BOOLEAN
  BY Zenon DEF RecallRestart
<1>3. \A m \in Memories :
          /\ mem'[m].state = mem[m].state /\ mem'[m].count = mem[m].logged
          /\ mem'[m].logged = mem[m].logged
          /\ mem[m] \in Records /\ CountHeld(mem[m])
  BY <1>1, MemTyped DEF Records
<1>4. RecallTyped'
  <2>1. \A n \in Notes : mem'[n] \in NoteStates
    BY <1>1 DEF RecallTyped, NoteStates, Memories
  <2>2. \A f \in Known : mem'[f] \in KnownStates
    BY <1>1 DEF RecallTyped, KnownStates, Memories
  <2>3. QED
    BY <1>1, <1>2, <2>1, <2>2 DEF RecallTyped, CallStates
<1>5. DeadStayDead'
  BY <1>1, <1>3 DEF DeadStayDead, Clean, RecallTyped, Memories
<1>6. ASSUME NEW m \in Memories PROVE CountHeld(mem[m])'
  <2>1. CASE mem[m].count = 0 /\ mem[m].logged = 0
    BY <1>3, <2>1 DEF CountHeld
  <2>2. CASE \E p \in Nat : LoggedAt(mem[m], p)
    <3>1. PICK p \in Nat : LoggedAt(mem[m], p)
      BY <2>2
    <3>2. LoggedAt(mem'[m], p)
      BY <1>3, <3>1 DEF LoggedAt, Records
    <3>3. QED
      BY <3>2 DEF CountHeld, LoggedAt
  <2>3. QED
    BY <1>3, <2>1, <2>2 DEF CountHeld
<1>7. QED
  BY <1>4, <1>5, <1>6

\* Nothing has been rehearsed or redacted yet.
LEMMA RecallInitInvariant == RecallInit => RecallInv
<1> SUFFICES ASSUME RecallInit PROVE RecallInv
  OBVIOUS
<1> USE RecallAssumption DEF RecallInit
<1>1. \A m \in Memories : /\ mem[m].state = "active" /\ mem[m].dim \in Dims
                          /\ mem[m].count = 0 /\ mem[m].logged = 0
  BY DEF Memory, Dims
<1>2. \A m \in Memories : mem[m] \in NoteStates \cap KnownStates
  BY DEF Memory, NoteStates, KnownStates, Dims
<1>3. retriever \in IndexStates
  BY IndexesTyped
<1>4. RecallTyped
  <2>1. attached \in BOOLEAN /\ recording \subseteq Notes /\ pruned \subseteq Notes
    OBVIOUS
  <2>2. call \in [Askers -> CallStates]
    BY DEF CallStates
  <2>3. DOMAIN mem = Memories
    OBVIOUS
  <2>4. QED
    BY <1>2, <1>3, <2>1, <2>2, <2>3 DEF RecallTyped, Memories
<1>5. DeadStayDead
  BY DEF DeadStayDead, Clean
<1>6. QED
  BY <1>1, <1>4, <1>5 DEF RecallInv, CountHeld

\* Each step of a recall, and of what goes on meanwhile, keeps it.
LEMMA RecallStepInvariant == RecallInv /\ [RecallNext]_recallVars => RecallInv'
<1> SUFFICES ASSUME RecallInv, [RecallNext]_recallVars PROVE RecallInv'
  OBVIOUS
<1>1. CASE UNCHANGED recallVars
  BY <1>1 DEF recallVars, RecallInv, RecallTyped, DeadStayDead, Clean, CountHeld, LoggedAt
<1>2. ASSUME NEW c \in Askers, \/ AskMemory(c) \/ FilesSearched(c) \/ RankNotes(c)
                               \/ EmbedFails(c) \/ Retrieved(c) \/ AnswerGiven(c)
      PROVE  RecallInv'
  BY <1>2, AskMemoryKeeps, FilesSearchedKeeps, RankNotesKeeps, EmbedFailsKeeps,
     RetrievedKeeps, AnswerGivenKeeps
<1>3. ASSUME NEW n \in Notes, RecordStart(n) \/ RecordEnd(n) PROVE RecallInv'
  BY <1>3, RecordKeeps
<1>4. ASSUME NEW f \in Known, FactChanges(f) PROVE RecallInv'
  BY <1>4, FactChangesKeeps
<1>5. QED
  BY <1>1, <1>2, <1>3, <1>4, PruneNotesKeeps, RecallRestartKeeps DEF RecallNext

\* It implies what the runs check.
LEMMA RecallInvariantSuffices == RecallInv => RecallTypeOK /\ RecallSound
<1> SUFFICES ASSUME RecallInv PROVE RecallTypeOK /\ RecallSound
  OBVIOUS
<1> USE DEF RecallInv
<1>1. RecallTypeOK
  <2>1. \A m \in Memories :
          /\ mem[m].state \in IF m \in Notes THEN {"active", "redacted"}
                              ELSE {"active", "dormant", "hidden"}
          /\ mem[m].dim \in {"live", "old"}
          /\ mem[m].count \in Nat /\ mem[m].logged \in Nat
    BY DEF RecallTyped, Memories, NoteStates, KnownStates, Dims
  <2>2. \A c \in Askers : call[c] = NoCall \/ call[c].hits \subseteq Memories
    BY Stages
  <2>3. QED
    BY <2>1, <2>2 DEF RecallTyped, RecallTypeOK, IndexStates, Dims
<1>2. ForgottenForGood
  BY DEF DeadStayDead, Clean, ForgottenForGood
<1>3. HalvedAtWorst
  <2>1. ASSUME NEW m \in Memories, mem[m].count # 0 PROVE mem[m].count < 2 * mem[m].logged
    <3>1. PICK p \in Nat : LoggedAt(mem[m], p)
      BY <2>1 DEF CountHeld
    <3>2. QED
      BY <3>1, MemTyped DEF LoggedAt, Records
  <2>2. QED
    BY <2>1 DEF HalvedAtWorst
<1>4. QED
  BY <1>1, <1>2, <1>3 DEF RecallSound

-----------------------------------------------------------------------------
(* The tools that change files.                                            *)

FileTexts == Seq(TextLines) \cup {Absent}
PlannedWrites == [file : WorkFiles, lines : FileTexts]
Counting == Nat \ {0}
ToolStates ==
    [at : {"idle", "planning", "writing", "edited", "refused", "failed", "done"},
     job : Patches \cup Edits \cup {<<>>}, kind : {"none", "patch", "edit", "write"},
     next : Counting, plan : Seq(PlannedWrites), before : [WorkFiles -> FileTexts] \cup {<<>>},
     left : [WorkFiles -> FileTexts] \cup {<<>>}, alone : BOOLEAN]

\* What the first n writes of a plan make of the files d.
Overlay(d, plan, n) ==
    [x \in WorkFiles |->
        LET writes == {i \in 1..n : plan[i].file = x}
        IN  IF writes = {} THEN d[x] ELSE plan[Max(writes)].lines]

\* What a call has in hand is of its kind.
OfItsKind(c) ==
    /\ c.kind = "patch" => c.at # "edited" /\ c.job \in Patches
    /\ c.kind = "edit" => c.at # "writing" /\ c.job \in Edits
    /\ c.at = "planning" => c.kind \in {"patch", "edit"}
    /\ c.at = "writing" => c.kind = "patch"
    /\ c.at = "edited" => Len(c.plan) = 1
    /\ c.at # "idle" => c.before \in [WorkFiles -> FileTexts]
    /\ c.at = "idle" => c.kind = "none"

\* A call that works alone works with nobody.
AloneIsAlone(them) ==
    \A k, i \in ToolCalls :
        them[k].alone /\ them[k].at \in {"planning", "writing", "edited"} /\ i # k =>
            them[i].at \notin {"planning", "writing", "edited"}

\* The plan of a patch that works alone, on the files d: what is planned is what
\* the sections read so far amount to, and the disk has what is written of it.
PlanIsRight(c, d) ==
    /\ c.at = "planning" =>
          /\ d = c.before
          /\ c.next = Len(c.plan) + 1 /\ Len(c.plan) <= Len(c.job)
          /\ Overlay(c.before, c.plan, Len(c.plan)) = Disks(c.before, c.job)[Len(c.plan)]
    /\ c.at = "writing" =>
          /\ c.next \in 1..(Len(c.plan) + 1)
          /\ Overlay(c.before, c.plan, Len(c.plan)) = OneByOne(c.before, c.job)
          /\ d = Overlay(c.before, c.plan, c.next - 1)
    /\ c.at = "done" => c.left = OneByOne(c.before, c.job)
    /\ c.at = "refused" => c.left = c.before

PatchInv ==
    /\ disk \in [WorkFiles -> FileTexts]
    /\ tool \in [ToolCalls -> ToolStates]
    /\ toolsRun \in 0..MaxToolCalls
    /\ \A k \in ToolCalls : OfItsKind(tool[k])
    /\ AloneIsAlone(tool)
    /\ \A k \in ToolCalls : tool[k].kind = "patch" /\ tool[k].alone => PlanIsRight(tool[k], disk)

\* A part of a file is replaced by lines.
LEMMA SplicedIsTyped ==
    ASSUME NEW lines \in Seq(TextLines), NEW was \in Seq(TextLines),
           NEW becomes \in Seq(TextLines), NEW p \in 0..Len(lines)
    PROVE  Spliced(lines, p, was, becomes) \in Seq(TextLines)
<1>1. Len(lines) \in Nat /\ Len(was) \in Nat
  BY LenProperties
<1>2. SubSeq(lines, 1, p) \in Seq(TextLines)
  <2>1. \A i \in 1..p : lines[i] \in TextLines
    BY <1>1, ElementOfSeq
  <2>2. 1 \in Int /\ p \in Int
    OBVIOUS
  <2>3. QED
    BY <2>1, <2>2, SubSeqProperties
<1>3. SubSeq(lines, p + Len(was) + 1, Len(lines)) \in Seq(TextLines)
  <2>1. \A i \in (p + Len(was) + 1)..Len(lines) : lines[i] \in TextLines
    BY <1>1, ElementOfSeq
  <2>2. p + Len(was) + 1 \in Int /\ Len(lines) \in Int
    BY <1>1
  <2>3. QED
    BY <2>1, <2>2, SubSeqProperties
<1>4. SubSeq(lines, 1, p) \o becomes \in Seq(TextLines)
  BY <1>2, ConcatProperties
<1>5. QED
  BY <1>3, <1>4, ConcatProperties DEF Spliced

\* A hunk makes of lines lines.
LEMMA HunkIsTyped ==
    ASSUME NEW w \in [ok : BOOLEAN, lines : Seq(TextLines)], NEW hk \in Hunks
    PROVE  ApplyHunk(w, hk) \in [ok : BOOLEAN, lines : Seq(TextLines)]
<1> DEFINE anchors == IF hk.heading = <<>> THEN {0} ELSE Anchors(w.lines, Head(hk.heading))
           places == UNION {Located(w.lines, hk.old, a) : a \in anchors}
<1>1. /\ w.ok \in BOOLEAN /\ w.lines \in Seq(TextLines)
      /\ hk.heading \in Seq(TextLines) /\ hk.old \in Seq(TextLines) /\ hk.new \in Seq(TextLines)
      /\ Len(w.lines) \in Nat /\ Len(hk.old) \in Nat
  BY LenProperties DEF Hunks
<1>2. Refusal \in [ok : BOOLEAN, lines : Seq(TextLines)]
  BY EmptySeq DEF Refusal
<1>3. anchors \in SUBSET (0..Len(w.lines))
  <2> DEFINE equal == {i \in 1..Len(w.lines) : w.lines[i] = Head(hk.heading)}
             held == {i \in 1..Len(w.lines) : w.lines[i] \in Holding[Head(hk.heading)]}
  <2>1. equal # {} => Min(equal) \in equal
    <3>1. equal \in SUBSET Nat
      BY <1>1
    <3> HIDE DEF equal
    <3>2. QED
      BY <3>1, MinProperties
  <2>2. held # {} => Min(held) \in held
    <3>1. held \in SUBSET Nat
      BY <1>1
    <3> HIDE DEF held
    <3>2. QED
      BY <3>1, MinProperties
  <2>3. equal \subseteq 0..Len(w.lines) /\ held \subseteq 0..Len(w.lines)
    BY <1>1
  <2>4. Anchors(w.lines, Head(hk.heading)) =
            IF equal # {} THEN {Min(equal)} ELSE IF held # {} THEN {Min(held)} ELSE {}
    BY DEF Anchors
  <2> HIDE DEF equal, held
  <2>5. ASSUME NEW a \in anchors PROVE a \in 0..Len(w.lines)
    <3>1. CASE hk.heading = <<>>
      BY <2>5, <3>1, <1>1
    <3>2. CASE hk.heading # <<>>
      BY <2>1, <2>2, <2>3, <2>4, <2>5, <3>2
    <3>3. QED
      BY <3>1, <3>2
  <2>6. QED
    BY <2>5
<1>4. \A p \in places : p \in 0..Len(w.lines)
  <2> HIDE DEF anchors
  <2>1. ASSUME NEW a \in anchors PROVE Located(w.lines, hk.old, a) \subseteq 0..Len(w.lines)
    <3>1. Located(w.lines, hk.old, a) \subseteq Occurrences(w.lines, hk.old, a)
      BY DEF Located
    <3>2. Occurrences(w.lines, hk.old, a) \subseteq a..Len(w.lines)
      BY DEF Occurrences
    <3>3. a \in 0..Len(w.lines) /\ a..Len(w.lines) \subseteq 0..Len(w.lines)
      BY <1>1, <1>3
    <3>4. QED
      BY <3>1, <3>2, <3>3
  <2>2. QED
    BY <2>1
<1>5. \A p \in 0..Len(w.lines) : Spliced(w.lines, p, hk.old, hk.new) \in Seq(TextLines)
  BY <1>1, SplicedIsTyped
<1>6. ApplyHunk(w, hk) =
          IF ~w.ok \/ places = {} THEN Refusal
          ELSE [ok |-> TRUE,
                lines |-> Spliced(w.lines, CHOOSE p \in places : TRUE, hk.old, hk.new)]
  BY DEF ApplyHunk
<1>7. places # {} => (CHOOSE p \in places : TRUE) \in 0..Len(w.lines)
  <2> HIDE DEF places
  <2>1. QED
    BY <1>4
<1> HIDE DEF places
<1>8. QED
  BY <1>2, <1>5, <1>6, <1>7

\* The hunks of an update are applied one after another.
LEMMA UpdateIsTyped ==
    ASSUME NEW lines \in Seq(TextLines), NEW hs \in Seq(Hunks)
    PROVE  ApplyUpdate(lines, hs) \in [ok : BOOLEAN, lines : Seq(TextLines)]
<1> DEFINE S == [ok : BOOLEAN, lines : Seq(TextLines)]
           base == [ok |-> TRUE, lines |-> lines]
           n == Len(hs)
           g == [i \in 1..n |-> [w \in S |-> ApplyHunk(w, hs[i])]]
           Made(f) == f = [i \in 0..n |-> IF i = 0 THEN base ELSE ApplyHunk(f[i - 1], hs[i])]
<1>1. n \in Nat /\ base \in S
  BY LenProperties
<1>2. g \in [1..n -> [S -> S]]
  <2>1. ASSUME NEW i \in 1..n PROVE [w \in S |-> ApplyHunk(w, hs[i])] \in [S -> S]
    <3>1. hs[i] \in Hunks
      BY ElementOfSeq
    <3>2. \A w \in S : ApplyHunk(w, hs[i]) \in S
      BY <3>1, HunkIsTyped
    <3> HIDE DEF S
    <3>3. QED
      BY <3>2
  <2> HIDE DEF S
  <2>2. QED
    BY <2>1
<1>3. PICK f : MadeOneByOne(f, S, base, n, g)
  <2> HIDE DEF S, base, g, n
  <2>1. QED
    BY <1>1, <1>2, StepByStep
<1>4. Made(f)
  <2> USE DEF MadeOneByOne, MadeFromEarlier
  <2> HIDE DEF S, base, n
  <2>1. ASSUME NEW i \in 0..n
        PROVE  f[i] = IF i = 0 THEN base ELSE ApplyHunk(f[i - 1], hs[i])
    <3>1. CASE i = 0
      BY <3>1, <1>3
    <3>2. CASE i # 0
      <4>1. i \in 1..n /\ i - 1 \in 0..n
        BY <3>2, <1>1
      <4>2. QED
        BY <3>2, <4>1, <1>3
    <3>3. QED
      BY <3>1, <3>2
  <2>2. QED
    BY <2>1, <1>3
<1>5. Applied(lines, hs) = CHOOSE h : Made(h)
  BY DEF Applied
<1> DEFINE r == Applied(lines, hs)
<1>6. Made(r)
  BY <1>4, <1>5
<1>7. \A i \in 0..n : r[i] \in S
  <2> DEFINE Bad == {i \in 0..n : r[i] \notin S}
  <2>1. SUFFICES ASSUME Bad # {} PROVE FALSE
    OBVIOUS
  <2>2. Bad \in SUBSET Nat
    BY <1>1
  <2>3. PICK m \in Bad : \A y \in Bad : m <= y
    <3> HIDE DEF Bad
    <3>1. QED
      BY <2>1, <2>2, MinProperties
  <2> HIDE DEF r
  <2>4. m # 0
    BY <1>1, <1>6, <2>3
  <2>5. m \in 1..n /\ m - 1 \in 0..n /\ m - 1 \notin Bad
    <3> HIDE DEF r, S, base
    <3>1. QED
      BY <2>3, <2>4, <1>1
  <2>6. r[m - 1] \in S /\ r[m] = ApplyHunk(r[m - 1], hs[m])
    <3> HIDE DEF S, base
    <3>1. QED
      BY <2>4, <2>5, <1>6
  <2>7. hs[m] \in Hunks
    BY <2>5, ElementOfSeq
  <2>8. r[m] \in S
    BY <2>6, <2>7, HunkIsTyped
  <2>9. QED
    BY <2>3, <2>8
<1>8. QED
  BY <1>1, <1>7 DEF ApplyUpdate

\* A section makes of a file a file, or none.
LEMMA OutcomeIsTyped ==
    ASSUME NEW content \in FileTexts, NEW op \in Sections
    PROVE  /\ Outcome(content, op).ok \in BOOLEAN
           /\ Outcome(content, op).lines \in FileTexts
           /\ op.file \in WorkFiles /\ op.kind \in {"update", "add", "delete"}
<1>1. Refusal.ok \in BOOLEAN /\ Refusal.lines \in FileTexts
  BY EmptySeq DEF Refusal, FileTexts
<1>2. CASE op \in [kind : {"update"}, file : WorkFiles, hunks : Seq(Hunks)]
  <2>1. CASE content = Absent
    BY <1>1, <1>2, <2>1 DEF Outcome
  <2>2. CASE content # Absent
    <3>1. content \in Seq(TextLines) /\ op.hunks \in Seq(Hunks)
      BY <1>2, <2>2 DEF FileTexts
    <3>2. ApplyUpdate(content, op.hunks) \in [ok : BOOLEAN, lines : Seq(TextLines)]
      BY <3>1, UpdateIsTyped
    <3>3. Outcome(content, op) = ApplyUpdate(content, op.hunks)
      BY <1>2, <2>2 DEF Outcome
    <3>4. QED
      BY <1>2, <3>2, <3>3 DEF FileTexts
  <2>3. QED
    BY <2>1, <2>2
<1>3. CASE op \in [kind : {"add"}, file : WorkFiles, lines : Seq(TextLines)]
  BY <1>1, <1>3 DEF Outcome, FileTexts
<1>4. CASE op \in [kind : {"delete"}, file : WorkFiles]
  BY <1>1, <1>4 DEF Outcome, FileTexts
<1>5. QED
  BY <1>2, <1>3, <1>4 DEF Sections

\* The files after each section of a patch, when they are applied in turn.
LEMMA SectionsInTurn ==
    ASSUME NEW d \in [WorkFiles -> FileTexts], NEW ops \in Seq(Sections)
    PROVE  /\ Len(ops) \in Nat /\ Disks(d, ops)[0] = d
           /\ \A i \in 1..Len(ops) :
                 Disks(d, ops)[i] = SectionOn(Disks(d, ops)[i - 1], ops[i])
<1> DEFINE S == [WorkFiles -> FileTexts]
           n == Len(ops)
           g == [i \in 1..n |-> [e \in S |-> SectionOn(e, ops[i])]]
           Made(f) == f = [i \in 0..n |-> IF i = 0 THEN d ELSE SectionOn(f[i - 1], ops[i])]
<1>1. n \in Nat /\ d \in S
  BY LenProperties
<1>2. g \in [1..n -> [S -> S]]
  <2>1. ASSUME NEW i \in 1..n PROVE [e \in S |-> SectionOn(e, ops[i])] \in [S -> S]
    <3>1. ops[i] \in Sections
      BY ElementOfSeq
    <3>2. ASSUME NEW e \in S PROVE SectionOn(e, ops[i]) \in S
      <4>1. ops[i].file \in WorkFiles
        BY <3>1, OutcomeIsTyped DEF Sections
      <4>2. e[ops[i].file] \in FileTexts
        BY <3>2, <4>1
      <4>3. Outcome(e[ops[i].file], ops[i]).lines \in FileTexts
        BY <3>1, <4>2, OutcomeIsTyped
      <4>4. QED
        BY <4>1, <4>2, <4>3 DEF SectionOn
    <3> HIDE DEF S
    <3>3. QED
      BY <3>2
  <2> HIDE DEF S
  <2>2. QED
    BY <2>1
<1>3. PICK f : MadeOneByOne(f, S, d, n, g)
  <2> HIDE DEF S, g, n
  <2>1. QED
    BY <1>1, <1>2, StepByStep
<1>4. Made(f)
  <2> USE DEF MadeOneByOne, MadeFromEarlier
  <2> HIDE DEF S, n
  <2>1. ASSUME NEW i \in 0..n
        PROVE  f[i] = IF i = 0 THEN d ELSE SectionOn(f[i - 1], ops[i])
    <3>1. CASE i = 0
      BY <3>1, <1>3
    <3>2. CASE i # 0
      <4>1. i \in 1..n /\ i - 1 \in 0..n
        BY <3>2, <1>1
      <4>2. QED
        BY <3>2, <4>1, <1>3
    <3>3. QED
      BY <3>1, <3>2
  <2>2. QED
    BY <2>1, <1>3
<1>5. Disks(d, ops) = CHOOSE h : Made(h)
  BY DEF Disks
<1> DEFINE r == Disks(d, ops)
<1>6. Made(r)
  BY <1>4, <1>5
<1>7. r[0] = d /\ \A i \in 1..n : r[i] = SectionOn(r[i - 1], ops[i])
  <2> HIDE DEF r
  <2>1. QED
    BY <1>1, <1>6
<1>8. QED
  BY <1>1, <1>7

\* A write more of a plan.
LEMMA OverlayOfOneMore ==
    ASSUME NEW d \in [WorkFiles -> FileTexts], NEW plan \in Seq(PlannedWrites),
           NEW n \in Nat, n + 1 <= Len(plan)
    PROVE  /\ Overlay(d, plan, n) \in [WorkFiles -> FileTexts]
           /\ Overlay(d, plan, n + 1)
                  = [Overlay(d, plan, n) EXCEPT ![plan[n + 1].file] = plan[n + 1].lines]
<1> DEFINE upTo(m, x) == {i \in 1..m : plan[i].file = x}
<1>1. Len(plan) \in Nat /\ \A i \in 1..Len(plan) : plan[i] \in PlannedWrites
  BY LenProperties, ElementOfSeq
<1>2. ASSUME NEW m \in Nat, NEW x \in WorkFiles, upTo(m, x) # {}
      PROVE  Max(upTo(m, x)) \in upTo(m, x) /\ \A y \in upTo(m, x) : Max(upTo(m, x)) >= y
  <2> DEFINE U == upTo(m, x)
  <2>1. U \in SUBSET (1..m) /\ U # {}
    BY <1>2
  <2> HIDE DEF U
  <2>2. Max(U) \in U /\ \A y \in U : Max(U) >= y
    BY <2>1, MaxProperties
  <2>3. QED
    BY <2>2 DEF U
<1> DEFINE over(m) == Overlay(d, plan, m)
<1>3. ASSUME NEW m \in Nat, m <= Len(plan)
      PROVE /\ over(m) \in [WorkFiles -> FileTexts]
            /\ \A x \in WorkFiles :
                  over(m)[x] = IF upTo(m, x) = {} THEN d[x] ELSE plan[Max(upTo(m, x))].lines
  <2>1. \A x \in WorkFiles :
            over(m)[x] = IF upTo(m, x) = {} THEN d[x] ELSE plan[Max(upTo(m, x))].lines
    BY DEF Overlay
  <2>2. ASSUME NEW x \in WorkFiles, upTo(m, x) # {}
        PROVE  plan[Max(upTo(m, x))].lines \in FileTexts
    <3>1. Max(upTo(m, x)) \in upTo(m, x)
      BY <1>2, <2>2
    <3>2. Max(upTo(m, x)) \in 1..Len(plan)
      BY <1>1, <1>3, <3>1
    <3>3. QED
      BY <1>1, <3>2 DEF PlannedWrites
  <2>3. \A x \in WorkFiles : d[x] \in FileTexts
    OBVIOUS
  <2> HIDE DEF upTo
  <2>4. QED
    BY <2>1, <2>2, <2>3 DEF Overlay
<1>4. plan[n + 1].file \in WorkFiles /\ plan[n + 1].lines \in FileTexts /\ n <= Len(plan)
  BY <1>1 DEF PlannedWrites
<1>5. ASSUME NEW x \in WorkFiles
      PROVE  over(n + 1)[x] = IF x = plan[n + 1].file THEN plan[n + 1].lines ELSE over(n)[x]
  <2>1. CASE x = plan[n + 1].file
    <3>1. n + 1 \in upTo(n + 1, x) /\ n + 1 \in Nat
      BY <2>1
    <3>2. /\ Max(upTo(n + 1, x)) \in upTo(n + 1, x)
          /\ \A y \in upTo(n + 1, x) : Max(upTo(n + 1, x)) >= y
      BY <3>1, <1>2
    <3>3. Max(upTo(n + 1, x)) \in 1..(n + 1) /\ Max(upTo(n + 1, x)) >= n + 1
      BY <3>1, <3>2
    <3>4. Max(upTo(n + 1, x)) = n + 1
      BY <3>3
    <3> HIDE DEF over
    <3>5. over(n + 1)[x] = plan[n + 1].lines
      BY <1>3, <3>1, <3>4
    <3>6. QED
      BY <2>1, <3>5
  <2>2. CASE x # plan[n + 1].file
    <3>1. upTo(n + 1, x) = upTo(n, x)
      BY <2>2
    <3>2. n + 1 \in Nat
      OBVIOUS
    <3> HIDE DEF over, upTo
    <3>3. QED
      BY <2>2, <1>3, <1>4, <3>1, <3>2
  <2>3. QED
    BY <2>1, <2>2
<1>6. over(n) \in [WorkFiles -> FileTexts] /\ over(n + 1) \in [WorkFiles -> FileTexts]
  <2>1. n + 1 \in Nat
    OBVIOUS
  <2> HIDE DEF over, upTo
  <2>2. QED
    BY <1>3, <1>4, <2>1
<1>7. over(n + 1) = [over(n) EXCEPT ![plan[n + 1].file] = plan[n + 1].lines]
  <2> HIDE DEF over
  <2>1. QED
    BY <1>4, <1>5, <1>6
<1>8. QED
  BY <1>6, <1>7

\* A plan with a write more is the plan and the write.
LEMMA OverlayOfAppended ==
    ASSUME NEW d \in [WorkFiles -> FileTexts], NEW plan \in Seq(PlannedWrites),
           NEW w \in PlannedWrites
    PROVE  /\ Append(plan, w) \in Seq(PlannedWrites) /\ Len(plan) \in Nat
           /\ Len(Append(plan, w)) = Len(plan) + 1
           /\ Overlay(d, plan, Len(plan)) \in [WorkFiles -> FileTexts]
           /\ Overlay(d, Append(plan, w), Len(plan) + 1)
                  = [Overlay(d, plan, Len(plan)) EXCEPT ![w.file] = w.lines]
<1> DEFINE p == Append(plan, w)
           n == Len(plan)
<1>1. /\ p \in Seq(PlannedWrites) /\ Len(p) = n + 1 /\ n \in Nat
      /\ p[n + 1] = w /\ \A i \in 1..n : p[i] = plan[i]
  BY AppendProperties, LenProperties
<1>2. Overlay(d, p, n) = Overlay(d, plan, n)
  <2>1. ASSUME NEW x \in WorkFiles
        PROVE  /\ {i \in 1..n : p[i].file = x} = {i \in 1..n : plan[i].file = x}
               /\ {i \in 1..n : p[i].file = x} # {} =>
                     p[Max({i \in 1..n : p[i].file = x})].lines
                        = plan[Max({i \in 1..n : plan[i].file = x})].lines
    <3> DEFINE U == {i \in 1..n : p[i].file = x}
    <3>1. U = {i \in 1..n : plan[i].file = x}
      BY <1>1
    <3>2. ASSUME U # {} PROVE p[Max(U)] = plan[Max(U)]
      <4>1. U \in SUBSET (1..n)
        OBVIOUS
      <4> HIDE DEF U
      <4>2. Max(U) \in 1..n
        BY <4>1, <3>2, <1>1, MaxProperties
      <4>3. QED
        BY <4>2, <1>1
    <3>3. QED
      BY <3>1, <3>2
  <2> HIDE DEF p, n
  <2>2. QED
    BY <2>1 DEF Overlay
<1>3. /\ Overlay(d, p, n) \in [WorkFiles -> FileTexts]
      /\ Overlay(d, p, n + 1) = [Overlay(d, p, n) EXCEPT ![p[n + 1].file] = p[n + 1].lines]
  <2>1. n + 1 <= Len(p)
    BY <1>1
  <2> HIDE DEF p, n
  <2>2. QED
    BY <1>1, <2>1, OverlayOfOneMore
<1>4. QED
  BY <1>1, <1>2, <1>3

\* Before a tool runs, the files are as they are.
LEMMA PatchInitInvariant == PatchInit => PatchInv
<1> SUFFICES ASSUME PatchInit PROVE PatchInv
  OBVIOUS
<1> USE DEF PatchInit
<1>1. disk \in [WorkFiles -> FileTexts]
  BY PatchAssumption DEF FileTexts
<1>2. tool \in [ToolCalls -> ToolStates]
  <2>1. NoTool \in ToolStates
    BY EmptySeq DEF NoTool, ToolStates, Counting
  <2>2. QED
    BY <2>1
<1>3. toolsRun \in 0..MaxToolCalls
  BY PatchAssumption
<1>4. \A k \in ToolCalls : tool[k].at = "idle" /\ tool[k].kind = "none"
  BY DEF NoTool
<1>5. QED
  BY <1>1, <1>2, <1>3, <1>4 DEF PatchInv, OfItsKind, AloneIsAlone, PlanIsRight

\* A call that is at work goes on, or ends: what has to hold of it alone.
LEMMA CallGoesOn ==
    ASSUME PatchInv, NEW k \in ToolCalls, NEW c,
           tool' = [tool EXCEPT ![k] = c], toolsRun' = toolsRun,
           tool[k].at \in {"planning", "writing", "edited"},
           c \in ToolStates, OfItsKind(c), c.alone = tool[k].alone, c.kind = tool[k].kind,
           disk' \in [WorkFiles -> FileTexts],
           c.kind = "patch" /\ c.alone => PlanIsRight(c, disk')
    PROVE  PatchInv'
<1>1. tool \in [ToolCalls -> ToolStates] /\ toolsRun \in 0..MaxToolCalls
  BY DEF PatchInv
<1>2. /\ tool' \in [ToolCalls -> ToolStates] /\ tool'[k] = c
      /\ \A i \in ToolCalls : i # k => tool'[i] = tool[i]
  BY <1>1
<1>3. ASSUME NEW i \in ToolCalls PROVE OfItsKind(tool'[i])
  BY <1>2 DEF PatchInv
<1>4. AloneIsAlone(tool')
  BY <1>2 DEF PatchInv, AloneIsAlone
<1>5. ASSUME NEW i \in ToolCalls, tool'[i].kind = "patch", tool'[i].alone
      PROVE  PlanIsRight(tool'[i], disk')
  <2>1. CASE i = k
    BY <2>1, <1>2, <1>5
  <2>2. CASE i # k
    <3>1. tool'[i] = tool[i] /\ PlanIsRight(tool[i], disk)
      BY <2>2, <1>2, <1>5 DEF PatchInv
    <3>2. tool[i].at \notin {"planning", "writing", "edited"}
      BY <2>2, <3>1, <1>5 DEF PatchInv, AloneIsAlone
    <3>3. QED
      BY <3>1, <3>2 DEF PlanIsRight
  <2>3. QED
    BY <2>1, <2>2
<1>6. QED
  BY <1>1, <1>2, <1>3, <1>4, <1>5 DEF PatchInv

\* A call ends and leaves the disk.
LEMMA EndKeeps ==
    ASSUME PatchInv, NEW k \in ToolCalls, NEW how \in {"refused", "failed", "done"},
           NEW d \in [WorkFiles -> FileTexts], Ends(k, how, d), toolsRun' = toolsRun,
           tool[k].at \in {"planning", "writing", "edited"},
           tool[k].kind = "patch" /\ tool[k].alone =>
               /\ how = "done" => d = OneByOne(tool[k].before, tool[k].job)
               /\ how = "refused" => d = tool[k].before
    PROVE  PatchInv'
<1> DEFINE c == [tool[k] EXCEPT !.at = how, !.left = d]
<1>1. tool \in [ToolCalls -> ToolStates] /\ tool[k] \in ToolStates /\ OfItsKind(tool[k])
  BY DEF PatchInv
<1>2. tool' = [tool EXCEPT ![k] = c] /\ disk' = d
  BY <1>1 DEF Ends
<1>3. /\ c \in ToolStates /\ c.at = how /\ c.left = d
      /\ c.alone = tool[k].alone /\ c.kind = tool[k].kind
      /\ c.job = tool[k].job /\ c.before = tool[k].before
  BY <1>1 DEF ToolStates
<1> HIDE DEF c
<1>4. OfItsKind(c)
  BY <1>1, <1>3 DEF OfItsKind
<1>5. c.kind = "patch" /\ c.alone => PlanIsRight(c, disk')
  BY <1>3 DEF PlanIsRight
<1>6. QED
  BY <1>2, <1>3, <1>4, <1>5, CallGoesOn

\* A call starts, and notes whether it is alone.
LEMMA StartToolKeeps ==
    ASSUME PatchInv, NEW k \in ToolCalls, StartTool(k)
    PROVE  PatchInv'
<1>1. /\ tool \in [ToolCalls -> ToolStates] /\ disk \in [WorkFiles -> FileTexts]
      /\ toolsRun \in 0..MaxToolCalls
  BY DEF PatchInv
<1>2. PICK j \in Jobs :
        tool' = [i \in ToolCalls |->
                      IF i = k
                      THEN [NoTool EXCEPT !.at = j.at, !.kind = j.kind, !.job = j.job,
                               !.plan = j.plan, !.before = disk, !.alone = (Working = {})]
                      ELSE IF i \in Working THEN [tool[i] EXCEPT !.alone = FALSE]
                      ELSE tool[i]]
  BY DEF StartTool
<1> DEFINE c == [NoTool EXCEPT !.at = j.at, !.kind = j.kind, !.job = j.job,
                     !.plan = j.plan, !.before = disk, !.alone = (Working = {})]
<1>3. /\ j.plan \in Seq(PlannedWrites)
      /\ \/ j.kind = "patch" /\ j.at = "planning" /\ j.job \in Patches /\ j.plan = <<>>
         \/ j.kind = "edit" /\ j.at = "planning" /\ j.job \in Edits
         \/ j.kind = "write" /\ j.at = "edited" /\ j.job = <<>> /\ Len(j.plan) = 1
  <2>1. CASE j \in [kind : {"patch"}, at : {"planning"}, job : Patches, plan : {<<>>}]
    BY <2>1, EmptySeq
  <2>2. CASE j \in [kind : {"edit"}, at : {"planning"}, job : Edits, plan : {<<>>}]
    BY <2>2, EmptySeq
  <2>3. CASE j \in [kind : {"write"}, at : {"edited"}, job : {<<>>},
                    plan : {<<w>> : w \in [file : WorkFiles, lines : Contents]}]
    <3>1. PICK w \in [file : WorkFiles, lines : Contents] : j.plan = <<w>>
      BY <2>3
    <3>2. w \in PlannedWrites
      BY PatchAssumption DEF PlannedWrites, FileTexts
    <3>3. QED
      BY <2>3, <3>1, <3>2
  <2>4. QED
    BY <2>1, <2>2, <2>3 DEF Jobs
<1>4. /\ c.at = j.at /\ c.kind = j.kind /\ c.job = j.job /\ c.plan = j.plan /\ c.next = 1
      /\ c.before = disk /\ c.left = <<>> /\ c.alone = (Working = {})
  BY DEF NoTool
<1>5. c \in ToolStates
  <2>1. (Working = {}) \in BOOLEAN
    OBVIOUS
  <2> DEFINE idle == Working = {}
  <2> HIDE DEF idle
  <2>2. [NoTool EXCEPT !.at = j.at, !.kind = j.kind, !.job = j.job,
             !.plan = j.plan, !.before = disk, !.alone = idle] \in ToolStates
    <3>1. idle \in BOOLEAN
      BY <2>1 DEF idle
    <3>2. 1 \in Counting
      BY DEF Counting
    <3>3. QED
      BY <1>1, <1>3, <3>1, <3>2 DEF NoTool, ToolStates
  <2>3. QED
    BY <2>2 DEF idle
<1> HIDE DEF c
<1>6. /\ tool' = [i \in ToolCalls |-> IF i = k THEN c
                                      ELSE IF i \in Working THEN [tool[i] EXCEPT !.alone = FALSE]
                                      ELSE tool[i]]
      /\ tool'[k] = c
  BY <1>2 DEF c
<1>7. ASSUME NEW i \in ToolCalls, i # k
      PROVE  /\ tool'[i] \in ToolStates
             /\ tool'[i].at = tool[i].at /\ tool'[i].kind = tool[i].kind
             /\ tool'[i].job = tool[i].job /\ tool'[i].plan = tool[i].plan
             /\ tool'[i].next = tool[i].next /\ tool'[i].before = tool[i].before
             /\ tool'[i].left = tool[i].left
             /\ IF i \in Working THEN ~tool'[i].alone ELSE tool'[i] = tool[i]
  <2>1. tool[i] \in ToolStates
    BY <1>1
  <2>2. CASE i \in Working
    BY <1>6, <1>7, <2>1, <2>2 DEF ToolStates
  <2>3. CASE i \notin Working
    BY <1>6, <1>7, <2>1, <2>3
  <2>4. QED
    BY <2>2, <2>3
<1>8. tool' \in [ToolCalls -> ToolStates]
  BY <1>5, <1>6, <1>7
<1>9. ASSUME NEW i \in ToolCalls PROVE OfItsKind(tool'[i])
  <2>1. CASE i = k
    BY <2>1, <1>1, <1>3, <1>4, <1>6 DEF OfItsKind
  <2>2. CASE i # k
    BY <2>2, <1>7 DEF PatchInv, OfItsKind
  <2>3. QED
    BY <2>1, <2>2
<1>10. AloneIsAlone(tool')
  <2>1. \A i \in ToolCalls :
            i \in Working <=> tool[i].at \in {"planning", "writing", "edited"}
    BY DEF Working
  <2>2. k \notin Working
    BY <2>1 DEF StartTool
  <2>3. c.alone => Working = {}
    BY <1>4
  <2>4. QED
    BY <1>6, <1>7, <2>1, <2>2, <2>3 DEF AloneIsAlone
<1>11. disk' = disk /\ toolsRun' \in 0..MaxToolCalls
  <2>1. disk' = disk /\ toolsRun' = toolsRun + 1 /\ toolsRun < MaxToolCalls
    BY DEF StartTool
  <2>2. QED
    BY <1>1, <2>1, PatchAssumption
<1>12. ASSUME NEW i \in ToolCalls, tool'[i].kind = "patch", tool'[i].alone
       PROVE  PlanIsRight(tool'[i], disk')
  <2>1. CASE i = k
    <3>1. /\ c.kind = "patch" /\ c.at = "planning" /\ c.job \in Patches /\ c.plan = <<>>
          /\ c.next = 1 /\ c.before = disk
      BY <2>1, <1>3, <1>4, <1>6, <1>12
    <3>2. c.job \in Seq(Sections) /\ Len(c.plan) = 0
      BY <3>1, PatchAssumption
    <3>3. Disks(disk, c.job)[0] = disk /\ Len(c.job) \in Nat
      BY <1>1, <3>2, SectionsInTurn
    <3>4. Overlay(disk, c.plan, 0) = disk
      BY <1>1 DEF Overlay
    <3>5. QED
      BY <2>1, <1>6, <1>11, <3>1, <3>2, <3>3, <3>4 DEF PlanIsRight
  <2>2. CASE i # k
    <3>1. i \notin Working /\ tool'[i] = tool[i]
      BY <2>2, <1>7, <1>12
    <3>2. QED
      BY <3>1, <1>11, <1>12 DEF PatchInv
  <2>3. QED
    BY <2>1, <2>2
<1>13. QED
  BY <1>1, <1>8, <1>9, <1>10, <1>11, <1>12 DEF PatchInv

\* What a patch finds of a file is what its plan makes of it, or is refused.
LEMMA ContentIsThePlans ==
    ASSUME PatchInv, NEW k \in ToolCalls, NEW op \in Sections,
           tool[k].kind = "patch", tool[k].alone, tool[k].at = "planning",
           op = tool[k].job[tool[k].next], Outcome(Content(k, op), op).ok
    PROVE  Content(k, op) = Overlay(tool[k].before, tool[k].plan, Len(tool[k].plan))[op.file]
<1> DEFINE n == Len(tool[k].plan)
           U == {i \in 1..n : tool[k].plan[i].file = op.file}
<1>1. tool[k] \in ToolStates /\ PlanIsRight(tool[k], disk)
  BY DEF PatchInv
<1>2. tool[k].plan \in Seq(PlannedWrites) /\ n \in Nat /\ disk = tool[k].before
  BY <1>1, LenProperties DEF ToolStates, PlanIsRight
<1>3. op.file \in WorkFiles
  BY DEF Sections
<1>4. Planned(k) = U
  BY DEF Planned
<1>5. Overlay(tool[k].before, tool[k].plan, n)[op.file]
          = IF U = {} THEN disk[op.file] ELSE tool[k].plan[Max(U)].lines
  BY <1>2, <1>3 DEF Overlay
<1> HIDE DEF U
<1>6. CASE U = {}
  BY <1>4, <1>5, <1>6 DEF Content
<1>7. CASE U # {} /\ op.kind = "add"
  <2>1. Content(k, op) = IF tool[k].plan[Max(U)].lines = Absent THEN Absent ELSE <<>>
    BY <1>4, <1>7 DEF Content
  <2>2. tool[k].plan[Max(U)].lines # Absent => Outcome(Content(k, op), op) = Refusal
    BY <2>1, <1>7, PatchAssumption DEF Outcome
  <2>3. QED
    BY <1>5, <1>7, <2>1, <2>2 DEF Refusal
<1>8. CASE U # {} /\ op.kind # "add"
  <2>1. Content(k, op) = Absent
    BY <1>4, <1>8 DEF Content
  <2>2. Outcome(Content(k, op), op) = Refusal
    BY <2>1, <1>8 DEF Outcome
  <2>3. QED
    BY <2>2 DEF Refusal
<1>9. QED
  BY <1>6, <1>7, <1>8

\* What a patch finds of a file is a file, or none.
LEMMA ContentIsTyped ==
    ASSUME PatchInv, NEW k \in ToolCalls, NEW op \in Sections
    PROVE  Content(k, op) \in FileTexts
<1>1. disk \in [WorkFiles -> FileTexts] /\ op.file \in WorkFiles
  BY DEF PatchInv, Sections
<1>2. disk[op.file] \in FileTexts /\ Absent \in FileTexts /\ <<>> \in FileTexts
  BY <1>1, EmptySeq DEF FileTexts
<1>3. QED
  BY <1>2 DEF Content

\* The next section of a patch is read, and its outcome planned.
LEMMA PlanSectionKeeps ==
    ASSUME PatchInv, NEW k \in ToolCalls, PlanSection(k)
    PROVE  PatchInv'
<1> DEFINE op == tool[k].job[tool[k].next]
           done == Outcome(Content(k, op), op)
           w == [file |-> op.file, lines |-> done.lines]
           m == tool[k].next + 1
           c == [tool[k] EXCEPT !.next = m, !.plan = Append(@, w)]
<1>1. /\ tool \in [ToolCalls -> ToolStates] /\ tool[k] \in ToolStates
      /\ disk \in [WorkFiles -> FileTexts] /\ OfItsKind(tool[k])
      /\ tool[k].kind = "patch" /\ tool[k].alone => PlanIsRight(tool[k], disk)
  BY DEF PatchInv
<1>2. /\ tool[k].at = "planning" /\ tool[k].kind = "patch" /\ toolsRun' = toolsRun
      /\ tool[k].next <= Len(tool[k].job)
  BY DEF PlanSection
<1>3. /\ tool[k].job \in Seq(Sections) /\ Len(tool[k].job) \in Nat
      /\ tool[k].next \in Nat /\ tool[k].plan \in Seq(PlannedWrites)
      /\ Len(tool[k].plan) \in Nat /\ tool[k].before \in [WorkFiles -> FileTexts]
  BY <1>1, <1>2, PatchAssumption, LenProperties DEF ToolStates, OfItsKind, Counting
<1>4. \/ /\ done.ok /\ tool' = [tool EXCEPT ![k] = c] /\ disk' = disk
      \/ ~done.ok /\ Ends(k, "refused", disk)
  BY <1>1 DEF PlanSection
<1>5. tool[k].alone => tool[k].next = Len(tool[k].plan) + 1
  BY <1>1, <1>2 DEF PlanIsRight
<1>6. CASE ~done.ok /\ Ends(k, "refused", disk)
  <2>1. tool[k].alone => disk = tool[k].before
    BY <1>1, <1>2 DEF PlanIsRight
  <2>2. QED
    BY <1>1, <1>2, <1>6, <2>1, EndKeeps
<1>7. CASE done.ok /\ tool' = [tool EXCEPT ![k] = c] /\ disk' = disk
  <2>1. op \in Sections
    <3>1. tool[k].next \in 1..Len(tool[k].job)
      BY <1>1, <1>2, <1>3 DEF ToolStates, Counting
    <3>2. QED
      BY <3>1, <1>3, ElementOfSeq
  <2>2. Content(k, op) \in FileTexts
    BY <2>1, ContentIsTyped
  <2>3. w \in PlannedWrites /\ w.file = op.file /\ w.lines = done.lines
    BY <2>1, <2>2, OutcomeIsTyped DEF PlannedWrites
  <2> HIDE DEF w
  <2>4. /\ Append(tool[k].plan, w) \in Seq(PlannedWrites)
        /\ Len(Append(tool[k].plan, w)) = Len(tool[k].plan) + 1
        /\ Overlay(tool[k].before, tool[k].plan, Len(tool[k].plan)) \in [WorkFiles -> FileTexts]
        /\ Overlay(tool[k].before, Append(tool[k].plan, w), Len(tool[k].plan) + 1)
              = [Overlay(tool[k].before, tool[k].plan, Len(tool[k].plan))
                    EXCEPT ![w.file] = w.lines]
    BY <1>3, <2>3, OverlayOfAppended
  <2>9. m \in Counting
    BY <1>3 DEF Counting
  <2> HIDE DEF m
  <2>5. /\ c \in ToolStates /\ c.next = m
        /\ c.plan = Append(tool[k].plan, w) /\ c.at = "planning"
        /\ c.alone = tool[k].alone /\ c.kind = "patch" /\ c.job = tool[k].job
        /\ c.before = tool[k].before
    BY <1>1, <1>2, <2>4, <2>9 DEF ToolStates
  <2> HIDE DEF c
  <2>6. OfItsKind(c)
    BY <1>1, <1>2, <2>5 DEF OfItsKind
  <2>7. ASSUME c.alone PROVE PlanIsRight(c, disk)
    <3> DEFINE n == Len(tool[k].plan)
               over == Overlay(tool[k].before, tool[k].plan, n)
    <3>1. /\ disk = tool[k].before /\ tool[k].next = n + 1 /\ n + 1 <= Len(tool[k].job)
          /\ over = Disks(tool[k].before, tool[k].job)[n]
      BY <1>1, <1>2, <2>5, <2>7 DEF PlanIsRight
    <3>2. Content(k, op) = over[op.file]
      BY <1>1, <1>2, <1>7, <2>1, <2>5, <2>7, ContentIsThePlans
    <3>3. SectionOn(over, op) = [over EXCEPT ![op.file] = done.lines]
      BY <1>7, <3>2 DEF SectionOn
    <3>4. Disks(tool[k].before, tool[k].job)[n + 1] = SectionOn(over, op)
      <4>1. n + 1 \in 1..Len(tool[k].job) /\ (n + 1) - 1 = n
        BY <1>3, <3>1
      <4>2. Disks(tool[k].before, tool[k].job)[n + 1]
                = SectionOn(Disks(tool[k].before, tool[k].job)[(n + 1) - 1],
                            tool[k].job[n + 1])
        BY <4>1, <1>3, SectionsInTurn
      <4> HIDE DEF over, n
      <4>3. QED
        BY <4>1, <4>2, <3>1
    <3>5. Overlay(c.before, c.plan, Len(c.plan)) = Disks(c.before, c.job)[Len(c.plan)]
      BY <2>3, <2>4, <2>5, <3>3, <3>4
    <3>6. QED
      BY <1>3, <2>4, <2>5, <3>1, <3>5 DEF PlanIsRight, m
  <2>8. QED
    BY <1>1, <1>2, <1>7, <2>5, <2>6, <2>7, CallGoesOn
<1>8. QED
  BY <1>4, <1>6, <1>7

\* All sections are planned.
LEMMA PlanningKeeps ==
    ASSUME PatchInv, NEW k \in ToolCalls, Planning(k)
    PROVE  PatchInv'
<1> DEFINE c == [tool[k] EXCEPT !.at = "writing", !.next = 1]
<1>1. /\ tool \in [ToolCalls -> ToolStates] /\ tool[k] \in ToolStates
      /\ disk \in [WorkFiles -> FileTexts] /\ OfItsKind(tool[k])
      /\ tool[k].kind = "patch" /\ tool[k].alone => PlanIsRight(tool[k], disk)
  BY DEF PatchInv
<1>2. /\ tool[k].at = "planning" /\ tool[k].kind = "patch" /\ toolsRun' = toolsRun
      /\ tool[k].next > Len(tool[k].job) /\ disk' = disk
  BY DEF Planning
<1>3. /\ tool[k].job \in Seq(Sections) /\ Len(tool[k].job) \in Nat
      /\ tool[k].next \in Nat /\ tool[k].plan \in Seq(PlannedWrites)
      /\ Len(tool[k].plan) \in Nat /\ tool[k].before \in [WorkFiles -> FileTexts]
  BY <1>1, <1>2, PatchAssumption, LenProperties DEF ToolStates, OfItsKind, Counting
<1>4. tool' = [tool EXCEPT ![k] = c]
  BY <1>1 DEF Planning
<1>5. /\ c \in ToolStates /\ c.next = 1
      /\ c.plan = tool[k].plan /\ c.at = "writing"
      /\ c.alone = tool[k].alone /\ c.kind = "patch" /\ c.job = tool[k].job
      /\ c.before = tool[k].before
  <2>1. 1 \in Counting
    BY DEF Counting
  <2>2. QED
    BY <1>1, <1>2, <2>1 DEF ToolStates
<1> HIDE DEF c
<1>6. OfItsKind(c)
  BY <1>1, <1>2, <1>5 DEF OfItsKind
<1>7. ASSUME c.alone PROVE PlanIsRight(c, disk)
  <2>1. /\ Len(c.plan) = Len(c.job) /\ disk = c.before
        /\ Overlay(c.before, c.plan, Len(c.plan)) = Disks(c.before, c.job)[Len(c.job)]
    <3>1. /\ disk = tool[k].before /\ tool[k].next = Len(tool[k].plan) + 1
          /\ Len(tool[k].plan) <= Len(tool[k].job)
          /\ Overlay(tool[k].before, tool[k].plan, Len(tool[k].plan))
                = Disks(tool[k].before, tool[k].job)[Len(tool[k].plan)]
      BY <1>1, <1>2, <1>5, <1>7 DEF PlanIsRight
    <3>2. Len(tool[k].plan) = Len(tool[k].job)
      BY <1>2, <1>3, <3>1
    <3>3. QED
      BY <1>5, <3>1, <3>2
  <2>2. Overlay(c.before, c.plan, 0) = c.before
    BY <1>3, <1>5 DEF Overlay
  <2>3. 1 \in 1..(Len(c.plan) + 1)
    BY <1>3, <1>5
  <2>4. QED
    BY <1>5, <2>1, <2>2, <2>3 DEF PlanIsRight, OneByOne
<1>8. QED
  BY <1>1, <1>2, <1>4, <1>5, <1>6, <1>7, CallGoesOn

\* The next planned write is written.
LEMMA CommitFileKeeps ==
    ASSUME PatchInv, NEW k \in ToolCalls, CommitFile(k)
    PROVE  PatchInv'
<1> DEFINE w == tool[k].plan[tool[k].next]
           m == tool[k].next + 1
           c == [tool[k] EXCEPT !.next = m]
<1>1. /\ tool \in [ToolCalls -> ToolStates] /\ tool[k] \in ToolStates
      /\ disk \in [WorkFiles -> FileTexts] /\ OfItsKind(tool[k])
      /\ tool[k].kind = "patch" /\ tool[k].alone => PlanIsRight(tool[k], disk)
  BY DEF PatchInv
<1>2. /\ tool[k].at = "writing" /\ tool[k].kind = "patch" /\ toolsRun' = toolsRun
      /\ tool[k].next <= Len(tool[k].plan)
  BY <1>1 DEF CommitFile, OfItsKind
<1>3. /\ tool[k].next \in Nat /\ tool[k].next # 0 /\ tool[k].plan \in Seq(PlannedWrites)
      /\ Len(tool[k].plan) \in Nat /\ tool[k].before \in [WorkFiles -> FileTexts]
  <2>1. /\ tool[k].next \in Nat \ {0} /\ tool[k].plan \in Seq(PlannedWrites)
        /\ tool[k].before \in [WorkFiles -> FileTexts]
    BY <1>1, <1>2 DEF ToolStates, OfItsKind, Counting
  <2>2. QED
    BY <2>1, LenProperties
<1>4. CASE Ends(k, "failed", disk)
  BY <1>1, <1>2, <1>4, EndKeeps
<1>5. CASE /\ disk' = [disk EXCEPT ![w.file] = w.lines]
           /\ tool' = [tool EXCEPT ![k].next = @ + 1]
  <2>1. w \in PlannedWrites
    <3>1. tool[k].next \in 1..Len(tool[k].plan)
      BY <1>2, <1>3
    <3>2. QED
      BY <3>1, <1>3, ElementOfSeq
  <2>2. disk' \in [WorkFiles -> FileTexts]
    <3> HIDE DEF w
    <3>1. QED
      BY <1>1, <1>5, <2>1 DEF PlannedWrites
  <2>3. tool' = [tool EXCEPT ![k] = c]
    BY <1>1, <1>5
  <2>9. m \in Counting
    BY <1>3 DEF Counting
  <2> HIDE DEF m
  <2>4. /\ c \in ToolStates /\ c.next = m
        /\ c.plan = tool[k].plan /\ c.at = "writing"
        /\ c.alone = tool[k].alone /\ c.kind = "patch" /\ c.job = tool[k].job
        /\ c.before = tool[k].before
    BY <1>1, <1>2, <2>9 DEF ToolStates
  <2> HIDE DEF c
  <2>5. OfItsKind(c)
    BY <1>1, <1>2, <2>4 DEF OfItsKind
  <2>6. ASSUME c.alone PROVE PlanIsRight(c, disk')
    <3> DEFINE n == tool[k].next - 1
    <3>1. /\ tool[k].next \in 1..(Len(tool[k].plan) + 1)
          /\ Overlay(tool[k].before, tool[k].plan, Len(tool[k].plan))
                = OneByOne(tool[k].before, tool[k].job)
          /\ disk = Overlay(tool[k].before, tool[k].plan, n)
      BY <1>1, <1>2, <2>4, <2>6 DEF PlanIsRight
    <3>2. n \in Nat /\ n + 1 <= Len(tool[k].plan) /\ n + 1 = tool[k].next
      BY <1>2, <1>3
    <3> HIDE DEF n
    <3>3. Overlay(tool[k].before, tool[k].plan, n + 1)
              = [Overlay(tool[k].before, tool[k].plan, n)
                    EXCEPT ![tool[k].plan[n + 1].file] = tool[k].plan[n + 1].lines]
      BY <1>3, <3>2, OverlayOfOneMore
    <3>4. disk' = Overlay(tool[k].before, tool[k].plan, n + 1)
      BY <1>5, <3>1, <3>2, <3>3
    <3>5. c.next - 1 = n + 1 /\ c.next \in 1..(Len(tool[k].plan) + 1)
      BY <1>2, <1>3, <2>4, <3>2 DEF m
    <3>6. QED
      BY <2>4, <3>1, <3>4, <3>5 DEF PlanIsRight
  <2>7. QED
    BY <1>1, <1>2, <2>2, <2>3, <2>4, <2>5, <2>6, CallGoesOn
<1>6. QED
  BY <1>4, <1>5 DEF CommitFile

\* All that was planned has been written.
LEMMA PatchDoneKeeps ==
    ASSUME PatchInv, NEW k \in ToolCalls, PatchDone(k)
    PROVE  PatchInv'
<1>1. /\ tool[k] \in ToolStates /\ OfItsKind(tool[k]) /\ disk \in [WorkFiles -> FileTexts]
      /\ tool[k].kind = "patch" /\ tool[k].alone => PlanIsRight(tool[k], disk)
  BY DEF PatchInv
<1>2. /\ tool[k].at = "writing" /\ Ends(k, "done", disk) /\ toolsRun' = toolsRun
      /\ tool[k].next > Len(tool[k].plan)
  BY DEF PatchDone
<1>3. tool[k].kind = "patch" /\ tool[k].alone => disk = OneByOne(tool[k].before, tool[k].job)
  <2>1. SUFFICES ASSUME tool[k].kind = "patch" /\ tool[k].alone
                 PROVE  disk = OneByOne(tool[k].before, tool[k].job)
    OBVIOUS
  <2>2. /\ tool[k].next \in 1..(Len(tool[k].plan) + 1)
        /\ Overlay(tool[k].before, tool[k].plan, Len(tool[k].plan))
              = OneByOne(tool[k].before, tool[k].job)
        /\ disk = Overlay(tool[k].before, tool[k].plan, tool[k].next - 1)
    BY <1>1, <1>2, <2>1 DEF PlanIsRight
  <2>3. Len(tool[k].plan) \in Nat
    BY <1>1, LenProperties DEF ToolStates
  <2>4. tool[k].next - 1 = Len(tool[k].plan)
    BY <1>2, <2>2, <2>3
  <2>5. QED
    BY <2>2, <2>4
<1>4. QED
  BY <1>1, <1>2, <1>3, EndKeeps

\* An edit reads its file, and finds what is to be replaced, or does not.
LEMMA ReadForEditKeeps ==
    ASSUME PatchInv, NEW k \in ToolCalls, ReadForEdit(k)
    PROVE  PatchInv'
<1> DEFINE e == tool[k].job
           at == IF disk[e.file] = Absent THEN {} ELSE Located(disk[e.file], <<e.old>>, 0)
           w == [file |-> e.file,
                 lines |-> Spliced(disk[e.file], CHOOSE p \in at : TRUE,
                                   <<e.old>>, <<Replacement[e.new]>>)]
           c == [tool[k] EXCEPT !.at = "edited", !.plan = <<w>>]
<1>1. /\ tool \in [ToolCalls -> ToolStates] /\ tool[k] \in ToolStates
      /\ disk \in [WorkFiles -> FileTexts] /\ OfItsKind(tool[k])
  BY DEF PatchInv
<1>2. /\ tool[k].at = "planning" /\ tool[k].kind = "edit" /\ toolsRun' = toolsRun
  BY DEF ReadForEdit
<1>3. e.file \in WorkFiles /\ e.old \in TextLines /\ Replacement[e.new] \in TextLines
  <2>1. e \in Edits
    BY <1>1, <1>2 DEF OfItsKind
  <2>2. e \in [file : WorkFiles, old : TextLines, new : TextLines]
    BY <2>1, PatchAssumption
  <2> HIDE DEF e
  <2>3. QED
    BY <2>2, PatchAssumption
<1>4. \/ at = {} /\ Ends(k, "refused", disk)
      \/ at # {} /\ tool' = [tool EXCEPT ![k] = c] /\ disk' = disk
  <2>1. \/ at = {} /\ Ends(k, "refused", disk)
        \/ /\ at # {} /\ tool' = [tool EXCEPT ![k].at = "edited", ![k].plan = <<w>>]
           /\ disk' = disk
    BY DEF ReadForEdit
  <2> HIDE DEF at, w
  <2>2. QED
    BY <1>1, <2>1
<1>5. CASE at = {} /\ Ends(k, "refused", disk)
  BY <1>1, <1>2, <1>5, EndKeeps
<1>6. CASE at # {} /\ tool' = [tool EXCEPT ![k] = c] /\ disk' = disk
  <2>1. w \in PlannedWrites
    <3>1. disk[e.file] # Absent /\ disk[e.file] \in FileTexts
      BY <1>1, <1>3, <1>6
    <3>2. disk[e.file] \in Seq(TextLines)
      BY <3>1 DEF FileTexts
    <3>3. at \subseteq 0..Len(disk[e.file])
      BY <3>1 DEF Located, Occurrences
    <3>4. (CHOOSE p \in at : TRUE) \in 0..Len(disk[e.file])
      <4> HIDE DEF at
      <4>1. QED
        BY <1>6, <3>3
    <3>5. <<e.old>> \in Seq(TextLines) /\ <<Replacement[e.new]>> \in Seq(TextLines)
      <4> HIDE DEF e
      <4>1. QED
        BY <1>3
    <3> HIDE DEF at
    <3>6. w.lines \in Seq(TextLines)
      BY <3>2, <3>4, <3>5, SplicedIsTyped
    <3>7. QED
      BY <1>3, <3>6 DEF PlannedWrites, FileTexts
  <2> HIDE DEF w
  <2>2. <<w>> \in Seq(PlannedWrites) /\ Len(<<w>>) = 1
    BY <2>1
  <2>3. /\ c \in ToolStates /\ c.plan = <<w>> /\ c.at = "edited" /\ c.alone = tool[k].alone
        /\ c.kind = "edit" /\ c.job = tool[k].job /\ c.before = tool[k].before
    BY <1>1, <1>2, <2>2 DEF ToolStates
  <2> HIDE DEF c
  <2>4. OfItsKind(c)
    BY <1>1, <1>2, <2>2, <2>3 DEF OfItsKind
  <2>5. QED
    BY <1>1, <1>2, <1>6, <2>3, <2>4, CallGoesOn
<1>7. QED
  BY <1>4, <1>5, <1>6

\* An edit writes the file that it read and changed.
LEMMA WriteEditedKeeps ==
    ASSUME PatchInv, NEW k \in ToolCalls, WriteEdited(k)
    PROVE  PatchInv'
<1> DEFINE w == tool[k].plan[1]
<1>1. /\ tool[k] \in ToolStates /\ OfItsKind(tool[k])
      /\ disk \in [WorkFiles -> FileTexts]
  BY DEF PatchInv
<1>2. /\ tool[k].at = "edited" /\ tool[k].kind # "patch" /\ toolsRun' = toolsRun
  BY <1>1 DEF WriteEdited, OfItsKind
<1>3. w \in PlannedWrites
  <2>1. tool[k].plan \in Seq(PlannedWrites) /\ Len(tool[k].plan) = 1
    BY <1>1, <1>2 DEF ToolStates, OfItsKind
  <2>2. 1 \in 1..Len(tool[k].plan)
    BY <2>1
  <2>3. QED
    BY <2>1, <2>2, ElementOfSeq
<1>4. [disk EXCEPT ![w.file] = w.lines] \in [WorkFiles -> FileTexts]
  <2> HIDE DEF w
  <2>1. QED
    BY <1>1, <1>3 DEF PlannedWrites
<1>5. \/ Ends(k, "done", [disk EXCEPT ![w.file] = w.lines])
      \/ Ends(k, "failed", disk)
  BY DEF WriteEdited
<1> HIDE DEF w
<1>6. CASE Ends(k, "done", [disk EXCEPT ![w.file] = w.lines])
  BY <1>2, <1>4, <1>6, EndKeeps
<1>7. CASE Ends(k, "failed", disk)
  BY <1>1, <1>2, <1>7, EndKeeps
<1>8. QED
  BY <1>5, <1>6, <1>7

\* Every step of the tools keeps the invariant.
LEMMA PatchStepInvariant == PatchInv /\ [PatchNext]_toolVars => PatchInv'
<1> SUFFICES ASSUME PatchInv, [PatchNext]_toolVars PROVE PatchInv'
  OBVIOUS
<1>1. CASE UNCHANGED toolVars
  BY <1>1 DEF toolVars, PatchInv
<1>2. ASSUME NEW k \in ToolCalls, StartTool(k) PROVE PatchInv'
  BY <1>2, StartToolKeeps
<1>3. ASSUME NEW k \in ToolCalls, PlanSection(k) PROVE PatchInv'
  BY <1>3, PlanSectionKeeps
<1>4. ASSUME NEW k \in ToolCalls, Planning(k) PROVE PatchInv'
  BY <1>4, PlanningKeeps
<1>5. ASSUME NEW k \in ToolCalls, CommitFile(k) PROVE PatchInv'
  BY <1>5, CommitFileKeeps
<1>6. ASSUME NEW k \in ToolCalls, PatchDone(k) PROVE PatchInv'
  BY <1>6, PatchDoneKeeps
<1>7. ASSUME NEW k \in ToolCalls, ReadForEdit(k) PROVE PatchInv'
  BY <1>7, ReadForEditKeeps
<1>8. ASSUME NEW k \in ToolCalls, WriteEdited(k) PROVE PatchInv'
  BY <1>8, WriteEditedKeeps
<1>9. QED
  BY <1>1, <1>2, <1>3, <1>4, <1>5, <1>6, <1>7, <1>8 DEF PatchNext

\* It implies what the runs check.
LEMMA PatchInvariantSuffices == PatchInv => PatchTypeOK /\ PatchAppliesAsItReads
<1> SUFFICES ASSUME PatchInv PROVE PatchTypeOK /\ PatchAppliesAsItReads
  OBVIOUS
<1>1. PatchTypeOK
  BY DEF PatchInv, PatchTypeOK, ToolStates, FileTexts
<1>2. PatchAppliesAsItReads
  BY DEF PatchInv, PatchAppliesAsItReads, PlanIsRight
<1>3. QED
  BY <1>1, <1>2

-----------------------------------------------------------------------------
(* The transcript of the open chat.                                        *)

MessageFrames == [of : Chats, message : 1..MaxMessages]
LoadStates == [of : Chats \cup {NoChat}, at : {"none", "asked", "answered"},
               has : SUBSET (1..MaxMessages)]

TabTyped ==
    /\ written \in [Chats -> SUBSET (1..MaxMessages)]
    /\ emitting \in [Chats -> 0..MaxMessages]
    /\ tabLinked \in BOOLEAN /\ hasConnected \in BOOLEAN
    /\ {tuned, openChat, loadingChat} \subseteq Chats \cup {NoChat}
    /\ toServer \in Seq(Chats \cup {NoChat}) /\ toTab \in Seq(MessageFrames)
    /\ loads \in [1..MaxSelects -> LoadStates]
    /\ shown \cup loadBuffer \cup arrived \cup unheard \subseteq 1..MaxMessages
    /\ doubled \in BOOLEAN /\ failed \in BOOLEAN
    /\ selects \in 0..MaxSelects /\ drops \in 0..MaxDrops

\* Whatever is on its way, or shown, is of the chat that it is said to be of.
NothingForeign ==
    /\ \A c \in Chats : emitting[c] = 0 \/ emitting[c] \in written[c]
    /\ \A i \in 1..Len(toTab) : toTab[i].message \in written[toTab[i].of]
    /\ \A l \in 1..MaxSelects :
          loads[l] = NoLoad
          \/ (loads[l].at # "none" /\ loads[l].of \in Chats
              /\ loads[l].has \subseteq written[loads[l].of])
    /\ \A m \in shown \cup loadBuffer : openChat # NoChat /\ m \in written[openChat]
    /\ \A m \in arrived \cup unheard : \E c \in Chats : m \in written[c]

\* The guard is armed while the only load of the open chat is under way.
GuardHolds ==
    /\ loadingChat \in {openChat, NoChat}
    /\ tabLinked => hasConnected
    /\ ~tabLinked => toTab = <<>> /\ toServer = <<>> /\ tuned = NoChat
    /\ \A l \in 1..MaxSelects : l > selects => loads[l] = NoLoad
    /\ ~doubled /\ openChat # NoChat =>
          /\ \A l, j \in 1..MaxSelects :
                loads[l].of = openChat /\ loads[j].of = openChat => l = j
          /\ \A l \in 1..MaxSelects : loads[l].of = openChat => loadingChat = openChat

OnItsWay(m) ==
    \/ m \in unheard \/ m = emitting[openChat]
    \/ \E i \in 1..Len(toTab) : toTab[i].of = openChat /\ toTab[i].message = m

\* A message will be shown once what is under way has come.
WillBeShown(m) ==
    IF \E l \in 1..MaxSelects : loads[l].of = openChat
    THEN \A l \in 1..MaxSelects :
            loads[l].of = openChat => loads[l].at = "asked" \/ m \in loads[l].has \cup loadBuffer
    ELSE m \in shown

NothingMissed ==
    openChat # NoChat /\ ~doubled /\ ~failed /\ (tabLinked \/ ~hasConnected) =>
        \A m \in written[openChat] : OnItsWay(m) \/ WillBeShown(m)

TabInv == TabTyped /\ NothingForeign /\ GuardHolds /\ NothingMissed

\* A tab that has shown nothing yet.
LEMMA TabInitInvariant == ClientInit => TabInv
<1> SUFFICES ASSUME ClientInit PROVE TabInv
  OBVIOUS
<1> USE ClientAssumption DEF ClientInit
<1>1. \A l \in 1..MaxSelects : loads[l] = NoLoad
  OBVIOUS
<1>2. NoLoad \in LoadStates
  BY DEF NoLoad, LoadStates
<1>3. TabTyped
  <2>1. /\ written \in [Chats -> SUBSET (1..MaxMessages)]
        /\ emitting \in [Chats -> 0..MaxMessages]
    <3>1. 0 \in 0..MaxMessages /\ {} \in SUBSET (1..MaxMessages)
      OBVIOUS
    <3>2. QED
      BY <3>1
  <2>2. loads \in [1..MaxSelects -> LoadStates]
    BY <1>2
  <2>3. toServer \in Seq(Chats \cup {NoChat}) /\ toTab \in Seq(MessageFrames)
    OBVIOUS
  <2>4. /\ {tuned, openChat, loadingChat} \subseteq Chats \cup {NoChat}
        /\ shown \cup loadBuffer \cup arrived \cup unheard \subseteq 1..MaxMessages
        /\ selects \in 0..MaxSelects /\ drops \in 0..MaxDrops
    OBVIOUS
  <2>5. QED
    BY <2>1, <2>2, <2>3, <2>4 DEF TabTyped
<1>4. NothingForeign
  BY <1>1 DEF NothingForeign
<1>5. GuardHolds
  BY <1>1 DEF GuardHolds, NoLoad
<1>6. QED
  BY <1>3, <1>4, <1>5 DEF TabInv, NothingMissed

\* What has been written is a finite set of numbers.
LEMMA WrittenIsNumbered ==
    ASSUME TabTyped
    PROVE  /\ AllWritten \subseteq 1..MaxMessages /\ Cardinality(AllWritten) \in Nat
           /\ \A c \in Chats : written[c] \subseteq AllWritten
           /\ \A m \in AllWritten : \E c \in Chats : m \in written[c]
<1>1. DOMAIN written = Chats /\ \A c \in Chats : written[c] \subseteq 1..MaxMessages
  BY DEF TabTyped
<1>2. /\ AllWritten \subseteq 1..MaxMessages
      /\ \A c \in Chats : written[c] \subseteq AllWritten
      /\ \A m \in AllWritten : \E c \in Chats : m \in written[c]
  BY <1>1 DEF AllWritten, Range
<1>3. IsFiniteSet(1..MaxMessages)
  BY ClientAssumption, FS_Interval
<1>4. Cardinality(AllWritten) \in Nat
  BY <1>2, <1>3, FS_Subset, FS_CardinalityType
<1>5. QED
  BY <1>2, <1>4

\* The harness writes a message, which is still to be emitted.
LEMMA WriteKeeps ==
    ASSUME TabInv, NEW c \in Chats, Write(c)
    PROVE  TabInv'
<1> USE DEF TabInv
<1> DEFINE n == Cardinality(AllWritten) + 1
<1>1. n \in 1..MaxMessages
  <2>1. Cardinality(AllWritten) \in Nat /\ Cardinality(AllWritten) < MaxMessages
    BY WrittenIsNumbered DEF Write
  <2>2. QED
    BY <2>1, ClientAssumption
<1>2. /\ written' = [written EXCEPT ![c] = @ \cup {n}]
      /\ emitting' = [emitting EXCEPT ![c] = n]
      /\ emitting[c] = 0
      /\ UNCHANGED <<tabLinked, hasConnected, tuned, toServer, toTab, openChat, shown,
                     loadingChat, loadBuffer, loads, unheard, arrived, doubled, failed,
                     selects, drops>>
  BY DEF Write, socket, shownState, pastOfTab
<1> HIDE DEF n
<1>3. /\ written'[c] = written[c] \cup {n} /\ emitting'[c] = n
      /\ \A d \in Chats \ {c} : written'[d] = written[d] /\ emitting'[d] = emitting[d]
      /\ written' \in [Chats -> SUBSET (1..MaxMessages)]
      /\ emitting' \in [Chats -> 0..MaxMessages]
  <2>1. n \in 0..MaxMessages
    BY <1>1
  <2>2. QED
    BY <1>1, <1>2, <2>1 DEF TabTyped
<1>4. TabTyped'
  BY <1>2, <1>3 DEF TabTyped
<1>5. \A d \in Chats : written[d] \subseteq written'[d]
  BY <1>3
<1>6. NothingForeign'
  <2>1. \A i \in 1..Len(toTab) : toTab[i].of \in Chats
    <3>1. \A i \in 1..Len(toTab) : toTab[i] \in MessageFrames
      BY DEF TabTyped
    <3>2. QED
      BY <3>1 DEF MessageFrames
  <2>2. \A d \in Chats : emitting'[d] = 0 \/ emitting'[d] \in written'[d]
    BY <1>3 DEF NothingForeign
  <2>3. \A m \in arrived \cup unheard : \E d \in Chats : m \in written'[d]
    BY <1>5 DEF NothingForeign
  <2>4. \A m \in shown \cup loadBuffer : openChat # NoChat /\ m \in written'[openChat]
    BY <1>5 DEF NothingForeign, TabTyped
  <2>5. QED
    BY <1>2, <1>5, <2>1, <2>2, <2>3, <2>4 DEF NothingForeign
<1>7. GuardHolds'
  BY <1>2 DEF GuardHolds
<1>8. NothingMissed'
  <2>1. SUFFICES ASSUME openChat # NoChat, ~doubled, ~failed, tabLinked \/ ~hasConnected,
                        NEW m \in written'[openChat]
                 PROVE  OnItsWay(m)' \/ WillBeShown(m)'
    BY <1>2 DEF NothingMissed
  <2>2. openChat \in Chats
    BY <2>1 DEF TabTyped
  <2>3. WillBeShown(m)' <=> WillBeShown(m)
    BY <1>2 DEF WillBeShown
  <2>4. CASE m = emitting'[openChat]
    <3>1. m = emitting'[openChat']
      BY <1>2, <2>4
    <3>2. QED
      BY <3>1 DEF OnItsWay
  <2>5. CASE m # emitting'[openChat]
    <3>1. m \in written[openChat]
      BY <1>3, <2>2, <2>5
    <3>2. OnItsWay(m) \/ WillBeShown(m)
      BY <2>1, <3>1 DEF NothingMissed
    <3>3. m # emitting[openChat] \/ openChat # c
      BY <1>1, <1>2, <1>3, <2>2, <3>1 DEF TabTyped
    <3>4. OnItsWay(m) => OnItsWay(m)'
      BY <1>2, <1>3, <2>2, <3>3 DEF OnItsWay
    <3>5. QED
      BY <2>3, <3>2, <3>4
  <2>6. QED
    BY <2>4, <2>5
<1>9. QED
  BY <1>4, <1>6, <1>7, <1>8

\* It is emitted, to a socket that is tuned to its chat.
LEMMA EmitKeeps ==
    ASSUME TabInv, NEW c \in Chats, Emit(c)
    PROVE  TabInv'
<1> USE DEF TabInv
<1> DEFINE f == [of |-> c, message |-> emitting[c]]
<1>1. /\ emitting[c] # 0 /\ emitting' = [emitting EXCEPT ![c] = 0]
      /\ toTab' = IF tabLinked /\ tuned = c THEN Append(toTab, f) ELSE toTab
      /\ unheard' = IF hasConnected /\ (tabLinked => tuned = c) THEN unheard
                    ELSE unheard \cup {emitting[c]}
      /\ UNCHANGED <<written, tabLinked, hasConnected, tuned, toServer, openChat, shown,
                     loadingChat, loadBuffer, loads, arrived, doubled, failed, selects,
                     drops>>
  BY DEF Emit, socket, shownState, pastOfTab
<1>2. emitting[c] \in written[c] /\ emitting[c] \in 1..MaxMessages
  BY <1>1 DEF NothingForeign, TabTyped
<1>3. /\ emitting'[c] = 0 /\ \A d \in Chats \ {c} : emitting'[d] = emitting[d]
      /\ emitting' \in [Chats -> 0..MaxMessages]
  BY <1>1, ClientAssumption DEF TabTyped
<1>4. f \in MessageFrames /\ f.of = c /\ f.message = emitting[c]
  BY <1>2 DEF MessageFrames
<1> HIDE DEF f
<1>5. /\ toTab' \in Seq(MessageFrames)
      /\ \A i \in 1..Len(toTab) : i \in 1..Len(toTab') /\ toTab'[i] = toTab[i]
      /\ \A i \in 1..Len(toTab') : i \in 1..Len(toTab) \/ toTab'[i] = f
      /\ tabLinked /\ tuned = c => \E i \in 1..Len(toTab') : toTab'[i] = f
  <2>1. CASE tabLinked /\ tuned = c
    <3>1. toTab \in Seq(MessageFrames) /\ toTab' = Append(toTab, f)
      BY <1>1, <2>1 DEF TabTyped
    <3>2. /\ toTab' \in Seq(MessageFrames) /\ Len(toTab) \in Nat
          /\ Len(toTab') = Len(toTab) + 1
          /\ \A i \in 1..Len(toTab) : toTab'[i] = toTab[i]
          /\ toTab'[Len(toTab) + 1] = f
      BY <1>4, <3>1, AppendProperties
    <3>3. QED
      BY <3>2
  <2>2. CASE ~(tabLinked /\ tuned = c)
    BY <1>1, <2>2 DEF TabTyped
  <2>3. QED
    BY <2>1, <2>2
<1>6. TabTyped'
  BY <1>1, <1>2, <1>3, <1>5 DEF TabTyped
<1>7. NothingForeign'
  <2>1. \A i \in 1..Len(toTab') : toTab'[i].message \in written[toTab'[i].of]
    BY <1>2, <1>4, <1>5 DEF NothingForeign
  <2>2. \A d \in Chats : emitting'[d] = 0 \/ emitting'[d] \in written[d]
    BY <1>3 DEF NothingForeign
  <2>3. \A m \in arrived \cup unheard' : \E d \in Chats : m \in written[d]
    BY <1>1, <1>2 DEF NothingForeign
  <2>4. QED
    BY <1>1, <2>1, <2>2, <2>3 DEF NothingForeign
<1>8. GuardHolds'
  BY <1>1 DEF GuardHolds
<1>9. NothingMissed'
  <2>1. SUFFICES ASSUME openChat # NoChat, ~doubled, ~failed, tabLinked \/ ~hasConnected,
                        NEW m \in written[openChat]
                 PROVE  OnItsWay(m)' \/ WillBeShown(m)'
    BY <1>1 DEF NothingMissed
  <2>2. WillBeShown(m)' <=> WillBeShown(m)
    BY <1>1 DEF WillBeShown
  <2>3. OnItsWay(m) \/ WillBeShown(m)
    BY <2>1 DEF NothingMissed
  <2>4. ASSUME OnItsWay(m) PROVE OnItsWay(m)'
    <3>1. CASE openChat = c /\ m = emitting[c]
      <4>1. CASE tabLinked /\ tuned = c
        BY <1>1, <1>4, <1>5, <3>1, <4>1 DEF OnItsWay
      <4>2. CASE ~(tabLinked /\ tuned = c)
        <5>1. m \in unheard'
          BY <1>1, <2>1, <3>1, <4>2
        <5>2. QED
          BY <5>1 DEF OnItsWay
      <4>3. QED
        BY <4>1, <4>2
    <3>2. CASE m \in unheard
      BY <1>1, <3>2 DEF OnItsWay
    <3>3. CASE m = emitting[openChat] /\ openChat # c
      BY <1>1, <1>3, <2>1, <3>3 DEF OnItsWay, TabTyped
    <3>4. CASE \E i \in 1..Len(toTab) : toTab[i].of = openChat /\ toTab[i].message = m
      BY <1>1, <1>5, <3>4 DEF OnItsWay
    <3>5. QED
      BY <2>4, <3>1, <3>2, <3>3, <3>4 DEF OnItsWay
  <2>5. QED
    BY <2>2, <2>3, <2>4
<1>10. QED
  BY <1>6, <1>7, <1>8, <1>9

\* The server tunes the socket.
LEMMA TuneKeeps ==
    ASSUME TabInv, Tune
    PROVE  TabInv'
<1> USE DEF TabInv
<1>1. /\ toServer # <<>> /\ toServer' = Tail(toServer) /\ tuned' = Head(toServer)
      /\ UNCHANGED <<written, emitting, tabLinked, hasConnected, toTab, openChat, shown,
                     loadingChat, loadBuffer, loads, unheard, arrived, doubled, failed,
                     selects, drops>>
  BY DEF Tune, shownState, pastOfTab
<1>2. toServer' \in Seq(Chats \cup {NoChat}) /\ tuned' \in Chats \cup {NoChat}
  BY <1>1, HeadTailProperties DEF TabTyped
<1>3. TabTyped'
  BY <1>1, <1>2 DEF TabTyped
<1>4. NothingForeign'
  BY <1>1 DEF NothingForeign
<1>5. GuardHolds'
  <2>1. tabLinked
    BY <1>1 DEF GuardHolds, TabTyped
  <2>2. QED
    BY <1>1, <2>1 DEF GuardHolds
<1>6. NothingMissed'
  BY <1>1 DEF NothingMissed, OnItsWay, WillBeShown
<1>7. QED
  BY <1>3, <1>4, <1>5, <1>6

\* A transcript is read at the server.
LEMMA GetSessionKeeps ==
    ASSUME TabInv, NEW l \in 1..MaxSelects, GetSession(l)
    PROVE  TabInv'
<1> USE DEF TabInv
<1> DEFINE r == [loads[l] EXCEPT !.at = "answered", !.has = written[loads[l].of]]
<1>1. /\ loads[l].at = "asked" /\ loads' = [loads EXCEPT ![l] = r]
      /\ UNCHANGED <<written, emitting, tabLinked, hasConnected, tuned, toServer, toTab,
                     openChat, shown, loadingChat, loadBuffer, arrived, doubled, failed,
                     selects, drops>>
      /\ unheard' = IF loads[l].of = openChat THEN unheard \ written[openChat] ELSE unheard
  BY DEF GetSession, socket, shownState, pastOfTab
<1>2. loads[l] \in LoadStates /\ loads[l].of \in Chats
  BY <1>1 DEF TabTyped, NothingForeign, NoLoad
<1>3. /\ r \in LoadStates /\ r # NoLoad
      /\ r.of = loads[l].of /\ r.at = "answered" /\ r.has = written[loads[l].of]
  BY <1>2 DEF LoadStates, NoLoad, TabTyped
<1> HIDE DEF r
<1>4. /\ loads'[l] = r /\ \A j \in (1..MaxSelects) \ {l} : loads'[j] = loads[j]
      /\ loads' \in [1..MaxSelects -> LoadStates]
  BY <1>1, <1>3 DEF TabTyped
<1>5. TabTyped'
  BY <1>1, <1>4 DEF TabTyped
<1>6. \A j \in 1..MaxSelects : loads'[j].of = loads[j].of
  BY <1>3, <1>4
<1>7. NothingForeign'
  BY <1>1, <1>2, <1>3, <1>4 DEF NothingForeign
<1>8. GuardHolds'
  <2>1. loads[l] # NoLoad
    BY <1>1 DEF NoLoad
  <2>2. \A j \in 1..MaxSelects : j > selects => loads'[j] = NoLoad
    BY <1>4, <2>1 DEF GuardHolds
  <2>3. QED
    BY <1>1, <1>6, <2>2 DEF GuardHolds
<1>9. NothingMissed'
  <2>1. SUFFICES ASSUME openChat # NoChat, ~doubled, ~failed, tabLinked \/ ~hasConnected,
                        NEW m \in written[openChat]
                 PROVE  OnItsWay(m)' \/ WillBeShown(m)'
    BY <1>1 DEF NothingMissed
  <2>2. OnItsWay(m) \/ WillBeShown(m)
    BY <2>1 DEF NothingMissed
  <2>3. CASE loads[l].of = openChat
    <3>1. \A j \in 1..MaxSelects : loads'[j].of = openChat => j = l
      BY <1>6, <2>1, <2>3 DEF GuardHolds
    <3>2. openChat' = openChat /\ loads'[l].of = openChat /\ m \in loads'[l].has
      BY <1>1, <1>3, <1>4, <2>1, <2>3
    <3>3. QED
      BY <3>1, <3>2 DEF WillBeShown
  <2>4. CASE loads[l].of # openChat
    <3>1. OnItsWay(m) => OnItsWay(m)'
      BY <1>1, <2>4 DEF OnItsWay
    <3>2. WillBeShown(m) => WillBeShown(m)'
      BY <1>1, <1>3, <1>4, <1>6 DEF WillBeShown
    <3>3. QED
      BY <2>2, <3>1, <3>2
  <2>5. QED
    BY <2>3, <2>4
<1>10. QED
  BY <1>5, <1>7, <1>8, <1>9

\* A chat is selected: nothing is shown of it, and it is loaded.
LEMMA SelectSessionKeeps ==
    ASSUME TabInv, NEW c \in Chats \cup {NoChat}, NEW fs \in Seq(Chats \cup {NoChat}),
           SelectSession(c, fs), tabLinked' \in BOOLEAN, hasConnected' \in BOOLEAN,
           tabLinked => tabLinked', tabLinked' => hasConnected', ~tabLinked' => fs = <<>>,
           UNCHANGED <<written, emitting, tuned, toTab, unheard, drops>>
    PROVE  TabInv'
<1> USE DEF TabInv
<1> DEFINE new == selects + 1
           r == [of |-> c, at |-> "asked", has |-> {}]
<1>1. /\ new \in 1..MaxSelects /\ selects' = new /\ selects' \in 0..MaxSelects
      /\ \A l \in 1..MaxSelects : l > new => l > selects /\ l # new
      /\ new > selects
  BY ClientAssumption DEF SelectSession, TabTyped
<1>2. /\ openChat' = c /\ shown' = {} /\ loadingChat' = c /\ loadBuffer' = {}
      /\ toServer' = fs /\ arrived' = {} /\ failed' = FALSE
      /\ loads' = IF c = NoChat THEN loads ELSE [loads EXCEPT ![new] = r]
      /\ doubled' = (c # NoChat /\ Loading(c))
  BY DEF SelectSession
<1>3. r \in LoadStates /\ r # NoLoad /\ r.of = c /\ r.at = "asked" /\ r.has = {}
  BY DEF LoadStates, NoLoad
<1> HIDE DEF new, r
<1>4. /\ loads' \in [1..MaxSelects -> LoadStates]
      /\ \A l \in (1..MaxSelects) \ {new} : loads'[l] = loads[l]
      /\ loads'[new] = IF c = NoChat THEN NoLoad ELSE r
      /\ loads[new] = NoLoad
  BY <1>1, <1>2, <1>3 DEF TabTyped, GuardHolds
<1>5. TabTyped'
  <2>1. doubled' \in BOOLEAN
    BY <1>2, Zenon
  <2>2. QED
    BY <1>1, <1>2, <1>4, <2>1 DEF TabTyped
<1>6. NothingForeign'
  <2>1. loads'[new] = NoLoad \/ (loads'[new].at # "none" /\ loads'[new].of \in Chats
                                 /\ loads'[new].has \subseteq written[loads'[new].of])
    BY <1>3, <1>4
  <2>2. QED
    BY <1>2, <1>4, <2>1 DEF NothingForeign
<1>7. ~doubled' /\ c # NoChat =>
          \A l \in 1..MaxSelects : (loads'[l].of = c <=> l = new)
  <2>1. SUFFICES ASSUME ~doubled', c # NoChat, NEW l \in 1..MaxSelects
                 PROVE  loads'[l].of = c <=> l = new
    OBVIOUS
  <2>2. CASE l = new
    BY <1>3, <1>4, <2>1, <2>2
  <2>3. CASE l # new
    <3>1. ~Loading(c)
      BY <1>2, <2>1
    <3>2. loads[l] = NoLoad \/ loads[l].at # "none"
      BY DEF NothingForeign
    <3>3. loads[l].of # c
      BY <2>1, <3>1, <3>2 DEF Loading, NoLoad
    <3>4. QED
      BY <1>4, <2>3, <3>3
  <2>4. QED
    BY <2>2, <2>3
<1>8. GuardHolds'
  <2>1. \A l \in 1..MaxSelects : l > selects' => loads'[l] = NoLoad
    BY <1>1, <1>4 DEF GuardHolds
  <2>2. ~tabLinked' => toTab' = <<>> /\ toServer' = <<>> /\ tuned' = NoChat
    BY <1>2 DEF GuardHolds, TabTyped
  <2>3. QED
    BY <1>2, <1>7, <2>1, <2>2 DEF GuardHolds
<1>9. NothingMissed'
  <2>1. SUFFICES ASSUME c # NoChat, ~doubled', NEW m \in written'[c] PROVE WillBeShown(m)'
    BY <1>2 DEF NothingMissed
  <2>2. loads'[new].of = c /\ loads'[new].at = "asked"
    BY <1>3, <1>4, <2>1
  <2>3. QED
    BY <1>1, <1>2, <1>7, <2>1, <2>2 DEF WillBeShown
<1>10. QED
  BY <1>5, <1>6, <1>8, <1>9

\* The user selects a chat.
LEMMA SelectKeeps ==
    ASSUME TabInv, NEW c \in Chats \cup {NoChat}, Select(c)
    PROVE  TabInv'
<1> DEFINE fs == IF tabLinked THEN Append(toServer, c) ELSE toServer
<1>1. /\ SelectSession(c, fs)
      /\ UNCHANGED <<written, emitting, tabLinked, hasConnected, tuned, toTab, unheard, drops>>
  BY DEF Select, socket
<1>2. fs \in Seq(Chats \cup {NoChat}) /\ (~tabLinked => fs = <<>>)
  BY AppendProperties DEF TabInv, TabTyped, GuardHolds
<1>3. tabLinked \in BOOLEAN /\ hasConnected \in BOOLEAN /\ (tabLinked => hasConnected)
  BY DEF TabInv, TabTyped, GuardHolds
<1> HIDE DEF fs
<1>4. QED
  BY <1>1, <1>2, <1>3, SelectSessionKeeps

\* A socket opens.
LEMMA SocketOpensKeeps ==
    ASSUME TabInv, SocketOpens
    PROVE  TabInv'
<1>1. /\ ~tabLinked /\ tabLinked' = TRUE /\ hasConnected' = TRUE
      /\ UNCHANGED <<written, emitting, tuned, toTab, unheard, drops>>
  BY DEF SocketOpens
<1>2. Subscription \in Seq(Chats \cup {NoChat})
  <2>1. openChat # NoChat => openChat \in Chats
    BY DEF TabInv, TabTyped
  <2>2. QED
    BY <2>1 DEF Subscription
<1>3. CASE hasConnected /\ openChat # NoChat
  <2> DEFINE fs == Subscription \o Subscription
  <2>1. fs \in Seq(Chats \cup {NoChat})
    BY <1>2
  <2>2. SelectSession(openChat, fs) /\ openChat \in Chats \cup {NoChat}
    BY <1>3 DEF SocketOpens, TabInv, TabTyped
  <2> HIDE DEF fs
  <2>3. QED
    BY <1>1, <2>1, <2>2, SelectSessionKeeps
<1>4. CASE ~(hasConnected /\ openChat # NoChat)
  <2> USE DEF TabInv
  <2>1. /\ toServer' = Subscription
        /\ UNCHANGED <<openChat, shown, loadingChat, loadBuffer, loads, arrived, doubled,
                       failed, selects>>
    BY <1>4 DEF SocketOpens, shownState, pastOfTab
  <2>2. TabTyped'
    BY <1>1, <1>2, <2>1 DEF TabTyped
  <2>3. NothingForeign'
    BY <1>1, <2>1 DEF NothingForeign
  <2>4. GuardHolds'
    BY <1>1, <2>1 DEF GuardHolds
  <2>5. NothingMissed'
    BY <1>1, <1>4, <2>1 DEF NothingMissed, OnItsWay, WillBeShown
  <2>6. QED
    BY <2>2, <2>3, <2>4, <2>5
<1>5. QED
  BY <1>3, <1>4

\* A socket drops, and what was on it is lost.
LEMMA SocketDropsKeeps ==
    ASSUME TabInv, SocketDrops
    PROVE  TabInv'
<1> USE DEF TabInv
<1>1. /\ tabLinked /\ tabLinked' = FALSE /\ tuned' = NoChat
      /\ toServer' = <<>> /\ toTab' = <<>> /\ drops < MaxDrops /\ drops' = drops + 1
      /\ UNCHANGED <<written, emitting, hasConnected, openChat, shown, loadingChat,
                     loadBuffer, loads, unheard, arrived, doubled, failed, selects>>
  BY DEF SocketDrops, shownState, pastOfTab
<1>2. drops' \in 0..MaxDrops
  BY <1>1, ClientAssumption DEF TabTyped
<1>3. TabTyped'
  <2>1. toServer' \in Seq(Chats \cup {NoChat})
    BY <1>1
  <2>2. toTab' \in Seq(MessageFrames)
    BY <1>1
  <2>3. {tuned', openChat', loadingChat'} \subseteq Chats \cup {NoChat}
    BY <1>1 DEF TabTyped
  <2>4. QED
    BY <1>1, <1>2, <2>1, <2>2, <2>3 DEF TabTyped
<1>4. NothingForeign'
  BY <1>1 DEF NothingForeign
<1>5. GuardHolds'
  BY <1>1 DEF GuardHolds
<1>6. NothingMissed'
  BY <1>1 DEF NothingMissed, GuardHolds
<1>7. QED
  BY <1>3, <1>4, <1>5, <1>6

\* A message comes: one of the open chat is shown, and kept for a load under way.
LEMMA OnEventKeeps ==
    ASSUME TabInv, OnEvent
    PROVE  TabInv'
<1> USE DEF TabInv
<1> DEFINE f == Head(toTab)
           rest == Tail(toTab)
<1>1. /\ toTab # <<>> /\ toTab' = rest
      /\ IF f.of = openChat
         THEN /\ shown' = shown \cup {f.message} /\ arrived' = arrived \cup {f.message}
              /\ loadBuffer' = IF loadingChat = openChat THEN loadBuffer \cup {f.message}
                               ELSE loadBuffer
         ELSE shown' = shown /\ arrived' = arrived /\ loadBuffer' = loadBuffer
      /\ UNCHANGED <<written, emitting, tabLinked, hasConnected, tuned, toServer, openChat,
                     loadingChat, loads, unheard, doubled, failed, selects, drops>>
  BY DEF OnEvent, socket
<1>2. toTab \in Seq(MessageFrames) /\ f = toTab[1] /\ Len(toTab) \in Nat
  BY <1>1 DEF TabTyped
<1>3. /\ f \in MessageFrames /\ rest \in Seq(MessageFrames) /\ Len(rest) = Len(toTab) - 1
      /\ \A i \in 1..Len(rest) : rest[i] = toTab[i + 1]
  BY <1>1, <1>2, HeadTailProperties
<1> HIDE DEF f, rest
<1>4. 1 \in 1..Len(toTab) /\ \A i \in 1..Len(rest) : i + 1 \in 1..Len(toTab)
  BY <1>1, <1>2, <1>3
<1>5. /\ \A i \in 2..Len(toTab) : i - 1 \in 1..Len(rest) /\ rest[i - 1] = toTab[i]
      /\ \A i \in 1..Len(toTab) : i = 1 \/ i \in 2..Len(toTab)
  BY <1>2, <1>3
<1>6. f.of \in Chats /\ f.message \in 1..MaxMessages /\ f.message \in written[f.of]
  BY <1>2, <1>3, <1>4 DEF MessageFrames, NothingForeign
<1>7. TabTyped'
  BY <1>1, <1>3, <1>6 DEF TabTyped
<1>8. NothingForeign'
  <2>1. \A i \in 1..Len(rest) : rest[i].message \in written[rest[i].of]
    BY <1>3, <1>4 DEF NothingForeign
  <2>2. \A m \in shown' \cup loadBuffer' : openChat # NoChat /\ m \in written[openChat]
    BY <1>1, <1>6, ClientAssumption DEF NothingForeign
  <2>3. \A m \in arrived' \cup unheard : \E c \in Chats : m \in written[c]
    BY <1>1, <1>6 DEF NothingForeign
  <2>4. QED
    BY <1>1, <2>1, <2>2, <2>3 DEF NothingForeign
<1>9. GuardHolds'
  BY <1>1 DEF GuardHolds
<1>10. NothingMissed'
  <2>1. SUFFICES ASSUME openChat # NoChat, ~doubled, ~failed, tabLinked \/ ~hasConnected,
                        NEW m \in written[openChat]
                 PROVE  OnItsWay(m)' \/ WillBeShown(m)'
    BY <1>1 DEF NothingMissed
  <2>2. OnItsWay(m) \/ WillBeShown(m)
    BY <2>1 DEF NothingMissed
  <2>3. shown \subseteq shown' /\ loadBuffer \subseteq loadBuffer'
    BY <1>1
  <2>4. WillBeShown(m) => WillBeShown(m)'
    BY <1>1, <2>3 DEF WillBeShown
  <2>5. CASE f.of = openChat /\ f.message = m
    <3>1. m \in shown'
      BY <1>1, <2>5
    <3>2. \A l \in 1..MaxSelects : loads[l].of = openChat => m \in loadBuffer'
      BY <1>1, <2>1, <2>5 DEF GuardHolds
    <3>3. QED
      BY <1>1, <3>1, <3>2 DEF WillBeShown
  <2>6. CASE ~(f.of = openChat /\ f.message = m)
    <3>1. OnItsWay(m) => OnItsWay(m)'
      <4>1. ASSUME NEW i \in 1..Len(toTab), toTab[i].of = openChat, toTab[i].message = m
            PROVE  \E j \in 1..Len(rest) : rest[j].of = openChat /\ rest[j].message = m
        <5>1. i \in 2..Len(toTab)
          BY <1>2, <1>5, <2>6, <4>1
        <5>2. QED
          BY <1>5, <4>1, <5>1
      <4>2. QED
        BY <1>1, <4>1 DEF OnItsWay
    <3>2. QED
      BY <2>2, <2>4, <3>1
  <2>7. QED
    BY <2>5, <2>6
<1>11. QED
  BY <1>7, <1>8, <1>9, <1>10

\* A load ends: what came meanwhile is added to it.
LEMMA LoadEndsKeeps ==
    ASSUME TabInv, NEW l \in 1..MaxSelects, Loaded(l) \/ LoadFails(l)
    PROVE  TabInv'
<1> USE DEF TabInv
<1> DEFINE c == loads[l].of
<1>1. /\ loads[l].at # "none" /\ loads' = [loads EXCEPT ![l] = NoLoad]
      /\ Disarm(c)
      /\ UNCHANGED <<written, emitting, tabLinked, hasConnected, tuned, toServer, toTab,
                     openChat, unheard, arrived, doubled, selects, drops>>
  BY DEF Loaded, LoadFails, socket, pastOfTab
<1>2. loads[l] # NoLoad /\ c \in Chats /\ loads[l].has \subseteq written[c]
      /\ loads[l] \in LoadStates
  BY <1>1 DEF NoLoad, NothingForeign, TabTyped
<1>3. \/ /\ loads[l].at = "answered" /\ failed' = failed
         /\ shown' = IF openChat # c THEN shown
                     ELSE loads[l].has \cup (IF loadingChat = openChat THEN loadBuffer ELSE {})
      \/ failed' = (failed \/ openChat = c) /\ shown' = shown
  BY DEF Loaded, LoadFails, pastOfTab
<1>4. IF loadingChat = c THEN loadingChat' = NoChat /\ loadBuffer' = {}
      ELSE loadingChat' = loadingChat /\ loadBuffer' = loadBuffer
  BY <1>1 DEF Disarm
<1> HIDE DEF c
<1>5. /\ loads'[l] = NoLoad /\ \A j \in (1..MaxSelects) \ {l} : loads'[j] = loads[j]
      /\ loads' \in [1..MaxSelects -> LoadStates]
  BY <1>1 DEF TabTyped, LoadStates, NoLoad
<1>6. /\ loads[l].has \subseteq 1..MaxMessages
      /\ failed' \in BOOLEAN
      /\ shown' \cup loadBuffer' \subseteq shown \cup loadBuffer \cup loads[l].has
  <2>1. failed' \in BOOLEAN
    BY <1>3 DEF TabTyped
  <2>2. QED
    BY <1>2, <1>3, <1>4, <2>1 DEF LoadStates
<1>7. TabTyped'
  BY <1>1, <1>4, <1>5, <1>6 DEF TabTyped
<1>8. NothingForeign'
  <2>1. \A m \in shown' \cup loadBuffer' : openChat # NoChat /\ m \in written[openChat]
    BY <1>2, <1>3, <1>4, ClientAssumption DEF NothingForeign
  <2>2. QED
    BY <1>1, <1>5, <2>1 DEF NothingForeign
<1>9. GuardHolds'
  <2>1. \A j \in 1..MaxSelects : loads'[j] = loads[j] \/ loads'[j] = NoLoad
    BY <1>5
  <2>2. NoLoad.of = NoChat
    BY DEF NoLoad
  <2>3. ~doubled /\ openChat # NoChat =>
            \A j \in 1..MaxSelects : loads'[j].of = openChat => loadingChat' = openChat
    BY <1>2, <1>4, <1>5, <2>2 DEF GuardHolds, c
  <2>4. loadingChat' \in {openChat, NoChat}
    BY <1>4 DEF GuardHolds
  <2>5. QED
    BY <1>1, <2>1, <2>2, <2>3, <2>4 DEF GuardHolds
<1>10. NothingMissed'
  <2>1. SUFFICES ASSUME openChat # NoChat, ~doubled, ~failed', tabLinked \/ ~hasConnected,
                        NEW m \in written[openChat]
                 PROVE  OnItsWay(m)' \/ WillBeShown(m)'
    BY <1>1 DEF NothingMissed
  <2>2. OnItsWay(m) \/ WillBeShown(m)
    BY <1>3, <2>1 DEF NothingMissed
  <2>3. OnItsWay(m) => OnItsWay(m)'
    BY <1>1 DEF OnItsWay
  <2>4. NoLoad.of = NoChat
    BY DEF NoLoad
  <2>5. ASSUME WillBeShown(m) PROVE WillBeShown(m)'
    <3>1. CASE openChat = c
      <4>1. /\ loadingChat = openChat /\ loads[l].at = "answered"
            /\ shown' = loads[l].has \cup loadBuffer
            /\ \A j \in 1..MaxSelects : loads[j].of = openChat => j = l
        BY <1>3, <2>1, <3>1 DEF GuardHolds, c
      <4>2. m \in loads[l].has \cup loadBuffer
        BY <2>5, <3>1, <4>1 DEF WillBeShown, c
      <4>3. \A j \in 1..MaxSelects : loads'[j].of # openChat
        BY <1>5, <2>1, <2>4, <4>1
      <4>4. QED
        BY <1>1, <4>1, <4>2, <4>3 DEF WillBeShown
    <3>2. CASE openChat # c
      <4>1. shown' = shown
        BY <1>3, <3>2
      <4>2. \A j \in 1..MaxSelects : loads[j].of = openChat <=> loads'[j].of = openChat
        BY <1>5, <2>1, <2>4, <3>2 DEF c
      <4>3. \A j \in 1..MaxSelects : loads[j].of = openChat =>
                loads'[j] = loads[j] /\ loadBuffer' = loadBuffer
        BY <1>4, <1>5, <2>1, <3>2 DEF c, GuardHolds
      <4>4. QED
        BY <1>1, <2>5, <4>1, <4>2, <4>3 DEF WillBeShown
    <3>3. QED
      BY <3>1, <3>2
  <2>6. QED
    BY <2>2, <2>3, <2>5
<1>11. QED
  BY <1>7, <1>8, <1>9, <1>10

\* Each step keeps it.
LEMMA TabStepInvariant == TabInv /\ [ClientNext]_tabVars => TabInv'
<1> SUFFICES ASSUME TabInv, [ClientNext]_tabVars PROVE TabInv'
  OBVIOUS
<1>1. CASE UNCHANGED tabVars
  BY <1>1 DEF tabVars, socket, shownState, pastOfTab, TabInv, TabTyped, NothingForeign,
     GuardHolds, NothingMissed, OnItsWay, WillBeShown
<1>2. ASSUME NEW c \in Chats, Write(c) \/ Emit(c) PROVE TabInv'
  BY <1>2, WriteKeeps, EmitKeeps
<1>3. ASSUME NEW c \in Chats \cup {NoChat}, Select(c) PROVE TabInv'
  BY <1>3, SelectKeeps
<1>4. CASE Tune \/ OnEvent \/ SocketDrops \/ SocketOpens
  BY <1>4, TuneKeeps, OnEventKeeps, SocketDropsKeeps, SocketOpensKeeps
<1>5. ASSUME NEW l \in 1..MaxSelects, GetSession(l) \/ Loaded(l) \/ LoadFails(l) PROVE TabInv'
  BY <1>5, GetSessionKeeps, LoadEndsKeeps
<1>6. QED
  BY <1>1, <1>2, <1>3, <1>4, <1>5 DEF ClientNext

\* It implies what the runs check.
LEMMA TabInvariantSuffices == TabInv => ClientTypeOK /\ SettledShowsTheChat
<1> SUFFICES ASSUME TabInv PROVE ClientTypeOK /\ SettledShowsTheChat
  OBVIOUS
<1> USE DEF TabInv
<1>1. /\ \A c \in Chats : written[c] \subseteq AllWritten
      /\ \A m \in AllWritten : \E c \in Chats : m \in written[c]
  BY WrittenIsNumbered
<1>2. shown \cup loadBuffer \cup arrived \cup unheard \subseteq AllWritten
  <2>1. openChat # NoChat => openChat \in Chats
    BY DEF TabTyped
  <2>2. QED
    BY <1>1, <2>1 DEF NothingForeign
<1>3. \A l \in 1..MaxSelects : loads[l].has \subseteq AllWritten
  <2>1. NoLoad.has = {}
    BY DEF NoLoad
  <2>2. QED
    BY <1>1, <2>1 DEF NothingForeign
<1>4. ClientTypeOK
  <2>1. tuned # NoChat => tabLinked
    BY DEF GuardHolds, TabTyped
  <2>2. QED
    BY <1>2, <1>3, <2>1 DEF ClientTypeOK, TabTyped
<1>5. ASSUME Settled, openChat # NoChat
      PROVE  /\ shown \subseteq written[openChat]
             /\ ~doubled /\ ~failed => written[openChat] \subseteq shown \cup unheard
  <2>1. shown \subseteq written[openChat]
    BY DEF NothingForeign
  <2>2. ASSUME ~doubled, ~failed, NEW m \in written[openChat] PROVE m \in shown \cup unheard
    <3>1. /\ openChat \in Chats /\ tabLinked /\ toTab = <<>> /\ emitting[openChat] = 0
          /\ \A l \in 1..MaxSelects : loads[l].of = NoChat
      BY <1>5 DEF Settled, NoLoad, TabTyped
    <3>2. m # 0
      BY <2>2, <3>1 DEF TabTyped
    <3>3. OnItsWay(m) \/ WillBeShown(m)
      BY <1>5, <2>2, <3>1 DEF NothingMissed
    <3>4. QED
      BY <1>5, <3>1, <3>2, <3>3 DEF OnItsWay, WillBeShown
  <2>3. QED
    BY <2>1, <2>2
<1>6. QED
  BY <1>4, <1>5 DEF SettledShowsTheChat

-----------------------------------------------------------------------------
(* The list of chats.                                                      *)

ListRows == [mode : Modes3, archived : BOOLEAN, unread : BOOLEAN, running : BOOLEAN,
             compacting : BOOLEAN]
Fields == {"mode", "archived", "unread", "running", "compacting"}
FrameStates ==
    [kind : {"meta", "start", "end", "compacting", "mode", "archived", "unarchived"},
     row : ListRows]
FetchStates == [at : {"none", "asked", "answered"}, has : Seq(ListRows), overtaken : BOOLEAN]
ClickStates == [at : {"none", "asked", "answered"}, mode : Modes3, previous : Modes3,
                overtaken : BOOLEAN]

ListTyped ==
    /\ chatRow \in ListRows \cup {NoChatRow}
    /\ frames \in Seq(FrameStates) /\ listed \in Seq(ListRows)
    /\ fetches \in [1..MaxFetches -> FetchStates] /\ creation \in FetchStates
    /\ clicks \in [1..MaxClicks -> ClickStates]
    /\ archiving \in {"none", "asked", "answered"} /\ reading \in Nat
    /\ happened \in 0..MaxHappenings /\ failures \in 0..MaxFailures

\* Nothing is known of a chat before it is made.
Newness ==
    /\ ~There => /\ frames = <<>> /\ listed = <<>> /\ ~isCurrent /\ ~turnDue
                 /\ reading = 0 /\ archiving = "none"
                 /\ \A l \in 1..MaxFetches : fetches[l].has = <<>>
                 /\ \A k \in 1..MaxClicks : clicks[k].at = "none"
    /\ creation.at = "asked" => ~There
    /\ creation.at = "answered" => There /\ creation.has = <<FreshRow>> /\ Len(listed) =< 1
    /\ turnDue => chatRow.running
    /\ \A l \in 1..MaxFetches : Len(fetches[l].has) =< 1
    /\ Len(listed) =< 2
    /\ sideLinked => sideConnected
    /\ ~sideLinked => frames = <<>>

\* What a frame says of the chat's row.
Tells(f, field) ==
    \/ f.kind = "meta"
    \/ f.kind \in {"start", "end"} /\ field = "running"
    \/ f.kind \in {"compacting", "mode"} /\ field = f.kind
    \/ f.kind \in {"archived", "unarchived"} /\ field = "archived"

TellsSo(f) ==
    /\ f.kind \in {"start", "end"} => f.row.running = (f.kind = "start")
    /\ f.kind \in {"archived", "unarchived"} => f.row.archived = (f.kind = "archived")

Told(queue, field) == \E i \in 1..Len(queue) : Tells(queue[i], field)

\* The frames on the socket end with the row as it is, but for a turn that is due.
EndsWith(queue, r, due) ==
    \A i \in 1..Len(queue), field \in Fields :
        \/ ~Tells(queue[i], field)
        \/ \E j \in 1..Len(queue) : j > i /\ Tells(queue[j], field)
        \/ field = "running" /\ due
        \/ queue[i].row[field] = r[field]

LastWord ==
    /\ \A i \in 1..Len(frames) : TellsSo(frames[i])
    /\ ~silent => EndsWith(frames, chatRow, turnDue)

\* A list has a field as it is ...
Has(r, list, field) ==
    /\ \A i \in 1..Len(list) : list[i][field] = r[field]
    /\ field = "archived" => Len(list) = IF r = NoChatRow \/ r.archived THEN 0 ELSE 1

\* ... or will have it when the frames have come.
Right(queue, r, list, fields) ==
    \A field \in fields : Told(queue, field) \/ Has(r, list, field)

Certain(due) == {field \in Fields : field = "running" => ~due}
CertainBut(due, asked, reads) ==
    {field \in Certain(due) : (field = "mode" => asked = {}) /\ (field = "unread" => reads = 0)}

AskedClicks == {k \in 1..MaxClicks : clicks[k].at = "asked"}

\* No fetch will replace the list.
Calm ==
    /\ \A l \in 1..MaxFetches : fetches[l].at = "none"
    /\ ~misled /\ ~silent /\ (sideLinked \/ ~sideConnected)

WithMode(list, mode) == [i \in DOMAIN list |-> [list[i] EXCEPT !.mode = mode]]

ListWillBeRight ==
    Calm => Right(frames, chatRow, listed, CertainBut(turnDue, AskedClicks, reading))

RollbackWillBeRight ==
    Calm => \A k \in AskedClicks :
                clicks[k].overtaken
                \/ Right(frames, chatRow, WithMode(listed, clicks[k].previous),
                         CertainBut(turnDue, AskedClicks \ {k}, reading))

AnswersWillBeRight ==
    /\ ~silent => \A l \in 1..MaxFetches :
            fetches[l].at = "answered" /\ ~fetches[l].overtaken =>
                Right(frames, chatRow, fetches[l].has, Certain(turnDue))
    /\ creation.at = "answered" /\ ~creation.overtaken =>
            /\ listed = <<>>
            /\ ~silent => Right(frames, chatRow, creation.has, Certain(turnDue))

ListInv ==
    /\ ListTyped /\ Newness /\ LastWord
    /\ ListWillBeRight /\ RollbackWillBeRight /\ AnswersWillBeRight

\* What shows with a frame more than before, of a row that has not changed otherwise.
LEMMA RightGrows ==
    ASSUME NEW q \in Seq(FrameStates), NEW fs \in Seq(FrameStates), NEW r, NEW s,
           NEW list, NEW fields, NEW more \in SUBSET Fields, Right(q, r, list, fields),
           \A field \in Fields : Told(fs, field) \/ r[field] = s[field],
           ~Told(fs, "archived") => (r = NoChatRow <=> s = NoChatRow),
           r.archived = r["archived"], s.archived = s["archived"],
           \A field \in more : field \in fields \/ Told(fs, field)
    PROVE  Right(q \o fs, s, list, more)
<1>1. \A field \in Fields : Told(q, field) \/ Told(fs, field) => Told(q \o fs, field)
  <2>1. Len(q) \in Nat /\ Len(fs) \in Nat /\ Len(q \o fs) = Len(q) + Len(fs)
    BY ConcatProperties
  <2>2. \A i \in 1..Len(q) : i \in 1..Len(q \o fs) /\ (q \o fs)[i] = q[i]
    BY <2>1, ConcatProperties
  <2>3. \A i \in 1..Len(fs) :
            Len(q) + i \in 1..Len(q \o fs) /\ (q \o fs)[Len(q) + i] = fs[i]
    BY <2>1, ConcatProperties
  <2>4. QED
    BY <2>2, <2>3 DEF Told
<1>2. SUFFICES ASSUME NEW field \in more, ~Told(q, field), ~Told(fs, field)
               PROVE  Has(s, list, field)
  BY <1>1 DEF Right
<1>3. Has(r, list, field) /\ r[field] = s[field]
  BY <1>2 DEF Right
<1>4. QED
  BY <1>2, <1>3 DEF Has

\* The frames that are added last say what is.
LEMMA LastWordGrows ==
    ASSUME NEW q \in Seq(FrameStates), NEW fs \in Seq(FrameStates), NEW r, NEW s,
           NEW due, NEW still, EndsWith(q, r, due),
           \A i \in 1..Len(fs) : fs[i].row = s,
           \A field \in Fields : Told(fs, field) \/ r[field] = s[field],
           due => still \/ Told(fs, "running")
    PROVE  EndsWith(q \o fs, s, still)
<1> DEFINE t == q \o fs
<1>1. Len(q) \in Nat /\ Len(fs) \in Nat /\ Len(t) = Len(q) + Len(fs)
  BY ConcatProperties
<1>2. \A i \in 1..Len(q) : i \in 1..Len(t) /\ t[i] = q[i]
  BY <1>1, ConcatProperties
<1>3. \A i \in 1..Len(fs) : Len(q) + i \in 1..Len(t) /\ t[Len(q) + i] = fs[i]
  BY <1>1, ConcatProperties
<1>4. \A i \in 1..Len(t) :
          \/ i \in 1..Len(q)
          \/ i - Len(q) \in 1..Len(fs) /\ i = Len(q) + (i - Len(q))
  BY <1>1
<1> HIDE DEF t
<1>5. SUFFICES ASSUME NEW i \in 1..Len(t), NEW field \in Fields, Tells(t[i], field),
                      ~(\E j \in 1..Len(t) : j > i /\ Tells(t[j], field)),
                      ~(field = "running" /\ still)
               PROVE  t[i].row[field] = s[field]
  BY DEF EndsWith, t
<1>6. CASE i \in 1..Len(q)
  <2>1. ~Told(fs, field)
    BY <1>1, <1>3, <1>5, <1>6 DEF Told
  <2>2. ~(\E j \in 1..Len(q) : j > i /\ Tells(q[j], field))
    BY <1>2, <1>5
  <2>3. q[i].row[field] = r[field]
    BY <1>2, <1>5, <1>6, <2>1, <2>2 DEF EndsWith
  <2>4. QED
    BY <1>2, <1>6, <2>1, <2>3
<1>7. CASE i \notin 1..Len(q)
  <2>1. PICK j \in 1..Len(fs) : i = Len(q) + j
    BY <1>4, <1>7
  <2>2. t[i] = fs[j]
    BY <1>3, <2>1
  <2>3. QED
    BY <2>2
<1>8. QED
  BY <1>6, <1>7

\* Answers that a frame overtakes.
LEMMA LateIs ==
    ASSUME fetches \in [1..MaxFetches -> FetchStates]
    PROVE  /\ Late(fetches) \in [1..MaxFetches -> FetchStates]
           /\ \A l \in 1..MaxFetches :
                 /\ Late(fetches)[l].at = fetches[l].at /\ Late(fetches)[l].has = fetches[l].has
                 /\ Late(fetches)[l].at = "answered" => Late(fetches)[l].overtaken
<1>1. \A l \in 1..MaxFetches :
         /\ Overtaken(fetches[l]) \in FetchStates
         /\ Overtaken(fetches[l]).at = fetches[l].at
         /\ Overtaken(fetches[l]).has = fetches[l].has
         /\ Overtaken(fetches[l]).at = "answered" => Overtaken(fetches[l]).overtaken
  BY DEF Overtaken, FetchStates
<1>2. QED
  BY <1>1 DEF Late

\* An answer to newSession() that is overtaken.
LEMMA OvertakenIs ==
    ASSUME NEW one \in FetchStates
    PROVE  /\ Overtaken(one) \in FetchStates
           /\ Overtaken(one).at = one.at /\ Overtaken(one).has = one.has
           /\ Overtaken(one).at = "answered" => Overtaken(one).overtaken
  BY DEF Overtaken, FetchStates

\* The clicks whose idea of the mode before is old.
LEMMA MuddledIs ==
    ASSUME clicks \in [1..MaxClicks -> ClickStates]
    PROVE  /\ Muddled \in [1..MaxClicks -> ClickStates]
           /\ \A k \in 1..MaxClicks :
                 /\ Muddled[k].at = clicks[k].at /\ Muddled[k].mode = clicks[k].mode
                 /\ Muddled[k].at # "none" => Muddled[k].overtaken
<1>1. \A k \in 1..MaxClicks : Muddled[k] = IF clicks[k].at = "none" THEN clicks[k]
                                           ELSE [clicks[k] EXCEPT !.overtaken = TRUE]
  BY DEF Muddled
<1>2. \A k \in 1..MaxClicks : clicks[k] \in ClickStates
  OBVIOUS
<1>3. ASSUME NEW k \in 1..MaxClicks
      PROVE  /\ Muddled[k] \in ClickStates
             /\ Muddled[k].at = clicks[k].at /\ Muddled[k].mode = clicks[k].mode
             /\ Muddled[k].at # "none" => Muddled[k].overtaken
  <2>1. clicks[k] \in ClickStates
    BY <1>2
  <2>2. CASE clicks[k].at = "none"
    BY <1>1, <2>1, <2>2
  <2>3. CASE clicks[k].at # "none"
    <3>1. Muddled[k] = [clicks[k] EXCEPT !.overtaken = TRUE]
      BY <1>1, <2>3
    <3>2. QED
      BY <2>1, <3>1 DEF ClickStates
  <2>4. QED
    BY <2>2, <2>3
<1>4. QED
  BY <1>3 DEF Muddled

\* A row there is.
LEMMA RowThere ==
    ASSUME ListTyped, There
    PROVE  chatRow \in ListRows
  BY DEF ListTyped, There

\* What a row of the list is made of.
LEMMA RowsAreTold ==
    ASSUME NEW r \in ListRows
    PROVE  /\ r # NoChatRow /\ r.mode # "none"
           /\ r.mode = r["mode"] /\ r.archived = r["archived"] /\ r.unread = r["unread"]
           /\ r.running = r["running"] /\ r.compacting = r["compacting"]
  BY DEF ListRows, NoChatRow, FreshRow, Modes3

\* A step that says what it changes of the row.
LEMMA EmissionKeeps ==
    ASSUME ListInv, There, NEW fs \in Seq(FrameStates), chatRow' \in ListRows, EmitFrames(fs),
           \A i \in 1..Len(fs) : fs[i].row = chatRow' /\ TellsSo(fs[i]),
           \A field \in Fields : Told(fs, field) \/ chatRow'[field] = chatRow[field],
           turnDue' => turnDue /\ chatRow'.running, turnDue => turnDue' \/ Told(fs, "running"),
           clicks' \in [1..MaxClicks -> ClickStates],
           clicks' = clicks \/ (/\ Told(fs, "mode")
                                /\ \A k \in 1..MaxClicks :
                                      clicks'[k] = clicks[k] \/ clicks'[k].at = "answered"),
           reading' = reading \/ (reading' \in Nat /\ Told(fs, "unread")),
           archiving' \in {"none", "asked", "answered"},
           happened' \in 0..MaxHappenings, UNCHANGED <<silent, failures>>, Elsewhere
    PROVE  ListInv'
<1> USE DEF ListInv
<1>1. /\ chatRow \in ListRows /\ chatRow' # NoChatRow /\ chatRow # NoChatRow /\ There'
      /\ frames \in Seq(FrameStates) /\ fetches \in [1..MaxFetches -> FetchStates]
      /\ creation \in FetchStates
  BY RowThere, RowsAreTold DEF ListTyped, There
<1>2. /\ listed' = listed /\ sideLinked' = sideLinked /\ sideConnected' = sideConnected
      /\ isCurrent' = isCurrent
  BY DEF Elsewhere
<1>3. CASE sideLinked
  <2>1. /\ frames' = frames \o fs /\ fetches' = fetches /\ creation' = creation
        /\ (misled => misled')
    BY <1>3 DEF EmitFrames, EmitToTab, Newness
  <2>2. /\ frames' \in Seq(FrameStates)
        /\ \A i \in 1..Len(frames') : \/ i \in 1..Len(frames) /\ frames'[i] = frames[i]
                                      \/ \E j \in 1..Len(fs) : frames'[i] = fs[j]
    <3>1. frames' \in Seq(FrameStates) /\ Len(frames') = Len(frames) + Len(fs)
          /\ Len(frames) \in Nat /\ Len(fs) \in Nat
      BY <1>1, <2>1, ConcatProperties
    <3>2. \A i \in 1..Len(frames) : frames'[i] = frames[i]
      BY <1>1, <2>1, ConcatProperties
    <3>3. \A i \in 1..Len(fs) : frames'[Len(frames) + i] = fs[i]
      BY <1>1, <2>1, ConcatProperties
    <3>4. ASSUME NEW i \in 1..Len(frames'), i \notin 1..Len(frames)
          PROVE  \E j \in 1..Len(fs) : frames'[i] = fs[j]
      <4>1. i - Len(frames) \in 1..Len(fs) /\ Len(frames) + (i - Len(frames)) = i
        BY <3>1, <3>4
      <4>2. QED
        BY <3>3, <4>1
    <3>5. QED
      BY <3>1, <3>2, <3>4
  <2>3. ListTyped'
    BY <1>1, <1>2, <2>1, <2>2 DEF ListTyped
  <2>4. Newness'
    BY <1>1, <1>2, <1>3, <2>1 DEF Newness
  <2>5. LastWord'
    <3>1. \A i \in 1..Len(frames') : TellsSo(frames'[i])
      BY <2>2 DEF LastWord
    <3>2. ~silent => EndsWith(frames', chatRow', turnDue')
      BY <1>1, <2>1, LastWordGrows DEF LastWord
    <3>3. QED
      BY <3>1, <3>2 DEF LastWord
  <2>6. ASSUME NEW list, NEW fields, NEW more \in SUBSET Fields,
               Right(frames, chatRow, list, fields),
               \A field \in more : field \in fields \/ Told(fs, field)
        PROVE  Right(frames', chatRow', list, more)
    BY <1>1, <2>1, <2>6, RightGrows, RowsAreTold
  <2>7. \A field \in Certain(turnDue') : field \in Certain(turnDue) \/ Told(fs, field)
    BY DEF Certain
  <2>8. AnswersWillBeRight'
    <3>1. Certain(turnDue') \in SUBSET Fields
      BY DEF Certain
    <3>2. QED
      BY <1>2, <2>1, <2>6, <2>7, <3>1 DEF AnswersWillBeRight
  <2>9. \A k \in 1..MaxClicks : clicks'[k] = clicks[k] \/ clicks'[k].at = "answered"
    OBVIOUS
  <2>10. ASSUME NEW asked, NEW rest, rest = asked \/ Told(fs, "mode")
         PROVE  /\ CertainBut(turnDue', rest, reading') \in SUBSET Fields
                /\ \A field \in CertainBut(turnDue', rest, reading') :
                      field \in CertainBut(turnDue, asked, reading) \/ Told(fs, field)
    BY <2>7, <2>10 DEF CertainBut, Certain
  <2>11. ListWillBeRight'
    <3>1. Calm' => Calm
      BY <1>2, <2>1 DEF Calm
    <3>2. AskedClicks' = AskedClicks \/ Told(fs, "mode")
      BY DEF AskedClicks
    <3>3. QED
      BY <1>2, <2>6, <2>10, <3>1, <3>2 DEF ListWillBeRight
  <2>12. RollbackWillBeRight'
    <3>1. Calm' => Calm
      BY <1>2, <2>1 DEF Calm
    <3>2. SUFFICES ASSUME Calm, NEW k \in AskedClicks', ~clicks'[k].overtaken
                   PROVE  Right(frames', chatRow', WithMode(listed, clicks'[k].previous),
                                CertainBut(turnDue', AskedClicks' \ {k}, reading'))
      BY <1>2, <3>1 DEF RollbackWillBeRight, WithMode
    <3>3. k \in AskedClicks /\ clicks'[k] = clicks[k]
      BY <2>9, <3>2 DEF AskedClicks
    <3>4. AskedClicks' \ {k} = AskedClicks \ {k} \/ Told(fs, "mode")
      BY DEF AskedClicks
    <3>5. Right(frames, chatRow, WithMode(listed, clicks[k].previous),
                CertainBut(turnDue, AskedClicks \ {k}, reading))
      BY <3>2, <3>3 DEF RollbackWillBeRight
    <3>6. QED
      BY <2>6, <2>10, <3>3, <3>4, <3>5
  <2>13. QED
    BY <2>3, <2>4, <2>5, <2>8, <2>11, <2>12
<1>4. CASE ~sideLinked
  <2>1. /\ frames' = frames /\ frames = <<>> /\ fetches' = Late(fetches)
        /\ creation' = Overtaken(creation) /\ (~sideConnected => misled')
    BY <1>4 DEF EmitFrames, EmitToTab, Newness
  <2>2. ListTyped'
    BY <1>1, <1>2, <2>1, LateIs, OvertakenIs DEF ListTyped
  <2>3. Newness'
    BY <1>1, <1>2, <2>1, LateIs, OvertakenIs DEF Newness
  <2>4. LastWord'
    BY <2>1 DEF LastWord, EndsWith
  <2>5. ~Calm'
    BY <1>2, <1>4, <2>1 DEF Calm
  <2>6. AnswersWillBeRight'
    BY <1>1, <2>1, LateIs, OvertakenIs DEF AnswersWillBeRight
  <2>7. QED
    BY <2>2, <2>3, <2>4, <2>5, <2>6 DEF ListWillBeRight, RollbackWillBeRight
<1>5. QED
  BY <1>3, <1>4

\* Those that speak of the row.
LEMMA EmittersKeep ==
    ASSUME ListInv,
           \/ AgentStarts \/ MessageIsWritten \/ AgentHasEnded \/ MarkCompaction
           \/ ReadArrives \/ ArchiveArrives
    PROVE  ListInv'
<1> USE DEF ListInv
<1>1. There /\ chatRow \in ListRows
  <2>1. There
    BY DEF AgentStarts, MessageIsWritten, AgentHasEnded, MarkCompaction, ReadArrives,
           ArchiveArrives, Newness, There, NoChatRow, FreshRow
  <2>2. QED
    BY <2>1, RowThere
<1>2. PICK fs \in Seq(FrameStates) :
         /\ chatRow' \in ListRows /\ EmitFrames(fs)
         /\ \A i \in 1..Len(fs) : fs[i].row = chatRow' /\ TellsSo(fs[i])
         /\ \A field \in Fields : Told(fs, field) \/ chatRow'[field] = chatRow[field]
         /\ turnDue' => turnDue /\ chatRow'.running
         /\ turnDue => turnDue' \/ Told(fs, "running")
         /\ reading' = reading \/ (reading' \in Nat /\ Told(fs, "unread"))
  <2> DEFINE Fits(fs) ==
         /\ chatRow' \in ListRows /\ EmitFrames(fs)
         /\ \A i \in 1..Len(fs) : fs[i].row = chatRow' /\ TellsSo(fs[i])
         /\ \A field \in Fields : Told(fs, field) \/ chatRow'[field] = chatRow[field]
         /\ turnDue' => turnDue /\ chatRow'.running
         /\ turnDue => turnDue' \/ Told(fs, "running")
         /\ reading' = reading \/ (reading' \in Nat /\ Told(fs, "unread"))
  <2>1. CASE AgentStarts
    <3> DEFINE fs == <<Frame("start")>>
    <3>1. chatRow' = chatRow /\ chatRow.running
      BY <2>1 DEF AgentStarts, Newness
    <3>2. fs \in Seq(FrameStates) /\ fs[1].row = chatRow' /\ fs[1].kind = "start"
          /\ Len(fs) = 1
      BY <1>1, <3>1 DEF Frame, FrameStates
    <3>3. EmitFrames(fs) /\ ~turnDue' /\ reading' = reading
      BY <2>1 DEF AgentStarts
    <3> HIDE DEF fs
    <3>4. Told(fs, "running")
      BY <3>2 DEF Told, Tells
    <3>5. TellsSo(fs[1])
      BY <3>1, <3>2 DEF TellsSo, ListRows
    <3>6. Fits(fs)
      BY <1>1, <3>1, <3>2, <3>3, <3>4, <3>5
    <3>7. QED
      BY <3>2, <3>6
  <2>2. ASSUME NEW fs, fs = <<Meta(chatRow')>>, EmitFrames(fs), chatRow' \in ListRows,
               ~turnDue' \/ (turnDue /\ chatRow'.running), reading' \in Nat
        PROVE  fs \in Seq(FrameStates) /\ Fits(fs)
    <3>1. fs \in Seq(FrameStates) /\ Len(fs) = 1 /\ fs[1].kind = "meta" /\ fs[1].row = chatRow'
      BY <2>2 DEF Meta, FrameStates
    <3>2. \A field : Told(fs, field)
      BY <3>1 DEF Told, Tells
    <3>3. TellsSo(fs[1])
      BY <3>1 DEF TellsSo
    <3>4. QED
      BY <2>2, <3>1, <3>2, <3>3
  <2>3. CASE MessageIsWritten \/ ReadArrives
    <3>1. /\ EmitFrames(<<Meta(chatRow')>>) /\ turnDue' = turnDue
          /\ chatRow' \in ListRows /\ chatRow'.running = chatRow.running
      BY <1>1, <2>3 DEF MessageIsWritten, ReadArrives, ListRows
    <3>2. reading' \in Nat
      BY <2>3 DEF MessageIsWritten, ReadArrives, ListTyped
    <3>3. ~turnDue' \/ (turnDue /\ chatRow'.running)
      BY <3>1 DEF Newness
    <3>4. QED
      BY <2>2, <3>1, <3>2, <3>3
  <2>4. ASSUME NEW kind \in {"end", "compacting", "mode"},
               EmitFrames(<<Frame(kind), Meta(chatRow')>>), chatRow' \in ListRows,
               kind = "end" => ~chatRow'.running,
               ~turnDue' \/ (turnDue /\ chatRow'.running), reading' = reading
        PROVE  \E fs \in Seq(FrameStates) : Fits(fs)
    <3> DEFINE fs == <<Frame(kind), Meta(chatRow')>>
    <3>1. /\ fs \in Seq(FrameStates) /\ Len(fs) = 2
          /\ fs[1].kind = kind /\ fs[1].row = chatRow'
          /\ fs[2].kind = "meta" /\ fs[2].row = chatRow'
      BY <2>4 DEF Meta, Frame, FrameStates
    <3>2. EmitFrames(fs)
      BY <2>4
    <3> HIDE DEF fs
    <3>3. \A field : Told(fs, field)
      BY <3>1 DEF Told, Tells
    <3>4. TellsSo(fs[1]) /\ TellsSo(fs[2])
      BY <2>4, <3>1 DEF TellsSo, ListRows
    <3>5. Fits(fs)
      BY <2>4, <3>1, <3>2, <3>3, <3>4
    <3>6. QED
      BY <3>1, <3>5
  <2>5. CASE AgentHasEnded
    <3>1. /\ EmitFrames(<<Frame("end"), Meta(chatRow')>>) /\ ~turnDue'
          /\ chatRow' \in ListRows /\ ~chatRow'.running /\ reading' = reading
      BY <1>1, <2>5 DEF AgentHasEnded, ListRows
    <3>2. QED
      BY <2>4, <3>1
  <2>6. CASE MarkCompaction
    <3>1. /\ EmitFrames(<<Frame("compacting"), Meta(chatRow')>>) /\ turnDue' = turnDue
          /\ chatRow'.running = chatRow.running /\ reading' = reading
      BY <1>1, <2>6 DEF MarkCompaction, ListRows
    <3>2. chatRow' \in ListRows
      <4>1. chatRow' = [chatRow EXCEPT !.compacting = ~chatRow.compacting]
        BY <2>6 DEF MarkCompaction
      <4>2. (~chatRow.compacting) \in BOOLEAN
        BY Zenon
      <4>3. QED
        BY <1>1, <4>1, <4>2 DEF ListRows
    <3>3. ~turnDue' \/ (turnDue /\ chatRow'.running)
      BY <3>1 DEF Newness
    <3>4. QED
      BY <2>4, <3>1, <3>2, <3>3
  <2>7. CASE ArchiveArrives
    <3> DEFINE kind == IF chatRow.archived THEN "unarchived" ELSE "archived"
               fs == <<Frame(kind)>>
    <3>1. /\ EmitFrames(fs) /\ turnDue' = turnDue /\ reading' = reading
          /\ chatRow' = [chatRow EXCEPT !.archived = ~chatRow.archived]
      BY <2>7 DEF ArchiveArrives, Aside
    <3>2. /\ chatRow' \in ListRows /\ chatRow'.running = chatRow.running
          /\ chatRow'.archived = ~chatRow.archived
          /\ \A field \in Fields \ {"archived"} : chatRow'[field] = chatRow[field]
      <4>1. (~chatRow.archived) \in BOOLEAN
        BY Zenon
      <4>2. QED
        BY <1>1, <3>1, <4>1 DEF ListRows, Fields
    <3>3. /\ fs \in Seq(FrameStates) /\ Len(fs) = 1
          /\ fs[1].kind = kind /\ fs[1].row = chatRow'
      BY <3>2 DEF Frame, FrameStates
    <3> HIDE DEF fs
    <3>4. Told(fs, "archived")
      BY <3>3 DEF Told, Tells
    <3>5. TellsSo(fs[1])
      BY <3>2, <3>3 DEF TellsSo
    <3>6. Fits(fs)
      BY <3>1, <3>2, <3>3, <3>4, <3>5 DEF Newness
    <3>7. QED
      BY <3>3, <3>6
  <2>8. \E fs \in Seq(FrameStates) : Fits(fs)
    BY <2>1, <2>2, <2>3, <2>5, <2>6, <2>7
  <2>9. QED
    BY <2>8
<1>3. /\ clicks' = clicks /\ archiving' \in {"none", "asked", "answered"}
      /\ UNCHANGED <<silent, failures>> /\ Elsewhere
  BY DEF AgentStarts, MessageIsWritten, AgentHasEnded, MarkCompaction, ReadArrives,
         ArchiveArrives, Aside, ListTyped
<1>4. happened' \in 0..MaxHappenings
  BY ListAssumption DEF AgentStarts, MessageIsWritten, AgentHasEnded, MarkCompaction,
     ReadArrives, ArchiveArrives, Happens, ListTyped
<1>5. clicks' \in [1..MaxClicks -> ClickStates]
  BY <1>3 DEF ListTyped
<1> HIDE DEF ListInv
<1>6. QED
  BY <1>1, <1>2, <1>3, <1>4, <1>5, EmissionKeeps

\* The server sets the mode that was clicked.
LEMMA ModeArrivesKeeps ==
    ASSUME ListInv, NEW k \in 1..MaxClicks, ModeArrives(k)
    PROVE  ListInv'
<1> USE DEF ListInv
<1> DEFINE fs == <<Meta(chatRow'), Frame("mode")>>
<1>1. /\ clicks[k].at = "asked" /\ clicks[k] \in ClickStates
      /\ clicks' = [clicks EXCEPT ![k].at = "answered"]
      /\ chatRow' = [chatRow EXCEPT !.mode = clicks[k].mode]
      /\ EmitFrames(fs) /\ Elsewhere
      /\ UNCHANGED <<failures, turnDue, archiving, reading, silent, happened>>
  BY DEF ModeArrives, Aside, ListTyped
<1>2. There /\ chatRow \in ListRows
  <2>1. There
    BY <1>1 DEF Newness
  <2>2. QED
    BY <2>1, RowThere
<1>3. chatRow' \in ListRows /\ chatRow'.running = chatRow.running
  BY <1>1, <1>2 DEF ListRows, ClickStates
<1>4. /\ fs \in Seq(FrameStates) /\ Len(fs) = 2
      /\ fs[1].kind = "meta" /\ fs[1].row = chatRow'
      /\ fs[2].kind = "mode" /\ fs[2].row = chatRow'
  BY <1>3 DEF Meta, Frame, FrameStates
<1> HIDE DEF fs
<1>5. \A field : Told(fs, field)
  BY <1>4 DEF Told, Tells
<1>6. \A i \in 1..Len(fs) : fs[i].row = chatRow' /\ TellsSo(fs[i])
  BY <1>4 DEF TellsSo
<1>7. /\ clicks' \in [1..MaxClicks -> ClickStates]
      /\ \A j \in 1..MaxClicks : clicks'[j] = clicks[j] \/ clicks'[j].at = "answered"
  BY <1>1 DEF ListTyped, ClickStates
<1>8. /\ turnDue => chatRow.running
      /\ archiving \in {"none", "asked", "answered"} /\ happened \in 0..MaxHappenings
  BY DEF Newness, ListTyped
<1> HIDE DEF ListInv
<1>9. QED
  BY <1>1, <1>2, <1>3, <1>4, <1>5, <1>6, <1>7, <1>8, EmissionKeeps

\* What is left of the frames when one is taken, and what that one said.
LEMMA TailIs ==
    ASSUME NEW q \in Seq(FrameStates), q # <<>>
    PROVE  /\ Tail(q) \in Seq(FrameStates) /\ q[1] \in FrameStates /\ Head(q) = q[1]
           /\ \A i \in 1..Len(Tail(q)) : i + 1 \in 1..Len(q) /\ Tail(q)[i] = q[i + 1]
           /\ \A field : Told(q, field) => Tells(q[1], field) \/ Told(Tail(q), field)
           /\ \A r, due : EndsWith(q, r, due) =>
                 /\ EndsWith(Tail(q), r, due)
                 /\ \A field \in Fields :
                       Tells(q[1], field) /\ ~Told(Tail(q), field) /\ ~(field = "running" /\ due)
                          => q[1].row[field] = r[field]
<1> DEFINE t == Tail(q)
<1>1. /\ t \in Seq(FrameStates) /\ Len(q) \in Nat \ {0} /\ Len(t) = Len(q) - 1
      /\ \A i \in 1..Len(t) : t[i] = q[i + 1]
      /\ q[1] \in FrameStates /\ Head(q) = q[1]
  BY HeadTailProperties
<1>2. \A i \in 1..Len(t) : i + 1 \in 1..Len(q)
  BY <1>1
<1>3. \A i \in 1..Len(q) : i = 1 \/ (i - 1 \in 1..Len(t) /\ t[i - 1] = q[i])
  BY <1>1
<1> HIDE DEF t
<1>4. ASSUME NEW field, Told(q, field)
      PROVE  Tells(q[1], field) \/ Told(t, field)
  BY <1>3, <1>4 DEF Told
<1>5. ASSUME NEW r, NEW due, EndsWith(q, r, due), NEW i \in 1..Len(t), NEW field \in Fields,
             Tells(t[i], field), ~(\E j \in 1..Len(t) : j > i /\ Tells(t[j], field)),
             ~(field = "running" /\ due)
      PROVE  t[i].row[field] = r[field]
  <2>1. i + 1 \in 1..Len(q) /\ t[i] = q[i + 1]
    BY <1>1, <1>2
  <2>2. ASSUME NEW j \in 1..Len(q), j > i + 1, Tells(q[j], field)
        PROVE  FALSE
    <3>1. j - 1 \in 1..Len(t) /\ t[j - 1] = q[j] /\ j - 1 > i
      BY <1>1, <1>3, <2>2
    <3>2. QED
      BY <1>5, <2>2, <3>1
  <2>3. QED
    BY <1>5, <2>1, <2>2 DEF EndsWith
<1>6. ASSUME NEW r, NEW due, EndsWith(q, r, due), NEW field \in Fields,
             Tells(q[1], field), ~Told(t, field), ~(field = "running" /\ due)
      PROVE  q[1].row[field] = r[field]
  <2>1. ASSUME NEW j \in 1..Len(q), j > 1, Tells(q[j], field)
        PROVE  FALSE
    BY <1>3, <1>6, <2>1 DEF Told
  <2>2. 1 \in 1..Len(q)
    BY <1>1
  <2>3. QED
    BY <1>6, <2>1, <2>2 DEF EndsWith
<1>7. ASSUME NEW r, NEW due, EndsWith(q, r, due)
      PROVE  EndsWith(t, r, due)
  BY <1>5, <1>7 DEF EndsWith
<1>8. QED
  BY <1>1, <1>2, <1>4, <1>6, <1>7 DEF t

\* A mode that shows in each row of a list.
LEMMA WithModeIs ==
    ASSUME NEW list \in Seq(ListRows), NEW mode \in Modes3
    PROVE  /\ WithMode(list, mode) \in Seq(ListRows)
           /\ Len(WithMode(list, mode)) = Len(list)
           /\ \A i \in 1..Len(list) :
                 /\ WithMode(list, mode)[i]["mode"] = mode
                 /\ \A field \in Fields \ {"mode"} :
                       WithMode(list, mode)[i][field] = list[i][field]
<1> DEFINE w == WithMode(list, mode)
<1>1. /\ DOMAIN list = 1..Len(list) /\ Len(list) \in Nat
      /\ \A i \in 1..Len(list) : list[i] \in ListRows
  OBVIOUS
<1>2. w = [i \in 1..Len(list) |-> [list[i] EXCEPT !.mode = mode]]
  BY <1>1 DEF WithMode
<1>3. ASSUME NEW one \in ListRows
      PROVE  /\ [one EXCEPT !.mode = mode] \in ListRows
             /\ [one EXCEPT !.mode = mode]["mode"] = mode
             /\ \A field \in Fields \ {"mode"} : [one EXCEPT !.mode = mode][field] = one[field]
  BY DEF ListRows, Fields
<1> HIDE DEF w
<1>4. w \in Seq(ListRows) /\ Len(w) = Len(list)
  BY <1>1, <1>2, <1>3
<1>5. \A i \in 1..Len(list) : w[i] = [list[i] EXCEPT !.mode = mode]
  BY <1>2
<1>6. ASSUME NEW i \in 1..Len(list)
      PROVE  /\ w[i]["mode"] = mode
             /\ \A field \in Fields \ {"mode"} : w[i][field] = list[i][field]
  <2>1. list[i] \in ListRows /\ w[i] = [list[i] EXCEPT !.mode = mode]
    BY <1>1, <1>5
  <2>2. QED
    BY <1>3, <2>1
<1>7. QED
  BY <1>4, <1>6 DEF w

\* A list whose mode alone changes is right in all else.
LEMMA ModeAside ==
    ASSUME NEW q, NEW r, NEW list \in Seq(ListRows), NEW mode \in Modes3,
           NEW fields \in SUBSET Fields, Right(q, r, list, fields)
    PROVE  Right(q, r, WithMode(list, mode), fields \ {"mode"})
<1>1. ASSUME NEW field \in fields \ {"mode"}, Has(r, list, field)
      PROVE  Has(r, WithMode(list, mode), field)
  BY <1>1, WithModeIs DEF Has
<1>2. QED
  BY <1>1 DEF Right

\* A step that changes nothing of the list, of the row and of the frames.
LEMMA QuietKeeps ==
    ASSUME ListInv, UNCHANGED <<chatRow, turnDue, silent, frames, listed>>,
           Calm' => Calm /\ reading' = reading,
           fetches' \in [1..MaxFetches -> FetchStates],
           \A l \in 1..MaxFetches :
               \/ fetches'[l] = fetches[l]
               \/ fetches'[l].at # "answered" /\ fetches'[l].has = <<>>
               \/ fetches'[l].has = Listing,
           clicks' \in [1..MaxClicks -> ClickStates],
           \A k \in 1..MaxClicks :
               clicks'[k] = clicks[k] \/ (clicks[k].at = "answered" /\ clicks'[k].at = "none"),
           creation' \in FetchStates,
           creation' = creation \/ creation'.at = "none" \/ (creation'.at = "asked" /\ ~There),
           archiving' \in {"none", "asked", "answered"}, reading' \in Nat,
           ~There => archiving' = "none" /\ reading' = 0 /\ ~isCurrent',
           sideLinked' => sideConnected', ~sideLinked' => frames = <<>>,
           happened' \in 0..MaxHappenings, failures' \in 0..MaxFailures
    PROVE  ListInv'
<1> USE DEF ListInv
<1>1. There' = There /\ Listing' = Listing
  BY DEF There, Listing
<1>2. /\ Listing \in Seq(ListRows) /\ Len(Listing) =< 1 /\ (~There => Listing = <<>>)
      /\ \A field \in Fields : Has(chatRow, Listing, field)
  <2>1. CASE There /\ ~chatRow.archived
    <3>1. Listing = <<chatRow>> /\ chatRow \in ListRows /\ chatRow # NoChatRow
      BY <2>1, RowThere DEF Listing, There
    <3>2. Len(Listing) = 1 /\ Listing[1] = chatRow /\ Listing \in Seq(ListRows)
      BY <3>1
    <3>3. QED
      BY <2>1, <3>1, <3>2 DEF Has
  <2>2. CASE ~(There /\ ~chatRow.archived)
    <3>1. Listing = <<>>
      BY <2>2 DEF Listing
    <3>2. QED
      BY <2>2, <3>1 DEF Has, There
  <2>3. QED
    BY <2>1, <2>2
<1>3. ListTyped'
  BY DEF ListTyped
<1>4. Newness'
  <2>1. ASSUME NEW l \in 1..MaxFetches
        PROVE  /\ Len(fetches'[l].has) =< 1
               /\ ~There => fetches'[l].has = <<>>
    BY <1>2 DEF Newness
  <2>2. QED
    BY <1>1, <2>1 DEF Newness
<1>5. LastWord'
  BY DEF LastWord
<1>6. AskedClicks' = AskedClicks /\ \A k \in AskedClicks : clicks'[k] = clicks[k]
  BY DEF AskedClicks
<1>7. ListWillBeRight'
  BY <1>6 DEF ListWillBeRight
<1>8. RollbackWillBeRight'
  <2>1. SUFFICES ASSUME Calm', NEW k \in AskedClicks, ~clicks[k].overtaken
                 PROVE  Right(frames, chatRow, WithMode(listed, clicks[k].previous),
                              CertainBut(turnDue, AskedClicks \ {k}, reading))
    BY <1>6 DEF RollbackWillBeRight, WithMode
  <2>2. QED
    BY <2>1 DEF RollbackWillBeRight
<1>9. AnswersWillBeRight'
  <2>1. Right(frames, chatRow, Listing, Certain(turnDue))
    BY <1>2 DEF Right, Certain
  <2>2. ASSUME ~silent, NEW l \in 1..MaxFetches, fetches'[l].at = "answered",
               ~fetches'[l].overtaken
        PROVE  Right(frames, chatRow, fetches'[l].has, Certain(turnDue))
    BY <2>1, <2>2 DEF AnswersWillBeRight
  <2>3. QED
    BY <2>2 DEF AnswersWillBeRight
<1>10. QED
  BY <1>3, <1>4, <1>5, <1>7, <1>8, <1>9

\* A call that is sent.
LEMMA AskedIs ==
    Asked \in FetchStates /\ Asked.at = "asked" /\ Asked.has = <<>>
<1>1. <<>> \in Seq(ListRows)
  OBVIOUS
<1>2. NoFetch \in FetchStates /\ NoFetch.has = <<>>
  BY <1>1 DEF NoFetch, FetchStates
<1>3. \A fetch \in FetchStates :
         /\ [fetch EXCEPT !.at = "asked"] \in FetchStates
         /\ [fetch EXCEPT !.at = "asked"].at = "asked"
         /\ [fetch EXCEPT !.at = "asked"].has = fetch.has
  BY DEF FetchStates
<1>4. QED
  BY <1>2, <1>3 DEF Asked

\* A fetch that is asked for.
LEMMA AFetchIsAsked ==
    ASSUME ListTyped, NEW old \in [1..MaxFetches -> FetchStates],
           FreeFetches # {}, fetches' = [old EXCEPT ![Min(FreeFetches)] = Asked]
    PROVE  /\ fetches' \in [1..MaxFetches -> FetchStates] /\ ~Calm'
           /\ \A l \in 1..MaxFetches : fetches'[l] = old[l]
                 \/ (fetches'[l].at # "answered" /\ fetches'[l].has = <<>>)
<1> DEFINE free == FreeFetches
<1>1. free \in SUBSET Nat /\ free # {} /\ free \subseteq 1..MaxFetches
  BY DEF FreeFetches, ListTyped
<1>2. fetches' = [old EXCEPT ![Min(free)] = Asked]
  OBVIOUS
<1> HIDE DEF free
<1>3. Min(free) \in 1..MaxFetches
  BY <1>1, MinProperties
<1>4. Asked \in FetchStates /\ Asked.at = "asked" /\ Asked.has = <<>>
  BY AskedIs
<1>5. fetches'[Min(free)] = Asked
  BY <1>2, <1>3
<1>6. ~Calm'
  BY <1>3, <1>4, <1>5 DEF Calm
<1>7. QED
  BY <1>2, <1>3, <1>4, <1>6

\* The bound of what happens, and of what fails.
LEMMA Bounded ==
    ASSUME ListTyped
    PROVE  /\ Happens => happened' \in 0..MaxHappenings
           /\ GoesWrong => failures' \in 0..MaxFailures
           /\ happened \in 0..MaxHappenings /\ failures \in 0..MaxFailures
  BY ListAssumption DEF ListTyped, Happens, GoesWrong

\* A list is answered as it is.
LEMMA ListArrivesKeeps ==
    ASSUME ListInv, NEW l \in 1..MaxFetches, ListArrives(l)
    PROVE  ListInv'
<1>1. ListTyped /\ Newness
  BY DEF ListInv
<1>2. /\ fetches[l].at = "asked" /\ fetches \in [1..MaxFetches -> FetchStates]
      /\ fetches' = [fetches EXCEPT ![l] = [at |-> "answered", has |-> Listing,
                                            overtaken |-> FALSE]]
      /\ UNCHANGED <<chatRow, turnDue, sideSocket, listed, isCurrent, clicks, creation,
                     archiving, reading, misled, silent, happened, failures>>
  BY <1>1 DEF ListArrives, ListTyped
<1>3. Listing \in Seq(ListRows)
  BY <1>1, RowThere DEF Listing
<1>4. fetches' \in [1..MaxFetches -> FetchStates]
  BY <1>2, <1>3 DEF FetchStates
<1>5. \A m \in 1..MaxFetches : fetches'[m] = fetches[m] \/ fetches'[m].has = Listing
  BY <1>2
<1>6. ~Calm'
  BY <1>2 DEF Calm
<1>7. QED
  BY <1>1, <1>2, <1>4, <1>5, <1>6, QuietKeeps DEF ListTyped, Newness, sideSocket

\* Calls that end or begin, and change nothing that shows.
LEMMA QuietStepsKeep ==
    ASSUME ListInv,
           \/ \E l \in 1..MaxFetches : ListFails(l)
           \/ \E k \in 1..MaxClicks : ModeSet(k)
           \/ ReadFails \/ ClickArchive \/ ArchiveAnswered \/ OtherCallFails
           \/ ClickNew \/ ClickChat \/ SideOpens
    PROVE  ListInv'
<1>1. ListTyped /\ Newness
  BY DEF ListInv
<1>2. /\ fetches \in [1..MaxFetches -> FetchStates] /\ creation \in FetchStates
      /\ clicks \in [1..MaxClicks -> ClickStates] /\ reading \in Nat
      /\ archiving \in {"none", "asked", "answered"}
      /\ ~There => archiving = "none" /\ reading = 0 /\ ~isCurrent /\ listed = <<>>
      /\ sideLinked => sideConnected
      /\ ~sideLinked => frames = <<>>
  BY <1>1 DEF ListTyped, Newness
<1>3. NoFetch \in FetchStates /\ NoFetch.at = "none" /\ NoFetch.has = <<>>
      /\ NoClick \in ClickStates /\ NoClick.at = "none"
      /\ Asked \in FetchStates /\ Asked.at = "asked"
  BY AskedIs DEF NoFetch, NoClick, FetchStates, ClickStates, Modes3
<1>4. ASSUME NEW l \in 1..MaxFetches, ListFails(l)
      PROVE  ListInv'
  <2>1. /\ fetches' = [fetches EXCEPT ![l] = NoFetch] /\ misled' /\ GoesWrong
        /\ UNCHANGED <<server, sideSocket, listed, isCurrent, clicks, creation, archiving,
                       reading, loadingRow, happened>>
    BY <1>4 DEF ListFails
  <2>2. fetches' \in [1..MaxFetches -> FetchStates]
    BY <1>2, <1>3, <2>1
  <2>3. \A m \in 1..MaxFetches : fetches'[m] = fetches[m] \/ fetches'[m] = NoFetch
    BY <1>2, <2>1
  <2>4. ~Calm'
    BY <2>1 DEF Calm
  <2>5. QED
    BY <1>1, <1>2, <1>3, <2>1, <2>2, <2>3, <2>4, Bounded, QuietKeeps DEF server, sideSocket
<1>5. ASSUME NEW k \in 1..MaxClicks, ModeSet(k)
      PROVE  ListInv'
  <2>1. /\ clicks' = [clicks EXCEPT ![k] = NoClick] /\ clicks[k].at = "answered"
        /\ UNCHANGED <<server, sideSocket, listed, isCurrent, fetches, creation, archiving,
                       reading, loadingRow, misled, happened, failures>>
    BY <1>5 DEF ModeSet
  <2>2. clicks' \in [1..MaxClicks -> ClickStates]
    BY <1>2, <1>3, <2>1
  <2>3. \A m \in 1..MaxClicks :
            clicks'[m] = clicks[m] \/ (clicks[m].at = "answered" /\ clicks'[m].at = "none")
    BY <1>2, <1>3, <2>1
  <2>4. Calm' => Calm
    BY <2>1 DEF Calm, server, sideSocket
  <2>5. QED
    BY <1>1, <1>2, <2>1, <2>2, <2>3, <2>4, Bounded, QuietKeeps DEF server, sideSocket
<1>6. CASE ReadFails
  <2>1. /\ misled' /\ reading' = reading - 1 /\ reading > 0 /\ GoesWrong
        /\ UNCHANGED <<server, sideSocket, listed, isCurrent, fetches, clicks, creation,
                       archiving, loadingRow, happened>>
    BY <1>6 DEF ReadFails
  <2>2. ~Calm' /\ reading' \in Nat
    BY <1>2, <2>1 DEF Calm
  <2>3. QED
    BY <1>1, <1>2, <2>1, <2>2, Bounded, QuietKeeps DEF server, sideSocket
<1>7. CASE ClickArchive
  <2>1. /\ There /\ archiving' = "asked" /\ Happens
        /\ UNCHANGED <<server, sideSocket, listed, isCurrent, fetches, clicks, creation,
                       reading, loadingRow, misled, failures>>
    BY <1>7 DEF ClickArchive
  <2>2. Calm' => Calm
    BY <2>1 DEF Calm, server, sideSocket
  <2>3. QED
    BY <1>1, <1>2, <2>1, <2>2, Bounded, QuietKeeps DEF server, sideSocket
<1>8. CASE ArchiveAnswered
  <2>1. /\ archiving' = "none" /\ RefreshSessions
        /\ UNCHANGED <<server, sideSocket, listed, isCurrent, clicks, creation, reading,
                       loadingRow, misled, happened, failures>>
    BY <1>8 DEF ArchiveAnswered
  <2>2. /\ fetches' \in [1..MaxFetches -> FetchStates] /\ ~Calm'
        /\ \A l \in 1..MaxFetches : fetches'[l] = fetches[l]
              \/ (fetches'[l].at # "answered" /\ fetches'[l].has = <<>>)
    BY <1>1, <1>2, <2>1, AFetchIsAsked DEF RefreshSessions
  <2>3. QED
    BY <1>1, <1>2, <2>1, <2>2, Bounded, QuietKeeps DEF server, sideSocket
<1>9. CASE OtherCallFails
  <2>1. /\ GoesWrong
        /\ UNCHANGED <<server, sideSocket, listed, isCurrent, fetches, clicks, reading,
                       misled, happened>>
        /\ archiving' = archiving \/ archiving' = "none"
        /\ creation' = creation \/ creation' = NoFetch
    BY <1>9 DEF OtherCallFails
  <2>2. Calm' => Calm
    BY <2>1 DEF Calm, server, sideSocket
  <2>3. archiving' \in {"none", "asked", "answered"} /\ (~There => archiving' = "none")
    BY <1>2, <2>1
  <2>4. creation' \in FetchStates /\ (creation' = creation \/ creation'.at = "none")
    BY <1>2, <1>3, <2>1
  <2>5. QED
    BY <1>1, <1>2, <2>1, <2>2, <2>3, <2>4, Bounded, QuietKeeps DEF server, sideSocket
<1>10. CASE ClickNew
  <2>1. /\ ~There /\ creation' = Asked /\ Happens
        /\ UNCHANGED <<server, sideSocket, listed, isCurrent, fetches, clicks, archiving,
                       reading, loadingRow, misled, failures>>
    BY <1>10 DEF ClickNew
  <2>2. Calm' => Calm
    BY <2>1 DEF Calm, server, sideSocket
  <2>3. QED
    BY <1>1, <1>2, <1>3, <2>1, <2>2, Bounded, QuietKeeps DEF server, sideSocket
<1>11. CASE ClickChat
  <2>1. /\ isCurrent \/ listed # <<>>
        /\ Happens
        /\ UNCHANGED <<server, sideSocket, listed, fetches, clicks, creation, archiving,
                       reading, misled, failures>>
    BY <1>11 DEF ClickChat
  <2>2. Calm' => Calm
    BY <2>1 DEF Calm, server, sideSocket
  <2>3. There
    BY <1>2, <2>1
  <2>4. QED
    BY <1>1, <1>2, <2>1, <2>2, <2>3, Bounded, QuietKeeps DEF server, sideSocket
<1>12. CASE SideOpens
  <2>1. /\ ~sideLinked /\ sideLinked' = TRUE /\ sideConnected' = TRUE
        /\ IF sideConnected THEN RefreshSessions ELSE UNCHANGED fetches
        /\ UNCHANGED <<server, frames, listed, isCurrent, clicks, creation, archiving,
                       reading, misled, happened, failures>>
    BY <1>12 DEF SideOpens
  <2>2. /\ fetches' \in [1..MaxFetches -> FetchStates] /\ (Calm' => Calm)
        /\ \A l \in 1..MaxFetches : fetches'[l] = fetches[l]
              \/ (fetches'[l].at # "answered" /\ fetches'[l].has = <<>>)
    <3>1. CASE sideConnected
      BY <1>1, <1>2, <2>1, <3>1, AFetchIsAsked DEF RefreshSessions
    <3>2. CASE ~sideConnected
      BY <1>2, <2>1, <3>2 DEF Calm, server
    <3>3. QED
      BY <3>1, <3>2
  <2>3. QED
    BY <1>1, <1>2, <2>1, <2>2, Bounded, QuietKeeps DEF server
<1>13. QED
  BY <1>4, <1>5, <1>6, <1>7, <1>8, <1>9, <1>10, <1>11, <1>12

\* No click of those that a frame or a list has muddled will be rolled back to a
\* mode that still counts.
LEMMA MuddledAreSafe ==
    ASSUME ListTyped, clicks' = Muddled
    PROVE  RollbackWillBeRight' /\ AskedClicks' = AskedClicks
           /\ clicks' \in [1..MaxClicks -> ClickStates]
           /\ \A k \in 1..MaxClicks : clicks'[k].at = clicks[k].at
<1>1. /\ clicks' \in [1..MaxClicks -> ClickStates]
      /\ \A k \in 1..MaxClicks :
            clicks'[k].at = clicks[k].at /\ (clicks'[k].at # "none" => clicks'[k].overtaken)
  BY MuddledIs DEF ListTyped
<1>2. AskedClicks' = AskedClicks
  BY <1>1 DEF AskedClicks
<1>3. RollbackWillBeRight'
  <2>1. \A k \in AskedClicks' : clicks'[k].overtaken
    BY <1>1 DEF AskedClicks
  <2>2. QED
    BY <2>1 DEF RollbackWillBeRight
<1>4. QED
  BY <1>1, <1>2, <1>3

\* A list lands.
LEMMA ListLandsKeeps ==
    ASSUME ListInv, NEW l \in 1..MaxFetches, ListLands(l)
    PROVE  ListInv'
<1> USE DEF ListInv
<1>1. /\ fetches[l].at = "answered" /\ fetches[l] \in FetchStates
      /\ fetches' = [fetches EXCEPT ![l] = NoFetch]
      /\ listed' = fetches[l].has
      /\ misled' = fetches[l].overtaken
      /\ clicks' = Muddled /\ creation' = Overtaken(creation)
      /\ UNCHANGED <<chatRow, turnDue, silent, sideLinked, sideConnected, frames, isCurrent,
                     archiving, reading, happened, failures>>
  BY DEF ListLands, server, sideSocket, ListTyped
<1>2. /\ fetches \in [1..MaxFetches -> FetchStates] /\ NoFetch \in FetchStates
      /\ NoFetch.at = "none" /\ NoFetch.has = <<>> /\ creation \in FetchStates
      /\ There' = There
  BY <1>1 DEF NoFetch, FetchStates, ListTyped, There
<1>3. /\ fetches' \in [1..MaxFetches -> FetchStates]
      /\ \A m \in 1..MaxFetches : fetches'[m] = fetches[m] \/ fetches'[m] = NoFetch
  BY <1>1, <1>2
<1>4. /\ RollbackWillBeRight' /\ AskedClicks' = AskedClicks
      /\ clicks' \in [1..MaxClicks -> ClickStates]
      /\ \A k \in 1..MaxClicks : clicks'[k].at = clicks[k].at
  BY <1>1, MuddledAreSafe
<1>5. /\ creation' \in FetchStates /\ creation'.at = creation.at
      /\ creation'.has = creation.has
      /\ creation'.at = "answered" => creation'.overtaken
  BY <1>1, <1>2, OvertakenIs
<1>6. listed' \in Seq(ListRows) /\ Len(listed') =< 1 /\ (~There => listed' = <<>>)
  BY <1>1 DEF FetchStates, Newness
<1>7. ListTyped'
  BY <1>1, <1>3, <1>4, <1>5, <1>6 DEF ListTyped
<1>8. Newness'
  BY <1>1, <1>2, <1>3, <1>4, <1>5, <1>6 DEF Newness
<1>9. LastWord'
  BY <1>1 DEF LastWord
<1>10. ListWillBeRight'
  <2>1. SUFFICES ASSUME Calm'
                 PROVE  Right(frames, chatRow, listed', CertainBut(turnDue, AskedClicks, reading))
    BY <1>1, <1>4 DEF ListWillBeRight
  <2>2. Right(frames, chatRow, listed', Certain(turnDue))
    BY <1>1, <2>1 DEF AnswersWillBeRight, Calm
  <2>3. QED
    BY <2>2 DEF Right, CertainBut
<1>11. AnswersWillBeRight'
  BY <1>1, <1>2, <1>3, <1>5 DEF AnswersWillBeRight
<1>12. QED
  BY <1>4, <1>7, <1>8, <1>9, <1>10, <1>11

\* A click on the toggle: the mode it shows is the one to go back to.
LEMMA ClickModeKeeps ==
    ASSUME ListInv, NEW k \in 1..MaxClicks, ClickMode(k)
    PROVE  ListInv'
<1> USE DEF ListInv
<1> DEFINE prev == listed[1].mode
           next == NextMode[prev]
           click == [at |-> "asked", mode |-> next, previous |-> prev, overtaken |-> FALSE]
<1>1. /\ clicks[k].at = "none" /\ isCurrent /\ listed # <<>> /\ Happens
      /\ clicks' = [Muddled EXCEPT ![k] = click]
      /\ listed' = WithMode(listed, next)
      /\ UNCHANGED <<chatRow, turnDue, silent, sideLinked, sideConnected, frames, isCurrent,
                     fetches, creation, archiving, reading, misled, failures>>
  BY DEF ClickMode, server, sideSocket, WithMode
<1>2. listed \in Seq(ListRows) /\ Len(listed) \in Nat \ {0} /\ listed[1] \in ListRows
  <2>1. listed \in Seq(ListRows) /\ listed # <<>>
    BY <1>1 DEF ListTyped
  <2>2. QED
    BY <2>1
<1>3. prev \in Modes3 /\ next \in Modes3 /\ prev = listed[1]["mode"]
  BY <1>2 DEF ListRows, NextMode, Modes3
<1>4. click \in ClickStates /\ click.at = "asked" /\ click.previous = prev
      /\ ~click.overtaken
  BY <1>3 DEF ClickStates
<1> HIDE DEF click, prev, next
<1>5. /\ Muddled \in [1..MaxClicks -> ClickStates]
      /\ \A j \in 1..MaxClicks :
            /\ Muddled[j].at = clicks[j].at
            /\ Muddled[j].at # "none" => Muddled[j].overtaken
  BY MuddledIs DEF ListTyped
<1>6. /\ clicks' \in [1..MaxClicks -> ClickStates] /\ clicks'[k] = click
      /\ \A j \in (1..MaxClicks) \ {k} : clicks'[j] = Muddled[j]
  BY <1>1, <1>4, <1>5
<1>7. AskedClicks' = AskedClicks \cup {k} /\ k \notin AskedClicks
  BY <1>1, <1>4, <1>5, <1>6 DEF AskedClicks
<1>8. listed' \in Seq(ListRows) /\ Len(listed') = Len(listed)
  BY <1>1, <1>2, <1>3, WithModeIs
<1>9. There
  BY <1>1 DEF Newness
<1>10. ListTyped'
  BY <1>1, <1>6, <1>8, Bounded DEF ListTyped
<1>11. Newness'
  BY <1>1, <1>8, <1>9 DEF Newness, There
<1>12. LastWord'
  BY <1>1 DEF LastWord
<1>13. Calm' => Calm
  BY <1>1 DEF Calm
<1>14. ASSUME Calm
       PROVE  /\ Right(frames, chatRow, listed, CertainBut(turnDue, AskedClicks, reading))
              /\ CertainBut(turnDue, AskedClicks, reading) \in SUBSET Fields
  BY <1>14 DEF ListWillBeRight, CertainBut, Certain
<1>15. ListWillBeRight'
  <2>1. SUFFICES ASSUME Calm
                 PROVE  Right(frames, chatRow, listed',
                              CertainBut(turnDue, AskedClicks', reading))
    BY <1>1, <1>13 DEF ListWillBeRight
  <2>2. Right(frames, chatRow, listed', CertainBut(turnDue, AskedClicks, reading) \ {"mode"})
    BY <1>1, <1>2, <1>3, <1>14, <2>1, ModeAside
  <2>3. CertainBut(turnDue, AskedClicks', reading)
            \subseteq CertainBut(turnDue, AskedClicks, reading) \ {"mode"}
    BY <1>7 DEF CertainBut
  <2>4. QED
    BY <2>2, <2>3 DEF Right
<1>16. RollbackWillBeRight'
  <2>1. SUFFICES ASSUME Calm, NEW j \in AskedClicks', ~clicks'[j].overtaken
                 PROVE  Right(frames, chatRow, WithMode(listed', clicks'[j].previous),
                              CertainBut(turnDue, AskedClicks' \ {j}, reading))
    BY <1>1, <1>13 DEF RollbackWillBeRight, WithMode
  <2>2. j = k
    BY <1>5, <1>6, <2>1 DEF AskedClicks
  <2> DEFINE back == WithMode(listed', prev)
             fields == CertainBut(turnDue, AskedClicks, reading)
  <2>3. AskedClicks' \ {j} = AskedClicks
    BY <1>7, <2>2
  <2>4. Right(frames, chatRow, listed, fields) /\ fields \in SUBSET Fields
    BY <1>14, <2>1
  <2>5. /\ Len(back) = Len(listed)
        /\ \A i \in 1..Len(listed) :
              /\ back[i]["mode"] = listed[1]["mode"]
              /\ \A field \in Fields \ {"mode"} : back[i][field] = listed[i][field]
    BY <1>1, <1>2, <1>3, <1>8, WithModeIs
  <2> HIDE DEF back, fields
  <2>6. ASSUME NEW field \in fields, Has(chatRow, listed, field)
        PROVE  Has(chatRow, back, field)
    BY <1>2, <2>4, <2>5, <2>6 DEF Has
  <2>7. Right(frames, chatRow, back, fields)
    BY <2>4, <2>6 DEF Right
  <2>8. QED
    BY <1>4, <1>6, <2>2, <2>3, <2>7 DEF back, fields
<1>17. AnswersWillBeRight'
  BY <1>1 DEF AnswersWillBeRight
<1>18. QED
  BY <1>10, <1>11, <1>12, <1>15, <1>16, <1>17

\* The call fails, and the mode goes back.
LEMMA ModeFailsKeeps ==
    ASSUME ListInv, NEW k \in 1..MaxClicks, ModeFails(k)
    PROVE  ListInv'
<1> USE DEF ListInv
<1>1. /\ clicks[k].at # "none" /\ GoesWrong
      /\ clicks' = [Muddled EXCEPT ![k] = NoClick]
      /\ listed' = WithMode(listed, clicks[k].previous)
      /\ misled' = (misled \/ clicks[k].overtaken \/ clicks[k].at = "answered")
      /\ UNCHANGED <<chatRow, turnDue, silent, sideLinked, sideConnected, frames, isCurrent,
                     fetches, creation, archiving, reading, happened>>
  BY DEF ModeFails, server, sideSocket, WithMode
<1>2. /\ listed \in Seq(ListRows) /\ clicks[k] \in ClickStates
      /\ clicks[k].previous \in Modes3
  BY DEF ListTyped, ClickStates
<1>3. NoClick \in ClickStates /\ NoClick.at = "none"
  BY DEF NoClick, ClickStates, Modes3
<1>4. /\ Muddled \in [1..MaxClicks -> ClickStates]
      /\ \A j \in 1..MaxClicks :
            /\ Muddled[j].at = clicks[j].at
            /\ Muddled[j].at # "none" => Muddled[j].overtaken
  BY MuddledIs DEF ListTyped
<1>5. /\ clicks' \in [1..MaxClicks -> ClickStates] /\ clicks'[k] = NoClick
      /\ \A j \in (1..MaxClicks) \ {k} : clicks'[j] = Muddled[j]
  BY <1>1, <1>3, <1>4
<1>6. AskedClicks' = AskedClicks \ {k} /\ \A j \in AskedClicks' : clicks'[j].overtaken
  BY <1>3, <1>4, <1>5 DEF AskedClicks
<1>7. listed' \in Seq(ListRows) /\ Len(listed') = Len(listed)
  BY <1>1, <1>2, WithModeIs
<1>8. There /\ There'
  BY <1>1 DEF Newness, There
<1>9. ListTyped'
  BY <1>1, <1>5, <1>7, Bounded DEF ListTyped
<1>10. Newness'
  BY <1>1, <1>7, <1>8 DEF Newness
<1>11. LastWord'
  BY <1>1 DEF LastWord
<1>12. ListWillBeRight'
  <2>1. SUFFICES ASSUME Calm'
                 PROVE  Right(frames, chatRow, listed',
                              CertainBut(turnDue, AskedClicks \ {k}, reading))
    BY <1>1, <1>6 DEF ListWillBeRight
  <2>2. Calm /\ ~clicks[k].overtaken /\ clicks[k].at # "answered"
    BY <1>1, <2>1 DEF Calm
  <2>3. k \in AskedClicks
    BY <1>1, <1>2, <2>2 DEF AskedClicks, ClickStates
  <2>4. QED
    BY <1>1, <2>2, <2>3 DEF RollbackWillBeRight
<1>13. RollbackWillBeRight'
  BY <1>6 DEF RollbackWillBeRight
<1>14. AnswersWillBeRight'
  <2>1. ASSUME listed = <<>> PROVE listed' = <<>>
    BY <1>7, <2>1
  <2>2. QED
    BY <1>1, <2>1 DEF AnswersWillBeRight
<1>15. QED
  BY <1>9, <1>10, <1>11, <1>12, <1>13, <1>14

\* The answer to newSession() goes before what is listed.
LEMMA NewAnsweredKeeps ==
    ASSUME ListInv, NewAnswered
    PROVE  ListInv'
<1> USE DEF ListInv
<1>1. /\ creation.at = "answered" /\ creation' = NoFetch
      /\ listed' = creation.has \o listed
      /\ misled' = (misled \/ creation.overtaken)
      /\ isCurrent' = TRUE
      /\ clicks' = Muddled
      /\ UNCHANGED <<chatRow, turnDue, silent, sideLinked, sideConnected, frames, fetches,
                     archiving, reading, happened, failures>>
  BY DEF NewAnswered, server, sideSocket
<1>2. There /\ There' /\ creation.has = <<FreshRow>> /\ Len(listed) =< 1
  BY <1>1 DEF Newness, There
<1>3. /\ listed \in Seq(ListRows) /\ <<FreshRow>> \in Seq(ListRows)
      /\ NoFetch \in FetchStates /\ NoFetch.at = "none"
  BY DEF ListTyped, ListRows, FreshRow, Modes3, NoFetch, FetchStates
<1>4. listed' \in Seq(ListRows) /\ Len(listed') = 1 + Len(listed) /\ Len(listed) \in Nat
  BY <1>1, <1>2, <1>3, ConcatProperties
<1>5. listed = <<>> => listed' = creation.has
  BY <1>1, <1>2, <1>3
<1>6. /\ RollbackWillBeRight' /\ AskedClicks' = AskedClicks
      /\ clicks' \in [1..MaxClicks -> ClickStates]
      /\ \A k \in 1..MaxClicks : clicks'[k].at = clicks[k].at
  BY <1>1, MuddledAreSafe
<1>7. ListTyped'
  BY <1>1, <1>3, <1>4, <1>6 DEF ListTyped
<1>8. Newness'
  BY <1>1, <1>2, <1>3, <1>4 DEF Newness
<1>9. LastWord'
  BY <1>1 DEF LastWord
<1>10. ListWillBeRight'
  <2>1. SUFFICES ASSUME Calm'
                 PROVE  Right(frames, chatRow, listed', CertainBut(turnDue, AskedClicks, reading))
    BY <1>1, <1>6 DEF ListWillBeRight
  <2>2. Right(frames, chatRow, listed', Certain(turnDue))
    BY <1>1, <1>5, <2>1 DEF AnswersWillBeRight, Calm
  <2>3. QED
    BY <2>2 DEF Right, CertainBut
<1>11. AnswersWillBeRight'
  BY <1>1, <1>3 DEF AnswersWillBeRight
<1>12. QED
  BY <1>6, <1>7, <1>8, <1>9, <1>10, <1>11

\* A frame is taken: what it says shows, unless a later one says more.
LEMMA OnFrameKeeps ==
    ASSUME ListInv, OnFrame
    PROVE  ListInv'
<1> USE DEF ListInv
<1> DEFINE f == frames[1]
           rest == Tail(frames)
<1>1. /\ frames # <<>> /\ frames \in Seq(FrameStates) /\ There /\ There'
      /\ frames' = rest /\ clicks' = Muddled /\ creation' = Overtaken(creation)
      /\ UNCHANGED <<chatRow, turnDue, silent, sideLinked, sideConnected, archiving, happened,
                     failures>>
  BY DEF OnFrame, server, Newness, There, ListTyped
<1>2. /\ rest \in Seq(FrameStates) /\ f \in FrameStates /\ Head(frames) = f
      /\ \A i \in 1..Len(rest) : i + 1 \in 1..Len(frames) /\ rest[i] = frames[i + 1]
      /\ \A field : Told(frames, field) => Tells(f, field) \/ Told(rest, field)
  BY <1>1, TailIs
<1>3. ASSUME ~silent
      PROVE  /\ EndsWith(rest, chatRow, turnDue)
             /\ \A field \in Fields :
                   Tells(f, field) /\ ~Told(rest, field) /\ ~(field = "running" /\ turnDue)
                      => f.row[field] = chatRow[field]
  BY <1>1, <1>3, TailIs DEF LastWord
<1>4. /\ sideLinked /\ sideConnected /\ turnDue => chatRow.running
      /\ fetches \in [1..MaxFetches -> FetchStates] /\ creation \in FetchStates
      /\ listed \in Seq(ListRows) /\ reading \in Nat /\ Len(listed) =< 2
      /\ creation.at = "answered" => Len(listed) =< 1 /\ creation.has = <<FreshRow>>
      /\ creation.at # "asked"
      /\ \A l \in 1..MaxFetches : Len(fetches[l].has) =< 1
  BY <1>1 DEF Newness, ListTyped
<1>5. TellsSo(f) /\ f.row \in ListRows
  <2>1. 1 \in 1..Len(frames)
    BY <1>1
  <2>2. QED
    BY <1>2, <2>1 DEF LastWord, FrameStates
<1>6. /\ RollbackWillBeRight' /\ AskedClicks' = AskedClicks
      /\ clicks' \in [1..MaxClicks -> ClickStates]
  BY <1>1, MuddledAreSafe
<1>7. /\ creation' \in FetchStates /\ creation'.at = creation.at
      /\ creation'.has = creation.has
      /\ creation'.at = "answered" => creation'.overtaken
  BY <1>1, <1>4, OvertakenIs
<1>8. /\ Late(fetches) \in [1..MaxFetches -> FetchStates]
      /\ \A l \in 1..MaxFetches :
            /\ Late(fetches)[l].at = fetches[l].at /\ Late(fetches)[l].has = fetches[l].has
            /\ Late(fetches)[l].at = "answered" => Late(fetches)[l].overtaken
  BY <1>4, LateIs
<1> HIDE DEF f, rest
<1>9. LastWord'
  <2>1. \A i \in 1..Len(rest) : TellsSo(rest[i])
    BY <1>2 DEF LastWord
  <2>2. QED
    BY <1>1, <1>3, <2>1 DEF LastWord
\* What all frames share.
<1>10. ASSUME listed' \in Seq(ListRows), Len(listed') =< 2, Len(listed) =< 1 => Len(listed') =< 1,
              reading' \in Nat, fetches' \in [1..MaxFetches -> FetchStates],
              \A l \in 1..MaxFetches :
                  /\ Len(fetches'[l].has) =< 1
                  /\ fetches'[l].at = "answered" => fetches'[l].overtaken,
              Calm' => \A field \in CertainBut(turnDue, AskedClicks, reading') :
                          Told(rest, field) \/ Has(chatRow, listed', field)
       PROVE  ListInv'
  <2>1. ListTyped'
    BY <1>1, <1>2, <1>6, <1>7, <1>10 DEF ListTyped
  <2>2. Newness'
    BY <1>1, <1>4, <1>7, <1>10 DEF Newness
  <2>3. ListWillBeRight'
    BY <1>1, <1>6, <1>10 DEF ListWillBeRight, Right
  <2>4. AnswersWillBeRight'
    BY <1>7, <1>10 DEF AnswersWillBeRight
  <2>5. QED
    BY <1>6, <1>9, <2>1, <2>2, <2>3, <2>4
<1>11. ASSUME Calm', misled' = misled
       PROVE  /\ ~silent
              /\ \A field \in CertainBut(turnDue, AskedClicks, reading) :
                    Tells(f, field) \/ Told(rest, field) \/ Has(chatRow, listed, field)
  <2>1. \A l \in 1..MaxFetches : Late(fetches)[l].at = "none" => fetches[l].at = "none"
    BY <1>8
  <2>2. ASSUME fetches' = Late(fetches) PROVE Calm
    BY <1>1, <1>11, <2>1, <2>2 DEF Calm
  <2>3. fetches' = Late(fetches)
    <3>1. f.kind # "unarchived"
      <4>1. SUFFICES ASSUME f.kind = "unarchived" PROVE FALSE
        OBVIOUS
      <4>2. OnUnarchived
        BY <1>2, <4>1 DEF OnFrame
      <4>3. QED
        BY <1>8, <1>11, <4>2, AFetchIsAsked DEF OnUnarchived
    <3>2. QED
      BY <1>2, <3>1 DEF OnFrame, OnMeta, OnArchived, OnFlag
  <2>4. QED
    BY <1>2, <2>2, <2>3 DEF ListWillBeRight, Right, Calm
<1>12. CASE f.kind = "meta"
  <2>1. OnMeta(f.row)
    BY <1>2, <1>12 DEF OnFrame
  <2> DEFINE one == [f.row EXCEPT !.unread = f.row.unread /\ ~isCurrent]
  <2>2. /\ listed' = <<one>>
        /\ reading' = IF isCurrent /\ f.row.unread THEN reading + 1 ELSE reading
        /\ misled' = f.row.archived /\ fetches' = Late(fetches)
    BY <2>1 DEF OnMeta
  <2>3. /\ one \in ListRows
        /\ \A field \in Fields \ {"unread"} : one[field] = f.row[field]
        /\ ~(isCurrent /\ f.row.unread) => one["unread"] = f.row["unread"]
    <3>1. (f.row.unread /\ ~isCurrent) \in BOOLEAN
      OBVIOUS
    <3>2. one \in ListRows
      BY <1>5, <3>1 DEF ListRows
    <3>3. \A field \in Fields \ {"unread"} : one[field] = f.row[field]
      BY <1>5 DEF ListRows, Fields
    <3>4. ~(isCurrent /\ f.row.unread) => one["unread"] = f.row["unread"]
      BY <1>5 DEF ListRows
    <3>5. QED
      BY <3>2, <3>3, <3>4
  <2> HIDE DEF one
  <2>4. listed' \in Seq(ListRows) /\ Len(listed') = 1 /\ listed'[1] = one /\ reading' \in Nat
    BY <1>4, <2>2, <2>3
  <2>5. ASSUME Calm', NEW field \in CertainBut(turnDue, AskedClicks, reading'),
               ~Told(rest, field)
        PROVE  Has(chatRow, listed', field)
    <3>1. /\ field \in Fields /\ ~(field = "running" /\ turnDue)
          /\ field = "unread" => reading' = 0
      BY <2>5 DEF CertainBut, Certain
    <3>2. ~silent /\ ~f.row.archived
      BY <1>1, <2>2, <2>5 DEF Calm
    <3>3. Tells(f, field)
      BY <1>12 DEF Tells
    <3>4. f.row[field] = chatRow[field]
      BY <1>3, <2>5, <3>1, <3>2, <3>3
    <3>5. one[field] = f.row[field]
      <4>1. field = "unread" => ~(isCurrent /\ f.row.unread)
        BY <1>4, <2>2, <3>1
      <4>2. QED
        BY <2>3, <3>1, <4>1
    <3>6. field = "archived" => chatRow # NoChatRow /\ ~chatRow.archived
      <4>1. chatRow \in ListRows
        BY <1>1, RowThere
      <4>2. QED
        BY <1>1, <1>5, <3>2, <3>4, <4>1, RowsAreTold
    <3>7. QED
      BY <2>4, <3>4, <3>5, <3>6 DEF Has
  <2>6. QED
    BY <1>4, <1>8, <1>10, <2>2, <2>4, <2>5
<1>13. CASE f.kind = "archived"
  <2>1. /\ listed' = <<>> /\ fetches' = Late(fetches) /\ reading' = reading
        /\ misled' = misled
    BY <1>2, <1>13 DEF OnFrame, OnArchived
  <2>2. ASSUME Calm', NEW field \in CertainBut(turnDue, AskedClicks, reading'),
               ~Told(rest, field)
        PROVE  Has(chatRow, <<>>, field)
    <3>1. field # "archived" => Has(chatRow, <<>>, field)
      BY DEF Has
    <3>2. field = "archived" => chatRow.archived
      <4>1. ASSUME field = "archived" PROVE f.row["archived"] = chatRow["archived"]
        BY <1>3, <1>11, <1>13, <2>1, <2>2, <4>1 DEF Tells, Fields
      <4>2. f.row.archived
        BY <1>5, <1>13 DEF TellsSo
      <4>3. chatRow \in ListRows
        BY <1>1, RowThere
      <4>4. QED
        BY <1>5, <4>1, <4>2, <4>3, RowsAreTold
    <3>3. QED
      BY <3>1, <3>2 DEF Has
  <2>3. <<>> \in Seq(ListRows) /\ Len(<<>>) = 0
    OBVIOUS
  <2>4. QED
    BY <1>4, <1>8, <1>10, <2>1, <2>2, <2>3
<1>14. CASE f.kind = "unarchived"
  <2>1. OnUnarchived
    BY <1>2, <1>14 DEF OnFrame
  <2>2. /\ listed' = listed /\ reading' = reading
        /\ fetches' \in [1..MaxFetches -> FetchStates] /\ ~Calm'
        /\ \A l \in 1..MaxFetches : fetches'[l] = Late(fetches)[l]
              \/ (fetches'[l].at # "answered" /\ fetches'[l].has = <<>>)
    BY <1>8, <2>1, AFetchIsAsked DEF OnUnarchived
  <2>3. ASSUME NEW l \in 1..MaxFetches
        PROVE  /\ Len(fetches'[l].has) =< 1
               /\ fetches'[l].at = "answered" => fetches'[l].overtaken
    BY <1>4, <1>8, <2>2
  <2>4. QED
    BY <1>4, <1>10, <2>2, <2>3
<1>15. CASE f.kind \notin {"meta", "archived", "unarchived"}
  <2>1. OnFlag(f)
    BY <1>2, <1>15 DEF OnFrame
  <2>2. f.kind \in {"start", "end", "compacting", "mode"}
    BY <1>2, <1>15 DEF FrameStates
  <2> DEFINE Now(one) == CASE f.kind \in {"start", "end"} ->
                                 [one EXCEPT !.running = (f.kind = "start")]
                           [] f.kind = "compacting" ->
                                 [one EXCEPT !.compacting = f.row.compacting]
                           [] f.kind = "mode" -> [one EXCEPT !.mode = f.row.mode]
  <2>3. /\ listed' = [i \in DOMAIN listed |-> Now(listed[i])]
        /\ fetches' = Late(fetches) /\ reading' = reading /\ misled' = misled
    BY <2>1 DEF OnFlag
  <2>4. ASSUME NEW one \in ListRows
        PROVE  /\ Now(one) \in ListRows
               /\ \A field \in Fields :
                     Now(one)[field] = IF Tells(f, field) THEN f.row[field] ELSE one[field]
    <3>1. CASE f.kind \in {"start", "end"}
      <4>1. Now(one) = [one EXCEPT !.running = (f.kind = "start")]
        BY <3>1
      <4>2. (f.kind = "start") \in BOOLEAN /\ f.row["running"] = (f.kind = "start")
        BY <1>5, <3>1, RowsAreTold DEF TellsSo
      <4>3. \A field \in Fields : Tells(f, field) <=> field = "running"
        BY <3>1 DEF Tells
      <4>4. QED
        BY <4>1, <4>2, <4>3 DEF ListRows, Fields
    <3>2. CASE f.kind = "compacting"
      <4>1. Now(one) = [one EXCEPT !.compacting = f.row.compacting]
        BY <3>2
      <4>2. f.row.compacting \in BOOLEAN /\ f.row["compacting"] = f.row.compacting
        BY <1>5, RowsAreTold DEF ListRows
      <4>3. \A field \in Fields : Tells(f, field) <=> field = "compacting"
        BY <3>2 DEF Tells
      <4>4. QED
        BY <4>1, <4>2, <4>3 DEF ListRows, Fields
    <3>3. CASE f.kind = "mode"
      <4>1. Now(one) = [one EXCEPT !.mode = f.row.mode]
        BY <3>3
      <4>2. f.row.mode \in Modes3 /\ f.row["mode"] = f.row.mode
        BY <1>5, RowsAreTold DEF ListRows
      <4>3. \A field \in Fields : Tells(f, field) <=> field = "mode"
        BY <3>3 DEF Tells
      <4>4. QED
        BY <4>1, <4>2, <4>3 DEF ListRows, Fields
    <3>4. QED
      BY <2>2, <3>1, <3>2, <3>3
  <2> HIDE DEF Now
  <2>5. /\ DOMAIN listed = 1..Len(listed) /\ Len(listed) \in Nat
        /\ \A i \in 1..Len(listed) : listed[i] \in ListRows
    BY <1>4
  <2>6. /\ listed' \in Seq(ListRows) /\ Len(listed') = Len(listed)
        /\ \A i \in 1..Len(listed) : listed'[i] = Now(listed[i])
    BY <2>3, <2>4, <2>5
  <2>7. ASSUME Calm', NEW field \in CertainBut(turnDue, AskedClicks, reading),
               ~Told(rest, field)
        PROVE  Has(chatRow, listed', field)
    <3>1. field \in Fields /\ ~(field = "running" /\ turnDue)
      BY <2>7 DEF CertainBut, Certain
    <3>2. CASE Tells(f, field)
      <4>1. f.row[field] = chatRow[field] /\ field # "archived"
        BY <1>3, <1>11, <2>2, <2>3, <2>7, <3>1, <3>2 DEF Tells
      <4>2. \A i \in 1..Len(listed') : listed'[i][field] = f.row[field]
        BY <2>4, <2>5, <2>6, <3>1, <3>2
      <4>3. QED
        BY <4>1, <4>2 DEF Has
    <3>3. CASE ~Tells(f, field)
      <4>1. Has(chatRow, listed, field)
        BY <1>11, <2>3, <2>7, <3>3
      <4>2. \A i \in 1..Len(listed') : listed'[i][field] = listed[i][field]
        BY <2>4, <2>5, <2>6, <3>1, <3>3
      <4>3. QED
        BY <2>6, <4>1, <4>2 DEF Has
    <3>4. QED
      BY <3>2, <3>3
  <2>8. QED
    BY <1>4, <1>8, <1>10, <2>3, <2>6, <2>7
<1>16. QED
  BY <1>12, <1>13, <1>14, <1>15

\* The transcript comes: the chat is shown as read.
LEMMA ChatLoadedKeeps ==
    ASSUME ListInv, ChatLoaded
    PROVE  ListInv'
<1>1. ListTyped /\ Newness
  BY DEF ListInv
<1>2. /\ UNCHANGED <<chatRow, turnDue, silent, sideLinked, sideConnected, frames, isCurrent,
                     fetches, clicks, creation, archiving, misled, happened, failures>>
      /\ There' = There
  BY DEF ChatLoaded, server, sideSocket, There
<1>3. CASE ~isCurrent
  <2>1. UNCHANGED <<reading, listed>>
    BY <1>3 DEF ChatLoaded
  <2>2. Calm' => Calm
    BY <1>2 DEF Calm
  <2>3. /\ fetches \in [1..MaxFetches -> FetchStates] /\ creation \in FetchStates
        /\ clicks \in [1..MaxClicks -> ClickStates] /\ reading \in Nat
        /\ archiving \in {"none", "asked", "answered"}
        /\ ~There => archiving = "none" /\ reading = 0
        /\ sideLinked => sideConnected
        /\ ~sideLinked => frames = <<>>
    BY <1>1 DEF ListTyped, Newness
  <2>4. QED
    BY <1>1, <1>2, <1>3, <2>1, <2>2, <2>3, Bounded, QuietKeeps
<1>4. CASE isCurrent
  <2> USE DEF ListInv
  <2>1. /\ reading' = reading + 1 /\ reading \in Nat /\ listed \in Seq(ListRows) /\ There
        /\ listed' = [i \in DOMAIN listed |-> [listed[i] EXCEPT !.unread = FALSE]]
    BY <1>4 DEF ChatLoaded, ListTyped, Newness
  <2>2. /\ DOMAIN listed = 1..Len(listed) /\ Len(listed) \in Nat
        /\ \A i \in 1..Len(listed) : listed[i] \in ListRows
    BY <2>1
  <2>3. \A one \in ListRows :
           /\ [one EXCEPT !.unread = FALSE] \in ListRows
           /\ \A field \in Fields \ {"unread"} : [one EXCEPT !.unread = FALSE][field] = one[field]
    BY DEF ListRows, Fields
  <2>4. /\ listed' \in Seq(ListRows) /\ Len(listed') = Len(listed)
        /\ \A i \in 1..Len(listed) : listed'[i] = [listed[i] EXCEPT !.unread = FALSE]
    BY <2>1, <2>2, <2>3
  <2>5. /\ \A i \in 1..Len(listed) : \A field \in Fields \ {"unread"} :
              listed'[i][field] = listed[i][field]
        /\ reading' \in Nat /\ reading' # 0
    BY <2>1, <2>2, <2>3, <2>4
  <2>6. ASSUME NEW asked, NEW field \in CertainBut(turnDue, asked, reading')
        PROVE  field \in Fields \ {"unread"} /\ field \in CertainBut(turnDue, asked, reading)
    BY <2>5, <2>6 DEF CertainBut, Certain
  <2>7. Calm' = Calm /\ AskedClicks' = AskedClicks
    BY <1>2 DEF Calm, AskedClicks
  <2>8. ListTyped'
    BY <1>2, <2>4, <2>5 DEF ListTyped
  <2>9. Newness'
    BY <1>2, <2>1, <2>4 DEF Newness
  <2>10. LastWord'
    BY <1>2 DEF LastWord
  <2>11. ListWillBeRight'
    <3>1. ASSUME NEW field \in Fields \ {"unread"}, Has(chatRow, listed, field)
          PROVE  Has(chatRow, listed', field)
      BY <2>4, <2>5, <3>1 DEF Has
    <3>2. QED
      BY <1>2, <2>6, <2>7, <3>1 DEF ListWillBeRight, Right
  <2>12. RollbackWillBeRight'
    <3>1. SUFFICES ASSUME Calm, NEW k \in AskedClicks, ~clicks[k].overtaken
                   PROVE  Right(frames, chatRow, WithMode(listed', clicks[k].previous),
                                CertainBut(turnDue, AskedClicks \ {k}, reading'))
      BY <1>2, <2>7 DEF RollbackWillBeRight, WithMode
    <3>2. clicks[k].previous \in Modes3
      BY DEF AskedClicks, ListTyped, ClickStates
    <3> DEFINE mode == clicks[k].previous
               old == WithMode(listed, mode)
               new == WithMode(listed', mode)
    <3>3. /\ Len(new) = Len(old)
          /\ \A i \in 1..Len(old) : \A field \in Fields \ {"unread"} : new[i][field] = old[i][field]
      <4>1. /\ Len(old) = Len(listed)
            /\ \A i \in 1..Len(listed) :
                  /\ old[i]["mode"] = mode
                  /\ \A field \in Fields \ {"mode"} : old[i][field] = listed[i][field]
        BY <2>1, <3>2, WithModeIs
      <4>2. /\ Len(new) = Len(listed')
            /\ \A i \in 1..Len(listed') :
                  /\ new[i]["mode"] = mode
                  /\ \A field \in Fields \ {"mode"} : new[i][field] = listed'[i][field]
        BY <2>4, <3>2, WithModeIs
      <4> HIDE DEF old, new, mode
      <4>3. QED
        BY <2>4, <2>5, <4>1, <4>2
    <3>4. Right(frames, chatRow, old, CertainBut(turnDue, AskedClicks \ {k}, reading))
      BY <3>1 DEF RollbackWillBeRight
    <3> HIDE DEF old, new, mode
    <3>5. ASSUME NEW field \in Fields \ {"unread"}, Has(chatRow, old, field)
          PROVE  Has(chatRow, new, field)
      BY <3>3, <3>5 DEF Has
    <3>6. Right(frames, chatRow, new, CertainBut(turnDue, AskedClicks \ {k}, reading'))
      BY <2>6, <3>4, <3>5 DEF Right
    <3>7. QED
      BY <3>6 DEF new, mode
  <2>13. AnswersWillBeRight'
    <3>1. ASSUME listed = <<>> PROVE listed' = <<>>
      BY <2>4, <3>1
    <3>2. QED
      BY <1>2, <3>1 DEF AnswersWillBeRight
  <2>14. QED
    BY <2>8, <2>9, <2>10, <2>11, <2>12, <2>13
<1>5. QED
  BY <1>3, <1>4

\* A turn is due: the row runs, and no frame says so yet.
LEMMA TurnIsDueKeeps ==
    ASSUME ListInv, TurnIsDue
    PROVE  ListInv'
<1> USE DEF ListInv
<1>1. /\ There /\ ~chatRow.running /\ Happens
      /\ chatRow' = [chatRow EXCEPT !.running = TRUE] /\ turnDue' = TRUE
      /\ UNCHANGED <<frames, fetches, creation, misled, sideLinked, sideConnected, listed,
                     isCurrent, failures, clicks, archiving, reading, silent>>
  BY DEF TurnIsDue, Unsaid, Aside, Elsewhere
<1>2. chatRow \in ListRows /\ ~turnDue
  BY <1>1, RowThere DEF Newness
<1>3. /\ chatRow' \in ListRows /\ chatRow'.running
      /\ \A field \in Fields \ {"running"} : chatRow'[field] = chatRow[field]
  BY <1>1, <1>2 DEF ListRows, Fields
<1>4. /\ chatRow' # NoChatRow /\ chatRow # NoChatRow /\ There'
      /\ chatRow'.archived = chatRow.archived
  BY <1>2, <1>3, RowsAreTold DEF There, Fields
<1>5. ListTyped'
  BY <1>1, <1>3, Bounded DEF ListTyped
<1>6. Newness'
  BY <1>1, <1>3, <1>4 DEF Newness
<1>7. LastWord'
  BY <1>1, <1>2, <1>3 DEF LastWord, EndsWith
<1>8. \A field \in Certain(turnDue') :
         field \in Fields \ {"running"} /\ field \in Certain(turnDue)
  BY <1>1, <1>2 DEF Certain
<1>9. ASSUME NEW list, NEW fields, NEW more, Right(frames, chatRow, list, fields),
             \A field \in more : field \in fields /\ field \in Fields \ {"running"}
      PROVE  Right(frames, chatRow', list, more)
  BY <1>3, <1>4, <1>9 DEF Right, Has
<1>10. Calm' = Calm /\ AskedClicks' = AskedClicks
  BY <1>1 DEF Calm, AskedClicks
<1>11. ASSUME NEW asked
       PROVE  \A field \in CertainBut(turnDue', asked, reading) :
                 field \in CertainBut(turnDue, asked, reading) /\ field \in Fields \ {"running"}
  BY <1>8 DEF CertainBut
<1>12. ListWillBeRight'
  BY <1>1, <1>9, <1>10, <1>11 DEF ListWillBeRight
<1>13. RollbackWillBeRight'
  <2>1. SUFFICES ASSUME Calm, NEW k \in AskedClicks, ~clicks[k].overtaken
                 PROVE  Right(frames, chatRow', WithMode(listed, clicks[k].previous),
                              CertainBut(turnDue', AskedClicks \ {k}, reading))
    BY <1>1, <1>10 DEF RollbackWillBeRight, WithMode
  <2>2. Right(frames, chatRow, WithMode(listed, clicks[k].previous),
              CertainBut(turnDue, AskedClicks \ {k}, reading))
    BY <2>1 DEF RollbackWillBeRight
  <2>3. QED
    BY <1>9, <1>11, <2>2
<1>14. AnswersWillBeRight'
  BY <1>1, <1>8, <1>9 DEF AnswersWillBeRight
<1>15. QED
  BY <1>5, <1>6, <1>7, <1>12, <1>13, <1>14

\* A prompt fails, and no frame says so.
LEMMA PromptFailsKeeps ==
    ASSUME ListInv, PromptFails
    PROVE  ListInv'
<1> USE DEF ListInv
<1>1. /\ turnDue /\ turnDue' = FALSE /\ GoesWrong /\ silent' = TRUE
      /\ chatRow' = [chatRow EXCEPT !.running = FALSE]
      /\ UNCHANGED <<frames, fetches, creation, misled, sideLinked, sideConnected, listed,
                     isCurrent, clicks, archiving, reading, happened>>
  BY DEF PromptFails, Unsaid, Elsewhere
<1>2. There /\ chatRow \in ListRows
  BY <1>1, RowThere DEF Newness
<1>3. chatRow' \in ListRows
  BY <1>1, <1>2 DEF ListRows
<1>4. There'
  BY <1>3, RowsAreTold DEF There
<1>5. ListTyped'
  BY <1>1, <1>3, Bounded DEF ListTyped
<1>6. Newness'
  BY <1>1, <1>2, <1>4 DEF Newness
<1>7. LastWord' /\ ~Calm' /\ AnswersWillBeRight'
  BY <1>1 DEF LastWord, Calm, AnswersWillBeRight
<1>8. QED
  BY <1>5, <1>6, <1>7 DEF ListWillBeRight, RollbackWillBeRight

\* The chat is made.
LEMMA CreateArrivesKeeps ==
    ASSUME ListInv, CreateArrives
    PROVE  ListInv'
<1> USE DEF ListInv
<1> DEFINE fs == <<Meta(FreshRow)>>
           answer == [at |-> "answered", has |-> <<FreshRow>>, overtaken |-> FALSE]
<1>1. /\ ~There /\ chatRow' = FreshRow /\ creation' = answer
      /\ frames' = (IF sideLinked THEN frames \o fs ELSE frames)
      /\ fetches' = (IF sideLinked THEN fetches ELSE Late(fetches))
      /\ misled' = (misled \/ ~sideConnected)
      /\ UNCHANGED <<sideLinked, sideConnected, listed, isCurrent, failures, turnDue, clicks,
                     archiving, reading, silent, happened>>
  BY DEF CreateArrives, EmitToTab, Aside, Elsewhere, Newness
<1>2. /\ frames = <<>> /\ listed = <<>> /\ ~turnDue
      /\ fetches \in [1..MaxFetches -> FetchStates]
      /\ \A l \in 1..MaxFetches : fetches[l].has = <<>>
  BY <1>1 DEF Newness, ListTyped
<1>3. FreshRow \in ListRows /\ ~FreshRow.archived
  BY DEF FreshRow, ListRows, Modes3
<1>4. <<FreshRow>> \in Seq(ListRows) /\ <<FreshRow>>[1] = FreshRow /\ Len(<<FreshRow>>) = 1
  BY <1>3
<1>5. FreshRow # NoChatRow /\ There'
  BY <1>1, <1>3, RowsAreTold DEF There
<1>6. /\ fs \in Seq(FrameStates) /\ Len(fs) = 1 /\ fs[1].kind = "meta"
      /\ fs[1].row = FreshRow
  BY <1>3 DEF Meta, FrameStates
<1>7. answer \in FetchStates /\ answer.at = "answered" /\ answer.has = <<FreshRow>>
  BY <1>4 DEF FetchStates
<1> HIDE DEF fs, answer
<1>8. frames' = IF sideLinked THEN fs ELSE <<>>
  BY <1>1, <1>2, <1>6
<1>9. \A field : Told(fs, field)
  BY <1>6 DEF Told, Tells
<1>10. /\ Late(fetches) \in [1..MaxFetches -> FetchStates]
       /\ \A l \in 1..MaxFetches :
             /\ Late(fetches)[l].at = fetches[l].at /\ Late(fetches)[l].has = fetches[l].has
             /\ Late(fetches)[l].at = "answered" => Late(fetches)[l].overtaken
  BY <1>2, LateIs
<1>11. ListTyped'
  <2>1. frames' \in Seq(FrameStates)
    BY <1>6, <1>8
  <2>2. fetches' \in [1..MaxFetches -> FetchStates]
    BY <1>1, <1>2, <1>10
  <2>3. QED
    BY <1>1, <1>3, <1>7, <2>1, <2>2 DEF ListTyped
<1>12. Newness'
  <2>1. \A l \in 1..MaxFetches : Len(fetches'[l].has) =< 1
    BY <1>1, <1>2, <1>10
  <2>2. QED
    BY <1>1, <1>2, <1>5, <1>7, <1>8, <2>1 DEF Newness
<1>13. LastWord'
  BY <1>1, <1>6, <1>8 DEF LastWord, EndsWith, TellsSo
<1>14. Calm' => sideLinked
  BY <1>1 DEF Calm
<1>15. ASSUME sideLinked, NEW list, NEW fields
       PROVE  Right(frames', chatRow', list, fields)
  BY <1>8, <1>9, <1>15 DEF Right
<1>16. ListWillBeRight' /\ RollbackWillBeRight'
  BY <1>14, <1>15 DEF ListWillBeRight, RollbackWillBeRight
<1>17. AnswersWillBeRight'
  <2>1. \A field : Has(chatRow', creation'.has, field)
    BY <1>1, <1>3, <1>4, <1>5, <1>7 DEF Has
  <2>2. Right(frames', chatRow', creation'.has, Certain(turnDue)')
    BY <2>1 DEF Right
  <2>3. ASSUME NEW l \in 1..MaxFetches, fetches'[l].at = "answered", ~fetches'[l].overtaken
        PROVE  sideLinked
    BY <1>1, <1>10, <2>3
  <2>4. QED
    BY <1>1, <1>2, <1>15, <2>2, <2>3 DEF AnswersWillBeRight
<1>18. QED
  BY <1>11, <1>12, <1>13, <1>16, <1>17

\* The socket drops.
LEMMA SideDropsKeeps ==
    ASSUME ListInv, SideDrops
    PROVE  ListInv'
<1> USE DEF ListInv
<1>1. /\ sideLinked /\ GoesWrong /\ sideLinked' = FALSE /\ frames' = <<>>
      /\ fetches' = Late(fetches) /\ creation' = Overtaken(creation)
      /\ UNCHANGED <<silent, sideConnected, listed, isCurrent, clicks, archiving, reading,
                     misled, happened>>
  BY DEF SideDrops
<1>2. /\ sideConnected /\ fetches \in [1..MaxFetches -> FetchStates]
      /\ creation \in FetchStates /\ (turnDue => chatRow.running)
  BY <1>1 DEF Newness, ListTyped
<1>3. chatRow' \in ListRows \cup {NoChatRow} /\ There' = There
      /\ (turnDue' => turnDue /\ chatRow'.running)
  <2>1. CASE UNCHANGED <<chatRow, turnDue>>
    BY <1>2, <2>1 DEF ListTyped, There
  <2>2. CASE /\ There /\ turnDue' = FALSE
             /\ chatRow' = [chatRow EXCEPT !.running = FALSE, !.compacting = FALSE]
    <3>1. chatRow' \in ListRows
      BY <2>2, RowThere DEF ListRows
    <3>2. QED
      BY <2>2, <3>1, RowsAreTold DEF There
  <2>3. QED
    BY <2>1, <2>2 DEF SideDrops
<1>4. /\ fetches' \in [1..MaxFetches -> FetchStates]
      /\ \A l \in 1..MaxFetches :
            /\ fetches'[l].at = fetches[l].at /\ fetches'[l].has = fetches[l].has
            /\ fetches'[l].at = "answered" => fetches'[l].overtaken
  BY <1>1, <1>2, LateIs
<1>5. /\ creation' \in FetchStates /\ creation'.at = creation.at
      /\ creation'.has = creation.has
      /\ creation'.at = "answered" => creation'.overtaken
  BY <1>1, <1>2, OvertakenIs
<1>6. ListTyped'
  BY <1>1, <1>3, <1>4, <1>5, Bounded DEF ListTyped
<1>7. Newness'
  BY <1>1, <1>3, <1>4, <1>5 DEF Newness
<1>8. LastWord' /\ ~Calm'
  BY <1>1, <1>2 DEF LastWord, EndsWith, Calm
<1>9. AnswersWillBeRight'
  BY <1>4, <1>5 DEF AnswersWillBeRight
<1>10. QED
  BY <1>6, <1>7, <1>8, <1>9 DEF ListWillBeRight, RollbackWillBeRight

\* A tab that opens knows nothing, and has asked.
LEMMA ListInitInvariant == ListInit => ListInv
<1> SUFFICES ASSUME ListInit PROVE ListInv
  OBVIOUS
<1>1. NoFetch \in FetchStates /\ NoFetch.at = "none" /\ NoFetch.has = <<>>
      /\ NoClick \in ClickStates /\ NoClick.at = "none"
      /\ Asked \in FetchStates /\ Asked.at = "asked" /\ Asked.has = <<>>
  BY AskedIs DEF NoFetch, NoClick, FetchStates, ClickStates, Modes3
<1>2. /\ chatRow \in {FreshRow, NoChatRow} /\ turnDue = FALSE
      /\ sideLinked = FALSE /\ sideConnected = FALSE /\ frames = <<>>
      /\ listed = <<>> /\ isCurrent = FALSE /\ creation = NoFetch /\ archiving = "none"
      /\ reading = 0 /\ misled = FALSE /\ silent = FALSE /\ happened = 0 /\ failures = 0
      /\ clicks = [k \in 1..MaxClicks |-> NoClick]
      /\ fetches = [l \in 1..MaxFetches |-> IF l = 1 THEN Asked ELSE NoFetch]
  BY DEF ListInit
<1>3. /\ fetches \in [1..MaxFetches -> FetchStates] /\ clicks \in [1..MaxClicks -> ClickStates]
      /\ \A l \in 1..MaxFetches : fetches[l].has = <<>> /\ fetches[l].at # "answered"
      /\ \A k \in 1..MaxClicks : clicks[k].at = "none"
  BY <1>1, <1>2
<1>4. FreshRow \in ListRows
  BY DEF FreshRow, ListRows, Modes3
<1>5. ListTyped
  BY <1>1, <1>2, <1>3, <1>4, ListAssumption DEF ListTyped
<1>6. Newness
  BY <1>1, <1>2, <1>3 DEF Newness
<1>7. LastWord
  BY <1>2 DEF LastWord, EndsWith
<1>8. ~Calm
  <2>1. 1 \in 1..MaxFetches /\ fetches[1].at = "asked"
    BY <1>1, <1>2, ListAssumption
  <2>2. QED
    BY <2>1 DEF Calm
<1>9. AnswersWillBeRight
  BY <1>1, <1>2, <1>3 DEF AnswersWillBeRight
<1>10. QED
  BY <1>5, <1>6, <1>7, <1>8, <1>9 DEF ListInv, ListWillBeRight, RollbackWillBeRight

\* Each step of the server and of the tab.
LEMMA ListStepInvariant == ListInv /\ [ListNext]_listVars => ListInv'
<1> SUFFICES ASSUME ListInv, [ListNext]_listVars PROVE ListInv'
  OBVIOUS
<1>1. DOMAIN clicks = 1..MaxClicks /\ DOMAIN fetches = 1..MaxFetches
  BY DEF ListInv, ListTyped
<1>2. CASE UNCHANGED listVars
  BY <1>2 DEF listVars, sideSocket, sideCalls, ListInv, ListTyped, Newness, There, LastWord,
     ListWillBeRight, RollbackWillBeRight, AnswersWillBeRight, Calm, AskedClicks, WithMode
<1>3. CASE TurnIsDue \/ PromptFails \/ CreateArrives
  BY <1>3, TurnIsDueKeeps, PromptFailsKeeps, CreateArrivesKeeps
<1>4. CASE \/ AgentStarts \/ MessageIsWritten \/ AgentHasEnded \/ MarkCompaction
           \/ ReadArrives \/ ArchiveArrives
  BY <1>4, EmittersKeep
<1>5. CASE \E k \in DOMAIN clicks : ModeArrives(k) \/ ClickMode(k) \/ ModeFails(k)
  BY <1>1, <1>5, ModeArrivesKeeps, ClickModeKeeps, ModeFailsKeeps
<1>6. CASE \E l \in DOMAIN fetches : ListArrives(l) \/ ListLands(l)
  BY <1>1, <1>6, ListArrivesKeeps, ListLandsKeeps
<1>7. CASE \/ \E l \in DOMAIN fetches : ListFails(l)
           \/ \E k \in DOMAIN clicks : ModeSet(k)
           \/ ReadFails \/ ClickArchive \/ ArchiveAnswered \/ OtherCallFails
           \/ ClickNew \/ ClickChat \/ SideOpens
  BY <1>1, <1>7, QuietStepsKeep
<1>8. CASE OnFrame \/ NewAnswered \/ ChatLoaded \/ SideDrops
  BY <1>8, OnFrameKeeps, NewAnsweredKeeps, ChatLoadedKeeps, SideDropsKeeps
<1>9. QED
  BY <1>2, <1>3, <1>4, <1>5, <1>6, <1>7, <1>8 DEF ListNext

\* A list that is right in every field is the server's.
LEMMA ListInvariantSuffices == ListInv => ListTypeOK /\ SettledListIsRight
<1> SUFFICES ASSUME ListInv PROVE ListTypeOK /\ SettledListIsRight
  OBVIOUS
<1>1. ListTyped /\ Newness
  BY DEF ListInv
<1>2. ListTypeOK
  <2>1. chatRow \in [mode : Modes3 \cup {"none"}, archived : BOOLEAN, unread : BOOLEAN,
                     running : BOOLEAN, compacting : BOOLEAN]
    BY <1>1 DEF ListTyped, ListRows, NoChatRow, FreshRow, Modes3
  <2>2. Len(listed) \in 0..2
    <3>1. listed \in Seq(ListRows) /\ Len(listed) =< 2
      BY <1>1 DEF ListTyped, Newness
    <3>2. Len(listed) \in Nat
      BY <3>1, LenProperties
    <3>3. \A n \in Nat : n =< 2 => n \in 0..2
      OBVIOUS
    <3>4. QED
      BY <3>1, <3>2, <3>3, Zenon
  <2>3. QED
    BY <1>1, <2>1, <2>2 DEF ListTypeOK, ListTyped, Newness
<1>3. ASSUME ListSettled, ~misled, ~silent
      PROVE  listed = Listing
  <2>1. /\ sideLinked /\ frames = <<>> /\ ~turnDue /\ reading = 0
        /\ \A l \in 1..MaxFetches : fetches[l].at = "none"
        /\ \A k \in 1..MaxClicks : clicks[k].at = "none"
        /\ listed \in Seq(ListRows)
    BY <1>1, <1>3 DEF ListSettled, ListTyped
  <2>2. Calm
    BY <1>3, <2>1 DEF Calm
  <2>3. AskedClicks = {}
    BY <2>1 DEF AskedClicks
  <2>4. \A field \in Fields : Has(chatRow, listed, field)
    BY <2>1, <2>2, <2>3
       DEF ListInv, ListWillBeRight, Right, CertainBut, Certain, Told
  <2>5. \A i \in 1..Len(listed) : \A field \in Fields : listed[i][field] = chatRow[field]
    BY <2>4 DEF Has
  <2>6. Len(listed) = IF chatRow = NoChatRow \/ chatRow.archived THEN 0 ELSE 1
    BY <2>4 DEF Has, Fields
  <2>7. CASE Len(listed) = 0
    <3>1. listed = <<>>
      BY <2>1, <2>7
    <3>2. QED
      BY <2>6, <2>7, <3>1 DEF Listing, There
  <2>8. CASE Len(listed) = 1
    <3>1. There /\ ~chatRow.archived /\ chatRow \in ListRows
      BY <1>1, <2>6, <2>8, RowThere DEF There
    <3>2. listed = <<listed[1]>> /\ listed[1] \in ListRows
      BY <2>1, <2>8
    <3>3. listed[1] = chatRow
      BY <2>5, <2>8, <3>1, <3>2 DEF ListRows, Fields
    <3>4. QED
      BY <3>1, <3>2, <3>3 DEF Listing
  <2>9. QED
    BY <2>6, <2>7, <2>8
<1>4. QED
  BY <1>2, <1>3 DEF SettledListIsRight

-----------------------------------------------------------------------------
(* Theorems.                                                               *)

\* A session outlives what happens to it: its row can be made from its files, one
\* harness has it open, and its transcript comes through a compaction, for any
\* requests, titles, directories, turns, compactions and restarts
\* (manager.ts:312-379, 1084-1130, 1178-1211; compaction.ts:514-615).
THEOREM SessionsOutlive == SessionFileSpec => [](SessionFileTypeOK /\ SessionFileSound)
  BY FileInitInvariant, FileStepInvariant, FileInvariantSuffices, PTL DEF SessionFileSpec

\* The session reader takes the active branch of any file, and the turns that it
\* has taken stay in their place when the file grows, as long as the session does
\* not jump and no line is torn (reader.ts:90-118, 120-196).
THEOREM ReaderIsSound == ReaderSpec => ReaderSound
<1>1. ReaderInv => TurnsOfTheBranch
  BY ReaderInvariantSuffices
<1>2. ReaderInv /\ [ReaderNext]_readerVars =>
          (jumps' = jumps /\ torn' = 0 => IsPrefix(TurnsOf(tree), TurnsOf(tree)'))
  <2>1. TurnsOf(tree)' = TurnsOf(tree')
    BY DEF TurnsOf, ActiveBranch, Anchor
  <2>2. QED
    BY <2>1, ReaderStepIsSound
<1>3. QED
  BY <1>1, <1>2, ReaderInitInvariant, ReaderStepInvariant, PTL DEF ReaderSpec, ReaderSound

\* What the store knows is what was said to it, for any turns, facts and slots, and
\* any number of ingests, folds, redactions and crashes.  A fact rests on all turns
\* it was learned from, each counted once, unless ingests overlapped on it or, for
\* the count, one was cut short; the newest value of a slot shows, in whatever order
\* the sessions came, unless a value in it was redacted or moved, or an older
\* statement of it followed a newer; what was forgotten does not come back, and what
\* faded is in a summary (semantic/store.ts:149-214, api/memory-system.ts:716-801,
\* episodic/consolidate.ts:86-143).
THEOREM KnowledgeIsSound == LtmSpec => [](LtmTypeOK /\ LtmSound)
  BY LtmInitInvariant, LtmStepInvariant, LtmInvariantSuffices, PTL DEF LtmSpec

\* What was redacted stays so while it is recalled, and a crash loses less than half
\* of any memory's count, however often it is rehearsed: the counts that are logged
\* are the powers of two (episodic/store.ts:61-84, semantic/store.ts:249-255).
THEOREM RecallIsSound == RecallSpec => [](RecallTypeOK /\ RecallSound)
  BY RecallInitInvariant, RecallStepInvariant, RecallInvariantSuffices, PTL DEF RecallSpec

\* A patch of any number of sections and hunks, applied to any files, amounts to its
\* sections one after another, or to nothing when it is refused, as long as no other
\* call overlaps (apply-patch.ts:204-213, 280-282).
THEOREM PatchesApply == PatchSpec => [](PatchTypeOK /\ PatchAppliesAsItReads)
  BY PatchInitInvariant, PatchStepInvariant, PatchInvariantSuffices, PTL DEF PatchSpec

\* A tab with nothing under way shows the chat it has open, all of it and nothing
\* else, for any chats, messages, clicks and lost sockets -- but for messages emitted
\* before the socket first opened or before it was tuned to the chat, and unless the
\* load failed or overlapped another of the same chat (useApp.ts:199-216, 263-271,
\* 301-341).
THEOREM TranscriptSettles == ClientSpec => [](ClientTypeOK /\ SettledShowsTheChat)
  BY TabInitInvariant, TabStepInvariant, TabInvariantSuffices, PTL DEF ClientSpec

\* A tab with nothing under way lists the chat once, as the server has it, or not at
\* all when it is archived, for any number of fetches, clicks, failures and frames,
\* unless its last word on the chat was late or missing (useApp.ts:56-60, 121-158,
\* 185-225, 258-268, 344-347, 404-427).
THEOREM ListSettles == ListSpec => [](ListTypeOK /\ SettledListIsRight)
  BY ListInitInvariant, ListStepInvariant, ListInvariantSuffices, PTL DEF ListSpec
=============================================================================

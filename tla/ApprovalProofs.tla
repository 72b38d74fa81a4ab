--------------------------- MODULE ApprovalProofs ---------------------------
(***************************************************************************)
(* Proofs about Approval, for every set of calls, sessions and clients: an *)
(* approval is decided once, by a user who approved where its tool runs,   *)
(* and a client with nothing under way shows what its session waits for.   *)
(***************************************************************************)
EXTENDS Approval, SequenceTheorems, FiniteSetTheorems, TLAPS

-----------------------------------------------------------------------------
(* The inductive invariant.                                                *)

\* An Approve under way was clicked.
ApprovesClicked ==
    \A k \in Clients : \A i \in 1..Len(up[k]) :
        up[k][i].type = "approve" => up[k][i].of \in approved

\* Nothing is under way without a socket, and nobody is subscribed.
CutOff ==
    \A k \in Clients \ linked :
        down[k] = <<>> /\ up[k] = <<>> /\ subscribed[k] = NoSession

\* A frame is about a call's card when it puts it up or takes it down.
About(f, c) ==
    \/ f.type = "snapshot"
    \/ f.type \in {"request", "resolved"} /\ f.of = c

Shows(f, c) == f.type = "request" \/ (f.type = "snapshot" /\ c \in f.of)

\* Whether a client with the cards of C will show c once the frames of d have
\* come: the last one about c decides.
WillShow(C, d, c) ==
    \/ c \in C /\ \A i \in 1..Len(d) : ~About(d[i], c)
    \/ \E i \in 1..Len(d) :
          /\ About(d[i], c) /\ Shows(d[i], c)
          /\ \A j \in (i + 1)..Len(d) : ~About(d[j], c)

\* A subscribed client will show what waits in the session it is subscribed to.
CardsToCome ==
    \A k \in linked : subscribed[k] # NoSession =>
        \A c \in Calls :
            WillShow(cards[k], down[k], c) <=> c \in SnapshotOf(subscribed[k])

Subscribes(f) == f.type \in {"subscribe", "unsubscribe"}

\* Whether a socket that is subscribed to `now' will be subscribed to s once the
\* frames of u have come.
WillBeSubscribed(now, u, s) ==
    \/ s = now /\ \A i \in 1..Len(u) : ~Subscribes(u[i])
    \/ \E i \in 1..Len(u) :
          /\ Subscribes(u[i]) /\ u[i].of = s
          /\ \A j \in (i + 1)..Len(u) : ~Subscribes(u[j])

\* A socket is subscribed to what its client views, or will be.
SubscriptionToCome ==
    \A k \in linked : WillBeSubscribed(subscribed[k], up[k], viewing[k])

Inv ==
    /\ TypeOK
    /\ OneDecision /\ ApprovesClicked
    /\ CardsWatched
    /\ CutOff /\ CardsToCome /\ SubscriptionToCome

-----------------------------------------------------------------------------
(* Frames and sequences of them.                                           *)

\* What a frame carries, by its type.
LEMMA FrameShape ==
    ASSUME NEW f \in Frames
    PROVE  /\ f.type \in {"request", "resolved"} \cup Answers => f.of \in Calls
           /\ f.type = "snapshot" => f.of \in SUBSET Calls
           /\ f.type = "subscribe" => f.of \in Sessions
           /\ f.type = "unsubscribe" => f.of = NoSession
  BY DEF Frames, Frame, Answers

\* The frames that the program makes are of these types.
LEMMA FrameTypes ==
    /\ \A c \in Calls, t \in {"request", "resolved"} \cup Answers : Frame(t, c) \in Frames
    /\ \A S \in SUBSET Calls : Frame("snapshot", S) \in Frames
    /\ \A s \in Sessions : Frame("subscribe", s) \in Frames
    /\ Frame("unsubscribe", NoSession) \in Frames
  BY DEF Frames

\* A frame that comes last decides about the calls it is about.
LEMMA WillShowAppend ==
    ASSUME NEW d \in Seq(Frames), NEW f \in Frames, NEW C, NEW c
    PROVE  WillShow(C, Append(d, f), c) <=>
               IF About(f, c) THEN Shows(f, c) ELSE WillShow(C, d, c)
<1> DEFINE e == Append(d, f)
<1>1. /\ Len(d) \in Nat /\ Len(e) = Len(d) + 1
      /\ \A i \in 1..Len(d) : e[i] = d[i]
      /\ e[Len(d) + 1] = f
  BY AppendProperties, LenProperties
<1> HIDE DEF e
<1>2. CASE About(f, c)
  <2>1. ~\A i \in 1..Len(e) : ~About(e[i], c)
    BY <1>1, <1>2
  <2>2. ASSUME Shows(f, c) PROVE WillShow(C, e, c)
    <3>1. Len(d) + 1 \in 1..Len(e) /\ \A j \in (Len(d) + 2)..Len(e) : ~About(e[j], c)
      BY <1>1
    <3>2. QED
      BY <1>1, <1>2, <2>2, <3>1 DEF WillShow
  <2>3. ASSUME WillShow(C, e, c) PROVE Shows(f, c)
    <3>1. PICK i \in 1..Len(e) : /\ About(e[i], c) /\ Shows(e[i], c)
                                 /\ \A j \in (i + 1)..Len(e) : ~About(e[j], c)
      BY <2>1, <2>3 DEF WillShow
    <3>2. i = Len(d) + 1
      BY <1>1, <1>2, <3>1
    <3>3. QED
      BY <1>1, <3>1, <3>2
  <2>4. QED
    BY <1>2, <2>2, <2>3 DEF e
<1>3. CASE ~About(f, c)
  <2>1. (\A i \in 1..Len(e) : ~About(e[i], c)) <=> \A i \in 1..Len(d) : ~About(d[i], c)
    BY <1>1, <1>3
  <2>2. \A i \in 1..Len(d) : (\A j \in (i + 1)..Len(e) : ~About(e[j], c))
                                <=> \A j \in (i + 1)..Len(d) : ~About(d[j], c)
    BY <1>1, <1>3
  <2>3. 1..Len(e) = 1..Len(d) \cup {Len(d) + 1} /\ ~About(e[Len(d) + 1], c)
    BY <1>1, <1>3
  <2>4. \A i \in 1..Len(d) : e[i] = d[i]
    BY <1>1
  <2>5. (\E i \in 1..Len(e) : /\ About(e[i], c) /\ Shows(e[i], c)
                              /\ \A j \in (i + 1)..Len(e) : ~About(e[j], c))
        <=> \E i \in 1..Len(d) : /\ About(d[i], c) /\ Shows(d[i], c)
                                 /\ \A j \in (i + 1)..Len(d) : ~About(d[j], c)
    BY <2>2, <2>3, <2>4
  <2>6. QED
    BY <1>3, <2>1, <2>5 DEF e, WillShow
<1>4. QED
  BY <1>2, <1>3

\* What a client will show is not changed by a frame that comes.
LEMMA WillShowTail ==
    ASSUME NEW d \in Seq(Frames), d # <<>>, NEW C, NEW D, NEW c,
           c \in D <=> IF About(Head(d), c) THEN Shows(Head(d), c) ELSE c \in C
    PROVE  WillShow(D, Tail(d), c) <=> WillShow(C, d, c)
<1> DEFINE e == Tail(d)
<1>1. /\ Len(d) \in Nat \ {0} /\ Len(e) = Len(d) - 1
      /\ \A i \in 1..Len(e) : e[i] = d[i + 1]
      /\ Head(d) = d[1]
  BY HeadTailProperties, EmptySeq
<1> HIDE DEF e
<1>2. \A i \in 2..Len(d) : i - 1 \in 1..Len(e) /\ e[i - 1] = d[i]
  BY <1>1
<1>3. (\A i \in 1..Len(d) : ~About(d[i], c))
      <=> ~About(d[1], c) /\ \A i \in 1..Len(e) : ~About(e[i], c)
  BY <1>1, <1>2
<1>4. (\A i \in 2..Len(d) : ~About(d[i], c)) <=> \A i \in 1..Len(e) : ~About(e[i], c)
  BY <1>1, <1>2
<1>5. \A i \in 1..Len(e) : (\A j \in (i + 1)..Len(e) : ~About(e[j], c))
                              <=> \A j \in (i + 2)..Len(d) : ~About(d[j], c)
  BY <1>1, <1>2
<1>6. (\E i \in 1..Len(e) : /\ About(e[i], c) /\ Shows(e[i], c)
                            /\ \A j \in (i + 1)..Len(e) : ~About(e[j], c))
      <=> \E i \in 2..Len(d) : /\ About(d[i], c) /\ Shows(d[i], c)
                               /\ \A j \in (i + 1)..Len(d) : ~About(d[j], c)
  <2>1. ASSUME NEW i \in 1..Len(e), About(e[i], c), Shows(e[i], c),
               \A j \in (i + 1)..Len(e) : ~About(e[j], c)
        PROVE  /\ i + 1 \in 2..Len(d) /\ About(d[i + 1], c) /\ Shows(d[i + 1], c)
               /\ \A j \in (i + 1 + 1)..Len(d) : ~About(d[j], c)
    BY <1>1, <1>5, <2>1
  <2>2. ASSUME NEW i \in 2..Len(d), About(d[i], c), Shows(d[i], c),
               \A j \in (i + 1)..Len(d) : ~About(d[j], c)
        PROVE  /\ i - 1 \in 1..Len(e) /\ About(e[i - 1], c) /\ Shows(e[i - 1], c)
               /\ \A j \in (i - 1 + 1)..Len(e) : ~About(e[j], c)
    BY <1>1, <1>2, <2>2
  <2>3. QED
    BY <2>1, <2>2
<1>7. WillShow(C, d, c) <=>
         \/ c \in C /\ ~About(d[1], c) /\ \A i \in 1..Len(e) : ~About(e[i], c)
         \/ About(d[1], c) /\ Shows(d[1], c) /\ \A i \in 1..Len(e) : ~About(e[i], c)
         \/ \E i \in 2..Len(d) : /\ About(d[i], c) /\ Shows(d[i], c)
                                 /\ \A j \in (i + 1)..Len(d) : ~About(d[j], c)
  <2>1. 1..Len(d) = {1} \cup 2..Len(d)
    BY <1>1
  <2>2. QED
    BY <1>1, <1>3, <1>4, <2>1 DEF WillShow
<1>8. QED
  BY <1>1, <1>6, <1>7 DEF WillShow, e

\* Announcements take down the cards of the calls that they are about.
LEMMA WillShowAnnounced ==
    ASSUME NEW d \in Seq(Frames), NEW r \in Seq(Frames), NEW C, NEW c,
           \A i \in 1..Len(r) : r[i].type = "resolved"
    PROVE  WillShow(C, d \o r, c) <=>
               WillShow(C, d, c) /\ \A i \in 1..Len(r) : r[i].of # c
<1> DEFINE e == d \o r
<1>1. /\ Len(d) \in Nat /\ Len(r) \in Nat /\ Len(e) = Len(d) + Len(r)
      /\ \A i \in 1..Len(d) : e[i] = d[i]
      /\ \A i \in 1..Len(r) : e[Len(d) + i] = r[i]
  <2>1. /\ Len(d) \in Nat /\ Len(r) \in Nat /\ Len(e) = Len(d) + Len(r)
        /\ \A i \in 1..Len(d) + Len(r) : e[i] = IF i =< Len(d) THEN d[i] ELSE r[i - Len(d)]
    BY ConcatProperties, LenProperties
  <2>2. QED
    BY <2>1
<1> HIDE DEF e
<1>2. \A i \in 1..Len(r) : ~Shows(r[i], c) /\ (About(r[i], c) <=> r[i].of = c)
  BY DEF Shows, About
<1>3. \A i \in 1..Len(e) : i \in 1..Len(d) \/ ~Shows(e[i], c)
  <2>1. SUFFICES ASSUME NEW i \in 1..Len(e), i \notin 1..Len(d)
                 PROVE  ~Shows(e[i], c)
    OBVIOUS
  <2>2. i - Len(d) \in 1..Len(r) /\ Len(d) + (i - Len(d)) = i
    BY <1>1, <2>1
  <2>3. QED
    BY <1>1, <1>2, <2>2
<1>4. CASE \E i \in 1..Len(r) : r[i].of = c
  <2>1. PICK n \in 1..Len(r) : About(r[n], c)
    BY <1>2, <1>4
  <2>2. Len(d) + n \in 1..Len(e) /\ About(e[Len(d) + n], c)
    BY <1>1, <2>1
  <2>3. ASSUME NEW i \in 1..Len(e), About(e[i], c), Shows(e[i], c),
               \A j \in (i + 1)..Len(e) : ~About(e[j], c)
        PROVE  FALSE
    <3>1. i \in 1..Len(d)
      BY <1>2, <1>3, <2>3
    <3>2. Len(d) + n \in (i + 1)..Len(e)
      BY <1>1, <2>1, <3>1
    <3>3. QED
      BY <2>2, <2>3, <3>2
  <2>4. ~WillShow(C, e, c)
    BY <2>2, <2>3 DEF WillShow
  <2>5. QED
    BY <1>4, <2>4 DEF e
<1>5. CASE \A i \in 1..Len(r) : r[i].of # c
  <2>1. \A i \in 1..Len(e) : i \in 1..Len(d) \/ ~About(e[i], c)
    <3>1. SUFFICES ASSUME NEW i \in 1..Len(e), i \notin 1..Len(d)
                   PROVE  ~About(e[i], c)
      OBVIOUS
    <3>2. i - Len(d) \in 1..Len(r) /\ Len(d) + (i - Len(d)) = i
      BY <1>1, <3>1
    <3>3. QED
      BY <1>1, <1>2, <1>5, <3>2
  <2>2. \A i \in 1..Len(d) : e[i] = d[i] /\ i \in 1..Len(e)
    BY <1>1
  <2>3. (\A i \in 1..Len(e) : ~About(e[i], c)) <=> \A i \in 1..Len(d) : ~About(d[i], c)
    BY <2>1, <2>2
  <2>4. \A i \in 1..Len(d) : (\A j \in (i + 1)..Len(e) : ~About(e[j], c))
                                <=> \A j \in (i + 1)..Len(d) : ~About(d[j], c)
    <3>1. SUFFICES ASSUME NEW i \in 1..Len(d)
                   PROVE  (\A j \in (i + 1)..Len(e) : ~About(e[j], c))
                             <=> \A j \in (i + 1)..Len(d) : ~About(d[j], c)
      OBVIOUS
    <3>2. /\ \A j \in (i + 1)..Len(e) : j \in 1..Len(e) /\ (j \in (i + 1)..Len(d) \/ j \notin 1..Len(d))
          /\ \A j \in (i + 1)..Len(d) : j \in 1..Len(d) /\ j \in (i + 1)..Len(e)
      BY <1>1
    <3>3. QED
      BY <2>1, <2>2, <3>2
  <2>5. (\E i \in 1..Len(e) : /\ About(e[i], c) /\ Shows(e[i], c)
                              /\ \A j \in (i + 1)..Len(e) : ~About(e[j], c))
        <=> \E i \in 1..Len(d) : /\ About(d[i], c) /\ Shows(d[i], c)
                                 /\ \A j \in (i + 1)..Len(d) : ~About(d[j], c)
    BY <2>1, <2>2, <2>4
  <2>6. WillShow(C, e, c) <=> WillShow(C, d, c)
    BY <2>3, <2>5 DEF WillShow
  <2>7. QED
    BY <1>5, <2>6 DEF e, WillShow
<1>6. QED
  BY <1>4, <1>5

\* A subscription that is sent last is the one that counts.
LEMMA WillBeSubscribedAppend ==
    ASSUME NEW u \in Seq(Frames), NEW f \in Frames, NEW now, NEW s
    PROVE  WillBeSubscribed(now, Append(u, f), s) <=>
               IF Subscribes(f) THEN f.of = s ELSE WillBeSubscribed(now, u, s)
<1> DEFINE e == Append(u, f)
<1>1. /\ Len(u) \in Nat /\ Len(e) = Len(u) + 1
      /\ \A i \in 1..Len(u) : e[i] = u[i]
      /\ e[Len(u) + 1] = f
  BY AppendProperties, LenProperties
<1> HIDE DEF e
<1>2. CASE Subscribes(f)
  <2>1. ~\A i \in 1..Len(e) : ~Subscribes(e[i])
    BY <1>1, <1>2
  <2>2. ASSUME f.of = s PROVE WillBeSubscribed(now, e, s)
    <3>1. Len(u) + 1 \in 1..Len(e) /\ \A j \in (Len(u) + 2)..Len(e) : ~Subscribes(e[j])
      BY <1>1
    <3>2. QED
      BY <1>1, <1>2, <2>2, <3>1 DEF WillBeSubscribed
  <2>3. ASSUME WillBeSubscribed(now, e, s) PROVE f.of = s
    <3>1. PICK i \in 1..Len(e) : /\ Subscribes(e[i]) /\ e[i].of = s
                                 /\ \A j \in (i + 1)..Len(e) : ~Subscribes(e[j])
      BY <2>1, <2>3 DEF WillBeSubscribed
    <3>2. i = Len(u) + 1
      BY <1>1, <1>2, <3>1
    <3>3. QED
      BY <1>1, <3>1, <3>2
  <2>4. QED
    BY <1>2, <2>2, <2>3 DEF e, WillBeSubscribed
<1>3. CASE ~Subscribes(f)
  <2>1. (\A i \in 1..Len(e) : ~Subscribes(e[i])) <=> \A i \in 1..Len(u) : ~Subscribes(u[i])
    BY <1>1, <1>3
  <2>2. \A i \in 1..Len(u) : (\A j \in (i + 1)..Len(e) : ~Subscribes(e[j]))
                                <=> \A j \in (i + 1)..Len(u) : ~Subscribes(u[j])
    BY <1>1, <1>3
  <2>3. (\E i \in 1..Len(e) : /\ Subscribes(e[i]) /\ e[i].of = s
                              /\ \A j \in (i + 1)..Len(e) : ~Subscribes(e[j]))
        <=> \E i \in 1..Len(u) : /\ Subscribes(u[i]) /\ u[i].of = s
                                 /\ \A j \in (i + 1)..Len(u) : ~Subscribes(u[j])
    BY <1>1, <1>3, <2>2
  <2>4. QED
    BY <1>3, <2>1, <2>3 DEF e, WillBeSubscribed
<1>4. QED
  BY <1>2, <1>3

\* What a socket will be subscribed to is not changed by a frame that comes.
LEMMA WillBeSubscribedTail ==
    ASSUME NEW u \in Seq(Frames), u # <<>>, NEW now, NEW s,
           WillBeSubscribed(now, u, s)
    PROVE  WillBeSubscribed(IF Subscribes(Head(u)) THEN Head(u).of ELSE now, Tail(u), s)
<1> DEFINE e == Tail(u)
<1>1. /\ Len(u) \in Nat \ {0} /\ Len(e) = Len(u) - 1
      /\ \A i \in 1..Len(e) : e[i] = u[i + 1]
      /\ Head(u) = u[1]
  BY HeadTailProperties, EmptySeq
<1> HIDE DEF e
<1>2. \A i \in 2..Len(u) : i - 1 \in 1..Len(e) /\ e[i - 1] = u[i]
  BY <1>1
<1>3. CASE s = now /\ \A i \in 1..Len(u) : ~Subscribes(u[i])
  <2>1. ~Subscribes(Head(u)) /\ \A i \in 1..Len(e) : ~Subscribes(e[i])
    BY <1>1, <1>3
  <2>2. QED
    BY <1>3, <2>1 DEF WillBeSubscribed, e
<1>4. ASSUME NEW i \in 1..Len(u), Subscribes(u[i]), u[i].of = s,
             \A j \in (i + 1)..Len(u) : ~Subscribes(u[j])
      PROVE  WillBeSubscribed(IF Subscribes(Head(u)) THEN Head(u).of ELSE now, Tail(u), s)
  <2>1. CASE i = 1
    <3>1. \A j \in 1..Len(e) : ~Subscribes(e[j])
      BY <1>1, <1>4, <2>1
    <3>2. Subscribes(Head(u)) /\ Head(u).of = s
      BY <1>1, <1>4, <2>1
    <3>3. QED
      BY <3>1, <3>2 DEF WillBeSubscribed, e
  <2>2. CASE i # 1
    <3>1. i - 1 \in 1..Len(e) /\ Subscribes(e[i - 1]) /\ e[i - 1].of = s
      BY <1>1, <1>2, <1>4, <2>2
    <3>2. \A j \in (i - 1 + 1)..Len(e) : ~Subscribes(e[j])
      BY <1>1, <1>4, <2>2
    <3>3. QED
      BY <3>1, <3>2 DEF WillBeSubscribed, e
  <2>3. QED
    BY <2>1, <2>2
<1>5. QED
  BY <1>3, <1>4 DEF WillBeSubscribed

-----------------------------------------------------------------------------
(* Announcements.                                                          *)

\* The frames that announce the decision on the calls of S.
Announcements(S) ==
    [i \in 1..Len(SetToSeq(S)) |-> Frame("resolved", SetToSeq(S)[i])]

\* A finite set has a sequence of its elements.
LEMMA SetToSeqProperties ==
    ASSUME NEW S, IsFiniteSet(S)
    PROVE  /\ SetToSeq(S) \in Seq(S)
           /\ \A x \in S : \E i \in 1..Len(SetToSeq(S)) : SetToSeq(S)[i] = x
           /\ Len(SetToSeq(S)) = Cardinality(S)
<1> DEFINE n == Cardinality(S)
           q == SetToSeq(S)
<1>1. n \in Nat /\ ExistsBijection(1..n, S)
  BY FS_CardinalityType
<1>2. \E f \in [1..n -> S] : IsInjective(f)
  BY <1>1 DEF ExistsBijection, Bijection, Injection
<1>3. q \in [1..n -> S] /\ IsInjective(q)
  BY <1>2 DEF SetToSeq
<1>4. q \in Injection(1..n, S)
  BY <1>3 DEF Injection
<1>5. Cardinality(1..n) = n
  BY <1>1, FS_Interval
<1>6. q \in Surjection(1..n, S)
  BY <1>4, <1>5, FS_Injection
<1>7. q \in Seq(S) /\ Len(q) = n
  <2> HIDE DEF n, q
  <2>1. QED
    BY <1>1, <1>3, SeqDef
<1>8. QED
  BY <1>6, <1>7 DEF Surjection

\* Each call that is decided is announced, and no other.
LEMMA AnnouncementsProperties ==
    ASSUME NEW S \in SUBSET Calls
    PROVE  /\ Announcements(S) \in Seq(Frames)
           /\ S # {} => Announcements(S) # <<>>
           /\ \A i \in 1..Len(Announcements(S)) : Announcements(S)[i].type = "resolved"
           /\ \A c \in Calls : c \in S <=>
                 \E i \in 1..Len(Announcements(S)) : Announcements(S)[i].of = c
<1> DEFINE q == SetToSeq(S)
<1>1. IsFiniteSet(S)
  BY ConstantsAssumption, FS_Subset
<1>2. /\ q \in Seq(S) /\ \A x \in S : \E i \in 1..Len(q) : q[i] = x
  BY <1>1, SetToSeqProperties
<1> HIDE DEF q
<1>3. Len(q) \in Nat /\ \A i \in 1..Len(q) : q[i] \in S
  BY <1>2, LenProperties, ElementOfSeq
<1> DEFINE a == [i \in 1..Len(q) |-> Frame("resolved", q[i])]
<1>4. /\ a \in [1..Len(q) -> Frames]
      /\ \A i \in 1..Len(q) : a[i].type = "resolved" /\ a[i].of = q[i]
  BY <1>3, FrameTypes DEF Frame
<1> HIDE DEF a
<1>5. a \in Seq(Frames) /\ Len(a) = Len(q)
  BY <1>3, <1>4, SeqDef
<1>6. S # {} => a # <<>>
  BY <1>2, <1>5, EmptySeq
<1>7. a = Announcements(S)
  BY DEF a, q, Announcements
<1>8. QED
  BY <1>2, <1>3, <1>4, <1>5, <1>6, <1>7

-----------------------------------------------------------------------------
(* The steps of the server.                                                *)

\* A broadcast appends to what is under way to those whom it is for.
LEMMA BroadcastTo ==
    ASSUME NEW sent, NEW frames, Broadcast(sent, frames), NEW k \in Clients
    PROVE  /\ k \in Recipients(Head(frames)) => down'[k] = sent[k] \o frames
           /\ k \notin Recipients(Head(frames)) => down'[k] = sent[k]
<1> DEFINE R == Recipients(Head(frames))
<1>1. down' = [x \in Clients |-> IF x \in R THEN sent[x] \o frames ELSE sent[x]]
  BY DEF Broadcast
<1> HIDE DEF R
<1>2. QED
  BY <1>1 DEF R

\* What an announcement of decisions does to the frames under way.
LEMMA DecideFrames ==
    ASSUME TypeOK, NEW S \in SUBSET Calls, S # {}, NEW decision, Decide(S, decision, down)
    PROVE  /\ down' \in [Clients -> Seq(Frames)]
           /\ \A k \in Clients \ linked : down'[k] = down[k]
           /\ \A k \in linked, c \in Calls :
                 WillShow(cards[k], down'[k], c) <=>
                     WillShow(cards[k], down[k], c) /\ c \notin S
<1> DEFINE a == Announcements(S)
<1>1. /\ a \in Seq(Frames) /\ a # <<>>
      /\ \A i \in 1..Len(a) : a[i].type = "resolved"
      /\ \A c \in Calls : c \in S <=> \E i \in 1..Len(a) : a[i].of = c
  BY AnnouncementsProperties
<1>2. Broadcast(down, a)
  BY DEF Decide, Announcements
<1> HIDE DEF a
<1>3. Recipients(Head(a)) = linked
  <2>1. Head(a) = a[1] /\ 1 \in 1..Len(a)
    BY <1>1, HeadTailProperties, EmptySeq
  <2>2. QED
    BY <1>1, <2>1 DEF Recipients
<1>4. \A k \in Clients : down[k] \in Seq(Frames)
  BY DEF TypeOK
<1>5. \A k \in Clients : down'[k] = IF k \in linked THEN down[k] \o a ELSE down[k]
  BY <1>2, <1>3, BroadcastTo
<1>6. \A k \in Clients : down'[k] \in Seq(Frames)
  <2>1. \A k \in Clients : down[k] \o a \in Seq(Frames)
    BY <1>1, <1>4, ConcatProperties
  <2>2. QED
    BY <1>4, <1>5, <2>1
<1>7. down' \in [Clients -> Seq(Frames)]
  BY <1>2, <1>6 DEF Broadcast
<1>8. ASSUME NEW k \in linked, NEW c \in Calls
      PROVE  WillShow(cards[k], down'[k], c) <=> WillShow(cards[k], down[k], c) /\ c \notin S
  <2>1. k \in Clients
    BY DEF TypeOK
  <2>2. WillShow(cards[k], down[k] \o a, c) <=>
            WillShow(cards[k], down[k], c) /\ \A i \in 1..Len(a) : a[i].of # c
    BY <1>1, <1>4, <2>1, WillShowAnnounced
  <2>3. QED
    BY <1>1, <1>5, <2>1, <2>2
<1>9. QED
  BY <1>5, <1>7, <1>8

\* Decisions on approvals that are pending, and on Approve only where it was
\* clicked, keep what the server owes: one decision, and cards that will show
\* what is pending.
LEMMA DecideKeeps ==
    ASSUME Inv, NEW S \in SUBSET Pending, S # {}, NEW decision, Decide(S, decision, down),
           decision = "approve" => S \subseteq approved,
           UNCHANGED <<linked, subscribed, approved, cards>>
    PROVE  /\ call' \in [Calls -> {"new", "asking", "ran", "denied", "dead"}]
           /\ announced' \in [Calls -> Nat]
           /\ down' \in [Clients -> Seq(Frames)]
           /\ \A k \in Clients \ linked : down'[k] = down[k]
           /\ OneDecision' /\ CardsToCome'
<1>1. TypeOK /\ OneDecision /\ CardsToCome /\ S \in SUBSET Calls
  BY DEF Inv, Pending
<1>2. /\ down' \in [Clients -> Seq(Frames)]
      /\ \A k \in Clients \ linked : down'[k] = down[k]
      /\ \A k \in linked, c \in Calls :
            WillShow(cards[k], down'[k], c) <=>
                WillShow(cards[k], down[k], c) /\ c \notin S
  BY <1>1, DecideFrames
<1>3. \A c \in Calls :
         /\ c \notin S => call'[c] = call[c] /\ announced'[c] = announced[c]
         /\ c \in S => /\ call[c] = "asking" /\ announced'[c] = announced[c] + 1
                       /\ call'[c] = IF decision = "approve" THEN "ran" ELSE "denied"
  BY DEF Decide, Pending
<1>4. /\ call' \in [Calls -> {"new", "asking", "ran", "denied", "dead"}]
      /\ announced' \in [Calls -> Nat]
  BY <1>1, <1>3 DEF Decide, TypeOK
<1>5. OneDecision'
  BY <1>1, <1>3 DEF OneDecision
<1>6. CardsToCome'
  <2>1. SUFFICES ASSUME NEW k \in linked, subscribed[k] # NoSession, NEW c \in Calls
                 PROVE  WillShow(cards[k], down'[k], c) <=>
                            call'[c] = "asking" /\ Home[c] = subscribed[k]
    BY DEF CardsToCome, SnapshotOf, Pending
  <2>2. WillShow(cards[k], down[k], c) <=> call[c] = "asking" /\ Home[c] = subscribed[k]
    BY <1>1, <2>1 DEF CardsToCome, SnapshotOf, Pending
  <2>3. call'[c] = "asking" <=> call[c] = "asking" /\ c \notin S
    BY <1>3
  <2>4. QED
    BY <1>2, <2>2, <2>3
<1>7. QED
  BY <1>2, <1>4, <1>5, <1>6

\* A gated tool asks: the card will be put up where its session is shown.
LEMMA ExecuteKeeps ==
    ASSUME Inv, NEW c \in Calls, Execute(c)
    PROVE  Inv'
<1> DEFINE f == Frame("request", c)
<1>1. /\ TypeOK /\ OneDecision /\ CardsToCome /\ call[c] = "new"
      /\ call' = [call EXCEPT ![c] = "asking"]
      /\ UNCHANGED <<linked, subscribed, up, breaks, approved, announced>>
      /\ UNCHANGED <<viewing, cards, armed, clicked, views>>
  BY DEF Inv, Execute, client
<1>2. f \in Frames /\ f.type = "request" /\ f.of = c /\ Home[c] \in Sessions
  BY FrameTypes, ConstantsAssumption DEF Frame
<1>3. Recipients(f) = {k \in linked : subscribed[k] = Home[c]}
  BY <1>2 DEF Recipients
<1> HIDE DEF f
<1>4. \A k \in Clients : down[k] \in Seq(Frames)
  BY <1>1 DEF TypeOK
<1>5. \A k \in Clients : down'[k] = IF k \in linked /\ subscribed[k] = Home[c]
                                    THEN Append(down[k], f) ELSE down[k]
  <2>1. Broadcast(down, <<f>>) /\ Head(<<f>>) = f
    BY DEF Execute, f
  <2>2. \A k \in Clients : down[k] \o <<f>> = Append(down[k], f)
    BY <1>2, <1>4, AppendIsConcat
  <2>3. QED
    BY <1>3, <2>1, <2>2, BroadcastTo
<1>6. down' \in [Clients -> Seq(Frames)]
  <2>1. \A k \in Clients : down'[k] \in Seq(Frames)
    BY <1>2, <1>4, <1>5, AppendProperties
  <2>2. QED
    BY <2>1 DEF Execute, Broadcast
<1>7. TypeOK'
  BY <1>1, <1>6 DEF TypeOK
<1>8. OneDecision'
  BY <1>1 DEF OneDecision, TypeOK
<1>9. CardsToCome'
  <2>1. SUFFICES ASSUME NEW k \in linked, subscribed[k] # NoSession, NEW x \in Calls
                 PROVE  WillShow(cards[k], down'[k], x) <=>
                            call'[x] = "asking" /\ Home[x] = subscribed[k]
    BY <1>1 DEF CardsToCome, SnapshotOf, Pending
  <2>2. WillShow(cards[k], down[k], x) <=> call[x] = "asking" /\ Home[x] = subscribed[k]
    BY <1>1, <2>1 DEF CardsToCome, SnapshotOf, Pending
  <2>3. (About(f, x) <=> x = c) /\ Shows(f, x) /\ k \in Clients
    BY <1>1, <1>2 DEF About, Shows, TypeOK
  <2>4. WillShow(cards[k], Append(down[k], f), x) <=>
            (x = c \/ WillShow(cards[k], down[k], x))
    BY <1>2, <1>4, <2>3, WillShowAppend
  <2>5. call'[x] = IF x = c THEN "asking" ELSE call[x]
    BY <1>1 DEF TypeOK
  <2>6. QED
    BY <1>1, <1>5, <2>2, <2>3, <2>4, <2>5
<1>10. CutOff'
  BY <1>1, <1>5 DEF Inv, CutOff
<1>11. ApprovesClicked' /\ CardsWatched' /\ SubscriptionToCome'
  BY <1>1 DEF Inv, ApprovesClicked, CardsWatched, SubscriptionToCome
<1>12. QED
  BY <1>7, <1>8, <1>9, <1>10, <1>11 DEF Inv

\* A timeout, and an abort of the session, deny what is pending.
LEMMA DenialKeeps ==
    ASSUME Inv, NEW S \in SUBSET Pending, S # {}, NEW decision, decision # "approve",
           Decide(S, decision, down),
           UNCHANGED <<linked, subscribed, up, breaks, approved, client>>
    PROVE  Inv'
<1>1. UNCHANGED <<linked, subscribed, up, breaks, approved>>
      /\ UNCHANGED <<viewing, cards, armed, clicked, views>>
  BY DEF client
<1>2. /\ call' \in [Calls -> {"new", "asking", "ran", "denied", "dead"}]
      /\ announced' \in [Calls -> Nat] /\ down' \in [Clients -> Seq(Frames)]
      /\ \A k \in Clients \ linked : down'[k] = down[k]
      /\ OneDecision' /\ CardsToCome'
  BY <1>1, DecideKeeps
<1>3. TypeOK'
  BY <1>1, <1>2 DEF Inv, TypeOK
<1>4. CutOff'
  BY <1>1, <1>2 DEF Inv, CutOff
<1>5. ApprovesClicked' /\ CardsWatched' /\ SubscriptionToCome'
  BY <1>1 DEF Inv, ApprovesClicked, CardsWatched, SubscriptionToCome
<1>6. QED
  BY <1>2, <1>3, <1>4, <1>5 DEF Inv

\* Nobody answers.
LEMMA TimeoutKeeps ==
    ASSUME Inv, NEW c \in Calls, Timeout(c)
    PROVE  Inv'
<1>1. /\ {c} \in SUBSET Pending /\ Decide({c}, "timeout", down)
      /\ UNCHANGED <<linked, subscribed, up, breaks, approved, client>>
  BY DEF Timeout
<1>2. QED
  BY <1>1, DenialKeeps

\* An abort.
LEMMA CancelSessionKeeps ==
    ASSUME Inv, NEW s \in Sessions, CancelSession(s)
    PROVE  Inv'
<1> DEFINE S == {c \in Pending : Home[c] = s}
<1>1. /\ S \in SUBSET Pending /\ S # {} /\ Decide(S, "deny", down)
      /\ UNCHANGED <<linked, subscribed, up, breaks, approved, client>>
  BY DEF CancelSession
<1>2. QED
  BY <1>1, DenialKeeps

\* A frame comes from a client: a subscription is answered by what is pending in
\* its session, an Approve was clicked, and the rest of the frames are in order.
LEMMA ReceiveKeeps ==
    ASSUME Inv, NEW k \in Clients, Receive(k)
    PROVE  Inv'
<1> DEFINE f == Head(up[k])
           t == Tail(up[k])
<1>1. TypeOK /\ OneDecision /\ ApprovesClicked /\ CardsToCome /\ SubscriptionToCome
      /\ up[k] \in Seq(Frames) /\ up[k] # <<>> /\ up' = [up EXCEPT ![k] = t]
  BY DEF Inv, TypeOK, Receive
<1>2. UNCHANGED <<linked, breaks, approved, viewing, cards, armed, clicked, views>>
  BY DEF Receive, client, server
<1>3. /\ f \in Frames /\ t \in Seq(Frames)
      /\ Len(up[k]) \in Nat \ {0} /\ Len(t) = Len(up[k]) - 1
      /\ \A i \in 1..Len(t) : t[i] = up[k][i + 1]
      /\ f = up[k][1]
  BY <1>1, HeadTailProperties, EmptySeq
<1>4. k \in linked
  BY <1>1 DEF Inv, CutOff
<1>5. \/ /\ f.type = "subscribe"
         /\ subscribed' = [subscribed EXCEPT ![k] = f.of]
         /\ down' = [down EXCEPT ![k] = Append(@, Frame("snapshot", SnapshotOf(f.of)))]
         /\ UNCHANGED <<call, announced>>
      \/ /\ f.type = "unsubscribe"
         /\ subscribed' = [subscribed EXCEPT ![k] = NoSession]
         /\ UNCHANGED <<down, call, announced>>
      \/ /\ f.type \in Answers /\ f.of \in Pending
         /\ Decide({f.of}, f.type, down) /\ subscribed' = subscribed
      \/ /\ f.type \in Answers
         /\ UNCHANGED <<call, announced, down, subscribed>>
  BY DEF Receive, server
<1>6. WillBeSubscribed(IF Subscribes(f) THEN f.of ELSE subscribed[k], t, viewing[k])
  BY <1>1, <1>4, WillBeSubscribedTail DEF SubscriptionToCome
<1> HIDE DEF f, t
<1>7. up' \in [Clients -> Seq(Frames)]
  BY <1>1, <1>3 DEF TypeOK
<1>8. ApprovesClicked'
  <2>1. \A i \in 1..Len(t) : i + 1 \in 1..Len(up[k])
    BY <1>3
  <2>2. \A i \in 1..Len(t) : t[i].type = "approve" => t[i].of \in approved
    BY <1>1, <1>3, <2>1 DEF ApprovesClicked
  <2>3. \A j \in Clients : up'[j] = IF j = k THEN t ELSE up[j]
    BY <1>1 DEF TypeOK
  <2>4. QED
    BY <1>1, <1>2, <2>2, <2>3 DEF ApprovesClicked
<1>9. /\ subscribed' \in [Clients -> Sessions \cup {NoSession}]
      /\ subscribed'[k] = IF Subscribes(f) THEN f.of ELSE subscribed[k]
      /\ \A j \in Clients \ {k} : subscribed'[j] = subscribed[j]
  <2>1. /\ f.type = "subscribe" => f.of \in Sessions
        /\ f.type = "unsubscribe" => f.of = NoSession
        /\ f.type \in Answers => ~Subscribes(f)
    BY <1>3, FrameShape DEF Subscribes, Answers
  <2>2. QED
    BY <1>1, <1>5, <2>1 DEF TypeOK, Subscribes
<1>10. SubscriptionToCome'
  BY <1>1, <1>2, <1>6, <1>9 DEF SubscriptionToCome, TypeOK
<1>11. /\ call' \in [Calls -> {"new", "asking", "ran", "denied", "dead"}]
       /\ announced' \in [Calls -> Nat] /\ down' \in [Clients -> Seq(Frames)]
       /\ \A j \in Clients \ linked : down'[j] = down[j]
       /\ OneDecision' /\ CardsToCome'
  <2>1. CASE f.type \in Answers /\ f.of \in Pending /\ subscribed' = subscribed
             /\ Decide({f.of}, f.type, down)
    <3>1. f.type = "approve" => f.of \in approved
      BY <1>1, <1>3 DEF ApprovesClicked
    <3>2. {f.of} \in SUBSET Pending /\ UNCHANGED <<linked, subscribed, approved, cards>>
      BY <1>2, <2>1
    <3>3. QED
      BY <2>1, <3>1, <3>2, DecideKeeps
  <2>2. CASE UNCHANGED <<call, announced, down, subscribed>>
    <3>1. TypeOK /\ OneDecision' /\ CardsToCome'
      BY <1>1, <1>2, <2>2 DEF OneDecision, CardsToCome, SnapshotOf, Pending
    <3>2. QED
      BY <2>2, <3>1 DEF TypeOK
  <2>3. CASE /\ f.type = "unsubscribe"
             /\ subscribed' = [subscribed EXCEPT ![k] = NoSession]
             /\ UNCHANGED <<down, call, announced>>
    <3>1. TypeOK /\ OneDecision'
      BY <1>1, <1>2, <2>3 DEF OneDecision
    <3>2. CardsToCome'
      BY <1>1, <1>2, <2>3 DEF CardsToCome, SnapshotOf, Pending, TypeOK
    <3>3. QED
      BY <2>3, <3>1, <3>2 DEF TypeOK
  <2>4. CASE /\ f.type = "subscribe"
             /\ subscribed' = [subscribed EXCEPT ![k] = f.of]
             /\ down' = [down EXCEPT ![k] = Append(@, Frame("snapshot", SnapshotOf(f.of)))]
             /\ UNCHANGED <<call, announced>>
    <3> DEFINE g == Frame("snapshot", SnapshotOf(f.of))
    <3>1. /\ g \in Frames
          /\ \A C, c : About(g, c) /\ (Shows(g, c) <=> c \in SnapshotOf(f.of))
      BY FrameTypes DEF About, Shows, Frame, SnapshotOf, Pending
    <3> HIDE DEF g
    <3>2. /\ down[k] \in Seq(Frames) /\ Append(down[k], g) \in Seq(Frames)
          /\ \A j \in Clients : down'[j] = IF j = k THEN Append(down[k], g) ELSE down[j]
          /\ down' \in [Clients -> Seq(Frames)]
      <4>1. down[k] \in Seq(Frames) /\ down' = [down EXCEPT ![k] = Append(down[k], g)]
        BY <1>1, <2>4 DEF TypeOK, g
      <4>2. Append(down[k], g) \in Seq(Frames)
        BY <3>1, <4>1, AppendProperties
      <4>3. QED
        BY <1>1, <4>1, <4>2 DEF TypeOK
    <3>3. TypeOK /\ OneDecision'
      BY <1>1, <1>2, <2>4 DEF OneDecision
    <3>4. CardsToCome'
      <4>1. SUFFICES ASSUME NEW j \in linked, subscribed'[j] # NoSession, NEW c \in Calls
                     PROVE  WillShow(cards[j], down'[j], c) <=>
                                call[c] = "asking" /\ Home[c] = subscribed'[j]
        BY <1>2, <2>4 DEF CardsToCome, SnapshotOf, Pending
      <4>2. CASE j = k
        <5>1. WillShow(cards[k], Append(down[k], g), c) <=> c \in SnapshotOf(f.of)
          BY <3>1, <3>2, WillShowAppend
        <5>2. subscribed'[k] = f.of
          BY <1>1, <2>4 DEF TypeOK
        <5>3. c \in SnapshotOf(f.of) <=> call[c] = "asking" /\ Home[c] = f.of
          BY DEF SnapshotOf, Pending
        <5>4. QED
          BY <3>2, <4>2, <5>1, <5>2, <5>3
      <4>3. CASE j # k
        <5>1. j \in Clients /\ subscribed'[j] = subscribed[j] /\ down'[j] = down[j]
          BY <1>1, <1>9, <3>2, <4>3 DEF TypeOK
        <5>2. WillShow(cards[j], down[j], c) <=>
                  call[c] = "asking" /\ Home[c] = subscribed[j]
          BY <1>1, <4>1, <5>1 DEF CardsToCome, SnapshotOf, Pending
        <5>3. QED
          BY <5>1, <5>2
      <4>4. QED
        BY <4>2, <4>3
    <3>5. QED
      BY <1>4, <2>4, <3>2, <3>3, <3>4 DEF TypeOK
  <2>5. QED
    BY <1>5, <2>1, <2>2, <2>3, <2>4
<1>12. TypeOK'
  BY <1>1, <1>2, <1>7, <1>9, <1>11 DEF TypeOK
<1>13. CutOff'
  BY <1>1, <1>2, <1>4, <1>9, <1>11 DEF Inv, CutOff, TypeOK
<1>14. CardsWatched'
  BY <1>2 DEF Inv, CardsWatched
<1>15. QED
  BY <1>8, <1>10, <1>11, <1>12, <1>13, <1>14 DEF Inv

-----------------------------------------------------------------------------
(* The steps of the client.                                                *)

\* A frame comes to a client: a card goes up or down, or all are replaced.
LEMMA DeliverKeeps ==
    ASSUME Inv, NEW k \in Clients, Deliver(k)
    PROVE  Inv'
<1> DEFINE f == Head(down[k])
           t == Tail(down[k])
<1>1. TypeOK /\ CardsToCome
      /\ down[k] \in Seq(Frames) /\ down[k] # <<>> /\ down' = [down EXCEPT ![k] = t]
  BY DEF Inv, TypeOK, Deliver
<1>2. /\ UNCHANGED <<linked, subscribed, up, breaks, viewing, views>>
      /\ UNCHANGED <<call, approved, announced>>
  BY DEF Deliver, server
<1>3. f \in Frames /\ t \in Seq(Frames)
  BY <1>1, HeadTailProperties
<1>4. PICK D \in SUBSET Calls :
         /\ cards' = [cards EXCEPT ![k] = D]
         /\ clicked' = [clicked EXCEPT ![k] = @ \cap D]
         /\ armed' = [armed EXCEPT ![k] = D]
         /\ \A c \in Calls : c \in D <=> IF About(f, c) THEN Shows(f, c) ELSE c \in cards[k]
  <2>1. cards[k] \in SUBSET Calls /\ armed[k] = cards[k]
    BY <1>1 DEF TypeOK, Inv, CardsWatched
  <2>2. /\ f.type \in {"request", "resolved"} => f.of \in Calls
        /\ f.type = "snapshot" => f.of \in SUBSET Calls
    BY <1>3, FrameShape
  <2>3. CASE f.type = "request" /\ Show(k, cards[k] \cup {f.of})
             /\ armed' = [armed EXCEPT ![k] = @ \cup {f.of}]
    <3>1. armed' = [armed EXCEPT ![k] = cards[k] \cup {f.of}]
      BY <2>1, <2>3
    <3>2. cards[k] \cup {f.of} \in SUBSET Calls
      BY <2>1, <2>2, <2>3
    <3>3. \A c \in Calls : c \in cards[k] \cup {f.of} <=>
                              IF About(f, c) THEN Shows(f, c) ELSE c \in cards[k]
      BY <2>3 DEF About, Shows
    <3>4. QED
      BY <2>3, <3>1, <3>2, <3>3 DEF Show
  <2>4. CASE f.type = "resolved" /\ Show(k, cards[k] \ {f.of})
             /\ armed' = [armed EXCEPT ![k] = @ \ {f.of}]
    <3>1. armed' = [armed EXCEPT ![k] = cards[k] \ {f.of}]
      BY <2>1, <2>4
    <3>2. cards[k] \ {f.of} \in SUBSET Calls
      BY <2>1
    <3>3. \A c \in Calls : c \in cards[k] \ {f.of} <=>
                              IF About(f, c) THEN Shows(f, c) ELSE c \in cards[k]
      BY <2>4 DEF About, Shows
    <3>4. QED
      BY <2>4, <3>1, <3>2, <3>3 DEF Show
  <2>5. CASE f.type = "snapshot" /\ OnPendingApprovals(k, f.of)
    <3>1. \A c \in Calls : c \in f.of <=>
                              IF About(f, c) THEN Shows(f, c) ELSE c \in cards[k]
      BY <2>5 DEF About, Shows
    <3>2. QED
      BY <2>2, <2>5, <3>1 DEF OnPendingApprovals, Show
  <2>6. QED
    BY <2>3, <2>4, <2>5 DEF Deliver
<1>5. \A c \in Calls : WillShow(D, t, c) <=> WillShow(cards[k], down[k], c)
  BY <1>1, <1>4, WillShowTail
<1> HIDE DEF f, t
<1>6. /\ \A j \in Clients : down'[j] = IF j = k THEN t ELSE down[j]
      /\ \A j \in Clients : cards'[j] = IF j = k THEN D ELSE cards[j]
      /\ \A j \in Clients : armed'[j] = IF j = k THEN D ELSE armed[j]
      /\ \A j \in Clients : clicked'[j] \subseteq cards'[j]
      /\ down' \in [Clients -> Seq(Frames)]
      /\ cards' \in [Clients -> SUBSET Calls] /\ armed' \in [Clients -> SUBSET Calls]
      /\ clicked' \in [Clients -> SUBSET Calls]
  BY <1>1, <1>3, <1>4 DEF TypeOK
<1>7. TypeOK'
  BY <1>1, <1>2, <1>6 DEF TypeOK
<1>8. CardsToCome'
  BY <1>1, <1>2, <1>5, <1>6 DEF CardsToCome, SnapshotOf, Pending, TypeOK
<1>9. CutOff'
  BY <1>1, <1>2, <1>6 DEF Inv, CutOff
<1>10. CardsWatched'
  BY <1>6 DEF Inv, CardsWatched
<1>11. OneDecision' /\ ApprovesClicked' /\ SubscriptionToCome'
  BY <1>2 DEF Inv, OneDecision, ApprovesClicked, SubscriptionToCome
<1>12. QED
  BY <1>7, <1>8, <1>9, <1>10, <1>11 DEF Inv

\* What a client sends comes last, if its socket is open.
LEMMA SendFrames ==
    ASSUME Inv, NEW k \in Clients, NEW f \in Frames, Send(k, <<f>>)
    PROVE  /\ up' \in [Clients -> Seq(Frames)]
           /\ \A j \in Clients \ {k} : up'[j] = up[j]
           /\ k \notin linked => up'[k] = up[k]
           /\ k \in linked => up'[k] = Append(up[k], f)
<1>1. up \in [Clients -> Seq(Frames)]
  BY DEF Inv, TypeOK
<1>2. up[k] \o <<f>> = Append(up[k], f) /\ Append(up[k], f) \in Seq(Frames)
  BY <1>1, AppendIsConcat, AppendProperties
<1>3. up' = [up EXCEPT ![k] = IF k \in linked THEN Append(up[k], f) ELSE up[k]]
  BY <1>2 DEF Send
<1>4. QED
  BY <1>1, <1>2, <1>3

\* Sending nothing changes nothing.
LEMMA SendNothing ==
    ASSUME Inv, NEW k \in Clients, Send(k, <<>>)
    PROVE  up' = up
<1>1. up \in [Clients -> Seq(Frames)]
  BY DEF Inv, TypeOK
<1>2. up[k] \o <<>> = up[k]
  BY <1>1, ConcatEmptySeq
<1>3. QED
  BY <1>1, <1>2 DEF Send

\* An Approve that is sent was clicked, if those under way were.
LEMMA SendApprove ==
    ASSUME Inv, NEW k \in Clients, NEW f \in Frames, Send(k, <<f>>),
           approved \subseteq approved', f.type = "approve" => f.of \in approved'
    PROVE  ApprovesClicked'
<1>1. \A j \in Clients : up[j] \in Seq(Frames)
  BY DEF Inv, TypeOK
<1>2. \A j \in Clients : up'[j] = up[j] \/ up'[j] = Append(up[j], f)
  BY SendFrames
<1>3. SUFFICES ASSUME NEW j \in Clients, NEW i \in 1..Len(up'[j]),
                      up'[j][i].type = "approve"
               PROVE  up'[j][i].of \in approved'
  BY DEF ApprovesClicked
<1>4. /\ Len(Append(up[j], f)) = Len(up[j]) + 1 /\ Len(up[j]) \in Nat
      /\ \A n \in 1..Len(up[j]) : Append(up[j], f)[n] = up[j][n]
      /\ Append(up[j], f)[Len(up[j]) + 1] = f
  BY <1>1, AppendProperties, LenProperties
<1>5. (i \in 1..Len(up[j]) /\ up'[j][i] = up[j][i]) \/ up'[j][i] = f
  <2>1. CASE up'[j] = up[j]
    BY <1>3, <2>1
  <2>2. CASE up'[j] = Append(up[j], f)
    <3>1. i \in 1..(Len(up[j]) + 1)
      BY <1>3, <1>4, <2>2
    <3>2. i \in 1..Len(up[j]) \/ i = Len(up[j]) + 1
      BY <1>4, <3>1
    <3>3. QED
      BY <1>4, <2>2, <3>2
  <2>3. QED
    BY <1>2, <2>1, <2>2
<1>6. QED
  BY <1>3, <1>5 DEF Inv, ApprovesClicked

\* What a client sends does not change what it views, or is what it asks for.
LEMMA SendSubscription ==
    ASSUME Inv, NEW k \in Clients, NEW f \in Frames, Send(k, <<f>>),
           UNCHANGED <<linked, subscribed>>,
           \A j \in Clients \ {k} : viewing'[j] = viewing[j],
           IF Subscribes(f) THEN f.of = viewing'[k] ELSE viewing'[k] = viewing[k]
    PROVE  SubscriptionToCome'
<1>1. /\ \A j \in Clients : up[j] \in Seq(Frames)
      /\ \A j \in linked : j \in Clients /\ WillBeSubscribed(subscribed[j], up[j], viewing[j])
  BY DEF Inv, TypeOK, SubscriptionToCome
<1>2. SUFFICES ASSUME NEW j \in linked
               PROVE  WillBeSubscribed(subscribed[j], up'[j], viewing'[j])
  BY DEF SubscriptionToCome
<1>3. CASE j # k
  BY <1>1, <1>3, SendFrames
<1>4. CASE j = k
  <2>1. up'[k] = Append(up[k], f)
    BY <1>4, SendFrames
  <2>2. WillBeSubscribed(subscribed[k], Append(up[k], f), viewing'[k]) <=>
            IF Subscribes(f) THEN f.of = viewing'[k]
            ELSE WillBeSubscribed(subscribed[k], up[k], viewing'[k])
    BY <1>1, WillBeSubscribedAppend
  <2>3. QED
    BY <1>1, <1>4, <2>1, <2>2
<1>5. QED
  BY <1>3, <1>4

\* The watchdog takes down a card that is not pending any more, and asks anew.
LEMMA WatchdogKeeps ==
    ASSUME Inv, NEW k \in Clients, NEW c \in Calls, Watchdog(k, c)
    PROVE  Inv'
<1>1. TypeOK /\ CardsToCome /\ c \notin Pending
  BY DEF Inv, Watchdog
<1>2. /\ UNCHANGED <<linked, subscribed, down, breaks, viewing, views>>
      /\ UNCHANGED <<call, approved, announced>>
  BY DEF Watchdog, server
<1>3. /\ cards' = [cards EXCEPT ![k] = cards[k] \ {c}]
      /\ clicked' = [clicked EXCEPT ![k] = @ \cap (cards[k] \ {c})]
      /\ armed' = [armed EXCEPT ![k] = @ \ {c}]
  BY DEF Watchdog, Show
<1>4. /\ up' \in [Clients -> Seq(Frames)]
      /\ \A j \in Clients : j \notin linked => up'[j] = up[j]
      /\ ApprovesClicked' /\ SubscriptionToCome'
  <2>1. CASE viewing[k] = NoSession
    <3>1. up' = up
      BY <2>1, SendNothing DEF Watchdog
    <3>2. QED
      BY <1>1, <1>2, <3>1 DEF Inv, TypeOK, ApprovesClicked, SubscriptionToCome
  <2>2. CASE viewing[k] # NoSession
    <3> DEFINE f == Frame("subscribe", viewing[k])
    <3>1. /\ f \in Frames /\ f.type = "subscribe" /\ f.of = viewing[k]
      BY <1>1, <2>2, FrameTypes DEF TypeOK, Frame
    <3>2. Send(k, <<f>>)
      BY <2>2 DEF Watchdog
    <3> HIDE DEF f
    <3>3. ApprovesClicked'
      BY <1>2, <3>1, <3>2, SendApprove
    <3>4. SubscriptionToCome'
      BY <1>2, <3>1, <3>2, SendSubscription DEF Subscribes
    <3>5. QED
      BY <3>1, <3>2, <3>3, <3>4, SendFrames
  <2>3. QED
    BY <2>1, <2>2
<1>5. TypeOK'
  <2>1. /\ cards' \in [Clients -> SUBSET Calls] /\ armed' \in [Clients -> SUBSET Calls]
        /\ clicked' \in [Clients -> SUBSET Calls]
    BY <1>1, <1>3 DEF TypeOK
  <2>2. \A j \in Clients : clicked'[j] \subseteq cards'[j]
    BY <1>1, <1>3 DEF TypeOK
  <2>3. QED
    BY <1>1, <1>2, <1>4, <2>1, <2>2 DEF TypeOK
<1>6. CardsToCome'
  <2>1. SUFFICES ASSUME NEW j \in linked, subscribed[j] # NoSession, NEW x \in Calls
                 PROVE  WillShow(cards'[j], down[j], x) <=>
                            x \in Pending /\ Home[x] = subscribed[j]
    BY <1>2 DEF CardsToCome, SnapshotOf, Pending
  <2>2. WillShow(cards[j], down[j], x) <=> x \in Pending /\ Home[x] = subscribed[j]
    BY <1>1, <2>1 DEF CardsToCome, SnapshotOf
  <2>3. cards'[j] = cards[j] \/ cards'[j] = cards[j] \ {c}
    BY <1>1, <1>3 DEF TypeOK
  <2>4. CASE x # c \/ cards'[j] = cards[j]
    BY <2>2, <2>3, <2>4 DEF WillShow
  <2>5. CASE x = c
    BY <1>1, <2>2, <2>3, <2>5 DEF WillShow
  <2>6. QED
    BY <2>4, <2>5
<1>7. CardsWatched'
  BY <1>1, <1>3 DEF Inv, CardsWatched, TypeOK
<1>8. OneDecision' /\ CutOff'
  BY <1>2, <1>4 DEF Inv, OneDecision, CutOff
<1>9. QED
  BY <1>4, <1>5, <1>6, <1>7, <1>8 DEF Inv

\* The user answers a card.
LEMMA ClickKeeps ==
    ASSUME Inv, NEW k \in Clients, NEW c \in Calls, Click(k, c)
    PROVE  Inv'
<1>1. /\ TypeOK /\ c \in cards[k] /\ clicked' = [clicked EXCEPT ![k] = @ \cup {c}]
      /\ UNCHANGED <<linked, subscribed, down, breaks, call, announced>>
      /\ UNCHANGED <<viewing, cards, armed, views>>
  BY DEF Inv, Click
<1>2. PICK a \in Answers :
         /\ approved' = IF a = "approve" THEN approved \cup {c} ELSE approved
         /\ Send(k, <<Frame(a, c)>>)
  BY DEF Click
<1> DEFINE f == Frame(a, c)
<1>3. /\ f \in Frames /\ f.of = c /\ (f.type = "approve" => c \in approved')
      /\ f.type \in Answers /\ Send(k, <<f>>) /\ approved \subseteq approved'
  BY <1>2, FrameTypes DEF Frame
<1> HIDE DEF f
<1>4. ~Subscribes(f)
  BY <1>3 DEF Subscribes, Answers
<1>5. /\ up' \in [Clients -> Seq(Frames)]
      /\ \A j \in Clients \ linked : up'[j] = up[j]
  BY <1>3, SendFrames
<1>6. ApprovesClicked'
  BY <1>3, SendApprove
<1>7. SubscriptionToCome'
  BY <1>1, <1>3, <1>4, SendSubscription
<1>8. TypeOK'
  <2>1. approved' \subseteq Calls /\ clicked' \in [Clients -> SUBSET Calls]
        /\ \A j \in Clients : clicked'[j] \subseteq cards[j]
    BY <1>1, <1>2 DEF TypeOK
  <2>2. QED
    BY <1>1, <1>5, <2>1 DEF TypeOK
<1>9. OneDecision'
  BY <1>1, <1>3 DEF Inv, OneDecision
<1>10. CardsWatched' /\ CutOff' /\ CardsToCome'
  BY <1>1, <1>5 DEF Inv, CardsWatched, CutOff, CardsToCome, SnapshotOf, Pending
<1>11. QED
  BY <1>6, <1>7, <1>8, <1>9, <1>10 DEF Inv

\* Another session is shown, or none.
LEMMA ViewKeeps ==
    ASSUME Inv, NEW k \in Clients, NEW s \in Sessions \cup {NoSession}, View(k, s)
    PROVE  Inv'
<1> DEFINE f == Frame(IF s = NoSession THEN "unsubscribe" ELSE "subscribe", s)
<1>1. /\ TypeOK /\ viewing' = [viewing EXCEPT ![k] = s]
      /\ views' \in 0..MaxViews
      /\ UNCHANGED <<linked, subscribed, down, breaks>>
      /\ UNCHANGED <<call, approved, announced, cards, armed, clicked>>
  BY ConstantsAssumption DEF Inv, TypeOK, View, server
<1>2. /\ f \in Frames /\ Subscribes(f) /\ f.of = s /\ f.type # "approve"
      /\ Send(k, <<f>>)
  BY FrameTypes DEF View, Frame, Subscribes
<1> HIDE DEF f
<1>3. /\ up' \in [Clients -> Seq(Frames)]
      /\ \A j \in Clients \ linked : up'[j] = up[j]
  BY <1>2, SendFrames
<1>4. ApprovesClicked'
  BY <1>1, <1>2, SendApprove
<1>5. SubscriptionToCome'
  <2>1. viewing'[k] = s /\ \A j \in Clients \ {k} : viewing'[j] = viewing[j]
    BY <1>1 DEF TypeOK
  <2>2. QED
    BY <1>1, <1>2, <2>1, SendSubscription
<1>6. TypeOK'
  BY <1>1, <1>3 DEF TypeOK
<1>7. OneDecision' /\ CardsWatched' /\ CutOff' /\ CardsToCome'
  BY <1>1, <1>3 DEF Inv, OneDecision, CardsWatched, CutOff, CardsToCome, SnapshotOf,
                    Pending
<1>8. QED
  BY <1>4, <1>5, <1>6, <1>7 DEF Inv

-----------------------------------------------------------------------------
(* The steps of sockets and of the process.                                *)

\* What is cut off is forgotten.
LEMMA CutKeeps ==
    ASSUME Inv, NEW K \in SUBSET Clients, Cut(K), UNCHANGED client,
           UNCHANGED <<approved, announced>>,
           call' \in [Calls -> {"new", "asking", "ran", "denied", "dead"}],
           \/ call' = call
           \/ /\ linked' = {}
              /\ \A c \in Calls : call'[c] = IF c \in Pending THEN "dead" ELSE call[c]
    PROVE  Inv'
<1>1. /\ TypeOK /\ OneDecision /\ UNCHANGED <<viewing, cards, armed, clicked, views>>
      /\ linked' = linked \ K /\ breaks' \in 0..MaxBreaks
  BY ConstantsAssumption DEF Inv, TypeOK, Cut, client
<1>2. /\ \A k \in Clients : subscribed'[k] = IF k \in K THEN NoSession ELSE subscribed[k]
      /\ \A k \in Clients : down'[k] = IF k \in K THEN <<>> ELSE down[k]
      /\ \A k \in Clients : up'[k] = IF k \in K THEN <<>> ELSE up[k]
  BY DEF Cut
<1>3. <<>> \in Seq(Frames) /\ Len(<<>>) = 0
  BY EmptySeq
<1>4. /\ down' \in [Clients -> Seq(Frames)] /\ up' \in [Clients -> Seq(Frames)]
      /\ subscribed' \in [Clients -> Sessions \cup {NoSession}]
  BY <1>1, <1>3 DEF TypeOK, Cut
<1>5. TypeOK'
  BY <1>1, <1>4 DEF TypeOK
<1>6. OneDecision'
  BY <1>1 DEF OneDecision, Pending
<1>7. ApprovesClicked'
  BY <1>2, <1>3 DEF Inv, ApprovesClicked
<1>8. CutOff'
  BY <1>1, <1>2 DEF Inv, CutOff
<1>9. CardsToCome'
  <2>1. CASE call' = call
    BY <1>1, <1>2, <2>1 DEF Inv, TypeOK, CardsToCome, SnapshotOf, Pending
  <2>2. CASE linked' = {}
    BY <2>2 DEF CardsToCome
  <2>3. QED
    BY <2>1, <2>2
<1>10. SubscriptionToCome'
  BY <1>1, <1>2 DEF Inv, TypeOK, SubscriptionToCome
<1>11. CardsWatched'
  BY <1>1 DEF Inv, CardsWatched
<1>12. QED
  BY <1>5, <1>6, <1>7, <1>8, <1>9, <1>10, <1>11 DEF Inv

\* A socket drops.
LEMMA DropKeeps ==
    ASSUME Inv, NEW k \in Clients, Drop(k)
    PROVE  Inv'
<1>1. /\ Cut({k}) /\ UNCHANGED client /\ UNCHANGED <<call, approved, announced>>
  BY DEF Drop, server
<1>2. call' \in [Calls -> {"new", "asking", "ran", "denied", "dead"}]
  BY <1>1 DEF Inv, TypeOK
<1>3. QED
  BY <1>1, <1>2, CutKeeps

\* The server dies and starts again.
LEMMA RestartKeeps ==
    ASSUME Inv, Restart
    PROVE  Inv'
<1>1. /\ Cut(Clients) /\ UNCHANGED client /\ UNCHANGED <<approved, announced>>
      /\ call' = [c \in Calls |-> IF c \in Pending THEN "dead" ELSE call[c]]
  BY DEF Restart
<1>2. linked' = {}
  BY <1>1 DEF Cut, Inv, TypeOK
<1>3. call' \in [Calls -> {"new", "asking", "ran", "denied", "dead"}]
  BY <1>1 DEF Inv, TypeOK
<1>4. QED
  BY <1>1, <1>2, <1>3, CutKeeps

\* A socket opens: its client asks for what it views.
LEMMA ConnectKeeps ==
    ASSUME Inv, NEW k \in Clients, Connect(k)
    PROVE  Inv'
<1> DEFINE f == Frame("snapshot", {})
           g == Frame("subscribe", viewing[k])
<1>1. /\ TypeOK /\ linked' = linked \cup {k} /\ k \notin linked
      /\ down' = [down EXCEPT ![k] = <<f>>]
      /\ up' = [up EXCEPT ![k] = IF viewing[k] = NoSession THEN <<>> ELSE <<g>>]
      /\ UNCHANGED <<subscribed, breaks, call, approved, announced>>
      /\ UNCHANGED <<viewing, cards, armed, clicked, views>>
  BY DEF Inv, Connect, server, client
<1>2. subscribed[k] = NoSession
  BY <1>1 DEF Inv, CutOff
<1>3. /\ f \in Frames
      /\ viewing[k] # NoSession => g \in Frames
      /\ g.type = "subscribe" /\ g.of = viewing[k]
  BY <1>1, FrameTypes DEF TypeOK, Frame
<1> HIDE DEF f, g
<1>4. /\ <<f>> \in Seq(Frames) /\ <<>> \in Seq(Frames) /\ Len(<<>>) = 0
      /\ viewing[k] # NoSession => <<g>> \in Seq(Frames)
      /\ Len(<<g>>) = 1 /\ <<g>>[1] = g
  BY <1>3
<1>5. TypeOK'
  BY <1>1, <1>4 DEF TypeOK
<1>6. up'[k] = (IF viewing[k] = NoSession THEN <<>> ELSE <<g>>)
      /\ \A j \in Clients \ {k} : up'[j] = up[j] /\ down'[j] = down[j]
  BY <1>1 DEF TypeOK
<1>7. ApprovesClicked'
  <2>1. SUFFICES ASSUME NEW j \in Clients, NEW i \in 1..Len(up'[j]), up'[j][i].type = "approve"
                 PROVE  up'[j][i].of \in approved
    BY <1>1 DEF ApprovesClicked
  <2>2. CASE j = k
    <3>1. ~(i \in 1..0)
      OBVIOUS
    <3>2. up'[k] = <<g>> /\ i = 1
      BY <1>4, <1>6, <2>1, <2>2, <3>1
    <3>3. QED
      BY <1>3, <1>4, <2>1, <2>2, <3>2
  <2>3. CASE j # k
    BY <1>6, <2>1, <2>3 DEF Inv, ApprovesClicked
  <2>4. QED
    BY <2>2, <2>3
<1>8. CutOff'
  BY <1>1, <1>6 DEF Inv, CutOff
<1>9. CardsToCome'
  BY <1>1, <1>2, <1>6 DEF Inv, TypeOK, CardsToCome, SnapshotOf, Pending
<1>10. SubscriptionToCome'
  <2>1. SUFFICES ASSUME NEW j \in linked \cup {k}
                 PROVE  WillBeSubscribed(subscribed[j], up'[j], viewing[j])
    BY <1>1 DEF SubscriptionToCome
  <2>2. CASE j # k
    BY <1>1, <1>6, <2>1, <2>2 DEF Inv, TypeOK, SubscriptionToCome
  <2>3. CASE j = k /\ viewing[k] = NoSession
    BY <1>2, <1>4, <1>6, <2>3 DEF WillBeSubscribed
  <2>4. CASE j = k /\ viewing[k] # NoSession
    <3>1. 1 \in 1..Len(<<g>>) /\ \A i \in (1 + 1)..Len(<<g>>) : FALSE
      BY <1>4
    <3>2. Subscribes(g)
      BY <1>3 DEF Subscribes
    <3>3. WillBeSubscribed(subscribed[k], <<g>>, viewing[k])
      BY <1>3, <1>4, <3>1, <3>2 DEF WillBeSubscribed
    <3>4. QED
      BY <1>6, <2>4, <3>3
  <2>5. QED
    BY <2>2, <2>3, <2>4
<1>11. OneDecision' /\ CardsWatched'
  BY <1>1 DEF Inv, OneDecision, CardsWatched
<1>12. QED
  BY <1>5, <1>7, <1>8, <1>9, <1>10, <1>11 DEF Inv

-----------------------------------------------------------------------------
(* All steps.                                                              *)

\* The invariant holds of the initial states.
LEMMA InitInvariant == Init => Inv
<1>1. ASSUME Init PROVE TypeOK
  <2>1. <<>> \in Seq(Frames)
    BY EmptySeq
  <2>2. QED
    BY <1>1, <2>1, ConstantsAssumption DEF Init, TypeOK
<1>2. ASSUME Init PROVE ApprovesClicked
  BY <1>2, EmptySeq DEF Init, ApprovesClicked
<1>3. ASSUME Init
      PROVE  OneDecision /\ CardsWatched /\ CutOff /\ CardsToCome /\ SubscriptionToCome
  BY <1>3 DEF Init, OneDecision, CardsWatched, CutOff, CardsToCome, SubscriptionToCome
<1>4. QED
  BY <1>1, <1>2, <1>3 DEF Inv

\* A step that changes nothing keeps the invariant.
LEMMA StutterKeeps ==
    ASSUME Inv, UNCHANGED vars
    PROVE  Inv'
  BY DEF vars, server, wires, client, Inv, TypeOK, OneDecision, ApprovesClicked,
         CardsWatched, CutOff, CardsToCome, SubscriptionToCome, SnapshotOf, Pending

\* Every step keeps the invariant.
LEMMA StepInvariant == Inv /\ [Next]_vars => Inv'
  BY ExecuteKeeps, TimeoutKeeps, CancelSessionKeeps, ReceiveKeeps, DeliverKeeps,
     DropKeeps, ConnectKeeps, WatchdogKeeps, ClickKeeps, ViewKeeps, RestartKeeps,
     StutterKeeps DEF Next

-----------------------------------------------------------------------------
(* Theorems.                                                               *)

\* The inductive invariant holds of every behaviour.
THEOREM Invariance == Spec => []Inv
  BY InitInvariant, StepInvariant, PTL DEF Spec

\* Whoever answers first, in whichever tab, or nobody: an approval is decided
\* once, its tool runs only where a user approved, and every card is watched
\* (coordinator.ts:52-98; wrap-tool.ts:74-86; useApp.ts:94-115).
THEOREM ApprovalIsConsistent == Spec => []ApprovalConsistent
<1>1. Inv => ApprovalConsistent
  BY DEF Inv, ApprovalConsistent
<1>2. QED
  BY <1>1, Invariance, PTL

\* After any loss, switch of sessions or restart, a client with nothing under way
\* shows exactly what is pending in the session it views (server.ts:121-147;
\* useApp.ts:236-258).
THEOREM ClientsCatchUp == Spec => []CaughtUp
<1>1. ASSUME Inv, NEW k \in linked, down[k] = <<>>, up[k] = <<>>, viewing[k] # NoSession
      PROVE  cards[k] = SnapshotOf(viewing[k])
  <2>1. /\ k \in Clients /\ cards[k] \in SUBSET Calls
        /\ WillBeSubscribed(subscribed[k], <<>>, viewing[k])
    BY <1>1 DEF Inv, TypeOK, SubscriptionToCome
  <2>2. Len(<<>>) = 0 /\ ~\E i \in 1..0 : TRUE
    BY EmptySeq
  <2>3. subscribed[k] = viewing[k]
    BY <2>1, <2>2 DEF WillBeSubscribed
  <2>4. \A c \in Calls : WillShow(cards[k], <<>>, c) <=> c \in SnapshotOf(viewing[k])
    BY <1>1, <2>3 DEF Inv, CardsToCome
  <2>5. \A c : WillShow(cards[k], <<>>, c) <=> c \in cards[k]
    BY <2>2 DEF WillShow
  <2>6. QED
    BY <2>1, <2>4, <2>5 DEF SnapshotOf, Pending
<1>2. Inv => CaughtUp
  BY <1>1 DEF CaughtUp
<1>3. QED
  BY <1>2, Invariance, PTL
=============================================================================

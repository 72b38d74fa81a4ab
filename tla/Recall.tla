-------------------------------- MODULE Recall --------------------------------
(***************************************************************************)
(* What a prompt remembers (server/src/memory/recall.ts and retrieve() of  *)
(* packages/ltm/src): a search of the memory files, then one or two        *)
(* retrievals from the LTM, each of which embeds the query twice and reads *)
(* the store in between -- while observations are recorded and pruned, and *)
(* facts change.  What is returned is rehearsed: its count grows, and is   *)
(* logged when it is a power of two.                                       *)
(*                                                                         *)
(* A memory is an observation of a memory file, or a fact.  Scores are any *)
(* choice of the candidates.                                               *)
(***************************************************************************)
EXTENDS Naturals, FiniteSets

CONSTANTS
    Notes,       \* observation records
    NoteFile,    \* the memory file of each
    OldNotes,    \* those that an embedder of another dimension embedded
    Known,       \* facts
    Askers,
    MaxCalls, MaxChanges    \* bounds: recalls; notes and facts changed

Memories == Notes \cup Known

ASSUME RecallAssumption ==
    /\ Notes \cap Known = {} /\ OldNotes \subseteq Notes
    /\ MaxCalls \in Nat /\ MaxChanges \in Nat

VARIABLES
    mem,        \* the records in memory
    retriever,  \* the index in use: of which notes, and of what dimension
    attached,   \* the server has the LTM
    recording,  \* notes whose embedding recordObservation() awaits
    call,       \* what each asker waits for
    pruned,     \* history: notes redacted and not recorded since
    calls, changes

recallVars == <<mem, retriever, attached, recording, call, pruned, calls, changes>>

\* A fact is active, dormant (below the floor of the profile) or hidden.
Memory(state, dim) == [state |-> state, dim |-> dim, count |-> 0, logged |-> 0]
NoCall == [stage |-> "idle"]

\* majorityEmbeddingDim(); of two that are equal the order decides.
OfDim(m, dim) == {n \in Notes : m[n].state = "active" /\ m[n].dim = dim}
Majority(m) ==
    {d \in {"live", "old"} :
        \A e \in {"live", "old"} :
            Cardinality(OfDim(m, d)) >= Cardinality(OfDim(m, e))}

\* rebuildDerived(): the index is made anew from the records in memory.
Indexes(m) ==
    {[notes |-> {n \in Notes : m[n].state = "active"}, dim |-> d] : d \in Majority(m)}

RecallInit ==
    /\ mem = [m \in Memories |->
                 Memory("active", IF m \in OldNotes THEN "old" ELSE "live")]
    /\ retriever \in Indexes(mem) /\ retriever.dim = "live" /\ attached = TRUE
    /\ recording = {} /\ call = [c \in Askers |-> NoCall] /\ pruned = {}
    /\ calls = 0 /\ changes = 0

-----------------------------------------------------------------------------
(* recall() and retrieve().                                                *)

\* buildMemorySection(), or the tool: the memory files are searched.
AskMemory(c) ==
    /\ call[c] = NoCall /\ calls < MaxCalls
    /\ calls' = calls + 1
    /\ \E passes \in 1..2 :
          call' = [call EXCEPT ![c] = [stage |-> "search", passes |-> passes,
                                       covered |-> {}, hits |-> {}, dead |-> pruned]]
    /\ UNCHANGED <<mem, retriever, attached, recording, pruned, changes>>

\* A retrieval begins with the profile and the index of the moment.
Retrieving(one) ==
    [stage |-> "rank", passes |-> one.passes - 1, covered |-> one.covered,
     hits |-> one.hits, dead |-> one.dead, index |-> retriever,
     profile |-> {f \in Known : mem[f].state # "hidden"}]

Answered(one) ==
    [stage |-> "answered", covered |-> one.covered, hits |-> one.hits,
     dead |-> one.dead]

\* What comes after a retrieval that is over: the second one, or the answer.
AfterRetrieval(one) == IF one.passes > 0 THEN Retrieving(one) ELSE Answered(one)

FilesSearched(c) ==
    /\ call[c].stage = "search"
    /\ \E covered \in SUBSET {NoteFile[n] : n \in Notes} :
          LET one == [call[c] EXCEPT !.covered = covered]
          IN call' = [call EXCEPT ![c] = IF attached THEN Retrieving(one)
                                         ELSE Answered(one)]
    /\ UNCHANGED <<mem, retriever, attached, recording, pruned, calls, changes>>

\* rank() passes over what has no text any more.
Rankable(index) == {n \in index.notes : mem[n].state = "active"}

\* The query does not compare with vectors of another dimension: cosine throws.
Incomparable(index) == index.dim = "old" /\ \E n \in index.notes : mem[n].dim = "old"

\* rank(), promoteFacts() and the candidates of vectorPromoteFacts().
RankNotes(c) ==
    /\ call[c].stage = "rank"
    /\ IF Incomparable(call[c].index)
       THEN call' = [call EXCEPT ![c] = AfterRetrieval(@)]
       ELSE \E ranked \in SUBSET Rankable(call[c].index),
               slot \in SUBSET call[c].profile,
               alike \in SUBSET {f \in Known : mem[f].state # "hidden"} :
               call' = [call EXCEPT ![c] =
                  [stage |-> "promote", passes |-> @.passes, covered |-> @.covered,
                   hits |-> @.hits, dead |-> @.dead, ranked |-> ranked,
                   facts |-> slot \cup alike,
                   stale |-> {f \in slot : mem[f].state = "dormant"}]]
    /\ UNCHANGED <<mem, retriever, attached, recording, pruned, calls, changes>>

\* The embedder fails, and recall() goes on with nothing from the LTM.
EmbedFails(c) ==
    /\ call[c].stage \in {"rank", "promote"}
    /\ call' = [call EXCEPT ![c] = AfterRetrieval(@)]
    /\ UNCHANGED <<mem, retriever, attached, recording, pruned, calls, changes>>

\* (n & (n - 1)) === 0: of the numbers that divide n, only 1 is odd.
PowerOfTwo(n) == \A d \in 1..n : n % d = 0 => d = 1 \/ d % 2 = 0

Logged(rec) ==
    IF PowerOfTwo(rec.count) THEN [rec EXCEPT !.logged = rec.count] ELSE rec

\* A slip of Bumped: the record that was ranked is written back.
BumpedAsRanked(rec) == Logged([rec EXCEPT !.count = @ + 1, !.state = "active"])

\* bumpAccess() and recordRecall(): of the record as it is by now.
Bumped(rec) == Logged([rec EXCEPT !.count = @ + 1])

\* The second embedding is there.  What is returned is rehearsed, a fact if it
\* was dormant and is not hidden by now; then come the hits, without the notes
\* of files that the search covers.
Retrieved(c) ==
    /\ call[c].stage = "promote"
    /\ LET one == call[c]
           rehearsed == one.ranked \cup {f \in one.stale : mem[f].state # "hidden"}
           new == {n \in one.ranked : NoteFile[n] \notin one.covered}
       IN /\ mem' = [m \in Memories |-> IF m \in rehearsed THEN Bumped(mem[m])
                                        ELSE mem[m]]
          /\ call' = [call EXCEPT ![c] =
                         AfterRetrieval([one EXCEPT !.hits = @ \cup new \cup one.facts])]
    /\ UNCHANGED <<retriever, attached, recording, pruned, calls, changes>>

AnswerGiven(c) ==
    /\ call[c].stage = "answered"
    /\ call' = [call EXCEPT ![c] = NoCall]
    /\ UNCHANGED <<mem, retriever, attached, recording, pruned, calls, changes>>

-----------------------------------------------------------------------------
(* Meanwhile.                                                              *)

Change == changes < MaxChanges /\ changes' = changes + 1

\* recordObservation(): by the tool or the reconciler; the text is embedded.
RecordStart(n) ==
    /\ attached /\ n \notin recording /\ Change
    /\ recording' = recording \cup {n}
    /\ UNCHANGED <<mem, retriever, attached, call, pruned, calls>>

\* The record is stored, whatever became of it meanwhile, or the embedder failed.
RecordEnd(n) ==
    /\ n \in recording
    /\ recording' = recording \ {n}
    /\ \/ UNCHANGED <<mem, retriever, pruned, call>>
       \/ /\ mem' = [mem EXCEPT ![n] = Memory("active", "live")]
          /\ retriever' \in Indexes(mem')
          /\ pruned' = pruned \ {n}
          /\ call' = [c \in Askers |-> IF call[c] = NoCall THEN NoCall
                                       ELSE [call[c] EXCEPT !.dead = @ \ {n}]]
    /\ UNCHANGED <<attached, calls, changes>>

\* episodicRedactMany(): notes whose line is gone become tombstones, and the log
\* is written anew.
PruneNotes ==
    /\ attached /\ Change
    /\ \E gone \in SUBSET {n \in Notes : mem[n].state = "active"} :
          /\ gone # {}
          /\ mem' = [m \in Memories |->
                [mem[m] EXCEPT !.state = IF m \in gone THEN "redacted" ELSE @,
                               !.logged = IF m \in Notes THEN mem[m].count ELSE @]]
          /\ pruned' = pruned \cup gone
    /\ retriever' \in Indexes(mem')
    /\ UNCHANGED <<attached, recording, call, calls>>

\* A fact gives way to another, fades, or is stated again.
FactChanges(f) ==
    /\ Change
    /\ \E state \in {"active", "dormant", "hidden"} \ {mem[f].state} :
          mem' = [mem EXCEPT ![f].state = state]
    /\ UNCHANGED <<retriever, attached, recording, call, pruned, calls>>

\* The process dies and the server comes up with what was logged; with an index
\* of another dimension than its embedder's it goes without the LTM.
RecallRestart ==
    /\ Change
    /\ mem' = [m \in Memories |-> [mem[m] EXCEPT !.count = mem[m].logged]]
    /\ retriever' \in Indexes(mem')
    /\ attached' = (retriever'.dim = "live"
                      \/ \A n \in retriever'.notes : mem[n].dim = "live")
    /\ recording' = {} /\ call' = [c \in Askers |-> NoCall]
    /\ UNCHANGED <<pruned, calls>>

-----------------------------------------------------------------------------
RecallNext ==
    \/ \E c \in Askers : \/ AskMemory(c) \/ FilesSearched(c) \/ RankNotes(c)
                         \/ EmbedFails(c) \/ Retrieved(c) \/ AnswerGiven(c)
    \/ \E n \in Notes : RecordStart(n) \/ RecordEnd(n)
    \/ \E f \in Known : FactChanges(f)
    \/ PruneNotes \/ RecallRestart

RecallSpec == RecallInit /\ [][RecallNext]_recallVars

-----------------------------------------------------------------------------
(* Properties.                                                             *)

RecallTypeOK ==
    /\ \A m \in Memories :
          /\ mem[m].state \in IF m \in Notes THEN {"active", "redacted"}
                              ELSE {"active", "dormant", "hidden"}
          /\ mem[m].dim \in {"live", "old"}
          /\ mem[m].count \in Nat /\ mem[m].logged \in Nat
    /\ retriever.notes \subseteq Notes /\ retriever.dim \in {"live", "old"}
    /\ attached \in BOOLEAN /\ recording \subseteq Notes /\ pruned \subseteq Notes
    /\ \A c \in Askers : call[c] = NoCall \/ call[c].hits \subseteq Memories

\* What was redacted before a prompt asked is in no answer, though the retrieval
\* goes on with the index it began with (retrieval/retriever.ts:181-183); and no
\* rehearsal of what a retrieval had in hand brings a redacted note back
\* (episodic/store.ts:69-81).
ForgottenForGood ==
    /\ \A n \in pruned : mem[n].state = "redacted"
    /\ \A c \in Askers : call[c] # NoCall => call[c].hits \cap call[c].dead = {}

\* "halved-at-worst is fine": a crash loses less than half of a memory's count,
\* across compactions of the log, crashes and notes recorded anew
\* (episodic/store.ts:61-68, semantic/store.ts:249-255).
HalvedAtWorst ==
    \A m \in Memories : mem[m].count = 0 \/ mem[m].count < 2 * mem[m].logged

\* Retrieval changes what is remembered in one direction only: what was redacted
\* stays so, and a count of rehearsals survives a crash by more than half.
RecallSound == ForgottenForGood /\ HalvedAtWorst

\* Not so: "search() never compares across dimensions"
\* (embedding/vector-index.ts:35-36).  The dimension of the index is the one most
\* notes have at each rebuild: when notes are pruned it can become the old one
\* under a running server, and every retrieval throws until it is restarted.
NeverAcrossDimensions == \A c \in Askers :
    call[c] # NoCall /\ call[c].stage = "rank" => ~Incomparable(call[c].index)
===============================================================================

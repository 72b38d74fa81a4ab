---------------------------- MODULE StoresProofs ----------------------------
(***************************************************************************)
(* Proofs about what the program keeps and shows: the memory files, the    *)
(* composer, the offline shell, the skills, the models and credentials,    *)
(* and the size of a session's context, one section each, and then all of  *)
(* them with the records of a chat (whose proofs are in RecordsProofs).    *)
(***************************************************************************)
EXTENDS MCStores, RecordsProofs, SequenceTheorems, FiniteSetTheorems, WellFoundedInduction, TLAPS

-----------------------------------------------------------------------------
(* The memory files.                                                       *)

Operations ==
    [kind : {"append", "patch", "write", "move"}, path : Paths, line : Lines, old : Lines,
     from : Paths, base : SUBSET Lines, stage : {"queued", "read", "committing"}]

Waiting(o) == {c \in Calls : o[c] # NoOp /\ o[c].stage # "committing"}
Readers(o) == {c \in Calls : o[c] # NoOp /\ o[c].stage = "read"}

\* A line is written once, by one call; a move takes one that is there.
LinesAreNew ==
    \A c \in Waiting(op) :
        IF op[c].kind = "move" THEN op[c].path # op[c].from /\ op[c].line \in landed
        ELSE op[c].line \notin landed
             /\ \A d \in Waiting(op) \ {c} : op[d].line # op[c].line

\* The calls that wait for a path are those of its chain, and who has read is first.
ChainsHold ==
    /\ chain \in [Paths -> Seq(Calls)]
    /\ \A p \in Paths : \A i \in 1..Len(chain[p]) :
          chain[p][i] \in Waiting(op) /\ op[chain[p][i]].path = p
    /\ \A p \in Paths : \A i, j \in 1..Len(chain[p]) : chain[p][i] = chain[p][j] => i = j
    /\ \A c \in Waiting(op) :
          \E i \in 1..Len(chain[op[c].path]) : chain[op[c].path][i] = c
    /\ \A c \in Readers(op) : chain[op[c].path][1] = c

\* What a call has read is what its file has, but for what a template put there
\* or took; and no other file has it, unless the file was moved.
BasesHold ==
    \A c \in Readers(op) :
        /\ op[c].base \subseteq landed
        /\ content[op[c].path] \subseteq op[c].base \cup clobbered
        /\ ~raced => /\ \A p \in Paths \ {op[c].path} : op[c].base \cap content[p] = {}
                     /\ \A d \in Readers(op) \ {c} : op[c].base \cap op[d].base = {}

\* What is in no commit has been counted, or is what a commit under way will leave.
CommitsCounted ==
    /\ commit \in {"none", "flush", "flushing", "due", "committing"}
    /\ flushed \in BOOLEAN /\ behind \in BOOLEAN
    /\ pendingWrites \in Nat /\ unsaved \in Nat /\ taken \in Nat /\ fileOps \in 0..MaxFileOps
    /\ unsaved + Cardinality(Waiting(op)) <= fileOps
    /\ pendingWrites + Cardinality(Waiting(op)) <= fileOps
    /\ commit \in {"flushing", "committing"} => taken <= unsaved
    /\ commit = "flushing" => unsaved <= pendingWrites + taken
    /\ commit = "committing" => /\ CommitEvery <= pendingWrites
                                /\ unsaved + CommitEvery <= pendingWrites + taken
    /\ flushed /\ ~behind => unsaved <= pendingWrites
    /\ CommitsKeepUp

FilesTyped ==
    /\ content \in [Paths -> SUBSET landed] /\ landed \subseteq Lines
    /\ op \in [Calls -> {NoOp} \cup Operations]
    /\ missing \subseteq Paths /\ raced \in BOOLEAN

FilesInv ==
    /\ FilesTyped /\ LinesAreNew /\ ChainsHold /\ BasesHold /\ CommitsCounted
    /\ NoLostUpdate

\* The line that is taken next is in no file, and no other call has taken it.
LEMMA NewLineIsNew ==
    ASSUME FilesTyped, Unused # {}
    PROVE  /\ NewLine \in Lines \ landed
           /\ \A c \in Waiting(op) : op[c].line # NewLine
<1> DEFINE S == Unused
<1>1. S \in SUBSET Nat /\ S # {}
  BY FilesAssumption DEF Unused
<1> HIDE DEF S
<1>2. Min(S) \in S
  BY <1>1, MinProperties
<1>3. NewLine \in Unused
  BY <1>2 DEF NewLine, S
<1>4. QED
  BY <1>3 DEF Unused, Busy, Waiting

\* The calls that wait are finitely many.
LEMMA WaitingIsFinite ==
    ASSUME NEW o
    PROVE  IsFiniteSet(Waiting(o)) /\ Cardinality(Waiting(o)) \in Nat
<1>1. Waiting(o) \subseteq Calls
  BY DEF Waiting
<1>2. IsFiniteSet(Waiting(o))
  BY <1>1, FilesAssumption, FS_Subset
<1>3. QED
  BY <1>2, FS_CardinalityType

\* Before any call there is nothing.
LEMMA FilesInitInvariant == FilesInit => FilesInv
<1> SUFFICES ASSUME FilesInit PROVE FilesInv
  OBVIOUS
<1>1. Waiting(op) = {} /\ Readers(op) = {}
  BY DEF FilesInit, Waiting, Readers
<1>2. FilesTyped
  BY DEF FilesInit, FilesTyped
<1>3. LinesAreNew /\ BasesHold
  BY <1>1 DEF LinesAreNew, BasesHold
<1>4. ChainsHold
  <2>1. \A p \in Paths : chain[p] = <<>>
    BY DEF FilesInit
  <2>2. chain \in [Paths -> Seq(Calls)]
    BY DEF FilesInit
  <2>3. QED
    BY <1>1, <2>1, <2>2 DEF ChainsHold
<1>5. CommitsCounted
  <2>1. Cardinality(Waiting(op)) = 0
    BY <1>1, FS_EmptySet
  <2>2. MaxFileOps \in Nat /\ CommitEvery \in Nat \ {0}
    BY FilesAssumption
  <2>3. /\ pendingWrites = 0 /\ unsaved = 0 /\ taken = 0 /\ fileOps = 0
        /\ commit = "none" /\ flushed = FALSE /\ behind = FALSE
    BY DEF FilesInit
  <2>4. fileOps \in 0..MaxFileOps /\ 0 + 0 <= 0
    BY <2>2, <2>3
  <2>5. CommitsKeepUp
    BY <2>3 DEF CommitsKeepUp
  <2>6. QED
    BY <2>1, <2>2, <2>3, <2>4, <2>5 DEF CommitsCounted
<1>6. NoLostUpdate
  BY DEF FilesInit, NoLostUpdate
<1>7. QED
  BY <1>2, <1>3, <1>4, <1>5, <1>6 DEF FilesInv

\* A call asks for a file, and waits for those that have asked before.
LEMMA QueueKeeps ==
    ASSUME FilesInv, NEW c \in Calls, NEW p \in Paths, NEW r \in Operations,
           r.stage = "queued", r.path = p,
           IF r.kind = "move" THEN r.path # r.from /\ r.line \in landed
           ELSE r.line \notin landed /\ \A d \in Waiting(op) : op[d].line # r.line,
           Queue(c, p, r)
    PROVE  FilesInv'
<1> USE DEF FilesInv
<1>1. r # NoOp /\ r.kind \in {"append", "patch", "write", "move"}
  BY DEF Operations, NoOp
<1>2. op[c] = NoOp /\ op' = [op EXCEPT ![c] = r] /\ op' \in [Calls -> {NoOp} \cup Operations]
  BY DEF Queue, Busy, FilesTyped
<1>3. op'[c] = r /\ \A d \in Calls \ {c} : op'[d] = op[d]
  BY <1>2 DEF FilesTyped
<1>4. /\ c \notin Waiting(op) /\ Waiting(op') = Waiting(op) \cup {c}
      /\ c \notin Readers(op) /\ Readers(op') = Readers(op)
  BY <1>1, <1>2, <1>3 DEF Waiting, Readers
<1>5. /\ Waiting(op) \subseteq Calls /\ Readers(op) \subseteq Waiting(op)
  BY DEF Waiting, Readers
<1>6. FilesTyped'
  BY <1>2 DEF Queue, FilesTyped, fileHistory
<1>7. LinesAreNew'
  <2>1. landed' = landed
    BY DEF Queue, fileHistory
  <2>2. ASSUME NEW d \in Waiting(op)
        PROVE  IF op'[d].kind = "move"
               THEN op'[d].path # op'[d].from /\ op'[d].line \in landed'
               ELSE /\ op'[d].line \notin landed'
                    /\ \A e \in Waiting(op') \ {d} : op'[e].line # op'[d].line
    <3>1. op'[d] = op[d] /\ d # c
      BY <1>3, <1>4, <1>5
    <3>2. op[d].kind # "move" => r.line # op[d].line
      BY DEF LinesAreNew
    <3>3. op[d].kind # "move" =>
            \A e \in Waiting(op') \ {d} : op'[e].line # op'[d].line
      BY <1>3, <1>4, <1>5, <3>1, <3>2 DEF LinesAreNew
    <3>4. QED
      BY <2>1, <3>1, <3>3 DEF LinesAreNew
  <2>3. r.kind # "move" => \A e \in Waiting(op') \ {c} : op'[e].line # r.line
    BY <1>3, <1>4, <1>5
  <2>4. QED
    BY <1>3, <1>4, <2>1, <2>2, <2>3 DEF LinesAreNew
<1>8. ChainsHold'
  <2> DEFINE s == chain[p]
             t == Append(s, c)
  <2>1. s \in Seq(Calls) /\ \A i \in 1..Len(s) : s[i] \in Waiting(op) /\ s[i] # c
    BY <1>4 DEF ChainsHold
  <2>2. /\ t \in Seq(Calls) /\ Len(s) \in Nat /\ Len(t) = Len(s) + 1
        /\ \A i \in 1..Len(s) : t[i] = s[i]
        /\ t[Len(s) + 1] = c
    BY <2>1, AppendProperties
  <2>3. chain' = [chain EXCEPT ![p] = t]
    BY DEF Queue
  <2>4. chain'[p] = t /\ \A q \in Paths \ {p} : chain'[q] = chain[q]
    BY <2>3 DEF ChainsHold
  <2>5. chain' \in [Paths -> Seq(Calls)]
    BY <2>2, <2>3 DEF ChainsHold
  <2>6. \A i \in 1..Len(t) : i \in 1..Len(s) \/ i = Len(s) + 1
    BY <2>2
  <2> HIDE DEF t
  <2>7. \A q \in Paths : \A i \in 1..Len(chain'[q]) :
            chain'[q][i] \in Waiting(op') /\ op'[chain'[q][i]].path = q
    <3>1. ASSUME NEW i \in 1..Len(t) PROVE t[i] \in Waiting(op') /\ op'[t[i]].path = p
      <4>1. CASE i \in 1..Len(s)
        <5>1. s[i] \in Waiting(op) /\ s[i] # c /\ op[s[i]].path = p
          BY <2>1, <4>1 DEF ChainsHold
        <5>2. s[i] \in Calls /\ op'[s[i]] = op[s[i]]
          BY <1>3, <5>1 DEF Waiting
        <5>3. QED
          BY <1>4, <2>2, <4>1, <5>1, <5>2
      <4>2. CASE i = Len(s) + 1
        BY <1>3, <1>4, <2>2, <4>2
      <4>3. QED
        BY <2>6, <4>1, <4>2
    <3>2. ASSUME NEW q \in Paths \ {p}, NEW i \in 1..Len(chain[q])
          PROVE  chain[q][i] \in Waiting(op') /\ op'[chain[q][i]].path = q
      BY <1>3, <1>4, <1>5 DEF ChainsHold
    <3>3. QED
      BY <2>4, <3>1, <3>2
  <2>8. \A q \in Paths : \A i, j \in 1..Len(chain'[q]) : chain'[q][i] = chain'[q][j] => i = j
    <3>1. ASSUME NEW i \in 1..Len(t), NEW j \in 1..Len(t), t[i] = t[j] PROVE i = j
      BY <2>1, <2>2, <2>6, <3>1 DEF ChainsHold
    <3>2. QED
      BY <2>4, <3>1 DEF ChainsHold
  <2>9. \A d \in Waiting(op') :
            \E i \in 1..Len(chain'[op'[d].path]) : chain'[op'[d].path][i] = d
    <3>1. Len(s) + 1 \in 1..Len(t) /\ \A i \in 1..Len(s) : i \in 1..Len(t)
      BY <2>2
    <3>2. ASSUME NEW d \in Waiting(op)
          PROVE  \E i \in 1..Len(chain'[op[d].path]) : chain'[op[d].path][i] = d
      <4>1. op[d].path \in Paths
        BY DEF FilesTyped, Waiting, Operations
      <4>2. PICK i \in 1..Len(chain[op[d].path]) : chain[op[d].path][i] = d
        BY DEF ChainsHold
      <4>3. QED
        BY <2>2, <2>4, <3>1, <4>1, <4>2
    <3>3. QED
      BY <1>3, <1>4, <1>5, <2>2, <2>4, <3>1, <3>2
  <2>10. \A d \in Readers(op') : chain'[op'[d].path][1] = d
    <3>1. ASSUME NEW d \in Readers(op) PROVE chain'[op[d].path][1] = d
      <4>1. op[d].path \in Paths
        BY DEF FilesTyped, Readers, Operations
      <4>2. PICK i \in 1..Len(chain[op[d].path]) : chain[op[d].path][i] = d
        BY <1>5 DEF ChainsHold
      <4>3. chain[op[d].path][1] = d /\ 1 \in 1..Len(chain[op[d].path])
        BY <4>1, <4>2 DEF ChainsHold
      <4>4. QED
        BY <2>2, <2>4, <4>1, <4>3
    <3>2. QED
      BY <1>3, <1>4, <1>5, <3>1
  <2>11. QED
    BY <2>5, <2>7, <2>8, <2>9, <2>10 DEF ChainsHold
<1>9. BasesHold'
  BY <1>3, <1>4, <1>5 DEF BasesHold, Queue, fileHistory
<1>10. CommitsCounted'
  <2>1. Cardinality(Waiting(op')) = Cardinality(Waiting(op)) + 1
    BY <1>4, WaitingIsFinite, FS_AddElement
  <2>2. Cardinality(Waiting(op)) \in Nat /\ MaxFileOps \in Nat
    BY WaitingIsFinite, FilesAssumption
  <2>3. fileOps' = fileOps + 1 /\ fileOps < MaxFileOps /\ UNCHANGED gitVars
    BY DEF Queue
  <2>4. QED
    BY <2>1, <2>2, <2>3 DEF CommitsCounted, CommitsKeepUp, gitVars
<1>11. NoLostUpdate'
  BY DEF NoLostUpdate, Queue, fileHistory
<1>12. QED
  BY <1>6, <1>7, <1>8, <1>9, <1>10, <1>11

\* An append, a patch, a whole file or a move is asked for.
LEMMA StartKeeps ==
    ASSUME FilesInv, NEW c \in Calls,
           StartAppend(c) \/ StartPatch(c) \/ StartWrite(c) \/ StartMove(c)
    PROVE  FilesInv'
<1> USE DEF FilesInv
<1>1. ASSUME NEW kind \in {"append", "patch", "write"}, NEW p \in Paths, NEW old \in Lines,
             Unused # {}, Queue(c, p, Request(kind, p, NewLine, old, p))
      PROVE  FilesInv'
  <2> DEFINE r == Request(kind, p, NewLine, old, p)
  <2>1. NewLine \in Lines \ landed /\ \A d \in Waiting(op) : op[d].line # NewLine
    BY <1>1, NewLineIsNew
  <2>2. /\ r \in Operations /\ r.stage = "queued" /\ r.path = p /\ r.kind # "move"
        /\ r.line = NewLine
    BY <2>1 DEF Request, Operations
  <2>3. Queue(c, p, r)
    BY <1>1
  <2> HIDE DEF r, FilesInv
  <2>4. QED
    BY <2>1, <2>2, <2>3, QueueKeeps
<1>2. WriteListed \subseteq Paths /\ landed \subseteq Lines /\ Lines \subseteq Nat
  BY FilesAssumption DEF FilesTyped
<1>3. CASE StartAppend(c)
  <2>1. PICK p \in Paths : Unused # {} /\ Queue(c, p, Request("append", p, NewLine, NewLine, p))
    BY <1>3 DEF StartAppend
  <2>2. NewLine \in Lines
    BY <2>1, NewLineIsNew
  <2> HIDE DEF FilesInv
  <2>3. QED
    BY <1>1, <2>1, <2>2
<1>4. CASE StartPatch(c)
  <2>1. PICK p \in Paths, old \in landed :
            Unused # {} /\ Queue(c, p, Request("patch", p, NewLine, old, p))
    BY <1>4 DEF StartPatch
  <2> HIDE DEF FilesInv
  <2>2. QED
    BY <1>1, <1>2, <2>1
<1>5. CASE StartWrite(c)
  <2>1. PICK p \in WriteListed :
            Unused # {} /\ Queue(c, p, Request("write", p, NewLine, NewLine, p))
    BY <1>5 DEF StartWrite
  <2>2. NewLine \in Lines
    BY <2>1, NewLineIsNew
  <2> HIDE DEF FilesInv
  <2>3. QED
    BY <1>1, <1>2, <2>1, <2>2
<1>6. CASE StartMove(c)
  <2>1. PICK p \in WriteListed, from \in Paths :
            /\ p # from /\ content[from] # {}
            /\ Queue(c, p, Request("move", p, Min(content[from]), Min(content[from]), from))
    BY <1>6 DEF StartMove
  <2> DEFINE S == content[from]
             r == Request("move", p, Min(S), Min(S), from)
  <2>2. S \in SUBSET landed /\ S \in SUBSET Nat /\ S # {}
    BY <1>2, <2>1 DEF FilesTyped
  <2>3. Queue(c, p, r)
    BY <2>1
  <2> HIDE DEF S
  <2>4. Min(S) \in landed
    BY <2>2, MinProperties
  <2> DEFINE l == Min(S)
  <2>5. /\ r \in Operations /\ r.stage = "queued" /\ r.path = p /\ r.kind = "move"
        /\ r.line = Min(S) /\ r.from = from
    <3>1. l \in Lines /\ r = Request("move", p, l, l, from) /\ p \in Paths
      BY <1>2, <2>4
    <3> HIDE DEF l
    <3>2. QED
      BY <3>1 DEF Request, Operations
  <2> HIDE DEF r, FilesInv
  <2>6. QED
    BY <1>2, <2>1, <2>3, <2>4, <2>5, QueueKeeps
<1>7. QED
  BY <1>3, <1>4, <1>5, <1>6

\* What a call that waits asked for.
LEMMA WaitingOps ==
    ASSUME FilesTyped, NEW c \in Waiting(op)
    PROVE  /\ c \in Calls /\ op[c] \in Operations /\ op[c].path \in Paths /\ op[c].from \in Paths
           /\ op[c].line \in Lines /\ op[c].base \subseteq Lines /\ op[c] # NoOp
  BY DEF FilesTyped, Waiting, Operations

\* A call reads when it is its turn.
LEMMA ReadsKeeps ==
    ASSUME FilesInv, NEW c \in Calls, Reads(c)
    PROVE  FilesInv'
<1> USE DEF FilesInv
<1> DEFINE p == op[c].path
           r == [op[c] EXCEPT !.stage = "read", !.base = content[p]]
<1>1. c \in Waiting(op) /\ op[c].stage = "queued" /\ c \notin Readers(op)
  BY DEF Reads, Holds, Busy, Waiting, Readers
<1>2. p \in Paths /\ op[c] \in Operations
  BY <1>1, WaitingOps
<1>3. content[p] \subseteq landed /\ content[p] \subseteq Lines
  BY <1>2 DEF FilesTyped
<1>4. /\ r \in Operations /\ r.path = p /\ r.line = op[c].line /\ r.kind = op[c].kind
      /\ r.from = op[c].from /\ r.stage = "read" /\ r.base = content[p]
  BY <1>2, <1>3 DEF Operations
<1>5. op' = [op EXCEPT ![c] = r]
  BY DEF Reads, FilesTyped
<1>6. UNCHANGED <<content, chain, missing, gitVars, fileHistory, fileOps, mishaps>>
  BY DEF Reads
<1>7. r # NoOp
  BY <1>4 DEF Operations, NoOp
<1>8. Head(chain[p]) = c
  BY DEF Reads, Holds
<1> HIDE DEF r, p
<1>9. op'[c] = r /\ \A d \in Calls \ {c} : op'[d] = op[d]
  BY <1>5 DEF FilesTyped
<1>10. /\ Waiting(op') = Waiting(op) /\ Readers(op') = Readers(op) \cup {c}
       /\ Waiting(op) \subseteq Calls /\ Readers(op) \subseteq Waiting(op)
  BY <1>1, <1>4, <1>7, <1>9 DEF Waiting, Readers
<1>11. \A d \in Waiting(op) : op'[d].path = op[d].path /\ op'[d].line = op[d].line
                              /\ op'[d].kind = op[d].kind /\ op'[d].from = op[d].from
  BY <1>4, <1>9, <1>10 DEF p
<1>12. FilesTyped'
  BY <1>4, <1>5, <1>6 DEF FilesTyped, fileHistory
<1>13. LinesAreNew'
  BY <1>6, <1>10, <1>11 DEF LinesAreNew, fileHistory
<1>14. ChainsHold'
  <2>1. chain' = chain
    BY <1>6
  <2>2. chain[p][1] = c
    BY <1>2, <1>8 DEF ChainsHold
  <2>3. \A d \in Readers(op') : chain[op'[d].path][1] = d
    BY <1>1, <1>10, <1>11, <2>2 DEF ChainsHold, p
  <2>4. \A q \in Paths : \A i \in 1..Len(chain[q]) :
            chain[q][i] \in Waiting(op') /\ op'[chain[q][i]].path = q
    BY <1>10, <1>11 DEF ChainsHold
  <2>5. \A d \in Waiting(op') :
            \E i \in 1..Len(chain[op'[d].path]) : chain[op'[d].path][i] = d
    BY <1>10, <1>11 DEF ChainsHold
  <2>6. QED
    BY <2>1, <2>3, <2>4, <2>5 DEF ChainsHold
<1>15. BasesHold'
  <2>1. UNCHANGED <<content, landed, clobbered, raced>>
    BY <1>6 DEF fileHistory
  <2>2. \A d \in Readers(op) : op[d].path \in Paths \ {p} /\ op'[d] = op[d]
    <3>1. \A d \in Readers(op) : d # c /\ chain[op[d].path][1] = d
      BY <1>1 DEF ChainsHold
    <3>2. chain[p][1] = c
      BY <1>2, <1>8 DEF ChainsHold
    <3>3. \A d \in Readers(op) : op[d].path \in Paths
      BY <1>10, WaitingOps
    <3>4. QED
      BY <1>9, <1>10, <3>1, <3>2, <3>3
  <2>3. r.base = content[p] /\ r.path = p
    BY <1>4
  <2>4. ~raced => \A q \in Paths \ {p} : content[p] \cap content[q] = {}
    BY <1>2 DEF NoLostUpdate
  <2>5. ~raced => \A d \in Readers(op) : op[d].base \cap content[p] = {}
    BY <1>2, <2>2 DEF BasesHold
  <2>6. /\ r.base \subseteq landed
        /\ content[r.path] \subseteq r.base \cup clobbered
        /\ ~raced => /\ \A q \in Paths \ {r.path} : r.base \cap content[q] = {}
                     /\ \A d \in Readers(op) : r.base \cap op[d].base = {}
    BY <1>3, <2>3, <2>4, <2>5
  <2>7. QED
    BY <1>9, <1>10, <2>1, <2>2, <2>3, <2>5, <2>6 DEF BasesHold
<1>16. CommitsCounted'
  BY <1>6, <1>10 DEF CommitsCounted, CommitsKeepUp, gitVars
<1>17. NoLostUpdate'
  BY <1>6 DEF NoLostUpdate, fileHistory
<1>18. QED
  BY <1>12, <1>13, <1>14, <1>15, <1>16, <1>17

\* A call that has read leaves its chain, and the next one is first.
LEMMA LeavesChain ==
    ASSUME FilesInv, NEW c \in Readers(op), NEW x \in {NoOp} \cup Operations,
           x # NoOp => x.stage = "committing",
           op' = [op EXCEPT ![c] = x], chain' = Released(c)
    PROVE  /\ ChainsHold' /\ op' \in [Calls -> {NoOp} \cup Operations]
           /\ c \in Waiting(op) /\ op[c].path \in Paths
           /\ Waiting(op') = Waiting(op) \ {c} /\ Readers(op') = Readers(op) \ {c}
           /\ Readers(op) \subseteq Waiting(op)
           /\ \A d \in Waiting(op') : op'[d] = op[d]
           /\ \A d \in Readers(op) \ {c} : op[d].path \in Paths \ {op[c].path}
<1> USE DEF FilesInv
<1>1. Readers(op) \subseteq Waiting(op) /\ Waiting(op) \subseteq Calls
  BY DEF Readers, Waiting
<1>2. op'[c] = x /\ \A d \in Calls \ {c} : op'[d] = op[d]
  BY <1>1 DEF FilesTyped
<1>3. Waiting(op') = Waiting(op) \ {c} /\ Readers(op') = Readers(op) \ {c}
  BY <1>1, <1>2 DEF Readers, Waiting
<1>4. \A d \in Waiting(op) : op[d].path \in Paths
  BY WaitingOps
<1>5. \A d \in Waiting(op') : op'[d] = op[d]
  BY <1>1, <1>2, <1>3
<1>6. \A d \in Readers(op) \ {c} : op[d].path \in Paths \ {op[c].path}
  BY <1>1, <1>4 DEF ChainsHold
<1>7. op' \in [Calls -> {NoOp} \cup Operations]
  BY DEF FilesTyped
<1> DEFINE p == op[c].path
           s == chain[p]
           t == Tail(s)
<1>8. p \in Paths /\ s \in Seq(Calls) /\ s # <<>> /\ s[1] = c
  <2>1. p \in Paths /\ s \in Seq(Calls) /\ s[1] = c
    BY <1>1, <1>4 DEF ChainsHold
  <2>2. \E i \in 1..Len(s) : s[i] = c
    BY <1>1 DEF ChainsHold
  <2>3. QED
    BY <2>1, <2>2
<1>9. /\ t \in Seq(Calls) /\ Len(s) \in Nat /\ Len(t) = Len(s) - 1
      /\ \A i \in 1..Len(t) : t[i] = s[i + 1]
  BY <1>8, HeadTailProperties
<1>10. chain' = [chain EXCEPT ![p] = t]
  BY DEF Released
<1> HIDE DEF t
<1>11. chain'[p] = t /\ \A q \in Paths \ {p} : chain'[q] = chain[q]
  BY <1>8, <1>10 DEF ChainsHold
<1>12. chain' \in [Paths -> Seq(Calls)]
  <2>1. chain \in [Paths -> Seq(Calls)] /\ t \in Seq(Calls)
    BY <1>9 DEF ChainsHold
  <2> HIDE DEF s, p
  <2>2. QED
    BY <1>10, <2>1
<1>13. \A i \in 1..Len(t) : i + 1 \in 1..Len(s) /\ i + 1 # 1 /\ 1 \in 1..Len(s)
  BY <1>9
<1>14. \A i, j \in 1..Len(s) : s[i] = s[j] => i = j
  BY <1>8 DEF ChainsHold
<1>15. \A i \in 1..Len(t) : t[i] \in Waiting(op') /\ op'[t[i]].path = p
  <2>1. ASSUME NEW i \in 1..Len(t) PROVE t[i] \in Waiting(op') /\ op'[t[i]].path = p
    <3>1. t[i] = s[i + 1] /\ s[i + 1] # c
      BY <1>8, <1>9, <1>13, <1>14
    <3>2. s[i + 1] \in Waiting(op) /\ op[s[i + 1]].path = p
      BY <1>8, <1>13 DEF ChainsHold
    <3>3. QED
      BY <1>3, <1>5, <3>1, <3>2
  <2>2. QED
    BY <2>1
<1>16. \A q \in Paths : \A i \in 1..Len(chain'[q]) :
          chain'[q][i] \in Waiting(op') /\ op'[chain'[q][i]].path = q
  <2>1. ASSUME NEW q \in Paths \ {p}, NEW i \in 1..Len(chain[q])
        PROVE  chain[q][i] \in Waiting(op') /\ op'[chain[q][i]].path = q
    <3>1. chain[q][i] \in Waiting(op) /\ op[chain[q][i]].path = q
      BY DEF ChainsHold
    <3>2. QED
      BY <1>3, <1>5, <3>1
  <2>2. ASSUME NEW q \in Paths, NEW i \in 1..Len(chain'[q])
        PROVE  chain'[q][i] \in Waiting(op') /\ op'[chain'[q][i]].path = q
    <3>1. CASE q = p
      BY <1>11, <1>15, <3>1
    <3>2. CASE q # p
      BY <1>11, <2>1, <3>2
    <3>3. QED
      BY <3>1, <3>2
  <2>3. QED
    BY <2>2
<1>17. \A q \in Paths : \A i, j \in 1..Len(chain'[q]) : chain'[q][i] = chain'[q][j] => i = j
  <2>1. ASSUME NEW i \in 1..Len(t), NEW j \in 1..Len(t), t[i] = t[j] PROVE i = j
    BY <1>9, <1>13, <1>14, <2>1
  <2>2. QED
    BY <1>11, <2>1 DEF ChainsHold
<1>18. \A d \in Waiting(op') :
          \E i \in 1..Len(chain'[op'[d].path]) : chain'[op'[d].path][i] = d
  <2>1. SUFFICES ASSUME NEW d \in Waiting(op')
                 PROVE  \E i \in 1..Len(chain'[op'[d].path]) : chain'[op'[d].path][i] = d
    OBVIOUS
  <2>9. op'[d] = op[d]
    BY <1>5
  <2>2. d \in Waiting(op) /\ d # c /\ op[d].path \in Paths
    BY <1>3, <1>4
  <2>3. PICK i \in 1..Len(chain[op[d].path]) : chain[op[d].path][i] = d
    BY <2>2 DEF ChainsHold
  <2>4. CASE op[d].path = p
    <3>1. i # 1 /\ i \in 1..Len(s) /\ s[i] = d
      BY <1>8, <2>2, <2>3, <2>4
    <3>2. i - 1 \in 1..Len(t) /\ (i - 1) + 1 = i
      BY <1>9, <3>1
    <3>3. t[i - 1] = d
      BY <1>9, <3>1, <3>2
    <3>4. QED
      BY <1>11, <2>9, <2>4, <3>2, <3>3
  <2>5. CASE op[d].path # p
    BY <1>11, <2>9, <2>2, <2>3, <2>5
  <2>6. QED
    BY <2>4, <2>5
<1>19. \A d \in Readers(op') : chain'[op'[d].path][1] = d
  <2>1. SUFFICES ASSUME NEW d \in Readers(op') PROVE chain'[op'[d].path][1] = d
    OBVIOUS
  <2>2. d \in Readers(op) \ {c} /\ d \in Waiting(op') /\ op'[d] = op[d]
    BY <1>1, <1>3, <1>5
  <2>3. op[d].path \in Paths \ {p} /\ chain[op[d].path][1] = d
    BY <1>6, <2>2 DEF ChainsHold
  <2>4. QED
    BY <1>11, <2>2, <2>3
<1>20. ChainsHold'
  BY <1>12, <1>16, <1>17, <1>18, <1>19 DEF ChainsHold
<1>21. QED
  BY <1>1, <1>3, <1>4, <1>5, <1>6, <1>7, <1>20

\* One call fewer waits.
LEMMA OneLess ==
    ASSUME NEW c \in Waiting(op), Waiting(op') = Waiting(op) \ {c}
    PROVE  /\ Cardinality(Waiting(op')) \in Nat
           /\ Cardinality(Waiting(op)) = Cardinality(Waiting(op')) + 1
<1>1. IsFiniteSet(Waiting(op)) /\ Cardinality(Waiting(op)) \in Nat
  BY WaitingIsFinite
<1>2. Cardinality(Waiting(op')) = Cardinality(Waiting(op)) - 1
  BY <1>1, FS_RemoveElement
<1>3. Cardinality(Waiting(op')) \in Nat
  BY WaitingIsFinite
<1>4. QED
  BY <1>1, <1>2, <1>3

\* A call is refused: nothing is written, and nothing counted.
LEMMA ThrowsKeeps ==
    ASSUME FilesInv, NEW c \in Calls, Throws(c)
    PROVE  FilesInv'
<1> USE DEF FilesInv
<1>1. c \in Readers(op)
  BY DEF Throws, Busy, Readers
<1>2. /\ op' = [op EXCEPT ![c] = NoOp] /\ chain' = Released(c)
      /\ UNCHANGED <<content, missing, gitVars, fileHistory, fileOps, mishaps>>
  BY DEF Throws
<1>3. /\ ChainsHold' /\ op' \in [Calls -> {NoOp} \cup Operations]
      /\ c \in Waiting(op)
      /\ Waiting(op') = Waiting(op) \ {c} /\ Readers(op') = Readers(op) \ {c}
      /\ Readers(op) \subseteq Waiting(op)
      /\ \A d \in Waiting(op') : op'[d] = op[d]
  BY <1>1, <1>2, LeavesChain
<1>4. FilesTyped' /\ NoLostUpdate'
  BY <1>2, <1>3 DEF FilesTyped, NoLostUpdate, fileHistory
<1>5. LinesAreNew'
  <2>1. SUFFICES ASSUME NEW d \in Waiting(op')
                 PROVE  IF op'[d].kind = "move"
                        THEN op'[d].path # op'[d].from /\ op'[d].line \in landed'
                        ELSE /\ op'[d].line \notin landed'
                             /\ \A e \in Waiting(op') \ {d} : op'[e].line # op'[d].line
    BY DEF LinesAreNew
  <2>2. op'[d] = op[d] /\ d \in Waiting(op) /\ landed' = landed
    BY <1>2, <1>3 DEF fileHistory
  <2>3. \A e \in Waiting(op') \ {d} : op'[e] = op[e] /\ e \in Waiting(op) \ {d}
    BY <1>3
  <2>4. QED
    BY <2>2, <2>3 DEF LinesAreNew
<1>6. BasesHold'
  <2>1. \A d \in Readers(op') : op'[d] = op[d] /\ d \in Readers(op)
    BY <1>3
  <2>2. UNCHANGED <<content, landed, clobbered, raced>>
    BY <1>2 DEF fileHistory
  <2>3. QED
    BY <2>1, <2>2 DEF BasesHold
<1>7. CommitsCounted'
  <2>1. /\ Cardinality(Waiting(op')) \in Nat
        /\ Cardinality(Waiting(op)) = Cardinality(Waiting(op')) + 1
    BY <1>3, OneLess
  <2>2. UNCHANGED <<pendingWrites, commit, flushed, taken, unsaved, behind, fileOps>>
    BY <1>2 DEF gitVars
  <2>3. QED
    BY <2>1, <2>2 DEF CommitsCounted, CommitsKeepUp
<1>8. QED
  BY <1>3, <1>4, <1>5, <1>6, <1>7

\* What the files are after a change: only the file of the change has more than
\* before, and what it has lost was to be replaced, or a template's.
LEMMA AfterShape ==
    ASSUME FilesInv, NEW c \in Readers(op), ~Refused(c), content' = After(c)
    PROVE  LET o == op[c]   p == op[c].path
           IN  /\ p \in Paths /\ o.line \in Lines
               /\ content' \in [Paths -> SUBSET (landed \cup {o.line})]
               /\ \A q \in Paths \ {p} :
                     \/ content'[q] = content[q]
                     \/ o.kind = "move" /\ q = o.from /\ content'[q] = {}
               /\ content[p] \ content'[p] \subseteq clobbered \cup Replaced(c)
               /\ o.kind # "move" => /\ content'[p] \subseteq o.base \cup {o.line}
                                     /\ o.line \in content'[p]
               /\ o.kind = "move" => /\ o.from \in Paths \ {p} /\ o.line \in landed
                                     /\ content'[p] = content[o.from]
                                     /\ content'[o.from] = {}
<1> USE DEF FilesInv
<1> DEFINE o == op[c]
           p == op[c].path
<1>1. c \in Waiting(op)
  BY DEF Readers, Waiting
<1>2. /\ p \in Paths /\ o.from \in Paths /\ o.line \in Lines
      /\ o.kind \in {"append", "patch", "write", "move"}
  BY <1>1, WaitingOps DEF Operations
<1>3. /\ o.base \subseteq landed /\ content[p] \subseteq o.base \cup clobbered
      /\ content \in [Paths -> SUBSET landed]
  BY DEF BasesHold, FilesTyped
<1>4. ASSUME NEW L \in SUBSET (landed \cup {o.line}), content' = [content EXCEPT ![p] = L]
      PROVE  /\ content' \in [Paths -> SUBSET (landed \cup {o.line})]
             /\ content'[p] = L /\ \A q \in Paths \ {p} : content'[q] = content[q]
  BY <1>2, <1>3, <1>4
<1> HIDE DEF p
<1>5. CASE o.kind = "append"
  <2>1. content' = [content EXCEPT ![p] = o.base \cup {o.line}]
    BY <1>5 DEF After, p
  <2>2. o.base \cup {o.line} \in SUBSET (landed \cup {o.line})
    BY <1>3
  <2>3. QED
    BY <1>2, <1>3, <1>4, <1>5, <2>1, <2>2 DEF p
<1>6. CASE o.kind = "patch"
  <2>1. content' = [content EXCEPT ![p] = (o.base \ {o.old}) \cup {o.line}]
    BY <1>6 DEF After, p
  <2>2. (o.base \ {o.old}) \cup {o.line} \in SUBSET (landed \cup {o.line})
    BY <1>3
  <2>3. Replaced(c) = {o.old}
    BY <1>6 DEF Replaced
  <2>4. QED
    BY <1>2, <1>3, <1>4, <1>6, <2>1, <2>2, <2>3 DEF p
<1>7. CASE o.kind = "write"
  <2>1. content' = [content EXCEPT ![p] = {o.line}]
    BY <1>7 DEF After, p
  <2>2. Replaced(c) = content[p]
    BY <1>7 DEF Replaced, p
  <2>3. QED
    BY <1>2, <1>3, <1>4, <1>7, <2>1, <2>2 DEF p
<1>8. CASE o.kind = "move"
  <2>1. content' = [content EXCEPT ![p] = content[o.from], ![o.from] = {}]
    BY <1>8 DEF After, p
  <2>2. p # o.from /\ o.line \in landed
    BY <1>1, <1>8 DEF LinesAreNew, p
  <2>3. o.base = {}
    BY <1>8 DEF Refused
  <2>4. /\ content' \in [Paths -> SUBSET (landed \cup {o.line})]
        /\ content'[p] = content[o.from] /\ content'[o.from] = {}
        /\ \A q \in Paths \ {p, o.from} : content'[q] = content[q]
    BY <1>2, <1>3, <2>1, <2>2
  <2>5. QED
    BY <1>2, <1>3, <1>8, <2>2, <2>3, <2>4 DEF p
<1>9. QED
  BY <1>2, <1>5, <1>6, <1>7, <1>8

\* A write is counted, by the call that stays for the commit or by one that does not.
LEMMA CountedKeeps ==
    ASSUME FilesInv, NEW c \in Waiting(op), Counted(c), Waiting(op') = Waiting(op) \ {c},
           UNCHANGED <<flushed, taken, behind, fileOps>>
    PROVE  CommitsCounted'
<1> USE DEF FilesInv
<1>1. /\ Cardinality(Waiting(op')) \in Nat
      /\ Cardinality(Waiting(op)) = Cardinality(Waiting(op')) + 1
  BY OneLess
<1>2. pendingWrites' = pendingWrites + 1 /\ unsaved' = unsaved + 1
  BY DEF Counted
<1>3. \/ commit = "none" /\ commit' \in {"due", "flush"}
      \/ commit # "none" /\ commit' = commit
  BY DEF Counted
<1>4. CommitEvery \in Nat \ {0} /\ MaxFileOps \in Nat
  BY FilesAssumption
<1>5. CommitsKeepUp'
  BY <1>3 DEF CommitsKeepUp, CommitsCounted
<1>6. /\ pendingWrites' \in Nat /\ unsaved' \in Nat /\ taken' \in Nat
      /\ unsaved' + Cardinality(Waiting(op')) <= fileOps'
      /\ pendingWrites' + Cardinality(Waiting(op')) <= fileOps'
      /\ flushed' /\ ~behind' => unsaved' <= pendingWrites'
  BY <1>1, <1>2 DEF CommitsCounted
<1>7. /\ commit' \in {"flushing", "committing"} => taken' <= unsaved'
      /\ commit' = "flushing" => unsaved' <= pendingWrites' + taken'
      /\ commit' = "committing" => /\ CommitEvery <= pendingWrites'
                                   /\ unsaved' + CommitEvery <= pendingWrites' + taken'
  BY <1>2, <1>3, <1>4 DEF CommitsCounted
<1>8. QED
  BY <1>3, <1>5, <1>6, <1>7 DEF CommitsCounted

\* The file is written.
LEMMA WritesKeeps ==
    ASSUME FilesInv, NEW c \in Calls, Writes(c)
    PROVE  FilesInv'
<1> USE DEF FilesInv
<1> DEFINE o == op[c]
           p == op[c].path
<1>1. c \in Readers(op) /\ ~Refused(c) /\ content' = After(c) /\ chain' = Released(c)
  BY DEF Writes, Busy, Readers
<1>2. /\ landed' = landed \cup {o.line} /\ dropped' = dropped \cup Replaced(c)
      /\ raced' = (raced \/ MovedAway(c))
      /\ UNCHANGED <<missing, clobbered, flushed, taken, behind, fileOps, mishaps>>
      /\ Counted(c)
  BY DEF Writes
<1>3. PICK x \in {NoOp} \cup Operations :
          (x # NoOp => x.stage = "committing") /\ op' = [op EXCEPT ![c] = x]
  <2>1. op[c] \in Operations
    BY <1>1, WaitingOps DEF Readers, Waiting
  <2>2. [op[c] EXCEPT !.stage = "committing"] \in Operations
        /\ [op[c] EXCEPT !.stage = "committing"].stage = "committing"
    BY <2>1 DEF Operations
  <2>3. \/ op' = [op EXCEPT ![c] = [op[c] EXCEPT !.stage = "committing"]]
        \/ op' = [op EXCEPT ![c] = NoOp]
    BY <1>2 DEF Counted, FilesTyped
  <2>4. QED
    BY <2>2, <2>3
<1>4. /\ ChainsHold' /\ op' \in [Calls -> {NoOp} \cup Operations]
      /\ c \in Waiting(op) /\ p \in Paths
      /\ Waiting(op') = Waiting(op) \ {c} /\ Readers(op') = Readers(op) \ {c}
      /\ Readers(op) \subseteq Waiting(op)
      /\ \A d \in Waiting(op') : op'[d] = op[d]
      /\ \A d \in Readers(op) \ {c} : op[d].path \in Paths \ {p}
  BY <1>1, <1>3, LeavesChain
<1>5. /\ o.line \in Lines
      /\ content' \in [Paths -> SUBSET (landed \cup {o.line})]
      /\ \A q \in Paths \ {p} :
            \/ content'[q] = content[q]
            \/ o.kind = "move" /\ q = o.from /\ content'[q] = {}
      /\ content[p] \ content'[p] \subseteq clobbered \cup Replaced(c)
      /\ o.kind # "move" => /\ content'[p] \subseteq o.base \cup {o.line}
                            /\ o.line \in content'[p]
      /\ o.kind = "move" => /\ o.from \in Paths \ {p} /\ o.line \in landed
                            /\ content'[p] = content[o.from]
                            /\ content'[o.from] = {}
  BY <1>1, AfterShape
<1>6. o.kind # "move" => o.line \notin landed
                         /\ \A d \in Waiting(op) \ {c} : op[d].line # o.line
  BY <1>4 DEF LinesAreNew
<1>7. content \in [Paths -> SUBSET landed]
  BY DEF FilesTyped
<1>8. /\ o.base \subseteq landed
      /\ ~raced => /\ \A q \in Paths \ {p} : o.base \cap content[q] = {}
                   /\ \A d \in Readers(op) \ {c} : o.base \cap op[d].base = {}
  BY <1>1 DEF BasesHold
<1>9. o.kind = "move" => landed' = landed
  BY <1>2, <1>5
<1>10. FilesTyped'
  <2>1. content' \in [Paths -> SUBSET landed'] /\ landed' \subseteq Lines
    BY <1>2, <1>5 DEF FilesTyped
  <2>2. missing' \subseteq Paths
    BY <1>2 DEF FilesTyped
  <2>3. raced' \in BOOLEAN
    BY <1>2 DEF FilesTyped, MovedAway
  <2>4. QED
    BY <1>4, <2>1, <2>2, <2>3 DEF FilesTyped
<1>11. LinesAreNew'
  <2>1. SUFFICES ASSUME NEW d \in Waiting(op')
                 PROVE  IF op'[d].kind = "move"
                        THEN op'[d].path # op'[d].from /\ op'[d].line \in landed'
                        ELSE /\ op'[d].line \notin landed'
                             /\ \A e \in Waiting(op') \ {d} : op'[e].line # op'[d].line
    BY DEF LinesAreNew
  <2>2. op'[d] = op[d] /\ d \in Waiting(op) \ {c}
    BY <1>4
  <2>3. \A e \in Waiting(op') \ {d} : op'[e] = op[e] /\ e \in Waiting(op) \ {d}
    BY <1>4
  <2>4. op[d].kind # "move" => op[d].line # o.line /\ op[d].line \notin landed
    BY <1>4, <2>2 DEF LinesAreNew
  <2>5. QED
    BY <1>2, <2>2, <2>3, <2>4 DEF LinesAreNew
<1>12. BasesHold'
  <2>1. SUFFICES ASSUME NEW d \in Readers(op')
                 PROVE  LET b == op'[d].base
                        IN  /\ b \subseteq landed'
                            /\ content'[op'[d].path] \subseteq b \cup clobbered'
                            /\ ~raced' =>
                                  /\ \A q \in Paths \ {op'[d].path} : b \cap content'[q] = {}
                                  /\ \A e \in Readers(op') \ {d} : b \cap op'[e].base = {}
    BY DEF BasesHold
  <2>2. d \in Readers(op) \ {c} /\ op'[d] = op[d] /\ op[d].path \in Paths \ {p}
    BY <1>4
  <2>3. \A e \in Readers(op') \ {d} : op'[e] = op[e] /\ e \in Readers(op) \ {d}
    BY <1>4
  <2> DEFINE b == op[d].base
  <2>4. /\ b \subseteq landed /\ content[op[d].path] \subseteq b \cup clobbered
        /\ ~raced => /\ \A q \in Paths \ {op[d].path} : b \cap content[q] = {}
                     /\ \A e \in Readers(op) \ {d} : b \cap op[e].base = {}
    BY <2>2 DEF BasesHold
  <2>5. content'[op[d].path] \subseteq content[op[d].path]
    BY <1>5, <2>2
  <2>6. ASSUME ~raced' PROVE \A q \in Paths \ {op[d].path} : b \cap content'[q] = {}
    <3>1. ~raced /\ ~MovedAway(c)
      BY <1>2, <2>6
    <3>2. \A q \in Paths \ {op[d].path, p} : b \cap content'[q] = {}
      BY <1>5, <2>4, <3>1
    <3>3. CASE o.kind = "move"
      <4>1. o.from # op[d].path
        BY <2>2, <3>1, <3>3 DEF MovedAway, Readers, Busy
      <4>2. QED
        BY <1>5, <2>4, <3>1, <3>2, <3>3, <4>1
    <3>4. CASE o.kind # "move"
      <4>1. b \cap (o.base \cup {o.line}) = {}
        BY <1>6, <1>8, <2>2, <2>4, <3>1, <3>4
      <4>2. QED
        BY <1>5, <3>2, <3>4, <4>1
    <3>5. QED
      BY <3>3, <3>4
  <2>7. QED
    BY <1>2, <2>2, <2>3, <2>4, <2>5, <2>6
<1>13. CommitsCounted'
  <2> HIDE DEF FilesInv
  <2>1. QED
    BY <1>2, <1>4, CountedKeeps
<1>14. NoLostUpdate'
  <2>1. ASSUME NEW l \in landed' \ (dropped' \cup clobbered')
        PROVE  \E q \in Paths : l \in content'[q]
    <3>1. l \notin clobbered \cup Replaced(c) /\ (l = o.line \/ l \in landed \ dropped)
      BY <1>2, <2>1
    <3>2. CASE l \in landed
      <4>1. PICK q \in Paths : l \in content[q]
        BY <1>2, <2>1, <3>1, <3>2 DEF NoLostUpdate
      <4>2. CASE q = p
        BY <1>4, <1>5, <3>1, <4>1, <4>2
      <4>3. CASE q # p
        BY <1>4, <1>5, <4>1, <4>3
      <4>4. QED
        BY <4>2, <4>3
    <3>3. CASE l \notin landed
      BY <1>4, <1>5, <3>1, <3>3
    <3>4. QED
      BY <3>2, <3>3
  <2>2. ASSUME ~raced', NEW q \in Paths, NEW r \in Paths, q # r
        PROVE  content'[q] \cap content'[r] = {}
    <3>1. ~raced /\ \A u, v \in Paths : u # v => content[u] \cap content[v] = {}
      BY <1>2, <2>2 DEF NoLostUpdate
    <3>2. \A u \in Paths \ {p} : content'[p] \cap content'[u] = {}
      <4>1. CASE o.kind = "move"
        BY <1>4, <1>5, <3>1, <4>1
      <4>2. CASE o.kind # "move"
        <5>1. \A u \in Paths \ {p} : content'[u] = content[u] /\ o.line \notin content[u]
          BY <1>5, <1>6, <1>7, <4>2
        <5>2. QED
          BY <1>5, <1>8, <3>1, <4>2, <5>1
      <4>3. QED
        BY <4>1, <4>2
    <3>3. \A u, v \in Paths \ {p} : u # v => content'[u] \cap content'[v] = {}
      BY <1>5, <3>1
    <3>4. QED
      BY <2>2, <3>2, <3>3
  <2>3. QED
    BY <2>1, <2>2 DEF NoLostUpdate
<1>15. QED
  BY <1>4, <1>10, <1>11, <1>12, <1>13, <1>14

\* A template is written without the lock of its file.
LEMMA WritesTemplateKeeps ==
    ASSUME FilesInv, NEW p \in Paths, WritesTemplate(p)
    PROVE  FilesInv'
<1> USE DEF FilesInv
<1> DEFINE l == NewLine
<1>1. l \in Lines \ landed /\ \A c \in Waiting(op) : op[c].line # l
  BY NewLineIsNew DEF WritesTemplate
<1>2. /\ content' = [content EXCEPT ![p] = {l}] /\ landed' = landed \cup {l}
      /\ missing' = {}
      /\ content[p] \subseteq clobbered' /\ clobbered \subseteq clobbered'
      /\ UNCHANGED <<op, chain, gitVars, dropped, raced, fileOps, mishaps>>
  BY DEF WritesTemplate
<1>3. (\E c \in Readers(op) : op[c].path = p) => l \in clobbered'
  BY DEF WritesTemplate, Readers, Busy
<1> HIDE DEF l
<1>4. content \in [Paths -> SUBSET landed] /\ landed \subseteq Lines
  BY DEF FilesTyped
<1>5. /\ content' \in [Paths -> SUBSET landed'] /\ content'[p] = {l}
      /\ \A q \in Paths \ {p} : content'[q] = content[q]
  BY <1>2, <1>4
<1>6. FilesTyped'
  BY <1>1, <1>2, <1>5 DEF FilesTyped
<1>7. LinesAreNew'
  BY <1>1, <1>2 DEF LinesAreNew
<1>8. ChainsHold'
  BY <1>2 DEF ChainsHold
<1>9. BasesHold'
  <2>1. SUFFICES ASSUME NEW c \in Readers(op)
                 PROVE  /\ op[c].base \subseteq landed'
                        /\ content'[op[c].path] \subseteq op[c].base \cup clobbered'
                        /\ ~raced' =>
                              /\ \A q \in Paths \ {op[c].path} : op[c].base \cap content'[q] = {}
                              /\ \A d \in Readers(op) \ {c} : op[c].base \cap op[d].base = {}
    BY <1>2 DEF BasesHold
  <2>2. op[c].path \in Paths
    BY WaitingOps DEF Readers, Waiting
  <2>3. /\ op[c].base \subseteq landed
        /\ content[op[c].path] \subseteq op[c].base \cup clobbered
        /\ ~raced => /\ \A q \in Paths \ {op[c].path} : op[c].base \cap content[q] = {}
                     /\ \A d \in Readers(op) \ {c} : op[c].base \cap op[d].base = {}
    BY DEF BasesHold
  <2>4. l \notin op[c].base
    BY <1>1, <2>3
  <2>5. content'[op[c].path] \subseteq op[c].base \cup clobbered'
    BY <1>2, <1>3, <1>5, <2>2, <2>3
  <2>6. ~raced => \A q \in Paths \ {op[c].path} : op[c].base \cap content'[q] = {}
    BY <1>5, <2>3, <2>4
  <2>7. QED
    BY <1>2, <2>3, <2>5, <2>6
<1>10. CommitsCounted'
  BY <1>2 DEF CommitsCounted, CommitsKeepUp, gitVars
<1>11. NoLostUpdate'
  <2>1. ASSUME NEW x \in landed' \ (dropped' \cup clobbered')
        PROVE  \E q \in Paths : x \in content'[q]
    <3>1. CASE x = l
      BY <1>5, <3>1
    <3>2. CASE x # l
      <4>1. x \in landed \ (dropped \cup clobbered)
        BY <1>2, <2>1, <3>2
      <4>2. PICK q \in Paths : x \in content[q]
        BY <4>1 DEF NoLostUpdate
      <4>3. q # p
        BY <1>2, <2>1, <4>2
      <4>4. QED
        BY <1>5, <4>2, <4>3
    <3>3. QED
      BY <3>1, <3>2
  <2>2. ASSUME ~raced', NEW q \in Paths, NEW r \in Paths, q # r
        PROVE  content'[q] \cap content'[r] = {}
    <3>1. content[q] \cap content[r] = {}
      BY <1>2, <2>2 DEF NoLostUpdate
    <3>2. l \notin content[q] /\ l \notin content[r]
      BY <1>1, <1>4
    <3>3. QED
      BY <1>5, <2>2, <3>1, <3>2
  <2>3. QED
    BY <2>1, <2>2 DEF NoLostUpdate
<1>12. QED
  BY <1>6, <1>7, <1>8, <1>9, <1>10, <1>11

\* Who started a commit that is over does not wait for a file.
LEMMA OverKeepsWaiting ==
    ASSUME FilesInv, Over
    PROVE  /\ Waiting(op') = Waiting(op) /\ Readers(op') = Readers(op)
           /\ op' \in [Calls -> {NoOp} \cup Operations]
           /\ \A c \in Waiting(op) : op'[c] = op[c]
           /\ Readers(op) \subseteq Waiting(op)
<1> USE DEF FilesInv
<1>1. \A c \in Calls : op'[c] = IF Busy(c) /\ op[c].stage = "committing" THEN NoOp ELSE op[c]
  BY DEF Over
<1>2. op' \in [Calls -> {NoOp} \cup Operations]
  BY DEF Over, FilesTyped
<1>3. QED
  BY <1>1, <1>2 DEF Waiting, Readers, Busy

\* The commit in flight concerns no file.
LEMMA CommitLeavesFiles ==
    ASSUME FilesInv, Waiting(op') = Waiting(op), Readers(op') = Readers(op),
           op' \in [Calls -> {NoOp} \cup Operations],
           \A c \in Waiting(op) : op'[c] = op[c],
           UNCHANGED <<content, chain, missing, fileHistory>>
    PROVE  FilesTyped' /\ LinesAreNew' /\ ChainsHold' /\ BasesHold' /\ NoLostUpdate'
<1> USE DEF FilesInv
<1>1. Readers(op) \subseteq Waiting(op)
  BY DEF Readers, Waiting
<1>2. FilesTyped' /\ NoLostUpdate'
  BY DEF FilesTyped, NoLostUpdate, fileHistory
<1>3. LinesAreNew'
  BY DEF LinesAreNew, fileHistory
<1>4. ChainsHold'
  BY <1>1 DEF ChainsHold
<1>5. BasesHold'
  BY <1>1 DEF BasesHold, fileHistory
<1>6. QED
  BY <1>2, <1>3, <1>4, <1>5

\* A commit that starts, works or fails leaves no more behind than it says.
LEMMA CommitKeeps ==
    ASSUME FilesInv, Flush \/ Due \/ Committed \/ CommitFails
    PROVE  FilesInv'
<1> USE DEF FilesInv
<1>1. UNCHANGED <<content, chain, missing, fileHistory, fileOps>>
  BY DEF Flush, Due, Committed, CommitFails
<1>2. op' = op \/ Over
  BY DEF Flush, Due, Committed, CommitFails
<1>3. /\ Waiting(op') = Waiting(op) /\ Readers(op') = Readers(op)
      /\ op' \in [Calls -> {NoOp} \cup Operations]
      /\ \A c \in Waiting(op) : op'[c] = op[c]
  BY <1>2, OverKeepsWaiting DEF FilesTyped
<1>4. FilesTyped' /\ LinesAreNew' /\ ChainsHold' /\ BasesHold' /\ NoLostUpdate'
  <2> HIDE DEF FilesInv
  <2>1. QED
    BY <1>1, <1>3, CommitLeavesFiles
<1>5. Cardinality(Waiting(op)) \in Nat /\ CommitEvery \in Nat \ {0}
  BY WaitingIsFinite, FilesAssumption
<1> USE DEF CommitsCounted, CommitsKeepUp
<1>6. CASE Flush
  <2>1. CASE commit' = "due" /\ flushed' = TRUE /\ behind' = (behind \/ unsaved > pendingWrites)
             /\ UNCHANGED taken
    <3>1. UNCHANGED <<pendingWrites, unsaved, taken, fileOps>> /\ Waiting(op') = Waiting(op)
      BY <1>1, <1>3, <1>6, <2>1 DEF Flush
    <3>2. flushed' \in BOOLEAN /\ behind' \in BOOLEAN
      BY <2>1
    <3>3. flushed' /\ ~behind' => unsaved' <= pendingWrites'
      <4>1. ~(unsaved > pendingWrites) => unsaved' <= pendingWrites'
        BY <3>1
      <4>2. unsaved > pendingWrites => behind'
        BY <2>1
      <4>3. QED
        BY <4>1, <4>2
    <3>4. CommitsKeepUp'
      BY <2>1
    <3>5. CommitsCounted'
      BY <2>1, <3>1, <3>2, <3>3, <3>4
    <3>6. QED
      BY <1>4, <3>5
  <2>2. CASE commit' = "flushing" /\ taken' = unsaved /\ UNCHANGED <<flushed, behind>>
    <3>1. UNCHANGED <<pendingWrites, unsaved, fileOps>> /\ Waiting(op') = Waiting(op)
      BY <1>1, <1>3, <1>6, <2>2 DEF Flush
    <3>2. flushed' \in BOOLEAN /\ behind' \in BOOLEAN
          /\ (flushed' /\ ~behind' => unsaved' <= pendingWrites')
      BY <2>2, <3>1
    <3>3. CommitsKeepUp'
      BY <2>2
    <3>4. taken' \in Nat /\ taken' <= unsaved' /\ unsaved' <= pendingWrites' + taken'
      BY <2>2, <3>1
    <3>5. CommitsCounted'
      BY <2>2, <3>1, <3>2, <3>3, <3>4
    <3>6. QED
      BY <1>4, <3>5
  <2>3. QED
    BY <1>4, <1>6, <2>1, <2>2 DEF Flush
<1>7. CASE Due
  <2>1. CASE pendingWrites >= CommitEvery /\ commit' = "committing" /\ taken' = unsaved
    BY <1>1, <1>3, <1>4, <1>5, <1>7, <2>1 DEF Due
  <2>2. CASE pendingWrites < CommitEvery /\ commit' = "none" /\ UNCHANGED taken
    BY <1>1, <1>3, <1>4, <1>5, <1>7, <2>2 DEF Due
  <2>3. QED
    BY <1>7, <2>1, <2>2 DEF Due, Over
<1>8. CASE Committed
  <2>1. /\ unsaved' = unsaved - taken /\ behind' = FALSE /\ commit' = "due"
        /\ flushed' = TRUE /\ taken' = taken
        /\ commit \in {"flushing", "committing"}
        /\ pendingWrites' = IF commit = "committing" THEN pendingWrites - CommitEvery
                            ELSE pendingWrites
    BY <1>8 DEF Committed
  <2>2. unsaved' \in Nat /\ unsaved' <= unsaved /\ pendingWrites' \in Nat
        /\ pendingWrites' <= pendingWrites /\ unsaved' <= pendingWrites'
    BY <1>5, <2>1
  <2>3. CommitsKeepUp' /\ flushed' \in BOOLEAN /\ behind' \in BOOLEAN
    BY <2>1
  <2>4. /\ unsaved' + Cardinality(Waiting(op')) <= fileOps'
        /\ pendingWrites' + Cardinality(Waiting(op')) <= fileOps'
    BY <1>1, <1>3, <1>5, <2>2
  <2>5. CommitsCounted'
    BY <1>1, <2>1, <2>2, <2>3, <2>4
  <2>6. QED
    BY <1>4, <2>5
<1>9. CASE CommitFails
  <2>1. commit' = "none" /\ behind' = TRUE
        /\ UNCHANGED <<pendingWrites, flushed, taken, unsaved>>
    BY <1>9 DEF CommitFails, Over
  <2>2. QED
    BY <1>1, <1>3, <1>4, <1>5, <2>1
<1>10. QED
  BY <1>6, <1>7, <1>8, <1>9

\* A restart forgets the calls, the chains and what has been counted.
LEMMA RestartKeeps ==
    ASSUME FilesInv, Restart
    PROVE  FilesInv'
<1> USE DEF FilesInv
<1>1. op' = [c \in Calls |-> NoOp] /\ chain' = [q \in Paths |-> <<>>]
  BY DEF Restart
<1>2. Waiting(op') = {} /\ Readers(op') = {}
  BY <1>1 DEF Waiting, Readers
<1>3. FilesTyped' /\ NoLostUpdate'
  BY <1>1 DEF Restart, FilesTyped, NoLostUpdate, fileHistory
<1>4. LinesAreNew' /\ BasesHold'
  BY <1>2 DEF LinesAreNew, BasesHold
<1>5. ChainsHold'
  <2>1. chain' \in [Paths -> Seq(Calls)] /\ \A q \in Paths : chain'[q] = <<>>
    BY <1>1
  <2>2. QED
    BY <1>2, <2>1 DEF ChainsHold
<1>6. CommitsCounted'
  <2>1. Cardinality(Waiting(op')) = 0
    BY <1>2, FS_EmptySet
  <2>2. Cardinality(Waiting(op)) \in Nat
    BY WaitingIsFinite
  <2>3. /\ pendingWrites' = 0 /\ commit' = "none" /\ flushed' = FALSE
        /\ UNCHANGED <<taken, unsaved, behind, fileOps>>
    BY DEF Restart
  <2>4. unsaved <= fileOps /\ fileOps \in Nat /\ unsaved \in Nat
    BY <2>2 DEF CommitsCounted
  <2>5. /\ unsaved' + Cardinality(Waiting(op')) <= fileOps'
        /\ pendingWrites' + Cardinality(Waiting(op')) <= fileOps'
        /\ pendingWrites' \in Nat
    BY <2>1, <2>3, <2>4
  <2>6. CommitsKeepUp' /\ flushed' \in BOOLEAN /\ behind' \in BOOLEAN
    BY <2>3 DEF CommitsCounted, CommitsKeepUp
  <2>7. QED
    BY <2>3, <2>5, <2>6 DEF CommitsCounted
<1>7. QED
  BY <1>3, <1>4, <1>5, <1>6

\* Each step of the calls, of a template and of the commits keeps it.
LEMMA FilesStepInvariant == FilesInv /\ [FilesNext]_fileVars => FilesInv'
<1> SUFFICES ASSUME FilesInv, [FilesNext]_fileVars PROVE FilesInv'
  OBVIOUS
<1>1. CASE \E p \in Paths : FindsNone(p)
  <2>1. /\ UNCHANGED <<content, op, chain, gitVars, fileHistory, fileOps>>
        /\ missing' \subseteq Paths
    BY <1>1 DEF FindsNone
  <2>2. CommitsCounted'
    BY <2>1 DEF FilesInv, CommitsCounted, CommitsKeepUp, gitVars
  <2>3. FilesTyped' /\ NoLostUpdate'
    BY <2>1 DEF FilesInv, FilesTyped, NoLostUpdate, fileHistory
  <2>4. LinesAreNew' /\ ChainsHold' /\ BasesHold'
    BY <2>1 DEF FilesInv, LinesAreNew, ChainsHold, BasesHold, fileHistory
  <2>5. QED
    BY <2>2, <2>3, <2>4 DEF FilesInv
<1>2. CASE UNCHANGED fileVars
  <2>1. CommitsCounted'
    BY <1>2 DEF FilesInv, CommitsCounted, CommitsKeepUp, fileVars, gitVars
  <2>2. FilesTyped' /\ NoLostUpdate'
    BY <1>2 DEF FilesInv, FilesTyped, NoLostUpdate, fileVars, fileHistory
  <2>3. LinesAreNew' /\ ChainsHold' /\ BasesHold'
    BY <1>2 DEF FilesInv, LinesAreNew, ChainsHold, BasesHold, fileVars, fileHistory
  <2>4. QED
    BY <2>1, <2>2, <2>3 DEF FilesInv
<1>3. QED
  BY <1>1, <1>2, StartKeeps, ReadsKeeps, ThrowsKeeps, WritesKeeps, WritesTemplateKeeps,
     CommitKeeps, RestartKeeps DEF FilesNext

\* It implies what the runs check.
LEMMA FilesInvariantSuffices == FilesInv => FilesTypeOK /\ FilesSound
<1> SUFFICES ASSUME FilesInv PROVE FilesTypeOK /\ FilesSound
  OBVIOUS
<1>1. ASSUME NEW c \in Calls, Busy(c)
      PROVE  /\ op[c].stage \in {"queued", "read", "committing"}
             /\ op[c].stage # "committing" =>
                   \E i \in DOMAIN chain[op[c].path] : chain[op[c].path][i] = c
  <2>1. op[c].stage \in {"queued", "read", "committing"}
    BY <1>1 DEF FilesInv, FilesTyped, Busy, Operations
  <2>2. ASSUME op[c].stage # "committing"
        PROVE  \E i \in DOMAIN chain[op[c].path] : chain[op[c].path][i] = c
    <3>1. c \in Waiting(op)
      BY <1>1, <2>2 DEF Busy, Waiting
    <3>2. op[c].path \in Paths
      BY <3>1, WaitingOps DEF FilesInv
    <3>3. chain[op[c].path] \in Seq(Calls)
      BY <3>2 DEF FilesInv, ChainsHold
    <3>4. QED
      BY <3>1, <3>3 DEF FilesInv, ChainsHold
  <2>3. QED
    BY <2>1, <2>2
<1>2. pendingWrites \in 0..MaxFileOps /\ unsaved \in 0..MaxFileOps
  BY WaitingIsFinite, FilesAssumption DEF FilesInv, CommitsCounted
<1>3. content \in [Paths -> SUBSET Lines]
  BY DEF FilesInv, FilesTyped
<1>4. FilesTypeOK
  BY <1>1, <1>2, <1>3 DEF FilesTypeOK, FilesInv, FilesTyped, CommitsCounted
<1>5. QED
  BY <1>4 DEF FilesInv, CommitsCounted, FilesSound

-----------------------------------------------------------------------------
(* The composer.                                                           *)

Places == PickedDirs \cup {HomeDir}

LookStates == [of : Nat, at : {"none", "asked", "answered"}, dir : Places \cup {NoDir},
               for : {0} \cup 2..MaxChats]
MakeStates == [at : {"none", "creating", "created", "placing", "placed", "going", "done"},
               text : 0..MaxTexts, dir : PickedDirs \cup {NoDir}, chat : Nat]
TextStates == [at : {"draft", "waiting", "sending", "sent", "lost"}, typedIn : Nat, to : Nat]
SaveStates == [at : {"none", "asked", "answered"}, of : Nat, dir : PickedDirs \cup {NoDir}]

\* The makes that have been answered, or have failed.
Past(m) == {n \in DOMAIN m : m[n].at \notin {"none", "creating"}}

ComposerTyped ==
    /\ looks \in [1..MaxLooks -> LookStates] /\ makes \in [2..MaxChats -> MakeStates]
    /\ text \in [1..MaxTexts -> TextStates] /\ save \in SaveStates
    /\ openNow \in Composed \cup {0} /\ shownDir \in Places \cup {NoDir}
    /\ strayed \in BOOLEAN /\ deeds \in 0..MaxDeeds /\ flops \in 0..MaxFlops

\* Each make makes one chat at most, and a chat is in a directory it has had.
ChatsHold ==
    /\ \E k \in 1..(1 + Cardinality(Past(makes))) : Composed = 1..k
    /\ dirOf \in [Composed -> Places]
    /\ inbox \in [Composed -> SUBSET (1..MaxTexts)]
    /\ hadDirs \in [Composed -> SUBSET Places]
    /\ madeFor \in [Composed -> 0..MaxTexts]
    /\ \A c \in Composed : dirOf[c] \in hadDirs[c]

\* A look is of a chat there is; the one a make waits for is of the chat it made.
LooksHold ==
    /\ \A l \in 1..MaxLooks :
          LET k == looks[l]
          IN  /\ k = NoLook \/ (k.at # "none" /\ k.of \in Composed)
              /\ k.at = "answered" => k.dir \in hadDirs[k.of]
              /\ k.for # 0 => makes[k.for].at = "going" /\ makes[k.for].chat = k.of
    /\ \A l, j \in 1..MaxLooks : looks[l].for = looks[j].for /\ looks[l].for # 0 => l = j

MakesHold ==
    \A n \in 2..MaxChats :
        LET k == makes[n]
        IN  /\ k.at \in {"created", "placing", "placed", "going"} =>
                  k.chat \in Composed /\ madeFor[k.chat] = k.text
            /\ k.at \in {"placing", "placed"} => k.dir # NoDir
            /\ k.at \in {"placed", "going"} /\ k.dir # NoDir => k.dir \in hadDirs[k.chat]
            /\ k.at = "going" => \E l \in 1..MaxLooks : looks[l].for = n

\* A message on its way goes to the chat it was typed in, or to its own.
TextsHold ==
    /\ \A t \in 1..MaxTexts :
          text[t].at = "sending" =>
              text[t].to \in Composed /\ (text[t].typedIn = text[t].to \/ madeFor[text[t].to] = t)
    /\ \A c \in Composed : \A t \in inbox[c] :
          text[t].at # "draft" /\ (text[t].typedIn = c \/ madeFor[c] = t)

ShownHolds ==
    /\ save = NoSave \/ (save.at # "none" /\ save.of \in Composed /\ save.dir # NoDir)
    /\ save.at = "answered" => save.dir \in hadDirs[save.of]
    /\ openNow # 0 /\ shownDir # NoDir /\ ~strayed => shownDir \in hadDirs[openNow]

ComposerInv ==
    ComposerTyped /\ ChatsHold /\ LooksHold /\ MakesHold /\ TextsHold /\ ShownHolds

\* The chats there are have numbers from one.
LEMMA ChatsAreNumbered ==
    ASSUME ChatsHold
    PROVE  Composed \subseteq Nat \ {0}
  BY DEF ChatsHold

\* The makes that are past are fewer than the chats there may be.
LEMMA PastIsFinite ==
    ASSUME NEW m \in [2..MaxChats -> MakeStates]
    PROVE  /\ IsFiniteSet(Past(m)) /\ Cardinality(Past(m)) \in Nat
           /\ 1 + Cardinality(Past(m)) <= MaxChats
<1>1. 2 \in Int /\ MaxChats \in Int /\ MaxChats >= 1
  BY ComposerAssumption
<1>2. IsFiniteSet(2..MaxChats) /\ Cardinality(2..MaxChats) = MaxChats - 1
  BY <1>1, FS_Interval
<1>3. Past(m) \subseteq 2..MaxChats
  BY DEF Past
<1>4. IsFiniteSet(Past(m)) /\ Cardinality(Past(m)) <= Cardinality(2..MaxChats)
  BY <1>2, <1>3, FS_Subset
<1>5. Cardinality(Past(m)) \in Nat
  BY <1>4, FS_CardinalityType
<1>6. QED
  BY <1>1, <1>2, <1>4, <1>5

\* As long as no chat is made and no make is undone, the chats hold.
LEMMA ChatsStay ==
    ASSUME ChatsHold, ComposerTyped, UNCHANGED atServer,
           makes' \in [2..MaxChats -> MakeStates], Past(makes) \subseteq Past(makes')
    PROVE  ChatsHold'
<1>1. /\ Cardinality(Past(makes)) \in Nat /\ Cardinality(Past(makes')) \in Nat
      /\ Cardinality(Past(makes)) <= Cardinality(Past(makes'))
  BY PastIsFinite, FS_Subset DEF ComposerTyped
<1>2. PICK k \in 1..(1 + Cardinality(Past(makes))) : Composed = 1..k
  BY DEF ChatsHold
<1>3. k \in 1..(1 + Cardinality(Past(makes'))) /\ Composed' = 1..k
  BY <1>1, <1>2 DEF atServer, Composed
<1>4. QED
  BY <1>3 DEF ChatsHold, atServer, Composed

\* A look that goes out takes a place that is free.
Takes(f, c, n, others) ==
    /\ looks[f].of = 0
    /\ looks'[f].of = c /\ looks'[f].at = "asked" /\ looks'[f].for = n
    /\ \A l \in (1..MaxLooks) \ {f} : looks'[l] = others[l]

\* Going to a chat opens it, shows no directory, and sends a look out.
LEMMA GoToShape ==
    ASSUME ComposerTyped, ChatsHold, NEW c \in Composed, NEW n \in {0} \cup 2..MaxChats,
           NEW others \in [1..MaxLooks -> LookStates], GoTo(c, n, others)
    PROVE  /\ openNow' = c /\ shownDir' = NoDir /\ strayed' = FALSE
           /\ looks' \in [1..MaxLooks -> LookStates]
           /\ \E f \in 1..MaxLooks : Takes(f, c, n, others)
<1> DEFINE S == FreeLooks
           r == [NoLook EXCEPT !.of = c, !.at = "asked", !.for = n]
<1>1. S \in SUBSET (1..MaxLooks) /\ S \in SUBSET Nat /\ S # {}
  BY DEF ComposerTyped, FreeLooks, GoTo
<1>2. \A f \in S : looks[f].of = 0
  BY DEF FreeLooks
<1> HIDE DEF S
<1>3. Min(S) \in S
  BY <1>1, MinProperties
<1> DEFINE f == Min(S)
<1>4. NoLook \in LookStates /\ c \in Nat
  BY ChatsAreNumbered DEF LookStates, NoLook
<1>5. looks' = [others EXCEPT ![f] = r]
  BY DEF GoTo, S
<1>6. r \in LookStates /\ r.of = c /\ r.at = "asked" /\ r.for = n
  BY <1>4 DEF LookStates
<1>7. openNow' = c /\ shownDir' = NoDir /\ strayed' = FALSE
  BY DEF GoTo
<1>8. f \in 1..MaxLooks /\ looks[f].of = 0
  BY <1>1, <1>2, <1>3
<1> HIDE DEF r, f
<1>9. looks' \in [1..MaxLooks -> LookStates]
  BY <1>5, <1>6
<1>10. looks'[f] = r /\ \A l \in (1..MaxLooks) \ {f} : looks'[l] = others[l]
  BY <1>5, <1>8
<1>11. QED
  BY <1>6, <1>7, <1>8, <1>9, <1>10 DEF Takes

\* Before the user does anything there is one chat.
LEMMA ComposerInitInvariant == ComposerInit => ComposerInv
<1> SUFFICES ASSUME ComposerInit PROVE ComposerInv
  OBVIOUS
<1>1. Composed = {1} /\ Composed = 1..1
  BY ComposerAssumption DEF ComposerInit, Composed
<1>2. /\ NoLook \in LookStates /\ NoMake \in MakeStates /\ Untyped \in TextStates
      /\ NoSave \in SaveStates
  BY ComposerAssumption DEF NoLook, LookStates, NoMake, MakeStates, Untyped, TextStates,
     NoSave, SaveStates
<1>3. ComposerTyped
  <2>1. 0 \in 0..MaxDeeds /\ 0 \in 0..MaxFlops
    BY ComposerAssumption
  <2>2. openNow = 0 /\ shownDir = NoDir /\ strayed = FALSE /\ deeds = 0 /\ flops = 0
        /\ save = NoSave
    BY DEF ComposerInit
  <2>3. /\ looks \in [1..MaxLooks -> LookStates] /\ makes \in [2..MaxChats -> MakeStates]
        /\ text \in [1..MaxTexts -> TextStates]
    BY <1>2 DEF ComposerInit
  <2>4. QED
    BY <1>2, <2>1, <2>2, <2>3 DEF ComposerTyped
<1>4. ChatsHold
  <2>1. Cardinality(Past(makes)) \in Nat
    BY <1>3, PastIsFinite DEF ComposerTyped
  <2>2. 1 \in 1..(1 + Cardinality(Past(makes)))
    BY <2>1
  <2>3. QED
    BY <1>1, <2>2, ComposerAssumption DEF ComposerInit, ChatsHold, Places
<1>5. LooksHold /\ MakesHold
  BY DEF ComposerInit, LooksHold, MakesHold, NoLook, NoMake
<1>6. TextsHold /\ ShownHolds
  BY DEF ComposerInit, TextsHold, ShownHolds, Untyped, NoSave, Composed
<1>7. QED
  BY <1>3, <1>4, <1>5, <1>6 DEF ComposerInv

\* The user goes to a chat.
LEMMA LookKeeps ==
    ASSUME ComposerInv, NEW c \in Composed, Look(c)
    PROVE  ComposerInv'
<1> USE DEF ComposerInv
<1>1. GoTo(c, 0, looks) /\ Deed /\ UNCHANGED <<atServer, makes, text, save>>
  BY DEF Look
<1>2. /\ openNow' = c /\ shownDir' = NoDir /\ strayed' = FALSE
      /\ looks' \in [1..MaxLooks -> LookStates]
  BY <1>1, GoToShape DEF ComposerTyped
<1>3. PICK f \in 1..MaxLooks : Takes(f, c, 0, looks)
  BY <1>1, GoToShape DEF ComposerTyped
<1>4. looks[f].for = 0
  BY <1>3, ChatsAreNumbered DEF LooksHold, NoLook, Takes
<1>5. Composed' = Composed /\ UNCHANGED <<hadDirs, madeFor, inbox>>
  BY <1>1 DEF Composed, atServer
<1>6. ComposerTyped'
  <2>1. deeds' \in 0..MaxDeeds /\ flops' \in 0..MaxFlops
    BY <1>1, ComposerAssumption DEF ComposerTyped, Deed
  <2>2. QED
    BY <1>1, <1>2, <1>5, <2>1 DEF ComposerTyped
<1>7. ChatsHold'
  BY <1>1, ChatsStay DEF ComposerTyped
<1>8. LooksHold'
  BY <1>1, <1>3, <1>5 DEF LooksHold, Takes
<1>9. MakesHold'
  BY <1>1, <1>3, <1>4, <1>5 DEF MakesHold, Takes
<1>10. TextsHold'
  BY <1>1, <1>5 DEF TextsHold
<1>11. ShownHolds'
  BY <1>1, <1>2, <1>5 DEF ShownHolds
<1>12. QED
  BY <1>6, <1>7, <1>8, <1>9, <1>10, <1>11

\* A chat is read.
LEMMA LookArrivesKeeps ==
    ASSUME ComposerInv, NEW l \in 1..MaxLooks, LookArrives(l)
    PROVE  ComposerInv'
<1> USE DEF ComposerInv
<1> DEFINE r == [looks[l] EXCEPT !.at = "answered", !.dir = dirOf[looks[l].of]]
<1>1. /\ looks[l].at = "asked" /\ looks' = [looks EXCEPT ![l] = r]
      /\ UNCHANGED <<atServer, inView, makes, text, save, deeds, flops>>
  BY DEF LookArrives, Fine, ComposerTyped
<1>2. looks[l] \in LookStates /\ looks[l].of \in Composed
  BY <1>1 DEF ComposerTyped, LooksHold, NoLook
<1>3. dirOf[looks[l].of] \in Places /\ dirOf[looks[l].of] \in hadDirs[looks[l].of]
  BY <1>2 DEF ChatsHold
<1>4. /\ r \in LookStates /\ r.of = looks[l].of /\ r.at = "answered" /\ r.for = looks[l].for
      /\ r.dir = dirOf[looks[l].of]
  BY <1>2, <1>3 DEF LookStates
<1> HIDE DEF r
<1>5. /\ looks' \in [1..MaxLooks -> LookStates] /\ looks'[l] = r
      /\ \A j \in (1..MaxLooks) \ {l} : looks'[j] = looks[j]
  BY <1>1, <1>4 DEF ComposerTyped
<1>6. /\ Composed' = Composed /\ UNCHANGED <<hadDirs, madeFor, inbox>>
      /\ UNCHANGED <<openNow, shownDir, strayed>>
  BY <1>1 DEF Composed, atServer, inView
<1>7. ComposerTyped'
  BY <1>1, <1>5, <1>6 DEF ComposerTyped
<1>8. ChatsHold'
  BY <1>1, ChatsStay DEF ComposerTyped
<1>9. LooksHold'
  BY <1>1, <1>2, <1>3, <1>4, <1>5, <1>6 DEF LooksHold
<1>10. MakesHold'
  BY <1>1, <1>4, <1>5, <1>6 DEF MakesHold
<1>11. TextsHold' /\ ShownHolds'
  BY <1>1, <1>6 DEF TextsHold, ShownHolds
<1>12. QED
  BY <1>7, <1>8, <1>9, <1>10, <1>11

\* A make that waited for its look goes on.
LEMMA GoesOnShape ==
    ASSUME ComposerInv, NEW n \in {0} \cup 2..MaxChats, GoesOn(n),
           n # 0 => makes[n].at = "going"
    PROVE  /\ makes' \in [2..MaxChats -> MakeStates] /\ text' \in [1..MaxTexts -> TextStates]
           /\ \A m \in 2..MaxChats :
                 makes'[m] = IF m = n THEN [NoMake EXCEPT !.at = "done"] ELSE makes[m]
           /\ \A t \in 1..MaxTexts :
                 \/ text'[t] = text[t]
                 \/ /\ n # 0 /\ text'[t].at = "sending" /\ makes[n].text = t
                    /\ text'[t].to = makes[n].chat /\ text'[t].typedIn = text[t].typedIn
<1> USE DEF ComposerInv
<1>1. CASE n = 0
  BY <1>1 DEF GoesOn, ComposerTyped
<1>2. CASE n # 0
  <2> DEFINE k == makes[n]
             d == [NoMake EXCEPT !.at = "done"]
             s == [text[k.text] EXCEPT !.at = "sending", !.to = k.chat]
  <2>1. n \in 2..MaxChats /\ makes[n] \in MakeStates
    BY <1>2 DEF ComposerTyped
  <2>2. d \in MakeStates
    BY ComposerAssumption DEF NoMake, MakeStates
  <2>3. makes' = [makes EXCEPT ![n] = d]
    BY <1>2 DEF GoesOn
  <2> HIDE DEF d
  <2>4. /\ makes' \in [2..MaxChats -> MakeStates]
        /\ \A m \in 2..MaxChats : makes'[m] = IF m = n THEN d ELSE makes[m]
    BY <2>1, <2>2, <2>3 DEF ComposerTyped
  <2>5. CASE k.text = 0
    <3>1. text' = text
      BY <1>2, <2>5 DEF GoesOn
    <3>2. QED
      BY <1>2, <2>4, <3>1 DEF ComposerTyped, d
  <2>6. CASE k.text # 0
    <3>1. k.text \in 1..MaxTexts /\ k.chat \in Nat
      BY <2>1, <2>6, ComposerAssumption DEF MakeStates
    <3>2. text[k.text] \in TextStates
      BY <3>1 DEF ComposerTyped
    <3>3. /\ s \in TextStates /\ s.at = "sending" /\ s.to = k.chat
          /\ s.typedIn = text[k.text].typedIn
      BY <3>1, <3>2 DEF TextStates
    <3>4. text' = [text EXCEPT ![k.text] = s]
      BY <1>2, <2>6 DEF GoesOn, ComposerTyped
    <3> HIDE DEF s
    <3>5. /\ text' \in [1..MaxTexts -> TextStates] /\ text'[k.text] = s
          /\ \A t \in 1..MaxTexts : t # k.text => text'[t] = text[t]
      BY <3>1, <3>3, <3>4 DEF ComposerTyped
    <3>6. QED
      BY <1>2, <2>4, <3>3, <3>5 DEF d
  <2>7. QED
    BY <2>5, <2>6
<1>3. QED
  BY <1>1, <1>2

\* The look is back, and what is shown is of the chat that is open, or strayed.
LEMMA SeenKeeps ==
    ASSUME ComposerInv, NEW l \in 1..MaxLooks, Seen(l)
    PROVE  ComposerInv'
<1> USE DEF ComposerInv
<1> DEFINE n == looks[l].for
           of == looks[l].of
           dir == looks[l].dir
<1>1. /\ looks[l].at = "answered" /\ looks' = [looks EXCEPT ![l] = NoLook] /\ GoesOn(n)
      /\ UNCHANGED <<atServer, openNow, save, deeds, flops>>
  BY DEF Seen, Fine
<1>2. /\ looks[l] \in LookStates /\ n \in {0} \cup 2..MaxChats /\ of \in Composed
      /\ dir \in Places \cup {NoDir} /\ dir \in hadDirs[of]
      /\ n # 0 => makes[n].at = "going" /\ makes[n].chat = of
  BY <1>1 DEF ComposerTyped, LooksHold, NoLook, LookStates
<1>3. NoLook \in LookStates /\ NoLook.at = "none" /\ NoLook.for = 0
  BY DEF NoLook, LookStates
<1>4. /\ looks' \in [1..MaxLooks -> LookStates] /\ looks'[l] = NoLook
      /\ \A j \in (1..MaxLooks) \ {l} : looks'[j] = looks[j]
  BY <1>1, <1>3 DEF ComposerTyped
<1>5. /\ makes' \in [2..MaxChats -> MakeStates] /\ text' \in [1..MaxTexts -> TextStates]
      /\ \A m \in 2..MaxChats :
            makes'[m] = IF m = n THEN [NoMake EXCEPT !.at = "done"] ELSE makes[m]
      /\ \A t \in 1..MaxTexts :
            \/ text'[t] = text[t]
            \/ /\ n # 0 /\ text'[t].at = "sending" /\ makes[n].text = t
               /\ text'[t].to = makes[n].chat /\ text'[t].typedIn = text[t].typedIn
  BY <1>1, <1>2, GoesOnShape
<1>6. Composed' = Composed /\ UNCHANGED <<hadDirs, madeFor, inbox>>
  BY <1>1 DEF Composed, atServer
<1>7. /\ PickedDir(n) \in PickedDirs \cup {NoDir}
      /\ PickedDir(n) # NoDir => PickedDir(n) \in hadDirs[of]
  BY <1>2, <1>5 DEF PickedDir, MakesHold, ComposerTyped, MakeStates
<1>8. \/ /\ PickedDir(n) # NoDir /\ shownDir' = PickedDir(n)
         /\ openNow # of => strayed'
      \/ PickedDir(n) = NoDir /\ openNow = of /\ shownDir' = dir
      \/ openNow # of /\ shownDir' = shownDir /\ (strayed => strayed')
  BY DEF Seen
<1>9. strayed' \in BOOLEAN
  BY DEF Seen
<1> HIDE DEF n, of, dir
<1>10. ComposerTyped'
  BY <1>1, <1>2, <1>4, <1>5, <1>6, <1>7, <1>8, <1>9 DEF ComposerTyped, Places
<1>11. ChatsHold'
  <2>1. Past(makes) \subseteq Past(makes')
    BY <1>5 DEF Past, NoMake, ComposerTyped
  <2>2. QED
    BY <1>1, <1>5, <2>1, ChatsStay
<1>12. LooksHold'
  <2>1. \A j \in (1..MaxLooks) \ {l} : looks[j].for # 0 => looks[j].for # n
    BY DEF LooksHold, n
  <2>2. \A j \in (1..MaxLooks) \ {l} :
            looks[j].for # 0 => makes'[looks[j].for] = makes[looks[j].for]
    BY <1>5, <2>1 DEF ComposerTyped, LookStates
  <2>3. QED
    BY <1>3, <1>4, <1>6, <2>2 DEF LooksHold
<1>13. MakesHold'
  <2>1. SUFFICES ASSUME NEW m \in 2..MaxChats, m # n
                 PROVE  LET k == makes[m]
                        IN  /\ k.at \in {"created", "placing", "placed", "going"} =>
                                  k.chat \in Composed /\ madeFor[k.chat] = k.text
                            /\ k.at \in {"placing", "placed"} => k.dir # NoDir
                            /\ k.at \in {"placed", "going"} /\ k.dir # NoDir =>
                                  k.dir \in hadDirs[k.chat]
                            /\ k.at = "going" => \E j \in 1..MaxLooks : looks'[j].for = m
    BY <1>5, <1>6 DEF MakesHold, NoMake
  <2>2. makes[m].at = "going" => \E j \in (1..MaxLooks) \ {l} : looks[j].for = m
    BY <2>1 DEF MakesHold, n
  <2>3. QED
    BY <1>4, <2>2 DEF MakesHold
<1>14. TextsHold'
  <2>1. n # 0 => makes[n].chat \in Composed /\ madeFor[makes[n].chat] = makes[n].text
    BY <1>2 DEF MakesHold
  <2>2. \A c \in Composed : inbox[c] \subseteq 1..MaxTexts
    BY DEF ChatsHold
  <2>3. \A t \in 1..MaxTexts :
           text'[t].at = "sending" =>
              /\ text'[t].to \in Composed
              /\ text'[t].typedIn = text'[t].to \/ madeFor[text'[t].to] = t
    BY <1>5, <2>1 DEF TextsHold
  <2>4. \A c \in Composed : \A t \in inbox[c] :
            text'[t].at # "draft" /\ (text'[t].typedIn = c \/ madeFor[c] = t)
    BY <1>5, <2>2 DEF TextsHold
  <2>5. QED
    BY <1>6, <2>3, <2>4 DEF TextsHold
<1>15. ShownHolds'
  BY <1>1, <1>2, <1>6, <1>7, <1>8 DEF ShownHolds
<1>16. QED
  BY <1>10, <1>11, <1>12, <1>13, <1>14, <1>15

\* A look fails: a directory that was picked is given up for another look, or the
\* make that waited is over.
LEMMA LookFailsKeeps ==
    ASSUME ComposerInv, NEW l \in 1..MaxLooks, LookFails(l)
    PROVE  ComposerInv'
<1> USE DEF ComposerInv
<1> DEFINE n == looks[l].for
           of == looks[l].of
           rest == [looks EXCEPT ![l] = NoLook]
<1>1. of # 0 /\ Flop /\ UNCHANGED <<atServer, save>>
  BY DEF LookFails
<1>2. /\ looks[l] \in LookStates /\ n \in {0} \cup 2..MaxChats /\ of \in Composed
      /\ n # 0 => makes[n].at = "going" /\ makes[n].chat = of
  BY <1>1 DEF ComposerTyped, LooksHold, NoLook, LookStates
<1>3. NoLook \in LookStates /\ NoLook.at = "none" /\ NoLook.for = 0
  BY DEF NoLook, LookStates
<1>4. /\ rest \in [1..MaxLooks -> LookStates] /\ rest[l] = NoLook
      /\ \A j \in (1..MaxLooks) \ {l} : rest[j] = looks[j]
  BY <1>3 DEF ComposerTyped
<1>5. Composed' = Composed /\ UNCHANGED <<hadDirs, madeFor, inbox>>
  BY <1>1 DEF Composed, atServer
<1>6. deeds' \in 0..MaxDeeds /\ flops' \in 0..MaxFlops
  BY <1>1, ComposerAssumption DEF ComposerTyped, Flop
<1>7. \/ /\ PickedDir(n) # NoDir /\ GoTo(makes[n].chat, n, rest)
         /\ makes' = [makes EXCEPT ![n].dir = NoDir] /\ text' = text
      \/ /\ PickedDir(n) = NoDir /\ looks' = rest
         /\ makes' = IF n = 0 THEN makes
                     ELSE [makes EXCEPT ![n] = [NoMake EXCEPT !.at = "done"]]
         /\ text' = IF n = 0 \/ makes[n].text = 0 THEN text
                    ELSE [text EXCEPT ![makes[n].text].at = "lost"]
         /\ UNCHANGED inView
  BY DEF LookFails
<1> HIDE DEF n, of, rest
<1>8. CASE /\ PickedDir(n) # NoDir /\ GoTo(makes[n].chat, n, rest)
           /\ makes' = [makes EXCEPT ![n].dir = NoDir] /\ text' = text
  <2> DEFINE r == [makes[n] EXCEPT !.dir = NoDir]
  <2>1. n \in 2..MaxChats /\ makes[n] \in MakeStates /\ makes[n].at = "going"
        /\ makes[n].chat = of
    BY <1>2, <1>8 DEF PickedDir, ComposerTyped
  <2>2. /\ r \in MakeStates /\ r.dir = NoDir /\ r.at = "going" /\ r.chat = of
        /\ r.text = makes[n].text
    BY <2>1 DEF MakeStates
  <2>3. makes' = [makes EXCEPT ![n] = r]
    BY <1>8 DEF ComposerTyped
  <2> HIDE DEF r
  <2>4. /\ makes' \in [2..MaxChats -> MakeStates] /\ makes'[n] = r
        /\ \A m \in (2..MaxChats) \ {n} : makes'[m] = makes[m]
    BY <2>1, <2>2, <2>3 DEF ComposerTyped
  <2>5. /\ openNow' = of /\ shownDir' = NoDir /\ strayed' = FALSE
        /\ looks' \in [1..MaxLooks -> LookStates]
        /\ \E f \in 1..MaxLooks : Takes(f, of, n, rest)
    BY <1>2, <1>4, <1>8, <2>1, GoToShape
  <2>6. PICK f \in 1..MaxLooks : Takes(f, of, n, rest)
    BY <2>5
  <2>7. f # l /\ looks[f].of = 0
    BY <1>1, <2>6 DEF Takes, of
  <2>8. looks[f].for = 0
    BY <2>7, ChatsAreNumbered DEF LooksHold, NoLook
  <2>9. ComposerTyped'
    BY <1>1, <1>2, <1>5, <1>6, <1>8, <2>4, <2>5 DEF ComposerTyped
  <2>10. ChatsHold'
    <3>1. Past(makes) \subseteq Past(makes')
      BY <2>1, <2>2, <2>4 DEF Past, ComposerTyped
    <3>2. QED
      BY <1>1, <2>4, <3>1, ChatsStay
  <2>11. LooksHold'
    <3>1. \A j \in (1..MaxLooks) \ {l} : looks[j].for # n
      BY <2>1 DEF LooksHold, n
    <3>2. /\ \A j \in (1..MaxLooks) \ {f, l} : looks'[j] = looks[j]
          /\ looks'[l] = NoLook
          /\ looks'[f].of = of /\ looks'[f].at = "asked" /\ looks'[f].for = n
      BY <1>4, <2>6, <2>7 DEF Takes
    <3>3. ASSUME NEW j \in 1..MaxLooks
          PROVE  LET k == looks'[j]
                 IN  /\ k = NoLook \/ (k.at # "none" /\ k.of \in Composed)
                     /\ k.at = "answered" => k.dir \in hadDirs[k.of]
                     /\ k.for # 0 => makes'[k.for].at = "going" /\ makes'[k.for].chat = k.of
      <4>1. CASE j = f
        BY <1>2, <2>2, <2>4, <3>2, <4>1
      <4>2. CASE j = l
        BY <1>3, <3>2, <4>2
      <4>3. CASE j # f /\ j # l
        <5>1. looks'[j] = looks[j] /\ looks[j].for # n /\ looks[j] \in LookStates
          BY <3>1, <3>2, <4>3 DEF ComposerTyped
        <5>2. looks[j].for # 0 => makes'[looks[j].for] = makes[looks[j].for]
          BY <2>4, <5>1 DEF LookStates
        <5>3. QED
          BY <5>1, <5>2 DEF LooksHold
      <4>4. QED
        BY <4>1, <4>2, <4>3
    <3>4. \A i, j \in 1..MaxLooks :
              looks'[i].for = looks'[j].for /\ looks'[i].for # 0 => i = j
      BY <1>3, <3>1, <3>2 DEF LooksHold
    <3>5. QED
      BY <1>5, <3>3, <3>4 DEF LooksHold
  <2>12. MakesHold'
    <3>1. looks'[f].for = n /\ \A j \in (1..MaxLooks) \ {f, l} : looks'[j] = looks[j]
      BY <1>4, <2>6 DEF Takes
    <3>2. ASSUME NEW m \in 2..MaxChats, makes'[m].at = "going"
          PROVE  \E j \in 1..MaxLooks : looks'[j].for = m
      <4>1. CASE m = n
        BY <3>1, <4>1
      <4>2. CASE m # n
        <5>1. makes[m].at = "going"
          BY <2>4, <3>2, <4>2
        <5>2. PICK j \in 1..MaxLooks : looks[j].for = m
          BY <5>1 DEF MakesHold
        <5>3. j # l /\ j # f
          BY <2>8, <4>2, <5>2 DEF n
        <5>4. QED
          BY <3>1, <5>2, <5>3
      <4>3. QED
        BY <4>1, <4>2
    <3>3. madeFor[of] = makes[n].text
      BY <2>1 DEF MakesHold
    <3>4. QED
      BY <1>2, <1>5, <2>2, <2>4, <3>2, <3>3 DEF MakesHold
  <2>13. TextsHold'
    BY <1>5, <1>8 DEF TextsHold
  <2>14. ShownHolds'
    BY <1>1, <1>5, <2>5 DEF ShownHolds
  <2>15. QED
    BY <2>9, <2>10, <2>11, <2>12, <2>13, <2>14
<1>9. CASE /\ PickedDir(n) = NoDir /\ looks' = rest
           /\ makes' = IF n = 0 THEN makes
                       ELSE [makes EXCEPT ![n] = [NoMake EXCEPT !.at = "done"]]
           /\ text' = IF n = 0 \/ makes[n].text = 0 THEN text
                      ELSE [text EXCEPT ![makes[n].text].at = "lost"]
           /\ UNCHANGED inView
  <2> DEFINE d == [NoMake EXCEPT !.at = "done"]
  <2>1. d \in MakeStates /\ d.at = "done"
    BY ComposerAssumption DEF NoMake, MakeStates
  <2>2. makes' = IF n = 0 THEN makes ELSE [makes EXCEPT ![n] = d]
    BY <1>9
  <2> HIDE DEF d
  <2>3. /\ makes' \in [2..MaxChats -> MakeStates]
        /\ \A m \in 2..MaxChats : makes'[m] = IF m = n THEN d ELSE makes[m]
    BY <1>2, <2>1, <2>2 DEF ComposerTyped
  <2>4. /\ text' \in [1..MaxTexts -> TextStates]
        /\ \A t \in 1..MaxTexts :
              \/ text'[t] = text[t]
              \/ text'[t].at = "lost" /\ text'[t].typedIn = text[t].typedIn
    <3>1. CASE text' = text
      BY <3>1 DEF ComposerTyped
    <3>2. CASE n # 0 /\ makes[n].text # 0
      <4> DEFINE t == makes[n].text
                 s == [text[t] EXCEPT !.at = "lost"]
      <4>1. t \in 1..MaxTexts
        BY <1>2, <3>2, ComposerAssumption DEF ComposerTyped, MakeStates
      <4>2. s \in TextStates /\ s.at = "lost" /\ s.typedIn = text[t].typedIn
        BY <4>1 DEF ComposerTyped, TextStates
      <4>3. text' = [text EXCEPT ![t] = s]
        BY <1>9, <3>2 DEF ComposerTyped
      <4> HIDE DEF s, t
      <4>4. QED
        BY <4>1, <4>2, <4>3 DEF ComposerTyped
    <3>3. QED
      BY <1>9, <3>1, <3>2
  <2>5. ComposerTyped'
    BY <1>1, <1>4, <1>5, <1>6, <1>9, <2>3, <2>4 DEF ComposerTyped, inView
  <2>6. ChatsHold'
    <3>1. Past(makes) \subseteq Past(makes')
      BY <2>1, <2>3 DEF Past, ComposerTyped
    <3>2. QED
      BY <1>1, <2>3, <3>1, ChatsStay
  <2>7. LooksHold'
    <3>1. \A j \in (1..MaxLooks) \ {l} : looks[j].for # 0 => looks[j].for # n
      BY DEF LooksHold, n
    <3>2. \A j \in (1..MaxLooks) \ {l} :
              looks[j].for # 0 => makes'[looks[j].for] = makes[looks[j].for]
      BY <2>3, <3>1 DEF ComposerTyped, LookStates
    <3>3. looks'[l] = NoLook /\ \A j \in (1..MaxLooks) \ {l} : looks'[j] = looks[j]
      BY <1>4, <1>9
    <3>4. QED
      BY <1>3, <1>5, <3>2, <3>3 DEF LooksHold
  <2>8. MakesHold'
    <3>1. SUFFICES ASSUME NEW m \in 2..MaxChats, m # n
                   PROVE  LET k == makes[m]
                          IN  /\ k.at \in {"created", "placing", "placed", "going"} =>
                                    k.chat \in Composed /\ madeFor[k.chat] = k.text
                              /\ k.at \in {"placing", "placed"} => k.dir # NoDir
                              /\ k.at \in {"placed", "going"} /\ k.dir # NoDir =>
                                    k.dir \in hadDirs[k.chat]
                              /\ k.at = "going" => \E j \in 1..MaxLooks : looks'[j].for = m
      BY <1>5, <2>1, <2>3 DEF MakesHold
    <3>2. makes[m].at = "going" => \E j \in (1..MaxLooks) \ {l} : looks[j].for = m
      BY <3>1 DEF MakesHold, n
    <3>3. makes[m].at = "going" => \E j \in 1..MaxLooks : looks'[j].for = m
      BY <1>4, <1>9, <3>2
    <3>4. QED
      BY <3>3 DEF MakesHold
  <2>9. TextsHold'
    <3>1. \A c \in Composed : inbox[c] \subseteq 1..MaxTexts
      BY DEF ChatsHold
    <3>2. \A t \in 1..MaxTexts : text'[t].at = "sending" => text'[t] = text[t]
      BY <2>4
    <3>3. \A c \in Composed : \A t \in inbox[c] :
              text'[t].at # "draft" /\ (text'[t].typedIn = c \/ madeFor[c] = t)
      BY <2>4, <3>1 DEF TextsHold
    <3>4. QED
      BY <1>5, <3>2, <3>3 DEF TextsHold
  <2>10. ShownHolds'
    BY <1>1, <1>5, <1>9 DEF ShownHolds, inView
  <2>11. QED
    BY <2>5, <2>6, <2>7, <2>8, <2>9, <2>10
<1>10. QED
  BY <1>7, <1>8, <1>9

\* A make takes a place that is free.
LEMMA NewMakeShape ==
    ASSUME ComposerTyped, NEW t \in 0..MaxTexts, NEW d \in PickedDirs \cup {NoDir},
           NewMake(t, d)
    PROVE  /\ makes' \in [2..MaxChats -> MakeStates]
           /\ Past(makes) \subseteq Past(makes')
           /\ \A m \in 2..MaxChats :
                 \/ makes'[m] = makes[m]
                 \/ makes[m].at = "none" /\ makes'[m].at = "creating"
<1> DEFINE S == FreeMakes
           r == [at |-> "creating", text |-> t, dir |-> d, chat |-> 0]
<1>1. S \in SUBSET (2..MaxChats) /\ S \in SUBSET Nat /\ S # {}
  BY DEF ComposerTyped, FreeMakes, NewMake
<1>2. \A n \in S : makes[n].at = "none"
  BY DEF FreeMakes
<1> HIDE DEF S
<1>3. Min(S) \in S
  BY <1>1, MinProperties
<1> DEFINE n == Min(S)
<1>4. r \in MakeStates /\ r.at = "creating"
  BY DEF MakeStates
<1>5. makes' = [makes EXCEPT ![n] = r]
  BY DEF NewMake, S
<1>6. n \in 2..MaxChats /\ makes[n].at = "none"
  BY <1>1, <1>2, <1>3
<1> HIDE DEF r, n
<1>7. /\ makes' \in [2..MaxChats -> MakeStates] /\ makes'[n] = r
      /\ \A m \in 2..MaxChats : m # n => makes'[m] = makes[m]
  BY <1>4, <1>5, <1>6 DEF ComposerTyped
<1>8. Past(makes) \subseteq Past(makes')
  BY <1>6, <1>7 DEF Past, ComposerTyped
<1>9. QED
  BY <1>4, <1>6, <1>7, <1>8

\* What has not been sent to the server changes nothing of the chats or looks.
LEMMA NewMakeKeeps ==
    ASSUME ComposerInv, makes' \in [2..MaxChats -> MakeStates],
           Past(makes) \subseteq Past(makes'),
           \A m \in 2..MaxChats :
              \/ makes'[m] = makes[m]
              \/ makes[m].at = "none" /\ makes'[m].at = "creating",
           UNCHANGED <<atServer, inView, looks, save>>
    PROVE  ChatsHold' /\ LooksHold' /\ MakesHold' /\ ShownHolds'
<1> USE DEF ComposerInv
<1>1. Composed' = Composed /\ UNCHANGED <<hadDirs, madeFor, inbox>>
      /\ UNCHANGED <<openNow, shownDir, strayed>>
  BY DEF Composed, atServer, inView
<1>2. ChatsHold'
  BY ChatsStay
<1>3. LooksHold'
  <2>1. \A l \in 1..MaxLooks :
            looks[l].for # 0 => makes'[looks[l].for] = makes[looks[l].for]
    <3>1. SUFFICES ASSUME NEW l \in 1..MaxLooks, looks[l].for # 0
                   PROVE  makes'[looks[l].for] = makes[looks[l].for]
      OBVIOUS
    <3>2. looks[l].for \in 2..MaxChats
      BY <3>1 DEF ComposerTyped, LookStates
    <3>3. makes[looks[l].for].at = "going"
      BY <3>1 DEF LooksHold
    <3>4. QED
      BY <3>2, <3>3
  <2>2. QED
    BY <1>1, <2>1 DEF LooksHold
<1>4. MakesHold'
  BY <1>1 DEF MakesHold
<1>5. ShownHolds'
  BY <1>1 DEF ShownHolds
<1>6. QED
  BY <1>2, <1>3, <1>4, <1>5

\* A directory is picked for a new chat.
LEMMA ConfirmKeeps ==
    ASSUME ComposerInv, NEW d \in PickedDirs, Confirm(d)
    PROVE  ComposerInv'
<1> USE DEF ComposerInv
<1>1. NewMake(0, d) /\ Deed /\ UNCHANGED <<atServer, inView, looks, text, save>>
  BY DEF Confirm
<1>2. 0 \in 0..MaxTexts
  BY ComposerAssumption
<1>3. /\ makes' \in [2..MaxChats -> MakeStates] /\ Past(makes) \subseteq Past(makes')
      /\ \A m \in 2..MaxChats :
            \/ makes'[m] = makes[m]
            \/ makes[m].at = "none" /\ makes'[m].at = "creating"
  BY <1>1, <1>2, NewMakeShape
<1>4. ChatsHold' /\ LooksHold' /\ MakesHold' /\ ShownHolds'
  BY <1>1, <1>3, NewMakeKeeps
<1>5. deeds' \in 0..MaxDeeds /\ flops' \in 0..MaxFlops
  BY <1>1, ComposerAssumption DEF ComposerTyped, Deed
<1>6. ComposerTyped'
  BY <1>1, <1>3, <1>5 DEF ComposerTyped, inView, atServer, Composed
<1>7. TextsHold'
  BY <1>1 DEF TextsHold, atServer, Composed
<1>8. QED
  BY <1>4, <1>6, <1>7

\* A message is sent from the chat that is open, or makes one.
LEMMA SubmitKeeps ==
    ASSUME ComposerInv, NEW t \in 1..MaxTexts, Submit(t)
    PROVE  ComposerInv'
<1> USE DEF ComposerInv
<1>1. text[t].at = "draft" /\ Deed /\ UNCHANGED <<atServer, inView, looks, save>>
  BY DEF Submit
<1>2. /\ Composed' = Composed /\ UNCHANGED <<hadDirs, madeFor, inbox>>
      /\ UNCHANGED <<openNow, shownDir, strayed>>
  BY <1>1 DEF Composed, atServer, inView
<1>3. /\ makes' \in [2..MaxChats -> MakeStates] /\ Past(makes) \subseteq Past(makes')
      /\ \A m \in 2..MaxChats :
            \/ makes'[m] = makes[m]
            \/ makes[m].at = "none" /\ makes'[m].at = "creating"
  <2>1. CASE openNow # 0
    BY <2>1 DEF Submit, ComposerTyped
  <2>2. CASE openNow = 0
    <3>1. NewMake(t, NoDir) /\ t \in 0..MaxTexts
      BY <2>2, ComposerAssumption DEF Submit
    <3>2. QED
      BY <3>1, NewMakeShape
  <2>3. QED
    BY <2>1, <2>2
<1>4. ChatsHold' /\ LooksHold' /\ MakesHold' /\ ShownHolds'
  BY <1>1, <1>3, NewMakeKeeps
<1>5. deeds' \in 0..MaxDeeds /\ flops' \in 0..MaxFlops
  BY <1>1, ComposerAssumption DEF ComposerTyped, Deed
<1>6. PICK s \in TextStates :
          /\ text' = [text EXCEPT ![t] = s]
          /\ \/ s.at = "sending" /\ s.to \in Composed /\ s.typedIn = s.to
             \/ s.at = "waiting"
  <2>1. CASE openNow # 0
    <3> DEFINE s == [at |-> "sending", typedIn |-> openNow, to |-> openNow]
    <3>1. openNow \in Composed /\ openNow \in Nat
      BY <2>1, ChatsAreNumbered DEF ComposerTyped
    <3>2. s \in TextStates /\ s.at = "sending" /\ s.to \in Composed /\ s.typedIn = s.to
      BY <3>1 DEF TextStates
    <3>3. text' = [text EXCEPT ![t] = s]
      BY <2>1 DEF Submit
    <3> HIDE DEF s
    <3>4. QED
      BY <3>2, <3>3
  <2>2. CASE openNow = 0
    <3> DEFINE s == [text[t] EXCEPT !.at = "waiting"]
    <3>1. s \in TextStates /\ s.at = "waiting"
      BY DEF ComposerTyped, TextStates
    <3>2. text' = [text EXCEPT ![t] = s]
      BY <2>2 DEF Submit, ComposerTyped
    <3> HIDE DEF s
    <3>3. QED
      BY <3>1, <3>2
  <2>3. QED
    BY <2>1, <2>2
<1>7. /\ text' \in [1..MaxTexts -> TextStates] /\ text'[t] = s
      /\ \A x \in 1..MaxTexts : x # t => text'[x] = text[x]
  BY <1>6 DEF ComposerTyped
<1>8. ComposerTyped'
  BY <1>1, <1>2, <1>3, <1>5, <1>7 DEF ComposerTyped
<1>9. TextsHold'
  <2>1. \A c \in Composed : inbox[c] \subseteq 1..MaxTexts /\ t \notin inbox[c]
    BY <1>1 DEF ChatsHold, TextsHold
  <2>2. QED
    BY <1>2, <1>6, <1>7, <2>1 DEF TextsHold
<1>10. QED
  BY <1>4, <1>8, <1>9

\* A make that waits for no look goes on: to a state of no look, and no chat.
LEMMA OneMakeMoves ==
    ASSUME ComposerInv, NEW n \in 2..MaxChats, makes[n].at # "going",
           NEW r \in MakeStates, r.at \notin {"none", "creating", "going"},
           makes' = [makes EXCEPT ![n] = r],
           r.at \in {"created", "placing", "placed"} =>
              /\ r.chat \in Composed' /\ madeFor'[r.chat] = r.text
              /\ r.at # "created" => r.dir # NoDir
              /\ r.at = "placed" => r.dir \in hadDirs'[r.chat],
           Composed \subseteq Composed',
           \A c \in Composed : hadDirs[c] \subseteq hadDirs'[c] /\ madeFor'[c] = madeFor[c],
           UNCHANGED looks
    PROVE  /\ makes' \in [2..MaxChats -> MakeStates] /\ Past(makes) \subseteq Past(makes')
           /\ n \in Past(makes') /\ LooksHold' /\ MakesHold'
<1> USE DEF ComposerInv
<1>1. /\ makes' \in [2..MaxChats -> MakeStates] /\ makes'[n] = r
      /\ \A m \in 2..MaxChats : m # n => makes'[m] = makes[m]
  BY DEF ComposerTyped
<1>2. Past(makes) \subseteq Past(makes') /\ n \in Past(makes')
  BY <1>1 DEF Past, ComposerTyped
<1>3. LooksHold'
  <2>1. ASSUME NEW l \in 1..MaxLooks
        PROVE  LET k == looks[l]
               IN  /\ k = NoLook \/ (k.at # "none" /\ k.of \in Composed')
                   /\ k.at = "answered" => k.dir \in hadDirs'[k.of]
                   /\ k.for # 0 => makes'[k.for].at = "going" /\ makes'[k.for].chat = k.of
    <3>1. looks[l].for # 0 => makes'[looks[l].for] = makes[looks[l].for]
      <4>1. SUFFICES ASSUME looks[l].for # 0
                     PROVE  makes'[looks[l].for] = makes[looks[l].for]
        OBVIOUS
      <4>2. looks[l].for \in 2..MaxChats
        BY <4>1 DEF ComposerTyped, LookStates
      <4>3. makes[looks[l].for].at = "going"
        BY <4>1 DEF LooksHold
      <4>4. QED
        BY <1>1, <4>2, <4>3
    <3>2. looks[l] = NoLook \/ (looks[l].at # "none" /\ looks[l].of \in Composed)
      BY DEF LooksHold
    <3>3. looks[l].at = "answered" => looks[l].dir \in hadDirs'[looks[l].of]
      BY <3>2 DEF LooksHold, NoLook
    <3>4. QED
      BY <3>1, <3>2, <3>3 DEF LooksHold
  <2>2. QED
    BY <2>1 DEF LooksHold
<1>4. MakesHold'
  <2>1. ASSUME NEW m \in 2..MaxChats
        PROVE  LET k == makes'[m]
               IN  /\ k.at \in {"created", "placing", "placed", "going"} =>
                         k.chat \in Composed' /\ madeFor'[k.chat] = k.text
                   /\ k.at \in {"placing", "placed"} => k.dir # NoDir
                   /\ k.at \in {"placed", "going"} /\ k.dir # NoDir =>
                         k.dir \in hadDirs'[k.chat]
                   /\ k.at = "going" => \E j \in 1..MaxLooks : looks[j].for = m
    <3>1. CASE m = n
      BY <1>1, <3>1
    <3>2. CASE m # n
      <4>1. makes'[m] = makes[m]
        BY <1>1, <3>2
      <4>2. makes[m].at \in {"created", "placing", "placed", "going"} =>
                makes[m].chat \in Composed
        BY DEF MakesHold
      <4>3. QED
        BY <4>1, <4>2 DEF MakesHold
    <3>3. QED
      BY <3>1, <3>2
  <2>2. QED
    BY <2>1 DEF MakesHold
<1>5. QED
  BY <1>1, <1>2, <1>3, <1>4

\* The server makes a chat.
LEMMA MakeArrivesKeeps ==
    ASSUME ComposerInv, NEW n \in 2..MaxChats, MakeArrives(n)
    PROVE  ComposerInv'
<1> USE DEF ComposerInv
<1> DEFINE c == Cardinality(Composed) + 1
           r == [makes[n] EXCEPT !.at = "created", !.chat = c]
<1>1. makes[n].at = "creating" /\ UNCHANGED <<inView, looks, text, save, deeds, flops>>
  BY DEF MakeArrives, Fine
<1>2. PICK k \in 1..(1 + Cardinality(Past(makes))) : Composed = 1..k
  BY DEF ChatsHold
<1>3. Cardinality(Past(makes)) \in Nat /\ IsFiniteSet(Past(makes))
  BY PastIsFinite DEF ComposerTyped
<1>4. k \in Nat /\ k >= 1
  BY <1>2, <1>3
<1>5. Cardinality(Composed) = k
  <2>1. 1 \in Int /\ k \in Int /\ k >= 1
    BY <1>4
  <2>2. Cardinality(1..k) = k
    BY <2>1, FS_Interval
  <2>3. QED
    BY <1>2, <2>2
<1>6. c = k + 1 /\ c \in Nat /\ c \notin Composed /\ Composed \cup {c} = 1..c
  BY <1>2, <1>4, <1>5
<1>7. /\ dirOf' = [x \in Composed \cup {c} |-> IF x = c THEN HomeDir ELSE dirOf[x]]
      /\ hadDirs' = [x \in Composed \cup {c} |-> IF x = c THEN {HomeDir} ELSE hadDirs[x]]
      /\ inbox' = [x \in Composed \cup {c} |-> IF x = c THEN {} ELSE inbox[x]]
      /\ madeFor' = [x \in Composed \cup {c} |-> IF x = c THEN makes[n].text ELSE madeFor[x]]
      /\ makes' = [makes EXCEPT ![n] = r]
  BY DEF MakeArrives, ComposerTyped
<1>8. makes[n] \in MakeStates
  BY DEF ComposerTyped
<1>9. /\ r \in MakeStates /\ r.at = "created" /\ r.chat = c /\ r.text = makes[n].text
      /\ r.text \in 0..MaxTexts
  BY <1>6, <1>8 DEF MakeStates
<1> HIDE DEF r, c
<1>10. Composed' = Composed \cup {c}
  BY <1>7 DEF Composed
<1>11. /\ \A x \in Composed : /\ hadDirs'[x] = hadDirs[x] /\ madeFor'[x] = madeFor[x]
                              /\ inbox'[x] = inbox[x] /\ dirOf'[x] = dirOf[x]
       /\ madeFor'[c] = r.text /\ inbox'[c] = {} /\ hadDirs'[c] = {HomeDir}
       /\ dirOf'[c] = HomeDir
  BY <1>6, <1>7, <1>9
<1>12. /\ makes' \in [2..MaxChats -> MakeStates] /\ Past(makes) \subseteq Past(makes')
       /\ n \in Past(makes') /\ LooksHold' /\ MakesHold'
  <2>1. r.chat \in Composed' /\ madeFor'[r.chat] = r.text
    BY <1>9, <1>10, <1>11
  <2>2. Composed \subseteq Composed' /\ \A x \in Composed :
            hadDirs[x] \subseteq hadDirs'[x] /\ madeFor'[x] = madeFor[x]
    BY <1>10, <1>11
  <2> HIDE DEF ComposerInv
  <2>3. QED
    BY <1>1, <1>7, <1>9, <2>1, <2>2, OneMakeMoves
<1>13. ChatsHold'
  <2>1. Cardinality(Past(makes)) < Cardinality(Past(makes'))
    <3>1. n \notin Past(makes)
      BY <1>1 DEF Past
    <3>2. IsFiniteSet(Past(makes')) /\ Cardinality(Past(makes')) \in Nat
      BY <1>12, PastIsFinite
    <3>3. Past(makes) \cup {n} \subseteq Past(makes')
      BY <1>12
    <3>4. Cardinality(Past(makes) \cup {n}) = Cardinality(Past(makes)) + 1
      BY <1>3, <3>1, FS_AddElement
    <3>5. Cardinality(Past(makes) \cup {n}) <= Cardinality(Past(makes'))
      BY <3>2, <3>3, FS_Subset
    <3>6. QED
      BY <1>3, <3>2, <3>4, <3>5
  <2>2. Cardinality(Past(makes')) \in Nat
    BY <1>12, PastIsFinite
  <2>3. c \in 1..(1 + Cardinality(Past(makes'))) /\ Composed' = 1..c
    BY <1>2, <1>3, <1>6, <1>10, <2>1, <2>2
  <2>4. dirOf' \in [Composed' -> Places] /\ hadDirs' \in [Composed' -> SUBSET Places]
    BY <1>6, <1>7, <1>10 DEF ChatsHold, Places
  <2>5. inbox' \in [Composed' -> SUBSET (1..MaxTexts)]
    BY <1>6, <1>7, <1>10 DEF ChatsHold
  <2>6. madeFor' \in [Composed' -> 0..MaxTexts]
    BY <1>6, <1>7, <1>9, <1>10 DEF ChatsHold
  <2>7. \A x \in Composed' : dirOf'[x] \in hadDirs'[x]
    BY <1>10, <1>11 DEF ChatsHold
  <2>8. QED
    BY <2>3, <2>4, <2>5, <2>6, <2>7 DEF ChatsHold
<1>14. ComposerTyped'
  BY <1>1, <1>10, <1>12 DEF ComposerTyped, inView
<1>15. TextsHold'
  <2>1. \A t \in 1..MaxTexts :
           text[t].at = "sending" =>
              /\ text[t].to \in Composed
              /\ text[t].typedIn = text[t].to \/ madeFor'[text[t].to] = t
    BY <1>11 DEF TextsHold
  <2>2. \A x \in Composed' : \A t \in inbox'[x] :
            text[t].at # "draft" /\ (text[t].typedIn = x \/ madeFor'[x] = t)
    BY <1>10, <1>11 DEF TextsHold
  <2>3. QED
    BY <1>1, <1>10, <2>1, <2>2 DEF TextsHold
<1>16. ShownHolds'
  BY <1>1, <1>10, <1>11, ChatsAreNumbered DEF ShownHolds, inView, ComposerTyped, NoSave
<1>17. QED
  BY <1>12, <1>13, <1>14, <1>15, <1>16

\* A chat is put in a directory.
LEMMA SetDirShape ==
    ASSUME ComposerTyped, ChatsHold, NEW c \in Composed, NEW d \in Places, SetDir(c, d),
           makes' \in [2..MaxChats -> MakeStates], Past(makes) \subseteq Past(makes')
    PROVE  /\ ChatsHold' /\ Composed' = Composed /\ UNCHANGED <<inbox, madeFor>>
           /\ d \in hadDirs'[c] /\ \A x \in Composed : hadDirs[x] \subseteq hadDirs'[x]
<1>1. /\ dirOf' = [dirOf EXCEPT ![c] = d]
      /\ hadDirs' = [hadDirs EXCEPT ![c] = hadDirs[c] \cup {d}]
      /\ UNCHANGED <<inbox, madeFor>>
  BY DEF SetDir
<1>2. Composed' = Composed
  BY <1>1 DEF Composed
<1>3. dirOf \in [Composed -> Places] /\ hadDirs \in [Composed -> SUBSET Places]
  BY DEF ChatsHold
<1>4. dirOf' \in [Composed -> Places] /\ hadDirs' \in [Composed -> SUBSET Places]
  BY <1>1, <1>3
<1>5. /\ \A x \in Composed : hadDirs'[x] = IF x = c THEN hadDirs[c] \cup {d} ELSE hadDirs[x]
      /\ \A x \in Composed : dirOf'[x] = IF x = c THEN d ELSE dirOf[x]
  BY <1>1, <1>3
<1>6. \E k \in 1..(1 + Cardinality(Past(makes'))) : Composed' = 1..k
  <2>1. PICK k \in 1..(1 + Cardinality(Past(makes))) : Composed = 1..k
    BY DEF ChatsHold
  <2>2. /\ Cardinality(Past(makes)) \in Nat /\ Cardinality(Past(makes')) \in Nat
        /\ Cardinality(Past(makes)) <= Cardinality(Past(makes'))
    BY PastIsFinite, FS_Subset DEF ComposerTyped
  <2>3. QED
    BY <1>2, <2>1, <2>2
<1>7. \A x \in Composed : dirOf'[x] \in hadDirs'[x]
  BY <1>5 DEF ChatsHold
<1>8. ChatsHold'
  BY <1>1, <1>2, <1>4, <1>6, <1>7 DEF ChatsHold
<1>9. QED
  BY <1>1, <1>2, <1>5, <1>8

\* The directory of a new chat arrives.
LEMMA PlaceArrivesKeeps ==
    ASSUME ComposerInv, NEW n \in 2..MaxChats, PlaceArrives(n)
    PROVE  ComposerInv'
<1> USE DEF ComposerInv
<1> DEFINE r == [makes[n] EXCEPT !.at = "placed"]
           c == makes[n].chat
           d == makes[n].dir
<1>1. /\ makes[n].at = "placing" /\ SetDir(c, d)
      /\ UNCHANGED <<inView, looks, text, save, deeds, flops>>
  BY DEF PlaceArrives, Fine
<1>2. makes' = [makes EXCEPT ![n] = r] /\ makes[n] \in MakeStates
  BY DEF PlaceArrives, ComposerTyped
<1>3. /\ r \in MakeStates /\ r.at = "placed" /\ r.chat = c /\ r.text = makes[n].text
      /\ r.dir = d
  BY <1>2 DEF MakeStates
<1>4. c \in Composed /\ madeFor[c] = makes[n].text /\ d \in PickedDirs /\ d # NoDir
  BY <1>1, <1>2 DEF MakesHold, MakeStates
<1> HIDE DEF r, c, d
<1>5. makes' \in [2..MaxChats -> MakeStates] /\ Past(makes) \subseteq Past(makes')
  BY <1>2, <1>3 DEF Past, ComposerTyped
<1>6. /\ ChatsHold' /\ Composed' = Composed /\ UNCHANGED <<inbox, madeFor>>
      /\ d \in hadDirs'[c] /\ \A x \in Composed : hadDirs[x] \subseteq hadDirs'[x]
  BY <1>1, <1>4, <1>5, SetDirShape DEF Places
<1>7. LooksHold' /\ MakesHold'
  <2>1. r.chat \in Composed' /\ madeFor'[r.chat] = r.text /\ r.dir \in hadDirs'[r.chat]
        /\ r.dir # NoDir
    BY <1>3, <1>4, <1>6
  <2>2. Composed \subseteq Composed' /\ \A x \in Composed :
            hadDirs[x] \subseteq hadDirs'[x] /\ madeFor'[x] = madeFor[x]
    BY <1>6
  <2> HIDE DEF ComposerInv
  <2>3. QED
    BY <1>1, <1>2, <1>3, <2>1, <2>2, OneMakeMoves
<1>8. ComposerTyped'
  BY <1>1, <1>5, <1>6 DEF ComposerTyped, inView
<1>9. TextsHold'
  BY <1>1, <1>6 DEF TextsHold
<1>10. ShownHolds'
  BY <1>1, <1>6 DEF ShownHolds, inView, ComposerTyped, NoSave
<1>11. QED
  BY <1>6, <1>7, <1>8, <1>9, <1>10

\* A make goes to its chat.
LEMMA MakeGoes ==
    ASSUME ComposerInv, NEW n \in 2..MaxChats, makes[n].at \in {"created", "placing", "placed"},
           NEW r \in MakeStates, r.at = "going", r.chat = makes[n].chat,
           r.text = makes[n].text, r.dir # NoDir => r.dir \in hadDirs[r.chat],
           makes' = [makes EXCEPT ![n] = r], GoTo(makes[n].chat, n, looks),
           UNCHANGED <<atServer, text, save>>, Fine \/ Flop
    PROVE  ComposerInv'
<1> USE DEF ComposerInv
<1>1. makes[n].chat \in Composed /\ madeFor[makes[n].chat] = makes[n].text
  BY DEF MakesHold
<1>2. looks \in [1..MaxLooks -> LookStates] /\ n \in {0} \cup 2..MaxChats
  BY DEF ComposerTyped
<1>3. /\ openNow' = makes[n].chat /\ shownDir' = NoDir /\ strayed' = FALSE
      /\ looks' \in [1..MaxLooks -> LookStates]
      /\ \E f \in 1..MaxLooks : Takes(f, makes[n].chat, n, looks)
  BY <1>1, <1>2, GoToShape
<1>4. PICK f \in 1..MaxLooks : Takes(f, makes[n].chat, n, looks)
  BY <1>3
<1>5. /\ looks[f].of = 0 /\ looks'[f].of = makes[n].chat /\ looks'[f].at = "asked"
      /\ looks'[f].for = n /\ \A l \in (1..MaxLooks) \ {f} : looks'[l] = looks[l]
  BY <1>4 DEF Takes
<1>6. looks[f].for = 0
  BY <1>5, ChatsAreNumbered DEF LooksHold, NoLook
<1>7. /\ makes' \in [2..MaxChats -> MakeStates] /\ makes'[n] = r
      /\ \A m \in 2..MaxChats : m # n => makes'[m] = makes[m]
  BY DEF ComposerTyped
<1>8. Composed' = Composed /\ UNCHANGED <<hadDirs, madeFor, inbox>>
  BY DEF Composed, atServer
<1>9. \A l \in 1..MaxLooks : looks[l].for # n
  <2>1. n # 0
    OBVIOUS
  <2>2. QED
    BY <2>1 DEF LooksHold
<1>10. ComposerTyped'
  <2>1. deeds' \in 0..MaxDeeds /\ flops' \in 0..MaxFlops
    BY ComposerAssumption DEF ComposerTyped, Fine, Flop
  <2>2. QED
    BY <1>1, <1>3, <1>7, <1>8, <2>1 DEF ComposerTyped
<1>11. ChatsHold'
  <2>1. Past(makes) \subseteq Past(makes')
    BY <1>7 DEF Past, ComposerTyped
  <2>2. QED
    BY <1>7, <2>1, ChatsStay
<1>12. LooksHold'
  <2>1. ASSUME NEW l \in 1..MaxLooks
        PROVE  LET k == looks'[l]
               IN  /\ k = NoLook \/ (k.at # "none" /\ k.of \in Composed)
                   /\ k.at = "answered" => k.dir \in hadDirs[k.of]
                   /\ k.for # 0 => makes'[k.for].at = "going" /\ makes'[k.for].chat = k.of
    <3>1. CASE l = f
      BY <1>1, <1>5, <1>7, <3>1
    <3>2. CASE l # f
      <4>1. looks'[l] = looks[l] /\ looks[l].for # n /\ looks[l] \in LookStates
        BY <1>2, <1>5, <1>9, <3>2
      <4>2. looks[l].for # 0 => makes'[looks[l].for] = makes[looks[l].for]
        BY <1>7, <4>1 DEF LookStates
      <4>3. QED
        BY <4>1, <4>2 DEF LooksHold
    <3>3. QED
      BY <3>1, <3>2
  <2>2. \A i, j \in 1..MaxLooks :
            looks'[i].for = looks'[j].for /\ looks'[i].for # 0 => i = j
    BY <1>5, <1>9 DEF LooksHold
  <2>3. QED
    BY <1>8, <2>1, <2>2 DEF LooksHold
<1>13. MakesHold'
  <2>1. ASSUME NEW m \in 2..MaxChats, makes'[m].at = "going"
        PROVE  \E j \in 1..MaxLooks : looks'[j].for = m
    <3>1. CASE m = n
      BY <1>5, <3>1
    <3>2. CASE m # n
      <4>1. PICK j \in 1..MaxLooks : looks[j].for = m
        BY <1>7, <2>1, <3>2 DEF MakesHold
      <4>2. j # f
        BY <1>6, <4>1
      <4>3. QED
        BY <1>5, <4>1, <4>2
    <3>3. QED
      BY <3>1, <3>2
  <2>2. QED
    BY <1>1, <1>7, <1>8, <2>1 DEF MakesHold
<1>14. TextsHold'
  BY <1>8 DEF TextsHold
<1>15. ShownHolds'
  BY <1>3, <1>8 DEF ShownHolds
<1>16. QED
  BY <1>10, <1>11, <1>12, <1>13, <1>14, <1>15

\* A chat is made, or is in its directory: the make goes on.
LEMMA MadeKeeps ==
    ASSUME ComposerInv, NEW n \in 2..MaxChats, Made(n) \/ Placed(n)
    PROVE  ComposerInv'
<1> USE DEF ComposerInv
<1>1. /\ makes[n] \in MakeStates /\ makes \in [2..MaxChats -> MakeStates]
      /\ UNCHANGED <<atServer, text, save>>
  BY DEF ComposerTyped, Made, Placed
<1> DEFINE r == [makes[n] EXCEPT !.at = "going"]
           q == [makes[n] EXCEPT !.at = "going", !.dir = NoDir]
           p == [makes[n] EXCEPT !.at = "placing"]
<1>2. /\ r \in MakeStates /\ r.at = "going" /\ r.chat = makes[n].chat
      /\ r.text = makes[n].text /\ r.dir = makes[n].dir
  BY <1>1 DEF MakeStates
<1>3. /\ q \in MakeStates /\ q.at = "going" /\ q.chat = makes[n].chat
      /\ q.text = makes[n].text /\ q.dir = NoDir
  BY <1>1 DEF MakeStates
<1>4. /\ p \in MakeStates /\ p.at = "placing" /\ p.chat = makes[n].chat
      /\ p.text = makes[n].text /\ p.dir = makes[n].dir
  BY <1>1 DEF MakeStates
<1>5. \/ /\ makes[n].at = "created" /\ makes[n].dir # NoDir /\ Fine
         /\ makes' = [makes EXCEPT ![n] = p] /\ UNCHANGED <<inView, looks>>
      \/ /\ makes[n].at = "created" /\ makes[n].dir = NoDir /\ Fine
         /\ makes' = [makes EXCEPT ![n] = r] /\ GoTo(makes[n].chat, n, looks)
      \/ /\ makes[n].at = "placed" /\ Fine
         /\ makes' = [makes EXCEPT ![n] = r] /\ GoTo(makes[n].chat, n, looks)
      \/ /\ makes[n].at \in {"placing", "placed"} /\ Flop
         /\ makes' = [makes EXCEPT ![n] = q] /\ GoTo(makes[n].chat, n, looks)
  BY <1>1 DEF Made, Placed
<1> HIDE DEF r, q, p
<1>6. CASE /\ makes[n].at = "created" /\ makes[n].dir # NoDir /\ Fine
           /\ makes' = [makes EXCEPT ![n] = p] /\ UNCHANGED <<inView, looks>>
  <2>1. Composed' = Composed /\ UNCHANGED <<hadDirs, madeFor, inbox>>
        /\ UNCHANGED <<openNow, shownDir, strayed, deeds, flops>>
    BY <1>1, <1>6 DEF Composed, atServer, inView, Fine
  <2>2. makes[n].chat \in Composed /\ madeFor[makes[n].chat] = makes[n].text
    BY <1>6 DEF MakesHold
  <2>3. p.chat \in Composed' /\ madeFor'[p.chat] = p.text /\ p.dir # NoDir
    BY <1>4, <1>6, <2>1, <2>2
  <2>4. Composed \subseteq Composed' /\ \A x \in Composed :
            hadDirs[x] \subseteq hadDirs'[x] /\ madeFor'[x] = madeFor[x]
    BY <2>1
  <2>5. /\ makes' \in [2..MaxChats -> MakeStates] /\ Past(makes) \subseteq Past(makes')
        /\ LooksHold' /\ MakesHold'
    <3> HIDE DEF ComposerInv
    <3>1. QED
      BY <1>4, <1>6, <2>3, <2>4, OneMakeMoves
  <2>6. ChatsHold'
    BY <1>1, <2>5, ChatsStay
  <2>7. ComposerTyped'
    BY <1>1, <1>6, <2>1, <2>5 DEF ComposerTyped
  <2>8. TextsHold' /\ ShownHolds'
    BY <1>1, <2>1 DEF TextsHold, ShownHolds
  <2>9. QED
    BY <2>5, <2>6, <2>7, <2>8
<1>7. makes[n].at = "placed" /\ makes[n].dir # NoDir => makes[n].dir \in hadDirs[makes[n].chat]
  BY DEF MakesHold
<1>8. QED
  <2> HIDE DEF ComposerInv
  <2>1. QED
    BY <1>1, <1>2, <1>3, <1>5, <1>6, <1>7, MakeGoes

\* A make fails, and its message with it.
LEMMA MakeFailsKeeps ==
    ASSUME ComposerInv, NEW n \in 2..MaxChats, MakeFails(n)
    PROVE  ComposerInv'
<1> USE DEF ComposerInv
<1> DEFINE d == [NoMake EXCEPT !.at = "done"]
           t == makes[n].text
<1>1. d \in MakeStates /\ d.at = "done"
  BY ComposerAssumption DEF NoMake, MakeStates
<1>2. /\ makes[n].at \in {"creating", "created"} /\ Flop
      /\ makes' = [makes EXCEPT ![n] = d] /\ UNCHANGED <<atServer, inView, looks, save>>
  BY DEF MakeFails
<1>3. /\ Composed' = Composed /\ UNCHANGED <<hadDirs, madeFor, inbox>>
      /\ UNCHANGED <<openNow, shownDir, strayed>>
  BY <1>2 DEF Composed, atServer, inView
<1> HIDE DEF d
<1>4. /\ makes' \in [2..MaxChats -> MakeStates] /\ Past(makes) \subseteq Past(makes')
      /\ LooksHold' /\ MakesHold'
  <2>1. Composed \subseteq Composed' /\ \A x \in Composed :
            hadDirs[x] \subseteq hadDirs'[x] /\ madeFor'[x] = madeFor[x]
    BY <1>3
  <2> HIDE DEF ComposerInv
  <2>2. QED
    BY <1>1, <1>2, <2>1, OneMakeMoves
<1>5. /\ text' \in [1..MaxTexts -> TextStates]
      /\ \A x \in 1..MaxTexts :
            \/ text'[x] = text[x]
            \/ text'[x].at = "lost" /\ text'[x].typedIn = text[x].typedIn
  <2> DEFINE s == [text[t] EXCEPT !.at = "lost"]
  <2>1. CASE t = 0
    BY <2>1 DEF MakeFails, ComposerTyped
  <2>2. CASE t # 0
    <3>1. t \in 1..MaxTexts
      BY <2>2, ComposerAssumption DEF ComposerTyped, MakeStates
    <3>2. s \in TextStates /\ s.at = "lost" /\ s.typedIn = text[t].typedIn
      BY <3>1 DEF ComposerTyped, TextStates
    <3>3. text' = [text EXCEPT ![t] = s]
      BY <2>2 DEF MakeFails, ComposerTyped
    <3> HIDE DEF s, t
    <3>4. QED
      BY <3>1, <3>2, <3>3 DEF ComposerTyped
  <2>3. QED
    BY <2>1, <2>2
<1>6. deeds' \in 0..MaxDeeds /\ flops' \in 0..MaxFlops
  BY <1>2, ComposerAssumption DEF ComposerTyped, Flop
<1>7. ComposerTyped'
  BY <1>2, <1>3, <1>4, <1>5, <1>6 DEF ComposerTyped
<1>8. ChatsHold'
  BY <1>2, <1>4, ChatsStay
<1>9. TextsHold'
  <2>1. \A c \in Composed : inbox[c] \subseteq 1..MaxTexts
    BY DEF ChatsHold
  <2>2. \A x \in 1..MaxTexts : text'[x].at = "sending" => text'[x] = text[x]
    BY <1>5
  <2>3. \A c \in Composed : \A x \in inbox[c] :
            text'[x].at # "draft" /\ (text'[x].typedIn = c \/ madeFor[c] = x)
    BY <1>5, <2>1 DEF TextsHold
  <2>4. QED
    BY <1>3, <2>2, <2>3 DEF TextsHold
<1>10. ShownHolds'
  BY <1>2, <1>3 DEF ShownHolds
<1>11. QED
  BY <1>4, <1>7, <1>8, <1>9, <1>10

\* A message arrives in the chat it was sent to, or is lost.
LEMMA TextArrivesKeeps ==
    ASSUME ComposerInv, NEW t \in 1..MaxTexts, TextArrives(t)
    PROVE  ComposerInv'
<1> USE DEF ComposerInv
<1> DEFINE c == text[t].to
<1>1. /\ text[t].at = "sending"
      /\ UNCHANGED <<dirOf, hadDirs, madeFor, inView, looks, makes, save>>
  BY DEF TextArrives
<1>2. c \in Composed /\ (text[t].typedIn = c \/ madeFor[c] = t)
  BY <1>1 DEF TextsHold
<1>3. PICK at \in {"sent", "lost"} : text' = [text EXCEPT ![t].at = at]
  BY DEF TextArrives
<1>4. inbox' = inbox \/ inbox' = [inbox EXCEPT ![c] = inbox[c] \cup {t}]
  BY DEF TextArrives
<1> HIDE DEF c
<1>5. deeds' \in 0..MaxDeeds /\ flops' \in 0..MaxFlops
  BY ComposerAssumption DEF TextArrives, ComposerTyped, Flop, Fine
<1> DEFINE s == [text[t] EXCEPT !.at = at]
<1>6. s \in TextStates /\ s.at = at /\ s.typedIn = text[t].typedIn
  BY DEF ComposerTyped, TextStates
<1>7. text' = [text EXCEPT ![t] = s]
  BY <1>3 DEF ComposerTyped
<1> HIDE DEF s
<1>8. /\ text' \in [1..MaxTexts -> TextStates] /\ text'[t] = s
      /\ \A x \in 1..MaxTexts : x # t => text'[x] = text[x]
  BY <1>6, <1>7 DEF ComposerTyped
<1>9. inbox \in [Composed -> SUBSET (1..MaxTexts)]
  BY DEF ChatsHold
<1>10. /\ inbox' \in [Composed -> SUBSET (1..MaxTexts)]
       /\ \A x \in Composed : inbox'[x] = inbox[x] \/ (x = c /\ inbox'[x] = inbox[x] \cup {t})
  BY <1>4, <1>9
<1>11. Composed' = Composed
  BY <1>1 DEF Composed
<1>12. ComposerTyped'
  BY <1>1, <1>5, <1>8, <1>11 DEF ComposerTyped, inView
<1>13. ChatsHold'
  BY <1>1, <1>10, <1>11 DEF ChatsHold
<1>14. LooksHold' /\ MakesHold' /\ ShownHolds'
  BY <1>1, <1>11 DEF LooksHold, MakesHold, ShownHolds, inView
<1>15. TextsHold'
  <2>1. \A x \in 1..MaxTexts : text'[x].at = "sending" => text'[x] = text[x]
    BY <1>6, <1>8
  <2>2. \A x \in 1..MaxTexts : text'[x].typedIn = text[x].typedIn
                               /\ (text[x].at # "draft" => text'[x].at # "draft")
    BY <1>6, <1>8
  <2>3. ASSUME NEW y \in Composed, NEW x \in inbox'[y]
        PROVE  text'[x].at # "draft" /\ (text'[x].typedIn = y \/ madeFor[y] = x)
    <3>1. CASE x \in inbox[y]
      <4>1. x \in 1..MaxTexts
        BY <1>9, <3>1
      <4>2. QED
        BY <2>2, <3>1, <4>1 DEF TextsHold
    <3>2. CASE x \notin inbox[y]
      <4>1. y = c /\ x = t
        BY <1>10, <3>2
      <4>2. QED
        BY <1>1, <1>2, <2>2, <4>1
    <3>3. QED
      BY <3>1, <3>2
  <2>4. QED
    BY <1>1, <1>11, <2>1, <2>3 DEF TextsHold
<1>16. QED
  BY <1>12, <1>13, <1>14, <1>15

\* The directory of the open chat is saved, and shown whatever is open by then.
LEMMA SaveKeeps ==
    ASSUME ComposerInv,
           (\E d \in PickedDirs : StartSave(d)) \/ SaveArrives \/ Saved \/ SaveFails
    PROVE  ComposerInv'
<1> USE DEF ComposerInv
<1>1. UNCHANGED <<looks, makes, text>>
  BY DEF StartSave, SaveArrives, Saved, SaveFails
<1>2. NoSave \in SaveStates /\ NoSave.at = "none"
  BY DEF NoSave, SaveStates
<1>3. makes \in [2..MaxChats -> MakeStates] /\ save \in SaveStates
  BY DEF ComposerTyped
<1>4. CASE \E d \in PickedDirs : StartSave(d)
  <2>1. PICK d \in PickedDirs : StartSave(d)
    BY <1>4
  <2>2. openNow \in Composed /\ openNow \in Nat
    BY <2>1, ChatsAreNumbered DEF StartSave, ComposerTyped
  <2>3. d # NoDir
    BY ComposerAssumption
  <2> DEFINE s == [at |-> "asked", of |-> openNow, dir |-> d]
  <2>4. s \in SaveStates /\ s.at = "asked" /\ s.of = openNow /\ s.dir = d
    BY <2>2 DEF SaveStates
  <2>5. save' = s /\ Deed /\ UNCHANGED <<atServer, inView, looks, makes, text>>
    BY <2>1 DEF StartSave
  <2> HIDE DEF s
  <2>6. /\ Composed' = Composed /\ UNCHANGED <<hadDirs, madeFor, inbox>>
        /\ UNCHANGED <<openNow, shownDir, strayed>>
    BY <2>5 DEF Composed, atServer, inView
  <2>7. deeds' \in 0..MaxDeeds /\ flops' \in 0..MaxFlops
    BY <2>5, ComposerAssumption DEF ComposerTyped, Deed
  <2>8. ComposerTyped'
    BY <1>1, <2>4, <2>5, <2>6, <2>7 DEF ComposerTyped
  <2>9. ChatsHold'
    BY <1>1, <1>3, <2>5, ChatsStay
  <2>10. LooksHold' /\ MakesHold' /\ TextsHold'
    BY <1>1, <2>6 DEF LooksHold, MakesHold, TextsHold
  <2>11. ShownHolds'
    BY <2>2, <2>3, <2>4, <2>5, <2>6 DEF ShownHolds
  <2>12. QED
    BY <2>8, <2>9, <2>10, <2>11
<1>5. CASE SaveArrives
  <2> DEFINE s == [save EXCEPT !.at = "answered"]
  <2>1. /\ save.at = "asked" /\ save' = s /\ SetDir(save.of, save.dir)
        /\ UNCHANGED <<inView, deeds, flops>>
    BY <1>5 DEF SaveArrives, Fine
  <2>2. save.of \in Composed /\ save.dir \in PickedDirs /\ save.dir # NoDir
    BY <1>3, <2>1 DEF ShownHolds, SaveStates, NoSave
  <2>3. s \in SaveStates /\ s.at = "answered" /\ s.of = save.of /\ s.dir = save.dir
    BY <1>3 DEF SaveStates
  <2> HIDE DEF s
  <2>4. /\ ChatsHold' /\ Composed' = Composed /\ UNCHANGED <<inbox, madeFor>>
        /\ save.dir \in hadDirs'[save.of]
        /\ \A x \in Composed : hadDirs[x] \subseteq hadDirs'[x]
    BY <1>1, <1>3, <2>1, <2>2, SetDirShape DEF Places
  <2>5. ComposerTyped'
    BY <1>1, <2>1, <2>3, <2>4 DEF ComposerTyped, inView
  <2>6. LooksHold'
    BY <1>1, <2>4 DEF LooksHold, NoLook
  <2>7. MakesHold' /\ TextsHold'
    BY <1>1, <2>4 DEF MakesHold, TextsHold
  <2>8. ShownHolds'
    <3>1. openNow # 0 => openNow \in Composed
      BY DEF ComposerTyped
    <3>2. QED
      BY <2>1, <2>2, <2>3, <2>4, <3>1 DEF ShownHolds, inView
  <2>9. QED
    BY <2>4, <2>5, <2>6, <2>7, <2>8
<1>6. CASE Saved \/ SaveFails
  <2>1. save' = NoSave /\ UNCHANGED <<atServer, openNow>>
    BY <1>6 DEF Saved, SaveFails, inView
  <2>2. Composed' = Composed /\ UNCHANGED <<hadDirs, madeFor, inbox>>
    BY <2>1 DEF Composed, atServer
  <2>3. deeds' \in 0..MaxDeeds /\ flops' \in 0..MaxFlops
    BY <1>6, ComposerAssumption DEF Saved, SaveFails, ComposerTyped, Fine, Flop
  <2>4. \/ UNCHANGED <<shownDir, strayed>>
        \/ /\ save.at = "answered" /\ shownDir' = save.dir
           /\ strayed' = (openNow # save.of)
    BY <1>6 DEF Saved, SaveFails, inView
  <2>5. shownDir' \in Places \cup {NoDir} /\ strayed' \in BOOLEAN
    BY <1>3, <2>4 DEF ComposerTyped, SaveStates, Places
  <2>6. ComposerTyped'
    BY <1>1, <1>2, <2>1, <2>2, <2>3, <2>5 DEF ComposerTyped
  <2>7. ChatsHold'
    BY <1>1, <1>3, <2>1, ChatsStay
  <2>8. LooksHold' /\ MakesHold' /\ TextsHold'
    BY <1>1, <2>2 DEF LooksHold, MakesHold, TextsHold
  <2>9. ShownHolds'
    BY <1>2, <2>1, <2>2, <2>4 DEF ShownHolds
  <2>10. QED
    BY <2>6, <2>7, <2>8, <2>9
<1>7. QED
  BY <1>4, <1>5, <1>6

\* Each step of the user, of the calls and of their answers keeps it.
LEMMA ComposerStepInvariant == ComposerInv /\ [ComposerNext]_composerVars => ComposerInv'
<1> SUFFICES ASSUME ComposerInv, [ComposerNext]_composerVars PROVE ComposerInv'
  OBVIOUS
<1>1. DOMAIN looks = 1..MaxLooks /\ DOMAIN makes = 2..MaxChats /\ DOMAIN text = 1..MaxTexts
  BY DEF ComposerInv, ComposerTyped
<1>2. CASE UNCHANGED composerVars
  <2>1. /\ UNCHANGED <<atServer, dirOf, inbox, hadDirs, madeFor, openNow, shownDir, strayed>>
        /\ UNCHANGED <<looks, makes, text, save, deeds, flops>>
    BY <1>2 DEF composerVars, atServer, inView
  <2>2. Composed' = Composed /\ Past(makes) = Past(makes')
    BY <2>1 DEF Composed, Past
  <2>3. ComposerTyped'
    BY <2>1, <2>2 DEF ComposerInv, ComposerTyped
  <2>4. ChatsHold' /\ LooksHold'
    BY <2>1, <2>2 DEF ComposerInv, ChatsHold, LooksHold
  <2>5. MakesHold' /\ TextsHold' /\ ShownHolds'
    BY <2>1, <2>2 DEF ComposerInv, MakesHold, TextsHold, ShownHolds
  <2>6. QED
    BY <2>3, <2>4, <2>5 DEF ComposerInv
<1>3. CASE ComposerNext
  BY <1>1, <1>3, LookKeeps, LookArrivesKeeps, SeenKeeps, LookFailsKeeps, ConfirmKeeps,
     SubmitKeeps, TextArrivesKeeps, MakeArrivesKeeps, MadeKeeps, MakeFailsKeeps,
     PlaceArrivesKeeps, SaveKeeps DEF ComposerNext
<1>4. QED
  BY <1>2, <1>3

\* It implies what the runs check.
LEMMA ComposerInvariantSuffices == ComposerInv => ComposerTypeOK /\ ComposerSound
<1> SUFFICES ASSUME ComposerInv PROVE ComposerTypeOK /\ ComposerSound
  OBVIOUS
<1> USE DEF ComposerInv
<1>1. Composed \subseteq 1..MaxChats
  <2>1. PICK k \in 1..(1 + Cardinality(Past(makes))) : Composed = 1..k
    BY DEF ChatsHold
  <2>2. Cardinality(Past(makes)) \in Nat /\ 1 + Cardinality(Past(makes)) <= MaxChats
    BY PastIsFinite DEF ComposerTyped
  <2>3. QED
    BY <2>1, <2>2, ComposerAssumption
<1>2. /\ Range(dirOf) \subseteq PickedDirs \cup {HomeDir}
      /\ DOMAIN inbox = Composed /\ DOMAIN madeFor = Composed /\ DOMAIN hadDirs = Composed
  BY DEF ChatsHold, Range, Places, Composed
<1>3. openNow \in Composed \cup {0} /\ shownDir \in PickedDirs \cup {HomeDir, NoDir}
  BY DEF ComposerTyped, Places
<1>4. \A l \in DOMAIN looks : looks[l].at # "none" <=> looks[l].of \in Composed
  <2>1. 0 \notin Composed
    BY ChatsAreNumbered
  <2>2. DOMAIN looks = 1..MaxLooks
    BY DEF ComposerTyped
  <2>3. QED
    BY <2>1, <2>2 DEF LooksHold, NoLook
<1>5. \A n \in DOMAIN makes :
          makes[n].at = "going" <=> \E l \in DOMAIN looks : looks[l].for = n
  <2>1. DOMAIN looks = 1..MaxLooks /\ DOMAIN makes = 2..MaxChats
    BY DEF ComposerTyped
  <2>2. \A n \in 2..MaxChats : n # 0
    OBVIOUS
  <2>3. QED
    BY <2>1, <2>2 DEF LooksHold, MakesHold
<1>6. ComposerTypeOK
  BY <1>1, <1>2, <1>3, <1>4, <1>5 DEF ComposerTyped, ComposerTypeOK
<1>7. ComposerSound
  BY DEF TextsHold, ShownHolds, ComposerSound
<1>8. QED
  BY <1>6, <1>7

-----------------------------------------------------------------------------
(* The offline shell.                                                      *)

Shells == [shell : Builds \cup {0}, bundle : [Builds -> Bodies]]

ShellTypes ==
    /\ deployed \in [build : Builds, policy : Policies] /\ online \in BOOLEAN
    /\ worker \in Policies \cup {0} /\ installing \in Policies \cup {0}
    /\ precached \in BOOLEAN
    /\ caches \in [Policies -> Shells]
    /\ putting \in SUBSET Builds /\ (worker = 0 => putting = {})
    /\ past \in SUBSET Builds
    /\ page \in [build : Builds \cup {0}, got : Bodies \cup {"failed"}, steady : BOOLEAN]

\* The worker has the only cache, but for one that is being installed.
OneCache == worker = 0 \/ \A p \in Policies \ {worker, installing} : caches[p] = Empty

\* The builds that are still to come.
Ahead == Builds \ (past \cup {deployed.build})

\* Nothing that is kept or shown is of a build to come, and what is kept under
\* the name of the build of now is its bundle, if it was deployed only once.
NothingAhead ==
    /\ page.build \notin Ahead /\ putting \cap Ahead = {}
    /\ \A p \in Policies : caches[p].shell \notin Ahead
    /\ \A p \in Policies, b \in Ahead : caches[p].bundle[b] = "none"
    /\ deployed.build \notin past =>
          \A p \in Policies : caches[p].bundle[deployed.build] \in {"none", "bundle"}

ShellInv ==
    /\ ShellTypes /\ OneCache /\ NothingAhead
    /\ page.steady => online
    /\ FreshPageWorks

\* Builds and policies are numbered from one.
LEMMA Numbers ==
    /\ Builds \subseteq Nat /\ Policies \subseteq Nat
    /\ 0 \notin Builds /\ 0 \notin Policies /\ 1 \in Builds /\ 1 \in Policies
  BY ShellAssumption

\* A cache that has nothing.
LEMMA EmptyIsAShell ==
    /\ Empty \in Shells /\ Empty.shell = 0
    /\ \A b \in Builds : Empty.bundle[b] = "none"
  BY DEF Empty, Shells, Bodies

\* Before the first visit nothing is kept.
LEMMA ShellInitInvariant == ShellInit => ShellInv
<1> SUFFICES ASSUME ShellInit PROVE ShellInv
  OBVIOUS
<1>1. ShellTypes
  BY Numbers, EmptyIsAShell DEF ShellInit, ShellTypes, NoPage, Bodies
<1>2. NothingAhead
  BY Numbers, EmptyIsAShell DEF ShellInit, NothingAhead, Ahead, NoPage
<1>3. QED
  BY <1>1, <1>2 DEF ShellInit, ShellInv, OneCache, FreshPageWorks, NoPage

\* Each step of the server, the worker and the page keeps it.
LEMMA ShellStepInvariant == ShellInv /\ [ShellNext]_shellVars => ShellInv'
<1> SUFFICES ASSUME ShellInv, [ShellNext]_shellVars PROVE ShellInv'
  OBVIOUS
<1>1. CASE DeployBuild
  <2>1. /\ deployed' \in [build : Builds, policy : Policies]
        /\ deployed'.build # deployed.build
        /\ past' = past \cup {deployed.build}
    BY <1>1 DEF DeployBuild
  <2>2. /\ page' = [page EXCEPT !.steady = FALSE]
        /\ UNCHANGED <<online, worker, installing, precached, caches, putting>>
    BY <1>1 DEF DeployBuild
  <2>3. page' \in [build : Builds \cup {0}, got : Bodies \cup {"failed"}, steady : BOOLEAN]
        /\ page'.build = page.build /\ ~page'.steady
    BY <2>2 DEF ShellInv, ShellTypes
  <2>4. ShellTypes' /\ OneCache'
    BY <2>1, <2>2, <2>3 DEF ShellInv, ShellTypes, OneCache
  <2>5. NothingAhead'
    <3>1. Ahead' \subseteq Ahead /\ deployed.build \in Builds
      BY <2>1 DEF Ahead, ShellInv, ShellTypes
    <3>2. deployed'.build \notin past' => deployed'.build \in Ahead
      BY <2>1 DEF Ahead
    <3>3. QED
      BY <2>1, <2>2, <2>3, <3>1, <3>2 DEF ShellInv, NothingAhead
  <2>6. QED
    BY <2>3, <2>4, <2>5 DEF ShellInv, FreshPageWorks
<1>2. CASE NetworkChanges
  <2>1. /\ page' = [page EXCEPT !.steady = FALSE] /\ online' = ~online
        /\ UNCHANGED <<deployed, past, worker, installing, precached, caches, putting>>
    BY <1>2 DEF NetworkChanges
  <2>2. page' \in [build : Builds \cup {0}, got : Bodies \cup {"failed"}, steady : BOOLEAN]
        /\ page'.build = page.build /\ ~page'.steady
    BY <2>1 DEF ShellInv, ShellTypes
  <2>3. QED
    BY <2>1, <2>2 DEF ShellInv, ShellTypes, OneCache, NothingAhead, Ahead, FreshPageWorks
<1>3. CASE Register
  <2>1. /\ installing' \in Policies /\ precached' = FALSE
        /\ UNCHANGED <<deployed, past, online, worker, caches, putting, page>>
    BY <1>3 DEF Register, net, ShellInv, ShellTypes
  <2>2. ShellTypes'
    BY <2>1 DEF ShellInv, ShellTypes
  <2>3. OneCache'
    BY <1>3, <2>1, Numbers DEF Register, ShellInv, OneCache
  <2>4. QED
    BY <2>1, <2>2, <2>3 DEF ShellInv, NothingAhead, Ahead, FreshPageWorks
<1>4. CASE Precache
  <2>1. PICK s \in Shells :
          /\ caches' = [caches EXCEPT ![installing] = s]
          /\ s.shell \notin Ahead /\ s.bundle = caches[installing].bundle
    <3>1. caches[installing] \in Shells /\ deployed.build \in Builds
      BY <1>4 DEF Precache, ShellInv, ShellTypes
    <3> DEFINE s == [caches[installing] EXCEPT !.shell = deployed.build]
    <3>2. /\ s \in Shells /\ s.shell = deployed.build
          /\ s.bundle = caches[installing].bundle
      BY <3>1 DEF Shells
    <3>3. CASE online
      <4>1. caches' = [caches EXCEPT ![installing] = s]
        BY <1>4, <3>3 DEF Precache
      <4> HIDE DEF s
      <4>2. QED
        BY <3>2, <4>1 DEF Ahead
    <3>4. CASE ~online
      <4>1. caches' = [caches EXCEPT ![installing] = caches[installing]]
        BY <1>4, <3>4 DEF Precache, ShellInv, ShellTypes
      <4>2. QED
        BY <1>4, <3>1, <4>1 DEF Precache, ShellInv, ShellTypes, NothingAhead
    <3>5. QED
      BY <3>3, <3>4
  <2>2. installing \in Policies /\ precached' \in BOOLEAN
        /\ UNCHANGED <<deployed, past, online, worker, installing, putting, page>>
    BY <1>4 DEF Precache, net, ShellInv, ShellTypes
  <2>3. ShellTypes' /\ OneCache'
    BY <2>1, <2>2 DEF ShellInv, ShellTypes, OneCache
  <2>4. \A p \in Policies :
           /\ caches'[p].shell \notin Ahead
           /\ caches'[p].bundle = caches[p].bundle
    BY <2>1, <2>2 DEF ShellInv, ShellTypes, NothingAhead
  <2>5. QED
    BY <2>2, <2>3, <2>4 DEF ShellInv, NothingAhead, Ahead, FreshPageWorks
<1>5. CASE Activate
  <2>1. caches' \in [Policies -> Shells]
        /\ \A p \in Policies : caches'[p] = caches[p] \/ caches'[p] = Empty
    BY <1>5, EmptyIsAShell DEF Activate, ShellInv, ShellTypes
  <2>2. OneCache'
    BY <1>5 DEF Activate, ShellInv, ShellTypes, OneCache
  <2>3. NothingAhead'
    <3>1. Ahead' = Ahead /\ deployed' = deployed /\ past' = past /\ page' = page
          /\ putting' = {} /\ 0 \notin Ahead
      BY <1>5, Numbers DEF Activate, net, Ahead
    <3>2. \A p \in Policies : caches'[p].shell \notin Ahead
      BY <2>1, <3>1, EmptyIsAShell DEF ShellInv, NothingAhead
    <3>3. \A p \in Policies, b \in Ahead : caches'[p].bundle[b] = "none"
      BY <2>1, EmptyIsAShell DEF ShellInv, NothingAhead, Ahead
    <3>4. deployed.build \notin past =>
             \A p \in Policies : caches'[p].bundle[deployed.build] \in {"none", "bundle"}
      BY <2>1, EmptyIsAShell DEF ShellInv, ShellTypes, NothingAhead
    <3>5. QED
      BY <3>1, <3>2, <3>3, <3>4 DEF ShellInv, NothingAhead
  <2>4. QED
    BY <1>5, <2>1, <2>2, <2>3, Numbers DEF Activate, net, ShellInv, ShellTypes, FreshPageWorks
<1>6. CASE Navigate
  <2>1. /\ putting' \in SUBSET Builds /\ (worker = 0 => putting' = {})
        /\ putting' \cap Ahead = {}
    <3>1. \/ putting' = putting
          \/ worker # 0 /\ putting' = putting \cup {deployed.build}
      BY <1>6 DEF Navigate, Put
    <3>2. QED
      BY <3>1 DEF ShellInv, ShellTypes, NothingAhead, Ahead
  <2>2. /\ page' \in [build : Builds \cup {0}, got : Bodies \cup {"failed"},
                      steady : BOOLEAN]
        /\ page'.build \notin Ahead
        /\ page'.steady => online /\ page'.build = deployed.build /\ page'.got = "none"
    <3>1. CASE online /\ Shows(deployed.build, TRUE)
      BY <3>1 DEF Shows, ShellInv, ShellTypes, Ahead, Bodies
    <3>2. CASE worker # 0 /\ Shows(caches[worker].shell, FALSE)
      <4>1. caches[worker] \in Shells /\ caches[worker].shell \notin Ahead
        BY <3>2 DEF ShellInv, ShellTypes, NothingAhead
      <4>2. QED
        BY <3>2, <4>1 DEF Shows, Shells, Bodies
    <3>3. CASE page' = NoPage
      BY <3>3, Numbers DEF NoPage, Ahead, Bodies
    <3>4. QED
      BY <1>6, <3>1, <3>2, <3>3 DEF Navigate
  <2>3. QED
    BY <1>6, <2>1, <2>2
       DEF Navigate, net, ShellInv, ShellTypes, OneCache, NothingAhead, Ahead, FreshPageWorks
<1>7. CASE ShellKept
  <2>1. PICK b \in putting :
          /\ putting' = putting \ {b}
          /\ caches' = [caches EXCEPT ![worker].shell = b]
          /\ UNCHANGED <<net, worker, installing, precached, page>>
    BY <1>7 DEF ShellKept
  <2>2. b \in Builds /\ b \notin Ahead /\ worker \in Policies /\ caches[worker] \in Shells
    BY DEF ShellInv, ShellTypes, NothingAhead
  <2> DEFINE s == [caches[worker] EXCEPT !.shell = b]
  <2>3. s \in Shells /\ s.shell = b /\ s.bundle = caches[worker].bundle
    BY <2>2 DEF Shells
  <2>4. caches' = [caches EXCEPT ![worker] = s]
    BY <2>1
  <2> HIDE DEF s
  <2>5. ShellTypes' /\ OneCache'
    BY <2>1, <2>2, <2>3, <2>4 DEF net, ShellInv, ShellTypes, OneCache
  <2>6. \A p \in Policies :
           /\ caches'[p].shell \notin Ahead
           /\ caches'[p].bundle = caches[p].bundle
    BY <2>2, <2>3, <2>4 DEF ShellInv, ShellTypes, NothingAhead
  <2>7. QED
    BY <2>1, <2>5, <2>6 DEF net, ShellInv, NothingAhead, Ahead, FreshPageWorks
<1>8. CASE LoadBundle
  <2> DEFINE b == page.build
             kept == IF worker = 0 THEN "none" ELSE caches[worker].bundle[b]
             got == IF kept # "none" THEN kept ELSE IF online THEN Served(b) ELSE "failed"
  <2>1. /\ b \in Builds /\ b \notin Ahead /\ deployed.build \in Builds
        /\ page' = [page EXCEPT !.got = got]
        /\ UNCHANGED <<net, worker, installing, precached, putting>>
    BY <1>8 DEF LoadBundle, ShellInv, ShellTypes, NothingAhead
  <2>2. Served(b) \in Bodies /\ (b = deployed.build => Served(b) = "bundle")
    BY <2>1 DEF Served, Bodies
  <2>3. kept \in Bodies
    BY <2>1 DEF ShellInv, ShellTypes, Shells, Bodies
  <2>4. got \in Bodies \cup {"failed"}
    BY <2>2, <2>3
  <2>5. page.steady => deployed.build \in past \/ got \in {"none", "bundle"}
    BY <2>1, <2>2, Numbers DEF ShellInv, FreshPageWorks, NothingAhead, ShellTypes
  <2>6. /\ caches' \in [Policies -> Shells]
        /\ \A p \in Policies : caches'[p].shell = caches[p].shell
        /\ \A p \in Policies, c \in Builds :
              \/ caches'[p].bundle[c] = caches[p].bundle[c]
              \/ c = b /\ caches'[p].bundle[c] = Served(b)
        /\ \A p \in Policies : p # worker => caches'[p] = caches[p]
    <3>1. CASE worker # 0 /\ online
      <4>1. worker \in Policies /\ caches[worker] \in Shells
        BY <3>1 DEF ShellInv, ShellTypes
      <4> DEFINE s == [caches[worker] EXCEPT !.bundle[b] = Served(b)]
      <4>2. s \in Shells
        BY <2>1, <2>2, <4>1 DEF Shells
      <4>3. s.shell = caches[worker].shell
        BY <4>1 DEF Shells
      <4>4. \A c \in Builds :
               s.bundle[c] = IF c = b THEN Served(b) ELSE caches[worker].bundle[c]
        BY <2>1, <4>1 DEF Shells
      <4>5. caches' = [caches EXCEPT ![worker] = s]
        BY <1>8, <3>1 DEF LoadBundle
      <4> HIDE DEF s
      <4>6. QED
        BY <4>1, <4>2, <4>3, <4>4, <4>5 DEF ShellInv, ShellTypes
    <3>2. CASE ~(worker # 0 /\ online)
      BY <1>8, <3>2 DEF LoadBundle, ShellInv, ShellTypes
    <3>3. QED
      BY <3>1, <3>2
  <2>7. /\ page' \in [build : Builds \cup {0}, got : Bodies \cup {"failed"},
                      steady : BOOLEAN]
        /\ page'.build = page.build /\ page'.steady = page.steady /\ page'.got = got
    <3> HIDE DEF got
    <3>1. QED
      BY <2>1, <2>4 DEF ShellInv, ShellTypes
  <2>8. ShellTypes' /\ OneCache'
    BY <2>1, <2>6, <2>7 DEF net, ShellInv, ShellTypes, OneCache
  <2>9. NothingAhead'
    BY <2>1, <2>2, <2>6, <2>7 DEF net, ShellInv, NothingAhead, Ahead
  <2>10. QED
    BY <2>1, <2>5, <2>7, <2>8, <2>9 DEF net, ShellInv, FreshPageWorks
<1>9. CASE UNCHANGED shellVars
  BY <1>9
     DEF shellVars, net, ShellInv, ShellTypes, OneCache, NothingAhead, Ahead, FreshPageWorks
<1>10. QED
  BY <1>1, <1>2, <1>3, <1>4, <1>5, <1>6, <1>7, <1>8, <1>9 DEF ShellNext

\* It implies what the runs check.
LEMMA ShellInvariantSuffices == ShellInv => ShellTypeOK /\ FreshPageWorks
  BY DEF ShellInv, ShellTypes, ShellTypeOK, Shells, OneCache

-----------------------------------------------------------------------------
(* Skills.                                                                 *)

Copies == [stem : Stems, left : SUBSET Parts]
SeedingStates ==
    {NotSeeding} \cup [at : {"seeding"}, todo : SUBSET Entries, copy : {NoCopy} \cup Copies]

Copying == seeding.at = "seeding" /\ seeding.copy # NoCopy

\* Without its directory a bundle has no part, and nothing in it is on record; a
\* copy under way has nothing of the user's ahead of it.
SkillsInv ==
    /\ skillFile \in [Stems -> Texts] /\ skillDir \in [Stems -> [Parts -> Texts]]
    /\ skillDirs \in SUBSET Stems /\ seeding \in SeedingStates
    /\ edited \subseteq {<<s>> : s \in Stems} \cup (Stems \X Parts)
    /\ deleted \subseteq Stems \X Parts
    /\ \A s \in Stems \ skillDirs :
          skillDir[s] = Missing /\ \A p \in Parts : <<s, p>> \notin edited \cup deleted
    /\ Copying =>
          /\ seeding.copy.stem \in skillDirs
          /\ \A p \in seeding.copy.left : <<seeding.copy.stem, p>> \notin edited \cup deleted
    /\ EditsSurvive

\* What a seeding is made of.
LEMMA SeedingShape ==
    ASSUME seeding \in SeedingStates
    PROVE  /\ seeding.at \in {"seeding", "up"}
           /\ seeding.at = "seeding" =>
                 /\ seeding \in [at : {"seeding"}, todo : SUBSET Entries,
                                 copy : {NoCopy} \cup Copies]
                 /\ seeding.todo \subseteq Entries /\ seeding.copy \in {NoCopy} \cup Copies
                 /\ seeding.copy # NoCopy =>
                       seeding.copy.stem \in Stems /\ seeding.copy.left \subseteq Parts
           /\ seeding = NotSeeding => seeding.at = "up"
  BY DEF SeedingStates, NotSeeding, Copies

\* Before the first seeding there is nothing to lose.
LEMMA SkillsInitInvariant == SkillsInit => SkillsInv
<1> SUFFICES ASSUME SkillsInit PROVE SkillsInv
  OBVIOUS
<1>1. seeding \in SeedingStates /\ ~Copying
  BY DEF SkillsInit, BootSeeding, SeedingStates, Copying
<1>2. skillDir \in [Stems -> [Parts -> Texts]]
  BY DEF SkillsInit, Missing, Texts
<1>3. QED
  BY <1>1, <1>2 DEF SkillsInit, SkillsInv, EditsSurvive, Texts

\* An entry of the repository is seeded where there is none, and over nothing
\* that the user has written.
LEMMA SeedFileKeeps ==
    ASSUME SkillsInv, NEW s \in Stems, SeedFile(s)
    PROVE  SkillsInv'
<1>1. seeding' \in SeedingStates /\ ~Copying'
  BY SeedingShape DEF SeedFile, SkillsInv, SeedingStates, Copying
<1>2. skillFile' \in [Stems -> Texts]
  BY DEF SeedFile, SkillsInv, Texts
<1>3. EditsSurvive'
  BY DEF SeedFile, history, SkillsInv, EditsSurvive
<1>4. UNCHANGED <<skillDir, skillDirs, edited, deleted>>
  BY DEF SeedFile, history
<1>5. QED
  BY <1>1, <1>2, <1>3, <1>4 DEF SkillsInv

\* So is a bundle, part by part.
LEMMA SeedBundleKeeps ==
    ASSUME SkillsInv, NEW s \in Stems, SeedBundle(s)
    PROVE  SkillsInv'
<1> DEFINE copy == [stem |-> s, left |-> Parts]
<1>1. copy \in Copies /\ copy.stem = s /\ copy.left = Parts
  BY DEF Copies
<1>2. seeding' \in SeedingStates /\ (Copying' => ~Present(s) /\ seeding'.copy = copy)
  BY <1>1, SeedingShape DEF SeedBundle, SkillsInv, SeedingStates, Copying
<1> HIDE DEF copy
<1>3. ~Present(s) => \A p \in Parts : <<s, p>> \notin edited \cup deleted
  BY DEF Present, SkillsInv
<1>4. skillDirs' = skillDirs \cup {s} /\ UNCHANGED <<skillFile, skillDir, edited, deleted>>
  BY DEF SeedBundle, history
<1>5. QED
  BY <1>1, <1>2, <1>3, <1>4 DEF SkillsInv, EditsSurvive

\* A part of a bundle is copied where the user has none.
LEMMA CopyPartKeeps ==
    ASSUME SkillsInv, NEW p \in Parts, CopyPart(p)
    PROVE  SkillsInv'
<1> DEFINE s == seeding.copy.stem
           left == seeding.copy.left \ {p}
           rest == [stem |-> s, left |-> left]
<1>1. /\ seeding.at = "seeding" /\ seeding.copy # NoCopy /\ p \in seeding.copy.left
      /\ s \in Stems /\ seeding.copy.left \subseteq Parts
      /\ s \in skillDirs /\ \A q \in seeding.copy.left : <<s, q>> \notin edited \cup deleted
  BY SeedingShape DEF CopyPart, SkillsInv, Copying
<1>2. rest \in Copies /\ rest.stem = s /\ rest.left = left
  BY <1>1 DEF Copies
<1>3. /\ seeding' = [seeding EXCEPT !.copy = IF left = {} THEN NoCopy ELSE rest]
      /\ skillDir' = [skillDir EXCEPT ![s][p] = "seed"]
      /\ UNCHANGED <<skillFile, skillDirs, edited, deleted>>
  BY DEF CopyPart, history
<1> HIDE DEF rest
<1>4. seeding' \in SeedingStates /\ (Copying' => seeding'.copy = rest)
  BY <1>1, <1>2, <1>3, SeedingShape DEF SkillsInv, SeedingStates, Copying
<1>5. skillDir' \in [Stems -> [Parts -> Texts]]
  BY <1>1, <1>3 DEF SkillsInv, Texts
<1>6. \A t \in Stems, q \in Parts : t # s \/ q # p => skillDir'[t][q] = skillDir[t][q]
  BY <1>1, <1>3 DEF SkillsInv
<1>7. EditsSurvive'
  BY <1>1, <1>3, <1>6 DEF SkillsInv, EditsSurvive
<1>8. \A t \in Stems \ skillDirs : skillDir'[t] = skillDir[t]
  BY <1>1, <1>3 DEF SkillsInv
<1>9. QED
  BY <1>1, <1>2, <1>3, <1>4, <1>5, <1>7, <1>8 DEF SkillsInv

\* While the server is up, an edit is on record, and a deletion takes it off.
LEMMA EditSkillFileKeeps ==
    ASSUME SkillsInv, NEW s \in Stems, NEW words \in {"none", "own", "misnamed"},
           EditSkillFile(s, words)
    PROVE  SkillsInv'
<1>1. seeding = NotSeeding /\ UNCHANGED <<skillDir, skillDirs, deleted, seeding>>
      /\ ~Copying'
  BY SeedingShape DEF EditSkillFile, SkillsInv, Copying
<1>2. skillFile' \in [Stems -> Texts]
  BY DEF EditSkillFile, SkillsInv, Texts
<1>3. \A t \in Stems : <<t>> \in edited' =>
          IF t = s THEN words \in {"own", "misnamed"} ELSE <<t>> \in edited
  BY DEF EditSkillFile
<1>4. \A t \in Stems, p \in Parts : <<t, p>> \in edited' => <<t, p>> \in edited
  BY DEF EditSkillFile
<1>5. edited' \subseteq {<<t>> : t \in Stems} \cup (Stems \X Parts)
  BY DEF EditSkillFile, SkillsInv
<1>6. EditsSurvive'
  BY <1>1, <1>3, <1>4 DEF EditSkillFile, SkillsInv, EditsSurvive
<1>7. QED
  BY <1>1, <1>2, <1>4, <1>5, <1>6 DEF SkillsInv

\* The same for a part of a bundle that is written,
LEMMA WritePartKeeps ==
    ASSUME SkillsInv, NEW s \in Stems, NEW p \in Parts, NEW words \in {"own", "misnamed"},
           WritePart(s, p, words)
    PROVE  SkillsInv'
<1>1. UNCHANGED <<skillFile, seeding>> /\ ~Copying'
  BY SeedingShape DEF WritePart, SkillsInv, Copying
<1>2. skillDir' \in [Stems -> [Parts -> Texts]]
  BY DEF WritePart, SkillsInv, Texts
<1>3. /\ skillDirs' = skillDirs \cup {s} /\ edited' = edited \cup {<<s, p>>}
      /\ deleted' = deleted \ {<<s, p>>}
  BY DEF WritePart
<1>4. \A t \in Stems, q \in Parts :
          skillDir'[t][q] = IF t = s /\ q = p THEN words ELSE skillDir[t][q]
  BY DEF WritePart, SkillsInv
<1>5. \A t \in Stems \ {s} : skillDir'[t] = skillDir[t]
  BY DEF WritePart, SkillsInv
<1>6. EditsSurvive'
  BY <1>1, <1>3, <1>4 DEF SkillsInv, EditsSurvive
<1>7. QED
  BY <1>1, <1>2, <1>3, <1>5, <1>6 DEF SkillsInv

\* and for one that is deleted,
LEMMA DeletePartKeeps ==
    ASSUME SkillsInv, NEW s \in Stems, NEW p \in Parts, DeletePart(s, p)
    PROVE  SkillsInv'
<1>1. UNCHANGED <<skillFile, skillDirs, seeding>> /\ ~Copying' /\ skillDir[s][p] # "none"
  BY SeedingShape DEF DeletePart, SkillsInv, Copying
<1>2. skillDir' \in [Stems -> [Parts -> Texts]]
  BY DEF DeletePart, SkillsInv, Texts
<1>3. edited' = edited \ {<<s, p>>} /\ deleted' = deleted \cup {<<s, p>>}
  BY DEF DeletePart
<1>4. \A t \in Stems, q \in Parts :
          skillDir'[t][q] = IF t = s /\ q = p THEN "none" ELSE skillDir[t][q]
  BY DEF DeletePart, SkillsInv
<1>5. \A t \in Stems \ {s} : skillDir'[t] = skillDir[t]
  BY DEF DeletePart, SkillsInv
<1>6. s \in skillDirs
  BY <1>1 DEF SkillsInv, Missing
<1>7. EditsSurvive'
  BY <1>1, <1>3, <1>4 DEF SkillsInv, EditsSurvive
<1>8. QED
  BY <1>1, <1>2, <1>3, <1>5, <1>6, <1>7 DEF SkillsInv

\* and for a directory that goes.
LEMMA DeleteSkillDirKeeps ==
    ASSUME SkillsInv, NEW s \in Stems, DeleteSkillDir(s)
    PROVE  SkillsInv'
<1> DEFINE parts == {<<s, p>> : p \in Parts}
<1>1. UNCHANGED <<skillFile, seeding>> /\ ~Copying'
  BY SeedingShape DEF DeleteSkillDir, SkillsInv, Copying
<1>2. /\ skillDir' = [skillDir EXCEPT ![s] = Missing] /\ skillDirs' = skillDirs \ {s}
      /\ edited' = edited \ parts /\ deleted' = deleted \ parts
  BY DEF DeleteSkillDir
<1>3. Missing \in [Parts -> Texts]
  BY DEF Missing, Texts
<1>4. skillDir' \in [Stems -> [Parts -> Texts]]
  BY <1>2, <1>3 DEF SkillsInv
<1>5. \A t \in Stems : skillDir'[t] = IF t = s THEN Missing ELSE skillDir[t]
  BY <1>2 DEF SkillsInv
<1>6. /\ \A p \in Parts : <<s, p>> \notin edited' \cup deleted'
      /\ \A t \in Stems, p \in Parts : t # s =>
            /\ <<t, p>> \in edited' <=> <<t, p>> \in edited
            /\ <<t, p>> \in deleted' <=> <<t, p>> \in deleted
      /\ \A t \in Stems : <<t>> \in edited' => <<t>> \in edited
  BY <1>2
<1>7. EditsSurvive'
  BY <1>1, <1>5, <1>6 DEF SkillsInv, EditsSurvive
<1>8. QED
  BY <1>1, <1>2, <1>4, <1>5, <1>6, <1>7 DEF SkillsInv

\* Each step of the boot and of whoever edits keeps it.
LEMMA SkillsStepInvariant == SkillsInv /\ [SkillsNext]_skillVars => SkillsInv'
<1> SUFFICES ASSUME SkillsInv, [SkillsNext]_skillVars PROVE SkillsInv'
  OBVIOUS
<1>1. CASE Seeded
  BY <1>1 DEF Seeded, history, SkillsInv, SeedingStates, Copying, NotSeeding, EditsSurvive
<1>2. CASE SkillsRestart
  BY <1>2
     DEF SkillsRestart, history, SkillsInv, SeedingStates, BootSeeding, Copying, EditsSurvive
<1>3. CASE UNCHANGED skillVars
  BY <1>3 DEF skillVars, history, SkillsInv, Copying, EditsSurvive
<1>4. QED
  BY <1>1, <1>2, <1>3, SeedFileKeeps, SeedBundleKeeps, CopyPartKeeps, EditSkillFileKeeps,
     WritePartKeeps, DeletePartKeeps, DeleteSkillDirKeeps DEF SkillsNext

\* It implies what the runs check.
LEMMA SkillsInvariantSuffices == SkillsInv => SkillsTypeOK /\ EditsSurvive
  BY SeedingShape DEF SkillsInv, SkillsTypeOK

-----------------------------------------------------------------------------
(* Models and credentials.                                                 *)

AskerStates ==
    {NoAsker} \cup [at : {"refreshing"}, provider : Providers,
                    file : [Providers -> 0..(MaxLogins + 1)]]

\* A session runs on a model that resolved since the boot, and the catalog is
\* the static one or that of the account at boot.
CatalogInv ==
    /\ CatalogTypeOK
    /\ askers \in [KeyAskers -> AskerStates] /\ logins \in 0..MaxLogins
    /\ catalog \in {EmptyCatalog, Merged(atBoot)}
    /\ \A s \in Sessions : runsOn[s] = NoModel \/ Resolves(runsOn[s])

\* What resolves in a catalog with Copilot's answer, Copilot has answered.
LEMMA ResolvedIsOffered ==
    ASSUME catalog = Merged(atBoot), atBoot \subseteq OfCopilot,
           NEW m \in OfCopilot, Resolves(m)
    PROVE  m \in atBoot
  BY DEF Resolves, InOverlay, Merged, Template

\* The merge adds no model of the static catalog, and prunes none but Copilot's.
LEMMA MergedTypes ==
    ASSUME NEW live \in SUBSET OfCopilot
    PROVE  /\ \A t \in Merged(live).overlay : t.model \in OfCopilot \ Static
           /\ Merged(live).prunedIds \subseteq OfCopilot \cap Static
  BY DEF Merged, Template

\* Before the first boot nothing runs.
LEMMA CatalogInitInvariant == CatalogInit => CatalogInv
<1> SUFFICES ASSUME CatalogInit PROVE CatalogInv
  OBVIOUS
<1>1. auth \in [Providers -> 0..(MaxLogins + 1)] /\ logins \in 0..MaxLogins
  BY CatalogAssumption DEF CatalogInit
<1>2. QED
  BY <1>1 DEF CatalogInit, CatalogInv, CatalogTypeOK, AskerStates, EmptyCatalog

\* Only a boot changes the catalog; what a session runs on is then what resolves.
LEMMA SessionsKeep ==
    ASSUME CatalogInv, UNCHANGED <<offered, atBoot, catalog, auth, askers, logins>>,
           pinned' \in [Sessions -> Models \cup {NoModel}],
           runsOn' \in [Sessions -> Models \cup {NoModel}],
           \A s \in Sessions :
              runsOn'[s] = runsOn[s] \/ runsOn'[s] = NoModel \/ Resolves(runsOn'[s])
    PROVE  CatalogInv'
<1>1. CatalogTypeOK' /\ catalog' \in {EmptyCatalog, Merged(atBoot')}
  BY DEF CatalogInv, CatalogTypeOK
<1>2. \A s \in Sessions : (runsOn[s] = NoModel \/ Resolves(runsOn[s]))'
  BY DEF CatalogInv, Resolves, InOverlay
<1>3. QED
  BY <1>1, <1>2 DEF CatalogInv

\* The catalog and what the sessions run on stay.
LEMMA AccountsKeep ==
    ASSUME CatalogInv, UNCHANGED <<atBoot, catalog, pinned, runsOn>>,
           offered' \subseteq OfCopilot, auth' \in [Providers -> 0..(MaxLogins + 1)],
           askers' \in [KeyAskers -> AskerStates], logins' \in 0..MaxLogins
    PROVE  CatalogInv'
  BY DEF CatalogInv, CatalogTypeOK, Resolves, InOverlay

\* Each step of the server, of the account and of the command line keeps it.
LEMMA CatalogStepInvariant == CatalogInv /\ [CatalogNext]_catVars => CatalogInv'
<1> SUFFICES ASSUME CatalogInv, [CatalogNext]_catVars PROVE CatalogInv'
  OBVIOUS
<1>1. CASE Boot
  <2>1. atBoot' \subseteq OfCopilot /\ catalog' \in {EmptyCatalog, Merged(atBoot')}
    BY <1>1 DEF Boot, Load, CatalogInv, CatalogTypeOK
  <2>2. /\ \A t \in catalog'.overlay : t.model \in OfCopilot \ Static
        /\ catalog'.prunedIds \subseteq OfCopilot \cap Static
    BY <2>1, MergedTypes DEF EmptyCatalog
  <2>3. /\ runsOn' = [s \in Sessions |-> NoModel] /\ askers' = [c \in KeyAskers |-> NoAsker]
        /\ UNCHANGED <<offered, pinned, auth, logins>>
    BY <1>1 DEF Boot
  <2>4. QED
    BY <2>1, <2>2, <2>3 DEF CatalogInv, CatalogTypeOK, AskerStates
<1>2. ASSUME NEW s \in Sessions, NEW m \in Models, CreateSession(s, m) \/ PickModel(s, m)
      PROVE  CatalogInv'
  BY <1>2, SessionsKeep DEF CreateSession, PickModel, CatalogInv, CatalogTypeOK
<1>3. ASSUME NEW s \in Sessions, OpenPinned(s) PROVE CatalogInv'
  <2>1. SessionModel(pinned[s]) \in Models /\ Resolves(SessionModel(pinned[s]))
    BY <1>3, CatalogAssumption DEF OpenPinned, Opens, SessionModel, CatalogInv, CatalogTypeOK
  <2>2. QED
    BY <1>3, <2>1, SessionsKeep DEF OpenPinned, CatalogInv, CatalogTypeOK
<1>4. ASSUME NEW c \in KeyAskers, NEW p \in Providers, ReadAuth(c, p) PROVE CatalogInv'
  <2>1. [at |-> "refreshing", provider |-> p, file |-> auth] \in AskerStates
    BY DEF AskerStates, CatalogInv, CatalogTypeOK
  <2>2. askers' \in [KeyAskers -> AskerStates]
    BY <1>4, <2>1 DEF ReadAuth, CatalogInv
  <2>3. QED
    BY <1>4, <2>2, AccountsKeep DEF ReadAuth, CatalogInv, CatalogTypeOK
<1>5. ASSUME NEW c \in KeyAskers, WriteAuth(c) PROVE CatalogInv'
  <2>1. askers[c] \in AskerStates \ {NoAsker}
    BY <1>5 DEF WriteAuth, CatalogInv
  <2>2. askers[c].file \in [Providers -> 0..(MaxLogins + 1)]
    BY <2>1 DEF AskerStates
  <2>3. askers' \in [KeyAskers -> AskerStates]
    BY <1>5 DEF WriteAuth, CatalogInv, AskerStates
  <2>4. QED
    BY <1>5, <2>2, <2>3, AccountsKeep DEF WriteAuth, CatalogInv, CatalogTypeOK
<1>6. CASE OfferChanges
  BY <1>6, AccountsKeep DEF OfferChanges, CatalogInv, CatalogTypeOK
<1>7. ASSUME NEW p \in Providers, NEW login \in BOOLEAN, CliLogs(p, login)
      PROVE  CatalogInv'
  <2>1. logins' \in 0..MaxLogins /\ logins + 2 \in 0..(MaxLogins + 1)
    BY <1>7, CatalogAssumption DEF CliLogs, CatalogInv
  <2>2. 0 \in 0..(MaxLogins + 1)
    BY CatalogAssumption
  <2>3. auth' \in [Providers -> 0..(MaxLogins + 1)]
    BY <1>7, <2>1, <2>2 DEF CliLogs, CatalogInv, CatalogTypeOK
  <2>4. QED
    BY <1>7, <2>1, <2>3, AccountsKeep DEF CliLogs, CatalogInv, CatalogTypeOK
<1>8. CASE UNCHANGED catVars
  BY <1>8 DEF catVars, CatalogInv, CatalogTypeOK, Resolves, InOverlay
<1>9. QED
  BY <1>1, <1>2, <1>3, <1>4, <1>5, <1>6, <1>7, <1>8 DEF CatalogNext

\* It implies what the runs check.
LEMMA CatalogInvariantSuffices == CatalogInv => CatalogTypeOK /\ SessionsStayUsable
<1> SUFFICES ASSUME CatalogInv PROVE SessionsStayUsable
  BY DEF CatalogInv
<1>1. Up /\ Resolves(Default) => \A s \in Sessions : pinned[s] = NoModel \/ Opens(s)
  BY DEF Opens, SessionModel
<1>2. ASSUME catalog # EmptyCatalog, NEW s \in Sessions, runsOn[s] \in OfCopilot
      PROVE  runsOn[s] \in atBoot
  <2>1. catalog = Merged(atBoot) /\ atBoot \subseteq OfCopilot
    BY <1>2 DEF CatalogInv, CatalogTypeOK
  <2>2. runsOn[s] # NoModel
    BY <1>2, CatalogAssumption DEF OfCopilot, NoModel
  <2>3. Resolves(runsOn[s])
    BY <2>2 DEF CatalogInv
  <2>4. QED
    BY <1>2, <2>1, <2>3, ResolvedIsOffered
<1>3. QED
  BY <1>1, <1>2 DEF SessionsStayUsable

-----------------------------------------------------------------------------
(* The size of a context.                                                  *)

Roles == {"user", "answer", "tool", "aborted", "failed", "overflow", "note", "summary"}
ContextMessages == [role : Roles, size : Nat, text : Nat, usage : Nat]

TextFits(c) == \A i \in 1..Len(c) : c[i].text <= c[i].size

\* A refused prompt waits for its recovery, which comes once: after one, only a
\* turn that went well or a message of the user allows the next.
RefusedWaits ==
    enabled /\ context # <<>> /\ context[Len(context)].role = "overflow" =>
        /\ stage # "idle"
        /\ stage = "ended" => pendingComp = "reactive"

RecoveryOnce ==
    /\ pendingComp = "reactive" =>
          /\ stage \in {"ended", "compact_reactive_path"} /\ retried
          /\ stage = "ended" => recoveries = 0
    /\ stage = "calling" => pendingComp = "none"
    /\ stage = "compact_reactive_path" => retried
    /\ recoveries = 1 => retried \/ stage \in {"ended", "idle"}

SizeInv ==
    /\ enabled \in BOOLEAN /\ window \in Windows
    /\ context \in Seq(ContextMessages)
    /\ TextFits(context)
    /\ stage \in {"idle", "call", "calling", "ended", "compact_idle",
                  "compact_inner_loop", "compact_reactive_path"}
    /\ input \in Nat /\ (input # 0 => stage = "compact_idle")
    /\ pendingComp \in {"none", "proactive", "reactive"} /\ retried \in BOOLEAN
    /\ recoveries \in 0..1
    /\ RefusedWaits /\ RecoveryOnce

\* The sums of a sequence of naturals are naturals: by the least position where
\* they are not.
LEMMA TotalIsNat ==
    ASSUME NEW c \in Seq(ContextMessages)
    PROVE  Total(c, "size") \in Nat
<1> DEFINE n == Len(c)
           Sums(g, k) == g = [i \in 0..k |-> IF i = 0 THEN 0 ELSE g[i - 1] + c[i]["size"]]
           Without == {k \in 0..n : ~\E g : Sums(g, k)}
<1>1. n \in Nat /\ \A i \in 1..n : c[i]["size"] \in Nat
  <2>1. \A m \in ContextMessages : m["size"] \in Nat
    BY DEF ContextMessages
  <2>2. n \in Nat /\ \A i \in 1..n : c[i] \in ContextMessages
    OBVIOUS
  <2>3. QED
    BY <2>1, <2>2
<1> HIDE DEF n
<1>2. Without = {}
  <2>1. SUFFICES ASSUME Without # {} PROVE FALSE
    OBVIOUS
  <2>2. PICK k \in Without : \A j \in Without : k =< j
    <3>1. Without \in SUBSET Nat
      BY <1>1
    <3> HIDE DEF Without
    <3>2. QED
      BY <2>1, <3>1, MinProperties
  <2>3. k \in 0..n /\ ~\E g : Sums(g, k)
    BY <2>2
  <2>4. CASE k = 0
    <3> DEFINE g == [i \in 0..0 |-> 0]
    <3>1. Sums(g, 0)
      BY SMT
    <3>2. QED
      BY <2>3, <2>4, <3>1
  <2>5. CASE k # 0
    <3>1. k - 1 \in 0..n /\ k - 1 \notin Without
      <4>1. k - 1 \in 0..n /\ ~(k =< k - 1)
        BY <1>1, <2>3, <2>5
      <4> HIDE DEF Without
      <4>2. QED
        BY <2>2, <4>1
    <3>2. PICK f : Sums(f, k - 1)
      BY <3>1
    <3> DEFINE g == [i \in 0..k |-> IF i = k THEN f[k - 1] + c[k]["size"] ELSE f[i]]
    <3>3. ASSUME NEW i \in 0..k
          PROVE  g[i] = IF i = 0 THEN 0 ELSE g[i - 1] + c[i]["size"]
      BY <1>1, <2>3, <2>5, <3>2
    <3>4. g = [i \in 0..k |-> g[i]]
      OBVIOUS
    <3> HIDE DEF g
    <3>5. Sums(g, k)
      BY <3>3, <3>4
    <3>6. QED
      BY <2>3, <3>5
  <2>6. QED
    BY <2>4, <2>5
<1>3. \E g : Sums(g, n)
  <2>1. n \in 0..n
    BY <1>1
  <2> HIDE DEF Sums
  <2>2. QED
    BY <1>2, <2>1
<1> DEFINE sum == CHOOSE g : Sums(g, n)
<1>4. Sums(sum, n)
  BY <1>3
<1>5. Total(c, "size") = sum[n]
  BY DEF Total, n
<1> HIDE DEF sum
<1>6. \A i \in 0..n : sum[i] \in Nat
  <2> DEFINE Bad == {i \in 0..n : sum[i] \notin Nat}
  <2>1. SUFFICES ASSUME Bad # {} PROVE FALSE
    OBVIOUS
  <2>2. PICK k \in Bad : \A j \in Bad : k =< j
    <3>1. Bad \in SUBSET Nat
      BY <1>1
    <3> HIDE DEF Bad
    <3>2. QED
      BY <2>1, <3>1, MinProperties
  <2>3. sum[k] = IF k = 0 THEN 0 ELSE sum[k - 1] + c[k]["size"]
    BY <1>4, <2>2
  <2>4. k # 0 => k - 1 \in 0..n /\ k - 1 \notin Bad
    BY <1>1, <2>2
  <2>5. QED
    BY <1>1, <2>2, <2>3, <2>4
<1>7. QED
  BY <1>1, <1>5, <1>6

\* A context grows by one message.
LEMMA ContextGrows ==
    ASSUME NEW c \in Seq(ContextMessages), TextFits(c),
           NEW m \in ContextMessages, m.text <= m.size
    PROVE  /\ Append(c, m) \in Seq(ContextMessages) /\ TextFits(Append(c, m))
           /\ Append(c, m) # <<>> /\ Append(c, m)[Len(Append(c, m))] = m
<1>1. /\ Append(c, m) \in Seq(ContextMessages) /\ Len(Append(c, m)) = Len(c) + 1
      /\ \A i \in 1..Len(c) : Append(c, m)[i] = c[i]
      /\ Append(c, m)[Len(c) + 1] = m /\ Len(c) \in Nat
  BY AppendProperties
<1> DEFINE e == Append(c, m)
<1> HIDE DEF e
<1>2. \A i \in 1..Len(e) : IF i = Len(c) + 1 THEN e[i] = m
                           ELSE i \in 1..Len(c) /\ e[i] = c[i]
  BY <1>1 DEF e
<1>3. TextFits(e)
  BY <1>2 DEF TextFits
<1>4. e # <<>> /\ e[Len(e)] = m
  BY <1>1 DEF e
<1>5. QED
  BY <1>1, <1>3, <1>4 DEF e

\* What the code makes a message of.
LEMMA MsgType ==
    ASSUME NEW role \in Roles, NEW size \in Nat, NEW words \in Nat, NEW usage \in Nat
    PROVE  /\ Msg(role, size, words, usage) \in ContextMessages
           /\ Msg(role, size, words, usage).role = role
           /\ Msg(role, size, words, usage).text = words
           /\ Msg(role, size, words, usage).size = size
  BY DEF Msg, ContextMessages

\* Of a compaction, the summary and the recent messages are left.
LEMMA CompactedIsSmaller ==
    ASSUME context \in Seq(ContextMessages), TextFits(context), NEW n \in SummarySizes
    PROVE  Compacted(n) \in Seq(ContextMessages) /\ TextFits(Compacted(n))
<1> DEFINE m == Msg("summary", n, 0, 0)
           from == FirstKept(context)
           rest == SubSeq(context, from, Len(context))
<1>1. m \in ContextMessages /\ m.text <= m.size
  <2>1. n \in Nat /\ 0 \in Nat /\ "summary" \in Roles
    BY CompactionAssumption DEF Roles
  <2>2. m \in ContextMessages /\ m.text = 0 /\ m.size = n
    BY <2>1, MsgType
  <2> HIDE DEF m
  <2>3. QED
    BY <2>1, <2>2
<1>2. from \in Nat /\ from >= 1
  <2> DEFINE enough == {i \in 1..Len(context) :
                           Size(SubSeq(context, i, Len(context))) >= KeepRecent
                           /\ context[i].role \notin {"tool", "summary"}}
  <2>1. enough \in SUBSET (1..Len(context)) /\ Len(context) \in Nat
    OBVIOUS
  <2>2. from = IF enough = {} THEN 1 ELSE CHOOSE i \in enough : \A j \in enough : j <= i
    BY DEF FirstKept
  <2> HIDE DEF enough, from
  <2>3. CASE enough # {}
    <3>1. \E i \in enough : \A j \in enough : j <= i
      <4>1. Max(enough) \in enough /\ \A y \in enough : Max(enough) >= y
        BY <2>1, <2>3, MaxProperties
      <4>2. QED
        BY <2>1, <4>1
    <3>2. from \in enough
      BY <2>2, <2>3, <3>1
    <3>3. QED
      BY <2>1, <3>2
  <2>4. QED
    BY <2>2, <2>3
<1> HIDE DEF m, from
<1>3. /\ rest \in Seq(ContextMessages) /\ Len(rest) \in Nat
      /\ \A i \in 1..Len(rest) :
            from + i - 1 \in 1..Len(context) /\ rest[i] = context[from + i - 1]
  BY <1>2
<1> HIDE DEF rest
<1>4. /\ <<m>> \in Seq(ContextMessages) /\ Len(<<m>>) = 1 /\ <<m>>[1] = m
  BY <1>1
<1>5. /\ <<m>> \o rest \in Seq(ContextMessages) /\ Len(<<m>> \o rest) = 1 + Len(rest)
      /\ \A i \in 1..(1 + Len(rest)) :
            (<<m>> \o rest)[i] = IF i = 1 THEN m ELSE rest[i - 1]
  BY <1>3, <1>4, ConcatProperties
<1>6. \A i \in 1..(1 + Len(rest)) : i # 1 => i - 1 \in 1..Len(rest)
  BY <1>3
<1>7. TextFits(<<m>> \o rest)
  BY <1>1, <1>3, <1>5, <1>6 DEF TextFits
<1>8. QED
  BY <1>5, <1>7 DEF Compacted, m, rest, from

\* A session starts with an empty context.
LEMMA SizeInitInvariant == CompactionInit => SizeInv
<1> SUFFICES ASSUME CompactionInit PROVE SizeInv
  OBVIOUS
<1>1. context \in Seq(ContextMessages) /\ TextFits(context)
  BY DEF CompactionInit, TextFits
<1>2. RefusedWaits /\ RecoveryOnce
  BY DEF CompactionInit, RefusedWaits, RecoveryOnce
<1>3. enabled \in BOOLEAN /\ window \in Windows /\ input = 0 /\ retried = FALSE
      /\ recoveries = 0 /\ stage = "idle" /\ pendingComp = "none"
  BY DEF CompactionInit
<1>4. input \in Nat /\ recoveries \in 0..1
  BY <1>3
<1>5. QED
  BY <1>1, <1>2, <1>3, <1>4 DEF SizeInv

\* A message is sent, or waits for a compaction.
LEMMA SendKeeps ==
    ASSUME SizeInv, NEW n \in Inputs, Send(n)
    PROVE  SizeInv'
<1> DEFINE m == Msg("user", n, n, 0)
<1>1. n \in Nat /\ n # 0
  BY CompactionAssumption
<1>2. m \in ContextMessages /\ m.text <= m.size /\ m.role = "user"
  BY <1>1, MsgType DEF Roles
<1>3. CASE pendingComp = "none"
  <2>1. context' = Append(context, m) /\ stage' = "call"
        /\ UNCHANGED <<enabled, window, pendingComp, retried, input>> /\ recoveries' = 0
        /\ stage = "idle"
    BY <1>3 DEF Send
  <2> HIDE DEF m
  <2>2. context' \in Seq(ContextMessages) /\ TextFits(context')
        /\ context'[Len(context')].role = "user"
    BY <1>2, <2>1, ContextGrows DEF SizeInv
  <2>3. QED
    BY <1>3, <2>1, <2>2 DEF SizeInv, TextFits, RefusedWaits, RecoveryOnce
<1>4. CASE pendingComp # "none"
  BY <1>1, <1>4 DEF Send, SizeInv, TextFits, RefusedWaits, RecoveryOnce
<1>5. QED
  BY <1>3, <1>4

\* A turn that went well leaves a context whose last message is no refusal, and
\* may ask for a compaction before the next.
LEMMA TurnKeeps ==
    ASSUME SizeInv, stage = "calling", NEW c \in Seq(ContextMessages), TextFits(c), c # <<>>,
           c[Len(c)].role # "overflow", TurnGoesWell(c), stage' \in {"ended", "call"},
           UNCHANGED <<enabled, window, input>>
    PROVE  SizeInv'
<1>1. pendingComp' \in {"none", "proactive"}
  BY DEF TurnGoesWell, Decided, SizeInv, RecoveryOnce
<1>2. input' = 0
  BY DEF SizeInv
<1>3. context' = c /\ retried' = FALSE /\ recoveries' = 0
  BY DEF TurnGoesWell
<1>4. context' \in Seq(ContextMessages) /\ TextFits(context')
  BY <1>3
<1>5. RefusedWaits' /\ RecoveryOnce'
  BY <1>1, <1>3 DEF RefusedWaits, RecoveryOnce
<1>6. /\ pendingComp' \in {"none", "proactive", "reactive"} /\ retried' \in BOOLEAN
      /\ enabled' \in BOOLEAN /\ window' \in Windows
      /\ stage' \in {"idle", "call", "calling", "ended", "compact_idle",
                    "compact_inner_loop", "compact_reactive_path"}
  BY <1>1, <1>3 DEF SizeInv
<1>7. recoveries' \in 0..1 /\ input' \in Nat
  BY <1>2, <1>3
<1>8. QED
  BY <1>2, <1>4, <1>5, <1>6, <1>7 DEF SizeInv

\* What follows a compaction or the end of a turn that did not go well.
LEMMA AfterwardsKeeps ==
    ASSUME SizeInv, context' \in Seq(ContextMessages), TextFits(context'),
           input' = 0, UNCHANGED <<enabled, window, recoveries>>,
           \/ /\ stage' \in {"call", "calling"} /\ retried' = retried
              /\ stage \in {"compact_idle", "compact_inner_loop", "compact_reactive_path"}
           \/ /\ stage' = "idle" /\ retried' = retried
              /\ context' # <<>> => context'[Len(context')].role # "overflow"
           \/ /\ stage' = "ended"
              /\ enabled /\ context' # <<>> => context'[Len(context')].role # "overflow",
           retried' \in BOOLEAN, pendingComp' = "none"
    PROVE  SizeInv'
  BY DEF SizeInv, TextFits, RefusedWaits, RecoveryOnce

\* The model answers, or calls tools.
LEMMA ModelAnswersKeeps ==
    ASSUME SizeInv, ModelAnswers
    PROVE  SizeInv'
<1> DEFINE used == Size(context) + 1
<1>1. used \in Nat
  <2>1. Size(context) \in Nat
    BY TotalIsNat DEF Size, SizeInv
  <2>2. QED
    BY <2>1
<1>2. stage = "calling" /\ UNCHANGED <<enabled, window, input>>
  BY DEF ModelAnswers
<1>3. CASE TurnGoesWell(Append(context, Msg("answer", 1, 1, used))) /\ stage' = "ended"
  <2>1. Msg("answer", 1, 1, used) \in ContextMessages
        /\ Msg("answer", 1, 1, used).text = 1 /\ Msg("answer", 1, 1, used).size = 1
        /\ Msg("answer", 1, 1, used).role = "answer"
    BY <1>1, MsgType DEF Roles
  <2> DEFINE m == Msg("answer", 1, 1, used)
             c == Append(context, m)
  <2>2. m \in ContextMessages /\ m.text <= m.size /\ m.role = "answer" /\ TurnGoesWell(c)
    BY <1>3, <2>1
  <2> HIDE DEF m
  <2>3. c \in Seq(ContextMessages) /\ TextFits(c) /\ c # <<>> /\ c[Len(c)].role # "overflow"
    BY <2>2, ContextGrows DEF SizeInv
  <2> HIDE DEF c
  <2>4. QED
    BY <1>2, <1>3, <2>2, <2>3, TurnKeeps
<1>4. ASSUME NEW n \in Inputs, stage' = "call",
             TurnGoesWell(context \o <<Msg("answer", 1, 0, used), Msg("tool", n, n, 0)>>)
      PROVE  SizeInv'
  <2> DEFINE a == Msg("answer", 1, 0, used)
             t == Msg("tool", n, n, 0)
             c == Append(Append(context, a), t)
  <2>1. /\ a \in ContextMessages /\ a.text <= a.size
        /\ t \in ContextMessages /\ t.text <= t.size /\ t.role = "tool"
    <3>1. n \in Nat /\ {"answer", "tool"} \subseteq Roles /\ 0 \in Nat /\ 1 \in Nat
      BY CompactionAssumption DEF Roles
    <3>2. /\ a \in ContextMessages /\ a.text = 0 /\ a.size = 1
          /\ t \in ContextMessages /\ t.text = n /\ t.size = n /\ t.role = "tool"
      BY <1>1, <3>1, MsgType
    <3> HIDE DEF a, t
    <3>3. QED
      BY <3>1, <3>2
  <2>2. TurnGoesWell(context \o <<a, t>>)
    BY <1>4
  <2> HIDE DEF a, t
  <2>3. context \o <<a, t>> = c
    BY <2>1 DEF SizeInv
  <2>4. Append(context, a) \in Seq(ContextMessages) /\ TextFits(Append(context, a))
    BY <2>1, ContextGrows DEF SizeInv
  <2>5. c \in Seq(ContextMessages) /\ TextFits(c) /\ c # <<>> /\ c[Len(c)].role # "overflow"
    BY <2>1, <2>4, ContextGrows
  <2> HIDE DEF c
  <2>6. QED
    BY <1>2, <1>4, <2>2, <2>3, <2>5, TurnKeeps
<1>5. QED
  BY <1>3, <1>4 DEF ModelAnswers

\* A message with nothing in it: aborted, failed, refused, or the note.
LEMMA BlankGrows ==
    ASSUME NEW c \in Seq(ContextMessages), TextFits(c),
           NEW role \in {"aborted", "failed", "overflow", "note"}
    PROVE  LET b == Append(c, Msg(role, 0, 0, 0))
           IN  /\ b \in Seq(ContextMessages) /\ TextFits(b)
               /\ b # <<>> /\ b[Len(b)].role = role
<1> DEFINE m == Msg(role, 0, 0, 0)
<1>1. m \in ContextMessages /\ m.text <= m.size /\ m.role = role
  BY MsgType DEF Roles
<1> HIDE DEF m
<1>2. QED
  BY <1>1, ContextGrows DEF m

\* A turn is aborted, fails, or is refused.
LEMMA TurnEndsBadlyKeeps ==
    ASSUME SizeInv, TurnAborted \/ TurnErrs \/ Overflows
    PROVE  SizeInv'
<1>1. CASE TurnAborted
  <2> DEFINE c == Append(context, Msg("aborted", 0, 0, 0))
  <2>1. c \in Seq(ContextMessages) /\ TextFits(c) /\ c # <<>> /\ c[Len(c)].role # "overflow"
    BY BlankGrows DEF SizeInv
  <2>2. stage = "calling" /\ TurnGoesWell(c) /\ stage' = "ended"
        /\ UNCHANGED <<enabled, window, input>>
    BY <1>1 DEF TurnAborted
  <2> HIDE DEF c
  <2>3. QED
    BY <2>1, <2>2, TurnKeeps
<1>2. CASE TurnErrs
  <2> DEFINE c == Append(context, Msg("failed", 0, 0, 0))
  <2>1. c \in Seq(ContextMessages) /\ TextFits(c) /\ c[Len(c)].role # "overflow"
    BY BlankGrows DEF SizeInv
  <2>2. /\ stage = "calling" /\ context' = c /\ stage' = "ended"
        /\ UNCHANGED <<enabled, window, input, pendingComp, retried, recoveries>>
    BY <1>2 DEF TurnErrs
  <2> HIDE DEF c
  <2>3. QED
    BY <2>1, <2>2, AfterwardsKeeps DEF SizeInv, RecoveryOnce
<1>3. CASE Overflows
  <2> DEFINE c == Append(context, Msg("overflow", 0, 0, 0))
             d == Append(c, Note)
  <2>1. c \in Seq(ContextMessages) /\ TextFits(c)
    BY BlankGrows DEF SizeInv
  <2>2. d \in Seq(ContextMessages) /\ TextFits(d) /\ d[Len(d)].role # "overflow"
    <3> HIDE DEF c
    <3>1. QED
      BY <2>1, BlankGrows DEF Note
  <2>3. /\ stage = "calling" /\ stage' = "ended" /\ input' = 0
        /\ UNCHANGED <<enabled, window, recoveries>>
    BY <1>3 DEF Overflows, SizeInv
  <2>4. \/ ~enabled /\ context' = c /\ UNCHANGED <<retried, pendingComp>>
        \/ enabled /\ retried /\ context' = d /\ retried' = FALSE /\ pendingComp' = "none"
        \/ enabled /\ ~retried /\ context' = c /\ retried' = TRUE /\ pendingComp' = "reactive"
    BY <1>3 DEF Overflows
  <2> HIDE DEF c, d
  <2>5. CASE ~enabled /\ context' = c /\ UNCHANGED <<retried, pendingComp>>
    BY <2>1, <2>3, <2>5, AfterwardsKeeps DEF SizeInv, RecoveryOnce
  <2>6. CASE enabled /\ retried /\ context' = d /\ retried' = FALSE /\ pendingComp' = "none"
    BY <2>2, <2>3, <2>6, AfterwardsKeeps
  <2>7. CASE enabled /\ ~retried /\ context' = c /\ retried' = TRUE
             /\ pendingComp' = "reactive"
    BY <2>1, <2>3, <2>7 DEF SizeInv, TextFits, RefusedWaits, RecoveryOnce
  <2>8. QED
    BY <2>4, <2>5, <2>6, <2>7
<1>4. QED
  BY <1>1, <1>2, <1>3

\* What a compaction goes on with, or gives up with a note.
LEMMA CompactionKeeps ==
    ASSUME SizeInv, Compacting, CompactionEnds,
           NEW c \in Seq(ContextMessages), TextFits(c), Continues(c) \/ GivesUp(c)
    PROVE  SizeInv'
<1>1. /\ input' = 0 /\ pendingComp' = "none" /\ UNCHANGED <<enabled, window, retried, recoveries>>
      /\ stage \in {"compact_idle", "compact_inner_loop", "compact_reactive_path"}
  BY DEF CompactionEnds, Compacting
<1>2. CASE Continues(c)
  <2>1. \A n \in Nat : /\ Append(c, Msg("user", n, n, 0)) \in Seq(ContextMessages)
                       /\ TextFits(Append(c, Msg("user", n, n, 0)))
    <3>1. SUFFICES ASSUME NEW n \in Nat
                   PROVE  /\ Append(c, Msg("user", n, n, 0)) \in Seq(ContextMessages)
                          /\ TextFits(Append(c, Msg("user", n, n, 0)))
      OBVIOUS
    <3> DEFINE m == Msg("user", n, n, 0)
    <3>2. m \in ContextMessages /\ m.text = n /\ m.size = n
      <4>1. "user" \in Roles /\ 0 \in Nat
        BY DEF Roles
      <4>2. QED
        BY <4>1, MsgType
    <3> HIDE DEF m
    <3>3. m.text <= m.size
      BY <3>2
    <3>4. QED
      BY <3>2, <3>3, ContextGrows DEF m
  <2>2. \/ context' = c
        \/ context' = Append(c, Msg("user", input, input, 0))
        \/ context' = Append(c, Msg("user", 1, 1, 0))
    BY <1>1, <1>2 DEF Continues
  <2>3. context' \in Seq(ContextMessages) /\ TextFits(context')
    BY <2>1, <2>2, input \in Nat, 1 \in Nat DEF SizeInv
  <2>4. stage' \in {"call", "calling"}
    BY <1>2 DEF Continues
  <2>5. QED
    BY <1>1, <2>3, <2>4, AfterwardsKeeps DEF SizeInv
<1>3. CASE GivesUp(c)
  <2>1. context' \in Seq(ContextMessages) /\ TextFits(context')
        /\ context'[Len(context')].role = "note"
    BY <1>3, BlankGrows DEF GivesUp, Note
  <2>2. stage' \in {"calling", "idle"}
    BY <1>3 DEF GivesUp
  <2>3. QED
    BY <1>1, <2>1, <2>2, AfterwardsKeeps DEF SizeInv
<1>4. QED
  BY <1>2, <1>3

\* Each step of the session, of its model and of its compactions keeps it.
LEMMA SizeStepInvariant == SizeInv /\ [CompactionNext]_compVars => SizeInv'
<1> SUFFICES ASSUME SizeInv, [CompactionNext]_compVars PROVE SizeInv'
  OBVIOUS
<1> USE DEF SizeInv, TextFits, RefusedWaits, RecoveryOnce
<1>1. CASE Hook
  BY <1>1 DEF Hook
<1>2. CASE AgentEnds
  BY <1>2 DEF AgentEnds
<1>3. CASE SetModel
  BY <1>3 DEF SetModel
<1>4. CASE UNCHANGED compVars
  BY <1>4 DEF compVars
<1> HIDE DEF SizeInv, TextFits, RefusedWaits, RecoveryOnce
<1>5. context \in Seq(ContextMessages) /\ TextFits(context)
  BY DEF SizeInv
<1>6. CASE CompactionDone \/ CompactionFails \/ CompactionSpoils
  <2>1. Compacting /\ CompactionEnds
    BY <1>6 DEF CompactionDone, CompactionFails, CompactionSpoils
  <2>2. PICK c : /\ c = context \/ \E n \in SummarySizes : c = Compacted(n)
                 /\ Continues(c) \/ GivesUp(c)
    BY <1>6 DEF CompactionDone, CompactionFails, CompactionSpoils
  <2>3. c \in Seq(ContextMessages) /\ TextFits(c)
    BY <1>5, <2>2, CompactedIsSmaller
  <2>4. QED
    BY <2>1, <2>2, <2>3, CompactionKeeps
<1>7. QED
  BY <1>1, <1>2, <1>3, <1>4, <1>6, SendKeeps, ModelAnswersKeeps, TurnEndsBadlyKeeps
     DEF CompactionNext

\* The reserve is at most half of the window.
LEMMA BudgetIsPositive ==
    ASSUME NEW w \in Windows
    PROVE  Budget(w) > 0
<1>1. w \in Nat /\ w >= 2 /\ {MaxOutput, Cushion, Floor} \subseteq Nat
  BY CompactionAssumption
<1>2. w \div 2 \in Nat /\ w \div 2 < w
  BY <1>1
<1>3. \A a, b \in Nat : Least(a, b) \in Nat /\ Least(a, b) =< b /\ Largest(a, b) \in Nat
  BY DEF Least, Largest
<1> DEFINE least == Largest(MaxOutput + Cushion, Floor)
<1>4. least \in Nat
  <2>1. MaxOutput + Cushion \in Nat /\ Floor \in Nat
    BY <1>1
  <2>2. QED
    BY <1>3, <2>1
<1> HIDE DEF least
<1>5. Least(least, w \div 2) \in Nat /\ Least(least, w \div 2) < w
  <2>1. Least(least, w \div 2) \in Nat /\ Least(least, w \div 2) =< w \div 2
    BY <1>2, <1>3, <1>4
  <2>2. QED
    BY <1>1, <1>2, <2>1
<1>6. Reserve(w) = Least(least, w \div 2)
  BY DEF Reserve, least
<1>7. QED
  BY <1>1, <1>5, <1>6 DEF Budget

\* It implies what the runs check.
LEMMA SizeInvariantSuffices == SizeInv => CompactionTypeOK /\ OverflowIsSettled
<1>1. SizeInv => CompactionTypeOK
  BY BudgetIsPositive DEF SizeInv, TextFits, CompactionTypeOK
<1>2. SizeInv => OverflowIsSettled
  BY DEF SizeInv, RefusedWaits, OverflowIsSettled
<1>3. QED
  BY <1>1, <1>2

-----------------------------------------------------------------------------
(* All of them.                                                            *)

StoresInv ==
    /\ LtmInv /\ ToldHolds /\ NewestHolds
    /\ FilesInv /\ ReaderInv /\ RecallInv /\ SessionFileInv /\ SizeInv /\ TabInv
    /\ ListInv /\ ComposerInv /\ ShellInv /\ PatchInv /\ SkillsInv /\ CatalogInv

\* A component keeps its invariant in the steps of the others.
LEMMA StoresStepInvariant == StoresInv /\ [MCNext]_allVars => StoresInv'
<1> SUFFICES ASSUME StoresInv, [MCNext]_allVars PROVE StoresInv'
  OBVIOUS
<1>1. /\ [FilesNext]_fileVars /\ [LtmNext]_ltmVars /\ [ReaderNext]_readerVars
      /\ [RecallNext]_recallVars /\ [SessionFileNext]_sfVars /\ [CompactionNext]_compVars
      /\ [ClientNext]_tabVars /\ [ListNext]_listVars /\ [ComposerNext]_composerVars
      /\ [ShellNext]_shellVars /\ [PatchNext]_toolVars /\ [SkillsNext]_skillVars
      /\ [CatalogNext]_catVars
  BY DEF MCNext, Others, allVars
<1>2. QED
  BY <1>1, FilesStepInvariant, LtmStepInvariant, ReaderStepInvariant, RecallStepInvariant,
     FileStepInvariant, SizeStepInvariant, TabStepInvariant, ListStepInvariant,
     ComposerStepInvariant, ShellStepInvariant, PatchStepInvariant, SkillsStepInvariant,
     CatalogStepInvariant DEF StoresInv

-----------------------------------------------------------------------------
(* Theorems.                                                               *)

\* No update of a memory file is lost to a parallel one, as long as no file is
\* moved away during a change to it and no template overwrites it, and what has
\* piled up is committed, for any number of calls, paths, lines, mishaps and
\* restarts (file-lock.ts:4-13, auto-commit.ts:28-39).
THEOREM FilesAreSound == FilesSpec => [](FilesTypeOK /\ FilesSound)
  BY FilesInitInvariant, FilesStepInvariant, FilesInvariantSuffices, PTL DEF FilesSpec

\* A message reaches the chat it was typed in or the one that was made for it, and
\* the directory that is shown is one the open chat has had, unless it was set for
\* a chat that had been left, for any number of chats, messages and calls under way
\* (useApp.ts:318-342, 345-363, 388-393; Chat.tsx:106-111, 293-296).
THEOREM ComposerIsSound == ComposerSpec => [](ComposerTypeOK /\ ComposerSound)
  BY ComposerInitInvariant, ComposerStepInvariant, ComposerInvariantSuffices,
     PTL DEF ComposerSpec

\* Across restarts, logins and changes of the account, every session can be
\* opened as long as the default resolves, and what it runs on is, for a model of
\* Copilot, what the account had at boot, whenever it could be asked
\* (manager.ts:340-346).
THEOREM SessionsStay == CatalogSpec => [](CatalogTypeOK /\ SessionsStayUsable)
  BY CatalogInitInvariant, CatalogStepInvariant, CatalogInvariantSuffices,
     PTL DEF CatalogSpec

\* What the user or the agent wrote last is there, and what they deleted in part
\* stays gone, wherever restarts cut the seeding of the shipped skills short
\* (skills.ts:6-8, 33-40).
THEOREM EditsStay == SkillsSpec => [](SkillsTypeOK /\ EditsSurvive)
  BY SkillsInitInvariant, SkillsStepInvariant, SkillsInvariantSuffices,
     PTL DEF SkillsSpec

\* A page that is loaded while the server is reached is the deployed build, for any
\* number of deploys, rollbacks and changes of the worker, and it has its own bundle
\* unless that build was rolled back to (sw.js:104-114).
THEOREM FreshPages == ShellSpec => [](ShellTypeOK /\ FreshPageWorks)
  BY ShellInitInvariant, ShellStepInvariant, ShellInvariantSuffices,
     PTL DEF ShellSpec

\* Where compaction is enabled, a chat never rests on a prompt that was refused, and
\* a message has one recovery at most until a turn goes well, for any windows,
\* messages and summaries (manager.ts:594-692).
THEOREM OverflowsSettle == CompactionSpec => [](CompactionTypeOK /\ OverflowIsSettled)
  BY SizeInitInvariant, SizeStepInvariant, SizeInvariantSuffices,
     PTL DEF CompactionSpec

\* The state of every component that keeps or shows something is of its type, and
\* what belongs together agrees, for every value of the constants.
THEOREM StoresAreConsistent == MCSpec => []StoresTypeOK
<1>1. MCInit => StoresInv
  BY FilesInitInvariant, LtmInitInvariant, ReaderInitInvariant, RecallInitInvariant,
     FileInitInvariant, SizeInitInvariant, TabInitInvariant, ListInitInvariant,
     ComposerInitInvariant, ShellInitInvariant, PatchInitInvariant, SkillsInitInvariant,
     CatalogInitInvariant DEF MCInit, StoresInv
<1>2. StoresInv => StoresTypeOK
  BY FilesInvariantSuffices, LtmInvariantSuffices, ReaderInvariantSuffices,
     RecallInvariantSuffices, FileInvariantSuffices, SizeInvariantSuffices,
     TabInvariantSuffices, ListInvariantSuffices, ComposerInvariantSuffices,
     ShellInvariantSuffices, PatchInvariantSuffices, SkillsInvariantSuffices,
     CatalogInvariantSuffices DEF StoresInv, StoresTypeOK
<1>3. QED
  BY <1>1, <1>2, StoresStepInvariant, PTL DEF MCSpec
=============================================================================

------------------------------ MODULE PatchTool ------------------------------
(***************************************************************************)
(* The tools that change files of the working directory: apply_patch,      *)
(* edit and write (server/src/tools/apply-patch.ts, files.ts).  The tool   *)
(* calls of a turn run in parallel and nothing locks a file, unlike in the *)
(* memory store.                                                           *)
(*                                                                         *)
(* A file is a sequence of lines, and a patch is what parsePatch() makes   *)
(* of its text: a sequence of sections.  Which line holds which other as a *)
(* substring is given, and so is what replace() makes of a new text.       *)
(***************************************************************************)
EXTENDS Naturals, SequencesExt, FiniteSetsExt

CONSTANTS
    ToolCalls, WorkFiles, TextLines,
    Absent,           \* the content of a file that is not there
    Holding,          \* the lines that hold a line
    Replacement,      \* what String.replace() inserts for a line
    Contents, Patches, Edits,  \* the inputs: contents, patches, edits
    MaxToolCalls      \* bound

\* What parsePatch() makes of a patch.  A hunk's heading is a sequence of at most
\* one line.
Hunks == [heading : Seq(TextLines), old : Seq(TextLines), new : Seq(TextLines)]
Sections == [kind : {"update"}, file : WorkFiles, hunks : Seq(Hunks)]
            \cup [kind : {"add"}, file : WorkFiles, lines : Seq(TextLines)]
            \cup [kind : {"delete"}, file : WorkFiles]

ASSUME PatchAssumption ==
    /\ Absent # <<>>   \* a file that is not there is not an empty one
    /\ Holding \in [TextLines -> SUBSET TextLines]
    /\ Replacement \in [TextLines -> TextLines]
    /\ Contents \subseteq Seq(TextLines)
    /\ Patches \subseteq Seq(Sections)
    /\ Edits \subseteq [file : WorkFiles, old : TextLines, new : TextLines]
    /\ MaxToolCalls \in Nat

VARIABLES
    disk,    \* the contents of the files
    tool,    \* the calls
    toolsRun

toolVars == <<disk, tool, toolsRun>>

NoTool == [at |-> "idle", job |-> <<>>, kind |-> "none", next |-> 1, plan |-> <<>>,
           before |-> <<>>, left |-> <<>>, alone |-> TRUE]

PatchInit ==
    /\ disk \in [WorkFiles -> Contents \cup {Absent}]
    /\ tool = [k \in ToolCalls |-> NoTool]
    /\ toolsRun = 0

-----------------------------------------------------------------------------
(* What a patch makes of a file.                                           *)

Refusal == [ok |-> FALSE, lines |-> <<>>]

Occurrences(lines, needle, anchor) ==
    {i \in anchor..Len(lines) : i + Len(needle) =< Len(lines)
                             /\ SubSeq(lines, i + 1, i + Len(needle)) = needle}

\* locate(): where the needle is, if it is not empty and is at one place only.
Located(lines, needle, anchor) ==
    IF needle = <<>> THEN {}
    ELSE LET at == Occurrences(lines, needle, anchor)
         IN  IF Cardinality(at) = 1 THEN at ELSE {}

\* The @@ heading: a line equal to it, or else a line that holds it; the search
\* starts behind the first one.
Anchors(lines, heading) ==
    LET equal == {i \in 1..Len(lines) : lines[i] = heading}
        held == {i \in 1..Len(lines) : lines[i] \in Holding[heading]}
    IN  IF equal # {} THEN {Min(equal)} ELSE IF held # {} THEN {Min(held)} ELSE {}

Spliced(lines, at, old, new) ==
    SubSeq(lines, 1, at) \o new \o SubSeq(lines, at + Len(old) + 1, Len(lines))

\* applyUpdate(): the hunks one after another.
ApplyHunk(work, hunk) ==
    LET anchors == IF hunk.heading = <<>> THEN {0}
                   ELSE Anchors(work.lines, Head(hunk.heading))
        places == UNION {Located(work.lines, hunk.old, a) : a \in anchors}
    IN  IF ~work.ok \/ places = {} THEN Refusal
        ELSE [ok |-> TRUE,
              lines |-> Spliced(work.lines, CHOOSE p \in places : TRUE, hunk.old, hunk.new)]

\* What the first n hunks make of the lines, each on what the one before has left.
Applied(lines, hunks) ==
    LET after[n \in 0..Len(hunks)] ==
            IF n = 0 THEN [ok |-> TRUE, lines |-> lines]
            ELSE ApplyHunk(after[n - 1], hunks[n])
    IN after

ApplyUpdate(lines, hunks) == Applied(lines, hunks)[Len(hunks)]

\* What a section makes of the content of its file.
Outcome(content, op) ==
    IF op.kind = "update"
    THEN IF content = Absent THEN Refusal ELSE ApplyUpdate(content, op.hunks)
    ELSE IF op.kind = "add"
    THEN IF content = Absent THEN [ok |-> TRUE, lines |-> op.lines] ELSE Refusal
    ELSE IF content = Absent THEN Refusal ELSE [ok |-> TRUE, lines |-> Absent]

-----------------------------------------------------------------------------
(* A call.                                                                 *)

Working == {k \in ToolCalls : tool[k].at \in {"planning", "writing", "edited"}}

Jobs ==
    [kind : {"patch"}, at : {"planning"}, job : Patches, plan : {<<>>}]
    \cup [kind : {"edit"}, at : {"planning"}, job : Edits, plan : {<<>>}]
    \cup [kind : {"write"}, at : {"edited"}, job : {<<>>},
          plan : {<<w>> : w \in [file : WorkFiles, lines : Contents]}]

\* execute() begins; the calls of a turn run side by side.
StartTool(k) ==
    /\ tool[k].at = "idle" /\ toolsRun < MaxToolCalls
    /\ toolsRun' = toolsRun + 1
    /\ \E j \in Jobs :
          tool' = [i \in ToolCalls |->
                      IF i = k
                      THEN [NoTool EXCEPT !.at = j.at, !.kind = j.kind, !.job = j.job,
                               !.plan = j.plan, !.before = disk, !.alone = (Working = {})]
                      ELSE IF i \in Working THEN [tool[i] EXCEPT !.alone = FALSE]
                      ELSE tool[i]]
    /\ UNCHANGED disk

\* The call ends, and this is how it leaves the disk.
Ends(k, how, d) ==
    /\ disk' = d
    /\ tool' = [tool EXCEPT ![k].at = how, ![k].left = d]

Planned(k) == {i \in 1..Len(tool[k].plan) : tool[k].plan[i].file
                                              = tool[k].job[tool[k].next].file}

\* A slip of Content: sections are judged by the disk alone.
ContentOnDisk(k, op) == disk[op.file]

\* planPatch(): a file has one section, but for a deletion and then an addition,
\* which finds the file gone; anything else is refused.
Content(k, op) ==
    IF Planned(k) = {} THEN disk[op.file]
    ELSE IF op.kind = "add" /\ tool[k].plan[Max(Planned(k))].lines = Absent THEN Absent
    ELSE IF op.kind = "add" THEN <<>> ELSE Absent

\* A section is read and planned; the next one after another await.  One that
\* cannot be applied ends the call.
PlanSection(k) ==
    /\ tool[k].at = "planning" /\ tool[k].kind = "patch" /\ tool[k].next =< Len(tool[k].job)
    /\ LET op == tool[k].job[tool[k].next]
           done == Outcome(Content(k, op), op)
       IN  IF done.ok
           THEN /\ tool' = [tool EXCEPT ![k].next = @ + 1,
                               ![k].plan = Append(@, [file |-> op.file, lines |-> done.lines])]
                /\ UNCHANGED disk
           ELSE Ends(k, "refused", disk)
    /\ UNCHANGED toolsRun

\* All sections are planned.
Planning(k) ==
    /\ tool[k].at = "planning" /\ tool[k].kind = "patch" /\ tool[k].next > Len(tool[k].job)
    /\ tool' = [tool EXCEPT ![k].at = "writing", ![k].next = 1]
    /\ UNCHANGED <<disk, toolsRun>>

\* One file after another is written or removed.  The disk may fail, and rm()
\* does on a file that somebody else has removed.
CommitFile(k) ==
    /\ tool[k].at = "writing" /\ tool[k].next =< Len(tool[k].plan)
    /\ LET w == tool[k].plan[tool[k].next]
       IN  \/ /\ w.lines = Absent => disk[w.file] # Absent
              /\ disk' = [disk EXCEPT ![w.file] = w.lines]
              /\ tool' = [tool EXCEPT ![k].next = @ + 1]
           \/ Ends(k, "failed", disk)
    /\ UNCHANGED toolsRun

PatchDone(k) ==
    /\ tool[k].at = "writing" /\ tool[k].next > Len(tool[k].plan)
    /\ Ends(k, "done", disk)
    /\ UNCHANGED toolsRun

\* edit: the old text is to occur once ...
ReadForEdit(k) ==
    /\ tool[k].at = "planning" /\ tool[k].kind = "edit"
    /\ LET e == tool[k].job
           at == IF disk[e.file] = Absent THEN {} ELSE Located(disk[e.file], <<e.old>>, 0)
       IN  IF at = {} THEN Ends(k, "refused", disk)
           ELSE /\ tool' = [tool EXCEPT ![k].at = "edited",
                      ![k].plan = <<[file |-> e.file,
                                     lines |-> Spliced(disk[e.file], CHOOSE p \in at : TRUE,
                                                       <<e.old>>, <<Replacement[e.new]>>)]>>]
                /\ UNCHANGED disk
    /\ UNCHANGED toolsRun

\* ... and the file is written whole; the tool write does only this.
WriteEdited(k) ==
    /\ tool[k].at = "edited"
    /\ \/ Ends(k, "done", [disk EXCEPT ![tool[k].plan[1].file] = tool[k].plan[1].lines])
       \/ Ends(k, "failed", disk)
    /\ UNCHANGED toolsRun

PatchNext ==
    \E k \in ToolCalls :
        \/ StartTool(k) \/ PlanSection(k) \/ Planning(k) \/ CommitFile(k) \/ PatchDone(k)
        \/ ReadForEdit(k) \/ WriteEdited(k)

PatchSpec == PatchInit /\ [][PatchNext]_toolVars

-----------------------------------------------------------------------------
(* Properties.                                                             *)

PatchTypeOK ==
    /\ \A f \in WorkFiles : disk[f] = Absent \/ disk[f] \in Seq(TextLines)
    /\ \A k \in ToolCalls :
          tool[k].at \in {"idle", "planning", "writing", "edited", "refused", "failed", "done"}
    /\ toolsRun \in 0..MaxToolCalls

\* A section on the disk itself.
SectionOn(d, op) ==
    [d EXCEPT ![op.file] = IF Outcome(d[op.file], op).ok THEN Outcome(d[op.file], op).lines ELSE @]

\* What the first n sections make of the files, one after another.
Disks(d, ops) ==
    LET after[n \in 0..Len(ops)] == IF n = 0 THEN d ELSE SectionOn(after[n - 1], ops[n])
    IN after

OneByOne(d, ops) == Disks(d, ops)[Len(ops)]

\* A patch is applied as it reads: the sections planned from the disk as it was
\* amount to applying them in turn, although the plan never sees its own
\* writes, and a patch that is refused has written nothing, however many of its
\* sections were planned (apply-patch.ts:204-213, 280-282).  For a call that no
\* other overlaps.
PatchAppliesAsItReads ==
    \A k \in ToolCalls : tool[k].kind = "patch" /\ tool[k].alone =>
        /\ tool[k].at = "done" => tool[k].left = OneByOne(tool[k].before, tool[k].job)
        /\ tool[k].at = "refused" => tool[k].left = tool[k].before

\* Not so: "Replace an exact unique text occurrence in a file" (files.ts:100); what
\* replace() makes of `$' is in the file.
EditIsExact ==
    \A k \in ToolCalls :
        tool[k].kind = "edit" /\ tool[k].alone /\ tool[k].at = "done" =>
            LET e == tool[k].job
            IN  tool[k].left[e.file] =
                    [i \in 1..Len(tool[k].before[e.file]) |->
                        IF tool[k].before[e.file][i] = e.old THEN e.new
                        ELSE tool[k].before[e.file][i]]
=============================================================================

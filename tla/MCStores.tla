------------------------------- MODULE MCStores -------------------------------
(***************************************************************************)
(* What the program keeps and shows, on small instances: the memory files, *)
(* the long-term memory's store, what it reads and what it recalls, a      *)
(* session's file and row and the size of its context, a browser tab with  *)
(* its list of chats, its composer and its offline shell, the tools that   *)
(* change files, the skills and the models.  None of these shares state    *)
(* with another here, so a behaviour is one of one of them: `part' says of *)
(* which.                                                                  *)
(***************************************************************************)
EXTENDS MemoryFiles, LtmStore, SessionReader, Recall, SessionFile, Compaction,
        ClientTranscript, SessionList, Composer, OfflineShell, PatchTool, Skills,
        ModelCatalog, TLC

CONSTANTS t1, t2, inAcme, inInitech, asInitech,     \* LtmStore
          m1, m2,                                   \* Recall
          la, lb, lab, ff, fg,                      \* PatchTool
          x1, x2,                                   \* Skills
          copilot, anthropic, gpt, preview, claude  \* ModelCatalog

VARIABLE part

MCChatOf == <<t1, t1, t2>>
MCSays == <<inAcme, inInitech, inAcme>>
MCSlots == {{inAcme, inInitech}}
MCCanonical == [x \in Facts |-> IF x = asInitech THEN inInitech ELSE x]

MCHolding == (la :> {lab}) @@ (lb :> {lab}) @@ (lab :> {})
MCReplacement == (la :> la) @@ (lb :> lab) @@ (lab :> lab)
MCContents == {<<la, lb>>, <<lb, lab, lb>>}
Hunk(h, o, n) == [heading |-> h, old |-> o, new |-> n]
Upd(x, hs) == [kind |-> "update", file |-> x, hunks |-> hs]
Add(x, ls) == [kind |-> "add", file |-> x, lines |-> ls]
Del(x) == [kind |-> "delete", file |-> x]
MCPatches ==
    {<<Upd(ff, <<Hunk(<<>>, <<la>>, <<la, la>>)>>), Upd(ff, <<Hunk(<<>>, <<la>>, <<lb>>)>>)>>,
     <<Upd(ff, <<Hunk(<<la>>, <<lb>>, <<>>), Hunk(<<>>, <<lab>>, <<lb, lb>>)>>), Del(fg)>>,
     <<Del(ff), Add(ff, <<lb>>)>>, <<Add(ff, <<lb>>), Del(ff)>>,
     <<Del(ff), Add(ff, <<lb>>), Add(ff, <<la>>)>>,
     <<Add(fg, <<la>>), Upd(ff, <<Hunk(<<>>, <<>>, <<la>>)>>)>>}
MCEdits == [file : {ff}, old : {la, lb}, new : {la, lb}]

MCNoteFile == [x \in Notes |-> IF x = m1 THEN la ELSE lb]
MCCalled == [s \in Stems |-> x2]
MCProviderOf == [m \in Models |-> IF m = claude THEN anthropic ELSE copilot]
MCSibling == [m \in Models |-> IF m = preview THEN gpt ELSE NoSibling]

\* The parts that a behaviour is not about stay in one of their initial states, and
\* a session starts in one directory, which is any of them.
MCInit ==
    /\ part \in {"files", "ltm", "reader", "recall", "session", "size", "tab", "list",
                 "composer", "shell", "patch", "skills", "models"}
    /\ part = "patch" \/ disk = [x \in WorkFiles |-> Absent]
    /\ part = "size" \/ (enabled = TRUE /\ window = CHOOSE w \in Windows : TRUE)
    /\ part = "models" \/ (offered = {} /\ auth = [p \in Providers |-> 0])
    /\ part = "list" \/ chatRow = FreshRow
    /\ workdir = CHOOSE d \in Dirs : TRUE
    /\ FilesInit /\ LtmInit /\ ReaderInit /\ RecallInit /\ SessionFileInit /\ CompactionInit
    /\ ClientInit /\ ListInit /\ ComposerInit /\ ShellInit /\ PatchInit /\ SkillsInit
    /\ CatalogInit

Others(p) ==
    /\ IF p = "files" THEN TRUE ELSE UNCHANGED fileVars
    /\ IF p = "ltm" THEN TRUE ELSE UNCHANGED ltmVars
    /\ IF p = "reader" THEN TRUE ELSE UNCHANGED readerVars
    /\ IF p = "recall" THEN TRUE ELSE UNCHANGED recallVars
    /\ IF p = "session" THEN TRUE ELSE UNCHANGED sfVars
    /\ IF p = "size" THEN TRUE ELSE UNCHANGED compVars
    /\ IF p = "tab" THEN TRUE ELSE UNCHANGED tabVars
    /\ IF p = "list" THEN TRUE ELSE UNCHANGED listVars
    /\ IF p = "composer" THEN TRUE ELSE UNCHANGED composerVars
    /\ IF p = "shell" THEN TRUE ELSE UNCHANGED shellVars
    /\ IF p = "patch" THEN TRUE ELSE UNCHANGED toolVars
    /\ IF p = "skills" THEN TRUE ELSE UNCHANGED skillVars
    /\ IF p = "models" THEN TRUE ELSE UNCHANGED catVars
    /\ UNCHANGED part

MCNext ==
    \/ part = "files" /\ Others("files") /\ FilesNext
    \/ part = "ltm" /\ Others("ltm") /\ LtmNext
    \/ part = "reader" /\ Others("reader") /\ ReaderNext
    \/ part = "recall" /\ Others("recall") /\ RecallNext
    \/ part = "session" /\ Others("session") /\ SessionFileNext
    \/ part = "size" /\ Others("size") /\ CompactionNext
    \/ part = "tab" /\ Others("tab") /\ ClientNext
    \/ part = "list" /\ Others("list") /\ ListNext
    \/ part = "composer" /\ Others("composer") /\ ComposerNext
    \/ part = "shell" /\ Others("shell") /\ ShellNext
    \/ part = "patch" /\ Others("patch") /\ PatchNext
    \/ part = "skills" /\ Others("skills") /\ SkillsNext
    \/ part = "models" /\ Others("models") /\ CatalogNext

allVars == <<part, fileVars, ltmVars, readerVars, recallVars, sfVars, compVars, tabVars,
             listVars, composerVars, shellVars, toolVars, skillVars, catVars>>
MCSpec == MCInit /\ [][MCNext]_allVars

\* The type invariants of the components: the state of each is of its type, and
\* what belongs together agrees.
StoresTypeOK ==
    /\ part = "files" => FilesTypeOK
    /\ part = "ltm" => LtmTypeOK
    /\ part = "reader" => ReaderTypeOK
    /\ part = "recall" => RecallTypeOK
    /\ part = "session" => SessionFileTypeOK
    /\ part = "size" => CompactionTypeOK
    /\ part = "tab" => ClientTypeOK
    /\ part = "list" => ListTypeOK
    /\ part = "composer" => ComposerTypeOK
    /\ part = "shell" => ShellTypeOK
    /\ part = "patch" => PatchTypeOK
    /\ part = "skills" => SkillsTypeOK
    /\ part = "models" => CatalogTypeOK
===============================================================================

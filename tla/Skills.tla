------------------------------- MODULE Skills -------------------------------
(***************************************************************************)
(* The skill playbooks (server/src/skills.ts): seeded from the repository  *)
(* at boot where they are missing, edited by the user and by the agent,    *)
(* listed in every prompt, loaded by name.                                 *)
(*                                                                         *)
(* A playbook is a file <name>.md or a directory <name> with SKILL.md and  *)
(* other parts.  Of a text only its author counts, and whether its         *)
(* frontmatter gives it a name of another file.                            *)
(***************************************************************************)
EXTENDS Naturals, FiniteSets

CONSTANTS
    Stems,        \* the names of files and directories
    SeedFiles,    \* the stems that the repository has as a file
    SeedBundles,  \* those that it has as a directory
    Entry, Extra, \* SKILL.md and another part
    Called,       \* the name in the frontmatter of a text that is "misnamed"
    MaxEditsOfSkills, MaxDeaths  \* bounds

ASSUME SkillsAssumption ==
    /\ SeedFiles \cup SeedBundles \subseteq Stems
    /\ Called \in [Stems -> Stems] /\ Entry # Extra
    /\ MaxEditsOfSkills \in Nat /\ MaxDeaths \in Nat

VARIABLES
    skillFile,   \* the text of <stem>.md
    skillDir,    \* the parts in the directory <stem>
    skillDirs,   \* the directories there are, empty ones too
    seeding,     \* seed() at boot: the entries to go, and the copy under way
    edited,      \* history: what the user or the agent wrote last
    deleted,     \* history: the parts they deleted, of directories they left
    skillEdits, deaths

history == <<edited, deleted>>
skillVars == <<skillFile, skillDir, skillDirs, seeding, history, skillEdits, deaths>>

Parts == {Entry, Extra}
Texts == {"none", "seed", "own", "misnamed"}
Missing == [p \in Parts |-> "none"]
NoCopy == [stem |-> "none"]
NotSeeding == [at |-> "up"]

FileEntry(s) == [kind |-> "file", stem |-> s]
BundleEntry(s) == [kind |-> "bundle", stem |-> s]
Entries == {FileEntry(s) : s \in SeedFiles} \cup {BundleEntry(s) : s \in SeedBundles}

BootSeeding == [at |-> "seeding", todo |-> Entries, copy |-> NoCopy]

SkillsInit ==
    /\ skillFile = [s \in Stems |-> "none"]
    /\ skillDir = [s \in Stems |-> Missing] /\ skillDirs = {}
    /\ seeding = BootSeeding
    /\ edited = {} /\ deleted = {}
    /\ skillEdits = 0 /\ deaths = 0

-----------------------------------------------------------------------------
(* seed().                                                                 *)

\* copyFile() with COPYFILE_EXCL.
SeedFile(s) ==
    /\ seeding.at = "seeding" /\ seeding.copy = NoCopy
    /\ FileEntry(s) \in seeding.todo
    /\ seeding' = [seeding EXCEPT !.todo = @ \ {FileEntry(s)}]
    /\ skillFile' = [skillFile EXCEPT ![s] = IF @ = "none" THEN "seed" ELSE @]
    /\ UNCHANGED <<skillDir, skillDirs, history, skillEdits, deaths>>

\* A slip of Present: a directory without its SKILL.md is no skill.
PresentWithEntry(s) == skillDir[s][Entry] # "none"

\* access(destDir): a directory that is there is left alone, whatever is in it.
Present(s) == s \in skillDirs

\* fs.cp() makes the directory before it copies.
SeedBundle(s) ==
    /\ seeding.at = "seeding" /\ seeding.copy = NoCopy
    /\ BundleEntry(s) \in seeding.todo
    /\ seeding' = [seeding EXCEPT
                      !.todo = @ \ {BundleEntry(s)},
                      !.copy = IF Present(s) THEN @ ELSE [stem |-> s, left |-> Parts]]
    /\ skillDirs' = skillDirs \cup {s}
    /\ UNCHANGED <<skillFile, skillDir, history, skillEdits, deaths>>

\* It copies file after file, and over what is there.
CopyPart(p) ==
    /\ seeding.at = "seeding" /\ seeding.copy # NoCopy /\ p \in seeding.copy.left
    /\ LET s == seeding.copy.stem
           left == seeding.copy.left \ {p}
       IN /\ skillDir' = [skillDir EXCEPT ![s][p] = "seed"]
          /\ seeding' = [seeding EXCEPT !.copy = IF left = {} THEN NoCopy
                                                 ELSE [stem |-> s, left |-> left]]
    /\ UNCHANGED <<skillFile, skillDirs, history, skillEdits, deaths>>

Seeded ==
    /\ seeding.at = "seeding" /\ seeding.todo = {} /\ seeding.copy = NoCopy
    /\ seeding' = NotSeeding
    /\ UNCHANGED <<skillFile, skillDir, skillDirs, history, skillEdits, deaths>>

\* The server is killed, or restarted, and seeds again.
SkillsRestart ==
    /\ deaths < MaxDeaths
    /\ deaths' = deaths + 1
    /\ seeding' = BootSeeding
    /\ UNCHANGED <<skillFile, skillDir, skillDirs, history, skillEdits>>

-----------------------------------------------------------------------------
(* The user and the agent, while the server is up.                         *)

EditSkillFile(s, text) ==
    /\ seeding = NotSeeding /\ skillEdits < MaxEditsOfSkills
    /\ skillEdits' = skillEdits + 1
    /\ skillFile' = [skillFile EXCEPT ![s] = text]
    /\ edited' = IF text \in {"own", "misnamed"} THEN edited \cup {<<s>>} ELSE edited \ {<<s>>}
    /\ UNCHANGED <<skillDir, skillDirs, deleted, seeding, deaths>>

WritePart(s, p, text) ==
    /\ seeding = NotSeeding /\ skillEdits < MaxEditsOfSkills
    /\ skillEdits' = skillEdits + 1
    /\ skillDir' = [skillDir EXCEPT ![s][p] = text]
    /\ skillDirs' = skillDirs \cup {s}
    /\ edited' = edited \cup {<<s, p>>} /\ deleted' = deleted \ {<<s, p>>}
    /\ UNCHANGED <<skillFile, seeding, deaths>>

\* The directory stays, also when it is empty now.
DeletePart(s, p) ==
    /\ seeding = NotSeeding /\ skillEdits < MaxEditsOfSkills
    /\ skillDir[s][p] # "none"
    /\ skillEdits' = skillEdits + 1
    /\ skillDir' = [skillDir EXCEPT ![s][p] = "none"]
    /\ edited' = edited \ {<<s, p>>} /\ deleted' = deleted \cup {<<s, p>>}
    /\ UNCHANGED <<skillFile, skillDirs, seeding, deaths>>

\* The next boot seeds it again, if it is the repository's.
DeleteSkillDir(s) ==
    /\ seeding = NotSeeding /\ skillEdits < MaxEditsOfSkills
    /\ s \in skillDirs
    /\ skillEdits' = skillEdits + 1
    /\ skillDir' = [skillDir EXCEPT ![s] = Missing] /\ skillDirs' = skillDirs \ {s}
    /\ LET parts == {<<s, p>> : p \in Parts}
       IN edited' = edited \ parts /\ deleted' = deleted \ parts
    /\ UNCHANGED <<skillFile, seeding, deaths>>

SkillsNext ==
    \/ \E s \in Stems : SeedFile(s) \/ SeedBundle(s)
    \/ \E p \in Parts : CopyPart(p)
    \/ Seeded \/ SkillsRestart
    \/ \E s \in Stems, text \in {"none", "own", "misnamed"} : EditSkillFile(s, text)
    \/ \E s \in Stems, p \in Parts :
          DeletePart(s, p) \/ \E text \in {"own", "misnamed"} : WritePart(s, p, text)
    \/ \E s \in Stems : DeleteSkillDir(s)

SkillsSpec == SkillsInit /\ [][SkillsNext]_skillVars

-----------------------------------------------------------------------------
(* list() and load().                                                      *)

\* The text that the playbook of a stem has: the file wins over the directory.
Playbook(s) == IF skillFile[s] # "none" THEN skillFile[s] ELSE skillDir[s][Entry]

\* The names in the prompt's table; load() goes by the stem.
Listed ==
    {IF Playbook(s) = "misnamed" THEN Called[s] ELSE s :
        s \in {t \in Stems : Playbook(t) # "none"}}

Loadable == {s \in Stems : Playbook(s) # "none"}

-----------------------------------------------------------------------------
(* Properties.                                                             *)

SkillsTypeOK ==
    /\ skillFile \in [Stems -> Texts] /\ skillDir \in [Stems -> [Parts -> Texts]]
    /\ skillDirs \subseteq Stems /\ \A s \in Stems \ skillDirs : skillDir[s] = Missing
    /\ seeding.at \in {"seeding", "up"}
    /\ seeding.at = "seeding" =>
          seeding.todo \subseteq Entries /\ (seeding.copy = NoCopy \/ seeding.copy.stem \in Stems)

\* User edits and skills generated at runtime "survive restarts and upgrades" and
\* a bundle "is never partially clobbered" (skills.ts:6-8, 33-40): what the user or
\* the agent wrote last is there, also in a bundle of which other parts are gone,
\* and a part they deleted stays gone while they leave the directory, even empty --
\* although a restart cuts a seeding short and later ones seed again.  Their edits
\* come while the server is up, not while it seeds.
EditsSurvive ==
    /\ \A s \in Stems : <<s>> \in edited => skillFile[s] \in {"own", "misnamed"}
    /\ \A s \in Stems, p \in Parts :
          /\ <<s, p>> \in edited => skillDir[s][p] \in {"own", "misnamed"}
          /\ <<s, p>> \in deleted => skillDir[s][p] = "none"

\* Not so: a bundle is "copied as a whole directory tree" when it is not there
\* yet (skills.ts:38-39).  When the process dies
\* while it is copied, the directory exists and what is missing stays missing.
BundlesAreWhole ==
    seeding = NotSeeding /\ skillEdits = 0 =>
        \A s \in SeedBundles : \A p \in Parts : skillDir[s][p] # "none"

\* Not so: when a row of the list matches, 'call skill("name")' loads its playbook
\* (skills.ts:216): a playbook is listed under the name in its frontmatter and
\* loaded under that of its file.
ListedIsLoadable == Listed \subseteq Loadable
===============================================================================

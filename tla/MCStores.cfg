SPECIFICATION MCSpec
CONSTANTS
    \* MemoryFiles
    Calls = {v1, v2}
    Paths = {obs, index}
    WriteListed = {index}
    Lines = {1, 2, 3, 4}
    CommitEvery = 2
    MaxFileOps = 3
    MaxMishaps = 1
    \* LtmStore
    LastTurn = 3
    t1 = t1
    t2 = t2
    inAcme = inAcme
    inInitech = inInitech
    asInitech = asInitech
    Talkers = {t1, t2}
    ChatOf <- MCChatOf
    Facts = {inAcme, inInitech, asInitech}
    Says <- MCSays
    Nothing = nothing
    Slots <- MCSlots
    Canonical <- MCCanonical
    Legacy = {asInitech}
    Workers = {w1, w2}
    MaxRuns = 3
    MaxFolds = 1
    MaxCuts = 1
    MaxOrders = 2
    \* SessionFile
    UserTitles = {u1}
    Generated = gen
    NoTitle = none
    FileModes = {yolo, ask}
    Yolo = yolo
    InitialMode = ask
    Dirs = {d1, d2}
    Requests = {r1, r2}
    KeepBackups = 1
    MaxAnswers = 1
    MaxEvents = 3
    \* ClientTranscript
    Chats = {c1, c2}
    NoChat = nochat
    MaxMessages = 2
    MaxSelects = 2
    MaxDrops = 1
    \* SessionList
    MaxFetches = 2
    MaxClicks = 1
    MaxHappenings = 2
    MaxFailures = 1
    \* Composer
    OldChat = 1
    HomeDir = home
    PickedDirs = {pd}
    NoDir = nodir
    MaxChats = 3
    MaxTexts = 2
    MaxLooks = 2
    MaxDeeds = 3
    MaxFlops = 1
    \* PatchTool
    la = la
    lb = lb
    lab = lab
    ff = ff
    fg = fg
    ToolCalls = {k1, k2}
    WorkFiles = {ff, fg}
    TextLines = {la, lb, lab}
    Absent = absent
    Holding <- MCHolding
    Replacement <- MCReplacement
    Contents <- MCContents
    Patches <- MCPatches
    Edits <- MCEdits
    MaxToolCalls = 2
    \* SessionReader
    MaxEntries = 5
    MaxJumps = 2
    MaxTorn = 1
    \* Recall
    m1 = m1
    m2 = m2
    Notes = {m1, m2}
    OldNotes = {m2}
    NoteFile <- MCNoteFile
    Known = {g1}
    Askers = {a1}
    MaxCalls = 2
    MaxChanges = 1
    \* Compaction
    Windows = {16, 32}
    MaxOutput = 2
    Cushion = 4
    Floor = 8
    KeepRecent = 5
    Inputs = {1, 9}
    SummarySizes = {1, 4}
    MaxSends = 2
    MaxLoops = 1
    MaxModels = 1
    \* OfflineShell
    Builds = {1, 2}
    Policies = {1, 2}
    MaxVisits = 3
    MaxOutages = 2
    \* Skills
    x1 = x1
    x2 = x2
    Stems = {x1, x2}
    SeedFiles = {x2}
    SeedBundles = {x1}
    Entry = e
    Extra = x
    Called <- MCCalled
    MaxEditsOfSkills = 3
    MaxDeaths = 2
    \* ModelCatalog
    copilot = copilot
    anthropic = anthropic
    gpt = gpt
    preview = preview
    claude = claude
    Providers = {copilot, anthropic}
    Copilot = copilot
    Models = {gpt, preview, claude}
    ProviderOf <- MCProviderOf
    Static = {gpt, claude}
    Default = gpt
    Sibling <- MCSibling
    NoSibling = nosibling
    Sessions = {s1}
    KeyAskers = {k}
    MaxOffers = 1
    MaxBoots = 2
    MaxLogins = 1
INVARIANTS
    StoresTypeOK
    FilesSound
    LtmSound
    SessionFileSound
    RecallSound
    SettledShowsTheChat
    SettledListIsRight
    ComposerSound
    PatchAppliesAsItReads
    FreshPageWorks
    EditsSurvive
    OverflowIsSettled
    SessionsStayUsable
PROPERTY
    ReaderSound
CHECK_DEADLOCK FALSE

SPECIFICATION Spec
CONSTANTS
    i1 = i1
    i2 = i2
    i3 = i3
    NoText = NoText
    NoId = NoId
    NoDir = NoDir
    Nothing = Nothing
    UidModulus = 8
    Depth = 2
    MaxLinks = 2
    DefaultSanctuary = "/var/lib/voix"
    DefaultPaths <- MCDefaultPaths
    Texts <- MCTexts
    Globs = {"*"}
    Number <- MCNumber
    UserDb <- MCUserDb
    GroupDb <- MCGroupDb
    Colon <- MCColon
    GoodEnv = {"K=v"}
    Syscalls = {"ptrace"}
    Regexes = {"^sh"}
    Absolute <- MCAbsolute
    Dirs <- MCDirs
    UserDirs = {"/home", "here"}
    Cwd = "here"
    Names = {"sh", "rm", "mkfs"}
    Inodes <- MCInodes
    Spell <- MCSpell
    Destructive = {"mkfs"}
    RegexHits <- MCRegexHits
    Programs = {"old", "new"}
    Scenarios <- MCScenarios
CHECK_DEADLOCK FALSE
INVARIANTS
    TypeOK
    ConfigTrusted
    
    WellKeptLoads
    EntriesMeanWhatTheySay
    ProfilesUsable
    SearchFindsFirst
    SameProgram
    
    

\* Two processes, a table of three entries, names of at most two components.
CONSTANTS
    Tasks = {t1, t2}
    Names = {"a", "b", "long"}
    BadNames = {"bad"}
    Size <- MCSize
    NameBuffer = 1
    Prefix <- MCPrefix
    PFS_NAME_MAX = 4
    APP_CWD_MAX = 8
    PFS_ENTRY_COUNT = 3
    UsedPaths <- MCPaths
    ListPaths <- MCListPaths
    DeepPaths <- MCDeepPaths
    Walkers = {t1}
    BootEntries <- MCBoot
SPECIFICATION Spec
INVARIANTS
    TypeOK
    ResolvesRight
    FileHasParent
    WalkComplete
    MkdirsComplete

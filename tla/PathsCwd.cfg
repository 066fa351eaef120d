\* As in Paths.cfg, with a cwd buffer shorter than the longest name, as in the kernel.
CONSTANTS
    Tasks = {t1, t2}
    Names = {"a", "b", "long"}
    BadNames = {"bad"}
    Size <- MCSize
    NameBuffer = 1
    Prefix <- MCPrefix
    PFS_NAME_MAX = 4
    APP_CWD_MAX = 6
    PFS_ENTRY_COUNT = 3
    UsedPaths <- MCPaths
    ListPaths <- MCListPaths
    DeepPaths <- MCDeepPaths
    Walkers = {t1}
    BootEntries <- MCBoot
SPECIFICATION Spec
INVARIANTS
    NeverPanics

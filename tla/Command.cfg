\* Three processes deep, descriptors for two captures, one inside the other.
CONSTANTS
    APP_ENV_COUNT = 2
    Keys = {"PATH", "A", "B", "K="}
    Values = {"v1", "v2"}
    Absent = "absent"
    BadKeys = {"K="}
    ENV <- MCENV
    APP_FD_COUNT = 12
    APP_PIPE_COUNT = 6
    APP_PIPE_BUFFER_SIZE = 2
    Files = {"f1", "f2"}
    MaxDepth = 3
    Budget = 4
    Dirs = {"d1"}
    Requests <- MCRequests
    Shells = {1}
    Settings <- MCSettings
    WriteSizes = {1, 2}
    CHUNK = 1
    RYSH_CHUNK = 1
SPECIFICATION Spec
INVARIANTS
    TypeOK
    RestoredOnReturn
    NoFdLeak
    CaptureComplete
    StdUsable
    ChildSeesRequest
    EnvConsistent

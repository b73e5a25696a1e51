SPECIFICATION ClusterSpec
CONSTANTS
    n1 = n1
    n2 = n2
    k1 = k1
    Nodes = {n1, n2}
    Leaving = {n1}
    Readying = {n2}
    MaxFaults = 1
    Keys = {k1}
    Workers = 2
    ShardOf <- MCShardOf
    KeyGetter = FALSE
    ShardCap = 1
    MaxWrites = 3
    MaxDirFaults = 1
    Listeners = {"a", "b"}
    Elsewhere = {"b"}
    Modules = {1}
    Names = {"x", "y"}
    Types = {"t"}
    BatchTypes = {"t"}
    ServerScoped = {}
    BatchSize = 2
    Uids = {"u", "v"}
    MaxCalls = 3
    MaxEvents = 2
    MaxBusFaults = 1
    Snapshots = {"wide", "narrow", "bad", "garbled"}
    Garbled = "garbled"
    RolesOf <- MCRolesOf
    BindingsOf <- MCBindingsOf
    ServiceTypes = {"game", "gate"}
    Targets <- MCTargets
    FailOpen = FALSE
    LoadTimeout = FALSE
    MaxEdits = 3
    MaxLocal = 1
    MaxBreaks = 1
CONSTRAINT Explore
INVARIANTS
    EpochsSound
    SendsSound
    EventsSound
PROPERTIES
    LeadershipSettles
    ViewConverges
    EventsArrive
    PolicyFollowed
CHECK_DEADLOCK FALSE

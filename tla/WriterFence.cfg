SPECIFICATION FairSpec
CONSTANTS
    Runtime = {r1, r2}
    Capability = {put}
    Exports <- SameExports
    Command = {c1, c2}
    NoOne = NoOne
    NoCommand = NoCommand
    FailureLimit = 1
    HeartbeatLimit = 1
    MaxEpoch = 2
    MaxCrash = 1
INVARIANTS IInv
PROPERTIES ImplementsSingleWriter RegistryUnblocks
CHECK_DEADLOCK FALSE

SPECIFICATION FairSpec
CONSTANTS
    older = older
    newer = newer
    cli = cli
    Procs = {older, newer, cli}
    CommandLine = {cli}
    NoOne = NoOne
    Dead = Dead
    Latest = 3
    Release <- MCRelease
    Alters = {2}
    HermesAdds = {2}
    Retention = 1
    MaxOpens = 3
    MaxFaults = 1
CHECK_DEADLOCK FALSE
INVARIANTS
    EffectOnce
    ReadyIsCurrent
PROPERTIES
    ChangedWithBackup
    ImplementsHistory
    StartEnds

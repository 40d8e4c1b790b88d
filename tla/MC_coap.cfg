SPECIFICATION FairSpec
CONSTANTS
    Threads = {t1}
    Daemon = d
    NoThread = none
    Remotes = {r1}
    IdMax = 3
    FirstIds = {2, 3}
    RetryMax = 1
    SendMax = {1, 2}
    ObsMax = 2
    Kinds = {"con", "non", "unobserve", "multicast"}
    PeerIds = {1}
    MaxSends = 2
INVARIANTS CoapInv OneOutcome ContextOutlivesDaemon
CHECK_DEADLOCK FALSE
PROPERTIES AcceptedIsSettled CallsReturn

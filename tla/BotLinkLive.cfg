CONSTANTS
    Leaf = {l1}
    GoodLeaf = {l1}
    Sock = {s1, s2, s3}
    None = None
    MaxLeaves = 1
    Commands = {"reconnect", "shutdown", "disconnectLeaf"}
    Faults = {"partition", "leafRestart", "hubRestart", "refused"}
    PromptEof = TRUE
SPECIFICATION FairSpec
PROPERTY Recovery
CHECK_DEADLOCK FALSE

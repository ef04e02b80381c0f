\* Two leaves with the password compete for the one slot of the hub.
CONSTANTS
    Leaf = {l1, l2}
    GoodLeaf = {l1, l2}
    Sock = {s1, s2, s3}
    None = None
    MaxLeaves = 1
    Commands = {"reconnect", "disconnectLeaf"}
    Faults = {"partition", "lateWelcome", "leafRestart", "hubRestart", "refused"}
    PromptEof = FALSE
SPECIFICATION Spec
SYMMETRY Symmetry
INVARIANTS TypeOK Capacity RegistryLive OneLink ConnectedIsAccepted


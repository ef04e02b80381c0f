\* A user of a leaf and one of the hub relay to any bot; links are lost and bots restart.
CONSTANTS
    west = west
    south = south
    hub = hub
    mod = mod
    admin = admin
    Leaf = {west, south}
    Hub = hub
    Handle = {mod, admin}
    Homes <- LeafAndHub
    SelfRelay = FALSE
    MaxFaults = 1
    MaxFrames = 2
SPECIFICATION Spec
INVARIANTS TypeOK RoutesLive NotStuck Paired

\* Three targets, at most three messages queued, a burst of one; a window may be as long
\* as one message costs.
CONSTANTS
    Target = {chan, nick, none}
    Cost = 2
    Burst = 1
    MaxDepth = 3
    Ids = 5
    MaxWindow = 2
SPECIFICATION FairSpec
INVARIANTS TypeOK Consistent Fifo WireRate
PROPERTY NoStarvationByOne

\* Three targets, of which two take turns in leaving the rotation.
CONSTANTS
    Target = {chan, nick, none}
    Cost = 2
    Burst = 1
    MaxDepth = 3
    Ids = 5
    MaxWindow = 0
SPECIFICATION FairSpec
PROPERTY NoStarvation

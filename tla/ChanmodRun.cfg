CONSTANTS
    den = den
    Chans = {den}
    Configs <- Instances
    MaxOut = 2
    MaxRejoins = 1
SPECIFICATION ChanmodFairSpec
INVARIANT Restrained
PROPERTIES Returns Settles
CHECK_DEADLOCK FALSE

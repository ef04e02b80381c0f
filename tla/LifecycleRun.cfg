\* Two channels, plaintext in bot.json, two retries of either kind, one restart.
CONSTANTS
    den = den
    hall = hall
    Channels = {den, hall}
    ConfigTls = FALSE
    MaxRetries = 2
    MaxStartup = 2
    MaxStarts = 2
SPECIFICATION FairSpec
INVARIANT OneLife
PROPERTIES NeverStuck Joined
CHECK_DEADLOCK FALSE

\* Two nicks and two ports; NickServ knows only the other command.
CONSTANTS
    first = first
    second = second
    gate = gate
    join = join
    mod = mod
    admin = admin
    Nick = {mod, admin}
    Request = {first, second, gate, join}
    Dcc = {first, second}
    About <- Asks
    ServicesType = "atheme"
    Supports = {"status"}
    Port = {1, 2}
    PortsContested = TRUE
    MaxSessions = 1
    NickservVerify = TRUE
    LinesPerTick = 2
SPECIFICATION Spec
INVARIANTS TypeOK TableAgrees RegisteredOpen PartyCounts PortsAccounted OneAtATime DetachCloses
PROPERTIES Admitted RequestsEnd
CHECK_DEADLOCK FALSE

\* One leaf whose user gives .bot for the other, both use commands of the hub.
CONSTANTS
    asker = asker
    peer = peer
    Leaf = {asker, peer}
    Hub = hub
    Routed = {asker}
    MaxRequests = 2
    MaxSessions <- OneSession
    MaxFaults = 1
    MaxFrames = 1
SPECIFICATION Spec
INVARIANTS AnswerMatches NotForgotten NoGhosts

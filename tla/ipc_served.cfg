SPECIFICATION FairSpec
CONSTANTS
    focus = focus
    switch = switch
    bad = bad
    quit = quit
    Clients = {c1, c2}
    Commands = {focus, switch, bad, quit}
    NoCommand = NoCommand
    Malformed = {bad}
    Quits = {quit}
    Size <- PayloadSizes
    ReplySize <- ReplySizes
    MaxFds = 2
INVARIANTS
    TypeOK
    RunsWhole
PROPERTIES
    ImplementsRequest
    ClientReturns
CHECK_DEADLOCK FALSE

SPECIFICATION Spec
CONSTANTS
    focus = focus
    switch = switch
    bad = bad
    quit = quit
    Clients = {c1}
    Commands = {focus, switch, bad, quit}
    NoCommand = NoCommand
    Malformed = {bad}
    Quits = {quit}
    Size <- PayloadSizes
    ReplySize <- ReplySizes
    MaxFds = 2
INVARIANT
    ReplyDelivered
CHECK_DEADLOCK FALSE

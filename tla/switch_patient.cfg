SPECIFICATION FairHistorySpec
CONSTANTS
    NoOutput = NoOutput
    Views = {v1, v2}
    Outputs = {o1, o2, o3}
    WorkspaceNr = 2
    MaxWorkspaces = 3
    MaxTasks = 2
    Unplugging = TRUE
    Rushed = FALSE
    Disturbed = FALSE
INVARIANTS
    SwitchHonoured
    OneWorkspaceShown
    OutputKept
    NoDanglingOutput
PROPERTIES
    LeaveCompletes

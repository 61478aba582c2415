SPECIFICATION HistorySpec
CONSTANTS
    NoOutput = NoOutput
    Views = {v1, v2}
    Outputs = {o1}
    WorkspaceNr = 3
    MaxWorkspaces = 3
    MaxTasks = 4
    Unplugging = FALSE
    Rushed = TRUE
    Disturbed = FALSE
INVARIANT
    SwitchHonoured

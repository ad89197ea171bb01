CONSTANTS
    k1 = k1
    Cmds <- MCCmds
    Levels <- MCLevels
SPECIFICATION Spec
CHECK_DEADLOCK FALSE
INVARIANT
    FuncRunsOnlyWhenAllowed
    AllowedCommandsRun

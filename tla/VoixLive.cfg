SPECIFICATION FairSpec
CONSTANTS
    p1 = p1
    p2 = p2
    edit = edit
    backup = backup
    wipe = wipe
    NoCmd = NoCmd
    NoUid = NoUid
    NoRule = NoRule
    Procs = {p1}
    Requests <- MCRequests
    Commands <- MCCommands
    Catastrophic = {wipe}
    Names = {"root"}
    Uids = {0, 1000}
    Accounts = {0, NoUid}
    Rules <- MCRules
    Policy <- MCPolicy
    Root = 0
CHECK_DEADLOCK FALSE
PROPERTY Terminates

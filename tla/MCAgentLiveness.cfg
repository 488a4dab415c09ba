SPECIFICATION FairSpec
CONSTANTS
    a = a
    b = b
    r1 = r1
    r2 = r2
    Tasks = {1, 2, 3}
    Orgs = {a, b}
    OrgOf <- MCOrgOf
    Runners <- MCRunners
    TickSize = 1
    MaxSteps = 1
    MaxHuman = 2
    Events = {"runNow"}
    Idle = Idle
PROPERTIES TasksPickedUp ClaimedTaskSettles
CHECK_DEADLOCK FALSE

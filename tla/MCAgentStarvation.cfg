SPECIFICATION FairSpec
CONSTANTS
    a = a
    b = b
    r1 = r1
    r2 = r2
    Tasks = {1, 2, 3}
    Orgs = {a, b}
    OrgOf <- MCOlderOfA
    Runners <- MCRunners
    TickSize = 2
    MaxSteps = 1
    MaxHuman = 1
    Events = {"killSwitch"}
    Idle = Idle
PROPERTY TasksPickedUp
CHECK_DEADLOCK FALSE

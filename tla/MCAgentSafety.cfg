SPECIFICATION Spec
CONSTANTS
    a = a
    b = b
    r1 = r1
    r2 = r2
    Tasks = {1, 2}
    Orgs = {a}
    OrgOf <- MCOneOrg
    Runners <- MCRunners
    TickSize = 2
    MaxSteps = 2
    MaxHuman = 1
    Events = {"killSwitch", "badRun", "moves", "runNow", "humanMoves", "dbError", "crash"}
    Idle = Idle
SYMMETRY Symmetry
INVARIANTS HaltWithinOneStep TaskHasRunner ConcurrentRunHasCause
CHECK_DEADLOCK FALSE

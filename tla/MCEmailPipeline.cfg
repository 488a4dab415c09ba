SPECIFICATION FairSpec
CONSTANTS
    e1 = e1  e2 = e2  e3 = e3  s1 = s1  s2 = s2  acme = acme  globex = globex
    Emails = {e1, e2}
    Orgs = {acme}
    OrgOf <- MCOrgOf
    Senders = {s1, s2}
    TickSize = 2
    MaxHuman = 1
    Events = {"crash", "dbError", "lostReply", "pause"}
    Idle = Idle
INVARIANTS DuplicateHasCause FirstHoldIsCancellable
PROPERTIES ImplementsOutbox QueueDrains
CHECK_DEADLOCK FALSE

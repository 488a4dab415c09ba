SPECIFICATION FairSpec
CONSTANTS
    i1 = i1  i2 = i2  i3 = i3  p1 = p1  p2 = p2  web = web  linkedin = linkedin
    Items = {i1, i2}
    Publishers = {p1, p2}
    Channels = {web}
    ChannelOf <- MCChannelOf
    Exempt = {}
    MaxPostsPerDay = 1
    MaxAttempts = 2
    TickSize = 1
    MaxHuman = 0
    Events = {"lostReply", "pause"}
    Idle = Idle
PROPERTY EveryItemSettles
CHECK_DEADLOCK FALSE

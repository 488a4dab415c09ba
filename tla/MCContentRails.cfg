SPECIFICATION Spec
CONSTANTS
    i1 = i1  i2 = i2  i3 = i3  p1 = p1  p2 = p2  web = web  linkedin = linkedin
    Items = {i1, i2, i3}
    Publishers = {p1, p2}
    Channels = {web, linkedin}
    ChannelOf <- MCChannelOf
    Exempt = {}
    MaxPostsPerDay = 1
    MaxAttempts = 1
    TickSize = 2
    MaxHuman = 1
    Events = {"killSwitch", "midnight"}
    Idle = Idle
SYMMETRY Symmetry
INVARIANTS CapOvershootBounded HaltWithinOnePost
CHECK_DEADLOCK FALSE

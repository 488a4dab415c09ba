SPECIFICATION Spec
CONSTANTS
    b1 = b1
    b2 = b2
    c1 = c1
    c2 = c2
    Browsers <- MCBrowsers
    Calls <- MCCalls
    MaxToken = 3
PROPERTY RefusedMeansGone

SPECIFICATION BrowserSpec
CONSTANTS
    r1 = r1  r2 = r2  j1 = j1  j2 = j2  g1 = g1  g2 = g2
    None = None
    Requests <- MCRequests
    Bodies <- MCBodies
    MaximumQueueSize = 2
    MaximumResponses = 2
    MaximumStreamingBytes = 6
    MaximumFrames = 3
    MaxNoise = 1
    MaxTicks = 2
    Traffic <- MCTraffic
    Describe <- MCDescribe
    Causes <- MCCauses
    Providers = {"betano-pt", "betclic-pt"}
    RouteCount = 2
    Limits <- MCLimits
    QueueLimit = 2
    MaxPolls = 1
    Scripts <- MCScripts
    MaximumSeen = 5
    MaximumScripts = 2
    MaximumChars = 3
    MaximumTotalChars = 3
    MaximumScriptQueue = 2
SYMMETRY Alike
CHECK_DEADLOCK FALSE
INVARIANTS PassivelyObserved BodiesRetained EveryResponseAccounted

SPECIFICATION Spec
CONSTANTS
    s1 = s1  d1 = d1  client = client  h1 = h1  h2 = h2  h3 = h3
    None = None
    Client = client
    Devices = {d1}
    Shells = {s1}
    Handles = {h1, h2, h3}
    Peer <- TwoTabsAndShell
    Traffic <- TakeoverTraffic
    MaxSends = 1
PROPERTIES
    OnlyEstablishedAreRouted
CHECK_DEADLOCK FALSE

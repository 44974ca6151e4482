\* With a thread open and without: two messages, an expiry, a lost connection, two failed
\* refreshes, a message of the member, timers; two of these events at most, or four.
CONSTANTS
    k1 = k1  k2 = k2  k3 = k3  h1 = h1
    None = None
    Sockets = {k1, k2, k3}
    Reloads = {h1}
    Pages = {TRUE, FALSE}
    MaxSends = 2
    MaxPresses = 2
    MaxTheirs = 1
    PageSize = 2
    Slow = TRUE
    MaxExpiries = 1
    MaxDrops = 1
    MaxRefusals = 2
    MaxLost = 0
    MaxEvents <- MCEvents
SPECIFICATION Spec
INVARIANTS
    SentOnce
PROPERTIES
    TabHeals
CHECK_DEADLOCK FALSE

\* Admins deleting each other and resetting passwords; push jobs; an open chat thread.
CONSTANTS
    s1 = s1  s2 = s2  c1 = c1  c2 = c2
    Nobody = Nobody
    Admins = {s1, s2}
    Supers = {s1, s2}
    Calls = {c1, c2}
    LastSecond = 1
    MaxResets = 2
    \* One push job for two members with two phones, attempted three times, handed out again once.
    ann = ann  bob = bob  t1 = t1  t2 = t2  j1 = j1  w1 = w1
    Nothing = Nothing
    Members = {ann, bob}
    Tokens = {t1, t2}
    Jobs = {j1}
    Workers = {w1}
    MaxAttempts = 3
    MaxStalls = 1
    \* An open thread, two messages of the member, an expiry, a lost connection, a lost event, timers.
    k1 = k1  k2 = k2  k3 = k3  h1 = h1  h2 = h2
    None = None
    Sockets = {k1, k2, k3}
    Reloads = {h1, h2}
    Pages = {TRUE}
    MaxEvents <- MCEvents
    MaxSends = 0
    MaxPresses = 1
    MaxTheirs = 2
    PageSize = 1
    Slow = TRUE
    MaxExpiries = 1
    MaxDrops = 1
    MaxRefusals = 0
    MaxLost = 1
SPECIFICATION MCSpec
CONSTRAINT MCBound
SYMMETRY MCSymmetry
INVARIANTS
    SuperAdminRemains NoOlderSession ResentOnlyIfBroken ThreadCatchesUp
PROPERTIES
    WorkingTokenStays
CHECK_DEADLOCK FALSE

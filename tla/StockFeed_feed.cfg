\* Two stocks, a browser, two refreshes at once.
CONSTANTS
    k1 = k1  k2 = k2  b1 = b1
    Stocks = {k1, k2}
    Browsers = {b1}
    MaxRefreshes = 2
SPECIFICATION Spec
INVARIANTS
    BrowsersFollow
PROPERTIES
    FollowedAgain ClosedIsTold
CHECK_DEADLOCK FALSE

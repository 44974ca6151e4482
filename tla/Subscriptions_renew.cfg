\* Purchases, extensions, grants and imports of one member, in any order.
CONSTANTS
    r1 = r1  r2 = r2  r3 = r3  r4 = r4  o1 = o1  o2 = o2  p1 = p1  p2 = p2  p3 = p3
    ann = ann  bob = bob  c1 = c1  c2 = c2
    None = None
    Rows = {r1, r2, r3}
    Orders = {o1, o2}
    Payments = {p1, p2}
    Admins = {ann, bob}
    Crons = {}
    Dates <- MCToday
    LastDay = 1
    Duration = 1
    Week = 1
SYMMETRY Symmetry
SPECIFICATION Spec
INVARIANTS PaidOrderGrantsOnce LaterExtensionWins
PROPERTIES RenewalKeepsDays
CHECK_DEADLOCK FALSE

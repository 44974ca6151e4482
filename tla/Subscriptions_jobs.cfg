\* Fairness: the two daily jobs on two cron processes, one purchase, the member's standing changing.
CONSTANTS
    r1 = r1  r2 = r2  r3 = r3  r4 = r4  o1 = o1  o2 = o2  p1 = p1  p2 = p2  p3 = p3
    ann = ann  bob = bob  c1 = c1  c2 = c2
    None = None
    Rows = {r1, r2}
    Orders = {o1}
    Payments = {p1}
    Admins = {}
    Crons = {c1, c2}
    Dates <- MCToday
    LastDay = 1
    Duration = 1
    Week = 1
SPECIFICATION FairSpec
INVARIANTS MailedOnce
PROPERTIES ToldBeforeClosed CaptureIsGranted LapsedRowCloses
CHECK_DEADLOCK FALSE

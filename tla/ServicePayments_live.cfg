\* Fairness: one payment, webhook only or verify.
CONSTANTS
    o1 = o1  o2 = o2  p1 = p1  p2 = p2  t1 = t1  t2 = t2  h1 = h1  h2 = h2
    chief = chief  staff = staff
    None = None
    MaxQuotes = 1
    Orders = {o1}
    Payments = {p1}
    Taps = {t1}
    Hooks = {h1}
    Admins = {chief}
    SuperAdmins = {chief}
    AmountMatches <- MCExact
    ExtraCapture = FALSE
SPECIFICATION FairSpec
PROPERTIES
    EveryPaymentDecided LapsedQuoteLeaves

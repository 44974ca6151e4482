\* Two quotes, two taps on Pay, two payments of any amount, one webhook handler.
CONSTANTS
    o1 = o1  o2 = o2  p1 = p1  p2 = p2  t1 = t1  t2 = t2  h1 = h1  h2 = h2
    chief = chief  staff = staff
    None = None
    MaxQuotes = 2
    Orders = {o1, o2}
    Payments = {p1, p2}
    Taps = {t1, t2}
    Hooks = {h1}
    Admins = {chief}
    SuperAdmins = {chief}
    AmountMatches <- MCAnyAmount
    ExtraCapture = FALSE
SPECIFICATION Spec
CONSTRAINT MCBound
SYMMETRY Symmetry
INVARIANTS
    PaidExactlyOnce OneOrderToPay MoneyAccounted QuoteMatchesStatus ExpiryLeavesPayers
PROPERTIES
    KeepsPromise

CONSTANTS
  p1 = p1
  p2 = p2
  e1 = e1
  e2 = e2
  g1 = g1
  t1 = t1
  t2 = t2
  c1 = c1
  c2 = c2
  None = None
  Web = Web
  Phones = {p1, p2}
  Emails = {e1}
  Subs = {g1}
  Tokens = {t1, t2}
  Calls = {c1, c2}
  MaxTries = 1
  MaxCodes = 2
  MaxBeside = 2
SPECIFICATION Spec
SYMMETRY MCSymmetry
INVARIANTS ClaimIsWhole CodeIsCurrent
PROPERTY FirstClaimStays
CHECK_DEADLOCK FALSE

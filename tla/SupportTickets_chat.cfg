\* One ticket, three messages, an ordinary admin and a super admin, two calls at a time.
CONSTANTS
    c1 = c1  c2 = c2  ann = ann   chief = chief  mara = mara
    ask = ask  answer = answer  hint = hint
    None = None
    Admins = {ann, chief}
    SuperAdmins = {chief}
    Member = mara
    Messages = {ask, answer, hint}
    Writer <- MCWriter
    Calls = {c1, c2}
    Ratings = {1, 5}
    MaxHistory = 3
SYMMETRY Symmetry
SPECIFICATION Spec
INVARIANTS BadgesCount HistoryTellsOwner NoticesAreTrue
PROPERTIES OnlyOwnerActs
CHECK_DEADLOCK FALSE

\* Four posts and three slots; two members and an admin, three comments; two requests at a time.
CONSTANTS
    p1 = p1  p2 = p2  p3 = p3  p4 = p4  c1 = c1  c2 = c2  h1 = h1  h2 = h2
    ann = ann  bob = bob  adm = adm  like = like  x1 = x1  x2 = x2  x3 = x3
    None = None  Nil = Nil
    Posts = {p1, p2, p3, p4}
    Slots = 3
    Calls = {c1, c2}
    Members = {ann, bob}
    Admins = {adm}
    Kinds = {like}
    Comments = {x1, x2, x3}
    Talkers = {h1, h2}
SPECIFICATION PageSpec
CONSTRAINT MCBound
VIEW MCView
INVARIANTS
    NeverRefused CountsHeal ThreadsWhole RepliesKept
PROPERTIES
    KeepsTheBoard
CHECK_DEADLOCK FALSE

\* Two runs of the fan-out and the retry job on two members' rows.
CONSTANTS
    ann = ann  bob = bob  f1 = f1  f2 = f2  c1 = c1
    Members = {ann, bob}
    Audiences <- MCAudiences
    Fans = {f1, f2}
    Crons = {c1}
SPECIFICATION FairSpec
INVARIANTS MailedOnce FlagIsHonest
PROPERTIES PendingEnds

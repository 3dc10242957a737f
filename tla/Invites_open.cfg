SPECIFICATION Spec
CONSTANTS
    e1 = e1  e2 = e2  i1 = i1  i2 = i2  r1 = r1  r2 = r2
    Emails = {e1, e2}
    Seeded = {e1}
    AutoApproved = {e2}
    Invites = {i1, i2}
    Requests = {r1, r2}
    Sweeper = Sweeper
    MaxTokens = 3
    NoInvite = NoInvite  NoAccount = NoAccount  NoOp = NoOp  Free = Free
SYMMETRY MCSymmetry
INVARIANT OneOpenInvite
CHECK_DEADLOCK FALSE

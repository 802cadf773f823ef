\* One machine with a token, one with a code, and a desk.
CONSTANTS
    Machines = {m1, m2}
    Codes = {c1}
    PCs = {1, 2, 3}
    Tokens = {1, 2, 3, 4, 5, 6, 7}
    Slots = {s1, s2}
    Enrolling = {m1}
    None = None
    MaxDeskActions = 2
    MaxGiveUps = 1
SPECIFICATION FairSpec
INVARIANTS
    CredentialMatchesMachine
PROPERTIES
    StatusKept
    ComesBack

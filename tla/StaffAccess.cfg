\* Two users at one tab; the second failure locks, not the fifth.
CONSTANTS
    Users = {u1, u2}
    None = None
    MaxAttempts = 2
    MaxTroubles = 3
SPECIFICATION FairSpec
INVARIANTS
    NamesMatch
PROPERTIES
    KeptSignedIn
    BoardComesBack

\* Two jobs of any versions, one PC: two PCs write no common row.  The list
\* holds one of two open targets.
CONSTANTS
    PCs = {p1}
    Jobs = {j1, j2}
    Versions = {1, 2}
    Admins = {a1}
    None = None
    ListLimit = 1
SPECIFICATION Spec
INVARIANTS
    InstallationKeepsUp
PROPERTIES
    OverStaysOver
SYMMETRY Symmetry

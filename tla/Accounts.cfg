SPECIFICATION Spec
CONSTANTS
    Ids = {a, b}
    Passwords = {p}
    Tokens = {t1, t2}
    Reqs = {h1, h2}
    MaxFails = 1
    MaxEdits = 2
SYMMETRY Symmetry
INVARIANTS OwnerRemains NoStaleSession

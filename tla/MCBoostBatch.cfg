SPECIFICATION Spec
CONSTANTS
    Players = {p1, p2}
    Staff = {s1}
    MaxLevel = 1
    Nobody = Nobody
INVARIANTS
    AccountsAreTrue
PROPERTIES
    GoesOnServed

SPECIFICATION Spec
CONSTANTS
    Ids = {r1, r2}
    Commands = {c1, c2}
    NoIdentity = NoIdentity
    Owner = o1
    Others = {o2}
    MaxCount = 9
    MaxPolls = 2
SYMMETRY IdentitySymmetry
INVARIANTS
    OneOutcomePerAttempt
    CommitsWhatItPrepared
    BooksAgree
PROPERTIES
    ImplementsPhases

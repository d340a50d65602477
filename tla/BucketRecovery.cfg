\* Creations and writes race, deletions run alone, anything may crash.
SPECIFICATION Spec
CONSTANTS
    Reqs = {r1, r2, r3, r4}
    Accounts = {a, b}
    None = None
    Writers = {b}
    Kinds = {"create", "put", "putACL", "initiate", "delete", "get", "objectDelete"}
    Encrypts <- Never
    Legacy <- Either
    Upserts <- Either
    Discipline = "deletesAlone"
    Crashes = TRUE
SYMMETRY Symmetry
CHECK_DEADLOCK FALSE
INVARIANTS TypeOK KeptStands DeletionTakesNothing ListedOnlyWhileOwned
PROPERTY OnlyOwnerRevives

\* A creation with encryption that died is sent again.
SPECIFICATION Spec
CONSTANTS
    Reqs = {r1, r2}
    Accounts = {a, b}
    None = None
    Writers = {}
    Kinds = {"create"}
    Encrypts <- Always
    Legacy <- Never
    Upserts <- Never
    Discipline = "answered"
    Crashes = TRUE
SYMMETRY Symmetry
CHECK_DEADLOCK FALSE
INVARIANT EncryptionAsAsked

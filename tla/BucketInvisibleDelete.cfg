\* Clients wait for answers, but the shield deletes in the background.
SPECIFICATION Spec
CONSTANTS
    Reqs = {r1, r2, r3, r4}
    Accounts = {a, b}
    None = None
    Writers = {}
    Kinds = {"create", "delete", "get"}
    Encrypts <- Never
    Legacy <- Never
    Upserts <- Never
    Discipline = "answered"
    Crashes = TRUE
SYMMETRY Symmetry
CHECK_DEADLOCK FALSE
INVARIANT KeptStands

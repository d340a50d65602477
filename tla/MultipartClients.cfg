\* Clients that retry completes, with and without versioning, and clients that wait.
SPECIFICATION Spec
CONSTANTS
    Reqs = {r1, r2, r3, r4, r5}
    Uploads = {u1}
    Parts = {p1, p2}
    None = None
    MaxCompletes = 3
    Clients <- SafeClients
SYMMETRY Symmetry
CHECK_DEADLOCK FALSE
INVARIANTS NoDangling NoSharedData NoOrphanWhenAllSucceed
PROPERTY GoneForGood

\* A retried complete after another writer replaced the current version.
SPECIFICATION Spec
CONSTANTS
    Reqs = {r1, r2, r3, r4}
    Uploads = {u1}
    Parts = {p1}
    None = None
    MaxCompletes = 2
    Clients <- JustOvertaken
SYMMETRY Symmetry
CHECK_DEADLOCK FALSE
INVARIANT NoSharedData

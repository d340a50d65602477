\* Any requests in any order; under fairness a complete ends with the upload removed.
SPECIFICATION FairSpec
CONSTANTS
    Reqs = {r1, r2, r3}
    Uploads = {u1}
    Parts = {p1, p2}
    None = None
    MaxCompletes = 2
    Clients <- JustAnyone
CHECK_DEADLOCK FALSE
INVARIANTS TypeOK PutPartSparesCommitted
PROPERTY CompletionRemovesUpload

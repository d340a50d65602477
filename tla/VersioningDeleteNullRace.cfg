SPECIFICATION Spec
CONSTANTS
    Reqs = {r1, r2, r3}
    None = None
    Statuses = {"Enabled"}
    MaxChanges = 1
    Kinds = {"put", "deleteNull"}
    Discipline = "quietStatus"
    Crashes = FALSE
    Follows <- Either
SYMMETRY Symmetry
INVARIANT MasterIsLatestAtRest

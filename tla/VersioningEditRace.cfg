SPECIFICATION Spec
CONSTANTS
    Reqs = {r1, r2, r3}
    None = None
    Statuses = {}
    MaxChanges = 0
    Kinds = {"put", "edit"}
    Discipline = "quietStatus"
    Crashes = FALSE
    Follows <- Either
SYMMETRY Symmetry
INVARIANT OverwrittenForGood

SPECIFICATION Spec
CONSTANTS
    Reqs = {r1, r2, r3, r4}
    None = None
    Statuses = {"Enabled", "Suspended"}
    MaxChanges = 2
    Kinds = {"put", "delete", "deleteVersion"}
    Discipline = "quietStatus"
    Crashes = TRUE
    Follows <- Overwrites
SYMMETRY Symmetry
INVARIANTS NoDangling RecordsInOrder AcknowledgedKept OverwrittenForGood

SPECIFICATION Spec
CONSTANTS
    Reqs = {r1, r2, r3, r4, r5}
    None = None
    Statuses = {"Enabled", "Suspended"}
    MaxChanges = 3
    Kinds = {"put", "delete", "deleteVersion", "deleteNull", "edit"}
    Discipline = "sequential"
    Crashes = FALSE
    Follows <- Either
SYMMETRY Symmetry
INVARIANTS TypeOK RecordsInOrder DataStands
PROPERTY Implements

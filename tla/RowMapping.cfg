\* Every type and shape, two calls on the rows of two ids.
SPECIFICATION Spec
CONSTANTS
    Types = {"i64", "u64", "f64", "bool", "Option", "String", "DateTime", "Vec"}
    Shapes = {"flat", "renamed_pk", "renamed_column", "base"}
    Ids = {1, 2}
    None = None
    MaxCalls = 2
INVARIANTS TypeOK ReadBack ReplaySame
PROPERTY CreatedAtKept
CHECK_DEADLOCK FALSE

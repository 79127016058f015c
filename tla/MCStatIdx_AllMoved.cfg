\* When a comment of the code says that relations are to be merged.
SPECIFICATION Spec
CONSTANT Files <- Moves
INVARIANT MergeIfAllMoved
CHECK_DEADLOCK FALSE

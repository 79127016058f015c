\* What a comment of the code says of the finished index.
SPECIFICATION Spec
CONSTANT Files <- Moves
INVARIANT DoNotMerge
CHECK_DEADLOCK FALSE

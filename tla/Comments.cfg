CONSTANT MaxLen = 6
SPECIFICATION Spec
INVARIANT OneCommentHolds
CHECK_DEADLOCK FALSE

CONSTANT MaxLen = 6
SPECIFICATION Spec
INVARIANTS PacketsIntact ChecksumByWords HelpersKeepText ArraysAnswered ListsRearranged
CHECK_DEADLOCK FALSE

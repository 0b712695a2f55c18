SPECIFICATION STSpec
CONSTANT MaxChoices = 1
INVARIANT CommandIsEquivalent
CHECK_DEADLOCK FALSE

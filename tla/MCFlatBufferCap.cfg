SPECIFICATION Spec
CONSTANT
    b1 = b1
INVARIANT
    SizeIsCapped
CHECK_DEADLOCK FALSE

CONSTANT k1 = k1
SPECIFICATION KeysSpec
INVARIANT AssertionsHold
CHECK_DEADLOCK FALSE

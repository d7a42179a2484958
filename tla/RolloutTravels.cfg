SPECIFICATION Spec
CONSTANT MaxOdd = 1
INVARIANT EverythingTravels
CHECK_DEADLOCK FALSE

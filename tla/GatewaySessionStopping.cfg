SPECIFICATION Spec
CONSTANT MaxEvents = 4
INVARIANT StoppingFailsHealth
CHECK_DEADLOCK FALSE

SPECIFICATION Spec
CONSTANT MaxEvents = 4
INVARIANT BarrierComplete
CHECK_DEADLOCK FALSE

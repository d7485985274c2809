\* One adapter over three starts with a refused write, or two adapters at once.
SPECIFICATION Spec
CONSTANTS
  Lids = {11, 12}
  Pns = {1}
  Owner <- OnePerson
  Adapters = {a, b}
  MaxStarts = 3
  MaxFaults = 1
SYMMETRY Alike
CONSTRAINT OverlapBound
INVARIANTS FirstIdStays OnePersonOneId
PROPERTIES CommittedFirst
CHECK_DEADLOCK FALSE

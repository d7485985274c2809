\* Two adapters with caches of their own save to one file.
SPECIFICATION Spec
CONSTANTS
  Lids = {11, 12}
  Pns = {1}
  Owner <- OnePerson
  Adapters = {a, b}
  MaxStarts = 2
  MaxFaults = 0
PROPERTIES NoProjectionLost
CHECK_DEADLOCK FALSE

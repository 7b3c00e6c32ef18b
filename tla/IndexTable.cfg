SPECIFICATION Spec
CONSTANTS
  Lo <- MCLo
  Hi <- MCHi
INVARIANTS
  TypeOK
  BoundedWait
PROPERTIES
  GetFreeComplete

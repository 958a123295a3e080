\* Up to three items under keys of five bits; texts of up to two full cells of
\* three bytes and two bytes more.
SPECIFICATION Spec
CONSTANTS
  a = a
  b = b
  Items = {a, b}
  KeyLength = 5
  MaxItems = 3
  CellBytes = 3
  MaxBytes = 8
SYMMETRY ItemSymmetry
INVARIANTS SameAsNative ItemsFound
PROPERTY TextReadsBack
CHECK_DEADLOCK FALSE

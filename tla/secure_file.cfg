SPECIFICATION Spec
CONSTANTS
  first = first
  second = second
  third = third
  Calls <- ThreeCalls
  Original = original
  Size = 2
INVARIANTS
  WholeFile
  NamedIsDurable
PROPERTIES
  AtomicFileSpec
SYMMETRY Symmetry
CHECK_DEADLOCK FALSE

SPECIFICATION Spec
CONSTANTS
  Entries = {e1, e2, e3, e4}
  NULL = NULL
  Values = {a, b}
  Disciplines <- OneEnd
INVARIANTS Represents
PROPERTIES ImplementsDeque

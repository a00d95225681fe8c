\* A published policy is edited.
SPECIFICATION Spec
CONSTANTS
  Policies = {p1, p2}
  Names = {read, write}
  Definitions = {d1, d2}
  MaxVersion = 4
SYMMETRY Symmetric
INVARIANTS DraftsDoNotDecide

\* Two policies with up to four versions each.
SPECIFICATION Spec
CONSTANTS
  Policies = {p1, p2}
  Names = {read, write}
  Definitions = {d1, d2}
  MaxVersion = 4
SYMMETRY Symmetric
INVARIANTS TypeOK HistoryComplete PublishedIsCurrent
PROPERTIES ImplementsLog

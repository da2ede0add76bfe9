SPECIFICATION Spec
CONSTANTS
  Workers = {w1, w2}
  Others = {"accounts"}
  Allocator = Allocator
  Console = FALSE
  MaxLate = 0
SYMMETRY Alike
INVARIANTS NoOrphanDatabase StateOutlivesDatabase FinalizedOnce

SPECIFICATION Spec
CONSTANTS
  Original = orig
  Copies = {c1, c2}
  MaxReads = 2
INVARIANTS
  BodyReadOnce
  ParsedReachesCopies
  XsrfLeavesForm

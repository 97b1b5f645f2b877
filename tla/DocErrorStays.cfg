SPECIFICATION Spec
CONSTANTS
  Original = orig
  Copies = {}
  MaxReads = 2
PROPERTY
  ErrorStays

CONSTANTS
  Widths <- MCWidths
  Lengths <- MCLengths
  MaxLines = 4
  Rows <- MCRows
SPECIFICATION Spec
INVARIANTS
  RowExact
PROPERTIES
  Returns

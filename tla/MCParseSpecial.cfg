CONSTANTS
  MaxLen = 5
  Lines <- MCLines
SPECIFICATION Spec
INVARIANTS InBounds FieldsMatchMode DocumentedLinesParse
CHECK_DEADLOCK FALSE

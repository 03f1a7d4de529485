CONSTANTS
  PRINT_BUFFER_SIZE <- MCSize
  MaxWidth <- MCFitting
  Tags <- MCTags
SPECIFICATION Spec
INVARIANTS
  TypeOK
  AssertionsHold
  NoOverflow
  PrevIntactUntilWrap

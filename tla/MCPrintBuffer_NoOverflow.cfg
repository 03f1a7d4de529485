CONSTANTS
  PRINT_BUFFER_SIZE <- MCSize
  MaxWidth <- MCWide
  Tags <- MCTags
SPECIFICATION Spec
INVARIANT NoOverflow

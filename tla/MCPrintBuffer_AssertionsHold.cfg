CONSTANTS
  PRINT_BUFFER_SIZE <- MCSize
  MaxWidth <- MCTruncated
  Tags <- MCTags
SPECIFICATION Spec
INVARIANT AssertionsHold

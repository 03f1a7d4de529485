CONSTANTS
  Widths <- MCWidthOne
  Limits <- MCLimits
SPECIFICATION Spec
PROPERTY Terminates
CHECK_DEADLOCK FALSE

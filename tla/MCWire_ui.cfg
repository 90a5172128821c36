SPECIFICATION Spec
CONSTANTS
  Base = 3
  Payloads <- Lengths
CHECK_DEADLOCK FALSE
INVARIANT UiFramingUnderstood

CONSTANTS
  Kinds = {"short", "long"}
  Size <- MCSize
  Base = 2
  MaxItems = 4
SPECIFICATION StreamSpec
INVARIANTS InOrder NothingHeldBack
CHECK_DEADLOCK FALSE

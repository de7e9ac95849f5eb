SPECIFICATION ScaleSpec
CONSTANTS
  Jobs = {j1, j2}
  Original = 3
  Limits = {4}
  MaxTouches = 0
INVARIANT SizeIsKept
CHECK_DEADLOCK FALSE

SPECIFICATION FairSpec
CONSTANTS
  x = x
  y = y
  d = d
  e = e
  None = None
  Track = {x, y}
  Device = {d, e}
  Cooldown = 2
  WindowMax = 1
  Copied = {x}
  Budgets <- MCBudgets
INVARIANTS CountedOnce DevicePlaysKept
PROPERTIES ListenCounted
CHECK_DEADLOCK FALSE

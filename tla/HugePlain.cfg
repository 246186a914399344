SPECIFICATION Spec
CONSTANTS
  SignedMax <- SmallLimits
  LONG_MAX = 7
  MaxValue = 33
INVARIANTS
  PlainFits
CHECK_DEADLOCK FALSE

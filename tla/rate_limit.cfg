\* Two keys, a quota of two, three windows' time.
SPECIFICATION Spec
CONSTANTS
  k1 = k1
  k2 = k2
  Keys = {k1, k2}
  Max = 2
  Window = 2
  MaxTime = 6
INVARIANTS
  TypeOK
  AtMostTwoQuotas
  RefusedOnlyOverQuota
  RetryAfterSuffices
SYMMETRY KeySymmetry
CHECK_DEADLOCK FALSE

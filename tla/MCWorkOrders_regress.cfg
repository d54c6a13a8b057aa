\* Two GETs read the clock on both sides of a threshold.
CONSTANTS
  Creators = {c1}
  Listers = {l1, l2}
  Threshold <- MCThreshold
  YearLength = 2
  MaxTime = 2
  MaxOrders = 1
SPECIFICATION Spec
PROPERTIES CompletedIsFinal

\* Two POSTs and two GETs race over two orders and two years.
CONSTANTS
  Creators = {c1, c2}
  Listers = {l1, l2}
  Threshold <- MCThreshold
  YearLength = 2
  MaxTime = 2
  MaxOrders = 2
SPECIFICATION FairSpec
INVARIANTS TypeOK NumbersContiguous StatusNeverAhead
PROPERTIES StatusAdvances EveryOrderCompletes

\* Three dispatchers and the report; up to three decisions.
CONSTANTS
  Dispatchers = {d1, d2, d3}
  Decisions <- MCDecisions
  Open = "open"
  MaxDecisions = 3
  None = none
SPECIFICATION Spec
INVARIANTS TypeOK SequentialNoLostUpdate StaleCardIsRefused StatusIsLastDecision ReportHasItsDecision
SYMMETRY Symmetry

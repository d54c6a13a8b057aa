\* Two requests decide on the same version of the risk.
CONSTANTS
  Dispatchers = {d1, d2}
  Decisions <- MCDecisions
  Open = "open"
  MaxDecisions = 2
  None = none
SPECIFICATION Spec
INVARIANTS NoLostUpdate

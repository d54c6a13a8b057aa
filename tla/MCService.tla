------------------------------ MODULE MCService -----------------------------
EXTENDS Service

\* Five releases: the first; one with a channel and a permission more, and a
\* row of the log it cannot parse; one whose facilities and districts grew; one
\* that knows the second facility and its district only; one that has the second
\* facility in the first district.
ServiceReleases == <<
  [facilities |-> {"f1"}, districts |-> {"d1"}, parents |-> {"d1"},
   channels |-> [c \in {"c1"} |-> "f1"],
   permissions |-> {"read"}, malformed |-> {}],
  [facilities |-> {"f1"}, districts |-> {"d1"}, parents |-> {"d1"},
   channels |-> [c \in {"c1", "c2"} |-> "f1"],
   permissions |-> {"read", "write"}, malformed |-> {3}],
  [facilities |-> {"f1", "f2"}, districts |-> {"d1", "d2"}, parents |-> {"d1", "d2"},
   channels |-> [c \in {"c1", "c3"} |-> IF c = "c1" THEN "f1" ELSE "f2"],
   permissions |-> {"read", "write"}, malformed |-> {}],
  [facilities |-> {"f2"}, districts |-> {"d2"}, parents |-> {"d2"},
   channels |-> [c \in {"c1", "c3"} |-> IF c = "c1" THEN Nowhere ELSE "f2"],
   permissions |-> {"read", "write"}, malformed |-> {}],
  [facilities |-> {"f2"}, districts |-> {"d1"}, parents |-> {"d1"},
   channels |-> [c \in {"c3"} |-> "f2"],
   permissions |-> {"read"}, malformed |-> {}] >>

\* Three rows, one of a channel the first release does not know.
ServiceLog == <<
  [channel |-> "c1", alarm |-> TRUE],
  [channel |-> "c2", alarm |-> TRUE],
  [channel |-> "c1", alarm |-> FALSE] >>

Budget(boots, deploys, downgrades, calls, ticks) ==
  [boots |-> boots, deploys |-> deploys, downgrades |-> downgrades, calls |-> calls, ticks |-> ticks]

\* Starts only, many of them; requests over one restart, with a migration or a
\* new release in between; requests of one process.
ServiceBudgets ==
  {Budget(4, 2, 1, 0, 0), Budget(2, 0, 1, 3, 2), Budget(2, 1, 0, 2, 1), Budget(1, 0, 0, 4, 2)}
=============================================================================

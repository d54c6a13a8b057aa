------------------------------- MODULE MCReads ------------------------------
EXTENDS Reads, TLC

CONSTANTS a, b

User(scopeType, direct, districts, permissions) ==
  [scopeType |-> scopeType, direct |-> direct, districts |-> districts, permissions |-> permissions]

\* No row in user_scope; one facility by assignment and one more by a district;
\* none at all.
ReadsCallers ==
  {User("none", {}, {}, {"risk.read", "work_order.read", "audit.read"}),
   User("assigned", {2}, {"d"}, {"risk.read", "work_order.read"}),
   User("assigned", {}, {}, {"risk.read"})}

ReadsDistricts == [d \in {"d"} |-> {4}]

\* One channel with up to four readings, two with up to three.
ReadsLengths == <<4, 3>>

\* The journal was down for one tick.
ReadsLogGaps == {[from |-> 4, to |-> 5]}

ReadsSymmetry == Permutations(Sensors)
=============================================================================

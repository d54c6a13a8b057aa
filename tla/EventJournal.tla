--------------------------- MODULE EventJournal ---------------------------
(***************************************************************************)
(* What the event journal promises to its readers: it is an ordered        *)
(* projection of the notable (alarm or anomaly) sensor readings.  A        *)
(* reading is published at most once, never before an older notable        *)
(* reading, and a published reading never leaves the journal.              *)
(*                                                                         *)
(* Readings are their database ids; "older" is "smaller id", the order     *)
(* GET /events lists them in.                                              *)
(***************************************************************************)
EXTENDS Naturals

VARIABLES
  notable,  \* ids of the committed notable readings
  journal   \* ids of the readings that have an event

vars == <<notable, journal>>

Init ==
  /\ notable = {}
  /\ journal = {}

\* A writer's transaction adds readings at the end of the reading log.
Arrive ==
  /\ notable \subseteq notable'
  /\ \A r \in notable' \ notable, n \in notable : n < r
  /\ UNCHANGED journal

\* B is the next stretch of the log: nothing older is left out.
NextStretch(B) ==
  /\ B # {}
  /\ B \subseteq notable \ journal
  /\ \A b \in B, n \in notable : n < b => n \in journal \cup B

Publish(B) ==
  /\ NextStretch(B)
  /\ journal' = journal \cup B
  /\ UNCHANGED notable

SomePublish == \E B \in SUBSET notable : Publish(B)

Next == Arrive \/ SomePublish

Spec == Init /\ [][Next]_vars

\* The journal catches up: it does not stop while a reading is unpublished.
FairSpec == Spec /\ WF_vars(SomePublish)
===========================================================================

-------------------------------- MODULE Reads -------------------------------
(***************************************************************************)
(* What the service reads back: lists and cards, series, and the features  *)
(* of a forecast.  A behaviour is about a table or about the journal of    *)
(* readings; neither reads the other, so the other one stands still.       *)
(***************************************************************************)
EXTENDS Lists, Series, Features

CONSTANT Journal   \* the journal's own value of kind

reads == <<lists, channels, journal>>

ReadsInit ==
  \/ /\ ListsInit
     /\ channels = {} /\ journal = <<>>
  \/ /\ JournalInit
     /\ kind = Journal /\ rows = {}
     /\ walk = [stage |-> "idle"] /\ start = {} /\ moved = {} /\ lost = FALSE

ReadsNext ==
  \/ /\ kind \in Kinds
     /\ ListsNext
     /\ UNCHANGED <<channels, journal>>
  \/ /\ kind = Journal
     /\ Record
     /\ UNCHANGED lists

ReadsSpec == ReadsInit /\ [][ReadsNext]_reads
=============================================================================

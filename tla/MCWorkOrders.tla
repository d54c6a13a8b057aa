---------------------------- MODULE MCWorkOrders ----------------------------
(* Model-checking instance of WorkOrders: one tick between two thresholds   *)
(* and a year of two ticks, so that orders are created in several years and *)
(* requests straddle both thresholds and the turn of the year.              *)
EXTENDS WorkOrders

MCThreshold == <<0, 1, 2>>
=============================================================================

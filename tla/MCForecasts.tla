---------------------------- MODULE MCForecasts -----------------------------
(* Model-checking instance of Forecasts: the answers of /risk_map of each   *)
(* run are in its .cfg.                                                     *)
EXTENDS Forecasts

TwoTargets == <<"incident", "failure">>
=============================================================================

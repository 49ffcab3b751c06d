---------------------------- MODULE MCRegistry ----------------------------
(* Instance of Registry for TLC: the model values of Registry_race.cfg.     *)
EXTENDS Registry
=============================================================================

----------------------------- MODULE MCStorage -----------------------------
(* Instances of Storage for TLC.  The first two instants fall in one second,  *)
(* and the fraction of one begins that of the other; in London the clocks go  *)
(* back, to UTC, before the third.                                           *)
EXTENDS Storage

Instants == <<120, 125, 300>>
Utc == [m \in {120, 125, 300} |-> 0]
London == [m \in {120, 125, 300} |-> IF m < 300 THEN 3600 ELSE 0]
ServiceInUtc == {[p \in Process |-> IF p \in Daemon THEN Utc ELSE London]}
ServiceInLondon == {[p \in Process |-> IF p \in Daemon THEN London ELSE Utc]}
Mixed == ServiceInUtc \cup ServiceInLondon
AllInUtc == {[p \in Process |-> Utc]}
=============================================================================

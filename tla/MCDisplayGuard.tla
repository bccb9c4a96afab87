--------------------------- MODULE MCDisplayGuard ---------------------------
(* Instances of DisplayGuard, at the scales and rates the configuration picks. *)
EXTENDS DisplayGuard

OneScale == [d \in Displays |-> 100]
Hz60 == [m \in Monitors |-> 60]
=============================================================================

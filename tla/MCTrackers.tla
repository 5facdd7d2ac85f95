------------------------------ MODULE MCTrackers ------------------------------
(* RAX and a register outside the ABI, two stack slots; zero and the address *)
(* of a function, one of which a place that is not followed holds as well.   *)
EXTENDS Trackers

\* Nothing is claimed of the machine after a change out of sight.
InSight == ~hidden
=============================================================================

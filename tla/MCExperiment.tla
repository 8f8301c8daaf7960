---------------------------- MODULE MCExperiment ----------------------------
(* Values for the constants of Experiment that a .cfg cannot write. *)
EXTENDS Experiment
CONSTANTS c1, c2
NoCallers == {}
TwoCallers == {c1, c2}
\* A slip of the sign: flag.Float64 and time.Duration accept it.
SignedDurations == {-1, 0, 1, 3}
=============================================================================

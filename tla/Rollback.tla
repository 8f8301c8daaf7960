------------------------------ MODULE Rollback ------------------------------
(***************************************************************************)
(* What one experiment promises its operator, without threads, locks or    *)
(* clocks: the fault is injected at most once, an injected fault is        *)
(* removed, and the run is only declared "done" after the removal.  A run  *)
(* that could not be started ends in "error" and has touched nothing.      *)
(* Experiment.tla is shown to implement this module.                       *)
(***************************************************************************)

VARIABLES
  fault,    \* "absent", then "present", then "removed"
  verdict   \* what the run has reported: "none", "error" or "done"

vars == <<fault, verdict>>

Init == fault = "absent" /\ verdict = "none"

\* Start passes its checks and the fault takes effect.
Inject ==
  /\ fault = "absent" /\ verdict = "none"
  /\ fault' = "present"
  /\ UNCHANGED verdict

\* Start is refused: a precondition or the injection itself failed.
Refuse ==
  /\ fault = "absent" /\ verdict = "none"
  /\ verdict' = "error"
  /\ UNCHANGED fault

\* The fault is rolled back, by whichever path gets there first.
Remove ==
  /\ fault = "present"
  /\ fault' = "removed"
  /\ UNCHANGED verdict

\* The run confirms the rollback.
Finish ==
  /\ fault = "removed" /\ verdict = "none"
  /\ verdict' = "done"
  /\ UNCHANGED fault

Next == Inject \/ Refuse \/ Remove \/ Finish

Safety == Init /\ [][Next]_vars

Spec ==
  /\ Safety
  /\ WF_vars(Inject \/ Refuse)
  /\ WF_vars(Remove)
  /\ WF_vars(Finish)
=============================================================================

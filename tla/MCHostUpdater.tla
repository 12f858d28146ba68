---------------------------- MODULE MCHostUpdater ----------------------------
(* Instances of HostUpdater. *)
EXTENDS HostUpdater, TLC

CONSTANTS j1, j2

TwoJobs == {j1, j2}

=============================================================================

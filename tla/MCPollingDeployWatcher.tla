----------------------- MODULE MCPollingDeployWatcher -----------------------
(* Instances of PollingDeployWatcher for TLC.                              *)
EXTENDS PollingDeployWatcher

(* A getter that may answer anything.                                      *)
AnyReports == RolloutStatuses \X BOOLEAN
=============================================================================

------------------------ MODULE MCCloudRunJobDeploy ------------------------
(* Instances of CloudRunJobDeploy for TLC.                                 *)
EXTENDS CloudRunJobDeploy

(* What this getter answers.                                               *)
JobReports ==
  {<<"complete", FALSE>>, <<"unknown", TRUE>>, <<"in-progress", FALSE>>, <<"failed", TRUE>>}
=============================================================================

--------------------------- MODULE MCStatusGetters ---------------------------
(* Instances of StatusGetters for TLC.                                     *)
EXTENDS StatusGetters

(* What the getters answer.                                                *)
AnyReports ==
  {<<"complete", FALSE>>, <<"unknown", TRUE>>, <<"in-progress", FALSE>>, <<"failed", FALSE>>, <<"failed", TRUE>>}
=============================================================================

---------------------------- MODULE MCGradWindows ----------------------------
(* GradWindows on small instances.                                            *)
EXTENDS GradWindows
==============================================================================

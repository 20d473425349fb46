---------------------------- MODULE MCBuildService ----------------------------
(* Instances of BuildService for TLC.                                      *)
EXTENDS BuildService
=============================================================================

------------------------------- MODULE MCWiki -------------------------------
(* Instances of Wiki for TLC.                                              *)
EXTENDS Wiki

CONSTANTS worker, cli, s1, s2

MCCurators == {worker, cli}
MCSources == {s1, s2}
MCLong == {s2}      \* its end is never shown
MCAbsoluteRoot == {cli}
=============================================================================

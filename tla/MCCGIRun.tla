------------------------------ MODULE MCCGIRun ------------------------------
(* A program that may fork twice (a kid of a kid included) and write twice *)
(* as much as is allowed.                                                  *)
EXTENDS CGIRun

CONSTANTS k1, k2
\* Root or not, in the log group or not, with any capabilities.
MCLaunches == [process : {p \in Processes : p.root = "host" /\ p.cwd = "host"},
               thread : {t \in Threads : t.ambient \subseteq t.caps}]

TwoKids == {k1, k2}
=============================================================================

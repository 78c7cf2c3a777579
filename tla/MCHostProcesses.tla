---------------------------- MODULE MCHostProcesses ----------------------------
(* Instances of HostProcesses for TLC. *)
EXTENDS HostProcesses

EveryFault == AllFaults
===============================================================================

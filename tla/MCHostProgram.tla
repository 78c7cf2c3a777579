---------------------------- MODULE MCHostProgram -----------------------------
(* Instances of HostProgram for TLC. *)
EXTENDS HostProgram

(* All command lines; --failgdbManIfOneTestWasNotSuccessfull only matters  *)
(* at the very end, and only flash mode insists on flashing.               *)
EveryOption ==
  {o \in OptionType : o.executionMode = "flashMode" => o.flashTar}

(* 7 is the last version that fits into a byte. *)
SomeTargets ==
  {t \in [testMode: BOOLEAN, bistMode: {FALSE}, longJump: BOOLEAN, swBreakpoints: BOOLEAN,
          version: {0, 1, 2, 7}] : t.longJump => t.version = 1}
===============================================================================

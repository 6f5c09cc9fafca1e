--------------------------------- MODULE MCVM ---------------------------------
(* Model: the code's timeouts and sleeps in seconds; the clock starts at  *)
(* 100, which like any time.time() is past the 30 the shutdown loop       *)
(* compares it with; the owner boots the VM and makes two more calls.     *)
EXTENDS VM, TLC

MCEpoch == 100
MCHorizon == 300
===============================================================================

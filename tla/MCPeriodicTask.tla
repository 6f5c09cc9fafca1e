---------------------------- MODULE MCPeriodicTask ----------------------------
(* Model: five method calls and six start/stop calls of the owner.     *)
EXTENDS PeriodicTask, TLC
===============================================================================

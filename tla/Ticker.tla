-------------------------------- MODULE Ticker --------------------------------
(***************************************************************************)
(* What a periodic task promises its owner: after start() its method is   *)
(* called, again and again; after stop() it is not called until the next *)
(* start().  `fired` counts the calls, up to MaxFires.                      *)
(***************************************************************************)
EXTENDS Naturals

CONSTANT MaxFires

VARIABLES on, fired

vars == <<on, fired>>

Init == on = FALSE /\ fired = 0

Start == ~on /\ on' = TRUE /\ UNCHANGED fired

Stop == on /\ on' = FALSE /\ UNCHANGED fired

Tick == on /\ fired < MaxFires /\ fired' = fired + 1 /\ UNCHANGED on

Next == Start \/ Stop \/ Tick

Spec == Init /\ [][Next]_vars
===============================================================================

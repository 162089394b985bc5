-------------------------------- MODULE MCWeb --------------------------------
(* Three prices and three outages of Hermes; two components and two markets; *)
(* two orders with two faults.                                               *)
EXTENDS Web
=============================================================================

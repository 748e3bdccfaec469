---------------------------- MODULE MCSntpExchange ----------------------------
(* Instances of SntpExchange for TLC.                                      *)
EXTENDS SntpExchange, TLC

CONSTANTS p1, p2

OneAhead  == [p \in Ports |-> 2]
TwoAheads == (p1 :> -2) @@ (p2 :> 2)
===============================================================================

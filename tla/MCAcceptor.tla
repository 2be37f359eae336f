----------------------------- MODULE MCAcceptor -----------------------------
(* Values for model checking Acceptor.                                      *)
EXTENDS Acceptor

CONSTANTS y1, y2, y3, c1, c2

(* Two coins locked to the service pay c1 or c2, so that credentials       *)
(* overlap in one coin or in both; c1 can also be paid with a coin bound   *)
(* to it alone, which the payer can swap away at any time.                 *)
BoundBinds == [c \in Challenges |-> IF c = c1 THEN {y3} ELSE {}]
BoundFace == [y \in Coins |-> IF y = y3 THEN 2 ELSE 1]
BothPrice == [c \in Challenges |-> 2]
=============================================================================

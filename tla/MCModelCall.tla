------------------------------ MODULE MCModelCall ------------------------------
(* Instances of ModelCall for TLC: c1 streams, c2 mostly loads the limiter. *)
EXTENDS ModelCall

CONSTANTS c1, c2

EstimatesOf == [c \in {c1, c2} |-> IF c = c1 THEN {1} ELSE {2, 4}]
ItemsOf     == [c \in {c1, c2} |-> IF c = c1 THEN 2 ELSE 0]

OneToken == [c \in {c1, c2} |-> {1}]
NoItems  == [c \in {c1, c2} |-> 0]
================================================================================

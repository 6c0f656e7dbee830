-------------------------- MODULE MCParameterManager --------------------------
(* Instances of ParameterManager for TLC: an autopilot with two parameters *)
(* and a component with one, whose index the autopilot uses too.           *)
EXTENDS ParameterManager

MCCount == [c \in Components |-> IF c = Autopilot THEN 2 ELSE 1]
=============================================================================

------------------------ MODULE MCMultiVehicleManager ------------------------
(***************************************************************************)
(* Instances of MultiVehicleManager for TLC.                               *)
(***************************************************************************)
EXTENDS MultiVehicleManager, TLC

Radios == [link \in Links |-> "normal"]

\* Objects and ids are only compared.
Symmetry == Permutations(Vehicles) \cup Permutations(Ids)

=============================================================================

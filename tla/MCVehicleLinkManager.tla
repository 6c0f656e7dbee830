------------------------ MODULE MCVehicleLinkManager ------------------------
(***************************************************************************)
(* Instances of VehicleLinkManager for TLC: links of each kind.            *)
(***************************************************************************)
EXTENDS VehicleLinkManager

CONSTANTS l1, l2, l3

\* A cable, a radio and a satellite link.
OneOfEach ==
  [link \in Links |-> IF link = l1 THEN "usb"
                      ELSE IF link = l2 THEN "normal" ELSE "highLatency"]
=============================================================================

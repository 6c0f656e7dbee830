SPECIFICATION LifeSpec
CONSTANTS
  Vehicles = {v1, v2}
  Links = {l1}
  Kind <- Radios
  NoLink = NoLink
  Ids = {i1, i2}
  NoVehicle = NoVehicle
  CloseOnLoss = TRUE
  MaxTimers = 2
SYMMETRY Symmetry
INVARIANT RemovedOnce
INVARIANT ActiveVehicleExists
INVARIANT SettlesOnSelection
PROPERTY LinkGoesWithLastVehicle

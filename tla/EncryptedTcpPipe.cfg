SPECIFICATION Spec
CONSTANTS
  MaxFailures = 3
INVARIANT LayersAgree
INVARIANT Suspension
PROPERTY ClientKeepsTrying

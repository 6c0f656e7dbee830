SPECIFICATION Spec
CONSTANTS
  MaxFailures = 3
PROPERTY FailuresAreRetried

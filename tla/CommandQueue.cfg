SPECIFICATION Spec
CONSTANTS
  Components = {autopilot}
  CompIdAll = all
  Messages = {m1, m2}
  NoMessage = none
  MaxRetryCount = 3
  AckTimeout = 1
  WaitTimeout = 1
  MaxCalls = 3
  MaxProgress = 1
  LinkComesAndGoes = TRUE
INVARIANT AnsweredOnce
INVARIANT InfosAreAlive
INVARIANT ListAndMapAgree
PROPERTY HeardIsNotResent
PROPERTY CallsAreAnswered
CHECK_DEADLOCK FALSE

\* The PLM with the R5 and the A72, in both builds.
SPECIFICATION FairSpec
CONSTANTS
  Setups <- MCSetups
  Range = 6
  Passes = 2
  MaxFailures = 1
  MaxRestarts = 1
INVARIANTS
  TypeOK
  StaleBounded
PROPERTIES
  R5TripForward
  A72TripForward
  AnswerGenuine
  R5TripGoesOn
  SenderReleased

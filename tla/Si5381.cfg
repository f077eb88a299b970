SPECIFICATION Spec
CONSTANTS
  Configuration <- MCConfiguration
  PREAMBLE_SIZE = 3
  POSTAMBLE_SIZE = 5
  Default = 255
INVARIANTS
  TypeOK
  SuccessConfigured
  FailureExplained
PROPERTIES
  ImplementsProgram

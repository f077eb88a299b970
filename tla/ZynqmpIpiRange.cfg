SPECIFICATION Spec
CONSTANTS
  Channels = 2
  Mailboxes = {}
  RespRange = 2
  MaxRounds = 4
  MaxFaults = 0
INVARIANTS
  EachChannelSent

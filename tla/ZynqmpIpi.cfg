SPECIFICATION FairSpec
CONSTANTS
  Channels = 2
  Mailboxes <- MCMailboxes
  RespRange = 3
  MaxRounds = 4
  MaxFaults = 2
INVARIANTS
  TypeOK
  ReceivedGenuine
  RejectsBounded
PROPERTIES
  RoundsProceed

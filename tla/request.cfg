SPECIFICATION ApiRequestLiveSpec
\* The calls are bounded.
CHECK_DEADLOCK FALSE
CONSTANTS
  Expired = 1
  Longer = 1
  AccessKeys <- MCAccessKeys
  SecretKeys <- MCSecretKeys
  TheSecretKey <- MCTheSecretKey
  Times <- MCTimes
  ClientIds <- MCClientIds
  Codes <- MCCodes
  Pieces = 2
  MaxCalls = 2
INVARIANTS
  ApiRequestTypeOK
  RequestVerifies
  ValueIsOwnAnswer
PROPERTIES
  CallEnds

SPECIFICATION FairSpec
CONSTANTS
  NoRow = NoRow
  Events = {1, 2}
  Endpoints = {hook}
  Subscribes <- MCSubscribes
  Processes = {worker1}
  MaxAttempts = 2
  Threshold = 2
  FanOutLimit = 1
  DueLimit = 1
  MaxCopies = 2
  MaxFaults = 1
INVARIANTS
  FannedOutInFull
  OneDeliveryPerEndpoint
  DeliveredWasReceived
  RetriesAccounted
PROPERTIES
  SettledIsFinal
  EventuallySettled

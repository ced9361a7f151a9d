\* Liveness with two workers on one event.
SPECIFICATION FairSpec
CONSTANTS
  Events = {e1}
  NoEvent = NoEvent
  Workers = {w1, w2}
  Consumers = {c1}
  MaxAttempts = 2
  MaxRetries = 1
  DatabaseFaults = FALSE
  MaxQueued = 1
  MaxReplays = 1
  MaxCrashes = 1
PROPERTIES
  ImplementsFairDelivery

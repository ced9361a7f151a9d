\* Two workers race on one event: every fault, crash and replay of the code.
SPECIFICATION Spec
CONSTANTS
  Events = {e1}
  NoEvent = NoEvent
  Workers = {w1, w2}
  Consumers = {c1, c2}
  MaxAttempts = 2
  MaxRetries = 1
  DatabaseFaults = TRUE
  MaxQueued = 2
  MaxReplays = 1
  MaxCrashes = 1
SYMMETRY Symmetry
INVARIANTS
  AllOrNothing
  EffectsAreAccountedFor

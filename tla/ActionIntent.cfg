\* Three overlapping clients, one allowed and one blocked intent.
SPECIFICATION Spec
CONSTANTS
  Intents = {a1, b1}
  Allowed = {a1}
  Clients = {u1, u2, u3}
  NoIntent = NoIntent
  MaxCalls = 2
SYMMETRY Symmetry
INVARIANTS
  OnlyApprovedIsExecuted
PROPERTIES
  ImplementsLifecycle

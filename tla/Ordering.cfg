\* Two suppliers, one of which revises its quotation, and two approvers.
SPECIFICATION Spec
CONSTANTS
  s1 = s1
  s2 = s2
  Suppliers = {s1, s2}
  Roles = {plant_manager, purchase_executive}
  MinQuotes = 2
  MaxRevision <- Revisions
  MaxVersion = 2
  MaxAwards = 1
  Lapsing = {s2}
  NoQuote = NoQuote
  Bidders = {s1, s2}
  MaxPending = 1
  MaxRounds = 1
CHECK_DEADLOCK FALSE
INVARIANTS
  ApprovedByAll
  PendingIsCurrent
PROPERTY ResponseIsKept

\* Two documents of a quotation batch with a third reading and a reply; two whose
\* fields a model extracts; two emails sent by two workers; an invoice on two
\* papers; three sends of a request and two invitations; two proposals of a run,
\* two specialist runs with two workers, and one page of the companion.
SPECIFICATION Spec
CONSTANTS
  Documents = {d1, d2}
  MaxReadings = 3
  MaxReplies = 1
  MaxRetries = 0
  Provider = "gemini"
  Budgets = 2
  GeminiModels = {"g1", "g2"}
  Configured = "g1"
  MaxDocuments = 2
  MaxPolls = 1
  MaxWithdrawn = 2
  MailTasks = {t1, t2}
  MaxMailRetries = 2
  MaxPresses = 3
  Papers = {p1, p2}
  ContentOf <- SameContent
  Orders = {"o1"}
  Letters = {"m1", "m2"}
  Clerks = {c1, c2}
  Numbers = {"n1", "n2"}
  MaxExtractions = 3
  MaxCaptured = 2
  Sends = {1, 2, 3}
  Bodies = {b1, b2}
  People = {p1}
  Desks = {d1, d2}
  MaxInvitations = 2
  MaxResends = 2
  ProposalRuns = {1}
  MaxProposals = 2
  MaxTargetVersion = 2
  Runs = {1, 2}
  Workers = {w1, w2}
  MaxMessages = 1
  MaxAttempts = 2
  MaxCycle = 2
  MaxStage = 2
  MaxTaskVersion = 2
  MaxMoves = 1
INVARIANTS
  OneQuotePerDocument
  NothingUnsafeIsAsked
  OneInvoicePerPaper
  SameAnswer
  
PROPERTIES
  CancelledPreparesNothing
  PutAwayIsKept
CHECK_DEADLOCK FALSE

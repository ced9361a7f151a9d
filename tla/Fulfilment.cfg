\* An order of two units with one change, two notices and two attempts; two
\* receipts and inspections, a return and an invoice.
SPECIFICATION Spec
CONSTANTS
  Ordered = 2
  Tolerance = 0
  MaxOrders = 2
  MaxDeliveries = 2
  MaxDispatches = 2
  InboundOrdered = 2
  InboundAuthorised = 2
  MaxReceipts = 2
  MaxInspections = 2
  MaxReturns = 1
  MaxInvoices = 1
  MaxMatches = 1
CHECK_DEADLOCK FALSE
INVARIANTS
  OneOrderInForce
  
  
PROPERTY DispatchIsFinal

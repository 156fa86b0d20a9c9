SPECIFICATION FairSpec
CONSTANTS
  Reconcilers = {loop}
  Loop = loop
  Cash = 1
  MaxHeld = 0
  MaxEntry = 1
  MaxOrders = 2
  MaxInbox = 1
  MaxReports = 1
PROPERTIES ExitsCovered

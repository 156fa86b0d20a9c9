SPECIFICATION FairSpec
CONSTANTS
  Reconcilers = {loop}
  Loop = loop
  Cash = 2
  MaxHeld = 0
  MaxEntry = 1
  MaxOrders = 2
  MaxInbox = 1
  MaxReports = 2
PROPERTIES ExitsSound ExitsCovered AccountConverges

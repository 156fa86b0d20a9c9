SPECIFICATION FairSpec
CONSTANTS
  Markets = {m1}
  Reconcilers = {loop}
  Loop = loop
  MaxEntries = 2
PROPERTIES EntriesResume

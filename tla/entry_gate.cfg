SPECIFICATION FairSpec
CONSTANTS
  Markets = {m1}
  Reconcilers = {loop, admin}
  Loop = loop
  MaxEntries = 2
INVARIANT GateSound
PROPERTIES NoEntryUnreconciled RiskPauseKept GateReopens StalePausesLift

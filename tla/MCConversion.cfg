CONSTANTS
  LinuxGuests <- MCLinuxGuests
  WindowsGuests <- MCWindowsGuests
  MaxFaults = 3
  MaxRuns = 2
SPECIFICATION Spec
INVARIANTS
  LinuxBoots
  WindowsBoots
  FirstbootRuns
  LabelsRestored
  SourceToolsGone

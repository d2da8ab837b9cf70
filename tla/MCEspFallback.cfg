CONSTANTS
  LinuxGuests <- MCLinuxGuests
  WindowsGuests <- MCWindowsGuests
  MaxFaults = 0
  MaxRuns = 1
SPECIFICATION Spec
INVARIANT EspHasFallback

CONSTANTS
  Debounce = 3
  Gaps = {1, 3}
  MaxLosses = 1
  MaxCrashes = 1
  Powers = {1, 2}
  MaxSequence = 3
  MaxBoots = 2
SPECIFICATION HistorySpec
INVARIANTS HistoryTypeOK RestartRestores HeldForDebounce OpenOnRecord
PROPERTIES FireInsideEnvironment OpenedOnce ExitsOnRecord
\* Passes go on until the process ends for the last time.
CHECK_DEADLOCK FALSE

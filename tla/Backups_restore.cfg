\* A first migration that failed after the import, retried, backed up, restored.
SPECIFICATION BackupsSpec
CONSTANTS
  MaxSourceEdits = 0
  MaxBackupFaults = 1
  MaxBackupCrashes = 0
  MaxBackups = 2
INVARIANTS RestoredIsReady
CHECK_DEADLOCK FALSE

\* One flow at a time: handing over, rescuing, refreshing, publishing, alerts.
SPECIFICATION FlowsSpec
CONSTANTS
  Outsiders = {"x"}
  MaxCrashes = 2
  MaxErrors = 1
  MaxStops = 1
  MaxRuns = 1
  TokenMayExpire = TRUE
  Others = {"broken", "third"}
  MaxRemovals = 2
  MaxRescueFaults = 1
  MaxRescueStops = 1
  MaxMeddling = 2
  MaxChildren = 2
  MaxLogins = 3
  MaxRevocations = 2
  MaxRefreshFaults = 1
  Teams = {"w1", "w2"}
  TeamOrder <- TwoTeams
  MaxKids = 2
  MaxAlertMails = 1
  MaxChanges = 1
  MaxAlertFaults = 1
  Groups = {"g1", "g2"}
  MaxPats = 2
  MaxAccounts = 2
  MaxManualPushes = 1
  MaxPublishFaults = 1
  MaxAdminActs = 1
  MaxSourceEdits = 1
  MaxBackupFaults = 1
  MaxBackupCrashes = 1
  MaxBackups = 2
INVARIANTS
  FlowsTypeOK OneHandover RemovalsAreBounded SessionsAreKept
  AlertsActOnce PublishedOnce RestorableState
PROPERTIES
  LeaveAfterInvite PatAfterHandover InvitedChildIsKept
  StaleReadsDoNoHarm FlowsComplete
CHECK_DEADLOCK FALSE

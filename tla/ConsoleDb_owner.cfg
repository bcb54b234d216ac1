\* An owner workspace and three children of its mailbox; every operation.
SPECIFICATION Spec
CONSTANTS
  None = None  r1 = r1  r2 = r2  r3 = r3
  a1 = a1  a2 = a2  b1 = b1  b2 = b2  b3 = b3  c1 = c1  c2 = c2  c3 = c3
  o1 = o1  m1 = m1  m2 = m2  w1 = w1  w2 = w2
  Mailboxes = {m1}
  MailboxOf <- MCMailboxOf
  ParentOf <- MCParentOf
  AliasNo <- MCAliasNo
  Accounts = {c1, c2, c3}
  Children = {c1, c2, c3}
  Owners = {o1}
  Workspaces = {w1}
  Runs = {r1}
  MaxPos = 1
INVARIANTS
  UsedChildrenStayOut ActiveRunKeepsItsAccounts
PROPERTIES
  UsedOnlyByRotation RunLifecycle
CHECK_DEADLOCK FALSE

\* Three runs of two workspaces through the queue, and the serial queue they implement.
SPECIFICATION QueueSpec
CONSTANTS
  None = None  r1 = r1  r2 = r2  r3 = r3
  a1 = a1  a2 = a2  b1 = b1  b2 = b2  b3 = b3  c1 = c1  c2 = c2  c3 = c3
  o1 = o1  m1 = m1  m2 = m2  w1 = w1  w2 = w2
  Mailboxes = {m1, m2}
  MailboxOf <- MCMailboxOf
  ParentOf <- MCParentOf
  AliasNo <- MCAliasNo
  Accounts = {a1, a2, b1, b2, b3}
  Children = {}
  Owners = {}
  Workspaces = {w1, w2}
  Runs = {r1, r2, r3}
  MaxPos = 3
SYMMETRY Symmetry
INVARIANTS TypeOK RunAndItemAgree WorkspaceAgreesWithRun QueueOrder
PROPERTIES ImplementsSerialQueue
CHECK_DEADLOCK FALSE

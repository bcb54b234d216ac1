\* Three inventory accounts compete for two workspaces; every operation.
SPECIFICATION Spec
CONSTANTS
  None = None  r1 = r1  r2 = r2  r3 = r3
  a1 = a1  a2 = a2  b1 = b1  b2 = b2  b3 = b3  c1 = c1  c2 = c2  c3 = c3
  o1 = o1  m1 = m1  m2 = m2  w1 = w1  w2 = w2
  Mailboxes = {m1, m2}
  MailboxOf <- MCMailboxOf
  ParentOf <- MCParentOf
  AliasNo <- MCAliasNo
  Accounts = {a1, a2, b1}
  Children = {}
  Owners = {}
  Workspaces = {w1, w2}
  Runs = {r1}
  MaxPos = 1
SYMMETRY WorkspaceSymmetry
INVARIANTS
  BindingsAndStatusesAgree
CHECK_DEADLOCK FALSE

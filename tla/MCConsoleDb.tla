---------------------------- MODULE MCConsoleDb ----------------------------
(* Small instances of ConsoleDb for TLC. *)
EXTENDS QueueRefinement, TLC

CONSTANTS a1, a2, b1, b2, b3, c1, c2, c3, m1, m2, o1, w1, w2, r1, r2, r3

Symmetry == Permutations(Runs)
WorkspaceSymmetry == Permutations(Workspaces)

\* Inventory accounts a* of mailbox m1 and b* of m2; children c* of owner o1,
\* whose iCloud mailbox is m1.
MCMailboxOf == [a \in Accounts \cup Owners |->
                  IF a \in {a1, a2, c1, c2, c3, o1} THEN m1 ELSE m2]
MCParentOf == [a \in Accounts |-> IF a \in {c1, c2, c3} THEN o1 ELSE None]
MCAliasNo == [a \in Accounts |-> IF a \in {a1, b1} THEN 1
                                 ELSE IF a \in {a2, b2} THEN 2
                                 ELSE IF a = b3 THEN 3 ELSE 0]

\* The queue runs start from two workspaces a user has just created.
ReadyInit ==
  /\ acct = [a \in Accounts |-> IF a \in {a1, b1} THEN "bound_current"
                                ELSE IF a \in {a2, b2} THEN "bound_next"
                                ELSE "available"]
  /\ used = {} /\ inactive = {} /\ badMailbox = {}
  /\ wsStatus = [w \in Workspaces |-> "ready"]
  /\ wsCur = [w \in Workspaces |-> IF w = w1 THEN a1 ELSE b1]
  /\ wsNext = [w \in Workspaces |-> IF w = w1 THEN a2 ELSE b2]
  /\ wsOwner = [w \in Workspaces |-> None]
  /\ runState = [r \in Runs |-> "absent"]
  /\ runWs = [r \in Runs |-> None]
  /\ runCur = [r \in Runs |-> None]
  /\ runNext = [r \in Runs |-> None]
  /\ runKind = [r \in Runs |-> "none"]
  /\ qState = [r \in Runs |-> "absent"]
  /\ qPos = [r \in Runs |-> 0]
  /\ paused = FALSE

QueueSpec == ReadyInit /\ [][UserQueueNext \/ WorkerNext]_vars
=============================================================================

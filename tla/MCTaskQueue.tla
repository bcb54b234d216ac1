---------------------------- MODULE MCTaskQueue ----------------------------
(* Small instances of TaskQueue for TLC: two workspaces that a user has just *)
(* created, and no spare account.                                            *)
EXTENDS MCConsoleDb, TaskQueue

CONSTANTS t1, t2, k1, k2

QSymmetry == Permutations(Threads) \cup Permutations(Runs)

ReadyQInit == ReadyInit /\ FreshMemory
\* Nobody edits accounts or workspaces any more.
ReadyQSpec == ReadyQInit /\ [][QueueNext]_qvars

OneRun == \A q, r \in Runs : "absent" \in {runState'[q], runState'[r]} \/ q = r
FaultOrCrash == faults' + crashes' <= 1

\* A bound: one run in one workspace, with accounts whose
\* mailbox stays usable, and one fault or crash.
OneOfEach ==
  /\ acct'[b1] = "absent" /\ acct'[b2] = "absent" /\ wsStatus'[w2] = "absent"
  /\ badMailbox' = {} /\ FaultOrCrash /\ OneRun

\* Two ready workspaces that nobody edits, with a fault and a crash of one run
\* or one of them with two runs, or empty tables and edits of one workspace.
FaultsSpec ==
  /\ QInit \/ ReadyQInit
  /\ [][\/ acct[b1] = "absent" /\ (QueueNext \/ EditTables) /\ OneOfEach
        \/ acct[b1] # "absent" /\ QueueNext /\ (FaultOrCrash \/ OneRun)]_qvars

\* Liveness without reorderings: a user who keeps moving a run to the end of
\* the queue keeps it waiting.
LiveSpec ==
  /\ ReadyQInit
  /\ [][UserCalls \/ RefreshEnd \/ Boot \/ Crash
        \/ (\E k \in Callers : Lifecycle(k)) \/ (\E t \in Threads : Worker(t))]_qvars
  /\ Fairness
=============================================================================

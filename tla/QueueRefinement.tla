-------------------------- MODULE QueueRefinement --------------------------
(***************************************************************************)
(* The tables implement the serial queue: the positions of queue_items     *)
(* stand for the order, whatever numbers the four transactions that write  *)
(* them pick, and the states of a run and of its item for the rest.        *)
(***************************************************************************)
EXTENDS ConsoleDb

Waiting == {r \in Runs : qState[r] = "pending"}

\* The order of claim_next_queue_item: ORDER BY q.position.
Before == {p \in Waiting \X Waiting : qPos[p[1]] < qPos[p[2]]}

InExecution ==
  IF \E r \in Runs : qState[r] = "running"
    THEN CHOOSE r \in Runs : qState[r] = "running" ELSE None

Ended == [r \in Runs |-> IF runState[r] \in {"succeeded", "failed", "cancelled"}
                           THEN runState[r] ELSE "none"]

Serial == INSTANCE SerialQueue WITH
            waiting <- Waiting, before <- Before, executing <- InExecution, result <- Ended

\* README.md: a global queue that executes one run at a time, in order, with
\* reordering, stopping, retrying and recovery at the interrupted run.  Every
\* transaction on the tables is one of its operations or changes none of it.
ImplementsSerialQueue == Serial!SSpec
=============================================================================

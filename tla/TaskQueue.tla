----------------------------- MODULE TaskQueue -----------------------------
(***************************************************************************)
(* The serial task queue of src/team_protocol/task_queue.py over the       *)
(* tables of ConsoleDb: API threads and worker threads that share one      *)
(* condition lock.  A critical section is one step; the worker's run of a  *)
(* claimed item, between its critical sections, is split at every database *)
(* transaction.  The process may die at any time and be started again.     *)
(* A database call made by the worker may raise, MaxFaults times.          *)
(***************************************************************************)
EXTENDS ConsoleDb

CONSTANTS
  Threads,      \* worker threads that may ever be created
  Callers,      \* API threads that run a restore, or the console's shutdown
  MaxFaults, MaxCrashes, MaxRefreshes,
  JoinTimesOut  \* whether thread.join(wait_timeout) may give up

ASSUME QueueAssumption ==
  /\ MaxFaults \in Nat /\ MaxCrashes \in Nat /\ MaxRefreshes \in Nat
  /\ JoinTimesOut \in BOOLEAN
  /\ None \notin Threads

VARIABLES
  up,          \* the process is running
  started,     \* _started
  closing,     \* _closing
  thread,      \* _thread
  activeRun,   \* _active_run_id
  activeEvent, \* the thread whose stop event is _active_stop_event
  refreshing,  \* _active_refresh_account_id is set
  pc,          \* where each worker thread is
  item,        \* the run a worker thread claimed last
  stopSet,     \* threads whose stop event is set
  caller,      \* where each API thread in a lifecycle call is
  quitting,    \* those that run the console's shutdown
  joining,     \* the worker thread it joins
  inTime,      \* runs whose stop was accepted before their runner returned
  faults, crashes, refreshes

lockVars  == <<started, closing, thread, activeRun, activeEvent, refreshing>>
workVars  == <<pc, item, stopSet>>
callVars  == <<caller, quitting, joining>>
countVars == <<faults, crashes, refreshes>>
memVars   == <<up, lockVars, workVars, callVars, inTime, countVars>>
qvars == <<vars, memVars>>

\* Claimed item in hand, from the claim to the clearing of _active_run_id.
Busy == {"run", "succeeded", "complete", "cancel", "raised", "recancel",
         "idcancel", "identity", "replace", "fail", "cancelled", "clear"}
AtWork(t) == pc[t] \in Busy

QTypeOK ==
  /\ TypeOK
  /\ up \in BOOLEAN /\ started \in BOOLEAN /\ closing \in BOOLEAN
  /\ thread \in Threads \cup {None}
  /\ activeRun \in Runs \cup {None}
  /\ activeEvent \in Threads \cup {None}
  /\ refreshing \in BOOLEAN
  /\ pc \in [Threads -> Busy \cup {"off", "idle", "wait", "exit"}]
  /\ item \in [Threads -> Runs \cup {None}]
  /\ stopSet \subseteq Threads
  /\ caller \in [Callers -> {"idle", "begin", "join", "closed"}]
  /\ quitting \subseteq Callers
  /\ joining \in [Callers -> Threads \cup {None}]
  /\ inTime \subseteq Runs
  /\ faults \in 0..MaxFaults /\ crashes \in 0..MaxCrashes
  /\ refreshes \in 0..MaxRefreshes

FreshMemory ==
  /\ up = FALSE /\ started = FALSE /\ closing = FALSE
  /\ thread = None /\ activeRun = None /\ activeEvent = None
  /\ refreshing = FALSE
  /\ pc = [t \in Threads |-> "off"] /\ item = [t \in Threads |-> None]
  /\ stopSet = {}
  /\ caller = [k \in Callers |-> "idle"] /\ joining = [k \in Callers |-> None]
  /\ quitting = {} /\ inTime = {}
  /\ faults = 0 /\ crashes = 0 /\ refreshes = 0

QInit == Init /\ FreshMemory

\* notify_all, with the worker threads moving as next says.
Woken(next) == [t \in Threads |-> IF next[t] = "wait" THEN "idle" ELSE next[t]]
Notify == pc' = Woken(pc)
CanFault == faults < MaxFaults
Fault == CanFault /\ faults' = faults + 1

-----------------------------------------------------------------------------
(* Starting, stopping and losing the process. *)

\* Mutant: start() recovers again whatever runs.
RestartQueue ==
  /\ RecoverInterruptedRuns
  /\ inTime' = {r \in inTime : ~Executing(r)}
  /\ started' = TRUE /\ closing' = FALSE
  /\ \E t \in Threads : /\ pc[t] = "off"
                        /\ thread' = t
                        /\ pc' = Woken([pc EXCEPT ![t] = "idle"])

\* Mutant: start() does not take back that the queue is closing.
StartClosed ==
  IF started
    THEN UNCHANGED <<vars, started, closing, thread, pc, inTime>>
    ELSE /\ RecoverInterruptedRuns
         /\ inTime' = {r \in inTime : ~Executing(r)}
         /\ started' = TRUE /\ UNCHANGED closing
         /\ \E t \in Threads : /\ pc[t] = "off"
                               /\ thread' = t
                               /\ pc' = Woken([pc EXCEPT ![t] = "idle"])

\* start(), with the lock held.
StartQueue ==
  IF started
    THEN UNCHANGED <<vars, started, closing, thread, pc, inTime>>
    ELSE /\ RecoverInterruptedRuns
         /\ inTime' = {r \in inTime : ~Executing(r)}
         /\ started' = TRUE /\ closing' = FALSE
         /\ \E t \in Threads : /\ pc[t] = "off"
                               /\ thread' = t
                               /\ pc' = Woken([pc EXCEPT ![t] = "idle"])

Boot ==
  /\ ~up /\ up' = TRUE
  /\ StartQueue
  /\ UNCHANGED <<activeRun, activeEvent, refreshing, item, stopSet, callVars, countVars>>

\* Everything in memory is lost, the tables stay.
Die ==
  /\ up /\ up' = FALSE
  /\ crashes < MaxCrashes /\ crashes' = crashes + 1
  /\ started' = FALSE /\ closing' = FALSE /\ thread' = None
  /\ activeRun' = None /\ activeEvent' = None /\ refreshing' = FALSE
  /\ pc' = [t \in Threads |-> "off"] /\ item' = [t \in Threads |-> None]
  /\ stopSet' = {}
  /\ caller' = [k \in Callers |-> "idle"] /\ joining' = [k \in Callers |-> None]
  /\ quitting' = {} /\ inTime' = {}
  /\ UNCHANGED <<vars, faults, refreshes>>

Crash == Die

\* The console's own shutdown begins, if the process may end at all.
QuitBegin(k) ==
  /\ up /\ caller[k] = "idle" /\ quitting = {} /\ crashes < MaxCrashes
  /\ caller' = [caller EXCEPT ![k] = "begin"]
  /\ quitting' = {k}
  /\ UNCHANGED <<vars, up, lockVars, workVars, joining, inTime, countVars>>

\* Worker threads are daemons: the process does not wait for them.
QuitEnd(k) == k \in quitting /\ caller[k] = "closed" /\ Die

\* restore_encrypted_backup begins with a look at the queue it does not hold.
RestoreCheck(k) ==
  /\ up /\ caller[k] = "idle"
  /\ paused /\ activeRun = None
  /\ caller' = [caller EXCEPT ![k] = "begin"]
  /\ UNCHANGED <<vars, up, lockVars, workVars, quitting, joining, inTime, countVars>>

\* shutdown() up to the join; a queue that was never started is closed at once.
ShutdownBegin(k) ==
  /\ caller[k] = "begin"
  /\ closing' = TRUE
  /\ \/ /\ thread = None
        /\ started' = FALSE
        /\ caller' = [caller EXCEPT ![k] = "closed"]
        /\ UNCHANGED <<vars, joining, stopSet, inTime>>
     \/ /\ thread # None
        /\ caller' = [caller EXCEPT ![k] = "join"]
        /\ joining' = [joining EXCEPT ![k] = thread]
        /\ IF activeRun # None /\ runState[activeRun] \in {"queued", "running"}
             THEN RequestStop(activeRun) ELSE UNCHANGED vars
        /\ stopSet' = IF activeRun # None THEN stopSet \cup ({activeEvent} \ {None})
                      ELSE stopSet
        /\ inTime' = IF activeRun # None /\ \E t \in Threads :
                          pc[t] = "run" /\ item[t] = activeRun
                       THEN inTime \cup {activeRun} ELSE inTime
        /\ UNCHANGED started
  /\ Notify
  /\ UNCHANGED <<up, thread, activeRun, activeEvent, refreshing, item, quitting,
                 countVars>>

\* The join returned or gave up; only in the first case is the queue reset.
ShutdownEnd(k) ==
  /\ caller[k] = "join"
  /\ \/ pc[joining[k]] = "off" /\ thread' = None /\ started' = FALSE
     \/ pc[joining[k]] # "off" /\ JoinTimesOut /\ UNCHANGED <<thread, started>>
  /\ caller' = [caller EXCEPT ![k] = "closed"]
  /\ Notify
  /\ UNCHANGED <<vars, up, closing, activeRun, activeEvent, refreshing, item, stopSet,
                 quitting, joining, inTime, countVars>>

\* The database is replaced (or left alone when an item runs or the queue was
\* resumed meanwhile), then the queue is started whatever happened.
RestoreEnd(k) ==
  /\ caller[k] = "closed" /\ k \notin quitting
  /\ caller' = [caller EXCEPT ![k] = "idle"]
  /\ joining' = [joining EXCEPT ![k] = None]
  /\ StartQueue
  /\ UNCHANGED <<up, activeRun, activeEvent, refreshing, item, stopSet, quitting, countVars>>

-----------------------------------------------------------------------------
(* API calls. *)

QEnqueue(R, of, pos, kind) ==
  /\ up /\ ~refreshing
  /\ Enqueue(R, of, pos, kind)
  /\ Notify
  /\ UNCHANGED <<up, lockVars, item, stopSet, callVars, inTime, countVars>>

SetPaused(value) ==
  /\ up /\ paused # value
  /\ SetQueuePaused(value)
  /\ Notify
  /\ UNCHANGED <<up, lockVars, item, stopSet, callVars, inTime, countVars>>

Reorder(pos) ==
  /\ up
  /\ ReorderQueue(pos)
  /\ Notify
  /\ UNCHANGED <<up, lockVars, item, stopSet, callVars, inTime, countVars>>

Retry(r) ==
  /\ up
  /\ RetryRun(r)
  /\ Notify
  /\ UNCHANGED <<up, lockVars, item, stopSet, callVars, inTime, countVars>>

Stop(r) ==
  /\ up
  /\ RequestStop(r)
  /\ IF runState[r] = "running" /\ activeRun = r
       THEN /\ stopSet' = stopSet \cup ({activeEvent} \ {None})
            /\ inTime' = IF \E t \in Threads : pc[t] = "run" /\ item[t] = r
                           THEN inTime \cup {r} ELSE inTime
       ELSE UNCHANGED <<stopSet, inTime>>
  /\ Notify
  /\ UNCHANGED <<up, lockVars, item, callVars, countVars>>

\* Mutant: the refresh does not ask whether a run is executing.
RefreshAnyTime ==
  /\ up /\ ~closing /\ ~refreshing
  /\ refreshes < MaxRefreshes /\ refreshes' = refreshes + 1
  /\ refreshing' = TRUE
  /\ Notify
  /\ UNCHANGED <<vars, up, started, closing, thread, activeRun, activeEvent, item,
                 stopSet, callVars, inTime, faults, crashes>>

\* refresh_current_account: its own API thread works between the two steps.
RefreshBegin ==
  /\ up /\ ~closing /\ activeRun = None /\ ~refreshing
  /\ refreshes < MaxRefreshes /\ refreshes' = refreshes + 1
  /\ refreshing' = TRUE
  /\ Notify
  /\ UNCHANGED <<vars, up, started, closing, thread, activeRun, activeEvent, item,
                 stopSet, callVars, inTime, faults, crashes>>

\* Mutant: nobody is told that the refresh is over.
RefreshEndQuietly ==
  /\ refreshing /\ refreshing' = FALSE
  /\ UNCHANGED <<vars, up, started, closing, thread, activeRun, activeEvent, pc, item,
                 stopSet, callVars, inTime, countVars>>

RefreshEnd ==
  /\ refreshing /\ refreshing' = FALSE
  /\ Notify
  /\ UNCHANGED <<vars, up, started, closing, thread, activeRun, activeEvent, item,
                 stopSet, callVars, inTime, countVars>>

-----------------------------------------------------------------------------
(* The worker loop. *)

Goto(t, there) == pc' = [pc EXCEPT ![t] = there]
OnlyPc == UNCHANGED <<up, lockVars, item, stopSet, callVars, inTime>>

NothingToClaim ==
  paused \/ (\E s \in Runs : qState[s] = "running") \/ ~\E r \in Runs : Claimable(r)

Loop(t) ==
  /\ pc[t] = "idle"
  /\ \/ /\ closing /\ Goto(t, "exit")
        /\ OnlyPc /\ UNCHANGED <<vars, faults>>
     \/ /\ ~closing /\ (refreshing \/ NothingToClaim) /\ Goto(t, "wait")
        /\ OnlyPc /\ UNCHANGED <<vars, faults>>
     \/ /\ ~closing /\ ~refreshing
        /\ \E r \in Runs :
             /\ ClaimNext(r)
             /\ \/ /\ activeRun' = r /\ activeEvent' = t
                   /\ item' = [item EXCEPT ![t] = r]
                   /\ stopSet' = stopSet \ {t}
                   /\ pc' = Woken([pc EXCEPT ![t] = "run"])
                   /\ UNCHANGED faults
                \* the claim committed, the read that follows it raised
                \/ Fault /\ UNCHANGED <<activeRun, activeEvent, item, stopSet, pc>>
        /\ UNCHANGED <<up, started, closing, thread, refreshing, callVars, inTime>>
  /\ UNCHANGED <<crashes, refreshes>>

\* Mutant: the finally clause forgets that the queue has no worker now.
ThreadExitStarted(t) ==
  /\ pc[t] = "exit"
  /\ activeRun' = None /\ activeEvent' = None
  /\ pc' = Woken([pc EXCEPT ![t] = "off"])
  /\ UNCHANGED <<vars, up, started, closing, thread, refreshing, item, stopSet, callVars,
                 inTime, countVars>>

\* The loop's finally clause: the thread is gone.
ThreadExit(t) ==
  /\ pc[t] = "exit"
  /\ activeRun' = None /\ activeEvent' = None /\ started' = FALSE
  /\ pc' = Woken([pc EXCEPT ![t] = "off"])
  /\ UNCHANGED <<vars, up, closing, thread, refreshing, item, stopSet, callVars,
                 inTime, countVars>>

-----------------------------------------------------------------------------
(* _execute_claimed. *)

\* runner.run() returns or raises; it is cancelled only by its stop event.
RunnerEnds(t) ==
  /\ pc[t] = "run"
  /\ \/ Goto(t, "succeeded") \/ Goto(t, "raised") \/ Goto(t, "identity")
     \/ t \in stopSet /\ Goto(t, "cancelled")
  /\ OnlyPc /\ UNCHANGED <<vars, countVars>>

StopSeen(t) == t \in stopSet \/ runState[item[t]] = "stopping"

\* Mutant: an exception fails the run, whether it was stopped or not.
DecideOnSuccess(t) ==
  /\ \/ pc[t] = "succeeded" /\ Goto(t, IF StopSeen(t) THEN "cancel" ELSE "complete")
     \/ pc[t] = "raised" /\ Goto(t, "fail")
     \/ pc[t] = "identity" /\ Goto(t, "replace")
  /\ OnlyPc /\ UNCHANGED <<vars, countVars>>

\* The state is read in a transaction of its own, before the terminal one.
Decide(t) ==
  /\ \/ pc[t] = "succeeded" /\ Goto(t, IF StopSeen(t) THEN "cancel" ELSE "complete")
     \/ pc[t] = "raised" /\ Goto(t, IF StopSeen(t) THEN "recancel" ELSE "fail")
     \/ pc[t] = "identity" /\ Goto(t, IF StopSeen(t) THEN "idcancel" ELSE "replace")
  /\ OnlyPc /\ UNCHANGED <<vars, countVars>>

\* A terminal transaction of the worker: done commits it; refused says that
\* it raises, as any of them may, and then the worker goes to otherwise.
Attempt(t, done, refused, otherwise) ==
  /\ \/ done /\ Goto(t, "clear") /\ UNCHANGED faults
     \/ refused /\ UNCHANGED <<vars, faults>> /\ Goto(t, otherwise)
     \/ Fault /\ UNCHANGED vars /\ Goto(t, otherwise)
  /\ OnlyPc /\ UNCHANGED <<crashes, refreshes>>

CancelDone(r) == MarkRunCancelled(r) \/ (runState[r] = "cancelled" /\ UNCHANGED vars)
CancelRefused(r) == ~Executing(r) /\ runState[r] # "cancelled"

Complete(t) ==
  /\ pc[t] = "complete"
  /\ Attempt(t, CompleteRunAndRotate(item[t]), CompletionRefused(item[t]), "raised")

Cancel(t) ==
  /\ pc[t] = "cancel"
  /\ Attempt(t, CancelDone(item[t]), CancelRefused(item[t]), "raised")

\* In an except clause: its own handler swallows a second exception; only
\* that of WorkflowIdentityError goes on to fail the run.
CancelAgain(t) ==
  /\ pc[t] \in {"recancel", "idcancel"}
  /\ Attempt(t, CancelDone(item[t]), CancelRefused(item[t]),
             IF pc[t] = "recancel" THEN "clear" ELSE "fail")

\* An owner's identity error fails the run; otherwise the account that failed
\* is replaced, unless that is refused, which is left open here.
Replace(t) ==
  /\ pc[t] = "replace"
  /\ Attempt(t, \/ FailRun(item[t])
                \/ \E role \in {"current", "next"}, c \in FailureCodes :
                     FailRunAndReplaceAccount(item[t], role, c),
             TRUE, "fail")

Fail(t) ==
  /\ pc[t] = "fail"
  /\ Attempt(t, FailRun(item[t]), ~Executing(item[t]), "clear")

\* except WorkflowCancelled: nothing guards this call, the thread dies.
AfterCancelled(t) ==
  /\ pc[t] = "cancelled"
  /\ Attempt(t, CancelDone(item[t]), CancelRefused(item[t]), "exit")

Clear(t) ==
  /\ pc[t] = "clear"
  /\ activeRun' = None /\ activeEvent' = None
  /\ pc' = Woken([pc EXCEPT ![t] = "idle"])
  /\ item' = [item EXCEPT ![t] = None]
  /\ UNCHANGED <<vars, up, started, closing, thread, refreshing, stopSet, callVars,
                 inTime, countVars>>

-----------------------------------------------------------------------------
UserCalls ==
  \/ \E R \in SUBSET Runs, kind \in {"handoff", "rescue"} :
       \E of \in [R -> Workspaces], pos \in [R -> 0..MaxPos] : QEnqueue(R, of, pos, kind)
  \/ \E b \in BOOLEAN : SetPaused(b)
  \/ \E r \in Runs : Stop(r) \/ Retry(r)
  \/ RefreshBegin

Reorders ==
  \E pos \in [{r \in Runs : qState[r] = "pending"} -> 0..MaxPos] : Reorder(pos)

Lifecycle(k) ==
  \/ RestoreCheck(k) \/ QuitBegin(k)
  \/ ShutdownBegin(k) \/ ShutdownEnd(k) \/ RestoreEnd(k) \/ QuitEnd(k)

Worker(t) ==
  \/ Loop(t) \/ ThreadExit(t) \/ RunnerEnds(t) \/ Decide(t) \/ Complete(t)
  \/ Cancel(t) \/ CancelAgain(t) \/ Replace(t) \/ Fail(t) \/ AfterCancelled(t) \/ Clear(t)

\* The calls on accounts, aliases and workspaces go to the tables without the
\* lock of the queue.
EditTables == up /\ (PoolNext \/ WorkspaceNext) /\ UNCHANGED memVars

QueueNext ==
  \/ UserCalls \/ Reorders \/ RefreshEnd \/ Boot \/ Crash
  \/ \E k \in Callers : Lifecycle(k)
  \/ \E t \in Threads : Worker(t)

QNext == QueueNext \/ EditTables

QSpec == QInit /\ [][QNext]_qvars

\* What eventually happens: the operating system schedules the worker, the
\* runner and the refresh return (every remote call has a timeout), a lifecycle
\* call that has begun goes on, and a dead process is started again.
Fairness ==
  /\ WF_qvars(Boot) /\ WF_qvars(RefreshEnd)
  /\ \A k \in Callers :
       WF_qvars(ShutdownBegin(k) \/ ShutdownEnd(k) \/ RestoreEnd(k) \/ QuitEnd(k))
  /\ \A t \in Threads : WF_qvars(Worker(t))
-----------------------------------------------------------------------------
(* Properties. *)

\* The flag start() trusts tells the truth: it is set exactly while the thread
\* the queue remembers is alive, and no other worker thread is.
StartedIsTheWorker ==
  \A t \in Threads : pc[t] # "off" <=> started /\ thread = t

\* README.md: the queue executes one task at a time, globally.
OneRunAtATime ==
  \A s, t \in Threads : AtWork(s) /\ AtWork(t) => s = t

\* The memory of the queue and the tables agree: a worker executes the run
\* the tables call running and the API calls active, and, as long as no
\* database call has raised, every run the tables call executing has such a
\* worker, so none blocks the queue for ever.
WorkerAgreesWithTables ==
  /\ \A t \in Threads : AtWork(t) =>
       /\ activeRun = item[t] /\ activeEvent = t
       /\ pc[t] # "clear" => Executing(item[t]) /\ qState[item[t]] = "running"
  /\ started /\ faults = 0 =>
       \A r \in Runs : Executing(r) => \E t \in Threads : AtWork(t) /\ item[t] = r

\* CHANGELOG.md: the server serialises credential refreshes and handoffs.
RefreshExcludesRun ==
  refreshing => activeRun = None /\ \A t \in Threads : ~AtWork(t)

\* A stop that is accepted while the runner is at work prevails over whatever
\* the runner then returns or raises: the run cannot succeed or fail any more.
StopInTimePrevails ==
  faults = 0 => \A r \in inTime : runState[r] \in {"stopping", "cancelled"}

\* A queued run is executed or cancelled once the queue is left unpaused: no
\* wake-up is missed, and no shutdown, restore, crash or refresh strands it.
QueuedIsServed ==
  <>[]~paused => \A r \in Runs : runState[r] = "queued" ~> runState[r] # "queued"

\* A run that was asked to stop does not stay so.
StoppingEnds ==
  \A r \in Runs : runState[r] = "stopping" ~> ~Executing(r)
=============================================================================

--------------------------- MODULE TaskQueue_proofs ---------------------------
(***************************************************************************)
(* Proofs about the task queue: its steps are transactions on the tables,  *)
(* and its memory agrees with them, for any number of threads, runs,       *)
(* faults, crashes and refreshes.                                          *)
(***************************************************************************)
EXTENDS TaskQueue, Accounts_proofs

Places == Busy \cup {"off", "idle", "wait", "exit"}

LEMMA PlacesDiffer ==
  /\ Busy \subseteq Places \ {"off", "idle", "wait", "exit"}
  /\ {"off", "idle", "wait", "exit"} \subseteq Places
BY DEF Places, Busy

\* A thread that is woken was waiting.
LEMMA WokenPlace ==
  ASSUME NEW f \in [Threads -> Places]
  PROVE  /\ Woken(f) \in [Threads -> Places]
         /\ \A t \in Threads : /\ Woken(f)[t] = f[t] \/ (f[t] = "wait" /\ Woken(f)[t] = "idle")
                               /\ Woken(f)[t] = "off" <=> f[t] = "off"
                               /\ Woken(f)[t] \in Busy => Woken(f)[t] = f[t]
                               /\ f[t] \in Busy => Woken(f)[t] = f[t]
BY DEF Woken, Places, Busy

(***************************************************************************)
(* Every step is a transaction on the tables, or leaves them alone.        *)
(***************************************************************************)
ItemsAreRuns == \A t \in Threads : AtWork(t) => item[t] \in Runs

LEMMA CallsOnTables ==
  ASSUME QTypeOK, UserCalls \/ Reorders \/ RefreshEnd \/ EditTables
  PROVE  [Next]_vars
<1>1. ASSUME NEW R \in SUBSET Runs, NEW kind \in {"handoff", "rescue"},
             NEW of \in [R -> Workspaces], NEW pos \in [R -> 0..MaxPos],
             QEnqueue(R, of, pos, kind)
      PROVE  Next
  BY <1>1 DEF QEnqueue, Next, UserQueueNext
<1>2. ASSUME NEW b \in BOOLEAN, SetPaused(b) PROVE Next
  BY <1>2 DEF SetPaused, Next, UserQueueNext
<1>3. ASSUME NEW r \in Runs, Stop(r) \/ Retry(r) PROVE Next
  BY <1>3 DEF Stop, Retry, Next, UserQueueNext
<1>4. ASSUME NEW pos \in [{r \in Runs : qState[r] = "pending"} -> 0..MaxPos], Reorder(pos)
      PROVE  Next
  BY <1>4 DEF Reorder, Next, UserQueueNext
<1>5. ASSUME RefreshBegin \/ RefreshEnd PROVE UNCHANGED vars
  BY <1>5 DEF RefreshBegin, RefreshEnd
<1>6. ASSUME EditTables PROVE Next
  BY <1>6 DEF EditTables, Next
<1> QED
  BY <1>1, <1>2, <1>3, <1>4, <1>5, <1>6 DEF UserCalls, Reorders

LEMMA StartOnTables ==
  ASSUME StartQueue
  PROVE  [Next]_vars
BY DEF StartQueue, Next, WorkerNext

LEMMA LifecycleOnTables ==
  ASSUME QTypeOK, NEW k \in Callers, Lifecycle(k)
  PROVE  [Next]_vars
<1>1. ASSUME ShutdownBegin(k) PROVE [Next]_vars
  BY <1>1 DEF ShutdownBegin, Next, UserQueueNext, QTypeOK
<1>2. ASSUME RestoreEnd(k) PROVE [Next]_vars
  BY <1>2, StartOnTables DEF RestoreEnd
<1>3. ASSUME RestoreCheck(k) \/ QuitBegin(k) \/ ShutdownEnd(k) \/ QuitEnd(k)
      PROVE  UNCHANGED vars
  BY <1>3 DEF RestoreCheck, QuitBegin, ShutdownEnd, QuitEnd, Die
<1> QED
  BY <1>1, <1>2, <1>3 DEF Lifecycle

LEMMA WorkOnTables ==
  ASSUME QTypeOK, ItemsAreRuns, NEW t \in Threads, Worker(t)
  PROVE  [Next]_vars
<1>1. ASSUME Loop(t) PROVE [Next]_vars
  BY <1>1 DEF Loop, Next, WorkerNext
<1>2. ASSUME ThreadExit(t) \/ RunnerEnds(t) \/ Decide(t) \/ Clear(t) PROVE UNCHANGED vars
  BY <1>2 DEF ThreadExit, RunnerEnds, Decide, Clear
<1>3. ASSUME Complete(t) PROVE [Next]_vars
  BY <1>3 DEF Complete, Attempt, ItemsAreRuns, AtWork, Busy, Next, WorkerNext
<1>4. ASSUME Cancel(t) \/ CancelAgain(t) \/ AfterCancelled(t) PROVE [Next]_vars
  BY <1>4 DEF Cancel, CancelAgain, AfterCancelled, Attempt, CancelDone, ItemsAreRuns, AtWork,
              Busy, Next, WorkerNext
<1>5. ASSUME Replace(t) PROVE [Next]_vars
  BY <1>5 DEF Replace, Attempt, ItemsAreRuns, AtWork, Busy, Next, WorkerNext
<1>6. ASSUME Fail(t) PROVE [Next]_vars
  BY <1>6 DEF Fail, Attempt, ItemsAreRuns, AtWork, Busy, Next, WorkerNext
<1> QED
  BY <1>1, <1>2, <1>3, <1>4, <1>5, <1>6 DEF Worker

LEMMA StepOnTables ==
  ASSUME QTypeOK, ItemsAreRuns, [QNext]_qvars
  PROVE  [Next]_vars
<1>1. ASSUME Boot PROVE [Next]_vars
  BY <1>1, StartOnTables DEF Boot
<1>2. ASSUME Crash \/ UNCHANGED qvars PROVE UNCHANGED vars
  BY <1>2 DEF Crash, Die, qvars
<1> QED
  BY <1>1, <1>2, CallsOnTables, LifecycleOnTables, WorkOnTables DEF QNext, QueueNext

(***************************************************************************)
(* Types of the memory.                                                    *)
(***************************************************************************)
MemTypeOK ==
  /\ up \in BOOLEAN /\ started \in BOOLEAN /\ closing \in BOOLEAN
  /\ thread \in Threads \cup {None}
  /\ activeRun \in Runs \cup {None}
  /\ activeEvent \in Threads \cup {None}
  /\ refreshing \in BOOLEAN
  /\ pc \in [Threads -> Places]
  /\ item \in [Threads -> Runs \cup {None}]
  /\ stopSet \subseteq Threads
  /\ caller \in [Callers -> {"idle", "begin", "join", "closed"}]
  /\ quitting \subseteq Callers
  /\ joining \in [Callers -> Threads \cup {None}]
  /\ inTime \subseteq Runs
  /\ faults \in 0..MaxFaults /\ crashes \in 0..MaxCrashes
  /\ refreshes \in 0..MaxRefreshes

LEMMA TypesSplit == QTypeOK <=> TypeOK /\ MemTypeOK
BY DEF QTypeOK, MemTypeOK, Places

LEMMA TypesMeet == ASSUME TypeOK', MemTypeOK' PROVE QTypeOK'
BY DEF QTypeOK, MemTypeOK, Places

LEMMA CallsType ==
  ASSUME MemTypeOK, ItemsAreRuns, UserCalls \/ Reorders \/ RefreshEnd \/ EditTables
  PROVE  MemTypeOK' /\ ItemsAreRuns'
<1>1. /\ Woken(pc) \in [Threads -> Places]
      /\ \A t \in Threads : Woken(pc)[t] \in Busy => Woken(pc)[t] = pc[t]
  BY WokenPlace DEF MemTypeOK
<1>2. ASSUME pc' \in {pc, Woken(pc)}, UNCHANGED <<up, started, closing, thread, activeRun,
             activeEvent, item, callVars, faults, crashes>>, refreshing' \in BOOLEAN,
             stopSet' \subseteq Threads, inTime' \subseteq Runs,
             refreshes' \in 0..MaxRefreshes
      PROVE  MemTypeOK' /\ ItemsAreRuns'
  <2>1. pc' \in [Threads -> Places] /\ \A t \in Threads : pc'[t] \in Busy => pc'[t] = pc[t]
    BY <1>1, <1>2 DEF MemTypeOK
  <2> QED
    BY <1>2, <2>1 DEF MemTypeOK, ItemsAreRuns, AtWork, callVars
<1>3. ASSUME NEW R, NEW of, NEW pos, NEW kind, QEnqueue(R, of, pos, kind)
      PROVE  MemTypeOK' /\ ItemsAreRuns'
  BY <1>2, <1>3 DEF QEnqueue, MemTypeOK, Notify, lockVars, callVars, countVars
<1>4. ASSUME NEW b, SetPaused(b) PROVE MemTypeOK' /\ ItemsAreRuns'
  BY <1>2, <1>4 DEF SetPaused, MemTypeOK, Notify, lockVars, callVars, countVars
<1>5. ASSUME NEW pos, Reorder(pos) PROVE MemTypeOK' /\ ItemsAreRuns'
  BY <1>2, <1>5 DEF Reorder, MemTypeOK, Notify, lockVars, callVars, countVars
<1>6. ASSUME NEW r \in Runs, Retry(r) PROVE MemTypeOK' /\ ItemsAreRuns'
  BY <1>2, <1>6 DEF Retry, MemTypeOK, Notify, lockVars, callVars, countVars
<1>7. ASSUME NEW r \in Runs, Stop(r) PROVE MemTypeOK' /\ ItemsAreRuns'
  BY <1>2, <1>7 DEF Stop, MemTypeOK, Notify, lockVars, callVars, countVars
<1>8. ASSUME RefreshBegin PROVE MemTypeOK' /\ ItemsAreRuns'
  BY <1>2, <1>8, QueueAssumption DEF RefreshBegin, MemTypeOK, Notify, lockVars, callVars
<1>9. ASSUME RefreshEnd PROVE MemTypeOK' /\ ItemsAreRuns'
  BY <1>2, <1>9 DEF RefreshEnd, MemTypeOK, Notify, lockVars, callVars, countVars
<1>10. ASSUME EditTables PROVE MemTypeOK' /\ ItemsAreRuns'
  BY <1>2, <1>10 DEF EditTables, MemTypeOK, memVars, lockVars, workVars, callVars, countVars
<1> QED
  BY <1>3, <1>4, <1>5, <1>6, <1>7, <1>8, <1>9, <1>10 DEF UserCalls, Reorders

\* start() brings at most one thread to life.
Starts ==
  \/ UNCHANGED <<started, closing, thread, pc, inTime>>
  \/ /\ ~started /\ started' = TRUE /\ closing' = FALSE
     /\ inTime' = {r \in inTime : ~Executing(r)}
     /\ \E t \in Threads : /\ pc[t] = "off" /\ thread' = t
                           /\ pc' = Woken([pc EXCEPT ![t] = "idle"])

LEMMA StartStarts == StartQueue => Starts
BY DEF StartQueue, Starts

LEMMA StartsType ==
  ASSUME MemTypeOK, ItemsAreRuns, Starts, item' = item
  PROVE  /\ started' \in BOOLEAN /\ closing' \in BOOLEAN /\ thread' \in Threads \cup {None}
         /\ pc' \in [Threads -> Places] /\ inTime' \subseteq Runs
         /\ ItemsAreRuns'
<1>1. CASE UNCHANGED <<started, closing, thread, pc, inTime>>
  BY <1>1 DEF MemTypeOK, ItemsAreRuns, AtWork
<1>2. CASE ~UNCHANGED <<started, closing, thread, pc, inTime>>
  <2>1. PICK t \in Threads : /\ pc[t] = "off" /\ thread' = t
                             /\ pc' = Woken([pc EXCEPT ![t] = "idle"])
    BY <1>2 DEF Starts
  <2> DEFINE f == [pc EXCEPT ![t] = "idle"]
  <2>2. f \in [Threads -> Places] /\ f[t] = "idle" /\ \A s \in Threads \ {t} : f[s] = pc[s]
    BY PlacesDiffer DEF MemTypeOK
  <2>3. pc' = Woken(f)
    BY <2>1
  <2> HIDE DEF f
  <2>4. pc' \in [Threads -> Places] /\ \A s \in Threads : pc'[s] \in Busy => pc'[s] = f[s]
    BY <2>2, <2>3, WokenPlace
  <2>5. ItemsAreRuns'
    BY <2>2, <2>4, PlacesDiffer DEF ItemsAreRuns, AtWork
  <2> QED
    BY <1>2, <2>1, <2>4, <2>5 DEF Starts, MemTypeOK
<1> QED
  BY <1>1, <1>2

LEMMA DieType ==
  ASSUME MemTypeOK, Die
  PROVE  MemTypeOK' /\ ItemsAreRuns'
<1>1. pc' \in [Threads -> Places] /\ \A t \in Threads : pc'[t] \notin Busy
  BY PlacesDiffer DEF Die
<1>2. crashes' \in 0..MaxCrashes
  BY QueueAssumption DEF Die, MemTypeOK
<1>3. /\ caller' \in [Callers -> {"idle", "begin", "join", "closed"}]
      /\ joining' \in [Callers -> Threads \cup {None}]
      /\ item' \in [Threads -> Runs \cup {None}]
  BY DEF Die
<1> QED
  BY <1>1, <1>2, <1>3 DEF Die, MemTypeOK, ItemsAreRuns, AtWork

LEMMA LifecycleType ==
  ASSUME MemTypeOK, ItemsAreRuns, NEW k \in Callers, Lifecycle(k)
  PROVE  MemTypeOK' /\ ItemsAreRuns'
<1>1. /\ Woken(pc) \in [Threads -> Places]
      /\ \A t \in Threads : Woken(pc)[t] \in Busy => Woken(pc)[t] = pc[t]
  BY WokenPlace DEF MemTypeOK
<1>2. ASSUME pc' \in {pc, Woken(pc)}, item' = item
      PROVE  pc' \in [Threads -> Places] /\ ItemsAreRuns'
  BY <1>1, <1>2 DEF MemTypeOK, ItemsAreRuns, AtWork
<1>3. ASSUME RestoreCheck(k) PROVE MemTypeOK' /\ ItemsAreRuns'
  BY <1>2, <1>3 DEF RestoreCheck, MemTypeOK, lockVars, workVars, countVars
<1>4. ASSUME QuitBegin(k) PROVE MemTypeOK' /\ ItemsAreRuns'
  BY <1>2, <1>4 DEF QuitBegin, MemTypeOK, lockVars, workVars, countVars
<1>5. ASSUME ShutdownBegin(k) PROVE MemTypeOK' /\ ItemsAreRuns'
  <2>1. pc' \in [Threads -> Places] /\ ItemsAreRuns'
    BY <1>2, <1>5 DEF ShutdownBegin, Notify
  <2>2. /\ caller' \in [Callers -> {"idle", "begin", "join", "closed"}]
        /\ joining' \in [Callers -> Threads \cup {None}]
        /\ stopSet' \subseteq Threads /\ inTime' \subseteq Runs /\ started' \in BOOLEAN
    BY <1>5 DEF ShutdownBegin, MemTypeOK
  <2> QED
    BY <1>5, <2>1, <2>2 DEF ShutdownBegin, MemTypeOK, countVars
<1>6. ASSUME ShutdownEnd(k) PROVE MemTypeOK' /\ ItemsAreRuns'
  <2>1. pc' \in [Threads -> Places] /\ ItemsAreRuns'
    BY <1>2, <1>6 DEF ShutdownEnd, Notify
  <2> QED
    BY <1>6, <2>1 DEF ShutdownEnd, MemTypeOK, countVars
<1>7. ASSUME RestoreEnd(k) PROVE MemTypeOK' /\ ItemsAreRuns'
  BY <1>7, StartStarts, StartsType DEF RestoreEnd, MemTypeOK, countVars
<1>8. ASSUME QuitEnd(k) PROVE MemTypeOK' /\ ItemsAreRuns'
  BY <1>8, DieType DEF QuitEnd
<1> QED
  BY <1>3, <1>4, <1>5, <1>6, <1>7, <1>8 DEF Lifecycle

\* Every step of the loop moves one thread; only a claim makes it busy.
WorkerMoves(t) ==
  /\ UNCHANGED <<up, closing, thread, refreshing, callVars, inTime, crashes, refreshes>>
  /\ \E place \in Places :
       /\ pc' \in {[pc EXCEPT ![t] = place], Woken([pc EXCEPT ![t] = place])}
       /\ \/ /\ pc[t] \in Busy /\ item' = item
             /\ UNCHANGED <<started, activeRun, activeEvent, stopSet>>
          \/ /\ place \notin Busy /\ item' \in {item, [item EXCEPT ![t] = None]}
             /\ started' \in {started, FALSE} /\ stopSet' = stopSet
             /\ activeRun' \in {activeRun, None} /\ activeEvent' \in {activeEvent, None}
          \/ \E r \in Runs : /\ item' = [item EXCEPT ![t] = r] /\ stopSet' = stopSet \ {t}
                             /\ activeRun' = r /\ activeEvent' = t /\ started' = started
  /\ faults' \in 0..MaxFaults

LEMMA FaultType ==
  ASSUME MemTypeOK, Fault \/ faults' = faults
  PROVE  faults' \in 0..MaxFaults
BY QueueAssumption DEF Fault, CanFault, MemTypeOK

LEMMA WorkerMovesType ==
  ASSUME MemTypeOK, ItemsAreRuns, NEW t \in Threads, WorkerMoves(t)
  PROVE  MemTypeOK' /\ ItemsAreRuns'
<1>1. PICK place \in Places :
        /\ pc' \in {[pc EXCEPT ![t] = place], Woken([pc EXCEPT ![t] = place])}
        /\ \/ /\ pc[t] \in Busy /\ item' = item
              /\ UNCHANGED <<started, activeRun, activeEvent, stopSet>>
           \/ /\ place \notin Busy /\ item' \in {item, [item EXCEPT ![t] = None]}
              /\ started' \in {started, FALSE} /\ stopSet' = stopSet
              /\ activeRun' \in {activeRun, None} /\ activeEvent' \in {activeEvent, None}
           \/ \E r \in Runs : /\ item' = [item EXCEPT ![t] = r] /\ stopSet' = stopSet \ {t}
                              /\ activeRun' = r /\ activeEvent' = t /\ started' = started
  BY DEF WorkerMoves
<1> DEFINE f == [pc EXCEPT ![t] = place]
<1>2. f \in [Threads -> Places] /\ f[t] = place /\ \A s \in Threads \ {t} : f[s] = pc[s]
  BY DEF MemTypeOK
<1>3. pc' \in {f, Woken(f)}
  BY <1>1
<1> HIDE DEF f
<1>4. pc' \in [Threads -> Places] /\ \A s \in Threads : pc'[s] \in Busy => pc'[s] = f[s]
  BY <1>2, <1>3, WokenPlace
<1>5. item' \in [Threads -> Runs \cup {None}]
  BY <1>1 DEF MemTypeOK
<1>6. ItemsAreRuns'
  BY <1>1, <1>2, <1>4 DEF ItemsAreRuns, AtWork, MemTypeOK
<1> QED
  BY <1>1, <1>4, <1>5, <1>6 DEF WorkerMoves, MemTypeOK, callVars

\* The steps of _execute_claimed but for the last move on with the item.
Executes(t) ==
  \/ RunnerEnds(t) \/ Decide(t) \/ Complete(t) \/ Cancel(t) \/ CancelAgain(t)
  \/ Replace(t) \/ Fail(t) \/ AfterCancelled(t)

LEMMA ExecutesPlace ==
  ASSUME NEW t \in Threads, Executes(t)
  PROVE  /\ pc[t] \in Busy /\ UNCHANGED <<started, thread>>
         /\ \E place \in Busy \cup {"exit"} : pc' = [pc EXCEPT ![t] = place]
<1>1. ASSUME RunnerEnds(t) PROVE \E place \in Busy : pc' = [pc EXCEPT ![t] = place]
  BY <1>1 DEF RunnerEnds, Goto, Busy
<1>2. ASSUME Decide(t) PROVE \E place \in Busy : pc' = [pc EXCEPT ![t] = place]
  BY <1>2 DEF Decide, Goto, Busy
<1>3. ASSUME Complete(t) \/ Cancel(t) \/ CancelAgain(t) \/ Replace(t) \/ Fail(t)
             \/ AfterCancelled(t)
      PROVE \E place \in Busy \cup {"exit"} : pc' = [pc EXCEPT ![t] = place]
  BY <1>3 DEF Complete, Cancel, CancelAgain, Replace, Fail, AfterCancelled, Attempt, Goto, Busy
<1>4. pc[t] \in Busy
  BY DEF Executes, RunnerEnds, Decide, Complete, Cancel, CancelAgain, Replace, Fail,
         AfterCancelled, Busy
<1>5. OnlyPc
  BY DEF Executes, RunnerEnds, Decide, Complete, Cancel, CancelAgain, Replace, Fail,
         AfterCancelled, Attempt
<1> QED
  BY <1>1, <1>2, <1>3, <1>4, <1>5 DEF Executes, OnlyPc, lockVars

LEMMA ExecutesMoves ==
  ASSUME MemTypeOK, NEW t \in Threads, Executes(t)
  PROVE  WorkerMoves(t)
<1>1. PICK place \in Busy \cup {"exit"} : pc' = [pc EXCEPT ![t] = place]
  BY ExecutesPlace
<1>2. pc[t] \in Busy
  BY ExecutesPlace
<1>3. OnlyPc /\ UNCHANGED <<crashes, refreshes>> /\ (Fault \/ faults' = faults)
  BY DEF Executes, RunnerEnds, Decide, Complete, Cancel, CancelAgain, Replace, Fail,
         AfterCancelled, Attempt, countVars
<1>4. faults' \in 0..MaxFaults
  BY <1>3, FaultType
<1>5. place \in Places
  BY PlacesDiffer
<1> QED
  BY <1>1, <1>2, <1>3, <1>4, <1>5 DEF WorkerMoves, OnlyPc, lockVars

LEMMA WorkerStepMoves ==
  ASSUME MemTypeOK, NEW t \in Threads, Worker(t)
  PROVE  WorkerMoves(t)
<1>1. ASSUME Loop(t) PROVE WorkerMoves(t)
  <2>1. CASE \E place \in {"exit", "wait"} : Goto(t, place) /\ OnlyPc /\ UNCHANGED faults
    BY <1>1, <2>1, PlacesDiffer
       DEF Loop, WorkerMoves, OnlyPc, Goto, lockVars, MemTypeOK
  <2>2. CASE \E r \in Runs :
                 /\ activeRun' = r /\ activeEvent' = t /\ item' = [item EXCEPT ![t] = r]
                 /\ stopSet' = stopSet \ {t} /\ pc' = Woken([pc EXCEPT ![t] = "run"])
                 /\ UNCHANGED <<faults, up, started, closing, thread, refreshing, callVars, inTime>>
    <3>1. "run" \in Places
      BY DEF Places, Busy
    <3> QED
      BY <1>1, <2>2, <3>1 DEF Loop, WorkerMoves, MemTypeOK
  <2>3. CASE /\ Fault
             /\ UNCHANGED <<activeRun, activeEvent, item, stopSet, pc, up, started, closing,
                            thread, refreshing, callVars, inTime>>
    <3>1. "idle" \in Places \ Busy /\ pc' = [pc EXCEPT ![t] = "idle"]
      BY <1>1, <2>3, PlacesDiffer DEF Loop, MemTypeOK
    <3> QED
      BY <1>1, <2>3, <3>1, FaultType DEF Loop, WorkerMoves
  <2> QED
    BY <1>1, <2>1, <2>2, <2>3 DEF Loop
<1>2. ASSUME ThreadExit(t) PROVE WorkerMoves(t)
  BY <1>2, PlacesDiffer DEF ThreadExit, WorkerMoves, countVars, MemTypeOK
<1>3. ASSUME Clear(t) PROVE WorkerMoves(t)
  BY <1>3, PlacesDiffer DEF Clear, WorkerMoves, countVars, MemTypeOK
<1> QED
  BY <1>1, <1>2, <1>3, ExecutesMoves DEF Worker, Executes

QTyped == QTypeOK /\ ItemsAreRuns

LEMMA QTypedInit == QInit => QTyped
<1> SUFFICES ASSUME QInit
             PROVE  QTyped
  OBVIOUS
<1>1. TypeOK
  BY InitType DEF QInit
<1>2. pc \in [Threads -> Places] /\ \A t \in Threads : pc[t] \notin Busy
  BY PlacesDiffer DEF QInit, FreshMemory
<1>3. /\ faults \in 0..MaxFaults /\ crashes \in 0..MaxCrashes /\ refreshes \in 0..MaxRefreshes
      /\ item \in [Threads -> Runs \cup {None}]
      /\ caller \in [Callers -> {"idle", "begin", "join", "closed"}]
      /\ joining \in [Callers -> Threads \cup {None}]
  BY QueueAssumption DEF QInit, FreshMemory
<1>4. MemTypeOK /\ ItemsAreRuns
  BY <1>2, <1>3 DEF QInit, FreshMemory, MemTypeOK, ItemsAreRuns, AtWork
<1> QED
  BY <1>1, <1>4, TypesSplit DEF QTyped

LEMMA QTypedNext == QTyped /\ [QNext]_qvars => QTyped'
<1> SUFFICES ASSUME QTyped, [QNext]_qvars
             PROVE  QTyped'
  OBVIOUS
<1>1. MemTypeOK /\ ItemsAreRuns /\ TypeOK
  BY TypesSplit DEF QTyped
<1>2. TypeOK'
  BY <1>1, StepOnTables, NextType DEF QTyped
<1>3. ASSUME UNCHANGED qvars PROVE MemTypeOK' /\ ItemsAreRuns'
  <2>1. UNCHANGED <<up, started, closing, thread, activeRun, activeEvent, refreshing, pc, item,
                    stopSet, caller, quitting, joining, inTime, faults, crashes, refreshes>>
    BY <1>3 DEF qvars, memVars, lockVars, workVars, callVars, countVars
  <2> QED
    BY <1>1, <2>1 DEF MemTypeOK, ItemsAreRuns, AtWork
<1>4. ASSUME Boot PROVE MemTypeOK' /\ ItemsAreRuns'
  BY <1>1, <1>4, StartStarts, StartsType DEF Boot, MemTypeOK, callVars, countVars
<1>5. ASSUME Crash PROVE MemTypeOK' /\ ItemsAreRuns'
  BY <1>1, <1>5, DieType DEF Crash
<1>6. ASSUME NEW t \in Threads, Worker(t) PROVE MemTypeOK' /\ ItemsAreRuns'
  BY <1>1, <1>6, WorkerStepMoves, WorkerMovesType
<1>7. MemTypeOK' /\ ItemsAreRuns'
  BY <1>1, <1>3, <1>4, <1>5, <1>6, CallsType, LifecycleType DEF QNext, QueueNext
<1>8. QTypeOK'
  BY <1>2, <1>7, TypesMeet
<1> QED
  BY <1>7, <1>8 DEF QTyped

LEMMA QTypedInvariant == QSpec => []QTyped
BY QTypedInit, QTypedNext, PTL DEF QSpec

\* The memory of the queue keeps its types, and so do the tables under it.
THEOREM QueueTypes == QSpec => []QTypeOK
<1>1. QTyped => QTypeOK
  BY DEF QTyped
<1> QED
  BY <1>1, QTypedInvariant, PTL

\* Whatever threads, stops, restores, faults and crashes do, the task queue
\* only takes the transactions of ConsoleDb: all that is proved of the tables
\* holds under it.
THEOREM QueueUsesTables == QSpec => Spec
<1>1. QInit => Init
  BY DEF QInit
<1>2. QTyped /\ [QNext]_qvars => [Next]_vars
  BY StepOnTables DEF QTyped
<1> QED
  BY <1>1, <1>2, QTypedInvariant, PTL DEF QSpec, Spec

\* So whatever threads, callers, faults and crashes do, the queue is a serial one.
THEOREM QueueIsSerial == QSpec => ImplementsSerialQueue
BY QueueUsesTables, TablesAreASerialQueue, PTL

(***************************************************************************)
(* One worker thread.  With two lifecycle calls at once this is false, as  *)
(* OneRunAtATime is (the second join clears the thread that the first call *)
(* has started anew), so from here on lifecycle calls follow one another.  *)
(***************************************************************************)
OneCaller == \A j, k \in Callers : j = k

\* A call joins the thread that the queue remembers.
CallsInv ==
  \A k \in Callers : /\ caller[k] # "idle" => up
                     /\ caller[k] = "join" => thread # None /\ joining[k] = thread

ThreadInv == StartedIsTheWorker /\ CallsInv

\* A step in which nobody is born and nobody dies.
SameThreads ==
  /\ UNCHANGED <<started, thread>>
  /\ \A t \in Threads : pc'[t] = "off" <=> pc[t] = "off"

LEMMA SameThreadsStarted == StartedIsTheWorker /\ SameThreads => StartedIsTheWorker'
BY DEF StartedIsTheWorker, SameThreads

LEMMA SameCalls == CallsInv /\ UNCHANGED <<up, thread, callVars>> => CallsInv'
BY DEF CallsInv, callVars

LEMMA WokenSame ==
  ASSUME MemTypeOK, UNCHANGED <<started, thread>>, pc' \in {pc, Woken(pc)}
  PROVE  SameThreads
BY WokenPlace DEF MemTypeOK, SameThreads

LEMMA StartsThread ==
  ASSUME MemTypeOK, StartedIsTheWorker, Starts
  PROVE  StartedIsTheWorker'
<1>1. CASE UNCHANGED <<started, closing, thread, pc, inTime>>
  BY <1>1 DEF StartedIsTheWorker
<1>2. CASE ~UNCHANGED <<started, closing, thread, pc, inTime>>
  <2>1. PICK t \in Threads : /\ pc[t] = "off" /\ thread' = t
                             /\ pc' = Woken([pc EXCEPT ![t] = "idle"])
    BY <1>2 DEF Starts
  <2>2. ~started /\ started' = TRUE /\ \A s \in Threads : pc[s] = "off"
    BY <1>2 DEF Starts, StartedIsTheWorker
  <2> DEFINE f == [pc EXCEPT ![t] = "idle"]
  <2>3. f \in [Threads -> Places] /\ f[t] = "idle" /\ \A s \in Threads \ {t} : f[s] = pc[s]
    BY PlacesDiffer DEF MemTypeOK
  <2>4. pc' = Woken(f)
    BY <2>1
  <2> HIDE DEF f
  <2>5. \A s \in Threads : pc'[s] = "off" <=> f[s] = "off"
    BY <2>3, <2>4, WokenPlace
  <2> QED
    BY <2>1, <2>2, <2>3, <2>5 DEF StartedIsTheWorker
<1> QED
  BY <1>1, <1>2

LEMMA DieThread ==
  ASSUME Die
  PROVE  ThreadInv'
BY DEF Die, ThreadInv, StartedIsTheWorker, CallsInv

LEMMA CallsThread ==
  ASSUME MemTypeOK, ThreadInv, UserCalls \/ Reorders \/ RefreshEnd \/ EditTables
  PROVE  ThreadInv'
<1>1. UNCHANGED <<up, started, thread, callVars>> /\ pc' \in {pc, Woken(pc)}
  <2>1. ASSUME NEW R, NEW of, NEW pos, NEW kind, QEnqueue(R, of, pos, kind)
        PROVE  UNCHANGED <<up, started, thread, callVars>> /\ pc' \in {pc, Woken(pc)}
    BY <2>1 DEF QEnqueue, Notify, lockVars
  <2>2. ASSUME NEW x, SetPaused(x) \/ Reorder(x) \/ Stop(x) \/ Retry(x)
        PROVE  UNCHANGED <<up, started, thread, callVars>> /\ pc' \in {pc, Woken(pc)}
    BY <2>2 DEF SetPaused, Reorder, Stop, Retry, Notify, lockVars
  <2>3. RefreshBegin \/ RefreshEnd \/ EditTables =>
          UNCHANGED <<up, started, thread, callVars>> /\ pc' \in {pc, Woken(pc)}
    BY DEF RefreshBegin, RefreshEnd, EditTables, Notify, memVars, lockVars, workVars
  <2> QED
    BY <2>1, <2>2, <2>3 DEF UserCalls, Reorders
<1> QED
  BY <1>1, WokenSame, SameThreadsStarted, SameCalls DEF ThreadInv

LEMMA LifecycleThread ==
  ASSUME OneCaller, MemTypeOK, ThreadInv, NEW k \in Callers, Lifecycle(k)
  PROVE  ThreadInv'
<1>1. \A j \in Callers : j = k
  BY DEF OneCaller
<1>2. ASSUME RestoreCheck(k) \/ QuitBegin(k) PROVE ThreadInv'
  <2>1. UNCHANGED <<up, started, thread, pc>> /\ up /\ caller'[k] = "begin"
    BY <1>2 DEF RestoreCheck, QuitBegin, lockVars, workVars, MemTypeOK
  <2> QED
    BY <1>1, <2>1, WokenSame, SameThreadsStarted DEF ThreadInv, CallsInv
<1>3. ASSUME ShutdownBegin(k) PROVE ThreadInv'
  <2>1. /\ up' = up /\ up /\ thread' = thread /\ pc' = Woken(pc)
        /\ \/ thread = None /\ started' = FALSE /\ caller'[k] = "closed"
           \/ thread # None /\ started' = started /\ caller'[k] = "join" /\ joining'[k] = thread
    BY <1>3 DEF ShutdownBegin, Notify, MemTypeOK, ThreadInv, CallsInv
  <2>2. CallsInv'
    BY <1>1, <2>1 DEF CallsInv
  <2>3. CASE thread = None /\ started' = FALSE
    <3>1. \A t \in Threads : pc[t] = "off"
      BY <2>3, QueueAssumption DEF ThreadInv, StartedIsTheWorker
    <3>2. \A t \in Threads : pc'[t] = "off"
      BY <2>1, <3>1, WokenPlace DEF MemTypeOK
    <3> QED
      BY <2>2, <2>3, <3>2 DEF ThreadInv, StartedIsTheWorker
  <2>4. CASE started' = started
    BY <2>1, <2>2, <2>4, WokenSame, SameThreadsStarted DEF ThreadInv
  <2> QED
    BY <2>1, <2>3, <2>4
<1>4. ASSUME ShutdownEnd(k) PROVE ThreadInv'
  <2>1. /\ up' = up /\ up /\ pc' = Woken(pc) /\ caller'[k] = "closed" /\ joining[k] = thread
        /\ \/ pc[thread] = "off" /\ thread' = None /\ started' = FALSE
           \/ UNCHANGED <<thread, started>>
    BY <1>4 DEF ShutdownEnd, Notify, MemTypeOK, ThreadInv, CallsInv
  <2>2. CallsInv'
    BY <1>1, <2>1 DEF CallsInv
  <2>3. CASE pc[thread] = "off" /\ thread' = None /\ started' = FALSE
    <3>1. \A t \in Threads : pc[t] = "off"
      BY <2>3 DEF ThreadInv, StartedIsTheWorker
    <3>2. \A t \in Threads : pc'[t] = "off"
      BY <2>1, <3>1, WokenPlace DEF MemTypeOK
    <3> QED
      BY <2>2, <2>3, <3>2 DEF ThreadInv, StartedIsTheWorker
  <2>4. CASE UNCHANGED <<thread, started>>
    BY <2>1, <2>2, <2>4, WokenSame, SameThreadsStarted DEF ThreadInv
  <2> QED
    BY <2>1, <2>3, <2>4
<1>5. ASSUME RestoreEnd(k) PROVE ThreadInv'
  <2>1. Starts /\ caller'[k] = "idle"
    BY <1>5, StartStarts DEF RestoreEnd, MemTypeOK
  <2>2. CallsInv'
    BY <1>1, <2>1 DEF CallsInv
  <2> QED
    BY <2>1, <2>2, StartsThread DEF ThreadInv
<1>6. ASSUME QuitEnd(k) PROVE ThreadInv'
  BY <1>6, DieThread DEF QuitEnd
<1> QED
  BY <1>2, <1>3, <1>4, <1>5, <1>6 DEF Lifecycle

LEMMA WorkerThread ==
  ASSUME MemTypeOK, ThreadInv, NEW t \in Threads, Worker(t)
  PROVE  ThreadInv'
<1>1. CallsInv'
  BY WorkerStepMoves, SameCalls DEF WorkerMoves, ThreadInv
<1>2. ASSUME ThreadExit(t) PROVE StartedIsTheWorker'
  <2> DEFINE f == [pc EXCEPT ![t] = "off"]
  <2>1. f \in [Threads -> Places] /\ f[t] = "off" /\ \A s \in Threads \ {t} : f[s] = pc[s]
    BY PlacesDiffer DEF MemTypeOK
  <2>2. pc' = Woken(f) /\ started' = FALSE /\ pc[t] # "off"
    BY <1>2 DEF ThreadExit
  <2> HIDE DEF f
  <2>3. \A s \in Threads : f[s] = "off"
    BY <2>1, <2>2 DEF ThreadInv, StartedIsTheWorker
  <2>4. \A s \in Threads : pc'[s] = "off"
    BY <2>1, <2>2, <2>3, WokenPlace
  <2> QED
    BY <2>2, <2>4 DEF StartedIsTheWorker
<1>3. ASSUME pc[t] # "off", UNCHANGED <<started, thread>>, NEW place \in Places \ {"off"},
             pc' \in {[pc EXCEPT ![t] = place], Woken([pc EXCEPT ![t] = place])}
      PROVE  StartedIsTheWorker'
  <2> DEFINE f == [pc EXCEPT ![t] = place]
  <2>1. f \in [Threads -> Places] /\ f[t] = place /\ \A s \in Threads \ {t} : f[s] = pc[s]
    BY DEF MemTypeOK
  <2>2. pc' \in {f, Woken(f)}
    BY <1>3
  <2> HIDE DEF f
  <2>3. \A s \in Threads : pc'[s] = "off" <=> f[s] = "off"
    BY <2>1, <2>2, WokenPlace
  <2>4. SameThreads
    BY <1>3, <2>1, <2>3 DEF SameThreads
  <2> QED
    BY <2>4, SameThreadsStarted DEF ThreadInv
<1>4. ASSUME Executes(t) PROVE StartedIsTheWorker'
  BY <1>3, <1>4, ExecutesPlace, PlacesDiffer
<1>5. ASSUME Loop(t) PROVE StartedIsTheWorker'
  <2>1. {"exit", "wait", "run", "idle"} \subseteq Places \ {"off"}
    BY DEF Places, Busy
  <2>2. pc[t] # "off" /\ UNCHANGED <<started, thread>>
    BY <1>5 DEF Loop, OnlyPc, lockVars
  <2>3. \E place \in {"exit", "wait", "run", "idle"} :
          pc' \in {[pc EXCEPT ![t] = place], Woken([pc EXCEPT ![t] = place])}
    BY <1>5 DEF Loop, Goto, MemTypeOK
  <2> QED
    BY <1>3, <2>1, <2>2, <2>3
<1>6. ASSUME Clear(t) PROVE StartedIsTheWorker'
  BY <1>3, <1>6, PlacesDiffer DEF Clear
<1> QED
  BY <1>1, <1>2, <1>4, <1>5, <1>6 DEF Worker, Executes, ThreadInv

LEMMA ThreadNext == OneCaller /\ QTyped /\ ThreadInv /\ [QNext]_qvars => ThreadInv'
<1> SUFFICES ASSUME OneCaller, QTyped, ThreadInv, [QNext]_qvars
             PROVE  ThreadInv'
  OBVIOUS
<1>1. MemTypeOK
  BY TypesSplit DEF QTyped
<1>2. ASSUME UNCHANGED qvars PROVE ThreadInv'
  BY <1>2 DEF qvars, memVars, lockVars, workVars, callVars, ThreadInv, StartedIsTheWorker,
              CallsInv
<1>3. ASSUME Boot PROVE ThreadInv'
  <2>1. Starts
    BY <1>3, StartStarts DEF Boot
  <2>2. \A k \in Callers : caller'[k] = "idle"
    BY <1>3 DEF Boot, ThreadInv, CallsInv, callVars, MemTypeOK
  <2> QED
    BY <1>1, <2>1, <2>2, StartsThread DEF ThreadInv, CallsInv
<1> QED
  BY <1>1, <1>2, <1>3, DieThread, CallsThread, LifecycleThread, WorkerThread
     DEF QNext, QueueNext, Crash

LEMMA ThreadInit == QInit => ThreadInv
BY DEF QInit, FreshMemory, ThreadInv, StartedIsTheWorker, CallsInv

\* The flag start() trusts tells the truth, for any number of threads, crashes
\* and faults, if lifecycle calls do not overlap: it is set exactly while the
\* thread the queue remembers is alive, and no other thread is.
THEOREM OneWorkerThread == OneCaller => (QSpec => []StartedIsTheWorker)
<1> SUFFICES ASSUME OneCaller
             PROVE  QSpec => []StartedIsTheWorker
  OBVIOUS
<1>1. ThreadInv => StartedIsTheWorker
  BY DEF ThreadInv
<1>2. QTyped /\ ThreadInv /\ [QNext]_qvars => ThreadInv'
  BY ThreadNext
<1> QED
  BY <1>1, <1>2, ThreadInit, QTypedInvariant, PTL DEF QSpec

(***************************************************************************)
(* The memory of the queue and the tables.                                 *)
(***************************************************************************)
\* The thread at work, its run in the tables, and what is known of its place.
\* The last two parts make WorkerAgreesWithTables and StopInTimePrevails
\* inductive: a run whose end is committed is over, and a run that was stopped
\* in time is not on its way to another end.
Working(t) ==
  /\ activeRun = item[t] /\ activeEvent = t
  /\ pc[t] # "clear" => Executing(item[t])
  /\ faults = 0 /\ pc[t] = "clear" => ~Executing(item[t])
  /\ faults = 0 /\ item[t] \in inTime => pc[t] \notin {"complete", "replace", "fail"}

ExecutingHasWorker ==
  started /\ faults = 0 =>
    \A r \in Runs : Executing(r) => \E t \in Threads : AtWork(t) /\ item[t] = r

WorkInv ==
  /\ \A t \in Threads : AtWork(t) => Working(t)
  /\ ExecutingHasWorker
  /\ RefreshExcludesRun
  /\ StopInTimePrevails

QInv == QTyped /\ Agree /\ ThreadInv /\ WorkInv

LEMMA ExecutingItem ==
  ASSUME Agree, NEW r \in Runs
  PROVE  Executing(r) <=> qState[r] = "running"
BY DEF Agree, RunAndItemAgree, Executing

LEMMA OneAtWork ==
  ASSUME ThreadInv, NEW s \in Threads, NEW t \in Threads, pc[s] # "off", AtWork(t)
  PROVE  s = t
BY DEF ThreadInv, StartedIsTheWorker, AtWork, Busy

\* What the calls of users do to the state of a run.
CallMoves == {<<"absent", "queued">>, <<"failed", "queued">>, <<"queued", "cancelled">>,
              <<"running", "stopping">>}
UserTables ==
  \A r \in Runs : runState'[r] = runState[r] \/ <<runState[r], runState'[r]>> \in CallMoves

\* A step beside the worker, in which a run may be stopped in time.
Beside ==
  /\ UserTables
  /\ pc' \in {pc, Woken(pc)}
  /\ UNCHANGED <<item, activeRun, activeEvent, faults>>
  /\ started' => started
  /\ refreshing' => refreshing \/ activeRun = None
  /\ \/ inTime' = inTime
     \/ \E t \in Threads : /\ pc[t] = "run" /\ inTime' = inTime \cup {item[t]}
                           /\ runState'[item[t]] = "stopping"

LEMMA BesideWork ==
  ASSUME QInv, Beside
  PROVE  WorkInv'
<1>1. MemTypeOK /\ ItemsAreRuns /\ TypeOK /\ WorkInv /\ ThreadInv
  BY TypesSplit DEF QInv, QTyped
<1>2. \A t \in Threads : AtWork(t)' <=> AtWork(t)
  BY <1>1, WokenPlace DEF Beside, AtWork, MemTypeOK
<1>3. \A t \in Threads : AtWork(t) => pc'[t] = pc[t]
  BY <1>1, WokenPlace DEF Beside, AtWork, MemTypeOK
<1>4. \A r \in Runs : Executing(r)' <=> Executing(r)
  BY DEF Beside, UserTables, CallMoves, Executing
<1>5. \A r \in Runs : runState[r] \in {"stopping", "cancelled"} => runState'[r] = runState[r]
  BY DEF Beside, UserTables, CallMoves
<1>6. ASSUME NEW t \in Threads, AtWork(t)
      PROVE  faults = 0 /\ item[t] \in inTime' => pc[t] \notin {"complete", "replace", "fail"}
  <2>1. CASE inTime' = inTime
    BY <1>1, <1>6, <2>1 DEF WorkInv, Working
  <2>2. ASSUME NEW s \in Threads, pc[s] = "run", inTime' = inTime \cup {item[s]}
        PROVE  faults = 0 /\ item[t] \in inTime' => pc[t] \notin {"complete", "replace", "fail"}
    <3>1. s = t
      BY <1>1, <1>6, <2>2, OneAtWork
    <3> QED
      BY <2>2, <3>1
  <2> QED
    BY <2>1, <2>2 DEF Beside
<1>7. ASSUME NEW t \in Threads, AtWork(t)'
      PROVE  Working(t)'
  <2>1. AtWork(t) /\ Working(t) /\ pc'[t] = pc[t] /\ item[t] \in Runs /\ item'[t] = item[t]
    BY <1>1, <1>2, <1>3, <1>7 DEF WorkInv, ItemsAreRuns, Beside
  <2>2. Executing(item[t])' <=> Executing(item[t])
    BY <1>4, <2>1 DEF Beside
  <2> QED
    BY <1>6, <2>1, <2>2 DEF Working, Beside
<1>8. ExecutingHasWorker'
  BY <1>1, <1>2, <1>4 DEF WorkInv, ExecutingHasWorker, Beside
<1>9. RefreshExcludesRun'
  <2> SUFFICES ASSUME refreshing'
               PROVE  activeRun' = None /\ \A t \in Threads : ~AtWork(t)'
    BY DEF RefreshExcludesRun
  <2>1. activeRun = None
    BY <1>1 DEF Beside, WorkInv, RefreshExcludesRun
  <2>2. \A t \in Threads : ~AtWork(t)
    BY <1>1, <2>1, IdsAssumption DEF WorkInv, Working, ItemsAreRuns
  <2> QED
    BY <1>2, <2>1, <2>2 DEF Beside
<1>10. StopInTimePrevails'
  <2> SUFFICES ASSUME faults' = 0, NEW r \in inTime'
               PROVE  runState'[r] \in {"stopping", "cancelled"}
    BY DEF StopInTimePrevails
  <2>1. r \in inTime => runState[r] \in {"stopping", "cancelled"} /\ r \in Runs
    BY <1>1 DEF Beside, WorkInv, StopInTimePrevails, MemTypeOK
  <2> QED
    BY <1>5, <2>1 DEF Beside
<1> QED
  BY <1>7, <1>8, <1>9, <1>10 DEF WorkInv

\* A step of the thread that executes an item.
Proceeds(t, place) ==
  /\ pc[t] \in Busy /\ place \in Busy \cup {"exit"}
  /\ pc' = [pc EXCEPT ![t] = place]
  /\ OnlyPc /\ (faults' = 0 => faults = 0)
  /\ \A r \in Runs \ {item[t]} : runState'[r] = runState[r]
  /\ place \in Busy \ {"clear"} => Executing(item[t])'
  /\ faults' = 0 => /\ place # "exit" /\ (place = "clear" => ~Executing(item[t])')
                    /\ item[t] \in inTime =>
                         /\ place \notin {"complete", "replace", "fail"}
                         /\ runState'[item[t]] \in {"stopping", "cancelled"}

LEMMA ProceedsWork ==
  ASSUME QInv, NEW t \in Threads, NEW place, Proceeds(t, place)
  PROVE  WorkInv'
<1>1. MemTypeOK /\ ItemsAreRuns /\ WorkInv /\ ThreadInv /\ AtWork(t) /\ Working(t)
  BY TypesSplit DEF QInv, QTyped, WorkInv, Proceeds, AtWork
<1>2. \A s \in Threads \ {t} : ~AtWork(s) /\ pc'[s] = pc[s]
  BY <1>1, OneAtWork DEF Proceeds, AtWork, Busy, MemTypeOK
<1>3. pc'[t] = place /\ UNCHANGED <<item, activeRun, activeEvent, started, refreshing, inTime>>
  BY <1>1 DEF Proceeds, MemTypeOK, OnlyPc, lockVars
<1>4. \A s \in Threads : AtWork(s)' => s = t
  BY <1>2 DEF AtWork
<1>5. ASSUME AtWork(t)'
      PROVE  Working(t)'
  BY <1>1, <1>3, <1>5 DEF Working, AtWork, Proceeds, Executing
<1>6. ExecutingHasWorker'
  <2> SUFFICES ASSUME started', faults' = 0, NEW r \in Runs, Executing(r)'
               PROVE  \E s \in Threads : AtWork(s)' /\ item'[s] = r
    BY DEF ExecutingHasWorker
  <2>1. AtWork(t)'
    BY <1>3 DEF Proceeds, AtWork
  <2>2. CASE r # item[t]
    <3>1. Executing(r) /\ started /\ faults = 0
      BY <1>3, <2>2 DEF Proceeds, Executing
    <3>2. \E s \in Threads : AtWork(s) /\ item[s] = r
      BY <1>1, <3>1 DEF WorkInv, ExecutingHasWorker
    <3> QED
      BY <1>2, <2>2, <3>2
  <2> QED
    BY <1>3, <2>1, <2>2
<1>7. RefreshExcludesRun'
  BY <1>1, <1>3 DEF WorkInv, RefreshExcludesRun
<1>8. StopInTimePrevails'
  BY <1>1, <1>3 DEF WorkInv, StopInTimePrevails, Proceeds, MemTypeOK
<1> QED
  BY <1>4, <1>5, <1>6, <1>7, <1>8 DEF WorkInv

(***************************************************************************)
(* The steps of the other threads are beside the worker.                   *)
(***************************************************************************)
LEMMA EditsLeaveRuns ==
  ASSUME PoolNext \/ WorkspaceNext
  PROVE  runState' = runState
<1>1. ASSUME PoolNext PROVE runState' = runState
  BY <1>1 DEF PoolNext, CreateAccount, TransitionAccountStatus, SetAliasState, SetMailboxStatus
<1>2. ASSUME NEW w, NEW cur, NEW nxt, NEW o, CreateWorkspace(w, cur, nxt, o)
      PROVE  runState' = runState
  BY <1>2 DEF CreateWorkspace
<1>3. ASSUME NEW w, NEW cur, NEW nxt, NEW o, UpdateWorkspaceBindings(w, cur, nxt, o)
      PROVE  runState' = runState
  BY <1>3 DEF UpdateWorkspaceBindings
<1>4. ASSUME NEW w, NEW a, PrepareHandoff(w, a) PROVE runState' = runState
  BY <1>4 DEF PrepareHandoff
<1>5. ASSUME NEW w, AdvanceWorkspaceAccounts(w) PROVE runState' = runState
  BY <1>5 DEF AdvanceWorkspaceAccounts
<1>6. ASSUME NEW w, NEW role, NEW c, ReplaceWorkspaceAccount(w, role, c)
      PROVE  runState' = runState
  BY <1>6 DEF ReplaceWorkspaceAccount
<1> QED
  BY <1>1, <1>2, <1>3, <1>4, <1>5, <1>6 DEF WorkspaceNext

LEMMA StopMoves ==
  ASSUME TypeOK, NEW r \in Runs, RequestStop(r)
  PROVE  UserTables /\ (runState[r] = "running" => runState'[r] = "stopping")
BY DEF RequestStop, Finish, UserTables, CallMoves, TypeOK

LEMMA CallsBeside ==
  ASSUME QInv, UserCalls \/ Reorders \/ RefreshEnd \/ EditTables
  PROVE  Beside
<1>1. MemTypeOK /\ TypeOK
  BY TypesSplit DEF QInv, QTyped
<1>2. runState' = runState => UserTables
  BY DEF UserTables
<1>3. ASSUME NEW R \in SUBSET Runs, NEW kind \in {"handoff", "rescue"},
             NEW of \in [R -> Workspaces], NEW pos \in [R -> 0..MaxPos],
             QEnqueue(R, of, pos, kind)
      PROVE  Beside
  <2>1. UserTables
    BY <1>3 DEF QEnqueue, Enqueue, UserTables, CallMoves
  <2> QED
    BY <1>3, <2>1 DEF QEnqueue, Beside, Notify, lockVars, countVars
<1>4. ASSUME NEW b, SetPaused(b) PROVE Beside
  BY <1>2, <1>4 DEF SetPaused, SetQueuePaused, Beside, Notify, lockVars, countVars
<1>5. ASSUME NEW pos, Reorder(pos) PROVE Beside
  BY <1>2, <1>5 DEF Reorder, ReorderQueue, Beside, Notify, lockVars, countVars
<1>6. ASSUME NEW r \in Runs, Retry(r) PROVE Beside
  <2>1. UserTables
    BY <1>1, <1>6 DEF Retry, RetryRun, Finish, UserTables, CallMoves, TypeOK
  <2> QED
    BY <1>6, <2>1 DEF Retry, Beside, Notify, lockVars, countVars
<1>7. ASSUME NEW r \in Runs, Stop(r) PROVE Beside
  <2>1. UserTables /\ (runState[r] = "running" => runState'[r] = "stopping")
    BY <1>1, <1>7, StopMoves DEF Stop
  <2> QED
    BY <1>7, <2>1 DEF Stop, Beside, Notify, lockVars, countVars
<1>8. ASSUME RefreshBegin \/ RefreshEnd PROVE Beside
  BY <1>2, <1>8 DEF RefreshBegin, RefreshEnd, Beside, Notify, countVars, vars
<1>9. ASSUME EditTables PROVE Beside
  BY <1>2, <1>9, EditsLeaveRuns DEF EditTables, Beside, memVars, lockVars, workVars, countVars
<1> QED
  BY <1>3, <1>4, <1>5, <1>6, <1>7, <1>8, <1>9 DEF UserCalls, Reorders

LEMMA LifecycleBeside ==
  ASSUME QInv, NEW k \in Callers,
         RestoreCheck(k) \/ QuitBegin(k) \/ ShutdownBegin(k) \/ ShutdownEnd(k)
  PROVE  Beside
<1>1. MemTypeOK /\ TypeOK /\ WorkInv /\ RunAndItemAgree
  BY TypesSplit DEF QInv, QTyped, Agree
<1>2. runState' = runState => UserTables
  BY DEF UserTables
<1>3. ASSUME RestoreCheck(k) \/ QuitBegin(k) PROVE Beside
  BY <1>2, <1>3 DEF RestoreCheck, QuitBegin, Beside, lockVars, workVars, countVars, vars
<1>4. ASSUME ShutdownBegin(k) PROVE Beside
  <2>1. UserTables
    BY <1>1, <1>2, <1>4, StopMoves DEF ShutdownBegin, MemTypeOK, vars
  <2>2. \/ inTime' = inTime
        \/ \E t \in Threads : /\ pc[t] = "run" /\ inTime' = inTime \cup {item[t]}
                              /\ runState'[item[t]] = "stopping"
    <3> SUFFICES ASSUME activeRun # None, NEW t \in Threads, pc[t] = "run",
                        item[t] = activeRun, thread # None
                 PROVE  runState'[item[t]] = "stopping"
      BY <1>4 DEF ShutdownBegin
    <3>1. activeRun \in Runs /\ runState[activeRun] \in {"running", "stopping"}
      BY <1>1 DEF WorkInv, Working, AtWork, Busy, Executing, MemTypeOK
    <3>2. CASE runState[activeRun] = "stopping"
      BY <1>4, <3>1, <3>2 DEF ShutdownBegin, vars, UserTables, CallMoves
    <3>3. CASE runState[activeRun] = "running"
      BY <1>1, <1>4, <3>1, <3>3, StopMoves DEF ShutdownBegin
    <3> QED
      BY <3>1, <3>2, <3>3
  <2> QED
    BY <1>4, <2>1, <2>2 DEF ShutdownBegin, Beside, Notify, countVars
<1>5. ASSUME ShutdownEnd(k) PROVE Beside
  BY <1>2, <1>5 DEF ShutdownEnd, Beside, Notify, countVars, vars
<1> QED
  BY <1>3, <1>4, <1>5

(***************************************************************************)
(* Starting and losing the process.                                        *)
(***************************************************************************)
LEMMA NobodyAtWork ==
  ASSUME ThreadInv, ~started
  PROVE  \A t \in Threads : pc[t] = "off"
BY DEF ThreadInv, StartedIsTheWorker

\* start() recovers every executing run before it creates the thread.
LEMMA StartWork ==
  ASSUME QInv, StartQueue, UNCHANGED <<activeRun, activeEvent, refreshing, item, faults>>
  PROVE  WorkInv'
<1>1. MemTypeOK /\ TypeOK /\ WorkInv /\ ThreadInv /\ Agree
  BY TypesSplit DEF QInv, QTyped
<1>2. CASE started
  <2>1. Beside
    BY <1>2 DEF StartQueue, Beside, UserTables, vars
  <2> QED
    BY <2>1, BesideWork
<1>3. CASE ~started
  <2>1. PICK t \in Threads : pc' = Woken([pc EXCEPT ![t] = "idle"])
    BY <1>3 DEF StartQueue
  <2> DEFINE f == [pc EXCEPT ![t] = "idle"]
  <2>2. f \in [Threads -> Places] /\ \A s \in Threads : f[s] \in {"idle", "off"}
    BY <1>1, <1>3, NobodyAtWork, PlacesDiffer DEF MemTypeOK
  <2>3. pc' = Woken(f)
    BY <2>1
  <2> HIDE DEF f
  <2>4. \A s \in Threads : ~AtWork(s)'
    BY <2>2, <2>3, WokenPlace DEF AtWork, Busy
  <2>5. \A r \in Runs : /\ ~Executing(r)'
                        /\ runState'[r] = IF Executing(r) THEN "queued" ELSE runState[r]
    BY <1>1, <1>3, ExecutingItem DEF StartQueue, RecoverInterruptedRuns, Executing
  <2>6. ~refreshing \/ activeRun = None
    BY <1>1 DEF WorkInv, RefreshExcludesRun
  <2>7. StopInTimePrevails'
    BY <1>1, <1>3, <2>5
       DEF StartQueue, WorkInv, StopInTimePrevails, MemTypeOK, Executing
  <2> QED
    BY <2>4, <2>5, <2>6, <2>7 DEF WorkInv, ExecutingHasWorker, RefreshExcludesRun
<1> QED
  BY <1>2, <1>3

LEMMA DieWork == ASSUME Die PROVE WorkInv'
<1>1. \A t \in Threads : ~AtWork(t)'
  BY DEF Die, AtWork, Busy
<1> QED
  BY <1>1 DEF Die, WorkInv, ExecutingHasWorker, RefreshExcludesRun, StopInTimePrevails

(***************************************************************************)
(* _execute_claimed.                                                       *)
(***************************************************************************)
\* The terminal transaction that ends the item's run is committed.
LEMMA DoneProceeds ==
  ASSUME QInv, NEW t \in Threads, AtWork(t), NEW end \in {"succeeded", "failed", "cancelled"},
         runState' = [runState EXCEPT ![item[t]] = end], Goto(t, "clear"), OnlyPc,
         faults' = faults, faults = 0 /\ item[t] \in inTime => end = "cancelled"
  PROVE  Proceeds(t, "clear")
<1>1. item[t] \in Runs /\ runState \in [Runs -> RunStates]
  BY DEF QInv, QTyped, QTypeOK, TypeOK, ItemsAreRuns
<1>2. runState'[item[t]] = end /\ \A r \in Runs \ {item[t]} : runState'[r] = runState[r]
  BY <1>1
<1>3. ~Executing(item[t])'
  <2>1. item'[t] = item[t]
    BY DEF OnlyPc
  <2> QED
    BY <1>2, <2>1 DEF Executing
<1> QED
  BY <1>2, <1>3 DEF Proceeds, AtWork, Busy, Goto

\* Nothing is written and no call raises.
LEMMA StaysProceeds ==
  ASSUME QInv, NEW t \in Threads, AtWork(t), pc[t] # "clear", runState' = runState,
         NEW place \in Busy \ {"clear"}, Goto(t, place), OnlyPc, faults' = faults,
         faults = 0 /\ item[t] \in inTime => place \notin {"complete", "replace", "fail"}
  PROVE  Proceeds(t, place)
<1>1. Executing(item[t]) /\ item' = item
  BY DEF QInv, WorkInv, Working, OnlyPc
<1>2. Executing(item[t])'
  BY <1>1 DEF Executing
<1>3. faults = 0 /\ item[t] \in inTime => runState'[item[t]] \in {"stopping", "cancelled"}
  BY DEF QInv, WorkInv, StopInTimePrevails
<1> QED
  BY <1>2, <1>3 DEF Proceeds, AtWork, Busy, Goto

\* A database call raises.
LEMMA FaultProceeds ==
  ASSUME QInv, NEW t \in Threads, AtWork(t), pc[t] # "clear", runState' = runState,
         NEW place \in Busy \cup {"exit"}, Goto(t, place), OnlyPc, Fault
  PROVE  Proceeds(t, place)
<1>1. Executing(item[t]) /\ item' = item
  BY DEF QInv, WorkInv, Working, OnlyPc
<1>2. Executing(item[t])'
  BY <1>1 DEF Executing
<1>3. faults \in Nat /\ faults' = faults + 1
  BY QueueAssumption DEF QInv, QTyped, QTypeOK, Fault
<1> QED
  BY <1>2, <1>3 DEF Proceeds, AtWork, Busy, Goto

LEMMA ExecutesProceeds ==
  ASSUME QInv, NEW t \in Threads, Executes(t)
  PROVE  \E place : Proceeds(t, place)
<1>1. AtWork(t) /\ pc[t] # "clear" /\ OnlyPc
  BY DEF Executes, RunnerEnds, Decide, Complete, Cancel, CancelAgain, Replace, Fail,
         AfterCancelled, Attempt, AtWork, Busy
<1>2. item[t] \in Runs /\ Executing(item[t]) /\ Working(t)
  BY <1>1 DEF QInv, QTyped, ItemsAreRuns, WorkInv, Working
<1>3. faults = 0 /\ item[t] \in inTime => runState[item[t]] = "stopping"
  BY <1>2 DEF QInv, WorkInv, StopInTimePrevails, Executing
<1>4. ASSUME NEW place \in Busy \cup {"exit"}, Goto(t, place), Fault, UNCHANGED vars
      PROVE  Proceeds(t, place)
  BY <1>1, <1>4, FaultProceeds DEF vars
<1>5. ASSUME NEW place \in Busy \ {"clear"}, Goto(t, place), UNCHANGED <<vars, faults>>,
             faults = 0 /\ item[t] \in inTime => place \notin {"complete", "replace", "fail"}
      PROVE  Proceeds(t, place)
  BY <1>1, <1>5, StaysProceeds DEF vars
<1>6. ASSUME NEW end \in {"succeeded", "failed", "cancelled"}, Goto(t, "clear"),
             runState' = [runState EXCEPT ![item[t]] = end], faults' = faults,
             faults = 0 /\ item[t] \in inTime => end = "cancelled"
      PROVE  Proceeds(t, "clear")
  BY <1>1, <1>6, DoneProceeds
<1>7. ASSUME CancelDone(item[t]), Goto(t, "clear"), faults' = faults
      PROVE  Proceeds(t, "clear")
  <2>1. runState' = [runState EXCEPT ![item[t]] = "cancelled"]
    BY <1>2, <1>7 DEF CancelDone, MarkRunCancelled, Finish, Executing
  <2> QED
    BY <1>6, <1>7, <2>1
<1>8. ~CancelRefused(item[t])
  BY <1>2 DEF CancelRefused
<1>9. {"run", "succeeded", "complete", "cancel", "raised", "recancel", "idcancel", "identity",
       "replace", "fail", "cancelled"} = Busy \ {"clear"} /\ "clear" \in Busy
  BY DEF Busy
<1>10. CASE RunnerEnds(t)
  BY <1>5, <1>9, <1>10 DEF RunnerEnds, countVars
<1>11. CASE Decide(t)
  <2>1. faults = 0 /\ item[t] \in inTime => StopSeen(t)
    BY <1>3 DEF StopSeen
  <2> QED
    BY <1>5, <1>9, <1>11, <2>1 DEF Decide, countVars
<1>12. CASE Complete(t)
  <2>1. ~(faults = 0 /\ item[t] \in inTime)
    BY <1>2, <1>12 DEF Working, Complete
  <2>2. CompleteRunAndRotate(item[t]) => runState' = [runState EXCEPT ![item[t]] = "succeeded"]
    BY DEF CompleteRunAndRotate
  <2> QED
    BY <1>4, <1>5, <1>6, <1>9, <1>12, <2>1, <2>2 DEF Complete, Attempt
<1>13. CASE Cancel(t)
  BY <1>4, <1>7, <1>8, <1>9, <1>13 DEF Cancel, Attempt
<1>14. CASE CancelAgain(t)
  BY <1>4, <1>7, <1>8, <1>9, <1>14 DEF CancelAgain, Attempt
<1>15. CASE Replace(t)
  <2>1. ~(faults = 0 /\ item[t] \in inTime)
    BY <1>2, <1>15 DEF Working, Replace
  <2>2. ASSUME NEW role, NEW c,
               FailRun(item[t]) \/ FailRunAndReplaceAccount(item[t], role, c)
        PROVE  runState' = [runState EXCEPT ![item[t]] = "failed"]
    BY <2>2 DEF FailRun, Finish, FailRunAndReplaceAccount
  <2> QED
    BY <1>4, <1>5, <1>6, <1>9, <1>15, <2>1, <2>2 DEF Replace, Attempt
<1>16. CASE Fail(t)
  <2>1. ~(faults = 0 /\ item[t] \in inTime)
    BY <1>2, <1>16 DEF Working, Fail
  <2>2. FailRun(item[t]) => runState' = [runState EXCEPT ![item[t]] = "failed"]
    BY DEF FailRun, Finish
  <2> QED
    BY <1>2, <1>4, <1>6, <1>9, <1>16, <2>1, <2>2 DEF Fail, Attempt
<1>17. CASE AfterCancelled(t)
  BY <1>4, <1>7, <1>8, <1>9, <1>17 DEF AfterCancelled, Attempt
<1> QED
  BY <1>10, <1>11, <1>12, <1>13, <1>14, <1>15, <1>16, <1>17 DEF Executes

(***************************************************************************)
(* The loop: its thread is the only one, and no item is in hand but when   *)
(* it clears the one it has executed.                                      *)
(***************************************************************************)
LEMMA OthersRest ==
  ASSUME MemTypeOK, ThreadInv, NEW t \in Threads, pc[t] # "off", NEW place \in Places,
         pc' \in {[pc EXCEPT ![t] = place], Woken([pc EXCEPT ![t] = place])}
  PROVE  /\ \A s \in Threads \ {t} : ~AtWork(s) /\ ~AtWork(s)'
         /\ AtWork(t)' <=> place \in Busy
         /\ place \in Busy => pc'[t] = place
<1> DEFINE f == [pc EXCEPT ![t] = place]
<1>1. f \in [Threads -> Places] /\ f[t] = place /\ \A s \in Threads \ {t} : f[s] = pc[s]
  BY DEF MemTypeOK
<1>2. pc' \in {f, Woken(f)}
  OBVIOUS
<1> HIDE DEF f
<1>3. \A s \in Threads : /\ pc'[s] \in Busy => pc'[s] = f[s]
                         /\ f[s] \in Busy => pc'[s] = f[s]
  BY <1>1, <1>2, WokenPlace
<1>4. \A s \in Threads \ {t} : ~AtWork(s)
  BY OneAtWork
<1> QED
  BY <1>1, <1>3, <1>4 DEF AtWork

\* A thread that executes nothing goes somewhere else where it does not either.
LEMMA RestingWork ==
  ASSUME QInv, NEW t \in Threads, pc[t] \notin Busy, pc[t] # "off", NEW place \in Places \ Busy,
         pc' \in {[pc EXCEPT ![t] = place], Woken([pc EXCEPT ![t] = place])},
         started' => started, runState' = runState, UNCHANGED <<refreshing, inTime, faults>>,
         activeRun' \in {activeRun, None}
  PROVE  WorkInv'
<1>1. MemTypeOK /\ ThreadInv /\ WorkInv
  BY TypesSplit DEF QInv, QTyped
<1>2. \A s \in Threads : ~AtWork(s) /\ ~AtWork(s)'
  BY <1>1, OthersRest DEF AtWork
<1>3. ExecutingHasWorker'
  <2>1. started /\ faults = 0 => \A r \in Runs : ~Executing(r)
    BY <1>1, <1>2 DEF WorkInv, ExecutingHasWorker
  <2> QED
    BY <2>1 DEF ExecutingHasWorker, Executing
<1>4. RefreshExcludesRun' /\ StopInTimePrevails'
  BY <1>1, <1>2 DEF WorkInv, RefreshExcludesRun, StopInTimePrevails
<1> QED
  BY <1>2, <1>3, <1>4 DEF WorkInv

LEMMA LoopWork ==
  ASSUME QInv, NEW t \in Threads, Loop(t)
  PROVE  WorkInv'
<1>1. MemTypeOK /\ TypeOK /\ ThreadInv /\ WorkInv /\ Agree
  BY TypesSplit DEF QInv, QTyped
<1>2. pc[t] = "idle" /\ pc[t] \notin Busy
  BY DEF Loop, Busy
<1>3. ASSUME NEW place \in {"exit", "wait"}, Goto(t, place), OnlyPc, UNCHANGED <<vars, faults>>
      PROVE  WorkInv'
  BY <1>2, <1>3, RestingWork, PlacesDiffer DEF Goto, OnlyPc, lockVars, vars
<1>4. ASSUME NEW r \in Runs, ClaimNext(r), ~refreshing, refreshing' = FALSE, inTime' = inTime,
             activeRun' = r, activeEvent' = t, item' = [item EXCEPT ![t] = r],
             pc' = Woken([pc EXCEPT ![t] = "run"]), faults' = faults
      PROVE  WorkInv'
  <2>1. "run" \in Busy /\ "run" \in Places
    BY DEF Busy, Places
  <2>2. pc'[t] = "run" /\ item'[t] = r /\ \A s \in Threads : AtWork(s)' <=> s = t
    BY <1>1, <1>2, <1>4, <2>1, OthersRest DEF MemTypeOK
  <2>3. runState'[r] = "running" /\ \A s \in Runs \ {r} : runState'[s] = runState[s]
    BY <1>1, <1>4 DEF ClaimNext, TypeOK
  <2>4. \A s \in Runs \ {r} : ~Executing(s)'
    BY <1>1, <1>4, <2>3, ExecutingItem DEF ClaimNext, Executing
  <2>5. runState[r] = "queued"
    BY <1>4 DEF ClaimNext, Claimable
  <2>6. StopInTimePrevails' /\ (faults = 0 => r \notin inTime)
    BY <1>1, <1>4, <2>3, <2>5 DEF WorkInv, StopInTimePrevails, MemTypeOK
  <2>7. Working(t)'
    BY <1>4, <2>2, <2>3, <2>6 DEF Working, Executing
  <2> QED
    BY <1>4, <2>2, <2>4, <2>6, <2>7 DEF WorkInv, ExecutingHasWorker, RefreshExcludesRun
<1>5. ASSUME Fault, ~refreshing, refreshing' = FALSE, UNCHANGED <<activeRun, item, pc>>
      PROVE  WorkInv'
  <2>1. faults' # 0
    BY <1>1, <1>5, QueueAssumption DEF Fault, MemTypeOK
  <2>2. \A s \in Threads : ~AtWork(s)
    BY <1>1, <1>2, OneAtWork DEF AtWork
  <2> QED
    BY <1>5, <2>1, <2>2
       DEF WorkInv, AtWork, ExecutingHasWorker, RefreshExcludesRun, StopInTimePrevails
<1> QED
  BY <1>1, <1>3, <1>4, <1>5 DEF Loop, MemTypeOK

LEMMA ClearWork ==
  ASSUME QInv, NEW t \in Threads, Clear(t)
  PROVE  WorkInv'
<1>1. MemTypeOK /\ ThreadInv /\ WorkInv
  BY TypesSplit DEF QInv, QTyped
<1>2. "idle" \in Places \ Busy /\ AtWork(t) /\ pc[t] # "off"
  BY DEF Places, Busy, AtWork, Clear
<1>3. \A s \in Threads : ~AtWork(s)' /\ (s # t => ~AtWork(s))
  BY <1>1, <1>2, OthersRest DEF Clear
<1>4. ExecutingHasWorker'
  <2>1. faults = 0 => ~Executing(item[t])
    BY <1>1, <1>2 DEF WorkInv, Working, Clear
  <2>2. started /\ faults = 0 => \A r \in Runs : ~Executing(r)
    BY <1>1, <1>3, <2>1 DEF WorkInv, ExecutingHasWorker
  <2> QED
    BY <2>2 DEF ExecutingHasWorker, Executing, Clear, vars, countVars
<1>5. RefreshExcludesRun' /\ StopInTimePrevails'
  BY <1>1, <1>3 DEF WorkInv, RefreshExcludesRun, StopInTimePrevails, Clear, vars, countVars
<1> QED
  BY <1>3, <1>4, <1>5 DEF WorkInv

LEMMA WorkerWork ==
  ASSUME QInv, NEW t \in Threads, Worker(t)
  PROVE  WorkInv'
<1>1. ASSUME Executes(t) PROVE WorkInv'
  BY <1>1, ExecutesProceeds, ProceedsWork
<1>2. ASSUME ThreadExit(t) PROVE WorkInv'
  <2>1. pc[t] \notin Busy /\ pc[t] # "off" /\ "off" \in Places \ Busy
    BY <1>2 DEF ThreadExit, Busy, Places
  <2>2. /\ pc' = Woken([pc EXCEPT ![t] = "off"]) /\ (started' => started) /\ activeRun' = None
        /\ runState' = runState /\ UNCHANGED <<refreshing, inTime, faults>>
    BY <1>2 DEF ThreadExit, vars, countVars
  <2> QED
    BY <2>1, <2>2, RestingWork
<1> QED
  BY <1>1, <1>2, LoopWork, ClearWork DEF Worker, Executes

LEMMA WorkNext == QInv /\ [QNext]_qvars => WorkInv'
<1> SUFFICES ASSUME QInv, [QNext]_qvars
             PROVE  WorkInv'
  OBVIOUS
<1>1. ASSUME UNCHANGED qvars PROVE WorkInv'
  <2>1. /\ UNCHANGED <<runState, pc, item, activeRun, activeEvent, faults, started, refreshing>>
        /\ inTime' = inTime
    BY <1>1 DEF qvars, vars, memVars, lockVars, workVars, countVars
  <2>2. Beside
    BY <2>1 DEF Beside, UserTables
  <2> QED
    BY <2>2, BesideWork
<1>2. ASSUME Boot PROVE WorkInv'
  BY <1>2, StartWork DEF Boot, countVars
<1>3. ASSUME NEW k \in Callers, Lifecycle(k) PROVE WorkInv'
  <2>1. ASSUME RestoreEnd(k) PROVE WorkInv'
    BY <2>1, StartWork DEF RestoreEnd, countVars
  <2>2. ASSUME QuitEnd(k) PROVE WorkInv'
    BY <2>2, DieWork DEF QuitEnd
  <2> QED
    BY <1>3, <2>1, <2>2, LifecycleBeside, BesideWork DEF Lifecycle
<1> QED
  BY <1>1, <1>2, <1>3, CallsBeside, BesideWork, DieWork, WorkerWork DEF QNext, QueueNext, Crash

LEMMA WorkInit == QInit => WorkInv
BY DEF QInit, FreshMemory, WorkInv, AtWork, Busy, ExecutingHasWorker, RefreshExcludesRun,
       StopInTimePrevails

LEMMA QInvariant == ASSUME OneCaller PROVE QSpec => []QInv
<1>1. QSpec => []Agree
  BY QueueUsesTables, AgreeInvariant, PTL
<1>2. QInit => ThreadInv /\ WorkInv
  BY ThreadInit, WorkInit
<1>3. QTyped /\ Agree /\ ThreadInv /\ WorkInv /\ [QNext]_qvars => ThreadInv' /\ WorkInv'
  BY ThreadNext, WorkNext DEF QInv
<1>4. QTyped /\ Agree /\ ThreadInv /\ WorkInv <=> QInv
  BY DEF QInv
<1> QED
  BY <1>1, <1>2, <1>3, <1>4, QTypedInvariant, PTL DEF QSpec

\* The memory of the queue and the tables agree, whatever stops, refreshes,
\* crashes and raising calls come between the worker's transactions.
THEOREM MemoryAgrees == OneCaller => (QSpec => []WorkerAgreesWithTables)
<1> SUFFICES ASSUME OneCaller
             PROVE  QSpec => []WorkerAgreesWithTables
  OBVIOUS
<1>1. QInv => WorkerAgreesWithTables
  <2> SUFFICES ASSUME QInv
               PROVE  WorkerAgreesWithTables
    OBVIOUS
  <2>1. ASSUME NEW t \in Threads, AtWork(t)
        PROVE  /\ activeRun = item[t] /\ activeEvent = t
               /\ pc[t] # "clear" => Executing(item[t]) /\ qState[item[t]] = "running"
    <3>1. item[t] \in Runs /\ Working(t)
      BY <2>1 DEF QInv, QTyped, ItemsAreRuns, WorkInv
    <3> QED
      BY <3>1, ExecutingItem DEF QInv, Working
  <2> QED
    BY <2>1 DEF QInv, WorkInv, ExecutingHasWorker, WorkerAgreesWithTables
<1> QED
  BY <1>1, QInvariant, PTL

\* A refresh of credentials and the execution of a run exclude each other.
THEOREM RefreshAlone == OneCaller => (QSpec => []RefreshExcludesRun)
<1> SUFFICES ASSUME OneCaller
             PROVE  QSpec => []RefreshExcludesRun
  OBVIOUS
<1>1. QInv => RefreshExcludesRun
  BY DEF QInv, WorkInv
<1> QED
  BY <1>1, QInvariant, PTL

\* A stop accepted while the runner is at work prevails over its outcome.
THEOREM StopPrevails == OneCaller => (QSpec => []StopInTimePrevails)
<1> SUFFICES ASSUME OneCaller
             PROVE  QSpec => []StopInTimePrevails
  OBVIOUS
<1>1. QInv => StopInTimePrevails
  BY DEF QInv, WorkInv
<1> QED
  BY <1>1, QInvariant, PTL

\* With lifecycle calls that follow one another the queue keeps the promise
\* that two overlapping ones break: it executes one task at a time.
THEOREM OneAtATime == OneCaller => (QSpec => []OneRunAtATime)
<1> SUFFICES ASSUME OneCaller
             PROVE  QSpec => []OneRunAtATime
  OBVIOUS
<1>1. QInv => OneRunAtATime
  BY DEF QInv, ThreadInv, StartedIsTheWorker, OneRunAtATime, AtWork, Busy
<1> QED
  BY <1>1, QInvariant, PTL
=============================================================================

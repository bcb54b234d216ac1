-------------------------- MODULE ConsoleDb_proofs --------------------------
(***************************************************************************)
(* Proofs about the tables of ConsoleDb, for any number of accounts,       *)
(* workspaces and runs.                                                    *)
(***************************************************************************)
EXTENDS QueueRefinement, TLAPS

(***************************************************************************)
(* Selecting an account returns an account, or None.                       *)
(***************************************************************************)
LEMMA ReplacementsType ==
  ASSUME NEW st, NEW off, NEW bad, NEW mailbox, NEW aliasNo
  PROVE  Replacements(st, off, bad, mailbox, aliasNo) \subseteq Accounts \cup {None}
BY DEF Replacements, OrElse, LowestAlias, Allocatable

LEMMA RotationNextsType ==
  ASSUME NEW w
  PROVE  RotationNexts(w) \subseteq Accounts \cup {None}
BY ReplacementsType DEF RotationNexts

LEMMA RebindType ==
  ASSUME TypeOK, NEW w \in Workspaces, NEW cur \in Accounts \cup {None},
         NEW nxt \in Accounts \cup {None}, NEW status \in WorkspaceStates,
         Rebind(w, cur, nxt, status)
  PROVE  /\ wsStatus' \in [Workspaces -> WorkspaceStates]
         /\ wsCur' \in [Workspaces -> Accounts \cup {None}]
         /\ wsNext' \in [Workspaces -> Accounts \cup {None}]
BY DEF TypeOK, Rebind

LEMMA StatusForType == \A nxt : StatusFor(nxt) \in WorkspaceStates
BY DEF StatusFor, WorkspaceStates

LEMMA FinishType ==
  ASSUME TypeOK, NEW r \in Runs, NEW run \in RunStates, NEW queue \in QueueStates,
         NEW status \in WorkspaceStates, Finish(r, run, queue, status)
  PROVE  /\ runState' \in [Runs -> RunStates]
         /\ qState' \in [Runs -> QueueStates]
         /\ wsStatus' \in [Workspaces -> WorkspaceStates]
BY DEF TypeOK, Finish

(***************************************************************************)
(* The two operations several actions share.                               *)
(***************************************************************************)
LEMMA RotateType ==
  ASSUME TypeOK, NEW w \in Workspaces, Rotate(w)
  PROVE  /\ acct' \in [Accounts -> AccountStates]
         /\ used' \subseteq Children
         /\ inactive' = inactive /\ badMailbox' = badMailbox /\ wsOwner' = wsOwner
         /\ wsStatus' \in [Workspaces -> WorkspaceStates]
         /\ wsCur' \in [Workspaces -> Accounts \cup {None}]
         /\ wsNext' \in [Workspaces -> Accounts \cup {None}]
<1>1. Rotated(w) \in [Accounts -> AccountStates]
  BY DEF TypeOK, Rotated, AccountStates
<1>2. used' \subseteq Children
  BY DEF TypeOK, Rotate, RotationAllowed
<1>3. PICK nxt \in RotationNexts(w) :
        /\ acct' = IF nxt = None THEN Rotated(w)
                   ELSE [Rotated(w) EXCEPT ![nxt] = "bound_next"]
        /\ Rebind(w, wsNext[w], nxt, StatusFor(nxt))
  BY DEF Rotate
<1>4. acct' \in [Accounts -> AccountStates]
  BY <1>1, <1>3 DEF AccountStates
<1>5. nxt \in Accounts \cup {None} /\ wsNext[w] \in Accounts \cup {None}
  BY RotationNextsType DEF TypeOK
<1> QED
  BY <1>2, <1>3, <1>4, <1>5, RebindType, StatusForType DEF Rotate

LEMMA ReplaceAccountType ==
  ASSUME TypeOK, NEW w \in Workspaces, NEW role, NEW code, NEW allowMissing,
         ReplaceAccount(w, role, code, allowMissing)
  PROVE  /\ acct' \in [Accounts -> AccountStates]
         /\ used' = used /\ wsOwner' = wsOwner
         /\ inactive' \subseteq Children \cup Owners
         /\ badMailbox' \subseteq Mailboxes
         /\ wsStatus' \in [Workspaces -> WorkspaceStates]
         /\ wsCur' \in [Workspaces -> Accounts \cup {None}]
         /\ wsNext' \in [Workspaces -> Accounts \cup {None}]
<1> DEFINE target == IF role = "current" THEN wsCur[w] ELSE wsNext[w]
           mailboxLost == code = "mailbox_credentials_invalid"
           off == IF code = "alias_disabled" /\ target \in Children
                    THEN inactive \cup {target} ELSE inactive
           bad == IF mailboxLost THEN badMailbox \cup {MailboxOf[target]} ELSE badMailbox
           nextLost == /\ role = "current" /\ wsNext[w] # None /\ mailboxLost
                       /\ MailboxOf[wsNext[w]] = MailboxOf[target]
           lost == {target} \cup (IF nextLost THEN {wsNext[w]} ELSE {})
           st == [a \in Accounts |-> IF a \in lost THEN "disabled" ELSE acct[a]]
           promoted == IF role = "next" THEN {wsCur[w]}
                       ELSE IF wsNext[w] # None /\ ~nextLost THEN {wsNext[w]}
                       ELSE Replacements(st, off, bad, None, 0)
           st2(cur) == IF role = "current" THEN [st EXCEPT ![cur] = "bound_current"] ELSE st
           Settle(cur, nxt, s) ==
             /\ acct' = IF nxt = None THEN s ELSE [s EXCEPT ![nxt] = "bound_next"]
             /\ Rebind(w, cur, nxt, StatusFor(nxt))
<1>1. target \in Accounts
  BY DEF TypeOK, ReplaceAccount
<1>2. inactive' \subseteq Children \cup Owners /\ badMailbox' \subseteq Mailboxes
  BY <1>1, AccountsAssumption DEF TypeOK, ReplaceAccount
<1>3. st \in [Accounts -> AccountStates]
  BY DEF TypeOK, AccountStates
<1>4. promoted \subseteq Accounts \cup {None}
  <2>1. Replacements(st, off, bad, None, 0) \subseteq Accounts \cup {None}
    BY ReplacementsType
  <2> HIDE DEF st, off, bad, nextLost
  <2> QED
    BY <2>1 DEF TypeOK
<1>5. PICK cur \in promoted :
        \/ cur = None /\ allowMissing /\ Settle(target, None, st)
        \/ /\ cur # None
           /\ \E nxt \in Replacements(st2(cur), off, bad, MailboxOf[cur], AliasNo[cur]) :
                 Settle(cur, nxt, st2(cur))
  BY DEF ReplaceAccount
<1>6. PICK c \in Accounts \cup {None}, nxt \in Accounts \cup {None}, s \in {st, st2(cur)} :
        Settle(c, nxt, s)
  <2> HIDE DEF st, off, bad, target, promoted, st2, Settle
  <2>1. CASE Settle(target, None, st)
    BY <2>1, <1>1
  <2>2. CASE cur # None /\ \E nxt \in Replacements(st2(cur), off, bad, MailboxOf[cur],
                                                   AliasNo[cur]) :
                              Settle(cur, nxt, st2(cur))
    BY <2>2, <1>4, ReplacementsType
  <2> QED
    BY <2>1, <2>2, <1>5
<1>7. s \in [Accounts -> AccountStates]
  <2> HIDE DEF st
  <2> QED
    BY <1>3 DEF AccountStates
<1>8. acct' \in [Accounts -> AccountStates]
  <2> HIDE DEF st, st2
  <2> QED
    BY <1>6, <1>7 DEF AccountStates
<1>9. Rebind(w, c, nxt, StatusFor(nxt))
  BY <1>6
<1>10. used' = used /\ wsOwner' = wsOwner
  BY DEF ReplaceAccount
<1> HIDE DEF st, st2, off, bad, target, promoted, Settle, lost, nextLost, mailboxLost
<1> QED
  BY <1>2, <1>8, <1>9, <1>10, RebindType, StatusForType

(***************************************************************************)
(* Types.                                                                  *)
(***************************************************************************)
LEMMA InitType == Init => TypeOK
<1> SUFFICES ASSUME Init
             PROVE  TypeOK
  OBVIOUS
<1>1. qPos \in [Runs -> 0..MaxPos]
  BY BoundsAssumption DEF Init
<1> QED
  BY <1>1 DEF Init, TypeOK, AccountStates, WorkspaceStates, RunStates, QueueStates

LEMMA PoolType ==
  ASSUME TypeOK, PoolNext
  PROVE  TypeOK'
<1>1. CASE \E a \in Accounts : CreateAccount(a)
  BY <1>1 DEF CreateAccount, TypeOK, AccountStates, wsVars, runData, queueVars
<1>2. CASE \E a \in Accounts, s \in AccountStates : TransitionAccountStatus(a, s)
  BY <1>2 DEF TransitionAccountStatus, TypeOK, wsVars, runData, queueVars
<1>3. CASE \E x \in Children \cup Owners, b \in BOOLEAN : SetAliasState(x, b)
  BY <1>3 DEF SetAliasState, TypeOK, wsVars, runData, queueVars
<1>4. CASE \E m \in Mailboxes, b \in BOOLEAN : SetMailboxStatus(m, b)
  BY <1>4 DEF SetMailboxStatus, TypeOK, wsVars, runData, queueVars
<1> QED
  BY <1>1, <1>2, <1>3, <1>4 DEF PoolNext

LEMMA WorkspaceType ==
  ASSUME TypeOK, WorkspaceNext
  PROVE  TypeOK'
<1>1. ASSUME NEW w \in Workspaces, NEW cur \in Accounts, NEW nxt \in Accounts \cup {None},
             NEW o \in Owners \cup {None}, CreateWorkspace(w, cur, nxt, o)
      PROVE  TypeOK'
  <2>1. Rebind(w, cur, nxt, StatusFor(nxt))
    BY <1>1 DEF CreateWorkspace
  <2>2. acct' \in [Accounts -> AccountStates]
    BY <1>1 DEF CreateWorkspace, TypeOK, AccountStates
  <2> QED
    BY <1>1, <2>1, <2>2, RebindType, StatusForType
       DEF CreateWorkspace, TypeOK, runData, queueVars
<1>2. ASSUME NEW w \in Workspaces, NEW cur \in Accounts, NEW nxt \in Accounts \cup {None},
             NEW o \in Owners \cup {None}, UpdateWorkspaceBindings(w, cur, nxt, o)
      PROVE  TypeOK'
  <2>1. Rebind(w, cur, nxt, StatusFor(nxt))
    BY <1>2 DEF UpdateWorkspaceBindings
  <2>2. acct' \in [Accounts -> AccountStates]
    BY <1>2 DEF UpdateWorkspaceBindings, TypeOK, AccountStates
  <2> QED
    BY <1>2, <2>1, <2>2, RebindType, StatusForType
       DEF UpdateWorkspaceBindings, TypeOK, runData, queueVars
<1>3. ASSUME NEW w \in Workspaces, NEW a \in Accounts, PrepareHandoff(w, a)
      PROVE  TypeOK'
  <2>1. Rebind(w, wsCur[w], a, "ready")
    BY <1>3 DEF PrepareHandoff
  <2>2. acct' \in [Accounts -> AccountStates]
    BY <1>3 DEF PrepareHandoff, TypeOK, AccountStates
  <2>3. wsCur[w] \in Accounts \cup {None} /\ "ready" \in WorkspaceStates
    BY DEF TypeOK, WorkspaceStates
  <2> QED
    BY <1>3, <2>1, <2>2, <2>3, RebindType DEF PrepareHandoff, TypeOK, runData, queueVars
<1>4. ASSUME NEW w \in Workspaces, AdvanceWorkspaceAccounts(w)
      PROVE  TypeOK'
  <2>1. Rotate(w)
    BY <1>4 DEF AdvanceWorkspaceAccounts
  <2> QED
    BY <1>4, <2>1, RotateType DEF AdvanceWorkspaceAccounts, TypeOK, runData, queueVars
<1>5. ASSUME NEW w \in Workspaces, NEW role, NEW c, ReplaceWorkspaceAccount(w, role, c)
      PROVE  TypeOK'
  <2>1. ReplaceAccount(w, role, c, FALSE)
    BY <1>5 DEF ReplaceWorkspaceAccount
  <2> QED
    BY <1>5, <2>1, ReplaceAccountType
       DEF ReplaceWorkspaceAccount, TypeOK, runData, queueVars
<1> QED
  BY <1>1, <1>2, <1>3, <1>4, <1>5 DEF WorkspaceNext

LEMMA EnqueueType ==
  ASSUME TypeOK, NEW R \in SUBSET Runs, NEW kind \in {"handoff", "rescue"},
         NEW of \in [R -> Workspaces], NEW pos \in [R -> 0..MaxPos],
         Enqueue(R, of, pos, kind)
  PROVE  TypeOK'
<1>1. /\ runState' \in [Runs -> RunStates] /\ qState' \in [Runs -> QueueStates]
      /\ wsStatus' \in [Workspaces -> WorkspaceStates]
  BY DEF Enqueue, TypeOK, RunStates, QueueStates, WorkspaceStates
<1>2. /\ runWs' \in [Runs -> Workspaces \cup {None}]
      /\ runKind' \in [Runs -> {"none", "handoff", "rescue"}]
      /\ qPos' \in [Runs -> 0..MaxPos]
  BY DEF Enqueue, TypeOK
<1>3. /\ runCur' \in [Runs -> Accounts \cup {None}]
      /\ runNext' \in [Runs -> Accounts \cup {None}]
  BY DEF Enqueue, TypeOK
<1> QED
  BY <1>1, <1>2, <1>3 DEF Enqueue, TypeOK, poolVars

LEMMA UserQueueType ==
  ASSUME TypeOK, UserQueueNext
  PROVE  TypeOK'
<1>1. CASE \E R \in SUBSET Runs, kind \in {"handoff", "rescue"} :
             \E of \in [R -> Workspaces], pos \in [R -> 0..MaxPos] : Enqueue(R, of, pos, kind)
  BY <1>1, EnqueueType
<1>2. CASE \E b \in BOOLEAN : SetQueuePaused(b)
  BY <1>2 DEF SetQueuePaused, TypeOK, poolVars, wsVars, runData
<1>3. CASE \E pos \in [{r \in Runs : qState[r] = "pending"} -> 0..MaxPos] : ReorderQueue(pos)
  BY <1>3 DEF ReorderQueue, TypeOK, poolVars, wsVars, runData
<1>4. ASSUME NEW r \in Runs, RequestStop(r)
      PROVE  TypeOK'
  <2>1. CASE Finish(r, "cancelled", "cancelled", "ready")
    BY <1>4, <2>1, FinishType
       DEF RequestStop, TypeOK, poolVars, runData, RunStates, QueueStates, WorkspaceStates
  <2>2. CASE /\ runState' = [runState EXCEPT ![r] = "stopping"]
             /\ UNCHANGED <<qState, wsStatus>>
    BY <1>4, <2>2 DEF RequestStop, TypeOK, poolVars, runData, RunStates
  <2> QED
    BY <1>4, <2>1, <2>2 DEF RequestStop
<1>5. ASSUME NEW r \in Runs, RetryRun(r)
      PROVE  TypeOK'
  <2>1. Finish(r, "queued", "pending", "queued") /\ qPos' \in [Runs -> 0..MaxPos]
    BY <1>5 DEF RetryRun, TypeOK
  <2> QED
    BY <1>5, <2>1, FinishType
       DEF RetryRun, TypeOK, poolVars, runData, RunStates, QueueStates, WorkspaceStates
<1> QED
  BY <1>1, <1>2, <1>3, <1>4, <1>5 DEF UserQueueNext

LEMMA WorkerType ==
  ASSUME TypeOK, WorkerNext
  PROVE  TypeOK'
<1>1. CASE RecoverInterruptedRuns
  BY <1>1 DEF RecoverInterruptedRuns, TypeOK, poolVars, runData,
              RunStates, QueueStates, WorkspaceStates
<1>2. ASSUME NEW r \in Runs, ClaimNext(r)
      PROVE  TypeOK'
  <2>1. /\ runState' \in [Runs -> RunStates] /\ qState' \in [Runs -> QueueStates]
        /\ wsStatus' \in [Workspaces -> WorkspaceStates]
    BY <1>2 DEF ClaimNext, TypeOK, RunStates, QueueStates, WorkspaceStates
  <2> QED
    BY <1>2, <2>1 DEF ClaimNext, TypeOK, poolVars, runData
<1>3. ASSUME NEW r \in Runs, MarkRunCancelled(r)
      PROVE  TypeOK'
  <2>1. (IF qState[r] = "running" THEN "cancelled" ELSE qState[r]) \in QueueStates
    BY DEF TypeOK, QueueStates
  <2> QED
    BY <1>3, <2>1, FinishType
       DEF MarkRunCancelled, TypeOK, poolVars, runData, RunStates, WorkspaceStates
<1>4. ASSUME NEW r \in Runs, FailRun(r)
      PROVE  TypeOK'
  <2>1. (IF qState[r] = "running" THEN "failed" ELSE qState[r]) \in QueueStates
    BY DEF TypeOK, QueueStates
  <2> QED
    BY <1>4, <2>1, FinishType
       DEF FailRun, TypeOK, poolVars, runData, RunStates, WorkspaceStates
<1>5. ASSUME NEW r \in Runs, CompleteRunAndRotate(r)
      PROVE  TypeOK'
  <2>1. Rotate(runWs[r]) /\ runWs[r] \in Workspaces
    BY <1>5 DEF CompleteRunAndRotate, Completable, SnapshotMatches, TypeOK
  <2> QED
    BY <1>5, <2>1, RotateType
       DEF CompleteRunAndRotate, TypeOK, runData, RunStates, QueueStates
<1>6. ASSUME NEW r \in Runs, NEW role, NEW c, FailRunAndReplaceAccount(r, role, c)
      PROVE  TypeOK'
  <2>1. ReplaceAccount(runWs[r], role, c, TRUE) /\ runWs[r] \in Workspaces
    BY <1>6 DEF FailRunAndReplaceAccount, SnapshotMatches, TypeOK
  <2> QED
    BY <1>6, <2>1, ReplaceAccountType
       DEF FailRunAndReplaceAccount, TypeOK, runData, RunStates, QueueStates
<1> QED
  BY <1>1, <1>2, <1>3, <1>4, <1>5, <1>6 DEF WorkerNext

LEMMA NextType == TypeOK /\ [Next]_vars => TypeOK'
<1> SUFFICES ASSUME TypeOK, [Next]_vars
             PROVE  TypeOK'
  OBVIOUS
<1>1. CASE UNCHANGED vars
  BY <1>1 DEF vars, poolVars, wsVars, runData, queueVars, TypeOK
<1> QED
  BY <1>1, PoolType, WorkspaceType, UserQueueType, WorkerType DEF Next

\* Every column keeps its domain, whatever the accounts and workspaces are.
THEOREM TypeCorrect == Spec => []TypeOK
BY InitType, NextType, PTL DEF Spec

(***************************************************************************)
(* The tables agree on what is queued and what is executing.               *)
(***************************************************************************)
RunHasWorkspace == \A r \in Runs : runState[r] # "absent" => runWs[r] \in Workspaces

\* The inductive invariant: the guards of enqueue, retry and the binding
\* updates need all of it.
Agree == TypeOK /\ RunAndItemAgree /\ WorkspaceAgreesWithRun /\ RunHasWorkspace

Quiet(status) == status \in WorkspaceStates \ {"queued", "running"}

\* A step that touches no run and gives a workspace that no run holds another
\* status.
LEMMA QuietStep ==
  ASSUME Agree, TypeOK', NEW w \in Workspaces, Quiet(wsStatus[w]),
         NEW status, Quiet(status),
         wsStatus' = [wsStatus EXCEPT ![w] = status],
         UNCHANGED <<runState, runWs, qState>>
  PROVE  Agree'
BY DEF Agree, RunHasWorkspace, Quiet, TypeOK, RunAndItemAgree, WorkspaceAgreesWithRun, Executing,
       ActiveRunOf, Active

\* A step in which the active run r ends.
LEMMA EndStep ==
  ASSUME Agree, TypeOK', NEW r \in Runs, runState[r] \in {"queued", "running", "stopping"},
         NEW run, NEW queue, NEW status, Quiet(status),
         <<run, queue>> \in {<<"succeeded", "completed">>, <<"failed", "failed">>,
                             <<"cancelled", "cancelled">>},
         runState' = [runState EXCEPT ![r] = run],
         qState' = [qState EXCEPT ![r] = queue],
         runWs[r] \in Workspaces,
         wsStatus' = [wsStatus EXCEPT ![runWs[r]] = status],
         runWs' = runWs
  PROVE  Agree'
<1>1. RunAndItemAgree'
  BY DEF Agree, TypeOK, RunAndItemAgree
<1>2. \A s \in Runs : Active(s) <=> runState[s] \in {"queued", "running", "stopping"}
  BY DEF Agree, RunAndItemAgree, Active
<1>3. \A s \in Runs : Active(s)' <=> runState'[s] \in {"queued", "running", "stopping"}
  BY <1>1 DEF RunAndItemAgree, Active
<1>4. \A s \in Runs : runWs[s] = runWs[r] /\ s # r =>
         runState[s] \notin {"queued", "running", "stopping"}
  BY <1>2 DEF Agree, WorkspaceAgreesWithRun, ActiveRunOf
<1>5. WorkspaceAgreesWithRun'
  BY <1>2, <1>3, <1>4
     DEF Agree, TypeOK, Quiet, WorkspaceAgreesWithRun, Executing, ActiveRunOf
<1>6. RunHasWorkspace'
  BY DEF Agree, TypeOK, RunHasWorkspace
<1> QED
  BY <1>1, <1>5, <1>6 DEF Agree

Moves(r, run, queue, status) ==
  /\ runState' = [runState EXCEPT ![r] = run]
  /\ qState' = [qState EXCEPT ![r] = queue]
  /\ wsStatus' = [wsStatus EXCEPT ![runWs[r]] = status]
  /\ runWs' = runWs

\* A step in which the run r, the only active one of its workspace or about to
\* be, gets into another active state.
LEMMA ActiveStep ==
  ASSUME Agree, TypeOK', NEW r \in Runs, runWs[r] \in Workspaces,
         \A s \in Runs \ {r} : ~ActiveRunOf(runWs[r], s),
         NEW run, NEW queue, NEW status,
         <<run, queue, status>> \in {<<"queued", "pending", "queued">>,
           <<"running", "running", "running">>, <<"stopping", "running", "running">>},
         Moves(r, run, queue, status)
  PROVE  Agree'
<1> USE DEF Moves
<1>1. RunAndItemAgree'
  BY DEF Agree, TypeOK, RunAndItemAgree
<1>2. \A s \in Runs : Active(s) <=> runState[s] \in {"queued", "running", "stopping"}
  BY DEF Agree, RunAndItemAgree, Active
<1>3. \A s \in Runs : Active(s)' <=> runState'[s] \in {"queued", "running", "stopping"}
  BY <1>1 DEF RunAndItemAgree, Active
<1>4. \A s \in Runs : runWs[s] = runWs[r] /\ s # r =>
         runState[s] \notin {"queued", "running", "stopping"}
  BY <1>2 DEF ActiveRunOf
<1>5. WorkspaceAgreesWithRun'
  BY <1>2, <1>3, <1>4
     DEF Agree, TypeOK, WorkspaceAgreesWithRun, Executing, ActiveRunOf
<1>6. RunHasWorkspace'
  BY DEF Agree, TypeOK, RunHasWorkspace
<1> QED
  BY <1>1, <1>5, <1>6 DEF Agree

\* An active run is the only one of its workspace.
LEMMA OnlyActive ==
  ASSUME Agree, NEW r \in Runs, runState[r] \in {"queued", "running", "stopping"},
         runWs[r] \in Workspaces
  PROVE  \A s \in Runs \ {r} : ~ActiveRunOf(runWs[r], s)
BY DEF Agree, RunAndItemAgree, WorkspaceAgreesWithRun, ActiveRunOf, Active

LEMMA PoolAgree == ASSUME Agree, TypeOK', PoolNext PROVE Agree'
<1>1. UNCHANGED <<runState, runWs, qState, wsStatus>>
  BY DEF PoolNext, CreateAccount, TransitionAccountStatus, SetAliasState,
         SetMailboxStatus, wsVars, runData, queueVars
<1> QED
  BY <1>1 DEF Agree, RunAndItemAgree, WorkspaceAgreesWithRun, RunHasWorkspace, Executing,
              ActiveRunOf, Active

LEMMA WorkspaceAgree == ASSUME Agree, TypeOK', WorkspaceNext PROVE Agree'
<1> DEFINE Result(w) == /\ UNCHANGED <<runState, runWs, qState>>
                        /\ Quiet(wsStatus[w])
                        /\ \E status : /\ Quiet(status)
                                       /\ wsStatus' = [wsStatus EXCEPT ![w] = status]
<1>1. Quiet("ready") /\ \A nxt : Quiet(StatusFor(nxt))
  BY DEF Quiet, StatusFor, WorkspaceStates
<1>2. \A w \in Workspaces : Idle(w) \/ wsStatus[w] = "absent" => Quiet(wsStatus[w])
  BY DEF Idle, Quiet, Agree, TypeOK
<1>3. ASSUME NEW w \in Workspaces, NEW cur, NEW nxt, NEW o,
             CreateWorkspace(w, cur, nxt, o) \/ UpdateWorkspaceBindings(w, cur, nxt, o)
      PROVE  Result(w)
  BY <1>1, <1>2, <1>3
     DEF CreateWorkspace, UpdateWorkspaceBindings, Rebind, runData, queueVars
<1>4. ASSUME NEW w \in Workspaces, NEW a, PrepareHandoff(w, a)
      PROVE  Result(w)
  BY <1>1, <1>2, <1>4 DEF PrepareHandoff, Rebind, runData, queueVars
<1>5. ASSUME NEW w \in Workspaces, AdvanceWorkspaceAccounts(w)
      PROVE  Result(w)
  BY <1>1, <1>2, <1>5 DEF AdvanceWorkspaceAccounts, Rotate, Rebind, runData, queueVars
<1>6. ASSUME NEW w \in Workspaces, NEW role, NEW c, ReplaceWorkspaceAccount(w, role, c)
      PROVE  Result(w)
  BY <1>1, <1>2, <1>6
     DEF ReplaceWorkspaceAccount, ReplaceAccount, Rebind, runData, queueVars
<1>7. \E w \in Workspaces : Result(w)
  <2> HIDE DEF Result
  <2> QED
    BY <1>3, <1>4, <1>5, <1>6 DEF WorkspaceNext
<1> QED
  BY <1>7, QuietStep

LEMMA EnqueueAgree ==
  ASSUME Agree, TypeOK', NEW R \in SUBSET Runs, NEW kind \in {"handoff", "rescue"},
         NEW of \in [R -> Workspaces], NEW pos \in [R -> 0..MaxPos],
         Enqueue(R, of, pos, kind)
  PROVE  Agree'
<1>1. RunAndItemAgree' /\ RunHasWorkspace'
  BY DEF Agree, TypeOK, RunAndItemAgree, RunHasWorkspace, Enqueue
<1>2. \A r \in Runs : Active(r) <=> runState[r] \in {"queued", "running", "stopping"}
  BY DEF Agree, RunAndItemAgree, Active
<1>3. \A r \in Runs : Active(r)' <=> runState'[r] \in {"queued", "running", "stopping"}
  BY <1>1 DEF RunAndItemAgree, Active
<1>4. \A r \in R : /\ runState'[r] = "queued" /\ runWs'[r] = of[r]
                   /\ wsStatus[of[r]] \in {"ready", "failed"}
                   /\ \A s \in Runs : ~ActiveRunOf(of[r], s)
                   /\ \A s \in R : s # r => of[s] # of[r]
  BY DEF Enqueue
<1>5. \A r \in Runs \ R : runState'[r] = runState[r] /\ runWs'[r] = runWs[r]
  BY DEF Enqueue
<1>6. \A w \in Workspaces :
        wsStatus'[w] = IF \E r \in R : of[r] = w THEN "queued" ELSE wsStatus[w]
  BY DEF Enqueue
<1>7. WorkspaceAgreesWithRun'
  <2> SUFFICES ASSUME NEW w \in Workspaces
               PROVE  /\ wsStatus'[w] = "queued" <=>
                           \E r \in Runs : runWs'[r] = w /\ runState'[r] = "queued"
                      /\ wsStatus'[w] = "running" <=>
                           \E r \in Runs : runWs'[r] = w /\ Executing(r)'
                      /\ \A r, s \in Runs : ActiveRunOf(w, r)' /\ ActiveRunOf(w, s)' => r = s
    BY DEF WorkspaceAgreesWithRun
  <2>1. CASE \E r \in R : of[r] = w
    <3>1. PICK q \in R : of[q] = w
      BY <2>1
    <3>2. \A s \in Runs : ActiveRunOf(w, s)' => s = q
      BY <1>2, <1>3, <1>4, <1>5, <3>1 DEF ActiveRunOf
    <3>3. wsStatus'[w] = "queued" /\ runWs'[q] = w /\ runState'[q] = "queued"
      BY <1>4, <1>6, <3>1
    <3> QED
      BY <1>3, <3>2, <3>3 DEF ActiveRunOf, Executing
  <2>2. CASE ~\E r \in R : of[r] = w
    <3>1. wsStatus'[w] = wsStatus[w]
      BY <1>6, <2>2
    <3>2. \A s \in Runs : runWs'[s] = w => runWs[s] = w /\ runState'[s] = runState[s]
      BY <1>4, <1>5, <2>2
    <3>3. \A s \in Runs : runWs[s] = w /\ runState[s] # "absent" =>
             runWs'[s] = w /\ runState'[s] = runState[s]
      BY <1>5 DEF Enqueue
    <3> QED
      BY <1>2, <1>3, <3>1, <3>2, <3>3
         DEF Agree, WorkspaceAgreesWithRun, ActiveRunOf, Executing
  <2> QED
    BY <2>1, <2>2
<1> QED
  BY <1>1, <1>7 DEF Agree

LEMMA UserQueueAgree == ASSUME Agree, TypeOK', UserQueueNext PROVE Agree'
<1>1. CASE \E R \in SUBSET Runs, kind \in {"handoff", "rescue"} :
             \E of \in [R -> Workspaces], pos \in [R -> 0..MaxPos] : Enqueue(R, of, pos, kind)
  BY <1>1, EnqueueAgree
<1>2. CASE \/ \E b \in BOOLEAN : SetQueuePaused(b)
           \/ \E pos \in [{r \in Runs : qState[r] = "pending"} -> 0..MaxPos] :
                ReorderQueue(pos)
  <2>1. UNCHANGED <<runState, runWs, qState, wsStatus>>
    BY <1>2 DEF SetQueuePaused, ReorderQueue, wsVars, runData
  <2> QED
    BY <2>1 DEF Agree, RunAndItemAgree, WorkspaceAgreesWithRun, RunHasWorkspace, Executing,
                ActiveRunOf, Active
<1>3. ASSUME NEW r \in Runs, RequestStop(r) PROVE Agree'
  <2>1. runWs[r] \in Workspaces /\ runWs' = runWs
    BY <1>3 DEF RequestStop, Agree, RunHasWorkspace, runData
  <2>2. CASE runState[r] = "queued" /\ Finish(r, "cancelled", "cancelled", "ready")
    <3>1. Quiet("ready")
      BY DEF Quiet, WorkspaceStates
    <3> QED
      BY <2>1, <2>2, <3>1, EndStep DEF Finish
  <2>3. CASE /\ runState[r] = "running"
             /\ runState' = [runState EXCEPT ![r] = "stopping"]
             /\ UNCHANGED <<qState, wsStatus>>
    <3>1. qState[r] = "running" /\ wsStatus[runWs[r]] = "running"
      BY <2>1, <2>3
         DEF Agree, RunAndItemAgree, WorkspaceAgreesWithRun, Executing
    <3>2. Moves(r, "stopping", "running", "running")
      BY <2>1, <2>3, <3>1 DEF Agree, TypeOK, Moves
    <3> QED
      BY <2>1, <2>3, <3>2, OnlyActive, ActiveStep
  <2> QED
    BY <1>3, <2>2, <2>3 DEF RequestStop
<1>4. ASSUME NEW r \in Runs, RetryRun(r) PROVE Agree'
  <2>1. /\ runWs[r] \in Workspaces /\ runWs' = runWs
        /\ Moves(r, "queued", "pending", "queued")
        /\ \A s \in Runs : ~ActiveRunOf(runWs[r], s)
    BY <1>4 DEF RetryRun, Finish, Agree, RunHasWorkspace, runData, Moves
  <2> QED
    BY <2>1, ActiveStep
<1> QED
  BY <1>1, <1>2, <1>3, <1>4 DEF UserQueueNext

LEMMA RecoverAgree == ASSUME Agree, TypeOK', RecoverInterruptedRuns PROVE Agree'
<1> DEFINE lost == {r \in Runs : Executing(r) /\ qState[r] = "running"}
<1>1. lost = {r \in Runs : runState[r] \in {"running", "stopping"}}
  BY DEF Agree, RunAndItemAgree, Executing
<1>2. /\ runState' = [r \in Runs |-> IF r \in lost THEN "queued" ELSE runState[r]]
      /\ qState' = [r \in Runs |-> IF r \in lost THEN "pending" ELSE qState[r]]
      /\ wsStatus' = [w \in Workspaces |->
                        IF \E r \in lost : runWs[r] = w THEN "queued" ELSE wsStatus[w]]
      /\ runWs' = runWs
  BY DEF RecoverInterruptedRuns, runData
<1> HIDE DEF lost
<1>3. RunAndItemAgree' /\ RunHasWorkspace'
  BY <1>1, <1>2 DEF Agree, TypeOK, RunAndItemAgree, RunHasWorkspace
<1>4. \A r \in Runs : Active(r) <=> runState[r] \in {"queued", "running", "stopping"}
  BY DEF Agree, RunAndItemAgree, Active
<1>5. \A r \in Runs : Active(r)' <=> runState'[r] \in {"queued", "running", "stopping"}
  BY <1>3 DEF RunAndItemAgree, Active
<1>6. WorkspaceAgreesWithRun'
  BY <1>1, <1>2, <1>4, <1>5
     DEF Agree, WorkspaceAgreesWithRun, ActiveRunOf, Executing
<1> QED
  BY <1>3, <1>6 DEF Agree

LEMMA WorkerAgree == ASSUME Agree, TypeOK', WorkerNext PROVE Agree'
<1>1. Quiet("ready") /\ Quiet("failed") /\ \A nxt : Quiet(StatusFor(nxt))
  BY DEF Quiet, StatusFor, WorkspaceStates
<1>2. ASSUME NEW r \in Runs, ClaimNext(r) PROVE Agree'
  <2>1. /\ runWs[r] \in Workspaces /\ runWs' = runWs
        /\ runState[r] = "queued"
        /\ Moves(r, "running", "running", "running")
    BY <1>2 DEF ClaimNext, Claimable, Agree, RunHasWorkspace, runData, Moves
  <2> QED
    BY <2>1, OnlyActive, ActiveStep
<1>3. ASSUME NEW r \in Runs, Executing(r) PROVE runWs[r] \in Workspaces /\ qState[r] = "running"
  BY <1>3 DEF Agree, RunHasWorkspace, RunAndItemAgree, Executing
<1>4. ASSUME NEW r \in Runs, MarkRunCancelled(r) PROVE Agree'
  BY <1>1, <1>3, <1>4, EndStep DEF MarkRunCancelled, Finish, runData, Executing
<1>5. ASSUME NEW r \in Runs, FailRun(r) PROVE Agree'
  BY <1>1, <1>3, <1>5, EndStep DEF FailRun, Finish, runData, Executing
<1>6. ASSUME NEW r \in Runs, CompleteRunAndRotate(r) PROVE Agree'
  <2>1. /\ runWs[r] \in Workspaces /\ runWs' = runWs /\ Executing(r)
        /\ runState' = [runState EXCEPT ![r] = "succeeded"]
        /\ qState' = [qState EXCEPT ![r] = "completed"]
        /\ Rotate(runWs[r])
    BY <1>3, <1>6 DEF CompleteRunAndRotate, Completable, runData
  <2>2. \E status : Quiet(status) /\ wsStatus' = [wsStatus EXCEPT ![runWs[r]] = status]
    BY <1>1, <2>1 DEF Rotate, Rebind
  <2> QED
    BY <2>1, <2>2, EndStep DEF Executing
<1>7. ASSUME NEW r \in Runs, NEW role, NEW c, FailRunAndReplaceAccount(r, role, c)
      PROVE  Agree'
  <2>1. /\ runWs[r] \in Workspaces /\ runWs' = runWs /\ Executing(r)
        /\ runState' = [runState EXCEPT ![r] = "failed"]
        /\ qState' = [qState EXCEPT ![r] = "failed"]
        /\ ReplaceAccount(runWs[r], role, c, TRUE)
    BY <1>3, <1>7 DEF FailRunAndReplaceAccount, runData
  <2>2. \E status : Quiet(status) /\ wsStatus' = [wsStatus EXCEPT ![runWs[r]] = status]
    BY <1>1, <2>1, ZenonT(40) DEF ReplaceAccount, Rebind
  <2> QED
    BY <2>1, <2>2, EndStep DEF Executing
<1> QED
  BY <1>2, <1>4, <1>5, <1>6, <1>7, RecoverAgree DEF WorkerNext

LEMMA InitAgree == Init => Agree
BY InitType, IdsAssumption
   DEF Init, Agree, RunAndItemAgree, WorkspaceAgreesWithRun, RunHasWorkspace, Executing,
       ActiveRunOf, Active

LEMMA NextAgree == Agree /\ TypeOK' /\ [Next]_vars => Agree'
<1> SUFFICES ASSUME Agree, TypeOK', [Next]_vars
             PROVE  Agree'
  OBVIOUS
<1>1. CASE UNCHANGED vars
  BY <1>1 DEF vars, wsVars, runData, queueVars, Agree, RunAndItemAgree,
              WorkspaceAgreesWithRun, RunHasWorkspace, Executing, ActiveRunOf, Active
<1> QED
  BY <1>1, PoolAgree, WorkspaceAgree, UserQueueAgree, WorkerAgree DEF Next

LEMMA AgreeInvariant == Spec => []Agree
BY InitAgree, NextAgree, TypeCorrect, PTL DEF Spec

\* The states of a run and of its item agree for ever: no crash, stop, failure
\* or retry leaves a run that has ended in the queue, or an active one out of it.
THEOREM ItemsAgree == Spec => []RunAndItemAgree
<1>1. Agree => RunAndItemAgree
  BY DEF Agree
<1> QED
  BY <1>1, AgreeInvariant, PTL

\* No sequence of calls, crashes and recoveries leaves a workspace locked
\* without a run, or two runs in the queue for one workspace.
THEOREM TablesAgree == Spec => []WorkspaceAgreesWithRun
<1>1. Agree => WorkspaceAgreesWithRun
  BY DEF Agree
<1> QED
  BY <1>1, AgreeInvariant, PTL

(***************************************************************************)
(* The positions keep the order.                                           *)
(***************************************************************************)
LEMMA PositionsAreNumbers ==
  ASSUME TypeOK, NEW r \in Runs
  PROVE  qPos[r] \in Nat
BY BoundsAssumption DEF TypeOK

\* A step that activates nothing, moves no position and starts nothing.
LEMMA KeepOrder ==
  ASSUME QueueOrder, UNCHANGED qPos,
         \A r \in Runs : /\ Active(r)' => Active(r)
                         /\ qState'[r] = "running" => qState[r] = "running"
  PROVE  QueueOrder'
BY DEF QueueOrder, Active

LEMMA EnqueueOrder ==
  ASSUME Agree, QueueOrder, NEW R \in SUBSET Runs, NEW kind,
         NEW of \in [R -> Workspaces], NEW pos \in [R -> 0..MaxPos],
         Enqueue(R, of, pos, kind)
  PROVE  QueueOrder'
<1>1. PICK base \in 0..MaxPos : IsEndOfQueue(base) /\ Numbers(pos, R, base)
  BY DEF Enqueue
<1>2. \A r \in R : ~Active(r) /\ qState'[r] = "pending" /\ qPos'[r] = pos[r]
  BY DEF Enqueue, Agree, RunAndItemAgree, Active
<1>3. \A r \in Runs \ R : qState'[r] = qState[r] /\ qPos'[r] = qPos[r]
  BY DEF Enqueue
<1>4. \A r \in R, s \in Runs : Active(s) => qPos[s] < pos[r]
  <2> SUFFICES ASSUME NEW r \in R, NEW s \in Runs, Active(s)
               PROVE  qPos[s] < pos[r]
    OBVIOUS
  <2>1. qPos[s] < base /\ base <= pos[r]
    BY <1>1 DEF IsEndOfQueue, Numbers
  <2>2. qPos[s] \in Nat /\ pos[r] \in Nat /\ base \in Nat
    BY PositionsAreNumbers, BoundsAssumption DEF Agree
  <2> QED
    BY <2>1, <2>2
<1>5. \A r, s \in R : r # s => pos[r] # pos[s]
  BY <1>1 DEF Numbers
<1>6. \A r \in Runs : qPos[r] \in Nat
  BY PositionsAreNumbers DEF Agree
<1>7. \A r \in R : pos[r] \in Nat
  BY BoundsAssumption
<1> QED
  BY <1>2, <1>3, <1>4, <1>5, <1>6, <1>7 DEF QueueOrder, Active

LEMMA RetryOrder ==
  ASSUME Agree, QueueOrder, NEW r \in Runs, RetryRun(r)
  PROVE  QueueOrder'
<1>1. PICK p \in 0..MaxPos : IsEndOfQueue(p) /\ qPos' = [qPos EXCEPT ![r] = p]
  BY DEF RetryRun
<1>2. qState' = [qState EXCEPT ![r] = "pending"] /\ ~Active(r)
  BY DEF RetryRun, Finish, Active
<1>3. p \in Nat /\ \A s \in Runs : qPos[s] \in Nat
  BY PositionsAreNumbers, BoundsAssumption DEF Agree
<1>4. qPos'[r] = p /\ qState'[r] = "pending"
  BY <1>1, <1>2 DEF Agree, TypeOK
<1>5. \A s \in Runs \ {r} : qPos'[s] = qPos[s] /\ qState'[s] = qState[s]
  BY <1>1, <1>2 DEF Agree, TypeOK
<1>6. \A s \in Runs : Active(s) => qPos[s] < p
  BY <1>1 DEF IsEndOfQueue
<1> QED
  BY <1>2, <1>3, <1>4, <1>5, <1>6 DEF QueueOrder, Active

LEMMA ReorderOrder ==
  ASSUME Agree, QueueOrder,
         NEW pos \in [{r \in Runs : qState[r] = "pending"} -> 0..MaxPos], ReorderQueue(pos)
  PROVE  QueueOrder'
<1> DEFINE pending == {r \in Runs : qState[r] = "pending"}
<1>1. PICK base \in 0..(MaxPos + 1) :
        /\ IF \E s \in Runs : qState[s] = "running"
             THEN \E s \in Runs : qState[s] = "running" /\ base = qPos[s] + 1
             ELSE base = 0
        /\ Numbers(pos, pending, base)
  BY DEF ReorderQueue
<1>2. /\ \A r \in pending : qPos'[r] = pos[r] /\ pos[r] >= base /\ pos[r] \in Nat
      /\ \A r \in Runs \ pending : qPos'[r] = qPos[r]
      /\ qState' = qState
  BY <1>1, BoundsAssumption DEF ReorderQueue, Numbers
<1>3. \A r, s \in pending : r # s => pos[r] # pos[s]
  BY <1>1 DEF Numbers
<1>4. base \in Nat /\ \A r \in Runs : qPos[r] \in Nat
  BY PositionsAreNumbers, BoundsAssumption DEF Agree
<1>5. \A s \in Runs : qState[s] = "running" => base = qPos[s] + 1
  BY <1>1 DEF QueueOrder, Active
<1> QED
  BY <1>2, <1>3, <1>4, <1>5 DEF QueueOrder, Active

LEMMA ClaimOrder ==
  ASSUME Agree, QueueOrder, NEW r \in Runs, ClaimNext(r)
  PROVE  QueueOrder'
<1>1. /\ qState' = [qState EXCEPT ![r] = "running"] /\ qPos' = qPos
      /\ \A s \in Runs : qState[s] # "running"
      /\ qState[r] = "pending"
      /\ \A s \in Runs : Claimable(s) => qPos[r] <= qPos[s]
  BY DEF ClaimNext, Claimable
<1>2. \A s \in Runs : qState[s] = "pending" => Claimable(s)
  BY DEF Agree, RunAndItemAgree, RunHasWorkspace, WorkspaceAgreesWithRun, Claimable
<1>3. \A s \in Runs : qPos[s] \in Nat
  BY PositionsAreNumbers DEF Agree
<1>4. qState'[r] = "running" /\ \A s \in Runs \ {r} : qState'[s] = qState[s]
  BY <1>1 DEF Agree, TypeOK
<1> QED
  BY <1>1, <1>2, <1>3, <1>4 DEF QueueOrder, Active

LEMMA RecoverOrder ==
  ASSUME Agree, QueueOrder, RecoverInterruptedRuns
  PROVE  QueueOrder'
<1>1. \A r \in Runs : /\ Active(r)' <=> Active(r)
                      /\ qState'[r] = "running" => qState[r] = "running"
  BY DEF RecoverInterruptedRuns, Active
<1> QED
  BY <1>1, KeepOrder DEF RecoverInterruptedRuns

\* The other transactions only take runs out of the queue.
LEMMA OtherOrder ==
  ASSUME Agree, QueueOrder,
         \/ PoolNext \/ WorkspaceNext
         \/ \E b \in BOOLEAN : SetQueuePaused(b)
         \/ \E r \in Runs : \/ RequestStop(r) \/ MarkRunCancelled(r) \/ FailRun(r)
                            \/ CompleteRunAndRotate(r)
                            \/ \E role \in {"current", "next"}, c \in FailureCodes :
                                 FailRunAndReplaceAccount(r, role, c)
  PROVE  QueueOrder'
<1>1. CASE PoolNext
  <2>1. UNCHANGED <<qState, qPos>>
    BY <1>1 DEF PoolNext, CreateAccount, TransitionAccountStatus, SetAliasState,
                SetMailboxStatus, queueVars
  <2> QED
    BY <2>1 DEF QueueOrder, Active
<1>2. CASE WorkspaceNext
  <2>1. UNCHANGED <<qState, qPos>>
    <3>1. \A w, cur, nxt, o :
            CreateWorkspace(w, cur, nxt, o) \/ UpdateWorkspaceBindings(w, cur, nxt, o) =>
              UNCHANGED <<qState, qPos>>
      BY DEF CreateWorkspace, UpdateWorkspaceBindings, queueVars
    <3>2. \A w \in Workspaces : (\E a : PrepareHandoff(w, a)) \/ AdvanceWorkspaceAccounts(w)
                                  => UNCHANGED <<qState, qPos>>
      BY DEF PrepareHandoff, AdvanceWorkspaceAccounts, queueVars
    <3>3. \A w, role, c : ReplaceWorkspaceAccount(w, role, c)
                                  => UNCHANGED <<qState, qPos>>
      BY DEF ReplaceWorkspaceAccount, queueVars
    <3> QED
      BY <1>2, <3>1, <3>2, <3>3 DEF WorkspaceNext
  <2> QED
    BY <2>1 DEF QueueOrder, Active
<1>3. CASE \E b \in BOOLEAN : SetQueuePaused(b)
  BY <1>3 DEF SetQueuePaused, QueueOrder, Active
<1>4. ASSUME NEW r \in Runs,
             \/ RequestStop(r) \/ MarkRunCancelled(r) \/ FailRun(r) \/ CompleteRunAndRotate(r)
             \/ \E role \in {"current", "next"}, c \in FailureCodes :
                  FailRunAndReplaceAccount(r, role, c)
      PROVE  QueueOrder'
  <2>1. Executing(r) => qState[r] = "running"
    BY DEF Executing, Agree, RunAndItemAgree
  <2>2. qPos' = qPos /\ (qState' = qState \/ \E q \in {"completed", "failed", "cancelled"} :
                                               qState' = [qState EXCEPT ![r] = q])
    BY <1>4, <2>1 DEF RequestStop, MarkRunCancelled, FailRun, Finish, CompleteRunAndRotate,
                      FailRunAndReplaceAccount
  <2>3. \A s \in Runs : qState'[s] \in {qState[s], "completed", "failed", "cancelled"}
    BY <2>2 DEF Agree, TypeOK
  <2> QED
    BY <2>2, <2>3, KeepOrder DEF Active
<1> QED
  BY <1>1, <1>2, <1>3, <1>4

\* What the unique indexes of queue_items demand, and that the item being
\* executed is ahead of all others, is kept by the position arithmetic alone.
THEOREM OrderKept == Spec => []QueueOrder
<1>1. Init => QueueOrder
  BY DEF Init, QueueOrder, Active
<1>2. Agree /\ QueueOrder /\ [Next]_vars => QueueOrder'
  <2> SUFFICES ASSUME Agree, QueueOrder, [Next]_vars
               PROVE  QueueOrder'
    OBVIOUS
  <2>1. CASE UNCHANGED vars
    BY <2>1 DEF vars, queueVars, QueueOrder, Active
  <2>2. CASE UserQueueNext
    BY <2>2, EnqueueOrder, ReorderOrder, RetryOrder, OtherOrder DEF UserQueueNext
  <2>3. CASE WorkerNext
    BY <2>3, RecoverOrder, ClaimOrder, OtherOrder DEF WorkerNext
  <2> QED
    BY <2>1, <2>2, <2>3, OtherOrder DEF Next
<1> QED
  BY <1>1, <1>2, AgreeInvariant, PTL DEF Spec

(***************************************************************************)
(* The tables implement the serial queue.                                  *)
(***************************************************************************)
\* Distinct positions order the runs that have them.
LEMMA PositionsAreAnOrder ==
  ASSUME NEW S \in SUBSET Runs, NEW p, \A r \in S : p[r] \in Nat,
         \A r, s \in S : r # s => p[r] # p[s]
  PROVE  {x \in S \X S : p[x[1]] < p[x[2]]} \in Serial!Orders(S)
<1> DEFINE R == {x \in S \X S : p[x[1]] < p[x[2]]}
<1>1. \A r, s \in S : <<r, s>> \in R <=> p[r] < p[s]
  OBVIOUS
<1>2. R \in SUBSET (S \X S)
  OBVIOUS
<1> HIDE DEF R
<1>3. \A r \in S : <<r, r>> \notin R
  BY <1>1
<1>4. \A r, s \in S : r # s => <<r, s>> \in R \/ <<s, r>> \in R
  BY <1>1
<1>5. \A r, s, t \in S : <<r, s>> \in R /\ <<s, t>> \in R => <<r, t>> \in R
  BY <1>1
<1>6. R \in Serial!Orders(S)
  BY <1>2, <1>3, <1>4, <1>5 DEF Serial!Orders
<1> QED
  BY <1>6 DEF R

LEMMA BeforeIsAnOrder ==
  ASSUME TypeOK, QueueOrder
  PROVE  Before \in Serial!Orders(Waiting)
<1>1. Waiting \in SUBSET Runs /\ \A r \in Waiting : qPos[r] \in Nat
  BY PositionsAreNumbers DEF Waiting
<1>2. \A r, s \in Waiting : r # s => qPos[r] # qPos[s]
  BY DEF Waiting, QueueOrder, Active
<1> QED
  BY <1>1, <1>2, PositionsAreAnOrder DEF Before

LEMMA PairsInOrder ==
  ASSUME NEW r \in Waiting, NEW s \in Waiting
  PROVE  <<r, s>> \in Before <=> qPos[r] < qPos[s]
BY DEF Before

\* The run in execution, given that there is one at most.
LEMMA TheRunning ==
  ASSUME NEW q, NEW r \in Runs, q[r] = "running",
         \A s \in Runs : q[s] = "running" => s = r
  PROVE  (CHOOSE s \in Runs : q[s] = "running") = r
OBVIOUS

LEMMA ExecutingIs ==
  ASSUME QueueOrder
  PROVE  /\ \A r \in Runs : qState[r] = "running" => InExecution = r
         /\ (\A r \in Runs : qState[r] # "running") => InExecution = None
<1>1. ASSUME NEW r \in Runs, qState[r] = "running"
      PROVE  InExecution = r
  <2>1. \A s \in Runs : qState[s] = "running" => s = r
    BY <1>1 DEF QueueOrder, Active
  <2> QED
    BY <1>1, <2>1, TheRunning DEF InExecution
<1>2. (\A r \in Runs : qState[r] # "running") => InExecution = None
  BY DEF InExecution
<1> QED
  BY <1>1, <1>2

LEMMA ExecutingIsThen ==
  ASSUME QueueOrder'
  PROVE  /\ \A r \in Runs : qState'[r] = "running" => InExecution' = r
         /\ (\A r \in Runs : qState'[r] # "running") => InExecution' = None
<1>1. ASSUME NEW r \in Runs, qState'[r] = "running"
      PROVE  InExecution' = r
  <2>1. \A s \in Runs : qState'[s] = "running" => s = r
    BY <1>1 DEF QueueOrder, Active
  <2> QED
    BY <1>1, <2>1, TheRunning DEF InExecution
<1>2. (\A r \in Runs : qState'[r] # "running") => InExecution' = None
  BY DEF InExecution
<1> QED
  BY <1>1, <1>2

LEMMA SameExecuting ==
  ASSUME QueueOrder, QueueOrder',
         \A r \in Runs : qState'[r] = "running" <=> qState[r] = "running"
  PROVE  InExecution' = InExecution
BY ExecutingIs, ExecutingIsThen

LEMMA NothingMoves ==
  ASSUME UNCHANGED <<runState, qState, qPos>>
  PROVE  UNCHANGED Serial!svars
BY DEF Serial!svars, Waiting, Before, InExecution, Ended

\* A run that executes ends.
LEMMA EndIsEnd ==
  ASSUME Agree, QueueOrder, QueueOrder', NEW r \in Runs, Executing(r),
         NEW run \in {"succeeded", "failed", "cancelled"}, NEW queue \in {"completed", "failed", "cancelled"},
         runState' = [runState EXCEPT ![r] = run], qState' = [qState EXCEPT ![r] = queue], qPos' = qPos
  PROVE  Serial!SNext
<1>1. qState[r] = "running"
  BY DEF Agree, RunAndItemAgree, Executing
<1>2. /\ qState'[r] = queue /\ \A s \in Runs \ {r} : qState'[s] = qState[s]
      /\ runState'[r] = run /\ \A s \in Runs \ {r} : runState'[s] = runState[s]
  BY DEF Agree, TypeOK
<1>3. Waiting' = Waiting
  BY <1>1, <1>2 DEF Waiting
<1>4. Before' = Before
  BY <1>3 DEF Before
<1>5. InExecution = r /\ InExecution # None
  BY <1>1, ExecutingIs, IdsAssumption
<1>6. InExecution' = None
  BY <1>1, <1>2, ExecutingIsThen DEF QueueOrder, Active
<1>7. Ended' = [Ended EXCEPT ![r] = run]
  BY <1>2 DEF Ended
<1>8. run \in Serial!Results \ {"none"}
  BY DEF Serial!Results
<1> QED
  BY <1>3, <1>4, <1>5, <1>6, <1>7, <1>8 DEF Serial!SNext, Serial!End

LEMMA StopIsWithdraw ==
  ASSUME Agree, QueueOrder, QueueOrder', NEW r \in Runs, RequestStop(r)
  PROVE  [Serial!SNext]_Serial!svars
<1>1. CASE runState[r] = "queued" /\ qState[r] = "pending" /\ Finish(r, "cancelled", "cancelled", "ready")
  <2>1. /\ qState'[r] = "cancelled" /\ \A s \in Runs \ {r} : qState'[s] = qState[s]
        /\ runState'[r] = "cancelled" /\ \A s \in Runs \ {r} : runState'[s] = runState[s]
        /\ qPos' = qPos
    BY <1>1 DEF RequestStop, Finish, Agree, TypeOK
  <2>2. r \in Waiting /\ Waiting' = Waiting \ {r}
    BY <1>1, <2>1 DEF Waiting
  <2>3. Before' = Before \cap (Waiting' \X Waiting')
    BY <2>1, <2>2 DEF Before
  <2>4. InExecution' = InExecution
    BY <1>1, <2>1, SameExecuting
  <2>5. Ended' = [Ended EXCEPT ![r] = "cancelled"]
    BY <2>1 DEF Ended
  <2> QED
    BY <2>2, <2>3, <2>4, <2>5 DEF Serial!SNext, Serial!Withdraw, Serial!Among
<1>2. CASE runState[r] = "running" /\ runState' = [runState EXCEPT ![r] = "stopping"] /\ qState' = qState
  <2>1. \A s \in Runs : runState'[s] = runState[s] \/ (runState[s] = "running" /\ runState'[s] = "stopping")
    BY <1>2 DEF Agree, TypeOK
  <2>2. Ended' = Ended
    BY <2>1 DEF Ended
  <2>3. Waiting' = Waiting /\ InExecution' = InExecution
    BY <1>2 DEF Waiting, InExecution
  <2>4. Before' = Before
    BY <2>3 DEF Before, RequestStop
  <2> QED
    BY <2>2, <2>3, <2>4 DEF Serial!svars
<1> QED
  BY <1>1, <1>2 DEF RequestStop

LEMMA ClaimIsTake ==
  ASSUME Agree, QueueOrder, QueueOrder', NEW r \in Runs, ClaimNext(r)
  PROVE  Serial!SNext
<1>1. /\ \A s \in Runs : qState[s] # "running"
      /\ qState[r] = "pending" /\ runState[r] = "queued" /\ qPos' = qPos
      /\ qState'[r] = "running" /\ \A s \in Runs \ {r} : qState'[s] = qState[s]
      /\ runState'[r] = "running" /\ \A s \in Runs \ {r} : runState'[s] = runState[s]
  BY DEF ClaimNext, Claimable, Agree, TypeOK
<1>2. \A s \in Waiting : Claimable(s)
  BY DEF Agree, RunAndItemAgree, RunHasWorkspace, WorkspaceAgreesWithRun, Claimable, Waiting
<1>3. r \in Waiting /\ Waiting' = Waiting \ {r}
  BY <1>1 DEF Waiting
<1>4. \A s \in Waiting \ {r} : <<r, s>> \in Before
  <2> SUFFICES ASSUME NEW s \in Waiting \ {r}
               PROVE  <<r, s>> \in Before
    OBVIOUS
  <2>1. qPos[r] <= qPos[s] /\ s \in Runs
    BY <1>2 DEF ClaimNext, Waiting
  <2>2. qPos[r] # qPos[s]
    BY <1>1, <2>1 DEF QueueOrder, Active, Waiting
  <2>3. qPos[r] \in Nat /\ qPos[s] \in Nat
    BY <2>1, PositionsAreNumbers DEF Agree
  <2> QED
    BY <1>3, <2>1, <2>2, <2>3, PairsInOrder
<1>5. Before' = Before \cap (Waiting' \X Waiting')
  BY <1>1, <1>3 DEF Before
<1>6. InExecution = None /\ InExecution' = r
  BY <1>1, ExecutingIs, ExecutingIsThen
<1>7. Ended' = Ended
  BY <1>1 DEF Ended
<1> QED
  BY <1>3, <1>4, <1>5, <1>6, <1>7 DEF Serial!SNext, Serial!Take, Serial!Among

LEMMA RecoverIsInterrupt ==
  ASSUME Agree, QueueOrder, QueueOrder', RecoverInterruptedRuns
  PROVE  [Serial!SNext]_Serial!svars
<1>1. /\ \A r \in Runs : qState[r] = "running" => qState'[r] = "pending" /\ runState'[r] = "queued" /\ Executing(r)
      /\ \A r \in Runs : qState[r] # "running" => qState'[r] = qState[r] /\ runState'[r] = runState[r]
      /\ qPos' = qPos
  BY DEF RecoverInterruptedRuns, Agree, RunAndItemAgree, Executing
<1>2. Ended' = Ended
  BY <1>1 DEF Ended, Executing
<1>3. CASE \A r \in Runs : qState[r] # "running"
  <2>1. Waiting' = Waiting
    BY <1>1, <1>3 DEF Waiting
  <2>2. Before' = Before
    BY <1>1, <2>1 DEF Before
  <2>3. InExecution' = InExecution
    BY <1>1, <1>3, SameExecuting
  <2> QED
    BY <1>2, <2>1, <2>2, <2>3 DEF Serial!svars
<1>4. ASSUME NEW r \in Runs, qState[r] = "running"
      PROVE  Serial!SNext
  <2>1. InExecution = r /\ InExecution # None
    BY <1>4, ExecutingIs, IdsAssumption
  <2>2. \A s \in Runs \ {r} : qState[s] # "running"
    BY <1>4 DEF QueueOrder, Active
  <2>3. InExecution' = None
    BY <1>1, <2>2, ExecutingIsThen
  <2>4. Waiting' = Waiting \cup {r} /\ r \notin Waiting
    BY <1>1, <1>4, <2>2 DEF Waiting
  <2>5. \A s \in Waiting : qPos[r] < qPos[s] /\ ~(qPos[s] < qPos[r]) /\ ~(qPos[r] < qPos[r])
    <3> SUFFICES ASSUME NEW s \in Waiting
                 PROVE  qPos[r] < qPos[s] /\ ~(qPos[s] < qPos[r]) /\ ~(qPos[r] < qPos[r])
      OBVIOUS
    <3>1. s \in Runs /\ s # r /\ qPos[r] < qPos[s]
      BY <1>4 DEF Waiting, QueueOrder, Active
    <3>2. qPos[r] \in Nat /\ qPos[s] \in Nat
      BY <3>1, PositionsAreNumbers DEF Agree
    <3> QED
      BY <3>1, <3>2
  <2>6. ~(qPos[r] < qPos[r])
    BY PositionsAreNumbers DEF Agree
  <2>7. Before' = Before \cup ({r} \X Waiting)
    BY <1>1, <2>4, <2>5, <2>6 DEF Before
  <2> QED
    BY <1>2, <2>1, <2>3, <2>4, <2>7 DEF Serial!SNext, Serial!Interrupt
<1> QED
  BY <1>3, <1>4

\* The new runs stand after all that wait.
LEMMA NewIsSubmit ==
  ASSUME Agree, QueueOrder, TypeOK', QueueOrder', NEW R \in SUBSET Runs, R # {},
         \A r \in R : runState[r] \in {"absent", "failed"} /\ runState'[r] = "queued" /\ qState'[r] = "pending",
         \A r \in Runs \ R : runState'[r] = runState[r] /\ qState'[r] = qState[r] /\ qPos'[r] = qPos[r],
         \A r \in R, s \in Waiting : qPos[s] < qPos'[r]
  PROVE  Serial!SNext
<1>1. \A r \in R : qState[r] \notin {"pending", "running"}
  BY DEF Agree, RunAndItemAgree
<1>2. R \cap Waiting = {} /\ Waiting' = Waiting \cup R
  BY <1>1 DEF Waiting
<1>3. InExecution' = InExecution
  BY <1>1, SameExecuting
<1>4. InExecution \notin R
  <2>1. CASE \A r \in Runs : qState[r] # "running"
    BY <2>1, ExecutingIs, IdsAssumption
  <2>2. CASE \E r \in Runs : qState[r] = "running"
    BY <1>1, <2>2, ExecutingIs
  <2> QED
    BY <2>1, <2>2
<1>5. Ended' = [r \in Runs |-> IF r \in R THEN "none" ELSE Ended[r]]
  BY DEF Ended
<1>6. \A r \in R : Ended[r] \in {"none", "failed"}
  BY DEF Ended
<1>7. Before' \in Serial!Orders(Waiting')
  <2>1. Waiting' \in SUBSET Runs /\ \A r \in Waiting' : qPos'[r] \in Nat
    BY BoundsAssumption DEF Waiting, TypeOK
  <2>2. \A r, s \in Waiting' : r # s => qPos'[r] # qPos'[s]
    BY DEF Waiting, QueueOrder, Active
  <2> QED
    BY <2>1, <2>2, PositionsAreAnOrder DEF Before
<1>8. Before \cup (Waiting \X R) \subseteq Before'
  BY <1>2 DEF Before, Waiting
<1> QED
  BY <1>2, <1>3, <1>4, <1>5, <1>6, <1>7, <1>8 DEF Serial!SNext, Serial!Submit

LEMMA EnqueueIsSubmit ==
  ASSUME Agree, QueueOrder, TypeOK', QueueOrder', NEW R \in SUBSET Runs, NEW kind,
         NEW of \in [R -> Workspaces], NEW pos \in [R -> 0..MaxPos],
         Enqueue(R, of, pos, kind)
  PROVE  Serial!SNext
<1>1. PICK base \in 0..MaxPos : IsEndOfQueue(base) /\ Numbers(pos, R, base)
  BY DEF Enqueue
<1>2. /\ \A r \in R : runState[r] = "absent" /\ runState'[r] = "queued" /\ qState'[r] = "pending" /\ qPos'[r] = pos[r]
      /\ \A r \in Runs \ R : runState'[r] = runState[r] /\ qState'[r] = qState[r] /\ qPos'[r] = qPos[r]
      /\ R # {}
  BY DEF Enqueue
<1>3. \A r \in R, s \in Waiting : qPos[s] < qPos'[r]
  <2> SUFFICES ASSUME NEW r \in R, NEW s \in Waiting
               PROVE  qPos[s] < pos[r]
    BY <1>2
  <2>1. qPos[s] < base /\ base <= pos[r] /\ s \in Runs
    BY <1>1 DEF IsEndOfQueue, Numbers, Waiting, Active
  <2>2. qPos[s] \in Nat /\ pos[r] \in Nat /\ base \in Nat
    BY <2>1, PositionsAreNumbers, BoundsAssumption DEF Agree
  <2> QED
    BY <2>1, <2>2
<1> QED
  BY <1>2, <1>3, NewIsSubmit

LEMMA RetryIsSubmit ==
  ASSUME Agree, QueueOrder, TypeOK', QueueOrder', NEW r \in Runs, RetryRun(r)
  PROVE  Serial!SNext
<1>1. PICK p \in 0..MaxPos : IsEndOfQueue(p) /\ qPos' = [qPos EXCEPT ![r] = p]
  BY DEF RetryRun
<1>2. /\ runState[r] = "failed" /\ runState'[r] = "queued" /\ qState'[r] = "pending" /\ qPos'[r] = p
      /\ \A s \in Runs \ {r} : runState'[s] = runState[s] /\ qState'[s] = qState[s] /\ qPos'[s] = qPos[s]
  BY <1>1 DEF RetryRun, Finish, Agree, TypeOK
<1>3. \A s \in Waiting : qPos[s] < p
  BY <1>1 DEF IsEndOfQueue, Waiting, Active
<1> QED
  BY <1>2, <1>3, NewIsSubmit

LEMMA ReorderIsRearrange ==
  ASSUME Agree, QueueOrder, TypeOK', QueueOrder', NEW pos, ReorderQueue(pos)
  PROVE  Serial!SNext
<1>1. qState' = qState /\ runState' = runState
  BY DEF ReorderQueue
<1>2. Waiting' = Waiting /\ InExecution' = InExecution /\ Ended' = Ended
  BY <1>1 DEF Waiting, InExecution, Ended
<1>3. Before' \in Serial!Orders(Waiting')
  <2>1. Waiting' \in SUBSET Runs /\ \A r \in Waiting' : qPos'[r] \in Nat
    BY BoundsAssumption DEF Waiting, TypeOK
  <2>2. \A r, s \in Waiting' : r # s => qPos'[r] # qPos'[s]
    BY DEF Waiting, QueueOrder, Active
  <2> QED
    BY <2>1, <2>2, PositionsAreAnOrder DEF Before
<1> QED
  BY <1>2, <1>3 DEF Serial!SNext, Serial!Rearrange

LEMMA EndsAreEnds ==
  ASSUME Agree, QueueOrder, QueueOrder', NEW r \in Runs,
         \/ MarkRunCancelled(r) \/ FailRun(r) \/ CompleteRunAndRotate(r)
         \/ \E role \in {"current", "next"}, c \in FailureCodes : FailRunAndReplaceAccount(r, role, c)
  PROVE  Serial!SNext
<1>1. Executing(r) /\ qState[r] = "running"
  BY DEF MarkRunCancelled, FailRun, CompleteRunAndRotate, Completable, FailRunAndReplaceAccount,
         Executing, Agree, RunAndItemAgree
<1>2. PICK run \in {"succeeded", "failed", "cancelled"}, queue \in {"completed", "failed", "cancelled"} :
        /\ runState' = [runState EXCEPT ![r] = run] /\ qState' = [qState EXCEPT ![r] = queue] /\ qPos' = qPos
  BY <1>1 DEF MarkRunCancelled, FailRun, Finish, CompleteRunAndRotate, FailRunAndReplaceAccount
<1> QED
  BY <1>1, <1>2, EndIsEnd

LEMMA OutsideTheQueue ==
  ASSUME PoolNext \/ WorkspaceNext \/ \E b \in BOOLEAN : SetQueuePaused(b)
  PROVE  UNCHANGED <<runState, qState, qPos>>
<1>1. CASE PoolNext
  BY <1>1 DEF PoolNext, CreateAccount, TransitionAccountStatus, SetAliasState, SetMailboxStatus,
     queueVars
<1>2. CASE WorkspaceNext
  <2>1. \A w, cur, nxt, o : CreateWorkspace(w, cur, nxt, o) \/ UpdateWorkspaceBindings(w, cur, nxt, o) =>
          UNCHANGED <<runState, qState, qPos>>
    BY DEF CreateWorkspace, UpdateWorkspaceBindings, queueVars
  <2>2. \A w \in Workspaces : (\E a : PrepareHandoff(w, a)) \/ AdvanceWorkspaceAccounts(w)
          => UNCHANGED <<runState, qState, qPos>>
    BY DEF PrepareHandoff, AdvanceWorkspaceAccounts, queueVars
  <2>3. \A w, role, c : ReplaceWorkspaceAccount(w, role, c) => UNCHANGED <<runState, qState, qPos>>
    BY DEF ReplaceWorkspaceAccount, queueVars
  <2> QED
    BY <1>2, <2>1, <2>2, <2>3 DEF WorkspaceNext
<1>3. CASE \E b \in BOOLEAN : SetQueuePaused(b)
  BY <1>3 DEF SetQueuePaused
<1> QED
  BY <1>1, <1>2, <1>3

LEMMA StepIsSerial ==
  ASSUME Agree, QueueOrder, TypeOK', QueueOrder', [Next]_vars
  PROVE  [Serial!SNext]_Serial!svars
<1>1. CASE UNCHANGED vars
  BY <1>1, NothingMoves DEF vars, queueVars
<1>2. CASE PoolNext \/ WorkspaceNext
  BY <1>2, OutsideTheQueue, NothingMoves
<1>3. CASE UserQueueNext
  <2>1. CASE \E b \in BOOLEAN : SetQueuePaused(b)
    BY <2>1, OutsideTheQueue, NothingMoves
  <2>2. CASE \E R \in SUBSET Runs, kind \in {"handoff", "rescue"} :
               \E of \in [R -> Workspaces], pos \in [R -> 0..MaxPos] : Enqueue(R, of, pos, kind)
    BY <2>2, EnqueueIsSubmit
  <2>3. CASE \E pos \in [{r \in Runs : qState[r] = "pending"} -> 0..MaxPos] : ReorderQueue(pos)
    BY <2>3, ReorderIsRearrange
  <2>4. CASE \E r \in Runs : RequestStop(r) \/ RetryRun(r)
    BY <2>4, StopIsWithdraw, RetryIsSubmit
  <2> QED
    BY <1>3, <2>1, <2>2, <2>3, <2>4 DEF UserQueueNext
<1>4. CASE WorkerNext
  BY <1>4, RecoverIsInterrupt, ClaimIsTake, EndsAreEnds DEF WorkerNext
<1> QED
  BY <1>1, <1>2, <1>3, <1>4 DEF Next

\* Whatever positions the transactions write, what is claimed, stopped, retried,
\* reordered, recovered and ended is what a serial queue of runs allows.
THEOREM TablesAreASerialQueue == Spec => ImplementsSerialQueue
<1>1. Init => Serial!SInit
  BY DEF Init, Serial!SInit, Waiting, Before, InExecution, Ended
<1>2. Agree /\ QueueOrder /\ TypeOK' /\ QueueOrder' /\ [Next]_vars => [Serial!SNext]_Serial!svars
  BY StepIsSerial
<1>3. Agree => TypeOK
  BY DEF Agree
<1> QED
  BY <1>1, <1>2, <1>3, AgreeInvariant, OrderKept, TypeCorrect, PTL DEF Spec, ImplementsSerialQueue,
     Serial!SSpec
=============================================================================

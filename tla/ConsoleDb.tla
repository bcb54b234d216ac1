----------------------------- MODULE ConsoleDb -----------------------------
(***************************************************************************)
(* The SQLite tables behind the Team Workflow console and every write      *)
(* transaction on them (src/team_protocol/database.py).  A transaction is  *)
(* BEGIN IMMEDIATE under the process-wide maintenance lock and rolls back  *)
(* on any exception, so it is one atomic step; a refused call changes      *)
(* nothing and is a stutter.  The order among the rows a query may return  *)
(* is left open wherever the code orders them by creation time or by id.   *)
(***************************************************************************)
EXTENDS Naturals

CONSTANTS
  Accounts,     \* every account row that may ever exist
  Children,     \* those of them that belong to an iCloud child alias
  Owners,       \* the iCloud team_owner aliases (they have no account)
  Workspaces, Runs, Mailboxes,
  MailboxOf,    \* primary mailbox of an account, or of an owner alias
  ParentOf,     \* parent owner alias of a child, None for the others
  AliasNo,      \* alias number of an inventory account in its mailbox
  MaxPos,       \* bound on queue positions
  None

ASSUME IdsAssumption ==
  /\ None \notin Accounts \cup Owners \cup Workspaces \cup Runs \cup Mailboxes
  /\ Accounts \cap Owners = {}

ASSUME AccountsAssumption ==
  /\ Children \subseteq Accounts
  /\ MailboxOf \in [Accounts \cup Owners -> Mailboxes]
  /\ ParentOf \in [Accounts -> Owners \cup {None}]
  /\ AliasNo \in [Accounts -> Nat]
  /\ \A a \in Accounts : ParentOf[a] # None =>
        a \in Children /\ MailboxOf[a] = MailboxOf[ParentOf[a]]
  /\ \A a \in Children, b \in Accounts \ Children : MailboxOf[a] # MailboxOf[b]

ASSUME BoundsAssumption == MaxPos \in Nat

VARIABLES
  acct,        \* accounts.status, "absent" before the row exists
  used,        \* child accounts whose alias has used_at set
  inactive,    \* child accounts and owners whose alias is inactive
  badMailbox,  \* mailboxes disabled (inventory) or not ready (iCloud)
  wsStatus, wsCur, wsNext, wsOwner,            \* table workspaces
  runState, runWs, runCur, runNext, runKind,   \* table runs
  qState, qPos,                                \* table queue_items, by run
  paused                                       \* app_meta.queue_paused

poolVars  == <<acct, used, inactive, badMailbox>>
wsVars    == <<wsStatus, wsCur, wsNext, wsOwner>>
runData   == <<runWs, runCur, runNext, runKind>>
queueVars == <<qState, qPos, paused>>
vars == <<poolVars, wsVars, runState, runData, queueVars>>

AccountStates == {"absent", "available", "bound_current", "bound_next",
                  "exited_pending", "retired", "disabled"}
WorkspaceStates == {"absent", "needs_account", "ready", "queued", "running",
                    "failed"}
RunStates == {"absent", "queued", "running", "stopping", "succeeded",
              "failed", "cancelled"}
QueueStates == {"absent", "pending", "running", "completed", "failed",
                "cancelled"}
FailureCodes == {"alias_disabled", "mailbox_credentials_invalid",
                 "account_deactivated"}

TypeOK ==
  /\ acct \in [Accounts -> AccountStates]
  /\ used \subseteq Children
  /\ inactive \subseteq Children \cup Owners
  /\ badMailbox \subseteq Mailboxes
  /\ wsStatus \in [Workspaces -> WorkspaceStates]
  /\ wsCur \in [Workspaces -> Accounts \cup {None}]
  /\ wsNext \in [Workspaces -> Accounts \cup {None}]
  /\ wsOwner \in [Workspaces -> Owners \cup {None}]
  /\ runState \in [Runs -> RunStates]
  /\ runWs \in [Runs -> Workspaces \cup {None}]
  /\ runCur \in [Runs -> Accounts \cup {None}]
  /\ runNext \in [Runs -> Accounts \cup {None}]
  /\ runKind \in [Runs -> {"none", "handoff", "rescue"}]
  /\ qState \in [Runs -> QueueStates]
  /\ qPos \in [Runs -> 0..MaxPos]
  /\ paused \in BOOLEAN

Init ==
  /\ acct = [a \in Accounts |-> "absent"]
  /\ used = {} /\ inactive = {} /\ badMailbox = {}
  /\ wsStatus = [w \in Workspaces |-> "absent"]
  /\ wsCur = [w \in Workspaces |-> None]
  /\ wsNext = [w \in Workspaces |-> None]
  /\ wsOwner = [w \in Workspaces |-> None]
  /\ runState = [r \in Runs |-> "absent"]
  /\ runWs = [r \in Runs |-> None]
  /\ runCur = [r \in Runs |-> None]
  /\ runNext = [r \in Runs |-> None]
  /\ runKind = [r \in Runs |-> "none"]
  /\ qState = [r \in Runs |-> "absent"]
  /\ qPos = [r \in Runs |-> 0]
  /\ paused = FALSE

-----------------------------------------------------------------------------
(* Reading the tables. *)

\* Definitions marked "mutant" are wrong on purpose: each stands for a mistake
\* that one of the properties below is there to catch, and no action uses it.

Active(r) == qState[r] \in {"pending", "running"}
Executing(r) == runState[r] \in {"running", "stopping"}
ActiveRunOf(w, r) == runWs[r] = w /\ Active(r)
\* Mutant: a workspace in the queue may be edited until its run is claimed.
IdleUntilClaimed(w) == wsStatus[w] \notin {"absent", "running"}
Idle(w) == wsStatus[w] \notin {"absent", "queued", "running"}
SnapshotMatches(r) ==
  runWs[r] # None /\ wsCur[runWs[r]] = runCur[r] /\ wsNext[runWs[r]] = runNext[r]
RolesMatch(cur, nxt) == acct[cur] = "bound_current" /\ acct[nxt] = "bound_next"

\* Mutant: the end of the pending items.
IsEndOfPending(p) ==
  /\ \A r \in Runs : qState[r] = "pending" => qPos[r] < p
  /\ p = 0 \/ \E r \in Runs : qState[r] = "pending" /\ qPos[r] + 1 = p

\* Position after every pending or running item, from 0 for an empty queue.
IsEndOfQueue(p) ==
  /\ \A r \in Runs : Active(r) => qPos[r] < p
  /\ p = 0 \/ \E r \in Runs : Active(r) /\ qPos[r] + 1 = p

\* f numbers the runs in R without gaps, the first of them with base.
Numbers(f, R, base) ==
  \A r \in R : /\ f[r] >= base
               /\ \A s \in R : s # r => f[s] # f[r]
               /\ \A k \in base..f[r] : \E s \in R : f[s] = k

StatusFor(nxt) == IF nxt = None THEN "needs_account" ELSE "ready"

\* The unique indexes, the CHECK and the triggers on the account columns of
\* workspaces: an insert or update of w that breaks them aborts.
BindingAllowed(w, cur, nxt) ==
  /\ cur # nxt
  /\ \A v \in Workspaces \ {w} :
        {wsCur[v], wsNext[v]} \cap ({cur, nxt} \ {None}) = {}

Rebind(w, cur, nxt, status) ==
  /\ BindingAllowed(w, cur, nxt)
  /\ wsCur' = [wsCur EXCEPT ![w] = cur]
  /\ wsNext' = [wsNext EXCEPT ![w] = nxt]
  /\ wsStatus' = [wsStatus EXCEPT ![w] = status]

-----------------------------------------------------------------------------
(* Account selection (_resolve_account_selection_tx, _claim_replacement_   *)
(* account_tx, _allocate_alias_tx) over a status function st, the inactive *)
(* aliases off and the unusable mailboxes bad.                             *)

Usable(a, off, bad) == MailboxOf[a] \notin bad /\ (a \in Children => a \notin off)

\* The next alias number of each inventory mailbox that still has one.
Allocatable(st, bad) ==
  {a \in Accounts \ Children :
     /\ st[a] = "absent" /\ MailboxOf[a] \notin bad
     /\ \A b \in Accounts \ Children :
           st[b] = "absent" /\ MailboxOf[b] = MailboxOf[a] => AliasNo[a] <= AliasNo[b]}

LowestAlias(S) ==
  {a \in S : \A b \in S : MailboxOf[b] = MailboxOf[a] => AliasNo[a] <= AliasNo[b]}

OrElse(S, T) == IF S # {} THEN S ELSE T

\* The accounts _claim_replacement_account_tx may return: a child of the same
\* mailbox, a later alias of it, an account of another mailbox (inventory
\* first), a fresh alias (of the same mailbox first); None if nothing is left.
Replacements(st, off, bad, mailbox, aliasNo) ==
  LET free == {a \in Accounts : st[a] = "available" /\ Usable(a, off, bad)}
      fresh == Allocatable(st, bad)
  IN  OrElse({a \in free \cap Children : MailboxOf[a] = mailbox},
      OrElse(LowestAlias({a \in free \ Children :
                            MailboxOf[a] = mailbox /\ AliasNo[a] > aliasNo}),
      OrElse(LowestAlias({a \in free \ Children : MailboxOf[a] # mailbox}),
      OrElse({a \in free \cap Children : MailboxOf[a] # mailbox},
      OrElse({a \in fresh : MailboxOf[a] = mailbox},
      OrElse(fresh, {None}))))))

\* An account a user may name, or allocate from an inventory mailbox.
Selectable(a) ==
  IF a \in Children
    THEN acct[a] # "absent" /\ Usable(a, inactive, badMailbox) /\ a \notin used
    ELSE acct[a] # "absent" \/ a \in Allocatable(acct, badMailbox)

Unbound(a) == acct[a] \in {"available", "absent"}

\* _validate_workspace_icloud_group_tx
GroupAllowed(owner, S) ==
  /\ owner # None => owner \notin inactive
  /\ \A a \in S : IF a \in Children
                    THEN a \notin used /\ ParentOf[a] = owner
                    ELSE owner = None

-----------------------------------------------------------------------------
(* Accounts, aliases and mailboxes. *)

CreateAccount(a) ==
  /\ acct[a] = "absent"
  /\ \/ a \in Children /\ MailboxOf[a] \notin badMailbox
        /\ (ParentOf[a] # None => ParentOf[a] \notin inactive)
     \/ a \in Allocatable(acct, badMailbox)
  /\ acct' = [acct EXCEPT ![a] = "available"]
  /\ UNCHANGED <<used, inactive, badMailbox, wsVars, runState, runData, queueVars>>

ManualTransitions == [available |-> {"disabled", "retired"},
                      disabled |-> {"available", "retired"},
                      exited_pending |-> {"available", "retired"}]

TransitionAccountStatus(a, new) ==
  /\ acct[a] \in DOMAIN ManualTransitions
  /\ new \in ManualTransitions[acct[a]]
  /\ a \in used => new = "retired"
  /\ acct' = [acct EXCEPT ![a] = new]
  /\ UNCHANGED <<used, inactive, badMailbox, wsVars, runState, runData, queueVars>>

\* set_icloud_alias_state, and the remote state an alias import writes.
SetAliasState(x, active) ==
  /\ x \in Children => acct[x] # "absent"
  /\ inactive' = IF active THEN inactive \ {x} ELSE inactive \cup {x}
  /\ UNCHANGED <<acct, used, badMailbox, wsVars, runState, runData, queueVars>>

\* set_icloud_mailbox_status and set_mailbox_inventory_status
SetMailboxStatus(m, ok) ==
  /\ badMailbox' = IF ok THEN badMailbox \ {m} ELSE badMailbox \cup {m}
  /\ UNCHANGED <<acct, used, inactive, wsVars, runState, runData, queueVars>>

-----------------------------------------------------------------------------
(* Workspaces. *)

CreateWorkspace(w, cur, nxt, owner) ==
  LET S == {cur, nxt} \ {None}
  IN  /\ wsStatus[w] = "absent"
      /\ \A a \in S : Selectable(a) /\ Unbound(a)
      /\ GroupAllowed(owner, S)
      /\ \A v \in Workspaces : owner # None => wsOwner[v] # owner
      /\ Rebind(w, cur, nxt, StatusFor(nxt))
      /\ wsOwner' = [wsOwner EXCEPT ![w] = owner]
      /\ acct' = [a \in Accounts |-> CASE a = cur -> "bound_current"
                                       [] a = nxt -> "bound_next"
                                       [] OTHER   -> acct[a]]
      /\ UNCHANGED <<used, inactive, badMailbox, runState, runData, queueVars>>

\* The accounts already bound to w need not be available; the ones that leave
\* it are freed only if they are bound.
UpdateWorkspaceBindings(w, cur, nxt, owner) ==
  LET old == {wsCur[w], wsNext[w]} \ {None}
      new == {cur, nxt} \ {None}
  IN  /\ Idle(w)
      /\ \A a \in new : Selectable(a) /\ (a \notin old => Unbound(a))
      /\ GroupAllowed(owner, new)
      /\ \A v \in Workspaces \ {w} : owner # None => wsOwner[v] # owner
      /\ Rebind(w, cur, nxt, StatusFor(nxt))
      /\ wsOwner' = [wsOwner EXCEPT ![w] = owner]
      /\ acct' = [a \in Accounts |->
                    CASE a = cur -> "bound_current"
                      [] a = nxt -> "bound_next"
                      [] a \in old \ new /\ acct[a] \in {"bound_current", "bound_next"}
                           -> "available"
                      [] OTHER -> acct[a]]
      /\ UNCHANGED <<used, inactive, badMailbox, runState, runData, queueVars>>

\* The console has just created the remote alias of child a.
PrepareHandoff(w, a) ==
  LET cur == wsCur[w]
      owner == wsOwner[w]
  IN  /\ Idle(w) /\ wsNext[w] = None /\ owner # None /\ owner \notin inactive
      /\ cur \in Children /\ ParentOf[cur] = owner
      /\ cur \notin used \cup inactive
      /\ a \in Children /\ acct[a] = "absent" /\ ParentOf[a] = owner
      /\ MailboxOf[owner] \notin badMailbox
      /\ Rebind(w, cur, a, "ready")
      /\ acct' = [acct EXCEPT ![a] = "bound_next"]
      /\ UNCHANGED <<used, inactive, badMailbox, wsOwner, runState, runData, queueVars>>

\* The rotation that complete_run_and_rotate and advance_workspace_accounts
\* share: the next account becomes current, the old one leaves.
RotationAllowed(w) ==
  LET old == wsCur[w]
      new == wsNext[w]
      owner == wsOwner[w]
  IN  /\ new # None /\ RolesMatch(old, new)
      /\ owner # None => /\ {old, new} \subseteq Children \ used
                         /\ ParentOf[old] = owner /\ ParentOf[new] = owner

\* Mutants: the old account is not released; it is released for reuse.
RotatedKeepingOld(w) == [acct EXCEPT ![wsNext[w]] = "bound_current"]
RotatedForReuse(w) ==
  [acct EXCEPT ![wsCur[w]] = "exited_pending", ![wsNext[w]] = "bound_current"]

Rotated(w) == [acct EXCEPT
                 ![wsCur[w]] = IF wsOwner[w] = None THEN "exited_pending" ELSE "retired",
                 ![wsNext[w]] = "bound_current"]

\* Owner workspaces get no next account: it is created for the next handoff.
RotationNexts(w) ==
  IF wsOwner[w] # None THEN {None}
  ELSE Replacements(Rotated(w), inactive, badMailbox,
                    MailboxOf[wsNext[w]], AliasNo[wsNext[w]])

Rotate(w) ==
  /\ RotationAllowed(w)
  /\ used' = IF wsOwner[w] = None THEN used ELSE used \cup {wsCur[w]}
  /\ \E nxt \in RotationNexts(w) :
       /\ acct' = IF nxt = None THEN Rotated(w)
                  ELSE [Rotated(w) EXCEPT ![nxt] = "bound_next"]
       /\ Rebind(w, wsNext[w], nxt, StatusFor(nxt))
  /\ UNCHANGED <<inactive, badMailbox, wsOwner>>

AdvanceWorkspaceAccounts(w) ==
  /\ Idle(w)
  /\ Rotate(w)
  /\ UNCHANGED <<runState, runData, queueVars>>

\* _replace_workspace_account_tx without its last UPDATE of the status.
ReplaceAccount(w, role, code, allowMissing) ==
  LET target == IF role = "current" THEN wsCur[w] ELSE wsNext[w]
      mailboxLost == code = "mailbox_credentials_invalid"
      off == IF code = "alias_disabled" /\ target \in Children
               THEN inactive \cup {target} ELSE inactive
      bad == IF mailboxLost THEN badMailbox \cup {MailboxOf[target]} ELSE badMailbox
      nextLost == /\ role = "current" /\ wsNext[w] # None /\ mailboxLost
                  /\ MailboxOf[wsNext[w]] = MailboxOf[target]
      lost == {target} \cup (IF nextLost THEN {wsNext[w]} ELSE {})
      st == [a \in Accounts |-> IF a \in lost THEN "disabled" ELSE acct[a]]
      promoted == IF role = "next" THEN {wsCur[w]}
                  ELSE IF wsNext[w] # None /\ ~nextLost THEN {wsNext[w]}
                  ELSE Replacements(st, off, bad, None, 0)
      Settle(cur, nxt, st2) ==
        /\ acct' = IF nxt = None THEN st2 ELSE [st2 EXCEPT ![nxt] = "bound_next"]
        /\ Rebind(w, cur, nxt, StatusFor(nxt))
  IN  /\ target # None
      /\ inactive' = off /\ badMailbox' = bad
      /\ \E cur \in promoted :
           \/ /\ cur = None /\ allowMissing
              /\ Settle(target, None, st)
           \/ /\ cur # None
              /\ LET st2 == IF role = "current"
                              THEN [st EXCEPT ![cur] = "bound_current"] ELSE st
                 IN \E nxt \in Replacements(st2, off, bad, MailboxOf[cur], AliasNo[cur]) :
                       Settle(cur, nxt, st2)
      /\ UNCHANGED <<used, wsOwner>>

ReplaceWorkspaceAccount(w, role, code) ==
  /\ Idle(w)
  /\ ReplaceAccount(w, role, code, FALSE)
  /\ UNCHANGED <<runState, runData, queueVars>>

-----------------------------------------------------------------------------
(* Runs and the queue. *)

\* One call enqueues a list: fresh run ids R, their workspaces and positions.
Enqueue(R, of, pos, kind) ==
  /\ R # {}
  /\ \A r \in R :
       LET w == of[r] IN
       /\ runState[r] = "absent"
       /\ \A s \in R : s # r => of[s] # w
       /\ wsStatus[w] \in (IF kind = "rescue" THEN {"ready", "failed"} ELSE {"ready"})
       /\ wsNext[w] # None
       /\ \A s \in Runs : ~ActiveRunOf(w, s)
       /\ RolesMatch(wsCur[w], wsNext[w])
       /\ kind = "rescue" => wsOwner[w] # None
       /\ wsOwner[w] # None => GroupAllowed(wsOwner[w], {wsCur[w], wsNext[w]})
  /\ \E base \in 0..MaxPos : IsEndOfQueue(base) /\ Numbers(pos, R, base)
  /\ runState' = [r \in Runs |-> IF r \in R THEN "queued" ELSE runState[r]]
  /\ runWs' = [r \in Runs |-> IF r \in R THEN of[r] ELSE runWs[r]]
  /\ runCur' = [r \in Runs |-> IF r \in R THEN wsCur[of[r]] ELSE runCur[r]]
  /\ runNext' = [r \in Runs |-> IF r \in R THEN wsNext[of[r]] ELSE runNext[r]]
  /\ runKind' = [r \in Runs |-> IF r \in R THEN kind ELSE runKind[r]]
  /\ qState' = [r \in Runs |-> IF r \in R THEN "pending" ELSE qState[r]]
  /\ qPos' = [r \in Runs |-> IF r \in R THEN pos[r] ELSE qPos[r]]
  /\ wsStatus' = [w \in Workspaces |->
                    IF \E r \in R : of[r] = w THEN "queued" ELSE wsStatus[w]]
  /\ UNCHANGED <<poolVars, wsCur, wsNext, wsOwner, paused>>

SetQueuePaused(value) ==
  /\ paused' = value
  /\ UNCHANGED <<poolVars, wsVars, runState, runData, qState, qPos>>

Claimable(r) ==
  /\ qState[r] = "pending" /\ runState[r] = "queued"
  /\ wsStatus[runWs[r]] = "queued"

\* Mutant: the query that claims an item has lost its ORDER BY.
ClaimAny(r) ==
  /\ ~paused /\ Claimable(r)
  /\ \A s \in Runs : qState[s] # "running"
  /\ qState' = [qState EXCEPT ![r] = "running"]
  /\ runState' = [runState EXCEPT ![r] = "running"]
  /\ wsStatus' = [wsStatus EXCEPT ![runWs[r]] = "running"]
  /\ UNCHANGED <<poolVars, wsCur, wsNext, wsOwner, runData, qPos, paused>>

ClaimNext(r) ==
  /\ ~paused
  /\ \A s \in Runs : qState[s] # "running"
  /\ Claimable(r)
  /\ \A s \in Runs : Claimable(s) => qPos[r] <= qPos[s]
  /\ qState' = [qState EXCEPT ![r] = "running"]
  /\ runState' = [runState EXCEPT ![r] = "running"]
  /\ wsStatus' = [wsStatus EXCEPT ![runWs[r]] = "running"]
  /\ UNCHANGED <<poolVars, wsCur, wsNext, wsOwner, runData, qPos, paused>>

\* pos gives every pending item its new place, after the running item if any.
ReorderQueue(pos) ==
  LET pending == {r \in Runs : qState[r] = "pending"}
  IN  /\ \E base \in 0..(MaxPos + 1) :
           /\ IF \E s \in Runs : qState[s] = "running"
                THEN \E s \in Runs : qState[s] = "running" /\ base = qPos[s] + 1
                ELSE base = 0
           /\ Numbers(pos, pending, base)
      /\ qPos' = [r \in Runs |-> IF r \in pending THEN pos[r] ELSE qPos[r]]
      /\ UNCHANGED <<poolVars, wsVars, runState, runData, qState, paused>>

\* Mutants: the queue item, or the workspace, is forgotten.
FinishWithoutItem(r, run, queue, status) ==
  /\ runState' = [runState EXCEPT ![r] = run]
  /\ wsStatus' = [wsStatus EXCEPT ![runWs[r]] = status]
  /\ UNCHANGED qState
FinishWithoutWorkspace(r, run, queue, status) ==
  /\ runState' = [runState EXCEPT ![r] = run]
  /\ qState' = [qState EXCEPT ![r] = queue]
  /\ UNCHANGED wsStatus

\* Run r leaves the queue for good, or until it is retried.
Finish(r, run, queue, status) ==
  /\ runState' = [runState EXCEPT ![r] = run]
  /\ qState' = [qState EXCEPT ![r] = queue]
  /\ wsStatus' = [wsStatus EXCEPT ![runWs[r]] = status]

RequestStop(r) ==
  /\ \/ /\ runState[r] = "queued" /\ qState[r] = "pending"
        /\ Finish(r, "cancelled", "cancelled", "ready")
     \/ /\ runState[r] = "running"
        /\ runState' = [runState EXCEPT ![r] = "stopping"]
        /\ UNCHANGED <<qState, wsStatus>>
  /\ UNCHANGED <<poolVars, wsCur, wsNext, wsOwner, runData, qPos, paused>>

\* UPDATE queue_items ... WHERE state = 'running'
MarkRunCancelled(r) ==
  /\ Executing(r)
  /\ Finish(r, "cancelled", IF qState[r] = "running" THEN "cancelled" ELSE qState[r],
            "ready")
  /\ UNCHANGED <<poolVars, wsCur, wsNext, wsOwner, runData, qPos, paused>>

FailRun(r) ==
  /\ Executing(r)
  /\ Finish(r, "failed", IF qState[r] = "running" THEN "failed" ELSE qState[r],
            "failed")
  /\ UNCHANGED <<poolVars, wsCur, wsNext, wsOwner, runData, qPos, paused>>

\* Mutant: a run that was being stopped is not recovered.
RecoverRunningOnly ==
  LET lost == {r \in Runs : runState[r] = "running" /\ qState[r] = "running"}
  IN  /\ runState' = [r \in Runs |-> IF r \in lost THEN "queued" ELSE runState[r]]
      /\ qState' = [r \in Runs |-> IF r \in lost THEN "pending" ELSE qState[r]]
      /\ wsStatus' = [w \in Workspaces |->
                        IF \E r \in lost : runWs[r] = w THEN "queued" ELSE wsStatus[w]]
      /\ UNCHANGED <<poolVars, wsCur, wsNext, wsOwner, runData, qPos, paused>>

RecoverInterruptedRuns ==
  LET lost == {r \in Runs : Executing(r) /\ qState[r] = "running"}
  IN  /\ runState' = [r \in Runs |-> IF r \in lost THEN "queued" ELSE runState[r]]
      /\ qState' = [r \in Runs |-> IF r \in lost THEN "pending" ELSE qState[r]]
      /\ wsStatus' = [w \in Workspaces |->
                        IF \E r \in lost : runWs[r] = w THEN "queued" ELSE wsStatus[w]]
      /\ UNCHANGED <<poolVars, wsCur, wsNext, wsOwner, runData, qPos, paused>>

\* Mutant: the bindings of the workspace are not compared.
RetryAnyBindings(r) ==
  /\ runState[r] = "failed" /\ qState[r] = "failed"
  /\ \A s \in Runs : ~ActiveRunOf(runWs[r], s)
  /\ \E p \in 0..MaxPos : IsEndOfQueue(p) /\ qPos' = [qPos EXCEPT ![r] = p]
  /\ Finish(r, "queued", "pending", "queued")
  /\ UNCHANGED <<poolVars, wsCur, wsNext, wsOwner, runData, paused>>

RetryRun(r) ==
  /\ runState[r] = "failed" /\ qState[r] = "failed"
  /\ SnapshotMatches(r)
  /\ \A s \in Runs : ~ActiveRunOf(runWs[r], s)
  /\ \E p \in 0..MaxPos : IsEndOfQueue(p) /\ qPos' = [qPos EXCEPT ![r] = p]
  /\ Finish(r, "queued", "pending", "queued")
  /\ UNCHANGED <<poolVars, wsCur, wsNext, wsOwner, runData, paused>>

Completable(r) ==
  /\ Executing(r) /\ qState[r] = "running"
  /\ SnapshotMatches(r)
  /\ wsOwner[runWs[r]] \notin inactive

\* Mutant: the state of the run is written into the item too.
CompleteItemAsRun(r) ==
  /\ Completable(r)
  /\ Rotate(runWs[r])
  /\ runState' = [runState EXCEPT ![r] = "succeeded"]
  /\ qState' = [qState EXCEPT ![r] = "succeeded"]
  /\ UNCHANGED <<runData, qPos, paused>>

CompleteRunAndRotate(r) ==
  /\ Completable(r)
  /\ Rotate(runWs[r])
  /\ runState' = [runState EXCEPT ![r] = "succeeded"]
  /\ qState' = [qState EXCEPT ![r] = "completed"]
  /\ UNCHANGED <<runData, qPos, paused>>

\* complete_run_and_rotate raises: a guard fails, or the account the query
\* picks is still bound to another workspace and the trigger aborts.
CompletionRefused(r) ==
  \/ ~Completable(r)
  \/ ~RotationAllowed(runWs[r])
  \/ \E nxt \in RotationNexts(runWs[r]) :
       ~BindingAllowed(runWs[r], wsNext[runWs[r]], nxt)

FailRunAndReplaceAccount(r, role, code) ==
  /\ Executing(r) /\ qState[r] = "running"
  /\ SnapshotMatches(r)
  /\ ReplaceAccount(runWs[r], role, code, TRUE)
  /\ runState' = [runState EXCEPT ![r] = "failed"]
  /\ qState' = [qState EXCEPT ![r] = "failed"]
  /\ UNCHANGED <<runData, qPos, paused>>

-----------------------------------------------------------------------------
PoolNext ==
  \/ \E a \in Accounts : CreateAccount(a)
  \/ \E a \in Accounts, s \in AccountStates : TransitionAccountStatus(a, s)
  \/ \E x \in Children \cup Owners, b \in BOOLEAN : SetAliasState(x, b)
  \/ \E m \in Mailboxes, b \in BOOLEAN : SetMailboxStatus(m, b)

WorkspaceNext ==
  \E w \in Workspaces :
    \/ \E cur \in Accounts, nxt \in Accounts \cup {None}, o \in Owners \cup {None} :
         CreateWorkspace(w, cur, nxt, o) \/ UpdateWorkspaceBindings(w, cur, nxt, o)
    \/ \E a \in Accounts : PrepareHandoff(w, a)
    \/ AdvanceWorkspaceAccounts(w)
    \/ \E role \in {"current", "next"}, c \in FailureCodes :
         ReplaceWorkspaceAccount(w, role, c)

UserQueueNext ==
  \/ \E R \in SUBSET Runs, kind \in {"handoff", "rescue"} :
       \E of \in [R -> Workspaces], pos \in [R -> 0..MaxPos] : Enqueue(R, of, pos, kind)
  \/ \E b \in BOOLEAN : SetQueuePaused(b)
  \/ \E pos \in [{r \in Runs : qState[r] = "pending"} -> 0..MaxPos] : ReorderQueue(pos)
  \/ \E r \in Runs : RequestStop(r) \/ RetryRun(r)

WorkerNext ==
  \/ RecoverInterruptedRuns
  \/ \E r \in Runs : \/ ClaimNext(r)
                     \/ MarkRunCancelled(r)
                     \/ FailRun(r)
                     \/ CompleteRunAndRotate(r)
                     \/ \E role \in {"current", "next"}, c \in FailureCodes :
                          FailRunAndReplaceAccount(r, role, c)

Next == PoolNext \/ WorkspaceNext \/ UserQueueNext \/ WorkerNext

Spec == Init /\ [][Next]_vars
-----------------------------------------------------------------------------
(* Properties. *)

\* The states of a run and of its queue item always go together, and a row
\* exists in both tables or in neither: no crash, stop, failure or retry
\* leaves a terminal run in the queue or an active run out of it.
RunAndItemAgree ==
  \A r \in Runs : <<runState[r], qState[r]>> \in
     {<<"absent", "absent">>, <<"queued", "pending">>, <<"running", "running">>,
      <<"stopping", "running">>, <<"succeeded", "completed">>,
      <<"failed", "failed">>, <<"cancelled", "cancelled">>}

\* A workspace is queued or running exactly while one of its runs is, and it
\* never has two: the guards of enqueue and retry count the item, those of
\* the binding updates read the workspace status, and they must not diverge.
WorkspaceAgreesWithRun ==
  \A w \in Workspaces :
    /\ wsStatus[w] = "queued" <=> \E r \in Runs : runWs[r] = w /\ runState[r] = "queued"
    /\ wsStatus[w] = "running" <=> \E r \in Runs : runWs[r] = w /\ Executing(r)
    /\ \A r, s \in Runs : ActiveRunOf(w, r) /\ ActiveRunOf(w, s) => r = s

\* The bindings an active run was queued with are still those of its
\* workspace, and nothing a user does while it waits or executes can change
\* the roles of its accounts.  The current account of an owner workspace is
\* the exception: retry_run, unlike enqueue, does not look at the roles, and a
\* run that failed for want of a current account can be retried once its next
\* account has come back.
ActiveRunOwnsItsBindings ==
  \A r \in Runs : Active(r) =>
    /\ runWs[r] # None /\ SnapshotMatches(r)
    /\ runCur[r] # None /\ runNext[r] # None
    /\ acct[runNext[r]] = "bound_next"
    /\ wsOwner[runWs[r]] = None => acct[runCur[r]] = "bound_current"

\* What the unique indexes on queue_items demand, kept by the position
\* arithmetic of enqueue, retry, reorder and recovery alone; moreover the
\* running item stays ahead of every pending one, so that an interrupted run
\* is the first to be claimed again.
QueueOrder ==
  \A r, s \in Runs : Active(r) /\ Active(s) /\ r # s =>
    /\ qPos[r] # qPos[s]
    /\ qState[r] = "running" => qState[s] = "pending" /\ qPos[r] < qPos[s]

Bound(a) == acct[a] \in {"bound_current", "bound_next"}

\* No account leaks out of the pool: an account marked bound is held in that
\* role by one workspace, a next account is always marked so, and a workspace
\* keeps a current account that is not only after a replacement found none
\* (then its run has failed and it waits, or waited, for a next account).
BindingsAndStatusesAgree ==
  /\ \A a \in Accounts :
       /\ acct[a] = "bound_current" => \E w \in Workspaces : wsCur[w] = a
       /\ acct[a] = "bound_next" => \E w \in Workspaces : wsNext[w] = a
  /\ \A w \in Workspaces :
       /\ wsNext[w] # None => acct[wsNext[w]] = "bound_next"
       /\ wsCur[w] # None => acct[wsCur[w]] \in
            {"bound_current", "disabled", "available", "retired"}
       /\ wsStatus[w] = "ready" /\ wsOwner[w] = None => RolesMatch(wsCur[w], wsNext[w])
       /\ \A v \in Workspaces \ {w} :
            {wsCur[w], wsNext[w]} \cap {wsCur[v], wsNext[v]} \subseteq {None}

\* A child that has been used up never comes back: it is retired, no
\* workspace holds it, and no later operation can make it a candidate.
UsedChildrenStayOut ==
  \A a \in used : acct[a] = "retired"
                  /\ \A w \in Workspaces : a \notin {wsCur[w], wsNext[w]}

\* The accounts run r was queued with are unused children of the owner of its
\* workspace, where that has one.
CarriesItsGroup(r) ==
  wsOwner[runWs[r]] # None =>
    \A a \in {runCur[r], runNext[r]} :
      a \in Children \ used /\ ParentOf[a] = wsOwner[runWs[r]]

\* Whatever users, replacements and rotations do while a run waits or executes,
\* it keeps its accounts, in roles it can work with, and none of them is used up.
ActiveRunKeepsItsAccounts ==
  /\ ActiveRunOwnsItsBindings
  /\ \A r \in Runs : Active(r) => {runCur[r], runNext[r]} \cap used = {}

\* A child is used up only in the step that promotes its successor, and, if
\* a run is executing in its workspace, in the step in which it succeeds:
\* failure, cancellation and recovery never burn the old child.
UsedOnlyByRotation ==
  [][\A a \in used' \ used : \E w \in Workspaces :
       /\ wsCur[w] = a /\ wsCur'[w] = wsNext[w]
       /\ \A r \in Runs : ActiveRunOf(w, r) =>
             runState[r] # "queued" /\ runState'[r] = "succeeded"]_vars

\* The life of a run.  Succeeded and cancelled are final, its identity is
\* frozen, a run goes back to queued only from failed (with the bindings of
\* its snapshot) or by recovery of an executing one, the bindings of its
\* workspace cannot change under it unless the step ends it, and nothing but
\* a retry makes it a run of an owner workspace without that owner's children.
RunLifecycle ==
  [][\A r \in Runs :
       /\ runState[r] \in {"succeeded", "cancelled"} => runState'[r] = runState[r]
       /\ runState[r] # "absent" =>
            <<runWs'[r], runCur'[r], runNext'[r], runKind'[r]>>
              = <<runWs[r], runCur[r], runNext[r], runKind[r]>>
       /\ runState'[r] = "queued" /\ runState[r] # "queued" =>
            \/ runState[r] = "absent"
            \/ Executing(r)
            \/ runState[r] = "failed" /\ SnapshotMatches(r)
       /\ Active(r) /\ Active(r)' =>
            wsCur'[runWs[r]] = wsCur[runWs[r]] /\ wsNext'[runWs[r]] = wsNext[runWs[r]]
       /\ Active(r)' /\ ~CarriesItsGroup(r)' =>
            runState[r] = "failed" \/ (Active(r) /\ ~CarriesItsGroup(r))]_vars

=============================================================================

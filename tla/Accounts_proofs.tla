---------------------------- MODULE Accounts_proofs ----------------------------
(***************************************************************************)
(* Proofs about the account pool behind the tables of ConsoleDb: who holds *)
(* an account, what becomes of a child that is used up, and what an active *)
(* run can rely on, for any number of accounts, workspaces and runs.       *)
(***************************************************************************)
EXTENDS ConsoleDb_proofs

(***************************************************************************)
(* The invariant.  BindingsAndStatusesAgree is not inductive alone: that a *)
(* workspace in state ready has both roles filled depends on what a        *)
(* replacement may leave behind, and a workspace without an owner has a    *)
(* next account only together with a working current one.                  *)
(***************************************************************************)
WorkspaceRows ==
  \A w \in Workspaces :
    /\ wsStatus[w] = "absent" <=> wsCur[w] = None
    /\ wsCur[w] = None => wsNext[w] = None
    /\ wsStatus[w] = "ready" => wsNext[w] # None
    /\ wsNext[w] # None /\ wsOwner[w] = None => acct[wsCur[w]] = "bound_current"

RunRows ==
  \A r \in Runs : runState[r] # "absent" => runCur[r] # None /\ runNext[r] # None

Pool == BindingsAndStatusesAgree /\ UsedChildrenStayOut /\ WorkspaceRows

PoolInv == Agree /\ Pool /\ RunRows /\ ActiveRunKeepsItsAccounts

KeptCurrent == {"bound_current", "disabled", "available", "retired"}

(***************************************************************************)
(* What a step that binds cur and nxt to workspace w does: every operation *)
(* on the bindings is one of these.                                        *)
(***************************************************************************)
Regroups(w, cur, nxt, status, owner) ==
  /\ BindingAllowed(w, cur, nxt)
  /\ wsCur' = [wsCur EXCEPT ![w] = cur]
  /\ wsNext' = [wsNext EXCEPT ![w] = nxt]
  /\ wsStatus' = [wsStatus EXCEPT ![w] = status]
  /\ wsOwner' = [wsOwner EXCEPT ![w] = owner]
  /\ status \in {"ready", "needs_account"} /\ (status = "ready" => nxt # None)
  /\ {cur, nxt} \cap used = {}
  /\ used \subseteq used'
  /\ \A a \in used' \ used : a = wsCur[w] /\ a \notin {cur, nxt} /\ acct'[a] = "retired"
  /\ acct'[cur] \in KeptCurrent
  /\ nxt # None => acct'[nxt] = "bound_next"
  /\ nxt # None /\ owner = None => acct'[cur] = "bound_current"
  /\ \A a \in Accounts \ {cur, nxt} :
        IF a \in {wsCur[w], wsNext[w]} THEN ~Bound(a)' ELSE acct'[a] = acct[a]

Undisturbed(v, w, cur, nxt) ==
  /\ wsCur'[v] = wsCur[v] /\ wsNext'[v] = wsNext[v]
  /\ wsStatus'[v] = wsStatus[v] /\ wsOwner'[v] = wsOwner[v]
  /\ \A a \in {wsCur[v], wsNext[v]} \ {None} :
       a \notin {cur, nxt, wsCur[w], wsNext[w]} /\ acct'[a] = acct[a]

\* Such a step does not touch what another workspace holds.
LEMMA OthersKeep ==
  ASSUME Pool, TypeOK, NEW w \in Workspaces, NEW cur \in Accounts,
         NEW nxt \in Accounts \cup {None}, NEW status, NEW owner,
         Regroups(w, cur, nxt, status, owner), NEW v \in Workspaces, v # w
  PROVE  Undisturbed(v, w, cur, nxt)
<1>1. /\ wsCur'[v] = wsCur[v] /\ wsNext'[v] = wsNext[v]
      /\ wsStatus'[v] = wsStatus[v] /\ wsOwner'[v] = wsOwner[v]
  BY DEF Regroups, TypeOK
<1>2. ASSUME NEW a \in {wsCur[v], wsNext[v]} \ {None}
      PROVE  a \notin {cur, nxt, wsCur[w], wsNext[w]} /\ a \in Accounts
  <2>1. a \in Accounts
    BY <1>2 DEF TypeOK
  <2>2. a \notin {cur, nxt}
    BY <1>2 DEF Regroups, BindingAllowed
  <2>3. {wsCur[w], wsNext[w]} \cap {wsCur[v], wsNext[v]} \subseteq {None}
    BY DEF Pool, BindingsAndStatusesAgree
  <2> QED
    BY <1>2, <2>1, <2>2, <2>3
<1> QED
  BY <1>1, <1>2 DEF Regroups, Undisturbed

LEMMA RegroupPool ==
  ASSUME Pool, TypeOK, TypeOK', NEW w \in Workspaces, NEW cur \in Accounts,
         NEW nxt \in Accounts \cup {None}, NEW status, NEW owner,
         Regroups(w, cur, nxt, status, owner)
  PROVE  Pool'
<1>1. /\ wsCur'[w] = cur /\ wsNext'[w] = nxt /\ wsStatus'[w] = status /\ wsOwner'[w] = owner
      /\ cur # None /\ cur # nxt
  BY IdsAssumption DEF Regroups, TypeOK, BindingAllowed
<1>2. \A v \in Workspaces \ {w} :
         /\ wsCur'[v] = wsCur[v] /\ wsNext'[v] = wsNext[v]
         /\ wsStatus'[v] = wsStatus[v] /\ wsOwner'[v] = wsOwner[v]
         /\ \A a \in {wsCur[v], wsNext[v]} \ {None} :
              a \notin {cur, nxt, wsCur[w], wsNext[w]} /\ acct'[a] = acct[a]
  BY OthersKeep DEF Undisturbed
<1>3. ASSUME NEW v \in Workspaces
      PROVE  /\ wsStatus'[v] = "absent" <=> wsCur'[v] = None
             /\ wsCur'[v] = None => wsNext'[v] = None
             /\ wsStatus'[v] = "ready" => wsNext'[v] # None
             /\ wsNext'[v] # None /\ wsOwner'[v] = None => acct'[wsCur'[v]] = "bound_current"
             /\ wsNext'[v] # None => acct'[wsNext'[v]] = "bound_next"
             /\ wsCur'[v] # None => acct'[wsCur'[v]] \in KeptCurrent
  <2>1. CASE v = w
    BY <1>1, <2>1 DEF Regroups
  <2>2. CASE v # w
    BY <1>2, <2>2 DEF Pool, WorkspaceRows, BindingsAndStatusesAgree, KeptCurrent
  <2> QED
    BY <2>1, <2>2
<1>4. WorkspaceRows'
  BY <1>3 DEF WorkspaceRows
<1>5. ASSUME NEW a \in Accounts
      PROVE  /\ acct'[a] = "bound_current" => \E v \in Workspaces : wsCur'[v] = a
             /\ acct'[a] = "bound_next" => \E v \in Workspaces : wsNext'[v] = a
  <2>1. CASE a \in {cur, nxt}
    BY <1>1, <2>1, IdsAssumption DEF Regroups, KeptCurrent
  <2>2. CASE a \notin {cur, nxt} /\ a \in {wsCur[w], wsNext[w]}
    BY <2>2 DEF Regroups, Bound
  <2>3. CASE a \notin {cur, nxt} /\ a \notin {wsCur[w], wsNext[w]}
    BY <1>2, <2>3 DEF Regroups, Pool, BindingsAndStatusesAgree
  <2> QED
    BY <2>1, <2>2, <2>3
<1>6. ASSUME NEW u \in Workspaces, NEW v \in Workspaces \ {u}
      PROVE  {wsCur'[u], wsNext'[u]} \cap {wsCur'[v], wsNext'[v]} \subseteq {None}
  BY <1>1, <1>2 DEF Pool, BindingsAndStatusesAgree
<1>7. BindingsAndStatusesAgree'
  BY <1>3, <1>5, <1>6 DEF BindingsAndStatusesAgree, KeptCurrent, RolesMatch
<1>8. UsedChildrenStayOut'
  <2> SUFFICES ASSUME NEW a \in used'
               PROVE  /\ acct'[a] = "retired"
                      /\ \A v \in Workspaces : a \notin {wsCur'[v], wsNext'[v]}
    BY DEF UsedChildrenStayOut
  <2>1. a \in Accounts /\ a # None
    BY AccountsAssumption, IdsAssumption DEF TypeOK
  <2>2. CASE a \in used
    <3>1. acct[a] = "retired" /\ \A v \in Workspaces : a \notin {wsCur[v], wsNext[v]}
      BY <2>2 DEF Pool, UsedChildrenStayOut
    <3> QED
      BY <1>1, <1>2, <2>1, <2>2, <3>1 DEF Regroups
  <2>3. CASE a \notin used
    BY <1>1, <1>2, <2>1, <2>3 DEF Regroups
  <2> QED
    BY <2>2, <2>3
<1> QED
  BY <1>4, <1>7, <1>8 DEF Pool

\* No run enters the queue, and none of workspace w remains there.
OthersRun(w) ==
  /\ UNCHANGED runData
  /\ \A r \in Runs : /\ Active(r)' => Active(r) /\ runWs[r] # w
                     /\ runState'[r] # "absent" => runState[r] # "absent"

\* The runs that stay active in such a step belong to other workspaces and
\* keep what they rely on.
LEMMA RegroupRuns ==
  ASSUME PoolInv, TypeOK', NEW w \in Workspaces, NEW cur \in Accounts,
         NEW nxt \in Accounts \cup {None}, NEW status, NEW owner,
         Regroups(w, cur, nxt, status, owner), OthersRun(w)
  PROVE  RunRows' /\ ActiveRunKeepsItsAccounts'
<1>1. RunRows'
  BY DEF PoolInv, RunRows, runData, OthersRun
<1>2. ASSUME NEW r \in Runs, Active(r)'
      PROVE  /\ runWs'[r] # None /\ SnapshotMatches(r)'
             /\ runCur'[r] # None /\ runNext'[r] # None
             /\ acct'[runNext'[r]] = "bound_next"
             /\ wsOwner'[runWs'[r]] = None => acct'[runCur'[r]] = "bound_current"
             /\ {runCur'[r], runNext'[r]} \cap used' = {}
  <2>1. Active(r) /\ runWs[r] # w /\ UNCHANGED <<runWs, runCur, runNext>>
    BY <1>2 DEF OthersRun, runData
  <2>2. /\ runWs[r] # None /\ SnapshotMatches(r)
        /\ runCur[r] # None /\ runNext[r] # None
        /\ acct[runNext[r]] = "bound_next"
        /\ wsOwner[runWs[r]] = None => acct[runCur[r]] = "bound_current"
        /\ {runCur[r], runNext[r]} \cap used = {}
    BY <2>1 DEF PoolInv, ActiveRunKeepsItsAccounts, ActiveRunOwnsItsBindings
  <2>3. runWs[r] \in Workspaces
    BY <2>2 DEF PoolInv, Agree, TypeOK
  <2> DEFINE v == runWs[r]
  <2>4. /\ wsCur'[v] = wsCur[v] /\ wsNext'[v] = wsNext[v] /\ wsOwner'[v] = wsOwner[v]
        /\ \A a \in {wsCur[v], wsNext[v]} \ {None} :
             a \notin {cur, nxt, wsCur[w], wsNext[w]} /\ acct'[a] = acct[a]
    <3>1. Pool /\ TypeOK
      BY DEF PoolInv, Agree
    <3>2. Undisturbed(runWs[r], w, cur, nxt)
      BY <2>1, <2>3, <3>1, OthersKeep
    <3> QED
      BY <3>2 DEF Undisturbed
  <2>5. wsCur[v] = runCur[r] /\ wsNext[v] = runNext[r]
    BY <2>2 DEF SnapshotMatches
  <2>6. ASSUME NEW a \in {runCur[r], runNext[r]}
        PROVE  a \notin used'
    <3>1. a \in {wsCur[v], wsNext[v]} \ {None} /\ a \notin used
      BY <2>2, <2>5, <2>6
    <3>2. a # wsCur[w]
      BY <2>4, <3>1
    <3> QED
      BY <3>1, <3>2 DEF Regroups
  <2> QED
    BY <2>1, <2>2, <2>4, <2>5, <2>6 DEF SnapshotMatches
<1> QED
  BY <1>1, <1>2 DEF ActiveRunKeepsItsAccounts, ActiveRunOwnsItsBindings

\* An idle workspace has no active run.
LEMMA IdleHasNoRun ==
  ASSUME Agree, NEW w \in Workspaces, Idle(w) \/ wsStatus[w] = "absent",
         NEW r \in Runs, Active(r)
  PROVE  runWs[r] # w
BY DEF Agree, RunAndItemAgree, WorkspaceAgreesWithRun, Executing, Active, Idle

(***************************************************************************)
(* Selecting an account returns one that nobody holds.                     *)
(***************************************************************************)
LEMMA ReplacementsFree ==
  ASSUME NEW st, NEW off, NEW bad, NEW mailbox, NEW aliasNo,
         NEW a \in Replacements(st, off, bad, mailbox, aliasNo)
  PROVE  a = None \/ (a \in Accounts /\ st[a] \in {"available", "absent"})
BY DEF Replacements, OrElse, LowestAlias, Allocatable

\* Whoever is neither bound nor retired is not used up.
LEMMA FreeIsUnused ==
  ASSUME Pool, NEW a, a \in used
  PROVE  acct[a] = "retired" /\ \A w \in Workspaces : a \notin {wsCur[w], wsNext[w]}
BY DEF Pool, UsedChildrenStayOut

(***************************************************************************)
(* The operations on the bindings.                                         *)
(***************************************************************************)
LEMMA CreateRegroups ==
  ASSUME PoolInv, NEW w \in Workspaces, NEW cur \in Accounts,
         NEW nxt \in Accounts \cup {None}, NEW o \in Owners \cup {None},
         CreateWorkspace(w, cur, nxt, o)
  PROVE  Regroups(w, cur, nxt, StatusFor(nxt), o)
<1>1. cur # None /\ None \notin used /\ used \subseteq Children
  BY IdsAssumption, AccountsAssumption DEF PoolInv, Agree, TypeOK
<1>2. {cur, nxt} \cap used = {}
  BY <1>1 DEF CreateWorkspace, Selectable
<1>3. BindingAllowed(w, cur, nxt) /\ cur # nxt
  BY DEF CreateWorkspace, Rebind, BindingAllowed
<1>4. wsCur[w] = None /\ wsNext[w] = None
  BY DEF CreateWorkspace, PoolInv, Pool, WorkspaceRows
<1>5. /\ acct'[cur] = "bound_current" /\ (nxt # None => acct'[nxt] = "bound_next")
      /\ \A a \in Accounts \ {cur, nxt} : acct'[a] = acct[a]
  BY <1>1, <1>3 DEF CreateWorkspace
<1>6. used' = used
  BY DEF CreateWorkspace
<1>7. \A a \in Accounts : a \notin {wsCur[w], wsNext[w]}
  BY <1>4, IdsAssumption
<1>8. /\ wsCur' = [wsCur EXCEPT ![w] = cur] /\ wsNext' = [wsNext EXCEPT ![w] = nxt]
      /\ wsStatus' = [wsStatus EXCEPT ![w] = StatusFor(nxt)]
      /\ wsOwner' = [wsOwner EXCEPT ![w] = o]
  <2>1. Rebind(w, cur, nxt, StatusFor(nxt)) /\ wsOwner' = [wsOwner EXCEPT ![w] = o]
    BY DEF CreateWorkspace
  <2> QED
    BY <2>1 DEF Rebind
<1>9. acct'[cur] \in KeptCurrent
  BY <1>5 DEF KeptCurrent
<1> QED
  BY <1>2, <1>3, <1>5, <1>6, <1>7, <1>8, <1>9 DEF Regroups, Bound, StatusFor

LEMMA UpdateRegroups ==
  ASSUME PoolInv, NEW w \in Workspaces, NEW cur \in Accounts,
         NEW nxt \in Accounts \cup {None}, NEW o \in Owners \cup {None},
         UpdateWorkspaceBindings(w, cur, nxt, o)
  PROVE  Regroups(w, cur, nxt, StatusFor(nxt), o)
<1>1. cur # None /\ None \notin used /\ used \subseteq Children
  BY IdsAssumption, AccountsAssumption DEF PoolInv, Agree, TypeOK
<1>2. {cur, nxt} \cap used = {}
  BY <1>1 DEF UpdateWorkspaceBindings, Selectable
<1>3. BindingAllowed(w, cur, nxt) /\ cur # nxt
  BY DEF UpdateWorkspaceBindings, Rebind, BindingAllowed
<1>4. acct'[cur] = "bound_current" /\ (nxt # None => acct'[nxt] = "bound_next")
  BY <1>1, <1>3 DEF UpdateWorkspaceBindings
<1>5. ASSUME NEW a \in Accounts \ {cur, nxt}
      PROVE  IF a \in {wsCur[w], wsNext[w]} THEN ~Bound(a)' ELSE acct'[a] = acct[a]
  <2>1. a # None
    BY IdsAssumption
  <2> QED
    BY <2>1, <1>5 DEF UpdateWorkspaceBindings, Bound
<1>6. used' = used
  BY DEF UpdateWorkspaceBindings
<1>8. /\ wsCur' = [wsCur EXCEPT ![w] = cur] /\ wsNext' = [wsNext EXCEPT ![w] = nxt]
      /\ wsStatus' = [wsStatus EXCEPT ![w] = StatusFor(nxt)]
      /\ wsOwner' = [wsOwner EXCEPT ![w] = o]
  <2>1. Rebind(w, cur, nxt, StatusFor(nxt)) /\ wsOwner' = [wsOwner EXCEPT ![w] = o]
    BY DEF UpdateWorkspaceBindings
  <2> QED
    BY <2>1 DEF Rebind
<1>9. acct'[cur] \in KeptCurrent
  BY <1>4 DEF KeptCurrent
<1> QED
  BY <1>2, <1>3, <1>4, <1>5, <1>6, <1>8, <1>9 DEF Regroups, Bound, StatusFor

LEMMA PrepareRegroups ==
  ASSUME PoolInv, NEW w \in Workspaces, NEW a \in Accounts, PrepareHandoff(w, a)
  PROVE  wsCur[w] \in Accounts /\ Regroups(w, wsCur[w], a, "ready", wsOwner[w])
<1>1. wsCur[w] \in Accounts /\ wsCur[w] \notin used /\ wsCur[w] # None
  BY AccountsAssumption, IdsAssumption DEF PrepareHandoff
<1>2. a \notin used /\ a # None
  BY FreeIsUnused, IdsAssumption DEF PrepareHandoff, PoolInv
<1>3. BindingAllowed(w, wsCur[w], a) /\ wsCur[w] # a
  BY DEF PrepareHandoff, Rebind, BindingAllowed
<1>4. acct[wsCur[w]] \in KeptCurrent
  BY <1>1 DEF PoolInv, Pool, BindingsAndStatusesAgree, KeptCurrent
<1>5. acct'[a] = "bound_next" /\ \A b \in Accounts \ {a} : acct'[b] = acct[b]
  BY DEF PrepareHandoff, PoolInv, Agree, TypeOK
<1>6. wsOwner' = [wsOwner EXCEPT ![w] = wsOwner[w]] /\ used' = used
  BY DEF PrepareHandoff, PoolInv, Agree, TypeOK
<1>7. \A b \in Accounts \ {wsCur[w], a} : b \notin {wsCur[w], wsNext[w]}
  BY IdsAssumption DEF PrepareHandoff
<1> QED
  BY <1>1, <1>2, <1>3, <1>4, <1>5, <1>6, <1>7 DEF PrepareHandoff, Rebind, Regroups

LEMMA RotateRegroups ==
  ASSUME PoolInv, NEW w \in Workspaces, Rotate(w)
  PROVE  /\ wsNext[w] \in Accounts
         /\ \E nxt \in Accounts \cup {None} :
              Regroups(w, wsNext[w], nxt, StatusFor(nxt), wsOwner[w])
<1> DEFINE old == wsCur[w]
           new == wsNext[w]
<1>1. PICK nxt \in RotationNexts(w) :
        /\ acct' = IF nxt = None THEN Rotated(w)
                   ELSE [Rotated(w) EXCEPT ![nxt] = "bound_next"]
        /\ Rebind(w, new, nxt, StatusFor(nxt))
  BY DEF Rotate
<1>2. /\ new # None /\ acct[old] = "bound_current" /\ acct[new] = "bound_next"
      /\ old # None /\ old \in Accounts /\ new \in Accounts
  BY DEF Rotate, RotationAllowed, RolesMatch, PoolInv, Pool, WorkspaceRows, Agree, TypeOK
<1>3. /\ Rotated(w)[old] \in {"exited_pending", "retired"} /\ Rotated(w)[new] = "bound_current"
      /\ wsOwner[w] # None => Rotated(w)[old] = "retired"
      /\ \A a \in Accounts \ {old, new} : Rotated(w)[a] = acct[a]
      /\ Rotated(w) \in [Accounts -> AccountStates]
  BY <1>2 DEF Rotated, PoolInv, Agree, TypeOK, AccountStates
<1>4. nxt = None \/ (nxt \in Accounts /\ Rotated(w)[nxt] \in {"available", "absent"})
  BY <1>1, ReplacementsFree DEF RotationNexts
<1>5. nxt = None \/ (nxt \in Accounts \ {old, new} /\ acct[nxt] \in {"available", "absent"})
  BY <1>3, <1>4
<1>6. \A a \in Accounts : acct'[a] = IF a = nxt THEN "bound_next" ELSE Rotated(w)[a]
  BY <1>1, <1>3, <1>5, IdsAssumption
<1>7. new \notin used /\ nxt \notin used /\ None \notin used
  BY <1>2, <1>5, FreeIsUnused, IdsAssumption, AccountsAssumption DEF PoolInv, Agree, TypeOK
<1>8. ASSUME NEW a \in used' \ used
      PROVE  a = old /\ a \notin {new, nxt} /\ acct'[a] = "retired"
  <2>1. a = old /\ wsOwner[w] # None
    BY <1>8 DEF Rotate
  <2> QED
    BY <1>2, <1>3, <1>5, <1>6, <2>1
<1>9. used \subseteq used'
  BY DEF Rotate
<1>10. wsOwner' = [wsOwner EXCEPT ![w] = wsOwner[w]]
  BY DEF Rotate, PoolInv, Agree, TypeOK
<1>11. \A a \in Accounts \ {new, nxt} :
         IF a \in {old, new} THEN ~Bound(a)' ELSE acct'[a] = acct[a]
  BY <1>3, <1>6 DEF Bound
<1>12. acct'[new] = "bound_current" /\ (nxt # None => acct'[nxt] = "bound_next")
  BY <1>2, <1>3, <1>5, <1>6
<1>13. Regroups(w, new, nxt, StatusFor(nxt), wsOwner[w])
  <2>1. /\ BindingAllowed(w, new, nxt)
        /\ wsCur' = [wsCur EXCEPT ![w] = new] /\ wsNext' = [wsNext EXCEPT ![w] = nxt]
        /\ wsStatus' = [wsStatus EXCEPT ![w] = StatusFor(nxt)]
    BY <1>1 DEF Rebind
  <2>2. acct'[new] \in KeptCurrent
    BY <1>12 DEF KeptCurrent
  <2>3. StatusFor(nxt) \in {"ready", "needs_account"} /\ (StatusFor(nxt) = "ready" => nxt # None)
    BY DEF StatusFor
  <2>4. {new, nxt} \cap used = {}
    BY <1>7
  <2> QED
    BY <2>1, <2>2, <2>3, <2>4, <1>8, <1>9, <1>10, <1>11, <1>12 DEF Regroups, Bound
<1> QED
  BY <1>2, <1>5, <1>13
\* The end of a replacement: the accounts c and nxt of w are settled over the
\* statuses s, in which what w loses is no longer bound.
LEMMA SettleRegroups ==
  ASSUME PoolInv, NEW w \in Workspaces, NEW c \in Accounts, NEW nxt \in Accounts \cup {None},
         NEW s \in [Accounts -> AccountStates],
         acct' = IF nxt = None THEN s ELSE [s EXCEPT ![nxt] = "bound_next"],
         Rebind(w, c, nxt, StatusFor(nxt)), used' = used, wsOwner' = wsOwner,
         nxt # None => s[nxt] \in {"available", "absent"},
         c \notin used, s[c] \in KeptCurrent,
         nxt # None /\ wsOwner[w] = None => s[c] = "bound_current",
         \A a \in Accounts \ {c} :
            IF a \in {wsCur[w], wsNext[w]} THEN s[a] \notin {"bound_current", "bound_next"}
                                         ELSE s[a] = acct[a]
  PROVE  Regroups(w, c, nxt, StatusFor(nxt), wsOwner[w])
<1>1. /\ BindingAllowed(w, c, nxt) /\ c # nxt
      /\ wsCur' = [wsCur EXCEPT ![w] = c] /\ wsNext' = [wsNext EXCEPT ![w] = nxt]
      /\ wsStatus' = [wsStatus EXCEPT ![w] = StatusFor(nxt)]
  BY DEF Rebind, BindingAllowed
<1>2. \A a \in Accounts : acct'[a] = IF a = nxt THEN "bound_next" ELSE s[a]
  BY IdsAssumption
<1>3. nxt \notin used
  <2>1. CASE nxt = None
    BY <2>1, IdsAssumption, AccountsAssumption DEF PoolInv, Agree, TypeOK
  <2>2. CASE nxt # None /\ nxt \in {wsCur[w], wsNext[w]}
    BY <2>2, FreeIsUnused DEF PoolInv
  <2>3. CASE nxt # None /\ nxt \notin {wsCur[w], wsNext[w]}
    <3>1. acct[nxt] \in {"available", "absent"}
      BY <2>3, <1>1
    <3> QED
      BY <3>1, FreeIsUnused DEF PoolInv
  <2> QED
    BY <2>1, <2>2, <2>3
<1>4. wsOwner' = [wsOwner EXCEPT ![w] = wsOwner[w]]
  BY DEF PoolInv, Agree, TypeOK
<1>5. acct'[c] = s[c] /\ (nxt # None => acct'[nxt] = "bound_next")
  BY <1>1, <1>2
<1>6. \A a \in Accounts \ {c, nxt} :
         IF a \in {wsCur[w], wsNext[w]} THEN ~Bound(a)' ELSE acct'[a] = acct[a]
  BY <1>2 DEF Bound
<1> QED
  BY <1>1, <1>3, <1>4, <1>5, <1>6 DEF Regroups, Bound, StatusFor

LEMMA ReplaceRegroups ==
  ASSUME PoolInv, NEW w \in Workspaces, NEW role \in {"current", "next"}, NEW code,
         NEW allowMissing, ReplaceAccount(w, role, code, allowMissing)
  PROVE  \E c \in Accounts, nxt \in Accounts \cup {None} :
           Regroups(w, c, nxt, StatusFor(nxt), wsOwner[w])
<1> DEFINE target == IF role = "current" THEN wsCur[w] ELSE wsNext[w]
           mailboxLost == code = "mailbox_credentials_invalid"
           off == IF code = "alias_disabled" /\ target \in Children
                    THEN inactive \cup {target} ELSE inactive
           bad == IF mailboxLost THEN badMailbox \cup {MailboxOf[target]} ELSE badMailbox
           nextLost == /\ role = "current" /\ wsNext[w] # None /\ mailboxLost
                       /\ MailboxOf[wsNext[w]] = MailboxOf[target]
           lost == {target} \cup (IF nextLost THEN {wsNext[w]} ELSE {})
           st == [a \in Accounts |-> IF a \in lost THEN "disabled" ELSE acct[a]]
           promoted == IF role = "next" THEN {wsCur[w]}
                       ELSE IF wsNext[w] # None /\ ~nextLost THEN {wsNext[w]}
                       ELSE Replacements(st, off, bad, None, 0)
           st2(cur) == IF role = "current" THEN [st EXCEPT ![cur] = "bound_current"] ELSE st
           Settle(cur, nxt, s) ==
             /\ acct' = IF nxt = None THEN s ELSE [s EXCEPT ![nxt] = "bound_next"]
             /\ Rebind(w, cur, nxt, StatusFor(nxt))
<1>1. target # None /\ target \in Accounts /\ wsCur[w] # None /\ wsCur[w] \in Accounts
  BY DEF ReplaceAccount, PoolInv, Pool, WorkspaceRows, Agree, TypeOK
<1>2. PICK cur \in promoted :
        \/ cur = None /\ allowMissing /\ Settle(target, None, st)
        \/ /\ cur # None
           /\ \E nxt \in Replacements(st2(cur), off, bad, MailboxOf[cur], AliasNo[cur]) :
                 Settle(cur, nxt, st2(cur))
  BY DEF ReplaceAccount
<1>3. used' = used /\ wsOwner' = wsOwner
  BY DEF ReplaceAccount
<1>4. /\ wsNext[w] # None => acct[wsNext[w]] = "bound_next"
      /\ acct[wsCur[w]] \in KeptCurrent
      /\ wsNext[w] # None /\ wsOwner[w] = None => acct[wsCur[w]] = "bound_current"
      /\ wsNext[w] \in Accounts \cup {None} /\ wsCur[w] # wsNext[w]
  BY <1>1 DEF PoolInv, Pool, BindingsAndStatusesAgree, WorkspaceRows, KeptCurrent, Agree, TypeOK
<1>5. \A a \in {wsCur[w], wsNext[w]} : a \notin used
  BY FreeIsUnused DEF PoolInv
<1>6. \A a \in Accounts : st[a] = IF a \in lost THEN "disabled" ELSE acct[a]
  OBVIOUS
<1>7. st \in [Accounts -> AccountStates]
  BY DEF PoolInv, Agree, TypeOK, AccountStates
<1>8. lost \subseteq {wsCur[w], wsNext[w]}
  OBVIOUS
<1>9. CASE cur = None
  <2>1. Settle(target, None, st)
    BY <1>2, <1>9
  <2>2. role = "current" /\ (wsNext[w] = None \/ nextLost)
    BY <1>1, <1>2, <1>9
  <2>3. \A a \in Accounts \ {target} :
          IF a \in {wsCur[w], wsNext[w]} THEN st[a] \notin {"bound_current", "bound_next"}
                                       ELSE st[a] = acct[a]
    BY <1>6, <1>8, <2>2, IdsAssumption
  <2>4. st[target] \in KeptCurrent /\ target \notin used
    BY <1>1, <1>5, <1>6 DEF KeptCurrent
  <2> HIDE DEF st, target
  <2> QED
    BY <1>1, <1>3, <1>7, <2>1, <2>3, <2>4, SettleRegroups
<1>10. CASE cur # None
  <2>1. PICK nxt \in Replacements(st2(cur), off, bad, MailboxOf[cur], AliasNo[cur]) :
          Settle(cur, nxt, st2(cur))
    BY <1>2, <1>10
  <2>2. nxt = None \/ (nxt \in Accounts /\ st2(cur)[nxt] \in {"available", "absent"})
    <3> HIDE DEF st2, off, bad
    <3> QED
      BY ReplacementsFree
  <2>3. CASE role = "next"
    <3>1. cur = wsCur[w] /\ target = wsNext[w] /\ st2(cur) = st /\ lost = {wsNext[w]}
      BY <1>2, <2>3
    <3>2. \A a \in Accounts \ {cur} :
            IF a \in {wsCur[w], wsNext[w]} THEN st[a] \notin {"bound_current", "bound_next"}
                                         ELSE st[a] = acct[a]
      BY <1>6, <3>1
    <3>3. st[cur] = acct[wsCur[w]]
      BY <1>1, <1>4, <1>6, <3>1
    <3> HIDE DEF st, target, lost, st2, promoted, nextLost
    <3> QED
      BY <1>1, <1>3, <1>4, <1>5, <1>7, <2>1, <2>2, <3>1, <3>2, <3>3, SettleRegroups, ZenonT(40)
  <2>4. CASE role = "current"
    <3>1. target = wsCur[w] /\ st2(cur) = [st EXCEPT ![cur] = "bound_current"]
      BY <2>4
    <3>2. /\ cur \in Accounts /\ cur \notin used
          /\ cur = wsNext[w] \/ wsNext[w] = None \/ nextLost
      <4>1. CASE wsNext[w] # None /\ ~nextLost
        BY <1>2, <1>4, <1>5, <2>4, <4>1
      <4>2. CASE ~(wsNext[w] # None /\ ~nextLost)
        <5>1. cur \in Accounts /\ st[cur] \in {"available", "absent"}
          <6>1. cur \in Replacements(st, off, bad, None, 0)
            BY <1>2, <2>4, <4>2
          <6> HIDE DEF st, off, bad
          <6> QED
            BY <6>1, <1>10, ReplacementsFree
        <5>2. acct[cur] \in {"available", "absent"}
          BY <1>6, <5>1
        <5> QED
          BY <4>2, <5>1, <5>2, FreeIsUnused DEF PoolInv
      <4> QED
        BY <4>1, <4>2
    <3>3. /\ st2(cur) \in [Accounts -> AccountStates]
          /\ st2(cur)[cur] = "bound_current"
          /\ \A a \in Accounts \ {cur} : st2(cur)[a] = st[a]
      <4> HIDE DEF st, st2
      <4> QED
        BY <1>7, <3>1, <3>2 DEF AccountStates
    <3>4. \A a \in Accounts \ {cur} :
            IF a \in {wsCur[w], wsNext[w]} THEN st2(cur)[a] \notin {"bound_current", "bound_next"}
                                         ELSE st2(cur)[a] = acct[a]
      <4>1. \A a \in Accounts \ {cur} : a \in {wsCur[w], wsNext[w]} => a \in lost
        BY <3>1, <3>2, IdsAssumption
      <4> HIDE DEF st, st2, lost
      <4> QED
        BY <1>6, <1>8, <3>3, <4>1
    <3> HIDE DEF st, target, lost, st2, promoted, nextLost
    <3> QED
      BY <1>3, <2>1, <2>2, <3>2, <3>3, <3>4, SettleRegroups DEF KeptCurrent
  <2> QED
    BY <2>3, <2>4
<1> HIDE DEF target, st, promoted, lost, nextLost, off, bad
<1> QED
  BY <1>9, <1>10
(***************************************************************************)
(* Steps of the pool: one account that is neither bound nor used up gets   *)
(* another status.                                                         *)
(***************************************************************************)
LEMMA FreeStep ==
  ASSUME PoolInv, TypeOK', NEW a \in Accounts,
         acct[a] \in {"absent", "available", "disabled", "exited_pending"},
         NEW new \in {"available", "disabled", "retired"},
         acct' = [acct EXCEPT ![a] = new],
         UNCHANGED <<used, wsVars, runState, runData, queueVars>>
  PROVE  Pool' /\ ActiveRunKeepsItsAccounts'
<1>1. acct'[a] = new /\ \A b \in Accounts \ {a} : acct'[b] = acct[b]
  BY DEF PoolInv, Agree, TypeOK
<1>2. UNCHANGED <<wsStatus, wsCur, wsNext, wsOwner>>
  BY DEF wsVars
<1>3. \A w \in Workspaces : wsNext[w] # a /\ (wsCur[w] = a => acct[a] \in {"available", "disabled"})
  BY IdsAssumption DEF PoolInv, Pool, BindingsAndStatusesAgree
<1>4. \A w \in Workspaces : /\ wsNext[w] \in Accounts \cup {None}
                             /\ wsCur[w] \in Accounts \cup {None}
  BY DEF PoolInv, Agree, TypeOK
<1>5. BindingsAndStatusesAgree'
  <2>1. ASSUME NEW b \in Accounts
        PROVE  /\ acct'[b] = "bound_current" => \E w \in Workspaces : wsCur[w] = b
               /\ acct'[b] = "bound_next" => \E w \in Workspaces : wsNext[w] = b
    BY <1>1 DEF PoolInv, Pool, BindingsAndStatusesAgree
  <2>2. ASSUME NEW w \in Workspaces
        PROVE  /\ wsNext[w] # None => acct'[wsNext[w]] = "bound_next"
               /\ wsCur[w] # None => acct'[wsCur[w]] \in
                    {"bound_current", "disabled", "available", "retired"}
               /\ wsStatus[w] = "ready" /\ wsOwner[w] = None =>
                    acct'[wsCur[w]] = "bound_current" /\ acct'[wsNext[w]] = "bound_next"
    BY <1>1, <1>3, <1>4
       DEF PoolInv, Pool, BindingsAndStatusesAgree, WorkspaceRows, RolesMatch
  <2> QED
    BY <1>2, <2>1, <2>2 DEF PoolInv, Pool, BindingsAndStatusesAgree, RolesMatch
<1>6. WorkspaceRows'
  <2>1. \A w \in Workspaces : wsNext[w] # None /\ wsOwner[w] = None => wsCur[w] # a
    BY DEF PoolInv, Pool, WorkspaceRows
  <2> QED
    BY <1>1, <1>2, <1>4, <2>1 DEF PoolInv, Pool, WorkspaceRows
<1>7. UsedChildrenStayOut'
  BY <1>1, <1>2, AccountsAssumption DEF PoolInv, Pool, UsedChildrenStayOut, Agree, TypeOK
<1>8. ActiveRunKeepsItsAccounts'
  <2>1. ASSUME NEW r \in Runs, Active(r)
        PROVE  /\ runNext[r] \in Accounts \ {a}
               /\ wsOwner[runWs[r]] = None => runCur[r] \in Accounts \ {a}
    BY <2>1 DEF PoolInv, ActiveRunKeepsItsAccounts, ActiveRunOwnsItsBindings, Agree, TypeOK
  <2>2. UNCHANGED <<runWs, runCur, runNext, qState>>
    BY DEF runData, queueVars
  <2> QED
    BY <1>1, <1>2, <2>1, <2>2
       DEF PoolInv, ActiveRunKeepsItsAccounts, ActiveRunOwnsItsBindings, SnapshotMatches, Active
<1> QED
  BY <1>5, <1>6, <1>7, <1>8 DEF Pool

LEMMA PoolInvPool ==
  ASSUME PoolInv, Agree', PoolNext
  PROVE  PoolInv'
<1>1. UNCHANGED <<used, wsVars, runState, runData, queueVars>>
  BY DEF PoolNext, CreateAccount, TransitionAccountStatus, SetAliasState, SetMailboxStatus
<1>2. RunRows' /\ TypeOK'
  BY <1>1 DEF PoolInv, RunRows, runData, Agree
<1>3. ASSUME NEW a \in Accounts, CreateAccount(a)
      PROVE  Pool' /\ ActiveRunKeepsItsAccounts'
  BY <1>1, <1>2, <1>3, FreeStep DEF CreateAccount
<1>4. ASSUME NEW a \in Accounts, NEW new, TransitionAccountStatus(a, new)
      PROVE  Pool' /\ ActiveRunKeepsItsAccounts'
  <2>1. /\ acct[a] \in {"available", "disabled", "exited_pending"}
        /\ new \in {"available", "disabled", "retired"}
        /\ acct' = [acct EXCEPT ![a] = new]
    BY <1>4 DEF TransitionAccountStatus, ManualTransitions
  <2> QED
    BY <1>1, <1>2, <2>1, FreeStep
<1>5. ASSUME acct' = acct
      PROVE  Pool' /\ ActiveRunKeepsItsAccounts'
  <2>1. Pool'
    BY <1>1, <1>5 DEF wsVars, PoolInv, Pool, BindingsAndStatusesAgree, UsedChildrenStayOut,
                      WorkspaceRows, RolesMatch
  <2>2. ActiveRunKeepsItsAccounts'
    BY <1>1, <1>5 DEF wsVars, runData, queueVars, PoolInv, ActiveRunKeepsItsAccounts,
                      ActiveRunOwnsItsBindings, SnapshotMatches, Active
  <2> QED
    BY <2>1, <2>2
<1>6. (\E x \in Children \cup Owners, b \in BOOLEAN : SetAliasState(x, b))
        \/ (\E m \in Mailboxes, b \in BOOLEAN : SetMailboxStatus(m, b)) => acct' = acct
  BY DEF SetAliasState, SetMailboxStatus
<1> QED
  BY <1>2, <1>3, <1>4, <1>5, <1>6 DEF PoolNext, PoolInv

(***************************************************************************)
(* Steps of the workspaces.                                                *)
(***************************************************************************)
\* What a step on a workspace that no run holds does.
Edits(w, cur, nxt, status, owner) ==
  /\ Regroups(w, cur, nxt, status, owner)
  /\ Idle(w) \/ wsStatus[w] = "absent"
  /\ UNCHANGED <<runState, runData, queueVars>>

LEMMA EditedTypes ==
  ASSUME PoolInv
  PROVE  /\ "ready" \in WorkspaceStates /\ \A nxt : StatusFor(nxt) \in WorkspaceStates
         /\ \A w \in Workspaces : wsOwner[w] \in Owners \cup {None}
BY DEF WorkspaceStates, StatusFor, PoolInv, Agree, TypeOK

LEMMA WorkspaceEdits ==
  ASSUME PoolInv, WorkspaceNext
  PROVE  \E w \in Workspaces, cur \in Accounts, nxt \in Accounts \cup {None},
              status \in WorkspaceStates, owner \in Owners \cup {None} :
           Edits(w, cur, nxt, status, owner)
<1>1. PICK w \in Workspaces :
        \/ \E cur \in Accounts, nxt \in Accounts \cup {None}, o \in Owners \cup {None} :
             CreateWorkspace(w, cur, nxt, o) \/ UpdateWorkspaceBindings(w, cur, nxt, o)
        \/ \E a \in Accounts : PrepareHandoff(w, a)
        \/ AdvanceWorkspaceAccounts(w)
        \/ \E role \in {"current", "next"}, c \in FailureCodes :
             ReplaceWorkspaceAccount(w, role, c)
  BY DEF WorkspaceNext
<1>2. ASSUME NEW cur \in Accounts, NEW nxt \in Accounts \cup {None}, NEW o \in Owners \cup {None},
             CreateWorkspace(w, cur, nxt, o) \/ UpdateWorkspaceBindings(w, cur, nxt, o)
      PROVE  Edits(w, cur, nxt, StatusFor(nxt), o)
  BY <1>2, CreateRegroups, UpdateRegroups DEF CreateWorkspace, UpdateWorkspaceBindings, Edits
<1>3. ASSUME NEW a \in Accounts, PrepareHandoff(w, a)
      PROVE  wsCur[w] \in Accounts /\ Edits(w, wsCur[w], a, "ready", wsOwner[w])
  BY <1>3, PrepareRegroups DEF PrepareHandoff, Edits
<1>4. ASSUME AdvanceWorkspaceAccounts(w)
      PROVE  \E nxt \in Accounts \cup {None} :
               wsNext[w] \in Accounts /\ Edits(w, wsNext[w], nxt, StatusFor(nxt), wsOwner[w])
  BY <1>4, RotateRegroups DEF AdvanceWorkspaceAccounts, Edits
<1>5. ASSUME NEW role \in {"current", "next"}, NEW c, ReplaceWorkspaceAccount(w, role, c)
      PROVE  \E cur \in Accounts, nxt \in Accounts \cup {None} :
               Edits(w, cur, nxt, StatusFor(nxt), wsOwner[w])
  BY <1>5, ReplaceRegroups DEF ReplaceWorkspaceAccount, Edits
<1> QED
  BY <1>1, <1>2, <1>3, <1>4, <1>5, EditedTypes, ZenonT(40)

LEMMA PoolInvWorkspace ==
  ASSUME PoolInv, Agree', WorkspaceNext
  PROVE  PoolInv'
<1>1. PICK w \in Workspaces, cur \in Accounts, nxt \in Accounts \cup {None},
           status \in WorkspaceStates, owner \in Owners \cup {None} :
        Edits(w, cur, nxt, status, owner)
  BY WorkspaceEdits
<1>2. Pool /\ TypeOK /\ TypeOK' /\ Regroups(w, cur, nxt, status, owner)
  BY <1>1 DEF PoolInv, Agree, Edits
<1>3. Pool'
  BY <1>2, RegroupPool
<1>4. OthersRun(w)
  BY <1>1, IdleHasNoRun DEF Edits, OthersRun, Active, runData, queueVars, PoolInv
<1>5. RunRows' /\ ActiveRunKeepsItsAccounts'
  BY <1>2, <1>4, RegroupRuns
<1> QED
  BY <1>3, <1>5 DEF PoolInv

(***************************************************************************)
(* Steps of the queue, which leave accounts and bindings alone.            *)
(***************************************************************************)
\* A status is only given to a workspace that has a next account.
StatusesMove ==
  /\ UNCHANGED <<acct, used, wsCur, wsNext, wsOwner>>
  /\ \A w \in Workspaces :
        wsStatus'[w] # wsStatus[w] =>
          wsStatus'[w] \in {"queued", "running", "ready", "failed"} /\ wsNext[w] # None

LEMMA StatusesMovePool ==
  ASSUME Pool, StatusesMove
  PROVE  Pool'
<1>1. WorkspaceRows'
  BY DEF Pool, WorkspaceRows, StatusesMove
<1>2. \A w \in Workspaces : wsStatus'[w] = "ready" /\ wsOwner[w] = None =>
                               RolesMatch(wsCur[w], wsNext[w])
  BY DEF Pool, WorkspaceRows, BindingsAndStatusesAgree, RolesMatch, StatusesMove
<1>3. BindingsAndStatusesAgree'
  BY <1>2 DEF Pool, BindingsAndStatusesAgree, RolesMatch, StatusesMove
<1>4. UsedChildrenStayOut'
  BY DEF Pool, UsedChildrenStayOut, StatusesMove
<1> QED
  BY <1>1, <1>3, <1>4 DEF Pool

\* What run r needs to be active.
Ready(r) ==
  /\ runWs[r] # None /\ SnapshotMatches(r)
  /\ runCur[r] # None /\ runNext[r] # None
  /\ acct[runNext[r]] = "bound_next"
  /\ wsOwner[runWs[r]] = None => acct[runCur[r]] = "bound_current"
  /\ {runCur[r], runNext[r]} \cap used = {}

LEMMA ReadyRuns ==
  ActiveRunKeepsItsAccounts <=> \A r \in Runs : Active(r) => Ready(r)
BY DEF ActiveRunKeepsItsAccounts, ActiveRunOwnsItsBindings, Ready

\* A step on the run tables in which only ready runs become active.
ReadyOnly ==
  /\ UNCHANGED runData
  /\ \A r \in Runs : /\ Active(r)' => Active(r) \/ Ready(r)
                     /\ runState'[r] # "absent" => runState[r] # "absent"

LEMMA QueueStep ==
  ASSUME PoolInv, Agree', StatusesMove, ReadyOnly
  PROVE  PoolInv'
<1>1. Pool'
  BY StatusesMovePool DEF PoolInv
<1>2. RunRows'
  BY DEF PoolInv, RunRows, ReadyOnly, runData
<1>3. ASSUME NEW r \in Runs, Active(r)'
      PROVE  Ready(r)'
  <2>1. Ready(r)
    BY <1>3, ReadyRuns DEF PoolInv, ReadyOnly
  <2> QED
    BY <2>1 DEF Ready, SnapshotMatches, StatusesMove, ReadyOnly, runData
<1>4. ActiveRunKeepsItsAccounts'
  BY <1>3 DEF ActiveRunKeepsItsAccounts, ActiveRunOwnsItsBindings, Ready
<1> QED
  BY <1>1, <1>2, <1>4 DEF PoolInv

\* An active run is bound to a workspace that has a next account.
LEMMA ActiveHasNext ==
  ASSUME PoolInv, NEW r \in Runs, Active(r)
  PROVE  runWs[r] \in Workspaces /\ wsNext[runWs[r]] # None
BY DEF PoolInv, ActiveRunKeepsItsAccounts, ActiveRunOwnsItsBindings, SnapshotMatches, Agree,
       TypeOK

\* A run whose snapshot still matches may become active again.
LEMMA MatchingIsReady ==
  ASSUME PoolInv, NEW r \in Runs, runState[r] # "absent", SnapshotMatches(r)
  PROVE  Ready(r)
<1>1. runWs[r] \in Workspaces /\ runCur[r] # None /\ runNext[r] # None
  BY DEF PoolInv, RunRows, Agree, RunHasWorkspace
<1>2. wsCur[runWs[r]] = runCur[r] /\ wsNext[runWs[r]] = runNext[r]
  BY DEF SnapshotMatches
<1>3. acct[runNext[r]] = "bound_next"
  BY <1>1, <1>2 DEF PoolInv, Pool, BindingsAndStatusesAgree
<1>4. wsOwner[runWs[r]] = None => acct[runCur[r]] = "bound_current"
  BY <1>1, <1>2 DEF PoolInv, Pool, WorkspaceRows
<1>5. {runCur[r], runNext[r]} \cap used = {}
  BY <1>1, <1>2, FreeIsUnused DEF PoolInv
<1> QED
  BY <1>1, <1>3, <1>4, <1>5, IdsAssumption DEF Ready

LEMMA PoolInvEnqueue ==
  ASSUME PoolInv, Agree', NEW R \in SUBSET Runs, NEW kind \in {"handoff", "rescue"},
         NEW of \in [R -> Workspaces], NEW pos \in [R -> 0..MaxPos],
         Enqueue(R, of, pos, kind)
  PROVE  PoolInv'
<1>1. \A r \in R : /\ runState[r] = "absent" /\ wsNext[of[r]] # None
                   /\ wsStatus[of[r]] \in {"ready", "failed"}
                   /\ RolesMatch(wsCur[of[r]], wsNext[of[r]])
  BY DEF Enqueue
<1>2. /\ \A r \in R : /\ runWs'[r] = of[r] /\ runCur'[r] = wsCur[of[r]]
                     /\ runNext'[r] = wsNext[of[r]] /\ qState'[r] = "pending"
      /\ \A r \in Runs \ R : /\ runWs'[r] = runWs[r] /\ runCur'[r] = runCur[r]
                            /\ runNext'[r] = runNext[r] /\ qState'[r] = qState[r]
                            /\ runState'[r] = runState[r]
      /\ UNCHANGED <<acct, used, wsCur, wsNext, wsOwner>>
  BY DEF Enqueue, poolVars
<1>3. StatusesMove
  BY <1>1, <1>2 DEF Enqueue, StatusesMove
<1>4. Pool'
  BY <1>3, StatusesMovePool DEF PoolInv
<1>5. \A r \in R : wsCur[of[r]] # None
  BY <1>1 DEF PoolInv, Pool, WorkspaceRows
<1>6. RunRows'
  BY <1>1, <1>2, <1>5 DEF PoolInv, RunRows
<1>7. ASSUME NEW r \in Runs, Active(r)'
      PROVE  Ready(r)'
  <2>1. CASE r \in R
    <3>1. {wsCur[of[r]], wsNext[of[r]]} \cap used = {}
      BY <2>1, FreeIsUnused DEF PoolInv
    <3> QED
      BY <1>1, <1>2, <1>5, <2>1, <3>1, IdsAssumption DEF Ready, SnapshotMatches, RolesMatch
  <2>2. CASE r \notin R
    <3>1. Ready(r)
      BY <1>2, <1>7, <2>2, ReadyRuns DEF Active, PoolInv
    <3> QED
      BY <1>2, <2>2, <3>1 DEF Ready, SnapshotMatches
  <2> QED
    BY <2>1, <2>2
<1>8. ActiveRunKeepsItsAccounts'
  BY <1>7 DEF ActiveRunKeepsItsAccounts, ActiveRunOwnsItsBindings, Ready
<1> QED
  BY <1>4, <1>6, <1>8 DEF PoolInv

\* A step that moves run r alone, an active run or one that is ready.
Advances(r, run, queue, status) ==
  /\ UNCHANGED <<acct, used, wsCur, wsNext, wsOwner>> /\ UNCHANGED runData
  /\ runState' = [runState EXCEPT ![r] = run]
  /\ qState' = [qState EXCEPT ![r] = queue]
  /\ wsStatus' = [wsStatus EXCEPT ![runWs[r]] = status]

LEMMA AdvanceStep ==
  ASSUME PoolInv, Agree', NEW r \in Runs, runState[r] # "absent", Active(r) \/ Ready(r),
         NEW run, NEW queue, NEW status \in {"queued", "running", "ready", "failed"},
         Advances(r, run, queue, status)
  PROVE  PoolInv'
<1>1. Ready(r)
  BY ReadyRuns DEF PoolInv
<1>2. runWs[r] \in Workspaces /\ wsNext[runWs[r]] # None
  BY <1>1 DEF Ready, SnapshotMatches, PoolInv, Agree, TypeOK
<1>3. StatusesMove
  BY <1>2 DEF Advances, StatusesMove, PoolInv, Agree, TypeOK
<1>4. ReadyOnly
  BY <1>1 DEF ReadyOnly, Advances, Active, PoolInv, Agree, TypeOK
<1> QED
  BY <1>3, <1>4, QueueStep

LEMMA PoolInvUserQueue ==
  ASSUME PoolInv, Agree', UserQueueNext
  PROVE  PoolInv'
<1>1. CASE \E R \in SUBSET Runs, kind \in {"handoff", "rescue"} :
             \E of \in [R -> Workspaces], pos \in [R -> 0..MaxPos] : Enqueue(R, of, pos, kind)
  BY <1>1, PoolInvEnqueue
<1>2. CASE \/ \E b \in BOOLEAN : SetQueuePaused(b)
           \/ \E pos \in [{r \in Runs : qState[r] = "pending"} -> 0..MaxPos] :
                ReorderQueue(pos)
  <2>1. UNCHANGED <<poolVars, wsVars, runState, runData, qState>>
    BY <1>2 DEF SetQueuePaused, ReorderQueue
  <2>2. StatusesMove
    BY <2>1 DEF StatusesMove, poolVars, wsVars
  <2>3. ReadyOnly
    BY <2>1 DEF ReadyOnly, Active
  <2> QED
    BY <2>2, <2>3, QueueStep
<1>3. ASSUME NEW r \in Runs, RequestStop(r) PROVE PoolInv'
  <2>1. runState[r] # "absent" /\ Active(r)
    BY <1>3 DEF RequestStop, PoolInv, Agree, RunAndItemAgree, Active
  <2>2. CASE Finish(r, "cancelled", "cancelled", "ready")
    <3>1. Advances(r, "cancelled", "cancelled", "ready")
      BY <1>3, <2>2 DEF RequestStop, Finish, Advances, poolVars
    <3> QED
      BY <2>1, <3>1, AdvanceStep
  <2>3. CASE /\ runState' = [runState EXCEPT ![r] = "stopping"]
             /\ UNCHANGED <<qState, wsStatus>>
    <3>1. UNCHANGED <<acct, used, wsCur, wsNext, wsOwner>> /\ UNCHANGED runData
      BY <1>3 DEF RequestStop, poolVars
    <3>2. StatusesMove
      BY <2>3, <3>1 DEF StatusesMove
    <3>3. ReadyOnly
      BY <2>1, <2>3, <3>1 DEF ReadyOnly, Active, PoolInv, Agree, TypeOK
    <3> QED
      BY <3>2, <3>3, QueueStep
  <2> QED
    BY <1>3, <2>2, <2>3 DEF RequestStop
<1>4. ASSUME NEW r \in Runs, RetryRun(r) PROVE PoolInv'
  <2>1. Ready(r) /\ runState[r] # "absent"
    BY <1>4, MatchingIsReady DEF RetryRun
  <2>2. Advances(r, "queued", "pending", "queued")
    BY <1>4 DEF RetryRun, Finish, Advances, poolVars
  <2> QED
    BY <2>1, <2>2, AdvanceStep
<1> QED
  BY <1>1, <1>2, <1>3, <1>4 DEF UserQueueNext

LEMMA PoolInvRecover ==
  ASSUME PoolInv, Agree', RecoverInterruptedRuns
  PROVE  PoolInv'
<1> DEFINE lost == {r \in Runs : Executing(r) /\ qState[r] = "running"}
<1>1. \A r \in lost : /\ runWs[r] \in Workspaces /\ wsNext[runWs[r]] # None
                      /\ Active(r) /\ runState[r] # "absent"
  BY ActiveHasNext DEF Active, Executing
<1>2. /\ runState' = [r \in Runs |-> IF r \in lost THEN "queued" ELSE runState[r]]
      /\ qState' = [r \in Runs |-> IF r \in lost THEN "pending" ELSE qState[r]]
      /\ wsStatus' = [w \in Workspaces |->
                        IF \E r \in lost : runWs[r] = w THEN "queued" ELSE wsStatus[w]]
      /\ UNCHANGED <<acct, used, wsCur, wsNext, wsOwner>> /\ UNCHANGED runData
  BY DEF RecoverInterruptedRuns, poolVars
<1> HIDE DEF lost
<1>3. StatusesMove
  BY <1>1, <1>2 DEF StatusesMove
<1>4. ReadyOnly
  BY <1>1, <1>2 DEF ReadyOnly, Active
<1> QED
  BY <1>3, <1>4, QueueStep

\* A step that binds other accounts to the workspace of run r and ends r.
Ends(r, cur, nxt, status, owner) ==
  /\ runWs[r] \in Workspaces /\ Regroups(runWs[r], cur, nxt, status, owner)
  /\ Executing(r) /\ UNCHANGED runData
  /\ \E run \in {"succeeded", "failed"}, queue \in {"completed", "failed"} :
       /\ runState' = [runState EXCEPT ![r] = run]
       /\ qState' = [qState EXCEPT ![r] = queue]

LEMMA EndingRegroups ==
  ASSUME PoolInv, NEW r \in Runs,
         \/ CompleteRunAndRotate(r)
         \/ \E role \in {"current", "next"}, c \in FailureCodes :
              FailRunAndReplaceAccount(r, role, c)
  PROVE  \E cur \in Accounts, nxt \in Accounts \cup {None},
              status \in WorkspaceStates, owner \in Owners \cup {None} :
           Ends(r, cur, nxt, status, owner)
<1>1. CASE CompleteRunAndRotate(r)
  <2>1. /\ Executing(r) /\ Rotate(runWs[r]) /\ runWs[r] \in Workspaces
        /\ runState' = [runState EXCEPT ![r] = "succeeded"]
        /\ qState' = [qState EXCEPT ![r] = "completed"] /\ UNCHANGED runData
    BY <1>1 DEF CompleteRunAndRotate, Completable, SnapshotMatches, PoolInv, Agree, TypeOK
  <2>2. PICK nxt \in Accounts \cup {None} :
          /\ wsNext[runWs[r]] \in Accounts
          /\ Regroups(runWs[r], wsNext[runWs[r]], nxt, StatusFor(nxt), wsOwner[runWs[r]])
    BY <2>1, RotateRegroups
  <2> QED
    BY <2>1, <2>2, EditedTypes DEF Ends
<1>2. ASSUME NEW role \in {"current", "next"}, NEW c, FailRunAndReplaceAccount(r, role, c)
      PROVE  \E cur \in Accounts, nxt \in Accounts \cup {None},
                  status \in WorkspaceStates, owner \in Owners \cup {None} :
               Ends(r, cur, nxt, status, owner)
  <2>1. /\ Executing(r) /\ ReplaceAccount(runWs[r], role, c, TRUE) /\ runWs[r] \in Workspaces
        /\ runState' = [runState EXCEPT ![r] = "failed"]
        /\ qState' = [qState EXCEPT ![r] = "failed"] /\ UNCHANGED runData
    BY <1>2 DEF FailRunAndReplaceAccount, SnapshotMatches, PoolInv, Agree, TypeOK
  <2>2. PICK cur \in Accounts, nxt \in Accounts \cup {None} :
          Regroups(runWs[r], cur, nxt, StatusFor(nxt), wsOwner[runWs[r]])
    BY <2>1, ReplaceRegroups
  <2> QED
    BY <2>1, <2>2, EditedTypes DEF Ends
<1> QED
  BY <1>1, <1>2

\* The run that such a step ends is the only active one of its workspace.
LEMMA EndsAlone ==
  ASSUME PoolInv, NEW r \in Runs, NEW cur, NEW nxt, NEW status, NEW owner,
         Ends(r, cur, nxt, status, owner)
  PROVE  OthersRun(runWs[r])
<1>1. \A s \in Runs \ {r} : ~ActiveRunOf(runWs[r], s)
  BY OnlyActive DEF PoolInv, Executing, Ends
<1>2. runState[r] # "absent" /\ ~Active(r)'
  BY DEF Ends, Executing, Active, PoolInv, Agree, TypeOK
<1> QED
  BY <1>1, <1>2 DEF OthersRun, Active, ActiveRunOf, Ends, PoolInv, Agree, TypeOK

LEMMA PoolInvEnds ==
  ASSUME PoolInv, Agree', NEW r \in Runs, NEW cur \in Accounts,
         NEW nxt \in Accounts \cup {None}, NEW status, NEW owner,
         Ends(r, cur, nxt, status, owner)
  PROVE  PoolInv'
<1>1. /\ Pool /\ TypeOK /\ TypeOK' /\ runWs[r] \in Workspaces
      /\ Regroups(runWs[r], cur, nxt, status, owner)
  BY DEF PoolInv, Agree, Ends
<1>2. Pool'
  BY <1>1, RegroupPool
<1>3. RunRows' /\ ActiveRunKeepsItsAccounts'
  BY <1>1, EndsAlone, RegroupRuns
<1> QED
  BY <1>2, <1>3 DEF PoolInv

LEMMA PoolInvWorker ==
  ASSUME PoolInv, Agree', WorkerNext
  PROVE  PoolInv'
<1>1. ASSUME NEW r \in Runs, ClaimNext(r) PROVE PoolInv'
  <2>1. Active(r) /\ runState[r] # "absent" /\ Advances(r, "running", "running", "running")
    BY <1>1 DEF ClaimNext, Claimable, Active, Advances, poolVars
  <2> QED
    BY <2>1, AdvanceStep
<1>2. ASSUME NEW r \in Runs, Executing(r)
      PROVE  Active(r) /\ runState[r] # "absent" /\ qState[r] = "running"
  BY <1>2 DEF Executing, Active, PoolInv, Agree, RunAndItemAgree
<1>3. ASSUME NEW r \in Runs, MarkRunCancelled(r) PROVE PoolInv'
  <2>1. Executing(r) /\ Advances(r, "cancelled", "cancelled", "ready")
    BY <1>2, <1>3 DEF MarkRunCancelled, Finish, Advances, poolVars
  <2> QED
    BY <1>2, <2>1, AdvanceStep
<1>4. ASSUME NEW r \in Runs, FailRun(r) PROVE PoolInv'
  <2>1. Executing(r) /\ Advances(r, "failed", "failed", "failed")
    BY <1>2, <1>4 DEF FailRun, Finish, Advances, poolVars
  <2> QED
    BY <1>2, <2>1, AdvanceStep
<1>5. ASSUME NEW r \in Runs,
             \/ CompleteRunAndRotate(r)
             \/ \E role \in {"current", "next"}, c \in FailureCodes :
                  FailRunAndReplaceAccount(r, role, c)
      PROVE  PoolInv'
  BY <1>5, EndingRegroups, PoolInvEnds
<1> QED
  BY <1>1, <1>3, <1>4, <1>5, PoolInvRecover DEF WorkerNext

LEMMA InitPoolInv == Init => PoolInv
<1> SUFFICES ASSUME Init
             PROVE  PoolInv
  OBVIOUS
<1>1. Agree
  BY InitAgree
<1>2. Pool
  BY DEF Init, Pool, BindingsAndStatusesAgree, UsedChildrenStayOut, WorkspaceRows
<1>3. RunRows /\ ActiveRunKeepsItsAccounts
  BY DEF Init, RunRows, ActiveRunKeepsItsAccounts, ActiveRunOwnsItsBindings, Active
<1> QED
  BY <1>1, <1>2, <1>3 DEF PoolInv

LEMMA NextPoolInv == PoolInv /\ TypeOK' /\ [Next]_vars => PoolInv'
<1> SUFFICES ASSUME PoolInv, TypeOK', [Next]_vars
             PROVE  PoolInv'
  OBVIOUS
<1>1. Agree'
  BY NextAgree DEF PoolInv
<1>2. CASE UNCHANGED vars
  <2>1. Pool'
    BY <1>2 DEF vars, poolVars, wsVars, PoolInv, Pool, BindingsAndStatusesAgree,
                UsedChildrenStayOut, WorkspaceRows, RolesMatch
  <2>2. RunRows' /\ ActiveRunKeepsItsAccounts'
    BY <1>2 DEF vars, poolVars, wsVars, runData, queueVars, PoolInv, RunRows,
                ActiveRunKeepsItsAccounts, ActiveRunOwnsItsBindings, SnapshotMatches, Active
  <2> QED
    BY <1>1, <2>1, <2>2 DEF PoolInv
<1> QED
  BY <1>1, <1>2, PoolInvPool, PoolInvWorkspace, PoolInvUserQueue, PoolInvWorker DEF Next

LEMMA PoolInvariant == Spec => []PoolInv
BY InitPoolInv, NextPoolInv, TypeCorrect, PTL DEF Spec

\* No account leaks out of the pool and none is shared, whatever replacements,
\* rotations, edits and failures follow each other.
THEOREM PoolAgrees == Spec => []BindingsAndStatusesAgree
<1>1. PoolInv => BindingsAndStatusesAgree
  BY DEF PoolInv, Pool
<1> QED
  BY <1>1, PoolInvariant, PTL

\* A used-up child stays retired and out of every workspace.
THEOREM UsedStayOut == Spec => []UsedChildrenStayOut
<1>1. PoolInv => UsedChildrenStayOut
  BY DEF PoolInv, Pool
<1> QED
  BY <1>1, PoolInvariant, PTL

\* An active run keeps its accounts in their roles, and none of them is used up.
THEOREM RunsKeepTheirAccounts == Spec => []ActiveRunKeepsItsAccounts
<1>1. PoolInv => ActiveRunKeepsItsAccounts
  BY DEF PoolInv
<1> QED
  BY <1>1, PoolInvariant, PTL

(***************************************************************************)
(* What a step may do to used-up children and to runs.                     *)
(***************************************************************************)
UsedByRotation ==
  \A a \in used' \ used : \E w \in Workspaces :
    /\ wsCur[w] = a /\ wsCur'[w] = wsNext[w]
    /\ \A r \in Runs : ActiveRunOf(w, r) =>
          runState[r] # "queued" /\ runState'[r] = "succeeded"

LEMMA RotateUses ==
  ASSUME TypeOK, NEW w \in Workspaces, Rotate(w)
  PROVE  wsCur'[w] = wsNext[w] /\ used' \subseteq used \cup {wsCur[w]}
BY DEF Rotate, Rebind, TypeOK

LEMMA UsedStep ==
  ASSUME PoolInv, [Next]_vars
  PROVE  UsedByRotation
<1>1. ASSUME NEW w \in Workspaces, AdvanceWorkspaceAccounts(w)
      PROVE  UsedByRotation
  <2>1. \A r \in Runs : ~ActiveRunOf(w, r)
    BY <1>1, IdleHasNoRun DEF AdvanceWorkspaceAccounts, ActiveRunOf, PoolInv
  <2> QED
    BY <1>1, <2>1, RotateUses DEF AdvanceWorkspaceAccounts, UsedByRotation, PoolInv, Agree
<1>2. ASSUME NEW r \in Runs, CompleteRunAndRotate(r)
      PROVE  UsedByRotation
  <2>1. Executing(r) /\ Rotate(runWs[r]) /\ runWs[r] \in Workspaces /\ TypeOK
    BY <1>2 DEF CompleteRunAndRotate, Completable, SnapshotMatches, PoolInv, Agree, TypeOK
  <2>2. \A s \in Runs : ActiveRunOf(runWs[r], s) => s = r
    BY <2>1, OnlyActive DEF PoolInv, Executing
  <2>3. runState[r] # "queued" /\ runState'[r] = "succeeded"
    BY <1>2, <2>1 DEF CompleteRunAndRotate, Executing, TypeOK
  <2> QED
    BY <2>1, <2>2, <2>3, RotateUses DEF UsedByRotation
<1>3. ASSUME used' = used
      PROVE  UsedByRotation
  BY <1>3 DEF UsedByRotation
<1>4. CASE PoolNext
  <2>1. used' = used
    BY <1>4 DEF PoolNext, CreateAccount, TransitionAccountStatus, SetAliasState, SetMailboxStatus
  <2> QED
    BY <1>3, <2>1
<1>5. CASE WorkspaceNext
  <2>1. ASSUME NEW w \in Workspaces, NEW cur, NEW nxt, NEW o,
               CreateWorkspace(w, cur, nxt, o) \/ UpdateWorkspaceBindings(w, cur, nxt, o)
        PROVE  used' = used
    BY <2>1 DEF CreateWorkspace, UpdateWorkspaceBindings
  <2>2. ASSUME NEW w \in Workspaces, NEW a, PrepareHandoff(w, a)
        PROVE  used' = used
    BY <2>2 DEF PrepareHandoff
  <2>3. ASSUME NEW w \in Workspaces, NEW role, NEW c, ReplaceWorkspaceAccount(w, role, c)
        PROVE  used' = used
    BY <2>3 DEF ReplaceWorkspaceAccount, ReplaceAccount
  <2> QED
    BY <1>1, <1>3, <1>5, <2>1, <2>2, <2>3 DEF WorkspaceNext
<1>6. CASE UserQueueNext
  <2>1. ASSUME NEW R, NEW of, NEW pos, NEW kind, Enqueue(R, of, pos, kind)
        PROVE  used' = used
    BY <2>1 DEF Enqueue, poolVars
  <2>2. ASSUME NEW b, SetQueuePaused(b) PROVE used' = used
    BY <2>2 DEF SetQueuePaused, poolVars
  <2>3. ASSUME NEW pos, ReorderQueue(pos) PROVE used' = used
    BY <2>3 DEF ReorderQueue, poolVars
  <2>4. ASSUME NEW r \in Runs, RequestStop(r) \/ RetryRun(r) PROVE used' = used
    BY <2>4 DEF RequestStop, RetryRun, poolVars
  <2> QED
    BY <1>3, <1>6, <2>1, <2>2, <2>3, <2>4 DEF UserQueueNext
<1>7. CASE WorkerNext
  <2>1. RecoverInterruptedRuns => used' = used
    BY DEF RecoverInterruptedRuns, poolVars
  <2>2. ASSUME NEW r \in Runs, ClaimNext(r) \/ MarkRunCancelled(r) \/ FailRun(r)
        PROVE  used' = used
    BY <2>2 DEF ClaimNext, MarkRunCancelled, FailRun, poolVars
  <2>3. ASSUME NEW r \in Runs, NEW role, NEW c, FailRunAndReplaceAccount(r, role, c)
        PROVE  used' = used
    BY <2>3 DEF FailRunAndReplaceAccount, ReplaceAccount
  <2> QED
    BY <1>2, <1>3, <1>7, <2>1, <2>2, <2>3 DEF WorkerNext
<1>8. CASE UNCHANGED vars
  BY <1>3, <1>8 DEF vars, poolVars
<1> QED
  BY <1>4, <1>5, <1>6, <1>7, <1>8 DEF Next

\* A child is used up only by the rotation that promotes its successor, and
\* never under a run that does not succeed in that very step.
THEOREM UsedOnlyWhenSucceeding == Spec => UsedOnlyByRotation
<1>1. PoolInv /\ [Next]_vars => [UsedByRotation]_vars
  BY UsedStep
<1> QED
  BY <1>1, PoolInvariant, PTL DEF Spec, UsedOnlyByRotation, UsedByRotation

(***************************************************************************)
(* The life of a run.                                                      *)
(***************************************************************************)
StateMoves(r) ==
  /\ runState[r] \in {"succeeded", "cancelled"} => runState'[r] = runState[r]
  /\ runState[r] # "absent" =>
       <<runWs'[r], runCur'[r], runNext'[r], runKind'[r]>>
         = <<runWs[r], runCur[r], runNext[r], runKind[r]>>
  /\ runState'[r] = "queued" /\ runState[r] # "queued" =>
       \/ runState[r] = "absent"
       \/ Executing(r)
       \/ runState[r] = "failed" /\ SnapshotMatches(r)

KeepsBindings(r) ==
  Active(r) /\ Active(r)' =>
    wsCur'[runWs[r]] = wsCur[runWs[r]] /\ wsNext'[runWs[r]] = wsNext[runWs[r]]

KeepsGroup(r) ==
  Active(r)' /\ ~CarriesItsGroup(r)' =>
    runState[r] = "failed" \/ (Active(r) /\ ~CarriesItsGroup(r))

Lives(r) == StateMoves(r) /\ KeepsBindings(r) /\ KeepsGroup(r)

\* Every step that binds accounts leaves the bindings, and the group, of the
\* runs that stay active alone.
LEMMA RegroupLives ==
  ASSUME PoolInv, NEW w \in Workspaces, NEW cur \in Accounts,
         NEW nxt \in Accounts \cup {None}, NEW status, NEW owner,
         Regroups(w, cur, nxt, status, owner), OthersRun(w), NEW r \in Runs
  PROVE  KeepsBindings(r) /\ KeepsGroup(r)
<1>1. Pool /\ TypeOK
  BY DEF PoolInv, Agree
<1>2. SUFFICES ASSUME Active(r)'
               PROVE  /\ wsCur'[runWs[r]] = wsCur[runWs[r]] /\ wsNext'[runWs[r]] = wsNext[runWs[r]]
                      /\ CarriesItsGroup(r) => CarriesItsGroup(r)'
                      /\ Active(r)
  BY DEF KeepsBindings, KeepsGroup
<1>3. Active(r) /\ runWs[r] # w /\ UNCHANGED <<runWs, runCur, runNext>>
  BY <1>2 DEF OthersRun, runData
<1>4. /\ runWs[r] \in Workspaces /\ SnapshotMatches(r)
      /\ runCur[r] # None /\ runNext[r] # None
  BY <1>3 DEF PoolInv, ActiveRunKeepsItsAccounts, ActiveRunOwnsItsBindings, Agree, TypeOK
<1>5. Undisturbed(runWs[r], w, cur, nxt)
  BY <1>1, <1>3, <1>4, OthersKeep
<1>6. \A a \in {runCur[r], runNext[r]} : a # wsCur[w]
  BY <1>4, <1>5 DEF Undisturbed, SnapshotMatches
<1>7. \A a \in {runCur[r], runNext[r]} : a \notin used => a \notin used'
  BY <1>6 DEF Regroups
<1> QED
  BY <1>3, <1>5, <1>7 DEF Undisturbed, CarriesItsGroup

\* A step of the queue that leaves accounts, bindings and the data of runs.
LEMMA QueueLives ==
  ASSUME UNCHANGED <<used, wsCur, wsNext, wsOwner>>, UNCHANGED runData, NEW r \in Runs,
         Active(r)' => Active(r) \/ runState[r] = "failed"
  PROVE  KeepsBindings(r) /\ KeepsGroup(r)
BY DEF KeepsBindings, KeepsGroup, CarriesItsGroup, runData

\* The run tables are as they were, but for the positions.
SameRuns == UNCHANGED <<runState, runData, qState>>

LEMMA SameRunsMoves ==
  ASSUME SameRuns, NEW r \in Runs
  PROVE  StateMoves(r)
BY DEF SameRuns, StateMoves, runData

LEMMA PoolLives ==
  ASSUME PoolInv, PoolNext, NEW r \in Runs
  PROVE  Lives(r)
<1>1. UNCHANGED <<used, wsCur, wsNext, wsOwner>> /\ SameRuns
  BY DEF PoolNext, CreateAccount, TransitionAccountStatus, SetAliasState, SetMailboxStatus,
         wsVars, runData, queueVars, SameRuns
<1>2. UNCHANGED runData /\ (Active(r)' => Active(r))
  BY <1>1 DEF SameRuns, Active
<1> QED
  BY <1>1, <1>2, QueueLives, SameRunsMoves DEF Lives

LEMMA WorkspaceLives ==
  ASSUME PoolInv, WorkspaceNext, NEW r \in Runs
  PROVE  Lives(r)
<1>1. PICK w \in Workspaces, cur \in Accounts, nxt \in Accounts \cup {None},
           status \in WorkspaceStates, owner \in Owners \cup {None} :
        Edits(w, cur, nxt, status, owner)
  BY WorkspaceEdits
<1>2. OthersRun(w)
  BY <1>1, IdleHasNoRun DEF Edits, OthersRun, Active, runData, queueVars, PoolInv
<1>3. StateMoves(r)
  BY <1>1, SameRunsMoves DEF Edits, SameRuns, queueVars
<1> QED
  BY <1>1, <1>2, <1>3, RegroupLives DEF Lives, Edits

\* A run enters the queue with the children of its owner, or none.
LEMMA EnqueueLives ==
  ASSUME PoolInv, NEW R \in SUBSET Runs, NEW kind \in {"handoff", "rescue"},
         NEW of \in [R -> Workspaces], NEW pos \in [R -> 0..MaxPos],
         Enqueue(R, of, pos, kind), NEW r \in Runs
  PROVE  Lives(r)
<1>1. UNCHANGED <<used, wsCur, wsNext, wsOwner>>
  BY DEF Enqueue, poolVars
<1>2. CASE r \in R
  <2>1. /\ runState[r] = "absent" /\ runWs'[r] = of[r]
        /\ runCur'[r] = wsCur[of[r]] /\ runNext'[r] = wsNext[of[r]]
        /\ wsOwner[of[r]] # None => GroupAllowed(wsOwner[of[r]], {wsCur[of[r]], wsNext[of[r]]})
    BY <1>2 DEF Enqueue
  <2>2. CarriesItsGroup(r)'
    BY <1>1, <2>1 DEF CarriesItsGroup, GroupAllowed
  <2>3. ~Active(r)
    BY <2>1 DEF PoolInv, Agree, RunAndItemAgree, Active
  <2> QED
    BY <2>1, <2>2, <2>3 DEF Lives, StateMoves, KeepsBindings, KeepsGroup
<1>3. CASE r \notin R
  <2>1. UNCHANGED <<runState[r], runWs[r], runCur[r], runNext[r], runKind[r], qState[r]>>
    BY <1>3 DEF Enqueue
  <2> QED
    BY <1>1, <2>1 DEF Lives, StateMoves, KeepsBindings, KeepsGroup, CarriesItsGroup, Active
<1> QED
  BY <1>2, <1>3

LEMMA UserQueueLives ==
  ASSUME PoolInv, UserQueueNext, NEW r \in Runs
  PROVE  Lives(r)
<1>1. CASE \E R \in SUBSET Runs, kind \in {"handoff", "rescue"} :
             \E of \in [R -> Workspaces], pos \in [R -> 0..MaxPos] : Enqueue(R, of, pos, kind)
  BY <1>1, EnqueueLives
<1>2. CASE \/ \E b \in BOOLEAN : SetQueuePaused(b)
           \/ \E pos \in [{s \in Runs : qState[s] = "pending"} -> 0..MaxPos] :
                ReorderQueue(pos)
  <2>1. UNCHANGED <<used, wsCur, wsNext, wsOwner>> /\ SameRuns
    BY <1>2 DEF SetQueuePaused, ReorderQueue, poolVars, wsVars, SameRuns
  <2>2. UNCHANGED runData /\ (Active(r)' => Active(r))
    BY <2>1 DEF SameRuns, Active
  <2> QED
    BY <2>1, <2>2, QueueLives, SameRunsMoves DEF Lives
<1>3. ASSUME NEW s \in Runs, RequestStop(s) \/ RetryRun(s) PROVE Lives(r)
  <2>1. UNCHANGED <<used, wsCur, wsNext, wsOwner>> /\ UNCHANGED runData
    BY <1>3 DEF RequestStop, RetryRun, poolVars
  <2>2. Active(r)' => Active(r) \/ runState[r] = "failed"
    BY <1>3 DEF RequestStop, RetryRun, Finish, Active, PoolInv, Agree, TypeOK
  <2>3. StateMoves(r)
    BY <1>3, <2>1 DEF RequestStop, RetryRun, Finish, StateMoves, runData, PoolInv, Agree, TypeOK
  <2> QED
    BY <2>1, <2>2, <2>3, QueueLives DEF Lives
<1> QED
  BY <1>1, <1>2, <1>3 DEF UserQueueNext

LEMMA WorkerLives ==
  ASSUME PoolInv, WorkerNext, NEW r \in Runs
  PROVE  Lives(r)
<1>1. CASE RecoverInterruptedRuns
  <2>1. UNCHANGED <<used, wsCur, wsNext, wsOwner>> /\ UNCHANGED runData
    BY <1>1 DEF RecoverInterruptedRuns, poolVars
  <2>2. Active(r)' => Active(r)
    BY <1>1 DEF RecoverInterruptedRuns, Active
  <2>3. StateMoves(r)
    BY <1>1, <2>1 DEF RecoverInterruptedRuns, StateMoves, Executing, runData
  <2> QED
    BY <2>1, <2>2, <2>3, QueueLives DEF Lives
<1>2. ASSUME NEW s \in Runs, ClaimNext(s) \/ MarkRunCancelled(s) \/ FailRun(s) PROVE Lives(r)
  <2>1. UNCHANGED <<used, wsCur, wsNext, wsOwner>> /\ UNCHANGED runData
    BY <1>2 DEF ClaimNext, MarkRunCancelled, FailRun, poolVars
  <2>2. Active(r)' => Active(r)
    BY <1>2 DEF ClaimNext, Claimable, MarkRunCancelled, FailRun, Finish, Active,
                PoolInv, Agree, TypeOK
  <2>3. StateMoves(r)
    BY <1>2, <2>1 DEF ClaimNext, Claimable, MarkRunCancelled, FailRun, Finish, StateMoves,
                      Executing, runData, PoolInv, Agree, TypeOK
  <2> QED
    BY <2>1, <2>2, <2>3, QueueLives DEF Lives
<1>3. ASSUME NEW s \in Runs,
             \/ CompleteRunAndRotate(s)
             \/ \E role \in {"current", "next"}, c \in FailureCodes :
                  FailRunAndReplaceAccount(s, role, c)
      PROVE  Lives(r)
  <2>1. PICK cur \in Accounts, nxt \in Accounts \cup {None},
             status \in WorkspaceStates, owner \in Owners \cup {None} :
          Ends(s, cur, nxt, status, owner)
    BY <1>3, EndingRegroups
  <2>2. StateMoves(r)
    BY <2>1 DEF Ends, StateMoves, Executing, runData, PoolInv, Agree, TypeOK
  <2>3. OthersRun(runWs[s])
    BY <2>1, EndsAlone
  <2> QED
    BY <2>1, <2>2, <2>3, RegroupLives DEF Lives, Ends
<1> QED
  BY <1>1, <1>2, <1>3 DEF WorkerNext

\* Succeeded and cancelled runs are final, a run keeps its identity, it returns
\* to the queue only by recovery or by a retry, and its workspace keeps its
\* bindings, and the group they come from, while it is active.
THEOREM RunsLiveOnce == Spec => RunLifecycle
<1>1. PoolInv /\ [Next]_vars => [\A r \in Runs : Lives(r)]_vars
  BY PoolLives, WorkspaceLives, UserQueueLives, WorkerLives DEF Next
<1>2. [\A r \in Runs : Lives(r)]_vars
        => [\A r \in Runs :
             /\ runState[r] \in {"succeeded", "cancelled"} => runState'[r] = runState[r]
             /\ runState[r] # "absent" =>
                  <<runWs'[r], runCur'[r], runNext'[r], runKind'[r]>>
                    = <<runWs[r], runCur[r], runNext[r], runKind[r]>>
             /\ runState'[r] = "queued" /\ runState[r] # "queued" =>
                  \/ runState[r] = "absent"
                  \/ Executing(r)
                  \/ runState[r] = "failed" /\ SnapshotMatches(r)
             /\ Active(r) /\ Active(r)' =>
                  wsCur'[runWs[r]] = wsCur[runWs[r]] /\ wsNext'[runWs[r]] = wsNext[runWs[r]]
             /\ Active(r)' /\ ~CarriesItsGroup(r)' =>
                  runState[r] = "failed" \/ (Active(r) /\ ~CarriesItsGroup(r))]_vars
  BY DEF Lives, StateMoves, KeepsBindings, KeepsGroup
<1> QED
  BY <1>1, <1>2, PoolInvariant, PTL DEF Spec, RunLifecycle

(***************************************************************************)
(* The mailbox of an owner workspace.  Its accounts need not be of the     *)
(* owner's mailbox; who may take it out of there is shown here.            *)
(***************************************************************************)
InOneMailbox(w) ==
  wsOwner[w] # None =>
    \A a \in {wsCur[w], wsNext[w]} \ {None} : MailboxOf[a] = MailboxOf[wsOwner[w]]

Replaces(w) ==
  \E role \in {"current", "next"}, c \in FailureCodes :
    \/ ReplaceWorkspaceAccount(w, role, c)
    \/ \E r \in Runs : runWs[r] = w /\ FailRunAndReplaceAccount(r, role, c)

\* A workspace whose accounts are of its owner's mailbox leaves that mailbox
\* only when one of its accounts is replaced: no binding by a user, no
\* prepared handoff, no rotation and no end of a run takes it out.
MailboxLeftByReplacement ==
  [][\A w \in Workspaces : InOneMailbox(w) /\ ~InOneMailbox(w)' => Replaces(w)]_vars

LEMMA GroupIsOfTheMailbox ==
  ASSUME NEW owner \in Owners, NEW S, S \subseteq Accounts, GroupAllowed(owner, S)
  PROVE  \A a \in S : MailboxOf[a] = MailboxOf[owner]
BY IdsAssumption, AccountsAssumption DEF GroupAllowed

\* Another workspace's bindings are none of w's.
LEMMA OthersMailbox ==
  ASSUME TypeOK, NEW w \in Workspaces, NEW v \in Workspaces \ {w}, InOneMailbox(w),
         NEW cur, NEW nxt, NEW status, Rebind(v, cur, nxt, status),
         wsOwner'[w] = wsOwner[w]
  PROVE  InOneMailbox(w)'
BY DEF TypeOK, Rebind, InOneMailbox

LEMMA RotationKeepsMailbox ==
  ASSUME TypeOK, NEW w \in Workspaces, InOneMailbox(w), NEW v \in Workspaces, Rotate(v)
  PROVE  InOneMailbox(w)'
<1>1. PICK nxt \in RotationNexts(v) : Rebind(v, wsNext[v], nxt, StatusFor(nxt))
  BY DEF Rotate
<1>2. wsOwner' = wsOwner
  BY DEF Rotate
<1>3. CASE v = w /\ wsOwner[w] # None
  <2>1. nxt = None
    BY <1>3 DEF RotationNexts
  <2> QED
    BY <1>1, <1>2, <1>3, <2>1 DEF TypeOK, Rebind, InOneMailbox
<1>4. CASE v = w /\ wsOwner[w] = None
  BY <1>2, <1>4 DEF InOneMailbox
<1>5. CASE v # w
  BY <1>1, <1>2, <1>5, OthersMailbox
<1> QED
  BY <1>3, <1>4, <1>5

\* A replacement in another workspace.
LEMMA ReplacementElsewhere ==
  ASSUME TypeOK, NEW w \in Workspaces, InOneMailbox(w), NEW v \in Workspaces \ {w},
         NEW role, NEW c, NEW m, ReplaceAccount(v, role, c, m)
  PROVE  InOneMailbox(w)'
<1>1. wsOwner' = wsOwner
  BY DEF ReplaceAccount
<1>2. \E cur, nxt, status : Rebind(v, cur, nxt, status)
  BY DEF ReplaceAccount
<1> QED
  BY <1>1, <1>2, OthersMailbox

\* The user binds the accounts of a workspace, or a handoff is prepared.
LEMMA BindingKeepsMailbox ==
  ASSUME TypeOK, NEW w \in Workspaces, InOneMailbox(w), NEW v \in Workspaces,
         NEW cur \in Accounts, NEW nxt \in Accounts \cup {None}, NEW o \in Owners \cup {None},
         \/ CreateWorkspace(v, cur, nxt, o) \/ UpdateWorkspaceBindings(v, cur, nxt, o)
  PROVE  InOneMailbox(w)'
<1>1. /\ GroupAllowed(o, {cur, nxt} \ {None}) /\ Rebind(v, cur, nxt, StatusFor(nxt))
      /\ wsOwner' = [wsOwner EXCEPT ![v] = o]
  BY DEF CreateWorkspace, UpdateWorkspaceBindings
<1>2. CASE v = w
  <2>1. o # None => \A a \in {cur, nxt} \ {None} : MailboxOf[a] = MailboxOf[o]
    BY <1>1, GroupIsOfTheMailbox
  <2>2. wsOwner'[w] = o /\ wsCur'[w] = cur /\ wsNext'[w] = nxt
    BY <1>1, <1>2 DEF TypeOK, Rebind
  <2> QED
    BY <2>1, <2>2 DEF InOneMailbox
<1>3. CASE v # w
  BY <1>1, <1>3, OthersMailbox DEF TypeOK
<1> QED
  BY <1>2, <1>3

LEMMA PrepareKeepsMailbox ==
  ASSUME TypeOK, NEW w \in Workspaces, InOneMailbox(w), NEW v \in Workspaces,
         NEW a \in Accounts, PrepareHandoff(v, a)
  PROVE  InOneMailbox(w)'
<1>1. Rebind(v, wsCur[v], a, "ready") /\ wsOwner' = wsOwner
  BY DEF PrepareHandoff
<1>2. CASE v = w
  <2>1. MailboxOf[a] = MailboxOf[wsOwner[w]]
    BY <1>2, AccountsAssumption DEF PrepareHandoff
  <2>2. wsCur'[w] = wsCur[w] /\ wsNext'[w] = a
    BY <1>1, <1>2 DEF TypeOK, Rebind
  <2> QED
    BY <1>1, <2>1, <2>2 DEF InOneMailbox
<1>3. CASE v # w
  BY <1>1, <1>3, OthersMailbox
<1> QED
  BY <1>2, <1>3

\* What does not touch the bindings.
LEMMA SameBindings ==
  ASSUME NEW w \in Workspaces, InOneMailbox(w), UNCHANGED <<wsCur, wsNext, wsOwner>>
  PROVE  InOneMailbox(w)'
BY DEF InOneMailbox

LEMMA WorkspaceMailbox ==
  ASSUME TypeOK, NEW w \in Workspaces, InOneMailbox(w), ~Replaces(w), WorkspaceNext
  PROVE  InOneMailbox(w)'
<1>1. PICK v \in Workspaces :
        \/ \E cur \in Accounts, nxt \in Accounts \cup {None}, o \in Owners \cup {None} :
             CreateWorkspace(v, cur, nxt, o) \/ UpdateWorkspaceBindings(v, cur, nxt, o)
        \/ \E a \in Accounts : PrepareHandoff(v, a)
        \/ AdvanceWorkspaceAccounts(v)
        \/ \E role \in {"current", "next"}, c \in FailureCodes : ReplaceWorkspaceAccount(v, role, c)
  BY DEF WorkspaceNext
<1>2. CASE AdvanceWorkspaceAccounts(v)
  BY <1>2, RotationKeepsMailbox DEF AdvanceWorkspaceAccounts
<1>3. ASSUME NEW role \in {"current", "next"}, NEW c \in FailureCodes,
             ReplaceWorkspaceAccount(v, role, c)
      PROVE  InOneMailbox(w)'
  <2>1. v # w
    BY <1>3 DEF Replaces
  <2> QED
    BY <1>3, <2>1, ReplacementElsewhere DEF ReplaceWorkspaceAccount
<1> QED
  BY <1>1, <1>2, <1>3, BindingKeepsMailbox, PrepareKeepsMailbox

LEMMA QueueMailbox ==
  ASSUME TypeOK, NEW w \in Workspaces, InOneMailbox(w), ~Replaces(w),
         \A r \in Runs : Executing(r) => runWs[r] \in Workspaces, UserQueueNext \/ WorkerNext
  PROVE  InOneMailbox(w)'
<1>1. CASE UserQueueNext
  <2>1. ASSUME NEW R, NEW kind, NEW of, NEW pos, Enqueue(R, of, pos, kind)
        PROVE  InOneMailbox(w)'
    <3>1. wsCur' = wsCur /\ wsNext' = wsNext /\ wsOwner' = wsOwner
      BY <2>1 DEF Enqueue
    <3> QED
      BY <3>1, SameBindings
  <2>2. ASSUME NEW b, SetQueuePaused(b) PROVE InOneMailbox(w)'
    BY <2>2, SameBindings DEF SetQueuePaused, wsVars
  <2>3. ASSUME NEW pos, ReorderQueue(pos) PROVE InOneMailbox(w)'
    BY <2>3, SameBindings DEF ReorderQueue, wsVars
  <2>4. ASSUME NEW r \in Runs, RequestStop(r) \/ RetryRun(r) PROVE InOneMailbox(w)'
    <3>1. wsCur' = wsCur /\ wsNext' = wsNext /\ wsOwner' = wsOwner
      BY <2>4 DEF RequestStop, RetryRun
    <3> QED
      BY <3>1, SameBindings
  <2> QED
    BY <1>1, <2>1, <2>2, <2>3, <2>4 DEF UserQueueNext
<1>2. CASE RecoverInterruptedRuns
  BY <1>2, SameBindings DEF RecoverInterruptedRuns
<1>3. ASSUME NEW r \in Runs, ClaimNext(r) \/ MarkRunCancelled(r) \/ FailRun(r)
      PROVE  InOneMailbox(w)'
  BY <1>3, SameBindings DEF ClaimNext, MarkRunCancelled, FailRun
<1>4. ASSUME NEW r \in Runs, CompleteRunAndRotate(r) PROVE InOneMailbox(w)'
  BY <1>4, RotationKeepsMailbox DEF CompleteRunAndRotate, Completable
<1>5. ASSUME NEW r \in Runs, NEW role \in {"current", "next"}, NEW c \in FailureCodes,
             FailRunAndReplaceAccount(r, role, c)
      PROVE  InOneMailbox(w)'
  <2>1. runWs[r] \in Workspaces \ {w}
    BY <1>5 DEF Replaces, FailRunAndReplaceAccount
  <2> QED
    BY <1>5, <2>1, ReplacementElsewhere DEF FailRunAndReplaceAccount
<1> QED
  BY <1>1, <1>2, <1>3, <1>4, <1>5 DEF WorkerNext

\* The code keeps what IMPLEMENTATION_PLAN.md asks of an owner workspace in
\* every operation but the replacement of an account (_replace_workspace_
\* account_tx, which looks in other mailboxes too).
THEOREM MailboxKeptButByReplacement == Spec => MailboxLeftByReplacement
<1>1. PoolInv /\ [Next]_vars =>
        [\A w \in Workspaces : InOneMailbox(w) /\ ~InOneMailbox(w)' => Replaces(w)]_vars
  <2> SUFFICES ASSUME PoolInv, Next, NEW w \in Workspaces, InOneMailbox(w), ~Replaces(w)
               PROVE  InOneMailbox(w)'
    OBVIOUS
  <2>1. TypeOK /\ \A r \in Runs : Executing(r) => runWs[r] \in Workspaces
    <3>1. TypeOK /\ RunHasWorkspace
      BY DEF PoolInv, Agree
    <3> QED
      BY <3>1 DEF RunHasWorkspace, Executing
  <2>2. CASE PoolNext
    <3>1. UNCHANGED <<wsCur, wsNext, wsOwner>>
      BY <2>2 DEF PoolNext, CreateAccount, TransitionAccountStatus, SetAliasState,
         SetMailboxStatus, wsVars
    <3> QED
      BY <3>1, SameBindings
  <2> QED
    BY <2>1, <2>2, WorkspaceMailbox, QueueMailbox DEF Next
<1> QED
  BY <1>1, PoolInvariant, PTL DEF Spec, MailboxLeftByReplacement
=============================================================================

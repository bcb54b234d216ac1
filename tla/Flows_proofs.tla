--------------------------- MODULE Flows_proofs -----------------------------
(***************************************************************************)
(* Theorems about the flows on a Team beside the handoff and the rescue:   *)
(* the sessions of the children, the import and restore of backups, the    *)
(* publication and the alerts.  The models share no state, and each        *)
(* theorem speaks of the specification of one of them.                     *)
(***************************************************************************)
EXTENDS Sessions, Backups, Publish, Alerts, FiniteSetTheorems, TLAPS

(***************************************************************************)
(* The sessions of the children.                                           *)
(***************************************************************************)
\* A handoff and a refresh exclude each other, and what a refresh works on was
\* current when it began: a child that is retired meanwhile is overtaken.
OneSessionUser ==
  /\ hpc # "off" => rpc = "off" /\ child < MaxChildren
  /\ refreshed <= child
  /\ refreshed # 0 /\ refreshed < child => refreshed \in overtaken

\* What a refresh has done at each of its places: one login with a code at the
\* most, which is newer than the session it read and than the one refused.
LoginsOfRefresh ==
  /\ rpc \in {"off", "inputs", "old_login", "code"} => codes = 0 /\ refused = NoSession /\ session = NoSession
  /\ rpc = "pat" => /\ refused = NoSession
                    /\ (codes = 0 \/ (codes = 1 /\ session # savedCookie))
  /\ rpc = "fresh_login" => codes = 0
  /\ rpc \in {"fresh_pat", "export"} => codes <= 1 /\ (refused # NoSession => session # refused)

\* The session a refresh is logged in with is stored.
SessionIsStored ==
  rpc \in {"pat", "fresh_pat", "export"} /\ refreshed \notin overtaken => cookie[refreshed] = session

SessionsInv ==
  /\ SessionsTypeOK /\ \A c \in 1..MaxChildren : cookie[c] <= logins
  /\ OneSessionUser /\ LoginsOfRefresh /\ SessionIsStored /\ RetiredHaveNoSession

LEMMA SessionsInvInit == SessionsInit => SessionsInv
BY SessionsAssumption DEF SessionsInit, SessionsInv, SessionsTypeOK, OneSessionUser,
   LoginsOfRefresh,
   SessionIsStored, RetiredHaveNoSession, NoSession, RefreshPlaces

LEMMA KeptOrReset ==
  ASSUME SessionsTypeOK, UNCHANGED refreshed \/ refreshed' = 0, UNCHANGED recent \/ recent' = {},
         UNCHANGED codes \/ codes' = 0
  PROVE  refreshed' \in 0..MaxChildren /\ recent' \subseteq 1..MaxChildren /\ codes' \in Nat
<1>1. refreshed' \in 0..MaxChildren
  <2>1. refreshed \in 0..MaxChildren /\ 0 \in 0..MaxChildren
    BY SessionsAssumption DEF SessionsTypeOK
  <2> QED
    BY <2>1
<1>2. recent' \subseteq 1..MaxChildren
  BY DEF SessionsTypeOK
<1>3. codes' \in Nat
  BY DEF SessionsTypeOK
<1> QED
  BY <1>1, <1>2, <1>3

LEMMA SameServer ==
  ASSUME SessionsTypeOK, UNCHANGED <<logins, exchangeable, trusted>>
  PROVE  logins' \in 0..MaxLogins /\ exchangeable' \subseteq 1..logins' /\ trusted' \subseteq 1..logins'
BY DEF SessionsTypeOK

LEMMA SessionsInvStep ==
  ASSUME SessionsInv, [SessionsNext]_sessionVars
  PROVE  SessionsInv'
<1> USE SessionsAssumption DEF SessionsInv, refreshOp, server, sessionVars, NoSession
<1>1. CASE RefreshStart
  <2>1. SessionsTypeOK'
    BY <1>1 DEF RefreshStart, SessionsTypeOK, RefreshPlaces
  <2>2. \A c \in 1..MaxChildren : cookie'[c] <= logins'
    BY <1>1 DEF RefreshStart, SessionsTypeOK
  <2>3. OneSessionUser'
    BY <1>1 DEF RefreshStart, SessionsTypeOK, OneSessionUser
  <2>4. LoginsOfRefresh'
    BY <1>1 DEF RefreshStart, SessionsTypeOK, LoginsOfRefresh, OneSessionUser
  <2>5. SessionIsStored'
    BY <1>1 DEF RefreshStart, SessionsTypeOK, SessionIsStored, OneSessionUser
  <2>6. RetiredHaveNoSession'
    BY <1>1 DEF RefreshStart, SessionsTypeOK, RetiredHaveNoSession, OneSessionUser
  <2> QED
    BY <2>1, <2>2, <2>3, <2>4, <2>5, <2>6
<1>2. CASE RefreshInputs
  <2>1. SessionsTypeOK'
    <3>1. child' \in 1..MaxChildren /\ hpc' \in {"off", "old_login", "new_login", "complete"}
      BY <1>2 DEF RefreshInputs, RefreshRaised, RefreshOver, RefreshGoto, SessionsTypeOK,
         OneSessionUser
    <3>2. cookie' \in [1..MaxChildren -> 0..MaxLogins] /\ overtaken' \subseteq 1..MaxChildren
      BY <1>2 DEF RefreshInputs, RefreshRaised, RefreshOver, RefreshGoto, SessionsTypeOK,
         OneSessionUser
    <3>3. logins' \in 0..MaxLogins /\ exchangeable' \subseteq 1..logins' /\ trusted' \subseteq 1..logins'
      <4>1. UNCHANGED <<logins, exchangeable, trusted>>
        BY <1>2 DEF RefreshInputs, RefreshRaised, RefreshOver, RefreshGoto
      <4> QED
        BY <4>1, SameServer
    <3>4. refreshed' \in 0..MaxChildren /\ recent' \subseteq 1..MaxChildren /\ codes' \in Nat
      <4>1. UNCHANGED refreshed \/ refreshed' = 0
        BY <1>2 DEF RefreshInputs, RefreshRaised, RefreshOver, RefreshGoto
      <4>2. UNCHANGED recent \/ recent' = {}
        BY <1>2 DEF RefreshInputs, RefreshRaised, RefreshOver, RefreshGoto
      <4>3. UNCHANGED codes \/ codes' = 0
        BY <1>2 DEF RefreshInputs, RefreshRaised, RefreshOver, RefreshGoto
      <4> QED
        BY <4>1, <4>2, <4>3, KeptOrReset
    <3>5. rpc' \in RefreshPlaces /\ (rpc' = "off" <=> refreshed' = 0)
      BY <1>2 DEF RefreshInputs, RefreshRaised, RefreshOver, RefreshGoto, SessionsTypeOK,
         OneSessionUser, RefreshPlaces
    <3>6. savedCookie' \in 0..logins' /\ session' \in 0..logins' /\ refused' \in 0..logins'
      BY <1>2 DEF RefreshInputs, RefreshRaised, RefreshOver, RefreshGoto, SessionsTypeOK,
         OneSessionUser
    <3> QED
      BY <3>1, <3>2, <3>3, <3>4, <3>5, <3>6 DEF SessionsTypeOK
  <2>2. \A c \in 1..MaxChildren : cookie'[c] <= logins'
    BY <1>2 DEF RefreshInputs, RefreshRaised, RefreshOver, RefreshGoto, SessionsTypeOK
  <2>3. OneSessionUser'
    BY <1>2 DEF RefreshInputs, RefreshRaised, RefreshOver, RefreshGoto, SessionsTypeOK,
       OneSessionUser
  <2>4. LoginsOfRefresh'
    BY <1>2 DEF RefreshInputs, RefreshRaised, RefreshOver, RefreshGoto, SessionsTypeOK,
       LoginsOfRefresh, OneSessionUser
  <2>5. SessionIsStored'
    BY <1>2 DEF RefreshInputs, RefreshRaised, RefreshOver, RefreshGoto, SessionsTypeOK,
       SessionIsStored, OneSessionUser
  <2>6. RetiredHaveNoSession'
    BY <1>2 DEF RefreshInputs, RefreshRaised, RefreshOver, RefreshGoto, SessionsTypeOK,
       RetiredHaveNoSession, OneSessionUser
  <2> QED
    BY <2>1, <2>2, <2>3, <2>4, <2>5, <2>6
<1>3. CASE RefreshSavedLogin
  <2>1. SessionsTypeOK'
    <3>1. child' \in 1..MaxChildren /\ hpc' \in {"off", "old_login", "new_login", "complete"}
      BY <1>3 DEF RefreshSavedLogin, SetSession, ClearSession, RefreshGoto, SessionsTypeOK,
         OneSessionUser
    <3>2. cookie' \in [1..MaxChildren -> 0..MaxLogins] /\ overtaken' \subseteq 1..MaxChildren
      <4>1. UNCHANGED overtaken
        BY <1>3 DEF RefreshSavedLogin, SetSession, ClearSession, RefreshGoto
      <4>2. cookie' = cookie \/ \E s \in 0..MaxLogins : cookie' = [cookie EXCEPT ![refreshed] = s]
        BY <1>3 DEF RefreshSavedLogin, SetSession, ClearSession, RefreshGoto, SessionsTypeOK
      <4>3. cookie' \in [1..MaxChildren -> 0..MaxLogins]
        BY <4>2 DEF SessionsTypeOK
      <4> QED
        BY <4>1, <4>3 DEF SessionsTypeOK
    <3>3. logins' \in 0..MaxLogins /\ exchangeable' \subseteq 1..logins' /\ trusted' \subseteq 1..logins'
      BY <1>3 DEF RefreshSavedLogin, SetSession, ClearSession, RefreshGoto, SessionsTypeOK,
         OneSessionUser
    <3>4. refreshed' \in 0..MaxChildren /\ recent' \subseteq 1..MaxChildren /\ codes' \in Nat
      BY <1>3 DEF RefreshSavedLogin, SetSession, ClearSession, RefreshGoto, SessionsTypeOK,
         OneSessionUser
    <3>5. rpc' \in RefreshPlaces /\ (rpc' = "off" <=> refreshed' = 0)
      BY <1>3 DEF RefreshSavedLogin, SetSession, ClearSession, RefreshGoto, SessionsTypeOK,
         OneSessionUser, RefreshPlaces
    <3>6. savedCookie' \in 0..logins' /\ session' \in 0..logins' /\ refused' \in 0..logins'
      BY <1>3 DEF RefreshSavedLogin, SetSession, ClearSession, RefreshGoto, SessionsTypeOK,
         OneSessionUser
    <3> QED
      BY <3>1, <3>2, <3>3, <3>4, <3>5, <3>6 DEF SessionsTypeOK
  <2>2. \A c \in 1..MaxChildren : cookie'[c] <= logins'
    BY <1>3, SMTT(30) DEF RefreshSavedLogin, SetSession, ClearSession, RefreshGoto, SessionsTypeOK
  <2>3. OneSessionUser'
    BY <1>3 DEF RefreshSavedLogin, SetSession, ClearSession, RefreshGoto, SessionsTypeOK,
       OneSessionUser
  <2>4. LoginsOfRefresh'
    BY <1>3 DEF RefreshSavedLogin, SetSession, ClearSession, RefreshGoto, SessionsTypeOK,
       LoginsOfRefresh, OneSessionUser
  <2>5. SessionIsStored'
    BY <1>3 DEF RefreshSavedLogin, SetSession, ClearSession, RefreshGoto, SessionsTypeOK,
       SessionIsStored, OneSessionUser
  <2>6. RetiredHaveNoSession'
    BY <1>3 DEF RefreshSavedLogin, SetSession, ClearSession, RefreshGoto, SessionsTypeOK,
       RetiredHaveNoSession, OneSessionUser
  <2> QED
    BY <2>1, <2>2, <2>3, <2>4, <2>5, <2>6
<1>4. CASE RefreshCodeLogin
  <2>1. SessionsTypeOK'
    BY <1>4 DEF RefreshCodeLogin, SetSession, NewSession, RefreshGoto, SessionsTypeOK, RefreshPlaces
  <2>2. \A c \in 1..MaxChildren : cookie'[c] <= logins'
    BY <1>4 DEF RefreshCodeLogin, SetSession, NewSession, RefreshGoto, SessionsTypeOK
  <2>3. OneSessionUser'
    BY <1>4 DEF RefreshCodeLogin, SetSession, NewSession, RefreshGoto, SessionsTypeOK,
       OneSessionUser
  <2>4. LoginsOfRefresh'
    BY <1>4 DEF RefreshCodeLogin, SetSession, NewSession, RefreshGoto, SessionsTypeOK,
       LoginsOfRefresh, OneSessionUser
  <2>5. SessionIsStored'
    BY <1>4 DEF RefreshCodeLogin, SetSession, NewSession, RefreshGoto, SessionsTypeOK,
       SessionIsStored, OneSessionUser
  <2>6. RetiredHaveNoSession'
    BY <1>4 DEF RefreshCodeLogin, SetSession, NewSession, RefreshGoto, SessionsTypeOK,
       RetiredHaveNoSession, OneSessionUser
  <2> QED
    BY <2>1, <2>2, <2>3, <2>4, <2>5, <2>6
<1>5. CASE RefreshFreshLogin
  <2>1. SessionsTypeOK'
    BY <1>5 DEF RefreshFreshLogin, SetSession, NewSession, RefreshGoto, SessionsTypeOK,
       RefreshPlaces
  <2>2. \A c \in 1..MaxChildren : cookie'[c] <= logins'
    BY <1>5 DEF RefreshFreshLogin, SetSession, NewSession, RefreshGoto, SessionsTypeOK
  <2>3. OneSessionUser'
    BY <1>5 DEF RefreshFreshLogin, SetSession, NewSession, RefreshGoto, SessionsTypeOK,
       OneSessionUser
  <2>4. LoginsOfRefresh'
    BY <1>5 DEF RefreshFreshLogin, SetSession, NewSession, RefreshGoto, SessionsTypeOK,
       LoginsOfRefresh, OneSessionUser
  <2>5. SessionIsStored'
    BY <1>5 DEF RefreshFreshLogin, SetSession, NewSession, RefreshGoto, SessionsTypeOK,
       SessionIsStored, OneSessionUser
  <2>6. RetiredHaveNoSession'
    BY <1>5 DEF RefreshFreshLogin, SetSession, NewSession, RefreshGoto, SessionsTypeOK,
       RetiredHaveNoSession, OneSessionUser
  <2> QED
    BY <2>1, <2>2, <2>3, <2>4, <2>5, <2>6
<1>6. CASE CreateRefreshedPat
  <2>1. SessionsTypeOK'
    <3>1. child' \in 1..MaxChildren /\ hpc' \in {"off", "old_login", "new_login", "complete"}
      BY <1>6 DEF CreateRefreshedPat, ClearSession, RefreshGoto, LoggedInWithSaved, SessionsTypeOK,
         OneSessionUser
    <3>2. cookie' \in [1..MaxChildren -> 0..MaxLogins] /\ overtaken' \subseteq 1..MaxChildren
      <4>1. UNCHANGED overtaken
        BY <1>6 DEF CreateRefreshedPat, ClearSession, RefreshGoto, LoggedInWithSaved
      <4>2. cookie' = cookie \/ \E s \in 0..MaxLogins : cookie' = [cookie EXCEPT ![refreshed] = s]
        BY <1>6 DEF CreateRefreshedPat, ClearSession, RefreshGoto, LoggedInWithSaved, SessionsTypeOK
      <4>3. cookie' \in [1..MaxChildren -> 0..MaxLogins]
        BY <4>2 DEF SessionsTypeOK
      <4> QED
        BY <4>1, <4>3 DEF SessionsTypeOK
    <3>3. logins' \in 0..MaxLogins /\ exchangeable' \subseteq 1..logins' /\ trusted' \subseteq 1..logins'
      BY <1>6 DEF CreateRefreshedPat, ClearSession, RefreshGoto, LoggedInWithSaved, SessionsTypeOK,
         OneSessionUser
    <3>4. refreshed' \in 0..MaxChildren /\ recent' \subseteq 1..MaxChildren /\ codes' \in Nat
      BY <1>6 DEF CreateRefreshedPat, ClearSession, RefreshGoto, LoggedInWithSaved, SessionsTypeOK,
         OneSessionUser
    <3>5. rpc' \in RefreshPlaces /\ (rpc' = "off" <=> refreshed' = 0)
      BY <1>6 DEF CreateRefreshedPat, ClearSession, RefreshGoto, LoggedInWithSaved, SessionsTypeOK,
         OneSessionUser, RefreshPlaces
    <3>6. savedCookie' \in 0..logins' /\ session' \in 0..logins' /\ refused' \in 0..logins'
      BY <1>6 DEF CreateRefreshedPat, ClearSession, RefreshGoto, LoggedInWithSaved, SessionsTypeOK,
         OneSessionUser
    <3> QED
      BY <3>1, <3>2, <3>3, <3>4, <3>5, <3>6 DEF SessionsTypeOK
  <2>2. \A c \in 1..MaxChildren : cookie'[c] <= logins'
    BY <1>6 DEF CreateRefreshedPat, ClearSession, RefreshGoto, LoggedInWithSaved, SessionsTypeOK
  <2>3. OneSessionUser'
    BY <1>6 DEF CreateRefreshedPat, ClearSession, RefreshGoto, LoggedInWithSaved, SessionsTypeOK,
       OneSessionUser
  <2>4. LoginsOfRefresh'
    BY <1>6 DEF CreateRefreshedPat, ClearSession, RefreshGoto, LoggedInWithSaved, SessionsTypeOK,
       LoginsOfRefresh, OneSessionUser
  <2>5. SessionIsStored'
    BY <1>6 DEF CreateRefreshedPat, ClearSession, RefreshGoto, LoggedInWithSaved, SessionsTypeOK,
       SessionIsStored, OneSessionUser
  <2>6. RetiredHaveNoSession'
    BY <1>6 DEF CreateRefreshedPat, ClearSession, RefreshGoto, LoggedInWithSaved, SessionsTypeOK,
       RetiredHaveNoSession, OneSessionUser
  <2> QED
    BY <2>1, <2>2, <2>3, <2>4, <2>5, <2>6
<1>7. CASE RefreshPatRefused
  <2>1. SessionsTypeOK'
    BY <1>7 DEF RefreshPatRefused, RefreshRaised, RefreshOver, LoggedInWithSaved, SessionsTypeOK,
       RefreshPlaces
  <2>2. \A c \in 1..MaxChildren : cookie'[c] <= logins'
    BY <1>7 DEF RefreshPatRefused, RefreshRaised, RefreshOver, LoggedInWithSaved, SessionsTypeOK
  <2>3. OneSessionUser'
    BY <1>7 DEF RefreshPatRefused, RefreshRaised, RefreshOver, LoggedInWithSaved, SessionsTypeOK,
       OneSessionUser
  <2>4. LoginsOfRefresh'
    BY <1>7 DEF RefreshPatRefused, RefreshRaised, RefreshOver, LoggedInWithSaved, SessionsTypeOK,
       LoginsOfRefresh, OneSessionUser
  <2>5. SessionIsStored'
    BY <1>7 DEF RefreshPatRefused, RefreshRaised, RefreshOver, LoggedInWithSaved, SessionsTypeOK,
       SessionIsStored, OneSessionUser
  <2>6. RetiredHaveNoSession'
    BY <1>7 DEF RefreshPatRefused, RefreshRaised, RefreshOver, LoggedInWithSaved, SessionsTypeOK,
       RetiredHaveNoSession, OneSessionUser
  <2> QED
    BY <2>1, <2>2, <2>3, <2>4, <2>5, <2>6
<1>8. CASE RefreshExport
  <2>1. SessionsTypeOK'
    BY <1>8 DEF RefreshExport, RefreshOver, SessionsTypeOK, RefreshPlaces
  <2>2. \A c \in 1..MaxChildren : cookie'[c] <= logins'
    BY <1>8 DEF RefreshExport, RefreshOver, SessionsTypeOK
  <2>3. OneSessionUser'
    BY <1>8 DEF RefreshExport, RefreshOver, SessionsTypeOK, OneSessionUser
  <2>4. LoginsOfRefresh'
    BY <1>8 DEF RefreshExport, RefreshOver, SessionsTypeOK, LoginsOfRefresh, OneSessionUser
  <2>5. SessionIsStored'
    BY <1>8 DEF RefreshExport, RefreshOver, SessionsTypeOK, SessionIsStored, OneSessionUser
  <2>6. RetiredHaveNoSession'
    BY <1>8 DEF RefreshExport, RefreshOver, SessionsTypeOK, RetiredHaveNoSession, OneSessionUser
  <2> QED
    BY <2>1, <2>2, <2>3, <2>4, <2>5, <2>6
<1>9. CASE RefreshFault
  <2>1. SessionsTypeOK'
    <3>1. child' \in 1..MaxChildren /\ hpc' \in {"off", "old_login", "new_login", "complete"}
      BY <1>9 DEF RefreshFault, RefreshRaised, RefreshOver, SessionsTypeOK, OneSessionUser
    <3>2. cookie' \in [1..MaxChildren -> 0..MaxLogins] /\ overtaken' \subseteq 1..MaxChildren
      BY <1>9 DEF RefreshFault, RefreshRaised, RefreshOver, SessionsTypeOK, OneSessionUser
    <3>3. logins' \in 0..MaxLogins /\ exchangeable' \subseteq 1..logins' /\ trusted' \subseteq 1..logins'
      <4>1. UNCHANGED <<logins, exchangeable, trusted>>
        BY <1>9 DEF RefreshFault, RefreshRaised, RefreshOver
      <4> QED
        BY <4>1, SameServer
    <3>4. refreshed' \in 0..MaxChildren /\ recent' \subseteq 1..MaxChildren /\ codes' \in Nat
      <4>1. UNCHANGED refreshed \/ refreshed' = 0
        BY <1>9 DEF RefreshFault, RefreshRaised, RefreshOver
      <4>2. UNCHANGED recent \/ recent' = {}
        BY <1>9 DEF RefreshFault, RefreshRaised, RefreshOver
      <4>3. UNCHANGED codes \/ codes' = 0
        BY <1>9 DEF RefreshFault, RefreshRaised, RefreshOver
      <4> QED
        BY <4>1, <4>2, <4>3, KeptOrReset
    <3>5. rpc' \in RefreshPlaces /\ (rpc' = "off" <=> refreshed' = 0)
      BY <1>9 DEF RefreshFault, RefreshRaised, RefreshOver, SessionsTypeOK, OneSessionUser,
         RefreshPlaces
    <3>6. savedCookie' \in 0..logins' /\ session' \in 0..logins' /\ refused' \in 0..logins'
      BY <1>9 DEF RefreshFault, RefreshRaised, RefreshOver, SessionsTypeOK, OneSessionUser
    <3> QED
      BY <3>1, <3>2, <3>3, <3>4, <3>5, <3>6 DEF SessionsTypeOK
  <2>2. \A c \in 1..MaxChildren : cookie'[c] <= logins'
    BY <1>9 DEF RefreshFault, RefreshRaised, RefreshOver, SessionsTypeOK
  <2>3. OneSessionUser'
    BY <1>9 DEF RefreshFault, RefreshRaised, RefreshOver, SessionsTypeOK, OneSessionUser
  <2>4. LoginsOfRefresh'
    BY <1>9 DEF RefreshFault, RefreshRaised, RefreshOver, SessionsTypeOK, LoginsOfRefresh,
       OneSessionUser
  <2>5. SessionIsStored'
    BY <1>9 DEF RefreshFault, RefreshRaised, RefreshOver, SessionsTypeOK, SessionIsStored,
       OneSessionUser
  <2>6. RetiredHaveNoSession'
    BY <1>9 DEF RefreshFault, RefreshRaised, RefreshOver, SessionsTypeOK, RetiredHaveNoSession,
       OneSessionUser
  <2> QED
    BY <2>1, <2>2, <2>3, <2>4, <2>5, <2>6
<1>10. CASE RecentExpires
  <2>1. SessionsTypeOK'
    BY <1>10 DEF RecentExpires, SessionsTypeOK, RefreshPlaces
  <2>2. \A c \in 1..MaxChildren : cookie'[c] <= logins'
    BY <1>10 DEF RecentExpires, SessionsTypeOK
  <2>3. OneSessionUser'
    BY <1>10 DEF RecentExpires, SessionsTypeOK, OneSessionUser
  <2>4. LoginsOfRefresh'
    BY <1>10 DEF RecentExpires, SessionsTypeOK, LoginsOfRefresh, OneSessionUser
  <2>5. SessionIsStored'
    BY <1>10 DEF RecentExpires, SessionsTypeOK, SessionIsStored, OneSessionUser
  <2>6. RetiredHaveNoSession'
    BY <1>10 DEF RecentExpires, SessionsTypeOK, RetiredHaveNoSession, OneSessionUser
  <2> QED
    BY <2>1, <2>2, <2>3, <2>4, <2>5, <2>6
<1>11. CASE HandoffOldLogin
  <2>1. SessionsTypeOK'
    <3>1. child' \in 1..MaxChildren /\ hpc' \in {"off", "old_login", "new_login", "complete"}
      BY <1>11 DEF HandoffOldLogin, HandoffGoto, NewSession, SetSession, SessionsTypeOK,
         OneSessionUser
    <3>2. cookie' \in [1..MaxChildren -> 0..MaxLogins] /\ overtaken' \subseteq 1..MaxChildren
      BY <1>11, SMTT(30) DEF HandoffOldLogin, HandoffGoto, NewSession, SetSession, SessionsTypeOK,
         OneSessionUser
    <3>3. logins' \in 0..MaxLogins /\ exchangeable' \subseteq 1..logins' /\ trusted' \subseteq 1..logins'
      <4>1. CASE UNCHANGED server
        BY <4>1 DEF SessionsTypeOK
      <4>2. CASE NewSession
        BY <4>2 DEF NewSession, SessionsTypeOK
      <4> QED
        BY <1>11, <4>1, <4>2 DEF HandoffOldLogin
    <3>4. refreshed' \in 0..MaxChildren /\ recent' \subseteq 1..MaxChildren /\ codes' \in Nat
      BY <1>11 DEF HandoffOldLogin, HandoffGoto, NewSession, SetSession, SessionsTypeOK,
         OneSessionUser
    <3>5. rpc' \in RefreshPlaces /\ (rpc' = "off" <=> refreshed' = 0)
      BY <1>11 DEF HandoffOldLogin, HandoffGoto, NewSession, SetSession, SessionsTypeOK,
         OneSessionUser, RefreshPlaces
    <3>6. savedCookie' \in 0..logins' /\ session' \in 0..logins' /\ refused' \in 0..logins'
      BY <1>11 DEF HandoffOldLogin, HandoffGoto, NewSession, SetSession, SessionsTypeOK,
         OneSessionUser
    <3> QED
      BY <3>1, <3>2, <3>3, <3>4, <3>5, <3>6 DEF SessionsTypeOK
  <2>2. \A c \in 1..MaxChildren : cookie'[c] <= logins'
    BY <1>11 DEF HandoffOldLogin, HandoffGoto, NewSession, SetSession, SessionsTypeOK
  <2>3. OneSessionUser'
    BY <1>11 DEF HandoffOldLogin, HandoffGoto, NewSession, SetSession, SessionsTypeOK,
       OneSessionUser
  <2>4. LoginsOfRefresh'
    BY <1>11 DEF HandoffOldLogin, HandoffGoto, NewSession, SetSession, SessionsTypeOK,
       LoginsOfRefresh, OneSessionUser
  <2>5. SessionIsStored'
    BY <1>11 DEF HandoffOldLogin, HandoffGoto, NewSession, SetSession, SessionsTypeOK,
       SessionIsStored, OneSessionUser
  <2>6. RetiredHaveNoSession'
    BY <1>11 DEF HandoffOldLogin, HandoffGoto, NewSession, SetSession, SessionsTypeOK,
       RetiredHaveNoSession, OneSessionUser
  <2> QED
    BY <2>1, <2>2, <2>3, <2>4, <2>5, <2>6
<1>12. CASE HandoffNewLogin
  <2>1. SessionsTypeOK'
    <3>1. child' \in 1..MaxChildren /\ hpc' \in {"off", "old_login", "new_login", "complete"}
      BY <1>12 DEF HandoffNewLogin, HandoffGoto, NewSession, SetSession, SessionsTypeOK,
         OneSessionUser
    <3>2. cookie' \in [1..MaxChildren -> 0..MaxLogins] /\ overtaken' \subseteq 1..MaxChildren
      BY <1>12 DEF HandoffNewLogin, HandoffGoto, NewSession, SetSession, SessionsTypeOK,
         OneSessionUser
    <3>3. logins' \in 0..MaxLogins /\ exchangeable' \subseteq 1..logins' /\ trusted' \subseteq 1..logins'
      BY <1>12 DEF HandoffNewLogin, HandoffGoto, NewSession, SetSession, SessionsTypeOK,
         OneSessionUser
    <3>4. refreshed' \in 0..MaxChildren /\ recent' \subseteq 1..MaxChildren /\ codes' \in Nat
      BY <1>12 DEF HandoffNewLogin, HandoffGoto, NewSession, SetSession, SessionsTypeOK,
         OneSessionUser
    <3>5. rpc' \in RefreshPlaces /\ (rpc' = "off" <=> refreshed' = 0)
      BY <1>12 DEF HandoffNewLogin, HandoffGoto, NewSession, SetSession, SessionsTypeOK,
         OneSessionUser, RefreshPlaces
    <3>6. savedCookie' \in 0..logins' /\ session' \in 0..logins' /\ refused' \in 0..logins'
      BY <1>12 DEF HandoffNewLogin, HandoffGoto, NewSession, SetSession, SessionsTypeOK,
         OneSessionUser
    <3> QED
      BY <3>1, <3>2, <3>3, <3>4, <3>5, <3>6 DEF SessionsTypeOK
  <2>2. \A c \in 1..MaxChildren : cookie'[c] <= logins'
    BY <1>12 DEF HandoffNewLogin, HandoffGoto, NewSession, SetSession, SessionsTypeOK
  <2>3. OneSessionUser'
    BY <1>12 DEF HandoffNewLogin, HandoffGoto, NewSession, SetSession, SessionsTypeOK,
       OneSessionUser
  <2>4. LoginsOfRefresh'
    BY <1>12 DEF HandoffNewLogin, HandoffGoto, NewSession, SetSession, SessionsTypeOK,
       LoginsOfRefresh, OneSessionUser
  <2>5. SessionIsStored'
    BY <1>12 DEF HandoffNewLogin, HandoffGoto, NewSession, SetSession, SessionsTypeOK,
       SessionIsStored, OneSessionUser
  <2>6. RetiredHaveNoSession'
    BY <1>12 DEF HandoffNewLogin, HandoffGoto, NewSession, SetSession, SessionsTypeOK,
       RetiredHaveNoSession, OneSessionUser
  <2> QED
    BY <2>1, <2>2, <2>3, <2>4, <2>5, <2>6
<1>13. CASE HandoffComplete
  <2>1. SessionsTypeOK'
    <3>1. child' \in 1..MaxChildren /\ hpc' \in {"off", "old_login", "new_login", "complete"}
      BY <1>13 DEF HandoffComplete, Retire, ClearSession, SessionsTypeOK, OneSessionUser
    <3>2. cookie' \in [1..MaxChildren -> 0..MaxLogins] /\ overtaken' \subseteq 1..MaxChildren
      BY <1>13 DEF HandoffComplete, Retire, ClearSession, SessionsTypeOK, OneSessionUser
    <3>3. logins' \in 0..MaxLogins /\ exchangeable' \subseteq 1..logins' /\ trusted' \subseteq 1..logins'
      BY <1>13 DEF HandoffComplete, Retire, ClearSession, SessionsTypeOK, OneSessionUser
    <3>4. refreshed' \in 0..MaxChildren /\ recent' \subseteq 1..MaxChildren /\ codes' \in Nat
      BY <1>13 DEF HandoffComplete, Retire, ClearSession, SessionsTypeOK, OneSessionUser
    <3>5. rpc' \in RefreshPlaces /\ (rpc' = "off" <=> refreshed' = 0)
      BY <1>13 DEF HandoffComplete, Retire, ClearSession, SessionsTypeOK, OneSessionUser,
         RefreshPlaces
    <3>6. savedCookie' \in 0..logins' /\ session' \in 0..logins' /\ refused' \in 0..logins'
      BY <1>13 DEF HandoffComplete, Retire, ClearSession, SessionsTypeOK, OneSessionUser
    <3> QED
      BY <3>1, <3>2, <3>3, <3>4, <3>5, <3>6 DEF SessionsTypeOK
  <2>2. \A c \in 1..MaxChildren : cookie'[c] <= logins'
    BY <1>13 DEF HandoffComplete, Retire, ClearSession, SessionsTypeOK
  <2>3. OneSessionUser'
    BY <1>13 DEF HandoffComplete, Retire, ClearSession, SessionsTypeOK, OneSessionUser
  <2>4. LoginsOfRefresh'
    BY <1>13 DEF HandoffComplete, Retire, ClearSession, SessionsTypeOK, LoginsOfRefresh,
       OneSessionUser
  <2>5. SessionIsStored'
    BY <1>13 DEF HandoffComplete, Retire, ClearSession, SessionsTypeOK, SessionIsStored,
       OneSessionUser
  <2>6. RetiredHaveNoSession'
    BY <1>13 DEF HandoffComplete, Retire, ClearSession, SessionsTypeOK, RetiredHaveNoSession,
       OneSessionUser
  <2> QED
    BY <2>1, <2>2, <2>3, <2>4, <2>5, <2>6
<1>14. CASE HandoffFails
  <2>1. SessionsTypeOK'
    <3>1. child' \in 1..MaxChildren /\ hpc' \in {"off", "old_login", "new_login", "complete"}
      BY <1>14 DEF HandoffFails, SessionsTypeOK, OneSessionUser
    <3>2. cookie' \in [1..MaxChildren -> 0..MaxLogins] /\ overtaken' \subseteq 1..MaxChildren
      BY <1>14 DEF HandoffFails, SessionsTypeOK, OneSessionUser
    <3>3. logins' \in 0..MaxLogins /\ exchangeable' \subseteq 1..logins' /\ trusted' \subseteq 1..logins'
      BY <1>14 DEF HandoffFails, SessionsTypeOK, OneSessionUser
    <3>4. refreshed' \in 0..MaxChildren /\ recent' \subseteq 1..MaxChildren /\ codes' \in Nat
      BY <1>14 DEF HandoffFails, SessionsTypeOK, OneSessionUser
    <3>5. rpc' \in RefreshPlaces /\ (rpc' = "off" <=> refreshed' = 0)
      BY <1>14 DEF HandoffFails, SessionsTypeOK, OneSessionUser, RefreshPlaces
    <3>6. savedCookie' \in 0..logins' /\ session' \in 0..logins' /\ refused' \in 0..logins'
      BY <1>14 DEF HandoffFails, SessionsTypeOK, OneSessionUser
    <3> QED
      BY <3>1, <3>2, <3>3, <3>4, <3>5, <3>6 DEF SessionsTypeOK
  <2>2. \A c \in 1..MaxChildren : cookie'[c] <= logins'
    BY <1>14 DEF HandoffFails, SessionsTypeOK
  <2>3. OneSessionUser'
    BY <1>14 DEF HandoffFails, SessionsTypeOK, OneSessionUser
  <2>4. LoginsOfRefresh'
    BY <1>14 DEF HandoffFails, SessionsTypeOK, LoginsOfRefresh, OneSessionUser
  <2>5. SessionIsStored'
    BY <1>14 DEF HandoffFails, SessionsTypeOK, SessionIsStored, OneSessionUser
  <2>6. RetiredHaveNoSession'
    BY <1>14 DEF HandoffFails, SessionsTypeOK, RetiredHaveNoSession, OneSessionUser
  <2> QED
    BY <2>1, <2>2, <2>3, <2>4, <2>5, <2>6
<1>15. CASE AdvanceAccounts
  <2>1. SessionsTypeOK'
    <3>1. child' \in 1..MaxChildren /\ hpc' \in {"off", "old_login", "new_login", "complete"}
      BY <1>15 DEF AdvanceAccounts, Retire, ClearSession, SessionsTypeOK, OneSessionUser
    <3>2. cookie' \in [1..MaxChildren -> 0..MaxLogins] /\ overtaken' \subseteq 1..MaxChildren
      BY <1>15 DEF AdvanceAccounts, Retire, ClearSession, SessionsTypeOK, OneSessionUser
    <3>3. logins' \in 0..MaxLogins /\ exchangeable' \subseteq 1..logins' /\ trusted' \subseteq 1..logins'
      BY <1>15 DEF AdvanceAccounts, Retire, ClearSession, SessionsTypeOK, OneSessionUser
    <3>4. refreshed' \in 0..MaxChildren /\ recent' \subseteq 1..MaxChildren /\ codes' \in Nat
      BY <1>15 DEF AdvanceAccounts, Retire, ClearSession, SessionsTypeOK, OneSessionUser
    <3>5. rpc' \in RefreshPlaces /\ (rpc' = "off" <=> refreshed' = 0)
      BY <1>15 DEF AdvanceAccounts, Retire, ClearSession, SessionsTypeOK, OneSessionUser,
         RefreshPlaces
    <3>6. savedCookie' \in 0..logins' /\ session' \in 0..logins' /\ refused' \in 0..logins'
      BY <1>15 DEF AdvanceAccounts, Retire, ClearSession, SessionsTypeOK, OneSessionUser
    <3> QED
      BY <3>1, <3>2, <3>3, <3>4, <3>5, <3>6 DEF SessionsTypeOK
  <2>2. \A c \in 1..MaxChildren : cookie'[c] <= logins'
    BY <1>15 DEF AdvanceAccounts, Retire, ClearSession, SessionsTypeOK
  <2>3. OneSessionUser'
    BY <1>15 DEF AdvanceAccounts, Retire, ClearSession, SessionsTypeOK, OneSessionUser
  <2>4. LoginsOfRefresh'
    BY <1>15 DEF AdvanceAccounts, Retire, ClearSession, SessionsTypeOK, LoginsOfRefresh,
       OneSessionUser
  <2>5. SessionIsStored'
    BY <1>15 DEF AdvanceAccounts, Retire, ClearSession, SessionsTypeOK, SessionIsStored,
       OneSessionUser
  <2>6. RetiredHaveNoSession'
    BY <1>15 DEF AdvanceAccounts, Retire, ClearSession, SessionsTypeOK, RetiredHaveNoSession,
       OneSessionUser
  <2> QED
    BY <2>1, <2>2, <2>3, <2>4, <2>5, <2>6
<1>16. ASSUME NEW s \in 1..logins, Revoke(s)
      PROVE  SessionsInv'
  <2>1. SessionsTypeOK'
    BY <1>16 DEF Revoke, SessionsTypeOK, RefreshPlaces
  <2>2. \A c \in 1..MaxChildren : cookie'[c] <= logins'
    BY <1>16 DEF Revoke, SessionsTypeOK
  <2>3. OneSessionUser'
    BY <1>16 DEF Revoke, SessionsTypeOK, OneSessionUser
  <2>4. LoginsOfRefresh'
    BY <1>16 DEF Revoke, SessionsTypeOK, LoginsOfRefresh, OneSessionUser
  <2>5. SessionIsStored'
    BY <1>16 DEF Revoke, SessionsTypeOK, SessionIsStored, OneSessionUser
  <2>6. RetiredHaveNoSession'
    BY <1>16 DEF Revoke, SessionsTypeOK, RetiredHaveNoSession, OneSessionUser
  <2> QED
    BY <2>1, <2>2, <2>3, <2>4, <2>5, <2>6
<1>17. CASE UNCHANGED sessionVars
  BY <1>17 DEF SessionsTypeOK, OneSessionUser, LoginsOfRefresh, SessionIsStored,
     RetiredHaveNoSession
<1> QED
  BY <1>1, <1>2, <1>3, <1>4, <1>5, <1>6, <1>7, <1>8, <1>9, <1>10, <1>11, <1>12, <1>13, <1>14, <1>15,
     <1>16, <1>17 DEF SessionsNext, RefreshSteps

LEMMA SessionsInvMeans ==
  SessionsInv =>
    /\ SessionsTypeOK /\ SessionsAreKept
    /\ rpc = "export" /\ recent' # recent /\ refreshed \in recent' /\ refreshed \notin overtaken
         => cookie[refreshed] = session
<1>1. SessionsInv => SessionsAreKept
  BY DEF SessionsInv, SessionsAreKept, OneFreshLogin, LoginsOfRefresh, SessionsTypeOK, RefreshPlaces
<1> QED
  BY <1>1 DEF SessionsInv, SessionIsStored

LEMMA SessionsInvAlways == SessionsSpec => []SessionsInv
<1>1. SessionsInit => SessionsInv
  BY SessionsInvInit
<1>2. SessionsInv /\ [SessionsNext]_sessionVars => SessionsInv'
  BY SessionsInvStep
<1> QED
  BY <1>1, <1>2, PTL DEF SessionsSpec

\* The types of the sessions' state, for any number of children, logins,
\* revocations and faults.
THEOREM SessionsTypes == SessionsSpec => []SessionsTypeOK
BY SessionsInvMeans, SessionsInvAlways, PTL

\* No session is left of a retired child that was not overtaken by its refresh,
\* and a refused session is replaced by one login with a code.
THEOREM SessionsKept == SessionsSpec => []SessionsAreKept
BY SessionsInvMeans, SessionsInvAlways, PTL

\* A refresh that succeeds leaves the session it worked with stored.
THEOREM RefreshStores == SessionsSpec => RefreshedSessionIsStored
BY SessionsInvMeans, SessionsInvAlways, PTL DEF RefreshedSessionIsStored

(***************************************************************************)
(* The import, the backups and their restore.                              *)
(***************************************************************************)
\* The types the proof works with; the bounds of the model play no part in it.
Digest == [Sources -> Int]
Row == [status : Statuses, mid : Digest, path : Nat, marker : BOOLEAN,
        rows : SUBSET {"accounts", "inventory", "work"}, paused : BOOLEAN, running : BOOLEAN]
File == [kind : {"migration", "console"}, mid : Digest, sources : Digest, snap : Row]

Locals == [seen : Digest, todo : SUBSET Removable, blocked : BOOLEAN,
           by : {"nobody", "startup", "retry"}]
Restores == [file : Nat, old : Row \cup {<<>>}, settled : BOOLEAN]
Counts == [edits : Nat, faults : Nat, crashes : Nat, gaveUp : BOOLEAN]

DataTyped == disk \in [Sources -> Nat] /\ db \in Row /\ vault \in Seq(File) /\ removed \subseteq Sources \X Int

LocalsTyped ==
  /\ mem \in {"down", "starting", "ready", "cleanup_blocked", "migration_error",
              "inventory_migration_error"}
  /\ queue \in {"up", "closing", "down"}
  /\ step \in {"idle", "inventory", "open"} \cup MigrationSteps
  /\ job \in Locals
  /\ rs \in {"idle", "close", "replace", "initialize", "settle", "inventory", "reopen"}
  /\ restore \in Restores
  /\ backupCounts \in Counts

\* A restore and the migration exclude each other, and either keeps the queue
\* closed until it is over.
OneAtTheGate ==
  /\ rs # "idle" => step = "idle" /\ mem \notin {"down", "starting"} /\ restore.file \in DOMAIN vault
  /\ rs = "initialize" => restore.old \in Row
  /\ mem = "starting" => step \in MigrationSteps
  /\ mem = "down" => step = "idle" /\ queue = "down"
  /\ step \in {"inventory", "open"} => mem = "ready"
  /\ step \in MigrationSteps => mem \in {"starting", "cleanup_blocked", "migration_error"}
  /\ rs = "inventory" => mem = "ready"

QueueIsClosed ==
  /\ queue = "closing" => backupCounts.gaveUp
  /\ step # "idle" \/ rs \notin {"idle", "close"} => queue # "up"
  /\ step = "idle" /\ rs \in {"idle", "close"} =>
       /\ queue = "up" => mem = "ready"
       /\ mem = "ready" => queue = "up" \/ backupCounts.gaveUp

\* What a database says of its inventory, wherever it came from.
Kept(d) ==
  /\ d.marker /\ "accounts" \in d.rows => "inventory" \in d.rows
  /\ d.status \in {"ready", "complete"} => d.path # 0 \/ "accounts" \notin d.rows
  /\ d.status = "none" => "accounts" \notin d.rows

\* Whatever is restored, every backup and the database are of one import.
OfOneImport(d) == d.mid = db.mid /\ d.path \in {0} \cup DOMAIN vault /\ Kept(d)
OfTheImport(f) == f.sources = db.mid /\ f.mid = db.mid /\ OfOneImport(f.snap)
AnyMigrationBackup == \E i \in DOMAIN vault : vault[i].kind = "migration"

OneImport ==
  /\ OfOneImport(db) /\ \A i \in DOMAIN vault : OfTheImport(vault[i])
  /\ DOMAIN vault # {} => db.mid # NoSources /\ (db.mid = OfConsole \/ AnyMigrationBackup)

RemovedIsOfTheImport ==
  /\ \A x \in removed : x[2] = db.mid[x[1]]
  /\ removed # {} => AnyMigrationBackup

\* What a migration or a restore has in hand is of that import.
InHandIsOfTheImport ==
  /\ rs = "initialize" => OfOneImport(restore.old)
  /\ step \in {"backup", "path", "verified", "cleanup"} => job.seen = db.mid
  /\ step \in {"verified", "cleanup"} => db.path # 0
  /\ step \in {"validate", "import"} => disk["config"] # 0
  /\ step \in {"validate", "import", "backup"} => job.seen # NoSources

Finished == {"ready", "complete", "none"}
ReadyOrRetried == mem \in {"ready", "inventory_migration_error"}
Imported == disk["config"] = 0 \/ db.mid # NoSources

\* A console at work has a finished database, and an imported one unless there
\* was nothing to import.
FinishedIsImported ==
  /\ "accounts" \in db.rows => db.mid # NoSources
  /\ ReadyOrRetried /\ rs = "initialize" => restore.old.status \in Finished
  /\ ReadyOrRetried /\ rs \notin {"initialize", "settle"} => db.status \in Finished
  /\ db.marker \/ db.status \in {"ready", "complete"} \/ ReadyOrRetried => Imported

BackupsInv ==
  /\ DataTyped /\ LocalsTyped /\ OneAtTheGate /\ QueueIsClosed
  /\ OneImport /\ RemovedIsOfTheImport /\ InHandIsOfTheImport /\ FinishedIsImported

LEMMA BackupsInvInit == BackupsInit => BackupsInv
<1> SUFFICES ASSUME BackupsInit
             PROVE  BackupsInv
  OBVIOUS
<1> USE DEF BackupsInit, NoJob, NoRestore, NoSources, Empty
<1>0. vault = <<>> /\ DOMAIN vault = {} /\ vault \in Seq(File)
  OBVIOUS
<1>1. DataTyped
  BY <1>0 DEF DataTyped, Row, Digest, Sources, Statuses
<1>2. LocalsTyped
  BY DEF LocalsTyped, Locals, Restores, Counts, Digest, Sources, MigrationSteps
<1>3. OneAtTheGate /\ QueueIsClosed
  BY DEF OneAtTheGate, QueueIsClosed, MigrationSteps
<1>4. OneImport /\ RemovedIsOfTheImport
  BY <1>0 DEF OneImport, OfOneImport, Kept, RemovedIsOfTheImport
<1>5. InHandIsOfTheImport /\ FinishedIsImported
  BY <1>0 DEF InHandIsOfTheImport, FinishedIsImported, ReadyOrRetried
<1> QED
  BY <1>1, <1>2, <1>3, <1>4, <1>5 DEF BackupsInv

LEMMA TypedConstants ==
  /\ NoSources \in Digest /\ OfConsole \in Digest /\ OfConsole # NoSources /\ NoJob \in Locals
  /\ OfConsole["config"] = -1 /\ OfConsole["state"] = 0
<1>1. NoSources \in Digest /\ OfConsole \in Digest
  BY DEF NoSources, OfConsole, Digest
<1>2. OfConsole["config"] = -1 /\ OfConsole["state"] = 0 /\ NoSources["config"] = 0
  BY DEF NoSources, OfConsole, Sources
<1>3. NoJob \in Locals
  BY <1>1 DEF NoJob, Locals
<1> QED
  BY <1>1, <1>2, <1>3

\* Two databases of one import, with the same marker and accounts.
SameButStatus(d, e) ==
  e.mid = d.mid /\ e.path = d.path /\ e.marker = d.marker /\ e.rows = d.rows

LEMMA StatusSet ==
  ASSUME NEW d \in Row, NEW s \in Statuses, NEW e, e = [d EXCEPT !.status = s]
  PROVE  e \in Row /\ e.status = s /\ SameButStatus(d, e)
BY DEF Row, SameButStatus

\* Two databases that differ in the work of the queue alone.
SameButWork(d, e) ==
  /\ e.mid = d.mid /\ e.path = d.path /\ e.marker = d.marker /\ e.status = d.status
  /\ \A kind \in {"accounts", "inventory"} : kind \in e.rows <=> kind \in d.rows

\* A backup more is the last one.
LEMMA OneBackupMore ==
  ASSUME vault \in Seq(File), NEW b \in File, vault' = Append(vault, b)
  PROVE  /\ vault' \in Seq(File) /\ DOMAIN vault' = DOMAIN vault \cup {Len(vault) + 1}
         /\ \A i \in DOMAIN vault : vault'[i] = vault[i]
         /\ vault'[Len(vault) + 1] = b /\ Len(vault) + 1 \notin DOMAIN vault
OBVIOUS

\* The database is replaced or changed by one of the same import.
LEMMA ImportKept ==
  ASSUME OneImport, RemovedIsOfTheImport, UNCHANGED <<vault, removed>>, OfOneImport(db')
  PROVE  OneImport' /\ RemovedIsOfTheImport'
<1>1. db'.mid = db.mid /\ DOMAIN vault' = DOMAIN vault
  BY DEF OfOneImport
<1>2. OfOneImport(db)'
  BY <1>1 DEF OfOneImport, Kept
<1>3. \A i \in DOMAIN vault : OfTheImport(vault[i])'
  BY <1>1 DEF OneImport, OfTheImport, OfOneImport, Kept
<1>4. AnyMigrationBackup' <=> AnyMigrationBackup
  BY DEF AnyMigrationBackup
<1> QED
  BY <1>1, <1>2, <1>3, <1>4 DEF OneImport, RemovedIsOfTheImport

\* The same beside the writing of a backup.
LEMMA ImportBackedUp ==
  ASSUME OneImport, RemovedIsOfTheImport, vault \in Seq(File), UNCHANGED removed, OfOneImport(db'),
         NEW b \in File, OfTheImport(b), vault' = Append(vault, b), db.mid # NoSources,
         b.kind = "migration" \/ db.mid = OfConsole \/ AnyMigrationBackup
  PROVE  vault' \in Seq(File) /\ DOMAIN vault \subseteq DOMAIN vault' /\ OneImport' /\ RemovedIsOfTheImport'
<1>0. /\ vault' \in Seq(File) /\ DOMAIN vault' = DOMAIN vault \cup {Len(vault) + 1}
      /\ \A i \in DOMAIN vault : vault'[i] = vault[i]
      /\ vault'[Len(vault) + 1] = b
  BY OneBackupMore
<1>1. db'.mid = db.mid
  BY DEF OfOneImport
<1>2. OfOneImport(db)'
  BY <1>0, <1>1 DEF OfOneImport, Kept
<1>3. ASSUME NEW i \in DOMAIN vault'
      PROVE  OfTheImport(vault[i])'
  <2>1. OfTheImport(vault'[i])
    BY <1>0, <1>3 DEF OneImport
  <2> QED
    BY <2>1, <1>0, <1>1 DEF OfTheImport, OfOneImport, Kept
<1>4. AnyMigrationBackup \/ b.kind = "migration" => AnyMigrationBackup'
  BY <1>0 DEF AnyMigrationBackup
<1> QED
  BY <1>0, <1>1, <1>2, <1>3, <1>4 DEF OneImport, RemovedIsOfTheImport

LEMMA MigrationFailsKeeps ==
  ASSUME BackupsInv, step \in MigrationSteps, MigrationFails, Fault \/ UNCHANGED backupCounts
  PROVE  BackupsInv'
<1> USE DEF BackupsInv
<1>0. /\ UNCHANGED <<disk, vault, removed, queue, job, rs, restore>>
      /\ mem' = "migration_error" /\ step' = "idle" /\ db' = [db EXCEPT !.status = "migration_error"]
  BY DEF MigrationFails, Goes, SetMeta, restoreVars
<1>1. db' \in Row /\ db'.status = "migration_error" /\ SameButStatus(db, db')
  BY <1>0, StatusSet DEF DataTyped, Statuses
<1>2. DataTyped'
  BY <1>0, <1>1 DEF DataTyped
<1>3. backupCounts' \in Counts /\ backupCounts'.gaveUp = backupCounts.gaveUp
  BY DEF Fault, LocalsTyped, Counts
<1>4. LocalsTyped'
  BY <1>0, <1>3 DEF LocalsTyped
<1>5. rs = "idle"
  BY DEF OneAtTheGate, MigrationSteps
<1>6. OneAtTheGate' /\ QueueIsClosed'
  BY <1>0, <1>3, <1>5 DEF OneAtTheGate, QueueIsClosed, MigrationSteps
<1>7. OneImport' /\ RemovedIsOfTheImport'
  <2>1. OfOneImport(db')
    BY <1>1 DEF OneImport, OfOneImport, Kept, SameButStatus
  <2> QED
    BY <2>1, <1>0, ImportKept
<1>8. InHandIsOfTheImport'
  BY <1>0, <1>5 DEF InHandIsOfTheImport
<1>9. FinishedIsImported'
  BY <1>0, <1>1, <1>5 DEF FinishedIsImported, ReadyOrRetried, Imported, SameButStatus
<1> QED
  BY <1>2, <1>4, <1>6, <1>7, <1>8, <1>9

LEMMA BackfillKeeps ==
  ASSUME BackupsInv, Backfill, mem = "ready", rs \notin {"initialize", "settle"}, UNCHANGED <<disk, removed>>
  PROVE  /\ DataTyped' /\ OneImport' /\ RemovedIsOfTheImport' /\ DOMAIN vault \subseteq DOMAIN vault'
         /\ mem' \in {"ready", "inventory_migration_error"}
         /\ backupCounts' \in Counts /\ backupCounts'.gaveUp = backupCounts.gaveUp
         /\ db'.status = db.status /\ db'.mid = db.mid /\ ("accounts" \in db'.rows => "accounts" \in db.rows)
<1> USE DEF BackupsInv
<1>0. db \in Row /\ vault \in Seq(File) /\ backupCounts \in Counts /\ db.status \in Finished
  BY DEF DataTyped, LocalsTyped, FinishedIsImported, ReadyOrRetried
<1>1. db' \in {db, Marked, Backfilled} /\ mem' \in {"ready", "inventory_migration_error"}
  BY DEF Backfill
<1>2. Marked \in Row /\ Marked.marker /\ Marked.status = db.status /\ Marked.rows = db.rows
        /\ Marked.mid = db.mid /\ Marked.path = db.path
  BY <1>0 DEF Marked, Row
<1>3. Backfilled \in Row /\ Backfilled.status = db.status /\ Backfilled.rows = db.rows \cup {"inventory"}
        /\ Backfilled.mid = db.mid /\ Backfilled.path = db.path
  BY <1>2 DEF Backfilled, Row
<1>4. db' \in Row /\ db'.status = db.status /\ db'.mid = db.mid /\ db'.path = db.path
        /\ ("accounts" \in db'.rows => "accounts" \in db.rows)
  BY <1>0, <1>1, <1>2, <1>3
<1>5. backupCounts' \in Counts /\ backupCounts'.gaveUp = backupCounts.gaveUp
  BY <1>0 DEF Backfill, Fault, Counts
<1>6. OfOneImport(db')
  <2>1. db' = Marked => db.marker \/ db.path = 0 \/ "inventory" \in db.rows
    <3>1. db.marker \/ db.path = 0 \/ db' \in {Backfilled, db}
      BY DEF Backfill
    <3> QED
      BY <3>1, <1>2, <1>3
  <2>2. Kept(db')
    BY <1>0, <1>1, <1>2, <1>3, <2>1 DEF Kept, OneImport, OfOneImport, Finished
  <2> QED
    BY <1>4, <2>2 DEF OneImport, OfOneImport
<1>7. CASE UNCHANGED vault
  BY <1>0, <1>1, <1>4, <1>5, <1>6, <1>7, ImportKept DEF DataTyped
<1>8. CASE vault' = Prechange /\ db.path # 0
  <2> DEFINE b == Backup("console", db.mid, vault[db.path].sources, db)
  <2>1. db.path \in DOMAIN vault /\ vault[db.path] \in File /\ OfTheImport(vault[db.path])
    BY <1>0, <1>8 DEF OneImport, OfOneImport
  <2>2. b \in File /\ OfTheImport(b)
    BY <1>0, <2>1 DEF Backup, File, Row, OfTheImport, OneImport
  <2>3. vault' = Append(vault, b)
    BY <1>8 DEF Prechange
  <2>4. db.mid # NoSources /\ (db.mid = OfConsole \/ AnyMigrationBackup)
    BY <2>1 DEF OneImport
  <2> HIDE DEF b
  <2>5. vault' \in Seq(File) /\ DOMAIN vault \subseteq DOMAIN vault' /\ OneImport' /\ RemovedIsOfTheImport'
    BY <1>0, <1>6, <2>2, <2>3, <2>4, ImportBackedUp
  <2> QED
    BY <1>0, <1>1, <1>4, <1>5, <2>5 DEF DataTyped
<1> QED
  BY <1>7, <1>8 DEF Backfill

\* The records of the actions, with their types: the locals of a cleanup, of a
\* restore, and the counters.
LEMMA CountsSet ==
  ASSUME NEW c \in Counts
  PROVE  /\ [c EXCEPT !.faults = @ + 1, !.gaveUp = TRUE] \in Counts
         /\ [c EXCEPT !.faults = @ + 1, !.gaveUp = TRUE].gaveUp
         /\ [c EXCEPT !.crashes = @ + 1, !.gaveUp = FALSE] \in Counts
<1>1. c.faults + 1 \in Nat /\ c.crashes + 1 \in Nat
  BY DEF Counts
<1>2. ASSUME NEW n \in Nat
      PROVE  /\ [c EXCEPT !.faults = n, !.gaveUp = TRUE] \in Counts
             /\ [c EXCEPT !.faults = n, !.gaveUp = TRUE].gaveUp
             /\ [c EXCEPT !.crashes = n, !.gaveUp = FALSE] \in Counts
  BY DEF Counts
<1> QED
  BY <1>1, <1>2

LEMMA TodoSet ==
  ASSUME NEW j \in Locals, NEW s
  PROVE  /\ [j EXCEPT !.todo = @ \ {s}] \in Locals
         /\ [j EXCEPT !.todo = @ \ {s}].seen = j.seen
         /\ [j EXCEPT !.todo = @ \ {s}, !.blocked = TRUE] \in Locals
         /\ [j EXCEPT !.todo = @ \ {s}, !.blocked = TRUE].seen = j.seen
BY DEF Locals

LEMMA RestoreSet ==
  ASSUME NEW r \in Restores, NEW i \in Nat
  PROVE  /\ [r EXCEPT !.settled = TRUE] \in Restores
         /\ [r EXCEPT !.settled = TRUE].file = r.file
         /\ [NoRestore EXCEPT !.file = i] \in Restores
         /\ [NoRestore EXCEPT !.file = i].file = i
BY DEF NoRestore, Restores

LEMMA BackupsInvStep ==
  ASSUME BackupsInv, [BackupsNext]_backupVars
  PROVE  BackupsInv'
<1> USE DEF BackupsInv, jobVars, restoreVars
<1>1. CASE PrepareMigration
  <2>8. /\ UNCHANGED <<disk, vault, removed, queue, restore, rs, backupCounts>> /\ rs = "idle" /\ queue = "down"
        /\ job' = [NoJob EXCEPT !.by = "startup"]
        /\ \/ db' = db /\ db.status \in {"ready", "complete"} /\ mem' = "ready" /\ step' = "inventory"
           \/ db' = db /\ mem' \in {"cleanup_blocked", "migration_error"} /\ step' = "idle"
           \/ db' = db /\ mem' = "starting" /\ step' = "discover"
           \/ /\ db' = [db EXCEPT !.status = "ready"] /\ disk["config"] = 0 /\ db.mid = NoSources
              /\ mem' = "ready" /\ step' = "inventory"
    BY <1>1 DEF PrepareMigration, SetMeta, Goes, OneAtTheGate
  <2>9. /\ db' \in Row /\ SameButStatus(db, db')
        /\ \/ db' = db /\ db.status \in {"ready", "complete"} /\ mem' = "ready" /\ step' = "inventory"
           \/ db' = db /\ mem' \in {"cleanup_blocked", "migration_error"} /\ step' = "idle"
           \/ db' = db /\ mem' = "starting" /\ step' = "discover"
           \/ /\ db'.status = "ready" /\ disk["config"] = 0 /\ db.mid = NoSources
              /\ mem' = "ready" /\ step' = "inventory"
    BY <2>8, StatusSet DEF DataTyped, Statuses, SameButStatus
  <2>1. OneImport' /\ RemovedIsOfTheImport'
    <3>1. OfOneImport(db')
      BY <2>9 DEF OneImport, OfOneImport, Kept, SameButStatus, FinishedIsImported
    <3> QED
      BY <2>8, <3>1, ImportKept
  <2>2. job' \in Locals
    BY <2>8, TypedConstants DEF Locals
  <2>3. DataTyped' /\ LocalsTyped'
    BY <2>2, <2>8, <2>9 DEF DataTyped, LocalsTyped, MigrationSteps
  <2>4. OneAtTheGate' /\ QueueIsClosed'
    BY <2>8, <2>9 DEF OneAtTheGate, QueueIsClosed, MigrationSteps
  <2>5. InHandIsOfTheImport'
    BY <2>8, <2>9 DEF InHandIsOfTheImport
  <2>6. FinishedIsImported'
    BY <2>8, <2>9 DEF FinishedIsImported, ReadyOrRetried, Imported, SameButStatus, Finished
  <2> QED
    BY <2>1, <2>3, <2>4, <2>5, <2>6
<1>2. CASE RetryMigrationCleanup
  <2>8. /\ UNCHANGED <<disk, db, vault, removed, queue, restore, rs, backupCounts>> /\ rs = "idle" /\ step = "idle"
        /\ mem \notin {"down", "starting", "ready"}
        /\ \/ /\ mem = "inventory_migration_error" /\ mem' = "ready" /\ step' = "inventory"
              /\ job' = [NoJob EXCEPT !.by = "retry"]
           \/ /\ mem = "cleanup_blocked" /\ db.path # 0 /\ mem' = mem /\ step' = "cleanup"
              /\ job' = [NoJob EXCEPT !.by = "retry", !.seen = vault[db.path].sources,
                           !.todo = {s \in Removable : vault[db.path].sources[s] > 0}]
           \/ /\ mem # "inventory_migration_error" /\ mem' = mem /\ step' = "discover"
              /\ job' = [NoJob EXCEPT !.by = "retry"]
    BY <1>2 DEF RetryMigrationCleanup, Goes, dataVars
  <2>9. db.path # 0 => vault[db.path].sources = db.mid /\ db.mid \in Digest
    <3>1. db.path # 0 => db.path \in DOMAIN vault
      BY DEF OneImport, OfOneImport
    <3>2. db.mid \in Digest
      BY DEF DataTyped, Row
    <3> QED
      BY <3>1, <3>2 DEF OneImport, OfTheImport
  <2>10. /\ job' \in Locals
         /\ \/ mem = "inventory_migration_error" /\ mem' = "ready" /\ step' = "inventory"
            \/ mem = "cleanup_blocked" /\ mem' = mem /\ step' = "cleanup" /\ db.path # 0 /\ job'.seen = db.mid
            \/ mem # "inventory_migration_error" /\ mem' = mem /\ step' = "discover"
    <3>1. {s \in Removable : vault[db.path].sources[s] > 0} \in SUBSET Removable
      OBVIOUS
    <3> QED
      BY <2>8, <2>9, <3>1, TypedConstants DEF Locals
  <2>11. mem \in {"cleanup_blocked", "migration_error", "inventory_migration_error"} /\ queue # "up"
    BY <2>8 DEF LocalsTyped, QueueIsClosed
  <2>1. OneImport' /\ RemovedIsOfTheImport'
    BY <2>8, ImportKept DEF OneImport
  <2>2. DataTyped' /\ LocalsTyped'
    BY <2>8, <2>10 DEF DataTyped, LocalsTyped, MigrationSteps
  <2>3. OneAtTheGate' /\ QueueIsClosed'
    BY <2>8, <2>10, <2>11 DEF OneAtTheGate, QueueIsClosed, MigrationSteps
  <2>4. InHandIsOfTheImport' /\ FinishedIsImported'
    BY <2>8, <2>10 DEF InHandIsOfTheImport, FinishedIsImported, ReadyOrRetried, Imported
  <2> QED
    BY <2>1, <2>2, <2>3, <2>4
<1>3. CASE MigrationFault
  BY <1>3, MigrationFailsKeeps DEF MigrationFault
<1>4. CASE DiscoverLegacy
  <2>8. ASSUME MigrationFails
        PROVE  BackupsInv'
    BY <1>4, <2>8, MigrationFailsKeeps DEF DiscoverLegacy, dataVars, processVars, Goes,
       MigrationSteps
  <2> SUFFICES ASSUME ~MigrationFails
               PROVE  BackupsInv'
    BY <2>8
  <2>9. /\ UNCHANGED <<disk, db, vault, removed, mem, queue, restore, rs, backupCounts>>
        /\ step = "discover" /\ step' = "validate" /\ rs = "idle"
        /\ disk["config"] # 0 /\ job' = [job EXCEPT !.seen = disk]
    BY <1>4 DEF DiscoverLegacy, dataVars, processVars, Goes, OneAtTheGate
  <2>10. job' \in Locals /\ job'.seen # NoSources
    <3>1. disk \in Digest /\ disk # NoSources
      BY <2>9 DEF DataTyped, Digest, NoSources, Sources
    <3> QED
      BY <2>9, <3>1 DEF LocalsTyped, Locals
  <2>1. OneImport' /\ RemovedIsOfTheImport'
    BY <2>9, ImportKept DEF OneImport
  <2>2. DataTyped' /\ LocalsTyped'
    BY <2>9, <2>10 DEF DataTyped, LocalsTyped, MigrationSteps
  <2>3. OneAtTheGate' /\ QueueIsClosed'
    BY <2>9 DEF OneAtTheGate, QueueIsClosed, MigrationSteps
  <2>4. InHandIsOfTheImport' /\ FinishedIsImported'
    BY <2>9, <2>10 DEF InHandIsOfTheImport, FinishedIsImported, ReadyOrRetried, Imported
  <2> QED
    BY <2>1, <2>2, <2>3, <2>4
<1>5. CASE ReadSources
  <2>8. ASSUME MigrationFails
        PROVE  BackupsInv'
    BY <1>5, <2>8, MigrationFailsKeeps DEF ReadSources, dataVars, processVars, Goes, MigrationSteps
  <2> SUFFICES ASSUME ~MigrationFails
               PROVE  BackupsInv'
    BY <2>8
  <2>9. UNCHANGED <<disk, db, vault, removed, mem, queue, job, restore, rs, backupCounts>> /\ step' = "import"
    BY <1>5 DEF ReadSources, dataVars, processVars, Goes
  <2>10. OfOneImport(db')
    BY <2>9 DEF OneImport
  <2>1. DataTyped'
    BY <1>5, <2>9, <2>10 DEF ReadSources, dataVars, processVars, Goes, DataTyped
  <2>2. LocalsTyped'
    BY <1>5, <2>9, <2>10 DEF ReadSources, dataVars, processVars, Goes, LocalsTyped, MigrationSteps
  <2>3. OneAtTheGate'
    BY <1>5, <2>9, <2>10 DEF ReadSources, dataVars, processVars, Goes, OneAtTheGate, MigrationSteps
  <2>4. QueueIsClosed'
    BY <1>5, <2>9, <2>10 DEF ReadSources, dataVars, processVars, Goes, QueueIsClosed, OneAtTheGate,
       MigrationSteps
  <2>5. OneImport' /\ RemovedIsOfTheImport'
    BY <1>5, <2>9, <2>10, ImportKept DEF ReadSources, dataVars, processVars, Goes
  <2>6. InHandIsOfTheImport'
    BY <1>5, <2>9, <2>10 DEF ReadSources, dataVars, processVars, Goes, InHandIsOfTheImport,
       OneAtTheGate, MigrationSteps
  <2>7. FinishedIsImported'
    BY <1>5, <2>9, <2>10 DEF ReadSources, dataVars, processVars, Goes, FinishedIsImported,
       ReadyOrRetried, Imported, OneAtTheGate, MigrationSteps
  <2> QED
    BY <2>1, <2>2, <2>3, <2>4, <2>5, <2>6, <2>7
<1>6. CASE ApplyLegacyImport
  <2>8. ASSUME MigrationFails
        PROVE  BackupsInv'
    BY <1>6, <2>8, MigrationFailsKeeps DEF ApplyLegacyImport, SameImport, dataVars, processVars,
       Goes, MigrationSteps
  <2> SUFFICES ASSUME ~MigrationFails
               PROVE  BackupsInv'
    BY <2>8
  <2>9. /\ UNCHANGED <<disk, vault, removed, mem, queue, job, restore, rs, backupCounts>>
        /\ step' = "backup" /\ rs = "idle" /\ step = "import"
    BY <1>6 DEF ApplyLegacyImport, SameImport, dataVars, processVars, Goes, OneAtTheGate
  <2>10. CASE db.mid = job.seen /\ UNCHANGED db
    <3>1. OneImport' /\ RemovedIsOfTheImport'
      BY <2>9, <2>10, ImportKept DEF OneImport
    <3>2. DataTyped' /\ LocalsTyped' /\ OneAtTheGate' /\ QueueIsClosed'
      BY <2>9, <2>10 DEF DataTyped, LocalsTyped, OneAtTheGate, QueueIsClosed, MigrationSteps
    <3>3. InHandIsOfTheImport' /\ FinishedIsImported'
      BY <2>9, <2>10 DEF InHandIsOfTheImport, FinishedIsImported, ReadyOrRetried, Imported
    <3> QED
      BY <3>1, <3>2, <3>3
  <2>11. CASE /\ db.mid = NoSources /\ job.seen # NoSources
              /\ db' = [db EXCEPT !.mid = job.seen, !.status = "imported", !.rows = {"accounts"}]
    <3>1. /\ db' \in Row /\ db'.mid = job.seen /\ db'.path = db.path /\ db'.rows = {"accounts"}
          /\ db'.status = "imported" /\ db'.marker = db.marker
      BY <2>11 DEF DataTyped, LocalsTyped, Row, Locals, Statuses
    <3>2. DOMAIN vault = {} /\ ~AnyMigrationBackup /\ removed = {}
      BY <2>11 DEF OneImport, AnyMigrationBackup, RemovedIsOfTheImport
    <3>3. ~db.marker
      BY <2>9, <2>11 DEF FinishedIsImported, Imported, InHandIsOfTheImport
    <3>4. OneImport' /\ RemovedIsOfTheImport'
      BY <2>9, <3>1, <3>2, <3>3 DEF OneImport, OfOneImport, Kept, RemovedIsOfTheImport
    <3>5. DataTyped' /\ LocalsTyped' /\ OneAtTheGate' /\ QueueIsClosed'
      BY <2>9, <3>1 DEF DataTyped, LocalsTyped, OneAtTheGate, QueueIsClosed, MigrationSteps
    <3>6. InHandIsOfTheImport' /\ FinishedIsImported'
      BY <2>9, <2>11, <3>1, <3>3 DEF InHandIsOfTheImport, FinishedIsImported, ReadyOrRetried,
         Imported, OneAtTheGate, MigrationSteps
    <3> QED
      BY <3>4, <3>5, <3>6
  <2> QED
    BY <1>6, <2>10, <2>11 DEF ApplyLegacyImport, SameImport, NotFresh, dataVars, processVars,
       Goes, InHandIsOfTheImport
<1>7. CASE WriteMigrationBackup
  <2>8. /\ UNCHANGED <<disk, db, removed, mem, queue, job, restore, rs, backupCounts>>
        /\ step' = "path" /\ rs = "idle" /\ step = "backup" /\ job.seen = db.mid
    BY <1>7 DEF WriteMigrationBackup, processVars, Goes, InHandIsOfTheImport, OneAtTheGate
  <2>1. vault' \in Seq(File) /\ OneImport' /\ RemovedIsOfTheImport'
    <3>1. CASE UNCHANGED vault
      BY <2>8, <3>1, ImportKept DEF OneImport, DataTyped
    <3>2. CASE vault' = Append(vault, Backup("migration", db.mid, db.mid, db))
      <4> DEFINE b == Backup("migration", db.mid, db.mid, db)
      <4>1. b \in File /\ OfTheImport(b) /\ b.kind = "migration"
        BY DEF Backup, File, DataTyped, Row, OfTheImport, OneImport
      <4>2. db.mid # NoSources
        BY <2>8 DEF InHandIsOfTheImport
      <4>3. OfOneImport(db')
        BY <2>8 DEF OneImport
      <4>4. vault' = Append(vault, b) /\ UNCHANGED removed
        BY <2>8, <3>2
      <4>5. vault \in Seq(File)
        BY DEF DataTyped
      <4> HIDE DEF b
      <4> QED
        BY <4>1, <4>2, <4>3, <4>4, <4>5, ImportBackedUp
    <3> QED
      BY <1>7, <2>8, <3>1, <3>2 DEF WriteMigrationBackup, processVars, Goes, MigrationBackups
  <2>2. DataTyped' /\ LocalsTyped' /\ OneAtTheGate' /\ QueueIsClosed'
    BY <2>1, <2>8 DEF DataTyped, LocalsTyped, OneAtTheGate, QueueIsClosed, MigrationSteps
  <2>3. InHandIsOfTheImport' /\ FinishedIsImported'
    BY <2>8 DEF InHandIsOfTheImport, FinishedIsImported, ReadyOrRetried, Imported
  <2> QED
    BY <2>1, <2>2, <2>3
<1>8. CASE RecordBackup
  <2>8. /\ UNCHANGED <<disk, vault, removed, mem, queue, restore, rs, backupCounts>>
        /\ rs = "idle" /\ job.seen = db.mid
    BY <1>8 DEF RecordBackup, MigrationBackups, processVars, SetMeta, Goes, InHandIsOfTheImport,
       OneAtTheGate
  <2>9. ASSUME NEW i \in MigrationBackups(job.seen), db' = [db EXCEPT !.path = i], step = "path", step' = "verified",
               UNCHANGED job
        PROVE  BackupsInv'
    <3>1. i \in DOMAIN vault /\ i # 0 /\ i \in Nat
      BY <2>9 DEF MigrationBackups, DataTyped
    <3>2. db' \in Row /\ db'.mid = db.mid /\ db'.path = i /\ db'.marker = db.marker /\ db'.rows = db.rows
            /\ db'.status = db.status
      BY <2>9, <3>1 DEF DataTyped, Row
    <3>3. OfOneImport(db')
      BY <3>1, <3>2 DEF OneImport, OfOneImport, Kept
    <3>4. OneImport' /\ RemovedIsOfTheImport'
      BY <2>8, <3>3, ImportKept
    <3>5. DataTyped' /\ LocalsTyped' /\ OneAtTheGate' /\ QueueIsClosed'
      BY <2>8, <2>9, <3>2 DEF DataTyped, LocalsTyped, OneAtTheGate, QueueIsClosed, MigrationSteps
    <3>6. InHandIsOfTheImport' /\ FinishedIsImported'
      BY <2>8, <2>9, <3>1, <3>2 DEF InHandIsOfTheImport, FinishedIsImported, ReadyOrRetried,
         Imported
    <3> QED
      BY <3>4, <3>5, <3>6
  <2>10. CASE /\ step = "verified" /\ step' = "cleanup" /\ db' = [db EXCEPT !.status = "backup_verified"]
              /\ job' = [job EXCEPT !.todo = {s \in Removable : job.seen[s] > 0}]
    <3>1. db' \in Row /\ db'.status = "backup_verified" /\ SameButStatus(db, db')
      BY <2>10, StatusSet DEF DataTyped, Statuses
    <3>2. job' \in Locals /\ job'.seen = job.seen
      BY <2>10 DEF LocalsTyped, Locals
    <3>3. OfOneImport(db')
      BY <3>1 DEF OneImport, OfOneImport, Kept, SameButStatus
    <3>4. OneImport' /\ RemovedIsOfTheImport'
      BY <2>8, <3>3, ImportKept
    <3>5. DataTyped' /\ LocalsTyped' /\ OneAtTheGate' /\ QueueIsClosed'
      BY <2>8, <2>10, <3>1, <3>2 DEF DataTyped, LocalsTyped, OneAtTheGate, QueueIsClosed,
         MigrationSteps
    <3>6. mem \notin {"ready", "inventory_migration_error"}
      BY <2>10 DEF OneAtTheGate, MigrationSteps
    <3>7. InHandIsOfTheImport' /\ FinishedIsImported'
      BY <2>8, <2>10, <3>1, <3>2, <3>6 DEF InHandIsOfTheImport, FinishedIsImported, ReadyOrRetried,
         Imported, SameButStatus
    <3> QED
      BY <3>4, <3>5, <3>7
  <2> QED
    BY <1>8, <2>9, <2>10 DEF RecordBackup, MigrationBackups, processVars, SetMeta, Goes
<1>9. ASSUME NEW s \in Removable, Remove(s)
      PROVE  BackupsInv'
  <2>8. /\ UNCHANGED <<db, vault, mem, queue, step, restore, rs>> /\ step = "cleanup" /\ rs = "idle"
        /\ disk \in [Sources -> Nat] /\ s \in Sources /\ job.seen = db.mid
    BY <1>9 DEF Remove, StillTheSource, processVars, Fault, OneAtTheGate, DataTyped, Sources,
       Removable, InHandIsOfTheImport
  <2>9. job' \in Locals /\ job'.seen = job.seen
    <3>1. \/ job' = [job EXCEPT !.todo = @ \ {s}]
          \/ job' = [job EXCEPT !.todo = @ \ {s}, !.blocked = TRUE]
      BY <1>9 DEF Remove, StillTheSource, processVars, Fault
    <3> QED
      BY <3>1, TodoSet DEF LocalsTyped
  <2>10. backupCounts' \in Counts /\ backupCounts'.gaveUp = backupCounts.gaveUp
    BY <1>9 DEF Remove, StillTheSource, processVars, Fault, LocalsTyped, Counts
  <2>11. CASE UNCHANGED <<disk, removed>>
    <3>1. OneImport' /\ RemovedIsOfTheImport'
      BY <2>8, <2>11, ImportKept DEF OneImport
    <3>2. DataTyped' /\ LocalsTyped' /\ OneAtTheGate' /\ QueueIsClosed'
      BY <2>8, <2>9, <2>10, <2>11 DEF DataTyped, LocalsTyped, OneAtTheGate, QueueIsClosed
    <3>3. InHandIsOfTheImport' /\ FinishedIsImported'
      BY <2>8, <2>9, <2>11 DEF InHandIsOfTheImport, FinishedIsImported, ReadyOrRetried, Imported
    <3> QED
      BY <3>1, <3>2, <3>3
  <2>12. CASE /\ disk[s] # 0 /\ disk[s] = db.mid[s]
              /\ disk' = [disk EXCEPT ![s] = 0] /\ removed' = removed \cup {<<s, disk[s]>>}
    <3>1. db.mid # OfConsole
      BY <2>8, <2>12, TypedConstants DEF Removable
    <3>2. DOMAIN vault # {} /\ AnyMigrationBackup
      BY <2>8, <3>1 DEF OneImport, OfOneImport, InHandIsOfTheImport
    <3>3. OneImport' /\ RemovedIsOfTheImport'
      <4>1. OneImport' /\ AnyMigrationBackup'
        BY <2>8, <3>2 DEF OneImport, OfOneImport, OfTheImport, Kept, AnyMigrationBackup
      <4>2. RemovedIsOfTheImport'
        BY <2>8, <2>12, <4>1 DEF RemovedIsOfTheImport
      <4> QED
        BY <4>1, <4>2
    <3>4. DataTyped' /\ LocalsTyped' /\ OneAtTheGate' /\ QueueIsClosed'
      BY <2>8, <2>9, <2>10, <2>12 DEF DataTyped, LocalsTyped, OneAtTheGate, QueueIsClosed
    <3>5. InHandIsOfTheImport' /\ FinishedIsImported'
      BY <2>8, <2>9, <2>12, <3>2 DEF InHandIsOfTheImport, FinishedIsImported, ReadyOrRetried,
         Imported, OneImport
    <3> QED
      BY <3>3, <3>4, <3>5
  <2> QED
    BY <1>9, <2>8, <2>11, <2>12 DEF Remove, StillTheSource, processVars, Fault
<1>10. CASE FinishCleanup
  <2>8. /\ UNCHANGED <<disk, vault, removed, queue, job, restore, rs, backupCounts>>
        /\ step = "cleanup" /\ rs = "idle"
        /\ \/ mem' = "cleanup_blocked" /\ step' = "idle" /\ db' = [db EXCEPT !.status = "cleanup_blocked"]
           \/ mem' = "ready" /\ step' = "inventory" /\ db' = [db EXCEPT !.status = "complete"]
    BY <1>10 DEF FinishCleanup, SetMeta, Goes, OneAtTheGate
  <2>9. /\ db' \in Row /\ SameButStatus(db, db')
        /\ \/ mem' = "cleanup_blocked" /\ step' = "idle" /\ db'.status = "cleanup_blocked"
           \/ mem' = "ready" /\ step' = "inventory" /\ db'.status = "complete"
    BY <2>8, StatusSet DEF DataTyped, Statuses
  <2>10. db.path # 0 /\ db.mid # NoSources /\ queue # "up"
    BY <2>8 DEF InHandIsOfTheImport, OneImport, OfOneImport, QueueIsClosed
  <2>1. OneImport' /\ RemovedIsOfTheImport'
    <3>1. OfOneImport(db')
      BY <2>9, <2>10 DEF OneImport, OfOneImport, Kept, SameButStatus
    <3> QED
      BY <2>8, <3>1, ImportKept
  <2>2. DataTyped' /\ LocalsTyped'
    BY <2>8, <2>9 DEF DataTyped, LocalsTyped, MigrationSteps
  <2>3. OneAtTheGate' /\ QueueIsClosed'
    BY <2>8, <2>9, <2>10 DEF OneAtTheGate, QueueIsClosed, MigrationSteps
  <2>4. InHandIsOfTheImport' /\ FinishedIsImported'
    BY <2>8, <2>9, <2>10 DEF InHandIsOfTheImport, FinishedIsImported, ReadyOrRetried, Imported,
       SameButStatus, Finished
  <2> QED
    BY <2>1, <2>2, <2>3, <2>4
<1>11. CASE PrepareInventory
  <2>8. /\ UNCHANGED <<disk, removed, queue, job, restore, rs>> /\ step = "inventory" /\ rs = "idle" /\ mem = "ready"
        /\ Backfill /\ step' = IF mem' = "ready" THEN "open" ELSE "idle"
    BY <1>11 DEF PrepareInventory, Goes, OneAtTheGate
  <2>9. /\ DataTyped' /\ OneImport' /\ RemovedIsOfTheImport' /\ DOMAIN vault \subseteq DOMAIN vault'
        /\ mem' \in {"ready", "inventory_migration_error"}
        /\ backupCounts' \in Counts /\ backupCounts'.gaveUp = backupCounts.gaveUp
        /\ db'.status = db.status /\ db'.mid = db.mid /\ ("accounts" \in db'.rows => "accounts" \in db.rows)
    BY <2>8, BackfillKeeps
  <2>1. LocalsTyped'
    BY <2>8, <2>9 DEF LocalsTyped, MigrationSteps
  <2>2. OneAtTheGate' /\ QueueIsClosed'
    BY <2>8, <2>9 DEF OneAtTheGate, QueueIsClosed, MigrationSteps
  <2>3. InHandIsOfTheImport' /\ FinishedIsImported'
    BY <2>8, <2>9 DEF InHandIsOfTheImport, FinishedIsImported, ReadyOrRetried, Imported
  <2> QED
    BY <2>1, <2>2, <2>3, <2>9
<1>12. CASE OpenConsole
  <2>8. /\ UNCHANGED <<disk, vault, removed, mem, restore, rs, backupCounts>> /\ step = "open" /\ rs = "idle" /\ mem = "ready"
        /\ step' = "idle" /\ job' = NoJob /\ queue # "up"
        /\ \/ queue = "down" /\ queue' = "up" /\ db' = [db EXCEPT !.running = FALSE]
           \/ queue = "closing" /\ UNCHANGED <<queue, db>>
    BY <1>12 DEF OpenConsole, StartQueue, Goes, OneAtTheGate, QueueIsClosed, LocalsTyped
  <2>9. /\ db' \in Row /\ SameButWork(db, db')
    BY <2>8 DEF DataTyped, Row, SameButWork
  <2>1. OneImport' /\ RemovedIsOfTheImport'
    <3>1. OfOneImport(db')
      BY <2>9 DEF OneImport, OfOneImport, Kept, SameButWork
    <3> QED
      BY <2>8, <3>1, ImportKept
  <2>2. DataTyped' /\ LocalsTyped'
    BY <2>8, <2>9, TypedConstants DEF DataTyped, LocalsTyped
  <2>3. OneAtTheGate' /\ QueueIsClosed'
    BY <2>8, TypedConstants DEF OneAtTheGate, QueueIsClosed, LocalsTyped, MigrationSteps
  <2>4. InHandIsOfTheImport'
    BY <2>8, <2>9, TypedConstants DEF InHandIsOfTheImport, SameButWork
  <2>5. FinishedIsImported'
    BY <2>8, <2>9, TypedConstants DEF FinishedIsImported, ReadyOrRetried, Imported, SameButWork
  <2> QED
    BY <2>1, <2>2, <2>3, <2>4, <2>5
<1>13. ASSUME NEW i \in DOMAIN vault, RestoreRequest(i)
      PROVE  BackupsInv'
  <2>8. /\ UNCHANGED <<disk, db, vault, removed, mem, queue, step, job, backupCounts>>
        /\ rs = "idle" /\ step = "idle" /\ mem \notin {"down", "starting"}
        /\ restore' = [NoRestore EXCEPT !.file = i] /\ rs' = "close"
    BY <1>13 DEF RestoreRequest, NoRestore, RestoreGoes, dataVars, processVars
  <2>9. restore' \in Restores /\ restore'.file = i /\ i \in Nat
    <3>1. i \in Nat
      BY <1>13 DEF DataTyped
    <3> QED
      BY <2>8, <3>1, RestoreSet DEF LocalsTyped
  <2>1. OneImport' /\ RemovedIsOfTheImport'
    BY <2>8, ImportKept DEF OneImport
  <2>2. DataTyped' /\ LocalsTyped'
    BY <2>8, <2>9 DEF DataTyped, LocalsTyped
  <2>3. OneAtTheGate' /\ QueueIsClosed'
    BY <1>13, <2>8, <2>9 DEF OneAtTheGate, QueueIsClosed, MigrationSteps
  <2>4. InHandIsOfTheImport' /\ FinishedIsImported'
    BY <2>8 DEF InHandIsOfTheImport, FinishedIsImported, ReadyOrRetried, Imported
  <2> QED
    BY <2>1, <2>2, <2>3, <2>4
<1>14. CASE RestoreCloses
  <2>8. /\ UNCHANGED <<disk, vault, removed, mem, step, job, restore>> /\ rs = "close" /\ rs' = "replace" /\ step = "idle"
        /\ \/ queue' = "down" /\ db' = [db EXCEPT !.running = FALSE] /\ UNCHANGED backupCounts
           \/ /\ queue' = "closing" /\ UNCHANGED db
              /\ backupCounts' = [backupCounts EXCEPT !.faults = @ + 1, !.gaveUp = TRUE]
    BY <1>14 DEF RestoreCloses, RestoreGoes, OneAtTheGate
  <2>10. /\ backupCounts' \in Counts
         /\ queue' = "down" \/ (queue' = "closing" /\ backupCounts'.gaveUp)
    BY <2>8, CountsSet DEF LocalsTyped
  <2>9. /\ db' \in Row /\ SameButWork(db, db')
    BY <2>8 DEF DataTyped, Row, SameButWork
  <2>1. OneImport' /\ RemovedIsOfTheImport'
    <3>1. OfOneImport(db')
      BY <2>9 DEF OneImport, OfOneImport, Kept, SameButWork
    <3> QED
      BY <2>8, <3>1, ImportKept
  <2>2. DataTyped' /\ LocalsTyped'
    BY <2>8, <2>9, <2>10 DEF DataTyped, LocalsTyped
  <2>3. OneAtTheGate' /\ QueueIsClosed'
    BY <2>8, <2>10 DEF OneAtTheGate, QueueIsClosed, MigrationSteps
  <2>4. InHandIsOfTheImport'
    BY <2>8, <2>9, <2>10 DEF InHandIsOfTheImport, SameButWork
  <2>5. FinishedIsImported'
    BY <2>8, <2>9, <2>10 DEF FinishedIsImported, ReadyOrRetried, Imported, SameButWork
  <2> QED
    BY <2>1, <2>2, <2>3, <2>4, <2>5
<1>15. CASE RestoreReplaces
  <2>8. /\ UNCHANGED <<disk, vault, removed, mem, queue, step, job>> /\ rs = "replace" /\ step = "idle"
        /\ mem \notin {"down", "starting"} /\ restore.file \in DOMAIN vault
        /\ \/ /\ restore' = [restore EXCEPT !.old = db] /\ db' = vault[restore.file].snap /\ rs' = "initialize"
              /\ UNCHANGED backupCounts
           \/ UNCHANGED <<db, restore>> /\ rs' = "reopen" /\ (Fault \/ UNCHANGED backupCounts)
    BY <1>15 DEF RestoreReplaces, Previous, RestoreGoes, processVars, OneAtTheGate
  <2>9. backupCounts' \in Counts /\ backupCounts'.gaveUp = backupCounts.gaveUp
    BY <2>8 DEF LocalsTyped, Counts, Fault
  <2>10. vault[restore.file] \in File /\ OfOneImport(vault[restore.file].snap) /\ db.mid # NoSources
    BY <2>8 DEF OneImport, OfTheImport, DataTyped
  <2>11. db' \in Row /\ OfOneImport(db') /\ db'.mid = db.mid
    BY <2>8, <2>10 DEF OneImport, DataTyped, File, OfOneImport
  <2>12. /\ restore' \in Restores /\ restore'.file = restore.file
         /\ rs' = "initialize" => restore'.old = db
    BY <2>8 DEF LocalsTyped, DataTyped, Restores
  <2>1. OneImport' /\ RemovedIsOfTheImport'
    BY <2>8, <2>11, ImportKept
  <2>2. DataTyped' /\ LocalsTyped'
    BY <2>8, <2>9, <2>11, <2>12 DEF DataTyped, LocalsTyped
  <2>3. OneAtTheGate' /\ QueueIsClosed'
    BY <2>8, <2>9, <2>12 DEF OneAtTheGate, QueueIsClosed, MigrationSteps, DataTyped
  <2>4. InHandIsOfTheImport'
    BY <2>8, <2>11, <2>12 DEF InHandIsOfTheImport, OneImport, OfOneImport, Kept
  <2>5. FinishedIsImported'
    <3>1. "accounts" \in db'.rows => db'.mid # NoSources
      BY <2>10, <2>11
    <3>2. ReadyOrRetried => db.status \in Finished
      BY <2>8 DEF FinishedIsImported
    <3> QED
      BY <2>8, <2>10, <2>11, <2>12, <3>1, <3>2 DEF FinishedIsImported, ReadyOrRetried, Imported
  <2> QED
    BY <2>1, <2>2, <2>3, <2>4, <2>5
<1>16. CASE RestoreInitializes
  <2>8. /\ UNCHANGED <<disk, vault, removed, mem, queue, step, job, restore>> /\ rs = "initialize" /\ step = "idle"
        /\ mem \notin {"down", "starting"} /\ restore.file \in DOMAIN vault /\ restore.old \in Row
        /\ \/ db' = [db EXCEPT !.paused = TRUE] /\ rs' = "settle" /\ UNCHANGED backupCounts
           \/ db' = restore.old /\ rs' = "reopen" /\ Fault
    BY <1>16 DEF RestoreInitializes, RestoreGoes, Fault, processVars, OneAtTheGate
  <2>9. backupCounts' \in Counts /\ backupCounts'.gaveUp = backupCounts.gaveUp
    BY <2>8 DEF LocalsTyped, Counts, Fault
  <2>10. OfOneImport(restore.old) /\ db.mid # NoSources
    BY <2>8 DEF InHandIsOfTheImport, OneImport
  <2>11. /\ db' \in Row /\ OfOneImport(db') /\ db'.mid = db.mid
         /\ rs' = "settle" \/ (rs' = "reopen" /\ db'.status = restore.old.status)
    <3>1. CASE db' = [db EXCEPT !.paused = TRUE]
      BY <2>8, <3>1 DEF OneImport, OfOneImport, Kept, DataTyped, Row
    <3>2. CASE db' = restore.old /\ rs' = "reopen"
      BY <2>8, <2>10, <3>2 DEF OfOneImport
    <3> QED
      BY <2>8, <3>1, <3>2
  <2>1. OneImport' /\ RemovedIsOfTheImport'
    BY <2>8, <2>11, ImportKept
  <2>2. DataTyped' /\ LocalsTyped'
    BY <2>8, <2>9, <2>11 DEF DataTyped, LocalsTyped
  <2>3. OneAtTheGate' /\ QueueIsClosed'
    BY <2>8, <2>9 DEF OneAtTheGate, QueueIsClosed, MigrationSteps
  <2>4. InHandIsOfTheImport'
    BY <2>8 DEF InHandIsOfTheImport
  <2>5. FinishedIsImported'
    BY <2>8, <2>10, <2>11 DEF FinishedIsImported, ReadyOrRetried, Imported
  <2> QED
    BY <2>1, <2>2, <2>3, <2>4, <2>5
<1>17. CASE RestoreSettles
  <2>8. /\ UNCHANGED <<disk, vault, removed, queue, step, job, backupCounts>> /\ rs = "settle" /\ step = "idle"
        /\ restore' = [restore EXCEPT !.settled = TRUE] /\ restore.file \in DOMAIN vault
        /\ \/ db' = Settled /\ mem' = "ready" /\ rs' = "inventory"
           \/ db' = db /\ db.status \in Finished /\ mem' = "ready" /\ rs' = "inventory"
           \/ db' = db /\ db.status \in {"cleanup_blocked", "migration_error"} /\ mem' = db.status /\ rs' = "reopen"
    BY <1>17 DEF RestoreSettles, RestoreGoes, OneAtTheGate, Finished, DataTyped, Row, Statuses
  <2>9. /\ restore' \in Restores /\ restore'.file = restore.file
        /\ restore.file \in Nat /\ restore.file # 0
    <3>1. restore.file \in Nat /\ restore.file # 0 /\ restore \in Restores
      BY <2>8 DEF LocalsTyped, DataTyped
    <3> QED
      BY <2>8, <3>1, RestoreSet
  <2>10. /\ Settled \in Row /\ Settled.status = "complete" /\ Settled.path = restore.file
         /\ Settled.mid = db.mid /\ Settled.marker = db.marker /\ Settled.rows = db.rows
    BY <2>9 DEF Settled, DataTyped, Row, Statuses
  <2>11. /\ db' \in Row /\ OfOneImport(db') /\ db'.mid = db.mid /\ db.mid # NoSources
         /\ mem' = "ready" => db'.status \in Finished
    BY <2>8, <2>9, <2>10 DEF OneImport, OfOneImport, Kept, DataTyped, Finished
  <2>12. /\ mem' \in {"ready", "cleanup_blocked", "migration_error"}
         /\ rs' = IF mem' = "ready" THEN "inventory" ELSE "reopen"
    BY <2>8
  <2>1. OneImport' /\ RemovedIsOfTheImport'
    BY <2>8, <2>11, ImportKept
  <2>2. DataTyped' /\ LocalsTyped'
    <3>1. UNCHANGED <<disk, vault, removed, queue, step, job, backupCounts>>
      BY <2>8
    <3> QED
      BY <3>1, <2>9, <2>11, <2>12 DEF DataTyped, LocalsTyped
  <2>3. OneAtTheGate' /\ QueueIsClosed'
    <3>1. UNCHANGED <<vault, queue, step, backupCounts>> /\ step = "idle" /\ rs = "settle" /\ restore.file \in DOMAIN vault
      BY <2>8
    <3> QED
      BY <3>1, <2>9, <2>12 DEF OneAtTheGate, QueueIsClosed, MigrationSteps
  <2>4. InHandIsOfTheImport'
    BY <2>8, <2>12 DEF InHandIsOfTheImport
  <2>5. FinishedIsImported'
    BY <2>8, <2>11, <2>12 DEF FinishedIsImported, ReadyOrRetried, Imported
  <2> QED
    BY <2>1, <2>2, <2>3, <2>4, <2>5
<1>18. CASE RestoreBackfills
  <2>8. /\ UNCHANGED <<disk, removed, queue, step, job, restore>> /\ rs = "inventory" /\ step = "idle" /\ mem = "ready"
        /\ Backfill /\ rs' = "reopen"
    BY <1>18 DEF RestoreBackfills, RestoreGoes, OneAtTheGate
  <2>9. /\ DataTyped' /\ OneImport' /\ RemovedIsOfTheImport' /\ DOMAIN vault \subseteq DOMAIN vault'
        /\ mem' \in {"ready", "inventory_migration_error"}
        /\ backupCounts' \in Counts /\ backupCounts'.gaveUp = backupCounts.gaveUp
        /\ db'.status = db.status /\ db'.mid = db.mid /\ ("accounts" \in db'.rows => "accounts" \in db.rows)
    BY <2>8, BackfillKeeps
  <2>10. restore.file \in DOMAIN vault'
    BY <2>8, <2>9 DEF OneAtTheGate
  <2>1. LocalsTyped'
    BY <2>8, <2>9 DEF LocalsTyped
  <2>2. OneAtTheGate' /\ QueueIsClosed'
    BY <2>8, <2>9, <2>10 DEF OneAtTheGate, QueueIsClosed, MigrationSteps
  <2>3. InHandIsOfTheImport' /\ FinishedIsImported'
    BY <2>8, <2>9 DEF InHandIsOfTheImport, FinishedIsImported, ReadyOrRetried, Imported
  <2> QED
    BY <2>1, <2>2, <2>3, <2>9
<1>19. CASE RestoreReopens
  <2>8. /\ UNCHANGED <<disk, vault, removed, mem, step, job, backupCounts>> /\ rs = "reopen" /\ rs' = "idle" /\ step = "idle"
        /\ restore' = NoRestore /\ queue # "up"
        /\ \/ mem = "ready" /\ queue = "down" /\ queue' = "up" /\ db' = [db EXCEPT !.running = FALSE]
           \/ UNCHANGED <<queue, db>> /\ (mem = "ready" => queue = "closing")
    BY <1>19 DEF RestoreReopens, Reopens, StartQueue, RestoreGoes, NoRestore, OneAtTheGate,
       QueueIsClosed, LocalsTyped
  <2>9. /\ db' \in Row /\ SameButWork(db, db')
    BY <2>8 DEF DataTyped, Row, SameButWork
  <2>1. OneImport' /\ RemovedIsOfTheImport'
    <3>1. OfOneImport(db')
      BY <2>9 DEF OneImport, OfOneImport, Kept, SameButWork
    <3> QED
      BY <2>8, <3>1, ImportKept
  <2>2. DataTyped' /\ LocalsTyped'
    BY <2>8, <2>9 DEF DataTyped, LocalsTyped, NoRestore, Restores
  <2>3. OneAtTheGate' /\ QueueIsClosed'
    BY <2>8 DEF OneAtTheGate, QueueIsClosed, MigrationSteps
  <2>4. InHandIsOfTheImport'
    BY <2>8, <2>9 DEF InHandIsOfTheImport, SameButWork
  <2>5. FinishedIsImported'
    BY <2>8, <2>9 DEF FinishedIsImported, ReadyOrRetried, Imported, SameButWork
  <2> QED
    BY <2>1, <2>2, <2>3, <2>4, <2>5
<1>20. CASE TogglePause
  <2>8. /\ UNCHANGED <<disk, vault, removed, mem, queue, step, job, restore, rs, backupCounts>> /\ mem = "ready" /\ rs # "initialize"
        /\ db' = [db EXCEPT !.paused = ~@]
    BY <1>20 DEF TogglePause, Served, Unlocked, OnlyDb, processVars
  <2>9. /\ db' \in Row /\ SameButWork(db, db')
    BY <2>8 DEF DataTyped, Row, SameButWork
  <2>1. OneImport' /\ RemovedIsOfTheImport'
    <3>1. OfOneImport(db')
      BY <2>9 DEF OneImport, OfOneImport, Kept, SameButWork
    <3> QED
      BY <2>8, <3>1, ImportKept
  <2>2. DataTyped' /\ LocalsTyped'
    BY <2>8, <2>9 DEF DataTyped, LocalsTyped
  <2>3. OneAtTheGate' /\ QueueIsClosed'
    BY <2>8 DEF OneAtTheGate, QueueIsClosed, MigrationSteps
  <2>4. InHandIsOfTheImport'
    BY <2>8, <2>9 DEF InHandIsOfTheImport, SameButWork
  <2>5. FinishedIsImported'
    BY <2>8, <2>9 DEF FinishedIsImported, ReadyOrRetried, Imported, SameButWork
  <2> QED
    BY <2>1, <2>2, <2>3, <2>4, <2>5
<1>21. CASE AddWork
  <2>8. /\ UNCHANGED <<disk, vault, removed, mem, queue, step, job, restore, rs, backupCounts>> /\ mem = "ready" /\ rs # "initialize"
        /\ db' = [db EXCEPT !.rows = @ \cup {"work"}]
    BY <1>21 DEF AddWork, Served, Unlocked, OnlyDb, processVars
  <2>9. /\ db' \in Row /\ SameButWork(db, db')
    BY <2>8 DEF DataTyped, Row, SameButWork
  <2>1. OneImport' /\ RemovedIsOfTheImport'
    <3>1. OfOneImport(db')
      BY <2>9 DEF OneImport, OfOneImport, Kept, SameButWork
    <3> QED
      BY <2>8, <3>1, ImportKept
  <2>2. DataTyped' /\ LocalsTyped'
    BY <2>8, <2>9 DEF DataTyped, LocalsTyped
  <2>3. OneAtTheGate' /\ QueueIsClosed'
    BY <2>8 DEF OneAtTheGate, QueueIsClosed, MigrationSteps
  <2>4. InHandIsOfTheImport'
    BY <2>8, <2>9 DEF InHandIsOfTheImport, SameButWork
  <2>5. FinishedIsImported'
    BY <2>8, <2>9 DEF FinishedIsImported, ReadyOrRetried, Imported, SameButWork
  <2> QED
    BY <2>1, <2>2, <2>3, <2>4, <2>5
<1>22. CASE ClaimWork
  <2>8. /\ UNCHANGED <<disk, vault, removed, mem, queue, step, job, restore, rs, backupCounts>> /\ queue = "up" /\ rs # "initialize"
        /\ db' = [db EXCEPT !.running = TRUE]
    BY <1>22 DEF ClaimWork, Unlocked, OnlyDb, processVars
  <2>9. /\ db' \in Row /\ SameButWork(db, db')
    BY <2>8 DEF DataTyped, Row, SameButWork
  <2>1. OneImport' /\ RemovedIsOfTheImport'
    <3>1. OfOneImport(db')
      BY <2>9 DEF OneImport, OfOneImport, Kept, SameButWork
    <3> QED
      BY <2>8, <3>1, ImportKept
  <2>2. DataTyped' /\ LocalsTyped'
    BY <2>8, <2>9 DEF DataTyped, LocalsTyped
  <2>3. OneAtTheGate' /\ QueueIsClosed'
    BY <2>8 DEF OneAtTheGate, QueueIsClosed, MigrationSteps
  <2>4. InHandIsOfTheImport'
    BY <2>8, <2>9 DEF InHandIsOfTheImport, SameButWork
  <2>5. FinishedIsImported'
    BY <2>8, <2>9 DEF FinishedIsImported, ReadyOrRetried, Imported, SameButWork
  <2> QED
    BY <2>1, <2>2, <2>3, <2>4, <2>5
<1>23. CASE FinishWork
  <2>8. /\ UNCHANGED <<disk, vault, removed, mem, step, job, restore, rs, backupCounts>> /\ rs # "initialize"
        /\ db' = [db EXCEPT !.running = FALSE, !.rows = @ \ {"work"}]
        /\ queue' = IF queue = "closing" THEN "down" ELSE queue
    BY <1>23 DEF FinishWork, Unlocked
  <2>9. /\ db' \in Row /\ SameButWork(db, db')
    BY <2>8 DEF DataTyped, Row, SameButWork
  <2>1. OneImport' /\ RemovedIsOfTheImport'
    <3>1. OfOneImport(db')
      BY <2>9 DEF OneImport, OfOneImport, Kept, SameButWork
    <3> QED
      BY <2>8, <3>1, ImportKept
  <2>2. DataTyped' /\ LocalsTyped'
    BY <2>8, <2>9 DEF DataTyped, LocalsTyped
  <2>3. OneAtTheGate' /\ QueueIsClosed'
    BY <2>8 DEF OneAtTheGate, QueueIsClosed, MigrationSteps
  <2>4. InHandIsOfTheImport'
    BY <2>8, <2>9 DEF InHandIsOfTheImport, SameButWork
  <2>5. FinishedIsImported'
    BY <2>8, <2>9 DEF FinishedIsImported, ReadyOrRetried, Imported, SameButWork
  <2> QED
    BY <2>1, <2>2, <2>3, <2>4, <2>5
<1>24. CASE CreateEncryptedBackup
  <2> DEFINE id == IF db.path = 0 THEN OfConsole ELSE vault[db.path].mid
             b == Backup("console", id, BackedUpSources, db')
  <2>8. /\ UNCHANGED <<disk, removed, mem, queue, step, job, restore, rs, backupCounts>>
        /\ mem = "ready" /\ rs # "initialize" /\ db.mid \in {NoSources, id}
        /\ db' = [db EXCEPT !.mid = id] /\ vault' = Append(vault, b)
    BY <1>24 DEF CreateEncryptedBackup, Served, Unlocked, processVars
  <2>9. /\ db.path # 0 => id = db.mid /\ BackedUpSources = db.mid /\ DOMAIN vault # {}
        /\ db.path = 0 => id = OfConsole /\ BackedUpSources = OfConsole
    BY DEF BackedUpSources, OneImport, OfOneImport, OfTheImport
  <2>10. id \in Digest /\ id # NoSources /\ BackedUpSources = id
    BY <2>9, TypedConstants DEF OneImport, DataTyped, Row
  <2> HIDE DEF id
  <2>11. /\ db' \in Row /\ db'.mid = id /\ db'.path = db.path /\ db'.marker = db.marker
         /\ db'.rows = db.rows /\ db'.status = db.status
    BY <2>8, <2>10 DEF DataTyped, Row
  <2>12. /\ b \in File /\ b.kind = "console" /\ b.mid = id /\ b.sources = id /\ b.snap = db'
    BY <2>10, <2>11 DEF Backup, File
  <2> HIDE DEF b
  <2>1. vault' \in Seq(File) /\ DOMAIN vault \subseteq DOMAIN vault' /\ OneImport' /\ RemovedIsOfTheImport'
    <3>1. CASE db.mid = id
      <4>1. OfOneImport(db')
        BY <2>11, <3>1 DEF OneImport, OfOneImport, Kept
      <4>2. OfTheImport(b)
        BY <2>12, <4>1, <3>1 DEF OfTheImport
      <4>3. db.mid # NoSources /\ (db.mid = OfConsole \/ AnyMigrationBackup)
        BY <2>9, <2>10, <3>1 DEF OneImport
      <4> QED
        BY <2>8, <2>12, <4>1, <4>2, <4>3, ImportBackedUp DEF DataTyped
    <3>2. CASE db.mid = NoSources
      <4>1. DOMAIN vault = {} /\ db.path = 0 /\ id = OfConsole /\ removed = {}
        BY <2>9, <3>2 DEF OneImport, OfOneImport, RemovedIsOfTheImport, AnyMigrationBackup
      <4>2. /\ vault' \in Seq(File) /\ DOMAIN vault' = DOMAIN vault \cup {Len(vault) + 1}
            /\ vault'[Len(vault) + 1] = b
        BY <2>8, <2>12, OneBackupMore DEF DataTyped
      <4>3. OfOneImport(db)' /\ Kept(db')
        BY <2>11, <4>1 DEF OneImport, OfOneImport, Kept
      <4>4. OneImport'
        BY <2>10, <2>11, <2>12, <4>1, <4>2, <4>3 DEF OneImport, OfTheImport, OfOneImport, Kept
      <4> QED
        BY <2>8, <4>1, <4>2, <4>4 DEF RemovedIsOfTheImport
    <3> QED
      BY <2>8, <3>1, <3>2
  <2>2. DataTyped' /\ LocalsTyped'
    BY <2>1, <2>8, <2>11 DEF DataTyped, LocalsTyped
  <2>3. OneAtTheGate' /\ QueueIsClosed'
    BY <2>1, <2>8 DEF OneAtTheGate, QueueIsClosed, MigrationSteps
  <2>4. InHandIsOfTheImport'
    BY <2>8 DEF InHandIsOfTheImport, OneAtTheGate, MigrationSteps
  <2>5. FinishedIsImported'
    BY <2>8, <2>10, <2>11 DEF FinishedIsImported, ReadyOrRetried, Imported
  <2> QED
    BY <2>1, <2>2, <2>3, <2>4, <2>5
<1>25. ASSUME NEW s \in Sources, EditSource(s)
      PROVE  BackupsInv'
  <2>8. /\ UNCHANGED <<db, vault, removed, mem, queue, step, job, restore, rs>>
        /\ disk[s] # 0 /\ disk' = [disk EXCEPT ![s] = @ + 1]
        /\ backupCounts' = [backupCounts EXCEPT !.edits = @ + 1]
    BY <1>25 DEF EditSource, processVars
  <2>9. disk' \in [Sources -> Nat] /\ (disk'["config"] = 0 <=> disk["config"] = 0)
    BY <1>25, <2>8 DEF DataTyped, Sources
  <2>10. backupCounts' \in Counts /\ backupCounts'.gaveUp = backupCounts.gaveUp
    BY <2>8 DEF LocalsTyped, Counts
  <2>1. OneImport' /\ RemovedIsOfTheImport'
    BY <2>8, ImportKept DEF OneImport
  <2>2. DataTyped' /\ LocalsTyped'
    BY <2>8, <2>9, <2>10 DEF DataTyped, LocalsTyped
  <2>3. OneAtTheGate' /\ QueueIsClosed'
    BY <2>8, <2>10 DEF OneAtTheGate, QueueIsClosed
  <2>4. InHandIsOfTheImport' /\ FinishedIsImported'
    <3>1. UNCHANGED <<OfOneImport(restore.old), Finished>>
      BY <2>8 DEF OfOneImport, Kept, Finished
    <3> QED
      BY <2>8, <2>9, <3>1 DEF InHandIsOfTheImport, FinishedIsImported, ReadyOrRetried, Imported
  <2> QED
    BY <2>1, <2>2, <2>3, <2>4
<1>26. CASE BackupCrash
  <2>8. /\ UNCHANGED <<disk, db, vault, removed>> /\ mem' = "down" /\ queue' = "down" /\ step' = "idle"
        /\ job' = NoJob /\ rs' = "idle" /\ restore' = NoRestore
        /\ backupCounts' = [backupCounts EXCEPT !.crashes = @ + 1, !.gaveUp = FALSE]
    BY <1>26 DEF BackupCrash, NoRestore, dataVars
  <2>9. backupCounts' \in Counts
    BY <2>8, CountsSet DEF LocalsTyped
  <2>1. OneImport' /\ RemovedIsOfTheImport'
    BY <2>8, ImportKept DEF OneImport
  <2>2. DataTyped' /\ LocalsTyped'
    BY <2>8, <2>9, TypedConstants DEF DataTyped, LocalsTyped, NoRestore, Restores
  <2>3. OneAtTheGate' /\ QueueIsClosed'
    BY <2>8 DEF OneAtTheGate, QueueIsClosed, MigrationSteps
  <2>4. InHandIsOfTheImport' /\ FinishedIsImported'
    BY <2>8 DEF InHandIsOfTheImport, FinishedIsImported, ReadyOrRetried, Imported
  <2> QED
    BY <2>1, <2>2, <2>3, <2>4
<1>27. CASE UNCHANGED backupVars
  <2>1. DataTyped' /\ LocalsTyped' /\ OneAtTheGate' /\ QueueIsClosed'
    BY <1>27 DEF backupVars, DataTyped, LocalsTyped, OneAtTheGate, QueueIsClosed
  <2>2. OneImport' /\ RemovedIsOfTheImport'
    BY <1>27, ImportKept DEF backupVars, OneImport
  <2>3. InHandIsOfTheImport' /\ FinishedIsImported'
    BY <1>27 DEF backupVars, InHandIsOfTheImport, FinishedIsImported, OfOneImport, Kept,
       ReadyOrRetried, Imported
  <2> QED
    BY <2>1, <2>2, <2>3
<1> QED
  BY <1>1, <1>2, <1>3, <1>4, <1>5, <1>6, <1>7, <1>8, <1>9, <1>10, <1>11, <1>12, <1>13, <1>14, <1>15,
     <1>16, <1>17, <1>18, <1>19, <1>20, <1>21, <1>22, <1>23, <1>24, <1>25, <1>26, <1>27
     DEF BackupsNext, MigrationNext, RestoreNext

(***************************************************************************)
(* The bounds of the backups' state, and what a restore leads to.          *)
(***************************************************************************)
Versions == -1 .. MaxSourceEdits + 1

Bounded ==
  /\ backupCounts.edits <= MaxSourceEdits
  /\ \A s \in Sources : disk[s] <= backupCounts.edits + 1
  /\ db.mid \in [Sources -> Versions] /\ job.seen \in [Sources -> Versions]
  /\ Len(vault) <= MaxBackups
  /\ alertsUp \in BOOLEAN

\* A console writes its own backups when it is at work, and a migration writes
\* its backup before it records one.
AsWritten(f) ==
  IF f.kind = "console" THEN f.snap.status \in Finished
  ELSE f.snap.path = 0 /\ f.mid # OfConsole

\* A restored database is what the backup holds until the restore settles it.
AsRestored ==
  /\ rs \in {"initialize", "settle"} =>
       /\ db.status = vault[restore.file].snap.status
       /\ db.path = vault[restore.file].snap.path
  /\ restore.settled => rs \in {"inventory", "reopen"}
  /\ rs = "idle" => restore = NoRestore

RestoreInv ==
  /\ \A i \in DOMAIN vault : AsWritten(vault[i])
  /\ AsRestored /\ RestoredWorks
  /\ step \in {"validate", "import", "backup"} => job.seen # OfConsole

LEMMA RestoreInvInit == BackupsInit => RestoreInv /\ Bounded
<1> SUFFICES ASSUME BackupsInit
             PROVE  RestoreInv /\ Bounded
  OBVIOUS
<1> USE DEF BackupsInit
<1>1. vault = <<>> /\ DOMAIN vault = {} /\ Len(vault) = 0 /\ ~NoRestore.settled
  BY DEF NoRestore
<1>2. NoSources \in [Sources -> Versions]
  BY BackupBoundsAssumption DEF NoSources, Versions
<1>3. \A s \in Sources : disk[s] <= 1
  BY DEF NoSources, Sources
<1>4. RestoreInv
  BY <1>1 DEF RestoreInv, AsRestored, RestoredWorks
<1>5. Bounded
  <2>1. MaxSourceEdits \in Nat /\ MaxBackups \in Nat
    BY BackupBoundsAssumption
  <2>2. backupCounts.edits = 0 /\ db.mid = NoSources /\ job.seen = NoSources
    BY DEF NoJob, Empty
  <2>3. \A s \in Sources : disk[s] <= backupCounts.edits + 1
    BY <1>3, <2>2
  <2>4. alertsUp \in BOOLEAN
    OBVIOUS
  <2> HIDE DEF BackupsInit
  <2> QED
    BY <1>1, <1>2, <2>1, <2>2, <2>3, <2>4 DEF Bounded
<1> QED
  BY <1>4, <1>5

\* While a restore is under way, the requests and the worker change neither the
\* status of the database nor the backup it names, and the migration waits.
LEMMA UnderARestore ==
  ASSUME BackupsInv, BackupsNext, rs # "idle", ~RestoreNext, ~BackupCrash
  PROVE  UNCHANGED <<mem, rs, restore, step, job>> /\ db'.status = db.status /\ db'.path = db.path
<1>1. step = "idle" /\ mem # "down" /\ db \in Row
  BY DEF BackupsInv, OneAtTheGate, DataTyped
<1>2. ~MigrationNext
  BY <1>1 DEF MigrationNext, PrepareMigration, RetryMigrationCleanup, MigrationFault,
     MigrationSteps,
     DiscoverLegacy, ReadSources, ApplyLegacyImport, WriteMigrationBackup, RecordBackup, Remove,
     FinishCleanup, PrepareInventory, OpenConsole
<1>3. CASE TogglePause \/ AddWork \/ ClaimWork
  BY <1>1, <1>3 DEF TogglePause, AddWork, ClaimWork, OnlyDb, processVars, jobVars, restoreVars, Row
<1>4. CASE FinishWork
  BY <1>1, <1>4 DEF FinishWork, jobVars, restoreVars, Row
<1>5. CASE CreateEncryptedBackup
  <2>1. \E id : db' = [db EXCEPT !.mid = id]
    BY <1>5 DEF CreateEncryptedBackup
  <2> QED
    BY <1>1, <1>5, <2>1 DEF CreateEncryptedBackup, processVars, jobVars, restoreVars, Row
<1>6. CASE \E s \in Sources : EditSource(s)
  BY <1>6 DEF EditSource, processVars, jobVars, restoreVars
<1> QED
  BY <1>2, <1>3, <1>4, <1>5, <1>6 DEF BackupsNext

LEMMA VaultStep ==
  ASSUME BackupsInv, RestoreInv, BackupsNext
  PROVE  \/ UNCHANGED vault
         \/ Len(vault) < MaxBackups /\ \E b \in File : AsWritten(b) /\ vault' = Append(vault, b)
<1> USE DEF BackupsInv
<1>1. db \in Row /\ \A i \in DOMAIN vault : vault[i] \in File
  BY DEF DataTyped
<1>2. ASSUME Backfill, mem = "ready", rs \notin {"initialize", "settle"}
      PROVE  \/ UNCHANGED vault
             \/ Len(vault) < MaxBackups /\ \E b \in File : AsWritten(b) /\ vault' = Append(vault, b)
  <2> DEFINE b == Backup("console", db.mid, vault[db.path].sources, db)
  <2>1. CASE UNCHANGED vault
    BY <2>1
  <2>2. CASE vault' = Prechange /\ Len(vault) < MaxBackups /\ db.path # 0
    <3>1. db.path \in DOMAIN vault
      BY <2>2 DEF OneImport, OfOneImport
    <3>2. b \in File
      BY <1>1, <3>1 DEF Backup, File, Row
    <3>3. AsWritten(b)
      BY <1>2 DEF AsWritten, Backup, FinishedIsImported, ReadyOrRetried
    <3> QED
      BY <2>2, <3>2, <3>3 DEF Prechange
  <2> QED
    BY <1>2, <2>1, <2>2 DEF Backfill
<1>3. CASE PrepareInventory \/ RestoreBackfills
  BY <1>2, <1>3 DEF PrepareInventory, RestoreBackfills, OneAtTheGate
<1>4. CASE WriteMigrationBackup
  <2> DEFINE b == Backup("migration", job.seen, job.seen, db)
  <2>1. step = "backup" /\ job.seen = db.mid /\ job.seen # OfConsole
    BY <1>4 DEF WriteMigrationBackup, InHandIsOfTheImport, RestoreInv
  <2>2. MigrationBackups(job.seen) = {} => db.path = 0
    <3>1. SUFFICES ASSUME db.path # 0
                   PROVE  MigrationBackups(job.seen) # {}
      OBVIOUS
    <3>2. DOMAIN vault # {}
      BY <3>1 DEF OneImport, OfOneImport
    <3>3. PICK i \in DOMAIN vault : vault[i].kind = "migration"
      BY <2>1, <3>2 DEF OneImport, AnyMigrationBackup
    <3>4. vault[i].mid = job.seen
      BY <2>1 DEF OneImport, OfTheImport
    <3> QED
      BY <3>3, <3>4 DEF MigrationBackups
  <2>3. b \in File
    BY <1>1, <2>1 DEF Backup, File, Row
  <2>4. db.path = 0 => AsWritten(b)
    BY <2>1 DEF AsWritten, Backup
  <2> QED
    BY <1>4, <2>2, <2>3, <2>4 DEF WriteMigrationBackup
<1>5. CASE CreateEncryptedBackup
  <2> DEFINE id == IF db.path = 0 THEN OfConsole ELSE vault[db.path].mid
             b == Backup("console", id, BackedUpSources, db')
  <2>1. /\ mem = "ready" /\ rs # "initialize" /\ db.mid \in {NoSources, id}
        /\ Len(vault) < MaxBackups
        /\ db' = [db EXCEPT !.mid = id] /\ vault' = Append(vault, b)
    BY <1>5 DEF CreateEncryptedBackup, Served, Unlocked
  <2>2. db.path # 0 => db.path \in DOMAIN vault
    BY DEF OneImport, OfOneImport
  <2>3. id \in Digest /\ BackedUpSources \in Digest
    BY <1>1, <2>2, TypedConstants DEF BackedUpSources, File
  <2>4. db.status \in Finished
    <3>1. CASE rs # "settle"
      BY <2>1, <3>1 DEF FinishedIsImported, ReadyOrRetried
    <3>2. CASE rs = "settle"
      <4> DEFINE f == vault[restore.file]
      <4>1. restore.file \in DOMAIN vault /\ db.status = f.snap.status /\ db.path = f.snap.path
        BY <3>2 DEF RestoreInv, AsRestored, OneAtTheGate
      <4>2. AsWritten(f) /\ f.mid = db.mid /\ db.mid # NoSources
        BY <4>1 DEF RestoreInv, OneImport, OfTheImport
      <4>3. db.path # 0 \/ f.mid = OfConsole
        BY <2>1, <4>2
      <4> HIDE DEF f
      <4> QED
        BY <4>1, <4>2, <4>3 DEF AsWritten
    <3> QED
      BY <3>1, <3>2
  <2> HIDE DEF id
  <2>5. db' \in Row /\ db'.status = db.status
    BY <1>1, <2>1, <2>3 DEF Row
  <2>6. b \in File /\ AsWritten(b)
    BY <2>3, <2>4, <2>5 DEF Backup, File, AsWritten
  <2> QED
    BY <2>1, <2>6
<1>6. CASE /\ ~(PrepareInventory \/ RestoreBackfills)
           /\ ~WriteMigrationBackup /\ ~CreateEncryptedBackup
  <2>1. CASE MigrationNext
    BY <1>6, <2>1 DEF MigrationNext, PrepareMigration, RetryMigrationCleanup, MigrationFault,
       MigrationFails, DiscoverLegacy, ReadSources, ApplyLegacyImport, RecordBackup, Remove,
       FinishCleanup, OpenConsole, dataVars
  <2>2. CASE RestoreNext
    BY <1>6, <2>2 DEF RestoreNext, RestoreRequest, RestoreCloses, RestoreReplaces,
       RestoreInitializes,
       RestoreSettles, RestoreReopens, dataVars
  <2>3. CASE TogglePause \/ AddWork \/ ClaimWork \/ FinishWork
    BY <2>3 DEF TogglePause, AddWork, ClaimWork, FinishWork, OnlyDb
  <2>4. CASE (\E s \in Sources : EditSource(s)) \/ BackupCrash
    BY <2>4 DEF EditSource, BackupCrash, dataVars
  <2> QED
    BY <1>6, <2>1, <2>2, <2>3, <2>4 DEF BackupsNext
<1> QED
  BY <1>3, <1>4, <1>5, <1>6

LEMMA RestoreInvStep ==
  ASSUME BackupsInv, BackupsInv', RestoreInv, [BackupsNext]_backupVars
  PROVE  RestoreInv'
<1>1. CASE UNCHANGED backupVars
  BY <1>1 DEF backupVars, RestoreInv, AsRestored, RestoredWorks
<1> SUFFICES ASSUME BackupsNext
             PROVE  RestoreInv'
  BY <1>1
<1>2. vault \in Seq(File) /\ db \in Row /\ restore \in Restores /\ job \in Locals /\ disk \in [Sources -> Nat]
  BY DEF BackupsInv, DataTyped, LocalsTyped
<1>3. /\ \A i \in DOMAIN vault' : AsWritten(vault'[i])
      /\ \A i \in DOMAIN vault : i \in DOMAIN vault' /\ vault'[i] = vault[i]
  <2>1. CASE UNCHANGED vault
    BY <2>1 DEF RestoreInv
  <2>2. ASSUME NEW b \in File, AsWritten(b), vault' = Append(vault, b)
        PROVE  /\ \A i \in DOMAIN vault' : AsWritten(vault'[i])
               /\ \A i \in DOMAIN vault : i \in DOMAIN vault' /\ vault'[i] = vault[i]
    BY <1>2, <2>2, OneBackupMore DEF RestoreInv
  <2> QED
    BY <2>1, <2>2, VaultStep
<1>4. rs # "idle" => restore.file \in DOMAIN vault /\ step = "idle"
  BY DEF BackupsInv, OneAtTheGate
<1>5. (\A i \in DOMAIN vault : AsWritten(vault[i]))'
  BY <1>3
<1>6. AsRestored' /\ RestoredWorks'
  <2>1. CASE BackupCrash
    BY <2>1 DEF BackupCrash, AsRestored, RestoredWorks, NoRestore
  <2>2. CASE RestoreNext
    <3>1. ASSUME NEW i \in DOMAIN vault, RestoreRequest(i)
          PROVE  AsRestored' /\ RestoredWorks'
      BY <3>1 DEF RestoreRequest, RestoreGoes, AsRestored, RestoredWorks, NoRestore
    <3>2. CASE RestoreCloses
      BY <3>2 DEF RestoreCloses, RestoreGoes, RestoreInv, AsRestored, RestoredWorks
    <3>3. CASE RestoreReplaces
      <4>1. restore.file \in DOMAIN vault /\ ~restore.settled /\ vault' = vault
        BY <1>4, <3>3 DEF RestoreReplaces, RestoreInv, AsRestored
      <4>2. restore'.file = restore.file /\ restore'.settled = restore.settled
        BY <1>2, <3>3 DEF RestoreReplaces, Restores
      <4> QED
        BY <3>3, <4>1, <4>2 DEF RestoreReplaces, RestoreGoes, AsRestored, RestoredWorks
    <3>4. CASE RestoreInitializes
      <4>1. restore' = restore /\ ~restore.settled /\ vault' = vault /\ rs = "initialize"
        BY <3>4 DEF RestoreInitializes, RestoreInv, AsRestored
      <4>2. CASE db' = [db EXCEPT !.paused = TRUE] /\ rs' = "settle"
        <5>1. db'.status = db.status /\ db'.path = db.path
          BY <1>2, <4>2 DEF Row
        <5> QED
          BY <4>1, <4>2, <5>1 DEF RestoreInv, AsRestored, RestoredWorks
      <4>3. CASE rs' = "reopen"
        BY <4>1, <4>3 DEF AsRestored, RestoredWorks
      <4> QED
        BY <3>4, <4>2, <4>3 DEF RestoreInitializes, RestoreGoes
    <3>5. CASE RestoreSettles
      <4> DEFINE f == vault[restore.file]
      <4>1. /\ restore.file \in DOMAIN vault /\ f.snap.status = db.status /\ AsWritten(f)
            /\ db.status \in Statuses /\ vault' = vault /\ f \in File
        BY <1>2, <1>4, <3>5 DEF RestoreSettles, RestoreInv, AsRestored, Row
      <4>2. restore'.file = restore.file /\ rs' \in {"inventory", "reopen"}
        BY <1>2, <3>5 DEF RestoreSettles, RestoreGoes, Restores
      <4>3. mem' = "ready" \/ (mem' = db.status /\ db.status \notin Finished)
        BY <3>5 DEF RestoreSettles, Finished
      <4>4. mem' = "ready" \/ (f.kind = "migration" /\ f.snap.status = mem')
        BY <4>1, <4>3 DEF AsWritten, File
      <4> QED
        BY <4>1, <4>2, <4>4 DEF AsRestored, RestoredWorks
    <3>6. CASE RestoreBackfills
      <4>1. restore' = restore /\ rs' = "reopen" /\ mem' \in {"ready", "inventory_migration_error"}
        BY <3>6 DEF RestoreBackfills, RestoreGoes, Backfill, BackupsInv, OneAtTheGate
      <4> QED
        BY <4>1 DEF AsRestored, RestoredWorks
    <3>7. CASE RestoreReopens
      BY <3>7 DEF RestoreReopens, RestoreGoes, NoRestore, AsRestored, RestoredWorks
    <3> QED
      BY <2>2, <3>1, <3>2, <3>3, <3>4, <3>5, <3>6, <3>7 DEF RestoreNext
  <2>3. CASE rs # "idle" /\ ~RestoreNext /\ ~BackupCrash
    <3>1. UNCHANGED <<mem, rs, restore>> /\ db'.status = db.status /\ db'.path = db.path
      BY <2>3, UnderARestore
    <3>2. vault'[restore.file] = vault[restore.file]
      BY <1>3, <1>4, <2>3
    <3> QED
      BY <3>1, <3>2 DEF RestoreInv, AsRestored, RestoredWorks
  <2>4. CASE rs = "idle" /\ ~RestoreNext /\ ~BackupCrash
    <3>1. UNCHANGED restoreVars
      BY <2>4 DEF BackupsNext, MigrationNext, PrepareMigration, RetryMigrationCleanup,
         MigrationFault,
         MigrationFails, DiscoverLegacy, ReadSources, ApplyLegacyImport, WriteMigrationBackup,
         RecordBackup, Remove, FinishCleanup, PrepareInventory, OpenConsole, TogglePause, AddWork,
         ClaimWork, FinishWork, CreateEncryptedBackup, EditSource, OnlyDb
    <3> QED
      BY <2>4, <3>1 DEF restoreVars, RestoreInv, AsRestored, RestoredWorks
  <2> QED
    BY <2>1, <2>2, <2>3, <2>4
<1>7. step' \in {"validate", "import", "backup"} => job'.seen # OfConsole
  <2>1. CASE DiscoverLegacy
    <3>1. job' = job \/ job' = [job EXCEPT !.seen = disk]
      BY <2>1 DEF DiscoverLegacy, MigrationFails
    <3>2. step' = "validate" => job' = [job EXCEPT !.seen = disk]
      BY <2>1 DEF DiscoverLegacy, MigrationFails, Goes
    <3>3. step' \in {"validate", "idle"}
      BY <2>1 DEF DiscoverLegacy, MigrationFails, Goes
    <3>4. disk # OfConsole
      BY <1>2, TypedConstants DEF Sources
    <3> QED
      BY <1>2, <3>2, <3>3, <3>4 DEF Locals
  <2>2. CASE ReadSources \/ ApplyLegacyImport
    BY <2>2 DEF ReadSources, ApplyLegacyImport, MigrationFails, Goes, RestoreInv
  <2>3. CASE MigrationNext /\ ~(DiscoverLegacy \/ ReadSources \/ ApplyLegacyImport)
    <3>1. step' \notin {"validate", "import", "backup"}
      BY <2>3 DEF MigrationNext, PrepareMigration, RetryMigrationCleanup, MigrationFault,
         MigrationFails,
         WriteMigrationBackup, RecordBackup, Remove, FinishCleanup, PrepareInventory, OpenConsole, Goes
    <3> QED
      BY <3>1
  <2>4. CASE ~MigrationNext
    <3>1. UNCHANGED jobVars \/ step' = "idle"
      BY <2>4 DEF BackupsNext, RestoreNext, RestoreRequest, RestoreCloses, RestoreReplaces,
         RestoreInitializes, RestoreSettles, RestoreBackfills, RestoreReopens, TogglePause, AddWork,
         ClaimWork, FinishWork, CreateEncryptedBackup, EditSource, BackupCrash, OnlyDb
    <3> QED
      BY <3>1 DEF jobVars, RestoreInv
  <2> QED
    BY <2>1, <2>2, <2>3, <2>4
<1> QED
  BY <1>5, <1>6, <1>7 DEF RestoreInv

\* What the database and a migration say of the sources was read from them, or
\* is the digest of the console itself.
LEMMA DigestStep ==
  ASSUME BackupsInv, BackupsNext
  PROVE  db'.mid \in {db.mid, job.seen, OfConsole} /\ job'.seen \in {job.seen, disk, NoSources, db.mid}
<1>1. /\ db \in Row /\ job \in Locals /\ NoJob.seen = NoSources /\ NoJob \in Locals
      /\ \A i \in DOMAIN vault : vault[i].sources = db.mid /\ vault[i].mid = db.mid /\ vault[i].snap.mid = db.mid
      /\ db.path \in {0} \cup DOMAIN vault
  BY TypedConstants DEF BackupsInv, DataTyped, LocalsTyped, OneImport, OfTheImport, OfOneImport,
     NoJob
<1>2. ASSUME Backfill
      PROVE  db'.mid = db.mid
  <2>1. Marked \in Row /\ Marked.mid = db.mid
    BY <1>1 DEF Marked, Row
  <2>2. Backfilled.mid = db.mid
    BY <2>1 DEF Backfilled, Row
  <2> QED
    BY <1>2, <2>1, <2>2 DEF Backfill
<1>3. CASE MigrationFails
  BY <1>1, <1>3 DEF Row, MigrationFails, SetMeta
<1>4. CASE PrepareMigration
  <2>1. job' = [NoJob EXCEPT !.by = "startup"]
    BY <1>4 DEF PrepareMigration
  <2>2. job'.seen = NoSources
    BY <1>1, <2>1 DEF Locals
  <2> QED
    BY <1>1, <1>4, <2>2 DEF Row, PrepareMigration, SetMeta
<1>5. CASE RetryMigrationCleanup
  <2>1. db' = db
    BY <1>5 DEF RetryMigrationCleanup, dataVars
  <2>2. \/ job' = [NoJob EXCEPT !.by = "retry"]
        \/ /\ db.path # 0
           /\ job' = [NoJob EXCEPT !.by = "retry", !.seen = vault[db.path].sources,
                        !.todo = {s \in Removable : vault[db.path].sources[s] > 0}]
    BY <1>5 DEF RetryMigrationCleanup
  <2>3. CASE job' = [NoJob EXCEPT !.by = "retry"]
    <3>1. job'.seen = NoSources
      BY <1>1, <2>3 DEF Locals
    <3> QED
      BY <2>1, <3>1
  <2>4. CASE /\ db.path # 0
             /\ job' = [NoJob EXCEPT !.by = "retry", !.seen = vault[db.path].sources,
                          !.todo = {s \in Removable : vault[db.path].sources[s] > 0}]
    <3>1. ASSUME NEW set
          PROVE  [NoJob EXCEPT !.by = "retry", !.seen = vault[db.path].sources, !.todo = set].seen
                   = vault[db.path].sources
      BY <1>1 DEF Locals
    <3>2. job'.seen = vault[db.path].sources
      BY <2>4, <3>1
    <3> QED
      BY <1>1, <2>1, <2>4, <3>2
  <2> QED
    BY <2>2, <2>3, <2>4
<1>6. CASE DiscoverLegacy /\ ~MigrationFails
  BY <1>1, <1>6 DEF DiscoverLegacy, dataVars, Locals
<1>7. CASE ReadSources /\ ~MigrationFails
  BY <1>7 DEF ReadSources, dataVars
<1>8. CASE ApplyLegacyImport /\ ~MigrationFails
  <2>1. CASE UNCHANGED <<db, job>>
    BY <2>1
  <2>2. CASE db' = [db EXCEPT !.mid = job.seen, !.status = "imported", !.rows = {"accounts"}] /\ job' = job
    BY <1>1, <2>2 DEF Row
  <2> QED
    BY <1>8, <2>1, <2>2 DEF ApplyLegacyImport, dataVars
<1>9. CASE WriteMigrationBackup
  BY <1>9 DEF WriteMigrationBackup
<1>10. CASE RecordBackup
  <2>1. db'.mid = db.mid
    BY <1>1, <1>10 DEF Row, RecordBackup, SetMeta
  <2>2. job'.seen = job.seen
    BY <1>1, <1>10 DEF RecordBackup, Locals
  <2> QED
    BY <2>1, <2>2
<1>11. ASSUME NEW s \in Removable, Remove(s)
       PROVE  db' = db /\ job'.seen = job.seen
  BY <1>1, <1>11, TodoSet, ZenonT(40) DEF Remove
<1>12. CASE FinishCleanup
  BY <1>1, <1>12 DEF Row, FinishCleanup, SetMeta
<1>13. CASE PrepareInventory
  BY <1>2, <1>13 DEF PrepareInventory
<1>14. CASE OpenConsole
  <2>1. db'.mid = db.mid
    BY <1>1, <1>14 DEF Row, OpenConsole, StartQueue
  <2> QED
    BY <1>1, <1>14, <2>1 DEF OpenConsole
<1>15. CASE RestoreNext
  <2>1. job' = job
    BY <1>15 DEF RestoreNext, RestoreRequest, RestoreCloses, RestoreReplaces, RestoreInitializes,
       RestoreSettles, RestoreBackfills, RestoreReopens, jobVars
  <2>2. CASE RestoreReplaces
    <3>1. restore.file \in DOMAIN vault
      BY <2>2 DEF RestoreReplaces, BackupsInv, OneAtTheGate
    <3> QED
      BY <1>1, <2>1, <2>2, <3>1 DEF RestoreReplaces
  <2>3. CASE RestoreInitializes
    <3>1. restore.old.mid = db.mid
      BY <2>3 DEF RestoreInitializes, BackupsInv, InHandIsOfTheImport, OfOneImport
    <3> QED
      BY <1>1, <2>1, <2>3, <3>1 DEF Row, RestoreInitializes
  <2>4. CASE RestoreSettles
    <3>1. [db EXCEPT !.status = "complete", !.path = restore.file].mid = db.mid
      BY <1>1 DEF Row
    <3> QED
      BY <2>1, <2>4, <3>1 DEF RestoreSettles, Settled
  <2>5. CASE RestoreBackfills
    BY <1>2, <2>1, <2>5 DEF RestoreBackfills
  <2>6. CASE RestoreCloses \/ RestoreReopens
    BY <1>1, <2>1, <2>6 DEF Row, RestoreCloses, RestoreReopens, StartQueue
  <2>7. CASE \E i \in DOMAIN vault : RestoreRequest(i)
    BY <2>1, <2>7 DEF RestoreRequest, dataVars
  <2> QED
    BY <1>15, <2>2, <2>3, <2>4, <2>5, <2>6, <2>7 DEF RestoreNext
<1>16. CASE TogglePause \/ AddWork \/ ClaimWork
  BY <1>1, <1>16 DEF Row, TogglePause, AddWork, ClaimWork, OnlyDb, jobVars
<1>17. CASE FinishWork
  <2>1. ASSUME NEW x
        PROVE  [db EXCEPT !.running = FALSE, !.rows = x].mid = db.mid
    BY <1>1 DEF Row
  <2> QED
    BY <1>17, <2>1 DEF FinishWork, jobVars
<1>18. CASE CreateEncryptedBackup
  <2>1. db'.mid = IF db.path = 0 THEN OfConsole ELSE vault[db.path].mid
    BY <1>1, <1>18 DEF Row, CreateEncryptedBackup
  <2> QED
    BY <1>1, <1>18, <2>1 DEF CreateEncryptedBackup, jobVars
<1>19. CASE \E s \in Sources : EditSource(s)
  BY <1>19 DEF EditSource, jobVars
<1>20. CASE BackupCrash
  BY <1>1, <1>20 DEF BackupCrash, dataVars
<1> QED
  BY <1>3, <1>4, <1>5, <1>6, <1>7, <1>8, <1>9, <1>10, <1>11, <1>12, <1>13, <1>14, <1>15, <1>16,
     <1>17, <1>18, <1>19, <1>20 DEF BackupsNext, MigrationNext, MigrationFault

LEMMA BoundedStep ==
  ASSUME BackupsInv, BackupsInv', RestoreInv, Bounded, [BackupsNext]_backupVars
  PROVE  Bounded'
<1>1. CASE UNCHANGED backupVars
  BY <1>1 DEF backupVars, Bounded
<1> SUFFICES ASSUME BackupsNext
             PROVE  Bounded'
  BY <1>1
<1>2. /\ MaxSourceEdits \in Nat /\ backupCounts \in Counts /\ backupCounts.edits \in Nat
      /\ disk \in [Sources -> Nat] /\ vault \in Seq(File) /\ Len(vault) \in Nat /\ MaxBackups \in Nat
  BY BackupBoundsAssumption DEF BackupsInv, DataTyped, LocalsTyped, Counts
<1>3. disk \in [Sources -> Versions]
  BY <1>2 DEF Bounded, Versions
<1>4. NoSources \in [Sources -> Versions] /\ OfConsole \in [Sources -> Versions]
  BY <1>2 DEF NoSources, OfConsole, Versions
<1>5. db'.mid \in [Sources -> Versions] /\ job'.seen \in [Sources -> Versions]
  BY <1>3, <1>4, DigestStep DEF Bounded
<1>6. Len(vault') <= MaxBackups
  <2>1. ASSUME NEW b \in File, vault' = Append(vault, b)
        PROVE  Len(vault') = Len(vault) + 1
    BY <1>2, <2>1
  <2> QED
    BY <1>2, <2>1, VaultStep DEF Bounded
<1>7. /\ backupCounts'.edits <= MaxSourceEdits
      /\ \A s \in Sources : disk'[s] <= backupCounts'.edits + 1
  <2>1. ASSUME NEW s \in Sources, EditSource(s)
        PROVE  /\ backupCounts'.edits <= MaxSourceEdits
               /\ \A x \in Sources : disk'[x] <= backupCounts'.edits + 1
    <3>1. backupCounts'.edits = backupCounts.edits + 1 /\ backupCounts.edits < MaxSourceEdits
      BY <1>2, <2>1 DEF EditSource, Counts
    <3> QED
      BY <1>2, <2>1, <3>1 DEF EditSource, Bounded
  <2>2. ASSUME NEW s \in Removable, Remove(s)
        PROVE  /\ backupCounts'.edits <= MaxSourceEdits
               /\ \A x \in Sources : disk'[x] <= backupCounts'.edits + 1
    <3>1. backupCounts'.edits = backupCounts.edits
      BY <1>2, <2>2 DEF Remove, Fault, Counts
    <3>2. \A x \in Sources : disk'[x] \in {disk[x], 0}
      BY <1>2, <2>2 DEF Remove, Removable, Sources
    <3> QED
      BY <1>2, <3>1, <3>2 DEF Bounded
  <2>3. CASE ~(\E s \in Sources : EditSource(s)) /\ ~(\E s \in Removable : Remove(s))
    <3>1. disk' = disk
      BY <2>3 DEF BackupsNext, MigrationNext, PrepareMigration, RetryMigrationCleanup,
         MigrationFault,
         MigrationFails, DiscoverLegacy, ReadSources, ApplyLegacyImport, WriteMigrationBackup,
         RecordBackup, FinishCleanup, PrepareInventory, OpenConsole, RestoreNext, RestoreRequest,
         RestoreCloses, RestoreReplaces, RestoreInitializes, RestoreSettles, RestoreBackfills,
         RestoreReopens, TogglePause, AddWork, ClaimWork, FinishWork, CreateEncryptedBackup,
         BackupCrash, OnlyDb, dataVars
    <3>2. \/ backupCounts' = backupCounts \/ Fault
          \/ backupCounts' = [backupCounts EXCEPT !.faults = @ + 1, !.gaveUp = TRUE]
          \/ backupCounts' = [backupCounts EXCEPT !.crashes = @ + 1, !.gaveUp = FALSE]
      BY <2>3 DEF BackupsNext, MigrationNext, PrepareMigration, RetryMigrationCleanup,
         MigrationFault,
         DiscoverLegacy, ReadSources, ApplyLegacyImport, WriteMigrationBackup,
         RecordBackup, FinishCleanup, PrepareInventory, Backfill, OpenConsole, RestoreNext, RestoreRequest,
         RestoreCloses, RestoreReplaces, RestoreInitializes, RestoreSettles, RestoreBackfills,
         RestoreReopens, TogglePause, AddWork, ClaimWork, FinishWork, CreateEncryptedBackup,
         BackupCrash, OnlyDb
    <3>3. backupCounts'.edits = backupCounts.edits
      BY <1>2, <3>2 DEF Fault, Counts
    <3> QED
      BY <3>1, <3>3 DEF Bounded
  <2> QED
    BY <2>1, <2>2, <2>3
<1>8. alertsUp' \in BOOLEAN
  <2>1. CASE MigrationNext
    BY <2>1 DEF Bounded, MigrationNext, PrepareMigration, RetryMigrationCleanup, MigrationFault,
       MigrationFails, DiscoverLegacy, ReadSources, ApplyLegacyImport, WriteMigrationBackup, RecordBackup,
       Remove, FinishCleanup, PrepareInventory, OpenConsole, processVars
  <2>2. CASE RestoreNext
    BY <2>2 DEF Bounded, RestoreNext, RestoreRequest, RestoreCloses, RestoreReplaces,
       RestoreInitializes,
       RestoreSettles, RestoreBackfills, RestoreReopens, processVars
  <2>3. CASE ~MigrationNext /\ ~RestoreNext
    BY <2>3 DEF Bounded, BackupsNext, TogglePause, AddWork, ClaimWork, FinishWork,
       CreateEncryptedBackup,
       EditSource, BackupCrash, OnlyDb, processVars
  <2> QED
    BY <2>1, <2>2, <2>3
<1> QED
  BY <1>5, <1>6, <1>7, <1>8 DEF Bounded

\* The inductive invariant of all this.
BackupsAllInv == BackupsInv /\ RestoreInv /\ Bounded

LEMMA BackupsAllInit == BackupsInit => BackupsAllInv
BY BackupsInvInit, RestoreInvInit DEF BackupsAllInv

LEMMA BackupsAllStep == BackupsAllInv /\ [BackupsNext]_backupVars => BackupsAllInv'
<1> SUFFICES ASSUME BackupsAllInv, [BackupsNext]_backupVars
             PROVE  BackupsAllInv'
  OBVIOUS
<1>1. BackupsInv'
  BY BackupsInvStep DEF BackupsAllInv
<1> QED
  BY <1>1, RestoreInvStep, BoundedStep DEF BackupsAllInv

LEMMA BackupsTyped == BackupsAllInv => BackupsTypeOK
<1> SUFFICES ASSUME BackupsAllInv
             PROVE  BackupsTypeOK
  OBVIOUS
<1> USE DEF BackupsAllInv, BackupsInv
<1>1. /\ MaxSourceEdits \in Nat /\ MaxBackups \in Nat /\ backupCounts.edits \in Nat
      /\ vault \in Seq(File) /\ DOMAIN vault = 1..Len(vault) /\ Len(vault) \in 0..MaxBackups
  BY BackupBoundsAssumption DEF DataTyped, LocalsTyped, Counts, Bounded
<1>2. disk \in [Sources -> 0 .. MaxSourceEdits + 1]
  BY <1>1 DEF DataTyped, Bounded
<1>3. ASSUME NEW d \in Row, OfOneImport(d)
      PROVE  d \in Databases
  <2>1. d.path \in 0..MaxBackups
    BY <1>1, <1>3 DEF OfOneImport
  <2>2. d.mid \in [Sources -> -1 .. MaxSourceEdits + 1]
    BY <1>3 DEF OfOneImport, Bounded, Versions
  <2> QED
    BY <2>1, <2>2 DEF Row, Databases
<1>4. db \in Databases
  BY <1>3 DEF DataTyped, OneImport
<1>5. \A i \in DOMAIN vault : vault[i].snap \in Databases
  <2> SUFFICES ASSUME NEW i \in DOMAIN vault
               PROVE  vault[i].snap \in Databases
    OBVIOUS
  <2>1. vault[i] \in File /\ OfOneImport(vault[i].snap)
    BY <1>1 DEF OneImport, OfTheImport
  <2>2. vault[i].snap \in Row
    BY <2>1 DEF File
  <2> QED
    BY <1>3, <2>1, <2>2
<1>6. rs = "initialize" => restore.old \in Databases
  BY <1>3 DEF OneAtTheGate, InHandIsOfTheImport
<1>7. restore.file \in 0 .. Len(vault)
  <2>1. CASE rs # "idle"
    BY <1>1, <2>1 DEF OneAtTheGate
  <2>2. CASE rs = "idle"
    BY <1>1, <2>2 DEF RestoreInv, AsRestored, NoRestore
  <2> QED
    BY <2>1, <2>2
<1> QED
  BY <1>2, <1>4, <1>5, <1>6, <1>7 DEF LocalsTyped, Bounded, BackupsTypeOK

LEMMA BackupsAlways == BackupsSpec => []BackupsAllInv
BY BackupsAllInit, BackupsAllStep, PTL DEF BackupsSpec

LEMMA BackupsInvMeans == BackupsAllInv => RestorableState
<1>1. BackupsInv => PlaintextIsBackedUp
  <2> SUFFICES ASSUME BackupsInv, NEW x \in removed
               PROVE  \E i \in MigrationBackups(db.mid) : vault[i].sources[x[1]] = x[2]
    BY DEF PlaintextIsBackedUp
  <2>1. x[2] = db.mid[x[1]] /\ AnyMigrationBackup
    BY DEF BackupsInv, RemovedIsOfTheImport
  <2>2. PICK i \in DOMAIN vault : vault[i].kind = "migration"
    BY <2>1 DEF AnyMigrationBackup
  <2>3. vault[i].mid = db.mid /\ vault[i].sources = db.mid
    BY DEF BackupsInv, OneImport, OfTheImport
  <2> QED
    BY <2>1, <2>2, <2>3 DEF MigrationBackups
<1>2. BackupsInv => QueueFollowsStatus
  BY DEF BackupsInv, QueueIsClosed, QueueFollowsStatus
<1>3. BackupsInv => InventoryIsComplete
  BY DEF BackupsInv, OneImport, OfOneImport, Kept, InventoryIsComplete
<1> QED
  BY <1>1, <1>2, <1>3 DEF RestorableState, BackupsAllInv, RestoreInv

\* The types of the files, the database, the backups and the restore, whatever
\* the bounds on edits, faults, crashes and backups.
THEOREM BackupsTypes == BackupsSpec => []BackupsTypeOK
BY BackupsTyped, BackupsAlways, PTL

LEMMA ReplaceStep ==
  ASSUME [BackupsNext]_backupVars, rs = "replace", rs' = "initialize"
  PROVE  ~db.running
<1>1. ~UNCHANGED rs
  OBVIOUS
<1>2. CASE RestoreReplaces
  BY <1>2 DEF RestoreReplaces, QuietDatabase, RestoreGoes
<1>3. CASE MigrationNext
  BY <1>1, <1>3 DEF MigrationNext, PrepareMigration, RetryMigrationCleanup, MigrationFault,
     MigrationFails,
     DiscoverLegacy, ReadSources, ApplyLegacyImport, WriteMigrationBackup, RecordBackup, Remove, FinishCleanup,
     PrepareInventory, OpenConsole, restoreVars
<1>4. CASE RestoreNext /\ ~RestoreReplaces
  BY <1>4 DEF RestoreNext, RestoreRequest, RestoreCloses, RestoreInitializes,
     RestoreSettles,
     RestoreBackfills, RestoreReopens, RestoreGoes
<1>5. CASE TogglePause \/ AddWork \/ ClaimWork \/ FinishWork \/ CreateEncryptedBackup
  BY <1>1, <1>5 DEF TogglePause, AddWork, ClaimWork, FinishWork, CreateEncryptedBackup, OnlyDb,
     restoreVars
<1>6. CASE (\E s \in Sources : EditSource(s)) \/ BackupCrash
  BY <1>1, <1>6 DEF EditSource, BackupCrash, restoreVars
<1> QED
  BY <1>1, <1>2, <1>3, <1>4, <1>5, <1>6 DEF BackupsNext, backupVars

\* What is left after any failure, death or restore can be worked with: the
\* plaintext that the program deleted is in a backup of the database's import
\* (migration.py's cleanup after the verified backup), the queue of a console at
\* rest runs exactly when its migration is ready, a filled inventory is there, and
\* what a user backed up restores to a console at work.
THEOREM BackupsRestorable == BackupsSpec => []RestorableState
BY BackupsInvMeans, BackupsAlways, PTL

\* A restore never replaces the database under a run, though the pause was read
\* before the worker was stopped, and the worker may not have stopped in time
\* (database.replace_from_snapshot looks again before it copies).
THEOREM NoRunUnderARestore == BackupsSpec => NoRunIsReplaced
<1>1. [BackupsNext]_backupVars => (rs = "replace" /\ rs' = "initialize" => ~db.running)
  BY ReplaceStep
<1> QED
  BY <1>1, PTL DEF BackupsSpec, NoRunIsReplaced

(***************************************************************************)
(* The publication of a child: one account, and as the run verified it.    *)
(***************************************************************************)
GroupIds == Groups \cup {"none"}
Account  == [token : Nat, groups : SUBSET GroupIds, fixed : BOOLEAN]

PublishTyped ==
  /\ wanted \in Groups /\ active \subseteq Groups
  /\ accounts \in [DOMAIN accounts -> Account] /\ created \in Nat /\ DOMAIN accounts \subseteq 1..created
  /\ pat \in Pats /\ subFiles \in [Pats -> {NoFile} \cup [token : Pats, group : GroupIds]]
  /\ place \in [Pushers -> PublishPlaces] /\ desired \in [Pushers -> SUBSET GroupIds]
  /\ fileToken \in [Pushers -> Nat] /\ accountId \in [Pushers -> Nat]
  /\ overlapped \in BOOLEAN

\* A run is somewhere exactly while it is at work, and the command line only
\* ever speaks to Sub2API, with the token of a file.
Whereabouts ==
  /\ place["run"] # "off" <=> publish = "running"
  /\ place["cli"] \in {"off"} \cup AtSub2API
  /\ place["cli"] = "push_sub2api" => fileToken["cli"] \in Pats

\* As long as the two were not at Sub2API together, who creates the account
\* finds none, and who changes or checks it finds its own token.
OneAtSub2API ==
  ~overlapped =>
    /\ \E p \in Pushers : place[p] \notin AtSub2API
    /\ \A i, j \in DOMAIN accounts : i = j
    /\ \A p \in Pushers : place[p] = "creating" => DOMAIN accounts = {}
    /\ \A p \in Pushers : place[p] \in {"matching", "updating", "verifying"} =>
         \A i \in DOMAIN accounts : accounts[i].token = fileToken[p]

\* What the run has written and read is of its token and of its settings, which
\* nobody changes while it is at work.
AtWorkThere == AtSub2API \ {"push_sub2api"}
RunHoldsItsToken ==
  /\ place["run"] \in {"sub2api_export", "push", "deleting", "uploading", "checking"} => localCpa = pat
  /\ place["run"] \in {"push", "deleting", "uploading", "checking", "push_sub2api"} =>
       subFiles[pat] \in {NoFile, Export}
  /\ place["run"] \in AtWorkThere =>
       /\ fileToken["run"] = pat
       /\ IF allGroups THEN desired["run"] # {} ELSE desired["run"] = {wanted}

\* The checkpoint names a step when it is over, not before.
StepsDone ==
  /\ place["run"] \in {"deleting", "uploading", "checking"} => "push" \notin done
  /\ place["run"] \in AtWorkThere => "push_sub2api" \notin done
  /\ place["run"] = "finish" => "push_sub2api" \in done

\* The account the run meant, and what holds of it when nobody acted since.
Meant(a) == a.token = pat /\ IF allGroups THEN a.fixed /\ a.groups # {} ELSE wanted \in a.groups
StepsLast ==
  /\ "push" \in done /\ ~touchedCpa => credential = pat
  /\ "push_sub2api" \in done /\ ~touched /\ ~overlapped => \E i \in DOMAIN accounts : Meant(accounts[i])

PublishInv ==
  /\ PublishTyped /\ Whereabouts /\ OneAtSub2API
  /\ RunHoldsItsToken /\ StepsDone /\ StepsLast

LEMMA PublishInvInit == PublishInit => PublishInv
<1> SUFFICES ASSUME PublishInit
             PROVE  PublishInv
  OBVIOUS
<1> USE DEF PublishInit
<1>1. DOMAIN accounts = {} /\ 1 \in Pats
  BY PublishAssumption DEF Pats
<1>2. PublishTyped
  <2>1. accounts \in [DOMAIN accounts -> Account] /\ created \in Nat /\ DOMAIN accounts \subseteq 1..created
    BY <1>1
  <2>2. /\ place \in [Pushers -> PublishPlaces] /\ desired \in [Pushers -> SUBSET GroupIds]
        /\ fileToken \in [Pushers -> Nat] /\ accountId \in [Pushers -> Nat] /\ overlapped \in BOOLEAN
    BY DEF PublishPlaces, Absent
  <2> QED
    BY <1>1, <2>1, <2>2 DEF PublishTyped
<1>3. Whereabouts /\ OneAtSub2API
  BY <1>1 DEF Whereabouts, OneAtSub2API, AtSub2API, Pushers
<1>4. RunHoldsItsToken /\ StepsDone /\ StepsLast
  BY DEF RunHoldsItsToken, StepsDone, StepsLast, AtSub2API, AtWorkThere, Absent, Pushers
<1> QED
  BY <1>2, <1>3, <1>4 DEF PublishInv

\* A push that ends, well or not, leaves everything but itself.
LEMMA EndsKeeps ==
  ASSUME PublishInv, NEW p \in Pushers, Ends(p), UNCHANGED <<services, settingsP, pat, done>>,
         subFiles' = subFiles \/ \E t \in Pats : subFiles' = [subFiles EXCEPT ![t] = NoFile],
         IF p = "run" THEN publish' # "running" ELSE publish' = publish
  PROVE  PublishInv'
<1> USE DEF PublishInv, services, settingsP
<1>1. /\ place' = [place EXCEPT ![p] = "off"] /\ UNCHANGED overlapped
      /\ desired' = [desired EXCEPT ![p] = {}] /\ fileToken' = [fileToken EXCEPT ![p] = Absent]
      /\ accountId' = [accountId EXCEPT ![p] = 0]
      /\ localCpa' = IF p = "run" THEN Absent ELSE localCpa
  BY DEF Ends
<1>2. /\ place'[p] = "off" /\ p \in {"run", "cli"}
      /\ \A q \in Pushers \ {p} : place'[q] = place[q] /\ desired'[q] = desired[q] /\ fileToken'[q] = fileToken[q]
  BY <1>1 DEF PublishTyped, Pushers
<1>3. subFiles' \in [Pats -> {NoFile} \cup [token : Pats, group : GroupIds]]
  BY DEF PublishTyped
<1>4. PublishTyped'
  BY <1>1, <1>3 DEF PublishTyped, PublishPlaces, Absent
<1>5. Whereabouts'
  BY <1>2 DEF Whereabouts, AtSub2API, Pushers
<1>6. OneAtSub2API'
  BY <1>1, <1>2 DEF OneAtSub2API, AtSub2API, Pushers
<1>7. RunHoldsItsToken'
  BY <1>1, <1>2, <1>3 DEF RunHoldsItsToken, AtSub2API, AtWorkThere, Pushers, PublishTyped, Export
<1>8. StepsDone'
  BY <1>2 DEF StepsDone, AtSub2API, AtWorkThere, Pushers
<1>9. StepsLast'
  BY <1>1 DEF StepsLast, Meant
<1> QED
  BY <1>4, <1>5, <1>6, <1>7, <1>8, <1>9

LEMMA PushFailsKeeps ==
  ASSUME PublishInv, NEW p \in Pushers, PushFails(p)
  PROVE  PublishInv'
BY EndsKeeps DEF PushFails, files

LEMMA GoToSets ==
  ASSUME PublishTyped, NEW p \in Pushers, NEW l \in PublishPlaces, GoTo(p, l)
  PROVE  /\ place' \in [Pushers -> PublishPlaces] /\ place'[p] = l /\ p \in {"run", "cli"}
         /\ \A q \in Pushers \ {p} : place'[q] = place[q]
         /\ overlapped' \in BOOLEAN
         /\ ~overlapped' => ~overlapped /\ \E q \in Pushers : place'[q] \notin AtSub2API
BY DEF GoTo, PublishTyped, Pushers

\* A step at Sub2API that changes nothing there.
LEMMA SubGoesKeeps ==
  ASSUME PublishInv, NEW p \in Pushers, NEW l \in AtWorkThere, SubStep(p, l), UNCHANGED services,
         place[p] \in AtSub2API,
         desired' \in [Pushers -> SUBSET GroupIds], fileToken' \in [Pushers -> Nat],
         accountId' \in [Pushers -> Nat],
         \A q \in Pushers \ {p} : desired'[q] = desired[q] /\ fileToken'[q] = fileToken[q],
         p = "run" => /\ fileToken'["run"] = pat /\ "push_sub2api" \notin done
                      /\ IF allGroups THEN desired'["run"] # {} ELSE desired'["run"] = {wanted},
         ~overlapped /\ l = "creating" => DOMAIN accounts = {},
         ~overlapped /\ l \in {"matching", "updating", "verifying"} =>
           \A i \in DOMAIN accounts : accounts[i].token = fileToken'[p]
  PROVE  PublishInv'
<1> USE DEF PublishInv, services
<1>1. l \in PublishPlaces /\ l \in AtSub2API /\ l # "push_sub2api" /\ l \notin {"off", "finish"}
  BY DEF AtWorkThere, PublishPlaces, AtSub2API
<1>2. UNCHANGED <<settingsP, runP, files, localCpa, publishCounts>> /\ GoTo(p, l)
  BY DEF SubStep
<1>3. /\ place' \in [Pushers -> PublishPlaces] /\ place'[p] = l /\ p \in {"run", "cli"}
      /\ \A q \in Pushers \ {p} : place'[q] = place[q]
      /\ overlapped' \in BOOLEAN
      /\ ~overlapped' => ~overlapped /\ \E q \in Pushers : place'[q] \notin AtSub2API
  BY <1>1, <1>2, GoToSets
<1> USE <1>1, <1>2, <1>3 DEF settingsP, runP, files
<1>4. PublishTyped'
  BY DEF PublishTyped
<1>5. Whereabouts'
  BY DEF Whereabouts, AtSub2API, Pushers
<1>6. OneAtSub2API'
  BY DEF OneAtSub2API, AtSub2API, Pushers
<1>7. RunHoldsItsToken'
  BY DEF RunHoldsItsToken, AtSub2API, AtWorkThere, Pushers, Export
<1>8. StepsDone'
  BY DEF StepsDone, AtSub2API, AtWorkThere, Pushers
<1>9. StepsLast'
  BY DEF StepsLast, Meant
<1> QED
  BY <1>4, <1>5, <1>6, <1>7, <1>8, <1>9

\* A push that is verified has seen the account it means.
LEMMA VerifiedKeeps ==
  ASSUME PublishInv, NEW p \in Pushers, Verified(p), place[p] \in AtWorkThere,
         p = "run" /\ ~overlapped => \E i \in DOMAIN accounts : Meant(accounts[i])
  PROVE  PublishInv'
<1> USE DEF PublishInv
<1>1. CASE p = "cli"
  <2>1. Ends(p) /\ UNCHANGED <<services, settingsP, pat, done, subFiles, publish>>
    BY <1>1 DEF Verified, services, files
  <2> QED
    BY <1>1, <2>1, EndsKeeps
<1>2. CASE p = "run"
  <2>1. /\ GoTo("run", "finish") /\ done' = done \cup {"push_sub2api"} /\ touched' = FALSE
        /\ UNCHANGED <<localCpa, desired, fileToken, accountId, active, accounts, created, credential, touchedCpa,
                       allGroups, wanted, publish, pat, subFiles>>
    BY <1>2 DEF Verified, settingsP, files
  <2>2. /\ place' \in [Pushers -> PublishPlaces] /\ place'["run"] = "finish" /\ place'["cli"] = place["cli"]
        /\ overlapped' \in BOOLEAN
        /\ ~overlapped' => ~overlapped /\ \E q \in Pushers : place'[q] \notin AtSub2API
    BY <2>1, <1>2, GoToSets DEF PublishPlaces, Pushers
  <2>3. PublishTyped'
    BY <2>1, <2>2 DEF PublishTyped
  <2>4. Whereabouts'
    BY <1>2, <2>1, <2>2 DEF Whereabouts, AtSub2API, AtWorkThere, Pushers
  <2>5. OneAtSub2API'
    BY <2>1, <2>2 DEF OneAtSub2API, AtSub2API, Pushers
  <2>6. RunHoldsItsToken' /\ StepsDone'
    BY <2>1, <2>2 DEF RunHoldsItsToken, StepsDone, AtSub2API, AtWorkThere
  <2>7. StepsLast'
    BY <1>2, <2>1, <2>2 DEF StepsLast, Meant
  <2> QED
    BY <2>3, <2>4, <2>5, <2>6, <2>7
<1> QED
  BY <1>1, <1>2 DEF Pushers

\* The same of the push to the management service.
LEMMA PushVerifiedKeeps ==
  ASSUME PublishInv, PushVerified, place["run"] \in {"push", "checking"}, credential = localCpa
  PROVE  PublishInv'
<1> USE DEF PublishInv
<1>1. /\ GoTo("run", "push_sub2api") /\ done' = done \cup {"push"} /\ touchedCpa' = FALSE
      /\ UNCHANGED <<localCpa, desired, fileToken, accountId, active, accounts, created, credential, touched,
                     allGroups, wanted, publish, pat, subFiles>>
  BY DEF PushVerified, PushStep, settingsP, files
<1>2. /\ place' \in [Pushers -> PublishPlaces] /\ place'["run"] = "push_sub2api" /\ place'["cli"] = place["cli"]
      /\ overlapped' \in BOOLEAN
      /\ ~overlapped' => ~overlapped /\ \E q \in Pushers : place'[q] \notin AtSub2API
  BY <1>1, GoToSets DEF PublishPlaces, AtSub2API, Pushers
<1>3. PublishTyped'
  BY <1>1, <1>2 DEF PublishTyped
<1>4. Whereabouts'
  BY <1>1, <1>2 DEF Whereabouts, AtSub2API, Pushers
<1>5. OneAtSub2API'
  BY <1>1, <1>2 DEF OneAtSub2API, AtSub2API, Pushers
<1>6. RunHoldsItsToken' /\ StepsDone'
  BY <1>1, <1>2 DEF RunHoldsItsToken, StepsDone, AtSub2API, AtWorkThere, Export
<1>7. StepsLast'
  BY <1>1, <1>2 DEF StepsLast, Meant, RunHoldsItsToken
<1> QED
  BY <1>3, <1>4, <1>5, <1>6, <1>7

LEMMA PublishInvStep ==
  ASSUME PublishInv, [PublishNext]_publishVars
  PROVE  PublishInv'
<1> USE DEF PublishInv, services, settingsP, runP, files, pushing, publishCounts
<1>1. CASE PublishBegin
  <2>1. PublishTyped'
    BY <1>1 DEF PublishBegin, GoTo, PublishPlaces, AtSub2API, Pushers, PublishTyped, PublishPlaces,
       Whereabouts
  <2>2. Whereabouts'
    BY <1>1 DEF PublishBegin, GoTo, PublishPlaces, AtSub2API, Pushers, Whereabouts, PublishTyped,
       AtSub2API, Pushers
  <2>3. OneAtSub2API'
    BY <1>1 DEF PublishBegin, GoTo, PublishPlaces, AtSub2API, Pushers, OneAtSub2API, PublishTyped,
       AtSub2API, Pushers
  <2>4. RunHoldsItsToken'
    BY <1>1 DEF PublishBegin, GoTo, PublishPlaces, AtSub2API, Pushers, RunHoldsItsToken,
       Whereabouts, PublishTyped, AtSub2API, AtWorkThere, Pushers, Export
  <2>5. StepsDone'
    BY <1>1 DEF PublishBegin, GoTo, PublishPlaces, AtSub2API, Pushers, StepsDone, Whereabouts,
       PublishTyped, AtSub2API, AtWorkThere, Pushers
  <2>6. StepsLast'
    BY <1>1 DEF PublishBegin, GoTo, PublishPlaces, AtSub2API, Pushers, StepsLast, StepsDone,
       RunHoldsItsToken, Meant
  <2> QED
    BY <2>1, <2>2, <2>3, <2>4, <2>5, <2>6
<1>2. CASE PublishRetry
  <2>1. PublishTyped'
    BY <1>2 DEF PublishRetry, PublishTyped, PublishPlaces, Whereabouts
  <2>2. Whereabouts'
    BY <1>2 DEF PublishRetry, Whereabouts, PublishTyped, AtSub2API, Pushers
  <2>3. OneAtSub2API'
    BY <1>2 DEF PublishRetry, OneAtSub2API, PublishTyped, AtSub2API, Pushers
  <2>4. RunHoldsItsToken'
    BY <1>2 DEF PublishRetry, RunHoldsItsToken, Whereabouts, PublishTyped, AtSub2API, AtWorkThere,
       Pushers, Export
  <2>5. StepsDone'
    BY <1>2 DEF PublishRetry, StepsDone, Whereabouts, PublishTyped, AtSub2API, AtWorkThere, Pushers
  <2>6. StepsLast'
    BY <1>2 DEF PublishRetry, StepsLast, StepsDone, RunHoldsItsToken, Meant
  <2> QED
    BY <2>1, <2>2, <2>3, <2>4, <2>5, <2>6
<1>3. CASE PublishAgain
  <2>1. PublishTyped'
    <3>1. pat' \in Pats
      BY <1>3, PublishAssumption DEF PublishAgain, PublishTyped, Pats
    <3> QED
      BY <1>3, <3>1 DEF PublishAgain, PublishTyped
  <2>2. Whereabouts'
    BY <1>3 DEF PublishAgain, Pats, Whereabouts, PublishTyped, AtSub2API, Pushers
  <2>3. OneAtSub2API'
    BY <1>3 DEF PublishAgain, Pats, OneAtSub2API, PublishTyped, AtSub2API, Pushers
  <2>4. RunHoldsItsToken'
    BY <1>3 DEF PublishAgain, Pats, RunHoldsItsToken, Whereabouts, PublishTyped, AtSub2API,
       AtWorkThere, Pushers, Export
  <2>5. StepsDone'
    BY <1>3 DEF PublishAgain, Pats, StepsDone, Whereabouts, PublishTyped, AtSub2API, AtWorkThere,
       Pushers
  <2>6. StepsLast'
    BY <1>3 DEF PublishAgain, Pats, StepsLast, StepsDone, RunHoldsItsToken, Meant
  <2> QED
    BY <2>1, <2>2, <2>3, <2>4, <2>5, <2>6
<1>4. ASSUME NEW t \in Pats, CliBegin(t)
      PROVE  PublishInv'
  <2>1. PublishTyped'
    <3>1. subFiles[t].token \in Nat
      BY <1>4 DEF CliBegin, PublishTyped, Pats, NoFile
    <3>2. fileToken' \in [Pushers -> Nat]
      BY <1>4, <3>1 DEF CliBegin, PublishTyped
    <3>3. place' \in [Pushers -> PublishPlaces] /\ overlapped' \in BOOLEAN
      BY <1>4, GoToSets DEF CliBegin, PublishPlaces, AtSub2API, Pushers
    <3> QED
      BY <1>4, <3>2, <3>3 DEF CliBegin, PublishTyped
  <2>2. Whereabouts'
    BY <1>4 DEF CliBegin, GoTo, PublishPlaces, AtSub2API, Pushers, NoFile, Whereabouts,
       PublishTyped, AtSub2API, Pushers
  <2>3. OneAtSub2API'
    BY <1>4 DEF CliBegin, GoTo, PublishPlaces, AtSub2API, Pushers, NoFile, OneAtSub2API,
       PublishTyped, AtSub2API, Pushers
  <2>4. RunHoldsItsToken'
    BY <1>4 DEF CliBegin, GoTo, PublishPlaces, AtSub2API, Pushers, NoFile, RunHoldsItsToken,
       Whereabouts, PublishTyped, AtSub2API, AtWorkThere, Pushers, Export
  <2>5. StepsDone'
    BY <1>4 DEF CliBegin, GoTo, PublishPlaces, AtSub2API, Pushers, NoFile, StepsDone, Whereabouts,
       PublishTyped, AtSub2API, AtWorkThere, Pushers
  <2>6. StepsLast'
    BY <1>4 DEF CliBegin, GoTo, PublishPlaces, AtSub2API, Pushers, NoFile, StepsLast, StepsDone,
       RunHoldsItsToken, Meant
  <2> QED
    BY <2>1, <2>2, <2>3, <2>4, <2>5, <2>6
<1>5. ASSUME NEW g \in Groups, GroupToggled(g)
      PROVE  PublishInv'
  <2>1. PublishTyped'
    BY <1>5 DEF GroupToggled, Administrator, PublishTyped, PublishPlaces, Whereabouts
  <2>2. Whereabouts'
    BY <1>5 DEF GroupToggled, Administrator, Whereabouts, PublishTyped, AtSub2API, Pushers
  <2>3. OneAtSub2API'
    BY <1>5 DEF GroupToggled, Administrator, OneAtSub2API, PublishTyped, AtSub2API, Pushers
  <2>4. RunHoldsItsToken'
    BY <1>5 DEF GroupToggled, Administrator, RunHoldsItsToken, Whereabouts, PublishTyped, AtSub2API,
       AtWorkThere, Pushers, Export
  <2>5. StepsDone'
    BY <1>5 DEF GroupToggled, Administrator, StepsDone, Whereabouts, PublishTyped, AtSub2API,
       AtWorkThere, Pushers
  <2>6. StepsLast'
    BY <1>5 DEF GroupToggled, Administrator, StepsLast, StepsDone, RunHoldsItsToken, Meant
  <2> QED
    BY <2>1, <2>2, <2>3, <2>4, <2>5, <2>6
<1>6. ASSUME NEW a \in 1..MaxAccounts, AccountEdited(a)
      PROVE  PublishInv'
  <2>1. PublishTyped'
    <3>1. accounts' \in [DOMAIN accounts' -> Account] /\ DOMAIN accounts' = DOMAIN accounts
      <4>1. PICK g \in Groups : accounts' = [accounts EXCEPT ![a].groups = @ \ {g}, ![a].fixed = FALSE]
        BY <1>6 DEF AccountEdited
      <4>2. a \in DOMAIN accounts /\ accounts[a] \in Account
        BY <1>6 DEF AccountEdited, PublishTyped
      <4> DEFINE e == [accounts[a] EXCEPT !.groups = @ \ {g}, !.fixed = FALSE]
      <4>3. e \in Account
        BY <4>2 DEF Account
      <4>4. accounts' = [accounts EXCEPT ![a] = e]
        BY <4>1, <4>2 DEF PublishTyped
      <4> HIDE DEF e
      <4> QED
        BY <4>2, <4>3, <4>4 DEF PublishTyped
    <3> QED
      BY <1>6, <3>1 DEF AccountEdited, Administrator, PublishTyped
  <2>2. Whereabouts'
    BY <1>6 DEF AccountEdited, Administrator, Whereabouts, PublishTyped, AtSub2API, Pushers
  <2>3. OneAtSub2API'
    BY <1>6 DEF AccountEdited, Administrator, OneAtSub2API, PublishTyped, AtSub2API, Pushers
  <2>4. RunHoldsItsToken'
    BY <1>6 DEF AccountEdited, Administrator, RunHoldsItsToken, Whereabouts, PublishTyped,
       AtSub2API, AtWorkThere, Pushers, Export
  <2>5. StepsDone'
    BY <1>6 DEF AccountEdited, Administrator, StepsDone, Whereabouts, PublishTyped, AtSub2API,
       AtWorkThere, Pushers
  <2>6. StepsLast'
    BY <1>6 DEF AccountEdited, Administrator, StepsLast, StepsDone, RunHoldsItsToken, Meant
  <2> QED
    BY <2>1, <2>2, <2>3, <2>4, <2>5, <2>6
<1>7. ASSUME NEW a \in 1..MaxAccounts, AccountDeleted(a)
      PROVE  PublishInv'
  <2>1. PublishTyped'
    BY <1>7 DEF AccountDeleted, Administrator, PublishTyped, PublishPlaces, Whereabouts
  <2>2. Whereabouts'
    BY <1>7 DEF AccountDeleted, Administrator, Whereabouts, PublishTyped, AtSub2API, Pushers
  <2>3. OneAtSub2API'
    BY <1>7 DEF AccountDeleted, Administrator, OneAtSub2API, PublishTyped, AtSub2API, Pushers
  <2>4. RunHoldsItsToken'
    BY <1>7 DEF AccountDeleted, Administrator, RunHoldsItsToken, Whereabouts, PublishTyped,
       AtSub2API, AtWorkThere, Pushers, Export
  <2>5. StepsDone'
    BY <1>7 DEF AccountDeleted, Administrator, StepsDone, Whereabouts, PublishTyped, AtSub2API,
       AtWorkThere, Pushers
  <2>6. StepsLast'
    BY <1>7 DEF AccountDeleted, Administrator, StepsLast, StepsDone, RunHoldsItsToken, Meant
  <2> QED
    BY <2>1, <2>2, <2>3, <2>4, <2>5, <2>6
<1>8. CASE CredentialTaken
  <2>1. PublishTyped'
    BY <1>8 DEF CredentialTaken, Administrator, PublishTyped, PublishPlaces, Whereabouts
  <2>2. Whereabouts'
    BY <1>8 DEF CredentialTaken, Administrator, Whereabouts, PublishTyped, AtSub2API, Pushers
  <2>3. OneAtSub2API'
    BY <1>8 DEF CredentialTaken, Administrator, OneAtSub2API, PublishTyped, AtSub2API, Pushers
  <2>4. RunHoldsItsToken'
    BY <1>8 DEF CredentialTaken, Administrator, RunHoldsItsToken, Whereabouts, PublishTyped,
       AtSub2API, AtWorkThere, Pushers, Export
  <2>5. StepsDone'
    BY <1>8 DEF CredentialTaken, Administrator, StepsDone, Whereabouts, PublishTyped, AtSub2API,
       AtWorkThere, Pushers
  <2>6. StepsLast'
    BY <1>8 DEF CredentialTaken, Administrator, StepsLast, StepsDone, RunHoldsItsToken, Meant
  <2> QED
    BY <2>1, <2>2, <2>3, <2>4, <2>5, <2>6
<1>9. ASSUME NEW g \in Groups, GroupConfigured(g)
      PROVE  PublishInv'
  <2>1. PublishTyped'
    BY <1>9 DEF GroupConfigured, Administrator, PublishTyped, PublishPlaces, Whereabouts
  <2>2. Whereabouts'
    BY <1>9 DEF GroupConfigured, Administrator, Whereabouts, PublishTyped, AtSub2API, Pushers
  <2>3. OneAtSub2API'
    BY <1>9 DEF GroupConfigured, Administrator, OneAtSub2API, PublishTyped, AtSub2API, Pushers
  <2>4. RunHoldsItsToken'
    BY <1>9 DEF GroupConfigured, Administrator, RunHoldsItsToken, Whereabouts, PublishTyped,
       AtSub2API, AtWorkThere, Pushers, Export
  <2>5. StepsDone'
    BY <1>9 DEF GroupConfigured, Administrator, StepsDone, Whereabouts, PublishTyped, AtSub2API,
       AtWorkThere, Pushers
  <2>6. StepsLast'
    BY <1>9 DEF GroupConfigured, Administrator, StepsLast, StepsDone, RunHoldsItsToken, Meant
  <2> QED
    BY <2>1, <2>2, <2>3, <2>4, <2>5, <2>6
<1>10. ASSUME NEW t \in Pats, FilesDeleted(t)
      PROVE  PublishInv'
  <2>1. PublishTyped'
    BY <1>10 DEF FilesDeleted, Administrator, PublishTyped, PublishPlaces, Whereabouts
  <2>2. Whereabouts'
    BY <1>10 DEF FilesDeleted, Administrator, Whereabouts, PublishTyped, AtSub2API, Pushers
  <2>3. OneAtSub2API'
    BY <1>10 DEF FilesDeleted, Administrator, OneAtSub2API, PublishTyped, AtSub2API, Pushers
  <2>4. RunHoldsItsToken'
    BY <1>10 DEF FilesDeleted, Administrator, RunHoldsItsToken, Whereabouts, PublishTyped,
       AtSub2API, AtWorkThere, Pushers, Export
  <2>5. StepsDone'
    BY <1>10 DEF FilesDeleted, Administrator, StepsDone, Whereabouts, PublishTyped, AtSub2API,
       AtWorkThere, Pushers
  <2>6. StepsLast'
    BY <1>10 DEF FilesDeleted, Administrator, StepsLast, StepsDone, RunHoldsItsToken, Meant
  <2> QED
    BY <2>1, <2>2, <2>3, <2>4, <2>5, <2>6
<1>11. CASE WriteCpa
  <2>1. PublishTyped'
    BY <1>11 DEF WriteCpa, GoTo, PublishPlaces, AtSub2API, Pushers, CachedCpa, PublishTyped,
       PublishPlaces, Whereabouts
  <2>2. Whereabouts'
    BY <1>11 DEF WriteCpa, GoTo, PublishPlaces, AtSub2API, Pushers, CachedCpa, Whereabouts,
       PublishTyped, AtSub2API, Pushers
  <2>3. OneAtSub2API'
    BY <1>11 DEF WriteCpa, GoTo, PublishPlaces, AtSub2API, Pushers, CachedCpa, OneAtSub2API,
       PublishTyped, AtSub2API, Pushers
  <2>4. RunHoldsItsToken'
    BY <1>11 DEF WriteCpa, GoTo, PublishPlaces, AtSub2API, Pushers, CachedCpa, RunHoldsItsToken,
       Whereabouts, PublishTyped, AtSub2API, AtWorkThere, Pushers, Export
  <2>5. StepsDone'
    BY <1>11 DEF WriteCpa, GoTo, PublishPlaces, AtSub2API, Pushers, CachedCpa, StepsDone,
       Whereabouts, PublishTyped, AtSub2API, AtWorkThere, Pushers
  <2>6. StepsLast'
    BY <1>11 DEF WriteCpa, GoTo, PublishPlaces, AtSub2API, Pushers, CachedCpa, StepsLast, StepsDone,
       RunHoldsItsToken, Meant
  <2> QED
    BY <2>1, <2>2, <2>3, <2>4, <2>5, <2>6
<1>12. CASE WriteSub2apiExport
  <2>1. PublishTyped'
    <3>1. Export \in [token : Pats, group : GroupIds]
      BY DEF Export, PublishTyped, GroupIds
    <3>2. subFiles' \in [Pats -> {NoFile} \cup [token : Pats, group : GroupIds]]
      BY <1>12, <3>1 DEF WriteSub2apiExport, PublishTyped
    <3>3. place' \in [Pushers -> PublishPlaces] /\ overlapped' \in BOOLEAN
      BY <1>12, GoToSets DEF WriteSub2apiExport, PublishPlaces, Pushers
    <3> QED
      BY <1>12, <3>2, <3>3 DEF WriteSub2apiExport, PublishTyped
  <2>2. Whereabouts'
    BY <1>12 DEF WriteSub2apiExport, GoTo, PublishPlaces, AtSub2API, Pushers, Export,
       ExportIsCurrent, Whereabouts, PublishTyped, AtSub2API, Pushers
  <2>3. OneAtSub2API'
    BY <1>12 DEF WriteSub2apiExport, GoTo, PublishPlaces, AtSub2API, Pushers, Export,
       ExportIsCurrent, OneAtSub2API, PublishTyped, AtSub2API, Pushers
  <2>4. RunHoldsItsToken'
    BY <1>12 DEF WriteSub2apiExport, GoTo, PublishPlaces, AtSub2API, Pushers, Export,
       ExportIsCurrent, RunHoldsItsToken, Whereabouts, PublishTyped, AtSub2API, AtWorkThere,
       Pushers, Export
  <2>5. StepsDone'
    BY <1>12 DEF WriteSub2apiExport, GoTo, PublishPlaces, AtSub2API, Pushers, Export,
       ExportIsCurrent, StepsDone, Whereabouts, PublishTyped, AtSub2API, AtWorkThere, Pushers
  <2>6. StepsLast'
    BY <1>12 DEF WriteSub2apiExport, GoTo, PublishPlaces, AtSub2API, Pushers, Export,
       ExportIsCurrent, StepsLast, StepsDone, RunHoldsItsToken, Meant
  <2> QED
    BY <2>1, <2>2, <2>3, <2>4, <2>5, <2>6
<1>13. CASE PushResumes
  <2>1. PublishTyped'
    BY <1>13 DEF PushResumes, PushStep, GoTo, PublishPlaces, AtSub2API, Pushers, PublishTyped,
       PublishPlaces, Whereabouts
  <2>2. Whereabouts'
    BY <1>13 DEF PushResumes, PushStep, GoTo, PublishPlaces, AtSub2API, Pushers, Whereabouts,
       PublishTyped, AtSub2API, Pushers
  <2>3. OneAtSub2API'
    BY <1>13 DEF PushResumes, PushStep, GoTo, PublishPlaces, AtSub2API, Pushers, OneAtSub2API,
       PublishTyped, AtSub2API, Pushers
  <2>4. RunHoldsItsToken'
    BY <1>13 DEF PushResumes, PushStep, GoTo, PublishPlaces, AtSub2API, Pushers, RunHoldsItsToken,
       Whereabouts, PublishTyped, AtSub2API, AtWorkThere, Pushers, Export
  <2>5. StepsDone'
    BY <1>13 DEF PushResumes, PushStep, GoTo, PublishPlaces, AtSub2API, Pushers, StepsDone,
       Whereabouts, PublishTyped, AtSub2API, AtWorkThere, Pushers
  <2>6. StepsLast'
    BY <1>13 DEF PushResumes, PushStep, GoTo, PublishPlaces, AtSub2API, Pushers, StepsLast,
       StepsDone, RunHoldsItsToken, Meant
  <2> QED
    BY <2>1, <2>2, <2>3, <2>4, <2>5, <2>6
<1>14. CASE PushLooks
  <2>1. CASE PushFails("run")
    BY <2>1, PushFailsKeeps DEF Pushers
  <2>2. CASE credential = localCpa /\ PushVerified
    BY <1>14, <2>2, PushVerifiedKeeps DEF PushLooks
  <2>3. ASSUME NEW l \in {"uploading", "deleting"}, PushStep(l), UNCHANGED <<done, credential, touchedCpa>>
        PROVE  PublishInv'
    <3>1. /\ GoTo("run", l) /\ place["run"] = "push" /\ "push" \notin done
          /\ UNCHANGED <<localCpa, desired, fileToken, accountId, active, accounts, created, touched,
                         allGroups, wanted, publish, pat, subFiles>>
      BY <1>14, <2>3 DEF PushLooks, PushStep
    <3>2. /\ place' \in [Pushers -> PublishPlaces] /\ place'["run"] = l /\ place'["cli"] = place["cli"]
          /\ overlapped' \in BOOLEAN
          /\ ~overlapped' => ~overlapped /\ \E q \in Pushers : place'[q] \notin AtSub2API
      BY <3>1, GoToSets DEF PublishPlaces, Pushers
    <3>3. PublishTyped' /\ Whereabouts'
      BY <2>3, <3>1, <3>2 DEF PublishTyped, Whereabouts, AtSub2API, Pushers
    <3>4. OneAtSub2API'
      BY <2>3, <3>1, <3>2 DEF OneAtSub2API, AtSub2API, Pushers
    <3>5. RunHoldsItsToken' /\ StepsDone' /\ StepsLast'
      BY <2>3, <3>1, <3>2 DEF RunHoldsItsToken, StepsDone, StepsLast, Meant, AtSub2API, AtWorkThere,
         Export
    <3> QED
      BY <3>3, <3>4, <3>5
  <2> QED
    BY <1>14, <2>1, <2>2, <2>3 DEF PushLooks
<1>15. CASE PushDeletes
  <2>1. PublishTyped'
    BY <1>15 DEF PushDeletes, PushStep, GoTo, PublishPlaces, AtSub2API, Pushers, Absent,
       PublishTyped, PublishPlaces, Whereabouts
  <2>2. Whereabouts'
    BY <1>15 DEF PushDeletes, PushStep, GoTo, PublishPlaces, AtSub2API, Pushers, Absent,
       Whereabouts, PublishTyped, AtSub2API, Pushers
  <2>3. OneAtSub2API'
    BY <1>15 DEF PushDeletes, PushStep, GoTo, PublishPlaces, AtSub2API, Pushers, Absent,
       OneAtSub2API, PublishTyped, AtSub2API, Pushers
  <2>4. RunHoldsItsToken'
    BY <1>15 DEF PushDeletes, PushStep, GoTo, PublishPlaces, AtSub2API, Pushers, Absent,
       RunHoldsItsToken, Whereabouts, PublishTyped, AtSub2API, AtWorkThere, Pushers, Export
  <2>5. StepsDone'
    BY <1>15 DEF PushDeletes, PushStep, GoTo, PublishPlaces, AtSub2API, Pushers, Absent, StepsDone,
       Whereabouts, PublishTyped, AtSub2API, AtWorkThere, Pushers
  <2>6. StepsLast'
    BY <1>15 DEF PushDeletes, PushStep, GoTo, PublishPlaces, AtSub2API, Pushers, Absent, StepsLast,
       StepsDone, RunHoldsItsToken, Meant
  <2> QED
    BY <2>1, <2>2, <2>3, <2>4, <2>5, <2>6
<1>16. CASE PushUploads
  <2>1. PublishTyped'
    BY <1>16 DEF PushUploads, PushStep, GoTo, PublishPlaces, AtSub2API, Pushers, PublishTyped,
       PublishPlaces, Whereabouts
  <2>2. Whereabouts'
    BY <1>16 DEF PushUploads, PushStep, GoTo, PublishPlaces, AtSub2API, Pushers, Whereabouts,
       PublishTyped, AtSub2API, Pushers
  <2>3. OneAtSub2API'
    BY <1>16 DEF PushUploads, PushStep, GoTo, PublishPlaces, AtSub2API, Pushers, OneAtSub2API,
       PublishTyped, AtSub2API, Pushers
  <2>4. RunHoldsItsToken'
    BY <1>16 DEF PushUploads, PushStep, GoTo, PublishPlaces, AtSub2API, Pushers, RunHoldsItsToken,
       Whereabouts, PublishTyped, AtSub2API, AtWorkThere, Pushers, Export
  <2>5. StepsDone'
    BY <1>16 DEF PushUploads, PushStep, GoTo, PublishPlaces, AtSub2API, Pushers, StepsDone,
       Whereabouts, PublishTyped, AtSub2API, AtWorkThere, Pushers
  <2>6. StepsLast'
    BY <1>16 DEF PushUploads, PushStep, GoTo, PublishPlaces, AtSub2API, Pushers, StepsLast,
       StepsDone, RunHoldsItsToken, Meant
  <2> QED
    BY <2>1, <2>2, <2>3, <2>4, <2>5, <2>6
<1>17. CASE PushChecks
  <2>1. CASE PushFails("run")
    BY <2>1, PushFailsKeeps DEF Pushers
  <2> QED
    BY <1>17, <2>1, PushVerifiedKeeps DEF PushChecks
<1>18. ASSUME NEW p \in Pushers, ReadGroups(p)
      PROVE  PublishInv'
  <2>1. CASE PushFails(p)
    BY <2>1, PushFailsKeeps
  <2>2. CASE p = "run" /\ "push_sub2api" \in done /\ SubStep(p, "finish") /\ UNCHANGED <<services, desired, fileToken, accountId>>
    <3>1. GoTo("run", "finish") /\ UNCHANGED <<allGroups, wanted, publish, pat, done, subFiles, localCpa>>
      BY <2>2 DEF SubStep
    <3>2. /\ place' \in [Pushers -> PublishPlaces] /\ place'["run"] = "finish" /\ place'["cli"] = place["cli"]
          /\ overlapped' \in BOOLEAN
          /\ ~overlapped' => ~overlapped /\ \E q \in Pushers : place'[q] \notin AtSub2API
      BY <3>1, GoToSets DEF PublishPlaces, Pushers
    <3>3. place["run"] = "push_sub2api"
      BY <1>18, <2>2 DEF ReadGroups
    <3>4. PublishTyped' /\ Whereabouts'
      BY <2>2, <3>1, <3>2, <3>3 DEF PublishTyped, Whereabouts, AtSub2API, Pushers
    <3>5. OneAtSub2API'
      BY <2>2, <3>1, <3>2 DEF OneAtSub2API, AtSub2API, Pushers
    <3>6. RunHoldsItsToken' /\ StepsDone' /\ StepsLast'
      BY <2>2, <3>1, <3>2 DEF RunHoldsItsToken, StepsDone, StepsLast, Meant, AtSub2API, AtWorkThere
    <3> QED
      BY <3>4, <3>5, <3>6
  <2>3. CASE ~PushFails(p) /\ ~(p = "run" /\ "push_sub2api" \in done)
    <3> DEFINE t == IF p = "run" THEN pat ELSE fileToken[p]
    <3>1. /\ place[p] = "push_sub2api" /\ subFiles[t] # NoFile /\ SubStep(p, "exporting")
          /\ Production(p) => active # {}
          /\ desired' = [desired EXCEPT ![p] = IF Production(p) THEN active ELSE {subFiles[t].group}]
          /\ fileToken' = [fileToken EXCEPT ![p] = subFiles[t].token]
          /\ UNCHANGED <<services, accountId>>
      BY <1>18, <2>3 DEF ReadGroups, SubFails
    <3>2. t \in Pats
      BY <3>1 DEF Whereabouts, PublishTyped, Pushers
    <3>3. subFiles[t].token \in Nat /\ subFiles[t].group \in GroupIds /\ active \subseteq GroupIds
      BY <3>1, <3>2 DEF PublishTyped, Pats, GroupIds
    <3>4. p = "run" => t = pat /\ subFiles[pat] = Export
      BY <3>1 DEF RunHoldsItsToken
    <3> HIDE DEF t
    <3>5. /\ desired' \in [Pushers -> SUBSET GroupIds] /\ fileToken' \in [Pushers -> Nat]
          /\ \A q \in Pushers \ {p} : desired'[q] = desired[q] /\ fileToken'[q] = fileToken[q]
          /\ desired'[p] = (IF Production(p) THEN active ELSE {subFiles[t].group})
          /\ fileToken'[p] = subFiles[t].token
      BY <3>1, <3>3 DEF PublishTyped
    <3>6. p = "run" => /\ fileToken'["run"] = pat
                      /\ IF allGroups THEN desired'["run"] # {} ELSE desired'["run"] = {wanted}
      BY <3>1, <3>4, <3>5 DEF Export, Production
    <3>7. accountId' \in [Pushers -> Nat] /\ place[p] \in AtSub2API /\ "exporting" \in AtWorkThere
      BY <3>1 DEF PublishTyped, AtSub2API, AtWorkThere
    <3> QED
      BY <2>3, <3>1, <3>5, <3>6, <3>7, SubGoesKeeps
  <2> QED
    BY <1>18, <2>1, <2>2, <2>3 DEF ReadGroups
<1>19. ASSUME NEW p \in Pushers, ReadAccounts(p)
      PROVE  PublishInv'
  <2>1. CASE PushFails(p)
    BY <2>1, PushFailsKeeps
  <2>2. CASE Verified(p) /\ ~Production(p) /\ \E i \in SameToken(p) : Fits(p, accounts[i])
    <3>1. PICK i \in DOMAIN accounts : accounts[i].token = fileToken[p] /\ Fits(p, accounts[i])
      BY <2>2 DEF SameToken
    <3>2. place[p] \in AtWorkThere
      BY <1>19 DEF ReadAccounts, AtWorkThere, AtSub2API
    <3>3. p = "run" => Meant(accounts[i])
      BY <2>2, <3>1, <3>2 DEF Meant, Fits, GroupsMatch, Production, RunHoldsItsToken
    <3> QED
      BY <2>2, <3>2, <3>3, VerifiedKeeps
  <2>3. ASSUME NEW l \in {"creating", "matching"}, SubStep(p, l), UNCHANGED <<services, desired, fileToken, accountId>>,
               l = "creating" => DOMAIN accounts = {}, l = "matching" => SameToken(p) # {}
        PROVE  PublishInv'
    <3>1. place[p] = "exporting" /\ place[p] \in AtSub2API /\ place[p] \in AtWorkThere /\ l \in AtWorkThere
      BY <1>19 DEF ReadAccounts, AtWorkThere, AtSub2API
    <3>2. /\ desired' \in [Pushers -> SUBSET GroupIds] /\ fileToken' \in [Pushers -> Nat]
          /\ accountId' \in [Pushers -> Nat]
      BY <2>3 DEF PublishTyped
    <3>3. p = "run" => /\ fileToken'["run"] = pat /\ "push_sub2api" \notin done
                      /\ IF allGroups THEN desired'["run"] # {} ELSE desired'["run"] = {wanted}
      BY <2>3, <3>1 DEF RunHoldsItsToken, StepsDone
    <3>4. ~overlapped /\ l = "matching" => \A i \in DOMAIN accounts : accounts[i].token = fileToken'[p]
      BY <2>3 DEF OneAtSub2API, SameToken
    <3> QED
      BY <2>3, <3>1, <3>2, <3>3, <3>4, SubGoesKeeps
  <2> QED
    BY <1>19, <2>1, <2>2, <2>3 DEF ReadAccounts, SubFails, IdentityTaken
<1>20. ASSUME NEW p \in Pushers, MatchAccount(p)
      PROVE  PublishInv'
  <2>1. CASE PushFails(p)
    BY <2>1, PushFailsKeeps
  <2> SUFFICES ASSUME ~PushFails(p)
               PROVE  PublishInv'
    BY <2>1
  <2>2. place[p] = "matching" /\ place[p] \in AtSub2API /\ place[p] \in AtWorkThere /\ "updating" \in AtWorkThere
    BY <1>20 DEF MatchAccount, AtWorkThere, AtSub2API
  <2>3. /\ p = "run" => /\ fileToken["run"] = pat /\ "push_sub2api" \notin done
                        /\ IF allGroups THEN desired["run"] # {} ELSE desired["run"] = {wanted}
        /\ ~overlapped => \A i \in DOMAIN accounts : accounts[i].token = fileToken[p]
    BY <2>2 DEF RunHoldsItsToken, StepsDone, OneAtSub2API
  <2> DEFINE i == CHOOSE i \in DOMAIN accounts : TRUE
  <2>4. Cardinality(DOMAIN accounts) = 1
    BY <1>20 DEF MatchAccount, SubFails
  <2>5. DOMAIN accounts # {}
    BY <2>4, FS_EmptySet
  <2>6. i \in DOMAIN accounts
    BY <2>5
  <2>7. \/ Fits(p, accounts[i]) /\ Verified(p)
        \/ SubStep(p, "updating") /\ accountId' = [accountId EXCEPT ![p] = i] /\ UNCHANGED <<services, desired, fileToken>>
    BY <1>20, <2>4 DEF MatchAccount
  <2> HIDE DEF i
  <2>8. CASE Fits(p, accounts[i]) /\ Verified(p)
    <3>1. p = "run" /\ ~overlapped => Meant(accounts[i])
      BY <2>3, <2>6, <2>8 DEF Meant, Fits, GroupsMatch, SettingsMatch, Production
    <3> QED
      BY <2>2, <2>6, <2>8, <3>1, VerifiedKeeps
  <2>9. CASE SubStep(p, "updating") /\ accountId' = [accountId EXCEPT ![p] = i] /\ UNCHANGED <<services, desired, fileToken>>
    <3>1. i \in Nat
      BY <2>6 DEF PublishTyped
    <3>2. /\ desired' \in [Pushers -> SUBSET GroupIds] /\ fileToken' \in [Pushers -> Nat]
          /\ accountId' \in [Pushers -> Nat]
      BY <2>9, <3>1 DEF PublishTyped
    <3> QED
      BY <2>2, <2>3, <2>9, <3>2, SubGoesKeeps
  <2> QED
    BY <2>7, <2>8, <2>9
<1>21. ASSUME NEW p \in Pushers, UpdateAccount(p)
      PROVE  PublishInv'
  <2>1. CASE PushFails(p)
    BY <2>1, PushFailsKeeps
  <2> SUFFICES ASSUME ~PushFails(p)
               PROVE  PublishInv'
    BY <2>1
  <2> DEFINE i == accountId[p]
             e == Updated(accounts[i], desired[p])
  <2>2. /\ place[p] = "updating" /\ i \in DOMAIN accounts /\ SubStep(p, "verifying")
        /\ accounts' = [accounts EXCEPT ![i] = e]
        /\ touched' = (touched \/ p = "cli")
        /\ UNCHANGED <<active, created, credential, touchedCpa, desired, fileToken, accountId>>
    BY <1>21 DEF UpdateAccount, SubFails
  <2>3. e \in Account /\ e.token = accounts[i].token
    BY <2>2 DEF Updated, PublishTyped, Account
  <2> HIDE DEF e
  <2>4. /\ accounts' \in [DOMAIN accounts' -> Account] /\ DOMAIN accounts' = DOMAIN accounts
        /\ \A j \in DOMAIN accounts : accounts'[j].token = accounts[j].token
    BY <2>2, <2>3 DEF PublishTyped
  <2>5. /\ place' \in [Pushers -> PublishPlaces] /\ place'[p] = "verifying" /\ p \in {"run", "cli"}
        /\ \A q \in Pushers \ {p} : place'[q] = place[q]
        /\ overlapped' \in BOOLEAN
        /\ ~overlapped' => ~overlapped /\ \E q \in Pushers : place'[q] \notin AtSub2API
        /\ UNCHANGED <<allGroups, wanted, publish, pat, done, subFiles, localCpa>>
    BY <2>2, GoToSets DEF SubStep, PublishPlaces, AtSub2API
  <2> HIDE DEF i
  <2>6. PublishTyped'
    BY <2>2, <2>4, <2>5 DEF PublishTyped
  <2>7. Whereabouts'
    BY <2>2, <2>5 DEF Whereabouts, AtSub2API, Pushers
  <2>8. OneAtSub2API'
    BY <2>2, <2>4, <2>5 DEF OneAtSub2API, AtSub2API, Pushers
  <2>9. RunHoldsItsToken' /\ StepsDone'
    BY <2>2, <2>5 DEF RunHoldsItsToken, StepsDone, AtSub2API, AtWorkThere, Pushers, Export
  <2>10. StepsLast'
    <3>1. "push_sub2api" \in done' => touched' \/ p # "run"
      BY <2>2, <2>5 DEF StepsDone, AtWorkThere, AtSub2API
    <3> QED
      BY <2>2, <2>5, <3>1 DEF StepsLast
  <2> QED
    BY <2>6, <2>7, <2>8, <2>9, <2>10
<1>22. ASSUME NEW p \in Pushers, CreateAccount(p)
      PROVE  PublishInv'
  <2>1. PublishTyped'
    <3> DEFINE new == created + 1
    <3>1. new \in Nat /\ new \in 1..created' /\ created' \in Nat /\ created' = new /\ 1..created \subseteq 1..created'
      BY <1>22 DEF CreateAccount, PublishTyped
    <3>2. NewAccount(p) \in Account
      BY DEF NewAccount, Account, Production, PublishTyped
    <3>3. /\ accounts' = [i \in DOMAIN accounts \cup {new} |-> IF i = new THEN NewAccount(p) ELSE accounts[i]]
          /\ accountId' = [accountId EXCEPT ![p] = new] /\ GoTo(p, "verifying")
          /\ UNCHANGED <<wanted, active, pat, subFiles, desired, fileToken>>
      BY <1>22 DEF CreateAccount, SubStep
    <3> HIDE DEF new
    <3>4. accounts' \in [DOMAIN accounts' -> Account] /\ DOMAIN accounts' = DOMAIN accounts \cup {new}
      BY <3>2, <3>3 DEF PublishTyped
    <3>5. place' \in [Pushers -> PublishPlaces] /\ overlapped' \in BOOLEAN
      BY <3>3, GoToSets DEF PublishPlaces, AtSub2API
    <3>6. accountId' \in [Pushers -> Nat]
      BY <3>1, <3>3 DEF PublishTyped
    <3> QED
      BY <3>1, <3>3, <3>4, <3>5, <3>6 DEF PublishTyped
  <2>2. Whereabouts'
    BY <1>22 DEF CreateAccount, SubStep, NewAccount, GoTo, PublishPlaces, AtSub2API, Pushers,
       Whereabouts, PublishTyped, AtSub2API, Pushers
  <2>3. OneAtSub2API'
    BY <1>22 DEF CreateAccount, SubStep, NewAccount, GoTo, PublishPlaces, AtSub2API, Pushers,
       OneAtSub2API, PublishTyped, AtSub2API, Pushers
  <2>4. RunHoldsItsToken'
    BY <1>22 DEF CreateAccount, SubStep, NewAccount, GoTo, PublishPlaces, AtSub2API, Pushers,
       RunHoldsItsToken, Whereabouts, PublishTyped, AtSub2API, AtWorkThere, Pushers, Export
  <2>5. StepsDone'
    BY <1>22 DEF CreateAccount, SubStep, NewAccount, GoTo, PublishPlaces, AtSub2API, Pushers,
       StepsDone, Whereabouts, PublishTyped, AtSub2API, AtWorkThere, Pushers
  <2>6. StepsLast'
    <3>1. /\ accounts' = [i \in DOMAIN accounts \cup {created + 1} |->
                          IF i = created + 1 THEN NewAccount(p) ELSE accounts[i]]
          /\ UNCHANGED <<done, pat, allGroups, wanted, touched, touchedCpa, credential>>
      BY <1>22 DEF CreateAccount, SubStep
    <3>2. overlapped => overlapped'
      BY <1>22 DEF CreateAccount, SubStep, GoTo
    <3>3. created + 1 \notin DOMAIN accounts
      BY DEF PublishTyped
    <3>4. \A i \in DOMAIN accounts : i \in DOMAIN accounts' /\ accounts'[i] = accounts[i]
      BY <3>1, <3>3
    <3> QED
      BY <3>1, <3>2, <3>4 DEF StepsLast, Meant
  <2> QED
    BY <2>1, <2>2, <2>3, <2>4, <2>5, <2>6
<1>23. ASSUME NEW p \in Pushers, VerifyAccount(p)
      PROVE  PublishInv'
  <2>1. CASE PushFails(p)
    BY <2>1, PushFailsKeeps
  <2> SUFFICES ASSUME ~PushFails(p)
               PROVE  PublishInv'
    BY <2>1
  <2>2. place[p] = "verifying" /\ place[p] \in AtWorkThere
    BY <1>23 DEF VerifyAccount, AtWorkThere, AtSub2API
  <2>3. Verified(p) /\ \E i \in DOMAIN accounts : Fits(p, accounts[i])
    BY <1>23 DEF VerifyAccount, SubFails, SameToken
  <2>4. PICK i \in DOMAIN accounts : Fits(p, accounts[i])
    BY <2>3
  <2>5. p = "run" /\ ~overlapped => Meant(accounts[i])
    BY <2>2, <2>4 DEF Meant, Fits, GroupsMatch, SettingsMatch, Production, RunHoldsItsToken,
       OneAtSub2API
  <2> QED
    BY <2>2, <2>3, <2>5, VerifiedKeeps
<1>24. CASE PublishFinish
  <2>1. Ends("run") /\ publish' = "succeeded" /\ UNCHANGED <<services, settingsP, pat, done, subFiles>>
    BY <1>24 DEF PublishFinish
  <2> QED
    BY <2>1, EndsKeeps DEF Pushers
<1>25. ASSUME NEW p \in Pushers, PushError(p)
      PROVE  PublishInv'
  BY <1>25, EndsKeeps DEF PushError, PushFails
<1>26. CASE PublishCrash \/ CpaUnnamed
  BY <1>26, EndsKeeps DEF PublishCrash, CpaUnnamed, Pushers
<1>27. CASE UNCHANGED publishVars
  BY <1>27 DEF publishVars, PublishTyped, Whereabouts, OneAtSub2API, RunHoldsItsToken, StepsDone,
     StepsLast, Meant, Export
<1> QED
  BY <1>1, <1>2, <1>3, <1>4, <1>5, <1>6, <1>7, <1>8, <1>9, <1>10, <1>11, <1>12, <1>13, <1>14, <1>15,
     <1>16, <1>17, <1>18, <1>19, <1>20, <1>21, <1>22, <1>23, <1>24, <1>25, <1>26, <1>27
     DEF PublishNext, RunSteps, SubSteps, Pushers

LEMMA PublishInvAlways == PublishSpec => []PublishInv
<1>1. PublishInit => PublishInv
  BY PublishInvInit
<1>2. PublishInv /\ [PublishNext]_publishVars => PublishInv'
  BY PublishInvStep
<1> QED
  BY <1>1, <1>2, PTL DEF PublishSpec

LEMMA PublishInvMeans == PublishInv => PublishedOnce
<1>1. PublishInv => OneAccountPerChild
  <2> SUFFICES ASSUME PublishInv, ~overlapped
               PROVE  Cardinality(DOMAIN accounts) <= 1
    BY DEF OneAccountPerChild
  <2>1. DOMAIN accounts = {} \/ \E i \in DOMAIN accounts : DOMAIN accounts = {i}
    BY DEF PublishInv, OneAtSub2API
  <2>2. CASE DOMAIN accounts = {}
    BY <2>2, FS_EmptySet
  <2>3. ASSUME NEW i \in DOMAIN accounts, DOMAIN accounts = {i}
        PROVE  Cardinality(DOMAIN accounts) <= 1
    BY <2>3, FS_Singleton, SMTT(30)
  <2> QED
    BY <2>1, <2>2, <2>3
<1>2. PublishInv => VerifiedIsPublished
  BY DEF PublishInv, StepsDone, StepsLast, Meant, VerifiedIsPublished
<1> QED
  BY <1>1, <1>2 DEF PublishedOnce

\* What a run publishes exists once and as the run verified it, for any number
\* of tokens, accounts, faults, manual pushes and acts of the administrators.
THEOREM PublishedAsVerified == PublishSpec => []PublishedOnce
BY PublishInvMeans, PublishInvAlways, PTL

\* How far a run is from the end of its publication.
PublicationLeft ==
  [off |-> 0, cpa |-> 14, sub2api_export |-> 13, push |-> 12, deleting |-> 11, uploading |-> 10,
   checking |-> 9, push_sub2api |-> 8, exporting |-> 7, matching |-> 6, creating |-> 5,
   updating |-> 4, verifying |-> 3, finish |-> 1]

\* Every request of a run brings it nearer to the end of its publication, and
\* no manual push, administrator or fault takes it back; only a new attempt
\* starts over.
PublicationsAdvance ==
  [][/\ RunSteps => PublicationLeft[place'["run"]] < PublicationLeft[place["run"]]
     /\ place'["run"] # place["run"] =>
          PublicationLeft[place'["run"]] < PublicationLeft[place["run"]] \/ PublishBegin]_publishVars

\* Where a step of one pusher leaves it, and that it leaves the other alone.
LEMMA PusherGoes ==
  ASSUME place \in [Pushers -> PublishPlaces], NEW p \in Pushers, SubSteps(p)
  PROVE  /\ \/ place[p] = "push_sub2api" /\ place'[p] \in {"off", "exporting", "finish"}
            \/ place[p] = "exporting" /\ place'[p] \in {"off", "creating", "matching", "finish"}
            \/ place[p] = "matching" /\ place'[p] \in {"off", "updating", "finish"}
            \/ place[p] \in {"creating", "updating"} /\ place'[p] \in {"off", "verifying"}
            \/ place[p] = "verifying" /\ place'[p] \in {"off", "finish"}
         /\ \A q \in Pushers \ {p} : place'[q] = place[q]
<1> USE DEF SubStep, SubFails, PushFails, Ends, GoTo, Verified
<1>1. CASE ReadGroups(p)
  BY <1>1 DEF ReadGroups
<1>2. CASE ReadAccounts(p)
  BY <1>2 DEF ReadAccounts
<1>3. CASE MatchAccount(p)
  BY <1>3 DEF MatchAccount
<1>4. CASE UpdateAccount(p)
  BY <1>4 DEF UpdateAccount
<1>5. CASE CreateAccount(p)
  BY <1>5 DEF CreateAccount
<1>6. CASE VerifyAccount(p)
  BY <1>6 DEF VerifyAccount
<1> QED
  BY <1>1, <1>2, <1>3, <1>4, <1>5, <1>6 DEF SubSteps

LEMMA RunGoesOn ==
  ASSUME place \in [Pushers -> PublishPlaces], RunSteps
  PROVE  PublicationLeft[place'["run"]] < PublicationLeft[place["run"]]
<1> USE DEF Pushers, PublicationLeft
<1>1. CASE WriteCpa \/ WriteSub2apiExport
  BY <1>1 DEF WriteCpa, WriteSub2apiExport, GoTo
<1>2. CASE PushResumes \/ PushDeletes \/ PushUploads
  BY <1>2 DEF PushResumes, PushDeletes, PushUploads, PushStep, GoTo
<1>3. CASE PushLooks
  BY <1>3 DEF PushLooks, PushVerified, PushStep, GoTo, PushFails, Ends
<1>4. CASE PushChecks
  BY <1>4 DEF PushChecks, PushVerified, PushStep, GoTo, PushFails, Ends
<1>5. CASE SubSteps("run")
  BY <1>5, PusherGoes
<1>6. CASE PublishFinish
  BY <1>6 DEF PublishFinish, Ends
<1> QED
  BY <1>1, <1>2, <1>3, <1>4, <1>5, <1>6 DEF RunSteps

\* An attempt to publish takes at most thirteen requests and writes, whatever
\* the services hold and whoever else pushes.
THEOREM PublicationsComeToAnEnd == PublishSpec => PublicationsAdvance
<1>1. PublishInv /\ [PublishNext]_publishVars =>
        [/\ RunSteps => PublicationLeft[place'["run"]] < PublicationLeft[place["run"]]
         /\ place'["run"] # place["run"] =>
              PublicationLeft[place'["run"]] < PublicationLeft[place["run"]] \/ PublishBegin]_publishVars
  <2> SUFFICES ASSUME PublishInv, PublishNext
               PROVE  /\ RunSteps => PublicationLeft[place'["run"]] < PublicationLeft[place["run"]]
                      /\ place'["run"] # place["run"] =>
                           \/ PublicationLeft[place'["run"]] < PublicationLeft[place["run"]]
                           \/ PublishBegin
    OBVIOUS
  <2>1. place \in [Pushers -> PublishPlaces] /\ "run" \in Pushers
    BY DEF PublishInv, PublishTyped, Pushers
  <2>2. RunSteps => PublicationLeft[place'["run"]] < PublicationLeft[place["run"]]
    BY <2>1, RunGoesOn
  <2>3. place'["run"] = "off" \/ place'["run"] = place["run"] \/ RunSteps \/ PublishBegin
    <3>1. CASE PublishRetry \/ PublishAgain \/ CredentialTaken
      BY <3>1 DEF PublishRetry, PublishAgain, CredentialTaken, Administrator, pushing
    <3>2. CASE PublishCrash \/ CpaUnnamed
      BY <2>1, <3>2 DEF PublishCrash, CpaUnnamed, Ends
    <3>3. CASE SubSteps("cli")
      BY <2>1, <3>3, PusherGoes DEF Pushers
    <3>4. ASSUME NEW p \in Pushers, PushError(p)
          PROVE  place'["run"] = "off" \/ place'["run"] = place["run"]
      BY <2>1, <3>4 DEF PushError, PushFails, Ends, Pushers
    <3>5. ASSUME NEW t \in Pats, CliBegin(t) \/ FilesDeleted(t)
          PROVE  place'["run"] = place["run"]
      BY <2>1, <3>5 DEF CliBegin, GoTo, FilesDeleted, Administrator, pushing
    <3>6. ASSUME NEW g \in Groups, GroupToggled(g) \/ GroupConfigured(g)
          PROVE  place'["run"] = place["run"]
      BY <3>6 DEF GroupToggled, GroupConfigured, Administrator, pushing
    <3>7. ASSUME NEW a \in 1..MaxAccounts, AccountEdited(a) \/ AccountDeleted(a)
          PROVE  place'["run"] = place["run"]
      BY <3>7 DEF AccountEdited, AccountDeleted, Administrator, pushing
    <3> QED
      BY <3>1, <3>2, <3>3, <3>4, <3>5, <3>6, <3>7 DEF PublishNext
  <2>4. place["run"] \in PublishPlaces /\ (place["run"] # "off" => 0 < PublicationLeft[place["run"]])
    BY <2>1 DEF PublishPlaces, AtSub2API, PublicationLeft
  <2>5. PublicationLeft["off"] = 0
    BY DEF PublicationLeft
  <2> QED
    BY <2>2, <2>3, <2>4, <2>5
<1> QED
  BY <1>1, PublishInvAlways, PTL DEF PublishSpec, PublicationsAdvance

(***************************************************************************)
(* The alerts: each is acted upon once.                                    *)
(***************************************************************************)
Latched == {"none", "pending", "triggered"}
Measured == {"ok", "high", "unauthorized"}
Runs == [Teams -> [kid : Nat, state : {"none", "active", "succeeded", "over"}]]
PerKid == [Teams -> [Kids -> Nat]]

AlertsTyped ==
  /\ kid \in [Teams -> Kids] /\ nextKid \subseteq Teams /\ changedSince \subseteq Teams
  /\ runOf \in Runs
  /\ health \in [Teams -> [Kids -> Measured]] /\ signal \in [Teams -> Measured \cup {"unmeasured"}]
  /\ validity \in Nat \ {0} /\ lastUid \in Nat /\ mails \in Nat /\ lastUid <= mails /\ monitors \subseteq 1..lastUid
  /\ cursor \in [validity : Nat, uid : Nat] /\ fetched \in [validity : Nat, uid : Nat]
  /\ latch \in [Keys -> Latched] /\ acts \in [Keys -> Latched]
  /\ apc \in {"idle", "targets", "measure", "apply", "next", "call", "mark", "cursor"}
  /\ aims \in [Teams -> Nat] /\ todo \subseteq Keys /\ atWork \in Keys \cup {NoAction}
  /\ beganAt \in Nat /\ actedUpTo \in Nat
  /\ handoffs \in PerKid /\ refreshes \in PerKid /\ outages \in PerKid /\ unrecorded \in PerKid

\* Every mail that the cursor is past, or will be, was followed by a measurement.
MailsAreFollowed ==
  /\ cursor.validity <= validity /\ (cursor.validity = validity => cursor.uid <= lastUid)
  /\ NoAlertIsSkipped
  /\ apc # "idle" =>
       /\ fetched.validity = validity /\ fetched.uid <= lastUid
       /\ cursor.validity = validity => cursor.uid <= fetched.uid
  /\ apc \in {"targets", "measure", "apply", "next", "call", "mark"} => fetched.uid <= beganAt
  /\ apc = "cursor" => \A u \in monitors : u <= fetched.uid => u <= actedUpTo

\* A poll works on children that are or were current; only a last child is not
\* used up, and a run hands over from the current child.
Working == apc \in {"next", "call", "mark"}
AtApply == {"measure", "apply", "next", "call", "mark"}
AimsAreChildren ==
  /\ \A t \in Teams :
       /\ aims[t] <= kid[t] /\ (apc \in AtApply => aims[t] # 0)
       /\ apc \in AtApply /\ t \notin changedSince => aims[t] = kid[t]
       /\ \A k \in Kids : health[t][k] = "high" => k < MaxKids
       /\ signal[t] = "high" => aims[t] < MaxKids
       /\ runOf[t].state = "active" => runOf[t].kid = kid[t] /\ kid[t] < MaxKids /\ t \in nextKid
  /\ apc \in {"apply", "next", "call", "mark"} => \A t \in Teams : signal[t] # "unmeasured"
  /\ ~Working => todo = {}
  /\ \A key \in todo : /\ key[3] = aims[key[2]]
                       /\ key[1] = "handoff" => key[3] < MaxKids
  /\ apc \in {"call", "mark"} => atWork \in todo /\ acts[atWork] = "pending" /\ latch = acts

\* What was not aimed at was not acted upon, and is as it began.
NothingAhead ==
  \A t \in Teams : \A k \in Kids :
    /\ k > kid[t] => handoffs[t][k] = 0 /\ refreshes[t][k] = 0 /\ health[t][k] = "ok"
    /\ aims[t] # 0 /\ k > aims[t] => handoffs[t][k] = 0 /\ refreshes[t][k] = 0
    /\ health[t][k] = "unauthorized" => outages[t][k] >= 1

\* A child that was handed over from and is current still has its successor
\* bound, its latch set, and is not about to be handed over again.
HandedOverOnce ==
  \A t \in Teams : \A k \in Kids :
    handoffs[t][k] # 0 =>
      /\ handoffs[t][k] = 1
      /\ kid[t] = k =>
           /\ t \in nextKid /\ latch[<<"handoff", t, k>>] # "none"
           /\ Working => acts[<<"handoff", t, k>>] # "none"
           /\ apc = "call" => atWork # <<"handoff", t, k>>

\* The refreshes that the outages of a child leave to be done.
Owed(t, k) == refreshes[t][k] + 1 <= outages[t][k] + unrecorded[t][k]
Due(t, k, recorded) == recorded[<<"refresh", t, k>>] # "triggered"

RefreshesAreOwed ==
  /\ OneRefreshPerOutage
  /\ \A t \in Teams :
       LET k == kid[t] IN
       /\ health[t][k] = "unauthorized" /\ Due(t, k, latch) /\ (apc = "mark" => atWork # <<"refresh", t, k>>) => Owed(t, k)
       /\ Working /\ health[t][k] = "unauthorized" /\ Due(t, k, acts) /\ (apc = "mark" => atWork # <<"refresh", t, k>>) => Owed(t, k)
       /\ Working /\ <<"refresh", t, k>> \in todo /\ Due(t, k, acts) /\ (apc = "mark" => atWork # <<"refresh", t, k>>) => Owed(t, k)
       /\ apc \in {"measure", "apply"} /\ aims[t] = k =>
            /\ signal[t] = "unauthorized" /\ Due(t, k, latch) => Owed(t, k)
            /\ signal[t] \in {"ok", "high"} /\ health[t][k] = "unauthorized" => Owed(t, k)

AlertsInv ==
  /\ AlertsTyped /\ MailsAreFollowed /\ AimsAreChildren
  /\ NothingAhead /\ HandedOverOnce /\ RefreshesAreOwed

LEMMA AlertsInvInit == AlertsInit => AlertsInv
<1> SUFFICES ASSUME AlertsInit
             PROVE  AlertsInv
  OBVIOUS
<1> USE DEF AlertsInit, NoCursor, Blank, NoCounts
<1>1. 1 \in Kids /\ Kids \subseteq Nat
  BY AlertsAssumption DEF Kids
<1>2. handoffs \in PerKid /\ refreshes \in PerKid /\ outages \in PerKid /\ unrecorded \in PerKid
  BY DEF PerKid
<1>3. /\ kid \in [Teams -> Kids] /\ health \in [Teams -> [Kids -> Measured]]
      /\ signal \in [Teams -> Measured \cup {"unmeasured"}] /\ aims \in [Teams -> Nat]
      /\ runOf \in Runs
  BY <1>1 DEF Measured, Runs
<1>4. AlertsTyped
  BY <1>1, <1>2, <1>3 DEF AlertsTyped, Latched
<1>5. MailsAreFollowed
  BY DEF MailsAreFollowed, NoAlertIsSkipped
<1>6. AimsAreChildren
  BY <1>1 DEF AimsAreChildren, AtApply, Working
<1>7. NothingAhead /\ HandedOverOnce
  BY <1>1 DEF NothingAhead, HandedOverOnce
<1>8. RefreshesAreOwed
  BY <1>1 DEF RefreshesAreOwed, OneRefreshPerOutage, Working
<1> QED
  BY <1>4, <1>5, <1>6, <1>7, <1>8 DEF AlertsInv

\* One count goes up, the others stay.
LEMMA OneMore ==
  ASSUME NEW f \in PerKid, NEW t \in Teams, NEW k \in Kids, NEW g, g = [f EXCEPT ![t][k] = @ + 1]
  PROVE  /\ g \in PerKid /\ g[t][k] = f[t][k] + 1
         /\ \A u \in Teams : \A j \in Kids : u # t \/ j # k => g[u][j] = f[u][j]
<1> DEFINE n == f[t][k] + 1
<1>1. n \in Nat
  BY DEF PerKid
<1>2. g = [f EXCEPT ![t] = [f[t] EXCEPT ![k] = n]]
  BY DEF PerKid
<1> HIDE DEF n
<1>3. g \in PerKid /\ g[t][k] = n
  BY <1>1, <1>2 DEF PerKid
<1>4. \A u \in Teams : \A j \in Kids : u # t \/ j # k => g[u][j] = f[u][j]
  BY <1>2 DEF PerKid
<1> QED
  BY <1>3, <1>4 DEF n

\* The coordinator's memory after a poll, however it ended.
LEMMA GivesUpClears ==
  ASSUME GivesUp
  PROVE  /\ apc' = "idle" /\ todo' = {} /\ atWork' = NoAction /\ beganAt' = 0
         /\ fetched' \in [validity : Nat, uid : Nat] /\ acts' \in [Keys -> Latched]
         /\ aims' \in [Teams -> Nat] /\ signal' \in [Teams -> Measured \cup {"unmeasured"}]
         /\ \A t \in Teams : aims'[t] = 0 /\ signal'[t] = "ok"
BY DEF GivesUp, NoCursor, Blank, Latched, Measured

LEMMA RunOfSet ==
  ASSUME NEW f \in Runs, NEW t \in Teams, NEW s \in {"none", "active", "succeeded", "over"}
  PROVE  [f EXCEPT ![t].state = s] \in Runs
<1>1. f[t] \in [kid : Nat, state : {"none", "active", "succeeded", "over"}]
  BY DEF Runs
<1>2. [f[t] EXCEPT !.state = s] \in [kid : Nat, state : {"none", "active", "succeeded", "over"}]
  BY <1>1
<1> QED
  BY <1>2 DEF Runs

LEMMA AlertsInvStep ==
  ASSUME AlertsInv, [AlertsNext]_alertVars
  PROVE  AlertsInv'
<1> USE DEF AlertsInv, world, inbox, settings3, memory3, alertCounts
<1>1. CASE MailArrives
  <2>1. AlertsTyped'
    BY <1>1 DEF MailArrives, Coordinator, AlertsTyped
  <2>2. MailsAreFollowed'
    BY <1>1 DEF MailArrives, Coordinator, MailsAreFollowed, NoAlertIsSkipped, AlertsTyped
  <2>3. AimsAreChildren'
    BY <1>1 DEF MailArrives, Coordinator, AimsAreChildren, AlertsTyped, AtApply, Working
  <2>4. NothingAhead'
    BY <1>1 DEF MailArrives, Coordinator, NothingAhead, AlertsTyped, AimsAreChildren, AtApply
  <2>5. HandedOverOnce'
    BY <1>1 DEF MailArrives, Coordinator, HandedOverOnce, AlertsTyped, AimsAreChildren, AtApply,
       Working, NothingAhead, Keys
  <2>6. RefreshesAreOwed'
    BY <1>1 DEF MailArrives, Coordinator, RefreshesAreOwed, OneRefreshPerOutage, Owed, Due,
       AlertsTyped, AimsAreChildren, AtApply, Working, NothingAhead, Keys, PerKid
  <2> QED
    BY <2>1, <2>2, <2>3, <2>4, <2>5, <2>6
<1>2. CASE MailboxReset
  <2>1. AlertsTyped'
    BY <1>2 DEF MailboxReset, Coordinator, AlertsTyped
  <2>2. MailsAreFollowed'
    BY <1>2 DEF MailboxReset, Coordinator, MailsAreFollowed, NoAlertIsSkipped, AlertsTyped
  <2>3. AimsAreChildren'
    BY <1>2 DEF MailboxReset, Coordinator, AimsAreChildren, AlertsTyped, AtApply, Working
  <2>4. NothingAhead'
    BY <1>2 DEF MailboxReset, Coordinator, NothingAhead, AlertsTyped, AimsAreChildren, AtApply
  <2>5. HandedOverOnce'
    BY <1>2 DEF MailboxReset, Coordinator, HandedOverOnce, AlertsTyped, AimsAreChildren, AtApply,
       Working, NothingAhead, Keys
  <2>6. RefreshesAreOwed'
    BY <1>2 DEF MailboxReset, Coordinator, RefreshesAreOwed, OneRefreshPerOutage, Owed, Due,
       AlertsTyped, AimsAreChildren, AtApply, Working, NothingAhead, Keys, PerKid
  <2> QED
    BY <2>1, <2>2, <2>3, <2>4, <2>5, <2>6
<1>3. ASSUME NEW t \in Teams, HealthChanges(t)
      PROVE  AlertsInv'
  <2>1. PICK h \in Measured :
          /\ h # health[t][kid[t]] /\ (h = "high" => kid[t] < MaxKids)
          /\ health' = [health EXCEPT ![t][kid[t]] = h]
          /\ outages' = IF h = "unauthorized" THEN [outages EXCEPT ![t][kid[t]] = @ + 1] ELSE outages
    BY <1>3 DEF HealthChanges, Measured
  <2>2. UNCHANGED <<world, inbox, settings3, apc, memory3, actedUpTo, handoffs, refreshes, unrecorded, changedSince>>
    BY <1>3 DEF HealthChanges, Coordinator
  <2>3. kid[t] \in Kids
    BY DEF AlertsTyped
  <2>4. /\ health' \in [Teams -> [Kids -> Measured]] /\ health'[t][kid[t]] = h
        /\ \A u \in Teams : \A j \in Kids : u # t \/ j # kid[t] => health'[u][j] = health[u][j]
    BY <2>1, <2>3 DEF AlertsTyped
  <2>5. /\ outages' \in PerKid
        /\ \A u \in Teams : \A j \in Kids : outages'[u][j] >= outages[u][j] /\ outages'[u][j] \in Nat
        /\ h = "unauthorized" => outages'[t][kid[t]] = outages[t][kid[t]] + 1
    <3>1. outages \in PerKid
      BY DEF AlertsTyped
    <3>2. CASE h = "unauthorized"
      BY <2>1, <2>3, <3>1, <3>2, OneMore DEF PerKid
    <3>3. CASE h # "unauthorized"
      BY <2>1, <3>1, <3>3 DEF PerKid
    <3> QED
      BY <3>2, <3>3
  <2>6. AlertsTyped' /\ MailsAreFollowed'
    BY <2>2, <2>4, <2>5 DEF AlertsTyped, MailsAreFollowed, NoAlertIsSkipped
  <2>7. AimsAreChildren'
    BY <2>1, <2>2, <2>4 DEF AimsAreChildren, AtApply, Working
  <2>8. NothingAhead'
    <3> SUFFICES ASSUME NEW u \in Teams, NEW k \in Kids
                 PROVE  /\ k > kid[u] => handoffs[u][k] = 0 /\ refreshes[u][k] = 0 /\ health'[u][k] = "ok"
                        /\ aims[u] # 0 /\ k > aims[u] => handoffs[u][k] = 0 /\ refreshes[u][k] = 0
                        /\ health'[u][k] = "unauthorized" => outages'[u][k] >= 1
      BY <2>2 DEF NothingAhead
    <3>4. outages[u][k] \in Nat
      BY DEF AlertsTyped, PerKid
    <3>1. outages[u][k] \in Nat /\ kid[t] \in Nat /\ k \in Nat
      BY <2>3, <3>4 DEF Kids
    <3>2. CASE u = t /\ k = kid[t]
      BY <2>4, <2>5, <3>1, <3>2 DEF NothingAhead
    <3>3. CASE u # t \/ k # kid[t]
      BY <2>4, <2>5, <3>1, <3>3 DEF NothingAhead
    <3> QED
      BY <3>2, <3>3
  <2>9. HandedOverOnce'
    BY <2>2 DEF HandedOverOnce, Working
  <2>10. RefreshesAreOwed'
    <3>1. \A u \in Teams : \A j \in Kids : Owed(u, j) => Owed(u, j)'
      BY <2>2, <2>5 DEF Owed, AlertsTyped, PerKid
    <3>2. h = "unauthorized" => Owed(t, kid[t])'
      BY <2>2, <2>3, <2>5 DEF Owed, RefreshesAreOwed, OneRefreshPerOutage, AlertsTyped, PerKid
    <3>3. OneRefreshPerOutage'
      BY <2>2, <2>5 DEF OneRefreshPerOutage, RefreshesAreOwed, AlertsTyped, PerKid
    <3>4. \A u \in Teams : kid[u] \in Kids /\ kid'[u] = kid[u]
      BY <2>2 DEF AlertsTyped
    <3>5. \A u \in Teams : health'[u][kid[u]] = "unauthorized" => Owed(u, kid[u])' \/ health[u][kid[u]] = "unauthorized"
      BY <2>4, <3>2, <3>4
    <3> HIDE DEF AlertsInv
    <3> QED
      BY <2>2, <3>1, <3>3, <3>4, <3>5, AlertsInv DEF AlertsInv, RefreshesAreOwed, Due, Working
  <2> QED
    BY <2>6, <2>7, <2>8, <2>9, <2>10
<1>4. ASSUME NEW t \in Teams, UserHandoff(t)
      PROVE  AlertsInv'
  <2>1. AlertsTyped'
    <3>1. runOf' \in Runs
      BY <1>4 DEF UserHandoff, AlertsTyped, Kids, Runs
    <3> QED
      BY <1>4, <3>1 DEF UserHandoff, Coordinator, AlertsTyped
  <2>2. MailsAreFollowed'
    BY <1>4 DEF UserHandoff, Coordinator, MailsAreFollowed, NoAlertIsSkipped, AlertsTyped
  <2>3. AimsAreChildren'
    BY <1>4 DEF UserHandoff, Coordinator, AimsAreChildren, AlertsTyped, AtApply, Working
  <2>4. NothingAhead'
    BY <1>4 DEF UserHandoff, Coordinator, NothingAhead, AlertsTyped, AimsAreChildren, AtApply
  <2>5. HandedOverOnce'
    BY <1>4 DEF UserHandoff, Coordinator, HandedOverOnce, AlertsTyped, AimsAreChildren, AtApply,
       Working, NothingAhead, Keys
  <2>6. RefreshesAreOwed'
    BY <1>4 DEF UserHandoff, Coordinator, RefreshesAreOwed, OneRefreshPerOutage, Owed, Due,
       AlertsTyped, AimsAreChildren, AtApply, Working, NothingAhead, Keys, PerKid
  <2> QED
    BY <2>1, <2>2, <2>3, <2>4, <2>5, <2>6
<1>5. ASSUME NEW t \in Teams, RunEnds(t)
      PROVE  AlertsInv'
  <2>8. /\ kid[t] \in Kids /\ kid[t] < MaxKids /\ UNCHANGED <<health, inbox, settings3, apc, memory3, actedUpTo, alertCounts>>
        /\ changedSince' = changedSince \cup {t}
        /\ \/ kid' = [kid EXCEPT ![t] = @ + 1] /\ runOf' = [runOf EXCEPT ![t].state = "succeeded"]
           \/ kid' = kid /\ runOf' = [runOf EXCEPT ![t].state = "over"]
    BY <1>5 DEF RunEnds, Coordinator, AlertsTyped, AimsAreChildren
  <2>9. /\ kid' \in [Teams -> Kids] /\ \A u \in Teams : kid'[u] >= kid[u] /\ (kid'[u] = kid[u] \/ kid'[u] = kid[u] + 1)
        /\ \A u \in Teams : kid[u] \in Nat /\ kid'[u] \in Nat /\ aims[u] \in Nat /\ kid'[u] \in Kids
    <3> DEFINE n == kid[t] + 1
    <3>1. n \in Kids /\ n \in Nat /\ n > kid[t] /\ \A j \in Kids : j \in Nat
      BY <2>8, AlertsAssumption DEF Kids
    <3>2. kid' = [kid EXCEPT ![t] = n] \/ kid' = kid
      BY <2>8
    <3> HIDE DEF n
    <3>3. kid' \in [Teams -> Kids] /\ \A u \in Teams : kid'[u] = kid[u] \/ (u = t /\ kid'[u] = n)
      BY <3>1, <3>2 DEF AlertsTyped
    <3>4. \A u \in Teams : kid[u] \in Kids /\ kid'[u] \in Kids /\ aims[u] \in Nat
      BY <3>3 DEF AlertsTyped
    <3>5. \A u \in Teams : kid'[u] >= kid[u] /\ (kid'[u] = kid[u] \/ kid'[u] = kid[u] + 1)
      BY <3>1, <3>3, <3>4 DEF n
    <3> QED
      BY <3>1, <3>3, <3>4, <3>5
  <2>10. runOf' \in Runs /\ \A u \in Teams : u # t => runOf'[u] = runOf[u]
    <3>1. runOf \in Runs
      BY DEF AlertsTyped
    <3>2. [runOf EXCEPT ![t].state = "succeeded"] \in Runs /\ [runOf EXCEPT ![t].state = "over"] \in Runs
      BY <3>1, RunOfSet
    <3> QED
      BY <2>8, <3>1, <3>2 DEF Runs
  <2>11. runOf'[t].state # "active"
    <3>1. runOf \in Runs
      BY DEF AlertsTyped
    <3> QED
      BY <2>8, <3>1 DEF Runs
  <2>1. AlertsTyped'
    BY <1>5, <2>8, <2>9, <2>10 DEF RunEnds, AlertsTyped
  <2>2. MailsAreFollowed'
    BY <1>5, <2>8, <2>9, <2>10 DEF RunEnds, Coordinator, MailsAreFollowed, NoAlertIsSkipped,
       AlertsTyped
  <2>3. AimsAreChildren'
    <3>1. /\ nextKid \ {t} \subseteq nextKid'
          /\ \A u \in Teams : u # t => kid'[u] = kid[u]
      BY <1>5 DEF RunEnds, AlertsTyped
    <3> QED
      BY <2>8, <2>9, <2>10, <2>11, <3>1 DEF AimsAreChildren, AtApply, Working
  <2>4. NothingAhead'
    BY <2>8, <2>9 DEF NothingAhead, Kids
  <2>5. HandedOverOnce'
    BY <1>5, <2>8, <2>9, <2>10 DEF RunEnds, Coordinator, HandedOverOnce, AlertsTyped,
       AimsAreChildren, AtApply, Working, NothingAhead, Keys
  <2>6. RefreshesAreOwed'
    <3>1. OneRefreshPerOutage'
      BY <2>8 DEF OneRefreshPerOutage, RefreshesAreOwed
    <3>2. \A u \in Teams : \A j \in Kids : Owed(u, j)' <=> Owed(u, j)
      BY <2>8 DEF Owed
    <3>3. \A u \in Teams : kid'[u] # kid[u] => /\ health[u][kid'[u]] = "ok" /\ aims[u] # kid'[u]
                                              /\ <<"refresh", u, kid'[u]>> \notin todo
      BY <2>9 DEF NothingAhead, AimsAreChildren
    <3> HIDE DEF AlertsInv
    <3> QED
      BY <2>8, <2>9, <3>1, <3>2, <3>3, AlertsInv DEF AlertsInv, RefreshesAreOwed, Due, Working
  <2> QED
    BY <2>1, <2>2, <2>3, <2>4, <2>5, <2>6
<1>6. CASE FetchMail
  <2>1. AlertsTyped'
    BY <1>6 DEF FetchMail, Outside, NewMails, AlertsTyped
  <2>2. MailsAreFollowed'
    BY <1>6 DEF FetchMail, Outside, NewMails, MailsAreFollowed, NoAlertIsSkipped, AlertsTyped
  <2>3. AimsAreChildren'
    BY <1>6 DEF FetchMail, Outside, NewMails, AimsAreChildren, AlertsTyped, AtApply, Working
  <2>4. NothingAhead'
    BY <1>6 DEF FetchMail, Outside, NewMails, NothingAhead, AlertsTyped, AimsAreChildren, AtApply
  <2>5. HandedOverOnce'
    BY <1>6 DEF FetchMail, Outside, NewMails, HandedOverOnce, AlertsTyped, AimsAreChildren, AtApply,
       Working, NothingAhead, Keys
  <2>6. RefreshesAreOwed'
    BY <1>6 DEF FetchMail, Outside, NewMails, RefreshesAreOwed, OneRefreshPerOutage, Owed, Due,
       AlertsTyped, AimsAreChildren, AtApply, Working, NothingAhead, Keys, PerKid
  <2> QED
    BY <2>1, <2>2, <2>3, <2>4, <2>5, <2>6
<1>7. CASE ReadTargets
  <2>1. AlertsTyped'
    <3>1. aims' \in [Teams -> Nat] /\ signal' \in [Teams -> Measured \cup {"unmeasured"}]
      BY <1>7 DEF ReadTargets, AlertsTyped, Kids
    <3> QED
      BY <1>7, <3>1 DEF ReadTargets, Outside, AlertsTyped
  <2>2. MailsAreFollowed'
    BY <1>7 DEF ReadTargets, Outside, MailsAreFollowed, NoAlertIsSkipped, AlertsTyped
  <2>3. AimsAreChildren'
    BY <1>7 DEF ReadTargets, AimsAreChildren, AlertsTyped, AtApply, Working, Kids
  <2>4. NothingAhead'
    BY <1>7 DEF ReadTargets, Outside, NothingAhead, AlertsTyped, AimsAreChildren, AtApply
  <2>5. HandedOverOnce'
    BY <1>7 DEF ReadTargets, Outside, HandedOverOnce, AlertsTyped, AimsAreChildren, AtApply,
       Working, NothingAhead, Keys
  <2>6. RefreshesAreOwed'
    BY <1>7 DEF ReadTargets, Outside, RefreshesAreOwed, OneRefreshPerOutage, Owed, Due, AlertsTyped,
       AimsAreChildren, AtApply, Working, NothingAhead, Keys, PerKid
  <2> QED
    BY <2>1, <2>2, <2>3, <2>4, <2>5, <2>6
<1>8. CASE MeasureTarget
  <2>8. PICK i \in 1..Cardinality(Teams) :
          /\ signal[TeamOrder[i]] = "unmeasured" /\ apc = "measure"
          /\ \A j \in 1..(i - 1) : signal[TeamOrder[j]] # "unmeasured"
          /\ signal' = [signal EXCEPT ![TeamOrder[i]] = health[TeamOrder[i]][aims[TeamOrder[i]]]]
          /\ apc' = IF i = Cardinality(Teams) THEN "apply" ELSE "measure"
    BY <1>8 DEF MeasureTarget, Outside
  <2> DEFINE t == TeamOrder[i]
  <2>9. t \in Teams /\ aims[t] \in Kids /\ aims[t] < MaxKids + 1
    <3>1. t \in Teams /\ aims[t] \in Nat /\ aims[t] # 0 /\ aims[t] <= kid[t] /\ kid[t] \in Kids
      BY <2>8, AlertsAssumption DEF AimsAreChildren, AlertsTyped, AtApply
    <3> QED
      BY <3>1, AlertsAssumption DEF Kids
  <2>10. /\ health[t][aims[t]] \in Measured /\ signal' \in [Teams -> Measured \cup {"unmeasured"}]
         /\ signal'[t] = health[t][aims[t]] /\ \A u \in Teams : u # t => signal'[u] = signal[u]
    BY <2>8, <2>9 DEF AlertsTyped
  <2>11. UNCHANGED <<world, health, inbox, changedSince, alertCounts, settings3, fetched, aims, acts, todo, atWork, beganAt, actedUpTo>>
    BY <1>8 DEF MeasureTarget, Outside
  <2>1. AlertsTyped'
    BY <2>8, <2>9, <2>10, <2>11 DEF AlertsTyped
  <2>2. MailsAreFollowed'
    BY <2>8, <2>9, <2>10, <2>11 DEF MailsAreFollowed, NoAlertIsSkipped, AlertsTyped
  <2>3. AimsAreChildren'
    <3>1. apc' = "apply" => \A u \in Teams : signal'[u] # "unmeasured"
      <4> SUFFICES ASSUME apc' = "apply", NEW u \in Teams
                   PROVE  signal'[u] # "unmeasured"
        OBVIOUS
      <4>1. PICK j \in 1..Cardinality(Teams) : TeamOrder[j] = u
        BY AlertsAssumption
      <4>2. i = Cardinality(Teams)
        BY <2>8
      <4>3. CASE j = i
        BY <4>1, <4>3, <2>10 DEF Measured
      <4>4. CASE j # i
        <5>1. j \in 1..(i - 1)
          BY <4>1, <4>2, <4>4
        <5> QED
          BY <4>1, <5>1, <2>8, <2>10 DEF Measured
      <4> QED
        BY <4>3, <4>4
    <3>2. \A u \in Teams : signal'[u] = "high" => aims[u] < MaxKids
      BY <2>9, <2>10 DEF AimsAreChildren
    <3>3. apc' \in {"apply", "measure"}
      BY <2>8
    <3> HIDE DEF t
    <3> QED
      BY <2>8, <2>11, <3>1, <3>2, <3>3 DEF AimsAreChildren, AtApply, Working
  <2>4. NothingAhead'
    BY <2>8, <2>9, <2>10, <2>11 DEF NothingAhead, AlertsTyped, AimsAreChildren, AtApply
  <2>5. HandedOverOnce'
    BY <2>8, <2>9, <2>10, <2>11 DEF HandedOverOnce, AlertsTyped, AimsAreChildren, AtApply, Working,
       NothingAhead, Keys
  <2>6. RefreshesAreOwed'
    BY <2>8, <2>9, <2>10, <2>11 DEF RefreshesAreOwed, OneRefreshPerOutage, Owed, Due, AlertsTyped,
       AimsAreChildren, AtApply, Working, NothingAhead, Keys, PerKid
  <2> QED
    BY <2>1, <2>2, <2>3, <2>4, <2>5, <2>6
<1>9. CASE ApplySignals
  <2> DEFINE current == [k \in Keys |-> IF k[3] = aims[k[2]] THEN latch[k] ELSE "none"]
             recovered == {k \in Keys : k[1] = "refresh" /\ signal[k[2]] # "unauthorized" /\ current[k] # "none"}
  <2>8. /\ apc = "apply" /\ apc' = "next"
        /\ acts' = [k \in Keys |-> IF k \in recovered THEN "none" ELSE current[k]]
        /\ latch' = IF recovered = {} THEN latch ELSE acts'
        /\ todo' = Actions("refresh", "unauthorized") \cup Actions("handoff", "high")
        /\ UNCHANGED <<world, health, inbox, changedSince, alertCounts, cursor, fetched, aims, signal, atWork, beganAt, actedUpTo>>
    BY <1>9 DEF ApplySignals, Outside, Actions
  <2>9. \A u \in Teams : aims[u] \in Kids /\ aims[u] <= kid[u] /\ (signal[u] = "high" => aims[u] < MaxKids)
    <3>1. \A u \in Teams : aims[u] \in Nat /\ aims[u] # 0 /\ aims[u] <= kid[u] /\ kid[u] \in Kids
      BY <2>8 DEF AimsAreChildren, AlertsTyped, AtApply
    <3>2. \A u \in Teams : aims[u] \in Kids
      BY <3>1, AlertsAssumption DEF Kids
    <3> QED
      BY <3>1, <3>2 DEF AimsAreChildren
  <2>10. \A key \in todo' : /\ key \in Keys /\ key[3] = aims[key[2]]
                            /\ key[1] = "handoff" => key[3] < MaxKids
                            /\ key[1] = "refresh" => signal[key[2]] = "unauthorized"
    BY <2>8, <2>9 DEF Actions, Keys
  <2>11. acts' \in [Keys -> Latched] /\ latch' \in [Keys -> Latched]
    BY <2>8 DEF AlertsTyped, Latched
  <2>12. \A k \in Keys : /\ k[1] = "handoff" /\ k[3] = aims[k[2]] => acts'[k] = latch[k] /\ latch'[k] = latch[k]
                         /\ k[1] = "refresh" /\ k[3] = aims[k[2]] /\ signal[k[2]] = "unauthorized" =>
                              acts'[k] = latch[k] /\ latch'[k] = latch[k]
                         /\ latch'[k] \in {latch[k], acts'[k]}
    BY <2>8
  <2> HIDE DEF current, recovered
  <2>1. AlertsTyped'
    BY <2>8, <2>10, <2>11 DEF AlertsTyped
  <2>2. MailsAreFollowed'
    BY <2>8, <2>9, <2>10, <2>11, <2>12 DEF MailsAreFollowed, NoAlertIsSkipped, AlertsTyped
  <2>3. AimsAreChildren'
    BY <2>8, <2>10 DEF AimsAreChildren, AtApply, Working
  <2>4. NothingAhead'
    BY <2>8, <2>9, <2>10, <2>11, <2>12 DEF NothingAhead, AlertsTyped, AimsAreChildren, AtApply
  <2>5. HandedOverOnce'
    <3> SUFFICES ASSUME NEW t \in Teams, NEW k \in Kids, handoffs[t][k] # 0, kid[t] = k
                 PROVE  /\ t \in nextKid /\ latch'[<<"handoff", t, k>>] # "none"
                        /\ acts'[<<"handoff", t, k>>] # "none"
      BY <2>8 DEF HandedOverOnce, Working
    <3>1. aims[t] = k
      BY <2>9 DEF NothingAhead, Kids
    <3>2. <<"handoff", t, k>> \in Keys
      BY DEF Keys
    <3> QED
      BY <2>12, <3>1, <3>2 DEF HandedOverOnce
  <2>6. RefreshesAreOwed'
    <3>1. OneRefreshPerOutage' /\ \A t \in Teams : \A k \in Kids : Owed(t, k)' <=> Owed(t, k)
      BY <2>8 DEF OneRefreshPerOutage, RefreshesAreOwed, Owed
    <3> SUFFICES ASSUME NEW t \in Teams, NEW k \in Kids, k = kid[t],
                        \/ health[t][k] = "unauthorized" /\ (Due(t, k, latch)' \/ Due(t, k, acts)')
                        \/ <<"refresh", t, k>> \in todo' /\ Due(t, k, acts)'
                 PROVE  Owed(t, k)
      BY <2>8, <3>1 DEF RefreshesAreOwed, Working, AlertsTyped
    <3>2. <<"refresh", t, k>> \in Keys
      BY DEF Keys
    <3>3. CASE aims[t] # k
      <4>1. refreshes[t][k] = 0 /\ k \in Nat /\ aims[t] # 0 /\ k > aims[t]
        BY <2>9, <3>3 DEF NothingAhead, Kids
      <4>2. <<"refresh", t, k>> \notin todo'
        BY <2>10, <3>3
      <4>3. outages[t][k] >= 1
        BY <4>2 DEF NothingAhead
      <4> QED
        BY <4>1, <4>3 DEF Owed, AlertsTyped, PerKid
    <3>4. CASE aims[t] = k
      <4>1. CASE signal[t] = "unauthorized"
        BY <2>8, <2>12, <3>2, <3>4, <4>1 DEF RefreshesAreOwed, Due
      <4>2. CASE signal[t] # "unauthorized"
        <5>1. <<"refresh", t, k>> \notin todo'
          BY <2>10, <4>2
        <5>2. signal[t] \in {"ok", "high"}
          BY <2>8, <4>2 DEF AimsAreChildren, AlertsTyped, Measured
        <5> QED
          BY <2>8, <3>4, <5>1, <5>2 DEF RefreshesAreOwed
      <4> QED
        BY <4>1, <4>2
    <3> QED
      BY <3>3, <3>4
  <2> QED
    BY <2>1, <2>2, <2>3, <2>4, <2>5, <2>6
<1>10. CASE NextAction
  <2>8. PICK key \in todo :
          /\ apc = "next"
          /\ \/ acts[key] = "triggered" /\ todo' = todo \ {key} /\ UNCHANGED <<acts, latch, apc, atWork>>
             \/ /\ acts[key] # "triggered" /\ AlreadyStarted(key) /\ todo' = todo \ {key} /\ UNCHANGED <<apc, atWork>>
                /\ acts' = [acts EXCEPT ![key] = "triggered"] /\ latch' = acts'
             \/ /\ acts[key] # "triggered" /\ ~AlreadyStarted(key) /\ apc' = "call" /\ atWork' = key /\ UNCHANGED todo
                /\ acts' = [acts EXCEPT ![key] = "pending"] /\ latch' = acts'
    BY <1>10 DEF NextAction, SaveAct
  <2>9. UNCHANGED <<world, health, inbox, changedSince, alertCounts, cursor, fetched, aims, signal, beganAt, actedUpTo>>
    BY <1>10 DEF NextAction, Outside
  <2>10. key \in Keys /\ acts' \in [Keys -> Latched] /\ latch' \in [Keys -> Latched]
    <3>1. key \in Keys /\ acts \in [Keys -> Latched] /\ latch \in [Keys -> Latched]
      BY DEF AlertsTyped
    <3>2. /\ [acts EXCEPT ![key] = "triggered"] \in [Keys -> Latched]
          /\ [acts EXCEPT ![key] = "pending"] \in [Keys -> Latched]
      BY <3>1 DEF Latched
    <3> QED
      BY <2>8, <3>1, <3>2
  <2>1. AlertsTyped'
    BY <2>8, <2>9, <2>10 DEF AlertsTyped
  <2>2. MailsAreFollowed'
    BY <2>8, <2>9, <2>10 DEF MailsAreFollowed, NoAlertIsSkipped, AlertsTyped
  <2>3. AimsAreChildren'
    BY <2>8, <2>9, <2>10 DEF AimsAreChildren, AlertsTyped, AtApply, Working
  <2>4. NothingAhead'
    BY <2>8, <2>9, <2>10 DEF NothingAhead, AlertsTyped, AimsAreChildren, AtApply
  <2>5. HandedOverOnce'
    <3> SUFFICES ASSUME NEW t \in Teams, NEW k \in Kids, handoffs[t][k] # 0, kid[t] = k
                 PROVE  /\ t \in nextKid /\ latch'[<<"handoff", t, k>>] # "none"
                        /\ acts'[<<"handoff", t, k>>] # "none"
                        /\ apc' = "call" => atWork' # <<"handoff", t, k>>
      BY <2>8, <2>9 DEF HandedOverOnce, Working
    <3>1. /\ t \in nextKid /\ latch[<<"handoff", t, k>>] # "none" /\ acts[<<"handoff", t, k>>] # "none"
          /\ <<"handoff", t, k>> \in Keys
      BY <2>8 DEF HandedOverOnce, Working, Keys
    <3>2. key = <<"handoff", t, k>> /\ acts[key] # "triggered" => AlreadyStarted(key)
      BY <2>10, <3>1 DEF AlreadyStarted, AlertsTyped, Latched
    <3> QED
      BY <2>8, <2>10, <3>1, <3>2 DEF AlertsTyped
  <2>6. RefreshesAreOwed'
    BY <2>8, <2>9, <2>10 DEF RefreshesAreOwed, OneRefreshPerOutage, Owed, Due, AlertsTyped,
       AimsAreChildren, AtApply, Working, NothingAhead, Keys, PerKid
  <2> QED
    BY <2>1, <2>2, <2>3, <2>4, <2>5, <2>6
<1>11. CASE CallAction
  <2>8. /\ apc = "call" /\ apc' = "mark" /\ atWork \in todo /\ atWork \in Keys /\ atWork[3] = aims[atWork[2]] /\ atWork[2] \in Teams /\ atWork[3] \in Kids
        /\ atWork = <<atWork[1], atWork[2], atWork[3]>> /\ acts[atWork] = "pending" /\ latch = acts /\ kid[atWork[2]] \in Kids
        /\ UNCHANGED <<kid, health, inbox, settings3, memory3, actedUpTo, outages, unrecorded>>
    BY <1>11 DEF CallAction, VersionAccepted, AimsAreChildren, AlertsTyped, Keys
  <2>9. CASE /\ atWork[1] = "handoff" /\ atWork[2] \notin changedSince
             /\ nextKid' = nextKid \cup {atWork[2]} /\ changedSince' = changedSince \cup {atWork[2]}
             /\ runOf' = [runOf EXCEPT ![atWork[2]] = [kid |-> kid[atWork[2]], state |-> "active"]]
             /\ handoffs' = [handoffs EXCEPT ![atWork[2]][atWork[3]] = @ + 1] /\ UNCHANGED refreshes
    <3>11. PICK t \in Teams, k \in Kids : t = atWork[2] /\ k = atWork[3]
      BY <2>8
    <3>1. kid[t] = k /\ k < MaxKids /\ aims[t] = k /\ handoffs[t][k] = 0
      BY <2>8, <2>9, <3>11 DEF AimsAreChildren, AtApply, HandedOverOnce
    <3>2. /\ handoffs' \in PerKid /\ handoffs'[t][k] = 1
          /\ \A u \in Teams : \A j \in Kids : u # t \/ j # k => handoffs'[u][j] = handoffs[u][j]
      <4>1. handoffs' = [handoffs EXCEPT ![t][k] = @ + 1] /\ handoffs \in PerKid
        BY <2>9, <3>11 DEF AlertsTyped
      <4>2. /\ handoffs' \in PerKid /\ handoffs'[t][k] = handoffs[t][k] + 1
            /\ \A u \in Teams : \A j \in Kids : u # t \/ j # k => handoffs'[u][j] = handoffs[u][j]
        BY <4>1, OneMore DEF PerKid
      <4> QED
        BY <3>1, <4>2
    <3>3. /\ runOf' \in Runs
          /\ runOf'[t] = [kid |-> k, state |-> "active"] /\ \A u \in Teams : u # t => runOf'[u] = runOf[u]
      BY <2>8, <2>9, <3>1, <3>11 DEF AlertsTyped, Kids, Runs
    <3>4. atWork = <<"handoff", t, k>> /\ k \in Nat
      BY <2>8, <2>9, <3>11 DEF Kids
    <3>5. /\ UNCHANGED <<kid, health, inbox, settings3, memory3, actedUpTo, outages, unrecorded, refreshes>>
          /\ nextKid' = nextKid \cup {t} /\ changedSince' = changedSince \cup {t}
          /\ apc = "call" /\ apc' = "mark" /\ acts[atWork] = "pending" /\ latch = acts
      BY <2>8, <2>9, <3>11
    <3>6. AlertsTyped' /\ MailsAreFollowed'
      BY <3>2, <3>3, <3>4, <3>5 DEF AlertsTyped, MailsAreFollowed, NoAlertIsSkipped
    <3>7. AimsAreChildren'
      BY <3>1, <3>3, <3>4, <3>5 DEF AimsAreChildren, AtApply, Working
    <3>8. NothingAhead'
      <4> SUFFICES ASSUME NEW u \in Teams, NEW j \in Kids
                   PROVE  /\ j > kid[u] => handoffs'[u][j] = 0 /\ refreshes[u][j] = 0 /\ health[u][j] = "ok"
                          /\ aims[u] # 0 /\ j > aims[u] => handoffs'[u][j] = 0 /\ refreshes[u][j] = 0
                          /\ health[u][j] = "unauthorized" => outages[u][j] >= 1
        BY <3>5 DEF NothingAhead
      <4>1. CASE u = t /\ j = k
        BY <3>1, <3>4, <4>1 DEF NothingAhead
      <4>2. CASE u # t \/ j # k
        BY <3>2, <4>2 DEF NothingAhead
      <4> QED
        BY <4>1, <4>2
    <3>9. HandedOverOnce'
      <4> SUFFICES ASSUME NEW u \in Teams, NEW j \in Kids, handoffs'[u][j] # 0
                   PROVE  /\ handoffs'[u][j] = 1
                          /\ kid[u] = j => /\ u \in nextKid' /\ latch[<<"handoff", u, j>>] # "none"
                                            /\ acts[<<"handoff", u, j>>] # "none"
        BY <3>5 DEF HandedOverOnce, Working
      <4>1. CASE u = t /\ j = k
        BY <3>2, <3>4, <3>5, <4>1
      <4>2. CASE u # t \/ j # k
        BY <3>2, <3>5, <4>2 DEF HandedOverOnce, Working
      <4> QED
        BY <4>1, <4>2
    <3>10. RefreshesAreOwed'
      BY <3>4, <3>5 DEF RefreshesAreOwed, OneRefreshPerOutage, Owed, Due, Working
    <3> QED
      BY <3>6, <3>7, <3>8, <3>9, <3>10
  <2>10. CASE /\ atWork[1] = "refresh" /\ kid[atWork[2]] = atWork[3]
              /\ refreshes' = [refreshes EXCEPT ![atWork[2]][atWork[3]] = @ + 1]
              /\ UNCHANGED <<nextKid, runOf, changedSince, handoffs>>
    <3>11. PICK t \in Teams, k \in Kids : t = atWork[2] /\ k = atWork[3]
      BY <2>8
    <3>1. atWork = <<"refresh", t, k>> /\ k \in Nat /\ kid[t] = k /\ aims[t] = k
      BY <2>8, <2>10, <3>11 DEF Kids
    <3>2. /\ refreshes' \in PerKid /\ refreshes'[t][k] = refreshes[t][k] + 1
          /\ \A u \in Teams : \A j \in Kids : u # t \/ j # k => refreshes'[u][j] = refreshes[u][j]
      <4>1. refreshes' = [refreshes EXCEPT ![t][k] = @ + 1] /\ refreshes \in PerKid
        BY <2>10, <3>11 DEF AlertsTyped
      <4> QED
        BY <4>1, OneMore DEF PerKid
    <3>3. /\ UNCHANGED <<kid, health, inbox, settings3, memory3, actedUpTo, outages, unrecorded, nextKid, runOf, changedSince, handoffs>>
          /\ apc = "call" /\ apc' = "mark" /\ acts[atWork] = "pending" /\ latch = acts /\ atWork \in todo
      BY <2>8, <2>10
    <3>4. Owed(t, k)
      BY <3>1, <3>3 DEF RefreshesAreOwed, Due, Working
    <3>5. AlertsTyped' /\ MailsAreFollowed' /\ HandedOverOnce'
      BY <3>2, <3>3 DEF AlertsTyped, MailsAreFollowed, NoAlertIsSkipped, HandedOverOnce, Working
    <3>6. AimsAreChildren'
      BY <3>3 DEF AimsAreChildren, AtApply, Working
    <3>7. NothingAhead'
      <4> SUFFICES ASSUME NEW u \in Teams, NEW j \in Kids
                   PROVE  /\ j > kid[u] => handoffs[u][j] = 0 /\ refreshes'[u][j] = 0 /\ health[u][j] = "ok"
                          /\ aims[u] # 0 /\ j > aims[u] => handoffs[u][j] = 0 /\ refreshes'[u][j] = 0
                          /\ health[u][j] = "unauthorized" => outages[u][j] >= 1
        BY <3>3 DEF NothingAhead
      <4>1. CASE u = t /\ j = k
        BY <3>1, <4>1 DEF NothingAhead
      <4>2. CASE u # t \/ j # k
        BY <3>2, <4>2 DEF NothingAhead
      <4> QED
        BY <4>1, <4>2
    <3>8. OneRefreshPerOutage' /\ \A u \in Teams : \A j \in Kids : u # t \/ j # k => (Owed(u, j) => Owed(u, j)')
      BY <3>2, <3>3, <3>4 DEF OneRefreshPerOutage, Owed, RefreshesAreOwed
    <3>9. \A u \in Teams : kid[u] \in Kids
      BY DEF AlertsTyped
    <3>10. RefreshesAreOwed'
      <4> SUFFICES ASSUME NEW u \in Teams, kid[u] \in Kids, u # t,
                          \/ health[u][kid[u]] = "unauthorized" /\ Due(u, kid[u], acts)
                          \/ <<"refresh", u, kid[u]>> \in todo /\ Due(u, kid[u], acts)
                   PROVE  Owed(u, kid[u])
        BY <3>1, <3>3, <3>8, <3>9 DEF RefreshesAreOwed, Working, Due
      <4> QED
        BY <3>1, <3>3 DEF RefreshesAreOwed, Working, Due
    <3> QED
      BY <3>5, <3>6, <3>7, <3>10
  <2> QED
    BY <1>11, <2>9, <2>10 DEF CallAction, VersionAccepted
<1>12. CASE CallFails
  <2>8. /\ apc' = "idle" /\ todo' = {} /\ atWork' = NoAction /\ beganAt' = 0
        /\ fetched' \in [validity : Nat, uid : Nat] /\ acts' \in [Keys -> Latched]
        /\ aims' \in [Teams -> Nat] /\ signal' \in [Teams -> Measured \cup {"unmeasured"}]
        /\ \A t \in Teams : aims'[t] = 0 /\ signal'[t] = "ok"
    BY <1>12, GivesUpClears DEF CallFails
  <2>9. /\ latch' = [acts EXCEPT ![atWork] = "none"] /\ atWork \in Keys /\ latch = acts /\ apc = "call" /\ atWork \in todo
        /\ atWork[2] \in Teams /\ atWork[3] = aims[atWork[2]] /\ acts[atWork] = "pending" /\ atWork = <<atWork[1], atWork[2], atWork[3]>>
        /\ UNCHANGED <<kid, runOf, health, inbox, cursor, actedUpTo, alertCounts>>
        /\ nextKid \subseteq nextKid' /\ nextKid' \subseteq Teams /\ changedSince' \subseteq Teams
    BY <1>12 DEF CallFails, AimsAreChildren, AlertsTyped, Keys
  <2>10. latch' \in [Keys -> Latched] /\ \A k \in Keys : k # atWork => latch'[k] = latch[k]
    BY <2>9 DEF AlertsTyped, Latched
  <2>1. AlertsTyped'
    BY <2>8, <2>9, <2>10 DEF AlertsTyped
  <2>2. MailsAreFollowed'
    BY <2>8, <2>9, <2>10 DEF MailsAreFollowed, NoAlertIsSkipped, AlertsTyped
  <2>3. AimsAreChildren'
    BY <2>8, <2>9, SMTT(30) DEF AimsAreChildren, AlertsTyped, AtApply, Working, Kids
  <2>4. NothingAhead'
    BY <2>8, <2>9 DEF NothingAhead
  <2>5. HandedOverOnce'
    BY <2>8, <2>9, <2>10 DEF HandedOverOnce, AlertsTyped, AimsAreChildren, AtApply, Working,
       NothingAhead, Keys
  <2>6. RefreshesAreOwed'
    <3>1. OneRefreshPerOutage' /\ \A u \in Teams : \A j \in Kids : Owed(u, j)' <=> Owed(u, j)
      BY <2>9 DEF OneRefreshPerOutage, RefreshesAreOwed, Owed
    <3> SUFFICES ASSUME NEW u \in Teams, NEW k \in Kids, k = kid[u], health[u][k] = "unauthorized", Due(u, k, latch)'
                 PROVE  Owed(u, k)
      BY <2>8, <2>9, <3>1 DEF RefreshesAreOwed, Working, AlertsTyped
    <3>2. <<"refresh", u, k>> \in Keys
      BY DEF Keys
    <3>3. CASE atWork = <<"refresh", u, k>>
      BY <2>9, <3>3 DEF RefreshesAreOwed, Working, Due
    <3>4. CASE atWork # <<"refresh", u, k>>
      BY <2>9, <2>10, <3>2, <3>4 DEF RefreshesAreOwed, Working, Due
    <3> QED
      BY <3>3, <3>4
  <2> QED
    BY <2>1, <2>2, <2>3, <2>4, <2>5, <2>6
<1>13. CASE MarkTriggered
  <2>1. AlertsTyped'
    <3>1. atWork \in Keys
      BY <1>13 DEF MarkTriggered, AimsAreChildren, AlertsTyped
    <3>2. acts' \in [Keys -> Latched] /\ latch' \in [Keys -> Latched]
      BY <1>13, <3>1 DEF MarkTriggered, SaveAct, AlertsTyped, Latched
    <3> QED
      BY <1>13, <3>2 DEF MarkTriggered, Outside, AlertsTyped
  <2>2. MailsAreFollowed'
    BY <1>13 DEF MarkTriggered, SaveAct, Outside, MailsAreFollowed, NoAlertIsSkipped, AlertsTyped
  <2>3. AimsAreChildren'
    BY <1>13 DEF MarkTriggered, SaveAct, Outside, AimsAreChildren, AlertsTyped, AtApply, Working
  <2>4. NothingAhead'
    BY <1>13 DEF MarkTriggered, SaveAct, Outside, NothingAhead, AlertsTyped, AimsAreChildren,
       AtApply
  <2>5. HandedOverOnce'
    BY <1>13 DEF MarkTriggered, SaveAct, Outside, HandedOverOnce, AlertsTyped, AimsAreChildren,
       AtApply, Working, NothingAhead, Keys
  <2>6. RefreshesAreOwed'
    BY <1>13 DEF MarkTriggered, SaveAct, Outside, RefreshesAreOwed, OneRefreshPerOutage, Owed, Due,
       AlertsTyped, AimsAreChildren, AtApply, Working, NothingAhead, Keys, PerKid
  <2> QED
    BY <2>1, <2>2, <2>3, <2>4, <2>5, <2>6
<1>14. CASE ActionsDone
  <2>1. AlertsTyped'
    BY <1>14 DEF ActionsDone, Outside, AlertsTyped
  <2>2. MailsAreFollowed'
    BY <1>14 DEF ActionsDone, Outside, MailsAreFollowed, NoAlertIsSkipped, AlertsTyped
  <2>3. AimsAreChildren'
    BY <1>14 DEF ActionsDone, Outside, AimsAreChildren, AlertsTyped, AtApply, Working
  <2>4. NothingAhead'
    BY <1>14 DEF ActionsDone, Outside, NothingAhead, AlertsTyped, AimsAreChildren, AtApply
  <2>5. HandedOverOnce'
    BY <1>14 DEF ActionsDone, Outside, HandedOverOnce, AlertsTyped, AimsAreChildren, AtApply,
       Working, NothingAhead, Keys
  <2>6. RefreshesAreOwed'
    BY <1>14 DEF ActionsDone, Outside, RefreshesAreOwed, OneRefreshPerOutage, Owed, Due,
       AlertsTyped, AimsAreChildren, AtApply, Working, NothingAhead, Keys, PerKid
  <2> QED
    BY <2>1, <2>2, <2>3, <2>4, <2>5, <2>6
<1>15. CASE SaveCursor
  <2>8. /\ apc' = "idle" /\ todo' = {} /\ atWork' = NoAction /\ beganAt' = 0
        /\ fetched' \in [validity : Nat, uid : Nat] /\ acts' \in [Keys -> Latched]
        /\ aims' \in [Teams -> Nat] /\ signal' \in [Teams -> Measured \cup {"unmeasured"}]
        /\ \A t \in Teams : aims'[t] = 0 /\ signal'[t] = "ok"
    BY <1>15, GivesUpClears DEF SaveCursor
  <2>1. AlertsTyped'
    BY <1>15, <2>8 DEF SaveCursor, Outside, AlertsTyped
  <2>2. MailsAreFollowed'
    BY <1>15, <2>8 DEF SaveCursor, GivesUp, Outside, MailsAreFollowed, NoAlertIsSkipped, AlertsTyped
  <2>3. AimsAreChildren'
    BY <1>15, <2>8 DEF SaveCursor, Outside, AimsAreChildren, AlertsTyped, AtApply, Working, Kids
  <2>4. NothingAhead'
    BY <1>15, <2>8 DEF SaveCursor, GivesUp, Outside, NothingAhead, AlertsTyped, AimsAreChildren,
       AtApply
  <2>5. HandedOverOnce'
    BY <1>15, <2>8 DEF SaveCursor, GivesUp, Outside, HandedOverOnce, AlertsTyped, AimsAreChildren,
       AtApply, Working, NothingAhead, Keys
  <2>6. RefreshesAreOwed'
    BY <1>15, <2>8 DEF SaveCursor, GivesUp, Outside, RefreshesAreOwed, OneRefreshPerOutage, Owed,
       Due, AlertsTyped, AimsAreChildren, AtApply, Working, NothingAhead, Keys, PerKid
  <2> QED
    BY <2>1, <2>2, <2>3, <2>4, <2>5, <2>6
<1>16. CASE PollFails
  <2>8. /\ apc' = "idle" /\ todo' = {} /\ atWork' = NoAction /\ beganAt' = 0
        /\ fetched' \in [validity : Nat, uid : Nat] /\ acts' \in [Keys -> Latched]
        /\ aims' \in [Teams -> Nat] /\ signal' \in [Teams -> Measured \cup {"unmeasured"}]
        /\ \A t \in Teams : aims'[t] = 0 /\ signal'[t] = "ok"
    BY <1>16, GivesUpClears DEF PollFails
  <2>9. UNCHANGED <<world, health, inbox, changedSince, settings3, actedUpTo, handoffs, refreshes, outages>>
    BY <1>16 DEF PollFails
  <2>10. /\ unrecorded' \in PerKid
         /\ \A u \in Teams : \A j \in Kids : unrecorded'[u][j] >= unrecorded[u][j] /\ unrecorded'[u][j] \in Nat
         /\ \A u \in Teams : \A j \in Kids :
              apc = "mark" /\ atWork = <<"refresh", u, j>> => unrecorded'[u][j] = unrecorded[u][j] + 1
    <3>1. unrecorded \in PerKid /\ (apc = "mark" => atWork \in Keys)
      BY DEF AlertsTyped, AimsAreChildren
    <3>2. CASE apc = "mark" /\ atWork[1] = "refresh"
      <4>1. unrecorded' = [unrecorded EXCEPT ![atWork[2]][atWork[3]] = @ + 1] /\ atWork[2] \in Teams /\ atWork[3] \in Kids
        BY <1>16, <3>1, <3>2 DEF PollFails, Keys
      <4> QED
        BY <3>1, <4>1, OneMore DEF PerKid
    <3>3. CASE ~(apc = "mark" /\ atWork[1] = "refresh")
      BY <1>16, <3>1, <3>3 DEF PollFails, PerKid
    <3> QED
      BY <3>2, <3>3
  <2>1. AlertsTyped'
    BY <2>8, <2>9, <2>10 DEF AlertsTyped
  <2>2. MailsAreFollowed'
    BY <2>8, <2>9, <2>10 DEF MailsAreFollowed, NoAlertIsSkipped, AlertsTyped
  <2>3. AimsAreChildren'
    <3>1. \A u \in Teams : kid[u] \in Nat
      BY DEF AlertsTyped, Kids
    <3>2. UNCHANGED <<kid, nextKid, runOf, health, changedSince>>
      BY <2>9
    <3> QED
      BY <2>8, <3>1, <3>2 DEF AimsAreChildren, AtApply, Working
  <2>4. NothingAhead'
    BY <2>8, <2>9 DEF NothingAhead
  <2>5. HandedOverOnce'
    BY <2>8, <2>9, <2>10 DEF HandedOverOnce, AlertsTyped, AimsAreChildren, AtApply, Working,
       NothingAhead, Keys
  <2>6. RefreshesAreOwed'
    <3>1. \A u \in Teams : \A j \in Kids : Owed(u, j) => Owed(u, j)'
      BY <2>9, <2>10 DEF Owed, AlertsTyped, PerKid
    <3>2. OneRefreshPerOutage'
      BY <2>9, <2>10 DEF OneRefreshPerOutage, RefreshesAreOwed, AlertsTyped, PerKid
    <3> SUFFICES ASSUME NEW u \in Teams, NEW k \in Kids, k = kid[u], health[u][k] = "unauthorized", Due(u, k, latch)
                 PROVE  Owed(u, k)'
      BY <2>8, <2>9, <3>2 DEF RefreshesAreOwed, Working, AlertsTyped, Due
    <3>3. CASE apc = "mark" /\ atWork = <<"refresh", u, k>>
      BY <2>9, <2>10, <3>3 DEF Owed, RefreshesAreOwed, OneRefreshPerOutage, AlertsTyped, PerKid
    <3>4. CASE ~(apc = "mark" /\ atWork = <<"refresh", u, k>>)
      BY <3>1, <3>4 DEF RefreshesAreOwed
    <3> QED
      BY <3>3, <3>4
  <2> QED
    BY <2>1, <2>2, <2>3, <2>4, <2>5, <2>6
<1>17. CASE UNCHANGED alertVars
  BY <1>17 DEF alertVars, AlertsTyped, MailsAreFollowed, NoAlertIsSkipped, AimsAreChildren, AtApply,
     NothingAhead,
     HandedOverOnce, Working, RefreshesAreOwed, OneRefreshPerOutage, Owed, Due
<1> QED
  BY <1>1, <1>2, <1>3, <1>4, <1>5, <1>6, <1>7, <1>8, <1>9, <1>10, <1>11, <1>12, <1>13, <1>14, <1>15,
     <1>16, <1>17 DEF AlertsNext, Poll

LEMMA AlertsInvAlways == AlertsSpec => []AlertsInv
<1>1. AlertsInit => AlertsInv
  BY AlertsInvInit
<1>2. AlertsInv /\ [AlertsNext]_alertVars => AlertsInv'
  BY AlertsInvStep
<1> QED
  BY <1>1, <1>2, PTL DEF AlertsSpec

LEMMA AlertsInvMeans == AlertsInv => AlertsTypeOK /\ AlertsActOnce
<1>1. AlertsInv => OneHandoffPerChild
  <2> SUFFICES ASSUME AlertsInv, NEW t \in Teams, NEW k \in Kids
               PROVE  handoffs[t][k] <= 1
    BY DEF OneHandoffPerChild
  <2>1. handoffs[t][k] # 0 => handoffs[t][k] = 1
    BY DEF AlertsInv, HandedOverOnce
  <2> QED
    BY <2>1
<1>2. AlertsInv => AlertsActOnce
  BY <1>1 DEF AlertsInv, MailsAreFollowed, RefreshesAreOwed, AlertsActOnce
<1>3. AlertsInv => AlertsTypeOK
  BY DEF AlertsInv, AlertsTyped, MailsAreFollowed, AlertsTypeOK, Latched, Measured
<1> QED
  BY <1>2, <1>3

\* The types of the alerts, for any Teams, children, mails, changes and faults.
THEOREM AlertsTypes == AlertsSpec => []AlertsTypeOK
BY AlertsInvMeans, AlertsInvAlways, PTL

\* No alert is skipped and none is acted upon twice, for any number of Teams,
\* children, mails, changes and failures of the coordinator.
THEOREM AlertsOnce == AlertsSpec => []AlertsActOnce
BY AlertsInvMeans, AlertsInvAlways, PTL

HandedOverMeasured ==
  \A t \in Teams : \A k \in Kids : handoffs'[t][k] > handoffs[t][k] => kid[t] = k

LEMMA HandoffStep == AlertsInv /\ [AlertsNext]_alertVars => [HandedOverMeasured]_alertVars
<1> SUFFICES ASSUME AlertsInv, AlertsNext
             PROVE  HandedOverMeasured
  OBVIOUS
<1> USE DEF HandedOverMeasured
<1>1. \A t \in Teams : \A k \in Kids : handoffs[t][k] \in Nat
  BY DEF AlertsInv, AlertsTyped, PerKid
<1>2. CASE CallAction
  <2>1. PICK t \in Teams, k \in Kids : atWork[2] = t /\ atWork[3] = k
    BY <1>2 DEF CallAction, AlertsInv, AlertsTyped, AimsAreChildren, Keys
  <2>2. CASE UNCHANGED handoffs
    BY <1>1, <2>2
  <2>3. CASE atWork[1] = "handoff" /\ VersionAccepted(t) /\ handoffs' = [handoffs EXCEPT ![t][k] = @ + 1]
    <3>1. apc \in AtApply /\ atWork \in todo /\ t \notin changedSince
      BY <1>2, <2>3 DEF CallAction, VersionAccepted, AtApply, AlertsInv, AimsAreChildren
    <3>2. kid[t] = k
      BY <2>1, <3>1 DEF AlertsInv, AimsAreChildren
    <3>3. handoffs \in PerKid
      BY DEF AlertsInv, AlertsTyped
    <3>4. \A u \in Teams : \A j \in Kids : u # t \/ j # k => handoffs'[u][j] = handoffs[u][j]
      BY <2>3, <3>3, OneMore DEF PerKid
    <3> QED
      BY <1>1, <3>2, <3>4
  <2> QED
    BY <1>2, <2>1, <2>2, <2>3 DEF CallAction
<1>3. CASE ~CallAction
  <2>1. UNCHANGED handoffs
    BY <1>3 DEF AlertsNext, Poll, MailArrives, MailboxReset, HealthChanges, UserHandoff, RunEnds,
       Coordinator, alertCounts,
       Outside, FetchMail, ReadTargets, MeasureTarget, ApplySignals, NextAction, CallFails, MarkTriggered, ActionsDone,
       SaveCursor, PollFails
  <2> QED
    BY <1>1, <2>1
<1> QED
  BY <1>2, <1>3

\* A handoff is started only from the child that was measured: the version
\* compare-and-set of the workspace refuses one whose child is not current.
THEOREM MeasuredIsHandedOver == AlertsSpec => MeasuredChildIsHandedOver
BY HandoffStep, AlertsInvAlways, PTL DEF AlertsSpec, MeasuredChildIsHandedOver, HandedOverMeasured
=============================================================================

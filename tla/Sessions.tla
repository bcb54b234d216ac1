------------------------------ MODULE Sessions ------------------------------
(***************************************************************************)
(* The browser sessions stored with child accounts, and the refresh of the *)
(* current child (refresh_current_account of src/team_protocol/            *)
(* task_queue.py, CurrentAccountRefreshRunner and _login of workflow.py,   *)
(* the session column of database.py). A refresh logs in with the stored   *)
(* session or with a mailed code and creates an access token; handoffs use *)
(* and rotate the same sessions, the user may record an account switch     *)
(* made elsewhere, and the server ends sessions when it likes.             *)
(***************************************************************************)
EXTENDS Naturals, FiniteSets

CONSTANTS
  MaxChildren,       \* the children 1, 2, ... of one workspace, in order
  MaxLogins,         \* bounds the mailed-code logins, each a new session
  MaxRevocations,    \* bounds the sessions the server ends or invalidates
  MaxRefreshFaults   \* bounds errors, shutdowns and crashes

ASSUME SessionsAssumption ==
  /\ MaxChildren \in Nat \ {0} /\ MaxLogins \in Nat
  /\ MaxRevocations \in Nat /\ MaxRefreshFaults \in Nat

VARIABLES
  child,             \* the current child; the next one is its successor
  cookie,            \* browser_session_token of each child
  logins,            \* sessions made so far; session s belongs to madeFor[s]
  exchangeable,      \* sessions the server still exchanges for access tokens
  trusted,           \* sessions whose access tokens the token endpoint accepts
  refreshed,         \* the child being refreshed
  rpc,               \* the refresh's place
  savedCookie,       \* the stored session as the refresh read it at its start
  session,           \* the session the refresh is logged in with
  refused,           \* the session whose access token was refused
  codes,             \* mailed-code logins of this refresh
  recent,            \* children with a refresh result of the last 60 seconds
  hpc,               \* the handoff's place
  overtaken,         \* children switched away from while being refreshed
  revocations, refreshFaults

refreshOp == <<refreshed, rpc, savedCookie, session, refused, codes>>
server == <<logins, exchangeable, trusted, revocations>>
sessionVars == <<child, cookie, server, refreshOp, recent, hpc, overtaken, refreshFaults>>

NoSession == 0
RefreshPlaces == {"off", "inputs", "old_login", "code", "pat", "fresh_login", "fresh_pat", "export"}

SessionsTypeOK ==
  /\ child \in 1..MaxChildren /\ cookie \in [1..MaxChildren -> 0..MaxLogins]
  /\ logins \in 0..MaxLogins /\ exchangeable \subseteq 1..logins /\ trusted \subseteq 1..logins
  /\ refreshed \in 0..MaxChildren /\ rpc \in RefreshPlaces /\ (rpc = "off" <=> refreshed = 0)
  /\ savedCookie \in 0..logins /\ session \in 0..logins /\ refused \in 0..logins
  /\ codes \in Nat /\ recent \subseteq 1..MaxChildren
  /\ hpc \in {"off", "old_login", "new_login", "complete"}
  /\ overtaken \subseteq 1..MaxChildren

SessionsInit ==
  /\ child = 1 /\ cookie = [c \in 1..MaxChildren |-> NoSession]
  /\ logins = 0 /\ exchangeable = {} /\ trusted = {} /\ revocations = 0
  /\ refreshed = 0 /\ rpc = "off" /\ savedCookie = NoSession /\ session = NoSession
  /\ refused = NoSession /\ codes = 0
  /\ recent = {} /\ hpc = "off" /\ overtaken = {} /\ refreshFaults = 0
-----------------------------------------------------------------------------
(* The server. *)

Revoke(s) ==
  /\ revocations < MaxRevocations /\ revocations' = revocations + 1
  /\ \/ s \in exchangeable /\ exchangeable' = exchangeable \ {s} /\ UNCHANGED trusted
     \/ s \in trusted /\ trusted' = trusted \ {s} /\ UNCHANGED exchangeable
  /\ UNCHANGED <<child, cookie, logins, refreshOp, recent, hpc, overtaken, refreshFaults>>

NewSession ==
  /\ logins < MaxLogins /\ logins' = logins + 1
  /\ exchangeable' = exchangeable \cup {logins'} /\ trusted' = trusted \cup {logins'}
  /\ UNCHANGED revocations

SetSession(c, s) == cookie' = [cookie EXCEPT ![c] = s]
ClearSession(c) == cookie' = [cookie EXCEPT ![c] = NoSession]
-----------------------------------------------------------------------------
(* The refresh. *)

RefreshGoto(place) == rpc' = place /\ UNCHANGED <<refreshed, child, recent, hpc, overtaken, refreshFaults>>

RefreshOver ==
  /\ rpc' = "off" /\ refreshed' = 0
  /\ savedCookie' = NoSession /\ session' = NoSession /\ refused' = NoSession /\ codes' = 0

\* Of the current child only, never beside a run; a recent result is
\* returned again, and nothing starts.
RefreshStart ==
  /\ rpc = "off" /\ hpc = "off" /\ child \notin recent
  /\ refreshed' = child /\ rpc' = "inputs"
  /\ UNCHANGED <<child, cookie, server, savedCookie, session, refused, codes, recent, hpc,
                 overtaken, refreshFaults>>

RefreshRaised ==
  /\ RefreshOver
  /\ UNCHANGED <<child, cookie, server, recent, hpc, overtaken>>

\* The child may be current no more: its status is read again.
RefreshInputs ==
  /\ rpc = "inputs"
  /\ IF refreshed # child THEN RefreshRaised /\ UNCHANGED refreshFaults
     ELSE /\ savedCookie' = cookie[refreshed]
          /\ RefreshGoto(IF savedCookie' = NoSession THEN "code" ELSE "old_login")
          /\ UNCHANGED <<cookie, server, session, refused, codes>>

\* The stored session is exchanged, and stored again; when that fails, for
\* whatever reason, it is deleted.
RefreshSavedLogin ==
  /\ rpc = "old_login"
  /\ \/ /\ savedCookie \in exchangeable
        /\ SetSession(refreshed, savedCookie) /\ session' = savedCookie
        /\ RefreshGoto("pat")
     \/ /\ savedCookie \notin exchangeable
        /\ ClearSession(refreshed) /\ UNCHANGED session
        /\ RefreshGoto("code")
     \/ /\ refreshFaults < MaxRefreshFaults /\ refreshFaults' = refreshFaults + 1
        /\ ClearSession(refreshed) /\ rpc' = "code"
        /\ UNCHANGED <<refreshed, session, child, recent, hpc, overtaken>>
  /\ UNCHANGED <<server, savedCookie, refused, codes>>

RefreshCodeLogin ==
  /\ rpc = "code" /\ NewSession
  /\ session' = logins' /\ SetSession(refreshed, logins') /\ codes' = codes + 1
  /\ RefreshGoto("pat")
  /\ UNCHANGED <<savedCookie, refused>>

\* The login after a refused access token: always with a mailed code.
RefreshFreshLogin ==
  /\ rpc = "fresh_login" /\ NewSession
  /\ session' = logins' /\ SetSession(refreshed, logins') /\ codes' = codes + 1
  /\ RefreshGoto("fresh_pat")
  /\ UNCHANGED <<savedCookie, refused>>

LoggedInWithSaved == session = savedCookie

\* A refused access token of a stored session means one fresh login; any
\* other refusal is an error.
CreateRefreshedPat ==
  /\ \/ /\ rpc \in {"pat", "fresh_pat"} /\ session \in trusted
        /\ RefreshGoto("export") /\ UNCHANGED <<cookie, refused, session>>
     \/ /\ rpc = "pat" /\ session \notin trusted /\ LoggedInWithSaved
        /\ ClearSession(refreshed) /\ refused' = session
        /\ RefreshGoto("fresh_login") /\ UNCHANGED session
  /\ UNCHANGED <<server, savedCookie, codes>>

RefreshPatRefused ==
  /\ session \notin trusted
  /\ rpc = "fresh_pat" \/ (rpc = "pat" /\ ~LoggedInWithSaved)
  /\ RefreshRaised /\ UNCHANGED refreshFaults

RefreshExport ==
  /\ rpc = "export" /\ RefreshOver /\ recent' = recent \cup {refreshed}
  /\ UNCHANGED <<child, cookie, server, hpc, overtaken, refreshFaults>>

RefreshFault ==
  /\ refreshFaults < MaxRefreshFaults /\ refreshFaults' = refreshFaults + 1
  /\ \/ rpc # "off" /\ RefreshRaised
     \/ /\ RefreshOver /\ recent' = {} /\ hpc' = "off"      \* the process dies
        /\ UNCHANGED <<child, cookie, server, overtaken>>

RecentExpires ==
  /\ recent # {} /\ \E c \in recent : recent' = recent \ {c}
  /\ UNCHANGED <<child, cookie, server, refreshOp, hpc, overtaken, refreshFaults>>
-----------------------------------------------------------------------------
(* The handoff, and a switch made elsewhere. *)

HandoffGoto(place) == hpc' = place /\ UNCHANGED <<child, refreshOp, recent, overtaken, refreshFaults>>

\* The worker begins no run beside a refresh.
HandoffOldLogin ==
  /\ hpc = "off" /\ rpc = "off" /\ child < MaxChildren /\ HandoffGoto("old_login")
  /\ IF cookie[child] \in exchangeable
       THEN UNCHANGED <<cookie, server>>
       ELSE NewSession /\ SetSession(child, logins')

HandoffNewLogin ==
  /\ hpc = "old_login" /\ NewSession /\ SetSession(child + 1, logins') /\ HandoffGoto("new_login")

\* Mutant: the rotation leaves the old child's session stored.
RotateOnly(c) == UNCHANGED cookie

Retire(c) == ClearSession(c)

\* complete_run_and_rotate: the old child retires without its session.
HandoffComplete ==
  /\ hpc = "new_login" /\ hpc' = "off" /\ Retire(child) /\ child' = child + 1
  /\ UNCHANGED <<server, refreshOp, recent, overtaken, refreshFaults>>

HandoffFails ==
  /\ hpc # "off" /\ hpc' = "off"
  /\ UNCHANGED <<child, cookie, server, refreshOp, recent, overtaken, refreshFaults>>

\* advance_workspace_accounts asks that the workspace be idle; it knows
\* nothing of refreshes.
AdvanceAccounts ==
  /\ hpc = "off" /\ child < MaxChildren
  /\ Retire(child) /\ child' = child + 1
  /\ overtaken' = IF refreshed = child THEN overtaken \cup {child} ELSE overtaken
  /\ UNCHANGED <<server, refreshOp, recent, hpc, refreshFaults>>

RefreshSteps ==
  \/ RefreshInputs \/ RefreshSavedLogin \/ RefreshCodeLogin \/ RefreshFreshLogin
  \/ CreateRefreshedPat \/ RefreshPatRefused \/ RefreshExport

SessionsNext ==
  \/ RefreshStart \/ RefreshSteps \/ RefreshFault \/ RecentExpires
  \/ HandoffOldLogin \/ HandoffNewLogin \/ HandoffComplete \/ HandoffFails \/ AdvanceAccounts
  \/ \E s \in 1..logins : Revoke(s)

SessionsSpec == SessionsInit /\ [][SessionsNext]_sessionVars
-----------------------------------------------------------------------------
(* Properties. *)

\* README.md: a retired child keeps no stored session. It may, when the
\* switch was recorded while that child was being refreshed: the refresh
\* stores the session of its login afterwards.
RetiredHaveNoSession ==
  \A c \in 1..MaxChildren : c < child /\ cookie[c] # NoSession => c \in overtaken

\* README.md: an invalidated access token leads to one login with a mailed
\* code, in a new environment, and a second refusal ends the refresh: no
\* refresh takes two codes, and none asks again with the refused session.
OneFreshLogin == codes <= 1 /\ (refused # NoSession => session # refused \/ rpc = "fresh_login")

\* The sessions of the accounts across refreshes, handoffs and revocations:
\* none is left of a retired account, and a refused one is replaced once.
SessionsAreKept == RetiredHaveNoSession /\ OneFreshLogin

\* A refresh that succeeds leaves the session it worked with stored, for the
\* next handoff, unless the child was switched away from.
RefreshedSessionIsStored ==
  [][rpc = "export" /\ recent' # recent /\ refreshed \in recent' /\ refreshed \notin overtaken
       => cookie[refreshed] = session]_sessionVars
=============================================================================

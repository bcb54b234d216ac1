------------------------------- MODULE Alerts -------------------------------
(***************************************************************************)
(* The alert coordinator (src/team_protocol/sub2api_alerts.py): a thread   *)
(* that polls a mailbox for monitor mails, takes each as a reason to       *)
(* measure the current children of the two Teams anew, and refreshes a     *)
(* child Sub2API calls unauthorized or hands over from one that is used    *)
(* up. The mail cursor and the latches of the actions are settings of the  *)
(* database: they survive the thread, which may die anywhere.              *)
(***************************************************************************)
EXTENDS Naturals, FiniteSets

CONSTANTS
  Teams,             \* the two workspaces
  TeamOrder,         \* their ids in ascending order
  MaxKids,           \* the children of a Team are 1, 2, ...
  MaxAlertMails,     \* bounds the mails, over all UIDVALIDITY values
  MaxChanges,        \* bounds the changes of an account at Sub2API
  MaxAlertFaults     \* bounds failed calls, crashes, mailbox resets, the user's handoffs

ASSUME AlertsAssumption ==
  /\ TeamOrder \in [1..Cardinality(Teams) -> Teams]
  /\ \A t \in Teams : \E i \in 1..Cardinality(Teams) : TeamOrder[i] = t
  /\ MaxKids \in Nat \ {0} /\ MaxAlertMails \in Nat /\ MaxChanges \in Nat
  /\ MaxAlertFaults \in Nat

Kids == 1..MaxKids
Keys == {"refresh", "handoff"} \X Teams \X Kids
NoAction == <<>>
NoCursor == [validity |-> 0, uid |-> 0]

VARIABLES
  kid,               \* workspaces.current_account_id
  nextKid,           \* Teams whose next child is bound
  runOf,             \* the last run of each Team: its current child, whether it is
                     \* active or has succeeded
  health,            \* what Sub2API says of each child
  validity, lastUid, \* the mailbox: UIDVALIDITY, and the UID of the last mail
  monitors,          \* the UIDs of monitor mails
  cursor, latch,     \* settings: sub2api_alert_cursor, sub2api_alert_actions
  apc,               \* the place of the coordinator's thread
  fetched,           \* the cursor of the batch it has fetched
  aims,              \* the child of each Team that is being measured
  changedSince,      \* Teams whose workspace has another version since
  signal,            \* what was measured
  acts,              \* the latches in memory
  todo,              \* the actions left
  atWork,            \* the action at work, while it is called and recorded
  actedUpTo,         \* history: the mails before the last completed measurement
  beganAt,           \* history: the mails before the current one
  handoffs,          \* history: handoffs started for each child
  refreshes,         \* history: refreshes done of each child
  outages,           \* history: times each child became unauthorized
  unrecorded,        \* history: refreshes done whose record a crash prevented
  mails, changes, alertFaults

world == <<kid, nextKid, runOf>>
inbox == <<validity, lastUid, monitors, mails>>
settings3 == <<cursor, latch>>
memory3 == <<fetched, aims, signal, acts, todo, atWork, beganAt>>
alertCounts == <<handoffs, refreshes, outages, unrecorded, changes>>
alertVars == <<world, health, inbox, settings3, apc, memory3, changedSince, actedUpTo, alertCounts, alertFaults>>

AlertsTypeOK ==
  /\ kid \in [Teams -> Kids] /\ nextKid \subseteq Teams
  /\ health \in [Teams -> [Kids -> {"ok", "high", "unauthorized"}]]
  /\ validity \in Nat \ {0} /\ lastUid \in 0..mails /\ monitors \subseteq 1..lastUid
  /\ cursor.validity \in 0..validity /\ (cursor.validity = validity => cursor.uid <= lastUid)
  /\ latch \in [Keys -> {"none", "pending", "triggered"}]
  /\ acts \in [Keys -> {"none", "pending", "triggered"}]
  /\ apc \in {"idle", "targets", "measure", "apply", "next", "call", "mark", "cursor"}
  /\ todo \subseteq Keys /\ atWork \in Keys \cup {NoAction} /\ changedSince \subseteq Teams

Blank == [k \in Keys |-> "none"]
NoCounts == [t \in Teams |-> [k \in Kids |-> 0]]

AlertsInit ==
  /\ kid = [t \in Teams |-> 1] /\ nextKid = {}
  /\ runOf = [t \in Teams |-> [kid |-> 0, state |-> "none"]]
  /\ health = [t \in Teams |-> [k \in Kids |-> "ok"]]
  /\ validity = 1 /\ lastUid = 0 /\ monitors = {} /\ mails = 0
  /\ cursor = NoCursor /\ latch = Blank /\ apc = "idle"
  /\ fetched = NoCursor /\ aims = [t \in Teams |-> 0] /\ changedSince = {}
  /\ signal = [t \in Teams |-> "ok"] /\ acts = Blank /\ todo = {} /\ atWork = NoAction
  /\ actedUpTo = 0 /\ beganAt = 0 /\ handoffs = NoCounts /\ refreshes = NoCounts
  /\ outages = NoCounts /\ unrecorded = NoCounts /\ changes = 0 /\ alertFaults = 0
-----------------------------------------------------------------------------
(* Around the coordinator. *)

Coordinator == <<settings3, apc, memory3, actedUpTo, handoffs, refreshes, unrecorded>>

MailArrives ==
  /\ mails < MaxAlertMails /\ mails' = mails + 1 /\ lastUid' = lastUid + 1
  /\ monitors' \in {monitors, monitors \cup {lastUid'}}
  /\ UNCHANGED <<world, health, validity, Coordinator, changedSince, outages, changes, alertFaults>>

\* The server renumbers the mailbox; the connection is lost with it.
MailboxReset ==
  /\ alertFaults < MaxAlertFaults /\ alertFaults' = alertFaults + 1
  /\ apc = "idle" /\ validity' = validity + 1 /\ lastUid' = 0 /\ monitors' = {} /\ actedUpTo' = 0
  /\ UNCHANGED <<world, health, mails, settings3, apc, memory3, changedSince, alertCounts>>

HealthChanges(t) ==
  /\ changes < MaxChanges /\ changes' = changes + 1
  /\ \E h \in {"ok", "high", "unauthorized"} \ {health[t][kid[t]]} :
       /\ h = "high" => kid[t] < MaxKids
       /\ health' = [health EXCEPT ![t][kid[t]] = h]
       /\ outages' = IF h = "unauthorized" THEN [outages EXCEPT ![t][kid[t]] = @ + 1] ELSE outages
  /\ UNCHANGED <<world, inbox, Coordinator, changedSince, alertFaults>>

\* The user hands over without the coordinator; the last child is not used up.
UserHandoff(t) ==
  /\ runOf[t].state # "active" /\ kid[t] < MaxKids
  /\ alertFaults < MaxAlertFaults /\ alertFaults' = alertFaults + 1
  /\ nextKid' = nextKid \cup {t} /\ runOf' = [runOf EXCEPT ![t] = [kid |-> kid[t], state |-> "active"]]
  /\ changedSince' = changedSince \cup {t}
  /\ UNCHANGED <<kid, health, inbox, Coordinator, outages, changes>>

RunEnds(t) ==
  /\ runOf[t].state = "active" /\ changedSince' = changedSince \cup {t}
  /\ \/ /\ kid' = [kid EXCEPT ![t] = @ + 1] /\ nextKid' = nextKid \ {t}
        /\ runOf' = [runOf EXCEPT ![t].state = "succeeded"]
     \/ runOf' = [runOf EXCEPT ![t].state = "over"] /\ UNCHANGED <<kid, nextKid>>
  /\ UNCHANGED <<health, inbox, Coordinator, outages, changes, alertFaults>>
-----------------------------------------------------------------------------
(* poll_once. *)

Outside == UNCHANGED <<world, health, inbox, changedSince, alertCounts>>

NewMails == {u \in 1..lastUid : u > cursor.uid}

\* Mutant: a renumbered mailbox is taken as read.
SkipOldMail ==
  /\ apc = "idle" /\ cursor # [validity |-> validity, uid |-> lastUid]
  /\ fetched' = [validity |-> validity, uid |-> lastUid]
  /\ apc' = IF cursor.validity = validity /\ NewMails \cap monitors # {} THEN "targets" ELSE "cursor"
  /\ beganAt' = lastUid
  /\ Outside /\ UNCHANGED <<settings3, aims, signal, acts, todo, atWork, actedUpTo, alertFaults>>

\* Without a cursor for this mailbox everything is measured once.
FetchMail ==
  /\ apc = "idle" /\ cursor # [validity |-> validity, uid |-> lastUid]
  /\ fetched' = [validity |-> validity, uid |-> lastUid]
  /\ apc' = IF cursor.validity # validity \/ NewMails \cap monitors # {} THEN "targets" ELSE "cursor"
  /\ beganAt' = lastUid
  /\ Outside /\ UNCHANGED <<settings3, aims, signal, acts, todo, atWork, actedUpTo, alertFaults>>

ReadTargets ==
  /\ apc = "targets" /\ apc' = "measure" /\ aims' = kid /\ changedSince' = {}
  /\ signal' = [t \in Teams |-> "unmeasured"] /\ beganAt' = lastUid
  /\ UNCHANGED <<world, health, inbox, alertCounts, settings3, fetched, acts, todo, atWork, actedUpTo, alertFaults>>

MeasureTarget ==
  /\ apc = "measure"
  /\ \E i \in 1..Cardinality(Teams) :
       /\ signal[TeamOrder[i]] = "unmeasured"
       /\ \A j \in 1..(i - 1) : signal[TeamOrder[j]] # "unmeasured"
       /\ signal' = [signal EXCEPT ![TeamOrder[i]] = health[TeamOrder[i]][aims[TeamOrder[i]]]]
       /\ apc' = IF i = Cardinality(Teams) THEN "apply" ELSE "measure"
  /\ Outside /\ UNCHANGED <<settings3, fetched, aims, acts, todo, atWork, beganAt, actedUpTo, alertFaults>>

Actions(kind, what) == {<<kind, t, aims[t]>> : t \in {u \in Teams : signal[u] = what}}

\* Refreshes come before handoffs, and either in the order of the Teams.
Before(a, b) ==
  IF a[1] = b[1]
    THEN \E i, j \in 1..Cardinality(Teams) : i < j /\ TeamOrder[i] = a[2] /\ TeamOrder[j] = b[2]
    ELSE a[1] = "refresh"

\* Latches of children that are not current are dropped, and a child that has
\* recovered may be refreshed again.
ApplySignals ==
  /\ apc = "apply" /\ apc' = "next"
  /\ LET current == [k \in Keys |-> IF k[3] = aims[k[2]] THEN latch[k] ELSE "none"]
         recovered == {k \in Keys : /\ k[1] = "refresh" /\ signal[k[2]] # "unauthorized"
                                    /\ current[k] # "none"}
     IN  /\ acts' = [k \in Keys |-> IF k \in recovered THEN "none" ELSE current[k]]
         /\ latch' = IF recovered = {} THEN latch ELSE acts'
  /\ todo' = Actions("refresh", "unauthorized") \cup Actions("handoff", "high")
  /\ Outside /\ UNCHANGED <<cursor, fetched, aims, signal, atWork, beganAt, actedUpTo, alertFaults>>

SaveAct(key, state) == acts' = [acts EXCEPT ![key] = state] /\ latch' = acts'

\* Mutant: only the latch is looked at, not what a pending handoff has done.
Ignored(key) == FALSE

\* A pending handoff has happened when the child's successor is bound or a
\* run hands over from it.
AlreadyStarted(key) ==
  /\ key[1] = "handoff" /\ acts[key] = "pending"
  /\ \/ key[2] \in nextKid
     \/ runOf[key[2]].kid = key[3] /\ runOf[key[2]].state \in {"active", "succeeded"}

NextAction ==
  /\ apc = "next"
  /\ \E key \in todo :
       /\ \A other \in todo \ {key} : Before(key, other)
       /\ \/ acts[key] = "triggered" /\ todo' = todo \ {key} /\ UNCHANGED <<acts, latch, apc, atWork>>
          \/ /\ acts[key] # "triggered" /\ AlreadyStarted(key)
             /\ SaveAct(key, "triggered") /\ todo' = todo \ {key} /\ UNCHANGED <<apc, atWork>>
          \/ /\ acts[key] # "triggered" /\ ~AlreadyStarted(key)
             /\ SaveAct(key, "pending") /\ apc' = "call" /\ atWork' = key /\ UNCHANGED todo
  /\ Outside /\ UNCHANGED <<cursor, fetched, aims, signal, beganAt, actedUpTo, alertFaults>>

\* Mutant: the version the child was measured at is not passed on.
AnyWorkspace(t) == TRUE

VersionAccepted(t) == t \notin changedSince

\* replace_icloud_workspace_child binds a new child, or takes the bound one,
\* and enqueues the run; refresh_imported_child runs to its end.
CallAction ==
  /\ apc = "call" /\ apc' = "mark"
  /\ LET t == atWork[2]
         k == atWork[3]
     IN  \/ /\ atWork[1] = "handoff" /\ VersionAccepted(t)
            /\ runOf[t].state # "active"
            /\ nextKid' = nextKid \cup {t} /\ changedSince' = changedSince \cup {t}
            /\ runOf' = [runOf EXCEPT ![t] = [kid |-> kid[t], state |-> "active"]]
            /\ handoffs' = [handoffs EXCEPT ![t][k] = @ + 1] /\ UNCHANGED refreshes
         \/ /\ atWork[1] = "refresh" /\ kid[t] = k
            /\ \A u \in Teams : runOf[u].state # "active"
            /\ refreshes' = [refreshes EXCEPT ![t][k] = @ + 1]
            /\ UNCHANGED <<nextKid, runOf, changedSince, handoffs>>
  /\ UNCHANGED <<kid, health, inbox, settings3, memory3, actedUpTo, outages, unrecorded,
                 changes, alertFaults>>

GivesUp ==
  /\ apc' = "idle" /\ fetched' = NoCursor /\ aims' = [t \in Teams |-> 0] /\ acts' = Blank
  /\ signal' = [t \in Teams |-> "ok"] /\ todo' = {} /\ atWork' = NoAction /\ beganAt' = 0

\* A refused or failed call takes the latch back and ends the poll, which is
\* repeated later; the successor may be bound nevertheless.
CallFails ==
  /\ apc = "call"
  /\ LET t == atWork[2] IN
     \/ /\ \/ atWork[1] = "handoff" /\ (~VersionAccepted(t) \/ runOf[t].state = "active")
           \/ atWork[1] = "refresh" /\ (kid[t] # atWork[3] \/ \E u \in Teams : runOf[u].state = "active")
        /\ UNCHANGED <<nextKid, changedSince, alertFaults>>
     \/ /\ alertFaults < MaxAlertFaults /\ alertFaults' = alertFaults + 1
        /\ \/ UNCHANGED <<nextKid, changedSince>>
           \/ /\ atWork[1] = "handoff" /\ VersionAccepted(t)
              /\ nextKid' = nextKid \cup {t} /\ changedSince' = changedSince \cup {t}
  /\ latch' = [acts EXCEPT ![atWork] = "none"]
  /\ GivesUp
  /\ UNCHANGED <<kid, runOf, health, inbox, cursor, actedUpTo, alertCounts>>

MarkTriggered ==
  /\ apc = "mark" /\ apc' = "next" /\ SaveAct(atWork, "triggered")
  /\ todo' = todo \ {atWork} /\ atWork' = NoAction
  /\ Outside /\ UNCHANGED <<cursor, fetched, aims, signal, beganAt, actedUpTo, alertFaults>>

ActionsDone ==
  /\ apc = "next" /\ todo = {} /\ latch' = acts /\ apc' = "cursor" /\ actedUpTo' = beganAt
  /\ Outside /\ UNCHANGED <<cursor, memory3, alertFaults>>

SaveCursor ==
  /\ apc = "cursor" /\ cursor' = fetched /\ GivesUp
  /\ Outside /\ UNCHANGED <<latch, actedUpTo, alertFaults>>

\* A call to the mailbox, Sub2API or the database fails, or the process dies.
PollFails ==
  /\ apc # "idle" /\ alertFaults < MaxAlertFaults /\ alertFaults' = alertFaults + 1 /\ GivesUp
  /\ unrecorded' = IF apc = "mark" /\ atWork[1] = "refresh"
                     THEN [unrecorded EXCEPT ![atWork[2]][atWork[3]] = @ + 1] ELSE unrecorded
  /\ UNCHANGED <<world, health, inbox, changedSince, settings3, actedUpTo, handoffs, refreshes,
                 outages, changes>>

Poll ==
  \/ FetchMail \/ ReadTargets \/ MeasureTarget \/ ApplySignals \/ NextAction \/ CallAction
  \/ CallFails \/ MarkTriggered \/ ActionsDone \/ SaveCursor

AlertsNext ==
  \/ Poll \/ PollFails \/ MailArrives \/ MailboxReset
  \/ \E t \in Teams : HealthChanges(t) \/ UserHandoff(t) \/ RunEnds(t)

\* The thread polls again after every error, and runs end.
AlertsFairness == WF_alertVars(Poll) /\ \A t \in Teams : WF_alertVars(RunEnds(t))

AlertsSpec == AlertsInit /\ [][AlertsNext]_alertVars /\ AlertsFairness
-----------------------------------------------------------------------------
(* Properties. *)

\* The saved cursor never passes a monitor mail that no completed measurement
\* has followed: whatever fails or dies, the mail is seen again.
NoAlertIsSkipped ==
  cursor.validity = validity => \A u \in monitors : u <= cursor.uid => u <= actedUpTo

\* Every monitor mail is followed by a measurement, and its actions.
AlertsAreServed == \A u \in 1..MaxAlertMails : u \in monitors ~> (u <= actedUpTo \/ u \notin monitors)

\* README.md: neither repeated mails nor a restart repeat an action: one
\* handoff is started for a child, and one refresh for each time it became
\* unauthorized - or two, if the process died before it could record one.
OneHandoffPerChild == \A t \in Teams : \A k \in Kids : handoffs[t][k] <= 1

OneRefreshPerOutage ==
  \A t \in Teams : \A k \in Kids : refreshes[t][k] <= outages[t][k] + unrecorded[t][k]

\* Each alert is acted upon once, across crashes and overlapping outages:
\* neither skipped nor repeated.
AlertsActOnce == NoAlertIsSkipped /\ OneHandoffPerChild /\ OneRefreshPerOutage

\* A handoff is started from the child that was measured, though the user may
\* hand over while the coordinator measures.
MeasuredChildIsHandedOver ==
  [][\A t \in Teams : \A k \in Kids :
       handoffs'[t][k] > handoffs[t][k] => kid[t] = k]_alertVars
=============================================================================

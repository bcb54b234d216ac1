--------------------------- MODULE MCFlows_proofs ---------------------------
(***************************************************************************)
(* What the runs check of the flows, proved of the very specification they *)
(* check: every step of it is a step of each part or leaves it as it was,  *)
(* so what is proved of a part alone holds of the flows together.          *)
(***************************************************************************)
EXTENDS MCFlows, Team_proofs, Flows_proofs

FlowsInv ==
  HandoffInv /\ RescueInv /\ SessionsInv /\ AlertsInv /\ PublishInv /\ BackupsAllInv

(***************************************************************************)
(* The handoff that nobody disturbs is a handoff.                          *)
(***************************************************************************)
LEMMA SameCardinality == \A S : HL!Cardinality(S) = Cardinality(S)
BY DEF HL!Cardinality, Cardinality

LEMMA SameStages == HL!Stage => Stage
<1> USE DEF HL!Saved, Saved, HL!Save, Save, HL!Goto, Goto, HL!Fails, Fails, HL!Raised, Raised,
            HL!remote, remote, HL!counts, counts, HL!Answered, Answered, HL!Refused, Refused
<1>1. HL!OldLogin => OldLogin
  BY DEF HL!OldLogin, OldLogin
<1>2. HL!OldWorkspace => OldWorkspace
  BY DEF HL!OldWorkspace, OldWorkspace
<1>3. HL!EnsureInvited => EnsureInvited
  BY SameCardinality DEF HL!EnsureInvited, EnsureInvited, HL!AlreadyInvited, AlreadyInvited,
         HL!MemberLimit, MemberLimit
<1>4. HL!Invite => Invite
  BY DEF HL!Invite, Invite
<1>5. HL!SaveInvite => SaveInvite
  BY DEF HL!SaveInvite, SaveInvite
<1>6. HL!LeaveOldAccount => LeaveOldAccount
  BY DEF HL!LeaveOldAccount, LeaveOldAccount
<1>7. HL!Leave => Leave
  BY DEF HL!Leave, Leave
<1>8. HL!WaitForOldDeparture => WaitForOldDeparture
  BY SameCardinality DEF HL!WaitForOldDeparture, WaitForOldDeparture, HL!Departed, Departed,
         HL!MemberLimit, MemberLimit
<1>9. HL!SaveLeave => SaveLeave
  BY DEF HL!SaveLeave, SaveLeave
<1>10. HL!NewLogin => NewLogin
  BY DEF HL!NewLogin, NewLogin
<1>11. HL!NewWorkspace => NewWorkspace
  BY DEF HL!NewWorkspace, NewWorkspace
<1>12. HL!VerifyTeamMembership => VerifyTeamMembership
  BY SameCardinality DEF HL!VerifyTeamMembership, VerifyTeamMembership, HL!MemberLimit, MemberLimit
<1>13. HL!CreatePat => CreatePat
  BY DEF HL!CreatePat, CreatePat
<1>14. HL!SavePat => SavePat
  BY DEF HL!SavePat, SavePat
<1>15. HL!Publish => Publish
  BY DEF HL!Publish, Publish
<1> QED
  BY <1>1, <1>2, <1>3, <1>4, <1>5, <1>6, <1>7, <1>8, <1>9, <1>10, <1>11, <1>12, <1>13, <1>14, <1>15
     DEF HL!Stage, Stage

\* Its run is never stopped and there is no other one.
LEMMA SameQueue == HTypeOK /\ HL!Queue => Queue
<1> USE DEF HL!Raised, Raised, HL!remote, remote, HL!counts, counts
<1>1. HTypeOK => ~HL!RequestStop /\ ~HL!NewRun
  BY HandoffAssumption DEF HTypeOK, HL!RequestStop, HL!NewRun
<1>2. HL!Begin => Begin
  BY DEF HL!Begin, Begin
<1>3. HL!Commit => Commit
  BY DEF HL!Commit, Commit
<1>4. HL!Retry => Retry
  BY DEF HL!Retry, Retry
<1>5. HL!Crash => Crash
  BY DEF HL!Crash, Crash
<1>6. HL!CheckCancel => CheckCancel
  BY DEF HL!CheckCancel, CheckCancel
<1>7. HL!Error => Error
  BY DEF HL!Error, Error
<1> QED
  BY <1>1, <1>2, <1>3, <1>4, <1>5, <1>6, <1>7 DEF HL!Queue, Queue

LEMMA SameRemote == HL!RemoteNext => RemoteNext
<1> USE DEF HL!local, local, HL!counts, counts
<1>1. \A p \in HL!People : p \in People /\ (HL!Departs(p) => Departs(p))
  BY DEF HL!People, People, HL!Team, Team, HL!Departs, Departs
<1>2. HL!Joins => Joins
  BY DEF HL!Joins, Joins
<1>3. ~HL!Expires
  BY DEF HL!Expires
<1> QED
  BY <1>1, <1>2, <1>3 DEF HL!RemoteNext, RemoteNext

LEMMA UndisturbedIsAHandoff == HTypeOK /\ HL!HNext => HNext
BY SameStages, SameQueue, SameRemote DEF HL!HNext, HNext

(***************************************************************************)
(* The parts together.                                                     *)
(***************************************************************************)
\* A step of the flows, as each part sees it.
EveryPart ==
  /\ [HNext]_hvars /\ [RescueNext]_rescueVars /\ [SessionsNext]_sessionVars
  /\ [AlertsNext]_alertVars /\ [PublishNext]_publishVars /\ [BackupsNext]_backupVars

LEMMA FlowsStep == FlowsInv /\ [FlowsNext]_flowsVars => EveryPart
<1> SUFFICES ASSUME FlowsInv, [FlowsNext]_flowsVars PROVE EveryPart
  OBVIOUS
<1>1. CASE ((part = "handoff" /\ HNext) \/ (part = "undisturbed" /\ HL!HNext)) /\ OnlyHandoff
  <2>1. HTypeOK
    BY DEF FlowsInv, HandoffInv, TeamInv
  <2>2. HNext
    BY <1>1, <2>1, UndisturbedIsAHandoff
  <2> QED
    BY <1>1, <2>2 DEF OnlyHandoff, EveryPart
<1>2. CASE RescueNext /\ OnlyRescue
  BY <1>2 DEF OnlyRescue, EveryPart
<1>3. CASE SessionsNext /\ OnlySessions
  BY <1>3 DEF OnlySessions, EveryPart
<1>4. CASE AlertsNext /\ OnlyAlerts
  BY <1>4 DEF OnlyAlerts, EveryPart
<1>5. CASE PublishNext /\ OnlyPublish
  BY <1>5 DEF OnlyPublish, EveryPart
<1>6. CASE BackupsNext /\ OnlyBackups
  BY <1>6 DEF OnlyBackups, EveryPart
<1>7. CASE UNCHANGED flowsVars
  BY <1>7 DEF flowsVars, EveryPart
<1>8. CASE FlowsNext
  BY <1>1, <1>2, <1>3, <1>4, <1>5, <1>6, <1>8 DEF FlowsNext
<1> QED
  BY <1>7, <1>8

LEMMA FlowsInvInit == FlowsInit => FlowsInv
BY HandoffInvInit, RescueInitInv, SessionsInvInit, AlertsInvInit, PublishInvInit, BackupsAllInit
   DEF FlowsInit, FlowsInv

LEMMA FlowsInvStep == FlowsInv /\ [FlowsNext]_flowsVars => FlowsInv'
BY FlowsStep, HandoffInvStep, RescueNextInv, SessionsInvStep, AlertsInvStep, PublishInvStep,
   BackupsAllStep DEF FlowsInv, EveryPart

LEMMA FlowsAlways == FlowsSpec => []FlowsInv
BY FlowsInvInit, FlowsInvStep, PTL DEF FlowsSpec

\* The state of each flow keeps its type, in every behaviour of the flows
\* together.
THEOREM FlowsTypes == FlowsSpec => []FlowsTypeOK
<1>1. FlowsInv => FlowsTypeOK
  BY SessionsInvMeans, AlertsInvMeans, BackupsTyped
     DEF FlowsInv, FlowsTypeOK, HandoffInv, TeamInv, RescueInv
<1> QED
  BY <1>1, FlowsAlways, PTL

\* A Team is handed over once and paid for once per interruption, a rescue
\* removes no more members than it may, the sessions of children are kept, an
\* alert acts once, an account is published once, and what a restore leaves
\* can be worked with: of the flows together, whichever of them runs.
THEOREM FlowsAreSafe ==
  FlowsSpec => [](/\ OneHandover /\ RemovalsAreBounded /\ SessionsAreKept
                  /\ AlertsActOnce /\ PublishedOnce /\ RestorableState)
<1>1. FlowsInv => /\ OneHandover /\ RemovalsAreBounded /\ SessionsAreKept
                  /\ AlertsActOnce /\ PublishedOnce /\ RestorableState
  BY HandoffInvMeans, SessionsInvMeans, AlertsInvMeans, PublishInvMeans, BackupsInvMeans
     DEF FlowsInv, RescueInv, Counting, RemovalsAreBounded
<1> QED
  BY <1>1, FlowsAlways, PTL

\* Nobody is removed before the new child was invited or has joined, no token
\* is made before the handover, and a rescue removes nobody it invited or the
\* owner: of the flows together, the undisturbed handoff among them.
THEOREM FlowsRemoveInOrder ==
  FlowsSpec => LeaveAfterInvite /\ PatAfterHandover /\ InvitedChildIsKept
<1>1. FlowsInv /\ [FlowsNext]_flowsVars =>
        /\ [\A p \in leaving' \ leaving : p = "old" /\ "new" \in invited \cup members]_hvars
        /\ [pats' > pats => "new" \in members /\ "old" \notin members]_hvars
        /\ [\A p \in going' \ going : "rescue_invite" \notin saved /\ p # "owner"]_rescueVars
  BY FlowsStep, LeaveStep, PatStep, RemovalStep DEF EveryPart, FlowsInv, HandoffInv
<1> QED
  BY <1>1, FlowsAlways, PTL
     DEF FlowsSpec, LeaveAfterInvite, PatAfterHandover, InvitedChildIsKept

\* What was read before others acted does no harm: the refresh stores the
\* session of the account it refreshed, an alert hands over the child it
\* measured, and a restore replaces no run.
THEOREM StaleReadsAreHarmless == FlowsSpec => StaleReadsDoNoHarm
<1>1. FlowsInv /\ [FlowsNext]_flowsVars =>
        /\ [rpc = "export" /\ recent' # recent /\ refreshed \in recent' /\ refreshed \notin overtaken
              => cookie[refreshed] = session]_sessionVars
        /\ [\A t \in Teams : \A k \in Kids : handoffs'[t][k] > handoffs[t][k] => kid[t] = k]_alertVars
        /\ [rs = "replace" /\ rs' = "initialize" => ~db.running]_backupVars
  BY FlowsStep, SessionsInvMeans, HandoffStep, ReplaceStep
     DEF EveryPart, FlowsInv, HandedOverMeasured
<1> QED
  BY <1>1, FlowsAlways, PTL
     DEF FlowsSpec, StaleReadsDoNoHarm, RefreshedSessionIsStored, MeasuredChildIsHandedOver,
         NoRunIsReplaced
=============================================================================

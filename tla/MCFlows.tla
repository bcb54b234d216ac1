------------------------------ MODULE MCFlows ------------------------------
(* The flows that work on a Team, for TLC: handing it over, rescuing it,     *)
(* keeping the sessions of its children, publishing them, the alerts that    *)
(* start a handoff, and migration, backup and restore under them all. The    *)
(* models share no state, so a behaviour takes one of them: the part is      *)
(* chosen at the start and the others stay as they are.                      *)
EXTENDS Handoff, Rescue, Sessions, Alerts, Publish, Backups

VARIABLE part

\* The handoff that is certain to complete: nobody interferes, nobody stops it,
\* and the token stays valid.
HL == INSTANCE Handoff WITH Outsiders <- {}, MaxStops <- 0, MaxRuns <- 0, TokenMayExpire <- FALSE

TwoTeams == <<"w1", "w2">>

flowsVars == <<part, hvars, rescueVars, sessionVars, alertVars, publishVars, backupVars>>

FlowsInit ==
  /\ part \in {"handoff", "undisturbed", "rescue", "sessions", "alerts", "publish", "backups"}
  /\ HInit /\ RescueInit /\ SessionsInit /\ AlertsInit
  /\ BackupsInit /\ (disk # NoSources => part = "backups")
  /\ PublishInit /\ wanted = "g1" /\ allGroups = replace /\ (replace => part = "publish")

OnlyHandoff  == UNCHANGED <<part, rescueVars, sessionVars, alertVars, publishVars, backupVars>>
OnlyRescue   == UNCHANGED <<part, hvars, sessionVars, alertVars, publishVars, backupVars>>
OnlySessions == UNCHANGED <<part, hvars, rescueVars, alertVars, publishVars, backupVars>>
OnlyAlerts   == UNCHANGED <<part, hvars, rescueVars, sessionVars, publishVars, backupVars>>
OnlyPublish  == UNCHANGED <<part, hvars, rescueVars, sessionVars, alertVars, backupVars>>
OnlyBackups  == UNCHANGED <<part, hvars, rescueVars, sessionVars, alertVars, publishVars>>

FlowsNext ==
  \/ part = "handoff" /\ HNext /\ OnlyHandoff
  \/ part = "undisturbed" /\ HL!HNext /\ OnlyHandoff
  \/ part = "rescue" /\ RescueNext /\ OnlyRescue
  \/ part = "sessions" /\ SessionsNext /\ OnlySessions
  \/ part = "alerts" /\ AlertsNext /\ OnlyAlerts
  \/ part = "publish" /\ PublishNext /\ OnlyPublish
  \/ part = "backups" /\ BackupsNext /\ OnlyBackups

\* The fairness of the parts, actions of different parts together: only one
\* part ever acts, so each of them is treated fairly.
FlowsFairness ==
  /\ WF_flowsVars(\/ part = "undisturbed" /\ HL!Stage /\ OnlyHandoff
                  \/ part = "rescue" /\ RescueStage /\ OnlyRescue
                  \/ part = "publish" /\ RunSteps /\ OnlyPublish
                  \/ part = "alerts" /\ Poll /\ OnlyAlerts)
  /\ WF_flowsVars(\/ part = "undisturbed" /\ HL!Begin /\ OnlyHandoff
                  \/ part = "rescue" /\ (RescueBegin \/ RescueCommit) /\ OnlyRescue
                  \/ part = "publish" /\ PublishBegin /\ OnlyPublish
                  \/ part = "alerts" /\ RunEnds("w1") /\ OnlyAlerts)
  /\ WF_flowsVars(\/ part = "undisturbed" /\ HL!Retry /\ OnlyHandoff
                  \/ part = "rescue" /\ (RescueRetry \/ RescueAgain) /\ OnlyRescue
                  \/ part = "publish" /\ PublishRetry /\ OnlyPublish
                  \/ part = "alerts" /\ RunEnds("w2") /\ OnlyAlerts)
  /\ WF_flowsVars(\/ part = "undisturbed" /\ HL!CheckCancel /\ OnlyHandoff
                  \/ part = "rescue" /\ RescueCancel /\ OnlyRescue)
  /\ WF_flowsVars(\/ part = "undisturbed" /\ HL!Commit /\ OnlyHandoff
                  \/ part = "rescue" /\ NewChildJoins /\ OnlyRescue)
  /\ WF_flowsVars(\/ part = "undisturbed" /\ HL!Joins /\ OnlyHandoff
                  \/ part = "rescue" /\ RemovalApplied("broken") /\ OnlyRescue)
  /\ WF_flowsVars(\/ part = "undisturbed" /\ HL!Departs("old") /\ OnlyHandoff
                  \/ part = "rescue" /\ RemovalApplied("new") /\ OnlyRescue)
  /\ WF_flowsVars(\/ part = "undisturbed" /\ HL!Departs("new") /\ OnlyHandoff
                  \/ part = "rescue" /\ RemovalApplied("third") /\ OnlyRescue)
  /\ WF_flowsVars(part = "undisturbed" /\ HL!Departs("owner") /\ OnlyHandoff)

FlowsSpec == FlowsInit /\ [][FlowsNext]_flowsVars /\ FlowsFairness
-----------------------------------------------------------------------------
(* The properties of the parts that hold of their own behaviours alone.      *)

\* The types of the parts' states.
FlowsTypeOK == HTypeOK /\ RescueTypeOK /\ SessionsTypeOK /\ AlertsTypeOK /\ BackupsTypeOK

\* What was read before others acted is checked again or does no harm: the
\* refresh stores the session of the account it refreshed, an alert hands over
\* the child it measured, and a restore replaces no run.
StaleReadsDoNoHarm == RefreshedSessionIsStored /\ MeasuredChildIsHandedOver /\ NoRunIsReplaced

\* A handoff that is retried whenever it fails succeeds, if nobody disturbs it.
UndisturbedHandoffCompletes == part = "undisturbed" => HandoffCompletes

\* A rescue that is resumed or started again succeeds, if nobody meddles.
EveryRescueCompletes == part = "rescue" => RescueCompletes

\* A run that is retried is published, unless what the services hold refuses it.
EveryPublicationCompletes == part = "publish" => PublishCompletes

\* However often it is interrupted, every flow that is taken up again comes to
\* its end, and every alert is acted upon.
FlowsComplete ==
  /\ UndisturbedHandoffCompletes /\ EveryRescueCompletes
  /\ AlertsAreServed /\ EveryPublicationCompletes
=============================================================================

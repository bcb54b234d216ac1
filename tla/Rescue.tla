------------------------------- MODULE Rescue -------------------------------
(***************************************************************************)
(* The rescue of a Team (RescueWorkflowRunner of src/team_protocol/        *)
(* workflow.py): the owner removes every other member, one at a time and   *)
(* each confirmed by the member list, invites the new child, and the new   *)
(* child joins and gets a token. The Team applies removals with a delay;   *)
(* the process may die, requests fail, a failed run is retried from its    *)
(* checkpoint and a new run starts from an empty one.                      *)
(***************************************************************************)
EXTENDS Naturals, FiniteSets

CONSTANTS
  Others,            \* the members a rescue finds besides the owner
  MaxRemovals,       \* _RESCUE_MAX_MEMBER_REMOVALS
  MaxRescueFaults,   \* bounds crashes and errors together
  MaxRescueStops,    \* bounds stops, and with them new runs
  MaxMeddling        \* bounds what outsiders do to the Team

ASSUME RescueAssumption ==
  /\ Others \cap {"owner", "new"} = {}
  /\ MaxRemovals \in Nat /\ MaxRescueFaults \in Nat
  /\ MaxRescueStops \in Nat /\ MaxMeddling \in Nat

VARIABLES
  team, pending,      \* active members, pending invitations
  going,              \* members whose removal was accepted, not yet applied
  entered,            \* the new child has logged in
  requests,           \* removals asked for by the run, its retries included
  rescue,             \* runs.state
  at,                 \* where the runner is
  target,             \* the member being removed
  removedNow,         \* removed_count of the runner
  saved,              \* the steps in the checkpoint
  removedSaved,       \* removed_count in the checkpoint
  rescueStop,         \* the stop event
  interruptions,      \* crashes and errors of the run
  rescueFaults, rescueStops, meddling

rescueTeam == <<team, pending, going, entered, requests>>
rescueRun  == <<rescue, at, target, removedNow, saved, removedSaved, rescueStop>>
rescueCounts == <<interruptions, rescueFaults, rescueStops, meddling>>
rescueVars == <<rescueTeam, rescueRun, rescueCounts>>

Nobody == "nobody"
RescueSteps == {"rescue_clear", "rescue_invite", "new_login", "rescue_verify", "pat"}
RescuePlaces == {"off", "owner_login", "rescue_clear", "clearing", "removing", "confirming",
                 "rescue_invite", "inviting", "invited", "new_login", "rescue_verify",
                 "pat", "publish", "returned"}

RescueTypeOK ==
  /\ team \subseteq Others \cup {"owner", "new"} /\ pending \subseteq Others \cup {"new"}
  /\ going \subseteq team /\ entered \in BOOLEAN /\ requests \in Nat
  /\ rescue \in {"queued", "running", "failed", "cancelled", "succeeded"}
  /\ at \in RescuePlaces /\ (rescue = "running" <=> at # "off")
  /\ target \in Others \cup {Nobody, "new"}
  /\ removedNow \in 0..MaxRemovals /\ removedSaved \in 0..MaxRemovals
  /\ saved \subseteq RescueSteps /\ rescueStop \in BOOLEAN

RescueInit ==
  /\ team = Others \cup {"owner"} /\ pending = {} /\ going = {}
  /\ entered = FALSE /\ requests = 0
  /\ rescue = "queued" /\ at = "off" /\ target = Nobody /\ removedNow = 0
  /\ saved = {} /\ removedSaved = 0 /\ rescueStop = FALSE
  /\ interruptions = 0 /\ rescueFaults = 0 /\ rescueStops = 0 /\ meddling = 0
-----------------------------------------------------------------------------
(* The remote Team, external to the program. *)

RemovalApplied(p) ==
  /\ p \in going
  /\ team' = team \ {p} /\ going' = going \ {p}
  /\ UNCHANGED <<pending, entered, requests, rescueRun, rescueCounts>>

NewChildJoins ==
  /\ entered /\ "new" \in pending
  /\ team' = team \cup {"new"} /\ pending' = pending \ {"new"}
  /\ UNCHANGED <<going, entered, requests, rescueRun, rescueCounts>>

\* Somebody else is invited, or accepts.
Meddle(p) ==
  /\ meddling < MaxMeddling /\ meddling' = meddling + 1
  /\ \/ p \notin team \cup pending /\ pending' = pending \cup {p} /\ UNCHANGED team
     \/ p \in pending /\ team' = team \cup {p} /\ pending' = pending \ {p}
  /\ UNCHANGED <<going, entered, requests, rescueRun, interruptions, rescueFaults, rescueStops>>
-----------------------------------------------------------------------------
(* The run in the queue. *)

RescueBegin ==
  /\ rescue = "queued" /\ rescue' = "running" /\ at' = "owner_login"
  /\ UNCHANGED <<rescueTeam, target, removedNow, saved, removedSaved, rescueStop, rescueCounts>>

\* The runner is gone, and with it what it had not saved.
RunnerGone == at' = "off" /\ target' = Nobody /\ removedNow' = 0 /\ rescueStop' = FALSE

RescueRaised ==
  /\ RunnerGone
  /\ rescue' = IF rescueStop THEN "cancelled" ELSE "failed"
  /\ UNCHANGED <<saved, removedSaved>>

\* A stage finds the Team in a state it refuses.
Refuses == RescueRaised /\ UNCHANGED <<rescueTeam, rescueCounts>>

Interrupted ==
  /\ rescue = "running"
  /\ rescueFaults < MaxRescueFaults /\ rescueFaults' = rescueFaults + 1
  /\ interruptions' = interruptions + 1
  /\ UNCHANGED <<rescueTeam, rescueStops, meddling>>

RescueCrash == Interrupted /\ RunnerGone /\ rescue' = "queued" /\ UNCHANGED <<saved, removedSaved>>
RescueError == Interrupted /\ RescueRaised

RescueRetry ==
  /\ rescue = "failed" /\ rescue' = "queued"
  /\ UNCHANGED <<rescueTeam, at, target, removedNow, saved, removedSaved, rescueStop, rescueCounts>>

RescueRequestStop ==
  /\ rescue = "running" /\ ~rescueStop /\ rescueStop' = TRUE
  /\ rescueStops < MaxRescueStops /\ rescueStops' = rescueStops + 1
  /\ UNCHANGED <<rescueTeam, rescue, at, target, removedNow, saved, removedSaved,
                 interruptions, rescueFaults, meddling>>

RescueCancel ==
  /\ rescueStop
  /\ at \in {"owner_login", "rescue_clear", "confirming", "rescue_invite", "new_login",
             "rescue_verify", "pat", "publish"}
  /\ RescueRaised /\ UNCHANGED <<rescueTeam, rescueCounts>>

\* A new run of the cancelled rescue's workspace has a checkpoint of its own.
RescueAgain ==
  /\ rescue = "cancelled" /\ rescue' = "queued"
  /\ saved' = {} /\ removedSaved' = 0 /\ requests' = 0 /\ interruptions' = 0
  /\ UNCHANGED <<team, pending, going, entered, at, target, removedNow, rescueStop,
                 rescueFaults, rescueStops, meddling>>

RescueCommit ==
  /\ at = "returned" /\ RunnerGone
  /\ rescue' = IF rescueStop THEN "cancelled" ELSE "succeeded"
  /\ UNCHANGED <<rescueTeam, saved, removedSaved, rescueCounts>>
-----------------------------------------------------------------------------
(* The stages. *)

MoveTo(place) == at' = place /\ UNCHANGED <<rescue, rescueStop, rescueCounts>>
Keep(step) == saved' = saved \cup {step}

OwnerLogin ==
  /\ at = "owner_login" /\ MoveTo("rescue_clear")
  /\ UNCHANGED <<rescueTeam, target, removedNow, saved, removedSaved>>

\* Mutant: a rescue that is resumed clears the Team again.
AlwaysUnlocked == FALSE

ClearLocked == "rescue_clear" \in saved /\ saved \cap {"rescue_invite", "new_login", "rescue_verify", "pat"} # {}

\* Mutant: removed_count starts again from nothing.
ForgetRemoved ==
  /\ at = "rescue_clear"
  /\ IF ClearLocked THEN MoveTo("rescue_invite") /\ UNCHANGED removedNow
                    ELSE MoveTo("clearing") /\ removedNow' = 0
  /\ UNCHANGED <<rescueTeam, target, saved, removedSaved>>

ClearTeamToOwner ==
  /\ at = "rescue_clear"
  /\ IF ClearLocked THEN MoveTo("rescue_invite") /\ UNCHANGED removedNow
                    ELSE MoveTo("clearing") /\ removedNow' = removedSaved
  /\ UNCHANGED <<rescueTeam, target, saved, removedSaved>>

\* The loop: list the members, and pick the first who is not the owner.
NextRemoval ==
  /\ at = "clearing" /\ UNCHANGED <<rescueTeam, removedNow, removedSaved>>
  /\ IF team = {"owner"}
       THEN /\ pending \subseteq {"new"} /\ Keep("rescue_clear")
            /\ MoveTo("rescue_invite") /\ UNCHANGED target
       ELSE /\ removedNow < MaxRemovals
            /\ target' \in team \ {"owner"}
            /\ MoveTo("removing") /\ UNCHANGED saved

ClearRefused ==
  /\ at = "clearing"
  /\ IF team = {"owner"} THEN ~ pending \subseteq {"new"} ELSE removedNow = MaxRemovals
  /\ Refuses

RemoveMember ==
  /\ at = "removing"
  /\ going' = going \cup ({target} \cap team) /\ requests' = requests + 1
  /\ MoveTo("confirming")
  /\ UNCHANGED <<team, pending, entered, target, removedNow, saved, removedSaved>>

\* Poll until the member is gone; giving up is a RescueError.
WaitUntilMemberAbsent ==
  /\ at = "confirming" /\ target \notin team
  /\ removedNow' = removedNow + 1 /\ removedSaved' = removedNow + 1
  /\ target' = Nobody /\ MoveTo("clearing")
  /\ UNCHANGED <<rescueTeam, saved>>

NewIsAwaited == "new" \in team \cup pending

EnsureRescueInvited ==
  /\ at = "rescue_invite"
  /\ IF \/ team \ {"owner", "new"} # {} \/ ~ pending \subseteq {"new"}
        \/ ~NewIsAwaited /\ "rescue_invite" \in saved
       THEN Refuses
       ELSE /\ MoveTo(IF NewIsAwaited THEN "invited" ELSE "inviting")
            /\ UNCHANGED <<rescueTeam, target, removedNow, saved, removedSaved>>

InviteNewChild ==
  /\ at = "inviting" /\ MoveTo("invited")
  /\ pending' = pending \cup {"new"}
  /\ UNCHANGED <<team, going, entered, requests, target, removedNow, saved, removedSaved>>

SaveRescueInvite ==
  /\ at = "invited" /\ Keep("rescue_invite") /\ MoveTo("new_login")
  /\ UNCHANGED <<rescueTeam, target, removedNow, removedSaved>>

NewChildLogin ==
  /\ at = "new_login" /\ entered' = TRUE /\ Keep("new_login") /\ MoveTo("rescue_verify")
  /\ UNCHANGED <<team, pending, going, requests, target, removedNow, removedSaved>>

VerifyRescueMembership ==
  /\ at = "rescue_verify"
  /\ IF team = {"owner", "new"} /\ pending \subseteq {"new"}
       THEN /\ Keep("rescue_verify") /\ MoveTo("pat")
            /\ UNCHANGED <<rescueTeam, target, removedNow, removedSaved>>
       ELSE Refuses

\* The token is created, saved, and published.
RescuePublish ==
  /\ \/ at = "pat" /\ Keep("pat") /\ MoveTo("publish")
     \/ at = "publish" /\ MoveTo("returned") /\ UNCHANGED saved
  /\ UNCHANGED <<rescueTeam, target, removedNow, removedSaved>>

RescueStage ==
  \/ OwnerLogin \/ ClearTeamToOwner \/ NextRemoval \/ ClearRefused \/ RemoveMember
  \/ WaitUntilMemberAbsent \/ EnsureRescueInvited \/ InviteNewChild \/ SaveRescueInvite
  \/ NewChildLogin \/ VerifyRescueMembership \/ RescuePublish

RescueQueue ==
  \/ RescueBegin \/ RescueCrash \/ RescueError \/ RescueRetry \/ RescueRequestStop
  \/ RescueCancel \/ RescueAgain \/ RescueCommit

RescueTeamMoves ==
  NewChildJoins \/ \E p \in Others \cup {"new"} : RemovalApplied(p) \/ (p # "new" /\ Meddle(p))

RescueNext == RescueStage \/ RescueQueue \/ RescueTeamMoves

RescueSpec == RescueInit /\ [][RescueNext]_rescueVars

\* The worker and the Team go on, and the user retries or starts again.
RescueFairness ==
  /\ WF_rescueVars(RescueStage) /\ WF_rescueVars(RescueCancel)
  /\ WF_rescueVars(RescueBegin \/ RescueCommit) /\ WF_rescueVars(RescueRetry \/ RescueAgain)
  /\ WF_rescueVars(NewChildJoins)
  /\ \A p \in Others \cup {"new"} : WF_rescueVars(RemovalApplied(p))
-----------------------------------------------------------------------------
(* Properties. *)

\* A run never sends away the child it has invited, however often it is
\* interrupted and resumed: after the invitation the clearing is over.
InvitedChildIsKept ==
  [][\A p \in going' \ going : "rescue_invite" \notin saved /\ p # "owner"]_rescueVars

\* The limit on removals holds for the run and all its retries, except that
\* an interruption may lose the count of the one removal under way.
RemovalsAreBounded == requests <= MaxRemovals + interruptions

\* A rescue comes to an end in a rescued Team, if nobody meddles: interrupted,
\* failed or stopped, it is resumed or started again until it succeeds.
RescueCompletes == <>(rescue = "succeeded" \/ meddling > 0)
=============================================================================

------------------------------ MODULE Handoff ------------------------------
(***************************************************************************)
(* One handoff of a workspace (WorkflowRunner of src/team_protocol/        *)
(* workflow.py) against the remote Team: the old child invites the new     *)
(* one, leaves, and the new child joins and gets a personal access token.  *)
(* Every stage saves a checkpoint; the process may die between any remote  *)
(* call and the checkpoint that records it, and the run is then resumed.   *)
(* The Team itself (the external service) removes and adds members with a  *)
(* delay, and outsiders may come and go.                                   *)
(***************************************************************************)
EXTENDS Naturals, FiniteSets

CONSTANTS
  Outsiders,      \* people the workflow knows nothing about
  MaxCrashes, MaxErrors, MaxStops, MaxRuns,
  TokenMayExpire  \* the old child's access token may become invalid

Team == {"owner", "old", "new"}
People == Team \cup Outsiders
MemberLimit == 2

ASSUME HandoffAssumption ==
  /\ Outsiders \cap Team = {}
  /\ MaxCrashes \in Nat /\ MaxErrors \in Nat /\ MaxStops \in Nat /\ MaxRuns \in Nat
  /\ TokenMayExpire \in BOOLEAN

VARIABLES
  members, invited,  \* the remote Team: active members, pending invites
  leaving,           \* members whose removal was accepted, not yet applied
  expired,           \* the old child's token was invalidated
  signedIn,          \* the new child has logged in
  invites, pats,     \* how often the workflow invited, and created a token
  run,               \* runs.state
  pc,                \* where the runner is
  ck,                \* the steps in runs.checkpoint_blob
  stop,              \* the stop event is set
  crashes, errors, stops, runs

remote == <<members, invited, leaving, expired, signedIn, invites, pats>>
local  == <<run, pc, ck, stop>>
counts == <<crashes, errors, stops, runs>>
hvars  == <<remote, local, counts>>

Steps == {"old_login", "old_workspace", "invite", "leave_started", "old_leave",
          "new_login", "new_workspace", "member_verify", "pat", "exports",
          "pushes", "complete"}
Places == {"off", "old_login", "old_workspace", "invite", "inviting", "invited",
           "old_leave", "leaving", "departure", "left", "new_login",
           "new_workspace", "member_verify", "pat", "pat_created", "exports",
           "pushes", "finish", "returned"}

HTypeOK ==
  /\ members \subseteq People /\ invited \subseteq People /\ leaving \subseteq People
  /\ expired \in BOOLEAN /\ signedIn \in BOOLEAN
  /\ invites \in Nat /\ pats \in Nat
  /\ run \in {"queued", "running", "failed", "cancelled", "succeeded"}
  /\ pc \in Places /\ (run = "running" <=> pc # "off")
  /\ ck \subseteq Steps /\ stop \in BOOLEAN
  /\ crashes \in 0..MaxCrashes /\ errors \in 0..MaxErrors
  /\ stops \in 0..MaxStops /\ runs \in 0..MaxRuns

HInit ==
  /\ members = {"owner", "old"} /\ invited = {} /\ leaving = {}
  /\ expired = FALSE /\ signedIn = FALSE /\ invites = 0 /\ pats = 0
  /\ run = "queued" /\ pc = "off" /\ ck = {} /\ stop = FALSE
  /\ crashes = 0 /\ errors = 0 /\ stops = 0 /\ runs = 0

-----------------------------------------------------------------------------
(* The remote Team, external to the program. *)

Departs(p) ==
  /\ p \in leaving
  /\ members' = members \ {p} /\ leaving' = leaving \ {p}
  /\ UNCHANGED <<invited, expired, signedIn, invites, pats, local, counts>>

Joins ==
  /\ signedIn /\ "new" \in invited
  /\ members' = members \cup {"new"} /\ invited' = invited \ {"new"}
  /\ UNCHANGED <<leaving, expired, signedIn, invites, pats, local, counts>>

OutsiderMoves(x) ==
  /\ \/ x \in members /\ members' = members \ {x} /\ UNCHANGED invited
     \/ x \in invited /\ members' = members \cup {x} /\ invited' = invited \ {x}
     \/ x \notin members \cup invited /\ invited' = invited \cup {x} /\ UNCHANGED members
  /\ UNCHANGED <<leaving, expired, signedIn, invites, pats, local, counts>>

Expires ==
  /\ TokenMayExpire /\ expired' = TRUE
  /\ UNCHANGED <<members, invited, leaving, signedIn, invites, pats, local, counts>>

\* What a request with the old child's token gets: a former member may be
\* answered for some time still, or is refused with 401 or 403.
Answered == ~expired
Refused == expired \/ "old" \notin members

-----------------------------------------------------------------------------
(* The run in the queue. *)

Begin ==
  /\ run = "queued" /\ run' = "running"
  /\ pc' = "old_login"
  /\ UNCHANGED <<remote, ck, stop, counts>>

\* The process dies and comes back: recover_interrupted_runs.
Crash ==
  /\ run = "running" /\ run' = "queued"
  /\ crashes < MaxCrashes /\ crashes' = crashes + 1
  /\ pc' = "off" /\ stop' = FALSE
  /\ UNCHANGED <<remote, ck, errors, stops, runs>>

RequestStop ==
  /\ run = "running" /\ ~stop /\ stop' = TRUE
  /\ stops < MaxStops /\ stops' = stops + 1
  /\ UNCHANGED <<remote, run, pc, ck, crashes, errors, runs>>

\* The stage raises: the queue fails the run, or cancels it if it was stopped.
Raised ==
  /\ run' = IF stop THEN "cancelled" ELSE "failed"
  /\ pc' = "off" /\ stop' = FALSE
  /\ UNCHANGED <<remote, ck>>

\* _check_cancel at the start of a stage, in the settle wait and in the poll.
CheckCancel ==
  /\ stop
  /\ pc \in {"old_login", "old_workspace", "invite", "old_leave", "departure",
             "new_login", "new_workspace", "member_verify", "pat", "exports",
             "pushes", "finish"}
  /\ Raised
  /\ UNCHANGED counts

\* A request times out, a login or the completion is refused, a write fails.
Error ==
  /\ run = "running"
  /\ errors < MaxErrors /\ errors' = errors + 1
  /\ Raised
  /\ UNCHANGED <<crashes, stops, runs>>

Retry ==
  /\ run = "failed" /\ run' = "queued"
  /\ UNCHANGED <<remote, pc, ck, stop, counts>>

\* The workspace is ready again: a new run of the same two children.
NewRun ==
  /\ run \in {"cancelled", "failed"} /\ run' = "queued"
  /\ runs < MaxRuns /\ runs' = runs + 1
  /\ ck' = {}
  /\ UNCHANGED <<remote, pc, stop, crashes, errors, stops>>

\* runner.run() has returned: complete_run_and_rotate, or cancelled.
Commit ==
  /\ pc = "returned"
  /\ run' = IF stop THEN "cancelled" ELSE "succeeded"
  /\ pc' = "off" /\ stop' = FALSE
  /\ UNCHANGED <<remote, ck, counts>>

-----------------------------------------------------------------------------
(* The stages. *)

Saved(step) == step \in ck
Save(steps) == ck' = ck \cup steps
Goto(place) == pc' = place /\ UNCHANGED <<run, stop, counts>>
Fails == Raised /\ UNCHANGED counts

OldLogin ==
  /\ pc = "old_login"
  /\ Save({"old_login"}) /\ Goto("old_workspace") /\ UNCHANGED remote

\* A session can be switched to the Team by a member only.
OldWorkspace ==
  /\ pc = "old_workspace"
  /\ IF Saved("old_workspace") \/ "old" \in members
       THEN Save({"old_workspace"}) /\ Goto("invite") /\ UNCHANGED remote
       ELSE Fails

\* Mutants: the pending invitations are not read; a full Team is taken for one
\* that the new child has joined.
AlreadyMember == "new" \in members
FullOrInvited == "new" \in invited \/ Cardinality(members) = MemberLimit

AlreadyInvited == "new" \in members \cup invited

EnsureInvited ==
  /\ pc = "invite"
  /\ \/ /\ Saved("invite") /\ (Saved("leave_started") \/ Saved("old_leave"))
        /\ Goto("old_leave") /\ UNCHANGED <<remote, ck>>
     \/ /\ ~(Saved("invite") /\ (Saved("leave_started") \/ Saved("old_leave")))
        /\ \/ Refused /\ Fails
           \/ /\ Answered
              /\ IF Cardinality(members) > MemberLimit \/ invited \ {"new"} # {}
                   THEN Fails
                   ELSE /\ Goto(IF Saved("invite") THEN "old_leave"
                                ELSE IF AlreadyInvited THEN "invited"
                                ELSE "inviting")
                        /\ UNCHANGED <<remote, ck>>

Invite ==
  /\ pc = "inviting"
  /\ \/ Refused /\ Fails
     \/ /\ Answered
        /\ invited' = invited \cup {"new"} /\ invites' = invites + 1
        /\ Goto("invited")
        /\ UNCHANGED <<members, leaving, expired, signedIn, pats, ck>>

SaveInvite ==
  /\ pc = "invited"
  /\ Save({"invite"}) /\ Goto("old_leave") /\ UNCHANGED remote

LeaveOldAccount ==
  /\ pc = "old_leave"
  /\ \/ Saved("old_leave") /\ Goto("departure") /\ UNCHANGED <<remote, ck>>
     \/ /\ ~Saved("old_leave") /\ Refused
        /\ IF Saved("leave_started") THEN Goto("left") /\ UNCHANGED <<remote, ck>>
           ELSE Fails
     \/ /\ ~Saved("old_leave") /\ Answered /\ UNCHANGED remote
        /\ IF "old" \in members THEN Save({"leave_started"}) /\ Goto("leaving")
           ELSE Goto("departure") /\ UNCHANGED ck

Leave ==
  /\ pc = "leaving"
  /\ \/ Refused /\ Fails
     \/ /\ Answered
        /\ leaving' = leaving \cup ({"old"} \cap members)
        /\ Goto("departure")
        /\ UNCHANGED <<members, invited, expired, signedIn, invites, pats, ck>>

Departed ==
  "old" \notin members /\ (Cardinality(members) < MemberLimit \/ "new" \in members)

\* Poll until the old child is gone and there is room, or give up.
WaitForOldDeparture ==
  /\ pc = "departure"
  /\ LET started == Saved("leave_started") \/ Saved("old_leave")
     IN  \/ Refused /\ IF started THEN Goto("left") /\ UNCHANGED <<remote, ck>> ELSE Fails
         \/ /\ Answered
            /\ IF Cardinality(members) <= MemberLimit /\ Departed
                 THEN Goto("left") /\ UNCHANGED <<remote, ck>>
                 ELSE Fails

SaveLeave ==
  /\ pc = "left"
  /\ Save({"old_leave"}) /\ Goto("new_login") /\ UNCHANGED remote

NewLogin ==
  /\ pc = "new_login"
  /\ signedIn' = TRUE
  /\ Save({"new_login"}) /\ Goto("new_workspace")
  /\ UNCHANGED <<members, invited, leaving, expired, invites, pats>>

NewWorkspace ==
  /\ pc = "new_workspace"
  /\ IF Saved("new_workspace") \/ "new" \in members
       THEN Save({"new_workspace"}) /\ Goto("member_verify") /\ UNCHANGED remote
       ELSE Fails

\* Mutant: only the arrival is verified.
VerifyArrival ==
  /\ pc = "member_verify"
  /\ IF "new" \in members
       THEN Save({"member_verify"}) /\ Goto("pat") /\ UNCHANGED remote
       ELSE Fails

VerifyTeamMembership ==
  /\ pc = "member_verify"
  /\ IF /\ Cardinality(members) <= MemberLimit
        /\ "old" \notin members /\ "new" \in members
       THEN Save({"member_verify"}) /\ Goto("pat") /\ UNCHANGED remote
       ELSE Fails

CreatePat ==
  /\ pc = "pat"
  /\ IF Saved("pat") THEN Goto("exports") /\ UNCHANGED <<remote, ck>>
     ELSE /\ pats' = pats + 1 /\ Goto("pat_created")
          /\ UNCHANGED <<members, invited, leaving, expired, signedIn, invites, ck>>

SavePat ==
  /\ pc = "pat_created"
  /\ Save({"pat"}) /\ Goto("exports") /\ UNCHANGED remote

\* The two files, then the two pushes: each is written or replaced by name.
Publish ==
  /\ \/ pc = "exports" /\ Save({"exports"}) /\ Goto("pushes")
     \/ pc = "pushes" /\ Save({"pushes"}) /\ Goto("finish")
     \/ pc = "finish" /\ Save({"complete"}) /\ Goto("returned")
  /\ UNCHANGED remote

Stage ==
  \/ OldLogin \/ OldWorkspace \/ EnsureInvited \/ Invite \/ SaveInvite
  \/ LeaveOldAccount \/ Leave \/ WaitForOldDeparture \/ SaveLeave
  \/ NewLogin \/ NewWorkspace \/ VerifyTeamMembership
  \/ CreatePat \/ SavePat \/ Publish

Queue == Begin \/ Commit \/ Retry \/ NewRun \/ Crash \/ RequestStop \/ CheckCancel \/ Error

RemoteNext ==
  \/ \E p \in People : Departs(p)
  \/ Joins \/ Expires
  \/ \E x \in Outsiders : OutsiderMoves(x)

HNext == Stage \/ Queue \/ RemoteNext

HSpec == HInit /\ [][HNext]_hvars

\* The worker and the Team go on, and the user retries what failed.
HFairness ==
  /\ WF_hvars(Stage) /\ WF_hvars(Begin) /\ WF_hvars(Commit) /\ WF_hvars(Retry)
  /\ WF_hvars(CheckCancel)
  /\ WF_hvars(Joins) /\ \A p \in People : WF_hvars(Departs(p))
-----------------------------------------------------------------------------
(* Properties. *)

\* README.md: the new child's login goes on only once the old child is gone,
\* so the two are never members together, across crashes, retries and new
\* runs, although the Team applies the removal with a delay.
NewLoginAfterDeparture ==
  pc \in {"new_login", "new_workspace", "member_verify"} \/ signedIn
    => "old" \notin members

\* README.md: resuming a run does not invite twice, nor does a new run of the
\* same children; the checkpoint may be lost, so only the Team can tell.
InvitedOnce == invites <= 1

\* README.md: it does not create a remote resource twice either.
OnePat == runs = 0 => pats <= 1

\* A run succeeds only if the Team has been handed over: the new child is a
\* member, the old one is not, and there is a token.
SuccessIsHandover ==
  run = "succeeded" => "new" \in members /\ "old" \notin members /\ pats > 0

\* What OnePat leaves: each further token is the price of one crash, one error
\* or one new run, the token whose creation was not saved yet.
TokensArePaidFor == pats <= 1 + crashes + errors + runs

\* A Team is handed over at most once, and not less than once by a run that
\* succeeds, whatever interrupted it and whoever else works on the Team; and
\* no retry makes a token that an earlier attempt has saved.
OneHandover == InvitedOnce /\ SuccessIsHandover /\ TokensArePaidFor

\* The old child is never sent away before its successor can come in.
LeaveAfterInvite ==
  [][\A p \in leaving' \ leaving : p = "old" /\ "new" \in invited \cup members]_hvars

\* README.md: no token before the handover is verified: when one is created,
\* the new child is in the Team and the old one has left it.
PatAfterHandover ==
  [][pats' > pats => "new" \in members /\ "old" \notin members]_hvars

\* However often the run is interrupted or fails, it is resumed to success,
\* if nobody stops it or interferes with the Team.
HandoffCompletes == <>(run = "succeeded")
=============================================================================

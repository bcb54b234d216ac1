---------------------------- MODULE Team_proofs -----------------------------
(***************************************************************************)
(* Proofs about the two workflows that change who is in a Team: the        *)
(* handoff, for any number of outsiders, crashes, errors, stops and new    *)
(* runs, and the rescue, for any members and any limit on removals too.    *)
(***************************************************************************)
EXTENDS Handoff, Rescue, TLAPS

(***************************************************************************)
(* The handoff.                                                            *)
(***************************************************************************)
Invited == {"invited", "old_leave", "leaving", "departure"}
SwitchedBack == {"pat", "pat_created", "exports", "pushes", "finish", "returned"}
LoggingIn == {"left", "new_login", "new_workspace", "member_verify"}
TokenMade == {"pat_created", "exports", "pushes", "finish", "returned"}

\* Once the new child was invited, it stays invited or has become a member:
\* only the Team tells this to a run whose checkpoint is lost.
Welcome ==
  \/ pc \in Invited \cup LoggingIn \cup SwitchedBack
  \/ ck \cap {"invite", "leave_started", "old_leave"} # {}
  \/ invites > 0
  => "new" \in invited \cup members

\* The inductive invariant of the remote Team and the checkpoint.
TeamInv ==
  /\ HTypeOK
  /\ leaving \subseteq {"old"}
  /\ Welcome
  /\ invites <= 1 /\ (pc = "inviting" => invites = 0)
  /\ pc \in {"member_verify"} \cup SwitchedBack \/ "new_workspace" \in ck
       => "new" \in members
  /\ pc \in SwitchedBack \/ run = "succeeded" => "old" \notin members
  /\ pc \in TokenMade \/ "pat" \in ck \/ run = "succeeded" => pats > 0
  /\ run = "succeeded" => "new" \in members

USE DEF Saved, Save, Goto, Fails, Raised, Answered, Refused, Team, AlreadyInvited,
        Departed, remote, local, counts

LEMMA HInitInv == HInit => TeamInv
<1> SUFFICES ASSUME HInit
             PROVE  TeamInv
  OBVIOUS
<1>1. /\ invites \in Nat /\ pats \in Nat /\ invites <= 1 /\ ~(invites > 0)
      /\ crashes \in 0..MaxCrashes /\ errors \in 0..MaxErrors
      /\ stops \in 0..MaxStops /\ runs \in 0..MaxRuns
  BY HandoffAssumption DEF HInit
<1>2. HTypeOK
  BY <1>1 DEF HInit, HTypeOK, Places, Steps, People
<1> QED
  BY <1>1, <1>2
     DEF HInit, TeamInv, Welcome, Invited, SwitchedBack, LoggingIn, TokenMade

LEMMA StageType ==
  ASSUME HTypeOK, Stage
  PROVE  HTypeOK'
<1> USE DEF HTypeOK, Places, Steps, People
<1>1. CASE OldLogin \/ OldWorkspace \/ EnsureInvited \/ Invite \/ SaveInvite
  <2>1. CASE OldLogin \/ OldWorkspace \/ SaveInvite
    BY <2>1 DEF OldLogin, OldWorkspace, SaveInvite
  <2>2. CASE EnsureInvited
    BY <2>2 DEF EnsureInvited
  <2>3. CASE Invite
    <3>1. invites' \in Nat
      BY <2>3 DEF Invite
    <3> QED
      BY <2>3, <3>1 DEF Invite
  <2> QED
    BY <1>1, <2>1, <2>2, <2>3
<1>2. CASE LeaveOldAccount \/ Leave \/ WaitForOldDeparture \/ SaveLeave
  <2>1. CASE LeaveOldAccount
    BY <2>1 DEF LeaveOldAccount
  <2>2. CASE Leave
    BY <2>2 DEF Leave
  <2>3. CASE WaitForOldDeparture \/ SaveLeave
    BY <2>3 DEF WaitForOldDeparture, SaveLeave
  <2> QED
    BY <1>2, <2>1, <2>2, <2>3
<1>3. CASE NewLogin \/ NewWorkspace \/ VerifyTeamMembership
  BY <1>3 DEF NewLogin, NewWorkspace, VerifyTeamMembership
<1>4. CASE CreatePat \/ SavePat \/ Publish
  <2>1. pats' \in Nat
    BY <1>4 DEF CreatePat, SavePat, Publish
  <2>2. CASE CreatePat
    BY <2>1, <2>2 DEF CreatePat
  <2>3. CASE SavePat
    BY <2>1, <2>3 DEF SavePat
  <2>4. CASE Publish
    BY <2>1, <2>4 DEF Publish
  <2> QED
    BY <1>4, <2>2, <2>3, <2>4
<1> QED
  BY <1>1, <1>2, <1>3, <1>4 DEF Stage

LEMMA QueueType ==
  ASSUME HTypeOK, Queue
  PROVE  HTypeOK'
<1> USE DEF HTypeOK, Places, Steps, People
<1>1. /\ crashes' \in 0..MaxCrashes /\ errors' \in 0..MaxErrors
      /\ stops' \in 0..MaxStops /\ runs' \in 0..MaxRuns
  BY HandoffAssumption
     DEF Queue, Begin, Commit, Retry, NewRun, Crash, RequestStop, CheckCancel, Error
<1>2. CASE Begin \/ Retry \/ NewRun
  BY <1>1, <1>2 DEF Begin, Retry, NewRun
<1>3. CASE Commit
  BY <1>1, <1>3 DEF Commit
<1>4. CASE Crash \/ RequestStop
  BY <1>1, <1>4 DEF Crash, RequestStop
<1>5. CASE CheckCancel
  BY <1>1, <1>5 DEF CheckCancel
<1>6. CASE Error
  BY <1>1, <1>6 DEF Error
<1> QED
  BY <1>2, <1>3, <1>4, <1>5, <1>6 DEF Queue

LEMMA RemoteType ==
  ASSUME HTypeOK, RemoteNext
  PROVE  HTypeOK'
BY DEF HTypeOK, People, RemoteNext, Departs, Joins, Expires, OutsiderMoves

\* The Team only ever loses the old child, and outsiders.
LEMMA RemoteInv ==
  ASSUME TeamInv, RemoteNext
  PROVE  TeamInv'
<1>1. HTypeOK'
  BY RemoteType DEF TeamInv
<1>2. /\ leaving' \subseteq leaving /\ UNCHANGED <<invites, pats, run, pc, ck>>
      /\ "new" \in members => "new" \in members'
      /\ "new" \in invited \cup members => "new" \in invited' \cup members'
      /\ "old" \notin members => "old" \notin members'
  BY HandoffAssumption DEF TeamInv, RemoteNext, Departs, Joins, Expires, OutsiderMoves
<1> QED
  BY <1>1, <1>2 DEF TeamInv, Welcome

LEMMA QueueInv ==
  ASSUME TeamInv, Queue
  PROVE  TeamInv'
<1>1. HTypeOK'
  BY QueueType DEF TeamInv
<1>2. remote' = remote
  BY DEF Queue, Begin, Commit, Retry, NewRun, Crash, RequestStop, CheckCancel, Error
<1>3. ck' \subseteq ck
  BY DEF Queue, Begin, Commit, Retry, NewRun, Crash, RequestStop, CheckCancel, Error
<1>4. pc' \in {"off", "old_login", pc}
  BY DEF Queue, Begin, Commit, Retry, NewRun, Crash, RequestStop, CheckCancel, Error
<1>5. run' = "succeeded" => run = "succeeded" \/ pc = "returned"
  BY DEF Queue, Begin, Commit, Retry, NewRun, Crash, RequestStop, CheckCancel, Error
<1> QED
  BY <1>1, <1>2, <1>3, <1>4, <1>5
     DEF TeamInv, Welcome, Invited, LoggingIn, SwitchedBack, TokenMade

LEMMA StageInv ==
  ASSUME TeamInv, Stage
  PROVE  TeamInv'
<1>1. HTypeOK'
  BY StageType DEF TeamInv
<1> USE <1>1 DEF TeamInv, Welcome, Invited, LoggingIn, SwitchedBack, TokenMade
<1>2. CASE OldLogin
  BY <1>2 DEF OldLogin
<1>3. CASE OldWorkspace
  <2>1. CASE Fails
    BY <2>1
  <2>2. CASE /\ ck' = ck \cup {"old_workspace"} /\ pc' = "invite"
             /\ UNCHANGED <<run, remote>>
    BY <2>2
  <2> QED
    BY <1>3, <2>1, <2>2 DEF OldWorkspace
<1>4. CASE EnsureInvited
  BY <1>4 DEF EnsureInvited, HTypeOK
<1>5. CASE Invite
  BY <1>5 DEF Invite, HTypeOK
<1>6. CASE SaveInvite
  BY <1>6 DEF SaveInvite
<1>7. CASE LeaveOldAccount
  <2>1. CASE Fails
    BY <2>1
  <2>2. CASE /\ pc = "old_leave" /\ ck' \in {ck, ck \cup {"leave_started"}}
             /\ pc' \in {"departure", "left", "leaving"} /\ UNCHANGED <<run, remote>>
    BY <2>2
  <2> QED
    BY <1>7, <2>1, <2>2 DEF LeaveOldAccount
<1>8. CASE Leave
  BY <1>8 DEF Leave
<1>9. CASE WaitForOldDeparture
  BY <1>9 DEF WaitForOldDeparture
<1>10. CASE SaveLeave
  BY <1>10 DEF SaveLeave
<1>11. CASE NewLogin
  BY <1>11 DEF NewLogin
<1>12. CASE NewWorkspace
  <2>1. CASE Fails
    BY <2>1
  <2>2. CASE /\ ck' = ck \cup {"new_workspace"} /\ pc' = "member_verify"
             /\ "new" \in members /\ UNCHANGED <<run, remote>>
    BY <2>2
  <2> QED
    BY <1>12, <2>1, <2>2 DEF NewWorkspace
<1>13. CASE VerifyTeamMembership
  BY <1>13 DEF VerifyTeamMembership
<1>14. CASE CreatePat
  BY <1>14 DEF CreatePat, HTypeOK
<1>15. CASE SavePat
  BY <1>15 DEF SavePat
<1>16. CASE Publish
  BY <1>16 DEF Publish
<1> QED
  BY <1>2, <1>3, <1>4, <1>5, <1>6, <1>7, <1>8, <1>9, <1>10, <1>11, <1>12, <1>13, <1>14,
     <1>15, <1>16 DEF Stage

LEMMA NextInv == TeamInv /\ [HNext]_hvars => TeamInv'
<1> SUFFICES ASSUME TeamInv, [HNext]_hvars
             PROVE  TeamInv'
  OBVIOUS
<1>1. CASE UNCHANGED hvars
  BY <1>1 DEF hvars, TeamInv, Welcome, HTypeOK
<1> QED
  BY <1>1, StageInv, QueueInv, RemoteInv DEF HNext

\* Type correctness, and a run is running exactly while its runner is at work.
THEOREM HandoffTypes == HSpec => []HTypeOK
<1>1. TeamInv => HTypeOK
  BY DEF TeamInv
<1> QED
  BY <1>1, HInitInv, NextInv, PTL DEF HSpec

\* A token that the checkpoint knows, or that is about to be saved, is the one
\* that this run may have for nothing: every other one was lost to a crash, an
\* error, or a new run, which starts with an empty checkpoint.
KnownTokens == IF pc = "pat_created" \/ "pat" \in ck THEN 1 ELSE 0
TokensCounted == pats <= KnownTokens + crashes + errors + runs

LEMMA TokensCountedInit == HInit => TokensCounted
BY HandoffAssumption DEF HInit, TokensCounted, KnownTokens

LEMMA OnePaidMore ==
  ASSUME NEW p \in Nat, NEW c \in Nat, NEW e \in Nat, NEW r \in Nat, NEW k \in 0..1,
         NEW l \in 0..1, p <= k + c + e + r
  PROVE  p <= l + (c + 1) + e + r /\ p <= l + c + (e + 1) + r /\ p <= l + c + e + (r + 1)
OBVIOUS

LEMMA TokensCountedStep ==
  ASSUME HTypeOK, HTypeOK', TokensCounted, [HNext]_hvars
  PROVE  TokensCounted'
<1> USE DEF TokensCounted, KnownTokens
<1>1. /\ pats \in Nat /\ crashes \in Nat /\ errors \in Nat /\ runs \in Nat
      /\ pats' \in Nat /\ crashes' \in Nat /\ errors' \in Nat /\ runs' \in Nat
  BY HandoffAssumption DEF HTypeOK
<1>2. CASE Stage
  <2>1. counts' = counts
    BY <1>2 DEF Stage, OldLogin, OldWorkspace, EnsureInvited, Invite, SaveInvite,
                LeaveOldAccount, Leave, WaitForOldDeparture, SaveLeave, NewLogin,
                NewWorkspace, VerifyTeamMembership, CreatePat, SavePat, Publish
  <2>2. CASE OldLogin \/ OldWorkspace \/ EnsureInvited \/ Invite \/ SaveInvite
    <3>1. pats' = pats /\ ck \subseteq ck' /\ pc # "pat_created"
      BY <2>2 DEF OldLogin, OldWorkspace, EnsureInvited, Invite, SaveInvite
    <3> QED
      BY <1>1, <2>1, <3>1
  <2>3. CASE LeaveOldAccount \/ Leave \/ WaitForOldDeparture \/ SaveLeave
    <3>1. pats' = pats /\ ck \subseteq ck' /\ pc # "pat_created"
      BY <2>3 DEF LeaveOldAccount, Leave, WaitForOldDeparture, SaveLeave
    <3> QED
      BY <1>1, <2>1, <3>1
  <2>4. CASE NewLogin \/ NewWorkspace \/ VerifyTeamMembership \/ Publish
    <3>1. pats' = pats /\ ck \subseteq ck' /\ pc # "pat_created"
      BY <2>4 DEF NewLogin, NewWorkspace, VerifyTeamMembership, Publish
    <3> QED
      BY <1>1, <2>1, <3>1
  <2>5. CASE CreatePat \/ SavePat
    <3>1. \/ pats' = pats /\ "pat" \in ck'
          \/ pats' = pats + 1 /\ pc' = "pat_created" /\ pc # "pat_created" /\ "pat" \notin ck
      BY <2>5 DEF CreatePat, SavePat
    <3>2. CASE pats' = pats /\ "pat" \in ck'
      BY <1>1, <2>1, <3>2
    <3> QED
      BY <1>1, <2>1, <3>1, <3>2
  <2> QED
    BY <1>2, <2>2, <2>3, <2>4, <2>5 DEF Stage
<1>3. CASE Queue
  <2>1. CASE Begin \/ Commit \/ Retry \/ RequestStop \/ CheckCancel
    <3>1. /\ UNCHANGED <<pats, ck, crashes, errors, runs>>
          /\ pc' = "pat_created" <=> pc = "pat_created"
      BY <2>1 DEF HTypeOK, Begin, Commit, Retry, RequestStop, CheckCancel
    <3> QED
      BY <3>1
  <2>2. CASE NewRun \/ Crash \/ Error
    <3>1. pats' = pats /\ KnownTokens \in 0..1 /\ KnownTokens' \in 0..1
      BY <2>2 DEF NewRun, Crash, Error
    <3> HIDE DEF KnownTokens
    <3>2. \/ crashes' = crashes + 1 /\ errors' = errors /\ runs' = runs
          \/ crashes' = crashes /\ errors' = errors + 1 /\ runs' = runs
          \/ crashes' = crashes /\ errors' = errors /\ runs' = runs + 1
      BY <2>2 DEF NewRun, Crash, Error
    <3> QED
      BY <1>1, <3>1, <3>2, OnePaidMore
  <2> QED
    BY <1>3, <2>1, <2>2 DEF Queue
<1>4. CASE RemoteNext
  BY <1>4 DEF RemoteNext, Departs, Joins, Expires, OutsiderMoves
<1>5. CASE UNCHANGED hvars
  BY <1>5 DEF hvars
<1> QED
  BY <1>2, <1>3, <1>4, <1>5 DEF HNext

\* The same as one invariant: what every handoff keeps.
HandoffInv == TeamInv /\ TokensCounted

LEMMA HandoffInvInit == HInit => HandoffInv
BY HInitInv, TokensCountedInit DEF HandoffInv

LEMMA HandoffInvStep == HandoffInv /\ [HNext]_hvars => HandoffInv'
<1> SUFFICES ASSUME HandoffInv, [HNext]_hvars
             PROVE  HandoffInv'
  OBVIOUS
<1>1. TeamInv' /\ HTypeOK /\ HTypeOK'
  BY NextInv DEF HandoffInv, TeamInv
<1> QED
  BY <1>1, TokensCountedStep DEF HandoffInv

LEMMA HandoffInvMeans == HandoffInv => OneHandover
<1> SUFFICES ASSUME HandoffInv
             PROVE  OneHandover
  OBVIOUS
<1>1. InvitedOnce /\ SuccessIsHandover
  BY DEF HandoffInv, TeamInv, InvitedOnce, SuccessIsHandover
<1>2. /\ pats \in Nat /\ crashes \in Nat /\ errors \in Nat /\ runs \in Nat
      /\ KnownTokens \in {0, 1}
  BY HandoffAssumption DEF HandoffInv, TeamInv, HTypeOK, KnownTokens
<1>3. TokensArePaidFor
  BY <1>2 DEF HandoffInv, TokensCounted, TokensArePaidFor
<1> QED
  BY <1>1, <1>3 DEF OneHandover

\* However the run is interrupted, repeated or started anew, the new child is
\* invited at most once, success means that the Team was handed over, and there
\* are no more tokens than one and one for each interruption.
THEOREM InviteAndSuccess == HSpec => []OneHandover
BY HandoffInvInit, HandoffInvStep, HandoffInvMeans, PTL DEF HSpec

LEMMA LeaveStep ==
  TeamInv /\ [HNext]_hvars =>
    [\A p \in leaving' \ leaving : p = "old" /\ "new" \in invited \cup members]_hvars
<1> SUFFICES ASSUME TeamInv, HNext, NEW p \in leaving' \ leaving
             PROVE  p = "old" /\ "new" \in invited \cup members
  OBVIOUS
<1>1. Leave
  <2>1. Stage \/ Queue \/ RemoteNext
    BY DEF HNext
  <2>2. ~Queue
    BY DEF Queue, Begin, Commit, Retry, NewRun, Crash, RequestStop, CheckCancel, Error
  <2>3. ~RemoteNext
    BY DEF RemoteNext, Departs, Joins, Expires, OutsiderMoves
  <2> QED
    BY <2>1, <2>2, <2>3
       DEF Stage, OldLogin, OldWorkspace, EnsureInvited, Invite, SaveInvite,
           LeaveOldAccount, WaitForOldDeparture, SaveLeave, NewLogin, NewWorkspace,
           VerifyTeamMembership, CreatePat, SavePat, Publish
<1> QED
  BY <1>1 DEF Leave, TeamInv, Welcome, Invited

\* The old child is asked to leave only when its successor can come in.
THEOREM LeaveNeedsInvite == HSpec => LeaveAfterInvite
BY LeaveStep, HInitInv, NextInv, PTL DEF HSpec, LeaveAfterInvite

LEMMA PatStep ==
  TeamInv /\ [HNext]_hvars =>
    [pats' > pats => "new" \in members /\ "old" \notin members]_hvars
<1> SUFFICES ASSUME TeamInv, HNext, pats' > pats
             PROVE  "new" \in members /\ "old" \notin members
  OBVIOUS
<1>1. pats' # pats
  BY DEF TeamInv, HTypeOK
<1>2. CreatePat
  <2>1. ~Queue
    BY <1>1 DEF Queue, Begin, Commit, Retry, NewRun, Crash, RequestStop, CheckCancel, Error
  <2>2. ~RemoteNext
    BY <1>1 DEF RemoteNext, Departs, Joins, Expires, OutsiderMoves
  <2> QED
    BY <1>1, <2>1, <2>2
       DEF HNext, Stage, OldLogin, OldWorkspace, EnsureInvited, Invite, SaveInvite,
           LeaveOldAccount, Leave, WaitForOldDeparture, SaveLeave, NewLogin, NewWorkspace,
           VerifyTeamMembership, SavePat, Publish
<1> QED
  BY <1>2 DEF CreatePat, TeamInv, SwitchedBack

\* A token is created only when the Team has been handed over.
THEOREM PatNeedsHandover == HSpec => PatAfterHandover
BY PatStep, HInitInv, NextInv, PTL DEF HSpec, PatAfterHandover

(***************************************************************************)
(* An attempt of the handoff is over after so many stages at most: what is *)
(* left to prove of its liveness is only that the worker goes on.          *)
(***************************************************************************)
StagesLeft ==
  [off |-> 0, old_login |-> 18, old_workspace |-> 17, invite |-> 16, inviting |-> 15,
   invited |-> 14, old_leave |-> 13, leaving |-> 12, departure |-> 11, left |-> 10,
   new_login |-> 9, new_workspace |-> 8, member_verify |-> 7, pat |-> 6,
   pat_created |-> 5, exports |-> 4, pushes |-> 3, finish |-> 2, returned |-> 1]

\* Each stage brings the runner nearer to its end, and no step of the queue,
\* of the Team or of an outsider takes it back; only a new attempt starts over.
AttemptsEnd ==
  [][/\ Stage => StagesLeft[pc'] < StagesLeft[pc]
     /\ pc' # pc => StagesLeft[pc'] < StagesLeft[pc] \/ Begin]_hvars

LEMMA StagesShorten ==
  ASSUME HTypeOK, Stage
  PROVE  StagesLeft[pc'] < StagesLeft[pc]
<1> USE DEF StagesLeft
<1>1. CASE OldLogin \/ OldWorkspace \/ EnsureInvited \/ Invite \/ SaveInvite
  <2>1. \/ pc = "old_login" /\ pc' = "old_workspace"
        \/ pc = "old_workspace" /\ pc' \in {"invite", "off"}
        \/ pc = "invite" /\ pc' \in {"old_leave", "invited", "inviting", "off"}
        \/ pc = "inviting" /\ pc' \in {"invited", "off"}
        \/ pc = "invited" /\ pc' = "old_leave"
    BY <1>1 DEF OldLogin, OldWorkspace, EnsureInvited, Invite, SaveInvite
  <2> QED
    BY <2>1
<1>2. CASE LeaveOldAccount \/ Leave \/ WaitForOldDeparture \/ SaveLeave
  <2>1. \/ pc = "old_leave" /\ pc' \in {"departure", "left", "leaving", "off"}
        \/ pc = "leaving" /\ pc' \in {"departure", "off"}
        \/ pc = "departure" /\ pc' \in {"left", "off"}
        \/ pc = "left" /\ pc' = "new_login"
    BY <1>2 DEF LeaveOldAccount, Leave, WaitForOldDeparture, SaveLeave
  <2> QED
    BY <2>1
<1>3. CASE NewLogin \/ NewWorkspace \/ VerifyTeamMembership
  <2>1. \/ pc = "new_login" /\ pc' = "new_workspace"
        \/ pc = "new_workspace" /\ pc' \in {"member_verify", "off"}
        \/ pc = "member_verify" /\ pc' \in {"pat", "off"}
    BY <1>3 DEF NewLogin, NewWorkspace, VerifyTeamMembership
  <2> QED
    BY <2>1
<1>4. CASE CreatePat \/ SavePat \/ Publish
  <2>1. \/ pc = "pat" /\ pc' \in {"pat_created", "exports"}
        \/ pc = "pat_created" /\ pc' = "exports"
        \/ pc = "exports" /\ pc' = "pushes"
        \/ pc = "pushes" /\ pc' = "finish"
        \/ pc = "finish" /\ pc' = "returned"
    BY <1>4 DEF CreatePat, SavePat, Publish
  <2> QED
    BY <2>1
<1> QED
  BY <1>1, <1>2, <1>3, <1>4 DEF Stage

\* An attempt takes at most eighteen stages, whoever else works on the Team.
THEOREM HandoffAttemptsEnd == HSpec => AttemptsEnd
<1>1. TeamInv /\ [HNext]_hvars =>
        [/\ Stage => StagesLeft[pc'] < StagesLeft[pc]
         /\ pc' # pc => StagesLeft[pc'] < StagesLeft[pc] \/ Begin]_hvars
  <2> SUFFICES ASSUME TeamInv, HNext
               PROVE  /\ Stage => StagesLeft[pc'] < StagesLeft[pc]
                      /\ pc' # pc => StagesLeft[pc'] < StagesLeft[pc] \/ Begin
    OBVIOUS
  <2>1. HTypeOK
    BY DEF TeamInv
  <2>2. CASE Stage
    BY <2>1, <2>2, StagesShorten
  <2>3. CASE Queue /\ ~Stage
    <3>1. pc' = pc \/ pc' = "off" \/ Begin
      BY <2>3 DEF Queue, Begin, Commit, Retry, NewRun, Crash, RequestStop, CheckCancel, Error
    <3>2. pc \in Places /\ (pc # "off" => 0 < StagesLeft[pc])
      BY <2>1 DEF HTypeOK, Places, StagesLeft
    <3>3. StagesLeft["off"] = 0
      BY DEF StagesLeft
    <3> QED
      BY <2>3, <3>1, <3>2, <3>3
  <2>4. CASE RemoteNext /\ ~Stage
    BY <2>4 DEF RemoteNext, Departs, Joins, Expires, OutsiderMoves
  <2> QED
    BY <2>2, <2>3, <2>4 DEF HNext
<1> QED
  BY <1>1, HInitInv, NextInv, PTL DEF HSpec, AttemptsEnd

(***************************************************************************)
(* The order of departure and login needs a valid token.                   *)
(***************************************************************************)
DepartureInv ==
  /\ TeamInv /\ ~expired
  /\ pc \in LoggingIn \/ signedIn => "old" \notin members

LEMMA DepartureStep ==
  ASSUME TokenMayExpire = FALSE, DepartureInv, TeamInv', [HNext]_hvars
  PROVE  DepartureInv'
<1>1. CASE Stage
  <2> USE DEF DepartureInv, LoggingIn
  <2>1. CASE OldLogin \/ OldWorkspace \/ EnsureInvited \/ Invite \/ SaveInvite
    BY <2>1 DEF OldLogin, OldWorkspace, EnsureInvited, Invite, SaveInvite
  <2>2. CASE LeaveOldAccount \/ Leave \/ WaitForOldDeparture \/ SaveLeave
    BY <2>2 DEF LeaveOldAccount, Leave, WaitForOldDeparture, SaveLeave
  <2>3. CASE NewLogin \/ NewWorkspace \/ VerifyTeamMembership
    BY <2>3 DEF NewLogin, NewWorkspace, VerifyTeamMembership
  <2>4. CASE CreatePat \/ SavePat \/ Publish
    BY <2>4 DEF CreatePat, SavePat, Publish
  <2> QED
    BY <1>1, <2>1, <2>2, <2>3, <2>4 DEF Stage
<1>2. CASE Queue
  <2>1. UNCHANGED remote /\ pc' \in {"off", "old_login", pc}
    BY <1>2 DEF Queue, Begin, Commit, Retry, NewRun, Crash, RequestStop, CheckCancel, Error
  <2> QED
    BY <2>1 DEF DepartureInv, LoggingIn
<1>3. CASE RemoteNext
  <2>1. /\ UNCHANGED <<pc, signedIn, expired>>
        /\ "old" \notin members => "old" \notin members'
    BY <1>3, HandoffAssumption DEF DepartureInv, RemoteNext, Departs, Joins, Expires,
                                   OutsiderMoves
  <2> QED
    BY <2>1 DEF DepartureInv
<1>4. CASE UNCHANGED hvars
  BY <1>4 DEF hvars, DepartureInv
<1> QED
  BY <1>1, <1>2, <1>3, <1>4 DEF HNext

\* As long as the old child's token is not invalidated, the new child's login
\* begins after the old child has left, and the two are never together.
THEOREM DepartureFirst == TokenMayExpire = FALSE => (HSpec => []NewLoginAfterDeparture)
<1> SUFFICES ASSUME TokenMayExpire = FALSE
             PROVE  HSpec => []NewLoginAfterDeparture
  OBVIOUS
<1>1. HInit => DepartureInv
  BY HInitInv DEF HInit, DepartureInv, LoggingIn
<1>2. DepartureInv /\ TeamInv' /\ [HNext]_hvars => DepartureInv'
  BY DepartureStep
<1>3. DepartureInv => NewLoginAfterDeparture
  BY DEF DepartureInv, LoggingIn, NewLoginAfterDeparture
<1>4. DepartureInv => TeamInv
  BY DEF DepartureInv
<1> QED
  BY <1>1, <1>2, <1>3, <1>4, NextInv, PTL DEF HSpec

HIDE DEF Saved, Save, Goto, Fails, Raised, Answered, Refused, Team, AlreadyInvited,
         Departed, remote, local, counts

(***************************************************************************)
(* The rescue.                                                             *)
(***************************************************************************)
InLoop == {"clearing", "removing", "confirming"}
Inviting == {"rescue_invite", "inviting", "invited"}

\* What the limit on removals rests on: the checkpoint counts every removal
\* but the one under way, and an interruption loses at most that one. Only a
\* stop may leave it uncounted, and the run is cancelled then.
Counting ==
  /\ interruptions \in Nat
  /\ at \in InLoop => removedNow = removedSaved
  /\ at \in {"removing", "confirming"} => removedNow < MaxRemovals
  /\ rescue # "cancelled" =>
       requests <= removedSaved + interruptions + (IF at = "confirming" THEN 1 ELSE 0)
  /\ requests <= MaxRemovals + interruptions

\* What keeps the invited child: the invitation is saved after the clearing,
\* and a checkpoint with both never leads back into the loop.
Clearing ==
  /\ "rescue_invite" \in saved => "rescue_clear" \in saved
  /\ at \in Inviting => "rescue_clear" \in saved
  /\ at \in InLoop => "rescue_invite" \notin saved
  /\ at = "removing" => target # "owner"

RescueInv == RescueTypeOK /\ Counting /\ Clearing

USE DEF RescueRaised, RunnerGone, Refuses, Interrupted, MoveTo, Keep,
        rescueTeam, rescueRun, rescueCounts

LEMMA NothingRemoved == 0 \in 0..MaxRemovals
BY RescueAssumption

LEMMA RescueInitInv == RescueInit => RescueInv
<1> SUFFICES ASSUME RescueInit
             PROVE  RescueInv
  OBVIOUS
<1>1. RescueTypeOK
  BY NothingRemoved DEF RescueInit, RescueTypeOK, RescueSteps, RescuePlaces, Nobody
<1>2. Counting
  BY RescueAssumption DEF RescueInit, Counting, InLoop
<1>3. Clearing
  BY DEF RescueInit, Clearing, InLoop, Inviting
<1> QED
  BY <1>1, <1>2, <1>3 DEF RescueInv

LEMMA LoopType ==
  ASSUME RescueInv, OwnerLogin \/ ClearTeamToOwner \/ NextRemoval \/ ClearRefused
                      \/ RemoveMember \/ WaitUntilMemberAbsent
  PROVE  RescueTypeOK'
<1> USE DEF RescueTypeOK, RescueSteps, RescuePlaces, Nobody
<1>1. CASE OwnerLogin \/ ClearTeamToOwner
  BY <1>1 DEF OwnerLogin, ClearTeamToOwner, RescueInv
<1>2. CASE NextRemoval
  BY <1>2 DEF NextRemoval, RescueInv
<1>3. CASE ClearRefused
  BY <1>3, NothingRemoved DEF ClearRefused, RescueInv
<1>4. CASE RemoveMember
  BY <1>4 DEF RemoveMember, RescueInv
<1>5. CASE WaitUntilMemberAbsent
  BY <1>5, RescueAssumption DEF WaitUntilMemberAbsent, RescueInv, Counting, InLoop
<1> QED
  BY <1>1, <1>2, <1>3, <1>4, <1>5

LEMMA LaterStagesType ==
  ASSUME RescueInv, EnsureRescueInvited \/ InviteNewChild \/ SaveRescueInvite
                      \/ NewChildLogin \/ VerifyRescueMembership \/ RescuePublish
  PROVE  RescueTypeOK'
<1> USE NothingRemoved DEF RescueInv, RescueTypeOK, RescueSteps, RescuePlaces, Nobody
<1>1. CASE EnsureRescueInvited
  BY <1>1 DEF EnsureRescueInvited
<1>2. CASE InviteNewChild \/ SaveRescueInvite \/ NewChildLogin
  BY <1>2 DEF InviteNewChild, SaveRescueInvite, NewChildLogin
<1>3. CASE VerifyRescueMembership
  BY <1>3 DEF VerifyRescueMembership
<1>4. CASE RescuePublish
  BY <1>4 DEF RescuePublish
<1> QED
  BY <1>1, <1>2, <1>3, <1>4

LEMMA RescueQueueType ==
  ASSUME RescueInv, RescueQueue
  PROVE  RescueTypeOK'
<1> USE NothingRemoved DEF RescueInv, RescueTypeOK, RescueSteps, RescuePlaces, Nobody
<1>1. CASE RescueBegin \/ RescueRetry \/ RescueRequestStop
  BY <1>1 DEF RescueBegin, RescueRetry, RescueRequestStop
<1>2. CASE RescueCrash \/ RescueError
  BY <1>2 DEF RescueCrash, RescueError
<1>3. CASE RescueCancel \/ RescueCommit
  BY <1>3 DEF RescueCancel, RescueCommit
<1>4. CASE RescueAgain
  BY <1>4 DEF RescueAgain
<1> QED
  BY <1>1, <1>2, <1>3, <1>4 DEF RescueQueue

LEMMA TeamType ==
  ASSUME RescueInv, RescueTeamMoves
  PROVE  RescueTypeOK'
<1> USE DEF RescueInv, RescueTypeOK
<1>1. CASE NewChildJoins
  BY <1>1 DEF NewChildJoins
<1>2. ASSUME NEW p \in Others \cup {"new"}, RemovalApplied(p) \/ (p # "new" /\ Meddle(p))
      PROVE  RescueTypeOK'
  BY <1>2 DEF RemovalApplied, Meddle
<1> QED
  BY <1>1, <1>2 DEF RescueTeamMoves

LEMMA StageKeeps ==
  ASSUME RescueInv, RescueStage
  PROVE  Counting' /\ Clearing'
<1> USE RescueAssumption
    DEF RescueInv, RescueTypeOK, RescuePlaces, Counting, Clearing, InLoop, Inviting
<1>1. CASE OwnerLogin
  BY <1>1 DEF OwnerLogin
<1>2. CASE ClearTeamToOwner
  BY <1>2 DEF ClearTeamToOwner, ClearLocked
<1>3. CASE NextRemoval
  BY <1>3 DEF NextRemoval
<1>4. CASE ClearRefused
  BY <1>4 DEF ClearRefused
<1>5. CASE RemoveMember
  BY <1>5 DEF RemoveMember
<1>6. CASE WaitUntilMemberAbsent
  BY <1>6 DEF WaitUntilMemberAbsent
<1>7. CASE EnsureRescueInvited
  BY <1>7 DEF EnsureRescueInvited
<1>8. CASE InviteNewChild \/ SaveRescueInvite \/ NewChildLogin
  BY <1>8 DEF InviteNewChild, SaveRescueInvite, NewChildLogin
<1>9. CASE VerifyRescueMembership
  BY <1>9 DEF VerifyRescueMembership
<1>10. CASE RescuePublish
  BY <1>10 DEF RescuePublish
<1> QED
  BY <1>1, <1>2, <1>3, <1>4, <1>5, <1>6, <1>7, <1>8, <1>9, <1>10 DEF RescueStage

LEMMA QueueKeeps ==
  ASSUME RescueInv, RescueQueue
  PROVE  Counting' /\ Clearing'
<1> USE RescueAssumption
    DEF RescueInv, RescueTypeOK, RescuePlaces, Counting, Clearing, InLoop, Inviting
<1>1. CASE RescueBegin
  BY <1>1 DEF RescueBegin
<1>2. CASE RescueCrash
  BY <1>2 DEF RescueCrash
<1>3. CASE RescueError
  BY <1>3 DEF RescueError
<1>4. CASE RescueRetry \/ RescueRequestStop
  BY <1>4 DEF RescueRetry, RescueRequestStop
<1>5. CASE RescueCancel
  BY <1>5 DEF RescueCancel
<1>6. CASE RescueAgain
  BY <1>6 DEF RescueAgain
<1>7. CASE RescueCommit
  BY <1>7 DEF RescueCommit
<1> QED
  BY <1>1, <1>2, <1>3, <1>4, <1>5, <1>6, <1>7 DEF RescueQueue

LEMMA RescueNextInv == RescueInv /\ [RescueNext]_rescueVars => RescueInv'
<1> SUFFICES ASSUME RescueInv, [RescueNext]_rescueVars
             PROVE  RescueInv'
  OBVIOUS
<1>1. CASE RescueStage
  BY <1>1, StageKeeps, LoopType, LaterStagesType DEF RescueStage, RescueInv
<1>2. CASE RescueQueue
  BY <1>2, QueueKeeps, RescueQueueType DEF RescueInv
<1>3. CASE RescueTeamMoves
  <2>1. /\ UNCHANGED <<requests, rescueRun, interruptions>>
    BY <1>3 DEF RescueTeamMoves, NewChildJoins, RemovalApplied, Meddle
  <2> QED
    BY <1>3, <2>1, TeamType DEF RescueInv, Counting, Clearing
<1>4. CASE UNCHANGED rescueVars
  BY <1>4 DEF rescueVars, RescueInv, RescueTypeOK, Counting, Clearing
<1> QED
  BY <1>1, <1>2, <1>3, <1>4 DEF RescueNext

\* The types of the rescue; a run is running exactly while its runner is at
\* work.
THEOREM RescueTypes == RescueSpec => []RescueTypeOK
<1>1. RescueInv => RescueTypeOK
  BY DEF RescueInv
<1> QED
  BY <1>1, RescueInitInv, RescueNextInv, PTL DEF RescueSpec

\* A run and its retries never ask for more removals than the limit, but for
\* one for each interruption.
THEOREM RemovalsLimited == RescueSpec => []RemovalsAreBounded
<1>1. RescueInv => RemovalsAreBounded
  BY DEF RescueInv, Counting, RemovalsAreBounded
<1> QED
  BY <1>1, RescueInitInv, RescueNextInv, PTL DEF RescueSpec

LEMMA RemovalStep ==
  RescueInv /\ [RescueNext]_rescueVars =>
    [\A p \in going' \ going : "rescue_invite" \notin saved /\ p # "owner"]_rescueVars
<1> SUFFICES ASSUME RescueInv, RescueNext, NEW p \in going' \ going
             PROVE  "rescue_invite" \notin saved /\ p # "owner"
  OBVIOUS
<1>1. ~RescueQueue
  BY DEF RescueQueue, RescueBegin, RescueCrash, RescueError, RescueRetry,
         RescueRequestStop, RescueCancel, RescueAgain, RescueCommit
<1>2. ~RescueTeamMoves
  BY DEF RescueTeamMoves, NewChildJoins, RemovalApplied, Meddle
<1>3. RemoveMember
  BY <1>1, <1>2
     DEF RescueNext, RescueStage, OwnerLogin, ClearTeamToOwner, NextRemoval, ClearRefused,
         WaitUntilMemberAbsent, EnsureRescueInvited, InviteNewChild, SaveRescueInvite,
         NewChildLogin, VerifyRescueMembership, RescuePublish
<1> QED
  BY <1>3 DEF RemoveMember, RescueInv, Clearing, InLoop

\* After its invitation was saved nobody is sent away by the run, and the
\* owner never is.
THEOREM InvitedKept == RescueSpec => InvitedChildIsKept
BY RemovalStep, RescueInitInv, RescueNextInv, PTL DEF RescueSpec, InvitedChildIsKept

(***************************************************************************)
(* The clearing ends, although others may be invited meanwhile: each round *)
(* of the loop takes one of the removals that the limit leaves.            *)
(***************************************************************************)
PlacesLeft ==
  [off |-> 0, returned |-> 1, publish |-> 2, pat |-> 3, rescue_verify |-> 4,
   new_login |-> 5, invited |-> 6, inviting |-> 7, rescue_invite |-> 8,
   confirming |-> 7, removing |-> 8, clearing |-> 9, rescue_clear |-> 10, owner_login |-> 11]

RoundsLeft ==
  IF at \in InLoop THEN 3 * (MaxRemovals - removedNow)
  ELSE IF at \in {"owner_login", "rescue_clear"} THEN 3 * MaxRemovals
  ELSE 0

RescueLeft == PlacesLeft[at] + RoundsLeft

\* Each stage of the rescue leaves less to do, and no other step more, except
\* that a new attempt starts over.
RescueAttemptsEnd ==
  [][/\ RescueStage => RescueLeft' < RescueLeft
     /\ RescueLeft' > RescueLeft => RescueBegin]_rescueVars

LEMMA RescueStagesShorten ==
  ASSUME RescueInv, RescueInv', RescueStage
  PROVE  RescueLeft' < RescueLeft
<1> USE DEF RescueLeft, PlacesLeft, RoundsLeft, InLoop
<1>1. /\ MaxRemovals \in Nat /\ removedNow \in 0..MaxRemovals /\ removedSaved \in 0..MaxRemovals
      /\ at \in {"removing", "confirming"} => removedNow < MaxRemovals
  BY RescueAssumption DEF RescueInv, RescueTypeOK, Counting
<1>2. CASE OwnerLogin
  BY <1>1, <1>2 DEF OwnerLogin
<1>3. CASE ClearTeamToOwner
  BY <1>1, <1>3 DEF ClearTeamToOwner
<1>4. CASE NextRemoval
  BY <1>1, <1>4 DEF NextRemoval
<1>5. CASE ClearRefused
  BY <1>1, <1>5 DEF ClearRefused
<1>6. CASE RemoveMember
  BY <1>1, <1>6 DEF RemoveMember
<1>7. CASE WaitUntilMemberAbsent
  BY <1>1, <1>7 DEF WaitUntilMemberAbsent
<1>8. CASE EnsureRescueInvited
  BY <1>1, <1>8 DEF EnsureRescueInvited
<1>9. CASE InviteNewChild \/ SaveRescueInvite \/ NewChildLogin
  BY <1>1, <1>9 DEF InviteNewChild, SaveRescueInvite, NewChildLogin
<1>10. CASE VerifyRescueMembership \/ RescuePublish
  BY <1>1, <1>10 DEF VerifyRescueMembership, RescuePublish
<1> QED
  BY <1>2, <1>3, <1>4, <1>5, <1>6, <1>7, <1>8, <1>9, <1>10 DEF RescueStage

\* An attempt takes at most 3 * MaxRemovals + 11 stages, however many others
\* are invited while it clears the Team.
THEOREM RescueEndsAttempts == RescueSpec => RescueAttemptsEnd
<1>1. RescueInv /\ RescueInv' /\ [RescueNext]_rescueVars =>
        [/\ RescueStage => RescueLeft' < RescueLeft
         /\ RescueLeft' > RescueLeft => RescueBegin]_rescueVars
  <2> SUFFICES ASSUME RescueInv, RescueInv', RescueNext
               PROVE  /\ RescueStage => RescueLeft' < RescueLeft
                      /\ RescueLeft' > RescueLeft => RescueBegin
    OBVIOUS
  <2>1. RescueLeft \in Nat /\ RescueLeft' \in Nat
    <3>1. /\ MaxRemovals \in Nat /\ removedNow \in 0..MaxRemovals /\ at \in RescuePlaces
          /\ removedNow' \in 0..MaxRemovals /\ at' \in RescuePlaces
      BY RescueAssumption DEF RescueInv, RescueTypeOK
    <3>2. \A n \in 0..MaxRemovals : 3 * (MaxRemovals - n) \in Nat
      <4>1. \A n \in 0..MaxRemovals : MaxRemovals - n \in Nat
        BY <3>1
      <4>2. \A k \in Nat : 3 * k \in Nat
        OBVIOUS
      <4> QED
        BY <4>1, <4>2
    <3>3. \A p \in RescuePlaces : PlacesLeft[p] \in Nat
      BY DEF RescuePlaces, PlacesLeft
    <3>4. RoundsLeft \in Nat /\ RoundsLeft' \in Nat
      <4>1. 0 \in 0..MaxRemovals /\ 3 * (MaxRemovals - 0) = 3 * MaxRemovals
        BY <3>1
      <4> QED
        BY <3>1, <3>2, <4>1 DEF RoundsLeft
    <3> QED
      BY <3>1, <3>3, <3>4 DEF RescueLeft
  <2>2. CASE RescueStage
    BY <2>1, <2>2, RescueStagesShorten
  <2>3. CASE RescueQueue /\ ~RescueStage
    <3>1. \/ RescueBegin
          \/ at' = "off"
          \/ UNCHANGED <<at, removedNow>>
      BY <2>3 DEF RescueQueue, RescueBegin, RescueCrash, RescueError, RescueRetry,
                  RescueRequestStop, RescueCancel, RescueAgain, RescueCommit
    <3>2. CASE at' = "off"
      <4>1. RescueLeft' = 0
        BY <3>2 DEF RescueLeft, PlacesLeft, RoundsLeft, InLoop
      <4> QED
        BY <2>1, <2>3, <4>1
    <3>3. CASE UNCHANGED <<at, removedNow>>
      BY <2>1, <2>3, <3>3 DEF RescueLeft, RoundsLeft
    <3> QED
      BY <2>3, <3>1, <3>2, <3>3
  <2>4. CASE RescueTeamMoves /\ ~RescueStage
    <3>1. UNCHANGED <<at, removedNow>>
      BY <2>4 DEF RescueTeamMoves, NewChildJoins, RemovalApplied, Meddle
    <3> QED
      BY <2>1, <2>4, <3>1 DEF RescueLeft, RoundsLeft
  <2> QED
    BY <2>2, <2>3, <2>4 DEF RescueNext
<1> QED
  BY <1>1, RescueInitInv, RescueNextInv, PTL DEF RescueSpec, RescueAttemptsEnd
=============================================================================
